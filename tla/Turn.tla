-------------------------------- MODULE Turn --------------------------------
(***************************************************************************)
(* One conversation as the dispatcher and the agent graph see it: bursts   *)
(* of messages arrive one at a time (the worker pool serializes them), the *)
(* context is compacted when it has grown too long, the burst is recorded  *)
(* or answered by a run of the LangGraph graph                             *)
(*   describe_image -> call_llm [-> tools -> skill_manager -> call_llm]    *)
(* the reply is sent and the turn published.  The graph checkpoints after  *)
(* every node, in the background; a stop or a crash of the process loses   *)
(* what has not reached the disk.                                          *)
(*                                                                         *)
(* Messages are numbered in order of arrival.  A checkpoint is reduced to  *)
(* the kinds of its messages, what its summary covers, the active skills   *)
(* and the round counter.                                                  *)
(***************************************************************************)
EXTENDS Integers, Sequences, FiniteSets

CONSTANTS
    LastMessage,  \* how many messages arrive (bound of the model)
    BatchMax,     \* messages in a burst at most
    MaxRounds,    \* rag_max_agent_rounds
    StepLimits,   \* graph_recursion_limit, as the bot may be configured
    Skills,       \* names in the skill registry
    Blank,        \* the empty skill name
    CallLists,    \* what the LLM may ask for in one message: lists of calls
    Crashes,      \* may the process die?
    EmptySummary  \* may the summarizing LLM answer with an empty text?

Call == [tool : {"load", "unload", "other"}, skill : Skills \cup {Blank}]

ASSUME TurnAssumption ==
    /\ LastMessage \in Nat /\ BatchMax \in Nat
    /\ MaxRounds \in Nat /\ StepLimits \subseteq Nat /\ StepLimits # {}
    /\ Blank \notin Skills
    /\ CallLists \subseteq Seq(Call)
    /\ Crashes \in BOOLEAN /\ EmptySummary \in BOOLEAN

VARIABLES
    limit,      \* the step limit of this deployment
    heard,      \* messages that have arrived
    stage,      \* where the dispatcher is with the current burst
    burst,      \* the messages of the burst
    wanted,     \* does a message of the burst ask for a reply?
    steps,      \* nodes run so far by this graph run; records appended so far
    disk,       \* the last checkpoint written
    unsaved,    \* later checkpoints, on their way to the disk
    text,       \* is there a reply text?
    cut,        \* history: bursts (their last message) whose run was cut
    cleared,    \* history: the messages that had arrived when /clear last ran
    sent,       \* history: bursts (their last message) whose reply was sent
    published   \* history: bursts published as ConversationTurnCompleted

vars == <<limit, heard, stage, burst, wanted, steps, disk, unsaved, text,
          cut, cleared, sent, published>>

-----------------------------------------------------------------------------
(* Entries of the message list.  An answer or a call belongs to the burst  *)
(* that ends with message `id`.                                            *)
Entry(kind, id, calls) == [kind |-> kind, id |-> id, calls |-> calls]
Human(id)  == Entry("human", id, <<>>)
Answer(id) == Entry("answer", id, <<>>)

Blanks == [messages |-> <<>>, summary |-> {}, skills |-> {}, rounds |-> 0]

(* The state the graph run works on: its newest checkpoint.                *)
Conv == IF unsaved = <<>> THEN disk ELSE unsaved[Len(unsaved)]

Humans(b) == [i \in DOMAIN b |-> Human(b[i])]

BurstId == burst[Len(burst)]

GraphStages == {"describe", "llm", "tools", "skills"}

Init ==
    /\ heard = 0 /\ stage = "idle" /\ burst = <<>> /\ wanted = FALSE
    /\ steps = 0 /\ disk = Blanks /\ unsaved = <<>> /\ text = FALSE
    /\ limit \in StepLimits
    /\ cut = {} /\ cleared = 0 /\ sent = {} /\ published = <<>>

-----------------------------------------------------------------------------
(* dispatch_batch: k consecutive messages, some of which may want a reply. *)
Hear(k) ==
    /\ stage = "idle" /\ heard + k <= LastMessage
    /\ heard' = heard + k
    /\ burst' = [i \in 1..k |-> heard + i]
    /\ wanted' \in BOOLEAN
    /\ stage' = "compact"
    /\ UNCHANGED <<limit, cut, steps, disk, unsaved, text, cleared, sent,
                   published>>

(* Mutant: what is kept may start anywhere.                                *)
KeepsFromAny(s, i) == TRUE

(* trim_messages(strategy="last", start_on="human"): what is kept behind   *)
(* the first i messages of s is nothing or starts with a human message.    *)
KeepsFrom(s, i) == i < Len(s) => s[i + 1].kind = "human"

(* Mutant: the old summary is not given to the LLM.                        *)
SummaryOfRest(old, gone) == gone

SummaryOf(old, gone) == old \cup gone

(* _compact_state with an LLM that answers: the older messages leave the   *)
(* checkpoint, the summary covers them and what it covered before -- or    *)
(* nothing, when the answer is empty.                                      *)
Summarize ==
    \E i \in 1..Len(disk.messages) :
        /\ KeepsFrom(disk.messages, i)
        /\ LET gone == {disk.messages[j] : j \in 1..i}
           IN  \E s \in {SummaryOf(disk.summary, gone)}
                          \cup (IF EmptySummary THEN {{}} ELSE {}) :
                  disk' = [disk EXCEPT
                             !.messages = SubSeq(@, i + 1, Len(@)),
                             !.summary = s]

(* compact_if_needed before the burst enters the context: below the        *)
(* threshold, with nothing old enough, or when the LLM fails, it does      *)
(* nothing.                                                                *)
Compact ==
    /\ stage = "compact"
    /\ Summarize \/ UNCHANGED disk
    /\ stage' = IF wanted THEN "invoke" ELSE "record"
    /\ UNCHANGED <<limit, cut, heard, burst, wanted, steps, unsaved, text,
                   cleared, sent, published>>

-----------------------------------------------------------------------------
(* graph.ainvoke: the burst is written to the state, the round counter is  *)
(* reset, and what the last run left to do is forgotten.                   *)
Invoke ==
    /\ stage = "invoke"
    /\ unsaved' = << [disk EXCEPT !.messages = @ \o Humans(burst), !.rounds = 0] >>
    /\ steps' = 0
    /\ text' = FALSE
    /\ stage' = "describe"
    /\ UNCHANGED <<limit, cut, heard, burst, wanted, disk, cleared, sent,
                   published>>

(* The checkpointer writes in order, behind the run's back.                *)
Save ==
    /\ unsaved # <<>>
    /\ disk' = Head(unsaved)
    /\ unsaved' = Tail(unsaved)
    /\ UNCHANGED <<limit, cut, heard, stage, burst, wanted, steps, text,
                   cleared, sent, published>>

(* Node `from` has run, leaving state c and node `to` to run.              *)
Node(from, c, to) ==
    /\ stage = from /\ steps < limit
    /\ unsaved' = Append(unsaved, c)
    /\ steps' = steps + 1
    /\ stage' = to
    /\ UNCHANGED <<limit, cut, heard, burst, wanted, disk, cleared, sent,
                   published>>

Say(entry) == [Conv EXCEPT !.messages = Append(@, entry)]

DescribeImage == Node("describe", Conv, "llm") /\ UNCHANGED text

(* Mutant: one round more.                                                 *)
ToolsOfferedMore == CallLists # {} /\ Conv.rounds <= MaxRounds

ToolsOffered == CallLists # {} /\ Conv.rounds < MaxRounds

(* call_llm: an answer (canned when the call fails, possibly without text) *)
(* or, while tools are offered, tool calls.                                *)
CallLLM ==
    \/ Node("llm", Say(Answer(BurstId)), "reply") /\ text' \in BOOLEAN
    \/ /\ ToolsOffered
       /\ \E calls \in CallLists :
             Node("llm",
                  [Say(Entry("calls", BurstId, calls)) EXCEPT !.rounds = @ + 1],
                  "tools")
       /\ text' = FALSE

(* ToolNode: every call gets its ToolMessage; handle_tool_errors turns the *)
(* exception of a tool into one.                                           *)
RunTools ==
    /\ Node("tools", Say(Entry("results", BurstId, <<>>)), "skills")
    /\ UNCHANGED text

(* Activating and releasing skills, call by call.                          *)
ApplyCall(active, call) ==
    CASE call.tool = "load" -> active \cup ({call.skill} \cap Skills)
      [] call.tool = "unload" -> active \ {call.skill}
      [] OTHER -> active

LastCalls == Conv.messages[Len(Conv.messages) - 1].calls

(* Mutant: only the first call of a message is looked at.                  *)
SkillsAfterFirst(active, calls) ==
    IF calls = <<>> THEN active ELSE ApplyCall(active, calls[1])

SkillsAfter(active, calls) ==
    LET after[n \in 0..Len(calls)] ==
            IF n = 0 THEN active ELSE ApplyCall(after[n - 1], calls[n])
    IN  after[Len(calls)]

(* deactivate_skill raises on an empty name.                               *)
Raises(calls) ==
    \E i \in DOMAIN calls : calls[i].tool = "unload" /\ calls[i].skill = Blank

ManageSkills ==
    /\ stage = "skills" /\ ~Raises(LastCalls)
    /\ Node("skills",
            [Conv EXCEPT !.skills = SkillsAfter(@, LastCalls)], "llm")
    /\ UNCHANGED text

(* ainvoke raised, after the pending checkpoints were written: the step    *)
(* limit is reached (whether a run of exactly `limit` nodes still returns  *)
(* is the library's choice), or a node failed.  Logged, and that was the   *)
(* turn.                                                                   *)
GraphFails ==
    /\ stage \in GraphStages \cup {"reply"} /\ unsaved = <<>>
    /\ \/ steps >= limit
       \/ stage = "skills" /\ Raises(LastCalls)
    /\ stage' = "idle"
    /\ burst' = <<>> /\ wanted' = FALSE /\ steps' = 0
    /\ cut' = cut \cup {BurstId}
    /\ UNCHANGED <<limit, heard, disk, unsaved, text, cleared, sent,
                   published>>

(* Mutant: the reply goes out before its checkpoint is known to be written.*)
RunReturnedEarly == stage = "reply"

(* Mutant: a run without a reply text is not seen to return.               *)
RunReturnedWithText == stage = "reply" /\ unsaved = <<>> /\ text

(* ainvoke returns when all checkpoints are written.                       *)
RunReturned == stage = "reply" /\ unsaved = <<>>

(* The reply is sent, if there is one; a failure to send is only logged.   *)
Reply ==
    /\ RunReturned
    /\ \/ text /\ sent' = sent \cup {BurstId}
       \/ UNCHANGED sent
    /\ stage' = "publish"
    /\ UNCHANGED <<limit, cut, heard, burst, wanted, steps, disk, unsaved,
                   text, cleared, published>>

(* Mutant: the loop appends the first record over and over.                *)
NextRecordFirst == burst[1]

NextRecord == burst[steps + 1]

(* Nobody wants a reply: the records are appended one by one.              *)
Record ==
    /\ stage = "record" /\ steps < Len(burst)
    /\ disk' = [disk EXCEPT !.messages = Append(@, Human(NextRecord))]
    /\ steps' = steps + 1
    /\ UNCHANGED <<limit, cut, heard, stage, burst, wanted, unsaved, text,
                   cleared, sent, published>>

(* An append failed: the exception ends the burst.                         *)
RecordFails ==
    /\ stage = "record" /\ steps < Len(burst)
    /\ stage' = "idle"
    /\ burst' = <<>> /\ wanted' = FALSE /\ steps' = 0
    /\ UNCHANGED <<limit, cut, heard, disk, unsaved, text, cleared, sent,
                   published>>

Recorded == stage = "record" /\ steps = Len(burst)

Publish ==
    /\ stage = "publish" \/ Recorded
    /\ published' = Append(published, burst)
    /\ stage' = "idle"
    /\ burst' = <<>> /\ wanted' = FALSE /\ steps' = 0
    /\ UNCHANGED <<limit, cut, heard, disk, unsaved, text, cleared, sent>>

-----------------------------------------------------------------------------
(* /clear and /compact, serialized with the bursts.                        *)
Clear ==
    /\ stage = "idle" /\ unsaved = <<>>
    /\ disk' = Blanks
    /\ cleared' = heard
    /\ UNCHANGED <<limit, cut, heard, stage, burst, wanted, steps, unsaved,
                   text, sent, published>>

ForceCompact ==
    /\ stage = "idle" /\ unsaved = <<>>
    /\ Summarize
    /\ UNCHANGED <<limit, cut, heard, stage, burst, wanted, steps, unsaved,
                   text, cleared, sent, published>>

(* The process dies (the stop script sends SIGTERM, which nobody handles)  *)
(* and is started again.                                                   *)
Crash ==
    /\ Crashes /\ stage # "idle"
    /\ stage' = "idle" /\ unsaved' = <<>>
    /\ burst' = <<>> /\ wanted' = FALSE /\ steps' = 0 /\ text' = FALSE
    /\ cut' = cut \cup {BurstId}
    /\ UNCHANGED <<limit, heard, disk, cleared, sent, published>>

TurnStep ==
    \/ Compact \/ Invoke \/ DescribeImage \/ CallLLM \/ RunTools \/ ManageSkills
    \/ GraphFails \/ Reply \/ Record \/ RecordFails \/ Publish

Next ==
    \/ \E k \in 1..BatchMax : Hear(k)
    \/ TurnStep \/ Save \/ Clear \/ ForceCompact \/ Crash

Spec == Init /\ [][Next]_vars

(* The event loop runs the worker and the checkpointer; every LLM, tool    *)
(* and HTTP call has a timeout.                                            *)
FairSpec == Spec /\ WF_vars(TurnStep) /\ WF_vars(Save)

-----------------------------------------------------------------------------
(* Properties                                                              *)

Entries == [kind : {"human", "answer", "calls", "results"},
            id : 0..LastMessage, calls : CallLists \cup {<<>>}]

State == [messages : Seq(Entries), summary : SUBSET Entries,
          skills : SUBSET Skills, rounds : Nat]

TypeOK ==
    /\ limit \in StepLimits /\ cut \subseteq 1..LastMessage
    /\ heard \in 0..LastMessage
    /\ stage \in GraphStages \cup {"idle", "compact", "invoke", "reply",
                                   "record", "publish"}
    /\ burst \in Seq(1..LastMessage)
    /\ wanted \in BOOLEAN /\ text \in BOOLEAN
    /\ steps \in Nat /\ cleared \in Nat
    /\ disk \in State
    /\ unsaved \in Seq(State)
    /\ sent \subseteq 1..LastMessage
    /\ published \in Seq(Seq(1..LastMessage))

Present(c, e) == e \in c.summary \/ \E i \in DOMAIN c.messages : c.messages[i] = e

(* The conversation keeps the order of arrival: in the message list the    *)
(* bursts follow each other, nothing is there twice, and the summary       *)
(* covers nothing younger than what the list still holds.                  *)
HistoryOrdered ==
    LET s == Conv.messages
    IN  /\ \A i, j \in DOMAIN s : i < j =>
              /\ s[i].id <= s[j].id
              /\ s[i].kind = "human" /\ s[j].kind = "human" => s[i].id < s[j].id
        /\ \A e \in Conv.summary : \A i \in DOMAIN s :
              s[i].kind = "human" => e.id < s[i].id

(* Every tool result stands right behind its call: compaction never tears  *)
(* them apart.                                                             *)
ResultsHaveCalls ==
    LET s == Conv.messages
    IN  \A i \in DOMAIN s : s[i].kind = "results" =>
            i > 1 /\ s[i - 1].kind = "calls"

(* Whenever the LLM is called, every tool call in the context has its      *)
(* results right behind it (chat completion APIs reject anything else),    *)
(* unless the run that made the call was cut off: by the end of the        *)
(* process, by the step limit, or by a node that raised.                   *)
CallsAnswered ==
    stage = "llm" =>
        LET s == Conv.messages
        IN  \A i \in DOMAIN s : s[i].kind = "calls" =>
                \/ i < Len(s) /\ s[i + 1].kind = "results"
                \/ s[i].id \in cut

(* The context of the LLM is well formed over any sequence of turns,       *)
(* compactions and restarts.                                               *)
ContextWellFormed == TypeOK /\ ResultsHaveCalls /\ CallsAnswered

(* A user never sees a reply that the bot may have forgotten after a       *)
(* restart: when it is sent, message and answer are on the disk; and a     *)
(* turn that is published, and so indexed for retrieval, is one the        *)
(* conversation remembers in full.  Only /clear removes them.              *)
SeenIsDurable ==
    /\ \A id \in sent : id > cleared =>
          Present(disk, Human(id)) /\ Present(disk, Answer(id))
    /\ \A n \in DOMAIN published : \A i \in DOMAIN published[n] :
          published[n][i] > cleared => Present(disk, Human(published[n][i]))

(* What has reached the disk is never lost by compaction, by a failed run  *)
(* or by a restart: it stays in the list or moves to the summary, until    *)
(* /clear.                                                                 *)
Remembers ==
    [][\/ cleared' # cleared
       \/ \A e \in disk.summary \cup {disk.messages[i] : i \in DOMAIN disk.messages} :
             Present(disk', e)]_vars

(* Before the LLM is called again, the skills of the last tool round have  *)
(* been loaded and released as asked (unless its run was cut off).         *)
SkillsApplied ==
    stage = "llm" =>
        \A i \in DOMAIN Conv.messages :
            LET calls == Conv.messages[i].calls
                Last(k) == \A n \in (k + 1)..Len(calls) : calls[n].skill # calls[k].skill
            IN  (/\ Conv.messages[i].kind = "calls"
                 /\ Conv.messages[i].id \notin cut
                 /\ \A j \in (i + 1)..Len(Conv.messages) : Conv.messages[j].kind # "calls")
                => \A k \in DOMAIN calls :
                      Last(k) /\ calls[k].skill \in Skills =>
                          /\ calls[k].tool = "load" => calls[k].skill \in Conv.skills
                          /\ calls[k].tool = "unload" => calls[k].skill \notin Conv.skills

(* A step limit with room for the rounds (describe, three nodes a round,   *)
(* the last call, one to spare) never cuts a run: at the round limit the   *)
(* LLM is called without tools and has to answer.                          *)
EndsWithAnswer ==
    (limit > 3 * MaxRounds + 2 /\ stage \in GraphStages \cup {"reply"})
        => steps < limit

(* Every turn ends, however eager the LLM is to call tools.                *)
TurnEnds == stage # "idle" ~> stage = "idle"

=============================================================================
