------------------------------ MODULE Message ------------------------------
(***************************************************************************)
(* What becomes of a message: a worker of its thread takes a batch, routes *)
(* one message after the other -- command, reply, context or nothing --,   *)
(* carries out a command in its place, and merges the others to one turn   *)
(* with at most one reply, for which the images are fetched.  Threads      *)
(* share the switch for automatic replies, which a command sets, and the   *)
(* identity of the bot, which is known after the login.                    *)
(*                                                                         *)
(* The workers' queue is in WorkerPool, the turn in Turn; here a thread    *)
(* has an inbox, and the turn is one step.                                 *)
(***************************************************************************)
EXTENDS Content, FiniteSets

CONSTANTS
    Threads, Direct,   \* conversations, and those that are private
    Admins,            \* admin_ids
    Messages,          \* what may be said: [thread, user, content]
    Modes,             \* settings: [multimodal, vision]
    BatchMax, MaxImages,
    Cooldown,          \* auto_reply_cooldown
    IdleTtl,           \* after which an idle thread is forgotten
    MaxTurn,           \* the longest time a batch takes
    LastMessage,       \* messages that arrive (bound of the model)
    LastTime           \* time that passes (bound of the model)

ASSUME MessageAssumption ==
    /\ Direct \subseteq Threads /\ \A m \in Messages : m.thread \in Threads
    /\ BatchMax \in Nat \ {0} /\ MaxImages \in Nat
    /\ Cooldown \in Nat /\ MaxTurn \in Nat /\ IdleTtl \in Nat
    /\ Cooldown + MaxTurn <= IdleTtl
    /\ LastMessage \in Nat /\ LastTime \in Nat /\ Cooldown <= LastTime
    /\ \A m \in Messages : m.content \in Seq(STRING)
    (* Quotes are closed, as in any well-formed markup.                    *)
    /\ \A m \in Messages : Depth(m.content)[Len(m.content)] = 0
    /\ Modes \subseteq [multimodal : BOOLEAN, vision : BOOLEAN]

VARIABLES
    mode,      \* settings of the turn
    auto,      \* bot_config.auto_reply
    known,     \* has the login told who the bot is?
    clock,
    inbox,     \* messages of a thread not taken yet
    arrived,   \* how many messages have come
    proc,      \* the batch of a thread in progress
    lastReply, \* _last_auto_reply_at, or Never
    used,      \* _lock_last_used, or Never
    sent,      \* history: the replies in a thread
    setter     \* history: who set auto last

vars == <<mode, auto, known, clock, inbox, arrived, proc, lastReply, used,
          sent, setter>>

Never == -1
NoMessage == [thread |-> "", user |-> "", content |-> <<>>]
Idle == [at |-> "idle", batch |-> <<>>, burst |-> <<>>, cmd |-> NoMessage,
         got |-> <<>>, shown |-> <<>>]

-----------------------------------------------------------------------------
(* Routing                                                                 *)

MentionsBot(m) ==
    known /\ ParseMentions(m.content) \cap {"at-bot", "at-name"} # {}

IsExplicitRequest(t, m) == t \in Direct \/ MentionsBot(m)

NonReplyKinds == {"file"}

DecideReply(t, m, flag) ==
    /\ Kind(m.content) \notin NonReplyKinds
    /\ t \in Direct \/ flag \/ MentionsBot(m)

KeepInContext(respond, m) ==
    respond \/ Kind(m.content) = "text" \/ HasText(m.content)

(* Mutant: the time of the last reply is not looked at.                    *)
CooldownIgnored(t) == TRUE

CooldownElapsed(t) ==
    clock - (IF lastReply[t] = Never THEN 0 ELSE lastReply[t]) >= Cooldown

ShouldAllowAutoReply(t, m, dice) ==
    /\ auto /\ ~IsExplicitRequest(t, m)
    /\ CooldownElapsed(t) /\ dice

Everyone  == {"/help", "/ping", "/version", "/skills", "/skill"}
AdminOnly == {"/status", "/auto_reply", "/clear", "/compact", "/mcp", "/tools", "/context"}
Commands  == Everyone \cup AdminOnly

(* parse_command and resolve: the first word of a text that has no media.  *)
IsCommand(m) ==
    /\ Kind(m.content) = "text" /\ HasText(m.content)
    /\ CleanText(m.content)[1] \in Commands

Args(m) == Tail(CleanText(m.content))

(* route_incoming, but for what is known not to be a command.              *)
Action(t, m, flag) ==
    LET respond == DecideReply(t, m, flag)
    IN  IF ~KeepInContext(respond, m)
        THEN IF Kind(m.content) = "text" THEN "ignore" ELSE "media"
        ELSE IF respond THEN "reply" ELSE "context"

CanRun(m) == CleanText(m.content)[1] \in Everyone \/ m.user \in Admins

-----------------------------------------------------------------------------
(* Batches                                                                 *)

IsKept(r) == r.action \in {"reply", "context"}
Kept(t) == Chosen(proc[t].burst, {i \in DOMAIN proc[t].burst : IsKept(proc[t].burst[i])})

(* Some message of the burst wants a reply, some message that is kept was  *)
(* let through as an automatic reply, some message asks for the reply.     *)
Replies(t) == \E i \in DOMAIN proc[t].burst : proc[t].burst[i].action = "reply"
AnyFlag(t) ==
    \E i \in DOMAIN proc[t].burst : IsKept(proc[t].burst[i]) /\ proc[t].burst[i].flag
Asked(t) ==
    \E i \in DOMAIN proc[t].burst : proc[t].burst[i].action = "reply" /\ ~proc[t].burst[i].flag

(* The segment of messages has been dealt with: a command that ended it    *)
(* comes next, if there is one.                                            *)
AfterSegment(t) ==
    [proc[t] EXCEPT !.at = IF proc[t].cmd # NoMessage THEN "command" ELSE "route",
                    !.burst = <<>>, !.got = <<>>, !.shown = <<>>]

(* The message whose images are being fetched.                             *)
Current(t) == Kept(t)[Len(proc[t].shown) + 1]

(* How many images of message r are fetched: none without a vision         *)
(* service, nor for an automatic reply, unless the LLM sees them itself.   *)
Wanted(r) ==
    LET n == Len(ImageSrcs(r.msg.content))
    IN  IF mode.multimodal \/ (mode.vision /\ ~r.flag)
        THEN IF n < MaxImages THEN n ELSE MaxImages
        ELSE 0

Unknown == "?"
Waiting(t) ==
    [proc[t] EXCEPT !.at = "images",
                    !.got = [i \in 1..Wanted(Current(t)) |-> Unknown]]

(* The text of a message once its images are there or have failed.         *)
Text(t) ==
    LET got == proc[t].got
    IN  IF mode.multimodal
        THEN BuildMultimodalContent(LlmText(Current(t).msg.content), Without(got, {""}))
        ELSE ReplacePlaceholders(LlmText(Current(t).msg.content), got)

Shared == <<mode, known, inbox, arrived, clock>>

-----------------------------------------------------------------------------
Init ==
    /\ mode \in Modes /\ auto \in BOOLEAN /\ known = FALSE /\ clock = Cooldown
    /\ inbox = [t \in Threads |-> <<>>] /\ arrived = 0
    /\ proc = [t \in Threads |-> Idle]
    /\ lastReply = [t \in Threads |-> Never] /\ used = [t \in Threads |-> Never]
    /\ sent = [t \in Threads |-> <<>>]
    /\ setter = ""

Login ==
    /\ ~known /\ known' = TRUE
    /\ UNCHANGED <<mode, auto, clock, inbox, arrived, proc, lastReply, used, sent, setter>>

(* normalize: an event without content is dropped.                         *)
Arrive(m) ==
    /\ arrived < LastMessage
    /\ arrived' = arrived + 1
    /\ inbox' = IF m.content = <<>> THEN inbox ELSE [inbox EXCEPT ![m.thread] = Append(@, m)]
    /\ UNCHANGED <<mode, auto, known, clock, proc, lastReply, used, sent, setter>>

Take(t) ==
    /\ proc[t].at = "idle" /\ inbox[t] # <<>>
    /\ \E n \in 1..(IF Len(inbox[t]) < BatchMax THEN Len(inbox[t]) ELSE BatchMax) :
          /\ proc' = [proc EXCEPT ![t] = [Idle EXCEPT !.at = "route",
                                                      !.batch = SubSeq(inbox[t], 1, n)]]
          /\ inbox' = [inbox EXCEPT ![t] = SubSeq(@, n + 1, Len(@))]
    /\ used' = [used EXCEPT ![t] = clock]
    /\ UNCHANGED <<mode, auto, known, clock, arrived, lastReply, sent, setter>>

(* _process_batch: the next message is routed; a command, and the end of   *)
(* the batch, close the segment before it.                                 *)
Route(t) ==
    /\ proc[t].at = "route" /\ proc[t].batch # <<>>
    /\ LET m == Head(proc[t].batch)
           next == [proc[t] EXCEPT !.batch = Tail(@)]
       IN  \E dice \in BOOLEAN :
              LET flag == ShouldAllowAutoReply(t, m, dice)
              IN  proc' = [proc EXCEPT ![t] =
                     IF IsCommand(m)
                     THEN [next EXCEPT !.cmd = m,
                             !.at = IF proc[t].burst = <<>> THEN "command" ELSE "segment"]
                     ELSE [next EXCEPT !.burst = Append(@,
                             [msg |-> m, action |-> Action(t, m, flag), flag |-> flag, known |-> known]),
                             !.at = IF next.batch = <<>> THEN "segment" ELSE "route"]]
    /\ UNCHANGED <<Shared, auto, lastReply, used, sent, setter>>

(* dispatch_batch: without a message to reply to, what is kept only goes   *)
(* into the context.  The look whether to compact comes first and may fail *)
(* on the checkpoint; that is logged, and the segment is over.             *)
Segment(t) ==
    /\ proc[t].at = "segment"
    /\ \/ Replies(t) /\ proc' = [proc EXCEPT ![t] = Waiting(t)]
       \/ proc' = [proc EXCEPT ![t] = AfterSegment(t)]
    /\ UNCHANGED <<Shared, auto, lastReply, used, sent, setter>>

(* An image is downloaded, and described; one that fails is left empty.    *)
Describe(t, i) ==
    /\ proc[t].at = "images" /\ i \in DOMAIN proc[t].got /\ proc[t].got[i] = Unknown
    /\ \E d \in {"", ImageSrcs(Current(t).msg.content)[i]} :
          proc' = [proc EXCEPT ![t].got[i] = d]
    /\ UNCHANGED <<Shared, auto, lastReply, used, sent, setter>>

(* describe_image_node: all images of a message are there, or have failed. *)
Fetched(t) ==
    /\ proc[t].at = "images" /\ \A i \in DOMAIN proc[t].got : proc[t].got[i] # Unknown
    /\ LET failed == \E i \in DOMAIN proc[t].got : proc[t].got[i] = ""
           shown == Append(proc[t].shown, [text |-> Text(t), failed |-> failed])
       IN  proc' = [proc EXCEPT ![t] =
              IF Len(shown) = Len(Kept(t)) THEN [@ EXCEPT !.at = "turn", !.shown = shown]
              ELSE LET k == Kept(t)[Len(shown) + 1]
                   IN  [@ EXCEPT !.shown = shown,
                                 !.got = [i \in 1..Wanted(k) |-> Unknown]]]
    /\ UNCHANGED <<Shared, auto, lastReply, used, sent, setter>>

(* The graph answers, with nothing to say or with a text, which is sent;   *)
(* a failure to send is logged.                                            *)
Reply(t) ==
    /\ proc[t].at = "turn"
    /\ sent' = [sent EXCEPT ![t] = Append(@, [at |-> clock, asked |-> Asked(t)])]
    /\ lastReply' = IF AnyFlag(t) THEN [lastReply EXCEPT ![t] = clock] ELSE lastReply
    /\ proc' = [proc EXCEPT ![t] = AfterSegment(t)]
    /\ UNCHANGED <<Shared, auto, used, setter>>

(* The graph fails, or has no text: nothing is sent or noted.              *)
NoReply(t) ==
    /\ proc[t].at = "turn"
    /\ proc' = [proc EXCEPT ![t] = AfterSegment(t)]
    /\ UNCHANGED <<Shared, auto, lastReply, used, sent, setter>>

(* /auto_reply with one argument sets the switch, for an admin; a quote    *)
(* that is not closed is an error in the arguments.                        *)
Sets(m) ==
    /\ CanRun(m) /\ CleanText(m.content)[1] = "/auto_reply"
    /\ Len(Args(m)) = 1 /\ Args(m)[1] \in {"on", "off"}

(* _execute_command; its answer is sent whatever it is.                    *)
Command(t) ==
    /\ proc[t].at = "command"
    /\ LET m == proc[t].cmd
       IN  IF Sets(m)
           THEN auto' = (Args(m)[1] = "on") /\ setter' = m.user
           ELSE UNCHANGED <<auto, setter>>
    /\ proc' = [proc EXCEPT ![t] = [@ EXCEPT !.at = "route", !.cmd = NoMessage]]
    /\ UNCHANGED <<Shared, lastReply, used, sent>>

(* The end of a batch.  Threads that have been idle for long are forgotten *)
(* if cleaning up is due.                                                  *)
Done(t) ==
    /\ proc[t].at = "route" /\ proc[t].batch = <<>>
    /\ proc' = [proc EXCEPT ![t] = Idle]
    /\ \E due \in BOOLEAN :
          LET idle == {s \in Threads : due /\ proc'[s].at = "idle" /\ used[s] # Never
                                           /\ clock - used[s] > IdleTtl}
          IN  /\ used' = [s \in Threads |-> IF s \in idle THEN Never ELSE used[s]]
              /\ lastReply' = [s \in Threads |-> IF s \in idle THEN Never ELSE lastReply[s]]
    /\ UNCHANGED <<Shared, auto, sent, setter>>

(* Time passes while the threads wait for messages or for the LLM, and in  *)
(* no other step: only the times of routing and of replies are compared.   *)
Tick ==
    /\ clock < LastTime
    /\ \A t \in Threads : \/ proc[t].at = "idle"
                          \/ proc[t].at = "turn" /\ clock - used[t] < MaxTurn
    /\ clock' = clock + 1
    /\ UNCHANGED <<mode, auto, known, inbox, arrived, proc, lastReply, used, sent, setter>>

Finished ==
    /\ arrived = LastMessage /\ \A t \in Threads : proc[t].at = "idle" /\ inbox[t] = <<>>
    /\ UNCHANGED vars

Next ==
    \/ \E t \in Threads :
          \/ \E i \in 1..MaxImages : Describe(t, i)
          \/ Take(t) \/ Route(t) \/ Segment(t) \/ Fetched(t)
          \/ Reply(t) \/ NoReply(t) \/ Command(t) \/ Done(t)
    \/ \E m \in Messages : Arrive(m)
    \/ Login \/ Tick \/ Finished

Spec == Init /\ [][Next]_vars

-----------------------------------------------------------------------------
(* Properties                                                              *)

TypeOK ==
    /\ auto \in BOOLEAN /\ known \in BOOLEAN /\ clock \in Cooldown..LastTime
    /\ \A t \in Threads :
          /\ proc[t].at \in {"idle", "route", "segment", "images", "turn", "command"}
          /\ lastReply[t] \in {Never} \cup (0..clock) /\ used[t] \in {Never} \cup (0..clock)

(* Is a token inside of a quote?  Since one that was opened before it, more *)
(* quotes were opened than closed, all the way.                            *)
Met(c, token, j, k) == Cardinality({n \in j..k : c[n] = token})
Quoted(c, i) ==
    \E j \in 1..i : \A k \in j..i : Met(c, "<quote>", j, k) > Met(c, "</quote>", j, k)

(* Is the bot spoken to?  In private always, in a group by a mention that  *)
(* is not somebody else's, files aside, and if it knew its name.           *)
SpokenTo(t, r) ==
    LET c == r.msg.content
    IN  /\ \A i \in DOMAIN c : c[i] \in Files =>
              \E j \in 1..i : c[j] \in Images
        /\ t \in Direct \/ (r.known /\ \E i \in DOMAIN c :
                              c[i] \in {"at-bot", "at-name"} /\ ~Quoted(c, i))

(* The words of a text.                                                    *)
Words(text) ==
    Chosen(text, {i \in DOMAIN text :
                     text[i][1] = "text" /\ text[i][2] \notin Elements \cup {Placeholder}})

AllWords(texts) ==
    LET upTo[n \in 0..Len(texts)] ==
            IF n = 0 THEN <<>> ELSE upTo[n - 1] \o Words(texts[n])
    IN  upTo[Len(texts)]

(* However messages are merged, and whatever commands stand between them:  *)
(* who speaks to the bot is due a turn, with every word said since the     *)
(* last one, in order (it has none if the checkpoint cannot be read); a    *)
(* turn nobody asked for is one that the switch for automatic replies      *)
(* allowed; and only an admin's command sets that.                         *)
AsAsked ==
    /\ TypeOK /\ setter \in Admins \cup {""}
    /\ \A t \in Threads :
          LET burst == proc[t].burst
              spoken == \E i \in DOMAIN burst : SpokenTo(t, burst[i])
          IN  /\ proc[t].at = "route" /\ proc[t].batch = <<>> => burst = <<>>
              /\ proc[t].at = "segment" /\ spoken => Replies(t)
              /\ proc[t].at = "turn" =>
                    /\ spoken \/ \E i \in DOMAIN burst : burst[i].flag
                    /\ AllWords([i \in DOMAIN proc[t].shown |-> proc[t].shown[i].text])
                         = AllWords([i \in DOMAIN burst |-> LlmText(burst[i].msg.content)])

(* Two automatic replies in a thread are at least the cooldown apart, also *)
(* when the thread was forgotten in between.                               *)
Spaced ==
    \A t \in Threads : \A i, j \in DOMAIN sent[t] :
        i < j /\ ~sent[t][i].asked /\ ~sent[t][j].asked
            => sent[t][j].at - sent[t][i].at >= Cooldown

(* The LLM finds an image, or its description, where the sender put it,    *)
(* and a placeholder there if it could not be had: for every message of a  *)
(* turn, in whatever order the images arrive.  Not so if the sender typed  *)
(* a placeholder or commented an image out, nor if the LLM gets the images *)
(* themselves and one before failed.                                       *)
ImagesInPlace ==
    \A t \in Threads : \A k \in DOMAIN proc[t].shown :
        LET c == Kept(t)[k].msg.content
            see == Visible(c)
            text == proc[t].shown[k].text
        IN  \/ Placeholder \in ToSet(c)
            \/ ImageSrcs(c) # ImageSrcs(see)
            \/ mode.multimodal /\ proc[t].shown[k].failed
            \/ /\ Len(text) = Len(see)
               /\ \A i \in DOMAIN see :
                     IF see[i] \in Images THEN text[i] \in {Word(Placeholder), Pic(see[i])}
                     ELSE text[i] = Word(see[i])

=============================================================================
