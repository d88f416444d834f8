--------------------------- MODULE MessageProofs ---------------------------
(***************************************************************************)
(* For any threads and messages and any merging of messages:               *)
(*   - automatic replies are spaced, with any cooldown and any length of a *)
(*     turn, as long as a thread is not forgotten before its cooldown and  *)
(*     its last turn can be over (MessageAssumption);                      *)
(*   - who speaks to the bot has a turn, with every word said, and nobody  *)
(*     else has, unless automatic replies are on;                          *)
(*   - the LLM finds the images of a message where they were sent.         *)
(* The second and the third need to know what the parser's functions make  *)
(* of a content of any length: that is by induction over its places.       *)
(***************************************************************************)
EXTENDS Message, SequenceTheorems, FiniteSetTheorems, TLAPS

-----------------------------------------------------------------------------
(* The inductive invariant                                                 *)

Stages  == {"idle", "route", "segment", "images", "turn", "command"}
Actions == {"reply", "context", "media", "ignore"}
Routed  == [msg : Messages, action : Actions, flag : BOOLEAN, known : BOOLEAN]
Sent    == [at : Int, asked : BOOLEAN]

ProcOK(p) ==
    /\ DOMAIN p = {"at", "batch", "burst", "cmd", "got", "shown"}
    /\ p.at \in Stages /\ p.batch \in Seq(Messages) /\ p.burst \in Seq(Routed)

(* A batch that waits for images or for the LLM has something to reply to. *)
HasReply(p) ==
    p.at \in {"images", "turn"} => \E i \in DOMAIN p.burst : p.burst[i].action = "reply"

Types ==
    /\ auto \in BOOLEAN /\ known \in BOOLEAN
    /\ clock \in Int /\ clock >= Cooldown
    /\ inbox \in [Threads -> Seq(Messages)]
    /\ DOMAIN proc = Threads
    /\ \A t \in Threads : ProcOK(proc[t]) /\ HasReply(proc[t])
    /\ lastReply \in [Threads -> Int] /\ used \in [Threads -> Int]
    /\ sent \in [Threads -> Seq(Sent)]

Unasked(t) == {i \in DOMAIN sent[t] : ~sent[t][i].asked}

(* No cooldown is under way that ends after moment c.                      *)
Free(t, c) == lastReply[t] = Never \/ c - lastReply[t] >= Cooldown

(* What is remembered of a thread is enough: the last automatic reply is   *)
(* the one noted, or is as long ago as the cooldown.                       *)
Noted ==
    \A t \in Threads : \A i \in Unasked(t) :
        \/ lastReply[t] # Never /\ lastReply[t] >= sent[t][i].at
        \/ clock - sent[t][i].at >= Cooldown

(* A message is let through only when the cooldown is over.                *)
LetThrough ==
    \A t \in Threads : \A i \in DOMAIN proc[t].burst :
        proc[t].burst[i].flag => Free(t, clock)

(* A reply comes while its batch is worked on, and that has a bound.       *)
Timely ==
    \A t \in Threads :
        /\ \A i \in DOMAIN sent[t] :
              /\ sent[t][i].at <= clock
              /\ used[t] # Never => sent[t][i].at <= used[t] + MaxTurn
        /\ proc[t].at # "idle" => used[t] # Never /\ clock - used[t] <= MaxTurn

SpacedInv == Types /\ Noted /\ LetThrough /\ Timely /\ Spaced

(* The history holds times.                                                *)
LEMMA SentAt ==
    ASSUME Types, NEW t \in Threads, NEW i \in DOMAIN sent[t]
    PROVE  sent[t][i].at \in Int
<1>1. sent[t] \in Seq(Sent)
  BY DEF Types
<1>2. DOMAIN sent[t] = 1..Len(sent[t])
  BY <1>1
<1>3. sent[t][i] \in Sent
  BY <1>1, <1>2
<1>4. QED
  BY <1>3 DEF Sent

-----------------------------------------------------------------------------
(* Steps inside of a batch                                                 *)

(* A step of one thread that keeps what its batch let through, or drops    *)
(* it, and neither sends nor notes anything.                               *)
LEMMA QuietStep ==
    ASSUME SpacedInv, NEW t \in Threads, NEW p,
           proc' = [proc EXCEPT ![t] = p], proc[t].at # "idle",
           ProcOK(p), HasReply(p), p.burst = <<>> \/ p.burst = proc[t].burst,
           auto' \in BOOLEAN, UNCHANGED <<known, clock, inbox, lastReply, used, sent>>
    PROVE  SpacedInv'
<1>1. \A s \in Threads : proc'[s] = IF s = t THEN p ELSE proc[s]
  BY DEF SpacedInv, Types
<1>2. Types'
  BY <1>1 DEF SpacedInv, Types
<1>3. Noted' /\ Spaced'
  BY DEF SpacedInv, Noted, Spaced, Unasked
<1>4. LetThrough'
  <2> SUFFICES ASSUME NEW s \in Threads, NEW i \in DOMAIN proc'[s].burst,
                      proc'[s].burst[i].flag
               PROVE  Free(s, clock)'
    BY DEF LetThrough
  <2>1. i \in DOMAIN proc[s].burst /\ proc[s].burst[i].flag
    BY <1>1
  <2>2. QED
    BY <2>1 DEF SpacedInv, LetThrough, Free
<1>5. Timely'
  BY <1>1 DEF SpacedInv, Timely
<1>6. QED
  BY <1>2, <1>3, <1>4, <1>5 DEF SpacedInv

(* What a segment leaves behind.                                           *)
LEMMA AfterSegmentOK ==
    ASSUME Types, NEW t \in Threads
    PROVE  /\ ProcOK(AfterSegment(t)) /\ HasReply(AfterSegment(t))
           /\ AfterSegment(t).burst = <<>> /\ AfterSegment(t).at # "idle"
<1>1. ProcOK(proc[t])
  BY DEF Types
<1>2. <<>> \in Seq(Routed)
  OBVIOUS
<1>3. AfterSegment(t).at \in {"command", "route"} /\ AfterSegment(t).burst = <<>>
  BY <1>1 DEF AfterSegment, ProcOK
<1>4. /\ DOMAIN AfterSegment(t) = DOMAIN proc[t]
      /\ AfterSegment(t).batch = proc[t].batch
  BY <1>1 DEF AfterSegment, ProcOK
<1>5. QED
  BY <1>1, <1>2, <1>3, <1>4 DEF ProcOK, HasReply, Stages

LEMMA SegmentKeepsInv ==
    ASSUME SpacedInv, NEW t \in Threads, Segment(t)
    PROVE  SpacedInv'
<1>1. ProcOK(proc[t])
  BY DEF SpacedInv, Types
<1>2. CASE Replies(t) /\ proc' = [proc EXCEPT ![t] = Waiting(t)]
  <2>1. /\ Waiting(t).at = "images" /\ Waiting(t).burst = proc[t].burst
        /\ Waiting(t).batch = proc[t].batch /\ DOMAIN Waiting(t) = DOMAIN proc[t]
    BY <1>1 DEF Waiting, ProcOK
  <2>2. ProcOK(Waiting(t)) /\ HasReply(Waiting(t))
    BY <1>1, <1>2, <2>1 DEF ProcOK, HasReply, Stages, Replies
  <2>3. QED
    BY <1>2, <2>1, <2>2, QuietStep DEF Segment, Shared, SpacedInv, Types
<1>3. CASE proc' = [proc EXCEPT ![t] = AfterSegment(t)]
  <2>1. ProcOK(AfterSegment(t)) /\ HasReply(AfterSegment(t)) /\ AfterSegment(t).burst = <<>>
    BY AfterSegmentOK DEF SpacedInv
  <2>2. QED
    BY <1>3, <2>1, QuietStep DEF Segment, Shared, SpacedInv, Types
<1>4. QED
  BY <1>2, <1>3 DEF Segment

LEMMA NoReplyKeepsInv ==
    ASSUME SpacedInv, NEW t \in Threads, NoReply(t)
    PROVE  SpacedInv'
<1>1. ProcOK(AfterSegment(t)) /\ HasReply(AfterSegment(t)) /\ AfterSegment(t).burst = <<>>
  BY AfterSegmentOK DEF SpacedInv
<1>2. QED
  BY <1>1, QuietStep DEF NoReply, Shared, SpacedInv, Types

LEMMA DescribeKeepsInv ==
    ASSUME SpacedInv, NEW t \in Threads, NEW n, Describe(t, n)
    PROVE  SpacedInv'
<1>1. ProcOK(proc[t]) /\ HasReply(proc[t])
  BY DEF SpacedInv, Types
<1>2. PICK d : proc' = [proc EXCEPT ![t].got[n] = d]
  BY DEF Describe
<1> DEFINE p == [proc[t] EXCEPT !.got[n] = d]
<1>3. proc' = [proc EXCEPT ![t] = p]
  BY <1>2
<1>4. /\ p.at = proc[t].at /\ p.burst = proc[t].burst /\ p.batch = proc[t].batch
      /\ DOMAIN p = DOMAIN proc[t]
  BY <1>1 DEF ProcOK
<1>5. ProcOK(p) /\ HasReply(p)
  BY <1>1, <1>4 DEF ProcOK, HasReply
<1> HIDE DEF p
<1>6. QED
  BY <1>3, <1>4, <1>5, QuietStep DEF Describe, Shared, SpacedInv, Types

LEMMA FetchedKeepsInv ==
    ASSUME SpacedInv, NEW t \in Threads, Fetched(t)
    PROVE  SpacedInv'
<1>1. ProcOK(proc[t]) /\ HasReply(proc[t])
  BY DEF SpacedInv, Types
<1> DEFINE shown == Append(proc[t].shown,
                [text |-> Text(t), failed |-> \E i \in DOMAIN proc[t].got : proc[t].got[i] = ""])
           got == [i \in 1..Wanted(Kept(t)[Len(shown) + 1]) |-> Unknown]
           p == IF Len(shown) = Len(Kept(t)) THEN [proc[t] EXCEPT !.at = "turn", !.shown = shown]
                ELSE [proc[t] EXCEPT !.shown = shown, !.got = got]
<1>2. proc' = [proc EXCEPT ![t] = p]
  BY DEF Fetched
<1>3. proc[t].at = "images"
  BY DEF Fetched
<1>4. /\ p.at \in {"images", "turn"} /\ p.burst = proc[t].burst /\ p.batch = proc[t].batch
      /\ DOMAIN p = DOMAIN proc[t]
  <2> HIDE DEF shown, got
  <2> QED
    BY <1>1, <1>3 DEF ProcOK
<1> HIDE DEF p
<1>5. ProcOK(p) /\ HasReply(p)
  BY <1>1, <1>3, <1>4 DEF ProcOK, HasReply, Stages
<1>6. QED
  BY <1>2, <1>3, <1>4, <1>5, QuietStep DEF Fetched, Shared, SpacedInv, Types

LEMMA CommandKeepsInv ==
    ASSUME SpacedInv, NEW t \in Threads, Command(t)
    PROVE  SpacedInv'
<1> DEFINE p == [proc[t] EXCEPT !.at = "route", !.cmd = NoMessage]
<1>1. ProcOK(proc[t])
  BY DEF SpacedInv, Types
<1>2. proc' = [proc EXCEPT ![t] = p]
  BY DEF Command
<1>3. /\ p.at = "route" /\ p.burst = proc[t].burst /\ p.batch = proc[t].batch
      /\ DOMAIN p = DOMAIN proc[t]
  BY <1>1 DEF ProcOK
<1>4. ProcOK(p) /\ HasReply(p)
  BY <1>1, <1>3 DEF ProcOK, HasReply, Stages
<1> HIDE DEF p
<1>5. auto' \in BOOLEAN
  BY DEF Command, SpacedInv, Types
<1>6. QED
  BY <1>2, <1>3, <1>4, <1>5, QuietStep DEF Command, Shared, SpacedInv, Types

-----------------------------------------------------------------------------
(* Routing                                                                 *)

LEMMA ActionType ==
    ASSUME NEW t, NEW m, NEW flag
    PROVE  Action(t, m, flag) \in Actions
BY DEF Action, Actions

(* The bookkeeping of a thread is told when a message is let through.      *)
LEMMA AllowedIsFree ==
    ASSUME Types, NEW t \in Threads, NEW m, NEW dice,
           ShouldAllowAutoReply(t, m, dice)
    PROVE  Free(t, clock)
BY DEF ShouldAllowAutoReply, CooldownElapsed, Free

LEMMA RouteKeepsInv ==
    ASSUME SpacedInv, NEW t \in Threads, Route(t)
    PROVE  SpacedInv'
<1>1. ProcOK(proc[t]) /\ HasReply(proc[t]) /\ proc[t].at = "route" /\ proc[t].batch # <<>>
  BY DEF SpacedInv, Types, Route
<1>2. Head(proc[t].batch) \in Messages /\ Tail(proc[t].batch) \in Seq(Messages)
  BY <1>1, HeadTailProperties DEF ProcOK
<1> DEFINE m == Head(proc[t].batch)
           next == [proc[t] EXCEPT !.batch = Tail(@)]
<1>3. PICK dice \in BOOLEAN :
        LET flag == ShouldAllowAutoReply(t, m, dice)
        IN  proc' = [proc EXCEPT ![t] =
              IF IsCommand(m)
              THEN [next EXCEPT !.cmd = m,
                      !.at = IF proc[t].burst = <<>> THEN "command" ELSE "segment"]
              ELSE [next EXCEPT !.burst = Append(@,
                      [msg |-> m, action |-> Action(t, m, flag), flag |-> flag, known |-> known]),
                      !.at = IF next.batch = <<>> THEN "segment" ELSE "route"]]
  BY DEF Route
<1> DEFINE flag == ShouldAllowAutoReply(t, m, dice)
           rec == [msg |-> m, action |-> Action(t, m, flag), flag |-> flag, known |-> known]
           byCommand == [next EXCEPT !.cmd = m,
                            !.at = IF proc[t].burst = <<>> THEN "command" ELSE "segment"]
           byMessage == [next EXCEPT !.burst = Append(@, rec),
                            !.at = IF next.batch = <<>> THEN "segment" ELSE "route"]
<1>4. /\ DOMAIN next = DOMAIN proc[t] /\ next.batch = Tail(proc[t].batch)
      /\ next.burst = proc[t].burst
  BY <1>1 DEF ProcOK
<1>5. UNCHANGED <<known, clock, inbox, lastReply, used, sent, auto>>
  BY DEF Route, Shared
<1>6. CASE IsCommand(m)
  <2>1. proc' = [proc EXCEPT ![t] = byCommand]
    BY <1>3, <1>6
  <2> HIDE DEF next, m
  <2>2. /\ DOMAIN byCommand = DOMAIN proc[t] /\ byCommand.batch = Tail(proc[t].batch)
        /\ byCommand.burst = proc[t].burst /\ byCommand.at \in {"command", "segment"}
    BY <1>1, <1>4 DEF ProcOK
  <2> HIDE DEF byCommand
  <2>3. ProcOK(byCommand) /\ HasReply(byCommand)
    BY <1>1, <1>2, <2>2 DEF ProcOK, HasReply, Stages
  <2>4. QED
    BY <1>1, <1>5, <2>1, <2>2, <2>3, QuietStep DEF SpacedInv, Types
<1>7. CASE ~IsCommand(m)
  <2>1. proc' = [proc EXCEPT ![t] = byMessage]
    BY <1>3, <1>7
  <2>2. flag \in BOOLEAN
    BY DEF ShouldAllowAutoReply
  <2>3. rec \in Routed
    BY <1>2, <2>2, ActionType DEF Routed, SpacedInv, Types
  <2>4. flag => Free(t, clock)
    BY AllowedIsFree DEF SpacedInv
  <2>5. rec.flag = flag
    OBVIOUS
  <2> HIDE DEF next, m, rec, flag
  <2>6. /\ DOMAIN byMessage = DOMAIN proc[t] /\ byMessage.batch = Tail(proc[t].batch)
        /\ byMessage.burst = Append(proc[t].burst, rec) /\ byMessage.at \in {"route", "segment"}
    BY <1>1, <1>4 DEF ProcOK
  <2> HIDE DEF byMessage
  <2>7. /\ Append(proc[t].burst, rec) \in Seq(Routed)
        /\ \A i \in DOMAIN Append(proc[t].burst, rec) :
              \/ i \in DOMAIN proc[t].burst /\ Append(proc[t].burst, rec)[i] = proc[t].burst[i]
              \/ Append(proc[t].burst, rec)[i] = rec
    BY <1>1, <2>3 DEF ProcOK
  <2>8. ProcOK(byMessage) /\ HasReply(byMessage)
    BY <1>1, <1>2, <2>6, <2>7 DEF ProcOK, HasReply, Stages
  <2>9. \A s \in Threads : proc'[s] = IF s = t THEN byMessage ELSE proc[s]
    BY <2>1 DEF SpacedInv, Types
  <2>10. Types'
    BY <1>5, <2>1, <2>8, <2>9 DEF SpacedInv, Types
  <2>11. Noted' /\ Spaced'
    BY <1>5 DEF SpacedInv, Noted, Spaced, Unasked
  <2>12. LetThrough'
    <3> SUFFICES ASSUME NEW s \in Threads, NEW i \in DOMAIN proc'[s].burst,
                        proc'[s].burst[i].flag
                 PROVE  Free(s, clock)'
      BY DEF LetThrough
    <3>1. Free(s, clock)
      <4>1. CASE s # t
        BY <2>9, <4>1 DEF SpacedInv, LetThrough
      <4>2. CASE s = t
        BY <2>4, <2>5, <2>6, <2>7, <2>9, <4>2, SMTT(30) DEF SpacedInv, LetThrough
      <4>3. QED
        BY <4>1, <4>2
    <3>2. QED
      BY <1>5, <3>1 DEF Free
  <2>13. Timely'
    BY <1>1, <1>5, <2>6, <2>9 DEF SpacedInv, Timely
  <2>14. QED
    BY <2>10, <2>11, <2>12, <2>13 DEF SpacedInv
<1>8. QED
  BY <1>6, <1>7

-----------------------------------------------------------------------------
(* The reply                                                               *)

(* A turn nobody asked for notes the time of its reply, and was let        *)
(* through when the cooldown was over.                                     *)
LEMMA UnaskedIsFlagged ==
    ASSUME SpacedInv, NEW t \in Threads, proc[t].at = "turn", ~Asked(t)
    PROVE  AnyFlag(t) /\ Free(t, clock)
<1>1. PICK i \in DOMAIN proc[t].burst : proc[t].burst[i].action = "reply"
  BY DEF SpacedInv, Types, HasReply
<1>2. proc[t].burst[i].flag
  BY <1>1 DEF Asked
<1>3. QED
  BY <1>1, <1>2 DEF AnyFlag, IsKept, SpacedInv, LetThrough

LEMMA ReplyKeepsInv ==
    ASSUME SpacedInv, NEW t \in Threads, Reply(t)
    PROVE  SpacedInv'
<1> DEFINE p == AfterSegment(t)
           reply == [at |-> clock, asked |-> Asked(t)]
<1>1. ProcOK(p) /\ HasReply(p) /\ p.burst = <<>> /\ p.at # "idle"
  BY AfterSegmentOK DEF SpacedInv
<1>2. UNCHANGED <<known, clock, inbox, used, auto>>
  BY DEF Reply, Shared
<1>3. proc' = [proc EXCEPT ![t] = p] /\ proc[t].at = "turn"
  BY DEF Reply
<1> HIDE DEF p
<1>4. \A s \in Threads : proc'[s] = IF s = t THEN p ELSE proc[s]
  BY <1>3 DEF SpacedInv, Types
<1>5. reply \in Sent /\ reply.at = clock /\ reply.asked = Asked(t)
  BY DEF Sent, SpacedInv, Types, Asked
<1>6. sent' = [sent EXCEPT ![t] = Append(@, reply)]
  BY DEF Reply
<1> HIDE DEF reply
<1>7. Append(sent[t], reply) \in Seq(Sent)
  BY <1>5 DEF SpacedInv, Types
<1>8. lastReply' = IF AnyFlag(t) THEN [lastReply EXCEPT ![t] = clock] ELSE lastReply
  BY DEF Reply
<1>9. /\ sent'[t] = Append(sent[t], reply)
      /\ \A s \in Threads : s # t => sent'[s] = sent[s] /\ lastReply'[s] = lastReply[s]
      /\ lastReply'[t] = IF AnyFlag(t) THEN clock ELSE lastReply[t]
  BY <1>6, <1>8 DEF SpacedInv, Types
<1>10. /\ DOMAIN sent[t] = 1..Len(sent[t]) /\ Len(sent[t]) \in Nat
       /\ DOMAIN sent'[t] = 1..(Len(sent[t]) + 1)
       /\ sent'[t][Len(sent[t]) + 1] = reply
       /\ \A i \in DOMAIN sent[t] : sent'[t][i] = sent[t][i]
  BY <1>5, <1>9 DEF SpacedInv, Types
<1>11. Types'
  <2>1. lastReply' \in [Threads -> Int]
    BY <1>8 DEF SpacedInv, Types
  <2>2. sent' \in [Threads -> Seq(Sent)]
    BY <1>6, <1>7 DEF SpacedInv, Types
  <2>3. QED
    BY <1>1, <1>2, <1>3, <1>4, <2>1, <2>2 DEF SpacedInv, Types
<1>12. clock \in Int /\ clock >= 0 /\ Cooldown \in Nat /\ Never = -1
  BY MessageAssumption DEF SpacedInv, Types, MessageAssumption, Never
(* The time of a reply nobody asked for is the time noted; what was noted  *)
(* before only grows.                                                      *)
<1>13. Noted'
  <2> SUFFICES ASSUME NEW s \in Threads, NEW i \in DOMAIN sent'[s], ~sent'[s][i].asked
               PROVE  \/ lastReply'[s] # Never /\ lastReply'[s] >= sent'[s][i].at
                      \/ clock - sent'[s][i].at >= Cooldown
    BY <1>2 DEF Noted, Unasked
  <2>1. CASE s # t
    BY <1>9, <2>1 DEF SpacedInv, Noted, Unasked
  <2>2. CASE s = t /\ i \in DOMAIN sent[t]
    <3>1. sent'[s][i] = sent[t][i] /\ sent[t][i].at <= clock
      BY <1>10, <2>2 DEF SpacedInv, Timely
    <3>2. \/ lastReply[t] # Never /\ lastReply[t] >= sent[t][i].at
          \/ clock - sent[t][i].at >= Cooldown
      BY <2>2, <3>1 DEF SpacedInv, Noted, Unasked
    <3>3. QED
      BY <1>9, <1>12, <2>2, <3>1, <3>2
  <2>3. CASE s = t /\ i = Len(sent[t]) + 1
    <3>1. sent'[s][i] = reply
      BY <1>10, <2>3
    <3>2. AnyFlag(t)
      BY <1>3, <1>5, <3>1, UnaskedIsFlagged
    <3>3. lastReply'[s] = clock
      BY <1>9, <2>3, <3>2
    <3>4. QED
      BY <1>5, <1>12, <3>1, <3>3
  <2>4. QED
    BY <1>10, <2>1, <2>2, <2>3
<1>14. LetThrough'
  <2> SUFFICES ASSUME NEW s \in Threads, NEW i \in DOMAIN proc'[s].burst,
                      proc'[s].burst[i].flag
               PROVE  Free(s, clock)'
    BY DEF LetThrough
  <2>1. s # t
    BY <1>1, <1>4
  <2>2. Free(s, clock)
    BY <1>4, <2>1 DEF SpacedInv, LetThrough
  <2>3. QED
    BY <1>2, <1>9, <2>1, <2>2 DEF Free
<1>15. Timely'
  <2>1. used[t] # Never /\ clock - used[t] <= MaxTurn
    BY <1>3 DEF SpacedInv, Timely
  <2>2. used[t] \in Int /\ MaxTurn \in Nat
    BY MessageAssumption DEF SpacedInv, Types, MessageAssumption
  <2>3. ASSUME NEW s \in Threads, NEW i \in DOMAIN sent'[s]
        PROVE  /\ sent'[s][i].at <= clock
               /\ used[s] # Never => sent'[s][i].at <= used[s] + MaxTurn
    <3>1. CASE s # t
      BY <1>9, <2>3, <3>1 DEF SpacedInv, Timely
    <3>2. CASE s = t /\ i \in DOMAIN sent[t]
      BY <1>10, <3>2 DEF SpacedInv, Timely
    <3>3. CASE s = t /\ i = Len(sent[t]) + 1
      BY <1>5, <1>10, <1>12, <2>1, <2>2, <3>3
    <3>4. QED
      BY <1>10, <2>3, <3>1, <3>2, <3>3
  <2>4. ASSUME NEW s \in Threads, proc'[s].at # "idle"
        PROVE  used[s] # Never /\ clock - used[s] <= MaxTurn
    BY <1>4, <2>1, <2>4 DEF SpacedInv, Timely
  <2>5. QED
    BY <1>2, <2>3, <2>4 DEF Timely
<1>16. Spaced'
  <2> SUFFICES ASSUME NEW s \in Threads, NEW i \in DOMAIN sent'[s], NEW j \in DOMAIN sent'[s],
                      i < j, ~sent'[s][i].asked, ~sent'[s][j].asked
               PROVE  sent'[s][j].at - sent'[s][i].at >= Cooldown
    BY DEF Spaced
  <2>1. CASE s # t
    BY <1>9, <2>1 DEF SpacedInv, Spaced
  <2>2. CASE s = t /\ j \in DOMAIN sent[t]
    BY <1>10, <2>2 DEF SpacedInv, Spaced
  <2>3. CASE s = t /\ j = Len(sent[t]) + 1
    <3>1. i \in DOMAIN sent[t] /\ sent'[s][i] = sent[t][i] /\ sent'[s][j] = reply
      BY <1>10, <2>3
    <3>2. Free(t, clock)
      BY <1>3, <1>5, <3>1, UnaskedIsFlagged
    <3>3. \/ lastReply[t] # Never /\ lastReply[t] >= sent[t][i].at
          \/ clock - sent[t][i].at >= Cooldown
      BY <3>1 DEF SpacedInv, Noted, Unasked
    <3>4. sent[t][i].at \in Int /\ lastReply[t] \in Int
      BY <3>1, SentAt DEF SpacedInv, Types
    <3>5. QED
      BY <1>5, <1>12, <3>1, <3>2, <3>3, <3>4 DEF Free
  <2>4. QED
    BY <1>10, <2>1, <2>2, <2>3
<1>17. QED
  BY <1>11, <1>13, <1>14, <1>15, <1>16 DEF SpacedInv

-----------------------------------------------------------------------------
(* Batches begin and end, messages come, time passes                       *)

LEMMA TakeKeepsInv ==
    ASSUME SpacedInv, NEW t \in Threads, Take(t)
    PROVE  SpacedInv'
<1>1. PICK n \in 1..(IF Len(inbox[t]) < BatchMax THEN Len(inbox[t]) ELSE BatchMax) :
        /\ proc' = [proc EXCEPT ![t] = [Idle EXCEPT !.at = "route",
                                                    !.batch = SubSeq(inbox[t], 1, n)]]
        /\ inbox' = [inbox EXCEPT ![t] = SubSeq(@, n + 1, Len(@))]
  BY DEF Take
<1> DEFINE p == [Idle EXCEPT !.at = "route", !.batch = SubSeq(inbox[t], 1, n)]
<1>2. UNCHANGED <<known, clock, lastReply, sent, auto>> /\ used' = [used EXCEPT ![t] = clock]
  BY DEF Take
<1>3. inbox[t] \in Seq(Messages) /\ BatchMax \in Nat
  BY MessageAssumption DEF SpacedInv, Types, MessageAssumption
<1>4. n \in Nat /\ n <= Len(inbox[t]) /\ Len(inbox[t]) \in Nat
  BY <1>3
<1>5. \A i \in 1..Len(inbox[t]) : inbox[t][i] \in Messages
  BY <1>3
<1>6. SubSeq(inbox[t], 1, n) \in Seq(Messages)
  BY <1>4, <1>5, SubSeqProperties
<1>7. SubSeq(inbox[t], n + 1, Len(inbox[t])) \in Seq(Messages)
  BY <1>4, <1>5, SubSeqProperties
<1>8. /\ DOMAIN p = {"at", "batch", "burst", "cmd", "got", "shown"}
      /\ p.at = "route" /\ p.burst = <<>> /\ p.batch = SubSeq(inbox[t], 1, n)
  BY DEF Idle
<1> HIDE DEF p
<1>9. ProcOK(p) /\ HasReply(p) /\ <<>> \in Seq(Routed)
  BY <1>6, <1>8 DEF ProcOK, HasReply, Stages
<1>10. \A s \in Threads : proc'[s] = IF s = t THEN p ELSE proc[s]
  BY <1>1 DEF SpacedInv, Types, p
<1>11. Types'
  <2>1. inbox' \in [Threads -> Seq(Messages)]
    BY <1>1, <1>7 DEF SpacedInv, Types
  <2>2. used' \in [Threads -> Int]
    BY <1>2 DEF SpacedInv, Types
  <2>3. DOMAIN proc' = Threads
    BY <1>1 DEF SpacedInv, Types
  <2>4. QED
    BY <1>2, <1>9, <1>10, <2>1, <2>2, <2>3 DEF SpacedInv, Types
<1>12. Noted' /\ Spaced'
  BY <1>2 DEF SpacedInv, Noted, Spaced, Unasked
<1>13. LetThrough'
  <2> SUFFICES ASSUME NEW s \in Threads, NEW i \in DOMAIN proc'[s].burst,
                      proc'[s].burst[i].flag
               PROVE  Free(s, clock)'
    BY DEF LetThrough
  <2>1. s # t
    BY <1>8, <1>10
  <2>2. Free(s, clock)
    BY <1>10, <2>1 DEF SpacedInv, LetThrough
  <2>3. QED
    BY <1>2, <2>2 DEF Free
<1>14. Timely'
  <2>1. clock \in Int /\ clock >= 0 /\ MaxTurn \in Nat /\ Never = -1
    BY MessageAssumption DEF SpacedInv, Types, MessageAssumption, Never
  <2>2. \A s \in Threads : used'[s] = IF s = t THEN clock ELSE used[s]
    BY <1>2 DEF SpacedInv, Types
  <2>3. ASSUME NEW s \in Threads, NEW i \in DOMAIN sent[s]
        PROVE  /\ sent[s][i].at <= clock
               /\ used'[s] # Never => sent[s][i].at <= used'[s] + MaxTurn
    <3>1. sent[s][i].at \in Int
      BY <2>3, SentAt DEF SpacedInv
    <3>2. QED
      BY <2>1, <2>2, <2>3, <3>1 DEF SpacedInv, Timely
  <2>4. ASSUME NEW s \in Threads, proc'[s].at # "idle"
        PROVE  used'[s] # Never /\ clock - used'[s] <= MaxTurn
    <3>1. CASE s = t
      BY <2>1, <2>2, <3>1
    <3>2. CASE s # t
      BY <1>10, <2>2, <2>4, <3>2 DEF SpacedInv, Timely
    <3>3. QED
      BY <3>1, <3>2
  <2>5. QED
    BY <1>2, <2>3, <2>4 DEF Timely
<1>15. QED
  BY <1>11, <1>12, <1>13, <1>14 DEF SpacedInv

(* What is forgotten of a thread is of no use any more: its last batch is  *)
(* longer ago than a turn and the cooldown last together.                  *)
LEMMA DoneKeepsInv ==
    ASSUME SpacedInv, NEW t \in Threads, Done(t)
    PROVE  SpacedInv'
<1>1. PICK due \in BOOLEAN :
        LET idle == {s \in Threads : due /\ proc'[s].at = "idle" /\ used[s] # Never
                                         /\ clock - used[s] > IdleTtl}
        IN  /\ used' = [s \in Threads |-> IF s \in idle THEN Never ELSE used[s]]
            /\ lastReply' = [s \in Threads |-> IF s \in idle THEN Never ELSE lastReply[s]]
  BY DEF Done
<1> DEFINE idle == {s \in Threads : due /\ proc'[s].at = "idle" /\ used[s] # Never
                                        /\ clock - used[s] > IdleTtl}
<1>2. \A s \in Threads : /\ used'[s] = IF s \in idle THEN Never ELSE used[s]
                         /\ lastReply'[s] = IF s \in idle THEN Never ELSE lastReply[s]
  BY <1>1
<1>3. UNCHANGED <<known, clock, inbox, sent, auto>> /\ proc' = [proc EXCEPT ![t] = Idle]
  BY DEF Done, Shared
<1>4. ProcOK(Idle) /\ HasReply(Idle) /\ Idle.burst = <<>> /\ Idle.at = "idle"
  BY DEF Idle, ProcOK, HasReply, Stages
<1>5. \A s \in Threads : proc'[s] = IF s = t THEN Idle ELSE proc[s]
  BY <1>3 DEF SpacedInv, Types
<1>6. /\ Cooldown \in Nat /\ MaxTurn \in Nat /\ IdleTtl \in Nat
      /\ Cooldown + MaxTurn <= IdleTtl /\ clock \in Int /\ Never \in Int
  BY MessageAssumption DEF SpacedInv, Types, MessageAssumption, Never
<1>7. Types'
  <2>1. used' \in [Threads -> Int] /\ lastReply' \in [Threads -> Int]
    BY <1>1, <1>6 DEF SpacedInv, Types
  <2>2. DOMAIN proc' = Threads
    BY <1>3 DEF SpacedInv, Types
  <2>3. QED
    BY <1>3, <1>4, <1>5, <2>1, <2>2 DEF SpacedInv, Types
<1>8. \A s \in Threads : proc'[s].at # "idle" => s \notin idle
  OBVIOUS
<1>9. Noted'
  <2> SUFFICES ASSUME NEW s \in Threads, NEW i \in DOMAIN sent[s], ~sent[s][i].asked
               PROVE  \/ lastReply'[s] # Never /\ lastReply'[s] >= sent[s][i].at
                      \/ clock - sent[s][i].at >= Cooldown
    BY <1>3 DEF Noted, Unasked
  <2>1. CASE s \in idle
    <3>1. used[s] # Never /\ clock - used[s] > IdleTtl /\ used[s] \in Int
      BY <2>1 DEF SpacedInv, Types
    <3>2. sent[s][i].at <= used[s] + MaxTurn
      BY <3>1 DEF SpacedInv, Timely
    <3>3. sent[s][i].at \in Int
      BY SentAt DEF SpacedInv
    <3>4. QED
      BY <1>6, <3>1, <3>2, <3>3
  <2>2. CASE s \notin idle
    <3>1. lastReply'[s] = lastReply[s]
      BY <1>2, <2>2
    <3>2. QED
      BY <3>1 DEF SpacedInv, Noted, Unasked
  <2>3. QED
    BY <2>1, <2>2
<1>10. Spaced'
  BY <1>3 DEF SpacedInv, Spaced
<1>11. LetThrough'
  <2> SUFFICES ASSUME NEW s \in Threads, NEW i \in DOMAIN proc'[s].burst,
                      proc'[s].burst[i].flag
               PROVE  Free(s, clock)'
    BY DEF LetThrough
  <2>1. s # t
    BY <1>4, <1>5
  <2>2. Free(s, clock)
    BY <1>5, <2>1 DEF SpacedInv, LetThrough
  <2>3. lastReply'[s] = Never \/ lastReply'[s] = lastReply[s]
    BY <1>2
  <2>4. QED
    BY <1>3, <2>2, <2>3 DEF Free
<1>12. Timely'
  <2>1. \A s \in Threads : used'[s] = Never \/ used'[s] = used[s]
    BY <1>2
  <2>2. \A s \in Threads : proc'[s].at # "idle" =>
            used'[s] = used[s] /\ proc[s].at # "idle"
    BY <1>2, <1>4, <1>5, <1>8
  <2> HIDE DEF idle
  <2>3. QED
    BY <1>3, <2>1, <2>2 DEF SpacedInv, Timely
<1>13. QED
  BY <1>7, <1>9, <1>10, <1>11, <1>12 DEF SpacedInv

LEMMA TickKeepsInv ==
    ASSUME SpacedInv, Tick
    PROVE  SpacedInv'
<1>1. /\ UNCHANGED <<known, auto, inbox, proc, lastReply, used, sent>>
      /\ clock' = clock + 1 /\ clock \in Int /\ Cooldown \in Nat /\ MaxTurn \in Nat
  BY MessageAssumption DEF Tick, SpacedInv, Types, MessageAssumption
<1>2. Types'
  BY <1>1 DEF SpacedInv, Types
<1>3. \A t \in Threads : lastReply[t] \in Int /\ used[t] \in Int
  BY DEF SpacedInv, Types
<1>4. \A t \in Threads : \A i \in DOMAIN sent[t] : sent[t][i].at \in Int
  BY SentAt DEF SpacedInv
<1>5. Noted'
  BY <1>1, <1>3, <1>4 DEF SpacedInv, Noted, Unasked
<1>6. LetThrough'
  BY <1>1, <1>3 DEF SpacedInv, LetThrough, Free
<1>7. Timely'
  <2>1. \A t \in Threads : proc[t].at # "idle" => clock - used[t] < MaxTurn
    BY DEF Tick
  <2>2. QED
    BY <1>1, <1>3, <1>4, <2>1 DEF SpacedInv, Timely
<1>8. Spaced'
  BY <1>1 DEF SpacedInv, Spaced
<1>9. QED
  BY <1>2, <1>5, <1>6, <1>7, <1>8 DEF SpacedInv

LEMMA ArriveKeepsInv ==
    ASSUME SpacedInv, NEW m \in Messages, Arrive(m)
    PROVE  SpacedInv'
<1>1. m.thread \in Threads
  BY MessageAssumption DEF MessageAssumption
<1>2. inbox' \in [Threads -> Seq(Messages)]
  <2>1. Append(inbox[m.thread], m) \in Seq(Messages)
    BY <1>1 DEF SpacedInv, Types
  <2>2. QED
    BY <2>1 DEF Arrive, SpacedInv, Types
<1>3. UNCHANGED <<known, auto, clock, proc, lastReply, used, sent>>
  BY DEF Arrive
<1>4. QED
  BY <1>2, <1>3 DEF SpacedInv, Types, Noted, Unasked, LetThrough, Free, Timely, Spaced

(* Any other step leaves the bookkeeping alone.                            *)
LEMMA OtherKeepsInv ==
    ASSUME SpacedInv, Login \/ Finished \/ UNCHANGED vars
    PROVE  SpacedInv'
<1>1. UNCHANGED <<auto, clock, inbox, proc, lastReply, used, sent>> /\ known' \in BOOLEAN
  BY DEF Login, Finished, vars, SpacedInv, Types
<1>2. QED
  BY <1>1 DEF SpacedInv, Types, Noted, Unasked, LetThrough, Free, Timely, Spaced

LEMMA InitInv == Init => SpacedInv
<1> SUFFICES ASSUME Init PROVE SpacedInv
  OBVIOUS
<1>1. ProcOK(Idle) /\ HasReply(Idle) /\ Idle.burst = <<>> /\ Idle.at = "idle"
  BY DEF Idle, ProcOK, HasReply, Stages
<1>2. \A t \in Threads : proc[t] = Idle /\ sent[t] = <<>> /\ inbox[t] = <<>>
  BY DEF Init
<1>3. Types
  <2>1. <<>> \in Seq(Messages) /\ <<>> \in Seq(Sent) /\ Never \in Int
    BY DEF Never
  <2>2. /\ inbox \in [Threads -> Seq(Messages)] /\ sent \in [Threads -> Seq(Sent)]
        /\ lastReply \in [Threads -> Int] /\ used \in [Threads -> Int]
    BY <2>1 DEF Init
  <2>3. DOMAIN proc = Threads /\ \A t \in Threads : ProcOK(proc[t]) /\ HasReply(proc[t])
    BY <1>1, <1>2 DEF Init
  <2>4. clock \in Int /\ clock >= Cooldown
    <3>1. clock = Cooldown
      BY DEF Init
    <3>2. Cooldown \in Nat
      BY MessageAssumption DEF MessageAssumption
    <3>3. QED
      BY <3>1, <3>2
  <2>5. auto \in BOOLEAN /\ known \in BOOLEAN
    BY DEF Init
  <2>6. QED
    BY <2>2, <2>3, <2>4, <2>5 DEF Types
<1>4. QED
  BY <1>1, <1>2, <1>3 DEF SpacedInv, Noted, Unasked, LetThrough, Timely, Spaced

LEMMA NextInv == SpacedInv /\ [Next]_vars => SpacedInv'
<1> SUFFICES ASSUME SpacedInv, [Next]_vars PROVE SpacedInv'
  OBVIOUS
<1>1. ASSUME NEW t \in Threads, NEW i \in 1..MaxImages, Describe(t, i) PROVE SpacedInv'
  BY <1>1, DescribeKeepsInv
<1>2. ASSUME NEW t \in Threads, Take(t) \/ Done(t) PROVE SpacedInv'
  BY <1>2, TakeKeepsInv, DoneKeepsInv
<1>3. ASSUME NEW t \in Threads, Route(t) \/ Segment(t) \/ Fetched(t) PROVE SpacedInv'
  BY <1>3, RouteKeepsInv, SegmentKeepsInv, FetchedKeepsInv
<1>4. ASSUME NEW t \in Threads, Reply(t) \/ NoReply(t) \/ Command(t) PROVE SpacedInv'
  BY <1>4, ReplyKeepsInv, NoReplyKeepsInv, CommandKeepsInv
<1>5. ASSUME NEW m \in Messages, Arrive(m) PROVE SpacedInv'
  BY <1>5, ArriveKeepsInv
<1>6. CASE Login \/ Tick \/ Finished \/ UNCHANGED vars
  BY <1>6, OtherKeepsInv, TickKeepsInv
<1>7. QED
  BY <1>1, <1>2, <1>3, <1>4, <1>5, <1>6 DEF Next

(* MessageWorkerPool._auto_reply_allowed, _maybe_cleanup: however          *)
(* messages are merged, and whatever is forgotten of a thread, automatic   *)
(* replies in it are at least the cooldown apart.                          *)
THEOREM RepliesSpaced == Spec => []Spaced
<1>1. SpacedInv => Spaced
  BY DEF SpacedInv
<1>2. QED
  BY <1>1, InitInv, NextInv, PTL DEF Spec

-----------------------------------------------------------------------------
(* Induction over the naturals, from the well-foundedness of inclusion     *)
(* among finite sets.                                                      *)

(* A set of naturals that is not empty has a least element.                *)
LEMMA LeastNumber ==
    ASSUME NEW B \in SUBSET Nat, B # {}
    PROVE  \E m \in B : \A k \in B : m <= k
<1> DEFINE T == {1..n : n \in B}
           R == StrictSubsetOrdering(Nat)
<1>1. IsWellFoundedOn(R, FiniteSubsetsOf(Nat))
  BY FS_StrictSubsetOrderingWellFounded
<1>2. T \subseteq FiniteSubsetsOf(Nat)
  <2>1. \A n \in B : IsFiniteSet(1..n)
    BY FS_Interval
  <2>2. QED
    BY <2>1 DEF FiniteSubsetsOf
<1>3. T # {}
  OBVIOUS
<1> HIDE DEF T, R
<1>4. PICK x \in T : \A y \in T : ~ (<<y, x>> \in R)
  BY <1>1, <1>2, <1>3, WFMin
<1>5. PICK m \in B : x = 1..m
  BY DEF T
<1>6. ASSUME NEW k \in B, k < m
      PROVE  FALSE
  <2>1. 1..k \in T
    BY DEF T
  <2>2. 1..k \subseteq 1..m /\ m \in 1..m /\ m \notin 1..k
    BY <1>6
  <2>3. <<1..k, 1..m>> \in R
    BY <2>2 DEF R, StrictSubsetOrdering
  <2>4. QED
    BY <1>4, <1>5, <2>1, <2>3
<1>7. QED
  BY <1>6

(* A set that holds 0, and n + 1 whenever it holds n, holds every natural. *)
LEMMA NaturalsInSet ==
    ASSUME NEW S, 0 \in S, \A n \in Nat : n \in S => n + 1 \in S
    PROVE  \A n \in Nat : n \in S
<1> DEFINE B == {n \in Nat : n \notin S}
<1> SUFFICES ASSUME B # {}
             PROVE  FALSE
  OBVIOUS
<1>1. PICK m \in B : \A k \in B : m <= k
  <2>1. B \in SUBSET Nat
    OBVIOUS
  <2> HIDE DEF B
  <2>2. QED
    BY <2>1, LeastNumber
<1>2. m # 0 /\ m - 1 \in Nat
  OBVIOUS
<1>3. m - 1 \in S
  BY <1>1, <1>2
<1>4. QED
  BY <1>2, <1>3

-----------------------------------------------------------------------------
(* Recursive functions over the places of a sequence.                      *)

Steps(step, L, V) == \A n \in 1..L, v \in V : step[n][v] \in V

Solves(f, L, start, step) == f[0] = start /\ \A n \in 1..L : f[n] = step[n][f[n - 1]]

(* A recursion with a step for every value has a solution,                 *)
LEMMA RecursionSolved ==
    ASSUME NEW L \in Nat, NEW V, NEW start \in V, NEW step, Steps(step, L, V)
    PROVE  \E f \in [0..L -> V] : Solves(f, L, start, step)
<1> DEFINE Run(f, k) == Solves(f, k, start, step)
           S == {k \in Nat : k <= L => \E f \in [0..k -> V] : Run(f, k)}
<1>1. 0 \in S
  <2>1. [n \in 0..0 |-> start] \in [0..0 -> V] /\ Run([n \in 0..0 |-> start], 0)
    BY DEF Solves
  <2>2. QED
    BY <2>1
<1>2. ASSUME NEW k \in Nat, k \in S
      PROVE  k + 1 \in S
  <2> SUFFICES ASSUME k + 1 <= L
               PROVE  \E g \in [0..(k + 1) -> V] : Run(g, k + 1)
    <3> HIDE DEF Run
    <3>1. QED
      BY <1>2 DEF S
  <2>1. PICK f \in [0..k -> V] : Run(f, k)
    BY <1>2
  <2>2. PICK v \in V : v = step[k + 1][f[k]]
    <3>1. k + 1 \in 1..L /\ f[k] \in V
      OBVIOUS
    <3>2. QED
      BY <3>1 DEF Steps
  <2> DEFINE g == [n \in 0..(k + 1) |-> IF n = k + 1 THEN v ELSE f[n]]
  <2>3. g \in [0..(k + 1) -> V]
    OBVIOUS
  <2>4. g[0] = start
    BY <2>1 DEF Solves
  <2>5. ASSUME NEW n \in 1..(k + 1)
        PROVE  g[n] = step[n][g[n - 1]]
    <3>1. n - 1 \in 0..(k + 1) /\ n - 1 # k + 1 /\ g[n - 1] = f[n - 1]
      OBVIOUS
    <3>2. CASE n = k + 1
      BY <2>2, <3>1, <3>2
    <3>3. CASE n # k + 1
      <4>1. n \in 1..k /\ g[n] = f[n]
        BY <3>3
      <4>2. QED
        BY <2>1, <3>1, <4>1 DEF Solves
    <3>4. QED
      BY <3>2, <3>3
  <2>6. QED
    BY <2>3, <2>4, <2>5 DEF Solves
<1>3. L \in S
  <2> HIDE DEF S
  <2>1. QED
    BY <1>1, <1>2, NaturalsInSet
<1>4. QED
  BY <1>3

(* and only one.                                                           *)
LEMMA RecursionOnce ==
    ASSUME NEW L \in Nat, NEW f, NEW g, f[0] = g[0],
           \A n \in 1..L : f[n - 1] = g[n - 1] => f[n] = g[n]
    PROVE  \A n \in 0..L : f[n] = g[n]
<1> DEFINE S == {n \in Nat : n <= L => f[n] = g[n]}
<1>1. 0 \in S
  OBVIOUS
<1>2. ASSUME NEW n \in Nat, n \in S
      PROVE  n + 1 \in S
  <2> SUFFICES ASSUME n + 1 <= L PROVE f[n + 1] = g[n + 1]
    OBVIOUS
  <2>1. n + 1 \in 1..L /\ (n + 1) - 1 = n /\ f[n] = g[n]
    BY <1>2
  <2>2. QED
    BY <2>1
<1>3. \A n \in Nat : n \in S
  <2> HIDE DEF S
  <2>1. QED
    BY <1>1, <1>2, NaturalsInSet
<1>4. QED
  BY <1>3

(* What stands at the chosen places, place by place.                       *)
ChosenUpTo(seq, places, f) ==
    /\ f[0] = <<>>
    /\ \A n \in 1..Len(seq) :
          f[n] = IF n \in places THEN Append(f[n - 1], seq[n]) ELSE f[n - 1]

LEMMA ChosenDefined ==
    ASSUME NEW D, NEW seq \in Seq(D), NEW places
    PROVE  \E f \in [0..Len(seq) -> Seq(D)] :
              ChosenUpTo(seq, places, f) /\ Chosen(seq, places) = f[Len(seq)]
<1>1. PICK L \in Nat : L = Len(seq)
  BY LenProperties
<1>2. \A n \in 1..L : seq[n] \in D
  BY <1>1, ElementOfSeq
<1> DEFINE V == Seq(D)
           step == [n \in 1..L |-> [v \in V |->
                      IF n \in places THEN Append(v, seq[n]) ELSE v]]
           Body(g) == [n \in 0..L |->
                         IF n = 0 THEN <<>>
                         ELSE IF n \in places THEN Append(g[n - 1], seq[n]) ELSE g[n - 1]]
<1>3. \A n \in 1..L, v \in V :
         step[n][v] = IF n \in places THEN Append(v, seq[n]) ELSE v
  OBVIOUS
<1>4. \A n \in 1..L, v \in V : step[n][v] \in V
  <2>1. \A n \in 1..L, v \in V : Append(v, seq[n]) \in V
    BY <1>2
  <2>2. QED
    BY <1>3, <2>1
<1>5. <<>> \in V
  OBVIOUS
<1> HIDE DEF step, V
<1>6. PICK f \in [0..L -> V] : f[0] = <<>> /\ \A n \in 1..L : f[n] = step[n][f[n - 1]]
  <2>1. Steps(step, L, V)
    BY <1>4 DEF Steps
  <2>2. \E f \in [0..L -> V] : Solves(f, L, <<>>, step)
    BY <1>1, <1>5, <2>1, RecursionSolved
  <2>3. QED
    BY <2>2 DEF Solves
<1>7. ASSUME NEW n \in 1..L
      PROVE  f[n] = IF n \in places THEN Append(f[n - 1], seq[n]) ELSE f[n - 1]
  <2>1. f[n - 1] \in V
    OBVIOUS
  <2>2. QED
    BY <1>3, <1>6, <2>1
<1>8. f = Body(f)
  <2>1. PICK h : h = Body(f)
    OBVIOUS
  <2>2. /\ DOMAIN h = 0..L /\ h = [n \in 0..L |-> h[n]] /\ h[0] = <<>>
        /\ \A n \in 1..L : h[n] = IF n \in places THEN Append(f[n - 1], seq[n]) ELSE f[n - 1]
    BY <2>1
  <2>3. \A n \in 0..L : f[n] = h[n]
    <3>1. \A n \in 0..L : n = 0 \/ n \in 1..L
      OBVIOUS
    <3>2. QED
      BY <1>6, <1>7, <2>2, <3>1
  <2>4. f = h
    BY <2>2, <2>3
  <2>5. QED
    BY <2>1, <2>4
<1> DEFINE upTo == CHOOSE g : g = Body(g)
<1>9. upTo = Body(upTo)
  BY <1>8
<1>10. Chosen(seq, places) = upTo[L]
  BY <1>1 DEF Chosen
<1> HIDE DEF upTo
<1>11. upTo[0] = <<>> /\ \A n \in 1..L :
          upTo[n] = IF n \in places THEN Append(upTo[n - 1], seq[n]) ELSE upTo[n - 1]
  <2>1. \A n \in 0..L : upTo[n] = IF n = 0 THEN <<>>
                                  ELSE IF n \in places THEN Append(upTo[n - 1], seq[n])
                                       ELSE upTo[n - 1]
    BY <1>9
  <2>2. QED
    BY <2>1
<1>12. \A n \in 0..L : f[n] = upTo[n]
  <2>1. f[0] = upTo[0] /\ \A n \in 1..L : f[n - 1] = upTo[n - 1] => f[n] = upTo[n]
    BY <1>6, <1>7, <1>11
  <2>2. QED
    BY <2>1, RecursionOnce, ZenonT(40)
<1>13. Chosen(seq, places) = f[L]
  BY <1>10, <1>12
<1>14. QED
  BY <1>1, <1>6, <1>7, <1>13 DEF ChosenUpTo, V

-----------------------------------------------------------------------------
(* How many of the chosen places there are up to a place.                  *)
Count(places, n) == Cardinality(places \cap 1..n)

LEMMA CountStep ==
    ASSUME NEW places, NEW n \in Nat
    PROVE  /\ Count(places, n) \in Nat /\ Count(places, 0) = 0
           /\ Count(places, n + 1) = IF n + 1 \in places THEN Count(places, n) + 1
                                     ELSE Count(places, n)
<1> DEFINE A(k) == places \cap 1..k
<1>1. IsFiniteSet(1..n)
  BY FS_Interval
<1>2. A(n) \subseteq 1..n
  OBVIOUS
<1>3. IsFiniteSet(A(n))
  BY <1>1, <1>2, FS_Subset
<1>4. n + 1 \notin A(n)
  OBVIOUS
<1>5. A(n + 1) = IF n + 1 \in places THEN A(n) \cup {n + 1} ELSE A(n)
  <2>1. 1..(n + 1) = 1..n \cup {n + 1}
    OBVIOUS
  <2>2. QED
    BY <2>1
<1>6. A(0) = {}
  OBVIOUS
<1> HIDE DEF A
<1>7. Cardinality(A(n)) \in Nat /\ Cardinality(A(0)) = 0
  BY <1>3, <1>6, FS_CardinalityType, FS_EmptySet
<1>8. Cardinality(A(n) \cup {n + 1}) = Cardinality(A(n)) + 1
  BY <1>3, <1>4, FS_AddElement
<1>9. QED
  BY <1>5, <1>7, <1>8 DEF Count, A

LEMMA CountGrows ==
    ASSUME NEW places, NEW m \in Nat, NEW n \in Nat, m <= n
    PROVE  /\ Count(places, m) <= Count(places, n) /\ Count(places, n) \in Nat
           /\ \A i \in 1..n : i \in places => Count(places, i) \in 1..Count(places, n)
           /\ m < n /\ n \in places => Count(places, m) < Count(places, n)
<1>1. ASSUME NEW j \in Nat, NEW k \in Nat, j <= k
      PROVE  Count(places, j) <= Count(places, k)
  <2>1. (places \cap 1..j) \in SUBSET (places \cap 1..k)
    BY <1>1
  <2>2. IsFiniteSet(1..k)
    BY FS_Interval
  <2>3. IsFiniteSet(places \cap 1..k)
    BY <2>2, FS_Subset
  <2>4. Cardinality(places \cap 1..j) <= Cardinality(places \cap 1..k)
    BY <2>1, <2>3, FS_Subset
  <2>5. QED
    BY <2>4 DEF Count
<1>2. Count(places, n) \in Nat /\ Count(places, m) \in Nat
  BY CountStep
<1>3. ASSUME NEW i \in 1..n, i \in places
      PROVE  Count(places, i) \in 1..Count(places, n)
  <2>1. i - 1 \in Nat /\ i \in Nat /\ (i - 1) + 1 = i
    OBVIOUS
  <2>2. PICK h \in Nat : h = i - 1 /\ h + 1 = i
    BY <2>1
  <2>3. Count(places, h) \in Nat /\ Count(places, h + 1) = Count(places, h) + 1
    BY <1>3, <2>2, CountStep
  <2>4. Count(places, i) <= Count(places, n)
    BY <1>1, <2>1
  <2>5. QED
    BY <1>2, <2>2, <2>3, <2>4
<1>4. ASSUME m < n, n \in places PROVE Count(places, m) < Count(places, n)
  <2>1. PICK h \in Nat : h = n - 1 /\ h + 1 = n
    BY <1>4
  <2>2. Count(places, h) \in Nat /\ Count(places, h + 1) = Count(places, h) + 1
    BY <1>4, <2>1, CountStep
  <2>3. Count(places, m) <= Count(places, h)
    BY <1>1, <1>4, <2>1
  <2>4. QED
    BY <1>2, <2>1, <2>2, <2>3
<1>5. QED
  BY <1>1, <1>2, <1>3, <1>4

(* The k-th of the chosen is what stands at the k-th place.                *)
LEMMA ChosenPlaces ==
    ASSUME NEW D, NEW seq \in Seq(D), NEW places
    PROVE  /\ Chosen(seq, places) \in Seq(D)
           /\ Len(Chosen(seq, places)) = Count(places, Len(seq))
           /\ \A i \in 1..Len(seq) :
                 i \in places => /\ Count(places, i) \in 1..Len(Chosen(seq, places))
                                 /\ Chosen(seq, places)[Count(places, i)] = seq[i]
           /\ \A k \in 1..Len(Chosen(seq, places)) :
                 \E i \in 1..Len(seq) : i \in places /\ Count(places, i) = k
<1>1. PICK f \in [0..Len(seq) -> Seq(D)] :
         ChosenUpTo(seq, places, f) /\ Chosen(seq, places) = f[Len(seq)]
  BY ChosenDefined
<1>2. PICK L \in Nat : L = Len(seq)
  BY LenProperties
<1>3. \A n \in 1..L : seq[n] \in D
  BY <1>2, ElementOfSeq
<1> DEFINE Right(n) ==
             /\ Len(f[n]) = Count(places, n)
             /\ \A i \in 1..n : i \in places => f[n][Count(places, i)] = seq[i]
             /\ \A k \in 1..Len(f[n]) : \E i \in 1..n : i \in places /\ Count(places, i) = k
           S == {n \in Nat : n <= L => Right(n)}
<1>4. 0 \in S
  <2>1. f[0] = <<>> /\ Count(places, 0) = 0
    BY <1>1, CountStep DEF ChosenUpTo
  <2>2. Len(f[0]) = 0
    BY <2>1
  <2>3. Right(0)
    BY <2>1, <2>2
  <2>4. QED
    BY <2>3
<1>5. ASSUME NEW n \in Nat, n \in S
      PROVE  n + 1 \in S
  <2> SUFFICES ASSUME n + 1 <= L PROVE Right(n + 1)
    OBVIOUS
  <2>1. n + 1 \in 1..L /\ n \in 0..L /\ n + 1 \in 0..L /\ (n + 1) - 1 = n
    OBVIOUS
  <2>2. f[n] \in Seq(D) /\ f[n + 1] \in Seq(D) /\ seq[n + 1] \in D
    BY <1>2, <1>3, <2>1
  <2>3. f[n + 1] = IF n + 1 \in places THEN Append(f[n], seq[n + 1]) ELSE f[n]
    BY <1>1, <1>2, <2>1 DEF ChosenUpTo
  <2>4. Right(n)
    BY <1>5, <2>1
  <2>5. /\ Count(places, n) \in Nat
        /\ Count(places, n + 1) = IF n + 1 \in places THEN Count(places, n) + 1
                                  ELSE Count(places, n)
    BY CountStep
  <2>6. \A i \in 1..n : i \in places => Count(places, i) \in 1..Count(places, n)
    <3>1. n <= n
      OBVIOUS
    <3>2. QED
      BY <3>1, CountGrows
  <2>7. \A i \in 1..(n + 1) : i \in 1..n \/ i = n + 1
    OBVIOUS
  <2>8. CASE n + 1 \in places
    <3>1. PICK g, x : g = f[n] /\ x = seq[n + 1]
      OBVIOUS
    <3>2. /\ Len(Append(g, x)) = Len(g) + 1 /\ Len(g) \in Nat
          /\ \A i \in 1..Len(g) : Append(g, x)[i] = g[i]
          /\ Append(g, x)[Len(g) + 1] = x
      BY <2>2, <3>1, AppendProperties, LenProperties
    <3>3. PICK h : h = f[n + 1]
      OBVIOUS
    <3>4. /\ Len(h) = Len(g) + 1
          /\ \A i \in 1..Len(g) : h[i] = g[i]
          /\ h[Len(g) + 1] = x
      BY <2>3, <2>8, <3>1, <3>2, <3>3
    <3>5. Len(g) = Count(places, n) /\ Count(places, n + 1) = Len(g) + 1
      BY <2>4, <2>5, <2>8, <3>1
    <3>6. ASSUME NEW i \in 1..(n + 1), i \in places
          PROVE  h[Count(places, i)] = seq[i]
      <4>1. CASE i = n + 1
        BY <3>1, <3>4, <3>5, <4>1
      <4>2. CASE i \in 1..n
        <5>1. Count(places, i) \in 1..Len(g) /\ g[Count(places, i)] = seq[i]
          BY <2>4, <2>6, <3>1, <3>5, <3>6, <4>2
        <5>2. QED
          BY <3>4, <5>1
      <4>3. QED
        BY <2>7, <4>1, <4>2
    <3>7. ASSUME NEW k \in 1..Len(h)
          PROVE  \E i \in 1..(n + 1) : i \in places /\ Count(places, i) = k
      <4>1. CASE k = Len(g) + 1
        BY <2>8, <3>5, <4>1
      <4>2. CASE k # Len(g) + 1
        <5>1. k \in 1..Len(g)
          BY <3>2, <3>4, <4>2
        <5>2. PICK i \in 1..n : i \in places /\ Count(places, i) = k
          BY <2>4, <3>1, <5>1
        <5>3. i \in 1..(n + 1)
          OBVIOUS
        <5>4. QED
          BY <5>2, <5>3
      <4>3. QED
        BY <4>1, <4>2
    <3>8. QED
      BY <3>3, <3>4, <3>5, <3>6, <3>7
  <2>9. CASE n + 1 \notin places
    <3>1. f[n + 1] = f[n] /\ Count(places, n + 1) = Count(places, n)
      BY <2>3, <2>5, <2>9
    <3>2. \A i \in 1..(n + 1) : i \in places => f[n + 1][Count(places, i)] = seq[i]
      BY <2>4, <2>7, <2>9, <3>1
    <3>3. \A k \in 1..Len(f[n + 1]) : \E i \in 1..(n + 1) : i \in places /\ Count(places, i) = k
      <4>1. \A i \in 1..n : i \in 1..(n + 1)
        OBVIOUS
      <4>2. QED
        BY <2>4, <3>1, <4>1
    <3>4. QED
      BY <2>4, <3>1, <3>2, <3>3
  <2>10. QED
    BY <2>8, <2>9
<1>6. Right(L)
  <2>1. \A n \in Nat : n \in S
    <3> HIDE DEF S
    <3>1. QED
      BY <1>4, <1>5, NaturalsInSet
  <2>2. QED
    BY <2>1
<1>7. f[L] \in Seq(D)
  BY <1>2
<1>8. \A i \in 1..L : i \in places => Count(places, i) \in 1..Count(places, L)
  <2>1. L <= L
    OBVIOUS
  <2>2. QED
    BY <2>1, CountGrows
<1>9. QED
  BY <1>1, <1>2, <1>6, <1>7, <1>8

(* Sequences with the same at the same places.                             *)
LEMMA ChosenSame ==
    ASSUME NEW D, NEW a \in Seq(D), NEW b \in Seq(D), NEW P, NEW Q,
           P \cap 1..Len(a) = Q \cap 1..Len(b),
           \A i \in P \cap 1..Len(a) : a[i] = b[i]
    PROVE  Chosen(a, P) = Chosen(b, Q)
<1>1. Len(a) \in Nat /\ Len(b) \in Nat
  BY LenProperties
<1>2. PICK x, y : x = Chosen(a, P) /\ y = Chosen(b, Q)
  OBVIOUS
<1>3. /\ x \in Seq(D) /\ Len(x) = Count(P, Len(a))
      /\ \A i \in 1..Len(a) : i \in P => x[Count(P, i)] = a[i]
      /\ \A k \in 1..Len(x) : \E i \in 1..Len(a) : i \in P /\ Count(P, i) = k
  BY <1>2, ChosenPlaces
<1>4. /\ y \in Seq(D) /\ Len(y) = Count(Q, Len(b))
      /\ \A i \in 1..Len(b) : i \in Q => y[Count(Q, i)] = b[i]
  BY <1>2, ChosenPlaces
<1>5. Len(x) = Len(y)
  BY <1>3, <1>4 DEF Count
<1>6. ASSUME NEW k \in 1..Len(x)
      PROVE  x[k] = y[k]
  <2>1. PICK i \in 1..Len(a) : i \in P /\ Count(P, i) = k
    BY <1>3
  <2>2. i \in 1..Len(b) /\ i \in Q
    BY <2>1
  <2>3. P \cap 1..i = Q \cap 1..i
    BY <1>1, <2>2
  <2>4. Count(P, i) = Count(Q, i)
    BY <2>3 DEF Count
  <2>5. a[i] = b[i]
    BY <2>1
  <2>6. QED
    BY <1>3, <1>4, <2>1, <2>2, <2>4, <2>5
<1>7. x = y
  BY <1>3, <1>4, <1>5, <1>6, SeqEqual
<1>8. QED
  BY <1>2, <1>7

LEMMA ChosenNone ==
    ASSUME NEW D, NEW seq \in Seq(D), NEW P
    PROVE  Chosen(seq, P) = <<>> <=> \A i \in 1..Len(seq) : i \notin P
<1>1. PICK x : x = Chosen(seq, P)
  OBVIOUS
<1>2. /\ x \in Seq(D) /\ Len(x) \in Nat
      /\ \A i \in 1..Len(seq) : i \in P => Count(P, i) \in 1..Len(x)
      /\ \A k \in 1..Len(x) : \E i \in 1..Len(seq) : i \in P /\ Count(P, i) = k
  BY <1>1, ChosenPlaces, LenProperties
<1>3. x = <<>> => \A i \in 1..Len(seq) : i \notin P
  BY <1>2
<1>4. (\A i \in 1..Len(seq) : i \notin P) => Len(x) = 0
  <2>1. Len(x) # 0 => 1 \in 1..Len(x)
    BY <1>2
  <2>2. QED
    BY <1>2, <2>1
<1>5. Len(x) = 0 => x = <<>>
  BY <1>2, EmptySeq
<1>6. QED
  BY <1>1, <1>3, <1>4, <1>5

LEMMA ChosenAll ==
    ASSUME NEW D, NEW seq \in Seq(D), NEW P, \A i \in 1..Len(seq) : i \in P
    PROVE  Chosen(seq, P) = seq
<1>1. PICK x : x = Chosen(seq, P)
  OBVIOUS
<1>2. /\ x \in Seq(D) /\ Len(x) = Count(P, Len(seq))
      /\ \A i \in 1..Len(seq) : i \in P => x[Count(P, i)] = seq[i]
  BY <1>1, ChosenPlaces
<1>3. Len(seq) \in Nat
  BY LenProperties
<1>4. \A i \in 0..Len(seq) : Count(P, i) = i
  <2>1. ASSUME NEW i \in 0..Len(seq) PROVE Count(P, i) = i
    <3>1. P \cap 1..i = 1..i
      BY <1>3
    <3>2. Cardinality(1..i) = i
      BY FS_Interval
    <3>3. QED
      BY <3>1, <3>2 DEF Count
  <2>2. QED
    BY <2>1
<1>5. Len(x) = Len(seq) /\ \A i \in 1..Len(seq) : x[i] = seq[i]
  BY <1>2, <1>3, <1>4
<1>6. x = seq
  BY <1>2, <1>5, SeqEqual
<1>7. QED
  BY <1>1, <1>6

-----------------------------------------------------------------------------
(* The words of a text, and of several.                                    *)

(* What a message is made of, and what is known of an image.               *)
Tokens == STRING \cup {Placeholder, Unknown, ""}

Bits  == {"text", "pic"} \X Tokens
Texts == Seq(Bits)

(* The places of words.                                                    *)
WordsAt(text) == {i \in DOMAIN text :
                    text[i][1] = "text" /\ text[i][2] \notin Elements \cup {Placeholder}}

LEMMA WordsDefined ==
    ASSUME NEW text \in Texts
    PROVE  Words(text) \in Texts /\ Words(text) = Chosen(text, WordsAt(text))
BY ChosenPlaces DEF Words, WordsAt, Texts

(* Word by word, text by text.                                             *)
WordsUpTo(texts, f) ==
    /\ f[0] = <<>>
    /\ \A n \in 1..Len(texts) : f[n] = f[n - 1] \o Words(texts[n])

LEMMA AllWordsDefined ==
    ASSUME NEW texts \in Seq(Texts)
    PROVE  \E f \in [0..Len(texts) -> Texts] :
              WordsUpTo(texts, f) /\ AllWords(texts) = f[Len(texts)]
<1>1. PICK L \in Nat : L = Len(texts)
  BY LenProperties
<1>2. \A n \in 1..L : texts[n] \in Texts
  BY <1>1, ElementOfSeq
<1> DEFINE V == Texts
           step == [n \in 1..L |-> [v \in V |-> v \o Words(texts[n])]]
           Body(g) == [n \in 0..L |-> IF n = 0 THEN <<>> ELSE g[n - 1] \o Words(texts[n])]
<1>3. \A n \in 1..L, v \in V : step[n][v] = v \o Words(texts[n])
  OBVIOUS
<1>4. \A n \in 1..L, v \in V : step[n][v] \in V
  <2>1. \A n \in 1..L : Words(texts[n]) \in Texts
    BY <1>2, WordsDefined
  <2>2. \A n \in 1..L, v \in V : v \o Words(texts[n]) \in V
    BY <2>1, ConcatProperties DEF Texts
  <2>3. QED
    BY <1>3, <2>2
<1>5. <<>> \in V
  BY DEF Texts
<1> HIDE DEF step, V
<1>6. PICK f \in [0..L -> V] : f[0] = <<>> /\ \A n \in 1..L : f[n] = step[n][f[n - 1]]
  <2>1. Steps(step, L, V)
    BY <1>4 DEF Steps
  <2>2. \E f \in [0..L -> V] : Solves(f, L, <<>>, step)
    BY <1>1, <1>5, <2>1, RecursionSolved
  <2>3. QED
    BY <2>2 DEF Solves
<1>7. ASSUME NEW n \in 1..L
      PROVE  f[n] = f[n - 1] \o Words(texts[n])
  <2>1. f[n - 1] \in V
    OBVIOUS
  <2>2. QED
    BY <1>3, <1>6, <2>1
<1>8. f = Body(f)
  <2>1. PICK h : h = Body(f)
    OBVIOUS
  <2>2. /\ DOMAIN h = 0..L /\ h = [n \in 0..L |-> h[n]] /\ h[0] = <<>>
        /\ \A n \in 1..L : h[n] = f[n - 1] \o Words(texts[n])
    BY <2>1
  <2>3. \A n \in 0..L : f[n] = h[n]
    <3>1. \A n \in 0..L : n = 0 \/ n \in 1..L
      OBVIOUS
    <3>2. QED
      BY <1>6, <1>7, <2>2, <3>1
  <2>4. f = h
    BY <2>2, <2>3
  <2>5. QED
    BY <2>1, <2>4
<1> DEFINE upTo == CHOOSE g : g = Body(g)
<1>9. upTo = Body(upTo)
  BY <1>8
<1>10. AllWords(texts) = upTo[L]
  BY <1>1 DEF AllWords
<1> HIDE DEF upTo
<1>11. upTo[0] = <<>> /\ \A n \in 1..L : upTo[n] = upTo[n - 1] \o Words(texts[n])
  <2>1. \A n \in 0..L : upTo[n] = IF n = 0 THEN <<>> ELSE upTo[n - 1] \o Words(texts[n])
    BY <1>9
  <2>2. QED
    BY <2>1
<1>12. \A n \in 0..L : f[n] = upTo[n]
  <2>1. f[0] = upTo[0] /\ \A n \in 1..L : f[n - 1] = upTo[n - 1] => f[n] = upTo[n]
    BY <1>6, <1>7, <1>11
  <2>2. QED
    BY <2>1, RecursionOnce, ZenonT(40)
<1>13. AllWords(texts) = f[L]
  BY <1>10, <1>12
<1>14. QED
  BY <1>1, <1>6, <1>7, <1>13 DEF WordsUpTo, V

(* Texts without a word may be left out.                                   *)
LEMMA AllWordsOfChosen ==
    ASSUME NEW a \in Seq(Texts), NEW b \in Seq(Texts), NEW P,
           Len(b) = Count(P, Len(a)),
           \A i \in 1..Len(a) : /\ i \in P => Words(b[Count(P, i)]) = Words(a[i])
                                /\ i \notin P => Words(a[i]) = <<>>
    PROVE  AllWords(b) = AllWords(a)
<1>1. PICK L \in Nat, M \in Nat : L = Len(a) /\ M = Len(b)
  BY LenProperties
<1>2. PICK f \in [0..L -> Texts] : WordsUpTo(a, f) /\ AllWords(a) = f[L]
  BY <1>1, AllWordsDefined
<1>3. PICK g \in [0..M -> Texts] : WordsUpTo(b, g) /\ AllWords(b) = g[M]
  BY <1>1, AllWordsDefined
<1> DEFINE S == {n \in Nat : n <= L => f[n] = g[Count(P, n)]}
<1>4. 0 \in S
  <2>1. Count(P, 0) = 0
    BY CountStep
  <2>2. QED
    BY <1>2, <1>3, <2>1 DEF WordsUpTo
<1>5. ASSUME NEW n \in Nat, n \in S
      PROVE  n + 1 \in S
  <2> SUFFICES ASSUME n + 1 <= L PROVE f[n + 1] = g[Count(P, n + 1)]
    OBVIOUS
  <2>1. n + 1 \in 1..L /\ (n + 1) - 1 = n /\ n \in 0..L /\ f[n] = g[Count(P, n)]
    BY <1>5
  <2>2. f[n + 1] = f[n] \o Words(a[n + 1])
    BY <1>1, <1>2, <2>1 DEF WordsUpTo
  <2>3. /\ Count(P, n) \in Nat
        /\ Count(P, n + 1) = IF n + 1 \in P THEN Count(P, n) + 1 ELSE Count(P, n)
    BY CountStep
  <2>4. CASE n + 1 \in P
    <3>1. Count(P, n + 1) <= M
      BY <1>1, <2>1, CountGrows
    <3>2. PICK k \in Nat : k = Count(P, n) /\ Count(P, n + 1) = k + 1
      BY <2>3, <2>4
    <3>3. k + 1 \in 1..M /\ (k + 1) - 1 = k
      BY <3>1, <3>2
    <3>4. g[k + 1] = g[k] \o Words(b[k + 1])
      BY <1>1, <1>3, <3>3 DEF WordsUpTo
    <3>5. Words(b[k + 1]) = Words(a[n + 1])
      BY <1>1, <2>1, <2>4, <3>2
    <3>6. QED
      BY <2>1, <2>2, <3>2, <3>4, <3>5
  <2>5. CASE n + 1 \notin P
    <3>1. Words(a[n + 1]) = <<>>
      BY <1>1, <2>1, <2>5
    <3>2. f[n] \o <<>> = f[n]
      BY <2>1, ConcatEmptySeq DEF Texts
    <3>3. QED
      BY <2>1, <2>2, <2>3, <2>5, <3>1, <3>2
  <2>6. QED
    BY <2>4, <2>5
<1>6. L \in S
  <2> HIDE DEF S
  <2>1. QED
    BY <1>4, <1>5, NaturalsInSet
<1>7. QED
  BY <1>1, <1>2, <1>3, <1>6

-----------------------------------------------------------------------------
(* Kind: a file decides unless an image comes before it.                   *)

ImagesFirst(c) == \A i \in DOMAIN c : c[i] \in Files => \E j \in 1..i : c[j] \in Images

LEMMA KindByFirst ==
    ASSUME NEW D, NEW c \in Seq(D)
    PROVE  Kind(c) \notin NonReplyKinds <=> ImagesFirst(c)
<1>1. PICK L \in Nat : L = Len(c) /\ DOMAIN c = 1..L
  BY LenProperties
<1> DEFINE B == {i \in 1..L : c[i] \in Media}
<1>2. PICK media : media = ParseAttachments(c)
  OBVIOUS
<1>3. /\ media = Chosen(c, B) /\ media \in Seq(D) /\ Len(media) \in Nat
      /\ \A i \in 1..L : i \in B =>
            Count(B, i) \in 1..Len(media) /\ media[Count(B, i)] = c[i]
  <2>1. media = Chosen(c, B)
    BY <1>1, <1>2 DEF ParseAttachments
  <2> HIDE DEF B
  <2>2. QED
    BY <1>1, <2>1, ChosenPlaces, LenProperties
<1>4. media = <<>> <=> B = {}
  <2>1. \A i \in 1..L : i \in B => i \in B
    OBVIOUS
  <2>2. B \subseteq 1..L
    OBVIOUS
  <2> HIDE DEF B
  <2>3. QED
    BY <1>1, <1>3, <2>2, ChosenNone
<1>5. CASE B = {}
  <2>1. Kind(c) = "text"
    BY <1>2, <1>4, <1>5 DEF Kind
  <2>2. ImagesFirst(c)
    BY <1>1, <1>5 DEF ImagesFirst, Media
  <2>3. QED
    BY <2>1, <2>2 DEF NonReplyKinds
<1>6. CASE B # {}
  <2>1. PICK m \in B : \A k \in B : m <= k
    <3>1. B \in SUBSET Nat
      OBVIOUS
    <3> HIDE DEF B
    <3>2. QED
      BY <1>6, <3>1, LeastNumber
  <2>2. Count(B, m) = 1
    <3>1. m \in 1..L
      OBVIOUS
    <3>2. B \cap 1..m = {m}
      BY <2>1, <3>1
    <3>3. QED
      BY <3>2, FS_Singleton DEF Count
  <2>3. media[1] = c[m] /\ media # <<>>
    <3>1. m \in 1..L
      OBVIOUS
    <3>2. QED
      BY <1>3, <1>4, <1>6, <2>2, <3>1
  <2>4. Kind(c) \notin NonReplyKinds <=> c[m] \in Images
    BY <1>2, <2>3 DEF Kind, NonReplyKinds
  <2>5. c[m] \in Images => ImagesFirst(c)
    <3>1. \A i \in 1..L : c[i] \in Files => i \in B
      BY DEF Media
    <3>2. \A i \in 1..L : c[i] \in Files => m \in 1..i
      BY <2>1, <3>1
    <3>3. QED
      BY <1>1, <3>2 DEF ImagesFirst
  <2>6. ImagesFirst(c) => c[m] \in Images
    <3>1. ASSUME ImagesFirst(c), c[m] \notin Images
          PROVE  FALSE
      <4>1. c[m] \in Files /\ m \in DOMAIN c
        BY <1>1, <3>1 DEF Media
      <4>2. PICK j \in 1..m : c[j] \in Images
        BY <3>1, <4>1 DEF ImagesFirst
      <4>3. j \in B /\ j <= m
        BY <4>2 DEF Media
      <4>4. j = m
        BY <2>1, <4>3
      <4>5. QED
        BY <3>1, <4>2, <4>4
    <3>2. QED
      BY <3>1
  <2>7. QED
    BY <2>4, <2>5, <2>6
<1>7. QED
  BY <1>5, <1>6

-----------------------------------------------------------------------------
(* Mentions that are not quoted                                            *)

(* How many quotes are open, token by token.                               *)
DepthUpTo(c, d) ==
    /\ d[0] = 0
    /\ \A n \in 1..Len(c) :
          d[n] = IF c[n] = "<quote>" THEN d[n - 1] + 1
                 ELSE IF c[n] = "</quote>" /\ d[n - 1] > 0 THEN d[n - 1] - 1
                 ELSE d[n - 1]

LEMMA DepthDefined ==
    ASSUME NEW D, NEW c \in Seq(D)
    PROVE  DepthUpTo(c, Depth(c)) /\ \A n \in 0..Len(c) : Depth(c)[n] \in Nat
<1>1. PICK L \in Nat : L = Len(c)
  BY LenProperties
<1> DEFINE Next1(n, v) == IF c[n] = "<quote>" THEN v + 1
                          ELSE IF c[n] = "</quote>" /\ v > 0 THEN v - 1 ELSE v
           step == [n \in 1..L |-> [v \in Nat |-> Next1(n, v)]]
           Body(g) == [n \in 0..L |->
              IF n = 0 THEN 0
              ELSE IF c[n] = "<quote>" THEN g[n - 1] + 1
              ELSE IF c[n] = "</quote>" /\ g[n - 1] > 0 THEN g[n - 1] - 1
              ELSE g[n - 1]]
<1>2. \A n \in 1..L, v \in Nat : step[n][v] = Next1(n, v) /\ step[n][v] \in Nat
  OBVIOUS
<1> HIDE DEF step
<1>3. PICK f \in [0..L -> Nat] : f[0] = 0 /\ \A n \in 1..L : f[n] = step[n][f[n - 1]]
  <2>1. Steps(step, L, Nat)
    BY <1>2 DEF Steps
  <2>2. \E f \in [0..L -> Nat] : Solves(f, L, 0, step)
    BY <1>1, <2>1, RecursionSolved
  <2>3. QED
    BY <2>2 DEF Solves
<1>4. ASSUME NEW n \in 1..L
      PROVE  f[n] = Next1(n, f[n - 1])
  <2>1. f[n - 1] \in Nat
    OBVIOUS
  <2>2. QED
    BY <1>2, <1>3, <2>1
<1>5. f = Body(f)
  <2>1. PICK h : h = Body(f)
    OBVIOUS
  <2>2. /\ DOMAIN h = 0..L /\ h = [n \in 0..L |-> h[n]] /\ h[0] = 0
        /\ \A n \in 1..L : h[n] = Next1(n, f[n - 1])
    BY <2>1
  <2>3. \A n \in 0..L : f[n] = h[n]
    <3>1. \A n \in 0..L : n = 0 \/ n \in 1..L
      OBVIOUS
    <3>2. QED
      BY <1>3, <1>4, <2>2, <3>1, ZenonT(40)
  <2>4. f = h
    BY <2>2, <2>3
  <2>5. QED
    BY <2>1, <2>4
<1> DEFINE d == CHOOSE g : g = Body(g)
<1>6. d = Body(d)
  BY <1>5
<1>7. Depth(c) = d
  BY <1>1 DEF Depth
<1> HIDE DEF d
<1>8. d[0] = 0 /\ \A n \in 1..L : d[n] = Next1(n, d[n - 1])
  <2>1. \A n \in 0..L : d[n] = IF n = 0 THEN 0 ELSE Next1(n, d[n - 1])
    BY <1>6
  <2>2. QED
    BY <2>1
<1>9. \A n \in 0..L : f[n] = d[n]
  <2>1. f[0] = d[0] /\ \A n \in 1..L : f[n - 1] = d[n - 1] => f[n] = d[n]
    BY <1>3, <1>4, <1>8, ZenonT(40)
  <2>2. QED
    BY <2>1, RecursionOnce, ZenonT(40)
<1>10. QED
  BY <1>1, <1>7, <1>8, <1>9 DEF DepthUpTo

LEMMA MetStep ==
    ASSUME NEW c, NEW x, NEW j \in Nat, NEW k \in Int, k >= j - 1
    PROVE  /\ Met(c, x, j, k) \in Nat
           /\ k = j - 1 => Met(c, x, j, k) = 0
           /\ Met(c, x, j, k + 1) = IF c[k + 1] = x THEN Met(c, x, j, k) + 1
                                    ELSE Met(c, x, j, k)
<1> DEFINE A(h) == {n \in j..h : c[n] = x}
<1>1. IsFiniteSet(j..k)
  BY FS_Interval
<1>2. IsFiniteSet(A(k))
  BY <1>1, FS_Subset
<1>3. k + 1 \notin A(k)
  OBVIOUS
<1>4. A(k + 1) = IF c[k + 1] = x THEN A(k) \cup {k + 1} ELSE A(k)
  <2>1. j..(k + 1) = j..k \cup {k + 1}
    OBVIOUS
  <2>2. QED
    BY <2>1
<1>5. k = j - 1 => A(k) = {}
  OBVIOUS
<1> HIDE DEF A
<1>6. Cardinality(A(k)) \in Nat /\ (k = j - 1 => Cardinality(A(k)) = 0)
  BY <1>2, <1>5, FS_CardinalityType, FS_EmptySet
<1>7. Cardinality(A(k) \cup {k + 1}) = Cardinality(A(k)) + 1
  BY <1>2, <1>3, FS_AddElement
<1>8. QED
  BY <1>4, <1>6, <1>7 DEF Met, A

(* Quotes opened and not closed since a place.                             *)
Open(c, j, k) == Met(c, "<quote>", j, k) - Met(c, "</quote>", j, k)

LEMMA OpenStep ==
    ASSUME NEW c, NEW j \in Nat, NEW k \in Int, k >= j - 1
    PROVE  /\ Open(c, j, k) \in Int
           /\ k = j - 1 => Open(c, j, k) = 0
           /\ Open(c, j, k + 1) = IF c[k + 1] = "<quote>" THEN Open(c, j, k) + 1
                                  ELSE IF c[k + 1] = "</quote>" THEN Open(c, j, k) - 1
                                  ELSE Open(c, j, k)
<1> DEFINE M(x, h) == Met(c, x, j, h)
<1>1. \A x : /\ M(x, k) \in Nat /\ (k = j - 1 => M(x, k) = 0)
             /\ M(x, k + 1) = IF c[k + 1] = x THEN M(x, k) + 1 ELSE M(x, k)
  BY MetStep
<1> HIDE DEF M
<1>2. /\ M("<quote>", k) \in Nat /\ (k = j - 1 => M("<quote>", k) = 0)
      /\ M("<quote>", k + 1)
           = IF c[k + 1] = "<quote>" THEN M("<quote>", k) + 1 ELSE M("<quote>", k)
  BY <1>1
<1>3. /\ M("</quote>", k) \in Nat /\ (k = j - 1 => M("</quote>", k) = 0)
      /\ M("</quote>", k + 1)
           = IF c[k + 1] = "</quote>" THEN M("</quote>", k) + 1 ELSE M("</quote>", k)
  BY <1>1
<1>4. \A h : Open(c, j, h) = M("<quote>", h) - M("</quote>", h)
  BY DEF Open, M
<1>5. QED
  BY <1>2, <1>3, <1>4

(* The depth is at least what was opened and not closed since any place.   *)
LEMMA DepthAtLeast ==
    ASSUME NEW D, NEW c \in Seq(D), NEW i \in 1..Len(c), NEW j \in 1..i
    PROVE  Depth(c)[i] >= Open(c, j, i)
<1>1. PICK L \in Nat : L = Len(c)
  BY LenProperties
<1>2. PICK d : d = Depth(c)
  OBVIOUS
<1>3. DepthUpTo(c, d) /\ \A n \in 0..L : d[n] \in Nat
  BY <1>1, <1>2, DepthDefined
<1> DEFINE S == {k \in Nat : j - 1 <= k /\ k <= i => d[k] >= Open(c, j, k)}
<1>4. j \in Nat /\ i \in Nat /\ i <= L /\ j >= 1
  BY <1>1
<1>5. ASSUME NEW k \in Nat, k >= j - 1
      PROVE  /\ Open(c, j, k) \in Int
             /\ Open(c, j, k + 1) = IF c[k + 1] = "<quote>" THEN Open(c, j, k) + 1
                                    ELSE IF c[k + 1] = "</quote>" THEN Open(c, j, k) - 1
                                    ELSE Open(c, j, k)
  <2>1. j \in Nat /\ k \in Int /\ k >= j - 1
    BY <1>4, <1>5
  <2>2. QED
    BY <2>1, OpenStep
<1>6. d[j - 1] >= Open(c, j, j - 1)
  <2>1. j - 1 \in 0..L
    BY <1>4
  <2>2. d[j - 1] \in Nat
    BY <1>3, <2>1
  <2>3. PICK h \in Int : h = j - 1
    BY <1>4
  <2>4. Open(c, j, h) = 0
    BY <1>4, <2>3, OpenStep
  <2>5. QED
    BY <2>2, <2>3, <2>4
<1>7. 0 \in S
  <2>1. j - 1 <= 0 => j - 1 = 0
    BY <1>4
  <2>2. QED
    BY <1>6, <2>1
<1>8. ASSUME NEW k \in Nat, k \in S
      PROVE  k + 1 \in S
  <2> SUFFICES ASSUME j - 1 <= k + 1, k + 1 <= i
               PROVE  d[k + 1] >= Open(c, j, k + 1)
    OBVIOUS
  <2>1. CASE k + 1 = j - 1
    BY <1>6, <2>1
  <2>2. CASE k + 1 # j - 1
    <3>1. k >= j - 1 /\ k <= i /\ k + 1 \in 1..L /\ k \in 0..L /\ (k + 1) - 1 = k
      BY <1>4, <2>2
    <3>2. d[k] \in Nat /\ d[k] >= Open(c, j, k)
      BY <1>3, <1>8, <3>1
    <3>3. d[k + 1] = IF c[k + 1] = "<quote>" THEN d[k] + 1
                     ELSE IF c[k + 1] = "</quote>" /\ d[k] > 0 THEN d[k] - 1 ELSE d[k]
      BY <1>1, <1>3, <3>1 DEF DepthUpTo
    <3>4. /\ Open(c, j, k) \in Int
          /\ Open(c, j, k + 1) = IF c[k + 1] = "<quote>" THEN Open(c, j, k) + 1
                                 ELSE IF c[k + 1] = "</quote>" THEN Open(c, j, k) - 1
                                 ELSE Open(c, j, k)
      BY <1>5, <3>1
    <3>5. CASE c[k + 1] = "<quote>"
      BY <3>2, <3>3, <3>4, <3>5
    <3>6. CASE c[k + 1] = "</quote>"
      BY <3>2, <3>3, <3>4, <3>6
    <3>7. CASE c[k + 1] # "<quote>" /\ c[k + 1] # "</quote>"
      BY <3>2, <3>3, <3>4, <3>7
    <3>8. QED
      BY <3>5, <3>6, <3>7
  <2>3. QED
    BY <2>1, <2>2
<1>9. i \in S
  <2> HIDE DEF S
  <2>1. QED
    BY <1>4, <1>7, <1>8, NaturalsInSet
<1>10. QED
  BY <1>2, <1>4, <1>9

(* Since the depth was 0 last, it is what was opened and not closed.       *)
LEMMA DepthIs ==
    ASSUME NEW D, NEW c \in Seq(D), NEW i \in 1..Len(c), NEW j \in 1..i,
           Depth(c)[j - 1] = 0, \A k \in j..i : Depth(c)[k] > 0
    PROVE  Depth(c)[i] = Open(c, j, i)
<1>1. PICK L \in Nat : L = Len(c)
  BY LenProperties
<1>2. PICK d : d = Depth(c)
  OBVIOUS
<1>3. DepthUpTo(c, d) /\ \A n \in 0..L : d[n] \in Nat
  BY <1>1, <1>2, DepthDefined
<1> DEFINE S == {k \in Nat : j - 1 <= k /\ k <= i => d[k] = Open(c, j, k)}
<1>4. j \in Nat /\ i \in Nat /\ i <= L /\ j >= 1 /\ j <= i
  BY <1>1
<1>5. ASSUME NEW k \in Nat, k >= j - 1
      PROVE  /\ Open(c, j, k) \in Int
             /\ Open(c, j, k + 1) = IF c[k + 1] = "<quote>" THEN Open(c, j, k) + 1
                                    ELSE IF c[k + 1] = "</quote>" THEN Open(c, j, k) - 1
                                    ELSE Open(c, j, k)
  <2>1. j \in Nat /\ k \in Int /\ k >= j - 1
    BY <1>4, <1>5
  <2>2. QED
    BY <2>1, OpenStep
<1>6. d[j - 1] = Open(c, j, j - 1)
  <2>1. PICK h \in Int : h = j - 1
    BY <1>4
  <2>2. Open(c, j, h) = 0
    BY <1>4, <2>1, OpenStep
  <2>3. QED
    BY <1>2, <2>1, <2>2
<1>7. 0 \in S
  <2>1. j - 1 <= 0 => j - 1 = 0
    BY <1>4
  <2>2. QED
    BY <1>6, <2>1
<1>8. ASSUME NEW k \in Nat, k \in S
      PROVE  k + 1 \in S
  <2> SUFFICES ASSUME j - 1 <= k + 1, k + 1 <= i
               PROVE  d[k + 1] = Open(c, j, k + 1)
    OBVIOUS
  <2>1. CASE k + 1 = j - 1
    BY <1>6, <2>1
  <2>2. CASE k + 1 # j - 1
    <3>1. /\ k >= j - 1 /\ k <= i /\ k + 1 \in 1..L /\ k \in 0..L /\ (k + 1) - 1 = k
          /\ k + 1 \in j..i
      BY <1>4, <2>2
    <3>2. d[k] \in Nat /\ d[k] = Open(c, j, k) /\ d[k + 1] > 0
      BY <1>2, <1>3, <1>8, <3>1
    <3>3. d[k + 1] = IF c[k + 1] = "<quote>" THEN d[k] + 1
                     ELSE IF c[k + 1] = "</quote>" /\ d[k] > 0 THEN d[k] - 1 ELSE d[k]
      BY <1>1, <1>3, <3>1 DEF DepthUpTo
    <3>4. /\ Open(c, j, k) \in Int
          /\ Open(c, j, k + 1) = IF c[k + 1] = "<quote>" THEN Open(c, j, k) + 1
                                 ELSE IF c[k + 1] = "</quote>" THEN Open(c, j, k) - 1
                                 ELSE Open(c, j, k)
      BY <1>5, <3>1
    <3>5. CASE c[k + 1] = "<quote>"
      BY <3>2, <3>3, <3>4, <3>5
    <3>6. CASE c[k + 1] = "</quote>"
      BY <3>2, <3>3, <3>4, <3>6
    <3>7. CASE c[k + 1] # "<quote>" /\ c[k + 1] # "</quote>"
      BY <3>2, <3>3, <3>4, <3>7
    <3>8. QED
      BY <3>5, <3>6, <3>7
  <2>3. QED
    BY <2>1, <2>2
<1>9. i \in S
  <2> HIDE DEF S
  <2>1. QED
    BY <1>4, <1>7, <1>8, NaturalsInSet
<1>10. QED
  BY <1>2, <1>4, <1>9

(* A token is inside of a quote when one is open.                          *)
LEMMA QuotedByDepth ==
    ASSUME NEW D, NEW c \in Seq(D), NEW i \in 1..Len(c)
    PROVE  Depth(c)[i] = 0 <=> ~Quoted(c, i)
<1>1. PICK L \in Nat : L = Len(c)
  BY LenProperties
<1>2. PICK d : d = Depth(c)
  OBVIOUS
<1>3. d[0] = 0 /\ \A n \in 0..L : d[n] \in Nat
  BY <1>1, <1>2, DepthDefined DEF DepthUpTo
<1>4. i \in Nat /\ i <= L /\ i >= 1
  BY <1>1
<1>5. ASSUME Quoted(c, i)
      PROVE  d[i] > 0
  <2>1. PICK j \in 1..i : \A k \in j..i : Met(c, "<quote>", j, k) > Met(c, "</quote>", j, k)
    BY <1>5 DEF Quoted
  <2>2. d[i] >= Met(c, "<quote>", j, i) - Met(c, "</quote>", j, i)
    BY <1>2, DepthAtLeast DEF Open
  <2>3. i \in j..i
    BY <1>4
  <2>4. Met(c, "<quote>", j, i) > Met(c, "</quote>", j, i)
    BY <2>1, <2>3
  <2>5. Met(c, "<quote>", j, i) \in Nat /\ Met(c, "</quote>", j, i) \in Nat
    <3>1. j \in Nat /\ i \in Int /\ i >= j - 1
      BY <1>4
    <3>2. QED
      BY <3>1, MetStep
  <2>6. d[i] \in Nat
    BY <1>3, <1>4
  <2>7. QED
    BY <2>2, <2>4, <2>5, <2>6
<1>6. ASSUME d[i] > 0
      PROVE  Quoted(c, i)
  <2> DEFINE B == {j \in 1..i : \A k \in j..i : d[k] > 0}
  <2>1. i \in B
    <3>1. \A k \in i..i : k = i
      BY <1>4
    <3>2. QED
      BY <1>4, <1>6, <3>1
  <2>2. PICK j \in B : \A k \in B : j <= k
    <3>1. \A h \in 1..i : h \in Nat
      BY <1>4
    <3>2. \A h \in B : h \in 1..i
      OBVIOUS
    <3> HIDE DEF B
    <3>3. B \in SUBSET Nat /\ B # {}
      BY <2>1, <3>1, <3>2
    <3>4. QED
      BY <3>3, LeastNumber
  <2>3. j \in 1..i /\ \A k \in j..i : d[k] > 0
    OBVIOUS
  <2>4. d[j - 1] = 0
    <3>1. CASE j = 1
      BY <1>3, <3>1
    <3>2. CASE j # 1
      <4>1. j - 1 \in 1..i /\ j - 1 \notin B
        BY <1>4, <2>2, <2>3, <3>2
      <4>2. PICK k \in (j - 1)..i : ~(d[k] > 0)
        BY <4>1
      <4>3. k = j - 1
        <5>1. k \in j..i \/ k = j - 1
          BY <1>4, <2>3
        <5>2. QED
          BY <2>3, <4>2, <5>1
      <4>4. d[k] \in Nat
        <5>1. k \in 0..L
          BY <1>4, <2>3
        <5>2. QED
          BY <1>3, <5>1
      <4>5. QED
        BY <4>2, <4>3, <4>4
    <3>3. QED
      BY <3>1, <3>2
  <2>5. ASSUME NEW k \in j..i
        PROVE  Met(c, "<quote>", j, k) > Met(c, "</quote>", j, k)
    <3>1. k \in 1..Len(c) /\ j \in 1..k /\ k <= i /\ j \in Nat /\ k \in Int /\ k >= j - 1
      BY <1>1, <1>4, <2>3
    <3>2. \A h \in j..k : d[h] > 0
      <4>1. \A h \in j..k : h \in j..i
        BY <2>3, <3>1
      <4>2. QED
        BY <2>3, <4>1
    <3>3. d[k] = Met(c, "<quote>", j, k) - Met(c, "</quote>", j, k)
      BY <1>2, <2>4, <3>1, <3>2, DepthIs DEF Open
    <3>4. Met(c, "<quote>", j, k) \in Nat /\ Met(c, "</quote>", j, k) \in Nat
      BY <3>1, MetStep
    <3>5. QED
      BY <2>3, <3>3, <3>4
  <2>6. QED
    BY <2>3, <2>5 DEF Quoted
<1>7. d[i] \in Nat
  BY <1>3, <1>4
<1>8. QED
  BY <1>2, <1>5, <1>6, <1>7

(* Behind the last tag of a quote the depth does not change.               *)
LEMMA DepthFlat ==
    ASSUME NEW D, NEW c \in Seq(D), NEW i \in 1..Len(c),
           \A j \in i..Len(c) : c[j] \notin Brackets
    PROVE  Depth(c)[Len(c)] = Depth(c)[i]
<1>1. PICK L \in Nat : L = Len(c)
  BY LenProperties
<1>2. PICK d : d = Depth(c)
  OBVIOUS
<1>3. DepthUpTo(c, d)
  BY <1>2, DepthDefined
<1>4. i \in Nat /\ i >= 1 /\ i <= L
  BY <1>1
<1> DEFINE S == {k \in Nat : i <= k /\ k <= L => d[k] = d[i]}
<1>5. 0 \in S
  BY <1>4
<1>6. ASSUME NEW k \in Nat, k \in S
      PROVE  k + 1 \in S
  <2> SUFFICES ASSUME i <= k + 1, k + 1 <= L
               PROVE  d[k + 1] = d[i]
    OBVIOUS
  <2>1. CASE k + 1 = i
    BY <2>1
  <2>2. CASE k + 1 # i
    <3>1. i <= k /\ k <= L /\ k + 1 \in 1..L /\ (k + 1) - 1 = k /\ k + 1 \in i..L
      BY <1>1, <1>4, <2>2
    <3>2. c[k + 1] # "<quote>" /\ c[k + 1] # "</quote>"
      BY <1>1, <3>1 DEF Brackets
    <3>3. d[k + 1] = d[k]
      BY <1>1, <1>3, <3>1, <3>2 DEF DepthUpTo
    <3>4. QED
      BY <1>6, <3>1, <3>3
  <2>3. QED
    BY <2>1, <2>2
<1>7. L \in S
  <2> HIDE DEF S
  <2>1. QED
    BY <1>5, <1>6, NaturalsInSet
<1>8. QED
  BY <1>1, <1>2, <1>4, <1>7

(* The bot is mentioned when its mention stands outside of quotes.         *)
LEMMA MentionNotQuoted ==
    ASSUME NEW D, NEW c \in Seq(D), Depth(c)[Len(c)] = 0
    PROVE  ParseMentions(c) \cap {"at-bot", "at-name"} # {}
             <=> \E i \in DOMAIN c : c[i] \in {"at-bot", "at-name"} /\ ~Quoted(c, i)
<1>1. DOMAIN c = 1..Len(c)
  BY LenProperties
<1>2. \A i \in DOMAIN c : Depth(c)[i] = 0 <=> ~Quoted(c, i)
  BY <1>1, QuotedByDepth
<1>3. \A i \in DOMAIN c :
         (\A j \in i..Len(c) : c[j] \notin Brackets) => Depth(c)[i] = 0
  BY <1>1, DepthFlat
<1>4. TopLevelText(c) = {c[i] : i \in {k \in DOMAIN c : Depth(c)[k] = 0}} \ Brackets
  <2>1. TopLevelText(c) =
          {c[i] : i \in {k \in DOMAIN c : \/ Depth(c)[k] = 0
                                         \/ \A j \in k..Len(c) : c[j] \notin Brackets}} \ Brackets
    BY DEF TopLevelText
  <2>2. {k \in DOMAIN c : \/ Depth(c)[k] = 0
                          \/ \A j \in k..Len(c) : c[j] \notin Brackets}
          = {k \in DOMAIN c : Depth(c)[k] = 0}
    BY <1>3
  <2>3. QED
    BY <2>1, <2>2
<1>5. \A x \in {"at-bot", "at-name"} :
         x \in ParseMentions(c) <=> \E i \in DOMAIN c : c[i] = x /\ Depth(c)[i] = 0
  BY <1>4 DEF ParseMentions, Ats, Brackets
<1>6. QED
  BY <1>2, <1>5

-----------------------------------------------------------------------------
(* The text for the LLM, and images in it                                  *)

LEMMA WithoutValues ==
    ASSUME NEW D, NEW seq \in Seq(D), NEW set
    PROVE  /\ Without(seq, set) \in Seq(D)
           /\ \A k \in 1..Len(Without(seq, set)) :
                 /\ Without(seq, set)[k] \notin set
                 /\ \E i \in 1..Len(seq) : Without(seq, set)[k] = seq[i]
           /\ Without(seq, set) = <<>> => \A i \in 1..Len(seq) : seq[i] \in set
           /\ (\A i \in 1..Len(seq) : seq[i] \notin set) => Without(seq, set) = seq
<1> DEFINE P == {i \in DOMAIN seq : seq[i] \notin set}
<1>1. Without(seq, set) = Chosen(seq, P)
  BY DEF Without
<1>2. DOMAIN seq = 1..Len(seq)
  BY LenProperties
<1>3. \A i \in 1..Len(seq) : i \in P <=> seq[i] \notin set
  BY <1>2
<1> HIDE DEF P
<1>4. PICK x : x = Chosen(seq, P)
  OBVIOUS
<1>5. /\ x \in Seq(D)
      /\ \A k \in 1..Len(x) : \E i \in 1..Len(seq) : i \in P /\ x[k] = seq[i]
  BY <1>4, ChosenPlaces
<1>6. x = <<>> => \A i \in 1..Len(seq) : i \notin P
  BY <1>4, ChosenNone
<1>7. (\A i \in 1..Len(seq) : i \in P) => x = seq
  BY <1>4, ChosenAll
<1>8. QED
  BY <1>1, <1>3, <1>4, <1>5, <1>6, <1>7

LEMMA VisibleDefined ==
    ASSUME NEW c \in Seq(Tokens)
    PROVE  /\ WithoutComments(c) \in Seq(Tokens) /\ Visible(c) \in Seq(Tokens)
           /\ \A k \in 1..Len(Visible(c)) :
                 /\ Visible(c)[k] \notin Brackets
                 /\ \E i \in 1..Len(WithoutComments(c)) : Visible(c)[k] = WithoutComments(c)[i]
                 /\ \E i \in 1..Len(c) : Visible(c)[k] = c[i]
<1>1. PICK w : w = WithoutComments(c)
  OBVIOUS
<1>2. PICK P : w = Chosen(c, P)
  BY <1>1 DEF WithoutComments
<1>3. /\ w \in Seq(Tokens)
      /\ \A k \in 1..Len(w) : \E i \in 1..Len(c) : w[k] = c[i]
  BY <1>2, ChosenPlaces
<1>4. PICK v : v = Without(w, Brackets)
  OBVIOUS
<1>5. /\ v \in Seq(Tokens)
      /\ \A k \in 1..Len(v) : v[k] \notin Brackets /\ \E i \in 1..Len(w) : v[k] = w[i]
  BY <1>3, <1>4, WithoutValues
<1>6. v = Visible(c)
  BY <1>1, <1>4 DEF Visible
<1>7. \A k \in 1..Len(v) : \E i \in 1..Len(c) : v[k] = c[i]
  BY <1>3, <1>5
<1>8. QED
  BY <1>1, <1>3, <1>5, <1>6, <1>7

LEMMA LlmTextDefined ==
    ASSUME NEW c \in Seq(Tokens)
    PROVE  /\ LlmText(c) \in Texts /\ Len(LlmText(c)) = Len(Visible(c))
           /\ Len(Visible(c)) \in Nat
           /\ \A i \in 1..Len(Visible(c)) :
                 /\ LlmText(c)[i] \in Bits
                 /\ LlmText(c)[i] = Word(IF Visible(c)[i] \in Images THEN Placeholder
                                         ELSE Visible(c)[i])
<1>1. PICK see : see = Visible(c)
  OBVIOUS
<1>2. see \in Seq(Tokens) /\ Len(see) \in Nat /\ DOMAIN see = 1..Len(see)
  BY <1>1, VisibleDefined, LenProperties
<1>3. \A i \in 1..Len(see) : see[i] \in Tokens
  BY <1>2, ElementOfSeq
<1> DEFINE W(i) == Word(IF see[i] \in Images THEN Placeholder ELSE see[i])
<1>4. \A i \in 1..Len(see) : W(i) \in Bits
  <2>1. Placeholder \in Tokens
    BY DEF Tokens
  <2>2. \A s \in Tokens : Word(s) \in Bits
    BY DEF Word, Bits
  <2>3. QED
    BY <1>3, <2>1, <2>2
<1>5. LlmText(c) = [i \in 1..Len(see) |-> W(i)]
  BY <1>1, <1>2 DEF LlmText
<1> HIDE DEF W
<1>6. [i \in 1..Len(see) |-> W(i)] \in Seq(Bits)
  BY <1>2, <1>4
<1>7. Len([i \in 1..Len(see) |-> W(i)]) = Len(see)
  BY <1>2
<1>8. \A i \in 1..Len(see) : LlmText(c)[i] = W(i)
  BY <1>5
<1>9. QED
  BY <1>1, <1>2, <1>4, <1>5, <1>6, <1>7, <1>8 DEF Texts, W

(* A message without a text has no word for the LLM either.                *)
LEMMA SilentText ==
    ASSUME NEW c \in Seq(Tokens), ~HasText(c)
    PROVE  Words(LlmText(c)) = <<>>
<1>1. PICK see, text, w : see = Visible(c) /\ text = LlmText(c) /\ w = WithoutComments(c)
  OBVIOUS
<1>2. w \in Seq(Tokens) /\ Without(w, Elements) = <<>>
  BY <1>1, VisibleDefined DEF HasText, CleanText
<1>3. \A i \in 1..Len(w) : w[i] \in Elements
  BY <1>2, WithoutValues
<1>4. \A i \in 1..Len(see) : see[i] \in Elements
  BY <1>1, <1>3, VisibleDefined
<1>5. /\ text \in Texts /\ Len(text) = Len(see)
      /\ \A i \in 1..Len(see) :
            text[i] = Word(IF see[i] \in Images THEN Placeholder ELSE see[i])
  BY <1>1, LlmTextDefined
<1>6. \A i \in 1..Len(text) : i \notin WordsAt(text)
  BY <1>4, <1>5 DEF WordsAt, Word
<1>7. Chosen(text, WordsAt(text)) = <<>>
  BY <1>5, <1>6, ChosenNone DEF Texts
<1>8. QED
  BY <1>1, <1>5, <1>7, WordsDefined

LEMMA RankIsCount ==
    ASSUME NEW D, NEW text \in Seq(D), NEW i \in 1..Len(text)
    PROVE  /\ Rank(text, i) = Count(Markers(text), i) /\ Rank(text, i) \in Nat
           /\ i \in Markers(text) => Rank(text, i) >= 1
<1>1. PICK L \in Nat : L = Len(text) /\ DOMAIN text = 1..L
  BY LenProperties
<1>2. \A j \in Markers(text) : j \in 1..L
  BY <1>1 DEF Markers
<1>3. {j \in Markers(text) : j <= i} = Markers(text) \cap 1..i
  BY <1>1, <1>2
<1>4. Rank(text, i) = Count(Markers(text), i)
  BY <1>3 DEF Rank, Count
<1>5. i \in Nat /\ i <= i /\ i \in 1..i
  BY <1>1
<1>6. Count(Markers(text), i) \in Nat
      /\ (i \in Markers(text) => Count(Markers(text), i) \in 1..Count(Markers(text), i))
  BY <1>5, CountGrows
<1>7. QED
  BY <1>4, <1>6

(* What comes in the place of a placeholder is no word.                    *)
LEMMA WordsReplaced ==
    ASSUME NEW text \in Texts, NEW descs \in Seq(Tokens)
    PROVE  /\ ReplacePlaceholders(text, descs) \in Texts
           /\ Len(ReplacePlaceholders(text, descs)) = Len(text)
           /\ Words(ReplacePlaceholders(text, descs)) = Words(text)
<1>1. PICK L \in Nat : L = Len(text) /\ DOMAIN text = 1..L
  BY LenProperties DEF Texts
<1>2. PICK r : r = ReplacePlaceholders(text, descs)
  OBVIOUS
<1>3. r = [i \in 1..L |->
             IF i \in Markers(text) /\ Rank(text, i) <= Len(descs)
             THEN IF descs[Rank(text, i)] = "" THEN text[i] ELSE Pic(descs[Rank(text, i)])
             ELSE text[i]]
  BY <1>1, <1>2 DEF ReplacePlaceholders
<1>4. ASSUME NEW i \in 1..L
      PROVE  r[i] = text[i] \/ (i \in Markers(text) /\ \E s \in Tokens : r[i] = Pic(s))
  <2>1. CASE i \in Markers(text) /\ Rank(text, i) <= Len(descs)
    <3>1. Rank(text, i) \in 1..Len(descs)
      <4>1. Rank(text, i) \in Nat /\ Rank(text, i) >= 1
        BY <1>1, <2>1, RankIsCount DEF Texts
      <4>2. Len(descs) \in Nat
        BY LenProperties
      <4>3. QED
        BY <2>1, <4>1, <4>2
    <3>2. descs[Rank(text, i)] \in Tokens
      BY <3>1, ElementOfSeq
    <3>3. QED
      BY <1>3, <2>1, <3>2
  <2>2. CASE ~(i \in Markers(text) /\ Rank(text, i) <= Len(descs))
    BY <1>3, <2>2
  <2>3. QED
    BY <2>1, <2>2
<1>5. \A i \in 1..L : text[i] \in Bits
  BY <1>1, ElementOfSeq DEF Texts
<1>6. \A i \in 1..L : r[i] \in Bits
  BY <1>4, <1>5 DEF Pic, Bits
<1>7. r \in Seq(Bits) /\ Len(r) = L /\ DOMAIN r = 1..L
  <2>1. r = [i \in 1..L |-> r[i]]
    BY <1>3
  <2>2. r \in [1..L -> Bits]
    BY <1>6, <2>1
  <2>3. QED
    BY <2>2
<1>8. \A i \in 1..L : r[i] # text[i] => i \notin WordsAt(text) /\ i \notin WordsAt(r)
  BY <1>4 DEF WordsAt, Markers, Word, Pic
<1>9. \A i \in 1..L : r[i] = text[i] => (i \in WordsAt(text) <=> i \in WordsAt(r))
  BY <1>1, <1>7 DEF WordsAt
<1>10. WordsAt(text) \cap 1..Len(text) = WordsAt(r) \cap 1..Len(r)
  BY <1>1, <1>7, <1>8, <1>9
<1>11. \A i \in WordsAt(text) \cap 1..Len(text) : text[i] = r[i]
  BY <1>1, <1>8
<1>12. Chosen(text, WordsAt(text)) = Chosen(r, WordsAt(r))
  BY <1>7, <1>10, <1>11, ChosenSame DEF Texts
<1>13. QED
  BY <1>1, <1>2, <1>7, <1>12, WordsDefined DEF Texts

LEMMA MarkersCounted ==
    ASSUME NEW D, NEW text \in Seq(D)
    PROVE  Cardinality(Markers(text)) = Count(Markers(text), Len(text))
<1>1. DOMAIN text = 1..Len(text)
  BY LenProperties
<1>2. Markers(text) \cap 1..Len(text) = Markers(text)
  BY <1>1 DEF Markers
<1>3. QED
  BY <1>2 DEF Count

(* Images at the end are no words either.                                  *)
LEMMA WordsBuilt ==
    ASSUME NEW text \in Texts, NEW urls \in Seq(Tokens)
    PROVE  /\ BuildMultimodalContent(text, urls) \in Texts
           /\ Words(BuildMultimodalContent(text, urls)) = Words(text)
           /\ Len(urls) <= Cardinality(Markers(text)) =>
                 BuildMultimodalContent(text, urls) = ReplacePlaceholders(text, urls)
<1>1. PICK r : r = ReplacePlaceholders(text, urls)
  OBVIOUS
<1>2. r \in Texts /\ Len(r) = Len(text) /\ Words(r) = Words(text) /\ Len(r) \in Nat
  BY <1>1, WordsReplaced, LenProperties DEF Texts
<1>3. PICK n \in Nat : n = Cardinality(Markers(text))
  <2>1. Cardinality(Markers(text)) = Count(Markers(text), Len(text))
    BY MarkersCounted DEF Texts
  <2>2. Len(text) \in Nat
    BY LenProperties DEF Texts
  <2>3. QED
    BY <2>1, <2>2, CountStep
<1>4. PICK k \in Nat : k = IF Len(urls) > n THEN Len(urls) - n ELSE 0
  BY <1>3, LenProperties
<1> DEFINE e == [i \in 1..k |-> Pic(urls[n + i])]
<1>5. BuildMultimodalContent(text, urls) = r \o e
  BY <1>1, <1>3, <1>4 DEF BuildMultimodalContent
<1>6. \A i \in 1..k : urls[n + i] \in Tokens
  <2>1. \A i \in 1..k : n + i \in 1..Len(urls)
    <3>1. Len(urls) \in Nat
      BY LenProperties
    <3>2. QED
      BY <1>4, <3>1
  <2>2. QED
    BY <2>1, ElementOfSeq
<1>7. \A i \in 1..k : e[i] = Pic(urls[n + i]) /\ e[i] \in Bits
  BY <1>6 DEF Pic, Bits
<1>8. e \in Seq(Bits) /\ Len(e) = k /\ DOMAIN e = 1..k
  <2>1. e \in [1..k -> Bits]
    BY <1>7
  <2> HIDE DEF e
  <2>2. QED
    BY <2>1
<1>9. \A i \in 1..k : e[i][1] = "pic"
  BY <1>7 DEF Pic
<1> HIDE DEF e
<1>10. PICK b : b = r \o e
  OBVIOUS
<1>11. /\ b \in Seq(Bits) /\ Len(b) = Len(r) + k /\ DOMAIN b = 1..(Len(r) + k)
       /\ \A i \in 1..Len(r) : b[i] = r[i]
       /\ \A i \in 1..k : b[Len(r) + i] = e[i]
  <2>1. r \in Seq(Bits)
    BY <1>2 DEF Texts
  <2>2. /\ b \in Seq(Bits) /\ Len(b) = Len(r) + k
        /\ \A i \in 1..Len(b) : b[i] = IF i <= Len(r) THEN r[i] ELSE e[i - Len(r)]
    BY <1>8, <1>10, <2>1, ConcatProperties, ZenonT(40)
  <2>3. \A i \in 1..Len(r) : i \in 1..Len(b) /\ i <= Len(r)
    BY <1>2, <2>2
  <2>4. \A i \in 1..k : /\ Len(r) + i \in 1..Len(b) /\ ~(Len(r) + i <= Len(r))
                        /\ Len(r) + i - Len(r) = i
    BY <1>2, <2>2
  <2>5. DOMAIN b = 1..Len(b)
    BY <2>2
  <2>6. QED
    BY <2>2, <2>3, <2>4, <2>5
<1>12. \A i \in 1..(Len(r) + k) : i \in WordsAt(b) => i \in 1..Len(r)
  <2>1. ASSUME NEW i \in 1..(Len(r) + k), i \notin 1..Len(r)
        PROVE  i \notin WordsAt(b)
    <3>1. PICK j \in 1..k : i = Len(r) + j
      <4>1. i - Len(r) \in 1..k /\ i = Len(r) + (i - Len(r))
        BY <1>2, <2>1
      <4>2. QED
        BY <4>1
    <3>2. b[i][1] = "pic"
      BY <1>9, <1>11, <3>1
    <3>3. QED
      BY <3>2 DEF WordsAt
  <2>2. QED
    BY <2>1
<1>13. DOMAIN r = 1..Len(r) /\ 1..Len(r) \subseteq 1..(Len(r) + k)
  BY <1>2 DEF Texts
<1>14. \A i \in 1..Len(r) : i \in WordsAt(b) <=> i \in WordsAt(r)
  BY <1>11, <1>13 DEF WordsAt
<1>15. WordsAt(r) \cap 1..Len(r) = WordsAt(b) \cap 1..Len(b)
  BY <1>11, <1>12, <1>13, <1>14
<1>16. Chosen(r, WordsAt(r)) = Chosen(b, WordsAt(b))
  <2>1. \A i \in WordsAt(r) \cap 1..Len(r) : r[i] = b[i]
    BY <1>11
  <2>2. r \in Seq(Bits) /\ b \in Seq(Bits)
    BY <1>2, <1>11 DEF Texts
  <2>3. PICK P, Q : P = WordsAt(r) /\ Q = WordsAt(b)
    OBVIOUS
  <2>4. P \cap 1..Len(r) = Q \cap 1..Len(b) /\ \A i \in P \cap 1..Len(r) : r[i] = b[i]
    BY <1>15, <2>1, <2>3
  <2>5. Chosen(r, P) = Chosen(b, Q)
    BY <2>2, <2>4, ChosenSame
  <2>6. QED
    BY <2>3, <2>5
<1>17. Words(b) = Words(text)
  BY <1>2, <1>11, <1>16, WordsDefined DEF Texts
<1>18. ASSUME Len(urls) <= n
       PROVE  b = r
  <2>1. k = 0
    BY <1>3, <1>4, <1>18, LenProperties
  <2>2. e = <<>>
    BY <1>8, <2>1, EmptySeq
  <2>3. QED
    BY <1>2, <1>10, <2>2, ConcatEmptySeq DEF Texts
<1>19. QED
  BY <1>1, <1>3, <1>5, <1>10, <1>11, <1>17, <1>18 DEF Texts

-----------------------------------------------------------------------------
(* A placeholder per image, in the order of the images.                    *)
NoneTyped(c) == \A i \in 1..Len(c) : c[i] # Placeholder

LEMMA MarkersAreImages ==
    ASSUME NEW c \in Seq(Tokens), NoneTyped(c)
    PROVE  /\ Markers(LlmText(c)) = {i \in 1..Len(Visible(c)) : Visible(c)[i] \in Images}
           /\ Len(ImageSrcs(Visible(c))) = Cardinality(Markers(LlmText(c)))
           /\ \A i \in Markers(LlmText(c)) :
                 /\ Rank(LlmText(c), i) \in 1..Len(ImageSrcs(Visible(c)))
                 /\ ImageSrcs(Visible(c))[Rank(LlmText(c), i)] = Visible(c)[i]
<1>1. PICK see, text : see = Visible(c) /\ text = LlmText(c)
  OBVIOUS
<1>2. /\ see \in Seq(Tokens) /\ Len(see) \in Nat /\ DOMAIN see = 1..Len(see)
      /\ \A i \in 1..Len(see) : \E j \in 1..Len(c) : see[i] = c[j]
  <2>1. see \in Seq(Tokens) /\ \A i \in 1..Len(see) : \E j \in 1..Len(c) : see[i] = c[j]
    BY <1>1, VisibleDefined
  <2>2. QED
    BY <2>1, LenProperties
<1>3. /\ text \in Seq(Bits) /\ Len(text) = Len(see) /\ DOMAIN text = 1..Len(see)
      /\ \A i \in 1..Len(see) :
            text[i] = Word(IF see[i] \in Images THEN Placeholder ELSE see[i])
  BY <1>1, LlmTextDefined, LenProperties DEF Texts
<1> DEFINE M == {i \in 1..Len(see) : see[i] \in Images}
<1>4. \A i \in 1..Len(see) : text[i] = Word(Placeholder) <=> see[i] \in Images
  <2>1. \A i \in 1..Len(see) : see[i] # Placeholder
    BY <1>2 DEF NoneTyped
  <2>2. QED
    BY <1>3, <2>1 DEF Word
<1>5. Markers(text) = M
  BY <1>3, <1>4 DEF Markers
<1>6. ImageSrcs(see) = Chosen(see, M)
  BY <1>2 DEF ImageSrcs
<1>7. \A i \in M : i \in 1..Len(see) /\ see[i] = see[i]
  OBVIOUS
<1> HIDE DEF M
<1>8. PICK srcs : srcs = ImageSrcs(see)
  OBVIOUS
<1>9. /\ Len(srcs) = Count(M, Len(see))
      /\ \A i \in 1..Len(see) : i \in M => Count(M, i) \in 1..Len(srcs) /\ srcs[Count(M, i)] = see[i]
  BY <1>2, <1>6, <1>8, ChosenPlaces
<1>10. Cardinality(Markers(text)) = Count(M, Len(see))
  BY <1>3, <1>5, MarkersCounted
<1>11. \A i \in 1..Len(see) : Rank(text, i) = Count(M, i)
  BY <1>3, <1>5, RankIsCount
<1>12. QED
  BY <1>1, <1>5, <1>7, <1>8, <1>9, <1>10, <1>11 DEF M

(* Where the images of a text are, if what was got are they.               *)
Placed(c, text) ==
    /\ Len(text) = Len(Visible(c))
    /\ \A i \in DOMAIN Visible(c) :
          IF Visible(c)[i] \in Images THEN text[i] \in {Word(Placeholder), Pic(Visible(c)[i])}
          ELSE text[i] = Word(Visible(c)[i])

(* What was got of an image: a description or its source, or nothing.      *)
Got(d, src) == d \in {"", src}

GotOf(srcs, got) ==
    /\ Len(got) <= Len(srcs)
    /\ \A i \in 1..Len(got) : Got(got[i], srcs[i])

LEMMA ReplacedInPlace ==
    ASSUME NEW c \in Seq(Tokens), NoneTyped(c),
           NEW got \in Seq(Tokens), GotOf(ImageSrcs(Visible(c)), got)
    PROVE  Placed(c, ReplacePlaceholders(LlmText(c), got))
<1>1. PICK see, text, srcs :
         see = Visible(c) /\ text = LlmText(c) /\ srcs = ImageSrcs(Visible(c))
  OBVIOUS
<1>2. see \in Seq(Tokens) /\ Len(see) \in Nat /\ DOMAIN see = 1..Len(see)
  BY <1>1, VisibleDefined, LenProperties
<1>3. /\ text \in Texts /\ Len(text) = Len(see) /\ DOMAIN text = 1..Len(see)
      /\ \A i \in 1..Len(see) :
            text[i] = Word(IF see[i] \in Images THEN Placeholder ELSE see[i])
  BY <1>1, LlmTextDefined, LenProperties DEF Texts
<1>4. \A i \in 1..Len(see) : i \in Markers(text) <=> see[i] \in Images
  BY <1>1, MarkersAreImages
<1>5. \A i \in Markers(text) : Rank(text, i) \in 1..Len(srcs) /\ srcs[Rank(text, i)] = see[i]
  BY <1>1, MarkersAreImages
<1>6. PICK r : r = ReplacePlaceholders(text, got)
  OBVIOUS
<1>7. \A i \in 1..Len(see) :
         r[i] = IF i \in Markers(text) /\ Rank(text, i) <= Len(got)
                THEN IF got[Rank(text, i)] = "" THEN text[i] ELSE Pic(got[Rank(text, i)])
                ELSE text[i]
  BY <1>3, <1>6 DEF ReplacePlaceholders
<1>8. Len(r) = Len(see)
  BY <1>3, <1>6, WordsReplaced
<1>9. ASSUME NEW i \in 1..Len(see), see[i] \in Images
      PROVE  r[i] \in {Word(Placeholder), Pic(see[i])}
  <2>1. i \in Markers(text) /\ text[i] = Word(Placeholder)
    BY <1>3, <1>4, <1>9
  <2>2. CASE Rank(text, i) <= Len(got)
    <3>1. Rank(text, i) \in 1..Len(got)
      <4>1. PICK n \in Nat : n = Len(got)
        BY LenProperties
      <4>2. PICK k \in Nat : k = Rank(text, i) /\ k >= 1
        BY <1>3, <2>1, RankIsCount DEF Texts
      <4>3. k <= n
        BY <2>2, <4>1, <4>2
      <4>4. k \in 1..n
        BY <4>1, <4>2, <4>3
      <4>5. QED
        BY <4>1, <4>2, <4>4
    <3>2. got[Rank(text, i)] \in {"", see[i]}
      BY <1>1, <1>5, <2>1, <3>1 DEF GotOf, Got
    <3>3. QED
      BY <1>7, <2>1, <2>2, <3>2
  <2>3. CASE ~(Rank(text, i) <= Len(got))
    BY <1>7, <2>1, <2>3
  <2>4. QED
    BY <2>2, <2>3
<1>10. ASSUME NEW i \in 1..Len(see), see[i] \notin Images
       PROVE  r[i] = Word(see[i])
  BY <1>3, <1>4, <1>7, <1>10
<1>11. QED
  BY <1>1, <1>2, <1>6, <1>8, <1>9, <1>10 DEF Placed

-----------------------------------------------------------------------------
(* The inductive invariant of who is answered, and with what images        *)

(* How a message was routed is how it was meant.                           *)
Judged(t, r) ==
    /\ SpokenTo(t, r) => r.action = "reply"
    /\ r.action = "reply" => r.flag \/ SpokenTo(t, r)
    /\ ~IsKept(r) => Words(LlmText(r.msg.content)) = <<>>

KeptAt(burst) == {i \in DOMAIN burst : IsKept(burst[i])}
KeptOf(burst) == Chosen(burst, KeptAt(burst))

(* A text that is shown says what the message says, with its images.       *)
InPlace(c, s, multimodal) ==
    \/ Placeholder \in ToSet(c)
    \/ ImageSrcs(c) # ImageSrcs(Visible(c))
    \/ multimodal /\ s.failed
    \/ Placed(c, s.text)

Faithful(r, s, multimodal) ==
    /\ Words(s.text) = Words(LlmText(r.msg.content))
    /\ InPlace(r.msg.content, s, multimodal)

(* What was got of an image, or is not known yet.                          *)
GotSoFar(d, src) == d \in {Unknown, "", src}

(* What was got of the images of message r.                                *)
Fetching(r, got) ==
    LET srcs == ImageSrcs(r.msg.content)
    IN  /\ got \in Seq(Tokens) /\ Len(got) <= Len(srcs)
        /\ \A i \in 1..Len(got) : GotSoFar(got[i], srcs[i])

Shows == [text : Texts, failed : BOOLEAN]

ShownOK(p, multimodal) ==
    /\ p.shown \in Seq(Shows)
    /\ \A k \in 1..Len(p.shown) : Faithful(KeptOf(p.burst)[k], p.shown[k], multimodal)
    /\ p.at \notin {"images", "turn"} => p.shown = <<>>
    /\ p.at = "images" => /\ Len(p.shown) < Len(KeptOf(p.burst))
                          /\ Fetching(KeptOf(p.burst)[Len(p.shown) + 1], p.got)
    /\ p.at = "turn" => Len(p.shown) = Len(KeptOf(p.burst))

(* A command comes when the segment before it is done, the end of a batch  *)
(* when all segments are.                                                  *)
InOrder(p) ==
    /\ p.at = "command" => p.burst = <<>>
    /\ p.at = "route" /\ p.batch = <<>> => p.burst = <<>>

ThreadOK(t, p, multimodal) ==
    /\ \A i \in DOMAIN p.burst : Judged(t, p.burst[i])
    /\ InOrder(p) /\ ShownOK(p, multimodal)

Bounds ==
    /\ mode \in Modes /\ setter \in Admins \cup {""} /\ clock <= LastTime
    /\ \A t \in Threads : /\ lastReply[t] = Never \/ lastReply[t] \in 0..clock
                          /\ used[t] = Never \/ used[t] \in 0..clock

AskedInv ==
    SpacedInv /\ Bounds /\ \A t \in Threads : ThreadOK(t, proc[t], mode.multimodal)

LEMMA ContentTokens ==
    ASSUME NEW m \in Messages
    PROVE  m.content \in Seq(Tokens)
<1>1. PICK c : c = m.content
  OBVIOUS
<1>2. c \in Seq(STRING)
  BY <1>1, MessageAssumption DEF MessageAssumption
<1>3. PICK L \in Nat : L = Len(c)
  BY <1>2, LenProperties
<1>4. c \in [1..L -> STRING]
  BY <1>2, <1>3
<1>5. STRING \subseteq Tokens
  BY DEF Tokens
<1> HIDE DEF Tokens
<1>6. c \in [1..L -> Tokens]
  BY <1>4, <1>5
<1>7. QED
  BY <1>1, <1>3, <1>6

(* What is kept of a burst.                                                *)
LEMMA KeptDefined ==
    ASSUME NEW burst \in Seq(Routed)
    PROVE  /\ KeptOf(burst) \in Seq(Routed)
           /\ Len(KeptOf(burst)) \in Nat
           /\ Len(KeptOf(burst)) = Count(KeptAt(burst), Len(burst))
           /\ \A i \in 1..Len(burst) :
                 IsKept(burst[i]) =>
                    /\ Count(KeptAt(burst), i) \in 1..Len(KeptOf(burst))
                    /\ KeptOf(burst)[Count(KeptAt(burst), i)] = burst[i]
           /\ \A k \in 1..Len(KeptOf(burst)) : KeptOf(burst)[k] \in Routed
<1>1. PICK k, P : k = KeptOf(burst) /\ P = KeptAt(burst)
  OBVIOUS
<1>2. \A i \in 1..Len(burst) : i \in P <=> IsKept(burst[i])
  BY <1>1 DEF KeptAt
<1>3. /\ k \in Seq(Routed) /\ Len(k) = Count(P, Len(burst))
      /\ \A i \in 1..Len(burst) : i \in P => Count(P, i) \in 1..Len(k) /\ k[Count(P, i)] = burst[i]
  BY <1>1, ChosenPlaces DEF KeptOf
<1>4. Len(k) \in Nat /\ \A i \in 1..Len(k) : k[i] \in Routed
  BY <1>3, LenProperties, ElementOfSeq
<1>5. QED
  BY <1>1, <1>2, <1>3, <1>4

(* The words of a turn are those of its burst.                             *)
LEMMA WordsShown ==
    ASSUME NEW burst \in Seq(Routed), NEW shown \in Seq(Shows),
           Len(shown) = Len(KeptOf(burst)), NEW t, NEW multimodal,
           \A i \in DOMAIN burst : Judged(t, burst[i]),
           \A k \in 1..Len(shown) : Faithful(KeptOf(burst)[k], shown[k], multimodal)
    PROVE  AllWords([i \in DOMAIN shown |-> shown[i].text])
             = AllWords([i \in DOMAIN burst |-> LlmText(burst[i].msg.content)])
<1>1. PICK L \in Nat, M \in Nat : L = Len(burst) /\ M = Len(shown)
  BY LenProperties
<1>2. DOMAIN burst = 1..L /\ DOMAIN shown = 1..M
  BY <1>1
<1>3. (\A i \in 1..L : burst[i] \in Routed) /\ (\A i \in 1..M : shown[i] \in Shows)
  BY <1>1, ElementOfSeq
<1> DEFINE a == [i \in 1..L |-> LlmText(burst[i].msg.content)]
           b == [i \in 1..M |-> shown[i].text]
<1>4. \A i \in 1..L : a[i] = LlmText(burst[i].msg.content) /\ a[i] \in Texts
  <2>1. \A i \in 1..L : burst[i].msg.content \in Seq(Tokens)
    BY <1>3, ContentTokens DEF Routed
  <2>2. QED
    BY <2>1, LlmTextDefined
<1>5. \A i \in 1..M : b[i] = shown[i].text /\ b[i] \in Texts
  BY <1>3 DEF Shows
<1>6. a \in [1..L -> Texts] /\ b \in [1..M -> Texts]
  BY <1>4, <1>5
<1> HIDE DEF a, b
<1>7. a \in Seq(Texts) /\ Len(a) = L /\ b \in Seq(Texts) /\ Len(b) = M
  BY <1>6
<1>8. PICK P : P = KeptAt(burst)
  OBVIOUS
<1>9. Len(b) = Count(P, Len(a))
  BY <1>1, <1>7, <1>8, KeptDefined
<1>10. ASSUME NEW i \in 1..L
       PROVE  /\ i \in P => Words(b[Count(P, i)]) = Words(a[i])
              /\ i \notin P => Words(a[i]) = <<>>
  <2>1. i \in P <=> IsKept(burst[i])
    BY <1>2, <1>8 DEF KeptAt
  <2>2. CASE i \in P
    <3>1. Count(P, i) \in 1..M /\ KeptOf(burst)[Count(P, i)] = burst[i]
      BY <1>1, <1>8, <2>1, <2>2, KeptDefined
    <3>2. Words(shown[Count(P, i)].text) = Words(LlmText(burst[i].msg.content))
      BY <1>1, <3>1 DEF Faithful
    <3>3. QED
      BY <1>4, <1>5, <2>2, <3>1, <3>2
  <2>3. CASE i \notin P
    BY <1>2, <1>4, <2>1, <2>3 DEF Judged
  <2>4. QED
    BY <2>2, <2>3
<1>11. AllWords(b) = AllWords(a)
  BY <1>7, <1>9, <1>10, AllWordsOfChosen
<1>12. QED
  BY <1>2, <1>11 DEF a, b

LEMMA AskedOfInv == AskedInv => AsAsked
<1> SUFFICES ASSUME AskedInv PROVE AsAsked
  OBVIOUS
<1>1. TypeOK
  <2>1. auto \in BOOLEAN /\ known \in BOOLEAN
    BY DEF AskedInv, SpacedInv, Types
  <2>2. clock \in Cooldown..LastTime
    <3>1. clock \in Int /\ clock >= Cooldown /\ clock <= LastTime
      BY DEF AskedInv, SpacedInv, Types, Bounds
    <3>2. Cooldown \in Nat /\ LastTime \in Nat
      BY MessageAssumption DEF MessageAssumption
    <3>3. QED
      BY <3>1, <3>2
  <2>3. \A t \in Threads : proc[t].at \in Stages
    BY DEF AskedInv, SpacedInv, Types, ProcOK
  <2>4. QED
    BY <2>1, <2>2, <2>3 DEF TypeOK, AskedInv, Bounds, Stages
<1>2. ASSUME NEW t \in Threads
      PROVE  LET burst == proc[t].burst
                 spoken == \E i \in DOMAIN burst : SpokenTo(t, burst[i])
             IN  /\ proc[t].at = "route" /\ proc[t].batch = <<>> => burst = <<>>
                 /\ proc[t].at = "segment" /\ spoken => Replies(t)
                 /\ proc[t].at = "turn" =>
                       /\ spoken \/ \E i \in DOMAIN burst : burst[i].flag
                       /\ AllWords([i \in DOMAIN proc[t].shown |-> proc[t].shown[i].text])
                            = AllWords([i \in DOMAIN burst |-> LlmText(burst[i].msg.content)])
  <2>1. PICK p : p = proc[t]
    OBVIOUS
  <2>2. ThreadOK(t, p, mode.multimodal) /\ ProcOK(p) /\ HasReply(p)
    BY <2>1 DEF AskedInv, SpacedInv, Types
  <2>3. p.at = "route" /\ p.batch = <<>> => p.burst = <<>>
    BY <2>2 DEF ThreadOK, InOrder
  <2>4. (\E i \in DOMAIN p.burst : SpokenTo(t, p.burst[i])) => Replies(t)
    BY <2>1, <2>2 DEF ThreadOK, Judged, Replies
  <2>5. ASSUME p.at = "turn"
        PROVE  \E i \in DOMAIN p.burst : SpokenTo(t, p.burst[i]) \/ p.burst[i].flag
    <3>1. PICK i \in DOMAIN p.burst : p.burst[i].action = "reply"
      BY <2>2, <2>5 DEF HasReply
    <3>2. QED
      BY <2>2, <3>1 DEF ThreadOK, Judged
  <2>6. ASSUME p.at = "turn"
        PROVE  AllWords([i \in DOMAIN p.shown |-> p.shown[i].text])
                 = AllWords([i \in DOMAIN p.burst |-> LlmText(p.burst[i].msg.content)])
    <3>1. p.burst \in Seq(Routed)
      BY <2>2 DEF ProcOK
    <3>2. /\ p.shown \in Seq(Shows) /\ Len(p.shown) = Len(KeptOf(p.burst))
          /\ \A k \in 1..Len(p.shown) : Faithful(KeptOf(p.burst)[k], p.shown[k], mode.multimodal)
      BY <2>2, <2>6 DEF ThreadOK, ShownOK
    <3>3. \A i \in DOMAIN p.burst : Judged(t, p.burst[i])
      BY <2>2 DEF ThreadOK
    <3>4. QED
      BY <3>1, <3>2, <3>3, WordsShown
  <2>7. QED
    BY <2>1, <2>3, <2>4, <2>5, <2>6
<1>3. QED
  BY <1>1, <1>2 DEF AsAsked, AskedInv, Bounds

LEMMA InPlaceOfInv == AskedInv => ImagesInPlace
<1> SUFFICES ASSUME AskedInv, NEW t \in Threads, NEW k \in DOMAIN proc[t].shown
             PROVE  InPlace(Kept(t)[k].msg.content, proc[t].shown[k], mode.multimodal)
  BY DEF ImagesInPlace, InPlace, Placed
<1>1. ShownOK(proc[t], mode.multimodal)
  BY DEF AskedInv, ThreadOK
<1>2. k \in 1..Len(proc[t].shown)
  BY <1>1 DEF ShownOK
<1>3. Kept(t) = KeptOf(proc[t].burst)
  BY DEF Kept, KeptOf, KeptAt
<1>4. QED
  BY <1>1, <1>2, <1>3 DEF ShownOK, Faithful

-----------------------------------------------------------------------------
(* A message is routed as it is meant.                                     *)
LEMMA RoutedAsMeant ==
    ASSUME NEW t \in Threads, NEW m \in Messages, NEW flag \in BOOLEAN, known \in BOOLEAN
    PROVE  Judged(t, [msg |-> m, action |-> Action(t, m, flag), flag |-> flag, known |-> known])
<1>1. PICK r : r = [msg |-> m, action |-> Action(t, m, flag), flag |-> flag, known |-> known]
  OBVIOUS
<1>2. r.msg = m /\ r.action = Action(t, m, flag) /\ r.flag = flag /\ r.known = known
  BY <1>1
<1>3. PICK c : c = m.content
  OBVIOUS
<1>4. c \in Seq(Tokens) /\ Depth(c)[Len(c)] = 0
  BY <1>3, ContentTokens, MessageAssumption DEF MessageAssumption
<1>5. MentionsBot(m) <=>
        known /\ \E i \in DOMAIN c : c[i] \in {"at-bot", "at-name"} /\ ~Quoted(c, i)
  BY <1>3, <1>4, MentionNotQuoted DEF MentionsBot
<1>6. Kind(c) \notin NonReplyKinds <=> ImagesFirst(c)
  BY <1>4, KindByFirst
<1>7. SpokenTo(t, r) <=> ImagesFirst(c) /\ (t \in Direct \/ MentionsBot(m))
  BY <1>2, <1>3, <1>5 DEF SpokenTo, ImagesFirst
<1>8. DecideReply(t, m, flag) <=> ImagesFirst(c) /\ (t \in Direct \/ flag \/ MentionsBot(m))
  BY <1>3, <1>6 DEF DecideReply
<1>9. r.action = "reply" <=> DecideReply(t, m, flag)
  BY <1>2 DEF Action, KeepInContext
<1>10. ASSUME ~IsKept(r)
       PROVE  Words(LlmText(r.msg.content)) = <<>>
  <2>1. ~KeepInContext(DecideReply(t, m, flag), m)
    BY <1>2, <1>10 DEF IsKept, Action
  <2>2. ~HasText(c)
    BY <1>3, <2>1 DEF KeepInContext
  <2>3. QED
    BY <1>2, <1>3, <1>4, <2>2, SilentText
<1>11. Judged(t, r)
  BY <1>2, <1>7, <1>8, <1>9, <1>10 DEF Judged
<1>12. QED
  BY <1>1, <1>11

-----------------------------------------------------------------------------
(* Steps                                                                   *)

LEMMA ThreadStep ==
    ASSUME AskedInv, SpacedInv', Bounds', NEW t \in Threads, NEW p,
           proc' = [proc EXCEPT ![t] = p], UNCHANGED mode,
           ThreadOK(t, p, mode.multimodal)
    PROVE  AskedInv'
<1>1. \A s \in Threads : proc'[s] = IF s = t THEN p ELSE proc[s]
  BY DEF AskedInv, SpacedInv, Types
<1>2. \A s \in Threads : ThreadOK(s, proc[s], mode.multimodal)
  BY DEF AskedInv
<1>3. \A s \in Threads : ThreadOK(s, proc'[s], mode'.multimodal)
  BY <1>1, <1>2
<1>4. QED
  BY <1>3 DEF AskedInv

(* A batch in which nothing waits for an answer.                           *)
LEMMA EmptyThreadOK ==
    ASSUME NEW t, NEW p, NEW multimodal,
           p.burst = <<>>, p.shown = <<>>, p.at \notin {"images", "turn"}
    PROVE  ThreadOK(t, p, multimodal)
<1>1. <<>> \in Seq(Shows) /\ Len(<<>>) = 0
  OBVIOUS
<1>2. ShownOK(p, multimodal)
  BY <1>1 DEF ShownOK
<1>3. InOrder(p)
  BY DEF InOrder
<1>4. QED
  BY <1>2, <1>3 DEF ThreadOK

LEMMA BoundsKept ==
    ASSUME AskedInv, [Next]_vars
    PROVE  Bounds'
<1>1. clock \in Int /\ clock >= 0 /\ Never \in Int /\ Cooldown \in Nat /\ LastTime \in Nat
  BY MessageAssumption DEF AskedInv, SpacedInv, Types, MessageAssumption, Never
<1>2. /\ DOMAIN lastReply = Threads /\ DOMAIN used = Threads
      /\ \A t \in Threads : /\ lastReply[t] = Never \/ lastReply[t] \in 0..clock
                            /\ used[t] = Never \/ used[t] \in 0..clock
  BY DEF AskedInv, SpacedInv, Types, Bounds
<1>3. mode \in Modes /\ setter \in Admins \cup {""} /\ clock <= LastTime
  BY DEF AskedInv, Bounds
<1>4. mode' = mode
  BY DEF Next, vars, Describe, Take, Route, Segment, Fetched, Reply, NoReply, Command, Done,
         Arrive, Login, Tick, Finished, Shared
<1>5. ASSUME UNCHANGED <<clock, lastReply, used, setter>>
      PROVE  Bounds'
  BY <1>2, <1>3, <1>4, <1>5 DEF Bounds
<1>6. ASSUME NEW t \in Threads, Take(t)
      PROVE  Bounds'
  <2>1. UNCHANGED <<clock, lastReply, setter>> /\ used' = [used EXCEPT ![t] = clock]
    BY <1>6 DEF Take
  <2>2. clock \in 0..clock
    BY <1>1
  <2>3. QED
    BY <1>2, <1>3, <1>4, <2>1, <2>2 DEF Bounds
<1>7. ASSUME NEW t \in Threads, Reply(t)
      PROVE  Bounds'
  <2>1. /\ UNCHANGED <<clock, used, setter>>
        /\ lastReply' = [lastReply EXCEPT ![t] = clock] \/ lastReply' = lastReply
    BY <1>7 DEF Reply, Shared
  <2>2. clock \in 0..clock
    BY <1>1
  <2>3. QED
    BY <1>2, <1>3, <1>4, <2>1, <2>2 DEF Bounds
<1>8. ASSUME NEW t \in Threads, Command(t)
      PROVE  Bounds'
  <2>1. UNCHANGED <<clock, lastReply, used>>
    BY <1>8 DEF Command, Shared
  <2>2. setter' \in Admins \cup {""}
    <3>1. CASE Sets(proc[t].cmd)
      <4>1. proc[t].cmd.user \in Admins
        BY <3>1 DEF Sets, CanRun, Everyone
      <4>2. QED
        BY <1>8, <3>1, <4>1 DEF Command
    <3>2. CASE ~Sets(proc[t].cmd)
      BY <1>3, <1>8, <3>2 DEF Command
    <3>3. QED
      BY <3>1, <3>2
  <2>3. QED
    BY <1>2, <1>3, <1>4, <2>1, <2>2 DEF Bounds
<1>9. ASSUME NEW t \in Threads, Done(t)
      PROVE  Bounds'
  <2>1. /\ UNCHANGED <<clock, setter>>
        /\ \A s \in Threads : /\ lastReply'[s] = Never \/ lastReply'[s] = lastReply[s]
                              /\ used'[s] = Never \/ used'[s] = used[s]
    BY <1>9 DEF Done, Shared
  <2>2. QED
    BY <1>2, <1>3, <1>4, <2>1 DEF Bounds
<1>10. ASSUME Tick
       PROVE  Bounds'
  <2>1. UNCHANGED <<lastReply, used, setter>> /\ clock' = clock + 1 /\ clock < LastTime
    BY <1>10 DEF Tick
  <2>2. \A x \in 0..clock : x \in 0..(clock + 1)
    BY <1>1
  <2>3. clock + 1 <= LastTime
    BY <1>1, <2>1
  <2>4. QED
    BY <1>2, <1>3, <1>4, <2>1, <2>2, <2>3 DEF Bounds
<1>11. ASSUME NEW t \in Threads,
              (\E i \in 1..MaxImages : Describe(t, i)) \/ Route(t) \/ Segment(t)
                \/ Fetched(t) \/ NoReply(t)
       PROVE  Bounds'
  BY <1>5, <1>11 DEF Describe, Route, Segment, Fetched, NoReply, Shared
<1>12. ASSUME (\E m \in Messages : Arrive(m)) \/ Login \/ Finished \/ UNCHANGED vars
       PROVE  Bounds'
  BY <1>5, <1>12 DEF Arrive, Login, Finished, vars
<1>13. QED
  BY <1>6, <1>7, <1>8, <1>9, <1>10, <1>11, <1>12 DEF Next

(* What the parts of the invariant say of a thread.                        *)
LEMMA ThreadParts ==
    ASSUME AskedInv, NEW t \in Threads
    PROVE  /\ ProcOK(proc[t]) /\ HasReply(proc[t]) /\ InOrder(proc[t])
           /\ ShownOK(proc[t], mode.multimodal)
           /\ \A i \in DOMAIN proc[t].burst : Judged(t, proc[t].burst[i])
BY DEF AskedInv, SpacedInv, Types, ThreadOK

LEMMA AfterSegmentKeeps ==
    ASSUME AskedInv, SpacedInv', Bounds', NEW t \in Threads,
           proc' = [proc EXCEPT ![t] = AfterSegment(t)], UNCHANGED mode
    PROVE  AskedInv'
<1> DEFINE p == AfterSegment(t)
<1>1. ProcOK(proc[t])
  BY ThreadParts
<1>2. p.burst = <<>> /\ p.shown = <<>> /\ p.at \in {"command", "route"}
  BY <1>1 DEF AfterSegment, ProcOK
<1> HIDE DEF p
<1>3. ThreadOK(t, p, mode.multimodal)
  BY <1>2, EmptyThreadOK
<1>4. QED
  BY <1>3, ThreadStep DEF p

LEMMA RouteAsked ==
    ASSUME AskedInv, SpacedInv', Bounds', NEW t \in Threads, Route(t)
    PROVE  AskedInv'
<1>1. /\ ProcOK(proc[t]) /\ InOrder(proc[t]) /\ ShownOK(proc[t], mode.multimodal)
      /\ \A i \in DOMAIN proc[t].burst : Judged(t, proc[t].burst[i])
  BY ThreadParts
<1>2. proc[t].at = "route" /\ proc[t].batch # <<>> /\ UNCHANGED mode
  BY DEF Route, Shared
<1>3. proc[t].shown = <<>>
  BY <1>1, <1>2 DEF ShownOK
<1> DEFINE m == Head(proc[t].batch)
           next == [proc[t] EXCEPT !.batch = Tail(@)]
<1>4. PICK dice \in BOOLEAN :
        LET flag == ShouldAllowAutoReply(t, m, dice)
        IN  proc' = [proc EXCEPT ![t] =
              IF IsCommand(m)
              THEN [next EXCEPT !.cmd = m,
                      !.at = IF proc[t].burst = <<>> THEN "command" ELSE "segment"]
              ELSE [next EXCEPT !.burst = Append(@,
                      [msg |-> m, action |-> Action(t, m, flag), flag |-> flag, known |-> known]),
                      !.at = IF next.batch = <<>> THEN "segment" ELSE "route"]]
  BY DEF Route
<1> DEFINE flag == ShouldAllowAutoReply(t, m, dice)
           rec == [msg |-> m, action |-> Action(t, m, flag), flag |-> flag, known |-> known]
           byCommand == [next EXCEPT !.cmd = m,
                            !.at = IF proc[t].burst = <<>> THEN "command" ELSE "segment"]
           byMessage == [next EXCEPT !.burst = Append(@, rec),
                            !.at = IF next.batch = <<>> THEN "segment" ELSE "route"]
<1>5. /\ DOMAIN next = DOMAIN proc[t] /\ next.batch = Tail(proc[t].batch)
      /\ next.burst = proc[t].burst /\ next.shown = proc[t].shown
  BY <1>1 DEF ProcOK
<1>6. m \in Messages
  BY <1>1, <1>2, HeadTailProperties DEF ProcOK
<1>7. <<>> \in Seq(Shows) /\ Len(<<>>) = 0
  OBVIOUS
<1>8. CASE IsCommand(m)
  <2>1. proc' = [proc EXCEPT ![t] = byCommand]
    BY <1>4, <1>8
  <2> HIDE DEF next, m
  <2>2. /\ byCommand.burst = proc[t].burst /\ byCommand.shown = <<>>
        /\ byCommand.at = IF proc[t].burst = <<>> THEN "command" ELSE "segment"
    BY <1>1, <1>3, <1>5 DEF ProcOK
  <2> HIDE DEF byCommand
  <2>3. InOrder(byCommand)
    BY <2>2 DEF InOrder
  <2>4. ShownOK(byCommand, mode.multimodal)
    BY <1>7, <2>2 DEF ShownOK
  <2>5. ThreadOK(t, byCommand, mode.multimodal)
    BY <1>1, <2>2, <2>3, <2>4 DEF ThreadOK
  <2>6. QED
    BY <1>2, <2>1, <2>5, ThreadStep
<1>9. CASE ~IsCommand(m)
  <2>1. proc' = [proc EXCEPT ![t] = byMessage]
    BY <1>4, <1>9
  <2>2. flag \in BOOLEAN /\ known \in BOOLEAN
    BY DEF ShouldAllowAutoReply, AskedInv, SpacedInv, Types
  <2>3. Judged(t, rec)
    <3> HIDE DEF m, flag
    <3>1. QED
      BY <1>6, <2>2, RoutedAsMeant
  <2>4. rec \in Routed
    BY <1>6, <2>2, ActionType DEF Routed
  <2> HIDE DEF next, m, rec, flag
  <2>5. /\ byMessage.burst = Append(proc[t].burst, rec) /\ byMessage.shown = <<>>
        /\ byMessage.batch = next.batch
        /\ byMessage.at = IF next.batch = <<>> THEN "segment" ELSE "route"
    BY <1>1, <1>3, <1>5 DEF ProcOK
  <2> HIDE DEF byMessage
  <2>6. \A i \in DOMAIN Append(proc[t].burst, rec) :
              \/ i \in DOMAIN proc[t].burst /\ Append(proc[t].burst, rec)[i] = proc[t].burst[i]
              \/ Append(proc[t].burst, rec)[i] = rec
    BY <1>1, <2>4 DEF ProcOK
  <2>7. \A i \in DOMAIN byMessage.burst : Judged(t, byMessage.burst[i])
    BY <1>1, <2>3, <2>5, <2>6
  <2>8. InOrder(byMessage)
    BY <2>5 DEF InOrder
  <2>9. ShownOK(byMessage, mode.multimodal)
    BY <1>7, <2>5 DEF ShownOK
  <2>10. ThreadOK(t, byMessage, mode.multimodal)
    BY <2>7, <2>8, <2>9 DEF ThreadOK
  <2>11. QED
    BY <1>2, <2>1, <2>10, ThreadStep
<1>10. QED
  BY <1>8, <1>9

(* How many images are fetched at most.                                    *)
LEMMA WantedDefined ==
    ASSUME NEW r \in Routed, mode \in Modes
    PROVE  /\ ImageSrcs(r.msg.content) \in Seq(Tokens)
           /\ Len(ImageSrcs(r.msg.content)) \in Nat
           /\ Wanted(r) \in Nat /\ Wanted(r) <= Len(ImageSrcs(r.msg.content))
<1>1. r.msg.content \in Seq(Tokens)
  BY ContentTokens DEF Routed
<1>2. ImageSrcs(r.msg.content) \in Seq(Tokens)
  BY <1>1, ChosenPlaces DEF ImageSrcs
<1>3. PICK n \in Nat : n = Len(ImageSrcs(r.msg.content))
  BY <1>2, LenProperties
<1>4. MaxImages \in Nat
  BY MessageAssumption DEF MessageAssumption
<1>5. Wanted(r) = 0 \/ Wanted(r) = n \/ (Wanted(r) = MaxImages /\ ~(n < MaxImages))
  BY <1>3 DEF Wanted
<1>6. QED
  BY <1>2, <1>3, <1>4, <1>5

(* The images of a message that comes next are all unknown.                *)
LEMMA UnknownFirst ==
    ASSUME NEW r \in Routed, mode \in Modes
    PROVE  Fetching(r, [i \in 1..Wanted(r) |-> Unknown])
<1>1. PICK n, srcs : n \in Nat /\ n = Wanted(r) /\ srcs = ImageSrcs(r.msg.content)
  BY WantedDefined
<1>2. n <= Len(srcs)
  BY <1>1, WantedDefined
<1>3. Unknown \in Tokens
  BY DEF Tokens
<1> DEFINE g == [i \in 1..n |-> Unknown]
<1>4. g \in [1..n -> Tokens] /\ \A i \in 1..n : g[i] = Unknown
  BY <1>1, <1>3
<1> HIDE DEF g
<1>5. g \in Seq(Tokens) /\ Len(g) = n
  BY <1>1, <1>4
<1>6. \A i \in 1..Len(g) : GotSoFar(g[i], srcs[i])
  BY <1>4, <1>5 DEF GotSoFar
<1>7. Fetching(r, g)
  BY <1>1, <1>2, <1>5, <1>6 DEF Fetching
<1>8. QED
  BY <1>1, <1>7 DEF g

LEMMA SegmentAsked ==
    ASSUME AskedInv, SpacedInv', Bounds', NEW t \in Threads, Segment(t)
    PROVE  AskedInv'
<1>1. /\ ProcOK(proc[t]) /\ InOrder(proc[t]) /\ ShownOK(proc[t], mode.multimodal)
      /\ \A i \in DOMAIN proc[t].burst : Judged(t, proc[t].burst[i])
  BY ThreadParts
<1>2. proc[t].at = "segment" /\ UNCHANGED mode
  BY DEF Segment, Shared
<1>3. proc[t].shown = <<>>
  BY <1>1, <1>2 DEF ShownOK
<1>4. CASE proc' = [proc EXCEPT ![t] = AfterSegment(t)]
  BY <1>2, <1>4, AfterSegmentKeeps
<1>5. CASE Replies(t) /\ proc' = [proc EXCEPT ![t] = Waiting(t)]
  <2>1. proc' = [proc EXCEPT ![t] = Waiting(t)]
    BY <1>5
  <2>2. proc[t].burst \in Seq(Routed)
    BY <1>1 DEF ProcOK
  <2>3. PICK kept : kept = KeptOf(proc[t].burst)
    OBVIOUS
  <2>4. Len(kept) \in Nat /\ Len(kept) >= 1
    <3>1. PICK i \in DOMAIN proc[t].burst : proc[t].burst[i].action = "reply"
      BY <1>5 DEF Replies
    <3>2. IsKept(proc[t].burst[i]) /\ i \in 1..Len(proc[t].burst)
      BY <2>2, <3>1 DEF IsKept
    <3>3. Count(KeptAt(proc[t].burst), i) \in 1..Len(kept) /\ Len(kept) \in Nat
      BY <2>2, <2>3, <3>2, KeptDefined
    <3>4. QED
      BY <3>3
  <2>5. kept[1] \in Routed
    <3>1. 1 \in 1..Len(kept)
      BY <2>4
    <3>2. QED
      BY <2>2, <2>3, <3>1, KeptDefined
  <2>6. Current(t) = kept[1]
    <3>1. Len(proc[t].shown) + 1 = 1
      BY <1>3
    <3>2. Kept(t) = kept
      BY <2>3 DEF Kept, KeptOf, KeptAt
    <3>3. QED
      BY <3>1, <3>2 DEF Current
  <2>7. PICK g : g = [i \in 1..Wanted(kept[1]) |-> Unknown]
    OBVIOUS
  <2>8. Fetching(kept[1], g)
    BY <2>5, <2>7, UnknownFirst DEF AskedInv, Bounds
  <2> DEFINE p == Waiting(t)
  <2>9. p.at = "images" /\ p.burst = proc[t].burst /\ p.shown = <<>> /\ p.got = g
    BY <1>1, <1>3, <2>6, <2>7 DEF Waiting, ProcOK
  <2> HIDE DEF p
  <2>10. InOrder(p)
    BY <2>9 DEF InOrder
  <2>11. ShownOK(p, mode.multimodal)
    <3>1. <<>> \in Seq(Shows) /\ Len(<<>>) = 0 /\ Len(<<>>) + 1 = 1
      OBVIOUS
    <3>2. Len(p.shown) = 0 /\ Len(p.shown) + 1 = 1
      BY <2>9, <3>1
    <3>3. Len(p.shown) < Len(KeptOf(p.burst)) /\ Fetching(KeptOf(p.burst)[Len(p.shown) + 1], p.got)
      BY <2>3, <2>4, <2>8, <2>9, <3>2
    <3>4. QED
      BY <2>9, <3>1, <3>2, <3>3 DEF ShownOK
  <2>12. ThreadOK(t, p, mode.multimodal)
    BY <1>1, <2>9, <2>10, <2>11 DEF ThreadOK
  <2>13. QED
    BY <1>2, <2>1, <2>12, ThreadStep DEF p
<1>6. QED
  BY <1>4, <1>5 DEF Segment

-----------------------------------------------------------------------------
(* Images                                                                  *)

(* The text of a message whose images are there is faithful.               *)
LEMMA TextFaithful ==
    ASSUME NEW r \in Routed, NEW got, Fetching(r, got),
           \A i \in DOMAIN got : got[i] # Unknown,
           NEW multimodal \in BOOLEAN, NEW text, NEW failed,
           text = IF multimodal
                  THEN BuildMultimodalContent(LlmText(r.msg.content), Without(got, {""}))
                  ELSE ReplacePlaceholders(LlmText(r.msg.content), got),
           failed = (\E i \in DOMAIN got : got[i] = "")
    PROVE  /\ [text |-> text, failed |-> failed] \in Shows
           /\ Faithful(r, [text |-> text, failed |-> failed], multimodal)
<1>1. PICK c : c = r.msg.content
  OBVIOUS
<1>2. c \in Seq(Tokens)
  BY <1>1, ContentTokens DEF Routed
<1>3. got \in Seq(Tokens) /\ DOMAIN got = 1..Len(got) /\ Len(got) \in Nat
  BY LenProperties DEF Fetching
<1>4. GotOf(ImageSrcs(c), got)
  BY <1>1, <1>3 DEF Fetching, GotOf, GotSoFar, Got
<1>5. LlmText(c) \in Texts
  BY <1>2, LlmTextDefined
<1>6. Without(got, {""}) \in Seq(Tokens)
  BY <1>3, WithoutValues
<1>7. text \in Texts /\ Words(text) = Words(LlmText(c))
  BY <1>1, <1>3, <1>5, <1>6, WordsBuilt, WordsReplaced
<1>8. ASSUME Placeholder \notin ToSet(c), ImageSrcs(c) = ImageSrcs(Visible(c)),
             ~(multimodal /\ failed)
      PROVE  Placed(c, text)
  <2>1. NoneTyped(c)
    <3>1. DOMAIN c = 1..Len(c)
      BY <1>2, LenProperties
    <3>2. QED
      BY <1>8, <3>1 DEF NoneTyped, ToSet
  <2>2. GotOf(ImageSrcs(Visible(c)), got)
    BY <1>4, <1>8
  <2>3. Placed(c, ReplacePlaceholders(LlmText(c), got))
    BY <1>2, <1>3, <2>1, <2>2, ReplacedInPlace
  <2>4. ASSUME multimodal
        PROVE  text = ReplacePlaceholders(LlmText(c), got)
    <3>1. \A i \in 1..Len(got) : got[i] \notin {""}
      BY <1>3, <1>8, <2>4
    <3>2. Without(got, {""}) = got
      BY <1>3, <3>1, WithoutValues
    <3>3. Len(got) <= Cardinality(Markers(LlmText(c)))
      BY <1>2, <2>1, <2>2, MarkersAreImages DEF GotOf
    <3>4. BuildMultimodalContent(LlmText(c), got) = ReplacePlaceholders(LlmText(c), got)
      BY <1>3, <1>5, <3>3, WordsBuilt
    <3>5. QED
      BY <1>1, <2>4, <3>2, <3>4
  <2>5. text = ReplacePlaceholders(LlmText(c), got)
    BY <1>1, <2>4
  <2>6. QED
    BY <2>3, <2>5
<1>9. failed \in BOOLEAN
  OBVIOUS
<1>10. PICK s : s = [text |-> text, failed |-> failed]
  OBVIOUS
<1>11. s \in Shows /\ s.text = text /\ s.failed = failed
  BY <1>7, <1>9, <1>10 DEF Shows
<1>12. InPlace(c, s, multimodal)
  BY <1>8, <1>11 DEF InPlace
<1>13. QED
  BY <1>1, <1>7, <1>10, <1>11, <1>12 DEF Faithful

LEMMA CurrentDefined ==
    ASSUME AskedInv, NEW t \in Threads, proc[t].at = "images"
    PROVE  /\ Kept(t) = KeptOf(proc[t].burst) /\ Len(Kept(t)) \in Nat
           /\ Len(proc[t].shown) \in Nat /\ Len(proc[t].shown) < Len(Kept(t))
           /\ \A k \in 1..Len(Kept(t)) : Kept(t)[k] \in Routed
           /\ Current(t) \in Routed /\ Fetching(Current(t), proc[t].got)
           /\ proc[t].shown \in Seq(Shows)
<1>1. ProcOK(proc[t]) /\ ShownOK(proc[t], mode.multimodal)
  BY ThreadParts
<1>2. PICK kept, n : kept = Kept(t) /\ n = Len(proc[t].shown)
  OBVIOUS
<1>3. kept = KeptOf(proc[t].burst)
  BY <1>2 DEF Kept, KeptOf, KeptAt
<1>4. Len(kept) \in Nat /\ \A k \in 1..Len(kept) : kept[k] \in Routed
  BY <1>1, <1>3, KeptDefined DEF ProcOK
<1>5. proc[t].shown \in Seq(Shows) /\ n < Len(kept) /\ Fetching(kept[n + 1], proc[t].got)
  BY <1>1, <1>2, <1>3 DEF ShownOK
<1>6. n \in Nat
  BY <1>2, <1>5, LenProperties
<1>7. n + 1 \in 1..Len(kept)
  BY <1>4, <1>5, <1>6
<1>8. Current(t) = kept[n + 1]
  BY <1>2 DEF Current
<1>9. QED
  BY <1>2, <1>3, <1>4, <1>5, <1>6, <1>7, <1>8

LEMMA FetchingStep ==
    ASSUME NEW r \in Routed, mode \in Modes, NEW g, Fetching(r, g),
           NEW n \in DOMAIN g, NEW d, Got(d, ImageSrcs(r.msg.content)[n])
    PROVE  Fetching(r, [g EXCEPT ![n] = d])
<1>1. PICK srcs : srcs = ImageSrcs(r.msg.content)
  OBVIOUS
<1>2. srcs \in Seq(Tokens) /\ Len(srcs) \in Nat
  BY <1>1, WantedDefined
<1>3. g \in Seq(Tokens) /\ Len(g) <= Len(srcs) /\ \A i \in 1..Len(g) : GotSoFar(g[i], srcs[i])
  BY <1>1 DEF Fetching
<1>4. PICK L \in Nat, M \in Nat : L = Len(g) /\ M = Len(srcs)
  BY <1>2, <1>3, LenProperties
<1>5. g \in [1..L -> Tokens]
  BY <1>3, <1>4
<1>6. n \in 1..L /\ L <= M
  BY <1>3, <1>4, <1>5
<1>7. n \in 1..M
  BY <1>4, <1>6
<1>8. srcs[n] \in Tokens
  BY <1>2, <1>4, <1>7, ElementOfSeq
<1>9. d \in Tokens /\ GotSoFar(d, srcs[n])
  <2>1. "" \in Tokens
    BY DEF Tokens
  <2>2. QED
    BY <1>1, <1>8, <2>1 DEF Got, GotSoFar
<1>10. PICK h : h = [g EXCEPT ![n] = d]
  OBVIOUS
<1>11. h \in [1..L -> Tokens] /\ \A i \in 1..L : h[i] = IF i = n THEN d ELSE g[i]
  BY <1>5, <1>9, <1>10
<1>12. h \in Seq(Tokens) /\ Len(h) = L
  BY <1>4, <1>11
<1>13. \A i \in 1..Len(h) : GotSoFar(h[i], srcs[i])
  BY <1>3, <1>4, <1>9, <1>11, <1>12
<1>14. QED
  BY <1>1, <1>3, <1>4, <1>10, <1>12, <1>13 DEF Fetching

LEMMA DescribeAsked ==
    ASSUME AskedInv, SpacedInv', Bounds', NEW t \in Threads, NEW n, Describe(t, n)
    PROVE  AskedInv'
<1>1. /\ ProcOK(proc[t]) /\ InOrder(proc[t]) /\ ShownOK(proc[t], mode.multimodal)
      /\ \A i \in DOMAIN proc[t].burst : Judged(t, proc[t].burst[i])
  BY ThreadParts
<1>2. proc[t].at = "images" /\ UNCHANGED mode /\ n \in DOMAIN proc[t].got
  BY DEF Describe, Shared
<1>3. PICK r : r = Current(t)
  OBVIOUS
<1>4. PICK d : Got(d, ImageSrcs(r.msg.content)[n]) /\ proc' = [proc EXCEPT ![t].got[n] = d]
  BY <1>3 DEF Describe, Got
<1> DEFINE p == [proc[t] EXCEPT !.got[n] = d]
<1>5. proc' = [proc EXCEPT ![t] = p]
  BY <1>4
<1>6. PICK g : g = proc[t].got
  OBVIOUS
<1>7. /\ p.at = "images" /\ p.burst = proc[t].burst /\ p.shown = proc[t].shown
      /\ p.got = [g EXCEPT ![n] = d]
  BY <1>1, <1>2, <1>6 DEF ProcOK
<1> HIDE DEF p
<1>8. r \in Routed /\ Fetching(r, g) /\ Len(proc[t].shown) < Len(Kept(t))
      /\ Kept(t) = KeptOf(proc[t].burst) /\ r = Kept(t)[Len(proc[t].shown) + 1]
  BY <1>2, <1>3, <1>6, CurrentDefined DEF Current
<1>9. Fetching(r, [g EXCEPT ![n] = d])
  <2>1. mode \in Modes
    BY DEF AskedInv, Bounds
  <2>2. n \in DOMAIN g /\ Got(d, ImageSrcs(r.msg.content)[n])
    BY <1>2, <1>4, <1>6
  <2>3. QED
    BY <1>8, <2>1, <2>2, FetchingStep
<1>10. ShownOK(p, mode.multimodal)
  BY <1>1, <1>7, <1>8, <1>9 DEF ShownOK
<1>11. InOrder(p)
  BY <1>7 DEF InOrder
<1>12. ThreadOK(t, p, mode.multimodal)
  BY <1>1, <1>7, <1>10, <1>11 DEF ThreadOK
<1>13. QED
  BY <1>2, <1>5, <1>12, ThreadStep

LEMMA FetchedAsked ==
    ASSUME AskedInv, SpacedInv', Bounds', NEW t \in Threads, Fetched(t)
    PROVE  AskedInv'
<1>1. /\ ProcOK(proc[t]) /\ InOrder(proc[t]) /\ ShownOK(proc[t], mode.multimodal)
      /\ \A i \in DOMAIN proc[t].burst : Judged(t, proc[t].burst[i])
  BY ThreadParts
<1>2. proc[t].at = "images" /\ UNCHANGED mode /\ \A i \in DOMAIN proc[t].got : proc[t].got[i] # Unknown
  BY DEF Fetched, Shared
<1>3. mode.multimodal \in BOOLEAN /\ mode \in Modes
  BY MessageAssumption DEF AskedInv, Bounds, MessageAssumption
<1>4. PICK kept, old, r : kept = Kept(t) /\ old = proc[t].shown /\ r = Current(t)
  OBVIOUS
<1>5. /\ kept = KeptOf(proc[t].burst) /\ Len(kept) \in Nat
      /\ Len(old) \in Nat /\ Len(old) < Len(kept) /\ old \in Seq(Shows)
      /\ \A k \in 1..Len(kept) : kept[k] \in Routed
      /\ r \in Routed /\ Fetching(r, proc[t].got) /\ r = kept[Len(old) + 1]
  BY <1>2, <1>4, CurrentDefined DEF Current
<1> DEFINE failed == \E i \in DOMAIN proc[t].got : proc[t].got[i] = ""
           s == [text |-> Text(t), failed |-> failed]
           shown == Append(proc[t].shown, s)
           got == [i \in 1..Wanted(Kept(t)[Len(shown) + 1]) |-> Unknown]
           p == IF Len(shown) = Len(Kept(t)) THEN [proc[t] EXCEPT !.at = "turn", !.shown = shown]
                ELSE [proc[t] EXCEPT !.shown = shown, !.got = got]
<1>6. proc' = [proc EXCEPT ![t] = p]
  BY DEF Fetched
<1>7. s \in Shows /\ Faithful(r, s, mode.multimodal)
  <2>1. Text(t) = IF mode.multimodal
                  THEN BuildMultimodalContent(LlmText(r.msg.content), Without(proc[t].got, {""}))
                  ELSE ReplacePlaceholders(LlmText(r.msg.content), proc[t].got)
    BY <1>4 DEF Text
  <2>2. PICK text, f, g, multi : text = Text(t) /\ f = failed /\ g = proc[t].got /\ multi = mode.multimodal
    OBVIOUS
  <2>3. /\ text = IF multi THEN BuildMultimodalContent(LlmText(r.msg.content), Without(g, {""}))
                  ELSE ReplacePlaceholders(LlmText(r.msg.content), g)
        /\ f = (\E i \in DOMAIN g : g[i] = "") /\ Fetching(r, g)
        /\ (\A i \in DOMAIN g : g[i] # Unknown) /\ multi \in BOOLEAN
    BY <1>2, <1>3, <1>5, <2>1, <2>2
  <2>4. [text |-> text, failed |-> f] \in Shows /\ Faithful(r, [text |-> text, failed |-> f], multi)
    BY <1>5, <2>3, TextFaithful
  <2>5. QED
    BY <2>2, <2>4
<1> HIDE DEF s
<1>8. /\ shown \in Seq(Shows) /\ Len(shown) = Len(old) + 1
      /\ \A k \in 1..Len(old) : shown[k] = old[k]
      /\ shown[Len(old) + 1] = s
  BY <1>4, <1>5, <1>7, AppendProperties
<1> HIDE DEF shown
<1>9. ASSUME NEW k \in 1..Len(shown)
      PROVE  Faithful(kept[k], shown[k], mode.multimodal)
  <2>1. CASE k = Len(old) + 1
    BY <1>5, <1>7, <1>8, <2>1
  <2>2. CASE k # Len(old) + 1
    <3>1. k \in 1..Len(old)
      BY <1>5, <1>8, <2>2
    <3>2. QED
      BY <1>1, <1>4, <1>5, <1>8, <3>1 DEF ShownOK
  <2>3. QED
    BY <2>1, <2>2
<1>10. CASE Len(shown) = Len(kept)
  <2>1. p = [proc[t] EXCEPT !.at = "turn", !.shown = shown]
    BY <1>4, <1>10
  <2> HIDE DEF p
  <2>2. p.at = "turn" /\ p.burst = proc[t].burst /\ p.shown = shown
    BY <1>1, <2>1 DEF ProcOK
  <2>3. ShownOK(p, mode.multimodal)
    BY <1>5, <1>8, <1>9, <1>10, <2>2 DEF ShownOK
  <2>4. InOrder(p)
    BY <2>2 DEF InOrder
  <2>5. ThreadOK(t, p, mode.multimodal)
    BY <1>1, <2>2, <2>3, <2>4 DEF ThreadOK
  <2>6. QED
    BY <1>2, <1>6, <2>5, ThreadStep
<1>11. CASE Len(shown) # Len(kept)
  <2>1. PICK n \in Nat : n = Len(shown)
    BY <1>5, <1>8
  <2>2. n < Len(kept) /\ n + 1 \in 1..Len(kept)
    BY <1>5, <1>8, <1>11, <2>1
  <2>3. kept[n + 1] \in Routed
    BY <1>5, <2>2
  <2>4. got = [i \in 1..Wanted(kept[n + 1]) |-> Unknown]
    BY <1>4, <2>1
  <2>5. Fetching(kept[n + 1], got)
    BY <1>3, <2>3, <2>4, UnknownFirst
  <2> HIDE DEF got
  <2>6. p = [proc[t] EXCEPT !.shown = shown, !.got = got]
    BY <1>4, <1>11
  <2> HIDE DEF p
  <2>7. p.at = "images" /\ p.burst = proc[t].burst /\ p.shown = shown /\ p.got = got
    BY <1>1, <1>2, <2>6 DEF ProcOK
  <2>8. ShownOK(p, mode.multimodal)
    BY <1>5, <1>8, <1>9, <2>1, <2>2, <2>5, <2>7 DEF ShownOK
  <2>9. InOrder(p)
    BY <2>7 DEF InOrder
  <2>10. ThreadOK(t, p, mode.multimodal)
    BY <1>1, <2>7, <2>8, <2>9 DEF ThreadOK
  <2>11. QED
    BY <1>2, <1>6, <2>10, ThreadStep
<1>12. QED
  BY <1>10, <1>11

-----------------------------------------------------------------------------
(* The other steps, and the theorems                                       *)

LEMMA CommandAsked ==
    ASSUME AskedInv, SpacedInv', Bounds', NEW t \in Threads, Command(t)
    PROVE  AskedInv'
<1> DEFINE p == [proc[t] EXCEPT !.at = "route", !.cmd = NoMessage]
<1>1. ProcOK(proc[t]) /\ InOrder(proc[t]) /\ ShownOK(proc[t], mode.multimodal)
  BY ThreadParts
<1>2. proc[t].at = "command" /\ UNCHANGED mode /\ proc' = [proc EXCEPT ![t] = p]
  BY DEF Command, Shared
<1>3. p.at = "route" /\ p.burst = proc[t].burst /\ p.shown = proc[t].shown
  BY <1>1 DEF ProcOK
<1> HIDE DEF p
<1>4. p.burst = <<>> /\ p.shown = <<>>
  BY <1>1, <1>2, <1>3 DEF InOrder, ShownOK
<1>5. ThreadOK(t, p, mode.multimodal)
  BY <1>3, <1>4, EmptyThreadOK
<1>6. QED
  BY <1>2, <1>5, ThreadStep

LEMMA TakeAsked ==
    ASSUME AskedInv, SpacedInv', Bounds', NEW t \in Threads, Take(t)
    PROVE  AskedInv'
<1>1. PICK n : proc' = [proc EXCEPT ![t] = [Idle EXCEPT !.at = "route",
                                                       !.batch = SubSeq(inbox[t], 1, n)]]
  BY DEF Take
<1> DEFINE p == [Idle EXCEPT !.at = "route", !.batch = SubSeq(inbox[t], 1, n)]
<1>2. p.at = "route" /\ p.burst = <<>> /\ p.shown = <<>> /\ UNCHANGED mode
  BY DEF Idle, Take
<1> HIDE DEF p
<1>3. ThreadOK(t, p, mode.multimodal)
  BY <1>2, EmptyThreadOK
<1>4. QED
  BY <1>1, <1>2, <1>3, ThreadStep DEF p

LEMMA DoneAsked ==
    ASSUME AskedInv, SpacedInv', Bounds', NEW t \in Threads, Done(t)
    PROVE  AskedInv'
<1>1. proc' = [proc EXCEPT ![t] = Idle] /\ UNCHANGED mode
  BY DEF Done, Shared
<1>2. Idle.at = "idle" /\ Idle.burst = <<>> /\ Idle.shown = <<>>
  BY DEF Idle
<1>3. ThreadOK(t, Idle, mode.multimodal)
  BY <1>2, EmptyThreadOK
<1>4. QED
  BY <1>1, <1>3, ThreadStep

LEMMA InitAsked == Init => AskedInv
<1> SUFFICES ASSUME Init PROVE AskedInv
  OBVIOUS
<1>1. SpacedInv
  BY InitInv
<1>2. Idle.at = "idle" /\ Idle.burst = <<>> /\ Idle.shown = <<>>
  BY DEF Idle
<1>3. \A t \in Threads : ThreadOK(t, Idle, mode.multimodal)
  BY <1>2, EmptyThreadOK
<1>4. \A t \in Threads : proc[t] = Idle
  BY DEF Init
<1>5. Bounds
  BY MessageAssumption DEF Init, Bounds, MessageAssumption
<1>6. QED
  BY <1>1, <1>3, <1>4, <1>5 DEF AskedInv

LEMMA NextAsked == AskedInv /\ [Next]_vars => AskedInv'
<1> SUFFICES ASSUME AskedInv, [Next]_vars PROVE AskedInv'
  OBVIOUS
<1>1. SpacedInv' /\ Bounds'
  BY NextInv, BoundsKept DEF AskedInv
<1>2. ASSUME NEW t \in Threads, NEW i \in 1..MaxImages, Describe(t, i) PROVE AskedInv'
  BY <1>1, <1>2, DescribeAsked
<1>3. ASSUME NEW t \in Threads, Take(t) \/ Done(t) PROVE AskedInv'
  BY <1>1, <1>3, TakeAsked, DoneAsked
<1>4. ASSUME NEW t \in Threads, Route(t) \/ Segment(t) \/ Fetched(t) PROVE AskedInv'
  BY <1>1, <1>4, RouteAsked, SegmentAsked, FetchedAsked
<1>5. ASSUME NEW t \in Threads, Reply(t) \/ NoReply(t) PROVE AskedInv'
  <2>1. proc' = [proc EXCEPT ![t] = AfterSegment(t)] /\ UNCHANGED mode
    BY <1>5 DEF Reply, NoReply, Shared
  <2>2. QED
    BY <1>1, <2>1, AfterSegmentKeeps
<1>6. ASSUME NEW t \in Threads, Command(t) PROVE AskedInv'
  BY <1>1, <1>6, CommandAsked
<1>7. ASSUME (\E m \in Messages : Arrive(m)) \/ Login \/ Tick \/ Finished \/ UNCHANGED vars
      PROVE  AskedInv'
  <2>1. UNCHANGED <<mode, proc>>
    BY <1>7 DEF Arrive, Login, Tick, Finished, vars
  <2>2. QED
    BY <1>1, <2>1 DEF AskedInv
<1>8. QED
  BY <1>2, <1>3, <1>4, <1>5, <1>6, <1>7 DEF Next

(* route_incoming, dispatch_batch: whatever is said, quoted, mentioned or  *)
(* commanded, and however messages are merged: who speaks to the bot has a *)
(* turn, with every word said, and nobody else has one unless automatic    *)
(* replies are on; and these only an admin switches.                       *)
THEOREM AnsweredAsAsked == Spec => []AsAsked
<1>1. QED
  BY InitAsked, NextAsked, AskedOfInv, PTL DEF Spec

(* describe_image_node, replace_placeholders, build_multimodal_content:    *)
(* for any number of images, in any order of their arrival, and whichever  *)
(* fail, the LLM finds each where it was sent.                             *)
THEOREM ImagesFoundInPlace == Spec => []ImagesInPlace
<1>1. QED
  BY InitAsked, NextAsked, InPlaceOfInv, PTL DEF Spec

=============================================================================
