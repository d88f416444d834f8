----------------------------- MODULE ThreadFifo -----------------------------
(***************************************************************************)
(* What the message pipeline promises a conversation (README "按会话串行", *)
(* docstring of MessageWorkerPool): each thread has an inbox of its own,   *)
(* served front to back, in one piece per turn -- a turn is one command or *)
(* a burst of at most BurstMax messages without a command -- and whoever   *)
(* serves other threads is invisible.                                      *)
(***************************************************************************)
EXTENDS Naturals, Sequences

CONSTANTS Threads, Messages, ThreadOf, Commands, BurstMax

VARIABLES inbox, done

fifoVars == <<inbox, done>>

Init == /\ inbox = [t \in Threads |-> <<>>]
        /\ done = [t \in Threads |-> <<>>]

Accept(m) ==
    /\ inbox' = [inbox EXCEPT ![ThreadOf[m]] = Append(@, m)]
    /\ UNCHANGED done

IsTurn(s) ==
    /\ Len(s) \in 1..BurstMax
    /\ Len(s) > 1 => \A i \in DOMAIN s : s[i] \notin Commands

Serve(t) ==
    \E n \in 1..Len(inbox[t]) :
        /\ IsTurn(SubSeq(inbox[t], 1, n))
        /\ done' = [done EXCEPT ![t] = @ \o SubSeq(inbox[t], 1, n)]
        /\ inbox' = [inbox EXCEPT ![t] = SubSeq(@, n + 1, Len(@))]

Next == \/ \E m \in Messages : Accept(m)
        \/ \E t \in Threads : Serve(t)

(* A thread with mail is served, however busy the others are.              *)
Fairness == \A t \in Threads : WF_fifoVars(Serve(t))

Safety == Init /\ [][Next]_fifoVars

Spec == Safety /\ Fairness

=============================================================================
