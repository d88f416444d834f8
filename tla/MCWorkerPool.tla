---------------------------- MODULE MCWorkerPool ----------------------------
(***************************************************************************)
(* Instances of the worker pool for TLC: two conversations, five messages. *)
(* m2 is a command of thread g; m4 is a redelivery of m1's event; m5 of    *)
(* thread h is the foreign message that ends a batch.                      *)
(***************************************************************************)
EXTENDS PoolRefinement, TLC

CONSTANTS w1, w2, w3, g, h, m1, m2, m3, m4, m5, e1, e2, e3, e5

MCEventOf ==
    [m \in Messages |-> CASE m \in {m1, m4} -> e1
                          [] m = m2 -> e2
                          [] m = m3 -> e3
                          [] m = m5 -> e5]
MCThreadOf == [m \in Messages |-> IF m = m5 THEN h ELSE g]

=============================================================================
