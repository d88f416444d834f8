---------------------------- MODULE MCKnowledge ----------------------------
(***************************************************************************)
(* Instance of Knowledge: two conversations and two texts, queries that    *)
(* are close to one, to both, and that share words with other texts than   *)
(* those they are close to.                                                *)
(***************************************************************************)
EXTENDS Knowledge

MCSymmetry == Permutations(Threads)

MCQueries ==
    {[text |-> "a", dense |-> <<"a", "b">>, sparse |-> <<"a">>],
     [text |-> "b", dense |-> <<"b">>, sparse |-> <<"b", "a">>]}

=============================================================================
