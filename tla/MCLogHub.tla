----------------------------- MODULE MCLogHub -----------------------------
(***************************************************************************)
(* Instance of LogHub.                                                     *)
(***************************************************************************)
EXTENDS LogHub

=============================================================================
