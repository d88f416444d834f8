------------------------------- MODULE MCTurn -------------------------------
(***************************************************************************)
(* An instance of Turn: one skill; the LLM loads it, loads and releases it *)
(* in one message, or releases a skill without naming it.                  *)
(***************************************************************************)
EXTENDS Turn

CONSTANT soup

MCCall(tool, skill) == [tool |-> tool, skill |-> skill]
MCCalls == { <<MCCall("load", soup)>>, <<MCCall("unload", Blank)>>,
             <<MCCall("load", soup), MCCall("unload", soup)>> }

=============================================================================
