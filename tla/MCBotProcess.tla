---------------------------- MODULE MCBotProcess ----------------------------
(***************************************************************************)
(* Instances of BotProcess: an MCP server whose tools have a name of the   *)
(* bot's own and one that is denied.                                       *)
(***************************************************************************)
EXTENDS BotProcess, TLC

MCServers == "web" :> {"search_documents", "crawl"}
MCNoServers == [s \in {} |-> {}]
MCDenied == {"crawl", "recall_user_memory"}

=============================================================================
