---------------------------- MODULE MCDocuments ----------------------------
(***************************************************************************)
(* An instance of Documents: a scanned file that only the remote parsers   *)
(* find text in, each another one; a lean one in which the first finds     *)
(* blanks and the second nothing; copies of a file under two names; a      *)
(* directory.                                                              *)
(***************************************************************************)
EXTENDS Documents, TLC

CONSTANTS a, b, odd, scan, lean

MCSuffix == a :> ".pdf" @@ b :> ".txt" @@ odd :> ".md"
MCTree == <<a, b>>
MCArgs == { <<Directory>>, <<b, a, b>>, <<a, odd>> }

MCDisks == {d \in [Paths -> Contents \cup {Absent}] : d[odd] = lean /\ d[a] # Absent}

MCLocalText == scan :> <<" ">>
            @@ lean :> <<"x", ".", "x", " ", "x", "x", "x", "x">>
MCRemoteText ==
    "v4" :> (scan :> <<"x", "\n", "x", "x">> @@ lean :> <<" ", "\n">>)
        @@ "agent" :> (scan :> <<"y", "y">> @@ lean :> <<>>)

Config(key, agent, langchain, size, overlap) ==
    [endpoint |-> FALSE, key |-> key, agent |-> agent, langchain |-> langchain, size |-> size, overlap |-> overlap]

MCConfigs ==
    { Config(v, g, FALSE, 3, 1) : v \in BOOLEAN, g \in BOOLEAN }
        \cup { Config(FALSE, FALSE, FALSE, so[1], so[2]) :
                    so \in {<<0, 3>>, <<2, 3>>, <<4, 0>>} }
        \cup { Config(FALSE, TRUE, TRUE, 3, 1) }

=============================================================================
