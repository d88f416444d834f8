----------------------------- MODULE MCMessage -----------------------------
(***************************************************************************)
(* An instance of Message: an admin and a member; mentions of the bot in a *)
(* quote of a quote, outside of it, and by name, files with and without a  *)
(* text, images among words, behind a typed placeholder and in a comment,  *)
(* commands for all and for admins.                                        *)
(***************************************************************************)
EXTENDS Message

Say(thread, user, content) == [thread |-> thread, user |-> user, content |-> content]

MCMessages ==
    { Say("group", "member", c) : c \in
        { <<"<quote>", "<quote>", "</quote>", "at-bot", "</quote>", "at-all", "word">>,
          <<"at-bot", "img1", "word", "img2", "img3">>,
          <<"<!--", "img1", "-->", "[img]", "img2", "file", "at-bot">>,
          <<"file", "at-name">>, <<"/auto_reply", "off">> } }
    \cup { Say("group", "admin", <<"at-bot", "/auto_reply", "on">>),
           Say("private", "admin", <<"/auto_reply", "off">>),
           Say("private", "member", <<"word">>) }

Mode(multimodal, vision) == [multimodal |-> multimodal, vision |-> vision]
MCModes == { Mode(FALSE, TRUE), Mode(TRUE, TRUE) }

=============================================================================
