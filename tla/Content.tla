------------------------------ MODULE Content ------------------------------
(***************************************************************************)
(* The content of an incoming message and what is read from it: kind,      *)
(* attachments, mentions, the text for commands and the index, the text    *)
(* for the LLM; and how images get back into that text.                    *)
(*                                                                         *)
(* A content is a sequence of tokens: words, and elements of the Satori    *)
(* markup.  An image is an element with its source; "[img]" is the         *)
(* placeholder that stands for an image, which a user may also type.       *)
(***************************************************************************)
EXTENDS Integers, Sequences, FiniteSets, SequencesExt

CONSTANTS Images    \* image elements, named by their source

Placeholder == "[img]"
Files    == {"file"}                        \* file, audio and video elements
Media    == Images \cup Files
Ats      == {"at-bot", "at-name", "at-other", "at-all"}
Brackets == {"<quote>", "</quote>", "<quote/>"}
Comments == {"<!--", "-->"}
Elements == Media \cup Ats \cup Brackets

ASSUME ContentAssumption ==
    Images \cap (Files \cup Ats \cup Brackets \cup Comments \cup {Placeholder}) = {}

(* The markup of an image that is shown in the end: its description, or    *)
(* the image itself.                                                       *)
Pic(src) == <<"pic", src>>
Word(token) == <<"text", token>>

(* What stands at some places of a sequence, and what is not in a set.     *)
Chosen(seq, places) ==
    LET upTo[n \in 0..Len(seq)] ==
            IF n = 0 THEN <<>>
            ELSE IF n \in places THEN Append(upTo[n - 1], seq[n]) ELSE upTo[n - 1]
    IN  upTo[Len(seq)]

Without(seq, set) == Chosen(seq, {i \in DOMAIN seq : seq[i] \notin set})

-----------------------------------------------------------------------------
(* Parsing                                                                 *)

(* Media elements, wherever they stand: in quotes and comments too.        *)
ParseAttachments(content) == Chosen(content, {i \in DOMAIN content : content[i] \in Media})

ImageSrcs(content) == Chosen(content, {i \in DOMAIN content : content[i] \in Images})

(* How many quotes and forwarded messages are open behind each token.      *)
Depth(content) ==
    LET depth[n \in 0..Len(content)] ==
            IF n = 0 THEN 0
            ELSE IF content[n] = "<quote>" THEN depth[n - 1] + 1
            ELSE IF content[n] = "</quote>" /\ depth[n - 1] > 0 THEN depth[n - 1] - 1
            ELSE depth[n - 1]
    IN  depth

(* Mutant: quotes are not left out.                                        *)
WholeText(content) == ToSet(content)

(* What is said outside of quotes and forwarded messages; what follows the *)
(* last of their tags is always taken to be.                               *)
TopLevelText(content) ==
    LET last(k) == \A j \in k..Len(content) : content[j] \notin Brackets
    IN  {content[i] : i \in {k \in DOMAIN content : Depth(content)[k] = 0 \/ last(k)}}
          \ Brackets

(* The users mentioned; a mention of all or of those present is none.      *)
ParseMentions(content) ==
    {x \in TopLevelText(content) : x \in Ats /\ x # "at-all"}

(* The first medium decides.                                               *)
Kind(content) ==
    LET media == ParseAttachments(content)
    IN  IF media = <<>> THEN "text"
        ELSE IF media[1] \in Images THEN "image" ELSE "file"

(* Comments are taken to be closed.                                        *)
WithoutComments(content) ==
    LET inside[n \in 0..Len(content)] ==
            n > 0 /\ (content[n] = "<!--" \/ (inside[n - 1] /\ content[n] # "-->"))
    IN  Chosen(content, {i \in DOMAIN content : ~inside[i] /\ content[i] # "-->"})

(* The words, those of quotes included.                                    *)
CleanText(content) == Without(WithoutComments(content), Elements)

HasText(content) == CleanText(content) # <<>>

(* What stays visible to the LLM: placeholders for media, mentions, words. *)
Visible(content) == Without(WithoutComments(content), Brackets)

LlmText(content) ==
    LET seq == Visible(content)
    IN  [i \in DOMAIN seq |->
            Word(IF seq[i] \in Images THEN Placeholder ELSE seq[i])]

-----------------------------------------------------------------------------
(* Images back in the text                                                 *)

Markers(text) == {i \in DOMAIN text : text[i] = Word(Placeholder)}

(* The rank of position i among the markers.                               *)
Rank(text, i) == Cardinality({j \in Markers(text) : j <= i})

(* Mutant: descriptions that are missing are left out.                     *)
ReplaceDense(text, descs) ==
    LET known == Without(descs, {""})
    IN  [i \in DOMAIN text |->
            IF i \in Markers(text) /\ Rank(text, i) <= Len(known)
            THEN Pic(known[Rank(text, i)]) ELSE text[i]]

(* replace_placeholders: the k-th placeholder gets the k-th description,   *)
(* or stays if that is empty.                                              *)
ReplacePlaceholders(text, descs) ==
    [i \in DOMAIN text |->
        IF i \in Markers(text) /\ Rank(text, i) <= Len(descs)
        THEN IF descs[Rank(text, i)] = "" THEN text[i] ELSE Pic(descs[Rank(text, i)])
        ELSE text[i]]

(* build_multimodal_content: the same with images, none of them empty; the *)
(* images without a placeholder come last.                                 *)
BuildMultimodalContent(text, urls) ==
    LET n == Cardinality(Markers(text))
    IN  ReplacePlaceholders(text, urls)
          \o [i \in 1..(IF Len(urls) > n THEN Len(urls) - n ELSE 0) |-> Pic(urls[n + i])]

=============================================================================
