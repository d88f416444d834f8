------------------------------ MODULE Settings ------------------------------
(***************************************************************************)
(* The settings console: requests that read and save fields of the .env    *)
(* file.  The handlers are plain functions, which FastAPI runs in threads  *)
(* of a pool, so two requests interleave between any two accesses to the   *)
(* file; a save reads the file, merges and validates, empties the file and *)
(* writes it anew, and reads it back for the answer.  In front of it are   *)
(* pages that show the fields, keep what is typed in a draft and send what *)
(* differs from what they were shown; other clients send what they like.   *)
(*                                                                         *)
(* Of the 72 settings five are kept, enough for what fields can mean to    *)
(* each other and for what validation asks of a text: the two ratios of    *)
(* the summary, one of which must not exceed the other, two secrets, one   *)
(* of which stands in for the other, and the prefix of commands, the one   *)
(* text that must not be empty.  A value is a text of one line without     *)
(* quotes, backslashes or references to variables of its own; blanks and a *)
(* hash it may have.                                                       *)
(***************************************************************************)
EXTENDS Integers, FiniteSets, Functions

CONSTANTS
    Slots,        \* threads of the pool, each with the page it serves
    LastRequest,  \* requests that arrive (bound of the model)
    LastEdit,     \* what is typed into the pages (bound of the model)
    Inputs,       \* what may be typed: a field and a value
    Payloads,     \* what other clients may send: fields with their new values
    Files         \* what .env may hold in the beginning

Ratios  == {"summary_keep_ratio", "summary_trigger_ratio"}
Secrets == {"llm_api_key", "embed_api_key"}
Prefix  == "command_prefix"
Fields  == Ratios \cup Secrets \cup {Prefix}

(* JSON null, which clears a field, and the mask shown for a secret.       *)
Clear == "null"
Mask  == "***"

(* A value as it stands in the file, in double quotes or bare.             *)
Text(quoted, value) == [quoted |-> quoted, value |-> value]
Bare(value) == Text(FALSE, value)

ASSUME SettingsAssumption ==
    /\ IsFiniteSet(Slots) /\ LastRequest \in Nat /\ LastEdit \in Nat
    /\ Inputs \subseteq Fields \X STRING
    /\ \A p \in Payloads : \A f \in DOMAIN p \cap Fields : p[f] \in STRING
    /\ \A f \in Files : /\ DOMAIN f \subseteq Fields
                        /\ f \in [DOMAIN f -> [quoted : BOOLEAN, value : STRING]]

VARIABLES
    file,      \* .env: the texts of the fields it sets
    req,       \* the requests in progress, per slot
    arrived,   \* how many requests have come
    page,      \* per slot: the fields as shown last, and the draft
    typed,     \* how much has been typed
    given,     \* history: values given for a field, in the file, by typing or
               \* by another client; Clear if none was, or if it was cleared
    told,      \* history: the secrets that an answer had in plain text
    intended,  \* history: the saves so far applied one after the other
    raced,     \* history: has a save written what it had read too early?
    mixed      \* history: have two saves written into each other?

fileVars == <<file, intended, raced, mixed>>
vars == <<fileVars, req, arrived, page, typed, given, told>>

Nothing == [f \in {} |-> ""]

Idle == [at |-> "idle", updates |-> Nothing, merged |-> Nothing, fresh |-> TRUE,
         client |-> "page"]

-----------------------------------------------------------------------------
(* Reading and writing values                                              *)

(* What dotenv reads: a bare value ends at a blank followed by a hash, and *)
(* the blanks around it do not belong to it.                               *)
Parse(text) ==
    IF text.quoted THEN text.value
    ELSE IF text.value = "a #b" THEN "a" ELSE IF text.value = " " THEN "" ELSE text.value

ReadRawEnv(f) == [k \in DOMAIN f |-> Parse(f[k])]

(* _format_env_value: quotes for what would not be read back without.      *)
FormatEnvValue(value) == Text(value \in {"", " ", "a #b"}, value)

(* Mutant: a null is saved as an empty value.                              *)
MergedNullAsEmpty(raw, updates) ==
    [f \in DOMAIN raw \cup DOMAIN updates |->
        IF f \notin DOMAIN updates THEN Bare(raw[f])
        ELSE FormatEnvValue(IF updates[f] = Clear THEN "" ELSE updates[f])]

(* Fields that keep the value read from the file, and updates on top: a    *)
(* null takes the field out.                                               *)
Merged(raw, updates) ==
    LET set == {f \in DOMAIN updates : updates[f] # Clear}
    IN  [f \in (DOMAIN raw \ DOMAIN updates) \cup set |->
            IF f \in set THEN FormatEnvValue(updates[f]) ELSE Bare(raw[f])]

(* _merge_text: the file gets exactly the merged keys; an empty value      *)
(* removes the line.                                                       *)
MergeText(merged) ==
    Restrict(merged, {f \in DOMAIN merged : merged[f] # Bare("")})

-----------------------------------------------------------------------------
(* BotConfig                                                               *)

Default == [summary_keep_ratio |-> "low", summary_trigger_ratio |-> "high",
            llm_api_key |-> "", embed_api_key |-> "", command_prefix |-> "/"]

IsNumber(text) == ~text.quoted /\ text.value \in {"low", "high"}

Ratio(texts, f) == IF f \in DOMAIN texts THEN texts[f].value ELSE Default[f]

(* The constraints of single fields.  What is looked at is the text, with  *)
(* its quotes: an empty value in quotes has two characters.                *)
FieldsValid(texts) ==
    /\ \A f \in Ratios \cap DOMAIN texts : IsNumber(texts[f])
    /\ Prefix \in DOMAIN texts => texts[Prefix] # Bare("")

(* _validate_summary_ratios.                                               *)
RatiosFit(texts) ==
    Ratio(texts, "summary_keep_ratio") = "high"
        => Ratio(texts, "summary_trigger_ratio") = "high"

Valid(texts) == FieldsValid(texts) /\ RatiosFit(texts)

(* The secrets that a refusal tells: the error about the ratios, which is  *)
(* looked for when every field is valid, carries the whole configuration   *)
(* it was found in.                                                        *)
Input(texts) ==
    IF FieldsValid(texts) /\ ~RatiosFit(texts) THEN Secrets \cap DOMAIN texts ELSE {}

Texts(raw) == [f \in DOMAIN raw |-> Bare(raw[f])]

(* The bot can start with the file as it is in the beginning.              *)
ASSUME FilesAssumption == \A f \in Files : Valid(Texts(ReadRawEnv(f)))

(* The configuration read from raw: the embedding key falls back on the    *)
(* key of the LLM.                                                         *)
Config(raw) ==
    [f \in Fields |->
        IF f \in DOMAIN raw THEN raw[f]
        ELSE IF f = "embed_api_key" /\ "llm_api_key" \in DOMAIN raw
             THEN raw["llm_api_key"]
             ELSE Default[f]]

(* _serialize: a secret that is set is shown as the mask.                  *)
Serialize(config) ==
    [f \in Fields |->
        IF f \in Secrets /\ config[f] # "" THEN Mask ELSE config[f]]

Shown(raw) == IF Valid(Texts(raw)) THEN Serialize(Config(raw)) ELSE Nothing

-----------------------------------------------------------------------------
(* The page: useSettingsStore                                              *)

Masked(items, f) == f \in Secrets /\ items[f] = Mask

(* A masked secret begins as empty, which means: leave it.                 *)
InitialDraftValue(items, f) == IF Masked(items, f) THEN "" ELSE items[f]

IsFieldDirty(items, f, value) ==
    IF Masked(items, f) THEN value \notin {"", Clear} ELSE value # items[f]

(* applyResponse: what was typed meanwhile is gone.                        *)
ApplyResponse(items) ==
    [items |-> items, draft |-> [f \in DOMAIN items |-> InitialDraftValue(items, f)]]

BuildPayload(p) ==
    Restrict(p.draft, {f \in DOMAIN p.draft : IsFieldDirty(p.items, f, p.draft[f])})

-----------------------------------------------------------------------------
Init ==
    /\ file \in Files
    /\ req = [r \in Slots |-> Idle] /\ arrived = 0
    /\ page = [r \in Slots |-> ApplyResponse(Shown(ReadRawEnv(file)))] /\ typed = 0
    /\ given = [f \in Fields |-> {IF f \in DOMAIN file THEN Parse(file[f]) ELSE Clear}]
    /\ intended = ReadRawEnv(file)
    /\ raced = FALSE /\ mixed = FALSE /\ told = {}

(* A value somebody wants a field to have; clearing it means none.         *)
Give(f, value) == given' = [given EXCEPT ![f] = @ \cup {value}]

(* setDraft, also while a save is under way.                               *)
SetDraft(r, f, value) ==
    /\ typed < LastEdit /\ f \in DOMAIN page[r].items
    /\ typed' = typed + 1
    /\ page' = [page EXCEPT ![r].draft[f] = value]
    /\ Give(f, value)
    /\ UNCHANGED <<fileVars, req, arrived, told>>

(* The button is there while something differs and nothing is being saved. *)
ResetAll(r) ==
    /\ req[r].at = "idle" /\ BuildPayload(page[r]) # Nothing
    /\ page' = [page EXCEPT ![r] = ApplyResponse(@.items)]
    /\ UNCHANGED <<fileVars, req, arrived, typed, given, told>>

(* Mutant: the mask a form sends back is taken for a value.                *)
AsksAll(p) == p

(* A secret that comes back masked is not an update.                       *)
Asks(p) == Restrict(p, {f \in DOMAIN p : ~(f \in Secrets /\ p[f] = Mask)})

(* A GET, or a PUT.  Unknown fields are refused at once; without anything  *)
(* to update the file is only read.                                        *)
Request(r, p, client) ==
    /\ req[r].at = "idle" /\ arrived < LastRequest
    /\ arrived' = arrived + 1
    /\ req' = IF DOMAIN p \subseteq Fields
              THEN [req EXCEPT ![r] =
                      [Idle EXCEPT !.at = IF Asks(p) = Nothing THEN "load" ELSE "read",
                                   !.updates = Asks(p), !.client = client]]
              ELSE req
    /\ UNCHANGED <<fileVars, page, typed, told>>

(* load and save of a page; there is nothing to save without a difference. *)
LoadPage(r) == Request(r, Nothing, "page") /\ UNCHANGED given

Save(r) ==
    /\ BuildPayload(page[r]) # Nothing
    /\ Request(r, BuildPayload(page[r]), "page")
    /\ UNCHANGED given

ClearField(r, f) ==
    /\ f \in DOMAIN page[r].items
    /\ Request(r, [k \in {f} |-> Clear], "page")
    /\ Give(f, Clear)

OtherClient(r, p) ==
    /\ Request(r, p, "other")
    /\ given' = [f \in Fields |->
                   given[f] \cup (IF f \notin DOMAIN p \/ p[f] = Mask THEN {} ELSE {p[f]})]

(* Requests of other threads that hold what they read and have not written *)
(* it back, and those that have emptied the file to write it.              *)
Holding(r) == {s \in Slots \ {r} : req[s].at \in {"empty", "write"}}
Writing(r) == {s \in Slots \ {r} : req[s].at = "write"}

(* Mutant: the updates are validated by themselves.                        *)
ValidatedUpdates(r, merged) == Valid(Merged(Nothing, req[r].updates))

Validated(r, merged) == Valid(merged)

(* update: read, merge, validate; nothing is written if that fails.  The   *)
(* answer then is the error, of which a page shows no more than its place  *)
(* and its message.                                                        *)
ReadAndMerge(r) ==
    /\ req[r].at = "read"
    /\ LET merged == Merged(ReadRawEnv(file), req[r].updates)
       IN  \/ /\ Validated(r, merged)
              /\ req' = [req EXCEPT ![r].at = "empty", ![r].merged = merged,
                                    ![r].fresh = Writing(r) = {}]
              /\ UNCHANGED told
           \/ /\ ~Validated(r, merged)
              /\ req' = [req EXCEPT ![r] = Idle]
              /\ told' = told \cup Input(merged)
    /\ UNCHANGED <<fileVars, arrived, page, typed, given>>

(* What the others hold is no longer what the file says.                   *)
Outdate(r, next) ==
    req' = [s \in Slots |-> IF s = r THEN next
                            ELSE IF s \in Holding(r) THEN [req[s] EXCEPT !.fresh = FALSE]
                            ELSE req[s]]

(* write_env: write_text opens the file, which empties it ...              *)
Truncate(r) ==
    /\ req[r].at = "empty"
    /\ file' = Nothing
    /\ Outdate(r, [req[r] EXCEPT !.at = "write"])
    /\ UNCHANGED <<arrived, page, typed, given, told, intended, raced, mixed>>

(* ... and writes from its beginning: of what another thread has written   *)
(* there since, a longer text's tail stays.                                *)
WriteText(r) ==
    /\ req[r].at = "write"
    /\ LET text == MergeText(req[r].merged)
       IN  \E tail \in SUBSET DOMAIN file :
              file' = [f \in DOMAIN text \cup tail |->
                          IF f \in tail THEN file[f] ELSE text[f]]
    /\ mixed' = (mixed \/ file # Nothing)
    /\ raced' = (raced \/ ~req[r].fresh \/ file # Nothing)
    /\ intended' =
          LET u == req[r].updates
              set == {f \in DOMAIN u : u[f] # Clear}
          IN  [f \in (DOMAIN intended \ DOMAIN u) \cup set |->
                  IF f \in set THEN u[f] ELSE intended[f]]
    /\ Outdate(r, [req[r] EXCEPT !.at = "load"])
    /\ UNCHANGED <<arrived, page, typed, given, told>>

(* load, and the answer: what the file says now, or an error, which leaves *)
(* the page as it is; after an update it is the same error as a refusal.   *)
Load(r) ==
    /\ req[r].at = "load"
    /\ LET raw == ReadRawEnv(file)
       IN  /\ page' = IF req[r].client = "page" /\ Shown(raw) # Nothing
                      THEN [page EXCEPT ![r] = ApplyResponse(Shown(raw))] ELSE page
           /\ told' = IF req[r].updates = Nothing THEN told ELSE told \cup Input(Texts(raw))
    /\ req' = [req EXCEPT ![r] = Idle]
    /\ UNCHANGED <<fileVars, arrived, typed, given>>

(* The console process is stopped and started again; the pages stay, and   *)
(* so does an emptied file.                                                *)
Restart ==
    /\ \E r \in Slots : req[r] # Idle
    /\ raced' = (raced \/ \E r \in Slots : req[r].at = "write")
    /\ req' = [r \in Slots |-> Idle]
    /\ UNCHANGED <<file, arrived, page, typed, given, told, intended, mixed>>

Finished ==
    /\ arrived = LastRequest /\ \A r \in Slots : req[r] = Idle
    /\ UNCHANGED vars

PageStep(r) ==
    \/ \E i \in Inputs : SetDraft(r, i[1], i[2])
    \/ ResetAll(r) \/ LoadPage(r) \/ Save(r) \/ \E f \in Fields : ClearField(r, f)

Next ==
    \/ \E r \in Slots : \/ PageStep(r) \/ \E p \in Payloads : OtherClient(r, p)
                        \/ ReadAndMerge(r) \/ Truncate(r) \/ WriteText(r) \/ Load(r)
    \/ Restart \/ Finished

Spec == Init /\ [][Next]_vars

-----------------------------------------------------------------------------
(* Properties                                                              *)

TypeOK ==
    /\ DOMAIN file \subseteq Fields
    /\ \A f \in DOMAIN file : file[f].quoted \in BOOLEAN
    /\ arrived \in 0..LastRequest
    /\ \A r \in Slots : req[r].at \in {"idle", "read", "empty", "write", "load"}
    /\ \A r \in Slots : /\ DOMAIN page[r].items \in {{}, Fields}
                        /\ DOMAIN page[r].draft = DOMAIN page[r].items
    /\ typed \in 0..LastEdit /\ DOMAIN given = Fields /\ told \subseteq Secrets

(* Values that quotes make two characters or more, and no quotes none.     *)
Blank == {"", " "}

(* Whatever was saved, by requests one after the other or at the same      *)
(* time, refused or stopped half way: the file always holds a              *)
(* configuration the bot can start with -- each save replaces the whole    *)
(* file by what it has validated as a whole.  Two texts written into each  *)
(* other are the exception, and a prefix of commands that somebody set to  *)
(* an empty text or to blanks: the quotes it is validated with are gone    *)
(* when it is read, or after the next save.                                *)
AlwaysValid ==
    /\ TypeOK
    /\ mixed \/ Blank \cap given[Prefix] # {} \/ Valid(Texts(ReadRawEnv(file)))

(* A secret in the file is one that somebody gave for that very field; the *)
(* mask a form sends back never gets there, and a page shows nothing but   *)
(* masks.  As long as no save races another one, a secret is not lost      *)
(* either: it goes only when somebody wanted it to, however many pages     *)
(* save other fields without having seen it.  An answer has secrets in     *)
(* plain text only after somebody wanted ratios that do not fit each       *)
(* other, the one error that carries all fields.                           *)
SecretsKept ==
    \A f \in Secrets :
       /\ f \in DOMAIN file => Parse(file[f]) \in given[f] \ {Mask, Clear}
       /\ \/ f \in DOMAIN file \/ {"", Clear} \cap given[f] # {}
          \/ raced \/ \E r \in Slots : req[r].at = "write"
       /\ \A r \in Slots : f \in DOMAIN page[r].items => page[r].items[f] \in {"", Mask}
       /\ f \in told => /\ "high" \in given["summary_keep_ratio"]
                        /\ "low" \in given["summary_trigger_ratio"]

(* As long as no save races another one and none is stopped half way, the  *)
(* file says what the saves say when applied one after the other: a save   *)
(* changes the fields it names and no other.                               *)
SavesCompose ==
    raced \/ (\E r \in Slots : req[r].at = "write") \/ ReadRawEnv(file) = intended

=============================================================================
