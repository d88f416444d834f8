--------------------------- MODULE SettingsProofs ---------------------------
(***************************************************************************)
(* Proofs about the settings console, for any number of threads, pages and *)
(* requests and whatever is typed or sent: the file holds a configuration  *)
(* the bot can start with, the secrets in it were given for their fields,  *)
(* and saves that do not race compose.                                     *)
(***************************************************************************)
EXTENDS Settings, TLAPS

-----------------------------------------------------------------------------
(* Types                                                                   *)

(* Strings; the provers have to be told of the literals.                   *)
Values == STRING \cup {"", "a", "low", "high", "/", Clear, Mask}

TextType == [quoted : BOOLEAN, value : Values]

(* Some of the fields, each with an element of S.                          *)
PartialOn(S) == UNION {[D -> S] : D \in SUBSET Fields}

Stages == {"idle", "read", "empty", "write", "load"}

RequestType ==
    [at : Stages, updates : PartialOn(Values), merged : PartialOn(TextType),
     fresh : BOOLEAN, client : {"page", "other"}]

PageType ==
    {p \in [items : PartialOn(Values), draft : PartialOn(Values)] :
        DOMAIN p.items \in {{}, Fields} /\ DOMAIN p.draft = DOMAIN p.items}

TypeInv ==
    /\ file \in PartialOn(TextType)
    /\ req \in [Slots -> RequestType]
    /\ arrived \in 0..LastRequest
    /\ page \in [Slots -> PageType]
    /\ typed \in 0..LastEdit
    /\ DOMAIN given = Fields
    /\ told \subseteq Secrets
    /\ mixed \in BOOLEAN

(* What a request is about to write has been validated as a whole.         *)
HeldValid ==
    \A r \in Slots : req[r].at \in {"empty", "write"} => Valid(req[r].merged)

SettingsInv == TypeInv /\ HeldValid

LEMMA PartialFunction ==
    ASSUME NEW S, NEW f
    PROVE  f \in PartialOn(S) <=> DOMAIN f \subseteq Fields /\ f \in [DOMAIN f -> S]
  BY DEF PartialOn

LEMMA NothingType ==
    ASSUME NEW S
    PROVE  Nothing \in PartialOn(S)
<1>1. DOMAIN Nothing = {} /\ Nothing \in [{} -> S]
  BY DEF Nothing
<1>2. QED
  BY <1>1, PartialFunction

LEMMA RestrictType ==
    ASSUME NEW S, NEW f, NEW D \in SUBSET DOMAIN f, D \subseteq Fields,
           \A k \in D : f[k] \in S
    PROVE  Restrict(f, D) \in PartialOn(S)
<1>1. DOMAIN Restrict(f, D) = D /\ Restrict(f, D) \in [D -> S]
  BY DEF Restrict
<1>2. QED
  BY <1>1, PartialFunction

(* What is read from a file is text.                                       *)
LEMMA ReadType ==
    ASSUME NEW f \in PartialOn(TextType)
    PROVE  ReadRawEnv(f) \in PartialOn(Values)
<1>1. DOMAIN f \subseteq Fields /\ \A k \in DOMAIN f : f[k] \in TextType
  BY PartialFunction
<1>2. \A k \in DOMAIN f : Parse(f[k]) \in Values
  BY <1>1 DEF Parse, TextType, Values
<1>3. DOMAIN ReadRawEnv(f) = DOMAIN f /\ ReadRawEnv(f) \in [DOMAIN f -> Values]
  BY <1>2 DEF ReadRawEnv
<1>4. QED
  BY <1>1, <1>3, PartialFunction

(* What a save is about to write.                                          *)
LEMMA MergedType ==
    ASSUME NEW raw \in PartialOn(Values), NEW updates \in PartialOn(Values)
    PROVE  Merged(raw, updates) \in PartialOn(TextType)
<1> DEFINE set == {f \in DOMAIN updates : updates[f] # Clear}
           D == (DOMAIN raw \ DOMAIN updates) \cup set
<1>1. /\ DOMAIN raw \subseteq Fields /\ \A k \in DOMAIN raw : raw[k] \in Values
      /\ DOMAIN updates \subseteq Fields /\ \A k \in DOMAIN updates : updates[k] \in Values
  BY PartialFunction
<1>2. \A k \in D : (IF k \in set THEN FormatEnvValue(updates[k]) ELSE Bare(raw[k])) \in TextType
  BY <1>1 DEF FormatEnvValue, Bare, Text, TextType
<1>3. Merged(raw, updates) =
        [k \in D |-> IF k \in set THEN FormatEnvValue(updates[k]) ELSE Bare(raw[k])]
  BY DEF Merged
<1> HIDE DEF D, set
<1>4. DOMAIN Merged(raw, updates) = D /\ Merged(raw, updates) \in [D -> TextType]
  BY <1>2, <1>3
<1>5. D \subseteq Fields
  BY <1>1 DEF D, set
<1>6. QED
  BY <1>4, <1>5, PartialFunction

LEMMA MergeTextType ==
    ASSUME NEW merged \in PartialOn(TextType)
    PROVE  MergeText(merged) \in PartialOn(TextType)
<1>1. DOMAIN merged \subseteq Fields /\ \A k \in DOMAIN merged : merged[k] \in TextType
  BY PartialFunction
<1>2. QED
  BY <1>1, RestrictType DEF MergeText

(* What a page is shown: every field or none.                              *)
LEMMA ShownType ==
    ASSUME NEW raw \in PartialOn(Values)
    PROVE  Shown(raw) \in PartialOn(Values) /\ DOMAIN Shown(raw) \in {{}, Fields}
<1>1. DOMAIN raw \subseteq Fields /\ \A k \in DOMAIN raw : raw[k] \in Values
  BY PartialFunction
<1>2. \A f \in Fields : Default[f] \in Values
  <2>1. /\ Default["summary_keep_ratio"] = "low" /\ Default["summary_trigger_ratio"] = "high"
        /\ Default["llm_api_key"] = "" /\ Default["embed_api_key"] = ""
        /\ Default["command_prefix"] = "/"
    BY DEF Default
  <2>2. QED
    BY <2>1 DEF Fields, Ratios, Secrets, Prefix, Values
<1>3. \A f \in Fields : Config(raw)[f] \in Values
  BY <1>1, <1>2 DEF Config
<1>4. DOMAIN Serialize(Config(raw)) = Fields /\ Serialize(Config(raw)) \in [Fields -> Values]
  BY <1>3 DEF Serialize, Values
<1>5. DOMAIN Nothing = {}
  BY DEF Nothing
<1>6. QED
  BY <1>4, <1>5, NothingType, PartialFunction DEF Shown

LEMMA ApplyResponseType ==
    ASSUME NEW items \in PartialOn(Values), DOMAIN items \in {{}, Fields}
    PROVE  ApplyResponse(items) \in PageType
<1> DEFINE draft == [f \in DOMAIN items |-> InitialDraftValue(items, f)]
<1>1. DOMAIN items \subseteq Fields /\ \A k \in DOMAIN items : items[k] \in Values
  BY PartialFunction
<1>2. DOMAIN draft = DOMAIN items /\ draft \in [DOMAIN items -> Values]
  BY <1>1 DEF InitialDraftValue, Values
<1>3. draft \in PartialOn(Values)
  BY <1>1, <1>2, PartialFunction
<1>4. QED
  BY <1>2, <1>3 DEF ApplyResponse, PageType

LEMMA BuildPayloadType ==
    ASSUME NEW p \in PageType
    PROVE  BuildPayload(p) \in PartialOn(Values)
<1>1. p.draft \in PartialOn(Values)
  BY DEF PageType
<1>2. DOMAIN p.draft \subseteq Fields /\ \A k \in DOMAIN p.draft : p.draft[k] \in Values
  BY <1>1, PartialFunction
<1>3. QED
  BY <1>2, RestrictType DEF BuildPayload

-----------------------------------------------------------------------------
(* A file that is written from a validated text is valid when it is read:  *)
(* numbers need no quotes and are not removed -- and a prefix that is not  *)
(* blank is not empty either.                                              *)
LEMMA WrittenIsValid ==
    ASSUME NEW merged \in PartialOn(TextType), Valid(merged),
           Prefix \in DOMAIN merged => merged[Prefix].value \notin Blank
    PROVE  Valid(Texts(ReadRawEnv(MergeText(merged))))
<1> DEFINE text == MergeText(merged)
           read == Texts(ReadRawEnv(text))
<1>1. DOMAIN merged \subseteq Fields /\ \A k \in DOMAIN merged : merged[k] \in TextType
  BY PartialFunction
<1>2. \A k \in Ratios \cap DOMAIN merged :
         ~merged[k].quoted /\ merged[k].value \in {"low", "high"}
  BY DEF Valid, FieldsValid, IsNumber
<1>3. DOMAIN text = {k \in DOMAIN merged : merged[k] # Bare("")}
      /\ \A k \in DOMAIN text : text[k] = merged[k]
  BY DEF MergeText, Restrict
<1>4. DOMAIN read = DOMAIN text /\ \A k \in DOMAIN text : read[k] = Bare(Parse(text[k]))
  BY DEF Texts, ReadRawEnv
<1>5. \A k \in Ratios \cap DOMAIN merged : merged[k] # Bare("")
  <2>1. Bare("").value = ""
    BY DEF Bare, Text
  <2>2. QED
    BY <1>2, <2>1
<1>6. \A k \in Ratios : k \in DOMAIN read <=> k \in DOMAIN merged
  BY <1>3, <1>4, <1>5
<1>7. \A k \in Ratios \cap DOMAIN read : ~read[k].quoted /\ read[k].value = merged[k].value
  <2>1. TAKE k \in Ratios \cap DOMAIN read
  <2>2. read[k] = Bare(Parse(merged[k])) /\ k \in Ratios \cap DOMAIN merged
    BY <1>3, <1>4, <1>6
  <2>3. merged[k].value \notin {"a #b", " "}
    BY <1>2, <2>2
  <2>4. Parse(merged[k]) = merged[k].value
    BY <2>3 DEF Parse
  <2>5. QED
    BY <2>2, <2>4 DEF Bare, Text
<1>8. Prefix \in DOMAIN read => read[Prefix] # Bare("")
  <2>1. SUFFICES ASSUME Prefix \in DOMAIN read PROVE read[Prefix] # Bare("")
    OBVIOUS
  <2>2. read[Prefix] = Bare(Parse(merged[Prefix])) /\ merged[Prefix].value \notin Blank
    BY <1>3, <1>4, <2>1
  <2>3. Parse(merged[Prefix]) # ""
    BY <2>2 DEF Parse, Blank
  <2>4. read[Prefix].value = Parse(merged[Prefix]) /\ Bare("").value = ""
    BY <2>2 DEF Bare, Text
  <2>5. QED
    BY <2>3, <2>4
<1> HIDE DEF read, text
<1>9. \A k \in Ratios : Ratio(read, k) = Ratio(merged, k)
  BY <1>6, <1>7 DEF Ratio
<1>10. \A k \in Ratios \cap DOMAIN read : IsNumber(read[k])
  BY <1>2, <1>6, <1>7 DEF IsNumber
<1>11. Valid(read)
  BY <1>8, <1>9, <1>10 DEF Valid, FieldsValid, RatiosFit, Ratios
<1>12. QED
  BY <1>11 DEF read, text

(* An emptied file is one: every field has its default.                    *)
LEMMA EmptyIsValid == Valid(Texts(ReadRawEnv(Nothing)))
<1> DEFINE read == Texts(ReadRawEnv(Nothing))
<1>1. DOMAIN read = {}
  BY DEF Nothing, ReadRawEnv, Texts
<1>2. Ratio(read, "summary_keep_ratio") = "low"
  BY <1>1 DEF Ratio, Default
<1>3. QED
  BY <1>1, <1>2 DEF Valid, FieldsValid, RatiosFit

-----------------------------------------------------------------------------
(* One lemma per action that changes more than a page                      *)

LEMMA InitInv ==
    ASSUME SettingsAssumption, Init
    PROVE  SettingsInv
<1>1. file \in PartialOn(TextType)
  <2>1. DOMAIN file \subseteq Fields /\ file \in [DOMAIN file -> [quoted : BOOLEAN, value : STRING]]
    BY DEF Init, SettingsAssumption
  <2>2. file \in [DOMAIN file -> TextType]
    BY <2>1 DEF TextType, Values
  <2>3. QED
    BY <2>1, <2>2, PartialFunction
<1>2. Idle \in RequestType /\ Idle.at = "idle"
  BY NothingType DEF Idle, RequestType, Stages
<1>3. ApplyResponse(Shown(ReadRawEnv(file))) \in PageType
  BY <1>1, ReadType, ShownType, ApplyResponseType
<1>4. TypeInv
  <2>1. arrived \in 0..LastRequest /\ typed \in 0..LastEdit
    <3>1. LastRequest \in Nat /\ LastEdit \in Nat
      BY DEF SettingsAssumption
    <3>2. arrived = 0 /\ typed = 0
      BY DEF Init
    <3>3. QED
      BY <3>1, <3>2
  <2>2. DOMAIN given = Fields /\ told \subseteq Secrets
    BY DEF Init
  <2>3. mixed \in BOOLEAN
    BY DEF Init
  <2>4. req \in [Slots -> RequestType] /\ page \in [Slots -> PageType]
    BY <1>2, <1>3 DEF Init
  <2>5. QED
    BY <1>1, <2>1, <2>2, <2>3, <2>4 DEF TypeInv
<1>5. HeldValid
  BY <1>2 DEF Init, HeldValid
<1>6. QED
  BY <1>4, <1>5 DEF SettingsInv

(* A request arrives; it holds nothing yet.                                *)
LEMMA RequestKeepsInv ==
    ASSUME SettingsAssumption, SettingsInv, NEW r \in Slots, NEW p,
           NEW client \in {"page", "other"}, Request(r, p, client), DOMAIN given' = Fields,
           \A f \in DOMAIN p \cap Fields : p[f] \in Values
    PROVE  SettingsInv'
<1> DEFINE q == [Idle EXCEPT !.at = IF Asks(p) = Nothing THEN "load" ELSE "read",
                             !.updates = Asks(p), !.client = client]
<1>1. Idle \in RequestType
  BY NothingType DEF Idle, RequestType, Stages
<1>2. ASSUME DOMAIN p \subseteq Fields
      PROVE  q \in RequestType /\ q.at \in {"load", "read"}
  <2>1. Asks(p) \in PartialOn(Values)
    BY <1>2, RestrictType DEF Asks
  <2>2. QED
    BY <1>1, <2>1 DEF RequestType, Stages
<1>3. req' = IF DOMAIN p \subseteq Fields THEN [req EXCEPT ![r] = q] ELSE req
  BY DEF Request
<1>4. arrived' \in 0..LastRequest
  BY DEF SettingsInv, TypeInv, Request, SettingsAssumption
<1> HIDE DEF q
<1>5. TypeInv'
  BY <1>2, <1>3, <1>4 DEF SettingsInv, TypeInv, Request, fileVars
<1>6. HeldValid'
  BY <1>2, <1>3 DEF SettingsInv, TypeInv, HeldValid
<1>7. QED
  BY <1>5, <1>6 DEF SettingsInv

(* What a page does: typing and undoing change nothing but the page, the   *)
(* rest are requests.                                                      *)
LEMMA PageStepKeepsInv ==
    ASSUME SettingsAssumption, SettingsInv, NEW r \in Slots, PageStep(r)
    PROVE  SettingsInv'
<1>1. page[r] \in PageType
  BY DEF SettingsInv, TypeInv
<1>2. ASSUME NEW i \in Inputs, SetDraft(r, i[1], i[2])
      PROVE  SettingsInv'
  <2>1. i[2] \in Values
    BY DEF SettingsAssumption, Values
  <2>2. /\ page[r].draft \in PartialOn(Values) /\ page[r].items \in PartialOn(Values)
        /\ DOMAIN page[r].items \in {{}, Fields} /\ DOMAIN page[r].draft = DOMAIN page[r].items
    BY <1>1 DEF PageType
  <2>3. [page[r].draft EXCEPT ![i[1]] = i[2]] \in PartialOn(Values)
        /\ DOMAIN [page[r].draft EXCEPT ![i[1]] = i[2]] = DOMAIN page[r].draft
    BY <2>1, <2>2, PartialFunction
  <2>4. [page[r] EXCEPT !.draft = [page[r].draft EXCEPT ![i[1]] = i[2]]] \in PageType
    BY <1>1, <2>2, <2>3 DEF PageType
  <2>5. page' = [page EXCEPT ![r] = [page[r] EXCEPT !.draft = [page[r].draft EXCEPT ![i[1]] = i[2]]]]
    BY <1>2 DEF SetDraft, SettingsInv, TypeInv
  <2>6. page' \in [Slots -> PageType]
    BY <2>4, <2>5 DEF SettingsInv, TypeInv
  <2>7. DOMAIN given' = Fields
    BY <1>2 DEF SetDraft, Give, SettingsInv, TypeInv
  <2>8. typed' \in 0..LastEdit
    BY <1>2 DEF SetDraft, SettingsInv, TypeInv, SettingsAssumption
  <2>9. UNCHANGED <<file, mixed, req, arrived, told>>
    BY <1>2 DEF SetDraft, fileVars
  <2>10. QED
    BY <2>6, <2>7, <2>8, <2>9 DEF SettingsInv, TypeInv, HeldValid
<1>3. ASSUME ResetAll(r)
      PROVE  SettingsInv'
  <2>1. ApplyResponse(page[r].items) \in PageType
    BY <1>1, ApplyResponseType DEF PageType
  <2>2. page' \in [Slots -> PageType]
    BY <1>3, <2>1 DEF ResetAll, SettingsInv, TypeInv
  <2>3. UNCHANGED <<file, mixed, req, arrived, typed, given, told>>
    BY <1>3 DEF ResetAll, fileVars
  <2>4. QED
    BY <2>2, <2>3 DEF SettingsInv, TypeInv, HeldValid
<1>4. DOMAIN given = Fields
  BY DEF SettingsInv, TypeInv
<1>5. ASSUME LoadPage(r)
      PROVE  SettingsInv'
  <2>1. DOMAIN Nothing = {}
    BY DEF Nothing
  <2>2. Request(r, Nothing, "page") /\ DOMAIN given' = Fields
    BY <1>4, <1>5 DEF LoadPage
  <2>3. QED
    BY <2>1, <2>2, RequestKeepsInv
<1>6. ASSUME Save(r)
      PROVE  SettingsInv'
  <2>1. \A f \in DOMAIN BuildPayload(page[r]) : BuildPayload(page[r])[f] \in Values
    BY <1>1, BuildPayloadType, PartialFunction
  <2>2. Request(r, BuildPayload(page[r]), "page") /\ DOMAIN given' = Fields
    BY <1>4, <1>6 DEF Save
  <2>3. QED
    BY <2>1, <2>2, RequestKeepsInv
<1>7. ASSUME NEW f \in Fields, ClearField(r, f)
      PROVE  SettingsInv'
  <2> DEFINE p == [k \in {f} |-> Clear]
  <2>1. \A k \in DOMAIN p : p[k] \in Values
    BY DEF Values
  <2>2. Request(r, p, "page") /\ DOMAIN given' = Fields
    BY <1>4, <1>7 DEF ClearField, Give
  <2> HIDE DEF p
  <2>3. QED
    BY <2>1, <2>2, RequestKeepsInv
<1>8. QED
  BY <1>2, <1>3, <1>5, <1>6, <1>7 DEF PageStep

LEMMA OtherClientKeepsInv ==
    ASSUME SettingsAssumption, SettingsInv, NEW r \in Slots, NEW p \in Payloads,
           OtherClient(r, p)
    PROVE  SettingsInv'
<1>1. \A f \in DOMAIN p \cap Fields : p[f] \in Values
  BY DEF SettingsAssumption, Values
<1>2. Request(r, p, "other") /\ DOMAIN given' = Fields
  BY DEF OtherClient
<1>3. QED
  BY <1>1, <1>2, RequestKeepsInv

(* Only what is valid gets past the validation.                            *)
LEMMA ReadAndMergeKeepsInv ==
    ASSUME SettingsInv, NEW r \in Slots, ReadAndMerge(r)
    PROVE  SettingsInv'
<1> DEFINE merged == Merged(ReadRawEnv(file), req[r].updates)
           q == [req[r] EXCEPT !.at = "empty", !.merged = merged, !.fresh = Writing(r) = {}]
<1>1. file \in PartialOn(TextType) /\ req[r] \in RequestType
  BY DEF SettingsInv, TypeInv
<1>2. merged \in PartialOn(TextType)
  <2>1. req[r].updates \in PartialOn(Values)
    BY <1>1 DEF RequestType
  <2>2. QED
    BY <1>1, <2>1, ReadType, MergedType
<1>3. Idle \in RequestType /\ Idle.at = "idle"
  BY NothingType DEF Idle, RequestType, Stages
<1>4. /\ req' = [req EXCEPT ![r] = IF Valid(merged) THEN q ELSE Idle]
      /\ told' \in {told, told \cup Input(merged)}
  BY DEF ReadAndMerge, Validated
<1> HIDE DEF merged
<1>5. q \in RequestType /\ q.merged = merged
  BY <1>1, <1>2 DEF RequestType, Stages
<1> HIDE DEF q
<1>6. TypeInv'
  <2>1. req' \in [Slots -> RequestType]
    BY <1>3, <1>4, <1>5 DEF SettingsInv, TypeInv
  <2>2. told' \subseteq Secrets
    BY <1>4 DEF Input, SettingsInv, TypeInv
  <2>3. QED
    BY <2>1, <2>2 DEF ReadAndMerge, SettingsInv, TypeInv, fileVars
<1>7. HeldValid'
  BY <1>3, <1>4, <1>5 DEF SettingsInv, TypeInv, HeldValid
<1>8. QED
  BY <1>6, <1>7 DEF SettingsInv

(* Outdate leaves alone what the other requests hold.                      *)
LEMMA OutdateKeeps ==
    ASSUME TypeInv, HeldValid, NEW r \in Slots, NEW next \in RequestType,
           next.at \in {"empty", "write"} => Valid(next.merged), Outdate(r, next)
    PROVE  req' \in [Slots -> RequestType] /\ HeldValid'
<1>1. \A s \in Slots : req[s] \in RequestType
  BY DEF TypeInv
<1>2. ASSUME NEW s \in Slots
      PROVE  /\ req'[s] \in RequestType
             /\ req'[s].at \in {"empty", "write"} => Valid(req'[s].merged)
  <2> DEFINE outdated == [req[s] EXCEPT !.fresh = FALSE]
  <2>1. /\ outdated \in RequestType
        /\ outdated.at = req[s].at /\ outdated.merged = req[s].merged
    BY <1>1 DEF RequestType
  <2>2. req'[s] \in {next, outdated, req[s]} /\ (s = r => req'[s] = next)
    BY DEF Outdate
  <2> HIDE DEF outdated
  <2>3. QED
    BY <1>1, <2>1, <2>2 DEF HeldValid
<1>3. req' = [s \in Slots |-> req'[s]]
  BY DEF Outdate
<1>4. QED
  BY <1>2, <1>3 DEF HeldValid

LEMMA TruncateKeepsInv ==
    ASSUME SettingsInv, NEW r \in Slots, Truncate(r)
    PROVE  SettingsInv'
<1> DEFINE next == [req[r] EXCEPT !.at = "write"]
<1>1. req[r] \in RequestType /\ req[r].at = "empty"
  BY DEF SettingsInv, TypeInv, Truncate
<1>2. next \in RequestType /\ Valid(next.merged)
  BY <1>1 DEF SettingsInv, HeldValid, RequestType, Stages
<1>3. Outdate(r, next)
  BY DEF Truncate
<1> HIDE DEF next
<1>4. req' \in [Slots -> RequestType] /\ HeldValid'
  BY <1>2, <1>3, OutdateKeeps DEF SettingsInv
<1>5. file' = Nothing /\ UNCHANGED <<arrived, page, typed, given, told, mixed>>
  BY DEF Truncate
<1>6. TypeInv'
  BY <1>4, <1>5, NothingType DEF SettingsInv, TypeInv
<1>7. QED
  BY <1>4, <1>6 DEF SettingsInv

LEMMA WriteTextKeepsInv ==
    ASSUME SettingsInv, NEW r \in Slots, WriteText(r)
    PROVE  SettingsInv'
<1> DEFINE next == [req[r] EXCEPT !.at = "load"]
           text == MergeText(req[r].merged)
<1>1. /\ req[r] \in RequestType /\ req[r].merged \in PartialOn(TextType)
      /\ Valid(req[r].merged)
  BY DEF SettingsInv, TypeInv, HeldValid, WriteText, RequestType
<1>2. next \in RequestType /\ next.at = "load"
  BY <1>1 DEF RequestType, Stages
<1>3. Outdate(r, next)
  BY DEF WriteText
<1> HIDE DEF next
<1>4. req' \in [Slots -> RequestType] /\ HeldValid'
  BY <1>2, <1>3, OutdateKeeps DEF SettingsInv
<1>5. text \in PartialOn(TextType)
  BY <1>1, MergeTextType
<1>6. PICK tail \in SUBSET DOMAIN file :
         file' = [f \in DOMAIN text \cup tail |-> IF f \in tail THEN file[f] ELSE text[f]]
  BY DEF WriteText
<1> HIDE DEF text
<1>7. /\ DOMAIN text \subseteq Fields /\ text \in [DOMAIN text -> TextType]
      /\ DOMAIN file \subseteq Fields /\ file \in [DOMAIN file -> TextType]
  BY <1>5, PartialFunction DEF SettingsInv, TypeInv
<1>8. file' \in PartialOn(TextType)
  <2>1. DOMAIN file' = DOMAIN text \cup tail /\ file' \in [DOMAIN text \cup tail -> TextType]
    BY <1>6, <1>7
  <2>2. QED
    BY <1>7, <2>1, PartialFunction
<1>9. mixed' = (mixed \/ file # Nothing) /\ UNCHANGED <<arrived, page, typed, given, told>>
  BY DEF WriteText
<1>10. TypeInv'
  BY <1>4, <1>8, <1>9 DEF SettingsInv, TypeInv
<1>11. QED
  BY <1>4, <1>10 DEF SettingsInv

LEMMA LoadKeepsInv ==
    ASSUME SettingsInv, NEW r \in Slots, Load(r)
    PROVE  SettingsInv'
<1> DEFINE items == Shown(ReadRawEnv(file))
<1>1. ApplyResponse(items) \in PageType
  BY ReadType, ShownType, ApplyResponseType DEF SettingsInv, TypeInv
<1>2. Idle \in RequestType /\ Idle.at = "idle"
  BY NothingType DEF Idle, RequestType, Stages
<1>3. page' \in {page, [page EXCEPT ![r] = ApplyResponse(items)]}
  BY DEF Load
<1>4. req' = [req EXCEPT ![r] = Idle] /\ UNCHANGED <<file, mixed, arrived, typed, given>>
  BY DEF Load, fileVars
<1> HIDE DEF items
<1>5. told' \subseteq Secrets
  BY DEF Load, Input, SettingsInv, TypeInv
<1>6. TypeInv'
  BY <1>1, <1>2, <1>3, <1>4, <1>5 DEF SettingsInv, TypeInv
<1>7. HeldValid'
  BY <1>2, <1>4 DEF SettingsInv, TypeInv, HeldValid
<1>8. QED
  BY <1>6, <1>7 DEF SettingsInv

LEMMA RestartKeepsInv ==
    ASSUME SettingsInv, Restart
    PROVE  SettingsInv'
<1>1. Idle \in RequestType /\ Idle.at = "idle"
  BY NothingType DEF Idle, RequestType, Stages
<1>2. /\ req' = [r \in Slots |-> Idle]
      /\ UNCHANGED <<file, mixed, arrived, page, typed, given, told>>
  BY DEF Restart
<1>3. QED
  BY <1>1, <1>2 DEF SettingsInv, TypeInv, HeldValid

LEMMA NextInv ==
    ASSUME SettingsAssumption, SettingsInv, [Next]_vars
    PROVE  SettingsInv'
<1>1. CASE UNCHANGED vars
  BY <1>1 DEF vars, fileVars, SettingsInv, TypeInv, HeldValid
<1>2. CASE Finished
  BY <1>1, <1>2 DEF Finished
<1>3. CASE Restart
  BY <1>3, RestartKeepsInv
<1>4. CASE \E r \in Slots : \/ PageStep(r) \/ \E p \in Payloads : OtherClient(r, p)
                            \/ ReadAndMerge(r) \/ Truncate(r) \/ WriteText(r) \/ Load(r)
  BY <1>4, PageStepKeepsInv, OtherClientKeepsInv, ReadAndMergeKeepsInv,
     TruncateKeepsInv, WriteTextKeepsInv, LoadKeepsInv
<1>5. QED
  BY <1>1, <1>2, <1>3, <1>4 DEF Next

-----------------------------------------------------------------------------
(* Values that are read back as they were written                          *)

(* No value from outside is in X.                                          *)
OutsideAvoids(X) ==
    /\ \A i \in Inputs : i[2] \notin X
    /\ \A p \in Payloads : \A f \in DOMAIN p \cap Fields : p[f] \notin X
    /\ \A F \in Files : \A f \in DOMAIN F : F[f].value \notin X

RequestAvoids(q, f, X) ==
    /\ f \in DOMAIN q.updates => q.updates[f] \notin X
    /\ f \in DOMAIN q.merged => q.merged[f].value \notin X

PageAvoids(p, f, X) ==
    f \in DOMAIN p.draft => p.draft[f] \notin X \/ p.draft[f] = InitialDraftValue(p.items, f)

(* No value for f, in the file or on its way there, is in X.               *)
Avoids(f, X) ==
    /\ f \in DOMAIN file => file[f].value \notin X
    /\ \A r \in Slots : RequestAvoids(req[r], f, X) /\ PageAvoids(page[r], f, X)

AllAvoid(X) == \A f \in Fields : Avoids(f, X)

(* Reading makes no value of X out of another one, and X has nothing that  *)
(* stands for no value.                                                    *)
Closed(X) ==
    /\ \A text : Parse(text) \in X => text.value \in X
    /\ Clear \notin X /\ Mask \notin X

(* Values that lose their quotes when they are saved again and then mean   *)
(* something else: what is cut as a comment or as blanks and, as it would  *)
(* be removed, an empty one.                                               *)
Cut == {"a #b", " "}
Unstable == Cut \cup {""}

LEMMA ClosedSets ==
    /\ Closed(Blank) /\ Closed({"high"}) /\ Closed({"low"}) /\ Closed(Cut) /\ Closed(Unstable)
BY DEF Closed, Parse, Blank, Cut, Unstable, Clear, Mask

LEMMA BareReadsBack ==
    ASSUME NEW text, text.value \notin Cut
    PROVE  Parse(text) = text.value
BY DEF Parse, Cut

LEMMA TextValue ==
    ASSUME NEW v
    PROVE  Bare(v).value = v /\ FormatEnvValue(v).value = v
BY DEF Bare, FormatEnvValue, Text

(* What a merge takes from the file and what from the updates.             *)
LEMMA MergedFields ==
    ASSUME NEW raw, NEW updates, NEW m, m = Merged(raw, updates)
    PROVE  /\ \A f : f \in DOMAIN m <=>
                 \/ f \in DOMAIN raw /\ f \notin DOMAIN updates
                 \/ f \in DOMAIN updates /\ updates[f] # Clear
           /\ \A f \in DOMAIN m :
                 \/ /\ f \in DOMAIN updates /\ updates[f] # Clear
                    /\ m[f] = FormatEnvValue(updates[f]) /\ m[f].value = updates[f]
                 \/ /\ f \in DOMAIN raw /\ f \notin DOMAIN updates
                    /\ m[f] = Bare(raw[f]) /\ m[f].value = raw[f]
<1> DEFINE set == {f \in DOMAIN updates : updates[f] # Clear}
           D == (DOMAIN raw \ DOMAIN updates) \cup set
<1>1. m = [f \in D |-> IF f \in set THEN FormatEnvValue(updates[f]) ELSE Bare(raw[f])]
  BY DEF Merged
<1>2. \A f \in D : m[f] = IF f \in set THEN FormatEnvValue(updates[f]) ELSE Bare(raw[f])
  BY <1>1
<1>3. DOMAIN m = D
  BY <1>1
<1>4. QED
  BY <1>2, <1>3, TextValue

(* What a page sends was typed: what it was shown is no difference.        *)
LEMMA SentWasTyped ==
    ASSUME NEW p, NEW f \in DOMAIN BuildPayload(p)
    PROVE  /\ f \in DOMAIN p.draft /\ BuildPayload(p)[f] = p.draft[f]
           /\ p.draft[f] # InitialDraftValue(p.items, f)
<1>1. /\ f \in DOMAIN p.draft /\ IsFieldDirty(p.items, f, p.draft[f])
      /\ BuildPayload(p)[f] = p.draft[f]
  BY DEF BuildPayload, Restrict
<1>2. ~IsFieldDirty(p.items, f, InitialDraftValue(p.items, f))
  BY DEF IsFieldDirty, InitialDraftValue
<1>3. QED
  BY <1>1, <1>2

LEMMA ResponseAvoids ==
    ASSUME NEW items, NEW X
    PROVE  \A f : PageAvoids(ApplyResponse(items), f, X)
BY DEF PageAvoids, ApplyResponse

LEMMA AskedFields ==
    ASSUME NEW p
    PROVE  /\ DOMAIN Asks(p) \subseteq DOMAIN p
           /\ \A f \in DOMAIN Asks(p) : Asks(p)[f] = p[f]
           /\ \A f \in DOMAIN Asks(p) \cap Secrets : Asks(p)[f] # Mask
BY DEF Asks, Restrict

(* Which request a slot holds after each step, and which page.             *)
LEMMA RequestEffect ==
    ASSUME SettingsInv, NEW r \in Slots, NEW p, NEW client, Request(r, p, client)
    PROVE  /\ UNCHANGED <<file, intended, raced, mixed, page>>
           /\ req[r].at = "idle"
           /\ \A s \in Slots : \/ req'[s] = req[s]
                               \/ /\ s = r /\ DOMAIN p \subseteq Fields
                                  /\ req'[s].updates = Asks(p) /\ req'[s].merged = Nothing
                                  /\ req'[s].at \in {"load", "read"}
<1> DEFINE q == [Idle EXCEPT !.at = IF Asks(p) = Nothing THEN "load" ELSE "read",
                             !.updates = Asks(p), !.client = client]
<1>1. /\ q.updates = Asks(p) /\ q.merged = Nothing /\ q.at \in {"load", "read"}
  BY DEF Idle
<1>2. req' = IF DOMAIN p \subseteq Fields THEN [req EXCEPT ![r] = q] ELSE req
  BY DEF Request
<1> HIDE DEF q
<1>3. req \in [Slots -> RequestType]
  BY DEF SettingsInv, TypeInv
<1>4. UNCHANGED <<file, intended, raced, mixed, page>> /\ req[r].at = "idle"
  BY DEF Request, fileVars
<1>5. QED
  BY <1>1, <1>2, <1>3, <1>4

LEMMA ReadAndMergeEffect ==
    ASSUME SettingsInv, NEW r \in Slots, ReadAndMerge(r)
    PROVE  /\ UNCHANGED <<file, intended, raced, mixed, page, given>>
           /\ req[r].at = "read"
           /\ \A s \in Slots \ {r} : req'[s] = req[s]
           /\ \/ req'[r] = Idle
              \/ /\ req'[r].at = "empty" /\ req'[r].updates = req[r].updates
                 /\ req'[r].merged = Merged(ReadRawEnv(file), req[r].updates)
                 /\ req'[r].fresh = (Writing(r) = {})
<1> DEFINE merged == Merged(ReadRawEnv(file), req[r].updates)
           q == [req[r] EXCEPT !.at = "empty", !.merged = merged, !.fresh = Writing(r) = {}]
<1>1. req' = [req EXCEPT ![r] = q] \/ req' = [req EXCEPT ![r] = Idle]
  BY DEF ReadAndMerge
<1>2. req \in [Slots -> RequestType]
  BY DEF SettingsInv, TypeInv
<1>3. req[r] \in RequestType
  BY <1>2
<1> HIDE DEF merged
<1>4. /\ q.at = "empty" /\ q.updates = req[r].updates /\ q.merged = merged
      /\ q.fresh = (Writing(r) = {})
  BY <1>3 DEF RequestType
<1> HIDE DEF q
<1>5. UNCHANGED <<file, intended, raced, mixed, page, given>> /\ req[r].at = "read"
  BY DEF ReadAndMerge, fileVars
<1>6. req'[r] \in {q, Idle} /\ \A s \in Slots \ {r} : req'[s] = req[s]
  BY <1>1, <1>2
<1>7. QED
  BY <1>4, <1>5, <1>6 DEF merged

(* Whoever empties or writes the file outdates the others that hold it.    *)
LEMMA OutdateEffect ==
    ASSUME SettingsInv, NEW r \in Slots, NEW stage,
           Outdate(r, [req[r] EXCEPT !.at = stage])
    PROVE  /\ req'[r].at = stage /\ req'[r].updates = req[r].updates
           /\ req'[r].merged = req[r].merged /\ req'[r].fresh = req[r].fresh
           /\ \A s \in Slots \ {r} :
                 /\ req'[s].at = req[s].at /\ req'[s].updates = req[s].updates
                 /\ req'[s].merged = req[s].merged
                 /\ req[s].at \in {"empty", "write"} => ~req'[s].fresh
<1> DEFINE next == [req[r] EXCEPT !.at = stage]
<1>1. \A s \in Slots : req[s] \in RequestType
  BY DEF SettingsInv, TypeInv
<1>2. /\ next.at = stage /\ next.updates = req[r].updates
      /\ next.merged = req[r].merged /\ next.fresh = req[r].fresh
  BY <1>1 DEF RequestType
<1>3. Outdate(r, next)
  OBVIOUS
<1> HIDE DEF next
<1>4. req'[r] = next
  BY <1>3 DEF Outdate
<1>5. ASSUME NEW s \in Slots \ {r}
      PROVE  /\ req'[s].at = req[s].at /\ req'[s].updates = req[s].updates
             /\ req'[s].merged = req[s].merged
             /\ req[s].at \in {"empty", "write"} => ~req'[s].fresh
  <2> DEFINE outdated == [req[s] EXCEPT !.fresh = FALSE]
  <2>1. /\ outdated.at = req[s].at /\ outdated.updates = req[s].updates
        /\ outdated.merged = req[s].merged /\ ~outdated.fresh
    BY <1>1 DEF RequestType
  <2>2. /\ req'[s] \in {outdated, req[s]}
        /\ s \in Holding(r) => req'[s] = outdated
    BY <1>3 DEF Outdate
  <2>3. req[s].at \in {"empty", "write"} => s \in Holding(r)
    BY DEF Holding
  <2> HIDE DEF outdated
  <2>4. QED
    BY <2>1, <2>2, <2>3
<1>6. QED
  BY <1>2, <1>4, <1>5

(* What a step of a page changes: a value is typed, the page is reset, or  *)
(* a request is sent.                                                      *)
LEMMA PageStepCases ==
    ASSUME SettingsInv, NEW r \in Slots, PageStep(r)
    PROVE  \/ \E i \in Inputs : SetDraft(r, i[1], i[2])
           \/ /\ page' = [page EXCEPT ![r] = ApplyResponse(page[r].items)]
              /\ UNCHANGED <<fileVars, req, given>>
           \/ \E p : /\ Request(r, p, "page")
                     /\ \/ p \in {Nothing, BuildPayload(page[r])} /\ given' = given
                        \/ \E f \in Fields : p = [k \in {f} |-> Clear] /\ Give(f, Clear)
<1>1. ASSUME ResetAll(r)
      PROVE  /\ page' = [page EXCEPT ![r] = ApplyResponse(page[r].items)]
             /\ UNCHANGED <<fileVars, req, given>>
  <2>1. page \in [Slots -> PageType]
    BY DEF SettingsInv, TypeInv
  <2>2. QED
    BY <1>1, <2>1 DEF ResetAll
<1>2. LoadPage(r) \/ Save(r) =>
         \E p \in {Nothing, BuildPayload(page[r])} : Request(r, p, "page") /\ given' = given
  BY DEF LoadPage, Save
<1>3. \A f \in Fields : ClearField(r, f) =>
         Request(r, [k \in {f} |-> Clear], "page") /\ Give(f, Clear)
  BY DEF ClearField
<1>4. QED
  BY <1>1, <1>2, <1>3 DEF PageStep

(* The draft of one page gets one more value.                              *)
LEMMA SetDraftEffect ==
    ASSUME SettingsInv, NEW r \in Slots, NEW f, NEW value, SetDraft(r, f, value)
    PROVE  /\ UNCHANGED <<file, intended, raced, mixed, req>>
           /\ \A s \in Slots \ {r} : page'[s] = page[s]
           /\ page'[r].items = page[r].items
           /\ DOMAIN page'[r].draft = DOMAIN page[r].draft
           /\ page'[r].draft[f] = value
           /\ \A k \in DOMAIN page[r].draft \ {f} : page'[r].draft[k] = page[r].draft[k]
           /\ f \in DOMAIN page[r].items /\ DOMAIN page[r].draft = DOMAIN page[r].items
<1> DEFINE draft == [page[r].draft EXCEPT ![f] = value]
           q == [page[r] EXCEPT !.draft = draft]
<1>1. page \in [Slots -> PageType] /\ page[r] \in PageType
  BY DEF SettingsInv, TypeInv
<1>2. page' = [page EXCEPT ![r] = q]
  BY <1>1 DEF SetDraft
<1>3. f \in DOMAIN page[r].draft /\ f \in DOMAIN page[r].items
      /\ DOMAIN page[r].draft = DOMAIN page[r].items
  BY <1>1 DEF SetDraft, PageType
<1>4. /\ DOMAIN draft = DOMAIN page[r].draft /\ draft[f] = value
      /\ \A k \in DOMAIN page[r].draft \ {f} : draft[k] = page[r].draft[k]
  BY <1>3
<1> HIDE DEF draft
<1>5. q.items = page[r].items /\ q.draft = draft
  BY <1>1 DEF PageType
<1> HIDE DEF q
<1>6. page'[r] = q /\ \A s \in Slots \ {r} : page'[s] = page[s]
  BY <1>1, <1>2
<1>7. QED
  BY <1>3, <1>4, <1>5, <1>6 DEF SetDraft, fileVars

(* What a request that is taken asks for avoids X when what was sent does. *)
LEMMA RequestStepAvoids ==
    ASSUME SettingsInv, NEW f, NEW X, Avoids(f, X), NEW r \in Slots, NEW p, NEW client,
           Request(r, p, client), f \in DOMAIN p /\ ~(f \in Secrets /\ p[f] = Mask) => p[f] \notin X
    PROVE  Avoids(f, X)'
<1>1. /\ UNCHANGED <<file, page>>
      /\ \A s \in Slots : \/ req'[s] = req[s]
                          \/ req'[s].updates = Asks(p) /\ req'[s].merged = Nothing
  BY RequestEffect
<1>2. f \in DOMAIN Asks(p) => Asks(p)[f] \notin X
  BY DEF Asks, Restrict
<1>3. DOMAIN Nothing = {}
  BY DEF Nothing
<1>4. \A s \in Slots : RequestAvoids(req'[s], f, X)
  BY <1>1, <1>2, <1>3 DEF Avoids, RequestAvoids
<1>5. QED
  BY <1>1, <1>4 DEF Avoids

LEMMA MergedAvoids ==
    ASSUME NEW raw, NEW updates, NEW f, NEW X,
           f \in DOMAIN raw => raw[f] \notin X,
           f \in DOMAIN updates => updates[f] \notin X
    PROVE  f \in DOMAIN Merged(raw, updates) => Merged(raw, updates)[f].value \notin X
<1>1. PICK m : m = Merged(raw, updates)
  OBVIOUS
<1>2. f \in DOMAIN m =>
         \/ f \in DOMAIN updates /\ m[f].value = updates[f]
         \/ f \in DOMAIN raw /\ m[f].value = raw[f]
  BY <1>1, MergedFields
<1>3. f \in DOMAIN m => m[f].value \notin X
  BY <1>2
<1>4. QED
  BY <1>1, <1>3

(* What is read for a field that avoids X, and merged from there.          *)
LEMMA ReadAvoids ==
    ASSUME NEW f, NEW X, Closed(X), Avoids(f, X), NEW r \in Slots
    PROVE  LET raw == ReadRawEnv(file)
               m   == Merged(raw, req[r].updates)
           IN  /\ f \in DOMAIN raw => raw[f] \notin X
               /\ f \in DOMAIN m => m[f].value \notin X
<1>1. PICK raw : raw = ReadRawEnv(file)
  OBVIOUS
<1>2. f \in DOMAIN raw => f \in DOMAIN file /\ raw[f] = Parse(file[f])
  BY <1>1 DEF ReadRawEnv
<1>3. f \in DOMAIN raw => raw[f] \notin X
  BY <1>2 DEF Closed, Avoids
<1>4. f \in DOMAIN req[r].updates => req[r].updates[f] \notin X
  BY DEF Avoids, RequestAvoids
<1>5. f \in DOMAIN Merged(raw, req[r].updates) => Merged(raw, req[r].updates)[f].value \notin X
  BY <1>3, <1>4, MergedAvoids
<1>6. QED
  BY <1>1, <1>3, <1>5

(* What is given for a field: it grows, and a value typed, cleared or sent *)
(* is part of it.                                                          *)
LEMMA GivenGrows ==
    ASSUME SettingsInv, [Next]_vars
    PROVE  \A f \in Fields : given[f] \subseteq given'[f]
<1>1. DOMAIN given = Fields
  BY DEF SettingsInv, TypeInv
<1>2. \A k \in Fields : \A v : Give(k, v) => \A f \in Fields : given[f] \subseteq given'[f]
  BY <1>1 DEF Give
<1>3. ASSUME NEW r \in Slots, PageStep(r)
      PROVE  \A f \in Fields : given[f] \subseteq given'[f]
  <2>1. ASSUME NEW i \in Inputs, SetDraft(r, i[1], i[2])
        PROVE  \A f \in Fields : given[f] \subseteq given'[f]
    <3>1. PICK k, v : k = i[1] /\ v = i[2]
      OBVIOUS
    <3>2. SetDraft(r, k, v)
      BY <2>1, <3>1
    <3>3. given' = [given EXCEPT ![k] = @ \cup {v}]
      BY <3>2 DEF SetDraft, Give
    <3>4. QED
      BY <1>1, <3>3
  <2>2. QED
    BY <1>2, <1>3, <2>1, PageStepCases
<1>4. ASSUME NEW r \in Slots, NEW p \in Payloads, OtherClient(r, p)
      PROVE  \A f \in Fields : given[f] \subseteq given'[f]
  BY <1>4 DEF OtherClient
<1>5. CASE \/ UNCHANGED vars \/ Restart \/ Finished
           \/ \E r \in Slots : ReadAndMerge(r) \/ Truncate(r) \/ WriteText(r) \/ Load(r)
  BY <1>5 DEF vars, Restart, Finished, ReadAndMerge, Truncate, WriteText, Load
<1>6. QED
  BY <1>3, <1>4, <1>5 DEF Next

(* A field goes on avoiding X if nothing of X is given for it, or given at *)
(* all.                                                                    *)
LEMMA PageStepAvoids ==
    ASSUME SettingsAssumption, SettingsInv, NEW f \in Fields, NEW X, Closed(X), Avoids(f, X),
           NEW w, w = given'[f], X \cap w = {} \/ OutsideAvoids(X),
           NEW r \in Slots, PageStep(r)
    PROVE  Avoids(f, X)'
<1>1. page[r] \in PageType /\ DOMAIN given = Fields
  BY DEF SettingsInv, TypeInv
<1>2. ASSUME NEW i \in Inputs, SetDraft(r, i[1], i[2])
      PROVE  Avoids(f, X)'
  <2>1. PICK k, v : k = i[1] /\ v = i[2]
    OBVIOUS
  <2>2. SetDraft(r, k, v)
    BY <1>2, <2>1
  <2>3. f = k => v \notin X
    <3>1. given' = [given EXCEPT ![k] = @ \cup {v}]
      BY <2>2 DEF SetDraft, Give
    <3>2. f = k => v \in w
      BY <1>1, <3>1
    <3>3. OutsideAvoids(X) => v \notin X
      BY <2>1 DEF OutsideAvoids
    <3>4. QED
      BY <3>2, <3>3
  <2>4. PICK p, q : p = page[r] /\ q = page'[r]
    OBVIOUS
  <2>5. /\ UNCHANGED <<file, req>>
        /\ \A s \in Slots \ {r} : page'[s] = page[s]
        /\ q.items = p.items /\ DOMAIN q.draft = DOMAIN p.draft /\ q.draft[k] = v
        /\ \A x \in DOMAIN p.draft \ {k} : q.draft[x] = p.draft[x]
    BY <2>2, <2>4, SetDraftEffect, ZenonT(40)
  <2>6. PageAvoids(p, f, X)
    BY <2>4 DEF Avoids
  <2>7. PageAvoids(q, f, X)
    BY <2>3, <2>5, <2>6 DEF PageAvoids, InitialDraftValue, Masked
  <2>8. \A s \in Slots : PageAvoids(page'[s], f, X)
    BY <2>4, <2>5, <2>7 DEF Avoids
  <2>9. QED
    BY <2>5, <2>8 DEF Avoids
<1>3. ASSUME page' = [page EXCEPT ![r] = ApplyResponse(page[r].items)],
             UNCHANGED <<fileVars, req, given>>
      PROVE  Avoids(f, X)'
  <2>1. /\ page'[r] = ApplyResponse(page[r].items)
        /\ \A s \in Slots \ {r} : page'[s] = page[s]
    BY <1>3 DEF SettingsInv, TypeInv
  <2>2. PageAvoids(page'[r], f, X)
    BY <2>1, ResponseAvoids
  <2>3. \A s \in Slots : PageAvoids(page'[s], f, X)
    BY <2>1, <2>2 DEF Avoids
  <2>4. QED
    BY <1>3, <2>3 DEF Avoids, fileVars
<1>4. ASSUME Request(r, Nothing, "page")
      PROVE  Avoids(f, X)'
  <2>1. f \notin DOMAIN Nothing
    BY DEF Nothing
  <2>2. QED
    BY <1>4, <2>1, RequestStepAvoids
<1>5. ASSUME Request(r, BuildPayload(page[r]), "page")
      PROVE  Avoids(f, X)'
  <2>1. PageAvoids(page[r], f, X)
    BY DEF Avoids
  <2>2. f \in DOMAIN BuildPayload(page[r]) => BuildPayload(page[r])[f] \notin X
    BY <2>1, SentWasTyped DEF PageAvoids
  <2>3. QED
    BY <1>5, <2>2, RequestStepAvoids
<1>6. ASSUME NEW k \in Fields, NEW p, p = [x \in {k} |-> Clear], Request(r, p, "page")
      PROVE  Avoids(f, X)'
  <2>1. f \in DOMAIN p => p[f] \notin X
    BY <1>6 DEF Closed
  <2>2. QED
    BY <1>6, <2>1, RequestStepAvoids
<1>7. QED
  BY <1>2, <1>3, <1>4, <1>5, <1>6, PageStepCases

LEMMA AvoidsStep ==
    ASSUME SettingsAssumption, SettingsInv, NEW f \in Fields, NEW X, Closed(X), Avoids(f, X),
           X \cap given'[f] = {} \/ OutsideAvoids(X), [Next]_vars
    PROVE  Avoids(f, X)'
<1>1. CASE UNCHANGED vars
  BY <1>1 DEF vars, fileVars, Avoids
<1>2. RequestAvoids(Idle, f, X) /\ DOMAIN Nothing = {}
  BY DEF RequestAvoids, Idle, Nothing
<1>3. PICK w : w = given'[f]
  OBVIOUS
<1>4. ASSUME NEW r \in Slots, PageStep(r)
      PROVE  Avoids(f, X)'
  BY <1>3, <1>4, PageStepAvoids
<1>5. ASSUME NEW r \in Slots, NEW p \in Payloads, OtherClient(r, p)
      PROVE  Avoids(f, X)'
  <2>1. given' = [k \in Fields |->
                    given[k] \cup (IF k \notin DOMAIN p \/ p[k] = Mask THEN {} ELSE {p[k]})]
    BY <1>5 DEF OtherClient
  <2>2. f \in DOMAIN p /\ p[f] # Mask => p[f] \in w
    BY <1>3, <2>1
  <2>3. OutsideAvoids(X) /\ f \in DOMAIN p => p[f] \notin X
    BY DEF OutsideAvoids
  <2>4. f \in DOMAIN p => p[f] \notin X
    BY <1>3, <2>2, <2>3 DEF Closed
  <2>5. QED
    BY <1>5, <2>4, RequestStepAvoids DEF OtherClient
<1>6. ASSUME NEW r \in Slots, ReadAndMerge(r)
      PROVE  Avoids(f, X)'
  <2>1. PICK m : m = Merged(ReadRawEnv(file), req[r].updates)
    OBVIOUS
  <2>2. /\ UNCHANGED <<file, page>>
        /\ \A s \in Slots \ {r} : req'[s] = req[s]
        /\ \/ req'[r] = Idle
           \/ req'[r].updates = req[r].updates /\ req'[r].merged = m
    BY <1>6, <2>1, ReadAndMergeEffect
  <2>3. RequestAvoids(req[r], f, X) /\ (f \in DOMAIN m => m[f].value \notin X)
    BY <2>1, ReadAvoids DEF Avoids
  <2>4. RequestAvoids(req'[r], f, X)
    BY <1>2, <2>2, <2>3 DEF RequestAvoids
  <2>5. \A s \in Slots : RequestAvoids(req'[s], f, X)
    BY <2>2, <2>4 DEF Avoids
  <2>6. QED
    BY <2>2, <2>5 DEF Avoids
<1>7. ASSUME NEW r \in Slots, Truncate(r)
      PROVE  Avoids(f, X)'
  <2>1. /\ file' = Nothing /\ page' = page
        /\ \A s \in Slots : req'[s].updates = req[s].updates /\ req'[s].merged = req[s].merged
    BY <1>7, OutdateEffect DEF Truncate
  <2>2. \A s \in Slots : RequestAvoids(req'[s], f, X)
    BY <2>1 DEF Avoids, RequestAvoids
  <2>3. QED
    BY <1>2, <2>1, <2>2 DEF Avoids
<1>8. ASSUME NEW r \in Slots, WriteText(r)
      PROVE  Avoids(f, X)'
  <2>1. /\ page' = page
        /\ \A s \in Slots : req'[s].updates = req[s].updates /\ req'[s].merged = req[s].merged
    BY <1>8, OutdateEffect DEF WriteText
  <2>2. \A s \in Slots : RequestAvoids(req'[s], f, X)
    BY <2>1 DEF Avoids, RequestAvoids
  <2> DEFINE text == MergeText(req[r].merged)
  <2>3. PICK tail \in SUBSET DOMAIN file :
           file' = [k \in DOMAIN text \cup tail |-> IF k \in tail THEN file[k] ELSE text[k]]
    BY <1>8 DEF WriteText
  <2>4. f \in DOMAIN text => text[f].value \notin X
    BY DEF MergeText, Restrict, Avoids, RequestAvoids
  <2> HIDE DEF text
  <2>5. f \in DOMAIN file' => file'[f].value \notin X
    BY <2>3, <2>4 DEF Avoids
  <2>6. QED
    BY <2>1, <2>2, <2>5 DEF Avoids
<1>9. ASSUME NEW r \in Slots, Load(r)
      PROVE  Avoids(f, X)'
  <2>1. PICK items : page' \in {page, [page EXCEPT ![r] = ApplyResponse(items)]}
    BY <1>9 DEF Load
  <2>2. \A s \in Slots : PageAvoids(page'[s], f, X)
    <3>1. \A s \in Slots : page'[s] \in {page[s], ApplyResponse(items)}
      BY <2>1 DEF SettingsInv, TypeInv
    <3>2. QED
      BY <3>1, ResponseAvoids DEF Avoids
  <2>3. req' = [req EXCEPT ![r] = Idle] /\ file' = file
    BY <1>9 DEF Load, fileVars
  <2>4. \A s \in Slots : RequestAvoids(req'[s], f, X)
    BY <1>2, <2>3 DEF Avoids, SettingsInv, TypeInv
  <2>5. QED
    BY <2>2, <2>3, <2>4 DEF Avoids
<1>10. CASE Restart
  BY <1>2, <1>10 DEF Restart, Avoids
<1>11. CASE Finished
  BY <1>1, <1>11 DEF Finished
<1>12. QED
  BY <1>1, <1>4, <1>5, <1>6, <1>7, <1>8, <1>9, <1>10, <1>11 DEF Next

LEMMA SettingsAlways == Spec => []SettingsInv
<1>1. Init => SettingsInv
  BY SettingsAssumption, InitInv
<1>2. SettingsInv /\ [Next]_vars => SettingsInv'
  BY SettingsAssumption, NextInv
<1>3. QED
  BY <1>1, <1>2, PTL DEF Spec

LEMMA AvoidsInit ==
    ASSUME Init, NEW f, NEW X, f \in DOMAIN file => file[f].value \notin X
    PROVE  Avoids(f, X)
<1>1. RequestAvoids(Idle, f, X)
  BY DEF RequestAvoids, Idle, Nothing
<1>2. \A r \in Slots : req[r] = Idle /\ page[r] = ApplyResponse(Shown(ReadRawEnv(file)))
  BY DEF Init
<1>3. QED
  BY <1>1, <1>2, ResponseAvoids DEF Avoids

(* If nobody gives a value of X there is none anywhere.                    *)
LEMMA AllAvoidInit ==
    ASSUME Init, NEW X, OutsideAvoids(X)
    PROVE  AllAvoid(X)
BY AvoidsInit DEF Init, OutsideAvoids, AllAvoid

LEMMA AllAvoidStep ==
    ASSUME SettingsInv, NEW X, Closed(X), OutsideAvoids(X), AllAvoid(X), [Next]_vars
    PROVE  AllAvoid(X)'
BY SettingsAssumption, AvoidsStep DEF AllAvoid

(* If nobody gave f a value of X it has none.                              *)
NoneGiven(f, X) == X \cap given[f] = {} => Avoids(f, X)

LEMMA NoneGivenInit ==
    ASSUME Init, NEW f \in Fields, NEW X, \A text : text.value \in X => Parse(text) \in X
    PROVE  NoneGiven(f, X)
<1>1. SUFFICES ASSUME X \cap given[f] = {}, f \in DOMAIN file
               PROVE  file[f].value \notin X
  BY AvoidsInit DEF NoneGiven
<1>2. given[f] = {Parse(file[f])}
  BY <1>1 DEF Init
<1>3. QED
  BY <1>1, <1>2

LEMMA NoneGivenStep ==
    ASSUME SettingsInv, NEW f \in Fields, NEW X, Closed(X), NoneGiven(f, X), [Next]_vars
    PROVE  NoneGiven(f, X)'
<1>1. SUFFICES ASSUME X \cap given'[f] = {} PROVE Avoids(f, X)'
  BY DEF NoneGiven
<1>2. Avoids(f, X)
  BY <1>1, GivenGrows DEF NoneGiven
<1>3. QED
  BY <1>1, <1>2, SettingsAssumption, AvoidsStep

-----------------------------------------------------------------------------
(* The file                                                                *)

FileValid ==
    mixed \/ Blank \cap given[Prefix] # {} \/ Valid(Texts(ReadRawEnv(file)))

(* The file is valid whoever writes last -- once it was emptied.           *)
LEMMA FileStep ==
    ASSUME SettingsInv, NoneGiven(Prefix, Blank), FileValid, [Next]_vars
    PROVE  FileValid'
<1>1. Prefix \in Fields
  BY DEF Fields
<1>2. given[Prefix] \subseteq given'[Prefix]
  BY <1>1, GivenGrows
<1>3. ASSUME UNCHANGED <<file, mixed>>
      PROVE  FileValid'
  BY <1>2, <1>3 DEF FileValid
<1>4. CASE UNCHANGED vars
  BY <1>3, <1>4 DEF vars, fileVars
<1>5. ASSUME NEW r \in Slots, PageStep(r)
      PROVE  FileValid'
  <2>1. \A p : Request(r, p, "page") => UNCHANGED <<file, mixed>>
    BY DEF Request, fileVars
  <2>2. \A i \in Inputs : SetDraft(r, i[1], i[2]) => UNCHANGED <<file, mixed>>
    BY DEF SetDraft, fileVars
  <2>3. UNCHANGED fileVars => UNCHANGED <<file, mixed>>
    BY DEF fileVars
  <2>4. QED
    BY <1>3, <1>5, <2>1, <2>2, <2>3, PageStepCases
<1>6. ASSUME NEW r \in Slots,
             (\E p \in Payloads : OtherClient(r, p)) \/ ReadAndMerge(r) \/ Load(r)
      PROVE  FileValid'
  BY <1>3, <1>6 DEF OtherClient, Request, ReadAndMerge, Load, fileVars
<1>7. ASSUME NEW r \in Slots, Truncate(r)
      PROVE  FileValid'
  BY <1>7, EmptyIsValid DEF Truncate, FileValid
<1>8. ASSUME NEW r \in Slots, WriteText(r)
      PROVE  FileValid'
  <2>1. SUFFICES ASSUME ~mixed', Blank \cap given[Prefix] = {}
                 PROVE  Valid(Texts(ReadRawEnv(file')))
    BY <1>8 DEF FileValid, WriteText
  <2>2. PICK m : m = req[r].merged
    OBVIOUS
  <2>3. m \in PartialOn(TextType) /\ Valid(m)
    BY <1>8, <2>2 DEF SettingsInv, TypeInv, HeldValid, WriteText, RequestType
  <2>4. Prefix \in DOMAIN m => m[Prefix].value \notin Blank
    BY <2>1, <2>2 DEF NoneGiven, Avoids, RequestAvoids
  <2>5. PICK text : text = MergeText(m)
    OBVIOUS
  <2>6. Valid(Texts(ReadRawEnv(text)))
    BY <2>3, <2>4, <2>5, WrittenIsValid
  <2>7. PICK tail \in SUBSET DOMAIN file :
           file' = [k \in DOMAIN text \cup tail |-> IF k \in tail THEN file[k] ELSE text[k]]
    BY <1>8, <2>2, <2>5 DEF WriteText
  <2>8. tail = {}
    BY <1>8, <2>1 DEF WriteText, Nothing
  <2>9. text = [k \in DOMAIN text |-> text[k]]
    BY <2>5 DEF MergeText, Restrict
  <2>10. file' = text
    BY <2>7, <2>8, <2>9
  <2>11. QED
    BY <2>6, <2>10
<1>9. CASE Restart
  BY <1>3, <1>9 DEF Restart
<1>10. CASE Finished
  BY <1>4, <1>10 DEF Finished
<1>11. QED
  BY <1>4, <1>5, <1>6, <1>7, <1>8, <1>9, <1>10 DEF Next

(* Whatever is typed, sent, refused, raced or stopped half way, by any     *)
(* number of threads: the file keeps its type and holds a configuration    *)
(* the bot can start with, unless two saves were written into each other   *)
(* or somebody set the prefix of commands to an empty text or to blanks,   *)
(* which is validated with the quotes that it loses when it is read.       *)
THEOREM FileAlwaysValid == Spec => []AlwaysValid
<1>1. Prefix \in Fields /\ \A text : text.value \in Blank => Parse(text) \in Blank
  BY DEF Fields, Parse, Blank
<1>2. Init => NoneGiven(Prefix, Blank)
  BY <1>1, NoneGivenInit
<1>3. SettingsInv /\ NoneGiven(Prefix, Blank) /\ [Next]_vars => NoneGiven(Prefix, Blank)'
  BY <1>1, ClosedSets, NoneGivenStep
<1>4. Init => FileValid
  BY FilesAssumption DEF Init, FileValid
<1>5. SettingsInv /\ NoneGiven(Prefix, Blank) /\ FileValid /\ [Next]_vars => FileValid'
  BY FileStep
<1>6. SettingsInv /\ FileValid => AlwaysValid
  <2>1. SUFFICES ASSUME SettingsInv, FileValid PROVE AlwaysValid
    OBVIOUS
  <2>2. DOMAIN file \subseteq Fields /\ \A f \in DOMAIN file : file[f].quoted \in BOOLEAN
    <3>1. DOMAIN file \subseteq Fields /\ \A f \in DOMAIN file : file[f] \in TextType
      BY <2>1, PartialFunction DEF SettingsInv, TypeInv
    <3>2. QED
      BY <3>1 DEF TextType
  <2>3. \A r \in Slots : req[r].at \in {"idle", "read", "empty", "write", "load"}
    BY <2>1 DEF SettingsInv, TypeInv, RequestType, Stages
  <2>4. \A r \in Slots : /\ DOMAIN page[r].items \in {{}, Fields}
                         /\ DOMAIN page[r].draft = DOMAIN page[r].items
    BY <2>1 DEF SettingsInv, TypeInv, PageType
  <2>5. TypeOK
    BY <2>1, <2>2, <2>3, <2>4 DEF SettingsInv, TypeInv, TypeOK
  <2>6. QED
    BY <2>1, <2>5 DEF FileValid, AlwaysValid
<1>7. QED
  BY <1>2, <1>3, <1>4, <1>5, <1>6, SettingsAlways, PTL DEF Spec

-----------------------------------------------------------------------------
(* What the answers tell                                                   *)

(* Somebody wanted ratios that do not fit each other.                      *)
Unfit ==
    "high" \in given["summary_keep_ratio"] /\ "low" \in given["summary_trigger_ratio"]

ToldInv == told # {} => Unfit

(* Only explicit ratios do not fit: the defaults lie as far apart as can   *)
(* be.                                                                     *)
LEMMA InputIsUnfit ==
    ASSUME NEW texts, Input(texts) # {}
    PROVE  /\ "summary_keep_ratio" \in DOMAIN texts
           /\ texts["summary_keep_ratio"].value = "high"
           /\ "summary_trigger_ratio" \in DOMAIN texts
           /\ texts["summary_trigger_ratio"].value = "low"
<1>1. FieldsValid(texts) /\ ~RatiosFit(texts)
  BY DEF Input
<1>2. /\ Ratio(texts, "summary_keep_ratio") = "high"
      /\ Ratio(texts, "summary_trigger_ratio") # "high"
  BY <1>1 DEF RatiosFit
<1>3. Default["summary_keep_ratio"] = "low" /\ Default["summary_trigger_ratio"] = "high"
  BY DEF Default
<1>4. \A f \in Ratios \cap DOMAIN texts : texts[f].value \in {"low", "high"}
  BY <1>1 DEF FieldsValid, IsNumber
<1>5. QED
  BY <1>2, <1>3, <1>4 DEF Ratio, Ratios

LEMMA ToldStep ==
    ASSUME SettingsInv, NoneGiven("summary_keep_ratio", {"high"}),
           NoneGiven("summary_trigger_ratio", {"low"}), ToldInv, [Next]_vars
    PROVE  ToldInv'
<1>1. "summary_keep_ratio" \in Fields /\ "summary_trigger_ratio" \in Fields
  BY DEF Fields, Ratios
<1>2. Unfit => Unfit'
  BY <1>1, GivenGrows DEF Unfit
<1>3. ASSUME UNCHANGED told
      PROVE  ToldInv'
  BY <1>2, <1>3 DEF ToldInv
<1>4. ASSUME NEW texts, told' = told \cup Input(texts), Input(texts) # {} => Unfit
      PROVE  ToldInv'
  BY <1>2, <1>4 DEF ToldInv
<1>5. ASSUME NEW r \in Slots, ReadAndMerge(r)
      PROVE  ToldInv'
  <2>1. PICK m : m = Merged(ReadRawEnv(file), req[r].updates)
    OBVIOUS
  <2>2. told' \in {told, told \cup Input(m)}
    BY <1>5, <2>1 DEF ReadAndMerge
  <2>3. Avoids("summary_keep_ratio", {"high"}) =>
           ("summary_keep_ratio" \in DOMAIN m => m["summary_keep_ratio"].value \notin {"high"})
    BY <2>1, ClosedSets, ReadAvoids
  <2>4. Avoids("summary_trigger_ratio", {"low"}) =>
           ("summary_trigger_ratio" \in DOMAIN m => m["summary_trigger_ratio"].value \notin {"low"})
    BY <2>1, ClosedSets, ReadAvoids
  <2>5. Input(m) # {} => Unfit
    BY <2>3, <2>4, InputIsUnfit DEF NoneGiven, Unfit
  <2>6. QED
    BY <1>3, <1>4, <2>2, <2>5
<1>6. ASSUME NEW r \in Slots, Load(r)
      PROVE  ToldInv'
  <2>1. PICK raw : raw = ReadRawEnv(file)
    OBVIOUS
  <2>2. told' \in {told, told \cup Input(Texts(raw))}
    BY <1>6, <2>1 DEF Load
  <2>3. Avoids("summary_keep_ratio", {"high"}) =>
           ("summary_keep_ratio" \in DOMAIN raw => raw["summary_keep_ratio"] \notin {"high"})
    BY <1>6, <2>1, ClosedSets, ReadAvoids
  <2>4. Avoids("summary_trigger_ratio", {"low"}) =>
           ("summary_trigger_ratio" \in DOMAIN raw => raw["summary_trigger_ratio"] \notin {"low"})
    BY <1>6, <2>1, ClosedSets, ReadAvoids
  <2>5. DOMAIN Texts(raw) = DOMAIN raw /\ \A f \in DOMAIN raw : Texts(raw)[f].value = raw[f]
    BY DEF Texts, Bare, Text
  <2>6. Input(Texts(raw)) # {} => Unfit
    BY <2>3, <2>4, <2>5, InputIsUnfit DEF NoneGiven, Unfit
  <2>7. QED
    BY <1>3, <1>4, <2>2, <2>6
<1>7. ASSUME NEW r \in Slots, PageStep(r)
      PROVE  ToldInv'
  BY <1>3, <1>7 DEF PageStep, SetDraft, ResetAll, LoadPage, Save, ClearField, Request
<1>8. CASE \/ UNCHANGED vars \/ Restart \/ Finished
           \/ \E r \in Slots : \/ \E p \in Payloads : OtherClient(r, p)
                               \/ Truncate(r) \/ WriteText(r)
  BY <1>3, <1>8 DEF vars, Restart, Finished, OtherClient, Request, Truncate, WriteText
<1>9. QED
  BY <1>5, <1>6, <1>7, <1>8 DEF Next

(* The two ratios are not what nobody wanted, and what was told was wanted *)
(* so.                                                                     *)
ToldIInv ==
    /\ NoneGiven("summary_keep_ratio", {"high"})
    /\ NoneGiven("summary_trigger_ratio", {"low"})
    /\ ToldInv

LEMMA ToldAlways == Spec => []ToldInv
<1>1. "summary_keep_ratio" \in Fields /\ "summary_trigger_ratio" \in Fields
  BY DEF Fields, Ratios
<1>2. Init => ToldIInv
  <2>1. /\ \A text : text.value \in {"high"} => Parse(text) \in {"high"}
        /\ \A text : text.value \in {"low"} => Parse(text) \in {"low"}
    BY DEF Parse
  <2>2. Init => ToldInv
    BY DEF Init, ToldInv
  <2>3. QED
    BY <1>1, <2>1, <2>2, NoneGivenInit DEF ToldIInv
<1>3. SettingsInv /\ ToldIInv /\ [Next]_vars => ToldIInv'
  BY <1>1, ClosedSets, NoneGivenStep, ToldStep DEF ToldIInv
<1>4. ToldIInv => ToldInv
  BY DEF ToldIInv
<1>5. QED
  BY <1>2, <1>3, <1>4, SettingsAlways, PTL DEF Spec

-----------------------------------------------------------------------------
(* Where the secrets come from                                             *)

(* Neither the mask nor the word for clearing a field is a secret.         *)
NoMaskInFiles ==
    \A F \in Files : \A f \in Secrets \cap DOMAIN F : F[f].value \notin {Mask, Clear}

RequestTraced(q, f, w) ==
    /\ f \in DOMAIN q.updates => q.updates[f] # Mask /\ q.updates[f] \in w
    /\ f \in DOMAIN q.merged => q.merged[f].value \in w \ {Mask, Clear}

PageTraced(p, f, w) ==
    f \in DOMAIN p.items =>
       /\ p.items[f] \in {"", Mask}
       /\ p.draft[f] = InitialDraftValue(p.items, f) \/ p.draft[f] \in w

TracedFor(f) ==
    /\ f \in DOMAIN file => file[f].value \in given[f] \ {Mask, Clear}
    /\ \A r \in Slots : RequestTraced(req[r], f, given[f]) /\ PageTraced(page[r], f, given[f])

Traced == \A f \in Secrets : TracedFor(f)

LEMMA ShownTraced ==
    ASSUME NEW raw, NEW f \in Secrets, NEW w
    PROVE  PageTraced(ApplyResponse(Shown(raw)), f, w)
<1>1. f \in DOMAIN Shown(raw) => Shown(raw)[f] \in {"", Mask}
  BY DEF Shown, Serialize, Nothing
<1>2. PICK items : items = Shown(raw)
  OBVIOUS
<1>3. f \in DOMAIN items => items[f] \in {"", Mask}
  BY <1>1, <1>2
<1>4. PageTraced(ApplyResponse(items), f, w)
  BY <1>3 DEF PageTraced, ApplyResponse
<1>5. QED
  BY <1>2, <1>4

LEMMA ResetTraced ==
    ASSUME NEW p, NEW f, NEW w, PageTraced(p, f, w)
    PROVE  PageTraced(ApplyResponse(p.items), f, w)
BY DEF PageTraced, ApplyResponse

(* More is wanted, and nothing else happens to the field.                  *)
LEMMA TracedGrows ==
    ASSUME NEW f, TracedFor(f), NEW w, w = given'[f], given[f] \subseteq w, UNCHANGED file,
           \A r \in Slots : \/ req'[r] = req[r]
                            \/ RequestTraced(req'[r], f, w),
           \A r \in Slots : \/ page'[r] = page[r]
                            \/ PageTraced(page'[r], f, w)
    PROVE  TracedFor(f)'
<1>1. \A q : RequestTraced(q, f, given[f]) => RequestTraced(q, f, w)
  BY DEF RequestTraced
<1>2. \A p : PageTraced(p, f, given[f]) => PageTraced(p, f, w)
  BY DEF PageTraced
<1>3. \A r \in Slots : RequestTraced(req'[r], f, w) /\ PageTraced(page'[r], f, w)
  BY <1>1, <1>2 DEF TracedFor
<1>4. f \in DOMAIN file => file[f].value \in w \ {Mask, Clear}
  BY DEF TracedFor
<1>5. QED
  BY <1>3, <1>4 DEF TracedFor

LEMMA RequestStepTraced ==
    ASSUME SettingsInv, NEW f \in Secrets, TracedFor(f), NEW r \in Slots, NEW p, NEW client,
           Request(r, p, client), NEW w, w = given'[f], given[f] \subseteq w,
           f \in DOMAIN p /\ p[f] # Mask => p[f] \in w
    PROVE  TracedFor(f)'
<1>1. /\ UNCHANGED <<file, page>>
      /\ \A s \in Slots : \/ req'[s] = req[s]
                          \/ req'[s].updates = Asks(p) /\ req'[s].merged = Nothing
  BY RequestEffect
<1>2. f \in DOMAIN Asks(p) => Asks(p)[f] # Mask /\ Asks(p)[f] \in w
  BY AskedFields
<1>3. DOMAIN Nothing = {}
  BY DEF Nothing
<1>4. \A s \in Slots : req'[s] = req[s] \/ RequestTraced(req'[s], f, w)
  BY <1>1, <1>2, <1>3 DEF RequestTraced
<1>5. QED
  BY <1>1, <1>4, TracedGrows

LEMMA MergedTraced ==
    ASSUME NEW raw, NEW updates, NEW f, NEW w,
           f \in DOMAIN raw => raw[f] \in w \ {Mask, Clear},
           f \in DOMAIN updates => updates[f] # Mask /\ updates[f] \in w
    PROVE  f \in DOMAIN Merged(raw, updates) => Merged(raw, updates)[f].value \in w \ {Mask, Clear}
<1>1. PICK m : m = Merged(raw, updates)
  OBVIOUS
<1>2. f \in DOMAIN m => \/ /\ f \in DOMAIN updates /\ updates[f] # Clear
                           /\ m[f].value = updates[f]
                        \/ f \in DOMAIN raw /\ m[f].value = raw[f]
  BY <1>1, MergedFields
<1>3. f \in DOMAIN m => m[f].value \in w \ {Mask, Clear}
  BY <1>2
<1>4. QED
  BY <1>1, <1>3

LEMMA PageStepTraced ==
    ASSUME SettingsInv, NEW f \in Secrets, TracedFor(f), NEW r \in Slots, PageStep(r)
    PROVE  TracedFor(f)'
<1>1. DOMAIN given = Fields /\ f \in Fields /\ page[r] \in PageType
  BY DEF SettingsInv, TypeInv, Fields
<1>2. ASSUME NEW k \in Fields, NEW v, Give(k, v)
      PROVE  given[f] \subseteq given'[f] /\ (f = k => v \in given'[f])
  BY <1>1, <1>2 DEF Give
<1>3. ASSUME NEW i \in Inputs, SetDraft(r, i[1], i[2])
      PROVE  TracedFor(f)'
  <2>1. PICK k, v : k = i[1] /\ v = i[2]
    OBVIOUS
  <2>2. SetDraft(r, k, v)
    BY <1>3, <2>1
  <2>3. PICK p, q, w : p = page[r] /\ q = page'[r] /\ w = given'[f]
    OBVIOUS
  <2>4. /\ UNCHANGED <<file, req>> /\ k \in Fields
        /\ \A s \in Slots \ {r} : page'[s] = page[s]
        /\ q.items = p.items /\ DOMAIN q.draft = DOMAIN p.draft /\ q.draft[k] = v
        /\ DOMAIN p.draft = DOMAIN p.items
        /\ \A x \in DOMAIN p.draft \ {k} : q.draft[x] = p.draft[x]
    <3>1. DOMAIN page[r].items \subseteq Fields
      BY <1>1, PartialFunction DEF PageType
    <3>2. k \in DOMAIN page[r].items /\ DOMAIN page[r].draft = DOMAIN page[r].items
      BY <2>2, SetDraftEffect
    <3>3. /\ UNCHANGED <<file, req>>
          /\ \A s \in Slots \ {r} : page'[s] = page[s]
          /\ q.items = p.items /\ DOMAIN q.draft = DOMAIN p.draft /\ q.draft[k] = v
          /\ \A x \in DOMAIN p.draft \ {k} : q.draft[x] = p.draft[x]
      BY <2>2, <2>3, SetDraftEffect
    <3>4. QED
      BY <2>3, <3>1, <3>2, <3>3
  <2>5. given[f] \subseteq w /\ (f = k => v \in w)
    BY <1>2, <2>2, <2>3, <2>4 DEF SetDraft
  <2>6. PageTraced(p, f, given[f])
    BY <2>3 DEF TracedFor
  <2>7. PageTraced(q, f, w)
    BY <2>4, <2>5, <2>6 DEF PageTraced, InitialDraftValue, Masked
  <2>8. QED
    BY <2>3, <2>4, <2>5, <2>7, TracedGrows
<1>4. ASSUME page' = [page EXCEPT ![r] = ApplyResponse(page[r].items)],
             UNCHANGED <<fileVars, req, given>>
      PROVE  TracedFor(f)'
  <2>1. /\ page'[r] = ApplyResponse(page[r].items)
        /\ \A s \in Slots \ {r} : page'[s] = page[s]
    BY <1>4 DEF SettingsInv, TypeInv
  <2>2. PageTraced(page'[r], f, given[f])
    BY <2>1, ResetTraced DEF TracedFor
  <2>3. PICK w : w = given'[f]
    OBVIOUS
  <2>4. w = given[f] /\ file' = file /\ req' = req
    BY <1>4, <2>3 DEF fileVars
  <2>5. QED
    BY <2>1, <2>2, <2>3, <2>4, TracedGrows
<1>5. ASSUME Request(r, Nothing, "page"), given' = given
      PROVE  TracedFor(f)'
  <2>1. PICK w : w = given'[f]
    OBVIOUS
  <2>2. f \notin DOMAIN Nothing /\ w = given[f]
    BY <1>5, <2>1 DEF Nothing
  <2>3. QED
    BY <1>5, <2>1, <2>2, RequestStepTraced
<1>6. ASSUME Request(r, BuildPayload(page[r]), "page"), given' = given
      PROVE  TracedFor(f)'
  <2>1. PICK w, p : w = given'[f] /\ p = page[r]
    OBVIOUS
  <2>2. PageTraced(p, f, w) /\ w = given[f]
    BY <1>6, <2>1 DEF TracedFor
  <2>3. DOMAIN p.draft = DOMAIN p.items
    BY <1>1, <2>1 DEF PageType
  <2>4. f \in DOMAIN BuildPayload(p) => BuildPayload(p)[f] \in w
    BY <2>2, <2>3, SentWasTyped DEF PageTraced
  <2>5. Request(r, BuildPayload(p), "page")
    BY <1>6, <2>1
  <2>6. QED
    BY <2>1, <2>2, <2>4, <2>5, RequestStepTraced
<1>7. ASSUME NEW k \in Fields, NEW p, p = [x \in {k} |-> Clear], Request(r, p, "page"),
             Give(k, Clear)
      PROVE  TracedFor(f)'
  <2>1. PICK w : w = given'[f]
    OBVIOUS
  <2>2. given[f] \subseteq w /\ (f = k => Clear \in w)
    BY <1>2, <1>7, <2>1
  <2>3. f \in DOMAIN p => f = k /\ p[f] = Clear
    BY <1>7
  <2>4. f \in DOMAIN p /\ p[f] # Mask => p[f] \in w
    BY <2>2, <2>3
  <2>5. QED
    BY <1>7, <2>1, <2>2, <2>4, RequestStepTraced
<1>8. QED
  BY <1>3, <1>4, <1>5, <1>6, <1>7, PageStepCases

LEMMA TracedStep ==
    ASSUME SettingsInv, NEW f \in Secrets, Avoids(f, Cut), TracedFor(f), [Next]_vars
    PROVE  TracedFor(f)'
<1>1. CASE UNCHANGED vars
  BY <1>1 DEF vars, fileVars, TracedFor
<1>2. \A w : RequestTraced(Idle, f, w)
  BY DEF RequestTraced, Idle, Nothing
<1>3. ASSUME NEW r \in Slots, PageStep(r)
      PROVE  TracedFor(f)'
  BY <1>3, PageStepTraced
<1>4. ASSUME NEW r \in Slots, NEW p \in Payloads, OtherClient(r, p)
      PROVE  TracedFor(f)'
  <2>1. PICK w : w = given'[f]
    OBVIOUS
  <2>2. f \in Fields
    BY DEF Fields
  <2>3. given[f] \subseteq w /\ (f \in DOMAIN p /\ p[f] # Mask => p[f] \in w)
    BY <1>4, <2>1, <2>2 DEF OtherClient
  <2>4. Request(r, p, "other")
    BY <1>4 DEF OtherClient
  <2>5. QED
    BY <2>1, <2>3, <2>4, RequestStepTraced
<1>5. ASSUME NEW r \in Slots, ReadAndMerge(r)
      PROVE  TracedFor(f)'
  <2>1. PICK raw, m, w : /\ raw = ReadRawEnv(file) /\ m = Merged(raw, req[r].updates)
                         /\ w = given'[f]
    OBVIOUS
  <2>2. /\ UNCHANGED <<file, page>> /\ w = given[f]
        /\ \A s \in Slots \ {r} : req'[s] = req[s]
        /\ \/ req'[r] = Idle
           \/ req'[r].updates = req[r].updates /\ req'[r].merged = m
    BY <1>5, <2>1, ReadAndMergeEffect
  <2>3. f \in DOMAIN raw => raw[f] \in w \ {Mask, Clear}
    BY <2>1, <2>2, BareReadsBack DEF ReadRawEnv, Avoids, TracedFor
  <2>4. RequestTraced(req[r], f, w)
    BY <2>2 DEF TracedFor
  <2>5. f \in DOMAIN m => m[f].value \in w \ {Mask, Clear}
    BY <2>1, <2>3, <2>4, MergedTraced DEF RequestTraced
  <2>6. RequestTraced(req'[r], f, w)
    BY <1>2, <2>2, <2>4, <2>5 DEF RequestTraced
  <2>7. QED
    BY <2>1, <2>2, <2>6, TracedGrows
<1>6. ASSUME NEW r \in Slots, Truncate(r)
      PROVE  TracedFor(f)'
  <2>1. /\ file' = Nothing /\ page' = page /\ given' = given
        /\ \A s \in Slots : req'[s].updates = req[s].updates /\ req'[s].merged = req[s].merged
    BY <1>6, OutdateEffect DEF Truncate
  <2>2. \A s \in Slots : RequestTraced(req'[s], f, given[f])
    BY <2>1 DEF TracedFor, RequestTraced
  <2>3. f \notin DOMAIN Nothing
    BY DEF Nothing
  <2>4. QED
    BY <2>1, <2>2, <2>3 DEF TracedFor
<1>7. ASSUME NEW r \in Slots, WriteText(r)
      PROVE  TracedFor(f)'
  <2>1. /\ page' = page /\ given' = given
        /\ \A s \in Slots : req'[s].updates = req[s].updates /\ req'[s].merged = req[s].merged
    BY <1>7, OutdateEffect DEF WriteText
  <2>2. \A s \in Slots : RequestTraced(req'[s], f, given[f])
    BY <2>1 DEF TracedFor, RequestTraced
  <2> DEFINE text == MergeText(req[r].merged)
  <2>3. PICK tail \in SUBSET DOMAIN file :
           file' = [k \in DOMAIN text \cup tail |-> IF k \in tail THEN file[k] ELSE text[k]]
    BY <1>7 DEF WriteText
  <2>4. f \in DOMAIN text => text[f].value \in given[f] \ {Mask, Clear}
    BY DEF MergeText, Restrict, TracedFor, RequestTraced
  <2> HIDE DEF text
  <2>5. f \in DOMAIN file' => file'[f].value \in given[f] \ {Mask, Clear}
    BY <2>3, <2>4 DEF TracedFor
  <2>6. QED
    BY <2>1, <2>2, <2>5 DEF TracedFor
<1>8. ASSUME NEW r \in Slots, Load(r)
      PROVE  TracedFor(f)'
  <2>1. PICK w : w = given'[f]
    OBVIOUS
  <2>2. /\ req' = [req EXCEPT ![r] = Idle] /\ file' = file /\ w = given[f]
        /\ page' \in {page, [page EXCEPT ![r] = ApplyResponse(Shown(ReadRawEnv(file)))]}
    BY <1>8, <2>1 DEF Load, fileVars
  <2>3. \A s \in Slots : page'[s] = page[s] \/ PageTraced(page'[s], f, w)
    <3>1. PICK raw : raw = ReadRawEnv(file)
      OBVIOUS
    <3>2. PageTraced(ApplyResponse(Shown(raw)), f, w)
      BY ShownTraced
    <3>3. \A s \in Slots : page'[s] \in {page[s], ApplyResponse(Shown(raw))}
      BY <2>2, <3>1 DEF SettingsInv, TypeInv
    <3>4. QED
      BY <3>2, <3>3
  <2>4. \A s \in Slots : req'[s] = req[s] \/ RequestTraced(req'[s], f, w)
    BY <1>2, <2>2 DEF SettingsInv, TypeInv
  <2>5. QED
    BY <2>1, <2>2, <2>3, <2>4, TracedGrows
<1>9. CASE Restart
  BY <1>2, <1>9 DEF Restart, TracedFor
<1>10. CASE Finished
  BY <1>1, <1>10 DEF Finished
<1>11. QED
  BY <1>1, <1>3, <1>4, <1>5, <1>6, <1>7, <1>8, <1>9, <1>10 DEF Next

-----------------------------------------------------------------------------
(* Without a race nothing is lost                                          *)

SomebodyWrites == \E r \in Slots : req[r].at = "write"

(* What a request holds that read the file while nobody wrote, and has not *)
(* been outdated.                                                          *)
HoldsFresh(r) == req[r].at \in {"empty", "write"} /\ req[r].fresh

KeptFor(f) ==
    \/ raced \/ {"", Clear} \cap given[f] # {}
    \/ /\ f \in DOMAIN file \/ SomebodyWrites
       /\ \A r \in Slots : HoldsFresh(r) => f \in DOMAIN req[r].merged

Composed ==
    raced \/ /\ \A f \in DOMAIN intended : intended[f] \notin Unstable
             /\ \A r \in Slots : HoldsFresh(r) =>
                   req[r].merged = Merged(intended, req[r].updates)
             /\ SomebodyWrites \/ ReadRawEnv(file) = intended

(* A step that writes nothing, and after which nobody holds more.          *)
LEMMA NobodyHoldsMore ==
    ASSUME SettingsInv, Next, UNCHANGED <<file, intended, raced>>,
           \A s \in Slots : \/ req'[s] = req[s]
                            \/ req[s].at \notin {"empty", "write"}
                               /\ req'[s].at \notin {"empty", "write"}
    PROVE  /\ \A f \in Secrets : KeptFor(f) /\ given[f] \subseteq given'[f] => KeptFor(f)'
           /\ Composed => Composed'
<1>1. SomebodyWrites => SomebodyWrites'
  BY DEF SomebodyWrites
<1>2. \A s \in Slots : HoldsFresh(s)' => HoldsFresh(s) /\ req'[s] = req[s]
  BY DEF HoldsFresh
<1>3. QED
  BY <1>1, <1>2 DEF KeptFor, Composed

(* A page asks, or another client.                                         *)
LEMMA AskingHoldsNothing ==
    ASSUME SettingsInv, NEW r \in Slots,
           PageStep(r) \/ \E p \in Payloads : OtherClient(r, p)
    PROVE  /\ UNCHANGED <<file, intended, raced>>
           /\ \A s \in Slots : \/ req'[s] = req[s]
                               \/ req[s].at \notin {"empty", "write"}
                                  /\ req'[s].at \notin {"empty", "write"}
           /\ \A f \in Fields : given[f] \subseteq given'[f]
<1>1. DOMAIN given = Fields
  BY DEF SettingsInv, TypeInv
<1>2. ASSUME NEW p, NEW client, Request(r, p, client)
      PROVE  /\ UNCHANGED <<file, intended, raced>>
             /\ \A s \in Slots : \/ req'[s] = req[s]
                                 \/ req[s].at \notin {"empty", "write"}
                                    /\ req'[s].at \notin {"empty", "write"}
  BY <1>2, RequestEffect
<1>3. \A k \in Fields : \A v : Give(k, v) => \A f \in Fields : given[f] \subseteq given'[f]
  BY <1>1 DEF Give
<1>4. ASSUME NEW i \in Inputs, SetDraft(r, i[1], i[2])
      PROVE  /\ UNCHANGED <<file, intended, raced, req>>
             /\ \A f \in Fields : given[f] \subseteq given'[f]
  <2>1. PICK k, v : k = i[1] /\ v = i[2]
    OBVIOUS
  <2>2. SetDraft(r, k, v)
    BY <1>4, <2>1
  <2>3. given' = [given EXCEPT ![k] = @ \cup {v}]
    BY <2>2 DEF SetDraft, Give
  <2>4. QED
    BY <1>1, <2>2, <2>3 DEF SetDraft, fileVars
<1>5. CASE PageStep(r)
  <2>1. ASSUME UNCHANGED <<fileVars, req, given>>
        PROVE  /\ UNCHANGED <<file, intended, raced, req>>
               /\ \A f \in Fields : given[f] \subseteq given'[f]
    BY <2>1 DEF fileVars
  <2>2. QED
    BY <1>2, <1>3, <1>4, <1>5, <2>1, PageStepCases
<1>6. ASSUME NEW p \in Payloads, OtherClient(r, p)
      PROVE  \A f \in Fields : given[f] \subseteq given'[f]
  BY <1>6 DEF OtherClient
<1>7. QED
  BY <1>2, <1>5, <1>6 DEF OtherClient

(* A text that is written loses only values that are empty.                *)
LEMMA WrittenFields ==
    ASSUME NEW merged
    PROVE  /\ \A f : f \in DOMAIN MergeText(merged) <=>
                        f \in DOMAIN merged /\ merged[f] # Bare("")
           /\ \A f \in DOMAIN MergeText(merged) : MergeText(merged)[f] = merged[f]
BY DEF MergeText, Restrict

(* What a write that does not race leaves in the file.                     *)
LEMMA WriteAlone ==
    ASSUME SettingsInv, NEW r \in Slots, WriteText(r), ~raced'
    PROVE  /\ ~raced /\ HoldsFresh(r) /\ file = Nothing
           /\ file' = MergeText(req[r].merged)
<1>1. ~raced /\ req[r].fresh /\ file = Nothing /\ req[r].at = "write"
  BY DEF WriteText
<1>2. PICK text : text = MergeText(req[r].merged)
  OBVIOUS
<1>3. PICK tail \in SUBSET DOMAIN file :
         file' = [k \in DOMAIN text \cup tail |-> IF k \in tail THEN file[k] ELSE text[k]]
  BY <1>2 DEF WriteText
<1>4. tail = {}
  BY <1>1 DEF Nothing
<1>5. file' = [k \in DOMAIN text |-> text[k]]
  BY <1>3, <1>4
<1>6. text = [k \in DOMAIN text |-> text[k]]
  BY <1>2 DEF MergeText, Restrict
<1>7. QED
  BY <1>1, <1>2, <1>5, <1>6 DEF HoldsFresh

LEMMA WriteOutdates ==
    ASSUME SettingsInv, NEW r \in Slots, WriteText(r)
    PROVE  \A s \in Slots : ~HoldsFresh(s)'
<1>1. Outdate(r, [req[r] EXCEPT !.at = "load"])
  BY DEF WriteText
<1>2. /\ req'[r].at = "load"
      /\ \A s \in Slots \ {r} :
            /\ req'[s].at = req[s].at
            /\ req[s].at \in {"empty", "write"} => ~req'[s].fresh
  BY <1>1, OutdateEffect
<1>3. QED
  BY <1>2 DEF HoldsFresh

LEMMA KeptStep ==
    ASSUME SettingsInv, NEW f \in Secrets, TracedFor(f), KeptFor(f), [Next]_vars
    PROVE  KeptFor(f)'
<1>1. CASE UNCHANGED vars
  BY <1>1 DEF vars, fileVars, KeptFor, SomebodyWrites, HoldsFresh
<1>2. Idle.at = "idle"
  BY DEF Idle
<1>3. f \in Fields
  BY DEF Fields
<1>4. ASSUME NEW r \in Slots, PageStep(r) \/ \E p \in Payloads : OtherClient(r, p)
      PROVE  KeptFor(f)'
  BY <1>3, <1>4, AskingHoldsNothing, NobodyHoldsMore DEF Next
<1>5. ASSUME NEW r \in Slots, ReadAndMerge(r)
      PROVE  KeptFor(f)'
  <2>1. PICK raw, m : raw = ReadRawEnv(file) /\ m = Merged(raw, req[r].updates)
    OBVIOUS
  <2>2. /\ UNCHANGED <<file, raced, given>> /\ req[r].at = "read"
        /\ \A s \in Slots \ {r} : req'[s] = req[s]
        /\ \/ req'[r] = Idle
           \/ req'[r].at = "empty" /\ req'[r].merged = m /\ req'[r].fresh = (Writing(r) = {})
    BY <1>5, <2>1, ReadAndMergeEffect
  <2>3. SomebodyWrites => SomebodyWrites'
    BY <2>2 DEF SomebodyWrites
  <2>4. ~SomebodyWrites <=> Writing(r) = {}
    BY <2>2 DEF SomebodyWrites, Writing
  <2>5. f \in DOMAIN file => f \in DOMAIN m \/ Clear \in given[f]
    <3>1. f \in DOMAIN file => f \in DOMAIN raw
      BY <2>1 DEF ReadRawEnv
    <3>2. f \in DOMAIN req[r].updates => req[r].updates[f] \in given[f]
      BY DEF TracedFor, RequestTraced
    <3>3. f \in DOMAIN m <=> \/ f \in DOMAIN raw /\ f \notin DOMAIN req[r].updates
                             \/ f \in DOMAIN req[r].updates /\ req[r].updates[f] # Clear
      BY <2>1, MergedFields
    <3>4. QED
      BY <3>1, <3>2, <3>3
  <2>6. \A s \in Slots \ {r} : HoldsFresh(s)' => HoldsFresh(s)
    BY <2>2 DEF HoldsFresh
  <2>7. HoldsFresh(r)' => ~SomebodyWrites /\ req'[r].merged = m
    BY <1>2, <2>2, <2>4 DEF HoldsFresh
  <2>8. QED
    BY <2>2, <2>3, <2>5, <2>6, <2>7 DEF KeptFor
<1>6. ASSUME NEW r \in Slots, Truncate(r)
      PROVE  KeptFor(f)'
  <2>1. /\ UNCHANGED <<raced, given>> /\ req[r].at = "empty"
        /\ req'[r].at = "write" /\ req'[r].merged = req[r].merged /\ req'[r].fresh = req[r].fresh
        /\ \A s \in Slots \ {r} :
              /\ req'[s].at = req[s].at
              /\ req[s].at \in {"empty", "write"} => ~req'[s].fresh
    BY <1>6, OutdateEffect DEF Truncate
  <2>2. SomebodyWrites'
    BY <2>1 DEF SomebodyWrites
  <2>3. \A s \in Slots : HoldsFresh(s)' => s = r /\ HoldsFresh(r)
    BY <2>1 DEF HoldsFresh
  <2>4. QED
    BY <2>1, <2>2, <2>3 DEF KeptFor
<1>7. ASSUME NEW r \in Slots, WriteText(r)
      PROVE  KeptFor(f)'
  <2>1. SUFFICES ASSUME ~raced', {"", Clear} \cap given[f] = {}
                 PROVE  KeptFor(f)'
    BY <1>7 DEF KeptFor, WriteText
  <2>2. ~raced /\ HoldsFresh(r) /\ file' = MergeText(req[r].merged) /\ given' = given
    BY <1>7, <2>1, WriteAlone DEF WriteText
  <2>3. f \in DOMAIN req[r].merged
    BY <2>1, <2>2 DEF KeptFor
  <2>4. req[r].merged[f] # Bare("")
    <3>1. req[r].merged[f].value \in given[f]
      BY <2>3 DEF TracedFor, RequestTraced
    <3>2. Bare("").value = "" /\ "" \notin given[f]
      BY <2>1, TextValue
    <3>3. QED
      BY <3>1, <3>2
  <2>5. f \in DOMAIN file'
    BY <2>2, <2>3, <2>4, WrittenFields
  <2>6. \A s \in Slots : ~HoldsFresh(s)'
    BY <1>7, WriteOutdates
  <2>7. QED
    BY <2>5, <2>6 DEF KeptFor
<1>8. ASSUME NEW r \in Slots, Load(r)
      PROVE  KeptFor(f)'
  <2>1. /\ UNCHANGED <<file, intended, raced, given>>
        /\ \A s \in Slots : \/ req'[s] = req[s]
                            \/ req[s].at \notin {"empty", "write"}
                               /\ req'[s].at \notin {"empty", "write"}
    BY <1>2, <1>8 DEF Load, fileVars, SettingsInv, TypeInv
  <2>2. QED
    BY <1>8, <2>1, NobodyHoldsMore DEF Next
<1>9. CASE Restart
  <2>1. raced' = (raced \/ SomebodyWrites) /\ UNCHANGED <<file, given>>
    BY <1>9 DEF Restart, SomebodyWrites
  <2>2. \A s \in Slots : ~HoldsFresh(s)'
    BY <1>2, <1>9 DEF Restart, HoldsFresh
  <2>3. QED
    BY <2>1, <2>2 DEF KeptFor
<1>10. CASE Finished
  BY <1>1, <1>10 DEF Finished
<1>11. QED
  BY <1>1, <1>4, <1>5, <1>6, <1>7, <1>8, <1>9, <1>10 DEF Next

LEMMA ComposedStep ==
    ASSUME SettingsInv, AllAvoid(Unstable), Composed, [Next]_vars
    PROVE  Composed'
<1>1. CASE UNCHANGED vars
  BY <1>1 DEF vars, fileVars, Composed, SomebodyWrites, HoldsFresh
<1>2. Idle.at = "idle"
  BY DEF Idle
<1>3. ASSUME NEW r \in Slots, PageStep(r) \/ \E p \in Payloads : OtherClient(r, p)
      PROVE  Composed'
  BY <1>3, AskingHoldsNothing, NobodyHoldsMore DEF Next
<1>4. ASSUME NEW r \in Slots, ReadAndMerge(r)
      PROVE  Composed'
  <2>1. /\ UNCHANGED <<file, intended, raced>> /\ req[r].at = "read"
        /\ \A s \in Slots \ {r} : req'[s] = req[s]
        /\ \/ req'[r] = Idle
           \/ /\ req'[r].at = "empty" /\ req'[r].updates = req[r].updates
              /\ req'[r].merged = Merged(ReadRawEnv(file), req[r].updates)
              /\ req'[r].fresh = (Writing(r) = {})
    BY <1>4, ReadAndMergeEffect
  <2>2. SomebodyWrites => SomebodyWrites'
    BY <2>1 DEF SomebodyWrites
  <2>3. ~SomebodyWrites <=> Writing(r) = {}
    BY <2>1 DEF SomebodyWrites, Writing
  <2>4. \A s \in Slots \ {r} : HoldsFresh(s)' => HoldsFresh(s) /\ req'[s] = req[s]
    BY <2>1 DEF HoldsFresh
  <2>5. HoldsFresh(r)' => /\ ~SomebodyWrites
                          /\ req'[r].merged = Merged(ReadRawEnv(file), req'[r].updates)
    BY <1>2, <2>1, <2>3 DEF HoldsFresh
  <2>6. QED
    BY <2>1, <2>2, <2>4, <2>5 DEF Composed
<1>5. ASSUME NEW r \in Slots, Truncate(r)
      PROVE  Composed'
  <2>1. /\ UNCHANGED <<raced, intended>> /\ req[r].at = "empty"
        /\ req'[r].at = "write" /\ req'[r].merged = req[r].merged
        /\ req'[r].updates = req[r].updates /\ req'[r].fresh = req[r].fresh
        /\ \A s \in Slots \ {r} :
              /\ req'[s].at = req[s].at
              /\ req[s].at \in {"empty", "write"} => ~req'[s].fresh
    BY <1>5, OutdateEffect DEF Truncate
  <2>2. SomebodyWrites'
    BY <2>1 DEF SomebodyWrites
  <2>3. \A s \in Slots : HoldsFresh(s)' => s = r /\ HoldsFresh(r)
    BY <2>1 DEF HoldsFresh
  <2>4. QED
    BY <2>1, <2>2, <2>3 DEF Composed
<1>6. ASSUME NEW r \in Slots, WriteText(r)
      PROVE  Composed'
  <2>1. SUFFICES ASSUME ~raced'
                 PROVE  Composed'
    BY DEF Composed
  <2>2. PICK m, u : m = req[r].merged /\ u = req[r].updates
    OBVIOUS
  <2>3. ~raced /\ HoldsFresh(r) /\ file' = MergeText(m)
    BY <1>6, <2>1, <2>2, WriteAlone
  <2>4. m = Merged(intended, u)
    BY <2>2, <2>3 DEF Composed
  <2>5. \A f \in DOMAIN m : m[f].value \notin Unstable
    <3>1. DOMAIN m \subseteq Fields
      BY <2>2, PartialFunction DEF SettingsInv, TypeInv, RequestType
    <3>2. QED
      BY <2>2, <3>1 DEF AllAvoid, Avoids, RequestAvoids
  <2>6. \A f \in DOMAIN m : m[f] # Bare("") /\ Parse(m[f]) = m[f].value
    BY <2>5, TextValue, BareReadsBack DEF Unstable
  <2>7. /\ \A f : f \in DOMAIN m <=> \/ f \in DOMAIN intended /\ f \notin DOMAIN u
                                     \/ f \in DOMAIN u /\ u[f] # Clear
        /\ \A f \in DOMAIN m :
              \/ f \in DOMAIN u /\ u[f] # Clear /\ m[f].value = u[f]
              \/ f \in DOMAIN intended /\ f \notin DOMAIN u /\ m[f].value = intended[f]
    BY <2>4, MergedFields
  <2>8. /\ \A f : f \in DOMAIN intended' <=> \/ f \in DOMAIN intended /\ f \notin DOMAIN u
                                             \/ f \in DOMAIN u /\ u[f] # Clear
        /\ \A f \in DOMAIN intended' :
              intended'[f] = IF f \in DOMAIN u /\ u[f] # Clear THEN u[f] ELSE intended[f]
        /\ intended' = [f \in DOMAIN intended' |-> intended'[f]]
    <3> DEFINE set == {f \in DOMAIN u : u[f] # Clear}
               D == (DOMAIN intended \ DOMAIN u) \cup set
    <3>1. intended' = [f \in D |-> IF f \in set THEN u[f] ELSE intended[f]]
      BY <1>6, <2>2 DEF WriteText
    <3> HIDE DEF D
    <3>2. DOMAIN intended' = D /\ intended' = [f \in DOMAIN intended' |-> intended'[f]]
      BY <3>1
    <3>3. \A f \in D : intended'[f] = IF f \in set THEN u[f] ELSE intended[f]
      BY <3>1
    <3>4. QED
      BY <3>2, <3>3 DEF D
  <2>9. DOMAIN intended' = DOMAIN m /\ \A f \in DOMAIN m : intended'[f] = m[f].value
    BY <2>7, <2>8
  <2>10. DOMAIN file' = DOMAIN m /\ \A f \in DOMAIN m : file'[f] = m[f]
    BY <2>3, <2>6, WrittenFields
  <2>11. ReadRawEnv(file') = intended'
    <3>1. PICK F, I : F = file' /\ I = intended'
      OBVIOUS
    <3>2. /\ DOMAIN F = DOMAIN m /\ DOMAIN I = DOMAIN m
          /\ \A f \in DOMAIN m : Parse(F[f]) = I[f]
          /\ I = [f \in DOMAIN I |-> I[f]]
      BY <2>6, <2>8, <2>9, <2>10, <3>1
    <3>3. ReadRawEnv(F) = [f \in DOMAIN m |-> Parse(F[f])]
      BY <3>2 DEF ReadRawEnv
    <3>4. ReadRawEnv(F) = I
      BY <3>2, <3>3
    <3>5. QED
      BY <3>1, <3>4
  <2>12. \A s \in Slots : ~HoldsFresh(s)'
    BY <1>6, WriteOutdates
  <2>13. \A f \in DOMAIN intended' : intended'[f] \notin Unstable
    BY <2>5, <2>9
  <2>14. QED
    BY <2>11, <2>12, <2>13 DEF Composed
<1>7. ASSUME NEW r \in Slots, Load(r)
      PROVE  Composed'
  <2>1. /\ UNCHANGED <<file, intended, raced, given>>
        /\ \A s \in Slots : \/ req'[s] = req[s]
                            \/ req[s].at \notin {"empty", "write"}
                               /\ req'[s].at \notin {"empty", "write"}
    BY <1>2, <1>7 DEF Load, fileVars, SettingsInv, TypeInv
  <2>2. QED
    BY <1>7, <2>1, NobodyHoldsMore DEF Next
<1>8. CASE Restart
  <2>1. raced' = (raced \/ SomebodyWrites) /\ UNCHANGED <<file, intended>>
    BY <1>8 DEF Restart, SomebodyWrites
  <2>2. \A s \in Slots : ~HoldsFresh(s)'
    BY <1>2, <1>8 DEF Restart, HoldsFresh
  <2>3. QED
    BY <2>1, <2>2 DEF Composed
<1>9. CASE Finished
  BY <1>1, <1>9 DEF Finished
<1>10. QED
  BY <1>1, <1>3, <1>4, <1>5, <1>6, <1>7, <1>8, <1>9 DEF Next

(* In any number of threads, whatever is typed, sent or interrupted: a     *)
(* secret in the file was given for its very field and is no mask, a page  *)
(* shows only masks, none goes unless somebody wanted it to or two saves   *)
(* raced, and an answer has one in plain text only after somebody wanted   *)
(* ratios that do not fit -- provided no value is cut when it is read back *)
(* without its quotes, and no file has a mask for a secret.                *)
THEOREM SecretsAlwaysKept ==
    ASSUME OutsideAvoids(Cut), NoMaskInFiles
    PROVE  Spec => []SecretsKept
<1> DEFINE Inv == \A f \in Secrets : TracedFor(f) /\ KeptFor(f)
<1>1. Spec => []AllAvoid(Cut)
  <2>1. Init => AllAvoid(Cut)
    BY AllAvoidInit
  <2>2. SettingsInv /\ AllAvoid(Cut) /\ [Next]_vars => AllAvoid(Cut)'
    BY ClosedSets, AllAvoidStep
  <2>3. QED
    BY <2>1, <2>2, SettingsAlways, PTL DEF Spec
<1>2. \A f \in Secrets : f \in Fields
  BY DEF Fields
<1>3. Init => Inv
  <2> SUFFICES ASSUME Init, NEW f \in Secrets PROVE TracedFor(f) /\ KeptFor(f)
    OBVIOUS
  <2>1. file \in Files
    BY DEF Init
  <2>2. given[f] = {IF f \in DOMAIN file THEN Parse(file[f]) ELSE Clear}
    BY <1>2 DEF Init
  <2>3. f \in DOMAIN file => Parse(file[f]) = file[f].value
    BY <2>1, BareReadsBack DEF OutsideAvoids
  <2>4. f \in DOMAIN file => file[f].value \in given[f] \ {Mask, Clear}
    BY <2>1, <2>2, <2>3 DEF NoMaskInFiles
  <2>5. RequestTraced(Idle, f, given[f])
    BY DEF RequestTraced, Idle, Nothing
  <2>6. PageTraced(ApplyResponse(Shown(ReadRawEnv(file))), f, given[f])
    BY ShownTraced
  <2>7. TracedFor(f)
    BY <2>4, <2>5, <2>6 DEF TracedFor, Init
  <2>8. \A r \in Slots : ~HoldsFresh(r)
    BY DEF Init, HoldsFresh, Idle
  <2>9. KeptFor(f)
    BY <2>2, <2>8 DEF KeptFor
  <2>10. QED
    BY <2>7, <2>9
<1>4. SettingsInv /\ AllAvoid(Cut) /\ Inv /\ [Next]_vars => Inv'
  BY <1>2, TracedStep, KeptStep DEF AllAvoid
<1>5. SettingsInv /\ AllAvoid(Cut) /\ Inv /\ ToldInv => SecretsKept
  <2> SUFFICES ASSUME SettingsInv, AllAvoid(Cut), Inv, ToldInv, NEW f \in Secrets
               PROVE  /\ f \in DOMAIN file => Parse(file[f]) \in given[f] \ {Mask, Clear}
                      /\ \/ f \in DOMAIN file \/ {"", Clear} \cap given[f] # {}
                         \/ raced \/ \E r \in Slots : req[r].at = "write"
                      /\ \A r \in Slots : f \in DOMAIN page[r].items =>
                                             page[r].items[f] \in {"", Mask}
                      /\ f \in told => Unfit
    BY DEF SecretsKept, Unfit
  <2>1. TracedFor(f) /\ KeptFor(f)
    OBVIOUS
  <2>2. f \in DOMAIN file => Parse(file[f]) = file[f].value
    BY <1>2, BareReadsBack DEF AllAvoid, Avoids
  <2>3. f \in told => Unfit
    BY DEF ToldInv
  <2>4. QED
    BY <2>1, <2>2, <2>3 DEF TracedFor, PageTraced, KeptFor, SomebodyWrites
<1> HIDE DEF Inv
<1>6. QED
  BY <1>1, <1>3, <1>4, <1>5, SettingsAlways, ToldAlways, PTL DEF Spec

(* The same for every save that does not race: the file says what the      *)
(* saves say when applied one after the other, so a save changes the       *)
(* fields it names and no other -- provided no value is empty or cut when  *)
(* it is read back without its quotes.                                     *)
THEOREM SavesAlwaysCompose ==
    ASSUME OutsideAvoids(Unstable)
    PROVE  Spec => []SavesCompose
<1>1. Spec => []AllAvoid(Unstable)
  <2>1. Init => AllAvoid(Unstable)
    BY AllAvoidInit
  <2>2. SettingsInv /\ AllAvoid(Unstable) /\ [Next]_vars => AllAvoid(Unstable)'
    BY ClosedSets, AllAvoidStep
  <2>3. QED
    BY <2>1, <2>2, SettingsAlways, PTL DEF Spec
<1>2. Init => Composed
  <2> SUFFICES ASSUME Init PROVE Composed
    OBVIOUS
  <2>1. intended = ReadRawEnv(file) /\ \A f \in DOMAIN file : file[f].value \notin Unstable
    BY DEF Init, OutsideAvoids
  <2>2. \A f \in DOMAIN file : Parse(file[f]) \notin Unstable
    BY <2>1, ClosedSets DEF Closed
  <2>3. \A f \in DOMAIN intended : intended[f] \notin Unstable
    BY <2>1, <2>2 DEF ReadRawEnv
  <2>4. \A r \in Slots : ~HoldsFresh(r)
    BY DEF Init, HoldsFresh, Idle
  <2>5. QED
    BY <2>1, <2>3, <2>4 DEF Composed
<1>3. SettingsInv /\ AllAvoid(Unstable) /\ Composed /\ [Next]_vars => Composed'
  BY ComposedStep
<1>4. Composed => SavesCompose
  BY DEF Composed, SavesCompose, SomebodyWrites
<1>5. QED
  BY <1>1, <1>2, <1>3, <1>4, SettingsAlways, PTL DEF Spec

=============================================================================
