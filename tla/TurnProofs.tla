----------------------------- MODULE TurnProofs -----------------------------
(***************************************************************************)
(* Proofs about Turn.  The argument looks at the checkpoints one by one:   *)
(* the one on the disk, where a crash falls back to, and the later ones    *)
(* that are still on their way.  Each is a sound conversation state by     *)
(* itself (Sound), up to what the running graph run has begun and not      *)
(* finished; the newest is the one the run works on, and the chain of them *)
(* forgets nothing (Chain).                                                *)
(***************************************************************************)
EXTENDS Turn, SequenceTheorems, FiniteSetTheorems, TLAPS

-----------------------------------------------------------------------------
(* What a checkpoint c looks like when its entries are younger than `lo`,  *)
(* none is younger than `hi`, and the runs in `open` were cut, or are not  *)
(* finished yet.                                                           *)

Ordered(c) ==
    LET s == c.messages
    IN  /\ \A i, j \in DOMAIN s : i < j =>
              s[i].id <= s[j].id /\ (s[j].kind = "human" => s[i].id < s[j].id)
        /\ \A e \in c.summary : \A i \in DOMAIN s :
              s[i].kind = "human" => e.id < s[i].id

Dated(c, lo, hi) ==
    /\ \A i \in DOMAIN c.messages : lo < c.messages[i].id /\ c.messages[i].id <= hi
    /\ \A e \in c.summary : lo < e.id /\ e.id <= hi

Paired(s) ==
    \A i \in DOMAIN s : s[i].kind = "results" => i > 1 /\ s[i - 1].kind = "calls"

Replied(s, i) == i < Len(s) /\ s[i + 1].kind = "results"

Answered(s, open) ==
    \A i \in DOMAIN s : s[i].kind = "calls" => Replied(s, i) \/ s[i].id \in open

(* Skills were loaded and released as the calls ask, the last call about a *)
(* skill being the one that counts.                                        *)
AsCalled(calls, active) ==
    \A k \in DOMAIN calls :
        (calls[k].skill \in Skills
         /\ \A n \in (k + 1)..Len(calls) : calls[n].skill # calls[k].skill) =>
            /\ calls[k].tool = "load" => calls[k].skill \in active
            /\ calls[k].tool = "unload" => calls[k].skill \notin active

LastCall(s, i) ==
    s[i].kind = "calls" /\ \A j \in (i + 1)..Len(s) : s[j].kind # "calls"

Applied(c, open) ==
    \A i \in DOMAIN c.messages :
        LastCall(c.messages, i) /\ c.messages[i].id \notin open
            => AsCalled(c.messages[i].calls, c.skills)

Sound(c, lo, hi, open) ==
    /\ c \in State
    /\ Ordered(c) /\ Dated(c, lo, hi) /\ Paired(c.messages)
    /\ Answered(c.messages, open) /\ Applied(c, open)

-----------------------------------------------------------------------------
(* The inductive invariant                                                 *)

Live == stage \in GraphStages \cup {"reply"}

Points == {disk} \cup {unsaved[i] : i \in DOMAIN unsaved}

(* The youngest message of the context; the run that is not finished.      *)
Latest ==
    CASE stage \in {"compact", "invoke"} -> heard - Len(burst)
      [] stage = "record" -> heard - Len(burst) + steps
      [] OTHER -> heard

Open == cut \cup (IF Live THEN {heard} ELSE {})

BurstOK ==
    /\ cleared <= heard
    /\ stage # "idle" =>
          /\ Len(burst) > 0 /\ cleared <= heard - Len(burst)
          /\ \A i \in DOMAIN burst : burst[i] = heard - Len(burst) + i
    /\ stage = "record" => steps <= Len(burst)
    /\ stage \in {"idle", "compact"} => steps = 0
    /\ unsaved # <<>> => Live

PointsSound == \A c \in Points : Sound(c, cleared, Latest, Open)

(* Later checkpoints hold everything earlier ones do.                      *)
Grows(c, d) == \A e \in Entries : Present(c, e) => Present(d, e)

Chain ==
    /\ \A i \in DOMAIN unsaved : Grows(disk, unsaved[i])
    /\ \A i, j \in DOMAIN unsaved : i < j => Grows(unsaved[i], unsaved[j])

InList(c, e) == \E i \in DOMAIN c.messages : c.messages[i] = e

(* How far the graph run has come.                                         *)
RunOK ==
    LET s == Conv.messages
    IN  /\ stage \in {"describe", "llm", "reply"} =>
              Answered(s, cut) /\ Applied(Conv, cut)
        /\ stage = "tools" =>
              /\ Len(s) > 0 /\ s[Len(s)].kind = "calls"
              /\ \A i \in 1..(Len(s) - 1) :
                    s[i].kind = "calls" => Replied(s, i) \/ s[i].id \in cut
        /\ stage = "skills" =>
              /\ Len(s) > 1 /\ s[Len(s)].kind = "results"
              /\ Answered(s, cut)
        /\ Live => Conv.rounds <= MaxRounds
        /\ stage = "describe" => steps = 0 /\ Conv.rounds = 0
        /\ stage = "llm" => steps = 3 * Conv.rounds + 1
        /\ stage = "tools" => steps = 3 * Conv.rounds - 1
        /\ stage = "skills" => steps = 3 * Conv.rounds
        /\ stage = "reply" => steps = 3 * Conv.rounds + 2

(* What the burst has left in the context.                                 *)
BurstKept ==
    /\ Live => \A i \in DOMAIN burst : InList(Conv, Human(burst[i]))
    /\ stage = "publish" => \A i \in DOMAIN burst : InList(disk, Human(burst[i]))
    /\ stage = "reply" => InList(Conv, Answer(heard))
    /\ stage = "record" => \A i \in 1..steps : InList(disk, Human(burst[i]))

HistoryBounded ==
    /\ sent \subseteq 1..heard
    /\ \A n \in DOMAIN published : \A i \in DOMAIN published[n] : published[n][i] <= heard

IInv == TypeOK /\ BurstOK /\ PointsSound /\ Chain /\ RunOK /\ BurstKept /\ HistoryBounded

-----------------------------------------------------------------------------
(* Induction over the naturals, from the well-foundedness of inclusion     *)
(* among finite sets.                                                      *)

(* A set of naturals that is not empty has a least element.                *)
LEMMA LeastNumber ==
    ASSUME NEW B \in SUBSET Nat, B # {}
    PROVE  \E m \in B : \A k \in B : m <= k
<1> DEFINE T == {1..n : n \in B}
           R == StrictSubsetOrdering(Nat)
<1>1. IsWellFoundedOn(R, FiniteSubsetsOf(Nat))
  BY FS_StrictSubsetOrderingWellFounded
<1>2. T \subseteq FiniteSubsetsOf(Nat)
  <2>1. \A n \in B : IsFiniteSet(1..n)
    BY FS_Interval
  <2>2. QED
    BY <2>1 DEF FiniteSubsetsOf
<1>3. T # {}
  OBVIOUS
<1> HIDE DEF T, R
<1>4. PICK x \in T : \A y \in T : ~ (<<y, x>> \in R)
  BY <1>1, <1>2, <1>3, WFMin
<1>5. PICK m \in B : x = 1..m
  BY DEF T
<1>6. ASSUME NEW k \in B, k < m
      PROVE  FALSE
  <2>1. 1..k \in T
    BY DEF T
  <2>2. 1..k \subseteq 1..m /\ m \in 1..m /\ m \notin 1..k
    BY <1>6
  <2>3. <<1..k, 1..m>> \in R
    BY <2>2 DEF R, StrictSubsetOrdering
  <2>4. QED
    BY <1>4, <1>5, <2>1, <2>3
<1>7. QED
  BY <1>6

(* A set that holds 0, and n + 1 whenever it holds n, holds every natural. *)
LEMMA NaturalsInSet ==
    ASSUME NEW S, 0 \in S, \A n \in Nat : n \in S => n + 1 \in S
    PROVE  \A n \in Nat : n \in S
<1> DEFINE B == {n \in Nat : n \notin S}
<1> SUFFICES ASSUME B # {}
             PROVE  FALSE
  OBVIOUS
<1>1. PICK m \in B : \A k \in B : m <= k
  <2>1. B \in SUBSET Nat
    OBVIOUS
  <2> HIDE DEF B
  <2>2. QED
    BY <2>1, LeastNumber
<1>2. m # 0 /\ m - 1 \in Nat
  OBVIOUS
<1>3. m - 1 \in S
  BY <1>1, <1>2
<1>4. QED
  BY <1>2, <1>3

-----------------------------------------------------------------------------
(* Skills                                                                  *)

(* One call on the way: the skills it leaves are known ones.               *)
LEMMA ApplyCallType ==
    ASSUME NEW active \in SUBSET Skills, NEW call
    PROVE  ApplyCall(active, call) \in SUBSET Skills
BY DEF ApplyCall

(* The recursion of SkillsAfter has a solution, so it means what it says.  *)
LEMMA SkillsAfterDefined ==
    ASSUME NEW active \in SUBSET Skills, NEW calls \in Seq(Call)
    PROVE  \E f \in [0..Len(calls) -> SUBSET Skills] :
              /\ f[0] = active
              /\ \A n \in 1..Len(calls) : f[n] = ApplyCall(f[n - 1], calls[n])
              /\ SkillsAfter(active, calls) = f[Len(calls)]
<1> DEFINE L == Len(calls)
           Run(f, k) == /\ f[0] = active
                        /\ \A n \in 1..k : f[n] = ApplyCall(f[n - 1], calls[n])
           S == {k \in Nat : k <= L => \E f \in [0..k -> SUBSET Skills] : Run(f, k)}
           Step(g) == [n \in 0..L |->
                         IF n = 0 THEN active ELSE ApplyCall(g[n - 1], calls[n])]
<1>1. L \in Nat
  OBVIOUS
<1>2. 0 \in S
  <2>1. [n \in 0..0 |-> active] \in [0..0 -> SUBSET Skills]
    OBVIOUS
  <2>2. Run([n \in 0..0 |-> active], 0)
    OBVIOUS
  <2>3. QED
    BY <2>1, <2>2
<1>3. ASSUME NEW k \in Nat, k \in S
      PROVE  k + 1 \in S
  <2> SUFFICES ASSUME k + 1 <= L
               PROVE  \E g \in [0..(k + 1) -> SUBSET Skills] : Run(g, k + 1)
    OBVIOUS
  <2>1. PICK f \in [0..k -> SUBSET Skills] : Run(f, k)
    BY <1>1, <1>3
  <2> DEFINE g == [n \in 0..(k + 1) |->
                     IF n = k + 1 THEN ApplyCall(f[k], calls[k + 1]) ELSE f[n]]
  <2>2. ApplyCall(f[k], calls[k + 1]) \in SUBSET Skills
    BY ApplyCallType
  <2>3. g \in [0..(k + 1) -> SUBSET Skills]
    BY <2>2
  <2>4. g[0] = active
    BY <2>1
  <2>5. ASSUME NEW n \in 1..(k + 1)
        PROVE  g[n] = ApplyCall(g[n - 1], calls[n])
    <3>1. n - 1 \in 0..(k + 1) /\ n - 1 # k + 1 /\ g[n - 1] = f[n - 1]
      OBVIOUS
    <3>2. CASE n = k + 1
      BY <3>1, <3>2
    <3>3. CASE n # k + 1
      <4>1. n \in 1..k /\ g[n] = f[n]
        BY <3>3
      <4>2. QED
        BY <2>1, <3>1, <4>1
    <3>4. QED
      BY <3>2, <3>3
  <2>6. QED
    BY <2>3, <2>4, <2>5
<1>4. L \in S
  <2> HIDE DEF S
  <2>1. QED
    BY <1>1, <1>2, <1>3, NaturalsInSet
<1>5. PICK f \in [0..L -> SUBSET Skills] : Run(f, L)
  BY <1>4
<1>6. f = Step(f)
  BY <1>5
<1> DEFINE after == CHOOSE g : g = Step(g)
<1>7. after = Step(after)
  BY <1>6
<1>8. SkillsAfter(active, calls) = after[L]
  BY DEF SkillsAfter
<1> HIDE DEF after
<1>9. \A n \in 0..L : after[n] = IF n = 0 THEN active
                                 ELSE ApplyCall(after[n - 1], calls[n])
  BY <1>7
<1> DEFINE U == {n \in Nat : n <= L => after[n] \in SUBSET Skills}
<1>10. 0 \in U
  BY <1>1, <1>9
<1>11. ASSUME NEW n \in Nat, n \in U
       PROVE  n + 1 \in U
  <2>1. CASE n + 1 <= L
    <3>1. after[n + 1] = ApplyCall(after[n], calls[n + 1])
      BY <1>1, <1>9, <2>1
    <3>2. QED
      BY <1>1, <1>11, <2>1, <3>1, ApplyCallType
  <2>2. QED
    BY <1>1, <2>1
<1>12. \A n \in 0..L : after[n] \in SUBSET Skills
  <2>1. \A n \in Nat : n \in U
    <3> HIDE DEF U
    <3>1. QED
      BY <1>10, <1>11, NaturalsInSet
  <2>2. QED
    BY <1>1, <2>1
<1>13. after \in [0..L -> SUBSET Skills]
  BY <1>7, <1>12
<1>14. QED
  BY <1>1, <1>8, <1>9, <1>13

(* The calls of a message are applied in their order: the last one about a *)
(* skill decides.                                                          *)
LEMMA SkillsAfterApplies ==
    ASSUME NEW active \in SUBSET Skills, NEW calls \in Seq(Call)
    PROVE  /\ SkillsAfter(active, calls) \in SUBSET Skills
           /\ AsCalled(calls, SkillsAfter(active, calls))
<1> DEFINE L == Len(calls)
<1>1. L \in Nat
  OBVIOUS
<1>2. PICK f \in [0..L -> SUBSET Skills] :
        /\ f[0] = active
        /\ \A n \in 1..L : f[n] = ApplyCall(f[n - 1], calls[n])
        /\ SkillsAfter(active, calls) = f[L]
  BY SkillsAfterDefined
<1>3. ASSUME NEW k \in 1..L, calls[k].skill \in Skills,
             \A n \in (k + 1)..L : calls[n].skill # calls[k].skill
      PROVE  /\ calls[k].tool = "load" => calls[k].skill \in f[L]
             /\ calls[k].tool = "unload" => calls[k].skill \notin f[L]
  <2> DEFINE Stays(n) ==
               /\ calls[k].tool = "load" => calls[k].skill \in f[n]
               /\ calls[k].tool = "unload" => calls[k].skill \notin f[n]
             S == {d \in Nat : k + d <= L => Stays(k + d)}
  <2>1. 0 \in S
    <3>1. f[k] = ApplyCall(f[k - 1], calls[k])
      BY <1>2
    <3>2. QED
      BY <1>3, <3>1 DEF ApplyCall
  <2>2. ASSUME NEW d \in Nat, d \in S
        PROVE  d + 1 \in S
    <3> SUFFICES ASSUME k + d + 1 <= L
                 PROVE  Stays(k + d + 1)
      BY <1>1
    <3>1. k + d + 1 \in 1..L /\ k + d + 1 \in (k + 1)..L /\ (k + d + 1) - 1 = k + d
      BY <1>1
    <3>2. f[k + d + 1] = ApplyCall(f[k + d], calls[k + d + 1])
      BY <1>2, <3>1
    <3>3. calls[k + d + 1].skill # calls[k].skill
      BY <1>3, <3>1
    <3>4. Stays(k + d)
      BY <1>1, <2>2
    <3>5. calls[k].skill \in f[k + d + 1] <=> calls[k].skill \in f[k + d]
      BY <3>2, <3>3 DEF ApplyCall
    <3>6. QED
      BY <3>4, <3>5
  <2>3. L - k \in Nat /\ k + (L - k) = L
    BY <1>1
  <2>4. L - k \in S
    <3> HIDE DEF S
    <3>1. QED
      BY <2>1, <2>2, <2>3, NaturalsInSet
  <2>5. QED
    BY <1>1, <2>3, <2>4
<1>4. DOMAIN calls = 1..L
  OBVIOUS
<1>5. f[L] \in SUBSET Skills
  BY <1>1
<1>6. QED
  BY <1>2, <1>3, <1>4, <1>5 DEF AsCalled

-----------------------------------------------------------------------------
(* Checkpoints                                                             *)

LEMMA EntriesTyped ==
    /\ \A id \in 0..LastMessage : Human(id) \in Entries /\ Answer(id) \in Entries
    /\ \A id \in 0..LastMessage : Entry("results", id, <<>>) \in Entries
    /\ \A id \in 0..LastMessage, calls \in CallLists : Entry("calls", id, calls) \in Entries
BY DEF Entries, Human, Answer, Entry

(* The types of what a checkpoint holds.                                   *)
LEMMA StateFields ==
    ASSUME NEW c \in State
    PROVE  /\ c.messages \in Seq(Entries) /\ c.summary \subseteq Entries
           /\ c.skills \in SUBSET Skills /\ c.rounds \in Nat
           /\ Len(c.messages) \in Nat /\ DOMAIN c.messages = 1..Len(c.messages)
           /\ \A i \in DOMAIN c.messages :
                 /\ c.messages[i] \in Entries
                 /\ c.messages[i].id \in Int
                 /\ c.messages[i].calls \in CallLists \cup {<<>>}
           /\ \A e \in c.summary : e.id \in Int
<1>1. /\ c.messages \in Seq(Entries) /\ c.summary \subseteq Entries
      /\ c.skills \in SUBSET Skills /\ c.rounds \in Nat
  BY DEF State
<1>2. \A e \in Entries : e.id \in Int /\ e.calls \in CallLists \cup {<<>>}
  BY DEF Entries
<1>3. \A i \in DOMAIN c.messages : c.messages[i] \in Entries
  BY <1>1
<1>4. Len(c.messages) \in Nat /\ DOMAIN c.messages = 1..Len(c.messages)
  BY <1>1
<1>5. QED
  BY <1>1, <1>2, <1>3, <1>4

(* Time passes: younger entries are allowed, more runs are open.           *)
LEMMA SoundLater ==
    ASSUME NEW c, NEW lo \in Int, NEW hi \in Int, NEW hi2 \in Int, NEW open, NEW open2,
           Sound(c, lo, hi, open), hi <= hi2, open \subseteq open2
    PROVE  Sound(c, lo, hi2, open2)
<1>1. Dated(c, lo, hi2)
  <2>1. /\ \A i \in DOMAIN c.messages : c.messages[i].id \in Int
        /\ \A e \in c.summary : e.id \in Int
    BY StateFields DEF Sound
  <2>2. QED
    BY <2>1 DEF Sound, Dated
<1>2. Answered(c.messages, open2) /\ Applied(c, open2)
  BY DEF Sound, Answered, Applied
<1>3. QED
  BY <1>1, <1>2 DEF Sound

(* The checkpoint c with entry e behind its messages.                      *)
With(c, e) == [c EXCEPT !.messages = Append(@, e)]

LEMMA WithFields ==
    ASSUME NEW c \in State, NEW e \in Entries
    PROVE  /\ With(c, e) \in State
           /\ With(c, e).messages = Append(c.messages, e)
           /\ With(c, e).summary = c.summary
           /\ With(c, e).skills = c.skills /\ With(c, e).rounds = c.rounds
           /\ Len(With(c, e).messages) = Len(c.messages) + 1
           /\ DOMAIN With(c, e).messages = 1..(Len(c.messages) + 1)
           /\ \A i \in 1..Len(c.messages) : With(c, e).messages[i] = c.messages[i]
           /\ With(c, e).messages[Len(c.messages) + 1] = e
           /\ Len(c.messages) \in Nat /\ DOMAIN c.messages = 1..Len(c.messages)
<1>1. c.messages \in Seq(Entries)
  BY DEF State
<1>2. Append(c.messages, e) \in Seq(Entries)
  BY <1>1
<1>3. With(c, e) \in State
  BY <1>2 DEF State, With
<1>4. /\ With(c, e).messages = Append(c.messages, e)
      /\ With(c, e).summary = c.summary
      /\ With(c, e).skills = c.skills /\ With(c, e).rounds = c.rounds
  BY DEF State, With
<1>5. QED
  BY <1>1, <1>3, <1>4

(* A young entry goes behind the messages of a sound checkpoint: one of a  *)
(* new message, or one of the run that answers the youngest.               *)
LEMMA WithOrdered ==
    ASSUME NEW c, NEW e \in Entries, NEW lo \in Int, NEW hi \in Int, NEW open,
           Sound(c, lo, hi, open), lo < e.id, hi <= e.id,
           e.kind = "human" => hi < e.id
    PROVE  Ordered(With(c, e)) /\ Dated(With(c, e), lo, e.id)
<1>0. c \in State
  BY DEF Sound
<1> DEFINE s == c.messages
           t == With(c, e).messages
<1>1. /\ Len(s) \in Nat /\ DOMAIN s = 1..Len(s) /\ DOMAIN t = 1..(Len(s) + 1)
      /\ \A i \in 1..Len(s) : t[i] = s[i]
      /\ t[Len(s) + 1] = e
      /\ With(c, e).summary = c.summary
  BY <1>0, WithFields
<1>2. \A i \in 1..Len(s) : s[i].id \in Int /\ s[i].id <= hi /\ lo < s[i].id
  BY <1>0, StateFields DEF Sound, Dated
<1>3. \A f \in c.summary : f.id \in Int /\ f.id <= hi /\ lo < f.id
  BY <1>0, StateFields DEF Sound, Dated
<1>4. e.id \in Int
  BY DEF Entries
<1>5. Ordered(c)
  BY DEF Sound
<1> HIDE DEF s, t
<1>6. \A i \in 1..(Len(s) + 1) : i \in 1..Len(s) \/ i = Len(s) + 1
  BY <1>1
<1>7. ASSUME NEW i \in 1..(Len(s) + 1), NEW j \in 1..(Len(s) + 1), i < j
      PROVE  t[i].id <= t[j].id /\ (t[j].kind = "human" => t[i].id < t[j].id)
  <2>1. i \in 1..Len(s)
    BY <1>1, <1>7
  <2>2. CASE j \in 1..Len(s)
    BY <1>1, <1>5, <1>7, <2>1, <2>2 DEF Ordered, s
  <2>3. CASE j = Len(s) + 1
    <3>1. t[i] = s[i] /\ t[j] = e /\ s[i].id <= hi /\ s[i].id \in Int
      BY <1>1, <1>2, <2>1, <2>3
    <3>2. QED
      BY <1>4, <3>1
  <2>4. QED
    BY <1>6, <2>2, <2>3
<1>8. ASSUME NEW f \in c.summary, NEW i \in 1..(Len(s) + 1), t[i].kind = "human"
      PROVE  f.id < t[i].id
  <2>1. CASE i \in 1..Len(s)
    BY <1>1, <1>5, <1>8, <2>1 DEF Ordered, s
  <2>2. CASE i = Len(s) + 1
    <3>1. t[i] = e
      BY <1>1, <2>2
    <3>2. QED
      BY <1>3, <1>4, <1>8, <3>1
  <2>3. QED
    BY <1>6, <2>1, <2>2
<1>9. Ordered(With(c, e))
  BY <1>1, <1>7, <1>8 DEF Ordered, t
<1>10. \A i \in 1..(Len(s) + 1) : lo < t[i].id /\ t[i].id <= e.id
  <2> SUFFICES ASSUME NEW i \in 1..(Len(s) + 1)
               PROVE  lo < t[i].id /\ t[i].id <= e.id
    OBVIOUS
  <2>1. CASE i \in 1..Len(s)
    <3>1. t[i] = s[i] /\ s[i].id \in Int /\ s[i].id <= hi /\ lo < s[i].id
      BY <1>1, <1>2, <2>1
    <3>2. QED
      BY <1>4, <3>1
  <2>2. CASE i = Len(s) + 1
    <3>1. t[i] = e
      BY <1>1, <2>2
    <3>2. QED
      BY <1>4, <3>1
  <2>3. QED
    BY <1>6, <2>1, <2>2
<1>11. \A f \in c.summary : lo < f.id /\ f.id <= e.id
  BY <1>3, <1>4
<1>12. Dated(With(c, e), lo, e.id)
  BY <1>1, <1>10, <1>11 DEF Dated, t
<1>13. QED
  BY <1>9, <1>12

(* A human message or an answer behind a sound checkpoint.                 *)
LEMMA WithTalk ==
    ASSUME NEW c, NEW e \in Entries, NEW lo \in Int, NEW hi \in Int, NEW open,
           Sound(c, lo, hi, open), lo < e.id, hi <= e.id,
           e.kind = "human" => hi < e.id, e.kind \in {"human", "answer"}
    PROVE  Sound(With(c, e), lo, e.id, open)
<1>0. c \in State
  BY DEF Sound
<1> DEFINE s == c.messages
           t == With(c, e).messages
<1>1. /\ Len(s) \in Nat /\ DOMAIN s = 1..Len(s) /\ DOMAIN t = 1..(Len(s) + 1)
      /\ \A i \in 1..Len(s) : t[i] = s[i]
      /\ t[Len(s) + 1] = e /\ Len(t) = Len(s) + 1
      /\ With(c, e).skills = c.skills
      /\ With(c, e) \in State
  BY <1>0, WithFields
<1>2. Ordered(With(c, e)) /\ Dated(With(c, e), lo, e.id)
  BY WithOrdered
<1>3. Paired(s) /\ Answered(s, open) /\ Applied(c, open)
  BY DEF Sound
<1> HIDE DEF s, t
<1>4. Paired(t)
  BY <1>1, <1>3 DEF Paired
<1>5. Answered(t, open)
  BY <1>1, <1>3 DEF Answered, Replied
<1>6. Applied(With(c, e), open)
  <2> SUFFICES ASSUME NEW i \in DOMAIN t, LastCall(t, i), t[i].id \notin open
               PROVE  AsCalled(t[i].calls, c.skills)
    BY <1>1 DEF Applied, t
  <2>1. i \in 1..Len(s)
    BY <1>1 DEF LastCall
  <2>2. LastCall(s, i)
    BY <1>1, <2>1 DEF LastCall
  <2>3. QED
    BY <1>1, <1>3, <2>1, <2>2 DEF Applied, s
<1>7. QED
  BY <1>1, <1>2, <1>4, <1>5, <1>6 DEF Sound, t

(* The LLM asks for tools: the calls are open until their results are in.  *)
LEMMA WithCalls ==
    ASSUME NEW c, NEW calls \in CallLists, NEW lo \in Int, NEW hi \in 0..LastMessage,
           NEW open, Sound(c, lo, hi, open), lo < hi, hi \in open
    PROVE  Sound(With(c, Entry("calls", hi, calls)), lo, hi, open)
<1> DEFINE e == Entry("calls", hi, calls)
           s == c.messages
           t == With(c, e).messages
<1>0. c \in State /\ hi \in Int
  BY DEF Sound
<1>1. e \in Entries /\ e.id = hi /\ e.kind = "calls"
  BY EntriesTyped DEF Entry
<1> HIDE DEF e
<1>2. /\ Len(s) \in Nat /\ DOMAIN s = 1..Len(s) /\ DOMAIN t = 1..(Len(s) + 1)
      /\ \A i \in 1..Len(s) : t[i] = s[i]
      /\ t[Len(s) + 1] = e /\ Len(t) = Len(s) + 1
      /\ With(c, e).skills = c.skills
      /\ With(c, e) \in State
  BY <1>0, <1>1, WithFields
<1>3. Ordered(With(c, e)) /\ Dated(With(c, e), lo, hi)
  BY <1>0, <1>1, WithOrdered
<1>4. Paired(s) /\ Answered(s, open) /\ Applied(c, open)
  BY DEF Sound
<1> HIDE DEF s, t
<1>5. Paired(t)
  BY <1>1, <1>2, <1>4 DEF Paired
<1>6. Answered(t, open)
  BY <1>1, <1>2, <1>4 DEF Answered, Replied
<1>7. Applied(With(c, e), open)
  <2> SUFFICES ASSUME NEW i \in DOMAIN t, LastCall(t, i), t[i].id \notin open
               PROVE  FALSE
    BY DEF Applied, t
  <2>1. CASE i = Len(s) + 1
    BY <1>1, <1>2, <2>1
  <2>2. CASE i # Len(s) + 1
    <3>1. Len(s) + 1 \in (i + 1)..Len(t)
      BY <1>2, <2>2
    <3>2. QED
      BY <1>1, <1>2, <3>1 DEF LastCall
  <2>3. QED
    BY <2>1, <2>2
<1>8. QED
  BY <1>2, <1>3, <1>5, <1>6, <1>7 DEF Sound, t, e

(* The calls that end the messages get their results.                      *)
LEMMA WithResults ==
    ASSUME NEW c, NEW lo \in Int, NEW hi \in 0..LastMessage, NEW open,
           Sound(c, lo, hi, open), lo < hi,
           Len(c.messages) > 0, c.messages[Len(c.messages)].kind = "calls"
    PROVE  /\ Sound(With(c, Entry("results", hi, <<>>)), lo, hi, open)
           /\ \A done :
                 (\A i \in 1..(Len(c.messages) - 1) : c.messages[i].kind = "calls" =>
                     Replied(c.messages, i) \/ c.messages[i].id \in done)
                 => Answered(With(c, Entry("results", hi, <<>>)).messages, done)
<1> DEFINE e == Entry("results", hi, <<>>)
           s == c.messages
           t == With(c, e).messages
<1>0. c \in State /\ hi \in Int
  BY DEF Sound
<1>1. e \in Entries /\ e.id = hi /\ e.kind = "results"
  BY EntriesTyped DEF Entry
<1> HIDE DEF e
<1>2. /\ Len(s) \in Nat /\ DOMAIN s = 1..Len(s) /\ DOMAIN t = 1..(Len(s) + 1)
      /\ \A i \in 1..Len(s) : t[i] = s[i]
      /\ t[Len(s) + 1] = e /\ Len(t) = Len(s) + 1
      /\ With(c, e).skills = c.skills
      /\ With(c, e) \in State
  BY <1>0, <1>1, WithFields
<1>3. Ordered(With(c, e)) /\ Dated(With(c, e), lo, hi)
  BY <1>0, <1>1, WithOrdered
<1>4. Paired(s) /\ Answered(s, open) /\ Applied(c, open)
  BY DEF Sound
<1>5. Len(s) > 0 /\ s[Len(s)].kind = "calls"
  OBVIOUS
<1> HIDE DEF s, t
<1>6. Paired(t)
  <2> SUFFICES ASSUME NEW i \in DOMAIN t, t[i].kind = "results"
               PROVE  i > 1 /\ t[i - 1].kind = "calls"
    BY DEF Paired
  <2>1. CASE i = Len(s) + 1
    <3>1. t[Len(s)] = s[Len(s)] /\ i - 1 = Len(s)
      BY <1>2, <1>5, <2>1
    <3>2. QED
      BY <1>2, <1>5, <2>1, <3>1
  <2>2. CASE i # Len(s) + 1
    <3>1. i \in DOMAIN s /\ t[i] = s[i]
      BY <1>2, <2>2
    <3>2. i > 1 /\ s[i - 1].kind = "calls"
      BY <1>4, <3>1 DEF Paired
    <3>3. t[i - 1] = s[i - 1]
      BY <1>2, <3>1, <3>2
    <3>4. QED
      BY <3>2, <3>3
  <2>3. QED
    BY <2>1, <2>2
<1>7. ASSUME NEW done,
             \A i \in 1..(Len(s) - 1) :
                s[i].kind = "calls" => Replied(s, i) \/ s[i].id \in done
      PROVE  Answered(t, done)
  <2> SUFFICES ASSUME NEW i \in DOMAIN t, t[i].kind = "calls"
               PROVE  Replied(t, i) \/ t[i].id \in done
    BY DEF Answered
  <2>1. i # Len(s) + 1
    BY <1>1, <1>2
  <2>2. CASE i = Len(s)
    BY <1>1, <1>2, <2>2 DEF Replied
  <2>3. CASE i \in 1..(Len(s) - 1)
    <3>1. t[i] = s[i] /\ i + 1 \in 1..Len(s) /\ t[i + 1] = s[i + 1] /\ i < Len(t)
      BY <1>2, <2>3
    <3>2. Replied(s, i) \/ s[i].id \in done
      BY <1>7, <2>3, <3>1
    <3>3. QED
      BY <3>1, <3>2 DEF Replied
  <2>4. QED
    BY <1>2, <2>1, <2>2, <2>3
<1>8. Answered(t, open)
  BY <1>2, <1>4, <1>7 DEF Answered
<1>9. Applied(With(c, e), open)
  <2> SUFFICES ASSUME NEW i \in DOMAIN t, LastCall(t, i), t[i].id \notin open
               PROVE  AsCalled(t[i].calls, c.skills)
    BY <1>2 DEF Applied, t
  <2>1. i \in 1..Len(s)
    BY <1>1, <1>2 DEF LastCall
  <2>2. LastCall(s, i)
    BY <1>2, <2>1 DEF LastCall
  <2>3. QED
    BY <1>2, <1>4, <2>1, <2>2 DEF Applied, s
<1>10. QED
  BY <1>2, <1>3, <1>6, <1>7, <1>8, <1>9 DEF Sound, t, s, e

(* The results are in: the skills are brought up to date.                  *)
LEMMA SoundSkilled ==
    ASSUME NEW c, NEW lo \in Int, NEW hi \in Int, NEW open, Sound(c, lo, hi, open),
           Len(c.messages) > 1, c.messages[Len(c.messages)].kind = "results",
           NEW calls, calls = c.messages[Len(c.messages) - 1].calls
    PROVE  LET d == [c EXCEPT !.skills = SkillsAfter(@, calls)]
           IN  Sound(d, lo, hi, open) /\ Applied(d, {})
<1> DEFINE s == c.messages
           d == [c EXCEPT !.skills = SkillsAfter(@, calls)]
<1>1. c \in State
  BY DEF Sound
<1>2. /\ Len(s) \in Nat /\ DOMAIN s = 1..Len(s) /\ c.skills \in SUBSET Skills
      /\ s[Len(s) - 1].calls \in CallLists \cup {<<>>}
  BY <1>1, StateFields
<1>3. calls \in Seq(Call)
  <2>1. CallLists \subseteq Seq(Call)
    BY TurnAssumption DEF TurnAssumption
  <2>2. <<>> \in Seq(Call)
    OBVIOUS
  <2>3. calls \in CallLists \cup {<<>>}
    BY <1>2
  <2> HIDE DEF d, s
  <2>4. QED
    BY <2>1, <2>2, <2>3
<1>4. /\ SkillsAfter(c.skills, calls) \in SUBSET Skills
      /\ AsCalled(calls, SkillsAfter(c.skills, calls))
  BY <1>2, <1>3, SkillsAfterApplies
<1>5. /\ d \in State /\ d.messages = s /\ d.summary = c.summary
      /\ d.skills = SkillsAfter(c.skills, calls)
  BY <1>1, <1>4 DEF State
<1>6. Paired(s) /\ s[Len(s) - 1].kind = "calls"
  BY <1>2 DEF Sound, Paired
<1> HIDE DEF d
<1>7. ASSUME NEW i \in DOMAIN s, LastCall(s, i)
      PROVE  i = Len(s) - 1
  <2>1. CASE i = Len(s)
    BY <1>7, <2>1 DEF LastCall
  <2>2. CASE i < Len(s) - 1
    <3>1. Len(s) - 1 \in (i + 1)..Len(s)
      BY <1>2, <2>2
    <3>2. QED
      BY <1>6, <1>7, <3>1 DEF LastCall
  <2>3. QED
    BY <1>2, <2>1, <2>2
<1>8. \A o : Applied(d, o)
  BY <1>4, <1>5, <1>7 DEF Applied
<1>9. Ordered(d) /\ Dated(d, lo, hi) /\ Paired(d.messages) /\ Answered(d.messages, open)
  BY <1>5 DEF Sound, Ordered, Dated
<1>10. QED
  BY <1>5, <1>8, <1>9 DEF Sound, d

(* The checkpoint c without its first i messages and with summary u.       *)
Shortened(c, i, u) ==
    [c EXCEPT !.messages = SubSeq(@, i + 1, Len(@)), !.summary = u]

LEMMA ShortenedFields ==
    ASSUME NEW c \in State, NEW i \in 1..Len(c.messages), NEW u \in SUBSET Entries
    PROVE  LET d == Shortened(c, i, u)
               s == c.messages
           IN  /\ d \in State /\ d.summary = u /\ d.skills = c.skills
               /\ Len(d.messages) = Len(s) - i
               /\ DOMAIN d.messages = 1..(Len(s) - i)
               /\ \A k \in 1..(Len(s) - i) : d.messages[k] = s[i + k]
<1> DEFINE s == c.messages
           t == SubSeq(s, i + 1, Len(s))
<1>1. s \in Seq(Entries) /\ Len(s) \in Nat
  BY StateFields
<1>2. i + 1 \in 1..(Len(s) + 1) /\ \A k \in (i + 1)..Len(s) : k \in 1..Len(s)
  BY <1>1
<1>3. t \in Seq(Entries) /\ Len(t) = Len(s) - i
  BY <1>1, <1>2
<1>4. \A k \in 1..(Len(s) - i) : t[k] = s[i + k]
  BY <1>1, <1>3
<1>5. DOMAIN t = 1..(Len(s) - i)
  BY <1>3
<1> HIDE DEF t
<1>6. Shortened(c, i, u) = [c EXCEPT !.messages = t, !.summary = u]
  BY DEF Shortened, t
<1>7. Shortened(c, i, u) \in State /\ Shortened(c, i, u).messages = t
      /\ Shortened(c, i, u).summary = u /\ Shortened(c, i, u).skills = c.skills
  BY <1>3, <1>6 DEF State
<1>8. QED
  BY <1>3, <1>4, <1>5, <1>7

(* Compaction leaves a sound checkpoint, whatever the LLM answers.         *)
LEMMA SoundShortened ==
    ASSUME NEW c, NEW lo \in Int, NEW hi \in Int, NEW open, Sound(c, lo, hi, open),
           NEW i \in 1..Len(c.messages), KeepsFrom(c.messages, i),
           NEW u, u \subseteq c.summary \cup {c.messages[j] : j \in 1..i}
    PROVE  Sound(Shortened(c, i, u), lo, hi, open)
<1> DEFINE s == c.messages
           d == Shortened(c, i, u)
           t == d.messages
           n == Len(s) - i
<1>1. c \in State /\ Ordered(c) /\ Dated(c, lo, hi) /\ Paired(s)
      /\ Answered(s, open) /\ Applied(c, open)
  BY DEF Sound
<1>2. /\ s \in Seq(Entries) /\ c.summary \subseteq Entries
      /\ Len(s) \in Nat /\ DOMAIN s = 1..Len(s)
      /\ \A k \in DOMAIN s : s[k] \in Entries /\ s[k].id \in Int
      /\ \A e \in c.summary : e.id \in Int
  BY <1>1, StateFields
<1>3. u \in SUBSET Entries
  BY <1>2
<1>4. /\ d \in State /\ d.summary = u /\ d.skills = c.skills
      /\ Len(t) = n /\ DOMAIN t = 1..n
      /\ \A k \in 1..n : t[k] = s[i + k]
  BY <1>1, <1>3, ShortenedFields
<1>5. n \in Nat /\ i \in Nat /\ i > 0 /\ n = Len(s) - i
  BY <1>2
<1>6. n > 0 => t[1].kind = "human"
  BY <1>2, <1>4, <1>5 DEF KeepsFrom
<1> HIDE DEF d, n
<1>7. \A k \in 1..n : i + k \in 1..Len(s)
  BY <1>2, <1>5
<1>8. Ordered(d)
  <2>1. ASSUME NEW k \in 1..n, NEW m \in 1..n, k < m
        PROVE  t[k].id <= t[m].id /\ (t[m].kind = "human" => t[k].id < t[m].id)
    <3>1. i + k < i + m /\ i + k \in DOMAIN s /\ i + m \in DOMAIN s
      BY <1>2, <1>5, <1>7, <2>1
    <3>2. QED
      BY <1>1, <1>4, <3>1 DEF Ordered
  <2>2. ASSUME NEW e \in u, NEW k \in 1..n, t[k].kind = "human"
        PROVE  e.id < t[k].id
    <3>1. i + k \in DOMAIN s /\ s[i + k].kind = "human" /\ t[k] = s[i + k]
      BY <1>2, <1>4, <1>7, <2>2
    <3>2. CASE e \in c.summary
      BY <1>1, <3>1, <3>2 DEF Ordered
    <3>3. CASE e \in {s[j] : j \in 1..i}
      <4>1. PICK j \in 1..i : e = s[j]
        BY <3>3
      <4>2. j \in DOMAIN s /\ j < i + k
        BY <1>2, <1>5
      <4>3. QED
        BY <1>1, <3>1, <4>1, <4>2 DEF Ordered
    <3>4. QED
      BY <3>2, <3>3
  <2>3. QED
    BY <1>4, <2>1, <2>2 DEF Ordered
<1>9. Dated(d, lo, hi)
  <2>1. \A k \in 1..n : lo < t[k].id /\ t[k].id <= hi
    BY <1>1, <1>2, <1>4, <1>7 DEF Dated
  <2>2. \A e \in u : lo < e.id /\ e.id <= hi
    <3>1. \A j \in 1..i : j \in DOMAIN s
      BY <1>2
    <3>2. QED
      BY <1>1, <3>1 DEF Dated
  <2>3. QED
    BY <1>4, <2>1, <2>2 DEF Dated
<1>10. Paired(t)
  <2> SUFFICES ASSUME NEW k \in 1..n, t[k].kind = "results"
               PROVE  k > 1 /\ t[k - 1].kind = "calls"
    BY <1>4 DEF Paired
  <2>1. k > 1
    BY <1>5, <1>6
  <2>2. k - 1 \in 1..n /\ t[k - 1] = s[i + (k - 1)] /\ i + (k - 1) = (i + k) - 1
    BY <1>4, <1>5, <2>1
  <2>3. s[(i + k) - 1].kind = "calls"
    BY <1>1, <1>2, <1>4, <1>7 DEF Paired
  <2>4. QED
    BY <2>1, <2>2, <2>3
<1>11. Answered(t, open)
  <2> SUFFICES ASSUME NEW k \in 1..n, t[k].kind = "calls", t[k].id \notin open
               PROVE  Replied(t, k)
    BY <1>4 DEF Answered
  <2>1. i + k \in DOMAIN s /\ t[k] = s[i + k]
    BY <1>2, <1>4, <1>7
  <2>2. Replied(s, i + k)
    BY <1>1, <2>1 DEF Answered
  <2>3. i + k < Len(s) /\ s[(i + k) + 1].kind = "results"
    BY <2>2 DEF Replied
  <2>4. k < n /\ k + 1 \in 1..n /\ (i + k) + 1 = i + (k + 1)
    BY <1>2, <1>5, <2>3
  <2>5. QED
    BY <1>4, <2>3, <2>4 DEF Replied
<1>12. Applied(d, open)
  <2> SUFFICES ASSUME NEW k \in 1..n, LastCall(t, k), t[k].id \notin open
               PROVE  AsCalled(t[k].calls, c.skills)
    BY <1>4 DEF Applied
  <2>1. i + k \in DOMAIN s /\ t[k] = s[i + k]
    BY <1>2, <1>4, <1>7
  <2>2. ASSUME NEW j \in (i + k + 1)..Len(s)
        PROVE  s[j].kind # "calls"
    <3>1. j - i \in (k + 1)..n /\ j - i \in 1..n /\ i + (j - i) = j
      BY <1>2, <1>5
    <3>2. t[j - i] = s[j] /\ t[j - i].kind # "calls"
      BY <1>4, <3>1 DEF LastCall
    <3>3. QED
      BY <3>2
  <2>3. LastCall(s, i + k)
    BY <2>1, <2>2 DEF LastCall
  <2>4. QED
    BY <1>1, <2>1, <2>3 DEF Applied
<1>13. QED
  BY <1>4, <1>8, <1>9, <1>10, <1>11, <1>12 DEF Sound, d

(* A summary that covers what leaves: nothing is forgotten.                *)
LEMMA ShortenedGrows ==
    ASSUME NEW c \in State, NEW i \in 1..Len(c.messages), NEW u \in SUBSET Entries,
           u = c.summary \cup {c.messages[j] : j \in 1..i}
    PROVE  Grows(c, Shortened(c, i, u))
<1> DEFINE s == c.messages
           d == Shortened(c, i, u)
<1>1. Len(s) \in Nat /\ DOMAIN s = 1..Len(s)
  BY StateFields
<1>2. /\ d.summary = u /\ DOMAIN d.messages = 1..(Len(s) - i)
      /\ \A k \in 1..(Len(s) - i) : d.messages[k] = s[i + k]
  BY ShortenedFields, SMTT(30)
<1> HIDE DEF d
<1> SUFFICES ASSUME NEW j \in DOMAIN s
             PROVE  Present(d, s[j])
  BY <1>2 DEF Grows, Present, d
<1>3. CASE j \in 1..i
  BY <1>2, <1>3 DEF Present
<1>4. CASE j \notin 1..i
  <2>1. j - i \in 1..(Len(s) - i) /\ i + (j - i) = j
    BY <1>1, <1>4
  <2>2. QED
    BY <1>2, <2>1 DEF Present
<1>5. QED
  BY <1>3, <1>4

(* Appending forgets nothing.                                              *)
LEMMA WithGrows ==
    ASSUME NEW c \in State, NEW e \in Entries
    PROVE  /\ Grows(c, With(c, e))
           /\ \A f : InList(c, f) => InList(With(c, e), f)
           /\ InList(With(c, e), e)
<1>1. /\ With(c, e).summary = c.summary
      /\ DOMAIN With(c, e).messages = 1..(Len(c.messages) + 1)
      /\ \A i \in 1..Len(c.messages) : With(c, e).messages[i] = c.messages[i]
      /\ With(c, e).messages[Len(c.messages) + 1] = e
      /\ Len(c.messages) \in Nat /\ DOMAIN c.messages = 1..Len(c.messages)
  BY WithFields
<1>2. \A f : InList(c, f) => InList(With(c, e), f)
  BY <1>1 DEF InList
<1>3. InList(With(c, e), e)
  BY <1>1 DEF InList
<1>4. Grows(c, With(c, e))
  BY <1>1, <1>2 DEF Grows, Present, InList
<1>5. QED
  BY <1>2, <1>3, <1>4

(* A graph run starts from checkpoint c with the messages of burst b.      *)
Begun(c, b) == [c EXCEPT !.messages = @ \o Humans(b), !.rounds = 0]

LEMMA BegunFields ==
    ASSUME NEW c \in State, NEW b \in Seq(1..LastMessage)
    PROVE  LET d == Begun(c, b)
               s == c.messages
           IN  /\ d \in State /\ d.summary = c.summary /\ d.skills = c.skills
               /\ d.rounds = 0
               /\ Len(d.messages) = Len(s) + Len(b)
               /\ DOMAIN d.messages = 1..(Len(s) + Len(b))
               /\ \A k \in 1..Len(s) : d.messages[k] = s[k]
               /\ \A k \in 1..Len(b) : d.messages[Len(s) + k] = Human(b[k])
               /\ Len(s) \in Nat /\ DOMAIN s = 1..Len(s) /\ Len(b) \in Nat
<1> DEFINE s == c.messages
           h == Humans(b)
           t == s \o h
<1>1. s \in Seq(Entries) /\ Len(s) \in Nat /\ DOMAIN s = 1..Len(s)
  BY StateFields
<1>2. \A i \in DOMAIN b : b[i] \in 0..LastMessage
  <2>1. 1..LastMessage \subseteq 0..LastMessage
    BY TurnAssumption DEF TurnAssumption
  <2>2. \A i \in DOMAIN b : b[i] \in 1..LastMessage
    BY ElementOfSeq, LenProperties
  <2>3. QED
    BY <2>1, <2>2
<1>3. \A i \in DOMAIN b : Human(b[i]) \in Entries
  BY <1>2, EntriesTyped
<1>4. /\ h \in Seq(Entries) /\ Len(h) = Len(b) /\ Len(b) \in Nat
      /\ \A k \in 1..Len(b) : h[k] = Human(b[k])
  BY <1>3 DEF Humans
<1> HIDE DEF h
<1>5. /\ t \in Seq(Entries) /\ Len(t) = Len(s) + Len(b)
      /\ DOMAIN t = 1..(Len(s) + Len(b))
      /\ \A k \in 1..Len(s) : t[k] = s[k]
      /\ \A k \in 1..Len(b) : t[Len(s) + k] = Human(b[k])
  BY <1>1, <1>4
<1> HIDE DEF t
<1>6. Begun(c, b) = [c EXCEPT !.messages = t, !.rounds = 0]
  BY DEF Begun, t, h
<1>7. /\ Begun(c, b) \in State /\ Begun(c, b).messages = t
      /\ Begun(c, b).summary = c.summary /\ Begun(c, b).skills = c.skills
      /\ Begun(c, b).rounds = 0
  <2>1. t \in Seq(Entries) /\ 0 \in Nat
    BY <1>5
  <2> HIDE DEF s
  <2>2. QED
    BY <1>6, <2>1 DEF State
<1>8. QED
  BY <1>1, <1>4, <1>5, <1>7

(* The burst, younger than everything before, enters a sound checkpoint.   *)
LEMMA SoundBegun ==
    ASSUME NEW c, NEW b \in Seq(1..LastMessage), NEW lo \in Int, NEW hi \in Int,
           NEW open, Sound(c, lo, hi, open), lo <= hi,
           \A i \in DOMAIN b : b[i] = hi + i
    PROVE  Sound(Begun(c, b), lo, hi + Len(b), open)
<1> DEFINE d == Begun(c, b)
           s == c.messages
           t == d.messages
           n == Len(s)
           m == Len(b)
<1>1. c \in State /\ Ordered(c) /\ Dated(c, lo, hi) /\ Paired(s)
      /\ Answered(s, open) /\ Applied(c, open)
  BY DEF Sound
<1>2. /\ d \in State /\ d.summary = c.summary /\ d.skills = c.skills
      /\ Len(t) = n + m /\ DOMAIN t = 1..(n + m)
      /\ \A k \in 1..n : t[k] = s[k]
      /\ \A k \in 1..m : t[n + k] = Human(b[k])
      /\ n \in Nat /\ DOMAIN s = 1..n /\ m \in Nat
  BY <1>1, BegunFields
<1>3. /\ \A k \in 1..n : s[k].id \in Int /\ lo < s[k].id /\ s[k].id <= hi
      /\ \A e \in c.summary : e.id \in Int /\ lo < e.id /\ e.id <= hi
  BY <1>1, <1>2, StateFields DEF Dated
<1>4. \A k \in 1..m : Human(b[k]).id = hi + k /\ Human(b[k]).kind = "human"
  <2>1. DOMAIN b = 1..m
    OBVIOUS
  <2>2. QED
    BY <2>1 DEF Human, Entry
<1> HIDE DEF d, t, s, n, m
<1>5. ASSUME NEW k \in 1..(n + m)
      PROVE  \/ k \in 1..n /\ t[k] = s[k]
             \/ /\ k - n \in 1..m /\ k > n
                /\ t[k].id = hi + (k - n) /\ t[k].kind = "human"
  <2>1. CASE k \in 1..n
    BY <1>2, <2>1
  <2>2. CASE k \notin 1..n
    <3>1. k - n \in 1..m /\ n + (k - n) = k /\ k > n
      BY <1>2, <2>2
    <3>2. t[k] = Human(b[k - n])
      BY <1>2, <3>1
    <3>3. QED
      BY <1>4, <3>1, <3>2
  <2>3. QED
    BY <2>1, <2>2
<1>6. Ordered(d)
  <2>1. ASSUME NEW i \in 1..(n + m), NEW j \in 1..(n + m), i < j
        PROVE  t[i].id <= t[j].id /\ (t[j].kind = "human" => t[i].id < t[j].id)
    <3>1. CASE j \in 1..n
      <4>1. i \in 1..n
        BY <1>2, <2>1, <3>1
      <4>2. QED
        BY <1>1, <1>2, <2>1, <3>1, <4>1 DEF Ordered, s
    <3>2. CASE j \notin 1..n
      <4>1. t[j].id = hi + (j - n) /\ j > n /\ j \in Int /\ n \in Int
        BY <1>2, <1>5, <3>2
      <4>2. CASE i \in 1..n
        <5>1. t[i].id \in Int /\ t[i].id <= hi
          BY <1>2, <1>3, <4>2
        <5>2. QED
          BY <4>1, <5>1
      <4>3. CASE i \notin 1..n
        <5>1. t[i].id = hi + (i - n)
          BY <1>5, <4>3
        <5>2. QED
          BY <2>1, <4>1, <5>1
      <4>4. QED
        BY <4>2, <4>3
    <3>3. QED
      BY <3>1, <3>2
  <2>2. ASSUME NEW e \in c.summary, NEW i \in 1..(n + m), t[i].kind = "human"
        PROVE  e.id < t[i].id
    <3>1. CASE i \in 1..n
      BY <1>1, <1>2, <2>2, <3>1 DEF Ordered, s
    <3>2. CASE i \notin 1..n
      <4>1. t[i].id = hi + (i - n) /\ i > n /\ i \in Int /\ n \in Int
        BY <1>2, <1>5, <3>2
      <4>2. e.id \in Int /\ e.id <= hi
        BY <1>3
      <4>3. QED
        BY <4>1, <4>2
    <3>3. QED
      BY <3>1, <3>2
  <2>3. QED
    BY <1>2, <2>1, <2>2 DEF Ordered, t
<1>7. Dated(d, lo, hi + m)
  <2>1. ASSUME NEW i \in 1..(n + m)
        PROVE  lo < t[i].id /\ t[i].id <= hi + m
    <3>1. CASE i \in 1..n
      <4>1. t[i].id \in Int /\ lo < t[i].id /\ t[i].id <= hi
        BY <1>2, <1>3, <3>1
      <4>2. QED
        BY <1>2, <4>1
    <3>2. CASE i \notin 1..n
      <4>1. t[i].id = hi + (i - n) /\ i > n /\ i \in Int /\ n \in Int /\ i - n <= m
        BY <1>2, <1>5, <3>2
      <4>2. QED
        BY <1>2, <4>1
    <3>3. QED
      BY <3>1, <3>2
  <2>2. \A e \in c.summary : lo < e.id /\ e.id <= hi + m
    BY <1>2, <1>3
  <2>3. QED
    BY <1>2, <2>1, <2>2 DEF Dated, t
<1>8. Paired(t)
  <2> SUFFICES ASSUME NEW i \in 1..(n + m), t[i].kind = "results"
               PROVE  i > 1 /\ t[i - 1].kind = "calls"
    BY <1>2 DEF Paired
  <2>1. i \in 1..n /\ t[i] = s[i]
    BY <1>5
  <2>2. i > 1 /\ s[i - 1].kind = "calls"
    BY <1>1, <1>2, <2>1 DEF Paired, s
  <2>3. i - 1 \in 1..n
    BY <1>2, <2>1, <2>2
  <2>4. QED
    BY <1>2, <2>2, <2>3
<1>9. Answered(t, open)
  <2> SUFFICES ASSUME NEW i \in 1..(n + m), t[i].kind = "calls"
               PROVE  Replied(t, i) \/ t[i].id \in open
    BY <1>2 DEF Answered
  <2>1. i \in 1..n /\ t[i] = s[i]
    BY <1>5
  <2>2. Replied(s, i) \/ s[i].id \in open
    BY <1>1, <1>2, <2>1 DEF Answered, s
  <2>3. CASE Replied(s, i)
    <3>1. i < n /\ s[i + 1].kind = "results"
      BY <2>3 DEF Replied, n
    <3>2. i + 1 \in 1..n /\ i < n + m
      BY <1>2, <3>1
    <3>3. QED
      BY <1>2, <3>1, <3>2 DEF Replied
  <2>4. QED
    BY <2>1, <2>2, <2>3
<1>10. Applied(d, open)
  <2> SUFFICES ASSUME NEW i \in 1..(n + m), LastCall(t, i), t[i].id \notin open
               PROVE  AsCalled(t[i].calls, d.skills)
    BY <1>2 DEF Applied, t
  <2>1. i \in 1..n /\ t[i] = s[i]
    BY <1>5 DEF LastCall
  <2>2. LastCall(s, i)
    BY <1>2, <2>1 DEF LastCall, n
  <2>3. QED
    BY <1>1, <1>2, <2>1, <2>2 DEF Applied, s
<1>11. QED
  BY <1>2, <1>6, <1>7, <1>8, <1>9, <1>10 DEF Sound, d, t, m

LEMMA BegunGrows ==
    ASSUME NEW c \in State, NEW b \in Seq(1..LastMessage)
    PROVE  /\ Grows(c, Begun(c, b))
           /\ \A i \in DOMAIN b : InList(Begun(c, b), Human(b[i]))
<1> DEFINE d == Begun(c, b)
           n == Len(c.messages)
<1>1. /\ d.summary = c.summary
      /\ DOMAIN d.messages = 1..(n + Len(b))
      /\ \A k \in 1..n : d.messages[k] = c.messages[k]
      /\ \A k \in 1..Len(b) : d.messages[n + k] = Human(b[k])
      /\ n \in Nat /\ DOMAIN c.messages = 1..n /\ Len(b) \in Nat
  BY BegunFields
<1>2. DOMAIN b = 1..Len(b)
  OBVIOUS
<1> HIDE DEF d
<1>3. Grows(c, d)
  BY <1>1 DEF Grows, Present
<1>4. ASSUME NEW i \in DOMAIN b
      PROVE  InList(d, Human(b[i]))
  <2>1. n + i \in DOMAIN d.messages
    BY <1>1, <1>2
  <2>2. QED
    BY <1>1, <1>2, <2>1 DEF InList
<1>5. QED
  BY <1>3, <1>4 DEF d

-----------------------------------------------------------------------------
(* How the steps change the chain of checkpoints                           *)

LEMMA GrowsTransitive ==
    /\ \A c : Grows(c, c)
    /\ \A c, d, e : Grows(c, d) /\ Grows(d, e) => Grows(c, e)
BY DEF Grows

LEMMA UnsavedTyped ==
    ASSUME TypeOK
    PROVE  /\ unsaved \in Seq(State) /\ Len(unsaved) \in Nat
           /\ DOMAIN unsaved = 1..Len(unsaved)
           /\ \A i \in DOMAIN unsaved : unsaved[i] \in State
           /\ disk \in State /\ \A c \in Points : c \in State
           /\ Conv \in Points
           /\ unsaved = <<>> => Conv = disk /\ Points = {disk}
           /\ unsaved # <<>> => Len(unsaved) > 0 /\ Conv = unsaved[Len(unsaved)]
<1>1. unsaved \in Seq(State) /\ disk \in State
  BY DEF TypeOK
<1>2. Len(unsaved) \in Nat /\ DOMAIN unsaved = 1..Len(unsaved)
  BY <1>1
<1>3. \A i \in DOMAIN unsaved : unsaved[i] \in State
  BY <1>1, ElementOfSeq, LenProperties
<1>4. \A c \in Points : c \in State
  BY <1>1, <1>3 DEF Points
<1>5. unsaved # <<>> => Len(unsaved) > 0 /\ Conv = unsaved[Len(unsaved)]
  <2>1. unsaved # <<>> => Len(unsaved) > 0
    BY <1>1, EmptySeq
  <2>2. QED
    BY <2>1 DEF Conv
<1>6. unsaved = <<>> => Conv = disk /\ DOMAIN unsaved = {}
  BY DEF Conv
<1>7. Conv \in Points
  BY <1>2, <1>5, <1>6 DEF Points
<1>8. unsaved = <<>> => Points = {disk}
  BY <1>6 DEF Points
<1>9. QED
  BY <1>1, <1>2, <1>3, <1>4, <1>5, <1>6, <1>7, <1>8

(* A step that leaves the checkpoints alone.                               *)
LEMMA SamePoints ==
    ASSUME UNCHANGED <<disk, unsaved>>
    PROVE  Points' = Points /\ Conv' = Conv /\ Chain' = Chain
BY DEF Points, Conv, Chain

(* A step that rewrites the disk, nothing being on its way there.          *)
LEMMA DiskPoints ==
    ASSUME unsaved' = <<>>
    PROVE  Points' = {disk'} /\ Conv' = disk' /\ Chain'
<1>1. DOMAIN unsaved' = {}
  OBVIOUS
<1>2. QED
  BY <1>1 DEF Points, Conv, Chain

(* A node adds a checkpoint that holds what the newest did.                *)
LEMMA NodePoints ==
    ASSUME TypeOK, Chain, NEW c \in State, Grows(Conv, c),
           unsaved' = Append(unsaved, c), disk' = disk
    PROVE  /\ unsaved' \in Seq(State)
           /\ Points' = Points \cup {c} /\ Conv' = c /\ Chain'
<1> DEFINE n == Len(unsaved)
<1>1. /\ n \in Nat /\ DOMAIN unsaved = 1..n
      /\ unsaved = <<>> => Conv = disk
      /\ unsaved # <<>> => n > 0 /\ Conv = unsaved[n]
      /\ unsaved \in Seq(State)
  BY UnsavedTyped
<1>2. /\ unsaved' \in Seq(State) /\ Len(unsaved') = n + 1
      /\ DOMAIN unsaved' = 1..(n + 1)
      /\ \A i \in 1..n : unsaved'[i] = unsaved[i]
      /\ unsaved'[n + 1] = c
  BY <1>1
<1>3. unsaved' # <<>>
  BY <1>1, <1>2
<1>4. Conv' = c
  BY <1>2, <1>3 DEF Conv
<1>5. 1..(n + 1) = 1..n \cup {n + 1}
  BY <1>1
<1>6. Points' = Points \cup {c}
  BY <1>1, <1>2, <1>5 DEF Points
<1>7. \A i \in 1..n : i <= n /\ (unsaved # <<>>)
  <2>1. unsaved = <<>> => n = 0
    OBVIOUS
  <2>2. QED
    BY <1>1, <2>1
<1>8. \A i \in 1..n : Grows(unsaved[i], c)
  <2> SUFFICES ASSUME NEW i \in 1..n
               PROVE  Grows(unsaved[i], c)
    OBVIOUS
  <2>1. i = n \/ Grows(unsaved[i], unsaved[n])
    <3> HIDE DEF n
    <3>1. n \in DOMAIN unsaved /\ i \in DOMAIN unsaved /\ (i = n \/ i < n)
      <4>1. n \in Nat /\ DOMAIN unsaved = 1..n
        BY <1>1
      <4>2. i <= n /\ i \in Nat /\ n \in 1..n
        BY <4>1
      <4>3. QED
        BY <4>1, <4>2
    <3>2. QED
      BY <3>1 DEF Chain, n
  <2>2. QED
    BY <1>1, <1>7, <2>1, GrowsTransitive
<1>9. Grows(disk, c)
  <2>1. CASE unsaved = <<>>
    BY <1>1, <2>1
  <2>2. CASE unsaved # <<>>
    <3>1. Grows(disk, unsaved[n])
      BY <1>1, <2>2 DEF Chain
    <3>2. QED
      BY <1>1, <2>2, <3>1, GrowsTransitive
  <2>3. QED
    BY <2>1, <2>2
<1>10. \A i \in 1..(n + 1) : Grows(disk', unsaved'[i])
  BY <1>1, <1>2, <1>5, <1>9 DEF Chain
<1>11. ASSUME NEW i \in 1..(n + 1), NEW j \in 1..(n + 1), i < j
       PROVE  Grows(unsaved'[i], unsaved'[j])
  <2>1. i \in 1..n /\ (j \in 1..n \/ j = n + 1)
    BY <1>1, <1>11
  <2>2. QED
    BY <1>1, <1>2, <1>8, <1>11, <2>1 DEF Chain
<1>12. QED
  BY <1>2, <1>4, <1>6, <1>10, <1>11 DEF Chain

(* The checkpointer writes the oldest of them.                             *)
LEMMA SavePoints ==
    ASSUME TypeOK, Chain, Save
    PROVE  /\ disk' \in State /\ unsaved' \in Seq(State)
           /\ Points' \subseteq Points /\ Conv' = Conv /\ Chain'
           /\ Grows(disk, disk')
<1> DEFINE n == Len(unsaved)
<1>1. /\ n \in Nat /\ DOMAIN unsaved = 1..n /\ unsaved \in Seq(State)
      /\ n > 0 /\ Conv = unsaved[n] /\ unsaved # <<>>
      /\ \A i \in DOMAIN unsaved : unsaved[i] \in State
  BY UnsavedTyped DEF Save
<1>2. disk' = unsaved[1] /\ unsaved' = Tail(unsaved)
  BY <1>1 DEF Save
<1>3. /\ unsaved' \in Seq(State) /\ Len(unsaved') = n - 1
      /\ \A i \in 1..(n - 1) : unsaved'[i] = unsaved[i + 1]
  BY <1>1, <1>2, HeadTailProperties
<1>4. DOMAIN unsaved' = 1..(n - 1) /\ 1 \in DOMAIN unsaved
      /\ \A i \in 1..(n - 1) : i + 1 \in DOMAIN unsaved
  BY <1>1, <1>3
<1>5. Points' \subseteq Points
  BY <1>2, <1>3, <1>4 DEF Points
<1>6. Conv' = Conv
  <2>1. CASE n = 1
    <3>1. unsaved' = <<>>
      BY <1>3, <2>1, EmptySeq
    <3>2. QED
      BY <1>1, <1>2, <2>1, <3>1 DEF Conv
  <2>2. CASE n > 1
    <3>1. unsaved' # <<>> /\ n - 1 \in 1..(n - 1) /\ (n - 1) + 1 = n
      BY <1>1, <1>3, <2>2
    <3>2. unsaved'[n - 1] = unsaved[n]
      BY <1>3, <3>1
    <3>3. QED
      BY <1>1, <1>3, <3>1, <3>2 DEF Conv
  <2>3. QED
    BY <1>1, <2>1, <2>2
<1>7. \A i \in 1..(n - 1) : Grows(disk', unsaved'[i])
  BY <1>1, <1>2, <1>3, <1>4 DEF Chain
<1>8. \A i, j \in 1..(n - 1) : i < j => Grows(unsaved'[i], unsaved'[j])
  <2> SUFFICES ASSUME NEW i \in 1..(n - 1), NEW j \in 1..(n - 1), i < j
               PROVE  Grows(unsaved[i + 1], unsaved[j + 1])
    BY <1>3
  <2>1. i + 1 < j + 1 /\ i + 1 \in DOMAIN unsaved /\ j + 1 \in DOMAIN unsaved
    BY <1>4
  <2>2. QED
    BY <2>1 DEF Chain
<1>9. Chain'
  BY <1>4, <1>7, <1>8 DEF Chain
<1>10. Grows(disk, disk') /\ disk' \in State
  BY <1>1, <1>2, <1>4 DEF Chain
<1>11. QED
  BY <1>3, <1>5, <1>6, <1>9, <1>10

-----------------------------------------------------------------------------
(* The invariant, step by step                                             *)

(* What the invariant says of the burst at work.                           *)
LEMMA BurstFacts ==
    ASSUME TypeOK, BurstOK
    PROVE  /\ heard \in Nat /\ cleared \in Nat /\ cleared <= heard /\ steps \in Nat
           /\ LastMessage \in Nat /\ heard <= LastMessage
           /\ burst \in Seq(1..LastMessage)
           /\ Len(burst) \in Nat /\ DOMAIN burst = 1..Len(burst)
           /\ Latest \in Int
           /\ stage # "idle" =>
                 /\ BurstId = heard /\ heard > cleared
                 /\ heard \in 1..LastMessage /\ heard \in 0..LastMessage
           /\ unsaved = <<>> \/ Live
<1>1. /\ heard \in 0..LastMessage /\ cleared \in Nat /\ steps \in Nat
      /\ burst \in Seq(1..LastMessage)
  BY DEF TypeOK
<1>2. LastMessage \in Nat
  BY TurnAssumption DEF TurnAssumption
<1>3. Len(burst) \in Nat /\ DOMAIN burst = 1..Len(burst)
  BY <1>1
<1>4. heard \in Nat /\ heard <= LastMessage
  BY <1>1, <1>2
<1>5. Latest \in Int
  BY <1>1, <1>3, <1>4 DEF Latest
<1>6. ASSUME stage # "idle"
      PROVE  BurstId = heard /\ heard > cleared
  <2>1. Len(burst) \in DOMAIN burst /\ cleared <= heard - Len(burst) /\ Len(burst) > 0
    BY <1>3, <1>6 DEF BurstOK
  <2>2. burst[Len(burst)] = heard - Len(burst) + Len(burst)
    BY <1>6, <2>1 DEF BurstOK
  <2>3. QED
    BY <1>1, <1>3, <1>4, <2>1, <2>2 DEF BurstId
<1>7. QED
  BY <1>1, <1>2, <1>3, <1>4, <1>5, <1>6 DEF BurstOK

LEMMA PublishedTyped ==
    ASSUME TypeOK
    PROVE  \A n \in DOMAIN published :
              /\ published[n] \in Seq(1..LastMessage)
              /\ \A i \in DOMAIN published[n] : published[n][i] \in Int
<1> SUFFICES ASSUME NEW n \in DOMAIN published
             PROVE  /\ published[n] \in Seq(1..LastMessage)
                    /\ \A i \in DOMAIN published[n] : published[n][i] \in Int
  OBVIOUS
<1>1. published[n] \in Seq(1..LastMessage)
  BY ElementOfSeq, LenProperties DEF TypeOK
<1>2. \A i \in DOMAIN published[n] : published[n][i] \in 1..LastMessage
  BY <1>1, ElementOfSeq, LenProperties
<1>3. QED
  BY <1>1, <1>2

(* What a point is at a stage where no run is at work, and where one is.   *)
LEMMA PointsSettled ==
    ASSUME IInv, ~ Live
    PROVE  /\ unsaved = <<>> /\ Points = {disk} /\ Conv = disk /\ Open = cut
           /\ Sound(disk, cleared, Latest, cut)
<1>1. unsaved = <<>>
  BY DEF IInv, BurstOK
<1>2. Points = {disk} /\ Conv = disk
  BY <1>1, UnsavedTyped DEF IInv
<1>3. Open = cut
  BY DEF Open
<1>4. QED
  BY <1>1, <1>2, <1>3 DEF IInv, PointsSound

LEMMA PointsLive ==
    ASSUME IInv, Live
    PROVE  /\ Latest = heard /\ Open = cut \cup {heard} /\ stage # "idle"
           /\ Conv \in State
           /\ Sound(Conv, cleared, heard, Open)
           /\ (Answered(Conv.messages, cut) /\ Applied(Conv, cut)) =>
                 Sound(Conv, cleared, heard, cut)
<1>1. Latest = heard /\ Open = cut \cup {heard} /\ stage # "idle"
  BY DEF Live, GraphStages, Latest, Open
<1>2. Conv \in Points
  BY UnsavedTyped DEF IInv
<1>3. Sound(Conv, cleared, heard, Open)
  BY <1>1, <1>2 DEF IInv, PointsSound
<1>4. QED
  BY <1>1, <1>3 DEF Sound

-----------------------------------------------------------------------------
LEMMA HearKeeps ==
    ASSUME IInv, NEW k \in 1..BatchMax, Hear(k)
    PROVE  IInv'
<1> USE DEF IInv
<1>1. /\ stage = "idle" /\ heard + k <= LastMessage /\ heard' = heard + k
      /\ burst' = [i \in 1..k |-> heard + i] /\ wanted' \in BOOLEAN
      /\ stage' = "compact"
      /\ UNCHANGED <<limit, cut, steps, disk, unsaved, text, cleared, sent, published>>
  BY DEF Hear
<1>2. k \in Nat /\ k > 0
  BY TurnAssumption DEF TurnAssumption
<1>3. /\ heard \in Nat /\ cleared \in Nat /\ cleared <= heard /\ LastMessage \in Nat
  BY BurstFacts
<1>4. ~ Live /\ ~ Live'
  BY <1>1 DEF Live, GraphStages
<1>5. Sound(disk, cleared, Latest, cut) /\ unsaved = <<>> /\ Points = {disk} /\ Open = cut
  BY <1>4, PointsSettled
<1>6. Len(burst') = k /\ DOMAIN burst' = 1..k /\ burst' \in Seq(1..LastMessage)
  <2>1. \A i \in 1..k : heard + i \in 1..LastMessage
    BY <1>1, <1>2, <1>3
  <2>2. QED
    BY <1>1, <1>2, <2>1
<1>7. heard' - Len(burst') = heard
  BY <1>1, <1>2, <1>3, <1>6
<1>8. TypeOK'
  <2>1. heard' \in 0..LastMessage
    BY <1>1, <1>2, <1>3
  <2>2. QED
    BY <1>1, <1>6, <2>1 DEF TypeOK
<1>9. BurstOK'
  <2>1. cleared' <= heard' /\ heard' - Len(burst') + 0 = heard
    BY <1>1, <1>2, <1>3, <1>7
  <2>2. \A i \in DOMAIN burst' : burst'[i] = heard' - Len(burst') + i
    BY <1>1, <1>6, <1>7
  <2>3. QED
    BY <1>1, <1>2, <1>3, <1>5, <1>6, <1>7, <2>1, <2>2 DEF BurstOK
<1>10. Points' = Points /\ Conv' = Conv /\ Chain'
  BY <1>1, SamePoints
<1>11. PointsSound'
  <2>1. Latest' = heard /\ Latest = heard /\ Open' = cut
    BY <1>1, <1>4, <1>7 DEF Latest, Open
  <2>2. QED
    BY <1>1, <1>5, <1>10, <2>1 DEF PointsSound
<1>12. RunOK' /\ BurstKept'
  BY <1>1, <1>4 DEF RunOK, BurstKept
<1>13. HistoryBounded'
  <2>1. \A n \in DOMAIN published : \A i \in DOMAIN published[n] : published[n][i] \in Int
    BY PublishedTyped
  <2>2. sent \subseteq 1..heard /\ 1..heard \subseteq 1..heard'
    BY <1>1, <1>2, <1>3 DEF HistoryBounded
  <2>3. \A n \in DOMAIN published : \A i \in DOMAIN published[n] : published[n][i] <= heard'
    BY <1>1, <1>2, <1>3, <2>1 DEF HistoryBounded
  <2>4. QED
    BY <1>1, <2>2, <2>3 DEF HistoryBounded
<1>14. QED
  BY <1>8, <1>9, <1>10, <1>11, <1>12, <1>13

(* The compaction of the disk, at a stage where no run is at work.         *)
LEMMA SummarizeKeeps ==
    ASSUME IInv, ~ Live, Summarize
    PROVE  /\ disk' \in State /\ Sound(disk', cleared, Latest, cut)
           /\ ~ EmptySummary => Grows(disk, disk')
<1>1. Sound(disk, cleared, Latest, cut)
  BY PointsSettled
<1>2. disk \in State /\ cleared \in Int /\ Latest \in Int
  BY <1>1, BurstFacts DEF Sound, IInv
<1>3. PICK i \in 1..Len(disk.messages) :
        /\ KeepsFrom(disk.messages, i)
        /\ LET gone == {disk.messages[j] : j \in 1..i}
           IN  \E s \in {SummaryOf(disk.summary, gone)}
                          \cup (IF EmptySummary THEN {{}} ELSE {}) :
                  disk' = [disk EXCEPT
                             !.messages = SubSeq(@, i + 1, Len(@)),
                             !.summary = s]
  BY DEF Summarize
<1> DEFINE gone == {disk.messages[j] : j \in 1..i}
<1>4. PICK s \in {SummaryOf(disk.summary, gone)}
                   \cup (IF EmptySummary THEN {{}} ELSE {}) :
        disk' = [disk EXCEPT !.messages = SubSeq(@, i + 1, Len(@)), !.summary = s]
  BY <1>3
<1>5. disk' = Shortened(disk, i, s)
  BY <1>4 DEF Shortened
<1>6. s \subseteq disk.summary \cup gone
  BY <1>4 DEF SummaryOf
<1>7. gone \subseteq Entries /\ disk.summary \subseteq Entries
  <2>1. \A j \in 1..i : j \in DOMAIN disk.messages
    BY <1>2, StateFields
  <2>2. QED
    BY <1>2, <2>1, StateFields
<1>8. s \in SUBSET Entries
  BY <1>6, <1>7
<1>9. Sound(disk', cleared, Latest, cut)
  BY <1>1, <1>2, <1>3, <1>5, <1>6, SoundShortened
<1>10. ~ EmptySummary => Grows(disk, disk')
  <2>1. ~ EmptySummary => s = disk.summary \cup gone
    BY <1>4 DEF SummaryOf
  <2>2. QED
    BY <1>2, <1>5, <1>8, <2>1, ShortenedGrows
<1>11. QED
  BY <1>9, <1>10 DEF Sound

LEMMA CompactKeeps ==
    ASSUME IInv, Compact
    PROVE  IInv' /\ (~ EmptySummary => Grows(disk, disk'))
<1> USE DEF IInv
<1>1. /\ stage = "compact" /\ (Summarize \/ UNCHANGED disk)
      /\ stage' = (IF wanted THEN "invoke" ELSE "record")
      /\ UNCHANGED <<limit, cut, heard, burst, wanted, steps, unsaved, text,
                     cleared, sent, published>>
  BY DEF Compact
<1>2. ~ Live /\ ~ Live' /\ (stage' = "invoke" \/ stage' = "record")
  BY <1>1 DEF Live, GraphStages
<1>3. Sound(disk, cleared, Latest, cut) /\ unsaved = <<>> /\ Open = cut
  BY <1>2, PointsSettled
<1>4. /\ disk' \in State /\ Sound(disk', cleared, Latest, cut)
      /\ ~ EmptySummary => Grows(disk, disk')
  BY <1>1, <1>2, <1>3, SummarizeKeeps, GrowsTransitive DEF Sound
<1>5. TypeOK'
  BY <1>1, <1>2, <1>4 DEF TypeOK
<1>6. steps = 0 /\ heard \in Nat /\ Len(burst) \in Nat
  BY <1>1, BurstFacts DEF BurstOK
<1>7. BurstOK'
  BY <1>1, <1>2, <1>3, <1>6 DEF BurstOK
<1>8. Points' = {disk'} /\ Conv' = disk' /\ Chain'
  BY <1>1, <1>3, DiskPoints
<1>9. PointsSound'
  <2>1. Latest' = Latest /\ Open' = cut
    BY <1>1, <1>2, <1>6 DEF Latest, Open
  <2>2. QED
    BY <1>1, <1>4, <1>8, <2>1 DEF PointsSound
<1>10. RunOK' /\ BurstKept'
  BY <1>1, <1>2, <1>6 DEF RunOK, BurstKept
<1>11. HistoryBounded'
  BY <1>1 DEF HistoryBounded
<1>12. QED
  BY <1>4, <1>5, <1>7, <1>8, <1>9, <1>10, <1>11

LEMMA InvokeKeeps ==
    ASSUME IInv, Invoke
    PROVE  IInv'
<1> USE DEF IInv
<1>1. /\ stage = "invoke" /\ stage' = "describe" /\ steps' = 0 /\ text' = FALSE
      /\ unsaved' = <<Begun(disk, burst)>>
      /\ UNCHANGED <<limit, cut, heard, burst, wanted, disk, cleared, sent, published>>
  BY DEF Invoke, Begun
<1>2. ~ Live /\ Live'
  BY <1>1 DEF Live, GraphStages
<1>3. Sound(disk, cleared, Latest, cut)
  BY <1>2, PointsSettled
<1>4. /\ heard \in Nat /\ cleared \in Nat /\ burst \in Seq(1..LastMessage)
      /\ Len(burst) \in Nat
  BY BurstFacts
<1>5. /\ Latest = heard - Len(burst) /\ Latest \in Int /\ cleared <= Latest
      /\ \A i \in DOMAIN burst : burst[i] = Latest + i
      /\ Latest + Len(burst) = heard
  BY <1>1, <1>4 DEF Latest, BurstOK
<1> DEFINE c == Begun(disk, burst)
<1>6. Sound(c, cleared, heard, cut)
  <2>1. cleared \in Int
    BY <1>4
  <2>2. QED
    BY <1>3, <1>4, <1>5, <2>1, SoundBegun
<1>7. disk \in State /\ c \in State
  BY <1>3, <1>6 DEF Sound
<1>8. /\ Grows(disk, c) /\ \A i \in DOMAIN burst : InList(c, Human(burst[i]))
      /\ c.rounds = 0
  BY <1>4, <1>7, BegunGrows, BegunFields
<1> HIDE DEF c
<1>9. Latest' = heard /\ Open' = cut \cup {heard}
  BY <1>1, <1>2 DEF Latest, Open
<1>10. /\ unsaved' \in Seq(State) /\ DOMAIN unsaved' = {1} /\ unsaved'[1] = c
       /\ unsaved' # <<>> /\ Len(unsaved') = 1
  BY <1>1, <1>7 DEF c
<1>11. Points' = {disk, c} /\ Conv' = c /\ Chain'
  BY <1>1, <1>8, <1>10 DEF Points, Conv, Chain
<1>12. TypeOK'
  <2>1. stage' \in GraphStages
    BY <1>1 DEF GraphStages
  <2>2. QED
    BY <1>1, <1>10, <2>1 DEF TypeOK
<1>13. BurstOK'
  BY <1>1, <1>2 DEF BurstOK
<1>14. PointsSound'
  <2>1. Sound(disk, cleared, heard, Open')
    <3>1. Latest <= heard /\ cleared \in Int /\ heard \in Int
      BY <1>4, <1>5
    <3>2. QED
      BY <1>3, <1>5, <1>9, <3>1, SoundLater
  <2>2. Sound(c, cleared, heard, Open')
    <3>1. heard <= heard /\ cleared \in Int /\ heard \in Int
      BY <1>4
    <3>2. QED
      BY <1>6, <1>9, <3>1, SoundLater
  <2>3. QED
    BY <1>1, <1>9, <1>11, <2>1, <2>2 DEF PointsSound
<1>15. RunOK'
  <2>1. MaxRounds \in Nat
    BY TurnAssumption DEF TurnAssumption
  <2>2. QED
    BY <1>1, <1>6, <1>8, <1>11, <2>1 DEF RunOK, Sound
<1>16. BurstKept'
  BY <1>1, <1>8, <1>11 DEF BurstKept
<1>17. HistoryBounded'
  BY <1>1 DEF HistoryBounded
<1>18. QED
  BY <1>11, <1>12, <1>13, <1>14, <1>15, <1>16, <1>17

LEMMA SaveKeeps ==
    ASSUME IInv, Save
    PROVE  IInv' /\ Grows(disk, disk')
<1> USE DEF IInv
<1>1. /\ unsaved # <<>>
      /\ UNCHANGED <<limit, cut, heard, stage, burst, wanted, steps, text,
                     cleared, sent, published>>
  BY DEF Save
<1>2. Live /\ stage \notin {"publish", "record"}
  BY <1>1 DEF BurstOK, Live, GraphStages
<1>3. /\ disk' \in State /\ unsaved' \in Seq(State)
      /\ Points' \subseteq Points /\ Conv' = Conv /\ Chain'
      /\ Grows(disk, disk')
  BY SavePoints
<1>4. TypeOK'
  BY <1>1, <1>3 DEF TypeOK
<1>5. BurstOK'
  BY <1>1, <1>2 DEF BurstOK, Live
<1>6. PointsSound'
  BY <1>1, <1>3 DEF PointsSound, Latest, Open, Live
<1>7. RunOK'
  BY <1>1, <1>3 DEF RunOK, Live
<1>8. BurstKept'
  BY <1>1, <1>2, <1>3 DEF BurstKept, Live
<1>9. HistoryBounded'
  BY <1>1 DEF HistoryBounded
<1>10. QED
  BY <1>3, <1>4, <1>5, <1>6, <1>7, <1>8, <1>9

-----------------------------------------------------------------------------
(* What every node does to the invariant: its checkpoint c is sound up to  *)
(* the open run and holds what the one before held.                        *)
LEMMA NodeKeeps ==
    ASSUME IInv, NEW from \in GraphStages, NEW to \in GraphStages \cup {"reply"},
           NEW c, Node(from, c, to), text' \in BOOLEAN,
           Sound(c, cleared, heard, Open), Grows(Conv, c),
           \A f : InList(Conv, f) => InList(c, f)
    PROVE  /\ TypeOK' /\ BurstOK' /\ PointsSound' /\ Chain' /\ HistoryBounded'
           /\ Conv' = c /\ Grows(disk, disk')
           /\ (to = "reply" => InList(c, Answer(heard))) => BurstKept'
<1> USE DEF IInv
<1>1. /\ stage = from /\ stage' = to /\ steps' = steps + 1
      /\ unsaved' = Append(unsaved, c)
      /\ UNCHANGED <<limit, cut, heard, burst, wanted, disk, cleared, sent, published>>
  BY DEF Node
<1>2. Live /\ Live'
  BY <1>1 DEF Live
<1>3. stage' \notin {"idle", "compact", "invoke", "record", "publish"}
  BY <1>1 DEF GraphStages
<1>4. c \in State
  BY DEF Sound
<1>5. /\ unsaved' \in Seq(State)
      /\ Points' = Points \cup {c} /\ Conv' = c /\ Chain'
  BY <1>1, <1>4, NodePoints
<1>6. TypeOK'
  <2>1. steps' \in Nat
    BY <1>1, BurstFacts
  <2>2. QED
    BY <1>1, <1>5, <2>1 DEF TypeOK
<1>7. BurstOK'
  <2>1. stage # "idle"
    BY <1>2, PointsLive
  <2>2. QED
    BY <1>1, <1>2, <1>3, <2>1 DEF BurstOK
<1>8. PointsSound'
  <2>1. Latest' = heard /\ Latest = heard /\ Open' = Open
    BY <1>1, <1>2, <1>3, PointsLive DEF Latest, Open
  <2>2. QED
    BY <1>1, <1>5, <2>1 DEF PointsSound
<1>9. HistoryBounded'
  BY <1>1 DEF HistoryBounded
<1>10. ASSUME to = "reply" => InList(c, Answer(heard))
       PROVE  BurstKept'
  BY <1>1, <1>2, <1>3, <1>5, <1>10 DEF BurstKept
<1>11. Grows(disk, disk')
  BY <1>1, GrowsTransitive
<1>12. QED
  BY <1>5, <1>6, <1>7, <1>8, <1>9, <1>10, <1>11

LEMMA DescribeKeeps ==
    ASSUME IInv, DescribeImage
    PROVE  IInv' /\ Grows(disk, disk')
<1>1. Node("describe", Conv, "llm") /\ UNCHANGED text
  BY DEF DescribeImage
<1>2. stage = "describe" /\ stage' = "llm" /\ steps' = steps + 1 /\ cut' = cut
  BY <1>1 DEF Node
<1>3. Live /\ text' \in BOOLEAN
  BY <1>1, <1>2 DEF Live, GraphStages, IInv, TypeOK
<1>4. Sound(Conv, cleared, heard, Open) /\ Conv \in State
  BY <1>3, PointsLive
<1>5. /\ TypeOK' /\ BurstOK' /\ PointsSound' /\ Chain' /\ HistoryBounded'
      /\ Conv' = Conv /\ Grows(disk, disk') /\ BurstKept'
  BY <1>1, <1>3, <1>4, GrowsTransitive, NodeKeeps DEF GraphStages
<1>6. RunOK'
  <2>1. /\ steps = 0 /\ Conv.rounds = 0 /\ MaxRounds \in Nat
        /\ Answered(Conv.messages, cut) /\ Applied(Conv, cut)
        /\ Conv.rounds <= MaxRounds
    BY <1>2, <1>3, TurnAssumption DEF IInv, RunOK, TurnAssumption
  <2>2. QED
    BY <1>2, <1>5, <2>1 DEF RunOK
<1>7. QED
  BY <1>5, <1>6 DEF IInv

(* The LLM answers, or asks for tools.                                     *)
LEMMA CallKeeps ==
    ASSUME IInv, CallLLM
    PROVE  IInv' /\ Grows(disk, disk')
<1>1. stage = "llm" /\ cut' = cut /\ Live
  BY DEF CallLLM, Node, Live, GraphStages
<1>2. /\ Conv \in State /\ Sound(Conv, cleared, heard, Open)
      /\ Open = cut \cup {heard} /\ stage # "idle"
  BY <1>1, PointsLive
<1>3. /\ Answered(Conv.messages, cut) /\ Applied(Conv, cut)
      /\ Conv.rounds <= MaxRounds /\ steps = 3 * Conv.rounds + 1
  BY <1>1 DEF IInv, RunOK
<1>4. Sound(Conv, cleared, heard, cut)
  BY <1>1, <1>3, PointsLive
<1>5. /\ heard \in 0..LastMessage /\ heard \in Int /\ cleared \in Int /\ cleared < heard
      /\ BurstId = heard /\ heard <= heard
  <2>1. /\ heard \in 0..LastMessage /\ heard \in Nat /\ cleared \in Nat /\ heard > cleared
        /\ BurstId = heard
    BY <1>2, BurstFacts DEF IInv
  <2>2. QED
    BY <2>1
<1>6. Conv.rounds \in Nat /\ MaxRounds \in Nat
  BY <1>2, StateFields, TurnAssumption DEF TurnAssumption
<1>7. CASE Node("llm", Say(Answer(BurstId)), "reply") /\ text' \in BOOLEAN
  <2> DEFINE c == With(Conv, Answer(heard))
  <2>1. Node("llm", c, "reply")
    BY <1>5, <1>7 DEF With, Say
  <2>2. /\ Answer(heard) \in Entries /\ Answer(heard).id = heard
        /\ Answer(heard).kind = "answer"
    BY <1>5, EntriesTyped DEF Answer, Entry
  <2>3. Sound(c, cleared, heard, Open) /\ Sound(c, cleared, heard, cut)
    BY <1>2, <1>4, <1>5, <2>2, WithTalk
  <2>4. /\ Grows(Conv, c) /\ InList(c, Answer(heard))
        /\ \A f : InList(Conv, f) => InList(c, f)
        /\ c.rounds = Conv.rounds
    BY <1>2, <2>2, WithGrows, WithFields
  <2> HIDE DEF c
  <2>5. /\ TypeOK' /\ BurstOK' /\ PointsSound' /\ Chain' /\ HistoryBounded'
        /\ Conv' = c /\ Grows(disk, disk') /\ BurstKept'
    BY <1>7, <2>1, <2>3, <2>4, NodeKeeps DEF GraphStages
  <2>6. stage' = "reply" /\ steps' = steps + 1
    BY <2>1 DEF Node
  <2>7. RunOK'
    BY <1>1, <1>3, <1>6, <2>3, <2>4, <2>5, <2>6 DEF RunOK, Sound
  <2>8. QED
    BY <2>5, <2>7 DEF IInv
<1>8. CASE /\ ToolsOffered
           /\ \E calls \in CallLists :
                 Node("llm",
                      [Say(Entry("calls", BurstId, calls)) EXCEPT !.rounds = @ + 1],
                      "tools")
           /\ text' = FALSE
  <2>1. PICK calls \in CallLists :
          Node("llm", [Say(Entry("calls", heard, calls)) EXCEPT !.rounds = @ + 1], "tools")
    BY <1>5, <1>8
  <2> DEFINE e == Entry("calls", heard, calls)
             b == With(Conv, e)
             c == [b EXCEPT !.rounds = @ + 1]
  <2>2. Node("llm", c, "tools") /\ text' \in BOOLEAN
    BY <1>8, <2>1 DEF With, Say
  <2>3. e \in Entries /\ e.kind = "calls"
    BY <1>5, EntriesTyped DEF Entry
  <2>4. Sound(b, cleared, heard, Open)
    BY <1>2, <1>5, WithCalls
  <2>5. /\ b.rounds = Conv.rounds /\ b \in State
        /\ Len(b.messages) = Len(Conv.messages) + 1
        /\ \A i \in 1..Len(Conv.messages) : b.messages[i] = Conv.messages[i]
        /\ b.messages[Len(Conv.messages) + 1] = e
        /\ Len(Conv.messages) \in Nat /\ DOMAIN Conv.messages = 1..Len(Conv.messages)
        /\ Grows(Conv, b) /\ \A f : InList(Conv, f) => InList(b, f)
    BY <1>2, <2>3, WithFields, WithGrows
  <2> HIDE DEF b, e
  <2>6. /\ c \in State /\ c.messages = b.messages /\ c.summary = b.summary
        /\ c.skills = b.skills /\ c.rounds = Conv.rounds + 1
    BY <1>6, <2>5 DEF State
  <2> HIDE DEF c
  <2>7. Sound(c, cleared, heard, Open)
    BY <2>4, <2>6 DEF Sound, Ordered, Dated, Applied
  <2>8. Grows(Conv, c) /\ \A f : InList(Conv, f) => InList(c, f)
    BY <2>5, <2>6 DEF Grows, Present, InList
  <2>9. /\ TypeOK' /\ BurstOK' /\ PointsSound' /\ Chain' /\ HistoryBounded'
        /\ Conv' = c /\ Grows(disk, disk') /\ BurstKept'
    BY <2>2, <2>7, <2>8, NodeKeeps DEF GraphStages
  <2>10. stage' = "tools" /\ steps' = steps + 1
    BY <2>2 DEF Node
  <2>11. c.rounds <= MaxRounds /\ steps' = 3 * c.rounds - 1
    BY <1>3, <1>6, <1>8, <2>6, <2>10 DEF ToolsOffered
  <2>12. /\ Len(c.messages) > 0 /\ c.messages[Len(c.messages)].kind = "calls"
         /\ Len(c.messages) - 1 = Len(Conv.messages)
    BY <2>3, <2>5, <2>6
  <2>13. \A i \in 1..Len(Conv.messages) :
            c.messages[i].kind = "calls" => Replied(c.messages, i) \/ c.messages[i].id \in cut
    <3> SUFFICES ASSUME NEW i \in 1..Len(Conv.messages), Conv.messages[i].kind = "calls",
                        Conv.messages[i].id \notin cut
                 PROVE  Replied(c.messages, i)
      BY <2>5, <2>6
    <3>1. Replied(Conv.messages, i)
      BY <1>3, <2>5 DEF Answered
    <3>2. i < Len(Conv.messages) /\ Conv.messages[i + 1].kind = "results"
      BY <3>1 DEF Replied
    <3>3. i + 1 \in 1..Len(Conv.messages)
      BY <2>5, <3>2
    <3>4. QED
      BY <2>5, <2>6, <3>2, <3>3 DEF Replied
  <2>14. RunOK'
    BY <1>1, <2>9, <2>10, <2>11, <2>12, <2>13 DEF RunOK
  <2>15. QED
    BY <2>9, <2>14 DEF IInv
<1>9. QED
  BY <1>7, <1>8 DEF CallLLM

LEMMA ToolsKeep ==
    ASSUME IInv, RunTools
    PROVE  IInv' /\ Grows(disk, disk')
<1> DEFINE e == Entry("results", heard, <<>>)
           c == With(Conv, e)
           s == Conv.messages
<1>1. /\ stage = "tools" /\ cut' = cut /\ Live /\ UNCHANGED text
      /\ Node("tools", Say(Entry("results", BurstId, <<>>)), "skills")
  BY DEF RunTools, Node, Live, GraphStages
<1>2. /\ Conv \in State /\ Sound(Conv, cleared, heard, Open) /\ stage # "idle"
  BY <1>1, PointsLive
<1>3. /\ heard \in 0..LastMessage /\ cleared \in Int /\ cleared < heard /\ BurstId = heard
  BY <1>2, BurstFacts DEF IInv
<1>4. /\ Len(s) > 0 /\ s[Len(s)].kind = "calls"
      /\ \A i \in 1..(Len(s) - 1) : s[i].kind = "calls" => Replied(s, i) \/ s[i].id \in cut
      /\ Conv.rounds <= MaxRounds /\ steps = 3 * Conv.rounds - 1
  BY <1>1 DEF IInv, RunOK
<1>5. Node("tools", c, "skills") /\ text' \in BOOLEAN
  BY <1>1, <1>3 DEF With, Say, IInv, TypeOK
<1>6. e \in Entries /\ e.kind = "results"
  BY <1>3, EntriesTyped DEF Entry
<1>7. Sound(c, cleared, heard, Open) /\ Answered(c.messages, cut)
  BY <1>2, <1>3, <1>4, WithResults
<1>8. /\ Grows(Conv, c) /\ \A f : InList(Conv, f) => InList(c, f)
      /\ c.rounds = Conv.rounds /\ Len(c.messages) = Len(s) + 1
      /\ c.messages[Len(s) + 1] = e /\ Len(s) \in Nat /\ Conv.rounds \in Nat
  BY <1>2, <1>6, WithGrows, WithFields, StateFields
<1> HIDE DEF c, e, s
<1>9. /\ TypeOK' /\ BurstOK' /\ PointsSound' /\ Chain' /\ HistoryBounded'
      /\ Conv' = c /\ Grows(disk, disk') /\ BurstKept'
  BY <1>5, <1>7, <1>8, NodeKeeps DEF GraphStages
<1>10. stage' = "skills" /\ steps' = steps + 1
  BY <1>5 DEF Node
<1>11. RunOK'
  <2>1. steps' = 3 * c.rounds /\ Len(c.messages) > 1
    BY <1>4, <1>8, <1>10
  <2>2. c.messages[Len(c.messages)].kind = "results" /\ c.rounds <= MaxRounds
    BY <1>4, <1>6, <1>8
  <2>3. QED
    BY <1>1, <1>7, <1>9, <1>10, <2>1, <2>2 DEF RunOK
<1>12. QED
  BY <1>9, <1>11 DEF IInv

LEMMA SkillsKeep ==
    ASSUME IInv, ManageSkills
    PROVE  IInv' /\ Grows(disk, disk')
<1> DEFINE c == [Conv EXCEPT !.skills = SkillsAfter(@, LastCalls)]
<1>1. /\ stage = "skills" /\ cut' = cut /\ Live /\ UNCHANGED text
      /\ Node("skills", c, "llm")
  BY DEF ManageSkills, Node, Live, GraphStages
<1>2. Conv \in State /\ Sound(Conv, cleared, heard, Open)
  BY <1>1, PointsLive
<1>3. /\ Len(Conv.messages) > 1 /\ Conv.messages[Len(Conv.messages)].kind = "results"
      /\ Answered(Conv.messages, cut)
      /\ Conv.rounds <= MaxRounds /\ steps = 3 * Conv.rounds
  BY <1>1 DEF IInv, RunOK
<1>4. heard \in Int /\ cleared \in Int
  BY BurstFacts DEF IInv
<1>5. Sound(c, cleared, heard, Open) /\ Applied(c, {})
  BY <1>2, <1>3, <1>4, SoundSkilled DEF LastCalls
<1>6. /\ c.messages = Conv.messages /\ c.summary = Conv.summary /\ c.rounds = Conv.rounds
      /\ Conv.rounds \in Nat
  BY <1>2 DEF State
<1> HIDE DEF c
<1>7. Applied(c, cut)
  BY <1>5 DEF Applied
<1>8. Grows(Conv, c) /\ \A f : InList(Conv, f) => InList(c, f)
  BY <1>6 DEF Grows, Present, InList
<1>9. text' \in BOOLEAN
  BY <1>1 DEF IInv, TypeOK
<1>10. /\ TypeOK' /\ BurstOK' /\ PointsSound' /\ Chain' /\ HistoryBounded'
       /\ Conv' = c /\ Grows(disk, disk') /\ BurstKept'
  BY <1>1, <1>5, <1>8, <1>9, NodeKeeps DEF GraphStages
<1>11. stage' = "llm" /\ steps' = steps + 1
  BY <1>1 DEF Node
<1>12. RunOK'
  BY <1>1, <1>3, <1>6, <1>7, <1>10, <1>11 DEF RunOK
<1>13. QED
  BY <1>10, <1>12 DEF IInv

-----------------------------------------------------------------------------
(* The end of a burst, and what happens between bursts                     *)

(* A step that ends the burst and leaves the checkpoint on the disk.       *)
LEMMA EndKeeps ==
    ASSUME IInv, stage # "idle", stage' = "idle", burst' = <<>>, wanted' = FALSE,
           steps' = 0, unsaved' = <<>>, text' \in BOOLEAN,
           cut \cup (IF Live THEN {heard} ELSE {}) \subseteq cut',
           cut' \subseteq cut \cup {heard},
           UNCHANGED <<limit, heard, disk, cleared, sent>>,
           published' = published \/ published' = Append(published, burst)
    PROVE  IInv' /\ Grows(disk, disk')
<1> USE DEF IInv
<1>1. /\ heard \in 1..LastMessage /\ heard \in Nat /\ cleared \in Nat
      /\ cleared <= heard /\ Latest \in Int
      /\ burst \in Seq(1..LastMessage) /\ Len(burst) \in Nat /\ DOMAIN burst = 1..Len(burst)
      /\ steps \in Nat
  BY BurstFacts
<1>2. \A i \in DOMAIN burst : burst[i] <= heard
  <2>1. \A i \in DOMAIN burst : i <= Len(burst) /\ i \in Int
    BY <1>1
  <2>2. \A i \in DOMAIN burst : burst[i] = heard - Len(burst) + i
    BY DEF BurstOK
  <2>3. QED
    BY <1>1, <2>1, <2>2
<1>3. TypeOK'
  <2>1. burst' \in Seq(1..LastMessage) /\ unsaved' \in Seq(State)
    OBVIOUS
  <2>2. cut' \subseteq 1..LastMessage
    BY <1>1 DEF TypeOK
  <2>3. published' \in Seq(Seq(1..LastMessage))
    <3>1. published \in Seq(Seq(1..LastMessage))
      BY DEF TypeOK
    <3>2. Append(published, burst) \in Seq(Seq(1..LastMessage))
      BY <1>1, <3>1, AppendProperties
    <3>3. QED
      BY <3>1, <3>2
  <2>4. steps' \in Nat /\ wanted' \in BOOLEAN
    OBVIOUS
  <2>5. QED
    BY <2>1, <2>2, <2>3, <2>4 DEF TypeOK
<1>4. BurstOK'
  BY DEF BurstOK
<1>5. Points' = {disk} /\ Chain'
  BY DiskPoints
<1>6. Open \subseteq Open' /\ Latest' = heard /\ Latest <= heard
  <2>1. Latest <= heard
    BY <1>1 DEF Latest, BurstOK
  <2>2. QED
    BY <2>1 DEF Open, Live, GraphStages, Latest
<1>7. PointsSound'
  <2>1. Sound(disk, cleared, Latest, Open)
    BY DEF PointsSound, Points
  <2>2. Sound(disk, cleared, heard, Open')
    <3>1. cleared \in Int /\ heard \in Int
      BY <1>1
    <3>2. QED
      BY <1>1, <1>6, <2>1, <3>1, SoundLater
  <2>3. QED
    BY <1>5, <1>6, <2>2 DEF PointsSound
<1>8. RunOK' /\ BurstKept'
  BY DEF RunOK, BurstKept, Live, GraphStages
<1>9. HistoryBounded'
  <2>1. CASE published' = published
    BY <2>1 DEF HistoryBounded
  <2>2. CASE published' = Append(published, burst)
    <3> DEFINE n == Len(published)
    <3>1. published \in Seq(Seq(1..LastMessage))
      BY DEF TypeOK
    <3>2. /\ n \in Nat /\ DOMAIN published = 1..n /\ DOMAIN published' = 1..(n + 1)
          /\ \A k \in 1..n : published'[k] = published[k]
          /\ published'[n + 1] = burst
      BY <2>2, <3>1
    <3>3. \A k \in 1..(n + 1) : k \in 1..n \/ k = n + 1
      BY <3>2
    <3>4. QED
      BY <1>2, <3>2, <3>3 DEF HistoryBounded
  <2>3. QED
    BY <2>1, <2>2
<1>10. Grows(disk, disk')
  BY GrowsTransitive
<1>11. QED
  BY <1>3, <1>4, <1>5, <1>7, <1>8, <1>9, <1>10

LEMMA GraphFailsKeeps ==
    ASSUME IInv, GraphFails
    PROVE  IInv' /\ Grows(disk, disk')
<1>1. /\ stage # "idle" /\ Live /\ stage' = "idle" /\ burst' = <<>> /\ wanted' = FALSE
      /\ steps' = 0 /\ unsaved' = <<>> /\ cut' = cut \cup {BurstId}
      /\ UNCHANGED <<limit, heard, disk, text, cleared, sent, published>>
  BY DEF GraphFails, Live, GraphStages
<1>2. BurstId = heard
  BY <1>1, BurstFacts DEF IInv
<1>3. text' \in BOOLEAN
  BY <1>1 DEF IInv, TypeOK
<1>4. QED
  BY <1>1, <1>2, <1>3, EndKeeps

LEMMA CrashKeeps ==
    ASSUME IInv, Crash
    PROVE  IInv' /\ Grows(disk, disk')
<1>1. /\ stage # "idle" /\ stage' = "idle" /\ burst' = <<>> /\ wanted' = FALSE
      /\ steps' = 0 /\ unsaved' = <<>> /\ cut' = cut \cup {BurstId} /\ text' = FALSE
      /\ UNCHANGED <<limit, heard, disk, cleared, sent, published>>
  BY DEF Crash
<1>2. BurstId = heard
  BY <1>1, BurstFacts DEF IInv
<1>3. QED
  BY <1>1, <1>2, EndKeeps

LEMMA RecordFailsKeeps ==
    ASSUME IInv, RecordFails
    PROVE  IInv' /\ Grows(disk, disk')
<1>1. /\ stage = "record" /\ stage' = "idle" /\ burst' = <<>> /\ wanted' = FALSE
      /\ steps' = 0
      /\ UNCHANGED <<limit, cut, heard, disk, unsaved, text, cleared, sent, published>>
  BY DEF RecordFails
<1>2. ~ Live /\ unsaved' = <<>> /\ text' \in BOOLEAN
  BY <1>1 DEF Live, GraphStages, IInv, BurstOK, TypeOK
<1>3. QED
  BY <1>1, <1>2, EndKeeps

LEMMA PublishKeeps ==
    ASSUME IInv, Publish
    PROVE  IInv' /\ Grows(disk, disk')
<1>1. /\ stage \in {"publish", "record"} /\ stage' = "idle" /\ burst' = <<>>
      /\ wanted' = FALSE /\ steps' = 0 /\ published' = Append(published, burst)
      /\ UNCHANGED <<limit, cut, heard, disk, unsaved, text, cleared, sent>>
  BY DEF Publish, Recorded
<1>2. ~ Live /\ unsaved' = <<>> /\ text' \in BOOLEAN
  BY <1>1 DEF Live, GraphStages, IInv, BurstOK, TypeOK
<1>3. QED
  BY <1>1, <1>2, EndKeeps

LEMMA ReplyKeeps ==
    ASSUME IInv, Reply
    PROVE  /\ IInv' /\ Grows(disk, disk') /\ sent' \subseteq sent \cup {heard}
           /\ InList(disk, Answer(heard)) /\ InList(disk, Human(heard))
<1> USE DEF IInv
<1>1. /\ stage = "reply" /\ unsaved = <<>> /\ stage' = "publish"
      /\ sent' = sent \cup {BurstId} \/ sent' = sent
      /\ UNCHANGED <<limit, cut, heard, burst, wanted, steps, disk, unsaved,
                     text, cleared, published>>
  BY DEF Reply, RunReturned
<1>2. Live /\ ~ Live'
  BY <1>1 DEF Live, GraphStages
<1>3. Conv = disk /\ Points = {disk}
  BY <1>1, UnsavedTyped
<1>4. /\ BurstId = heard /\ heard \in 1..LastMessage /\ heard \in Nat
      /\ DOMAIN burst = 1..Len(burst) /\ Len(burst) \in Nat
  BY <1>1, BurstFacts
<1>5. InList(disk, Answer(heard)) /\ \A i \in DOMAIN burst : InList(disk, Human(burst[i]))
  BY <1>1, <1>2, <1>3 DEF BurstKept
<1>6. InList(disk, Human(heard))
  <2>1. Len(burst) \in DOMAIN burst
    BY <1>1, <1>4 DEF BurstOK
  <2>2. QED
    BY <1>4, <1>5, <2>1 DEF BurstId
<1>7. TypeOK'
  BY <1>1, <1>4 DEF TypeOK
<1>8. BurstOK'
  BY <1>1 DEF BurstOK
<1>9. Points' = Points /\ Conv' = Conv /\ Chain'
  BY <1>1, SamePoints
<1>10. PointsSound'
  <2>1. Sound(disk, cleared, heard, cut)
    BY <1>1, <1>2, <1>3, PointsLive DEF RunOK
  <2>2. Latest' = heard /\ Open' = cut
    BY <1>1, <1>2 DEF Latest, Open
  <2>3. QED
    BY <1>1, <1>3, <1>9, <2>1, <2>2 DEF PointsSound
<1>11. RunOK'
  BY <1>1, <1>2 DEF RunOK
<1>12. BurstKept'
  BY <1>1, <1>2, <1>5 DEF BurstKept
<1>13. HistoryBounded'
  <2>1. heard \in 1..heard
    BY <1>4
  <2>2. sent' \subseteq 1..heard
    BY <1>1, <1>4, <2>1 DEF HistoryBounded
  <2>3. QED
    BY <1>1, <2>2 DEF HistoryBounded
<1>14. QED
  BY <1>1, <1>4, <1>5, <1>6, <1>7, <1>8, <1>9, <1>10, <1>11, <1>12, <1>13, GrowsTransitive

LEMMA RecordKeeps ==
    ASSUME IInv, Record
    PROVE  IInv' /\ Grows(disk, disk')
<1> USE DEF IInv
<1> DEFINE m == burst[steps + 1]
           c == With(disk, Human(m))
<1>1. /\ stage = "record" /\ steps < Len(burst) /\ disk' = c /\ steps' = steps + 1
      /\ UNCHANGED <<limit, cut, heard, stage, burst, wanted, unsaved, text,
                     cleared, sent, published>>
  BY DEF Record, NextRecord, With
<1>2. ~ Live /\ ~ Live'
  BY <1>1 DEF Live, GraphStages
<1>3. Sound(disk, cleared, Latest, cut) /\ unsaved = <<>> /\ disk \in State
  BY <1>2, PointsSettled DEF Sound
<1>4. /\ heard \in Nat /\ cleared \in Nat /\ steps \in Nat /\ Len(burst) \in Nat
      /\ DOMAIN burst = 1..Len(burst) /\ Latest \in Int /\ heard <= LastMessage
      /\ LastMessage \in Nat
  BY BurstFacts
<1>5. steps + 1 \in DOMAIN burst /\ cleared <= heard - Len(burst)
      /\ m = heard - Len(burst) + (steps + 1)
  BY <1>1, <1>4 DEF BurstOK
<1>6. Latest = heard - Len(burst) + steps
  BY <1>1 DEF Latest
<1>7. m \in 0..LastMessage /\ cleared < m /\ Latest < m /\ m \in Int /\ Latest <= m
  BY <1>1, <1>4, <1>5, <1>6
<1> HIDE DEF m
<1>8. Human(m) \in Entries /\ Human(m).id = m /\ Human(m).kind = "human"
  BY <1>7, EntriesTyped DEF Human, Entry
<1>9. Sound(c, cleared, m, cut)
  <2>1. cleared \in Int
    BY <1>4
  <2>2. QED
    BY <1>3, <1>4, <1>7, <1>8, <2>1, WithTalk
<1>10. /\ Grows(disk, c) /\ InList(c, Human(m))
       /\ \A f : InList(disk, f) => InList(c, f)
  BY <1>3, <1>8, WithGrows
<1> HIDE DEF c
<1>11. TypeOK'
  <2>1. steps' \in Nat /\ disk' \in State
    BY <1>1, <1>4, <1>9 DEF Sound
  <2>2. QED
    BY <1>1, <2>1 DEF TypeOK
<1>12. BurstOK'
  BY <1>1, <1>3, <1>4 DEF BurstOK
<1>13. Points' = {disk'} /\ Conv' = disk' /\ Chain'
  BY <1>1, <1>3, DiskPoints
<1>14. PointsSound'
  <2>1. Latest' = m
    BY <1>1, <1>4, <1>5 DEF Latest
  <2>2. Open' = cut
    BY <1>1, <1>2 DEF Open
  <2>3. QED
    BY <1>1, <1>9, <1>13, <2>1, <2>2 DEF PointsSound
<1>15. RunOK'
  BY <1>1, <1>2 DEF RunOK
<1>16. BurstKept'
  <2>1. \A i \in 1..steps' : i \in 1..steps \/ i = steps + 1
    BY <1>1, <1>4
  <2>2. \A i \in 1..steps' : InList(disk', Human(burst[i]))
    BY <1>1, <1>10, <2>1 DEF BurstKept, m
  <2>3. QED
    BY <1>1, <1>2, <2>2 DEF BurstKept
<1>17. HistoryBounded'
  BY <1>1 DEF HistoryBounded
<1>18. QED
  BY <1>1, <1>10, <1>11, <1>12, <1>13, <1>14, <1>15, <1>16, <1>17

LEMMA ForceCompactKeeps ==
    ASSUME IInv, ForceCompact
    PROVE  IInv' /\ (~ EmptySummary => Grows(disk, disk'))
<1> USE DEF IInv
<1>1. /\ stage = "idle" /\ unsaved = <<>> /\ Summarize
      /\ UNCHANGED <<limit, cut, heard, stage, burst, wanted, steps, unsaved,
                     text, cleared, sent, published>>
  BY DEF ForceCompact
<1>2. ~ Live /\ ~ Live'
  BY <1>1 DEF Live, GraphStages
<1>3. /\ disk' \in State /\ Sound(disk', cleared, Latest, cut)
      /\ ~ EmptySummary => Grows(disk, disk')
  BY <1>1, <1>2, SummarizeKeeps
<1>4. TypeOK' /\ BurstOK'
  BY <1>1, <1>3 DEF TypeOK, BurstOK
<1>5. Points' = {disk'} /\ Conv' = disk' /\ Chain'
  BY <1>1, DiskPoints
<1>6. PointsSound'
  <2>1. Latest' = Latest /\ Open' = cut
    BY <1>1, <1>2 DEF Latest, Open
  <2>2. QED
    BY <1>1, <1>3, <1>5, <2>1 DEF PointsSound
<1>7. RunOK' /\ BurstKept' /\ HistoryBounded'
  BY <1>1, <1>2 DEF RunOK, BurstKept, HistoryBounded
<1>8. QED
  BY <1>3, <1>4, <1>5, <1>6, <1>7

(* /clear: nothing is left to be remembered.                               *)
LEMMA BlanksSound ==
    ASSUME NEW lo, NEW hi, NEW open
    PROVE  Sound(Blanks, lo, hi, open)
<1>1. Blanks \in State
  BY DEF Blanks, State
<1>2. Blanks.messages = <<>> /\ Blanks.summary = {} /\ DOMAIN Blanks.messages = {}
  BY DEF Blanks
<1>3. QED
  BY <1>1, <1>2 DEF Sound, Ordered, Dated, Paired, Answered, Applied

LEMMA ClearKeeps ==
    ASSUME IInv, Clear
    PROVE  IInv' /\ (cleared' # cleared \/ Grows(disk, disk'))
<1> USE DEF IInv
<1>1. /\ stage = "idle" /\ unsaved = <<>> /\ disk' = Blanks /\ cleared' = heard
      /\ UNCHANGED <<limit, cut, heard, stage, burst, wanted, steps, unsaved,
                     text, sent, published>>
  BY DEF Clear
<1>2. ~ Live /\ ~ Live'
  BY <1>1 DEF Live, GraphStages
<1>3. heard \in Nat /\ cleared \in Nat /\ Latest = heard
  BY <1>1, BurstFacts DEF Latest
<1>4. Sound(disk, cleared, heard, cut)
  BY <1>2, <1>3, PointsSettled
<1>5. TypeOK'
  <2>1. disk' \in State /\ cleared' \in Nat
    BY <1>1, <1>3 DEF Blanks, State
  <2>2. QED
    BY <1>1, <2>1 DEF TypeOK
<1>6. BurstOK'
  BY <1>1, <1>3 DEF BurstOK
<1>7. Points' = {disk'} /\ Chain'
  BY <1>1, DiskPoints
<1>8. PointsSound'
  BY <1>1, <1>7, BlanksSound DEF PointsSound
<1>9. RunOK' /\ BurstKept' /\ HistoryBounded'
  BY <1>1, <1>2 DEF RunOK, BurstKept, HistoryBounded
<1>10. ASSUME cleared' = cleared
       PROVE  Grows(disk, disk')
  (* Nothing was heard since the last /clear: the context is empty.        *)
  <2>1. \A id \in Int : ~ (cleared < id /\ id <= heard)
    BY <1>1, <1>3, <1>10
  <2>2. /\ \A i \in DOMAIN disk.messages : disk.messages[i].id \in Int
        /\ \A e \in disk.summary : e.id \in Int
    BY <1>4, StateFields DEF Sound
  <2>3. DOMAIN disk.messages = {} /\ disk.summary = {}
    BY <1>4, <2>1, <2>2 DEF Sound, Dated
  <2>4. QED
    BY <2>3 DEF Grows, Present
<1>11. QED
  BY <1>5, <1>6, <1>7, <1>8, <1>9, <1>10

-----------------------------------------------------------------------------
(* The invariant holds                                                     *)

LEMMA InitIInv == Init => IInv
<1> SUFFICES ASSUME Init
             PROVE  IInv
  OBVIOUS
<1> USE DEF Init
<1>1. Blanks \in State /\ LastMessage \in Nat
  BY TurnAssumption DEF Blanks, State, TurnAssumption
<1>2. TypeOK
  <2>1. /\ burst \in Seq(1..LastMessage) /\ unsaved \in Seq(State)
        /\ published \in Seq(Seq(1..LastMessage))
    OBVIOUS
  <2>2. heard \in 0..LastMessage /\ steps \in Nat /\ cleared \in Nat
    BY <1>1
  <2>3. /\ limit \in StepLimits /\ wanted \in BOOLEAN /\ text \in BOOLEAN
        /\ cut \subseteq 1..LastMessage /\ sent \subseteq 1..LastMessage
        /\ disk \in State /\ stage = "idle"
    BY <1>1
  <2>4. QED
    BY <2>1, <2>2, <2>3 DEF TypeOK
<1>3. ~ Live
  BY DEF Live, GraphStages
<1>4. BurstOK /\ RunOK /\ BurstKept
  BY <1>3 DEF BurstOK, RunOK, BurstKept
<1>5. HistoryBounded
  BY DEF HistoryBounded
<1>6. DOMAIN unsaved = {}
  OBVIOUS
<1>7. Chain
  BY <1>6 DEF Chain
<1>8. Points = {Blanks}
  BY <1>6 DEF Points
<1>9. PointsSound
  BY <1>8, BlanksSound DEF PointsSound
<1>10. QED
  BY <1>2, <1>4, <1>5, <1>7, <1>9 DEF IInv

LEMMA StutterKeeps ==
    ASSUME IInv, UNCHANGED vars
    PROVE  IInv' /\ Grows(disk, disk')
<1>1. Points' = Points /\ Conv' = Conv /\ Chain' = Chain
  BY SamePoints DEF vars
<1>2. TypeOK'
  BY DEF IInv, TypeOK, vars
<1>3. BurstOK' /\ BurstKept' /\ HistoryBounded'
  BY <1>1 DEF IInv, BurstOK, BurstKept, HistoryBounded, Live, vars
<1>4. PointsSound' /\ RunOK'
  BY <1>1 DEF IInv, PointsSound, RunOK, Latest, Open, Live, vars
<1>5. QED
  BY <1>1, <1>2, <1>3, <1>4, GrowsTransitive DEF IInv, vars

(* Every step keeps the invariant, and nothing is forgotten but by /clear  *)
(* or an empty summary.                                                    *)
LEMMA StepKeeps ==
    ASSUME IInv, [Next]_vars
    PROVE  /\ IInv'
           /\ ~ EmptySummary => cleared' # cleared \/ Grows(disk, disk')
<1>1. ASSUME NEW k \in 1..BatchMax, Hear(k)
      PROVE  IInv' /\ Grows(disk, disk')
  BY <1>1, HearKeeps, GrowsTransitive DEF Hear
<1>2. CASE Compact
  BY <1>2, CompactKeeps
<1>3. CASE Invoke
  BY <1>3, InvokeKeeps, GrowsTransitive DEF Invoke
<1>4. CASE DescribeImage
  BY <1>4, DescribeKeeps
<1>5. CASE CallLLM
  BY <1>5, CallKeeps
<1>6. CASE RunTools
  BY <1>6, ToolsKeep
<1>7. CASE ManageSkills
  BY <1>7, SkillsKeep
<1>8. CASE GraphFails
  BY <1>8, GraphFailsKeeps
<1>9. CASE Reply
  BY <1>9, ReplyKeeps
<1>10. CASE Record
  BY <1>10, RecordKeeps
<1>11. CASE RecordFails
  BY <1>11, RecordFailsKeeps
<1>12. CASE Publish
  BY <1>12, PublishKeeps
<1>13. CASE Save
  BY <1>13, SaveKeeps
<1>14. CASE Clear
  BY <1>14, ClearKeeps
<1>15. CASE ForceCompact
  BY <1>15, ForceCompactKeeps
<1>16. CASE Crash
  BY <1>16, CrashKeeps
<1>17. CASE UNCHANGED vars
  BY <1>17, StutterKeeps
<1>18. QED
  BY <1>1, <1>2, <1>3, <1>4, <1>5, <1>6, <1>7, <1>8, <1>9, <1>10, <1>11,
     <1>12, <1>13, <1>14, <1>15, <1>16, <1>17 DEF Next, TurnStep

(* The inductive invariant holds in every reachable state, whatever the    *)
(* LLM asks for, the limits and the crashes.                               *)
LEMMA Invariance == Spec => []IInv
<1>1. Init => IInv
  BY InitIInv
<1>2. IInv /\ [Next]_vars => IInv'
  BY StepKeeps
<1>3. QED
  BY <1>1, <1>2, PTL DEF Spec

-----------------------------------------------------------------------------
(* The properties                                                          *)

LEMMA NewestSound ==
    ASSUME IInv
    PROVE  Sound(Conv, cleared, Latest, Open)
<1>1. Conv \in Points
  BY UnsavedTyped DEF IInv
<1>2. QED
  BY <1>1 DEF IInv, PointsSound

(* The context given to the LLM is well formed (types; results behind      *)
(* their calls; no call unanswered but of a run that was cut) after any    *)
(* sequence of bursts, tool rounds, compactions, failures and restarts:    *)
(* call_llm, ToolNode and compaction.py together.                          *)
THEOREM ContextAlwaysWellFormed == Spec => []ContextWellFormed
<1>1. ASSUME IInv
      PROVE  ContextWellFormed
  <2>1. Sound(Conv, cleared, Latest, Open)
    BY <1>1, NewestSound
  <2>2. ResultsHaveCalls
    BY <2>1 DEF Sound, Paired, ResultsHaveCalls
  <2>3. CallsAnswered
    BY <1>1 DEF IInv, RunOK, Answered, Replied, CallsAnswered
  <2>4. QED
    BY <1>1, <2>2, <2>3 DEF IInv, ContextWellFormed
<1>2. QED
  BY <1>1, Invariance, PTL

(* The conversation keeps the order of arrival, through compactions and    *)
(* restarts, and the summary covers only what is older than the list.      *)
THEOREM HistoryKeepsOrder == Spec => []HistoryOrdered
<1>1. ASSUME IInv
      PROVE  HistoryOrdered
  <2> DEFINE s == Conv.messages
  <2>1. Ordered(Conv)
    BY <1>1, NewestSound DEF Sound
  <2>2. \A i, j \in DOMAIN s : i < j =>
           /\ s[i].id <= s[j].id
           /\ s[i].kind = "human" /\ s[j].kind = "human" => s[i].id < s[j].id
    BY <2>1 DEF Ordered
  <2>3. \A e \in Conv.summary : \A i \in DOMAIN s :
           s[i].kind = "human" => e.id < s[i].id
    BY <2>1 DEF Ordered
  <2>4. QED
    BY <2>2, <2>3 DEF HistoryOrdered
<1>2. QED
  BY <1>1, Invariance, PTL

(* Whenever the LLM is called, the skills are those its last calls asked   *)
(* for, applied in their order: manage_skill_calls of skill_manager.py,    *)
(* for any lists of calls of any length.                                   *)
THEOREM SkillsAlwaysApplied == Spec => []SkillsApplied
<1>1. ASSUME IInv
      PROVE  SkillsApplied
  <2> SUFFICES ASSUME stage = "llm", NEW i \in DOMAIN Conv.messages,
                      Conv.messages[i].kind = "calls",
                      Conv.messages[i].id \notin cut,
                      \A j \in (i + 1)..Len(Conv.messages) :
                         Conv.messages[j].kind # "calls"
               PROVE  AsCalled(Conv.messages[i].calls, Conv.skills)
    BY DEF SkillsApplied, AsCalled
  <2>1. Applied(Conv, cut)
    BY <1>1 DEF IInv, RunOK
  <2>2. LastCall(Conv.messages, i)
    BY DEF LastCall
  <2>3. QED
    BY <2>1, <2>2 DEF Applied
<1>2. QED
  BY <1>1, Invariance, PTL

(* A run with room for its rounds reaches its answer: three nodes a round  *)
(* and no more rounds than rag_max_agent_rounds, in call_llm and graph.py. *)
THEOREM LimitNeverCuts == Spec => []EndsWithAnswer
<1>1. ASSUME IInv
      PROVE  EndsWithAnswer
  <2> SUFFICES ASSUME limit > 3 * MaxRounds + 2, Live
               PROVE  steps < limit
    BY DEF EndsWithAnswer, Live
  <2>1. /\ steps \in Nat /\ limit \in Nat /\ MaxRounds \in Nat
    BY <1>1, TurnAssumption DEF IInv, TypeOK, TurnAssumption
  <2>2. Conv.rounds \in Nat
    BY <1>1, PointsLive, StateFields
  <2>3. Conv.rounds <= MaxRounds
    BY <1>1 DEF IInv, RunOK
  <2>4. \/ steps = 0 \/ steps = 3 * Conv.rounds + 1 \/ steps = 3 * Conv.rounds - 1
        \/ steps = 3 * Conv.rounds \/ steps = 3 * Conv.rounds + 2
    BY <1>1 DEF IInv, RunOK, Live, GraphStages
  <2>5. QED
    BY <2>1, <2>2, <2>3, <2>4
<1>2. QED
  BY <1>1, Invariance, PTL

LEMMA GrowsPresent ==
    ASSUME NEW c, c \in State, NEW d, Grows(c, d)
    PROVE  \A e : Present(c, e) => Present(d, e)
<1>1. \A e : Present(c, e) => e \in Entries
  BY StateFields DEF Present
<1>2. QED
  BY <1>1 DEF Grows

(* What is on the disk stays in the list or the summary until /clear, if   *)
(* the summarizing LLM never answers with an empty text: compaction, the   *)
(* background checkpoints and a restart lose nothing.                      *)
THEOREM DiskRemembers == ~ EmptySummary => (Spec => Remembers)
<1> SUFFICES ASSUME ~ EmptySummary
             PROVE  Spec => Remembers
  OBVIOUS
<1> DEFINE Kept == \/ cleared' # cleared
                   \/ \A e \in disk.summary \cup {disk.messages[i] : i \in DOMAIN disk.messages} :
                         Present(disk', e)
<1>1. ASSUME IInv, [Next]_vars
      PROVE  Kept
  <2>1. cleared' # cleared \/ Grows(disk, disk')
    BY <1>1, StepKeeps
  <2>2. disk \in State
    BY <1>1 DEF IInv, TypeOK
  <2>3. QED
    BY <2>1, <2>2, GrowsPresent DEF Present
<1>2. IInv /\ [Next]_vars => [Kept]_vars
  BY <1>1
<1>3. QED
  BY <1>2, Invariance, PTL DEF Spec, Remembers

(* The disk holds the replies and the published turns already, when a step *)
(* forgets nothing.                                                        *)
LEMMA DurableStep ==
    ASSUME ~ EmptySummary, IInv, SeenIsDurable, [Next]_vars
    PROVE  SeenIsDurable'
<1>1. CASE cleared' # cleared
  <2>1. cleared' = heard /\ sent' = sent /\ published' = published
    BY <1>1 DEF Next, TurnStep, vars, Hear, Compact, Invoke, DescribeImage, CallLLM,
                RunTools, ManageSkills, Node, GraphFails, Reply, Record, RecordFails,
                Publish, Save, Clear, ForceCompact, Crash
  <2>2. \A id \in sent : ~ (id > heard)
    BY BurstFacts DEF IInv, HistoryBounded
  <2>3. \A n \in DOMAIN published : \A i \in DOMAIN published[n] :
           ~ (published[n][i] > heard)
    BY BurstFacts, PublishedTyped DEF IInv, HistoryBounded
  <2>4. QED
    BY <2>1, <2>2, <2>3 DEF SeenIsDurable
<1>2. CASE cleared' = cleared
  <2>1. Grows(disk, disk') /\ disk \in State
    BY <1>2, StepKeeps DEF IInv, TypeOK
  <2>2. \A e : Present(disk, e) => Present(disk', e)
    BY <2>1, GrowsPresent
  <2>3. CASE Reply
    <3>1. /\ sent' \subseteq sent \cup {heard}
          /\ Present(disk, Answer(heard)) /\ Present(disk, Human(heard))
      BY <2>3, ReplyKeeps DEF InList, Present
    <3>2. published' = published
      BY <2>3 DEF Reply
    <3>3. QED
      BY <1>2, <2>2, <3>1, <3>2 DEF SeenIsDurable
  <2>4. CASE Publish
    <3>1. \A i \in DOMAIN burst : Present(disk, Human(burst[i]))
      <4>1. DOMAIN burst = 1..Len(burst)
        BY BurstFacts DEF IInv
      <4>2. \A i \in DOMAIN burst : InList(disk, Human(burst[i]))
        BY <2>4, <4>1 DEF Publish, Recorded, IInv, BurstKept
      <4>3. QED
        BY <4>2 DEF InList, Present
    <3>2. sent' = sent /\ published' = Append(published, burst)
      BY <2>4 DEF Publish
    <3> DEFINE n == Len(published)
    <3>3. /\ n \in Nat /\ DOMAIN published = 1..n /\ DOMAIN published' = 1..(n + 1)
          /\ \A k \in 1..n : published'[k] = published[k]
          /\ published'[n + 1] = burst
      <4>1. published \in Seq(Seq(1..LastMessage))
        BY DEF IInv, TypeOK
      <4>2. QED
        BY <3>2, <4>1
    <3>4. \A k \in 1..(n + 1) : k \in 1..n \/ k = n + 1
      BY <3>3
    <3> HIDE DEF n
    <3>5. QED
      BY <1>2, <2>2, <3>1, <3>2, <3>3, <3>4 DEF SeenIsDurable
  <2>5. CASE ~ Reply /\ ~ Publish
    <3>1. sent' = sent /\ published' = published
      BY <2>5 DEF Next, TurnStep, vars, Hear, Compact, Invoke, DescribeImage, CallLLM,
                  RunTools, ManageSkills, Node, GraphFails, Record, RecordFails,
                  Save, Clear, ForceCompact, Crash
    <3>2. QED
      BY <1>2, <2>2, <3>1 DEF SeenIsDurable
  <2>6. QED
    BY <2>3, <2>4, <2>5
<1>3. QED
  BY <1>1, <1>2

(* A reply that was sent, and a turn that was published, is on the disk    *)
(* with its messages until /clear, if the summarizing LLM never answers    *)
(* with an empty text: dispatcher.py sends after ainvoke has returned.     *)
THEOREM SeenStaysDurable == ~ EmptySummary => (Spec => []SeenIsDurable)
<1> SUFFICES ASSUME ~ EmptySummary
             PROVE  Spec => []SeenIsDurable
  OBVIOUS
<1>1. Init => SeenIsDurable
  BY DEF Init, SeenIsDurable
<1>2. IInv /\ SeenIsDurable /\ [Next]_vars => SeenIsDurable'
  BY DurableStep
<1>3. QED
  BY <1>1, <1>2, Invariance, PTL DEF Spec

=============================================================================
