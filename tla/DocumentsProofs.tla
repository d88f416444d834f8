--------------------------- MODULE DocumentsProofs ---------------------------
(***************************************************************************)
(* Proofs about the import of documents, for any files, contents, parsers, *)
(* splitter settings and any failures: the built-in splitter loses no      *)
(* character, every content is stored at most once, whole and under its    *)
(* own hash, and the report of the importer is true.                       *)
(***************************************************************************)
EXTENDS Documents, SequenceTheorems, FiniteSetTheorems, TLAPS

-----------------------------------------------------------------------------
(* Numbers                                                                 *)

(* A set of naturals that is not empty has a least element.                *)
LEMMA LeastNumber ==
    ASSUME NEW B \in SUBSET Nat, B # {}
    PROVE  \E m \in B : \A k \in B : m <= k
<1> DEFINE T == {1..n : n \in B}
           R == StrictSubsetOrdering(Nat)
<1>1. IsWellFoundedOn(R, FiniteSubsetsOf(Nat))
  BY FS_StrictSubsetOrderingWellFounded
<1>2. T \subseteq FiniteSubsetsOf(Nat)
  <2>1. \A n \in B : IsFiniteSet(1..n)
    BY FS_Interval
  <2>2. QED
    BY <2>1 DEF FiniteSubsetsOf
<1>3. T # {}
  OBVIOUS
<1> HIDE DEF T, R
<1>4. PICK x \in T : \A y \in T : ~ (<<y, x>> \in R)
  BY <1>1, <1>2, <1>3, WFMin
<1>5. PICK m \in B : x = 1..m
  BY DEF T
<1>6. ASSUME NEW k \in B, k < m
      PROVE  FALSE
  <2>1. 1..k \in T
    BY DEF T
  <2>2. 1..k \subseteq 1..m /\ m \in 1..m /\ m \notin 1..k
    BY <1>6
  <2>3. <<1..k, 1..m>> \in R
    BY <2>2 DEF R, StrictSubsetOrdering
  <2>4. QED
    BY <1>4, <1>5, <2>1, <2>3
<1>7. QED
  BY <1>6

(* A set that holds 0, and n + 1 whenever it holds n, holds every natural. *)
LEMMA NaturalsInSet ==
    ASSUME NEW S, 0 \in S, \A n \in Nat : n \in S => n + 1 \in S
    PROVE  \A n \in Nat : n \in S
<1> DEFINE B == {n \in Nat : n \notin S}
<1> SUFFICES ASSUME B # {}
             PROVE  FALSE
  OBVIOUS
<1>1. PICK m \in B : \A k \in B : m <= k
  <2>1. B \in SUBSET Nat
    OBVIOUS
  <2> HIDE DEF B
  <2>2. QED
    BY <2>1, LeastNumber
<1>2. m # 0 /\ m - 1 \in Nat
  OBVIOUS
<1>3. m - 1 \in S
  BY <1>1, <1>2
<1>4. QED
  BY <1>2, <1>3

(* A non-empty set of numbers up to n has a greatest one.                  *)
LEMMA GreatestNumber ==
    ASSUME NEW n \in Nat, NEW B \in SUBSET (0..n), B # {}
    PROVE  \E m \in B : \A k \in B : k <= m
<1> DEFINE D == {n - k : k \in B}
<1>1. D \in SUBSET Nat /\ D # {}
  <2>1. \A k \in B : n - k \in Nat
    OBVIOUS
  <2>2. QED
    BY <2>1
<1>2. PICK d \in D : \A e \in D : d <= e
  <2> HIDE DEF D
  <2>1. QED
    BY <1>1, LeastNumber
<1>3. PICK m \in B : d = n - m
  OBVIOUS
<1>4. \A k \in B : n - m <= n - k
  BY <1>2, <1>3
<1>5. \A k \in B : k <= m
  BY <1>4
<1>6. QED
  BY <1>5

-----------------------------------------------------------------------------
(* The splitter                                                            *)

(* The end of a piece is behind its start and not behind the window.       *)
LEMMA SplitAtInWindow ==
    ASSUME NEW text, NEW start \in Nat, NEW end \in Nat, start < end
    PROVE  SplitAt(text, start, end) \in (start + 1)..end
<1> DEFINE At(k) == {p \in (start + 1)..end : text[p + 1] = Separators[k]}
           kinds == {k \in DOMAIN Separators : At(k) # {}}
           first == CHOOSE k \in kinds : \A j \in kinds : k <= j
<1>1. CASE kinds = {}
  <2>1. SplitAt(text, start, end) = end
    BY <1>1 DEF SplitAt
  <2>2. QED
    BY <2>1
<1>2. CASE kinds # {}
  <2>1. kinds \in SUBSET Nat
    <3>1. DOMAIN Separators = 1..3
      BY DEF Separators
    <3>2. QED
      BY <3>1
  <2>2. first \in kinds
    <3> HIDE DEF kinds
    <3>1. \E k \in kinds : \A j \in kinds : k <= j
      BY <1>2, <2>1, LeastNumber
    <3>2. QED
      BY <3>1
  <2>3. At(first) # {}
    BY <2>2
  <2>4. At(first) \in SUBSET (0..end)
    OBVIOUS
  <2> DEFINE place == CHOOSE p \in At(first) : \A q \in At(first) : q <= p
  <2>5. SplitAt(text, start, end) = place
    BY <1>2 DEF SplitAt
  <2>6. place \in At(first)
    <3> HIDE DEF first, At
    <3>1. \E p \in At(first) : \A q \in At(first) : q <= p
      BY <2>3, <2>4, GreatestNumber
    <3>2. QED
      BY <3>1
  <2>7. place \in (start + 1)..end
    <3> HIDE DEF place, first
    <3>1. QED
      BY <2>6
  <2>8. QED
    BY <2>5, <2>7
<1>3. QED
  BY <1>1, <1>2

(* The end of the piece from position s on.                                *)
Cut(text, size, s) ==
    IF s + size < Len(text) THEN SplitAt(text, s, s + size) ELSE Len(text)

PieceList == Seq(Nat \X Nat)

(* What SimpleSplit's recursion says of the pieces f from position s on.   *)
SplitFrom(text, size, overlap, f, s) ==
    LET cut == Cut(text, size, s)
        rest == IF cut >= Len(text) THEN <<>> ELSE f[NextStart(s, cut, overlap)]
    IN  IF IsBlank(SubSeq(text, s + 1, cut)) THEN rest ELSE <<<<s, cut>>>> \o rest

(* The loop moves on, and only over what is in a piece.                    *)
LEMMA SplitMovesOn ==
    ASSUME NEW text \in Text, NEW size \in Int, size > 0, NEW overlap \in Nat,
           NEW s \in 0..Len(text)
    PROVE  LET cut == Cut(text, size, s)
           IN  /\ cut \in 0..Len(text) /\ s <= cut
               /\ s < Len(text) => s < cut
               /\ cut < Len(text) => NextStart(s, cut, overlap) \in (s + 1)..cut
<1> DEFINE n == Len(text)
           cut == Cut(text, size, s)
<1>1. n \in Nat /\ s \in Nat /\ s <= n
  BY LenProperties DEF Text
<1>2. CASE s + size < n
  <2>1. s + size \in Nat /\ s < s + size
    BY <1>1
  <2>2. SplitAt(text, s, s + size) \in (s + 1)..(s + size)
    BY <1>1, <2>1, SplitAtInWindow
  <2>3. cut = SplitAt(text, s, s + size)
    BY <1>2 DEF Cut
  <2>4. cut \in (s + 1)..(s + size)
    BY <2>2, <2>3
  <2> HIDE DEF cut
  <2>5. cut \in 0..n /\ s < cut
    BY <1>1, <1>2, <2>4
  <2>6. NextStart(s, cut, overlap) \in (s + 1)..cut
    BY <1>1, <2>5 DEF NextStart, Bigger
  <2>7. QED
    BY <1>1, <2>5, <2>6 DEF cut
<1>3. CASE ~(s + size < n)
  <2>1. cut = n
    BY <1>3 DEF Cut
  <2> HIDE DEF cut
  <2>2. QED
    BY <1>1, <2>1 DEF cut
<1>4. QED
  BY <1>2, <1>3

(* One step of the recursion is defined by the pieces of later positions   *)
(* alone.                                                                  *)
LEMMA SplitFromType ==
    ASSUME NEW text \in Text, NEW size \in Int, size > 0, NEW overlap \in Nat,
           NEW s \in 0..Len(text), NEW f,
           \A r \in (s + 1)..Len(text) : f[r] \in PieceList
    PROVE  SplitFrom(text, size, overlap, f, s) \in PieceList
<1> DEFINE n == Len(text)
           cut == Cut(text, size, s)
           rest == IF cut >= n THEN <<>> ELSE f[NextStart(s, cut, overlap)]
<1>1. n \in Nat /\ s \in Nat
  BY LenProperties DEF Text
<1>2. /\ cut \in 0..n
      /\ cut < n => NextStart(s, cut, overlap) \in (s + 1)..cut
  BY SplitMovesOn
<1>3. rest \in PieceList
  <2>1. CASE cut >= n
    BY <2>1, EmptySeq DEF PieceList
  <2>2. CASE ~(cut >= n)
    <3> HIDE DEF cut
    <3>1. NextStart(s, cut, overlap) \in (s + 1)..n
      BY <1>1, <1>2, <2>2
    <3>2. QED
      BY <2>2, <3>1
  <2>3. QED
    BY <2>1, <2>2
<1>4. <<<<s, cut>>>> \in PieceList
  <2> HIDE DEF cut
  <2>1. <<s, cut>> \in Nat \X Nat
    BY <1>1, <1>2
  <2>2. QED
    BY <2>1 DEF PieceList
<1>5. <<<<s, cut>>>> \o rest \in PieceList
  <2> HIDE DEF cut, rest
  <2>1. QED
    BY <1>3, <1>4, ConcatProperties DEF PieceList
<1>6. SplitFrom(text, size, overlap, f, s) \in {rest, <<<<s, cut>>>> \o rest}
  BY DEF SplitFrom
<1>7. QED
  BY <1>3, <1>5, <1>6

LEMMA SplitFromLater ==
    ASSUME NEW text \in Text, NEW size \in Int, size > 0, NEW overlap \in Nat,
           NEW s \in 0..Len(text), NEW f, NEW g,
           \A r \in (s + 1)..Len(text) : f[r] = g[r]
    PROVE  SplitFrom(text, size, overlap, f, s) = SplitFrom(text, size, overlap, g, s)
<1> DEFINE n == Len(text)
           cut == Cut(text, size, s)
<1>1. n \in Nat /\ s \in Nat
  BY LenProperties DEF Text
<1>2. /\ cut \in 0..n
      /\ cut < n => NextStart(s, cut, overlap) \in (s + 1)..cut
  BY SplitMovesOn
<1>3. ~(cut >= n) => f[NextStart(s, cut, overlap)] = g[NextStart(s, cut, overlap)]
  <2> HIDE DEF cut
  <2>1. ~(cut >= n) => NextStart(s, cut, overlap) \in (s + 1)..n
    BY <1>1, <1>2
  <2>2. QED
    BY <2>1
<1>4. QED
  BY <1>3 DEF SplitFrom

(* The recursion of SimpleSplit has a solution, so it means what it says.  *)
LEMMA SimpleSplitDefined ==
    ASSUME NEW text \in Text, NEW size \in Int, size > 0, NEW overlap \in Nat,
           Len(text) > size
    PROVE  \E f \in [0..Len(text) -> PieceList] :
              /\ \A s \in 0..Len(text) : f[s] = SplitFrom(text, size, overlap, f, s)
              /\ SimpleSplit(text, size, overlap) = f[0]
<1> DEFINE n == Len(text)
           One(f, s) == SplitFrom(text, size, overlap, f, s)
           S == {k \in Nat : k <= n =>
                    \E f \in [(n - k)..n -> PieceList] : \A s \in (n - k)..n : f[s] = One(f, s)}
<1>1. n \in Nat
  BY LenProperties DEF Text
<1>2. 0 \in S
  <2> DEFINE f == [s \in (n - 0)..n |-> One(<<>>, n)]
  <2>1. (n - 0)..n = {n} /\ (n + 1)..n = {}
    BY <1>1
  <2>2. One(<<>>, n) \in PieceList
    BY <1>1, <2>1, SplitFromType
  <2>3. f \in [(n - 0)..n -> PieceList]
    BY <2>2
  <2>4. One(f, n) = One(<<>>, n)
    <3> DEFINE none == <<>>
    <3>1. n \in 0..n /\ \A r \in (n + 1)..n : f[r] = none[r]
      BY <1>1, <2>1
    <3> HIDE DEF f, none
    <3>2. One(f, n) = One(none, n)
      BY <3>1, SplitFromLater
    <3>3. QED
      BY <3>2 DEF none
  <2>5. \A s \in (n - 0)..n : f[s] = One(f, s)
    <3>1. f[n] = One(<<>>, n)
      BY <2>1
    <3> HIDE DEF f
    <3>2. QED
      BY <2>1, <2>4, <3>1
  <2>6. QED
    BY <2>3, <2>5
<1>3. ASSUME NEW k \in Nat, k \in S
      PROVE  k + 1 \in S
  <2> SUFFICES ASSUME k + 1 <= n
               PROVE  \E g \in [(n - (k + 1))..n -> PieceList] :
                         \A s \in (n - (k + 1))..n : g[s] = One(g, s)
    OBVIOUS
  <2>1. PICK f \in [(n - k)..n -> PieceList] : \A s \in (n - k)..n : f[s] = One(f, s)
    BY <1>1, <1>3
  <2> DEFINE m == n - (k + 1)
             g == [s \in m..n |-> IF s = m THEN One(f, m) ELSE f[s]]
  <2>2. m \in 0..n /\ m + 1 = n - k
    BY <1>1
  <2>3. One(f, m) \in PieceList
    <3>1. \A r \in (m + 1)..n : f[r] \in PieceList
      BY <2>2
    <3> HIDE DEF m
    <3>2. QED
      BY <2>2, <3>1, SplitFromType
  <2>4. g \in [m..n -> PieceList]
    <3> HIDE DEF One, m
    <3>1. \A s \in m..n : s # m => s \in (n - k)..n
      BY <1>1, <2>2
    <3>2. QED
      BY <2>3, <3>1
  <2>5. \A r \in (m + 1)..n : g[r] = f[r]
    <3> HIDE DEF One, m
    <3>1. \A r \in (m + 1)..n : r \in m..n /\ r # m
      BY <1>1, <2>2
    <3>2. QED
      BY <3>1
  <2>6. g[m] = One(f, m)
    <3> HIDE DEF One, m
    <3>1. m \in m..n
      BY <1>1, <2>2
    <3>2. QED
      BY <3>1
  <2>7. ASSUME NEW s \in m..n
        PROVE  g[s] = One(g, s)
    <3> HIDE DEF g, m
    <3>1. \A r \in (s + 1)..n : f[r] = g[r]
      <4>1. \A r \in (s + 1)..n : r \in (m + 1)..n
        BY <1>1, <2>2
      <4>2. QED
        BY <2>5, <4>1
    <3>2. s \in 0..n
      BY <1>1, <2>2
    <3>3. One(f, s) = One(g, s)
      BY <3>1, <3>2, SplitFromLater
    <3>4. CASE s = m
      BY <2>6, <3>3, <3>4
    <3>5. CASE s # m
      <4>1. s \in (m + 1)..n /\ s \in (n - k)..n
        BY <1>1, <2>2, <3>5
      <4>2. QED
        BY <2>1, <2>5, <3>3, <4>1
    <3>6. QED
      BY <3>4, <3>5
  <2> HIDE DEF g
  <2>8. QED
    BY <2>4, <2>7
<1>4. n \in S
  <2> HIDE DEF S
  <2>1. QED
    BY <1>1, <1>2, <1>3, NaturalsInSet
<1>5. PICK f \in [0..n -> PieceList] : \A s \in 0..n : f[s] = One(f, s)
  <2>1. n - n = 0
    BY <1>1
  <2>2. QED
    BY <1>1, <1>4, <2>1
<1> DEFINE Step(h) == [s \in 0..n |-> One(h, s)]
           from == CHOOSE h : h = Step(h)
<1>6. f = Step(f)
  <2> HIDE DEF One
  <2>1. QED
    BY <1>5
<1>7. from = Step(from)
  <2> HIDE DEF Step
  <2>1. QED
    BY <1>6
<1>8. SimpleSplit(text, size, overlap) = from[0]
  <2>1. text # <<>> /\ ~(size <= 0 \/ n <= size)
    BY <1>1
  <2>2. QED
    BY <2>1 DEF SimpleSplit, SplitFrom, Cut
<1>9. \A s \in 0..n : from[s] = One(from, s)
  <2> HIDE DEF from, One
  <2>1. QED
    BY <1>7
<1>10. DOMAIN from = 0..n /\ from = [s \in 0..n |-> from[s]]
  <2> HIDE DEF from, One
  <2>1. QED
    BY <1>7
<1> HIDE DEF from
<1> DEFINE U == {k \in Nat : k <= n => \A s \in (n - k)..n : from[s] \in PieceList}
<1>11. 0 \in U
  <2>1. (n - 0)..n = {n} /\ n \in 0..n /\ (n + 1)..n = {}
    BY <1>1
  <2>2. One(from, n) \in PieceList
    BY <2>1, SplitFromType
  <2>3. from[n] \in PieceList
    BY <1>9, <2>1, <2>2
  <2>4. QED
    BY <2>1, <2>3
<1>12. ASSUME NEW k \in Nat, k \in U
       PROVE  k + 1 \in U
  <2> DEFINE m == n - (k + 1)
  <2> SUFFICES ASSUME k + 1 <= n
               PROVE  \A s \in m..n : from[s] \in PieceList
    OBVIOUS
  <2>1. m \in 0..n /\ m + 1 = n - k
    BY <1>1
  <2>2. \A r \in (m + 1)..n : from[r] \in PieceList
    BY <1>1, <1>12, <2>1
  <2> HIDE DEF m
  <2>3. One(from, m) \in PieceList
    BY <2>1, <2>2, SplitFromType
  <2>4. from[m] \in PieceList
    BY <1>9, <2>1, <2>3
  <2>5. \A s \in m..n : s = m \/ s \in (m + 1)..n
    BY <1>1, <2>1
  <2>6. QED
    BY <2>2, <2>4, <2>5
<1>13. n \in U
  <2> HIDE DEF U
  <2>1. QED
    BY <1>1, <1>11, <1>12, NaturalsInSet
<1>14. \A s \in 0..n : from[s] \in PieceList
  <2>1. n - n = 0
    BY <1>1
  <2>2. QED
    BY <1>1, <1>13, <2>1
<1>15. from \in [0..n -> PieceList]
  BY <1>10, <1>14
<1>16. QED
  BY <1>8, <1>9, <1>15

(* Every character behind position s that is not blank is in some piece.   *)
CoversFrom(text, s, pieces) ==
    \A i \in (s + 1)..Len(text) : text[i] \in Blanks
        \/ \E k \in DOMAIN pieces : pieces[k][1] < i /\ i <= pieces[k][2]

(* One step of the recursion loses no character, if the later ones do not. *)
LEMMA SplitFromCovers ==
    ASSUME NEW text \in Text, NEW size \in Int, size > 0, NEW overlap \in Nat,
           NEW s \in 0..Len(text), NEW f,
           \A r \in (s + 1)..Len(text) :
              f[r] \in PieceList /\ CoversFrom(text, r, f[r])
    PROVE  CoversFrom(text, s, SplitFrom(text, size, overlap, f, s))
<1> DEFINE n == Len(text)
           cut == Cut(text, size, s)
           next == NextStart(s, cut, overlap)
           rest == IF cut >= n THEN <<>> ELSE f[next]
           piece == <<<<s, cut>>>>
           all == SplitFrom(text, size, overlap, f, s)
<1>1. n \in Nat /\ s \in Nat /\ s <= n
  BY LenProperties DEF Text
<1>2. /\ cut \in 0..n /\ s <= cut
      /\ cut < n => next \in (s + 1)..cut
  BY SplitMovesOn
<1>3. rest \in PieceList /\ CoversFrom(text, cut, rest)
  <2>1. CASE cut >= n
    <3>1. rest = <<>> /\ rest \in PieceList
      BY <2>1, EmptySeq DEF PieceList
    <3>2. (cut + 1)..n = {}
      <4> HIDE DEF cut
      <4>1. QED
        BY <1>1, <1>2, <2>1
    <3> HIDE DEF cut, rest
    <3>3. QED
      BY <3>1, <3>2 DEF CoversFrom
  <2>2. CASE ~(cut >= n)
    <3>1. rest = f[next]
      BY <2>2
    <3> HIDE DEF cut, rest, next
    <3>2. next \in (s + 1)..n /\ next <= cut /\ next \in Nat
      BY <1>1, <1>2, <2>2
    <3>3. f[next] \in PieceList /\ CoversFrom(text, next, f[next])
      BY <3>2
    <3>4. \A i \in (cut + 1)..n : i \in (next + 1)..n
      BY <1>1, <1>2, <3>2
    <3>5. QED
      BY <3>1, <3>3, <3>4 DEF CoversFrom
  <2>3. QED
    BY <2>1, <2>2
<1>4. CASE IsBlank(SubSeq(text, s + 1, cut))
  <2>1. all = rest
    BY <1>4 DEF SplitFrom
  <2>2. ASSUME NEW i \in (s + 1)..cut
        PROVE  text[i] \in Blanks
    <3> HIDE DEF cut
    <3>1. \A j \in (s + 1)..cut : text[j] \in STRING
      <4>1. \A j \in (s + 1)..cut : j \in 1..n
        BY <1>1, <1>2
      <4>2. QED
        BY <1>1, <4>1, ElementOfSeq DEF Text
    <3>2. /\ Len(SubSeq(text, s + 1, cut)) = cut - s
          /\ \A j \in 1..(cut - s) : SubSeq(text, s + 1, cut)[j] = text[s + 1 + j - 1]
          /\ SubSeq(text, s + 1, cut) \in Seq(STRING)
      <4>1. s + 1 \in Int /\ cut \in Int /\ s + 1 <= cut
        BY <1>1, <1>2
      <4>2. QED
        BY <1>1, <1>2, <3>1, <4>1, SubSeqProperties
    <3>3. i - s \in 1..(cut - s) /\ s + 1 + (i - s) - 1 = i
      BY <1>1, <1>2
    <3>4. SubSeq(text, s + 1, cut)[i - s] = text[i]
      BY <3>2, <3>3
    <3>5. i - s \in DOMAIN SubSeq(text, s + 1, cut)
      <4>1. DOMAIN SubSeq(text, s + 1, cut) = 1..Len(SubSeq(text, s + 1, cut))
        BY <3>2, LenProperties
      <4>2. QED
        BY <3>2, <3>3, <4>1
    <3>6. QED
      BY <1>4, <3>4, <3>5 DEF IsBlank, cut
  <2> HIDE DEF all, rest, cut
  <2>3. \A i \in (s + 1)..n : i \in (s + 1)..cut \/ i \in (cut + 1)..n
    BY <1>1, <1>2
  <2>4. QED
    BY <1>3, <2>1, <2>2, <2>3 DEF CoversFrom, all
<1>5. CASE ~IsBlank(SubSeq(text, s + 1, cut))
  <2>1. all = piece \o rest
    BY <1>5 DEF SplitFrom
  <2>2. piece \in PieceList /\ Len(piece) = 1 /\ piece[1] = <<s, cut>>
    <3> HIDE DEF cut
    <3>1. <<s, cut>> \in Nat \X Nat
      BY <1>1, <1>2
    <3>2. QED
      BY <3>1 DEF PieceList
  <2> HIDE DEF rest, piece, all
  <2>3. /\ Len(piece \o rest) = Len(piece) + Len(rest)
        /\ piece \o rest \in PieceList
        /\ \A j \in 1..(Len(piece) + Len(rest)) :
              (piece \o rest)[j] = IF j <= Len(piece) THEN piece[j] ELSE rest[j - Len(piece)]
    BY <1>3, <2>2, ConcatProperties DEF PieceList
  <2>4. Len(rest) \in Nat /\ DOMAIN rest = 1..Len(rest)
    BY <1>3, LenProperties DEF PieceList
  <2>5. DOMAIN all = 1..(1 + Len(rest))
    BY <2>1, <2>2, <2>3, LenProperties DEF PieceList
  <2>6. all[1] = <<s, cut>> /\ \A j \in 1..Len(rest) : all[j + 1] = rest[j]
    BY <2>1, <2>2, <2>3, <2>4
  <2> HIDE DEF cut
  <2>7. ASSUME NEW i \in (s + 1)..n
        PROVE  text[i] \in Blanks
                  \/ \E k \in DOMAIN all : all[k][1] < i /\ i <= all[k][2]
    <3>1. CASE i <= cut
      <4>1. 1 \in DOMAIN all /\ all[1][1] = s /\ all[1][2] = cut
        BY <2>4, <2>5, <2>6
      <4>2. s < i
        BY <1>1
      <4>3. QED
        BY <3>1, <4>1, <4>2
    <3>2. CASE ~(i <= cut)
      <4>1. i \in (cut + 1)..n
        BY <1>1, <1>2, <3>2
      <4>2. text[i] \in Blanks \/ \E k \in DOMAIN rest : rest[k][1] < i /\ i <= rest[k][2]
        BY <1>3, <4>1 DEF CoversFrom
      <4>3. \A k \in DOMAIN rest : k + 1 \in DOMAIN all /\ all[k + 1] = rest[k]
        BY <2>4, <2>5, <2>6
      <4>4. QED
        BY <4>2, <4>3
    <3>3. QED
      BY <3>1, <3>2
  <2>8. QED
    BY <2>7 DEF CoversFrom, all
<1>6. QED
  BY <1>4, <1>5

(* The built-in splitter loses no character but blanks, whatever the text, *)
(* the size of a piece and the overlap: an overlap of the size or more     *)
(* still moves on, and none skips nothing.                                 *)
THEOREM SplitterLosesNothing ==
    ASSUME NEW text \in Text, NEW size \in Int, NEW overlap \in Nat
    PROVE  /\ SimpleSplit(text, size, overlap) \in PieceList
           /\ Covers(text, SimpleSplit(text, size, overlap))
<1> DEFINE n == Len(text)
<1>1. n \in Nat /\ DOMAIN text = 1..n
  BY LenProperties DEF Text
<1>2. CASE text = <<>>
  <2>1. SimpleSplit(text, size, overlap) = <<>>
    BY <1>2 DEF SimpleSplit
  <2>2. SimpleSplit(text, size, overlap) \in PieceList
    BY <2>1, EmptySeq DEF PieceList
  <2>3. DOMAIN text = {}
    BY <1>1, <1>2
  <2>4. QED
    BY <2>2, <2>3 DEF Covers
<1>3. CASE text # <<>> /\ (size <= 0 \/ n <= size)
  <2>1. SimpleSplit(text, size, overlap) = <<<<0, n>>>>
    BY <1>3 DEF SimpleSplit
  <2>2. <<0, n>> \in Nat \X Nat /\ <<<<0, n>>>> \in PieceList
    BY <1>1 DEF PieceList
  <2>3. DOMAIN <<<<0, n>>>> = 1..1 /\ <<<<0, n>>>>[1] = <<0, n>>
    OBVIOUS
  <2>4. Covers(text, <<<<0, n>>>>)
    <3>1. ASSUME NEW i \in 1..n
          PROVE  \E k \in 1..1 : <<<<0, n>>>>[k][1] < i /\ i <= <<<<0, n>>>>[k][2]
      BY <1>1, <2>3
    <3>2. QED
      BY <1>1, <2>3, <3>1 DEF Covers
  <2>5. QED
    BY <2>1, <2>2, <2>4
<1>4. CASE text # <<>> /\ ~(size <= 0 \/ n <= size)
  <2>1. size > 0 /\ n > size
    BY <1>1, <1>4
  <2>2. PICK f \in [0..n -> PieceList] :
          /\ \A s \in 0..n : f[s] = SplitFrom(text, size, overlap, f, s)
          /\ SimpleSplit(text, size, overlap) = f[0]
    BY <2>1, SimpleSplitDefined
  <2> DEFINE S == {k \in Nat : k <= n => \A s \in (n - k)..n : CoversFrom(text, s, f[s])}
  <2>3. 0 \in S
    <3>1. (n - 0)..n = {n} /\ n \in 0..n /\ (n + 1)..n = {}
      BY <1>1
    <3>2. CoversFrom(text, n, f[n])
      BY <3>1 DEF CoversFrom
    <3>3. QED
      BY <3>1, <3>2
  <2>4. ASSUME NEW k \in Nat, k \in S
        PROVE  k + 1 \in S
    <3> DEFINE m == n - (k + 1)
    <3> SUFFICES ASSUME k + 1 <= n
                 PROVE  \A s \in m..n : CoversFrom(text, s, f[s])
      OBVIOUS
    <3>1. m \in 0..n /\ m + 1 = n - k
      BY <1>1
    <3>2. \A r \in (m + 1)..n : CoversFrom(text, r, f[r])
      BY <1>1, <2>4, <3>1
    <3> HIDE DEF m
    <3>3. \A r \in (m + 1)..n : f[r] \in PieceList
      <4>1. \A r \in (m + 1)..n : r \in 0..n
        BY <1>1, <3>1
      <4>2. QED
        BY <4>1
    <3>4. CoversFrom(text, m, f[m])
      <4>1. CoversFrom(text, m, SplitFrom(text, size, overlap, f, m))
        BY <2>1, <3>1, <3>2, <3>3, SplitFromCovers
      <4>2. QED
        BY <2>2, <3>1, <4>1
    <3>5. \A s \in m..n : s = m \/ s \in (m + 1)..n
      BY <1>1, <3>1
    <3>6. QED
      BY <3>2, <3>4, <3>5
  <2>5. n \in S
    <3> HIDE DEF S
    <3>1. QED
      BY <1>1, <2>3, <2>4, NaturalsInSet
  <2>6. CoversFrom(text, 0, f[0])
    <3>1. n - n = 0 /\ 0 \in 0..n
      BY <1>1
    <3>2. QED
      BY <1>1, <2>5, <3>1
  <2>7. Covers(text, f[0])
    BY <1>1, <2>6 DEF Covers, CoversFrom
  <2>8. f[0] \in PieceList
    BY <1>1, <2>2
  <2>9. QED
    BY <2>2, <2>7, <2>8
<1>5. QED
  BY <1>2, <1>3, <1>4

-----------------------------------------------------------------------------
(* The arguments                                                           *)

(* What a call of add makes of the files listed so far.                    *)
AddFile(seq, file, wanted) ==
    IF file \in wanted \ ToSet(seq) THEN Append(seq, file) ELSE seq

LEMMA AddFilesType ==
    ASSUME NEW seq \in Seq(Paths), NEW files, Len(files) \in Nat,
           NEW wanted \in SUBSET Paths
    PROVE  AddFiles(seq, files, wanted) \in Seq(Paths)
<1> DEFINE n == Len(files)
           One(f, k) == IF k = 0 THEN seq ELSE AddFile(f[k - 1], files[k], wanted)
           Step(f) == [k \in 0..n |-> One(f, k)]
           S == {j \in Nat : j <= n =>
                    \E f \in [0..j -> Seq(Paths)] : \A k \in 0..j : f[k] = One(f, k)}
<1>1. n \in Nat
  OBVIOUS
<1>2. ASSUME NEW s \in Seq(Paths), NEW file
      PROVE  AddFile(s, file, wanted) \in Seq(Paths)
  <2>1. \A x \in wanted : Append(s, x) \in Seq(Paths)
    BY AppendProperties
  <2>2. QED
    BY <2>1 DEF AddFile
<1>3. 0 \in S
  <2>1. [k \in 0..0 |-> seq] \in [0..0 -> Seq(Paths)]
    OBVIOUS
  <2>2. \A k \in 0..0 : [i \in 0..0 |-> seq][k] = One([i \in 0..0 |-> seq], k)
    OBVIOUS
  <2>3. QED
    BY <2>1, <2>2
<1>4. ASSUME NEW j \in Nat, j \in S
      PROVE  j + 1 \in S
  <2> SUFFICES ASSUME j + 1 <= n
               PROVE  \E g \in [0..(j + 1) -> Seq(Paths)] :
                         \A k \in 0..(j + 1) : g[k] = One(g, k)
    OBVIOUS
  <2>1. PICK f \in [0..j -> Seq(Paths)] : \A k \in 0..j : f[k] = One(f, k)
    <3> HIDE DEF One
    <3>1. j <= n
      BY <1>1
    <3>2. QED
      BY <1>4, <3>1
  <2> DEFINE g == [k \in 0..(j + 1) |-> IF k = j + 1 THEN One(f, j + 1) ELSE f[k]]
  <2>2. One(f, j + 1) = AddFile(f[j], files[j + 1], wanted)
    OBVIOUS
  <2>3. One(f, j + 1) \in Seq(Paths)
    BY <1>2, <2>2
  <2>4. g \in [0..(j + 1) -> Seq(Paths)]
    <3> HIDE DEF One
    <3>1. QED
      BY <2>3
  <2>5. ASSUME NEW k \in 0..(j + 1)
        PROVE  g[k] = One(g, k)
    <3>1. CASE k = 0
      BY <2>1, <3>1
    <3>2. CASE k \in 1..j
      <4>1. g[k] = f[k] /\ g[k - 1] = f[k - 1] /\ k \in 0..j
        BY <3>2
      <4>2. QED
        BY <2>1, <3>2, <4>1
    <3>3. CASE k = j + 1
      <4>1. g[k] = One(f, j + 1) /\ g[k - 1] = f[j] /\ k # 0
        BY <3>3
      <4>2. QED
        BY <2>2, <3>3, <4>1
    <3>4. QED
      BY <3>1, <3>2, <3>3
  <2>6. QED
    BY <2>4, <2>5
<1>5. n \in S
  <2> HIDE DEF S
  <2>1. QED
    BY <1>3, <1>4, NaturalsInSet
<1>6. PICK f \in [0..n -> Seq(Paths)] : \A k \in 0..n : f[k] = One(f, k)
  BY <1>5
<1> DEFINE after == CHOOSE h : h = Step(h)
<1>7. after = Step(after)
  <2>1. f = Step(f)
    <3> HIDE DEF One
    <3>1. QED
      BY <1>6
  <2> HIDE DEF Step
  <2>2. QED
    BY <2>1
<1>8. AddFiles(seq, files, wanted) = after[n]
  BY DEF AddFiles, AddFile
<1> HIDE DEF after
<1>9. \A k \in 0..n : after[k] = One(after, k)
  <2> HIDE DEF One
  <2>1. QED
    BY <1>7
<1> DEFINE U == {k \in Nat : k <= n => after[k] \in Seq(Paths)}
<1>10. 0 \in U
  BY <1>9
<1>11. ASSUME NEW k \in Nat, k \in U
       PROVE  k + 1 \in U
  <2>1. k + 1 <= n => after[k + 1] = AddFile(after[k], files[k + 1], wanted)
    BY <1>9
  <2>2. QED
    BY <1>2, <1>11, <2>1
<1>12. n \in U
  <2> HIDE DEF U
  <2>1. QED
    BY <1>10, <1>11, NaturalsInSet
<1>13. QED
  BY <1>8, <1>12

(* The arguments stand for a sequence of files.                            *)
LEMMA ExpandType ==
    ASSUME DocumentsAssumption, NEW args \in Args
    PROVE  Expand(args) \in Seq(Paths)
<1> DEFINE n == Len(args)
           supported == {p \in Paths : disk[p] # Absent /\ Suffix[p] \in Supported}
           Next1(s, k) == IF args[k] = Directory THEN AddFiles(s, Tree, supported)
                          ELSE AddFiles(s, <<args[k]>>, Paths)
           One(f, k) == IF k = 0 THEN <<>> ELSE Next1(f[k - 1], k)
           Step(f) == [k \in 0..n |-> One(f, k)]
           S == {j \in Nat : j <= n =>
                    \E f \in [0..j -> Seq(Paths)] : \A k \in 0..j : f[k] = One(f, k)}
<1>1. n \in Nat
  BY LenProperties DEF DocumentsAssumption
<1>2. ASSUME NEW s \in Seq(Paths), NEW k
      PROVE  Next1(s, k) \in Seq(Paths)
  <2>1. Len(Tree) \in Nat /\ supported \in SUBSET Paths
    BY LenProperties DEF DocumentsAssumption
  <2>2. Len(<<args[k]>>) \in Nat /\ Paths \in SUBSET Paths
    OBVIOUS
  <2> HIDE DEF supported
  <2>3. AddFiles(s, Tree, supported) \in Seq(Paths)
    BY <2>1, AddFilesType
  <2>4. AddFiles(s, <<args[k]>>, Paths) \in Seq(Paths)
    BY <2>2, AddFilesType
  <2>5. QED
    BY <2>3, <2>4
<1> HIDE DEF Next1
<1>3. 0 \in S
  <2>1. <<>> \in Seq(Paths)
    BY EmptySeq
  <2>2. [k \in 0..0 |-> <<>>] \in [0..0 -> Seq(Paths)]
    BY <2>1
  <2>3. \A k \in 0..0 : [i \in 0..0 |-> <<>>][k] = One([i \in 0..0 |-> <<>>], k)
    OBVIOUS
  <2>4. QED
    BY <2>2, <2>3
<1>4. ASSUME NEW j \in Nat, j \in S
      PROVE  j + 1 \in S
  <2> SUFFICES ASSUME j + 1 <= n
               PROVE  \E g \in [0..(j + 1) -> Seq(Paths)] :
                         \A k \in 0..(j + 1) : g[k] = One(g, k)
    <3> HIDE DEF One
    <3>1. QED
      OBVIOUS
  <2>1. PICK f \in [0..j -> Seq(Paths)] : \A k \in 0..j : f[k] = One(f, k)
    <3> HIDE DEF One
    <3>1. j <= n
      BY <1>1
    <3>2. QED
      BY <1>4, <3>1
  <2> DEFINE g == [k \in 0..(j + 1) |-> IF k = j + 1 THEN One(f, j + 1) ELSE f[k]]
  <2>2. One(f, j + 1) = Next1(f[j], j + 1)
    OBVIOUS
  <2>3. One(f, j + 1) \in Seq(Paths)
    BY <1>2, <2>2
  <2>4. g \in [0..(j + 1) -> Seq(Paths)]
    <3> HIDE DEF One
    <3>1. QED
      BY <2>3
  <2>5. ASSUME NEW k \in 0..(j + 1)
        PROVE  g[k] = One(g, k)
    <3>1. CASE k = 0
      BY <2>1, <3>1
    <3>2. CASE k \in 1..j
      <4>1. g[k] = f[k] /\ g[k - 1] = f[k - 1] /\ k \in 0..j
        BY <3>2
      <4>2. QED
        BY <2>1, <3>2, <4>1
    <3>3. CASE k = j + 1
      <4>1. g[k] = One(f, j + 1) /\ g[k - 1] = f[j] /\ k # 0
        BY <3>3
      <4>2. QED
        BY <2>2, <3>3, <4>1
    <3>4. QED
      BY <3>1, <3>2, <3>3
  <2>6. QED
    BY <2>4, <2>5
<1>5. n \in S
  <2> HIDE DEF S
  <2>1. QED
    BY <1>1, <1>3, <1>4, NaturalsInSet
<1>6. PICK f \in [0..n -> Seq(Paths)] : \A k \in 0..n : f[k] = One(f, k)
  BY <1>1, <1>5
<1> DEFINE after == CHOOSE h : h = Step(h)
<1>7. after = Step(after)
  <2>1. f = Step(f)
    <3> HIDE DEF One
    <3>1. QED
      BY <1>6
  <2> HIDE DEF Step
  <2>2. QED
    BY <2>1
<1>8. Expand(args) = after[n]
  BY DEF Expand, Next1
<1> HIDE DEF after
<1>9. \A k \in 0..n : after[k] = One(after, k)
  <2> HIDE DEF One
  <2>1. QED
    BY <1>7
<1> DEFINE U == {k \in Nat : k <= n => after[k] \in Seq(Paths)}
<1>10. 0 \in U
  <2>1. after[0] = <<>>
    BY <1>1, <1>9
  <2>2. after[0] \in Seq(Paths)
    BY <2>1, EmptySeq
  <2>3. QED
    BY <2>2
<1>11. ASSUME NEW k \in Nat, k \in U
       PROVE  k + 1 \in U
  <2>1. k + 1 <= n => after[k + 1] = Next1(after[k], k + 1)
    BY <1>1, <1>9
  <2>2. QED
    BY <1>1, <1>2, <1>11, <2>1
<1>12. n \in U
  <2> HIDE DEF U
  <2>1. QED
    BY <1>1, <1>10, <1>11, NaturalsInSet
<1>13. QED
  BY <1>1, <1>8, <1>12

-----------------------------------------------------------------------------
(* The inductive invariant                                                 *)

(* The texts a parser may find in a content.                               *)
Texts(c) == {LocalText[c]} \cup {RemoteText[s][c] : s \in Services}

(* What holds while a file is being imported: it is what was looked up, or *)
(* it was replaced since; a remote parser works on what was read, and what *)
(* is about to be split was found in it.                                   *)
AtFile ==
    /\ run.n <= Len(run.todo) /\ run.hash # Absent
    /\ FileNow = run.hash \/ run.changed
    /\ run.read # Absent => run.read = run.hash \/ run.changed
    /\ ~run.dry => store[run.hash] = <<>>
    /\ run.at \in {"apply", "upload", "poll", "download"} => run.stage \in Services
    /\ run.at \in {"poll", "download"} => run.read # Absent /\ task.sent = run.read
    /\ run.at = "split" => /\ run.read # Absent /\ run.text \in Texts(run.read)
                           /\ IsBlank(run.text) => IsBlank(LocalText[run.read])

Reported ==
    /\ Len(results) = run.n - 1
    /\ \A i \in 1..(run.n - 1) : results[i].path = run.todo[i]

RunOK ==
    run # Stopped =>
        /\ Reported
        /\ ~run.dry => fits
        /\ run.at = "next" => run.hash = Absent /\ run.read = Absent /\ ~run.changed
        /\ run.at # "next" => AtFile

Whole(c, doc) ==
    /\ doc.of = c \/ doc.changed
    /\ doc.text \in Texts(doc.of)
    /\ Covers(doc.text, doc.pieces)

StoreOK ==
    \A c \in Contents :
        /\ Len(store[c]) <= 1
        /\ \A i \in DOMAIN store[c] : Whole(c, store[c][i])

PromisesOK ==
    /\ \A c \in promised : store[c] # <<>>
    /\ ~fits => promised = {}

IInv == TypeOK /\ RunOK /\ StoreOK /\ PromisesOK

LEMMA RunFields ==
    ASSUME run \in Run
    PROVE  /\ run.at \in {"next", "apply", "upload", "poll", "download", "local", "split"}
           /\ run.todo \in Seq(Paths) /\ run.n \in Nat /\ Len(run.todo) \in Nat
           /\ run.hash \in Contents \cup {Absent} /\ run.read \in Contents \cup {Absent}
           /\ run.dry \in BOOLEAN /\ run.stage \in Services \cup {"local"}
           /\ run.text \in Text /\ run.left \in Nat /\ run.changed \in BOOLEAN
<1>1. run.todo \in Seq(Paths)
  BY DEF Run
<1>2. Len(run.todo) \in Nat
  BY <1>1, LenProperties
<1>3. QED
  BY <1>1, <1>2 DEF Run

(* A file the importer is at is a known path.                              *)
LEMMA FileKnown ==
    ASSUME TypeOK, run \in Run, run.n <= Len(run.todo), run.n >= 1
    PROVE  run.todo[run.n] \in Paths /\ FileNow \in Contents \cup {Absent}
<1>1. run.todo \in Seq(Paths) /\ run.n \in 1..Len(run.todo)
  BY RunFields
<1>2. run.todo[run.n] \in Paths
  BY <1>1, ElementOfSeq
<1>3. QED
  BY <1>2 DEF FileNow, TypeOK

LEMMA ActiveRun ==
    ASSUME TypeOK, run # Stopped
    PROVE  run \in Run /\ run.n \in 1..(Len(run.todo) + 1) /\ run.left <= Polls
<1>1. run \in Run
  BY DEF TypeOK
<1>2. QED
  BY <1>1, RunFields DEF TypeOK

(* The way to the next parser leaves everything but parser and place.      *)
SameFile(r) ==
    /\ r \in Run /\ r # Stopped
    /\ r.todo = run.todo /\ r.n = run.n /\ r.hash = run.hash
    /\ r.dry = run.dry /\ r.changed = run.changed /\ r.left <= Polls

LEMMA SameFileIntro ==
    ASSUME NEW r \in Run, r.at # "stopped", r.left <= Polls,
           r.todo = run.todo, r.n = run.n, r.hash = run.hash, r.dry = run.dry,
           r.changed = run.changed
    PROVE  SameFile(r)
<1>1. r # Stopped
  BY DEF Stopped
<1>2. QED
  BY <1>1 DEF SameFile

LEMMA TryTypes ==
    ASSUME TypeOK, run # Stopped
    PROVE  /\ SameFile(TryLocal) /\ TryLocal.at = "local" /\ TryLocal.read = run.read
           /\ SameFile(TryAgent) /\ TryAgent.at \in {"apply", "local"}
           /\ TryAgent.at = "apply" => TryAgent.stage \in Services
           /\ TryAgent.read = run.read
           /\ SameFile(TryFirst) /\ TryFirst.at \in {"apply", "local"}
           /\ TryFirst.at = "apply" => TryFirst.stage \in Services
           /\ TryFirst.read = run.read
<1> DEFINE Move(at, stage) == [run EXCEPT !.at = at, !.stage = stage]
<1>1. run \in Run /\ run.left <= Polls
  BY ActiveRun DEF TypeOK
<1>2. ASSUME NEW at \in {"apply", "local"}, NEW stage \in Services \cup {"local"}
      PROVE  /\ SameFile(Move(at, stage)) /\ Move(at, stage).at = at
             /\ Move(at, stage).stage = stage /\ Move(at, stage).read = run.read
  <2>1. Move(at, stage) \in Run /\ Move(at, stage).at = at /\ Move(at, stage).stage = stage
    BY <1>1 DEF Run
  <2>2. Move(at, stage) # Stopped
    BY <2>1 DEF Stopped
  <2>3. /\ Move(at, stage).todo = run.todo /\ Move(at, stage).n = run.n
        /\ Move(at, stage).hash = run.hash /\ Move(at, stage).dry = run.dry
        /\ Move(at, stage).changed = run.changed /\ Move(at, stage).left = run.left
        /\ Move(at, stage).read = run.read
    BY <1>1 DEF Run
  <2> HIDE DEF Move
  <2>4. QED
    BY <1>1, <2>1, <2>2, <2>3 DEF SameFile
<1>3. TryLocal = Move("local", "local")
  BY DEF TryLocal
<1>4. TryAgent = Move("apply", "agent") \/ TryAgent = TryLocal
  BY DEF TryAgent
<1>5. TryFirst = Move("apply", "v4") \/ TryFirst = TryAgent
  BY DEF TryFirst
<1> HIDE DEF Move
<1>6. "agent" \in Services /\ "v4" \in Services
  BY DEF Services
<1>7. QED
  BY <1>2, <1>3, <1>4, <1>5, <1>6

(* A step of the importer on its file: the rest of the state stays.        *)
LEMMA MoveKeeps ==
    ASSUME DocumentsAssumption, IInv, run # Stopped,
           SameFile(run'), run.at # "next", run'.at # "next",
           task' \in [state : {"none", "pending", "done", "failed"}, sent : Contents \cup {Absent}],
           run'.read # Absent => run'.read = run'.hash \/ run'.changed,
           run'.at \in {"apply", "upload", "poll", "download"} => run'.stage \in Services,
           run'.at \in {"poll", "download"} => run'.read # Absent /\ task'.sent = run'.read,
           run'.at = "split" => /\ run'.read # Absent /\ run'.text \in Texts(run'.read)
                                /\ IsBlank(run'.text) => IsBlank(LocalText[run'.read]),
           UNCHANGED <<Outside, store, results, promised>>
    PROVE  IInv'
<1>1. run \in Run /\ run.n \in 1..(Len(run.todo) + 1) /\ TypeOK
  BY ActiveRun DEF IInv
<1>2. TypeOK'
  BY <1>1 DEF SameFile, TypeOK, Outside
<1>3. AtFile /\ Reported /\ (~run.dry => fits)
  BY DEF IInv, RunOK
<1>4. AtFile'
  BY <1>3 DEF AtFile, SameFile, FileNow, Outside, Texts
<1>5. Reported'
  BY <1>3 DEF Reported, SameFile
<1>6. RunOK'
  BY <1>3, <1>4, <1>5 DEF RunOK, SameFile, Outside
<1>7. StoreOK' /\ PromisesOK'
  BY DEF IInv, StoreOK, PromisesOK, Outside, Whole, Texts
<1>8. QED
  BY <1>2, <1>6, <1>7 DEF IInv

(* A line of the report: the next file.                                    *)
LEMMA ReportKeeps ==
    ASSUME DocumentsAssumption, IInv, run # Stopped, run.n <= Len(run.todo),
           NEW status \in Status, Report(status), UNCHANGED <<Outside, task>>,
           store' \in [Contents -> Seq(Import)], StoreOK',
           \A c \in Contents : store[c] # <<>> => store'[c] # <<>>,
           status \in {"imported", "duplicate"} =>
              /\ fits
              /\ LET key == IF run.hash = Absent THEN FileNow ELSE run.hash
                 IN  key \in Contents /\ store'[key] # <<>>
    PROVE  IInv'
<1>1. run \in Run /\ run.n \in 1..(Len(run.todo) + 1) /\ TypeOK
  BY ActiveRun DEF IInv
<1>2. run.todo \in Seq(Paths) /\ run.n \in 1..Len(run.todo) /\ Len(run.todo) \in Nat
  BY <1>1, RunFields
<1>3. run.todo[run.n] \in Paths
  BY <1>2, ElementOfSeq
<1>4. /\ results' = Append(results, [path |-> run.todo[run.n], status |-> status])
      /\ run' = [run EXCEPT !.at = "next", !.n = @ + 1, !.hash = Absent, !.read = Absent,
                            !.text = <<>>, !.left = Polls, !.changed = FALSE]
      /\ promised' = IF status \in {"imported", "duplicate"}
                     THEN promised \cup {IF run.hash = Absent THEN FileNow ELSE run.hash}
                     ELSE promised
  BY DEF Report
<1>5. <<>> \in Text
  BY EmptySeq DEF Text
<1>6. run' \in Run /\ run'.at = "next" /\ run'.n = run.n + 1 /\ run'.left = Polls
  <2>1. run.n + 1 \in Nat /\ Polls \in Nat
    BY <1>2 DEF DocumentsAssumption
  <2> DEFINE none == <<>>
  <2>2. none \in Text
    BY <1>5
  <2>3. run' = [run EXCEPT !.at = "next", !.n = @ + 1, !.hash = Absent, !.read = Absent,
                           !.text = none, !.left = Polls, !.changed = FALSE]
    BY <1>4
  <2> HIDE DEF none
  <2>4. QED
    BY <1>1, <2>1, <2>2, <2>3 DEF Run
<1>7. /\ run'.todo = run.todo /\ run'.dry = run.dry
      /\ run'.hash = Absent /\ run'.read = Absent /\ run'.changed = FALSE
  BY <1>1, <1>4 DEF Run
<1>8. results \in Seq([path : Paths, status : Status])
  BY <1>1 DEF TypeOK
<1>9. /\ results' \in Seq([path : Paths, status : Status])
      /\ Len(results') = Len(results) + 1
      /\ results'[Len(results) + 1] = [path |-> run.todo[run.n], status |-> status]
      /\ \A i \in 1..Len(results) : results'[i] = results[i]
  BY <1>3, <1>4, <1>8, AppendProperties
<1>10. promised' \subseteq Contents
  BY <1>1, <1>4 DEF TypeOK
<1>11. TypeOK'
  <2>1. run'.n \in 1..(Len(run'.todo) + 1) /\ run'.left <= Polls
    BY <1>2, <1>6, <1>7 DEF DocumentsAssumption
  <2>2. QED
    BY <1>1, <1>6, <1>9, <1>10, <2>1 DEF TypeOK, Outside
<1>12. Reported'
  <2>1. Reported
    BY DEF IInv, RunOK
  <2>2. Len(results) = run.n - 1 /\ Len(results') = run'.n - 1
    BY <1>2, <1>6, <1>9, <2>1 DEF Reported
  <2>3. ASSUME NEW i \in 1..(run'.n - 1)
        PROVE  results'[i].path = run.todo[i]
    <3>1. CASE i = run.n
      BY <1>2, <1>9, <2>2, <3>1
    <3>2. CASE i # run.n
      <4>1. i \in 1..(run.n - 1)
        BY <1>2, <1>6, <3>2
      <4>2. QED
        BY <1>9, <2>1, <2>2, <4>1 DEF Reported
    <3>3. QED
      BY <3>1, <3>2
  <2>4. QED
    BY <1>7, <2>2, <2>3 DEF Reported
<1>13. RunOK'
  BY <1>6, <1>7, <1>12 DEF RunOK, IInv, Outside
<1>14. PromisesOK'
  BY <1>1, <1>4 DEF IInv, PromisesOK, Outside, TypeOK
<1>15. QED
  BY <1>11, <1>13, <1>14 DEF IInv

-----------------------------------------------------------------------------
(* The steps of the importer                                               *)

LEMMA NextFileKeeps ==
    ASSUME DocumentsAssumption, IInv, run # Stopped, NextFile
    PROVE  IInv'
<1>1. /\ run.at = "next" /\ run.n <= Len(run.todo)
      /\ UNCHANGED <<Outside, store, task>>
  BY DEF NextFile
<1>2. run \in Run /\ run.n \in 1..(Len(run.todo) + 1) /\ TypeOK
  BY ActiveRun DEF IInv
<1>3. FileNow \in Contents \cup {Absent}
  BY <1>1, <1>2, FileKnown
<1>4. run.hash = Absent /\ run.read = Absent /\ ~run.changed /\ Reported
      /\ (~run.dry => fits)
  BY <1>1 DEF IInv, RunOK
<1>5. StoreOK' /\ store' \in [Contents -> Seq(Import)]
  BY <1>1, <1>2 DEF IInv, StoreOK, Whole, Texts, TypeOK
<1>6. CASE FileNow = Absent
  <2>1. Report("missing") /\ "missing" \in Status
    BY <1>6 DEF NextFile, Status
  <2>2. QED
    BY <1>1, <1>5, <2>1, ReportKeeps
<1>7. CASE FileNow # Absent /\ ~run.dry /\ HasDoc(FileNow)
  <2>1. Report("duplicate") /\ "duplicate" \in Status
    BY <1>7 DEF NextFile, Status
  <2>2. FileNow \in Contents /\ store'[FileNow] # <<>>
    BY <1>1, <1>3, <1>7 DEF HasDoc
  <2>3. QED
    BY <1>1, <1>4, <1>5, <1>7, <2>1, <2>2, ReportKeeps
<1>8. CASE FileNow # Absent /\ ~(~run.dry /\ HasDoc(FileNow))
  <2> DEFINE r == FirstParser
  <2>1. run' = [r EXCEPT !.hash = FileNow] /\ UNCHANGED <<results, promised>>
    BY <1>8 DEF NextFile
  <2>2. /\ SameFile(r) /\ r.at \in {"apply", "local"}
        /\ r.at = "apply" => r.stage \in Services
        /\ r.read = run.read
    BY <1>2, TryTypes DEF FirstParser
  <2> HIDE DEF r
  <2>3. /\ run' \in Run /\ run'.at = r.at /\ run'.todo = run.todo /\ run'.n = run.n
        /\ run'.dry = run.dry /\ run'.hash = FileNow /\ run'.read = Absent
        /\ run'.changed = run.changed /\ run'.stage = r.stage /\ run'.left <= Polls
    BY <1>3, <1>4, <2>1, <2>2 DEF SameFile, Run
  <2>4. run' # Stopped
    BY <2>2, <2>3 DEF Stopped
  <2>5. TypeOK'
    BY <1>1, <1>2, <2>1, <2>3 DEF TypeOK, Outside
  <2>6. Reported'
    BY <1>4, <2>1, <2>3 DEF Reported
  <2>7. ~run.dry => store[FileNow] = <<>>
    BY <1>8 DEF HasDoc
  <2>8. FileNow' = FileNow
    BY <1>1, <2>3 DEF FileNow, Outside
  <2>9. AtFile'
    BY <1>1, <1>8, <2>2, <2>3, <2>7, <2>8 DEF AtFile
  <2>10. RunOK'
    BY <1>1, <1>4, <2>2, <2>3, <2>6, <2>9 DEF RunOK, Outside
  <2>11. PromisesOK'
    BY <1>1, <2>1 DEF IInv, PromisesOK, Outside
  <2>12. QED
    BY <1>5, <2>5, <2>10, <2>11 DEF IInv
<1>9. QED
  BY <1>6, <1>7, <1>8

(* The steps of the remote parsers, and the way from one to the next.      *)
LEMMA RemoteKeeps ==
    ASSUME DocumentsAssumption, IInv, run # Stopped,
           \/ RequestBatchUrls \/ RequestAgentFileUrl \/ UploadFile
           \/ PollBatchResult \/ PollAgentResult \/ DownloadMarkdown \/ DownloadAgentText
           \/ ParsePdfFails \/ ParsePdfAgentFails
    PROVE  IInv'
<1>1. run \in Run /\ run.n \in 1..(Len(run.todo) + 1) /\ run.left <= Polls /\ TypeOK
  BY ActiveRun DEF IInv
<1>2. Polls \in Nat
  BY DEF DocumentsAssumption
<1>3. AtFile \/ run.at = "next"
  BY DEF IInv, RunOK
<1>4. ASSUME NEW else \in {TryAgent, TryLocal}
      PROVE  /\ SameFile(else) /\ else.at \in {"apply", "local"}
             /\ else.at = "apply" => else.stage \in Services
             /\ else.read = run.read
  BY <1>1, TryTypes
<1>5. CASE RequestBatchUrls \/ RequestAgentFileUrl
  <2>1. /\ run.at = "apply" /\ run.stage \in Services
        /\ run' = [run EXCEPT !.at = "upload", !.left = Polls]
        /\ task' = NoTask
        /\ UNCHANGED <<Outside, store, results, promised>>
    BY <1>5 DEF RequestBatchUrls, RequestAgentFileUrl, LinkGiven, Services
  <2>2. /\ SameFile(run') /\ run'.at = "upload" /\ run'.read = run.read
        /\ run'.stage = run.stage
    <3>1. run' \in Run /\ run'.left <= Polls
      <4>1. run' \in Run
        BY <1>1, <1>2, <2>1 DEF Run
      <4>2. run'.left = Polls
        BY <1>1, <2>1 DEF Run
      <4>3. QED
        BY <1>2, <4>1, <4>2
    <3>2. /\ run'.todo = run.todo /\ run'.n = run.n /\ run'.hash = run.hash
          /\ run'.dry = run.dry /\ run'.changed = run.changed
          /\ run'.at = "upload" /\ run'.read = run.read /\ run'.stage = run.stage
      BY <1>1, <1>2, <2>1 DEF Run
    <3>3. QED
      BY <3>1, <3>2, SameFileIntro
  <2>3. task' \in [state : {"none", "pending", "done", "failed"}, sent : Contents \cup {Absent}]
    BY <2>1 DEF NoTask
  <2>4. AtFile
    BY <1>3, <2>1
  <2>5. run'.read # Absent => run'.read = run'.hash \/ run'.changed
    BY <2>2, <2>4 DEF AtFile, SameFile
  <2>6. QED
    BY <2>1, <2>2, <2>3, <2>5, MoveKeeps
<1>6. CASE UploadFile
  <2>1. /\ run.at = "upload" /\ FileNow # Absent
        /\ run' = [run EXCEPT !.at = "poll", !.read = FileNow]
        /\ task' = [state |-> "pending", sent |-> FileNow]
        /\ UNCHANGED <<Outside, store, results, promised>>
    BY <1>6 DEF UploadFile
  <2>2. AtFile
    BY <1>3, <2>1
  <2>3. FileNow \in Contents
    BY <1>1, <2>1, <2>2, FileKnown DEF AtFile
  <2>4. /\ SameFile(run') /\ run'.at = "poll" /\ run'.read = FileNow
        /\ run'.stage = run.stage
    <3>1. run' \in Run /\ run'.left <= Polls
      BY <1>1, <2>1, <2>3 DEF Run
    <3>2. /\ run'.todo = run.todo /\ run'.n = run.n /\ run'.hash = run.hash
          /\ run'.dry = run.dry /\ run'.changed = run.changed
          /\ run'.at = "poll" /\ run'.read = FileNow /\ run'.stage = run.stage
      BY <1>1, <2>1, <2>3 DEF Run
    <3>3. QED
      BY <3>1, <3>2, SameFileIntro
  <2>5. task' \in [state : {"none", "pending", "done", "failed"}, sent : Contents \cup {Absent}]
    BY <2>1, <2>3
  <2>6. run'.read = run'.hash \/ run'.changed
    BY <2>2, <2>4 DEF AtFile, SameFile
  <2>7. run'.stage \in Services /\ run'.read # Absent /\ task'.sent = run'.read
    BY <2>1, <2>2, <2>4 DEF AtFile
  <2>8. QED
    BY <2>1, <2>4, <2>5, <2>6, <2>7, MoveKeeps
<1>7. CASE PollBatchResult \/ PollAgentResult
  <2>1. /\ run.at = "poll" /\ run.left > 0
        /\ \/ \E left \in TimeLeft(run.left) : run' = [run EXCEPT !.left = left]
           \/ run' = [run EXCEPT !.at = "download"]
        /\ UNCHANGED <<Outside, store, results, task, promised>>
    BY <1>7 DEF PollBatchResult, PollAgentResult, Asked
  <2>2. /\ SameFile(run') /\ run'.at \in {"poll", "download"}
        /\ run'.read = run.read /\ run'.stage = run.stage
    <3>1. CASE run' = [run EXCEPT !.at = "download"]
      <4>1. run' \in Run /\ run'.left <= Polls
        BY <1>1, <3>1 DEF Run
      <4>2. /\ run'.todo = run.todo /\ run'.n = run.n /\ run'.hash = run.hash
            /\ run'.dry = run.dry /\ run'.changed = run.changed
            /\ run'.at = "download" /\ run'.read = run.read /\ run'.stage = run.stage
        BY <1>1, <3>1 DEF Run
      <4>3. QED
        BY <4>1, <4>2, SameFileIntro
    <3>2. CASE \E left \in TimeLeft(run.left) : run' = [run EXCEPT !.left = left]
      <4>1. PICK left \in TimeLeft(run.left) : run' = [run EXCEPT !.left = left]
        BY <3>2
      <4>2. left \in Nat /\ left <= Polls
        BY <1>1, <1>2, <4>1, RunFields DEF TimeLeft
      <4>3. QED
        <5>1. run' \in Run /\ run'.left <= Polls
          BY <1>1, <2>1, <4>1, <4>2 DEF Run
        <5>2. /\ run'.todo = run.todo /\ run'.n = run.n /\ run'.hash = run.hash
              /\ run'.dry = run.dry /\ run'.changed = run.changed
              /\ run'.at = "poll" /\ run'.read = run.read /\ run'.stage = run.stage
          BY <1>1, <2>1, <4>1, <4>2 DEF Run
        <5>3. QED
          BY <5>1, <5>2, SameFileIntro
    <3>3. QED
      BY <2>1, <3>1, <3>2
  <2>3. AtFile
    BY <1>3, <2>1
  <2>4. run'.read # Absent => run'.read = run'.hash \/ run'.changed
    BY <2>2, <2>3 DEF AtFile, SameFile
  <2>5. run'.stage \in Services /\ run'.read # Absent /\ task'.sent = run'.read
    BY <2>1, <2>2, <2>3 DEF AtFile
  <2>6. task' \in [state : {"none", "pending", "done", "failed"}, sent : Contents \cup {Absent}]
    BY <1>1, <2>1 DEF TypeOK
  <2>7. QED
    BY <2>1, <2>2, <2>4, <2>5, <2>6, MoveKeeps
<1>8. CASE DownloadMarkdown \/ DownloadAgentText
  <2> DEFINE text == RemoteText[run.stage][task.sent]
  <2>1. PICK else \in {TryAgent, TryLocal} :
          /\ run.at = "download"
          /\ run' = IF Usable(text) THEN [run EXCEPT !.at = "split", !.text = text] ELSE else
          /\ UNCHANGED <<Outside, store, results, task, promised>>
    BY <1>8 DEF DownloadMarkdown, DownloadAgentText, Downloaded
  <2>2. AtFile /\ run.stage \in Services /\ run.read # Absent /\ task.sent = run.read
    BY <1>3, <2>1 DEF AtFile
  <2>3. run.read \in Contents
    BY <1>1, <2>2, RunFields
  <2>4. text \in Text /\ text \in Texts(run.read)
    BY <2>2, <2>3 DEF DocumentsAssumption, Texts
  <2>5. task' \in [state : {"none", "pending", "done", "failed"}, sent : Contents \cup {Absent}]
    BY <1>1, <2>1 DEF TypeOK
  <2>6. CASE Usable(text)
    <3> HIDE DEF text
    <3>1. run' = [run EXCEPT !.at = "split", !.text = text]
      BY <2>1, <2>6
    <3>2. /\ SameFile(run') /\ run'.at = "split" /\ run'.read = run.read
          /\ run'.text = text
      <4>1. run' \in Run /\ run'.left <= Polls
        BY <1>1, <2>4, <3>1 DEF Run
      <4>2. /\ run'.todo = run.todo /\ run'.n = run.n /\ run'.hash = run.hash
            /\ run'.dry = run.dry /\ run'.changed = run.changed
            /\ run'.at = "split" /\ run'.read = run.read /\ run'.text = text
        BY <1>1, <2>4, <3>1 DEF Run
      <4>3. QED
        BY <4>1, <4>2, SameFileIntro
    <3>3. ~IsBlank(run'.text)
      BY <2>6, <3>2 DEF Usable
    <3>4. run'.read = run'.hash \/ run'.changed
      BY <2>2, <3>2 DEF AtFile, SameFile
    <3>5. QED
      BY <2>1, <2>2, <2>4, <2>5, <3>2, <3>3, <3>4, MoveKeeps
  <2>7. CASE ~Usable(text)
    <3>1. run' = else
      BY <2>1, <2>7
    <3>2. run'.read = run'.hash \/ run'.changed
      BY <1>4, <2>2, <3>1 DEF AtFile, SameFile
    <3>3. QED
      BY <1>4, <2>1, <2>5, <3>1, <3>2, MoveKeeps
  <2>8. QED
    BY <2>6, <2>7
<1>9. CASE ParsePdfFails \/ ParsePdfAgentFails
  <2>1. PICK else \in {TryAgent, TryLocal} :
          /\ run.at \in {"apply", "upload", "download", "poll"}
          /\ run' = else
          /\ UNCHANGED <<Outside, store, results, task, promised>>
    BY <1>9 DEF ParsePdfFails, ParsePdfAgentFails, Fails
  <2>2. AtFile
    BY <1>3, <2>1
  <2>3. run'.read # Absent => run'.read = run'.hash \/ run'.changed
    BY <1>4, <2>1, <2>2 DEF AtFile, SameFile
  <2>4. task' \in [state : {"none", "pending", "done", "failed"}, sent : Contents \cup {Absent}]
    BY <1>1, <2>1 DEF TypeOK
  <2>5. QED
    BY <1>4, <2>1, <2>3, <2>4, MoveKeeps
<1>10. QED
  BY <1>5, <1>6, <1>7, <1>8, <1>9

LEMMA LoadLocalKeeps ==
    ASSUME DocumentsAssumption, IInv, run # Stopped, LoadLocal
    PROVE  IInv'
<1>1. /\ run.at = "local" /\ FileNow # Absent
      /\ run' = [run EXCEPT !.at = "split", !.read = FileNow, !.text = LocalNow]
      /\ UNCHANGED <<Outside, store, results, task, promised>>
  BY DEF LoadLocal
<1>2. run \in Run /\ run.n \in 1..(Len(run.todo) + 1) /\ run.left <= Polls /\ TypeOK
  BY ActiveRun DEF IInv
<1>3. AtFile
  BY <1>1 DEF IInv, RunOK
<1>4. FileNow \in Contents
  BY <1>1, <1>2, <1>3, FileKnown DEF AtFile
<1>5. LocalNow \in Text /\ LocalNow = LocalText[FileNow] /\ LocalNow \in Texts(FileNow)
  BY <1>4 DEF DocumentsAssumption, LocalNow, Texts
<1>6. /\ SameFile(run') /\ run'.at = "split" /\ run'.read = FileNow
      /\ run'.text = LocalText[FileNow]
  <2>1. run' \in Run /\ run'.left <= Polls
    BY <1>1, <1>2, <1>4, <1>5 DEF Run
  <2>2. /\ run'.todo = run.todo /\ run'.n = run.n /\ run'.hash = run.hash
        /\ run'.dry = run.dry /\ run'.changed = run.changed
        /\ run'.at = "split" /\ run'.read = FileNow /\ run'.text = LocalText[FileNow]
    BY <1>1, <1>2, <1>4, <1>5 DEF Run
  <2>3. QED
    BY <2>1, <2>2, SameFileIntro
<1>7. run'.read = run'.hash \/ run'.changed
  BY <1>3, <1>6 DEF AtFile, SameFile
<1>8. task' \in [state : {"none", "pending", "done", "failed"}, sent : Contents \cup {Absent}]
  BY <1>1, <1>2 DEF TypeOK
<1>9. QED
  BY <1>1, <1>4, <1>5, <1>6, <1>7, <1>8, MoveKeeps

(* What is inserted is the whole text, under the hash that was looked up.  *)
LEMMA InsertKeeps ==
    ASSUME DocumentsAssumption, IInv, run # Stopped, run.at = "split", ~run.dry,
           Pieces(run.text) # <<>>, Insert
    PROVE  /\ store' \in [Contents -> Seq(Import)] /\ StoreOK'
           /\ \A c \in Contents : store[c] # <<>> => store'[c] # <<>>
           /\ run.hash \in Contents /\ store'[run.hash] # <<>>
<1>1. run \in Run /\ run.n \in 1..(Len(run.todo) + 1) /\ TypeOK /\ AtFile
  BY ActiveRun DEF IInv, RunOK
<1>2. run.hash \in Contents /\ run.read \in Contents /\ run.text \in Text
  BY <1>1, RunFields DEF AtFile
<1>3. run.todo[run.n] \in Paths
  BY <1>1, FileKnown DEF AtFile
<1>4. Pieces(run.text) \in PieceList /\ Covers(run.text, Pieces(run.text))
  <2>1. CASE config.langchain /\ ~IsBlank(run.text)
    <3> DEFINE n == Len(run.text)
    <3>1. Pieces(run.text) = <<<<0, n>>>>
      BY <2>1 DEF Pieces
    <3>2. n \in Nat /\ DOMAIN run.text = 1..n
      BY <1>2, LenProperties DEF Text
    <3> HIDE DEF n
    <3>3. <<0, n>> \in Nat \X Nat
      BY <3>2
    <3>4. <<<<0, n>>>> \in PieceList /\ DOMAIN <<<<0, n>>>> = 1..1
          /\ <<<<0, n>>>>[1] = <<0, n>>
      BY <3>3 DEF PieceList
    <3>5. \A i \in 1..n : \E k \in 1..1 : <<<<0, n>>>>[k][1] < i /\ i <= <<<<0, n>>>>[k][2]
      BY <3>2, <3>4
    <3>6. QED
      BY <3>1, <3>2, <3>4, <3>5 DEF Covers
  <2>2. CASE ~config.langchain /\ ~IsBlank(run.text)
    <3>1. Pieces(run.text) = SimpleSplit(run.text, config.size, config.overlap)
      BY <2>2 DEF Pieces
    <3>2. config.size \in Int /\ config.overlap \in Nat
      BY <1>1 DEF TypeOK, DocumentsAssumption
    <3>3. QED
      BY <1>2, <3>1, <3>2, SplitterLosesNothing
  <2>3. ~IsBlank(run.text)
    BY DEF Pieces
  <2>4. QED
    BY <2>1, <2>2, <2>3
<1>5. /\ Metadata \in Import /\ Metadata.of = run.read /\ Metadata.text = run.text
      /\ Metadata.pieces = Pieces(run.text) /\ Metadata.changed = run.changed
  <2>1. run.changed \in BOOLEAN
    BY <1>1, RunFields
  <2>2. QED
    BY <1>2, <1>3, <1>4, <2>1 DEF Metadata, Import, PieceList
<1>6. store[run.hash] = <<>>
  BY <1>1 DEF AtFile
<1>7. store' = [store EXCEPT ![run.hash] = Append(<<>>, Metadata)]
  BY <1>6 DEF Insert
<1>8. /\ Append(<<>>, Metadata) \in Seq(Import) /\ Len(Append(<<>>, Metadata)) = 1
      /\ Append(<<>>, Metadata)[1] = Metadata /\ DOMAIN Append(<<>>, Metadata) = 1..1
      /\ Append(<<>>, Metadata) # <<>>
  <2>1. <<>> \in Seq(Import) /\ Len(<<>>) = 0
    BY EmptySeq
  <2>2. QED
    BY <1>5, <2>1, AppendProperties
<1> DEFINE one == Append(<<>>, Metadata)
<1> HIDE DEF one
<1>9. store \in [Contents -> Seq(Import)] /\ store' = [store EXCEPT ![run.hash] = one]
  BY <1>1, <1>7 DEF TypeOK, one
<1>10. /\ store' \in [Contents -> Seq(Import)] /\ store'[run.hash] = one
       /\ \A c \in Contents : c # run.hash => store'[c] = store[c]
  BY <1>2, <1>8, <1>9 DEF one
<1>11. Whole(run.hash, Metadata)
  <2>1. run.read = run.hash \/ run.changed
    BY <1>1, <1>2 DEF AtFile, DocumentsAssumption
  <2>2. run.text \in Texts(run.read)
    BY <1>1 DEF AtFile
  <2>3. QED
    BY <1>4, <1>5, <2>1, <2>2 DEF Whole
<1>12. StoreOK'
  <2>1. ASSUME NEW c \in Contents
        PROVE  /\ Len(store'[c]) <= 1
               /\ \A i \in DOMAIN store'[c] : Whole(c, store'[c][i])
    <3>1. CASE c = run.hash
      <4>1. Len(one) = 1 /\ DOMAIN one = 1..1 /\ one[1] = Metadata
        BY <1>8 DEF one
      <4>2. store'[c] = one
        BY <1>10, <3>1
      <4>3. \A i \in DOMAIN store'[c] : store'[c][i] = Metadata
        BY <4>1, <4>2
      <4>4. Whole(c, Metadata)
        BY <1>11, <3>1
      <4>5. Len(store'[c]) <= 1
        <5>1. Len(store'[c]) = Len(one)
          BY <4>2, Zenon
        <5>2. QED
          BY <4>1, <5>1
      <4>6. ASSUME NEW i \in DOMAIN store'[c]
            PROVE  Whole(c, store'[c][i])
        <5> DEFINE meta == Metadata
        <5>1. Whole(c, meta) /\ store'[c][i] = meta
          BY <4>3, <4>4
        <5> HIDE DEF meta
        <5>2. QED
          BY <5>1
      <4>7. QED
        BY <4>5, <4>6
    <3>2. CASE c # run.hash
      BY <1>10, <3>2 DEF IInv, StoreOK
    <3>3. QED
      BY <3>1, <3>2
  <2>2. QED
    BY <2>1 DEF StoreOK, Whole, Texts
<1>13. one # <<>>
  BY <1>8 DEF one
<1>14. QED
  BY <1>2, <1>10, <1>12, <1>13


(* A step that stores nothing leaves what is stored as it is.              *)
LEMMA SameStore ==
    ASSUME IInv, UNCHANGED store
    PROVE  store' \in [Contents -> Seq(Import)] /\ StoreOK'
BY DEF IInv, TypeOK, StoreOK, Whole, Texts

LEMMA SplitEnds ==
    ASSUME DocumentsAssumption, IInv, run # Stopped, LoadFails \/ NothingToSplit
    PROVE  IInv'
<1>1. PICK status \in {"error", "empty"} :
        run.at # "next" /\ Report(status) /\ UNCHANGED <<Outside, store, task>>
  BY DEF LoadFails, NothingToSplit
<1>2. AtFile
  BY <1>1 DEF IInv, RunOK
<1>3. status \in Status /\ status \notin {"imported", "duplicate"}
  BY DEF Status
<1>4. run.n <= Len(run.todo)
  BY <1>2 DEF AtFile
<1>5. store' \in [Contents -> Seq(Import)] /\ StoreOK'
  BY <1>1, SameStore
<1>6. QED
  BY <1>1, <1>3, <1>4, <1>5, ReportKeeps

LEMMA AddKeeps ==
    ASSUME DocumentsAssumption, IInv, run # Stopped, AddTexts \/ AddFails
    PROVE  IInv'
<1>1. /\ run.at = "split" /\ Pieces(run.text) # <<>>
      /\ UNCHANGED <<Outside, task>>
  BY DEF AddTexts, AddFails
<1>2. AtFile /\ (~run.dry => fits)
  BY <1>1 DEF IInv, RunOK
<1>3. run.n <= Len(run.todo) /\ run.hash # Absent
  BY <1>2 DEF AtFile
<1>4. CASE ~run.dry /\ Insert /\ (Report("imported") \/ Report("error"))
  <2>1. /\ store' \in [Contents -> Seq(Import)] /\ StoreOK'
        /\ \A c \in Contents : store[c] # <<>> => store'[c] # <<>>
        /\ run.hash \in Contents /\ store'[run.hash] # <<>>
    BY <1>1, <1>4, InsertKeeps
  <2>2. PICK status \in {"imported", "error"} : Report(status)
    BY <1>4
  <2>3. status \in Status
    BY DEF Status
  <2>4. QED
    BY <1>1, <1>2, <1>3, <1>4, <2>1, <2>2, <2>3, ReportKeeps
<1>5. CASE UNCHANGED store /\ (Report("parsed") \/ Report("error"))
  <2>1. PICK status \in {"parsed", "error"} : Report(status)
    BY <1>5
  <2>2. status \in Status /\ status \notin {"imported", "duplicate"}
    BY DEF Status
  <2>3. store' \in [Contents -> Seq(Import)] /\ StoreOK'
    BY <1>5, SameStore
  <2>4. QED
    BY <1>1, <1>3, <1>5, <2>1, <2>2, <2>3, ReportKeeps
<1>6. QED
  BY <1>4, <1>5 DEF AddTexts, AddFails

(* An importer that stops keeps nothing in mind.                           *)
LEMMA StopKeeps ==
    ASSUME IInv, run' = Stopped,
           results' \in Seq([path : Paths, status : Status]),
           UNCHANGED <<Outside, store, task, promised>>
    PROVE  IInv'
<1>1. store' \in [Contents -> Seq(Import)] /\ StoreOK'
  BY SameStore
<1>2. TypeOK' /\ PromisesOK'
  BY <1>1 DEF IInv, TypeOK, PromisesOK, Outside
<1>3. RunOK'
  BY DEF RunOK
<1>4. QED
  BY <1>1, <1>2, <1>3 DEF IInv

LEMMA StopsKeep ==
    ASSUME IInv, LookupFails \/ EndOfImport \/ Crash
    PROVE  IInv'
<1>1. /\ run' = Stopped /\ (results' = <<>> \/ UNCHANGED results)
      /\ UNCHANGED <<Outside, store, task, promised>>
  BY DEF LookupFails, EndOfImport, Crash
<1>2. results' \in Seq([path : Paths, status : Status])
  <2>1. <<>> \in Seq([path : Paths, status : Status])
    BY EmptySeq
  <2>2. QED
    BY <1>1, <2>1 DEF IInv, TypeOK
<1>3. QED
  BY <1>1, <1>2, StopKeeps

-----------------------------------------------------------------------------
(* The other steps                                                         *)

LEMMA StartKeeps ==
    ASSUME DocumentsAssumption, IInv,
           NEW args \in Args, NEW dry \in BOOLEAN, Start(args, dry)
    PROVE  IInv'
<1> DEFINE todo == Expand(args)
           none == <<>>
<1>1. todo \in Seq(Paths) /\ Len(todo) \in Nat
  BY ExpandType, LenProperties
<1>2. /\ run = Stopped /\ runs < LastRun /\ runs' = runs + 1 /\ results' = <<>>
      /\ UNCHANGED <<disk, config, task, changes, promised>>
  BY DEF Start
<1>3. TypeOK /\ StoreOK /\ PromisesOK /\ Polls \in Nat /\ runs \in 0..LastRun /\ LastRun \in Nat
  BY DEF IInv, TypeOK, DocumentsAssumption
<1>4. none \in Text /\ none \in Seq([path : Paths, status : Status]) /\ Len(none) = 0
  BY EmptySeq DEF Text
<1>5. runs' \in 0..LastRun
  BY <1>2, <1>3
<1>6. CASE UNCHANGED <<run, store, fits>>
  <2>1. store' \in [Contents -> Seq(Import)] /\ StoreOK'
    BY <1>6, SameStore
  <2>2. TypeOK' /\ PromisesOK' /\ RunOK'
    BY <1>2, <1>3, <1>4, <1>5, <1>6, <2>1 DEF TypeOK, PromisesOK, RunOK
  <2>3. QED
    BY <2>1, <2>2 DEF IInv
<1>7. CASE /\ todo # <<>>
           /\ run' = [at |-> "next", todo |-> todo, n |-> 1, hash |-> Absent,
                      read |-> Absent, dry |-> dry, stage |-> "local", text |-> none,
                      left |-> Polls, changed |-> FALSE]
           /\ store' = IF dry THEN store ELSE EnsureCollection
           /\ fits' = (fits \/ ~dry)
  <2> HIDE DEF todo, none
  <2>1. /\ run' \in Run /\ run'.at = "next" /\ run'.todo = todo /\ run'.n = 1
        /\ run'.hash = Absent /\ run'.read = Absent /\ run'.dry = dry
        /\ run'.left = Polls /\ run'.changed = FALSE
    BY <1>1, <1>3, <1>4, <1>7 DEF Run
  <2>2. store' \in [Contents -> Seq(Import)] /\ StoreOK'
    <3>1. CASE UNCHANGED store
      BY <3>1, SameStore
    <3>2. CASE store' = CreateCollection
      <4>1. none \in Seq(Import) /\ CreateCollection = [c \in Contents |-> none]
        BY EmptySeq DEF none, CreateCollection
      <4>2. store' \in [Contents -> Seq(Import)] /\ \A c \in Contents : store'[c] = none
        BY <3>2, <4>1
      <4>3. DOMAIN none = {}
        BY DEF none
      <4>4. QED
        BY <1>4, <4>2, <4>3 DEF StoreOK
    <3>3. QED
      BY <1>7, <3>1, <3>2 DEF EnsureCollection
  <2>3. TypeOK'
    <3>1. run'.n \in 1..(Len(run'.todo) + 1) /\ run'.left <= Polls
      BY <1>1, <1>3, <2>1
    <3>2. results' \in Seq([path : Paths, status : Status])
      BY <1>2, <1>4 DEF none
    <3>3. fits' \in BOOLEAN
      BY <1>3, <1>7 DEF TypeOK
    <3>4. QED
      BY <1>2, <1>3, <1>5, <2>1, <2>2, <3>1, <3>2, <3>3 DEF TypeOK
  <2>4. PromisesOK'
    <3>1. CASE fits
      BY <1>2, <1>3, <1>7, <3>1 DEF PromisesOK, EnsureCollection
    <3>2. CASE ~fits
      BY <1>2, <1>3, <3>2 DEF PromisesOK
    <3>3. QED
      BY <3>1, <3>2
  <2>5. RunOK'
    <3>1. Reported'
      BY <1>2, <1>4, <2>1 DEF Reported, none
    <3>2. QED
      BY <1>7, <2>1, <3>1 DEF RunOK
  <2>6. QED
    BY <2>2, <2>3, <2>4, <2>5 DEF IInv
<1>8. QED
  BY <1>6, <1>7 DEF Start

(* A file changes: what was read of it, if it is the one at hand, is old.  *)
LEMMA EditKeeps ==
    ASSUME DocumentsAssumption, IInv,
           NEW p \in Paths, NEW c \in Contents \cup {Absent}, Edit(p, c)
    PROVE  IInv'
<1>1. /\ changes < LastChange /\ changes' = changes + 1
      /\ disk' = [disk EXCEPT ![p] = c]
      /\ run' = IF run # Stopped /\ run.hash # Absent /\ run.todo[run.n] = p
                THEN [run EXCEPT !.changed = TRUE] ELSE run
      /\ UNCHANGED <<config, fits, store, results, task, runs, promised>>
  BY DEF Edit
<1>2. TypeOK /\ changes \in 0..LastChange /\ LastChange \in Nat
  BY DEF IInv, TypeOK, DocumentsAssumption
<1>3. changes' \in 0..LastChange
  BY <1>1, <1>2
<1>4. disk' \in [Paths -> Contents \cup {Absent}] /\ \A q \in Paths : q # p => disk'[q] = disk[q]
  BY <1>1, <1>2 DEF TypeOK
<1>5. store' \in [Contents -> Seq(Import)] /\ StoreOK'
  BY <1>1, SameStore
<1>6. PromisesOK'
  BY <1>1 DEF IInv, PromisesOK
<1>7. CASE run = Stopped
  <2>1. run' = Stopped
    BY <1>1, <1>7
  <2>2. TypeOK' /\ RunOK'
    BY <1>1, <1>2, <1>3, <1>4, <1>5, <2>1 DEF TypeOK, RunOK
  <2>3. QED
    BY <1>5, <1>6, <2>2 DEF IInv
<1>8. CASE run # Stopped
  <2>1. run \in Run /\ run.n \in 1..(Len(run.todo) + 1) /\ run.left <= Polls
    BY <1>2, <1>8, ActiveRun
  <2>2. /\ run' \in Run /\ run'.at = run.at /\ run'.todo = run.todo /\ run'.n = run.n
        /\ run'.hash = run.hash /\ run'.read = run.read /\ run'.dry = run.dry
        /\ run'.stage = run.stage /\ run'.text = run.text /\ run'.left = run.left
        /\ run'.changed = run.changed \/ run'.changed = TRUE
    BY <1>1, <2>1 DEF Run
  <2>3. run' # Stopped
    BY <2>1, <2>2, RunFields DEF Stopped
  <2>4. TypeOK'
    BY <1>1, <1>2, <1>3, <1>4, <1>5, <2>1, <2>2 DEF TypeOK
  <2>5. Reported'
    BY <1>1, <1>8, <2>2 DEF IInv, RunOK, Reported
  <2>6. run.at = "next" => run'.changed = run.changed
    BY <1>1, <1>8 DEF IInv, RunOK
  <2>7. ASSUME run.at # "next"
        PROVE  AtFile'
    <3>1. AtFile
      BY <1>8, <2>7 DEF IInv, RunOK
    <3>2. run.todo[run.n] \in Paths
      BY <1>2, <2>1, <3>1, FileKnown DEF AtFile
    <3>3. FileNow' = FileNow \/ run'.changed
      <4>1. CASE run.todo[run.n] = p
        BY <1>1, <1>8, <2>1, <3>1, <4>1 DEF AtFile, Run
      <4>2. CASE run.todo[run.n] # p
        BY <1>4, <2>2, <3>2, <4>2 DEF FileNow
      <4>3. QED
        BY <4>1, <4>2
    <3>4. run.changed => run'.changed
      BY <2>2
    <3>5. QED
      BY <1>1, <2>2, <3>1, <3>3, <3>4 DEF AtFile, Texts
  <2>8. RunOK'
    BY <1>1, <1>8, <2>2, <2>5, <2>6, <2>7 DEF IInv, RunOK
  <2>9. QED
    BY <1>5, <1>6, <2>4, <2>8 DEF IInv
<1>9. QED
  BY <1>7, <1>8

LEMMA ParseKeeps ==
    ASSUME IInv, Parse
    PROVE  IInv'
<1>1. PICK s \in {"done", "failed"} : task' = [task EXCEPT !.state = s]
  BY DEF Parse
<1>2. UNCHANGED <<Outside, store, run, results, promised>>
  BY DEF Parse
<1>3. task' \in [state : {"none", "pending", "done", "failed"}, sent : Contents \cup {Absent}]
      /\ task'.sent = task.sent
  BY <1>1 DEF IInv, TypeOK
<1>4. store' \in [Contents -> Seq(Import)] /\ StoreOK'
  BY <1>2, SameStore
<1>5. TypeOK' /\ PromisesOK'
  BY <1>2, <1>3, <1>4 DEF IInv, TypeOK, PromisesOK, Outside
<1>6. RunOK'
  BY <1>2, <1>3 DEF IInv, RunOK, Reported, AtFile, FileNow, Outside, Texts
<1>7. QED
  BY <1>4, <1>5, <1>6 DEF IInv

LEMMA DeleteKeeps ==
    ASSUME DocumentsAssumption, IInv,
           (\E c \in Contents : DeleteDoc(c)) \/ Reconfigure
    PROVE  IInv'
<1>1. run = Stopped /\ run' = Stopped /\ changes < LastChange /\ changes' = changes + 1
      /\ UNCHANGED <<disk, config, results, task, runs>>
  BY DEF DeleteDoc, Reconfigure
<1>2. TypeOK /\ changes \in 0..LastChange /\ LastChange \in Nat
  BY DEF IInv, TypeOK, DocumentsAssumption
<1>3. changes' \in 0..LastChange
  BY <1>1, <1>2
<1>4. CASE Reconfigure
  <2>1. UNCHANGED store /\ fits' = FALSE /\ promised' = {}
    BY <1>4 DEF Reconfigure
  <2>2. store' \in [Contents -> Seq(Import)] /\ StoreOK'
    BY <2>1, SameStore
  <2>3. TypeOK' /\ PromisesOK' /\ RunOK'
    BY <1>1, <1>2, <1>3, <2>1, <2>2 DEF TypeOK, PromisesOK, RunOK
  <2>4. QED
    BY <2>2, <2>3 DEF IInv
<1>5. ASSUME NEW c \in Contents, DeleteDoc(c)
      PROVE  IInv'
  <2> DEFINE none == <<>>
  <2>1. store' = [store EXCEPT ![c] = none] /\ promised' = promised \ {c} /\ UNCHANGED fits
    BY <1>5 DEF DeleteDoc
  <2>2. none \in Seq(Import) /\ Len(none) = 0 /\ DOMAIN none = {}
    BY EmptySeq
  <2>3. /\ store' \in [Contents -> Seq(Import)] /\ store'[c] = none
        /\ \A d \in Contents : d # c => store'[d] = store[d]
    <3> HIDE DEF none
    <3>1. QED
      BY <1>2, <2>1, <2>2 DEF TypeOK
  <2>4. StoreOK'
    <3>1. ASSUME NEW d \in Contents
          PROVE  /\ Len(store'[d]) <= 1
                 /\ \A i \in DOMAIN store'[d] : Whole(d, store'[d][i])
      <4> HIDE DEF none
      <4>1. CASE d = c
        BY <2>2, <2>3, <4>1
      <4>2. CASE d # c
        BY <2>3, <4>2 DEF IInv, StoreOK
      <4>3. QED
        BY <4>1, <4>2
    <3>2. QED
      BY <3>1 DEF StoreOK, Whole, Texts
  <2>5. TypeOK' /\ RunOK'
    BY <1>1, <1>2, <1>3, <2>1, <2>3 DEF TypeOK, RunOK
  <2>6. PromisesOK'
    BY <1>2, <2>1, <2>3 DEF IInv, PromisesOK, TypeOK
  <2>7. QED
    BY <2>4, <2>5, <2>6 DEF IInv
<1>6. QED
  BY <1>4, <1>5

-----------------------------------------------------------------------------
LEMMA InitInv ==
    ASSUME DocumentsAssumption, Init
    PROVE  IInv
<1> DEFINE none == <<>>
<1>1. /\ disk \in Disks /\ config \in Configs /\ fits = TRUE
      /\ store = [c \in Contents |-> none] /\ run = Stopped /\ results = none
      /\ task = NoTask /\ runs = 0 /\ changes = 0 /\ promised = {}
  BY DEF Init, CreateCollection
<1>2. /\ none \in Seq(Import) /\ none \in Seq([path : Paths, status : Status])
      /\ Len(none) = 0 /\ DOMAIN none = {}
  BY EmptySeq
<1> HIDE DEF none
<1>3. store \in [Contents -> Seq(Import)] /\ \A c \in Contents : store[c] = none
  BY <1>1, <1>2
<1>4. runs \in 0..LastRun /\ changes \in 0..LastChange
  BY <1>1 DEF DocumentsAssumption
<1>5. task \in [state : {"none", "pending", "done", "failed"}, sent : Contents \cup {Absent}]
  BY <1>1 DEF NoTask
<1>6. TypeOK
  BY <1>1, <1>2, <1>3, <1>4, <1>5 DEF TypeOK, DocumentsAssumption
<1>7. StoreOK
  BY <1>2, <1>3 DEF StoreOK
<1>8. RunOK /\ PromisesOK
  BY <1>1 DEF RunOK, PromisesOK
<1>9. QED
  BY <1>6, <1>7, <1>8 DEF IInv

LEMMA NextInv ==
    ASSUME DocumentsAssumption, IInv, [Next]_vars
    PROVE  IInv'
<1>1. CASE UNCHANGED vars
  <2>1. UNCHANGED <<Outside, store, run, results, task, promised>>
    BY <1>1 DEF vars, Outside
  <2>2. store' \in [Contents -> Seq(Import)] /\ StoreOK'
    BY <2>1, SameStore
  <2>3. TypeOK' /\ PromisesOK'
    BY <2>1, <2>2 DEF IInv, TypeOK, PromisesOK, Outside
  <2>4. RunOK'
    BY <2>1 DEF IInv, RunOK, Reported, AtFile, FileNow, Outside, Texts
  <2>5. QED
    BY <2>2, <2>3, <2>4 DEF IInv
<1>2. CASE run # Stopped /\ Importer
  BY <1>2, NextFileKeeps, StopsKeep, RemoteKeeps, LoadLocalKeeps, SplitEnds, AddKeeps
     DEF Importer
<1>3. CASE \E args \in Args, dry \in BOOLEAN : Start(args, dry)
  BY <1>3, StartKeeps
<1>4. CASE Crash \/ Parse
  BY <1>4, StopsKeep, ParseKeeps
<1>5. CASE \E p \in Paths, c \in Contents \cup {Absent} : Edit(p, c)
  BY <1>5, EditKeeps
<1>6. CASE (\E c \in Contents : DeleteDoc(c)) \/ Reconfigure
  BY <1>6, DeleteKeeps
<1>7. QED
  BY <1>1, <1>2, <1>3, <1>4, <1>5, <1>6 DEF Next, Finished

-----------------------------------------------------------------------------
(* _import_paths and MilvusDocumentStore: whatever fails, stops or is      *)
(* imported again, a content is stored at most once, with its whole text,  *)
(* and under its own hash unless the file was replaced meanwhile.          *)
THEOREM StoredOnceAlways == Spec => []StoredOnce
<1> USE DocumentsAssumption
<1>1. Init => IInv
  BY InitInv
<1>2. IInv /\ [Next]_vars => IInv'
  BY NextInv
<1>3. IInv => StoredOnce
  <2> SUFFICES ASSUME IInv, NEW c \in Contents
               PROVE  /\ TypeOK /\ Len(store[c]) <= 1
                      /\ \A i \in DOMAIN store[c] : Whole(c, store[c][i])
    BY DEF StoredOnce, Whole, Texts, IInv
  <2>1. QED
    BY DEF IInv, StoreOK
<1>4. QED
  BY <1>1, <1>2, <1>3, PTL DEF Spec

(* _import_paths: the report has a line per file in their order, what it   *)
(* calls imported or known stays in the store until somebody removes it,   *)
(* and a file is called empty only if it has no local text either.         *)
THEOREM ReportAlwaysTrue == Spec => []ReportTrue
<1> USE DocumentsAssumption
<1>1. Init => IInv
  BY InitInv
<1>2. IInv /\ [Next]_vars => IInv'
  BY NextInv
<1>3. IInv => ReportTrue
  <2> SUFFICES ASSUME IInv
               PROVE  ReportTrue
    OBVIOUS
  <2> DEFINE paths == [i \in DOMAIN results |-> results[i].path]
  <2>1. ASSUME run # Stopped
        PROVE  paths = SubSeq(run.todo, 1, run.n - 1)
    <3>1. run \in Run /\ run.n \in 1..(Len(run.todo) + 1) /\ Reported
      BY <2>1, ActiveRun DEF IInv, RunOK
    <3>2. run.todo \in Seq(Paths) /\ Len(run.todo) \in Nat /\ run.n \in Nat
      BY <3>1, RunFields
    <3>3. DOMAIN results = 1..(run.n - 1)
      BY <3>1, LenProperties DEF IInv, TypeOK, Reported
    <3>4. SubSeq(run.todo, 1, run.n - 1) = [i \in 1..(run.n - 1) |-> run.todo[i]]
      <4> DEFINE done == SubSeq(run.todo, 1, run.n - 1)
      <4>1. \A i \in 1..(run.n - 1) : run.todo[i] \in Paths
        <5>1. \A i \in 1..(run.n - 1) : i \in 1..Len(run.todo)
          BY <3>1, <3>2
        <5>2. QED
          BY <3>2, <5>1, ElementOfSeq
      <4>2. run.n - 1 \in Int /\ run.n - 1 \in Nat
        BY <3>1
      <4>3. /\ done \in Seq(Paths)
            /\ Len(done) = IF 1 <= run.n - 1 THEN (run.n - 1) - 1 + 1 ELSE 0
            /\ \A i \in 1..((run.n - 1) - 1 + 1) : done[i] = run.todo[1 + i - 1]
        BY <4>1, <4>2, SubSeqProperties
      <4> HIDE DEF done
      <4>4. Len(done) = run.n - 1 /\ \A i \in 1..(run.n - 1) : done[i] = run.todo[i]
        BY <3>2, <4>2, <4>3
      <4>5. DOMAIN done = 1..(run.n - 1) /\ done = [i \in DOMAIN done |-> done[i]]
        BY <4>3, <4>4, LenProperties
      <4>6. QED
        BY <4>4, <4>5 DEF done
    <3>5. QED
      BY <3>1, <3>3, <3>4 DEF Reported
  <2>2. \A c \in promised : store[c] # <<>>
    BY DEF IInv, PromisesOK
  <2>3. run # Stopped /\ run.at = "split" /\ IsBlank(run.text) => IsBlank(LocalText[run.read])
    BY DEF IInv, RunOK, AtFile
  <2>4. QED
    BY <2>1, <2>2, <2>3 DEF ReportTrue
<1>4. QED
  BY <1>1, <1>2, <1>3, PTL DEF Spec

=============================================================================
