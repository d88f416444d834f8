---------------------------- MODULE LogHubProofs ----------------------------
(***************************************************************************)
(* Proofs about the live log, for any number of browsers, of starts of the *)
(* bot and of log entries, and any bound of the queues: a connection       *)
(* brings every line at most once and in order, nothing is missing that    *)
(* was not dropped, and what is dropped is the oldest.                     *)
(***************************************************************************)
EXTENDS LogHub, SequenceTheorems, FiniteSetTheorems, TLAPS

-----------------------------------------------------------------------------
(* Sequences in order                                                      *)

InOrder(s) == \A i, j \in DOMAIN s : i < j => Older(s[i], s[j])

Before(s, r) == \A i \in DOMAIN s, j \in DOMAIN r : Older(s[i], r[j])

(* What a concatenation has at which index.                                *)
LEMMA ConcatAt ==
    ASSUME NEW A, NEW s \in Seq(A), NEW d \in Seq(A)
    PROVE  /\ s \o d \in Seq(A) /\ Len(s \o d) = Len(s) + Len(d)
           /\ Len(s) \in Nat /\ Len(d) \in Nat
           /\ DOMAIN s = 1..Len(s) /\ DOMAIN d = 1..Len(d)
           /\ DOMAIN (s \o d) = 1..(Len(s) + Len(d))
           /\ \A i \in 1..Len(s) : (s \o d)[i] = s[i]
           /\ \A i \in 1..Len(d) : (s \o d)[Len(s) + i] = d[i]
<1> DEFINE n == Len(s)
           l == Len(d)
           all == s \o d
<1>1. n \in Nat /\ l \in Nat /\ DOMAIN s = 1..n /\ DOMAIN d = 1..l
  BY LenProperties
<1>2. /\ all \in Seq(A) /\ Len(all) = n + l
      /\ \A i \in 1..(n + l) : all[i] = IF i <= n THEN s[i] ELSE d[i - n]
  BY ConcatProperties
<1> HIDE DEF all, n, l
<1>3. DOMAIN all = 1..(n + l)
  BY <1>2, LenProperties
<1>4. \A i \in 1..n : all[i] = s[i]
  BY <1>1, <1>2
<1>5. ASSUME NEW i \in 1..l
      PROVE  all[n + i] = d[i]
  <2>1. n + i \in 1..(n + l) /\ ~(n + i <= n) /\ (n + i) - n = i
    BY <1>1
  <2>2. all[n + i] = IF n + i <= n THEN s[n + i] ELSE d[(n + i) - n]
    BY <1>2, <2>1
  <2>3. QED
    BY <2>1, <2>2
<1>6. QED
  BY <1>1, <1>2, <1>3, <1>4, <1>5 DEF all, n, l

(* An index of a concatenation is one of the first or of the second part.  *)
LEMMA ConcatSplit ==
    ASSUME NEW A, NEW s \in Seq(A), NEW d \in Seq(A), NEW i \in DOMAIN (s \o d)
    PROVE  \/ i \in DOMAIN s /\ (s \o d)[i] = s[i]
           \/ /\ i \notin DOMAIN s /\ i - Len(s) \in DOMAIN d
              /\ (s \o d)[i] = d[i - Len(s)]
<1> DEFINE n == Len(s)
           l == Len(d)
           all == s \o d
<1>1. /\ n \in Nat /\ l \in Nat /\ DOMAIN s = 1..n /\ DOMAIN d = 1..l
      /\ i \in 1..(n + l)
      /\ \A j \in 1..n : all[j] = s[j]
      /\ \A j \in 1..l : all[n + j] = d[j]
  BY ConcatAt
<1> HIDE DEF all, n, l
<1>2. CASE i \in 1..n
  BY <1>1, <1>2 DEF all
<1>3. CASE i \notin 1..n
  <2>1. i - n \in 1..l /\ n + (i - n) = i
    BY <1>1, <1>3
  <2>2. all[n + (i - n)] = d[i - n]
    BY <1>1, <2>1
  <2>3. QED
    BY <1>1, <1>3, <2>1, <2>2 DEF all, n
<1>4. QED
  BY <1>2, <1>3

LEMMA ConcatRange ==
    ASSUME NEW A, NEW s \in Seq(A), NEW d \in Seq(A)
    PROVE  Range(s \o d) = Range(s) \cup Range(d)
<1>1. ASSUME NEW x \in Range(s \o d)
      PROVE  x \in Range(s) \cup Range(d)
  <2>1. PICK i \in DOMAIN (s \o d) : x = (s \o d)[i]
    BY DEF Range
  <2>2. QED
    BY <2>1, ConcatSplit DEF Range
<1>2. ASSUME NEW i \in DOMAIN s
      PROVE  s[i] \in Range(s \o d)
  <2>1. i \in DOMAIN (s \o d) /\ (s \o d)[i] = s[i]
    <3> DEFINE n == Len(s)
               l == Len(d)
    <3>1. /\ n \in Nat /\ l \in Nat /\ i \in 1..n /\ DOMAIN (s \o d) = 1..(n + l)
          /\ \A j \in 1..n : (s \o d)[j] = s[j]
      BY ConcatAt
    <3> HIDE DEF n, l
    <3>2. QED
      BY <3>1
  <2>2. QED
    BY <2>1 DEF Range
<1>3. ASSUME NEW j \in DOMAIN d
      PROVE  d[j] \in Range(s \o d)
  <2> DEFINE n == Len(s)
             l == Len(d)
  <2>1. /\ n \in Nat /\ l \in Nat /\ j \in 1..l /\ DOMAIN (s \o d) = 1..(n + l)
        /\ \A k \in 1..l : (s \o d)[n + k] = d[k]
    BY ConcatAt
  <2> HIDE DEF n, l
  <2>2. n + j \in DOMAIN (s \o d) /\ (s \o d)[n + j] = d[j]
    BY <2>1
  <2>3. QED
    BY <2>2 DEF Range
<1>4. QED
  BY <1>1, <1>2, <1>3 DEF Range

(* A concatenation is in order when its parts are, one before the other.   *)
LEMMA OrderSplits ==
    ASSUME NEW A, NEW s \in Seq(A), NEW d \in Seq(A)
    PROVE  InOrder(s \o d) <=> InOrder(s) /\ InOrder(d) /\ Before(s, d)
<1> DEFINE n == Len(s)
           l == Len(d)
           all == s \o d
<1>1. /\ n \in Nat /\ l \in Nat /\ DOMAIN s = 1..n /\ DOMAIN d = 1..l
      /\ DOMAIN all = 1..(n + l)
      /\ \A j \in 1..n : all[j] = s[j]
      /\ \A j \in 1..l : all[n + j] = d[j]
  BY ConcatAt
<1>2. \A i \in DOMAIN all : \/ i \in 1..n
                            \/ i \notin 1..n /\ i - n \in 1..l /\ all[i] = d[i - n]
  BY <1>1, ConcatSplit
<1> HIDE DEF all, n, l
<1>3. ASSUME InOrder(all)
      PROVE  InOrder(s) /\ InOrder(d) /\ Before(s, d)
  <2>1. \A i \in 1..n : i \in 1..(n + l)
    BY <1>1
  <2>2. \A j \in 1..l : n + j \in 1..(n + l)
    BY <1>1
  <2>3. InOrder(s)
    BY <1>1, <1>3, <2>1 DEF InOrder
  <2>4. InOrder(d)
    <3> SUFFICES ASSUME NEW i \in 1..l, NEW j \in 1..l, i < j PROVE Older(d[i], d[j])
      BY <1>1 DEF InOrder
    <3>1. n + i < n + j
      BY <1>1
    <3>2. QED
      BY <1>1, <1>3, <2>2, <3>1 DEF InOrder
  <2>5. Before(s, d)
    <3> SUFFICES ASSUME NEW i \in 1..n, NEW j \in 1..l PROVE Older(s[i], d[j])
      BY <1>1 DEF Before
    <3>1. i < n + j
      BY <1>1
    <3>2. QED
      BY <1>1, <1>3, <2>1, <2>2, <3>1 DEF InOrder
  <2>6. QED
    BY <2>3, <2>4, <2>5
<1>4. ASSUME InOrder(s), InOrder(d), Before(s, d)
      PROVE  InOrder(all)
  <2> SUFFICES ASSUME NEW i \in 1..(n + l), NEW j \in 1..(n + l), i < j
               PROVE  Older(all[i], all[j])
    BY <1>1 DEF InOrder
  <2>1. CASE j \in 1..n
    <3>1. i \in 1..n
      BY <1>1, <2>1
    <3>2. QED
      BY <1>1, <1>4, <2>1, <3>1 DEF InOrder
  <2>2. CASE i \in 1..n /\ j \notin 1..n
    BY <1>1, <1>2, <1>4, <2>2 DEF Before
  <2>3. CASE i \notin 1..n /\ j \notin 1..n
    <3>1. i - n \in 1..l /\ all[i] = d[i - n] /\ j - n \in 1..l /\ all[j] = d[j - n]
      BY <1>1, <1>2, <2>3
    <3>2. i - n < j - n
      BY <1>1
    <3>3. \A x, y \in 1..l : x < y => Older(d[x], d[y])
      BY <1>1, <1>4 DEF InOrder
    <3>4. QED
      BY <3>1, <3>2, <3>3
  <2>4. QED
    BY <2>1, <2>2, <2>3
<1>5. QED
  BY <1>3, <1>4 DEF all

-----------------------------------------------------------------------------
(* _broadcast                                                              *)

(* What is kept is the end of the lines, and all of it that fits.          *)
LEMMA KeptIsEnd ==
    ASSUME NEW lines \in Seq(Entries)
    PROVE  \E off \in Nat :
              /\ Kept(lines) \in Seq(Entries)
              /\ Len(Kept(lines)) <= QueueMax
              /\ DOMAIN lines = 1..Len(lines) /\ Len(lines) \in Nat
              /\ DOMAIN Kept(lines) = 1..Len(Kept(lines)) /\ Len(Kept(lines)) \in Nat
              /\ Len(lines) = off + Len(Kept(lines))
              /\ \A i \in DOMAIN Kept(lines) : Kept(lines)[i] = lines[off + i]
              /\ off > 0 => Len(Kept(lines)) = QueueMax
<1> DEFINE n == Len(lines)
<1>1. n \in Nat /\ DOMAIN lines = 1..n /\ QueueMax \in Nat \ {0}
  BY LogAssumption, LenProperties
<1>2. CASE n <= QueueMax
  <2>1. Kept(lines) = lines
    BY <1>2 DEF Kept
  <2> HIDE DEF n
  <2>2. 0 \in Nat /\ n = 0 + n /\ \A i \in 1..n : 0 + i = i
    BY <1>1
  <2>3. /\ Kept(lines) \in Seq(Entries) /\ n <= QueueMax /\ DOMAIN lines = 1..n
        /\ n \in Nat /\ n = 0 + n /\ \A i \in 1..n : lines[i] = lines[0 + i]
        /\ ~(0 > 0)
    BY <1>1, <1>2, <2>1, <2>2
  <2> USE DEF n
  <2> WITNESS 0 \in Nat
  <2>4. QED
    BY <2>1, <2>3
<1>3. CASE ~(n <= QueueMax)
  <2>1. Kept(lines) = SubSeq(lines, n - QueueMax + 1, n)
    BY <1>3 DEF Kept
  <2> HIDE DEF n
  <2> DEFINE m == n - QueueMax + 1
  <2>2. /\ m \in Int /\ n \in Int /\ m \in 1..n
        /\ n - m + 1 = QueueMax /\ m - 1 \in Nat /\ n = (m - 1) + QueueMax
    BY <1>1, <1>3
  <2>3. \A i \in m..n : lines[i] \in Entries
    <3>1. \A i \in m..n : i \in 1..n
      BY <1>1, <2>2
    <3>2. QED
      BY <1>1, <3>1, ElementOfSeq DEF n
  <2> HIDE DEF m
  <2>4. /\ SubSeq(lines, m, n) \in Seq(Entries)
        /\ Len(SubSeq(lines, m, n)) = IF m <= n THEN n - m + 1 ELSE 0
        /\ \A i \in 1..n - m + 1 : SubSeq(lines, m, n)[i] = lines[m + i - 1]
    BY <2>2, <2>3, SubSeqProperties
  <2>5. Kept(lines) = SubSeq(lines, m, n)
    BY <2>1 DEF m
  <2>6. Len(Kept(lines)) = QueueMax
    BY <2>2, <2>4, <2>5
  <2>7. DOMAIN Kept(lines) = 1..QueueMax
    BY <2>4, <2>5, <2>6, LenProperties
  <2>8. \A i \in 1..QueueMax : m + i - 1 = (m - 1) + i
    BY <2>2
  <2>9. \A i \in DOMAIN Kept(lines) : Kept(lines)[i] = lines[(m - 1) + i]
    BY <2>2, <2>4, <2>5, <2>7, <2>8
  <2>10. /\ Kept(lines) \in Seq(Entries) /\ QueueMax <= QueueMax
         /\ DOMAIN lines = 1..n /\ n \in Nat /\ QueueMax \in Nat
         /\ n = (m - 1) + QueueMax /\ m - 1 \in Nat
    BY <1>1, <2>2, <2>4, <2>5
  <2> USE <2>10 DEF n
  <2> WITNESS m - 1 \in Nat
  <2>11. QED
    BY <2>6, <2>7, <2>9, <2>10
<1>4. QED
  BY <1>2, <1>3

(* Keeping neither reorders nor invents, and drops the oldest.             *)
LEMMA KeptFacts ==
    ASSUME NEW lines \in Seq(Entries)
    PROVE  /\ Kept(lines) \in Seq(Entries) /\ Len(Kept(lines)) <= QueueMax
           /\ Range(Kept(lines)) \subseteq Range(lines)
           /\ InOrder(lines) => InOrder(Kept(lines))
           /\ \A s : Before(s, lines) => Before(s, Kept(lines))
           /\ InOrder(lines) =>
                 \A e \in Range(lines) \ Range(Kept(lines)) :
                    /\ Len(Kept(lines)) = QueueMax
                    /\ \A i \in DOMAIN Kept(lines) : Older(e, Kept(lines)[i])
<1> DEFINE kept == Kept(lines)
           n == Len(lines)
           m == Len(kept)
<1>1. PICK off \in Nat :
         /\ kept \in Seq(Entries) /\ m <= QueueMax
         /\ DOMAIN lines = 1..n /\ n \in Nat
         /\ DOMAIN kept = 1..m /\ m \in Nat
         /\ n = off + m
         /\ \A i \in DOMAIN kept : kept[i] = lines[off + i]
         /\ off > 0 => m = QueueMax
  BY KeptIsEnd
<1> HIDE DEF kept, n, m
<1>2. \A i \in 1..m : off + i \in 1..n
  BY <1>1
<1>3. Range(kept) \subseteq Range(lines)
  BY <1>1, <1>2 DEF Range
<1>4. ASSUME InOrder(lines)
      PROVE  InOrder(kept)
  <2> SUFFICES ASSUME NEW i \in 1..m, NEW j \in 1..m, i < j
               PROVE  Older(kept[i], kept[j])
    BY <1>1 DEF InOrder
  <2>1. off + i < off + j
    BY <1>1
  <2>2. QED
    BY <1>1, <1>2, <1>4, <2>1 DEF InOrder
<1>5. \A s : Before(s, lines) => Before(s, kept)
  BY <1>1, <1>2 DEF Before
<1>6. ASSUME InOrder(lines), NEW e \in Range(lines) \ Range(kept)
      PROVE  m = QueueMax /\ \A i \in DOMAIN kept : Older(e, kept[i])
  <2>1. PICK k \in 1..n : e = lines[k]
    BY <1>1, <1>6 DEF Range
  <2>2. k <= off
    <3> SUFFICES ASSUME ~(k <= off) PROVE FALSE
      OBVIOUS
    <3>1. k - off \in 1..m /\ off + (k - off) = k
      BY <1>1
    <3>2. kept[k - off] = e
      BY <1>1, <2>1, <3>1
    <3>3. QED
      BY <1>1, <1>6, <3>1, <3>2 DEF Range
  <2>3. off > 0
    BY <2>2
  <2>4. ASSUME NEW i \in 1..m
        PROVE  Older(e, kept[i])
    <3>1. k < off + i
      BY <1>1, <2>2
    <3>2. QED
      BY <1>1, <1>2, <1>6, <2>1, <3>1 DEF InOrder
  <2>5. QED
    BY <1>1, <2>3, <2>4
<1>7. QED
  BY <1>1, <1>3, <1>4, <1>5, <1>6 DEF kept, m

-----------------------------------------------------------------------------
(* What is read from the file                                              *)

Writes == [entry : Entries, part : {"line", "head", "tail"}]

(* The file holds this run's entries in order, only the two parts of a     *)
(* long one share their number.                                            *)
FileShape ==
    /\ run = 0 => file = <<>>
    /\ \A i \in DOMAIN file : file[i].entry[1] = run
    /\ \A i, j \in DOMAIN file : i < j =>
          /\ file[i].entry[2] <= file[j].entry[2]
          /\ file[i].part # "head" => file[i].entry[2] < file[j].entry[2]

(* The line x ends at the k-th write.                                      *)
EndsAt(x, k) == file[k].part # "head" /\ file[k].entry = x

LEMMA FileIndex ==
    ASSUME file \in Seq(Writes)
    PROVE  /\ Len(file) \in Nat /\ DOMAIN file = 1..Len(file)
           /\ \A i \in DOMAIN file : file[i] \in Writes
<1>1. Len(file) \in Nat /\ DOMAIN file = 1..Len(file)
  BY LenProperties
<1>2. \A i \in 1..Len(file) : file[i] \in Writes
  BY ElementOfSeq
<1>3. QED
  BY <1>1, <1>2

(* The line ends are put in order without leaving one out.                 *)
LEMMA AllEndsRead ==
    ASSUME file \in Seq(Writes), NEW p \in Nat, NEW f \in InFileOrder(LineEnds(p))
    PROVE  /\ Cardinality(LineEnds(p)) \in Nat
           /\ f \in [1..Cardinality(LineEnds(p)) -> LineEnds(p)]
           /\ \A i \in LineEnds(p) : \E k \in DOMAIN f : f[k] = i
<1> DEFINE ends == LineEnds(p)
           c == Cardinality(ends)
<1>1. IsFiniteSet(ends)
  <2>1. Len(file) \in Nat /\ IsFiniteSet((p + 1)..Len(file))
    BY FileIndex, FS_Interval
  <2>2. ends \subseteq (p + 1)..Len(file)
    BY DEF LineEnds
  <2>3. QED
    BY <2>1, <2>2, FS_Subset
<1>2. /\ f \in [1..c -> ends] /\ c \in Nat
      /\ \A j, k \in DOMAIN f : j < k => f[j] < f[k]
  BY <1>1, FS_CardinalityType DEF InFileOrder
<1>3. \A j, k \in 1..c : f[j] = f[k] => j = k
  <2> SUFFICES ASSUME NEW j \in 1..c, NEW k \in 1..c, f[j] = f[k], j < k
               PROVE  FALSE
    BY <1>2
  <2>1. f[j] < f[k] /\ f[j] \in Int
    BY <1>2, FileIndex DEF LineEnds
  <2>2. QED
    BY <2>1
<1>4. f \in Injection(1..c, ends)
  BY <1>2, <1>3 DEF Injection, IsInjective
<1>5. Cardinality(1..c) = c
  BY <1>2, FS_Interval
<1>6. f \in Surjection(1..c, ends)
  BY <1>1, <1>4, <1>5, FS_Injection
<1>7. \A i \in ends : \E k \in 1..c : f[k] = i
  BY <1>6 DEF Surjection
<1>8. QED
  BY <1>2, <1>7

(* What is read from p on: line ends, in order, and every short line.      *)
LEMMA NewLines ==
    ASSUME file \in Seq(Writes), FileShape, NEW p \in Nat,
           NEW f \in InFileOrder(LineEnds(p)),
           NEW new, new = [k \in DOMAIN f |-> file[f[k]].entry]
    PROVE  /\ new \in Seq(Entries)
           /\ InOrder(new)
           /\ \A x \in Range(new) : \E i \in DOMAIN file : i > p /\ EndsAt(x, i)
           /\ \A i \in DOMAIN file : i > p /\ file[i].part = "line" =>
                 file[i].entry \in Range(new)
<1> DEFINE ends == LineEnds(p)
           c == Cardinality(ends)
<1>1. /\ c \in Nat /\ f \in [1..c -> ends] /\ DOMAIN f = 1..c
      /\ \A i \in ends : \E k \in DOMAIN f : f[k] = i
  BY AllEndsRead
<1>2. \A j, k \in 1..c : j < k => f[j] < f[k]
  BY <1>1 DEF InFileOrder
<1>3. Len(file) \in Nat /\ DOMAIN file = 1..Len(file) /\ \A i \in DOMAIN file : file[i] \in Writes
  BY FileIndex
<1>4. \A i \in ends : i \in DOMAIN file /\ i > p /\ i \in Int /\ file[i].part # "head"
  BY <1>3 DEF LineEnds
<1>5. \A i \in DOMAIN file : i > p /\ file[i].part = "line" => i \in ends
  BY <1>3 DEF LineEnds
<1> HIDE DEF c, ends
<1>6. DOMAIN new = 1..c /\ \A k \in 1..c : new[k] = file[f[k]].entry
  BY <1>1
<1>7. \A k \in 1..c : new[k] \in Entries
  BY <1>1, <1>3, <1>4, <1>6 DEF Writes
<1>8. new \in Seq(Entries)
  <2>1. new \in [1..c -> Entries]
    BY <1>1, <1>6, <1>7
  <2>2. QED
    BY <1>1, <2>1, SeqDef
<1>9. InOrder(new)
  <2> SUFFICES ASSUME NEW j \in 1..c, NEW k \in 1..c, j < k
               PROVE  Older(new[j], new[k])
    BY <1>6 DEF InOrder
  <2>1. f[j] \in ends /\ f[k] \in ends /\ f[j] < f[k]
    BY <1>1, <1>2
  <2>2. /\ f[j] \in DOMAIN file /\ f[k] \in DOMAIN file
        /\ file[f[j]].part # "head"
    BY <1>4, <2>1
  <2>3. QED
    BY <1>6, <2>1, <2>2 DEF Older, FileShape
<1>10. \A x \in Range(new) : \E i \in DOMAIN file : i > p /\ EndsAt(x, i)
  <2> SUFFICES ASSUME NEW k \in 1..c
               PROVE  \E i \in DOMAIN file : i > p /\ EndsAt(new[k], i)
    BY <1>6 DEF Range
  <2>1. f[k] \in ends
    BY <1>1
  <2>2. QED
    BY <1>4, <1>6, <2>1 DEF EndsAt
<1>11. \A i \in DOMAIN file : i > p /\ file[i].part = "line" => file[i].entry \in Range(new)
  <2> SUFFICES ASSUME NEW i \in DOMAIN file, i > p, file[i].part = "line"
               PROVE  file[i].entry \in Range(new)
    OBVIOUS
  <2>1. PICK k \in 1..c : f[k] = i
    BY <1>1, <1>5
  <2>2. QED
    BY <1>6, <2>1 DEF Range
<1>12. QED
  BY <1>8, <1>9, <1>10, <1>11

-----------------------------------------------------------------------------
(* The types                                                               *)

LEMMA TypeInit == Init => TypeOK
<1> SUFFICES ASSUME Init PROVE TypeOK
  OBVIOUS
<1>1. file \in Seq(Writes) /\ \A b \in Browsers : <<>> \in Seq(Entries) /\ Len(<<>>) = 0
  BY EmptySeq DEF Init
<1>2. Subscribers = {}
  BY DEF Init, Subscribers, Off
<1>3. QED
  BY <1>1, <1>2, LogAssumption DEF Init, TypeOK, NoPoll, Off, Writes

(* What the last write is, and what the next one makes of the file.        *)
LEMMA LastWrite ==
    ASSUME file \in Seq(Writes), file # <<>>
    PROVE  /\ Len(file) \in DOMAIN file /\ Last(file) = file[Len(file)]
           /\ Last(file) \in Writes
<1>1. Len(file) > 0
  BY EmptySeq, LenProperties
<1>2. QED
  BY <1>1, FileIndex DEF Last

LEMMA EmitType ==
    ASSUME TypeOK, Emit \/ EmitRest
    PROVE  file' \in Seq(Writes)
<1>1. file \in Seq(Writes)
  BY DEF TypeOK, Writes
<1>2. CASE Emit
  <2> DEFINE n == IF file = <<>> THEN 1 ELSE Last(file).entry[2] + 1
  <2>1. /\ run > 0 /\ n <= LastEntry
        /\ file' = Append(file, [entry |-> <<run, n>>,
                                 part |-> IF n \in Long THEN "head" ELSE "line"])
    BY <1>2 DEF Emit
  <2>2. n \in 1..LastEntry
    <3>1. CASE file = <<>>
      BY <2>1, <3>1, LogAssumption
    <3>2. CASE file # <<>>
      <4>1. Last(file).entry \in Entries
        BY <1>1, <3>2, LastWrite DEF Writes
      <4>2. QED
        BY <2>1, <3>2, <4>1, LogAssumption DEF Entries
    <3>3. QED
      BY <3>1, <3>2
  <2> HIDE DEF n
  <2>3. run \in 1..LastRun
    BY <2>1, LogAssumption DEF TypeOK
  <2>4. [entry |-> <<run, n>>, part |-> IF n \in Long THEN "head" ELSE "line"] \in Writes
    BY <2>2, <2>3 DEF Writes, Entries
  <2>5. QED
    BY <1>1, <2>1, <2>4, AppendProperties
<1>3. CASE EmitRest
  <2>1. file # <<>> /\ file' = Append(file, [entry |-> Last(file).entry, part |-> "tail"])
    BY <1>3 DEF EmitRest, HalfWritten
  <2>2. [entry |-> Last(file).entry, part |-> "tail"] \in Writes
    BY <1>1, <2>1, LastWrite DEF Writes
  <2>3. QED
    BY <1>1, <2>1, <2>2, AppendProperties
<1>4. QED
  BY <1>2, <1>3

(* What one read does to its browser.                                      *)
LEMMA ReadResult ==
    ASSUME TypeOK, FileShape, NEW b \in Browsers, Read(b),
           poll.size # Resume(pos[b])
    PROVE  \E new \in Seq(Entries) :
              /\ queue[b] \o new \in Seq(Entries)
              /\ InOrder(new)
              /\ \A x \in Range(new) : \E i \in DOMAIN file : i > Resume(pos[b]) /\ EndsAt(x, i)
              /\ \A i \in DOMAIN file : i > Resume(pos[b]) /\ file[i].part = "line" =>
                    file[i].entry \in Range(new)
              /\ pos' = [pos EXCEPT ![b] = ReadTo(Resume(pos[b]))]
              /\ queue' = [queue EXCEPT ![b] = Kept(queue[b] \o new)]
              /\ dropped' = [dropped EXCEPT ![b] =
                    @ \cup (Range(queue[b] \o new) \ Range(Kept(queue[b] \o new)))]
              /\ stale' = IF Resume(pos[b]) = 0 THEN stale \ {b} ELSE stale
<1>1. PICK p : p = Resume(pos[b])
  OBVIOUS
<1>2. b \in poll.todo /\ b \in Subscribers /\ pos[b] \in Nat
  BY DEF Read, TypeOK, Subscribers, Off
<1>3. p \in Nat
  BY <1>1, <1>2 DEF Resume
<1>4. PICK f \in InFileOrder(LineEnds(p)) :
         LET lines == queue[b] \o [k \in DOMAIN f |-> file[f[k]].entry]
         IN  /\ pos' = [pos EXCEPT ![b] = ReadTo(p)]
             /\ queue' = [queue EXCEPT ![b] = Kept(lines)]
             /\ dropped' = [dropped EXCEPT ![b] =
                               @ \cup (Range(lines) \ Range(Kept(lines)))]
             /\ stale' = IF p = 0 THEN stale \ {b} ELSE stale
  BY <1>1 DEF Read
<1>5. PICK new : new = [k \in DOMAIN f |-> file[f[k]].entry]
  OBVIOUS
<1>6. file \in Seq(Writes)
  BY DEF TypeOK, Writes
<1>7. /\ new \in Seq(Entries)
      /\ InOrder(new)
      /\ \A x \in Range(new) : \E i \in DOMAIN file : i > p /\ EndsAt(x, i)
      /\ \A i \in DOMAIN file : i > p /\ file[i].part = "line" =>
            file[i].entry \in Range(new)
  BY <1>3, <1>5, <1>6, NewLines
<1>8. queue[b] \o new \in Seq(Entries)
  BY <1>7, ConcatAt DEF TypeOK
<1>9. QED
  BY <1>1, <1>4, <1>5, <1>7, <1>8

(* Who is subscribed changes only with a connection.                       *)
LEMMA SameSubscribers ==
    ASSUME pos' = pos
    PROVE  Subscribers' = Subscribers
BY DEF Subscribers

LEMMA ReadSubscribers ==
    ASSUME TypeOK, FileShape, NEW b \in Browsers, Read(b)
    PROVE  /\ Subscribers' = Subscribers
           /\ pos' \in [Browsers -> Nat \cup {Off}]
<1>1. CASE poll.size = Resume(pos[b])
  <2>1. pos' = pos
    BY <1>1 DEF Read
  <2>2. QED
    BY <2>1, SameSubscribers DEF TypeOK
<1>2. CASE poll.size # Resume(pos[b])
  <2>1. pos[b] \in Nat /\ Resume(pos[b]) \in Nat
    BY DEF Read, TypeOK, Subscribers, Off, Resume
  <2>2. ReadTo(Resume(pos[b])) \in Nat
    BY <2>1, FileIndex DEF ReadTo, TypeOK, Writes
  <2>3. pos' = [pos EXCEPT ![b] = ReadTo(Resume(pos[b]))]
    BY <1>2, ReadResult
  <2>4. PICK q \in Nat : q = ReadTo(Resume(pos[b]))
    BY <2>2
  <2>5. pos' = [pos EXCEPT ![b] = q]
    BY <2>3, <2>4
  <2>6. QED
    BY <2>1, <2>5 DEF Subscribers, TypeOK, Off
<1>3. QED
  BY <1>1, <1>2

LEMMA TypeStep ==
    ASSUME TypeOK, FileShape, [Next]_vars
    PROVE  TypeOK'
<1> USE LogAssumption
<1>1. CASE StartBot
  <2>1. file' \in Seq(Writes) /\ Subscribers' = Subscribers
    BY <1>1, EmptySeq, SameSubscribers DEF StartBot, hubVars
  <2>2. QED
    BY <1>1, <2>1 DEF StartBot, TypeOK, hubVars, pageVars, Writes, Entries
<1>2. CASE Emit \/ EmitRest
  <2>1. file' \in Seq(Writes) /\ Subscribers' = Subscribers
    BY <1>2, EmitType, SameSubscribers DEF Emit, EmitRest, hubVars
  <2>2. UNCHANGED <<run, stale, pageVars, hubVars>>
    BY <1>2 DEF Emit, EmitRest
  <2>3. QED
    BY <2>1, <2>2 DEF TypeOK, hubVars, pageVars, Writes, Entries
<1>3. CASE Poll
  <2>1. Subscribers' = Subscribers /\ Len(file) \in Nat
    BY <1>3, SameSubscribers, FileIndex DEF Poll, TypeOK, Writes
  <2>2. poll' \in [size : Nat, todo : SUBSET Subscribers]
    BY <1>3, <2>1 DEF Poll, Stat
  <2>3. QED
    BY <1>3, <2>1, <2>2 DEF Poll, TypeOK, pageVars, Entries
<1>4. ASSUME NEW b \in Browsers, Read(b)
      PROVE  TypeOK'
  <2>1. Subscribers' = Subscribers /\ pos' \in [Browsers -> Nat \cup {Off}]
    BY <1>4, ReadSubscribers
  <2>2. poll' \in [size : Nat, todo : SUBSET Subscribers]
    BY <1>4 DEF Read, TypeOK
  <2>3. /\ queue' \in [Browsers -> Seq(Entries)]
        /\ \A c \in Browsers : Len(queue'[c]) <= QueueMax
        /\ dropped' \in [Browsers -> SUBSET Entries]
        /\ stale' \subseteq Browsers
    <3>1. CASE poll.size = Resume(pos[b])
      BY <1>4, <3>1 DEF Read, TypeOK
    <3>2. CASE poll.size # Resume(pos[b])
      <4>1. PICK new \in Seq(Entries) :
               /\ queue[b] \o new \in Seq(Entries)
               /\ queue' = [queue EXCEPT ![b] = Kept(queue[b] \o new)]
               /\ dropped' = [dropped EXCEPT ![b] =
                     @ \cup (Range(queue[b] \o new) \ Range(Kept(queue[b] \o new)))]
               /\ stale' = IF Resume(pos[b]) = 0 THEN stale \ {b} ELSE stale
        BY <1>4, <3>2, ReadResult
      <4>2. PICK lines \in Seq(Entries) : lines = queue[b] \o new
        BY <4>1
      <4>3. PICK kept : kept = Kept(lines)
        OBVIOUS
      <4>4. kept \in Seq(Entries) /\ Len(kept) <= QueueMax
        BY <4>3, KeptFacts
      <4>5. Range(lines) \subseteq Entries
        <5>1. \A i \in DOMAIN lines : lines[i] \in Entries
          BY LenProperties, ElementOfSeq
        <5>2. QED
          BY <5>1 DEF Range
      <4>6. queue' = [queue EXCEPT ![b] = kept]
        BY <4>1, <4>2, <4>3
      <4>7. \E lost \in SUBSET Entries : dropped' = [dropped EXCEPT ![b] = @ \cup lost]
        <5>1. Range(lines) \ Range(kept) \in SUBSET Entries
          BY <4>5
        <5>2. dropped' = [dropped EXCEPT ![b] = @ \cup (Range(lines) \ Range(kept))]
          BY <4>1, <4>2, <4>3
        <5>3. QED
          BY <5>1, <5>2
      <4>8. stale' \subseteq Browsers
        BY <4>1 DEF TypeOK
      <4>9. QED
        BY <4>4, <4>6, <4>7, <4>8 DEF TypeOK
    <3>3. QED
      BY <3>1, <3>2
  <2>4. QED
    BY <1>4, <2>1, <2>2, <2>3 DEF Read, TypeOK, pageVars, Entries
<1>5. CASE ReadRaises
  <2>1. Subscribers' = Subscribers
    BY <1>5, SameSubscribers DEF ReadRaises
  <2>2. poll' \in [size : Nat, todo : SUBSET Subscribers]
    BY <1>5 DEF ReadRaises, NoPoll
  <2>3. QED
    BY <1>5, <2>1, <2>2 DEF ReadRaises, TypeOK, pageVars, Entries
<1>6. ASSUME NEW b \in Browsers, Subscribe(b)
      PROVE  TypeOK'
  <2>1. Subscribers' = Subscribers \cup {b} /\ pos' \in [Browsers -> Nat \cup {Off}]
    BY <1>6 DEF Subscribe, Subscribers, TypeOK, FirstPos, Off
  <2>2. poll' \in [size : Nat, todo : SUBSET (Subscribers \cup {b})]
    <3>1. Len(file) \in Nat
      BY FileIndex DEF TypeOK, Writes
    <3>2. QED
      BY <1>6, <3>1 DEF Subscribe, Stat, NoPoll
  <2>3. /\ queue' \in [Browsers -> Seq(Entries)] /\ got' \in [Browsers -> Seq(Entries)]
        /\ \A c \in Browsers : Len(queue'[c]) <= QueueMax
        /\ dropped' \in [Browsers -> SUBSET Entries]
    <3>1. <<>> \in Seq(Entries) /\ Len(<<>>) = 0
      BY EmptySeq
    <3>2. QED
      BY <1>6, <3>1 DEF Subscribe, TypeOK
  <2>4. QED
    BY <1>6, <2>1, <2>2, <2>3 DEF Subscribe, TypeOK, pageVars, Entries
<1>7. ASSUME NEW b \in Browsers, Send(b)
      PROVE  TypeOK'
  <2>1. Subscribers' = Subscribers
    BY <1>7, SameSubscribers DEF Send
  <2>2. /\ Head(queue[b]) \in Entries /\ Tail(queue[b]) \in Seq(Entries)
        /\ Len(Tail(queue[b])) <= QueueMax
    <3>1. queue[b] \in Seq(Entries) /\ queue[b] # <<>> /\ Len(queue[b]) <= QueueMax
      BY <1>7 DEF Send, TypeOK
    <3>2. Len(queue[b]) \in Nat /\ Len(Tail(queue[b])) = Len(queue[b]) - 1
      BY <3>1, HeadTailProperties, LenProperties
    <3>3. QED
      BY <3>1, <3>2, HeadTailProperties
  <2>3. Append(got[b], Head(queue[b])) \in Seq(Entries)
    BY <2>2, AppendProperties DEF TypeOK
  <2>4. queue' \in [Browsers -> Seq(Entries)] /\ got' \in [Browsers -> Seq(Entries)]
    BY <1>7, <2>2, <2>3 DEF Send, TypeOK
  <2>5. \A c \in Browsers : Len(queue'[c]) <= QueueMax
    BY <1>7, <2>2 DEF Send, TypeOK
  <2>6. QED
    BY <1>7, <2>1, <2>4, <2>5 DEF Send, TypeOK, pageVars, Entries
<1>8. ASSUME NEW b \in Browsers, Break(b) \/ ClosePage(b)
      PROVE  TypeOK'
  <2>1. Unsubscribe(b) /\ Calm
    BY <1>8 DEF Break, ClosePage
  <2>2. Subscribers' = Subscribers \ {b} /\ pos' \in [Browsers -> Nat \cup {Off}]
    BY <2>1 DEF Unsubscribe, Subscribers, TypeOK, Off
  <2>3. poll' \in [size : Nat, todo : SUBSET (Subscribers \ {b})]
    BY <2>1 DEF Unsubscribe, Calm, TypeOK
  <2>4. queue' \in [Browsers -> Seq(Entries)] /\ \A c \in Browsers : Len(queue'[c]) <= QueueMax
    BY <2>1, EmptySeq DEF Unsubscribe, TypeOK
  <2>5. /\ open' \subseteq Browsers /\ Subscribers' \subseteq open'
        /\ breaks' \in 0..LastBreak
    BY <1>8, <2>2 DEF Break, ClosePage, TypeOK
  <2>6. QED
    BY <2>1, <2>2, <2>3, <2>4, <2>5 DEF Unsubscribe, TypeOK, Entries
<1>9. ASSUME NEW b \in Browsers, OpenPage(b)
      PROVE  TypeOK'
  <2>1. Subscribers' = Subscribers
    BY <1>9, SameSubscribers DEF OpenPage, hubVars
  <2>2. QED
    BY <1>9, <2>1 DEF OpenPage, TypeOK, hubVars, Entries
<1>10. CASE UNCHANGED vars
  <2>1. Subscribers' = Subscribers
    BY <1>10, SameSubscribers DEF vars, hubVars
  <2>2. QED
    BY <1>10, <2>1 DEF vars, hubVars, pageVars, TypeOK, Entries
<1>11. QED
  BY <1>1, <1>2, <1>3, <1>4, <1>5, <1>6, <1>7, <1>8, <1>9, <1>10
     DEF Next, BotStep, HubStep

-----------------------------------------------------------------------------
(* The file                                                                *)

(* What the next write is: one more entry, or the rest of the last one.    *)
LEMMA NextWrite ==
    ASSUME TypeOK, FileShape, Emit \/ EmitRest
    PROVE  \E w \in Writes :
              /\ file' = Append(file, w) /\ run > 0 /\ w.entry[1] = run
              /\ UNCHANGED <<run, stale, pageVars, hubVars>>
              /\ \A i \in DOMAIN file :
                    /\ file[i].entry[2] <= w.entry[2]
                    /\ file[i].part # "head" => file[i].entry[2] < w.entry[2]
<1>1. file \in Seq(Writes)
  BY DEF TypeOK, Writes
<1>2. /\ Len(file) \in Nat /\ DOMAIN file = 1..Len(file)
      /\ \A i \in DOMAIN file : file[i] \in Writes
  BY <1>1, FileIndex
<1>3. CASE Emit
  <2>1. PICK w : /\ file' = Append(file, w)
                 /\ w = [entry |-> <<run, IF file = <<>> THEN 1 ELSE Last(file).entry[2] + 1>>,
                         part |-> w.part]
    BY <1>3 DEF Emit
  <2>2. w \in Writes
    <3>1. Append(file, w) \in Seq(Writes) /\ Len(Append(file, w)) = Len(file) + 1
          /\ Append(file, w)[Len(file) + 1] = w
      BY <1>1, <2>1, <1>3, EmitType, AppendProperties
    <3>2. QED
      BY <1>2, <3>1, ElementOfSeq
  <2>3. ASSUME NEW i \in DOMAIN file
        PROVE  file[i].entry[2] < w.entry[2]
    <3>1. file # <<>>
      BY <1>2, EmptySeq
    <3>2. Len(file) \in DOMAIN file /\ Last(file) = file[Len(file)]
      BY <1>1, <3>1, LastWrite
    <3>3. w.entry[2] = file[Len(file)].entry[2] + 1
      BY <2>1, <3>1, <3>2
    <3>4. file[i].entry[2] <= file[Len(file)].entry[2]
      <4>1. CASE i = Len(file)
        BY <1>2, <3>2, <4>1 DEF Writes, Entries
      <4>2. CASE i # Len(file)
        BY <1>2, <3>2, <4>2 DEF FileShape
      <4>3. QED
        BY <4>1, <4>2
    <3>5. file[i].entry[2] \in Int /\ file[Len(file)].entry[2] \in Int
      BY <1>2, <3>2 DEF Writes, Entries
    <3>6. QED
      BY <3>3, <3>4, <3>5
  <2>4. /\ w.entry[1] = run /\ run > 0
        /\ UNCHANGED <<run, stale, pageVars, hubVars>>
    BY <1>3, <2>1 DEF Emit
  <2>5. \A i \in DOMAIN file : file[i].entry[2] \in Int /\ w.entry[2] \in Int
    BY <1>2, <2>2 DEF Writes, Entries
  <2>6. QED
    BY <2>1, <2>2, <2>3, <2>4, <2>5
<1>4. CASE EmitRest
  <2>1. file # <<>> /\ Last(file).part = "head"
    BY <1>4 DEF EmitRest, HalfWritten
  <2>2. Len(file) \in DOMAIN file /\ Last(file) = file[Len(file)]
    BY <1>1, <2>1, LastWrite
  <2>3. PICK w : w = [entry |-> Last(file).entry, part |-> "tail"]
    OBVIOUS
  <2>4. w \in Writes /\ file' = Append(file, w) /\ w.entry = file[Len(file)].entry
    BY <1>2, <1>4, <2>2, <2>3 DEF Writes, EmitRest
  <2>5. ASSUME NEW i \in DOMAIN file
        PROVE  /\ file[i].entry[2] <= w.entry[2]
               /\ file[i].part # "head" => file[i].entry[2] < w.entry[2]
    <3>1. CASE i = Len(file)
      BY <1>2, <2>1, <2>2, <2>4, <3>1 DEF Writes, Entries
    <3>2. CASE i # Len(file)
      BY <1>2, <2>2, <2>4, <3>2 DEF FileShape
    <3>3. QED
      BY <3>1, <3>2
  <2>6. /\ w.entry[1] = run /\ run > 0
        /\ UNCHANGED <<run, stale, pageVars, hubVars>>
    BY <1>4, <2>1, <2>2, <2>4 DEF EmitRest, FileShape, TypeOK
  <2>7. QED
    BY <2>4, <2>5, <2>6
<1>5. QED
  BY <1>3, <1>4

(* What a further write leaves as it was.                                  *)
LEMMA AppendKeeps ==
    ASSUME file \in Seq(Writes), NEW w \in Writes, file' = Append(file, w)
    PROVE  /\ Len(file) \in Nat /\ Len(file') = Len(file) + 1
           /\ DOMAIN file = 1..Len(file) /\ DOMAIN file' = 1..(Len(file) + 1)
           /\ \A i \in DOMAIN file : file'[i] = file[i]
           /\ file'[Len(file) + 1] = w
<1>1. PICK longer : longer = Append(file, w)
  OBVIOUS
<1>2. /\ longer \in Seq(Writes) /\ Len(longer) = Len(file) + 1
      /\ \A i \in 1..Len(file) : longer[i] = file[i]
      /\ longer[Len(file) + 1] = w
  BY <1>1, AppendProperties
<1>3. Len(file) \in Nat /\ DOMAIN file = 1..Len(file)
  BY LenProperties
<1>4. DOMAIN longer = 1..(Len(file) + 1)
  BY <1>2, LenProperties
<1>5. file' = longer
  BY <1>1
<1>6. QED
  BY <1>2, <1>3, <1>4, <1>5

LEMMA FileStep ==
    ASSUME TypeOK, FileShape, [Next]_vars
    PROVE  FileShape'
<1>1. CASE StartBot
  <2>1. file' = <<>> /\ DOMAIN file' = {}
    BY <1>1, EmptySeq DEF StartBot
  <2>2. QED
    BY <2>1 DEF FileShape
<1>2. CASE Emit \/ EmitRest
  <2>1. PICK w \in Writes :
           /\ file' = Append(file, w) /\ run > 0 /\ w.entry[1] = run /\ run' = run
           /\ \A i \in DOMAIN file :
                 /\ file[i].entry[2] <= w.entry[2]
                 /\ file[i].part # "head" => file[i].entry[2] < w.entry[2]
    BY <1>2, NextWrite
  <2> DEFINE n == Len(file)
  <2>2. /\ n \in Nat /\ DOMAIN file = 1..n /\ DOMAIN file' = 1..(n + 1)
        /\ \A i \in DOMAIN file : file'[i] = file[i]
        /\ file'[n + 1] = w
    BY <2>1, AppendKeeps DEF TypeOK, Writes
  <2> HIDE DEF n
  <2>3. PICK m : m = n
    OBVIOUS
  <2>4. \A i \in DOMAIN file' : i \in 1..m \/ i = m + 1
    BY <2>2, <2>3
  <2>5. ASSUME NEW i \in DOMAIN file', NEW j \in DOMAIN file', i < j
        PROVE  /\ file'[i].entry[2] <= file'[j].entry[2]
               /\ file'[i].part # "head" => file'[i].entry[2] < file'[j].entry[2]
    <3>1. i \in 1..m
      BY <2>2, <2>3, <2>5
    <3>2. CASE j \in 1..m
      BY <2>2, <2>3, <2>5, <3>1, <3>2 DEF FileShape
    <3>3. CASE j = m + 1
      BY <2>1, <2>2, <2>3, <3>1, <3>3
    <3>4. QED
      BY <2>4, <3>2, <3>3
  <2>6. \A i \in DOMAIN file' : file'[i].entry[1] = run'
    BY <2>1, <2>2, <2>3, <2>4 DEF FileShape
  <2>7. run' # 0
    BY <2>1
  <2>8. QED
    BY <2>5, <2>6, <2>7 DEF FileShape
<1>3. CASE UNCHANGED <<run, file>>
  BY <1>3 DEF FileShape
<1>4. QED
  BY <1>1, <1>2, <1>3
     DEF Next, BotStep, HubStep, Poll, Read, ReadRaises, Subscribe, Send, Break,
         Unsubscribe, OpenPage, ClosePage, vars

-----------------------------------------------------------------------------
(* The invariant                                                           *)

(* The offset is one of the file as it is, also for the read in progress.  *)
WithinFile(b) == pos[b] <= Len(file) /\ (b \in poll.todo => pos[b] <= poll.size)

(* What a browser was given is of an earlier run, or ends before its       *)
(* offset, which is then an offset of this run.                            *)
GivenTo(b) ==
    \A x \in Range(got[b]) \cup Range(queue[b]) :
       /\ x[1] <= run
       /\ x[1] = run => /\ WithinFile(b)
                        /\ \E k \in DOMAIN file : k <= pos[b] /\ EndsAt(x, k)

Given == \A b \in Subscribers : GivenTo(b)

InLine == \A b \in Browsers : InOrder(got[b] \o queue[b])

(* Without a restart in between, the offset is within the file, and every  *)
(* short line before it was sent, waits to be sent, or was dropped.        *)
CaughtUp(b) ==
    b \notin stale =>
       /\ WithinFile(b)
       /\ \A i \in DOMAIN file :
             i <= pos[b] /\ file[i].part = "line" =>
                file[i].entry \in Range(got[b]) \cup Range(queue[b]) \cup dropped[b]

Caught == \A b \in Subscribers : CaughtUp(b)

(* Everything a read brings is younger than what the browser was given.    *)
LEMMA ReadIsYounger ==
    ASSUME TypeOK, FileShape, Given, NEW b \in Browsers, Read(b),
           NEW x \in Range(got[b]) \cup Range(queue[b]),
           NEW i \in DOMAIN file, i > Resume(pos[b]), NEW y, EndsAt(y, i)
    PROVE  Older(x, y)
<1>1. b \in poll.todo /\ b \in Subscribers
  BY DEF Read, TypeOK
<1>2. /\ DOMAIN file = 1..Len(file) /\ Len(file) \in Nat
      /\ \A k \in DOMAIN file : file[k] \in Writes
  BY FileIndex DEF TypeOK, Writes
<1>3. y = file[i].entry /\ y[1] = run
  BY DEF EndsAt, FileShape
<1>4. x[1] <= run /\ run \in Int
  BY <1>1 DEF Given, GivenTo, TypeOK
<1>5. x \in Entries
  <2>1. got[b] \in Seq(Entries) /\ queue[b] \in Seq(Entries)
    BY DEF TypeOK
  <2>2. /\ \A k \in DOMAIN got[b] : got[b][k] \in Entries
        /\ \A k \in DOMAIN queue[b] : queue[b][k] \in Entries
    BY <2>1, LenProperties, ElementOfSeq
  <2>3. QED
    BY <2>2 DEF Range
<1>6. CASE x[1] = run
  <2>1. WithinFile(b)
    BY <1>1, <1>6 DEF Given, GivenTo
  <2>2. Resume(pos[b]) = pos[b]
    BY <1>1, <2>1 DEF WithinFile, Resume, TypeOK, Subscribers, Off
  <2>3. PICK k \in DOMAIN file : k <= pos[b] /\ EndsAt(x, k)
    BY <1>1, <1>6 DEF Given, GivenTo
  <2>4. k < i
    BY <1>1, <1>2, <2>2, <2>3 DEF TypeOK, Subscribers, Off
  <2>5. file[k].entry[2] < file[i].entry[2] /\ x = file[k].entry
    BY <2>3, <2>4 DEF FileShape, EndsAt
  <2>6. QED
    BY <1>3, <1>6, <2>5 DEF Older
<1>7. CASE x[1] # run
  <2>1. x[1] \in Int
    BY <1>5 DEF Entries
  <2>2. QED
    BY <1>3, <1>4, <1>7, <2>1 DEF Older
<1>8. QED
  BY <1>6, <1>7

(* So the read lines come in order behind those that wait.                 *)
LEMMA ReadInOrder ==
    ASSUME TypeOK, FileShape, Given, InLine, NEW b \in Browsers, Read(b),
           NEW new \in Seq(Entries), InOrder(new),
           \A x \in Range(new) : \E i \in DOMAIN file : i > Resume(pos[b]) /\ EndsAt(x, i),
           NEW lines, lines = queue[b] \o new
    PROVE  /\ lines \in Seq(Entries) /\ InOrder(lines) /\ Before(got[b], lines)
           /\ Range(lines) = Range(queue[b]) \cup Range(new)
<1> DEFINE g == got[b]
           q == queue[b]
<1>1. g \in Seq(Entries) /\ q \in Seq(Entries)
  BY DEF TypeOK
<1>2. \A x \in Range(g) \cup Range(q), y \in Range(new) : Older(x, y)
  BY ReadIsYounger
<1>3. InOrder(g \o q)
  BY DEF InLine
<1> HIDE DEF g
<1>4. lines = q \o new
  OBVIOUS
<1> HIDE DEF q
<1>5. InOrder(q) /\ Before(g, q)
  BY <1>1, <1>3, OrderSplits
<1>6. Before(q, new) /\ Before(g, new)
  BY <1>2 DEF Before, Range
<1>7. InOrder(lines) /\ lines \in Seq(Entries) /\ Range(lines) = Range(q) \cup Range(new)
  BY <1>1, <1>4, <1>5, <1>6, OrderSplits, ConcatAt, ConcatRange
<1>8. Before(g, lines)
  <2> SUFFICES ASSUME NEW j \in DOMAIN g, NEW i \in DOMAIN lines
               PROVE  Older(g[j], lines[i])
    BY DEF Before
  <2>1. lines[i] \in Range(q) \cup Range(new)
    BY <1>7 DEF Range
  <2>2. \A y \in Range(q) : Older(g[j], y)
    BY <1>5 DEF Before, Range
  <2>3. \A y \in Range(new) : Older(g[j], y)
    BY <1>6 DEF Before, Range
  <2>4. QED
    BY <2>1, <2>2, <2>3
<1>9. QED
  BY <1>7, <1>8 DEF g, q

(* Sending moves the first that waits behind the last that was sent.       *)
LEMMA SendMoves ==
    ASSUME NEW A, NEW g \in Seq(A), NEW q \in Seq(A), q # <<>>
    PROVE  /\ Append(g, Head(q)) \o Tail(q) = g \o q
           /\ Range(Append(g, Head(q))) \cup Range(Tail(q)) = Range(g) \cup Range(q)
<1>1. PICK h \in A : h = Head(q)
  BY HeadTailProperties
<1>2. PICK t \in Seq(A) : t = Tail(q)
  BY HeadTailProperties
<1>3. <<h>> \in Seq(A) /\ Len(<<h>>) = 1 /\ <<h>>[1] = h
  OBVIOUS
<1>4. <<h>> \o t = q
  <2> DEFINE n == Len(q)
             m == Len(t)
  <2>1. /\ m = n - 1 /\ n \in Nat /\ m \in Nat /\ DOMAIN q = 1..n /\ DOMAIN t = 1..m
        /\ h = q[1] /\ \A i \in 1..m : t[i] = q[i + 1]
    BY <1>1, <1>2, HeadTailProperties, LenProperties
  <2> DEFINE all == <<h>> \o t
  <2>2. all \in Seq(A) /\ Len(all) = 1 + m
        /\ \A i \in 1..(1 + m) : all[i] = IF i <= 1 THEN <<h>>[i] ELSE t[i - 1]
    BY <1>3, ConcatProperties
  <2> HIDE DEF n, m, all
  <2>3. ASSUME NEW i \in 1..n
        PROVE  all[i] = q[i]
    <3>1. CASE i = 1
      BY <1>3, <2>1, <2>2, <3>1
    <3>2. CASE i # 1
      <4>1. i - 1 \in 1..m /\ i \in 1..(1 + m) /\ ~(i <= 1) /\ (i - 1) + 1 = i
        BY <2>1, <3>2
      <4>2. all[i] = t[i - 1]
        BY <2>2, <4>1
      <4>3. t[i - 1] = q[(i - 1) + 1]
        BY <2>1, <4>1
      <4>4. QED
        BY <4>1, <4>2, <4>3
    <3>3. QED
      BY <3>1, <3>2
  <2>4. Len(all) = n
    BY <2>1, <2>2
  <2>5. all = q
    BY <2>2, <2>3, <2>4, SeqEqual DEF n
  <2>6. QED
    BY <2>5 DEF all
<1>5. Append(g, h) = g \o <<h>>
  BY AppendIsConcat
<1>6. (g \o <<h>>) \o t = g \o (<<h>> \o t)
  BY <1>3, ConcatAssociative
<1>7. Append(g, h) \o t = g \o q
  BY <1>4, <1>5, <1>6
<1>8. Append(g, h) \in Seq(A)
  BY AppendProperties
<1>9. Range(Append(g, h)) \cup Range(t) = Range(g) \cup Range(q)
  <2>1. PICK a \in Seq(A) : a = Append(g, h)
    BY <1>8
  <2>2. Range(a \o t) = Range(a) \cup Range(t)
    BY ConcatRange
  <2>3. Range(g \o q) = Range(g) \cup Range(q)
    BY ConcatRange
  <2>4. QED
    BY <1>7, <2>1, <2>2, <2>3
<1>10. QED
  BY <1>1, <1>2, <1>7, <1>9

(* Every step leaves what a browser was given and is to be given in order. *)
LEMMA InLineStep ==
    ASSUME TypeOK, FileShape, Given, InLine, [Next]_vars
    PROVE  InLine'
<1>1. CASE UNCHANGED <<queue, got>>
  BY <1>1 DEF InLine
<1>2. ASSUME NEW b \in Browsers, Read(b)
      PROVE  InLine'
  <2>1. CASE poll.size = Resume(pos[b])
    BY <1>1, <1>2, <2>1 DEF Read
  <2>2. CASE poll.size # Resume(pos[b])
    <3>1. PICK new \in Seq(Entries) :
             /\ queue[b] \o new \in Seq(Entries)
             /\ InOrder(new)
             /\ \A x \in Range(new) : \E i \in DOMAIN file : i > Resume(pos[b]) /\ EndsAt(x, i)
             /\ queue' = [queue EXCEPT ![b] = Kept(queue[b] \o new)]
      BY <1>2, <2>2, ReadResult
    <3>2. PICK lines : lines = queue[b] \o new
      OBVIOUS
    <3>3. lines \in Seq(Entries) /\ InOrder(lines) /\ Before(got[b], lines)
      BY <1>2, <3>1, <3>2, ReadInOrder
    <3>4. PICK kept : kept = Kept(lines)
      OBVIOUS
    <3>5. kept \in Seq(Entries) /\ InOrder(kept) /\ Before(got[b], kept)
      BY <3>3, <3>4, KeptFacts
    <3>6. got[b] \in Seq(Entries) /\ InOrder(got[b])
      <4>1. got[b] \in Seq(Entries) /\ queue[b] \in Seq(Entries) /\ InOrder(got[b] \o queue[b])
        BY DEF TypeOK, InLine
      <4>2. QED
        BY <4>1, OrderSplits
    <3>7. InOrder(got[b] \o kept)
      BY <3>5, <3>6, OrderSplits
    <3>8. queue' = [queue EXCEPT ![b] = kept] /\ got' = got
      BY <1>2, <3>1, <3>2, <3>4 DEF Read
    <3>9. QED
      BY <3>7, <3>8 DEF InLine, TypeOK
  <2>3. QED
    BY <2>1, <2>2
<1>3. ASSUME NEW b \in Browsers, Subscribe(b)
      PROVE  InLine'
  <2>1. got'[b] = <<>> /\ queue'[b] = <<>>
    BY <1>3 DEF Subscribe, TypeOK
  <2>2. InOrder(<<>> \o <<>>)
    BY EmptySeq, ConcatEmptySeq DEF InOrder
  <2>3. \A c \in Browsers \ {b} : got'[c] = got[c] /\ queue'[c] = queue[c]
    BY <1>3 DEF Subscribe, TypeOK
  <2>4. QED
    BY <2>1, <2>2, <2>3 DEF InLine
<1>4. ASSUME NEW b \in Browsers, Send(b)
      PROVE  InLine'
  <2>1. /\ got[b] \in Seq(Entries) /\ queue[b] \in Seq(Entries) /\ queue[b] # <<>>
        /\ got'[b] = Append(got[b], Head(queue[b])) /\ queue'[b] = Tail(queue[b])
        /\ \A c \in Browsers \ {b} : got'[c] = got[c] /\ queue'[c] = queue[c]
    BY <1>4 DEF Send, TypeOK
  <2>2. Append(got[b], Head(queue[b])) \o Tail(queue[b]) = got[b] \o queue[b]
    BY <2>1, SendMoves, ZenonT(40)
  <2>3. QED
    BY <2>1, <2>2 DEF InLine
<1>5. ASSUME NEW b \in Browsers, Unsubscribe(b)
      PROVE  InLine'
  <2>1. /\ got[b] \in Seq(Entries) /\ queue[b] \in Seq(Entries)
        /\ InOrder(got[b] \o queue[b])
    BY DEF TypeOK, InLine
  <2>2. InOrder(got[b]) /\ got[b] \o <<>> = got[b]
    BY <2>1, OrderSplits, ConcatEmptySeq
  <2>3. /\ got' = got /\ queue'[b] = <<>>
        /\ \A c \in Browsers \ {b} : queue'[c] = queue[c]
    BY <1>5 DEF Unsubscribe, TypeOK
  <2>4. QED
    BY <2>2, <2>3 DEF InLine
<1>6. QED
  BY <1>1, <1>2, <1>3, <1>4, <1>5
     DEF Next, BotStep, HubStep, StartBot, Emit, EmitRest, Poll, ReadRaises, Break,
         OpenPage, ClosePage, vars, hubVars

(* A browser for which nothing changed, but that it is to be read for now. *)
LEMMA GivenStays ==
    ASSUME NEW b \in Browsers, GivenTo(b), UNCHANGED <<run, file>>,
           pos'[b] = pos[b],
           Range(got'[b]) \cup Range(queue'[b]) = Range(got[b]) \cup Range(queue[b]),
           b \in poll'.todo => \/ b \in poll.todo /\ poll'.size = poll.size
                               \/ poll'.size = Len(file)
    PROVE  GivenTo(b)'
<1>1. WithinFile(b) => WithinFile(b)'
  BY DEF WithinFile
<1>2. \A x : \A k \in DOMAIN file : EndsAt(x, k) => EndsAt(x, k)'
  BY DEF EndsAt
<1>3. QED
  BY <1>1, <1>2 DEF GivenTo

LEMMA GivenStep ==
    ASSUME TypeOK, FileShape, Given, [Next]_vars
    PROVE  Given'
<1>1. CASE StartBot
  <2> SUFFICES ASSUME NEW b \in Subscribers, NEW x \in Range(got[b]) \cup Range(queue[b])
               PROVE  x[1] <= run' /\ x[1] # run'
    BY <1>1 DEF StartBot, Given, GivenTo, Subscribers, hubVars
  <2>1. x[1] <= run
    BY DEF Given, GivenTo
  <2>2. x \in Entries
    <3>1. got[b] \in Seq(Entries) /\ queue[b] \in Seq(Entries)
      BY DEF TypeOK, Subscribers
    <3>2. /\ \A k \in DOMAIN got[b] : got[b][k] \in Entries
          /\ \A k \in DOMAIN queue[b] : queue[b][k] \in Entries
      BY <3>1, LenProperties, ElementOfSeq
    <3>3. QED
      BY <3>2 DEF Range
  <2>3. QED
    BY <1>1, <2>1, <2>2 DEF StartBot, TypeOK, Entries
<1>2. CASE Emit \/ EmitRest
  <2>1. PICK w \in Writes :
           file' = Append(file, w) /\ UNCHANGED <<run, stale, pageVars, hubVars>>
    BY <1>2, NextWrite
  <2>2. /\ Len(file) \in Nat /\ Len(file') = Len(file) + 1
        /\ DOMAIN file = 1..Len(file) /\ DOMAIN file' = 1..(Len(file) + 1)
        /\ \A i \in DOMAIN file : file'[i] = file[i]
    BY <2>1, AppendKeeps DEF TypeOK, Writes
  <2>3. ASSUME NEW b \in Subscribers
        PROVE  GivenTo(b)'
    <3>1. WithinFile(b) => WithinFile(b)'
      BY <2>1, <2>2 DEF WithinFile, hubVars, TypeOK, Subscribers, Off
    <3>2. \A x : \A k \in DOMAIN file : k \in DOMAIN file' /\ (EndsAt(x, k) => EndsAt(x, k)')
      BY <2>2 DEF EndsAt
    <3>3. GivenTo(b)
      BY DEF Given
    <3>4. QED
      BY <2>1, <3>1, <3>2, <3>3 DEF GivenTo, hubVars
  <2>4. Subscribers' = Subscribers
    BY <2>1, SameSubscribers DEF hubVars
  <2>5. QED
    BY <2>3, <2>4 DEF Given
<1>3. CASE Poll \/ ReadRaises \/ UNCHANGED vars \/ \E b \in Browsers : OpenPage(b)
  <2>1. /\ UNCHANGED <<run, file, pos, got, queue>>
        /\ \A b : b \in poll'.todo => \/ b \in poll.todo /\ poll'.size = poll.size
                                      \/ poll'.size = Len(file)
    BY <1>3 DEF Poll, Stat, ReadRaises, NoPoll, OpenPage, vars, hubVars
  <2>2. ASSUME NEW b \in Subscribers
        PROVE  GivenTo(b)'
    BY <2>1, GivenStays DEF Given, Subscribers
  <2>3. QED
    BY <2>1, <2>2, SameSubscribers DEF Given
<1>4. ASSUME NEW b \in Browsers, Read(b)
      PROVE  Given'
  <2>1. Subscribers' = Subscribers
    BY <1>4, ReadSubscribers
  <2>2. /\ UNCHANGED <<run, file, got>> /\ poll'.todo = poll.todo \ {b}
        /\ poll'.size = poll.size
    BY <1>4 DEF Read, TypeOK
  <2>3. CASE poll.size = Resume(pos[b])
    <3>1. UNCHANGED <<pos, queue>>
      BY <1>4, <2>3 DEF Read
    <3>2. ASSUME NEW c \in Subscribers
          PROVE  GivenTo(c)'
      BY <2>2, <3>1, GivenStays DEF Given, Subscribers
    <3>3. QED
      BY <2>1, <3>2 DEF Given
  <2>4. CASE poll.size # Resume(pos[b])
    <3>1. PICK new \in Seq(Entries) :
             /\ queue[b] \o new \in Seq(Entries)
             /\ \A x \in Range(new) : \E i \in DOMAIN file : i > Resume(pos[b]) /\ EndsAt(x, i)
             /\ pos' = [pos EXCEPT ![b] = ReadTo(Resume(pos[b]))]
             /\ queue' = [queue EXCEPT ![b] = Kept(queue[b] \o new)]
      BY <1>4, <2>4, ReadResult
    <3>2. ASSUME NEW c \in Subscribers, c # b
          PROVE  GivenTo(c)'
      <4>1. pos'[c] = pos[c] /\ queue'[c] = queue[c] /\ c \in Browsers
        BY <3>1, <3>2 DEF Subscribers, TypeOK
      <4>2. QED
        BY <2>2, <4>1, GivenStays DEF Given
    <3>3. GivenTo(b)'
      <4>1. PICK kept : kept = Kept(queue[b] \o new)
        OBVIOUS
      <4>2. Range(kept) \subseteq Range(queue[b]) \cup Range(new)
        <5>1. queue[b] \in Seq(Entries)
          BY DEF TypeOK
        <5>2. Range(queue[b] \o new) = Range(queue[b]) \cup Range(new)
          BY <5>1, ConcatRange
        <5>3. Range(kept) \subseteq Range(queue[b] \o new)
          BY <3>1, <4>1, KeptFacts
        <5>4. QED
          BY <5>2, <5>3
      <4>3. /\ queue'[b] = kept /\ got'[b] = got[b] /\ b \notin poll'.todo
            /\ pos'[b] = ReadTo(Resume(pos[b]))
        BY <2>2, <3>1, <4>1 DEF TypeOK
      <4>4. /\ b \in Subscribers /\ b \in poll.todo /\ pos[b] \in Nat
            /\ Len(file) \in Nat /\ DOMAIN file = 1..Len(file)
        BY <1>4, FileIndex DEF Read, TypeOK, Writes, Subscribers, Off
      <4>5. ASSUME NEW x \in Range(got[b]) \cup Range(queue[b])
            PROVE  /\ x[1] <= run
                   /\ x[1] = run =>
                         /\ pos'[b] <= Len(file)
                         /\ \E k \in DOMAIN file : k <= pos'[b] /\ EndsAt(x, k)
        <5>1. x[1] <= run
          BY <4>4 DEF Given, GivenTo
        <5>2. ASSUME x[1] = run
              PROVE  /\ pos'[b] <= Len(file)
                     /\ \E k \in DOMAIN file : k <= pos'[b] /\ EndsAt(x, k)
          <6>1. /\ pos[b] <= Len(file) /\ pos[b] <= poll.size
                /\ \E k \in DOMAIN file : k <= pos[b] /\ EndsAt(x, k)
            BY <4>4, <5>2 DEF Given, GivenTo, WithinFile
          <6>2. Resume(pos[b]) = pos[b]
            BY <4>4, <6>1 DEF Resume, TypeOK
          <6>3. pos'[b] = Len(file)
            BY <4>3, <4>4, <6>1, <6>2 DEF ReadTo
          <6>4. QED
            BY <4>4, <6>1, <6>3
        <5>3. QED
          BY <5>1, <5>2
      <4>6. ASSUME NEW x \in Range(new)
            PROVE  /\ x[1] <= run
                   /\ pos'[b] <= Len(file)
                   /\ \E k \in DOMAIN file : k <= pos'[b] /\ EndsAt(x, k)
        <5>1. PICK i \in DOMAIN file : i > Resume(pos[b]) /\ EndsAt(x, i)
          BY <3>1
        <5>2. x[1] = run /\ run \in Int
          BY <5>1 DEF EndsAt, FileShape, TypeOK
        <5>3. pos'[b] = Len(file)
          BY <4>3, <4>4, <5>1 DEF ReadTo, Resume
        <5>4. QED
          BY <4>4, <5>1, <5>2, <5>3
      <4>7. WithinFile(b)' <=> pos'[b] <= Len(file)
        BY <2>2, <4>3 DEF WithinFile
      <4>8. \A x, k : EndsAt(x, k)' <=> EndsAt(x, k)
        BY <2>2 DEF EndsAt
      <4>9. QED
        BY <2>2, <4>2, <4>3, <4>5, <4>6, <4>7, <4>8 DEF GivenTo
    <3>4. QED
      BY <2>1, <3>2, <3>3 DEF Given
  <2>5. QED
    BY <2>3, <2>4
<1>5. ASSUME NEW b \in Browsers, Subscribe(b)
      PROVE  Given'
  <2>1. /\ UNCHANGED <<run, file>> /\ got'[b] = <<>> /\ queue'[b] = <<>>
        /\ \A c \in Browsers \ {b} : pos'[c] = pos[c] /\ got'[c] = got[c] /\ queue'[c] = queue[c]
        /\ \A c : c \in poll'.todo => poll'.size = Len(file)
    BY <1>5 DEF Subscribe, TypeOK, Stat, NoPoll
  <2>2. GivenTo(b)'
    BY <2>1, EmptySeq DEF GivenTo, Range
  <2>3. ASSUME NEW c \in Browsers \ {b}, c \in Subscribers
        PROVE  GivenTo(c)'
    BY <2>1, <2>3, GivenStays DEF Given
  <2>4. \A c \in Browsers \ {b} : c \in Subscribers' => c \in Subscribers
    BY <2>1 DEF Subscribers
  <2>5. Subscribers' \subseteq Browsers
    BY DEF Subscribers
  <2>6. QED
    BY <2>2, <2>3, <2>4, <2>5 DEF Given
<1>6. ASSUME NEW b \in Browsers, Send(b)
      PROVE  Given'
  <2>1. /\ UNCHANGED <<run, file, pos, poll>>
        /\ got[b] \in Seq(Entries) /\ queue[b] \in Seq(Entries) /\ queue[b] # <<>>
        /\ got'[b] = Append(got[b], Head(queue[b])) /\ queue'[b] = Tail(queue[b])
        /\ \A c \in Browsers \ {b} : got'[c] = got[c] /\ queue'[c] = queue[c]
    BY <1>6 DEF Send, TypeOK
  <2>2. Range(got'[b]) \cup Range(queue'[b]) = Range(got[b]) \cup Range(queue[b])
    BY <2>1, SendMoves
  <2>3. ASSUME NEW c \in Subscribers
        PROVE  GivenTo(c)'
    <3>1. Range(got'[c]) \cup Range(queue'[c]) = Range(got[c]) \cup Range(queue[c])
      BY <2>1, <2>2 DEF Subscribers
    <3>2. QED
      BY <2>1, <3>1, GivenStays DEF Given, Subscribers
  <2>4. QED
    BY <2>1, <2>3, SameSubscribers DEF Given
<1>7. ASSUME NEW b \in Browsers, Unsubscribe(b)
      PROVE  Given'
  <2>1. /\ UNCHANGED <<run, file, got, poll>> /\ pos'[b] = Off
        /\ \A c \in Browsers \ {b} : pos'[c] = pos[c] /\ queue'[c] = queue[c]
    BY <1>7 DEF Unsubscribe, TypeOK
  <2>2. \A c \in Subscribers' : c \in Subscribers /\ c \in Browsers \ {b}
    BY <2>1 DEF Subscribers
  <2>3. ASSUME NEW c \in Browsers \ {b}, c \in Subscribers
        PROVE  GivenTo(c)'
    BY <2>1, <2>3, GivenStays DEF Given
  <2>4. QED
    BY <2>2, <2>3 DEF Given
<1>8. QED
  BY <1>1, <1>2, <1>3, <1>4, <1>5, <1>6, <1>7
     DEF Next, BotStep, HubStep, Break, ClosePage

LEMMA CaughtStays ==
    ASSUME NEW b \in Browsers, CaughtUp(b), file' = file, b \in stale => b \in stale',
           pos'[b] = pos[b], dropped'[b] = dropped[b],
           Range(got'[b]) \cup Range(queue'[b]) = Range(got[b]) \cup Range(queue[b]),
           b \in poll'.todo => \/ b \in poll.todo /\ poll'.size = poll.size
                               \/ poll'.size = Len(file)
    PROVE  CaughtUp(b)'
<1>1. WithinFile(b) => WithinFile(b)'
  BY DEF WithinFile
<1>2. QED
  BY <1>1 DEF CaughtUp

LEMMA CaughtStep ==
    ASSUME TypeOK, FileShape, Caught, [Next]_vars
    PROVE  Caught'
<1>1. CASE StartBot
  <2>1. /\ DOMAIN file' = {} /\ Len(file') = 0 /\ UNCHANGED <<pos, poll>>
        /\ stale' = stale \cup {b \in Browsers : pos[b] > 0}
    BY <1>1, EmptySeq DEF StartBot, hubVars
  <2>2. ASSUME NEW b \in Subscribers
        PROVE  CaughtUp(b)'
    <3>1. pos[b] \in Nat /\ poll.size \in Nat /\ b \in Browsers
      BY DEF Subscribers, TypeOK, Off
    <3>2. QED
      BY <2>1, <3>1 DEF CaughtUp, WithinFile
  <2>3. QED
    BY <2>1, <2>2, SameSubscribers DEF Caught
<1>2. CASE Emit \/ EmitRest
  <2>1. PICK w \in Writes :
           file' = Append(file, w) /\ UNCHANGED <<run, stale, pageVars, hubVars>>
    BY <1>2, NextWrite
  <2>2. /\ Len(file) \in Nat /\ Len(file') = Len(file) + 1
        /\ DOMAIN file = 1..Len(file) /\ DOMAIN file' = 1..(Len(file) + 1)
        /\ \A i \in DOMAIN file : file'[i] = file[i]
    BY <2>1, AppendKeeps DEF TypeOK, Writes
  <2>3. ASSUME NEW b \in Subscribers
        PROVE  CaughtUp(b)'
    <3>1. pos[b] \in Nat
      BY DEF Subscribers, TypeOK, Off
    <3>2. WithinFile(b) => WithinFile(b)'
      BY <2>1, <2>2, <3>1 DEF WithinFile, hubVars
    <3>3. pos[b] <= Len(file) => \A i \in DOMAIN file' : i <= pos[b] => i \in DOMAIN file
      BY <2>2, <3>1
    <3>4. CaughtUp(b)
      BY DEF Caught
    <3>5. QED
      BY <2>1, <2>2, <3>2, <3>3, <3>4 DEF CaughtUp, WithinFile, hubVars
  <2>4. Subscribers' = Subscribers
    BY <2>1, SameSubscribers DEF hubVars
  <2>5. QED
    BY <2>3, <2>4 DEF Caught
<1>3. CASE Poll \/ ReadRaises \/ UNCHANGED vars \/ \E b \in Browsers : OpenPage(b)
  <2>1. /\ UNCHANGED <<file, pos, got, queue, dropped, stale>>
        /\ \A b : b \in poll'.todo => \/ b \in poll.todo /\ poll'.size = poll.size
                                      \/ poll'.size = Len(file)
    BY <1>3 DEF Poll, Stat, ReadRaises, NoPoll, OpenPage, vars, hubVars
  <2>2. ASSUME NEW b \in Subscribers
        PROVE  CaughtUp(b)'
    BY <2>1, CaughtStays DEF Caught, Subscribers
  <2>3. QED
    BY <2>1, <2>2, SameSubscribers DEF Caught
<1>4. ASSUME NEW b \in Browsers, Read(b)
      PROVE  Caught'
  <2>1. Subscribers' = Subscribers
    BY <1>4, ReadSubscribers
  <2>2. /\ UNCHANGED <<file, got>> /\ poll'.todo = poll.todo \ {b}
        /\ poll'.size = poll.size
    BY <1>4 DEF Read, TypeOK
  <2>3. CASE poll.size = Resume(pos[b])
    <3>1. UNCHANGED <<pos, queue, dropped, stale>>
      BY <1>4, <2>3 DEF Read
    <3>2. ASSUME NEW c \in Subscribers
          PROVE  CaughtUp(c)'
      BY <2>2, <3>1, CaughtStays DEF Caught, Subscribers
    <3>3. QED
      BY <2>1, <3>2 DEF Caught
  <2>4. CASE poll.size # Resume(pos[b])
    <3>1. PICK new \in Seq(Entries) :
             /\ \A i \in DOMAIN file : i > Resume(pos[b]) /\ file[i].part = "line" =>
                   file[i].entry \in Range(new)
             /\ pos' = [pos EXCEPT ![b] = ReadTo(Resume(pos[b]))]
             /\ queue' = [queue EXCEPT ![b] = Kept(queue[b] \o new)]
             /\ dropped' = [dropped EXCEPT ![b] =
                   @ \cup (Range(queue[b] \o new) \ Range(Kept(queue[b] \o new)))]
             /\ stale' = IF Resume(pos[b]) = 0 THEN stale \ {b} ELSE stale
      BY <1>4, <2>4, ReadResult
    <3>2. ASSUME NEW c \in Subscribers, c # b
          PROVE  CaughtUp(c)'
      <4>1. /\ pos'[c] = pos[c] /\ queue'[c] = queue[c] /\ dropped'[c] = dropped[c]
            /\ c \in Browsers /\ (c \in stale => c \in stale')
        BY <3>1, <3>2 DEF Subscribers, TypeOK
      <4>2. QED
        BY <2>2, <4>1, CaughtStays DEF Caught
    <3>3. CaughtUp(b)'
      <4>1. PICK lines, kept : lines = queue[b] \o new /\ kept = Kept(lines)
        OBVIOUS
      <4>2. Range(lines) = Range(queue[b]) \cup Range(new)
        <5>1. queue[b] \in Seq(Entries)
          BY DEF TypeOK
        <5>2. QED
          BY <4>1, <5>1, ConcatRange
      <4>3. /\ queue'[b] = kept /\ got'[b] = got[b] /\ b \notin poll'.todo
            /\ dropped'[b] = dropped[b] \cup (Range(lines) \ Range(kept))
            /\ pos'[b] = ReadTo(Resume(pos[b]))
        BY <2>2, <3>1, <4>1 DEF TypeOK
      <4>4. /\ b \in Subscribers /\ b \in poll.todo /\ pos[b] \in Nat /\ poll.size \in Nat
            /\ Len(file) \in Nat /\ DOMAIN file = 1..Len(file)
        BY <1>4, FileIndex DEF Read, TypeOK, Writes, Subscribers, Off
      <4>5. SUFFICES ASSUME b \notin stale'
                     PROVE  /\ pos'[b] <= Len(file)
                            /\ \A i \in DOMAIN file :
                                  i <= pos'[b] /\ file[i].part = "line" =>
                                     file[i].entry \in Range(got[b]) \cup Range(kept)
                                                       \cup dropped'[b]
        BY <2>2, <4>3 DEF CaughtUp, WithinFile
      <4>6. ASSUME NEW i \in DOMAIN file, i <= Resume(pos[b]), file[i].part = "line"
            PROVE  file[i].entry \in Range(got[b]) \cup Range(queue[b]) \cup dropped[b]
        <5>1. Resume(pos[b]) = pos[b] /\ Resume(pos[b]) # 0
          BY <4>4, <4>6 DEF Resume
        <5>2. b \notin stale
          BY <3>1, <4>5, <5>1
        <5>3. QED
          BY <4>4, <4>6, <5>1, <5>2 DEF Caught, CaughtUp
      <4>7. pos'[b] <= Len(file)
        <5>1. CASE Resume(pos[b]) = 0
          BY <4>3, <4>4, <5>1 DEF ReadTo
        <5>2. CASE Resume(pos[b]) # 0
          <6>1. b \notin stale /\ Resume(pos[b]) = pos[b]
            BY <3>1, <4>5, <5>2 DEF Resume
          <6>2. pos[b] <= Len(file)
            BY <4>4, <6>1 DEF Caught, CaughtUp, WithinFile
          <6>3. QED
            BY <4>3, <4>4, <6>1, <6>2 DEF ReadTo
        <5>3. QED
          BY <5>1, <5>2
      <4>8. ASSUME NEW i \in DOMAIN file, file[i].part = "line"
            PROVE  file[i].entry \in Range(got[b]) \cup dropped[b] \cup Range(lines)
        <5>1. CASE i <= Resume(pos[b])
          BY <4>2, <4>6, <4>8, <5>1
        <5>2. CASE i > Resume(pos[b])
          BY <3>1, <4>2, <4>8, <5>2
        <5>3. Resume(pos[b]) \in Nat /\ i \in Nat
          BY <4>4 DEF Resume
        <5>4. QED
          BY <5>1, <5>2, <5>3
      <4>9. QED
        BY <4>3, <4>7, <4>8
    <3>4. QED
      BY <2>1, <3>2, <3>3 DEF Caught
  <2>5. QED
    BY <2>3, <2>4
<1>5. ASSUME NEW b \in Browsers, Subscribe(b)
      PROVE  Caught'
  <2>1. /\ file' = file /\ pos'[b] = 0
        /\ \A c \in Browsers \ {b} :
              /\ pos'[c] = pos[c] /\ got'[c] = got[c] /\ queue'[c] = queue[c]
              /\ dropped'[c] = dropped[c] /\ (c \in stale => c \in stale')
        /\ \A c : c \in poll'.todo => poll'.size = Len(file)
    BY <1>5 DEF Subscribe, TypeOK, Stat, NoPoll, FirstPos
  <2>2. CaughtUp(b)'
    <3>1. Len(file) \in Nat /\ DOMAIN file = 1..Len(file)
      BY FileIndex DEF TypeOK, Writes
    <3>2. QED
      BY <2>1, <3>1 DEF CaughtUp, WithinFile
  <2>3. ASSUME NEW c \in Browsers \ {b}, c \in Subscribers
        PROVE  CaughtUp(c)'
    BY <2>1, <2>3, CaughtStays DEF Caught
  <2>4. \A c \in Browsers \ {b} : c \in Subscribers' => c \in Subscribers
    BY <2>1 DEF Subscribers
  <2>5. Subscribers' \subseteq Browsers
    BY DEF Subscribers
  <2>6. QED
    BY <2>2, <2>3, <2>4, <2>5 DEF Caught
<1>6. ASSUME NEW b \in Browsers, Send(b)
      PROVE  Caught'
  <2>1. /\ UNCHANGED <<file, pos, poll, dropped, stale>>
        /\ got[b] \in Seq(Entries) /\ queue[b] \in Seq(Entries) /\ queue[b] # <<>>
        /\ got'[b] = Append(got[b], Head(queue[b])) /\ queue'[b] = Tail(queue[b])
        /\ \A c \in Browsers \ {b} : got'[c] = got[c] /\ queue'[c] = queue[c]
    BY <1>6 DEF Send, TypeOK
  <2>2. Range(got'[b]) \cup Range(queue'[b]) = Range(got[b]) \cup Range(queue[b])
    BY <2>1, SendMoves
  <2>3. ASSUME NEW c \in Subscribers
        PROVE  CaughtUp(c)'
    <3>1. Range(got'[c]) \cup Range(queue'[c]) = Range(got[c]) \cup Range(queue[c])
      BY <2>1, <2>2 DEF Subscribers
    <3>2. QED
      BY <2>1, <3>1, CaughtStays DEF Caught, Subscribers
  <2>4. QED
    BY <2>1, <2>3, SameSubscribers DEF Caught
<1>7. ASSUME NEW b \in Browsers, Unsubscribe(b)
      PROVE  Caught'
  <2>1. /\ UNCHANGED <<file, got, poll, dropped, stale>> /\ pos'[b] = Off
        /\ \A c \in Browsers \ {b} : pos'[c] = pos[c] /\ queue'[c] = queue[c]
    BY <1>7 DEF Unsubscribe, TypeOK
  <2>2. \A c \in Subscribers' : c \in Subscribers /\ c \in Browsers \ {b}
    BY <2>1 DEF Subscribers
  <2>3. ASSUME NEW c \in Browsers \ {b}, c \in Subscribers
        PROVE  CaughtUp(c)'
    BY <2>1, <2>3, CaughtStays DEF Caught
  <2>4. QED
    BY <2>2, <2>3 DEF Caught
<1>8. QED
  BY <1>1, <1>2, <1>3, <1>4, <1>5, <1>6, <1>7
     DEF Next, BotStep, HubStep, Break, ClosePage

-----------------------------------------------------------------------------
(* The theorems                                                            *)

IInv == TypeOK /\ FileShape /\ Given /\ InLine /\ Caught

LEMMA Inductive == Spec => []IInv
<1>1. Init => IInv
  <2> SUFFICES ASSUME Init PROVE IInv
    OBVIOUS
  <2>1. file = <<>> /\ DOMAIN file = {}
    BY EmptySeq DEF Init
  <2>2. Subscribers = {}
    BY DEF Init, Subscribers, Off
  <2>3. InOrder(<<>> \o <<>>)
    BY EmptySeq, ConcatEmptySeq DEF InOrder
  <2>4. InLine
    BY <2>3 DEF Init, InLine
  <2>5. QED
    BY <2>1, <2>2, <2>4, TypeInit DEF IInv, FileShape, Given, Caught
<1>2. IInv /\ [Next]_vars => IInv'
  BY TypeStep, FileStep, GivenStep, InLineStep, CaughtStep DEF IInv
<1>3. QED
  BY <1>1, <1>2, PTL DEF Spec

(* logs_ws: whatever the restarts of the bot, the broken connections and   *)
(* the lines dropped in between, a connection brings every line at most    *)
(* once and in the order in which it was written.                          *)
THEOREM EveryLineOnce == Spec => []OrderOnce
<1>1. IInv => OrderOnce
  BY DEF IInv, InLine, InOrder, OrderOnce
<1>2. QED
  BY <1>1, Inductive, PTL

(* _read_new: a browser is missing no short line of the run it reads, up   *)
(* to its offset, that was not dropped from its full queue.                *)
THEOREM NoLineMissing == Spec => []Complete
<1>1. IInv => Complete
  BY DEF IInv, Caught, CaughtUp, Complete
<1>2. QED
  BY <1>1, Inductive, PTL

(* _broadcast: only a full queue loses lines, and only those older than    *)
(* all that stay in it.                                                    *)
THEOREM OnlyTheOldestDropped == Spec => DropsOldest
<1> DEFINE Drop ==
       \A b \in Browsers : \A e \in dropped'[b] \ dropped[b] :
          /\ Len(queue'[b]) = QueueMax
          /\ \A i \in DOMAIN queue'[b] : Older(e, queue'[b][i])
<1>1. IInv /\ [Next]_vars => [Drop]_vars
  <2> SUFFICES ASSUME IInv, Next PROVE Drop
    OBVIOUS
  <2>1. TypeOK /\ FileShape /\ Given /\ InLine
    BY DEF IInv
  <2>2. CASE dropped' = dropped
    BY <2>2
  <2>3. ASSUME NEW c \in Browsers, Subscribe(c)
        PROVE  Drop
    BY <2>1, <2>3 DEF Subscribe, TypeOK
  <2>4. ASSUME NEW c \in Browsers, Read(c), poll.size # Resume(pos[c])
        PROVE  Drop
    <3>1. PICK new \in Seq(Entries) :
             /\ InOrder(new)
             /\ \A x \in Range(new) : \E i \in DOMAIN file : i > Resume(pos[c]) /\ EndsAt(x, i)
             /\ queue' = [queue EXCEPT ![c] = Kept(queue[c] \o new)]
             /\ dropped' = [dropped EXCEPT ![c] =
                   @ \cup (Range(queue[c] \o new) \ Range(Kept(queue[c] \o new)))]
      BY <2>1, <2>4, ReadResult
    <3>2. PICK lines, kept : lines = queue[c] \o new /\ kept = Kept(lines)
      OBVIOUS
    <3>3. lines \in Seq(Entries) /\ InOrder(lines)
      BY <2>1, <2>4, <3>1, <3>2, ReadInOrder
    <3>4. \A e \in Range(lines) \ Range(kept) :
             Len(kept) = QueueMax /\ \A i \in DOMAIN kept : Older(e, kept[i])
      BY <3>2, <3>3, KeptFacts
    <3>5. /\ queue'[c] = kept /\ dropped'[c] = dropped[c] \cup (Range(lines) \ Range(kept))
          /\ \A b \in Browsers \ {c} : dropped'[b] = dropped[b]
      BY <2>1, <3>1, <3>2 DEF TypeOK
    <3>6. QED
      BY <3>4, <3>5
  <2>5. QED
    BY <2>2, <2>3, <2>4
       DEF Next, BotStep, HubStep, StartBot, Emit, EmitRest, Poll, Read, ReadRaises, Send,
           Break, Unsubscribe, OpenPage, ClosePage, hubVars
<1>2. QED
  BY <1>1, Inductive, PTL DEF Spec, DropsOldest

=============================================================================
