------------------------- MODULE VtfsReaddirProofs -------------------------
(***************************************************************************)
(* Proofs about VtfsReaddir, for directories of any size and programs that *)
(* read them with buffers of any size.                                     *)
(***************************************************************************)
EXTENDS VtfsReaddir, FiniteSetTheorems, SequenceTheorems, TLAPS

-----------------------------------------------------------------------------
(* The inductive invariant *)

Types == /\ files \in Seq(Entries)
         /\ \A i, j \in DOMAIN files : files[i] = files[j] => i = j
         /\ pos \in Nat
         /\ shown \in [Entries -> 0 .. 1]
         /\ there \subseteq Present
         /\ removed \in BOOLEAN /\ ended \in BOOLEAN

\* The position never runs ahead of what the directory can hold.
Within == Skipped(pos) <= Cardinality(Entries)

\* What has been shown lies before the position: a removal brings entries
\* forward, and nothing brings one back.
ShownBefore ==
  \A e \in Entries : shown[e] = 1 => \E i \in DOMAIN files : files[i] = e /\ i <= Skipped(pos)

\* While nothing is removed, all that lies before the position has been shown.
BeforeShown ==
  ~ removed => /\ Skipped(pos) <= Len(files)
               /\ \A i \in DOMAIN files : i <= Skipped(pos) => shown[files[i]] = 1

\* A pass that ended has been past every entry that was there all along.
PastAll ==
  ended /\ ~ removed => \A e \in there : \E i \in DOMAIN files : files[i] = e /\ i <= Skipped(pos)

Inv == Types /\ Within /\ ShownBefore /\ BeforeShown /\ PastAll
-----------------------------------------------------------------------------
(* Lemmas about the list *)

\* The list holds each entry once, so that it is no longer than the set of them.
LEMMA AtMostAll ==
  ASSUME Types
  PROVE  Len(files) \in Nat /\ Len(files) <= Cardinality(Entries) /\ Cardinality(Entries) \in Nat
<1>1. DOMAIN files = 1 .. Len(files) /\ Len(files) \in Nat /\ files \in [1 .. Len(files) -> Entries]
  BY LenProperties DEF Types
<1>2. files \in Injection(1 .. Len(files), Entries)
  BY <1>1 DEF Injection, IsInjective, Types
<1>3. Cardinality(1 .. Len(files)) = Len(files)
  BY <1>1, FS_Interval
<1>4. Cardinality(1 .. Len(files)) <= Cardinality(Entries)
  BY <1>2, FS_Injection, EntriesAssumption, Zenon
<1>5. Cardinality(Entries) \in Nat
  BY FS_CardinalityType, EntriesAssumption
<1> QED
  BY <1>1, <1>3, <1>4, <1>5

\* What is taken out of a list of different entries at i leaves the others in
\* their order, those behind i one place further to the front.
LEMMA TakenOut ==
  ASSUME NEW S, NEW s \in Seq(S), NEW i \in DOMAIN s,
         \A j, k \in DOMAIN s : s[j] = s[k] => j = k
  PROVE  LET t == SubSeq(s, 1, i - 1) \o SubSeq(s, i + 1, Len(s))
         IN /\ t \in Seq(S)
            /\ DOMAIN t = 1 .. Len(s) - 1
            /\ \A j \in DOMAIN t : t[j] = IF j < i THEN s[j] ELSE s[j + 1]
            /\ \A j, k \in DOMAIN t : t[j] = t[k] => j = k
<1> DEFINE a == SubSeq(s, 1, i - 1)
           b == SubSeq(s, i + 1, Len(s))
           t == a \o b
<1>1. Len(s) \in Nat /\ i \in 1 .. Len(s) /\ \A j \in 1 .. Len(s) : s[j] \in S
  BY LenProperties
<1>2. a \in Seq(S) /\ Len(a) = i - 1 /\ \A j \in 1 .. i - 1 : a[j] = s[j]
  BY <1>1, SubSeqProperties
<1>3. b \in Seq(S) /\ Len(b) = Len(s) - i /\ \A j \in 1 .. Len(s) - i : b[j] = s[i + j]
  <2>1. i + 1 \in Int /\ Len(s) \in Int /\ \A j \in i + 1 .. Len(s) : s[j] \in S
    BY <1>1
  <2>2. /\ b \in Seq(S)
        /\ Len(b) = IF i + 1 <= Len(s) THEN Len(s) - (i + 1) + 1 ELSE 0
        /\ \A j \in 1 .. Len(s) - (i + 1) + 1 : b[j] = s[i + 1 + j - 1]
    BY <2>1, SubSeqProperties
  <2> HIDE DEF b
  <2> QED
    BY <1>1, <2>2
<1> HIDE DEF a, b
<1>4. /\ t \in Seq(S) /\ Len(t) = Len(s) - 1
      /\ \A j \in 1 .. Len(s) - 1 : t[j] = IF j <= i - 1 THEN a[j] ELSE b[j - (i - 1)]
  <2>1. /\ t \in Seq(S) /\ Len(t) = Len(a) + Len(b)
        /\ \A j \in 1 .. Len(a) + Len(b) : t[j] = IF j <= Len(a) THEN a[j] ELSE b[j - Len(a)]
    <3>1. a \in Seq(S) /\ b \in Seq(S)
      BY <1>2, <1>3
    <3> QED
      BY <3>1, ConcatProperties
  <2> HIDE DEF t
  <2>2. Len(a) = i - 1 /\ Len(a) + Len(b) = Len(s) - 1
    BY <1>1, <1>2, <1>3
  <2> QED
    BY <2>1, <2>2
<1> HIDE DEF t
<1>5. DOMAIN t = 1 .. Len(s) - 1
  BY <1>4, LenProperties
<1>6. \A j \in 1 .. Len(s) - 1 : t[j] = IF j < i THEN s[j] ELSE s[j + 1]
  <2> SUFFICES ASSUME NEW j \in 1 .. Len(s) - 1
               PROVE  t[j] = IF j < i THEN s[j] ELSE s[j + 1]
    OBVIOUS
  <2>1. CASE j < i
    BY <1>1, <1>2, <1>4, <2>1
  <2>2. CASE ~ j < i
    <3>1. j - (i - 1) \in 1 .. Len(s) - i /\ i + (j - (i - 1)) = j + 1
      BY <1>1, <2>2
    <3>2. t[j] = b[j - (i - 1)] /\ b[j - (i - 1)] = s[i + (j - (i - 1))]
      BY <1>1, <1>3, <1>4, <2>2, <3>1
    <3> QED
      BY <2>2, <3>1, <3>2
  <2> QED
    BY <2>1, <2>2
<1>7. \A j, k \in 1 .. Len(s) - 1 : t[j] = t[k] => j = k
  BY <1>1, <1>6
<1> QED
  BY <1>4, <1>5, <1>6, <1>7 DEF t, a, b

\* The places that a call emits, from a list of length L read up to P, into a
\* buffer for n entries of which d are the dots.
Emitted(L, P, n, d) == {i \in 1 .. L : i > P /\ i + d <= P + n}

\* They are the c places from P on.
Stretch(L, P, n, d, c) ==
  /\ Emitted(L, P, n, d) = P + 1 .. P + c
  /\ c = 0 \/ P + c <= L
  /\ n < d => c = 0

\* The entries that one call emits are a stretch of the list from the position on.
LEMMA Batch ==
  ASSUME NEW L \in Nat, NEW P \in Nat, NEW n \in Nat, NEW d \in Nat
  PROVE  \E c \in Nat : Stretch(L, P, n, d, c)
<1> DEFINE out == Emitted(L, P, n, d)
<1>1. CASE n < d \/ L <= P
  <2>1. out = {} /\ P + 1 .. P + 0 = {}
    BY <1>1 DEF Emitted
  <2> QED
    BY <2>1 DEF Stretch
<1>2. CASE ~ n < d /\ ~ L <= P /\ L - P <= n - d
  <2> DEFINE c == L - P
  <2>1. c \in Nat /\ P + c <= L /\ out = P + 1 .. P + c
    BY <1>2 DEF Emitted
  <2> HIDE DEF c
  <2> QED
    BY <1>2, <2>1 DEF Stretch
<1>3. CASE ~ n < d /\ ~ L <= P /\ ~ L - P <= n - d
  <2> DEFINE c == n - d
  <2>1. c \in Nat /\ P + c <= L /\ out = P + 1 .. P + c
    BY <1>3 DEF Emitted
  <2> HIDE DEF c
  <2> QED
    BY <1>3, <2>1 DEF Stretch
<1> QED
  BY <1>1, <1>2, <1>3

\* One call of vtfs_iterate moves the position on by what it has shown.
LEMMA IterateEffect ==
  ASSUME Inv, NEW n \in Nat \ {0}, Iterate(n)
  PROVE  \E c \in Nat :
           /\ pos' \in Nat /\ Skipped(pos') = Skipped(pos) + c
           /\ c = 0 \/ Skipped(pos) + c <= Len(files)
           /\ \A e \in Entries : shown'[e] =
                IF \E i \in Skipped(pos) + 1 .. Skipped(pos) + c : files[i] = e
                  THEN IF shown[e] = 0 THEN 1 ELSE 2 ELSE shown[e]
           /\ ended' \in BOOLEAN /\ (ended' => Len(files) <= Skipped(pos))
           /\ UNCHANGED <<files, there, removed>>
<1> DEFINE dots == IF pos < 2 THEN 2 - pos ELSE 0
           P == Skipped(pos)
           out == {i \in DOMAIN files : i > P /\ i + dots <= P + n}
<1>1. /\ Len(files) \in Nat /\ DOMAIN files = 1 .. Len(files) /\ pos \in Nat /\ dots \in Nat
      /\ P \in Nat /\ P = IF pos > 2 THEN pos - 2 ELSE 0
  BY LenProperties DEF Inv, Types, Skipped
<1>2. /\ pos' = IF n < dots THEN pos + n ELSE pos + dots + Cardinality(out)
      /\ shown' = [e \in Entries |->
                     IF \E i \in out : files[i] = e THEN IF shown[e] = 0 THEN 1 ELSE 2 ELSE shown[e]]
      /\ ended' = (dots = 0 /\ out = {})
      /\ UNCHANGED <<files, there, removed>>
  BY DEF Iterate
<1>3. PICK c \in Nat : Stretch(Len(files), P, n, dots, c)
  <2> HIDE DEF dots, P
  <2>1. n \in Nat /\ Len(files) \in Nat /\ P \in Nat /\ dots \in Nat
    BY <1>1
  <2> QED
    BY <2>1, Batch, Zenon
<1>4. out = P + 1 .. P + c /\ (c = 0 \/ P + c <= Len(files)) /\ (n < dots => c = 0)
  <2>1. out = Emitted(Len(files), P, n, dots)
    BY <1>1 DEF Emitted
  <2> HIDE DEF dots, P, out
  <2> QED
    BY <1>3, <2>1 DEF Stretch
<1>5. Cardinality(out) = c
  <2>1. P + 1 \in Int /\ P + c \in Int /\ (P + 1 > P + c <=> c = 0)
    <3> HIDE DEF P
    <3> QED
      BY <1>1, <1>4
  <2>2. Cardinality(P + 1 .. P + c) = IF P + 1 > P + c THEN 0 ELSE (P + c) - (P + 1) + 1
    BY <2>1, FS_Interval
  <2> HIDE DEF P, out
  <2> QED
    BY <1>1, <1>4, <2>1, <2>2
<1>6. pos' \in Nat /\ Skipped(pos') = P + c
  <2>1. CASE n < dots
    BY <1>1, <1>2, <1>4, <2>1 DEF Skipped
  <2>2. CASE ~ n < dots
    <3>1. pos' = pos + dots + c
      BY <1>2, <1>5, <2>2
    <3> QED
      BY <1>1, <1>4, <3>1 DEF Skipped
  <2> QED
    BY <2>1, <2>2
<1>7. ended' => Len(files) <= P
  <2>1. SUFFICES ASSUME dots = 0, out = {} PROVE Len(files) <= P
    BY <1>2
  <2>2. P + 1 \notin out
    BY <2>1
  <2> QED
    BY <1>1, <2>1, <2>2
<1>8. ended' \in BOOLEAN
  BY <1>2
<1> HIDE DEF dots, P, out
<1>9. \A e \in Entries : shown'[e] =
        IF \E i \in P + 1 .. P + c : files[i] = e
          THEN IF shown[e] = 0 THEN 1 ELSE 2 ELSE shown[e]
  BY <1>2, <1>4
<1>10. UNCHANGED <<files, there, removed>>
  BY <1>2
<1> QED
  BY <1>4, <1>6, <1>7, <1>8, <1>9, <1>10 DEF P

-----------------------------------------------------------------------------
(* Each action preserves the invariant *)

LEMMA InitInv == Init => Inv
<1> SUFFICES ASSUME Init PROVE Inv
  OBVIOUS
<1>1. Types
  <2>1. files \in Seq(Entries) /\ DOMAIN files = {}
    BY EmptySeq DEF Init
  <2>2. shown \in [Entries -> 0 .. 1]
    BY DEF Init
  <2> QED
    BY <2>1, <2>2 DEF Init, Types
<1>2. Skipped(pos) = 0 /\ Cardinality(Entries) \in Nat
  BY FS_CardinalityType, EntriesAssumption DEF Init, Skipped
<1> QED
  BY <1>1, <1>2 DEF Init, Inv, Within, ShownBefore, BeforeShown, PastAll

LEMMA RewindKeeps == Inv /\ Rewind => Inv'
<1> SUFFICES ASSUME Inv, Rewind PROVE Inv'
  OBVIOUS
<1>1. Skipped(pos') = 0 /\ Cardinality(Entries) \in Nat
  BY FS_CardinalityType, EntriesAssumption DEF Rewind, Skipped
<1>2. Types'
  <2>1. shown' \in [Entries -> 0 .. 1]
    BY DEF Rewind
  <2> QED
    BY <2>1 DEF Inv, Types, Rewind, Present
<1>3. Len(files) \in Nat /\ DOMAIN files = 1 .. Len(files)
  BY LenProperties DEF Inv, Types
<1> QED
  BY <1>1, <1>2, <1>3 DEF Inv, Rewind, Within, ShownBefore, BeforeShown, PastAll

LEMMA IterateKeeps ==
  ASSUME Inv, NEW n \in Nat \ {0}, Iterate(n)
  PROVE  Inv'
<1> DEFINE P == Skipped(pos)
<1>1. PICK c \in Nat :
        /\ pos' \in Nat /\ Skipped(pos') = P + c
        /\ c = 0 \/ P + c <= Len(files)
        /\ \A e \in Entries : shown'[e] =
             IF \E i \in P + 1 .. P + c : files[i] = e
               THEN IF shown[e] = 0 THEN 1 ELSE 2 ELSE shown[e]
        /\ ended' \in BOOLEAN /\ (ended' => Len(files) <= P)
        /\ UNCHANGED <<files, there, removed>>
  BY IterateEffect, Zenon
<1>2. /\ Len(files) \in Nat /\ DOMAIN files = 1 .. Len(files) /\ P \in Nat
      /\ \A i \in DOMAIN files : files[i] \in Entries
  BY LenProperties DEF Inv, Types, Skipped
<1>3. /\ Len(files) <= Cardinality(Entries) /\ Cardinality(Entries) \in Nat
      /\ P <= Cardinality(Entries)
  BY AtMostAll DEF Inv, Within
<1> HIDE DEF P
<1>4. \A i \in P + 1 .. P + c : i \in DOMAIN files /\ shown[files[i]] = 0
  <2> SUFFICES ASSUME NEW i \in P + 1 .. P + c PROVE i \in DOMAIN files /\ shown[files[i]] = 0
    OBVIOUS
  <2>1. i \in DOMAIN files
    BY <1>1, <1>2
  <2>2. ASSUME shown[files[i]] = 1 PROVE FALSE
    <3>1. PICK k \in DOMAIN files : files[k] = files[i] /\ k <= P
      BY <1>2, <2>1, <2>2 DEF Inv, ShownBefore, P
    <3>2. k = i
      BY <2>1, <3>1 DEF Inv, Types
    <3> QED
      BY <1>2, <3>1, <3>2
  <2>3. shown[files[i]] \in 0 .. 1
    BY <1>2, <2>1 DEF Inv, Types
  <2> QED
    BY <2>1, <2>2, <2>3
<1>5. \A e \in Entries : shown'[e] =
        IF \E i \in P + 1 .. P + c : files[i] = e THEN 1 ELSE shown[e]
  BY <1>1, <1>4
<1>6. Types'
  <2>1. shown' \in [Entries -> 0 .. 1]
    <3>1. shown' = [e \in Entries |-> shown'[e]]
      BY DEF Iterate
    <3>2. \A e \in Entries : shown'[e] \in 0 .. 1
      BY <1>5 DEF Inv, Types
    <3> QED
      BY <3>1, <3>2, Zenon
  <2> QED
    BY <1>1, <2>1 DEF Inv, Types, Present
<1>7. Within'
  BY <1>1, <1>2, <1>3 DEF Within
<1>8. ShownBefore'
  <2> SUFFICES ASSUME NEW e \in Entries, shown'[e] = 1
               PROVE  \E i \in DOMAIN files : files[i] = e /\ i <= P + c
    BY <1>1 DEF ShownBefore
  <2>1. CASE \E i \in P + 1 .. P + c : files[i] = e
    BY <1>2, <1>4, <2>1
  <2>2. CASE shown[e] = 1
    BY <1>2, <2>2 DEF Inv, ShownBefore, P
  <2> QED
    BY <1>5, <2>1, <2>2
<1>9. BeforeShown'
  <2> SUFFICES ASSUME ~ removed
               PROVE  /\ P + c <= Len(files)
                      /\ \A i \in DOMAIN files : i <= P + c => shown'[files[i]] = 1
    BY <1>1 DEF BeforeShown
  <2>1. P <= Len(files) /\ \A i \in DOMAIN files : i <= P => shown[files[i]] = 1
    BY DEF Inv, BeforeShown, P
  <2>2. ASSUME NEW i \in DOMAIN files, i <= P + c PROVE shown'[files[i]] = 1
    BY <1>2, <1>5, <2>1, <2>2
  <2> QED
    BY <1>1, <1>2, <2>1, <2>2
<1>10. PastAll'
  <2> SUFFICES ASSUME ended', NEW e \in there
               PROVE  \E i \in DOMAIN files : files[i] = e /\ i <= P + c
    BY <1>1 DEF PastAll
  <2>1. PICK i \in DOMAIN files : files[i] = e
    BY DEF Inv, Types, Present
  <2> QED
    BY <1>1, <1>2, <2>1
<1> QED
  BY <1>6, <1>7, <1>8, <1>9, <1>10 DEF Inv

LEMMA AddKeeps ==
  ASSUME Inv, NEW e \in Entries, Add(e)
  PROVE  Inv'
<1>1. /\ Len(files) \in Nat /\ DOMAIN files = 1 .. Len(files)
      /\ Skipped(pos) \in Nat
  BY LenProperties DEF Inv, Types, Skipped
<1>2. /\ files' \in Seq(Entries) /\ DOMAIN files' = 1 .. Len(files) + 1
      /\ Len(files') = Len(files) + 1
      /\ \A i \in DOMAIN files : files'[i] = files[i]
      /\ files'[Len(files) + 1] = e
  BY <1>1, AppendProperties DEF Add, Inv, Types
<1>3. \A i \in DOMAIN files : i \in DOMAIN files' /\ files[i] # e
  BY <1>1, <1>2 DEF Add, Present
<1>4. UNCHANGED <<pos, shown, there, removed, ended>>
  BY DEF Add
<1>5. Types'
  <2>1. \A i, j \in DOMAIN files' : files'[i] = files'[j] => i = j
    BY <1>1, <1>2, <1>3 DEF Inv, Types
  <2>2. there' \subseteq Present'
    BY <1>2, <1>3, <1>4 DEF Inv, Types, Present
  <2> QED
    BY <1>2, <1>4, <2>1, <2>2 DEF Inv, Types
<1>6. Within'
  BY <1>4 DEF Inv, Within
<1>7. ShownBefore'
  BY <1>2, <1>3, <1>4 DEF Inv, ShownBefore
<1>8. BeforeShown'
  <2> SUFFICES ASSUME ~ removed
               PROVE  /\ Skipped(pos) <= Len(files')
                      /\ \A i \in DOMAIN files' : i <= Skipped(pos) => shown[files'[i]] = 1
    BY <1>4 DEF BeforeShown
  <2>1. Skipped(pos) <= Len(files)
    BY DEF Inv, BeforeShown
  <2>2. ASSUME NEW i \in DOMAIN files', i <= Skipped(pos) PROVE shown[files'[i]] = 1
    <3>1. i \in DOMAIN files
      BY <1>1, <1>2, <2>1, <2>2
    <3> QED
      BY <1>2, <2>2, <3>1 DEF Inv, BeforeShown
  <2> QED
    BY <1>1, <1>2, <2>1, <2>2
<1>9. PastAll'
  BY <1>2, <1>3, <1>4 DEF Inv, PastAll
<1> QED
  BY <1>5, <1>6, <1>7, <1>8, <1>9 DEF Inv

\* A removal brings the entries behind it one place forward: what was before the
\* position stays before it.
LEMMA DeleteKeeps ==
  ASSUME Inv, NEW e \in Entries, Delete(e)
  PROVE  Inv'
<1>1. PICK i \in DOMAIN files :
        /\ files[i] = e
        /\ files' = SubSeq(files, 1, i - 1) \o SubSeq(files, i + 1, Len(files))
  BY DEF Delete
<1>2. /\ Len(files) \in Nat /\ DOMAIN files = 1 .. Len(files)
      /\ i \in 1 .. Len(files) /\ Skipped(pos) \in Nat
  BY LenProperties DEF Inv, Types, Skipped
<1>3. /\ files' \in Seq(Entries) /\ DOMAIN files' = 1 .. Len(files) - 1
      /\ \A j \in DOMAIN files' : files'[j] = IF j < i THEN files[j] ELSE files[j + 1]
      /\ \A j, k \in DOMAIN files' : files'[j] = files'[k] => j = k
  <2>1. files \in Seq(Entries) /\ \A j, k \in DOMAIN files : files[j] = files[k] => j = k
    BY DEF Inv, Types
  <2> QED
    <3> DEFINE t == SubSeq(files, 1, i - 1) \o SubSeq(files, i + 1, Len(files))
    <3>1. /\ t \in Seq(Entries)
          /\ DOMAIN t = 1 .. Len(files) - 1
          /\ \A j \in DOMAIN t : t[j] = IF j < i THEN files[j] ELSE files[j + 1]
          /\ \A j, k \in DOMAIN t : t[j] = t[k] => j = k
      BY <2>1, TakenOut
    <3>2. files' = t
      BY <1>1
    <3> HIDE DEF t
    <3> QED
      BY <3>1, <3>2
<1>4. /\ there' = there \ {e} /\ shown' = [shown EXCEPT ![e] = 0] /\ removed' = TRUE
      /\ UNCHANGED <<pos, ended>>
  BY DEF Delete
<1>5. \A k \in DOMAIN files : files[k] # e =>
        \E j \in DOMAIN files' : files'[j] = files[k] /\ j <= k
  <2> SUFFICES ASSUME NEW k \in DOMAIN files, files[k] # e
               PROVE  \E j \in DOMAIN files' : files'[j] = files[k] /\ j <= k
    OBVIOUS
  <2>1. CASE k < i
    BY <1>2, <1>3, <2>1
  <2>2. CASE k > i
    <3>1. k - 1 \in DOMAIN files' /\ files'[k - 1] = files[k]
      BY <1>2, <1>3, <2>2
    <3> QED
      BY <1>2, <3>1
  <2>3. k \in Int /\ i \in Int /\ k # i
    BY <1>1, <1>2
  <2> QED
    BY <2>1, <2>2, <2>3
<1>6. Types'
  <2>1. there' \subseteq Present'
    BY <1>4, <1>5 DEF Inv, Types, Present
  <2>2. shown' \in [Entries -> 0 .. 1]
    BY <1>4 DEF Inv, Types
  <2> QED
    BY <1>3, <1>4, <2>1, <2>2 DEF Inv, Types
<1>7. ShownBefore'
  <2> SUFFICES ASSUME NEW g \in Entries, shown'[g] = 1
               PROVE  \E j \in DOMAIN files' : files'[j] = g /\ j <= Skipped(pos)
    BY <1>4 DEF ShownBefore
  <2>1. g # e /\ shown[g] = 1
    BY <1>4 DEF Inv, Types
  <2>2. PICK k \in DOMAIN files : files[k] = g /\ k <= Skipped(pos)
    BY <2>1 DEF Inv, ShownBefore
  <2>3. PICK j \in DOMAIN files' : files'[j] = g /\ j <= k
    BY <1>5, <2>1, <2>2
  <2> QED
    BY <1>2, <1>3, <2>2, <2>3
<1> QED
  BY <1>4, <1>6, <1>7 DEF Inv, Within, BeforeShown, PastAll

LEMMA StepKeeps == Inv /\ [Next]_vars => Inv'
<1> SUFFICES ASSUME Inv, [Next]_vars PROVE Inv'
  OBVIOUS
<1>1. CASE Rewind
  BY <1>1, RewindKeeps
<1>2. CASE Read
  <2>1. Cardinality(Entries) \in Nat
    BY AtMostAll DEF Inv
  <2>2. PICK n \in 1 .. Cardinality(Entries) + 2 : Iterate(n)
    BY <1>2 DEF Read
  <2>3. n \in Nat \ {0}
    BY <2>1
  <2> QED
    BY <2>2, <2>3, IterateKeeps
<1>3. ASSUME NEW e \in Entries, Add(e) PROVE Inv'
  BY <1>3, AddKeeps
<1>4. ASSUME NEW e \in Entries, Delete(e) PROVE Inv'
  BY <1>4, DeleteKeeps
<1>5. CASE UNCHANGED vars
  BY <1>5 DEF vars, Inv, Types, Present, Within, ShownBefore, BeforeShown, PastAll
<1> QED
  BY <1>1, <1>2, <1>3, <1>4, <1>5 DEF Next

-----------------------------------------------------------------------------
(* Theorems *)

LEMMA Invariance == Spec => []Inv
<1> QED
  BY InitInv, StepKeeps, PTL DEF Spec

\* The position stays within the directory's capacity, and the list has no entry
\* twice.
THEOREM TypeCorrect == Spec => []TypeOK
<1>1. Inv => TypeOK
  <2> SUFFICES ASSUME Inv PROVE TypeOK
    OBVIOUS
  <2>1. pos \in 0 .. Cardinality(Entries) + 2
    BY AtMostAll DEF Inv, Types, Within, Skipped
  <2>2. shown \in [Entries -> 0 .. 2]
    BY DEF Inv, Types
  <2> QED
    BY <2>1, <2>2 DEF Inv, Types, TypeOK
<1> QED
  BY <1>1, Invariance, PTL

\* vtfs_iterate lists no entry twice in a pass, whatever create, link, unlink
\* and rmdir do between its calls.
THEOREM ListedOnce == Spec => []ShownOnce
<1>1. Inv => ShownOnce
  BY DEF Inv, Types, ShownOnce
<1> QED
  BY <1>1, Invariance, PTL

\* vtfs_iterate leaves out no entry that was there all along, unless one is
\* removed during the pass.
THEOREM ListedAll == Spec => []NothingMissed
<1>1. Inv => NothingMissed
  BY DEF Inv, Types, BeforeShown, PastAll, NothingMissed
<1> QED
  BY <1>1, Invariance, PTL
=============================================================================
