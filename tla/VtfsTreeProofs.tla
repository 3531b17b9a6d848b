--------------------------- MODULE VtfsTreeProofs ---------------------------
(***************************************************************************)
(* Proofs about VtfsTree, for all names, inode numbers, buffers and sizes. *)
(***************************************************************************)
EXTENDS VtfsTree, FiniteSetTheorems, WellFoundedInduction, TLAPS

-----------------------------------------------------------------------------
(* Lemmas about the operators of the tree *)

\* A tree: finitely many entries, all well formed.
TreeOK(t) ==
  /\ DOMAIN t \subseteq Keys
  /\ IsFiniteSet(DOMAIN t)
  /\ \A k \in DOMAIN t : t[k] \in Entry

HeapOK(m) == /\ DOMAIN m \subseteq Buffers
             /\ \A b \in DOMAIN m : m[b] \in Seq(Cells)

\* Two records that differ in the place in the walk at most.
SameBody(e, f) == /\ e.ino = f.ino /\ e.dir = f.dir /\ e.nlink = f.nlink
                  /\ e.data = f.data /\ e.size = f.size

\* Every non-empty set of natural numbers has a least one.
LEMMA LeastExists ==
  ASSUME NEW S, S \subseteq Nat, S # {}
  PROVE  \E n \in S : \A m \in S : n <= m
<1>1. PICK n \in S : \A m \in S : <<m, n>> \notin OpToRel(<, Nat)
  BY NatLessThanWellFounded, WFMin, Zenon
<1>2. \A m \in S : ~ (m < n)
  BY <1>1, Zenon DEF OpToRel
<1> QED
  BY <1>2

\* Among some entries of a tree one comes first in the walk.
LEMMA EarliestIsOne ==
  ASSUME NEW t, TreeOK(t), NEW K, K \subseteq DOMAIN t, K # {}
  PROVE  Earliest(t, K) \in K
<1> DEFINE S == {t[k].at : k \in K}
<1>1. S \subseteq Nat /\ S # {}
  BY DEF TreeOK, Entry
<1>2. \E n \in S : \A m \in S : n <= m
  BY <1>1, LeastExists
<1>3. \E k \in K : \A l \in K : t[k].at <= t[l].at
  BY <1>2
<1> QED
  BY <1>3 DEF Earliest

\* vtfs_find_file_by_ino returns an entry of the inode when there is one.
LEMMA FirstIsALink ==
  ASSUME TreeOK(ent), NEW x, LinksOf(x) # {}
  PROVE  First(x) \in LinksOf(x) /\ First(x) \in DOMAIN ent /\ ent[First(x)].ino = x
<1>1. LinksOf(x) \subseteq DOMAIN ent
  BY DEF LinksOf
<1>2. First(x) \in LinksOf(x)
  BY <1>1, EarliestIsOne DEF First
<1> QED
  BY <1>2 DEF LinksOf

\* The same of the tree after a step.
LEMMA FirstIsALinkNext ==
  ASSUME TreeOK(ent'), NEW x, LinksOf(x)' # {}
  PROVE  First(x)' \in LinksOf(x)'
<1>1. LinksOf(x)' \subseteq DOMAIN ent'
  BY DEF LinksOf
<1>2. First(x)' = Earliest(ent', LinksOf(x)')
  BY DEF First
<1> HIDE DEF First, LinksOf
<1> QED
  BY <1>1, <1>2, EarliestIsOne

\* A directory has one name, so that the first entry is the directory's.
DirNames(t) ==
  \A k, l \in DOMAIN t : t[k].dir /\ t[l].ino = t[k].ino => l = k

\* A directory is the root or the inode number of an entry for a directory.
LEMMA IsDirIff ==
  ASSUME TreeOK(ent), DirNames(ent), NEW d
  PROVE  IsDir(d) <=> d = RootIno \/ \E k \in DOMAIN ent : ent[k].ino = d /\ ent[k].dir
<1>1. LinksOf(d) # {} => First(d) \in LinksOf(d)
  BY FirstIsALink
<1> QED
  BY <1>1 DEF IsDir, LinksOf, DirNames

\* The same of the tree after a step.
LEMMA IsDirIffNext ==
  ASSUME TreeOK(ent'), DirNames(ent'), NEW d
  PROVE  IsDir(d)' <=> d = RootIno \/ \E k \in DOMAIN ent' : ent'[k].ino = d /\ ent'[k].dir
<1>1. LinksOf(d)' # {} => First(d)' \in LinksOf(d)'
  BY FirstIsALinkNext
<1> QED
  BY <1>1 DEF IsDir, LinksOf, DirNames

\* list_add_tail gives the new entry a place in the walk.
LEMMA PlaceIsNat ==
  ASSUME TreeOK(ent), NEW d
  PROVE  Place(d) \in Nat
<1>1. CASE Beyond(d) = {}
  <2>1. Cardinality(DOMAIN ent) \in Nat
    BY FS_CardinalityType DEF TreeOK
  <2> QED
    BY <1>1, <2>1 DEF Place
<1>2. CASE Beyond(d) # {}
  <2>1. Beyond(d) \subseteq DOMAIN ent
    BY DEF Beyond
  <2> DEFINE c == Earliest(ent, Beyond(d))
  <2>2. c \in Beyond(d)
    BY <1>2, <2>1, EarliestIsOne
  <2>3. c \in DOMAIN ent
    BY <2>1, <2>2
  <2>4. Place(d) = ent[c].at
    BY <1>2 DEF Place
  <2>5. ent[c].at \in Nat
    BY <2>3 DEF TreeOK, Entry
  <2> QED
    BY <2>4, <2>5
<1> QED
  BY <1>1, <1>2

\* Adding an entry only moves the others in the walk.
LEMMA WithOK ==
  ASSUME NEW t, TreeOK(t), NEW k \in Keys, k \notin DOMAIN t, NEW e \in Entry
  PROVE  /\ TreeOK(With(t, k, e))
         /\ DOMAIN With(t, k, e) = DOMAIN t \cup {k}
         /\ With(t, k, e)[k] = e
         /\ \A l \in DOMAIN t : SameBody(With(t, k, e)[l], t[l])
<1>1. DOMAIN With(t, k, e) = DOMAIN t \cup {k} /\ With(t, k, e)[k] = e
  BY DEF With
<1>2. ASSUME NEW l \in DOMAIN t
      PROVE  With(t, k, e)[l] \in Entry /\ SameBody(With(t, k, e)[l], t[l])
  <2>1. /\ t[l] \in Entry
        /\ With(t, k, e)[l] = IF t[l].at >= e.at THEN [t[l] EXCEPT !.at = t[l].at + 1] ELSE t[l]
    BY DEF With, TreeOK
  <2> QED
    BY <2>1 DEF Entry, SameBody
<1>3. IsFiniteSet(DOMAIN t \cup {k})
  BY FS_AddElement DEF TreeOK
<1> QED
  BY <1>1, <1>2, <1>3 DEF TreeOK

\* Removing entries only moves the others in the walk.
LEMMA WithoutOK ==
  ASSUME NEW t, TreeOK(t), NEW K
  PROVE  /\ TreeOK(Without(t, K))
         /\ DOMAIN Without(t, K) = DOMAIN t \ K
         /\ \A l \in DOMAIN t \ K : SameBody(Without(t, K)[l], t[l])
<1>1. DOMAIN Without(t, K) = DOMAIN t \ K
  BY DEF Without
<1>2. IsFiniteSet(DOMAIN t \ K)
  BY FS_Subset DEF TreeOK
<1>3. ASSUME NEW l \in DOMAIN t \ K
      PROVE  Without(t, K)[l] \in Entry /\ SameBody(Without(t, K)[l], t[l])
  <2> DEFINE c == Cardinality({m \in DOMAIN t \ K : t[m].at <= t[l].at})
  <2>1. c \in Nat
    <3>1. IsFiniteSet({m \in DOMAIN t \ K : t[m].at <= t[l].at})
      BY <1>2, FS_Subset
    <3> QED
      BY <3>1, FS_CardinalityType
  <2>2. t[l] \in Entry /\ Without(t, K)[l] = [t[l] EXCEPT !.at = c]
    BY DEF Without, TreeOK
  <2> HIDE DEF c
  <2> QED
    BY <2>1, <2>2 DEF Entry, SameBody
<1> QED
  BY <1>1, <1>2, <1>3 DEF TreeOK

\* vtfs_update_nlink_all sets the count of all entries of one inode.
LEMMA SetNlinkOK ==
  ASSUME NEW t, TreeOK(t), NEW x, NEW n \in Nat \ {0}
  PROVE  /\ TreeOK(SetNlink(t, x, n))
         /\ DOMAIN SetNlink(t, x, n) = DOMAIN t
         /\ \A k \in DOMAIN t :
              /\ SetNlink(t, x, n)[k].nlink = IF t[k].ino = x THEN n ELSE t[k].nlink
              /\ SetNlink(t, x, n)[k].ino = t[k].ino
              /\ SetNlink(t, x, n)[k].dir = t[k].dir
              /\ SetNlink(t, x, n)[k].data = t[k].data
              /\ SetNlink(t, x, n)[k].size = t[k].size
              /\ SetNlink(t, x, n)[k].at = t[k].at
<1>1. DOMAIN SetNlink(t, x, n) = DOMAIN t
  BY DEF SetNlink
<1>2. ASSUME NEW k \in DOMAIN t
      PROVE  SetNlink(t, x, n)[k] = (IF t[k].ino = x THEN [t[k] EXCEPT !.nlink = n] ELSE t[k])
             /\ t[k] \in Entry
  BY DEF SetNlink, TreeOK
<1> QED
  BY <1>1, <1>2 DEF TreeOK, Entry

\* vtfs_update_data_all and the single update touch pointer and size alone.
LEMMA UpdateDataAllOK ==
  ASSUME NEW t, TreeOK(t), NEW x, NEW old, NEW new \in Pointers, NEW s \in Sizes
  PROVE  LET u == UpdateDataAll(t, x, old, new, s) IN
         /\ TreeOK(u)
         /\ DOMAIN u = DOMAIN t
         /\ \A k \in DOMAIN t :
              /\ u[k].ino = t[k].ino /\ u[k].dir = t[k].dir /\ u[k].nlink = t[k].nlink
              /\ u[k].at = t[k].at
              /\ u[k].data = IF t[k].ino = x /\ t[k].data = old THEN new ELSE t[k].data
              /\ u[k].size = IF t[k].ino = x /\ t[k].data = old THEN s ELSE t[k].size
<1> DEFINE u == UpdateDataAll(t, x, old, new, s)
<1>1. DOMAIN u = DOMAIN t
  BY DEF UpdateDataAll
<1>2. ASSUME NEW k \in DOMAIN t
      PROVE  /\ u[k] = (IF t[k].ino = x /\ t[k].data = old
                        THEN [t[k] EXCEPT !.data = new, !.size = s] ELSE t[k])
             /\ t[k] \in Entry
  BY DEF UpdateDataAll, TreeOK
<1> HIDE DEF u
<1>3. ASSUME NEW k \in DOMAIN t
      PROVE  /\ u[k] \in Entry
             /\ u[k].ino = t[k].ino /\ u[k].dir = t[k].dir /\ u[k].nlink = t[k].nlink
             /\ u[k].at = t[k].at
             /\ u[k].data = IF t[k].ino = x /\ t[k].data = old THEN new ELSE t[k].data
             /\ u[k].size = IF t[k].ino = x /\ t[k].data = old THEN s ELSE t[k].size
  BY <1>2 DEF Entry
<1>4. TreeOK(u)
  BY <1>1, <1>3 DEF TreeOK
<1> QED
  BY <1>1, <1>3, <1>4 DEF u

\* Storing a pointer and a size in one entry changes nothing else of the tree.
LEMMA UpdateOneOK ==
  ASSUME NEW t, TreeOK(t), NEW f \in DOMAIN t, NEW new \in Pointers, NEW s \in Sizes
  PROVE  LET u == UpdateOne(t, f, new, s) IN
         /\ TreeOK(u)
         /\ DOMAIN u = DOMAIN t
         /\ \A k \in DOMAIN t :
              /\ u[k].ino = t[k].ino /\ u[k].dir = t[k].dir /\ u[k].nlink = t[k].nlink
              /\ u[k].at = t[k].at
              /\ u[k].data = IF k = f THEN new ELSE t[k].data
              /\ u[k].size = IF k = f THEN s ELSE t[k].size
<1> DEFINE u == UpdateOne(t, f, new, s)
<1>1. DOMAIN u = DOMAIN t
  BY DEF UpdateOne
<1>2. ASSUME NEW k \in DOMAIN t
      PROVE  /\ u[k] = (IF k = f THEN [t[k] EXCEPT !.data = new, !.size = s] ELSE t[k])
             /\ t[k] \in Entry
  BY DEF UpdateOne, TreeOK
<1> HIDE DEF u
<1>3. ASSUME NEW k \in DOMAIN t
      PROVE  /\ u[k] \in Entry
             /\ u[k].ino = t[k].ino /\ u[k].dir = t[k].dir /\ u[k].nlink = t[k].nlink
             /\ u[k].at = t[k].at
             /\ u[k].data = IF k = f THEN new ELSE t[k].data
             /\ u[k].size = IF k = f THEN s ELSE t[k].size
  BY <1>2 DEF Entry
<1>4. TreeOK(u)
  BY <1>1, <1>3 DEF TreeOK
<1> QED
  BY <1>1, <1>3, <1>4 DEF u

-----------------------------------------------------------------------------
(* Lemmas about the heap *)

\* A copy into a buffer keeps the buffers and their capacities.
LEMMA PokeOK ==
  ASSUME NEW m, HeapOK(m), NEW b, NEW off \in Nat, NEW s \in Seq(Cells)
  PROVE  /\ HeapOK(Poke(m, b, off, s))
         /\ DOMAIN Poke(m, b, off, s) = DOMAIN m
         /\ \A c \in DOMAIN m :
              /\ Len(Poke(m, b, off, s)[c]) = Len(m[c])
              /\ c # b => Poke(m, b, off, s)[c] = m[c]
<1>1. DOMAIN Poke(m, b, off, s) = DOMAIN m
  BY DEF Poke
<1>2. ASSUME NEW c \in DOMAIN m
      PROVE  /\ Poke(m, b, off, s)[c] \in Seq(Cells) /\ Len(Poke(m, b, off, s)[c]) = Len(m[c])
             /\ c # b => Poke(m, b, off, s)[c] = m[c]
  <2>1. m[c] \in Seq(Cells) /\ Len(m[c]) \in Nat
    BY DEF HeapOK
  <2>2. CASE c = b
    <3> DEFINE f == [i \in 1 .. Len(m[c]) |-> IF i - off \in 1 .. Len(s) THEN s[i - off] ELSE m[c][i]]
    <3>1. Poke(m, b, off, s)[c] = f
      BY <2>2 DEF Poke
    <3>2. \A i \in 1 .. Len(m[c]) : f[i] \in Cells
      BY <2>1
    <3>3. f \in [1 .. Len(m[c]) -> Cells]
      BY <3>2
    <3> HIDE DEF f
    <3>4. f \in Seq(Cells) /\ Len(f) = Len(m[c])
      BY <2>1, <3>3
    <3> QED
      BY <2>2, <3>1, <3>4
  <2>3. CASE c # b
    <3>1. Poke(m, b, off, s)[c] = m[c]
      BY <2>3 DEF Poke
    <3> QED
      BY <2>1, <3>1
  <2> QED
    BY <2>2, <2>3
<1> QED
  BY <1>1, <1>2 DEF HeapOK

\* What memset writes is a sequence of zero bytes.
LEMMA ZerosOK ==
  ASSUME NEW n \in Nat
  PROVE  Zeros(n) \in Seq(Cells)
<1>1. Zeros(n) \in [1 .. n -> Cells]
  BY DEF Zeros, Cells
<1> QED
  BY <1>1

\* kfree leaves the other buffers as they are.
LEMMA FreeOK ==
  ASSUME NEW m, HeapOK(m), NEW B
  PROVE  /\ HeapOK(Free(m, B))
         /\ DOMAIN Free(m, B) = DOMAIN m \ B
         /\ \A b \in DOMAIN m \ B : Free(m, B)[b] = m[b]
BY DEF Free, HeapOK

\* krealloc frees the old buffer, keeps it, or moves to one that nothing uses;
\* what it returns has room for what was asked, and no other buffer changes.
LEMMA KreallocOK ==
  ASSUME HeapOK(mem), NEW p \in Pointers, NEW n \in Sizes, NEW r \in Krealloc(p, n)
  PROVE  /\ r.ptr \in Pointers \ {NULL}
         /\ HeapOK(r.mem)
         /\ r.ptr \in Buffers => r.ptr \in DOMAIN r.mem /\ n <= Len(r.mem[r.ptr])
         /\ r.ptr \notin Buffers => n = 0
         /\ r.ptr = p \/ r.ptr \in Fresh \/ r.ptr = ZERO
         /\ r.ptr = p /\ p \in DOMAIN mem => r.mem = mem
         /\ \A b \in DOMAIN mem \ {p} : b \in DOMAIN r.mem /\ r.mem[b] = mem[b]
         /\ DOMAIN r.mem \subseteq DOMAIN mem \cup {r.ptr}
         /\ r.ptr # p => p \notin DOMAIN r.mem
<1> USE HeapAssumption
<1>1. CASE n = 0
  <2>1. r.ptr = ZERO /\ r.mem = Free(mem, {p})
    BY <1>1 DEF Krealloc
  <2>3. DOMAIN Free(mem, {p}) = DOMAIN mem \ {p}
    BY FreeOK
  <2>2. HeapOK(Free(mem, {p})) /\ \A b \in DOMAIN mem \ {p} :
          b \in DOMAIN Free(mem, {p}) /\ Free(mem, {p})[b] = mem[b]
    BY FreeOK
  <2> QED
    BY <1>1, <2>1, <2>2, <2>3, Zenon DEF Pointers, HeapOK
<1>2. CASE n # 0 /\ p \in DOMAIN mem /\ n <= Len(mem[p])
  <2>1. r.ptr = p /\ r.mem = mem
    BY <1>2 DEF Krealloc
  <2> QED
    BY <1>2, <2>1 DEF HeapOK, Pointers
<1>3. CASE n # 0 /\ ~ (p \in DOMAIN mem /\ n <= Len(mem[p]))
  <2> DEFINE moved == [i \in 1 .. SizeClass[n] |->
                        IF p \in DOMAIN mem /\ i <= Len(mem[p]) THEN mem[p][i] ELSE Junk]
             heap(b) == [c \in (DOMAIN mem \ {p}) \cup {b} |-> IF c # b THEN mem[c] ELSE moved]
  <2>1. Krealloc(p, n) = {[ptr |-> b, mem |-> heap(b)] : b \in Fresh}
    BY <1>3, Zenon DEF Krealloc
  <2>2. PICK b \in Fresh : r = [ptr |-> b, mem |-> heap(b)]
    BY <2>1
  <2>3. r.ptr = b /\ r.mem = heap(b)
    BY <2>2
  <2>4. SizeClass[n] \in Nat /\ n <= SizeClass[n]
    BY <1>3, SizeAssumption DEF Sizes
  <2>5. moved \in Seq(Cells) /\ Len(moved) = SizeClass[n]
    <3>1. \A i \in 1 .. SizeClass[n] :
            (IF p \in DOMAIN mem /\ i <= Len(mem[p]) THEN mem[p][i] ELSE Junk) \in Cells
      BY <2>4 DEF HeapOK, Cells
    <3>2. moved \in [1 .. SizeClass[n] -> Cells]
      BY <3>1
    <3> HIDE DEF moved
    <3> QED
      BY <2>4, <3>2
  <2>6. b \in Buffers /\ b \notin DOMAIN mem /\ b # NULL
    BY DEF Fresh
  <2> HIDE DEF moved
  <2>7. /\ DOMAIN r.mem = (DOMAIN mem \ {p}) \cup {b}
        /\ r.mem[b] = moved
        /\ \A c \in DOMAIN mem \ {p} : r.mem[c] = mem[c]
    BY <2>3, <2>6
  <2>8. HeapOK(r.mem)
    BY <2>5, <2>6, <2>7 DEF HeapOK
  <2> QED
    BY <2>3, <2>4, <2>5, <2>6, <2>7, <2>8 DEF Pointers
<1> QED
  BY <1>1, <1>2, <1>3

\* krealloc keeps the bytes that the old buffer has.
LEMMA Realloced ==
  ASSUME HeapOK(mem), NEW p \in DOMAIN mem, NEW n \in Sizes, n > 0, NEW r \in Krealloc(p, n),
         NEW i \in 1 .. n, i <= Len(mem[p])
  PROVE  r.mem[r.ptr][i] = mem[p][i]
<1>1. CASE n <= Len(mem[p])
  BY <1>1 DEF Krealloc
<1>2. CASE ~ (n <= Len(mem[p]))
  <2> DEFINE moved == [j \in 1 .. SizeClass[n] |->
                        IF p \in DOMAIN mem /\ j <= Len(mem[p]) THEN mem[p][j] ELSE Junk]
             heap(b) == [c \in (DOMAIN mem \ {p}) \cup {b} |-> IF c # b THEN mem[c] ELSE moved]
  <2>1. Krealloc(p, n) = {[ptr |-> b, mem |-> heap(b)] : b \in Fresh}
    <3>1. n # 0
      BY DEF Sizes
    <3> QED
      BY <1>2, <3>1, Zenon DEF Krealloc
  <2>2. PICK b \in Fresh : r = [ptr |-> b, mem |-> heap(b)]
    BY <2>1
  <2>3. n \in 1 .. MaxSize /\ SizeClass[n] \in Nat /\ SizeClass[n] >= n
    BY SizeAssumption DEF Sizes
  <2>4. i \in 1 .. SizeClass[n]
    BY <2>3
  <2>5. moved[i] = mem[p][i]
    BY <2>4
  <2> HIDE DEF moved
  <2>6. r.mem[r.ptr] = moved
    BY <2>2
  <2> QED
    BY <2>5, <2>6
<1> QED
  BY <1>1, <1>2

-----------------------------------------------------------------------------
(* What each handler does to the tree *)

\* Every entry lies in a directory of the tree; a directory's inode number is
\* above that of the directory it lies in.
DirTree(t) ==
  \A k \in DOMAIN t :
    /\ k[1] = RootIno \/ \E l \in DOMAIN t : t[l].ino = k[1] /\ t[l].dir
    /\ t[k].dir => k[1] < t[k].ino

\* NlinkExact, of any tree.
LinksIn(t, x) == {k \in DOMAIN t : t[k].ino = x}
NlinkIn(t) == \A k \in DOMAIN t : t[k].nlink = Cardinality(LinksIn(t, t[k].ino))

\* The same entries, with the same inode numbers and places.
SameOrder(u, t) ==
  /\ DOMAIN u = DOMAIN t
  /\ \A k \in DOMAIN t : u[k].at = t[k].at /\ u[k].ino = t[k].ino

\* The inductive invariant of the name space.
NameInv ==
  /\ TypeOK
  /\ IsFiniteSet(DOMAIN ent)
  /\ \A k \in DOMAIN ent : ent[k].ino < nextIno
  /\ DirNames(ent)
  /\ DirTree(ent)
  /\ NlinkExact

\* The invariant of the names speaks of each entry of the tree.
LEMMA NameInvTree ==
  ASSUME NameInv
  PROVE  TreeOK(ent) /\ HeapOK(mem)
BY DEF NameInv, TypeOK, TreeOK, HeapOK

\* vtfs_create and vtfs_mkdir add one entry with a new inode number, or none.
LEMMA MakeEffect ==
  ASSUME NameInv, NEW k \in Keys, NEW isDir \in BOOLEAN, Make(k, isDir)
  PROVE  /\ TreeOK(ent')
         /\ nextIno' = nextIno + 1 /\ nextIno <= LastIno
         /\ k[1] = RootIno \/ \E l \in DOMAIN ent : ent[l].ino = k[1] /\ ent[l].dir
         /\ k \notin DOMAIN ent
         /\ NewEntry(k, isDir) \in Entry
         /\ \/ ent' = ent
            \/ /\ DOMAIN ent' = DOMAIN ent \cup {k}
               /\ ent'[k] = NewEntry(k, isDir)
               /\ \A l \in DOMAIN ent : SameBody(ent'[l], ent[l])
<1>1. TreeOK(ent) /\ DirNames(ent)
  BY NameInvTree DEF NameInv
<1>2. k[1] = RootIno \/ \E l \in DOMAIN ent : ent[l].ino = k[1] /\ ent[l].dir
  BY <1>1, IsDirIff DEF Make
<1>3. nextIno \in Inos /\ nextIno <= LastIno
  BY InoAssumption DEF NameInv, TypeOK, Make, Inos
<1>4. NewEntry(k, isDir) \in Entry
  <2>1. Place(k[1]) \in Nat
    BY <1>1, PlaceIsNat
  <2>2. 0 \in Sizes /\ NULL \in Pointers
    BY SizeAssumption DEF Sizes, Pointers
  <2> QED
    BY <1>3, <2>1, <2>2 DEF NewEntry, Entry
<1>5. k \notin DOMAIN ent
  BY DEF Make
<1>6. CASE ent' = With(ent, k, NewEntry(k, isDir))
  BY <1>1, <1>2, <1>3, <1>4, <1>5, <1>6, WithOK DEF Make
<1>7. CASE ent' = ent
  BY <1>1, <1>2, <1>3, <1>4, <1>5, <1>7 DEF Make
<1> QED
  BY <1>6, <1>7 DEF Make

\* vtfs_link adds one entry that is the first entry's twin, and counts it.
LEMMA LinkEffect ==
  ASSUME NameInv, NEW k \in Keys, NEW x \in Inos, Link(k, x)
  PROVE  /\ TreeOK(ent')
         /\ k[1] = RootIno \/ \E l \in DOMAIN ent : ent[l].ino = k[1] /\ ent[l].dir
         /\ k \notin DOMAIN ent
         /\ First(x) \in DOMAIN ent /\ ent[First(x)].ino = x /\ ~ent[First(x)].dir
         /\ DOMAIN ent' = DOMAIN ent \cup {k}
         /\ ent'[k].ino = x /\ ent'[k].dir = ent[First(x)].dir
         /\ ent'[k].nlink = ent[First(x)].nlink + 1
         /\ ent'[k].data = ent[First(x)].data /\ ent'[k].size = ent[First(x)].size
         /\ \A l \in DOMAIN ent :
              /\ ent'[l].ino = ent[l].ino /\ ent'[l].dir = ent[l].dir
              /\ ent'[l].data = ent[l].data /\ ent'[l].size = ent[l].size
              /\ ent'[l].nlink = IF ent[l].ino = x THEN ent[First(x)].nlink + 1 ELSE ent[l].nlink
         /\ \E e \in Entry : /\ e.ino = x /\ e.at = Place(k[1])
                            /\ SameOrder(ent', With(ent, k, e))
<1>1. TreeOK(ent) /\ DirNames(ent)
  BY NameInvTree DEF NameInv
<1>2. k[1] = RootIno \/ \E l \in DOMAIN ent : ent[l].ino = k[1] /\ ent[l].dir
  BY <1>1, IsDirIff DEF Link
<1>3. k \notin DOMAIN ent /\ LinksOf(x) # {} /\ ~ent[First(x)].dir
  BY DEF Link, RegularFiles
<1>4. First(x) \in DOMAIN ent /\ ent[First(x)].ino = x
  BY <1>1, <1>3, FirstIsALink
<1> DEFINE e == ent[First(x)]
           twin == [e EXCEPT !.at = Place(k[1])]
           t == With(ent, k, twin)
<1>5. e \in Entry /\ twin \in Entry /\ SameBody(twin, e) /\ twin.at = Place(k[1])
  <2>1. e \in Entry /\ Place(k[1]) \in Nat
    BY <1>1, <1>4, PlaceIsNat DEF TreeOK
  <2> HIDE DEF e
  <2> QED
    BY <2>1 DEF Entry, SameBody
<1>6. ent' = SetNlink(t, x, e.nlink + 1)
  BY DEF Link
<1> HIDE DEF twin
<1>7. /\ TreeOK(t) /\ DOMAIN t = DOMAIN ent \cup {k} /\ t[k] = twin
      /\ \A l \in DOMAIN ent : SameBody(t[l], ent[l])
  <2>1. TreeOK(ent) /\ k \notin DOMAIN ent /\ twin \in Entry
    BY <1>1, <1>3, <1>5
  <2> QED
    BY <2>1, WithOK
<1>8. e.nlink + 1 \in Nat \ {0}
  BY <1>5 DEF Entry
<1> HIDE DEF t
<1>9. /\ TreeOK(ent') /\ DOMAIN ent' = DOMAIN t
      /\ \A l \in DOMAIN t :
           /\ ent'[l].nlink = IF t[l].ino = x THEN e.nlink + 1 ELSE t[l].nlink
           /\ ent'[l].ino = t[l].ino /\ ent'[l].dir = t[l].dir
           /\ ent'[l].data = t[l].data /\ ent'[l].size = t[l].size
           /\ ent'[l].at = t[l].at
  BY <1>6, <1>7, <1>8, SetNlinkOK
<1>10. twin.ino = x /\ SameOrder(ent', With(ent, k, twin))
  BY <1>4, <1>5, <1>9 DEF SameBody, SameOrder, t
<1> HIDE DEF e
<1> QED
  BY <1>2, <1>3, <1>4, <1>5, <1>7, <1>9, <1>10 DEF SameBody, e

\* vtfs_unlink removes one name, and the count of the others says so.
LEMMA UnlinkEffect ==
  ASSUME NameInv, NEW k \in Keys, Unlink(k)
  PROVE  LET x == ent[k].ino IN
         /\ TreeOK(ent')
         /\ k \in DOMAIN ent /\ ~ent[k].dir
         /\ DOMAIN ent' = DOMAIN ent \ {k}
         /\ \A l \in DOMAIN ent \ {k} :
              /\ ent'[l].ino = ent[l].ino /\ ent'[l].dir = ent[l].dir
              /\ ent'[l].data = ent[l].data /\ ent'[l].size = ent[l].size
              /\ ent'[l].nlink = IF ent[l].ino = x THEN ent[l].nlink - 1 ELSE ent[l].nlink
         /\ ent[k].nlink = 1 => LinksOf(x) = {k} /\ mem' = Free(mem, {ent[k].data})
         /\ ent[k].nlink # 1 => mem' = mem
         /\ \E t : TreeOK(t) /\ SameOrder(t, ent) /\ ent' = Without(t, {k})
<1> DEFINE x == ent[k].ino
           n == ent[First(x)].nlink - 1
<1>1. TreeOK(ent) /\ NlinkExact
  BY NameInvTree DEF NameInv
<1>2. k \in DOMAIN ent /\ ~ent[k].dir
  BY DEF Unlink
<1>3. k \in LinksOf(x)
  BY <1>2 DEF LinksOf
<1>4. First(x) \in DOMAIN ent /\ ent[First(x)].ino = x
  BY <1>1, <1>3, FirstIsALink
<1>5. \A l \in LinksOf(x) : ent[l].nlink = n + 1
  <2>1. \A l \in LinksOf(x) : ent[l].nlink = ent[First(x)].nlink
    BY <1>1, <1>4 DEF NlinkExact, LinksOf
  <2>2. ent[First(x)].nlink \in Nat
    BY <1>1, <1>4 DEF TreeOK, Entry
  <2> QED
    BY <2>1, <2>2
<1>6. n \in Nat /\ n = ent[k].nlink - 1
  BY <1>1, <1>3, <1>4, <1>5 DEF TreeOK, Entry
<1>7. /\ ent' = Without(SetNlink(ent, x, n), IF n = 0 THEN LinksOf(x) ELSE {k})
      /\ mem' = IF n = 0 THEN Free(mem, {ent[k].data}) ELSE mem
  BY DEF Unlink
<1> HIDE DEF n
<1>8. CASE n = 0
  <2>1. LinksOf(x) = {k}
    <3>1. Cardinality(LinksOf(x)) = 1
      BY <1>2, <1>1, <1>6, <1>8 DEF NlinkExact, TreeOK, Entry
    <3>2. IsFiniteSet(LinksOf(x))
      BY <1>1, FS_Subset DEF TreeOK, LinksOf
    <3>3. PICK y : LinksOf(x) = {y}
      BY <3>1, <3>2, FS_Singleton
    <3> QED
      BY <1>3, <3>3
  <2>2. Without(SetNlink(ent, x, n), {k}) = Without(ent, {k})
    <3> DEFINE t == SetNlink(ent, x, n)
    <3>1. DOMAIN t = DOMAIN ent
      BY DEF SetNlink
    <3>2. \A l \in DOMAIN ent \ {k} : t[l] = ent[l]
      BY <2>1 DEF SetNlink, LinksOf
    <3> HIDE DEF t
    <3>3. \A l \in DOMAIN ent \ {k} :
            {m \in DOMAIN t \ {k} : t[m].at <= t[l].at}
              = {m \in DOMAIN ent \ {k} : ent[m].at <= ent[l].at}
      BY <3>1, <3>2
    <3>4. Without(t, {k}) = Without(ent, {k})
      BY <3>1, <3>2, <3>3 DEF Without
    <3> QED
      BY <3>4 DEF t
  <2>3. ent' = Without(ent, {k})
    BY <1>7, <1>8, <2>1, <2>2
  <2>4. /\ TreeOK(ent') /\ DOMAIN ent' = DOMAIN ent \ {k}
        /\ \A l \in DOMAIN ent \ {k} : SameBody(ent'[l], ent[l])
    BY <1>1, <2>3, WithoutOK
  <2>5. \A l \in DOMAIN ent \ {k} : ent[l].ino # x
    BY <2>1 DEF LinksOf
  <2>6. ent[k].nlink = 1 /\ mem' = Free(mem, {ent[k].data})
    BY <1>1, <1>2, <1>6, <1>7, <1>8 DEF TreeOK, Entry
  <2>7. \A l \in DOMAIN ent \ {k} :
          /\ ent'[l].ino = ent[l].ino /\ ent'[l].dir = ent[l].dir
          /\ ent'[l].data = ent[l].data /\ ent'[l].size = ent[l].size
          /\ ent'[l].nlink = IF ent[l].ino = x THEN ent[l].nlink - 1 ELSE ent[l].nlink
    BY <2>4, <2>5 DEF SameBody
  <2>8. TreeOK(ent) /\ SameOrder(ent, ent) /\ ent' = Without(ent, {k})
    BY <1>1, <2>3 DEF SameOrder
  <2> QED
    BY <1>2, <2>1, <2>4, <2>6, <2>7, <2>8
<1>9. CASE n # 0
  <2> DEFINE t == SetNlink(ent, x, n)
  <2>1. n \in Nat \ {0}
    BY <1>6, <1>9
  <2>2. /\ TreeOK(t) /\ DOMAIN t = DOMAIN ent
        /\ \A l \in DOMAIN ent :
             /\ t[l].nlink = IF ent[l].ino = x THEN n ELSE ent[l].nlink
             /\ t[l].ino = ent[l].ino /\ t[l].dir = ent[l].dir
             /\ t[l].data = ent[l].data /\ t[l].size = ent[l].size
             /\ t[l].at = ent[l].at
    BY <1>1, <2>1, SetNlinkOK
  <2>3. ent' = Without(t, {k}) /\ mem' = mem
    BY <1>7, <1>9
  <2> HIDE DEF t
  <2> DEFINE u == Without(t, {k})
  <2>7. TreeOK(u) /\ DOMAIN u = DOMAIN t \ {k} /\ \A l \in DOMAIN t \ {k} : SameBody(u[l], t[l])
    BY <2>2, WithoutOK
  <2> HIDE DEF u
  <2>4. /\ TreeOK(ent') /\ DOMAIN ent' = DOMAIN ent \ {k}
        /\ \A l \in DOMAIN ent \ {k} : SameBody(ent'[l], t[l])
    BY <2>2, <2>3, <2>7 DEF u
  <2>5. \A l \in DOMAIN ent \ {k} :
          ent'[l].nlink = IF ent[l].ino = x THEN ent[l].nlink - 1 ELSE ent[l].nlink
    BY <1>1, <1>5, <1>6, <2>2, <2>4 DEF SameBody, LinksOf, TreeOK, Entry
  <2>6. ent[k].nlink # 1
    BY <1>1, <1>2, <1>6, <1>9 DEF TreeOK, Entry
  <2>8. \A l \in DOMAIN ent \ {k} :
          /\ ent'[l].ino = ent[l].ino /\ ent'[l].dir = ent[l].dir
          /\ ent'[l].data = ent[l].data /\ ent'[l].size = ent[l].size
    BY <2>2, <2>4 DEF SameBody
  <2>9. TreeOK(t) /\ SameOrder(t, ent) /\ ent' = Without(t, {k})
    BY <2>2, <2>3 DEF SameOrder
  <2> QED
    BY <1>2, <2>3, <2>4, <2>5, <2>6, <2>8, <2>9
<1> QED
  BY <1>8, <1>9

\* vtfs_rmdir removes one directory that nothing lies in.
LEMMA RmdirEffect ==
  ASSUME NameInv, NEW k \in Keys, Rmdir(k)
  PROVE  /\ TreeOK(ent')
         /\ k \in DOMAIN ent /\ ent[k].dir
         /\ \A l \in DOMAIN ent : l[1] # ent[k].ino
         /\ DOMAIN ent' = DOMAIN ent \ {k}
         /\ \A l \in DOMAIN ent \ {k} : SameBody(ent'[l], ent[l])
<1>1. TreeOK(ent)
  BY NameInvTree
<1> QED
  BY <1>1, WithoutOK DEF Rmdir

-----------------------------------------------------------------------------
(* What the handlers on data do *)

HeapInv == NoDangling /\ OneOwner /\ SizeFits

\* Some links of x get a pointer and a size.  The pointer is the first entry's
\* own, one that nobody has, or no buffer; a buffer that is given up is given
\* up by all of its links; the other buffers keep their capacity.
DataStep(x, M, ptr, s) ==
  LET old == ent[First(x)].data IN
  /\ TreeOK(ent') /\ HeapOK(mem') /\ ptr \in Pointers
  /\ M \subseteq LinksOf(x)
  /\ DOMAIN ent' = DOMAIN ent
  /\ \A l \in DOMAIN ent :
       /\ ent'[l].ino = ent[l].ino /\ ent'[l].dir = ent[l].dir /\ ent'[l].nlink = ent[l].nlink
       /\ ent'[l].at = ent[l].at
       /\ ent'[l].data = IF l \in M THEN ptr ELSE ent[l].data
       /\ ent'[l].size = IF l \in M THEN s ELSE ent[l].size
  /\ ptr = old \/ ptr \in Fresh \/ ptr \notin Buffers
  /\ ptr \in Buffers => ptr \in DOMAIN mem' /\ s <= Len(mem'[ptr])
  /\ ptr \notin Buffers => s = 0
  /\ \A b \in DOMAIN mem : b # old \/ ptr = old => b \in DOMAIN mem' /\ Len(mem'[b]) = Len(mem[b])
  /\ ptr # old /\ old \in Buffers => \A l \in LinksOf(x) : ent[l].data = old => l \in M
  /\ \A b \in DOMAIN mem \ {old} : mem'[b] = mem[b]
  /\ DOMAIN mem' \subseteq DOMAIN mem \cup {ptr}
  /\ ptr # old => First(x) \in M /\ old \notin DOMAIN mem'

\* vtfs_find_file_by_ino finds an entry of each regular file.
LEMMA FileFirst ==
  ASSUME TreeOK(ent), NEW x \in RegularFiles
  PROVE  /\ First(x) \in LinksOf(x) /\ First(x) \in DOMAIN ent /\ ent[First(x)].ino = x
         /\ ent[First(x)] \in Entry /\ ent[First(x)].size \in Nat
         /\ ent[First(x)].data \in Pointers
<1>1. TreeOK(ent) /\ LinksOf(x) # {}
  BY DEF RegularFiles
<1>2. First(x) \in LinksOf(x) /\ First(x) \in DOMAIN ent /\ ent[First(x)].ino = x
  BY <1>1, FirstIsALink
<1>3. ent[First(x)] \in Entry
  BY <1>1, <1>2 DEF TreeOK
<1> QED
  BY <1>2, <1>3 DEF Entry, Sizes

\* What the first entry gets from an update of all links or of itself.
LEMMA FirstUpdated ==
  ASSUME TreeOK(ent), NEW x \in RegularFiles, NEW ptr \in Pointers, NEW n \in Sizes,
         \/ ent' = UpdateDataAll(ent, x, ent[First(x)].data, ptr, n)
         \/ ent' = UpdateOne(ent, First(x), ptr, n)
  PROVE  ent'[First(x)].data = ptr /\ ent'[First(x)].size = n
<1>1. TreeOK(ent) /\ First(x) \in DOMAIN ent /\ ent[First(x)].ino = x
      /\ ent[First(x)].data \in Pointers
  BY FileFirst
<1>2. CASE ent' = UpdateDataAll(ent, x, ent[First(x)].data, ptr, n)
  BY <1>1, <1>2, UpdateDataAllOK
<1>3. CASE ent' = UpdateOne(ent, First(x), ptr, n)
  BY <1>1, <1>3, UpdateOneOK
<1> QED
  BY <1>2, <1>3

\* The same from the invariant of the names.
LEMMA RegularFirst ==
  ASSUME NameInv, NEW x \in RegularFiles
  PROVE  /\ First(x) \in LinksOf(x) /\ First(x) \in DOMAIN ent /\ ent[First(x)].ino = x
         /\ ent[First(x)] \in Entry /\ ent[First(x)].size \in Nat
         /\ ent[First(x)].data \in Pointers
BY NameInvTree, FileFirst

\* The first entry of x, when it has data, points to no freed memory and claims
\* no more bytes than its buffer holds.  Steps on data ask no more than that.
FirstFits(x) ==
  LET e == ent[First(x)] IN
  /\ e.data \in Buffers => e.data \in DOMAIN mem
  /\ e.data # NULL => e.size <= IF e.data \in DOMAIN mem THEN Len(mem[e.data]) ELSE 0

\* In RAM mode every entry is like that.
LEMMA AllFit ==
  ASSUME NameInv, HeapInv, NEW x \in RegularFiles
  PROVE  TreeOK(ent) /\ HeapOK(mem) /\ FirstFits(x)
BY NameInvTree, RegularFirst DEF HeapInv, NoDangling, SizeFits, FirstFits

\* krealloc, then the update of all links with the old pointer or of the first
\* entry alone when the pointer stays or was null, then copies into the buffer.
LEMMA ReallocStep ==
  ASSUME TreeOK(ent), HeapOK(mem), NEW x \in RegularFiles, NEW n \in Sizes,
         NEW r \in Krealloc(ent[First(x)].data, n),
         \/ ent' = UpdateDataAll(ent, x, ent[First(x)].data, r.ptr, n)
         \/ /\ ent' = UpdateOne(ent, First(x), r.ptr, n)
            /\ r.ptr = ent[First(x)].data \/ ent[First(x)].data = NULL,
         HeapOK(mem'), DOMAIN mem' = DOMAIN r.mem,
         \A b \in DOMAIN r.mem : Len(mem'[b]) = Len(r.mem[b]) /\ (b # r.ptr => mem'[b] = r.mem[b])
  PROVE  \E M, ptr, s : DataStep(x, M, ptr, s)
<1> DEFINE f == First(x)
           old == ent[f].data
<1>1. TreeOK(ent) /\ HeapOK(mem)
  OBVIOUS
<1>2. f \in LinksOf(x) /\ f \in DOMAIN ent /\ ent[f].ino = x /\ old \in Pointers
  BY FileFirst
<1> HIDE DEF f
<1>3. /\ r.ptr \in Pointers \ {NULL}
      /\ r.ptr \in Buffers => r.ptr \in DOMAIN r.mem /\ n <= Len(r.mem[r.ptr])
      /\ r.ptr \notin Buffers => n = 0
      /\ r.ptr = old \/ r.ptr \in Fresh \/ r.ptr = ZERO
      /\ r.ptr = old /\ old \in DOMAIN mem => r.mem = mem
      /\ \A b \in DOMAIN mem \ {old} : b \in DOMAIN r.mem /\ r.mem[b] = mem[b]
      /\ DOMAIN r.mem \subseteq DOMAIN mem \cup {r.ptr}
      /\ r.ptr # old => old \notin DOMAIN r.mem
  BY <1>1, <1>2, KreallocOK DEF f
<1>4. /\ r.ptr = old \/ r.ptr \in Fresh \/ r.ptr \notin Buffers
      /\ r.ptr \in Buffers => r.ptr \in DOMAIN mem' /\ n <= Len(mem'[r.ptr])
      /\ \A b \in DOMAIN mem : b # old \/ r.ptr = old
            => b \in DOMAIN mem' /\ Len(mem'[b]) = Len(mem[b])
      /\ \A b \in DOMAIN mem \ {old} : mem'[b] = mem[b]
      /\ DOMAIN mem' \subseteq DOMAIN mem \cup {r.ptr}
      /\ r.ptr # old => old \notin DOMAIN mem'
  <2>1. r.ptr \notin DOMAIN mem \ {old}
    BY <1>1, <1>3, HeapAssumption DEF Fresh, HeapOK
  <2> QED
    BY <1>3, <2>1, HeapAssumption
<1>5. CASE ent' = UpdateDataAll(ent, x, old, r.ptr, n)
  <2> DEFINE M == {l \in LinksOf(x) : ent[l].data = old}
  <2>1. /\ TreeOK(ent') /\ DOMAIN ent' = DOMAIN ent
        /\ \A l \in DOMAIN ent :
             /\ ent'[l].ino = ent[l].ino /\ ent'[l].dir = ent[l].dir /\ ent'[l].nlink = ent[l].nlink
             /\ ent'[l].at = ent[l].at
             /\ ent'[l].data = IF ent[l].ino = x /\ ent[l].data = old THEN r.ptr ELSE ent[l].data
             /\ ent'[l].size = IF ent[l].ino = x /\ ent[l].data = old THEN n ELSE ent[l].size
    BY <1>1, <1>3, <1>5, UpdateDataAllOK
  <2>2. \A l \in DOMAIN ent : l \in M <=> ent[l].ino = x /\ ent[l].data = old
    BY DEF LinksOf
  <2>3. /\ M \subseteq LinksOf(x) /\ \A l \in LinksOf(x) : ent[l].data = old => l \in M
        /\ f \in M
    BY <1>2
  <2> HIDE DEF M
  <2>4. DataStep(x, M, r.ptr, n)
    BY <1>3, <1>4, <2>1, <2>2, <2>3 DEF DataStep, f
  <2> QED
    BY <2>4
<1>6. CASE ent' = UpdateOne(ent, f, r.ptr, n) /\ (r.ptr = old \/ old = NULL)
  <2>1. /\ TreeOK(ent') /\ DOMAIN ent' = DOMAIN ent
        /\ \A l \in DOMAIN ent :
             /\ ent'[l].ino = ent[l].ino /\ ent'[l].dir = ent[l].dir /\ ent'[l].nlink = ent[l].nlink
             /\ ent'[l].at = ent[l].at
             /\ ent'[l].data = IF l = f THEN r.ptr ELSE ent[l].data
             /\ ent'[l].size = IF l = f THEN n ELSE ent[l].size
    BY <1>1, <1>2, <1>3, <1>6, UpdateOneOK
  <2>2. r.ptr # old => old \notin Buffers
    BY <1>6, HeapAssumption
  <2>3. DataStep(x, {f}, r.ptr, n)
    BY <1>2, <1>3, <1>4, <2>1, <2>2 DEF DataStep, f
  <2> QED
    BY <2>3
<1> QED
  BY <1>5, <1>6 DEF f

\* What vtfs_write does to the tree and the heap, copied bytes or not.
LEMMA WriteStep ==
  ASSUME TreeOK(ent), HeapOK(mem), NEW x \in Inos, FirstFits(x), NEW append \in BOOLEAN, NEW o \in Sizes,
         NEW p \in Payloads, Write(x, append, o, p)
  PROVE  x \in RegularFiles /\ \E M, ptr, s : DataStep(x, M, ptr, s)
<1> DEFINE f   == First(x)
           old == ent[f].data
           off == IF append THEN ent[f].size ELSE o
           n   == off + Len(p)
           grow == n > ent[f].size \/ old = NULL
           gap == IF grow /\ off > ent[f].size THEN off - ent[f].size ELSE 0
           zeroed(r) == Poke(r.mem, r.ptr, ent[f].size, Zeros(gap))
<1>1. x \in RegularFiles
  BY DEF Write, WriteFile
<1>2. TreeOK(ent) /\ HeapOK(mem)
  OBVIOUS
<1>3. /\ f \in LinksOf(x) /\ f \in DOMAIN ent /\ ent[f].ino = x
      /\ ent[f].size \in Nat /\ old \in Pointers
  BY <1>1, FileFirst
<1>4. p \in Seq(Cells) /\ Len(p) \in Nat
  BY HeapAssumption
<1>5. n <= MaxSize
  BY DEF Write, WriteFile
<1>6. PICK r \in IF grow THEN Krealloc(old, n) ELSE {[ptr |-> old, mem |-> mem]} :
         /\ ent' = IF ~grow THEN ent
                   ELSE IF old # NULL /\ old # r.ptr
                        THEN UpdateDataAll(ent, x, old, r.ptr, n)
                        ELSE UpdateOne(ent, f, r.ptr, n)
         /\ mem' = Poke(zeroed(r), r.ptr, off, p) \/ mem' = zeroed(r)
  BY Zenon DEF Write, WriteFile
<1> HIDE DEF f
<1>7. off \in Nat /\ n \in Sizes /\ gap \in Nat
  BY <1>3, <1>4, <1>5, SizeAssumption DEF Sizes
<1>8. Zeros(gap) \in Seq(Cells)
  BY <1>7, ZerosOK
<1> HIDE DEF off, gap
<1>9. ASSUME HeapOK(r.mem)
      PROVE  /\ HeapOK(mem') /\ DOMAIN mem' = DOMAIN r.mem
             /\ \A b \in DOMAIN r.mem : Len(mem'[b]) = Len(r.mem[b]) /\ (b # r.ptr => mem'[b] = r.mem[b])
  <2> DEFINE z == zeroed(r)
             w == Poke(z, r.ptr, off, p)
  <2>1. /\ HeapOK(z) /\ DOMAIN z = DOMAIN r.mem
        /\ \A b \in DOMAIN r.mem : Len(z[b]) = Len(r.mem[b]) /\ (b # r.ptr => z[b] = r.mem[b])
    <3>1. HeapOK(r.mem) /\ ent[f].size \in Nat /\ Zeros(gap) \in Seq(Cells)
      BY <1>3, <1>8, <1>9
    <3> QED
      BY <3>1, PokeOK
  <2> HIDE DEF z
  <2>3. /\ HeapOK(w) /\ DOMAIN w = DOMAIN z
        /\ \A b \in DOMAIN z : Len(w[b]) = Len(z[b]) /\ (b # r.ptr => w[b] = z[b])
    <3>1. HeapOK(z) /\ off \in Nat /\ p \in Seq(Cells)
      BY <1>4, <1>7, <2>1
    <3> QED
      BY <3>1, PokeOK
  <2> USE DEF z
  <2>2. mem' = w \/ mem' = z
    BY <1>6
  <2> HIDE DEF z, w
  <2> QED
    BY <2>1, <2>2, <2>3
<1>10. CASE grow
  <2>1. r \in Krealloc(old, n)
    BY <1>6, <1>10
  <2>2. HeapOK(r.mem)
    BY <1>2, <1>3, <1>7, <2>1, KreallocOK
  <2>3. \/ ent' = UpdateDataAll(ent, x, old, r.ptr, n)
        \/ ent' = UpdateOne(ent, f, r.ptr, n) /\ (r.ptr = old \/ old = NULL)
    BY <1>6, <1>10
  <2> HIDE DEF n
  <2>4. \E M, ptr, s : DataStep(x, M, ptr, s)
    BY <1>1, <1>7, <1>9, <2>1, <2>2, <2>3, ReallocStep DEF f
  <2> QED
    BY <1>1, <2>4
<1>11. CASE ~grow
  <2>1. r.ptr = old /\ r.mem = mem /\ ent' = ent
    BY <1>6, <1>11
  <2>2. /\ HeapOK(mem') /\ DOMAIN mem' = DOMAIN mem
        /\ \A b \in DOMAIN mem : Len(mem'[b]) = Len(mem[b]) /\ (b # old => mem'[b] = mem[b])
    BY <1>2, <1>9, <2>1
  <2>3. /\ old \in Buffers => old \in DOMAIN mem /\ ent[f].size <= Len(mem[old])
        /\ old \notin Buffers => ent[f].size = 0
    BY <1>2, <1>3, <1>11 DEF FirstFits, HeapOK, f
  <2>4. DataStep(x, {}, old, ent[f].size)
    BY <1>2, <1>3, <2>1, <2>2, <2>3 DEF DataStep, f
  <2> QED
    BY <1>1, <2>4
<1> QED
  BY <1>10, <1>11

\* What vtfs_setattr does to the tree and the heap.
LEMMA SetattrStep ==
  ASSUME TreeOK(ent), HeapOK(mem), NEW x \in Inos, NEW n \in Sizes, Setattr(x, n)
  PROVE  x \in RegularFiles /\ \E M, ptr, s : DataStep(x, M, ptr, s)
<1> DEFINE f   == First(x)
           old == ent[f].data
           gap == IF n > ent[f].size THEN n - ent[f].size ELSE 0
<1>1. x \in RegularFiles
  BY DEF Setattr
<1>2. TreeOK(ent) /\ HeapOK(mem)
  OBVIOUS
<1>3. f \in DOMAIN ent /\ ent[f].size \in Nat /\ old \in Pointers
  BY <1>1, FileFirst
<1>4. PICK r \in Krealloc(old, n) :
         /\ mem' = Poke(r.mem, r.ptr, ent[f].size, Zeros(gap))
         /\ ent' = IF old # r.ptr THEN UpdateDataAll(ent, x, old, r.ptr, n)
                   ELSE UpdateOne(ent, f, r.ptr, n)
  BY Zenon DEF Setattr
<1> HIDE DEF f
<1>5. gap \in Nat /\ n \in Nat
  BY <1>3 DEF Sizes
<1>6. Zeros(gap) \in Seq(Cells)
  BY <1>5, ZerosOK
<1>7. HeapOK(r.mem)
  BY <1>2, <1>3, KreallocOK
<1> HIDE DEF gap
<1>8. /\ HeapOK(mem') /\ DOMAIN mem' = DOMAIN r.mem
      /\ \A b \in DOMAIN r.mem : Len(mem'[b]) = Len(r.mem[b]) /\ (b # r.ptr => mem'[b] = r.mem[b])
  BY <1>3, <1>4, <1>6, <1>7, PokeOK
<1>9. \/ ent' = UpdateDataAll(ent, x, old, r.ptr, n)
      \/ ent' = UpdateOne(ent, f, r.ptr, n) /\ r.ptr = old
  BY <1>4
<1> QED
  BY <1>1, <1>8, <1>9, ReallocStep DEF f

\* What vtfs_open with O_TRUNC does to the tree and the heap.
LEMMA OpenTruncStep ==
  ASSUME TreeOK(ent), HeapOK(mem), NEW x \in Inos, OpenTrunc(x)
  PROVE  x \in RegularFiles /\ \E M, ptr, s : DataStep(x, M, ptr, s)
<1> DEFINE f   == First(x)
           old == ent[f].data
<1>1. x \in RegularFiles
  BY DEF OpenTrunc
<1>2. TreeOK(ent) /\ HeapOK(mem)
  OBVIOUS
<1>3. f \in LinksOf(x) /\ f \in DOMAIN ent /\ ent[f].ino = x /\ old \in Pointers
  BY <1>1, FileFirst
<1>4. /\ ent' = IF old # NULL THEN UpdateDataAll(ent, x, old, NULL, 0)
                ELSE UpdateOne(ent, f, NULL, 0)
      /\ mem' = Free(mem, {old})
  BY DEF OpenTrunc
<1> HIDE DEF f
<1>5. NULL \in Pointers /\ 0 \in Sizes /\ NULL \notin Buffers
  BY HeapAssumption, SizeAssumption DEF Pointers, Sizes
<1>6. /\ HeapOK(mem') /\ DOMAIN mem' = DOMAIN mem \ {old}
      /\ \A b \in DOMAIN mem \ {old} : mem'[b] = mem[b]
  BY <1>2, <1>4, FreeOK
<1>7. \A b \in DOMAIN mem : b # old \/ NULL = old
         => b \in DOMAIN mem' /\ Len(mem'[b]) = Len(mem[b])
  BY <1>2, <1>5, <1>6 DEF HeapOK
<1>8. CASE old # NULL
  <2> DEFINE M == {l \in LinksOf(x) : ent[l].data = old}
  <2>1. /\ TreeOK(ent') /\ DOMAIN ent' = DOMAIN ent
        /\ \A l \in DOMAIN ent :
             /\ ent'[l].ino = ent[l].ino /\ ent'[l].dir = ent[l].dir /\ ent'[l].nlink = ent[l].nlink
             /\ ent'[l].at = ent[l].at
             /\ ent'[l].data = IF ent[l].ino = x /\ ent[l].data = old THEN NULL ELSE ent[l].data
             /\ ent'[l].size = IF ent[l].ino = x /\ ent[l].data = old THEN 0 ELSE ent[l].size
    BY <1>2, <1>4, <1>5, <1>8, UpdateDataAllOK
  <2>2. \A l \in DOMAIN ent : l \in M <=> ent[l].ino = x /\ ent[l].data = old
    BY DEF LinksOf
  <2>3. /\ M \subseteq LinksOf(x) /\ \A l \in LinksOf(x) : ent[l].data = old => l \in M
        /\ f \in M
    BY <1>3
  <2> HIDE DEF M
  <2>4. DataStep(x, M, NULL, 0)
    BY <1>5, <1>6, <1>7, <2>1, <2>2, <2>3 DEF DataStep, f
  <2> QED
    BY <1>1, <2>4
<1>9. CASE old = NULL
  <2>1. /\ TreeOK(ent') /\ DOMAIN ent' = DOMAIN ent
        /\ \A l \in DOMAIN ent :
             /\ ent'[l].ino = ent[l].ino /\ ent'[l].dir = ent[l].dir /\ ent'[l].nlink = ent[l].nlink
             /\ ent'[l].at = ent[l].at
             /\ ent'[l].data = IF l = f THEN NULL ELSE ent[l].data
             /\ ent'[l].size = IF l = f THEN 0 ELSE ent[l].size
    BY <1>2, <1>3, <1>4, <1>5, <1>9, UpdateOneOK
  <2>2. DataStep(x, {f}, NULL, 0)
    BY <1>3, <1>5, <1>6, <1>7, <1>9, <2>1 DEF DataStep, f
  <2> QED
    BY <1>1, <2>2
<1> QED
  BY <1>8, <1>9

\* In RAM mode the invariant provides what these steps need.
LEMMA WriteEffect ==
  ASSUME NameInv, HeapInv, NEW x \in Inos, NEW append \in BOOLEAN, NEW o \in Sizes,
         NEW p \in Payloads, Write(x, append, o, p)
  PROVE  x \in RegularFiles /\ \E M, ptr, s : DataStep(x, M, ptr, s)
<1>1. x \in RegularFiles
  BY DEF Write, WriteFile
<1> QED
  BY <1>1, AllFit, WriteStep

\* The same for vtfs_setattr.
LEMMA SetattrEffect ==
  ASSUME NameInv, HeapInv, NEW x \in Inos, NEW n \in Sizes, Setattr(x, n)
  PROVE  x \in RegularFiles /\ \E M, ptr, s : DataStep(x, M, ptr, s)
BY NameInvTree, SetattrStep

\* The same for vtfs_open with O_TRUNC.
LEMMA OpenTruncEffect ==
  ASSUME NameInv, HeapInv, NEW x \in Inos, OpenTrunc(x)
  PROVE  x \in RegularFiles /\ \E M, ptr, s : DataStep(x, M, ptr, s)
BY NameInvTree, OpenTruncStep

-----------------------------------------------------------------------------
(* The inductive invariant *)

Inv == NameInv /\ HeapInv

\* The link count, stated with the links of the inode as a set.
LEMMA NlinkIff == NlinkExact <=> NlinkIn(ent)
BY DEF NlinkExact, NlinkIn, LinksIn, LinksOf

\* The invariant of the names after a step, stated of the tree after it.
LEMMA NameInvNext ==
  ASSUME TypeOK', TreeOK(ent'), \A k \in DOMAIN ent' : ent'[k].ino < nextIno',
         DirNames(ent'), DirTree(ent'), NlinkIn(ent')
  PROVE  NameInv'
<1>1. NlinkExact'
  BY DEF NlinkExact, NlinkIn, LinksIn, LinksOf
<1> QED
  BY <1>1 DEF NameInv, TreeOK

\* A step on data leaves names, inode numbers, kinds and counts alone.
LEMMA DataKeepsNames ==
  ASSUME NameInv, NEW x, NEW M, NEW ptr, NEW s, DataStep(x, M, ptr, s),
         UNCHANGED <<mounted, nextIno, twice>>
  PROVE  NameInv'
<1>1. /\ TreeOK(ent') /\ HeapOK(mem') /\ DOMAIN ent' = DOMAIN ent
      /\ \A l \in DOMAIN ent : ent'[l].ino = ent[l].ino /\ ent'[l].dir = ent[l].dir
                               /\ ent'[l].nlink = ent[l].nlink
  BY Zenon DEF DataStep
<1>2. TypeOK'
  BY <1>1 DEF NameInv, TypeOK, TreeOK, HeapOK, Keys
<1>3. \A y : LinksIn(ent', y) = LinksIn(ent, y)
  BY <1>1 DEF LinksIn
<1>4. NlinkIn(ent')
  BY <1>1, <1>3, NlinkIff DEF NameInv, NlinkIn
<1>5. DirNames(ent') /\ DirTree(ent')
  BY <1>1 DEF NameInv, DirNames, DirTree
<1>6. \A k \in DOMAIN ent' : ent'[k].ino < nextIno'
  BY <1>1 DEF NameInv
<1> QED
  BY <1>1, <1>2, <1>4, <1>5, <1>6, NameInvNext DEF TreeOK

\* A step on data leaves no entry with a freed buffer, with another file's
\* buffer, or with more bytes than its buffer holds.
LEMMA DataKeepsHeap ==
  ASSUME NameInv, HeapInv, NEW x \in RegularFiles, NEW M, NEW ptr, NEW s, DataStep(x, M, ptr, s)
  PROVE  HeapInv'
<1> DEFINE old == ent[First(x)].data
<1>1. First(x) \in LinksOf(x) /\ First(x) \in DOMAIN ent
  BY RegularFirst
<1>2. TreeOK(ent) /\ HeapOK(mem)
  BY NameInvTree
<1>3. old \in Buffers => \A l \in DOMAIN ent : ent[l].data = old => l \in LinksOf(x)
  BY <1>1 DEF HeapInv, OneOwner, LinksOf
<1>4. /\ M \subseteq LinksOf(x) /\ DOMAIN ent' = DOMAIN ent /\ TreeOK(ent') /\ HeapOK(mem')
      /\ ptr = old \/ ptr \in Fresh \/ ptr \notin Buffers
      /\ ptr \in Buffers => ptr \in DOMAIN mem' /\ s <= Len(mem'[ptr])
      /\ ptr \notin Buffers => s = 0
      /\ \A b \in DOMAIN mem : b # old \/ ptr = old => b \in DOMAIN mem' /\ Len(mem'[b]) = Len(mem[b])
      /\ ptr # old /\ old \in Buffers => \A l \in LinksOf(x) : ent[l].data = old => l \in M
  BY Zenon DEF DataStep
<1>5. \A l \in DOMAIN ent :
        /\ ent'[l].ino = ent[l].ino
        /\ ent'[l].data = IF l \in M THEN ptr ELSE ent[l].data
        /\ ent'[l].size = IF l \in M THEN s ELSE ent[l].size
  BY Zenon DEF DataStep
<1>6. \A l \in DOMAIN ent \ M : ent[l].data \in Buffers => ent[l].data # old \/ ptr = old
  BY <1>3, <1>4
<1> HIDE DEF old
<1>7. NoDangling'
  BY <1>4, <1>5, <1>6 DEF HeapInv, NoDangling
<1>8. OneOwner'
  <2> SUFFICES ASSUME NEW k \in DOMAIN ent, NEW l \in DOMAIN ent,
                      ent'[k].data \in Buffers, ent'[k].data = ent'[l].data
               PROVE  ent[k].ino = ent[l].ino
    BY <1>4, <1>5 DEF OneOwner
  <2>1. \A m \in M : ent[m].ino = x
    BY <1>4 DEF LinksOf
  <2>2. ASSUME NEW m \in M, NEW j \in DOMAIN ent \ M, ptr \in Buffers, ent[j].data = ptr
        PROVE  ent[j].ino = x
    BY <2>2, <1>3, <1>4 DEF Fresh, LinksOf, HeapInv, NoDangling
  <2>3. CASE k \in M
    BY <1>5, <2>1, <2>2, <2>3
  <2>4. CASE k \notin M /\ l \in M
    BY <1>5, <2>1, <2>2, <2>4
  <2>5. CASE k \notin M /\ l \notin M
    BY <1>5, <2>5 DEF HeapInv, OneOwner
  <2> QED
    BY <2>3, <2>4, <2>5
<1>9. SizeFits'
  <2> SUFFICES ASSUME NEW k \in DOMAIN ent
               PROVE  ent'[k].size <= IF ent'[k].data \in DOMAIN mem' THEN Len(mem'[ent'[k].data]) ELSE 0
    BY <1>4 DEF SizeFits
  <2>1. CASE k \in M
    BY <1>4, <1>5, <2>1 DEF HeapOK
  <2>2. CASE k \notin M
    <3>1. ent'[k].data = ent[k].data /\ ent'[k].size = ent[k].size
      BY <1>5, <2>2
    <3>2. CASE ent[k].data \in Buffers
      <4>1. ent[k].data \in DOMAIN mem /\ ent[k].size <= Len(mem[ent[k].data])
        BY <3>2 DEF HeapInv, NoDangling, SizeFits
      <4> QED
        BY <1>4, <1>6, <2>2, <3>1, <3>2, <4>1
    <3>3. CASE ent[k].data \notin Buffers
      <4>1. ent[k].data \notin DOMAIN mem /\ ent[k].data \notin DOMAIN mem'
        BY <1>2, <1>4, <3>3 DEF HeapOK
      <4> QED
        BY <3>1, <4>1 DEF HeapInv, SizeFits
    <3> QED
      BY <3>2, <3>3
  <2> QED
    BY <2>1, <2>2
<1> QED
  BY <1>7, <1>8, <1>9 DEF HeapInv

\* A new file or directory has one name and a number that no entry had.
LEMMA MakeKeeps ==
  ASSUME Inv, NEW k \in Keys, NEW isDir \in BOOLEAN, Make(k, isDir)
  PROVE  Inv'
<1>1. NameInv /\ HeapInv /\ TreeOK(ent) /\ HeapOK(mem) /\ NlinkIn(ent)
  BY NameInvTree, NlinkIff DEF Inv, NameInv
<1>2. /\ TreeOK(ent')
      /\ nextIno' = nextIno + 1 /\ nextIno <= LastIno
      /\ k[1] = RootIno \/ \E l \in DOMAIN ent : ent[l].ino = k[1] /\ ent[l].dir
      /\ k \notin DOMAIN ent
      /\ \/ ent' = ent
         \/ /\ DOMAIN ent' = DOMAIN ent \cup {k}
            /\ ent'[k] = NewEntry(k, isDir)
            /\ \A l \in DOMAIN ent : SameBody(ent'[l], ent[l])
  BY <1>1, MakeEffect
<1>3. mounted' = mounted /\ mem' = mem /\ twice' = twice
  BY DEF Make
<1>4. nextIno \in FirstIno .. LastIno /\ nextIno \in Nat /\ RootIno < nextIno
  BY <1>1, <1>2, InoAssumption DEF NameInv, TypeOK
<1>5. TypeOK'
  BY <1>1, <1>2, <1>3, <1>4, InoAssumption DEF TypeOK, NameInv, TreeOK, Keys
<1>6. \A l \in DOMAIN ent : ent[l].ino < nextIno /\ ent[l].ino \in Nat
  BY <1>1, InoAssumption DEF NameInv, TreeOK, Entry, Inos
<1>7. CASE ent' = ent
  <2>1. \A l \in DOMAIN ent' : ent'[l].ino < nextIno'
    BY <1>2, <1>4, <1>6, <1>7
  <2>2. DirNames(ent') /\ DirTree(ent') /\ NlinkIn(ent')
    BY <1>1, <1>7 DEF NameInv
  <2>3. NameInv'
    BY <1>2, <1>5, <2>1, <2>2, NameInvNext
  <2>4. HeapInv'
    BY <1>1, <1>3, <1>7 DEF HeapInv, NoDangling, OneOwner, SizeFits
  <2> QED
    BY <2>3, <2>4 DEF Inv
<1>8. CASE /\ DOMAIN ent' = DOMAIN ent \cup {k}
           /\ ent'[k] = NewEntry(k, isDir)
           /\ \A l \in DOMAIN ent : SameBody(ent'[l], ent[l])
  <2>1. /\ ent'[k].ino = nextIno /\ ent'[k].dir = isDir /\ ent'[k].nlink = 1
        /\ ent'[k].data = NULL /\ ent'[k].size = 0
    BY <1>8 DEF NewEntry
  <2>2. \A l \in DOMAIN ent : /\ ent'[l].ino = ent[l].ino /\ ent'[l].dir = ent[l].dir
                              /\ ent'[l].nlink = ent[l].nlink
                              /\ ent'[l].data = ent[l].data /\ ent'[l].size = ent[l].size
    BY <1>8 DEF SameBody
  <2>3. \A l \in DOMAIN ent' : ent'[l].ino < nextIno'
    BY <1>2, <1>4, <1>6, <1>8, <2>1, <2>2
  <2>4. DirNames(ent')
    BY <1>1, <1>4, <1>6, <1>8, <2>1, <2>2 DEF NameInv, DirNames
  <2>5. DirTree(ent')
    <3> SUFFICES ASSUME NEW l \in DOMAIN ent'
                 PROVE  /\ l[1] = RootIno \/ \E m \in DOMAIN ent' : ent'[m].ino = l[1] /\ ent'[m].dir
                        /\ ent'[l].dir => l[1] < ent'[l].ino
      BY DEF DirTree
    <3>1. CASE l = k
      BY <1>2, <1>4, <1>6, <1>8, <2>1, <2>2, <3>1
    <3>2. CASE l \in DOMAIN ent
      BY <1>1, <1>8, <2>2, <3>2 DEF NameInv, DirTree
    <3> QED
      BY <1>8, <3>1, <3>2
  <2>6. NlinkIn(ent')
    <3>1. LinksIn(ent', nextIno) = {k}
      BY <1>4, <1>6, <1>8, <2>1, <2>2 DEF LinksIn
    <3>2. \A l \in DOMAIN ent : LinksIn(ent', ent[l].ino) = LinksIn(ent, ent[l].ino)
      BY <1>2, <1>4, <1>6, <1>8, <2>1, <2>2 DEF LinksIn
    <3>3. Cardinality({k}) = 1
      BY FS_Singleton
    <3>4. \A l \in DOMAIN ent : ent'[l].nlink = Cardinality(LinksIn(ent', ent'[l].ino))
      BY <1>1, <2>2, <3>2 DEF NlinkIn
    <3>5. ent'[k].nlink = Cardinality(LinksIn(ent', ent'[k].ino))
      BY <2>1, <3>1, <3>3
    <3> QED
      BY <1>8, <3>4, <3>5 DEF NlinkIn
  <2>7. NameInv'
    BY <1>2, <1>5, <2>3, <2>4, <2>5, <2>6, NameInvNext
  <2>8. NULL \notin Buffers /\ NULL \notin DOMAIN mem
    BY <1>1, HeapAssumption DEF HeapOK
  <2>9. NoDangling' /\ OneOwner'
    BY <1>1, <1>3, <1>8, <2>1, <2>2, <2>8 DEF HeapInv, NoDangling, OneOwner
  <2>10. SizeFits'
    BY <1>1, <1>3, <1>8, <2>1, <2>2, <2>8 DEF HeapInv, SizeFits
  <2> QED
    BY <2>7, <2>9, <2>10 DEF Inv, HeapInv
<1> QED
  BY <1>2, <1>7, <1>8

\* A hard link is counted by every entry of the file, itself included.
LEMMA LinkKeeps ==
  ASSUME Inv, NEW k \in Keys, NEW x \in Inos, Link(k, x)
  PROVE  Inv'
<1> DEFINE f == First(x)
<1>1. NameInv /\ HeapInv /\ TreeOK(ent) /\ HeapOK(mem) /\ NlinkIn(ent)
  BY NameInvTree, NlinkIff DEF Inv, NameInv
<1>2. /\ TreeOK(ent')
      /\ k[1] = RootIno \/ \E l \in DOMAIN ent : ent[l].ino = k[1] /\ ent[l].dir
      /\ k \notin DOMAIN ent
      /\ f \in DOMAIN ent /\ ent[f].ino = x /\ ~ent[f].dir
      /\ DOMAIN ent' = DOMAIN ent \cup {k}
      /\ ent'[k].ino = x /\ ent'[k].dir = ent[f].dir
      /\ ent'[k].nlink = ent[f].nlink + 1
      /\ ent'[k].data = ent[f].data /\ ent'[k].size = ent[f].size
      /\ \A l \in DOMAIN ent :
           /\ ent'[l].ino = ent[l].ino /\ ent'[l].dir = ent[l].dir
           /\ ent'[l].data = ent[l].data /\ ent'[l].size = ent[l].size
           /\ ent'[l].nlink = IF ent[l].ino = x THEN ent[f].nlink + 1 ELSE ent[l].nlink
  BY <1>1, LinkEffect
<1>3. mounted' = mounted /\ nextIno' = nextIno /\ mem' = mem /\ twice' = twice
  BY DEF Link
<1> HIDE DEF f
<1>4. TypeOK'
  BY <1>1, <1>2, <1>3 DEF TypeOK, NameInv, TreeOK, Keys
<1>5. \A l \in DOMAIN ent' : ent'[l].ino < nextIno'
  BY <1>1, <1>2, <1>3 DEF NameInv
<1>6. DirNames(ent')
  BY <1>1, <1>2 DEF NameInv, DirNames
<1>7. DirTree(ent')
  <2> SUFFICES ASSUME NEW l \in DOMAIN ent'
               PROVE  /\ l[1] = RootIno \/ \E m \in DOMAIN ent' : ent'[m].ino = l[1] /\ ent'[m].dir
                      /\ ent'[l].dir => l[1] < ent'[l].ino
    BY DEF DirTree
  <2>1. CASE l = k
    BY <1>2, <2>1
  <2>2. CASE l \in DOMAIN ent
    BY <1>1, <1>2, <2>2 DEF NameInv, DirTree
  <2> QED
    BY <1>2, <2>1, <2>2
<1>8. NlinkIn(ent')
  <2>1. LinksIn(ent', x) = LinksIn(ent, x) \cup {k} /\ k \notin LinksIn(ent, x)
    BY <1>2 DEF LinksIn
  <2>2. \A y : y # x => LinksIn(ent', y) = LinksIn(ent, y)
    BY <1>2 DEF LinksIn
  <2>3. IsFiniteSet(LinksIn(ent, x))
    BY <1>1, FS_Subset DEF TreeOK, LinksIn
  <2>4. Cardinality(LinksIn(ent', x)) = Cardinality(LinksIn(ent, x)) + 1
    BY <2>1, <2>3, FS_AddElement
  <2>5. ent[f].nlink = Cardinality(LinksIn(ent, x))
    BY <1>1, <1>2 DEF NlinkIn
  <2>6. ASSUME NEW l \in DOMAIN ent'
        PROVE  ent'[l].nlink = Cardinality(LinksIn(ent', ent'[l].ino))
    <3>1. CASE ent'[l].ino = x
      BY <1>2, <2>4, <2>5, <3>1
    <3>2. CASE ent'[l].ino # x
      <4>1. l \in DOMAIN ent /\ ent'[l].ino = ent[l].ino /\ ent'[l].nlink = ent[l].nlink
        BY <1>2, <3>2
      <4> QED
        BY <1>1, <2>2, <3>2, <4>1 DEF NlinkIn
    <3> QED
      BY <3>1, <3>2
  <2> QED
    BY <2>6 DEF NlinkIn
<1>9. NameInv'
  BY <1>2, <1>4, <1>5, <1>6, <1>7, <1>8, NameInvNext
<1>10. NoDangling' /\ SizeFits'
  BY <1>1, <1>2, <1>3 DEF HeapInv, NoDangling, SizeFits
<1>11. OneOwner'
  BY <1>1, <1>2 DEF HeapInv, OneOwner
<1> QED
  BY <1>9, <1>10, <1>11 DEF Inv, HeapInv

\* Unlinking one name of several is counted; unlinking the last frees a buffer
\* that no entry has any more.
LEMMA UnlinkKeeps ==
  ASSUME Inv, NEW k \in Keys, Unlink(k)
  PROVE  Inv'
<1> DEFINE x == ent[k].ino
<1>1. NameInv /\ HeapInv /\ TreeOK(ent) /\ HeapOK(mem) /\ NlinkIn(ent)
  BY NameInvTree, NlinkIff DEF Inv, NameInv
<1>2. /\ TreeOK(ent')
      /\ k \in DOMAIN ent /\ ~ent[k].dir
      /\ DOMAIN ent' = DOMAIN ent \ {k}
      /\ \A l \in DOMAIN ent \ {k} :
           /\ ent'[l].ino = ent[l].ino /\ ent'[l].dir = ent[l].dir
           /\ ent'[l].data = ent[l].data /\ ent'[l].size = ent[l].size
           /\ ent'[l].nlink = IF ent[l].ino = x THEN ent[l].nlink - 1 ELSE ent[l].nlink
      /\ ent[k].nlink = 1 => LinksOf(x) = {k} /\ mem' = Free(mem, {ent[k].data})
      /\ ent[k].nlink # 1 => mem' = mem
  BY <1>1, UnlinkEffect
<1>3. mounted' = mounted /\ nextIno' = nextIno /\ twice' = twice
  BY DEF Unlink
<1>4. /\ HeapOK(mem') /\ \A b \in DOMAIN mem' : b \in DOMAIN mem /\ mem'[b] = mem[b]
      /\ \A b \in DOMAIN mem \ {ent[k].data} : b \in DOMAIN mem'
  <2>1. mem' = mem \/ mem' = Free(mem, {ent[k].data})
    BY <1>2
  <2>2. /\ HeapOK(Free(mem, {ent[k].data}))
        /\ DOMAIN Free(mem, {ent[k].data}) = DOMAIN mem \ {ent[k].data}
        /\ \A b \in DOMAIN mem \ {ent[k].data} : Free(mem, {ent[k].data})[b] = mem[b]
    BY <1>1, FreeOK
  <2> QED
    BY <1>1, <2>1, <2>2
<1>5. TypeOK'
  BY <1>1, <1>2, <1>3, <1>4 DEF TypeOK, NameInv, TreeOK, HeapOK, Keys
<1>6. \A l \in DOMAIN ent' : ent'[l].ino < nextIno'
  BY <1>1, <1>2, <1>3 DEF NameInv
<1>7. DirNames(ent')
  BY <1>1, <1>2 DEF NameInv, DirNames
<1>8. DirTree(ent')
  <2> SUFFICES ASSUME NEW l \in DOMAIN ent'
               PROVE  /\ l[1] = RootIno \/ \E m \in DOMAIN ent' : ent'[m].ino = l[1] /\ ent'[m].dir
                      /\ ent'[l].dir => l[1] < ent'[l].ino
    BY DEF DirTree
  <2>1. /\ l[1] = RootIno \/ \E m \in DOMAIN ent : ent[m].ino = l[1] /\ ent[m].dir
        /\ ent[l].dir => l[1] < ent[l].ino
    BY <1>1, <1>2 DEF NameInv, DirTree
  <2> QED
    BY <1>2, <2>1
<1>9. NlinkIn(ent')
  <2>1. LinksIn(ent', x) = LinksIn(ent, x) \ {k} /\ k \in LinksIn(ent, x)
    BY <1>2 DEF LinksIn
  <2>2. \A y : y # x => LinksIn(ent', y) = LinksIn(ent, y)
    BY <1>2 DEF LinksIn
  <2>3. IsFiniteSet(LinksIn(ent, x))
    BY <1>1, FS_Subset DEF TreeOK, LinksIn
  <2>4. Cardinality(LinksIn(ent', x)) = Cardinality(LinksIn(ent, x)) - 1
    BY <2>1, <2>3, FS_RemoveElement
  <2>5. ASSUME NEW l \in DOMAIN ent'
        PROVE  ent'[l].nlink = Cardinality(LinksIn(ent', ent'[l].ino))
    <3>1. l \in DOMAIN ent \ {k} /\ ent[l].nlink = Cardinality(LinksIn(ent, ent[l].ino))
      BY <1>1, <1>2 DEF NlinkIn
    <3>2. CASE ent[l].ino = x
      BY <1>2, <2>4, <3>1, <3>2
    <3>3. CASE ent[l].ino # x
      BY <1>2, <2>2, <3>1, <3>3
    <3> QED
      BY <3>2, <3>3
  <2> QED
    BY <2>5 DEF NlinkIn
<1>10. NameInv'
  BY <1>2, <1>5, <1>6, <1>7, <1>8, <1>9, NameInvNext
<1>11. \A l \in DOMAIN ent' : ent[l].data \in DOMAIN mem => ent[l].data \in DOMAIN mem'
  <2>1. CASE ent[k].nlink = 1
    <3>1. \A l \in DOMAIN ent' : ent[l].data \in DOMAIN mem => ent[l].data # ent[k].data
      BY <1>1, <1>2, <2>1 DEF HeapInv, OneOwner, HeapOK, LinksOf
    <3> QED
      BY <1>4, <3>1
  <2>2. CASE ent[k].nlink # 1
    BY <1>2, <2>2
  <2> QED
    BY <2>1, <2>2
<1>12. NoDangling' /\ OneOwner'
  BY <1>1, <1>2, <1>11 DEF HeapInv, NoDangling, OneOwner
<1>13. SizeFits'
  <2> SUFFICES ASSUME NEW l \in DOMAIN ent'
               PROVE  ent'[l].size <= IF ent'[l].data \in DOMAIN mem' THEN Len(mem'[ent'[l].data]) ELSE 0
    BY DEF SizeFits
  <2>1. ent[l].size <= IF ent[l].data \in DOMAIN mem THEN Len(mem[ent[l].data]) ELSE 0
    BY <1>1, <1>2 DEF HeapInv, SizeFits
  <2> QED
    BY <1>2, <1>4, <1>11, <2>1
<1> QED
  BY <1>10, <1>12, <1>13 DEF Inv, HeapInv

\* Nothing lay in the directory that goes.
LEMMA RmdirKeeps ==
  ASSUME Inv, NEW k \in Keys, Rmdir(k)
  PROVE  Inv'
<1>1. NameInv /\ HeapInv /\ TreeOK(ent) /\ HeapOK(mem) /\ NlinkIn(ent)
  BY NameInvTree, NlinkIff DEF Inv, NameInv
<1>2. /\ TreeOK(ent')
      /\ k \in DOMAIN ent /\ ent[k].dir
      /\ \A l \in DOMAIN ent : l[1] # ent[k].ino
      /\ DOMAIN ent' = DOMAIN ent \ {k}
      /\ \A l \in DOMAIN ent \ {k} : SameBody(ent'[l], ent[l])
  BY <1>1, RmdirEffect
<1>3. \A l \in DOMAIN ent \ {k} : /\ ent'[l].ino = ent[l].ino /\ ent'[l].dir = ent[l].dir
                                  /\ ent'[l].nlink = ent[l].nlink
                                  /\ ent'[l].data = ent[l].data /\ ent'[l].size = ent[l].size
  BY <1>2 DEF SameBody
<1>4. UNCHANGED <<mounted, nextIno, mem, twice>>
  BY DEF Rmdir
<1>5. TypeOK'
  BY <1>1, <1>2, <1>4 DEF TypeOK, NameInv, TreeOK, Keys
<1>6. \A l \in DOMAIN ent' : ent'[l].ino < nextIno'
  BY <1>1, <1>2, <1>3, <1>4 DEF NameInv
<1>7. DirNames(ent')
  BY <1>1, <1>2, <1>3 DEF NameInv, DirNames
<1>8. DirTree(ent')
  <2> SUFFICES ASSUME NEW l \in DOMAIN ent'
               PROVE  /\ l[1] = RootIno \/ \E m \in DOMAIN ent' : ent'[m].ino = l[1] /\ ent'[m].dir
                      /\ ent'[l].dir => l[1] < ent'[l].ino
    BY DEF DirTree
  <2>1. /\ l[1] = RootIno \/ \E m \in DOMAIN ent : ent[m].ino = l[1] /\ ent[m].dir
        /\ ent[l].dir => l[1] < ent[l].ino
    BY <1>1, <1>2 DEF NameInv, DirTree
  <2> QED
    BY <1>2, <1>3, <2>1
<1>9. NlinkIn(ent')
  <2>1. \A l \in DOMAIN ent' : ent[l].ino # ent[k].ino
    BY <1>1, <1>2 DEF NameInv, DirNames
  <2>2. \A l \in DOMAIN ent' : LinksIn(ent', ent'[l].ino) = LinksIn(ent, ent[l].ino)
    BY <1>2, <1>3, <2>1 DEF LinksIn
  <2> QED
    BY <1>1, <1>2, <1>3, <2>2 DEF NlinkIn
<1>10. NameInv'
  BY <1>2, <1>5, <1>6, <1>7, <1>8, <1>9, NameInvNext
<1>11. HeapInv'
  BY <1>1, <1>2, <1>3, <1>4 DEF HeapInv, NoDangling, OneOwner, SizeFits
<1> QED
  BY <1>10, <1>11 DEF Inv

\* A tree without entries satisfies all that is said of entries.
LEMMA EmptyTree ==
  ASSUME ent' = <<>>, HeapOK(mem'), mounted' \in BOOLEAN,
         nextIno' \in FirstIno .. LastIno + 1, twice' \subseteq Buffers
  PROVE  Inv'
<1>1. DOMAIN ent' = {}
  OBVIOUS
<1>2. TreeOK(ent') /\ DirNames(ent') /\ DirTree(ent') /\ NlinkIn(ent')
  BY <1>1, FS_EmptySet DEF TreeOK, DirNames, DirTree, NlinkIn
<1>3. TypeOK'
  BY <1>1 DEF TypeOK, HeapOK
<1>4. NameInv'
  BY <1>1, <1>2, <1>3, NameInvNext
<1>5. HeapInv'
  BY <1>1 DEF HeapInv, NoDangling, OneOwner, SizeFits
<1> QED
  BY <1>4, <1>5 DEF Inv

\* The tree of a new mount satisfies the invariant.
LEMMA InitInv == Init => Inv
<1> SUFFICES ASSUME Init PROVE Inv
  OBVIOUS
<1>1. DOMAIN ent = {} /\ DOMAIN mem = {}
  BY DEF Init
<1>2. TypeOK
  BY <1>1, InoAssumption DEF Init, TypeOK
<1>3. IsFiniteSet(DOMAIN ent)
  BY <1>1, FS_EmptySet
<1>4. DirNames(ent) /\ DirTree(ent) /\ NlinkExact
  BY <1>1 DEF DirNames, DirTree, NlinkExact
<1>5. HeapInv
  BY <1>1 DEF HeapInv, NoDangling, OneOwner, SizeFits
<1> QED
  BY <1>1, <1>2, <1>3, <1>4, <1>5 DEF Inv, NameInv

\* A handler that only changes data keeps the whole invariant.
LEMMA DataKeeps ==
  ASSUME Inv, NEW x \in RegularFiles, \E M, ptr, s : DataStep(x, M, ptr, s),
         UNCHANGED <<mounted, nextIno, twice>>
  PROVE  Inv'
<1>1. PICK M, ptr, s : DataStep(x, M, ptr, s)
  OBVIOUS
<1> QED
  BY <1>1, DataKeepsNames, DataKeepsHeap DEF Inv

\* Every handler, unmounting and mounting keep the invariant.
LEMMA NextInv == Inv /\ [Next]_vars => Inv'
<1> SUFFICES ASSUME Inv, [Next]_vars PROVE Inv'
  OBVIOUS
<1>1. NameInv /\ HeapInv /\ HeapOK(mem) /\ TypeOK
  BY NameInvTree DEF Inv, NameInv
<1>2. ASSUME NEW k \in Keys, Create(k) PROVE Inv'
  BY <1>2, MakeKeeps DEF Create
<1>3. ASSUME NEW k \in Keys, Mkdir(k) PROVE Inv'
  BY <1>3, MakeKeeps DEF Mkdir
<1>4. ASSUME NEW k \in Keys, NEW x \in Inos, Link(k, x) PROVE Inv'
  BY <1>4, LinkKeeps
<1>5. ASSUME NEW k \in Keys, Unlink(k) PROVE Inv'
  BY <1>5, UnlinkKeeps
<1>6. ASSUME NEW k \in Keys, Rmdir(k) PROVE Inv'
  BY <1>6, RmdirKeeps
<1>7. ASSUME NEW x \in Inos, NEW append \in BOOLEAN, NEW o \in Sizes, NEW p \in Payloads,
             Write(x, append, o, p)
      PROVE  Inv'
  <2>1. UNCHANGED <<mounted, nextIno, twice>>
    BY <1>7 DEF Write, WriteFile
  <2> QED
    BY <1>1, <1>7, <2>1, WriteEffect, DataKeeps
<1>8. ASSUME NEW x \in Inos, NEW n \in Sizes, Setattr(x, n) PROVE Inv'
  <2>1. UNCHANGED <<mounted, nextIno, twice>>
    BY <1>8 DEF Setattr
  <2> QED
    BY <1>1, <1>8, <2>1, SetattrEffect, DataKeeps
<1>9. ASSUME NEW x \in Inos, OpenTrunc(x) PROVE Inv'
  <2>1. UNCHANGED <<mounted, nextIno, twice>>
    BY <1>9 DEF OpenTrunc
  <2> QED
    BY <1>1, <1>9, <2>1, OpenTruncEffect, DataKeeps
<1>10. CASE Unmount
  <2>1. PICK freed \in IF "nomem" \in Faults THEN SUBSET Held ELSE {Held} :
          /\ mem' = Free(mem, {h[2] : h \in freed})
          /\ twice' = {h[2] : h \in {g \in freed : \E g2 \in freed : g2[2] = g[2] /\ g2 # g}}
    BY <1>10 DEF Unmount
  <2>2. freed \subseteq Held
    OBVIOUS
  <2>3. \A h \in Held : h[2] \in Buffers
    BY DEF Held
  <2>4. HeapOK(mem') /\ twice' \subseteq Buffers
    BY <1>1, <2>1, <2>2, <2>3, FreeOK
  <2>5. ent' = <<>> /\ mounted' = FALSE /\ nextIno' = nextIno
    BY <1>10 DEF Unmount
  <2> QED
    BY <1>1, <2>4, <2>5, EmptyTree DEF TypeOK
<1>11. CASE Mount
  <2>1. ent' = <<>> /\ mounted' = TRUE /\ nextIno' = FirstIno /\ mem' = mem /\ twice' = {}
    BY <1>11 DEF Mount
  <2> QED
    BY <1>1, <2>1, InoAssumption, EmptyTree
<1>12. CASE UNCHANGED vars
  <2>1. ent' = ent /\ mem' = mem /\ nextIno' = nextIno /\ mounted' = mounted /\ twice' = twice
    BY <1>12 DEF vars
  <2>2. TreeOK(ent) /\ NlinkIn(ent)
    BY NameInvTree, NlinkIff DEF Inv, NameInv
  <2>3. TypeOK'
    BY <1>1, <2>1 DEF TypeOK, Keys
  <2>4. NameInv'
    BY <1>1, <2>1, <2>2, <2>3, NameInvNext DEF NameInv
  <2>5. HeapInv'
    BY <1>1, <2>1 DEF HeapInv, NoDangling, OneOwner, SizeFits
  <2> QED
    BY <2>4, <2>5 DEF Inv
<1>13. 0 \in Sizes
  BY SizeAssumption DEF Sizes
<1> QED
  BY <1>2, <1>3, <1>4, <1>5, <1>6, <1>7, <1>8, <1>9, <1>10, <1>11, <1>12, <1>13 DEF Next

\* The invariant implies the properties that the runs check.
LEMMA InvImplies == Inv => TypeOK /\ NlinkExact /\ TreeShape /\ NoDangling /\ OneOwner /\ SizeFits
<1> SUFFICES ASSUME Inv PROVE TypeOK /\ NlinkExact /\ TreeShape /\ NoDangling /\ OneOwner /\ SizeFits
  OBVIOUS
<1>1. TypeOK /\ NlinkExact /\ NoDangling /\ OneOwner /\ SizeFits
  BY DEF Inv, NameInv, HeapInv
<1>2. NameInv /\ TreeOK(ent) /\ DirNames(ent) /\ DirTree(ent)
  BY NameInvTree DEF Inv, NameInv
<1>3. TreeShape
  <2> SUFFICES ASSUME NEW k \in DOMAIN ent
               PROVE  IsDir(k[1]) /\ (ent[k].dir => k[1] < ent[k].ino /\ LinksOf(ent[k].ino) = {k})
    BY DEF TreeShape
  <2>1. IsDir(k[1])
    BY <1>2, IsDirIff DEF DirTree
  <2>2. ent[k].dir => LinksOf(ent[k].ino) = {k}
    BY <1>2 DEF DirNames, LinksOf
  <2> QED
    BY <1>2, <2>1, <2>2 DEF DirTree
<1> QED
  BY <1>1, <1>3

-----------------------------------------------------------------------------
(* What a step leaves of the files' content *)

\* A file whose first entry keeps its record, and its buffer its bytes, reads as
\* before.
LEMMA SameContent ==
  ASSUME NEW x, First(x)' = First(x),
         ent'[First(x)].data = ent[First(x)].data,
         ent'[First(x)].size = ent[First(x)].size,
         ent[First(x)].data \in DOMAIN mem' <=> ent[First(x)].data \in DOMAIN mem,
         ent[First(x)].data \in DOMAIN mem =>
           mem'[ent[First(x)].data] = mem[ent[First(x)].data]
  PROVE  Content(x)' = Content(x)
<1>1. Content(x)' = IF ent'[First(x)'].data \in DOMAIN mem'
                    THEN [i \in 1 .. ent'[First(x)'].size |-> mem'[ent'[First(x)'].data][i]] ELSE <<>>
  BY DEF Content
<1> QED
  BY <1>1 DEF Content

\* A file that a handler on names leaves with its first entry reads as before.
LEMMA NamesKeepContent ==
  ASSUME Inv, NEW k \in Keys,
         \/ Create(k) \/ Mkdir(k) \/ Unlink(k) \/ Rmdir(k) \/ \E y \in Inos : Link(k, y),
         NEW x \in RegularFiles, x \in RegularFiles', First(x)' = First(x)
  PROVE  Content(x)' = Content(x)
<1> DEFINE f == First(x)
<1>1. NameInv /\ HeapInv /\ TreeOK(ent) /\ HeapOK(mem)
  BY NameInvTree DEF Inv
<1>2. f \in DOMAIN ent /\ ent[f].ino = x
  BY <1>1, RegularFirst
<1>3. CASE Create(k) \/ Mkdir(k)
  <2>1. PICK isDir \in BOOLEAN : Make(k, isDir)
    BY <1>3 DEF Create, Mkdir
  <2>2. mem' = mem /\ SameBody(ent'[f], ent[f])
    BY <1>1, <1>2, <2>1, MakeEffect DEF Make, SameBody
  <2> QED
    BY <2>2, SameContent DEF SameBody
<1>4. CASE \E y \in Inos : Link(k, y)
  <2>1. PICK y \in Inos : Link(k, y)
    BY <1>4
  <2>2. mem' = mem /\ ent'[f].data = ent[f].data /\ ent'[f].size = ent[f].size
    BY <1>1, <1>2, <2>1, LinkEffect DEF Link
  <2> QED
    BY <2>2, SameContent
<1>5. CASE Rmdir(k)
  <2>1. f \in DOMAIN ent'
    <3>1. TreeOK(ent') /\ LinksOf(x)' # {}
      BY <1>1, <1>5, RmdirEffect DEF RegularFiles
    <3>2. First(x)' \in LinksOf(x)'
      BY <3>1, FirstIsALinkNext
    <3> QED
      BY <3>2 DEF LinksOf
  <2>2. mem' = mem /\ SameBody(ent'[f], ent[f])
    BY <1>1, <1>2, <1>5, <2>1, RmdirEffect DEF Rmdir
  <2> QED
    BY <2>2, SameContent DEF SameBody
<1>6. CASE Unlink(k)
  <2>1. /\ TreeOK(ent') /\ k \in DOMAIN ent /\ DOMAIN ent' = DOMAIN ent \ {k}
        /\ \A l \in DOMAIN ent \ {k} : ent'[l].data = ent[l].data /\ ent'[l].size = ent[l].size
        /\ ent[k].nlink = 1 => LinksOf(ent[k].ino) = {k} /\ mem' = Free(mem, {ent[k].data})
        /\ ent[k].nlink # 1 => mem' = mem
    BY <1>1, <1>6, UnlinkEffect
  <2>2. f \in DOMAIN ent \ {k}
    <3>1. LinksOf(x)' # {}
      BY DEF RegularFiles
    <3>2. First(x)' \in LinksOf(x)'
      BY <2>1, <3>1, FirstIsALinkNext
    <3> QED
      BY <2>1, <3>2 DEF LinksOf
  <2>3. CASE ent[k].nlink = 1
    <3>1. ent[f].ino # ent[k].ino
      BY <1>2, <2>1, <2>2, <2>3 DEF LinksOf
    <3>2. ent[f].data \in DOMAIN mem => ent[f].data # ent[k].data
      BY <1>1, <1>2, <2>1, <3>1 DEF HeapInv, OneOwner, HeapOK
    <3>3. /\ DOMAIN mem' = DOMAIN mem \ {ent[k].data}
          /\ \A b \in DOMAIN mem \ {ent[k].data} : mem'[b] = mem[b]
      <4>1. mem' = Free(mem, {ent[k].data})
        BY <2>1, <2>3
      <4> QED
        BY <1>1, <4>1, FreeOK, Zenon
    <3>4. /\ ent[f].data \in DOMAIN mem' <=> ent[f].data \in DOMAIN mem
          /\ ent[f].data \in DOMAIN mem => mem'[ent[f].data] = mem[ent[f].data]
      BY <3>2, <3>3
    <3> QED
      BY <2>1, <2>2, <3>4, SameContent
  <2>4. CASE ent[k].nlink # 1
    BY <2>1, <2>2, <2>4, SameContent
  <2> QED
    BY <2>3, <2>4
<1> QED
  BY <1>3, <1>4, <1>5, <1>6

\* A step on the data of one file leaves every other file's content alone.
LEMMA DataKeepsContent ==
  ASSUME Inv, NEW x \in RegularFiles, NEW M, NEW ptr, NEW s, DataStep(x, M, ptr, s),
         NEW y \in RegularFiles, y # x, First(y)' = First(y)
  PROVE  Content(y)' = Content(y)
<1> DEFINE f == First(y)
           old == ent[First(x)].data
<1>1. NameInv /\ HeapInv /\ TreeOK(ent) /\ HeapOK(mem)
  BY NameInvTree DEF Inv
<1>2. f \in DOMAIN ent /\ ent[f].ino = y /\ First(x) \in DOMAIN ent /\ ent[First(x)].ino = x
  BY <1>1, RegularFirst
<1>3. /\ M \subseteq LinksOf(x) /\ HeapOK(mem')
      /\ \A b \in DOMAIN mem : b # old \/ ptr = old => b \in DOMAIN mem'
      /\ \A b \in DOMAIN mem \ {old} : mem'[b] = mem[b]
  BY Zenon DEF DataStep
<1>4. \A l \in DOMAIN ent : l \notin M => ent'[l].data = ent[l].data /\ ent'[l].size = ent[l].size
  BY DEF DataStep
<1>5. f \notin M
  BY <1>2, <1>3 DEF LinksOf
<1>6. ent[f].data \in Buffers => ent[f].data # old
  BY <1>1, <1>2 DEF HeapInv, OneOwner
<1>7. ent[f].data \in DOMAIN mem' <=> ent[f].data \in DOMAIN mem
  <2>1. CASE ent[f].data \in Buffers
    BY <1>1, <1>2, <1>3, <1>6, <2>1 DEF HeapInv, NoDangling
  <2>2. CASE ent[f].data \notin Buffers
    BY <1>1, <1>3, <2>2 DEF HeapOK
  <2> QED
    BY <2>1, <2>2
<1>8. ent[f].data \in DOMAIN mem => mem'[ent[f].data] = mem[ent[f].data]
  BY <1>1, <1>3, <1>6 DEF HeapOK
<1> QED
  BY <1>2, <1>4, <1>5, <1>7, <1>8, SameContent

-----------------------------------------------------------------------------
(* Without hard links *)

\* Each file has one name.
OneName(t) == \A k, l \in DOMAIN t : t[k].ino = t[l].ino => k = l

\* Directories hold no buffer.
NoDirData(t) == \A k \in DOMAIN t : t[k].dir => t[k].data \notin Buffers

\* What NoLeak needs: buffers only in files, and no entries after an unmount.
AllHeld == /\ NoLeak
           /\ NoDirData(ent)
           /\ ~mounted => DOMAIN ent = {}

\* Below two links vtfs_link has nothing to do: every file has a link already.
LEMMA LinkIsOff ==
  ASSUME NameInv, MaxLinks <= 1, NEW k \in Keys, NEW x \in Inos
  PROVE  ~ Link(k, x)
<1> SUFFICES ASSUME Link(k, x) PROVE FALSE
  OBVIOUS
<1>1. x \in RegularFiles /\ ent[First(x)].nlink < MaxLinks
  BY DEF Link
<1>2. ent[First(x)] \in Entry
  BY <1>1, RegularFirst
<1> QED
  BY <1>1, <1>2, SizeAssumption DEF Entry

\* Without hard links every step keeps one name for each file.
LEMMA OneNameNext ==
  ASSUME Inv, OneName(ent), [Next]_vars, MaxLinks <= 1
  PROVE  OneName(ent')
<1>1. NameInv /\ HeapInv /\ TypeOK /\ 0 \in Sizes
  BY SizeAssumption DEF Inv, NameInv, Sizes
<1>2. ASSUME NEW k \in Keys, Create(k) \/ Mkdir(k) PROVE OneName(ent')
  <2>1. PICK isDir \in BOOLEAN : Make(k, isDir)
    BY <1>2 DEF Create, Mkdir
  <2>2. \/ ent' = ent
        \/ /\ DOMAIN ent' = DOMAIN ent \cup {k}
           /\ ent'[k] = NewEntry(k, isDir)
           /\ \A l \in DOMAIN ent : SameBody(ent'[l], ent[l])
    BY <1>1, <2>1, MakeEffect
  <2>3. \A l \in DOMAIN ent : ent[l].ino < nextIno /\ ent[l].ino \in Nat /\ nextIno \in Nat
    BY <1>1, InoAssumption DEF NameInv, TypeOK, Entry, Inos
  <2>4. \A l \in DOMAIN ent : ent[l].ino # nextIno
    BY <2>3
  <2>5. NewEntry(k, isDir).ino = nextIno
    BY DEF NewEntry
  <2> QED
    BY <2>2, <2>4, <2>5 DEF OneName, SameBody
<1>3. ASSUME NEW k \in Keys, Unlink(k) PROVE OneName(ent')
  <2>1. /\ DOMAIN ent' = DOMAIN ent \ {k}
        /\ \A l \in DOMAIN ent \ {k} : ent'[l].ino = ent[l].ino
    BY <1>1, <1>3, UnlinkEffect
  <2> QED
    BY <2>1 DEF OneName
<1>4. ASSUME NEW k \in Keys, Rmdir(k) PROVE OneName(ent')
  <2>1. /\ DOMAIN ent' = DOMAIN ent \ {k}
        /\ \A l \in DOMAIN ent \ {k} : SameBody(ent'[l], ent[l])
    BY <1>1, <1>4, RmdirEffect
  <2> QED
    BY <2>1 DEF OneName, SameBody
<1>5. ASSUME NEW x \in RegularFiles, \E M, ptr, s : DataStep(x, M, ptr, s) PROVE OneName(ent')
  <2>1. PICK M, ptr, s : DataStep(x, M, ptr, s)
    BY <1>5
  <2> QED
    BY <2>1 DEF DataStep, OneName
<1>6. ASSUME NEW x \in Inos, NEW append \in BOOLEAN, NEW o \in Sizes, NEW p \in Payloads,
             Write(x, append, o, p)
      PROVE  OneName(ent')
  BY <1>1, <1>5, <1>6, WriteEffect
<1>7. ASSUME NEW x \in Inos, NEW n \in Sizes, Setattr(x, n) PROVE OneName(ent')
  BY <1>1, <1>5, <1>7, SetattrEffect
<1>8. ASSUME NEW x \in Inos, OpenTrunc(x) PROVE OneName(ent')
  BY <1>1, <1>5, <1>8, OpenTruncEffect
<1>9. CASE Unmount \/ Mount \/ UNCHANGED vars
  BY <1>9 DEF Unmount, Mount, vars, OneName
<1>10. \A k \in Keys, x \in Inos : ~ Link(k, x)
  BY <1>1, LinkIsOff
<1> QED
  BY <1>1, <1>2, <1>3, <1>4, <1>6, <1>7, <1>8, <1>9, <1>10 DEF Next

\* krealloc frees the buffer that the only entry of the file gives up.
LEMMA DataKeepsAllHeld ==
  ASSUME Inv, OneName(ent), AllHeld, NEW x \in RegularFiles, NEW M, NEW ptr, NEW s, DataStep(x, M, ptr, s),
         mounted' = mounted
  PROVE  AllHeld'
<1> DEFINE f == First(x)
           old == ent[f].data
<1>1. f \in DOMAIN ent /\ ent[f].ino = x /\ ~ent[f].dir
  BY RegularFirst DEF Inv, RegularFiles
<1>2. /\ M \subseteq LinksOf(x) /\ DOMAIN ent' = DOMAIN ent
      /\ DOMAIN mem' \subseteq DOMAIN mem \cup {ptr}
      /\ ptr # old => f \in M /\ old \notin DOMAIN mem'
  BY DEF DataStep
<1>3. \A l \in DOMAIN ent : /\ ent'[l].ino = ent[l].ino /\ ent'[l].dir = ent[l].dir
                            /\ ent'[l].data = IF l \in M THEN ptr ELSE ent[l].data
  BY DEF DataStep
<1>4. M \subseteq {f}
  BY <1>1, <1>2 DEF OneName, LinksOf
<1> HIDE DEF f
<1>5. ent'[f].data = ptr
  BY <1>1, <1>2, <1>3
<1>6. NoLeak'
  <2> SUFFICES ASSUME NEW b \in DOMAIN mem' PROVE \E k \in DOMAIN ent' : ent'[k].data = b
    BY DEF NoLeak
  <2>1. CASE b = ptr
    BY <1>1, <1>2, <1>5, <2>1
  <2>2. CASE b # ptr
    <3>1. PICK k \in DOMAIN ent : ent[k].data = b
      BY <1>2, <2>2 DEF AllHeld, NoLeak
    <3>2. k # f
      BY <1>2, <2>2, <3>1
    <3> QED
      BY <1>2, <1>3, <1>4, <3>1, <3>2
  <2> QED
    BY <2>1, <2>2
<1>7. NoDirData(ent')
  BY <1>1, <1>2, <1>3, <1>4 DEF AllHeld, NoDirData
<1> QED
  BY <1>2, <1>3, <1>6, <1>7 DEF AllHeld

\* vtfs_unlink removes the only name of the file and frees its buffer.
LEMMA UnlinkKeepsAllHeld ==
  ASSUME Inv, OneName(ent), AllHeld, NEW k \in Keys, Unlink(k)
  PROVE  AllHeld'
<1>1. NameInv /\ HeapOK(mem) /\ mounted
  BY NameInvTree DEF Inv, Unlink
<1>2. /\ k \in DOMAIN ent
      /\ DOMAIN ent' = DOMAIN ent \ {k}
      /\ \A l \in DOMAIN ent \ {k} :
           /\ ent'[l].ino = ent[l].ino /\ ent'[l].dir = ent[l].dir
           /\ ent'[l].data = ent[l].data
      /\ ent[k].nlink = 1 => mem' = Free(mem, {ent[k].data})
  BY <1>1, UnlinkEffect
<1>3. ent[k].nlink = 1
  <2>1. LinksOf(ent[k].ino) = {k}
    BY <1>2 DEF OneName, LinksOf
  <2>2. Cardinality({k}) = 1
    BY FS_Singleton
  <2> QED
    BY <1>1, <1>2, <2>1, <2>2 DEF NameInv, NlinkExact
<1>4. DOMAIN mem' = DOMAIN mem \ {ent[k].data}
  <2>1. mem' = Free(mem, {ent[k].data})
    BY <1>2, <1>3
  <2> QED
    BY <1>1, <2>1, FreeOK, Zenon
<1>5. NoLeak'
  <2> SUFFICES ASSUME NEW b \in DOMAIN mem' PROVE \E l \in DOMAIN ent' : ent'[l].data = b
    BY DEF NoLeak
  <2>1. PICK l \in DOMAIN ent : ent[l].data = b
    BY <1>4 DEF AllHeld, NoLeak
  <2> QED
    BY <1>2, <1>4, <2>1
<1>6. mounted' = mounted
  BY DEF Unlink
<1> QED
  BY <1>1, <1>2, <1>5, <1>6 DEF AllHeld, NoDirData

\* Without hard links and failing allocations every step keeps one name for each
\* file and an entry for each buffer.
LEMMA NextAllHeld ==
  ASSUME Inv, OneName(ent), AllHeld, [Next]_vars, MaxLinks <= 1, "nomem" \notin Faults
  PROVE  AllHeld'
<1>1. NameInv /\ HeapInv /\ TypeOK /\ HeapOK(mem) /\ 0 \in Sizes
  BY NameInvTree, SizeAssumption DEF Inv, NameInv, Sizes
<1>2. ASSUME NEW k \in Keys, Create(k) \/ Mkdir(k) PROVE AllHeld'
  <2>1. PICK isDir \in BOOLEAN : Make(k, isDir)
    BY <1>2 DEF Create, Mkdir
  <2>2. mem' = mem /\ mounted' = mounted /\ mounted
    BY <2>1 DEF Make
  <2>3. \/ ent' = ent
        \/ /\ DOMAIN ent' = DOMAIN ent \cup {k}
           /\ ent'[k] = NewEntry(k, isDir)
           /\ \A l \in DOMAIN ent : SameBody(ent'[l], ent[l])
    BY <1>1, <2>1, MakeEffect
  <2>4. CASE ent' = ent
    BY <2>2, <2>4 DEF AllHeld, NoLeak, NoDirData
  <2>5. CASE /\ DOMAIN ent' = DOMAIN ent \cup {k}
             /\ ent'[k] = NewEntry(k, isDir)
             /\ \A l \in DOMAIN ent : SameBody(ent'[l], ent[l])
    <3>1. ent'[k].data \notin Buffers
      BY <2>5, HeapAssumption DEF NewEntry
    <3>2. \A l \in DOMAIN ent : ent'[l].dir = ent[l].dir /\ ent'[l].data = ent[l].data
      BY <2>5 DEF SameBody
    <3>3. NoLeak'
      BY <2>2, <2>5, <3>2 DEF AllHeld, NoLeak
    <3>4. NoDirData(ent')
      BY <2>5, <3>1, <3>2 DEF AllHeld, NoDirData
    <3> QED
      BY <2>2, <3>3, <3>4 DEF AllHeld
  <2> QED
    BY <2>3, <2>4, <2>5
<1>3. ASSUME NEW k \in Keys, Unlink(k) PROVE AllHeld'
  BY <1>3, UnlinkKeepsAllHeld
<1>4. ASSUME NEW k \in Keys, Rmdir(k) PROVE AllHeld'
  <2>1. /\ k \in DOMAIN ent /\ ent[k].dir
        /\ DOMAIN ent' = DOMAIN ent \ {k}
        /\ \A l \in DOMAIN ent \ {k} : SameBody(ent'[l], ent[l])
    BY <1>1, <1>4, RmdirEffect
  <2>2. mem' = mem /\ mounted' = mounted /\ mounted
    BY <1>4 DEF Rmdir
  <2>3. DOMAIN mem \subseteq Buffers /\ ent[k].data \notin Buffers
    BY <1>1, <2>1 DEF AllHeld, NoDirData, HeapOK
  <2>4. NoLeak'
    BY <2>1, <2>2, <2>3 DEF AllHeld, NoLeak, SameBody
  <2>5. NoDirData(ent')
    BY <2>1 DEF AllHeld, NoDirData, SameBody
  <2> QED
    BY <2>2, <2>4, <2>5 DEF AllHeld
<1>5. ASSUME NEW x \in Inos, NEW append \in BOOLEAN, NEW o \in Sizes, NEW p \in Payloads,
             Write(x, append, o, p)
      PROVE  AllHeld'
  <2>1. mounted' = mounted
    BY <1>5 DEF Write, WriteFile
  <2> QED
    BY <1>1, <1>5, <2>1, WriteEffect, DataKeepsAllHeld
<1>6. ASSUME NEW x \in Inos, NEW n \in Sizes, Setattr(x, n) PROVE AllHeld'
  <2>1. mounted' = mounted
    BY <1>6 DEF Setattr
  <2> QED
    BY <1>1, <1>6, <2>1, SetattrEffect, DataKeepsAllHeld
<1>7. ASSUME NEW x \in Inos, OpenTrunc(x) PROVE AllHeld'
  <2>1. mounted' = mounted
    BY <1>7 DEF OpenTrunc
  <2> QED
    BY <1>1, <1>7, <2>1, OpenTruncEffect, DataKeepsAllHeld
<1>8. CASE Unmount
  <2>1. mem' = Free(mem, {h[2] : h \in Held}) /\ ent' = <<>>
    BY <1>8 DEF Unmount
  <2>2. DOMAIN mem' = DOMAIN mem \ {h[2] : h \in Held}
    BY <1>1, <2>1, FreeOK
  <2>3. DOMAIN mem \subseteq {h[2] : h \in Held}
    <3> SUFFICES ASSUME NEW b \in DOMAIN mem PROVE \E h \in Held : h[2] = b
      OBVIOUS
    <3>1. PICK k \in DOMAIN ent : ent[k].data = b
      BY DEF AllHeld, NoLeak
    <3>2. b \in Buffers
      BY <1>1 DEF HeapOK
    <3>3. <<k[1], b>> \in Held
      BY <3>1, <3>2 DEF Held
    <3> QED
      BY <3>3
  <2>4. DOMAIN mem' = {}
    BY <2>2, <2>3
  <2>5. DOMAIN ent' = {}
    BY <2>1
  <2> QED
    BY <2>4, <2>5 DEF AllHeld, NoLeak, NoDirData
<1>9. CASE Mount
  <2>1. DOMAIN ent' = {} /\ mem' = mem /\ ~mounted
    BY <1>9 DEF Mount
  <2>2. DOMAIN mem' = {}
    BY <2>1 DEF AllHeld, NoLeak
  <2> QED
    BY <2>1, <2>2 DEF AllHeld, NoLeak, NoDirData
<1>10. CASE UNCHANGED vars
  BY <1>10 DEF vars, AllHeld, NoLeak, NoDirData
<1>11. \A k \in Keys, x \in Inos : ~ Link(k, x)
  BY <1>1, LinkIsOff
<1> QED
  BY <1>1, <1>2, <1>3, <1>4, <1>5, <1>6, <1>7, <1>8, <1>9, <1>10, <1>11 DEF Next

-----------------------------------------------------------------------------
(* The order of the walk *)

\* WalkOrder, of any tree.
WalkIn(t) ==
  \A k, d \in DOMAIN t : t[d].ino = k[1] =>
    /\ t[d].at < t[k].at
    /\ \A m \in DOMAIN t :
         t[d].at < t[m].at /\ t[m].at < t[k].at =>
           \E l \in DOMAIN t : /\ t[d].at <= t[l].at /\ t[l].at < t[m].at
                                /\ t[l].ino = m[1]

\* The places in the walk are the numbers from one to the number of entries.
Placed(t) ==
  /\ \A k \in DOMAIN t : t[k].at \in 1 .. Cardinality(DOMAIN t)
  /\ \A k, l \in DOMAIN t : t[k].at = t[l].at => k = l

\* What WalkOrder needs to be inductive.
WalkInv == WalkIn(ent) /\ Placed(ent)

\* Trees with the same entries in the same places.
LEMMA SameWalk ==
  ASSUME NEW t, NEW u, WalkIn(t), Placed(t), SameOrder(u, t)
  PROVE  WalkIn(u) /\ Placed(u)
BY DEF WalkIn, Placed, SameOrder

\* Removing an entry keeps the order of the others, with places that are dense.
LEMMA RemovedRank ==
  ASSUME NEW t, TreeOK(t), Placed(t), NEW q \in DOMAIN t, NEW l \in DOMAIN t \ {q}
  PROVE  /\ Without(t, {q})[l].at \in 1 .. Cardinality(DOMAIN t \ {q})
         /\ Without(t, {q})[l].ino = t[l].ino
         /\ \A m \in DOMAIN t \ {q} :
              t[l].at < t[m].at => Without(t, {q})[l].at < Without(t, {q})[m].at
<1> DEFINE D == DOMAIN t \ {q}
           upto(m) == {j \in D : t[j].at <= t[m].at}
           u == Without(t, {q})
<1>1. IsFiniteSet(D) /\ Cardinality(D) \in Nat
  BY FS_Subset, FS_CardinalityType DEF TreeOK
<1>2. ASSUME NEW m \in D
      PROVE  /\ u[m].at = Cardinality(upto(m)) /\ u[m].ino = t[m].ino
             /\ IsFiniteSet(upto(m)) /\ Cardinality(upto(m)) \in Nat
             /\ m \in upto(m) /\ upto(m) \subseteq D /\ t[m].at \in Nat
  <2>1. t[m] \in Entry
    BY DEF TreeOK
  <2>2. u[m] = [t[m] EXCEPT !.at = Cardinality(upto(m))]
    BY DEF Without
  <2>3. t[m].at \in Nat
    BY <2>1 DEF Entry
  <2>4. m \in upto(m) /\ upto(m) \subseteq D
    BY <2>3
  <2> HIDE DEF upto, u
  <2>5. IsFiniteSet(upto(m)) /\ Cardinality(upto(m)) \in Nat
    BY <1>1, <2>4, FS_Subset, FS_CardinalityType
  <2>6. u[m].at = Cardinality(upto(m)) /\ u[m].ino = t[m].ino
    BY <2>1, <2>2 DEF Entry
  <2> QED
    BY <2>3, <2>4, <2>5, <2>6
<1>3. Cardinality(upto(l)) >= 1 /\ Cardinality(upto(l)) <= Cardinality(D)
  <2> HIDE DEF upto
  <2>1. upto(l) # {}
    BY <1>2
  <2>2. Cardinality(upto(l)) # 0
    BY <1>2, <2>1, FS_EmptySet
  <2>3. Cardinality(upto(l)) <= Cardinality(D)
    BY <1>1, <1>2, FS_Subset
  <2> QED
    BY <1>2, <2>2, <2>3
<1>4. ASSUME NEW m \in D, t[l].at < t[m].at
      PROVE  Cardinality(upto(l)) < Cardinality(upto(m))
  <2>1. \A j \in D : t[j].at \in Nat
    BY <1>2
  <2>2. upto(l) \subseteq upto(m) /\ m \notin upto(l)
    BY <1>4, <2>1
  <2>3. upto(l) \subseteq upto(m) \ {m} /\ m \in upto(m)
    BY <1>2, <2>2
  <2> HIDE DEF upto
  <2>4. /\ IsFiniteSet(upto(m) \ {m})
        /\ Cardinality(upto(m) \ {m}) = Cardinality(upto(m)) - 1
    BY <1>2, <2>3, FS_RemoveElement, FS_Subset
  <2>5. Cardinality(upto(l)) <= Cardinality(upto(m) \ {m})
    BY <2>3, <2>4, FS_Subset
  <2> QED
    BY <1>2, <2>4, <2>5
<1> HIDE DEF upto, u
<1> QED
  BY <1>1, <1>2, <1>3, <1>4 DEF u

\* An entry that nothing lies in goes without leaving a gap in the walk.
LEMMA WithoutWalk ==
  ASSUME NEW t, TreeOK(t), WalkIn(t), Placed(t), NEW q \in DOMAIN t,
         \A l \in DOMAIN t : l[1] # t[q].ino
  PROVE  WalkIn(Without(t, {q})) /\ Placed(Without(t, {q}))
<1> DEFINE u == Without(t, {q})
           D == DOMAIN t \ {q}
<1>1. DOMAIN u = D
  BY DEF Without
<1>2. \A l \in D : /\ u[l].at \in 1 .. Cardinality(D) /\ u[l].ino = t[l].ino
                   /\ \A m \in D : t[l].at < t[m].at => u[l].at < u[m].at
  BY RemovedRank
<1>3. \A l \in D : t[l].at \in Nat
  BY DEF TreeOK, Entry
<1>4. \A l, m \in D : t[l].at = t[m].at => l = m
  BY DEF Placed
<1> HIDE DEF u
<1>5. Cardinality(D) \in Nat
  BY FS_Subset, FS_CardinalityType DEF TreeOK
<1>6. \A l, m \in D : u[l].at < u[m].at => t[l].at < t[m].at
  <2> SUFFICES ASSUME NEW l \in D, NEW m \in D, u[l].at < u[m].at, ~ (t[l].at < t[m].at)
               PROVE  FALSE
    OBVIOUS
  <2>1. u[l].at \in Nat /\ u[m].at \in Nat
    BY <1>2, <1>5
  <2>2. CASE l = m
    BY <2>1, <2>2
  <2>3. CASE t[m].at < t[l].at
    BY <1>2, <2>1, <2>3
  <2> QED
    BY <1>3, <1>4, <2>2, <2>3
<1>7. Placed(u)
  <2> SUFFICES ASSUME NEW l \in D, NEW m \in D, u[l].at = u[m].at PROVE l = m
    BY <1>1, <1>2 DEF Placed
  <2>1. ~ (t[l].at < t[m].at) /\ ~ (t[m].at < t[l].at)
    BY <1>2, <1>5
  <2> QED
    BY <1>3, <1>4, <2>1
<1>8. WalkIn(u)
  <2> SUFFICES ASSUME NEW k \in D, NEW d \in D, u[d].ino = k[1]
               PROVE  /\ u[d].at < u[k].at
                      /\ \A m \in D : u[d].at < u[m].at /\ u[m].at < u[k].at =>
                           \E l \in D : /\ u[d].at <= u[l].at /\ u[l].at < u[m].at
                                         /\ u[l].ino = m[1]
    BY <1>1 DEF WalkIn
  <2>1. t[d].ino = k[1]
    BY <1>2
  <2>2. u[d].at < u[k].at
    BY <1>2, <2>1 DEF WalkIn
  <2>3. ASSUME NEW m \in D, u[d].at < u[m].at, u[m].at < u[k].at
        PROVE  \E l \in D : u[d].at <= u[l].at /\ u[l].at < u[m].at /\ u[l].ino = m[1]
    <3>1. t[d].at < t[m].at /\ t[m].at < t[k].at
      BY <1>6, <2>3
    <3>2. PICK l \in DOMAIN t : t[d].at <= t[l].at /\ t[l].at < t[m].at /\ t[l].ino = m[1]
      BY <2>1, <3>1 DEF WalkIn
    <3>3. l \in D
      BY <3>2
    <3>4. u[l].at < u[m].at /\ u[l].ino = m[1]
      BY <1>2, <3>2, <3>3
    <3>5. u[d].at <= u[l].at
      <4>1. u[d].at \in Nat /\ u[l].at \in Nat
        BY <1>2, <1>5, <3>3
      <4>2. CASE t[d].at < t[l].at
        BY <1>2, <3>3, <4>1, <4>2
      <4>3. CASE d = l
        BY <4>1, <4>3
      <4> QED
        BY <1>3, <1>4, <3>2, <3>3, <4>2, <4>3
    <3> QED
      BY <3>3, <3>4, <3>5
  <2> QED
    BY <2>2, <2>3
<1> QED
  BY <1>7, <1>8 DEF u

\* The last place is free: every entry comes before it.
LEMMA LastPlace ==
  ASSUME TreeOK(ent), Placed(ent)
  PROVE  /\ Cardinality(DOMAIN ent) \in Nat
         /\ \A m \in DOMAIN ent : ent[m].at \in Nat /\ ent[m].at < Cardinality(DOMAIN ent) + 1
<1>1. Cardinality(DOMAIN ent) \in Nat
  BY FS_CardinalityType DEF TreeOK
<1> QED
  BY <1>1 DEF Placed

\* list_add_tail puts an entry into the directory of entry f after f, after what
\* lies in or beneath the directory, and before what does not.
LEMMA PlaceInDir ==
  ASSUME TreeOK(ent), DirNames(ent), Placed(ent),
         NEW f \in DOMAIN ent, ent[f].dir, ent[f].ino # RootIno
  PROVE  LET P == Place(ent[f].ino) IN
         /\ P \in 1 .. Cardinality(DOMAIN ent) + 1
         /\ ent[f].at < P
         /\ \A m \in DOMAIN ent : ent[f].at < ent[m].at /\ ent[m].at < P =>
              \E l \in DOMAIN ent : /\ ent[f].at <= ent[l].at /\ ent[l].at < ent[m].at
                                     /\ ent[l].ino = m[1]
         /\ \/ P = Cardinality(DOMAIN ent) + 1
            \/ \E c \in DOMAIN ent :
                 /\ ent[c].at = P
                 /\ \A l \in DOMAIN ent :
                      ent[f].at <= ent[l].at /\ ent[l].at < P => ent[l].ino # c[1]
<1> DEFINE D == ent[f].ino
           P == Place(D)
           B == Beyond(D)
<1>1. First(D) = f
  <2>1. LinksOf(D) = {f}
    BY DEF LinksOf, DirNames
  <2> QED
    BY <2>1, FirstIsALink
<1>2. /\ Cardinality(DOMAIN ent) \in Nat
      /\ \A m \in DOMAIN ent : ent[m].at \in Nat /\ ent[m].at < Cardinality(DOMAIN ent) + 1
  BY LastPlace
<1>3. B = {k \in DOMAIN ent :
             /\ ent[k].at > ent[f].at
             /\ \A l \in DOMAIN ent :
                  ent[f].at <= ent[l].at /\ ent[l].at < ent[k].at => ent[l].ino # k[1]}
  BY <1>1 DEF Beyond
<1>4. ASSUME NEW m \in DOMAIN ent, ent[f].at < ent[m].at, m \notin B
      PROVE  \E l \in DOMAIN ent : /\ ent[f].at <= ent[l].at /\ ent[l].at < ent[m].at
                                   /\ ent[l].ino = m[1]
  <2>1. ent[m].at > ent[f].at
    BY <1>2, <1>4
  <2> QED
    BY <1>3, <1>4, <2>1
<1>5. CASE B = {}
  <2>1. P = Cardinality(DOMAIN ent) + 1
    BY <1>5 DEF Place
  <2> QED
    BY <1>2, <1>4, <1>5, <2>1
<1>6. CASE B # {}
  <2> DEFINE c == Earliest(ent, B)
  <2>1. B \subseteq DOMAIN ent
    BY <1>3
  <2>2. c \in B /\ \A l \in B : ent[c].at <= ent[l].at
    <3>1. \E k \in B : \A l \in B : ent[k].at <= ent[l].at
      <4> DEFINE S == {ent[k].at : k \in B}
      <4>1. S \subseteq Nat /\ S # {}
        BY <1>2, <1>6, <2>1
      <4>2. \E n \in S : \A m \in S : n <= m
        BY <4>1, LeastExists
      <4> QED
        BY <4>2
    <3> QED
      BY <3>1 DEF Earliest
  <2>3. P = ent[c].at
    BY <1>6 DEF Place
  <2> HIDE DEF c, P
  <2>4. c \in DOMAIN ent /\ ent[f].at < P
    BY <1>2, <1>3, <2>2, <2>3
  <2>5. \A l \in DOMAIN ent : ent[f].at <= ent[l].at /\ ent[l].at < P => ent[l].ino # c[1]
    BY <1>3, <2>2, <2>3
  <2>6. P \in 1 .. Cardinality(DOMAIN ent) + 1
    BY <1>2, <2>3, <2>4 DEF Placed
  <2>7. \A m \in DOMAIN ent : ent[m].at < P => m \notin B
    BY <1>2, <2>2, <2>3, <2>4
  <2> HIDE DEF B, D
  <2> QED
    BY <1>4, <2>3, <2>4, <2>5, <2>6, <2>7 DEF P, D
<1> QED
  BY <1>5, <1>6

\* What With does to the entries: those that were there keep their order, and
\* the new one comes after those that had a place before its own.
AddedTo(u, q, e) ==
  /\ DOMAIN u = DOMAIN ent \cup {q} /\ u[q] = e /\ Placed(u)
  /\ \A l \in DOMAIN ent :
       /\ u[l].ino = ent[l].ino /\ u[l].at \in Nat /\ ent[l].at \in Nat
       /\ u[l].at = IF ent[l].at >= e.at THEN ent[l].at + 1 ELSE ent[l].at

\* The new entry goes in at its place and the others keep their order.
LEMMA AddedRank ==
  ASSUME TreeOK(ent), Placed(ent), NEW q, q \notin DOMAIN ent,
         NEW e \in Entry, e.at \in 1 .. Cardinality(DOMAIN ent) + 1
  PROVE  AddedTo(With(ent, q, e), q, e)
<1> DEFINE u == With(ent, q, e)
<1>1. /\ Cardinality(DOMAIN ent) \in Nat
      /\ \A m \in DOMAIN ent : ent[m].at \in Nat /\ ent[m].at < Cardinality(DOMAIN ent) + 1
  BY LastPlace
<1>2. DOMAIN u = DOMAIN ent \cup {q} /\ u[q] = e
  BY DEF With
<1>3. ASSUME NEW l \in DOMAIN ent
      PROVE  /\ u[l].ino = ent[l].ino /\ ent[l].at \in Nat
             /\ u[l].at = IF ent[l].at >= e.at THEN ent[l].at + 1 ELSE ent[l].at
  <2>1. ent[l] \in Entry /\ e.at \in Nat
    BY DEF TreeOK, Entry
  <2>2. u[l] = IF ent[l].at >= e.at THEN [ent[l] EXCEPT !.at = ent[l].at + 1] ELSE ent[l]
    BY DEF With
  <2> HIDE DEF u
  <2> QED
    BY <2>1, <2>2 DEF Entry
<1>4. Cardinality(DOMAIN ent \cup {q}) = Cardinality(DOMAIN ent) + 1
  BY FS_AddElement DEF TreeOK
<1>5. e.at \in Nat /\ e.at >= 1
  BY <1>1
<1> HIDE DEF u
<1>6. \A l \in DOMAIN ent : u[l].at \in Nat /\ u[l].at # e.at
  BY <1>1, <1>3, <1>5
<1>7. \A l \in DOMAIN u : u[l].at \in 1 .. Cardinality(DOMAIN u)
  <2>1. \A l \in DOMAIN ent : ent[l].at >= 1
    BY <1>1 DEF Placed
  <2> QED
    BY <1>1, <1>2, <1>3, <1>4, <1>5, <2>1
<1>8. ASSUME NEW l \in DOMAIN u, NEW m \in DOMAIN u, u[l].at = u[m].at PROVE l = m
  <2>1. CASE l \in DOMAIN ent /\ m \in DOMAIN ent
    <3>1. ent[l].at = ent[m].at
      BY <1>3, <1>5, <1>8, <2>1
    <3> QED
      BY <2>1, <3>1 DEF Placed
  <2>2. CASE l = q \/ m = q
    BY <1>2, <1>6, <1>8, <2>2
  <2> QED
    BY <1>2, <2>1, <2>2
<1>9. Placed(u)
  BY <1>7, <1>8 DEF Placed
<1> QED
  BY <1>2, <1>3, <1>6, <1>9 DEF u, AddedTo

\* A new entry that is no directory's keeps the order of the walk.  When it lies
\* between a directory and an entry of that directory, so does the entry of the
\* directory it is in: if not, Beyond would have given it an earlier place.
LEMMA WithWalk ==
  ASSUME TreeOK(ent), DirNames(ent), WalkIn(ent), Placed(ent),
         NEW q, q \notin DOMAIN ent,
         q[1] = RootIno \/ \E l \in DOMAIN ent : ent[l].ino = q[1] /\ ent[l].dir,
         NEW e \in Entry, e.at = Place(q[1]), e.ino # q[1],
         \A k \in DOMAIN ent : k[1] # e.ino
  PROVE  WalkIn(With(ent, q, e)) /\ Placed(With(ent, q, e))
<1> DEFINE u == With(ent, q, e)
           P == e.at
           N == Cardinality(DOMAIN ent)
           Inside(f) ==
             /\ f \in DOMAIN ent /\ ent[f].ino = q[1] /\ ent[f].at < P
             /\ \A m \in DOMAIN ent : ent[f].at < ent[m].at /\ ent[m].at < P =>
                  \E l \in DOMAIN ent : /\ ent[f].at <= ent[l].at /\ ent[l].at < ent[m].at
                                         /\ ent[l].ino = m[1]
             /\ \A g \in DOMAIN ent : ent[g].ino = q[1] => g = f
             /\ \/ P = N + 1
                \/ \E c \in DOMAIN ent :
                     /\ ent[c].at = P
                     /\ \A l \in DOMAIN ent :
                          ent[f].at <= ent[l].at /\ ent[l].at < P => ent[l].ino # c[1]
<1>1. N \in Nat /\ \A m \in DOMAIN ent : ent[m].at \in Nat /\ ent[m].at < N + 1
  BY LastPlace
<1>2. \A l \in DOMAIN ent : ent[l].ino # RootIno
  BY InoAssumption DEF TreeOK, Entry, Inos
<1>3. P \in 1 .. N + 1 /\ (P = N + 1 \/ \E f : Inside(f)) /\ (q[1] # RootIno => \E f : Inside(f))
  <2>1. CASE q[1] = RootIno
    <3>1. P = N + 1
      BY <2>1 DEF Place, Beyond
    <3> QED
      BY <1>1, <2>1, <3>1
  <2>2. CASE q[1] # RootIno
    <3>1. PICK f \in DOMAIN ent : ent[f].ino = q[1] /\ ent[f].dir
      BY <2>2
    <3>2. P = Place(ent[f].ino) /\ ent[f].ino # RootIno
      BY <2>2, <3>1
    <3>3. /\ P \in 1 .. N + 1
          /\ ent[f].at < P
          /\ \A m \in DOMAIN ent : ent[f].at < ent[m].at /\ ent[m].at < P =>
               \E l \in DOMAIN ent : /\ ent[f].at <= ent[l].at /\ ent[l].at < ent[m].at
                                      /\ ent[l].ino = m[1]
          /\ \/ P = N + 1
             \/ \E c \in DOMAIN ent :
                  /\ ent[c].at = P
                  /\ \A l \in DOMAIN ent :
                       ent[f].at <= ent[l].at /\ ent[l].at < P => ent[l].ino # c[1]
      BY <3>1, <3>2, PlaceInDir
    <3>4. \A g \in DOMAIN ent : ent[g].ino = q[1] => g = f
      BY <3>1 DEF DirNames
    <3>5. Inside(f)
      BY <3>1, <3>3, <3>4
    <3> QED
      BY <3>3, <3>5
  <2> QED
    BY <2>1, <2>2
<1>4. /\ DOMAIN u = DOMAIN ent \cup {q} /\ u[q] = e /\ Placed(u)
      /\ \A l \in DOMAIN ent :
           /\ u[l].ino = ent[l].ino /\ u[l].at \in Nat /\ ent[l].at \in Nat
           /\ u[l].at = IF ent[l].at >= P THEN ent[l].at + 1 ELSE ent[l].at
  <2>1. e.at \in 1 .. Cardinality(DOMAIN ent) + 1
    BY <1>3
  <2>2. AddedTo(With(ent, q, e), q, e)
    BY <2>1, AddedRank
  <2>3. AddedTo(u, q, e) /\ P = e.at
    BY <2>2
  <2> HIDE DEF u, P
  <2> QED
    BY <2>3 DEF AddedTo
<1> HIDE DEF u, P, N
<1>5. u[q].at = P /\ u[q].ino = e.ino /\ P \in Nat
  BY <1>1, <1>3, <1>4 DEF P
<1>6. \A l, m \in DOMAIN ent : /\ u[l].at < u[m].at <=> ent[l].at < ent[m].at
                               /\ u[l].at <= u[m].at <=> ent[l].at <= ent[m].at
                               /\ u[l].at < P <=> ent[l].at < P
                               /\ P < u[l].at <=> P <= ent[l].at
  BY <1>4, <1>5
<1>7. ASSUME NEW k \in DOMAIN ent, NEW d \in DOMAIN ent, ent[d].ino = k[1],
             NEW m \in DOMAIN u, u[d].at < u[m].at, u[m].at < u[k].at
      PROVE  \E l \in DOMAIN u : u[d].at <= u[l].at /\ u[l].at < u[m].at /\ u[l].ino = m[1]
  <2>1. CASE m \in DOMAIN ent
    <3>1. ent[d].at < ent[m].at /\ ent[m].at < ent[k].at
      BY <1>6, <1>7, <2>1
    <3>2. PICK l \in DOMAIN ent : ent[d].at <= ent[l].at /\ ent[l].at < ent[m].at /\ ent[l].ino = m[1]
      BY <1>7, <2>1, <3>1 DEF WalkIn
    <3> QED
      BY <1>4, <1>6, <2>1, <3>2
  <2>2. CASE m = q
    <3>1. ent[d].at < P /\ P <= ent[k].at
      BY <1>5, <1>6, <1>7, <2>2
    <3>2. P # N + 1
      BY <1>1, <1>5, <3>1
    <3>3. PICK f : Inside(f)
      BY <1>3, <3>2
    <3>4. PICK c \in DOMAIN ent :
            /\ ent[c].at = P
            /\ \A l \in DOMAIN ent :
                 ent[f].at <= ent[l].at /\ ent[l].at < P => ent[l].ino # c[1]
      BY <3>2, <3>3
    <3>5. ent[d].at <= ent[f].at
      <4> SUFFICES ASSUME ent[f].at < ent[d].at PROVE FALSE
        BY <1>1, <3>3
      <4>1. CASE c = k
        BY <1>1, <1>7, <3>1, <3>3, <3>4, <4>1
      <4>2. CASE c # k
        <5>1. ent[d].at < ent[c].at /\ ent[c].at < ent[k].at
          BY <1>1, <3>1, <3>4, <4>2 DEF Placed
        <5>2. PICK l \in DOMAIN ent :
                ent[d].at <= ent[l].at /\ ent[l].at < ent[c].at /\ ent[l].ino = c[1]
          BY <1>7, <5>1 DEF WalkIn
        <5> QED
          BY <1>1, <3>3, <3>4, <5>2
      <4> QED
        BY <4>1, <4>2
    <3>6. f \in DOMAIN ent /\ ent[f].ino = q[1] /\ ent[f].at < P
      BY <3>3
    <3> QED
      BY <1>4, <1>5, <1>6, <2>2, <3>5, <3>6
  <2> QED
    BY <1>4, <2>1, <2>2
<1>8. ASSUME NEW d \in DOMAIN ent, ent[d].ino = q[1]
      PROVE  /\ u[d].at < u[q].at
             /\ \A m \in DOMAIN u : u[d].at < u[m].at /\ u[m].at < u[q].at =>
                  \E l \in DOMAIN u : u[d].at <= u[l].at /\ u[l].at < u[m].at /\ u[l].ino = m[1]
  <2>1. Inside(d)
    <3>1. PICK f : Inside(f)
      BY <1>2, <1>3, <1>8
    <3> QED
      BY <1>8, <3>1
  <2>2. u[d].at < u[q].at
    BY <1>5, <1>6, <2>1
  <2>3. ASSUME NEW m \in DOMAIN u, u[d].at < u[m].at, u[m].at < u[q].at
        PROVE  \E l \in DOMAIN u : u[d].at <= u[l].at /\ u[l].at < u[m].at /\ u[l].ino = m[1]
    <3>1. m \in DOMAIN ent
      BY <1>4, <1>5, <2>3
    <3>2. ent[d].at < ent[m].at /\ ent[m].at < P
      BY <1>5, <1>6, <2>3, <3>1
    <3>3. PICK l \in DOMAIN ent :
            ent[d].at <= ent[l].at /\ ent[l].at < ent[m].at /\ ent[l].ino = m[1]
      BY <2>1, <3>1, <3>2
    <3> QED
      BY <1>4, <1>6, <3>1, <3>3
  <2> QED
    BY <2>2, <2>3
<1>9. \A k \in DOMAIN u : k[1] # u[q].ino
  BY <1>4, <1>5
<1>10. WalkIn(u)
  <2> SUFFICES ASSUME NEW k \in DOMAIN u, NEW d \in DOMAIN u, u[d].ino = k[1]
               PROVE  /\ u[d].at < u[k].at
                      /\ \A m \in DOMAIN u : u[d].at < u[m].at /\ u[m].at < u[k].at =>
                           \E l \in DOMAIN u : /\ u[d].at <= u[l].at /\ u[l].at < u[m].at
                                                /\ u[l].ino = m[1]
    BY DEF WalkIn
  <2>1. d \in DOMAIN ent /\ ent[d].ino = k[1]
    BY <1>4, <1>9
  <2>2. CASE k = q
    BY <1>8, <2>1, <2>2
  <2>3. CASE k \in DOMAIN ent
    <3>1. u[d].at < u[k].at
      BY <1>6, <2>1, <2>3 DEF WalkIn
    <3> QED
      BY <1>7, <2>1, <2>3, <3>1
  <2> QED
    BY <1>4, <2>2, <2>3
<1> QED
  BY <1>4, <1>10 DEF u

\* Every step keeps the order of the walk.
LEMMA NextWalk ==
  ASSUME Inv, WalkInv, [Next]_vars
  PROVE  WalkInv'
<1>1. /\ NameInv /\ HeapInv /\ TypeOK /\ 0 \in Sizes
      /\ TreeOK(ent) /\ DirNames(ent) /\ DirTree(ent) /\ WalkIn(ent) /\ Placed(ent)
  BY SizeAssumption, NameInvTree DEF Inv, NameInv, Sizes, WalkInv
<1>2. /\ \A l \in DOMAIN ent : ent[l].ino # RootIno /\ ent[l].ino # nextIno
      /\ nextIno # RootIno
  <2>1. /\ \A l \in DOMAIN ent : /\ ent[l].ino \in Nat /\ RootIno < ent[l].ino
                                 /\ ent[l].ino < nextIno
        /\ nextIno \in Nat /\ RootIno < nextIno /\ RootIno \in Nat
    BY <1>1, InoAssumption DEF NameInv, TypeOK, Entry, Inos
  <2> QED
    BY <2>1
<1>3. ASSUME NEW x, \A l \in DOMAIN ent : ent[l].ino = x => ~ent[l].dir, x # RootIno
      PROVE  \A l \in DOMAIN ent : l[1] # x
  BY <1>1, <1>3 DEF DirTree
<1>4. ASSUME NEW k \in Keys, Create(k) \/ Mkdir(k) PROVE WalkInv'
  <2>1. PICK isDir \in BOOLEAN : Make(k, isDir)
    BY <1>4 DEF Create, Mkdir
  <2> DEFINE e == NewEntry(k, isDir)
  <2>2. /\ k[1] = RootIno \/ \E l \in DOMAIN ent : ent[l].ino = k[1] /\ ent[l].dir
        /\ k \notin DOMAIN ent /\ e \in Entry
    BY <1>1, <2>1, MakeEffect
  <2>3. ent' = With(ent, k, e) \/ ent' = ent
    BY <2>1 DEF Make
  <2>4. e.at = Place(k[1]) /\ e.ino = nextIno
    BY DEF NewEntry
  <2> HIDE DEF e
  <2>5. e.ino # k[1] /\ \A l \in DOMAIN ent : l[1] # e.ino
    BY <1>2, <1>3, <2>2, <2>4
  <2>6. WalkIn(With(ent, k, e)) /\ Placed(With(ent, k, e))
    BY <1>1, <2>2, <2>4, <2>5, WithWalk
  <2> QED
    BY <1>1, <2>3, <2>6 DEF WalkInv
<1>5. ASSUME NEW k \in Keys, NEW x \in Inos, Link(k, x) PROVE WalkInv'
  <2>1. /\ k[1] = RootIno \/ \E l \in DOMAIN ent : ent[l].ino = k[1] /\ ent[l].dir
        /\ k \notin DOMAIN ent
        /\ First(x) \in DOMAIN ent /\ ent[First(x)].ino = x /\ ~ent[First(x)].dir
        /\ \E e \in Entry : /\ e.ino = x /\ e.at = Place(k[1])
                            /\ SameOrder(ent', With(ent, k, e))
    <3>1. NameInv
      BY <1>1
    <3>2. \E e \in Entry : /\ e.ino = x /\ e.at = Place(k[1])
                          /\ SameOrder(ent', With(ent, k, e))
      BY <3>1, <1>5, LinkEffect
    <3>3. /\ k[1] = RootIno \/ \E l \in DOMAIN ent : ent[l].ino = k[1] /\ ent[l].dir
          /\ k \notin DOMAIN ent
      BY <3>1, <1>5, LinkEffect
    <3>4. First(x) \in DOMAIN ent /\ ent[First(x)].ino = x /\ ~ent[First(x)].dir
      <4>1. LinksOf(x) # {} /\ ~ent[First(x)].dir
        BY <1>5 DEF Link, RegularFiles
      <4> QED
        BY <1>1, <4>1, FirstIsALink
    <3> QED
      BY <3>2, <3>3, <3>4
  <2>2. PICK e \in Entry : e.ino = x /\ e.at = Place(k[1]) /\ SameOrder(ent', With(ent, k, e))
    BY <2>1
  <2>3. x # RootIno /\ \A l \in DOMAIN ent : ent[l].ino = x => ~ent[l].dir
    BY <1>1, <1>2, <2>1 DEF DirNames
  <2>4. e.ino # k[1] /\ \A l \in DOMAIN ent : l[1] # e.ino
    BY <1>3, <2>1, <2>2, <2>3
  <2>5. WalkIn(With(ent, k, e)) /\ Placed(With(ent, k, e))
    BY <1>1, <2>1, <2>2, <2>4, WithWalk
  <2> QED
    BY <2>2, <2>5, SameWalk DEF WalkInv
<1>6. ASSUME NEW k \in Keys, Unlink(k) PROVE WalkInv'
  <2>1. /\ k \in DOMAIN ent /\ ~ent[k].dir
        /\ \E t : TreeOK(t) /\ SameOrder(t, ent) /\ ent' = Without(t, {k})
    BY <1>1, <1>6, UnlinkEffect
  <2>2. PICK t : TreeOK(t) /\ SameOrder(t, ent) /\ ent' = Without(t, {k})
    BY <2>1
  <2>3. WalkIn(t) /\ Placed(t)
    BY <1>1, <2>2, SameWalk
  <2>4. \A l \in DOMAIN ent : l[1] # ent[k].ino
    BY <1>1, <1>2, <1>3, <2>1 DEF DirNames
  <2>5. k \in DOMAIN t /\ \A l \in DOMAIN t : l[1] # t[k].ino
    BY <2>1, <2>2, <2>4 DEF SameOrder
  <2> QED
    BY <2>2, <2>3, <2>5, WithoutWalk DEF WalkInv
<1>7. ASSUME NEW k \in Keys, Rmdir(k) PROVE WalkInv'
  <2>1. k \in DOMAIN ent /\ (\A l \in DOMAIN ent : l[1] # ent[k].ino) /\ ent' = Without(ent, {k})
    BY <1>7 DEF Rmdir
  <2> QED
    BY <1>1, <2>1, WithoutWalk DEF WalkInv
<1>8. ASSUME NEW x \in RegularFiles, \E M, ptr, s : DataStep(x, M, ptr, s) PROVE WalkInv'
  <2>1. SameOrder(ent', ent)
    BY <1>8 DEF DataStep, SameOrder
  <2> QED
    BY <1>1, <2>1, SameWalk DEF WalkInv
<1>9. ASSUME NEW x \in Inos, NEW append \in BOOLEAN, NEW o \in Sizes, NEW p \in Payloads,
             Write(x, append, o, p)
      PROVE  WalkInv'
  BY <1>1, <1>8, <1>9, WriteEffect
<1>10. ASSUME NEW x \in Inos, NEW n \in Sizes, Setattr(x, n) PROVE WalkInv'
  BY <1>1, <1>8, <1>10, SetattrEffect
<1>11. ASSUME NEW x \in Inos, OpenTrunc(x) PROVE WalkInv'
  BY <1>1, <1>8, <1>11, OpenTruncEffect
<1>12. CASE Unmount \/ Mount
  <2>1. DOMAIN ent' = {}
    BY <1>12 DEF Unmount, Mount
  <2> QED
    BY <2>1 DEF WalkInv, WalkIn, Placed
<1>13. CASE UNCHANGED vars
  BY <1>1, <1>13 DEF vars, WalkInv
<1> QED
  BY <1>1, <1>4, <1>5, <1>6, <1>7, <1>9, <1>10, <1>11, <1>12, <1>13 DEF Next

-----------------------------------------------------------------------------
(* Theorems *)

\* The tree's records, link counts and buffers satisfy the inductive invariant in
\* every reachable state, for every number of names, files, links and buffers.
THEOREM Invariance == Spec => []Inv
BY InitInv, NextInv, PTL DEF Spec

\* The records and the heap stay well formed under every handler.
THEOREM TypeCorrect == Spec => []TypeOK
<1>1. Inv => TypeOK
  BY InvImplies
<1> QED
  BY <1>1, Invariance, PTL

\* The link count of every entry is the number of names of its inode.
THEOREM LinkCounts == Spec => []NlinkExact
<1>1. Inv => NlinkExact
  BY InvImplies
<1> QED
  BY <1>1, Invariance, PTL

\* Directories form a tree with inode numbers that grow from the root down.
THEOREM TreeShaped == Spec => []TreeShape
<1>1. Inv => TreeShape
  BY InvImplies
<1> QED
  BY <1>1, Invariance, PTL

\* No entry points to freed memory, hard links and failures included.
THEOREM HeapSafe == Spec => []NoDangling
<1>1. Inv => NoDangling
  BY InvImplies
<1> QED
  BY <1>1, Invariance, PTL

\* No two files share a buffer, whatever kfree and krealloc give out again.
THEOREM BuffersApart == Spec => []OneOwner
<1>1. Inv => OneOwner
  BY InvImplies
<1> QED
  BY <1>1, Invariance, PTL

\* No entry claims more bytes than its buffer holds: vtfs_read stays inside it.
THEOREM ReadsInside == Spec => []SizeFits
<1>1. Inv => SizeFits
  BY InvImplies
<1> QED
  BY <1>1, Invariance, PTL

\* Adding and removing names leaves the bytes of all files alone, and
\* a write, truncation or O_TRUNC changes the bytes of one file: two files share
\* no buffer, and what krealloc frees or moves belongs to one.
THEOREM ContentsApart == Spec => ContentIsolation
<1> DEFINE Apart == mounted /\ mounted' =>
                      Cardinality(Changed) <= IF DOMAIN ent' = DOMAIN ent THEN 1 ELSE 0
<1>1. ASSUME Inv, [Next]_vars PROVE [Apart]_vars
  <2> SUFFICES ASSUME Next, mounted, mounted'
               PROVE  Cardinality(Changed) <= IF DOMAIN ent' = DOMAIN ent THEN 1 ELSE 0
    BY <1>1
  <2> USE <1>1
  <2>1. Cardinality({}) = 0 /\ 0 <= 1 /\ 0 <= 0
    BY FS_EmptySet
  <2>2. ASSUME NEW k \in Keys,
               \/ Create(k) \/ Mkdir(k) \/ Unlink(k) \/ Rmdir(k) \/ \E y \in Inos : Link(k, y)
        PROVE  Cardinality(Changed) = 0
    <3>1. Changed = {}
      BY <2>2, NamesKeepContent DEF Changed
    <3> QED
      BY <2>1, <3>1
  <2>3. ASSUME NEW x \in RegularFiles, \E M, ptr, s : DataStep(x, M, ptr, s)
        PROVE  Cardinality(Changed) <= 1 /\ DOMAIN ent' = DOMAIN ent
    <3>1. PICK M, ptr, s : DataStep(x, M, ptr, s)
      BY <2>3
    <3>2. DOMAIN ent' = DOMAIN ent
      BY <3>1 DEF DataStep
    <3>3. Changed \subseteq {x}
      BY <3>1, DataKeepsContent DEF Changed
    <3>4. IsFiniteSet({x}) /\ Cardinality({x}) = 1
      BY FS_Singleton
    <3>5. Cardinality(Changed) <= Cardinality({x})
      BY <3>3, <3>4, FS_Subset, Zenon
    <3> QED
      BY <3>2, <3>4, <3>5
  <2>4. NameInv /\ HeapInv /\ 0 \in Sizes
    BY SizeAssumption DEF Inv, Sizes
  <2>5. ASSUME NEW x \in Inos, NEW append \in BOOLEAN, NEW o \in Sizes, NEW p \in Payloads,
               Write(x, append, o, p)
        PROVE  Cardinality(Changed) <= 1 /\ DOMAIN ent' = DOMAIN ent
    BY <2>3, <2>4, <2>5, WriteEffect
  <2>6. ASSUME NEW x \in Inos, NEW n \in Sizes, Setattr(x, n)
        PROVE  Cardinality(Changed) <= 1 /\ DOMAIN ent' = DOMAIN ent
    BY <2>3, <2>4, <2>6, SetattrEffect
  <2>7. ASSUME NEW x \in Inos, OpenTrunc(x)
        PROVE  Cardinality(Changed) <= 1 /\ DOMAIN ent' = DOMAIN ent
    BY <2>3, <2>4, <2>7, OpenTruncEffect
  <2>8. ~ Unmount /\ ~ Mount
    BY DEF Unmount, Mount
  <2>9. Cardinality(Changed) = 0 \/ (Cardinality(Changed) <= 1 /\ DOMAIN ent' = DOMAIN ent)
    BY <2>2, <2>4, <2>5, <2>6, <2>7, <2>8 DEF Next
  <2> QED
    BY <2>1, <2>9
<1>2. Spec => [][Apart]_vars
  BY <1>1, Invariance, PTL DEF Spec
<1> QED
  BY <1>2 DEF ContentIsolation

\* vtfs_kill_sb frees no buffer twice when no file has names in two directories.
THEOREM FreedOnce == Spec => UnmountFreesOnce
<1> DEFINE OneDir == \A k, l \in DOMAIN ent : ent[k].ino = ent[l].ino => k[1] = l[1]
           Once == mounted /\ ~ mounted' /\ OneDir => twice' = {}
<1>1. ASSUME Inv, [Next]_vars PROVE [Once]_vars
  <2> HIDE DEF OneDir
  <2> SUFFICES ASSUME Next, mounted, ~ mounted', OneDir PROVE twice' = {}
    BY <1>1
  <2>1. Unmount
    <3>1. ASSUME NEW k \in Keys,
                 Create(k) \/ Mkdir(k) \/ Unlink(k) \/ Rmdir(k) \/ \E x \in Inos : Link(k, x)
          PROVE  mounted'
      BY <3>1 DEF Create, Mkdir, Make, Link, Unlink, Rmdir
    <3>2. ASSUME NEW x, NEW append, NEW o, NEW p, Write(x, append, o, p) PROVE mounted'
      BY <3>2 DEF Write, WriteFile
    <3>3. ASSUME NEW x, NEW n, Setattr(x, n) \/ OpenTrunc(x) PROVE mounted'
      BY <3>3 DEF Setattr, OpenTrunc
    <3>4. ~ Mount
      BY DEF Mount
    <3> QED
      BY <3>1, <3>2, <3>3, <3>4 DEF Next
  <2>2. PICK freed \in IF "nomem" \in Faults THEN SUBSET Held ELSE {Held} :
          twice' = {h[2] : h \in {g \in freed : \E g2 \in freed : g2[2] = g[2] /\ g2 # g}}
    BY <2>1 DEF Unmount
  <2>3. \A g, h \in Held : g[2] = h[2] => g = h
    <3> SUFFICES ASSUME NEW g \in Held, NEW h \in Held, g[2] = h[2] PROVE g = h
      OBVIOUS
    <3>1. PICK k \in DOMAIN ent : ent[k].data \in Buffers /\ g = <<k[1], ent[k].data>>
      BY DEF Held
    <3>2. PICK l \in DOMAIN ent : ent[l].data \in Buffers /\ h = <<l[1], ent[l].data>>
      BY DEF Held
    <3>3. ent[k].ino = ent[l].ino
      BY <1>1, <3>1, <3>2 DEF Inv, HeapInv, OneOwner
    <3>4. k[1] = l[1]
      BY <3>3 DEF OneDir
    <3> QED
      BY <3>1, <3>2, <3>4
  <2> DEFINE again == {g \in freed : \E g2 \in freed : g2[2] = g[2] /\ g2 # g}
  <2>4. again = {}
    BY <2>2, <2>3
  <2>5. twice' = {h[2] : h \in again}
    BY <2>2
  <2> HIDE DEF again
  <2> QED
    BY <2>4, <2>5
<1>2. Spec => [][Once]_vars
  BY <1>1, Invariance, PTL DEF Spec
<1> QED
  BY <1>2 DEF UnmountFreesOnce

\* Without hard links every file and directory has one name.
THEOREM OneNameEach ==
  ASSUME MaxLinks <= 1
  PROVE  Spec => []OneName(ent)
<1>1. Init => OneName(ent)
  BY DEF Init, OneName
<1>2. Inv /\ OneName(ent) /\ [Next]_vars => OneName(ent)'
  BY OneNameNext
<1> QED
  BY <1>1, <1>2, Invariance, PTL DEF Spec

\* Without hard links and failing allocations every buffer that kmalloc gave out
\* is the data of an entry, and vtfs_kill_sb leaves none allocated.
THEOREM NothingLeaks ==
  ASSUME MaxLinks <= 1, "nomem" \notin Faults
  PROVE  Spec => []NoLeak
<1>1. Init => AllHeld
  BY DEF Init, AllHeld, NoLeak, NoDirData
<1>2. Inv /\ OneName(ent) /\ AllHeld /\ [Next]_vars => AllHeld'
  BY NextAllHeld
<1>3. AllHeld => NoLeak
  BY DEF AllHeld
<1> QED
  BY <1>1, <1>2, <1>3, Invariance, OneNameEach, PTL DEF Spec

\* The walk of the tree goes depth first, wherever list_add_tail puts entries and
\* in whatever order they go: what vtfs_find_file_by_ino takes for the file is the
\* first entry in the order of the lists.
THEOREM WalksDepthFirst == Spec => []WalkOrder
<1>1. Init => WalkInv
  BY DEF Init, WalkInv, WalkIn, Placed
<1>2. Inv /\ WalkInv /\ [Next]_vars => WalkInv'
  BY NextWalk
<1>3. WalkInv => WalkOrder
  BY DEF WalkInv, WalkIn, WalkOrder
<1> QED
  BY <1>1, <1>2, <1>3, Invariance, PTL DEF Spec
=============================================================================
