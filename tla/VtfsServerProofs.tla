------------------------- MODULE VtfsServerProofs -------------------------
(***************************************************************************)
(* Proofs about VtfsServer, for all tokens, names, primary keys, inode     *)
(* numbers, sizes and writes.                                              *)
(***************************************************************************)
EXTENDS VtfsServer, FiniteSetTheorems, WellFoundedInduction, TLAPS

-----------------------------------------------------------------------------
(* The properties as statements about tables R and C, so that they can be  *)
(* made of the tables before and after a transaction alike.                *)

OfIn(R, t, x) == {i \in DOMAIN R : R[i].token = t /\ R[i].ino = x}

TypeIn(R, C) == /\ DOMAIN R \subseteq Ids
                /\ \A i \in DOMAIN R : R[i] \in VtfsFile
                /\ C \subseteq FileData

UniqueIn(R) ==
  \A i, j \in DOMAIN R :
    R[i].token = R[j].token /\ R[i].parent = R[j].parent /\ R[i].name = R[j].name => i = j

NlinkIn(R) == \A i \in DOMAIN R : R[i].nlink = Cardinality(OfIn(R, R[i].token, R[i].ino))

OwnedIn(R, C) ==
  \A c \in C :
    /\ c.file \in OfIn(R, c.token, c.ino) /\ ~R[c.file].dir
    /\ \A i \in OfIn(R, c.token, c.ino) : c.off + Len(c.bytes) <= R[i].size

DisjointIn(C) ==
  \A c, e \in C :
    c.token = e.token /\ c.ino = e.ino /\ c # e =>
      c.off + Len(c.bytes) <= e.off \/ e.off + Len(e.bytes) <= c.off

\* The inductive invariant: the properties, which need one another, and that the
\* table of files is finite.
Inv == /\ TypeIn(rows, chunks)
       /\ IsFiniteSet(DOMAIN rows)
       /\ UniqueIn(rows)
       /\ NlinkIn(rows)
       /\ OwnedIn(rows, chunks)
       /\ DisjointIn(chunks)

\* The invariant says of the tables what the properties say.
LEMMA InvImplies == Inv => TypeOK /\ UniqueNames /\ NlinkCountsRows /\ ChunksOwned /\ ChunksDisjoint
<1>1. \A t, x : OfIno(t, x) = OfIn(rows, t, x)
  BY DEF OfIno, OfIn
<1> QED
  BY <1>1 DEF Inv, TypeIn, UniqueIn, NlinkIn, OwnedIn, DisjointIn,
             TypeOK, UniqueNames, NlinkCountsRows, ChunksOwned, ChunksDisjoint

-----------------------------------------------------------------------------
(* Lemmas about the queries *)

\* A set of numbers that is bounded has a greatest one.
LEMMA GreatestExists ==
  ASSUME NEW top \in Nat, NEW S, S \subseteq 0 .. top, S # {}
  PROVE  \E n \in S : \A m \in S : m <= n
<1> DEFINE T == {top - n : n \in S}
<1>1. T \subseteq Nat
  OBVIOUS
<1>2. T # {}
  OBVIOUS
<1>3. \A n \in S : top - n \in T
  OBVIOUS
<1>4. \A k \in T : \E n \in S : k = top - n
  OBVIOUS
<1> HIDE DEF T
<1>5. PICK k \in T : \A m \in T : <<m, k>> \notin OpToRel(<, Nat)
  BY <1>1, <1>2, NatLessThanWellFounded, WFMin, Zenon
<1>6. \A m \in T : ~ (m < k)
  BY <1>1, <1>5, Zenon DEF OpToRel
<1>7. PICK n \in S : k = top - n
  BY <1>4
<1>8. \A m \in S : ~ (top - m < top - n)
  BY <1>6, <1>7, <1>3
<1> QED
  BY <1>8

\* MAX(ino) + 1 is a number that no row of the token has.
LEMMA NewInoIsNew ==
  ASSUME TypeIn(rows, chunks), NEW t
  PROVE  /\ NewIno(t) \in Nat /\ NewIno(t) >= FirstIno
         /\ \A i \in DOMAIN rows : rows[i].token = t => rows[i].ino < NewIno(t)
<1> DEFINE mine == {rows[i].ino : i \in {j \in DOMAIN rows : rows[j].token = t}}
<1>1. mine \subseteq 0 .. LastIno /\ \A x \in mine : x >= FirstIno
  BY ServerAssumption DEF TypeIn, VtfsFile, Inos
<1>2. CASE mine = {}
  <2>1. NewIno(t) = FirstIno
    BY <1>2 DEF NewIno
  <2>2. \A i \in DOMAIN rows : rows[i].token # t
    BY <1>2
  <2> QED
    BY <2>1, <2>2, ServerAssumption
<1>3. CASE mine # {}
  <2>1. \E x \in mine : \A z \in mine : z <= x
    BY <1>1, <1>3, GreatestExists, ServerAssumption
  <2> DEFINE top == CHOOSE x \in mine : \A z \in mine : z <= x
  <2>2. top \in mine /\ \A z \in mine : z <= top
    BY <2>1
  <2>3. NewIno(t) = 1 + top
    BY <1>3 DEF NewIno
  <2>4. \A i \in DOMAIN rows : rows[i].token = t => rows[i].ino \in mine
    OBVIOUS
  <2>5. mine \subseteq Nat
    BY <1>1, ServerAssumption
  <2> HIDE DEF mine, top
  <2>6. top \in Nat /\ top >= FirstIno /\ \A z \in mine : z < 1 + top
    BY <1>1, <2>2, <2>5
  <2> QED
    BY <2>3, <2>4, <2>6, ServerAssumption
<1> QED
  BY <1>2, <1>3

-----------------------------------------------------------------------------
(* The transactions keep the invariant.                                    *)

\* Rows kept as they are stay in the sets they were in.
LEMMA InsertIs ==
  ASSUME NEW i, NEW row, i \notin DOMAIN rows, rows' = Insert(i, row)
  PROVE  /\ DOMAIN rows' = DOMAIN rows \cup {i}
         /\ rows'[i] = row
         /\ \A k \in DOMAIN rows : rows'[k] = rows[k] /\ k # i
BY DEF Insert

LEMMA CreateKeeps ==
  ASSUME Inv, NEW t \in Tokens, NEW d \in Dirs, NEW n \in Names, NEW isDir \in BOOLEAN,
         Create(t, d, n, isDir)
  PROVE  Inv'
<1> DEFINE new == NewRow(t, d, n, isDir)
<1>1. PICK i \in FreshIds : rows' = Insert(i, new)
  BY DEF Create
<1>2. /\ DOMAIN rows' = DOMAIN rows \cup {i} /\ rows'[i] = new /\ i \in Ids /\ i \notin DOMAIN rows
      /\ \A k \in DOMAIN rows : rows'[k] = rows[k] /\ k # i
      /\ chunks' = chunks
  BY <1>1, InsertIs, Zenon DEF FreshIds, Create
<1>3. /\ NewIno(t) \in Inos
      /\ \A k \in DOMAIN rows : rows[k].token = t => rows[k].ino # NewIno(t)
  <2>1. TypeIn(rows, chunks)
    BY DEF Inv
  <2>2. /\ NewIno(t) \in Nat /\ NewIno(t) >= FirstIno
        /\ \A k \in DOMAIN rows : rows[k].token = t => rows[k].ino < NewIno(t)
    BY <2>1, NewInoIsNew
  <2>3. NewIno(t) <= LastIno
    BY DEF Create
  <2>4. \A k \in DOMAIN rows : rows[k].ino \in Nat
    BY <2>1, ServerAssumption DEF TypeIn, VtfsFile, Inos
  <2> QED
    BY <2>2, <2>3, <2>4, ServerAssumption DEF Inos
<1>4. /\ new \in VtfsFile
      /\ new.token = t /\ new.ino = NewIno(t) /\ new.parent = d /\ new.name = n /\ new.nlink = 1
  BY <1>3, ServerAssumption DEF NewRow, VtfsFile, Sizes
<1> HIDE DEF new
<1>5. OfIn(rows', t, NewIno(t)) = {i}
  BY <1>2, <1>3, <1>4 DEF OfIn
<1>6. \A s, y : s # t \/ y # NewIno(t) => OfIn(rows', s, y) = OfIn(rows, s, y)
  BY <1>2, <1>4 DEF OfIn
<1>7. TypeIn(rows', chunks')
  BY <1>2, <1>4 DEF Inv, TypeIn
<1>8. IsFiniteSet(DOMAIN rows')
  BY <1>2, FS_AddElement DEF Inv
<1>9. UniqueIn(rows')
  <2>1. \A k \in DOMAIN rows : ~(rows[k].token = t /\ rows[k].parent = d /\ rows[k].name = n)
    BY DEF Create, Exists, InParent
  <2> QED
    BY <1>2, <1>4, <2>1 DEF Inv, UniqueIn
<1>10. NlinkIn(rows')
  <2>1. Cardinality(OfIn(rows', t, NewIno(t))) = 1
    BY <1>5, FS_Singleton
  <2>2. \A k \in DOMAIN rows : rows'[k].nlink = Cardinality(OfIn(rows', rows'[k].token, rows'[k].ino))
    BY <1>2, <1>3, <1>6 DEF Inv, NlinkIn
  <2> QED
    BY <1>2, <1>4, <2>1, <2>2 DEF NlinkIn
<1>11. OwnedIn(rows', chunks')
  <2> SUFFICES ASSUME NEW c \in chunks
               PROVE  /\ c.file \in OfIn(rows', c.token, c.ino) /\ ~rows'[c.file].dir
                      /\ \A k \in OfIn(rows', c.token, c.ino) : c.off + Len(c.bytes) <= rows'[k].size
    BY <1>2 DEF OwnedIn
  <2>1. /\ c.file \in OfIn(rows, c.token, c.ino) /\ ~rows[c.file].dir
        /\ \A k \in OfIn(rows, c.token, c.ino) : c.off + Len(c.bytes) <= rows[k].size
    BY DEF Inv, OwnedIn
  <2>2. c.token # t \/ c.ino # NewIno(t)
    BY <1>3, <2>1 DEF OfIn
  <2>3. OfIn(rows', c.token, c.ino) = OfIn(rows, c.token, c.ino)
    BY <1>6, <2>2
  <2>4. \A k \in OfIn(rows, c.token, c.ino) : rows'[k] = rows[k]
    BY <1>2 DEF OfIn
  <2> QED
    BY <2>1, <2>3, <2>4
<1>12. DisjointIn(chunks')
  BY <1>2 DEF Inv
<1> QED
  BY <1>7, <1>8, <1>9, <1>10, <1>11, <1>12 DEF Inv

LEMMA LinkKeeps ==
  ASSUME Inv, NEW t \in Tokens, NEW d \in Dirs, NEW n \in Names, NEW x \in Inos, Link(t, x, d, n)
  PROVE  Inv'
<1>1. PICK i \in OfIno(t, x), j \in FreshIds :
        /\ IsOnly(i, t, x)
        /\ LET linked == Insert(j, [rows[i] EXCEPT !.parent = d, !.name = n])
           IN rows' = [k \in DOMAIN linked |->
                         IF k \in {i, j} THEN [linked[k] EXCEPT !.nlink = rows[i].nlink + 1]
                         ELSE linked[k]]
  BY DEF Link
<1> DEFINE old == rows[i]
           m == old.nlink + 1
<1>2. /\ i \in DOMAIN rows /\ old.token = t /\ old.ino = x /\ j \in Ids /\ j \notin DOMAIN rows
      /\ OfIn(rows, t, x) = {i} /\ old \in VtfsFile /\ ~old.dir
      /\ chunks' = chunks
  BY <1>1 DEF OfIno, OfIn, FreshIds, IsOnly, Inv, TypeIn, Link
<1>3. /\ DOMAIN rows' = DOMAIN rows \cup {j}
      /\ rows'[i] = [old EXCEPT !.nlink = m]
      /\ \A k \in DOMAIN rows : k # j /\ (k # i => rows'[k] = rows[k])
  BY <1>1, <1>2 DEF Insert, VtfsFile
<1>4. old.nlink = 1
  <2>1. Cardinality(OfIn(rows, t, x)) = 1
    BY <1>2, FS_Singleton
  <2> QED
    BY <1>2, <2>1 DEF Inv, NlinkIn
<1>5. /\ rows'[i] \in VtfsFile /\ rows'[j] \in VtfsFile
      /\ rows'[i].token = t /\ rows'[i].ino = x /\ rows'[i].parent = old.parent /\ rows'[i].name = old.name
      /\ rows'[i].nlink = 2 /\ rows'[i].size = old.size /\ rows'[i].dir = old.dir
      /\ rows'[j].token = t /\ rows'[j].ino = x /\ rows'[j].parent = d /\ rows'[j].name = n
      /\ rows'[j].nlink = 2 /\ rows'[j].size = old.size /\ rows'[j].dir = old.dir
  <2>1. old = [token |-> t, ino |-> x, parent |-> old.parent, name |-> old.name, dir |-> old.dir,
               nlink |-> 1, size |-> old.size]
    BY <1>2, <1>4 DEF VtfsFile
  <2>2. /\ old.parent \in Dirs /\ old.name \in Names /\ old.dir \in BOOLEAN /\ old.size \in Sizes
    BY <1>2 DEF VtfsFile
  <2>3. m = 2
    BY <1>4
  <2> HIDE DEF old, m
  <2>4. rows'[i] = [token |-> t, ino |-> x, parent |-> old.parent, name |-> old.name, dir |-> old.dir,
                    nlink |-> 2, size |-> old.size]
    BY <1>3, <2>1, <2>3
  <2> DEFINE moved == [old EXCEPT !.parent = d, !.name = n]
  <2>8. moved \in VtfsFile
    BY <1>2 DEF VtfsFile
  <2>6. /\ moved.token = t /\ moved.ino = x /\ moved.parent = d /\ moved.name = n
        /\ moved.dir = old.dir /\ moved.size = old.size
    BY <2>1
  <2>7. rows'[j] = [moved EXCEPT !.nlink = m]
    BY <1>1, <1>2 DEF Insert, old, m
  <2> HIDE DEF moved
  <2>5. /\ rows'[j] \in VtfsFile
        /\ rows'[j].token = t /\ rows'[j].ino = x /\ rows'[j].parent = d /\ rows'[j].name = n
        /\ rows'[j].nlink = 2 /\ rows'[j].size = old.size /\ rows'[j].dir = old.dir
    BY <2>3, <2>6, <2>7, <2>8 DEF VtfsFile
  <2> QED
    BY <2>2, <2>4, <2>5 DEF VtfsFile
<1> HIDE DEF old, m
<1>6. OfIn(rows', t, x) = {i, j}
  <2>1. \A k \in DOMAIN rows : k # i => ~(rows[k].token = t /\ rows[k].ino = x)
    BY <1>2 DEF OfIn
  <2> QED
    BY <1>2, <1>3, <1>5, <2>1 DEF OfIn
<1>7. \A s, y : s # t \/ y # x => OfIn(rows', s, y) = OfIn(rows, s, y)
  BY <1>2, <1>3, <1>5 DEF OfIn, old
<1>8. TypeIn(rows', chunks')
  BY <1>2, <1>3, <1>5 DEF Inv, TypeIn
<1>9. IsFiniteSet(DOMAIN rows')
  BY <1>3, FS_AddElement DEF Inv
<1>10. UniqueIn(rows')
  <2>1. \A k \in DOMAIN rows : ~(rows[k].token = t /\ rows[k].parent = d /\ rows[k].name = n)
    BY DEF Link, Exists, InParent
  <2>2. \A k \in DOMAIN rows : rows'[k].token = rows[k].token /\ rows'[k].parent = rows[k].parent
                                 /\ rows'[k].name = rows[k].name
    BY <1>2, <1>3, <1>5 DEF old
  <2>3. /\ DOMAIN rows' = DOMAIN rows \cup {j}
        /\ rows'[j].token = t /\ rows'[j].parent = d /\ rows'[j].name = n
    BY <1>3, <1>5
  <2> QED
    BY <2>1, <2>2, <2>3 DEF Inv, UniqueIn
<1>11. NlinkIn(rows')
  <2>1. Cardinality(OfIn(rows', t, x)) = 2
    <3>1. i # j
      BY <1>2
    <3>2. Cardinality({i} \cup {j}) = Cardinality({i}) + 1
      BY <3>1, FS_AddElement, FS_Singleton
    <3>3. {i} \cup {j} = {i, j} /\ Cardinality({i}) = 1
      BY FS_Singleton
    <3> QED
      BY <1>6, <3>2, <3>3
  <2>2. \A k \in DOMAIN rows :
          k # i => rows'[k].nlink = Cardinality(OfIn(rows', rows'[k].token, rows'[k].ino))
    <3> SUFFICES ASSUME NEW k \in DOMAIN rows, k # i
                 PROVE  rows'[k].nlink = Cardinality(OfIn(rows', rows'[k].token, rows'[k].ino))
      OBVIOUS
    <3>1. rows[k].token # t \/ rows[k].ino # x
      BY <1>2 DEF OfIn
    <3> QED
      BY <1>3, <1>7, <3>1 DEF Inv, NlinkIn
  <2> QED
    BY <1>3, <1>5, <2>1, <2>2 DEF NlinkIn
<1>12. OwnedIn(rows', chunks')
  <2> SUFFICES ASSUME NEW c \in chunks
               PROVE  /\ c.file \in OfIn(rows', c.token, c.ino) /\ ~rows'[c.file].dir
                      /\ \A k \in OfIn(rows', c.token, c.ino) : c.off + Len(c.bytes) <= rows'[k].size
    BY <1>2 DEF OwnedIn
  <2>1. /\ c.file \in OfIn(rows, c.token, c.ino) /\ ~rows[c.file].dir
        /\ \A k \in OfIn(rows, c.token, c.ino) : c.off + Len(c.bytes) <= rows[k].size
    BY DEF Inv, OwnedIn
  <2>2. CASE c.token = t /\ c.ino = x
    BY <1>2, <1>5, <1>6, <2>1, <2>2 DEF old
  <2>3. CASE c.token # t \/ c.ino # x
    <3>1. \A k \in OfIn(rows, c.token, c.ino) : k # i /\ k \in DOMAIN rows
      BY <1>2, <2>3 DEF OfIn, old
    <3> QED
      BY <1>3, <1>7, <2>1, <2>3, <3>1
  <2> QED
    BY <2>2, <2>3
<1>13. DisjointIn(chunks')
  BY <1>2 DEF Inv
<1> QED
  BY <1>8, <1>9, <1>10, <1>11, <1>12, <1>13 DEF Inv

LEMMA WriteKeeps ==
  ASSUME Inv, NEW t \in Tokens, NEW x \in Inos, NEW off \in Sizes, NEW p \in Payloads,
         Write(t, x, off, p)
  PROVE  Inv'
<1> DEFINE end == off + Len(p)
<1>1. PICK i \in OfIno(t, x) :
        /\ IsOnly(i, t, x)
        /\ chunks' = (chunks \ InRange(t, x, off, off + Len(p)))
                     \cup {[token |-> t, ino |-> x, off |-> off, bytes |-> p, file |-> i]}
        /\ rows' = [rows EXCEPT ![i].size = IF off + Len(p) > @ THEN off + Len(p) ELSE @]
  BY DEF Write
<1> DEFINE old == rows[i]
           new == [token |-> t, ino |-> x, off |-> off, bytes |-> p, file |-> i]
           size == IF end > old.size THEN end ELSE old.size
<1>2. /\ i \in DOMAIN rows /\ i \in Ids /\ old.token = t /\ old.ino = x
      /\ OfIn(rows, t, x) = {i} /\ old \in VtfsFile /\ ~old.dir
  BY <1>1 DEF OfIno, OfIn, IsOnly, Inv, TypeIn
<1>3. p \in Seq(Bytes) /\ Len(p) \in Nat /\ off \in Nat /\ end \in Nat /\ end <= MaxSize /\ end >= off
  BY ServerAssumption DEF Sizes, Write
<1>4. size \in Sizes /\ size >= end /\ size >= old.size
  BY <1>2, <1>3, ServerAssumption DEF Sizes, VtfsFile
<1>5. DOMAIN rows' = DOMAIN rows /\ rows' = [rows EXCEPT ![i] = [old EXCEPT !.size = size]]
  BY <1>1, <1>2
<1> HIDE DEF size, end
<1>6. /\ rows'[i] \in VtfsFile /\ rows'[i].token = t /\ rows'[i].ino = x
      /\ rows'[i].parent = old.parent /\ rows'[i].name = old.name
      /\ rows'[i].nlink = old.nlink /\ rows'[i].dir = old.dir /\ rows'[i].size = size
      /\ \A k \in DOMAIN rows : k # i => rows'[k] = rows[k]
  BY <1>2, <1>4, <1>5 DEF VtfsFile
<1>7. \A k \in DOMAIN rows :
         /\ rows'[k].token = rows[k].token /\ rows'[k].ino = rows[k].ino
         /\ rows'[k].parent = rows[k].parent /\ rows'[k].name = rows[k].name
         /\ rows'[k].nlink = rows[k].nlink /\ rows'[k].dir = rows[k].dir
  BY <1>2, <1>6
<1>8. \A s, y : OfIn(rows', s, y) = OfIn(rows, s, y)
  BY <1>5, <1>7 DEF OfIn
<1>9. TypeIn(rows', chunks')
  <2>1. new \in FileData
    BY <1>2, <1>3 DEF FileData
  <2> QED
    BY <1>1, <1>5, <1>6, <2>1 DEF Inv, TypeIn
<1>10. IsFiniteSet(DOMAIN rows')
  BY <1>5 DEF Inv
<1>11. UniqueIn(rows')
  BY <1>5, <1>7 DEF Inv, UniqueIn
<1>12. NlinkIn(rows')
  <2>1. ASSUME NEW k \in DOMAIN rows
        PROVE  rows'[k].nlink = Cardinality(OfIn(rows', rows'[k].token, rows'[k].ino))
    <3>1. OfIn(rows', rows'[k].token, rows'[k].ino) = OfIn(rows, rows[k].token, rows[k].ino)
      BY <1>7, <1>8
    <3> QED
      BY <1>7, <3>1 DEF Inv, NlinkIn
  <2>2. DOMAIN rows' = DOMAIN rows
    BY <1>5
  <2> QED
    BY <2>1, <2>2, Zenon DEF NlinkIn
<1>13. OwnedIn(rows', chunks')
  <2> SUFFICES ASSUME NEW c \in chunks'
               PROVE  /\ c.file \in OfIn(rows', c.token, c.ino) /\ ~rows'[c.file].dir
                      /\ \A k \in OfIn(rows', c.token, c.ino) : c.off + Len(c.bytes) <= rows'[k].size
    BY DEF OwnedIn
  <2>1. CASE c = new
    <3>1. c.token = t /\ c.ino = x /\ c.file = i /\ c.off + Len(c.bytes) = end
      BY <2>1 DEF end
    <3>2. OfIn(rows', t, x) = {i}
      BY <1>2, <1>8
    <3>3. end <= size
      BY <1>3, <1>4 DEF Sizes
    <3> QED
      BY <1>2, <1>6, <3>1, <3>2, <3>3 DEF old
  <2>2. CASE c \in chunks
    <3>1. /\ c.file \in OfIn(rows, c.token, c.ino) /\ ~rows[c.file].dir
          /\ \A k \in OfIn(rows, c.token, c.ino) : c.off + Len(c.bytes) <= rows[k].size
      BY <2>2 DEF Inv, OwnedIn
    <3>2. \A k \in DOMAIN rows : rows'[k].size \in Nat /\ rows[k].size \in Nat /\ rows'[k].size >= rows[k].size
      BY <1>2, <1>4, <1>6, ServerAssumption DEF Inv, TypeIn, VtfsFile, Sizes, old
    <3>3. c.off + Len(c.bytes) \in Nat
      BY <2>2 DEF Inv, TypeIn, FileData, Sizes
    <3>4. \A k \in OfIn(rows, c.token, c.ino) : k \in DOMAIN rows
      BY DEF OfIn
    <3> QED
      BY <1>7, <1>8, <3>1, <3>2, <3>3, <3>4
  <2> QED
    BY <1>1, <2>1, <2>2
<1>14. DisjointIn(chunks')
  <2> SUFFICES ASSUME NEW c \in chunks', NEW e \in chunks', c.token = e.token, c.ino = e.ino, c # e
               PROVE  c.off + Len(c.bytes) <= e.off \/ e.off + Len(e.bytes) <= c.off
    BY DEF DisjointIn
  <2>1. \A k \in chunks' : k # new => k \in chunks /\ k \notin InRange(t, x, off, end)
    BY <1>1 DEF end
  <2>2. ASSUME NEW k \in chunks', k # new, k.token = t, k.ino = x
        PROVE  k.off + Len(k.bytes) <= off \/ end <= k.off
    <3>1. k.off \in Nat /\ Len(k.bytes) \in Nat
      BY <2>1, <2>2 DEF Inv, TypeIn, FileData, Sizes
    <3> QED
      BY <1>3, <2>1, <2>2, <3>1 DEF InRange, ChunksOf
  <2>3. new.token = t /\ new.ino = x /\ new.off = off /\ new.off + Len(new.bytes) = end
    BY DEF end
  <2> HIDE DEF new
  <2>4. CASE c = new
    BY <2>2, <2>3, <2>4
  <2>5. CASE e = new
    BY <2>2, <2>3, <2>5
  <2>6. CASE c # new /\ e # new
    BY <2>1, <2>6 DEF Inv, DisjointIn
  <2> QED
    BY <2>4, <2>5, <2>6
<1> QED
  BY <1>9, <1>10, <1>11, <1>12, <1>13, <1>14 DEF Inv

LEMMA DeleteKeeps ==
  ASSUME Inv, NEW t \in Tokens, NEW x \in Inos, Delete(t, x)
  PROVE  Inv'
<1>1. /\ DOMAIN rows' = DOMAIN rows \ OfIn(rows, t, x)
      /\ \A k \in DOMAIN rows' : rows'[k] = rows[k]
  BY DEF Delete, Remove, OfIno, OfIn
<1>2. chunks' \subseteq chunks /\ \A c \in chunks' : c.file \notin OfIn(rows, t, x)
  BY DEF Delete, OfIno, OfIn
<1>3. \A s, y : s # t \/ y # x => OfIn(rows', s, y) = OfIn(rows, s, y)
  BY <1>1 DEF OfIn
<1>4. \A k \in DOMAIN rows' : rows[k].token # t \/ rows[k].ino # x
  BY <1>1 DEF OfIn
<1>5. TypeIn(rows', chunks')
  BY <1>1, <1>2 DEF Inv, TypeIn
<1>6. IsFiniteSet(DOMAIN rows')
  BY <1>1, FS_Subset, Zenon DEF Inv
<1>7. UniqueIn(rows')
  BY <1>1 DEF Inv, UniqueIn
<1>8. NlinkIn(rows')
  BY <1>1, <1>3, <1>4 DEF Inv, NlinkIn
<1>9. OwnedIn(rows', chunks')
  <2> SUFFICES ASSUME NEW c \in chunks'
               PROVE  /\ c.file \in OfIn(rows', c.token, c.ino) /\ ~rows'[c.file].dir
                      /\ \A k \in OfIn(rows', c.token, c.ino) : c.off + Len(c.bytes) <= rows'[k].size
    BY DEF OwnedIn
  <2>1. /\ c.file \in OfIn(rows, c.token, c.ino) /\ ~rows[c.file].dir
        /\ \A k \in OfIn(rows, c.token, c.ino) : c.off + Len(c.bytes) <= rows[k].size
    BY <1>2 DEF Inv, OwnedIn
  <2>2. OfIn(rows', c.token, c.ino) = OfIn(rows, c.token, c.ino)
    BY <1>2, <1>3, <2>1
  <2>3. \A k \in OfIn(rows', c.token, c.ino) : rows'[k] = rows[k]
    BY <1>1 DEF OfIn
  <2> QED
    BY <2>1, <2>2, <2>3
<1>10. DisjointIn(chunks')
  BY <1>2 DEF Inv, DisjointIn
<1> QED
  BY <1>5, <1>6, <1>7, <1>8, <1>9, <1>10 DEF Inv

LEMMA UnlinkKeeps ==
  ASSUME Inv, NEW t \in Tokens, NEW x \in Inos, Unlink(t, x)
  PROVE  Inv'
<1>1. PICK i \in OfIno(t, x) :
        /\ \A c \in chunks : c.file # i
        /\ rows' = [j \in DOMAIN rows \ {i} |->
                      IF rows[i].nlink - 1 > 0 /\ j \in OfIno(t, x)
                      THEN [rows[j] EXCEPT !.nlink = rows[i].nlink - 1]
                      ELSE rows[j]]
        /\ chunks' = IF rows[i].nlink - 1 > 0 THEN chunks ELSE chunks \ ChunksOf(t, x)
  BY DEF Unlink
<1> DEFINE m == rows[i].nlink - 1
           mine == OfIn(rows, t, x)
<1>2. i \in DOMAIN rows /\ i \in mine /\ rows[i] \in VtfsFile /\ rows[i].token = t /\ rows[i].ino = x
  BY <1>1 DEF OfIno, OfIn, Inv, TypeIn
<1>3. /\ DOMAIN rows' = DOMAIN rows \ {i}
      /\ \A k \in DOMAIN rows' : rows'[k] = IF m > 0 /\ k \in mine THEN [rows[k] EXCEPT !.nlink = m]
                                            ELSE rows[k]
  BY <1>1 DEF OfIno, OfIn
<1>4. IsFiniteSet(mine) /\ rows[i].nlink = Cardinality(mine) /\ m \in Nat
  <2>1. mine \subseteq DOMAIN rows
    BY DEF OfIn
  <2>2. IsFiniteSet(mine)
    BY <2>1, FS_Subset, Zenon DEF Inv
  <2>3. rows[i].nlink = Cardinality(mine)
    BY <1>2 DEF Inv, NlinkIn
  <2>4. rows[i].nlink \in Nat \ {0}
    BY <1>2 DEF VtfsFile
  <2> QED
    BY <2>2, <2>3, <2>4
<1>5. Cardinality(mine \ {i}) = m /\ IsFiniteSet(mine \ {i})
  <2>1. i \in mine /\ IsFiniteSet(mine) /\ rows[i].nlink = Cardinality(mine)
    BY <1>2, <1>4
  <2> HIDE DEF mine
  <2>2. Cardinality(mine \ {i}) = Cardinality(mine) - 1 /\ IsFiniteSet(mine \ {i})
    BY <2>1, FS_RemoveElement, Zenon
  <2> QED
    BY <2>1, <2>2
<1> HIDE DEF m
<1>6. ASSUME NEW k \in DOMAIN rows'
      PROVE  /\ k \in DOMAIN rows /\ k # i /\ rows'[k] \in VtfsFile
             /\ rows'[k].token = rows[k].token /\ rows'[k].ino = rows[k].ino
             /\ rows'[k].parent = rows[k].parent /\ rows'[k].name = rows[k].name
             /\ rows'[k].dir = rows[k].dir /\ rows'[k].size = rows[k].size
             /\ rows'[k].nlink = IF m > 0 /\ k \in mine THEN m ELSE rows[k].nlink
  <2>1. k \in DOMAIN rows /\ k # i /\ rows[k] \in VtfsFile
    BY <1>3 DEF Inv, TypeIn
  <2> HIDE DEF mine
  <2> QED
    BY <1>3, <1>4, <2>1 DEF VtfsFile
<1>7. OfIn(rows', t, x) = mine \ {i}
  BY <1>3, <1>6 DEF OfIn
<1>8. \A s, y : s # t \/ y # x => OfIn(rows', s, y) = OfIn(rows, s, y)
  BY <1>2, <1>3, <1>6 DEF OfIn
<1>9. chunks' \subseteq chunks
  BY <1>1
<1>10. TypeIn(rows', chunks')
  BY <1>6, <1>9 DEF Inv, TypeIn
<1>11. IsFiniteSet(DOMAIN rows')
  <2>1. DOMAIN rows' \subseteq DOMAIN rows
    BY <1>3
  <2> QED
    BY <2>1, FS_Subset, Zenon DEF Inv
<1>12. UniqueIn(rows')
  BY <1>6 DEF Inv, UniqueIn
<1>13. NlinkIn(rows')
  <2> SUFFICES ASSUME NEW k \in DOMAIN rows'
               PROVE  rows'[k].nlink = Cardinality(OfIn(rows', rows'[k].token, rows'[k].ino))
    BY DEF NlinkIn
  <2>1. CASE rows[k].token = t /\ rows[k].ino = x
    <3>1. k \in mine \ {i}
      BY <1>6, <2>1 DEF OfIn
    <3>2. m # 0
      BY <1>5, <3>1, FS_EmptySet, Zenon
    <3>3. rows'[k].nlink = m
      <4>1. m > 0
        BY <1>4, <3>2
      <4> QED
        BY <1>6, <3>1, <4>1
    <3> QED
      BY <1>5, <1>6, <1>7, <2>1, <3>3
  <2>2. CASE rows[k].token # t \/ rows[k].ino # x
    <3>1. k \notin mine
      BY <2>2 DEF OfIn
    <3>2. OfIn(rows', rows'[k].token, rows'[k].ino) = OfIn(rows, rows[k].token, rows[k].ino)
      BY <1>6, <1>8, <2>2
    <3> QED
      BY <1>6, <3>1, <3>2 DEF Inv, NlinkIn
  <2> QED
    BY <2>1, <2>2
<1>14. OwnedIn(rows', chunks')
  <2> SUFFICES ASSUME NEW c \in chunks'
               PROVE  /\ c.file \in OfIn(rows', c.token, c.ino) /\ ~rows'[c.file].dir
                      /\ \A k \in OfIn(rows', c.token, c.ino) : c.off + Len(c.bytes) <= rows'[k].size
    BY DEF OwnedIn
  <2>1. /\ c.file \in OfIn(rows, c.token, c.ino) /\ ~rows[c.file].dir
        /\ \A k \in OfIn(rows, c.token, c.ino) : c.off + Len(c.bytes) <= rows[k].size
    BY <1>9 DEF Inv, OwnedIn
  <2>2. c.file # i
    BY <1>1, <1>9
  <2>3. OfIn(rows', c.token, c.ino) = OfIn(rows, c.token, c.ino) \ {i}
    BY <1>3, <1>6 DEF OfIn
  <2>4. \A k \in OfIn(rows', c.token, c.ino) : k \in DOMAIN rows'
    BY DEF OfIn
  <2> QED
    BY <1>6, <2>1, <2>2, <2>3, <2>4
<1>15. DisjointIn(chunks')
  BY <1>9 DEF Inv, DisjointIn
<1> QED
  BY <1>10, <1>11, <1>12, <1>13, <1>14, <1>15 DEF Inv

-----------------------------------------------------------------------------
(* What a transaction does to the other tokens, and what it writes *)

\* A step that changes no row and no chunk of a token leaves what it has alone.
LEMMA SameToken ==
  ASSUME NEW u,
         \A k : k \in DOMAIN rows' /\ rows'[k].token = u <=> k \in DOMAIN rows /\ rows[k].token = u,
         \A k \in DOMAIN rows : rows[k].token = u => rows'[k] = rows[k],
         \A c : c.token = u => (c \in chunks' <=> c \in chunks)
  PROVE  UNCHANGED <<RowsOf(u), DataOf(u)>>
<1>1. RowsOf(u)' = RowsOf(u)
  <2>1. {j \in DOMAIN rows' : rows'[j].token = u} = {j \in DOMAIN rows : rows[j].token = u}
    OBVIOUS
  <2> QED
    BY <2>1 DEF RowsOf
<1>2. DataOf(u)' = DataOf(u)
  BY DEF DataOf
<1> QED
  BY <1>1, <1>2

\* A transaction of one token leaves the rows and the chunks of every other as
\* they are, also where they have the same inode numbers and names.
LEMMA OtherTokens ==
  ASSUME Inv, NEW t \in Tokens, NEW u \in Tokens, u # t,
         \/ \E d \in Dirs, n \in Names : \/ \E isDir \in BOOLEAN : Create(t, d, n, isDir)
                                         \/ \E x \in Inos : Link(t, x, d, n)
         \/ \E x \in Inos : \/ \E off \in Sizes, p \in Payloads : Write(t, x, off, p)
                            \/ Delete(t, x)
                            \/ Unlink(t, x)
  PROVE  UNCHANGED <<RowsOf(u), DataOf(u)>>
<1> USE DEF Inv, TypeIn
<1>1. ASSUME NEW d \in Dirs, NEW n \in Names, NEW isDir \in BOOLEAN, Create(t, d, n, isDir)
      PROVE  UNCHANGED <<RowsOf(u), DataOf(u)>>
  <2>1. PICK i \in FreshIds : rows' = Insert(i, NewRow(t, d, n, isDir))
    BY <1>1 DEF Create
  <2>2. NewRow(t, d, n, isDir).token = t
    BY DEF NewRow
  <2>3. i \notin DOMAIN rows /\ chunks' = chunks
    BY <1>1 DEF FreshIds, Create
  <2>4. /\ DOMAIN rows' = DOMAIN rows \cup {i} /\ rows'[i].token = t
        /\ \A k \in DOMAIN rows : rows'[k] = rows[k] /\ k # i
    BY <2>1, <2>2, <2>3, InsertIs
  <2> QED
    BY <2>3, <2>4, SameToken
<1>2. ASSUME NEW d \in Dirs, NEW n \in Names, NEW x \in Inos, Link(t, x, d, n)
      PROVE  UNCHANGED <<RowsOf(u), DataOf(u)>>
  <2>1. PICK i \in OfIno(t, x), j \in FreshIds :
          LET linked == Insert(j, [rows[i] EXCEPT !.parent = d, !.name = n])
          IN rows' = [k \in DOMAIN linked |->
                        IF k \in {i, j} THEN [linked[k] EXCEPT !.nlink = rows[i].nlink + 1]
                        ELSE linked[k]]
    BY <1>2 DEF Link
  <2>2. i \in DOMAIN rows /\ rows[i].token = t /\ j \notin DOMAIN rows /\ rows[i] \in VtfsFile
    BY DEF OfIno, FreshIds
  <2>3. /\ DOMAIN rows' = DOMAIN rows \cup {j}
        /\ \A k \in DOMAIN rows : k # i => rows'[k] = rows[k]
        /\ rows'[i].token = t /\ rows'[j].token = t
    BY <2>1, <2>2 DEF Insert, VtfsFile
  <2>4. chunks' = chunks
    BY <1>2 DEF Link
  <2> QED
    BY <2>2, <2>3, <2>4, SameToken
<1>3. ASSUME NEW x \in Inos, NEW off \in Sizes, NEW p \in Payloads, Write(t, x, off, p)
      PROVE  UNCHANGED <<RowsOf(u), DataOf(u)>>
  <2>1. PICK i \in OfIno(t, x) :
          /\ chunks' = (chunks \ InRange(t, x, off, off + Len(p)))
                       \cup {[token |-> t, ino |-> x, off |-> off, bytes |-> p, file |-> i]}
          /\ rows' = [rows EXCEPT ![i].size = IF off + Len(p) > @ THEN off + Len(p) ELSE @]
    BY <1>3 DEF Write
  <2>2. i \in DOMAIN rows /\ rows[i].token = t /\ rows[i] \in VtfsFile
    BY DEF OfIno
  <2>3. /\ DOMAIN rows' = DOMAIN rows /\ rows'[i].token = t
        /\ \A k \in DOMAIN rows : k # i => rows'[k] = rows[k]
    BY <2>1, <2>2 DEF VtfsFile
  <2>4. \A c : c.token = u => (c \in chunks' <=> c \in chunks)
    BY <2>1 DEF InRange, ChunksOf
  <2> QED
    BY <2>2, <2>3, <2>4, SameToken
<1>4. ASSUME NEW x \in Inos, Delete(t, x)
      PROVE  UNCHANGED <<RowsOf(u), DataOf(u)>>
  <2>1. /\ DOMAIN rows' = DOMAIN rows \ OfIno(t, x)
        /\ \A k \in DOMAIN rows' : rows'[k] = rows[k]
    BY <1>4 DEF Delete, Remove
  <2>2. \A c : c.token = u => (c \in chunks' <=> c \in chunks)
    <3>1. \A c \in chunks : c.token = u => c.file \notin OfIno(t, x) /\ c \notin ChunksOf(t, x)
      BY DEF OwnedIn, OfIn, OfIno, ChunksOf
    <3> QED
      BY <1>4, <3>1 DEF Delete
  <2>3. \A k \in OfIno(t, x) : rows[k].token # u
    BY DEF OfIno
  <2> QED
    BY <2>1, <2>2, <2>3, SameToken
<1>5. ASSUME NEW x \in Inos, Unlink(t, x)
      PROVE  UNCHANGED <<RowsOf(u), DataOf(u)>>
  <2>1. PICK i \in OfIno(t, x) :
          /\ rows' = [j \in DOMAIN rows \ {i} |->
                        IF rows[i].nlink - 1 > 0 /\ j \in OfIno(t, x)
                        THEN [rows[j] EXCEPT !.nlink = rows[i].nlink - 1] ELSE rows[j]]
          /\ chunks' = IF rows[i].nlink - 1 > 0 THEN chunks ELSE chunks \ ChunksOf(t, x)
    BY <1>5 DEF Unlink
  <2>2. \A k \in OfIno(t, x) : k \in DOMAIN rows /\ rows[k].token = t /\ rows[k] \in VtfsFile
    BY DEF OfIno
  <2>3. DOMAIN rows' = DOMAIN rows \ {i}
    BY <2>1
  <2>4. \A k \in DOMAIN rows' : k \notin OfIno(t, x) => rows'[k] = rows[k]
    BY <2>1
  <2>5. \A k \in DOMAIN rows' : k \in OfIno(t, x) => rows'[k].token = t
    BY <2>1, <2>2 DEF VtfsFile
  <2>6. \A c : c.token = u => (c \in chunks' <=> c \in chunks)
    BY <2>1 DEF ChunksOf
  <2> QED
    BY <2>2, <2>3, <2>4, <2>5, <2>6, SameToken
<1> QED
  BY <1>1, <1>2, <1>3, <1>4, <1>5

\* readFile of the range that writeFile has just written finds the new chunk and
\* no other.
LEMMA WriteIsRead ==
  ASSUME Inv, NEW t \in Tokens, NEW x \in Inos, NEW off \in Sizes, NEW p \in Payloads,
         Write(t, x, off, p)
  PROVE  Read(t, x, off, Len(p))' = p
<1> DEFINE end == off + Len(p)
<1>1. PICK i \in OfIno(t, x) :
        /\ IsOnly(i, t, x)
        /\ chunks' = (chunks \ InRange(t, x, off, end))
                     \cup {[token |-> t, ino |-> x, off |-> off, bytes |-> p, file |-> i]}
        /\ rows' = [rows EXCEPT ![i].size = IF end > @ THEN end ELSE @]
  BY DEF Write
<1> DEFINE new == [token |-> t, ino |-> x, off |-> off, bytes |-> p, file |-> i]
<1>2. i \in DOMAIN rows /\ rows[i] \in VtfsFile /\ rows[i].token = t /\ rows[i].ino = x
      /\ OfIno(t, x) = {i} /\ ~rows[i].dir
  BY <1>1 DEF OfIno, IsOnly, Inv, TypeIn
<1>3. p \in Seq(Bytes) /\ Len(p) \in Nat /\ off \in Nat /\ rows[i].size \in Nat /\ end \in Nat
  BY <1>2, ServerAssumption DEF Sizes, VtfsFile
<1>4. /\ DOMAIN rows' = DOMAIN rows /\ rows'[i].token = t /\ rows'[i].ino = x /\ ~rows'[i].dir
      /\ rows'[i].size \in Nat /\ rows'[i].size >= end
      /\ \A k \in DOMAIN rows : k # i => rows'[k] = rows[k]
  <2>1. rows'[i] = [rows[i] EXCEPT !.size = IF end > rows[i].size THEN end ELSE rows[i].size]
    BY <1>1, <1>2
  <2> HIDE DEF end
  <2> QED
    BY <1>1, <1>2, <1>3, <2>1 DEF VtfsFile
<1>5. OfIno(t, x)' = {i}
  BY <1>2, <1>4 DEF OfIno
<1>6. new \in chunks' /\ new.token = t /\ new.ino = x /\ new.off = off /\ new.bytes = p
  BY <1>1
<1>7. ASSUME NEW c \in InRange(t, x, off, end)' PROVE c = new
  BY <1>1, <1>7 DEF InRange, ChunksOf
<1>8. SizeOf(t, x)' = rows'[i].size /\ \E k \in OfIno(t, x)' : IsOnly(k, t, x)'
  BY <1>4, <1>5 DEF IsOnly, SizeOf
<1> HIDE DEF new, end
<1>9. EndOffset(off, Len(p), SizeOf(t, x)') = end
  BY <1>3, <1>4, <1>8 DEF EndOffset, end
<1> DEFINE found == InRange(t, x, off, end)'
           bytes == [j \in 1 .. end - off |-> ByteAt(found, off + j - 1)]
<1>10. Read(t, x, off, Len(p))' = IF off >= rows'[i].size \/ found = {} THEN <<>> ELSE bytes
  BY <1>8, <1>9 DEF Read
<1>11. CASE Len(p) = 0
  <2>1. p = <<>>
    BY <1>3, <1>11
  <2>2. new \notin found
    BY <1>3, <1>6, <1>11 DEF InRange, end
  <2>3. found = {}
    BY <1>7, <2>2
  <2> HIDE DEF found, bytes
  <2> QED
    BY <1>10, <2>1, <2>3
<1>12. CASE Len(p) # 0
  <2>1. new \in found
    BY <1>3, <1>6, <1>12 DEF InRange, ChunksOf, end
  <2>2. found = {new}
    BY <1>7, <2>1
  <2>3. off < rows'[i].size
    BY <1>3, <1>4, <1>12 DEF end
  <2> HIDE DEF found
  <2>4. end - off = Len(p) /\ p = [j \in 1 .. Len(p) |-> p[j]]
    BY <1>3 DEF end
  <2>5. ASSUME NEW j \in 1 .. Len(p)
        PROVE  ByteAt({new}, off + j - 1) = p[j]
    <3> DEFINE k == off + j - 1
    <3>1. off <= k /\ k < off + Len(p) /\ k - off + 1 = j
      BY <1>3, <2>5
    <3>2. {e \in {new} : e.off <= k /\ k < e.off + Len(e.bytes)} = {new}
      BY <1>6, <3>1
    <3>3. (CHOOSE e \in {new} : \A d \in {new} : d.off <= e.off) = new
      BY <1>3, <1>6
    <3> HIDE DEF k
    <3>4. ByteAt({new}, k) = new.bytes[k - new.off + 1]
      BY <3>2, <3>3 DEF ByteAt
    <3> QED
      BY <1>6, <3>1, <3>4 DEF k
  <2>6. bytes = p
    BY <2>2, <2>4, <2>5
  <2> HIDE DEF bytes, found
  <2> QED
    BY <1>3, <1>4, <1>10, <2>2, <2>3, <2>6
<1> QED
  BY <1>3, <1>11, <1>12

\* What readFile makes of its chunks are bytes of theirs, or zeros.
LEMMA ByteIsOne ==
  ASSUME NEW C, C \subseteq FileData, NEW k \in Nat,
         NEW B, \A c \in C : \A i \in DOMAIN c.bytes : c.bytes[i] \in B
  PROVE  ByteAt(C, k) \in B \cup {Nul}
<1> DEFINE covering == {c \in C : c.off <= k /\ k < c.off + Len(c.bytes)}
           latest == CHOOSE c \in covering : \A e \in covering : e.off <= c.off
<1>1. CASE covering = {}
  BY <1>1 DEF ByteAt
<1>2. CASE covering # {}
  <2>1. \E c \in covering : \A e \in covering : e.off <= c.off
    <3> DEFINE T == {c.off : c \in covering}
    <3>1. T \subseteq 0 .. MaxSize /\ T # {} /\ MaxSize \in Nat
      BY <1>2, ServerAssumption DEF FileData, Sizes
    <3>2. \E n \in T : \A m \in T : m <= n
      BY <3>1, GreatestExists
    <3> QED
      BY <3>2
  <2>2. latest \in covering
    BY <2>1
  <2> HIDE DEF latest
  <2>3. latest \in FileData /\ latest.off <= k /\ k < latest.off + Len(latest.bytes)
    BY <2>2
  <2>4. latest.bytes \in Seq(Bytes) /\ latest.off \in Nat
    BY <2>3 DEF FileData, Sizes
  <2>5. k - latest.off + 1 \in 1 .. Len(latest.bytes)
    BY <2>3, <2>4
  <2>6. latest.bytes[k - latest.off + 1] \in B
    BY <2>2, <2>4, <2>5
  <2>7. ByteAt(C, k) = latest.bytes[k - latest.off + 1]
    BY <1>2 DEF ByteAt, latest
  <2> QED
    BY <2>6, <2>7
<1> QED
  BY <1>1, <1>2

\* readFile returns at most as many bytes as it is asked for, out of the file's chunks
\* or zeros.
LEMMA ReadReturns ==
  ASSUME Inv, NEW t, NEW x, NEW off \in Nat, NEW n \in Nat, Read(t, x, off, n) # Refused,
         NEW B, \A c \in ChunksOf(t, x) : \A i \in DOMAIN c.bytes : c.bytes[i] \in B
  PROVE  Read(t, x, off, n) \in Seq(B \cup {Nul}) /\ Len(Read(t, x, off, n)) <= n
<1> DEFINE size == SizeOf(t, x)
           end == EndOffset(off, n, size)
           found == InRange(t, x, off, end)
           bytes == [j \in 1 .. end - off |-> ByteAt(found, off + j - 1)]
<1>1. Read(t, x, off, n) = IF off >= size \/ found = {} THEN <<>> ELSE bytes
  BY DEF Read
<1>2. found \subseteq FileData /\ \A c \in found : \A i \in DOMAIN c.bytes : c.bytes[i] \in B
  BY DEF InRange, ChunksOf, Inv, TypeIn
<1>3. size \in Nat
  <2>1. PICK i \in OfIno(t, x) : IsOnly(i, t, x)
    BY DEF Read
  <2>2. i \in DOMAIN rows /\ size = rows[i].size
    BY <2>1 DEF IsOnly, SizeOf, OfIno
  <2> QED
    BY <2>2, ServerAssumption DEF Inv, TypeIn, VtfsFile, Sizes
<1> HIDE DEF size, found
<1>4. CASE off >= size \/ found = {}
  BY <1>1, <1>4
<1>5. CASE ~(off >= size \/ found = {})
  <2>1. end - off \in Nat /\ end - off <= n
    BY <1>3, <1>5 DEF EndOffset
  <2> HIDE DEF end
  <2>2. bytes \in [1 .. end - off -> B \cup {Nul}]
    <3>1. \A j \in 1 .. end - off : off + j - 1 \in Nat
      BY <2>1
    <3> QED
      BY <1>2, <3>1, ByteIsOne
  <2> HIDE DEF bytes
  <2>3. bytes \in Seq(B \cup {Nul}) /\ Len(bytes) = end - off
    BY <2>1, <2>2
  <2> QED
    BY <1>1, <1>5, <2>1, <2>3
<1> QED
  BY <1>4, <1>5

-----------------------------------------------------------------------------
(* Theorems *)

LEMMA InitInv == Init => Inv
<1> SUFFICES ASSUME Init PROVE Inv
  OBVIOUS
<1>1. DOMAIN rows = {} /\ chunks = {}
  BY DEF Init
<1> QED
  BY <1>1, FS_EmptySet DEF Inv, TypeIn, UniqueIn, NlinkIn, OwnedIn, DisjointIn

LEMMA NextInv == Inv /\ [Next]_vars => Inv'
<1> SUFFICES ASSUME Inv, [Next]_vars PROVE Inv'
  OBVIOUS
<1>1. CASE Next
  BY <1>1, CreateKeeps, LinkKeeps, WriteKeeps, DeleteKeeps, UnlinkKeeps, Zenon DEF Next
<1>2. CASE UNCHANGED vars
  BY <1>2 DEF vars, Inv, TypeIn, UniqueIn, NlinkIn, OwnedIn, DisjointIn, OfIn
<1> QED
  BY <1>1, <1>2

\* The invariant holds in every state of the database.
THEOREM AlwaysInv == Spec => []Inv
  BY InitInv, NextInv, PTL DEF Spec

\* The columns keep their types whatever is requested.
THEOREM TypeCorrect == Spec => []TypeOK
  BY AlwaysInv, InvImplies, PTL

\* No two rows of a directory have one name: what createFile and createLink
\* check suffices without a constraint of the tables.
THEOREM NamesUnique == Spec => []UniqueNames
  BY AlwaysInv, InvImplies, PTL

\* The count that unlink decides by is the number of rows of the file, so that
\* the data of a file goes with its last row and no earlier.
THEOREM LinkCounts == Spec => []NlinkCountsRows
  BY AlwaysInv, InvImplies, PTL

\* writeFile leaves no two chunks of a file that overlap.
THEOREM DisjointChunks == Spec => []ChunksDisjoint
  BY AlwaysInv, InvImplies, PTL

\* No chunk outlives its row, belongs to another file or lies beyond the size.
THEOREM ChunksHaveRows == Spec => []ChunksOwned
  BY AlwaysInv, InvImplies, PTL

\* No transaction of one token reaches what another has, although the client
\* chooses numbers and names freely and all tokens use the same ones.
THEOREM TokensApart == Spec => TokenIsolation
<1>1. ASSUME Inv, Next, NEW t \in Tokens, NEW u \in Tokens, t # u
      PROVE  UNCHANGED <<RowsOf(t), DataOf(t)>> \/ UNCHANGED <<RowsOf(u), DataOf(u)>>
  <2>1. PICK s \in Tokens :
          \/ \E d \in Dirs, n \in Names : \/ \E isDir \in BOOLEAN : Create(s, d, n, isDir)
                                          \/ \E x \in Inos : Link(s, x, d, n)
          \/ \E x \in Inos : \/ \E off \in Sizes, p \in Payloads : Write(s, x, off, p)
                             \/ Delete(s, x)
                             \/ Unlink(s, x)
    BY <1>1 DEF Next
  <2>2. CASE s # t
    BY <1>1, <2>1, <2>2, OtherTokens
  <2>3. CASE s # u
    BY <1>1, <2>1, <2>3, OtherTokens
  <2> QED
    BY <1>1, <2>2, <2>3
<1>2. Inv /\ [Next]_vars =>
        [ \A t, u \in Tokens :
            t # u => UNCHANGED <<RowsOf(t), DataOf(t)>> \/ UNCHANGED <<RowsOf(u), DataOf(u)>> ]_vars
  BY <1>1
<1> QED
  BY <1>2, AlwaysInv, PTL DEF Spec, TokenIsolation

\* What writeFile has stored is what readFile returns for the range.
THEOREM WritesAreRead == Spec => ReadBack
<1>1. Inv /\ [Next]_vars =>
        [ \A t \in Tokens, x \in Inos, off \in Sizes, p \in Payloads :
            Write(t, x, off, p) => Read(t, x, off, Len(p))' = p ]_vars
  BY WriteIsRead
<1> QED
  BY <1>1, AlwaysInv, PTL DEF Spec, ReadBack
=============================================================================
