-------------------------- MODULE VtfsRemoteProofs --------------------------
(***************************************************************************)
(* Server mode, in three parts.  Whatever requests, answers, lists and     *)
(* allocations are lost, what the tree of a mount shows the database has,  *)
(* and a file that has one name claims no more bytes than its buffer       *)
(* holds, although reading replaces the buffer of the first entry alone.   *)
(* Both are trees then, the rows of the database and the entries of the    *)
(* mount, and the database implements NameSpace.  When requests and        *)
(* answers arrive the two agree, and the names outlast the mounts.         *)
(***************************************************************************)
EXTENDS VtfsRemote, VtfsTreeProofs

\* What a write can carry when it arrives.
Sendable == UNION {Encoded(p) : p \in Payloads}

S == INSTANCE VtfsServerProofs WITH Tokens <- {Token}, Payloads <- Sendable

-----------------------------------------------------------------------------
(* The database of one token: what the proofs of VtfsServer say of it *)

\* encode sends a prefix of the bytes of a write, or goes on behind them.
LEMMA EncodedOK ==
  ASSUME NEW s \in Seq(Cells), NEW q \in Encoded(s)
  PROVE  q \in Seq(Cells)
<1> DEFINE zeros == {i \in DOMAIN s : s[i] = Nul}
           first == CHOOSE i \in zeros : \A j \in zeros : i <= j
<1>1. CASE zeros # {}
  <2>1. zeros \subseteq Nat
    OBVIOUS
  <2>2. first \in zeros
    <3> HIDE DEF zeros
    <3> QED
      BY <1>1, <2>1, LeastExists
  <2>3. first \in 1 .. Len(s) /\ Len(s) \in Nat
    BY <2>2
  <2>4. q = SubSeq(s, 1, first - 1)
    BY <1>1 DEF Encoded
  <2> HIDE DEF first
  <2> QED
    BY <2>3, <2>4
<1>2. CASE zeros = {}
  <2> DEFINE C == IF "junk" \in Faults THEN 0 .. MaxBehind ELSE {0}
  <2>1. C \subseteq Nat
    OBVIOUS
  <2>2. PICK n \in C : q = s \o [j \in 1 .. n |-> Junk]
    <3>1. Encoded(s) = {s \o [j \in 1 .. n |-> Junk] : n \in C}
      BY <1>2, Zenon DEF Encoded
    <3> HIDE DEF C
    <3> QED
      BY <3>1
  <2>3. [j \in 1 .. n |-> Junk] \in Seq(Cells)
    BY DEF Cells
  <2> DEFINE w == [j \in 1 .. n |-> Junk]
  <2> HIDE DEF w
  <2>4. s \o w \in Seq(Cells)
    BY <2>3 DEF w
  <2> QED
    BY <2>2, <2>4 DEF w
<1> QED
  BY <1>1, <1>2

\* What the server asks of its constants holds of these.
LEMMA Constants ==
  /\ RootIno \in Nat /\ FirstIno \in Nat /\ LastIno \in Nat /\ RootIno < FirstIno
  /\ MaxSize \in Nat
  /\ \A p \in Sendable : p \in Seq(S!Bytes)
<1>1. ASSUME NEW p \in Sendable PROVE p \in Seq(S!Bytes)
  <2>1. \E C : p \in Seq(C)
    <3>1. PICK s \in Payloads : p \in Encoded(s)
      BY <1>1 DEF Sendable
    <3>2. s \in Seq(Cells)
      BY HeapAssumption
    <3> QED
      BY <3>1, <3>2, EncodedOK
  <2>2. \A i \in DOMAIN p : p[i] \in S!Bytes
    BY <1>1 DEF S!Bytes
  <2> QED
    BY <2>1, <2>2
<1> QED
  BY <1>1, InoAssumption, SizeAssumption

\* The rows of a file, and the entries a row stands for.
RowsIn(R, x) == {i \in DOMAIN R : R[i].ino = x}
NameOf(r) == <<r.parent, r.name>>

\* Two rows that differ in count and size at most.
SameBut(r, s) == r.ino = s.ino /\ NameOf(r) = NameOf(s) /\ r.dir = s.dir

\* A file has the same rows in both tables, but for counts and sizes.
SameRows(R, Q, x) ==
  /\ RowsIn(Q, x) = RowsIn(R, x)
  /\ \A i \in RowsIn(R, x) : NameOf(Q[i]) = NameOf(R[i]) /\ Q[i].dir = R[i].dir

\* All rows are of the one token, and typed.
LEMMA OneToken ==
  ASSUME S!Inv
  PROVE  /\ \A i \in DOMAIN rows : /\ rows[i].token = Token /\ rows[i].ino \in Inos
                                   /\ rows[i].parent \in Inos \cup {RootIno}
                                   /\ rows[i].name \in Names /\ rows[i].dir \in BOOLEAN
                                   /\ rows[i].size \in Sizes /\ rows[i].nlink \in Nat \ {0}
         /\ \A x : DB!OfIno(Token, x) = RowsIn(rows, x)
<1>1. ASSUME NEW i \in DOMAIN rows PROVE rows[i] \in S!VtfsFile
  BY DEF S!Inv, S!TypeIn
<1>2. ASSUME NEW i \in DOMAIN rows
      PROVE  /\ rows[i].token = Token /\ rows[i].ino \in Inos
             /\ rows[i].parent \in Inos \cup {RootIno}
             /\ rows[i].name \in Names /\ rows[i].dir \in BOOLEAN
             /\ rows[i].size \in Sizes /\ rows[i].nlink \in Nat \ {0}
  BY <1>1 DEF S!VtfsFile, S!Dirs, S!Inos, S!Sizes, Inos, Sizes
<1> QED
  BY <1>2 DEF DB!OfIno, RowsIn

\* A new file has a number that no row has, and the others keep their rows.
LEMMA CreateRows ==
  ASSUME S!Inv, NEW d \in Inos \cup {RootIno}, NEW n \in Names, NEW isDir \in BOOLEAN,
         DB!Create(Token, d, n, isDir)
  PROVE  LET x == DB!NewIno(Token) IN
         /\ S!Inv'
         /\ x \in Inos /\ RowsIn(rows, x) = {}
         /\ \E i : /\ i \notin DOMAIN rows /\ DOMAIN rows' = DOMAIN rows \cup {i}
                   /\ \A j \in DOMAIN rows : rows'[j] = rows[j]
                   /\ rows'[i] = DB!NewRow(Token, d, n, isDir)
         /\ ~DB!Exists(Token, d, n)
<1> DEFINE x == DB!NewIno(Token)
<1>1. S!Create(Token, d, n, isDir)
  BY DEF DB!Create, S!Create, DB!Exists, S!Exists, DB!InParent, S!InParent, DB!NewIno, S!NewIno,
         DB!FreshIds, S!FreshIds, DB!Insert, S!Insert, DB!NewRow, S!NewRow
<1>2. Token \in {Token} /\ d \in S!Dirs
  BY DEF S!Dirs, S!Inos, Inos
<1>3. S!Inv'
  BY <1>1, <1>2, Constants, S!CreateKeeps
<1>4. x = S!NewIno(Token)
  BY DEF DB!NewIno, S!NewIno
<1>5. x \in Nat /\ x >= FirstIno /\ \A i \in DOMAIN rows : rows[i].token = Token => rows[i].ino < x
  BY <1>4, Constants, S!NewInoIsNew DEF S!Inv
<1>6. x <= LastIno /\ ~DB!Exists(Token, d, n)
  BY DEF DB!Create
<1> HIDE DEF x
<1>7. x \in Inos
  BY <1>5, <1>6, InoAssumption DEF Inos
<1>8. \A i \in DOMAIN rows : rows[i].ino \in Nat /\ rows[i].ino < x
  BY <1>5, OneToken, InoAssumption DEF Inos
<1>9. RowsIn(rows, x) = {}
  BY <1>5, <1>8 DEF RowsIn
<1>10. PICK i \in Ids \ DOMAIN rows : rows' = DB!Insert(i, DB!NewRow(Token, d, n, isDir))
  BY DEF DB!Create, DB!FreshIds
<1>11. /\ DOMAIN rows' = DOMAIN rows \cup {i}
       /\ rows'[i] = DB!NewRow(Token, d, n, isDir)
       /\ \A j \in DOMAIN rows : rows'[j] = rows[j]
  BY <1>10 DEF DB!Insert
<1> QED
  BY <1>3, <1>6, <1>7, <1>9, <1>10, <1>11 DEF x

\* Row i gets a twin j in directory d under name n; both count one more.
Twinned(i, j, d, n) ==
  /\ i \in DOMAIN rows /\ ~rows[i].dir
  /\ j \notin DOMAIN rows /\ DOMAIN rows' = DOMAIN rows \cup {j}
  /\ \A l \in DOMAIN rows \ {i} : rows'[l] = rows[l]
  /\ rows'[i] = [rows[i] EXCEPT !.nlink = rows[i].nlink + 1]
  /\ rows'[j] = [rows[i] EXCEPT !.parent = d, !.name = n, !.nlink = rows[i].nlink + 1]

\* A link adds a row of its file.
LEMMA LinkRows ==
  ASSUME S!Inv, NEW x \in Inos, NEW d \in Inos \cup {RootIno}, NEW n \in Names,
         DB!Link(Token, x, d, n)
  PROVE  /\ S!Inv'
         /\ \E i, j : RowsIn(rows, x) = {i} /\ Twinned(i, j, d, n)
         /\ ~DB!Exists(Token, d, n)
<1>1. S!Link(Token, x, d, n)
  BY DEF DB!Link, S!Link, DB!Exists, S!Exists, DB!InParent, S!InParent, DB!OfIno, S!OfIno,
         DB!IsOnly, S!IsOnly, DB!FreshIds, S!FreshIds, DB!Insert, S!Insert
<1>2. Token \in {Token} /\ d \in S!Dirs /\ x \in S!Inos
  BY DEF S!Dirs, S!Inos, Inos
<1>3. S!Inv'
  BY <1>1, <1>2, Constants, S!LinkKeeps
<1>4. PICK i \in DB!OfIno(Token, x) :
        /\ DB!IsOnly(i, Token, x)
        /\ \E j \in DB!FreshIds :
             LET linked == DB!Insert(j, [rows[i] EXCEPT !.parent = d, !.name = n])
             IN rows' = [k \in DOMAIN linked |->
                           IF k \in {i, j} THEN [linked[k] EXCEPT !.nlink = rows[i].nlink + 1]
                           ELSE linked[k]]
  BY DEF DB!Link
<1>5. RowsIn(rows, x) = {i} /\ ~rows[i].dir /\ i \in DOMAIN rows
  BY <1>4, OneToken DEF DB!IsOnly, RowsIn
<1>6. PICK j \in DB!FreshIds :
        LET linked == DB!Insert(j, [rows[i] EXCEPT !.parent = d, !.name = n])
        IN rows' = [k \in DOMAIN linked |->
                      IF k \in {i, j} THEN [linked[k] EXCEPT !.nlink = rows[i].nlink + 1]
                      ELSE linked[k]]
  BY <1>4
<1>7. j \notin DOMAIN rows /\ i # j
  BY <1>5, <1>6 DEF DB!FreshIds
<1>8. rows[i] \in S!VtfsFile
  BY <1>5 DEF S!Inv, S!TypeIn
<1> DEFINE linked == DB!Insert(j, [rows[i] EXCEPT !.parent = d, !.name = n])
<1>9. /\ DOMAIN linked = DOMAIN rows \cup {j}
      /\ linked[j] = [rows[i] EXCEPT !.parent = d, !.name = n]
      /\ \A k \in DOMAIN rows : linked[k] = rows[k]
  BY <1>7 DEF DB!Insert
<1>10. rows' = [k \in DOMAIN linked |->
                  IF k \in {i, j} THEN [linked[k] EXCEPT !.nlink = rows[i].nlink + 1]
                  ELSE linked[k]]
  BY <1>6
<1> HIDE DEF linked
<1>11. /\ DOMAIN rows' = DOMAIN rows \cup {j}
       /\ \A l \in DOMAIN rows \ {i} : rows'[l] = rows[l]
       /\ rows'[i] = [rows[i] EXCEPT !.nlink = rows[i].nlink + 1]
       /\ rows'[j] = [[rows[i] EXCEPT !.parent = d, !.name = n] EXCEPT !.nlink = rows[i].nlink + 1]
  BY <1>5, <1>7, <1>9, <1>10
<1>12. [[rows[i] EXCEPT !.parent = d, !.name = n] EXCEPT !.nlink = rows[i].nlink + 1]
         = [rows[i] EXCEPT !.parent = d, !.name = n, !.nlink = rows[i].nlink + 1]
  BY <1>8 DEF S!VtfsFile
<1>13. ~DB!Exists(Token, d, n)
  BY DEF DB!Link
<1> QED
  BY <1>3, <1>5, <1>7, <1>11, <1>12, <1>13 DEF Twinned

\* A removal takes rows of its file only.
LEMMA RemoveRows ==
  ASSUME S!Inv, NEW x \in Inos, DB!Unlink(Token, x) \/ DB!Delete(Token, x)
  PROVE  /\ S!Inv'
         /\ DOMAIN rows' \subseteq DOMAIN rows
         /\ \A i \in DOMAIN rows : rows[i].ino # x => i \in DOMAIN rows'
         /\ \A i \in DOMAIN rows' : /\ SameBut(rows'[i], rows[i])
                                    /\ rows[i].ino # x => rows'[i] = rows[i]
<1>1. Token \in {Token} /\ x \in S!Inos
  BY DEF S!Inos, Inos
<1>2. CASE DB!Unlink(Token, x)
  <2>1. S!Unlink(Token, x)
    BY <1>2 DEF DB!Unlink, S!Unlink, DB!OfIno, S!OfIno, DB!ChunksOf, S!ChunksOf
  <2>2. S!Inv'
    BY <1>1, <2>1, Constants, S!UnlinkKeeps
  <2>3. PICK i \in DB!OfIno(Token, x) :
          rows' = [j \in DOMAIN rows \ {i} |->
                     IF rows[i].nlink - 1 > 0 /\ j \in DB!OfIno(Token, x)
                     THEN [rows[j] EXCEPT !.nlink = rows[i].nlink - 1] ELSE rows[j]]
    BY <1>2 DEF DB!Unlink
  <2>4. i \in DOMAIN rows /\ rows[i].ino = x
    BY OneToken DEF RowsIn
  <2>5. ASSUME NEW j \in DOMAIN rows' PROVE SameBut(rows'[j], rows[j])
    <3>1. rows[j] \in S!VtfsFile
      BY <2>3 DEF S!Inv, S!TypeIn
    <3> QED
      BY <2>3, <3>1 DEF S!VtfsFile, SameBut, NameOf
  <2>6. \A j \in DOMAIN rows' : rows[j].ino # x => rows'[j] = rows[j]
    BY <2>3, OneToken DEF RowsIn
  <2> QED
    BY <2>2, <2>3, <2>4, <2>5, <2>6
<1>3. CASE DB!Delete(Token, x)
  <2>1. S!Delete(Token, x)
    BY <1>3 DEF DB!Delete, S!Delete, DB!OfIno, S!OfIno, DB!InParent, S!InParent,
                DB!ChunksOf, S!ChunksOf, DB!Remove, S!Remove
  <2>2. S!Inv'
    BY <1>1, <2>1, Constants, S!DeleteKeeps
  <2>3. rows' = [j \in DOMAIN rows \ RowsIn(rows, x) |-> rows[j]]
    BY <1>3, OneToken DEF DB!Delete, DB!Remove
  <2> QED
    BY <2>2, <2>3 DEF RowsIn, SameBut
<1> QED
  BY <1>2, <1>3

\* A write changes sizes and chunks.
LEMMA WriteRows ==
  ASSUME S!Inv, NEW x \in Inos, NEW off \in Sizes, NEW q \in Sendable,
         DB!Write(Token, x, off, q)
  PROVE  /\ S!Inv'
         /\ DOMAIN rows' = DOMAIN rows
         /\ \A i \in DOMAIN rows : SameBut(rows'[i], rows[i])
<1>1. S!Write(Token, x, off, q)
  BY DEF DB!Write, S!Write, DB!OfIno, S!OfIno, DB!IsOnly, S!IsOnly,
         DB!InRange, S!InRange, DB!ChunksOf, S!ChunksOf
<1>2. Token \in {Token} /\ x \in S!Inos /\ off \in S!Sizes
  BY DEF S!Inos, Inos, S!Sizes, Sizes
<1>3. S!Inv'
  BY <1>1, <1>2, Constants, S!WriteKeeps
<1>4. PICK i : rows' = [rows EXCEPT ![i].size = IF off + Len(q) > @ THEN off + Len(q) ELSE @]
  BY DEF DB!Write
<1>5. \A j \in DOMAIN rows : rows[j] \in S!VtfsFile
  BY DEF S!Inv, S!TypeIn
<1> QED
  BY <1>3, <1>4, <1>5 DEF S!VtfsFile, SameBut, NameOf

-----------------------------------------------------------------------------
(* The first entries of files.  An entry beside the first may keep a        *)
(* pointer that a read has freed, so nothing is said of it.                *)

\* The walk meets no entry of the file before k.
IsHead(t, k) == \A l \in DOMAIN t : t[l].ino = t[k].ino => t[k].at <= t[l].at

\* What FirstFits says, of the record of an entry and a heap.
Fits(e, m) ==
  /\ e.data \in Buffers => e.data \in DOMAIN m
  /\ e.data # NULL => e.size <= IF e.data \in DOMAIN m THEN Len(m[e.data]) ELSE 0

HeadsFit(t, m) == \A k \in DOMAIN t : IsHead(t, k) => Fits(t[k], m)

HeadsApart(t) ==
  \A k, l \in DOMAIN t : IsHead(t, k) /\ IsHead(t, l) /\ t[k].data \in Buffers /\ t[k].data = t[l].data
                           => t[k].ino = t[l].ino

\* The invariant of the tree in server mode.
TreeInv ==
  /\ mounted \in BOOLEAN
  /\ ~mounted => DOMAIN ent = {}
  /\ TreeOK(ent) /\ HeapOK(mem) /\ Placed(ent)
  /\ HeadsFit(ent, mem) /\ HeadsApart(ent)

\* First(x) is the one head among the entries of x.
LEMMA FirstIsHead ==
  ASSUME TreeOK(ent), Placed(ent), NEW k \in DOMAIN ent
  PROVE  /\ First(ent[k].ino) \in DOMAIN ent /\ ent[First(ent[k].ino)].ino = ent[k].ino
         /\ IsHead(ent, First(ent[k].ino))
         /\ IsHead(ent, k) <=> k = First(ent[k].ino)
<1> DEFINE x == ent[k].ino
           K == LinksOf(x)
           ats == {ent[l].at : l \in K}
<1>1. k \in K /\ K \subseteq DOMAIN ent
  BY DEF LinksOf
<1>2. \A l \in DOMAIN ent : ent[l].at \in Nat
  BY DEF TreeOK, Entry
<1>3. PICK n \in ats : \A m \in ats : n <= m
  <2>1. ats \subseteq Nat /\ ats # {}
    BY <1>1, <1>2
  <2> HIDE DEF ats
  <2> QED
    BY <2>1, LeastExists
<1>4. \E l \in K : \A m \in K : ent[l].at <= ent[m].at
  BY <1>3
<1>5. First(x) \in K /\ \A m \in K : ent[First(x)].at <= ent[m].at
  BY <1>4 DEF First, Earliest
<1>6. First(x) \in DOMAIN ent /\ ent[First(x)].ino = x /\ IsHead(ent, First(x))
  BY <1>5 DEF LinksOf, IsHead
<1>7. ASSUME IsHead(ent, k) PROVE k = First(x)
  <2>1. ent[k].at <= ent[First(x)].at /\ ent[First(x)].at <= ent[k].at
    BY <1>1, <1>5, <1>6, <1>7 DEF IsHead
  <2>2. ent[k].at = ent[First(x)].at
    BY <1>2, <1>6, <2>1
  <2> QED
    BY <1>6, <2>2 DEF Placed
<1> QED
  BY <1>6, <1>7

\* Heads that are new and empty, or that take over what a head held, are apart
\* and fit, as long as the heap keeps what they hold.
LEMMA HeadsFrom ==
  ASSUME HeadsFit(ent, mem), HeadsApart(ent),
         \A k \in DOMAIN ent' : IsHead(ent', k) =>
           \/ ent'[k].data = NULL
           \/ \E l \in DOMAIN ent :
                /\ IsHead(ent, l)
                /\ ent'[k].ino = ent[l].ino /\ ent'[k].data = ent[l].data /\ ent'[k].size = ent[l].size
                /\ ent[l].data \in Buffers => ent[l].data \in DOMAIN mem' /\ mem'[ent[l].data] = mem[ent[l].data],
         HeapOK(mem), HeapOK(mem')
  PROVE  HeadsFit(ent', mem') /\ HeadsApart(ent')
<1>1. NULL \notin Buffers
  BY HeapAssumption
<1>2. ASSUME NEW k \in DOMAIN ent', IsHead(ent', k) PROVE Fits(ent'[k], mem')
  <2>1. CASE ent'[k].data = NULL
    BY <1>1, <2>1 DEF Fits
  <2>2. CASE ent'[k].data # NULL
    <3>1. PICK l \in DOMAIN ent :
            /\ IsHead(ent, l)
            /\ ent'[k].ino = ent[l].ino /\ ent'[k].data = ent[l].data /\ ent'[k].size = ent[l].size
            /\ ent[l].data \in Buffers =>
                 ent[l].data \in DOMAIN mem' /\ mem'[ent[l].data] = mem[ent[l].data]
      BY <1>2, <2>2
    <3>2. Fits(ent[l], mem)
      BY <3>1 DEF HeadsFit
    <3>3. CASE ent[l].data \in Buffers
      <4>1. ent'[k].data \in DOMAIN mem' /\ mem'[ent'[k].data] = mem[ent[l].data]
        BY <3>1, <3>3
      <4> QED
        BY <3>1, <3>2, <3>3, <4>1 DEF Fits
    <3>4. CASE ent[l].data \notin Buffers
      <4>1. ent[l].data \notin DOMAIN mem /\ ent[l].data \notin DOMAIN mem'
        BY <3>4 DEF HeapOK
      <4>2. ent[l].data # NULL => ent[l].size <= 0
        BY <3>2, <4>1 DEF Fits
      <4> QED
        BY <3>1, <3>4, <4>1, <4>2 DEF Fits
    <3> QED
      BY <3>3, <3>4
  <2> QED
    BY <2>1, <2>2
<1>3. ASSUME NEW k \in DOMAIN ent', NEW l \in DOMAIN ent', IsHead(ent', k), IsHead(ent', l),
             ent'[k].data \in Buffers, ent'[k].data = ent'[l].data
      PROVE  ent'[k].ino = ent'[l].ino
  <2>1. PICK a \in DOMAIN ent : IsHead(ent, a) /\ ent'[k].ino = ent[a].ino /\ ent'[k].data = ent[a].data
    BY <1>1, <1>3
  <2>2. PICK b \in DOMAIN ent : IsHead(ent, b) /\ ent'[l].ino = ent[b].ino /\ ent'[l].data = ent[b].data
    BY <1>1, <1>3
  <2>3. ent[a].data \in Buffers /\ ent[a].data = ent[b].data
    BY <1>3, <2>1, <2>2
  <2> QED
    BY <2>1, <2>2, <2>3 DEF HeadsApart
<1> QED
  BY <1>2, <1>3 DEF HeadsFit, HeadsApart

\* Some links of x, the first among them when the pointer is another one, get a
\* pointer and a size.  As DataStep, but the other links may keep a buffer that
\* is given up.
HeadStep(x, M, ptr, s) ==
  LET old == ent[First(x)].data IN
  /\ TreeOK(ent') /\ HeapOK(mem') /\ ptr \in Pointers /\ M \subseteq LinksOf(x)
  /\ DOMAIN ent' = DOMAIN ent
  /\ \A l \in DOMAIN ent :
       /\ ent'[l].ino = ent[l].ino /\ ent'[l].dir = ent[l].dir /\ ent'[l].nlink = ent[l].nlink
       /\ ent'[l].at = ent[l].at
       /\ ent'[l].data = IF l \in M THEN ptr ELSE ent[l].data
       /\ ent'[l].size = IF l \in M THEN s ELSE ent[l].size
  /\ ptr = old \/ ptr \in Fresh \/ ptr \notin Buffers
  /\ ptr \in Buffers => ptr \in DOMAIN mem' /\ s <= Len(mem'[ptr])
  /\ ptr \notin Buffers => s = 0
  /\ \A b \in DOMAIN mem : b # old \/ ptr = old => b \in DOMAIN mem' /\ Len(mem'[b]) = Len(mem[b])
  /\ ptr # old => First(x) \in M /\ old \notin DOMAIN mem'

\* A step on data keeps the heads, of its file and of the others.
LEMMA DataHeads ==
  ASSUME TreeInv, NEW x \in RegularFiles, NEW M, NEW ptr, NEW s, HeadStep(x, M, ptr, s),
         UNCHANGED mounted
  PROVE  TreeInv'
<1> DEFINE f == First(x)
           old == ent[f].data
<1>1. /\ TreeOK(ent') /\ HeapOK(mem') /\ ptr \in Pointers /\ M \subseteq LinksOf(x)
      /\ DOMAIN ent' = DOMAIN ent
      /\ \A l \in DOMAIN ent :
           /\ ent'[l].ino = ent[l].ino /\ ent'[l].at = ent[l].at
           /\ ent'[l].data = IF l \in M THEN ptr ELSE ent[l].data
           /\ ent'[l].size = IF l \in M THEN s ELSE ent[l].size
      /\ ptr = old \/ ptr \in Fresh \/ ptr \notin Buffers
      /\ ptr \in Buffers => ptr \in DOMAIN mem' /\ s <= Len(mem'[ptr])
      /\ ptr \notin Buffers => s = 0
      /\ \A b \in DOMAIN mem : b # old \/ ptr = old => b \in DOMAIN mem' /\ Len(mem'[b]) = Len(mem[b])
      /\ ptr # old => f \in M /\ old \notin DOMAIN mem'
  BY DEF HeadStep
<1>2. f \in DOMAIN ent /\ ent[f].ino = x /\ IsHead(ent, f)
  <2>1. f \in DOMAIN ent /\ ent[f].ino = x
    BY FileFirst DEF TreeInv
  <2> QED
    BY <2>1, FirstIsHead DEF TreeInv
<1> HIDE DEF f
<1>3. \A l \in M : l \in DOMAIN ent /\ ent[l].ino = x
  BY <1>1 DEF LinksOf
<1>4. \A k \in DOMAIN ent : IsHead(ent', k) <=> IsHead(ent, k)
  BY <1>1 DEF IsHead
<1>5. \A k \in DOMAIN ent : IsHead(ent, k) /\ ent[k].ino = x => k = f
  <2>1. \A k \in DOMAIN ent : IsHead(ent, k) /\ ent[k].ino = x => k = First(x)
    BY FirstIsHead DEF TreeInv
  <2> QED
    BY <2>1 DEF f
<1>6. Fits(ent[f], mem)
  BY <1>2 DEF TreeInv, HeadsFit
<1>7. \A k \in DOMAIN ent : IsHead(ent, k) /\ k # f =>
        /\ k \notin M /\ Fits(ent[k], mem)
        /\ ent[k].data \in Buffers => ent[k].data # old
  BY <1>2, <1>3, <1>5 DEF TreeInv, HeadsFit, HeadsApart
<1>8. NULL \notin Buffers /\ DOMAIN mem \subseteq Buffers /\ DOMAIN mem' \subseteq Buffers
  BY <1>1, HeapAssumption DEF TreeInv, HeapOK
<1>9. ASSUME NEW k \in DOMAIN ent, IsHead(ent, k) PROVE Fits(ent'[k], mem')
  <2>1. CASE k \in M
    BY <1>1, <1>8, <2>1 DEF Fits
  <2>2. CASE k \notin M
    <3>1. ent'[k].data = ent[k].data /\ ent'[k].size = ent[k].size /\ Fits(ent[k], mem)
      BY <1>1, <1>6, <1>7, <1>9, <2>2
    <3>2. ent[k].data \in Buffers => ent[k].data # old \/ ptr = old
      BY <1>1, <1>7, <1>9, <2>2
    <3>3. ent[k].data \in Buffers =>
            /\ ent[k].data \in DOMAIN mem /\ ent[k].data \in DOMAIN mem'
            /\ Len(mem'[ent[k].data]) = Len(mem[ent[k].data])
      BY <1>1, <3>1, <3>2 DEF Fits
    <3>4. CASE ent[k].data \in Buffers
      BY <3>1, <3>3, <3>4 DEF Fits
    <3>5. CASE ent[k].data \notin Buffers
      BY <1>8, <3>1, <3>5 DEF Fits
    <3> QED
      BY <3>4, <3>5
  <2> QED
    BY <2>1, <2>2
<1>10. ASSUME NEW k \in DOMAIN ent, IsHead(ent, k), k # f, ent'[f].data \in Buffers
       PROVE  ent'[k].data # ent'[f].data
  <2>1. ent'[k].data = ent[k].data /\ k \notin M
    BY <1>1, <1>7, <1>10
  <2>2. ent[k].data \in Buffers => ent[k].data \in DOMAIN mem /\ ent[k].data # old
    BY <1>7, <1>10 DEF Fits
  <2>3. ent'[f].data = old \/ ent'[f].data \in Fresh \/ ent'[f].data \notin Buffers
    BY <1>1, <1>2
  <2> QED
    BY <1>10, <2>1, <2>2, <2>3 DEF Fresh
<1>11. HeadsFit(ent', mem')
  BY <1>1, <1>4, <1>9 DEF HeadsFit
<1>12. ASSUME NEW k \in DOMAIN ent, NEW l \in DOMAIN ent, IsHead(ent, k), IsHead(ent, l),
              ent'[k].data \in Buffers, ent'[k].data = ent'[l].data
       PROVE  ent[k].ino = ent[l].ino
  <2>1. CASE k = f \/ l = f
    BY <1>10, <1>12, <2>1
  <2>2. CASE k # f /\ l # f
    <3>1. ent'[k].data = ent[k].data /\ ent'[l].data = ent[l].data
      BY <1>1, <1>7, <1>12, <2>2
    <3> QED
      BY <1>12, <3>1 DEF TreeInv, HeadsApart
  <2> QED
    BY <2>1, <2>2
<1>13. HeadsApart(ent')
  BY <1>1, <1>4, <1>12 DEF HeadsApart
<1>14. Placed(ent')
  BY <1>1 DEF TreeInv, Placed
<1> QED
  BY <1>1, <1>11, <1>13, <1>14 DEF TreeInv

\* A new entry's place is one in the walk, or the one after it.
LEMMA PlaceInRange ==
  ASSUME TreeOK(ent), Placed(ent), NEW d
  PROVE  Place(d) \in 1 .. Cardinality(DOMAIN ent) + 1
<1>1. /\ Cardinality(DOMAIN ent) \in Nat
      /\ \A m \in DOMAIN ent : ent[m].at \in Nat /\ ent[m].at < Cardinality(DOMAIN ent) + 1
  BY LastPlace
<1>2. CASE Beyond(d) = {}
  BY <1>1, <1>2 DEF Place
<1>3. CASE Beyond(d) # {}
  <2>1. Beyond(d) \subseteq DOMAIN ent
    BY DEF Beyond
  <2>2. Earliest(ent, Beyond(d)) \in DOMAIN ent
    BY <1>3, <2>1, EarliestIsOne
  <2>3. Place(d) = ent[Earliest(ent, Beyond(d))].at
    BY <1>3 DEF Place
  <2> QED
    BY <1>1, <2>2, <2>3 DEF Placed
<1> QED
  BY <1>2, <1>3

\* WithOK for every entry that the tree could get.
LEMMA WithIs ==
  ASSUME TreeOK(ent)
  PROVE  \A k \in Keys, e \in Entry : k \notin DOMAIN ent =>
           /\ TreeOK(With(ent, k, e))
           /\ DOMAIN With(ent, k, e) = DOMAIN ent \cup {k}
           /\ With(ent, k, e)[k] = e
           /\ \A l \in DOMAIN ent : SameBody(With(ent, k, e)[l], ent[l])
BY WithOK

\* A new entry is empty and the only one of its file, or it takes over what the
\* first entry holds: it may be the first in its place.
LEMMA AddedTree ==
  ASSUME TreeInv, UNCHANGED <<mounted, mem>>, mounted,
         NEW q \in Keys, q \notin DOMAIN ent, NEW e \in Entry, e.at = Place(q[1]),
         \/ e.data = NULL
         \/ \E f \in DOMAIN ent : /\ IsHead(ent, f) /\ ent[f].ino = e.ino
                                  /\ ent[f].data = e.data /\ ent[f].size = e.size,
         TreeOK(ent'), SameOrder(ent', With(ent, q, e)),
         \A k \in DOMAIN ent' : /\ ent'[k].data = With(ent, q, e)[k].data
                                /\ ent'[k].size = With(ent, q, e)[k].size
  PROVE  TreeInv'
<1> DEFINE u == With(ent, q, e)
<1>1. e.at \in 1 .. Cardinality(DOMAIN ent) + 1
  BY PlaceInRange DEF TreeInv
<1>2. AddedTo(u, q, e)
  BY <1>1, AddedRank DEF TreeInv
<1>3. /\ DOMAIN u = DOMAIN ent \cup {q} /\ u[q] = e
      /\ \A l \in DOMAIN ent : SameBody(u[l], ent[l])
  <2>1. TreeOK(ent)
    BY DEF TreeInv
  <2> HIDE DEF u
  <2>2. /\ DOMAIN With(ent, q, e) = DOMAIN ent \cup {q}
        /\ With(ent, q, e)[q] = e
        /\ \A l \in DOMAIN ent : SameBody(With(ent, q, e)[l], ent[l])
    BY <2>1, WithIs
  <2> QED
    BY <2>2 DEF u
<1> HIDE DEF u
<1>4. /\ DOMAIN ent' = DOMAIN ent \cup {q} /\ Placed(ent')
      /\ \A k \in DOMAIN ent' : /\ ent'[k].ino = u[k].ino /\ ent'[k].at = u[k].at
                                /\ ent'[k].data = u[k].data /\ ent'[k].size = u[k].size
  BY <1>2, <1>3 DEF u, SameOrder, Placed, AddedTo
<1>5. /\ e.at \in Nat
      /\ \A l \in DOMAIN ent :
           /\ ent'[l].ino = ent[l].ino /\ ent[l].at \in Nat
           /\ ent'[l].at = IF ent[l].at >= e.at THEN ent[l].at + 1 ELSE ent[l].at
  BY <1>2, <1>4 DEF AddedTo, Entry
<1>6. ASSUME NEW k \in DOMAIN ent, IsHead(ent', k) PROVE IsHead(ent, k)
  <2>1. ASSUME NEW l \in DOMAIN ent, ent[l].ino = ent[k].ino PROVE ent[k].at <= ent[l].at
    <3>1. ent'[k].at <= ent'[l].at
      BY <1>4, <1>5, <1>6, <2>1 DEF IsHead
    <3> QED
      BY <1>5, <3>1
  <2> QED
    BY <2>1 DEF IsHead
<1>7. HeapOK(mem) /\ HeapOK(mem') /\ mem' = mem /\ HeadsFit(ent, mem) /\ HeadsApart(ent)
  BY DEF TreeInv
<1>8. ASSUME NEW k \in DOMAIN ent', IsHead(ent', k)
      PROVE  \/ ent'[k].data = NULL
             \/ \E l \in DOMAIN ent :
                  /\ IsHead(ent, l)
                  /\ ent'[k].ino = ent[l].ino /\ ent'[k].data = ent[l].data /\ ent'[k].size = ent[l].size
                  /\ ent[l].data \in Buffers =>
                       ent[l].data \in DOMAIN mem' /\ mem'[ent[l].data] = mem[ent[l].data]
  <2>1. CASE k = q
    <3>1. ent'[k].ino = e.ino /\ ent'[k].data = e.data /\ ent'[k].size = e.size
      BY <1>3, <1>4, <2>1
    <3>2. \A f \in DOMAIN ent : IsHead(ent, f) /\ ent[f].data \in Buffers => ent[f].data \in DOMAIN mem
      BY <1>7 DEF HeadsFit, Fits
    <3> QED
      BY <1>7, <3>1, <3>2
  <2>2. CASE k \in DOMAIN ent
    <3>1. IsHead(ent, k)
      BY <1>6, <1>8, <2>2
    <3>2. ent'[k].ino = ent[k].ino /\ ent'[k].data = ent[k].data /\ ent'[k].size = ent[k].size
      BY <1>3, <1>4, <2>2 DEF SameBody
    <3>3. ent[k].data \in Buffers => ent[k].data \in DOMAIN mem
      BY <1>7, <2>2, <3>1 DEF HeadsFit, Fits
    <3> QED
      BY <1>7, <2>2, <3>1, <3>2, <3>3
  <2> QED
    BY <1>4, <2>1, <2>2
<1>9. HeadsFit(ent', mem') /\ HeadsApart(ent')
  BY <1>7, <1>8, HeadsFrom
<1> QED
  BY <1>4, <1>7, <1>9 DEF TreeInv

\* An entry that goes was the only one of its file, and takes its buffer along
\* at most.
LEMMA RemovedTree ==
  ASSUME TreeInv, UNCHANGED mounted, mounted,
         NEW q \in DOMAIN ent, LinksIn(ent, ent[q].ino) = {q},
         ent' = Without(ent, {q}), mem' = mem \/ mem' = Free(mem, {ent[q].data})
  PROVE  TreeInv'
<1>1. /\ TreeOK(ent') /\ DOMAIN ent' = DOMAIN ent \ {q}
      /\ \A l \in DOMAIN ent \ {q} : SameBody(ent'[l], ent[l])
  BY WithoutOK DEF TreeInv
<1>2. \A l \in DOMAIN ent \ {q} :
        /\ ent'[l].at \in 1 .. Cardinality(DOMAIN ent \ {q})
        /\ \A m \in DOMAIN ent \ {q} : ent[l].at < ent[m].at => ent'[l].at < ent'[m].at
  BY RemovedRank DEF TreeInv
<1>3. \A l \in DOMAIN ent : ent[l].at \in Nat
  BY DEF TreeInv, TreeOK, Entry
<1>4. Cardinality(DOMAIN ent \ {q}) \in Nat
  BY FS_Subset, FS_CardinalityType DEF TreeInv, TreeOK
<1>5. \A l \in DOMAIN ent \ {q} : ent'[l].at \in Nat
  BY <1>2, <1>4
<1>6. Placed(ent')
  <2>1. ASSUME NEW k \in DOMAIN ent', NEW l \in DOMAIN ent', ent'[k].at = ent'[l].at PROVE k = l
    <3>1. ~(ent[k].at < ent[l].at) /\ ~(ent[l].at < ent[k].at)
      <4>1. k \in DOMAIN ent \ {q} /\ l \in DOMAIN ent \ {q}
        BY <1>1
      <4>2. ent[k].at < ent[l].at => ent'[k].at < ent'[l].at
        BY <1>2, <4>1
      <4>3. ent[l].at < ent[k].at => ent'[l].at < ent'[k].at
        BY <1>2, <4>1
      <4>4. ent'[k].at \in Nat
        BY <1>5, <4>1
      <4> QED
        BY <2>1, <4>2, <4>3, <4>4
    <3>2. ent[k].at = ent[l].at
      BY <1>1, <1>3, <3>1
    <3> QED
      BY <1>1, <3>2 DEF TreeInv, Placed
  <2> QED
    BY <1>1, <1>2, <2>1 DEF Placed
<1>7. HeapOK(mem) /\ HeapOK(mem') /\ HeadsFit(ent, mem) /\ HeadsApart(ent)
  <2>1. HeapOK(mem)
    BY DEF TreeInv
  <2>2. HeapOK(Free(mem, {ent[q].data}))
    BY <2>1, FreeOK
  <2> QED
    BY <2>1, <2>2 DEF TreeInv
<1>8. \A b \in DOMAIN mem : b # ent[q].data => b \in DOMAIN mem' /\ mem'[b] = mem[b]
  BY DEF Free
<1>9. \A l \in DOMAIN ent : ent[l].ino = ent[q].ino => l = q
  BY DEF LinksIn
<1>10. IsHead(ent, q)
  BY <1>3, <1>9 DEF IsHead
<1>11. ASSUME NEW k \in DOMAIN ent', IsHead(ent', k)
       PROVE  \/ ent'[k].data = NULL
              \/ \E l \in DOMAIN ent :
                   /\ IsHead(ent, l)
                   /\ ent'[k].ino = ent[l].ino /\ ent'[k].data = ent[l].data /\ ent'[k].size = ent[l].size
                   /\ ent[l].data \in Buffers =>
                        ent[l].data \in DOMAIN mem' /\ mem'[ent[l].data] = mem[ent[l].data]
  <2>1. k \in DOMAIN ent /\ k # q
    BY <1>1
  <2>2. /\ ent'[k].ino = ent[k].ino /\ ent'[k].data = ent[k].data /\ ent'[k].size = ent[k].size
    BY <1>1, <2>1 DEF SameBody
  <2>3. ent[k].ino # ent[q].ino
    BY <1>9, <2>1
  <2>4. ASSUME NEW l \in DOMAIN ent, ent[l].ino = ent[k].ino PROVE ent[k].at <= ent[l].at
    <3>1. l \in DOMAIN ent' /\ l # q
      BY <1>1, <2>3, <2>4
    <3>2. ent'[l].ino = ent'[k].ino
      BY <1>1, <2>1, <2>4, <3>1 DEF SameBody
    <3>3. ent'[k].at <= ent'[l].at
      BY <1>11, <3>1, <3>2 DEF IsHead
    <3>4. ~(ent[l].at < ent[k].at)
      <4>1. ent[l].at < ent[k].at => ent'[l].at < ent'[k].at
        BY <1>2, <2>1, <3>1
      <4>2. ent'[l].at \in Nat /\ ent'[k].at \in Nat
        BY <1>5, <2>1, <3>1
      <4> QED
        BY <3>3, <4>1, <4>2
    <3> QED
      BY <1>3, <2>1, <3>4
  <2>5. IsHead(ent, k)
    BY <2>4 DEF IsHead
  <2>6. ent[k].data \in Buffers => ent[k].data \in DOMAIN mem /\ ent[k].data # ent[q].data
    BY <1>7, <1>10, <2>1, <2>3, <2>5 DEF HeadsFit, HeadsApart, Fits
  <2> QED
    BY <1>8, <2>1, <2>2, <2>5, <2>6
<1>12. HeadsFit(ent', mem') /\ HeadsApart(ent')
  BY <1>7, <1>11, HeadsFrom
<1> QED
  BY <1>1, <1>6, <1>7, <1>12 DEF TreeInv

\* While a file keeps its names, an entry that goes is the only one of its file.
LEMMA LastLink ==
  ASSUME TreeOK(ent), KeepsLinks, NEW k \in DOMAIN ent, k \notin DOMAIN ent' \/ ~mounted'
  PROVE  LinksIn(ent, ent[k].ino) = {k} /\ LinksOf(ent[k].ino) = {k}
<1> DEFINE x == ent[k].ino
<1>1. LinksOf(x) = LinksIn(ent, x) /\ x \in Inos /\ k \in LinksOf(x)
  BY DEF LinksOf, LinksIn, TreeOK, Entry
<1>2. IsFiniteSet(LinksOf(x))
  BY FS_Subset DEF TreeOK, LinksOf
<1>3. ~(Cardinality(LinksOf(x)) > 1)
  BY <1>1 DEF KeepsLinks
<1>4. ASSUME NEW l \in LinksOf(x), l # k PROVE FALSE
  <2>1. {k, l} \subseteq LinksOf(x)
    BY <1>1
  <2>2. Cardinality({k, l}) = 2
    <3>1. IsFiniteSet({k}) /\ Cardinality({k}) = 1
      BY FS_Singleton
    <3>2. Cardinality({k} \cup {l}) = Cardinality({k}) + 1
      <4>1. l \notin {k}
        BY <1>4
      <4> QED
        BY <3>1, <4>1, FS_AddElement
    <3>3. {k} \cup {l} = {k, l}
      OBVIOUS
    <3> QED
      BY <3>1, <3>2, <3>3
  <2>3. Cardinality({k, l}) <= Cardinality(LinksOf(x)) /\ Cardinality(LinksOf(x)) \in Nat
    BY <1>2, <2>1, FS_Subset, FS_CardinalityType
  <2> QED
    BY <1>3, <2>2, <2>3
<1> QED
  BY <1>1, <1>4

-----------------------------------------------------------------------------
(* Entries and rows of one file                                            *)

\* The invariant between tree and database, of each inode number: a file with
\* an entry has a row; one with two rows has two entries; and the only entry of
\* a file is named by one of its rows.
InDb(t, R, x) ==
  /\ LinksIn(t, x) # {} => RowsIn(R, x) # {}
  /\ \A i, j \in RowsIn(R, x) : i # j => \E k, l \in LinksIn(t, x) : k # l
  /\ \A k : LinksIn(t, x) = {k} =>
       \E i \in RowsIn(R, x) : NameOf(R[i]) = k /\ R[i].dir = t[k].dir

RemoteInv == TreeInv /\ S!Inv /\ \A x \in Inos : InDb(ent, rows, x)

\* A file has the same entries in both trees, but for counts, data and places.
SameLinks(t, u, x) ==
  /\ LinksIn(u, x) = LinksIn(t, x)
  /\ \A k \in LinksIn(t, x) : u[k].dir = t[k].dir

\* What is not touched stays as it is.
LEMMA Untouched ==
  ASSUME NEW x, InDb(ent, rows, x), SameLinks(ent, ent', x), SameRows(rows, rows', x)
  PROVE  InDb(ent', rows', x)
BY DEF InDb, SameLinks, SameRows

\* A step on data, and one that changes counts and sizes of rows.
LEMMA DataKeepsRemote ==
  ASSUME RemoteInv, NEW x \in RegularFiles, \E M, ptr, s : HeadStep(x, M, ptr, s),
         UNCHANGED mounted, S!Inv', DOMAIN rows' = DOMAIN rows,
         \A i \in DOMAIN rows : SameBut(rows'[i], rows[i])
  PROVE  RemoteInv'
<1>1. PICK M, ptr, s : HeadStep(x, M, ptr, s)
  OBVIOUS
<1>2. TreeInv'
  BY <1>1, DataHeads DEF RemoteInv
<1>3. /\ DOMAIN ent' = DOMAIN ent
      /\ \A l \in DOMAIN ent : ent'[l].ino = ent[l].ino /\ ent'[l].dir = ent[l].dir
  BY <1>1 DEF HeadStep
<1>4. ASSUME NEW y \in Inos PROVE InDb(ent', rows', y)
  <2>1. SameLinks(ent, ent', y)
    BY <1>3 DEF SameLinks, LinksIn
  <2>2. SameRows(rows, rows', y)
    BY DEF SameRows, RowsIn, SameBut
  <2> QED
    BY <2>1, <2>2, Untouched DEF RemoteInv
<1> QED
  BY <1>2, <1>4 DEF RemoteInv

\* vtfs_create and vtfs_mkdir: the number that the server gives is no entry's,
\* for every entry's number has a row.
LEMMA RemoteMakeKeeps ==
  ASSUME RemoteInv, NEW k \in Keys, NEW isDir \in BOOLEAN, RemoteMake(k, isDir)
  PROVE  RemoteInv'
<1> DEFINE x == DB!NewIno(Token)
           e == [NewEntry(k, isDir) EXCEPT !.ino = x]
<1>1. /\ mounted /\ UNCHANGED <<mounted, mem>> /\ k \notin DOMAIN ent
      /\ TreeInv /\ S!Inv /\ TreeOK(ent)
      /\ k[1] \in Inos \cup {RootIno} /\ k[2] \in Names /\ k = <<k[1], k[2]>>
  BY DEF RemoteMake, RemoteInv, TreeInv, Keys
<1>2. CASE UNCHANGED <<ent, rows, chunks>>
  <2>1. TreeInv'
    BY <1>1, <1>2 DEF TreeInv, HeadsFit, HeadsApart, Placed, IsHead, Fits, TreeOK, HeapOK
  <2>2. S!Inv'
    BY <1>1, <1>2 DEF S!Inv
  <2> QED
    BY <1>2, <2>1, <2>2 DEF RemoteInv
<1>3. CASE DB!Create(Token, k[1], k[2], isDir) /\ (ent' = ent \/ ent' = With(ent, k, e))
  <2>1. /\ S!Inv' /\ x \in Inos /\ RowsIn(rows, x) = {}
        /\ \E i : /\ i \notin DOMAIN rows /\ DOMAIN rows' = DOMAIN rows \cup {i}
                  /\ \A j \in DOMAIN rows : rows'[j] = rows[j]
                  /\ rows'[i] = DB!NewRow(Token, k[1], k[2], isDir)
    BY <1>1, <1>3, CreateRows
  <2>2. PICK i : /\ i \notin DOMAIN rows /\ DOMAIN rows' = DOMAIN rows \cup {i}
                 /\ \A j \in DOMAIN rows : rows'[j] = rows[j]
                 /\ rows'[i] = DB!NewRow(Token, k[1], k[2], isDir)
    BY <2>1
  <2>3. rows'[i].ino = x /\ NameOf(rows'[i]) = k /\ rows'[i].dir = isDir
    BY <1>1, <2>2 DEF DB!NewRow, NameOf
  <2>4. /\ e = [ino |-> x, dir |-> isDir, nlink |-> 1, data |-> NULL, size |-> 0, at |-> Place(k[1])]
        /\ e \in Entry
    <3>1. e = [ino |-> x, dir |-> isDir, nlink |-> 1, data |-> NULL, size |-> 0, at |-> Place(k[1])]
      BY DEF NewEntry
    <3> HIDE DEF e, x
    <3> QED
      BY <1>1, <2>1, <3>1, PlaceIsNat, SizeAssumption DEF Entry, Pointers, Sizes
  <2>5. LinksIn(ent, x) = {}
    BY <2>1 DEF RemoteInv, InDb
  <2> HIDE DEF e, x
  <2>6. /\ TreeOK(With(ent, k, e)) /\ DOMAIN With(ent, k, e) = DOMAIN ent \cup {k}
        /\ With(ent, k, e)[k] = e
        /\ \A l \in DOMAIN ent : SameBody(With(ent, k, e)[l], ent[l])
    BY <1>1, <2>4, WithIs
  <2>7. TreeInv'
    <3>1. CASE ent' = ent
      BY <1>1, <3>1 DEF TreeInv, HeadsFit, HeadsApart, Placed, IsHead, Fits, TreeOK, HeapOK
    <3>2. CASE ent' = With(ent, k, e)
      <4>1. TreeOK(ent') /\ SameOrder(ent', With(ent, k, e))
        BY <2>6, <3>2 DEF SameOrder
      <4>2. e.data = NULL /\ e.at = Place(k[1])
        BY <2>4
      <4> QED
        BY <1>1, <2>4, <3>2, <4>1, <4>2, AddedTree
    <3> QED
      BY <1>3, <3>1, <3>2 DEF e, x
  <2>8. ASSUME NEW y \in Inos PROVE InDb(ent', rows', y)
    <3>1. CASE y # x
      <4>1. SameRows(rows, rows', y)
        BY <2>2, <2>3, <3>1 DEF SameRows, RowsIn
      <4>2. SameLinks(ent, ent', y)
        BY <1>3, <2>4, <2>6, <3>1 DEF SameLinks, LinksIn, SameBody, e, x
      <4> QED
        BY <4>1, <4>2, Untouched DEF RemoteInv
    <3>2. CASE y = x
      <4>1. RowsIn(rows', x) = {i}
        BY <2>1, <2>2, <2>3 DEF RowsIn
      <4>2. CASE ent' = ent
        BY <2>5, <3>2, <4>1, <4>2 DEF InDb
      <4>3. CASE ent' = With(ent, k, e)
        <5>1. LinksIn(ent', x) = {k} /\ ent'[k].dir = isDir
          BY <2>4, <2>5, <2>6, <4>3 DEF LinksIn, SameBody
        <5> QED
          BY <2>3, <3>2, <4>1, <5>1 DEF InDb
      <4> QED
        BY <1>3, <4>2, <4>3 DEF e, x
    <3> QED
      BY <3>1, <3>2
  <2> QED
    BY <2>1, <2>7, <2>8 DEF RemoteInv
<1> QED
  BY <1>2, <1>3 DEF RemoteMake, db

\* vtfs_link: the tree gets the entry whatever the server answers, and the
\* server adds a row for the file if any.
LEMMA RemoteLinkKeeps ==
  ASSUME RemoteInv, NEW k \in Keys, NEW x \in Inos, RemoteLink(k, x)
  PROVE  RemoteInv'
<1> DEFINE f == First(x)
           e == [ent[f] EXCEPT !.at = Place(k[1])]
<1>1. /\ mounted /\ UNCHANGED <<mounted, mem>> /\ k \notin DOMAIN ent /\ x \in RegularFiles
      /\ TreeInv /\ S!Inv /\ TreeOK(ent) /\ Placed(ent)
      /\ k[1] \in Inos \cup {RootIno} /\ k[2] \in Names
  BY DEF RemoteLink, RemoteInv, TreeInv, Keys
<1>2. f \in DOMAIN ent /\ ent[f].ino = x /\ ent[f] \in Entry
  BY <1>1, FileFirst
<1>3. IsHead(ent, f)
  BY <1>1, <1>2, FirstIsHead
<1>4. /\ \/ DB!Link(Token, x, k[1], k[2])
         \/ UNCHANGED <<rows, chunks>>
      /\ \/ \E i \in DB!OfIno(Token, x) : ent' = SetNlink(With(ent, k, e), x, rows[i].nlink + 1)
         \/ ent' = SetNlink(With(ent, k, e), x, ent[f].nlink + 1)
  BY DEF RemoteLink, RequestLink, Lost, db
<1>5. /\ e \in Entry /\ e.ino = x /\ e.at = Place(k[1])
      /\ e.data = ent[f].data /\ e.size = ent[f].size
  <2>1. Place(k[1]) \in Nat
    BY <1>1, PlaceIsNat
  <2> HIDE DEF f
  <2> QED
    BY <1>2, <2>1 DEF Entry
<1> HIDE DEF e
<1>6. \E n \in Nat \ {0} : ent' = SetNlink(With(ent, k, e), x, n)
  <2>1. \A i \in DB!OfIno(Token, x) : rows[i].nlink + 1 \in Nat \ {0}
    BY <1>1, OneToken DEF RowsIn
  <2>2. ent[f].nlink + 1 \in Nat \ {0}
    BY <1>2 DEF Entry
  <2> QED
    BY <1>4, <2>1, <2>2
<1> HIDE DEF f
<1>7. PICK n \in Nat \ {0} : ent' = SetNlink(With(ent, k, e), x, n)
  BY <1>6
<1> DEFINE u == With(ent, k, e)
<1>8. /\ TreeOK(u) /\ DOMAIN u = DOMAIN ent \cup {k} /\ u[k] = e
      /\ \A l \in DOMAIN ent : SameBody(u[l], ent[l])
  BY <1>1, <1>5, WithIs
<1>9. ent' = SetNlink(u, x, n)
  BY <1>7
<1> HIDE DEF u
<1>10. /\ TreeOK(ent') /\ DOMAIN ent' = DOMAIN u
       /\ \A l \in DOMAIN u : /\ ent'[l].ino = u[l].ino /\ ent'[l].dir = u[l].dir
                              /\ ent'[l].data = u[l].data /\ ent'[l].size = u[l].size
                              /\ ent'[l].at = u[l].at
  BY <1>8, <1>9, SetNlinkOK
<1>11. TreeInv'
  <2>1. SameOrder(ent', With(ent, k, e))
    BY <1>10 DEF SameOrder, u
  <2>2. \A l \in DOMAIN ent' : /\ ent'[l].data = With(ent, k, e)[l].data
                               /\ ent'[l].size = With(ent, k, e)[l].size
    BY <1>10 DEF u
  <2>3. \E g \in DOMAIN ent : /\ IsHead(ent, g) /\ ent[g].ino = e.ino
                              /\ ent[g].data = e.data /\ ent[g].size = e.size
    BY <1>2, <1>3, <1>5
  <2> QED
    BY <1>1, <1>5, <1>10, <2>1, <2>2, <2>3, AddedTree
<1>12. /\ S!Inv'
       /\ \A y \in Inos : y # x => SameRows(rows, rows', y)
       /\ RowsIn(rows, x) \subseteq RowsIn(rows', x)
  <2>1. CASE UNCHANGED <<rows, chunks>>
    <3>1. S!Inv'
      BY <1>1, <2>1 DEF S!Inv
    <3> QED
      BY <2>1, <3>1 DEF SameRows, RowsIn
  <2>2. CASE DB!Link(Token, x, k[1], k[2])
    <3>1. S!Inv'
      BY <1>1, <2>2, LinkRows
    <3>2. PICK i, j : RowsIn(rows, x) = {i} /\ Twinned(i, j, k[1], k[2])
      BY <1>1, <2>2, LinkRows
    <3>3. rows[i] \in S!VtfsFile /\ rows[i].ino = x
      BY <1>1, <3>2 DEF S!Inv, S!TypeIn, Twinned, RowsIn
    <3>4. rows'[i].ino = x /\ rows'[j].ino = x
      BY <3>2, <3>3 DEF S!VtfsFile, Twinned
    <3>5. ASSUME NEW y \in Inos, y # x PROVE SameRows(rows, rows', y)
      <4>1. \A l \in DOMAIN rows : rows[l].ino = y => l \in DOMAIN rows' /\ rows'[l] = rows[l]
        BY <3>2, <3>3, <3>5 DEF Twinned
      <4>2. \A l \in DOMAIN rows' : rows'[l].ino = y => l \in DOMAIN rows /\ rows[l].ino = y
        BY <3>2, <3>3, <3>4, <3>5 DEF Twinned
      <4> QED
        BY <4>1, <4>2 DEF SameRows, RowsIn
    <3>6. RowsIn(rows, x) \subseteq RowsIn(rows', x)
      BY <3>2, <3>4 DEF RowsIn, Twinned
    <3> QED
      BY <3>1, <3>5, <3>6
  <2> QED
    BY <1>4, <2>1, <2>2
<1>13. ASSUME NEW y \in Inos PROVE InDb(ent', rows', y)
  <2>1. CASE y # x
    <3>1. SameLinks(ent, ent', y)
      BY <1>5, <1>8, <1>10, <2>1 DEF SameLinks, LinksIn, SameBody
    <3> QED
      BY <1>12, <2>1, <3>1, Untouched DEF RemoteInv
  <2>2. CASE y = x
    <3>1. k \in LinksIn(ent', x) /\ f \in LinksIn(ent', x) /\ f # k
      BY <1>1, <1>2, <1>5, <1>8, <1>10 DEF LinksIn, SameBody
    <3>2. RowsIn(rows, x) # {}
      BY <1>2 DEF RemoteInv, InDb, LinksIn
    <3> QED
      BY <1>12, <2>2, <3>1, <3>2 DEF InDb
  <2> QED
    BY <2>1, <2>2
<1> QED
  BY <1>11, <1>12, <1>13 DEF RemoteInv

\* An entry that goes was the only one of its file, of which the server removes
\* rows if any.
LEMMA RemovalKeeps ==
  ASSUME RemoteInv, KeepsLinks, mounted, UNCHANGED mounted, NEW k \in DOMAIN ent,
         LinksIn(ent, ent[k].ino) = {k}, ent' = Without(ent, {k}),
         mem' = mem \/ mem' = Free(mem, {ent[k].data}),
         \/ DB!Unlink(Token, ent[k].ino)
         \/ DB!Delete(Token, ent[k].ino)
         \/ UNCHANGED <<rows, chunks>>
  PROVE  RemoteInv'
<1> DEFINE x == ent[k].ino
<1>1. TreeInv /\ S!Inv /\ TreeOK(ent) /\ x \in Inos
  BY DEF RemoteInv, TreeInv, TreeOK, Entry
<1>2. TreeInv'
  BY <1>1, RemovedTree
<1>3. /\ DOMAIN ent' = DOMAIN ent \ {k}
      /\ \A l \in DOMAIN ent \ {k} : SameBody(ent'[l], ent[l])
  BY <1>1, WithoutOK
<1>4. LinksIn(ent', x) = {}
  BY <1>3 DEF LinksIn, SameBody
<1>5. /\ S!Inv'
      /\ \A y \in Inos : y # x => SameRows(rows, rows', y)
      /\ RowsIn(rows', x) \subseteq RowsIn(rows, x)
  <2>1. CASE UNCHANGED <<rows, chunks>>
    <3>1. S!Inv'
      BY <1>1, <2>1 DEF S!Inv
    <3> QED
      BY <2>1, <3>1 DEF SameRows, RowsIn
  <2>2. CASE DB!Unlink(Token, x) \/ DB!Delete(Token, x)
    <3>1. /\ S!Inv'
          /\ DOMAIN rows' \subseteq DOMAIN rows
          /\ \A i \in DOMAIN rows : rows[i].ino # x => i \in DOMAIN rows'
          /\ \A i \in DOMAIN rows' : /\ SameBut(rows'[i], rows[i])
                                     /\ rows[i].ino # x => rows'[i] = rows[i]
      BY <1>1, <2>2, RemoveRows
    <3> QED
      BY <3>1 DEF SameRows, RowsIn, SameBut
  <2> QED
    BY <2>1, <2>2
<1>6. \A i, j \in RowsIn(rows, x) : i = j
  BY <1>1 DEF RemoteInv, InDb
<1> HIDE DEF x
<1>7. ASSUME NEW y \in Inos PROVE InDb(ent', rows', y)
  <2>1. CASE y # x
    <3>1. SameLinks(ent, ent', y)
      BY <1>3, <2>1 DEF SameLinks, LinksIn, SameBody, x
    <3> QED
      BY <1>5, <2>1, <3>1, Untouched DEF RemoteInv
  <2>2. CASE y = x
    BY <1>4, <1>5, <1>6, <2>2 DEF InDb
  <2> QED
    BY <2>1, <2>2
<1> QED
  BY <1>2, <1>5, <1>7 DEF RemoteInv

\* The count of the entry that goes is no other entry's.
LEMMA OtherNlink ==
  ASSUME NEW k, NEW x, LinksIn(ent, x) = {k}, NEW n
  PROVE  Without(SetNlink(ent, x, n), {k}) = Without(ent, {k})
<1> DEFINE t == SetNlink(ent, x, n)
<1>1. DOMAIN t = DOMAIN ent /\ \A l \in DOMAIN ent : l # k => t[l] = ent[l]
  BY DEF SetNlink, LinksIn
<1> HIDE DEF t
<1>2. \A l \in DOMAIN ent \ {k} :
        {m \in DOMAIN t \ {k} : t[m].at <= t[l].at} = {m \in DOMAIN ent \ {k} : ent[m].at <= ent[l].at}
  BY <1>1
<1>3. Without(t, {k}) = Without(ent, {k})
  BY <1>1, <1>2 DEF Without
<1> QED
  BY <1>3 DEF t

\* vtfs_unlink
LEMMA RemoteUnlinkKeeps ==
  ASSUME RemoteInv, KeepsLinks, NEW k \in Keys, RemoteUnlink(k)
  PROVE  RemoteInv'
<1> DEFINE x == ent[k].ino
           n == ent[First(x)].nlink - 1
           K == IF n = 0 THEN LinksOf(x) ELSE {k}
<1>1. /\ mounted /\ UNCHANGED mounted /\ k \in DOMAIN ent
      /\ ent' = Without(SetNlink(ent, x, n), K)
      /\ mem' = mem \/ mem' = Free(mem, {ent[k].data})
      /\ \/ DB!Unlink(Token, x) \/ UNCHANGED <<rows, chunks>>
  BY DEF RemoteUnlink, Unlink, RequestUnlink, Lost, db
<1>2. k \in K
  BY <1>1 DEF LinksOf
<1>3. DOMAIN ent' = DOMAIN ent \ K
  BY <1>1 DEF Without, SetNlink
<1>4. LinksIn(ent, x) = {k} /\ LinksOf(x) = {k}
  BY <1>1, <1>2, <1>3, LastLink DEF RemoteInv, TreeInv
<1>5. K = {k} /\ ent' = Without(SetNlink(ent, x, n), {k})
  BY <1>1, <1>4
<1> HIDE DEF K, n
<1>6. Without(SetNlink(ent, x, n), {k}) = Without(ent, {k})
  BY <1>4, OtherNlink
<1> QED
  BY <1>1, <1>4, <1>5, <1>6, RemovalKeeps

\* vtfs_rmdir
LEMMA RemoteRmdirKeeps ==
  ASSUME RemoteInv, KeepsLinks, NEW k \in Keys, RemoteRmdir(k)
  PROVE  RemoteInv'
<1>1. /\ mounted /\ UNCHANGED mounted /\ k \in DOMAIN ent /\ ent' = Without(ent, {k}) /\ mem' = mem
      /\ \/ DB!Delete(Token, ent[k].ino) \/ UNCHANGED <<rows, chunks>>
  BY DEF RemoteRmdir, Rmdir, RequestDelete, Lost, db
<1>2. DOMAIN ent' = DOMAIN ent \ {k}
  BY <1>1 DEF Without
<1>3. LinksIn(ent, ent[k].ino) = {k}
  BY <1>1, <1>2, LastLink DEF RemoteInv, TreeInv
<1> QED
  BY <1>1, <1>3, RemovalKeeps

\* A handler that only changes the data in the tree, or also sends it.
LEMMA DataRemote ==
  ASSUME RemoteInv, NEW x \in RegularFiles, \E M, ptr, s : DataStep(x, M, ptr, s),
         UNCHANGED mounted,
         \/ UNCHANGED <<rows, chunks>>
         \/ \E off \in Sizes, q \in Sendable : DB!Write(Token, x, off, q)
  PROVE  RemoteInv'
<1>1. \E M, ptr, s : HeadStep(x, M, ptr, s)
  <2>1. PICK M, ptr, s : DataStep(x, M, ptr, s)
    OBVIOUS
  <2>2. HeadStep(x, M, ptr, s)
    BY <2>1 DEF DataStep, HeadStep
  <2> QED
    BY <2>2
<1>2. S!Inv /\ x \in Inos
  BY DEF RemoteInv, RegularFiles
<1>3. /\ S!Inv' /\ DOMAIN rows' = DOMAIN rows
      /\ \A i \in DOMAIN rows : SameBut(rows'[i], rows[i])
  <2>1. CASE UNCHANGED <<rows, chunks>>
    <3>1. S!Inv'
      BY <1>2, <2>1 DEF S!Inv
    <3> QED
      BY <2>1, <3>1 DEF SameBut
  <2>2. CASE \E off \in Sizes, q \in Sendable : DB!Write(Token, x, off, q)
    BY <1>2, <2>2, WriteRows
  <2> QED
    BY <2>1, <2>2
<1> QED
  BY <1>1, <1>3, DataKeepsRemote

\* A regular file's first entry is sound.
LEMMA FilesFit ==
  ASSUME TreeInv, NEW x \in RegularFiles
  PROVE  FirstFits(x)
<1>1. First(x) \in DOMAIN ent /\ ent[First(x)].ino = x
  BY FileFirst DEF TreeInv
<1>2. IsHead(ent, First(x))
  BY <1>1, FirstIsHead DEF TreeInv
<1> QED
  BY <1>1, <1>2 DEF TreeInv, HeadsFit, Fits, FirstFits

\* What vtfs_write does to the tree, and what it may send.
LEMMA WriteSends ==
  ASSUME NEW x, NEW append \in BOOLEAN, NEW o \in Sizes, NEW p \in Payloads,
         RemoteWrite(x, append, o, p)
  PROVE  /\ Write(x, append, o, p) /\ x \in RegularFiles /\ UNCHANGED mounted
         /\ \/ UNCHANGED <<rows, chunks>>
            \/ \E q \in Sendable : DB!Write(Token, x, IF append THEN ent[First(x)].size ELSE o, q)
<1>1. CASE WriteFile(x, append, o, p, TRUE)
           /\ \E q \in Encoded(p) : RequestWrite(x, IF append THEN ent[First(x)].size ELSE o, q)
  <2>1. PICK q \in Encoded(p) : RequestWrite(x, IF append THEN ent[First(x)].size ELSE o, q)
    BY <1>1
  <2>2. q \in Sendable
    BY DEF Sendable
  <2>3. \/ UNCHANGED <<rows, chunks>>
        \/ DB!Write(Token, x, IF append THEN ent[First(x)].size ELSE o, q)
    BY <2>1 DEF RequestWrite, Lost, db
  <2>4. x \in RegularFiles /\ UNCHANGED mounted
    BY <1>1 DEF WriteFile
  <2>5. Write(x, append, o, p)
    BY <1>1 DEF Write
  <2> QED
    BY <2>2, <2>3, <2>4, <2>5
<1>2. CASE "copy" \in Faults /\ WriteFile(x, append, o, p, FALSE) /\ UNCHANGED db
  <2>1. x \in RegularFiles /\ UNCHANGED mounted
    BY <1>2 DEF WriteFile
  <2>2. Write(x, append, o, p)
    BY <1>2 DEF Write
  <2> QED
    BY <1>2, <2>1, <2>2 DEF db
<1> QED
  BY <1>1, <1>2 DEF RemoteWrite

\* vtfs_write, vtfs_setattr and vtfs_open
LEMMA LocalKeeps ==
  ASSUME RemoteInv, NEW x \in Inos,
         \/ LocalOnly(x)
         \/ \E append \in BOOLEAN, o \in Sizes, p \in Payloads : RemoteWrite(x, append, o, p)
  PROVE  RemoteInv'
<1>1. TreeInv /\ TreeOK(ent) /\ HeapOK(mem)
  BY DEF RemoteInv, TreeInv
<1>2. CASE LocalOnly(x)
  <2>1. /\ x \in RegularFiles /\ UNCHANGED <<mounted, rows, chunks>>
        /\ \E M, ptr, s : DataStep(x, M, ptr, s)
    <3>1. CASE \E s \in Sizes : Setattr(x, s)
      BY <1>1, <1>2, <3>1, SetattrStep DEF LocalOnly, db, Setattr
    <3>2. CASE OpenTrunc(x)
      BY <1>1, <1>2, <3>2, OpenTruncStep DEF LocalOnly, db, OpenTrunc
    <3> QED
      BY <1>2, <3>1, <3>2 DEF LocalOnly
  <2> QED
    BY <2>1, DataRemote
<1>3. ASSUME NEW append \in BOOLEAN, NEW o \in Sizes, NEW p \in Payloads, RemoteWrite(x, append, o, p)
      PROVE  RemoteInv'
  <2>1. Write(x, append, o, p) /\ x \in RegularFiles /\ UNCHANGED mounted
    BY <1>3, WriteSends
  <2>2. FirstFits(x)
    BY <1>1, <2>1, FilesFit
  <2>3. \E M, ptr, s : DataStep(x, M, ptr, s)
    BY <1>1, <2>1, <2>2, WriteStep
  <2>4. (IF append THEN ent[First(x)].size ELSE o) \in Sizes
    BY <1>1, <2>1, FileFirst DEF Entry
  <2>5. \/ UNCHANGED <<rows, chunks>>
        \/ \E off \in Sizes, r \in Sendable : DB!Write(Token, x, off, r)
    BY <1>3, <2>4, WriteSends
  <2> QED
    BY <2>1, <2>3, <2>5, DataRemote
<1> QED
  BY <1>2, <1>3

\* What a read gets from the server are bytes of the file's chunks or zeros, no more
\* than it asked for.
LEMMA ReloadedFrom ==
  ASSUME S!Inv, NEW x \in Inos, NEW n \in Nat, Reloaded(x, n) # <<>>,
         NEW B, \A c \in DB!ChunksOf(Token, x) : \A i \in DOMAIN c.bytes : c.bytes[i] \in B
  PROVE  Reloaded(x, n) \in Seq(B \cup {Nul}) /\ Len(Reloaded(x, n)) <= n
<1> DEFINE got == DB!Read(Token, x, 0, n)
<1>1. Reloaded(x, n) = got /\ got # Refused
  BY DEF Reloaded
<1>2. got = S!Read(Token, x, 0, n)
  BY DEF DB!Read, S!Read, DB!OfIno, S!OfIno, DB!IsOnly, S!IsOnly, DB!EndOffset, S!EndOffset,
         DB!SizeOf, S!SizeOf, DB!InRange, S!InRange, DB!ChunksOf, S!ChunksOf, DB!ByteAt, S!ByteAt
<1>3. \A c \in S!ChunksOf(Token, x) : \A i \in DOMAIN c.bytes : c.bytes[i] \in B
  BY DEF DB!ChunksOf, S!ChunksOf
<1> HIDE DEF got
<1>4. S!Read(Token, x, 0, n) # Refused /\ 0 \in Nat
  BY <1>1, <1>2
<1>5. /\ S!Read(Token, x, 0, n) \in Seq(B \cup {Nul})
      /\ Len(S!Read(Token, x, 0, n)) <= n
  BY <1>3, <1>4, Constants, S!ReadReturns, Zenon
<1> QED
  BY <1>1, <1>2, <1>5

\* These are cells of memory.
LEMMA ReloadedOK ==
  ASSUME S!Inv, NEW x \in Inos, NEW n \in Nat, Reloaded(x, n) # <<>>
  PROVE  Reloaded(x, n) \in Seq(Cells) /\ Len(Reloaded(x, n)) <= n
<1>1. \A c \in DB!ChunksOf(Token, x) : \A i \in DOMAIN c.bytes : c.bytes[i] \in S!Bytes
  <2>1. ASSUME NEW c \in DB!ChunksOf(Token, x) PROVE c.bytes \in Seq(S!Bytes)
    BY DEF DB!ChunksOf, S!Inv, S!TypeIn, S!FileData
  <2> QED
    BY <2>1
<1>2. Reloaded(x, n) \in Seq(S!Bytes \cup {Nul}) /\ Len(Reloaded(x, n)) <= n
  BY <1>1, ReloadedFrom
<1>3. S!Bytes \subseteq Cells
  <2>1. ASSUME NEW p \in Sendable PROVE p \in Seq(Cells)
    <3>1. PICK s \in Payloads : p \in Encoded(s)
      BY <2>1 DEF Sendable
    <3>2. s \in Seq(Cells)
      BY HeapAssumption
    <3> QED
      BY <3>1, <3>2, EncodedOK
  <2>2. \A p \in Sendable : \A i \in DOMAIN p : p[i] \in Cells
    BY <2>1
  <2> QED
    BY <2>2 DEF S!Bytes
<1>4. S!Bytes \cup {Nul} \subseteq Cells
  BY <1>3 DEF Cells
<1> QED
  BY <1>2, <1>4

\* vtfs_read that gets bytes from the server gives the first entry a new buffer.
LEMMA ReadStep ==
  ASSUME TreeInv, S!Inv, NEW x \in Inos, NEW n \in 1 .. MaxSize, RemoteRead(x, n)
  PROVE  \E M, ptr, s : /\ HeadStep(x, M, ptr, s)
                        /\ \A b \in DOMAIN mem \ {ent[First(x)].data} : mem'[b] = mem[b]
<1> DEFINE f == First(x)
           got == Reloaded(x, n)
           old == ent[f].data
<1>1. x \in RegularFiles /\ got # <<>> /\ TreeOK(ent) /\ HeapOK(mem)
  BY DEF RemoteRead, TreeInv
<1>2. PICK b \in Fresh :
        /\ ent' = [ent EXCEPT ![f] = [ent[f] EXCEPT !.data = b, !.size = Len(got)]]
        /\ mem' = [a \in (DOMAIN mem \ {old}) \cup {b} |->
                     IF a # b THEN mem[a]
                     ELSE [i \in 1 .. SizeClass[n] |-> IF i <= Len(got) THEN got[i] ELSE Junk]]
  BY Zenon DEF RemoteRead, LoadedSize
<1>3. n \in Nat /\ n <= MaxSize /\ SizeClass[n] \in Nat /\ SizeClass[n] >= n
  BY SizeAssumption
<1>4. got \in Seq(Cells) /\ Len(got) <= n
  BY <1>1, <1>3, ReloadedOK
<1>5. f \in DOMAIN ent /\ f \in LinksOf(x) /\ ent[f] \in Entry
  BY <1>1, FileFirst
<1>6. Fits(ent[f], mem)
  BY <1>1, FilesFit DEF FirstFits, Fits
<1> HIDE DEF f, got
<1>7. Len(got) \in Sizes /\ Len(got) \in Nat
  BY <1>3, <1>4, SizeAssumption DEF Sizes
<1>8. b \in Buffers /\ b \notin DOMAIN mem /\ b \in Pointers
  BY DEF Fresh, Pointers
<1>9. ent' = UpdateOne(ent, f, b, Len(got))
  BY <1>2 DEF UpdateOne
<1>10. /\ TreeOK(ent') /\ DOMAIN ent' = DOMAIN ent
       /\ \A k \in DOMAIN ent :
            /\ ent'[k].ino = ent[k].ino /\ ent'[k].dir = ent[k].dir /\ ent'[k].nlink = ent[k].nlink
            /\ ent'[k].at = ent[k].at
            /\ ent'[k].data = IF k = f THEN b ELSE ent[k].data
            /\ ent'[k].size = IF k = f THEN Len(got) ELSE ent[k].size
  BY <1>1, <1>5, <1>7, <1>8, <1>9, UpdateOneOK
<1> DEFINE cells == [i \in 1 .. SizeClass[n] |-> IF i <= Len(got) THEN got[i] ELSE Junk]
<1>11. cells \in Seq(Cells) /\ Len(cells) = SizeClass[n]
  <2>1. \A i \in 1 .. SizeClass[n] : (IF i <= Len(got) THEN got[i] ELSE Junk) \in Cells
    BY <1>4, <1>7 DEF Cells
  <2>2. cells \in [1 .. SizeClass[n] -> Cells]
    BY <2>1
  <2> HIDE DEF cells
  <2> QED
    BY <1>3, <2>2
<1>12. /\ DOMAIN mem' = (DOMAIN mem \ {old}) \cup {b}
       /\ mem'[b] = cells
       /\ \A a \in DOMAIN mem \ {old} : mem'[a] = mem[a]
  BY <1>2, <1>8
<1> HIDE DEF cells
<1>13. HeapOK(mem')
  BY <1>1, <1>8, <1>11, <1>12 DEF HeapOK
<1>14. Len(got) <= Len(mem'[b])
  BY <1>3, <1>4, <1>7, <1>11, <1>12
<1>15. old # b
  BY <1>6, <1>8 DEF Fits
<1>16. HeadStep(x, {f}, b, Len(got))
  <2>1. /\ {f} \subseteq LinksOf(x) /\ f = First(x)
        /\ \A c \in DOMAIN mem : c # old \/ b = old => c \in DOMAIN mem' /\ Len(mem'[c]) = Len(mem[c])
        /\ old \notin DOMAIN mem'
    BY <1>5, <1>12, <1>15 DEF f
  <2> QED
    BY <1>8, <1>10, <1>12, <1>13, <1>14, <2>1 DEF HeadStep
<1>17. \A a \in DOMAIN mem \ {ent[First(x)].data} : mem'[a] = mem[a]
  BY <1>12 DEF f
<1> QED
  BY <1>16, <1>17

LEMMA RemoteReadKeeps ==
  ASSUME RemoteInv, NEW x \in Inos, NEW n \in 1 .. MaxSize, RemoteRead(x, n)
  PROVE  RemoteInv'
<1>1. x \in RegularFiles /\ UNCHANGED <<mounted, rows, chunks>> /\ TreeInv /\ S!Inv
  BY DEF RemoteRead, RemoteInv, db
<1>2. \E M, ptr, s : HeadStep(x, M, ptr, s)
  BY <1>1, ReadStep
<1>3. S!Inv' /\ \A i \in DOMAIN rows : SameBut(rows'[i], rows[i])
  BY <1>1 DEF S!Inv, SameBut
<1> QED
  BY <1>1, <1>2, <1>3, DataKeepsRemote

-----------------------------------------------------------------------------
(* Unmounting, crashes, mounting, and the theorems                         *)

\* A file system goes while every file has one name: no file has two rows.
LEMMA EmptiedKeeps ==
  ASSUME RemoteInv, KeepsLinks, ent' = <<>>, ~mounted', mounted' \in BOOLEAN, HeapOK(mem'),
         UNCHANGED <<rows, chunks>>
  PROVE  RemoteInv'
<1>1. DOMAIN ent' = {}
  BY DEF Without
<1>2. S!Inv' /\ TreeOK(ent)
  BY DEF RemoteInv, S!Inv, TreeInv
<1>3. TreeInv'
  <2>1. TreeOK(ent')
    BY <1>1, FS_EmptySet DEF TreeOK
  <2>2. Placed(ent') /\ HeadsFit(ent', mem') /\ HeadsApart(ent')
    BY <1>1 DEF Placed, HeadsFit, HeadsApart
  <2> QED
    BY <1>1, <2>1, <2>2 DEF TreeInv
<1>4. ASSUME NEW x \in Inos PROVE InDb(ent', rows', x)
  <2>1. \A i, j \in RowsIn(rows, x) : i = j
    <3>1. ASSUME NEW i \in RowsIn(rows, x), NEW j \in RowsIn(rows, x), i # j PROVE FALSE
      <4>1. PICK k \in LinksIn(ent, x), l \in LinksIn(ent, x) : k # l
        BY <3>1 DEF RemoteInv, InDb
      <4>2. k \in DOMAIN ent /\ ent[k].ino = x
        BY DEF LinksIn
      <4>3. LinksIn(ent, x) = {k}
        BY <1>2, <4>2, LastLink
      <4> QED
        BY <4>1, <4>3
    <3> QED
      BY <3>1
  <2>2. LinksIn(ent', x) = {}
    BY <1>1 DEF LinksIn
  <2> QED
    BY <2>1, <2>2 DEF InDb
<1> QED
  BY <1>2, <1>3, <1>4 DEF RemoteInv

\* What may arrive are rows, and no others are loaded.
LEMMA LoadedRows ==
  ASSUME NEW M \in Loadable
  PROVE  M \subseteq DOMAIN rows /\ Loads(M) \subseteq DOMAIN rows
<1>1. M \subseteq DOMAIN rows
  BY DEF Loadable
<1>2. Loads(M) \subseteq M
  BY DEF Loads
<1> QED
  BY <1>1, <1>2

\* A mount shows each file once, for none has two rows.
LEMMA RemountKeeps ==
  ASSUME RemoteInv, Remount
  PROVE  RemoteInv'
<1>1. PICK L \in Loadable :
        LET I == Loads(L)
            K == {Key(i) : i \in I}
            RowAt(k) == rows[CHOOSE i \in I : Key(i) = k]
        IN \E place \in [K -> 1 .. Cardinality(K)] :
             /\ \A k, l \in K : place[k] = place[l] => k = l
             /\ ent' = [k \in K |-> [ino |-> RowAt(k).ino, dir |-> RowAt(k).dir, nlink |-> 1,
                                     data |-> NULL, size |-> RowAt(k).size, at |-> place[k]]]
             /\ WalkOrder'
  BY Zenon DEF Remount
<1> DEFINE I == Loads(L)
           K == {Key(i) : i \in I}
           at(k) == CHOOSE i \in I : Key(i) = k
<1>2. PICK place \in [K -> 1 .. Cardinality(K)] :
        /\ \A k, l \in K : place[k] = place[l] => k = l
        /\ ent' = [k \in K |-> [ino |-> rows[at(k)].ino, dir |-> rows[at(k)].dir, nlink |-> 1,
                                data |-> NULL, size |-> rows[at(k)].size, at |-> place[k]]]
  BY <1>1
<1>3. /\ ~mounted /\ mounted' = TRUE /\ UNCHANGED <<mem, rows, chunks>>
      /\ TreeInv /\ S!Inv /\ HeapOK(mem) /\ DOMAIN ent = {}
  BY DEF Remount, RemoteInv, TreeInv, db
<1>4. I \subseteq DOMAIN rows
  BY <1>1, LoadedRows
<1> HIDE DEF I
<1>5. \A k \in K : at(k) \in I /\ Key(at(k)) = k
  OBVIOUS
<1>6. IsFiniteSet(K)
  <2>1. IsFiniteSet(DOMAIN rows)
    BY <1>3 DEF S!Inv, S!IsFiniteSet, IsFiniteSet
  <2>2. IsFiniteSet(I)
    BY <1>4, <2>1, FS_Subset
  <2>3. [i \in I |-> Key(i)] \in Surjection(I, K)
    BY DEF Surjection
  <2> HIDE DEF K
  <2> QED
    BY <2>2, <2>3, FS_Surjection
<1> HIDE DEF at
<1>7. \A k \in K : /\ k \in Keys
                   /\ rows[at(k)].ino \in Inos /\ rows[at(k)].dir \in BOOLEAN
                   /\ rows[at(k)].size \in Sizes
  BY <1>3, <1>4, <1>5, OneToken DEF Key, Keys
<1> HIDE DEF K
<1>8. Cardinality(K) \in Nat /\ \A k \in K : place[k] \in 1 .. Cardinality(K) /\ place[k] \in Nat
  BY <1>6, FS_CardinalityType
<1>9. DOMAIN ent' = K
  BY <1>2
<1>10. ASSUME NEW k \in K
       PROVE  /\ ent'[k] \in Entry /\ ent'[k].at = place[k] /\ ent'[k].data = NULL
              /\ ent'[k].ino = rows[at(k)].ino /\ ent'[k].dir = rows[at(k)].dir
  <2>1. ent'[k] = [ino |-> rows[at(k)].ino, dir |-> rows[at(k)].dir, nlink |-> 1,
                   data |-> NULL, size |-> rows[at(k)].size, at |-> place[k]]
    BY <1>2
  <2>2. place[k] \in Nat /\ NULL \in Pointers
    BY <1>8 DEF Pointers
  <2> QED
    BY <1>7, <2>1, <2>2 DEF Entry
<1>11. TreeOK(ent')
  BY <1>6, <1>7, <1>9, <1>10 DEF TreeOK
<1>12. Placed(ent')
  BY <1>2, <1>8, <1>9, <1>10 DEF Placed
<1>13. HeadsFit(ent', mem') /\ HeadsApart(ent')
  BY <1>9, <1>10, HeapAssumption DEF HeadsFit, HeadsApart, Fits
<1>14. TreeInv'
  BY <1>3, <1>11, <1>12, <1>13 DEF TreeInv
<1>15. S!Inv'
  BY <1>3 DEF S!Inv
<1>16. ASSUME NEW x \in Inos PROVE InDb(ent', rows', x)
  <2>1. \A i, j \in RowsIn(rows, x) : i = j
    BY <1>3 DEF RemoteInv, InDb, LinksIn
  <2>2. \A k \in LinksIn(ent', x) :
          at(k) \in RowsIn(rows, x) /\ NameOf(rows[at(k)]) = k /\ rows[at(k)].dir = ent'[k].dir
    BY <1>4, <1>5, <1>9, <1>10 DEF LinksIn, RowsIn, NameOf, Key
  <2> QED
    BY <1>3, <2>1, <2>2 DEF InDb
<1> QED
  BY <1>14, <1>15, <1>16 DEF RemoteInv

\* A new mount of a token without files.
LEMMA RemoteInitInv == RemoteInit => RemoteInv
<1> SUFFICES ASSUME RemoteInit PROVE RemoteInv
  OBVIOUS
<1>1. mounted = TRUE /\ DOMAIN ent = {} /\ DOMAIN mem = {} /\ rows = <<>> /\ chunks = {}
  BY DEF RemoteInit, Init, DB!Init
<1>2. S!Inv
  BY <1>1, Constants, S!InitInv DEF S!Init
<1>3. TreeInv
  BY <1>1, FS_EmptySet DEF TreeInv, TreeOK, HeapOK, Placed, HeadsFit, HeadsApart
<1>4. ASSUME NEW x \in Inos PROVE InDb(ent, rows, x)
  BY <1>1 DEF InDb, LinksIn, RowsIn
<1> QED
  BY <1>2, <1>3, <1>4 DEF RemoteInv

\* Every step keeps the invariant.
LEMMA RemoteNextInv == RemoteInv /\ [RemoteNext /\ KeepsLinks]_all => RemoteInv'
<1> SUFFICES ASSUME RemoteInv, [RemoteNext /\ KeepsLinks]_all PROVE RemoteInv'
  OBVIOUS
<1>1. CASE UNCHANGED all
  <2>1. UNCHANGED <<mounted, ent, mem, rows, chunks>>
    BY <1>1 DEF all, vars, db
  <2>2. TreeInv'
    BY <2>1 DEF RemoteInv, TreeInv, HeadsFit, HeadsApart, Placed, IsHead, Fits, TreeOK, HeapOK
  <2>3. S!Inv'
    BY <2>1 DEF RemoteInv, S!Inv
  <2> QED
    BY <2>1, <2>2, <2>3 DEF RemoteInv
<1>2. ASSUME NEW k \in Keys, NEW isDir \in BOOLEAN, RemoteMake(k, isDir) PROVE RemoteInv'
  BY <1>2, RemoteMakeKeeps
<1>3. ASSUME NEW k \in Keys, NEW x \in Inos, RemoteLink(k, x) PROVE RemoteInv'
  BY <1>3, RemoteLinkKeeps
<1>4. ASSUME NEW k \in Keys, KeepsLinks, RemoteUnlink(k) \/ RemoteRmdir(k) PROVE RemoteInv'
  BY <1>4, RemoteUnlinkKeeps, RemoteRmdirKeeps
<1>5. ASSUME NEW x \in Inos, NEW append \in BOOLEAN, NEW o \in Sizes, NEW p \in Payloads,
             RemoteWrite(x, append, o, p)
      PROVE  RemoteInv'
  BY <1>5, LocalKeeps
<1>6. ASSUME NEW x \in Inos, LocalOnly(x) PROVE RemoteInv'
  BY <1>6, LocalKeeps
<1>7. ASSUME NEW x \in Inos, NEW n \in 1 .. MaxSize, RemoteRead(x, n) PROVE RemoteInv'
  BY <1>7, RemoteReadKeeps
<1>8. ASSUME KeepsLinks, RemoteUnmount PROVE RemoteInv'
  <2>1. HeapOK(mem')
    BY <1>8 DEF RemoteUnmount, RemoteInv, TreeInv
  <2> QED
    BY <1>8, <2>1, EmptiedKeeps DEF RemoteUnmount, db
<1>9. ASSUME KeepsLinks, Crash PROVE RemoteInv'
  <2>1. HeapOK(mem')
    BY <1>9 DEF Crash, HeapOK
  <2> QED
    BY <1>9, <2>1, EmptiedKeeps DEF Crash, db
<1>10. ASSUME Remount PROVE RemoteInv'
  BY <1>10, RemountKeeps
<1>11. 0 \in Sizes
  BY SizeAssumption DEF Sizes
<1> QED
  BY <1>1, <1>2, <1>3, <1>4, <1>5, <1>6, <1>7, <1>8, <1>9, <1>10, <1>11 DEF RemoteNext

\* The invariant says of tree and database what the properties say.
LEMMA RemoteInvImplies == RemoteInv => TreeInDatabase /\ LoadedFits
<1> SUFFICES ASSUME RemoteInv PROVE TreeInDatabase /\ LoadedFits
  OBVIOUS
<1>1. TreeInv /\ S!Inv /\ TreeOK(ent)
  BY DEF RemoteInv, TreeInv
<1>2. ASSUME NEW k \in Single
      PROVE  k \in DOMAIN ent /\ LinksIn(ent, ent[k].ino) = {k} /\ ent[k].ino \in Inos
  BY <1>1 DEF Single, LinksIn, LinksOf, TreeOK, Entry
<1>3. ASSUME NEW k \in Single
      PROVE  \E i \in DOMAIN rows : /\ Key(i) = k
                                    /\ rows[i].dir = ent[k].dir
                                    /\ DB!OfIno(Token, ent[k].ino) = {i}
  <2>1. InDb(ent, rows, ent[k].ino) /\ LinksIn(ent, ent[k].ino) = {k}
    BY <1>2 DEF RemoteInv
  <2>2. PICK i \in RowsIn(rows, ent[k].ino) : NameOf(rows[i]) = k /\ rows[i].dir = ent[k].dir
    BY <2>1 DEF InDb
  <2>3. RowsIn(rows, ent[k].ino) = {i}
    BY <2>1 DEF InDb
  <2>4. i \in DOMAIN rows /\ Key(i) = k
    BY <2>2 DEF RowsIn, Key, NameOf
  <2> QED
    BY <1>1, <2>2, <2>3, <2>4, OneToken
<1>4. ASSUME NEW k \in Single PROVE Fits(ent[k], mem)
  <2>1. \A l \in DOMAIN ent : ent[l].ino = ent[k].ino => l = k
    BY <1>2 DEF LinksIn
  <2>2. ent[k].at \in Nat
    BY <1>1, <1>2 DEF TreeOK, Entry
  <2>3. IsHead(ent, k)
    BY <2>1, <2>2 DEF IsHead
  <2> QED
    BY <1>1, <1>2, <2>3 DEF TreeInv, HeadsFit
<1> QED
  BY <1>3, <1>4 DEF TreeInDatabase, LoadedFits, Fits

\* The invariant holds in every state of server mode.
THEOREM RemoteInvariance == LinkedSpec => []RemoteInv
  BY RemoteInitInv, RemoteNextInv, PTL DEF LinkedSpec

\* The tree shows no file that the database does not have, whatever requests,
\* answers, lists and allocations are lost and whenever the machine stops.
THEOREM ShownIsStored == LinkedSpec => []TreeInDatabase
  BY RemoteInvariance, RemoteInvImplies, PTL

\* What vtfs_read copies lies within the buffer, although reading replaces the
\* buffer of one entry and another mount leaves sizes without data.
THEOREM LoadsFit == LinkedSpec => []LoadedFits
  BY RemoteInvariance, RemoteInvImplies, PTL

-----------------------------------------------------------------------------
(* The rows as a tree, and as names of files                               *)

\* The rows form a tree: a directory has one row, every parent is the root or a
\* directory, and a directory is younger than the one it is in.
RowTree(R) ==
  /\ \A i, j \in DOMAIN R : R[i].dir /\ R[i].ino = R[j].ino => i = j
  /\ \A i \in DOMAIN R : \/ R[i].parent = RootIno
                         \/ \E j \in DOMAIN R : R[j].dir /\ R[j].ino = R[i].parent
  /\ \A i \in DOMAIN R : R[i].dir => R[i].parent < R[i].ino

\* No two rows have one name.
Apart(R) == \A i, j \in DOMAIN R : NameOf(R[i]) = NameOf(R[j]) => i = j

\* The tables of a server are so.
LEMMA RowsApart ==
  ASSUME S!Inv
  PROVE  Apart(rows)
BY OneToken DEF S!Inv, S!UniqueIn, Apart, NameOf

\* The same of the tables after a step.
LEMMA RowsApartNext ==
  ASSUME S!Inv'
  PROVE  Apart(rows')
<1>1. \A i \in DOMAIN rows' : rows'[i].token = Token
  BY DEF S!Inv, S!TypeIn, S!VtfsFile
<1> QED
  BY <1>1 DEF S!Inv, S!UniqueIn, Apart, NameOf

\* What the names of the rows mean, and which files are directories.
NamesOf(R) == [k \in {NameOf(R[i]) : i \in DOMAIN R} |->
                 R[CHOOSE i \in DOMAIN R : NameOf(R[i]) = k].ino]

DirsOf(R) == {R[i].ino : i \in {j \in DOMAIN R : R[j].dir}}

\* The name of a row means the file of the row.
LEMMA NamesAre ==
  ASSUME NEW R, Apart(R)
  PROVE  /\ \A i \in DOMAIN R : NameOf(R[i]) \in DOMAIN NamesOf(R) /\ NamesOf(R)[NameOf(R[i])] = R[i].ino
         /\ \A k \in DOMAIN NamesOf(R) : \E i \in DOMAIN R : NameOf(R[i]) = k
<1>1. ASSUME NEW i \in DOMAIN R PROVE NamesOf(R)[NameOf(R[i])] = R[i].ino
  <2> DEFINE c == CHOOSE j \in DOMAIN R : NameOf(R[j]) = NameOf(R[i])
  <2>1. c \in DOMAIN R /\ NameOf(R[c]) = NameOf(R[i])
    OBVIOUS
  <2>2. c = i
    BY <2>1 DEF Apart
  <2>3. NamesOf(R)[NameOf(R[i])] = R[c].ino
    BY DEF NamesOf
  <2> QED
    BY <2>2, <2>3
<1> QED
  BY <1>1 DEF NamesOf

\* A row that comes, for a file or directory x under name k; a row that goes.
\* The others keep file, name and kind.
Adds(i, k, x, isDir) ==
  /\ i \notin DOMAIN rows /\ DOMAIN rows' = DOMAIN rows \cup {i}
  /\ \A j \in DOMAIN rows : SameBut(rows'[j], rows[j])
  /\ rows'[i].ino = x /\ NameOf(rows'[i]) = k /\ rows'[i].dir = isDir

Takes(i) ==
  /\ i \in DOMAIN rows /\ DOMAIN rows' = DOMAIN rows \ {i}
  /\ \A j \in DOMAIN rows' : SameBut(rows'[j], rows[j])

\* Names and directories after a row came.
LEMMA AddedNames ==
  ASSUME Apart(rows), Apart(rows'), NEW i, NEW k, NEW x, NEW isDir \in BOOLEAN, Adds(i, k, x, isDir)
  PROVE  /\ k \notin DOMAIN NamesOf(rows)
         /\ NamesOf(rows') = [l \in DOMAIN NamesOf(rows) \cup {k} |->
                                IF l = k THEN x ELSE NamesOf(rows)[l]]
         /\ DirsOf(rows') = IF isDir THEN DirsOf(rows) \cup {x} ELSE DirsOf(rows)
<1> DEFINE N == NamesOf(rows)
           M == NamesOf(rows')
<1>1. /\ \A j \in DOMAIN rows : NameOf(rows[j]) \in DOMAIN N /\ N[NameOf(rows[j])] = rows[j].ino
      /\ \A l \in DOMAIN N : \E j \in DOMAIN rows : NameOf(rows[j]) = l
  BY NamesAre
<1>2. /\ \A j \in DOMAIN rows' : NameOf(rows'[j]) \in DOMAIN M /\ M[NameOf(rows'[j])] = rows'[j].ino
      /\ \A l \in DOMAIN M : \E j \in DOMAIN rows' : NameOf(rows'[j]) = l
  BY NamesAre
<1>3. M = [l \in DOMAIN M |-> M[l]]
  BY DEF NamesOf
<1> HIDE DEF N, M
<1>4. \A j \in DOMAIN rows : /\ j \in DOMAIN rows' /\ j # i
                             /\ rows'[j].ino = rows[j].ino /\ NameOf(rows'[j]) = NameOf(rows[j])
                             /\ rows'[j].dir = rows[j].dir
  BY DEF Adds, SameBut
<1>5. /\ i \in DOMAIN rows' /\ DOMAIN rows' = DOMAIN rows \cup {i}
      /\ rows'[i].ino = x /\ NameOf(rows'[i]) = k /\ rows'[i].dir = isDir
  BY DEF Adds
<1>6. k \notin DOMAIN N
  BY <1>1, <1>4, <1>5 DEF Apart
<1>7. DOMAIN M = DOMAIN N \cup {k}
  <2>1. ASSUME NEW l \in DOMAIN N PROVE l \in DOMAIN M
    <3>1. PICK j \in DOMAIN rows : NameOf(rows[j]) = l
      BY <1>1
    <3> QED
      BY <1>2, <1>4, <3>1
  <2>2. ASSUME NEW l \in DOMAIN M PROVE l \in DOMAIN N \cup {k}
    <3>1. PICK j \in DOMAIN rows' : NameOf(rows'[j]) = l
      BY <1>2
    <3> QED
      BY <1>1, <1>4, <1>5, <3>1
  <2>3. k \in DOMAIN M
    BY <1>2, <1>5
  <2> QED
    BY <2>1, <2>2, <2>3
<1>8. M[k] = x /\ \A l \in DOMAIN N : M[l] = N[l]
  BY <1>1, <1>2, <1>4, <1>5
<1>9. M = [l \in DOMAIN N \cup {k} |-> IF l = k THEN x ELSE N[l]]
  BY <1>3, <1>6, <1>7, <1>8
<1>10. ASSUME NEW d PROVE d \in DirsOf(rows') <=> d \in DirsOf(rows) \/ (isDir /\ d = x)
  <2>1. d \in DirsOf(rows') <=> \E j \in DOMAIN rows' : rows'[j].dir /\ rows'[j].ino = d
    BY DEF DirsOf
  <2>2. d \in DirsOf(rows) <=> \E j \in DOMAIN rows : rows[j].dir /\ rows[j].ino = d
    BY DEF DirsOf
  <2> QED
    BY <1>4, <1>5, <2>1, <2>2
<1> QED
  BY <1>6, <1>9, <1>10 DEF N, M

\* Names and directories after a row went, the only one of its directory if any.
LEMMA TakenNames ==
  ASSUME Apart(rows), Apart(rows'), NEW i, Takes(i), RowTree(rows)
  PROVE  /\ NameOf(rows[i]) \in DOMAIN NamesOf(rows)
         /\ NamesOf(rows)[NameOf(rows[i])] = rows[i].ino
         /\ NamesOf(rows') = [l \in DOMAIN NamesOf(rows) \ {NameOf(rows[i])} |-> NamesOf(rows)[l]]
         /\ DirsOf(rows') = DirsOf(rows) \ {rows[i].ino}
<1> DEFINE N == NamesOf(rows)
           M == NamesOf(rows')
           k == NameOf(rows[i])
<1>1. /\ \A j \in DOMAIN rows : NameOf(rows[j]) \in DOMAIN N /\ N[NameOf(rows[j])] = rows[j].ino
      /\ \A l \in DOMAIN N : \E j \in DOMAIN rows : NameOf(rows[j]) = l
  BY NamesAre
<1>2. /\ \A j \in DOMAIN rows' : NameOf(rows'[j]) \in DOMAIN M /\ M[NameOf(rows'[j])] = rows'[j].ino
      /\ \A l \in DOMAIN M : \E j \in DOMAIN rows' : NameOf(rows'[j]) = l
  BY NamesAre
<1>3. M = [l \in DOMAIN M |-> M[l]]
  BY DEF NamesOf
<1> HIDE DEF N, M
<1>4. \A j \in DOMAIN rows' : /\ j \in DOMAIN rows /\ j # i
                              /\ rows'[j].ino = rows[j].ino /\ NameOf(rows'[j]) = NameOf(rows[j])
                              /\ rows'[j].dir = rows[j].dir
  BY DEF Takes, SameBut
<1>5. i \in DOMAIN rows /\ DOMAIN rows' = DOMAIN rows \ {i}
  BY DEF Takes
<1>6. \A j \in DOMAIN rows' : NameOf(rows'[j]) # k
  BY <1>4, <1>5 DEF Apart
<1>7. DOMAIN M = DOMAIN N \ {k}
  <2>1. ASSUME NEW l \in DOMAIN N \ {k} PROVE l \in DOMAIN M
    <3>1. PICK j \in DOMAIN rows : NameOf(rows[j]) = l
      BY <1>1
    <3>2. j \in DOMAIN rows'
      BY <1>5, <3>1
    <3> QED
      BY <1>2, <1>4, <3>1, <3>2
  <2>2. ASSUME NEW l \in DOMAIN M PROVE l \in DOMAIN N \ {k}
    <3>1. PICK j \in DOMAIN rows' : NameOf(rows'[j]) = l
      BY <1>2
    <3> QED
      BY <1>1, <1>4, <1>6, <3>1
  <2> QED
    BY <2>1, <2>2
<1>8. ASSUME NEW l \in DOMAIN M PROVE M[l] = N[l]
  <2>1. PICK j \in DOMAIN rows' : NameOf(rows'[j]) = l
    BY <1>2
  <2> QED
    BY <1>1, <1>2, <1>4, <2>1
<1>9. M = [l \in DOMAIN N \ {k} |-> N[l]]
  BY <1>3, <1>7, <1>8
<1>10. ASSUME NEW d PROVE d \in DirsOf(rows') <=> d \in DirsOf(rows) /\ d # rows[i].ino
  <2>1. d \in DirsOf(rows') <=> \E j \in DOMAIN rows' : rows'[j].dir /\ rows'[j].ino = d
    BY DEF DirsOf
  <2>2. d \in DirsOf(rows) <=> \E j \in DOMAIN rows : rows[j].dir /\ rows[j].ino = d
    BY DEF DirsOf
  <2>3. \A j \in DOMAIN rows : rows[j].dir /\ rows[j].ino = rows[i].ino => j = i
    BY <1>5 DEF RowTree
  <2> QED
    BY <1>4, <1>5, <2>1, <2>2, <2>3
<1> QED
  BY <1>1, <1>5, <1>9, <1>10 DEF N, M

\* A row that comes into a directory keeps the tree of rows: a file whose number
\* no directory has, or a directory with a new number, greater than its parent.
LEMMA AddKeepsTree ==
  ASSUME RowTree(rows), NEW i, NEW k, NEW x, NEW isDir \in BOOLEAN, Adds(i, k, x, isDir),
         k[1] = RootIno \/ \E j \in DOMAIN rows : rows[j].dir /\ rows[j].ino = k[1],
         \A j \in DOMAIN rows : rows[j].ino = x => ~isDir /\ ~rows[j].dir,
         isDir => k[1] < x
  PROVE  RowTree(rows')
<1>1. \A j \in DOMAIN rows : /\ j \in DOMAIN rows' /\ j # i
                             /\ rows'[j].ino = rows[j].ino /\ rows'[j].parent = rows[j].parent
                             /\ rows'[j].dir = rows[j].dir
  BY DEF Adds, SameBut, NameOf
<1>2. /\ i \in DOMAIN rows' /\ DOMAIN rows' = DOMAIN rows \cup {i}
      /\ rows'[i].ino = x /\ rows'[i].parent = k[1] /\ rows'[i].dir = isDir
  BY DEF Adds, NameOf
<1>3. \A j, l \in DOMAIN rows' : rows'[j].dir /\ rows'[j].ino = rows'[l].ino => j = l
  BY <1>1, <1>2 DEF RowTree
<1>4. \A j \in DOMAIN rows' : \/ rows'[j].parent = RootIno
                              \/ \E l \in DOMAIN rows' : rows'[l].dir /\ rows'[l].ino = rows'[j].parent
  BY <1>1, <1>2 DEF RowTree
<1>5. \A j \in DOMAIN rows' : rows'[j].dir => rows'[j].parent < rows'[j].ino
  BY <1>1, <1>2 DEF RowTree
<1> QED
  BY <1>3, <1>4, <1>5 DEF RowTree

\* A row that goes keeps it, unless it is that of a directory with rows in it.
LEMMA TakeKeepsTree ==
  ASSUME RowTree(rows), NEW i, Takes(i),
         rows[i].dir => \A j \in DOMAIN rows : rows[j].parent # rows[i].ino
  PROVE  RowTree(rows')
<1>1. \A j \in DOMAIN rows' : /\ j \in DOMAIN rows /\ j # i
                              /\ rows'[j].ino = rows[j].ino /\ rows'[j].parent = rows[j].parent
                              /\ rows'[j].dir = rows[j].dir
  BY DEF Takes, SameBut, NameOf
<1>2. i \in DOMAIN rows /\ DOMAIN rows' = DOMAIN rows \ {i}
  BY DEF Takes
<1>3. ASSUME NEW j \in DOMAIN rows'
      PROVE  \/ rows'[j].parent = RootIno
             \/ \E l \in DOMAIN rows' : rows'[l].dir /\ rows'[l].ino = rows'[j].parent
  <2>1. CASE rows[j].parent = RootIno
    BY <1>1, <2>1
  <2>2. CASE \E l \in DOMAIN rows : rows[l].dir /\ rows[l].ino = rows[j].parent
    <3>1. PICK l \in DOMAIN rows : rows[l].dir /\ rows[l].ino = rows[j].parent
      BY <2>2
    <3>2. l # i
      BY <1>1, <3>1
    <3> QED
      BY <1>1, <1>2, <3>1, <3>2
  <2> QED
    BY <1>1, <2>1, <2>2 DEF RowTree
<1>4. \A j, l \in DOMAIN rows' : rows'[j].dir /\ rows'[j].ino = rows'[l].ino => j = l
  BY <1>1 DEF RowTree
<1>5. \A j \in DOMAIN rows' : rows'[j].dir => rows'[j].parent < rows'[j].ino
  BY <1>1 DEF RowTree
<1> QED
  BY <1>3, <1>4, <1>5 DEF RowTree

\* The steps on rows that the handlers make: a row for a file or directory with a
\* number beyond all; one more row for a file; a row goes, and no row is in its
\* directory; counts and sizes.
InRowDir(k) == k[1] = RootIno \/ \E j \in DOMAIN rows : rows[j].dir /\ rows[j].ino = k[1]

Made(k, x, isDir) ==
  /\ k \in Keys /\ x \in Inos
  /\ InRowDir(k)
  /\ \A j \in DOMAIN rows : rows[j].ino < x
  /\ \E i : Adds(i, k, x, isDir)

Linked(k, x) ==
  /\ k \in Keys /\ x \in Inos
  /\ InRowDir(k)
  /\ \E j \in DOMAIN rows : rows[j].ino = x /\ ~rows[j].dir
  /\ \E i : Adds(i, k, x, FALSE)

Gone(i) ==
  /\ Takes(i)
  /\ rows[i].dir => \A j \in DOMAIN rows : rows[j].parent # rows[i].ino

Kept ==
  /\ DOMAIN rows' = DOMAIN rows
  /\ \A i \in DOMAIN rows : SameBut(rows'[i], rows[i])

RowStep ==
  \/ \E k, x : \E isDir \in BOOLEAN : Made(k, x, isDir)
  \/ \E k, x : Linked(k, x)
  \/ \E i : Gone(i)
  \/ Kept

\* They keep the tree of the rows.
LEMMA RowStepKeepsTree ==
  ASSUME S!Inv, RowTree(rows), RowStep
  PROVE  RowTree(rows')
<1>1. \A i \in DOMAIN rows : rows[i].ino \in Nat /\ rows[i].ino \in Inos
  BY OneToken, InoAssumption DEF Inos
<1>2. ASSUME NEW k, NEW x, NEW isDir \in BOOLEAN, Made(k, x, isDir) PROVE RowTree(rows')
  <2>1. PICK i : Adds(i, k, x, isDir)
    BY <1>2 DEF Made
  <2>2. x \in Nat /\ RootIno < x /\ RootIno \in Nat
    BY <1>2, InoAssumption DEF Made, Inos
  <2>3. k[1] < x
    BY <1>1, <1>2, <2>2 DEF Made, InRowDir
  <2>4. \A j \in DOMAIN rows : rows[j].ino # x
    BY <1>1, <1>2, <2>2 DEF Made
  <2> QED
    BY <1>2, <2>1, <2>3, <2>4, AddKeepsTree DEF Made, InRowDir
<1>3. ASSUME NEW k, NEW x, Linked(k, x) PROVE RowTree(rows')
  <2>1. PICK i : Adds(i, k, x, FALSE)
    BY <1>3 DEF Linked
  <2>2. \A j \in DOMAIN rows : rows[j].ino = x => ~rows[j].dir
    BY <1>3 DEF Linked, RowTree
  <2> QED
    BY <1>3, <2>1, <2>2, AddKeepsTree DEF Linked, InRowDir
<1>4. ASSUME NEW i, Gone(i) PROVE RowTree(rows')
  BY <1>4, TakeKeepsTree DEF Gone
<1>5. ASSUME Kept PROVE RowTree(rows')
  <2>1. \A i \in DOMAIN rows : /\ rows'[i].ino = rows[i].ino /\ rows'[i].parent = rows[i].parent
                               /\ rows'[i].dir = rows[i].dir
    BY <1>5 DEF Kept, SameBut, NameOf
  <2>2. DOMAIN rows' = DOMAIN rows
    BY <1>5 DEF Kept
  <2> QED
    BY <2>1, <2>2 DEF RowTree
<1> QED
  BY <1>2, <1>3, <1>4, <1>5 DEF RowStep

\* The name space that is stored.
Stored == NamesOf(rows)
StoredDirs == DirsOf(rows)

RNS == INSTANCE NameSpace WITH names <- Stored, dirs <- StoredDirs

\* A table whose rows keep file, name and kind has the same names.
LEMMA KeptNames ==
  ASSUME Apart(rows), Apart(rows'), Kept
  PROVE  UNCHANGED <<Stored, StoredDirs>>
<1>1. \A i \in DOMAIN rows : /\ rows'[i].ino = rows[i].ino /\ NameOf(rows'[i]) = NameOf(rows[i])
                             /\ rows'[i].dir = rows[i].dir
  BY DEF Kept, SameBut
<1>2. DOMAIN rows' = DOMAIN rows
  BY DEF Kept
<1> DEFINE N == NamesOf(rows)
           M == NamesOf(rows')
<1>3. /\ \A j \in DOMAIN rows : NameOf(rows[j]) \in DOMAIN N /\ N[NameOf(rows[j])] = rows[j].ino
      /\ \A l \in DOMAIN N : \E j \in DOMAIN rows : NameOf(rows[j]) = l
  BY NamesAre
<1>4. /\ \A j \in DOMAIN rows' : NameOf(rows'[j]) \in DOMAIN M /\ M[NameOf(rows'[j])] = rows'[j].ino
      /\ \A l \in DOMAIN M : \E j \in DOMAIN rows' : NameOf(rows'[j]) = l
  BY NamesAre
<1>5. M = [l \in DOMAIN M |-> M[l]] /\ N = [l \in DOMAIN N |-> N[l]]
  BY DEF NamesOf
<1> HIDE DEF N, M
<1>6. ASSUME NEW l \in DOMAIN N PROVE l \in DOMAIN M /\ M[l] = N[l]
  <2>1. PICK j \in DOMAIN rows : NameOf(rows[j]) = l
    BY <1>3
  <2> QED
    BY <1>1, <1>2, <1>3, <1>4, <2>1
<1>7. ASSUME NEW l \in DOMAIN M PROVE l \in DOMAIN N
  <2>1. PICK j \in DOMAIN rows' : NameOf(rows'[j]) = l
    BY <1>4
  <2> QED
    BY <1>1, <1>2, <1>3, <2>1
<1>8. M = N
  BY <1>5, <1>6, <1>7
<1>9. ASSUME NEW d PROVE d \in DirsOf(rows') <=> d \in DirsOf(rows)
  BY <1>1, <1>2 DEF DirsOf
<1> QED
  BY <1>8, <1>9 DEF Stored, StoredDirs, N, M

\* A step of the rows is a step of the name space.
LEMMA RowStepRefines ==
  ASSUME S!Inv, S!Inv', RowTree(rows), RowStep
  PROVE  [RNS!NSStep]_<<Stored, StoredDirs>>
<1>1. Apart(rows) /\ Apart(rows')
  BY RowsApart, RowsApartNext
<1>2. /\ Stored = NamesOf(rows) /\ StoredDirs = DirsOf(rows)
      /\ Stored' = NamesOf(rows') /\ StoredDirs' = DirsOf(rows')
  BY DEF Stored, StoredDirs
<1>3. \A d : d \in StoredDirs <=> \E j \in DOMAIN rows : rows[j].dir /\ rows[j].ino = d
  BY <1>2 DEF DirsOf
<1>4. \A x : x \in {Stored[k] : k \in DOMAIN Stored} <=> \E j \in DOMAIN rows : rows[j].ino = x
  <2>1. /\ \A i \in DOMAIN rows : NameOf(rows[i]) \in DOMAIN Stored /\ Stored[NameOf(rows[i])] = rows[i].ino
        /\ \A k \in DOMAIN Stored : \E i \in DOMAIN rows : NameOf(rows[i]) = k
    BY <1>1, <1>2, NamesAre
  <2> QED
    BY <2>1
<1>5. ASSUME NEW k, NEW x, NEW isDir \in BOOLEAN, Made(k, x, isDir) PROVE RNS!NSStep
  <2>1. PICK i : Adds(i, k, x, isDir)
    BY <1>5 DEF Made
  <2>2. /\ k \notin DOMAIN Stored
        /\ Stored' = [l \in DOMAIN Stored \cup {k} |-> IF l = k THEN x ELSE Stored[l]]
        /\ StoredDirs' = IF isDir THEN StoredDirs \cup {x} ELSE StoredDirs
    <3>1. /\ k \notin DOMAIN NamesOf(rows)
          /\ NamesOf(rows') = [l \in DOMAIN NamesOf(rows) \cup {k} |->
                                 IF l = k THEN x ELSE NamesOf(rows)[l]]
          /\ DirsOf(rows') = IF isDir THEN DirsOf(rows) \cup {x} ELSE DirsOf(rows)
      <4>1. CASE isDir = TRUE
        <5>1. Adds(i, k, x, TRUE)
          BY <2>1, <4>1
        <5> QED
          BY <1>1, <4>1, <5>1, AddedNames
      <4>2. CASE isDir = FALSE
        <5>1. Adds(i, k, x, FALSE)
          BY <2>1, <4>2
        <5> QED
          BY <1>1, <4>2, <5>1, AddedNames
      <4> QED
        BY <4>1, <4>2
    <3> QED
      BY <1>2, <3>1
  <2>3. k[1] \in StoredDirs \cup {RootIno} /\ x \notin {Stored[l] : l \in DOMAIN Stored}
    <3>1. \A j \in DOMAIN rows : rows[j].ino # x
      BY <1>5, OneToken, InoAssumption DEF Made, Inos
    <3> QED
      BY <1>3, <1>4, <1>5, <3>1 DEF Made, InRowDir
  <2>4. RNS!NSMake(k, x, isDir)
    BY <2>2, <2>3 DEF RNS!NSMake, RNS!Bind, RNS!Used
  <2> QED
    BY <1>5, <2>4 DEF RNS!NSStep, Made, Keys
<1>6. ASSUME NEW k, NEW x, Linked(k, x) PROVE RNS!NSStep
  <2>1. PICK i : Adds(i, k, x, FALSE)
    BY <1>6 DEF Linked
  <2>2. /\ k \notin DOMAIN Stored
        /\ Stored' = [l \in DOMAIN Stored \cup {k} |-> IF l = k THEN x ELSE Stored[l]]
        /\ StoredDirs' = StoredDirs
    <3>1. /\ k \notin DOMAIN NamesOf(rows)
          /\ NamesOf(rows') = [l \in DOMAIN NamesOf(rows) \cup {k} |->
                                 IF l = k THEN x ELSE NamesOf(rows)[l]]
          /\ DirsOf(rows') = IF FALSE THEN DirsOf(rows) \cup {x} ELSE DirsOf(rows)
      BY <1>1, <2>1, AddedNames
    <3> QED
      BY <1>2, <3>1
  <2>3. k[1] \in StoredDirs \cup {RootIno} /\ x \in {Stored[l] : l \in DOMAIN Stored}
    BY <1>3, <1>4, <1>6 DEF Linked, InRowDir
  <2>4. x \notin StoredDirs
    BY <1>3, <1>6 DEF Linked, RowTree
  <2>5. RNS!NSLink(k, x)
    BY <2>2, <2>3, <2>4 DEF RNS!NSLink, RNS!Bind, RNS!Used
  <2> QED
    BY <1>6, <2>5 DEF RNS!NSStep, Linked, Keys
<1>7. ASSUME NEW i, Gone(i) PROVE RNS!NSStep
  <2> DEFINE k == NameOf(rows[i])
  <2>1. Takes(i) /\ i \in DOMAIN rows
    BY <1>7 DEF Gone, Takes
  <2>2. /\ k \in DOMAIN Stored /\ Stored[k] = rows[i].ino
        /\ Stored' = [l \in DOMAIN Stored \ {k} |-> Stored[l]]
        /\ StoredDirs' = StoredDirs \ {rows[i].ino}
    BY <1>1, <1>2, <2>1, TakenNames
  <2>3. ASSUME NEW l \in DOMAIN Stored, rows[i].ino \in StoredDirs PROVE l[1] # rows[i].ino
    <3>1. rows[i].dir
      BY <1>3, <2>1, <2>3 DEF RowTree
    <3>2. PICK j \in DOMAIN rows : NameOf(rows[j]) = l
      BY <1>1, <1>2, NamesAre
    <3>3. rows[j].parent # rows[i].ino
      BY <1>7, <3>1 DEF Gone
    <3> QED
      BY <3>2, <3>3 DEF NameOf
  <2>4. k \in Keys
    BY <2>1, OneToken DEF NameOf, Keys
  <2> HIDE DEF k
  <2>5. RNS!NSRemove(k)
    BY <2>2, <2>3 DEF RNS!NSRemove
  <2> QED
    BY <2>4, <2>5 DEF RNS!NSStep, Keys
<1>8. CASE Kept
  BY <1>1, <1>8, KeptNames
<1> QED
  BY <1>5, <1>6, <1>7, <1>8 DEF RowStep

-----------------------------------------------------------------------------
(* The shape of tree and database, whatever is lost                        *)

\* The inductive invariant: database and tree are trees, and the entries of the
\* tree lie in the order of the walk.
ShapeInv ==
  /\ RemoteInv
  /\ RowTree(rows)
  /\ DirNames(ent) /\ DirTree(ent) /\ WalkIn(ent)

\* A directory that an entry can be in, in the tree and in the database: it has
\* one entry, which is the one row of its number.
LEMMA InADir ==
  ASSUME ShapeInv, NEW k, IsDir(k[1])
  PROVE  /\ k[1] = RootIno \/ \E l \in DOMAIN ent : ent[l].ino = k[1] /\ ent[l].dir
         /\ InRowDir(k)
<1>1. TreeOK(ent) /\ DirNames(ent)
  BY DEF ShapeInv, RemoteInv, TreeInv
<1>2. k[1] = RootIno \/ \E l \in DOMAIN ent : ent[l].ino = k[1] /\ ent[l].dir
  BY <1>1, IsDirIff
<1>3. ASSUME NEW l \in DOMAIN ent, ent[l].ino = k[1], ent[l].dir PROVE InRowDir(k)
  <2>1. LinksIn(ent, k[1]) = {l}
    BY <1>1, <1>3 DEF DirNames, LinksIn
  <2>2. InDb(ent, rows, k[1])
    BY <1>1, <1>3 DEF ShapeInv, RemoteInv, TreeOK, Entry
  <2>3. PICK i \in RowsIn(rows, k[1]) : rows[i].dir = ent[l].dir
    BY <2>1, <2>2 DEF InDb
  <2> QED
    BY <1>3, <2>3 DEF RowsIn, InRowDir
<1> QED
  BY <1>2, <1>3 DEF InRowDir

\* An entry that comes into a directory keeps the shape: for a file whose number no
\* directory has, or for a directory with a new number, greater than its parent.
LEMMA AddedShape ==
  ASSUME ShapeInv, NEW q, q \notin DOMAIN ent,
         q[1] = RootIno \/ \E l \in DOMAIN ent : ent[l].ino = q[1] /\ ent[l].dir,
         NEW e \in Entry, e.at = Place(q[1]), TreeOK(With(ent, q, e)),
         DOMAIN With(ent, q, e) = DOMAIN ent \cup {q}, With(ent, q, e)[q] = e,
         \A l \in DOMAIN ent : SameBody(With(ent, q, e)[l], ent[l]),
         \A l \in DOMAIN ent : ent[l].ino = e.ino => ~e.dir /\ ~ent[l].dir,
         e.dir => q[1] < e.ino,
         SameOrder(ent', With(ent, q, e)),
         \A l \in DOMAIN ent' : ent'[l].dir = With(ent, q, e)[l].dir
  PROVE  DirNames(ent') /\ DirTree(ent') /\ WalkIn(ent')
<1> DEFINE u == With(ent, q, e)
<1>1. /\ TreeOK(ent) /\ DirNames(ent) /\ DirTree(ent) /\ WalkIn(ent) /\ Placed(ent)
  BY DEF ShapeInv, RemoteInv, TreeInv
<1>2. e.ino # RootIno
  BY InoAssumption DEF Entry, Inos
<1>3. e.ino # q[1] /\ \A k \in DOMAIN ent : k[1] # e.ino
  BY <1>1, <1>2 DEF DirTree
<1>4. WalkIn(u) /\ Placed(u)
  BY <1>1, <1>3, WithWalk
<1>5. WalkIn(ent')
  BY <1>4, SameWalk
<1> HIDE DEF u
<1>6. /\ DOMAIN ent' = DOMAIN ent \cup {q}
      /\ ent'[q].ino = e.ino /\ ent'[q].dir = e.dir
      /\ \A l \in DOMAIN ent : ent'[l].ino = ent[l].ino /\ ent'[l].dir = ent[l].dir
  BY DEF SameOrder, SameBody
<1>7. DirNames(ent')
  BY <1>1, <1>6 DEF DirNames
<1>8. ASSUME NEW k \in DOMAIN ent'
      PROVE  /\ k[1] = RootIno \/ \E l \in DOMAIN ent' : ent'[l].ino = k[1] /\ ent'[l].dir
             /\ ent'[k].dir => k[1] < ent'[k].ino
  <2>1. k = q \/ k \in DOMAIN ent
    BY <1>6
  <2> QED
    BY <1>1, <1>6, <2>1 DEF DirTree
<1> QED
  BY <1>5, <1>7, <1>8 DEF DirTree

\* An entry without entries beneath it goes.
LEMMA RemovedShape ==
  ASSUME ShapeInv, NEW q \in DOMAIN ent, \A l \in DOMAIN ent : l[1] # ent[q].ino,
         ent' = Without(ent, {q})
  PROVE  DirNames(ent') /\ DirTree(ent') /\ WalkIn(ent')
<1>1. /\ TreeOK(ent) /\ DirNames(ent) /\ DirTree(ent) /\ WalkIn(ent) /\ Placed(ent)
  BY DEF ShapeInv, RemoteInv, TreeInv
<1>2. WalkIn(ent')
  BY <1>1, WithoutWalk
<1>3. /\ DOMAIN ent' = DOMAIN ent \ {q}
      /\ \A l \in DOMAIN ent \ {q} : SameBody(ent'[l], ent[l])
  BY <1>1, WithoutOK
<1>4. DirNames(ent')
  <2>1. \A l \in DOMAIN ent' : /\ l \in DOMAIN ent
                                /\ ent'[l].ino = ent[l].ino /\ ent'[l].dir = ent[l].dir
    BY <1>3 DEF SameBody
  <2> SUFFICES ASSUME NEW k \in DOMAIN ent', NEW l \in DOMAIN ent',
                      ent'[k].dir, ent'[l].ino = ent'[k].ino
               PROVE  l = k
    BY DEF DirNames
  <2>2. DirNames(ent) /\ ent[k].dir /\ ent[l].ino = ent[k].ino
    BY <1>1, <2>1
  <2> QED
    BY <2>1, <2>2 DEF DirNames
<1>5. ASSUME NEW k \in DOMAIN ent'
      PROVE  /\ k[1] = RootIno \/ \E l \in DOMAIN ent' : ent'[l].ino = k[1] /\ ent'[l].dir
             /\ ent'[k].dir => k[1] < ent'[k].ino
  <2>1. k \in DOMAIN ent /\ k # q
    BY <1>3
  <2>2. ASSUME NEW l \in DOMAIN ent, ent[l].ino = k[1], ent[l].dir
        PROVE  l \in DOMAIN ent' /\ ent'[l].ino = k[1] /\ ent'[l].dir
    BY <1>3, <2>1, <2>2 DEF SameBody
  <2> QED
    BY <1>1, <1>3, <2>1, <2>2 DEF DirTree, SameBody
<1> QED
  BY <1>2, <1>4, <1>5 DEF DirTree

\* Entries that keep number, kind and place.
LEMMA KeptShape ==
  ASSUME ShapeInv, DOMAIN ent' = DOMAIN ent,
         \A l \in DOMAIN ent : /\ ent'[l].ino = ent[l].ino /\ ent'[l].dir = ent[l].dir
                               /\ ent'[l].at = ent[l].at
  PROVE  DirNames(ent') /\ DirTree(ent') /\ WalkIn(ent')
<1>1. DirNames(ent')
  BY DEF ShapeInv, DirNames
<1>2. DirTree(ent')
  BY DEF ShapeInv, DirTree
<1>3. WalkIn(ent') /\ Placed(ent')
  BY SameWalk DEF ShapeInv, RemoteInv, TreeInv, SameOrder
<1> QED
  BY <1>1, <1>2, <1>3

\* What a handler does to the shape of the tree and to the rows.
KeepsShape == DirNames(ent') /\ DirTree(ent') /\ WalkIn(ent') /\ RowStep

\* vtfs_create and vtfs_mkdir
LEMMA MakeShape ==
  ASSUME ShapeInv, NEW k \in Keys, NEW isDir \in BOOLEAN, RemoteMake(k, isDir)
  PROVE  KeepsShape
<1> DEFINE x == DB!NewIno(Token)
           e == [NewEntry(k, isDir) EXCEPT !.ino = x]
<1>1. /\ k \notin DOMAIN ent /\ IsDir(k[1])
      /\ TreeInv /\ S!Inv /\ TreeOK(ent)
      /\ k[1] \in Inos \cup {RootIno} /\ k[2] \in Names /\ k = <<k[1], k[2]>>
  BY DEF RemoteMake, ShapeInv, RemoteInv, TreeInv, Keys
<1>2. /\ k[1] = RootIno \/ \E l \in DOMAIN ent : ent[l].ino = k[1] /\ ent[l].dir
      /\ InRowDir(k)
  BY <1>1, InADir
<1>3. CASE UNCHANGED <<ent, rows, chunks>>
  BY <1>3, KeptShape DEF KeepsShape, RowStep, Kept, SameBut
<1>4. CASE DB!Create(Token, k[1], k[2], isDir) /\ (ent' = ent \/ ent' = With(ent, k, e))
  <2>1. /\ x \in Inos /\ RowsIn(rows, x) = {}
        /\ \E i : /\ i \notin DOMAIN rows /\ DOMAIN rows' = DOMAIN rows \cup {i}
                  /\ \A j \in DOMAIN rows : rows'[j] = rows[j]
                  /\ rows'[i] = DB!NewRow(Token, k[1], k[2], isDir)
    BY <1>1, <1>4, CreateRows
  <2>2. PICK i : /\ i \notin DOMAIN rows /\ DOMAIN rows' = DOMAIN rows \cup {i}
                 /\ \A j \in DOMAIN rows : rows'[j] = rows[j]
                 /\ rows'[i] = DB!NewRow(Token, k[1], k[2], isDir)
    BY <2>1
  <2>3. rows'[i].ino = x /\ NameOf(rows'[i]) = k /\ rows'[i].dir = isDir
    BY <1>1, <2>2 DEF DB!NewRow, NameOf
  <2>4. e \in Entry /\ e.ino = x /\ e.dir = isDir /\ e.at = Place(k[1])
    <3>1. e = [ino |-> x, dir |-> isDir, nlink |-> 1, data |-> NULL, size |-> 0, at |-> Place(k[1])]
      BY DEF NewEntry
    <3> HIDE DEF e, x
    <3> QED
      BY <1>1, <2>1, <3>1, PlaceIsNat, SizeAssumption DEF Entry, Pointers, Sizes
  <2>5. \A j \in DOMAIN rows : rows[j].ino < x
    <3>1. x = S!NewIno(Token)
      BY DEF DB!NewIno, S!NewIno
    <3>2. \A j \in DOMAIN rows : rows[j].token = Token => rows[j].ino < S!NewIno(Token)
      BY <1>1, Constants, S!NewInoIsNew DEF S!Inv
    <3> QED
      BY <1>1, <3>1, <3>2, OneToken
  <2> HIDE DEF e, x
  <2>6. Adds(i, k, x, isDir)
    BY <2>2, <2>3 DEF Adds, SameBut
  <2>7. RowStep
    <3>1. Made(k, x, isDir)
      BY <1>2, <2>1, <2>5, <2>6 DEF Made
    <3> QED
      BY <3>1 DEF RowStep
  <2>8. CASE ent' = ent
    BY <2>7, <2>8, KeptShape DEF KeepsShape
  <2>9. CASE ent' = With(ent, k, e)
    <3>1. /\ TreeOK(With(ent, k, e)) /\ DOMAIN With(ent, k, e) = DOMAIN ent \cup {k}
          /\ With(ent, k, e)[k] = e
          /\ \A l \in DOMAIN ent : SameBody(With(ent, k, e)[l], ent[l])
      BY <1>1, <2>4, WithIs
    <3>2. \A l \in DOMAIN ent : ent[l].ino # x
      <4>1. LinksIn(ent, x) = {}
        BY <2>1 DEF ShapeInv, RemoteInv, InDb
      <4> QED
        BY <4>1 DEF LinksIn
    <3>3. k[1] < x
      <4>1. \A j \in DOMAIN rows : rows[j].ino \in Nat
        BY <1>1, OneToken, InoAssumption DEF Inos
      <4> QED
        BY <1>2, <2>1, <2>5, <4>1, InoAssumption DEF Inos, InRowDir
    <3>4. SameOrder(ent', With(ent, k, e)) /\ \A l \in DOMAIN ent' : ent'[l].dir = With(ent, k, e)[l].dir
      BY <2>9 DEF SameOrder
    <3>5. DirNames(ent') /\ DirTree(ent') /\ WalkIn(ent')
      BY <1>1, <1>2, <2>4, <3>1, <3>2, <3>3, <3>4, AddedShape
    <3> QED
      BY <2>7, <3>5 DEF KeepsShape
  <2> QED
    BY <1>4, <2>8, <2>9 DEF e, x
<1> QED
  BY <1>3, <1>4 DEF RemoteMake, db

\* vtfs_link
LEMMA LinkShape ==
  ASSUME ShapeInv, NEW k \in Keys, NEW x \in Inos, RemoteLink(k, x)
  PROVE  KeepsShape
<1> DEFINE f == First(x)
           e == [ent[f] EXCEPT !.at = Place(k[1])]
<1>1. /\ k \notin DOMAIN ent /\ IsDir(k[1]) /\ x \in RegularFiles
      /\ TreeInv /\ S!Inv /\ TreeOK(ent) /\ DirNames(ent)
      /\ k[1] \in Inos \cup {RootIno} /\ k[2] \in Names /\ k = <<k[1], k[2]>>
  BY DEF RemoteLink, ShapeInv, RemoteInv, TreeInv, Keys
<1>2. /\ k[1] = RootIno \/ \E l \in DOMAIN ent : ent[l].ino = k[1] /\ ent[l].dir
      /\ InRowDir(k)
  BY <1>1, InADir
<1>3. /\ f \in DOMAIN ent /\ ent[f].ino = x /\ ent[f] \in Entry /\ ~ent[f].dir
      /\ e \in Entry /\ e.ino = x /\ ~e.dir /\ e.at = Place(k[1])
  <2>1. f \in DOMAIN ent /\ ent[f].ino = x /\ ent[f] \in Entry
    BY <1>1, FileFirst
  <2>2. ~ent[f].dir
    BY <1>1 DEF RegularFiles
  <2>3. Place(k[1]) \in Nat
    BY <1>1, PlaceIsNat
  <2> HIDE DEF f
  <2> QED
    BY <2>1, <2>2, <2>3 DEF Entry
<1>4. RowStep
  <2>1. DB!Link(Token, x, k[1], k[2]) \/ UNCHANGED rows
    BY DEF RemoteLink, RequestLink, Lost, db
  <2>2. CASE UNCHANGED rows
    BY <2>2 DEF RowStep, Kept, SameBut
  <2>3. CASE DB!Link(Token, x, k[1], k[2])
    <3>1. PICK i, j : RowsIn(rows, x) = {i} /\ Twinned(i, j, k[1], k[2])
      BY <1>1, <2>3, LinkRows
    <3>2. rows[i] \in S!VtfsFile /\ rows[i].ino = x /\ i \in DOMAIN rows /\ ~rows[i].dir
      BY <1>1, <3>1 DEF S!Inv, S!TypeIn, Twinned, RowsIn
    <3>3. /\ j \notin DOMAIN rows /\ DOMAIN rows' = DOMAIN rows \cup {j}
          /\ \A l \in DOMAIN rows \ {i} : rows'[l] = rows[l]
          /\ SameBut(rows'[i], rows[i])
          /\ rows'[j].ino = x /\ NameOf(rows'[j]) = k /\ rows'[j].dir = FALSE
      BY <1>1, <3>1, <3>2 DEF Twinned, SameBut, NameOf, S!VtfsFile
    <3>4. Adds(j, k, x, FALSE)
      BY <3>3 DEF Adds, SameBut
    <3>5. Linked(k, x)
      BY <1>2, <3>2, <3>4 DEF Linked
    <3> QED
      BY <3>5 DEF RowStep
  <2> QED
    BY <2>1, <2>2, <2>3
<1>5. \E n \in Nat \ {0} : ent' = SetNlink(With(ent, k, e), x, n)
  <2>1. \/ \E i \in DB!OfIno(Token, x) : ent' = SetNlink(With(ent, k, e), x, rows[i].nlink + 1)
        \/ ent' = SetNlink(With(ent, k, e), x, ent[f].nlink + 1)
    BY DEF RemoteLink
  <2>2. \A i \in DB!OfIno(Token, x) : rows[i].nlink + 1 \in Nat \ {0}
    BY <1>1, OneToken DEF RowsIn
  <2>3. ent[f].nlink + 1 \in Nat \ {0}
    BY <1>3 DEF Entry
  <2> HIDE DEF e, f
  <2> QED
    BY <2>1, <2>2, <2>3
<1> HIDE DEF e, f
<1>6. PICK n \in Nat \ {0} : ent' = SetNlink(With(ent, k, e), x, n)
  BY <1>5
<1>7. /\ TreeOK(With(ent, k, e)) /\ DOMAIN With(ent, k, e) = DOMAIN ent \cup {k}
      /\ With(ent, k, e)[k] = e
      /\ \A l \in DOMAIN ent : SameBody(With(ent, k, e)[l], ent[l])
  BY <1>1, <1>3, WithIs
<1>8. SameOrder(ent', With(ent, k, e)) /\ \A l \in DOMAIN ent' : ent'[l].dir = With(ent, k, e)[l].dir
  BY <1>6, <1>7, SetNlinkOK DEF SameOrder
<1>9. \A l \in DOMAIN ent : ent[l].ino = x => ~ent[l].dir
  BY <1>1, <1>3 DEF DirNames
<1>10. DirNames(ent') /\ DirTree(ent') /\ WalkIn(ent')
  BY <1>1, <1>2, <1>3, <1>7, <1>8, <1>9, AddedShape
<1> QED
  BY <1>4, <1>10 DEF KeepsShape

\* An entry without entries beneath it goes.  The row of its file goes with it, in
\* which no row lies either, or the server refuses.
LEMMA RemovalShape ==
  ASSUME ShapeInv, NEW k \in DOMAIN ent, LinksIn(ent, ent[k].ino) = {k}, ent' = Without(ent, {k}),
         \A l \in DOMAIN ent : l[1] # ent[k].ino,
         \/ DB!Unlink(Token, ent[k].ino) /\ ~ent[k].dir
         \/ DB!Delete(Token, ent[k].ino)
         \/ UNCHANGED rows
  PROVE  KeepsShape
<1> DEFINE x == ent[k].ino
<1>1. S!Inv /\ x \in Inos
  BY DEF ShapeInv, RemoteInv, TreeInv, TreeOK, Entry
<1>2. DirNames(ent') /\ DirTree(ent') /\ WalkIn(ent')
  BY RemovedShape
<1>3. PICK i \in RowsIn(rows, x) : rows[i].dir = ent[k].dir
  BY <1>1 DEF ShapeInv, RemoteInv, InDb
<1>4. RowsIn(rows, x) = {i} /\ DB!OfIno(Token, x) = {i} /\ i \in DOMAIN rows /\ rows[i].ino = x
  <2>1. \A j \in RowsIn(rows, x) : j = i
    BY <1>1, <1>3 DEF ShapeInv, RemoteInv, InDb
  <2> QED
    BY <1>1, <1>3, <2>1, OneToken DEF RowsIn
<1>5. RowStep
  <2>1. CASE UNCHANGED rows
    BY <2>1 DEF RowStep, Kept, SameBut
  <2>2. CASE DB!Unlink(Token, x) /\ ~ent[k].dir
    <3>1. DOMAIN rows' = DOMAIN rows \ {i}
      BY <1>4, <2>2 DEF DB!Unlink
    <3>2. \A j \in DOMAIN rows' : SameBut(rows'[j], rows[j])
      BY <1>1, <2>2, RemoveRows
    <3>3. Gone(i)
      BY <1>3, <1>4, <2>2, <3>1, <3>2 DEF Gone, Takes
    <3> QED
      BY <3>3 DEF RowStep
  <2>3. CASE DB!Delete(Token, x)
    <3>1. DOMAIN rows' = DOMAIN rows \ {i} /\ (rows[i].dir => DB!InParent(Token, x) = {})
      BY <1>4, <2>3 DEF DB!Delete, DB!Remove
    <3>2. \A j \in DOMAIN rows' : SameBut(rows'[j], rows[j])
      BY <1>1, <2>3, RemoveRows
    <3>3. ASSUME rows[i].dir, NEW j \in DOMAIN rows PROVE rows[j].parent # rows[i].ino
      BY <1>1, <1>4, <3>1, <3>3, OneToken DEF DB!InParent
    <3>4. Gone(i)
      BY <1>4, <3>1, <3>2, <3>3 DEF Gone, Takes
    <3> QED
      BY <3>4 DEF RowStep
  <2> QED
    BY <2>1, <2>2, <2>3
<1> QED
  BY <1>2, <1>5 DEF KeepsShape

\* vtfs_unlink: no entry lies beneath a file.
LEMMA UnlinkShape ==
  ASSUME ShapeInv, KeepsLinks, NEW k \in Keys, RemoteUnlink(k)
  PROVE  KeepsShape
<1> DEFINE x == ent[k].ino
           n == ent[First(x)].nlink - 1
           K == IF n = 0 THEN LinksOf(x) ELSE {k}
<1>1. /\ k \in DOMAIN ent /\ ~ent[k].dir
      /\ ent' = Without(SetNlink(ent, x, n), K)
      /\ DB!Unlink(Token, x) \/ UNCHANGED rows
      /\ TreeOK(ent) /\ DirNames(ent) /\ DirTree(ent)
  BY DEF RemoteUnlink, Unlink, RequestUnlink, Lost, db, ShapeInv, RemoteInv, TreeInv
<1>2. k \in K
  BY <1>1 DEF LinksOf
<1>3. DOMAIN ent' = DOMAIN ent \ K
  BY <1>1 DEF Without, SetNlink
<1>4. LinksIn(ent, x) = {k} /\ LinksOf(x) = {k}
  BY <1>1, <1>2, <1>3, LastLink
<1>5. ent' = Without(SetNlink(ent, x, n), {k})
  BY <1>1, <1>4
<1> HIDE DEF K, n
<1>6. Without(SetNlink(ent, x, n), {k}) = Without(ent, {k})
  BY <1>4, OtherNlink
<1>7. x # RootIno
  BY <1>1, InoAssumption DEF TreeOK, Entry, Inos
<1>8. \A l \in DOMAIN ent : l[1] # x
  BY <1>1, <1>7 DEF DirTree, DirNames
<1> QED
  BY <1>1, <1>4, <1>5, <1>6, <1>8, RemovalShape

\* vtfs_rmdir
LEMMA RmdirShape ==
  ASSUME ShapeInv, KeepsLinks, NEW k \in Keys, RemoteRmdir(k)
  PROVE  KeepsShape
<1>1. /\ k \in DOMAIN ent /\ ent' = Without(ent, {k})
      /\ \A l \in DOMAIN ent : l[1] # ent[k].ino
      /\ DB!Delete(Token, ent[k].ino) \/ UNCHANGED rows
      /\ TreeOK(ent)
  BY DEF RemoteRmdir, Rmdir, RequestDelete, Lost, db, ShapeInv, RemoteInv, TreeInv
<1>2. DOMAIN ent' = DOMAIN ent \ {k}
  BY <1>1 DEF Without
<1>3. LinksIn(ent, ent[k].ino) = {k}
  BY <1>1, <1>2, LastLink
<1> QED
  BY <1>1, <1>3, RemovalShape

\* The handlers on data leave names, kinds and places, in the tree and in the rows.
LEMMA DataShape ==
  ASSUME ShapeInv, NEW x \in Inos,
         \/ LocalOnly(x)
         \/ \E append \in BOOLEAN, o \in Sizes, p \in Payloads : RemoteWrite(x, append, o, p)
         \/ \E n \in 1 .. MaxSize : RemoteRead(x, n)
  PROVE  KeepsShape
<1>1. TreeInv /\ S!Inv /\ TreeOK(ent) /\ HeapOK(mem)
  BY DEF ShapeInv, RemoteInv, TreeInv
<1>2. /\ DOMAIN ent' = DOMAIN ent
      /\ \A l \in DOMAIN ent : /\ ent'[l].ino = ent[l].ino /\ ent'[l].dir = ent[l].dir
                               /\ ent'[l].at = ent[l].at
  <2>1. CASE \E M, ptr, s : DataStep(x, M, ptr, s)
    BY <2>1 DEF DataStep
  <2>2. CASE LocalOnly(x)
    <3>1. x \in RegularFiles
      BY <2>2 DEF LocalOnly, Setattr, OpenTrunc
    <3> QED
      BY <1>1, <2>1, <2>2, <3>1, SetattrStep, OpenTruncStep DEF LocalOnly
  <2>3. ASSUME NEW append \in BOOLEAN, NEW o \in Sizes, NEW p \in Payloads, RemoteWrite(x, append, o, p)
        PROVE  \E M, ptr, s : DataStep(x, M, ptr, s)
    <3>1. Write(x, append, o, p) /\ x \in RegularFiles
      BY <2>3, WriteSends
    <3>2. FirstFits(x)
      BY <1>1, <3>1, FilesFit
    <3> QED
      BY <1>1, <3>1, <3>2, WriteStep
  <2>4. CASE \E n \in 1 .. MaxSize : RemoteRead(x, n)
    <3>1. PICK b, s : ent' = [ent EXCEPT ![First(x)] = [@ EXCEPT !.data = b, !.size = s]]
      BY <2>4 DEF RemoteRead
    <3>2. \A l \in DOMAIN ent : ent[l] \in Entry
      BY <1>1 DEF TreeOK
    <3> QED
      BY <3>1, <3>2 DEF Entry
  <2> QED
    BY <2>1, <2>2, <2>3, <2>4
<1>3. Kept
  <2>1. CASE UNCHANGED rows
    BY <2>1 DEF Kept, SameBut
  <2>2. ASSUME NEW append \in BOOLEAN, NEW o \in Sizes, NEW p \in Payloads, RemoteWrite(x, append, o, p)
        PROVE  Kept
    <3>1. x \in RegularFiles
      BY <2>2, WriteSends
    <3>2. (IF append THEN ent[First(x)].size ELSE o) \in Sizes
      BY <1>1, <3>1, FileFirst DEF Entry
    <3>3. \/ UNCHANGED rows
          \/ \E q \in Sendable : DB!Write(Token, x, IF append THEN ent[First(x)].size ELSE o, q)
      BY <2>2, WriteSends
    <3> QED
      BY <1>1, <2>1, <3>2, <3>3, WriteRows DEF Kept
  <2> QED
    BY <2>1, <2>2 DEF LocalOnly, RemoteRead, db
<1> QED
  BY <1>2, <1>3, KeptShape DEF KeepsShape, RowStep

\* A row that a mount loads is in the root or in a directory that it loads.
LEMMA LoadedParent ==
  ASSUME NEW M, NEW i \in Loads(M)
  PROVE  rows[i].parent = RootIno \/ \E j \in Loads(M) : rows[j].dir /\ rows[j].ino = rows[i].parent
<1> DEFINE Reached(I, n) == \/ rows[n].parent = RootIno
                            \/ \E j \in I : rows[j].dir /\ rows[j].ino = rows[n].parent
           Others == Loads(M) \ {i}
<1>1. \A n \in M : n \in Loads(M) <=> \A I \in SUBSET M :
                                        (\A m \in M : Reached(I, m) => m \in I) => n \in I
  BY DEF Loads
<1>2. Loads(M) \subseteq M
  BY DEF Loads
<1>3. \A n \in M : Reached(Loads(M), n) => n \in Loads(M)
  <2> SUFFICES ASSUME NEW n \in M, Reached(Loads(M), n),
                      NEW I \in SUBSET M, \A m \in M : Reached(I, m) => m \in I
               PROVE  n \in I
    BY <1>1
  <2>1. Loads(M) \subseteq I
    BY <1>1, <1>2
  <2>2. Reached(I, n)
    BY <2>1
  <2> QED
    BY <2>2
<1>4. SUFFICES ASSUME ~Reached(Loads(M), i)
               PROVE  FALSE
  OBVIOUS
<1>5. \A m \in M : Reached(Others, m) => m \in Others
  BY <1>3, <1>4
<1>6. Others \in SUBSET M
  BY <1>2
<1> HIDE DEF Reached
<1>7. i \in Others
  BY <1>1, <1>2, <1>5, <1>6
<1> QED
  BY <1>7

\* What a mount loads is a tree, for the rows are one and no file has two.
LEMMA RemountShape ==
  ASSUME ShapeInv, Remount
  PROVE  KeepsShape
<1>1. /\ S!Inv /\ TreeInv /\ DOMAIN ent = {} /\ UNCHANGED <<rows, chunks>>
      /\ Apart(rows) /\ RowTree(rows)
  BY RowsApart DEF Remount, ShapeInv, RemoteInv, TreeInv, db
<1>2. \E L \in Loadable :
             /\ DOMAIN ent' = {Key(i) : i \in Loads(L)}
             /\ \A k \in DOMAIN ent' :
                  LET r == rows[CHOOSE i \in Loads(L) : Key(i) = k]
                  IN ent'[k].ino = r.ino /\ ent'[k].dir = r.dir
  <2>1. PICK L \in Loadable :
          LET I == Loads(L)
              K == {Key(i) : i \in I}
              RowAt(k) == rows[CHOOSE i \in I : Key(i) = k]
          IN \E place \in [K -> 1 .. Cardinality(K)] :
               /\ \A k, l \in K : place[k] = place[l] => k = l
               /\ ent' = [k \in K |-> [ino |-> RowAt(k).ino, dir |-> RowAt(k).dir, nlink |-> 1,
                                       data |-> NULL, size |-> RowAt(k).size, at |-> place[k]]]
               /\ WalkOrder'
    BY DEF Remount
  <2> DEFINE I == Loads(L)
             at(k) == CHOOSE i \in I : Key(i) = k
  <2>2. PICK place : ent' = [k \in {Key(i) : i \in I} |->
                               [ino |-> rows[at(k)].ino, dir |-> rows[at(k)].dir, nlink |-> 1,
                                data |-> NULL, size |-> rows[at(k)].size, at |-> place[k]]]
    BY <2>1
  <2> HIDE DEF I, at
  <2>3. /\ DOMAIN ent' = {Key(i) : i \in I}
        /\ \A k \in DOMAIN ent' : ent'[k].ino = rows[at(k)].ino /\ ent'[k].dir = rows[at(k)].dir
    BY <2>2
  <2> QED
    BY <2>3 DEF at, I
<1>3. PICK L \in Loadable :
               /\ DOMAIN ent' = {Key(i) : i \in Loads(L)}
               /\ \A k \in DOMAIN ent' :
                    LET r == rows[CHOOSE i \in Loads(L) : Key(i) = k]
                    IN ent'[k].ino = r.ino /\ ent'[k].dir = r.dir
  BY <1>2
<1> DEFINE at(k) == CHOOSE i \in Loads(L) : Key(i) = k
<1>4. \A k \in DOMAIN ent' : /\ at(k) \in Loads(L) /\ Key(at(k)) = k
                             /\ ent'[k].ino = rows[at(k)].ino /\ ent'[k].dir = rows[at(k)].dir
  BY <1>3
<1> HIDE DEF at
<1>5. Loads(L) \subseteq DOMAIN rows
  BY LoadedRows
<1>6. \A i \in Loads(L) : Key(i) \in DOMAIN ent' /\ at(Key(i)) = i
  BY <1>1, <1>3, <1>4, <1>5 DEF Apart, Key, NameOf
<1>7. ASSUME NEW i \in DOMAIN rows, NEW j \in DOMAIN rows, rows[i].ino = rows[j].ino PROVE i = j
  <2>1. rows[i].ino \in Inos
    BY <1>1, OneToken
  <2> QED
    BY <1>1, <1>7, <2>1 DEF ShapeInv, RemoteInv, InDb, LinksIn, RowsIn
<1>8. DirNames(ent')
  BY <1>4, <1>5, <1>7 DEF DirNames
<1>9. ASSUME NEW k \in DOMAIN ent'
      PROVE  /\ k[1] = RootIno \/ \E l \in DOMAIN ent' : ent'[l].ino = k[1] /\ ent'[l].dir
             /\ ent'[k].dir => k[1] < ent'[k].ino
  <2>1. at(k) \in Loads(L) /\ at(k) \in DOMAIN rows /\ rows[at(k)].parent = k[1]
    BY <1>4, <1>5 DEF Key
  <2>2. ent'[k].dir => k[1] < ent'[k].ino
    BY <1>1, <1>4, <2>1 DEF RowTree
  <2>3. rows[at(k)].parent = RootIno \/ \E j \in Loads(L) : rows[j].dir /\ rows[j].ino = rows[at(k)].parent
    BY <2>1, LoadedParent, Zenon
  <2>4. CASE k[1] # RootIno
    <3>1. PICK j \in Loads(L) : rows[j].dir /\ rows[j].ino = k[1]
      BY <2>1, <2>3, <2>4
    <3>2. Key(j) \in DOMAIN ent' /\ ent'[Key(j)].ino = k[1] /\ ent'[Key(j)].dir
      BY <1>4, <1>6, <3>1
    <3> QED
      BY <2>2, <3>2
  <2> QED
    BY <2>2, <2>4
<1>10. WalkIn(ent')
  <2>1. WalkOrder'
    BY Zenon DEF Remount
  <2> QED
    BY <2>1, Zenon DEF WalkOrder, WalkIn
<1>11. RowStep
  BY <1>1 DEF RowStep, Kept, SameBut
<1> QED
  BY <1>8, <1>9, <1>10, <1>11 DEF KeepsShape, DirTree

\* A file system that goes has no shape to keep.
LEMMA EmptiedShape ==
  ASSUME ent' = <<>>, UNCHANGED rows
  PROVE  KeepsShape
<1>1. DOMAIN ent' = {}
  OBVIOUS
<1>2. DirNames(ent') /\ DirTree(ent') /\ WalkIn(ent')
  BY <1>1 DEF DirNames, DirTree, WalkIn
<1> QED
  BY <1>2 DEF KeepsShape, RowStep, Kept, SameBut

\* Every step keeps the shape of tree and rows.
LEMMA ShapeNext == ShapeInv /\ [RemoteNext /\ KeepsLinks]_all => ShapeInv' /\ RowStep
<1> SUFFICES ASSUME ShapeInv, [RemoteNext /\ KeepsLinks]_all PROVE ShapeInv' /\ RowStep
  OBVIOUS
<1>1. RemoteInv' /\ RemoteInv
  BY RemoteNextInv DEF ShapeInv
<1>2. SUFFICES KeepsShape
  <2>1. RowTree(rows')
    BY <1>1, <1>2, RowStepKeepsTree DEF KeepsShape, ShapeInv, RemoteInv
  <2> QED
    BY <1>1, <1>2, <2>1 DEF KeepsShape, ShapeInv
<1>3. CASE UNCHANGED all
  BY <1>3, KeptShape DEF all, vars, db, KeepsShape, RowStep, Kept, SameBut
<1>4. ASSUME NEW k \in Keys, NEW isDir \in BOOLEAN, RemoteMake(k, isDir) PROVE KeepsShape
  BY <1>4, MakeShape
<1>5. ASSUME NEW k \in Keys, NEW x \in Inos, RemoteLink(k, x) PROVE KeepsShape
  BY <1>5, LinkShape
<1>6. ASSUME NEW k \in Keys, KeepsLinks, RemoteUnlink(k) \/ RemoteRmdir(k) PROVE KeepsShape
  BY <1>6, UnlinkShape, RmdirShape
<1>7. ASSUME NEW x \in Inos, NEW append \in BOOLEAN, NEW o \in Sizes, NEW p \in Payloads,
             RemoteWrite(x, append, o, p)
      PROVE  KeepsShape
  BY <1>7, DataShape
<1>8. ASSUME NEW x \in Inos, LocalOnly(x) PROVE KeepsShape
  BY <1>8, DataShape
<1>9. ASSUME NEW x \in Inos, NEW n \in 1 .. MaxSize, RemoteRead(x, n) PROVE KeepsShape
  BY <1>9, DataShape
<1>10. CASE RemoteUnmount \/ Crash
  BY <1>10, EmptiedShape DEF RemoteUnmount, Crash, db
<1>11. CASE Remount
  BY <1>11, RemountShape
<1>12. 0 \in Sizes
  BY SizeAssumption DEF Sizes
<1> QED
  BY <1>3, <1>4, <1>5, <1>6, <1>7, <1>8, <1>9, <1>10, <1>11, <1>12 DEF RemoteNext

\* A new mount of a token without files.
LEMMA ShapeInit == RemoteInit => ShapeInv
<1> SUFFICES ASSUME RemoteInit PROVE ShapeInv
  OBVIOUS
<1>1. DOMAIN ent = {} /\ DOMAIN rows = {}
  BY DEF RemoteInit, Init, DB!Init
<1>2. RemoteInv
  BY RemoteInitInv
<1> QED
  BY <1>1, <1>2 DEF ShapeInv, RowTree, DirNames, DirTree, WalkIn

\* What the invariant says of the tree, in the words of the properties.
LEMMA ShapeInvImplies == ShapeInv => TreeShape /\ WalkOrder
<1> SUFFICES ASSUME ShapeInv PROVE TreeShape /\ WalkOrder
  OBVIOUS
<1>1. TreeOK(ent) /\ DirNames(ent) /\ DirTree(ent) /\ WalkIn(ent)
  BY DEF ShapeInv, RemoteInv, TreeInv
<1>2. ASSUME NEW k \in DOMAIN ent
      PROVE  IsDir(k[1]) /\ (ent[k].dir => k[1] < ent[k].ino /\ LinksOf(ent[k].ino) = {k})
  <2>1. IsDir(k[1])
    BY <1>1, IsDirIff DEF DirTree
  <2>2. ent[k].dir => LinksOf(ent[k].ino) = {k}
    BY <1>1 DEF DirNames, LinksOf
  <2> QED
    BY <1>1, <2>1, <2>2 DEF DirTree
<1>3. WalkOrder
  BY <1>1 DEF WalkIn, WalkOrder
<1> QED
  BY <1>2, <1>3 DEF TreeShape

\* Whatever requests, answers, lists and allocations are lost, the tree of a mount
\* has no entry without its directory, and no directory with two names.
THEOREM RemoteTreeShaped == LinkedSpec => []TreeShape
  BY ShapeInit, ShapeNext, ShapeInvImplies, PTL DEF LinkedSpec

\* And vtfs_iterate and the walks of the tree meet its entries depth first.
THEOREM RemoteWalk == LinkedSpec => []WalkOrder
  BY ShapeInit, ShapeNext, ShapeInvImplies, PTL DEF LinkedSpec

\* The database implements the name space.
ImplementsStored == RNS!NSInit /\ [][RNS!NSStep]_<<Stored, StoredDirs>>

\* Whatever is lost, a handler adds or removes one name of the database at most:
\* it adds none in a directory that the database does not have, and does not
\* remove that of a directory with names in it.
THEOREM StoredNameSpace == LinkedSpec => ImplementsStored
<1>1. RemoteInit => ShapeInv /\ RNS!NSInit
  <2> SUFFICES ASSUME RemoteInit PROVE ShapeInv /\ RNS!NSInit
    OBVIOUS
  <2>1. rows = <<>>
    BY DEF RemoteInit, DB!Init
  <2>2. Stored = <<>> /\ StoredDirs = {}
    BY <2>1 DEF Stored, StoredDirs, NamesOf, DirsOf
  <2> QED
    BY <2>2, ShapeInit DEF RNS!NSInit
<1>2. ShapeInv /\ [RemoteNext /\ KeepsLinks]_all
        => ShapeInv' /\ [RNS!NSStep]_<<Stored, StoredDirs>>
  <2> SUFFICES ASSUME ShapeInv, [RemoteNext /\ KeepsLinks]_all
               PROVE  ShapeInv' /\ [RNS!NSStep]_<<Stored, StoredDirs>>
    OBVIOUS
  <2>1. ShapeInv' /\ RowStep
    BY ShapeNext
  <2>2. S!Inv /\ S!Inv' /\ RowTree(rows)
    BY <2>1 DEF ShapeInv, RemoteInv
  <2> QED
    BY <2>1, <2>2, RowStepRefines
<1> QED
  BY <1>1, <1>2, PTL DEF LinkedSpec, ImplementsStored

-----------------------------------------------------------------------------
(* When requests and answers arrive, tree and database agree               *)

\* No request or answer is lost, neither on the way nor for want of memory in the
\* client, and a mount gets the memory it needs.  Files have no data, for the server refuses to
\* unlink a file with chunks, and two names at most, for it refuses a third; and
\* every list fits the answer of a list request.
Reliable ==
  /\ "lost" \notin Faults /\ "answer" \notin Faults /\ "load" \notin Faults
  /\ Payloads = {} /\ MaxLinks <= 2
  /\ IsFiniteSet(Ids) /\ ListRoom \in Nat /\ Cardinality(Ids) <= ListRoom

\* An entry and a row say the same of a name.
Matches(r, k, e) == NameOf(r) = k /\ r.ino = e.ino /\ r.dir = e.dir /\ r.nlink = e.nlink

\* Each entry has a row that says the same, and each row has an entry.
Mirrors(t, R) ==
  /\ \A k \in DOMAIN t : \E i \in DOMAIN R : Matches(R[i], k, t[k])
  /\ \A i \in DOMAIN R : NameOf(R[i]) \in DOMAIN t

\* The invariant between a mount and the database.
AgreeInv ==
  /\ ShapeInv
  /\ chunks = {}
  /\ mounted => Mirrors(ent, rows)

\* What a handler does to the agreement.
KeepsAgreement == chunks' = {} /\ (mounted' => Mirrors(ent', rows'))

\* The row of an entry, the entry of a row.
LEMMA RowOfEntry ==
  ASSUME AgreeInv, mounted
  PROVE  /\ \A k \in DOMAIN ent : \E i \in DOMAIN rows : Matches(rows[i], k, ent[k])
         /\ \A i \in DOMAIN rows : /\ NameOf(rows[i]) \in DOMAIN ent
                                   /\ Matches(rows[i], NameOf(rows[i]), ent[NameOf(rows[i])])
<1>1. Mirrors(ent, rows) /\ Apart(rows)
  BY RowsApart DEF AgreeInv, ShapeInv, RemoteInv
<1>2. ASSUME NEW i \in DOMAIN rows
      PROVE  /\ NameOf(rows[i]) \in DOMAIN ent
             /\ Matches(rows[i], NameOf(rows[i]), ent[NameOf(rows[i])])
  <2>1. NameOf(rows[i]) \in DOMAIN ent
    BY <1>1 DEF Mirrors
  <2>2. PICK j \in DOMAIN rows : Matches(rows[j], NameOf(rows[i]), ent[NameOf(rows[i])])
    BY <1>1, <2>1 DEF Mirrors
  <2>3. j = i
    BY <1>1, <2>2 DEF Apart, Matches
  <2> QED
    BY <2>1, <2>2, <2>3
<1> QED
  BY <1>1, <1>2 DEF Mirrors

\* A file that counts one name has one row.
LEMMA OneRow ==
  ASSUME S!Inv, NEW i \in DOMAIN rows, rows[i].nlink = 1
  PROVE  RowsIn(rows, rows[i].ino) = {i}
<1> DEFINE I == RowsIn(rows, rows[i].ino)
<1>1. \A j \in DOMAIN rows : rows[j].token = Token
  BY OneToken
<1>2. S!OfIn(rows, rows[i].token, rows[i].ino) = I
  BY <1>1 DEF S!OfIn, RowsIn
<1>3. S!Cardinality(I) = 1
  BY <1>2 DEF S!Inv, S!NlinkIn
<1>4. Cardinality(I) = 1
  BY <1>3 DEF S!Cardinality, Cardinality, S!IsFiniteSet, IsFiniteSet
<1>5. IsFiniteSet(DOMAIN rows)
  BY DEF S!Inv, S!IsFiniteSet, IsFiniteSet
<1>6. I \subseteq DOMAIN rows /\ i \in I
  BY DEF RowsIn
<1> HIDE DEF I
<1>7. IsFiniteSet(I)
  BY <1>5, <1>6, FS_Subset
<1>8. \E j : I = {j}
  BY <1>4, <1>7, FS_Singleton
<1>9. I = {i}
  BY <1>6, <1>8
<1> QED
  BY <1>9 DEF I

\* A file with one row counts one name.
LEMMA CountOne ==
  ASSUME S!Inv, NEW i \in DOMAIN rows, RowsIn(rows, rows[i].ino) = {i}
  PROVE  rows[i].nlink = 1
<1>1. \A j \in DOMAIN rows : rows[j].token = Token
  BY OneToken
<1>2. S!OfIn(rows, rows[i].token, rows[i].ino) = {i}
  BY <1>1 DEF S!OfIn, RowsIn
<1>3. rows[i].nlink = S!Cardinality({i})
  BY <1>2 DEF S!Inv, S!NlinkIn
<1>4. S!Cardinality({i}) = Cardinality({i})
  BY DEF S!Cardinality, Cardinality, S!IsFiniteSet, IsFiniteSet
<1> QED
  BY <1>3, <1>4, FS_Singleton
\* Nothing that the agreement speaks of changes.
LEMMA SameAgrees ==
  ASSUME AgreeInv, UNCHANGED <<rows, chunks>>, mounted' => mounted,
         DOMAIN ent' = DOMAIN ent \/ ~mounted',
         mounted' => \A k \in DOMAIN ent : /\ ent'[k].ino = ent[k].ino /\ ent'[k].dir = ent[k].dir
                                           /\ ent'[k].nlink = ent[k].nlink
  PROVE  KeepsAgreement
BY DEF AgreeInv, Mirrors, Matches, KeepsAgreement

\* vtfs_create and vtfs_mkdir
LEMMA MakeAgrees ==
  ASSUME Reliable, AgreeInv, NEW k \in Keys, NEW isDir \in BOOLEAN, RemoteMake(k, isDir)
  PROVE  KeepsAgreement
<1> DEFINE x == DB!NewIno(Token)
           e == [NewEntry(k, isDir) EXCEPT !.ino = x]
<1>1. /\ mounted /\ UNCHANGED mounted /\ k \notin DOMAIN ent /\ IsDir(k[1])
      /\ TreeInv /\ S!Inv /\ TreeOK(ent)
      /\ k[1] \in Inos \cup {RootIno} /\ k[2] \in Names /\ k = <<k[1], k[2]>>
  BY DEF RemoteMake, AgreeInv, ShapeInv, RemoteInv, TreeInv, Keys
<1>3. CASE UNCHANGED <<ent, rows, chunks>>
  BY <1>1, <1>3, SameAgrees
<1>4. CASE DB!Create(Token, k[1], k[2], isDir) /\ ent' = With(ent, k, e)
  <2>1. /\ x \in Inos /\ RowsIn(rows, x) = {}
        /\ \E i : /\ i \notin DOMAIN rows /\ DOMAIN rows' = DOMAIN rows \cup {i}
                  /\ \A j \in DOMAIN rows : rows'[j] = rows[j]
                  /\ rows'[i] = DB!NewRow(Token, k[1], k[2], isDir)
    BY <1>1, <1>4, CreateRows
  <2>2. PICK i : /\ i \notin DOMAIN rows /\ DOMAIN rows' = DOMAIN rows \cup {i}
                 /\ \A j \in DOMAIN rows : rows'[j] = rows[j]
                 /\ rows'[i] = DB!NewRow(Token, k[1], k[2], isDir)
    BY <2>1
  <2>3. rows'[i].ino = x /\ NameOf(rows'[i]) = k /\ rows'[i].dir = isDir /\ rows'[i].nlink = 1
    BY <1>1, <2>2 DEF DB!NewRow, NameOf
  <2>4. e \in Entry /\ e.ino = x /\ e.dir = isDir /\ e.nlink = 1
    <3>1. e = [ino |-> x, dir |-> isDir, nlink |-> 1, data |-> NULL, size |-> 0, at |-> Place(k[1])]
      BY DEF NewEntry
    <3> HIDE DEF e, x
    <3> QED
      BY <1>1, <2>1, <3>1, PlaceIsNat, SizeAssumption DEF Entry, Pointers, Sizes
  <2> HIDE DEF e, x
  <2>6. /\ DOMAIN With(ent, k, e) = DOMAIN ent \cup {k}
        /\ With(ent, k, e)[k] = e
        /\ \A l \in DOMAIN ent : SameBody(With(ent, k, e)[l], ent[l])
    BY <1>1, <2>4, WithIs
  <2>11. Mirrors(ent', rows')
    <3>1. Mirrors(ent, rows)
      BY <1>1 DEF AgreeInv
    <3>2. ent' = With(ent, k, e)
      BY <1>4 DEF e, x
    <3>3. Matches(rows'[i], k, ent'[k])
      BY <2>3, <2>4, <2>6, <3>2 DEF Matches
    <3>4. ASSUME NEW l \in DOMAIN ent PROVE \E j \in DOMAIN rows' : Matches(rows'[j], l, ent'[l])
      <4>1. PICK j \in DOMAIN rows : Matches(rows[j], l, ent[l])
        BY <3>1 DEF Mirrors
      <4>2. j \in DOMAIN rows' /\ rows'[j] = rows[j]
        BY <2>2
      <4>3. SameBody(ent'[l], ent[l])
        BY <2>6, <3>2
      <4> QED
        BY <4>1, <4>2, <4>3 DEF Matches, SameBody
    <3>5. \A j \in DOMAIN rows' : NameOf(rows'[j]) \in DOMAIN ent'
      BY <2>2, <2>3, <2>6, <3>1, <3>2 DEF Mirrors
    <3> QED
      BY <2>2, <2>6, <3>2, <3>3, <3>4, <3>5 DEF Mirrors
  <2>12. chunks' = {}
    BY <1>4 DEF DB!Create, AgreeInv
  <2> QED
    BY <2>11, <2>12 DEF KeepsAgreement
<1> QED
  BY <1>3, <1>4 DEF RemoteMake, Reliable, db

\* vtfs_link: a file that counts one name has one row, so that the server adds
\* another and answers the count that the tree would have taken.
LEMMA LinkAgrees ==
  ASSUME Reliable, AgreeInv, NEW k \in Keys, NEW x \in Inos, RemoteLink(k, x)
  PROVE  KeepsAgreement
<1> DEFINE f == First(x)
           e == [ent[f] EXCEPT !.at = Place(k[1])]
<1>1. /\ mounted /\ UNCHANGED mounted /\ k \notin DOMAIN ent /\ x \in RegularFiles
      /\ TreeInv /\ S!Inv /\ TreeOK(ent) /\ IsDir(k[1]) /\ ent[f].nlink < MaxLinks
      /\ k[1] \in Inos \cup {RootIno} /\ k[2] \in Names /\ k = <<k[1], k[2]>>
  BY DEF RemoteLink, AgreeInv, ShapeInv, RemoteInv, TreeInv, Keys
<1>3. /\ f \in DOMAIN ent /\ ent[f].ino = x /\ ent[f] \in Entry /\ ~ent[f].dir
      /\ e \in Entry /\ e.ino = x /\ ~e.dir
  <2>1. f \in DOMAIN ent /\ ent[f].ino = x /\ ent[f] \in Entry
    BY <1>1, FileFirst
  <2>2. ~ent[f].dir
    BY <1>1 DEF RegularFiles
  <2>3. Place(k[1]) \in Nat
    BY <1>1, PlaceIsNat
  <2> HIDE DEF f
  <2> QED
    BY <2>1, <2>2, <2>3 DEF Entry
<1>4. ent[f].nlink = 1
  <2>1. ent[f].nlink \in Nat \ {0}
    BY <1>3 DEF Entry
  <2> QED
    BY <1>1, <2>1, SizeAssumption DEF Reliable
<1> HIDE DEF f
<1>5. PICK i \in DOMAIN rows : Matches(rows[i], f, ent[f])
  BY <1>1, <1>3, RowOfEntry
<1>6. /\ RowsIn(rows, x) = {i} /\ DB!OfIno(Token, x) = {i}
      /\ rows[i].ino = x /\ rows[i].nlink = 1 /\ ~rows[i].dir
  <2>1. rows[i].ino = x /\ rows[i].nlink = 1 /\ ~rows[i].dir
    BY <1>3, <1>4, <1>5 DEF Matches
  <2> QED
    BY <1>1, <2>1, OneRow, OneToken
<1>7. HasOnly(x)
  BY <1>6 DEF HasOnly, DB!IsOnly
<1>8. ~DB!Exists(Token, k[1], k[2])
  <2>1. \A j \in DOMAIN rows : NameOf(rows[j]) # k
    BY <1>1, RowOfEntry
  <2> QED
    BY <1>1, <2>1 DEF DB!Exists, DB!InParent, NameOf
<1>9. /\ DB!Link(Token, x, k[1], k[2])
      /\ ent' = SetNlink(With(ent, k, e), x, 2)
  <2>1. /\ DB!Link(Token, x, k[1], k[2])
        /\ \E j \in DB!OfIno(Token, x) : ent' = SetNlink(With(ent, k, e), x, rows[j].nlink + 1)
    BY <1>7, <1>8 DEF RemoteLink, RequestLink, Lost, Reliable, f
  <2>2. rows[i].nlink + 1 = 2
    BY <1>6
  <2> HIDE DEF e
  <2> QED
    BY <1>6, <2>1, <2>2
<1> HIDE DEF e
<1>10. PICK m, j : RowsIn(rows, x) = {m} /\ Twinned(m, j, k[1], k[2])
  BY <1>1, <1>9, LinkRows
<1>11. m = i
  BY <1>6, <1>10
<1>12. rows[i] \in S!VtfsFile
  BY <1>1 DEF S!Inv, S!TypeIn
<1>13. /\ j \notin DOMAIN rows /\ DOMAIN rows' = DOMAIN rows \cup {j}
       /\ \A l \in DOMAIN rows \ {i} : rows'[l] = rows[l]
       /\ SameBut(rows'[i], rows[i]) /\ rows'[i].nlink = 2
       /\ rows'[j].ino = x /\ NameOf(rows'[j]) = k /\ ~rows'[j].dir /\ rows'[j].nlink = 2
       /\ rows'[j].dir = FALSE
  BY <1>1, <1>6, <1>10, <1>11, <1>12 DEF Twinned, SameBut, NameOf, S!VtfsFile
<1>16. \A l \in DOMAIN rows : rows[l].ino = x => l = i
  BY <1>6 DEF RowsIn
<1>18. /\ DOMAIN ent' = DOMAIN ent \cup {k}
       /\ ent'[k].ino = x /\ ~ent'[k].dir /\ ent'[k].nlink = 2 /\ ent'[k].dir = FALSE
       /\ \A l \in DOMAIN ent : /\ ent'[l].ino = ent[l].ino /\ ent'[l].dir = ent[l].dir
                                /\ ent'[l].nlink = IF ent[l].ino = x THEN 2 ELSE ent[l].nlink
  <2> DEFINE u == With(ent, k, e)
  <2>1. /\ TreeOK(u) /\ DOMAIN u = DOMAIN ent \cup {k} /\ u[k] = e
        /\ \A l \in DOMAIN ent : SameBody(u[l], ent[l])
    BY <1>1, <1>3, WithIs
  <2>2. ent' = SetNlink(u, x, 2)
    BY <1>9
  <2> HIDE DEF u
  <2>3. /\ DOMAIN ent' = DOMAIN u
        /\ \A l \in DOMAIN u : /\ ent'[l].ino = u[l].ino /\ ent'[l].dir = u[l].dir
                               /\ ent'[l].nlink = IF u[l].ino = x THEN 2 ELSE u[l].nlink
    BY <2>1, <2>2, SetNlinkOK
  <2>4. e.dir = FALSE
    BY <1>3 DEF Entry
  <2> QED
    BY <1>3, <2>1, <2>3, <2>4 DEF SameBody
<1>19. Mirrors(ent', rows')
  <2>1. Mirrors(ent, rows)
    BY <1>1 DEF AgreeInv
  <2>2. Matches(rows'[j], k, ent'[k])
    BY <1>13, <1>18 DEF Matches
  <2>3. ASSUME NEW l \in DOMAIN ent PROVE \E n \in DOMAIN rows' : Matches(rows'[n], l, ent'[l])
    <3>1. PICK n \in DOMAIN rows : Matches(rows[n], l, ent[l])
      BY <2>1 DEF Mirrors
    <3>2. n \in DOMAIN rows' /\ SameBut(rows'[n], rows[n])
      BY <1>13 DEF SameBut
    <3>3. rows'[n].nlink = ent'[l].nlink
      <4>1. CASE n = i
        BY <1>6, <1>13, <1>18, <3>1, <4>1 DEF Matches
      <4>2. CASE n # i
        <5>1. ent[l].ino # x
          BY <1>16, <3>1, <4>2 DEF Matches
        <5> QED
          BY <1>13, <1>18, <3>1, <4>2, <5>1 DEF Matches
      <4> QED
        BY <4>1, <4>2
    <3> QED
      BY <1>18, <3>1, <3>2, <3>3 DEF Matches, SameBut
  <2>4. \A n \in DOMAIN rows' : NameOf(rows'[n]) \in DOMAIN ent'
    BY <1>13, <1>18, <2>1 DEF Mirrors, SameBut
  <2> QED
    BY <1>13, <1>18, <2>2, <2>3, <2>4 DEF Mirrors
<1>20. chunks' = {}
  BY <1>9 DEF DB!Link, AgreeInv
<1> QED
  BY <1>19, <1>20 DEF KeepsAgreement

\* An entry that goes with its one row.
LEMMA RemovalAgrees ==
  ASSUME AgreeInv, mounted, NEW k \in DOMAIN ent,
         LinksIn(ent, ent[k].ino) = {k}, ent' = Without(ent, {k}),
         DB!Unlink(Token, ent[k].ino) \/ DB!Delete(Token, ent[k].ino)
  PROVE  KeepsAgreement
<1> DEFINE x == ent[k].ino
<1>1. TreeInv /\ S!Inv /\ TreeOK(ent) /\ chunks = {} /\ Mirrors(ent, rows)
  BY DEF AgreeInv, ShapeInv, RemoteInv, TreeInv
<1>2. PICK i \in DOMAIN rows : Matches(rows[i], k, ent[k])
  BY RowOfEntry
<1>3. \A j \in DOMAIN rows : rows[j].ino = x => j = i
  <2>1. ASSUME NEW j \in DOMAIN rows, rows[j].ino = x PROVE j = i
    <3>1. NameOf(rows[j]) \in DOMAIN ent /\ ent[NameOf(rows[j])].ino = x
      BY <2>1, RowOfEntry DEF Matches
    <3>2. NameOf(rows[j]) = k
      BY <3>1 DEF LinksIn
    <3> QED
      BY <1>1, <1>2, <3>2, RowsApart DEF Matches, Apart
  <2> QED
    BY <2>1
<1>4. /\ RowsIn(rows, x) = {i} /\ DB!OfIno(Token, x) = {i} /\ rows[i].ino = x
      /\ NameOf(rows[i]) = k
  <2>1. rows[i].ino = x /\ NameOf(rows[i]) = k
    BY <1>2 DEF Matches
  <2> QED
    BY <1>1, <1>3, <2>1, OneToken DEF RowsIn
<1>5. rows[i].nlink = 1
  BY <1>1, <1>4, CountOne
<1>6. rows' = [j \in DOMAIN rows \ {i} |-> rows[j]]
  <2>1. CASE DB!Unlink(Token, x)
    <3>1. rows' = [j \in DOMAIN rows \ {i} |->
                     IF rows[i].nlink - 1 > 0 /\ j \in DB!OfIno(Token, x)
                     THEN [rows[j] EXCEPT !.nlink = rows[i].nlink - 1] ELSE rows[j]]
      BY <1>4, <2>1 DEF DB!Unlink
    <3>2. ~(rows[i].nlink - 1 > 0)
      BY <1>5
    <3> QED
      BY <3>1, <3>2
  <2>2. CASE DB!Delete(Token, x)
    BY <1>4, <2>2 DEF DB!Delete, DB!Remove
  <2> QED
    BY <2>1, <2>2
<1>7. chunks' = {}
  BY <1>1 DEF DB!Unlink, DB!Delete, DB!ChunksOf
<1>11. /\ DOMAIN ent' = DOMAIN ent \ {k}
       /\ \A l \in DOMAIN ent \ {k} : SameBody(ent'[l], ent[l])
  BY <1>1, WithoutOK
<1>12. Mirrors(ent', rows')
  <2>1. ASSUME NEW l \in DOMAIN ent' PROVE \E j \in DOMAIN rows' : Matches(rows'[j], l, ent'[l])
    <3>1. l \in DOMAIN ent \ {k}
      BY <1>11
    <3>2. PICK j \in DOMAIN rows : Matches(rows[j], l, ent[l])
      BY <1>1, <3>1 DEF Mirrors
    <3>3. j # i
      BY <1>4, <3>1, <3>2 DEF Matches
    <3>4. j \in DOMAIN rows' /\ rows'[j] = rows[j]
      BY <1>6, <3>3
    <3> QED
      BY <1>11, <3>1, <3>2, <3>4 DEF Matches, SameBody
  <2>2. ASSUME NEW j \in DOMAIN rows' PROVE NameOf(rows'[j]) \in DOMAIN ent'
    <3>1. j \in DOMAIN rows /\ j # i /\ rows'[j] = rows[j]
      BY <1>6
    <3>2. NameOf(rows[j]) \in DOMAIN ent /\ NameOf(rows[j]) # k
      BY <1>1, <1>4, <3>1, RowsApart DEF Mirrors, Apart
    <3> QED
      BY <1>11, <3>1, <3>2
  <2> QED
    BY <2>1, <2>2 DEF Mirrors
<1> QED
  BY <1>7, <1>12 DEF KeepsAgreement

\* vtfs_unlink: the server has a row to remove, and no chunk references it.
LEMMA UnlinkAgrees ==
  ASSUME Reliable, AgreeInv, KeepsLinks, NEW k \in Keys, RemoteUnlink(k)
  PROVE  KeepsAgreement
<1> DEFINE x == ent[k].ino
           n == ent[First(x)].nlink - 1
           K == IF n = 0 THEN LinksOf(x) ELSE {k}
<1>1. /\ mounted /\ UNCHANGED mounted /\ k \in DOMAIN ent /\ ~ent[k].dir
      /\ ent' = Without(SetNlink(ent, x, n), K)
      /\ DB!Unlink(Token, x) \/ RefusesUnlink(x)
      /\ S!Inv /\ TreeOK(ent) /\ chunks = {}
  BY DEF RemoteUnlink, Unlink, RequestUnlink, Lost, Reliable, AgreeInv, ShapeInv, RemoteInv, TreeInv
<1>3. k \in K
  BY <1>1 DEF LinksOf
<1>4. DOMAIN ent' = DOMAIN ent \ K
  BY <1>1 DEF Without, SetNlink
<1>5. LinksIn(ent, x) = {k} /\ LinksOf(x) = {k}
  BY <1>1, <1>3, <1>4, LastLink
<1>6. ent' = Without(SetNlink(ent, x, n), {k})
  BY <1>1, <1>5
<1> HIDE DEF K, n
<1>7. Without(SetNlink(ent, x, n), {k}) = Without(ent, {k})
  BY <1>5, OtherNlink
<1>8. ~RefusesUnlink(x)
  <2>1. \E i \in DOMAIN rows : Matches(rows[i], k, ent[k])
    BY <1>1, RowOfEntry
  <2>2. DB!OfIno(Token, x) # {}
    BY <1>1, <2>1, OneToken DEF RowsIn, Matches
  <2> QED
    BY <1>1, <2>2 DEF RefusesUnlink
<1> QED
  BY <1>1, <1>5, <1>6, <1>7, <1>8, RemovalAgrees

\* vtfs_rmdir: a directory without entries has none in the database.
LEMMA RmdirAgrees ==
  ASSUME Reliable, AgreeInv, KeepsLinks, NEW k \in Keys, RemoteRmdir(k)
  PROVE  KeepsAgreement
<1> DEFINE x == ent[k].ino
<1>1. /\ mounted /\ UNCHANGED mounted /\ k \in DOMAIN ent /\ ent' = Without(ent, {k})
      /\ \A l \in DOMAIN ent : l[1] # x
      /\ DB!Delete(Token, x) \/ RefusesDelete(x)
      /\ S!Inv /\ TreeOK(ent)
  BY DEF RemoteRmdir, Rmdir, RequestDelete, Lost, Reliable, AgreeInv, ShapeInv, RemoteInv, TreeInv
<1>3. DOMAIN ent' = DOMAIN ent \ {k}
  BY <1>1 DEF Without
<1>4. LinksIn(ent, x) = {k}
  BY <1>1, <1>3, LastLink
<1>5. ~RefusesDelete(x)
  <2>1. \E i \in DOMAIN rows : Matches(rows[i], k, ent[k])
    BY <1>1, RowOfEntry
  <2>2. DB!OfIno(Token, x) # {}
    BY <1>1, <2>1, OneToken DEF RowsIn, Matches
  <2>3. \A j \in DOMAIN rows : rows[j].parent # x
    BY <1>1, RowOfEntry DEF NameOf
  <2>4. DB!InParent(Token, x) = {}
    BY <2>3 DEF DB!InParent
  <2> QED
    BY <2>2, <2>4 DEF RefusesDelete
<1> QED
  BY <1>1, <1>4, <1>5, RemovalAgrees

\* When its lists arrive and fit, a mount loads every row: the directory of a row
\* is the root or has a lower number than any directory that is not loaded.
LEMMA LoadsAll ==
  ASSUME Reliable, AgreeInv
  PROVE  Loadable = {DOMAIN rows} /\ Loads(DOMAIN rows) = DOMAIN rows
<1>1. S!Inv /\ RowTree(rows)
  BY DEF AgreeInv, ShapeInv, RemoteInv
<1>2. \A i \in DOMAIN rows : /\ rows[i].ino \in Inos /\ rows[i].ino \in Nat
                             /\ rows[i].parent \in Inos \cup {RootIno}
  BY <1>1, OneToken, InoAssumption DEF Inos
<1>3. DOMAIN rows \subseteq Ids
  BY <1>1 DEF S!Inv, S!TypeIn
<1>4. Listable = DB!Dirs
  <2>1. ASSUME NEW d \in DB!Dirs PROVE Cardinality(DB!InParent(Token, d)) <= ListRoom
    <3>1. DB!InParent(Token, d) \subseteq Ids
      BY <1>3 DEF DB!InParent
    <3>2. /\ Cardinality(DB!InParent(Token, d)) <= Cardinality(Ids)
          /\ IsFiniteSet(DB!InParent(Token, d))
      BY <3>1, FS_Subset DEF Reliable
    <3>3. Cardinality(DB!InParent(Token, d)) \in Nat /\ Cardinality(Ids) \in Nat
      BY <3>2, FS_CardinalityType DEF Reliable
    <3> QED
      BY <3>2, <3>3 DEF Reliable
  <2> QED
    BY <2>1 DEF Listable
<1>5. \A i \in DOMAIN rows : rows[i].parent \in Listable
  BY <1>2, <1>4 DEF DB!Dirs, DB!Inos, Inos
<1>6. ASSUME NEW I \in SUBSET DOMAIN rows,
             \A i \in DOMAIN rows :
               \/ rows[i].parent = RootIno
               \/ \E j \in I : rows[j].dir /\ rows[j].ino = rows[i].parent
               => i \in I
      PROVE  DOMAIN rows \subseteq I
  <2> DEFINE absent == {rows[i].ino : i \in {j \in DOMAIN rows : rows[j].dir /\ j \notin I}}
  <2>1. absent = {}
    <3>1. SUFFICES ASSUME absent # {} PROVE FALSE
      OBVIOUS
    <3>2. absent \subseteq Nat
      BY <1>2
    <3> HIDE DEF absent
    <3>3. PICK m \in absent : \A n \in absent : m <= n
      BY <3>1, <3>2, LeastExists
    <3>4. PICK i \in DOMAIN rows : rows[i].dir /\ i \notin I /\ rows[i].ino = m
      BY <3>3 DEF absent
    <3>5. rows[i].parent = RootIno \/ \E j \in DOMAIN rows : rows[j].dir /\ rows[j].ino = rows[i].parent
      BY <1>1 DEF RowTree
    <3>6. CASE rows[i].parent = RootIno
      BY <1>5, <1>6, <3>4, <3>6
    <3>7. CASE \E j \in DOMAIN rows : rows[j].dir /\ rows[j].ino = rows[i].parent
      <4>1. PICK j \in DOMAIN rows : rows[j].dir /\ rows[j].ino = rows[i].parent
        BY <3>7
      <4>2. rows[j].ino < m
        BY <1>1, <3>4, <4>1 DEF RowTree
      <4>3. j \in I
        <5>1. SUFFICES ASSUME j \notin I PROVE FALSE
          OBVIOUS
        <5>2. rows[j].ino \in absent
          BY <4>1, <5>1 DEF absent
        <5> QED
          BY <1>2, <3>2, <3>3, <4>2, <5>2
      <4> QED
        BY <1>5, <1>6, <3>4, <4>1, <4>3
    <3> QED
      BY <3>5, <3>6, <3>7
  <2>2. \A j \in DOMAIN rows : rows[j].dir => j \in I
    BY <2>1
  <2> QED
    BY <1>1, <1>5, <1>6, <2>2 DEF RowTree
<1>7. Loadable = {DOMAIN rows}
  BY <1>5 DEF Loadable, Reliable
<1>8. Loads(DOMAIN rows) = DOMAIN rows
  BY <1>6 DEF Loads
<1> QED
  BY <1>7, <1>8

\* A mount shows every row, once, with one link, which is what the row counts:
\* no file has two rows while no file system is mounted.
LEMMA RemountAgrees ==
  ASSUME Reliable, AgreeInv, Remount
  PROVE  KeepsAgreement
<1>1. /\ S!Inv /\ TreeInv /\ ~mounted /\ DOMAIN ent = {} /\ UNCHANGED <<rows, chunks>>
      /\ Apart(rows)
  BY RowsApart DEF Remount, AgreeInv, ShapeInv, RemoteInv, TreeInv, db
<1>3. \E I : /\ I = DOMAIN rows
             /\ DOMAIN ent' = {Key(i) : i \in I}
             /\ \A k \in DOMAIN ent' :
                  LET r == rows[CHOOSE i \in I : Key(i) = k]
                  IN ent'[k].ino = r.ino /\ ent'[k].dir = r.dir /\ ent'[k].nlink = 1
  <2>1. PICK L \in Loadable :
          LET I == Loads(L)
              K == {Key(i) : i \in I}
              RowAt(k) == rows[CHOOSE i \in I : Key(i) = k]
          IN \E place \in [K -> 1 .. Cardinality(K)] :
               ent' = [k \in K |-> [ino |-> RowAt(k).ino, dir |-> RowAt(k).dir, nlink |-> 1,
                                    data |-> NULL, size |-> RowAt(k).size, at |-> place[k]]]
    BY DEF Remount
  <2> DEFINE I == Loads(L)
             at(k) == CHOOSE i \in I : Key(i) = k
  <2>2. PICK place : ent' = [k \in {Key(i) : i \in I} |->
                               [ino |-> rows[at(k)].ino, dir |-> rows[at(k)].dir, nlink |-> 1,
                                data |-> NULL, size |-> rows[at(k)].size, at |-> place[k]]]
    BY <2>1
  <2>3. I = DOMAIN rows
    BY LoadsAll
  <2> HIDE DEF I, at
  <2>4. /\ DOMAIN ent' = {Key(i) : i \in I}
        /\ \A k \in DOMAIN ent' : /\ ent'[k].ino = rows[at(k)].ino /\ ent'[k].dir = rows[at(k)].dir
                                 /\ ent'[k].nlink = 1
    BY <2>2
  <2>5. /\ I = DOMAIN rows
        /\ DOMAIN ent' = {Key(i) : i \in I}
        /\ \A k \in DOMAIN ent' :
             LET r == rows[CHOOSE i \in I : Key(i) = k]
             IN ent'[k].ino = r.ino /\ ent'[k].dir = r.dir /\ ent'[k].nlink = 1
    BY <2>3, <2>4 DEF at
  <2> QED
    BY <2>5
<1>4. /\ DOMAIN ent' = {Key(i) : i \in DOMAIN rows}
      /\ \A k \in DOMAIN ent' :
           LET r == rows[CHOOSE i \in DOMAIN rows : Key(i) = k]
           IN ent'[k].ino = r.ino /\ ent'[k].dir = r.dir /\ ent'[k].nlink = 1
  BY <1>3
<1>5. ASSUME NEW i \in DOMAIN rows PROVE rows[i].nlink = 1
  <2>1. rows[i].ino \in Inos
    BY <1>1, OneToken
  <2>2. \A j, l \in RowsIn(rows, rows[i].ino) : j = l
    BY <1>1, <2>1 DEF AgreeInv, ShapeInv, RemoteInv, InDb, LinksIn
  <2>3. RowsIn(rows, rows[i].ino) = {i}
    BY <2>2 DEF RowsIn
  <2> QED
    BY <1>1, <2>3, CountOne
<1>6. \A i \in DOMAIN rows : Key(i) = NameOf(rows[i])
  BY DEF Key, NameOf
<1>7. ASSUME NEW k \in DOMAIN ent' PROVE \E i \in DOMAIN rows : Matches(rows[i], k, ent'[k])
  <2> DEFINE i == CHOOSE i \in DOMAIN rows : Key(i) = k
  <2>1. \E j \in DOMAIN rows : Key(j) = k
    BY <1>4
  <2>2. i \in DOMAIN rows /\ Key(i) = k
    BY <2>1
  <2>3. ent'[k].ino = rows[i].ino /\ ent'[k].dir = rows[i].dir /\ ent'[k].nlink = 1
    BY <1>4
  <2> HIDE DEF i
  <2> QED
    BY <1>5, <1>6, <2>2, <2>3 DEF Matches
<1>8. \A i \in DOMAIN rows : NameOf(rows[i]) \in DOMAIN ent'
  BY <1>4, <1>6
<1>9. Mirrors(ent', rows')
  BY <1>1, <1>7, <1>8 DEF Mirrors
<1> QED
  BY <1>1, <1>9 DEF AgreeInv, KeepsAgreement

\* A handler on data changes neither names nor the counts of names.
LEMMA DataAgrees ==
  ASSUME AgreeInv, NEW x \in RegularFiles, \E M, ptr, s : HeadStep(x, M, ptr, s),
         UNCHANGED <<mounted, rows, chunks>>
  PROVE  KeepsAgreement
<1>1. /\ DOMAIN ent' = DOMAIN ent
      /\ \A l \in DOMAIN ent : /\ ent'[l].ino = ent[l].ino /\ ent'[l].dir = ent[l].dir
                               /\ ent'[l].nlink = ent[l].nlink
  BY DEF HeadStep
<1> QED
  BY <1>1, SameAgrees

\* Every step keeps the agreement.
LEMMA AgreeNext ==
  ASSUME Reliable, AgreeInv, [RemoteNext /\ KeepsLinks]_all
  PROVE  AgreeInv' /\ RowStep
<1>1. RemoteInv /\ ShapeInv' /\ RowStep
  BY ShapeNext DEF AgreeInv, ShapeInv
<1>12. SUFFICES KeepsAgreement
  BY <1>1, <1>12 DEF AgreeInv, KeepsAgreement
<1>2. CASE UNCHANGED all
  BY <1>1, <1>2, SameAgrees DEF all, vars, db
<1>3. ASSUME NEW k \in Keys, NEW isDir \in BOOLEAN, RemoteMake(k, isDir) PROVE KeepsAgreement
  BY <1>3, MakeAgrees
<1>4. ASSUME NEW k \in Keys, NEW x \in Inos, RemoteLink(k, x) PROVE KeepsAgreement
  BY <1>4, LinkAgrees
<1>5. ASSUME NEW k \in Keys, KeepsLinks, RemoteUnlink(k) PROVE KeepsAgreement
  BY <1>5, UnlinkAgrees
<1>6. ASSUME NEW k \in Keys, KeepsLinks, RemoteRmdir(k) PROVE KeepsAgreement
  BY <1>6, RmdirAgrees
<1>7. Payloads = {}
  BY DEF Reliable
<1>8. ASSUME NEW x \in Inos, LocalOnly(x) PROVE KeepsAgreement
  <2>1. UNCHANGED <<mounted, rows, chunks>>
    BY <1>8 DEF LocalOnly, Setattr, OpenTrunc, db
  <2>2. x \in RegularFiles
    BY <1>8 DEF LocalOnly, Setattr, OpenTrunc
  <2>3. \E M, ptr, s : DataStep(x, M, ptr, s)
    BY <1>1, <1>8, <2>2, SetattrStep, OpenTruncStep DEF LocalOnly, RemoteInv, TreeInv
  <2>4. \E M, ptr, s : HeadStep(x, M, ptr, s)
    <3>1. PICK M, ptr, s : DataStep(x, M, ptr, s)
      BY <2>3
    <3>2. HeadStep(x, M, ptr, s)
      BY <3>1 DEF DataStep, HeadStep
    <3> QED
      BY <3>2
  <2> QED
    BY <1>1, <2>1, <2>2, <2>4, DataAgrees
<1>9. ASSUME NEW x \in Inos, NEW n \in 1 .. MaxSize, RemoteRead(x, n) PROVE KeepsAgreement
  <2>1. x \in RegularFiles /\ UNCHANGED <<mounted, rows, chunks>>
    BY <1>9 DEF RemoteRead, db
  <2>2. \E b, s : ent' = [ent EXCEPT ![First(x)] = [@ EXCEPT !.data = b, !.size = s]]
    BY <1>9 DEF RemoteRead
  <2>3. /\ DOMAIN ent' = DOMAIN ent
        /\ \A l \in DOMAIN ent : /\ ent'[l].ino = ent[l].ino /\ ent'[l].dir = ent[l].dir
                                 /\ ent'[l].nlink = ent[l].nlink
    <3>1. PICK b, s : ent' = [ent EXCEPT ![First(x)] = [@ EXCEPT !.data = b, !.size = s]]
      BY <2>2
    <3>2. \A l \in DOMAIN ent : ent[l] \in Entry
      BY <1>1 DEF RemoteInv, TreeInv, TreeOK
    <3> QED
      BY <3>1, <3>2 DEF Entry
  <2> QED
    BY <1>1, <2>1, <2>3, SameAgrees
<1>10. CASE RemoteUnmount \/ Crash
  BY <1>1, <1>10, SameAgrees DEF RemoteUnmount, Crash, db
<1>11. ASSUME Remount PROVE KeepsAgreement
  BY <1>11, RemountAgrees
<1> QED
  BY <1>2, <1>3, <1>4, <1>5, <1>6, <1>7, <1>8, <1>9, <1>10, <1>11 DEF RemoteNext

\* A new mount of a token without files agrees with the empty table.
LEMMA AgreeInit ==
  ASSUME RemoteInit
  PROVE  AgreeInv
<1>1. ent = <<>> /\ rows = <<>> /\ chunks = {}
  BY DEF RemoteInit, Init, DB!Init
<1>2. ShapeInv
  BY ShapeInit
<1> QED
  BY <1>1, <1>2 DEF AgreeInv, Mirrors

\* The two tables of names are one.
LEMMA AgreeInvImplies ==
  ASSUME AgreeInv
  PROVE  Agree
<1>1. Apart(rows) /\ TreeOK(ent)
  BY RowsApart DEF AgreeInv, ShapeInv, RemoteInv, TreeInv
<1>2. ASSUME mounted, NEW k \in DOMAIN ent
      PROVE  \E i \in DOMAIN rows :
               <<k, ent[k].ino, ent[k].dir, ent[k].nlink>>
                 = <<Key(i), rows[i].ino, rows[i].dir, rows[i].nlink>>
  BY <1>2, RowOfEntry DEF Matches, Key, NameOf
<1>3. ASSUME mounted, NEW i \in DOMAIN rows
      PROVE  \E k \in DOMAIN ent :
               <<k, ent[k].ino, ent[k].dir, ent[k].nlink>>
                 = <<Key(i), rows[i].ino, rows[i].dir, rows[i].nlink>>
  BY <1>3, RowOfEntry DEF Matches, Key, NameOf
<1>4. ASSUME mounted
      PROVE  {<<k, ent[k].ino, ent[k].dir, ent[k].nlink>> : k \in DOMAIN ent}
               = {<<Key(i), rows[i].ino, rows[i].dir, rows[i].nlink>> : i \in DOMAIN rows}
  BY <1>2, <1>3, <1>4
<1> QED
  BY <1>4 DEF Agree

\* What a program sees, or the next mount will show it, is in the rows.
SeenInRows == Seen = NamesOf(rows) /\ SeenDirs = DirsOf(rows)

\* The agreement says so, before a step and after it.
LEMMA SeenIsRows == AgreeInv => SeenInRows
<1> SUFFICES ASSUME AgreeInv PROVE Seen = NamesOf(rows) /\ SeenDirs = DirsOf(rows)
  BY DEF SeenInRows
<1>1. CASE ~mounted
  BY <1>1 DEF Seen, SeenDirs, NamesOf, DirsOf, Key, NameOf
<1>2. CASE mounted
  <2>1. Apart(rows)
    BY RowsApart DEF AgreeInv, ShapeInv, RemoteInv
  <2> DEFINE N == NamesOf(rows)
  <2>2. /\ \A i \in DOMAIN rows : NameOf(rows[i]) \in DOMAIN N /\ N[NameOf(rows[i])] = rows[i].ino
        /\ \A k \in DOMAIN N : \E i \in DOMAIN rows : NameOf(rows[i]) = k
    BY <2>1, NamesAre
  <2>3. N = [k \in DOMAIN N |-> N[k]]
    BY DEF NamesOf
  <2> HIDE DEF N
  <2>4. \A k \in DOMAIN ent : k \in DOMAIN N /\ N[k] = ent[k].ino
    BY <1>2, <2>2, RowOfEntry DEF Matches
  <2>5. \A k \in DOMAIN N : k \in DOMAIN ent
    BY <1>2, <2>2, RowOfEntry
  <2>6. N = [k \in DOMAIN ent |-> ent[k].ino]
    BY <2>3, <2>4, <2>5
  <2>7. ASSUME NEW d PROVE d \in SeenDirs <=> d \in DirsOf(rows)
    <3>1. d \in SeenDirs <=> \E k \in DOMAIN ent : ent[k].dir /\ ent[k].ino = d
      BY <1>2 DEF SeenDirs
    <3>2. d \in DirsOf(rows) <=> \E i \in DOMAIN rows : rows[i].dir /\ rows[i].ino = d
      BY DEF DirsOf
    <3> QED
      BY <1>2, <3>1, <3>2, RowOfEntry DEF Matches
  <2> QED
    BY <1>2, <2>6, <2>7 DEF Seen, N
<1> QED
  BY <1>1, <1>2

\* The same of tree and rows after a step.
LEMMA SeenIsRowsNext == AgreeInv' => SeenInRows'
BY SeenIsRows, PTL

\* A step of the names that are stored is one of the names that are seen.
LEMMA SeenStep ==
  ASSUME AgreeInv, AgreeInv', RNS!NSStep \/ UNCHANGED <<Stored, StoredDirs>>
  PROVE  [DNS!NSStep]_<<Seen, SeenDirs>>
<1>1. Seen = Stored /\ SeenDirs = StoredDirs /\ Seen' = Stored' /\ SeenDirs' = StoredDirs'
  BY SeenIsRows, SeenIsRowsNext DEF SeenInRows, Stored, StoredDirs
<1>2. DNS!Used = RNS!Used /\ \A k, x : RNS!Bind(k, x) => DNS!Bind(k, x)
  BY <1>1 DEF DNS!Used, RNS!Used, DNS!Bind, RNS!Bind
<1>3. ASSUME NEW k, NEW x, NEW isDir, RNS!NSMake(k, x, isDir) PROVE DNS!NSMake(k, x, isDir)
  BY <1>1, <1>2, <1>3 DEF RNS!NSMake, DNS!NSMake
<1>4. ASSUME NEW k, NEW x, RNS!NSLink(k, x) PROVE DNS!NSLink(k, x)
  BY <1>1, <1>2, <1>4 DEF RNS!NSLink, DNS!NSLink
<1>5. ASSUME NEW k, RNS!NSRemove(k) PROVE DNS!NSRemove(k)
  BY <1>1, <1>5 DEF RNS!NSRemove, DNS!NSRemove
<1>6. CASE RNS!NSStep
  BY <1>3, <1>4, <1>5, <1>6 DEF RNS!NSStep, DNS!NSStep
<1> QED
  BY <1>1, <1>6

\* Tree and database agree on every name, number and link count while a file
\* system is mounted, however often it is mounted.
THEOREM TreesAgree == ASSUME Reliable PROVE LinkedSpec => []Agree
<1>1. RemoteInit => AgreeInv
  BY AgreeInit
<1>2. AgreeInv /\ [RemoteNext /\ KeepsLinks]_all => AgreeInv'
  BY AgreeNext
<1>3. AgreeInv => Agree
  BY AgreeInvImplies
<1> QED
  BY <1>1, <1>2, <1>3, PTL DEF LinkedSpec

\* Mounting, unmounting and crashes neither add nor take a name, and handlers one
\* at most: server mode implements the name space that lasts.
THEOREM MountsLast == ASSUME Reliable PROVE LinkedSpec => ImplementsDurable
<1>1. RemoteInit => AgreeInv /\ DNS!NSInit
  <2>1. ASSUME RemoteInit PROVE AgreeInv /\ DNS!NSInit
    <3>1. mounted /\ ent = <<>>
      BY <2>1 DEF RemoteInit, Init
    <3>2. Seen = <<>> /\ SeenDirs = {}
      BY <3>1 DEF Seen, SeenDirs
    <3> QED
      BY <2>1, <3>2, AgreeInit DEF DNS!NSInit
  <2> QED
    BY <2>1
<1>2. AgreeInv /\ [RemoteNext /\ KeepsLinks]_all => AgreeInv' /\ [DNS!NSStep]_<<Seen, SeenDirs>>
  <2> SUFFICES ASSUME AgreeInv, [RemoteNext /\ KeepsLinks]_all
               PROVE  AgreeInv' /\ [DNS!NSStep]_<<Seen, SeenDirs>>
    OBVIOUS
  <2>1. AgreeInv' /\ RowStep
    BY AgreeNext
  <2>2. [RNS!NSStep]_<<Stored, StoredDirs>>
    BY <2>1, RowStepRefines DEF AgreeInv, ShapeInv, RemoteInv
  <2> QED
    BY <2>1, <2>2, SeenStep
<1> QED
  BY <1>1, <1>2, PTL DEF LinkedSpec, ImplementsDurable

-----------------------------------------------------------------------------
(* Bytes that nobody wrote: an entry that has none gets none, from krealloc,   *)
(* from a write or from the server.                                        *)

\* Junk stands for what nobody wrote: no zero, and no byte of a program's.
JunkApart == Junk # Nul /\ Junk \notin Bytes

\* What the content of an entry says of its buffer.
CleanEntry(e, m) == e.data \in DOMAIN m => \A i \in 1 .. e.size : m[e.data][i] # Junk

\* The same of the file of the entry, before and after a step.
LEMMA CleanCells ==
  ASSUME NEW e, NEW m, NEW s,
         s = IF e.data \in DOMAIN m THEN [i \in 1 .. e.size |-> m[e.data][i]] ELSE <<>>
  PROVE  Clean(s) <=> CleanEntry(e, m)
<1>1. CASE e.data \in DOMAIN m
  <2> DEFINE n == e.size
             b == m[e.data]
  <2>1. s = [i \in 1 .. n |-> b[i]] /\ (CleanEntry(e, m) <=> \A i \in 1 .. n : b[i] # Junk)
    BY <1>1 DEF CleanEntry
  <2> HIDE DEF n, b
  <2>2. DOMAIN s = 1 .. n /\ \A i \in 1 .. n : s[i] = b[i]
    BY <2>1
  <2> QED
    BY <2>1, <2>2 DEF Clean
<1>2. CASE e.data \notin DOMAIN m
  <2>1. DOMAIN s = {}
    BY <1>2
  <2> QED
    BY <1>2, <2>1 DEF Clean, CleanEntry
<1> QED
  BY <1>1, <1>2

LEMMA CleanIs ==
  ASSUME NEW x
  PROVE  /\ Clean(Content(x)) <=> CleanEntry(ent[First(x)], mem)
         /\ Clean(Content(x)') <=> CleanEntry(ent'[First(x)'], mem')
<1>1. Content(x) = IF ent[First(x)].data \in DOMAIN mem
                   THEN [i \in 1 .. ent[First(x)].size |-> mem[ent[First(x)].data][i]] ELSE <<>>
  BY DEF Content
<1>2. Content(x)' = IF ent'[First(x)'].data \in DOMAIN mem'
                    THEN [i \in 1 .. ent'[First(x)'].size |-> mem'[ent'[First(x)'].data][i]] ELSE <<>>
  BY DEF Content
<1>3. Clean(Content(x)) <=> CleanEntry(ent[First(x)], mem)
  BY <1>1, CleanCells
<1>4. Clean(Content(x)') <=> CleanEntry(ent'[First(x)'], mem')
  BY <1>2, CleanCells
<1> QED
  BY <1>3, <1>4

\* Payloads and zeros have no such byte.
LEMMA PayloadClean ==
  ASSUME JunkApart, NEW p \in Payloads
  PROVE  p \in Seq(Cells) /\ \A i \in 1 .. Len(p) : p[i] # Junk
<1>1. p \in Seq(Cells)
  BY HeapAssumption
<1>2. ASSUME NEW i \in 1 .. Len(p) PROVE p[i] \in Bytes
  <2>1. p[i] \in {p[j] : j \in DOMAIN p}
    BY <1>1
  <2> QED
    BY <2>1, Zenon DEF Bytes
<1> QED
  BY <1>1, <1>2 DEF JunkApart

LEMMA ZerosClean ==
  ASSUME JunkApart, NEW n \in Nat
  PROVE  Zeros(n) \in Seq(Cells) /\ Len(Zeros(n)) = n /\ \A i \in 1 .. n : Zeros(n)[i] # Junk
<1>1. Zeros(n) \in Seq(Cells)
  BY ZerosOK
<1> QED
  BY <1>1 DEF Zeros, JunkApart

\* A copy into a buffer brings none that its bytes do not have.
LEMMA PokedClean ==
  ASSUME NEW m, HeapOK(m), NEW b \in DOMAIN m, NEW off \in Nat, NEW s \in Seq(Cells),
         \A j \in 1 .. Len(s) : s[j] # Junk,
         NEW i \in 1 .. Len(m[b]), i - off \in 1 .. Len(s) \/ m[b][i] # Junk
  PROVE  Poke(m, b, off, s)[b][i] # Junk
<1>1. Poke(m, b, off, s)[b][i] = IF i - off \in 1 .. Len(s) THEN s[i - off] ELSE m[b][i]
  BY DEF Poke
<1> QED
  BY <1>1

\* krealloc to n bytes and the memset from the old size up to c: the bytes up to
\* the old size, and those up to c, are none of them.
LEMMA GrownClean ==
  ASSUME JunkApart, HeapOK(mem), NEW e \in Entry, Fits(e, mem), CleanEntry(e, mem),
         e.data # NULL \/ e.size = 0,
         NEW n \in Sizes, NEW c \in 0 .. n, NEW r \in Krealloc(e.data, n), NEW gap \in Nat,
         gap = IF c > e.size THEN c - e.size ELSE 0, NEW i \in 1 .. n
  PROVE  LET z == Poke(r.mem, r.ptr, e.size, Zeros(gap)) IN
         /\ HeapOK(z) /\ r.ptr \in DOMAIN z /\ i \in 1 .. Len(z[r.ptr])
         /\ i <= e.size \/ i <= c => z[r.ptr][i] # Junk
<1> DEFINE z == Poke(r.mem, r.ptr, e.size, Zeros(gap))
<1>1. e.size \in Nat /\ e.data \in Pointers /\ n \in Nat /\ n > 0
  BY DEF Entry, Sizes
<1>2. /\ HeapOK(r.mem) /\ r.ptr \in DOMAIN r.mem /\ n <= Len(r.mem[r.ptr])
      /\ Len(r.mem[r.ptr]) \in Nat
  <2>1. /\ HeapOK(r.mem)
        /\ r.ptr \in Buffers => r.ptr \in DOMAIN r.mem /\ n <= Len(r.mem[r.ptr])
        /\ r.ptr \notin Buffers => n = 0
    BY <1>1, KreallocOK
  <2> QED
    BY <1>1, <2>1 DEF HeapOK
<1>3. Zeros(gap) \in Seq(Cells) /\ Len(Zeros(gap)) = gap /\ \A j \in 1 .. gap : Zeros(gap)[j] # Junk
  BY ZerosClean
<1>4. i \in 1 .. Len(r.mem[r.ptr])
  BY <1>1, <1>2
<1>5. HeapOK(z) /\ r.ptr \in DOMAIN z /\ i \in 1 .. Len(z[r.ptr])
  <2> DEFINE w == Zeros(gap)
             u == Poke(r.mem, r.ptr, e.size, w)
  <2>1. w \in Seq(Cells)
    BY <1>3
  <2> HIDE DEF w
  <2>2. HeapOK(u) /\ DOMAIN u = DOMAIN r.mem /\ Len(u[r.ptr]) = Len(r.mem[r.ptr])
    BY <1>1, <1>2, <2>1, PokeOK
  <2>3. z = u
    BY DEF w
  <2> HIDE DEF u, z
  <2> QED
    BY <1>2, <1>4, <2>2, <2>3
<1>6. ASSUME NEW w \in Seq(Cells), \A j \in 1 .. Len(w) : w[j] # Junk,
             i - e.size \in 1 .. Len(w) \/ r.mem[r.ptr][i] # Junk
      PROVE  Poke(r.mem, r.ptr, e.size, w)[r.ptr][i] # Junk
  BY <1>1, <1>2, <1>4, <1>6, PokedClean
<1>7. ASSUME i <= e.size \/ i <= c PROVE i - e.size \in 1 .. gap \/ r.mem[r.ptr][i] # Junk
  <2>1. CASE i <= e.size
    <3>1. e.data \in DOMAIN mem /\ e.size <= Len(mem[e.data]) /\ Len(mem[e.data]) \in Nat
      <4>1. e.size > 0 /\ e.data # NULL
        BY <1>1, <2>1
      <4>2. e.size <= IF e.data \in DOMAIN mem THEN Len(mem[e.data]) ELSE 0
        BY <4>1 DEF Fits
      <4>3. e.data \in DOMAIN mem /\ e.size <= Len(mem[e.data])
        BY <1>1, <4>1, <4>2
      <4> QED
        BY <4>3 DEF HeapOK
    <3>2. r.mem[r.ptr][i] = mem[e.data][i]
      BY <1>1, <2>1, <3>1, Realloced
    <3>3. mem[e.data][i] # Junk
      BY <1>1, <2>1, <3>1 DEF CleanEntry
    <3> QED
      BY <3>2, <3>3
  <2>2. CASE ~(i <= e.size)
    BY <1>1, <1>7, <2>2
  <2> QED
    BY <2>1, <2>2
<1>8. i <= e.size \/ i <= c => z[r.ptr][i] # Junk
  BY <1>3, <1>6, <1>7
<1> QED
  BY <1>5, <1>8

\* A regular file with one name: its first entry is the only one.
LEMMA SoleEntry ==
  ASSUME TreeInv, NEW x \in RegularFiles, First(x) \in Single
  PROVE  /\ First(x) \in DOMAIN ent /\ ent[First(x)] \in Entry /\ ent[First(x)].ino = x
         /\ \A l \in DOMAIN ent : ent[l].ino = x => l = First(x)
         /\ IsHead(ent, First(x)) /\ Fits(ent[First(x)], mem)
<1>1. /\ TreeOK(ent) /\ First(x) \in DOMAIN ent /\ ent[First(x)] \in Entry /\ ent[First(x)].ino = x
  BY FileFirst DEF TreeInv
<1>2. \A l \in DOMAIN ent : ent[l].ino = x => l = First(x)
  BY <1>1 DEF Single, LinksOf
<1>3. IsHead(ent, First(x))
  BY <1>1, FirstIsHead DEF TreeInv
<1> QED
  BY <1>1, <1>2, <1>3 DEF TreeInv, HeadsFit

\* It stays so when no entry comes, goes or changes its number.
LEMMA SoleStays ==
  ASSUME TreeInv, TreeOK(ent'), NEW x \in RegularFiles, First(x) \in Single,
         DOMAIN ent' = DOMAIN ent, \A l \in DOMAIN ent : ent'[l].ino = ent[l].ino
  PROVE  First(x)' = First(x)
<1>1. /\ First(x) \in DOMAIN ent /\ ent[First(x)].ino = x
      /\ \A l \in DOMAIN ent : ent[l].ino = x => l = First(x)
  BY SoleEntry
<1>2. LinksOf(x)' # {}
  BY <1>1 DEF LinksOf
<1>3. First(x)' \in LinksOf(x)'
  BY <1>2, FirstIsALinkNext
<1>4. LinksOf(x)' = {l \in DOMAIN ent' : ent'[l].ino = x}
  BY DEF LinksOf
<1> HIDE DEF First, LinksOf
<1>5. First(x)' \in DOMAIN ent' /\ ent'[First(x)'].ino = x
  BY <1>3, <1>4
<1> QED
  BY <1>1, <1>5

\* A step that gives entries that it adds their file's data, or none, and buffers
\* no other content.
LEMMA NamesClean ==
  ASSUME NEW x, CleanEntry(ent[First(x)], mem), NEW g,
         \/ ent'[g].data = NULL
         \/ ent'[g].data = ent[First(x)].data /\ ent'[g].size = ent[First(x)].size,
         HeapOK(mem'), \A b \in DOMAIN mem' : b \in DOMAIN mem /\ mem'[b] = mem[b]
  PROVE  CleanEntry(ent'[g], mem')
<1>1. CASE ent'[g].data = NULL
  BY <1>1, HeapAssumption DEF HeapOK, CleanEntry
<1>2. CASE ent'[g].data = ent[First(x)].data /\ ent'[g].size = ent[First(x)].size
  BY <1>2 DEF CleanEntry
<1> QED
  BY <1>1, <1>2

\* A step on the data of another file.
LEMMA OtherClean ==
  ASSUME TreeInv, NEW x \in RegularFiles, First(x) \in Single, CleanEntry(ent[First(x)], mem),
         NEW y \in RegularFiles, y # x, NEW M, NEW ptr, NEW s, HeadStep(y, M, ptr, s),
         \A b \in DOMAIN mem \ {ent[First(y)].data} : mem'[b] = mem[b]
  PROVE  CleanEntry(ent'[First(x)'], mem')
<1>1. /\ First(x) \in DOMAIN ent /\ ent[First(x)].ino = x
      /\ IsHead(ent, First(x)) /\ Fits(ent[First(x)], mem)
  BY SoleEntry
<1>2. First(y) \in DOMAIN ent /\ ent[First(y)].ino = y /\ IsHead(ent, First(y))
  <2>1. First(y) \in DOMAIN ent /\ ent[First(y)].ino = y
    BY FileFirst DEF TreeInv
  <2> QED
    BY <2>1, FirstIsHead DEF TreeInv
<1>3. /\ TreeOK(ent') /\ HeapOK(mem') /\ M \subseteq LinksOf(y) /\ DOMAIN ent' = DOMAIN ent
      /\ \A l \in DOMAIN ent : ent'[l].ino = ent[l].ino
      /\ \A l \in DOMAIN ent \ M : ent'[l].data = ent[l].data /\ ent'[l].size = ent[l].size
  BY DEF HeadStep
<1>4. First(x)' = First(x)
  BY <1>3, SoleStays
<1>5. \E f \in DOMAIN ent, g \in DOMAIN ent :
        /\ f = First(x) /\ g = First(y)
        /\ ent[f].ino = x /\ IsHead(ent, f) /\ Fits(ent[f], mem) /\ CleanEntry(ent[f], mem)
        /\ ent[g].ino = y /\ IsHead(ent, g)
  BY <1>1, <1>2
<1>6. PICK f \in DOMAIN ent, g \in DOMAIN ent :
        /\ f = First(x) /\ g = First(y)
        /\ ent[f].ino = x /\ IsHead(ent, f) /\ Fits(ent[f], mem) /\ CleanEntry(ent[f], mem)
        /\ ent[g].ino = y /\ IsHead(ent, g)
  BY <1>5
<1>7. f \notin M
  BY <1>3, <1>6 DEF LinksOf
<1>8. ent'[f].data = ent[f].data /\ ent'[f].size = ent[f].size
  BY <1>3, <1>6, <1>7
<1>9. ASSUME ent[f].data \in DOMAIN mem'
      PROVE  ent[f].data \in DOMAIN mem /\ mem'[ent[f].data] = mem[ent[f].data]
  <2>1. ent[f].data \in Buffers
    BY <1>3, <1>9 DEF HeapOK
  <2>2. ent[f].data \in DOMAIN mem /\ ent[f].data # ent[g].data
    BY <1>6, <2>1 DEF Fits, TreeInv, HeadsApart
  <2> QED
    BY <1>6, <2>2
<1> QED
  BY <1>4, <1>6, <1>8, <1>9 DEF CleanEntry

\* vtfs_write: the bytes it keeps, the zeros before the offset and its own, if
\* they are copied.
LEMMA WriteClean ==
  ASSUME JunkApart, TreeInv, NEW x \in RegularFiles, First(x) \in Single,
         CleanEntry(ent[First(x)], mem), ent[First(x)].data # NULL \/ ent[First(x)].size = 0,
         NEW append \in BOOLEAN, NEW o \in Sizes, NEW p \in Payloads,
         NEW copied \in BOOLEAN, WriteFile(x, append, o, p, copied)
  PROVE  LET off == IF append THEN ent[First(x)].size ELSE o
             e   == ent'[First(x)]
         IN \A i \in 1 .. e.size :
              e.data \in DOMAIN mem' /\ (copied \/ i <= off \/ i <= ent[First(x)].size)
                => mem'[e.data][i] # Junk
<1> DEFINE f   == First(x)
           old == ent[f].data
           sz  == ent[f].size
           off == IF append THEN sz ELSE o
           n   == off + Len(p)
           grow == n > sz \/ old = NULL
           gap == IF grow /\ off > sz THEN off - sz ELSE 0
           z(r) == Poke(r.mem, r.ptr, sz, Zeros(gap))
<1>1. PICK r \in IF grow THEN Krealloc(old, n) ELSE {[ptr |-> old, mem |-> mem]} :
         /\ ent' = IF ~grow THEN ent
                   ELSE IF old # NULL /\ old # r.ptr
                        THEN UpdateDataAll(ent, x, old, r.ptr, n)
                        ELSE UpdateOne(ent, f, r.ptr, n)
         /\ mem' = IF copied THEN Poke(z(r), r.ptr, off, p) ELSE z(r)
  BY Zenon DEF WriteFile
<1>2. /\ HeapOK(mem) /\ TreeOK(ent) /\ f \in DOMAIN ent /\ ent[f] \in Entry
      /\ old \in Pointers /\ sz \in Nat /\ sz \in Sizes
  BY FileFirst DEF TreeInv, Entry
<1>3. Fits(ent[f], mem)
  BY SoleEntry
<1> HIDE DEF f
<1>4. n <= MaxSize /\ p \in Seq(Cells) /\ Len(p) \in Nat
  BY HeapAssumption DEF WriteFile, f
<1>5. off \in Nat /\ n \in Sizes /\ n \in Nat /\ off \in 0 .. n
  BY <1>2, <1>4, SizeAssumption DEF Sizes
<1>6. \A i \in 1 .. Len(p) : p[i] # Junk
  BY PayloadClean
<1> DEFINE new == IF grow THEN n ELSE sz
<1>7. ent'[f].data = r.ptr /\ ent'[f].size = new
  <2>1. CASE grow
    <3>1. r \in Krealloc(old, n)
      BY <1>1, <2>1
    <3>2. r.ptr \in Pointers
      BY <1>2, <1>5, <3>1, KreallocOK
    <3>3. \/ ent' = UpdateDataAll(ent, x, old, r.ptr, n)
          \/ ent' = UpdateOne(ent, f, r.ptr, n)
      BY <1>1, <2>1
    <3> HIDE DEF n
    <3>4. ent'[f].data = r.ptr /\ ent'[f].size = n
      BY <1>2, <1>5, <3>2, <3>3, FirstUpdated DEF f
    <3> QED
      BY <2>1, <3>4
  <2>2. CASE ~grow
    BY <1>1, <2>2
  <2> QED
    BY <2>1, <2>2
<1>8. ASSUME r.ptr \in DOMAIN mem', NEW i \in 1 .. new
      PROVE  /\ HeapOK(z(r)) /\ r.ptr \in DOMAIN z(r) /\ i \in 1 .. Len(z(r)[r.ptr])
             /\ i - off \in 1 .. Len(p) \/ z(r)[r.ptr][i] # Junk
             /\ i <= sz \/ i <= off => z(r)[r.ptr][i] # Junk
  <2>1. CASE grow
    <3>1. r \in Krealloc(old, n) /\ i \in 1 .. n
      BY <1>1, <1>8, <2>1
    <3>2. gap \in Nat /\ gap = IF off > sz THEN off - sz ELSE 0
      BY <1>2, <1>5, <2>1
    <3>3. CleanEntry(ent[f], mem) /\ (old # NULL \/ sz = 0)
      BY DEF f
    <3> HIDE DEF gap, off
    <3>4. i - off \in 1 .. Len(p) \/ i <= off
      BY <1>4, <1>5, <3>1
    <3> HIDE DEF n
    <3>5. /\ HeapOK(z(r)) /\ r.ptr \in DOMAIN z(r) /\ i \in 1 .. Len(z(r)[r.ptr])
          /\ i <= sz \/ i <= off => z(r)[r.ptr][i] # Junk
      BY <1>2, <1>3, <1>5, <3>1, <3>2, <3>3, GrownClean
    <3> QED
      BY <3>4, <3>5
  <2>2. CASE ~grow
    <3>1. r.ptr = old /\ r.mem = mem /\ gap = 0 /\ i \in 1 .. sz
      BY <1>1, <1>8, <2>2
    <3>2. Zeros(0) \in Seq(Cells) /\ Len(Zeros(0)) = 0 /\ \A j \in 1 .. Len(Zeros(0)) : Zeros(0)[j] # Junk
      BY ZerosClean
    <3>3. z(r) = Poke(mem, old, sz, Zeros(0))
      BY <3>1
    <3> HIDE DEF z
    <3>4. HeapOK(z(r)) /\ DOMAIN z(r) = DOMAIN mem
      BY <1>2, <3>2, <3>3, PokeOK
    <3>5. old \in DOMAIN mem
      <4>1. mem' = IF copied THEN Poke(z(r), old, off, p) ELSE z(r)
        BY <1>1, <3>1
      <4> QED
        BY <1>8, <3>1, <3>4, <4>1 DEF Poke
    <3>6. sz <= Len(mem[old]) /\ Len(mem[old]) \in Nat /\ i \in 1 .. Len(mem[old])
      <4>1. old # NULL
        BY <1>2, <3>5, HeapAssumption DEF HeapOK
      <4>2. sz <= Len(mem[old]) /\ Len(mem[old]) \in Nat
        BY <1>2, <1>3, <3>5, <4>1 DEF Fits, HeapOK
      <4> QED
        BY <1>2, <3>1, <4>2
    <3>7. mem[old][i] # Junk
      BY <3>1, <3>5 DEF CleanEntry, f
    <3>8. Len(z(r)[old]) = Len(mem[old])
      BY <1>2, <3>2, <3>3, <3>5, PokeOK
    <3>9. z(r)[old][i] # Junk
      BY <1>2, <3>2, <3>3, <3>5, <3>6, <3>7, PokedClean
    <3> QED
      BY <3>1, <3>4, <3>5, <3>6, <3>8, <3>9
  <2> QED
    BY <2>1, <2>2
<1>9. ASSUME r.ptr \in DOMAIN mem', NEW i \in 1 .. new, copied \/ i <= off \/ i <= sz
      PROVE  mem'[r.ptr][i] # Junk
  <2>1. /\ HeapOK(z(r)) /\ r.ptr \in DOMAIN z(r) /\ i \in 1 .. Len(z(r)[r.ptr])
        /\ i - off \in 1 .. Len(p) \/ z(r)[r.ptr][i] # Junk
        /\ i <= sz \/ i <= off => z(r)[r.ptr][i] # Junk
    BY <1>8, <1>9
  <2>2. mem' = IF copied THEN Poke(z(r), r.ptr, off, p) ELSE z(r)
    BY <1>1
  <2>3. CASE copied
    <3> HIDE DEF z, off
    <3>1. Poke(z(r), r.ptr, off, p)[r.ptr][i] # Junk
      BY <1>4, <1>5, <1>6, <2>1, PokedClean
    <3> QED
      BY <2>2, <2>3, <3>1
  <2>4. CASE ~copied
    <3> HIDE DEF z, off
    <3> QED
      BY <1>9, <2>1, <2>2, <2>4
  <2> QED
    BY <2>3, <2>4
<1> HIDE DEF new
<1>10. \A i \in 1 .. ent'[f].size :
         ent'[f].data \in DOMAIN mem' /\ (copied \/ i <= off \/ i <= sz) => mem'[ent'[f].data][i] # Junk
  BY <1>7, <1>9
<1> QED
  BY <1>10 DEF f

\* vtfs_setattr: the bytes it keeps, and zeros after them.
LEMMA SetattrClean ==
  ASSUME JunkApart, TreeInv, NEW x \in RegularFiles, First(x) \in Single,
         CleanEntry(ent[First(x)], mem), ent[First(x)].data # NULL \/ ent[First(x)].size = 0,
         NEW n \in Sizes, Setattr(x, n)
  PROVE  CleanEntry(ent'[First(x)], mem')
<1> DEFINE f   == First(x)
           old == ent[f].data
           sz  == ent[f].size
           gap == IF n > sz THEN n - sz ELSE 0
<1>1. PICK r \in Krealloc(old, n) :
         /\ mem' = Poke(r.mem, r.ptr, sz, Zeros(gap))
         /\ ent' = IF old # r.ptr THEN UpdateDataAll(ent, x, old, r.ptr, n)
                   ELSE UpdateOne(ent, f, r.ptr, n)
  BY Zenon DEF Setattr
<1>2. /\ HeapOK(mem) /\ TreeOK(ent) /\ f \in DOMAIN ent /\ ent[f] \in Entry
      /\ old \in Pointers /\ sz \in Nat
  BY FileFirst DEF TreeInv
<1>3. Fits(ent[f], mem) /\ CleanEntry(ent[f], mem) /\ (old # NULL \/ sz = 0)
  BY SoleEntry
<1>4. r.ptr \in Pointers /\ n \in Nat
  BY <1>1, <1>2, KreallocOK DEF Sizes
<1>5. ent'[f].data = r.ptr /\ ent'[f].size = n
  BY <1>1, <1>2, <1>4, FirstUpdated
<1> HIDE DEF f
<1>6. gap \in Nat /\ n \in 0 .. n
  BY <1>2, <1>4
<1>7. \A i \in 1 .. n : mem'[r.ptr][i] # Junk
  <2> TAKE i \in 1 .. n
  <2>1. gap = IF n > sz THEN n - sz ELSE 0
    OBVIOUS
  <2> HIDE DEF gap
  <2>2. i <= n => Poke(r.mem, r.ptr, sz, Zeros(gap))[r.ptr][i] # Junk
    BY <1>2, <1>3, <1>6, <2>1, GrownClean
  <2> QED
    BY <1>1, <1>4, <2>2
<1>8. CleanEntry(ent'[f], mem')
  BY <1>5, <1>7 DEF CleanEntry
<1> QED
  BY <1>8 DEF f

\* vtfs_open with O_TRUNC leaves no byte.
LEMMA OpenTruncClean ==
  ASSUME TreeInv, NEW x \in RegularFiles, OpenTrunc(x)
  PROVE  CleanEntry(ent'[First(x)], mem')
<1>1. \/ ent' = UpdateDataAll(ent, x, ent[First(x)].data, NULL, 0)
      \/ ent' = UpdateOne(ent, First(x), NULL, 0)
  BY DEF OpenTrunc
<1>2. NULL \in Pointers /\ 0 \in Sizes
  BY SizeAssumption DEF Pointers, Sizes
<1>3. ent'[First(x)].size = 0
  BY <1>1, <1>2, FirstUpdated DEF TreeInv
<1> QED
  BY <1>3 DEF CleanEntry

\* vtfs_read: bytes of the server's chunks, and zeros.
LEMMA ReadClean ==
  ASSUME JunkApart, TreeInv, S!Inv, NEW x \in RegularFiles,
         \A c \in DB!ChunksOf(Token, x) : Clean(c.bytes),
         NEW n \in 1 .. MaxSize, RemoteRead(x, n)
  PROVE  CleanEntry(ent'[First(x)], mem')
<1> DEFINE f   == First(x)
           got == Reloaded(x, n)
           B   == UNION {{c.bytes[i] : i \in DOMAIN c.bytes} : c \in DB!ChunksOf(Token, x)}
<1>1. x \in Inos /\ n \in Nat /\ got # <<>> /\ SizeClass[n] \in Nat /\ SizeClass[n] >= n
  BY SizeAssumption DEF RegularFiles, RemoteRead
<1>2. /\ Junk \notin B \cup {Nul}
      /\ \A c \in DB!ChunksOf(Token, x) : \A i \in DOMAIN c.bytes : c.bytes[i] \in B
  BY DEF Clean, JunkApart
<1> HIDE DEF B
<1>3. got \in Seq(B \cup {Nul}) /\ Len(got) <= n /\ Len(got) \in Nat
  <2>1. Reloaded(x, n) \in Seq(B \cup {Nul}) /\ Len(Reloaded(x, n)) <= n
    BY <1>1, <1>2, ReloadedFrom, Zenon
  <2> HIDE DEF got
  <2> QED
    BY <2>1 DEF got
<1>4. PICK b \in Fresh :
        /\ ent' = [ent EXCEPT ![f] = [ent[f] EXCEPT !.data = b, !.size = Len(got)]]
        /\ mem' = [a \in (DOMAIN mem \ {ent[f].data}) \cup {b} |->
                     IF a # b THEN mem[a]
                     ELSE [i \in 1 .. SizeClass[n] |-> IF i <= Len(got) THEN got[i] ELSE Junk]]
  BY Zenon DEF RemoteRead, LoadedSize
<1>5. f \in DOMAIN ent /\ ent[f] \in Entry
  BY FileFirst DEF TreeInv
<1> HIDE DEF f, got
<1>6. ent'[f].data = b /\ ent'[f].size = Len(got)
  BY <1>4, <1>5 DEF Entry
<1>7. mem'[b] = [i \in 1 .. SizeClass[n] |-> IF i <= Len(got) THEN got[i] ELSE Junk]
  BY <1>4
<1>8. ASSUME NEW i \in 1 .. Len(got) PROVE mem'[b][i] # Junk
  <2>1. i \in 1 .. SizeClass[n] /\ i <= Len(got)
    BY <1>1, <1>3
  <2>2. mem'[b][i] = got[i]
    BY <1>7, <2>1
  <2>3. got[i] \in B \cup {Nul}
    BY <1>3
  <2> QED
    BY <1>2, <2>2, <2>3
<1>9. CleanEntry(ent'[f], mem')
  BY <1>6, <1>8 DEF CleanEntry
<1> QED
  BY <1>9 DEF f

\* A step on names or on the heap as a whole: the file's entries hold what its only
\* one held, or nothing.
LEMMA NamesKeepClean ==
  ASSUME TreeOK(ent'), HeapOK(mem'), NEW x, x \in RegularFiles', CleanEntry(ent[First(x)], mem),
         \A b \in DOMAIN mem' : b \in DOMAIN mem /\ mem'[b] = mem[b],
         \A l \in DOMAIN ent' : ent'[l].ino = x =>
            \/ ent'[l].data = NULL
            \/ ent'[l].data = ent[First(x)].data /\ ent'[l].size = ent[First(x)].size
  PROVE  Clean(Content(x)')
<1>1. LinksOf(x)' # {} /\ LinksOf(x)' = {l \in DOMAIN ent' : ent'[l].ino = x}
  BY DEF RegularFiles, LinksOf
<1>2. First(x)' \in LinksOf(x)'
  BY <1>1, FirstIsALinkNext
<1> HIDE DEF LinksOf, First
<1>3. First(x)' \in DOMAIN ent' /\ ent'[First(x)'].ino = x
  BY <1>1, <1>2
<1>4. CleanEntry(ent'[First(x)'], mem')
  BY <1>3, NamesClean
<1> QED
  BY <1>4, CleanIs

\* vtfs_create and vtfs_mkdir
LEMMA MakeClean ==
  ASSUME RemoteInv, NEW k \in Keys, NEW isDir \in BOOLEAN, RemoteMake(k, isDir),
         NEW x \in RegularFiles, First(x) \in Single, NEW l \in DOMAIN ent', ent'[l].ino = x
  PROVE  \/ ent'[l].data = NULL
         \/ ent'[l].data = ent[First(x)].data /\ ent'[l].size = ent[First(x)].size
<1>1. TreeInv /\ TreeOK(ent)
  BY DEF RemoteInv, TreeInv
<1>2. \A m \in DOMAIN ent : ent[m].ino = x => m = First(x)
  BY <1>1, SoleEntry
<1>3. CASE UNCHANGED ent
  BY <1>2, <1>3
<1>4. CASE \E e : e.data = NULL /\ ent' = With(ent, k, e)
  <2>1. PICK e : e.data = NULL /\ ent' = With(ent, k, e)
    BY <1>4
  <2>2. CASE l = k
    BY <2>1, <2>2 DEF With
  <2>3. CASE l # k
    <3>1. l \in DOMAIN ent /\ ent[l] \in Entry
      BY <1>1, <2>1, <2>3 DEF With, TreeOK
    <3>2. ent'[l] = ent[l] \/ ent'[l] = [ent[l] EXCEPT !.at = ent[l].at + 1]
      BY <2>1, <2>3, <3>1 DEF With
    <3>3. ent'[l].ino = ent[l].ino /\ ent'[l].data = ent[l].data /\ ent'[l].size = ent[l].size
      BY <3>1, <3>2 DEF Entry
    <3> QED
      BY <1>2, <3>1, <3>3
  <2> QED
    BY <2>2, <2>3
<1>5. UNCHANGED ent \/ \E e : e.data = NULL /\ ent' = With(ent, k, e)
  <2>1. \/ UNCHANGED ent
        \/ ent' = With(ent, k, [NewEntry(k, isDir) EXCEPT !.ino = DB!NewIno(Token)])
    BY DEF RemoteMake
  <2>2. [NewEntry(k, isDir) EXCEPT !.ino = DB!NewIno(Token)].data = NULL
    BY DEF NewEntry
  <2> QED
    BY <2>1, <2>2
<1> QED
  BY <1>3, <1>4, <1>5

\* vtfs_link
LEMMA LinkClean ==
  ASSUME RemoteInv, NEW k \in Keys, NEW y \in Inos, RemoteLink(k, y),
         NEW x \in RegularFiles, First(x) \in Single, NEW l \in DOMAIN ent', ent'[l].ino = x
  PROVE  ent'[l].data = ent[First(x)].data /\ ent'[l].size = ent[First(x)].size
<1> DEFINE f == First(y)
           e == [ent[f] EXCEPT !.at = Place(k[1])]
           u == With(ent, k, e)
<1>1. /\ k \notin DOMAIN ent /\ y \in RegularFiles /\ TreeInv /\ S!Inv /\ TreeOK(ent)
      /\ \A m \in DOMAIN ent : ent[m].ino = x => m = First(x)
  <2>1. k \notin DOMAIN ent /\ y \in RegularFiles /\ TreeInv /\ S!Inv /\ TreeOK(ent)
    BY DEF RemoteLink, RemoteInv, TreeInv
  <2> QED
    BY <2>1, SoleEntry
<1>2. f \in DOMAIN ent /\ ent[f].ino = y /\ ent[f] \in Entry /\ Place(k[1]) \in Nat
  BY <1>1, FileFirst, PlaceIsNat
<1>3. /\ \/ \E i \in DB!OfIno(Token, y) : ent' = SetNlink(u, y, rows[i].nlink + 1)
         \/ ent' = SetNlink(u, y, ent[f].nlink + 1)
  BY DEF RemoteLink
<1> HIDE DEF f
<1>4. /\ e \in Entry /\ e.ino = y /\ e.data = ent[f].data /\ e.size = ent[f].size
  BY <1>2 DEF Entry
<1> HIDE DEF e
<1>5. /\ TreeOK(u) /\ DOMAIN u = DOMAIN ent \cup {k} /\ u[k] = e
      /\ \A m \in DOMAIN ent : SameBody(u[m], ent[m])
  BY <1>1, <1>4, WithIs
<1> HIDE DEF u
<1>6. PICK n \in Nat \ {0} : ent' = SetNlink(u, y, n)
  <2>1. \A i \in DB!OfIno(Token, y) : rows[i].nlink + 1 \in Nat \ {0}
    BY <1>1, OneToken DEF RowsIn
  <2>2. ent[f].nlink + 1 \in Nat \ {0}
    BY <1>2 DEF Entry
  <2> QED
    BY <1>3, <2>1, <2>2
<1>7. /\ l \in DOMAIN u /\ u[l].ino = x
      /\ ent'[l].data = u[l].data /\ ent'[l].size = u[l].size
  BY <1>5, <1>6, SetNlinkOK
<1>8. CASE l = k
  <2>1. y = x /\ f = First(x)
    BY <1>2, <1>4, <1>5, <1>7, <1>8 DEF f
  <2> QED
    BY <1>4, <1>5, <1>7, <1>8, <2>1
<1>9. CASE l # k
  BY <1>1, <1>5, <1>7, <1>9 DEF SameBody
<1> QED
  BY <1>8, <1>9

\* vtfs_unlink and vtfs_rmdir
LEMMA RemovalClean ==
  ASSUME RemoteInv, KeepsLinks, NEW k \in Keys, RemoteUnlink(k) \/ RemoteRmdir(k),
         NEW x \in RegularFiles, First(x) \in Single
  PROVE  /\ \A l \in DOMAIN ent' : ent'[l].ino = x =>
                ent'[l].data = ent[First(x)].data /\ ent'[l].size = ent[First(x)].size
         /\ \A b \in DOMAIN mem' : b \in DOMAIN mem /\ mem'[b] = mem[b]
<1>1. /\ TreeInv /\ TreeOK(ent)
      /\ \A m \in DOMAIN ent : ent[m].ino = x => m = First(x)
  <2>1. TreeInv /\ TreeOK(ent)
    BY DEF RemoteInv, TreeInv
  <2> QED
    BY <2>1, SoleEntry
<1>2. ent' = Without(ent, {k}) /\ (mem' = mem \/ mem' = Free(mem, {ent[k].data}))
  <2>1. CASE RemoteUnlink(k)
    <3> DEFINE y == ent[k].ino
               n == ent[First(y)].nlink - 1
               K == IF n = 0 THEN LinksOf(y) ELSE {k}
    <3>1. /\ k \in DOMAIN ent /\ ent' = Without(SetNlink(ent, y, n), K)
          /\ mem' = mem \/ mem' = Free(mem, {ent[k].data})
      BY <2>1 DEF RemoteUnlink, Unlink
    <3>2. k \in K
      BY <3>1 DEF LinksOf
    <3>3. DOMAIN ent' = DOMAIN ent \ K
      BY <3>1 DEF Without, SetNlink
    <3>4. LinksIn(ent, y) = {k} /\ LinksOf(y) = {k}
      BY <1>1, <3>1, <3>2, <3>3, LastLink DEF TreeInv
    <3>5. K = {k} /\ ent' = Without(SetNlink(ent, y, n), {k})
      BY <3>1, <3>4
    <3> HIDE DEF K, n
    <3>6. Without(SetNlink(ent, y, n), {k}) = Without(ent, {k})
      BY <3>4, OtherNlink
    <3> QED
      BY <3>1, <3>5, <3>6
  <2>2. CASE RemoteRmdir(k)
    BY <2>2 DEF RemoteRmdir, Rmdir
  <2> QED
    BY <2>1, <2>2
<1>3. \A l \in DOMAIN ent' : l \in DOMAIN ent /\ SameBody(ent'[l], ent[l])
  <2> DEFINE t == Without(ent, {k})
  <2>1. DOMAIN t = DOMAIN ent \ {k} /\ \A l \in DOMAIN ent \ {k} : SameBody(t[l], ent[l])
    BY <1>1, WithoutOK
  <2>2. ent' = t
    BY <1>2
  <2> HIDE DEF t
  <2> QED
    BY <2>1, <2>2
<1>4. \A b \in DOMAIN mem' : b \in DOMAIN mem /\ mem'[b] = mem[b]
  BY <1>2 DEF Free
<1> QED
  BY <1>1, <1>3, <1>4 DEF SameBody

\* A step on the data of file y: of the file itself, or of another one.
LEMMA DataKeepsClean ==
  ASSUME TreeInv, NEW x \in RegularFiles, First(x) \in Single, CleanEntry(ent[First(x)], mem),
         NEW y \in RegularFiles, NEW M, NEW ptr, NEW s, HeadStep(y, M, ptr, s),
         \A b \in DOMAIN mem \ {ent[First(y)].data} : mem'[b] = mem[b],
         y = x => CleanEntry(ent'[First(x)], mem')
  PROVE  Clean(Content(x)')
<1>1. CASE y # x
  <2>1. CleanEntry(ent'[First(x)'], mem')
    BY <1>1, OtherClean
  <2> QED
    BY <2>1, CleanIs
<1>2. CASE y = x
  <2>1. TreeOK(ent') /\ DOMAIN ent' = DOMAIN ent /\ \A l \in DOMAIN ent : ent'[l].ino = ent[l].ino
    BY DEF HeadStep
  <2>2. First(x)' = First(x)
    BY <2>1, SoleStays
  <2>3. CleanEntry(ent'[First(x)'], mem')
    BY <1>2, <2>2
  <2> QED
    BY <2>3, CleanIs
<1> QED
  BY <1>1, <1>2

\* What DataStep says is what a step on data needs.
LEMMA DataIsHead ==
  ASSUME NEW y, NEW M, NEW ptr, NEW s, DataStep(y, M, ptr, s)
  PROVE  HeadStep(y, M, ptr, s) /\ \A b \in DOMAIN mem \ {ent[First(y)].data} : mem'[b] = mem[b]
<1>1. \A b \in DOMAIN mem \ {ent[First(y)].data} : mem'[b] = mem[b]
  BY DEF DataStep
<1>2. HeadStep(y, M, ptr, s)
  BY DEF DataStep, HeadStep
<1> QED
  BY <1>1, <1>2

\* What a failing write leaves of a file: the bytes below some n.
LEMMA CleanUpToIs ==
  ASSUME NEW x, NEW n,
         LET e == ent'[First(x)'] IN
         \A i \in 1 .. e.size : e.data \in DOMAIN mem' /\ i <= n => mem'[e.data][i] # Junk
  PROVE  CleanUpTo(Content(x)', n)
<1> DEFINE e == ent'[First(x)']
           c == Content(x)'
<1>1. c = IF e.data \in DOMAIN mem' THEN [i \in 1 .. e.size |-> mem'[e.data][i]] ELSE <<>>
  BY DEF Content
<1>2. ASSUME NEW i \in DOMAIN c, i <= n
      PROVE  c[i] # Junk
  <2> HIDE DEF c, e
  <2>1. e.data \in DOMAIN mem' /\ i \in 1 .. e.size /\ c[i] = mem'[e.data][i]
    BY <1>1, <1>2
  <2> QED
    BY <1>2, <2>1 DEF e
<1> QED
  BY <1>2 DEF CleanUpTo

\* Every step leaves a file clean that was, or is a write to it that fails.
LEMMA StepKeepsClean ==
  ASSUME JunkApart, RemoteInv, RemoteInv', RemoteNext, KeepsLinks,
         NEW x \in RegularFiles, First(x) \in Single, CleanFile(x), x \in RegularFiles'
  PROVE  \/ Clean(Content(x)')
         \/ \E n \in Sizes : /\ FailedWrite(x, n)
                            /\ CleanUpTo(Content(x)', n)
                            /\ CleanUpTo(Content(x)', ent[First(x)].size)
<1>1. /\ TreeInv /\ TreeOK(ent) /\ HeapOK(mem) /\ S!Inv /\ TreeOK(ent') /\ HeapOK(mem')
      /\ First(x) \in DOMAIN ent
  BY FileFirst DEF RemoteInv, TreeInv
<1>2. /\ CleanEntry(ent[First(x)], mem) /\ (ent[First(x)].data # NULL \/ ent[First(x)].size = 0)
      /\ \A c \in DB!ChunksOf(Token, x) : Clean(c.bytes)
  BY CleanIs DEF CleanFile
<1>3. ASSUME NEW k \in Keys, NEW isDir \in BOOLEAN, RemoteMake(k, isDir) PROVE Clean(Content(x)')
  <2>1. UNCHANGED mem
    BY <1>3 DEF RemoteMake
  <2>2. \A l \in DOMAIN ent' : ent'[l].ino = x =>
           \/ ent'[l].data = NULL
           \/ ent'[l].data = ent[First(x)].data /\ ent'[l].size = ent[First(x)].size
    BY <1>3, MakeClean
  <2> QED
    BY <1>1, <1>2, <2>1, <2>2, NamesKeepClean
<1>4. ASSUME NEW k \in Keys, NEW y \in Inos, RemoteLink(k, y) PROVE Clean(Content(x)')
  <2>1. UNCHANGED mem
    BY <1>4 DEF RemoteLink
  <2>2. \A l \in DOMAIN ent' : ent'[l].ino = x =>
           \/ ent'[l].data = NULL
           \/ ent'[l].data = ent[First(x)].data /\ ent'[l].size = ent[First(x)].size
    BY <1>4, LinkClean
  <2> QED
    BY <1>1, <1>2, <2>1, <2>2, NamesKeepClean
<1>5. ASSUME NEW k \in Keys, RemoteUnlink(k) \/ RemoteRmdir(k) PROVE Clean(Content(x)')
  <2>1. /\ \A b \in DOMAIN mem' : b \in DOMAIN mem /\ mem'[b] = mem[b]
        /\ \A l \in DOMAIN ent' : ent'[l].ino = x =>
              \/ ent'[l].data = NULL
              \/ ent'[l].data = ent[First(x)].data /\ ent'[l].size = ent[First(x)].size
    BY <1>5, RemovalClean
  <2> QED
    BY <1>1, <1>2, <2>1, NamesKeepClean
<1>6. ASSUME NEW y \in Inos, NEW append \in BOOLEAN, NEW o \in Sizes, NEW p \in Payloads,
             RemoteWrite(y, append, o, p), ~Clean(Content(x)')
      PROVE  \E n \in Sizes : /\ FailedWrite(x, n)
                             /\ CleanUpTo(Content(x)', n)
                             /\ CleanUpTo(Content(x)', ent[First(x)].size)
  <2>1. Write(y, append, o, p) /\ y \in RegularFiles
    BY <1>6, WriteSends
  <2>2. FirstFits(y)
    BY <1>1, <2>1, FilesFit
  <2>3. PICK M, ptr, s : DataStep(y, M, ptr, s)
    BY <1>1, <2>1, <2>2, WriteStep
  <2>4. HeadStep(y, M, ptr, s) /\ \A b \in DOMAIN mem \ {ent[First(y)].data} : mem'[b] = mem[b]
    BY <2>3, DataIsHead
  <2>5. y = x /\ ~CleanEntry(ent'[First(x)], mem')
    <3>1. ~(y = x => CleanEntry(ent'[First(x)], mem'))
      BY <1>1, <1>2, <1>6, <2>1, <2>4, DataKeepsClean
    <3> QED
      BY <3>1
  <2>6. ~WriteFile(x, append, o, p, TRUE)
    <3>1. ASSUME WriteFile(x, append, o, p, TRUE)
          PROVE  \A i \in 1 .. ent'[First(x)].size :
                   ent'[First(x)].data \in DOMAIN mem' => mem'[ent'[First(x)].data][i] # Junk
      BY <1>1, <1>2, <3>1, WriteClean
    <3> QED
      BY <2>5, <3>1 DEF CleanEntry
  <2>7. "copy" \in Faults /\ WriteFile(x, append, o, p, FALSE)
    BY <2>1, <2>5, <2>6 DEF Write
  <2> DEFINE n == IF append THEN ent[First(x)].size ELSE o
  <2>8. n \in Sizes
    BY <1>1, FileFirst DEF Entry
  <2>9. FailedWrite(x, n)
    BY <2>7 DEF FailedWrite
  <2>10. First(x)' = First(x)
    <3>1. DOMAIN ent' = DOMAIN ent /\ \A l \in DOMAIN ent : ent'[l].ino = ent[l].ino
      BY <2>4 DEF HeadStep
    <3> QED
      BY <1>1, <3>1, SoleStays
  <2>11. \A i \in 1 .. ent'[First(x)].size :
           ent'[First(x)].data \in DOMAIN mem' /\ (i <= n \/ i <= ent[First(x)].size)
             => mem'[ent'[First(x)].data][i] # Junk
    BY <1>1, <1>2, <2>7, WriteClean
  <2> HIDE DEF n
  <2>12. CleanUpTo(Content(x)', n) /\ CleanUpTo(Content(x)', ent[First(x)].size)
    BY <2>10, <2>11, CleanUpToIs
  <2> QED
    BY <2>8, <2>9, <2>12
<1>7. ASSUME NEW y \in Inos, NEW n \in Sizes, Setattr(y, n) PROVE Clean(Content(x)')
  <2>1. y \in RegularFiles
    BY <1>7 DEF Setattr
  <2>2. PICK M, ptr, s : DataStep(y, M, ptr, s)
    BY <1>1, <1>7, SetattrStep
  <2>3. HeadStep(y, M, ptr, s) /\ \A b \in DOMAIN mem \ {ent[First(y)].data} : mem'[b] = mem[b]
    BY <2>2, DataIsHead
  <2>4. y = x => CleanEntry(ent'[First(x)], mem')
    BY <1>1, <1>2, <1>7, SetattrClean
  <2> QED
    BY <1>1, <1>2, <2>1, <2>3, <2>4, DataKeepsClean
<1>8. ASSUME NEW y \in Inos, OpenTrunc(y) PROVE Clean(Content(x)')
  <2>1. y \in RegularFiles
    BY <1>8 DEF OpenTrunc
  <2>2. PICK M, ptr, s : DataStep(y, M, ptr, s)
    BY <1>1, <1>8, OpenTruncStep
  <2>3. HeadStep(y, M, ptr, s) /\ \A b \in DOMAIN mem \ {ent[First(y)].data} : mem'[b] = mem[b]
    BY <2>2, DataIsHead
  <2>4. y = x => CleanEntry(ent'[First(x)], mem')
    BY <1>1, <1>8, OpenTruncClean
  <2> QED
    BY <1>1, <1>2, <2>1, <2>3, <2>4, DataKeepsClean
<1>9. ASSUME NEW y \in Inos, NEW n \in 1 .. MaxSize, RemoteRead(y, n) PROVE Clean(Content(x)')
  <2>1. y \in RegularFiles
    BY <1>9 DEF RemoteRead
  <2>2. PICK M, ptr, s : /\ HeadStep(y, M, ptr, s)
                         /\ \A b \in DOMAIN mem \ {ent[First(y)].data} : mem'[b] = mem[b]
    BY <1>1, <1>9, ReadStep
  <2>3. y = x => CleanEntry(ent'[First(x)], mem')
    BY <1>1, <1>2, <1>9, ReadClean
  <2> QED
    BY <1>1, <1>2, <2>1, <2>2, <2>3, DataKeepsClean
<1>10. ~RemoteUnmount /\ ~Crash
  <2>1. x \notin RegularFiles' \/ DOMAIN ent' # {}
    BY DEF RegularFiles, LinksOf
  <2> QED
    BY <2>1 DEF RemoteUnmount, Crash
<1>11. ~Remount
  BY <1>1 DEF Remount, TreeInv
<1>12. 0 \in Sizes
  BY SizeAssumption DEF Sizes
<1> QED
  BY <1>3, <1>4, <1>5, <1>6, <1>7, <1>8, <1>9, <1>10, <1>11, <1>12 DEF RemoteNext, LocalOnly

\* A step that changes nothing.
LEMMA StutterKeepsClean ==
  ASSUME UNCHANGED all, NEW x, CleanFile(x)
  PROVE  Clean(Content(x)')
<1>1. ent' = ent /\ mem' = mem
  BY DEF all, vars
<1>2. First(x)' = First(x)
  BY <1>1 DEF First, LinksOf
<1>3. Content(x)' = Content(x)
  BY <1>1, <1>2 DEF Content
<1> QED
  BY <1>3 DEF CleanFile

\* README.md: "Data is still there!"  When a file's bytes are in memory and the
\* server has none for it that nobody wrote, no step makes it read as such bytes,
\* but for a write that fails after the file has grown, and then only where the
\* write's own bytes should have been: vtfs_write, vtfs_setattr and vtfs_read fill
\* the rest of what krealloc adds.
THEOREM JunkStaysOut == ASSUME JunkApart PROVE LinkedSpec => NoNewJunk
<1>1. ASSUME RemoteInv, RemoteInv', [RemoteNext /\ KeepsLinks]_all
      PROVE  [ \A x \in RegularFiles :
                 First(x) \in Single /\ CleanFile(x) /\ x \in RegularFiles' =>
                   \/ Clean(Content(x)')
                   \/ \E n \in Sizes : /\ FailedWrite(x, n)
                                      /\ CleanUpTo(Content(x)', n)
                                      /\ CleanUpTo(Content(x)', ent[First(x)].size) ]_all
  BY <1>1, StepKeepsClean
<1> QED
  BY <1>1, RemoteInvariance, PTL DEF LinkedSpec, NoNewJunk
=============================================================================
