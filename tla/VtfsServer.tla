----------------------------- MODULE VtfsServer -----------------------------
(***************************************************************************)
(* The database behind server mode: the rows of vtfs_files and             *)
(* vtfs_file_data as the transactions of VtfsService change them, one      *)
(* transaction at a time.  A request that is refused, or that fails and is *)
(* rolled back, is a stutter.                                              *)
(*                                                                         *)
(* A client names a file by its inode number only.  findByTokenAndIno      *)
(* returns an Optional: it throws when a file has two rows, so that        *)
(* reading, writing and linking need a file with exactly one row.          *)
(***************************************************************************)
EXTENDS Integers, Sequences, FiniteSets

CONSTANTS Tokens,     \* tokens of the clients' mounts
          Names,      \* names of entries
          RootIno,    \* ROOT_INO
          FirstIno,   \* the first inode number of a token
          LastIno,    \* BOUND: the last inode number given out
          Ids,        \* BOUND: primary keys of vtfs_files
          Payloads,   \* what a write can carry: sequences of bytes
          MaxSize,    \* BOUND: largest file size
          Nul,        \* the zero byte
          Refused     \* the answer to a read that fails

VARIABLES rows,       \* vtfs_files: primary key |-> row
          chunks      \* vtfs_file_data

vars == <<rows, chunks>>

Inos  == FirstIno .. LastIno
Dirs  == {RootIno} \cup Inos
Sizes == 0 .. MaxSize
Bytes == UNION {{p[i] : i \in DOMAIN p} : p \in Payloads}

ASSUME ServerAssumption ==
  /\ RootIno \in Nat /\ FirstIno \in Nat /\ LastIno \in Nat /\ RootIno < FirstIno
  /\ MaxSize \in Nat
  /\ \A p \in Payloads : p \in Seq(Bytes)

VtfsFile == [token : Tokens, ino : Inos, parent : Dirs, name : Names, dir : BOOLEAN,
             nlink : Nat \ {0}, size : Sizes]

FileData == [token : Tokens, ino : Inos, off : Sizes, bytes : Seq(Bytes), file : Ids]

Init == rows = <<>> /\ chunks = {}

-----------------------------------------------------------------------------
(* Queries of the repositories *)

\* findByTokenAndInoIn, findByTokenAndParentIno
OfIno(t, x)    == {i \in DOMAIN rows : rows[i].token = t /\ rows[i].ino = x}
InParent(t, d) == {i \in DOMAIN rows : rows[i].token = t /\ rows[i].parent = d}

\* existsByTokenAndParentInoAndName
Exists(t, d, n) == \E i \in InParent(t, d) : rows[i].name = n

\* findMaxInoByToken, and the number after it
NewIno(t) ==
  LET mine == {rows[i].ino : i \in {j \in DOMAIN rows : rows[j].token = t}}
  IN IF mine = {} THEN FirstIno ELSE 1 + CHOOSE x \in mine : \A z \in mine : z <= x

ChunksOf(t, x) == {c \in chunks : c.token = t /\ c.ino = x}

\* Fault: the range query misses a chunk that ends one byte into the range.
InRange_OffByOne(t, x, from, to) ==
  {c \in ChunksOf(t, x) : c.off < to /\ c.off + Len(c.bytes) > from + 1}

\* findByTokenAndInoAndOffsetRange
InRange(t, x, from, to) ==
  {c \in ChunksOf(t, x) : c.off < to /\ c.off + Len(c.bytes) > from}

\* A regular file that findByTokenAndIno can return: it has one row, i.
IsOnly(i, t, x) == OfIno(t, x) = {i} /\ ~rows[i].dir

FreshIds == Ids \ DOMAIN rows

Insert(i, row) == [j \in DOMAIN rows \cup {i} |-> IF j = i THEN row ELSE rows[j]]

Remove(I) == [j \in DOMAIN rows \ I |-> rows[j]]

-----------------------------------------------------------------------------
(* Transactions *)

\* The constructor VtfsFile(token, ino, name, parentIno, mode)
NewRow(t, d, n, isDir) ==
  [token |-> t, ino |-> NewIno(t), parent |-> d, name |-> n, dir |-> isDir, nlink |-> 1, size |-> 0]

\* Fault: createFile without its existence check.
Create_Unchecked(t, d, n, isDir) ==
  /\ NewIno(t) <= LastIno
  /\ \E i \in FreshIds : rows' = Insert(i, NewRow(t, d, n, isDir))
  /\ UNCHANGED chunks

\* createFile, createDirectory: whether the parent exists is not asked.
Create(t, d, n, isDir) ==
  /\ ~Exists(t, d, n)
  /\ NewIno(t) <= LastIno
  /\ \E i \in FreshIds : rows' = Insert(i, NewRow(t, d, n, isDir))
  /\ UNCHANGED chunks

\* Fault: readFile stops one byte before the end of the range.
EndOffset_OneShort(off, n, size) == IF off + n <= size THEN off + n - 1 ELSE size

EndOffset(off, n, size) == IF off + n <= size THEN off + n ELSE size

SizeOf(t, x) == rows[CHOOSE i \in OfIno(t, x) : TRUE].size

\* The byte at k of what the chunks of C hold: a later one overwrites an earlier.
ByteAt(C, k) ==
  LET covering == {c \in C : c.off <= k /\ k < c.off + Len(c.bytes)}
      latest   == CHOOSE c \in covering : \A e \in covering : e.off <= c.off
  IN IF covering = {} THEN Nul ELSE latest.bytes[k - latest.off + 1]

\* readFile: bytes that no chunk holds are zeros, but a range without any
\* chunk has no bytes.
Read(t, x, off, n) ==
  IF ~\E i \in OfIno(t, x) : IsOnly(i, t, x) THEN Refused
  ELSE LET end   == EndOffset(off, n, SizeOf(t, x))
           found == InRange(t, x, off, end)
       IN IF off >= SizeOf(t, x) \/ found = {} THEN <<>>
          ELSE [j \in 1 .. end - off |-> ByteAt(found, off + j - 1)]

\* Fault: the size becomes the end of the write, not the larger of the two.
Write_SetsEnd(t, x, off, p) ==
  /\ off + Len(p) <= MaxSize
  /\ \E i \in OfIno(t, x) :
       /\ IsOnly(i, t, x)
       /\ chunks' = (chunks \ InRange(t, x, off, off + Len(p)))
                    \cup {[token |-> t, ino |-> x, off |-> off, bytes |-> p, file |-> i]}
       /\ rows' = [rows EXCEPT ![i].size = off + Len(p)]

\* writeFile: every chunk that meets the range goes as a whole, and one chunk
\* with the bytes written takes its place.
Write(t, x, off, p) ==
  /\ off + Len(p) <= MaxSize
  /\ \E i \in OfIno(t, x) :
       /\ IsOnly(i, t, x)
       /\ chunks' = (chunks \ InRange(t, x, off, off + Len(p)))
                    \cup {[token |-> t, ino |-> x, off |-> off, bytes |-> p, file |-> i]}
       /\ rows' = [rows EXCEPT ![i].size = IF off + Len(p) > @ THEN off + Len(p) ELSE @]

\* Fault: deleteFile deletes rows and data by inode number alone.
Delete_AnyToken(t, x) ==
  /\ \E i \in OfIno(t, x) : rows[i].dir => InParent(t, x) = {}
  /\ rows' = Remove({i \in DOMAIN rows : rows[i].ino = x})
  /\ chunks' = {c \in chunks : c.ino # x}

\* deleteFile, which /delete and /rmdir call: all the rows of the inode go, and
\* by CascadeType.ALL the chunks that reference them.
Delete(t, x) ==
  /\ \E i \in OfIno(t, x) :
       /\ rows[i].dir => InParent(t, x) = {}
       /\ chunks' = {c \in chunks : /\ c.file \notin OfIno(t, x)
                                    /\ c \in ChunksOf(t, x) => rows[i].dir}
  /\ rows' = Remove(OfIno(t, x))

\* Fault: createLink leaves the count of the old row.
Link_OldCount(t, x, d, n) ==
  /\ ~Exists(t, d, n)
  /\ \E i \in OfIno(t, x) :
       /\ IsOnly(i, t, x)
       /\ \E j \in FreshIds :
            rows' = Insert(j, [rows[i] EXCEPT !.parent = d, !.name = n, !.nlink = @ + 1])
  /\ UNCHANGED chunks

\* createLink
Link(t, x, d, n) ==
  /\ ~Exists(t, d, n)
  /\ \E i \in OfIno(t, x) :
       /\ IsOnly(i, t, x)
       /\ \E j \in FreshIds :
            LET linked == Insert(j, [rows[i] EXCEPT !.parent = d, !.name = n])
            IN rows' = [k \in DOMAIN linked |->
                          IF k \in {i, j} THEN [linked[k] EXCEPT !.nlink = rows[i].nlink + 1]
                          ELSE linked[k]]
  /\ UNCHANGED chunks

\* unlink: whichever row the query returns first goes, by a DELETE statement
\* that the foreign key of vtfs_file_data.file_id makes fail while a chunk
\* references the row.
Unlink(t, x) ==
  \E i \in OfIno(t, x) :
    /\ \A c \in chunks : c.file # i
    /\ LET n == rows[i].nlink - 1
       IN /\ rows' = [j \in DOMAIN rows \ {i} |->
                        IF n > 0 /\ j \in OfIno(t, x) THEN [rows[j] EXCEPT !.nlink = n]
                        ELSE rows[j]]
          /\ chunks' = IF n > 0 THEN chunks ELSE chunks \ ChunksOf(t, x)

-----------------------------------------------------------------------------
\* Any request with any parameters.
Next ==
  \E t \in Tokens :
    \/ \E d \in Dirs, n \in Names : \/ \E isDir \in BOOLEAN : Create(t, d, n, isDir)
                                    \/ \E x \in Inos : Link(t, x, d, n)
    \/ \E x \in Inos : \/ \E off \in Sizes, p \in Payloads : Write(t, x, off, p)
                       \/ Delete(t, x)
                       \/ Unlink(t, x)

Spec == Init /\ [][Next]_vars

-----------------------------------------------------------------------------
(* Properties *)

\* Type invariant: the columns of the two tables.
TypeOK ==
  /\ DOMAIN rows \subseteq Ids
  /\ \A i \in DOMAIN rows : rows[i] \in VtfsFile
  /\ chunks \subseteq FileData

\* A name means one file: no constraint of the tables says so, only the checks
\* of createFile and createLink.
UniqueNames ==
  \A i, j \in DOMAIN rows :
    rows[i].token = rows[j].token /\ rows[i].parent = rows[j].parent /\ rows[i].name = rows[j].name
    => i = j

\* The count that unlink compares with zero before it deletes the data of a
\* file is the number of rows of the file.
NlinkCountsRows ==
  \A i \in DOMAIN rows : rows[i].nlink = Cardinality(OfIno(rows[i].token, rows[i].ino))

\* No byte of a file is in two chunks, so that what readFile returns does not
\* depend on the order of the chunks.
ChunksDisjoint ==
  \A c, e \in chunks :
    c.token = e.token /\ c.ino = e.ino /\ c # e =>
      c.off + Len(c.bytes) <= e.off \/ e.off + Len(e.bytes) <= c.off

\* Every chunk belongs to a row of its own file, a regular one, and ends within
\* the size of every row of it: a file that is given the inode number of a
\* deleted one does not start with its data, and no byte is out of reach.
ChunksOwned ==
  \A c \in chunks :
    /\ c.file \in OfIno(c.token, c.ino) /\ ~rows[c.file].dir
    /\ \A i \in OfIno(c.token, c.ino) : c.off + Len(c.bytes) <= rows[i].size

\* A read of the range that was just written returns the bytes written.
ReadBack ==
  [][ \A t \in Tokens, x \in Inos, off \in Sizes, p \in Payloads :
        Write(t, x, off, p) => Read(t, x, off, Len(p))' = p ]_vars

\* README.md: "Multi-tenant support (token-based isolation)".  A step changes
\* rows and chunks of one token at most, although all tokens use the same
\* inode numbers and the same names.
RowsOf(t) == [i \in {j \in DOMAIN rows : rows[j].token = t} |-> rows[i]]

DataOf(t) == {c \in chunks : c.token = t}

TokenIsolation ==
  [][ \A t, u \in Tokens :
        t # u => UNCHANGED <<RowsOf(t), DataOf(t)>> \/ UNCHANGED <<RowsOf(u), DataOf(u)>> ]_vars

\* README.md, Unlink: "Removes a hard link."  The request can remove a row of
\* any file.
UnlinkRemovesLink ==
  \A t \in Tokens, x \in Inos : OfIno(t, x) # {} => ENABLED Unlink(t, x)
=============================================================================
