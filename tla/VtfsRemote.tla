----------------------------- MODULE VtfsRemote -----------------------------
(***************************************************************************)
(* Server mode: the in-memory tree of one mount together with the database *)
(* of its token.  A handler changes the tree as VtfsTree says and sends    *)
(* its requests while it runs; handlers run one after the other.  Besides  *)
(* "copy" and "nomem", which fails in vtfs_create and vtfs_mkdir only,     *)
(* Faults can name                                                         *)
(*   "lost"    a request that never reaches the server; the client may     *)
(*             have had no memory or no connection for it,                 *)
(*   "answer"  an answer that is lost after the transaction has committed, *)
(*             for want of memory in the client too,                       *)
(*   "load"    the buffers and entries that a mount allocates,             *)
(*   "junk"    the bytes that encode, which has no length, reads after the *)
(*             end of what was written.                                    *)
(***************************************************************************)
EXTENDS VtfsTree

CONSTANTS Token,      \* the token of the mount
          Ids,        \* BOUND: primary keys of vtfs_files
          Refused,    \* the answer to a read that the server refuses
          MaxBehind,  \* BOUND: bytes behind a write before the next zero byte
          ListRoom    \* entries that the 8 KiB answer to a list request can hold

VARIABLES rows, chunks     \* the database, as in VtfsServer

db   == <<rows, chunks>>
all  == <<vars, db>>

DB == INSTANCE VtfsServer WITH Tokens <- {Token}

RemoteInit == Init /\ DB!Init

-----------------------------------------------------------------------------
(* Requests: carried out, refused, or lost *)

Lost    == "lost" \in Faults /\ UNCHANGED db

HasOnly(x) == \E i \in DB!OfIno(Token, x) : DB!IsOnly(i, Token, x)

\* unlink is refused for a file without rows, or when the row that the query
\* returns first is one that a chunk references.
RefusesUnlink(x) ==
  \/ DB!OfIno(Token, x) = {}
  \/ \E i \in DB!OfIno(Token, x), c \in chunks : c.file = i

RefusesDelete(x) ==
  \A i \in DB!OfIno(Token, x) : rows[i].dir /\ DB!InParent(Token, x) # {}

RequestLink(x, k)     == DB!Link(Token, x, k[1], k[2])
RequestUnlink(x)      == DB!Unlink(Token, x) \/ (RefusesUnlink(x) /\ UNCHANGED db) \/ Lost
RequestDelete(x)      == DB!Delete(Token, x) \/ (RefusesDelete(x) /\ UNCHANGED db) \/ Lost
RequestWrite(x, o, q) == DB!Write(Token, x, o, q) \/ (~HasOnly(x) /\ UNCHANGED db) \/ Lost

\* What encode makes of the bytes of a write: it stops at a zero byte and at no
\* other place, for the copy that vtfs_write makes has no terminator.
Encoded(p) ==
  LET zeros == {i \in DOMAIN p : p[i] = Nul}
      first == CHOOSE i \in zeros : \A j \in zeros : i <= j
  IN IF zeros # {} THEN {SubSeq(p, 1, first - 1)}
     ELSE {p \o [j \in 1 .. n |-> Junk] : n \in IF "junk" \in Faults THEN 0 .. MaxBehind ELSE {0}}

-----------------------------------------------------------------------------
(* Handlers.  One that ends with an error before it changes tree or        *)
(* database is a stutter.                                                  *)

\* Fault: the file exists in the tree whatever the server answers.
RemoteMake_TreeFirst(k, isDir) ==
  LET x == DB!NewIno(Token) IN
  /\ mounted
  /\ IsDir(k[1]) /\ k \notin DOMAIN ent
  /\ x <= LastIno
  /\ ent' = With(ent, k, [NewEntry(k, isDir) EXCEPT !.ino = x])
  /\ nextIno' = IF x >= nextIno THEN x + 1 ELSE nextIno
  /\ DB!Create(Token, k[1], k[2], isDir) \/ Lost
  /\ UNCHANGED <<mounted, mem, twice>>

\* vtfs_create and vtfs_mkdir: the server first.  When kmalloc or new_inode
\* fails, a second request deletes what the first has made.
RemoteMake(k, isDir) ==
  LET x == DB!NewIno(Token) IN
  /\ mounted
  /\ IsDir(k[1]) /\ k \notin DOMAIN ent
  /\ x <= LastIno
  /\ \/ /\ DB!Create(Token, k[1], k[2], isDir)
        /\ ent' = With(ent, k, [NewEntry(k, isDir) EXCEPT !.ino = x])
        /\ nextIno' = IF x >= nextIno THEN x + 1 ELSE nextIno
     \/ /\ "answer" \in Faults
        /\ DB!Create(Token, k[1], k[2], isDir)
        /\ UNCHANGED <<ent, nextIno>>
     \/ /\ "nomem" \in Faults
        /\ ~DB!Exists(Token, k[1], k[2])
        /\ UNCHANGED db \/ ("lost" \in Faults /\ DB!Create(Token, k[1], k[2], isDir))
        /\ nextIno' = IF x >= nextIno THEN x + 1 ELSE nextIno
        /\ UNCHANGED ent
  /\ UNCHANGED <<mounted, mem, twice>>

\* vtfs_link: the tree first.  The count becomes the server's when it answers.
RemoteLink(k, x) ==
  /\ mounted
  /\ x \in RegularFiles /\ IsDir(k[1]) /\ k \notin DOMAIN ent
  /\ ent[First(x)].nlink < MaxLinks
  /\ LET e      == ent[First(x)]
         linked == With(ent, k, [e EXCEPT !.at = Place(k[1])])
     IN \/ \E i \in DB!OfIno(Token, x) :
             /\ RequestLink(x, k)
             /\ ent' = SetNlink(linked, x, rows[i].nlink + 1)
        \/ /\ "answer" \in Faults
           /\ RequestLink(x, k)
           /\ ent' = SetNlink(linked, x, e.nlink + 1)
        \/ /\ \/ (~HasOnly(x) \/ DB!Exists(Token, k[1], k[2])) /\ UNCHANGED db
              \/ Lost
           /\ ent' = SetNlink(linked, x, e.nlink + 1)
  /\ UNCHANGED <<mounted, nextIno, mem, twice>>

RemoteUnlink(k) == Unlink(k) /\ RequestUnlink(ent[k].ino)

RemoteRmdir(k) == Rmdir(k) /\ RequestDelete(ent[k].ino)

\* vtfs_write: a write whose bytes cannot be copied sends nothing.
RemoteWrite(x, append, o, p) ==
  \/ /\ WriteFile(x, append, o, p, TRUE)
     /\ \E q \in Encoded(p) : RequestWrite(x, IF append THEN ent[First(x)].size ELSE o, q)
  \/ /\ "copy" \in Faults
     /\ WriteFile(x, append, o, p, FALSE)
     /\ UNCHANGED db

\* vtfs_setattr and vtfs_open tell the server nothing.
LocalOnly(x) == /\ \/ \E s \in Sizes : Setattr(x, s)
                   \/ OpenTrunc(x)
                /\ UNCHANGED db

\* The bytes of a read up to byte n that vtfs_read asks the server for, and keeps
\* when there are any: the file has no data, or not that many.
Reloaded(x, n) ==
  LET e   == ent[First(x)]
      got == DB!Read(Token, x, 0, n)
  IN IF (e.data = NULL \/ n > e.size) /\ got # Refused THEN got ELSE <<>>

\* Fault: a read only ever makes the size larger.
LoadedSize_Larger(got, size) == IF Len(got) > size THEN Len(got) ELSE size

LoadedSize(got, size) == Len(got)

\* vtfs_read that gets bytes from the server: they replace the buffer of the
\* first entry.
RemoteRead(x, n) ==
  /\ mounted
  /\ x \in RegularFiles
  /\ LET f   == First(x)
         got == Reloaded(x, n)
     IN /\ got # <<>>
        /\ \E b \in Fresh :
             /\ ent' = [ent EXCEPT ![f] = [@ EXCEPT !.data = b, !.size = LoadedSize(got, ent[f].size)]]
             /\ mem' = [a \in (DOMAIN mem \ {ent[f].data}) \cup {b} |->
                          IF a # b THEN mem[a]
                          ELSE [i \in 1 .. SizeClass[n] |-> IF i <= Len(got) THEN got[i] ELSE Junk]]
  /\ UNCHANGED <<mounted, nextIno, twice, db>>

-----------------------------------------------------------------------------
(* Unmounting, crashes and mounting *)

\* vtfs_kill_sb cleans nothing up in server mode: the buffers stay allocated.
RemoteUnmount ==
  /\ mounted
  /\ mounted' = FALSE
  /\ ent' = <<>>
  /\ UNCHANGED <<nextIno, mem, twice, db>>

\* The machine with the mount stops; the server does not.
Crash == /\ mounted' = FALSE
         /\ ent' = <<>>
         /\ mem' = <<>>
         /\ UNCHANGED <<nextIno, twice, db>>

\* Fault: the lists of directories beneath the root are not asked for.
Loads_RootOnly(M) == {i \in M : rows[i].parent = RootIno}

\* The rows that a mount loads when no more than M arrive and get an entry: the
\* least set that has those of M in the root and in each directory it loads.
Loads(M) ==
  LET Closed(I) == \A i \in M :
                     \/ rows[i].parent = RootIno
                     \/ \E j \in I : rows[j].dir /\ rows[j].ino = rows[i].parent
                     => i \in I
  IN {i \in M : \A I \in SUBSET M : Closed(I) => i \in I}

\* A list longer than the buffer is an error, like one that gets lost.
Listable == {d \in DB!Dirs : Cardinality(DB!InParent(Token, d)) <= ListRoom}

\* The rows that may arrive and get an entry: those of some lists, or any of them.
Loadable ==
  LET Of(L) == {i \in DOMAIN rows : rows[i].parent \in L}
  IN IF "load" \in Faults THEN SUBSET Of(Listable)
     ELSE IF "lost" \in Faults THEN {Of(L) : L \in SUBSET Listable}
     ELSE {Of(Listable)}

Key(i) == <<rows[i].parent, rows[i].name>>

\* vtfs_fill_super and vtfs_server_load_files: entries with the row's number and
\* size, one link and no data, depth first, in each directory in any order.  What
\* lies beneath an entry that could not be allocated is not asked for.
Remount ==
  /\ ~mounted
  /\ mounted' = TRUE
  /\ nextIno' = FirstIno
  /\ \E M \in Loadable :
       LET I == Loads(M)
           K == {Key(i) : i \in I}
           RowAt(k) == rows[CHOOSE i \in I : Key(i) = k]
       IN \E place \in [K -> 1 .. Cardinality(K)] :
            /\ \A k, l \in K : place[k] = place[l] => k = l
            /\ ent' = [k \in K |-> [ino |-> RowAt(k).ino, dir |-> RowAt(k).dir, nlink |-> 1,
                                    data |-> NULL, size |-> RowAt(k).size, at |-> place[k]]]
            /\ WalkOrder'
  /\ UNCHANGED <<mem, twice, db>>

RemoteNext ==
  \/ \E k \in Keys : \/ \E isDir \in BOOLEAN : RemoteMake(k, isDir)
                     \/ \E x \in Inos : RemoteLink(k, x)
                     \/ RemoteUnlink(k)
                     \/ RemoteRmdir(k)
  \/ \E x \in Inos : \/ \E o \in Sizes, p \in Payloads : RemoteWrite(x, FALSE, o, p)
                     \/ \E p \in Payloads : RemoteWrite(x, TRUE, 0, p)
                     \/ LocalOnly(x)
                     \/ \E n \in 1 .. MaxSize : RemoteRead(x, n)
  \/ RemoteUnmount
  \/ Crash
  \/ Remount

\* While a file has two names none of them is removed, and the file system stays
\* mounted: what the code does then is not what the properties below say.
KeepsLinks ==
  \A x \in Inos :
    Cardinality(LinksOf(x)) > 1 => mounted' /\ LinksOf(x) \subseteq DOMAIN ent'

LinkedSpec == RemoteInit /\ [][RemoteNext /\ KeepsLinks]_all
-----------------------------------------------------------------------------
(* Properties *)

\* Whatever requests and answers are lost, the tree shows no file that the server
\* does not have: each entry that is the only one of its file is the one row with
\* its name and its number.
Single == {k \in DOMAIN ent : LinksOf(ent[k].ino) = {k}}

TreeInDatabase ==
  \A k \in Single :
    \E i \in DOMAIN rows : /\ Key(i) = k
                           /\ rows[i].dir = ent[k].dir
                           /\ DB!OfIno(Token, ent[k].ino) = {i}

\* What vtfs_read copies to a program lies within the buffer: a file may have a
\* size and no data, but then nothing is copied.
LoadedFits ==
  \A k \in Single :
    ent[k].data # NULL =>
      ent[k].size <= IF ent[k].data \in DOMAIN mem THEN Len(mem[ent[k].data]) ELSE 0

\* The names a program sees while the file system is mounted, and those that
\* the next mount will show it while it is not.
Seen == IF mounted THEN [k \in DOMAIN ent |-> ent[k].ino]
        ELSE [k \in {Key(i) : i \in DOMAIN rows} |-> rows[CHOOSE i \in DOMAIN rows : Key(i) = k].ino]

SeenDirs == IF mounted THEN {ent[k].ino : k \in {l \in DOMAIN ent : ent[l].dir}}
            ELSE {rows[i].ino : i \in {j \in DOMAIN rows : rows[j].dir}}

\* README.md: "Data survives unmounting and system reboots."  When requests
\* arrive, mounting, unmounting and crashes neither add nor take a name.
DNS == INSTANCE NameSpace WITH names <- Seen, dirs <- SeenDirs
ImplementsDurable == DNS!NSInit /\ [][DNS!NSStep]_<<Seen, SeenDirs>>

\* While a file system is mounted, its tree and the database agree on every name,
\* number and link count.
Agree ==
  mounted => {<<k, ent[k].ino, ent[k].dir, ent[k].nlink>> : k \in DOMAIN ent}
               = {<<Key(i), rows[i].ino, rows[i].dir, rows[i].nlink>> : i \in DOMAIN rows}

\* README.md: "Data is still there!"  A file whose bytes are in memory, and for which
\* the server has none that nobody wrote, goes on reading as bytes that a program
\* wrote, or zeros, wherever its buffer is moved, extended, cut or fetched again.
\* Only a write that fails after the file has grown puts other bytes into it, and
\* those only where its own should have been.
Clean(s) == \A i \in DOMAIN s : s[i] # Junk

CleanFile(x) == /\ ent[First(x)].data # NULL \/ ent[First(x)].size = 0
                /\ Clean(Content(x))
                /\ \A c \in DB!ChunksOf(Token, x) : Clean(c.bytes)

\* A write to x at an offset of n that fails.
FailedWrite(x, n) ==
  /\ "copy" \in Faults
  /\ \E append \in BOOLEAN, o \in Sizes, p \in Payloads :
       /\ WriteFile(x, append, o, p, FALSE)
       /\ n = IF append THEN ent[First(x)].size ELSE o

CleanUpTo(s, n) == \A i \in DOMAIN s : i <= n => s[i] # Junk

NoNewJunk ==
  [][ \A x \in RegularFiles :
        First(x) \in Single /\ CleanFile(x) /\ x \in RegularFiles' =>
          \/ Clean(Content(x)')
          \/ \E n \in Sizes : /\ FailedWrite(x, n)
                             /\ CleanUpTo(Content(x)', n)
                             /\ CleanUpTo(Content(x)', ent[First(x)].size) ]_all
=============================================================================
