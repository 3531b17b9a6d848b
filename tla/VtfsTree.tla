------------------------------ MODULE VtfsTree ------------------------------
(***************************************************************************)
(* The in-memory tree of source/vtfs.c as the VFS handlers of RAM mode     *)
(* (no token, no server) change it: directory entries, link counts, and    *)
(* the kmalloc'ed buffers the entries of one file share.  A handler runs   *)
(* to its end before the next one starts.                                  *)
(*                                                                         *)
(* struct vtfs_file is a record of ent.  The list of a directory is never  *)
(* needed by itself: what the code depends on is the order in which        *)
(* vtfs_find_file_by_ino walks the whole tree, for it takes the FIRST      *)
(* entry with an inode number as the file.  Each entry records its place   *)
(* in that walk.                                                           *)
(***************************************************************************)
EXTENDS Integers, Sequences, FiniteSets

CONSTANTS Names,      \* names of entries
          RootIno,    \* VTFS_ROOT_INO
          FirstIno,   \* next_ino of a new mount
          LastIno,    \* BOUND: the last inode number handed out
          MaxLinks,   \* BOUND: names of one file; 1 leaves vtfs_link out
          Buffers,    \* BOUND: addresses kmalloc can return
          NULL, ZERO, \* the null pointer and ZERO_SIZE_PTR
          SizeClass,  \* SizeClass[n]: usable bytes of a kmalloc of n bytes
          Payloads,   \* what a write can carry: sequences of bytes
          MaxSize,    \* BOUND: largest file size
          Nul, Junk,  \* the zero byte; the content of fresh kmalloc memory
          Faults      \* what can fail: "copy", the buffer for a write's bytes or their
                      \* copy into it; "nomem", the kmalloc of an entry, inode or list node

VARIABLES mounted,    \* a file system is mounted
          ent,        \* <<directory, name>> |-> struct vtfs_file
          nextIno,    \* info->next_ino
          mem,        \* allocated buffers: address |-> its bytes
          twice       \* buffers that the last unmount freed more than once

vars == <<mounted, ent, nextIno, mem, twice>>

Inos  == FirstIno .. LastIno
Bytes == UNION {{p[i] : i \in DOMAIN p} : p \in Payloads}
Cells == Bytes \cup {Nul, Junk}
Sizes == 0 .. MaxSize

ASSUME InoAssumption  == /\ RootIno \in Nat /\ FirstIno \in Nat /\ LastIno \in Nat
                         /\ RootIno < FirstIno /\ FirstIno <= LastIno
ASSUME SizeAssumption == /\ MaxSize \in Nat /\ MaxLinks \in Nat
                         /\ \A n \in 1 .. MaxSize : /\ n \in DOMAIN SizeClass
                                                     /\ SizeClass[n] \in Nat
                                                     /\ SizeClass[n] >= n
ASSUME HeapAssumption == /\ NULL \notin Buffers /\ ZERO \notin Buffers /\ NULL # ZERO
                         /\ \A p \in Payloads : p \in Seq(Cells)

Pointers == Buffers \cup {NULL, ZERO}

Entry == [ino : Inos, dir : BOOLEAN, nlink : Nat \ {0}, data : Pointers, size : Sizes, at : Nat]

Init == /\ mounted = TRUE
        /\ ent = <<>>
        /\ nextIno = FirstIno
        /\ mem = <<>>
        /\ twice = {}

-----------------------------------------------------------------------------
(* The walk of the tree *)

LinksOf(x) == {k \in DOMAIN ent : ent[k].ino = x}

Earliest(t, K) == CHOOSE k \in K : \A l \in K : t[k].at <= t[l].at

\* vtfs_find_file_by_ino: the entry of x that the walk meets first.
First(x) == Earliest(ent, LinksOf(x))

\* vtfs_get_dir: an inode number that leads to a list of entries.
IsDir(d) == d = RootIno \/ (LinksOf(d) # {} /\ ent[First(d)].dir)

RegularFiles == {x \in Inos : LinksOf(x) # {} /\ ~ent[First(x)].dir}

\* The entries after directory d that are not beneath it: their directory is
\* neither d nor one that the walk meets between d and the entry.
Beyond(d) ==
  IF d = RootIno THEN {}
  ELSE {k \in DOMAIN ent :
          /\ ent[k].at > ent[First(d)].at
          /\ \A l \in DOMAIN ent :
               ent[First(d)].at <= ent[l].at /\ ent[l].at < ent[k].at => ent[l].ino # k[1]}

\* Fault: new entries go to the end of the walk instead of their directory's list.
Place_AtEnd(d) == Cardinality(DOMAIN ent) + 1

\* list_add_tail to the list of d: the new entry's place in the walk.
Place(d) ==
  IF Beyond(d) = {} THEN Cardinality(DOMAIN ent) + 1
  ELSE ent[Earliest(ent, Beyond(d))].at

With(t, k, e) ==
  [l \in DOMAIN t \cup {k} |->
     IF l = k THEN e
     ELSE IF t[l].at >= e.at THEN [t[l] EXCEPT !.at = @ + 1] ELSE t[l]]

Without(t, K) ==
  [l \in DOMAIN t \ K |->
     [t[l] EXCEPT !.at = Cardinality({m \in DOMAIN t \ K : t[m].at <= t[l].at})]]

\* Fault: vtfs_update_nlink_all without its recursion into directories.
SetNlink_RootOnly(t, x, n) ==
  [k \in DOMAIN t |-> IF t[k].ino = x /\ k[1] = RootIno THEN [t[k] EXCEPT !.nlink = n] ELSE t[k]]

\* vtfs_update_nlink_all
SetNlink(t, x, n) == [k \in DOMAIN t |-> IF t[k].ino = x THEN [t[k] EXCEPT !.nlink = n] ELSE t[k]]

\* Faults: vtfs_update_data_all compares only the pointer; only the root's list.
UpdateDataAll_AnyIno(t, x, old, new, size) ==
  [k \in DOMAIN t |-> IF t[k].data = old THEN [t[k] EXCEPT !.data = new, !.size = size] ELSE t[k]]

UpdateDataAll_RootOnly(t, x, old, new, size) ==
  [k \in DOMAIN t |-> IF t[k].ino = x /\ t[k].data = old /\ k[1] = RootIno
                      THEN [t[k] EXCEPT !.data = new, !.size = size] ELSE t[k]]

\* vtfs_update_data_all: only the entries that still hold the old pointer.
UpdateDataAll(t, x, old, new, size) ==
  [k \in DOMAIN t |-> IF t[k].ino = x /\ t[k].data = old
                      THEN [t[k] EXCEPT !.data = new, !.size = size] ELSE t[k]]

UpdateOne(t, f, new, size) == [t EXCEPT ![f] = [@ EXCEPT !.data = new, !.size = size]]

-----------------------------------------------------------------------------
(* The heap *)

Free(m, B) == [b \in DOMAIN m \ B |-> m[b]]

Fresh == Buffers \ DOMAIN mem

\* krealloc(p, n): every pointer it can return, with the memory after it.  It
\* stays in place while n fits the buffer, however small n is.
Krealloc(p, n) ==
  IF n = 0 THEN {[ptr |-> ZERO, mem |-> Free(mem, {p})]}
  ELSE IF p \in DOMAIN mem /\ n <= Len(mem[p]) THEN {[ptr |-> p, mem |-> mem]}
  ELSE {[ptr |-> b,
         mem |-> [c \in (DOMAIN mem \ {p}) \cup {b} |->
                    IF c # b THEN mem[c]
                    ELSE [i \in 1 .. SizeClass[n] |->
                            IF p \in DOMAIN mem /\ i <= Len(mem[p]) THEN mem[p][i] ELSE Junk]]]
        : b \in Fresh}

\* memcpy of a sequence of cells to m[b] + off
Poke(m, b, off, s) ==
  [c \in DOMAIN m |->
     IF c = b THEN [i \in 1 .. Len(m[c]) |-> IF i - off \in 1 .. Len(s) THEN s[i - off] ELSE m[c][i]]
     ELSE m[c]]

\* Fault: the memset stops one byte short of the offset.
Zeros_OneShort(n) == [i \in 1 .. n |-> IF i = n THEN Junk ELSE Nul]

Zeros(n) == [i \in 1 .. n |-> Nul]

\* What a read of the whole file returns: vtfs_read uses the first entry.
Content(x) ==
  LET e == ent[First(x)] IN
    IF e.data \in DOMAIN mem THEN [i \in 1 .. e.size |-> mem[e.data][i]] ELSE <<>>

-----------------------------------------------------------------------------
(* Handlers on names.  A handler that returns an error before it changes   *)
(* anything is a stutter and has no disjunct.                              *)

NewEntry(k, isDir) == [ino |-> nextIno, dir |-> isDir, nlink |-> 1,
                       data |-> NULL, size |-> 0, at |-> Place(k[1])]

\* vtfs_create and vtfs_mkdir.  next_ino is taken before vtfs_create_file runs
\* and stays taken when kmalloc or new_inode then fails.
Make(k, isDir) ==
  /\ mounted
  /\ IsDir(k[1]) /\ k \notin DOMAIN ent
  /\ nextIno <= LastIno
  /\ nextIno' = nextIno + 1
  /\ \/ ent' = With(ent, k, NewEntry(k, isDir))
     \/ "nomem" \in Faults /\ UNCHANGED ent
  /\ UNCHANGED <<mounted, mem, twice>>

Create(k) == Make(k, FALSE)
Mkdir(k)  == Make(k, TRUE)

\* vtfs_link: the new entry copies the first entry's data pointer and size.
Link(k, x) ==
  /\ mounted
  /\ x \in RegularFiles /\ IsDir(k[1]) /\ k \notin DOMAIN ent
  /\ LET e == ent[First(x)] IN
       /\ e.nlink < MaxLinks
       /\ ent' = SetNlink(With(ent, k, [e EXCEPT !.at = Place(k[1])]), x, e.nlink + 1)
  /\ UNCHANGED <<mounted, nextIno, mem, twice>>

\* Faults: everything goes one link too early; the data goes with any link.
Unlink_TooEarly(k) ==
  /\ mounted
  /\ k \in DOMAIN ent /\ ~ent[k].dir
  /\ LET x == ent[k].ino
         n == ent[First(x)].nlink - 1
     IN /\ ent' = Without(SetNlink(ent, x, n), IF n <= 1 THEN LinksOf(x) ELSE {k})
        /\ mem' = IF n <= 1 THEN Free(mem, {ent[k].data}) ELSE mem
  /\ UNCHANGED <<mounted, nextIno, twice>>

Unlink_FreesData(k) ==
  /\ mounted
  /\ k \in DOMAIN ent /\ ~ent[k].dir
  /\ LET x == ent[k].ino
         n == ent[First(x)].nlink - 1
     IN ent' = Without(SetNlink(ent, x, n), IF n = 0 THEN LinksOf(x) ELSE {k})
  /\ mem' = Free(mem, {ent[k].data})
  /\ UNCHANGED <<mounted, nextIno, twice>>

\* vtfs_unlink: the count comes from the first entry of the inode, the buffer
\* to free from the entry that goes; at zero every entry of the inode goes.
Unlink(k) ==
  /\ mounted
  /\ k \in DOMAIN ent /\ ~ent[k].dir
  /\ LET x == ent[k].ino
         n == ent[First(x)].nlink - 1
     IN /\ ent' = Without(SetNlink(ent, x, n), IF n = 0 THEN LinksOf(x) ELSE {k})
        /\ mem' = IF n = 0 THEN Free(mem, {ent[k].data}) ELSE mem
  /\ UNCHANGED <<mounted, nextIno, twice>>

\* Fault: vtfs_rmdir without its list_empty check.
Rmdir_NotEmpty(k) ==
  /\ mounted
  /\ k \in DOMAIN ent /\ ent[k].dir
  /\ ent' = Without(ent, {k})
  /\ UNCHANGED <<mounted, nextIno, mem, twice>>

Rmdir(k) ==
  /\ mounted
  /\ k \in DOMAIN ent /\ ent[k].dir
  /\ \A l \in DOMAIN ent : l[1] # ent[k].ino
  /\ ent' = Without(ent, {k})
  /\ UNCHANGED <<mounted, nextIno, mem, twice>>

-----------------------------------------------------------------------------
(* Handlers on data, through an open file or a path of inode x *)

\* vtfs_write, whose bytes are copied from user space or not.  With O_APPEND the
\* offset is the size of the first entry.  The file grows before the copy.
WriteFile(x, append, o, p, copied) ==
  /\ mounted
  /\ x \in RegularFiles
  /\ LET f   == First(x)
         old == ent[f].data
         off == IF append THEN ent[f].size ELSE o
         n   == off + Len(p)
         grow == n > ent[f].size \/ old = NULL
         gap == IF grow /\ off > ent[f].size THEN off - ent[f].size ELSE 0
     IN /\ n <= MaxSize
        /\ \E r \in IF grow THEN Krealloc(old, n) ELSE {[ptr |-> old, mem |-> mem]} :
             LET zeroed == Poke(r.mem, r.ptr, ent[f].size, Zeros(gap))
             IN /\ ent' = IF ~grow THEN ent
                          ELSE IF old # NULL /\ old # r.ptr
                               THEN UpdateDataAll(ent, x, old, r.ptr, n)
                               ELSE UpdateOne(ent, f, r.ptr, n)
                /\ mem' = IF copied THEN Poke(zeroed, r.ptr, off, p) ELSE zeroed
  /\ UNCHANGED <<mounted, nextIno, twice>>

Write(x, append, o, p) ==
  \/ WriteFile(x, append, o, p, TRUE)
  \/ "copy" \in Faults /\ WriteFile(x, append, o, p, FALSE)

\* vtfs_setattr with ATTR_SIZE (truncate and ftruncate)
Setattr(x, s) ==
  /\ mounted
  /\ x \in RegularFiles
  /\ LET f   == First(x)
         old == ent[f].data
         gap == IF s > ent[f].size THEN s - ent[f].size ELSE 0
     IN /\ s # ent[f].size
        /\ \E r \in Krealloc(old, s) :
             /\ mem' = Poke(r.mem, r.ptr, ent[f].size, Zeros(gap))
             /\ ent' = IF old # r.ptr THEN UpdateDataAll(ent, x, old, r.ptr, s)
                       ELSE UpdateOne(ent, f, r.ptr, s)
  /\ UNCHANGED <<mounted, nextIno, twice>>

\* Faults: O_TRUNC keeps the size; O_TRUNC forgets the kfree.
OpenTrunc_KeepsSize(x) ==
  /\ mounted
  /\ x \in RegularFiles
  /\ LET f == First(x)
     IN /\ ent' = UpdateDataAll(ent, x, ent[f].data, NULL, ent[f].size)
        /\ mem' = Free(mem, {ent[f].data})
  /\ UNCHANGED <<mounted, nextIno, twice>>

OpenTrunc_NoFree(x) ==
  /\ mounted
  /\ x \in RegularFiles
  /\ LET f == First(x)
     IN ent' = UpdateDataAll(ent, x, ent[f].data, NULL, 0)
  /\ UNCHANGED <<mounted, nextIno, mem, twice>>

\* vtfs_open with O_TRUNC.  The vtfs_setattr(0) that the VFS calls next finds
\* the first entry empty and does nothing.
OpenTrunc(x) ==
  /\ mounted
  /\ x \in RegularFiles
  /\ LET f   == First(x)
         old == ent[f].data
     IN /\ ent' = IF old # NULL THEN UpdateDataAll(ent, x, old, NULL, 0)
                  ELSE UpdateOne(ent, f, NULL, 0)
        /\ mem' = Free(mem, {old})
  /\ UNCHANGED <<mounted, nextIno, twice>>

-----------------------------------------------------------------------------
(* Unmounting: vtfs_kill_sb calls vtfs_cleanup_dir, which frees each       *)
(* distinct data pointer of a directory once, one directory after the      *)
(* other.  A pointer whose data_ptr_entry cannot be allocated is not freed. *)

\* Fault: vtfs_cleanup_dir frees the pointer of every entry.
Held_EveryEntry == {<<k, ent[k].data>> : k \in {l \in DOMAIN ent : ent[l].data \in Buffers}}

Held == {<<k[1], ent[k].data>> : k \in {l \in DOMAIN ent : ent[l].data \in Buffers}}

Unmount ==
  /\ mounted
  /\ mounted' = FALSE
  /\ ent' = <<>>
  /\ \E freed \in IF "nomem" \in Faults THEN SUBSET Held ELSE {Held} :
       /\ mem' = Free(mem, {h[2] : h \in freed})
       /\ twice' = {h[2] : h \in {g \in freed : \E g2 \in freed : g2[2] = g[2] /\ g2 # g}}
  /\ UNCHANGED nextIno

Mount ==
  /\ ~mounted
  /\ mounted' = TRUE
  /\ ent' = <<>>
  /\ nextIno' = FirstIno
  /\ twice' = {}
  /\ UNCHANGED mem

Keys == (Inos \cup {RootIno}) \X Names

Next ==
  \/ \E k \in Keys : \/ Create(k) \/ Mkdir(k) \/ Unlink(k) \/ Rmdir(k)
                     \/ \E x \in Inos : Link(k, x)
  \/ \E x \in Inos : \/ \E o \in Sizes, p \in Payloads : Write(x, FALSE, o, p)
                     \/ \E p \in Payloads : Write(x, TRUE, 0, p)
                     \/ \E s \in Sizes : Setattr(x, s)
                     \/ OpenTrunc(x)
  \/ Unmount
  \/ Mount

Spec == Init /\ [][Next]_vars

-----------------------------------------------------------------------------
(* Properties *)

\* Type invariant: the records of struct vtfs_file and the heap they point to.
TypeOK ==
  /\ mounted \in BOOLEAN
  /\ DOMAIN ent \subseteq Keys
  /\ \A k \in DOMAIN ent : ent[k] \in Entry
  /\ nextIno \in FirstIno .. LastIno + 1
  /\ DOMAIN mem \subseteq Buffers
  /\ \A b \in DOMAIN mem : mem[b] \in Seq(Cells)
  /\ twice \subseteq Buffers

\* The walk that picks the first entry of an inode goes depth first: a directory
\* comes before its entries, and whatever the walk meets between the two lies
\* in that directory or beneath it, wherever entries were added and removed.
WalkOrder ==
  \A k, d \in DOMAIN ent : ent[d].ino = k[1] =>
    /\ ent[d].at < ent[k].at
    /\ \A m \in DOMAIN ent :
         ent[d].at < ent[m].at /\ ent[m].at < ent[k].at =>
           \E l \in DOMAIN ent : /\ ent[d].at <= ent[l].at /\ ent[l].at < ent[m].at
                                  /\ ent[l].ino = m[1]

\* The link count that vtfs_getattr reports, and that vtfs_unlink compares with
\* zero before it frees the data and every entry of the inode, is the number
\* of names the file has, in whatever directories they are.
NlinkExact == \A k \in DOMAIN ent : ent[k].nlink = Cardinality(LinksOf(ent[k].ino))

\* No entry outlives its directory, and a directory has one name, in a
\* directory with a smaller inode number: the recursive walks of the tree end,
\* and they take the semaphores of directories in increasing order.
TreeShape ==
  \A k \in DOMAIN ent :
    /\ IsDir(k[1])
    /\ ent[k].dir => k[1] < ent[k].ino /\ LinksOf(ent[k].ino) = {k}

\* No entry points to a buffer that kfree or krealloc has released: krealloc
\* moves every entry that shares the buffer, and a shared buffer is not freed.
NoDangling == \A k \in DOMAIN ent : ent[k].data \in Buffers => ent[k].data \in DOMAIN mem

\* A buffer belongs to one file: entries that share it have the same inode.
OneOwner ==
  \A k, l \in DOMAIN ent :
    ent[k].data \in Buffers /\ ent[k].data = ent[l].data => ent[k].ino = ent[l].ino

\* vtfs_read copies data_size bytes at most, so no entry, and no hard link
\* left with an older size, may claim more bytes than its buffer holds.
SizeFits ==
  \A k \in DOMAIN ent :
    ent[k].size <= IF ent[k].data \in DOMAIN mem THEN Len(mem[ent[k].data]) ELSE 0

\* Unmounting frees no buffer twice as long as no file has names in two
\* directories (vtfs_cleanup_dir compares pointers within one directory).
UnmountFreesOnce ==
  [][ mounted /\ ~mounted' /\ (\A k, l \in DOMAIN ent : ent[k].ino = ent[l].ino => k[1] = l[1])
      => twice' = {} ]_vars

\* The files that a step neither makes, removes nor gives another first entry,
\* and whose content it changes.
Changed == {x \in RegularFiles : /\ x \in RegularFiles'
                                 /\ First(x)' = First(x)
                                 /\ Content(x)' # Content(x)}

\* A step that adds or removes names changes no file's content while the file
\* keeps its first entry, and a step on data changes one file at most.
ContentIsolation ==
  [][ mounted /\ mounted' =>
        Cardinality(Changed) <= IF DOMAIN ent' = DOMAIN ent THEN 1 ELSE 0 ]_vars

\* Without hard links every allocated buffer is the data of an entry, so that
\* nothing is allocated once the file system is unmounted.
NoLeak == DOMAIN mem \subseteq {ent[k].data : k \in DOMAIN ent}

\* The tree implements the name space: a step adds one name or removes one
\* name; vtfs_remove_all_by_ino never takes a name that was not unlinked.
NS == INSTANCE NameSpace WITH names <- [k \in DOMAIN ent |-> ent[k].ino],
                              dirs  <- {ent[k].ino : k \in {l \in DOMAIN ent : ent[l].dir}}
ImplementsNameSpace == NS!NSSpec

\* Without hard links and failing copies, reads see POSIX file contents.
PX == INSTANCE PosixFs WITH names <- [k \in DOMAIN ent |-> ent[k].ino],
                            dirs  <- {ent[k].ino : k \in {l \in DOMAIN ent : ent[l].dir}},
                            data  <- [x \in RegularFiles |-> Content(x)]
ImplementsPosixFs == PX!PosixSpec

\* README.md: "Hard link support (multiple directory entries pointing to same
\* file)".  Removing one name of a file leaves the file's content to the names
\* that remain.
LinksKeepContent ==
  [][ \A x \in RegularFiles :
        (\E k \in LinksOf(x) : Unlink(k)) /\ x \in RegularFiles' => Content(x)' = Content(x) ]_vars
=============================================================================
