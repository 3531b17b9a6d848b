------------------------------ MODULE VtfsRaces ------------------------------
(***************************************************************************)
(* vtfs_create, vtfs_link and vtfs_unlink in RAM mode when threads run     *)
(* them at the same time: a handler is cut wherever it has released a      *)
(* semaphore, and where it uses a field that none protects.  What keeps    *)
(* handlers apart is what the VFS has locked: the inode of the directory,  *)
(* and the inode of the file that is linked or unlinked.  That is a lock   *)
(* of one inode object: vtfs_lookup makes a new object for every name that *)
(* it looks up.                                                            *)
(*                                                                         *)
(* The directories are fixed, in the order in which a walk enters them;    *)
(* contents of files are left out.  A walk that only looks for an entry is *)
(* one step.                                                               *)
(***************************************************************************)
EXTENDS Integers, FiniteSets

CONSTANTS Threads,    \* threads that call handlers
          LastDir,    \* the directories are 0 .. LastDir, the root first
          Names,      \* names of entries
          FirstIno,   \* next_ino of a new file system
          LastIno,    \* BOUND: no file is created once next_ino is larger
          LastEntry,  \* BOUND: entries are 1 .. LastEntry, in the order of the lists;
                      \* nothing is called while a count is further from zero
          Objects,    \* BOUND: inode objects of the VFS
          Idle        \* no call, no entry

ASSUME NumbersAssumption == LastDir \in Nat /\ LastEntry \in Nat /\ FirstIno \in Nat \ {0}

VARIABLES file,       \* entry |-> struct vtfs_file, from kmalloc to kfree
          listed,     \* the entries that are in the list of their directory
          next_ino,   \* vtfs_fs_info.next_ino
          dentry,     \* <<directory, name>> |-> the inode object the VFS has for it
          number,     \* inode object |-> i_ino
          call        \* the handler that each thread is in

vars == <<file, listed, next_ino, dentry, number, call>>

Dirs    == 0 .. LastDir
Entries == 1 .. LastEntry
Counts  == 0 .. LastEntry

Places == {"start", "loaded", "stored", "listed", "found", "added", "count", "remove"}

Calls == [do : {"create", "link", "unlink"}, at : Places, dir : Dirs, name : Names,
          inode : Objects, ino : Nat, entry : Entries \cup {Idle}, main : Entries \cup {Idle},
          nlink : Int, walk : 0 .. LastDir + 1]

ASSUME IdleAssumption == Idle \notin Calls \cup Entries

Init == /\ file = <<>> /\ listed = {} /\ next_ino = FirstIno
        /\ dentry = <<>> /\ number = <<>>
        /\ call = [t \in Threads |-> Idle]

-----------------------------------------------------------------------------
(* The tree *)

At(d, n)   == {e \in listed : file[e].dir = d /\ file[e].name = n}
LinksOf(x) == {e \in listed : file[e].ino = x}

\* vtfs_find_file_by_ino: the first in the order of the walk
First(x) == CHOOSE e \in LinksOf(x) :
              \A k \in LinksOf(x) : \/ file[e].dir < file[k].dir
                                    \/ file[e].dir = file[k].dir /\ e <= k

\* A count read through a pointer to an entry that may have been freed
CountsAt(e) == IF e \in DOMAIN file THEN {file[e].nlink} ELSE Counts

NewEntries == {e \in Entries \ DOMAIN file : \A k \in listed : k < e}

Add(e, d, n, x, c) ==
  [k \in DOMAIN file \cup {e} |->
     IF k = e THEN [dir |-> d, name |-> n, ino |-> x, nlink |-> c] ELSE file[k]]

Without(E) == [k \in DOMAIN file \ E |-> file[k]]

-----------------------------------------------------------------------------
(* The VFS *)

Busy(t) == call[t] # Idle

FreshObjects ==
  Objects \ ({dentry[k] : k \in DOMAIN dentry} \cup {call[t].inode : t \in {u \in Threads : Busy(u)}})

Unlocked(d, o) == \A t \in Threads : Busy(t) => call[t].dir # d /\ call[t].inode # o

Call(t, do, d, n, o) ==
  /\ call' = [call EXCEPT ![t] = [do |-> do, at |-> "start", dir |-> d, name |-> n, inode |-> o,
                                  ino |-> IF do = "create" THEN 0 ELSE number[o],
                                  entry |-> Idle, main |-> Idle, nlink |-> 0, walk |-> 0]]
  /\ UNCHANGED <<file, listed, next_ino, dentry>>

Start(t) ==
  /\ ~Busy(t)
  /\ \A e \in DOMAIN file : file[e].nlink \in -LastEntry .. LastEntry
  /\ \E d \in Dirs, n \in Names :
       \/ /\ <<d, n>> \notin DOMAIN dentry /\ At(d, n) = {} /\ next_ino <= LastIno
          /\ \E o \in FreshObjects :
               Unlocked(d, o) /\ Call(t, "create", d, n, o) /\ UNCHANGED number
       \/ /\ <<d, n>> \notin DOMAIN dentry /\ At(d, n) = {}
          /\ \E k \in DOMAIN dentry :
               Unlocked(d, dentry[k]) /\ Call(t, "link", d, n, dentry[k]) /\ UNCHANGED number
       \/ /\ <<d, n>> \in DOMAIN dentry
          /\ Unlocked(d, dentry[<<d, n>>])
          /\ Call(t, "unlink", d, n, dentry[<<d, n>>]) /\ UNCHANGED number

\* A dentry that was dropped from the cache is looked up again: vtfs_lookup makes
\* a new inode object for it.
Lookup ==
  \E k \in DOMAIN dentry, o \in FreshObjects :
    /\ Unlocked(k[1], dentry[k])
    /\ dentry' = [dentry EXCEPT ![k] = o]
    /\ number' = [p \in DOMAIN number \cup {o} |-> IF p = o THEN number[dentry[k]] ELSE number[p]]
    /\ UNCHANGED <<file, listed, next_ino, call>>

Doing(t, do, at) == Busy(t) /\ call[t].do = do /\ call[t].at = at

Return(t) == call' = [call EXCEPT ![t] = Idle]

\* d_add, d_instantiate; and the end of a dentry whose name is gone
Instantiate(t) ==
  LET k == <<call[t].dir, call[t].name>>
  IN dentry' = [j \in DOMAIN dentry \cup {k} |-> IF j = k THEN call[t].inode ELSE dentry[j]]

Drop(t) == dentry' = [k \in DOMAIN dentry \ {<<call[t].dir, call[t].name>>} |-> dentry[k]]

-----------------------------------------------------------------------------
(* vtfs_create.  next_ino++ is a load and a store. *)

LoadNumber(t) ==
  /\ Doing(t, "create", "start")
  /\ call' = [call EXCEPT ![t].at = "loaded", ![t].ino = next_ino]
  /\ UNCHANGED <<file, listed, next_ino, dentry, number>>

StoreNumber(t) ==
  /\ Doing(t, "create", "loaded")
  /\ next_ino' = call[t].ino + 1
  /\ call' = [call EXCEPT ![t].at = "stored"]
  /\ UNCHANGED <<file, listed, dentry, number>>

\* vtfs_create_file, which may not get memory, and d_add; or vtfs_get_inode gets none
\* for the inode of the entry that is now in the list.
CreateFile(t) ==
  /\ Doing(t, "create", "stored")
  /\ \/ \E e \in NewEntries :
          LET c == call[t] IN
            /\ file' = Add(e, c.dir, c.name, c.ino, 1)
            /\ listed' = listed \cup {e}
            /\ \/ /\ number' = [o \in DOMAIN number \cup {c.inode} |-> IF o = c.inode THEN c.ino ELSE number[o]]
                  /\ Instantiate(t) /\ Return(t)
               \/ /\ call' = [call EXCEPT ![t].at = "listed"]
                  /\ UNCHANGED <<dentry, number>>
     \/ Return(t) /\ UNCHANGED <<file, listed, number, dentry>>
  /\ UNCHANGED next_ino

\* vtfs_remove_file: what has the name in the directory by now is freed.
RemoveFile(t) ==
  /\ Doing(t, "create", "listed")
  /\ LET gone == At(call[t].dir, call[t].name)
     IN file' = Without(gone) /\ listed' = listed \ gone
  /\ Return(t)
  /\ UNCHANGED <<next_ino, dentry, number>>

-----------------------------------------------------------------------------
(* vtfs_link and vtfs_unlink *)

\* vtfs_get_file_by_inode; without an entry the handler returns -ENOENT.
FindMain(t) ==
  /\ Busy(t) /\ call[t].do \in {"link", "unlink"} /\ call[t].at = "start"
  /\ IF LinksOf(call[t].ino) = {} THEN Return(t)
     ELSE call' = [call EXCEPT ![t].at = "found", ![t].main = First(call[t].ino)]
  /\ UNCHANGED <<file, listed, next_ino, dentry, number>>

\* Fault: the count of the file is not raised (file->nlink++ is missing)
AddLink_OldCount(t) ==
  /\ Doing(t, "link", "found")
  /\ \/ \E e \in NewEntries, n \in CountsAt(call[t].main) :
          /\ file' = Add(e, call[t].dir, call[t].name, call[t].ino, n)
          /\ listed' = listed \cup {e}
          /\ call' = [call EXCEPT ![t].at = "added"]
     \/ Return(t) /\ UNCHANGED <<file, listed>>
  /\ UNCHANGED <<next_ino, dentry, number>>

\* The new entry, under the semaphore of its directory; there may be no memory.
AddLink(t) ==
  /\ Doing(t, "link", "found")
  /\ LET c == call[t] IN
       \/ \E e \in NewEntries, n \in CountsAt(c.main) :
            /\ file' = LET added == Add(e, c.dir, c.name, c.ino, n + 1)
                       IN [k \in DOMAIN added |->
                             IF k = c.main THEN [added[k] EXCEPT !.nlink = n + 1] ELSE added[k]]
            /\ listed' = listed \cup {e}
            /\ call' = [call EXCEPT ![t].at = "added"]
       \/ Return(t) /\ UNCHANGED <<file, listed>>
  /\ UNCHANGED <<next_ino, dentry, number>>

\* After the semaphore is released the count is read again.
ReadCount(t) ==
  /\ Doing(t, "link", "added")
  /\ \E n \in CountsAt(call[t].main) : call' = [call EXCEPT ![t].at = "count", ![t].nlink = n]
  /\ UNCHANGED <<file, listed, next_ino, dentry, number>>

\* The entry leaves its list, under the semaphore of its directory; the count is
\* that of the first entry.  Counts are unsigned: -1 stands for the largest.
RemoveName(t) ==
  /\ Doing(t, "unlink", "found")
  /\ LET c == call[t]
         own == {e \in At(c.dir, c.name) : file[e].ino = c.ino}
     IN \/ own = {} /\ Return(t) /\ UNCHANGED listed
        \/ \E e \in own, n \in CountsAt(c.main) :
             /\ listed' = listed \ {e}
             /\ call' = [call EXCEPT ![t].at = "count", ![t].entry = e, ![t].nlink = n - 1]
  /\ UNCHANGED <<file, next_ino, dentry, number>>

\* Fault: the walk does not enter the directories beneath the root
UpdateNlink_RootOnly(t) ==
  /\ Busy(t) /\ call[t].at = "count" /\ call[t].walk <= LastDir
  /\ file' = [e \in DOMAIN file |->
                IF e \in LinksOf(call[t].ino) /\ file[e].dir = 0
                THEN [file[e] EXCEPT !.nlink = call[t].nlink] ELSE file[e]]
  /\ call' = [call EXCEPT ![t].walk = LastDir + 1]
  /\ UNCHANGED <<listed, next_ino, dentry, number>>

\* vtfs_update_nlink_all, one directory a step
UpdateNlink(t) ==
  /\ Busy(t) /\ call[t].at = "count" /\ call[t].walk <= LastDir
  /\ file' = [e \in DOMAIN file |->
                IF e \in LinksOf(call[t].ino) /\ file[e].dir = call[t].walk
                THEN [file[e] EXCEPT !.nlink = call[t].nlink] ELSE file[e]]
  /\ call' = [call EXCEPT ![t].walk = @ + 1]
  /\ UNCHANGED <<listed, next_ino, dentry, number>>

Linked(t) ==
  /\ Doing(t, "link", "count") /\ call[t].walk > LastDir
  /\ Instantiate(t) /\ Return(t)
  /\ UNCHANGED <<file, listed, next_ino, number>>

\* Fault: kfree(file) only where the data is freed as well
FreeEntry_WithData(t) ==
  /\ Doing(t, "unlink", "count") /\ call[t].walk > LastDir
  /\ IF call[t].nlink = 0
     THEN /\ file' = Without({call[t].entry})
          /\ call' = [call EXCEPT ![t].at = "remove", ![t].walk = 0] /\ UNCHANGED dentry
     ELSE Return(t) /\ Drop(t) /\ UNCHANGED file
  /\ UNCHANGED <<listed, next_ino, number>>

\* kfree(file); the handler is done unless the count is zero.
FreeEntry(t) ==
  /\ Doing(t, "unlink", "count") /\ call[t].walk > LastDir
  /\ file' = Without({call[t].entry})
  /\ IF call[t].nlink = 0
     THEN call' = [call EXCEPT ![t].at = "remove", ![t].walk = 0] /\ UNCHANGED dentry
     ELSE Return(t) /\ Drop(t)
  /\ UNCHANGED <<listed, next_ino, number>>

\* Fault: vtfs_remove_all_by_ino without the comparison of numbers
RemoveAll_AnyNumber(t) ==
  /\ Doing(t, "unlink", "remove")
  /\ IF call[t].walk > LastDir
     THEN Return(t) /\ Drop(t) /\ UNCHANGED <<file, listed>>
     ELSE LET gone == {e \in listed : file[e].dir = call[t].walk}
          IN /\ file' = Without(gone)
             /\ listed' = listed \ gone
             /\ call' = [call EXCEPT ![t].walk = @ + 1]
             /\ UNCHANGED dentry
  /\ UNCHANGED <<next_ino, number>>

\* vtfs_remove_all_by_ino, one directory a step; then the data is freed.
RemoveAll(t) ==
  /\ Doing(t, "unlink", "remove")
  /\ IF call[t].walk > LastDir
     THEN Return(t) /\ Drop(t) /\ UNCHANGED <<file, listed>>
     ELSE LET gone == {e \in LinksOf(call[t].ino) : file[e].dir = call[t].walk}
          IN /\ file' = Without(gone)
             /\ listed' = listed \ gone
             /\ call' = [call EXCEPT ![t].walk = @ + 1]
             /\ UNCHANGED dentry
  /\ UNCHANGED <<next_ino, number>>

-----------------------------------------------------------------------------
Handler(t) ==
  \/ LoadNumber(t) \/ StoreNumber(t) \/ CreateFile(t) \/ RemoveFile(t)
  \/ FindMain(t) \/ AddLink(t) \/ ReadCount(t) \/ RemoveName(t) \/ UpdateNlink(t)
  \/ Linked(t) \/ FreeEntry(t) \/ RemoveAll(t)

\* vtfs_kill_sb frees the entries that are in the lists; the next mount begins anew.
Remount ==
  /\ \A t \in Threads : ~Busy(t)
  /\ file' = Without(listed) /\ listed' = {} /\ next_ino' = FirstIno
  /\ dentry' = <<>> /\ number' = <<>>
  /\ UNCHANGED call

Next == Lookup \/ Remount \/ \E t \in Threads : Start(t) \/ Handler(t)

Spec == Init /\ [][Next]_vars

-----------------------------------------------------------------------------
(* Steps in which the two things do not happen that break the tree: the    *)
(* load and the store of next_ino++ in one create do not overlap with those *)
(* in another, and no file has two inode objects, since the VFS keeps the  *)
(* dentries of a file with several names.                                  *)

OneCounting == \A t, u \in Threads :
                 Doing(t, "create", "loaded") /\ Doing(u, "create", "loaded") => t = u

OneObject == \A k, l \in DOMAIN dentry :
               number[dentry[k]] = number[dentry[l]] => dentry[k] = dentry[l]

KeptApart == OneCounting' /\ (Lookup => OneObject')

ApartSpec == Init /\ [][Next /\ KeptApart]_vars

-----------------------------------------------------------------------------
(* Properties *)

\* The fields have the types of vtfs.c's, and every dentry leads to an inode with a number.
TypeOK ==
  /\ DOMAIN file \subseteq Entries /\ listed \subseteq Entries
  /\ \A e \in DOMAIN file : file[e] \in [dir : Dirs, name : Names, ino : Nat, nlink : Int]
  /\ next_ino \in Nat
  /\ DOMAIN dentry \subseteq Dirs \X Names
  /\ \A k \in DOMAIN dentry : dentry[k] \in DOMAIN number
  /\ DOMAIN number \subseteq Objects
  /\ \A o \in DOMAIN number : number[o] \in Nat
  /\ call \in [Threads -> Calls \cup {Idle}]

\* Whatever overlaps, an entry is freed once and none is lost: what is allocated is
\* in a list or about to be freed by one thread (list_del and kfree in vtfs_unlink,
\* vtfs_remove_all_by_ino, vtfs_remove_file).
Freeing(t) == Doing(t, "unlink", "count")

EntriesOnce ==
  /\ DOMAIN file = listed \cup {call[t].entry : t \in {u \in Threads : Freeing(u)}}
  /\ \A t \in Threads : Freeing(t) =>
       /\ call[t].entry \notin listed
       /\ \A u \in Threads : Freeing(u) /\ call[u].entry = call[t].entry => u = t

\* The entry that vtfs_get_file_by_inode has returned is not freed while vtfs_link or
\* vtfs_unlink uses it, although no semaphore is held.
PointersLive ==
  \A t \in Threads : Busy(t) /\ call[t].at \in {"found", "added"} => call[t].main \in DOMAIN file

\* vtfs_update_nlink_all has left the right count in every entry of a file on which
\* no thread works.
CountsSettle ==
  \A e \in listed :
    (\A t \in Threads : Busy(t) => call[t].ino # file[e].ino)
      => file[e].nlink = Cardinality(LinksOf(file[e].ino))

\* README.md: "The file system supports standard POSIX operations including
\* file/directory creation, reading, writing, deletion, hard links".  vtfs_unlink
\* takes every entry with the file's number out of the tree, and frees the data,
\* when the name that it removes is the last with that number.
LastName == \A t \in Threads : Doing(t, "unlink", "remove") => LinksOf(call[t].ino) = {}
=============================================================================
