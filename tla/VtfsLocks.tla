----------------------------- MODULE VtfsLocks -----------------------------
(***************************************************************************)
(* The semaphores of the directories (struct vtfs_dir, sem) as handlers    *)
(* that overlap in time take them.  Of the tree only the directories are   *)
(* kept, each with a number, its inode number, that is larger than that of *)
(* the directory it is in.  A handler is the sequence of its phases:       *)
(*   "find"    a walk of vtfs_find_file_by_ino from the root: it holds     *)
(*             every directory on its path for reading, and can end        *)
(*             anywhere;                                                   *)
(*   "update"  a walk of vtfs_update_nlink_all, vtfs_update_data_all or    *)
(*             vtfs_remove_all_by_ino: each directory for writing, then    *)
(*             for reading while it goes through the directories in it;    *)
(*   "read", "write", "mkdir", "rmdir"  work on the list of one directory; *)
(*   "undo"    mkdir takes its new directory out again, when no inode can  *)
(*             be allocated for it.                                        *)
(*                                                                         *)
(* CONDITION.  Every run and every theorem is under OneCounting: the       *)
(* numbers of directories are counted one at a time.  next_ino++ is under  *)
(* no lock common to two directories and does not see to it; VtfsRaces     *)
(* shows what happens to files when two creates overlap there.             *)
(***************************************************************************)
EXTENDS Naturals, Sequences, FiniteSets

CONSTANTS Threads,    \* threads that run handlers
          Root,       \* the number of the root directory
          LastDir,    \* BOUND: the largest number of a directory
          None        \* no request, no directory

VARIABLES parent,     \* directory |-> the directory it is in; not for the root
          plan,       \* the phases that the handler of each thread has left
          vfs,        \* the directories whose inodes the VFS has locked for it
          held,       \* the semaphores each thread holds for reading
          writes,     \* the semaphore each thread holds for writing, if any
          todo,       \* directories a walk has read in a list and not yet entered
          want,       \* the semaphore each thread waits for
          queue       \* the threads that wait for each semaphore

vars == <<parent, plan, vfs, held, writes, todo, want, queue>>

Dirs  == Root .. LastDir
Walks == {"find", "update"}

Live == {Root} \cup DOMAIN parent

Children(d) == {c \in DOMAIN parent : parent[c] = d}

Phase == [do : Walks \cup {"read", "write", "mkdir", "rmdir", "undo"}, dir : Dirs, child : Dirs \cup {None}]
Lock  == [excl : SUBSET Dirs, shared : SUBSET Dirs]
Want  == [dir : Dirs, mode : {"r", "w"}]

ASSUME NumberAssumption == Root \in Nat /\ LastDir \in Nat /\ Root < LastDir
ASSUME NoneAssumption   == None \notin Dirs \cup Want

Free == [excl |-> {}, shared |-> {}]

Init == /\ parent = <<>>
        /\ plan = [t \in Threads |-> <<>>]
        /\ vfs = [t \in Threads |-> Free]
        /\ held = [t \in Threads |-> {}]
        /\ writes = [t \in Threads |-> {}]
        /\ todo = [t \in Threads |-> {}]
        /\ want = [t \in Threads |-> None]
        /\ queue = [d \in Dirs |-> <<>>]

-----------------------------------------------------------------------------
(* The handlers, with the locks of directory inodes that the VFS takes     *)
(* before it calls them.                                                   *)

Find       == [do |-> "find", dir |-> Root, child |-> None]
Update     == [do |-> "update", dir |-> Root, child |-> None]
On(d, do)  == [do |-> do, dir |-> d, child |-> None]

\* read and getattr; setattr; write and open.  The VFS locks no directory.
OnData == {<<Find>>, <<Find, Update>>, <<Find, Update, Find>>}

\* lookup and iterate
OnList(d) == {<<Find, On(d, "read")>>}

\* create and mkdir, with what they do when the entry or its inode cannot be
\* made; link; unlink of a name, and of the last one
OnNames(d) == {<<Find, On(d, "mkdir")>>,
               <<Find, On(d, "write"), On(d, "read")>>,
               <<Find, On(d, "write"), On(d, "write")>>,
               <<Find, Find, On(d, "write"), Update>>,
               <<Find, Find, On(d, "write"), Update, Update>>}

Unlocked(t, lock) ==
  \A u \in Threads \ {t} : /\ vfs[u].excl \cap (lock.excl \cup lock.shared) = {}
                           /\ vfs[u].shared \cap lock.excl = {}

Undone(t) == IF plan[t] # <<>> /\ Head(plan[t]).do = "undo" THEN {Head(plan[t]).child} ELSE {}

\* The VFS knows no directory before its mkdir has returned, and so none that the
\* mkdir takes out again.
Known == Live \ UNION {Undone(t) : t \in Threads}

\* rmdir has its own directory and the one that goes locked.
Calls ==
  [plan : OnData, lock : {Free}]
  \cup (UNION {[plan : OnList(d), lock : {[excl |-> {}, shared |-> {d}]}] : d \in Known})
  \cup (UNION {[plan : OnNames(d), lock : {[excl |-> {d}, shared |-> {}]}] : d \in Known})
  \cup {[plan |-> <<Find, [do |-> "rmdir", dir |-> parent[c], child |-> c]>>,
         lock |-> [excl |-> {parent[c], c}, shared |-> {}]] : c \in Known \ {Root}}

Start(t) ==
  /\ plan[t] = <<>>
  /\ \E c \in Calls : /\ Unlocked(t, c.lock)
                      /\ plan' = [plan EXCEPT ![t] = c.plan]
                      /\ vfs' = [vfs EXCEPT ![t] = c.lock]
  /\ UNCHANGED <<parent, held, writes, todo, want, queue>>

-----------------------------------------------------------------------------
(* rw_semaphore: first come, first served *)

Request(t, d, mode) ==
  /\ want' = [want EXCEPT ![t] = [dir |-> d, mode |-> mode]]
  /\ queue' = [queue EXCEPT ![d] = Append(@, t)]

Grantable(t) ==
  /\ want[t] # None
  /\ Head(queue[want[t].dir]) = t
  /\ \A u \in Threads : want[t].dir \notin writes[u]
  /\ want[t].mode = "w" => \A u \in Threads : want[t].dir \notin held[u]

Running(t) == plan[t] # <<>> /\ want[t] = None

Doing(t) == Head(plan[t]).do

\* down_read or down_write returns.  A walk then reads the list.
Grant(t) ==
  /\ Grantable(t)
  /\ LET d == want[t].dir IN
       /\ queue' = [queue EXCEPT ![d] = Tail(@)]
       /\ IF want[t].mode = "w"
          THEN writes' = [writes EXCEPT ![t] = {d}] /\ UNCHANGED <<held, todo>>
          ELSE /\ held' = [held EXCEPT ![t] = @ \cup {d}]
               /\ todo' = IF Doing(t) \in Walks THEN [todo EXCEPT ![t] = @ \cup Children(d)] ELSE todo
               /\ UNCHANGED writes
  /\ want' = [want EXCEPT ![t] = None]
  /\ UNCHANGED <<parent, plan, vfs>>

-----------------------------------------------------------------------------
(* The steps of a handler *)

\* Fault: vtfs_rmdir takes the semaphore for reading.
Mode_RmdirReads(do) == IF do \in {"find", "read", "rmdir"} THEN "r" ELSE "w"

Mode(do) == IF do \in {"find", "read"} THEN "r" ELSE "w"

\* Fault: the counter is set back, and gives numbers of before.
NewDirs_Again(d) == Dirs

\* next_ino only grows: a new directory has a larger number than the one it is in.
NewDirs(d) == {c \in Dirs : c > d}

Takes(t, c) == plan[t] # <<>> /\ Doing(t) = "mkdir" /\ Head(plan[t]).child = c

\* CONDITION: the numbers that mkdirs have taken, and not yet used, are those of no
\* directory, and no two of them are equal.
OneCounting ==
  \A t \in Threads : \A c \in Dirs :
    Takes(t, c) => c \notin Live /\ \A u \in Threads \ {t} : ~Takes(u, c)

\* A phase asks for its first semaphore.  mkdir takes its number before it does; it
\* takes none when the bound leaves none.
Begin(t) ==
  /\ Running(t)
  /\ held[t] = {} /\ writes[t] = {}
  /\ Request(t, Head(plan[t]).dir, Mode(Doing(t)))
  /\ IF Doing(t) = "mkdir"
     THEN \E c \in NewDirs(Head(plan[t]).dir) \cup {None} : plan' = [plan EXCEPT ![t][1].child = c]
     ELSE UNCHANGED plan
  /\ UNCHANGED <<parent, vfs, held, writes, todo>>

\* The end of a phase; with the last one the handler returns.
NextPhase(t) ==
  /\ plan' = [plan EXCEPT ![t] = Tail(@)]
  /\ vfs' = IF Tail(plan[t]) = <<>> THEN [vfs EXCEPT ![t] = Free] ELSE vfs

\* What happens to the list before the semaphore is released.  mkdir lists its new
\* directory.  rmdir removes one that is empty of directories and of files; undo
\* does not look.
Effect(p) ==
  \/ (p.do \in {"read", "write", "rmdir"} \/ p.child = None) /\ UNCHANGED parent
  \/ /\ p.do = "mkdir" /\ p.child # None
     /\ parent' = [d \in DOMAIN parent \cup {p.child} |-> IF d = p.child THEN p.dir ELSE parent[d]]
  \/ /\ p.do = "undo" \/ (p.do = "rmdir" /\ Children(p.child) = {})
     /\ parent' = [d \in DOMAIN parent \ {p.child} |-> parent[d]]

\* vtfs_get_inode fails: mkdir goes on to vtfs_remove_file.
UndoNext(t) ==
  /\ Doing(t) = "mkdir" /\ Head(plan[t]).child # None
  /\ plan' = [plan EXCEPT ![t][1].do = "undo"]
  /\ UNCHANGED vfs

OnOneList(t) ==
  /\ Running(t)
  /\ Doing(t) \notin Walks
  /\ held[t] \cup writes[t] # {}
  /\ Effect(Head(plan[t]))
  /\ held' = [held EXCEPT ![t] = {}]
  /\ writes' = [writes EXCEPT ![t] = {}]
  /\ NextPhase(t) \/ UndoNext(t)
  /\ UNCHANGED <<todo, want, queue>>

\* Fault: down_read before up_write.
Updated_Keeps(t) ==
  /\ Running(t)
  /\ Doing(t) = "update"
  /\ \E d \in writes[t] : Request(t, d, "r")
  /\ UNCHANGED <<parent, plan, vfs, held, writes, todo>>

\* The entries of one directory are updated; then its list is read again for the
\* directories in it.
Updated(t) ==
  /\ Running(t)
  /\ Doing(t) = "update"
  /\ \E d \in writes[t] : Request(t, d, "r")
  /\ writes' = [writes EXCEPT ![t] = {}]
  /\ UNCHANGED <<parent, plan, vfs, held, todo>>

\* d is where the walk has got to: the deepest semaphore that it holds.
At(t, d) == d \in held[t] /\ \A e \in held[t] : e <= d

Walking(t) == Running(t) /\ Doing(t) \in Walks /\ held[t] # {} /\ writes[t] = {}

\* Fault: the walk does not go on to the next entry of the list.
Descend_Again(t) ==
  /\ Walking(t)
  /\ \E d \in held[t] : \E c \in todo[t] \cap Children(d) : At(t, d) /\ Request(t, c, Mode(Doing(t)))
  /\ UNCHANGED <<parent, plan, vfs, held, writes, todo>>

Descend(t) ==
  /\ Walking(t)
  /\ \E d \in held[t] : \E c \in todo[t] \cap Children(d) :
       /\ At(t, d)
       /\ todo' = [todo EXCEPT ![t] = @ \ {c}]
       /\ Request(t, c, Mode(Doing(t)))
  /\ UNCHANGED <<parent, plan, vfs, held, writes>>

\* vtfs_find_file_by_ino has found the entry and goes back through its callers.
Found(t) ==
  /\ Walking(t)
  /\ Doing(t) = "find"
  /\ todo[t] # {}
  /\ todo' = [todo EXCEPT ![t] = {}]
  /\ UNCHANGED <<parent, plan, vfs, held, writes, want, queue>>

Ascend(t) ==
  /\ Walking(t)
  /\ \E d \in held[t] :
       /\ At(t, d)
       /\ todo[t] \cap Children(d) = {}
       /\ held' = [held EXCEPT ![t] = @ \ {d}]
       /\ IF held[t] = {d} THEN NextPhase(t) ELSE UNCHANGED <<plan, vfs>>
  /\ UNCHANGED <<parent, writes, todo, want, queue>>

Step(t) == Grant(t) \/ Begin(t) \/ OnOneList(t) \/ Updated(t) \/ Descend(t) \/ Found(t) \/ Ascend(t)

Next == (\E t \in Threads : Start(t) \/ Step(t)) /\ OneCounting'

Spec == Init /\ [][Next]_vars

\* A thread that is in a handler and can go on is run; nobody need start one.
FairSpec == Spec /\ \A t \in Threads : WF_vars(Step(t))
-----------------------------------------------------------------------------
(* Properties *)

\* Type invariant.
TypeOK ==
  /\ DOMAIN parent \subseteq Dirs \ {Root} /\ \A c \in DOMAIN parent : parent[c] \in Dirs
  /\ plan \in [Threads -> Seq(Phase)]
  /\ vfs \in [Threads -> Lock]
  /\ held \in [Threads -> SUBSET Dirs] /\ writes \in [Threads -> SUBSET Dirs]
  /\ todo \in [Threads -> SUBSET Dirs]
  /\ want \in [Threads -> Want \cup {None}]
  /\ queue \in [Dirs -> Seq(Threads)]

\* A thread that waits for a semaphore holds only semaphores of directories above
\* it: whatever walks and handlers overlap, they take them from the root down.
LockOrder ==
  \A t \in Threads : want[t] # None => \A d \in held[t] \cup writes[t] : d < want[t].dir

\* Threads never all wait for one another: while some thread waits, one that is
\* in a handler can go on.
NoDeadlock ==
  (\E t \in Threads : want[t] # None) => \E t \in Threads : Running(t) \/ Grantable(t)

\* vtfs_rmdir, and vtfs_mkdir when it fails after it has listed the directory, free
\* the semaphore of a directory, and the entry that leads to it, when no other
\* thread holds it, waits for it, or is about to use either.
NoFreedSemaphore ==
  \A t \in Threads :
    /\ held[t] \cup writes[t] \cup todo[t] \subseteq Live
    /\ want[t] # None => want[t].dir \in Live
    /\ \A i \in DOMAIN plan[t] : plan[t][i].dir \in Live

\* Every handler returns, although others start for ever and change the tree
\* that it walks.
HandlersReturn == \A t \in Threads : plan[t] # <<>> ~> plan[t] = <<>>
=============================================================================
