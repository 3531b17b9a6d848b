--------------------------- MODULE VtfsLocksProofs ---------------------------
(***************************************************************************)
(* Proofs about VtfsLocks, for all sets of threads, finite or not, and all *)
(* numbers of directories, under the condition of that module: directory   *)
(* numbers are counted one at a time (OneCounting).                        *)
(***************************************************************************)
EXTENDS VtfsLocks, SequenceTheorems, WellFoundedInduction, TLAPS

-----------------------------------------------------------------------------
(* The inductive invariant *)

\* Semaphores that t holds, waits for, or will take on its walk.
Uses(t) == held[t] \cup writes[t] \cup todo[t] \cup {d \in Dirs : want[t] # None /\ want[t].dir = d}

\* A walk uses the root, and directories whose parents it holds.  Other work uses
\* the directory that it is about.
Placed(t) ==
  /\ Uses(t) # {} => plan[t] # <<>>
  /\ todo[t] \subseteq DOMAIN parent
  /\ plan[t] # <<>> /\ Doing(t) \in Walks =>
       \A c \in Uses(t) : c = Root \/ (c \in DOMAIN parent /\ parent[c] \in held[t])
  /\ plan[t] # <<>> /\ Doing(t) \notin Walks =>
       /\ todo[t] = {}
       /\ Uses(t) \subseteq {Head(plan[t]).dir}
       /\ Mode(Doing(t)) = "w" => held[t] = {} /\ (want[t] # None => want[t].mode = "w")

\* A thread waits below what it holds, and never while it holds one for writing.
Ordered(t) ==
  /\ want[t] # None => writes[t] = {} /\ \A d \in held[t] : d < want[t].dir
  /\ \A d \in writes[t], e \in held[t] : e < d

\* The i-th of the n phases that are left suits the tree and the inodes that are
\* locked: work on one list is on a directory whose inode is, and the handlers that
\* add and remove directories end with it.
Suits(p, i, n, lock) ==
  /\ p.do \in Walks => p.dir = Root
  /\ p.do \notin Walks => p.dir \in Live \cap (lock.excl \cup lock.shared)
  /\ p.do \in {"mkdir", "rmdir", "undo"} => i = n /\ p.dir \in lock.excl
  /\ p.do = "mkdir" /\ p.child # None => p.dir < p.child
  /\ p.do = "rmdir" => p.child \in DOMAIN parent \cap lock.excl /\ parent[p.child] = p.dir
  /\ p.do = "undo" => i = 1

Planned(t) ==
  /\ vfs[t].excl \cup vfs[t].shared \subseteq Live
  /\ \A i \in DOMAIN plan[t] : Suits(plan[t][i], i, Len(plan[t]), vfs[t])

\* Nobody has got to a directory that its mkdir takes out again.
Unseen ==
  \A t \in Threads :
    plan[t] # <<>> /\ Doing(t) = "undo" =>
      LET p == Head(plan[t]) IN
        /\ p.child \in DOMAIN parent /\ parent[p.child] = p.dir
        /\ Children(p.child) = {}
        /\ \A u \in Threads : p.child \notin vfs[u].excl \cup vfs[u].shared

Downward == \A c \in DOMAIN parent : parent[c] \in Live /\ parent[c] < c

Queued ==
  /\ \A t \in Threads : want[t] # None => \E i \in DOMAIN queue[want[t].dir] : queue[want[t].dir][i] = t
  /\ \A d \in Dirs : \A i \in DOMAIN queue[d] : want[queue[d][i]] # None /\ want[queue[d][i]].dir = d
  /\ \A d \in Dirs : \A i, j \in DOMAIN queue[d] : queue[d][i] = queue[d][j] => i = j

Exclusive ==
  \A t, u \in Threads :
    t # u => /\ writes[t] \cap (held[u] \cup writes[u]) = {}
             /\ vfs[t].excl \cap (vfs[u].excl \cup vfs[u].shared) = {}

Inv == /\ TypeOK
       /\ Downward
       /\ Queued
       /\ Exclusive
       /\ OneCounting
       /\ Unseen
       /\ \A t \in Threads : Placed(t) /\ Ordered(t) /\ Planned(t)

-----------------------------------------------------------------------------
(* What the invariant implies *)

\* A set of numbers that is bounded has a greatest one.
LEMMA GreatestExists ==
  ASSUME NEW top \in Nat, NEW S, S \subseteq 0 .. top, S # {}
  PROVE  \E n \in S : \A m \in S : m <= n
<1> DEFINE T == {top - n : n \in S}
<1>1. T \subseteq Nat
  OBVIOUS
<1>2. T # {}
  OBVIOUS
<1>3. \A n \in S : top - n \in T
  OBVIOUS
<1>4. \A k \in T : \E n \in S : k = top - n
  OBVIOUS
<1> HIDE DEF T
<1>5. PICK k \in T : \A m \in T : <<m, k>> \notin OpToRel(<, Nat)
  BY <1>1, <1>2, NatLessThanWellFounded, WFMin, Zenon
<1>6. \A m \in T : ~ (m < k)
  BY <1>1, <1>5, Zenon DEF OpToRel
<1>7. PICK n \in S : k = top - n
  BY <1>4
<1>8. \A m \in S : ~ (top - m < top - n)
  BY <1>6, <1>7, <1>3
<1> QED
  BY <1>8

LEMMA InvLockOrder == Inv => LockOrder
<1> SUFFICES ASSUME Inv, NEW t \in Threads, want[t] # None, NEW d \in held[t] \cup writes[t]
             PROVE  d < want[t].dir
  BY DEF LockOrder
<1> QED
  BY DEF Inv, Ordered

\* The thread that waits for the deepest semaphore is held up by one that runs.
LEMMA InvNoDeadlock == Inv => NoDeadlock
<1> SUFFICES ASSUME Inv, \E t \in Threads : want[t] # None
             PROVE  \E t \in Threads : Running(t) \/ Grantable(t)
  BY DEF NoDeadlock
<1> DEFINE wanted == {want[t].dir : t \in {u \in Threads : want[u] # None}}
<1>1. wanted \subseteq 0 .. LastDir /\ wanted # {} /\ LastDir \in Nat
  <2>1. \A t \in Threads : want[t] # None => want[t].dir \in Dirs
    BY DEF Inv, TypeOK, Want
  <2>2. Dirs \subseteq 0 .. LastDir /\ LastDir \in Nat
    BY NumberAssumption DEF Dirs
  <2> QED
    BY <2>1, <2>2
<1>2. PICK d \in wanted : \A e \in wanted : e <= d
  BY <1>1, GreatestExists, Zenon
<1>3. PICK t \in Threads : want[t] # None /\ want[t].dir = d
  OBVIOUS
<1> HIDE DEF wanted
<1>4. d \in Dirs /\ queue[d] \in Seq(Threads) /\ d \in Nat
  BY <1>3, NumberAssumption DEF Inv, TypeOK, Want, Dirs
<1>5. queue[d] # <<>>
  BY <1>3, <1>4 DEF Inv, Queued
<1> DEFINE h == Head(queue[d])
<1>6. h \in Threads /\ want[h] # None /\ want[h].dir = d
  BY <1>4, <1>5 DEF Inv, Queued
<1>7. CASE Grantable(h)
  BY <1>6, <1>7
<1>8. CASE ~Grantable(h)
  <2>1. PICK u \in Threads : d \in held[u] \cup writes[u]
    BY <1>6, <1>8 DEF Grantable
  <2>2. want[u] = None
    <3> SUFFICES ASSUME want[u] # None PROVE FALSE
      OBVIOUS
    <3>1. want[u].dir \in wanted
      BY DEF wanted
    <3>2. d < want[u].dir
      BY <2>1, InvLockOrder DEF LockOrder
    <3>3. want[u].dir \in Nat
      BY NumberAssumption DEF Inv, TypeOK, Want, Dirs
    <3> QED
      BY <1>2, <1>4, <3>1, <3>2, <3>3
  <2>3. plan[u] # <<>>
    BY <2>1 DEF Inv, Placed, Uses
  <2> QED
    BY <2>2, <2>3 DEF Running
<1> QED
  BY <1>7, <1>8

LEMMA InvNoFreedSemaphore == Inv => NoFreedSemaphore
<1> SUFFICES ASSUME Inv, NEW t \in Threads
             PROVE  /\ Uses(t) \subseteq Live
                    /\ \A i \in DOMAIN plan[t] : plan[t][i].dir \in Live
  BY DEF NoFreedSemaphore, Uses, Inv, TypeOK, Want
<1>1. \A i \in DOMAIN plan[t] : plan[t][i].dir \in Live
  BY DEF Inv, Planned, Suits, Live
<1>2. CASE plan[t] = <<>>
  BY <1>1, <1>2 DEF Inv, Placed
<1>3. CASE plan[t] # <<>>
  <2>1. plan[t] \in Seq(Phase)
    BY DEF Inv, TypeOK
  <2>2. Head(plan[t]).dir \in Live
    BY <1>1, <1>3, <2>1
  <2> QED
    BY <1>1, <1>3, <2>2 DEF Inv, Placed, Live
<1> QED
  BY <1>2, <1>3

-----------------------------------------------------------------------------
(* Lemmas about the parts of a step *)

\* A thread whose own variables a step leaves alone, in a tree that it leaves
\* alone, is placed, ordered and planned as before.
LEMMA OthersKeep ==
  ASSUME Inv, NEW u \in Threads, parent' = parent, plan'[u] = plan[u], vfs'[u] = vfs[u],
         held'[u] = held[u], writes'[u] = writes[u], todo'[u] = todo[u], want'[u] = want[u]
  PROVE  Placed(u)' /\ Ordered(u)' /\ Planned(u)'
<1>1. Placed(u) /\ Ordered(u) /\ Planned(u)
  BY DEF Inv
<1>2. Placed(u)'
  BY <1>1 DEF Placed, Uses, Doing, Mode, Walks
<1>3. Ordered(u)'
  BY <1>1 DEF Ordered
<1>4. Planned(u)'
  BY <1>1 DEF Planned, Suits, Live, Walks
<1> QED
  BY <1>2, <1>3, <1>4

\* A request joins the end of its queue.
LEMMA RequestQueues ==
  ASSUME Inv, NEW t \in Threads, want[t] = None, NEW d \in Dirs, NEW mode \in {"r", "w"},
         Request(t, d, mode)
  PROVE  /\ Queued'
         /\ want' \in [Threads -> Want \cup {None}] /\ queue' \in [Dirs -> Seq(Threads)]
         /\ want'[t] # None /\ want'[t].dir = d /\ want'[t].mode = mode
         /\ \A u \in Threads : u # t => want'[u] = want[u]
<1> DEFINE w == [dir |-> d, mode |-> mode]
<1>1. w \in Want /\ w # None /\ w.dir = d /\ w.mode = mode
  BY NoneAssumption DEF Want
<1>2. want \in [Threads -> Want \cup {None}] /\ queue \in [Dirs -> Seq(Threads)]
  BY DEF Inv, TypeOK
<1> HIDE DEF w
<1>3. /\ want' \in [Threads -> Want \cup {None}] /\ queue' \in [Dirs -> Seq(Threads)]
      /\ want'[t] = w /\ \A u \in Threads : u # t => want'[u] = want[u]
      /\ \A e \in Dirs : e # d => queue'[e] = queue[e]
      /\ queue'[d] = Append(queue[d], t)
  BY <1>1, <1>2 DEF Request, w
<1>4. /\ DOMAIN queue'[d] = DOMAIN queue[d] \cup {Len(queue[d]) + 1}
      /\ Len(queue[d]) + 1 \notin DOMAIN queue[d]
      /\ queue'[d][Len(queue[d]) + 1] = t
      /\ \A i \in DOMAIN queue[d] : queue'[d][i] = queue[d][i]
  BY <1>2, <1>3
<1>5. \A e \in Dirs : \A i \in DOMAIN queue[e] : queue[e][i] \in Threads /\ queue[e][i] # t
  BY <1>2 DEF Inv, Queued
<1>6. Queued'
  <2>1. \A u \in Threads :
          want'[u] # None => \E i \in DOMAIN queue'[want'[u].dir] : queue'[want'[u].dir][i] = u
    <3> SUFFICES ASSUME NEW u \in Threads, want'[u] # None
                 PROVE  \E i \in DOMAIN queue'[want'[u].dir] : queue'[want'[u].dir][i] = u
      OBVIOUS
    <3>1. CASE u = t
      BY <1>1, <1>3, <1>4, <3>1
    <3>2. CASE u # t
      <4>1. want'[u] = want[u] /\ want[u].dir \in Dirs
        BY <1>2, <1>3, <3>2 DEF Want
      <4>2. PICK i \in DOMAIN queue[want[u].dir] : queue[want[u].dir][i] = u
        BY <4>1 DEF Inv, Queued
      <4>3. i \in DOMAIN queue'[want[u].dir] /\ queue'[want[u].dir][i] = u
        BY <1>3, <1>4, <4>1, <4>2
      <4> QED
        BY <4>1, <4>3
    <3> QED
      BY <3>1, <3>2
  <2>2. \A e \in Dirs : \A i \in DOMAIN queue'[e] : want'[queue'[e][i]] # None /\ want'[queue'[e][i]].dir = e
    BY <1>1, <1>3, <1>4, <1>5 DEF Inv, Queued
  <2>3. \A e \in Dirs : \A i, j \in DOMAIN queue'[e] : queue'[e][i] = queue'[e][j] => i = j
    <3> SUFFICES ASSUME NEW e \in Dirs, NEW i \in DOMAIN queue'[e], NEW j \in DOMAIN queue'[e],
                        queue'[e][i] = queue'[e][j]
                 PROVE  i = j
      OBVIOUS
    <3>1. CASE e # d
      <4>1. queue'[e] = queue[e]
        BY <1>3, <3>1
      <4>2. \A k, l \in DOMAIN queue[e] : queue[e][k] = queue[e][l] => k = l
        BY DEF Inv, Queued
      <4> QED
        BY <4>1, <4>2
    <3>2. CASE e = d
      <4>1. \A k \in DOMAIN queue[d] : queue'[d][k] # t
        BY <1>4, <1>5
      <4>2. \A k \in DOMAIN queue'[d] : k \in DOMAIN queue[d] \/ k = Len(queue[d]) + 1
        BY <1>4
      <4>3. CASE i \in DOMAIN queue[d] /\ j \in DOMAIN queue[d]
        BY <1>4, <3>2, <4>3 DEF Inv, Queued
      <4>4. CASE i \notin DOMAIN queue[d] \/ j \notin DOMAIN queue[d]
        <5>1. queue'[d][i] = t /\ queue'[d][j] = t
          BY <1>4, <3>2, <4>2, <4>4
        <5> QED
          BY <3>2, <4>1, <4>2, <5>1
      <4> QED
        BY <4>3, <4>4
    <3> QED
      BY <3>1, <3>2
  <2> QED
    BY <2>1, <2>2, <2>3 DEF Queued
<1> QED
  BY <1>1, <1>3, <1>6

\* What a thread that can go on has.
LEMMA RunningHas ==
  ASSUME Inv, NEW t \in Threads, plan[t] # <<>>
  PROVE  /\ Head(plan[t]) \in Phase /\ Head(plan[t]) = plan[t][1] /\ 1 \in DOMAIN plan[t]
         /\ Doing(t) = Head(plan[t]).do /\ Head(plan[t]).dir \in Dirs
         /\ Mode(Doing(t)) \in {"r", "w"}
<1>1. plan[t] \in Seq(Phase)
  BY DEF Inv, TypeOK
<1>2. Head(plan[t]) \in Phase /\ Head(plan[t]) = plan[t][1] /\ 1 \in DOMAIN plan[t]
  BY <1>1
<1> QED
  BY <1>2 DEF Doing, Mode, Phase

\* Who undoes a mkdir goes on to, in a step that adds no lock and leaves the tree
\* alone.
LEMMA StillUnseen ==
  ASSUME Inv, parent' = parent,
         \A u \in Threads : /\ vfs'[u].excl \subseteq vfs[u].excl
                            /\ vfs'[u].shared \subseteq vfs[u].shared
                            /\ plan'[u] = plan[u] \/ plan'[u] = <<>> \/ Head(plan'[u]).do # "undo"
  PROVE  Unseen'
<1> SUFFICES ASSUME NEW t \in Threads, plan'[t] # <<>>, Head(plan'[t]).do = "undo"
             PROVE  LET p == Head(plan'[t]) IN
                      /\ p.child \in DOMAIN parent /\ parent[p.child] = p.dir
                      /\ Children(p.child) = {}
                      /\ \A u \in Threads : p.child \notin vfs'[u].excl \cup vfs'[u].shared
  BY DEF Unseen, Doing, Children
<1>1. plan'[t] = plan[t] /\ Doing(t) = "undo"
  BY DEF Doing
<1> QED
  BY <1>1 DEF Inv, Unseen

\* The first phase that is left becomes another one.
LEMMA HeadChanges ==
  ASSUME NEW s \in Seq(Phase), s # <<>>, NEW q \in Phase
  PROVE  LET r == [s EXCEPT ![1] = q] IN
           /\ r \in Seq(Phase) /\ r # <<>> /\ Head(r) = q /\ r[1] = q
           /\ Len(r) = Len(s) /\ DOMAIN r = DOMAIN s
           /\ \A i \in DOMAIN s : i # 1 => r[i] = s[i]
OBVIOUS

-----------------------------------------------------------------------------
(* The steps keep the invariant. *)

LEMMA BeginKeeps ==
  ASSUME Inv, OneCounting', NEW t \in Threads, Begin(t)
  PROVE  Inv'
<1> DEFINE h == Head(plan[t])
           d == Head(plan[t]).dir
<1>1. /\ want[t] = None /\ plan[t] # <<>> /\ held[t] = {} /\ writes[t] = {}
      /\ Request(t, d, Mode(Doing(t)))
      /\ UNCHANGED <<parent, vfs, held, writes, todo>>
  BY DEF Begin, Running
<1>2. /\ d \in Dirs /\ Mode(Doing(t)) \in {"r", "w"} /\ plan[t] \in Seq(Phase)
      /\ h \in Phase /\ h = plan[t][1] /\ 1 \in DOMAIN plan[t] /\ Doing(t) = h.do
  BY <1>1, RunningHas DEF Inv, TypeOK
<1> HIDE DEF d
<1>3. /\ Queued' /\ want' \in [Threads -> Want \cup {None}] /\ queue' \in [Dirs -> Seq(Threads)]
      /\ want'[t] # None /\ want'[t].dir = d /\ want'[t].mode = Mode(Doing(t))
      /\ \A u \in Threads : u # t => want'[u] = want[u]
  BY <1>1, <1>2, RequestQueues
\* What the number that mkdir takes does to its phase.
<1>4. PICK q \in Phase : /\ q.do = h.do /\ q.dir = h.dir
                         /\ q = h \/ (h.do = "mkdir" /\ (q.child = None \/ h.dir < q.child))
                         /\ plan' = [plan EXCEPT ![t] = [plan[t] EXCEPT ![1] = q]]
  <2>1. CASE Doing(t) = "mkdir"
    <3>1. PICK c \in NewDirs(d) \cup {None} : plan' = [plan EXCEPT ![t][1].child = c]
      BY <2>1 DEF Begin, d
    <3> DEFINE q == [h EXCEPT !.child = c]
    <3>2. c \in Dirs \cup {None} /\ (c = None \/ d < c)
      <4>1. \A e \in Dirs : e \in Nat
        BY NumberAssumption DEF Dirs
      <4> QED
        BY <1>2, <3>1, <4>1 DEF NewDirs
    <3>3. q \in Phase /\ q.do = h.do /\ q.dir = h.dir /\ q.child = c
      BY <1>2, <3>2 DEF Phase
    <3>4. plan' = [plan EXCEPT ![t] = [plan[t] EXCEPT ![1] = q]]
      BY <1>2, <3>1
    <3> HIDE DEF q
    <3> QED
      BY <1>2, <2>1, <3>2, <3>3, <3>4 DEF d
  <2>2. CASE Doing(t) # "mkdir"
    <3>1. plan' = plan
      BY <2>2 DEF Begin
    <3>2. [plan[t] EXCEPT ![1] = h] = plan[t]
      BY <1>2
    <3>3. plan' = [plan EXCEPT ![t] = [plan[t] EXCEPT ![1] = h]]
      BY <3>1, <3>2 DEF Inv, TypeOK
    <3> QED
      BY <1>2, <3>3
  <2> QED
    BY <2>1, <2>2
<1>5. /\ plan' \in [Threads -> Seq(Phase)] /\ plan'[t] # <<>>
      /\ Head(plan'[t]) = q /\ plan'[t][1] = q
      /\ Len(plan'[t]) = Len(plan[t]) /\ DOMAIN plan'[t] = DOMAIN plan[t]
      /\ \A i \in DOMAIN plan[t] : i # 1 => plan'[t][i] = plan[t][i]
      /\ \A u \in Threads : u # t => plan'[u] = plan[u]
  <2> DEFINE r == [plan[t] EXCEPT ![1] = q]
  <2>1. /\ r \in Seq(Phase) /\ r # <<>> /\ Head(r) = q /\ r[1] = q
        /\ Len(r) = Len(plan[t]) /\ DOMAIN r = DOMAIN plan[t]
        /\ \A i \in DOMAIN plan[t] : i # 1 => r[i] = plan[t][i]
    BY <1>1, <1>2, HeadChanges
  <2>2. plan' = [plan EXCEPT ![t] = r] /\ plan \in [Threads -> Seq(Phase)]
    BY <1>4 DEF Inv, TypeOK
  <2> HIDE DEF r
  <2> QED
    BY <2>1, <2>2
<1> HIDE DEF h
<1>6. TypeOK'
  BY <1>1, <1>3, <1>5 DEF Inv, TypeOK
<1>7. Downward' /\ Exclusive'
  BY <1>1 DEF Inv, Downward, Live, Exclusive
<1>8. Placed(t)'
  <2>1. todo[t] = {}
    <3>1. todo[t] \subseteq DOMAIN parent \ {Root} /\ todo[t] \subseteq Uses(t)
      BY DEF Inv, Placed, TypeOK, Uses
    <3>2. CASE Doing(t) \in Walks
      BY <1>1, <3>1, <3>2 DEF Inv, Placed
    <3>3. CASE Doing(t) \notin Walks
      BY <1>1, <3>3 DEF Inv, Placed
    <3> QED
      BY <3>2, <3>3
  <2>2. Uses(t)' = {d}
    BY <1>1, <1>2, <1>3, <2>1 DEF Uses
  <2>3. Doing(t) \in Walks => d = Root
    BY <1>1, <1>2 DEF Inv, Planned, Suits, d, h
  <2>4. Doing(t)' = Doing(t) /\ Head(plan'[t]).dir = d
    BY <1>2, <1>4, <1>5 DEF Doing, d, h
  <2>5. Mode(Doing(t))' = Mode(Doing(t))
    BY <2>4 DEF Mode
  <2> QED
    BY <1>1, <1>3, <1>5, <2>1, <2>2, <2>3, <2>4, <2>5 DEF Placed, Walks
<1>9. Ordered(t)'
  BY <1>1 DEF Inv, Ordered
<1>10. Planned(t)'
  <2>1. vfs'[t].excl \cup vfs'[t].shared \subseteq Live'
    BY <1>1 DEF Inv, Planned, Live
  <2>2. ASSUME NEW i \in DOMAIN plan'[t]
        PROVE  Suits(plan[t][i], i, Len(plan[t]), vfs[t])'
    <3>1. i \in DOMAIN plan[t] /\ Suits(plan[t][i], i, Len(plan[t]), vfs[t])
      BY <1>5 DEF Inv, Planned
    <3>2. CASE i = 1
      BY <1>1, <1>2, <1>4, <1>5, <3>1, <3>2 DEF Suits, Live, Walks
    <3>3. CASE i # 1
      BY <1>1, <1>5, <3>1, <3>3 DEF Suits, Live, Walks
    <3> QED
      BY <3>2, <3>3
  <2> QED
    BY <2>1, <2>2 DEF Planned
<1>11. \A u \in Threads : u # t => Placed(u)' /\ Ordered(u)' /\ Planned(u)'
  BY <1>1, <1>3, <1>5, OthersKeep
<1>12. Unseen'
  <2>1. plan'[t] = plan[t] \/ Head(plan'[t]).do # "undo"
    <3>1. CASE q = h
      <4>1. [plan[t] EXCEPT ![1] = q] = plan[t]
        BY <1>2, <3>1 DEF h
      <4> QED
        BY <1>4, <4>1 DEF Inv, TypeOK
    <3>2. CASE q # h
      BY <1>4, <1>5, <3>2
    <3> QED
      BY <3>1, <3>2
  <2> QED
    BY <1>1, <1>5, <2>1, StillUnseen
<1> QED
  BY <1>3, <1>6, <1>7, <1>8, <1>9, <1>10, <1>11, <1>12 DEF Inv

LEMMA UpdatedKeeps ==
  ASSUME Inv, OneCounting', NEW t \in Threads, Updated(t)
  PROVE  Inv'
<1>1. PICK d \in writes[t] : Request(t, d, "r")
  BY DEF Updated
<1>2. /\ want[t] = None /\ plan[t] # <<>> /\ Doing(t) = "update"
      /\ writes' = [writes EXCEPT ![t] = {}]
      /\ UNCHANGED <<parent, plan, vfs, held, todo>>
  BY DEF Updated, Running
<1>3. d \in Dirs /\ writes \in [Threads -> SUBSET Dirs]
  BY DEF Inv, TypeOK
<1>4. /\ Queued' /\ want' \in [Threads -> Want \cup {None}] /\ queue' \in [Dirs -> Seq(Threads)]
      /\ want'[t] # None /\ want'[t].dir = d
      /\ \A u \in Threads : u # t => want'[u] = want[u]
  BY <1>1, <1>2, <1>3, RequestQueues
<1>5. /\ writes'[t] = {} /\ \A u \in Threads : u # t => writes'[u] = writes[u]
      /\ writes' \in [Threads -> SUBSET Dirs]
  BY <1>2, <1>3
<1>6. TypeOK'
  BY <1>2, <1>4, <1>5 DEF Inv, TypeOK
<1>7. Downward' /\ Exclusive'
  BY <1>2, <1>5 DEF Inv, Downward, Live, Exclusive
<1>8. Placed(t)'
  <2>1. Uses(t)' \subseteq Uses(t)
    BY <1>2, <1>4, <1>5 DEF Uses
  <2> QED
    BY <1>2, <1>4, <2>1 DEF Inv, Placed, Doing, Walks
<1>9. Ordered(t)'
  BY <1>2, <1>4, <1>5 DEF Inv, Ordered
<1>10. Planned(t)'
  BY <1>2 DEF Inv, Planned, Suits, Live, Walks
<1>11. \A u \in Threads : u # t => Placed(u)' /\ Ordered(u)' /\ Planned(u)'
  BY <1>2, <1>4, <1>5, OthersKeep
<1>12. Unseen'
  BY <1>2, StillUnseen
<1> QED
  BY <1>12, <1>4, <1>6, <1>7, <1>8, <1>9, <1>10, <1>11 DEF Inv

LEMMA DescendKeeps ==
  ASSUME Inv, OneCounting', NEW t \in Threads, Descend(t)
  PROVE  Inv'
<1>1. PICK d \in held[t], c \in todo[t] :
        /\ At(t, d) /\ c \in Children(d)
        /\ todo' = [todo EXCEPT ![t] = @ \ {c}]
        /\ Request(t, c, Mode(Doing(t)))
  BY DEF Descend
<1>2. /\ want[t] = None /\ plan[t] # <<>> /\ Doing(t) \in Walks /\ writes[t] = {}
      /\ UNCHANGED <<parent, plan, vfs, held, writes>>
  BY DEF Descend, Walking, Running
<1>3. /\ todo \in [Threads -> SUBSET Dirs] /\ c \in Dirs /\ c \in DOMAIN parent /\ parent[c] = d
      /\ Mode(Doing(t)) \in {"r", "w"}
  BY <1>1, <1>2, RunningHas DEF Inv, TypeOK, Children
<1>4. /\ Queued' /\ want' \in [Threads -> Want \cup {None}] /\ queue' \in [Dirs -> Seq(Threads)]
      /\ want'[t] # None /\ want'[t].dir = c
      /\ \A u \in Threads : u # t => want'[u] = want[u]
  BY <1>1, <1>2, <1>3, RequestQueues
<1>5. /\ todo'[t] = todo[t] \ {c} /\ \A u \in Threads : u # t => todo'[u] = todo[u]
      /\ todo' \in [Threads -> SUBSET Dirs]
  BY <1>1, <1>3
<1>6. TypeOK'
  BY <1>2, <1>4, <1>5 DEF Inv, TypeOK
<1>7. Downward' /\ Exclusive'
  BY <1>2 DEF Inv, Downward, Live, Exclusive
<1>8. Placed(t)'
  <2>1. Uses(t)' \subseteq Uses(t)
    BY <1>1, <1>2, <1>4, <1>5 DEF Uses
  <2> QED
    BY <1>2, <1>4, <1>5, <2>1 DEF Inv, Placed, Doing
<1>9. Ordered(t)'
  <2>1. \A e \in held[t] : e < c
    <3>1. d < c /\ \A e \in held[t] : e <= d
      BY <1>1, <1>3 DEF Inv, Downward, At
    <3>2. c \in Nat /\ d \in Nat /\ \A e \in held[t] : e \in Nat
      BY <1>3, NumberAssumption DEF Inv, TypeOK, Dirs
    <3> QED
      BY <3>1, <3>2
  <2> QED
    BY <1>2, <1>4, <2>1 DEF Ordered
<1>10. Planned(t)'
  BY <1>2 DEF Inv, Planned, Suits, Live, Walks
<1>11. \A u \in Threads : u # t => Placed(u)' /\ Ordered(u)' /\ Planned(u)'
  BY <1>2, <1>4, <1>5, OthersKeep
<1>12. Unseen'
  BY <1>2, StillUnseen
<1> QED
  BY <1>12, <1>4, <1>6, <1>7, <1>8, <1>9, <1>10, <1>11 DEF Inv

LEMMA FoundKeeps ==
  ASSUME Inv, OneCounting', NEW t \in Threads, Found(t)
  PROVE  Inv'
<1>1. /\ want[t] = None /\ plan[t] # <<>> /\ Doing(t) \in Walks
      /\ todo' = [todo EXCEPT ![t] = {}]
      /\ UNCHANGED <<parent, plan, vfs, held, writes, want, queue>>
  BY DEF Found, Walking, Running
<1>2. todo \in [Threads -> SUBSET Dirs]
  BY DEF Inv, TypeOK
<1>3. /\ todo'[t] = {} /\ \A u \in Threads : u # t => todo'[u] = todo[u]
      /\ todo' \in [Threads -> SUBSET Dirs]
  BY <1>1, <1>2
<1>4. TypeOK'
  BY <1>1, <1>3 DEF Inv, TypeOK
<1>5. Downward' /\ Exclusive' /\ Queued'
  BY <1>1 DEF Inv, Downward, Live, Exclusive, Queued
<1>6. Placed(t)'
  <2>1. Uses(t)' \subseteq Uses(t)
    BY <1>1, <1>3 DEF Uses
  <2> QED
    BY <1>1, <1>3, <2>1 DEF Inv, Placed, Doing
<1>7. Ordered(t)' /\ Planned(t)'
  BY <1>1 DEF Inv, Ordered, Planned, Suits, Live, Walks
<1>8. \A u \in Threads : u # t => Placed(u)' /\ Ordered(u)' /\ Planned(u)'
  BY <1>1, <1>3, OthersKeep
<1>9. Unseen'
  BY <1>1, StillUnseen
<1> QED
  BY <1>9, <1>4, <1>5, <1>6, <1>7, <1>8 DEF Inv

\* The end of a phase.
LEMMA NextPhaseKeeps ==
  ASSUME Inv, NEW t \in Threads, plan[t] # <<>>, NextPhase(t), parent' = parent
  PROVE  /\ plan' \in [Threads -> Seq(Phase)] /\ vfs' \in [Threads -> Lock]
         /\ \A u \in Threads : u # t => plan'[u] = plan[u] /\ vfs'[u] = vfs[u]
         /\ vfs'[t].excl \subseteq vfs[t].excl /\ vfs'[t].shared \subseteq vfs[t].shared
         /\ Planned(t)'
         /\ plan'[t] = <<>> \/ Head(plan'[t]).do # "undo"
<1>1. plan \in [Threads -> Seq(Phase)] /\ vfs \in [Threads -> Lock] /\ Free \in Lock
  BY DEF Inv, TypeOK, Free, Lock
<1>2. /\ plan' \in [Threads -> Seq(Phase)] /\ plan'[t] = Tail(plan[t])
      /\ \A u \in Threads : u # t => plan'[u] = plan[u]
  BY <1>1 DEF NextPhase
<1>3. /\ vfs' \in [Threads -> Lock] /\ \A u \in Threads : u # t => vfs'[u] = vfs[u]
      /\ vfs'[t] = IF Tail(plan[t]) = <<>> THEN Free ELSE vfs[t]
  BY <1>1 DEF NextPhase
<1>4. vfs'[t].excl \subseteq vfs[t].excl /\ vfs'[t].shared \subseteq vfs[t].shared
  BY <1>3 DEF Free
<1>5. Planned(t)'
  <2> SUFFICES ASSUME NEW i \in DOMAIN plan'[t]
               PROVE  Suits(plan[t][i], i, Len(plan[t]), vfs[t])'
    <3>1. vfs'[t].excl \cup vfs'[t].shared \subseteq Live'
      BY <1>4 DEF Inv, Planned, Live
    <3> QED
      BY <3>1 DEF Planned
  <2>1. /\ i + 1 \in DOMAIN plan[t] /\ plan'[t][i] = plan[t][i + 1]
        /\ i \in Nat /\ Len(plan[t]) = Len(plan'[t]) + 1 /\ Len(plan'[t]) \in Nat
    BY <1>1, <1>2
  <2>2. vfs'[t] = vfs[t]
    <3>1. Tail(plan[t]) # <<>>
      BY <1>2
    <3> QED
      BY <1>3, <3>1
  <2>3. Suits(plan[t][i + 1], i + 1, Len(plan[t]), vfs[t])
    BY <2>1 DEF Inv, Planned
  <2> QED
    BY <2>1, <2>2, <2>3 DEF Suits, Live, Walks
<1>6. plan'[t] # <<>> => Head(plan'[t]).do # "undo"
  <2> SUFFICES ASSUME plan'[t] # <<>> PROVE Head(plan'[t]).do # "undo"
    OBVIOUS
  <2>1. Head(plan'[t]) = plan[t][2] /\ 2 \in DOMAIN plan[t]
    BY <1>1, <1>2
  <2> QED
    BY <2>1 DEF Inv, Planned, Suits
<1> QED
  BY <1>2, <1>3, <1>4, <1>5, <1>6

\* A walk gives back the deepest directory that it holds, when it has entered
\* every directory in it.
LEMMA AscendKeeps ==
  ASSUME Inv, OneCounting', NEW t \in Threads, Ascend(t)
  PROVE  Inv'
<1>1. PICK d \in held[t] :
        /\ At(t, d)
        /\ todo[t] \cap Children(d) = {}
        /\ held' = [held EXCEPT ![t] = @ \ {d}]
        /\ IF held[t] = {d} THEN NextPhase(t) ELSE UNCHANGED <<plan, vfs>>
  BY DEF Ascend
<1>2. /\ want[t] = None /\ plan[t] # <<>> /\ Doing(t) \in Walks /\ writes[t] = {}
      /\ UNCHANGED <<parent, writes, todo, want, queue>>
  BY DEF Ascend, Walking, Running
<1>3. /\ held'[t] = held[t] \ {d} /\ \A u \in Threads : u # t => held'[u] = held[u]
      /\ held' \in [Threads -> SUBSET Dirs]
  BY <1>1 DEF Inv, TypeOK
<1>4. /\ plan' \in [Threads -> Seq(Phase)] /\ vfs' \in [Threads -> Lock]
      /\ \A u \in Threads : u # t => plan'[u] = plan[u] /\ vfs'[u] = vfs[u]
      /\ vfs'[t].excl \subseteq vfs[t].excl /\ vfs'[t].shared \subseteq vfs[t].shared
      /\ Planned(t)'
      /\ plan'[t] = plan[t] \/ plan'[t] = <<>> \/ Head(plan'[t]).do # "undo"
  <2>1. CASE held[t] = {d}
    BY <1>1, <1>2, <2>1, NextPhaseKeeps
  <2>2. CASE held[t] # {d}
    BY <1>1, <1>2, <2>2 DEF Inv, TypeOK, Planned, Suits, Live, Walks
  <2> QED
    BY <2>1, <2>2
<1>5. TypeOK'
  BY <1>2, <1>3, <1>4 DEF Inv, TypeOK
<1>6. Downward' /\ Queued'
  BY <1>2 DEF Inv, Downward, Live, Queued
<1>7. Exclusive'
  <2>1. \A u \in Threads : held'[u] \subseteq held[u] /\ vfs'[u].excl \subseteq vfs[u].excl
                           /\ vfs'[u].shared \subseteq vfs[u].shared
    BY <1>3, <1>4
  <2> QED
    BY <1>2, <2>1 DEF Inv, Exclusive
<1>8. \A c \in Uses(t)' : c # Root => c \in DOMAIN parent /\ parent[c] \in held[t] \ {d}
  <2> SUFFICES ASSUME NEW c \in Uses(t)', c # Root
               PROVE  c \in DOMAIN parent /\ parent[c] \in held[t] \ {d}
    OBVIOUS
  <2>1. c \in (held[t] \ {d}) \cup todo[t]
    BY <1>2, <1>3 DEF Uses
  <2>2. c \in DOMAIN parent /\ parent[c] \in held[t]
    BY <1>2, <2>1 DEF Inv, Placed, Uses
  <2>3. CASE c \in todo[t]
    BY <1>1, <2>2, <2>3 DEF Children
  <2>4. CASE c \in held[t] \ {d}
    <3>1. c <= d /\ parent[c] < c
      BY <1>1, <2>2, <2>4 DEF At, Inv, Downward
    <3>2. c \in Nat /\ d \in Nat /\ parent[c] \in Nat
      BY <2>2, <2>4, NumberAssumption DEF Inv, TypeOK, Dirs
    <3>3. parent[c] # d
      BY <3>1, <3>2
    <3> QED
      BY <2>2, <3>3
  <2> QED
    BY <2>1, <2>3, <2>4
<1>9. Placed(t)'
  <2>1. CASE held[t] = {d}
    <3>1. Root \notin todo[t] /\ Root \notin held'[t]
      BY <1>3, <2>1 DEF Inv, Placed, TypeOK
    <3>2. Root \notin Uses(t)'
      BY <1>2, <3>1 DEF Uses
    <3>3. Uses(t)' = {}
      BY <1>8, <2>1, <3>2
    <3>4. todo'[t] = {}
      BY <3>3 DEF Uses
    <3>5. held'[t] = {} /\ want'[t] = None
      BY <1>2, <3>3 DEF Uses
    <3> QED
      BY <3>3, <3>4, <3>5 DEF Placed
  <2>2. CASE held[t] # {d}
    <3>1. plan' = plan
      BY <1>1, <2>2
    <3> QED
      BY <1>2, <1>3, <1>8, <3>1 DEF Inv, Placed, Doing
  <2> QED
    BY <2>1, <2>2
<1>10. Ordered(t)'
  BY <1>2 DEF Ordered
<1>11. \A u \in Threads : u # t => Placed(u)' /\ Ordered(u)' /\ Planned(u)'
  BY <1>2, <1>3, <1>4, OthersKeep
<1>12. Unseen'
  BY <1>2, <1>4, StillUnseen
<1> QED
  BY <1>12, <1>4, <1>5, <1>6, <1>7, <1>9, <1>10, <1>11 DEF Inv

\* The head of a queue leaves it.
LEMMA GrantQueues ==
  ASSUME Inv, NEW t \in Threads, Grant(t)
  PROVE  /\ want[t] # None /\ want[t].dir \in Dirs
         /\ Queued'
         /\ want' \in [Threads -> Want \cup {None}] /\ queue' \in [Dirs -> Seq(Threads)]
         /\ want'[t] = None /\ \A u \in Threads : u # t => want'[u] = want[u]
<1> DEFINE d == want[t].dir
<1>1. /\ want[t] # None /\ Head(queue[d]) = t
      /\ queue' = [queue EXCEPT ![d] = Tail(@)]
      /\ want' = [want EXCEPT ![t] = None]
  BY DEF Grant, Grantable
<1>2. /\ want \in [Threads -> Want \cup {None}] /\ queue \in [Dirs -> Seq(Threads)]
      /\ d \in Dirs
  BY <1>1 DEF Inv, TypeOK, Want
<1> HIDE DEF d
<1>3. queue[d] # <<>>
  BY <1>1, <1>2 DEF Inv, Queued, d
<1>4. /\ want' \in [Threads -> Want \cup {None}] /\ queue' \in [Dirs -> Seq(Threads)]
      /\ want'[t] = None /\ \A u \in Threads : u # t => want'[u] = want[u]
      /\ \A e \in Dirs : e # d => queue'[e] = queue[e]
      /\ queue'[d] = Tail(queue[d])
  BY <1>1, <1>2, <1>3
<1>5. /\ 1 \in DOMAIN queue[d] /\ queue[d][1] = t
      /\ \A i \in DOMAIN queue'[d] : i \in Nat /\ i # 0 /\ i + 1 \in DOMAIN queue[d] /\ queue'[d][i] = queue[d][i + 1]
      /\ \A i \in DOMAIN queue[d] : i # 1 => i - 1 \in DOMAIN queue'[d] /\ queue'[d][i - 1] = queue[d][i]
  BY <1>1, <1>2, <1>3, <1>4
<1>6. \A e \in Dirs : \A i \in DOMAIN queue'[e] : queue'[e][i] # t
  <2> SUFFICES ASSUME NEW e \in Dirs, NEW i \in DOMAIN queue'[e], queue'[e][i] = t PROVE FALSE
    OBVIOUS
  <2>1. CASE e = d
    BY <1>2, <1>5, <2>1 DEF Inv, Queued
  <2>2. CASE e # d
    BY <1>4, <2>2 DEF Inv, Queued, d
  <2> QED
    BY <2>1, <2>2
<1>7. Queued'
  <2>1. \A u \in Threads :
          want'[u] # None => \E i \in DOMAIN queue'[want'[u].dir] : queue'[want'[u].dir][i] = u
    <3> SUFFICES ASSUME NEW u \in Threads, want'[u] # None
                 PROVE  \E i \in DOMAIN queue'[want'[u].dir] : queue'[want'[u].dir][i] = u
      OBVIOUS
    <3>1. u # t /\ want'[u] = want[u] /\ want[u].dir \in Dirs
      BY <1>2, <1>4 DEF Want
    <3>2. PICK i \in DOMAIN queue[want[u].dir] : queue[want[u].dir][i] = u
      BY <3>1 DEF Inv, Queued
    <3>3. CASE want[u].dir = d
      <4>1. i # 1
        BY <1>5, <3>1, <3>2, <3>3
      <4>2. i - 1 \in DOMAIN queue'[d] /\ queue'[d][i - 1] = u
        BY <1>5, <3>2, <3>3, <4>1
      <4> QED
        BY <3>1, <3>3, <4>2
    <3>4. CASE want[u].dir # d
      BY <1>4, <3>1, <3>2, <3>4
    <3> QED
      BY <3>3, <3>4
  <2>2. \A e \in Dirs : \A i \in DOMAIN queue'[e] : want'[queue'[e][i]] # None /\ want'[queue'[e][i]].dir = e
    <3> SUFFICES ASSUME NEW e \in Dirs, NEW i \in DOMAIN queue'[e]
                 PROVE  want'[queue'[e][i]] # None /\ want'[queue'[e][i]].dir = e
      OBVIOUS
    <3>1. queue'[e][i] \in Threads /\ queue'[e][i] # t
      BY <1>4, <1>6
    <3>2. want[queue'[e][i]] # None /\ want[queue'[e][i]].dir = e
      <4>1. CASE e = d
        BY <1>2, <1>5, <4>1 DEF Inv, Queued
      <4>2. CASE e # d
        BY <1>4, <4>2 DEF Inv, Queued
      <4> QED
        BY <4>1, <4>2
    <3> QED
      BY <1>4, <3>1, <3>2
  <2>3. \A e \in Dirs : \A i, j \in DOMAIN queue'[e] : queue'[e][i] = queue'[e][j] => i = j
    <3> SUFFICES ASSUME NEW e \in Dirs, NEW i \in DOMAIN queue'[e], NEW j \in DOMAIN queue'[e],
                        queue'[e][i] = queue'[e][j]
                 PROVE  i = j
      OBVIOUS
    <3>1. CASE e = d
      <4>1. i + 1 = j + 1
        BY <1>2, <1>5, <3>1 DEF Inv, Queued
      <4> QED
        BY <1>5, <3>1, <4>1
    <3>2. CASE e # d
      BY <1>4, <3>2 DEF Inv, Queued
    <3> QED
      BY <3>1, <3>2
  <2> QED
    BY <2>1, <2>2, <2>3 DEF Queued
<1> QED
  BY <1>1, <1>2, <1>4, <1>7 DEF d

LEMMA GrantKeeps ==
  ASSUME Inv, OneCounting', NEW t \in Threads, Grant(t)
  PROVE  Inv'
<1> DEFINE d == want[t].dir
<1>1. /\ want[t] # None /\ d \in Dirs /\ Queued'
      /\ want' \in [Threads -> Want \cup {None}] /\ queue' \in [Dirs -> Seq(Threads)]
      /\ want'[t] = None /\ \A u \in Threads : u # t => want'[u] = want[u]
  BY GrantQueues
<1>2. /\ \A u \in Threads : d \notin writes[u]
      /\ want[t].mode = "w" => \A u \in Threads : d \notin held[u]
      /\ UNCHANGED <<parent, plan, vfs>>
  BY DEF Grant, Grantable
<1>3. plan[t] # <<>> /\ d \in Uses(t) /\ writes[t] = {} /\ \A e \in held[t] : e < d
  BY <1>1 DEF Inv, Placed, Ordered, Uses
<1>4. \/ /\ want[t].mode = "w"
         /\ writes' = [writes EXCEPT ![t] = {d}] /\ UNCHANGED <<held, todo>>
      \/ /\ want[t].mode # "w"
         /\ held' = [held EXCEPT ![t] = @ \cup {d}] /\ UNCHANGED writes
         /\ todo' = IF Doing(t) \in Walks THEN [todo EXCEPT ![t] = @ \cup Children(d)] ELSE todo
  BY DEF Grant
<1> HIDE DEF d
<1>5. /\ held' \in [Threads -> SUBSET Dirs] /\ writes' \in [Threads -> SUBSET Dirs]
      /\ todo' \in [Threads -> SUBSET Dirs]
      /\ \A u \in Threads : u # t => held'[u] = held[u] /\ writes'[u] = writes[u] /\ todo'[u] = todo[u]
      /\ \/ /\ want[t].mode = "w" /\ writes'[t] = {d} /\ held'[t] = held[t] /\ todo'[t] = todo[t]
         \/ /\ want[t].mode # "w" /\ writes'[t] = {} /\ held'[t] = held[t] \cup {d}
            /\ todo'[t] = IF Doing(t) \in Walks THEN todo[t] \cup Children(d) ELSE todo[t]
  <2>1. Children(d) \subseteq Dirs
    BY DEF Children, Inv, TypeOK
  <2>2. /\ held \in [Threads -> SUBSET Dirs] /\ writes \in [Threads -> SUBSET Dirs]
        /\ todo \in [Threads -> SUBSET Dirs]
    BY DEF Inv, TypeOK
  <2>3. CASE want[t].mode = "w"
    BY <1>1, <1>4, <2>2, <2>3
  <2>4. CASE want[t].mode # "w"
    <3>1. /\ held' = [held EXCEPT ![t] = @ \cup {d}] /\ writes' = writes
          /\ todo' = IF Doing(t) \in Walks THEN [todo EXCEPT ![t] = @ \cup Children(d)] ELSE todo
      BY <1>4, <2>4
    <3> QED
      BY <1>1, <1>3, <2>1, <2>2, <2>4, <3>1
  <2> QED
    BY <2>3, <2>4
<1>6. TypeOK'
  BY <1>1, <1>2, <1>5 DEF Inv, TypeOK
<1>7. Downward'
  BY <1>2 DEF Inv, Downward, Live
<1>8. Exclusive'
  BY <1>2, <1>5 DEF Inv, Exclusive
<1>9. Placed(t)'
  <2>1. Uses(t)' \subseteq Uses(t) \cup Children(d)
    BY <1>1, <1>3, <1>5 DEF Uses
  <2>2. CASE Doing(t) \in Walks
    <3>1. todo'[t] \subseteq DOMAIN parent
      BY <1>5 DEF Inv, Placed, Children
    <3>2. held[t] \subseteq held'[t]
      BY <1>5
    <3>3. \A c \in Uses(t) : c = Root \/ (c \in DOMAIN parent /\ parent[c] \in held'[t])
      BY <1>3, <2>2, <3>2 DEF Inv, Placed
    <3>4. \A c \in Uses(t)' \ Uses(t) : c \in DOMAIN parent /\ parent[c] \in held'[t]
      <4>1. Uses(t)' \ Uses(t) # {} => d \in held'[t]
        BY <1>1, <1>3, <1>5 DEF Uses
      <4> QED
        BY <2>1, <4>1 DEF Children
    <3> QED
      BY <1>2, <1>3, <2>2, <3>1, <3>3, <3>4 DEF Placed, Doing
  <2>3. CASE Doing(t) \notin Walks
    <3>1. /\ todo[t] = {} /\ Uses(t) \subseteq {Head(plan[t]).dir}
          /\ Mode(Doing(t)) = "w" => held[t] = {} /\ want[t].mode = "w"
      BY <1>1, <1>3, <2>3 DEF Inv, Placed
    <3>2. todo'[t] = {}
      BY <1>5, <2>3, <3>1
    <3>3. Uses(t)' \subseteq {Head(plan[t]).dir}
      BY <1>1, <1>3, <1>5, <3>1, <3>2 DEF Uses
    <3>4. Mode(Doing(t)) = "w" => held'[t] = {}
      BY <1>5, <3>1
    <3> QED
      BY <1>1, <1>2, <1>3, <2>3, <3>2, <3>3, <3>4 DEF Placed, Doing, Mode
  <2> QED
    BY <2>2, <2>3
<1>10. Ordered(t)'
  BY <1>1, <1>3, <1>5 DEF Ordered
<1>11. Planned(t)'
  BY <1>2 DEF Inv, Planned, Suits, Live, Walks
<1>12. \A u \in Threads : u # t => Placed(u)' /\ Ordered(u)' /\ Planned(u)'
  BY <1>1, <1>2, <1>5, OthersKeep
<1>13. Unseen'
  BY <1>2, StillUnseen
<1> QED
  BY <1>13, <1>1, <1>6, <1>7, <1>8, <1>9, <1>10, <1>11, <1>12 DEF Inv

LEMMA TailOfOne ==
  ASSUME NEW S, NEW s \in Seq(S), Len(s) = 1
  PROVE  Tail(s) = <<>>
<1>1. Tail(s) \in Seq(S) /\ Len(Tail(s)) = 0
  OBVIOUS
<1> QED
  BY <1>1, EmptySeq

\* Work on one list.  A directory that rmdir removes is in use by nobody else: who
\* walked to it would hold its parent for reading, and who works on it would have
\* its inode locked.  One that mkdir takes out again is known to nobody.
LEMMA OnOneListKeeps ==
  ASSUME Inv, OneCounting', NEW t \in Threads, OnOneList(t)
  PROVE  Inv'
<1> DEFINE p == Head(plan[t])
<1>1. /\ want[t] = None /\ plan[t] # <<>> /\ Doing(t) \notin Walks
      /\ held[t] \cup writes[t] # {}
      /\ Effect(p)
      /\ held' = [held EXCEPT ![t] = {}]
      /\ writes' = [writes EXCEPT ![t] = {}]
      /\ NextPhase(t) \/ UndoNext(t)
      /\ UNCHANGED <<todo, want, queue>>
  BY DEF OnOneList, Running
<1>2. /\ p \in Phase /\ p = plan[t][1] /\ 1 \in DOMAIN plan[t] /\ Doing(t) = p.do /\ p.dir \in Dirs
      /\ plan[t] \in Seq(Phase)
  BY <1>1, RunningHas DEF Inv, TypeOK
<1>3. todo[t] = {} /\ held[t] \cup writes[t] \subseteq {p.dir} /\ (Mode(p.do) = "w" => held[t] = {})
  BY <1>1, <1>2 DEF Inv, Placed, Uses
<1>4. Suits(p, 1, Len(plan[t]), vfs[t]) /\ vfs[t].excl \cup vfs[t].shared \subseteq Live
  BY <1>1, <1>2 DEF Inv, Planned
<1>5. p.do \in {"read", "write", "mkdir", "rmdir", "undo"}
  BY <1>1, <1>2 DEF Phase
<1>6. /\ p.dir \in Live
      /\ p.do \in {"mkdir", "rmdir", "undo"} =>
           Len(plan[t]) = 1 /\ p.dir \in vfs[t].excl /\ p.dir \in writes[t]
      /\ p.do \in {"rmdir", "undo"} => p.child \in DOMAIN parent /\ parent[p.child] = p.dir
      /\ p.do = "rmdir" => p.child \in vfs[t].excl
      /\ p.do = "undo" => \A u \in Threads : p.child \notin vfs[u].excl \cup vfs[u].shared
      /\ p.do = "mkdir" /\ p.child # None => p.child \in Dirs \ Live /\ p.dir < p.child
  <2>1. p.dir \in Live /\ (p.do = "rmdir" => p.child \in vfs[t].excl)
    BY <1>1, <1>2, <1>4 DEF Suits
  <2>2. p.do \in {"mkdir", "rmdir", "undo"} =>
          Len(plan[t]) = 1 /\ p.dir \in vfs[t].excl /\ p.dir \in writes[t]
    BY <1>1, <1>3, <1>4 DEF Suits, Mode
  <2>3. p.do \in {"rmdir", "undo"} => p.child \in DOMAIN parent /\ parent[p.child] = p.dir
    BY <1>1, <1>2, <1>4 DEF Suits, Inv, Unseen
  <2>4. p.do = "undo" => \A u \in Threads : p.child \notin vfs[u].excl \cup vfs[u].shared
    BY <1>1, <1>2 DEF Inv, Unseen
  <2>5. p.do = "mkdir" /\ p.child # None => p.child \in Dirs \ Live /\ p.dir < p.child
    BY <1>1, <1>2, <1>4 DEF Suits, Inv, OneCounting, Takes, Phase
  <2> QED
    BY <2>1, <2>2, <2>3, <2>4, <2>5
<1> HIDE DEF p
<1>7. /\ held' \in [Threads -> SUBSET Dirs] /\ writes' \in [Threads -> SUBSET Dirs]
      /\ held'[t] = {} /\ writes'[t] = {}
      /\ \A u \in Threads : u # t => held'[u] = held[u] /\ writes'[u] = writes[u]
  BY <1>1 DEF Inv, TypeOK
\* What the end of the phase does.
<1> DEFINE undo == [p EXCEPT !.do = "undo"]
<1>8. /\ plan' \in [Threads -> Seq(Phase)] /\ vfs' \in [Threads -> Lock]
      /\ \A u \in Threads : u # t => plan'[u] = plan[u] /\ vfs'[u] = vfs[u]
      /\ vfs'[t].excl \subseteq vfs[t].excl /\ vfs'[t].shared \subseteq vfs[t].shared
      /\ \/ /\ p.do \in {"read", "write"} /\ NextPhase(t)
         \/ /\ p.do \in {"mkdir", "rmdir", "undo"} /\ plan'[t] = <<>> /\ vfs'[t] = Free
         \/ /\ p.do = "mkdir" /\ p.child # None /\ vfs'[t] = vfs[t]
            /\ plan'[t] # <<>> /\ Len(plan'[t]) = 1 /\ DOMAIN plan'[t] = 1 .. 1
            /\ plan'[t][1] = undo /\ Head(plan'[t]) = undo
  <2>1. plan \in [Threads -> Seq(Phase)] /\ vfs \in [Threads -> Lock] /\ Free \in Lock
    BY DEF Inv, TypeOK, Free, Lock
  <2>2. CASE NextPhase(t)
    <3>1. /\ plan' \in [Threads -> Seq(Phase)] /\ vfs' \in [Threads -> Lock]
          /\ plan'[t] = Tail(plan[t])
          /\ \A u \in Threads : u # t => plan'[u] = plan[u] /\ vfs'[u] = vfs[u]
          /\ vfs'[t] = IF Tail(plan[t]) = <<>> THEN Free ELSE vfs[t]
      BY <1>1, <2>1, <2>2 DEF NextPhase
    <3>2. vfs'[t].excl \subseteq vfs[t].excl /\ vfs'[t].shared \subseteq vfs[t].shared
      BY <3>1 DEF Free
    <3>3. CASE p.do \in {"read", "write"}
      BY <2>2, <3>1, <3>2, <3>3
    <3>4. CASE p.do \in {"mkdir", "rmdir", "undo"}
      <4>1. Tail(plan[t]) = <<>>
        BY <1>2, <1>6, <3>4, TailOfOne
      <4> QED
        BY <3>1, <3>2, <3>4, <4>1
    <3> QED
      BY <1>5, <3>3, <3>4
  <2>3. CASE UndoNext(t)
    <3>1. /\ p.do = "mkdir" /\ p.child # None /\ vfs' = vfs
          /\ plan' = [plan EXCEPT ![t] = [plan[t] EXCEPT ![1] = undo]]
      BY <1>2, <2>3 DEF UndoNext, p
    <3>2. undo \in Phase
      BY <1>2 DEF Phase
    <3> HIDE DEF undo
    <3> DEFINE r == [plan[t] EXCEPT ![1] = undo]
    <3>3. /\ r \in Seq(Phase) /\ r # <<>> /\ Head(r) = undo /\ r[1] = undo
          /\ Len(r) = Len(plan[t]) /\ DOMAIN r = DOMAIN plan[t]
      BY <1>1, <1>2, <3>2, HeadChanges
    <3>4. Len(r) = 1 /\ DOMAIN r = 1 .. 1
      BY <1>2, <1>6, <3>1, <3>3
    <3>5. plan' = [plan EXCEPT ![t] = r]
      BY <3>1
    <3> HIDE DEF r
    <3>6. /\ plan' \in [Threads -> Seq(Phase)] /\ plan'[t] = r
          /\ \A u \in Threads : u # t => plan'[u] = plan[u]
      BY <2>1, <3>3, <3>5
    <3> QED
      BY <2>1, <3>1, <3>3, <3>4, <3>6
  <2> QED
    BY <1>1, <2>2, <2>3
\* What a step can do to the tree, as far as others see it.
<1> DEFINE gone == {c \in DOMAIN parent : c \notin DOMAIN parent'}
<1>9. /\ DOMAIN parent' \subseteq Dirs \ {Root} /\ \A c \in DOMAIN parent' : parent'[c] \in Dirs
      /\ \A c \in DOMAIN parent' : parent'[c] \in {Root} \cup DOMAIN parent' /\ parent'[c] < c
      /\ \A c \in DOMAIN parent \cap DOMAIN parent' : parent'[c] = parent[c]
      /\ gone = {} \/ (p.do \in {"rmdir", "undo"} /\ gone = {p.child})
      /\ \A c \in DOMAIN parent' : c \in DOMAIN parent \/ (p.do = "mkdir" /\ parent'[c] = p.dir)
      /\ p.do = "mkdir" /\ p.child # None => p.child \in DOMAIN parent' /\ parent'[p.child] = p.dir
      /\ p.do \in {"read", "write"} => parent' = parent
  <2>1. /\ DOMAIN parent \subseteq Dirs \ {Root} /\ \A c \in DOMAIN parent : parent[c] \in Dirs
        /\ \A c \in DOMAIN parent : parent[c] \in {Root} \cup DOMAIN parent /\ parent[c] < c
    BY DEF Inv, TypeOK, Downward, Live
  <2>2. CASE (p.do \in {"read", "write", "rmdir"} \/ p.child = None) /\ parent' = parent
    BY <2>1, <2>2
  <2>3. CASE /\ p.do = "mkdir" /\ p.child # None
             /\ parent' = [d \in DOMAIN parent \cup {p.child} |-> IF d = p.child THEN p.dir ELSE parent[d]]
    <3>1. p.child \in Dirs /\ p.child # Root /\ p.child \notin DOMAIN parent /\ p.dir < p.child
      BY <1>6, <2>3 DEF Live
    <3> QED
      BY <1>2, <1>6, <2>1, <2>3, <3>1 DEF Live
  <2>4. CASE /\ p.do = "undo" \/ (p.do = "rmdir" /\ Children(p.child) = {})
             /\ parent' = [d \in DOMAIN parent \ {p.child} |-> parent[d]]
    <3>1. \A c \in DOMAIN parent : parent[c] # p.child
      <4>1. Children(p.child) = {}
        BY <1>1, <1>2, <2>4 DEF Inv, Unseen, p
      <4> QED
        BY <4>1 DEF Children
    <3> QED
      BY <1>6, <2>1, <2>4, <3>1
  <2> QED
    BY <1>1, <2>2, <2>3, <2>4 DEF Effect
<1> HIDE DEF undo
\* Nobody else has the inode locked of a directory that goes.
<1>10. ASSUME NEW u \in Threads, u # t, NEW c \in gone
       PROVE  c \notin vfs[u].excl \cup vfs[u].shared
  <2>1. c = p.child /\ p.do \in {"rmdir", "undo"}
    BY <1>9
  <2> QED
    BY <1>6, <1>10, <2>1 DEF Inv, Exclusive
<1>11. TypeOK'
  BY <1>1, <1>7, <1>8, <1>9 DEF Inv, TypeOK
<1>12. Downward'
  BY <1>9 DEF Downward, Live
<1>13. Queued'
  BY <1>1 DEF Inv, Queued
<1>14. Exclusive'
  <2>1. \A u \in Threads : /\ held'[u] \subseteq held[u] /\ writes'[u] \subseteq writes[u]
                           /\ vfs'[u].excl \subseteq vfs[u].excl /\ vfs'[u].shared \subseteq vfs[u].shared
    BY <1>7, <1>8
  <2> QED
    BY <2>1 DEF Inv, Exclusive
<1>15. Placed(t)' /\ Ordered(t)'
  <2>1. Uses(t)' = {} /\ todo'[t] = {}
    BY <1>1, <1>3, <1>7 DEF Uses
  <2> QED
    BY <1>1, <1>7, <2>1 DEF Placed, Ordered
<1>16. Planned(t)' /\ (plan'[t] # <<>> /\ Head(plan'[t]).do = "undo" => plan'[t][1] = undo)
  <2>1. CASE p.do \in {"read", "write"} /\ NextPhase(t)
    BY <1>1, <1>9, <2>1, NextPhaseKeeps
  <2>2. CASE plan'[t] = <<>> /\ vfs'[t] = Free
    BY <2>2 DEF Planned, Free
  <2>3. CASE /\ p.do = "mkdir" /\ p.child # None /\ vfs'[t] = vfs[t]
             /\ Len(plan'[t]) = 1 /\ DOMAIN plan'[t] = 1 .. 1 /\ plan'[t][1] = undo
    <3>1. Live \subseteq Live'
      BY <1>9, <2>3 DEF Live
    <3>2. undo.do = "undo" /\ undo.dir = p.dir
      BY <1>2 DEF undo, Phase
    <3>3. Suits(plan[t][1], 1, Len(plan[t]), vfs[t])'
      BY <1>6, <2>3, <3>1, <3>2 DEF Suits, Walks
    <3>4. vfs'[t].excl \cup vfs'[t].shared \subseteq Live'
      BY <1>4, <2>3, <3>1
    <3> QED
      BY <2>3, <3>3, <3>4 DEF Planned
  <2> QED
    BY <1>8, <2>1, <2>2, <2>3
<1>17. ASSUME NEW u \in Threads, u # t
       PROVE  Placed(u)' /\ Ordered(u)' /\ Planned(u)'
  <2>1. /\ plan'[u] = plan[u] /\ vfs'[u] = vfs[u] /\ held'[u] = held[u] /\ writes'[u] = writes[u]
        /\ todo'[u] = todo[u] /\ want'[u] = want[u]
    BY <1>1, <1>7, <1>8, <1>17
  <2>2. Uses(u)' = Uses(u)
    BY <2>1 DEF Uses
  <2>3. ASSUME NEW c \in Uses(u), plan[u] # <<>>, Doing(u) \in Walks
        PROVE  c = Root \/ (c \in DOMAIN parent' /\ parent'[c] \in held[u])
    <3>1. c = Root \/ (c \in DOMAIN parent /\ parent[c] \in held[u])
      BY <2>3 DEF Inv, Placed
    <3>2. c \in DOMAIN parent /\ c \in gone => FALSE
      <4> SUFFICES ASSUME c \in DOMAIN parent, c \in gone PROVE FALSE
        OBVIOUS
      <4>1. p.do \in {"rmdir", "undo"} /\ c = p.child
        BY <1>9
      <4>2. parent[c] = p.dir /\ p.dir \in writes[t] /\ c # Root
        BY <1>6, <4>1 DEF Inv, TypeOK
      <4>3. p.dir \in held[u]
        BY <3>1, <4>2
      <4> QED
        BY <1>17, <4>2, <4>3 DEF Inv, Exclusive
    <3> QED
      BY <1>9, <3>1, <3>2
  <2>4. todo[u] \subseteq DOMAIN parent'
    <3>1. CASE plan[u] # <<>> /\ Doing(u) \in Walks
      <4>1. todo[u] \subseteq Uses(u) /\ Root \notin todo[u]
        BY DEF Uses, Inv, Placed, TypeOK
      <4> QED
        BY <2>3, <3>1, <4>1
    <3>2. CASE plan[u] = <<>> \/ Doing(u) \notin Walks
      BY <3>2 DEF Inv, Placed, Uses
    <3> QED
      BY <3>1, <3>2
  <2>5. Placed(u)'
    <3>1. /\ Uses(u) # {} => plan[u] # <<>>
          /\ plan[u] # <<>> /\ Doing(u) \notin Walks =>
               /\ todo[u] = {}
               /\ Uses(u) \subseteq {Head(plan[u]).dir}
               /\ Mode(Doing(u)) = "w" => held[u] = {} /\ (want[u] # None => want[u].mode = "w")
      BY DEF Inv, Placed
    <3>2. Doing(u)' = Doing(u) /\ Mode(Doing(u))' = Mode(Doing(u))
      BY <2>1 DEF Doing, Mode
    <3> QED
      BY <2>1, <2>2, <2>3, <2>4, <3>1, <3>2 DEF Placed, Walks
  <2>6. Ordered(u)'
    BY <2>1 DEF Inv, Ordered
  <2>7. Planned(u)'
    <3>1. \A c \in vfs[u].excl \cup vfs[u].shared : c \in Live /\ c \notin gone
      BY <1>10, <1>17 DEF Inv, Planned
    <3>2. \A c \in vfs[u].excl \cup vfs[u].shared : c \in Live'
      BY <3>1 DEF Live
    <3>3. ASSUME NEW i \in DOMAIN plan[u]
          PROVE  Suits(plan[u][i], i, Len(plan[u]), vfs[u])'
      <4> DEFINE q == plan[u][i]
      <4>1. Suits(q, i, Len(plan[u]), vfs[u])
        BY DEF Inv, Planned
      <4> HIDE DEF q
      <4>2. q.do \notin Walks => q.dir \in Live'
        BY <3>2, <4>1 DEF Suits
      <4>3. q.do = "rmdir" => q.child \in DOMAIN parent' /\ parent'[q.child] = q.dir
        BY <1>9, <3>1, <4>1 DEF Suits
      <4>4. q = plan'[u][i]
        BY <2>1 DEF q
      <4> QED
        BY <2>1, <4>1, <4>2, <4>3, <4>4 DEF Suits, Walks
    <3> QED
      BY <2>1, <3>2, <3>3 DEF Planned
  <2> QED
    BY <2>5, <2>6, <2>7
\* Others that undo a mkdir are in other directories.
<1>18. Unseen'
  <2> SUFFICES ASSUME NEW u \in Threads, plan'[u] # <<>>, Head(plan'[u]).do = "undo"
               PROVE  LET q == Head(plan'[u]) IN
                        /\ q.child \in DOMAIN parent' /\ parent'[q.child] = q.dir
                        /\ \A c \in DOMAIN parent' : parent'[c] # q.child
                        /\ \A v \in Threads : q.child \notin vfs'[v].excl \cup vfs'[v].shared
    BY DEF Unseen, Doing, Children
  <2> DEFINE q == Head(plan'[u])
  <2>1. CASE u = t
    <3>1. p.do = "mkdir" /\ p.child # None /\ q.dir = p.dir /\ q.child = p.child
      <4>1. q = plan'[t][1] /\ plan'[t][1] = undo
        BY <1>8, <1>16, <2>1
      <4>2. undo.dir = p.dir /\ undo.child = p.child
        BY <1>2 DEF undo, Phase
      <4>3. p.do = "mkdir" /\ p.child # None
        <5>1. ~(p.do \in {"read", "write"} /\ NextPhase(t))
          <6>1. ASSUME p.do \in {"read", "write"}, NextPhase(t) PROVE FALSE
            BY <1>1, <1>9, <2>1, <6>1, NextPhaseKeeps
          <6> QED
            BY <6>1
        <5> QED
          BY <1>8, <2>1, <5>1
      <4> QED
        BY <4>1, <4>2, <4>3
    <3> HIDE DEF q
    <3>2. p.child \in Dirs \ Live /\ p.dir \in Live
      BY <1>6, <3>1
    <3>3. \A c \in DOMAIN parent' : parent'[c] # p.child
      <4>1. \A c \in DOMAIN parent : parent[c] \in Live
        BY DEF Inv, Downward
      <4> QED
        BY <1>9, <3>1, <3>2, <4>1
    <3>4. \A v \in Threads : vfs'[v].excl \cup vfs'[v].shared \subseteq Live
      <4>1. \A v \in Threads : vfs[v].excl \cup vfs[v].shared \subseteq Live
        BY DEF Inv, Planned
      <4> QED
        BY <1>8, <4>1
    <3> QED
      BY <1>9, <3>1, <3>2, <3>3, <3>4 DEF q
  <2>2. CASE u # t
    <3>1. plan'[u] = plan[u] /\ q = Head(plan[u]) /\ Doing(u) = "undo"
      BY <1>8, <2>2 DEF Doing
    <3>2. /\ q.child \in DOMAIN parent /\ parent[q.child] = q.dir
          /\ \A c \in DOMAIN parent : parent[c] # q.child
          /\ \A v \in Threads : q.child \notin vfs[v].excl \cup vfs[v].shared
      BY <3>1 DEF Inv, Unseen, Children
    <3>3. q.dir \in vfs[u].excl
      <4>1. Suits(q, 1, Len(plan[u]), vfs[u])
        BY <3>1, RunningHas DEF Inv, Planned
      <4>2. q.do = "undo"
        BY <3>1 DEF Doing
      <4> HIDE DEF q
      <4> QED
        BY <4>1, <4>2 DEF Suits
    <3> HIDE DEF q
    <3>4. q.child \notin gone
      <4> SUFFICES ASSUME q.child \in gone PROVE FALSE
        OBVIOUS
      <4>1. p.do \in {"rmdir", "undo"} /\ p.child = q.child
        BY <1>9
      <4>2. p.dir = q.dir /\ p.dir \in vfs[t].excl
        BY <1>6, <3>2, <4>1
      <4> QED
        BY <2>2, <3>3, <4>2 DEF Inv, Exclusive
    <3>5. \A c \in DOMAIN parent' : parent'[c] # q.child
      <4>1. p.do = "mkdir" => p.dir # q.child
        BY <1>6, <3>2
      <4> QED
        BY <1>9, <3>2, <4>1
    <3>6. \A v \in Threads : q.child \notin vfs'[v].excl \cup vfs'[v].shared
      BY <1>8, <3>2
    <3> QED
      BY <1>9, <3>2, <3>4, <3>5, <3>6 DEF q
  <2> QED
    BY <2>1, <2>2
<1> QED
  BY <1>11, <1>12, <1>13, <1>14, <1>15, <1>16, <1>17, <1>18 DEF Inv

\* Sequences of elements of a set.
LEMMA SeqOf ==
  ASSUME NEW S, NEW f \in S, NEW u \in S, NEW r \in S, NEW w \in S, NEW m \in S
  PROVE  /\ <<f, r>> \in Seq(S) /\ <<f, m>> \in Seq(S)
         /\ <<f, w, r>> \in Seq(S) /\ <<f, w, w>> \in Seq(S)
         /\ <<f, f, w, u>> \in Seq(S) /\ <<f, f, w, u, u>> \in Seq(S)
         /\ <<f>> \in Seq(S) /\ <<f, u>> \in Seq(S) /\ <<f, u, f>> \in Seq(S)
OBVIOUS

\* A handler that a thread may call: its phases are right for the inodes it has
\* locked.
Fits(pl, lock) ==
  /\ pl \in Seq(Phase) /\ lock \in Lock
  /\ lock.excl \cup lock.shared \subseteq Known
  /\ \A i \in DOMAIN pl : pl[i].do # "undo" /\ Suits(pl[i], i, Len(pl), lock)

\* One whose phases other than walks are on one directory that is locked.
Plain(d) == {Find, Update} \cup {On(d, do) : do \in {"read", "write"}}

LEMMA PlainFits ==
  ASSUME TypeOK, NEW d \in Known, NEW lock \in Lock, lock.excl \cup lock.shared = {d},
         NEW pl \in Seq(Plain(d))
  PROVE  Fits(pl, lock)
<1>1. d \in Live /\ d \in Dirs /\ Root \in Dirs
  BY NumberAssumption DEF TypeOK, Known, Live, Dirs
<1>2. \A p \in Plain(d) : /\ p \in Phase /\ p.do \notin {"mkdir", "rmdir", "undo"}
                          /\ p.do \in Walks => p.dir = Root
                          /\ p.do \notin Walks => p.dir = d
  BY <1>1 DEF Plain, Find, Update, On, Walks, Phase
<1>3. \A i \in DOMAIN pl : pl[i] \in Plain(d)
  OBVIOUS
<1>4. pl \in Seq(Phase)
  BY <1>2, <1>3
<1>5. \A i \in DOMAIN pl : pl[i].do # "undo" /\ Suits(pl[i], i, Len(pl), lock)
  BY <1>1, <1>2, <1>3 DEF Suits
<1> QED
  BY <1>4, <1>5 DEF Fits

LEMMA WalksFit ==
  ASSUME TypeOK, NEW lock \in Lock, lock.excl \cup lock.shared = {}, NEW pl \in Seq({Find, Update})
  PROVE  Fits(pl, lock)
<1>1. Root \in Dirs
  BY NumberAssumption DEF Dirs
<1>2. \A p \in {Find, Update} : p \in Phase /\ p.do \in Walks /\ p.do \notin {"mkdir", "rmdir", "undo"} /\ p.dir = Root
  BY <1>1 DEF Find, Update, Walks, Phase
<1>3. \A i \in DOMAIN pl : pl[i] \in {Find, Update}
  OBVIOUS
<1>4. pl \in Seq(Phase)
  BY <1>2, <1>3
<1>5. \A i \in DOMAIN pl : pl[i].do # "undo" /\ Suits(pl[i], i, Len(pl), lock)
  BY <1>2, <1>3 DEF Suits
<1> QED
  BY <1>4, <1>5 DEF Fits

\* A walk and then work on the list of one directory.
LEMMA ThenFits ==
  ASSUME Inv, NEW q \in Phase, NEW lock \in Lock, lock.excl \cup lock.shared \subseteq Known,
         q.do \notin Walks \cup {"undo"}, Suits(q, 2, 2, lock)
  PROVE  Fits(<<Find, q>>, lock)
<1>1. Find \in Phase /\ Find.do = "find" /\ Find.dir = Root
  BY NumberAssumption DEF Find, Walks, Phase, Dirs
<1>2. Suits(Find, 1, 2, lock)
  BY <1>1 DEF Suits, Walks
<1> DEFINE pl == <<Find, q>>
<1>3. pl \in Seq(Phase) /\ Len(pl) = 2 /\ DOMAIN pl = {1, 2} /\ pl[1] = Find /\ pl[2] = q
  BY <1>1
<1> HIDE DEF pl
<1>4. \A i \in DOMAIN pl : pl[i].do # "undo" /\ Suits(pl[i], i, Len(pl), lock)
  BY <1>1, <1>2, <1>3
<1>5. Fits(pl, lock)
  BY <1>3, <1>4 DEF Fits
<1> QED
  BY <1>5 DEF pl

LEMMA CallsFit ==
  ASSUME Inv, NEW c \in Calls
  PROVE  Fits(c.plan, c.lock)
<1>1. TypeOK
  BY DEF Inv
<1>2. /\ Live \subseteq Dirs /\ Known \subseteq Live
      /\ \A d \in DOMAIN parent : d \in Dirs /\ parent[d] \in Live
  BY <1>1, NumberAssumption DEF Inv, TypeOK, Downward, Known, Live, Dirs
<1>3. CASE c \in [plan : OnData, lock : {Free}]
  <2>1. c.plan \in OnData /\ c.lock \in Lock /\ c.lock.excl \cup c.lock.shared = {}
    BY <1>3 DEF Free, Lock
  <2>2. \A pl \in OnData : pl \in Seq({Find, Update})
    <3> DEFINE S == {Find, Update}
    <3>1. Find \in S /\ Update \in S
      OBVIOUS
    <3> HIDE DEF S
    <3>2. <<Find>> \in Seq(S) /\ <<Find, Update>> \in Seq(S) /\ <<Find, Update, Find>> \in Seq(S)
      BY <3>1, SeqOf, Zenon
    <3> QED
      BY <3>2 DEF OnData, S
  <2> QED
    BY <1>1, <2>1, <2>2, WalksFit
<1>4. CASE c \in UNION {[plan : OnList(d), lock : {[excl |-> {}, shared |-> {d}]}] : d \in Known}
  <2>1. PICK d \in Known : c \in [plan : OnList(d), lock : {[excl |-> {}, shared |-> {d}]}]
    BY <1>4
  <2>2. c.plan \in OnList(d) /\ c.lock = [excl |-> {}, shared |-> {d}]
    BY <2>1
  <2>3. c.lock \in Lock /\ c.lock.excl \cup c.lock.shared = {d}
    BY <1>2, <2>2 DEF Lock
  <2>4. c.plan \in Seq(Plain(d))
    <3>1. Find \in Plain(d) /\ On(d, "read") \in Plain(d)
      BY DEF Plain
    <3> QED
      BY <2>2, <3>1, SeqOf DEF OnList
  <2> QED
    BY <1>1, <2>3, <2>4, PlainFits
<1>5. CASE c \in UNION {[plan : OnNames(d), lock : {[excl |-> {d}, shared |-> {}]}] : d \in Known}
  <2>1. PICK d \in Known : c \in [plan : OnNames(d), lock : {[excl |-> {d}, shared |-> {}]}]
    BY <1>5
  <2>2. c.plan \in OnNames(d) /\ c.lock = [excl |-> {d}, shared |-> {}]
    BY <2>1
  <2>3. c.lock \in Lock /\ c.lock.excl \cup c.lock.shared = {d}
    BY <1>2, <2>2 DEF Lock
  <2>4. CASE c.plan = <<Find, On(d, "mkdir")>>
    <3> DEFINE m == On(d, "mkdir")
    <3>1. m \in Phase /\ m.do = "mkdir" /\ m.dir = d /\ m.child = None
      BY <1>2 DEF On, Phase
    <3> HIDE DEF m
    <3>2. c.lock.excl \cup c.lock.shared \subseteq Known /\ d \in c.lock.excl
      BY <2>2
    <3>3. Suits(m, 2, 2, c.lock)
      BY <1>2, <3>1, <3>2 DEF Suits, Walks
    <3>4. m.do \notin Walks \cup {"undo"}
      BY <3>1 DEF Walks
    <3>5. Fits(<<Find, m>>, c.lock)
      BY <2>3, <3>1, <3>2, <3>3, <3>4, ThenFits, Zenon
    <3> QED
      BY <2>4, <3>5 DEF m
  <2>5. CASE c.plan # <<Find, On(d, "mkdir")>>
    <3>1. Find \in Plain(d) /\ Update \in Plain(d) /\ On(d, "read") \in Plain(d) /\ On(d, "write") \in Plain(d)
      BY DEF Plain
    <3> DEFINE S == Plain(d)
               r == On(d, "read")
               w == On(d, "write")
    <3>2. c.plan \in {<<Find, w, r>>, <<Find, w, w>>,
                      <<Find, Find, w, Update>>, <<Find, Find, w, Update, Update>>}
      BY <2>2, <2>5 DEF OnNames
    <3>3. Find \in S /\ Update \in S /\ r \in S /\ w \in S
      BY <3>1
    <3> HIDE DEF S, r, w
    <3>4. /\ <<Find, w, r>> \in Seq(S) /\ <<Find, w, w>> \in Seq(S)
          /\ <<Find, Find, w, Update>> \in Seq(S) /\ <<Find, Find, w, Update, Update>> \in Seq(S)
      BY <3>3, SeqOf, Zenon
    <3>5. c.plan \in Seq(S)
      BY <3>2, <3>4
    <3>6. c.plan \in Seq(Plain(d))
      BY <3>5 DEF S
    <3> QED
      BY <1>1, <2>3, <3>6, PlainFits
  <2> QED
    BY <2>4, <2>5
<1>6. CASE c \in {[plan |-> <<Find, [do |-> "rmdir", dir |-> parent[d], child |-> d]>>,
                   lock |-> [excl |-> {parent[d], d}, shared |-> {}]] : d \in Known \ {Root}}
  <2>1. PICK d \in Known \ {Root} :
          c = [plan |-> <<Find, [do |-> "rmdir", dir |-> parent[d], child |-> d]>>,
               lock |-> [excl |-> {parent[d], d}, shared |-> {}]]
    BY <1>6
  <2> DEFINE r == [do |-> "rmdir", dir |-> parent[d], child |-> d]
  <2>2. c.plan = <<Find, r>> /\ c.lock = [excl |-> {parent[d], d}, shared |-> {}]
    BY <2>1
  <2>3. d \in DOMAIN parent /\ d \in Dirs /\ parent[d] \in Dirs /\ parent[d] \in Live
    BY <1>2 DEF Live
  <2>4. r \in Phase /\ r.do = "rmdir" /\ r.dir = parent[d] /\ r.child = d
    BY <2>3 DEF Phase
  <2> HIDE DEF r
  <2>5. c.lock \in Lock /\ c.lock.excl = {parent[d], d} /\ c.lock.shared = {}
    BY <2>2, <2>3 DEF Lock
  <2>6. parent[d] \in Known
    <3> SUFFICES ASSUME NEW t \in Threads, parent[d] \in Undone(t) PROVE FALSE
      BY <2>3 DEF Known
    <3>1. plan[t] # <<>> /\ Doing(t) = "undo" /\ parent[d] = Head(plan[t]).child
      BY DEF Undone, Doing
    <3> QED
      BY <2>3, <3>1 DEF Inv, Unseen, Children
  <2>7. c.lock.excl \cup c.lock.shared \subseteq Known
    BY <2>5, <2>6
  <2>8. Suits(r, 2, 2, c.lock) /\ r.do \notin Walks \cup {"undo"}
    BY <2>3, <2>4, <2>5 DEF Suits, Walks
  <2> QED
    BY <2>2, <2>4, <2>5, <2>7, <2>8, ThenFits
<1> QED
  BY <1>3, <1>4, <1>5, <1>6 DEF Calls

LEMMA StartKeeps ==
  ASSUME Inv, OneCounting', NEW t \in Threads, Start(t)
  PROVE  Inv'
<1>1. PICK c \in Calls : /\ Unlocked(t, c.lock)
                         /\ plan' = [plan EXCEPT ![t] = c.plan]
                         /\ vfs' = [vfs EXCEPT ![t] = c.lock]
  BY DEF Start
<1>2. /\ plan[t] = <<>>
      /\ UNCHANGED <<parent, held, writes, todo, want, queue>>
  BY DEF Start
<1>3. Fits(c.plan, c.lock)
  BY CallsFit
<1>4. /\ plan' \in [Threads -> Seq(Phase)] /\ vfs' \in [Threads -> Lock]
      /\ plan'[t] = c.plan /\ vfs'[t] = c.lock
      /\ \A u \in Threads : u # t => plan'[u] = plan[u] /\ vfs'[u] = vfs[u]
  BY <1>1, <1>3 DEF Inv, TypeOK, Fits
<1>5. TypeOK'
  BY <1>2, <1>4 DEF Inv, TypeOK
<1>6. Downward' /\ Queued'
  BY <1>2 DEF Inv, Downward, Live, Queued
<1>7. Exclusive'
  <2>1. \A u \in Threads : u # t => /\ vfs[u].excl \cap (c.lock.excl \cup c.lock.shared) = {}
                                    /\ vfs[u].shared \cap c.lock.excl = {}
    BY <1>1 DEF Unlocked
  <2> QED
    BY <1>2, <1>4, <2>1 DEF Inv, Exclusive
<1>8. Placed(t)' /\ Ordered(t)'
  <2>1. Uses(t) = {} /\ todo[t] \subseteq DOMAIN parent
    BY <1>2 DEF Inv, Placed
  <2>2. held[t] = {} /\ writes[t] = {} /\ todo[t] = {} /\ Uses(t)' = {}
    BY <1>2, <2>1 DEF Uses
  <2>3. want[t] = None
    <3> SUFFICES ASSUME want[t] # None PROVE FALSE
      OBVIOUS
    <3>1. want[t].dir \in Dirs
      BY DEF Inv, TypeOK, Want
    <3> QED
      BY <2>1, <3>1 DEF Uses
  <2> QED
    BY <1>2, <2>2, <2>3 DEF Placed, Ordered
<1>9. Planned(t)'
  BY <1>2, <1>3, <1>4 DEF Planned, Suits, Live, Known, Walks, Fits
<1>10. \A u \in Threads : u # t => Placed(u)' /\ Ordered(u)' /\ Planned(u)'
  BY <1>2, <1>4, OthersKeep
<1>11. Unseen'
  <2> SUFFICES ASSUME NEW u \in Threads, plan'[u] # <<>>, Head(plan'[u]).do = "undo"
               PROVE  LET q == Head(plan'[u]) IN
                        /\ q.child \in DOMAIN parent /\ parent[q.child] = q.dir
                        /\ Children(q.child) = {}
                        /\ \A v \in Threads : q.child \notin vfs'[v].excl \cup vfs'[v].shared
    BY <1>2 DEF Unseen, Doing, Children
  <2>1. u # t
    <3> SUFFICES ASSUME u = t PROVE FALSE
      OBVIOUS
    <3>1. c.plan \in Seq(Phase) /\ c.plan # <<>> /\ Head(c.plan).do = "undo"
      BY <1>3, <1>4 DEF Fits
    <3>2. 1 \in DOMAIN c.plan /\ c.plan[1] = Head(c.plan)
      BY <3>1
    <3> QED
      BY <1>3, <3>1, <3>2 DEF Fits
  <2>2. plan'[u] = plan[u] /\ Doing(u) = "undo"
    BY <1>4, <2>1 DEF Doing
  <2>3. Head(plan[u]).child \notin Known
    BY <2>2 DEF Known, Undone, Doing
  <2>4. Head(plan[u]).child \notin vfs'[t].excl \cup vfs'[t].shared
    BY <1>3, <1>4, <2>3 DEF Fits
  <2> QED
    BY <1>4, <2>2, <2>4 DEF Inv, Unseen
<1> QED
  BY <1>5, <1>6, <1>7, <1>8, <1>9, <1>10, <1>11 DEF Inv

-----------------------------------------------------------------------------
(* Theorems *)

LEMMA InitInv == Init => Inv
<1> SUFFICES ASSUME Init PROVE Inv
  OBVIOUS
<1>1. /\ DOMAIN parent = {} /\ queue = [d \in Dirs |-> <<>>]
      /\ \A t \in Threads : /\ plan[t] = <<>> /\ vfs[t] = Free /\ held[t] = {} /\ writes[t] = {}
                            /\ todo[t] = {} /\ want[t] = None
  BY DEF Init
<1>2. TypeOK
  BY <1>1 DEF Init, TypeOK, Free, Lock
<1>3. Downward /\ Queued /\ Exclusive
  BY <1>1 DEF Downward, Queued, Exclusive, Free
<1>4. \A t \in Threads : Uses(t) = {}
  BY <1>1 DEF Uses
<1>5. \A t \in Threads : Placed(t) /\ Ordered(t) /\ Planned(t)
  BY <1>1, <1>4 DEF Placed, Ordered, Planned, Free
<1>6. OneCounting /\ Unseen
  BY <1>1 DEF OneCounting, Takes, Unseen
<1> QED
  BY <1>2, <1>3, <1>5, <1>6 DEF Inv

LEMMA NextInv == Inv /\ [Next]_vars => Inv'
<1> SUFFICES ASSUME Inv, [Next]_vars PROVE Inv'
  OBVIOUS
<1>1. CASE Next
  BY <1>1, StartKeeps, GrantKeeps, BeginKeeps, OnOneListKeeps, UpdatedKeeps, DescendKeeps,
     FoundKeeps, AscendKeeps, Zenon
     DEF Next, Step
<1>2. CASE UNCHANGED vars
  <2>1. \A u \in Threads : Placed(u)' /\ Ordered(u)' /\ Planned(u)'
    BY <1>2, OthersKeep DEF vars
  <2>2. OneCounting'
    BY <1>2 DEF vars, Inv, OneCounting, Takes, Doing, Live
  <2>3. Unseen'
    BY <1>2, StillUnseen DEF vars
  <2> QED
    BY <1>2, <2>1, <2>2, <2>3 DEF vars, Inv, TypeOK, Downward, Live, Queued, Exclusive
<1> QED
  BY <1>1, <1>2

\* The invariant holds in every state, whatever handlers overlap while OneCounting
\* holds, which is part of Spec.
THEOREM AlwaysInv == Spec => []Inv
  BY InitInv, NextInv, PTL DEF Spec

\* The variables keep their types.
THEOREM TypeCorrect == Spec => []TypeOK
<1>1. Inv => TypeOK
  BY DEF Inv
<1> QED
  BY <1>1, AlwaysInv, PTL

\* Semaphores are taken from the root down, in trees of any depth.
THEOREM TopDown == Spec => []LockOrder
  BY InvLockOrder, AlwaysInv, PTL

\* Any number of threads in any handlers never all wait for one another: while
\* one waits, some thread can go on.
THEOREM DeadlockFree == Spec => []NoDeadlock
  BY InvNoDeadlock, AlwaysInv, PTL

\* vtfs_rmdir, and vtfs_mkdir when no inode can be allocated for the directory that
\* it has listed, free a semaphore only when nobody else holds it, waits for it, or
\* is about to take it.  The condition, OneCounting: no two mkdirs, nor a mkdir and
\* a create, are at next_ino++ at a time, so that no two directories share a number.
THEOREM SemaphoresLive == Spec => []NoFreedSemaphore
  BY InvNoFreedSemaphore, AlwaysInv, PTL
=============================================================================
