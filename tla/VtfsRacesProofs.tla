-------------------------- MODULE VtfsRacesProofs --------------------------
(***************************************************************************)
(* Proofs of what holds of create, link and unlink when they overlap: of   *)
(* the entries always, of numbers, counts and pointers in the steps of     *)
(* ApartSpec.                                                              *)
(***************************************************************************)
EXTENDS VtfsRaces, FiniteSetTheorems, WellFoundedInduction, TLAPS

-----------------------------------------------------------------------------
(* The helpers *)

Entry == [dir : Dirs, name : Names, ino : Nat, nlink : Int]

LEMMA BusyCall ==
  ASSUME TypeOK, NEW t \in Threads, Busy(t)
  PROVE  call[t] \in Calls /\ call[t] # Idle
BY DEF TypeOK, Busy

\* A thread begins a call, goes on with it, or returns.
LEMMA CallTyped ==
  ASSUME TypeOK, NEW t \in Threads, NEW c \in Calls \cup {Idle},
         call' = [call EXCEPT ![t] = c]
  PROVE  /\ call' \in [Threads -> Calls \cup {Idle}]
         /\ call'[t] = c
         /\ \A u \in Threads : u # t => call'[u] = call[u]
BY DEF TypeOK

LEMMA AddIs ==
  ASSUME NEW e, NEW d, NEW n, NEW x, NEW c
  PROVE  /\ DOMAIN Add(e, d, n, x, c) = DOMAIN file \cup {e}
         /\ Add(e, d, n, x, c)[e] = [dir |-> d, name |-> n, ino |-> x, nlink |-> c]
         /\ \A k \in DOMAIN file : k # e => Add(e, d, n, x, c)[k] = file[k]
BY DEF Add

LEMMA WithoutIs ==
  ASSUME NEW E
  PROVE  /\ DOMAIN Without(E) = DOMAIN file \ E
         /\ \A k \in DOMAIN file \ E : Without(E)[k] = file[k]
BY DEF Without

\* Every non-empty set of numbers has a least one.
LEMMA LeastExists ==
  ASSUME NEW S, S \subseteq Nat, S # {}
  PROVE  \E n \in S : \A m \in S : n <= m
<1>1. PICK n \in S : \A m \in S : <<m, n>> \notin OpToRel(<, Nat)
  BY NatLessThanWellFounded, WFMin, Zenon
<1>2. \A m \in S : ~ (m < n)
  BY <1>1, Zenon DEF OpToRel
<1> QED
  BY <1>2

\* What is always true: the types, and that each allocated entry has one place.
BaseInv == TypeOK /\ EntriesOnce

LEMMA LinksTyped ==
  ASSUME BaseInv, NEW x
  PROVE  /\ LinksOf(x) \subseteq listed /\ listed \subseteq DOMAIN file /\ listed \subseteq Entries
         /\ \A e \in listed : file[e] \in Entry
         /\ IsFiniteSet(LinksOf(x)) /\ Cardinality(LinksOf(x)) \in Nat
<1>1. LinksOf(x) \subseteq listed
  BY DEF LinksOf
<1>2. listed \subseteq DOMAIN file /\ listed \subseteq Entries
  BY DEF BaseInv, TypeOK, EntriesOnce
<1>3. \A e \in listed : file[e] \in Entry
  BY <1>2 DEF BaseInv, TypeOK, Entry
<1>4. IsFiniteSet(Entries)
  BY NumbersAssumption, FS_Interval DEF Entries
<1>5. IsFiniteSet(LinksOf(x))
  BY <1>1, <1>2, <1>4, FS_Subset
<1> QED
  BY <1>1, <1>2, <1>3, <1>5, FS_CardinalityType

LEMMA FirstIsALink ==
  ASSUME BaseInv, NEW x, LinksOf(x) # {}
  PROVE  First(x) \in LinksOf(x)
<1>1. \A e \in LinksOf(x) : file[e].dir \in Nat /\ e \in Nat
  BY LinksTyped, NumbersAssumption DEF Entry, Dirs, Entries
<1> DEFINE D == {file[e].dir : e \in LinksOf(x)}
<1>2. D \subseteq Nat /\ D # {}
  BY <1>1
<1>3. PICK d \in D : \A b \in D : d <= b
  BY <1>2, LeastExists
<1> DEFINE E == {e \in LinksOf(x) : file[e].dir = d}
<1>4. E \subseteq Nat /\ E # {}
  BY <1>1, <1>3
<1>5. PICK e \in E : \A k \in E : e <= k
  BY <1>4, LeastExists
<1>6. \A k \in LinksOf(x) : file[e].dir <= file[k].dir
  BY <1>3, <1>5
<1>7. ASSUME NEW k \in LinksOf(x)
      PROVE  \/ file[e].dir < file[k].dir
             \/ file[e].dir = file[k].dir /\ e <= k
  <2>1. CASE file[k].dir = d
    BY <1>5, <2>1
  <2>2. CASE file[k].dir # d
    BY <1>1, <1>5, <1>6, <2>2
  <2> QED
    BY <2>1, <2>2
<1>8. e \in LinksOf(x)
  BY <1>5
<1> QED
  BY <1>7, <1>8 DEF First

-----------------------------------------------------------------------------
(* What every step keeps *)

\* The entries that are about to be freed
Held == {call[t].entry : t \in {u \in Threads : Freeing(u)}}

\* A thread that neither begins nor ends to free an entry keeps EntriesOnce.
LEMMA OnceKept ==
  ASSUME BaseInv, NEW t \in Threads, ~Freeing(t), ~Freeing(t)',
         \A u \in Threads : u # t => call'[u] = call[u],
         DOMAIN file' \ listed' = DOMAIN file \ listed, listed' \subseteq DOMAIN file'
  PROVE  EntriesOnce'
<1>1. \A u \in Threads : Freeing(u)' <=> Freeing(u)
  BY DEF Freeing, Doing, Busy
<1>2. \A u \in Threads : Freeing(u) => u # t /\ call'[u] = call[u]
  OBVIOUS
<1>3. {call'[u].entry : u \in {w \in Threads : Freeing(w)'}} = Held
  BY <1>1, <1>2 DEF Held
<1>4. DOMAIN file = listed \cup Held /\ Held \cap listed = {}
  BY DEF BaseInv, EntriesOnce, Held
<1>5. \A u \in Threads : Freeing(u) => call[u].entry \in Held
  BY DEF Held
<1>6. DOMAIN file' = listed' \cup Held /\ Held \cap listed' = {}
  BY <1>4
<1>7. ASSUME NEW u \in Threads, Freeing(u)'
      PROVE  /\ call'[u].entry \notin listed'
             /\ \A w \in Threads : Freeing(w)' /\ call'[w].entry = call'[u].entry => w = u
  <2>1. Freeing(u) /\ call'[u] = call[u] /\ call[u].entry \in Held
    BY <1>1, <1>2, <1>5, <1>7
  <2>2. ASSUME NEW w \in Threads, Freeing(w)', call'[w].entry = call'[u].entry
        PROVE  w = u
    BY <1>1, <1>2, <2>1, <2>2 DEF BaseInv, EntriesOnce
  <2> QED
    BY <1>6, <2>1, <2>2
<1> QED
  BY <1>3, <1>6, <1>7 DEF EntriesOnce

\* A step of one call that leaves the entries alone.
LEMMA CallKeepsBase ==
  ASSUME BaseInv, NEW t \in Threads, NEW c \in Calls \cup {Idle},
         call' = [call EXCEPT ![t] = c], ~Freeing(t),
         c # Idle => c.do # "unlink" \/ c.at # "count",
         UNCHANGED <<file, listed>>, next_ino' \in Nat,
         DOMAIN dentry' \subseteq Dirs \X Names,
         \A k \in DOMAIN dentry' : dentry'[k] \in DOMAIN number',
         DOMAIN number' \subseteq Objects,
         \A o \in DOMAIN number' : number'[o] \in Nat
  PROVE  BaseInv'
<1>1. /\ call' \in [Threads -> Calls \cup {Idle}] /\ call'[t] = c
      /\ \A u \in Threads : u # t => call'[u] = call[u]
  BY CallTyped DEF BaseInv
<1>2. TypeOK'
  BY <1>1 DEF BaseInv, TypeOK
<1>3. ~Freeing(t)'
  BY <1>1 DEF Freeing, Doing, Busy
<1>4. listed \subseteq DOMAIN file
  BY DEF BaseInv, EntriesOnce
<1>5. EntriesOnce'
  BY <1>1, <1>3, <1>4, OnceKept
<1> QED
  BY <1>2, <1>5 DEF BaseInv

-----------------------------------------------------------------------------
(* The handlers *)

\* What the tables say of dentries and numbers, for the steps that leave them alone
LEMMA TablesTyped ==
  ASSUME BaseInv
  PROVE  /\ next_ino \in Nat
         /\ DOMAIN dentry \subseteq Dirs \X Names
         /\ \A k \in DOMAIN dentry : dentry[k] \in DOMAIN number
         /\ DOMAIN number \subseteq Objects
         /\ \A o \in DOMAIN number : number[o] \in Nat
BY DEF BaseInv, TypeOK

NewCall(do, d, n, o) ==
  [do |-> do, at |-> "start", dir |-> d, name |-> n, inode |-> o,
   ino |-> IF do = "create" THEN 0 ELSE number[o],
   entry |-> Idle, main |-> Idle, nlink |-> 0, walk |-> 0]

\* The VFS calls a handler: what it has looked up and locked.
Starts(t, do, d, n, o) ==
  /\ NewCall(do, d, n, o) \in Calls
  /\ call' = [call EXCEPT ![t] = NewCall(do, d, n, o)]
  /\ Unlocked(d, o)
  /\ do = "create" => /\ <<d, n>> \notin DOMAIN dentry /\ At(d, n) = {}
                      /\ \A k \in DOMAIN dentry : dentry[k] # o
  /\ do = "link" => <<d, n>> \notin DOMAIN dentry /\ \E k \in DOMAIN dentry : dentry[k] = o
  /\ do = "unlink" => <<d, n>> \in DOMAIN dentry /\ dentry[<<d, n>>] = o

LEMMA StartIs ==
  ASSUME BaseInv, NEW t \in Threads, Start(t)
  PROVE  /\ ~Busy(t) /\ UNCHANGED <<file, listed, next_ino, dentry, number>>
         /\ \E do \in {"create", "link", "unlink"}, d \in Dirs, n \in Names, o \in Objects :
              Starts(t, do, d, n, o)
<1>1. ~Busy(t) /\ UNCHANGED <<file, listed, next_ino, dentry, number>>
  BY DEF Start, Call
<1>2. PICK d \in Dirs, n \in Names :
       \/ /\ <<d, n>> \notin DOMAIN dentry /\ At(d, n) = {}
          /\ \E o \in FreshObjects : Unlocked(d, o) /\ Call(t, "create", d, n, o)
       \/ /\ <<d, n>> \notin DOMAIN dentry
          /\ \E k \in DOMAIN dentry :
               Unlocked(d, dentry[k]) /\ Call(t, "link", d, n, dentry[k])
       \/ /\ <<d, n>> \in DOMAIN dentry
          /\ Unlocked(d, dentry[<<d, n>>])
          /\ Call(t, "unlink", d, n, dentry[<<d, n>>])
  BY DEF Start
<1>3. ASSUME NEW do \in {"create", "link", "unlink"}, NEW o \in Objects,
             do = "create" \/ o \in DOMAIN number, Call(t, do, d, n, o)
      PROVE  /\ NewCall(do, d, n, o) \in Calls
             /\ call' = [call EXCEPT ![t] = NewCall(do, d, n, o)]
  <2>1. (IF do = "create" THEN 0 ELSE number[o]) \in Nat
    BY <1>3, TablesTyped
  <2>2. NewCall(do, d, n, o) \in Calls
    BY <2>1, NumbersAssumption DEF NewCall, Calls, Places
  <2> QED
    BY <1>3, <2>2 DEF Call, NewCall
<1>4. \A k \in DOMAIN dentry : dentry[k] \in DOMAIN number /\ dentry[k] \in Objects
  BY TablesTyped
<1>5. ASSUME NEW o \in FreshObjects
      PROVE  o \in Objects /\ \A k \in DOMAIN dentry : dentry[k] # o
  BY DEF FreshObjects
<1> QED
  BY <1>1, <1>2, <1>3, <1>4, <1>5 DEF Starts

LEMMA StartKeepsBase ==
  ASSUME BaseInv, NEW t \in Threads, Start(t)
  PROVE  BaseInv'
<1>1. PICK do \in {"create", "link", "unlink"}, d \in Dirs, n \in Names, o \in Objects :
        Starts(t, do, d, n, o)
  BY StartIs
<1>2. ~Busy(t) /\ UNCHANGED <<file, listed, next_ino, dentry, number>>
  BY StartIs
<1>3. NewCall(do, d, n, o).at = "start"
  BY DEF NewCall
<1>4. ~Freeing(t)
  BY <1>2 DEF Freeing, Doing
<1> QED
  BY <1>1, <1>2, <1>3, <1>4, TablesTyped, CallKeepsBase DEF Starts

\* What a busy thread has in its call
LEMMA CallIs ==
  ASSUME BaseInv, NEW t \in Threads, Busy(t)
  PROVE  /\ call[t] \in Calls /\ call[t] # Idle
         /\ call[t].do \in {"create", "link", "unlink"} /\ call[t].at \in Places
         /\ call[t].dir \in Dirs /\ call[t].name \in Names /\ call[t].inode \in Objects
         /\ call[t].ino \in Nat /\ call[t].nlink \in Int /\ call[t].walk \in 0 .. LastDir + 1
         /\ call \in [Threads -> Calls \cup {Idle}]
BY BusyCall DEF BaseInv, TypeOK, Calls

LEMMA ReturnIs ==
  ASSUME BaseInv, NEW t \in Threads, Return(t)
  PROVE  /\ call'[t] = Idle /\ ~Busy(t)'
         /\ \A u \in Threads : u # t => call'[u] = call[u]
         /\ call' \in [Threads -> Calls \cup {Idle}]
BY DEF Return, BaseInv, TypeOK, Busy

LEMMA DropIs ==
  ASSUME BaseInv, NEW t \in Threads, Busy(t), Drop(t)
  PROVE  /\ DOMAIN dentry' = DOMAIN dentry \ {<<call[t].dir, call[t].name>>}
         /\ \A k \in DOMAIN dentry' : dentry'[k] = dentry[k]
BY DEF Drop

LEMMA InstantiateIs ==
  ASSUME BaseInv, NEW t \in Threads, Busy(t), Instantiate(t)
  PROVE  /\ DOMAIN dentry' = DOMAIN dentry \cup {<<call[t].dir, call[t].name>>}
         /\ dentry'[<<call[t].dir, call[t].name>>] = call[t].inode
         /\ \A k \in DOMAIN dentry : k # <<call[t].dir, call[t].name>> => dentry'[k] = dentry[k]
BY DEF Instantiate

LEMMA LoadNumberIs ==
  ASSUME BaseInv, NEW t \in Threads, LoadNumber(t)
  PROVE  LET c == [call[t] EXCEPT !.at = "loaded", !.ino = next_ino]
         IN /\ Busy(t) /\ call[t].do = "create" /\ call[t].at = "start"
            /\ c \in Calls /\ call' = [call EXCEPT ![t] = c]
            /\ UNCHANGED <<file, listed, next_ino, dentry, number>>
<1>1. Busy(t) /\ call[t].do = "create" /\ call[t].at = "start"
  BY DEF LoadNumber, Doing
<1>2. call[t] \in Calls /\ call \in [Threads -> Calls \cup {Idle}]
  BY <1>1, CallIs
<1>3. next_ino \in Nat
  BY TablesTyped
<1>4. [call[t] EXCEPT !.at = "loaded", !.ino = next_ino] \in Calls
  BY <1>2, <1>3 DEF Calls, Places
<1> QED
  BY <1>1, <1>2, <1>4 DEF LoadNumber

LEMMA StoreNumberIs ==
  ASSUME BaseInv, NEW t \in Threads, StoreNumber(t)
  PROVE  LET c == [call[t] EXCEPT !.at = "stored"]
         IN /\ Busy(t) /\ call[t].do = "create" /\ call[t].at = "loaded"
            /\ c \in Calls /\ call' = [call EXCEPT ![t] = c]
            /\ next_ino' = call[t].ino + 1
            /\ UNCHANGED <<file, listed, dentry, number>>
<1>1. Busy(t) /\ call[t].do = "create" /\ call[t].at = "loaded"
  BY DEF StoreNumber, Doing
<1>2. call[t] \in Calls /\ call \in [Threads -> Calls \cup {Idle}]
  BY <1>1, CallIs
<1>3. [call[t] EXCEPT !.at = "stored"] \in Calls
  BY <1>2 DEF Calls, Places
<1> QED
  BY <1>1, <1>2, <1>3 DEF StoreNumber

\* There is no memory, or the new entry is in its list with its dentry, or without one
\* as there is no memory for the inode.
LEMMA CreateFileIs ==
  ASSUME BaseInv, NEW t \in Threads, CreateFile(t)
  PROVE  LET c == [call[t] EXCEPT !.at = "listed"]
         IN /\ Busy(t) /\ call[t].do = "create" /\ call[t].at = "stored"
            /\ UNCHANGED next_ino
            /\ \/ Return(t) /\ UNCHANGED <<file, listed, number, dentry>>
               \/ \E e \in NewEntries :
                    /\ file' = Add(e, call[t].dir, call[t].name, call[t].ino, 1)
                    /\ listed' = listed \cup {e}
                    /\ \/ /\ Return(t) /\ Instantiate(t)
                          /\ DOMAIN number' = DOMAIN number \cup {call[t].inode}
                          /\ number'[call[t].inode] = call[t].ino
                          /\ \A o \in DOMAIN number : o # call[t].inode => number'[o] = number[o]
                       \/ /\ c \in Calls /\ call' = [call EXCEPT ![t] = c]
                          /\ UNCHANGED <<number, dentry>>
<1> DEFINE c == [call[t] EXCEPT !.at = "listed"]
<1>1. Busy(t) /\ call[t].do = "create" /\ call[t].at = "stored" /\ UNCHANGED next_ino
  BY DEF CreateFile, Doing
<1>2. call[t] \in Calls /\ call \in [Threads -> Calls \cup {Idle}]
  BY <1>1, CallIs
<1>3. c \in Calls
  BY <1>2 DEF Calls, Places
<1>4. [call EXCEPT ![t].at = "listed"] = [call EXCEPT ![t] = c]
  BY <1>2
<1> HIDE DEF c
<1>5. CASE Return(t) /\ UNCHANGED <<file, listed, number, dentry>>
  BY <1>1, <1>5
<1>6. CASE ~ (Return(t) /\ UNCHANGED <<file, listed, number, dentry>>)
  <2>1. PICK e \in NewEntries :
          /\ file' = Add(e, call[t].dir, call[t].name, call[t].ino, 1)
          /\ listed' = listed \cup {e}
          /\ \/ /\ number' = [o \in DOMAIN number \cup {call[t].inode} |->
                                IF o = call[t].inode THEN call[t].ino ELSE number[o]]
                /\ Instantiate(t) /\ Return(t)
             \/ /\ call' = [call EXCEPT ![t].at = "listed"]
                /\ UNCHANGED <<dentry, number>>
    BY <1>6 DEF CreateFile
  <2>2. CASE /\ call' = [call EXCEPT ![t].at = "listed"]
             /\ UNCHANGED <<dentry, number>>
    BY <1>1, <1>3, <1>4, <2>1, <2>2 DEF c
  <2>3. CASE /\ number' = [o \in DOMAIN number \cup {call[t].inode} |->
                             IF o = call[t].inode THEN call[t].ino ELSE number[o]]
             /\ Instantiate(t) /\ Return(t)
    <3>1. /\ DOMAIN number' = DOMAIN number \cup {call[t].inode}
          /\ number'[call[t].inode] = call[t].ino
          /\ \A o \in DOMAIN number : o # call[t].inode => number'[o] = number[o]
      BY <2>3
    <3> QED
      BY <1>1, <2>1, <2>3, <3>1
  <2> QED
    BY <2>1, <2>2, <2>3
<1> QED
  BY <1>5, <1>6

LEMMA RemoveFileIs ==
  ASSUME BaseInv, NEW t \in Threads, RemoveFile(t)
  PROVE  LET gone == At(call[t].dir, call[t].name)
         IN /\ Busy(t) /\ call[t].do = "create" /\ call[t].at = "listed"
            /\ Return(t) /\ UNCHANGED <<next_ino, dentry, number>>
            /\ gone \subseteq listed
            /\ file' = Without(gone) /\ listed' = listed \ gone
BY DEF RemoveFile, Doing, At

LEMMA FindMainIs ==
  ASSUME BaseInv, NEW t \in Threads, FindMain(t)
  PROVE  LET c == [call[t] EXCEPT !.at = "found", !.main = First(call[t].ino)]
         IN /\ Busy(t) /\ call[t].do \in {"link", "unlink"} /\ call[t].at = "start"
            /\ UNCHANGED <<file, listed, next_ino, dentry, number>>
            /\ \/ Return(t)
               \/ /\ c \in Calls /\ call' = [call EXCEPT ![t] = c]
                  /\ First(call[t].ino) \in LinksOf(call[t].ino)
<1>1. /\ Busy(t) /\ call[t].do \in {"link", "unlink"} /\ call[t].at = "start"
      /\ UNCHANGED <<file, listed, next_ino, dentry, number>>
  BY DEF FindMain
<1>2. call[t] \in Calls /\ call \in [Threads -> Calls \cup {Idle}]
  BY <1>1, CallIs
<1>3. CASE LinksOf(call[t].ino) = {}
  BY <1>1, <1>3 DEF FindMain
<1>4. CASE LinksOf(call[t].ino) # {}
  <2>1. First(call[t].ino) \in LinksOf(call[t].ino)
    BY <1>4, FirstIsALink
  <2>2. First(call[t].ino) \in Entries
    BY <2>1, LinksTyped
  <2>3. [call[t] EXCEPT !.at = "found", !.main = First(call[t].ino)] \in Calls
    BY <1>2, <2>2 DEF Calls, Places
  <2> QED
    BY <1>1, <1>2, <1>4, <2>1, <2>3 DEF FindMain
<1> QED
  BY <1>3, <1>4

LEMMA CountsAtTyped ==
  ASSUME BaseInv, NEW e, NEW n \in CountsAt(e)
  PROVE  n \in Int
BY NumbersAssumption DEF CountsAt, Counts, BaseInv, TypeOK

LEMMA AddLinkIs ==
  ASSUME BaseInv, NEW t \in Threads, AddLink(t)
  PROVE  LET c == [call[t] EXCEPT !.at = "added"]
         IN /\ Busy(t) /\ call[t].do = "link" /\ call[t].at = "found"
            /\ UNCHANGED <<next_ino, dentry, number>>
            /\ \/ Return(t) /\ UNCHANGED <<file, listed>>
               \/ /\ c \in Calls /\ call' = [call EXCEPT ![t] = c]
                  /\ \E e \in NewEntries, n \in CountsAt(call[t].main) :
                       /\ listed' = listed \cup {e}
                       /\ DOMAIN file' = DOMAIN file \cup {e}
                       /\ file'[e] = [dir |-> call[t].dir, name |-> call[t].name,
                                      ino |-> call[t].ino, nlink |-> n + 1]
                       /\ \A k \in DOMAIN file : k # e =>
                            file'[k] = IF k = call[t].main THEN [file[k] EXCEPT !.nlink = n + 1]
                                                           ELSE file[k]
<1>1. /\ Busy(t) /\ call[t].do = "link" /\ call[t].at = "found"
      /\ UNCHANGED <<next_ino, dentry, number>>
  BY DEF AddLink, Doing
<1>2. call[t] \in Calls /\ call \in [Threads -> Calls \cup {Idle}]
  BY <1>1, CallIs
<1>3. [call[t] EXCEPT !.at = "added"] \in Calls
  BY <1>2 DEF Calls, Places
<1>4. CASE Return(t) /\ UNCHANGED <<file, listed>>
  BY <1>1, <1>4
<1>5. ASSUME NEW e \in NewEntries, NEW n \in CountsAt(call[t].main),
             file' = LET added == Add(e, call[t].dir, call[t].name, call[t].ino, n + 1)
                     IN [k \in DOMAIN added |->
                           IF k = call[t].main THEN [added[k] EXCEPT !.nlink = n + 1]
                                               ELSE added[k]],
             listed' = listed \cup {e}, call' = [call EXCEPT ![t].at = "added"]
      PROVE  /\ DOMAIN file' = DOMAIN file \cup {e}
             /\ file'[e] = [dir |-> call[t].dir, name |-> call[t].name,
                            ino |-> call[t].ino, nlink |-> n + 1]
             /\ \A k \in DOMAIN file : k # e =>
                  file'[k] = IF k = call[t].main THEN [file[k] EXCEPT !.nlink = n + 1]
                                                 ELSE file[k]
             /\ call' = [call EXCEPT ![t] = [call[t] EXCEPT !.at = "added"]]
  <2> DEFINE added == Add(e, call[t].dir, call[t].name, call[t].ino, n + 1)
  <2>1. /\ DOMAIN added = DOMAIN file \cup {e}
        /\ added[e] = [dir |-> call[t].dir, name |-> call[t].name,
                       ino |-> call[t].ino, nlink |-> n + 1]
        /\ \A k \in DOMAIN file : k # e => added[k] = file[k]
    BY DEF Add
  <2>2. file' = [k \in DOMAIN added |->
                   IF k = call[t].main THEN [added[k] EXCEPT !.nlink = n + 1] ELSE added[k]]
    BY <1>5
  <2> HIDE DEF added
  <2>3. DOMAIN file' = DOMAIN file \cup {e}
    BY <2>1, <2>2
  <2>4. file'[e] = added[e]
    BY <2>1, <2>2
  <2>5. \A k \in DOMAIN file : k # e =>
          file'[k] = IF k = call[t].main THEN [file[k] EXCEPT !.nlink = n + 1] ELSE file[k]
    BY <2>1, <2>2
  <2> QED
    BY <1>2, <1>5, <2>1, <2>3, <2>4, <2>5
<1>6. \/ Return(t) /\ UNCHANGED <<file, listed>>
      \/ \E e \in NewEntries, n \in CountsAt(call[t].main) :
           /\ file' = LET added == Add(e, call[t].dir, call[t].name, call[t].ino, n + 1)
                      IN [k \in DOMAIN added |->
                            IF k = call[t].main THEN [added[k] EXCEPT !.nlink = n + 1]
                                                ELSE added[k]]
           /\ listed' = listed \cup {e}
           /\ call' = [call EXCEPT ![t].at = "added"]
  BY DEF AddLink
<1>7. CASE \E e \in NewEntries, n \in CountsAt(call[t].main) :
           /\ file' = LET added == Add(e, call[t].dir, call[t].name, call[t].ino, n + 1)
                      IN [k \in DOMAIN added |->
                            IF k = call[t].main THEN [added[k] EXCEPT !.nlink = n + 1]
                                                ELSE added[k]]
           /\ listed' = listed \cup {e}
           /\ call' = [call EXCEPT ![t].at = "added"]
  <2>1. PICK e \in NewEntries, n \in CountsAt(call[t].main) :
           /\ file' = LET added == Add(e, call[t].dir, call[t].name, call[t].ino, n + 1)
                      IN [k \in DOMAIN added |->
                            IF k = call[t].main THEN [added[k] EXCEPT !.nlink = n + 1]
                                                ELSE added[k]]
           /\ listed' = listed \cup {e}
           /\ call' = [call EXCEPT ![t].at = "added"]
    BY <1>7
  <2>2. /\ DOMAIN file' = DOMAIN file \cup {e}
        /\ file'[e] = [dir |-> call[t].dir, name |-> call[t].name,
                       ino |-> call[t].ino, nlink |-> n + 1]
        /\ \A k \in DOMAIN file : k # e =>
             file'[k] = IF k = call[t].main THEN [file[k] EXCEPT !.nlink = n + 1]
                                            ELSE file[k]
        /\ call' = [call EXCEPT ![t] = [call[t] EXCEPT !.at = "added"]]
    BY <1>5, <2>1
  <2> QED
    BY <1>1, <1>3, <2>1, <2>2
<1> QED
  BY <1>1, <1>4, <1>6, <1>7

LEMMA ReadCountIs ==
  ASSUME BaseInv, NEW t \in Threads, ReadCount(t)
  PROVE  /\ Busy(t) /\ call[t].do = "link" /\ call[t].at = "added"
         /\ UNCHANGED <<file, listed, next_ino, dentry, number>>
         /\ \E n \in CountsAt(call[t].main) :
              LET c == [call[t] EXCEPT !.at = "count", !.nlink = n]
              IN c \in Calls /\ call' = [call EXCEPT ![t] = c]
<1>1. /\ Busy(t) /\ call[t].do = "link" /\ call[t].at = "added"
      /\ UNCHANGED <<file, listed, next_ino, dentry, number>>
  BY DEF ReadCount, Doing
<1>2. call[t] \in Calls /\ call \in [Threads -> Calls \cup {Idle}]
  BY <1>1, CallIs
<1>3. PICK n \in CountsAt(call[t].main) : call' = [call EXCEPT ![t].at = "count", ![t].nlink = n]
  BY DEF ReadCount
<1>4. n \in Int
  BY CountsAtTyped
<1>5. [call[t] EXCEPT !.at = "count", !.nlink = n] \in Calls
  BY <1>2, <1>4 DEF Calls, Places
<1>6. call' = [call EXCEPT ![t] = [call[t] EXCEPT !.at = "count", !.nlink = n]]
  BY <1>2, <1>3
<1> QED
  BY <1>1, <1>5, <1>6

\* The entries with the name and the number of the call
Own(t) == {e \in At(call[t].dir, call[t].name) : file[e].ino = call[t].ino}

LEMMA RemoveNameIs ==
  ASSUME BaseInv, NEW t \in Threads, RemoveName(t)
  PROVE  /\ Busy(t) /\ call[t].do = "unlink" /\ call[t].at = "found"
         /\ UNCHANGED <<file, next_ino, dentry, number>>
         /\ \/ Return(t) /\ UNCHANGED listed
            \/ \E e \in listed, n \in CountsAt(call[t].main) :
                 LET c == [call[t] EXCEPT !.at = "count", !.entry = e, !.nlink = n - 1]
                 IN /\ file[e].ino = call[t].ino
                    /\ listed' = listed \ {e}
                    /\ c \in Calls /\ call' = [call EXCEPT ![t] = c]
<1>1. /\ Busy(t) /\ call[t].do = "unlink" /\ call[t].at = "found"
      /\ UNCHANGED <<file, next_ino, dentry, number>>
  BY DEF RemoveName, Doing
<1>2. call[t] \in Calls /\ call \in [Threads -> Calls \cup {Idle}]
  BY <1>1, CallIs
<1>3. \/ Return(t) /\ UNCHANGED listed
      \/ \E e \in Own(t), n \in CountsAt(call[t].main) :
           /\ listed' = listed \ {e}
           /\ call' = [call EXCEPT ![t].at = "count", ![t].entry = e, ![t].nlink = n - 1]
  BY DEF RemoveName, Own
<1>4. CASE Return(t) /\ UNCHANGED listed
  BY <1>1, <1>4
<1>5. ASSUME NEW e \in Own(t), NEW n \in CountsAt(call[t].main),
             listed' = listed \ {e},
             call' = [call EXCEPT ![t].at = "count", ![t].entry = e, ![t].nlink = n - 1]
      PROVE  LET c == [call[t] EXCEPT !.at = "count", !.entry = e, !.nlink = n - 1]
             IN /\ e \in listed /\ file[e].ino = call[t].ino
                /\ c \in Calls /\ call' = [call EXCEPT ![t] = c]
  <2>1. e \in listed /\ file[e].ino = call[t].ino
    BY DEF Own, At
  <2>2. e \in Entries /\ n - 1 \in Int
    BY <2>1, LinksTyped, CountsAtTyped
  <2>3. [call[t] EXCEPT !.at = "count", !.entry = e, !.nlink = n - 1] \in Calls
    BY <1>2, <2>2 DEF Calls, Places
  <2>4. call' = [call EXCEPT ![t] = [call[t] EXCEPT !.at = "count", !.entry = e, !.nlink = n - 1]]
    BY <1>2, <1>5
  <2> QED
    BY <2>1, <2>3, <2>4
<1>6. CASE \E e \in Own(t), n \in CountsAt(call[t].main) :
             /\ listed' = listed \ {e}
             /\ call' = [call EXCEPT ![t].at = "count", ![t].entry = e, ![t].nlink = n - 1]
  <2>1. PICK e \in Own(t), n \in CountsAt(call[t].main) :
             /\ listed' = listed \ {e}
             /\ call' = [call EXCEPT ![t].at = "count", ![t].entry = e, ![t].nlink = n - 1]
    BY <1>6
  <2>2. LET c == [call[t] EXCEPT !.at = "count", !.entry = e, !.nlink = n - 1]
        IN /\ e \in listed /\ file[e].ino = call[t].ino
           /\ c \in Calls /\ call' = [call EXCEPT ![t] = c]
    BY <1>5, <2>1
  <2> QED
    BY <1>1, <2>1, <2>2
<1> QED
  BY <1>3, <1>4, <1>6

LEMMA UpdateNlinkIs ==
  ASSUME BaseInv, NEW t \in Threads, UpdateNlink(t)
  PROVE  LET c == [call[t] EXCEPT !.walk = call[t].walk + 1]
         IN /\ Busy(t) /\ call[t].at = "count" /\ call[t].walk \in Dirs
            /\ UNCHANGED <<listed, next_ino, dentry, number>>
            /\ c \in Calls /\ call' = [call EXCEPT ![t] = c]
            /\ DOMAIN file' = DOMAIN file
            /\ \A e \in DOMAIN file :
                 file'[e] = IF e \in LinksOf(call[t].ino) /\ file[e].dir = call[t].walk
                            THEN [file[e] EXCEPT !.nlink = call[t].nlink] ELSE file[e]
<1>1. /\ Busy(t) /\ call[t].at = "count" /\ call[t].walk <= LastDir
      /\ UNCHANGED <<listed, next_ino, dentry, number>>
  BY DEF UpdateNlink
<1>2. call[t] \in Calls /\ call \in [Threads -> Calls \cup {Idle}]
  BY <1>1, CallIs
<1>3. call[t].walk \in Dirs /\ call[t].walk + 1 \in 0 .. LastDir + 1
  BY <1>1, <1>2, NumbersAssumption DEF Calls, Dirs
<1>4. [call[t] EXCEPT !.walk = call[t].walk + 1] \in Calls
  BY <1>2, <1>3 DEF Calls
<1>5. call' = [call EXCEPT ![t] = [call[t] EXCEPT !.walk = call[t].walk + 1]]
  BY <1>2 DEF UpdateNlink
<1>6. /\ DOMAIN file' = DOMAIN file
      /\ \A e \in DOMAIN file :
           file'[e] = IF e \in LinksOf(call[t].ino) /\ file[e].dir = call[t].walk
                      THEN [file[e] EXCEPT !.nlink = call[t].nlink] ELSE file[e]
  BY DEF UpdateNlink
<1> QED
  BY <1>1, <1>3, <1>4, <1>5, <1>6

LEMMA LinkedIs ==
  ASSUME NEW t \in Threads, Linked(t)
  PROVE  /\ Busy(t) /\ call[t].do = "link" /\ call[t].at = "count" /\ call[t].walk > LastDir
         /\ Instantiate(t) /\ Return(t)
         /\ UNCHANGED <<file, listed, next_ino, number>>
BY DEF Linked, Doing

LEMMA FreeEntryIs ==
  ASSUME BaseInv, NEW t \in Threads, FreeEntry(t)
  PROVE  LET c == [call[t] EXCEPT !.at = "remove", !.walk = 0]
         IN /\ Busy(t) /\ call[t].do = "unlink" /\ call[t].at = "count" /\ call[t].walk > LastDir
            /\ UNCHANGED <<listed, next_ino, number>>
            /\ DOMAIN file' = DOMAIN file \ {call[t].entry}
            /\ \A e \in DOMAIN file' : file'[e] = file[e]
            /\ \/ Return(t) /\ Drop(t) /\ call[t].nlink # 0
               \/ /\ call[t].nlink = 0 /\ UNCHANGED dentry
                  /\ c \in Calls /\ call' = [call EXCEPT ![t] = c]
<1>1. /\ Busy(t) /\ call[t].do = "unlink" /\ call[t].at = "count" /\ call[t].walk > LastDir
      /\ UNCHANGED <<listed, next_ino, number>>
  BY DEF FreeEntry, Doing
<1>2. call[t] \in Calls /\ call \in [Threads -> Calls \cup {Idle}]
  BY <1>1, CallIs
<1>3. [call[t] EXCEPT !.at = "remove", !.walk = 0] \in Calls
  <2>1. 0 \in 0 .. LastDir + 1
    BY NumbersAssumption
  <2> QED
    BY <1>2, <2>1 DEF Calls, Places
<1>4. /\ DOMAIN file' = DOMAIN file \ {call[t].entry}
      /\ \A e \in DOMAIN file' : file'[e] = file[e]
  BY WithoutIs DEF FreeEntry
<1>5. \/ Return(t) /\ Drop(t) /\ call[t].nlink # 0
      \/ /\ call[t].nlink = 0 /\ UNCHANGED dentry
         /\ call' = [call EXCEPT ![t].at = "remove", ![t].walk = 0]
  BY DEF FreeEntry
<1>6. CASE call' = [call EXCEPT ![t].at = "remove", ![t].walk = 0]
  <2>1. call' = [call EXCEPT ![t] = [call[t] EXCEPT !.at = "remove", !.walk = 0]]
    BY <1>2, <1>6
  <2> QED
    BY <1>1, <1>3, <1>4, <1>5, <2>1
<1> QED
  BY <1>1, <1>4, <1>5, <1>6

LEMMA RemoveAllIs ==
  ASSUME BaseInv, NEW t \in Threads, RemoveAll(t)
  PROVE  LET c == [call[t] EXCEPT !.walk = call[t].walk + 1]
             gone == {e \in LinksOf(call[t].ino) : file[e].dir = call[t].walk}
         IN /\ Busy(t) /\ call[t].do = "unlink" /\ call[t].at = "remove"
            /\ UNCHANGED <<next_ino, number>>
            /\ \/ Return(t) /\ Drop(t) /\ UNCHANGED <<file, listed>>
               \/ /\ c \in Calls /\ call' = [call EXCEPT ![t] = c]
                  /\ file' = Without(gone) /\ listed' = listed \ gone
                  /\ UNCHANGED dentry
<1>1. /\ Busy(t) /\ call[t].do = "unlink" /\ call[t].at = "remove"
      /\ UNCHANGED <<next_ino, number>>
  BY DEF RemoveAll, Doing
<1>2. call[t] \in Calls /\ call \in [Threads -> Calls \cup {Idle}]
  BY <1>1, CallIs
<1>3. CASE call[t].walk > LastDir
  BY <1>1, <1>3 DEF RemoveAll
<1>4. CASE ~(call[t].walk > LastDir)
  <2>1. call[t].walk + 1 \in 0 .. LastDir + 1
    BY <1>2, <1>4, NumbersAssumption DEF Calls
  <2>2. [call[t] EXCEPT !.walk = call[t].walk + 1] \in Calls
    BY <1>2, <2>1 DEF Calls
  <2>3. call' = [call EXCEPT ![t] = [call[t] EXCEPT !.walk = call[t].walk + 1]]
    BY <1>2, <1>4 DEF RemoveAll
  <2>4. LET gone == {e \in LinksOf(call[t].ino) : file[e].dir = call[t].walk}
        IN file' = Without(gone) /\ listed' = listed \ gone /\ UNCHANGED dentry
    BY <1>4 DEF RemoveAll
  <2> QED
    BY <1>1, <2>2, <2>3, <2>4
<1> QED
  BY <1>3, <1>4

-----------------------------------------------------------------------------
(* Every step keeps the types, and the one place of each entry. *)

\* What a step leaves of the entries and of the other threads
LEMMA AddTyped ==
  ASSUME BaseInv, NEW e \in NewEntries, listed' = listed \cup {e},
         DOMAIN file' = DOMAIN file \cup {e},
         \A k \in DOMAIN file' : file'[k] \in Entry
  PROVE  /\ DOMAIN file' \subseteq Entries /\ listed' \subseteq Entries
         /\ DOMAIN file' \ listed' = DOMAIN file \ listed /\ listed' \subseteq DOMAIN file'
<1>1. e \in Entries /\ e \notin DOMAIN file
  BY DEF NewEntries
<1>2. listed \subseteq DOMAIN file /\ listed \subseteq Entries /\ DOMAIN file \subseteq Entries
  BY LinksTyped DEF BaseInv, TypeOK
<1> QED
  BY <1>1, <1>2

\* The rest of TypeOK, put together
LEMMA TypesAgain ==
  ASSUME DOMAIN file' \subseteq Entries, listed' \subseteq Entries,
         \A e \in DOMAIN file' : file'[e] \in Entry,
         next_ino' \in Nat,
         DOMAIN dentry' \subseteq Dirs \X Names,
         \A k \in DOMAIN dentry' : dentry'[k] \in DOMAIN number',
         DOMAIN number' \subseteq Objects,
         \A o \in DOMAIN number' : number'[o] \in Nat,
         call' \in [Threads -> Calls \cup {Idle}]
  PROVE  TypeOK'
BY DEF TypeOK, Entry

LEMMA FilesTyped ==
  ASSUME BaseInv
  PROVE  /\ DOMAIN file \subseteq Entries /\ listed \subseteq DOMAIN file
         /\ \A e \in DOMAIN file : file[e] \in Entry
BY DEF BaseInv, TypeOK, EntriesOnce, Entry

LEMMA DropTyped ==
  ASSUME BaseInv, NEW t \in Threads, Busy(t), Drop(t), UNCHANGED number
  PROVE  /\ DOMAIN dentry' \subseteq Dirs \X Names
         /\ \A k \in DOMAIN dentry' : dentry'[k] \in DOMAIN number'
         /\ DOMAIN number' \subseteq Objects
         /\ \A o \in DOMAIN number' : number'[o] \in Nat
BY DropIs, TablesTyped

LEMMA InstantiateTyped ==
  ASSUME BaseInv, NEW t \in Threads, Busy(t), Instantiate(t),
         DOMAIN number \subseteq DOMAIN number', call[t].inode \in DOMAIN number'
  PROVE  /\ DOMAIN dentry' \subseteq Dirs \X Names
         /\ \A k \in DOMAIN dentry' : dentry'[k] \in DOMAIN number'
<1> DEFINE p == <<call[t].dir, call[t].name>>
<1>1. p \in Dirs \X Names
  BY CallIs
<1>2. /\ DOMAIN dentry' = DOMAIN dentry \cup {p} /\ dentry'[p] = call[t].inode
      /\ \A k \in DOMAIN dentry : k # p => dentry'[k] = dentry[k]
  BY InstantiateIs
<1> HIDE DEF p
<1> QED
  BY <1>1, <1>2, TablesTyped

LEMMA CreateFileKeepsBase ==
  ASSUME BaseInv, NEW t \in Threads, CreateFile(t)
  PROVE  BaseInv'
<1> DEFINE c == [call[t] EXCEPT !.at = "listed"]
<1>1. /\ Busy(t) /\ call[t].do = "create" /\ call[t].at = "stored" /\ UNCHANGED next_ino
  BY CreateFileIs
<1>2. c.at = "listed"
  BY <1>1, CallIs DEF Calls
<1>3. ~Freeing(t)
  BY <1>1 DEF Freeing, Doing
<1>4. CASE Return(t) /\ UNCHANGED <<file, listed, number, dentry>>
  <2>1. Idle \in Calls \cup {Idle} /\ call' = [call EXCEPT ![t] = Idle]
    BY <1>4 DEF Return
  <2> QED
    BY <1>1, <1>3, <1>4, <2>1, TablesTyped, CallKeepsBase
<1>5. CASE ~ (Return(t) /\ UNCHANGED <<file, listed, number, dentry>>)
  <2>1. PICK e \in NewEntries :
          /\ file' = Add(e, call[t].dir, call[t].name, call[t].ino, 1)
          /\ listed' = listed \cup {e}
          /\ \/ /\ Return(t) /\ Instantiate(t)
                /\ DOMAIN number' = DOMAIN number \cup {call[t].inode}
                /\ number'[call[t].inode] = call[t].ino
                /\ \A o \in DOMAIN number : o # call[t].inode => number'[o] = number[o]
             \/ /\ c \in Calls /\ call' = [call EXCEPT ![t] = c]
                /\ UNCHANGED <<number, dentry>>
    BY <1>5, CreateFileIs
  <2>2. /\ call[t].dir \in Dirs /\ call[t].name \in Names /\ call[t].ino \in Nat
        /\ call[t].inode \in Objects
    BY <1>1, CallIs
  <2>3. /\ DOMAIN file' = DOMAIN file \cup {e}
        /\ file'[e] = [dir |-> call[t].dir, name |-> call[t].name,
                       ino |-> call[t].ino, nlink |-> 1]
        /\ \A k \in DOMAIN file : k # e => file'[k] = file[k]
    BY <2>1 DEF Add
  <2>4. file'[e] \in Entry
    BY <2>2, <2>3 DEF Entry
  <2>5. \A k \in DOMAIN file' : file'[k] \in Entry
    BY <2>3, <2>4, FilesTyped
  <2>6. /\ DOMAIN file' \subseteq Entries /\ listed' \subseteq Entries
        /\ DOMAIN file' \ listed' = DOMAIN file \ listed /\ listed' \subseteq DOMAIN file'
    BY <2>1, <2>3, <2>5, AddTyped
  <2>7. /\ DOMAIN number' \subseteq Objects /\ next_ino' \in Nat
        /\ \A o \in DOMAIN number' : number'[o] \in Nat
    BY <1>1, <2>1, <2>2, TablesTyped
  <2>8. /\ DOMAIN dentry' \subseteq Dirs \X Names
        /\ \A k \in DOMAIN dentry' : dentry'[k] \in DOMAIN number'
    BY <1>1, <2>1, InstantiateTyped, TablesTyped
  <2>9. PICK b \in Calls \cup {Idle} : call' = [call EXCEPT ![t] = b] /\ (b = Idle \/ b = c)
    BY <2>1 DEF Return
  <2>10. /\ call' \in [Threads -> Calls \cup {Idle}] /\ call'[t] = b
         /\ \A u \in Threads : u # t => call'[u] = call[u]
    BY <2>9, CallTyped DEF BaseInv
  <2>11. ~Freeing(t)'
    BY <1>2, <2>9, <2>10 DEF Freeing, Doing, Busy
  <2>12. TypeOK'
    BY <2>5, <2>6, <2>7, <2>8, <2>10, TypesAgain
  <2>13. EntriesOnce'
    BY <1>3, <2>6, <2>10, <2>11, OnceKept
  <2> QED
    BY <2>12, <2>13 DEF BaseInv
<1> QED
  BY <1>4, <1>5

LEMMA RemoveFileKeepsBase ==
  ASSUME BaseInv, NEW t \in Threads, RemoveFile(t)
  PROVE  BaseInv'
<1> DEFINE gone == At(call[t].dir, call[t].name)
<1>1. /\ Busy(t) /\ call[t].do = "create" /\ Return(t)
      /\ UNCHANGED <<next_ino, dentry, number>>
      /\ gone \subseteq listed /\ file' = Without(gone) /\ listed' = listed \ gone
  BY RemoveFileIs
<1> HIDE DEF gone
<1>2. DOMAIN file' = DOMAIN file \ gone /\ \A k \in DOMAIN file \ gone : file'[k] = file[k]
  BY <1>1, WithoutIs
<1>3. /\ DOMAIN file' \subseteq Entries /\ listed' \subseteq Entries
      /\ \A e \in DOMAIN file' : file'[e] \in Entry
  BY <1>1, <1>2, FilesTyped
<1>4. DOMAIN file' \ listed' = DOMAIN file \ listed /\ listed' \subseteq DOMAIN file'
  BY <1>1, <1>2, FilesTyped
<1>5. /\ call' \in [Threads -> Calls \cup {Idle}] /\ ~Busy(t)'
      /\ \A u \in Threads : u # t => call'[u] = call[u]
  BY <1>1, ReturnIs
<1>6. ~Freeing(t) /\ ~Freeing(t)'
  BY <1>1, <1>5 DEF Freeing, Doing
<1>7. TypeOK'
  BY <1>1, <1>3, <1>5, TablesTyped, TypesAgain
<1>8. EntriesOnce'
  BY <1>4, <1>5, <1>6, OnceKept
<1> QED
  BY <1>7, <1>8 DEF BaseInv

LEMMA AddLinkKeepsBase ==
  ASSUME BaseInv, NEW t \in Threads, AddLink(t)
  PROVE  BaseInv'
<1> DEFINE c == [call[t] EXCEPT !.at = "added"]
<1>1. /\ Busy(t) /\ call[t].do = "link" /\ call[t].at = "found"
      /\ UNCHANGED <<next_ino, dentry, number>>
  BY AddLinkIs
<1>2. ~Freeing(t)
  BY <1>1 DEF Freeing, Doing
<1>3. CASE Return(t) /\ UNCHANGED <<file, listed>>
  <2>1. Idle \in Calls \cup {Idle} /\ call' = [call EXCEPT ![t] = Idle]
    BY <1>3 DEF Return
  <2> QED
    BY <1>1, <1>2, <1>3, <2>1, TablesTyped, CallKeepsBase
<1>4. CASE /\ c \in Calls /\ call' = [call EXCEPT ![t] = c]
           /\ \E e \in NewEntries, n \in CountsAt(call[t].main) :
                /\ listed' = listed \cup {e}
                /\ DOMAIN file' = DOMAIN file \cup {e}
                /\ file'[e] = [dir |-> call[t].dir, name |-> call[t].name,
                               ino |-> call[t].ino, nlink |-> n + 1]
                /\ \A k \in DOMAIN file : k # e =>
                     file'[k] = IF k = call[t].main THEN [file[k] EXCEPT !.nlink = n + 1]
                                                    ELSE file[k]
  <2>1. PICK e \in NewEntries, n \in CountsAt(call[t].main) :
                /\ listed' = listed \cup {e}
                /\ DOMAIN file' = DOMAIN file \cup {e}
                /\ file'[e] = [dir |-> call[t].dir, name |-> call[t].name,
                               ino |-> call[t].ino, nlink |-> n + 1]
                /\ \A k \in DOMAIN file : k # e =>
                     file'[k] = IF k = call[t].main THEN [file[k] EXCEPT !.nlink = n + 1]
                                                    ELSE file[k]
    BY <1>4
  <2>2. /\ call[t].dir \in Dirs /\ call[t].name \in Names /\ call[t].ino \in Nat
        /\ n + 1 \in Int
    BY <1>1, CallIs, CountsAtTyped
  <2>3. file'[e] \in Entry
    BY <2>1, <2>2 DEF Entry
  <2>4. ASSUME NEW k \in DOMAIN file, k # e
        PROVE  file'[k] \in Entry
    <3>1. file[k] \in Entry
      BY FilesTyped
    <3>2. [file[k] EXCEPT !.nlink = n + 1] \in Entry
      BY <2>2, <3>1 DEF Entry
    <3>3. file'[k] = file[k] \/ file'[k] = [file[k] EXCEPT !.nlink = n + 1]
      BY <2>1, <2>4
    <3> QED
      BY <3>1, <3>2, <3>3
  <2>5. \A k \in DOMAIN file' : file'[k] \in Entry
    BY <2>1, <2>3, <2>4
  <2>6. /\ DOMAIN file' \subseteq Entries /\ listed' \subseteq Entries
        /\ DOMAIN file' \ listed' = DOMAIN file \ listed /\ listed' \subseteq DOMAIN file'
    BY <2>1, <2>5, AddTyped
  <2>7. /\ call' \in [Threads -> Calls \cup {Idle}] /\ call'[t] = c
        /\ \A u \in Threads : u # t => call'[u] = call[u]
    BY <1>4, CallTyped DEF BaseInv
  <2>8. c.at = "added"
    BY <1>1, CallIs DEF Calls
  <2>9. ~Freeing(t)'
    BY <2>7, <2>8 DEF Freeing, Doing
  <2>10. TypeOK'
    BY <1>1, <2>5, <2>6, <2>7, TablesTyped, TypesAgain
  <2>11. EntriesOnce'
    BY <1>2, <2>6, <2>7, <2>9, OnceKept
  <2> QED
    BY <2>10, <2>11 DEF BaseInv
<1> QED
  BY <1>3, <1>4, AddLinkIs

LEMMA RemoveAllKeepsBase ==
  ASSUME BaseInv, NEW t \in Threads, RemoveAll(t)
  PROVE  BaseInv'
<1> DEFINE c == [call[t] EXCEPT !.walk = call[t].walk + 1]
           gone == {e \in LinksOf(call[t].ino) : file[e].dir = call[t].walk}
<1>1. /\ Busy(t) /\ call[t].do = "unlink" /\ call[t].at = "remove"
      /\ UNCHANGED <<next_ino, number>>
  BY RemoveAllIs
<1>2. ~Freeing(t)
  BY <1>1 DEF Freeing, Doing
<1>3. CASE Return(t) /\ Drop(t) /\ UNCHANGED <<file, listed>>
  <2>1. Idle \in Calls \cup {Idle} /\ call' = [call EXCEPT ![t] = Idle]
    BY <1>3 DEF Return
  <2>2. /\ DOMAIN dentry' \subseteq Dirs \X Names
        /\ \A k \in DOMAIN dentry' : dentry'[k] \in DOMAIN number'
        /\ DOMAIN number' \subseteq Objects
        /\ \A o \in DOMAIN number' : number'[o] \in Nat
    BY <1>1, <1>3, DropTyped
  <2> QED
    BY <1>1, <1>2, <1>3, <2>1, <2>2, TablesTyped, CallKeepsBase
<1>4. CASE /\ c \in Calls /\ call' = [call EXCEPT ![t] = c]
           /\ file' = Without(gone) /\ listed' = listed \ gone
           /\ UNCHANGED dentry
  <2>1. gone \subseteq listed
    BY DEF LinksOf
  <2>2. DOMAIN file' = DOMAIN file \ gone /\ \A k \in DOMAIN file \ gone : file'[k] = file[k]
    BY <1>4, WithoutIs
  <2> HIDE DEF gone
  <2>3. /\ DOMAIN file' \subseteq Entries /\ listed' \subseteq Entries
        /\ \A e \in DOMAIN file' : file'[e] \in Entry
    BY <1>4, <2>1, <2>2, FilesTyped
  <2>4. DOMAIN file' \ listed' = DOMAIN file \ listed /\ listed' \subseteq DOMAIN file'
    BY <1>4, <2>1, <2>2, FilesTyped
  <2>5. /\ call' \in [Threads -> Calls \cup {Idle}] /\ call'[t] = c
        /\ \A u \in Threads : u # t => call'[u] = call[u]
    BY <1>4, CallTyped DEF BaseInv
  <2>6. c.at = "remove"
    BY <1>1, CallIs DEF Calls
  <2>7. ~Freeing(t)'
    BY <2>5, <2>6 DEF Freeing, Doing
  <2>8. TypeOK'
    BY <1>1, <1>4, <2>3, <2>5, TablesTyped, TypesAgain
  <2>9. EntriesOnce'
    BY <1>2, <2>4, <2>5, <2>7, OnceKept
  <2> QED
    BY <2>8, <2>9 DEF BaseInv
<1> QED
  BY <1>3, <1>4, RemoveAllIs

\* A thread that frees an entry goes on with it.
LEMMA UpdateNlinkKeepsBase ==
  ASSUME BaseInv, NEW t \in Threads, UpdateNlink(t)
  PROVE  BaseInv'
<1> DEFINE c == [call[t] EXCEPT !.walk = call[t].walk + 1]
<1>1. /\ Busy(t) /\ UNCHANGED <<listed, next_ino, dentry, number>>
      /\ c \in Calls /\ call' = [call EXCEPT ![t] = c]
      /\ DOMAIN file' = DOMAIN file
      /\ \A e \in DOMAIN file :
           file'[e] = IF e \in LinksOf(call[t].ino) /\ file[e].dir = call[t].walk
                      THEN [file[e] EXCEPT !.nlink = call[t].nlink] ELSE file[e]
  BY UpdateNlinkIs
<1>2. /\ call' \in [Threads -> Calls \cup {Idle}] /\ call'[t] = c
      /\ \A u \in Threads : u # t => call'[u] = call[u]
  BY <1>1, CallTyped DEF BaseInv
<1>3. c.do = call[t].do /\ c.at = call[t].at /\ c.entry = call[t].entry /\ c # Idle
  BY <1>1, CallIs, IdleAssumption DEF Calls
<1>4. \A u \in Threads : Freeing(u)' <=> Freeing(u)
  BY <1>1, <1>2, <1>3 DEF Freeing, Doing, Busy
<1>5. \A u \in Threads : call'[u].entry = call[u].entry
  BY <1>2, <1>3
<1>6. {call'[u].entry : u \in {w \in Threads : Freeing(w)'}}
        = {call[u].entry : u \in {w \in Threads : Freeing(w)}}
  BY <1>4, <1>5
<1>7. EntriesOnce'
  BY <1>1, <1>4, <1>5, <1>6 DEF BaseInv, EntriesOnce
<1>8. ASSUME NEW e \in DOMAIN file
      PROVE  file'[e] \in Entry
  <2>1. file[e] \in Entry /\ call[t].nlink \in Int
    BY <1>1, CallIs, FilesTyped
  <2>2. [file[e] EXCEPT !.nlink = call[t].nlink] \in Entry
    BY <2>1 DEF Entry
  <2>3. file'[e] = file[e] \/ file'[e] = [file[e] EXCEPT !.nlink = call[t].nlink]
    BY <1>1, <1>8
  <2> QED
    BY <2>1, <2>2, <2>3
<1>9. TypeOK'
  BY <1>1, <1>2, <1>8, FilesTyped, LinksTyped, TablesTyped, TypesAgain
<1> QED
  BY <1>7, <1>9 DEF BaseInv

\* The entry that leaves its list is the one that the thread will free.
LEMMA RemoveNameKeepsBase ==
  ASSUME BaseInv, NEW t \in Threads, RemoveName(t)
  PROVE  BaseInv'
<1>1. /\ Busy(t) /\ call[t].do = "unlink" /\ call[t].at = "found"
      /\ UNCHANGED <<file, next_ino, dentry, number>>
  BY RemoveNameIs
<1>2. ~Freeing(t)
  BY <1>1 DEF Freeing, Doing
<1>3. CASE Return(t) /\ UNCHANGED listed
  <2>1. Idle \in Calls \cup {Idle} /\ call' = [call EXCEPT ![t] = Idle]
    BY <1>3 DEF Return
  <2> QED
    BY <1>1, <1>2, <1>3, <2>1, TablesTyped, CallKeepsBase
<1>4. CASE \E e \in listed, n \in CountsAt(call[t].main) :
             LET c == [call[t] EXCEPT !.at = "count", !.entry = e, !.nlink = n - 1]
             IN /\ file[e].ino = call[t].ino
                /\ listed' = listed \ {e}
                /\ c \in Calls /\ call' = [call EXCEPT ![t] = c]
  <2>1. PICK e \in listed, n \in CountsAt(call[t].main) :
             LET c == [call[t] EXCEPT !.at = "count", !.entry = e, !.nlink = n - 1]
             IN /\ file[e].ino = call[t].ino
                /\ listed' = listed \ {e}
                /\ c \in Calls /\ call' = [call EXCEPT ![t] = c]
    BY <1>4
  <2> DEFINE c == [call[t] EXCEPT !.at = "count", !.entry = e, !.nlink = n - 1]
  <2>2. /\ call' \in [Threads -> Calls \cup {Idle}] /\ call'[t] = c
        /\ \A u \in Threads : u # t => call'[u] = call[u]
    BY <2>1, CallTyped DEF BaseInv
  <2>3. c.do = "unlink" /\ c.at = "count" /\ c.entry = e /\ c # Idle
    BY <1>1, <2>1, CallIs, IdleAssumption DEF Calls
  <2> HIDE DEF c
  <2>4. Freeing(t)' /\ call'[t].entry = e
    BY <2>2, <2>3 DEF Freeing, Doing, Busy
  <2>5. \A u \in Threads : u # t => (Freeing(u)' <=> Freeing(u)) /\ call'[u] = call[u]
    BY <2>2 DEF Freeing, Doing, Busy
  <2>6. {call'[u].entry : u \in {w \in Threads : Freeing(w)'}} = Held \cup {e}
    BY <1>2, <2>4, <2>5 DEF Held
  <2>7. DOMAIN file = listed \cup Held
    BY DEF BaseInv, EntriesOnce, Held
  <2>8. DOMAIN file' = listed' \cup {call'[u].entry : u \in {w \in Threads : Freeing(w)'}}
    BY <1>1, <2>1, <2>6, <2>7
  <2>9. \A u \in Threads : Freeing(u) => call[u].entry \notin listed
    BY DEF BaseInv, EntriesOnce
  <2>10. \A u, w \in Threads : Freeing(u) /\ Freeing(w) /\ call[w].entry = call[u].entry => w = u
    BY DEF BaseInv, EntriesOnce
  <2>11. \A u \in Threads : Freeing(u)' => call'[u].entry \notin listed'
    BY <2>1, <2>4, <2>5, <2>9
  <2>12. \A u, w \in Threads : Freeing(u)' /\ Freeing(w)' /\ call'[w].entry = call'[u].entry => w = u
    BY <2>1, <2>4, <2>5, <2>9, <2>10
  <2>13. EntriesOnce'
    BY <2>8, <2>11, <2>12 DEF EntriesOnce
  <2>14. DOMAIN file' \subseteq Entries /\ listed' \subseteq Entries
    BY <1>1, <2>1, FilesTyped
  <2>15. TypeOK'
    BY <1>1, <2>2, <2>14, FilesTyped, TablesTyped, TypesAgain
  <2> QED
    BY <2>13, <2>15 DEF BaseInv
<1> QED
  BY <1>3, <1>4, RemoveNameIs

\* kfree: the entry is nobody else's.
LEMMA FreeEntryKeepsBase ==
  ASSUME BaseInv, NEW t \in Threads, FreeEntry(t)
  PROVE  BaseInv'
<1> DEFINE c == [call[t] EXCEPT !.at = "remove", !.walk = 0]
           e == call[t].entry
<1>1. /\ Busy(t) /\ call[t].do = "unlink" /\ call[t].at = "count"
      /\ UNCHANGED <<listed, next_ino, number>>
      /\ DOMAIN file' = DOMAIN file \ {e} /\ \A k \in DOMAIN file' : file'[k] = file[k]
      /\ \/ Return(t) /\ Drop(t)
         \/ UNCHANGED dentry /\ c \in Calls /\ call' = [call EXCEPT ![t] = c]
  BY FreeEntryIs
<1>2. PICK b \in Calls \cup {Idle} : call' = [call EXCEPT ![t] = b] /\ (b = Idle \/ b = c)
  BY <1>1 DEF Return
<1>3. /\ call' \in [Threads -> Calls \cup {Idle}] /\ call'[t] = b
      /\ \A u \in Threads : u # t => call'[u] = call[u]
  BY <1>2, CallTyped DEF BaseInv
<1>4. c.at = "remove"
  BY <1>1, CallIs DEF Calls
<1>5. Freeing(t)
  BY <1>1 DEF Freeing, Doing
<1>6. ~Freeing(t)'
  BY <1>2, <1>3, <1>4 DEF Freeing, Doing, Busy
<1>7. \A u \in Threads : u # t => (Freeing(u)' <=> Freeing(u)) /\ call'[u] = call[u]
  BY <1>3 DEF Freeing, Doing, Busy
<1> HIDE DEF c
<1>8. \A u \in Threads : Freeing(u) => call[u].entry \notin listed
  BY DEF BaseInv, EntriesOnce
<1>9. \A u, w \in Threads : Freeing(u) /\ Freeing(w) /\ call[w].entry = call[u].entry => w = u
  BY DEF BaseInv, EntriesOnce
<1>10. DOMAIN file = listed \cup Held
  BY DEF BaseInv, EntriesOnce, Held
<1>11. {call'[u].entry : u \in {w \in Threads : Freeing(w)'}} = Held \ {e}
  BY <1>5, <1>6, <1>7, <1>9 DEF Held
<1>12. e \notin listed
  BY <1>5, <1>8
<1>13. DOMAIN file' = listed' \cup {call'[u].entry : u \in {w \in Threads : Freeing(w)'}}
  BY <1>1, <1>10, <1>11, <1>12
<1>14. \A u \in Threads : Freeing(u)' => call'[u].entry \notin listed'
  BY <1>1, <1>6, <1>7, <1>8
<1>15. \A u, w \in Threads : Freeing(u)' /\ Freeing(w)' /\ call'[w].entry = call'[u].entry => w = u
  BY <1>6, <1>7, <1>9
<1>16. EntriesOnce'
  BY <1>13, <1>14, <1>15 DEF EntriesOnce
<1>17. /\ DOMAIN file' \subseteq Entries /\ listed' \subseteq Entries
       /\ \A k \in DOMAIN file' : file'[k] \in Entry
  BY <1>1, FilesTyped
<1>18. /\ DOMAIN dentry' \subseteq Dirs \X Names
       /\ \A k \in DOMAIN dentry' : dentry'[k] \in DOMAIN number'
       /\ DOMAIN number' \subseteq Objects
       /\ \A o \in DOMAIN number' : number'[o] \in Nat
  BY <1>1, TablesTyped, DropTyped
<1>19. next_ino' \in Nat
  BY <1>1, TablesTyped
<1>20. TypeOK'
  BY <1>3, <1>17, <1>18, <1>19, TypesAgain
<1> QED
  BY <1>16, <1>20 DEF BaseInv

\* The inode that vtfs_link was given has a number.
LinkKnown == \A t \in Threads : Busy(t) /\ call[t].do = "link" => call[t].inode \in DOMAIN number

\* The steps of a thread that touch no entry
LEMMA QuietKeepsBase ==
  ASSUME BaseInv, LinkKnown, NEW t \in Threads,
         LoadNumber(t) \/ StoreNumber(t) \/ FindMain(t) \/ ReadCount(t) \/ Linked(t)
  PROVE  BaseInv'
<1>1. CASE LoadNumber(t)
  <2> DEFINE c == [call[t] EXCEPT !.at = "loaded", !.ino = next_ino]
  <2>1. /\ Busy(t) /\ call[t].do = "create" /\ call[t].at = "start"
        /\ c \in Calls /\ call' = [call EXCEPT ![t] = c]
        /\ UNCHANGED <<file, listed, next_ino, dentry, number>>
    BY <1>1, LoadNumberIs
  <2>2. ~Freeing(t) /\ c.at # "count"
    BY <2>1, CallIs DEF Freeing, Doing, Calls
  <2> QED
    BY <2>1, <2>2, TablesTyped, CallKeepsBase
<1>2. CASE StoreNumber(t)
  <2> DEFINE c == [call[t] EXCEPT !.at = "stored"]
  <2>1. /\ Busy(t) /\ call[t].do = "create" /\ call[t].at = "loaded"
        /\ c \in Calls /\ call' = [call EXCEPT ![t] = c]
        /\ next_ino' = call[t].ino + 1
        /\ UNCHANGED <<file, listed, dentry, number>>
    BY <1>2, StoreNumberIs
  <2>2. ~Freeing(t) /\ c.at # "count"
    BY <2>1, CallIs DEF Freeing, Doing, Calls
  <2>3. next_ino' \in Nat
    BY <2>1, CallIs
  <2> QED
    BY <2>1, <2>2, <2>3, TablesTyped, CallKeepsBase
<1>3. CASE FindMain(t)
  <2> DEFINE c == [call[t] EXCEPT !.at = "found", !.main = First(call[t].ino)]
  <2>1. /\ Busy(t) /\ call[t].at = "start"
        /\ UNCHANGED <<file, listed, next_ino, dentry, number>>
        /\ \/ Return(t)
           \/ c \in Calls /\ call' = [call EXCEPT ![t] = c]
    BY <1>3, FindMainIs
  <2>2. ~Freeing(t) /\ c.at # "count"
    BY <2>1, CallIs DEF Freeing, Doing, Calls
  <2>3. CASE Return(t)
    <3>1. Idle \in Calls \cup {Idle} /\ call' = [call EXCEPT ![t] = Idle]
      BY <2>3 DEF Return
    <3> QED
      BY <2>1, <2>2, <3>1, TablesTyped, CallKeepsBase
  <2>4. CASE c \in Calls /\ call' = [call EXCEPT ![t] = c]
    BY <2>1, <2>2, <2>4, TablesTyped, CallKeepsBase
  <2> QED
    BY <2>1, <2>3, <2>4
<1>4. CASE ReadCount(t)
  <2>1. /\ Busy(t) /\ call[t].do = "link" /\ call[t].at = "added"
        /\ UNCHANGED <<file, listed, next_ino, dentry, number>>
        /\ \E n \in CountsAt(call[t].main) :
             LET c == [call[t] EXCEPT !.at = "count", !.nlink = n]
             IN c \in Calls /\ call' = [call EXCEPT ![t] = c]
    BY <1>4, ReadCountIs
  <2>2. PICK n \in CountsAt(call[t].main) :
             LET c == [call[t] EXCEPT !.at = "count", !.nlink = n]
             IN c \in Calls /\ call' = [call EXCEPT ![t] = c]
    BY <2>1
  <2> DEFINE c == [call[t] EXCEPT !.at = "count", !.nlink = n]
  <2>3. ~Freeing(t) /\ c.do # "unlink"
    BY <2>1, CallIs DEF Freeing, Doing, Calls
  <2> QED
    BY <2>1, <2>2, <2>3, TablesTyped, CallKeepsBase
<1>5. CASE Linked(t)
  <2>1. /\ Busy(t) /\ call[t].do = "link" /\ Instantiate(t) /\ Return(t)
        /\ UNCHANGED <<file, listed, next_ino, number>>
    BY <1>5, LinkedIs
  <2>2. ~Freeing(t) /\ call[t].inode \in DOMAIN number
    BY <2>1 DEF Freeing, Doing, LinkKnown
  <2>3. Idle \in Calls \cup {Idle} /\ call' = [call EXCEPT ![t] = Idle]
    BY <2>1 DEF Return
  <2>4. /\ DOMAIN dentry' \subseteq Dirs \X Names
        /\ \A k \in DOMAIN dentry' : dentry'[k] \in DOMAIN number'
    BY <2>1, <2>2, InstantiateTyped
  <2> QED
    BY <2>1, <2>2, <2>3, <2>4, TablesTyped, CallKeepsBase
<1> QED
  BY <1>1, <1>2, <1>3, <1>4, <1>5

\* A handler goes on with its own call, or returns.
Goes(t) ==
  /\ \A u \in Threads : u # t => call'[u] = call[u]
  /\ \/ call'[t] = Idle
     \/ /\ call'[t] \in Calls /\ call'[t] # Idle
        /\ call'[t].do = call[t].do /\ call'[t].dir = call[t].dir
        /\ call'[t].name = call[t].name /\ call'[t].inode = call[t].inode
        /\ call[t].do # "create" => call'[t].ino = call[t].ino

LEMMA ReturnGoes ==
  ASSUME BaseInv, NEW t \in Threads, Return(t)
  PROVE  Goes(t)
BY ReturnIs DEF Goes

LEMMA HandlerGoes ==
  ASSUME BaseInv, NEW t \in Threads, Handler(t)
  PROVE  Busy(t) /\ Goes(t)
<1> DEFINE Same(c) == /\ c.do = call[t].do /\ c.dir = call[t].dir /\ c.name = call[t].name
                      /\ c.inode = call[t].inode
                      /\ call[t].do # "create" => c.ino = call[t].ino
           One(c) == c \in Calls /\ call' = [call EXCEPT ![t] = c] /\ Same(c)
<1>1. Busy(t)
  BY DEF Handler, LoadNumber, StoreNumber, CreateFile, RemoveFile, FindMain, AddLink, ReadCount,
         RemoveName, UpdateNlink, Linked, FreeEntry, RemoveAll, Doing
<1> SUFFICES Goes(t)
  BY <1>1
<1>2. call[t] \in Calls
  BY <1>1, CallIs
<1>3. ASSUME NEW c \in Calls, One(c)
      PROVE  Goes(t)
  <2>1. call' = [call EXCEPT ![t] = c] /\ Same(c)
    BY <1>3
  <2>2. TypeOK
    BY DEF BaseInv
  <2>3. call'[t] = c /\ \A u \in Threads : u # t => call'[u] = call[u]
    BY <2>1, <2>2, CallTyped
  <2>4. c # Idle
    BY IdleAssumption
  <2> QED
    BY <2>1, <2>3, <2>4 DEF Goes
<1>4. CASE LoadNumber(t)
  <2>1. One([call[t] EXCEPT !.at = "loaded", !.ino = next_ino])
    BY <1>2, <1>4, LoadNumberIs DEF Calls
  <2> QED
    BY <1>3, <2>1
<1>5. CASE StoreNumber(t)
  <2>1. One([call[t] EXCEPT !.at = "stored"])
    BY <1>2, <1>5, StoreNumberIs DEF Calls
  <2> QED
    BY <1>3, <2>1
<1>6. CASE FindMain(t)
  <2> DEFINE c == [call[t] EXCEPT !.at = "found", !.main = First(call[t].ino)]
  <2>1. Return(t) \/ (c \in Calls /\ call' = [call EXCEPT ![t] = c])
    BY <1>6, FindMainIs
  <2>2. Same(c)
    BY <1>2 DEF Calls
  <2> HIDE DEF c, Same
  <2>3. Return(t) \/ One(c)
    BY <2>1, <2>2
  <2> QED
    BY <1>3, <2>3, ReturnGoes
<1>7. CASE AddLink(t)
  <2> DEFINE c == [call[t] EXCEPT !.at = "added"]
  <2>1. Return(t) \/ (c \in Calls /\ call' = [call EXCEPT ![t] = c])
    BY <1>7, AddLinkIs
  <2>2. Same(c)
    BY <1>2 DEF Calls
  <2> HIDE DEF c, Same
  <2>3. Return(t) \/ One(c)
    BY <2>1, <2>2
  <2> QED
    BY <1>3, <2>3, ReturnGoes
<1>8. CASE ReadCount(t)
  <2>1. PICK n \in CountsAt(call[t].main) :
             LET c == [call[t] EXCEPT !.at = "count", !.nlink = n]
             IN c \in Calls /\ call' = [call EXCEPT ![t] = c]
    BY <1>8, ReadCountIs
  <2>2. Same([call[t] EXCEPT !.at = "count", !.nlink = n])
    BY <1>2 DEF Calls
  <2> QED
    BY <1>3, <2>1, <2>2
<1>9. CASE RemoveName(t)
  <2>1. CASE Return(t)
    BY <2>1, ReturnGoes
  <2>2. CASE ~Return(t)
    <3>1. PICK e \in listed, n \in CountsAt(call[t].main) :
             LET c == [call[t] EXCEPT !.at = "count", !.entry = e, !.nlink = n - 1]
             IN /\ file[e].ino = call[t].ino
                /\ listed' = listed \ {e}
                /\ c \in Calls /\ call' = [call EXCEPT ![t] = c]
      BY <1>9, <2>2, RemoveNameIs
    <3>2. Same([call[t] EXCEPT !.at = "count", !.entry = e, !.nlink = n - 1])
      BY <1>2 DEF Calls
    <3> QED
      BY <1>3, <3>1, <3>2
  <2> QED
    BY <2>1, <2>2
<1>10. CASE UpdateNlink(t)
  <2>1. One([call[t] EXCEPT !.walk = call[t].walk + 1])
    BY <1>2, <1>10, UpdateNlinkIs DEF Calls
  <2> QED
    BY <1>3, <2>1
<1>11. CASE Linked(t)
  BY <1>11, LinkedIs, ReturnGoes
<1>12. CASE FreeEntry(t)
  <2> DEFINE c == [call[t] EXCEPT !.at = "remove", !.walk = 0]
  <2>1. Return(t) \/ (c \in Calls /\ call' = [call EXCEPT ![t] = c])
    BY <1>12, FreeEntryIs
  <2>2. Same(c)
    BY <1>2 DEF Calls
  <2> HIDE DEF c, Same
  <2>3. Return(t) \/ One(c)
    BY <2>1, <2>2
  <2> QED
    BY <1>3, <2>3, ReturnGoes
<1>13. CASE RemoveAll(t)
  <2> DEFINE c == [call[t] EXCEPT !.walk = call[t].walk + 1]
  <2>1. Return(t) \/ (c \in Calls /\ call' = [call EXCEPT ![t] = c])
    BY <1>13, RemoveAllIs
  <2>2. Same(c)
    BY <1>2 DEF Calls
  <2> HIDE DEF c, Same
  <2>3. Return(t) \/ One(c)
    BY <2>1, <2>2
  <2> QED
    BY <1>3, <2>3, ReturnGoes
<1>14. CASE CreateFile(t)
  <2> DEFINE c == [call[t] EXCEPT !.at = "listed"]
  <2>1. Return(t) \/ (c \in Calls /\ call' = [call EXCEPT ![t] = c])
    BY <1>14, CreateFileIs
  <2>2. Same(c)
    BY <1>2 DEF Calls
  <2> HIDE DEF c, Same
  <2>3. Return(t) \/ One(c)
    BY <2>1, <2>2
  <2> QED
    BY <1>3, <2>3, ReturnGoes
<1>15. CASE RemoveFile(t)
  BY <1>15, RemoveFileIs, ReturnGoes
<1> QED
  BY <1>4, <1>5, <1>6, <1>7, <1>8, <1>9, <1>10, <1>11, <1>12, <1>13, <1>14, <1>15 DEF Handler

LEMMA LookupKeepsBase ==
  ASSUME BaseInv, Lookup
  PROVE  BaseInv' /\ DOMAIN number \subseteq DOMAIN number' /\ UNCHANGED call
<1>1. PICK k \in DOMAIN dentry, o \in FreshObjects :
        /\ dentry' = [dentry EXCEPT ![k] = o]
        /\ number' = [p \in DOMAIN number \cup {o} |-> IF p = o THEN number[dentry[k]] ELSE number[p]]
        /\ UNCHANGED <<file, listed, next_ino, call>>
  BY DEF Lookup
<1>2. o \in Objects
  BY DEF FreshObjects
<1>3. /\ DOMAIN dentry' = DOMAIN dentry
      /\ \A j \in DOMAIN dentry : dentry'[j] = o \/ dentry'[j] = dentry[j]
  BY <1>1
<1>4. /\ DOMAIN number' = DOMAIN number \cup {o}
      /\ \A p \in DOMAIN number' : number'[p] \in Nat
  BY <1>1, TablesTyped
<1>5. TypeOK'
  BY <1>1, <1>2, <1>3, <1>4, TablesTyped DEF BaseInv, TypeOK
<1>6. EntriesOnce'
  BY <1>1 DEF BaseInv, EntriesOnce, Freeing, Doing, Busy
<1> QED
  BY <1>1, <1>4, <1>5, <1>6 DEF BaseInv

LEMMA RemountKeepsBase ==
  ASSUME BaseInv, Remount
  PROVE  /\ BaseInv' /\ UNCHANGED call /\ \A t \in Threads : ~Busy(t)
         /\ file' = <<>> /\ listed' = {} /\ next_ino' = FirstIno
         /\ dentry' = <<>> /\ number' = <<>>
<1>1. /\ \A t \in Threads : ~Busy(t)
      /\ file' = Without(listed) /\ listed' = {} /\ next_ino' = FirstIno
      /\ dentry' = <<>> /\ number' = <<>> /\ UNCHANGED call
  BY DEF Remount
<1>2. \A t \in Threads : ~Freeing(t)
  BY <1>1 DEF Freeing, Doing
<1>3. DOMAIN file = listed
  BY <1>2 DEF BaseInv, EntriesOnce
<1>4. DOMAIN file' = {}
  BY <1>1, <1>3, WithoutIs
<1>5. file' = <<>>
  BY <1>1, <1>3 DEF Without
<1>6. \A t \in Threads : ~Freeing(t)'
  BY <1>1 DEF Freeing, Doing, Busy
<1>7. EntriesOnce'
  BY <1>1, <1>4, <1>6 DEF EntriesOnce
<1>8. TypeOK'
  BY <1>1, <1>4, NumbersAssumption DEF BaseInv, TypeOK
<1> QED
  BY <1>1, <1>5, <1>7, <1>8 DEF BaseInv

LEMMA HandlerKeepsBase ==
  ASSUME BaseInv, LinkKnown, NEW t \in Threads, Handler(t)
  PROVE  BaseInv'
BY QuietKeepsBase, CreateFileKeepsBase, RemoveFileKeepsBase, AddLinkKeepsBase,
   RemoveNameKeepsBase, UpdateNlinkKeepsBase, FreeEntryKeepsBase, RemoveAllKeepsBase DEF Handler

\* No handler takes the number of an inode away.
LEMMA HandlerKeepsNumbers ==
  ASSUME BaseInv, NEW t \in Threads, Handler(t)
  PROVE  DOMAIN number \subseteq DOMAIN number'
<1>1. CASE CreateFile(t)
  BY <1>1, CreateFileIs
<1>2. CASE ~CreateFile(t)
  <2>1. UNCHANGED number
    BY <1>2 DEF Handler, LoadNumber, StoreNumber, RemoveFile, FindMain, AddLink, ReadCount,
                RemoveName, UpdateNlink, Linked, FreeEntry, RemoveAll
  <2> QED
    BY <2>1
<1> QED
  BY <1>1, <1>2

LEMMA StepKeepsBase ==
  ASSUME BaseInv, LinkKnown, Next
  PROVE  BaseInv' /\ LinkKnown'
<1>1. CASE Lookup
  BY <1>1, LookupKeepsBase DEF LinkKnown, Busy
<1>2. CASE Remount
  BY <1>2, RemountKeepsBase DEF LinkKnown, Busy
<1>3. ASSUME NEW t \in Threads, Start(t)
      PROVE  BaseInv' /\ LinkKnown'
  <2>1. PICK do \in {"create", "link", "unlink"}, d \in Dirs, n \in Names, o \in Objects :
          Starts(t, do, d, n, o)
    BY <1>3, StartIs
  <2>2. UNCHANGED number
    BY <1>3, StartIs
  <2>3. call'[t] = NewCall(do, d, n, o) /\ \A u \in Threads : u # t => call'[u] = call[u]
    BY <2>1 DEF Starts, BaseInv, TypeOK
  <2>4. NewCall(do, d, n, o).do = do /\ NewCall(do, d, n, o).inode = o
    BY DEF NewCall
  <2>5. do = "link" => o \in DOMAIN number
    BY <2>1, TablesTyped DEF Starts
  <2>6. LinkKnown'
    BY <2>2, <2>3, <2>4, <2>5 DEF LinkKnown, Busy
  <2> QED
    BY <1>3, <2>6, StartKeepsBase
<1>4. ASSUME NEW t \in Threads, Handler(t)
      PROVE  BaseInv' /\ LinkKnown'
  <2>1. Busy(t) /\ Goes(t)
    BY <1>4, HandlerGoes
  <2>2. DOMAIN number \subseteq DOMAIN number'
    BY <1>4, HandlerKeepsNumbers
  <2>3. LinkKnown'
    BY <2>1, <2>2 DEF LinkKnown, Busy, Goes
  <2> QED
    BY <1>4, <2>3, HandlerKeepsBase
<1> QED
  BY <1>1, <1>2, <1>3, <1>4 DEF Next

LEMMA InitBase ==
  ASSUME Init
  PROVE  BaseInv /\ LinkKnown
<1>1. /\ file = <<>> /\ listed = {} /\ next_ino = FirstIno /\ dentry = <<>> /\ number = <<>>
      /\ call = [t \in Threads |-> Idle]
  BY DEF Init
<1>2. \A t \in Threads : ~Busy(t) /\ ~Freeing(t)
  BY <1>1 DEF Busy, Freeing, Doing
<1>3. TypeOK
  BY <1>1, NumbersAssumption DEF TypeOK
<1>4. DOMAIN file = {}
  BY <1>1
<1>5. EntriesOnce
  BY <1>1, <1>2, <1>4 DEF EntriesOnce
<1> QED
  BY <1>2, <1>3, <1>5 DEF BaseInv, LinkKnown

LEMMA StutterKeepsBase ==
  ASSUME BaseInv, LinkKnown, UNCHANGED vars
  PROVE  BaseInv' /\ LinkKnown'
<1>1. TypeOK'
  BY DEF BaseInv, TypeOK, vars
<1>2. EntriesOnce'
  BY DEF BaseInv, EntriesOnce, Freeing, Doing, Busy, vars
<1>3. LinkKnown'
  BY DEF LinkKnown, Busy, vars
<1> QED
  BY <1>1, <1>2, <1>3 DEF BaseInv

\* The types hold, however the handlers of vtfs.c overlap.
THEOREM TypeCorrect == Spec => []TypeOK
<1>1. Init => BaseInv /\ LinkKnown
  BY InitBase
<1>2. BaseInv /\ LinkKnown /\ [Next]_vars => (BaseInv /\ LinkKnown)'
  BY StepKeepsBase, StutterKeepsBase
<1>3. BaseInv => TypeOK
  BY DEF BaseInv
<1> QED
  BY <1>1, <1>2, <1>3, PTL DEF Spec

\* However vtfs_create, vtfs_link, vtfs_unlink and vtfs_remove_all_by_ino overlap, each
\* allocated entry is in its list or about to be freed by one thread: no list holds a
\* freed entry, none is freed twice and none is lost.
THEOREM EntriesFreedOnce == Spec => []EntriesOnce
<1>1. Init => BaseInv /\ LinkKnown
  BY InitBase
<1>2. BaseInv /\ LinkKnown /\ [Next]_vars => (BaseInv /\ LinkKnown)'
  BY StepKeepsBase, StutterKeepsBase
<1>3. BaseInv => EntriesOnce
  BY DEF BaseInv
<1> QED
  BY <1>1, <1>2, <1>3, PTL DEF Spec

-----------------------------------------------------------------------------
(* Steps of ApartSpec: what the locks of the VFS, the dentries and the     *)
(* numbers say together                                                    *)

Working(t) == Busy(t) /\ call[t].do \in {"link", "unlink"}

\* Counts are passed to the entries by a link or an unlink, from the root on.
InStage == \A t \in Threads : Busy(t) =>
             /\ call[t].at \in {"found", "added", "count"} => call[t].do # "create"
             /\ call[t].at \notin {"count", "remove"} => call[t].walk = 0

\* Two handlers have neither a directory nor an inode object in common.
Locked == \A t, u \in Threads :
            Busy(t) /\ Busy(u) /\ t # u => /\ call[t].dir # call[u].dir
                                           /\ call[t].inode # call[u].inode

Place(t) == <<call[t].dir, call[t].name>>

\* The dentries are what they were when the handler was called.
Seen(t) ==
  /\ call[t].do = "create" => /\ Place(t) \notin DOMAIN dentry
                              /\ \A k \in DOMAIN dentry : dentry[k] # call[t].inode
  /\ call[t].do = "link" => /\ Place(t) \notin DOMAIN dentry
                            /\ \E k \in DOMAIN dentry : dentry[k] = call[t].inode
  /\ call[t].do = "unlink" => Place(t) \in DOMAIN dentry /\ dentry[Place(t)] = call[t].inode
  /\ call[t].do # "create" => number[call[t].inode] = call[t].ino

Dentries == \A t \in Threads : Busy(t) => Seen(t)

Tables == OneObject /\ Locked /\ Dentries /\ LinkKnown

\* A number that is in use
Known(x) == \/ \E e \in listed : file[e].ino = x
            \/ \E k \in DOMAIN dentry : number[dentry[k]] = x

Loaded(t) == Doing(t, "create", "loaded")
Stored(t) == Doing(t, "create", "stored")

\* Nothing has a number that next_ino has not passed, and nothing has the number that a
\* create has taken.
Numbers ==
  /\ \A x \in Nat : Known(x) => x < next_ino
  /\ \A t \in Threads : Loaded(t) => call[t].ino = next_ino
  /\ \A t \in Threads : Stored(t) => call[t].ino < next_ino /\ ~Known(call[t].ino)
  /\ \A t, u \in Threads : Stored(t) /\ Stored(u) /\ call[t].ino = call[u].ino => t = u

\* Link and unlink work on inodes that have a dentry.
LEMMA WorkerSees ==
  ASSUME Tables, NEW t \in Threads, Working(t)
  PROVE  /\ \E k \in DOMAIN dentry : dentry[k] = call[t].inode
         /\ number[call[t].inode] = call[t].ino
         /\ Known(call[t].ino)
BY DEF Tables, Dentries, Seen, Working, Known

\* So with one object for each number, no two of them work on one number.
LEMMA Exclusive ==
  ASSUME Tables, NEW t \in Threads, NEW u \in Threads, Working(t), Working(u),
         call[t].ino = call[u].ino
  PROVE  t = u
<1>1. PICK k \in DOMAIN dentry : dentry[k] = call[t].inode /\ number[dentry[k]] = call[t].ino
  BY WorkerSees
<1>2. PICK l \in DOMAIN dentry : dentry[l] = call[u].inode /\ number[dentry[l]] = call[u].ino
  BY WorkerSees
<1>3. dentry[k] = dentry[l]
  BY <1>1, <1>2 DEF Tables, OneObject
<1> QED
  BY <1>1, <1>2, <1>3 DEF Tables, Locked, Working

LEMMA NotCreating ==
  ASSUME Tables, Numbers, NEW t \in Threads, NEW u \in Threads, Stored(t), Working(u)
  PROVE  call[u].ino # call[t].ino
BY WorkerSees DEF Numbers

-----------------------------------------------------------------------------
(* The tables *)

LEMMA GoesKeepsLocked ==
  ASSUME Locked, NEW t \in Threads, Busy(t), Goes(t)
  PROVE  Locked'
BY DEF Locked, Goes, Busy

\* A handler that leaves the dentries alone
LEMMA QuietKeepsSeen ==
  ASSUME Dentries, NEW t \in Threads, Busy(t), Goes(t), UNCHANGED <<dentry, number>>
  PROVE  Dentries'
<1>1. ASSUME NEW u \in Threads, Busy(u)'
      PROVE  /\ Busy(u) /\ call'[u].do = call[u].do /\ call'[u].inode = call[u].inode
             /\ Place(u)' = Place(u)
             /\ call[u].do # "create" => call'[u].ino = call[u].ino
  BY <1>1 DEF Goes, Busy, Place
<1>2. ASSUME NEW u \in Threads, Busy(u)'
      PROVE  Seen(u)'
  <2>1. Busy(u) /\ Seen(u)
    BY <1>1, <1>2 DEF Dentries
  <2> QED
    BY <1>1, <1>2, <2>1 DEF Seen
<1> QED
  BY <1>2 DEF Dentries

\* The other threads, when the dentry of one changes
LEMMA OtherSeen ==
  ASSUME Tables, NEW t \in Threads, Busy(t), NEW u \in Threads, Busy(u), u # t
  PROVE  /\ Place(u) # Place(t) /\ call[u].inode # call[t].inode
         /\ Seen(u)
BY DEF Tables, Locked, Dentries, Place

LEMMA DropKeepsTables ==
  ASSUME BaseInv, Tables, NEW t \in Threads, Busy(t), call[t].do = "unlink",
         Drop(t), Return(t), UNCHANGED number
  PROVE  OneObject' /\ Dentries'
<1>1. /\ DOMAIN dentry' = DOMAIN dentry \ {Place(t)}
      /\ \A k \in DOMAIN dentry' : dentry'[k] = dentry[k]
  BY DropIs DEF Place
<1>2. OneObject'
  BY <1>1 DEF Tables, OneObject
<1>3. ~Busy(t)' /\ \A u \in Threads : u # t => call'[u] = call[u]
  BY ReturnIs
<1>4. ASSUME NEW u \in Threads, Busy(u)'
      PROVE  Seen(u)'
  <2>1. u # t /\ Busy(u) /\ call'[u] = call[u]
    BY <1>3, <1>4 DEF Busy
  <2>2. Place(u) # Place(t) /\ call[u].inode # call[t].inode /\ Seen(u)
    BY <2>1, OtherSeen
  <2>3. Place(u)' = Place(u)
    BY <2>1 DEF Place
  <2>4. dentry[Place(t)] = call[t].inode
    BY DEF Tables, Dentries, Seen
  <2> QED
    BY <1>1, <2>1, <2>2, <2>3, <2>4 DEF Seen
<1> QED
  BY <1>2, <1>4 DEF Dentries

LEMMA LinkedKeepsTables ==
  ASSUME BaseInv, Tables, NEW t \in Threads, Linked(t)
  PROVE  /\ OneObject' /\ Dentries'
         /\ \A k \in DOMAIN dentry' : \E j \in DOMAIN dentry : dentry'[k] = dentry[j]
<1>1. /\ Busy(t) /\ call[t].do = "link" /\ Instantiate(t) /\ Return(t) /\ UNCHANGED number
  BY LinkedIs
<1>2. /\ DOMAIN dentry' = DOMAIN dentry \cup {Place(t)}
      /\ dentry'[Place(t)] = call[t].inode
      /\ \A k \in DOMAIN dentry : k # Place(t) => dentry'[k] = dentry[k]
  BY <1>1, InstantiateIs DEF Place
<1>3. Seen(t)
  BY <1>1 DEF Tables, Dentries
<1>4. \A k \in DOMAIN dentry' : \E j \in DOMAIN dentry : dentry'[k] = dentry[j]
  BY <1>1, <1>2, <1>3 DEF Seen
<1>5. OneObject'
  BY <1>1, <1>4 DEF Tables, OneObject
<1>6. ~Busy(t)' /\ \A u \in Threads : u # t => call'[u] = call[u]
  BY <1>1, ReturnIs
<1>7. ASSUME NEW u \in Threads, Busy(u)'
      PROVE  Seen(u)'
  <2>1. u # t /\ Busy(u) /\ call'[u] = call[u]
    BY <1>6, <1>7 DEF Busy
  <2>2. Place(u) # Place(t) /\ call[u].inode # call[t].inode /\ Seen(u)
    BY <1>1, <2>1, OtherSeen
  <2>3. Place(u)' = Place(u)
    BY <2>1 DEF Place
  <2>4. \A k \in DOMAIN dentry : k \in DOMAIN dentry' /\ dentry'[k] = dentry[k]
    BY <1>1, <1>2, <1>3 DEF Seen
  <2> QED
    BY <1>1, <1>2, <2>1, <2>2, <2>3, <2>4 DEF Seen
<1> QED
  BY <1>4, <1>5, <1>7 DEF Dentries

\* The new inode gets a number that no dentry leads to.
LEMMA CreateKeepsTables ==
  ASSUME BaseInv, Tables, Numbers, NEW t \in Threads, CreateFile(t), ~ UNCHANGED <<dentry, number>>
  PROVE  /\ OneObject' /\ Dentries'
         /\ \A k \in DOMAIN dentry' :
              \/ number'[dentry'[k]] = call[t].ino
              \/ k \in DOMAIN dentry /\ number'[dentry'[k]] = number[dentry[k]]
<1>1. Busy(t) /\ call[t].do = "create" /\ call[t].at = "stored" /\ Return(t)
  BY CreateFileIs
<1>2. /\ Instantiate(t)
      /\ DOMAIN number' = DOMAIN number \cup {call[t].inode}
      /\ number'[call[t].inode] = call[t].ino
      /\ \A o \in DOMAIN number : o # call[t].inode => number'[o] = number[o]
  BY CreateFileIs
<1>3. /\ DOMAIN dentry' = DOMAIN dentry \cup {Place(t)}
      /\ dentry'[Place(t)] = call[t].inode
      /\ \A k \in DOMAIN dentry : k # Place(t) => dentry'[k] = dentry[k]
  BY <1>1, <1>2, InstantiateIs DEF Place
<1>4. /\ Place(t) \notin DOMAIN dentry
      /\ \A k \in DOMAIN dentry : dentry[k] # call[t].inode
  BY <1>1 DEF Tables, Dentries, Seen
<1>5. \A k \in DOMAIN dentry : /\ k \in DOMAIN dentry' /\ dentry'[k] = dentry[k]
                               /\ number'[dentry[k]] = number[dentry[k]]
  BY <1>2, <1>3, <1>4, TablesTyped
<1>6. Stored(t)
  BY <1>1 DEF Stored, Doing
<1>7. \A k \in DOMAIN dentry : number[dentry[k]] # call[t].ino
  BY <1>6 DEF Numbers, Known
<1>8. OneObject'
  <2> SUFFICES ASSUME NEW k \in DOMAIN dentry', NEW l \in DOMAIN dentry',
                      number'[dentry'[k]] = number'[dentry'[l]]
               PROVE  dentry'[k] = dentry'[l]
    BY DEF OneObject
  <2>1. CASE k = Place(t) \/ l = Place(t)
    BY <1>2, <1>3, <1>5, <1>7, <2>1
  <2>2. CASE k # Place(t) /\ l # Place(t)
    BY <1>3, <1>5, <2>2 DEF Tables, OneObject
  <2> QED
    BY <2>1, <2>2
<1>9. ~Busy(t)' /\ \A u \in Threads : u # t => call'[u] = call[u]
  BY <1>1, ReturnIs
<1>10. ASSUME NEW u \in Threads, Busy(u)'
       PROVE  Seen(u)'
  <2>1. u # t /\ Busy(u) /\ call'[u] = call[u]
    BY <1>9, <1>10 DEF Busy
  <2>2. Place(u) # Place(t) /\ call[u].inode # call[t].inode /\ Seen(u)
    BY <1>1, <2>1, OtherSeen
  <2>3. Place(u)' = Place(u)
    BY <2>1 DEF Place
  <2>4. call[u].do # "create" => number'[call[u].inode] = number[call[u].inode]
    <3>1. call[u].do # "create" => Working(u)
      BY <2>1, CallIs DEF Working
    <3>2. Working(u) => \E k \in DOMAIN dentry : dentry[k] = call[u].inode
      BY WorkerSees
    <3> QED
      BY <1>5, <3>1, <3>2
  <2>5. \A k \in DOMAIN dentry' : k \in DOMAIN dentry \/ k = Place(t)
    BY <1>3
  <2> QED
    BY <1>3, <1>5, <2>1, <2>2, <2>3, <2>4, <2>5 DEF Seen
<1>11. \A k \in DOMAIN dentry' :
              \/ number'[dentry'[k]] = call[t].ino
              \/ k \in DOMAIN dentry /\ number'[dentry'[k]] = number[dentry[k]]
  BY <1>2, <1>3, <1>5
<1> QED
  BY <1>8, <1>10, <1>11 DEF Dentries

\* The handlers that leave the dentries alone, and the others
LEMMA DentrySteps ==
  ASSUME BaseInv, NEW t \in Threads, Handler(t), ~ UNCHANGED <<dentry, number>>
  PROVE  \/ CreateFile(t)
         \/ Linked(t)
         \/ /\ FreeEntry(t) \/ RemoveAll(t)
            /\ call[t].do = "unlink" /\ Drop(t) /\ Return(t) /\ UNCHANGED number
<1>1. CASE FreeEntry(t)
  BY <1>1, FreeEntryIs
<1>2. CASE RemoveAll(t)
  BY <1>2, RemoveAllIs
<1>3. LoadNumber(t) \/ StoreNumber(t) \/ RemoveFile(t) \/ FindMain(t) \/ AddLink(t) \/ ReadCount(t)
        \/ RemoveName(t) \/ UpdateNlink(t) => UNCHANGED <<dentry, number>>
  BY DEF LoadNumber, StoreNumber, RemoveFile, FindMain, AddLink, ReadCount, RemoveName, UpdateNlink
<1> QED
  BY <1>1, <1>2, <1>3 DEF Handler

LEMMA HandlerKeepsTables ==
  ASSUME BaseInv, Tables, Numbers, NEW t \in Threads, Handler(t)
  PROVE  OneObject' /\ Locked' /\ Dentries'
<1>1. Busy(t) /\ Goes(t)
  BY HandlerGoes
<1>2. Locked'
  BY <1>1, GoesKeepsLocked DEF Tables
<1>3. CASE UNCHANGED <<dentry, number>>
  <2>1. OneObject'
    BY <1>3 DEF Tables, OneObject
  <2>2. Dentries'
    BY <1>1, <1>3, QuietKeepsSeen DEF Tables
  <2> QED
    BY <1>2, <2>1, <2>2
<1>4. CASE ~ UNCHANGED <<dentry, number>>
  <2>1. CASE CreateFile(t)
    BY <1>2, <1>4, <2>1, CreateKeepsTables
  <2>2. CASE Linked(t)
    BY <1>2, <2>2, LinkedKeepsTables
  <2>3. CASE call[t].do = "unlink" /\ Drop(t) /\ Return(t) /\ UNCHANGED number
    BY <1>1, <1>2, <2>3, DropKeepsTables
  <2> QED
    BY <1>4, <2>1, <2>2, <2>3, DentrySteps
<1> QED
  BY <1>3, <1>4

\* The VFS looks a name up, and locks what it calls a handler for.
LEMMA StartKeepsTables ==
  ASSUME BaseInv, Tables, NEW t \in Threads, Start(t)
  PROVE  OneObject' /\ Locked' /\ Dentries'
<1>1. ~Busy(t) /\ UNCHANGED <<file, listed, next_ino, dentry, number>>
  BY StartIs
<1>2. PICK do \in {"create", "link", "unlink"}, d \in Dirs, n \in Names, o \in Objects :
        Starts(t, do, d, n, o)
  BY StartIs
<1> DEFINE c == NewCall(do, d, n, o)
<1>3. c \in Calls /\ call' = [call EXCEPT ![t] = c]
  BY <1>2 DEF Starts
<1>4. call'[t] = c /\ \A u \in Threads : u # t => call'[u] = call[u]
  BY <1>3, CallTyped DEF BaseInv
<1>5. /\ c.do = do /\ c.dir = d /\ c.name = n /\ c.inode = o
      /\ do # "create" => c.ino = number[o]
  BY DEF NewCall
<1> HIDE DEF c
<1>6. OneObject'
  BY <1>1 DEF Tables, OneObject
<1>7. Locked'
  BY <1>2, <1>4, <1>5 DEF Tables, Locked, Starts, Unlocked, Busy
<1>8. Place(t)' = <<d, n>>
  BY <1>4, <1>5 DEF Place
<1>9. Seen(t)'
  BY <1>1, <1>2, <1>4, <1>5, <1>8 DEF Seen, Starts
<1>10. ASSUME NEW u \in Threads, Busy(u)', u # t
       PROVE  Seen(u)'
  <2>1. Busy(u) /\ call'[u] = call[u]
    BY <1>4, <1>10 DEF Busy
  <2>2. Seen(u) /\ Place(u)' = Place(u)
    BY <2>1 DEF Tables, Dentries, Place
  <2> QED
    BY <1>1, <2>1, <2>2 DEF Seen
<1>11. Dentries'
  BY <1>9, <1>10 DEF Dentries
<1> QED
  BY <1>6, <1>7, <1>11

\* Another object for a name, while no handler has its directory or its inode
LEMMA LookupKeepsTables ==
  ASSUME BaseInv, Tables, Lookup, OneObject'
  PROVE  /\ Locked' /\ Dentries'
         /\ \A k \in DOMAIN dentry' : k \in DOMAIN dentry /\ number'[dentry'[k]] = number[dentry[k]]
<1>1. PICK k \in DOMAIN dentry, o \in FreshObjects :
        /\ Unlocked(k[1], dentry[k])
        /\ dentry' = [dentry EXCEPT ![k] = o]
        /\ number' = [p \in DOMAIN number \cup {o} |-> IF p = o THEN number[dentry[k]] ELSE number[p]]
        /\ UNCHANGED <<file, listed, next_ino, call>>
  BY DEF Lookup
<1>2. /\ \A j \in DOMAIN dentry : dentry[j] # o
      /\ \A t \in Threads : Busy(t) => call[t].inode # o
  BY DEF FreshObjects
<1>3. /\ DOMAIN dentry' = DOMAIN dentry /\ dentry'[k] = o
      /\ \A j \in DOMAIN dentry : j # k => dentry'[j] = dentry[j]
  BY <1>1
<1>4. number'[o] = number[dentry[k]] /\ \A p \in DOMAIN number : p # o => number'[p] = number[p]
  BY <1>1
<1>5. \A j \in DOMAIN dentry' : j \in DOMAIN dentry /\ number'[dentry'[j]] = number[dentry[j]]
  BY <1>2, <1>3, <1>4, TablesTyped
<1>6. Locked'
  BY <1>1 DEF Tables, Locked, Busy
<1>7. ASSUME NEW t \in Threads, Busy(t)'
      PROVE  Seen(t)'
  <2>1. Busy(t) /\ call'[t] = call[t] /\ Seen(t) /\ Place(t)' = Place(t)
    BY <1>1, <1>7 DEF Busy, Tables, Dentries, Place
  <2>2. call[t].dir # k[1] /\ call[t].inode # dentry[k] /\ call[t].inode # o
    BY <1>1, <1>2, <2>1 DEF Unlocked
  <2>3. Place(t) # k
    BY <2>2 DEF Place
  <2>4. call[t].do # "create" => number'[call[t].inode] = number[call[t].inode]
    <3>1. call[t].do # "create" => Working(t)
      BY <2>1, CallIs DEF Working
    <3>2. Working(t) => call[t].inode \in DOMAIN number
      BY WorkerSees, TablesTyped
    <3> QED
      BY <1>4, <2>2, <3>1, <3>2
  <2> QED
    BY <1>3, <2>1, <2>2, <2>3, <2>4 DEF Seen
<1> QED
  BY <1>5, <1>6, <1>7 DEF Dentries

-----------------------------------------------------------------------------
(* The numbers *)

\* What a handler does with the entries in the lists
LEMMA EntrySteps ==
  ASSUME BaseInv, NEW t \in Threads, Handler(t)
  PROVE  /\ \A e \in listed \cap listed' : /\ file'[e].dir = file[e].dir
                                           /\ file'[e].name = file[e].name
                                           /\ file'[e].ino = file[e].ino
         /\ \A e \in listed' \ listed : /\ CreateFile(t) \/ AddLink(t)
                                        /\ file'[e].dir = call[t].dir
                                        /\ file'[e].name = call[t].name
                                        /\ file'[e].ino = call[t].ino
         /\ \A e \in listed \ listed' : \/ RemoveFile(t) /\ file[e].dir = call[t].dir
                                        \/ Working(t) /\ file[e].ino = call[t].ino
<1> DEFINE Same(e) == /\ file'[e].dir = file[e].dir
                      /\ file'[e].name = file[e].name
                      /\ file'[e].ino = file[e].ino
<1>1. \A e \in listed : e \in DOMAIN file /\ file[e] \in Entry
  BY FilesTyped
<1>2. ASSUME NEW e \in listed, NEW n, file'[e] = file[e] \/ file'[e] = [file[e] EXCEPT !.nlink = n]
      PROVE  Same(e)
  BY <1>1, <1>2 DEF Entry
<1>3. CASE UNCHANGED <<file, listed>>
  BY <1>3
<1>4. CASE CreateFile(t) /\ ~ UNCHANGED <<file, listed>>
  <2>1. PICK f \in NewEntries : /\ file' = Add(f, call[t].dir, call[t].name, call[t].ino, 1)
                                /\ listed' = listed \cup {f}
    BY <1>4, CreateFileIs
  <2>2. /\ file'[f] = [dir |-> call[t].dir, name |-> call[t].name, ino |-> call[t].ino, nlink |-> 1]
        /\ \A k \in DOMAIN file : k # f => file'[k] = file[k]
    BY <2>1 DEF Add
  <2>3. f \notin DOMAIN file
    BY DEF NewEntries
  <2> QED
    BY <1>1, <1>4, <2>1, <2>2, <2>3
<1>5. CASE RemoveFile(t)
  <2> DEFINE gone == At(call[t].dir, call[t].name)
  <2>1. file' = Without(gone) /\ listed' = listed \ gone
    BY <1>5, RemoveFileIs
  <2>2. \A e \in gone : file[e].dir = call[t].dir
    BY DEF At
  <2> HIDE DEF gone
  <2> QED
    BY <1>1, <1>5, <2>1, <2>2, WithoutIs
<1>6. CASE AddLink(t) /\ ~ UNCHANGED <<file, listed>>
  <2>1. PICK f \in NewEntries, n \in CountsAt(call[t].main) :
          /\ listed' = listed \cup {f}
          /\ DOMAIN file' = DOMAIN file \cup {f}
          /\ file'[f] = [dir |-> call[t].dir, name |-> call[t].name,
                         ino |-> call[t].ino, nlink |-> n + 1]
          /\ \A k \in DOMAIN file : k # f =>
               file'[k] = IF k = call[t].main THEN [file[k] EXCEPT !.nlink = n + 1]
                                              ELSE file[k]
    BY <1>6, AddLinkIs
  <2>2. f \notin DOMAIN file
    BY DEF NewEntries
  <2>3. \A e \in listed : Same(e)
    BY <1>1, <1>2, <2>1, <2>2
  <2>4. /\ file'[f].dir = call[t].dir /\ file'[f].name = call[t].name
        /\ file'[f].ino = call[t].ino
    BY <2>1
  <2> QED
    BY <1>6, <2>1, <2>3, <2>4
<1>7. CASE RemoveName(t)
  <2>1. Working(t) /\ UNCHANGED file
    BY <1>7, RemoveNameIs DEF Working
  <2>2. listed' = listed \/ \E e \in listed : file[e].ino = call[t].ino /\ listed' = listed \ {e}
    BY <1>7, RemoveNameIs
  <2> QED
    BY <2>1, <2>2
<1>8. CASE UpdateNlink(t)
  <2>1. /\ listed' = listed
        /\ \A e \in DOMAIN file :
             file'[e] = IF e \in LinksOf(call[t].ino) /\ file[e].dir = call[t].walk
                        THEN [file[e] EXCEPT !.nlink = call[t].nlink] ELSE file[e]
    BY <1>8, UpdateNlinkIs
  <2>2. \A e \in listed : Same(e)
    BY <1>1, <1>2, <2>1
  <2> QED
    BY <2>1, <2>2
<1>9. CASE FreeEntry(t)
  <2>1. listed' = listed /\ \A e \in DOMAIN file' : file'[e] = file[e]
    BY <1>9, FreeEntryIs
  <2>2. BaseInv'
    BY <1>9, FreeEntryKeepsBase
  <2>3. listed' \subseteq DOMAIN file'
    BY <2>2 DEF BaseInv, EntriesOnce
  <2> QED
    BY <2>1, <2>3
<1>10. CASE RemoveAll(t) /\ ~ UNCHANGED <<file, listed>>
  <2> DEFINE gone == {k \in LinksOf(call[t].ino) : file[k].dir = call[t].walk}
  <2>1. Working(t) /\ file' = Without(gone) /\ listed' = listed \ gone
    BY <1>10, RemoveAllIs DEF Working
  <2>2. \A e \in gone : file[e].ino = call[t].ino
    BY DEF LinksOf
  <2> HIDE DEF gone
  <2> QED
    BY <1>1, <2>1, <2>2, WithoutIs
<1>11. LoadNumber(t) \/ StoreNumber(t) \/ FindMain(t) \/ ReadCount(t) \/ Linked(t)
         => UNCHANGED <<file, listed>>
  BY DEF LoadNumber, StoreNumber, FindMain, ReadCount, Linked
<1> QED
  BY <1>3, <1>4, <1>5, <1>6, <1>7, <1>8, <1>9, <1>10, <1>11 DEF Handler

\* What a handler does with the numbers that dentries lead to
LEMMA DentryNumbers ==
  ASSUME BaseInv, Tables, Numbers, NEW t \in Threads, Handler(t), NEW k \in DOMAIN dentry'
  PROVE  \/ \E j \in DOMAIN dentry : number'[dentry'[k]] = number[dentry[j]]
         \/ CreateFile(t) /\ number'[dentry'[k]] = call[t].ino
<1>1. CASE UNCHANGED <<dentry, number>>
  BY <1>1
<1>2. CASE CreateFile(t) /\ ~ UNCHANGED <<dentry, number>>
  BY <1>2, CreateKeepsTables
<1>3. CASE Linked(t)
  BY <1>3, LinkedKeepsTables, LinkedIs
<1>4. CASE /\ FreeEntry(t) \/ RemoveAll(t)
           /\ call[t].do = "unlink" /\ Drop(t) /\ Return(t) /\ UNCHANGED number
  <2>1. Busy(t)
    BY HandlerGoes
  <2> QED
    BY <1>4, <2>1, DropIs
<1> QED
  BY <1>1, <1>2, <1>3, <1>4, DentrySteps

\* Only a create makes a number known.
LEMMA HandlerKnown ==
  ASSUME BaseInv, Tables, Numbers, NEW t \in Threads, Handler(t), NEW x \in Nat, Known(x)'
  PROVE  Known(x) \/ (CreateFile(t) /\ x = call[t].ino)
<1>1. ASSUME NEW e \in listed', file'[e].ino = x
      PROVE  Known(x) \/ (CreateFile(t) /\ x = call[t].ino)
  <2>1. CASE e \in listed
    BY <1>1, <2>1, EntrySteps DEF Known
  <2>2. CASE e \notin listed
    <3>1. (CreateFile(t) \/ AddLink(t)) /\ x = call[t].ino
      BY <1>1, <2>2, EntrySteps
    <3>2. CASE AddLink(t)
      <4>1. Working(t)
        BY <3>2, AddLinkIs DEF Working
      <4> QED
        BY <3>1, <4>1, WorkerSees
    <3> QED
      BY <3>1, <3>2
  <2> QED
    BY <2>1, <2>2
<1>2. ASSUME NEW k \in DOMAIN dentry', number'[dentry'[k]] = x
      PROVE  Known(x) \/ (CreateFile(t) /\ x = call[t].ino)
  BY <1>2, DentryNumbers DEF Known
<1> QED
  BY <1>1, <1>2 DEF Known

\* A thread that has changed its call
LEMMA Became ==
  ASSUME BaseInv, NEW t \in Threads, NEW c \in Calls, call' = [call EXCEPT ![t] = c]
  PROVE  /\ call'[t] = c /\ Busy(t)' /\ c # Idle
         /\ \A u \in Threads : u # t => call'[u] = call[u]
<1>1. TypeOK
  BY DEF BaseInv
<1>2. call'[t] = c /\ \A u \in Threads : u # t => call'[u] = call[u]
  BY <1>1, CallTyped
<1>3. c # Idle
  BY IdleAssumption
<1> QED
  BY <1>2, <1>3 DEF Busy

LEMMA CreateFileThen ==
  ASSUME BaseInv, NEW t \in Threads, CreateFile(t)
  PROVE  \/ Return(t)
         \/ /\ Busy(t)' /\ call'[t].at = "listed" /\ call'[t].walk = call[t].walk
            /\ call'[t].do = "create" /\ call'[t].ino = call[t].ino
            /\ ~ UNCHANGED listed /\ UNCHANGED <<dentry, number>>
<1> DEFINE c == [call[t] EXCEPT !.at = "listed"]
<1>1. Busy(t) /\ call[t].do = "create"
  BY CreateFileIs
<1>2. \/ Return(t)
      \/ /\ c \in Calls /\ call' = [call EXCEPT ![t] = c]
         /\ \E e \in NewEntries : listed' = listed \cup {e}
         /\ UNCHANGED <<dentry, number>>
  BY CreateFileIs
<1>3. /\ c.at = "listed" /\ c.walk = call[t].walk /\ c.do = "create"
      /\ c.ino = call[t].ino
  BY <1>1, CallIs DEF Calls
<1>4. \A e \in NewEntries : e \notin listed
  BY FilesTyped DEF NewEntries
<1> HIDE DEF c
<1> QED
  BY <1>2, <1>3, <1>4, Became

LEMMA CreateSteps ==
  ASSUME BaseInv, InStage, NEW t \in Threads, Handler(t), call[t].do = "create"
  PROVE  LoadNumber(t) \/ StoreNumber(t) \/ CreateFile(t) \/ RemoveFile(t)
BY DEF Handler, InStage, FindMain, AddLink, ReadCount, RemoveName, UpdateNlink, Linked, FreeEntry,
       RemoveAll, Doing

\* What a handler does with next_ino and with the number that it has taken
LEMMA NumberSteps ==
  ASSUME BaseInv, InStage, Numbers, NEW t \in Threads, Handler(t)
  PROVE  /\ \/ next_ino' = next_ino /\ ~ Stored(t)'
            \/ Loaded(t) /\ next_ino' = next_ino + 1 /\ call'[t].ino = next_ino /\ ~ Loaded(t)'
         /\ Loaded(t)' => call'[t].ino = next_ino /\ next_ino' = next_ino
         /\ CreateFile(t) => Stored(t) /\ next_ino' = next_ino
<1>1. Busy(t) /\ Goes(t)
  BY HandlerGoes
<1>2. CASE call[t].do # "create"
  <2>1. ~Loaded(t)' /\ ~Stored(t)'
    BY <1>1, <1>2 DEF Goes, Loaded, Stored, Doing, Busy
  <2>2. next_ino' = next_ino
    BY <1>2 DEF Handler, LoadNumber, StoreNumber, CreateFile, RemoveFile, FindMain, AddLink,
                ReadCount, RemoveName, UpdateNlink, Linked, FreeEntry, RemoveAll, Doing
  <2>3. ~CreateFile(t)
    BY <1>2, CreateFileIs
  <2> QED
    BY <2>1, <2>2, <2>3
<1>3. CASE LoadNumber(t)
  <2> DEFINE c == [call[t] EXCEPT !.at = "loaded", !.ino = next_ino]
  <2>1. /\ call[t].at = "start" /\ c \in Calls /\ call' = [call EXCEPT ![t] = c]
        /\ UNCHANGED next_ino
    BY <1>3, LoadNumberIs
  <2>2. call'[t] = c
    BY <2>1, CallTyped DEF BaseInv
  <2>3. c.at = "loaded" /\ c.ino = next_ino
    BY <1>1, CallIs DEF Calls
  <2>4. ~Stored(t)' /\ ~CreateFile(t)
    BY <2>1, <2>2, <2>3, CreateFileIs DEF Stored, Doing
  <2> QED
    BY <2>1, <2>2, <2>3, <2>4
<1>4. CASE StoreNumber(t)
  <2> DEFINE c == [call[t] EXCEPT !.at = "stored"]
  <2>1. /\ call[t].do = "create" /\ call[t].at = "loaded"
        /\ c \in Calls /\ call' = [call EXCEPT ![t] = c]
        /\ next_ino' = call[t].ino + 1
    BY <1>4, StoreNumberIs
  <2>2. call'[t] = c
    BY <2>1, CallTyped DEF BaseInv
  <2>3. c.at = "stored" /\ c.ino = call[t].ino
    BY <1>1, CallIs DEF Calls
  <2>4. Loaded(t) /\ call[t].ino = next_ino
    BY <1>1, <2>1 DEF Loaded, Doing, Numbers
  <2>5. ~Loaded(t)' /\ ~CreateFile(t)
    BY <2>1, <2>2, <2>3, CreateFileIs DEF Loaded, Doing
  <2> QED
    BY <2>1, <2>2, <2>3, <2>4, <2>5
<1>5. CASE CreateFile(t)
  <2>1. call[t].do = "create" /\ call[t].at = "stored" /\ UNCHANGED next_ino
    BY <1>5, CreateFileIs
  <2>2. Busy(t)' => call'[t].at = "listed"
    BY <1>5, CreateFileThen, ReturnIs
  <2> QED
    BY <1>1, <2>1, <2>2 DEF Stored, Loaded, Doing
<1>6. CASE RemoveFile(t)
  <2>1. call[t].at = "listed" /\ Return(t) /\ UNCHANGED next_ino
    BY <1>6, RemoveFileIs
  <2>2. ~Busy(t)' /\ ~CreateFile(t)
    BY <2>1, ReturnIs, CreateFileIs
  <2> QED
    BY <1>1, <2>1, <2>2 DEF Stored, Loaded, Doing
<1> QED
  BY <1>2, <1>3, <1>4, <1>5, <1>6, CreateSteps

LEMMA HandlerKeepsNumbering ==
  ASSUME BaseInv, Tables, Numbers, InStage, OneCounting, NEW t \in Threads, Handler(t)
  PROVE  Numbers'
<1>1. Busy(t) /\ Goes(t)
  BY HandlerGoes
<1>2. BaseInv'
  BY HandlerKeepsBase DEF Tables
<1>3. next_ino \in Nat /\ next_ino' \in Nat /\ next_ino <= next_ino'
  BY <1>2, NumberSteps, TablesTyped DEF BaseInv, TypeOK
<1>4. ASSUME NEW x \in Nat, Known(x)'
      PROVE  x < next_ino'
  <2>1. Known(x) \/ (CreateFile(t) /\ x = call[t].ino)
    BY <1>4, HandlerKnown
  <2>2. x < next_ino
    BY <2>1, NumberSteps DEF Numbers
  <2> QED
    BY <1>3, <2>2
<1>5. ASSUME NEW u \in Threads, u # t
      PROVE  /\ Loaded(u)' <=> Loaded(u)
             /\ Stored(u)' <=> Stored(u)
             /\ call'[u] = call[u]
  BY <1>1, <1>5 DEF Goes, Loaded, Stored, Doing, Busy
<1>6. ASSUME NEW u \in Threads, Loaded(u)'
      PROVE  call'[u].ino = next_ino'
  <2>1. CASE u = t
    BY <1>6, <2>1, NumberSteps
  <2>2. CASE u # t
    <3>1. Loaded(u) /\ call'[u].ino = next_ino
      BY <1>5, <1>6, <2>2 DEF Numbers
    <3>2. ~Loaded(t)
      BY <2>2, <3>1 DEF OneCounting, Loaded
    <3> QED
      BY <3>1, <3>2, NumberSteps
  <2> QED
    BY <2>1, <2>2
<1>7. ASSUME NEW u \in Threads, Stored(u)'
      PROVE  /\ call'[u].ino < next_ino' /\ call'[u].ino \in Nat
             /\ \A x \in Nat : x = call'[u].ino => ~ Known(x)'
  <2>1. CASE u = t
    <3>1. Loaded(t) /\ next_ino' = next_ino + 1 /\ call'[t].ino = next_ino
      BY <1>3, <1>7, <2>1, NumberSteps
    <3>2. ~CreateFile(t)
      BY <3>1, CreateFileIs DEF Loaded, Doing
    <3>3. \A x \in Nat : Known(x)' => x < next_ino
      BY <3>2, HandlerKnown DEF Numbers
    <3> QED
      BY <1>3, <2>1, <3>1, <3>3
  <2>2. CASE u # t
    <3>1. Stored(u) /\ call'[u] = call[u]
      BY <1>5, <1>7, <2>2
    <3>2. call[u].ino < next_ino /\ ~Known(call[u].ino)
      BY <3>1 DEF Numbers
    <3>3. call[u].ino \in Nat
      BY <3>1, CallIs DEF Stored, Doing
    <3>4. CreateFile(t) => call[u].ino # call[t].ino
      BY <2>2, <3>1, NumberSteps DEF Numbers
    <3>5. ASSUME NEW x \in Nat, x = call[u].ino
          PROVE  ~ Known(x)'
      BY <3>2, <3>4, <3>5, HandlerKnown
    <3> QED
      BY <1>3, <3>1, <3>2, <3>3, <3>5
  <2> QED
    BY <2>1, <2>2
<1>8. ASSUME NEW u \in Threads, NEW w \in Threads, Stored(u)', Stored(w)',
             call'[u].ino = call'[w].ino
      PROVE  u = w
  <2>1. \A v \in Threads : v # t /\ Stored(v)' => Stored(v) /\ call'[v].ino < next_ino
    BY <1>5 DEF Numbers
  <2>2. Stored(t)' => call'[t].ino = next_ino
    BY <1>3, NumberSteps
  <2>3. CASE u = t \/ w = t
    BY <1>3, <1>8, <2>1, <2>2, <2>3
  <2>4. CASE u # t /\ w # t
    BY <1>5, <1>8, <2>4 DEF Numbers
  <2> QED
    BY <2>3, <2>4
<1>9. ASSUME NEW u \in Threads, Stored(u)'
      PROVE  ~ Known(call[u].ino)'
  BY <1>7, <1>9 DEF Known
<1>10. \A u \in Threads : Stored(u)' => call'[u].ino < next_ino'
  BY <1>7
<1> QED
  BY <1>4, <1>6, <1>8, <1>9, <1>10 DEF Numbers

\* Steps after which nothing is known that was not, and no thread has gone on in a create
LEMMA OtherKeepsNumbering ==
  ASSUME BaseInv, Numbers, UNCHANGED next_ino,
         \A x \in Nat : Known(x)' => Known(x),
         \A u \in Threads : (Loaded(u)' => Loaded(u)) /\ (Stored(u)' => Stored(u)),
         \A u \in Threads : Loaded(u) \/ Stored(u) => call'[u] = call[u]
  PROVE  Numbers'
<1>1. ASSUME NEW u \in Threads, Stored(u)'
      PROVE  ~ Known(call[u].ino)'
  <2>1. Stored(u) /\ call'[u] = call[u] /\ ~ Known(call[u].ino)
    BY <1>1 DEF Numbers
  <2>2. call[u].ino \in Nat
    BY <2>1, CallIs DEF Stored, Doing
  <2>3. ASSUME NEW x \in Nat, x = call[u].ino
        PROVE  ~ Known(x)'
    BY <2>1, <2>3
  <2> QED
    BY <2>1, <2>2, <2>3 DEF Known
<1>2. /\ \A x \in Nat : Known(x)' => x < next_ino'
      /\ \A u \in Threads : Loaded(u)' => call'[u].ino = next_ino'
      /\ \A u \in Threads : Stored(u)' => call'[u].ino < next_ino'
      /\ \A u, w \in Threads : Stored(u)' /\ Stored(w)' /\ call'[u].ino = call'[w].ino => u = w
  BY DEF Numbers
<1> QED
  BY <1>1, <1>2 DEF Numbers

LEMMA StartKeepsNumbering ==
  ASSUME BaseInv, Numbers, NEW t \in Threads, Start(t)
  PROVE  /\ Numbers' /\ call'[t].at = "start" /\ call'[t].walk = 0 /\ ~ Busy(t)
         /\ \A u \in Threads : u # t => call'[u] = call[u]
         /\ UNCHANGED <<file, listed>>
<1>1. ~Busy(t) /\ UNCHANGED <<file, listed, next_ino, dentry, number>>
  BY StartIs
<1>2. PICK do \in {"create", "link", "unlink"}, d \in Dirs, n \in Names, o \in Objects :
        Starts(t, do, d, n, o)
  BY StartIs
<1>3. /\ call'[t] = NewCall(do, d, n, o)
      /\ \A u \in Threads : u # t => call'[u] = call[u]
  BY <1>2, CallTyped DEF BaseInv, Starts
<1>4. call'[t].at = "start" /\ call'[t].walk = 0
  BY <1>3 DEF NewCall
<1>5. \A u \in Threads : (Loaded(u)' => Loaded(u)) /\ (Stored(u)' => Stored(u))
  BY <1>3, <1>4 DEF Loaded, Stored, Doing, Busy
<1>6. \A u \in Threads : Loaded(u) \/ Stored(u) => call'[u] = call[u]
  BY <1>1, <1>3 DEF Loaded, Stored, Doing
<1>7. \A x \in Nat : Known(x)' => Known(x)
  BY <1>1 DEF Known
<1>8. Numbers'
  BY <1>1, <1>5, <1>6, <1>7, OtherKeepsNumbering
<1> QED
  BY <1>1, <1>3, <1>4, <1>8

LEMMA LookupKeepsNumbering ==
  ASSUME BaseInv, Tables, Numbers, Lookup, OneObject'
  PROVE  Numbers'
<1>1. UNCHANGED <<file, listed, next_ino, call>>
  BY DEF Lookup
<1>2. \A x \in Nat : Known(x)' => Known(x)
  BY <1>1, LookupKeepsTables DEF Known
<1>3. \A u \in Threads : (Loaded(u)' => Loaded(u)) /\ (Stored(u)' => Stored(u))
  BY <1>1 DEF Loaded, Stored, Doing, Busy
<1> QED
  BY <1>1, <1>2, <1>3, OtherKeepsNumbering

\* The places in the handlers, and what they leave in a call
LEMMA FindMainThen ==
  ASSUME BaseInv, NEW t \in Threads, FindMain(t)
  PROVE  \/ Return(t)
         \/ /\ Busy(t)' /\ call'[t].at = "found" /\ call'[t].walk = call[t].walk
            /\ call'[t].do = call[t].do /\ call'[t].ino = call[t].ino
            /\ call'[t].main = First(call[t].ino)
<1> DEFINE c == [call[t] EXCEPT !.at = "found", !.main = First(call[t].ino)]
<1>1. Busy(t) /\ (Return(t) \/ (c \in Calls /\ call' = [call EXCEPT ![t] = c]))
  BY FindMainIs
<1>2. /\ c.at = "found" /\ c.walk = call[t].walk /\ c.do = call[t].do /\ c.ino = call[t].ino
      /\ c.main = First(call[t].ino)
  BY <1>1, CallIs DEF Calls
<1> HIDE DEF c
<1> QED
  BY <1>1, <1>2, Became

LEMMA AddLinkThen ==
  ASSUME BaseInv, NEW t \in Threads, AddLink(t)
  PROVE  \/ Return(t) /\ UNCHANGED <<file, listed>>
         \/ /\ Busy(t)' /\ call'[t].at = "added" /\ call'[t].walk = call[t].walk
            /\ call'[t].do = call[t].do /\ call'[t].ino = call[t].ino
            /\ call'[t].main = call[t].main
<1> DEFINE c == [call[t] EXCEPT !.at = "added"]
<1>1. /\ Busy(t)
      /\ \/ Return(t) /\ UNCHANGED <<file, listed>>
         \/ c \in Calls /\ call' = [call EXCEPT ![t] = c]
  BY AddLinkIs
<1>2. /\ c.at = "added" /\ c.walk = call[t].walk /\ c.do = call[t].do /\ c.ino = call[t].ino
      /\ c.main = call[t].main
  BY <1>1, CallIs DEF Calls
<1> HIDE DEF c
<1> QED
  BY <1>1, <1>2, Became

LEMMA ReadCountThen ==
  ASSUME BaseInv, NEW t \in Threads, ReadCount(t)
  PROVE  /\ Busy(t)' /\ call'[t].at = "count" /\ call'[t].walk = call[t].walk
         /\ call'[t].do = call[t].do /\ call'[t].ino = call[t].ino
         /\ call'[t].nlink \in CountsAt(call[t].main)
<1>1. Busy(t)
  BY ReadCountIs
<1>2. PICK n \in CountsAt(call[t].main) :
        LET c == [call[t] EXCEPT !.at = "count", !.nlink = n]
        IN c \in Calls /\ call' = [call EXCEPT ![t] = c]
  BY ReadCountIs
<1> DEFINE c == [call[t] EXCEPT !.at = "count", !.nlink = n]
<1>3. c \in Calls /\ call' = [call EXCEPT ![t] = c]
  BY <1>2
<1>4. /\ c.at = "count" /\ c.walk = call[t].walk /\ c.do = call[t].do /\ c.ino = call[t].ino
      /\ c.nlink = n
  BY <1>1, CallIs DEF Calls
<1> HIDE DEF c
<1> QED
  BY <1>3, <1>4, Became

LEMMA RemoveNameThen ==
  ASSUME BaseInv, NEW t \in Threads, RemoveName(t)
  PROVE  \/ Return(t) /\ UNCHANGED listed
         \/ /\ Busy(t)' /\ call'[t].at = "count" /\ call'[t].walk = call[t].walk
            /\ call'[t].do = call[t].do /\ call'[t].ino = call[t].ino
            /\ call'[t].nlink + 1 \in CountsAt(call[t].main)
            /\ \E e \in listed : file[e].ino = call[t].ino /\ listed' = listed \ {e}
<1>1. Busy(t)
  BY RemoveNameIs
<1>2. CASE ~ (Return(t) /\ UNCHANGED listed)
  <2>1. PICK e \in listed, n \in CountsAt(call[t].main) :
          LET c == [call[t] EXCEPT !.at = "count", !.entry = e, !.nlink = n - 1]
          IN /\ file[e].ino = call[t].ino
             /\ listed' = listed \ {e}
             /\ c \in Calls /\ call' = [call EXCEPT ![t] = c]
    BY <1>2, RemoveNameIs
  <2> DEFINE c == [call[t] EXCEPT !.at = "count", !.entry = e, !.nlink = n - 1]
  <2>2. c \in Calls /\ call' = [call EXCEPT ![t] = c]
    BY <2>1
  <2>3. /\ c.at = "count" /\ c.walk = call[t].walk /\ c.do = call[t].do /\ c.ino = call[t].ino
        /\ c.nlink = n - 1
    BY <1>1, CallIs DEF Calls
  <2> HIDE DEF c
  <2>4. n \in Int
    BY CountsAtTyped
  <2>5. c.nlink + 1 = n
    BY <2>3, <2>4
  <2>6. call'[t] = c /\ Busy(t)'
    BY <2>2, Became
  <2> QED
    BY <2>1, <2>3, <2>5, <2>6
<1> QED
  BY <1>2

LEMMA UpdateNlinkThen ==
  ASSUME BaseInv, NEW t \in Threads, UpdateNlink(t)
  PROVE  /\ Busy(t)' /\ call'[t].at = "count" /\ call'[t].walk = call[t].walk + 1
         /\ call'[t].do = call[t].do /\ call'[t].ino = call[t].ino
         /\ call'[t].nlink = call[t].nlink
<1> DEFINE c == [call[t] EXCEPT !.walk = call[t].walk + 1]
<1>1. Busy(t) /\ call[t].at = "count" /\ c \in Calls /\ call' = [call EXCEPT ![t] = c]
  BY UpdateNlinkIs
<1>2. /\ c.at = "count" /\ c.walk = call[t].walk + 1 /\ c.do = call[t].do
      /\ c.ino = call[t].ino /\ c.nlink = call[t].nlink
  BY <1>1, CallIs DEF Calls
<1> HIDE DEF c
<1> QED
  BY <1>1, <1>2, Became

LEMMA FreeEntryThen ==
  ASSUME BaseInv, NEW t \in Threads, FreeEntry(t)
  PROVE  \/ Return(t)
         \/ /\ call[t].nlink = 0
            /\ Busy(t)' /\ call'[t].at = "remove"
            /\ call'[t].do = call[t].do /\ call'[t].ino = call[t].ino
<1> DEFINE c == [call[t] EXCEPT !.at = "remove", !.walk = 0]
<1>1. Busy(t) /\ (Return(t) \/ (call[t].nlink = 0 /\ c \in Calls /\ call' = [call EXCEPT ![t] = c]))
  BY FreeEntryIs
<1>2. c.at = "remove" /\ c.do = call[t].do /\ c.ino = call[t].ino
  BY <1>1, CallIs DEF Calls
<1> HIDE DEF c
<1> QED
  BY <1>1, <1>2, Became

LEMMA RemoveAllThen ==
  ASSUME BaseInv, NEW t \in Threads, RemoveAll(t)
  PROVE  \/ Return(t)
         \/ /\ Busy(t)' /\ call'[t].at = "remove"
            /\ call'[t].do = call[t].do /\ call'[t].ino = call[t].ino
<1> DEFINE c == [call[t] EXCEPT !.walk = call[t].walk + 1]
<1>1. Busy(t) /\ call[t].at = "remove" /\ (Return(t) \/ (c \in Calls /\ call' = [call EXCEPT ![t] = c]))
  BY RemoveAllIs
<1>2. c.at = "remove" /\ c.do = call[t].do /\ c.ino = call[t].ino
  BY <1>1, CallIs DEF Calls
<1> HIDE DEF c
<1> QED
  BY <1>1, <1>2, Became

LEMMA CreateThen ==
  ASSUME BaseInv, NEW t \in Threads, LoadNumber(t) \/ StoreNumber(t)
  PROVE  Busy(t) /\ call[t].do = "create" /\ call[t].at \in {"start", "loaded"}
         /\ Busy(t)' /\ call'[t].at \in {"loaded", "stored"} /\ call'[t].walk = call[t].walk
<1>1. CASE LoadNumber(t)
  <2> DEFINE c == [call[t] EXCEPT !.at = "loaded", !.ino = next_ino]
  <2>1. /\ Busy(t) /\ call[t].do = "create" /\ call[t].at = "start"
        /\ c \in Calls /\ call' = [call EXCEPT ![t] = c]
    BY <1>1, LoadNumberIs
  <2>2. c.at = "loaded" /\ c.walk = call[t].walk
    BY <2>1, CallIs DEF Calls
  <2> HIDE DEF c
  <2> QED
    BY <2>1, <2>2, Became
<1>2. CASE StoreNumber(t)
  <2> DEFINE c == [call[t] EXCEPT !.at = "stored"]
  <2>1. /\ Busy(t) /\ call[t].do = "create" /\ call[t].at = "loaded"
        /\ c \in Calls /\ call' = [call EXCEPT ![t] = c]
    BY <1>2, StoreNumberIs
  <2>2. c.at = "stored" /\ c.walk = call[t].walk
    BY <2>1, CallIs DEF Calls
  <2> HIDE DEF c
  <2> QED
    BY <2>1, <2>2, Became
<1> QED
  BY <1>1, <1>2

LEMMA HandlerKeepsStage ==
  ASSUME BaseInv, InStage, NEW t \in Threads, Handler(t)
  PROVE  InStage'
<1>1. Busy(t) /\ Goes(t)
  BY HandlerGoes
<1>2. /\ call[t].at \in {"found", "added", "count"} => call[t].do # "create"
      /\ call[t].at \notin {"count", "remove"} => call[t].walk = 0
  BY <1>1 DEF InStage
<1>3. Return(t) => ~Busy(t)'
  BY ReturnIs
<1> DEFINE Good == Busy(t)' => /\ call'[t].at \in {"found", "added", "count"} => call'[t].do # "create"
                               /\ call'[t].at \notin {"count", "remove"} => call'[t].walk = 0
<1>4. CASE LoadNumber(t) \/ StoreNumber(t)
  <2>1. Good
    BY <1>2, <1>4, CreateThen
  <2> QED
    BY <1>1, <2>1 DEF InStage, Goes, Busy
<1>5. CASE ~ (LoadNumber(t) \/ StoreNumber(t))
  <2>1. CreateFile(t) => Good
    BY <1>2, <1>3, CreateFileThen, CreateFileIs
  <2>2. Linked(t) => ~Busy(t)'
    BY <1>3, LinkedIs
  <2>3. FindMain(t) => Good
    BY <1>2, <1>3, FindMainThen, FindMainIs
  <2>4. AddLink(t) => Good
    BY <1>2, <1>3, AddLinkThen, AddLinkIs
  <2>5. ReadCount(t) => Good
    BY <1>2, <1>3, ReadCountThen, ReadCountIs
  <2>6. RemoveName(t) => Good
    BY <1>2, <1>3, RemoveNameThen, RemoveNameIs
  <2>7. UpdateNlink(t) => Good
    BY <1>2, <1>3, UpdateNlinkThen, UpdateNlinkIs
  <2>8. FreeEntry(t) => Good
    BY <1>3, FreeEntryThen
  <2>9. RemoveAll(t) => Good
    BY <1>3, RemoveAllThen
  <2>10. RemoveFile(t) => ~Busy(t)'
    BY <1>3, RemoveFileIs
  <2>11. Good
    BY <1>5, <2>1, <2>2, <2>3, <2>4, <2>5, <2>6, <2>7, <2>8, <2>9, <2>10 DEF Handler
  <2> QED
    BY <1>1, <2>11 DEF InStage, Goes, Busy
<1> QED
  BY <1>4, <1>5

-----------------------------------------------------------------------------
(* The entry that a create has put into the list *)

\* The name is free until then; while the inode is allocated, the entry is the only one
\* with the name, and the only one with the number.
Making(t) ==
  call[t].do = "create" =>
    /\ call[t].at # "listed" => At(call[t].dir, call[t].name) = {}
    /\ call[t].at = "listed" =>
         /\ At(call[t].dir, call[t].name) # {}
         /\ At(call[t].dir, call[t].name) = LinksOf(call[t].ino)
         /\ \A k \in DOMAIN dentry : number[dentry[k]] # call[t].ino

Makings == \A t \in Threads : Busy(t) => Making(t)

\* Nobody works on the number.
LEMMA OnlyMaker ==
  ASSUME Tables, NEW t \in Threads, Busy(t), Making(t),
         call[t].do = "create", call[t].at = "listed",
         NEW u \in Threads, Working(u)
  PROVE  call[u].ino # call[t].ino
BY WorkerSees DEF Making

LEMMA OthersMaking ==
  ASSUME BaseInv, Tables, Numbers, InStage, Makings, NEW t \in Threads, Handler(t),
         NEW u \in Threads, u # t, Busy(u)
  PROVE  Making(u)'
<1>1. Busy(t) /\ call'[u] = call[u]
  BY HandlerGoes DEF Goes
<1>2. call[u].dir # call[t].dir /\ Making(u)
  BY <1>1 DEF Tables, Locked, Makings
<1> DEFINE x == call[u].ino
           d == call[u].dir
           n == call[u].name
<1> SUFFICES ASSUME call[u].do = "create"
             PROVE  Making(u)'
  BY <1>1 DEF Making
<1>3. \A e \in listed' : file'[e].dir = d /\ file'[e].name = n => e \in At(d, n)
  BY <1>2, EntrySteps DEF At
<1>4. CASE call[u].at # "listed"
  <2>1. At(d, n) = {}
    BY <1>2, <1>4 DEF Making
  <2>2. {e \in listed' : file'[e].dir = d /\ file'[e].name = n} = {}
    BY <1>3, <2>1
  <2> QED
    BY <1>1, <1>4, <2>2 DEF Making, At
<1>5. CASE call[u].at = "listed"
  <2>1. /\ At(d, n) # {} /\ At(d, n) = LinksOf(x)
        /\ \A k \in DOMAIN dentry : number[dentry[k]] # x
    BY <1>2, <1>5 DEF Making
  <2>2. Known(x)
    BY <2>1 DEF LinksOf, Known
  <2>3. Working(t) => call[t].ino # x
    BY <1>2, <1>5, OnlyMaker
  <2>4. CreateFile(t) => call[t].ino # x
    BY <2>2, NumberSteps DEF Numbers
  <2>5. AddLink(t) => Working(t)
    BY AddLinkIs DEF Working
  <2> DEFINE rest == {e \in listed' : file'[e].ino = x}
  <2>6. ASSUME NEW e \in LinksOf(x)
        PROVE  /\ e \in listed' /\ file'[e].ino = x
               /\ file'[e].dir = d /\ file'[e].name = n
    <3>1. e \in listed /\ file[e].ino = x /\ file[e].dir = d /\ file[e].name = n
      BY <2>1 DEF LinksOf, At
    <3>2. e \in listed'
      BY <1>2, <2>3, <3>1, EntrySteps
    <3> QED
      BY <3>1, <3>2, EntrySteps
  <2>7. ASSUME NEW e \in rest
        PROVE  e \in LinksOf(x)
    BY <2>3, <2>4, <2>5, EntrySteps DEF LinksOf
  <2>8. rest = LinksOf(x)
    BY <2>6, <2>7
  <2>9. {e \in listed' : file'[e].dir = d /\ file'[e].name = n} = LinksOf(x)
    BY <1>3, <2>1, <2>6
  <2>10. \A k \in DOMAIN dentry' : number'[dentry'[k]] # x
    BY <2>1, <2>4, DentryNumbers
  <2>11. /\ At(call[u].dir, call[u].name)' = LinksOf(x)
         /\ LinksOf(call[u].ino)' = LinksOf(x)
    BY <1>1, <2>8, <2>9 DEF At, LinksOf
  <2> HIDE DEF x, d, n, rest
  <2>12. /\ At(call[u].dir, call[u].name)' # {}
         /\ At(call[u].dir, call[u].name)' = LinksOf(call[u].ino)'
    BY <2>1, <2>11
  <2> QED
    BY <1>1, <1>5, <2>10, <2>12 DEF Making, x
<1> QED
  BY <1>4, <1>5

LEMMA OwnMaking ==
  ASSUME BaseInv, Tables, Numbers, InStage, Makings, NEW t \in Threads, Handler(t), Busy(t)'
  PROVE  Making(t)'
<1>1. Busy(t) /\ Goes(t)
  BY HandlerGoes
<1>2. /\ call'[t].do = call[t].do /\ call'[t].dir = call[t].dir
      /\ call'[t].name = call[t].name
  BY <1>1 DEF Goes, Busy
<1> DEFINE d == call[t].dir
           n == call[t].name
<1> SUFFICES ASSUME call[t].do = "create"
             PROVE  Making(t)'
  BY <1>2 DEF Making
<1>3. Making(t)
  BY <1>1 DEF Makings
<1>4. CASE LoadNumber(t) \/ StoreNumber(t)
  <2>1. call[t].at # "listed" /\ call'[t].at # "listed"
    BY <1>4, CreateThen
  <2>2. UNCHANGED <<file, listed>>
    BY <1>4 DEF LoadNumber, StoreNumber
  <2>3. At(call[t].dir, call[t].name)' = {}
    BY <1>2, <1>3, <2>1, <2>2 DEF Making, At
  <2> QED
    BY <2>1, <2>3 DEF Making
<1>5. CASE CreateFile(t)
  <2>1. ~Return(t)
    BY ReturnIs
  <2>2. /\ call'[t].at = "listed" /\ call'[t].ino = call[t].ino
        /\ UNCHANGED <<dentry, number>>
    BY <1>5, <2>1, CreateFileThen
  <2>3. PICK e \in NewEntries : /\ file' = Add(e, d, n, call[t].ino, 1)
                                /\ listed' = listed \cup {e}
    BY <1>5, <2>1, CreateFileIs
  <2>4. /\ file'[e] = [dir |-> d, name |-> n, ino |-> call[t].ino, nlink |-> 1]
        /\ \A k \in DOMAIN file : k # e => file'[k] = file[k]
    BY <2>3 DEF Add
  <2>5. \A k \in listed : k \in DOMAIN file /\ k # e
    BY FilesTyped DEF NewEntries
  <2>6. At(d, n) = {}
    BY <1>3, <1>5, CreateFileIs DEF Making
  <2>7. Stored(t)
    BY <1>1, <1>5, CreateFileIs DEF Stored, Doing
  <2>8. ~Known(call[t].ino)
    BY <2>7 DEF Numbers
  <2>9. At(call[t].dir, call[t].name)' = {e}
    BY <1>2, <2>3, <2>4, <2>5, <2>6 DEF At
  <2>10. LinksOf(call[t].ino)' = {e}
    BY <2>2, <2>3, <2>4, <2>5, <2>8 DEF LinksOf, Known
  <2>11. \A k \in DOMAIN dentry' : number'[dentry'[k]] # call'[t].ino
    BY <2>2, <2>8 DEF Known
  <2> QED
    BY <2>2, <2>9, <2>10, <2>11 DEF Making
<1>6. CASE RemoveFile(t)
  BY <1>6, RemoveFileIs, ReturnIs
<1> QED
  BY <1>4, <1>5, <1>6, CreateSteps

LEMMA HandlerKeepsMakings ==
  ASSUME BaseInv, Tables, Numbers, InStage, Makings, NEW t \in Threads, Handler(t)
  PROVE  Makings'
<1>1. \A u \in Threads : u # t => (Busy(u)' <=> Busy(u))
  BY HandlerGoes DEF Goes, Busy
<1>2. ASSUME NEW u \in Threads, Busy(u)'
      PROVE  Making(u)'
  BY <1>1, <1>2, OthersMaking, OwnMaking
<1> QED
  BY <1>2 DEF Makings

\* Steps that change neither an entry nor the numbers that dentries lead to
LEMMA QuietMaking ==
  ASSUME UNCHANGED <<file, listed>>, NEW t \in Threads, Making(t), call'[t] = call[t],
         \A k \in DOMAIN dentry' : k \in DOMAIN dentry /\ number'[dentry'[k]] = number[dentry[k]]
  PROVE  Making(t)'
<1>1. /\ At(call[t].dir, call[t].name)' = At(call[t].dir, call[t].name)
      /\ LinksOf(call[t].ino)' = LinksOf(call[t].ino)
  BY DEF At, LinksOf
<1> QED
  BY <1>1 DEF Making

LEMMA StartKeepsMakings ==
  ASSUME BaseInv, Makings, NEW t \in Threads, Start(t)
  PROVE  Makings'
<1>1. ~Busy(t) /\ UNCHANGED <<file, listed, next_ino, dentry, number>>
  BY StartIs
<1>2. PICK do \in {"create", "link", "unlink"}, d \in Dirs, n \in Names, o \in Objects :
        Starts(t, do, d, n, o)
  BY StartIs
<1>3. /\ call'[t] = NewCall(do, d, n, o)
      /\ \A u \in Threads : u # t => call'[u] = call[u]
  BY <1>2, CallTyped DEF BaseInv, Starts
<1>4. /\ call'[t].do = do /\ call'[t].at = "start" /\ call'[t].dir = d /\ call'[t].name = n
  BY <1>3 DEF NewCall
<1>5. do = "create" => At(d, n) = {}
  BY <1>2 DEF Starts
<1>6. Making(t)'
  BY <1>1, <1>4, <1>5 DEF Making, At
<1>7. ASSUME NEW u \in Threads, u # t, Busy(u)'
      PROVE  Making(u)'
  BY <1>1, <1>3, <1>7, QuietMaking DEF Makings, Busy
<1> QED
  BY <1>6, <1>7 DEF Makings

LEMMA LookupKeepsMakings ==
  ASSUME BaseInv, Tables, Makings, Lookup, OneObject'
  PROVE  Makings'
<1>1. UNCHANGED <<file, listed, call>>
  BY DEF Lookup
<1>2. \A k \in DOMAIN dentry' : k \in DOMAIN dentry /\ number'[dentry'[k]] = number[dentry[k]]
  BY LookupKeepsTables
<1> QED
  BY <1>1, <1>2, QuietMaking DEF Makings, Busy

-----------------------------------------------------------------------------
(* The counts *)

Links(x) == Cardinality(LinksOf(x))

\* A thread between the change of the tree and the end of the walk that passes the count on
Settling(t, x) == /\ Working(t) /\ call[t].ino = x
                  /\ call[t].at \in {"added", "count", "remove"}

\* What a thread at work on a number knows
Progress(t) ==
  /\ call[t].at \in {"found", "added"} => call[t].main \in LinksOf(call[t].ino)
  /\ call[t].at = "added" => file[call[t].main].nlink = Links(call[t].ino)
  /\ call[t].at = "count" => /\ call[t].nlink = Links(call[t].ino)
                             /\ \A e \in LinksOf(call[t].ino) :
                                  file[e].dir < call[t].walk => file[e].nlink = call[t].nlink
  /\ call[t].at = "remove" => LinksOf(call[t].ino) = {}

CountRight(x) ==
  /\ (\A t \in Threads : ~Settling(t, x)) => \A e \in LinksOf(x) : file[e].nlink = Links(x)
  /\ \A t \in Threads : Working(t) /\ call[t].ino = x => Progress(t)

CountsRight == \A x \in Nat : CountRight(x)

\* The entries with a number stay as they are.
SameLinks(x) == LinksOf(x)' = LinksOf(x) /\ \A e \in LinksOf(x) : file'[e] = file[e]

\* A step of a thread that does not settle this number leaves its count right.
LEMMA FrameCounts ==
  ASSUME NEW x, CountRight(x), NEW t \in Threads, SameLinks(x),
         \A u \in Threads : u # t => call'[u] = call[u],
         ~Settling(t, x), ~Settling(t, x)',
         Working(t)' /\ call'[t].ino = x => Progress(t)'
  PROVE  CountRight(x)'
<1>1. \A u \in Threads : u # t => (Settling(u, x)' <=> Settling(u, x))
  BY DEF Settling, Working, Busy
<1>2. Links(x)' = Links(x)
  BY DEF SameLinks, Links
<1>3. ASSUME \A u \in Threads : ~Settling(u, x)'
      PROVE  \A e \in LinksOf(x)' : file'[e].nlink = Links(x)'
  <2>1. \A u \in Threads : ~Settling(u, x)
    BY <1>1, <1>3
  <2> QED
    BY <1>2, <2>1 DEF CountRight, SameLinks
<1>4. ASSUME NEW u \in Threads, Working(u)', call'[u].ino = x, u # t
      PROVE  Progress(u)'
  <2>1. call'[u] = call[u] /\ Working(u) /\ call[u].ino = x
    BY <1>4 DEF Working, Busy
  <2>2. Progress(u)
    BY <2>1 DEF CountRight
  <2>3. LinksOf(call[u].ino)' = LinksOf(call[u].ino) /\ Links(call[u].ino)' = Links(call[u].ino)
    <3>1. LinksOf(call[u].ino)' = LinksOf(x)'
      BY <2>1 DEF LinksOf
    <3> QED
      BY <1>2, <2>1, <3>1 DEF SameLinks, Links
  <2>4. \A e \in LinksOf(call[u].ino) : file'[e] = file[e]
    BY <2>1 DEF SameLinks
  <2>5. call[u].main \in LinksOf(call[u].ino) => file'[call[u].main] = file[call[u].main]
    BY <2>4
  <2> QED
    BY <2>1, <2>2, <2>3, <2>4, <2>5 DEF Progress
<1>5. ASSUME NEW u \in Threads, Working(u)', call'[u].ino = x
      PROVE  Progress(u)'
  BY <1>4, <1>5
<1> QED
  BY <1>3, <1>5 DEF CountRight

\* A step of the only thread at work on a number
LEMMA WorkerCounts ==
  ASSUME NEW x, NEW t \in Threads,
         \A u \in Threads : u # t => call'[u] = call[u],
         \A u \in Threads : u # t => ~ (Working(u) /\ call[u].ino = x),
         Settling(t, x)' \/ \A e \in LinksOf(x)' : file'[e].nlink = Links(x)',
         Working(t)' /\ call'[t].ino = x => Progress(t)'
  PROVE  CountRight(x)'
<1>1. \A u \in Threads : u # t => ~ (Working(u)' /\ call'[u].ino = x)
  BY DEF Working, Busy
<1>2. (\A u \in Threads : ~Settling(u, x)') => \A e \in LinksOf(x)' : file'[e].nlink = Links(x)'
  OBVIOUS
<1>3. \A u \in Threads : Working(u)' /\ call'[u].ino = x => Progress(u)'
  BY <1>1
<1> QED
  BY <1>2, <1>3 DEF CountRight

\* What holds in the steps of ApartSpec
ApartInv == BaseInv /\ Tables /\ Numbers /\ InStage /\ OneCounting /\ Makings /\ CountsRight

LEMMA OnlyWorker ==
  ASSUME ApartInv, NEW t \in Threads, Working(t), NEW x, call[t].ino = x
  PROVE  \A u \in Threads : u # t => ~ (Working(u) /\ call[u].ino = x)
BY Exclusive DEF ApartInv

LEMMA RightCount ==
  ASSUME ApartInv, NEW x \in Nat
  PROVE  CountRight(x)
BY DEF ApartInv, CountsRight

LEMMA RightProgress ==
  ASSUME ApartInv, NEW t \in Threads, Working(t)
  PROVE  Progress(t)
<1>1. call[t].ino \in Nat
  BY CallIs DEF ApartInv, Working
<1> QED
  BY <1>1 DEF ApartInv, CountsRight, CountRight

\* A thread that is not at work
LEMMA NotWorking ==
  ASSUME NEW t \in Threads, ~Working(t)
  PROVE  \A x : ~Settling(t, x)
BY DEF Settling

LEMMA SameFiles ==
  ASSUME UNCHANGED <<file, listed>>, NEW x
  PROVE  SameLinks(x)
BY DEF SameLinks, LinksOf

\* A handler that returns without having changed the tree
LEMMA ReturnCounts ==
  ASSUME ApartInv, NEW t \in Threads, Busy(t), Return(t), UNCHANGED <<file, listed>>,
         call[t].at \notin {"added", "count", "remove"}, NEW x \in Nat
  PROVE  CountRight(x)'
<1>1. ~Busy(t)' /\ \A u \in Threads : u # t => call'[u] = call[u]
  BY ReturnIs DEF ApartInv
<1>2. ~Settling(t, x) /\ ~Settling(t, x)' /\ ~Working(t)'
  BY <1>1 DEF Settling, Working
<1> QED
  BY <1>1, <1>2, RightCount, SameFiles, FrameCounts

LEMMA CreateNumberCounts ==
  ASSUME ApartInv, NEW t \in Threads, LoadNumber(t) \/ StoreNumber(t), NEW x \in Nat
  PROVE  CountRight(x)'
<1>1. UNCHANGED <<file, listed>>
  BY DEF LoadNumber, StoreNumber
<1>2. /\ Busy(t) /\ call[t].do = "create"
      /\ Busy(t)' /\ call'[t].at \in {"loaded", "stored"}
  BY CreateThen DEF ApartInv
<1>3. Goes(t)
  BY HandlerGoes DEF ApartInv, Handler
<1>4. call'[t].do = "create" /\ \A u \in Threads : u # t => call'[u] = call[u]
  BY <1>2, <1>3 DEF Goes, Busy
<1>5. ~Working(t)' /\ ~Settling(t, x) /\ ~Settling(t, x)'
  BY <1>2, <1>4 DEF Settling, Working
<1> QED
  BY <1>1, <1>4, <1>5, RightCount, SameFiles, FrameCounts

\* The first entry of a new number has the count 1.
LEMMA CreateFileCounts ==
  ASSUME ApartInv, NEW t \in Threads, CreateFile(t), NEW x \in Nat
  PROVE  CountRight(x)'
<1>1. Busy(t) /\ call[t].do = "create" /\ call[t].at = "stored"
  BY CreateFileIs DEF ApartInv
<1>2. CASE Return(t) /\ UNCHANGED <<file, listed>>
  BY <1>1, <1>2, ReturnCounts
<1>3. CASE ~ (Return(t) /\ UNCHANGED <<file, listed>>)
  <2>1. PICK e \in NewEntries :
          /\ file' = Add(e, call[t].dir, call[t].name, call[t].ino, 1)
          /\ listed' = listed \cup {e}
    BY <1>3, CreateFileIs DEF ApartInv
  <2>2. /\ file'[e].ino = call[t].ino /\ file'[e].nlink = 1
        /\ \A k \in DOMAIN file : k # e => file'[k] = file[k]
    BY <2>1 DEF Add
  <2>3. e \notin listed /\ \A k \in listed : k \in DOMAIN file /\ k # e
    BY FilesTyped DEF NewEntries, ApartInv
  <2>4. /\ Busy(t)' => call'[t].do = "create"
        /\ \A u \in Threads : u # t => call'[u] = call[u]
    BY <1>1, HandlerGoes DEF ApartInv, Handler, Goes, Busy
  <2>5. ~Working(t)' /\ ~Settling(t, x) /\ ~Settling(t, x)'
    BY <1>1, <2>4 DEF Settling, Working
  <2>6. CASE x # call[t].ino
    <3>1. LinksOf(x)' = LinksOf(x)
      BY <2>1, <2>2, <2>3, <2>6 DEF LinksOf
    <3>2. \A k \in LinksOf(x) : file'[k] = file[k]
      BY <2>2, <2>3 DEF LinksOf
    <3>3. SameLinks(x)
      BY <3>1, <3>2 DEF SameLinks
    <3> QED
      BY <2>4, <2>5, <3>3, RightCount, FrameCounts
  <2>7. CASE x = call[t].ino
    <3>1. Stored(t)
      BY <1>1 DEF Stored, Doing
    <3>2. \A k \in listed : file[k].ino # x
      BY <2>7, <3>1 DEF ApartInv, Numbers, Known
    <3>3. LinksOf(x)' = {e}
      BY <2>1, <2>2, <2>3, <2>7, <3>2 DEF LinksOf
    <3>4. Cardinality({e}) = 1
      BY FS_Singleton
    <3>5. \A k \in LinksOf(x)' : file'[k].nlink = Links(x)'
      BY <2>2, <3>3, <3>4 DEF Links
    <3>6. \A u \in Threads : ~ (Working(u) /\ call[u].ino = x)
      BY <2>7, <3>1, NotCreating DEF ApartInv
    <3> QED
      BY <2>4, <2>5, <3>5, <3>6, WorkerCounts
  <2> QED
    BY <2>6, <2>7
<1> QED
  BY <1>2, <1>3

\* The entry that vtfs_remove_file frees was the only one with its number.
LEMMA RemoveFileCounts ==
  ASSUME ApartInv, NEW t \in Threads, RemoveFile(t), NEW x \in Nat
  PROVE  CountRight(x)'
<1> DEFINE gone == At(call[t].dir, call[t].name)
<1>1. /\ Busy(t) /\ call[t].do = "create" /\ call[t].at = "listed" /\ Return(t)
      /\ file' = Without(gone) /\ listed' = listed \ gone
  BY RemoveFileIs DEF ApartInv
<1>2. Making(t)
  BY <1>1 DEF ApartInv, Makings
<1>3. gone = LinksOf(call[t].ino)
  BY <1>1, <1>2 DEF Making
<1> HIDE DEF gone
<1>4. listed' = listed \ LinksOf(call[t].ino) /\ \A e \in listed' : file'[e] = file[e]
  <2>1. listed \subseteq DOMAIN file
    BY FilesTyped DEF ApartInv
  <2>2. \A k \in DOMAIN file \ gone : file'[k] = file[k]
    BY <1>1, WithoutIs
  <2> QED
    BY <1>1, <1>3, <2>1, <2>2
<1>5. ~Busy(t)' /\ \A u \in Threads : u # t => call'[u] = call[u]
  BY <1>1, ReturnIs DEF ApartInv
<1>6. ~Working(t)' /\ ~Settling(t, x) /\ ~Settling(t, x)'
  BY <1>1, <1>5 DEF Settling, Working
<1>7. CASE x # call[t].ino
  <2>1. SameLinks(x)
    BY <1>4, <1>7 DEF SameLinks, LinksOf
  <2> QED
    BY <1>5, <1>6, <2>1, RightCount, FrameCounts
<1>8. CASE x = call[t].ino
  <2>1. LinksOf(x)' = {}
    BY <1>4, <1>8 DEF LinksOf
  <2>2. \A u \in Threads : ~ (Working(u) /\ call[u].ino = x)
    BY <1>1, <1>2, <1>8, OnlyMaker DEF ApartInv
  <2> QED
    BY <1>5, <1>6, <2>1, <2>2, WorkerCounts
<1> QED
  BY <1>7, <1>8

\* What a thread at work changes, seen from another number
LEMMA OtherCounts ==
  ASSUME ApartInv, NEW t \in Threads, Working(t), Goes(t), NEW x \in Nat, x # call[t].ino,
         SameLinks(x)
  PROVE  CountRight(x)'
<1>1. /\ \A u \in Threads : u # t => call'[u] = call[u]
      /\ call'[t] = Idle \/ call'[t].ino = call[t].ino
  BY DEF Goes, Working
<1>2. Working(t)' => call'[t].ino # x
  BY <1>1 DEF Working, Busy
<1>3. ~Settling(t, x) /\ ~Settling(t, x)'
  BY <1>2 DEF Settling
<1> QED
  BY <1>1, <1>2, <1>3, RightCount, FrameCounts

LEMMA FindMainCounts ==
  ASSUME ApartInv, NEW t \in Threads, FindMain(t), NEW x \in Nat
  PROVE  CountRight(x)'
<1>1. /\ Busy(t) /\ call[t].do \in {"link", "unlink"} /\ call[t].at = "start"
      /\ UNCHANGED <<file, listed>>
  BY FindMainIs DEF ApartInv
<1>2. CASE Return(t)
  BY <1>1, <1>2, ReturnCounts
<1>3. CASE ~Return(t)
  <2>1. /\ call'[t].at = "found" /\ call'[t].ino = call[t].ino
        /\ call'[t].main = First(call[t].ino)
    BY <1>3, FindMainThen DEF ApartInv
  <2>2. First(call[t].ino) \in LinksOf(call[t].ino)
    BY <1>3, FindMainIs DEF ApartInv
  <2>3. Goes(t)
    BY HandlerGoes DEF ApartInv, Handler
  <2>4. ~Settling(t, x) /\ ~Settling(t, x)'
    BY <1>1, <2>1 DEF Settling
  <2>5. LinksOf(call[t].ino)' = LinksOf(call[t].ino)
    BY <1>1, <2>1 DEF LinksOf
  <2>6. Progress(t)'
    BY <2>1, <2>2, <2>5 DEF Progress
  <2> QED
    BY <1>1, <2>3, <2>4, <2>6, RightCount, SameFiles, FrameCounts DEF Goes
<1> QED
  BY <1>2, <1>3

LEMMA UnchangedCounts ==
  ASSUME CountsRight, UNCHANGED <<file, listed, call>>
  PROVE  CountsRight'
<1>1. \A x : LinksOf(x)' = LinksOf(x) /\ Links(x)' = Links(x)
  BY DEF LinksOf, Links
<1>2. \A t \in Threads : Working(t)' <=> Working(t)
  BY DEF Working, Busy
<1>3. \A t \in Threads, x \in Nat : Settling(t, x)' <=> Settling(t, x)
  BY <1>2 DEF Settling
<1>4. \A t \in Threads : Progress(t) => Progress(t)'
  BY DEF Progress, Links, LinksOf
<1>5. ASSUME NEW x \in Nat
      PROVE  CountRight(x)'
  <2>1. CountRight(x)
    BY DEF CountsRight
  <2>2. \A t \in Threads : Working(t)' /\ call'[t].ino = x => Progress(t)'
    BY <1>2, <1>4, <2>1 DEF CountRight
  <2>3. (\A t \in Threads : ~Settling(t, x)') => \A e \in LinksOf(x)' : file'[e].nlink = Links(x)'
    BY <1>1, <1>3, <2>1 DEF CountRight
  <2> QED
    BY <2>2, <2>3 DEF CountRight
<1> QED
  BY <1>5 DEF CountsRight

\* The new entry and the first get the count that the number has now.
LEMMA AddLinkCounts ==
  ASSUME ApartInv, NEW t \in Threads, AddLink(t), NEW x \in Nat
  PROVE  CountRight(x)'
<1>1. Busy(t) /\ call[t].do = "link" /\ call[t].at = "found" /\ Working(t)
  BY AddLinkIs DEF ApartInv, Working
<1>2. Goes(t)
  BY HandlerGoes DEF ApartInv, Handler
<1>3. CASE Return(t) /\ UNCHANGED <<file, listed>>
  BY <1>1, <1>3, ReturnCounts
<1>4. CASE ~ (Return(t) /\ UNCHANGED <<file, listed>>)
  <2>1. PICK e \in NewEntries, n \in CountsAt(call[t].main) :
          /\ listed' = listed \cup {e}
          /\ DOMAIN file' = DOMAIN file \cup {e}
          /\ file'[e] = [dir |-> call[t].dir, name |-> call[t].name,
                         ino |-> call[t].ino, nlink |-> n + 1]
          /\ \A k \in DOMAIN file : k # e =>
               file'[k] = IF k = call[t].main THEN [file[k] EXCEPT !.nlink = n + 1]
                                              ELSE file[k]
    BY <1>4, AddLinkIs DEF ApartInv
  <2>2. e \notin listed /\ \A k \in listed : k \in DOMAIN file /\ k # e /\ file[k] \in Entry
    BY FilesTyped DEF NewEntries, ApartInv
  <2>3. call[t].main \in LinksOf(call[t].ino)
    BY <1>1, RightProgress DEF Progress
  <2>4. call[t].main \in listed /\ file[call[t].main].ino = call[t].ino
    BY <2>3 DEF LinksOf
  <2>5. file'[e].ino = call[t].ino /\ file'[e].nlink = n + 1
    BY <2>1
  <2>6. \A k \in listed : k # call[t].main => file'[k] = file[k]
    BY <2>1, <2>2
  <2>7. file'[call[t].main] = [file[call[t].main] EXCEPT !.nlink = n + 1]
    BY <2>1, <2>2, <2>4
  <2>8. file'[call[t].main].ino = call[t].ino /\ file'[call[t].main].nlink = n + 1
    BY <2>2, <2>4, <2>7 DEF Entry
  <2>9. CASE x # call[t].ino
    <3>1. LinksOf(x)' = LinksOf(x)
      BY <2>1, <2>2, <2>4, <2>5, <2>6, <2>8, <2>9 DEF LinksOf
    <3>2. \A k \in LinksOf(x) : file'[k] = file[k]
      BY <2>4, <2>6, <2>9 DEF LinksOf
    <3>3. SameLinks(x)
      BY <3>1, <3>2 DEF SameLinks
    <3> QED
      BY <1>1, <1>2, <2>9, <3>3, OtherCounts
  <2>10. CASE x = call[t].ino
    <3>1. LinksOf(x)' = LinksOf(x) \cup {e}
      BY <2>1, <2>2, <2>4, <2>5, <2>6, <2>8, <2>10 DEF LinksOf
    <3>2. e \notin LinksOf(x) /\ IsFiniteSet(LinksOf(x))
      BY <2>2, LinksTyped DEF LinksOf, ApartInv
    <3>3. Links(x)' = Links(x) + 1
      BY <3>1, <3>2, FS_AddElement DEF Links
    <3>4. \A u \in Threads : u # t => ~ (Working(u) /\ call[u].ino = x)
      BY <1>1, <2>10, OnlyWorker
    <3>5. \A u \in Threads : ~Settling(u, x)
      BY <1>1, <3>4 DEF Settling
    <3>6. file[call[t].main].nlink = Links(x)
      BY <2>3, <2>10, <3>5, RightCount DEF CountRight
    <3>7. n = file[call[t].main].nlink
      BY <2>2, <2>4 DEF CountsAt
    <3>8. /\ Busy(t)' /\ call'[t].at = "added" /\ call'[t].do = "link"
          /\ call'[t].ino = x /\ call'[t].main = call[t].main
      BY <1>1, <1>4, <2>10, AddLinkThen DEF ApartInv
    <3>9. Settling(t, x)'
      BY <3>8 DEF Settling, Working
    <3>10. call'[t].main \in LinksOf(x)' /\ file'[call'[t].main].nlink = Links(x)'
      BY <2>3, <2>8, <2>10, <3>1, <3>3, <3>6, <3>7, <3>8
    <3>11. LinksOf(call[t].ino)' = LinksOf(x)' /\ Links(call[t].ino)' = Links(x)'
      BY <3>8 DEF LinksOf, Links
    <3>12. Progress(t)'
      BY <3>8, <3>10, <3>11 DEF Progress
    <3>13. \A u \in Threads : u # t => call'[u] = call[u]
      BY <1>2 DEF Goes
    <3> QED
      BY <3>4, <3>9, <3>12, <3>13, WorkerCounts
  <2> QED
    BY <2>9, <2>10
<1> QED
  BY <1>3, <1>4

\* The count that vtfs_link reads again is the right one.
LEMMA ReadCountCounts ==
  ASSUME ApartInv, NEW t \in Threads, ReadCount(t), NEW x \in Nat
  PROVE  CountRight(x)'
<1>1. /\ Busy(t) /\ call[t].do = "link" /\ call[t].at = "added" /\ Working(t)
      /\ UNCHANGED <<file, listed>>
  BY ReadCountIs DEF ApartInv, Working
<1>2. Goes(t)
  BY HandlerGoes DEF ApartInv, Handler
<1>3. CASE x # call[t].ino
  BY <1>1, <1>2, <1>3, SameFiles, OtherCounts
<1>4. CASE x = call[t].ino
  <2>1. /\ Busy(t)' /\ call'[t].at = "count" /\ call'[t].walk = call[t].walk
        /\ call'[t].do = "link" /\ call'[t].ino = x
        /\ call'[t].nlink \in CountsAt(call[t].main)
    BY <1>1, <1>4, ReadCountThen DEF ApartInv
  <2>2. call[t].walk = 0
    BY <1>1 DEF ApartInv, InStage
  <2>3. call[t].main \in LinksOf(x) /\ file[call[t].main].nlink = Links(x)
    BY <1>1, <1>4, RightProgress DEF Progress
  <2>4. call[t].main \in DOMAIN file
    BY <2>3, FilesTyped DEF LinksOf, ApartInv
  <2>5. call'[t].nlink = Links(x)
    BY <2>1, <2>3, <2>4 DEF CountsAt
  <2>6. LinksOf(call[t].ino)' = LinksOf(x) /\ Links(call[t].ino)' = Links(x)
    BY <1>1, <2>1 DEF LinksOf, Links
  <2>7. \A k \in LinksOf(x) : file[k].dir \in Nat
    BY LinksTyped, NumbersAssumption DEF Entry, Dirs, ApartInv
  <2>8. Progress(t)'
    BY <1>1, <2>1, <2>2, <2>5, <2>6, <2>7 DEF Progress
  <2>9. Settling(t, x)'
    BY <2>1 DEF Settling, Working
  <2>10. \A u \in Threads : u # t => ~ (Working(u) /\ call[u].ino = x)
    BY <1>1, <1>4, OnlyWorker
  <2>11. \A u \in Threads : u # t => call'[u] = call[u]
    BY <1>2 DEF Goes
  <2> QED
    BY <2>8, <2>9, <2>10, <2>11, WorkerCounts
<1> QED
  BY <1>3, <1>4

\* The entry that is taken out leaves one link less.
LEMMA RemoveNameCounts ==
  ASSUME ApartInv, NEW t \in Threads, RemoveName(t), NEW x \in Nat
  PROVE  CountRight(x)'
<1>1. /\ Busy(t) /\ call[t].do = "unlink" /\ call[t].at = "found" /\ Working(t)
      /\ UNCHANGED file
  BY RemoveNameIs DEF ApartInv, Working
<1>2. Goes(t)
  BY HandlerGoes DEF ApartInv, Handler
<1>3. CASE Return(t) /\ UNCHANGED listed
  BY <1>1, <1>3, ReturnCounts
<1>4. CASE ~ (Return(t) /\ UNCHANGED listed)
  <2>1. /\ Busy(t)' /\ call'[t].at = "count" /\ call'[t].walk = call[t].walk
        /\ call'[t].do = "unlink" /\ call'[t].ino = call[t].ino
        /\ call'[t].nlink + 1 \in CountsAt(call[t].main)
    BY <1>1, <1>4, RemoveNameThen DEF ApartInv
  <2>2. PICK e \in listed : file[e].ino = call[t].ino /\ listed' = listed \ {e}
    BY <1>4, RemoveNameThen DEF ApartInv
  <2>3. CASE x # call[t].ino
    <3>1. SameLinks(x)
      BY <1>1, <2>2, <2>3 DEF SameLinks, LinksOf
    <3> QED
      BY <1>1, <1>2, <2>3, <3>1, OtherCounts
  <2>4. CASE x = call[t].ino
    <3>1. LinksOf(x)' = LinksOf(x) \ {e} /\ e \in LinksOf(x)
      BY <1>1, <2>2, <2>4 DEF LinksOf
    <3>2. IsFiniteSet(LinksOf(x)) /\ Links(x) \in Nat
      BY LinksTyped DEF ApartInv, Links
    <3>3. Links(x)' = Links(x) - 1
      BY <3>1, <3>2, FS_RemoveElement DEF Links
    <3>4. \A u \in Threads : u # t => ~ (Working(u) /\ call[u].ino = x)
      BY <1>1, <2>4, OnlyWorker
    <3>5. \A u \in Threads : ~Settling(u, x)
      BY <1>1, <3>4 DEF Settling
    <3>6. call[t].main \in LinksOf(x)
      BY <1>1, <2>4, RightProgress DEF Progress
    <3>7. file[call[t].main].nlink = Links(x)
      BY <3>5, <3>6, RightCount DEF CountRight
    <3>8. call[t].main \in DOMAIN file
      BY <3>6, FilesTyped DEF LinksOf, ApartInv
    <3>9. call'[t].nlink + 1 = Links(x)
      BY <2>1, <3>7, <3>8 DEF CountsAt
    <3>10. call'[t].nlink \in Int
      <4>1. BaseInv'
        BY RemoveNameKeepsBase DEF ApartInv
      <4> QED
        BY <2>1, <4>1 DEF BaseInv, TypeOK, Busy, Calls
    <3>11. call'[t].nlink = Links(x)'
      BY <3>2, <3>3, <3>9, <3>10
    <3>12. call'[t].walk = 0
      BY <1>1, <2>1 DEF ApartInv, InStage
    <3>13. LinksOf(call[t].ino)' = LinksOf(x)' /\ Links(call[t].ino)' = Links(x)'
      BY <2>1, <2>4 DEF LinksOf, Links
    <3>14. \A k \in LinksOf(x)' : file'[k].dir \in Nat
      BY <1>1, <3>1, LinksTyped, NumbersAssumption DEF Entry, Dirs, ApartInv
    <3>15. Progress(t)'
      BY <2>1, <3>11, <3>12, <3>13, <3>14 DEF Progress
    <3>16. Settling(t, x)'
      BY <2>1, <2>4 DEF Settling, Working
    <3>17. \A u \in Threads : u # t => call'[u] = call[u]
      BY <1>2 DEF Goes
    <3> QED
      BY <3>4, <3>15, <3>16, <3>17, WorkerCounts
  <2> QED
    BY <2>3, <2>4
<1> QED
  BY <1>3, <1>4

\* The walk through one directory
LEMMA UpdateNlinkCounts ==
  ASSUME ApartInv, NEW t \in Threads, UpdateNlink(t), NEW x \in Nat
  PROVE  CountRight(x)'
<1>1. /\ Busy(t) /\ call[t].at = "count" /\ call[t].walk \in Dirs
      /\ UNCHANGED listed /\ DOMAIN file' = DOMAIN file
      /\ \A e \in DOMAIN file :
           file'[e] = IF e \in LinksOf(call[t].ino) /\ file[e].dir = call[t].walk
                      THEN [file[e] EXCEPT !.nlink = call[t].nlink] ELSE file[e]
  BY UpdateNlinkIs DEF ApartInv
<1>2. call[t].do \in {"link", "unlink"} /\ Working(t)
  BY <1>1, CallIs DEF ApartInv, InStage, Working
<1>3. Goes(t)
  BY HandlerGoes DEF ApartInv, Handler
<1>4. /\ Busy(t)' /\ call'[t].at = "count" /\ call'[t].walk = call[t].walk + 1
      /\ call'[t].do = call[t].do /\ call'[t].ino = call[t].ino
      /\ call'[t].nlink = call[t].nlink
  BY UpdateNlinkThen DEF ApartInv
<1>5. ASSUME NEW e \in listed
      PROVE  /\ file'[e].ino = file[e].ino /\ file'[e].dir = file[e].dir
             /\ file[e].ino # call[t].ino => file'[e] = file[e]
             /\ file[e].dir # call[t].walk => file'[e] = file[e]
             /\ file[e].ino = call[t].ino /\ file[e].dir = call[t].walk
                  => file'[e].nlink = call[t].nlink
             /\ file[e].dir \in Nat
  <2>1. e \in DOMAIN file /\ file[e] \in Entry
    BY FilesTyped DEF ApartInv
  <2>2. e \in LinksOf(call[t].ino) <=> file[e].ino = call[t].ino
    BY DEF LinksOf
  <2>3. CASE file[e].ino = call[t].ino /\ file[e].dir = call[t].walk
    <3>1. file'[e] = [file[e] EXCEPT !.nlink = call[t].nlink]
      BY <1>1, <2>1, <2>2, <2>3
    <3> QED
      BY <2>1, <2>3, <3>1, NumbersAssumption DEF Entry, Dirs
  <2>4. CASE ~ (file[e].ino = call[t].ino /\ file[e].dir = call[t].walk)
    <3>1. file'[e] = file[e]
      BY <1>1, <2>1, <2>2, <2>4
    <3> QED
      BY <2>1, <2>4, <3>1, NumbersAssumption DEF Entry, Dirs
  <2> QED
    BY <2>3, <2>4
<1>6. LinksOf(x)' = LinksOf(x)
  BY <1>1, <1>5 DEF LinksOf
<1>7. CASE x # call[t].ino
  <2>1. SameLinks(x)
    BY <1>5, <1>6, <1>7 DEF SameLinks, LinksOf
  <2> QED
    BY <1>2, <1>3, <1>7, <2>1, OtherCounts
<1>8. CASE x = call[t].ino
  <2>1. /\ call[t].nlink = Links(x)
        /\ \A e \in LinksOf(x) : file[e].dir < call[t].walk => file[e].nlink = call[t].nlink
    BY <1>1, <1>2, <1>8, RightProgress DEF Progress
  <2>2. LinksOf(call[t].ino)' = LinksOf(x) /\ Links(call[t].ino)' = Links(x)
    BY <1>4, <1>6, <1>8 DEF LinksOf, Links
  <2>3. ASSUME NEW e \in LinksOf(x), file'[e].dir < call[t].walk + 1
        PROVE  file'[e].nlink = call[t].nlink
    <3>1. e \in listed /\ file[e].ino = call[t].ino
      BY <1>8 DEF LinksOf
    <3>2. call[t].walk \in Nat /\ file[e].dir \in Nat /\ file'[e].dir = file[e].dir
      BY <1>1, <1>5, <3>1, NumbersAssumption DEF Dirs
    <3>3. CASE file[e].dir = call[t].walk
      BY <1>5, <3>1, <3>3
    <3>4. CASE file[e].dir # call[t].walk
      <4>1. file[e].dir < call[t].walk
        BY <2>3, <3>2, <3>4
      <4> QED
        BY <1>5, <2>1, <3>1, <3>4, <4>1
    <3> QED
      BY <3>3, <3>4
  <2>4. Progress(t)'
    BY <1>4, <2>1, <2>2, <2>3 DEF Progress
  <2>5. Settling(t, x)'
    BY <1>2, <1>4, <1>8 DEF Settling, Working
  <2>6. \A u \in Threads : u # t => ~ (Working(u) /\ call[u].ino = x)
    BY <1>2, <1>8, OnlyWorker
  <2>7. \A u \in Threads : u # t => call'[u] = call[u]
    BY <1>3 DEF Goes
  <2> QED
    BY <2>4, <2>5, <2>6, <2>7, WorkerCounts
<1> QED
  BY <1>7, <1>8

\* After the walk every entry has the count, whose links are then all in the tree.
LEMMA WalkDone ==
  ASSUME ApartInv, NEW t \in Threads, Working(t), call[t].at = "count", call[t].walk > LastDir
  PROVE  \A e \in LinksOf(call[t].ino) : /\ file[e].nlink = Links(call[t].ino)
                                         /\ file[e].nlink = call[t].nlink
<1>1. /\ call[t].nlink = Links(call[t].ino)
      /\ \A e \in LinksOf(call[t].ino) : file[e].dir < call[t].walk => file[e].nlink = call[t].nlink
  BY RightProgress DEF Progress
<1>2. call[t].walk \in Int
  BY CallIs, NumbersAssumption DEF ApartInv, Working
<1>3. \A e \in LinksOf(call[t].ino) : file[e].dir \in 0 .. LastDir
  BY LinksTyped DEF ApartInv, Entry, Dirs
<1>4. \A e \in LinksOf(call[t].ino) : file[e].dir < call[t].walk
  BY <1>2, <1>3, NumbersAssumption
<1> QED
  BY <1>1, <1>4

\* A handler that returns when its number is settled
LEMMA DoneCounts ==
  ASSUME ApartInv, NEW t \in Threads, Working(t), Return(t), NEW x \in Nat, SameLinks(x),
         \A e \in LinksOf(call[t].ino) : file[e].nlink = Links(call[t].ino)
  PROVE  CountRight(x)'
<1>1. ~Busy(t)' /\ \A u \in Threads : u # t => call'[u] = call[u]
  BY ReturnIs DEF ApartInv
<1>2. ~Working(t)'
  BY <1>1 DEF Working
<1>3. CASE x # call[t].ino
  <2>1. Goes(t)
    BY ReturnGoes DEF ApartInv
  <2> QED
    BY <1>3, <2>1, OtherCounts
<1>4. CASE x = call[t].ino
  <2>1. Links(x)' = Links(x)
    BY DEF SameLinks, Links
  <2>2. \A e \in LinksOf(x)' : file'[e].nlink = Links(x)'
    BY <1>4, <2>1 DEF SameLinks
  <2>3. \A u \in Threads : u # t => ~ (Working(u) /\ call[u].ino = x)
    BY <1>4, OnlyWorker
  <2> QED
    BY <1>1, <1>2, <2>2, <2>3, WorkerCounts
<1> QED
  BY <1>3, <1>4

LEMMA LinkedCounts ==
  ASSUME ApartInv, NEW t \in Threads, Linked(t), NEW x \in Nat
  PROVE  CountRight(x)'
<1>1. /\ Busy(t) /\ call[t].do = "link" /\ call[t].at = "count" /\ call[t].walk > LastDir
      /\ Return(t) /\ UNCHANGED <<file, listed>>
  BY LinkedIs
<1>2. Working(t)
  BY <1>1 DEF Working
<1> QED
  BY <1>1, <1>2, WalkDone, SameFiles, DoneCounts

\* The count is zero only when no entry has the number.
LEMMA FreeEntryCounts ==
  ASSUME ApartInv, NEW t \in Threads, FreeEntry(t), NEW x \in Nat
  PROVE  CountRight(x)'
<1>1. /\ Busy(t) /\ call[t].do = "unlink" /\ call[t].at = "count" /\ call[t].walk > LastDir
      /\ UNCHANGED listed
      /\ \A e \in DOMAIN file' : file'[e] = file[e]
  BY FreeEntryIs DEF ApartInv
<1>2. Working(t)
  BY <1>1 DEF Working
<1>3. listed \subseteq DOMAIN file'
  <2>1. BaseInv'
    BY FreeEntryKeepsBase DEF ApartInv
  <2> QED
    BY <1>1, <2>1 DEF BaseInv, EntriesOnce
<1>4. \A e \in listed : file'[e] = file[e]
  BY <1>1, <1>3
<1>5. SameLinks(x)
  BY <1>1, <1>4 DEF SameLinks, LinksOf
<1>6. CASE Return(t)
  BY <1>1, <1>2, <1>5, <1>6, WalkDone, DoneCounts
<1>7. CASE ~Return(t)
  <2>1. /\ call[t].nlink = 0 /\ Busy(t)' /\ call'[t].at = "remove"
        /\ call'[t].do = "unlink" /\ call'[t].ino = call[t].ino
    BY <1>1, <1>7, FreeEntryThen DEF ApartInv
  <2>2. Goes(t)
    BY HandlerGoes DEF ApartInv, Handler
  <2>3. CASE x # call[t].ino
    BY <1>2, <1>5, <2>2, <2>3, OtherCounts
  <2>4. CASE x = call[t].ino
    <3>1. Links(x) = 0
      BY <1>1, <1>2, <2>1, <2>4, RightProgress DEF Progress
    <3>2. LinksOf(x) = {}
      BY <3>1, LinksTyped, FS_EmptySet DEF ApartInv, Links
    <3>3. LinksOf(call[t].ino)' = {}
      BY <1>5, <2>1, <2>4, <3>2 DEF SameLinks, LinksOf
    <3>4. Progress(t)'
      BY <2>1, <3>3 DEF Progress
    <3>5. Settling(t, x)'
      BY <2>1, <2>4 DEF Settling, Working
    <3>6. \A u \in Threads : u # t => ~ (Working(u) /\ call[u].ino = x)
      BY <1>2, <2>4, OnlyWorker
    <3>7. \A u \in Threads : u # t => call'[u] = call[u]
      BY <2>2 DEF Goes
    <3> QED
      BY <3>4, <3>5, <3>6, <3>7, WorkerCounts
  <2> QED
    BY <2>3, <2>4
<1> QED
  BY <1>6, <1>7

\* vtfs_remove_all_by_ino then finds nothing.
LEMMA RemoveAllCounts ==
  ASSUME ApartInv, NEW t \in Threads, RemoveAll(t), NEW x \in Nat
  PROVE  CountRight(x)'
<1> DEFINE gone == {e \in LinksOf(call[t].ino) : file[e].dir = call[t].walk}
<1>1. /\ Busy(t) /\ call[t].do = "unlink" /\ call[t].at = "remove"
      /\ \/ Return(t) /\ UNCHANGED <<file, listed>>
         \/ file' = Without(gone) /\ listed' = listed \ gone
  BY RemoveAllIs DEF ApartInv
<1>2. Working(t)
  BY <1>1 DEF Working
<1>3. LinksOf(call[t].ino) = {}
  BY <1>1, <1>2, RightProgress DEF Progress
<1>4. gone = {}
  BY <1>3
<1> HIDE DEF gone
<1>5. listed' = listed /\ \A e \in listed : file'[e] = file[e]
  <2>1. CASE UNCHANGED <<file, listed>>
    BY <2>1
  <2>2. CASE file' = Without(gone) /\ listed' = listed \ gone
    <3>1. listed \subseteq DOMAIN file
      BY FilesTyped DEF ApartInv
    <3>2. \A k \in DOMAIN file \ gone : file'[k] = file[k]
      BY <2>2, WithoutIs
    <3> QED
      BY <1>4, <2>2, <3>1, <3>2
  <2> QED
    BY <1>1, <2>1, <2>2
<1>6. SameLinks(x)
  BY <1>5 DEF SameLinks, LinksOf
<1>7. CASE Return(t)
  BY <1>2, <1>3, <1>6, <1>7, DoneCounts
<1>8. CASE ~Return(t)
  <2>1. Busy(t)' /\ call'[t].at = "remove" /\ call'[t].do = "unlink" /\ call'[t].ino = call[t].ino
    BY <1>1, <1>8, RemoveAllThen DEF ApartInv
  <2>2. Goes(t)
    BY HandlerGoes DEF ApartInv, Handler
  <2>3. CASE x # call[t].ino
    BY <1>2, <1>6, <2>2, <2>3, OtherCounts
  <2>4. CASE x = call[t].ino
    <3>1. LinksOf(call[t].ino)' = {}
      BY <1>3, <1>6, <2>1, <2>4 DEF SameLinks, LinksOf
    <3>2. Progress(t)'
      BY <2>1, <3>1 DEF Progress
    <3>3. Settling(t, x)'
      BY <2>1, <2>4 DEF Settling, Working
    <3>4. \A u \in Threads : u # t => ~ (Working(u) /\ call[u].ino = x)
      BY <1>2, <2>4, OnlyWorker
    <3>5. \A u \in Threads : u # t => call'[u] = call[u]
      BY <2>2 DEF Goes
    <3> QED
      BY <3>2, <3>3, <3>4, <3>5, WorkerCounts
  <2> QED
    BY <2>3, <2>4
<1> QED
  BY <1>7, <1>8

LEMMA HandlerKeepsCounts ==
  ASSUME ApartInv, NEW t \in Threads, Handler(t)
  PROVE  CountsRight'
<1>1. ASSUME NEW x \in Nat
      PROVE  CountRight(x)'
  BY CreateNumberCounts, CreateFileCounts, RemoveFileCounts, FindMainCounts, AddLinkCounts,
     ReadCountCounts, RemoveNameCounts, UpdateNlinkCounts, LinkedCounts, FreeEntryCounts, RemoveAllCounts
     DEF Handler
<1> QED
  BY <1>1 DEF CountsRight

-----------------------------------------------------------------------------
(* The steps of ApartSpec *)

LEMMA InitApart ==
  ASSUME Init
  PROVE  ApartInv
<1>1. /\ file = <<>> /\ listed = {} /\ next_ino = FirstIno /\ dentry = <<>> /\ number = <<>>
      /\ call = [t \in Threads |-> Idle]
  BY DEF Init
<1>2. \A t \in Threads : ~Busy(t)
  BY <1>1 DEF Busy
<1>3. DOMAIN dentry = {}
  BY <1>1
<1>4. BaseInv /\ LinkKnown
  BY InitBase
<1>5. Tables
  BY <1>2, <1>3, <1>4 DEF Tables, OneObject, Locked, Dentries
<1>6. \A x : ~Known(x)
  BY <1>1, <1>3 DEF Known
<1>7. Numbers
  BY <1>2, <1>6 DEF Numbers, Loaded, Stored, Doing
<1>8. InStage /\ OneCounting /\ Makings
  BY <1>2 DEF InStage, OneCounting, Makings, Doing
<1>9. CountsRight
  BY <1>1, <1>2 DEF CountsRight, CountRight, LinksOf, Working
<1> QED
  BY <1>4, <1>5, <1>7, <1>8, <1>9 DEF ApartInv

LEMMA HandlerKeepsApart ==
  ASSUME ApartInv, OneCounting', NEW t \in Threads, Handler(t)
  PROVE  ApartInv'
<1>1. BaseInv /\ Tables /\ Numbers /\ InStage /\ OneCounting /\ LinkKnown /\ Makings
  BY DEF ApartInv, Tables
<1>2. BaseInv' /\ LinkKnown'
  BY <1>1, StepKeepsBase DEF Next
<1>3. OneObject' /\ Locked' /\ Dentries'
  BY <1>1, HandlerKeepsTables
<1>4. Numbers'
  BY <1>1, HandlerKeepsNumbering
<1>5. InStage'
  BY <1>1, HandlerKeepsStage
<1>6. Makings'
  BY <1>1, HandlerKeepsMakings
<1>7. CountsRight'
  BY HandlerKeepsCounts
<1> QED
  BY <1>2, <1>3, <1>4, <1>5, <1>6, <1>7 DEF ApartInv, Tables

LEMMA StartKeepsApart ==
  ASSUME ApartInv, OneCounting', NEW t \in Threads, Start(t)
  PROVE  ApartInv'
<1>1. BaseInv /\ Tables /\ Numbers /\ InStage /\ LinkKnown /\ Makings
  BY DEF ApartInv, Tables
<1>2. BaseInv' /\ LinkKnown'
  BY <1>1, StepKeepsBase DEF Next
<1>3. OneObject' /\ Locked' /\ Dentries'
  BY <1>1, StartKeepsTables
<1>4. /\ Numbers' /\ call'[t].at = "start" /\ call'[t].walk = 0 /\ ~Busy(t)
      /\ \A u \in Threads : u # t => call'[u] = call[u]
      /\ UNCHANGED <<file, listed>>
  BY <1>1, StartKeepsNumbering
<1>5. InStage'
  BY <1>1, <1>4 DEF InStage, Busy
<1>6. ASSUME NEW x \in Nat
      PROVE  CountRight(x)'
  <2>1. ~Settling(t, x) /\ ~Settling(t, x)'
    BY <1>4 DEF Settling, Working
  <2>2. Progress(t)'
    BY <1>4 DEF Progress
  <2> QED
    BY <1>4, <2>1, <2>2, RightCount, SameFiles, FrameCounts
<1>7. CountsRight'
  BY <1>6 DEF CountsRight
<1>8. Makings'
  BY <1>1, StartKeepsMakings
<1> QED
  BY <1>2, <1>3, <1>4, <1>5, <1>7, <1>8 DEF ApartInv, Tables

LEMMA LookupKeepsApart ==
  ASSUME ApartInv, OneCounting', OneObject', Lookup
  PROVE  ApartInv'
<1>1. BaseInv /\ Tables /\ Numbers /\ InStage /\ LinkKnown /\ Makings /\ CountsRight
  BY DEF ApartInv, Tables
<1>2. BaseInv' /\ LinkKnown'
  BY <1>1, StepKeepsBase DEF Next
<1>3. Locked' /\ Dentries'
  BY <1>1, LookupKeepsTables
<1>4. Numbers'
  BY <1>1, LookupKeepsNumbering
<1>5. UNCHANGED <<file, listed, call>>
  BY DEF Lookup
<1>6. InStage'
  BY <1>1, <1>5 DEF InStage, Busy
<1>7. CountsRight'
  BY <1>1, <1>5, UnchangedCounts
<1>8. Makings'
  BY <1>1, LookupKeepsMakings
<1> QED
  BY <1>2, <1>3, <1>4, <1>6, <1>7, <1>8 DEF ApartInv, Tables

LEMMA RemountKeepsApart ==
  ASSUME ApartInv, OneCounting', Remount
  PROVE  ApartInv'
<1>1. BaseInv
  BY DEF ApartInv
<1>2. /\ BaseInv' /\ UNCHANGED call /\ \A t \in Threads : ~Busy(t)
      /\ listed' = {} /\ dentry' = <<>>
  BY <1>1, RemountKeepsBase
<1>3. \A t \in Threads : ~Busy(t)'
  BY <1>2 DEF Busy
<1>4. DOMAIN dentry' = {}
  BY <1>2
<1>5. Tables'
  BY <1>3, <1>4 DEF Tables, OneObject, Locked, Dentries, LinkKnown
<1>6. Numbers'
  BY <1>2, <1>3, <1>4 DEF Numbers, Known, Loaded, Stored, Doing
<1>7. InStage' /\ Makings'
  BY <1>3 DEF InStage, Makings
<1>8. CountsRight'
  BY <1>2, <1>3 DEF CountsRight, CountRight, LinksOf, Working
<1> QED
  BY <1>2, <1>5, <1>6, <1>7, <1>8 DEF ApartInv

LEMMA StutterKeepsApart ==
  ASSUME ApartInv, UNCHANGED vars
  PROVE  ApartInv'
<1>1. BaseInv' /\ LinkKnown'
  BY StutterKeepsBase DEF ApartInv, Tables
<1>2. UNCHANGED <<file, listed, next_ino, dentry, number, call>>
  BY DEF vars
<1>3. Tables'
  BY <1>1, <1>2 DEF ApartInv, Tables, OneObject, Locked, Dentries, Seen, Place, Busy
<1>4. Numbers'
  BY <1>2 DEF ApartInv, Numbers, Known, Loaded, Stored, Doing, Busy
<1>5. InStage' /\ OneCounting'
  BY <1>2 DEF ApartInv, InStage, OneCounting, Doing, Busy
<1>6. CountsRight'
  BY <1>2, UnchangedCounts DEF ApartInv
<1>7. Makings'
  BY <1>2, QuietMaking DEF ApartInv, Makings, Busy
<1> QED
  BY <1>1, <1>3, <1>4, <1>5, <1>6, <1>7 DEF ApartInv

LEMMA StepKeepsApart ==
  ASSUME ApartInv, [Next /\ KeptApart]_vars
  PROVE  ApartInv'
<1>1. CASE UNCHANGED vars
  BY <1>1, StutterKeepsApart
<1>2. CASE Next /\ KeptApart
  <2>1. OneCounting' /\ (Lookup => OneObject')
    BY <1>2 DEF KeptApart
  <2>2. CASE Lookup
    BY <2>1, <2>2, LookupKeepsApart
  <2>3. CASE Remount
    BY <2>1, <2>3, RemountKeepsApart
  <2>4. ASSUME NEW t \in Threads, Start(t)
        PROVE  ApartInv'
    BY <2>1, <2>4, StartKeepsApart
  <2>5. ASSUME NEW t \in Threads, Handler(t)
        PROVE  ApartInv'
    BY <2>1, <2>5, HandlerKeepsApart
  <2> QED
    BY <1>2, <2>2, <2>3, <2>4, <2>5 DEF Next
<1> QED
  BY <1>1, <1>2

LEMMA ApartAlways == ApartSpec => []ApartInv
<1>1. Init => ApartInv
  BY InitApart
<1>2. ApartInv /\ [Next /\ KeptApart]_vars => ApartInv'
  BY StepKeepsApart
<1> QED
  BY <1>1, <1>2, PTL DEF ApartSpec

\* While creates do not take numbers at the same time and each file has one inode object,
\* the pointer that vtfs_get_file_by_inode returned leads to an entry that is allocated,
\* although vtfs_link and vtfs_unlink use it without a semaphore.
THEOREM PointersStayLive == ApartSpec => []PointersLive
<1>1. ApartInv => PointersLive
  <2> SUFFICES ASSUME ApartInv, NEW t \in Threads, Busy(t), call[t].at \in {"found", "added"}
               PROVE  call[t].main \in DOMAIN file
    BY DEF PointersLive
  <2>1. Working(t)
    BY CallIs DEF ApartInv, InStage, Working
  <2>2. call[t].main \in LinksOf(call[t].ino)
    BY <2>1, RightProgress DEF Progress
  <2> QED
    BY <2>2, FilesTyped DEF ApartInv, LinksOf
<1> QED
  BY <1>1, ApartAlways, PTL

\* Then every entry of a file on which no thread works has the number of the file's
\* entries in nlink, however links and unlinks of other files overlap.
THEOREM CountsAreRight == ApartSpec => []CountsSettle
<1>1. ApartInv => CountsSettle
  <2> SUFFICES ASSUME ApartInv, NEW e \in listed,
                      \A t \in Threads : Busy(t) => call[t].ino # file[e].ino
               PROVE  file[e].nlink = Cardinality(LinksOf(file[e].ino))
    BY DEF CountsSettle
  <2> DEFINE x == file[e].ino
  <2>1. x \in Nat
    BY LinksTyped DEF ApartInv, Entry
  <2>2. e \in LinksOf(x)
    BY DEF LinksOf
  <2>3. \A t \in Threads : ~Settling(t, x)
    BY DEF Settling, Working
  <2> HIDE DEF x
  <2>4. file[e].nlink = Links(x)
    BY <2>1, <2>2, <2>3, RightCount DEF CountRight
  <2> QED
    BY <2>4 DEF Links, x
<1> QED
  BY <1>1, ApartAlways, PTL

\* Then vtfs_remove_all_by_ino runs only when no entry has the number: a file is deleted
\* with its last name and not before.
THEOREM LastNameGoes == ApartSpec => []LastName
<1>1. ApartInv => LastName
  <2> SUFFICES ASSUME ApartInv, NEW t \in Threads, Doing(t, "unlink", "remove")
               PROVE  LinksOf(call[t].ino) = {}
    BY DEF LastName
  <2>1. Working(t) /\ call[t].at = "remove"
    BY DEF Doing, Working
  <2> QED
    BY <2>1, RightProgress DEF Progress
<1> QED
  BY <1>1, ApartAlways, PTL
=============================================================================
