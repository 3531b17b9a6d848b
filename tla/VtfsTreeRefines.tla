-------------------------- MODULE VtfsTreeRefines --------------------------
(***************************************************************************)
(* The tree of source/vtfs.c implements the name space, and, for files     *)
(* with one name and copies that succeed, POSIX file contents; for all     *)
(* names, inode numbers, buffers and sizes.  NameSpace speaks of the inode *)
(* number behind each name and of those that are directories, PosixFs also *)
(* of the bytes of each file; places, link counts and the heap are hidden. *)
(***************************************************************************)
EXTENDS VtfsTreeProofs

AbsNames == [k \in DOMAIN ent |-> ent[k].ino]
AbsDirs  == {ent[k].ino : k \in {l \in DOMAIN ent : ent[l].dir}}

\* An inode number is a directory exactly if an entry for a directory has it.
LEMMA InAbsDirs ==
  ASSUME NEW d
  PROVE  d \in AbsDirs <=> \E k \in DOMAIN ent : ent[k].ino = d /\ ent[k].dir
BY DEF AbsDirs

\* A file's inode number is not that of a directory, whose entry is unique.
LEMMA FilesAreNoDirs ==
  ASSUME DirNames(ent), NEW k \in DOMAIN ent, ~ent[k].dir
  PROVE  ent[k].ino \notin AbsDirs
BY DEF AbsDirs, DirNames

\* A step that keeps each entry's inode number and kind is a stutter.
LEMMA SameNames ==
  ASSUME DOMAIN ent' = DOMAIN ent,
         \A l \in DOMAIN ent : ent'[l].ino = ent[l].ino /\ ent'[l].dir = ent[l].dir
  PROVE  AbsNames' = AbsNames /\ AbsDirs' = AbsDirs
<1>1. AbsNames' = AbsNames
  BY DEF AbsNames
<1>2. ASSUME NEW d PROVE d \in AbsDirs' <=> d \in AbsDirs
  BY DEF AbsDirs
<1> QED
  BY <1>1, <1>2

\* A new entry is a new name, and a new directory when it is for one.
LEMMA OneMore ==
  ASSUME NEW k, k \notin DOMAIN ent, DOMAIN ent' = DOMAIN ent \cup {k},
         \A l \in DOMAIN ent : ent'[l].ino = ent[l].ino /\ ent'[l].dir = ent[l].dir
  PROVE  /\ AbsNames' = [l \in DOMAIN AbsNames \cup {k} |->
                            IF l = k THEN ent'[k].ino ELSE AbsNames[l]]
         /\ AbsDirs' = AbsDirs \cup (IF ent'[k].dir THEN {ent'[k].ino} ELSE {})
<1>1. AbsNames' = [l \in DOMAIN AbsNames \cup {k} |->
                      IF l = k THEN ent'[k].ino ELSE AbsNames[l]]
  BY DEF AbsNames
<1>2. ASSUME NEW d
      PROVE  d \in AbsDirs' <=> d \in AbsDirs \/ (ent'[k].dir /\ d = ent'[k].ino)
  BY DEF AbsDirs
<1> QED
  BY <1>1, <1>2

\* An entry that goes takes its name with it, and its inode number from the
\* directories when no other entry has it or when it is not for a directory.
LEMMA OneLess ==
  ASSUME DirNames(ent), NEW k \in DOMAIN ent, DOMAIN ent' = DOMAIN ent \ {k},
         \A l \in DOMAIN ent \ {k} : ent'[l].ino = ent[l].ino /\ ent'[l].dir = ent[l].dir
  PROVE  /\ AbsNames' = [l \in DOMAIN AbsNames \ {k} |-> AbsNames[l]]
         /\ AbsDirs' = AbsDirs \ {ent[k].ino}
<1>1. AbsNames' = [l \in DOMAIN AbsNames \ {k} |-> AbsNames[l]]
  BY DEF AbsNames
<1>2. ASSUME NEW d PROVE d \in AbsDirs' <=> d \in AbsDirs /\ d # ent[k].ino
  <2>1. d \in AbsDirs' <=> \E l \in DOMAIN ent \ {k} : ent[l].ino = d /\ ent[l].dir
    BY DEF AbsDirs
  <2>2. CASE \E l \in DOMAIN ent \ {k} : ent[l].ino = d /\ ent[l].dir
    <3>1. PICK l \in DOMAIN ent \ {k} : ent[l].ino = d /\ ent[l].dir
      BY <2>2
    <3>2. ent[k].ino # d
      BY <3>1 DEF DirNames
    <3> QED
      BY <2>1, <3>1, <3>2, InAbsDirs
  <2>3. CASE ~\E l \in DOMAIN ent \ {k} : ent[l].ino = d /\ ent[l].dir
    BY <2>1, <2>3, InAbsDirs
  <2> QED
    BY <2>2, <2>3
<1> QED
  BY <1>1, <1>2

-----------------------------------------------------------------------------
(* Each handler is a step of the name space, or a stutter *)

\* vtfs_create and vtfs_mkdir: next_ino is above every inode number in use.
LEMMA MakeRefines ==
  ASSUME Inv, NEW k \in Keys, NEW isDir \in BOOLEAN, Make(k, isDir)
  PROVE  [NS!NSNext]_(NS!nsVars)
<1>1. NameInv /\ TypeOK
  BY DEF Inv, NameInv
<1>2. CASE ent' = ent
  <2>1. AbsNames' = AbsNames /\ AbsDirs' = AbsDirs
    BY <1>2 DEF AbsNames, AbsDirs
  <2> QED
    BY <2>1 DEF NS!nsVars, AbsNames, AbsDirs
<1>3. CASE ent' # ent
  <2>1. /\ k[1] = RootIno \/ \E l \in DOMAIN ent : ent[l].ino = k[1] /\ ent[l].dir
        /\ k \notin DOMAIN ent
        /\ DOMAIN ent' = DOMAIN ent \cup {k}
        /\ ent'[k] = NewEntry(k, isDir)
        /\ \A l \in DOMAIN ent : SameBody(ent'[l], ent[l])
        /\ nextIno <= LastIno
    BY <1>1, <1>3, MakeEffect
  <2>2. /\ ent'[k].ino = nextIno /\ ent'[k].dir = isDir
        /\ \A l \in DOMAIN ent : ent'[l].ino = ent[l].ino /\ ent'[l].dir = ent[l].dir
    BY <2>1 DEF NewEntry, SameBody
  <2>3. nextIno \in Inos
    BY <1>1, <2>1, InoAssumption DEF TypeOK, Inos
  <2>4. k[1] \in AbsDirs \cup {RootIno}
    BY <2>1, InAbsDirs
  <2>5. nextIno \notin {AbsNames[l] : l \in DOMAIN AbsNames}
    <3>1. \A l \in DOMAIN ent : ent[l].ino < nextIno /\ ent[l].ino \in Nat
      BY <1>1, InoAssumption DEF NameInv, TypeOK, Entry, Inos
    <3>2. \A l \in DOMAIN ent : ent[l].ino # nextIno
      BY <1>1, <3>1, InoAssumption DEF TypeOK
    <3> QED
      BY <3>2 DEF AbsNames
  <2>6. /\ AbsNames' = [l \in DOMAIN AbsNames \cup {k} |->
                           IF l = k THEN nextIno ELSE AbsNames[l]]
        /\ AbsDirs' = IF isDir THEN AbsDirs \cup {nextIno} ELSE AbsDirs
    <3>1. /\ AbsNames' = [l \in DOMAIN AbsNames \cup {k} |->
                             IF l = k THEN ent'[k].ino ELSE AbsNames[l]]
          /\ AbsDirs' = AbsDirs \cup (IF ent'[k].dir THEN {ent'[k].ino} ELSE {})
      BY <2>1, <2>2, OneMore
    <3> QED
      BY <2>2, <3>1
  <2>7. k \notin DOMAIN AbsNames
    BY <2>1 DEF AbsNames
  <2>8. NS!NSMake(k, nextIno, isDir)
    BY <2>4, <2>5, <2>6, <2>7 DEF NS!NSMake, NS!Bind, NS!Used, AbsNames, AbsDirs
  <2> QED
    BY <2>3, <2>8 DEF NS!NSNext, NS!NSStep, Keys
<1> QED
  BY <1>2, <1>3

\* vtfs_link: the inode has a name already and is no directory.
LEMMA LinkRefines ==
  ASSUME Inv, NEW k \in Keys, NEW x \in Inos, Link(k, x)
  PROVE  NS!NSNext
<1>1. NameInv /\ DirNames(ent)
  BY DEF Inv, NameInv
<1>2. /\ k[1] = RootIno \/ \E l \in DOMAIN ent : ent[l].ino = k[1] /\ ent[l].dir
      /\ k \notin DOMAIN ent
      /\ First(x) \in DOMAIN ent /\ ent[First(x)].ino = x /\ ~ent[First(x)].dir
      /\ DOMAIN ent' = DOMAIN ent \cup {k}
      /\ ent'[k].ino = x /\ ~ent'[k].dir
      /\ \A l \in DOMAIN ent : ent'[l].ino = ent[l].ino /\ ent'[l].dir = ent[l].dir
  BY <1>1, LinkEffect
<1>3. k[1] \in AbsDirs \cup {RootIno}
  BY <1>2, InAbsDirs
<1>4. x \in {AbsNames[l] : l \in DOMAIN AbsNames} \ AbsDirs
  BY <1>1, <1>2, FilesAreNoDirs DEF AbsNames
<1>5. /\ AbsNames' = [l \in DOMAIN AbsNames \cup {k} |-> IF l = k THEN x ELSE AbsNames[l]]
      /\ AbsDirs' = AbsDirs
  <2>1. /\ AbsNames' = [l \in DOMAIN AbsNames \cup {k} |->
                           IF l = k THEN ent'[k].ino ELSE AbsNames[l]]
        /\ AbsDirs' = AbsDirs \cup (IF ent'[k].dir THEN {ent'[k].ino} ELSE {})
    BY <1>2, OneMore
  <2> QED
    BY <1>2, <2>1
<1>6. k \notin DOMAIN AbsNames
  BY <1>2 DEF AbsNames
<1>7. NS!NSLink(k, x)
  BY <1>3, <1>4, <1>5, <1>6 DEF NS!NSLink, NS!Bind, NS!Used, AbsNames, AbsDirs
<1> QED
  BY <1>7 DEF NS!NSNext, NS!NSStep, Keys

\* vtfs_unlink: the entry goes and no other, for vtfs_remove_all_by_ino runs only
\* when the count says that the inode has no other name, and the count is exact.
LEMMA UnlinkRefines ==
  ASSUME Inv, NEW k \in Keys, Unlink(k)
  PROVE  NS!NSNext
<1>1. NameInv /\ DirNames(ent)
  BY DEF Inv, NameInv
<1>2. /\ k \in DOMAIN ent /\ ~ent[k].dir
      /\ DOMAIN ent' = DOMAIN ent \ {k}
      /\ \A l \in DOMAIN ent \ {k} : ent'[l].ino = ent[l].ino /\ ent'[l].dir = ent[l].dir
  BY <1>1, UnlinkEffect
<1>3. /\ AbsNames' = [l \in DOMAIN AbsNames \ {k} |-> AbsNames[l]]
      /\ AbsDirs' = AbsDirs \ {ent[k].ino}
  BY <1>1, <1>2, OneLess
<1>4. ent[k].ino \notin AbsDirs
  BY <1>1, <1>2, FilesAreNoDirs
<1>5. k \in DOMAIN AbsNames /\ AbsNames[k] = ent[k].ino
  BY <1>2 DEF AbsNames
<1>6. NS!NSRemove(k)
  BY <1>3, <1>4, <1>5 DEF NS!NSRemove, AbsNames, AbsDirs
<1> QED
  BY <1>6 DEF NS!NSNext, NS!NSStep, Keys

\* vtfs_rmdir: an empty directory goes.
LEMMA RmdirRefines ==
  ASSUME Inv, NEW k \in Keys, Rmdir(k)
  PROVE  NS!NSNext
<1>1. NameInv /\ DirNames(ent)
  BY DEF Inv, NameInv
<1>2. /\ k \in DOMAIN ent
      /\ \A l \in DOMAIN ent : l[1] # ent[k].ino
      /\ DOMAIN ent' = DOMAIN ent \ {k}
      /\ \A l \in DOMAIN ent \ {k} : ent'[l].ino = ent[l].ino /\ ent'[l].dir = ent[l].dir
  BY <1>1, RmdirEffect DEF SameBody
<1>3. /\ AbsNames' = [l \in DOMAIN AbsNames \ {k} |-> AbsNames[l]]
      /\ AbsDirs' = AbsDirs \ {ent[k].ino}
  BY <1>1, <1>2, OneLess
<1>4. /\ k \in DOMAIN AbsNames /\ AbsNames[k] = ent[k].ino
      /\ \A l \in DOMAIN AbsNames : l[1] # AbsNames[k]
  BY <1>2 DEF AbsNames
<1>5. NS!NSRemove(k)
  BY <1>3, <1>4 DEF NS!NSRemove, AbsNames, AbsDirs
<1> QED
  BY <1>5 DEF NS!NSNext, NS!NSStep, Keys

\* An empty tree has no names and no directories.
LEMMA EmptyNames ==
  ASSUME ent = <<>>
  PROVE  AbsNames = <<>> /\ AbsDirs = {}
BY DEF AbsNames, AbsDirs

\* The same of the tree after a step.
LEMMA EmptyNamesNext ==
  ASSUME ent' = <<>>
  PROVE  AbsNames' = <<>> /\ AbsDirs' = {}
BY DEF AbsNames, AbsDirs

\* A handler on data, which keeps all names.
LEMMA DataRefines ==
  ASSUME NEW x, NEW M, NEW ptr, NEW s, DataStep(x, M, ptr, s)
  PROVE  UNCHANGED NS!nsVars
<1>1. /\ DOMAIN ent' = DOMAIN ent
      /\ \A l \in DOMAIN ent : ent'[l].ino = ent[l].ino /\ ent'[l].dir = ent[l].dir
  BY DEF DataStep
<1>2. AbsNames' = AbsNames /\ AbsDirs' = AbsDirs
  BY <1>1, SameNames
<1> QED
  BY <1>2 DEF NS!nsVars, AbsNames, AbsDirs

-----------------------------------------------------------------------------
(* The refinement *)

\* Every step of the tree is a step of the name space or a stutter.
LEMMA NextRefines == Inv /\ [Next]_vars => [NS!NSNext]_(NS!nsVars)
<1> SUFFICES ASSUME Inv, [Next]_vars PROVE [NS!NSNext]_(NS!nsVars)
  OBVIOUS
<1>1. NameInv /\ HeapInv
  BY DEF Inv
<1>2. ASSUME NEW k \in Keys, Create(k) \/ Mkdir(k) PROVE [NS!NSNext]_(NS!nsVars)
  BY <1>2, MakeRefines DEF Create, Mkdir
<1>3. ASSUME NEW k \in Keys, NEW x \in Inos, Link(k, x) PROVE NS!NSNext
  BY <1>3, LinkRefines
<1>4. ASSUME NEW k \in Keys, Unlink(k) PROVE NS!NSNext
  BY <1>4, UnlinkRefines
<1>5. ASSUME NEW k \in Keys, Rmdir(k) PROVE NS!NSNext
  BY <1>5, RmdirRefines
<1>6. ASSUME NEW x \in Inos, NEW append \in BOOLEAN, NEW o \in Sizes, NEW p \in Payloads,
             Write(x, append, o, p)
      PROVE  UNCHANGED NS!nsVars
  BY <1>1, <1>6, WriteEffect, DataRefines
<1>7. ASSUME NEW x \in Inos, NEW n \in Sizes, Setattr(x, n) PROVE UNCHANGED NS!nsVars
  BY <1>1, <1>7, SetattrEffect, DataRefines
<1>8. ASSUME NEW x \in Inos, OpenTrunc(x) PROVE UNCHANGED NS!nsVars
  BY <1>1, <1>8, OpenTruncEffect, DataRefines
<1>9. CASE Unmount \/ Mount
  <2>1. AbsNames' = <<>> /\ AbsDirs' = {}
    BY <1>9, EmptyNamesNext DEF Unmount, Mount
  <2>2. NS!NSUnmount
    BY <2>1 DEF NS!NSUnmount, AbsNames, AbsDirs
  <2> QED
    BY <2>2 DEF NS!NSNext
<1>10. CASE UNCHANGED vars
  <2>1. AbsNames' = AbsNames /\ AbsDirs' = AbsDirs
    BY <1>10 DEF vars, AbsNames, AbsDirs
  <2> QED
    BY <2>1 DEF NS!nsVars, AbsNames, AbsDirs
<1>11. 0 \in Sizes
  BY SizeAssumption DEF Sizes
<1> QED
  BY <1>2, <1>3, <1>4, <1>5, <1>6, <1>7, <1>8, <1>9, <1>10, <1>11 DEF Next

\* The tree implements the name space: a handler adds one name or removes one
\* name, hard links in any directories and failing allocations included.
THEOREM TreeImplementsNameSpace == Spec => ImplementsNameSpace
<1>1. Init => NS!NSInit
  <2>1. Init => AbsNames = <<>> /\ AbsDirs = {}
    BY EmptyNames DEF Init
  <2> QED
    BY <2>1 DEF NS!NSInit, AbsNames, AbsDirs
<1> QED
  BY <1>1, NextRefines, Invariance, PTL DEF Spec, ImplementsNameSpace, NS!NSSpec

-----------------------------------------------------------------------------
(* The bytes of files, when each file has one name and copies do not fail  *)

AbsData == [x \in RegularFiles |-> Content(x)]

\* A regular file is an inode number that an entry has and that is no directory's.
LEMMA RegularIff ==
  ASSUME NameInv, NEW x
  PROVE  x \in RegularFiles <=> (\E k \in DOMAIN ent : ent[k].ino = x) /\ x \notin AbsDirs
<1>1. TreeOK(ent) /\ DirNames(ent)
  BY NameInvTree DEF NameInv
<1>2. LinksOf(x) # {} <=> \E k \in DOMAIN ent : ent[k].ino = x
  BY DEF LinksOf
<1>3. ASSUME LinksOf(x) # {}
      PROVE  First(x) \in DOMAIN ent /\ ent[First(x)].ino = x /\ x \in Inos
  BY <1>1, <1>3, FirstIsALink DEF TreeOK, Entry
<1>4. ASSUME LinksOf(x) # {}, ~ent[First(x)].dir PROVE x \notin AbsDirs
  BY <1>1, <1>3, <1>4, FilesAreNoDirs
<1>5. ASSUME LinksOf(x) # {}, ent[First(x)].dir PROVE x \in AbsDirs
  BY <1>3, <1>5, InAbsDirs
<1> QED
  BY <1>2, <1>3, <1>4, <1>5 DEF RegularFiles

\* The same of the tree after a step.
LEMMA RegularIffNext ==
  ASSUME NameInv', NEW x
  PROVE  x \in RegularFiles' <=> (\E k \in DOMAIN ent' : ent'[k].ino = x) /\ x \notin AbsDirs'
<1>1. TreeOK(ent') /\ DirNames(ent')
  BY DEF NameInv, TypeOK, TreeOK
<1>2. LinksOf(x)' # {} <=> \E k \in DOMAIN ent' : ent'[k].ino = x
  BY DEF LinksOf
<1>3. ASSUME LinksOf(x)' # {}
      PROVE  First(x)' \in DOMAIN ent' /\ ent'[First(x)'].ino = x /\ x \in Inos
  <2>1. First(x)' \in LinksOf(x)'
    BY <1>1, <1>3, FirstIsALinkNext
  <2> QED
    BY <1>1, <2>1 DEF LinksOf, TreeOK, Entry
<1>4. x \in AbsDirs' <=> \E k \in DOMAIN ent' : ent'[k].ino = x /\ ent'[k].dir
  BY DEF AbsDirs
<1>5. ASSUME LinksOf(x)' # {}
      PROVE  x \in AbsDirs' <=> ent'[First(x)'].dir
  BY <1>1, <1>3, <1>4, <1>5 DEF DirNames
<1>6. x \in RegularFiles' <=> x \in Inos /\ LinksOf(x)' # {} /\ ~ ent'[First(x)'].dir
  BY DEF RegularFiles
<1> QED
  BY <1>2, <1>3, <1>5, <1>6

\* A file with one name has the entry of that name as its first one.
LEMMA FirstIsTheEntry ==
  ASSUME NameInv, NameInv', OneName(ent), NEW x, NEW k \in DOMAIN ent, ent[k].ino = x,
         \A l \in DOMAIN ent' : ent'[l].ino = x => l \in DOMAIN ent /\ ent[l].ino = x
  PROVE  First(x) = k /\ (LinksOf(x)' # {} => First(x)' = k)
<1>1. TreeOK(ent) /\ TreeOK(ent')
  BY DEF NameInv, TypeOK, TreeOK
<1>2. k \in LinksOf(x)
  BY DEF LinksOf
<1>3. First(x) = k
  BY <1>1, <1>2, FirstIsALink DEF OneName
<1>4. ASSUME LinksOf(x)' # {} PROVE First(x)' = k
  <2>1. First(x)' \in LinksOf(x)'
    BY <1>1, <1>4, FirstIsALinkNext
  <2>2. First(x)' \in DOMAIN ent' /\ ent'[First(x)'].ino = x
    BY <2>1 DEF LinksOf
  <2> QED
    BY <2>2 DEF OneName
<1> QED
  BY <1>3, <1>4

\* The size of a file is the length of what a read returns; SizeFits excludes
\* the case of a pointer without a buffer.
LEMMA ContentIs ==
  ASSUME Inv, NEW x \in RegularFiles
  PROVE  /\ ent[First(x)].size \in Nat
         /\ Content(x) = [i \in 1 .. ent[First(x)].size |-> mem[ent[First(x)].data][i]]
         /\ ent[First(x)].size > 0 =>
              /\ ent[First(x)].data \in DOMAIN mem
              /\ ent[First(x)].size <= Len(mem[ent[First(x)].data])
<1>1. First(x) \in DOMAIN ent /\ ent[First(x)].size \in Nat
  BY RegularFirst DEF Inv
<1>2. ent[First(x)].size > 0 => /\ ent[First(x)].data \in DOMAIN mem
                                /\ ent[First(x)].size <= Len(mem[ent[First(x)].data])
  BY <1>1 DEF Inv, HeapInv, SizeFits
<1>3. CASE ent[First(x)].data \in DOMAIN mem
  BY <1>1, <1>2, <1>3 DEF Content
<1>4. CASE ent[First(x)].data \notin DOMAIN mem
  <2>1. ent[First(x)].size = 0
    BY <1>1, <1>2, <1>4
  <2> QED
    BY <1>4, <2>1 DEF Content
<1> QED
  BY <1>1, <1>2, <1>3, <1>4

\* The same of a file after a step that keeps its first entry.
LEMMA ContentIsNext ==
  ASSUME Inv', NEW x, NEW f \in DOMAIN ent', First(x)' = f
  PROVE  Content(x)' = [i \in 1 .. ent'[f].size |-> mem'[ent'[f].data][i]]
<1>1. ent'[f].size \in Nat
  BY DEF Inv, NameInv, TypeOK, Entry, Sizes
<1>2. Content(x)' = IF ent'[f].data \in DOMAIN mem'
                    THEN [i \in 1 .. ent'[f].size |-> mem'[ent'[f].data][i]] ELSE <<>>
  BY DEF Content
<1>3. CASE ent'[f].data \notin DOMAIN mem'
  <2>1. ent'[f].size = 0
    BY <1>1, <1>3 DEF Inv, HeapInv, SizeFits
  <2> QED
    BY <1>2, <1>3, <2>1
<1> QED
  BY <1>2, <1>3

\* A step on the data of one file keeps the files, their entries, and the bytes
\* of the others.
LEMMA DataFrame ==
  ASSUME Inv, Inv', OneName(ent), NEW x \in RegularFiles, NEW M, NEW ptr, NEW s,
         DataStep(x, M, ptr, s)
  PROVE  /\ First(x) \in DOMAIN ent' /\ First(x)' = First(x)
         /\ AbsData' = [AbsData EXCEPT ![x] = Content(x)']
<1>1. NameInv /\ NameInv'
  BY DEF Inv
<1>2. /\ DOMAIN ent' = DOMAIN ent
      /\ \A l \in DOMAIN ent : ent'[l].ino = ent[l].ino /\ ent'[l].dir = ent[l].dir
  BY DEF DataStep
<1>3. RegularFiles' = RegularFiles
  <2>1. AbsDirs' = AbsDirs
    BY <1>2, SameNames
  <2>2. ASSUME NEW y PROVE y \in RegularFiles' <=> y \in RegularFiles
    BY <1>1, <1>2, <2>1, RegularIff, RegularIffNext
  <2> QED
    BY <2>2
<1>4. ASSUME NEW y \in RegularFiles
      PROVE  First(y) \in DOMAIN ent /\ First(y)' = First(y)
  <2>1. First(y) \in DOMAIN ent /\ ent[First(y)].ino = y
    BY <1>1, RegularFirst
  <2>2. LinksOf(y)' # {}
    BY <1>2, <2>1 DEF LinksOf
  <2> QED
    BY <1>1, <1>2, <2>1, <2>2, FirstIsTheEntry
<1>5. ASSUME NEW y \in RegularFiles, y # x PROVE Content(y)' = Content(y)
  BY <1>4, <1>5, DataKeepsContent
<1>6. AbsData' = [AbsData EXCEPT ![x] = Content(x)']
  <2>1. AbsData' = [y \in RegularFiles |-> Content(y)']
    BY <1>3 DEF AbsData
  <2> QED
    BY <1>5, <2>1 DEF AbsData
<1> QED
  BY <1>2, <1>4, <1>6

\* krealloc and the memset up to the new end: the bytes of the file, then zeros.
LEMMA Grown ==
  ASSUME Inv, NEW x \in RegularFiles, NEW n \in Sizes, NEW e \in 0 .. n,
         NEW r \in Krealloc(ent[First(x)].data, n), NEW gap \in Nat,
         gap = IF e > ent[First(x)].size THEN e - ent[First(x)].size ELSE 0,
         NEW i \in 1 .. n
  PROVE  LET z == Poke(r.mem, r.ptr, ent[First(x)].size, Zeros(gap)) IN
         /\ r.ptr \in DOMAIN z /\ n <= Len(z[r.ptr]) /\ Len(z[r.ptr]) \in Nat
         /\ i <= ent[First(x)].size \/ i <= e => z[r.ptr][i] = PX!At(Content(x), i)
<1> DEFINE f == First(x)
           sz == ent[f].size
           z == Poke(r.mem, r.ptr, sz, Zeros(gap))
<1>1. HeapOK(mem) /\ NameInv
  BY NameInvTree DEF Inv
<1>2. f \in DOMAIN ent /\ sz \in Nat /\ ent[f].data \in Pointers
  BY <1>1, RegularFirst
<1>3. /\ Content(x) = [j \in 1 .. sz |-> mem[ent[f].data][j]]
      /\ sz > 0 => ent[f].data \in DOMAIN mem /\ sz <= Len(mem[ent[f].data])
  BY ContentIs
<1> HIDE DEF f
<1>4. n \in Nat /\ n > 0
  BY DEF Sizes
<1>5. /\ HeapOK(r.mem) /\ r.ptr \in DOMAIN r.mem /\ n <= Len(r.mem[r.ptr])
      /\ Len(r.mem[r.ptr]) \in Nat
  <2>1. /\ HeapOK(r.mem)
        /\ r.ptr \in Buffers => r.ptr \in DOMAIN r.mem /\ n <= Len(r.mem[r.ptr])
        /\ r.ptr \notin Buffers => n = 0
    BY <1>1, <1>2, KreallocOK DEF f
  <2> QED
    BY <1>4, <2>1 DEF HeapOK
<1>6. Zeros(gap) \in Seq(Cells) /\ Len(Zeros(gap)) = gap /\ \A j \in 1 .. gap : Zeros(gap)[j] = Nul
  <2>1. Zeros(gap) \in Seq(Cells)
    BY ZerosOK
  <2> QED
    BY <2>1 DEF Zeros
<1>7. r.ptr \in DOMAIN z /\ n <= Len(z[r.ptr]) /\ Len(z[r.ptr]) \in Nat
  BY <1>2, <1>5, <1>6, PokeOK
<1>8. z[r.ptr][i] = IF i - sz \in 1 .. gap THEN Nul ELSE r.mem[r.ptr][i]
  <2>1. i \in 1 .. Len(r.mem[r.ptr])
    BY <1>4, <1>5
  <2>2. z[r.ptr][i] = IF i - sz \in 1 .. Len(Zeros(gap)) THEN Zeros(gap)[i - sz] ELSE r.mem[r.ptr][i]
    BY <1>5, <2>1 DEF Poke
  <2> QED
    BY <1>6, <2>2
<1> HIDE DEF z
<1>9. PX!At(Content(x), i) = IF i <= sz THEN mem[ent[f].data][i] ELSE Nul
  <2>1. Len(Content(x)) = sz
    BY <1>2, <1>3
  <2> QED
    BY <1>2, <1>3, <1>4, <2>1 DEF PX!At
<1>10. ASSUME i <= sz \/ i <= e PROVE z[r.ptr][i] = PX!At(Content(x), i)
  <2>1. CASE i <= sz
    <3>1. r.mem[r.ptr][i] = mem[ent[f].data][i]
      <4>1. ent[f].data \in DOMAIN mem /\ i <= Len(mem[ent[f].data]) /\ Len(mem[ent[f].data]) \in Nat
        BY <1>1, <1>2, <1>3, <1>4, <2>1 DEF HeapOK
      <4> QED
        BY <1>1, <1>4, <4>1, Realloced DEF f
    <3>2. i - sz \notin 1 .. gap
      BY <1>2, <1>4, <2>1
    <3> QED
      BY <1>8, <1>9, <2>1, <3>1, <3>2
  <2>2. CASE ~ (i <= sz)
    <3>1. i - sz \in 1 .. gap
      BY <1>2, <1>4, <1>10, <2>2 DEF f
    <3> QED
      BY <1>8, <1>9, <2>2, <3>1
  <2> QED
    BY <2>1, <2>2
<1> QED
  BY <1>7, <1>10 DEF z, f

\* vtfs_setattr cuts the file or fills it with zeros.
LEMMA SetattrBytes ==
  ASSUME Inv, Inv', OneName(ent), NEW x \in Inos, NEW n \in Sizes, Setattr(x, n)
  PROVE  PX!PTruncate(x, n) /\ x \in RegularFiles
<1> DEFINE f == First(x)
           sz == ent[f].size
           gap == IF n > sz THEN n - sz ELSE 0
<1>1. NameInv /\ HeapInv /\ x \in RegularFiles
  BY DEF Inv, Setattr
<1>2. PICK M, ptr, s : DataStep(x, M, ptr, s)
  BY <1>1, SetattrEffect
<1>3. f \in DOMAIN ent' /\ First(x)' = f /\ AbsData' = [AbsData EXCEPT ![x] = Content(x)']
  BY <1>1, <1>2, DataFrame
<1>4. PICK r \in Krealloc(ent[f].data, n) :
         /\ mem' = Poke(r.mem, r.ptr, sz, Zeros(gap))
         /\ ent' = IF ent[f].data # r.ptr THEN UpdateDataAll(ent, x, ent[f].data, r.ptr, n)
                   ELSE UpdateOne(ent, f, r.ptr, n)
  BY Zenon DEF Setattr
<1>5. HeapOK(mem) /\ ent[f].data \in Pointers /\ sz \in Nat /\ n \in Nat
  BY <1>1, NameInvTree, RegularFirst DEF Sizes
<1>6. r.ptr \in Pointers
  BY <1>5, KreallocOK
<1>7. ent'[f].data = r.ptr /\ ent'[f].size = n
  BY <1>1, <1>4, <1>6, NameInvTree, FirstUpdated
<1>8. Content(x)' = [i \in 1 .. n |-> mem'[r.ptr][i]]
  BY <1>3, <1>7, ContentIsNext
<1>9. ASSUME NEW i \in 1 .. n PROVE mem'[r.ptr][i] = PX!At(Content(x), i)
  <2>1. gap \in Nat /\ n \in 0 .. n
    BY <1>5
  <2> HIDE DEF f
  <2> QED
    BY <1>1, <1>4, <1>5, <2>1, Grown DEF f
<1>10. Content(x)' = PX!Resize(Content(x), n)
  BY <1>8, <1>9 DEF PX!Resize
<1>11. AbsData[x] = Content(x)
  BY <1>1 DEF AbsData
<1>12. UNCHANGED PX!nsVars
  BY <1>2, DataRefines DEF NS!nsVars, PX!nsVars
<1> QED
  BY <1>1, <1>3, <1>10, <1>11, <1>12 DEF PX!PTruncate, AbsData

\* vtfs_open with O_TRUNC empties the file.
LEMMA OpenTruncBytes ==
  ASSUME Inv, Inv', OneName(ent), NEW x \in Inos, OpenTrunc(x)
  PROVE  PX!PTruncate(x, 0) /\ x \in RegularFiles
<1> DEFINE f == First(x)
<1>1. NameInv /\ HeapInv /\ x \in RegularFiles
  BY DEF Inv, OpenTrunc
<1>2. PICK M, ptr, s : DataStep(x, M, ptr, s)
  BY <1>1, OpenTruncEffect
<1>3. f \in DOMAIN ent' /\ First(x)' = f /\ AbsData' = [AbsData EXCEPT ![x] = Content(x)']
  BY <1>1, <1>2, DataFrame
<1>4. \/ ent' = UpdateDataAll(ent, x, ent[f].data, NULL, 0)
      \/ ent' = UpdateOne(ent, f, NULL, 0)
  BY DEF OpenTrunc
<1>5. NULL \in Pointers /\ 0 \in Sizes
  BY SizeAssumption DEF Pointers, Sizes
<1>6. ent'[f].size = 0
  BY <1>1, <1>4, <1>5, NameInvTree, FirstUpdated
<1>7. Content(x)' = [i \in 1 .. 0 |-> mem'[ent'[f].data][i]]
  BY <1>3, <1>6, ContentIsNext
<1>8. Content(x)' = PX!Resize(Content(x), 0)
  BY <1>7 DEF PX!Resize
<1>9. AbsData[x] = Content(x)
  BY <1>1 DEF AbsData
<1>10. UNCHANGED PX!nsVars
  BY <1>2, DataRefines DEF NS!nsVars, PX!nsVars
<1> QED
  BY <1>1, <1>3, <1>8, <1>9, <1>10 DEF PX!PTruncate, AbsData

\* vtfs_write puts its bytes at the offset, after zeros up to it when the file
\* ends before, in the buffer that is there, grown or new.
LEMMA WriteBytes ==
  ASSUME Inv, Inv', OneName(ent), "copy" \notin Faults,
         NEW x \in Inos, NEW append \in BOOLEAN, NEW o \in Sizes, NEW p \in Payloads,
         Write(x, append, o, p)
  PROVE  /\ x \in RegularFiles
         /\ \E off \in 0 .. MaxSize : PX!PWrite(x, off, p)
<1> DEFINE f   == First(x)
           old == ent[f].data
           sz  == ent[f].size
           off == IF append THEN sz ELSE o
           n   == off + Len(p)
           grow == n > sz \/ old = NULL
           gap == IF grow /\ off > sz THEN off - sz ELSE 0
           z(r) == Poke(r.mem, r.ptr, sz, Zeros(gap))
<1>1. NameInv /\ HeapInv /\ x \in RegularFiles
  BY DEF Inv, Write, WriteFile
<1>2. PICK M, ptr, s : DataStep(x, M, ptr, s)
  BY <1>1, WriteEffect
<1>3. f \in DOMAIN ent' /\ First(x)' = f /\ AbsData' = [AbsData EXCEPT ![x] = Content(x)']
  BY <1>1, <1>2, DataFrame
<1>4. PICK r \in IF grow THEN Krealloc(old, n) ELSE {[ptr |-> old, mem |-> mem]} :
         /\ ent' = IF ~grow THEN ent
                   ELSE IF old # NULL /\ old # r.ptr
                        THEN UpdateDataAll(ent, x, old, r.ptr, n)
                        ELSE UpdateOne(ent, f, r.ptr, n)
         /\ mem' = Poke(z(r), r.ptr, off, p)
  BY Zenon DEF Write, WriteFile
<1>5. HeapOK(mem) /\ f \in DOMAIN ent /\ old \in Pointers /\ sz \in Nat
  BY <1>1, NameInvTree, RegularFirst
<1>6. /\ Content(x) = [i \in 1 .. sz |-> mem[old][i]]
      /\ sz > 0 => old \in DOMAIN mem /\ sz <= Len(mem[old])
  BY <1>1, ContentIs
<1> HIDE DEF f
<1>7. n <= MaxSize /\ p \in Seq(Cells) /\ Len(p) \in Nat
  BY HeapAssumption DEF Write, WriteFile, f
<1>8. off \in Nat /\ n \in Sizes /\ n \in Nat /\ off \in 0 .. n /\ off \in 0 .. MaxSize
  BY <1>5, <1>7, SizeAssumption DEF Sizes
<1>9. Len(Content(x)) = sz
  BY <1>5, <1>6
<1> DEFINE new == IF grow THEN n ELSE sz
<1>10. ent'[f].data = r.ptr /\ ent'[f].size = new
  <2>1. CASE grow
    <3>1. r \in Krealloc(old, n)
      BY <1>4, <2>1
    <3>2. r.ptr \in Pointers
      BY <1>5, <1>8, <3>1, KreallocOK
    <3>3. \/ ent' = UpdateDataAll(ent, x, old, r.ptr, n)
          \/ ent' = UpdateOne(ent, f, r.ptr, n)
      BY <1>4, <2>1
    <3> HIDE DEF n
    <3>4. ent'[f].data = r.ptr /\ ent'[f].size = n
      BY <1>1, <1>8, <3>2, <3>3, NameInvTree, FirstUpdated DEF f
    <3> QED
      BY <2>1, <3>4
  <2>2. CASE ~grow
    BY <1>4, <2>2
  <2> QED
    BY <2>1, <2>2
<1>11. Content(x)' = [i \in 1 .. new |-> mem'[r.ptr][i]]
  BY <1>3, <1>10, ContentIsNext
<1>12. new = PX!Larger(Len(Content(x)), n)
  <2>1. CASE grow
    <3>1. old = NULL => sz = 0
      BY <1>5, <1>6, HeapAssumption DEF HeapOK
    <3> QED
      BY <1>5, <1>8, <1>9, <2>1, <3>1 DEF PX!Larger
  <2>2. CASE ~grow
    BY <1>5, <1>8, <1>9, <2>2 DEF PX!Larger
  <2> QED
    BY <2>1, <2>2
<1>13. ASSUME NEW i \in 1 .. new
       PROVE  /\ r.ptr \in DOMAIN z(r) /\ i \in 1 .. Len(z(r)[r.ptr])
              /\ i - off \in 1 .. Len(p) \/ z(r)[r.ptr][i] = PX!At(Content(x), i)
  <2>1. CASE grow
    <3>1. r \in Krealloc(old, n) /\ i \in 1 .. n
      BY <1>4, <2>1
    <3>2. gap \in Nat /\ gap = IF off > sz THEN off - sz ELSE 0
      BY <1>5, <1>8, <2>1
    <3>3. i - off \in 1 .. Len(p) \/ i <= off
      BY <1>7, <1>8, <3>1
    <3> HIDE DEF gap, n
    <3>4. /\ r.ptr \in DOMAIN z(r) /\ n <= Len(z(r)[r.ptr]) /\ Len(z(r)[r.ptr]) \in Nat
          /\ i <= sz \/ i <= off => z(r)[r.ptr][i] = PX!At(Content(x), i)
      BY <1>1, <1>8, <3>1, <3>2, Grown DEF f
    <3>5. i \in 1 .. Len(z(r)[r.ptr])
      BY <1>8, <3>1, <3>4
    <3> QED
      BY <3>3, <3>4, <3>5
  <2>2. CASE ~grow
    <3>1. r.ptr = old /\ r.mem = mem /\ gap = 0 /\ i \in 1 .. sz
      BY <1>4, <2>2
    <3>2. old \in DOMAIN mem /\ sz <= Len(mem[old]) /\ Len(mem[old]) \in Nat
      BY <1>5, <1>6, <3>1 DEF HeapOK
    <3>3. Zeros(0) \in Seq(Cells) /\ Len(Zeros(0)) = 0
      BY ZerosOK DEF Zeros
    <3>4. i \in 1 .. Len(mem[old])
      BY <1>5, <3>1, <3>2
    <3>5. z(r) = Poke(mem, old, sz, Zeros(0))
      BY <3>1
    <3>6. /\ old \in DOMAIN z(r) /\ Len(z(r)[old]) = Len(mem[old])
          /\ z(r)[old][i] = mem[old][i]
      <4>1. old \in DOMAIN z(r) /\ Len(z(r)[old]) = Len(mem[old])
        BY <1>5, <3>2, <3>3, <3>5, PokeOK
      <4> DEFINE w == Zeros(0)
      <4>2. z(r) = Poke(mem, old, sz, w)
        BY <3>5
      <4>3. Len(w) = 0
        BY <3>3
      <4> HIDE DEF z, w
      <4>4. z(r)[old][i] = IF i - sz \in 1 .. Len(w) THEN w[i - sz] ELSE mem[old][i]
        BY <3>2, <3>4, <4>2 DEF Poke
      <4> QED
        BY <1>5, <4>1, <4>3, <4>4
    <3>7. PX!At(Content(x), i) = mem[old][i]
      BY <1>5, <1>6, <1>9, <3>1 DEF PX!At
    <3> HIDE DEF z
    <3> QED
      BY <3>1, <3>4, <3>6, <3>7
  <2> QED
    BY <2>1, <2>2
<1>14. ASSUME NEW i \in 1 .. new
       PROVE  mem'[r.ptr][i] = IF off < i /\ i <= n THEN p[i - off] ELSE PX!At(Content(x), i)
  <2> HIDE DEF z
  <2>1. mem'[r.ptr][i] = IF i - off \in 1 .. Len(p) THEN p[i - off] ELSE z(r)[r.ptr][i]
    BY <1>4, <1>13 DEF Poke
  <2>2. i - off \in 1 .. Len(p) <=> off < i /\ i <= n
    BY <1>5, <1>7, <1>8
  <2> QED
    BY <1>13, <2>1, <2>2
<1>15. Content(x)' = PX!Overwrite(Content(x), off, p)
  <2> HIDE DEF off, new
  <2> QED
    BY <1>11, <1>12, <1>14 DEF PX!Overwrite
<1>16. AbsData[x] = Content(x)
  BY <1>1 DEF AbsData
<1>17. UNCHANGED PX!nsVars
  BY <1>2, DataRefines DEF NS!nsVars, PX!nsVars
<1>18. PX!PWrite(x, off, p)
  <2> HIDE DEF off
  <2> QED
    BY <1>3, <1>7, <1>15, <1>16, <1>17 DEF PX!PWrite, AbsData
<1> QED
  BY <1>1, <1>8, <1>18

\* The regular files are the inode numbers that names lead to, directories apart.
LEMMA FilesInUse ==
  ASSUME NameInv
  PROVE  {y \in PX!Used : y \notin AbsDirs} = RegularFiles
<1>1. ASSUME NEW y PROVE y \in PX!Used <=> \E k \in DOMAIN ent : ent[k].ino = y
  BY DEF PX!Used
<1> QED
  BY <1>1, RegularIff

\* The same after a step.
LEMMA FilesInUseNext ==
  ASSUME NameInv'
  PROVE  {y \in PX!Used' : y \notin AbsDirs'} = RegularFiles'
<1>1. ASSUME NEW y PROVE y \in PX!Used' <=> \E k \in DOMAIN ent' : ent'[k].ino = y
  BY DEF PX!Used
<1> QED
  BY <1>1, RegularIffNext

\* A handler on names leaves the bytes of the files that stay, and a new file is
\* empty.
LEMMA NamesFollow ==
  ASSUME Inv, Inv', OneName(ent), NEW k \in Keys,
         Create(k) \/ Mkdir(k) \/ Unlink(k) \/ Rmdir(k),
         \A l \in DOMAIN ent' : l \in DOMAIN ent =>
            ent'[l].ino = ent[l].ino /\ ent'[l].dir = ent[l].dir,
         \A l \in DOMAIN ent' : l \notin DOMAIN ent =>
            ent'[l].size = 0 /\ \A m \in DOMAIN ent : ent[m].ino # ent'[l].ino
  PROVE  PX!Follows
<1>1. NameInv /\ NameInv' /\ TreeOK(ent') /\ DirNames(ent)
  BY DEF Inv, NameInv, TypeOK, TreeOK
<1>2. ASSUME NEW y \in RegularFiles'
      PROVE  Content(y)' = IF y \in RegularFiles THEN Content(y) ELSE <<>>
  <2>1. PICK l \in DOMAIN ent' : ent'[l].ino = y
    BY <1>1, RegularIffNext
  <2>2. LinksOf(y)' # {} /\ First(y)' \in LinksOf(y)'
    BY <1>1, <2>1, FirstIsALinkNext DEF LinksOf
  <2>3. First(y)' \in DOMAIN ent' /\ ent'[First(y)'].ino = y
    BY <2>2 DEF LinksOf
  <2>4. CASE l \in DOMAIN ent
    <3>1. ent[l].ino = y
      BY <2>1, <2>4
    <3>2. ~ ent[l].dir
      <4>1. y \notin AbsDirs'
        BY <1>1, RegularIffNext
      <4> QED
        BY <2>1, <2>4, <4>1 DEF AbsDirs
    <3>3. y \in RegularFiles
      BY <1>1, <2>4, <3>1, <3>2, FilesAreNoDirs, RegularIff
    <3>4. First(y)' = First(y)
      BY <1>1, <2>1, <2>2, <2>4, <3>1, FirstIsTheEntry
    <3> QED
      BY <3>3, <3>4, NamesKeepContent
  <2>5. CASE l \notin DOMAIN ent
    <3>1. y \notin RegularFiles
      BY <1>1, <2>1, <2>5, RegularIff
    <3>2. First(y)' \notin DOMAIN ent
      BY <2>1, <2>3, <2>5
    <3>3. ent'[First(y)'].size = 0
      BY <2>3, <3>2
    <3>4. Content(y)' = <<>>
      <4> DEFINE g == First(y)'
      <4>1. g \in DOMAIN ent' /\ ent'[g].size = 0
        BY <2>3, <3>3
      <4>2. Content(y)' = [i \in 1 .. ent'[g].size |-> mem'[ent'[g].data][i]]
        BY <2>3, ContentIsNext
      <4> HIDE DEF g
      <4> QED
        BY <4>1, <4>2
    <3> QED
      BY <3>1, <3>4
  <2> QED
    BY <2>4, <2>5
<1>3. AbsData' = [y \in RegularFiles' |-> IF y \in RegularFiles THEN Content(y) ELSE <<>>]
  BY <1>2 DEF AbsData
<1>4. DOMAIN AbsData = RegularFiles /\ \A y \in RegularFiles : AbsData[y] = Content(y)
  BY DEF AbsData
<1>5. AbsData' = [y \in {z \in PX!Used' : z \notin AbsDirs'} |->
                     IF y \in DOMAIN AbsData THEN AbsData[y] ELSE <<>>]
  BY <1>1, <1>3, <1>4, FilesInUseNext
<1> QED
  BY <1>5 DEF PX!Follows, AbsData, AbsDirs

\* Names that stay the same, with files that follow them, are a stutter.
LEMMA FollowsStutter ==
  ASSUME NameInv, PX!Follows, UNCHANGED NS!nsVars
  PROVE  UNCHANGED PX!posixVars
<1>1. AbsNames' = AbsNames /\ AbsDirs' = AbsDirs
  BY DEF NS!nsVars, AbsNames, AbsDirs
<1>2. PX!Used' = PX!Used
  BY <1>1 DEF PX!Used, AbsNames
<1>3. {z \in PX!Used' : z \notin AbsDirs'} = RegularFiles
  BY <1>1, <1>2, FilesInUse
<1>4. AbsData' = [y \in {z \in PX!Used' : z \notin AbsDirs'} |->
                     IF y \in DOMAIN AbsData THEN AbsData[y] ELSE <<>>]
  BY DEF PX!Follows, AbsData, AbsDirs
<1>5. AbsData' = AbsData
  BY <1>3, <1>4 DEF AbsData
<1> QED
  BY <1>1, <1>5 DEF PX!posixVars, AbsNames, AbsDirs, AbsData

\* A step on names that the files follow is a step of the POSIX file system.
LEMMA FollowsStep ==
  ASSUME Inv, [Next]_vars, PX!Follows
  PROVE  [PX!PNext]_(PX!posixVars)
<1>1. NameInv
  BY DEF Inv
<1>2. CASE UNCHANGED NS!nsVars
  BY <1>1, <1>2, FollowsStutter
<1>3. CASE NS!NSNext
  <2>1. PX!NSNext
    BY <1>3 DEF NS!NSNext, NS!NSStep, NS!NSMake, NS!NSLink, NS!NSRemove, NS!NSUnmount, NS!Bind,
                NS!Used, PX!NSNext, PX!NSStep, PX!NSMake, PX!NSLink, PX!NSRemove,
                PX!NSUnmount, PX!Bind, PX!Used
  <2> QED
    BY <2>1 DEF PX!PNext, PX!PNames
<1> QED
  BY <1>2, <1>3, NextRefines

\* Every step of the tree is a step of the POSIX file system or a stutter.
LEMMA NextIsPosix ==
  ASSUME Inv, Inv', OneName(ent), [Next]_vars, MaxLinks <= 1, "copy" \notin Faults
  PROVE  [PX!PNext]_(PX!posixVars)
<1>1. NameInv /\ TypeOK /\ 0 \in Sizes /\ NameInv'
  BY SizeAssumption DEF Inv, NameInv, Sizes
<1>2. ASSUME NEW k \in Keys, Create(k) \/ Mkdir(k) PROVE PX!Follows
  <2>1. PICK isDir \in BOOLEAN : Make(k, isDir)
    BY <1>2 DEF Create, Mkdir
  <2>2. \/ ent' = ent
        \/ /\ DOMAIN ent' = DOMAIN ent \cup {k}
           /\ ent'[k] = NewEntry(k, isDir)
           /\ \A l \in DOMAIN ent : SameBody(ent'[l], ent[l])
    BY <1>1, <2>1, MakeEffect
  <2>3. NewEntry(k, isDir).size = 0 /\ NewEntry(k, isDir).ino = nextIno
    BY DEF NewEntry
  <2>4. \A m \in DOMAIN ent : ent[m].ino < nextIno /\ ent[m].ino \in Nat /\ nextIno \in Nat
    BY <1>1, InoAssumption DEF NameInv, TypeOK, Entry, Inos
  <2>5. \A m \in DOMAIN ent : ent[m].ino # nextIno
    BY <2>4
  <2>6. /\ \A l \in DOMAIN ent' : l \in DOMAIN ent =>
             ent'[l].ino = ent[l].ino /\ ent'[l].dir = ent[l].dir
        /\ \A l \in DOMAIN ent' : l \notin DOMAIN ent =>
             ent'[l].size = 0 /\ \A m \in DOMAIN ent : ent[m].ino # ent'[l].ino
    BY <2>2, <2>3, <2>5 DEF SameBody
  <2> QED
    BY <1>2, <2>6, NamesFollow
<1>3. ASSUME NEW k \in Keys, Unlink(k) \/ Rmdir(k) PROVE PX!Follows
  <2>1. /\ DOMAIN ent' = DOMAIN ent \ {k}
        /\ \A l \in DOMAIN ent \ {k} : ent'[l].ino = ent[l].ino /\ ent'[l].dir = ent[l].dir
    BY <1>1, <1>3, UnlinkEffect, RmdirEffect DEF SameBody
  <2> QED
    BY <1>3, <2>1, NamesFollow
<1>4. CASE Unmount \/ Mount
  <2>1. AbsNames' = <<>> /\ AbsDirs' = {}
    BY <1>4, EmptyNamesNext DEF Unmount, Mount
  <2>2. RegularFiles' = {}
    <3>1. DOMAIN ent' = {}
      BY <1>4 DEF Unmount, Mount
    <3> QED
      BY <1>1, <3>1, RegularIffNext
  <2>3. {z \in PX!Used' : z \notin AbsDirs'} = {}
    BY <1>1, <2>2, FilesInUseNext
  <2>4. AbsData' = [y \in {z \in PX!Used' : z \notin AbsDirs'} |->
                     IF y \in DOMAIN AbsData THEN AbsData[y] ELSE <<>>]
    BY <2>2, <2>3 DEF AbsData
  <2>5. PX!Follows
    BY <2>4 DEF PX!Follows, AbsData, AbsDirs
  <2> QED
    BY <2>5, FollowsStep
<1>5. ASSUME NEW x \in RegularFiles, NEW off \in 0 .. MaxSize, NEW p \in Payloads,
             PX!PWrite(x, off, p)
      PROVE  PX!PNext
  BY <1>5 DEF PX!PNext
<1>6. ASSUME NEW x \in RegularFiles, NEW n \in Sizes, PX!PTruncate(x, n)
      PROVE  PX!PNext
  BY <1>6 DEF PX!PNext, Sizes
<1>7. ASSUME NEW x \in Inos, NEW append \in BOOLEAN, NEW o \in Sizes, NEW p \in Payloads,
             Write(x, append, o, p)
      PROVE  PX!PNext
  BY <1>5, <1>7, WriteBytes
<1>8. ASSUME NEW x \in Inos, NEW n \in Sizes, Setattr(x, n) PROVE PX!PNext
  BY <1>6, <1>8, SetattrBytes
<1>9. ASSUME NEW x \in Inos, OpenTrunc(x) PROVE PX!PNext
  BY <1>1, <1>6, <1>9, OpenTruncBytes
<1>10. CASE UNCHANGED vars
  <2>1. AbsNames' = AbsNames /\ AbsDirs' = AbsDirs
    BY <1>10 DEF vars, AbsNames, AbsDirs
  <2>2. AbsData' = AbsData
    BY <1>10 DEF vars, AbsData, RegularFiles, Content, First, Earliest, LinksOf
  <2> QED
    BY <2>1, <2>2 DEF PX!posixVars, AbsNames, AbsDirs, AbsData
<1>11. \A k \in Keys, x \in Inos : ~ Link(k, x)
  BY <1>1, LinkIsOff
<1>12. ASSUME NEW k \in Keys, Create(k) \/ Mkdir(k) \/ Unlink(k) \/ Rmdir(k)
       PROVE  [PX!PNext]_(PX!posixVars)
  BY <1>2, <1>3, <1>12, FollowsStep
<1> QED
  BY <1>1, <1>4, <1>7, <1>8, <1>9, <1>10, <1>11, <1>12 DEF Next

\* Without hard links and failing copies, programs see what POSIX promises of the
\* names and of the bytes: a write, a truncation and O_TRUNC change the bytes of
\* one file as POSIX says, whatever krealloc does, and nothing else changes any.
THEOREM TreeImplementsPosixFs ==
  ASSUME MaxLinks <= 1, "copy" \notin Faults
  PROVE  Spec => ImplementsPosixFs
<1>1. Init => PX!PInit
  <2>1. Init => AbsNames = <<>> /\ AbsDirs = {}
    BY EmptyNames DEF Init
  <2>2. Init => AbsData = <<>>
    <3>1. Init => RegularFiles = {}
      BY DEF Init, RegularFiles, LinksOf
    <3> QED
      BY <3>1 DEF AbsData
  <2> QED
    BY <2>1, <2>2 DEF PX!PInit, PX!NSInit, AbsNames, AbsDirs, AbsData
<1>2. Inv /\ Inv' /\ OneName(ent) /\ [Next]_vars => [PX!PNext]_(PX!posixVars)
  BY NextIsPosix
<1> QED
  BY <1>1, <1>2, Invariance, OneNameEach, PTL DEF Spec, ImplementsPosixFs, PX!PosixSpec
=============================================================================
