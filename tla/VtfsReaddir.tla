---------------------------- MODULE VtfsReaddir ----------------------------
(***************************************************************************)
(* A program reads one directory with several calls of vtfs_iterate while  *)
(* entries come and go between the calls.  Within a call nothing changes:  *)
(* the directory's semaphore, and the VFS's lock of its inode, are held.   *)
(* All that is kept from one call to the next is ctx->pos.                 *)
(***************************************************************************)
EXTENDS Naturals, Sequences, FiniteSets

CONSTANTS Entries     \* entries that can be in the directory

\* Memory is finite.
ASSUME EntriesAssumption == IsFiniteSet(Entries)

VARIABLES files,      \* dir->files
          pos,        \* ctx->pos; "." and ".." are at 0 and 1
          shown,      \* how often dir_emit has passed each entry (2: or more)
          there,      \* the entries that have been in the directory all along
          removed,    \* an entry was removed since the pass began
          ended       \* a call had nothing to emit: the pass is over

vars == <<files, pos, shown, there, removed, ended>>

Present == {files[i] : i \in DOMAIN files}

Init == /\ files = <<>>
        /\ pos = 0
        /\ shown = [e \in Entries |-> 0]
        /\ there = {}
        /\ removed = FALSE
        /\ ended = FALSE

\* opendir, or rewinddir at the end of a pass
Rewind == /\ ended
          /\ ended' = FALSE
          /\ pos' = 0
          /\ shown' = [e \in Entries |-> 0]
          /\ there' = Present
          /\ removed' = FALSE
          /\ UNCHANGED files

\* Fault: the two dots are not counted.
Skipped_Dots(p) == IF p > 2 THEN p - 1 ELSE 0

\* files_to_skip
Skipped(p) == IF p > 2 THEN p - 2 ELSE 0

\* Fault: the entries that have been emitted are not counted.
Iterate_NotCounted(n) ==
  LET dots == IF pos < 2 THEN 2 - pos ELSE 0
      out  == {i \in DOMAIN files : i > Skipped(pos) /\ i + dots <= Skipped(pos) + n}
  IN /\ ~ended
     /\ pos' = IF n < dots THEN pos + n ELSE pos + dots
     /\ shown' = [e \in Entries |->
                    IF \E i \in out : files[i] = e THEN IF shown[e] = 0 THEN 1 ELSE 2 ELSE shown[e]]
     /\ ended' = (dots = 0 /\ out = {})
     /\ UNCHANGED <<files, there, removed>>

\* A call of vtfs_iterate: the program's buffer has room for n entries, the two
\* dots included.
Iterate(n) ==
  LET dots == IF pos < 2 THEN 2 - pos ELSE 0
      out  == {i \in DOMAIN files : i > Skipped(pos) /\ i + dots <= Skipped(pos) + n}
  IN /\ ~ended
     /\ pos' = IF n < dots THEN pos + n ELSE pos + dots + Cardinality(out)
     /\ shown' = [e \in Entries |->
                    IF \E i \in out : files[i] = e THEN IF shown[e] = 0 THEN 1 ELSE 2 ELSE shown[e]]
     /\ ended' = (dots = 0 /\ out = {})
     /\ UNCHANGED <<files, there, removed>>

\* Fault: the new entry goes to the head of the list.
Add_Head(e) ==
  /\ e \notin Present
  /\ files' = <<e>> \o files
  /\ UNCHANGED <<pos, shown, there, removed, ended>>

\* list_add_tail, in vtfs_create_file and vtfs_link
Add(e) ==
  /\ e \notin Present
  /\ files' = Append(files, e)
  /\ UNCHANGED <<pos, shown, there, removed, ended>>

\* list_del, in vtfs_unlink and vtfs_rmdir.  An entry added later under the same
\* name is another one, which has not been shown.
Delete(e) ==
  /\ \E i \in DOMAIN files :
        /\ files[i] = e
        /\ files' = SubSeq(files, 1, i - 1) \o SubSeq(files, i + 1, Len(files))
  /\ there' = there \ {e}
  /\ shown' = [shown EXCEPT ![e] = 0]
  /\ removed' = TRUE
  /\ UNCHANGED <<pos, ended>>

Read == \E n \in 1 .. Cardinality(Entries) + 2 : Iterate(n)

Next == \/ Rewind
        \/ Read
        \/ \E e \in Entries : Add(e) \/ Delete(e)

Spec == Init /\ [][Next]_vars

\* The program calls getdents until it returns nothing; the others need not run.
FairSpec == Spec /\ WF_vars(Read)
-----------------------------------------------------------------------------
(* Properties *)

\* Type invariant.
TypeOK == /\ files \in Seq(Entries) /\ \A i, j \in DOMAIN files : files[i] = files[j] => i = j
          /\ pos \in 0 .. Cardinality(Entries) + 2
          /\ shown \in [Entries -> 0 .. 2]
          /\ there \subseteq Present
          /\ removed \in BOOLEAN /\ ended \in BOOLEAN

\* No entry is listed twice in a pass, whatever is added and removed between two
\* calls: resuming by a count never goes back over the list.
ShownOnce == \A e \in Entries : shown[e] <= 1

\* A pass during which nothing is removed lists every entry that was there when
\* it began, however small the buffer and whatever is added meanwhile.
NothingMissed == ended /\ ~removed => \A e \in there : shown[e] = 1

\* A pass comes to its end although entries are added and removed for ever.
PassEnds == []<>ended
=============================================================================
