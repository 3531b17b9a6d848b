# VTFS: specifications and proofs

VTFS is a Linux file system module (`src/source/vtfs.c`, `src/source/http.c`) with two modes.
In *RAM mode* a mounted file system is a tree of kmalloc'ed records. In *server mode* (mount
option `token=...`) each change is also sent over HTTP to a Spring Boot server
(`src/server/...`), which keeps two PostgreSQL tables; the next mount loads the tree from there.

This directory holds TLA+ modules that model the code, TLC configurations that check them on
small instances, and proofs, checked by TLAPS, of what holds for every instance. Line numbers
refer to the repository (`vtfs.c:851` is `src/source/vtfs.c`, line 851); `PROJECT.json` maps each
definition to the lines it stands for.

## 1. The system: components, state, operations

| Component | State | Operations | What is hard |
|---|---|---|---|
| In-memory tree, `vtfs.c` | `struct vtfs_file` records in per-directory lists, `next_ino`, data buffers shared by hard links | VFS handlers create, mkdir, link, unlink, rmdir, read, write, getattr, setattr, open, fill_super, kill_sb | hard links keep a *copy* of pointer and size each; the "file" of an inode number is whichever entry a recursive walk meets first; krealloc in place or not; `ZERO_SIZE_PTR`; partial failures |
| Locking, `vtfs.c` | one `rw_semaphore` per directory | down/up in each handler and in the recursive walks | walks nest semaphores; directories come and go under them; `next_ino`, data pointers and link counts are used outside of any lock that covers them |
| Lookup, readdir, attributes, `vtfs.c` | position of an open directory; inode objects with i_size, i_nlink | lookup, iterate, getattr | readdir resumes by counting entries; each lookup makes an inode object of its own |
| Server mode, `vtfs.c` | none of its own beyond `token`, `use_server` | `vtfs_server_*` calls in the handlers, `vtfs_server_load_files` at mount | errors are ignored ("Continue anyway"); link counts and data are not restored at mount; the answer to a committed request may be lost; crashes |
| HTTP client, `http.c` | socket, request and raw buffer of one call | one connection per request, read to the end, parse; base64 of written data | answers in pieces, buffers of fixed size that are not cleared, no timeout, seven steps that can fail |
| REST controller | none | maps results and exceptions to error codes | number formats |
| `VtfsService`, repositories, entities | tables `vtfs_files`, `vtfs_file_data` with a foreign key | list, create, mkdir, read, write, delete, link, unlink: one transaction each | no unique constraint; queries by inode number meant for one row; chunks replaced as a whole |
| Module start, mount options; scripts, build, configuration | | | |

The VFS calls the handlers; the handlers call the tree's helpers and, in server mode, the server,
after the local change (unlink, link, write, rmdir) or before it (create, mkdir). The server
never calls back. Two mounts with one token share the server's tables and nothing else.

What makes each component correct:

- *Tree*: link counts are exact; the tree stays a tree; a handler adds or removes one name; no
  entry points to freed memory or past its buffer; files do not share buffers; files with one
  name read as POSIX says and leak nothing.
- *Locking*: semaphores are taken in one order, nobody waits in a circle, none is freed in use,
  and every handler returns.
- *Readdir*: an entry that stays is listed once, and a pass ends.
- *Server mode*: the tree never shows what the server does not have; when requests arrive, tree
  and database agree, and unmounting, crashing and mounting again change no name.
- *HTTP client*: a call frees what it takes, accepts whole answers only, and ends.
- *Database*: names are unique; counts equal rows; the chunks of a file are disjoint, owned and
  within its size; what was written is read back; tokens do not touch each other.

## 2. Modules

| Module | What it is |
|---|---|
| `NameSpace` | abstract: names of files and directories; one name comes or goes per step |
| `PosixFs` | abstract: `NameSpace` and the bytes of each file as POSIX defines them |
| `VtfsTree` | the tree of `vtfs.c` in RAM mode, with its heap |
| `VtfsTreeProofs` | TLAPS: the inductive invariant of `VtfsTree` and what follows from it |
| `VtfsTreeRefines` | TLAPS: `VtfsTree` implements `NameSpace` and, for files with one name, `PosixFs` |
| `VtfsServer` | the two tables and the transactions of `VtfsService` |
| `VtfsServerProofs` | TLAPS: the inductive invariant of `VtfsServer` |
| `VtfsRemote` | server mode: `VtfsTree` (EXTENDS) composed with `VtfsServer` (INSTANCE), with lost messages, crashes and remounts |
| `VtfsRemoteProofs` | TLAPS: what the tree shows is stored; files read as bytes that were written; the database implements `NameSpace`; with messages that arrive, tree and database agree and names outlast the mounts |
| `VtfsLocks` | the semaphores as handlers that overlap in time take them |
| `VtfsLocksProofs` | TLAPS: the inductive invariant of `VtfsLocks` |
| `VtfsRaces` | create, link and unlink cut where they use fields that no semaphore protects |
| `VtfsRacesProofs` | TLAPS: what holds of them however they overlap, and what holds while two things do not happen |
| `VtfsReaddir` | a directory read by several calls of `vtfs_iterate` |
| `VtfsReaddirProofs` | TLAPS: the inductive invariant of `VtfsReaddir` |
| `VtfsHttp` | one call of `vtfs_http_call` after the other, with the server and the connection |
| `VtfsCodec` | base64 and mode conversions, for `VtfsHttp` |
| `VtfsHttpProofs` | TLAPS: the inductive invariant of `VtfsHttp`; base64 and modes for every input |
| `MCVtfsTree`, `MCVtfsServer`, `MCVtfsRemote`, `MCVtfsHttp`, `MCVtfsRaces` | instances for TLC |

Definitions whose comment starts with "Fault" (`Place_AtEnd`, `Unlink_FreesData`, ...) are not
part of the model. Each is a plausible bug in the definition that follows it; with the bug put in
its place the property that `PROJECT.json` names must fail, which shows that the property
depends on the code.

### 2.1 VtfsTree

`ent` maps `<<inode number of the directory, name>>` to a `struct vtfs_file`: `ino`, `dir`
(S_ISDIR of `mode`), `nlink`, `data`, `size` (`data_size`). The lists themselves are replaced by
`at`, the entry's place in the depth-first walk of `vtfs_find_file_by_ino`: nothing else depends on
their order, and `First(x)`, the entry with the least place, is what that function returns.
`list_add_tail` puts a new entry behind everything in its directory and beneath it (`Place`).
`WalkOrder` says that places really are those of a walk.

`mem` maps each allocated address to its bytes. A buffer has the usable size of its kmalloc class
(`SizeClass`), new bytes are `Junk`, and `Krealloc` stays in place while the new size fits, as the
kernel's does. `Fresh` lets an allocation reuse any freed address. `data` may be `NULL`, `ZERO`
(`ZERO_SIZE_PTR`, which the code takes for a buffer) or an address.

One action is one handler from entry to return, all its helpers included. A handler that
returns an error before it changes anything would be a stutter and has no disjunct. Failures after a
change are in the model: `next_ino` stays taken when an entry or an inode cannot be allocated
(`"nomem"`), a file has grown when the copy from user space fails (`"copy"`), and
`vtfs_cleanup_dir` leaks a buffer whose list node it cannot allocate. Reading changes nothing in RAM
mode; `Content` is what a read of the whole file returns. `Mount` starts with an empty tree, while
buffers leaked before stay allocated. Handlers do not overlap in this module.

### 2.2 VtfsServer

`rows` maps the primary key to a row of `vtfs_files`; `chunks` is `vtfs_file_data`. (It is a set: a write
removes the chunks that meet its range, so that identical chunks could only be empty ones, made by writes that begin
with a zero byte; no query tells one from two.) One action is one transaction, with any parameters: the controller checks none. A request that is refused, or that
throws and is rolled back, is a stutter. Points where the model follows JPA and PostgreSQL rather
than the Java text alone:

- `findByTokenAndIno` returns an `Optional`: with two rows it throws (`IsOnly`).
- `deleteByTokenAndIno` of the files is a derived query: it loads the rows and removes them one by
  one, with their chunks (`CascadeType.ALL`).
- `deleteByTokenAndParentInoAndName` is a JPQL statement and does not cascade; the foreign key
  `file_id` makes it fail while a chunk references the row, at once, although the data would go
  next.
- A query without ORDER BY returns rows in any order: `Unlink` may take any row.

### 2.3 VtfsRemote

A handler of server mode is the action of `VtfsTree` together with its request to the database
(`RemoteUnlink == Unlink /\ RequestUnlink`, ...), or an action of its own where the order differs:
create and mkdir ask the server first and take its number; link takes the server's count when an
answer comes. A request is carried out or refused. What else can happen is in `Faults`:

- `"lost"`, `"answer"`: the request, or the answer of a transaction that has committed, is lost, on the way or because
  the client gets no memory (http.c:18, 183). The second request that create and mkdir send to take a row back
  is a request like the others.
- `"nomem"`: the entry or the inode of create and mkdir cannot be allocated (vtfs.c:855, 871).
- `"load"`: the same of the buffers and entries of a mount (vtfs.c:721, 787). An entry that is not made is left out
  with all that is beneath it (`Loadable`, `Loads`).
- `"copy"`: a write fails after the file has grown (vtfs.c:1398, 1404). It sends nothing.
- `"junk"`: `encode` reads behind the bytes of a write, up to the next zero byte (`Encoded`, at most `MaxBehind` bytes).
  A write with a zero byte in it is sent up to there.

Truncation sends nothing (`LocalOnly`). A read may
fetch bytes, which replace the buffer of the first entry and set its size to their number
(`RemoteRead`). `Crash` loses the tree and the heap, not the database. `Remount` is
`vtfs_server_load_files`: it lists directories from the root down; a list can be lost or be too long
for the 8 KiB answer buffer (`ListRoom`), and what is beneath it is not loaded; each entry has the
count one and no data.

### 2.4 VtfsLocks

A handler is the sequence of its phases: walks from the root (`"find"`, `"update"`) and work on the
list of one directory. A walk holds every directory on its path for reading; an update takes each for
writing, releases it, and takes it again for reading to go on below. `todo` is what a walk has read in
a list and not yet entered: it goes there by pointers that rmdir could have freed. Of the tree only the
directories are kept, with their numbers; mkdir and rmdir change it while others walk. mkdir takes its number before the
semaphore; when no inode can be allocated it takes its listed directory out again in a phase of its own (`"undo"`). The VFS locks the
inode of the directory whose names a handler changes exclusively (both directories in rmdir), and
shared in lookup and iterate. The `rw_semaphore` is external and modelled as first come, first
served: a reader does not overtake a writer that waits, which is what makes nested read locks dangerous.

All of this is under a condition, a conjunct of `Next`: `OneCounting`, no two mkdirs take one number. The code does not
see to it, for `next_ino++` (vtfs.c:1099) is under the lock of one directory only. With two directories of one
number `vtfs_get_dir` finds the first for both, whose inode the VFS has not locked, and nothing that follows
holds: rmdir of one frees what a handler of the other uses.

### 2.5 VtfsRaces

create, link and unlink are cut into the steps between which other threads can run: the load and the
store of `next_ino++`, the new entry in its list and, when no inode can be allocated for it, its removal (`RemoveFile`), the search for the first entry, the work under the semaphore of the directory,
the count read again after it, each directory of `vtfs_update_nlink_all` and
`vtfs_remove_all_by_ino`. A thread keeps the pointers it has found; a count read through one that has been
freed is any count. Handlers of one directory, or of one inode *object*, exclude each other;
`vtfs_lookup` calls `new_inode`, so that two names of one file have two objects. `Remount` is unmounting, which waits for the
handlers, and mounting again.

`Spec` has every overlap. `ApartSpec` has those in which the two things do not happen that break the tree (`KeptApart`): the load and the
store of `next_ino++` do not overlap with those of another create (`OneCounting`), and a lookup does not
give a file a second inode object (`OneObject`), as long as the VFS keeps the dentries of a file with several names. It allows
everything else: creates, links and unlinks that overlap, lookups of other files, pointers used after the semaphore
is released, counts stored by a walk that other threads' walks cross.

### 2.6 VtfsReaddir, VtfsHttp, VtfsCodec

`VtfsReaddir` keeps the list of one directory, `ctx->pos`, and what was emitted; the buffer of each
call has any size. `VtfsHttp` has one step for each thing `vtfs_http_call` does to its socket, request and raw
buffer, and the server and the connection beside it: the answer arrives in pieces, the connection
closes or breaks at any moment, and each call of kernel_recvmsg can fail. Of an answer only status and lengths count; the memory behind the
bytes received may hold the end of another head, or a zero byte behind the end of a line (`HeadsIn`): `strsep` then
leaves NULL, the parser goes on at NULL + 1 (http.c:107), and when it has read a length every check passes and the
copy is an oops (`pc = "oops"`), after which another thread calls. (A negative Content-Length, which the server
never sends, is refused as one that is missing or too long.) Requests carry written bytes through
`Encode` (`encode`, which stops at the first zero byte wherever that is) and modes through `AsDecimal`
(`%o` on one side, decimal on the other).

## 3. Runs

| Run | Checks | Bounds and why they are enough |
|---|---|---|
| `TreeHeap` | `WalkOrder`, `NlinkExact`, `TreeShape`, `NoDangling`, `OneOwner`, `SizeFits`, `ImplementsNameSpace`, `UnmountFreesOnce`, `ContentIsolation` | two inode numbers and two names (a directory and a file, or two files), two links, two buffers of two classes (1 and 2 bytes share one, so that krealloc both moves and stays), every offset and size up to 3; allocations and copies fail |
| `TreePosix` | `NoLeak`, `ImplementsPosixFs` | two files with one name each, three buffers (two in use and one to move to), two payloads, sizes up to 3 |
| `ServerTables` | `UniqueNames`, `NlinkCountsRows`, `ChunksDisjoint`, `ChunksOwned`, `TokenIsolation`, `ReadBack` | two tokens whose inode numbers and names coincide, three rows (a file with two links beside another file, numbers given again), writes of one and two bytes at every offset: chunks that meet, contain and touch each other |
| `RemoteLosses` | `TreeInDatabase`, `LoadedFits`, `NoNewJunk` | one regular file at a time in the tree under one name or two (constraint `OneFile`; the database may hold two, and a directory beside it), because what two files share, the allocator and the numbers, is the business of `TreeHeap` and `ServerTables`; all six `Faults`, crashes and remounts at any point; writes of one byte and of one with a zero byte behind it, one byte behind a write sent along (`MaxBehind`); sizes up to 2, in an allocator that gives exactly what is asked for. No step begins where a file reads as bytes nobody wrote (constraint `OnlyWritten`): `NoNewJunk` says nothing of it, and for the other two only its size counts |
| `RemoteDurable` | `Agree`, `ImplementsDurable` | four rows and numbers: nested directories, files, links of two names; entries and inodes that cannot be allocated; crashes and remounts between any two handlers; no data |
| `Locks` | `LockOrder`, `NoDeadlock`, `NoFreedSemaphore`, `HandlersReturn` | two threads in any of the handlers, three directories that come and go: chains and siblings, a walk inside a directory while it is removed by rmdir or by the mkdir that made it. Larger instances are covered by the proofs |
| `RacesApart` | `LastName`, `PointersLive`, `CountsSettle`, `EntriesOnce` | two threads in two directories with the overlaps of `ApartSpec` (creates that take their entry out again among them), two numbers, three entries and three inode objects: a file with three names, or with two beside another file on which the other thread works. `EntriesOnce` is proved for every overlap |
| `Readdir` | `ShownOnce`, `NothingMissed`, `PassEnds` | four entries and buffers of every size: a pass of up to seven calls |
| `Http` | `TypeOK`, `NothingHeld`, `AcceptedIsWhole`, `WholeIsAccepted`, `CallEnds`, `DecodesBack`, `KindSurvives` | lengths at a scale of a few bytes, with heads and bodies below, at and above each limit; all writes of up to four bytes of six values (every remainder modulo three); all 512 modes |

The type invariants (`TypeOK` of each module) are proved for every instance; `Http` checks the one that says
more than types, that `receive_all` never reads past its buffer.

The abstract specifications: `ImplementsNameSpace` says that the tree implements `NameSpace` under the
mapping of entries to names; `ImplementsPosixFs` that contents are POSIX's; `ImplementsDurable` that
the composition of tree and server implements `NameSpace` *without* its unmounting step, under a mapping
that shows the tree while mounted and the database while not.

The remaining runs each end in a counterexample, a disagreement between the code and what the
repository says of it:

| Run | Counterexample |
|---|---|
| `TreeLinkContent` | `LinksKeepContent`. `touch a; ln a b; echo x > a; rm a`: `b` is empty. `vtfs_write` gives the first buffer to one entry only (vtfs.c:1388); `README.md:63` promises hard links. |
| `ServerUnlink` | `UnlinkRemovesLink`. A file with one row and data cannot be unlinked: the foreign key refuses the DELETE (VtfsService.java:189), against `README.md:297`. |
| `Races` | `LastName`. Two creates in different directories load the same `next_ino` (vtfs.c:851). The two files have one number; unlinking one finds the count one and removes the other's entry as well, against `README.md:27`. |

Some properties hold only under a condition, which they state or their run sets, since without it the
code breaks them:

- `UnmountFreesOnce`: no file has names in two directories (across directories `vtfs_cleanup_dir`
  frees the buffer once per directory).
- `ImplementsPosixFs`, `NoLeak`: files with one name, copies that succeed.
- `NoNewJunk`: files with one name, whose bytes are in memory, and for which the server has no byte that nobody wrote. A write
  that fails after the file has grown (vtfs.c:1398-1407) leaves what krealloc returned behind its offset, and the property allows it there only.
  A mount loads sizes without bytes: a write behind the first byte of such a file, before any read, makes its first byte
  whatever krealloc returned (vtfs.c:1370), although `README.md:228` says "Data is still there!".
- `TreeInDatabase`, `LoadedFits`: files with one name. With two, the server removes whichever row comes first, and
  `vtfs_read` frees the buffer that the other entry still points to.
- `Agree`, `ImplementsDurable`: requests and answers arrive, none fails for want of memory in the client, a mount's allocations succeed
  (one that fails takes names away until the next mount, vtfs.c:721, 787), and no file with two names is unlinked or mounted again
  (`KeepsLinks`): a mount gives each of its names the count one, so that removing one removes both.
- `NothingMissed`: nothing is removed during the pass; `vtfs_iterate` keeps a count, and skips one entry
  for each removal before its position.
- `LockOrder`, `NoDeadlock`, `NoFreedSemaphore`, `HandlersReturn`: `OneCounting` (section 2.4).
- `WholeIsAccepted`: no call of kernel_recvmsg fails; one that does (a signal while the client waits for the server to close) loses an
  answer that was read to its end (http.c:61).
- `AcceptedIsWhole`: an answer cut inside its head is not always refused: it may end in an oops. It is never accepted.
- `DecodesBack`: the data has no zero byte, one follows it in memory, and its encoding has no `+`.
- `LastName`, `PointersLive`, `CountsSettle`: the steps of `ApartSpec`. `LastName` is violated in a second way, which needs no overlapping
  creates: link and unlink of one file through two inode objects, in which one of them stores a count the other has overtaken
  (vtfs.c:1014).

Other disagreements met while modelling, which the models contain and no run singles out:
truncation is not sent to the server (vtfs.c:1450, 1512); a read of part of a reloaded file shrinks its size to that part
(vtfs.c:1306); a write over part of a chunk loses the rest of the chunk (VtfsService.java:101); a file with
two rows can be neither read nor written (VtfsService.java:50, 89); a link that the tree made stays when the server refuses it
(vtfs.c:1253); the check of a body's length lets eight bytes too many pass (http.c:121); permission bits
are sent in octal and read in decimal (vtfs.c:452); `encode` reads behind the data (http.c:209).

### Deadlock and fairness

Deadlock is checked in every run: some handler or request is always possible. Safety runs assume no
fairness. Three runs check liveness:

- `HandlersReturn` (`Locks`) assumes weak fairness of each thread's steps inside a handler: the kernel
  schedules a thread that can run, and `down_read`/`down_write` return in the order of the queue, as
  the rw_semaphore's handoff provides. Nobody is obliged to start a handler. The property needs more than the
  absence of deadlock: a walk must end although others make and remove directories all the time.
- `PassEnds` (`Readdir`) assumes that the program goes on calling getdents (`WF_vars(Read)`).
- `CallEnds` (`Http`) assumes that the kernel goes on with the call and that the server, while it
  runs, answers, closes, or drops a connection on which nothing comes. The second half is needed: `receive_all`
  has no timeout of its own.

## 4. Proofs

All proofs are for arbitrary values of the constants, under the assumptions named in the modules, which
TLC evaluates in every run.

Every invariant, action property and refinement that a passing run checks is also the statement of a
theorem. A few theorems need a condition on the constants; each is named below with what in the code
makes it necessary, and the run sets the same condition.

**Tree** (`VtfsTreeProofs`; `InoAssumption`, `SizeAssumption`, `HeapAssumption`): `TypeCorrect` (`TypeOK`),
`LinkCounts` (`NlinkExact`), `TreeShaped` (`TreeShape`), `HeapSafe` (`NoDangling`), `BuffersApart`
(`OneOwner`), `ReadsInside` (`SizeFits`), `ContentsApart` (`ContentIsolation`), `FreedOnce`
(`UnmountFreesOnce`), `WalksDepthFirst` (`WalkOrder`), `NothingLeaks` (`NoLeak`).

The inductive invariant is `Inv == NameInv /\ HeapInv`. `NameInv` adds to `TypeOK` and `NlinkExact`
that the tree is finite (counts are cardinalities), that inode numbers in use are below `next_ino` (a new file
shares no entry's count or data), that a directory's inode number has one entry (`DirNames`; so `First`
finds it), and that an entry's directory exists and has a smaller number (`DirTree`). `HeapInv` is the conjunction
`NoDangling /\ OneOwner /\ SizeFits`, inductive only together: a buffer can be freed or moved safely because the
entries that hold it are links of one file, all of which `vtfs_update_data_all` reaches, and an
unlink may free because an exact count of one means that no other entry holds the buffer.
Lemmas about the helpers say what they return for any tree; for each handler an `...Effect` lemma says
what it changes; the `...Keeps` lemmas derive the invariant from the effects, and the refinements use the
same effects. Beyond `Inv`:

- `ContentsApart` and `FreedOnce` are action properties that follow from `Inv` before the step.
- `WalksDepthFirst` needs `WalkInv`: besides `WalkOrder`, the places are the numbers from one to the number of entries,
  each given once (`Placed`). A new entry goes behind the last place of all that is in or beneath its directory; that
  this breaks no other directory's run is an argument about the directories that contain it, by the least
  place in question.
- `NothingLeaks` holds for `MaxLinks <= 1` and without `"nomem"`: a write through one of two names gives the first buffer to one
  entry only, and `vtfs_cleanup_dir` leaks when it cannot allocate a list node. The invariant adds that directories have no data.

`VtfsTreeRefines` proves `TreeImplementsNameSpace` (`ImplementsNameSpace`) and `TreeImplementsPosixFs`
(`ImplementsPosixFs`). The second is for `MaxLinks <= 1` and without `"copy"`, since a copy that
fails has already grown the file; it says of each handler which bytes of its file change and how, through
krealloc in place or moved, `ZERO_SIZE_PTR`, and bytes of the buffer that were never written.

**Database** (`VtfsServerProofs`; `ServerAssumption`): `TypeCorrect`, `NamesUnique` (`UniqueNames`), `LinkCounts`
(`NlinkCountsRows`), `DisjointChunks` (`ChunksDisjoint`), `ChunksHaveRows` (`ChunksOwned`), `TokensApart`
(`TokenIsolation`), `WritesAreRead` (`ReadBack`). The invariant is
the conjunction of the first five and that the table of files is finite; they need one another. A request names a file by its number and
its query picks any row: the count that it reads from that row is right only because every row of the number has it,
and a new row has a number of its own only because MAX+1 is larger than all of the token's. `ChunksOwned` carries the reuse of
numbers: MAX+1 may be the number of a deleted file, which must have left no chunk. `TokensApart` needs `ChunksOwned` as well, for
the cascade deletes by row and not by token; `WritesAreRead` needs that after a write no second chunk covers a byte of its range.

**Server mode** (`VtfsRemoteProofs`; the assumptions of `VtfsTree`). The module takes the lemmas of `VtfsTreeProofs` and
those of `VtfsServerProofs` (instantiated for one token) for the two halves of each handler. Its theorems are about
`LinkedSpec`, whose steps satisfy `KeepsLinks`: while a file has two names none of them is removed and the file system stays
mounted (see section 3 for what the code does otherwise).

- For all `Faults`: `ShownIsStored` (`TreeInDatabase`) and `LoadsFit` (`LoadedFits`). The invariant `RemoteInv` relates
  tree and database for each inode number (`InDb`): a file with an entry has a row, one with two rows has two entries, and an
  only entry is named by a row. The heap invariant of RAM mode does not hold in server mode, since `vtfs_read` replaces the buffer
  of the first entry alone; it is kept for the first entries of files (`HeadsFit`, `HeadsApart`), and of the others nothing is said.
- For all `Faults`: `JunkStaysOut` (`NoNewJunk`), an action property, under `JunkApart`: `Junk`, which stands for what nobody
  wrote, is neither zero nor a byte of a payload. A write that fails is shown to leave such bytes only where its own should have been. It follows from `RemoteInv` before and after the step, handler by handler:
  the bytes that krealloc adds are filled by the `memset` up to the offset or the new size and by the copy (`GrownClean`,
  `PokedClean`), what a read fetches comes from the server's chunks or is zero (`ReloadedFrom`), and a step on another file
  touches no buffer of this one, since the first entries of two files share none (`HeadsApart`).
- For all `Faults`: `RemoteTreeShaped` (`TreeShape` of a mount's tree), `RemoteWalk` (`WalkOrder`), and `StoredNameSpace`: the
  *database* implements `NameSpace` under the mapping of rows to names (`RNS`). The server does not ask whether a
  parent exists, and a lost request leaves rows that the mount no longer shows; the database stays a tree
  because each directory of the tree has its row there. The invariant `ShapeInv` adds to `RemoteInv` that the rows form a tree
  whose directories have larger numbers than their parents (`RowTree`), and the same of the entries. A mount after lost lists
  shows a tree because each row it loads lies in the root or in a directory it loads (`LoadedParent`, from `Loads` being a
  least set).
- Under `Reliable`: `TreesAgree` (`Agree`) and `MountsLast` (`ImplementsDurable`). `Reliable` says that no request or
  answer is lost, neither on the way nor for want of memory in the client, and that a mount's allocations succeed; `Payloads = {}`, because the server refuses to unlink a file with chunks, after which tree and database
  differ; `MaxLinks <= 2`, because `findByTokenAndIno` throws for a file with two rows, so that the server refuses a third name and
  the tree keeps it; and `Cardinality(Ids) <= ListRoom`, because longer lists are not loaded. The entries and inodes
  of create and mkdir may fail to be allocated, after which the second request takes the row back. `AgreeInv` adds to `ShapeInv` that each entry has a row that says the same of it and each row an
  entry (`Mirrors`). `LoadsAll` shows that a mount loads every row, by the least number of a directory that would be left out.

**Readdir** (`VtfsReaddirProofs`; `EntriesAssumption`): `TypeCorrect`, `ListedOnce` (`ShownOnce`), `ListedAll` (`NothingMissed`),
for directories of any size, buffers of any size and any insertions and removals between the calls. The invariant says that
what has been shown lies before the position (`ShownBefore`) and, while nothing is removed, that all before the position has
been shown (`BeforeShown`) and a pass that ended has been past every entry that was there (`PastAll`). The lemmas are about
the position of an entry in a list from which another one is taken.

**HTTP client** (`VtfsHttpProofs`; `SizesAssumption`, `AnswersAssumption`, `BytesAssumption`, `ModesAssumption`): `TypeCorrect`, `NoLeftovers` (`NothingHeld`),
`OnlyWholeAnswers` (`AcceptedIsWhole`), `AllWholeAnswers` (`WholeIsAccepted`), for answers, heads and buffers of any length, whatever the memory
behind them holds and whichever call of kernel_recvmsg fails. The invariant `CallInv` says for each step of a call which of socket and buffers it holds (`Holding`), how much of the answer has arrived and been
read (`Reading`), and when reading stops (`Ended`). `WritesSurvive` (`DecodesBack`) and `KindsSurvive` (`KindSurvives`) are
facts about data, for writes of any length and for every mode: `Encode` and `Decode` are functions of positions and not
recursive, so that three bytes and their four digits can be compared group by group, by arithmetic.

**Locks** (`VtfsLocksProofs`; `NumberAssumption`, `NoneAssumption`): `TypeCorrect`, `TopDown` (`LockOrder`),
`DeadlockFree` (`NoDeadlock`), `SemaphoresLive` (`NoFreedSemaphore`), for any set of threads, finite or not, and trees of any depth, under `OneCounting` (section 2.4). The invariant: directories
have larger numbers than their parents (`Downward`); queues hold exactly the threads that wait, once (`Queued`); the
VFS's locks exclude one another (`Exclusive`); whatever a walk holds, waits for or has yet to enter is the root or has
its parent held for reading by that walk (`Placed`); a thread waits below what it holds, and never
while it holds a semaphore for writing (`Ordered`); the phases left fit the inodes locked (`Planned`); nobody works in a directory that its mkdir
takes out again, for the VFS has not heard of it (`Unseen`). `NoDeadlock` follows by looking at
the largest semaphore anyone waits for: its holders wait for nothing, for they would wait for a larger one.
`NoFreedSemaphore` is preserved by rmdir and by mkdir's roll-back because a walk that could reach the directory holds its parent
for reading, which the writer of the parent excludes.

**Races** (`VtfsRacesProofs`; `NumbersAssumption`, `IdleAssumption`), for any set of threads, directories, names and inode objects.

- Of `Spec`, that is for every overlap: `TypeCorrect` and `EntriesFreedOnce` (`EntriesOnce`). Without any lock that covers counts or numbers, lists and memory stay whole, because
  an entry leaves its list in the step that decides who frees it. The invariant adds that the inode given to `vtfs_link` has a
  number (`LinkKnown`).
- Of `ApartSpec`: `PointersStayLive` (`PointersLive`), `CountsAreRight` (`CountsSettle`) and `LastNameGoes` (`LastName`). This is how the code
  avoids races where it does: not by its semaphores but by the VFS's lock of the inode object. The invariant `ApartInv` says that
  two handlers share neither directory nor inode object (`Locked`); that each still finds the dentries as they were when it was
  called (`Seen`); that no number in use has been passed by `next_ino`, and none taken by a create is in use (`Numbers`); and that an entry whose inode
  is being allocated is the only one with its name and with its number, so that taking it out frees no other (`Makings`). From these follows `Exclusive`:
  two threads in link or unlink work on different numbers, so that a count has one writer. Then for each number (`CountRight`): at rest
  all counts are right, and the thread at work on it knows how far it has come (`Progress`): the entry it found is still there, the count
  it holds is the number of entries, and the directories its walk has passed have it.

Only model-checked:

- `HandlersReturn`, `PassEnds`, `CallEnds`: liveness under fairness, which rests on ENABLED, is beyond the prover.
- The properties of the three runs that end in a counterexample. They are false of the code; what is true of it is in the theorems above,
  with the conditions named there.

## 5. Not modelled

- *Races on file->data.* write, read and setattr use the pointer with no semaphore. Two writers of one file can both pass it
  to krealloc, and after that nothing holds of the heap; a model would only say so. getattr uses a freed entry in the same way.
- *Overlapping transactions.* Under READ COMMITTED, without unique constraints, two creates
  can make one name or one number twice. Every property of `VtfsServer` is about one transaction at a time.
- *Two mounts of one token*: each keeps its own tree and never asks for what the other has done.
- *Attributes* (mode bits in the tree, i_size, i_nlink, times), symbolic strings and their lengths, among them
  the 2112 bytes of a request (http.c:18).
- *REST controller*: only that each refusal and each exception becomes an error; which code it is
  does not matter, for the kernel module tests for zero.
- *Falling back to RAM mode*: a mount that cannot copy its token (vtfs.c:1569, 1650) has no server, and says so nowhere.
- *Two directories with one number* (section 2.4).
- *Module start*: parsing of options, registration, Spring; logging; scripts and build files.

## 6. What could come next

1. `TreeInDatabase` for files with two names: the weakest condition on unlink and mount under which the tree still shows no
   file that the server does not have, in place of `KeepsLinks`.
2. `Agree` with data: the condition "no file with chunks is unlinked" as a restriction of the steps, in place of
   `Payloads = {}`.
3. Two mounts of one token, and overlapping transactions of the server.
