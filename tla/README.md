# fsx600 in TLA+

A verification project for the user-space file system in `main.c` (a FUSE file
system over an image file) and the programs around it. Specifications are
checked with TLC on small images; with TLAPS the safety of directories, of
read-img, of crashes, of the blocks and the contents of files, of put and get
and of the layout is proved for every image.

## 1. The system

| Part | Source | State | Operations | Modelled in |
|---|---|---|---|---|
| Directories and path translation | `main.c` 107-343, 392-530, 634-841 | inode bitmap, inode table, directory blocks | mknod, mkdir, unlink, rmdir, rename, path lookup | `FsNames` |
| Allocator | `main.c` 351-380 | block bitmap, inode bitmap | get_free_block, free_a_block, get_free_inode | `FsAlloc`, used by both halves; `FsThreads` |
| File data | `main.c` 536-632, 906-1352 | direct, indirect, double indirect pointers, size, blocks | read, write, truncate | `FsFile` |
| Start-up, crash | `main.c` 54-82 and every disk write | the image against the memory copies | fs_init | `FsCrash`, `FileCrash` |
| FUSE threads | `misc.c` 479, `main.c` | all globals, strtok's state | any two handlers | `FsThreads` (allocator) |
| Attributes | `main.c` 161-241, 849-894, 1367-1394 | mode, times | getattr, readdir, chmod, utime, statfs | `FsNames` (getattr, readdir) |
| Image device | `image.c` | file descriptor, size | read, write, fail | its range assertion, its writes |
| Shell | `misc.c` | piece size, working directory | put, get, rm, truncate, blksiz, cd, ... | `Shell` (file data) |
| mkfs-x6 | `mkfs-x6.c` | - | writes an empty image | `Mkfs`, initial states |
| read-img | `read-img.c` | - | checks an image | `ReadImg`, `MappedAllocated` in `FsFile` |
| mktest | `mktest.c` | - | writes one fixed image | `MkTest` |

The handlers share three global structures that `fs_init` loads: the inode
bitmap, the block bitmap and the inode table. Each handler reads directory and
file blocks from the image, changes them and the globals, and writes all of it
back; the inode table and the bitmaps are written as a whole. The shell of
`misc.c` and FUSE call the same handlers through `fs_ops`. The handlers never
wait, use no lock and keep no journal.

What is hard here:

* rmdir and rename find their entry twice: once by name among the valid slots,
  once by inode number among all the slots. unlink leaves name and number in the
  slot it clears. That both searches meet the same slot depends on every
  operation that ever filled or cleared a slot of that directory.
* A new directory and a file compete for blocks; an error found late in mknod
  has to give back what was taken.
* fs_write carries an offset, a length and three counters through three loops
  that fall through into each other, allocating tables on the way; the disk may
  fill up between any two blocks.
* Freed blocks come back as data, as directories or as tables, with the old
  contents still in them.
* There is no journal: what a crash leaves depends on the order in which each
  handler writes bitmaps, inodes, directory, tables and blocks.
* put and get cut a file into pieces whose boundaries fall anywhere in blocks.
* fuse_main runs handlers on threads, and nothing locks.

What makes each part correct: entries and bitmaps agree and the tree is a tree
(directories); a block has one owner (allocator); a file is the sequence of
bytes written to it, and reading returns them (file data); an image is sound
wherever the program ends (crash); what a command reports is what happened
(shell).

## 2. Modules

    FsAlloc -- FsNames -- ReadImg -- MkTest        NameTree  (implemented by FsNames)
       |          |          :
       |          +------ FsCrash (over the image: ReadImg)
       |
       +------ FsFile --- Shell                    FileStore (implemented by FsFile)
       |          +------ FileCrash (over the image: FsFile)
       +------ FsThreads                           Mkfs

**`FsAlloc`** has the layout of an image (`start_block`, `max_num_blocks`) and
the two block allocator functions as operators on a bitmap, which is the set of
its set bits.

**`FsNames`** is the directory half. A variable per global: `inode_map`,
`block_map`, `inodes` (file type and `direct[0]`), and `dirents`, the entries
in each block of the data region. A handler is one action: they run one at a
time in the shell and under FUSE with `-s`. `mknod_errno`, `unlink_errno`,
`rmdir_errno` and `rename_errno` are the early returns in the order of the
code; a call that fails leaves the state alone. mknod's error paths that take
an inode and give it back have no effect outside the call. Names are sequences
of characters because `Overwrite`, the `strncpy` without terminator in
fs_rename, works on them. `FileData` stands for write and truncate and, like
the truncation in unlink, moves file blocks in and out of the bitmap freely;
the comment at the head of the module says for which files the code keeps to
that. `fs_getattr` and `fs_readdir` are operators. Left out: permissions,
owners, times, and the path `/` as an argument.

**`NameTree`** is the abstract specification of the directory half: a set of
links `(directory, name, node)` with Create, Remove and Rename. `FsNames`
implements it (`ImplementsTree`): the links are the valid entries of the
directories of the tree.

**`ReadImg`** is read-img's traversal of the directories as a recursive
function over its list of inodes, with the errors it prints.

**`MkTest`** is the image of mktest as a second initial state of `FsNames`. That
image has an invalid entry with the number of a valid one, which no sequence of
calls from an empty image need have made.

**`FsCrash`** splits a handler in two. The action of `FsNames` changes the
globals, and `pending` becomes the list of regions the handler writes, in the
order of the code; `WriteBack` takes one of them to `disk`, which is the image.
`fs_init` ends the process at any point and loads memory from `disk`. A handler
does not change a region after it has written it last, so a write takes the
memory's value. `CrashCalls` are the handlers a crash may interrupt. The
properties are those of `FsNames` and `ReadImg`, instantiated over `disk`.

**`FsFile`** is the file-data half. `fs_write` is one action per loop iteration
(`write_direct`, `write_level1`, `write_inner`) and per table it opens
(`write_table1`, `write_table2`, `write_outer`); `wr` holds its local
variables. Every iteration ends with the inode and the block on disk, so the
states between iterations are those that a call that runs out of space leaves
behind. fs_truncate, and fs_unlink which calls it, are one action. fs_read has
no effect on the state and is the operator `fs_read`, with `read_aborts` for
the assertion in `image.c` it can run into. The unit is the 4-byte word: then a
block has as many words as it has block numbers when it is a table, and one
variable, `blocks`, holds data and tables alike. A word of data is larger than
any block number, as text is; the word at position x of file f is `Data(f, x)`.

**`FileStore`** is the abstract specification of the file-data half: each file a
sequence of words that a write replaces or extends. `FsFile` implements it
(`ImplementsStore`) when files only grow, are unlinked, or are truncated while
they have no table; the content is what the pointers lead to.

**`FileCrash`** splits an iteration of fs_write in the same way as `FsCrash` a
handler: bitmap, inode table, table and block are written one by one.

**`Shell`** composes commands of `misc.c` with `FsFile`: `sh` holds the local
variables of do_put and do_get, an fs_write that do_put called runs step by
step, and `kept` remembers what a put that reported success said it stored.
After an assertion the program is started again.

**`FsThreads`** has get_free_block and free_a_block one memory access at a time,
with FD_SET and FD_CLR as a load and a store. `Spec` has them on threads,
`SerialSpec` one after the other, as the shell and FUSE with `-s` run handlers.

**`Mkfs`** is the layout arithmetic of mkfs-x6.c and fs_init.

**`FsNamesProofs`**, **`FsTreeProofs`** (the tree, and `ReadImg`),
**`MkTestProofs`**, **`FsCrashProofs`**, **`FsFileProofs`**,
**`FileCrashProofs`**, **`ShellProofs`** and **`AllocProofs`** (`FsThreads` and
`Mkfs`) hold the proofs about the modules of those names. The `MC` modules give the constants their values. Definitions named
`mut_...` are wrong variants of the definition that follows them, and stand
beside it to show that the properties notice the difference; nothing uses them.

## 3. Runs

| Run | Question | Bounds |
|---|---|---|
| `names` | From an empty image and from mktest's: do entries, inodes and bitmaps agree, do rmdir and rename touch the named entry only, is it a tree of links, does read-img find anything? | 5 inodes, 2 data blocks, 3 entries per directory, names of equal length, 2 levels |
| `crash` | Is the image sound wherever mknod, mkdir, unlink, rename and allocation are interrupted? | 4 inodes, 3 data blocks, 2 entries, 1 directory below the root |
| `rmdir_crash` | The same for rmdir (no) | as `crash` |
| `rename_shorter` | After rename, is the new name there? (no) | names of lengths 1 and 2 |
| `file_append` | Files that only grow until the disk is full | 2 direct blocks, 2 words per block, 2 files, 9 free blocks, writes up to 5 words |
| `file_crash` | Appending and overwriting, interrupted anywhere | 1 direct block, 2 words per block, 7 free blocks, size up to 7 words |
| `shell` | Files put, got, removed and truncated on recycled blocks | 1 direct block, 4 free blocks, 2 files, pieces of 1 and 3 words |
| `truncate_rewrite` | Does a truncated and rewritten file read back? (no) | 1 file |
| `unlink_leaks` | Is the disk empty when all files are gone? (no) | 1 file |
| `read_at_edge` | Do reads stay in the image? (no) | 1 file |
| `table_not_zeroed` | Do writes stay in the image on recycled blocks? (no) | 2 files, double indirect |
| `alloc_race` | Does get_free_block return a free block under threads? (no) | 2 threads, 4 data blocks |

`rename_stale.cfg` (module `MCFsNames`) and `overwrite_hole.cfg` (`MCFsFile`)
are two more configurations that end in a counterexample, for the first and
second item of section 5 that name them; they are not in the list of runs. Nor
is `alloc_serial.cfg` (`MCFsThreads`), which checks what `AllocProofs` proves of
`SerialSpec`: 3 threads and 2 free blocks, so that the disk gets full.

Why the bounds are enough. Three entries per directory are the least for
mktest's root directory with its stale slot between valid ones; a stale slot
before or after a valid one needs two. Five inodes allow a directory, two
entries in it and one entry more, which is what it takes to give a number back
to a slot that once had it. With two data blocks a directory and the data of
files compete for the one that is not the root's. Two words per block are the
least for an offset within a block and for a table with a second entry. With 2
direct blocks the direct loop has an iteration that follows another; with 1 all
three levels fit in 7 blocks, and size 7 reaches the first word of the double
indirect level. Pieces of 1 and 3 words are smaller and larger than a block and
cut it in two. `MaxLen` = 5 words crosses two block boundaries. `MaxSize`
bounds the size of a file: a full disk in `file_append` and `shell`, the single
indirect level where the double one is not wanted.

`NoLeak` compares what is lost before and after each step of a write, since
truncation and unlink do lose blocks (section 5). With `Calls = {}` in
`file_append` nothing is lost at all.

What the passing runs leave open is what the violation runs show. `ReadsBack`
excludes exactly the reads that reach the end of a file that ends where a table
would begin, and `GetAbortsAtEdge` says that a get aborts for no other files;
`read_at_edge` shows what happens to those. In `shell` there is no double
indirect level; `table_not_zeroed` shows why. `crash` interrupts every handler
but rmdir (which runs whole); `rmdir_crash` shows why. Inodes and blocks may be
lost in a crash, which is why `ImageSound` has no NoOrphans.

Crashes. What is modelled is the end of the process, as by an assertion of
`image.c`: writes reach the image in order and whole. In `crash` and
`file_crash` a crash may come between any two writes and any number of times.
`file_crash` has files that only grow or are overwritten: with recycled blocks
a new table, which the inode leads to before it is zeroed (`main.c`
1176-1177), could show its old contents after a crash.

Fairness. `FsFile!Spec` has weak fairness on the steps of a write that was
entered, and `ShellSpec` on the steps of a command: their loops wait for
nothing, so nothing but the scheduler can delay them. `WriteReturns` says that
every call returns, with the disk full as well; `CommandEnds` that every
command does, unless the assertion ends the program. `StepsRunOut` and
`CommandsRunOut` say without fairness that each step is one closer to that:
`StepsLeft` counts three steps for every word that is left and at most four
more; `CommandLeft` adds eight for every word that put has not yet given to
fs_write, and counts one for every word get has not yet read. No fairness is assumed of
clients, of crashes or of the user at the prompt. `FsNames` has no liveness:
its handlers are single steps.

Deadlock is checked in every run.

## 4. Proofs

Every theorem holds for every value of the constants that satisfies the named
assumptions of its modules; where one has a hypothesis of its own it says so,
and section 5 says what the code does without it.

### Directories (`FsNamesProofs`, `FsTreeProofs`)

For every number of inodes, blocks and entries and every set of names and
paths, under `LayoutAssumption` and `NamesAssumption`:

* `TypeCorrect`: `TypeOK`. `LinksMatchInodes`: `RefsLive` and `RefsUnique`.
  `DirectoryBlocks`: `DirBlocksOwned`. `StaleSlotsLater`: `StaleAfterValid`.
  `OnlyNamedEntry`: the action property `NamedEntryOnly`.
* `TreeConnected`: `AllReachable`. `NoInodeLost`: `NoOrphans`.
* `ReadImgFindsNothing`: `ReadImgClean`.
* `ListingsResolve` and `HandlersImplementTree`, for names of one length
  (`SameLength`): `ListingResolves` and the refinement `ImplementsTree`. With
  names of several lengths both are false (`rename_shorter`).

The inductive invariant `IInv` is the conjunction of the first group's
invariants and `RootFixed` (inode 0 is allocated and no directory, inode 1 is
one). None of the parts is inductive alone. RefsUnique after rmdir needs
StaleAfterValid, or the wrong entry is cleared; StaleAfterValid after mknod
needs RefsLive (the new number is in no valid entry before it) and the fact that
mknod takes the *first* free slot; everything about entries needs
DirBlocksOwned, or a write to one directory changes another.

`ParentGood` shows that the walk down a path ends in a directory of the tree or
in an error, by induction on the path (the library's induction theorems take an
operator parameter, so `SetInduction` derives induction over a set from
well-foundedness). `LookupSlot` and `SlotByInode` show that the search by name and
the one by number meet the same slot. `MknodEffect`, `RmdirEffect` and
`RenameEffect` say what a step changes, and one lemma per handler
(`MknodIInv`, ...) that it preserves `IInv`.

`TreeInv` adds `Rooted` and `NoOrphans`. `AllReachable` counts the steps of a
walk from the root and so is not inductive; `Rooted` says the same of sets: every
set that holds the root and what its directories list contains every directory
with an entry. A new directory is empty, a removed one is, and rename moves
nothing between directories, so a step takes such a set to such a set;
`TreeReachable` leads back to the levels. `NoOrphans` is kept out of `IInv`
because it fails after a crash, where `IInv` is needed again. For the
refinement, `NamesInv` adds that entries bear names of paths and that no
directory has two of one name; each handler then adds, removes or renames one
link of `NameTree` or returns an error and changes nothing.

The traversal of read-img carries a list of inodes still to visit and a set of
inodes met. Under the invariant it meets every inode once, since no inode has two
entries; a visit takes one directory off the list, so `NumInodes` visits leave
none; and the inodes met are closed under entries, so by `Rooted` and `NoOrphans`
they are all (`TraversalMet`, `TreeClean`). Those lemmas are about an image as
such, not about the memory, and serve for crashes as well.

`MkTestProofs` proves `IInv`, `TreeInv` and `NamesInv` of mktest's image and so
repeats the results for any calls from either image: `ImagesSound`,
`ImagesClean`, `ImagesNamed` under `TestAssumption` (the image has room for it),
and `ImagesListed`, `ImagesTree` for names of one length, the image's among them
(`TestNames`).

### Crashes in directory handlers (`FsCrashProofs`)

When a crash may interrupt any handler but rmdir (`NoRmdirCrash`; without it,
`rmdir_crash` is the counterexample), any number of times and between any two
writes:

* `CrashTypeCorrect`: `CrashTypeOK`. `HandlersWriteThrough`: `WriteThrough`.
* `ImageStaysSound`: `ImageSound`. `ReadImgStaysSilent`: `ReadImgSilent`.
* `CrashesAreAtomic`, for names of one length: `CrashAtomic`, that is, the tree
  on the image changes by one link per call or not at all.

`View(Done(n))` is the image as it will be after the next n writes. The inductive
invariant `CrashInv` says that this image is fit to be loaded (`Fit`: `IInv`,
`Rooted` and `FreeNotDir`) for every n, and is the memory when all are done. A
restart loads the image for n = 0, which is fit; a handler that begins makes a
new list of writes, and one lemma per handler goes through the list.
`FreeNotDir`, that no free inode is a directory, is what makes mkdir fit: the
inode bitmap reaches the image before the inode, and the old inode must not pass
for a directory without a block. `AtomInv` says of the same views that their
links are equal or one step of `NameTree` apart.

### File data (`FsFileProofs`, `FileCrashProofs`)

For every number of direct pointers, size of a block and of the image, under
`FileAssumption`: `FileTypes` (`TypeOK`, whatever clients do), and for files that
are only written (`OnlyWritten`) or that have one level of tables and are
truncated without a table and removed as well (`OneLevel`):

* `BlocksUnshared`: `NoSharing`. `BlocksMarked`: `MappedAllocated`.
* `WritesInRange`: `NoAbort`, no table entry leads outside the image.
* `WritesLoseNoBlock`: the action property `NoLeak`.

Otherwise `truncate_rewrite` and `table_not_zeroed` break them. The inductive
invariant `Inv` has a part for each reason. `Typed` bounds the loops' variables.
`MapSound` says that every pointer, at each of the places a file keeps one, leads
to a marked block of the data region, and no two to the same; `Linked` that a
loop's table is there. `OnlyWritten => Clean`: an inner table, which the code does
not zero, comes from a block that still is as mkfs left it. For `OneLevel`, where
blocks are recycled, `Shallow` (no second level), `Backed` (the pointer to block
k is set exactly when the file reaches into it, so that no stale pointer is
followed) and `Appending` (a call that appends is where its file ends). An
iteration takes one place, of a pointer, and leaves the others (`Takes`); one
lemma per loop says which, and `TakesSound` what follows.

What is in the files, when the three levels have room for them (`Roomy`: files
only grow and none is larger than what the levels hold, or `OneLevel`):

* `ReadsAsWritten`: `ReadsBack`, whatever offset and length a read asks for.
* `FilesAreSequences`: the refinement `ImplementsStore`.

The bound on the size is the code's: at the last block of the last level the
loops of fs_write (`main.c` 1070-1180) are left with data still to write, and the
call after that starts over at the first level. The inductive invariant adds
`Content` to `Inv`: `Reached`, a file has the blocks it reaches into and no
other; `AsWritten`, the words in them are the ones written there; `Continues`,
the place a call is at is the one where its file ends, and what the call counted
as written is what the file has grown by. An iteration fills the block it is at
from where the file ends (`Grows`) and touches no word of any other data block
(`Keeps`), which is where `NoSharing` comes in; the lemmas `DirectFills`,
`Level1Fills` and `InnerFills` say so of the three loops and that the next place
is the next block, across the ends of tables as well. For reading, `Reads` goes
from the position in the file to the pointer as fs_read does, and `ReadStays`
shows that the blocks it looks at are there unless the read ends on an edge. For
the refinement, a step of a write extends one file by a part of a block or leaves
all sizes (`StepSizes`), and the contents are `Data` up to the size.

Whatever clients do, `WritesRunOut`: `StepsRunOut`. A step that fills a part of a
block leaves less data; one that opens a table, or finds no space, goes to a
stage of lower `Rank`; `FillBounds`, that no iteration fills nothing, is what
it rests on. With `StepsLeft` the loops end after a number of steps that is known
when fs_write is called.

`FileCrashProofs`, under `FilesOnlyGrow`: `CrashTypes` (`CrashTypeOK`),
`KillsKeepBlocks` (`CrashKeepsBlocks`) and `IterationsWriteThrough`
(`WriteThrough`). Its `CrashInv` has the shape of the one above, with `SafeImage`
for `FitImage`. `KillsLoseOneBlock` is `LosesOneBlock`, for sizes that the three
levels have room for. Its `LossInv` speaks of every image still to come: after
any number of the pending writes, the image is behind memory at one place, the
one the iteration works on (`Behind`): the pointer there may be missing and the
data in its block old, everything else is as in memory, and the size is short by
a part of a block at most. `BeginWorks` says for each of the loops which place
that is, and that the data elsewhere is kept. When all is written, or after a
restart, the image is what memory holds and behind nowhere (`SettledLoss`).

### Shell (`ShellProofs`)

For files with one level of tables that are removed as well, and pieces no
longer than what a client of `FsFile` writes at a time (`OneLevelShell`):

* `ShellTypes`: `ShellTypeOK`. `PutsReport`: `PutReportsLoss`.
* `CommandsAreClients`: a behaviour of the shell is one of `FsFile`'s `Init` and
  `Next`, so that the theorems above hold of it; `CommandsKeepBlocks` draws that
  for `MappedAllocated` and `NoAbort`, `CommandsKeepFiles` for `ImplementsStore`.
* `GetsCopy`: `GetReturnsFile`. `GetsAbortAtEdge`: `GetAbortsAtEdge`.

do_put reports no error when fs_write returns less than it was asked to write:
PutReportsLoss holds because fs_write, of such files, never does that. `ShellInv` says
that with `Putting`: between two pieces the file ends at put's offset; in a piece
what is left and what fs_write counted make up the piece, and the file has
grown by what it counted; and the call ends with an error or with nothing left.
A call does not run out of levels with data left: `Inv`, which holds after the
step too, has no such file in the second level. For get, `Copying` says that what
was copied so far is the file up to get's offset (`Appended` puts one more piece
behind it), and `ReadsAsWritten` what the piece is.

* `CommandsEndSoon`: `CommandsRunOut`. A put of n words is back at the prompt
  after 8n + 1 steps at most, a get of a file of n words after n + 2.

It holds because fs_write takes at most three steps per word and four more
(`WritesRunOut`), gives put all of the piece or an error (`Putting`), and
fs_read returns no word only at the end of the file (`GetReads`).

### Allocator and layout (`AllocProofs`)

The other modules take get_free_block and free_a_block as operators, in one step.
For every number of threads, when handlers run one after the other (`SerialSpec`):

* `LoopIsOperator`: `AllocatesAtOnce`. The loop and the loads and stores of FD_SET
  and FD_CLR change the bitmap and what is held as the operators do.
* `LoopFailsWhenFull`: `FailsWhenFull`, no error while a block is free.
* `SerialAllocator`: `GivenOnce`, which threads break (`alloc_race`), and
  `MapExact`: between calls a block is marked exactly when it is metadata, the
  root directory's or held.

`SerialInv` says how far the scan of the one thread inside has come (every block
before it is marked) and that the word it is about to store is the bitmap with
its bit changed. The last is what a second thread inside would break.

`AllocProofs` also discharges what the others assume of an image. `MkfsLayout`: an image of
5 blocks or more satisfies `LayoutAssumption`, and the start that fs_init
computes from the superblock is the block where mkfs put the root directory.
`MkfsMapsFit`: bitmaps and inode region have room for what they describe.
`MkfsScanFits`: the inode region has the 64 inodes that get_free_inode looks at
(`InodeScan <= NumInodes` in `NamesAssumption`) exactly when the image has 196
blocks or more. `MCMkTest` also evaluates them for sizes up to 300.

### Only model-checked

`WriteReturns` and `CommandEnds` are liveness under fairness, which this prover
does not reach. What it leaves of them is fairness alone: `WritesRunOut` and
`CommandsEndSoon` prove that every step taken is a step closer to the end, and
the deadlock check of the runs shows that there is one to take. Nor does the
prover reach ENABLED, or what a recursive definition computes for every input.
The directory walks and read-img's traversal are recursive functions; the proofs
need only what `SetInduction` gives of them. All other properties of passing
runs are theorems, some under the hypotheses named above.

## 5. What the code does otherwise than it says

`PROJECT.json` lists those with a run, each with its line; in short: rename to a
shorter name keeps the old tail; truncate leaves pointers to freed blocks, and
unlink frees no direct block; reading a file of exactly 6 blocks to its end
aborts; a recycled inner table is used with its old contents; a crash in rmdir
leaves an entry for a directory whose block and inode are free; two threads may
get the same block.

With a configuration but outside the list of runs: rename refuses names of
removed entries (`main.c` 808 looks at no valid bit; `EexistMeansPresent`,
`rename_stale.cfg`); overwriting inflates the size (`main.c` 1149; the comment
at 1070 says there are no holes; `NoHoles`, `overwrite_hole.cfg`).

Read, not run: fs_mknod accepts modes that are not regular files (comment at
line 262); a write past the last block of the double indirect level is short
(1066), and do_put then returns 0 (`misc.c` 259-264); f_bfree counts what is
not free (1371); read-img's list of unreachable blocks tests the bits the wrong
way round (`read-img.c` 153); the comment in `mkfs-x6.c` 105-109 puts the root
directory of a 1 MB image at block 7, where `Mkfs` has it at 19 (7 is right for
mktest).

## 6. Plan

Every safety invariant and action property that a passing run checks is proved,
under the hypotheses that section 4 names. What could be added: crashes in
fs_truncate and on recycled blocks, where `truncate_rewrite` and
`table_not_zeroed` say what to expect; overwriting in the shell; and handlers on
threads, once the allocator has a lock.

## 7. Not modelled

Permissions and times (chmod, utime): no operation depends on them. statfs: it
changes nothing, and what it computes wrong is in section 5. The path strings of
the shell and cd; the wording of messages; paths of more than 64 components and
names of more than 26 characters, which the code copies without a check.
image_fail, which nothing calls. Whole handlers under threads and strtok's
static position: the allocator alone already fails there. Crashes in
fs_truncate: the stale tables it leaves break the same properties without one.
