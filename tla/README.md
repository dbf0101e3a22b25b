# A verification project for mangoo and its store dbfs

mangoo gives programs one interface to named data ("scheme:locator") and comes
with one store, dbfs, which keeps a file system in a single Berkeley DB B-tree.
mangoofuse mounts such a store with FUSE. The TLA+ modules here model the store
(the code under `src/stores/dbfs`), the library's handles, the FUSE front end
and the one sample program that has threads. TLC checks them on small instances,
and TLAPS proves the safety properties for every value of the constants.

Paths below are relative to the repository's `src` directory; `dbfs/` stands for
`stores/dbfs/` in it.

## 1. Inventory

| Part | Code | State | Operations |
|---|---|---|---|
| Volume | `dbfs/mkdbfs.c`, `dbfs/fsinfo.c`, `dbfs_initstore`, `dbfs_create`, `dbfs_closestore` in `dbfs/dbfs.c` | the database file, the cache over it, `last_inode` of the open store | make, mount (reserve 1000 inode numbers), number a new entry, close |
| Key order, directory tree | `dbfs/dir.c`, `dbfs_delete` in `dbfs/dbfs.c`, `dbfs_create_attr` and `dbfs_dela` in `dbfs/attr.c` | the records of the entries; per handle `locator`, `attr_ddk` and a cursor | create, delete (file or empty directory), open a directory, list, close |
| File bytes | `dbfs/stream.c`, `dbfs_setsize` and `dbfs_write_attr` in `dbfs/attr.c` | blocks keyed by inode number and offset, `ddd_size` of the entry, a copy of it in each handle | read, write, set size, free blocks |
| Attribute handles | `dbfs/attr.c`, `dbfs_freehandle` | a copy of the entry's attributes and two buffers in each handle | get attributes, chmod, chown, utime, setsize |
| Dispatch library | `lang/c/lib/mangoo.c` and its headers | none: the open store and the handles belong to the store | calls the store's function for the interface a handle was opened with, or answers ENOSYS |
| FUSE front end | `apps/fuse/mangoofuse.c` | per open file a handle; per open directory a count, an offset and one saved entry | FUSE's operations, on FUSE's threads |
| Samples | `samp/*.c` | `concwrite.c`: one handle, one environment and one offset in global variables | sequences of calls; `concwrite.c` runs four writer threads |
| Berkeley DB | external | the tree, the cache, cursors | get, put, del, cursor steps, write-back |

The tree has three kinds of records, and `dbfs_bt_compare` sorts them in this
order: one fsinfo record, the entries by locator (`strcmp`), the blocks by inode
number and offset. There are no directory records: the contents of a directory
are a range of locators. No call checks that a parent exists.

**Interactions.** mangoofuse calls mangoo with a URL, mangoo calls dbfs through
`dbfs_msops`, dbfs calls Berkeley DB. `mdir_read` calls back into the front end
(`mf_filler`) for every entry. FUSE runs the operations on several threads, and
nothing above or inside dbfs takes a lock; the database is opened with
`DB_THREAD` but without an environment, hence without page locks, log or
transactions. A store's threads share the tree, `last_inode`, and the handle
when they share an open file.

**What is hard here.**

- *Interleavings.* `last_inode++` is a load and a store; a write of part of a
  block is a get and a put; the emptiness test of rmdir and the delete are two
  calls; a listing is a sequence of cursor steps while others create and remove.
- *Crashes.* Records reach the file a page at a time, in any order. A
  reservation may be lost while entries that use it are kept. Every `mf_read`
  and `mf_write` calls `env_open`, which ends the process on an error.
- *Memory lent to the database.* `dbfs_initsearch` (`dir.c:82`) lends the
  handle's own key to a cursor as a `DB_DBT_REALLOC` buffer, and `dbfs_dela`
  uses it as a key afterwards.
- *Boundaries.* Prefixes that are not followed by a slash, blocks begun or ended
  in the middle, holes, an unsigned size compared with `<= 0`, `sizeof` of a
  pointer, a batch or a word that is used up.
- *Stale copies.* A handle stores the attributes as they were when it was
  opened; an open file keeps its handle for as long as it is open.
- *Errors half-way.* A write that fails after some of its blocks, a utime after
  one of its times, a create before its open; chmod and chown answer 0 whatever
  happened.
- *Memory.* Which of a handle's parts are freed depends on the interface it was
  opened with, and on which call failed.
- *Paging.* The kernel asks for a directory in pieces and names the offset of
  the last entry it took; the front end answers from a cursor that only moves
  on.
- *Global variables.* The sample's threads open into one pointer and close what
  it names by then, and main closes the store without waiting for them.

**What makes each part correct.** Volume: a volume that mounts has its root, and
no two entries have one inode number. Tree: a listing has every entry that was
there throughout and nothing that does not belong; a directory with entries is
never removed; a delete removes what it was asked to. Bytes: a byte is in one
block only, stays as it was put until it is put again, and is what a read
returns; every call ends; freed ranges are free. Handles: an attribute change is
lost only to a call that was overtaken, memory is freed once. Front end: an
answer says what was done; a listing in pieces gives each entry once, misses
only what can be named, and ends. Sample: what is opened is closed.

`PROJECT.json` lists the hazards line by line with the properties that cover
them.

## 2. Modules

| Module | Models | Uses |
|---|---|---|
| `InoPromise` | what a volume promises about inode numbers: the abstract specification | |
| `DbfsVolume` | mkdbfs, mounts, inode numbers, write-back, crashes; implements `InoPromise` | `InoPromise` |
| `DbfsKeys` | locators, `dbfs_bt_compare`, prefix tests, names, what a listing does with a locator | |
| `TreePromise` | what callers see of the tree: the abstract specification | |
| `DbfsDir` | create, delete, dopen, readdir; implements `TreePromise` | `DbfsKeys`, `TreePromise` |
| `FilePromise` | what callers see of a file's bytes: the abstract specification | |
| `DbfsStream` | read, write, setsize, the block loop of delete; implements `FilePromise` | `FilePromise` |
| `MangooHandles` | copies of attributes, the setters, dispatch, memory | |
| `MangooFuse` | mangoofuse's calls on one locator, through attribute and stream handles | `MangooHandles` |
| `MangooReaddir` | opendir, readdir in pages, releasedir over `dbfs_readdir` | |
| `ConcWrite` | `samp/concwrite.c` | |
| `...Proofs` | the theorems about each | TLAPS |
| `MC...` | values of the constants, symmetry, for TLC | |

Operators marked "a slip to catch" are bugs the code does not have. They stand
beside the definition they would replace and are used by nothing else: each one
shows that a property would notice it.

### DbfsVolume

State: `disk` (records in the file), `cache` (records the open database shows),
`lastInode` (`dbfs_store.last_inode`, a 64-bit number as two words), and per
element of `Threads` what it is: a thread in `dbfs_create`, with its program
counter, its locator and the register that holds the value it loaded, or an open
handle, with its locator and `copy`, the record as it was when it was opened. A
handle is used by any thread, so that calls and handles need not be told apart.

| Action | Code |
|---|---|
| `MkfsOpen`, `MkfsRoot`, `MkfsInfo`, `MkfsClose` | `main` of mkdbfs, in its order, with the failure of each put |
| `InitFetch`, `InitUpdate`, `InitFail` | `dbfs_initstore` with `dbfs_fetch_fsinfo` and `dbfs_update_fsinfo` |
| `CreateRead`, `CreateIncr`, `CreatePut` | `dbfs_create`: load, store, put with `DB_NOOVERWRITE` |
| `OpenHandle`, `CloseHandle` | the open and close of a stream or attribute handle |
| `WriteAttr` | `dbfs_write_attr` at the end of a write or setter: the copy is put over whatever the locator has by now |
| `Delete` | the effect of a delete on the entries |
| `Close` | `dbfs_closestore`: everything is flushed |
| `MkfsEvict`, `EvictFsinfo`, `EvictDentry` | the cache writes a record back |
| `Crash` | the process ends; the cache is lost |

`hazard` is a history variable. It collects what happened that voids a promise:
`raced` (two increments overlapped), `overrun` (a mount used up its batch),
`wrapped` (the stored word wrapped), `torn` (a crash kept an entry and lost the
reservation). The properties name the hazards they exclude, and so say exactly
what the code relies on. `LowWord` and `Garbage` model `sizeof(dfd)` of a
pointer in `fsinfo.c`: with 4-byte pointers only the low word is kept, and the
high one is what the stack held.

### DbfsKeys and DbfsDir

A locator is a sequence of character codes; `Less` is `strcmp`, `KeyLess` is
`dbfs_bt_compare`, `IsNext` the record `DB_NEXT` moves to. State of `DbfsDir`:
the kind of each locator's entry (none, directory, file without or with a size),
the blocks (only the first one of a file: the tests of the directory code see no
more of them than their key), the fsinfo record, and per element of `Threads`
(a thread in a call, or an open handle) the call it is in, its locator, the
record a stream or attribute handle has copied (`copy`), the key that `attr_ddk`
names, its cursor, and what it gave to the filler.

| Action | Code |
|---|---|
| `Create` | `dbfs_create_attr` |
| `HandleOpen`, `HandleClose` | the open and close of a stream or attribute handle |
| `WriteBlock`, `PutAttr` | the blocks of a `dbfs_write`; `dbfs_write_attr` at the end of a write or a setter, which puts the copy without a look at the tree |
| `DeleteStart` | `dbfs_delete` up to the branch on the type |
| `Spin` | a turn of the block loop for an empty file (see `DbfsStream`) |
| `DeldSet`, `DeldNext` | `dbfs_deld`: `DB_SET`, `DB_NEXT` and the test |
| `Dela` | `dbfs_dela`: del of the key `attr_ddk` names by then |
| `DirOpen`, `ScanNext`, `DirClose` | `dbfs_dopen`, one turn of `dbfs_readdir`, `dbfs_closedir` |
| `Refused`, `FailReturn` | an error of Berkeley DB or of the filler ends the call |

`BufAfter` is the memory lent to the cursor. When the key found fits, it is
written over `attr_ddk`. When it does not, Berkeley DB reallocates: `attr_ddk`
names the new key (grown in place), its old bytes, zeroes (the fsinfo key) or
the key of no record. The choice among these four is nondeterministic; other
values, which the memory may have when the allocator gives it to somebody else,
are left out (section 6).

A handle outlives its entry. The file it was opened on may be removed, and
something else be made under its locator; `PutAttr` then brings the old entry
back, or makes a file of a directory in place. `DbfsVolume` has the same step
with the inode number that goes back with the record, and `MangooFuse` with the
attributes.

### DbfsStream

One file. State: `blocks`, a function from the offsets where blocks start to
their bytes; `size` and `there` of the entry; per thread the size in its handle
and the locals of the call it is in (`io`). Actions go from one call into
Berkeley DB to the next: `WriteStart`, `WriteGet`, `WritePut`, `WriteAttr` and
`ReadStart`, `ReadGet`, `ReadReturn` are `dbfs_readwrite` in its two directions;
`SetSizeStart`, `TruncTurn`, `TruncFail`, `TruncReturn`, `SetSizeWrite` are
`dbfs_setsize` over `dbfs_truncateblocks`; `DeleteStart` and `DeleteEntry` are
the file branch of `dbfs_delete`. Every get, put and del may fail. A hole that
is written is `malloc`ed and not cleared (`Junk`); a hole that is read is zeroes
and leaves `DB_NOTFOUND` in `error`.

`last` is the history of what was last put into each byte, `raced` the blocks
that were put while another thread held a copy, `quiet` whether a read ran
undisturbed.

### InoPromise

State: the number of each file of the open volume, the numbers that the file on
disk would give back, those that handles remember of their locators (`held`), and
whether the promise still holds. `Take`: a new file takes a number that no file
has, in either, and that no handle remembers. `PutBack`: a handle gives its
locator the number back that it was opened with, over another or over none. So a
file keeps its number until it is removed or an older handle of the same locator
is used, and no other locator gets a number while anybody knows it. `Hold` and
`Forget` open and close handles; saving moves any part to disk; a crash reverts
to what was saved. `DbfsVolume` maps its cache, disk and handles to these
(`Promise`), and `sound` to the absence of mishaps. Batches, the counter, threads
and mkdbfs do not appear: that they keep the promise is what `KeepsPromise` says.

### TreePromise

State: the type of each entry; per thread the directory whose emptiness it
tests, the entry it is about to remove, and the listing it is in; per handle its
locator and the type it found there when it was opened. Keys, cursors, blocks
and `attr_ddk` do not appear. It promises less than one would wish: `Add` never
takes the place of an entry, but `PutBack` does, when a handle puts the type back
that its locator had, over any entry or over none; `Remove` takes one entry, which
for a file is that file, and for a directory found empty is any entry that is
neither the root nor below the directory (finding 1); `Give` gives entries that
exist, of the directory or named like it (finding 2); `Finish` needs every entry
that stayed to have been given. `DbfsDir` maps its program counters, copies and
`attr_ddk` to these (`Promise`): a call that is led to a block or to nothing aims
at no entry.

### FilePromise

State: the bytes of a file, those that are `void`, its size and whether it is
there, and per thread the call it is in with the offset it has reached. No
blocks, copies or handles appear, but for `Unit`, which says what bytes a call
handles at once. `Store` writes its own bytes and no other, up to the end of a
unit, and may void the unit only if another call is writing in it; `Settle` ends
a write with a size that reaches its end; `Fetch` gets the bytes up to the end
of a unit as they are at one moment; `Erase` takes bytes, in a resize none
below the new size; a call may return at any time. `DbfsStream` maps `last`,
`raced` and the locals of its calls to these, and a read that is about to report
success to one that has got to its end, with every byte on the way. A read that
starts beyond the size of its handle is no call of the promise: it reports bytes
that nothing copied.

### MangooHandles and MangooFuse

`MangooHandles` has what a handle is: the copy of the attributes, the changes of
`dbfs_setmtime` and its like, what `dbfs_createhandle` allocates and what each
close frees, the cursors and block buffers that calls allocate, and the slots of
`mangoo_storeops` and its like that dbfs fills.
`MangooFuse` runs FUSE's threads over the record of one locator. State: the
record, the handle of each open file (shared by the threads that use it), the
call of each thread, and the memory not freed.

| Action | Code |
|---|---|
| `Mount`, `Unmount` | `main`, `mangoo_initstore`, `mangoo_closestore` |
| `AttrOpen`, `GetAttr` | `mangoo_open` over `dbfs_aopen`; `mf_getattr` |
| `ChmodPut`, `ChownPut`, `UtimeFirst`, `UtimeSecond`, `Truncate` | the puts of `mf_chmod`, `mf_chown`, `mf_utime`, `mf_truncate`, with what follows on success and error |
| `Open`, `CreateFile`, `CreateOpen`, `Release`, `MakeDir` | `mf_open`, the two halves of `mf_create`, `mf_release`, `mf_mkdir` |
| `Read`, `WriteBegin`, `WriteSet`, `WriteAttr`, `EnvExit` | `mf_read`, and `mf_write` with the look at the size, its change and the put of `dbfs_write` apart; `env_open` |
| `Remove`, `RemoveFile`, `DeldCursor`, `RemoveDir`, `RemoveFail` | `mf_remove` over `dbfs_delete`, with the cursor that `dbfs_deld` opens and nothing closes |
| `Return` | the answer goes back to the kernel |

History: `ver` counts the versions of the record, so that a handle (`seen`)
knows whether it was overtaken; `want` is the record as the calls that were not
overtaken left it; `raced` is two writes that both found the handle's size too
short; `ends` counts what calls leave: handles of failed opens, chmods, chowns
and removes, the buffers of released handles, an environment per read and write,
the cursor of each rmdir that opened one, and a block buffer per hole that a write
meets behind its first block (`stream.c:68`). `MemoryAccounted` says that nothing
else of what these calls allocate is lost. The structures of `mangoo_initstore`,
which live as long as the process, are not counted; those of directory handles
are in `MangooReaddir`.

### MangooReaddir

The records behind the directory's own are numbered in the order of the tree,
and what `dbfs_readdir` does with each (give it, pass over it, stop) is a
constant, since it depends on locators only: it is `PlaceIn` of `DbfsKeys`, from
which the MC module computes it. State: the handle (`cur`: cursor position, size
of `attr_ddk`, whether the memory is still its own, and as history the keys it
returned), `struct mf_dir`, FUSE's page, the kernel's offset.

| Action | Code |
|---|---|
| `OpenDir`, `ReleaseDir` | `mf_opendir`, `mf_releasedir` over `dbfs_dopen`, `dbfs_closedir` |
| `BeginPage`, `ResumePage` | `mf_readdir` at offset 0 and at others, up to `dbfs_readdir`'s loop |
| `Fill`, `Refuse` | a turn of the loop whose entry `mf_filler` takes, or saves and refuses |
| `ScanOver`, `ScanLast`, `ScanFail` | a turn without an entry, the end, an error |
| `Take`, `Rewind`, `Change` | the kernel takes part of a page; the caller begins again; other calls add and remove records |

`Take` rests on an assumption about the kernel: its buffer has room for `.` and
one more name, so that it does not stop after `.`, whose offset is 0, and ask
again from there. `NothingSkipped` rests on it too: asked from 0 in mid-listing,
`mf_readdir` would give the dots once more and go on.

`Initsearch` and `At` carry the memory lent to the cursor: once a longer key was
found, `attr_ddk` may point to memory that is gone, and then be read as anything
or end the process.

### ConcWrite

State: the three global variables, what is allocated, and per thread where it is
in `sampwrite`. `InitStore`, `EnvDirCreate`, `Spawn`, `CloseStore` and `Exit`
are `main`; `Open`, `OpenFail`, `Create`, `UseClosed`, `OpenEnv`, `Write`,
`Load`, `Add`, `CloseEnv` and `Close` are a thread. Access to memory that is
gone ends the process or goes on with what it finds.

## 3. Runs

All bounds are constants in the `.cfg` files or sets in the MC modules. Times
are for two workers.

| Run | Instance | Checks | Shows |
|---|---|---|---|
| `Volume` | 2 threads or handles, 2 files, batch 2, 3 mounts, 3 creates; 0.65 M states, 1 min | `TypeOK`, `FsinfoImpliesRoot`, `UniqueInos`, `CrossMountUnique`, `IInv`, `KeepsPromise` | which mishaps make inode numbers coincide; a volume that mounts has its root; the invariant of the proofs; the refinement of `InoPromise`, old handles included |
| `Dir` | 2 threads or handles, `/`, `/a`, `/a.`, `/a/a`, of which `/a.` is not opened by handles; 0.8 M states, 1 min | `TypeOK`, `RootStays`, `ScanComplete`, `ListingBounded`, `EmptyTestSound`, `DeleteStaysOutside` | what listings lose or add and what deletes can reach, races included |
| `DirLive` | 2 threads or handles, `/`, `/a`, `/a/a`, the last two also opened by handles; 0.18 M states, 1.5 min | `ScanEnds`, `KeepsPromise` | a listing ends while another thread creates and removes; the refinement of `TreePromise`, with handles that outlive their entries |
| `DirDelete`, `DirListing` | 1 thread, `/`, `/a`, `/aa`, `/a/a` | one property each | violated (findings 1 and 2) |
| `Stream` | 2 threads, blocks of 2, offsets below 2, calls of 1 and 2 bytes; 0.55 M states, 1 min | `TypeOK`, `BytesKept`, `ReadBack`, `KeepsBytes` | bytes survive every interleaving that does not race in a block; the refinement of `FilePromise` with calls that race |
| `StreamOne` | 1 thread, offsets below 5, calls of 4 bytes, 2 values; 0.16 M states | `BlocksDisjoint`, `BytesKept`, `ReadBack`, `ReadWriteReturn`, `EachStepShrinks`, `KeepsBytes` | three blocks with both ends cut, values that overwrite values, every call ends and why, the refinement of `FilePromise` over several blocks |
| `StreamTruncate`, `StreamDelete` | 1 thread | one property each | violated (findings 3 and 4) |
| `Fuse` | 2 threads, 2 open files, sizes to 2, 1 hole per write, 5 calls; 2.7 M states, 3 min | `TypeOK`, `AttrsKept`, `AnswersHonest`, `MemoryAccounted` | which attribute changes are taken back, what an answer is worth, what memory is lost |
| `Readdir` | 4 records, pages of 1 to 3 names, 1 rewind or error; 0.27 M states, 1 min | `TypeOK`, `ListingExact`, `NoneTwice`, `NothingSkipped`, `SavedFreed`, `DiesOnlyGrown`, `ListingEnds` | what the caller misses or gets twice when a directory is listed in pages, which listings can end the process, and that the listing ends |
| `ConcWrite` | 3 threads, 2 failing opens; 0.48 M states | `TypeOK`, `LeftIsClosedAgain`, `OffsetCounts`, `AloneSafe` | what is closed twice and left open, and what the shared offset counts |

**Why the bounds are enough.** Two threads show every race of this code: each
races on one shared word, block or cursor position. *Volume*: a batch of 2 with
3 creates uses a batch up; 3 mounts give an old entry, a lost reservation and a
new mount that hands its numbers out again; a low word of 6 values wraps; a
handle, a delete and a second create of its locator show what an old record puts
back, and the third create shows the number of another file. *Dir*:
one directory with an entry and a like-named sibling is the least tree in which
prefix tests can go wrong. `.` sorts before `/` and letters after it, so `/a.`
stands between `/a` and its entries and `/aa` behind them; `Dir` has the first,
the violations the second. Inode numbers do not follow the names, and `/a`, the
first entry made, has the one of the root. *DirLive*: an
entry below a directory is all the promise needs, and as nothing looks at the
parent, the entry is also there without the directory. `Opened` bounds the
locators of handles: in `DirLive` the directory and its entry, so that each may
be removed, made again as the other type, and put back by an old handle; a
handle of the root, which cannot be removed, is in `Dir` only.
*Stream*: with blocks of 2 bytes a call can start and end inside a block, and
calls of 4 bytes from offset 1 reach a middle block that is written whole
(`StreamOne`). Two threads have one block (`Stream`), of which calls write a
part or all: each step touches one block, and it is in one that calls meet.
*Fuse*: five calls suffice for a file that is made, opened twice, written
through both and changed by path in between; modes, owners and times are each
one value besides the initial one, since only whether a change survives is
asked; each further hole of a write (`MaxHoles`) loses one buffer more, by the
same step. *Readdir*: a page that fills, a refused entry, another page and the end
need three entries; one record that stops the scan is behind them. A deeper
record, which is passed over, changes nothing but the cursor, and is left to
`Dir` and the proofs. Sizes let `attr_ddk` fit and not fit: the record that stops
the scan is no longer than the directory, so that a listing may also be safe.
Symmetry is used in runs of safety properties only. *ConcWrite*: with three
threads one handle can be closed twice while another is left and a third is in
use.

**Deadlock** is checked except in three runs. In `Volume` and `Fuse` the bounds
on mounts and calls stop the system; `Fuse` and `ConcWrite` have processes that
end.

**Fairness.** `DirLive`: a thread inside `dbfs_readdir` is scheduled
(`WF(ScanNext(t))`). `StreamOne`, `StreamDelete`: a thread inside a call is
scheduled (`WF(Continue(t))`). `Readdir`: the caller lists until a page comes
back empty, and its calls go on (`WF(Continue)`); opening, closing, rewinding,
errors and changes by others are never forced. Nothing in these calls waits for
another call: Berkeley DB is opened without locking and dbfs has no lock, so
only the scheduler could stop them. No step of an error is forced to happen:
`TruncFail` and `Refused` are not in a fair action of their own. `ScanEnds` and
`ListingEnds` do not assume that others stop: the cursor only moves forward and
locators are finitely many; in the code they are bounded by the length of a
path.

## 4. What is proved

Batch, word and block sizes, and the sets of threads, files and locators, are
arbitrary in the theorems; the assumptions are those named `...Assumption` in
the modules.

**DbfsVolume** (`DbfsVolumeProofs`). Assumed: `Root` is not another file's
locator, a batch is positive and fits in the word kept (a batch of 1000 and a
word of 2^32 or 2^64), `NoRec` is no record.

- `TypeCorrect`, `RootTheorem` (`FsinfoImpliesRoot`). The fsinfo record says
  nothing about where the root is, so the induction needs the program counter of
  mkdbfs (the root is in the cache before fsinfo is put) and that a volume in
  use has both in the file (`RootInv`).
- `CrossMountTheorem`, `UniqueTheorem`. That numbers of entries differ is not
  inductive: it says nothing of numbers not put yet, nor of what the file holds
  while the cache differs. `IInv` adds where numbers lie: every number in the
  file or the cache is below the reservation, those of this mount within its
  batch, older ones below it (`RangeInv`), and, without races, below
  `last_inode`, with each register distinct (`FreshInv`). The copies in handles
  count among the records known (`Known`): they may be put at any time, so no two
  locators have the same number in the file, the cache or a handle. The key step
  is `InitUpdate`, which needs that `disk` and `cache` agree just after opening.
- `PromiseTheorem` (`KeepsPromise`): the initial states map to the promise's,
  and under `IInv` every step is one of its steps or a stutter: `CreatePut` of a
  new entry is a `Take`, since its register is a number in no record and no copy
  (`FreshInv`); `WriteAttr` is a `PutBack`, of the number the handle was opened
  with; an eviction or a close is a `Save`, a crash a `Revert`, and a
  step that adds a mishap a `Lapse`.

**DbfsDir** (`DbfsDirProofs`). Assumed: locators are canonical (a slash before
each name, none at the end), as mangoofuse gets them from the kernel; `Slash` is
a character.

- `EmptyTestTheorem`: one key after the directory's decides emptiness. The
  argument is about order: what lies between a locator and a continuation of it
  continues it (`PrefixRange`), a continuation leaves a name
  (`ContinuationNamed`), so if the next key does not stop the delete, nothing
  below exists.
- `OutsideTheorem`: whichever of the values of `BufAfter` leads it, no entry
  below the directory goes. The invariant carries the verdict of the test to the delete:
  `attr_ddk` names a key that the test let pass, which is never an entry below
  the directory, and that holds even if entries are created in between.
- `ScanCompleteTheorem`, `ListingBoundedTheorem`: a thread's cursor has seen
  every lasting entry at or before it, and none behind it is lost (`ScanInv`).
  The loop stops at a locator that does not continue the directory's; by
  `PrefixRange` no entry is behind such a one.
- `RootTheorem`: no delete removes the root, since `/` sorts before all other
  entries, and a handle of it holds a directory's record (`HandleInv`). `TypeCorrect`: the key that `attr_ddk` names is always one of `Keys`.
- `PromiseTheorem` (`KeepsPromise`): step by step, under the invariants above.
  `DeldNext` is `FoundEmpty` or `End`, and what `attr_ddk` names by then is an
  entry that the promise lets go (the invariant of `OutsideTheorem`); `Dela` is
  `Remove`, or `End` when `attr_ddk` names no entry; `PutAttr` is `PutBack`, since
  a copy keeps the type it was opened with and is never no record (`HandleInv`); a
  turn of a listing is `Give`,
  `Finish` (which needs `ScanInv`) or nothing a caller sees.
- `KeyOrderTheorem`: `dbfs_bt_compare` is a strict total order on the keys, which
  Berkeley DB takes for granted. That of two different locators one is less
  needs the first place where they differ: the least element of a set of
  numbers, which the library's facts about well-founded orders give (`LeastNat`).
- `ListingOrderTheorem`: a locator at which the listing of a directory stops is
  behind all that it gives.

**DbfsStream** (`DbfsStreamProofs`). Assumed: the block size is positive; the
byte values are distinct.

- `TypeCorrect`: sizes left never fall below zero. It needs `AllPlaced`: the
  offset of a call in progress lies in the block it is at, that block starts
  where blocks start, and something is left.
- `DisjointTheorem`, `KeptTheorem`: the invariant adds that all keys are rounded
  (`KeysAligned`) and that a copy a thread holds has the bytes last put, unless
  another thread holds one too and the block is about to be `raced`
  (`CopyFresh`).
- `PromiseTheorem` (`KeepsBytes`): a put is a `Store` of the bytes between two
  offsets of one block, by `AllPlaced`, and voids the block only when another
  copy is out; a get of a read is a `Fetch`, whose bytes are the last ones by
  `BytesKept`, and holes are of no byte that was put; `WriteAttr` is `Settle`;
  the rest ends a call or erases, and the invariant says that a read in
  progress reaches from where it began to where it will end (`Counted`). The
  delete loop erases only in a remove: with a size to cut, it makes no turn.
- `ShrinksTheorem` (`EachStepShrinks`): from `AllPlaced`, each turn takes a part
  of what is left that is not empty. It is the step that `ReadWriteReturn` needs
  besides fairness, for every block size, offset and length.
- `ReadTheorem`: in an undisturbed read the part of the buffer already filled
  equals what the tree holds (`Copied`), and the error tells of the last block
  only.

**MangooFuse** (`MangooFuseProofs`). Assumed: finitely many threads and open
files; `None` is no handle.

- `AttrsKeptTheorem`. That `rec` and `want` agree says nothing of the copies in
  handles. The invariant adds that a handle which has seen the current version
  holds the current record, up to a size that a failed write left larger
  (`FreshCopies`), that two threads are about to set the size of one open file
  only after a race (`WritesAlone`), and that a file being created is used by
  its creator only (`OpensAlone`).
- `AnswersHonestTheorem`: what a call has done so far is what its position says
  (`Honest`).
- `MemoryAccountedTheorem`, `TypeTheorem`: each step changes the count and the
  set it counts alike: handles and buffers with the calls and open files that
  have them, cursors with the rmdirs that are past `dbfs_cursorset`, environments
  and block buffers with the reads and writes made. The counts of memory are natural numbers because they
  balance, so the type invariant comes out last.

**MangooReaddir** (`MangooReaddirProofs`). Assumed: a page holds a name, and
records that stop the listing are behind those that it gives, which
`ListingOrderTheorem` proves of locators.

- `SkippedTheorem`: `mf_readdir`'s count is past every offset it gave out
  (`OffsetInv`), so past the one the kernel names.
- `TwiceTheorem`: every key given, refused or dropped is at or before the
  cursor, and a saved one was not given (`KeysPlaced`).
- `SavedTheorem`, `ExactTheorem`: a saved name has the count as its offset, the
  kernel's is below it, so without a rewind the two never match and a refused
  entry is not given later (`SavedInv`). An entry that the cursor has passed is
  then with the caller, in the page or missed, and in one of these only
  (`ExactInv`).
- `DiesTheorem` (`DiesOnlyGrown`): the size at hand is the one of the last key
  that the cursor returned, and memory that is not the handle's own has been
  left for a longer key (`OwnInv`).
- `TypeCorrect`.

**ConcWrite** (`ConcWriteProofs`). Assumed: writes have a length, and `Null` is
no thread. The number of threads may even be infinite.

- `BalanceTheorem`: each step changes handles and their users alike or counts a
  repetition (`BalanceInv`). `OffsetTheorem`: what a thread has loaded is a
  number of whole writes too (`CountInv`). `AloneTheorem`: as long as no thread
  opened beside another, one at most has a handle and the variables name what it
  opened (`AloneInv`). `TypeCorrect`.

**Only model-checked:** `ScanEnds`, `ReadWriteReturn`, `ListingEnds`: liveness
under fairness is out of this prover's reach. `ReadWriteReturn` runs with one
thread: the locals that the loop counts with are written by no other, and
`ShrinksTheorem` has them shrink for any number of threads.

## 5. Findings

1. `DirDelete` (`dir.c:82`): rmdir of an empty directory deletes the record
   after it, because the cursor overwrote `attr_ddk`: the next entry, or the
   first block of some file when the directory is the last entry.
2. `DirListing` (`dir.c:135`): the listing of `/a` has an entry `a` for the
   sibling `/aa`.
3. `StreamTruncate` (`stream.c:127`): truncating or deleting a file with a size
   frees no block; the loop's condition is inverted.
4. `StreamDelete` (`stream.c:127`): with nothing to free the same loop never
   ends, so deleting an empty file hangs.

The properties that hold name what else the code does: the first file of a new
volume gets inode number 1 as the root has (`dbfs.c:187`, the numbers of
`UniqueInos` are those of files); rmdir of an empty `/a` is refused when `/aa`
exists (`dir.c:287`, `EmptyTestSound` says that the test errs to this side
only); a chmod that succeeds loses its handle (`mangoofuse.c:120`), each read
and write an environment (`:219`, `:236`), and each entry that a full page
refuses is lost to the listing (`:333`).

The store, compiled against Berkeley DB 5.3, behaves as findings 1 and 2, and as
the first two of these remarks, describe. The same build returned `DB_NOTFOUND`
from a read that ends in a hole and 0 from one that starts beyond the size, as
`ReadBack` has it.

## 6. What is left out

- *ENOMEM paths.* They return before anything changes, except that an opendir
  that fails leaves its structure, which only a comment of `OpenDir` says.
- *Several locators at once in `MangooFuse`.* Calls on different locators share
  the tree, which `DbfsDir` has, and `last_inode`, which `DbfsVolume` has.
- *Bytes in `MangooFuse`, attributes in `DbfsStream`.* A write's blocks are one
  step of `WriteBegin`; every thread of `DbfsStream` has its own handle, the
  shared ones are in `MangooFuse`.
- *The rest of the tree in each module.* `DbfsVolume` lets `Delete` take any one
  entry; `DbfsDir` has one inode number per locator (that of a new volume's first
  entry is the root's), whatever is made under it again; `DbfsStream` has one
  file; `MangooReaddir` has records in the place of locators.
- *The listing of the root in `MangooReaddir`*, where nothing stops the loop but
  the last key (`DbfsDir` has it).
- *What a read beyond the handle's size should return.* It returns 0 and leaves
  the size asked for, and nothing says otherwise; `ReadBack` and `KeepsBytes`
  say that no other read reports what it did not get.
- *What memory that is gone holds.* After a reallocation `attr_ddk` has one of the
  four values of `BufAfter`. That the allocator gives the memory to somebody else,
  for the key of another thread's handle say, is left out: a delete could then
  take any entry that another call names, and `DeleteStaysOutside`,
  `EmptyTestSound`, `RootStays` and `KeepsPromise` speak of deletes that are led by
  one of the four. `MangooReaddir` has memory that is gone end the process or be
  read as anything.
- *Blocks under an old number.* A handle writes into the blocks of the inode
  number in its copy; `DbfsVolume` follows which numbers locators, the file and
  handles know, and `DbfsStream` the bytes under one number.
- *Corruption of the database file* by a crash in the middle of a page write,
  and calls that overlap inside Berkeley DB. `DB_THREAD` makes the handle and
  the cache safe for threads, but with no locking subsystem two calls may still
  work on one page at a time. The modules take each call to be atomic.
- *The other samples* (`myapp.c`, `writenew.c`, `sampdir.c`, `sampread.c`,
  `sampwrite.c`): straight sequences of calls with prompts between them, which
  the modules of the store allow in any order.
- *Superseded copies and patches* (`oldmangoofuse.c`, `newmangoo.c`, `mangoo
  (copy).c`, `stream.c` at the top): nothing builds them. *The build system.*

## 7. Plan

Done: the four modules of the store, the handles, the front end, directory
paging and the concurrent sample, each with its proofs; the abstract
specifications of the volume, the tree and the bytes, each with the proof that
the code implements it. Next, in order of importance:

1. An abstract specification of the attributes of one locator that `MangooFuse`
   implements up to the calls that were overtaken.
2. The step that `ScanEnds` and `ListingEnds` need besides fairness, as an
   action property with its proof, as `EachStepShrinks` is for reads and writes.
3. The bytes of two files with one inode number in `DbfsStream`, for what a
   mishap of `DbfsVolume` does to them.
