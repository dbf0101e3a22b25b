----------------------------- MODULE DbfsVolume -----------------------------
(***************************************************************************)
(* The life of a dbfs volume and the inode numbers it hands out.           *)
(*                                                                         *)
(* mkdbfs.c makes the volume (the record of "/" and the fsinfo record);    *)
(* dbfs_initstore reads fsinfo and reserves a batch of inode numbers by    *)
(* adding 1000 to it; dbfs_create takes the next number of the batch with  *)
(* an unlocked last_inode++ and stores the new entry; dbfs_closestore      *)
(* flushes.  The database is opened without an environment or a            *)
(* transaction, so its records reach the file one page at a time, in any   *)
(* order, when the cache evicts them or when the database is closed: a     *)
(* process that dies leaves a mixture of old and new records.              *)
(*                                                                         *)
(* A handle for a locator's bytes or attributes has a copy of the record   *)
(* as it was opened.  Every write and every setter ends in dbfs_write_attr,*)
(* which stores that copy, the inode number included, whatever the locator *)
(* has become meanwhile.                                                   *)
(*                                                                         *)
(* fsinfo.c stores and fetches sizeof(dfd) bytes, where dfd is a pointer:  *)
(* a build with 4-byte pointers keeps the low word of the counter only and *)
(* leaves the high word of the fetched value as the stack had it.          *)
(* LowWord is the number of values that fit in the bytes kept, Garbage the *)
(* high words the stack may hold (8-byte pointers: 2^64 and {0}).          *)
(***************************************************************************)
EXTENDS Naturals

CONSTANTS
  Threads,      \* the calls and open handles there may be at once: one is either
                \* a thread in dbfs_create or a handle, which any thread may use
  Files,        \* locators other than "/"
  Root,         \* the locator "/"
  Batch,        \* 1000: inode numbers reserved by one mount
  LowWord,      \* the counter is stored modulo this
  Garbage,      \* high words found in dfd when fetch fills the low one only
  NoRec,        \* a key the database does not hold
  MaxMounts,    \* bound: mounts in a behaviour
  MaxCreates    \* bound: calls of dbfs_create in a behaviour

ASSUME RootAssumption == Root \notin Files
ASSUME NumAssumption ==
  /\ Batch \in Nat \ {0}
  /\ LowWord \in Nat
  /\ LowWord > Batch + 1
  /\ Garbage \subseteq Nat
  /\ MaxMounts \in Nat /\ MaxCreates \in Nat

DBFS_ROOT_INO == 1
Paths == Files \cup {Root}

\* A 64-bit inode number: the word fsinfo keeps, and the one above it.
Inos == [hi : Nat, lo : 0 .. LowWord - 1]
RootIno == [hi |-> 0, lo |-> DBFS_ROOT_INO]

\* A directory entry.  mnt is history: the mount that created the entry
\* (0: mkdbfs).
Dentries == [ino : Inos, mnt : Nat]
ASSUME NoRecAssumption == NoRec \notin Nat /\ NoRec \notin Dentries /\ NoRec \notin Inos

Images == [fsinfo : (0 .. LowWord - 1) \cup {NoRec},
           dentry : [Paths -> Dentries \cup {NoRec}]]

VARIABLES
  phase,      \* what the process that opened the database is doing
  disk,       \* the records in the database file
  cache,      \* the records the open database shows (= disk when closed)
  lastInode,  \* dbfs_store.last_inode
  pc,         \* per thread: where it is in dbfs_create, or that it is a handle
  path,       \* per thread: the locator it creates or has open
  reg,        \* per thread: the value of last_inode it read
  copy,       \* per thread: dh->attr_ddd of its handle
  mounts,     \* history: mounts so far
  creates,    \* history: calls of dbfs_create so far
  hazard      \* history: the mishaps so far that void an inode guarantee

vars == <<phase, disk, cache, lastInode, pc, path, reg, copy, mounts, creates, hazard>>
store == <<phase, disk, cache, mounts>>
threads == <<pc, path, reg, copy>>

Hazards == {"raced", "overrun", "wrapped", "torn"}
Phases == {"nofile", "mkroot", "mkinfo", "mkclose", "closed", "fetched", "mounted"}

TypeOK ==
  /\ phase \in Phases
  /\ disk \in Images /\ cache \in Images
  /\ lastInode \in Inos
  /\ pc \in [Threads -> {"idle", "incr", "put", "open"}]
  /\ path \in [Threads -> Paths]
  /\ reg \in [Threads -> Inos]
  /\ copy \in [Threads -> Dentries]
  /\ mounts \in Nat /\ creates \in Nat
  /\ hazard \subseteq Hazards

NoIno == [hi |-> 0, lo |-> 0]
NoCopy == [ino |-> NoIno, mnt |-> 0]
NoRecords == [fsinfo |-> NoRec, dentry |-> [p \in Paths |-> NoRec]]

Init ==
  /\ phase = "nofile"
  /\ disk = NoRecords /\ cache = NoRecords
  /\ lastInode = NoIno
  /\ pc = [t \in Threads |-> "idle"]
  /\ path = [t \in Threads |-> Root]
  /\ reg = [t \in Threads |-> NoIno]
  /\ copy = [t \in Threads |-> NoCopy]
  /\ mounts = 0 /\ creates = 0
  /\ hazard = {}

\* The call is over or the handle closed: its locals are no more.
Finish(t) ==
  /\ pc' = [pc EXCEPT ![t] = "idle"]
  /\ path' = [path EXCEPT ![t] = Root]
  /\ reg' = [reg EXCEPT ![t] = NoIno]
  /\ copy' = [copy EXCEPT ![t] = NoCopy]
FinishAll ==
  /\ pc' = [t \in Threads |-> "idle"]
  /\ path' = [t \in Threads |-> Root]
  /\ reg' = [t \in Threads |-> NoIno]
  /\ copy' = [t \in Threads |-> NoCopy]

-----------------------------------------------------------------------------
(* mkdbfs *)

\* DB_CREATE | DB_EXCL: an existing file makes the open fail.
MkfsOpen ==
  /\ phase = "nofile"
  /\ phase' = "mkroot"
  /\ UNCHANGED <<disk, cache, lastInode, threads, mounts, creates, hazard>>

\* A slip to catch: an error of the put does not stop mkdbfs.
MkfsRootIgnoreError ==
  /\ phase = "mkroot"
  /\ phase' = "mkinfo"
  /\ cache' \in {cache, [cache EXCEPT !.dentry[Root] = [ino |-> RootIno, mnt |-> 0]]}
  /\ UNCHANGED <<disk, lastInode, threads, mounts, creates, hazard>>

\* The entry of "/" is put first; an error goes to out2, which closes.
MkfsRoot ==
  /\ phase = "mkroot"
  /\ \/ /\ cache' = [cache EXCEPT !.dentry[Root] = [ino |-> RootIno, mnt |-> 0]]
        /\ phase' = "mkinfo"
     \/ /\ phase' = "mkclose"
        /\ UNCHANGED cache
  /\ UNCHANGED <<disk, lastInode, threads, mounts, creates, hazard>>

MkfsInfo ==
  /\ phase = "mkinfo"
  /\ phase' = "mkclose"
  /\ cache' \in {cache, [cache EXCEPT !.fsinfo = DBFS_ROOT_INO]}
  /\ UNCHANGED <<disk, lastInode, threads, mounts, creates, hazard>>

MkfsClose ==
  /\ phase = "mkclose"
  /\ phase' = "closed"
  /\ disk' = cache
  /\ UNCHANGED <<cache, lastInode, threads, mounts, creates, hazard>>

\* The two records of a new volume share the one leaf page of the tree, so
\* they reach the file together.
MkfsEvict ==
  /\ phase \in {"mkroot", "mkinfo", "mkclose"}
  /\ disk' = cache
  /\ UNCHANGED <<phase, cache, lastInode, threads, mounts, creates, hazard>>

-----------------------------------------------------------------------------
(* dbfs_initstore *)

\* dbfs_fetch_fsinfo; a volume without the record is refused with EIO.  The
\* low word comes from the record, the high one is whatever dfd held.
InitFetch ==
  /\ phase = "closed" /\ mounts < MaxMounts
  /\ cache.fsinfo # NoRec
  /\ \E g \in Garbage : lastInode' = [hi |-> g, lo |-> cache.fsinfo]
  /\ phase' = "fetched"
  /\ UNCHANGED <<disk, cache, threads, mounts, creates, hazard>>

\* Slips to catch: one number too few, the word not cut off.
ReserveShort(lo) == (lo + Batch - 1) % LowWord
ReserveWide(lo) == lo + Batch

Reserve(lo) == (lo + Batch) % LowWord

\* dfd_lastino += 1000; dbfs_update_fsinfo
InitUpdate ==
  /\ phase = "fetched"
  /\ cache' = [cache EXCEPT !.fsinfo = Reserve(lastInode.lo)]
  /\ phase' = "mounted"
  /\ mounts' = mounts + 1
  /\ hazard' = hazard \cup (IF lastInode.lo + Batch >= LowWord THEN {"wrapped"} ELSE {})
  /\ UNCHANGED <<disk, lastInode, threads, creates>>

\* The put fails: the store is freed and the caller gives up.
InitFail ==
  /\ phase = "fetched"
  /\ phase' = "closed"
  /\ UNCHANGED <<disk, cache, lastInode, threads, mounts, creates, hazard>>

-----------------------------------------------------------------------------
(* dbfs_create: last_inode++ is a load and a store, then the put *)

CreateRead(t, p) ==
  /\ phase = "mounted" /\ pc[t] = "idle" /\ creates < MaxCreates
  /\ reg' = [reg EXCEPT ![t] = lastInode]
  /\ path' = [path EXCEPT ![t] = p]
  /\ pc' = [pc EXCEPT ![t] = "incr"]
  /\ creates' = creates + 1
  /\ UNCHANGED copy
  /\ hazard' = hazard
       \cup (IF \E u \in Threads : pc[u] = "incr" THEN {"raced"} ELSE {})
       \cup (IF lastInode.lo >= cache.fsinfo THEN {"overrun"} ELSE {})
  /\ UNCHANGED <<store, lastInode>>

\* A slip to catch: the number taken is not taken.
NotBumped(i) == i

Bumped(i) ==
  IF i.lo + 1 = LowWord THEN [hi |-> i.hi + 1, lo |-> 0]
                        ELSE [hi |-> i.hi, lo |-> i.lo + 1]

CreateIncr(t) ==
  /\ pc[t] = "incr"
  /\ lastInode' = Bumped(reg[t])
  /\ pc' = [pc EXCEPT ![t] = "put"]
  /\ UNCHANGED <<store, path, reg, copy, creates, hazard>>

\* A slip to catch: the put has no DB_NOOVERWRITE.
CreatePutOver(t) ==
  /\ pc[t] = "put"
  /\ \/ UNCHANGED cache
     \/ cache' = [cache EXCEPT !.dentry[path[t]] = [ino |-> reg[t], mnt |-> mounts]]
  /\ Finish(t)
  /\ UNCHANGED <<phase, disk, mounts, lastInode, creates, hazard>>

\* dbfs_create_attr: DB_NOOVERWRITE refuses a locator in use; that, or a
\* failing put, is EINVAL and the number is gone all the same.
CreatePut(t) ==
  /\ pc[t] = "put"
  /\ \/ UNCHANGED cache
     \/ /\ cache.dentry[path[t]] = NoRec
        /\ cache' = [cache EXCEPT !.dentry[path[t]] = [ino |-> reg[t], mnt |-> mounts]]
  /\ Finish(t)
  /\ UNCHANGED <<phase, disk, mounts, lastInode, creates, hazard>>

\* dbfs_delete takes one entry other than "/" out of the tree (which one, when
\* the locator is a directory, is the subject of DbfsDir).
Delete(p) ==
  /\ phase = "mounted"
  /\ cache.dentry[p] # NoRec
  /\ cache' = [cache EXCEPT !.dentry[p] = NoRec]
  /\ UNCHANGED <<phase, disk, mounts, lastInode, threads, creates, hazard>>

-----------------------------------------------------------------------------
(* Handles *)

\* dbfs_sopen, dbfs_aopen: the handle gets a copy of the record.
OpenHandle(t, p) ==
  /\ phase = "mounted" /\ pc[t] = "idle"
  /\ cache.dentry[p] # NoRec
  /\ copy' = [copy EXCEPT ![t] = cache.dentry[p]]
  /\ path' = [path EXCEPT ![t] = p]
  /\ pc' = [pc EXCEPT ![t] = "open"]
  /\ UNCHANGED <<store, lastInode, reg, creates, hazard>>

\* dbfs_write_attr, of a write or a setter: the copy becomes the record of the
\* locator, which may be gone or another by now.  (A put that fails changes
\* nothing here.)
WriteAttr(t) ==
  /\ pc[t] = "open"
  /\ cache' = [cache EXCEPT !.dentry[path[t]] = copy[t]]
  /\ UNCHANGED <<phase, disk, mounts, lastInode, threads, creates, hazard>>

CloseHandle(t) ==
  /\ pc[t] = "open"
  /\ Finish(t)
  /\ UNCHANGED <<store, lastInode, creates, hazard>>

-----------------------------------------------------------------------------
(* The end of a mount *)

\* No thread is in dbfs_create any more, and handles are left alone.
Quiesce ==
  /\ phase = "mounted" /\ \A t \in Threads : pc[t] \in {"idle", "open"}
  /\ FinishAll

\* A slip to catch: the close does not flush (DB_NOSYNC).
CloseNoSync ==
  /\ Quiesce
  /\ cache' = disk
  /\ phase' = "closed"
  /\ UNCHANGED <<disk, lastInode, mounts, creates, hazard>>

\* fuse_main has joined its workers when mangoofuse closes the store.
Close ==
  /\ Quiesce
  /\ disk' = cache
  /\ phase' = "closed"
  /\ UNCHANGED <<cache, lastInode, mounts, creates, hazard>>

\* The cache writes back the page of one record.
EvictFsinfo ==
  /\ phase \in {"fetched", "mounted"}
  /\ disk' = [disk EXCEPT !.fsinfo = cache.fsinfo]
  /\ UNCHANGED <<phase, cache, lastInode, threads, mounts, creates, hazard>>
EvictDentry(p) ==
  /\ phase \in {"fetched", "mounted"}
  /\ disk' = [disk EXCEPT !.dentry[p] = cache.dentry[p]]
  /\ UNCHANGED <<phase, cache, lastInode, threads, mounts, creates, hazard>>

\* An entry of this mount is in the file and the reservation is not.
TornBatch ==
  /\ phase = "mounted" /\ disk.fsinfo # cache.fsinfo
  /\ \E p \in Paths : disk.dentry[p] # NoRec /\ disk.dentry[p].mnt = mounts

\* The process dies, or calls exit(1) as env_open does: what was not written
\* back is lost.
Crash ==
  /\ phase \notin {"nofile", "closed"}
  /\ phase' = "closed"
  /\ cache' = disk
  /\ FinishAll
  /\ hazard' = hazard \cup (IF TornBatch THEN {"torn"} ELSE {})
  /\ UNCHANGED <<disk, lastInode, mounts, creates>>

Mkfs == MkfsOpen \/ MkfsRoot \/ MkfsInfo \/ MkfsClose \/ MkfsEvict
Mount == InitFetch \/ InitUpdate \/ InitFail
Create(t) == (\E p \in Paths : CreateRead(t, p)) \/ CreateIncr(t) \/ CreatePut(t)
Use(t) == (\E p \in Paths : OpenHandle(t, p)) \/ WriteAttr(t) \/ CloseHandle(t)
Evict == EvictFsinfo \/ (\E p \in Paths : EvictDentry(p))

Next ==
  \/ Mkfs
  \/ Mount
  \/ \E t \in Threads : Create(t) \/ Use(t)
  \/ \E p \in Files : Delete(p)
  \/ Evict
  \/ Close
  \/ Crash

Spec == Init /\ [][Next]_vars

-----------------------------------------------------------------------------
(* Properties *)

Has(img, p) == img.dentry[p] # NoRec

\* A volume that dbfs_initstore accepts has its root directory, whatever
\* mkdbfs, crashes and deletes did before: the fsinfo record never gets into
\* the database, or into the file, ahead of the entry of "/".
FsinfoImpliesRoot ==
  \A img \in {disk, cache} : img.fsinfo # NoRec => Has(img, Root)

\* No two entries created with dbfs_create carry the same inode number, so
\* that their blocks (keyed by inode number) are kept apart, provided no two
\* last_inode++ overlapped, no mount used up its batch, the stored counter did
\* not wrap and no crash kept an entry without its reservation.
UniqueInos ==
  hazard = {} =>
    \A p, q \in Files :
      Has(cache, p) /\ Has(cache, q) /\ p # q
        => cache.dentry[p].ino # cache.dentry[q].ino

\* Entries created by different mounts never share an inode number even when
\* creates race: the batches are disjoint as long as the reservation of a mount
\* is in the file before its entries are, no matter which high word was read.
CrossMountUnique ==
  hazard \subseteq {"raced"} =>
    \A p, q \in Files :
      Has(cache, p) /\ Has(cache, q) /\ cache.dentry[p].mnt # cache.dentry[q].mnt
        => cache.dentry[p].ino # cache.dentry[q].ino

\* The numbers of the files in an image of the volume, and those that handles
\* remember.
NumberIn(img) == [p \in Files |-> IF Has(img, p) THEN img.dentry[p].ino ELSE NoRec]
Remembered ==
  {<<path[t], copy[t].ino>> : t \in {u \in Threads : pc[u] = "open" /\ path[u] \in Files}}

\* As long as no mishap happened, a volume does what InoPromise says: batches
\* of 1000, the counter kept ahead of them in fsinfo and the write-back of one
\* record at a time hand out numbers that neither the open volume nor the file
\* nor any handle has, a create never renumbers a file, a handle gives its
\* locator the number back that it was opened with and no other, and a crash
\* brings back only what was written (dbfs.c:28-49, 187-199, attr.c:52-76).
Promise == INSTANCE InoPromise WITH
  None <- NoRec, number <- NumberIn(cache), saved <- NumberIn(disk), held <- Remembered,
  sound <- (hazard = {})
KeepsPromise == Promise!Spec
=============================================================================
