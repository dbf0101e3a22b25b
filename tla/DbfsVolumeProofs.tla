-------------------------- MODULE DbfsVolumeProofs --------------------------
(***************************************************************************)
(* Proofs about DbfsVolume for any number of threads, files, mounts and    *)
(* any batch size: its four invariants hold of Spec.                       *)
(***************************************************************************)
EXTENDS DbfsVolume, TLAPS

-----------------------------------------------------------------------------
(* The inductive invariants; run Volume checks them with TLC.              *)

\* Every entry that the file, the cache or a handle holds, with its locator.
Entries(img) == {<<p, img.dentry[p]>> : p \in {q \in Files : Has(img, q)}}
Copies == {<<path[t], copy[t]>> : t \in {u \in Threads : pc[u] = "open" /\ path[u] \in Files}}
Known == Entries(disk) \cup Entries(cache) \cup Copies
Holds(p, d) == \E t \in Threads : pc[t] = "open" /\ path[t] = p /\ copy[t] = d

\* No handle is opened.
HandlesKept ==
  \A t \in Threads : pc'[t] = "open" => pc[t] = "open" /\ path'[t] = path[t] /\ copy'[t] = copy[t]

InCreate(t) == pc[t] \in {"incr", "put"}
InDbfs == phase \in {"fetched", "mounted"}

BusyMounted == \A t \in Threads : pc[t] # "idle" => phase = "mounted"

RootInv ==
  /\ BusyMounted
  /\ FsinfoImpliesRoot
  /\ phase = "mkinfo" => Has(cache, Root)
  /\ InDbfs => cache.fsinfo # NoRec /\ Has(disk, Root)
  /\ phase \in {"nofile", "closed", "fetched"} => cache = disk

\* Where the numbers of a mount lie, as long as only races happened: below
\* fsinfo, those of this mount in its last Batch numbers, older ones below.
ClosedRange ==
  /\ phase \in {"nofile", "mkroot", "mkinfo", "mkclose"} => Known = {}
  /\ phase \in {"closed", "fetched"} =>
       \A r \in Known : cache.fsinfo # NoRec /\ r[2].ino.lo < cache.fsinfo
  /\ phase = "fetched" => lastInode.lo = cache.fsinfo /\ disk.fsinfo = cache.fsinfo
  /\ \A r \in Known : r[2].mnt <= mounts

MountedRange ==
  phase = "mounted" =>
    /\ disk.fsinfo # NoRec
    /\ disk.fsinfo = cache.fsinfo \/ disk.fsinfo + Batch = cache.fsinfo
    /\ lastInode.lo <= cache.fsinfo /\ cache.fsinfo <= lastInode.lo + Batch
    /\ \A t \in Threads : InCreate(t) =>
         reg[t].lo < cache.fsinfo /\ cache.fsinfo <= reg[t].lo + Batch
    /\ \A r \in Known :
         /\ r[2].ino.lo < cache.fsinfo
         /\ r[2].mnt = mounts => cache.fsinfo <= r[2].ino.lo + Batch
         /\ r[2].mnt < mounts => r[2].ino.lo + Batch < cache.fsinfo

MountsApart ==
  \A r, s \in Known : r[2].mnt # s[2].mnt => r[2].ino.lo # s[2].ino.lo

RangeInv == hazard \subseteq {"raced"} => ClosedRange /\ MountedRange /\ MountsApart

\* Without races, last_inode is above every number handed out, a number that
\* is being put is in no record, and every number is on one locator only.
ThreadsFresh ==
  \A t \in Threads :
    /\ pc[t] = "incr" => reg[t] = lastInode /\ \A u \in Threads : pc[u] = "incr" => u = t
    /\ pc[t] = "put" =>
         /\ reg[t].lo < lastInode.lo
         /\ \A u \in Threads : pc[u] = "put" /\ u # t => reg[u].lo # reg[t].lo
         /\ \A r \in Known : r[2].ino.lo # reg[t].lo

KnownFresh == phase = "mounted" => \A r \in Known : r[2].ino.lo < lastInode.lo

FilesApart == \A r, s \in Known : r[1] # s[1] => r[2].ino.lo # s[2].ino.lo

FreshInv == hazard = {} => ThreadsFresh /\ KnownFresh /\ FilesApart

IInv == TypeOK /\ RootInv /\ RangeInv /\ FreshInv

-----------------------------------------------------------------------------
(* Types *)

\* What the helpers of InitUpdate and CreateIncr return are inode numbers.
LEMMA ReserveType == \A lo \in 0 .. LowWord - 1 : Reserve(lo) \in 0 .. LowWord - 1
  BY NumAssumption DEF Reserve

\* last_inode++ of an inode number is an inode number.
LEMMA BumpedType == \A i \in Inos : Bumped(i) \in Inos
  BY NumAssumption DEF Bumped, Inos

\* The inode number mkdbfs gives to "/" is one.
LEMMA RootInoType == RootIno \in Inos /\ DBFS_ROOT_INO \in 0 .. LowWord - 1
  BY NumAssumption DEF RootIno, DBFS_ROOT_INO, Inos

\* Writing one well-typed record into an image gives an image.
LEMMA ImageUpdate ==
  ASSUME NEW img \in Images
  PROVE  /\ \A n \in (0 .. LowWord - 1) \cup {NoRec} : [img EXCEPT !.fsinfo = n] \in Images
         /\ \A p \in Paths, d \in Dentries \cup {NoRec} :
              [img EXCEPT !.dentry[p] = d] \in Images
  BY DEF Images

\* What locals hold that are not in use.
LEMMA LocalsType == NoIno \in Inos /\ NoCopy \in Dentries /\ Root \in Paths
  BY NumAssumption DEF NoIno, NoCopy, Inos, Dentries, Paths

\* The end of a call or handle keeps the locals' types.
LEMMA FinishType ==
  ASSUME TypeOK
  PROVE  /\ \A t \in Threads : Finish(t) =>
              /\ pc' \in [Threads -> {"idle", "incr", "put", "open"}]
              /\ path' \in [Threads -> Paths] /\ reg' \in [Threads -> Inos]
              /\ copy' \in [Threads -> Dentries]
         /\ FinishAll =>
              /\ pc' \in [Threads -> {"idle", "incr", "put", "open"}]
              /\ path' \in [Threads -> Paths] /\ reg' \in [Threads -> Inos]
              /\ copy' \in [Threads -> Dentries]
  BY LocalsType DEF TypeOK, Finish, FinishAll

\* The type invariant is preserved by every step.
LEMMA TypeStep == TypeOK /\ [Next]_vars => TypeOK'
<1> SUFFICES ASSUME TypeOK, [Next]_vars PROVE TypeOK'
  OBVIOUS
<1> USE DEF TypeOK, Phases, threads, store
<1>1. CASE UNCHANGED vars
  BY <1>1 DEF vars
<1>2. CASE Mkfs
  <2>1. CASE MkfsOpen \/ MkfsClose \/ MkfsEvict
    BY <2>1 DEF MkfsOpen, MkfsClose, MkfsEvict
  <2>2. CASE MkfsRoot
    <3>1. [ino |-> RootIno, mnt |-> 0] \in Dentries /\ Root \in Paths
      BY RootInoType DEF Dentries, Paths
    <3>2. cache' \in Images
      BY <2>2, <3>1, ImageUpdate DEF MkfsRoot
    <3> QED BY <2>2, <3>2 DEF MkfsRoot
  <2>3. CASE MkfsInfo
    <3>1. cache' \in Images
      BY <2>3, RootInoType, ImageUpdate DEF MkfsInfo
    <3> QED BY <2>3, <3>1 DEF MkfsInfo
  <2> QED BY <1>2, <2>1, <2>2, <2>3 DEF Mkfs
<1>3. CASE Mount
  <2>1. CASE InitFetch
    <3>1. lastInode' \in Inos
      BY <2>1, NumAssumption DEF InitFetch, Inos, Images
    <3> QED BY <2>1, <3>1 DEF InitFetch
  <2>2. CASE InitUpdate
    <3>1. lastInode.lo \in 0 .. LowWord - 1
      BY DEF Inos
    <3>2. cache' \in Images
      BY <2>2, <3>1, ReserveType, ImageUpdate DEF InitUpdate
    <3>3. hazard' \subseteq Hazards
      BY <2>2 DEF InitUpdate, Hazards
    <3> QED BY <2>2, <3>2, <3>3 DEF InitUpdate
  <2>3. CASE InitFail
    BY <2>3 DEF InitFail
  <2> QED BY <1>3, <2>1, <2>2, <2>3 DEF Mount
<1>4. ASSUME NEW t \in Threads, Create(t) PROVE TypeOK'
  <2>1. ASSUME NEW p \in Paths, CreateRead(t, p) PROVE TypeOK'
    <3>1. hazard' \subseteq Hazards
      BY <2>1 DEF CreateRead, Hazards
    <3> QED BY <2>1, <3>1 DEF CreateRead
  <2>2. CASE CreateIncr(t)
    BY <2>2, BumpedType DEF CreateIncr
  <2>3. CASE CreatePut(t)
    <3>1. [ino |-> reg[t], mnt |-> mounts] \in Dentries /\ path[t] \in Paths
      BY DEF Dentries
    <3>2. cache' \in Images
      BY <2>3, <3>1, ImageUpdate DEF CreatePut
    <3> QED BY <2>3, <3>2, FinishType DEF CreatePut
  <2> QED BY <1>4, <2>1, <2>2, <2>3 DEF Create
<1>9. ASSUME NEW t \in Threads, Use(t) PROVE TypeOK'
  <2>1. ASSUME NEW p \in Paths, OpenHandle(t, p) PROVE TypeOK'
    <3>1. cache.dentry[p] \in Dentries
      BY <2>1 DEF OpenHandle, Images
    <3> QED BY <2>1, <3>1 DEF OpenHandle
  <2>2. CASE WriteAttr(t)
    <3>1. copy[t] \in Dentries /\ path[t] \in Paths
      OBVIOUS
    <3>2. cache' \in Images
      BY <2>2, <3>1, ImageUpdate DEF WriteAttr
    <3> QED BY <2>2, <3>2 DEF WriteAttr
  <2>3. CASE CloseHandle(t)
    BY <2>3, FinishType DEF CloseHandle
  <2> QED BY <1>9, <2>1, <2>2, <2>3 DEF Use
<1>5. ASSUME NEW p \in Files, Delete(p) PROVE TypeOK'
  <2>1. cache' \in Images
    BY <1>5, ImageUpdate DEF Delete, Paths
  <2> QED BY <1>5, <2>1 DEF Delete
<1>6. CASE Evict
  <2>1. CASE EvictFsinfo
    <3>1. disk' \in Images
      BY <2>1, ImageUpdate DEF EvictFsinfo, Images
    <3> QED BY <2>1, <3>1 DEF EvictFsinfo
  <2>2. ASSUME NEW p \in Paths, EvictDentry(p) PROVE TypeOK'
    <3>1. cache.dentry[p] \in Dentries \cup {NoRec}
      BY DEF Images
    <3>2. disk' \in Images
      BY <2>2, <3>1, ImageUpdate DEF EvictDentry
    <3> QED BY <2>2, <3>2 DEF EvictDentry
  <2> QED BY <1>6, <2>1, <2>2 DEF Evict
<1>7. CASE Close
  BY <1>7, FinishType DEF Close, Quiesce
<1>8. CASE Crash
  <2>1. hazard' \subseteq Hazards
    BY <1>8 DEF Crash, Hazards
  <2> QED BY <1>8, <2>1, FinishType DEF Crash
<1> QED BY <1>1, <1>2, <1>3, <1>4, <1>5, <1>6, <1>7, <1>8, <1>9 DEF Next

\* The initial state is well typed.
LEMMA TypeInit == Init => TypeOK
<1> SUFFICES ASSUME Init PROVE TypeOK
  OBVIOUS
<1>1. NoIno \in Inos /\ NoCopy \in Dentries
  BY LocalsType
<1>2. NoRecords \in Images
  BY DEF NoRecords, Images
<1> QED BY <1>1, <1>2 DEF Init, TypeOK, Phases, Paths, Hazards

\* Every variable keeps its type, for any number of threads, files and
\* mounts: in particular the stored counter stays below LowWord.
THEOREM TypeCorrect == Spec => []TypeOK
  BY TypeInit, TypeStep, PTL DEF Spec

-----------------------------------------------------------------------------
(* The root directory *)

\* A well-typed entry is not the absence of one.
LEMMA DentryIsRec == \A d \in Dentries : d # NoRec
  BY NoRecAssumption

\* Only on a mounted store is a thread inside dbfs_create.
LEMMA BusyStep == TypeOK /\ BusyMounted /\ [Next]_vars => BusyMounted'
<1> SUFFICES ASSUME TypeOK, BusyMounted, [Next]_vars,
                    NEW t \in Threads, pc'[t] # "idle"
             PROVE  phase' = "mounted"
  BY DEF BusyMounted
<1> USE DEF BusyMounted, store, threads
<1>1. pc \in [Threads -> {"idle", "incr", "put", "open"}]
  BY DEF TypeOK
<1>2. CASE UNCHANGED vars
  BY <1>2 DEF vars
<1>3. CASE Mkfs \/ Mount \/ Evict
  BY <1>3, <1>1 DEF Mkfs, MkfsOpen, MkfsRoot, MkfsInfo, MkfsClose, MkfsEvict,
       Mount, InitFetch, InitUpdate, InitFail, Evict, EvictFsinfo, EvictDentry
<1>4. ASSUME NEW u \in Threads, Create(u) PROVE phase' = "mounted"
  BY <1>4, <1>1 DEF Create, CreateRead, CreateIncr, CreatePut, Finish
<1>6. ASSUME NEW u \in Threads, Use(u) PROVE phase' = "mounted"
  BY <1>6, <1>1 DEF Use, OpenHandle, WriteAttr, CloseHandle, Finish
<1>5. CASE (\E p \in Files : Delete(p)) \/ Close \/ Crash
  BY <1>5, <1>1 DEF Delete, Close, Quiesce, Crash, FinishAll
<1> QED BY <1>2, <1>3, <1>4, <1>5, <1>6 DEF Next

\* The root invariant is preserved by every step.
LEMMA RootStep == TypeOK /\ RootInv /\ [Next]_vars => RootInv'
<1> SUFFICES ASSUME TypeOK, RootInv, [Next]_vars PROVE RootInv'
  OBVIOUS
<1> USE DEF RootInv, FsinfoImpliesRoot, InDbfs, Has
<1>0. /\ [ino |-> RootIno, mnt |-> 0] # NoRec
      /\ DBFS_ROOT_INO # NoRec
      /\ \A p \in Paths : cache.dentry[p] \in Dentries \cup {NoRec}
      /\ \A t \in Threads : [ino |-> reg[t], mnt |-> mounts] # NoRec
      /\ \A t \in Threads : copy[t] # NoRec
      /\ disk \in Images /\ cache \in Images /\ Root \in Paths
  BY DentryIsRec, RootInoType, NoRecAssumption DEF TypeOK, Images, Dentries, Paths, DBFS_ROOT_INO
<1>b. BusyMounted /\ BusyMounted'
  BY BusyStep
<1>1. CASE UNCHANGED vars
  BY <1>1, <1>b DEF vars
<1>2. CASE Mkfs
  <2>1. CASE MkfsRoot
    BY <2>1, <1>0, <1>b DEF MkfsRoot, Images
  <2>2. CASE MkfsInfo
    BY <2>2, <1>0, <1>b DEF MkfsInfo, Images
  <2>3. CASE MkfsOpen \/ MkfsClose \/ MkfsEvict
    BY <2>3, <1>b DEF MkfsOpen, MkfsClose, MkfsEvict
  <2> QED BY <1>2, <2>1, <2>2, <2>3 DEF Mkfs
<1>3. CASE Mount
  <2>1. CASE InitUpdate
    <3>1. Reserve(lastInode.lo) # NoRec
      BY ReserveType, NoRecAssumption, NumAssumption DEF TypeOK, Inos
    <3>2. cache'.dentry = cache.dentry /\ cache'.fsinfo # NoRec
      BY <2>1, <3>1, <1>0, <1>b DEF InitUpdate, Images
    <3> QED BY <2>1, <3>2, <1>b DEF InitUpdate
  <2>2. CASE InitFetch \/ InitFail
    <3>1. CASE InitFetch BY <3>1, <1>b DEF InitFetch
    <3>2. CASE InitFail
      BY <3>2, <1>b DEF InitFail
    <3> QED BY <2>2, <3>1, <3>2
  <2> QED BY <1>3, <2>1, <2>2 DEF Mount
<1>4. ASSUME NEW t \in Threads, Create(t) PROVE RootInv'
  <2>1. ASSUME NEW p \in Paths, CreateRead(t, p) PROVE RootInv'
    BY <2>1, <1>b DEF CreateRead, store
  <2>2. CASE CreateIncr(t)
    BY <2>2, <1>b DEF CreateIncr, store
  <2>3. CASE CreatePut(t)
    <3>1. cache'.fsinfo = cache.fsinfo /\ (Has(cache, Root) => Has(cache', Root))
      BY <2>3, <1>0, <1>b DEF CreatePut, Images
    <3>2. phase = "mounted"
      BY <2>3, <1>b DEF CreatePut, BusyMounted
    <3> QED BY <2>3, <3>1, <3>2, <1>b DEF CreatePut
  <2> QED BY <1>4, <2>1, <2>2, <2>3 DEF Create
<1>9. ASSUME NEW t \in Threads, Use(t) PROVE RootInv'
  <2>1. ASSUME NEW p \in Paths, OpenHandle(t, p) PROVE RootInv'
    BY <2>1, <1>b DEF OpenHandle, store
  <2>2. CASE CloseHandle(t)
    BY <2>2, <1>b DEF CloseHandle, store
  <2>3. CASE WriteAttr(t)
    <3>1. cache'.fsinfo = cache.fsinfo /\ (Has(cache, Root) => Has(cache', Root))
      BY <2>3, <1>0, <1>b DEF WriteAttr, Images
    <3>2. phase = "mounted"
      BY <2>3, <1>b DEF WriteAttr, BusyMounted
    <3> QED BY <2>3, <3>1, <3>2, <1>b DEF WriteAttr
  <2> QED BY <1>9, <2>1, <2>2, <2>3 DEF Use
<1>5. ASSUME NEW p \in Files, Delete(p) PROVE RootInv'
  <2>1. cache'.fsinfo = cache.fsinfo /\ cache'.dentry[Root] = cache.dentry[Root]
    BY <1>5, <1>0, RootAssumption, <1>b DEF Delete, Images, Paths
  <2> QED BY <1>5, <2>1, <1>b DEF Delete
<1>6. CASE Evict
  <2>1. CASE EvictFsinfo
    BY <2>1, <1>0, <1>b DEF EvictFsinfo, Images
  <2>2. ASSUME NEW p \in Paths, EvictDentry(p) PROVE RootInv'
    <3>1. disk'.fsinfo = disk.fsinfo /\ Has(disk', Root)
      BY <2>2, <1>0, <1>b DEF EvictDentry, Images
    <3>2. cache = disk => disk' = disk
      BY <2>2, <1>0, <1>b DEF EvictDentry, Images
    <3> QED BY <2>2, <3>1, <3>2, <1>b DEF EvictDentry
  <2> QED BY <1>6, <2>1, <2>2 DEF Evict
<1>7. CASE Close
  BY <1>7, <1>b DEF Close, Quiesce
<1>8. CASE Crash
  BY <1>8, <1>b DEF Crash
<1> QED BY <1>1, <1>2, <1>3, <1>4, <1>5, <1>6, <1>7, <1>8, <1>9 DEF Next

\* A volume that dbfs_initstore accepts has its root directory.
THEOREM RootTheorem == Spec => []FsinfoImpliesRoot
<1>1. Init => RootInv
  BY DEF Init, RootInv, BusyMounted, FsinfoImpliesRoot, InDbfs, Has, NoRecords
<1>2. RootInv => FsinfoImpliesRoot
  BY DEF RootInv
<1> QED BY <1>1, <1>2, TypeCorrect, RootStep, PTL DEF Spec

-----------------------------------------------------------------------------
(* The entries in the file, in the cache and in handles *)

\* Membership in Known, and the types of its members.
LEMMA KnownMember ==
  ASSUME TypeOK
  PROVE  /\ \A p \in Files : \A d : <<p, d>> \in Known <=>
              d # NoRec /\ (disk.dentry[p] = d \/ cache.dentry[p] = d \/ Holds(p, d))
         /\ \A r \in Known : r[1] \in Files /\ r[2] \in Dentries /\ r = <<r[1], r[2]>>
<1>1. ASSUME NEW p \in Files, NEW d
      PROVE  <<p, d>> \in Known <=>
               d # NoRec /\ (disk.dentry[p] = d \/ cache.dentry[p] = d \/ Holds(p, d))
  <2>1. Holds(p, d) => d # NoRec
    BY DentryIsRec DEF Holds, TypeOK
  <2>2. Holds(p, d) <=> <<p, d>> \in Copies
    BY DEF Holds, Copies
  <2>3. ASSUME NEW img PROVE d # NoRec /\ img.dentry[p] = d <=> <<p, d>> \in Entries(img)
    BY DEF Has, Entries
  <2> QED BY <2>1, <2>2, <2>3 DEF Known
<1>2. ASSUME NEW r \in Known
      PROVE  r[1] \in Files /\ r[2] \in Dentries /\ r = <<r[1], r[2]>>
  <2>1. CASE r \in Copies
    BY <2>1 DEF TypeOK, Copies
  <2>2. ASSUME NEW img \in {disk, cache}, r \in Entries(img)
        PROVE  r[1] \in Files /\ r[2] \in Dentries /\ r = <<r[1], r[2]>>
    <3>1. PICK p \in Files : r = <<p, img.dentry[p]>> /\ Has(img, p)
      BY <2>2 DEF Entries
    <3>2. img.dentry[p] \in Dentries
      BY <3>1 DEF TypeOK, Images, Paths, Has
    <3> QED BY <3>1, <3>2
  <2> QED BY <1>2, <2>1, <2>2 DEF Known
<1> QED BY <1>1, <1>2

\* The members of Known after a step, taken apart.
LEMMA KnownNext ==
  ASSUME TypeOK', NEW r \in Known'
  PROVE  /\ r[1] \in Files /\ r = <<r[1], r[2]>> /\ r[2] # NoRec
         /\ \/ disk'.dentry[r[1]] = r[2] \/ cache'.dentry[r[1]] = r[2]
            \/ \E t \in Threads : pc'[t] = "open" /\ path'[t] = r[1] /\ copy'[t] = r[2]
<1>1. CASE r \in Copies'
  <2>1. PICK t \in Threads : pc'[t] = "open" /\ path'[t] \in Files /\ r = <<path'[t], copy'[t]>>
    BY <1>1 DEF Copies
  <2> QED BY <2>1, DentryIsRec DEF TypeOK
<1>2. CASE r \in Entries(disk')
  BY <1>2 DEF Entries, Has
<1>3. CASE r \in Entries(cache')
  BY <1>3 DEF Entries, Has
<1> QED BY <1>1, <1>2, <1>3 DEF Known, Entries, Has

\* A step that gives no file a new entry does not enlarge Known.
LEMMA KnownShrinks ==
  ASSUME TypeOK, TypeOK', HandlesKept,
         \A p \in Files :
           /\ disk'.dentry[p] \in {NoRec, disk.dentry[p], cache.dentry[p]}
           /\ \/ cache'.dentry[p] \in {NoRec, disk.dentry[p], cache.dentry[p]}
              \/ Holds(p, cache'.dentry[p])
  PROVE  Known' \subseteq Known
<1> SUFFICES ASSUME NEW r \in Known' PROVE r \in Known
  OBVIOUS
<1>1. /\ r[1] \in Files /\ r = <<r[1], r[2]>> /\ r[2] # NoRec
      /\ \/ disk'.dentry[r[1]] = r[2] \/ cache'.dentry[r[1]] = r[2]
         \/ \E t \in Threads : pc'[t] = "open" /\ path'[t] = r[1] /\ copy'[t] = r[2]
  BY KnownNext
<1>2. disk.dentry[r[1]] = r[2] \/ cache.dentry[r[1]] = r[2] \/ Holds(r[1], r[2])
  BY <1>1 DEF HandlesKept, Holds
<1> QED BY <1>1, <1>2, KnownMember

\* The only step that makes an entry is the put of dbfs_create_attr.
LEMMA KnownStep ==
  ASSUME TypeOK, TypeOK', [Next]_vars
  PROVE  \/ Known' \subseteq Known
         \/ \E t \in Threads :
              /\ CreatePut(t)
              /\ Known' \subseteq
                   Known \cup {<<path[t], [ino |-> reg[t], mnt |-> mounts]>>}
<1>0. /\ disk \in Images /\ cache \in Images
      /\ Root \in Paths /\ Files \subseteq Paths /\ Root \notin Files
      /\ pc \in [Threads -> {"idle", "incr", "put", "open"}] /\ path \in [Threads -> Paths]
      /\ copy \in [Threads -> Dentries]
  BY RootAssumption DEF TypeOK, Paths
<1>1. CASE UNCHANGED vars
  BY <1>1, KnownShrinks DEF vars, HandlesKept
<1>2. CASE Mkfs \/ Mount
  <2>1. \A p \in Files : disk'.dentry[p] \in {disk.dentry[p], cache.dentry[p]}
    BY <1>2 DEF Mkfs, MkfsOpen, MkfsRoot, MkfsInfo, MkfsClose, MkfsEvict, Mount,
         InitFetch, InitUpdate, InitFail
  <2>2. \A p \in Files : cache'.dentry[p] = cache.dentry[p]
    BY <1>2, <1>0 DEF Mkfs, MkfsOpen, MkfsRoot, MkfsInfo, MkfsClose, MkfsEvict, Mount,
         InitFetch, InitUpdate, InitFail, Images
  <2>3. HandlesKept
    BY <1>2 DEF Mkfs, MkfsOpen, MkfsRoot, MkfsInfo, MkfsClose, MkfsEvict, Mount,
         InitFetch, InitUpdate, InitFail, threads, HandlesKept
  <2> QED BY <2>1, <2>2, <2>3, KnownShrinks
<1>3. ASSUME NEW t \in Threads, (\E p \in Paths : CreateRead(t, p)) \/ CreateIncr(t)
      PROVE  Known' \subseteq Known
  <2>1. HandlesKept
    BY <1>3, <1>0 DEF CreateRead, CreateIncr, HandlesKept
  <2> QED BY <1>3, <2>1, KnownShrinks DEF CreateRead, CreateIncr, store
<1>4. ASSUME NEW t \in Threads, CreatePut(t)
      PROVE  Known' \subseteq
               Known \cup {<<path[t], [ino |-> reg[t], mnt |-> mounts]>>}
  <2> DEFINE new == [ino |-> reg[t], mnt |-> mounts]
  <2>1. SUFFICES ASSUME NEW r \in Known' PROVE r \in Known \/ r = <<path[t], new>>
    OBVIOUS
  <2>2. /\ r[1] \in Files /\ r = <<r[1], r[2]>> /\ r[2] # NoRec
        /\ \/ disk'.dentry[r[1]] = r[2] \/ cache'.dentry[r[1]] = r[2]
           \/ \E u \in Threads : pc'[u] = "open" /\ path'[u] = r[1] /\ copy'[u] = r[2]
    BY KnownNext
  <2>3. HandlesKept
    BY <1>4, <1>0 DEF CreatePut, Finish, HandlesKept
  <2>4. disk'.dentry[r[1]] = disk.dentry[r[1]]
    BY <1>4 DEF CreatePut
  <2>5. cache'.dentry[r[1]] = cache.dentry[r[1]] \/ (r[1] = path[t] /\ cache'.dentry[r[1]] = new)
    BY <1>4, <1>0, <2>2 DEF CreatePut, Images
  <2>6. (\E u \in Threads : pc'[u] = "open" /\ path'[u] = r[1] /\ copy'[u] = r[2]) => Holds(r[1], r[2])
    BY <2>3 DEF HandlesKept, Holds
  <2> HIDE DEF new
  <2> QED BY <2>2, <2>4, <2>5, <2>6, KnownMember
<1>5. ASSUME NEW q \in Files, Delete(q) PROVE Known' \subseteq Known
  <2>1. \A p \in Files : cache'.dentry[p] \in {NoRec, cache.dentry[p]}
    BY <1>5, <1>0 DEF Delete, Images
  <2> QED BY <1>5, <2>1, KnownShrinks DEF Delete, threads, HandlesKept
<1>6. CASE Evict
  <2>1. \A p \in Files : disk'.dentry[p] \in {disk.dentry[p], cache.dentry[p]}
    BY <1>6, <1>0 DEF Evict, EvictFsinfo, EvictDentry, Images
  <2>2. HandlesKept
    BY <1>6 DEF Evict, EvictFsinfo, EvictDentry, threads, HandlesKept
  <2> QED BY <1>6, <2>1, <2>2, KnownShrinks DEF Evict, EvictFsinfo, EvictDentry
<1>7. CASE Close \/ Crash
  <2>1. HandlesKept
    BY <1>7 DEF Close, Quiesce, Crash, FinishAll, HandlesKept
  <2> QED BY <1>7, <2>1, KnownShrinks DEF Close, Crash
<1>8. ASSUME NEW t \in Threads, Use(t) PROVE Known' \subseteq Known
  <2>1. ASSUME NEW p \in Paths, OpenHandle(t, p) PROVE Known' \subseteq Known
    <3>1. SUFFICES ASSUME NEW r \in Known' PROVE r \in Known
      OBVIOUS
    <3>2. /\ r[1] \in Files /\ r = <<r[1], r[2]>> /\ r[2] # NoRec
          /\ \/ disk'.dentry[r[1]] = r[2] \/ cache'.dentry[r[1]] = r[2]
             \/ \E u \in Threads : pc'[u] = "open" /\ path'[u] = r[1] /\ copy'[u] = r[2]
      BY KnownNext
    <3>3. \A u \in Threads : pc'[u] = "open" =>
            \/ pc[u] = "open" /\ path'[u] = path[u] /\ copy'[u] = copy[u]
            \/ path'[u] = p /\ copy'[u] = cache.dentry[p]
      BY <2>1, <1>0 DEF OpenHandle
    <3>4. disk' = disk /\ cache' = cache
      BY <2>1 DEF OpenHandle, store
    <3>5. disk.dentry[r[1]] = r[2] \/ cache.dentry[r[1]] = r[2] \/ Holds(r[1], r[2])
      BY <3>2, <3>3, <3>4 DEF Holds
    <3> QED BY <3>2, <3>5, KnownMember
  <2>2. CASE WriteAttr(t)
    <3>1. \A p \in Files : cache'.dentry[p] = cache.dentry[p] \/ Holds(p, cache'.dentry[p])
      BY <2>2, <1>0 DEF WriteAttr, Holds, Images
    <3> QED BY <2>2, <3>1, KnownShrinks DEF WriteAttr, threads, HandlesKept
  <2>3. CASE CloseHandle(t)
    <3>1. HandlesKept
      BY <2>3, <1>0 DEF CloseHandle, Finish, HandlesKept
    <3> QED BY <2>3, <3>1, KnownShrinks DEF CloseHandle, store
  <2> QED BY <1>8, <2>1, <2>2, <2>3 DEF Use
<1> QED BY <1>1, <1>2, <1>3, <1>4, <1>5, <1>6, <1>7, <1>8 DEF Next, Create

-----------------------------------------------------------------------------
(* The batches of different mounts *)

\* A reservation that does not wrap adds Batch.
LEMMA ReserveExact ==
  ASSUME NEW lo \in 0 .. LowWord - 1, lo + Batch < LowWord
  PROVE  Reserve(lo) = lo + Batch
  BY NumAssumption DEF Reserve

\* No step takes a mishap back.
LEMMA HazardGrows == [Next]_vars => hazard \subseteq hazard'
  BY DEF Next, vars, Mkfs, MkfsOpen, MkfsRoot, MkfsInfo, MkfsClose, MkfsEvict, Mount,
     InitFetch, InitUpdate, InitFail, Create, CreateRead, CreateIncr, CreatePut, Delete,
     Evict, EvictFsinfo, EvictDentry, Close, Crash, Use, OpenHandle, WriteAttr, CloseHandle

\* Only the steps of a create that are not its last move a thread along in it;
\* handles and calls that end take nothing from the creates of others.
CreatesKept == \A t \in Threads : InCreate(t)' => pc'[t] = pc[t] /\ reg'[t] = reg[t]

LEMMA CreatesStep ==
  ASSUME TypeOK, [Next]_vars
  PROVE  \/ CreatesKept
         \/ \E t \in Threads : (\E p \in Paths : CreateRead(t, p)) \/ CreateIncr(t)
<1> USE DEF CreatesKept, InCreate
<1>0. /\ pc \in [Threads -> {"idle", "incr", "put", "open"}] /\ reg \in [Threads -> Inos]
  BY DEF TypeOK
<1>1. CASE UNCHANGED threads
  BY <1>1 DEF threads
<1>2. ASSUME NEW t \in Threads, CreatePut(t) \/ CloseHandle(t) PROVE CreatesKept
  BY <1>0, <1>2 DEF CreatePut, CloseHandle, Finish
<1>3. ASSUME NEW t \in Threads, NEW p \in Paths, OpenHandle(t, p) PROVE CreatesKept
  BY <1>0, <1>3 DEF OpenHandle
<1>4. CASE Close \/ Crash
  BY <1>4 DEF Close, Quiesce, Crash, FinishAll
<1> QED
  BY <1>1, <1>2, <1>3, <1>4 DEF Next, vars, Mkfs, MkfsOpen, MkfsRoot, MkfsInfo, MkfsClose,
     MkfsEvict, Mount, InitFetch, InitUpdate, InitFail, Create, Use, WriteAttr, Delete,
     Evict, EvictFsinfo, EvictDentry, threads

\* The counter stays as it is but for these steps and the mount's.
LEMMA CounterStep ==
  ASSUME [Next]_vars
  PROVE  \/ lastInode' = lastInode \/ InitFetch \/ \E t \in Threads : CreateIncr(t)
  BY DEF Next, vars, Mkfs, MkfsOpen, MkfsRoot, MkfsInfo, MkfsClose, MkfsEvict, Mount,
     InitUpdate, InitFail, Create, CreateRead, CreatePut, Delete, Evict, EvictFsinfo,
     EvictDentry, Close, Crash, Use, OpenHandle, WriteAttr, CloseHandle

\* The range invariant is preserved by every step.
LEMMA RangeStep ==
  ASSUME TypeOK, TypeOK', RootInv, RangeInv, [Next]_vars
  PROVE  RangeInv'
<1> SUFFICES ASSUME hazard' \subseteq {"raced"}
             PROVE  ClosedRange' /\ MountedRange' /\ MountsApart'
  BY DEF RangeInv
<1>1. /\ ClosedRange /\ MountedRange /\ MountsApart
      /\ BusyMounted /\ BusyMounted'
  BY HazardGrows, BusyStep DEF RangeInv, RootInv
<1>2. /\ \A r \in Known : r[2].ino.lo \in Nat /\ r[2].mnt \in Nat
      /\ mounts \in Nat /\ Batch \in Nat \ {0} /\ LowWord \in Nat
      /\ lastInode.lo \in 0 .. LowWord - 1
      /\ \A t \in Threads : reg[t].lo \in 0 .. LowWord - 1
      /\ disk.fsinfo \in (0 .. LowWord - 1) \cup {NoRec}
      /\ cache.fsinfo \in (0 .. LowWord - 1) \cup {NoRec}
      /\ pc \in [Threads -> {"idle", "incr", "put", "open"}]
      /\ reg \in [Threads -> Inos]
  BY KnownMember, NumAssumption DEF TypeOK, Images, Dentries, Inos
<1>3. disk \in Images /\ cache \in Images /\ Files \subseteq Paths
  BY DEF TypeOK, Paths
<1>4. CASE UNCHANGED vars
  BY <1>1, <1>4 DEF vars, ClosedRange, MountedRange, MountsApart, Known, Entries, Copies, Has, InCreate
<1>5. CASE Known' \subseteq Known /\ phase' # "mounted" /\ ~Crash
  <2>1. MountsApart' /\ MountedRange'
    BY <1>1, <1>5 DEF MountsApart, MountedRange
  <2>2. CASE Mkfs
    <3>1. phase \in {"nofile", "mkroot", "mkinfo", "mkclose"}
      BY <2>2 DEF Mkfs, MkfsOpen, MkfsRoot, MkfsInfo, MkfsClose, MkfsEvict
    <3>2. Known' = {}
      BY <3>1, <1>1, <1>5 DEF ClosedRange
    <3>3. phase' # "fetched"
      BY <2>2 DEF Mkfs, MkfsOpen, MkfsRoot, MkfsInfo, MkfsClose, MkfsEvict
    <3> QED BY <2>1, <3>2, <3>3 DEF ClosedRange
  <2>3. CASE InitFetch
    BY <2>1, <2>3, <1>1, <1>2, <1>5 DEF ClosedRange, InitFetch, RootInv
  <2>4. CASE InitFail
    BY <2>1, <2>4, <1>1, <1>2, <1>5 DEF ClosedRange, InitFail
  <2>5. CASE Evict
    <3>1. phase = "fetched" => disk'.fsinfo = disk.fsinfo \/ disk'.fsinfo = cache.fsinfo
      BY <2>5, <1>3 DEF Evict, EvictFsinfo, EvictDentry, Images
    <3> QED BY <2>1, <2>5, <3>1, <1>1, <1>2, <1>5 DEF ClosedRange, Evict, EvictFsinfo, EvictDentry
  <2>6. CASE Close
    BY <2>1, <2>6, <1>1, <1>2, <1>5 DEF ClosedRange, MountedRange, Close, Quiesce, RootInv, InDbfs
  <2>7. \A t \in Threads : ~Create(t)
    BY <1>1, <1>5 DEF BusyMounted, Create, CreateRead, CreateIncr, CreatePut, store
  <2>9. \A t \in Threads : ~Use(t)
    BY <1>1, <1>5 DEF BusyMounted, Use, OpenHandle, WriteAttr, CloseHandle, store
  <2>8. ~InitUpdate /\ \A p \in Files : ~Delete(p)
    BY <1>5 DEF InitUpdate, Delete
  <2> QED BY <1>4, <1>5, <2>1, <2>2, <2>3, <2>4, <2>5, <2>6, <2>7, <2>8, <2>9 DEF Next, Mount
<1>6. CASE Known' \subseteq Known /\ phase' = "mounted"
  <2>1. MountsApart'
    BY <1>1, <1>6 DEF MountsApart
  <2>2. CASE InitUpdate
    <3>1. lastInode.lo = cache.fsinfo /\ lastInode.lo + Batch < LowWord
      <4>1. lastInode.lo = cache.fsinfo
        BY <2>2, <1>1 DEF InitUpdate, ClosedRange
      <4>2. "wrapped" \notin hazard'
        OBVIOUS
      <4>3. ~(lastInode.lo + Batch >= LowWord)
        BY <2>2, <4>2 DEF InitUpdate
      <4> QED BY <4>1, <4>3, <1>2
    <3>2. cache'.fsinfo = cache.fsinfo + Batch
      <4>1. Reserve(lastInode.lo) = lastInode.lo + Batch
        BY <3>1, <1>2, ReserveExact
      <4> QED BY <2>2, <3>1, <4>1, <1>3 DEF InitUpdate, Images
    <3>3. \A t \in Threads : pc'[t] = "idle"
      BY <2>2, <1>1 DEF InitUpdate, BusyMounted, threads
    <3>4. disk'.fsinfo = cache.fsinfo /\ cache.fsinfo # NoRec
      BY <2>2, <1>1 DEF InitUpdate, ClosedRange, RootInv, InDbfs
    <3>5. \A r \in Known : r[2].ino.lo < cache.fsinfo /\ r[2].mnt <= mounts
      BY <2>2, <1>1 DEF InitUpdate, ClosedRange
    <3>6. ClosedRange'
      BY <2>2, <1>6, <3>5, <1>2 DEF InitUpdate, ClosedRange
    <3>7. MountedRange'
      BY <2>2, <1>6, <3>1, <3>2, <3>3, <3>4, <3>5, <1>2 DEF InitUpdate, MountedRange, InCreate
    <3> QED BY <2>1, <3>6, <3>7
  <2>3. CASE phase = "mounted" /\ mounts' = mounts /\ cache'.fsinfo = cache.fsinfo
    <3>1. ClosedRange'
      BY <2>3, <1>1, <1>6 DEF ClosedRange
    <3>2. disk'.fsinfo \in {disk.fsinfo, cache.fsinfo} /\ cache.fsinfo # NoRec
      BY <2>3, <1>3, <1>6 DEF RootInv, InDbfs, Next, vars, Mkfs, MkfsOpen, MkfsRoot, MkfsInfo, MkfsClose,
         MkfsEvict, Mount, InitFetch, InitUpdate, InitFail, Create, CreateRead, CreateIncr,
         CreatePut, Delete, Evict, EvictFsinfo, EvictDentry, Close, Crash, store, Images,
         Use, OpenHandle, WriteAttr, CloseHandle
    <3>3. ASSUME lastInode' = lastInode, CreatesKept PROVE MountedRange'
      <4>1. \A u \in Threads : InCreate(u)' => InCreate(u) /\ reg'[u] = reg[u]
        BY <3>3 DEF CreatesKept, InCreate
      <4> QED BY <3>2, <3>3, <4>1, <2>3, <1>1, <1>2, <1>6 DEF MountedRange
    <3>4. ASSUME NEW t \in Threads, NEW p \in Paths, CreateRead(t, p) PROVE MountedRange'
      <4>1. lastInode.lo < cache.fsinfo
        BY <3>4, <3>2, <1>2 DEF CreateRead
      <4>2. \A u \in Threads : InCreate(u)' => (reg'[u] = reg[u] /\ InCreate(u)) \/ reg'[u] = lastInode
        BY <3>4, <1>2 DEF CreateRead, InCreate
      <4>3. lastInode' = lastInode
        BY <3>4 DEF CreateRead
      <4> QED BY <3>2, <4>1, <4>2, <4>3, <2>3, <1>1, <1>2, <1>6 DEF MountedRange
    <3>5. ASSUME NEW t \in Threads, CreateIncr(t) PROVE MountedRange'
      <4>1. reg[t].lo < cache.fsinfo /\ cache.fsinfo <= reg[t].lo + Batch
        BY <3>5, <2>3, <1>1 DEF CreateIncr, MountedRange, InCreate
      <4>2. lastInode'.lo = reg[t].lo + 1
        BY <3>5, <3>2, <4>1, <1>2 DEF CreateIncr, Bumped
      <4>3. \A u \in Threads : InCreate(u)' => InCreate(u)
        BY <3>5, <1>2 DEF CreateIncr, InCreate
      <4>4. reg' = reg
        BY <3>5 DEF CreateIncr
      <4> QED BY <3>2, <4>1, <4>2, <4>3, <4>4, <2>3, <1>1, <1>2, <1>6 DEF MountedRange
    <3>6. ~InitFetch
      BY <2>3 DEF InitFetch
    <3> QED BY <2>1, <3>1, <3>3, <3>4, <3>5, <3>6, CreatesStep, CounterStep
  <2>4. InitUpdate \/ (phase = "mounted" /\ mounts' = mounts)
    BY <1>1, <1>6 DEF Next, vars, Mkfs, MkfsOpen, MkfsRoot, MkfsInfo, MkfsClose, MkfsEvict,
         Mount, InitFetch, InitUpdate, InitFail, Create, CreateRead, CreateIncr, CreatePut,
         Delete, Evict, EvictFsinfo, EvictDentry, Close, Crash, store, BusyMounted,
         Use, OpenHandle, WriteAttr, CloseHandle
  <2>5. InitUpdate \/ cache'.fsinfo = cache.fsinfo
    BY <1>3, <1>6, <2>4 DEF Next, vars, Mkfs, MkfsOpen, MkfsRoot, MkfsInfo, MkfsClose, MkfsEvict,
         Mount, InitFetch, InitUpdate, InitFail, Create, CreateRead, CreateIncr, CreatePut,
         Delete, Evict, EvictFsinfo, EvictDentry, Close, Crash, store, Images,
         Use, OpenHandle, WriteAttr, CloseHandle
  <2> QED BY <2>2, <2>3, <2>4, <2>5
<1>7. ASSUME NEW t \in Threads, CreatePut(t),
             Known' \subseteq Known \cup {<<path[t], [ino |-> reg[t], mnt |-> mounts]>>}
      PROVE  ClosedRange' /\ MountedRange' /\ MountsApart'
  <2> DEFINE new == <<path[t], [ino |-> reg[t], mnt |-> mounts]>>
  <2>1. /\ phase = "mounted" /\ phase' = "mounted" /\ mounts' = mounts
        /\ disk' = disk /\ lastInode' = lastInode
        /\ \A u \in Threads : InCreate(u)' => InCreate(u) /\ reg'[u] = reg[u]
    BY <1>7, <1>1, <1>2 DEF CreatePut, BusyMounted, Finish, InCreate
  <2>2. cache'.fsinfo = cache.fsinfo /\ cache.fsinfo # NoRec
    BY <1>7, <1>3, <2>1 DEF CreatePut, Images, RootInv, InDbfs
  <2>3. reg[t].lo < cache.fsinfo /\ cache.fsinfo <= reg[t].lo + Batch
    BY <1>7, <1>1, <2>1 DEF MountedRange, CreatePut, InCreate
  <2>4. \A r \in Known' : r \in Known \/ (r[2].mnt = mounts /\ r[2].ino.lo = reg[t].lo)
    BY <1>7
  <2>5. ClosedRange'
    BY <2>1, <2>4, <1>1, <1>2 DEF ClosedRange
  <2>6. MountedRange'
    BY <2>1, <2>2, <2>3, <2>4, <1>1, <1>2 DEF MountedRange
  <2>7. ASSUME NEW r \in Known, r[2].mnt # mounts PROVE r[2].ino.lo < reg[t].lo
    <3>1. r[2].mnt < mounts
      BY <2>7, <1>1, <1>2 DEF ClosedRange
    <3> QED BY <3>1, <2>1, <2>2, <2>3, <1>1, <1>2 DEF MountedRange
  <2>8. MountsApart'
    BY <2>4, <2>7, <1>1, <1>2 DEF MountsApart
  <2> QED BY <2>5, <2>6, <2>8
<1>8. CASE Crash
  <2>1. Known' \subseteq Known
    <3>1. HandlesKept
      BY <1>8 DEF Crash, FinishAll, HandlesKept
    <3> QED BY <1>8, <3>1, KnownShrinks DEF Crash
  <2>2. MountsApart' /\ MountedRange' /\ phase' = "closed" /\ mounts' = mounts
    BY <1>1, <1>8, <2>1 DEF MountsApart, MountedRange, Crash
  <2>3. CASE phase = "mounted"
    <3>1. ~TornBatch
      BY <1>8 DEF Crash
    <3>2. ASSUME NEW r \in Known' PROVE disk.fsinfo # NoRec /\ r[2].ino.lo < disk.fsinfo
      <4>1. r \in Known /\ r[1] \in Files /\ disk.dentry[r[1]] = r[2] /\ r[2] # NoRec
        <5>1. disk'.dentry[r[1]] = r[2] \/ cache'.dentry[r[1]] = r[2]
          BY <1>8, KnownNext DEF Crash, FinishAll
        <5>2. disk' = disk /\ cache' = disk
          BY <1>8 DEF Crash
        <5> QED BY <5>1, <5>2, <2>1, KnownNext
      <4>2. disk.fsinfo # cache.fsinfo => r[2].mnt # mounts
        BY <3>1, <4>1, <2>3, <1>3 DEF TornBatch
      <4>3. r[2].mnt <= mounts /\ cache.fsinfo # NoRec
        BY <4>1, <1>1, <2>3 DEF ClosedRange, RootInv, InDbfs
      <4>4. r[2].mnt # mounts => r[2].mnt < mounts
        BY <4>1, <4>3, <1>2
      <4>5. r[2].ino.lo < cache.fsinfo /\ (r[2].mnt < mounts => r[2].ino.lo + Batch < cache.fsinfo)
        BY <4>1, <2>3, <1>1 DEF MountedRange
      <4>6. disk.fsinfo # NoRec /\ (disk.fsinfo = cache.fsinfo \/ disk.fsinfo + Batch = cache.fsinfo)
        BY <2>3, <1>1 DEF MountedRange
      <4> QED BY <4>1, <4>2, <4>3, <4>4, <4>5, <4>6, <1>2
    <3> QED BY <3>2, <2>1, <2>2, <1>1, <1>8 DEF ClosedRange, Crash
  <2>4. CASE phase = "fetched"
    BY <2>1, <2>2, <2>4, <1>1, <1>8 DEF ClosedRange, Crash, RootInv
  <2>5. CASE phase \in {"mkroot", "mkinfo", "mkclose"}
    BY <2>1, <2>2, <2>5, <1>1, <1>8 DEF ClosedRange, Crash
  <2> QED BY <2>3, <2>4, <2>5, <1>8 DEF Crash, TypeOK, Phases
<1> QED BY <1>4, <1>5, <1>6, <1>7, <1>8, KnownStep

-----------------------------------------------------------------------------
(* The numbers of one mount *)

\* The freshness invariant is preserved by every step.
LEMMA FreshStep ==
  ASSUME TypeOK, TypeOK', RootInv, RangeInv, FreshInv, [Next]_vars
  PROVE  FreshInv'
<1> SUFFICES ASSUME hazard' = {}
             PROVE  ThreadsFresh' /\ KnownFresh' /\ FilesApart'
  BY DEF FreshInv
<1>1. /\ ThreadsFresh /\ KnownFresh /\ FilesApart
      /\ ClosedRange /\ MountedRange /\ BusyMounted
  BY HazardGrows DEF RangeInv, FreshInv, RootInv
<1>2. /\ \A r \in Known : r[2].ino.lo \in Nat
      /\ LowWord \in Nat
      /\ lastInode.lo \in 0 .. LowWord - 1
      /\ \A t \in Threads : reg[t].lo \in 0 .. LowWord - 1
      /\ cache.fsinfo \in (0 .. LowWord - 1) \cup {NoRec}
      /\ pc \in [Threads -> {"idle", "incr", "put", "open"}]
      /\ reg \in [Threads -> Inos]
  BY KnownMember, NumAssumption DEF TypeOK, Images, Dentries, Inos
<1>3. CASE Known' \subseteq Known
  <2>1. FilesApart'
    BY <1>1, <1>3 DEF FilesApart
  <2>2. ASSUME NEW t \in Threads, NEW p \in Paths, CreateRead(t, p)
        PROVE  ThreadsFresh' /\ KnownFresh'
    <3>1. \A u \in Threads : pc[u] # "incr"
      BY <2>2 DEF CreateRead
    <3>2. \A u \in Threads : u # t => pc'[u] = pc[u] /\ reg'[u] = reg[u]
      BY <2>2, <1>2 DEF CreateRead
    <3>3. pc'[t] = "incr" /\ reg'[t] = lastInode /\ lastInode' = lastInode
      BY <2>2, <1>2 DEF CreateRead
    <3>4. ThreadsFresh'
      BY <3>1, <3>2, <3>3, <1>1, <1>2, <1>3 DEF ThreadsFresh
    <3> QED BY <2>2, <3>4, <1>1, <1>3 DEF KnownFresh, CreateRead, store
  <2>3. ASSUME NEW t \in Threads, CreateIncr(t)
        PROVE  ThreadsFresh' /\ KnownFresh'
    <3>1. phase = "mounted" /\ reg[t] = lastInode /\ \A u \in Threads : pc[u] = "incr" => u = t
      BY <2>3, <1>1 DEF CreateIncr, BusyMounted, ThreadsFresh
    <3>2. reg[t].lo < cache.fsinfo /\ cache.fsinfo # NoRec
      BY <2>3, <3>1, <1>1 DEF CreateIncr, MountedRange, RootInv, InDbfs, InCreate
    <3>3. lastInode'.lo = lastInode.lo + 1
      BY <2>3, <3>1, <3>2, <1>2 DEF CreateIncr, Bumped
    <3>4. \A r \in Known : r[2].ino.lo < lastInode.lo
      BY <3>1, <1>1 DEF KnownFresh
    <3>5. \A u \in Threads : u # t => pc'[u] = pc[u]
      BY <2>3, <1>2 DEF CreateIncr
    <3>6. pc'[t] = "put" /\ reg' = reg
      BY <2>3, <1>2 DEF CreateIncr
    <3>7. \A u \in Threads : pc[u] = "put" => reg[u].lo < lastInode.lo
      BY <1>1 DEF ThreadsFresh
    <3>8. ASSUME NEW u \in Threads, pc'[u] = "put"
          PROVE  /\ reg'[u].lo < lastInode'.lo
                 /\ \A v \in Threads : pc'[v] = "put" /\ v # u => reg'[v].lo # reg'[u].lo
                 /\ \A r \in Known' : r[2].ino.lo # reg'[u].lo
      <4>1. CASE u = t
        BY <4>1, <3>1, <3>3, <3>4, <3>5, <3>6, <3>7, <1>2, <1>3
      <4>2. CASE u # t
        BY <4>2, <3>8, <3>1, <3>3, <3>5, <3>6, <3>7, <1>1, <1>2, <1>3 DEF ThreadsFresh
      <4> QED BY <4>1, <4>2
    <3>9. \A u \in Threads : pc'[u] # "incr"
      BY <3>1, <3>5, <3>6
    <3>10. ThreadsFresh'
      BY <3>8, <3>9 DEF ThreadsFresh
    <3> QED BY <3>3, <3>4, <3>10, <1>2, <1>3 DEF KnownFresh
  <2>4. CASE CreatesKept /\ lastInode' = lastInode /\ phase' = "mounted" /\ phase = "mounted"
    <3>1. ASSUME NEW t \in Threads, pc'[t] \in {"incr", "put"}
          PROVE  pc'[t] = pc[t] /\ reg'[t] = reg[t]
      BY <2>4, <3>1 DEF CreatesKept, InCreate
    <3>2. ThreadsFresh'
      BY <2>4, <3>1, <1>1, <1>3 DEF ThreadsFresh
    <3>3. KnownFresh'
      BY <2>4, <1>1, <1>3 DEF KnownFresh
    <3> QED BY <2>1, <3>2, <3>3
  <2>5. CASE phase' # "mounted"
    <3>1. \A t \in Threads : pc'[t] = "idle"
      BY <2>5, BusyStep, <1>1 DEF BusyMounted
    <3>2. ThreadsFresh'
      BY <3>1 DEF ThreadsFresh
    <3>3. KnownFresh'
      BY <2>5 DEF KnownFresh
    <3> QED BY <2>1, <3>2, <3>3
  <2>6. CASE InitUpdate
    <3>1. \A t \in Threads : pc'[t] = "idle"
      BY <2>6, <1>1, <1>2 DEF InitUpdate, BusyMounted, threads
    <3>2. lastInode' = lastInode /\ lastInode.lo = cache.fsinfo
      BY <2>6, <1>1 DEF InitUpdate, ClosedRange
    <3>3. \A r \in Known : r[2].ino.lo < cache.fsinfo
      BY <2>6, <1>1 DEF InitUpdate, ClosedRange
    <3> QED BY <2>1, <3>1, <3>2, <3>3, <1>2, <1>3 DEF ThreadsFresh, KnownFresh
  <2>7. InitUpdate \/ phase' # "mounted" \/ phase = "mounted"
    BY DEF Next, vars, Mkfs, MkfsOpen, MkfsRoot, MkfsInfo, MkfsClose, MkfsEvict, Mount,
       InitFetch, InitFail, Create, CreateRead, CreateIncr, CreatePut, Delete, Evict,
       EvictFsinfo, EvictDentry, Close, Quiesce, Crash, store, Use, OpenHandle, WriteAttr, CloseHandle
  <2>8. phase = "mounted" => ~InitFetch
    BY DEF InitFetch
  <2> QED BY <2>1, <2>2, <2>3, <2>4, <2>5, <2>6, <2>7, <2>8, CreatesStep, CounterStep
<1>4. ASSUME NEW t \in Threads, CreatePut(t),
             Known' \subseteq Known \cup {<<path[t], [ino |-> reg[t], mnt |-> mounts]>>}
      PROVE  ThreadsFresh' /\ KnownFresh' /\ FilesApart'
  <2>1. \A u \in Threads : u # t => pc'[u] = pc[u] /\ reg'[u] = reg[u]
    BY <1>4, <1>2 DEF CreatePut, Finish
  <2>2. /\ pc[t] = "put" /\ pc'[t] = "idle"
        /\ lastInode' = lastInode /\ phase' = phase
    BY <1>4, <1>2 DEF CreatePut, Finish
  <2>3. \A r \in Known' : r \in Known \/ (r[1] = path[t] /\ r[2].ino.lo = reg[t].lo)
    BY <1>4
  <2>4. ThreadsFresh'
    BY <2>1, <2>2, <2>3, <1>1 DEF ThreadsFresh
  <2>5. KnownFresh'
    BY <2>2, <2>3, <1>1 DEF KnownFresh, ThreadsFresh
  <2>6. \A r \in Known : r[2].ino.lo # reg[t].lo
    BY <2>2, <1>1 DEF ThreadsFresh
  <2>7. FilesApart'
    BY <2>3, <2>6, <1>1 DEF FilesApart
  <2> QED BY <2>4, <2>5, <2>7
<1> QED BY <1>3, <1>4, KnownStep

-----------------------------------------------------------------------------
(* The inductive invariant and what follows from it *)

\* The whole invariant holds initially and is preserved by every step.
THEOREM Inductive == Spec => []IInv
<1>1. Init => IInv
  <2> SUFFICES ASSUME Init PROVE IInv
    OBVIOUS
  <2>1. TypeOK
    BY TypeInit
  <2>2. Known = {}
    BY DEF Init, Known, Entries, Copies, Has, NoRecords, Paths
  <2>3. RootInv
    BY DEF Init, RootInv, BusyMounted, FsinfoImpliesRoot, InDbfs, Has, NoRecords
  <2>4. RangeInv /\ FreshInv
    BY <2>2 DEF Init, RangeInv, ClosedRange, MountedRange, MountsApart, FreshInv,
       ThreadsFresh, KnownFresh, FilesApart
  <2> QED BY <2>1, <2>3, <2>4 DEF IInv
<1>2. IInv /\ [Next]_vars => IInv'
  BY TypeStep, RootStep, RangeStep, FreshStep DEF IInv
<1> QED BY <1>1, <1>2, PTL DEF Spec

\* As long as nothing worse than an overlapping last_inode++ has happened, files
\* created by different mounts have different inode numbers.
THEOREM CrossMountTheorem == Spec => []CrossMountUnique
<1>1. IInv => CrossMountUnique
  <2> SUFFICES ASSUME IInv, hazard \subseteq {"raced"}, NEW p \in Files, NEW q \in Files,
                      Has(cache, p), Has(cache, q),
                      cache.dentry[p].mnt # cache.dentry[q].mnt
               PROVE  cache.dentry[p].ino # cache.dentry[q].ino
    BY DEF CrossMountUnique
  <2>1. <<p, cache.dentry[p]>> \in Known /\ <<q, cache.dentry[q]>> \in Known
    BY KnownMember DEF IInv, Has
  <2> QED BY <2>1 DEF IInv, RangeInv, MountsApart
<1> QED BY <1>1, Inductive, PTL

\* Without mishaps no two files have the same inode number.
THEOREM UniqueTheorem == Spec => []UniqueInos
<1>1. IInv => UniqueInos
  <2> SUFFICES ASSUME IInv, hazard = {}, NEW p \in Files, NEW q \in Files,
                      Has(cache, p), Has(cache, q), p # q
               PROVE  cache.dentry[p].ino # cache.dentry[q].ino
    BY DEF UniqueInos
  <2>1. <<p, cache.dentry[p]>> \in Known /\ <<q, cache.dentry[q]>> \in Known
    BY KnownMember DEF IInv, Has
  <2> QED BY <2>1 DEF IInv, FreshInv, FilesApart
<1> QED BY <1>1, Inductive, PTL

-----------------------------------------------------------------------------
(* DbfsVolume implements InoPromise *)

\* Images that agree on the entries of files have the same numbers.
LEMMA SameNumbers ==
  ASSUME NEW img, NEW jmg, \A p \in Files : img.dentry[p] = jmg.dentry[p]
  PROVE  NumberIn(img) = NumberIn(jmg)
  BY DEF NumberIn, Has

\* A put of a new entry takes a number that no file has, in the open store or in
\* the database file, and that no handle remembers.
LEMMA PutTakes ==
  ASSUME IInv, hazard = {}, NEW t \in Threads, CreatePut(t), cache' # cache,
         path[t] \in Files, Remembered' = Remembered
  PROVE  Promise!Take(path[t])
<1> DEFINE p == path[t]
<1>1. /\ pc[t] = "put" /\ cache.dentry[p] = NoRec
      /\ cache' = [cache EXCEPT !.dentry[p] = [ino |-> reg[t], mnt |-> mounts]]
      /\ disk' = disk /\ hazard' = hazard
  BY DEF CreatePut
<1>2. cache \in Images /\ reg[t] \in Inos /\ mounts \in Nat /\ p \in Paths
  BY DEF IInv, TypeOK
<1>3. [ino |-> reg[t], mnt |-> mounts] # NoRec
  BY <1>2, DentryIsRec DEF Dentries
<1>4. NumberIn(cache') = [NumberIn(cache) EXCEPT ![p] = reg[t]]
  <2>1. \A q \in Files : cache'.dentry[q] = IF q = p THEN [ino |-> reg[t], mnt |-> mounts]
                                           ELSE cache.dentry[q]
    BY <1>1, <1>2 DEF Images, Paths
  <2>2. \A q \in Files : NumberIn(cache')[q] = IF q = p THEN reg[t] ELSE NumberIn(cache)[q]
    BY <2>1, <1>3 DEF NumberIn, Has
  <2>3. DOMAIN NumberIn(cache') = Files /\ DOMAIN NumberIn(cache) = Files
    BY DEF NumberIn
  <2> HIDE DEF p
  <2> QED BY <2>2, <2>3 DEF NumberIn
<1>5. NumberIn(cache)[p] = NoRec
  BY <1>1 DEF NumberIn, Has
<1>6. ASSUME NEW g \in Files, NEW img \in {disk, cache}
      PROVE  reg[t] # NumberIn(img)[g]
  <2>1. CASE ~Has(img, g)
    BY <2>1, <1>2, NoRecAssumption DEF NumberIn
  <2>2. CASE Has(img, g)
    <3>1. <<g, img.dentry[g]>> \in Known
      BY <2>2, KnownMember DEF IInv, Has
    <3>2. img.dentry[g].ino.lo # reg[t].lo
      BY <3>1, <1>1 DEF IInv, FreshInv, ThreadsFresh
    <3> QED BY <2>2, <3>2 DEF NumberIn
  <2> QED BY <2>1, <2>2
<1>7. NumberIn(cache')[p] = reg[t]
  BY <1>4 DEF NumberIn
<1>8. ASSUME NEW r \in Remembered PROVE r[2] # reg[t]
  <2>1. PICK u \in Threads : pc[u] = "open" /\ path[u] \in Files /\ r = <<path[u], copy[u].ino>>
    BY DEF Remembered
  <2>2. <<path[u], copy[u]>> \in Known
    BY <2>1 DEF Known, Copies
  <2>3. copy[u].ino.lo # reg[t].lo
    BY <2>2, <1>1 DEF IInv, FreshInv, ThreadsFresh
  <2> QED BY <2>1, <2>3
<1> QED BY <1>1, <1>4, <1>5, <1>6, <1>7, <1>8 DEF Promise!Take

\* The handles that are open are the same as before.
SameHandles ==
  \A t \in Threads :
    /\ pc'[t] = "open" <=> pc[t] = "open"
    /\ pc[t] = "open" => path'[t] = path[t] /\ copy'[t] = copy[t]

\* The handles stay the same in all steps that are not a handle's, nor end the
\* mount; in those they get no more, except by an open.
LEMMA HandlesStep ==
  ASSUME TypeOK, [Next]_vars
  PROVE  /\ \/ Remembered' = Remembered
            \/ Close \/ Crash
            \/ \E t \in Threads : CloseHandle(t) \/ \E p \in Paths : OpenHandle(t, p)
         /\ Close \/ Crash => Remembered' = {}
         /\ \A t \in Threads : CloseHandle(t) => Remembered' \subseteq Remembered
<1>0. pc \in [Threads -> {"idle", "incr", "put", "open"}] /\ path \in [Threads -> Paths]
      /\ copy \in [Threads -> Dentries]
  BY DEF TypeOK
<1>1. SameHandles => Remembered' = Remembered
  BY DEF SameHandles, Remembered
<1>2. ASSUME UNCHANGED <<pc, path, copy>> PROVE Remembered' = Remembered
  BY <1>2 DEF Remembered
<1>3. ASSUME Mkfs \/ Mount \/ Evict \/ \E p \in Files : Delete(p)
      PROVE  Remembered' = Remembered
  BY <1>3, <1>2 DEF Mkfs, MkfsOpen, MkfsRoot, MkfsInfo, MkfsClose, MkfsEvict, Mount,
     InitFetch, InitUpdate, InitFail, Evict, EvictFsinfo, EvictDentry, Delete, threads
<1>4. ASSUME NEW t \in Threads, Create(t) PROVE Remembered' = Remembered
  <2>1. SameHandles
    BY <1>4, <1>0 DEF Create, CreateRead, CreateIncr, CreatePut, Finish, SameHandles
  <2> QED BY <2>1, <1>1
<1>5. ASSUME NEW t \in Threads, WriteAttr(t) PROVE Remembered' = Remembered
  BY <1>5, <1>2 DEF WriteAttr, threads
<1>6. ASSUME NEW t \in Threads, CloseHandle(t) PROVE Remembered' \subseteq Remembered
  <2>1. \A u \in Threads : pc'[u] = "open" => pc[u] = "open" /\ path'[u] = path[u] /\ copy'[u] = copy[u]
    BY <1>6, <1>0 DEF CloseHandle, Finish
  <2> QED BY <2>1 DEF Remembered
<1>7. ASSUME Close \/ Crash PROVE Remembered' = {}
  <2>1. \A u \in Threads : pc'[u] = "idle"
    BY <1>7 DEF Close, Crash, Quiesce, FinishAll
  <2> QED BY <2>1 DEF Remembered
<1>8. ASSUME UNCHANGED vars PROVE Remembered' = Remembered
  BY <1>8, <1>2 DEF vars
<1> QED BY <1>3, <1>4, <1>5, <1>6, <1>7, <1>8 DEF Next, Use

\* The put of a handle's copy puts the number back that the handle remembers.
LEMMA PutBackStep ==
  ASSUME IInv, hazard = {}, NEW t \in Threads, WriteAttr(t), path[t] \in Files,
         Remembered' = Remembered
  PROVE  Promise!PutBack(path[t])
<1> DEFINE p == path[t]
<1>1. /\ pc[t] = "open" /\ cache' = [cache EXCEPT !.dentry[p] = copy[t]]
      /\ disk' = disk /\ hazard' = hazard
  BY DEF WriteAttr
<1>2. cache \in Images /\ copy[t] # NoRec /\ p \in Paths
  BY DentryIsRec DEF IInv, TypeOK
<1>3. \A q \in Files : cache'.dentry[q] = IF q = p THEN copy[t] ELSE cache.dentry[q]
  BY <1>1, <1>2 DEF Images, Paths
<1>4. \A q \in Files : NumberIn(cache')[q] = IF q = p THEN copy[t].ino ELSE NumberIn(cache)[q]
  BY <1>3, <1>2 DEF NumberIn, Has
<1>5. <<p, copy[t].ino>> \in Remembered
  BY <1>1 DEF Remembered
<1>6. DOMAIN NumberIn(cache') = Files /\ DOMAIN NumberIn(cache) = Files
  BY DEF NumberIn
<1>7. NumberIn(cache') = [NumberIn(cache) EXCEPT ![p] = copy[t].ino]
  <2> HIDE DEF p
  <2> QED BY <1>4, <1>6 DEF NumberIn
<1> QED BY <1>1, <1>5, <1>7 DEF Promise!PutBack

\* An open remembers the number its locator has.
LEMMA HoldStep ==
  ASSUME TypeOK, hazard' = hazard, NEW t \in Threads, NEW p \in Files, OpenHandle(t, p)
  PROVE  Promise!Hold(p)
<1>0. pc \in [Threads -> {"idle", "incr", "put", "open"}] /\ path \in [Threads -> Paths]
      /\ copy \in [Threads -> Dentries] /\ cache \in Images
  BY DEF TypeOK
<1>1. /\ pc[t] = "idle" /\ Has(cache, p) /\ cache' = cache /\ disk' = disk
      /\ pc'[t] = "open" /\ path'[t] = p /\ copy'[t] = cache.dentry[p]
      /\ \A u \in Threads : u # t => pc'[u] = pc[u] /\ path'[u] = path[u] /\ copy'[u] = copy[u]
  BY <1>0 DEF OpenHandle, store, Has
<1>2. NumberIn(cache)[p] = cache.dentry[p].ino
  BY <1>1 DEF NumberIn
<1>3. NumberIn(cache)[p] # NoRec
  BY <1>1, <1>2, <1>0, NoRecAssumption DEF Images, Paths, Dentries, Has
<1>4. Remembered' = Remembered \cup {<<p, cache.dentry[p].ino>>}
  BY <1>1 DEF Remembered
<1> QED BY <1>1, <1>2, <1>3, <1>4 DEF Promise!Hold

\* Every step of DbfsVolume is one of InoPromise, or changes nothing there.
LEMMA PromiseStep == IInv /\ [Next]_vars => [Promise!Next]_(Promise!vars)
<1> SUFFICES ASSUME IInv, [Next]_vars PROVE [Promise!Next]_(Promise!vars)
  OBVIOUS
<1> USE DEF Promise!Next
<1>1. disk \in Images /\ cache \in Images /\ Root \notin Files /\ TypeOK
  BY RootAssumption DEF IInv, TypeOK
<1>2. CASE hazard' # {}
  BY <1>2 DEF Promise!Lapse
<1>3. CASE hazard' = {}
  <2>1. hazard = {} /\ (hazard = {})' = (hazard = {}) /\ hazard' = hazard
    BY <1>3, HazardGrows
  <2>2. ASSUME \A p \in Files : cache'.dentry[p] = cache.dentry[p] /\ disk'.dentry[p] = disk.dentry[p],
               Remembered' = Remembered
        PROVE  UNCHANGED Promise!vars
    <3>1. NumberIn(cache') = NumberIn(cache) /\ NumberIn(disk') = NumberIn(disk)
      BY <2>2, SameNumbers
    <3> QED BY <3>1, <2>1, <2>2 DEF Promise!vars
  <2>3. ASSUME cache' = cache, disk' = cache, Remembered' \subseteq Remembered
        PROVE  Promise!Save(Files)
    <3>1. NumberIn(disk') = [f \in Files |-> IF f \in Files THEN NumberIn(cache)[f] ELSE NumberIn(disk)[f]]
      BY <2>3 DEF NumberIn
    <3> QED BY <3>1, <2>1, <2>3 DEF Promise!Save
  <2>4. CASE Crash
    BY <2>4, <2>1, <1>1, HandlesStep DEF Promise!Revert, Crash
  <2>5. ASSUME NEW t \in Threads, CreatePut(t), Remembered' = Remembered
        PROVE  [Promise!Next]_(Promise!vars)
    <3>1. CASE cache' = cache
      BY <3>1, <2>2, <2>5 DEF CreatePut
    <3>2. CASE cache' # cache /\ path[t] \in Files
      BY <3>2, <2>1, <2>5, PutTakes
    <3>3. CASE cache' # cache /\ path[t] \notin Files
      <4>1. \A p \in Files : cache'.dentry[p] = cache.dentry[p] /\ disk'.dentry[p] = disk.dentry[p]
        BY <3>3, <2>5, <1>1 DEF CreatePut, Images, Paths
      <4> QED BY <4>1, <2>2, <2>5
    <3> QED BY <3>1, <3>2, <3>3
  <2>6. ASSUME NEW p \in Files, Delete(p), Remembered' = Remembered
        PROVE  [Promise!Next]_(Promise!vars)
    <3>1. NumberIn(cache') = [NumberIn(cache) EXCEPT ![p] = NoRec]
      BY <2>6, <1>1 DEF Delete, NumberIn, Has, Images, Paths
    <3>2. Promise!Drop(p)
      BY <3>1, <2>1, <2>6 DEF Promise!Drop, Delete
    <3> QED BY <3>2
  <2>7. ASSUME NEW p \in Paths, EvictDentry(p), Remembered' = Remembered
        PROVE  [Promise!Next]_(Promise!vars)
    <3>1. NumberIn(disk') = [f \in Files |-> IF f \in Files \cap {p} THEN NumberIn(cache)[f]
                                             ELSE NumberIn(disk)[f]]
      BY <2>7, <1>1 DEF EvictDentry, NumberIn, Has, Images, Paths
    <3>2. Promise!Save(Files \cap {p})
      BY <3>1, <2>1, <2>7 DEF Promise!Save, EvictDentry
    <3> QED BY <3>2
  <2>8. ASSUME MkfsRoot \/ MkfsInfo \/ InitUpdate \/ EvictFsinfo, Remembered' = Remembered
        PROVE  [Promise!Next]_(Promise!vars)
    <3>1. \A p \in Files : cache'.dentry[p] = cache.dentry[p] /\ disk'.dentry[p] = disk.dentry[p]
      BY <2>8, <1>1 DEF MkfsRoot, MkfsInfo, InitUpdate, EvictFsinfo, Images, Paths
    <3> QED BY <3>1, <2>2, <2>8
  <2>9. ASSUME UNCHANGED <<cache, disk>>, Remembered' = Remembered
        PROVE  [Promise!Next]_(Promise!vars)
    BY <2>9, <2>2
  <2>10. ASSUME NEW t \in Threads, WriteAttr(t), Remembered' = Remembered
         PROVE  [Promise!Next]_(Promise!vars)
    <3>1. CASE path[t] \in Files
      BY <3>1, <2>10, <2>1, PutBackStep
    <3>2. CASE path[t] \notin Files
      <4>1. \A p \in Files : cache'.dentry[p] = cache.dentry[p] /\ disk'.dentry[p] = disk.dentry[p]
        BY <3>2, <2>10, <1>1 DEF WriteAttr, Images, Paths
      <4> QED BY <4>1, <2>2, <2>10
    <3> QED BY <3>1, <3>2
  <2>11. ASSUME NEW t \in Threads, NEW p \in Paths, OpenHandle(t, p)
         PROVE  [Promise!Next]_(Promise!vars)
    <3>1. CASE p \in Files
      BY <3>1, <2>11, <2>1, <1>1, HoldStep
    <3>2. CASE p \notin Files
      <4>1. Remembered' = Remembered
        BY <3>2, <2>11, <1>1 DEF OpenHandle, Remembered, TypeOK
      <4> QED BY <4>1, <2>9, <2>11 DEF OpenHandle, store
    <3> QED BY <3>1, <3>2
  <2>12. ASSUME NEW t \in Threads, CloseHandle(t) PROVE Promise!Forget
    <3>1. Remembered' \subseteq Remembered
      BY <2>12, <1>1, HandlesStep
    <3> QED BY <3>1, <2>12, <2>1 DEF Promise!Forget, CloseHandle, store
  <2>13. CASE Close
    <3>1. Remembered' \subseteq Remembered
      BY <2>13, <1>1, HandlesStep
    <3> QED BY <3>1, <2>13, <2>3 DEF Close
  <2>14. CASE (MkfsClose \/ MkfsEvict) /\ Remembered' = Remembered
    BY <2>14, <2>3 DEF MkfsClose, MkfsEvict
  <2>15. CASE Remembered' = Remembered
    BY <2>5, <2>6, <2>7, <2>8, <2>9, <2>10, <2>11, <2>12, <2>13, <2>14, <2>15, <2>4
       DEF Next, vars, Mkfs, MkfsOpen, Mount, InitFetch, InitFail, Create, CreateRead,
       CreateIncr, Evict, store, Use
  <2> QED BY <2>4, <2>11, <2>12, <2>13, <2>15, <1>1, HandlesStep
<1> QED BY <1>2, <1>3

\* A volume keeps the promise about inode numbers, for any number of threads,
\* handles, files and mounts and any batch size.
THEOREM PromiseTheorem == Spec => KeepsPromise
<1>1. Init => Promise!Init
  BY DEF Init, Promise!Init, NumberIn, Has, NoRecords, Paths, Remembered
<1> QED BY <1>1, PromiseStep, Inductive, PTL DEF Spec, KeepsPromise, Promise!Spec

=============================================================================
