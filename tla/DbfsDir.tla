------------------------------- MODULE DbfsDir ------------------------------
(***************************************************************************)
(* The directory tree of a mounted dbfs store: dbfs_create, dbfs_delete    *)
(* (dbfs_deld, dbfs_dela), dbfs_dopen and dbfs_readdir, run by threads     *)
(* that share the store without any lock.  Each action is one call into    *)
(* Berkeley DB with the code that follows it up to the next call.          *)
(*                                                                         *)
(* There is no tree in the database: a directory is a range of the ordered *)
(* keys, and both the listing and the emptiness test of rmdir walk it with *)
(* a cursor.  dbfs_initsearch lends the handle's own key, dh->attr_ddk, to *)
(* the cursor as a DB_DBT_REALLOC buffer: the cursor returns the next key  *)
(* in that memory, or frees it, and dbfs_dela then deletes the record that *)
(* dh->attr_ddk names.  buf is the key a thread's attr_ddk names.          *)
(*                                                                         *)
(* A handle for a locator's bytes or attributes has a copy of the record   *)
(* as it was opened; writes and setters end in dbfs_write_attr, which      *)
(* stores that copy, whatever the locator has become meanwhile.            *)
(***************************************************************************)
EXTENDS DbfsKeys

CONSTANTS
  Threads,       \* the calls and open handles there may be at once: one is either
                 \* a thread in a call or a handle, which any thread may use
  Paths,         \* the locators in use
  FirstBlock,    \* per locator: the key <<inode number, 0>> of its file's first block
  BlockPathLen,  \* a locator this long has a key as large as a block's key
  Opened         \* bound: the locators that handles are opened for

ASSUME PathsAssumption ==
  /\ Paths \subseteq Seq(Codes) /\ Root \in Paths
  /\ \A p \in Paths : Canonical(p)
  /\ FirstBlock \in [Paths -> Seq(Nat)]
  /\ BlockPathLen \in Nat
  /\ Opened \subseteq Paths

Kinds == {"none", "dir", "empty", "full"}
Steps == {"idle", "set", "next", "dela", "spin", "scan", "done", "failed", "open"}

VARIABLES
  kind,     \* per locator: no entry, a directory, a file of size 0 or more
  blocks,   \* the blocks in the tree
  fsinfo,   \* whether the fsinfo record is in the tree
  pc,       \* per thread: the call it makes next
  loc,      \* per thread: dh->locator
  copy,     \* per thread: dh->attr_ddd of a stream or attribute handle
  buf,      \* per thread: the key that dh->attr_ddk names
  pos,      \* per thread: the key its cursor is on
  seen,     \* per thread: the entries given to the filler
  stable    \* history, per thread: the entries of loc present throughout the scan

vars == <<kind, blocks, fsinfo, pc, loc, copy, buf, pos, seen, stable>>
tree == <<kind, blocks, fsinfo>>

Blocks == {FirstBlock[p] : p \in Paths}

\* A key no record has: what memory that was freed and overwritten names.
NoKey == [dk_type |-> 3, at |-> <<>>]
Keys == {FsinfoKey, NoKey} \cup {DentryKey(p) : p \in Paths} \cup {BlockKey(b) : b \in Blocks}

TypeOK ==
  /\ kind \in [Paths -> Kinds] /\ blocks \subseteq Blocks /\ fsinfo \in BOOLEAN
  /\ pc \in [Threads -> Steps]
  /\ loc \in [Threads -> Paths]
  /\ copy \in [Threads -> Kinds]
  /\ buf \in [Threads -> Keys] /\ pos \in [Threads -> Keys]
  /\ seen \in [Threads -> SUBSET Paths] /\ stable \in [Threads -> SUBSET Paths]

Init ==
  /\ kind = [p \in Paths |-> IF p = Root THEN "dir" ELSE "none"]
  /\ blocks = {} /\ fsinfo = TRUE
  /\ pc = [t \in Threads |-> "idle"]
  /\ loc = [t \in Threads |-> Root]
  /\ copy = [t \in Threads |-> "none"]
  /\ buf = [t \in Threads |-> DentryKey(Root)]
  /\ pos = [t \in Threads |-> DentryKey(Root)]
  /\ seen = [t \in Threads |-> {}]
  /\ stable = [t \in Threads |-> {}]

\* The keys in the tree.
Present ==
  {DentryKey(p) : p \in {q \in Paths : kind[q] # "none"}}
    \cup {BlockKey(b) : b \in blocks}
    \cup (IF fsinfo THEN {FsinfoKey} ELSE {})

Goto(t, l) == pc' = [pc EXCEPT ![t] = l]

\* The call returns and its handle is out of use (closed, or leaked).
Release(t) ==
  /\ loc' = [loc EXCEPT ![t] = Root]
  /\ buf' = [buf EXCEPT ![t] = DentryKey(Root)]
  /\ pos' = [pos EXCEPT ![t] = DentryKey(Root)]
Return(t) == Goto(t, "idle") /\ Release(t)

-----------------------------------------------------------------------------
(* dbfs_create *)

\* A slip to catch: without DB_NOOVERWRITE.
CreateOver(t, p, k) ==
  /\ pc[t] = "idle"
  /\ kind' = [kind EXCEPT ![p] = k]
  /\ UNCHANGED <<blocks, fsinfo, pc, loc, copy, buf, pos, seen, stable>>

\* DB_NOOVERWRITE refuses a locator in use; nothing looks at the parent.
Create(t, p, k) ==
  /\ pc[t] = "idle" /\ kind[p] = "none"
  /\ kind' = [kind EXCEPT ![p] = k]
  /\ UNCHANGED <<blocks, fsinfo, pc, loc, copy, buf, pos, seen, stable>>

-----------------------------------------------------------------------------
(* Handles: dbfs_sopen and dbfs_aopen, writes and setters *)

HandleOpen(t, p) ==
  /\ pc[t] = "idle" /\ kind[p] # "none"
  /\ Goto(t, "open")
  /\ loc' = [loc EXCEPT ![t] = p]
  /\ copy' = [copy EXCEPT ![t] = kind[p]]
  /\ UNCHANGED <<tree, buf, pos, seen, stable>>

\* dbfs_readwrite of a write; one that fails later goes no further.
WriteBlock(t) ==
  /\ pc[t] = "open"
  /\ blocks' = blocks \cup {FirstBlock[loc[t]]}
  /\ UNCHANGED <<kind, fsinfo, pc, loc, copy, buf, pos, seen, stable>>

\* What a copy may be after a write, dbfs_setsize or another setter.
Resized(k) == IF k = "dir" THEN {"dir"} ELSE {"empty", "full"}

\* The end of a write or setter: dbfs_write_attr puts the copy without a look at
\* the tree.  The put may fail; the copy keeps its new size.
PutAttr(t) ==
  /\ pc[t] = "open"
  /\ copy' \in {[copy EXCEPT ![t] = k] : k \in Resized(copy[t])}
  /\ kind' \in {kind, [kind EXCEPT ![loc[t]] = copy'[t]]}
  /\ UNCHANGED <<blocks, fsinfo, pc, loc, buf, pos, seen, stable>>

HandleClose(t) ==
  /\ pc[t] = "open"
  /\ Return(t)
  /\ copy' = [copy EXCEPT ![t] = "none"]
  /\ UNCHANGED <<tree, seen, stable>>

-----------------------------------------------------------------------------
(* dbfs_delete *)

\* A slip to catch: "/" is not refused.
DeleteStartAny(t, p) ==
  /\ pc[t] = "idle" /\ kind[p] # "none"
  /\ Goto(t, IF kind[p] = "dir" THEN "set" ELSE IF kind[p] = "full" THEN "dela" ELSE "spin")
  /\ loc' = [loc EXCEPT ![t] = p]
  /\ buf' = [buf EXCEPT ![t] = DentryKey(p)]
  /\ UNCHANGED <<tree, copy, pos, seen, stable>>

\* "/" is refused; then dbfs_read_attr and the branch on the type found.  The
\* block loop of dbfs_dels never runs for a file with a size and never ends
\* for one without (see DbfsStream).
DeleteStart(t, p) ==
  /\ pc[t] = "idle" /\ p # Root /\ kind[p] # "none"
  /\ \/ kind[p] = "dir" /\ Goto(t, "set")
     \/ kind[p] = "full" /\ Goto(t, "dela")
     \/ kind[p] = "empty" /\ Goto(t, "spin")
  /\ loc' = [loc EXCEPT ![t] = p]
  /\ buf' = [buf EXCEPT ![t] = DentryKey(p)]
  /\ UNCHANGED <<tree, copy, pos, seen, stable>>

\* One turn of that loop: DB->del of the block at offset 0.
Spin(t) ==
  /\ pc[t] = "spin"
  /\ blocks' = blocks \ {FirstBlock[loc[t]]}
  /\ UNCHANGED <<kind, fsinfo, pc, loc, copy, buf, pos, seen, stable>>

\* dbfs_cursorset: DB_SET on the entry; gone meanwhile is ENOENT.
DeldSet(t) ==
  /\ pc[t] = "set"
  /\ IF kind[loc[t]] = "none"
     THEN Return(t)
     ELSE /\ Goto(t, "next")
          /\ pos' = [pos EXCEPT ![t] = DentryKey(loc[t])]
          /\ UNCHANGED <<loc, buf>>
  /\ UNCHANGED <<tree, copy, seen, stable>>

\* What attr_ddk names after the cursor returned k through it: k, when the
\* bytes fit; otherwise the memory may have grown in place, or have been
\* freed with its bytes kept, zeroed (type 0 is kt_fsinfo) or overwritten with
\* what is no key of a record.  That the allocator gives it to another handle,
\* for its own key, is left out.
KeyLen(k) == IF k.dk_type = 2 THEN BlockPathLen ELSE Len(k.at)
\* A slip to catch: the locator of the record instead of its key.
BufAfterPath(t, k) == {k.at}
BufAfter(t, k) ==
  IF KeyLen(k) <= Len(loc[t]) THEN {k}
  ELSE {k, DentryKey(loc[t]), FsinfoKey, NoKey}

\* A slip to catch: only what follows the locator directly counts as a name.
NotEmptyUnslashed(e, d) == StartsWith(e, d) /\ Len(e) > Len(d) + 1 /\ e[Len(d) + 1] # Slash

\* The test of dbfs_deld on the entry e that follows directory d.
NotEmpty(e, d) == StartsWith(e, d) /\ NameStart(e, d) <= Len(e)

\* A slip to catch: the verdict of the emptiness test is dropped.
DeldNextIgnored(t) ==
  /\ pc[t] = "next"
  /\ Goto(t, "dela")
  /\ \/ IsLast(Present, pos[t]) /\ UNCHANGED buf
     \/ \E k \in Present : IsNext(Present, pos[t], k) /\ \E r \in BufAfter(t, k) : buf' = [buf EXCEPT ![t] = r]
  /\ UNCHANGED <<tree, loc, copy, pos, seen, stable>>

\* DB_NEXT: nothing, a block, or an entry that does not start with the locator
\* lets the delete go on; an entry that does, with more behind, is ENOTEMPTY.
DeldNext(t) ==
  /\ pc[t] = "next"
  /\ \/ IsLast(Present, pos[t]) /\ Goto(t, "dela") /\ UNCHANGED <<loc, buf, pos>>
     \/ \E k \in Present :
          /\ IsNext(Present, pos[t], k)
          /\ IF k.dk_type = 1 /\ NotEmpty(k.at, loc[t])
             THEN Return(t)
             ELSE /\ Goto(t, "dela")
                  /\ \E r \in BufAfter(t, k) : buf' = [buf EXCEPT ![t] = r]
                  /\ UNCHANGED <<loc, pos>>
  /\ UNCHANGED <<tree, copy, seen, stable>>

\* dbfs_dela: DB->del of the key attr_ddk names; absent is ENOENT.
Dela(t) ==
  /\ pc[t] = "dela"
  /\ kind' = [p \in Paths |-> IF DentryKey(p) = buf[t] THEN "none" ELSE kind[p]]
  /\ blocks' = {b \in blocks : BlockKey(b) # buf[t]}
  /\ fsinfo' = (fsinfo /\ buf[t] # FsinfoKey)
  /\ stable' = [u \in Threads |-> {p \in stable[u] : DentryKey(p) # buf[t]}]
  /\ Return(t)
  /\ UNCHANGED <<copy, seen>>

-----------------------------------------------------------------------------
(* dbfs_dopen and dbfs_readdir *)

\* dbfs_cursorset finds the entry (its type is not looked at).
DirOpen(t, d) ==
  /\ pc[t] = "idle" /\ kind[d] # "none"
  /\ Goto(t, "scan")
  /\ loc' = [loc EXCEPT ![t] = d]
  /\ pos' = [pos EXCEPT ![t] = DentryKey(d)]
  /\ seen' = [seen EXCEPT ![t] = {}]
  /\ stable' = [stable EXCEPT ![t] = {e \in Paths : kind[e] # "none" /\ ChildOf(e, d)}]
  /\ UNCHANGED <<tree, copy, buf>>

\* A slip to catch: the cursor is read again without being moved.
AdvanceNot(k, l) == k
Advance(k, l) == l

\* One DB_NEXT of the loop of dbfs_readdir.
ScanNext(t) ==
  /\ pc[t] = "scan"
  /\ \/ /\ IsLast(Present, pos[t])
        /\ Goto(t, "done") /\ UNCHANGED <<pos, seen>>
     \/ \E k \in Present :
          /\ IsNext(Present, pos[t], k)
          /\ pos' = [pos EXCEPT ![t] = Advance(pos[t], k)]
          /\ IF k.dk_type # 1 \/ ScanStops(k.at, loc[t])
             THEN Goto(t, "done") /\ UNCHANGED seen
             ELSE /\ seen' = IF Reported(k.at, loc[t])
                             THEN [seen EXCEPT ![t] = @ \cup {k.at}] ELSE seen
                  /\ UNCHANGED pc
  /\ UNCHANGED <<tree, loc, copy, buf, stable>>

DirClose(t) ==
  /\ pc[t] = "done"
  /\ Return(t)
  /\ seen' = [seen EXCEPT ![t] = {}]
  /\ stable' = [stable EXCEPT ![t] = {}]
  /\ UNCHANGED <<tree, copy>>

-----------------------------------------------------------------------------
(* Errors *)

\* A call into Berkeley DB fails with an error of its own (EIO to the caller),
\* or the filler takes no more entries, which ends dbfs_readdir with its value.
Refused(t) ==
  /\ pc[t] \in {"set", "next", "dela", "spin", "scan"}
  /\ Goto(t, "failed") /\ Release(t)
  /\ seen' = [seen EXCEPT ![t] = {}]
  /\ stable' = [stable EXCEPT ![t] = {}]
  /\ UNCHANGED <<tree, copy>>

FailReturn(t) ==
  /\ pc[t] = "failed"
  /\ Goto(t, "idle")
  /\ UNCHANGED <<tree, loc, copy, buf, pos, seen, stable>>

Fail(t) == Refused(t) \/ FailReturn(t)
Delete(t) == (\E p \in Paths : DeleteStart(t, p)) \/ Spin(t) \/ DeldSet(t) \/ DeldNext(t) \/ Dela(t)
Scan(t) == (\E d \in Paths : DirOpen(t, d)) \/ ScanNext(t) \/ DirClose(t)
Fill(t) == \E p \in Paths, k \in {"dir", "empty"} : Create(t, p, k)
Use(t) == (\E p \in Opened : HandleOpen(t, p)) \/ WriteBlock(t) \/ PutAttr(t) \/ HandleClose(t)

Next == \E t \in Threads : Fill(t) \/ Use(t) \/ Delete(t) \/ Scan(t) \/ Fail(t)

Spec == Init /\ [][Next]_vars

-----------------------------------------------------------------------------
(* Properties *)

Exists(e) == kind[e] # "none"

\* The root directory is never removed: dbfs_delete refuses "/" and no cursor
\* can hand dbfs_dela the key of "/", with any of the values that BufAfter gives
\* attr_ddk; nor does an old copy of its record make it anything else.
RootStays == kind[Root] = "dir"

\* A listing loses nothing: an entry that is in the directory from dbfs_dopen
\* to the end of dbfs_readdir reaches the filler, whatever other threads
\* create and remove meanwhile.
ScanComplete == \A t \in Threads : pc[t] = "done" => stable[t] \subseteq seen[t]

\* The worst a listing of a directory reports besides its entries is a sibling
\* whose name begins with the directory's own ("/ab" in "/a").
ListingBounded ==
  \A t \in Threads : \A e \in seen[t] :
    \/ ChildOf(e, loc[t])
    \/ /\ StartsWith(e, loc[t])
       /\ ~HasSlash(SubSeq(e, Len(loc[t]) + 1, Len(e)))

\* The emptiness test of dbfs_deld, which reads one key only, never lets the
\* delete of a directory go on while there is an entry below it, at any depth.
EmptyTestSound ==
  [][\A t \in Threads : pc[t] = "next" /\ pc'[t] = "dela" =>
       \A e \in Paths : Exists(e) => ~Below(e, loc[t])]_vars

\* Whichever of the values of BufAfter attr_ddk has when dbfs_dela comes to it, a
\* delete never takes an entry from below the directory it was called for, races
\* included.
DeleteStaysOutside ==
  [][\A t \in Threads : pc[t] = "dela" /\ pc'[t] = "idle" =>
       \A e \in Paths : Exists(e) /\ ~Exists(e)' => ~Below(e, loc[t])]_vars

\* A dbfs_delete that finds a record to delete removes the entry it was called
\* for ("Added file and directory remove", ChangeLog:6).
DeleteRemovesEntry ==
  [][\A t \in Threads : pc[t] = "dela" /\ pc'[t] = "idle" /\ buf[t] \in Present =>
       kind'[loc[t]] = "none"]_vars

\* The listing of a directory ends at the "next directory" (dir.c:137): what
\* it reports are entries of the directory.
ListsOnlyEntries == \A t \in Threads : \A e \in seen[t] : ChildOf(e, loc[t])

\* What a caller sees of all this is what TreePromise says: whatever the calls of
\* other threads do between two steps of one, a file's removal takes that file,
\* a create takes no entry away, a handle puts the entry back that it was opened
\* on (stream.c:203, attr.c:52-76), a directory's removal found it empty once and
\* takes one entry that is not in it, and a listing gives what it finds.
Under == [d \in Paths |-> {e \in Paths : Below(e, d)}]
Children == [d \in Paths |-> {e \in Paths : ChildOf(e, d)}]
LikeNamed ==
  [d \in Paths |-> {e \in Paths : StartsWith(e, d) /\ ~HasSlash(SubSeq(e, Len(d) + 1, Len(e)))}]

NoPath == <<>>
TypeOf(k) == IF k \in {"none", "dir"} THEN k ELSE "file"
Typed == [p \in Paths |-> TypeOf(kind[p])]
TestOf(t) == IF pc[t] \in {"set", "next"} THEN loc[t] ELSE NoPath
AimOf(t) == IF pc[t] = "dela" /\ buf[t].dk_type = 1 THEN buf[t].at ELSE NoPath
ListingOf(t) ==
  [of |-> IF pc[t] \in {"scan", "done"} THEN loc[t] ELSE NoPath,
   must |-> stable[t], given |-> seen[t], over |-> pc[t] = "done"]
HandleOf(t) ==
  [of |-> IF pc[t] = "open" THEN loc[t] ELSE NoPath,
   as |-> IF pc[t] = "open" THEN TypeOf(copy[t]) ELSE "none"]
Testing == [t \in Threads |-> TestOf(t)]
Aims == [t \in Threads |-> AimOf(t)]
Listings == [t \in Threads |-> ListingOf(t)]
Handles == [t \in Threads |-> HandleOf(t)]

Promise == INSTANCE TreePromise WITH
  Locators <- Paths, Top <- Root, Inside <- Under, Within <- Children, Alike <- LikeNamed,
  Callers <- Threads, None <- NoPath,
  entry <- Typed, testing <- Testing, aim <- Aims, listing <- Listings, handle <- Handles
KeepsPromise == Promise!Spec

\* A scan that a thread keeps running ends: the cursor only moves forward and
\* the locators are finitely many.  Fairness: a thread in dbfs_readdir is
\* scheduled; the calls into Berkeley DB return.
FairSpec == Spec /\ \A t \in Threads : WF_vars(ScanNext(t))
ScanEnds == \A t \in Threads : pc[t] = "scan" ~> pc[t] # "scan"
=============================================================================
