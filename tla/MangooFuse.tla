----------------------------- MODULE MangooFuse -----------------------------
(***************************************************************************)
(* mangoofuse over one locator: what FUSE's threads do to the record of a  *)
(* file (or directory) through attribute handles, which live for a call,   *)
(* and stream handles, which live from open to release and are shared by   *)
(* the threads that use the open file.  Each action is one call into       *)
(* Berkeley DB with the code around it.                                    *)
(*                                                                         *)
(* rec carries a version, so that a history can tell a handle whose copy   *)
(* is the record from one that was overtaken; the code has no such thing   *)
(* and stores either.                                                      *)
(***************************************************************************)
EXTENDS MangooHandles, FiniteSets

CONSTANTS
  Threads,     \* FUSE's worker threads
  Opens,       \* open files: fi->fh of each
  Modes,       \* modes, owners and times that callers set
  MaxSize,     \* bound: sizes and ends of writes
  MaxHoles,    \* bound: holes that one write meets after its first block
  MaxCalls     \* bound: calls in a behaviour

Handle == [copy : Attrs, seen : Nat]

ASSUME HandleAssumption == None \notin Opens \cup Handle
ASSUME FiniteAssumption == IsFiniteSet(Threads) /\ IsFiniteSet(Opens)
ASSUME BoundAssumption ==
  Modes \subseteq Nat /\ MaxSize \in Nat /\ MaxHoles \in Nat /\ MaxCalls \in Nat

VARIABLES
  up,        \* main of mangoofuse: "start", "serving" or "ended"
  rec,       \* the record of the locator
  ver,       \* history: the version of the record
  want,      \* history: the record as the calls that were not overtaken left it
  raced,     \* history: two writes of one open file were about to set its size
  fh,        \* per open file: its handle's copy, and the version it has seen
  call,      \* per thread: the call it is in
  mem,       \* what has been allocated and not freed
  ends,      \* history: what calls have left behind when they ended
  calls      \* history: calls so far

vars == <<up, rec, ver, want, raced, fh, call, mem, ends, calls>>
record == <<rec, ver, want>>

AttrOps == {"getattr", "chmod", "chown", "utime", "truncate"}
Ops == AttrOps \cup {"none", "create", "open", "release", "read", "write", "mkdir", "remove", "rmdir"}
\* Where a call is: with a handle of its own, with an open file, or neither.
OwnHandle == {"get", "set", "set2", "spin", "dela", "deld", "empty"}
InWrite == {"wset", "wattr"}
Fields == {"mode", "owner", "mtime", "atime", "size", "entry", "gone"}

\* o, v and h: the open file, the argument and the handle; did: what the call
\* has stored (history).
Calls == [op : Ops, pc : OwnHandle \cup InWrite \cup {"idle", "open", "return"},
          o : Opens \cup {None}, v : Nat, h : Handle \cup {None},
          did : SUBSET Fields, res : {"none", "ok", "error", "positive"}]
Idle == [op |-> "none", pc |-> "idle", o |-> None, v |-> 0, h |-> None, did |-> {}, res |-> "none"]

CallShape(c) ==
  /\ c.pc \in OwnHandle <=> c.h # None
  /\ c.pc \in InWrite => c.o \in Opens /\ fh[c.o] # None
  /\ c.pc = "open" => c.o \in Opens

\* Handles nobody points to, released open files, reads and writes, cursors of
\* such handles, holes that a write met after its first block.
Ends == [lost : Nat, released : Nat, transfers : Nat, cursors : Nat, holes : Nat]
NoEnds == [lost |-> 0, released |-> 0, transfers |-> 0, cursors |-> 0, holes |-> 0]

TypeOK ==
  /\ up \in {"start", "serving", "ended"}
  /\ rec \in Attrs \cup {None} /\ want \in Attrs \cup {None} /\ ver \in Nat /\ raced \in BOOLEAN
  /\ fh \in [Opens -> Handle \cup {None}]
  /\ call \in [Threads -> Calls] /\ \A t \in Threads : CallShape(call[t])
  /\ mem \in Memory /\ calls \in Nat
  /\ ends \in Ends

Init ==
  /\ up = "start"
  /\ rec = None /\ want = None /\ ver = 1 /\ raced = FALSE
  /\ fh = [o \in Opens |-> None]
  /\ call = [t \in Threads |-> Idle]
  /\ mem = NoMemory
  /\ ends = NoEnds
  /\ calls = 0

-----------------------------------------------------------------------------
(* main *)

\* mangoo_initstore may fail: another scheme, or a store that does not open.
Mount ==
  /\ up = "start"
  /\ \/ StoreCall("initstore") /\ up' = "serving"
     \/ up' = "ended"
  /\ UNCHANGED <<record, raced, fh, call, mem, ends, calls>>

\* fuse_main returns when every file is released and its threads are done;
\* the store is closed.
Unmount ==
  /\ up = "serving" /\ StoreCall("closestore")
  /\ \A t \in Threads : call[t].pc = "idle"
  /\ \A o \in Opens : fh[o] = None
  /\ up' = "ended"
  /\ UNCHANGED <<record, raced, fh, call, mem, ends, calls>>

-----------------------------------------------------------------------------
(* What handlers have in common *)

At(t, pc) == up = "serving" /\ call[t].pc = pc
Begins(t) ==
  /\ At(t, "idle") /\ calls < MaxCalls
  /\ calls' = calls + 1
Goes(t, c) == call' = [call EXCEPT ![t] = c]

\* The call is over with this result, and its pointer to a handle is gone.
Returns(t, c, res) == Goes(t, [c EXCEPT !.pc = "return", !.res = res, !.h = None])

\* A handle nobody points to any more is still allocated.
Loses == ends' = [ends EXCEPT !.lost = @ + 1]

Return(t) ==
  /\ At(t, "return")
  /\ Goes(t, Idle)
  /\ UNCHANGED <<up, record, raced, fh, mem, ends, calls>>

\* DB->put of the copy of a handle that has seen version seen.  If that is the
\* record's version, the caller means the record to become new; otherwise the
\* put takes back what was stored in between.
Put(copy, seen, new) ==
  /\ rec' = copy
  /\ ver' = ver + 1
  /\ want' = IF seen = ver THEN new ELSE copy
NoPut == UNCHANGED record

Current == [copy |-> rec, seen |-> ver]

\* DB->put with DB_NOOVERWRITE of a new record.
PutNew(type, mode) ==
  /\ rec = None
  /\ rec' = NewAttrs(type, mode) /\ want' = NewAttrs(type, mode)
  /\ ver' = ver + 1

\* DB->del of the record; not there is ENOENT.
Del == rec # None /\ rec' = None /\ want' = None /\ ver' = ver + 1

-----------------------------------------------------------------------------
(* mf_getattr, mf_chmod, mf_chown, mf_utime, mf_truncate *)

\* mangoo_open for the attributes: dbfs_aopen makes a handle and gets the
\* record.  An error, or no record, leaves the handle behind.
AttrOpen(t, op, v) ==
  LET c == [Idle EXCEPT !.op = op, !.v = v]
  IN  /\ Begins(t) /\ StoreCall("open")
      /\ mem' = Allocate(mem)
      /\ \/ /\ rec # None
            /\ Goes(t, [c EXCEPT !.h = Current, !.pc = IF op = "getattr" THEN "get" ELSE "set"])
            /\ UNCHANGED ends
         \/ Returns(t, c, "error") /\ Loses
      /\ UNCHANGED <<up, record, raced, fh>>

\* The getters read the copy and mangoo_close frees it.
GetAttr(t) ==
  /\ At(t, "get")
  /\ \A op \in Getters : AttrCall(op)
  /\ mem' = Close(mem, "attr")
  /\ Returns(t, call[t], "ok")
  /\ UNCHANGED <<up, record, raced, fh, ends, calls>>

\* chmod and chown: success is returned whatever happened, and the handle is
\* closed only when the put failed.
SetOwnership(t, op, field, copy, new) ==
  LET c == call[t]
  IN  /\ At(t, "set") /\ c.op = op /\ AttrCall(op)
      /\ \/ /\ Put(copy, c.h.seen, new)
            /\ Returns(t, [c EXCEPT !.did = {field}], "ok")
            /\ Loses /\ UNCHANGED mem
         \/ /\ NoPut
            /\ Returns(t, c, "ok")
            /\ mem' = Close(mem, "attr") /\ UNCHANGED ends
      /\ UNCHANGED <<up, raced, fh, calls>>

ChmodPut(t) ==
  LET c == call[t] IN SetOwnership(t, "chmod", "mode", Chmod(c.h.copy, c.v), Chmod(want, c.v))
ChownPut(t) ==
  LET c == call[t] IN SetOwnership(t, "chown", "owner", Chown(c.h.copy, c.v), Chown(want, c.v))

\* mattr_setmtime of utime: an error closes the handle.
UtimeFirst(t) ==
  LET c == call[t]
      changed == SetMtime(c.h.copy, c.v)
  IN  /\ At(t, "set") /\ c.op = "utime" /\ AttrCall("setmtime")
      /\ \/ /\ Put(changed, c.h.seen, SetMtime(want, c.v))
            /\ Goes(t, [c EXCEPT !.pc = "set2", !.did = {"mtime"},
                                 !.h = [copy |-> changed, seen |-> ver + 1]])
            /\ UNCHANGED mem
         \/ NoPut /\ Returns(t, c, "error") /\ mem' = Close(mem, "attr")
      /\ UNCHANGED <<up, raced, fh, ends, calls>>

\* The last put of a call: the handle is closed whatever it returns.  A slip to
\* catch beside it: its error is dropped.
LastPutUnchecked(t, field, copy, new) ==
  LET c == call[t]
  IN  /\ \/ /\ Put(copy, c.h.seen, new)
            /\ Returns(t, [c EXCEPT !.did = @ \cup {field}], "ok")
         \/ NoPut /\ Returns(t, c, "ok")
      /\ mem' = Close(mem, "attr")
      /\ UNCHANGED <<up, raced, fh, ends, calls>>
LastPut(t, field, copy, new) ==
  LET c == call[t]
  IN  /\ \/ /\ Put(copy, c.h.seen, new)
            /\ Returns(t, [c EXCEPT !.did = @ \cup {field}], "ok")
         \/ NoPut /\ Returns(t, c, "error")
      /\ mem' = Close(mem, "attr")
      /\ UNCHANGED <<up, raced, fh, ends, calls>>

UtimeSecond(t) ==
  /\ At(t, "set2") /\ AttrCall("setatime")
  /\ LET c == call[t] IN LastPut(t, "atime", SetAtime(c.h.copy, c.v), SetAtime(want, c.v))
Truncate(t) ==
  /\ At(t, "set") /\ call[t].op = "truncate" /\ AttrCall("setsize")
  /\ LET c == call[t] IN LastPut(t, "size", SetSize(c.h.copy, c.v), SetSize(want, c.v))

-----------------------------------------------------------------------------
(* mf_create, mf_open, mf_release, mf_mkdir *)

\* The kernel gives a new fi to each open.
Unused(o) == fh[o] = None /\ \A u \in Threads : call[u].o # o

\* dbfs_sopen: on error its handle is left behind.
StreamOpen(t, c) ==
  /\ mem' = Allocate(mem)
  /\ \/ /\ rec # None
        /\ fh' = [fh EXCEPT ![c.o] = Current]
        /\ Returns(t, c, "ok") /\ UNCHANGED ends
     \/ Returns(t, c, "error") /\ Loses /\ UNCHANGED fh
  /\ UNCHANGED <<up, record, raced>>

Open(t, o) ==
  /\ Begins(t) /\ Unused(o) /\ StoreCall("open")
  /\ StreamOpen(t, [Idle EXCEPT !.op = "open", !.o = o])

\* mangoo_create: the put is refused when there is a record, and may fail.
Create(t, op, type, mode, c) ==
  /\ Begins(t) /\ StoreCall("create")
  /\ \/ /\ PutNew(type, mode)
        /\ LET d == [c EXCEPT !.op = op, !.did = {"entry"}]
           IN  IF op = "create" THEN Goes(t, [d EXCEPT !.pc = "open"]) ELSE Returns(t, d, "ok")
     \/ NoPut /\ Returns(t, [c EXCEPT !.op = op], "error")
  /\ UNCHANGED <<up, raced, fh, mem, ends>>

CreateFile(t, o, mode) ==
  Unused(o) /\ Create(t, "create", "data", mode, [Idle EXCEPT !.o = o])
MakeDir(t, mode) == Create(t, "mkdir", "container", mode, Idle)

\* mf_create's second half: the new record is opened, if it is still there.
CreateOpen(t) ==
  /\ At(t, "open")
  /\ StreamOpen(t, call[t])
  /\ UNCHANGED calls

\* The kernel releases an open file once, when no call uses it.
Release(t, o) ==
  /\ Begins(t) /\ fh[o] # None /\ \A u \in Threads : call[u].o # o
  /\ mem' = Close(mem, "stream")
  /\ fh' = [fh EXCEPT ![o] = None]
  /\ ends' = [ends EXCEPT !.released = @ + 1]
  /\ Returns(t, [Idle EXCEPT !.op = "release"], "ok")
  /\ UNCHANGED <<up, record, raced>>

-----------------------------------------------------------------------------
(* mf_read, mf_write.  The kernel only sends them for open files, and may send *)
(* two of one file at a time (page write-back does not take the inode's lock). *)

\* env_open comes back with an environment nobody closes, and dbfs_readwrite
\* takes and frees buffers for blocks.
Transfers(holes) ==
  /\ mem' = ReadWriteBlocks(OpenEnv(mem), holes)
  /\ ends' = [ends EXCEPT !.transfers = @ + 1, !.holes = @ + holes]

\* or ends the process.
EnvExit(t, o) ==
  /\ Begins(t) /\ fh[o] # None
  /\ up' = "ended"
  /\ UNCHANGED <<record, raced, fh, call, mem, ends>>

\* dbfs_read uses the size in the handle.  A hole at the end makes DB_NOTFOUND,
\* a negative number, the error, and its negation the answer (DbfsStream).
Read(t, o) ==
  LET c == [Idle EXCEPT !.op = "read", !.o = o]
  IN  /\ Begins(t) /\ fh[o] # None /\ StreamCall("read")
      /\ Transfers(0)
      /\ \/ \E res \in {"ok", "error"} : Returns(t, c, res)
         \/ fh[o].copy.size > 0 /\ Returns(t, c, "positive")
      /\ UNCHANGED <<up, record, raced, fh>>

\* The blocks are written up to end (DbfsStream) or EIO, some of them holes (a
\* write that ends with the first unit of a size has no block but its first);
\* then the size of the handle, which other threads may be using, is looked at.
WriteBegin(t, o, end) ==
  LET c == [Idle EXCEPT !.op = "write", !.o = o, !.v = end]
      longer == Extends(fh[o].copy, end)
  IN  /\ Begins(t) /\ fh[o] # None /\ StreamCall("write")
      /\ \E holes \in 0 .. MaxHoles : (holes > 0 => end > 1) /\ Transfers(holes)
      /\ \/ /\ Goes(t, [c EXCEPT !.pc = IF longer THEN "wset" ELSE "wattr"])
            /\ raced' = (raced \/ (longer /\ \E u \in Threads : call[u].pc = "wset" /\ call[u].o = o))
         \/ Returns(t, c, "error") /\ UNCHANGED raced
      /\ UNCHANGED <<up, record, fh>>

\* It is set without looking again.
WriteSet(t) ==
  LET c == call[t]
  IN  /\ At(t, "wset")
      /\ fh' = [fh EXCEPT ![c.o].copy = SetSize(@, c.v)]
      /\ Goes(t, [c EXCEPT !.pc = "wattr"])
      /\ UNCHANGED <<up, record, raced, mem, ends, calls>>

Larger(a, n) == SetSize(a, IF Extends(a, n) THEN n ELSE a.size)

\* dbfs_write_attr puts the whole copy.
WriteAttr(t) ==
  LET c == call[t]
      h == fh[c.o]
  IN  /\ At(t, "wattr")
      /\ \/ /\ Put(h.copy, h.seen, Larger(want, c.v))
            /\ fh' = [fh EXCEPT ![c.o].seen = ver + 1]
            /\ Returns(t, [c EXCEPT !.did = {"size"}], "ok")
         \/ NoPut /\ Returns(t, c, "error") /\ UNCHANGED fh
      /\ UNCHANGED <<up, raced, mem, ends, calls>>

-----------------------------------------------------------------------------
(* mf_remove, for unlink and rmdir of a locator other than "/" *)

\* dbfs_delete makes a handle, which it never frees, and gets the record: the
\* blocks of an empty file are deleted for ever (DbfsStream).
Remove(t) ==
  LET c == [Idle EXCEPT !.op = "remove"]
  IN  /\ Begins(t) /\ StoreCall("delete")
      /\ mem' = Allocate(mem)
      /\ \/ /\ rec # None
            /\ Goes(t, [c EXCEPT !.h = Current,
                                 !.pc = IF rec.type = "container" THEN "deld"
                                        ELSE IF rec.size = 0 THEN "spin" ELSE "dela"])
            /\ UNCHANGED ends
         \/ Returns(t, c, "error") /\ Loses
      /\ UNCHANGED <<up, record, raced, fh>>

\* dbfs_dela of a file.
RemoveFile(t) ==
  LET c == call[t]
  IN  /\ At(t, "dela")
      /\ \/ Del /\ Returns(t, [c EXCEPT !.did = {"gone"}], "ok")
         \/ NoPut /\ Returns(t, c, "error")
      /\ Loses
      /\ UNCHANGED <<up, raced, fh, mem, calls>>

\* dbfs_deld of a directory opens a cursor in the handle, or fails.
DeldCursor(t) ==
  /\ At(t, "deld")
  /\ \/ /\ mem' = OpenCursor(mem)
        /\ Goes(t, [call[t] EXCEPT !.pc = "empty"]) /\ UNCHANGED ends
     \/ Returns(t, call[t], "error") /\ Loses /\ UNCHANGED mem
  /\ UNCHANGED <<up, record, raced, fh, calls>>

\* The rest of dbfs_deld, and dbfs_dela: another record may be the one that goes
\* (DbfsDir), and the cursor is left behind with the handle.
RemoveDir(t) ==
  LET c == [call[t] EXCEPT !.op = "rmdir"]
  IN  /\ At(t, "empty")
      /\ \/ Del /\ Returns(t, [c EXCEPT !.did = {"gone"}], "ok")
         \/ NoPut /\ \E res \in {"ok", "error"} : Returns(t, c, res)
      /\ ends' = [ends EXCEPT !.lost = @ + 1, !.cursors = @ + 1]
      /\ UNCHANGED <<up, raced, fh, mem, calls>>

\* Only a DB->del that fails gets dbfs_dels out of its loop.
RemoveFail(t) ==
  /\ At(t, "spin")
  /\ Returns(t, call[t], "error") /\ Loses
  /\ UNCHANGED <<up, record, raced, fh, mem, calls>>

-----------------------------------------------------------------------------
Begin(t) ==
  \/ \E op \in AttrOps \ {"truncate"}, v \in Modes : AttrOpen(t, op, v)
  \/ \E v \in 0 .. MaxSize : AttrOpen(t, "truncate", v)
  \/ \E mode \in Modes : MakeDir(t, mode)
  \/ \E o \in Opens :
       \/ Open(t, o) \/ Release(t, o) \/ Read(t, o) \/ EnvExit(t, o)
       \/ \E mode \in Modes : CreateFile(t, o, mode)
       \/ \E end \in 0 .. MaxSize : WriteBegin(t, o, end)
  \/ Remove(t)

Continue(t) ==
  \/ GetAttr(t) \/ ChmodPut(t) \/ ChownPut(t) \/ UtimeFirst(t) \/ UtimeSecond(t) \/ Truncate(t)
  \/ CreateOpen(t) \/ WriteSet(t) \/ WriteAttr(t)
  \/ RemoveFile(t) \/ DeldCursor(t) \/ RemoveDir(t) \/ RemoveFail(t) \/ Return(t)

Next == Mount \/ Unmount \/ \E t \in Threads : Begin(t) \/ Continue(t)

Spec == Init /\ [][Next]_vars

-----------------------------------------------------------------------------
(* Properties *)

SameButSize(a, b) == [a EXCEPT !.size = 0] = [b EXCEPT !.size = 0]

\* A call that saw the last put changes what it was asked to change and nothing
\* else: attributes are only ever taken back by a call whose handle was filled
\* before another put (attr.c:203 and its like store the whole copy).  The size
\* never falls below the end of a write that was answered, except after such a
\* put, a truncate, or two writes of one open file that both found it too
\* short (stream.c:200 looks, stream.c:201 sets).  A write that failed may
\* leave the size in the handle larger than what was written.
AttrsKept ==
  /\ rec = None <=> want = None
  /\ rec # None =>
       /\ SameButSize(rec, want)
       /\ ~raced => rec.size >= want.size

\* What a call must have done to the record when it answers 0, and what it may
\* have done when it answers an error.
Asked(op) ==
  CASE op \in {"create", "mkdir"} -> {"entry"}
    [] op = "utime" -> {"mtime", "atime"}
    [] op \in {"truncate", "write"} -> {"size"}
    [] op = "remove" -> {"gone"}
    [] OTHER -> {}
Undone(op) ==
  CASE op = "create" -> {"entry"}
    [] op = "utime" -> {"mtime"}
    [] OTHER -> {}

\* An answer of 0 says that everything asked for is stored, an error that
\* nothing is, except: chmod and chown answer 0 whatever happened
\* (mangoofuse.c:122, :136), a utime that fails may have set one of its times
\* (:154), and a create that fails may have made the file (:201).  A positive
\* answer that is not a count is only ever given to a read (:226).  This is
\* about the record: a write that fails may have put some of its blocks
\* (stream.c:84; DbfsStream), and rmdir, which may have removed another record
\* (DbfsDir), is left out.
AnswersHonest ==
  \A t \in Threads :
    LET c == call[t]
    IN  c.pc = "return" /\ c.op \notin {"chmod", "chown", "rmdir"} =>
          /\ c.res = "ok" => c.did = Asked(c.op)
          /\ c.res = "error" => c.did \subseteq Undone(c.op)
          /\ c.res = "positive" => c.op = "read"

\* Every handle that is allocated belongs to a call in progress or to an open
\* file, or was lost by a failed open, a chmod or chown that succeeded, or a
\* remove; a release leaves the two buffers of the handle (stream.c:208-214),
\* a read or write its environment (mangoofuse.c:219, :236).
HandlesAccounted ==
  LET inCalls == {t \in Threads : call[t].h # None}
      open == {o \in Opens : fh[o] # None}
  IN  /\ mem.handle = Cardinality(inCalls) + Cardinality(open) + ends.lost
      /\ mem.buffers = mem.handle + ends.released
      /\ mem.env = ends.transfers

\* Every open cursor is that of an rmdir in progress, or was left in the handle
\* that an rmdir lost (dir.c:183, dbfs.c:62-95).
CursorsAccounted ==
  mem.cursor = Cardinality({t \in Threads : call[t].pc = "empty"}) + ends.cursors

\* A write loses the buffer it had at each hole after its first block
\* (stream.c:68), and otherwise frees its buffers.
BlocksAccounted == mem.block = ends.holes

\* Of the handles, their buffers and cursors, the environments and the buffers
\* of blocks that the calls of this module take, none is freed twice and none
\* is lost but by the leaks named above.  What initstore and readdir allocate
\* is not counted here.
MemoryAccounted == HandlesAccounted /\ CursorsAccounted /\ BlocksAccounted
=============================================================================
