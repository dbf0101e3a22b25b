-------------------------- MODULE MangooFuseProofs --------------------------
(***************************************************************************)
(* What holds of mangoofuse's calls for any number of threads, open files, *)
(* modes, sizes and calls.                                                 *)
(***************************************************************************)
EXTENDS MangooFuse, Integers, FiniteSetTheorems, TLAPS

-----------------------------------------------------------------------------
(* Types.  That mem stays in Nat follows from the accounting further down. *)

WeakMemory == [handle : Int, buffers : Int, env : Int, cursor : Int, block : Int]

WeakTypeOK ==
  /\ up \in {"start", "serving", "ended"}
  /\ rec \in Attrs \cup {None} /\ want \in Attrs \cup {None} /\ ver \in Nat /\ raced \in BOOLEAN
  /\ fh \in [Opens -> Handle \cup {None}]
  /\ call \in [Threads -> Calls] /\ \A t \in Threads : CallShape(call[t])
  /\ mem \in WeakMemory /\ calls \in Nat
  /\ ends \in Ends

\* The setters change attributes into attributes.
LEMMA Setters ==
  ASSUME NEW a \in Attrs, NEW v \in Nat
  PROVE  /\ Chmod(a, v) \in Attrs /\ Chown(a, v) \in Attrs /\ SetSize(a, v) \in Attrs
         /\ SetMtime(a, v) \in Attrs /\ SetAtime(a, v) \in Attrs
         /\ Larger(a, v) \in Attrs
BY DEF Attrs, Chmod, Chown, SetSize, SetMtime, SetAtime, Larger, Extends

\* The attributes of a new record are attributes.
LEMMA NewType ==
  ASSUME NEW type \in Types, NEW mode \in Nat
  PROVE  NewAttrs(type, mode) \in Attrs
BY DEF NewAttrs, Attrs

\* Two counts changed at a time.
LEMMA TwoCounts ==
  ASSUME NEW m \in WeakMemory, NEW x \in Int, NEW y \in Int
  PROVE  /\ [m EXCEPT !.handle = x, !.buffers = y] \in WeakMemory
         /\ [m EXCEPT !.handle = x, !.buffers = y]
              = [handle |-> x, buffers |-> y, env |-> m.env, cursor |-> m.cursor, block |-> m.block]
<1> DEFINE n == [m EXCEPT !.handle = x]
<1>1. n = [handle |-> x, buffers |-> m.buffers, env |-> m.env, cursor |-> m.cursor, block |-> m.block]
  BY DEF WeakMemory
<1>2. n \in WeakMemory  BY <1>1 DEF WeakMemory
<1>3. [n EXCEPT !.buffers = y]
        = [handle |-> x, buffers |-> y, env |-> m.env, cursor |-> m.cursor, block |-> m.block]
  <2> HIDE DEF n
  <2> QED  BY <1>1, <1>2 DEF WeakMemory
<1>4. [m EXCEPT !.handle = x, !.buffers = y] = [n EXCEPT !.buffers = y]  BY DEF WeakMemory
<1>5. [m EXCEPT !.handle = x, !.buffers = y] \in WeakMemory  BY DEF WeakMemory
<1> QED  BY <1>3, <1>4, <1>5

\* So in what calls have left behind.
LEMMA TwoEnds ==
  ASSUME NEW e \in Ends, NEW x \in Nat, NEW y \in Nat
  PROVE  /\ [e EXCEPT !.lost = x, !.cursors = y] \in Ends
         /\ [e EXCEPT !.transfers = x, !.holes = y] \in Ends
<1>1. [e EXCEPT !.lost = x, !.cursors = y] \in Ends  BY DEF Ends
<1>2. [e EXCEPT !.transfers = x, !.holes = y] \in Ends  BY DEF Ends
<1> QED  BY <1>1, <1>2

\* Allocating and freeing changes the counts of memory.
LEMMA MemType ==
  ASSUME NEW m \in WeakMemory
  PROVE  /\ Allocate(m) \in WeakMemory /\ Close(m, "attr") \in WeakMemory
         /\ Close(m, "stream") \in WeakMemory /\ OpenEnv(m) \in WeakMemory
         /\ OpenCursor(m) \in WeakMemory
         /\ \A holes \in Nat : ReadWriteBlocks(m, holes) \in WeakMemory
<1>0. /\ m.handle + 1 \in Int /\ m.buffers + 1 \in Int
      /\ m.handle - 1 \in Int /\ m.buffers - 1 \in Int
  BY DEF WeakMemory
<1>1. Allocate(m) \in WeakMemory  BY <1>0, TwoCounts DEF Allocate
<1>2. Free(m) \in WeakMemory  BY <1>0, TwoCounts DEF Free
<1>3. FreeStream(m) \in WeakMemory  BY DEF WeakMemory, FreeStream
<1>4. OpenEnv(m) \in WeakMemory  BY DEF WeakMemory, OpenEnv
<1>5. OpenCursor(m) \in WeakMemory  BY DEF WeakMemory, OpenCursor
<1>6. ASSUME NEW holes \in Nat  PROVE ReadWriteBlocks(m, holes) \in WeakMemory
  BY DEF WeakMemory, ReadWriteBlocks
<1> QED  BY <1>1, <1>2, <1>3, <1>4, <1>5, <1>6 DEF Close

\* So do reads and writes.
LEMMA TransfersType ==
  ASSUME WeakTypeOK, NEW holes \in Nat, Transfers(holes)
  PROVE  mem' \in WeakMemory /\ ends' \in Ends
<1>1. mem' \in WeakMemory
  <2>1. OpenEnv(mem) \in WeakMemory  BY MemType DEF WeakTypeOK
  <2> QED  BY <2>1, MemType DEF Transfers
<1>2. ends' \in Ends
  <2>1. /\ ends \in Ends /\ ends.transfers + 1 \in Nat /\ ends.holes + holes \in Nat
        /\ ends' = [ends EXCEPT !.transfers = ends.transfers + 1, !.holes = ends.holes + holes]
    BY DEF Transfers, WeakTypeOK, Ends
  <2> QED  BY <2>1, TwoEnds
<1> QED  BY <1>1, <1>2

\* The history of the record has its type after a put.
LEMMA PutType ==
  ASSUME WeakTypeOK, NEW copy \in Attrs, NEW seen \in Nat, NEW new,
         seen = ver => new \in Attrs,
         Put(copy, seen, new)
  PROVE  rec' \in Attrs \cup {None} /\ want' \in Attrs \cup {None} /\ ver' \in Nat
BY DEF WeakTypeOK, Put

\* A call that another thread makes leaves the shape of this one alone, as long
\* as the open files in use stay open.
LEMMA ShapeKept ==
  ASSUME WeakTypeOK, NEW t \in Threads, NEW c \in Calls, Goes(t, c),
         \A o \in Opens : fh[o] # None => fh'[o] # None \/ \A u \in Threads : call[u].o # o,
         CallShape(c)'
  PROVE  /\ call' \in [Threads -> Calls]
         /\ \A u \in Threads : CallShape(call[u])'
<1>1. call' \in [Threads -> Calls]  BY DEF WeakTypeOK, Goes
<1>2. ASSUME NEW u \in Threads, u # t  PROVE CallShape(call[u])'
  <2>1. call'[u] = call[u] /\ CallShape(call[u])  BY <1>2 DEF Goes, WeakTypeOK
  <2> QED  BY <2>1 DEF CallShape, InWrite
<1>3. CallShape(call[t])'  BY DEF WeakTypeOK, Goes, CallShape
<1> QED  BY <1>1, <1>2, <1>3

\* Calls that have returned, or are where they need no handle, have their types.
LEMMA CallTypes ==
  ASSUME NEW c \in Calls, NEW op \in Ops, NEW v \in Nat, NEW h \in Handle, NEW o \in Opens,
         NEW res \in {"ok", "error", "positive"}, NEW did \in SUBSET Fields
  PROVE  /\ Idle \in Calls
         /\ [Idle EXCEPT !.op = op, !.v = v] \in Calls
         /\ [Idle EXCEPT !.op = op, !.o = o] \in Calls
         /\ [Idle EXCEPT !.op = op, !.o = o, !.v = v] \in Calls
         /\ [c EXCEPT !.pc = "return", !.res = res, !.h = None] \in Calls
         /\ [c EXCEPT !.did = did] \in Calls
         /\ [c EXCEPT !.op = op] \in Calls
         /\ \A pc \in InWrite : [c EXCEPT !.pc = pc] \in Calls
         /\ \A pc \in OwnHandle : [c EXCEPT !.h = h, !.pc = pc] \in Calls
<1>1. Idle \in Calls  BY DEF Calls, Idle, Ops
<1>2. [Idle EXCEPT !.op = op, !.v = v] \in Calls  BY <1>1 DEF Calls
<1>3. [Idle EXCEPT !.op = op, !.o = o] \in Calls  BY <1>1 DEF Calls
<1>4. [Idle EXCEPT !.op = op, !.o = o, !.v = v] \in Calls  BY <1>1 DEF Calls
<1>5. [c EXCEPT !.pc = "return", !.res = res, !.h = None] \in Calls  BY DEF Calls
<1>6. [c EXCEPT !.did = did] \in Calls  BY DEF Calls
<1>7. [c EXCEPT !.op = op] \in Calls  BY DEF Calls
<1>8. ASSUME NEW pc \in InWrite  PROVE [c EXCEPT !.pc = pc] \in Calls  BY DEF Calls
<1>9. ASSUME NEW pc \in OwnHandle  PROVE [c EXCEPT !.h = h, !.pc = pc] \in Calls  BY DEF Calls
<1> QED  BY <1>1, <1>2, <1>3, <1>4, <1>5, <1>6, <1>7, <1>8, <1>9

\* What must be shown of a step: the record, the open files and the calls.
CallsOK ==
  call \in [Threads -> Calls] /\ \A t \in Threads : CallShape(call[t])
RecordType ==
  rec \in Attrs \cup {None} /\ want \in Attrs \cup {None} /\ ver \in Nat

\* No file in use is closed.
FilesKept == \A o \in Opens : fh[o] # None => fh'[o] # None \/ \A u \in Threads : call[u].o # o

\* A call that returns is well formed.
LEMMA ReturnsType ==
  ASSUME WeakTypeOK, NEW t \in Threads, NEW c \in Calls, NEW res \in {"ok", "error", "positive"},
         Returns(t, c, res), FilesKept
  PROVE  CallsOK'
<1> DEFINE d == [c EXCEPT !.pc = "return", !.res = res, !.h = None]
<1>1. d \in Calls  BY DEF Calls
<1>2. d.pc = "return" /\ d.h = None  BY DEF Calls
<1>3. CallShape(d)'  BY <1>2 DEF CallShape, OwnHandle, InWrite
<1>4. Goes(t, d)  BY DEF Returns
<1> HIDE DEF d
<1> QED  BY <1>1, <1>3, <1>4, ShapeKept DEF FilesKept, CallsOK

\* So is one that goes on with a handle of its own,
LEMMA OwnType ==
  ASSUME WeakTypeOK, NEW t \in Threads, NEW c \in Calls, NEW h \in Handle, NEW pc \in OwnHandle,
         Goes(t, [c EXCEPT !.h = h, !.pc = pc]), FilesKept
  PROVE  CallsOK'
<1> DEFINE d == [c EXCEPT !.h = h, !.pc = pc]
<1>1. d \in Calls /\ d.pc = pc /\ d.h = h  BY DEF Calls
<1>2. CallShape(d)'  BY <1>1, HandleAssumption DEF CallShape, OwnHandle, InWrite
<1> HIDE DEF d
<1> QED  BY <1>1, <1>2, ShapeKept DEF d, FilesKept, CallsOK

\* and one that goes on with an open file.
LEMMA FileType ==
  ASSUME WeakTypeOK, NEW t \in Threads, NEW c \in Calls, NEW pc \in InWrite \cup {"open"},
         c.h = None, c.o \in Opens, pc \in InWrite => fh'[c.o] # None,
         Goes(t, [c EXCEPT !.pc = pc]), FilesKept
  PROVE  CallsOK'
<1> DEFINE d == [c EXCEPT !.pc = pc]
<1>1. d \in Calls /\ d.pc = pc /\ d.h = None /\ d.o = c.o  BY DEF Calls
<1>2. CallShape(d)'  BY <1>1 DEF CallShape, OwnHandle, InWrite
<1> HIDE DEF d
<1> QED  BY <1>1, <1>2, ShapeKept DEF d, FilesKept, CallsOK

\* What the record was read as is a handle's.
LEMMA CurrentType ==
  ASSUME WeakTypeOK, rec # None
  PROVE  Current \in Handle
BY DEF Current, Handle, WeakTypeOK

\* A thread with nothing to do.
LEMMA IdleType == Idle \in Calls
BY DEF Calls, Idle, Ops

\* mf_getattr, mf_chmod, mf_chown, mf_utime and mf_truncate begin.
LEMMA AttrOpenType ==
  ASSUME WeakTypeOK, NEW t \in Threads, NEW op \in AttrOps, NEW v \in Nat, AttrOpen(t, op, v)
  PROVE  WeakTypeOK'
<1> DEFINE c == [Idle EXCEPT !.op = op, !.v = v]
<1>1. c \in Calls  BY IdleType DEF Calls, Ops
<1>2. mem' \in WeakMemory /\ calls' \in Nat /\ FilesKept /\ up' = up
  BY MemType DEF AttrOpen, Begins, WeakTypeOK, FilesKept
<1>3. ends' \in Ends
  BY DEF AttrOpen, Loses, WeakTypeOK, Ends
<1>4. CallsOK'
  <2>1. CASE Returns(t, c, "error")
    <3> HIDE DEF c
    <3> QED  BY <1>1, <1>2, <2>1, ReturnsType
  <2>2. ASSUME rec # None, NEW pc \in {"get", "set"}, Goes(t, [c EXCEPT !.h = Current, !.pc = pc])
        PROVE  CallsOK'
    <3>1. pc \in OwnHandle  BY DEF OwnHandle
    <3> HIDE DEF c
    <3> QED  BY <1>1, <1>2, <2>2, <3>1, OwnType, CurrentType
  <2> QED  BY <2>1, <2>2 DEF AttrOpen
<1> QED  BY <1>2, <1>3, <1>4 DEF AttrOpen, CallsOK, WeakTypeOK, record

\* A call at an own handle has one, and the copy in it is attributes.
LEMMA OwnHandleType ==
  ASSUME WeakTypeOK, NEW t \in Threads, call[t].pc \in OwnHandle
  PROVE  call[t] \in Calls /\ call[t].h \in Handle /\ call[t].h.copy \in Attrs
         /\ call[t].h.seen \in Nat /\ call[t].v \in Nat
<1>1. call[t] \in Calls /\ CallShape(call[t])  BY DEF WeakTypeOK
<1>2. call[t].h \in Handle /\ call[t].v \in Nat  BY <1>1 DEF CallShape, Calls
<1> QED  BY <1>1, <1>2 DEF Handle

-----------------------------------------------------------------------------
(* What is true of copies and calls between the steps *)

\* A handle that has seen the last put has the record in it.  A stream handle
\* may be longer than the record, by the ends of writes that failed.
FreshCopies ==
  /\ \A t \in Threads : call[t].h # None =>
       call[t].h.seen <= ver /\ (call[t].h.seen = ver => call[t].h.copy = rec)
  /\ \A o \in Opens : fh[o] # None =>
       /\ fh[o].seen <= ver
       /\ fh[o].seen = ver =>
            rec # None /\ SameButSize(fh[o].copy, rec) /\ (~raced => fh[o].copy.size >= rec.size)

\* Before wset the open file is too short, after it is not, and only one call
\* finds it too short at a time, unless two raced.
WritesAlone ==
  ~raced =>
    /\ \A t \in Threads : call[t].pc = "wset" => fh[call[t].o].copy.size < call[t].v
    /\ \A t \in Threads : call[t].pc = "wattr" => fh[call[t].o].copy.size >= call[t].v
    /\ \A t, u \in Threads :
         call[t].pc = "wset" /\ call[u].pc = "wset" /\ call[t].o = call[u].o => t = u

\* Nobody else uses a file that is about to be opened.
OpensAlone ==
  \A t \in Threads : call[t].pc = "open" =>
    fh[call[t].o] = None /\ \A u \in Threads \ {t} : call[u].o # call[t].o

RecordInv == FreshCopies /\ WritesAlone /\ OpensAlone /\ AttrsKept

-----------------------------------------------------------------------------
(* Types, action by action *)

\* What is not of the record, the files or the calls keeps its type when it is
\* counted or freed.
OtherTypes ==
  /\ up \in {"start", "serving", "ended"} /\ raced \in BOOLEAN
  /\ mem \in WeakMemory /\ calls \in Nat
  /\ ends \in Ends
FileTypes == fh \in [Opens -> Handle \cup {None}]

\* They do in every step.
LEMMA OtherStep ==
  ASSUME WeakTypeOK,
         up' = up, raced' \in BOOLEAN,
         calls' = calls \/ calls' = calls + 1,
         \/ /\ mem' \in {mem, Allocate(mem), Close(mem, "attr"), Close(mem, "stream"), OpenCursor(mem)}
            /\ \/ ends' = ends \/ Loses
               \/ ends' = [ends EXCEPT !.released = @ + 1]
               \/ ends' = [ends EXCEPT !.lost = @ + 1, !.cursors = @ + 1]
         \/ \E holes \in Nat : Transfers(holes)
  PROVE  OtherTypes'
<1>1. mem' \in WeakMemory  BY MemType, TransfersType DEF WeakTypeOK
<1>2. calls' \in Nat  BY DEF WeakTypeOK
<1>3. ends' \in Ends
  <2>1. CASE ends' = ends \/ Loses  BY <2>1 DEF WeakTypeOK, Loses, Ends
  <2>2. CASE ends' = [ends EXCEPT !.released = @ + 1]  BY <2>2 DEF WeakTypeOK, Ends
  <2>3. CASE ends' = [ends EXCEPT !.lost = @ + 1, !.cursors = @ + 1]
    <3>1. /\ ends \in Ends /\ ends.lost + 1 \in Nat /\ ends.cursors + 1 \in Nat
          /\ ends' = [ends EXCEPT !.lost = ends.lost + 1, !.cursors = ends.cursors + 1]
      BY <2>3 DEF WeakTypeOK, Ends
    <3> QED  BY <3>1, TwoEnds
  <2> QED  BY <2>1, <2>2, <2>3, TransfersType
<1> QED  BY <1>1, <1>2, <1>3 DEF OtherTypes, WeakTypeOK

\* A handle's put of attributes, meant to make new of the record.
LEMMA OwnPutType ==
  ASSUME WeakTypeOK, FreshCopies, AttrsKept, NEW t \in Threads, call[t].pc \in OwnHandle,
         NEW copy \in Attrs, NEW new, want \in Attrs => new \in Attrs,
         Put(copy, call[t].h.seen, new)
  PROVE  RecordType'
<1>1. call[t].h \in Handle /\ call[t].h.copy \in Attrs /\ call[t].h.seen \in Nat  BY OwnHandleType
<1>2. call[t].h # None  BY <1>1, HandleAssumption
<1>3. call[t].h.seen = ver => want \in Attrs
  BY <1>1, <1>2, NoneAssumption DEF FreshCopies, AttrsKept, WeakTypeOK
<1> QED  BY <1>1, <1>3, PutType DEF RecordType

\* chmod, chown
LEMMA SetOwnershipType ==
  ASSUME WeakTypeOK, FreshCopies, AttrsKept, NEW t \in Threads, NEW op, NEW field \in Fields,
         NEW copy \in Attrs, NEW new, want \in Attrs => new \in Attrs,
         SetOwnership(t, op, field, copy, new)
  PROVE  WeakTypeOK'
<1> DEFINE c == call[t]
           d == [c EXCEPT !.did = {field}]
<1>1. c \in Calls /\ d \in Calls /\ c.pc \in OwnHandle
  BY DEF WeakTypeOK, SetOwnership, At, OwnHandle, Calls
<1>2. FilesKept /\ FileTypes'  BY DEF SetOwnership, FilesKept, FileTypes, WeakTypeOK
<1>3. OtherTypes'  BY OtherStep DEF SetOwnership, WeakTypeOK
<1>4. Returns(t, d, "ok") \/ Returns(t, c, "ok")  BY DEF SetOwnership
<1>5. CallsOK'
  <2> HIDE DEF c, d
  <2> QED  BY <1>1, <1>2, <1>4, ReturnsType
<1>6. RecordType'
  <2>1. CASE NoPut  BY <2>1 DEF NoPut, record, WeakTypeOK, RecordType
  <2>2. CASE Put(copy, c.h.seen, new)
    <3>1. call[t].pc \in OwnHandle /\ Put(copy, call[t].h.seen, new)  BY <1>1, <2>2
    <3> QED  BY <3>1, OwnPutType
  <2> QED  BY <2>1, <2>2 DEF SetOwnership
<1> QED  BY <1>2, <1>3, <1>5, <1>6
  DEF OtherTypes, FileTypes, RecordType, CallsOK, WeakTypeOK

\* The second time of utime, truncate
LEMMA LastPutType ==
  ASSUME WeakTypeOK, FreshCopies, AttrsKept, NEW t \in Threads, NEW field \in Fields, up = "serving",
         call[t].pc \in OwnHandle, NEW copy \in Attrs, NEW new, want \in Attrs => new \in Attrs,
         LastPut(t, field, copy, new)
  PROVE  WeakTypeOK'
<1> DEFINE c == call[t]
           d == [c EXCEPT !.did = @ \cup {field}]
<1>1. c \in Calls /\ d \in Calls  BY DEF WeakTypeOK, Calls
<1>2. FilesKept /\ FileTypes'  BY DEF LastPut, FilesKept, FileTypes, WeakTypeOK
<1>3. OtherTypes'  BY OtherStep DEF LastPut, WeakTypeOK
<1>4. Returns(t, d, "ok") \/ Returns(t, c, "error")  BY DEF LastPut
<1>5. CallsOK'
  <2> HIDE DEF c, d
  <2> QED  BY <1>1, <1>2, <1>4, ReturnsType
<1>6. RecordType'
  <2>1. CASE NoPut  BY <2>1 DEF NoPut, record, WeakTypeOK, RecordType
  <2>2. CASE Put(copy, c.h.seen, new)
    <3>1. call[t].pc \in OwnHandle /\ Put(copy, call[t].h.seen, new)  BY <1>1, <2>2
    <3> QED  BY <3>1, OwnPutType
  <2> QED  BY <2>1, <2>2 DEF LastPut
<1> QED  BY <1>2, <1>3, <1>5, <1>6
  DEF OtherTypes, FileTypes, RecordType, CallsOK, WeakTypeOK

\* The first time of utime
LEMMA UtimeFirstType ==
  ASSUME WeakTypeOK, FreshCopies, AttrsKept, NEW t \in Threads, UtimeFirst(t)
  PROVE  WeakTypeOK'
<1> DEFINE c == call[t]
           changed == SetMtime(c.h.copy, c.v)
           h == [copy |-> changed, seen |-> ver + 1]
           d == [c EXCEPT !.did = {"mtime"}]
<1>1. c \in Calls /\ d \in Calls /\ c.pc \in OwnHandle
  BY DEF WeakTypeOK, UtimeFirst, At, OwnHandle, Calls, Fields
<1>2. FilesKept /\ FileTypes'  BY DEF UtimeFirst, FilesKept, FileTypes, WeakTypeOK
<1>3. OtherTypes'  BY OtherStep DEF UtimeFirst, WeakTypeOK
<1>4. changed \in Attrs /\ (want \in Attrs => SetMtime(want, c.v) \in Attrs)
  BY <1>1, OwnHandleType, Setters
<1>5. CallsOK'
  <2>1. CASE Returns(t, c, "error")
    <3> HIDE DEF c
    <3> QED  BY <1>1, <1>2, <2>1, ReturnsType
  <2>2. CASE Goes(t, [c EXCEPT !.pc = "set2", !.did = {"mtime"}, !.h = h])
    <3>1. h \in Handle  BY <1>4 DEF Handle, WeakTypeOK
    <3>2. "set2" \in OwnHandle  BY DEF OwnHandle
    <3>3. [d EXCEPT !.h = h, !.pc = "set2"] = [c EXCEPT !.pc = "set2", !.did = {"mtime"}, !.h = h]
      BY <1>1 DEF Calls
    <3>4. Goes(t, [d EXCEPT !.h = h, !.pc = "set2"])  BY <2>2, <3>3
    <3> HIDE DEF c, d, h
    <3> QED  BY <1>1, <1>2, <3>1, <3>2, <3>4, OwnType
  <2> QED  BY <2>1, <2>2 DEF UtimeFirst
<1>6. RecordType'
  <2>1. CASE NoPut  BY <2>1 DEF NoPut, record, WeakTypeOK, RecordType
  <2>2. CASE Put(changed, c.h.seen, SetMtime(want, c.v))
    <3>1. call[t].pc \in OwnHandle /\ Put(changed, call[t].h.seen, SetMtime(want, c.v))  BY <1>1, <2>2
    <3> HIDE DEF changed
    <3> QED  BY <1>4, <3>1, OwnPutType
  <2> QED  BY <2>1, <2>2 DEF UtimeFirst
<1> QED  BY <1>2, <1>3, <1>5, <1>6
  DEF OtherTypes, FileTypes, RecordType, CallsOK, WeakTypeOK

\* A file is opened for a call that has no handle of its own.
LEMMA StreamOpenType ==
  ASSUME WeakTypeOK, NEW t \in Threads, NEW c \in Calls, c.o \in Opens, StreamOpen(t, c),
         calls' = calls \/ calls' = calls + 1
  PROVE  WeakTypeOK'
<1>1. FilesKept /\ FileTypes'
  <2>1. CASE fh' = fh  BY <2>1 DEF FilesKept, FileTypes, WeakTypeOK
  <2>2. CASE rec # None /\ fh' = [fh EXCEPT ![c.o] = Current]
    <3>1. Current \in Handle /\ Current # None  BY <2>2, CurrentType, HandleAssumption
    <3> QED  BY <2>2, <3>1 DEF FilesKept, FileTypes, WeakTypeOK
  <2> QED  BY <2>1, <2>2 DEF StreamOpen
<1>2. OtherTypes'  BY OtherStep DEF StreamOpen, WeakTypeOK
<1>3. CallsOK'  BY <1>1, ReturnsType DEF StreamOpen
<1>4. RecordType'  BY DEF StreamOpen, record, RecordType, WeakTypeOK
<1> QED  BY <1>1, <1>2, <1>3, <1>4 DEF OtherTypes, FileTypes, RecordType, CallsOK, WeakTypeOK

\* A call returns, and nothing happens to the record or the files.
LEMMA QuietReturnType ==
  ASSUME WeakTypeOK, NEW t \in Threads, NEW c \in Calls, NEW res \in {"ok", "error", "positive"},
         Returns(t, c, res), UNCHANGED <<record, fh>>, OtherTypes'
  PROVE  WeakTypeOK'
<1>1. FilesKept /\ FileTypes' /\ RecordType'
  BY DEF FilesKept, FileTypes, RecordType, record, WeakTypeOK
<1>2. CallsOK'  BY <1>1, ReturnsType
<1> QED  BY <1>1, <1>2 DEF OtherTypes, FileTypes, RecordType, CallsOK, WeakTypeOK

\* create and mkdir
LEMMA CreateType ==
  ASSUME WeakTypeOK, NEW t \in Threads, NEW op \in {"create", "mkdir"}, NEW type \in Types,
         NEW mode \in Nat, NEW c \in Calls, c.h = None, op = "create" => c.o \in Opens,
         Create(t, op, type, mode, c)
  PROVE  WeakTypeOK'
<1> DEFINE e == [c EXCEPT !.op = op]
           d == [c EXCEPT !.op = op, !.did = {"entry"}]
<1>1. e \in Calls /\ d \in Calls /\ d.h = None /\ d.o = c.o  BY DEF Calls, Ops, AttrOps, Fields
<1>2. FilesKept /\ FileTypes'  BY DEF Create, FilesKept, FileTypes, WeakTypeOK
<1>3. OtherTypes'  BY OtherStep DEF Create, Begins, WeakTypeOK
<1>4. RecordType'
  <2>1. CASE NoPut  BY <2>1 DEF NoPut, record, WeakTypeOK, RecordType
  <2>2. CASE PutNew(type, mode)  BY <2>2, NewType DEF PutNew, RecordType, WeakTypeOK
  <2> QED  BY <2>1, <2>2 DEF Create
<1>5. CallsOK'
  <2>1. CASE Returns(t, e, "error") \/ Returns(t, d, "ok")
    <3> HIDE DEF d, e
    <3> QED  BY <1>1, <1>2, <2>1, ReturnsType
  <2>2. CASE op = "create" /\ Goes(t, [d EXCEPT !.pc = "open"])
    <3>1. d.o \in Opens /\ "open" \notin InWrite  BY <1>1, <2>2 DEF InWrite
    <3> HIDE DEF d
    <3> QED  BY <1>1, <1>2, <2>2, <3>1, FileType
  <2> QED  BY <2>1, <2>2 DEF Create
<1> QED  BY <1>2, <1>3, <1>4, <1>5 DEF OtherTypes, FileTypes, RecordType, CallsOK, WeakTypeOK

\* The begin of a write
LEMMA WriteBeginType ==
  ASSUME WeakTypeOK, NEW t \in Threads, NEW o \in Opens, NEW end \in Nat, WriteBegin(t, o, end)
  PROVE  WeakTypeOK'
<1> DEFINE c == [Idle EXCEPT !.op = "write", !.o = o, !.v = end]
<1>1. c \in Calls /\ c.h = None /\ c.o = o  BY IdleType DEF Calls, Idle, Ops
<1>2. FilesKept /\ FileTypes' /\ RecordType' /\ fh'[o] # None
  BY DEF WriteBegin, FilesKept, FileTypes, WeakTypeOK, RecordType, record
<1>3. OtherTypes'
  <2>1. raced' \in BOOLEAN  BY DEF WriteBegin, WeakTypeOK
  <2>2. PICK holes \in Nat : Transfers(holes)  BY BoundAssumption DEF WriteBegin
  <2>3. up' = up /\ calls' = calls + 1  BY DEF WriteBegin, Begins
  <2> QED  BY <2>1, <2>2, <2>3, OtherStep
<1>4. CallsOK'
  <2>1. CASE Returns(t, c, "error")
    <3> HIDE DEF c
    <3> QED  BY <1>1, <1>2, <2>1, ReturnsType
  <2>2. ASSUME NEW pc \in InWrite, Goes(t, [c EXCEPT !.pc = pc])  PROVE CallsOK'
    <3>1. pc \in InWrite \cup {"open"} /\ (pc \in InWrite => fh'[c.o] # None) /\ c.o \in Opens
      BY <1>1, <1>2, <2>2
    <3> HIDE DEF c
    <3> QED  BY <1>1, <1>2, <2>2, <3>1, FileType
  <2>3. Returns(t, c, "error") \/ \E pc \in InWrite : Goes(t, [c EXCEPT !.pc = pc])
    BY Zenon DEF WriteBegin, InWrite
  <2> QED  BY <2>1, <2>2, <2>3
<1> QED  BY <1>2, <1>3, <1>4 DEF OtherTypes, FileTypes, RecordType, CallsOK, WeakTypeOK

\* A call in a write has its file open, without a handle of its own.
LEMMA InWriteType ==
  ASSUME WeakTypeOK, NEW t \in Threads, call[t].pc \in InWrite
  PROVE  /\ call[t] \in Calls /\ call[t].h = None /\ call[t].o \in Opens /\ call[t].v \in Nat
         /\ fh[call[t].o] \in Handle /\ fh[call[t].o] # None
         /\ fh[call[t].o].copy \in Attrs /\ fh[call[t].o].seen \in Nat
<1>1. call[t] \in Calls /\ CallShape(call[t])  BY DEF WeakTypeOK
<1>2. call[t].h = None /\ call[t].o \in Opens /\ fh[call[t].o] # None /\ call[t].v \in Nat
  BY <1>1 DEF CallShape, InWrite, OwnHandle, Calls
<1>3. fh[call[t].o] \in Handle  BY <1>2 DEF WeakTypeOK
<1> QED  BY <1>1, <1>2, <1>3 DEF Handle

\* The size of an open file is set,
LEMMA WriteSetType ==
  ASSUME WeakTypeOK, NEW t \in Threads, WriteSet(t)
  PROVE  /\ WeakTypeOK'
         /\ fh' = [fh EXCEPT ![call[t].o] =
                    [copy |-> SetSize(fh[call[t].o].copy, call[t].v), seen |-> fh[call[t].o].seen]]
<1> DEFINE c == call[t]
           h == [copy |-> SetSize(fh[c.o].copy, c.v), seen |-> fh[c.o].seen]
<1>1. /\ c \in Calls /\ c.h = None /\ c.o \in Opens /\ c.v \in Nat
      /\ fh[c.o] \in Handle /\ fh[c.o].copy \in Attrs /\ fh[c.o].seen \in Nat
  BY InWriteType DEF WriteSet, At, InWrite
<1>2. h \in Handle /\ h # None
  <2>1. SetSize(fh[c.o].copy, c.v) \in Attrs  BY <1>1, Setters
  <2>2. h \in Handle  BY <1>1, <2>1 DEF Handle
  <2> QED  BY <2>2, HandleAssumption
<1>3. fh' = [fh EXCEPT ![c.o] = h]
  <2>1. [fh[c.o] EXCEPT !.copy = SetSize(fh[c.o].copy, c.v)] = h  BY <1>1 DEF Handle
  <2> QED  BY <2>1 DEF WriteSet
<1>4. FileTypes' /\ FilesKept /\ fh'[c.o] # None
  <2> HIDE DEF h
  <2> QED  BY <1>1, <1>2, <1>3 DEF FileTypes, FilesKept, WeakTypeOK
<1>5. OtherTypes' /\ RecordType'
  BY DEF WriteSet, OtherTypes, RecordType, record, WeakTypeOK
<1>6. CallsOK'
  <2>1. Goes(t, [c EXCEPT !.pc = "wattr"]) /\ "wattr" \in InWrite  BY DEF WriteSet, InWrite
  <2> HIDE DEF c
  <2> QED  BY <1>1, <1>4, <2>1, FileType
<1> QED  BY <1>3, <1>4, <1>5, <1>6 DEF OtherTypes, FileTypes, RecordType, CallsOK, WeakTypeOK

\* and its copy stored.
LEMMA WriteAttrType ==
  ASSUME WeakTypeOK, FreshCopies, AttrsKept, NEW t \in Threads, WriteAttr(t)
  PROVE  /\ WeakTypeOK'
         /\ \/ fh' = fh
            \/ fh' = [fh EXCEPT ![call[t].o] = [copy |-> fh[call[t].o].copy, seen |-> ver + 1]]
<1> DEFINE c == call[t]
           h == [copy |-> fh[c.o].copy, seen |-> ver + 1]
           d == [c EXCEPT !.did = {"size"}]
<1>1. /\ c \in Calls /\ c.h = None /\ c.o \in Opens /\ c.v \in Nat
      /\ fh[c.o] \in Handle /\ fh[c.o] # None /\ fh[c.o].copy \in Attrs /\ fh[c.o].seen \in Nat
  BY InWriteType DEF WriteAttr, At, InWrite
<1>2. h \in Handle /\ h # None  BY <1>1, HandleAssumption DEF Handle, WeakTypeOK
<1>3. fh' = fh \/ fh' = [fh EXCEPT ![c.o] = h]
  <2>1. fh[c.o] = [copy |-> fh[c.o].copy, seen |-> fh[c.o].seen]  BY <1>1 DEF Handle
  <2> QED  BY <1>1, <2>1 DEF WriteAttr, Handle
<1>4. FileTypes' /\ FilesKept
  <2> HIDE DEF h
  <2> QED  BY <1>1, <1>2, <1>3 DEF FileTypes, FilesKept, WeakTypeOK
<1>5. OtherTypes'  BY OtherStep DEF WriteAttr, WeakTypeOK
<1>6. RecordType'
  <2>1. CASE NoPut  BY <2>1 DEF NoPut, record, WeakTypeOK, RecordType
  <2>2. CASE Put(fh[c.o].copy, fh[c.o].seen, Larger(want, c.v))
    <3>1. fh[c.o].seen = ver => want \in Attrs
      BY <1>1 DEF FreshCopies, AttrsKept, WeakTypeOK
    <3>2. fh[c.o].seen = ver => Larger(want, c.v) \in Attrs  BY <1>1, <3>1, Setters
    <3> QED  BY <1>1, <2>2, <3>2, PutType DEF RecordType
  <2> QED  BY <2>1, <2>2 DEF WriteAttr
<1>7. CallsOK'
  <2>1. d \in Calls  BY <1>1 DEF Calls, Fields
  <2>2. Returns(t, d, "ok") \/ Returns(t, c, "error")  BY DEF WriteAttr
  <2> HIDE DEF c, d
  <2> QED  BY <1>1, <1>4, <2>1, <2>2, ReturnsType
<1> QED  BY <1>3, <1>4, <1>5, <1>6, <1>7 DEF OtherTypes, FileTypes, RecordType, CallsOK, WeakTypeOK

\* A release closes its file, which no call uses.
LEMMA ReleaseType ==
  ASSUME WeakTypeOK, NEW t \in Threads, NEW o \in Opens, Release(t, o)
  PROVE  WeakTypeOK'
<1> DEFINE c == [Idle EXCEPT !.op = "release"]
<1>1. c \in Calls  BY IdleType DEF Calls, Ops
<1>2. FilesKept /\ FileTypes' /\ RecordType'
  BY DEF Release, FilesKept, FileTypes, WeakTypeOK, RecordType, record
<1>3. OtherTypes'  BY OtherStep DEF Release, Begins, WeakTypeOK
<1>4. CallsOK'
  <2>1. Returns(t, c, "ok")  BY DEF Release
  <2> HIDE DEF c
  <2> QED  BY <1>1, <1>2, <2>1, ReturnsType
<1> QED  BY <1>2, <1>3, <1>4 DEF OtherTypes, FileTypes, RecordType, CallsOK, WeakTypeOK

\* The begin of a remove
LEMMA RemoveType ==
  ASSUME WeakTypeOK, NEW t \in Threads, Remove(t)
  PROVE  WeakTypeOK'
<1> DEFINE c == [Idle EXCEPT !.op = "remove"]
<1>1. c \in Calls  BY IdleType DEF Calls, Ops
<1>2. FilesKept /\ FileTypes' /\ RecordType'
  BY DEF Remove, FilesKept, FileTypes, WeakTypeOK, RecordType, record
<1>3. OtherTypes'  BY OtherStep DEF Remove, Begins, WeakTypeOK
<1>4. CallsOK'
  <2>1. CASE Returns(t, c, "error")
    <3> HIDE DEF c
    <3> QED  BY <1>1, <1>2, <2>1, ReturnsType
  <2>2. ASSUME rec # None, NEW pc \in {"deld", "spin", "dela"},
               Goes(t, [c EXCEPT !.h = Current, !.pc = pc])
        PROVE  CallsOK'
    <3>1. pc \in OwnHandle  BY DEF OwnHandle
    <3> HIDE DEF c
    <3> QED  BY <1>1, <1>2, <2>2, <3>1, OwnType, CurrentType
  <2>3. Returns(t, c, "error")
        \/ (rec # None /\ \E pc \in {"deld", "spin", "dela"} :
                            Goes(t, [c EXCEPT !.h = Current, !.pc = pc]))
    <3> DEFINE pc == IF rec.type = "container" THEN "deld" ELSE IF rec.size = 0 THEN "spin" ELSE "dela"
    <3>1. pc \in {"deld", "spin", "dela"}  OBVIOUS
    <3>2. Returns(t, c, "error") \/ (rec # None /\ Goes(t, [c EXCEPT !.h = Current, !.pc = pc]))
      BY DEF Remove
    <3> HIDE DEF c, pc
    <3> QED  BY <3>1, <3>2
  <2> QED  BY <2>1, <2>2, <2>3
<1> QED  BY <1>2, <1>3, <1>4 DEF OtherTypes, FileTypes, RecordType, CallsOK, WeakTypeOK

\* and its ends.
LEMMA RemoveEndType ==
  ASSUME WeakTypeOK, NEW t \in Threads, RemoveFile(t) \/ RemoveDir(t) \/ RemoveFail(t)
  PROVE  WeakTypeOK'
<1> DEFINE c == call[t]
           e == [c EXCEPT !.op = "rmdir"]
<1>1. /\ c \in Calls /\ e \in Calls /\ [c EXCEPT !.did = {"gone"}] \in Calls
      /\ [e EXCEPT !.did = {"gone"}] \in Calls
  BY DEF WeakTypeOK, Calls, Ops, Fields
<1>2. PICK d \in Calls, res \in {"ok", "error", "positive"} : Returns(t, d, res)
  <2>1. CASE RemoveFile(t)  BY <1>1, <2>1 DEF RemoveFile
  <2>2. CASE RemoveDir(t)  BY <1>1, <2>2 DEF RemoveDir
  <2>3. CASE RemoveFail(t)  BY <1>1, <2>3 DEF RemoveFail
  <2> QED  BY <2>1, <2>2, <2>3
<1>3. FilesKept /\ FileTypes'
  BY DEF RemoveFile, RemoveDir, RemoveFail, FilesKept, FileTypes, WeakTypeOK
<1>4. RecordType'
  BY DEF RemoveFile, RemoveDir, RemoveFail, NoPut, Del, record, RecordType, WeakTypeOK
<1>5. OtherTypes'
  <2>1. /\ UNCHANGED <<up, raced, mem, calls>>
        /\ Loses \/ ends' = [ends EXCEPT !.lost = @ + 1, !.cursors = @ + 1]
    BY DEF RemoveFile, RemoveDir, RemoveFail
  <2>2. raced' \in BOOLEAN  BY <2>1 DEF WeakTypeOK
  <2> QED  BY <2>1, <2>2, OtherStep
<1>6. CallsOK'  BY <1>2, <1>3, ReturnsType
<1> QED  BY <1>3, <1>4, <1>5, <1>6 DEF OtherTypes, FileTypes, RecordType, CallsOK, WeakTypeOK

\* An rmdir has its cursor, or none.
LEMMA DeldCursorType ==
  ASSUME WeakTypeOK, NEW t \in Threads, DeldCursor(t)
  PROVE  WeakTypeOK'
<1> DEFINE c == call[t]
<1>1. c \in Calls /\ c.h \in Handle  BY OwnHandleType DEF DeldCursor, At, OwnHandle
<1>2. FilesKept /\ FileTypes' /\ RecordType'
  BY DEF DeldCursor, FilesKept, FileTypes, WeakTypeOK, RecordType, record
<1>3. OtherTypes'
  <2>1. raced' \in BOOLEAN  BY DEF DeldCursor, WeakTypeOK
  <2> QED  BY <2>1, OtherStep DEF DeldCursor
<1>4. CallsOK'
  <2>1. CASE Returns(t, c, "error")  BY <1>1, <1>2, <2>1, ReturnsType
  <2>2. CASE Goes(t, [c EXCEPT !.pc = "empty"])
    <3>1. [c EXCEPT !.pc = "empty"] = [c EXCEPT !.h = c.h, !.pc = "empty"]  BY <1>1 DEF Calls
    <3>2. "empty" \in OwnHandle  BY DEF OwnHandle
    <3>3. Goes(t, [c EXCEPT !.h = c.h, !.pc = "empty"])  BY <2>2, <3>1
    <3> HIDE DEF c
    <3> QED  BY <1>1, <1>2, <3>2, <3>3, OwnType
  <2> QED  BY <2>1, <2>2 DEF DeldCursor
<1> QED  BY <1>2, <1>3, <1>4 DEF OtherTypes, FileTypes, RecordType, CallsOK, WeakTypeOK

\* A handler begins.
LEMMA BeginType ==
  ASSUME WeakTypeOK, NEW t \in Threads, Begin(t)
  PROVE  WeakTypeOK'
<1> USE BoundAssumption
<1>1. ASSUME NEW op \in AttrOps \ {"truncate"}, NEW v \in Modes, AttrOpen(t, op, v)  PROVE WeakTypeOK'
  BY <1>1, AttrOpenType
<1>2. ASSUME NEW v \in 0 .. MaxSize, AttrOpen(t, "truncate", v)  PROVE WeakTypeOK'
  <2>1. "truncate" \in AttrOps /\ v \in Nat  BY DEF AttrOps
  <2> QED  BY <1>2, <2>1, AttrOpenType
<1>3. ASSUME NEW mode \in Modes, MakeDir(t, mode)  PROVE WeakTypeOK'
  <2>1. Idle.h = None /\ mode \in Nat /\ "container" \in Types  BY DEF Idle, Types
  <2> QED  BY <1>3, <2>1, IdleType, CreateType DEF MakeDir
<1>4. ASSUME NEW o \in Opens, Open(t, o)  PROVE WeakTypeOK'
  <2> DEFINE c == [Idle EXCEPT !.op = "open", !.o = o]
  <2>1. c \in Calls /\ c.o \in Opens  BY IdleType DEF Calls, Ops, Idle
  <2>2. StreamOpen(t, c) /\ calls' = calls + 1  BY <1>4 DEF Open, Begins
  <2> HIDE DEF c
  <2> QED  BY <2>1, <2>2, StreamOpenType
<1>5. ASSUME NEW o \in Opens, Release(t, o)  PROVE WeakTypeOK'
  BY <1>5, ReleaseType
<1>6. ASSUME NEW o \in Opens, Read(t, o)  PROVE WeakTypeOK'
  <2> DEFINE c == [Idle EXCEPT !.op = "read", !.o = o]
  <2>1. c \in Calls  BY IdleType DEF Calls, Ops
  <2>2. PICK res \in {"ok", "error", "positive"} : Returns(t, c, res)  BY <1>6 DEF Read
  <2>3. OtherTypes'
    <3>1. up' = up /\ calls' = calls + 1 /\ raced' \in BOOLEAN /\ Transfers(0)
      BY <1>6 DEF Read, Begins, WeakTypeOK
    <3> QED  BY <3>1, OtherStep
  <2>4. UNCHANGED <<record, fh>>  BY <1>6 DEF Read
  <2> HIDE DEF c
  <2> QED  BY <2>1, <2>2, <2>3, <2>4, QuietReturnType
<1>7. ASSUME NEW o \in Opens, EnvExit(t, o)  PROVE WeakTypeOK'
  BY <1>7 DEF EnvExit, Begins, WeakTypeOK, record, CallShape
<1>8. ASSUME NEW o \in Opens, NEW mode \in Modes, CreateFile(t, o, mode)  PROVE WeakTypeOK'
  <2> DEFINE c == [Idle EXCEPT !.o = o]
  <2>1. c \in Calls /\ c.h = None /\ c.o \in Opens /\ mode \in Nat /\ "data" \in Types
    BY IdleType DEF Calls, Idle, Types
  <2>2. Create(t, "create", "data", mode, c)  BY <1>8 DEF CreateFile
  <2> HIDE DEF c
  <2> QED  BY <2>1, <2>2, CreateType
<1>9. ASSUME NEW o \in Opens, NEW end \in 0 .. MaxSize, WriteBegin(t, o, end)  PROVE WeakTypeOK'
  BY <1>9, WriteBeginType
<1>10. CASE Remove(t)  BY <1>10, RemoveType
<1> QED  BY <1>1, <1>2, <1>3, <1>4, <1>5, <1>6, <1>7, <1>8, <1>9, <1>10 DEF Begin

\* A handler goes on.
LEMMA ContinueType ==
  ASSUME WeakTypeOK, FreshCopies, AttrsKept, NEW t \in Threads, Continue(t)
  PROVE  WeakTypeOK'
<1> DEFINE c == call[t]
<1>1. c \in Calls  BY DEF WeakTypeOK
<1>2. ASSUME c.pc \in OwnHandle
      PROVE  /\ c.h.copy \in Attrs /\ c.v \in Nat
             /\ Chmod(c.h.copy, c.v) \in Attrs /\ (want \in Attrs => Chmod(want, c.v) \in Attrs)
             /\ Chown(c.h.copy, c.v) \in Attrs /\ (want \in Attrs => Chown(want, c.v) \in Attrs)
             /\ SetAtime(c.h.copy, c.v) \in Attrs /\ (want \in Attrs => SetAtime(want, c.v) \in Attrs)
             /\ SetSize(c.h.copy, c.v) \in Attrs /\ (want \in Attrs => SetSize(want, c.v) \in Attrs)
  BY <1>2, OwnHandleType, Setters
<1>3. CASE GetAttr(t)
  <2>1. Returns(t, c, "ok") /\ UNCHANGED <<record, fh>>  BY <1>3 DEF GetAttr
  <2>2. OtherTypes'  BY <1>3, OtherStep DEF GetAttr, WeakTypeOK
  <2> QED  BY <1>1, <2>1, <2>2, QuietReturnType
<1>4. CASE ChmodPut(t)
  <2>1. c.pc \in OwnHandle  BY <1>4 DEF ChmodPut, SetOwnership, At, OwnHandle
  <2> QED  BY <1>2, <1>4, <2>1, SetOwnershipType DEF ChmodPut, Fields
<1>5. CASE ChownPut(t)
  <2>1. c.pc \in OwnHandle  BY <1>5 DEF ChownPut, SetOwnership, At, OwnHandle
  <2> QED  BY <1>2, <1>5, <2>1, SetOwnershipType DEF ChownPut, Fields
<1>6. CASE UtimeFirst(t)  BY <1>6, UtimeFirstType
<1>7. CASE UtimeSecond(t)
  <2>1. c.pc \in OwnHandle /\ up = "serving"  BY <1>7 DEF UtimeSecond, At, OwnHandle
  <2> QED  BY <1>2, <1>7, <2>1, LastPutType DEF UtimeSecond, Fields
<1>8. CASE Truncate(t)
  <2>1. c.pc \in OwnHandle /\ up = "serving"  BY <1>8 DEF Truncate, At, OwnHandle
  <2> QED  BY <1>2, <1>8, <2>1, LastPutType DEF Truncate, Fields
<1>9. CASE CreateOpen(t)
  <2>1. c.o \in Opens  BY <1>9 DEF CreateOpen, At, WeakTypeOK, CallShape
  <2> QED  BY <1>1, <1>9, <2>1, StreamOpenType DEF CreateOpen
<1>10. CASE WriteSet(t)  BY <1>10, WriteSetType
<1>11. CASE WriteAttr(t)  BY <1>11, WriteAttrType
<1>12. CASE RemoveFile(t) \/ RemoveDir(t) \/ RemoveFail(t)  BY <1>12, RemoveEndType
<1>13. CASE Return(t)
  <2>1. FilesKept /\ FileTypes' /\ RecordType' /\ OtherTypes' /\ Goes(t, Idle)
    BY <1>13 DEF Return, FilesKept, FileTypes, RecordType, OtherTypes, record, WeakTypeOK
  <2>2. CallShape(Idle)'  BY DEF CallShape, Idle, OwnHandle, InWrite
  <2>3. CallsOK'  BY <2>1, <2>2, IdleType, ShapeKept DEF FilesKept, CallsOK
  <2> QED  BY <2>1, <2>3 DEF OtherTypes, FileTypes, RecordType, CallsOK, WeakTypeOK
<1>14. CASE DeldCursor(t)  BY <1>14, DeldCursorType
<1> QED  BY <1>3, <1>4, <1>5, <1>6, <1>7, <1>8, <1>9, <1>10, <1>11, <1>12, <1>13, <1>14 DEF Continue

\* Every step keeps the types.
LEMMA TypeStep ==
  ASSUME WeakTypeOK, FreshCopies, AttrsKept, [Next]_vars
  PROVE  WeakTypeOK'
<1>1. CASE Mount \/ Unmount
  BY <1>1 DEF Mount, Unmount, WeakTypeOK, CallShape, record
<1>2. CASE UNCHANGED vars  BY <1>2 DEF vars, WeakTypeOK, CallShape
<1> QED  BY <1>1, <1>2, BeginType, ContinueType DEF Next

-----------------------------------------------------------------------------
(* The record and its copies, kind of step by kind of step *)

\* What it is to differ in size only.
LEMMA SameFields ==
  ASSUME NEW a \in Attrs, NEW b \in Attrs
  PROVE  SameButSize(a, b) <=>
           a.type = b.type /\ a.mode = b.mode /\ a.owner = b.owner
           /\ a.mtime = b.mtime /\ a.atime = b.atime
<1>1. /\ a = [type |-> a.type, mode |-> a.mode, owner |-> a.owner, mtime |-> a.mtime,
              atime |-> a.atime, size |-> a.size]
      /\ b = [type |-> b.type, mode |-> b.mode, owner |-> b.owner, mtime |-> b.mtime,
              atime |-> b.atime, size |-> b.size]
  BY DEF Attrs
<1>2. /\ [a EXCEPT !.size = 0] = [type |-> a.type, mode |-> a.mode, owner |-> a.owner,
                                  mtime |-> a.mtime, atime |-> a.atime, size |-> 0]
      /\ [b EXCEPT !.size = 0] = [type |-> b.type, mode |-> b.mode, owner |-> b.owner,
                                  mtime |-> b.mtime, atime |-> b.atime, size |-> 0]
  BY <1>1
<1> QED  BY <1>2 DEF SameButSize

\* Two records that differ in size only still do after the same change.
LEMMA SettersKeep ==
  ASSUME NEW a \in Attrs, NEW b \in Attrs, NEW v \in Nat, SameButSize(a, b)
  PROVE  /\ SameButSize(Chmod(a, v), Chmod(b, v)) /\ SameButSize(Chown(a, v), Chown(b, v))
         /\ SameButSize(SetMtime(a, v), SetMtime(b, v))
         /\ SameButSize(SetAtime(a, v), SetAtime(b, v))
         /\ SameButSize(SetSize(a, v), SetSize(b, v))
         /\ SameButSize(a, Larger(b, v))
         /\ \A w \in Nat : SameButSize(SetSize(a, w), b)
<1>1. a.type = b.type /\ a.mode = b.mode /\ a.owner = b.owner /\ a.mtime = b.mtime /\ a.atime = b.atime
  BY SameFields
<1>2. SameButSize(Chmod(a, v), Chmod(b, v))
  <2>1. Chmod(a, v) \in Attrs /\ Chmod(b, v) \in Attrs  BY Setters
  <2> QED  BY <1>1, <2>1, SameFields DEF Chmod, Attrs
<1>3. SameButSize(Chown(a, v), Chown(b, v))
  <2>1. Chown(a, v) \in Attrs /\ Chown(b, v) \in Attrs  BY Setters
  <2> QED  BY <1>1, <2>1, SameFields DEF Chown, Attrs
<1>4. SameButSize(SetMtime(a, v), SetMtime(b, v))
  <2>1. SetMtime(a, v) \in Attrs /\ SetMtime(b, v) \in Attrs  BY Setters
  <2> QED  BY <1>1, <2>1, SameFields DEF SetMtime, Attrs
<1>5. SameButSize(SetAtime(a, v), SetAtime(b, v))
  <2>1. SetAtime(a, v) \in Attrs /\ SetAtime(b, v) \in Attrs  BY Setters
  <2> QED  BY <1>1, <2>1, SameFields DEF SetAtime, Attrs
<1>6. \A m \in Nat, n \in Nat : SameButSize(SetSize(a, m), SetSize(b, n))
  <2>1. \A m \in Nat : SetSize(a, m) \in Attrs /\ SetSize(b, m) \in Attrs  BY Setters
  <2> QED  BY <1>1, <2>1, SameFields DEF SetSize, Attrs
<1>7. SetSize(a, a.size) = a /\ SetSize(b, b.size) = b /\ a.size \in Nat /\ b.size \in Nat
  BY DEF SetSize, Attrs
<1>8. SameButSize(a, Larger(b, v)) /\ \A w \in Nat : SameButSize(SetSize(a, w), b)
  BY <1>6, <1>7 DEF Larger
<1> QED  BY <1>2, <1>3, <1>4, <1>5, <1>6, <1>8

\* What the changes do to the size.
LEMMA SetterSizes ==
  ASSUME NEW a \in Attrs, NEW v \in Nat
  PROVE  /\ Chmod(a, v).size = a.size /\ Chown(a, v).size = a.size
         /\ SetMtime(a, v).size = a.size /\ SetAtime(a, v).size = a.size
         /\ SetSize(a, v).size = v
         /\ Larger(a, v).size = IF a.size < v THEN v ELSE a.size
BY DEF Attrs, Chmod, Chown, SetMtime, SetAtime, SetSize, Larger, Extends

\* A record differs from itself in size only.
LEMMA SameReflexive ==
  ASSUME NEW a PROVE SameButSize(a, a)
BY DEF SameButSize

\* The calls after a step of t, which is then in d.
LEMMA CallsAfter ==
  ASSUME WeakTypeOK, NEW t \in Threads, NEW d, Goes(t, d)
  PROVE  call'[t] = d /\ \A u \in Threads \ {t} : call'[u] = call[u]
BY DEF WeakTypeOK, Goes

\* A step that leaves record and files alone, and takes a call out of them or
\* gives it a handle filled just now.
LEMMA QuietStep ==
  ASSUME WeakTypeOK, RecordInv, NEW t \in Threads, NEW d \in Calls, Goes(t, d),
         UNCHANGED <<record, raced, fh>>,
         d.h = None \/ d.h = call[t].h \/ (rec # None /\ d.h = Current),
         d.pc \notin InWrite \cup {"open"},
         d.o \in {call[t].o, None} \/ fh[d.o] # None \/ Unused(d.o)
  PROVE  RecordInv'
<1>1. call'[t] = d /\ \A u \in Threads \ {t} : call'[u] = call[u]  BY CallsAfter
<1>2. rec' = rec /\ ver' = ver /\ want' = want /\ raced' = raced /\ fh' = fh  BY DEF record
<1>3. d.h # None => d.h.seen <= ver /\ (d.h.seen = ver => d.h.copy = rec)
  BY DEF RecordInv, FreshCopies, Current, WeakTypeOK
<1>4. FreshCopies'  BY <1>1, <1>2, <1>3 DEF RecordInv, FreshCopies
<1>5. WritesAlone'  BY <1>1, <1>2 DEF RecordInv, WritesAlone, InWrite
<1>6. OpensAlone'
  <2>1. ASSUME NEW u \in Threads \ {t}, call[u].pc = "open"  PROVE d.o # call[u].o
    <3>1. call[u].o \in Opens /\ fh[call[u].o] = None /\ call[t].o # call[u].o
      BY <2>1 DEF RecordInv, OpensAlone, WeakTypeOK, CallShape
    <3> QED  BY <2>1, <3>1, HandleAssumption DEF Unused
  <2> QED  BY <1>1, <1>2, <2>1 DEF RecordInv, OpensAlone
<1>7. AttrsKept'  BY <1>2 DEF RecordInv, AttrsKept
<1> QED  BY <1>4, <1>5, <1>6, <1>7 DEF RecordInv

\* A step that changes the record, and which the handles of others have not
\* seen; the files stay as they are, except that a call knows of its own put.
LEMMA PutStep ==
  ASSUME WeakTypeOK, RecordInv, NEW t \in Threads, NEW d \in Calls, Goes(t, d),
         ver' = ver + 1, raced' = raced, AttrsKept', rec' \in Attrs \cup {None},
         \/ fh' = fh
         \/ /\ call[t].o \in Opens /\ fh[call[t].o] # None /\ rec' = fh[call[t].o].copy
            /\ rec' \in Attrs
            /\ fh' = [fh EXCEPT ![call[t].o] = [copy |-> rec', seen |-> ver + 1]],
         d.h = None \/ d.h = [copy |-> rec', seen |-> ver + 1],
         d.pc \notin InWrite,
         d.o \in {call[t].o, None} \/ Unused(d.o),
         d.pc = "open" => d.o \in Opens /\ Unused(d.o) /\ fh' = fh
  PROVE  RecordInv'
<1>1. call'[t] = d /\ \A u \in Threads \ {t} : call'[u] = call[u]  BY CallsAfter
<1>2. ver \in Nat /\ fh \in [Opens -> Handle \cup {None}]  BY DEF WeakTypeOK
<1>3. \A u \in Threads : call[u].h # None => call[u].h.seen \in Nat
  BY DEF WeakTypeOK, Calls, Handle
<1>4. \A o \in Opens : fh[o] # None => fh[o].seen \in Nat /\ fh[o].copy \in Attrs
  BY <1>2 DEF Handle
<1>5. \A o \in Opens : fh'[o] = fh[o]
                       \/ (fh[o] # None /\ fh'[o] = [copy |-> rec', seen |-> ver + 1]
                           /\ fh[o].copy = rec' /\ rec' \in Attrs)
  BY <1>2
<1>6. \A u \in Threads : call'[u].h # None =>
        call'[u].h.seen <= ver' /\ (call'[u].h.seen = ver' => call'[u].h.copy = rec')
  BY <1>1, <1>2, <1>3 DEF RecordInv, FreshCopies
<1>7. ASSUME NEW o \in Opens, fh'[o] # None
      PROVE  /\ fh'[o].seen <= ver'
             /\ fh'[o].seen = ver' =>
                  rec' # None /\ SameButSize(fh'[o].copy, rec') /\ (~raced' => fh'[o].copy.size >= rec'.size)
  <2>1. CASE fh'[o] = fh[o]  BY <1>2, <1>4, <1>7, <2>1 DEF RecordInv, FreshCopies
  <2>2. CASE fh'[o] = [copy |-> rec', seen |-> ver + 1] /\ rec' \in Attrs
    BY <1>2, <2>2, SameReflexive, NoneAssumption DEF Attrs
  <2> QED  BY <1>5, <2>1, <2>2
<1>8. FreshCopies'  BY <1>6, <1>7 DEF FreshCopies
<1>9. \A o \in Opens : fh[o] # None => fh'[o] # None /\ fh'[o].copy = fh[o].copy
  <2>1. rec' \in Attrs => [copy |-> rec', seen |-> ver + 1] \in Handle  BY <1>2 DEF Handle
  <2> QED  BY <1>5, <2>1, HandleAssumption
<1>10. WritesAlone'
  <2>1. \A u \in Threads : call[u].pc \in InWrite => call[u].o \in Opens /\ fh[call[u].o] # None
    BY InWriteType
  <2> QED  BY <1>1, <1>9, <2>1 DEF RecordInv, WritesAlone, InWrite
<1>11. OpensAlone'
  <2>1. ASSUME NEW u \in Threads \ {t}, call[u].pc = "open"
        PROVE  d.o # call[u].o /\ fh'[call[u].o] = None
    <3>1. call[u].o \in Opens /\ fh[call[u].o] = None /\ call[t].o # call[u].o
      BY <2>1 DEF RecordInv, OpensAlone, WeakTypeOK, CallShape
    <3>2. fh'[call[u].o] = None  BY <1>5, <3>1
    <3> QED  BY <2>1, <3>1, <3>2, HandleAssumption DEF Unused
  <2>2. ASSUME d.pc = "open"
        PROVE  fh'[d.o] = None /\ \A u \in Threads \ {t} : call[u].o # d.o
    BY <2>2 DEF Unused
  <2> QED  BY <1>1, <2>1, <2>2 DEF RecordInv, OpensAlone
<1> QED  BY <1>8, <1>10, <1>11 DEF RecordInv

\* A put through a handle keeps the record what it is meant to be, if the
\* change does.
LEMMA OwnPutKept ==
  ASSUME WeakTypeOK, RecordInv, NEW t \in Threads, call[t].pc \in OwnHandle,
         NEW copy \in Attrs, NEW new,
         want \in Attrs /\ SameButSize(call[t].h.copy, want)
           /\ (~raced => call[t].h.copy.size >= want.size) =>
             new \in Attrs /\ SameButSize(copy, new) /\ (~raced => copy.size >= new.size),
         Put(copy, call[t].h.seen, new), raced' = raced
  PROVE  AttrsKept' /\ ver' = ver + 1 /\ rec' = copy
<1>1. rec' = copy /\ ver' = ver + 1 /\ copy # None  BY NoneAssumption DEF Put
<1>2. call[t].h # None  BY OwnHandleType, HandleAssumption
<1>3. CASE call[t].h.seen = ver
  <2>1. call[t].h.copy = rec /\ rec \in Attrs  BY <1>2, <1>3, OwnHandleType DEF RecordInv, FreshCopies
  <2>2. want \in Attrs /\ SameButSize(rec, want) /\ (~raced => rec.size >= want.size)
    BY <2>1, NoneAssumption DEF RecordInv, AttrsKept, WeakTypeOK
  <2>3. want' = new  BY <1>3 DEF Put
  <2> QED  BY <1>1, <2>1, <2>2, <2>3, NoneAssumption DEF AttrsKept
<1>4. CASE call[t].h.seen # ver
  <2>1. want' = copy  BY <1>4 DEF Put
  <2>2. copy.size >= copy.size  BY DEF Attrs
  <2> QED  BY <1>1, <2>1, <2>2, SameReflexive DEF AttrsKept
<1> QED  BY <1>1, <1>3, <1>4

\* How a call that returns stands to the invariant.
LEMMA ReturnedCall ==
  ASSUME NEW c \in Calls, NEW res \in {"ok", "error", "positive"}
  PROVE  LET d == [c EXCEPT !.pc = "return", !.res = res, !.h = None]
         IN  d \in Calls /\ d.h = None /\ d.pc = "return" /\ d.o = c.o
BY DEF Calls

\* A return with nothing else.
LEMMA QuietReturn ==
  ASSUME WeakTypeOK, RecordInv, NEW t \in Threads, NEW c \in Calls,
         NEW res \in {"ok", "error", "positive"}, Returns(t, c, res), UNCHANGED <<record, raced, fh>>,
         c.o \in {call[t].o, None} \/ fh[c.o] # None \/ Unused(c.o)
  PROVE  RecordInv'
<1> DEFINE d == [c EXCEPT !.pc = "return", !.res = res, !.h = None]
<1>1. d \in Calls /\ d.h = None /\ d.pc = "return" /\ d.o = c.o  BY ReturnedCall
<1>2. Goes(t, d) /\ d.pc \notin InWrite \cup {"open"}  BY <1>1 DEF Returns, InWrite
<1> HIDE DEF d
<1> QED  BY <1>1, <1>2, QuietStep

\* A put through an own handle, and a return.
LEMMA PutReturn ==
  ASSUME WeakTypeOK, RecordInv, NEW t \in Threads, NEW c \in Calls, c.o = call[t].o,
         NEW res \in {"ok", "error", "positive"}, Returns(t, c, res),
         ver' = ver + 1, raced' = raced, AttrsKept', rec' \in Attrs \cup {None}, fh' = fh
  PROVE  RecordInv'
<1> DEFINE d == [c EXCEPT !.pc = "return", !.res = res, !.h = None]
<1>1. d \in Calls /\ d.h = None /\ d.pc = "return" /\ d.o = c.o  BY ReturnedCall
<1>2. Goes(t, d) /\ d.pc \notin InWrite \cup {"open"}  BY <1>1 DEF Returns, InWrite
<1> HIDE DEF d
<1> QED  BY <1>1, <1>2, PutStep

\* chmod, chown
LEMMA SetOwnershipRecord ==
  ASSUME WeakTypeOK, RecordInv, NEW t \in Threads, NEW op, NEW field \in Fields,
         NEW copy \in Attrs, NEW new,
         want \in Attrs /\ SameButSize(call[t].h.copy, want)
           /\ (~raced => call[t].h.copy.size >= want.size) =>
             new \in Attrs /\ SameButSize(copy, new) /\ (~raced => copy.size >= new.size),
         SetOwnership(t, op, field, copy, new)
  PROVE  RecordInv'
<1> DEFINE c == call[t]
           d == [c EXCEPT !.did = {field}]
<1>1. c \in Calls /\ d \in Calls /\ d.o = c.o /\ c.pc \in OwnHandle
  BY DEF WeakTypeOK, SetOwnership, At, OwnHandle, Calls
<1>2. raced' = raced /\ fh' = fh  BY DEF SetOwnership
<1>3. CASE NoPut /\ Returns(t, c, "ok")
  <2>1. UNCHANGED <<record, raced, fh>>  BY <1>2, <1>3 DEF NoPut
  <2> QED  BY <1>1, <1>3, <2>1, QuietReturn
<1>4. CASE Put(copy, call[t].h.seen, new) /\ Returns(t, d, "ok")
  <2>1. AttrsKept' /\ ver' = ver + 1 /\ rec' = copy  BY <1>1, <1>2, <1>4, OwnPutKept
  <2> HIDE DEF d
  <2> QED  BY <1>1, <1>2, <1>4, <2>1, PutReturn
<1> QED  BY <1>3, <1>4 DEF SetOwnership

\* The second time of utime, truncate
LEMMA LastPutRecord ==
  ASSUME WeakTypeOK, RecordInv, NEW t \in Threads, NEW field \in Fields, call[t].pc \in OwnHandle,
         NEW copy \in Attrs, NEW new,
         want \in Attrs /\ SameButSize(call[t].h.copy, want)
           /\ (~raced => call[t].h.copy.size >= want.size) =>
             new \in Attrs /\ SameButSize(copy, new) /\ (~raced => copy.size >= new.size),
         LastPut(t, field, copy, new)
  PROVE  RecordInv'
<1> DEFINE c == call[t]
           d == [c EXCEPT !.did = @ \cup {field}]
<1>1. c \in Calls /\ d \in Calls /\ d.o = c.o  BY DEF WeakTypeOK, Calls
<1>2. raced' = raced /\ fh' = fh  BY DEF LastPut
<1>3. CASE NoPut /\ Returns(t, c, "error")
  <2>1. UNCHANGED <<record, raced, fh>>  BY <1>2, <1>3 DEF NoPut
  <2> QED  BY <1>1, <1>3, <2>1, QuietReturn
<1>4. CASE Put(copy, call[t].h.seen, new) /\ Returns(t, d, "ok")
  <2>1. AttrsKept' /\ ver' = ver + 1 /\ rec' = copy  BY <1>2, <1>4, OwnPutKept
  <2> HIDE DEF d
  <2> QED  BY <1>1, <1>2, <1>4, <2>1, PutReturn
<1> QED  BY <1>3, <1>4 DEF LastPut

\* The first time of utime
LEMMA UtimeFirstRecord ==
  ASSUME WeakTypeOK, RecordInv, NEW t \in Threads, UtimeFirst(t)
  PROVE  RecordInv'
<1> DEFINE c == call[t]
           changed == SetMtime(c.h.copy, c.v)
           d == [c EXCEPT !.pc = "set2", !.did = {"mtime"}, !.h = [copy |-> changed, seen |-> ver + 1]]
<1>1. c \in Calls /\ c.pc \in OwnHandle /\ c.h.copy \in Attrs /\ c.v \in Nat
  BY OwnHandleType DEF WeakTypeOK, UtimeFirst, At, OwnHandle
<1>2. raced' = raced /\ fh' = fh  BY DEF UtimeFirst
<1>3. changed \in Attrs  BY <1>1, Setters
<1>4. want \in Attrs /\ SameButSize(c.h.copy, want) /\ (~raced => c.h.copy.size >= want.size) =>
        /\ SetMtime(want, c.v) \in Attrs /\ SameButSize(changed, SetMtime(want, c.v))
        /\ ~raced => changed.size >= SetMtime(want, c.v).size
  BY <1>1, Setters, SettersKeep, SetterSizes
<1>5. CASE NoPut /\ Returns(t, c, "error")
  <2>1. UNCHANGED <<record, raced, fh>>  BY <1>2, <1>5 DEF NoPut
  <2> QED  BY <1>1, <1>5, <2>1, QuietReturn
<1>6. CASE Put(changed, c.h.seen, SetMtime(want, c.v)) /\ Goes(t, d)
  <2>1. call[t].pc \in OwnHandle /\ Put(changed, call[t].h.seen, SetMtime(want, c.v))
    BY <1>1, <1>6
  <2>2. AttrsKept' /\ ver' = ver + 1 /\ rec' = changed
    <3> HIDE DEF changed
    <3> QED  BY <1>2, <1>3, <1>4, <2>1, OwnPutKept
  <2>3. d \in Calls /\ d.o = c.o /\ d.pc = "set2" /\ d.h = [copy |-> changed, seen |-> ver + 1]
    <3>1. [copy |-> changed, seen |-> ver + 1] \in Handle  BY <1>3 DEF Handle, WeakTypeOK
    <3> HIDE DEF changed
    <3> QED  BY <1>1, <3>1 DEF Calls, OwnHandle, Fields
  <2>4. d.pc \notin InWrite /\ d.pc # "open"  BY <2>3 DEF InWrite
  <2> HIDE DEF changed, d
  <2> QED  BY <1>2, <1>3, <1>6, <2>2, <2>3, <2>4, PutStep
<1> QED  BY <1>5, <1>6 DEF UtimeFirst

\* An open file whose call returns.
LEMMA StreamOpenRecord ==
  ASSUME WeakTypeOK, RecordInv, NEW t \in Threads, NEW c \in Calls, c.o \in Opens, StreamOpen(t, c),
         \/ Unused(c.o)
         \/ call[t].pc = "open" /\ c = call[t]
  PROVE  RecordInv'
<1>1. UNCHANGED <<record, raced>>  BY DEF StreamOpen
<1>2. CASE Returns(t, c, "error") /\ fh' = fh
  BY <1>1, <1>2, QuietReturn
<1>3. CASE rec # None /\ fh' = [fh EXCEPT ![c.o] = Current] /\ Returns(t, c, "ok")
  <2> DEFINE d == [c EXCEPT !.pc = "return", !.res = "ok", !.h = None]
  <2>1. d \in Calls /\ d.h = None /\ d.pc = "return" /\ d.o = c.o  BY ReturnedCall
  <2>2. Goes(t, d)  BY <1>3 DEF Returns
  <2> HIDE DEF d
  <2>3. call'[t] = d /\ \A u \in Threads \ {t} : call'[u] = call[u]  BY <2>1, <2>2, CallsAfter
  <2>4. rec' = rec /\ ver' = ver /\ want' = want /\ raced' = raced  BY <1>1 DEF record
  <2>5. fh[c.o] = None /\ \A u \in Threads \ {t} : call[u].o # c.o
    BY DEF Unused, RecordInv, OpensAlone
  <2>6. /\ fh'[c.o] = [copy |-> rec, seen |-> ver]
        /\ \A o \in Opens \ {c.o} : fh'[o] = fh[o]
    BY <1>3 DEF Current, WeakTypeOK
  <2>7. rec \in Attrs /\ rec.size \in Nat /\ ver \in Nat  BY <1>3 DEF WeakTypeOK, Attrs
  <2>8. FreshCopies'
    <3>1. \A u \in Threads : call'[u].h # None =>
            call'[u].h.seen <= ver' /\ (call'[u].h.seen = ver' => call'[u].h.copy = rec')
      BY <2>1, <2>3, <2>4 DEF RecordInv, FreshCopies
    <3>2. ASSUME NEW o \in Opens, fh'[o] # None
          PROVE  /\ fh'[o].seen <= ver'
                 /\ fh'[o].seen = ver' =>
                      rec' # None /\ SameButSize(fh'[o].copy, rec')
                      /\ (~raced' => fh'[o].copy.size >= rec'.size)
      <4>1. CASE o = c.o  BY <1>3, <2>4, <2>6, <2>7, <4>1, SameReflexive
      <4>2. CASE o # c.o  BY <2>4, <2>6, <3>2, <4>2 DEF RecordInv, FreshCopies
      <4> QED  BY <4>1, <4>2
    <3> QED  BY <3>1, <3>2 DEF FreshCopies
  <2>9. WritesAlone'
    <3>1. \A u \in Threads \ {t} : call[u].pc \in InWrite => call[u].o \in Opens \ {c.o}
      BY <2>5, InWriteType
    <3> QED  BY <2>1, <2>3, <2>4, <2>6, <3>1 DEF RecordInv, WritesAlone, InWrite
  <2>10. OpensAlone'
    <3>1. \A u \in Threads \ {t} : call[u].pc = "open" => call[u].o \in Opens \ {c.o}
      BY <2>5 DEF WeakTypeOK, CallShape
    <3> QED  BY <2>1, <2>3, <2>5, <2>6, <3>1 DEF RecordInv, OpensAlone
  <2>11. AttrsKept'  BY <2>4 DEF RecordInv, AttrsKept
  <2> QED  BY <2>8, <2>9, <2>10, <2>11 DEF RecordInv
<1> QED  BY <1>2, <1>3 DEF StreamOpen

\* create and mkdir
LEMMA CreateRecord ==
  ASSUME WeakTypeOK, RecordInv, NEW t \in Threads, NEW op \in {"create", "mkdir"}, NEW type \in Types,
         NEW mode \in Nat, NEW c \in Calls, c.h = None, c.o = None \/ Unused(c.o),
         op = "create" => c.o \in Opens /\ Unused(c.o),
         Create(t, op, type, mode, c)
  PROVE  RecordInv'
<1> DEFINE e == [c EXCEPT !.op = op]
           d == [c EXCEPT !.op = op, !.did = {"entry"}]
<1>1. e \in Calls /\ d \in Calls /\ d.h = None /\ d.o = c.o /\ e.o = c.o
  BY DEF Calls, Ops, AttrOps, Fields
<1>2. raced' = raced /\ fh' = fh  BY DEF Create
<1>3. CASE NoPut /\ Returns(t, e, "error")
  <2>1. UNCHANGED <<record, raced, fh>>  BY <1>2, <1>3 DEF NoPut
  <2> HIDE DEF e, d
  <2> QED  BY <1>1, <1>3, <2>1, QuietReturn
<1>4. ASSUME PutNew(type, mode),
             \/ op = "create" /\ Goes(t, [d EXCEPT !.pc = "open"])
             \/ op = "mkdir" /\ Returns(t, d, "ok")
      PROVE  RecordInv'
  <2>1. ver' = ver + 1 /\ rec' = NewAttrs(type, mode) /\ want' = rec'  BY <1>4 DEF PutNew
  <2>2. rec' \in Attrs  BY <2>1, NewType
  <2>3. AttrsKept'  BY <2>1, <2>2, SameReflexive DEF AttrsKept, Attrs
  <2>4. PICK f \in Calls : /\ Goes(t, f) /\ f.h = None /\ f.o = c.o /\ f.pc \notin InWrite
                           /\ f.pc = "open" => op = "create"
    <3>1. CASE op = "create" /\ Goes(t, [d EXCEPT !.pc = "open"])
      <4> DEFINE f == [d EXCEPT !.pc = "open"]
      <4> HIDE DEF d
      <4>1. f \in Calls /\ f.h = None /\ f.o = c.o /\ f.pc = "open"  BY <1>1 DEF Calls
      <4> QED  BY <3>1, <4>1 DEF InWrite
    <3>2. CASE op = "mkdir" /\ Returns(t, d, "ok")
      <4> DEFINE f == [d EXCEPT !.pc = "return", !.res = "ok", !.h = None]
      <4> HIDE DEF d
      <4>1. f \in Calls /\ f.h = None /\ f.o = c.o /\ f.pc = "return"  BY <1>1, ReturnedCall
      <4> QED  BY <3>2, <4>1 DEF InWrite, Returns
    <3> QED  BY <1>4, <3>1, <3>2
  <2> HIDE DEF d, e
  <2> QED  BY <1>2, <2>1, <2>2, <2>3, <2>4, PutStep
<1>5. \/ NoPut /\ Returns(t, e, "error")
      \/ PutNew(type, mode) /\ op = "create" /\ Goes(t, [d EXCEPT !.pc = "open"])
      \/ PutNew(type, mode) /\ op = "mkdir" /\ Returns(t, d, "ok")
  BY DEF Create
<1> QED  BY <1>3, <1>4, <1>5

\* A release closes a file that no call uses.
LEMMA ReleaseRecord ==
  ASSUME WeakTypeOK, RecordInv, NEW t \in Threads, NEW o \in Opens, Release(t, o)
  PROVE  RecordInv'
<1> DEFINE c == [Idle EXCEPT !.op = "release"]
           d == [c EXCEPT !.pc = "return", !.res = "ok", !.h = None]
<1>1. c \in Calls /\ c.o = None  BY IdleType DEF Calls, Ops, Idle
<1>2. d \in Calls /\ d.h = None /\ d.pc = "return" /\ d.o = None
  <2> HIDE DEF c
  <2> QED  BY <1>1, ReturnedCall
<1>3. Goes(t, d)  BY DEF Returns, Release
<1> HIDE DEF c, d
<1>4. call'[t] = d /\ \A u \in Threads \ {t} : call'[u] = call[u]  BY <1>2, <1>3, CallsAfter
<1>5. rec' = rec /\ ver' = ver /\ want' = want /\ raced' = raced  BY DEF Release, record
<1>6. fh' = [fh EXCEPT ![o] = None] /\ \A u \in Threads : call[u].o # o  BY DEF Release
<1>7. fh'[o] = None /\ \A p \in Opens \ {o} : fh'[p] = fh[p]  BY <1>6 DEF WeakTypeOK
<1>8. FreshCopies'  BY <1>2, <1>4, <1>5, <1>7 DEF RecordInv, FreshCopies
<1>9. WritesAlone'
  <2>1. \A u \in Threads : call[u].pc \in InWrite => call[u].o \in Opens \ {o}
    BY <1>6, InWriteType
  <2> QED  BY <1>2, <1>4, <1>5, <1>7, <2>1 DEF RecordInv, WritesAlone, InWrite
<1>10. OpensAlone'
  <2>1. \A u \in Threads : call[u].pc = "open" => call[u].o \in Opens \ {o}
    BY <1>6 DEF WeakTypeOK, CallShape
  <2> QED  BY <1>2, <1>4, <1>7, <2>1, HandleAssumption DEF RecordInv, OpensAlone
<1>11. AttrsKept'  BY <1>5 DEF RecordInv, AttrsKept
<1> QED  BY <1>8, <1>9, <1>10, <1>11 DEF RecordInv

\* A write has put its blocks.
LEMMA WriteBeginRecord ==
  ASSUME WeakTypeOK, RecordInv, NEW t \in Threads, NEW o \in Opens, NEW end \in Nat,
         WriteBegin(t, o, end)
  PROVE  RecordInv'
<1> DEFINE c == [Idle EXCEPT !.op = "write", !.o = o, !.v = end]
           longer == Extends(fh[o].copy, end)
           pc == IF longer THEN "wset" ELSE "wattr"
           d == [c EXCEPT !.pc = pc]
<1>1. c \in Calls /\ c.h = None /\ c.o = o /\ c.v = end  BY IdleType DEF Calls, Idle, Ops
<1>2. UNCHANGED <<record, fh>> /\ fh[o] # None  BY DEF WriteBegin
<1>3. CASE Returns(t, c, "error") /\ raced' = raced
  <2>1. fh[c.o] # None  BY <1>1, <1>2
  <2> HIDE DEF c
  <2> QED  BY <1>1, <1>2, <1>3, <2>1, QuietReturn
<1>4. CASE /\ Goes(t, d)
           /\ raced' = (raced \/ (longer /\ \E u \in Threads : call[u].pc = "wset" /\ call[u].o = o))
  <2>1. d \in Calls /\ d.h = None /\ d.o = o /\ d.v = end /\ d.pc = pc
    <3>1. pc \in {"wset", "wattr"}  OBVIOUS
    <3> HIDE DEF c, pc
    <3> QED  BY <1>1, <3>1 DEF Calls, InWrite
  <2>2. longer <=> fh[o].copy.size < end  BY DEF Extends
  <2>3. fh[o].copy.size \in Nat /\ raced \in BOOLEAN
    BY <1>2 DEF WeakTypeOK, Handle, Attrs
  <2>4. (pc = "wset" /\ longer) \/ (pc = "wattr" /\ ~longer)  OBVIOUS
  <2>5. ~raced' => ~raced /\ (longer => \A u \in Threads : call[u].pc = "wset" => call[u].o # o)
    BY <1>4, <2>3
  <2>6. Goes(t, d)  BY <1>4
  <2> HIDE DEF c, d, longer, pc
  <2>7. call'[t] = d /\ \A u \in Threads \ {t} : call'[u] = call[u]  BY <2>6, CallsAfter
  <2>8. rec' = rec /\ ver' = ver /\ want' = want /\ fh' = fh  BY <1>2 DEF record
  <2>9. FreshCopies'  BY <2>1, <2>5, <2>7, <2>8 DEF RecordInv, FreshCopies
  <2>10. WritesAlone'
    <3> SUFFICES ASSUME ~raced'  PROVE WritesAlone'  BY DEF WritesAlone
    <3>1. ~raced /\ (longer => \A u \in Threads : call[u].pc = "wset" => call[u].o # o)  BY <2>5
    <3>2. \A u \in Threads : call'[u].pc = "wset" => fh'[call'[u].o].copy.size < call'[u].v
      BY <2>1, <2>2, <2>4, <2>7, <2>8, <3>1 DEF RecordInv, WritesAlone
    <3>3. \A u \in Threads : call'[u].pc = "wattr" => fh'[call'[u].o].copy.size >= call'[u].v
      BY <2>1, <2>2, <2>3, <2>4, <2>7, <2>8, <3>1 DEF RecordInv, WritesAlone
    <3>4. \A u, w \in Threads :
            call'[u].pc = "wset" /\ call'[w].pc = "wset" /\ call'[u].o = call'[w].o => u = w
      BY <2>1, <2>4, <2>7, <3>1 DEF RecordInv, WritesAlone
    <3> QED  BY <3>2, <3>3, <3>4 DEF WritesAlone
  <2>11. OpensAlone'
    <3>1. \A u \in Threads : call[u].pc = "open" => call[u].o # o  BY <1>2 DEF RecordInv, OpensAlone
    <3> QED  BY <2>1, <2>4, <2>7, <2>8, <3>1 DEF RecordInv, OpensAlone
  <2>12. AttrsKept'  BY <2>5, <2>8 DEF RecordInv, AttrsKept
  <2> QED  BY <2>9, <2>10, <2>11, <2>12 DEF RecordInv
<1> QED  BY <1>3, <1>4 DEF WriteBegin

\* The size in an open file only grows here, and only under one call unless
\* two raced.
LEMMA WriteSetRecord ==
  ASSUME WeakTypeOK, RecordInv, NEW t \in Threads, WriteSet(t)
  PROVE  RecordInv'
<1> DEFINE c == call[t]
           h == fh[c.o]
           d == [c EXCEPT !.pc = "wattr"]
<1>1. /\ c \in Calls /\ c.h = None /\ c.o \in Opens /\ c.v \in Nat /\ c.pc = "wset"
      /\ h \in Handle /\ h # None /\ h.copy \in Attrs /\ h.seen \in Nat
  BY InWriteType DEF WriteSet, At, InWrite
<1>2. d.pc = "wattr" /\ d.h = None /\ d.o = c.o /\ d.v = c.v  BY <1>1 DEF Calls
<1>3. Goes(t, d)  BY DEF WriteSet
<1>4. fh' = [fh EXCEPT ![c.o] = [copy |-> SetSize(h.copy, c.v), seen |-> h.seen]]
  BY WriteSetType
<1>5. rec' = rec /\ ver' = ver /\ want' = want /\ raced' = raced  BY DEF WriteSet, record
<1>6. SetSize(h.copy, c.v) \in Attrs /\ SetSize(h.copy, c.v).size = c.v /\ h.copy.size \in Nat
  BY <1>1, Setters, SetterSizes DEF Attrs
<1>7. fh'[c.o] = [copy |-> SetSize(h.copy, c.v), seen |-> h.seen]
      /\ \A o \in Opens \ {c.o} : fh'[o] = fh[o]
  BY <1>1, <1>4 DEF WeakTypeOK
<1>8. ~raced => h.copy.size < c.v  BY <1>1 DEF RecordInv, WritesAlone
<1>9. call'[t] = d /\ \A u \in Threads \ {t} : call'[u] = call[u]
  <2> HIDE DEF d
  <2> QED  BY <1>3, CallsAfter
<1>10. FreshCopies'
  <2>1. \A u \in Threads : call'[u].h # None =>
          call'[u].h.seen <= ver' /\ (call'[u].h.seen = ver' => call'[u].h.copy = rec')
    BY <1>2, <1>5, <1>9 DEF RecordInv, FreshCopies
  <2>2. ASSUME NEW o \in Opens, fh'[o] # None
        PROVE  /\ fh'[o].seen <= ver'
               /\ fh'[o].seen = ver' =>
                    rec' # None /\ SameButSize(fh'[o].copy, rec')
                    /\ (~raced' => fh'[o].copy.size >= rec'.size)
    <3>1. CASE o # c.o  BY <1>5, <1>7, <2>2, <3>1 DEF RecordInv, FreshCopies
    <3>2. CASE o = c.o
      <4>1. h.seen <= ver /\ (h.seen = ver => rec # None /\ SameButSize(h.copy, rec)
                                             /\ (~raced => h.copy.size >= rec.size))
        BY <1>1 DEF RecordInv, FreshCopies
      <4>2. h.seen = ver => rec \in Attrs /\ rec.size \in Nat  BY <4>1 DEF WeakTypeOK, Attrs
      <4>3. h.seen = ver => SameButSize(SetSize(h.copy, c.v), rec)
        BY <1>1, <4>1, <4>2, SettersKeep
      <4>4. fh'[o].seen = h.seen /\ fh'[o].copy = SetSize(h.copy, c.v)  BY <1>7, <3>2
      <4> HIDE DEF c, h
      <4> QED  BY <1>1, <1>5, <1>6, <1>8, <4>1, <4>2, <4>3, <4>4
    <3> QED  BY <3>1, <3>2
  <2> QED  BY <2>1, <2>2 DEF FreshCopies
<1>11. WritesAlone'
  <2> SUFFICES ASSUME ~raced  PROVE WritesAlone'  BY <1>5 DEF WritesAlone
  <2>1. \A u \in Threads : call[u].pc \in InWrite =>
          call[u].o \in Opens /\ fh[call[u].o].copy.size \in Nat /\ call[u].v \in Nat
    BY InWriteType DEF Attrs
  <2>2. fh'[c.o].copy.size = c.v  BY <1>6, <1>7
  <2>3. \A u \in Threads \ {t} : call[u].pc = "wset" => call[u].o # c.o
    BY <1>1 DEF RecordInv, WritesAlone
  <2>4. ASSUME NEW u \in Threads, call'[u].pc = "wset"
        PROVE  u # t /\ call'[u] = call[u] /\ fh'[call'[u].o].copy.size < call'[u].v
    <3>1. u # t /\ call'[u] = call[u]  BY <1>2, <1>9, <2>4
    <3>2. fh'[call[u].o] = fh[call[u].o]  BY <1>7, <2>1, <2>3, <2>4, <3>1 DEF InWrite
    <3> QED  BY <2>4, <3>1, <3>2 DEF RecordInv, WritesAlone
  <2>5. ASSUME NEW u \in Threads, call'[u].pc = "wattr"
        PROVE  fh'[call'[u].o].copy.size >= call'[u].v
    <3>1. CASE u = t
      <4>1. call'[u].o = c.o /\ call'[u].v = c.v  BY <1>2, <1>9, <3>1
      <4> HIDE DEF c, h
      <4> QED  BY <1>1, <2>2, <4>1
    <3>2. CASE u # t
      <4>1. call'[u] = call[u] /\ call[u].pc \in InWrite  BY <1>9, <2>5, <3>2 DEF InWrite
      <4>2. fh[call[u].o].copy.size >= call[u].v  BY <2>5, <4>1 DEF RecordInv, WritesAlone
      <4>3. CASE call[u].o = c.o  BY <1>1, <1>6, <1>8, <2>1, <2>2, <4>1, <4>2, <4>3
      <4>4. CASE call[u].o # c.o  BY <1>7, <2>1, <4>1, <4>2, <4>4
      <4> QED  BY <4>3, <4>4
    <3> QED  BY <3>1, <3>2
  <2>6. \A u, w \in Threads :
          call'[u].pc = "wset" /\ call'[w].pc = "wset" /\ call'[u].o = call'[w].o => u = w
    BY <2>4 DEF RecordInv, WritesAlone
  <2> QED  BY <2>4, <2>5, <2>6 DEF WritesAlone
<1>12. OpensAlone'
  <2>1. \A u \in Threads : call[u].pc = "open" => call[u].o # c.o /\ call[u].o \in Opens
    BY <1>1 DEF RecordInv, OpensAlone, WeakTypeOK, CallShape
  <2>2. call'[t].pc = "wattr" /\ call'[t].o = c.o  BY <1>2, <1>9
  <2> HIDE DEF c, d, h
  <2>3. \A u \in Threads : call'[u].pc = "open" => u # t /\ call'[u] = call[u] /\ fh'[call[u].o] = fh[call[u].o]
    BY <1>7, <1>9, <2>1, <2>2
  <2>4. ASSUME NEW u \in Threads, call'[u].pc = "open", NEW w \in Threads \ {u}
        PROVE  fh'[call'[u].o] = None /\ call'[w].o # call'[u].o
    <3>1. call'[w].o = call[w].o  BY <1>9, <2>2, <2>4 DEF c
    <3> QED  BY <2>3, <2>4, <3>1 DEF RecordInv, OpensAlone
  <2>5. \A u \in Threads : call'[u].pc = "open" => fh'[call'[u].o] = None
    BY <2>3 DEF RecordInv, OpensAlone
  <2> QED  BY <2>4, <2>5 DEF OpensAlone
<1>13. AttrsKept'  BY <1>5 DEF RecordInv, AttrsKept
<1> QED  BY <1>10, <1>11, <1>12, <1>13 DEF RecordInv

\* The copy of an open file is stored.
LEMMA WriteAttrRecord ==
  ASSUME WeakTypeOK, RecordInv, NEW t \in Threads, WriteAttr(t)
  PROVE  RecordInv'
<1> DEFINE c == call[t]
           h == fh[c.o]
           d == [c EXCEPT !.did = {"size"}]
<1>1. /\ c \in Calls /\ c.h = None /\ c.o \in Opens /\ c.v \in Nat /\ c.pc = "wattr"
      /\ h \in Handle /\ h # None /\ h.copy \in Attrs /\ h.seen \in Nat
  BY InWriteType DEF WriteAttr, At, InWrite
<1>2. raced' = raced  BY DEF WriteAttr
<1>3. CASE NoPut /\ Returns(t, c, "error") /\ fh' = fh
  <2>1. UNCHANGED <<record, raced, fh>>  BY <1>2, <1>3 DEF NoPut
  <2> QED  BY <1>1, <1>3, <2>1, QuietReturn
<1>4. CASE /\ Put(h.copy, h.seen, Larger(want, c.v)) /\ Returns(t, d, "ok")
           /\ fh' = [fh EXCEPT ![c.o].seen = ver + 1]
  <2>1. rec' = h.copy /\ ver' = ver + 1  BY <1>4 DEF Put
  <2>2. fh' = [fh EXCEPT ![c.o] = [copy |-> rec', seen |-> ver + 1]]
    <3>1. [h EXCEPT !.seen = ver + 1] = [copy |-> h.copy, seen |-> ver + 1]  BY <1>1 DEF Handle
    <3> QED  BY <1>4, <2>1, <3>1
  <2>3. AttrsKept'
    <3>1. CASE h.seen = ver
      <4>1. rec \in Attrs /\ SameButSize(h.copy, rec) /\ (~raced => h.copy.size >= rec.size)
        BY <1>1, <3>1 DEF RecordInv, FreshCopies, WeakTypeOK
      <4>2. want \in Attrs /\ SameButSize(rec, want) /\ (~raced => rec.size >= want.size)
        BY <4>1, NoneAssumption DEF RecordInv, AttrsKept, WeakTypeOK
      <4>3. SameButSize(h.copy, want)  BY <1>1, <4>1, <4>2, SameFields
      <4>4. Larger(want, c.v) \in Attrs /\ SameButSize(h.copy, Larger(want, c.v))
            /\ Larger(want, c.v).size = IF want.size < c.v THEN c.v ELSE want.size
        BY <1>1, <4>2, <4>3, Setters, SettersKeep, SetterSizes
      <4>5. ~raced => h.copy.size >= c.v  BY <1>1 DEF RecordInv, WritesAlone
      <4>6. h.copy.size \in Nat /\ rec.size \in Nat /\ want.size \in Nat  BY <1>1, <4>1, <4>2 DEF Attrs
      <4>7. ~raced => h.copy.size >= Larger(want, c.v).size
        <5> HIDE DEF c, h
        <5> QED  BY <1>1, <4>1, <4>2, <4>4, <4>5, <4>6
      <4>8. want' = Larger(want, c.v)  BY <1>4, <3>1 DEF Put
      <4> HIDE DEF c, h
      <4> QED  BY <1>1, <1>2, <2>1, <4>4, <4>7, <4>8, NoneAssumption DEF AttrsKept
    <3>2. CASE h.seen # ver
      <4>1. want' = h.copy  BY <1>4, <3>2 DEF Put
      <4>2. h.copy.size >= h.copy.size  BY <1>1 DEF Attrs
      <4> QED  BY <1>1, <2>1, <4>1, <4>2, SameReflexive DEF AttrsKept
    <3> QED  BY <3>1, <3>2
  <2> DEFINE e == [d EXCEPT !.pc = "return", !.res = "ok", !.h = None]
  <2>4. d \in Calls /\ d.o = c.o  BY <1>1 DEF Calls, Fields
  <2>5. e \in Calls /\ e.h = None /\ e.pc = "return" /\ e.o = c.o
    <3> HIDE DEF d
    <3> QED  BY <2>4, ReturnedCall
  <2>6. Goes(t, e) /\ e.pc \notin InWrite /\ e.pc # "open"  BY <1>4, <2>5 DEF Returns, InWrite
  <2>7. call[t].o \in Opens /\ fh[call[t].o] # None /\ rec' = fh[call[t].o].copy /\ rec' \in Attrs
    BY <1>1, <2>1
  <2> HIDE DEF d, e
  <2> QED  BY <1>2, <2>1, <2>2, <2>3, <2>5, <2>6, <2>7, PutStep
<1> QED  BY <1>3, <1>4 DEF WriteAttr

\* A call that begins with a handle of its own, or ends before it has one.
LEMMA FirstHandleRecord ==
  ASSUME WeakTypeOK, RecordInv, NEW t \in Threads, NEW c \in Calls, c.o = None, c.h = None,
         NEW pc \in OwnHandle, UNCHANGED <<record, raced, fh>>,
         \/ Returns(t, c, "error")
         \/ rec # None /\ Goes(t, [c EXCEPT !.h = Current, !.pc = pc])
  PROVE  RecordInv'
<1>1. CASE Returns(t, c, "error")  BY <1>1, QuietReturn
<1>2. CASE rec # None /\ Goes(t, [c EXCEPT !.h = Current, !.pc = pc])
  <2> DEFINE d == [c EXCEPT !.h = Current, !.pc = pc]
  <2>1. d \in Calls /\ d.h = Current /\ d.pc = pc /\ d.o = None  BY <1>2, CurrentType DEF Calls
  <2>2. Goes(t, d) /\ pc \notin InWrite \cup {"open"}  BY <1>2 DEF OwnHandle, InWrite
  <2> HIDE DEF d
  <2> QED  BY <1>2, <2>1, <2>2, QuietStep
<1> QED  BY <1>1, <1>2

\* A record that is deleted, and a return.
LEMMA DelRecord ==
  ASSUME WeakTypeOK, RecordInv, NEW t \in Threads, NEW c \in Calls, c.o = call[t].o,
         NEW res \in {"ok", "error", "positive"}, Returns(t, c, res),
         Del, raced' = raced, fh' = fh
  PROVE  RecordInv'
<1>1. rec' = None /\ want' = None /\ ver' = ver + 1  BY DEF Del
<1>2. AttrsKept'  BY <1>1 DEF AttrsKept
<1> QED  BY <1>1, <1>2, PutReturn

\* A handler begins.
LEMMA BeginRecord ==
  ASSUME WeakTypeOK, RecordInv, NEW t \in Threads, Begin(t)
  PROVE  RecordInv'
<1>1. Idle \in Calls /\ Idle.h = None /\ Idle.o = None  BY IdleType DEF Idle
<1>2. ASSUME NEW op \in AttrOps, NEW v \in Nat, AttrOpen(t, op, v)  PROVE RecordInv'
  <2> DEFINE c == [Idle EXCEPT !.op = op, !.v = v]
             pc == IF op = "getattr" THEN "get" ELSE "set"
  <2>1. c \in Calls /\ c.o = None /\ c.h = None  BY <1>1 DEF Calls, Ops
  <2>2. UNCHANGED <<record, raced, fh>>  BY <1>2 DEF AttrOpen
  <2>3. \/ Returns(t, c, "error")
        \/ rec # None /\ Goes(t, [c EXCEPT !.h = Current, !.pc = pc])
    BY <1>2 DEF AttrOpen
  <2>4. pc \in OwnHandle  BY DEF OwnHandle
  <2> HIDE DEF c, pc
  <2> QED  BY <2>1, <2>2, <2>3, <2>4, FirstHandleRecord
<1>3. ASSUME NEW mode \in Modes, MakeDir(t, mode)  PROVE RecordInv'
  <2>1. mode \in Nat /\ "container" \in Types  BY BoundAssumption DEF Types
  <2> QED  BY <1>1, <1>3, <2>1, CreateRecord DEF MakeDir
<1>4. ASSUME NEW o \in Opens, Open(t, o)  PROVE RecordInv'
  <2> DEFINE c == [Idle EXCEPT !.op = "open", !.o = o]
  <2>1. c \in Calls /\ c.o = o  BY <1>1 DEF Calls, Ops, Idle
  <2>2. StreamOpen(t, c) /\ Unused(o)  BY <1>4 DEF Open
  <2> HIDE DEF c
  <2> QED  BY <2>1, <2>2, StreamOpenRecord
<1>5. ASSUME NEW o \in Opens, Release(t, o)  PROVE RecordInv'
  BY <1>5, ReleaseRecord
<1>6. ASSUME NEW o \in Opens, Read(t, o)  PROVE RecordInv'
  <2> DEFINE c == [Idle EXCEPT !.op = "read", !.o = o]
  <2>1. c \in Calls /\ c.o = o  BY <1>1 DEF Calls, Ops, Idle
  <2>2. PICK res \in {"ok", "error", "positive"} : Returns(t, c, res)  BY <1>6 DEF Read
  <2>3. UNCHANGED <<record, raced, fh>> /\ fh[o] # None  BY <1>6 DEF Read
  <2> HIDE DEF c
  <2> QED  BY <2>1, <2>2, <2>3, QuietReturn
<1>7. ASSUME NEW o \in Opens, EnvExit(t, o)  PROVE RecordInv'
  BY <1>7 DEF EnvExit, RecordInv, FreshCopies, WritesAlone, OpensAlone, AttrsKept, record
<1>8. ASSUME NEW o \in Opens, NEW mode \in Modes, CreateFile(t, o, mode)  PROVE RecordInv'
  <2> DEFINE c == [Idle EXCEPT !.o = o]
  <2>1. c \in Calls /\ c.h = None /\ c.o = o  BY <1>1 DEF Calls, Idle
  <2>2. Create(t, "create", "data", mode, c) /\ Unused(o)  BY <1>8 DEF CreateFile
  <2>3. mode \in Nat /\ "data" \in Types  BY BoundAssumption DEF Types
  <2> HIDE DEF c
  <2> QED  BY <2>1, <2>2, <2>3, CreateRecord
<1>9. ASSUME NEW o \in Opens, NEW end \in 0 .. MaxSize, WriteBegin(t, o, end)  PROVE RecordInv'
  BY <1>9, WriteBeginRecord
<1>10. CASE Remove(t)
  <2> DEFINE c == [Idle EXCEPT !.op = "remove"]
             pc == IF rec.type = "container" THEN "deld" ELSE IF rec.size = 0 THEN "spin" ELSE "dela"
  <2>1. c \in Calls /\ c.o = None /\ c.h = None  BY <1>1 DEF Calls, Ops
  <2>2. UNCHANGED <<record, raced, fh>>  BY <1>10 DEF Remove
  <2>3. \/ Returns(t, c, "error")
        \/ rec # None /\ Goes(t, [c EXCEPT !.h = Current, !.pc = pc])
    BY <1>10 DEF Remove
  <2>4. pc \in OwnHandle  BY DEF OwnHandle
  <2> HIDE DEF c, pc
  <2> QED  BY <2>1, <2>2, <2>3, <2>4, FirstHandleRecord
<1>11. \A v \in Modes : v \in Nat  BY BoundAssumption
<1>12. \A v \in 0 .. MaxSize : v \in Nat  OBVIOUS
<1>13. AttrOps \ {"truncate"} \subseteq AttrOps /\ "truncate" \in AttrOps  BY DEF AttrOps
<1> QED  BY <1>2, <1>3, <1>4, <1>5, <1>6, <1>7, <1>8, <1>9, <1>10, <1>11, <1>12, <1>13 DEF Begin

\* A handler goes on.
LEMMA ContinueRecord ==
  ASSUME WeakTypeOK, RecordInv, NEW t \in Threads, Continue(t)
  PROVE  RecordInv'
<1> DEFINE c == call[t]
<1>1. c \in Calls  BY DEF WeakTypeOK
<1>2. ASSUME c.pc \in OwnHandle
      PROVE  /\ c.h.copy \in Attrs /\ c.v \in Nat
             /\ Chmod(c.h.copy, c.v) \in Attrs /\ Chown(c.h.copy, c.v) \in Attrs
             /\ SetAtime(c.h.copy, c.v) \in Attrs /\ SetSize(c.h.copy, c.v) \in Attrs
  BY <1>2, OwnHandleType, Setters
<1>3. ASSUME c.pc \in OwnHandle, want \in Attrs, SameButSize(c.h.copy, want),
             ~raced => c.h.copy.size >= want.size
      PROVE  /\ Chmod(want, c.v) \in Attrs /\ SameButSize(Chmod(c.h.copy, c.v), Chmod(want, c.v))
             /\ ~raced => Chmod(c.h.copy, c.v).size >= Chmod(want, c.v).size
             /\ Chown(want, c.v) \in Attrs /\ SameButSize(Chown(c.h.copy, c.v), Chown(want, c.v))
             /\ ~raced => Chown(c.h.copy, c.v).size >= Chown(want, c.v).size
             /\ SetAtime(want, c.v) \in Attrs /\ SameButSize(SetAtime(c.h.copy, c.v), SetAtime(want, c.v))
             /\ ~raced => SetAtime(c.h.copy, c.v).size >= SetAtime(want, c.v).size
             /\ SetSize(want, c.v) \in Attrs /\ SameButSize(SetSize(c.h.copy, c.v), SetSize(want, c.v))
             /\ SetSize(c.h.copy, c.v).size >= SetSize(want, c.v).size
  <2>1. c.h.copy \in Attrs /\ c.v \in Nat  BY <1>2, <1>3
  <2>2. Chmod(want, c.v) \in Attrs /\ Chown(want, c.v) \in Attrs /\ SetAtime(want, c.v) \in Attrs
        /\ SetSize(want, c.v) \in Attrs
    BY <1>3, <2>1, Setters
  <2>3. /\ Chmod(c.h.copy, c.v).size = c.h.copy.size /\ Chmod(want, c.v).size = want.size
        /\ Chown(c.h.copy, c.v).size = c.h.copy.size /\ Chown(want, c.v).size = want.size
        /\ SetAtime(c.h.copy, c.v).size = c.h.copy.size /\ SetAtime(want, c.v).size = want.size
        /\ SetSize(c.h.copy, c.v).size = c.v /\ SetSize(want, c.v).size = c.v
    BY <1>3, <2>1, SetterSizes
  <2>4. /\ SameButSize(Chmod(c.h.copy, c.v), Chmod(want, c.v))
        /\ SameButSize(Chown(c.h.copy, c.v), Chown(want, c.v))
        /\ SameButSize(SetAtime(c.h.copy, c.v), SetAtime(want, c.v))
        /\ SameButSize(SetSize(c.h.copy, c.v), SetSize(want, c.v))
    BY <1>3, <2>1, SettersKeep
  <2> HIDE DEF c
  <2> QED  BY <1>3, <2>1, <2>2, <2>3, <2>4
<1>4. CASE GetAttr(t)
  <2>1. Returns(t, c, "ok") /\ UNCHANGED <<record, raced, fh>>  BY <1>4 DEF GetAttr
  <2> QED  BY <1>1, <2>1, QuietReturn
<1>5. CASE ChmodPut(t)
  <2>1. c.pc \in OwnHandle /\ "mode" \in Fields  BY <1>5 DEF ChmodPut, SetOwnership, At, OwnHandle, Fields
  <2>2. SetOwnership(t, "chmod", "mode", Chmod(c.h.copy, c.v), Chmod(want, c.v))  BY <1>5 DEF ChmodPut
  <2> QED  BY <1>2, <1>3, <2>1, <2>2, SetOwnershipRecord
<1>6. CASE ChownPut(t)
  <2>1. c.pc \in OwnHandle /\ "owner" \in Fields  BY <1>6 DEF ChownPut, SetOwnership, At, OwnHandle, Fields
  <2>2. SetOwnership(t, "chown", "owner", Chown(c.h.copy, c.v), Chown(want, c.v))  BY <1>6 DEF ChownPut
  <2> QED  BY <1>2, <1>3, <2>1, <2>2, SetOwnershipRecord
<1>7. CASE UtimeFirst(t)  BY <1>7, UtimeFirstRecord
<1>8. CASE UtimeSecond(t)
  <2>1. c.pc \in OwnHandle /\ "atime" \in Fields  BY <1>8 DEF UtimeSecond, At, OwnHandle, Fields
  <2>2. LastPut(t, "atime", SetAtime(c.h.copy, c.v), SetAtime(want, c.v))  BY <1>8 DEF UtimeSecond
  <2> QED  BY <1>2, <1>3, <2>1, <2>2, LastPutRecord
<1>9. CASE Truncate(t)
  <2>1. c.pc \in OwnHandle /\ "size" \in Fields  BY <1>9 DEF Truncate, At, OwnHandle, Fields
  <2>2. LastPut(t, "size", SetSize(c.h.copy, c.v), SetSize(want, c.v))  BY <1>9 DEF Truncate
  <2> QED  BY <1>2, <1>3, <2>1, <2>2, LastPutRecord
<1>10. CASE CreateOpen(t)
  <2>1. c.o \in Opens /\ c.pc = "open" /\ StreamOpen(t, c)
    BY <1>10 DEF CreateOpen, At, WeakTypeOK, CallShape
  <2> QED  BY <1>1, <2>1, StreamOpenRecord
<1>11. CASE RemoveFile(t)
  <2> DEFINE d == [c EXCEPT !.did = {"gone"}]
  <2>1. d \in Calls /\ d.o = c.o  BY <1>1 DEF Calls, Fields
  <2>2. (Del /\ Returns(t, d, "ok")) \/ (NoPut /\ Returns(t, c, "error"))  BY <1>11 DEF RemoveFile
  <2>3. raced' = raced /\ fh' = fh  BY <1>11 DEF RemoveFile
  <2> HIDE DEF d
  <2>4. CASE Del /\ Returns(t, d, "ok")  BY <2>1, <2>3, <2>4, DelRecord
  <2>5. CASE NoPut /\ Returns(t, c, "error")  BY <1>1, <2>3, <2>5, QuietReturn DEF NoPut
  <2> QED  BY <2>2, <2>4, <2>5
<1>12. CASE RemoveDir(t)
  <2> DEFINE r == [c EXCEPT !.op = "rmdir"]
             d == [r EXCEPT !.did = {"gone"}]
  <2>1. r \in Calls /\ r.o = c.o  BY <1>1 DEF Calls, Ops
  <2>2. d \in Calls /\ d.o = c.o
    <3> HIDE DEF r
    <3> QED  BY <2>1 DEF Calls, Fields
  <2>3. (Del /\ Returns(t, d, "ok")) \/ (NoPut /\ \E res \in {"ok", "error"} : Returns(t, r, res))
    BY <1>12 DEF RemoveDir
  <2>4. raced' = raced /\ fh' = fh  BY <1>12 DEF RemoveDir
  <2> HIDE DEF d, r
  <2>5. CASE Del /\ Returns(t, d, "ok")  BY <2>2, <2>4, <2>5, DelRecord
  <2>6. CASE NoPut /\ \E res \in {"ok", "error"} : Returns(t, r, res)
    BY <2>1, <2>4, <2>6, QuietReturn DEF NoPut
  <2> QED  BY <2>3, <2>5, <2>6
<1>13. CASE RemoveFail(t)
  <2>1. Returns(t, c, "error") /\ UNCHANGED <<record, raced, fh>>  BY <1>13 DEF RemoveFail
  <2> QED  BY <1>1, <2>1, QuietReturn
<1>14. CASE Return(t)
  <2>1. Goes(t, Idle) /\ UNCHANGED <<record, raced, fh>>  BY <1>14 DEF Return
  <2>2. Idle.h = None /\ Idle.o = None /\ Idle.pc \notin InWrite \cup {"open"}  BY DEF Idle, InWrite
  <2> QED  BY <2>1, <2>2, IdleType, QuietStep
<1>15. CASE DeldCursor(t)
  <2> DEFINE d == [c EXCEPT !.pc = "empty"]
  <2>1. d \in Calls /\ d.h = c.h /\ d.o = c.o /\ d.pc = "empty"  BY <1>1 DEF Calls, OwnHandle
  <2>2. UNCHANGED <<record, raced, fh>> /\ (Goes(t, d) \/ Returns(t, c, "error"))
    BY <1>15 DEF DeldCursor
  <2> HIDE DEF d
  <2>3. CASE Goes(t, d)  BY <2>1, <2>2, <2>3, QuietStep DEF InWrite
  <2>4. CASE Returns(t, c, "error")  BY <1>1, <2>2, <2>4, QuietReturn
  <2> QED  BY <2>2, <2>3, <2>4
<1> QED  BY <1>4, <1>5, <1>6, <1>7, <1>8, <1>9, <1>10, <1>11, <1>12, <1>13, <1>14, <1>15,
            WriteSetRecord, WriteAttrRecord DEF Continue

\* Every step keeps the record, its copies and their users in order.
LEMMA RecordStep ==
  ASSUME WeakTypeOK, RecordInv, [Next]_vars
  PROVE  RecordInv'
<1>1. CASE Mount \/ Unmount
  BY <1>1 DEF Mount, Unmount, RecordInv, FreshCopies, WritesAlone, OpensAlone, AttrsKept, record
<1>2. CASE UNCHANGED vars
  BY <1>2 DEF vars, RecordInv, FreshCopies, WritesAlone, OpensAlone, AttrsKept
<1> QED  BY <1>1, <1>2, BeginRecord, ContinueRecord DEF Next

\* The invariant holds when mangoofuse starts.
LEMMA RecordInit ==
  ASSUME Init
  PROVE  WeakTypeOK /\ RecordInv
<1>1. \A t \in Threads : call[t] = Idle  BY DEF Init
<1>2. Idle.h = None /\ Idle.pc = "idle" /\ Idle.pc \notin OwnHandle \cup InWrite \cup {"open"}
  BY DEF Idle, OwnHandle, InWrite
<1>3. WeakTypeOK
  <2>1. call \in [Threads -> Calls]  BY IdleType DEF Init
  <2>2. \A t \in Threads : CallShape(call[t])  BY <1>1, <1>2 DEF CallShape
  <2>3. mem \in WeakMemory /\ ends \in Ends
    BY DEF Init, NoMemory, WeakMemory, NoEnds, Ends
  <2> QED  BY <2>1, <2>2, <2>3 DEF Init, WeakTypeOK
<1>4. RecordInv
  BY <1>1, <1>2 DEF Init, RecordInv, FreshCopies, WritesAlone, OpensAlone, AttrsKept, InWrite
<1> QED  BY <1>3, <1>4

\* What callers set and answered writes extended stays so, whatever the threads
\* do at the same time, unless a handle was overtaken or two writes raced
\* (AttrsKept; attr.c:203, stream.c:200): for any threads, files and sizes.
THEOREM AttrsKeptTheorem == Spec => []AttrsKept
<1> DEFINE IInv == WeakTypeOK /\ RecordInv
<1>1. Init => IInv  BY RecordInit
<1>2. IInv /\ [Next]_vars => IInv'  BY TypeStep, RecordStep DEF RecordInv
<1>3. IInv => AttrsKept  BY DEF RecordInv
<1> QED  BY <1>1, <1>2, <1>3, PTL DEF Spec

-----------------------------------------------------------------------------
(* Answers *)

\* What a call has stored at each place it can be, for its answer to be true.
CallHonest(c) ==
  /\ c.pc = "return" /\ c.op \notin {"chmod", "chown", "rmdir"} =>
       /\ c.res = "ok" => c.did = Asked(c.op)
       /\ c.res = "error" => c.did \subseteq Undone(c.op)
       /\ c.res = "positive" => c.op = "read"
  /\ c.pc = "get" => c.op = "getattr"
  /\ c.pc = "set" => c.op \in {"chmod", "chown", "utime", "truncate"}
  /\ c.pc = "set2" => c.op = "utime" /\ c.did = {"mtime"}
  /\ c.pc = "open" => c.op = "create" /\ c.did = {"entry"}
  /\ c.pc \in InWrite => c.op = "write"
  /\ c.pc \in {"dela", "deld", "spin"} => c.op = "remove"
  /\ c.pc \in {"get", "set", "dela", "deld", "spin"} \cup InWrite => c.did = {}
Honest == \A t \in Threads : CallHonest(call[t])

\* What each kind of call has to store.
LEMMA AskedOf ==
  /\ Asked("create") = {"entry"} /\ Asked("mkdir") = {"entry"} /\ Asked("utime") = {"mtime", "atime"}
  /\ Asked("truncate") = {"size"} /\ Asked("write") = {"size"} /\ Asked("remove") = {"gone"}
  /\ Asked("getattr") = {} /\ Asked("open") = {} /\ Asked("read") = {} /\ Asked("release") = {}
  /\ Undone("create") = {"entry"} /\ Undone("utime") = {"mtime"}
BY DEF Asked, Undone

\* The others stay as honest as they are.
LEMMA HonestGoes ==
  ASSUME WeakTypeOK, Honest, NEW t \in Threads, NEW d, Goes(t, d), CallHonest(d)
  PROVE  Honest'
<1>1. call'[t] = d /\ \A u \in Threads \ {t} : call'[u] = call[u]  BY CallsAfter
<1>2. \A u \in Threads : CallHonest(call'[u])  BY <1>1 DEF Honest
<1> QED  BY <1>2 DEF Honest, CallHonest

\* A call that returns what it should.
LEMMA HonestReturns ==
  ASSUME WeakTypeOK, Honest, NEW t \in Threads, NEW c \in Calls,
         NEW res \in {"ok", "error", "positive"}, Returns(t, c, res),
         c.op \notin {"chmod", "chown", "rmdir"} =>
           /\ res = "ok" => c.did = Asked(c.op)
           /\ res = "error" => c.did \subseteq Undone(c.op)
           /\ res = "positive" => c.op = "read"
  PROVE  Honest'
<1> DEFINE d == [c EXCEPT !.pc = "return", !.res = res, !.h = None]
<1>1. d.pc = "return" /\ d.op = c.op /\ d.did = c.did /\ d.res = res  BY DEF Calls
<1>2. Goes(t, d)  BY DEF Returns
<1> HIDE DEF d
<1>3. CallHonest(d)  BY <1>1 DEF CallHonest, InWrite
<1> QED  BY <1>2, <1>3, HonestGoes

\* A call that begins with a handle of its own, or fails.
LEMMA FirstHandleHonest ==
  ASSUME WeakTypeOK, Honest, NEW t \in Threads, NEW c \in Calls, c.did = {},
         NEW pc \in OwnHandle,
         \/ pc = "get" /\ c.op = "getattr"
         \/ pc = "set" /\ c.op \in {"chmod", "chown", "utime", "truncate"}
         \/ pc \in {"dela", "deld", "spin"} /\ c.op = "remove",
         Returns(t, c, "error") \/ Goes(t, [c EXCEPT !.h = Current, !.pc = pc])
  PROVE  Honest'
<1>1. CASE Returns(t, c, "error")  BY <1>1, HonestReturns
<1>2. CASE Goes(t, [c EXCEPT !.h = Current, !.pc = pc])
  <2> DEFINE d == [c EXCEPT !.h = Current, !.pc = pc]
  <2>1. d.pc = pc /\ d.op = c.op /\ d.did = {}  BY DEF Calls
  <2>2. Goes(t, d)  BY <1>2
  <2> HIDE DEF d
  <2>3. CallHonest(d)  BY <2>1 DEF CallHonest, OwnHandle, InWrite
  <2> QED  BY <2>2, <2>3, HonestGoes
<1> QED  BY <1>1, <1>2

\* A handler begins.
LEMMA BeginHonest ==
  ASSUME WeakTypeOK, Honest, NEW t \in Threads, Begin(t)
  PROVE  Honest'
<1>1. Idle \in Calls /\ Idle.did = {} /\ Idle.op = "none"  BY IdleType DEF Idle
<1>2. ASSUME NEW op \in AttrOps, NEW v \in Nat, AttrOpen(t, op, v)  PROVE Honest'
  <2> DEFINE c == [Idle EXCEPT !.op = op, !.v = v]
             pc == IF op = "getattr" THEN "get" ELSE "set"
  <2>1. c \in Calls /\ c.did = {} /\ c.op = op  BY <1>1 DEF Calls, Ops
  <2>2. Returns(t, c, "error") \/ Goes(t, [c EXCEPT !.h = Current, !.pc = pc])
    BY <1>2 DEF AttrOpen
  <2>3. /\ pc \in OwnHandle
        /\ \/ pc = "get" /\ op = "getattr"
           \/ pc = "set" /\ op \in {"chmod", "chown", "utime", "truncate"}
    BY DEF OwnHandle, AttrOps
  <2> HIDE DEF c, pc
  <2> QED  BY <2>1, <2>2, <2>3, FirstHandleHonest
<1>3. ASSUME NEW op \in {"create", "mkdir"}, NEW type \in Types, NEW mode, NEW c \in Calls,
             c.did = {}, Create(t, op, type, mode, c)
      PROVE  Honest'
  <2> DEFINE e == [c EXCEPT !.op = op]
             d == [c EXCEPT !.op = op, !.did = {"entry"}]
  <2>1. /\ e \in Calls /\ e.op = op /\ e.did = {}
        /\ d \in Calls /\ d.op = op /\ d.did = {"entry"}
    BY <1>3 DEF Calls, Ops, Fields
  <2>2. \/ op = "create" /\ Goes(t, [d EXCEPT !.pc = "open"])
        \/ op = "mkdir" /\ Returns(t, d, "ok")
        \/ Returns(t, e, "error")
    BY <1>3 DEF Create
  <2>3. CASE op = "create" /\ Goes(t, [d EXCEPT !.pc = "open"])
    <3> DEFINE f == [d EXCEPT !.pc = "open"]
    <3>1. f.pc = "open" /\ f.op = op /\ f.did = {"entry"}
      <4> HIDE DEF d
      <4> QED  BY <2>1 DEF Calls
    <3>2. Goes(t, f)  BY <2>3
    <3> HIDE DEF f
    <3>3. CallHonest(f)  BY <2>3, <3>1 DEF CallHonest, InWrite
    <3> QED  BY <3>2, <3>3, HonestGoes
  <2> HIDE DEF d, e
  <2>4. CASE op = "mkdir" /\ Returns(t, d, "ok")  BY <2>1, <2>4, AskedOf, HonestReturns
  <2>5. CASE Returns(t, e, "error")  BY <2>1, <2>5, HonestReturns
  <2> QED  BY <2>2, <2>3, <2>4, <2>5
<1>4. ASSUME NEW mode \in Modes, MakeDir(t, mode)  PROVE Honest'
  BY <1>1, <1>3, <1>4 DEF MakeDir, Types
<1>5. ASSUME NEW o \in Opens, NEW mode \in Modes, CreateFile(t, o, mode)  PROVE Honest'
  <2> DEFINE c == [Idle EXCEPT !.o = o]
  <2>1. c \in Calls /\ c.did = {}  BY <1>1 DEF Calls
  <2>2. Create(t, "create", "data", mode, c)  BY <1>5 DEF CreateFile
  <2> HIDE DEF c
  <2> QED  BY <1>3, <2>1, <2>2 DEF Types
<1>6. ASSUME NEW o \in Opens, Open(t, o)  PROVE Honest'
  <2> DEFINE c == [Idle EXCEPT !.op = "open", !.o = o]
  <2>1. c \in Calls /\ c.did = {} /\ c.op = "open"  BY <1>1 DEF Calls, Ops
  <2>2. Returns(t, c, "ok") \/ Returns(t, c, "error")  BY <1>6 DEF Open, StreamOpen
  <2> HIDE DEF c
  <2> QED  BY <2>1, <2>2, AskedOf, HonestReturns
<1>7. ASSUME NEW o \in Opens, Release(t, o)  PROVE Honest'
  <2> DEFINE c == [Idle EXCEPT !.op = "release"]
  <2>1. c \in Calls /\ c.did = {} /\ c.op = "release"  BY <1>1 DEF Calls, Ops
  <2>2. Returns(t, c, "ok")  BY <1>7 DEF Release
  <2> HIDE DEF c
  <2> QED  BY <2>1, <2>2, AskedOf, HonestReturns
<1>8. ASSUME NEW o \in Opens, Read(t, o)  PROVE Honest'
  <2> DEFINE c == [Idle EXCEPT !.op = "read", !.o = o]
  <2>1. c \in Calls /\ c.did = {} /\ c.op = "read"  BY <1>1 DEF Calls, Ops
  <2>2. PICK res \in {"ok", "error", "positive"} : Returns(t, c, res)  BY <1>8 DEF Read
  <2>3. /\ res = "ok" => c.did = Asked(c.op)
        /\ res = "error" => c.did \subseteq Undone(c.op)
        /\ res = "positive" => c.op = "read"
    BY <2>1, AskedOf
  <2> HIDE DEF c
  <2> QED  BY <2>1, <2>2, <2>3, HonestReturns
<1>9. ASSUME NEW o \in Opens, EnvExit(t, o)  PROVE Honest'
  BY <1>9 DEF EnvExit, Honest, CallHonest
<1>10. ASSUME NEW o \in Opens, NEW end \in 0 .. MaxSize, WriteBegin(t, o, end)  PROVE Honest'
  <2> DEFINE c == [Idle EXCEPT !.op = "write", !.o = o, !.v = end]
             pc == IF Extends(fh[o].copy, end) THEN "wset" ELSE "wattr"
             d == [c EXCEPT !.pc = pc]
  <2>1. c \in Calls /\ c.did = {} /\ c.op = "write"
    <3>1. end \in Nat  OBVIOUS
    <3> QED  BY <1>1, <3>1 DEF Calls, Ops
  <2>2. Goes(t, d) \/ Returns(t, c, "error")  BY <1>10 DEF WriteBegin
  <2>3. d.pc \in InWrite /\ d.op = "write" /\ d.did = {}
    <3>1. pc \in InWrite  BY DEF InWrite
    <3> HIDE DEF c, pc
    <3> QED  BY <2>1, <3>1 DEF Calls
  <2> HIDE DEF c, d, pc
  <2>4. CASE Goes(t, d)
    <3>1. CallHonest(d)  BY <2>3 DEF CallHonest, InWrite
    <3> QED  BY <2>4, <3>1, HonestGoes
  <2>5. CASE Returns(t, c, "error")  BY <2>1, <2>5, HonestReturns
  <2> QED  BY <2>2, <2>4, <2>5
<1>11. CASE Remove(t)
  <2> DEFINE c == [Idle EXCEPT !.op = "remove"]
             pc == IF rec.type = "container" THEN "deld" ELSE IF rec.size = 0 THEN "spin" ELSE "dela"
  <2>1. c \in Calls /\ c.did = {} /\ c.op = "remove"  BY <1>1 DEF Calls, Ops
  <2>2. Returns(t, c, "error") \/ Goes(t, [c EXCEPT !.h = Current, !.pc = pc])
    BY <1>11 DEF Remove
  <2>3. pc \in OwnHandle /\ pc \in {"dela", "deld", "spin"}  BY DEF OwnHandle
  <2> HIDE DEF c, pc
  <2> QED  BY <2>1, <2>2, <2>3, FirstHandleHonest
<1>12. (\A v \in Modes : v \in Nat) /\ (\A v \in 0 .. MaxSize : v \in Nat)  BY BoundAssumption
<1>13. AttrOps \ {"truncate"} \subseteq AttrOps /\ "truncate" \in AttrOps  BY DEF AttrOps
<1> QED  BY <1>2, <1>4, <1>5, <1>6, <1>7, <1>8, <1>9, <1>10, <1>11, <1>12, <1>13 DEF Begin

\* A handler goes on.
LEMMA ContinueHonest ==
  ASSUME WeakTypeOK, Honest, NEW t \in Threads, Continue(t)
  PROVE  Honest'
<1> DEFINE c == call[t]
<1>1. c \in Calls /\ CallHonest(c)  BY DEF WeakTypeOK, Honest
<1>2. CASE GetAttr(t)
  <2>1. Returns(t, c, "ok") /\ c.op = "getattr" /\ c.did = {}
    BY <1>1, <1>2 DEF GetAttr, At, CallHonest
  <2> QED  BY <1>1, <2>1, AskedOf, HonestReturns
<1>3. ASSUME NEW op \in {"chmod", "chown"}, NEW field \in Fields, NEW copy, NEW new,
             SetOwnership(t, op, field, copy, new)
      PROVE  Honest'
  <2> DEFINE d == [c EXCEPT !.did = {field}]
  <2>1. d \in Calls /\ d.op = c.op /\ c.op = op  BY <1>1, <1>3 DEF Calls, SetOwnership
  <2>2. Returns(t, d, "ok") \/ Returns(t, c, "ok")  BY <1>3 DEF SetOwnership
  <2> HIDE DEF c, d
  <2> QED  BY <1>1, <2>1, <2>2, HonestReturns
<1>4. CASE ChmodPut(t) \/ ChownPut(t)  BY <1>3, <1>4 DEF ChmodPut, ChownPut, Fields
<1>5. CASE UtimeFirst(t)
  <2> DEFINE n == [copy |-> SetMtime(c.h.copy, c.v), seen |-> ver + 1]
             d == [c EXCEPT !.pc = "set2", !.did = {"mtime"}, !.h = n]
  <2>1. c.op = "utime" /\ c.did = {}  BY <1>1, <1>5 DEF UtimeFirst, At, CallHonest
  <2>2. Goes(t, d) \/ Returns(t, c, "error")  BY <1>5 DEF UtimeFirst
  <2>3. d.pc = "set2" /\ d.op = "utime" /\ d.did = {"mtime"}
    <3> HIDE DEF n
    <3> QED  BY <1>1, <2>1 DEF Calls
  <2> HIDE DEF c, d
  <2>4. CallHonest(d)  BY <2>3 DEF CallHonest, InWrite
  <2> QED  BY <1>1, <2>1, <2>2, <2>4, HonestGoes, HonestReturns
<1>6. ASSUME NEW field \in Fields, NEW copy, NEW new, LastPut(t, field, copy, new),
             c.did \cup {field} = Asked(c.op), c.did \subseteq Undone(c.op)
      PROVE  Honest'
  <2> DEFINE d == [c EXCEPT !.did = @ \cup {field}]
  <2>1. d \in Calls /\ d.op = c.op /\ d.did = c.did \cup {field}  BY <1>1 DEF Calls
  <2>2. Returns(t, d, "ok") \/ Returns(t, c, "error")  BY <1>6 DEF LastPut
  <2> HIDE DEF c, d
  <2> QED  BY <1>1, <1>6, <2>1, <2>2, HonestReturns
<1>7. CASE UtimeSecond(t)
  <2>1. c.op = "utime" /\ c.did = {"mtime"}  BY <1>1, <1>7 DEF UtimeSecond, At, CallHonest
  <2>2. c.did \cup {"atime"} = Asked(c.op) /\ c.did \subseteq Undone(c.op) /\ "atime" \in Fields
    BY <2>1, AskedOf DEF Fields
  <2> QED  BY <1>6, <1>7, <2>2 DEF UtimeSecond
<1>8. CASE Truncate(t)
  <2>1. c.op = "truncate" /\ c.did = {}  BY <1>1, <1>8 DEF Truncate, At, CallHonest
  <2>2. c.did \cup {"size"} = Asked(c.op) /\ c.did \subseteq Undone(c.op) /\ "size" \in Fields
    BY <2>1, AskedOf DEF Fields
  <2> QED  BY <1>6, <1>8, <2>2 DEF Truncate
<1>9. CASE CreateOpen(t)
  <2>1. c.op = "create" /\ c.did = {"entry"}  BY <1>1, <1>9 DEF CreateOpen, At, CallHonest
  <2>2. Returns(t, c, "ok") \/ Returns(t, c, "error")  BY <1>9 DEF CreateOpen, StreamOpen
  <2> QED  BY <1>1, <2>1, <2>2, AskedOf, HonestReturns
<1>10. CASE WriteSet(t)
  <2> DEFINE d == [c EXCEPT !.pc = "wattr"]
  <2>1. c.op = "write" /\ c.did = {}  BY <1>1, <1>10 DEF WriteSet, At, CallHonest, InWrite
  <2>2. Goes(t, d)  BY <1>10 DEF WriteSet
  <2>3. d.pc = "wattr" /\ d.op = "write" /\ d.did = {}  BY <1>1, <2>1 DEF Calls
  <2> HIDE DEF d
  <2>4. CallHonest(d)  BY <2>3 DEF CallHonest, InWrite
  <2> QED  BY <2>2, <2>4, HonestGoes
<1>11. CASE WriteAttr(t)
  <2> DEFINE d == [c EXCEPT !.did = {"size"}]
  <2>1. c.op = "write" /\ c.did = {}  BY <1>1, <1>11 DEF WriteAttr, At, CallHonest, InWrite
  <2>2. d \in Calls /\ d.op = "write" /\ d.did = {"size"}  BY <1>1, <2>1 DEF Calls, Fields
  <2>3. Returns(t, d, "ok") \/ Returns(t, c, "error")  BY <1>11 DEF WriteAttr
  <2> HIDE DEF c, d
  <2> QED  BY <1>1, <2>1, <2>2, <2>3, AskedOf, HonestReturns
<1>12. CASE RemoveFile(t)
  <2> DEFINE d == [c EXCEPT !.did = {"gone"}]
  <2>1. c.op = "remove" /\ c.did = {}  BY <1>1, <1>12 DEF RemoveFile, At, CallHonest
  <2>2. d \in Calls /\ d.op = "remove" /\ d.did = {"gone"}  BY <1>1, <2>1 DEF Calls, Fields
  <2>3. Returns(t, d, "ok") \/ Returns(t, c, "error")  BY <1>12 DEF RemoveFile
  <2> HIDE DEF c, d
  <2> QED  BY <1>1, <2>1, <2>2, <2>3, AskedOf, HonestReturns
<1>13. CASE RemoveDir(t)
  <2> DEFINE r == [c EXCEPT !.op = "rmdir"]
             d == [r EXCEPT !.did = {"gone"}]
  <2>1. r \in Calls /\ r.op = "rmdir"  BY <1>1 DEF Calls, Ops
  <2>2. d \in Calls /\ d.op = "rmdir"
    <3> HIDE DEF r
    <3> QED  BY <2>1 DEF Calls, Fields
  <2>3. Returns(t, d, "ok") \/ \E res \in {"ok", "error"} : Returns(t, r, res)
    BY <1>13 DEF RemoveDir
  <2> HIDE DEF d, r
  <2> QED  BY <2>1, <2>2, <2>3, HonestReturns
<1>14. CASE RemoveFail(t)
  <2>1. c.op = "remove" /\ c.did = {} /\ Returns(t, c, "error")
    BY <1>1, <1>14 DEF RemoveFail, At, CallHonest
  <2> QED  BY <1>1, <2>1, HonestReturns
<1>15. CASE Return(t)
  <2>1. CallHonest(Idle)  BY DEF CallHonest, Idle, InWrite
  <2> QED  BY <1>15, <2>1, HonestGoes DEF Return
<1>16. CASE DeldCursor(t)
  <2> DEFINE d == [c EXCEPT !.pc = "empty"]
  <2>1. c.did = {} /\ (Goes(t, d) \/ Returns(t, c, "error"))
    BY <1>1, <1>16 DEF DeldCursor, At, CallHonest
  <2>2. d.pc = "empty"  BY <1>1 DEF Calls
  <2> HIDE DEF c, d
  <2>3. CallHonest(d)  BY <2>2 DEF CallHonest, InWrite
  <2> QED  BY <1>1, <2>1, <2>3, HonestGoes, HonestReturns
<1> QED  BY <1>2, <1>4, <1>5, <1>7, <1>8, <1>9, <1>10, <1>11, <1>12, <1>13, <1>14, <1>15, <1>16
         DEF Continue

\* The answers of all calls say what was stored, with the exceptions that
\* AnswersHonest names (mangoofuse.c:122, :136, :154, :201, :226).
THEOREM AnswersHonestTheorem == Spec => []AnswersHonest
<1> DEFINE IInv == WeakTypeOK /\ RecordInv /\ Honest
<1>1. Init => IInv
  <2>1. CallHonest(Idle)  BY DEF CallHonest, Idle, InWrite
  <2>2. ASSUME Init  PROVE Honest  BY <2>1, <2>2 DEF Init, Honest
  <2> QED  BY <2>2, RecordInit
<1>2. IInv /\ [Next]_vars => IInv'
  <2> SUFFICES ASSUME IInv, [Next]_vars  PROVE IInv'  OBVIOUS
  <2>1. WeakTypeOK' /\ RecordInv'  BY TypeStep, RecordStep DEF RecordInv
  <2>2. ASSUME call' = call  PROVE Honest'  BY <2>2 DEF Honest, CallHonest
  <2>3. Mount \/ Unmount \/ UNCHANGED vars => call' = call  BY DEF Mount, Unmount, vars
  <2>4. Honest'  BY <2>2, <2>3, BeginHonest, ContinueHonest DEF Next
  <2> QED  BY <2>1, <2>4
<1>3. IInv => AnswersHonest  BY DEF Honest, CallHonest, AnswersHonest
<1> QED  BY <1>1, <1>2, <1>3, PTL DEF Spec

-----------------------------------------------------------------------------
(* Memory *)

HoldingCalls == {t \in Threads : call[t].h # None}
OpenFiles == {o \in Opens : fh[o] # None}
EmptyCalls == {t \in Threads : call[t].pc = "empty"}
Held(h) == IF h # None THEN 1 ELSE 0
HasCursor(pc) == IF pc = "empty" THEN 1 ELSE 0

\* What one element does to the cardinality of a set.
LEMMA CardStep ==
  ASSUME NEW S, IsFiniteSet(S), NEW A \in SUBSET S, NEW B \in SUBSET S, NEW x \in S,
         A \ {x} = B \ {x}
  PROVE  /\ Cardinality(A) \in Nat /\ Cardinality(B) \in Nat
         /\ Cardinality(B) =
              Cardinality(A) + (IF x \in B THEN 1 ELSE 0) - (IF x \in A THEN 1 ELSE 0)
<1>1. IsFiniteSet(A) /\ IsFiniteSet(B)  BY FS_Subset
<1>2. Cardinality(A) \in Nat /\ Cardinality(B) \in Nat  BY <1>1, FS_CardinalityType
<1>3. Cardinality(A \ {x}) = Cardinality(B \ {x})
  <2> DEFINE C == A \ {x}
             D == B \ {x}
  <2>1. C = D  OBVIOUS
  <2> HIDE DEF C, D
  <2>2. Cardinality(C) = Cardinality(D)  BY <2>1
  <2> QED  BY <2>2 DEF C, D
<1>4. Cardinality(A \ {x}) = IF x \in A THEN Cardinality(A) - 1 ELSE Cardinality(A)
  BY <1>1, FS_RemoveElement
<1>5. Cardinality(B \ {x}) = IF x \in B THEN Cardinality(B) - 1 ELSE Cardinality(B)
  BY <1>1, FS_RemoveElement
<1> QED  BY <1>2, <1>3, <1>4, <1>5

\* A call changes a count of calls by what it does itself.
LEMMA CallCounts ==
  ASSUME WeakTypeOK, NEW t \in Threads, NEW d, Goes(t, d)
  PROVE  /\ Cardinality(HoldingCalls) \in Nat /\ Cardinality(HoldingCalls') \in Nat
         /\ Cardinality(HoldingCalls') = Cardinality(HoldingCalls) + (Held(d.h) - Held(call[t].h))
         /\ Cardinality(EmptyCalls) \in Nat /\ Cardinality(EmptyCalls') \in Nat
         /\ Cardinality(EmptyCalls')
              = Cardinality(EmptyCalls) + (HasCursor(d.pc) - HasCursor(call[t].pc))
<1>1. call'[t] = d /\ \A u \in Threads \ {t} : call'[u] = call[u]  BY CallsAfter
<1>2. /\ Cardinality(HoldingCalls) \in Nat /\ Cardinality(HoldingCalls') \in Nat
      /\ Cardinality(HoldingCalls') = Cardinality(HoldingCalls) + (Held(d.h) - Held(call[t].h))
  <2>1. HoldingCalls \in SUBSET Threads /\ HoldingCalls' \in SUBSET Threads
        /\ HoldingCalls \ {t} = HoldingCalls' \ {t}
        /\ (t \in HoldingCalls <=> call[t].h # None) /\ (t \in HoldingCalls' <=> d.h # None)
    BY <1>1 DEF HoldingCalls
  <2>2. /\ Cardinality(HoldingCalls) \in Nat /\ Cardinality(HoldingCalls') \in Nat
        /\ Cardinality(HoldingCalls') = Cardinality(HoldingCalls)
             + (IF t \in HoldingCalls' THEN 1 ELSE 0) - (IF t \in HoldingCalls THEN 1 ELSE 0)
    BY <2>1, FiniteAssumption, CardStep
  <2> QED  BY <2>1, <2>2 DEF Held
<1>3. /\ Cardinality(EmptyCalls) \in Nat /\ Cardinality(EmptyCalls') \in Nat
      /\ Cardinality(EmptyCalls')
           = Cardinality(EmptyCalls) + (HasCursor(d.pc) - HasCursor(call[t].pc))
  <2>1. EmptyCalls \in SUBSET Threads /\ EmptyCalls' \in SUBSET Threads
        /\ EmptyCalls \ {t} = EmptyCalls' \ {t}
        /\ (t \in EmptyCalls <=> call[t].pc = "empty") /\ (t \in EmptyCalls' <=> d.pc = "empty")
    BY <1>1 DEF EmptyCalls
  <2>2. /\ Cardinality(EmptyCalls) \in Nat /\ Cardinality(EmptyCalls') \in Nat
        /\ Cardinality(EmptyCalls') = Cardinality(EmptyCalls)
             + (IF t \in EmptyCalls' THEN 1 ELSE 0) - (IF t \in EmptyCalls THEN 1 ELSE 0)
    BY <2>1, FiniteAssumption, CardStep
  <2> QED  BY <2>1, <2>2 DEF HasCursor
<1> QED  BY <1>2, <1>3

\* The counts are numbers.
LEMMA CountTypes ==
  ASSUME NEW m \in WeakMemory, NEW e \in Ends
  PROVE  /\ m.handle \in Int /\ m.buffers \in Int /\ m.env \in Int
         /\ m.cursor \in Int /\ m.block \in Int
         /\ e.lost \in Nat /\ e.released \in Nat /\ e.transfers \in Nat
         /\ e.cursors \in Nat /\ e.holes \in Nat
BY DEF WeakMemory, Ends

\* The accounts balance after a step of t, if its changes do.
LEMMA Accounts ==
  ASSUME WeakTypeOK, WeakTypeOK', MemoryAccounted, NEW t \in Threads, NEW d, Goes(t, d),
         Cardinality(OpenFiles') \in Int,
         mem'.handle = mem.handle + (Held(d.h) - Held(call[t].h))
           + (Cardinality(OpenFiles') - Cardinality(OpenFiles)) + (ends'.lost - ends.lost),
         mem'.buffers = mem.buffers + (mem'.handle - mem.handle) + (ends'.released - ends.released),
         mem'.env = mem.env + (ends'.transfers - ends.transfers),
         mem'.cursor = mem.cursor + (HasCursor(d.pc) - HasCursor(call[t].pc))
           + (ends'.cursors - ends.cursors),
         mem'.block = mem.block + (ends'.holes - ends.holes)
  PROVE  MemoryAccounted'
<1>1. /\ Cardinality(HoldingCalls) \in Nat /\ Cardinality(HoldingCalls') \in Nat
      /\ Cardinality(HoldingCalls') = Cardinality(HoldingCalls) + (Held(d.h) - Held(call[t].h))
      /\ Cardinality(EmptyCalls) \in Nat /\ Cardinality(EmptyCalls') \in Nat
      /\ Cardinality(EmptyCalls')
           = Cardinality(EmptyCalls) + (HasCursor(d.pc) - HasCursor(call[t].pc))
  BY CallCounts
<1>2. OpenFiles \in SUBSET Opens  BY DEF OpenFiles
<1>3. Cardinality(OpenFiles) \in Nat  BY <1>2, FiniteAssumption, FS_Subset, FS_CardinalityType
<1>4. Held(d.h) \in Int /\ Held(call[t].h) \in Int /\ HasCursor(d.pc) \in Int
      /\ HasCursor(call[t].pc) \in Int
  BY DEF Held, HasCursor
<1>5. /\ mem.handle \in Int /\ mem.buffers \in Int /\ mem.env \in Int
      /\ mem.cursor \in Int /\ mem.block \in Int
      /\ ends.lost \in Int /\ ends.released \in Int /\ ends.transfers \in Int
      /\ ends.cursors \in Int /\ ends.holes \in Int
      /\ ends'.lost \in Int /\ ends'.released \in Int /\ ends'.transfers \in Int
      /\ ends'.cursors \in Int /\ ends'.holes \in Int
  BY CountTypes DEF WeakTypeOK
<1>6. /\ mem.handle = Cardinality(HoldingCalls) + Cardinality(OpenFiles) + ends.lost
      /\ mem.buffers = mem.handle + ends.released
      /\ mem.env = ends.transfers
      /\ mem.cursor = Cardinality(EmptyCalls) + ends.cursors
      /\ mem.block = ends.holes
  BY DEF MemoryAccounted, HandlesAccounted, CursorsAccounted, BlocksAccounted,
         HoldingCalls, OpenFiles, EmptyCalls
<1>7. /\ mem'.handle = Cardinality(HoldingCalls') + Cardinality(OpenFiles') + ends'.lost
      /\ mem'.buffers = mem'.handle + ends'.released
      /\ mem'.env = ends'.transfers
  BY <1>1, <1>3, <1>4, <1>5, <1>6
<1>8. mem'.cursor = Cardinality(EmptyCalls') + ends'.cursors /\ mem'.block = ends'.holes
  BY <1>1, <1>4, <1>5, <1>6
<1> QED  BY <1>7, <1>8
  DEF MemoryAccounted, HandlesAccounted, CursorsAccounted, BlocksAccounted,
      HoldingCalls, OpenFiles, EmptyCalls

\* What the operations on memory add.
LEMMA MemorySteps ==
  ASSUME NEW m \in WeakMemory, NEW holes \in Nat
  PROVE  /\ Allocate(m) = [handle |-> m.handle + 1, buffers |-> m.buffers + 1, env |-> m.env,
                           cursor |-> m.cursor, block |-> m.block]
         /\ Close(m, "attr") = [handle |-> m.handle - 1, buffers |-> m.buffers - 1, env |-> m.env,
                                cursor |-> m.cursor, block |-> m.block]
         /\ Close(m, "stream") = [handle |-> m.handle - 1, buffers |-> m.buffers, env |-> m.env,
                                  cursor |-> m.cursor, block |-> m.block]
         /\ OpenCursor(m) = [handle |-> m.handle, buffers |-> m.buffers, env |-> m.env,
                             cursor |-> m.cursor + 1, block |-> m.block]
         /\ ReadWriteBlocks(OpenEnv(m), holes)
              = [handle |-> m.handle, buffers |-> m.buffers, env |-> m.env + 1,
                 cursor |-> m.cursor, block |-> m.block + holes]
<1>0. /\ m.handle + 1 \in Int /\ m.buffers + 1 \in Int
      /\ m.handle - 1 \in Int /\ m.buffers - 1 \in Int
  BY DEF WeakMemory
<1>1. Allocate(m) = [handle |-> m.handle + 1, buffers |-> m.buffers + 1, env |-> m.env,
                     cursor |-> m.cursor, block |-> m.block]
  BY <1>0, TwoCounts DEF Allocate
<1>2. Free(m) = [handle |-> m.handle - 1, buffers |-> m.buffers - 1, env |-> m.env,
                 cursor |-> m.cursor, block |-> m.block]
  BY <1>0, TwoCounts DEF Free
<1>3. FreeStream(m) = [handle |-> m.handle - 1, buffers |-> m.buffers, env |-> m.env,
                       cursor |-> m.cursor, block |-> m.block]
  BY DEF WeakMemory, FreeStream
<1>4. OpenCursor(m) = [handle |-> m.handle, buffers |-> m.buffers, env |-> m.env,
                       cursor |-> m.cursor + 1, block |-> m.block]
  BY DEF WeakMemory, OpenCursor
<1>5. ReadWriteBlocks(OpenEnv(m), holes)
        = [handle |-> m.handle, buffers |-> m.buffers, env |-> m.env + 1,
           cursor |-> m.cursor, block |-> m.block + holes]
  <2>1. OpenEnv(m) = [handle |-> m.handle, buffers |-> m.buffers, env |-> m.env + 1,
                      cursor |-> m.cursor, block |-> m.block]
    BY DEF WeakMemory, OpenEnv
  <2>2. m.block \in Int  BY DEF WeakMemory
  <2>3. m.block + (1 + holes) - 1 = m.block + holes  BY <2>2
  <2> QED  BY <2>1, <2>3 DEF ReadWriteBlocks
<1> QED  BY <1>1, <1>2, <1>3, <1>4, <1>5 DEF Close

\* A handle lost is one, and nothing else.
LEMMA LosesOne ==
  ASSUME WeakTypeOK, Loses
  PROVE  /\ ends'.lost = ends.lost + 1 /\ ends'.released = ends.released
         /\ ends'.transfers = ends.transfers /\ ends'.cursors = ends.cursors
         /\ ends'.holes = ends.holes
BY DEF WeakTypeOK, Ends, Loses

\* A step that leaves the open files alone, and takes no cursor.
LEMMA CallAccounts ==
  ASSUME WeakTypeOK, WeakTypeOK', MemoryAccounted, NEW t \in Threads, NEW d, Goes(t, d),
         fh' = fh \/ OpenFiles' = OpenFiles,
         call[t].pc # "empty", d.pc # "empty",
         \/ Held(d.h) = Held(call[t].h) /\ UNCHANGED <<mem, ends>>
         \/ d.h = None /\ call[t].h # None /\ mem' = Close(mem, "attr") /\ ends' = ends
         \/ d.h = None /\ call[t].h # None /\ mem' = mem /\ Loses
         \/ d.h # None /\ call[t].h = None /\ mem' = Allocate(mem) /\ ends' = ends
         \/ d.h = None /\ call[t].h = None /\ mem' = Allocate(mem) /\ Loses
         \/ d.h = None /\ call[t].h = None /\ \E holes \in Nat : Transfers(holes)
  PROVE  MemoryAccounted'
<1>1. OpenFiles' = OpenFiles  BY DEF OpenFiles
<1>2. Cardinality(OpenFiles) \in Int /\ Cardinality(OpenFiles') \in Int
      /\ Cardinality(OpenFiles') - Cardinality(OpenFiles) = 0
  <2>1. OpenFiles \in SUBSET Opens  BY DEF OpenFiles
  <2>2. Cardinality(OpenFiles) \in Nat  BY <2>1, FiniteAssumption, FS_Subset, FS_CardinalityType
  <2> QED  BY <1>1, <2>2
<1>3. /\ mem.handle \in Int /\ mem.buffers \in Int /\ mem.env \in Int
      /\ mem.cursor \in Int /\ mem.block \in Int
      /\ ends.lost \in Nat /\ ends.released \in Nat /\ ends.transfers \in Nat
      /\ ends.cursors \in Nat /\ ends.holes \in Nat
      /\ mem \in WeakMemory
  BY CountTypes DEF WeakTypeOK
<1>4. HasCursor(d.pc) = 0 /\ HasCursor(call[t].pc) = 0  BY DEF HasCursor
<1>5. ASSUME mem'.handle = mem.handle + (Held(d.h) - Held(call[t].h)) + (ends'.lost - ends.lost),
             mem'.buffers = mem.buffers + (mem'.handle - mem.handle) + (ends'.released - ends.released),
             mem'.env = mem.env + (ends'.transfers - ends.transfers),
             mem'.cursor = mem.cursor + (ends'.cursors - ends.cursors),
             mem'.block = mem.block + (ends'.holes - ends.holes)
      PROVE  MemoryAccounted'
  <2>1. /\ Held(d.h) \in Int /\ Held(call[t].h) \in Int
        /\ ends'.lost \in Nat /\ ends'.cursors \in Nat
    BY CountTypes DEF Held, WeakTypeOK
  <2>2. mem'.handle = mem.handle + (Held(d.h) - Held(call[t].h))
          + (Cardinality(OpenFiles') - Cardinality(OpenFiles)) + (ends'.lost - ends.lost)
    BY <1>2, <1>3, <1>5, <2>1
  <2>3. mem'.cursor = mem.cursor + (HasCursor(d.pc) - HasCursor(call[t].pc))
          + (ends'.cursors - ends.cursors)
    BY <1>3, <1>4, <1>5, <2>1
  <2> QED  BY <1>2, <1>5, <2>2, <2>3, Accounts
<1>6. CASE Held(d.h) = Held(call[t].h) /\ UNCHANGED <<mem, ends>>
  <2>1. Held(d.h) \in Int /\ Held(call[t].h) \in Int  BY DEF Held
  <2> QED  BY <1>3, <1>5, <1>6, <2>1
<1>7. CASE d.h = None /\ call[t].h # None /\ mem' = Close(mem, "attr") /\ ends' = ends
  <2>1. Held(d.h) = 0 /\ Held(call[t].h) = 1  BY <1>7 DEF Held
  <2> QED  BY <1>3, <1>5, <1>7, <2>1, MemorySteps
<1>8. CASE d.h = None /\ call[t].h # None /\ mem' = mem /\ Loses
  <2>1. Held(d.h) = 0 /\ Held(call[t].h) = 1  BY <1>8 DEF Held
  <2> QED  BY <1>3, <1>5, <1>8, <2>1, LosesOne
<1>9. CASE d.h # None /\ call[t].h = None /\ mem' = Allocate(mem) /\ ends' = ends
  <2>1. Held(d.h) = 1 /\ Held(call[t].h) = 0  BY <1>9 DEF Held
  <2> QED  BY <1>3, <1>5, <1>9, <2>1, MemorySteps
<1>10. CASE d.h = None /\ call[t].h = None /\ mem' = Allocate(mem) /\ Loses
  <2>1. Held(d.h) = 0 /\ Held(call[t].h) = 0  BY <1>10 DEF Held
  <2> QED  BY <1>3, <1>5, <1>10, <2>1, MemorySteps, LosesOne
<1>11. ASSUME d.h = None, call[t].h = None, NEW holes \in Nat, Transfers(holes)
       PROVE  MemoryAccounted'
  <2>1. Held(d.h) = 0 /\ Held(call[t].h) = 0  BY <1>11 DEF Held
  <2>2. mem' = ReadWriteBlocks(OpenEnv(mem), holes)  BY <1>11 DEF Transfers
  <2>3. /\ ends'.lost = ends.lost /\ ends'.released = ends.released
        /\ ends'.transfers = ends.transfers + 1 /\ ends'.cursors = ends.cursors
        /\ ends'.holes = ends.holes + holes
    BY <1>11 DEF Transfers, WeakTypeOK, Ends
  <2>4. mem' = [handle |-> mem.handle, buffers |-> mem.buffers, env |-> mem.env + 1,
                cursor |-> mem.cursor, block |-> mem.block + holes]
    BY <1>3, <1>11, <2>2, MemorySteps
  <2> QED  BY <1>3, <1>5, <2>1, <2>3, <2>4
<1> QED  BY <1>6, <1>7, <1>8, <1>9, <1>10, <1>11

\* A file opened, or not.
LEMMA StreamOpenAccounts ==
  ASSUME WeakTypeOK, WeakTypeOK', MemoryAccounted, NEW t \in Threads, NEW c \in Calls, c.o \in Opens,
         call[t].h = None, call[t].pc # "empty", fh[c.o] = None, StreamOpen(t, c)
  PROVE  MemoryAccounted'
<1> DEFINE d(res) == [c EXCEPT !.pc = "return", !.res = res, !.h = None]
<1>1. /\ d("ok").h = None /\ d("error").h = None
      /\ d("ok").pc # "empty" /\ d("error").pc # "empty"
  BY DEF Calls
<1>2. mem' = Allocate(mem)  BY DEF StreamOpen
<1>3. CASE Goes(t, d("error")) /\ Loses /\ fh' = fh
  <2> HIDE DEF d
  <2> QED  BY <1>1, <1>2, <1>3, CallAccounts
<1>4. CASE Goes(t, d("ok")) /\ ends' = ends /\ rec # None /\ fh' = [fh EXCEPT ![c.o] = Current]
  <2> HIDE DEF d
  <2>1. Current # None  BY <1>4, CurrentType, HandleAssumption
  <2>2. fh'[c.o] = Current /\ \A p \in Opens \ {c.o} : fh'[p] = fh[p]  BY <1>4 DEF WeakTypeOK
  <2>3. OpenFiles \in SUBSET Opens /\ OpenFiles' \in SUBSET Opens
        /\ OpenFiles \ {c.o} = OpenFiles' \ {c.o} /\ c.o \notin OpenFiles /\ c.o \in OpenFiles'
    BY <2>1, <2>2 DEF OpenFiles
  <2>4. /\ Cardinality(OpenFiles) \in Nat /\ Cardinality(OpenFiles') \in Nat
        /\ Cardinality(OpenFiles') = Cardinality(OpenFiles) + 1
    <3>1. /\ Cardinality(OpenFiles) \in Nat /\ Cardinality(OpenFiles') \in Nat
          /\ Cardinality(OpenFiles') = Cardinality(OpenFiles)
               + (IF c.o \in OpenFiles' THEN 1 ELSE 0) - (IF c.o \in OpenFiles THEN 1 ELSE 0)
      BY <2>3, FiniteAssumption, CardStep
    <3> QED  BY <2>3, <3>1
  <2>5. /\ Held(d("ok").h) = 0 /\ Held(call[t].h) = 0
        /\ HasCursor(d("ok").pc) = 0 /\ HasCursor(call[t].pc) = 0
    BY <1>1 DEF Held, HasCursor
  <2>6. /\ mem' = [handle |-> mem.handle + 1, buffers |-> mem.buffers + 1, env |-> mem.env,
                   cursor |-> mem.cursor, block |-> mem.block]
        /\ mem \in WeakMemory /\ ends \in Ends
    BY <1>2, MemorySteps DEF WeakTypeOK
  <2>7. /\ mem'.handle = mem.handle + (Held(d("ok").h) - Held(call[t].h))
             + (Cardinality(OpenFiles') - Cardinality(OpenFiles)) + (ends'.lost - ends.lost)
        /\ mem'.buffers = mem.buffers + (mem'.handle - mem.handle) + (ends'.released - ends.released)
        /\ mem'.env = mem.env + (ends'.transfers - ends.transfers)
        /\ mem'.cursor = mem.cursor + (HasCursor(d("ok").pc) - HasCursor(call[t].pc))
             + (ends'.cursors - ends.cursors)
        /\ mem'.block = mem.block + (ends'.holes - ends.holes)
    BY <1>4, <2>4, <2>5, <2>6, CountTypes
  <2> QED  BY <1>4, <2>4, <2>7, Accounts
<1> QED  BY <1>3, <1>4 DEF StreamOpen, Returns

\* A file closed: the two buffers of its handle stay.
LEMMA ReleaseAccounts ==
  ASSUME WeakTypeOK, WeakTypeOK', MemoryAccounted, NEW t \in Threads, NEW o \in Opens, Release(t, o)
  PROVE  MemoryAccounted'
<1> DEFINE c == [Idle EXCEPT !.op = "release"]
           d == [c EXCEPT !.pc = "return", !.res = "ok", !.h = None]
<1>1. c \in Calls  BY IdleType DEF Calls, Ops
<1>2. d.h = None /\ d.pc # "empty"
  <2> HIDE DEF c
  <2> QED  BY <1>1 DEF Calls
<1>3. Goes(t, d)  BY DEF Release, Returns
<1>4. call[t].h = None /\ call[t].pc # "empty"
  BY DEF Release, Begins, At, WeakTypeOK, CallShape, OwnHandle
<1> HIDE DEF c, d
<1>5. fh'[o] = None /\ \A p \in Opens \ {o} : fh'[p] = fh[p]  BY DEF WeakTypeOK, Release
<1>6. OpenFiles \in SUBSET Opens /\ OpenFiles' \in SUBSET Opens
      /\ OpenFiles \ {o} = OpenFiles' \ {o} /\ o \in OpenFiles /\ o \notin OpenFiles'
  BY <1>5 DEF OpenFiles, Release
<1>7. /\ Cardinality(OpenFiles) \in Nat /\ Cardinality(OpenFiles') \in Nat
      /\ Cardinality(OpenFiles') = Cardinality(OpenFiles) - 1
  <2>1. /\ Cardinality(OpenFiles) \in Nat /\ Cardinality(OpenFiles') \in Nat
        /\ Cardinality(OpenFiles') = Cardinality(OpenFiles)
             + (IF o \in OpenFiles' THEN 1 ELSE 0) - (IF o \in OpenFiles THEN 1 ELSE 0)
    BY <1>6, FiniteAssumption, CardStep
  <2> QED  BY <1>6, <2>1
<1>8. Held(d.h) = 0 /\ Held(call[t].h) = 0 /\ HasCursor(d.pc) = 0 /\ HasCursor(call[t].pc) = 0
  BY <1>2, <1>4 DEF Held, HasCursor
<1>9. /\ mem' = [handle |-> mem.handle - 1, buffers |-> mem.buffers, env |-> mem.env,
                 cursor |-> mem.cursor, block |-> mem.block]
      /\ ends'.lost = ends.lost /\ ends'.released = ends.released + 1
      /\ ends'.transfers = ends.transfers /\ ends'.cursors = ends.cursors /\ ends'.holes = ends.holes
      /\ mem \in WeakMemory /\ ends \in Ends
  <2>1. mem' = Close(mem, "stream") /\ mem \in WeakMemory  BY DEF Release, WeakTypeOK
  <2>2. /\ ends'.lost = ends.lost /\ ends'.released = ends.released + 1
        /\ ends'.transfers = ends.transfers /\ ends'.cursors = ends.cursors
        /\ ends'.holes = ends.holes /\ ends \in Ends
    BY DEF Release, WeakTypeOK, Ends
  <2> QED  BY <2>1, <2>2, MemorySteps
<1>10. /\ mem'.handle = mem.handle + (Held(d.h) - Held(call[t].h))
            + (Cardinality(OpenFiles') - Cardinality(OpenFiles)) + (ends'.lost - ends.lost)
       /\ mem'.buffers = mem.buffers + (mem'.handle - mem.handle) + (ends'.released - ends.released)
       /\ mem'.env = mem.env + (ends'.transfers - ends.transfers)
       /\ mem'.cursor = mem.cursor + (HasCursor(d.pc) - HasCursor(call[t].pc))
            + (ends'.cursors - ends.cursors)
       /\ mem'.block = mem.block + (ends'.holes - ends.holes)
  BY <1>7, <1>8, <1>9, CountTypes
<1> QED  BY <1>3, <1>7, <1>10, Accounts

\* A call that ends: its handle is freed or lost, or it had none.
LEMMA ReturnAccounts ==
  ASSUME WeakTypeOK, WeakTypeOK', MemoryAccounted, NEW t \in Threads, NEW c \in Calls, NEW res, Returns(t, c, res),
         fh' = fh \/ OpenFiles' = OpenFiles, call[t].pc # "empty",
         \/ call[t].h # None /\ mem' = Close(mem, "attr") /\ ends' = ends
         \/ call[t].h # None /\ mem' = mem /\ Loses
         \/ call[t].h = None /\ mem' = Allocate(mem) /\ Loses
         \/ call[t].h = None /\ UNCHANGED <<mem, ends>>
         \/ call[t].h = None /\ \E holes \in Nat : Transfers(holes)
  PROVE  MemoryAccounted'
<1> DEFINE d == [c EXCEPT !.pc = "return", !.res = res, !.h = None]
<1>1. d.h = None /\ d.pc # "empty"  BY DEF Calls
<1>2. Goes(t, d)  BY DEF Returns
<1> HIDE DEF d
<1>3. call[t].h = None => Held(d.h) = Held(call[t].h)  BY <1>1
<1> QED  BY <1>1, <1>2, <1>3, CallAccounts

\* A call that begins with a handle of its own, or fails.
LEMMA FirstHandleAccounts ==
  ASSUME WeakTypeOK, WeakTypeOK', MemoryAccounted, NEW t \in Threads, NEW c \in Calls, NEW pc,
         call[t].h = None, call[t].pc # "empty", pc # "empty", fh' = fh, mem' = Allocate(mem),
         \/ Returns(t, c, "error") /\ Loses
         \/ rec # None /\ Goes(t, [c EXCEPT !.h = Current, !.pc = pc]) /\ ends' = ends
  PROVE  MemoryAccounted'
<1>1. CASE Returns(t, c, "error") /\ Loses  BY <1>1, ReturnAccounts
<1>2. CASE rec # None /\ Goes(t, [c EXCEPT !.h = Current, !.pc = pc]) /\ ends' = ends
  <2> DEFINE d == [c EXCEPT !.h = Current, !.pc = pc]
  <2>1. d.h = Current /\ d.pc # "empty"  BY DEF Calls
  <2>2. Current # None  BY <1>2, CurrentType, HandleAssumption
  <2>3. Goes(t, d)  BY <1>2
  <2> HIDE DEF d
  <2> QED  BY <1>2, <2>1, <2>2, <2>3, CallAccounts
<1> QED  BY <1>1, <1>2

\* A handler begins.
LEMMA BeginAccounts ==
  ASSUME WeakTypeOK, WeakTypeOK', MemoryAccounted, NEW t \in Threads, Begin(t)
  PROVE  MemoryAccounted'
<1>1. Idle \in Calls /\ Idle.h = None /\ Idle.pc # "empty"  BY IdleType DEF Idle
<1>2. ASSUME Begins(t)  PROVE call[t].h = None /\ call[t].pc # "empty"
  BY <1>2 DEF Begins, At, WeakTypeOK, CallShape, OwnHandle
<1>3. ASSUME NEW op \in AttrOps, NEW v \in Nat, AttrOpen(t, op, v)  PROVE MemoryAccounted'
  <2> DEFINE c == [Idle EXCEPT !.op = op, !.v = v]
             pc == IF op = "getattr" THEN "get" ELSE "set"
  <2>1. c \in Calls  BY <1>1 DEF Calls, Ops
  <2>2. call[t].h = None /\ call[t].pc # "empty" /\ fh' = fh /\ mem' = Allocate(mem)
    BY <1>2, <1>3 DEF AttrOpen
  <2>3. \/ Returns(t, c, "error") /\ Loses
        \/ rec # None /\ Goes(t, [c EXCEPT !.h = Current, !.pc = pc]) /\ ends' = ends
    BY <1>3 DEF AttrOpen
  <2>4. pc # "empty"  OBVIOUS
  <2> HIDE DEF c, pc
  <2> QED  BY <2>1, <2>2, <2>3, <2>4, FirstHandleAccounts
<1>4. ASSUME NEW op \in {"create", "mkdir"}, NEW type, NEW mode, NEW c \in Calls, c.h = None,
             Create(t, op, type, mode, c)
      PROVE  MemoryAccounted'
  <2> DEFINE e == [c EXCEPT !.op = op]
             d == [c EXCEPT !.op = op, !.did = {"entry"}]
             f == [d EXCEPT !.pc = "open"]
  <2>1. e \in Calls /\ d \in Calls /\ d.h = None  BY <1>4 DEF Calls, Ops, Fields
  <2>2. call[t].h = None /\ call[t].pc # "empty" /\ fh' = fh /\ UNCHANGED <<mem, ends>>
    BY <1>2, <1>4 DEF Create
  <2>3. Goes(t, f) \/ Returns(t, d, "ok") \/ Returns(t, e, "error")  BY <1>4 DEF Create
  <2>4. f.h = None /\ f.pc # "empty"
    <3> HIDE DEF d
    <3> QED  BY <2>1 DEF Calls
  <2>5. Held(f.h) = Held(call[t].h)  BY <2>2, <2>4
  <2> HIDE DEF d, e, f
  <2>6. CASE Goes(t, f)  BY <2>2, <2>4, <2>5, <2>6, CallAccounts
  <2>7. CASE Returns(t, d, "ok")  BY <2>1, <2>2, <2>7, ReturnAccounts
  <2>8. CASE Returns(t, e, "error")  BY <2>1, <2>2, <2>8, ReturnAccounts
  <2> QED  BY <2>3, <2>6, <2>7, <2>8
<1>5. ASSUME NEW mode \in Modes, MakeDir(t, mode)  PROVE MemoryAccounted'
  BY <1>1, <1>4, <1>5 DEF MakeDir
<1>6. ASSUME NEW o \in Opens, NEW mode \in Modes, CreateFile(t, o, mode)  PROVE MemoryAccounted'
  <2> DEFINE c == [Idle EXCEPT !.o = o]
  <2>1. c \in Calls /\ c.h = None  BY <1>1 DEF Calls
  <2>2. Create(t, "create", "data", mode, c)  BY <1>6 DEF CreateFile
  <2> HIDE DEF c
  <2> QED  BY <1>4, <2>1, <2>2
<1>7. ASSUME NEW o \in Opens, Open(t, o)  PROVE MemoryAccounted'
  <2> DEFINE c == [Idle EXCEPT !.op = "open", !.o = o]
  <2>1. c \in Calls /\ c.o = o  BY <1>1 DEF Calls, Ops
  <2>2. StreamOpen(t, c) /\ fh[o] = None /\ call[t].h = None /\ call[t].pc # "empty"
    BY <1>2, <1>7 DEF Open, Unused
  <2> HIDE DEF c
  <2> QED  BY <2>1, <2>2, StreamOpenAccounts
<1>8. ASSUME NEW o \in Opens, Release(t, o)  PROVE MemoryAccounted'
  BY <1>8, ReleaseAccounts
<1>9. ASSUME NEW o \in Opens, Read(t, o)  PROVE MemoryAccounted'
  <2> DEFINE c == [Idle EXCEPT !.op = "read", !.o = o]
  <2>1. c \in Calls  BY <1>1 DEF Calls, Ops
  <2>2. PICK res : Returns(t, c, res)  BY <1>9 DEF Read
  <2>3. call[t].h = None /\ call[t].pc # "empty" /\ Transfers(0) /\ fh' = fh
    BY <1>2, <1>9 DEF Read
  <2> HIDE DEF c
  <2> QED  BY <2>1, <2>2, <2>3, ReturnAccounts
<1>10. ASSUME NEW o \in Opens, EnvExit(t, o)  PROVE MemoryAccounted'
  BY <1>10 DEF EnvExit, MemoryAccounted, HandlesAccounted, CursorsAccounted, BlocksAccounted
<1>11. ASSUME NEW o \in Opens, NEW end \in Nat, WriteBegin(t, o, end)  PROVE MemoryAccounted'
  <2> DEFINE c == [Idle EXCEPT !.op = "write", !.o = o, !.v = end]
             pc == IF Extends(fh[o].copy, end) THEN "wset" ELSE "wattr"
             d == [c EXCEPT !.pc = pc]
  <2>1. c \in Calls /\ c.h = None  BY <1>1 DEF Calls, Ops
  <2>2. Goes(t, d) \/ Returns(t, c, "error")  BY <1>11 DEF WriteBegin
  <2>3. /\ call[t].h = None /\ call[t].pc # "empty" /\ fh' = fh
        /\ \E holes \in Nat : Transfers(holes)
    BY <1>2, <1>11, BoundAssumption DEF WriteBegin
  <2>4. d.h = None /\ d.pc # "empty"
    <3>1. pc # "empty"  OBVIOUS
    <3> HIDE DEF c, pc
    <3> QED  BY <2>1, <3>1 DEF Calls
  <2> HIDE DEF c, d, pc
  <2>5. CASE Goes(t, d)  BY <2>3, <2>4, <2>5, CallAccounts
  <2>6. CASE Returns(t, c, "error")  BY <2>1, <2>3, <2>6, ReturnAccounts
  <2> QED  BY <2>2, <2>5, <2>6
<1>12. CASE Remove(t)
  <2> DEFINE c == [Idle EXCEPT !.op = "remove"]
             pc == IF rec.type = "container" THEN "deld" ELSE IF rec.size = 0 THEN "spin" ELSE "dela"
  <2>1. c \in Calls  BY <1>1 DEF Calls, Ops
  <2>2. call[t].h = None /\ call[t].pc # "empty" /\ fh' = fh /\ mem' = Allocate(mem)
    BY <1>2, <1>12 DEF Remove
  <2>3. \/ Returns(t, c, "error") /\ Loses
        \/ rec # None /\ Goes(t, [c EXCEPT !.h = Current, !.pc = pc]) /\ ends' = ends
    BY <1>12 DEF Remove
  <2>4. pc # "empty"  OBVIOUS
  <2> HIDE DEF c, pc
  <2> QED  BY <2>1, <2>2, <2>3, <2>4, FirstHandleAccounts
<1>13. (\A v \in Modes : v \in Nat) /\ (\A v \in 0 .. MaxSize : v \in Nat)  BY BoundAssumption
<1>14. AttrOps \ {"truncate"} \subseteq AttrOps /\ "truncate" \in AttrOps  BY DEF AttrOps
<1> QED  BY <1>3, <1>5, <1>6, <1>7, <1>8, <1>9, <1>10, <1>11, <1>12, <1>13, <1>14 DEF Begin

\* A call that takes a cursor, or loses it with its handle.
LEMMA CursorAccounts ==
  ASSUME WeakTypeOK, WeakTypeOK', MemoryAccounted, NEW t \in Threads, NEW d, Goes(t, d),
         call[t].h # None, fh' = fh,
         \/ /\ call[t].pc = "deld" /\ d.h # None /\ d.pc = "empty"
            /\ mem' = OpenCursor(mem) /\ ends' = ends
         \/ /\ call[t].pc = "empty" /\ d.h = None /\ d.pc # "empty"
            /\ mem' = mem /\ ends' = [ends EXCEPT !.lost = @ + 1, !.cursors = @ + 1]
  PROVE  MemoryAccounted'
<1>1. OpenFiles' = OpenFiles /\ OpenFiles \in SUBSET Opens  BY DEF OpenFiles
<1>2. Cardinality(OpenFiles) \in Nat /\ Cardinality(OpenFiles') = Cardinality(OpenFiles)
  BY <1>1, FiniteAssumption, FS_Subset, FS_CardinalityType
<1>3. mem \in WeakMemory /\ ends \in Ends  BY DEF WeakTypeOK
<1>4. CASE /\ call[t].pc = "deld" /\ d.h # None /\ d.pc = "empty"
           /\ mem' = OpenCursor(mem) /\ ends' = ends
  <2>1. /\ Held(d.h) = 1 /\ Held(call[t].h) = 1
        /\ HasCursor(d.pc) = 1 /\ HasCursor(call[t].pc) = 0
    BY <1>4 DEF Held, HasCursor
  <2>2. mem' = [handle |-> mem.handle, buffers |-> mem.buffers, env |-> mem.env,
                cursor |-> mem.cursor + 1, block |-> mem.block]
    BY <1>3, <1>4, MemorySteps
  <2>3. /\ mem'.handle = mem.handle + (Held(d.h) - Held(call[t].h))
             + (Cardinality(OpenFiles') - Cardinality(OpenFiles)) + (ends'.lost - ends.lost)
        /\ mem'.buffers = mem.buffers + (mem'.handle - mem.handle) + (ends'.released - ends.released)
        /\ mem'.env = mem.env + (ends'.transfers - ends.transfers)
        /\ mem'.cursor = mem.cursor + (HasCursor(d.pc) - HasCursor(call[t].pc))
             + (ends'.cursors - ends.cursors)
        /\ mem'.block = mem.block + (ends'.holes - ends.holes)
    BY <1>2, <1>3, <1>4, <2>1, <2>2, CountTypes
  <2> QED  BY <1>2, <2>3, Accounts
<1>5. CASE /\ call[t].pc = "empty" /\ d.h = None /\ d.pc # "empty"
           /\ mem' = mem /\ ends' = [ends EXCEPT !.lost = @ + 1, !.cursors = @ + 1]
  <2>1. /\ Held(d.h) = 0 /\ Held(call[t].h) = 1
        /\ HasCursor(d.pc) = 0 /\ HasCursor(call[t].pc) = 1
    BY <1>5 DEF Held, HasCursor
  <2>2. /\ ends'.lost = ends.lost + 1 /\ ends'.released = ends.released
        /\ ends'.transfers = ends.transfers /\ ends'.cursors = ends.cursors + 1
        /\ ends'.holes = ends.holes
    BY <1>3, <1>5 DEF Ends
  <2>3. /\ mem'.handle = mem.handle + (Held(d.h) - Held(call[t].h))
             + (Cardinality(OpenFiles') - Cardinality(OpenFiles)) + (ends'.lost - ends.lost)
        /\ mem'.buffers = mem.buffers + (mem'.handle - mem.handle) + (ends'.released - ends.released)
        /\ mem'.env = mem.env + (ends'.transfers - ends.transfers)
        /\ mem'.cursor = mem.cursor + (HasCursor(d.pc) - HasCursor(call[t].pc))
             + (ends'.cursors - ends.cursors)
        /\ mem'.block = mem.block + (ends'.holes - ends.holes)
    BY <1>2, <1>3, <1>5, <2>1, <2>2, CountTypes
  <2> QED  BY <1>2, <2>3, Accounts
<1> QED  BY <1>4, <1>5

\* An rmdir opens its cursor, or returns without one.
LEMMA DeldCursorAccounts ==
  ASSUME WeakTypeOK, WeakTypeOK', MemoryAccounted, NEW t \in Threads, DeldCursor(t)
  PROVE  MemoryAccounted'
<1> DEFINE c == call[t]
           d == [c EXCEPT !.pc = "empty"]
<1>1. c \in Calls /\ c.pc = "deld" /\ c.h \in Handle /\ c.h # None /\ fh' = fh
  BY OwnHandleType, HandleAssumption DEF DeldCursor, At, OwnHandle
<1>2. d.h = c.h /\ d.pc = "empty"  BY <1>1 DEF Calls
<1>3. \/ Goes(t, d) /\ mem' = OpenCursor(mem) /\ ends' = ends
      \/ Returns(t, c, "error") /\ Loses /\ mem' = mem
  BY DEF DeldCursor
<1> HIDE DEF d
<1>4. CASE Goes(t, d) /\ mem' = OpenCursor(mem) /\ ends' = ends
  BY <1>1, <1>2, <1>4, CursorAccounts
<1>5. CASE Returns(t, c, "error") /\ Loses /\ mem' = mem
  BY <1>1, <1>5, ReturnAccounts
<1> QED  BY <1>3, <1>4, <1>5

\* It ends, and its cursor stays.
LEMMA RemoveDirAccounts ==
  ASSUME WeakTypeOK, WeakTypeOK', MemoryAccounted, NEW t \in Threads, RemoveDir(t)
  PROVE  MemoryAccounted'
<1> DEFINE c == call[t]
           r == [c EXCEPT !.op = "rmdir"]
           d == [r EXCEPT !.did = {"gone"}]
           e(call0, res) == [call0 EXCEPT !.pc = "return", !.res = res, !.h = None]
<1>1. c \in Calls /\ c.pc = "empty" /\ c.h \in Handle /\ c.h # None /\ fh' = fh
  BY OwnHandleType, HandleAssumption DEF RemoveDir, At, OwnHandle
<1>2. r \in Calls  BY <1>1 DEF Calls, Ops
<1>3. d \in Calls
  <2> HIDE DEF r
  <2> QED  BY <1>2 DEF Calls, Fields
<1>4. /\ mem' = mem /\ ends' = [ends EXCEPT !.lost = @ + 1, !.cursors = @ + 1]
      /\ Returns(t, d, "ok") \/ \E res : Returns(t, r, res)
  BY DEF RemoveDir
<1> HIDE DEF d, r
<1>5. PICK b \in Calls : \E res : Returns(t, b, res)  BY <1>2, <1>3, <1>4
<1>8. PICK res : Returns(t, b, res)  BY <1>5
<1>6. e(b, res).h = None /\ e(b, res).pc = "return"  BY DEF Calls
<1>7. Goes(t, e(b, res))  BY <1>8 DEF Returns
<1> HIDE DEF e
<1> QED  BY <1>1, <1>4, <1>6, <1>7, CursorAccounts

\* A handler goes on.
LEMMA ContinueAccounts ==
  ASSUME WeakTypeOK, WeakTypeOK', RecordInv, MemoryAccounted, NEW t \in Threads, Continue(t)
  PROVE  MemoryAccounted'
<1> DEFINE c == call[t]
<1>1. c \in Calls /\ (c.pc \in OwnHandle <=> c.h # None)  BY DEF WeakTypeOK, CallShape
<1>2. ASSUME NEW pc, At(t, pc), pc # "empty"
      PROVE  /\ (pc \in OwnHandle => c.h # None) /\ (pc \notin OwnHandle => c.h = None)
             /\ c.pc # "empty"
  BY <1>1, <1>2 DEF At
<1>3. CASE GetAttr(t)
  <2>1. /\ c.h # None /\ c.pc # "empty" /\ fh' = fh
        /\ mem' = Close(mem, "attr") /\ ends' = ends /\ Returns(t, c, "ok")
    BY <1>2, <1>3 DEF GetAttr, OwnHandle
  <2> QED  BY <1>1, <2>1, ReturnAccounts
<1>4. ASSUME NEW op, NEW field \in Fields, NEW copy, NEW new, SetOwnership(t, op, field, copy, new)
      PROVE  MemoryAccounted'
  <2> DEFINE d == [c EXCEPT !.did = {field}]
  <2>1. d \in Calls  BY <1>1, <1>4 DEF Calls
  <2>2. c.h # None /\ c.pc # "empty" /\ fh' = fh  BY <1>2, <1>4 DEF SetOwnership, OwnHandle
  <2>3. \/ Returns(t, d, "ok") /\ Loses /\ mem' = mem
        \/ Returns(t, c, "ok") /\ mem' = Close(mem, "attr") /\ ends' = ends
    BY <1>4 DEF SetOwnership
  <2> HIDE DEF d
  <2> QED  BY <1>1, <2>1, <2>2, <2>3, ReturnAccounts
<1>5. CASE ChmodPut(t) \/ ChownPut(t)  BY <1>4, <1>5 DEF ChmodPut, ChownPut, Fields
<1>6. CASE UtimeFirst(t)
  <2> DEFINE n == [copy |-> SetMtime(c.h.copy, c.v), seen |-> ver + 1]
             d == [c EXCEPT !.pc = "set2", !.did = {"mtime"}, !.h = n]
  <2>1. /\ c.h # None /\ c.h.copy \in Attrs /\ c.v \in Nat /\ fh' = fh /\ ends' = ends
        /\ c.pc # "empty"
    BY <1>2, <1>6, OwnHandleType DEF UtimeFirst, OwnHandle, At
  <2>2. n \in Handle /\ n # None
    <3>1. SetMtime(c.h.copy, c.v) \in Attrs  BY <2>1, Setters
    <3> QED  BY <3>1, HandleAssumption DEF Handle, WeakTypeOK
  <2>3. d.h = n /\ d.pc # "empty"
    <3> HIDE DEF n
    <3> QED  BY <1>1 DEF Calls
  <2>4. \/ Goes(t, d) /\ mem' = mem
        \/ Returns(t, c, "error") /\ mem' = Close(mem, "attr")
    BY <1>6 DEF UtimeFirst
  <2>5. Held(d.h) = Held(call[t].h)  BY <2>1, <2>2, <2>3 DEF Held
  <2> HIDE DEF d
  <2>6. CASE Goes(t, d) /\ mem' = mem  BY <2>1, <2>3, <2>5, <2>6, CallAccounts
  <2>7. CASE Returns(t, c, "error") /\ mem' = Close(mem, "attr")
    BY <1>1, <2>1, <2>7, ReturnAccounts
  <2> QED  BY <2>4, <2>6, <2>7
<1>7. ASSUME NEW field \in Fields, NEW copy, NEW new, LastPut(t, field, copy, new), c.h # None,
             c.pc # "empty"
      PROVE  MemoryAccounted'
  <2> DEFINE d == [c EXCEPT !.did = @ \cup {field}]
  <2>1. d \in Calls  BY <1>1 DEF Calls
  <2>2. fh' = fh /\ mem' = Close(mem, "attr") /\ ends' = ends  BY <1>7 DEF LastPut
  <2>3. Returns(t, d, "ok") \/ Returns(t, c, "error")  BY <1>7 DEF LastPut
  <2> HIDE DEF d
  <2> QED  BY <1>1, <1>7, <2>1, <2>2, <2>3, ReturnAccounts
<1>8. CASE UtimeSecond(t)
  <2>1. c.h # None /\ c.pc # "empty"  BY <1>2, <1>8 DEF UtimeSecond, OwnHandle
  <2> QED  BY <1>7, <1>8, <2>1 DEF UtimeSecond, Fields
<1>9. CASE Truncate(t)
  <2>1. c.h # None /\ c.pc # "empty"  BY <1>2, <1>9 DEF Truncate, OwnHandle
  <2> QED  BY <1>7, <1>9, <2>1 DEF Truncate, Fields
<1>10. CASE CreateOpen(t)
  <2>1. c.h = None /\ c.pc = "open" /\ StreamOpen(t, c)  BY <1>2, <1>10 DEF CreateOpen, OwnHandle, At
  <2>2. c.o \in Opens /\ fh[c.o] = None
    BY <1>10, <2>1 DEF WeakTypeOK, CallShape, RecordInv, OpensAlone
  <2> QED  BY <1>1, <2>1, <2>2, StreamOpenAccounts
<1>11. CASE WriteSet(t)
  <2> DEFINE d == [c EXCEPT !.pc = "wattr"]
             n == [copy |-> SetSize(fh[c.o].copy, c.v), seen |-> fh[c.o].seen]
  <2>1. Goes(t, d) /\ UNCHANGED <<mem, ends>> /\ c.pc \in InWrite /\ c.h = None
    BY <1>2, <1>11 DEF WriteSet, At, InWrite, OwnHandle
  <2>2. d.h = None /\ d.pc # "empty" /\ c.pc # "empty"  BY <1>1, <2>1 DEF Calls, InWrite
  <2>3. /\ c.o \in Opens /\ c.v \in Nat /\ fh[c.o] # None
        /\ fh[c.o].copy \in Attrs /\ fh[c.o].seen \in Nat
    BY <2>1, InWriteType
  <2>4. n # None
    <3>1. SetSize(fh[c.o].copy, c.v) \in Attrs  BY <2>3, Setters
    <3> QED  BY <2>3, <3>1, HandleAssumption DEF Handle
  <2>5. fh' = [fh EXCEPT ![c.o] = n]  BY <1>11, WriteSetType
  <2> HIDE DEF d, n
  <2>6. OpenFiles' = OpenFiles  BY <2>3, <2>4, <2>5 DEF OpenFiles, WeakTypeOK
  <2>7. Held(d.h) = Held(call[t].h)  BY <2>1, <2>2
  <2> QED  BY <2>1, <2>2, <2>6, <2>7, CallAccounts
<1>12. CASE WriteAttr(t)
  <2> DEFINE d == [c EXCEPT !.did = {"size"}]
             n == [copy |-> fh[c.o].copy, seen |-> ver + 1]
  <2>1. UNCHANGED <<mem, ends>> /\ c.pc \in InWrite /\ c.pc # "empty" /\ c.h = None
    BY <1>2, <1>12 DEF WriteAttr, At, InWrite, OwnHandle
  <2>2. d \in Calls  BY <1>1 DEF Calls, Fields
  <2>3. c.o \in Opens /\ fh[c.o] # None /\ fh[c.o].copy \in Attrs  BY <2>1, InWriteType
  <2>4. n # None  BY <2>3, HandleAssumption DEF Handle, WeakTypeOK
  <2>5. fh' = fh \/ fh' = [fh EXCEPT ![c.o] = n]  BY <1>12, WriteAttrType DEF RecordInv
  <2>6. Returns(t, d, "ok") \/ Returns(t, c, "error")  BY <1>12 DEF WriteAttr
  <2> HIDE DEF d, n
  <2>7. OpenFiles' = OpenFiles  BY <2>3, <2>4, <2>5 DEF OpenFiles, WeakTypeOK
  <2> QED  BY <1>1, <2>1, <2>2, <2>6, <2>7, ReturnAccounts
<1>13. ASSUME NEW d \in Calls, NEW res, Returns(t, d, res), c.pc \in OwnHandle \ {"empty"},
              mem' = mem, Loses, fh' = fh
       PROVE  MemoryAccounted'
  <2>1. c.h # None  BY <1>1, <1>13
  <2> QED  BY <1>13, <2>1, ReturnAccounts
<1>14. CASE RemoveFile(t)
  <2> DEFINE d == [c EXCEPT !.did = {"gone"}]
  <2>1. d \in Calls  BY <1>1 DEF Calls, Fields
  <2>2. Returns(t, d, "ok") \/ Returns(t, c, "error")  BY <1>14 DEF RemoveFile
  <2>3. c.pc \in OwnHandle \ {"empty"} /\ mem' = mem /\ Loses /\ fh' = fh
    BY <1>14 DEF RemoveFile, At, OwnHandle
  <2> HIDE DEF d
  <2> QED  BY <1>1, <1>13, <2>1, <2>2, <2>3
<1>15. CASE RemoveDir(t)  BY <1>15, RemoveDirAccounts
<1>16. CASE RemoveFail(t)
  <2>1. c.pc \in OwnHandle \ {"empty"} /\ mem' = mem /\ Loses /\ fh' = fh /\ Returns(t, c, "error")
    BY <1>16 DEF RemoveFail, At, OwnHandle
  <2> QED  BY <1>1, <1>13, <2>1
<1>17. CASE Return(t)
  <2>1. Goes(t, Idle) /\ fh' = fh /\ UNCHANGED <<mem, ends>> /\ c.h = None /\ c.pc # "empty"
    BY <1>2, <1>17 DEF Return, OwnHandle
  <2>2. Held(Idle.h) = Held(call[t].h) /\ Idle.pc # "empty"  BY <2>1 DEF Idle
  <2> QED  BY <2>1, <2>2, CallAccounts
<1>18. CASE DeldCursor(t)  BY <1>18, DeldCursorAccounts
<1> QED  BY <1>3, <1>5, <1>6, <1>8, <1>9, <1>10, <1>11, <1>12, <1>14, <1>15, <1>16, <1>17, <1>18
         DEF Continue

\* Of the handles, buffers, cursors, environments and block buffers that the
\* calls of MangooFuse take, what is never freed is exactly what
\* MemoryAccounted lists (stream.c:68, :208-214, dir.c:183, dbfs.c:62-95,
\* mangoofuse.c:122, :136, :219, :236), for any threads, files, holes and
\* calls.  The counts then never fall below zero: nothing is freed twice, and
\* every variable keeps its type.
THEOREM MemoryAccountedTheorem == Spec => [](MemoryAccounted /\ TypeOK)
<1> DEFINE IInv == WeakTypeOK /\ RecordInv /\ MemoryAccounted
<1>1. Init => IInv
  <2> SUFFICES ASSUME Init  PROVE MemoryAccounted  BY RecordInit
  <2>1. HoldingCalls = {} /\ OpenFiles = {} /\ EmptyCalls = {}
    BY DEF Init, Idle, HoldingCalls, OpenFiles, EmptyCalls
  <2>2. Cardinality(HoldingCalls) = 0 /\ Cardinality(OpenFiles) = 0 /\ Cardinality(EmptyCalls) = 0
    BY <2>1, FS_EmptySet
  <2> QED  BY <2>2 DEF Init, MemoryAccounted, HandlesAccounted, CursorsAccounted, BlocksAccounted,
                       HoldingCalls, OpenFiles, EmptyCalls, NoMemory, NoEnds
<1>2. IInv /\ [Next]_vars => IInv'
  <2> SUFFICES ASSUME IInv, [Next]_vars  PROVE IInv'  OBVIOUS
  <2>1. WeakTypeOK' /\ RecordInv'  BY TypeStep, RecordStep DEF RecordInv
  <2>2. ASSUME UNCHANGED <<mem, ends, call, fh>>  PROVE MemoryAccounted'
    BY <2>2 DEF MemoryAccounted, HandlesAccounted, CursorsAccounted, BlocksAccounted
  <2>3. Mount \/ Unmount \/ UNCHANGED vars => UNCHANGED <<mem, ends, call, fh>>
    BY DEF Mount, Unmount, vars
  <2>4. MemoryAccounted'  BY <2>1, <2>2, <2>3, BeginAccounts, ContinueAccounts DEF Next
  <2> QED  BY <2>1, <2>4
<1>3. IInv => MemoryAccounted /\ TypeOK
  <2> SUFFICES ASSUME IInv  PROVE mem \in Memory  BY DEF WeakTypeOK, TypeOK
  <2>1. HoldingCalls \in SUBSET Threads /\ OpenFiles \in SUBSET Opens /\ EmptyCalls \in SUBSET Threads
    BY DEF HoldingCalls, OpenFiles, EmptyCalls
  <2>2. /\ Cardinality(HoldingCalls) \in Nat /\ Cardinality(OpenFiles) \in Nat
        /\ Cardinality(EmptyCalls) \in Nat
    BY <2>1, FiniteAssumption, FS_Subset, FS_CardinalityType
  <2>3. /\ mem.handle = Cardinality(HoldingCalls) + Cardinality(OpenFiles) + ends.lost
        /\ mem.buffers = mem.handle + ends.released /\ mem.env = ends.transfers
        /\ mem.cursor = Cardinality(EmptyCalls) + ends.cursors /\ mem.block = ends.holes
    BY DEF MemoryAccounted, HandlesAccounted, CursorsAccounted, BlocksAccounted,
           HoldingCalls, OpenFiles, EmptyCalls
  <2>4. /\ ends.lost \in Nat /\ ends.released \in Nat /\ ends.transfers \in Nat
        /\ ends.cursors \in Nat /\ ends.holes \in Nat /\ mem \in WeakMemory
    BY CountTypes DEF WeakTypeOK
  <2>5. /\ mem.handle \in Nat /\ mem.buffers \in Nat /\ mem.env \in Nat
        /\ mem.cursor \in Nat /\ mem.block \in Nat
    BY <2>2, <2>3, <2>4
  <2> QED  BY <2>4, <2>5 DEF WeakMemory, Memory
<1> QED  BY <1>1, <1>2, <1>3, PTL DEF Spec

\* Every variable keeps its type; the counts of memory do because they balance.
THEOREM TypeTheorem == Spec => []TypeOK
BY MemoryAccountedTheorem, PTL
=============================================================================
