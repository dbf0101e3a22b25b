----------------------------- MODULE DbfsStream -----------------------------
(***************************************************************************)
(* The bytes of one file of a dbfs store: dbfs_read and dbfs_write over    *)
(* dbfs_readwrite, and dbfs_truncateblocks under dbfs_setsize and          *)
(* dbfs_dels.  A file is a set of blocks of BLK bytes, keyed by the offset *)
(* of their first byte; a write gets, changes and puts back one block      *)
(* after the other.  Threads use a handle of their own each, which holds   *)
(* the size of the file as it was when the handle was opened; nothing      *)
(* locks a block between the get and the put.                              *)
(*                                                                         *)
(* Each action is one call into Berkeley DB with the code around it.       *)
(***************************************************************************)
EXTENDS Integers

CONSTANTS
  Threads,    \* threads calling the store, with an open handle each
  BLK,        \* DBFS_BLKSIZE
  Data,       \* values of the bytes that callers write
  Zero,       \* the byte memset leaves in a hole
  Junk,       \* a byte of a malloc'ed block that nobody set
  MaxOff,     \* bound: all offsets in use are below it
  Lens        \* bound: the sizes of reads and writes

ASSUME BlkAssumption == BLK \in Nat \ {0}
ASSUME ValueAssumption == Zero \notin Data /\ Junk \notin Data /\ Zero # Junk
ASSUME BoundAssumption == MaxOff \in Nat /\ Lens \subseteq Nat

Offsets == 0 .. MaxOff - 1
Bytes == Data \cup {Zero, Junk}
Block == [0 .. BLK - 1 -> Bytes]

VARIABLES
  blocks,    \* the blocks in the tree: a function from the offsets they start at
  size,      \* ddd_size of the file's entry in the tree
  there,     \* whether the entry is in the tree
  hsize,     \* per thread: ddd_size in its handle
  io,        \* per thread: the locals of the call it is in
  last,      \* history: the last value put into each byte of the file (Junk: none)
  raced,     \* history: blocks put back while another thread held a copy to put
  quiet      \* history, per thread: no block was put or deleted since its read began

vars == <<blocks, size, there, hsize, io, last, raced, quiet>>

Steps == {"idle", "wget", "wput", "wattr", "rget", "read", "trunc", "setsize", "dela"}
Idle == [pc |-> "idle", start |-> 0, off |-> 0, left |-> 0, dbk |-> 0, end |-> 0,
         val |-> Zero, data |-> <<>>, buf |-> <<>>, err |-> "none", then |-> "idle",
         odd |-> FALSE]

Errors == {"none", "DB_NOTFOUND", "EIO"}

\* x - (x & (DBFS_BLKSIZE - 1)); a slip to catch beside it.
BlockUnaligned(x) == x
BlockStart(x) == x - (x % BLK)

Init ==
  /\ blocks = <<>>
  /\ size = 0 /\ there = TRUE
  /\ hsize = [t \in Threads |-> 0]
  /\ io = [t \in Threads |-> Idle]
  /\ last = [o \in Offsets |-> Junk]
  /\ raced = {}
  /\ quiet = [t \in Threads |-> FALSE]

IoType(i) ==
  /\ DOMAIN i = DOMAIN Idle
  /\ i.pc \in Steps /\ i.then \in {"idle", "setsize", "dela"}
  /\ i.start \in Nat /\ i.off \in Nat /\ i.left \in Nat /\ i.dbk \in Nat /\ i.end \in Nat
  /\ i.val \in Data \cup {Zero} /\ i.err \in Errors /\ i.odd \in BOOLEAN
  /\ i.pc = "wput" => i.data \in Block

TypeOK ==
  /\ DOMAIN blocks \subseteq Nat /\ \A d \in DOMAIN blocks : blocks[d] \in Block
  /\ size \in Nat /\ there \in BOOLEAN
  /\ hsize \in [Threads -> Nat]
  /\ DOMAIN io = Threads /\ \A t \in Threads : IoType(io[t])
  /\ last \in [Offsets -> Bytes]
  /\ raced \subseteq Nat
  /\ quiet \in [Threads -> BOOLEAN]

Set(t, r) == io' = [io EXCEPT ![t] = r]

\* How much of the next block a call touches; a slip to catch beside it: all
\* that is left of the block.
SizeInBlkWhole(i) == BLK - (i.off - i.dbk)
SizeInBlk(i) ==
  IF i.off - i.dbk + i.left > BLK THEN BLK - (i.off - i.dbk) ELSE i.left

\* The end of the loop body: offset, size and dbk_offset move on; a slip to
\* catch beside it: they do not.
AdvanceNot(i) == i
Advance(i) ==
  [i EXCEPT !.off = @ + SizeInBlk(i), !.left = @ - SizeInBlk(i), !.dbk = i.off + SizeInBlk(i)]

Put(k, b) == [d \in DOMAIN blocks \cup {k} |-> IF d = k THEN b ELSE blocks[d]]
Del(k) == [d \in DOMAIN blocks \ {k} |-> blocks[d]]
Disturb(t) == [u \in Threads |-> quiet[u] /\ u = t]

-----------------------------------------------------------------------------
(* Opening *)

\* The handle is closed and dbfs_sopen makes a new one.
Reopen(t) ==
  /\ io[t].pc = "idle" /\ there
  /\ hsize' = [hsize EXCEPT ![t] = size]
  /\ UNCHANGED <<blocks, size, there, io, last, raced, quiet>>

-----------------------------------------------------------------------------
(* dbfs_write *)

WriteStart(t, o, n, v) ==
  /\ io[t].pc = "idle" /\ o + n <= MaxOff
  /\ Set(t, [Idle EXCEPT !.pc = IF n = 0 THEN "wattr" ELSE "wget",
                         !.start = o, !.off = o, !.left = n, !.dbk = BlockStart(o), !.val = v])
  /\ UNCHANGED <<blocks, size, there, hsize, last, raced, quiet>>

\* The get of a block to change: a block that is not there is malloc'ed and
\* not cleared; another error is EIO and ends the call before the entry is put.
WriteGet(t) ==
  /\ io[t].pc = "wget"
  /\ \/ Set(t, [io[t] EXCEPT !.pc = "wput",
                             !.data = IF io[t].dbk \in DOMAIN blocks
                                      THEN blocks[io[t].dbk] ELSE [x \in 0 .. BLK - 1 |-> Junk]])
     \/ Set(t, Idle)
  /\ UNCHANGED <<blocks, size, there, hsize, last, raced, quiet>>

InCall(i, o) == i.off <= o /\ o < i.off + SizeInBlk(i)

\* memcpy into the copy at offinblk; a slip to catch beside it: at its start.
FillStart(i) ==
  [x \in 0 .. BLK - 1 |-> IF x < SizeInBlk(i) THEN i.val ELSE i.data[x]]
Fill(i) ==
  [x \in 0 .. BLK - 1 |-> IF InCall(i, i.dbk + x) THEN i.val ELSE i.data[x]]

\* The put, or EIO.
WritePut(t) ==
  LET i == io[t]
      next == Advance(i)
  IN  /\ i.pc = "wput"
      /\ \/ /\ blocks' = Put(i.dbk, Fill(i))
            /\ last' = [o \in Offsets |-> IF InCall(i, o) THEN i.val ELSE last[o]]
            /\ raced' = raced \cup
                 {d \in {i.dbk} : \E u \in Threads \ {t} : io[u].pc = "wput" /\ io[u].dbk = d}
            /\ quiet' = Disturb(t)
            /\ Set(t, [next EXCEPT !.pc = IF next.left = 0 THEN "wattr" ELSE "wget"])
         \/ /\ Set(t, Idle)
            /\ UNCHANGED <<blocks, last, raced, quiet>>
      /\ UNCHANGED <<size, there, hsize>>

\* The handle's size grows to the end of the write and the entry is put back
\* (it is there again if it was deleted); the put may fail with EINVAL.
WriteAttr(t) ==
  LET grown == IF hsize[t] < io[t].off THEN io[t].off ELSE hsize[t]
  IN  /\ io[t].pc = "wattr"
      /\ hsize' = [hsize EXCEPT ![t] = grown]
      /\ \/ size' = grown /\ there' = TRUE
         \/ UNCHANGED <<size, there>>
      /\ Set(t, Idle)
      /\ UNCHANGED <<blocks, last, raced, quiet>>

-----------------------------------------------------------------------------
(* dbfs_read *)

\* A read that starts beyond the handle's size returns at once, leaving the
\* caller's size as it was (end is the offset the caller takes the data to
\* reach to); others are cut at the handle's size.
ReadStart(t, o, n) ==
  LET cut == IF o + n > hsize[t] THEN hsize[t] - o ELSE n
      beyond == o > hsize[t]
  IN  /\ io[t].pc = "idle" /\ o < MaxOff
      /\ Set(t, [Idle EXCEPT !.pc = IF beyond \/ cut = 0 THEN "read" ELSE "rget",
                             !.start = o, !.off = o, !.left = IF beyond THEN 0 ELSE cut,
                             !.dbk = BlockStart(o), !.end = o + (IF beyond THEN n ELSE cut)])
      /\ quiet' = [quiet EXCEPT ![t] = TRUE]
      /\ UNCHANGED <<blocks, size, there, hsize, last, raced>>

\* The caller's buffer after the turn: a block that is there is copied, one
\* that is not is zeroes; a slip to catch beside it: no memset.
ReadOnWith(i, hole) ==
  [x \in i.start .. i.off + SizeInBlk(i) - 1 |->
     IF x < i.off THEN i.buf[x]
     ELSE IF i.dbk \in DOMAIN blocks THEN blocks[i.dbk][x - i.dbk] ELSE hole]
ReadOnUnset(i) == ReadOnWith(i, Junk)
ReadOn(i) == ReadOnWith(i, Zero)

\* One turn: a hole leaves DB_NOTFOUND in error, which the next turn overwrites;
\* another error is EIO.
ReadGet(t) ==
  LET i == io[t]
      next == Advance(i)
  IN  /\ i.pc = "rget"
      /\ \/ Set(t, [next EXCEPT !.pc = IF next.left = 0 THEN "read" ELSE "rget", !.buf = ReadOn(i),
                                !.err = IF i.dbk \in DOMAIN blocks THEN "none" ELSE "DB_NOTFOUND"])
         \/ Set(t, [i EXCEPT !.pc = "read", !.err = "EIO", !.left = 0])
      /\ UNCHANGED <<blocks, size, there, hsize, last, raced, quiet>>

ReadReturn(t) ==
  /\ io[t].pc = "read"
  /\ Set(t, Idle)
  /\ quiet' = [quiet EXCEPT ![t] = FALSE]
  /\ UNCHANGED <<blocks, size, there, hsize, last, raced>>

-----------------------------------------------------------------------------
(* dbfs_truncateblocks, for dbfs_setsize and dbfs_dels *)

\* while (size <= 0) on an unsigned size.  A slip to catch: it goes on while
\* some of the size is left, so that the bytes of the first block go which are
\* below the new size of the file.
TruncWhileLeft(left) == left # 0
TruncGoesOn(left) == left = 0

\* mattr_setsize on a handle just opened: the blocks are cut only when the
\* file shrinks.
SetSizeStart(t, n) ==
  /\ io[t].pc = "idle" /\ there /\ n <= MaxOff
  /\ Set(t, [Idle EXCEPT !.pc = IF size > n THEN "trunc" ELSE "setsize", !.then = "setsize",
                         !.start = n, !.off = n, !.dbk = BlockStart(n),
                         !.left = IF size > n THEN size - n ELSE 0, !.end = size])
  /\ UNCHANGED <<blocks, size, there, hsize, last, raced, quiet>>

\* dbfs_delete of the file: dbfs_dels from 0 to the size read just before.
DeleteStart(t) ==
  /\ io[t].pc = "idle" /\ there
  /\ Set(t, [Idle EXCEPT !.pc = "trunc", !.then = "dela", !.left = size, !.end = size])
  /\ UNCHANGED <<blocks, size, there, hsize, last, raced, quiet>>

\* A turn: the del (of a block that may not be there).  odd counts the turns,
\* so that one which changes nothing else is a step all the same.
TruncTurn(t) ==
  /\ io[t].pc = "trunc" /\ TruncGoesOn(io[t].left)
  /\ Set(t, [Advance(io[t]) EXCEPT !.odd = ~@])
  /\ blocks' = Del(io[t].dbk)
  /\ last' = [o \in Offsets |-> IF BlockStart(o) = io[t].dbk THEN Junk ELSE last[o]]
  /\ quiet' = Disturb(t)
  /\ UNCHANGED <<size, there, hsize, raced>>

\* The del fails: EIO.
TruncFail(t) ==
  /\ io[t].pc = "trunc" /\ TruncGoesOn(io[t].left)
  /\ Set(t, Idle)
  /\ UNCHANGED <<blocks, size, there, hsize, last, raced, quiet>>

TruncReturn(t) ==
  /\ io[t].pc = "trunc" /\ ~TruncGoesOn(io[t].left)
  /\ Set(t, [io[t] EXCEPT !.pc = io[t].then])
  /\ UNCHANGED <<blocks, size, there, hsize, last, raced, quiet>>

\* dbfs_setsize puts the entry with the new size, or EINVAL.
SetSizeWrite(t) ==
  /\ io[t].pc = "setsize"
  /\ Set(t, Idle)
  /\ \/ size' = io[t].start /\ there' = TRUE
     \/ UNCHANGED <<size, there>>
  /\ UNCHANGED <<blocks, hsize, last, raced, quiet>>

\* dbfs_dela: the entry goes; ENOENT when it is gone already, or EIO.
DeleteEntry(t) ==
  /\ io[t].pc = "dela"
  /\ Set(t, Idle)
  /\ there' \in {there, FALSE}
  /\ UNCHANGED <<blocks, size, hsize, last, raced, quiet>>

-----------------------------------------------------------------------------
Continue(t) ==
  \/ WriteGet(t) \/ WritePut(t) \/ WriteAttr(t)
  \/ ReadGet(t) \/ ReadReturn(t)
  \/ TruncTurn(t) \/ TruncReturn(t) \/ SetSizeWrite(t) \/ DeleteEntry(t)

Begin(t) ==
  \/ Reopen(t)
  \/ \E o \in Offsets, n \in Lens, v \in Data : WriteStart(t, o, n, v)
  \/ \E o \in Offsets, n \in Lens : ReadStart(t, o, n)
  \/ \E n \in 0 .. MaxOff : SetSizeStart(t, n)
  \/ DeleteStart(t)

Next == \E t \in Threads : Begin(t) \/ Continue(t) \/ TruncFail(t)

Spec == Init /\ [][Next]_vars

\* A thread inside a call is scheduled again: nothing in these calls blocks.
\* A del never has to fail.
FairSpec == Spec /\ \A t \in Threads : WF_vars(Continue(t))

-----------------------------------------------------------------------------
(* Properties *)

\* No byte of the file lives in two blocks: whatever calls ran, at whatever
\* offsets and of whatever lengths, two blocks never overlap.  The first key
\* of a call is rounded down, and the later ones are rounded only by where the
\* block before ended (stream.c:35, :92-95).
BlocksDisjoint ==
  \A d, e \in DOMAIN blocks : d < e => d + BLK <= e

\* A byte put is the byte in the tree until it is put again or deleted, except
\* in a block that two threads held copies of at once: the one who puts last
\* takes the bytes of the other away (stream.c:57-84 locks nothing).
BytesKept ==
  \A o \in Offsets :
    LET d == BlockStart(o)
    IN  last[o] # Junk /\ d \notin raced =>
          d \in DOMAIN blocks /\ blocks[d][o - d] = last[o]

\* What a read returns when nothing was put or deleted while it ran: every
\* byte it reports, each as it was last put, zero where there is no block; and
\* the error is 0 unless the last block is a hole, whose DB_NOTFOUND is
\* returned to the caller (stream.c:57-75, 104).  A read that starts beyond
\* the size of the handle is not covered: its buffer is not touched.
ReadBack ==
  \A t \in Threads :
    LET i == io[t]
        hole(o) == BlockStart(o) \notin DOMAIN blocks
    IN  i.pc = "read" /\ quiet[t] /\ i.err # "EIO" /\ i.start <= hsize[t] =>
          /\ \A o \in {x \in Offsets : i.start <= x /\ x < i.end} :
               /\ o \in DOMAIN i.buf
               /\ hole(o) => i.buf[o] = Zero
               /\ last[o] # Junk /\ BlockStart(o) \notin raced => i.buf[o] = last[o]
          /\ i.err = "DB_NOTFOUND" <=> i.start < i.end /\ hole(i.end - 1)

\* A read or a write ends, whatever the other threads do: each turn of the
\* loop takes some of the size away (stream.c:43, :94).
ReadWriteReturn ==
  \A t \in Threads :
    io[t].pc \in {"wget", "wput", "wattr", "rget", "read"} ~> io[t].pc = "idle"

\* Why they end: every step of such a call, whichever it is and wherever its
\* offsets lie in their blocks, leaves less to do.
Work(i) ==
  CASE i.pc = "wget" -> 2 * i.left + 1
    [] i.pc = "wput" -> 2 * i.left
    [] i.pc = "rget" -> i.left + 1
    [] i.pc \in {"wattr", "read"} -> 1
    [] OTHER -> 0
EachStepShrinks ==
  [][\A t \in Threads : Work(io[t]) > 0 /\ io'[t] # io[t] => Work(io'[t]) < Work(io[t])]_vars

\* What callers see of all this is what FilePromise says: whatever the calls of
\* other threads do between a get and a put, a write stores its own bytes only,
\* a read that reports success gets all it reports, each byte as it was when
\* its block was got, and a byte is another than the last one stored only in a
\* block that two threads were about to put.  A read that starts beyond the
\* size of its handle is none: its buffer is not touched.
CallOf(t) ==
  LET i == io[t]
      call(op, from, lo, hi, val, got) ==
        [op |-> op, from |-> from, lo |-> lo, hi |-> hi, val |-> val, got |-> got]
  IN  CASE i.pc \in {"wget", "wput", "wattr"} ->
             call("write", i.start, i.off, i.off + i.left, i.val, <<>>)
        [] i.pc = "rget" -> call("read", i.start, i.off, i.end, Junk, i.buf)
        [] i.pc = "read" /\ i.err # "EIO" /\ i.start <= hsize[t] ->
             call("read", i.start, i.end, i.end, Junk, i.buf)
        [] i.pc = "setsize" \/ (i.pc = "trunc" /\ i.then = "setsize") ->
             call("resize", i.start, i.start, i.start, Junk, <<>>)
        [] i.pc = "dela" \/ (i.pc = "trunc" /\ i.then = "dela") ->
             call("remove", 0, 0, 0, Junk, <<>>)
        [] OTHER -> call("none", 0, 0, 0, Junk, <<>>)

Calls == [t \in Threads |-> CallOf(t)]
Void == {o \in Offsets : BlockStart(o) \in raced}
BlockOf == [o \in Nat |-> BlockStart(o)]

Promise == INSTANCE FilePromise WITH
  Unit <- BlockOf, Unset <- Junk, Callers <- Threads,
  bytes <- last, void <- Void, call <- Calls
KeepsBytes == Promise!Spec

\* "Iterate over blocks in the given range" (stream.c:126): when
\* dbfs_truncateblocks is done, no block of the range it was given is left.
TruncateFrees ==
  \A t \in Threads :
    io[t].pc \in {"setsize", "dela"} =>
      \A d \in DOMAIN blocks : ~(io[t].start <= d /\ d < io[t].end)

\* "Added file remove" (ChangeLog:8): a delete of a file ends.
DeleteReturns ==
  \A t \in Threads : io[t].then = "dela" ~> io[t].pc = "idle"
=============================================================================
