-------------------------- MODULE DbfsStreamProofs --------------------------
(***************************************************************************)
(* Proofs about DbfsStream, for every block size and any number of threads.*)
(***************************************************************************)
EXTENDS DbfsStream, TLAPS

-----------------------------------------------------------------------------
(* Rounding down to a block *)

\* An offset lies in the block that starts where it is rounded down to.
LEMMA StartBelow ==
  ASSUME NEW x \in Nat
  PROVE  /\ BlockStart(x) \in Nat
         /\ BlockStart(x) <= x /\ x < BlockStart(x) + BLK
  BY BlkAssumption DEF BlockStart

\* Rounding down twice is rounding down once.
LEMMA StartIdempotent ==
  ASSUME NEW x \in Nat
  PROVE  BlockStart(BlockStart(x)) = BlockStart(x)
  BY BlkAssumption DEF BlockStart

\* What lies in a block rounds down to its start.
LEMMA StartWithin ==
  ASSUME NEW d \in Nat, NEW x \in Nat, BlockStart(d) = d, d <= x, x < d + BLK
  PROVE  BlockStart(x) = d
  BY BlkAssumption DEF BlockStart

\* Two starts of blocks are a block apart.
LEMMA StartsApart ==
  ASSUME NEW d \in Nat, NEW e \in Nat, BlockStart(d) = d, BlockStart(e) = e, d < e
  PROVE  d + BLK <= e
<1> SUFFICES ASSUME e < d + BLK PROVE FALSE
  BY BlkAssumption
<1> QED BY StartWithin

\* The block after a block starts BLK later.
LEMMA StartNext ==
  ASSUME NEW d \in Nat, BlockStart(d) = d
  PROVE  BlockStart(d + BLK) = d + BLK
<1> DEFINE s == BlockStart(d + BLK)
<1>1. d + BLK \in Nat /\ BLK \in Nat /\ BLK > 0
  BY BlkAssumption
<1>2. s \in Nat /\ s <= d + BLK /\ d + BLK < s + BLK /\ BlockStart(s) = s
  BY <1>1, StartBelow, StartIdempotent
<1>3. d + BLK <= s
  BY <1>1, <1>2, StartsApart
<1> QED BY <1>1, <1>2, <1>3
-----------------------------------------------------------------------------
(* One thread *)

\* The offset a call is at lies in the block it is at; in a read or a write
\* the block is one that starts where blocks start, and something is left.
Placed(i) ==
  /\ i.pc \in {"wget", "wput", "rget", "trunc"} => i.dbk <= i.off /\ i.off < i.dbk + BLK
  /\ i.pc \in {"wget", "wput", "rget"} => BlockStart(i.dbk) = i.dbk /\ i.left > 0

\* What one turn of a loop does to its locals.
LEMMA AdvanceFacts ==
  ASSUME NEW i, IoType(i), i.dbk <= i.off, i.off < i.dbk + BLK
  PROVE  /\ SizeInBlk(i) \in Nat /\ SizeInBlk(i) <= i.left
         /\ i.off + SizeInBlk(i) <= i.dbk + BLK
         /\ DOMAIN Advance(i) = DOMAIN Idle
         /\ Advance(i).off = i.off + SizeInBlk(i) /\ Advance(i).dbk = i.off + SizeInBlk(i)
         /\ Advance(i).left = i.left - SizeInBlk(i)
         /\ Advance(i).pc = i.pc /\ Advance(i).then = i.then /\ Advance(i).start = i.start
         /\ Advance(i).end = i.end /\ Advance(i).val = i.val /\ Advance(i).err = i.err
         /\ Advance(i).odd = i.odd /\ Advance(i).data = i.data /\ Advance(i).buf = i.buf
<1>1. SizeInBlk(i) \in Nat /\ SizeInBlk(i) <= i.left /\ i.off + SizeInBlk(i) <= i.dbk + BLK
  BY BlkAssumption DEF SizeInBlk, IoType
<1>2. DOMAIN i = DOMAIN Idle
  BY DEF IoType
<1> QED BY <1>1, <1>2 DEF Advance, Idle

\* After a turn something is left only when the next block follows.
LEMMA AdvanceNext ==
  ASSUME NEW i, IoType(i), i.dbk <= i.off, i.off < i.dbk + BLK, BlockStart(i.dbk) = i.dbk
  PROVE  /\ IoType(Advance(i))
         /\ Advance(i).dbk = Advance(i).off
         /\ Advance(i).left # 0 => BlockStart(Advance(i).dbk) = Advance(i).dbk
<1>1. IoType(Advance(i)) /\ Advance(i).dbk = Advance(i).off
  BY AdvanceFacts DEF IoType
<1>2. ASSUME Advance(i).left # 0 PROVE BlockStart(Advance(i).dbk) = Advance(i).dbk
  <2>1. SizeInBlk(i) = BLK - (i.off - i.dbk)
    BY <1>2, AdvanceFacts DEF SizeInBlk, IoType
  <2>2. Advance(i).dbk = i.dbk + BLK
    BY <2>1, AdvanceFacts, BlkAssumption DEF IoType
  <2> QED BY <2>2, StartNext DEF IoType
<1> QED BY <1>1, <1>2

\* A step sets the locals of the thread that takes it and of no other.
LEMMA SetFacts ==
  ASSUME TypeOK, NEW t \in Threads, NEW r, Set(t, r)
  PROVE  DOMAIN io' = Threads /\ io'[t] = r /\ \A u \in Threads \ {t} : io'[u] = io[u]
  BY DEF Set, TypeOK

\* A thread that is not in a call.
LEMMA IdleFacts == IoType(Idle) /\ Placed(Idle)
  BY ValueAssumption DEF IoType, Placed, Idle, Steps, Errors

\* The first step of a call leaves its locals well formed.
LEMMA BeginStep ==
  ASSUME TypeOK, NEW t \in Threads, Begin(t)
  PROVE  /\ DOMAIN io' = Threads /\ IoType(io'[t])
         /\ \A u \in Threads \ {t} : io'[u] = io[u]
         /\ Placed(io[t]) => Placed(io'[t])
<1> USE BlkAssumption, BoundAssumption
<1>1. CASE Reopen(t)
  BY <1>1 DEF Reopen, TypeOK
<1>2. ASSUME NEW o \in Offsets, NEW n \in Lens, NEW v \in Data, WriteStart(t, o, n, v)
      PROVE  /\ DOMAIN io' = Threads /\ IoType(io'[t]) /\ Placed(io'[t])
             /\ \A u \in Threads \ {t} : io'[u] = io[u]
  <2>1. o \in Nat /\ n \in Nat
    BY DEF Offsets
  <2>2. PICK r : /\ Set(t, r)
                 /\ r = [Idle EXCEPT !.pc = IF n = 0 THEN "wattr" ELSE "wget",
                                     !.start = o, !.off = o, !.left = n,
                                     !.dbk = BlockStart(o), !.val = v]
    BY <1>2 DEF WriteStart
  <2>3. IoType(r)
    BY <2>1, <2>2, StartBelow DEF IoType, Idle, Steps, Errors
  <2>4. Placed(r)
    BY <2>1, <2>2, StartBelow, StartIdempotent DEF Placed, Idle
  <2> QED BY <2>2, <2>3, <2>4, SetFacts
<1>3. ASSUME NEW o \in Offsets, NEW n \in Lens, ReadStart(t, o, n)
      PROVE  /\ DOMAIN io' = Threads /\ IoType(io'[t]) /\ Placed(io'[t])
             /\ \A u \in Threads \ {t} : io'[u] = io[u]
  <2> DEFINE cut == IF o + n > hsize[t] THEN hsize[t] - o ELSE n
             beyond == o > hsize[t]
  <2>1. o \in Nat /\ n \in Nat /\ hsize[t] \in Nat /\ (beyond \/ cut \in Nat)
    BY DEF Offsets, TypeOK
  <2>2. PICK r : /\ Set(t, r)
                 /\ r = [Idle EXCEPT !.pc = IF beyond \/ cut = 0 THEN "read" ELSE "rget",
                                     !.start = o, !.off = o, !.left = IF beyond THEN 0 ELSE cut,
                                     !.dbk = BlockStart(o),
                                     !.end = o + (IF beyond THEN n ELSE cut)]
    BY <1>3 DEF ReadStart
  <2>3. IoType(r)
    BY <2>1, <2>2, StartBelow, ValueAssumption DEF IoType, Idle, Steps, Errors
  <2>4. Placed(r)
    BY <2>1, <2>2, StartBelow, StartIdempotent DEF Placed, Idle
  <2> QED BY <2>2, <2>3, <2>4, SetFacts
<1>4. ASSUME NEW n \in 0 .. MaxOff, SetSizeStart(t, n)
      PROVE  /\ DOMAIN io' = Threads /\ IoType(io'[t]) /\ Placed(io'[t])
             /\ \A u \in Threads \ {t} : io'[u] = io[u]
  <2> DEFINE left == IF size > n THEN size - n ELSE 0
  <2>1. n \in Nat /\ size \in Nat /\ left \in Nat /\ BlockStart(n) \in Nat
    BY StartBelow DEF TypeOK
  <2>2. PICK r : /\ Set(t, r)
                 /\ r = [Idle EXCEPT !.pc = IF size > n THEN "trunc" ELSE "setsize",
                                     !.then = "setsize",
                                     !.start = n, !.off = n, !.dbk = BlockStart(n),
                                     !.left = left, !.end = size]
    BY <1>4 DEF SetSizeStart
  <2> HIDE DEF left
  <2>3. IoType(r)
    BY <2>1, <2>2, ValueAssumption DEF IoType, Idle, Steps, Errors
  <2>4. Placed(r)
    BY <2>1, <2>2, StartBelow DEF Placed, Idle
  <2> QED BY <2>2, <2>3, <2>4, SetFacts
<1>5. ASSUME DeleteStart(t)
      PROVE  /\ DOMAIN io' = Threads /\ IoType(io'[t]) /\ Placed(io'[t])
             /\ \A u \in Threads \ {t} : io'[u] = io[u]
  <2>1. size \in Nat
    BY DEF TypeOK
  <2>2. PICK r : /\ Set(t, r)
                 /\ r = [Idle EXCEPT !.pc = "trunc", !.then = "dela", !.left = size, !.end = size]
    BY <1>5 DEF DeleteStart
  <2>3. IoType(r) /\ Placed(r)
    BY <2>1, <2>2, ValueAssumption DEF IoType, Placed, Idle, Steps, Errors
  <2> QED BY <2>2, <2>3, SetFacts
<1> QED BY <1>1, <1>2, <1>3, <1>4, <1>5 DEF Begin

\* A later step of a call keeps its locals well formed.
LEMMA ContinueStep ==
  ASSUME TypeOK, NEW t \in Threads, Placed(io[t]), Continue(t) \/ TruncFail(t)
  PROVE  /\ DOMAIN io' = Threads /\ IoType(io'[t]) /\ Placed(io'[t])
         /\ \A u \in Threads \ {t} : io'[u] = io[u]
<1> DEFINE i == io[t]
           Good == /\ DOMAIN io' = Threads /\ IoType(io'[t]) /\ Placed(io'[t])
                   /\ \A u \in Threads \ {t} : io'[u] = io[u]
<1> SUFFICES Good
  OBVIOUS
<1> USE BlkAssumption
<1>0. IoType(i) /\ DOMAIN i = DOMAIN Idle /\ \A d \in DOMAIN blocks : blocks[d] \in Block
  BY DEF TypeOK, IoType
<1>1. ASSUME Set(t, Idle) PROVE Good
  BY <1>1, SetFacts, IdleFacts
<1>2. ASSUME NEW r, Set(t, r), IoType(r), Placed(r) PROVE Good
  BY <1>2, SetFacts
<1> HIDE DEF Good
<1>3. CASE WriteGet(t)
  <2>1. CASE Set(t, Idle)
    BY <2>1, <1>1
  <2>2. CASE ~Set(t, Idle)
    <3>1. PICK b, r : b \in Block /\ Set(t, r) /\ r = [i EXCEPT !.pc = "wput", !.data = b]
      <4>1. [x \in 0 .. BLK - 1 |-> Junk] \in Block
        BY DEF Block, Bytes
      <4>2. CASE i.dbk \in DOMAIN blocks
        BY <1>3, <2>2, <1>0, <4>2 DEF WriteGet
      <4>3. CASE i.dbk \notin DOMAIN blocks
        BY <1>3, <2>2, <4>1, <4>3 DEF WriteGet
      <4> QED BY <4>2, <4>3
    <3>2. IoType(r)
      BY <3>1, <1>0 DEF IoType, Steps, Idle
    <3>3. Placed(r)
      BY <3>1, <1>0, <1>3 DEF Placed, WriteGet, Idle
    <3> QED BY <3>1, <3>2, <3>3, <1>2
  <2> QED BY <2>1, <2>2
<1>4. CASE WritePut(t)
  <2> DEFINE next == Advance(i)
  <2>1. CASE Set(t, Idle)
    BY <2>1, <1>1
  <2>2. CASE ~Set(t, Idle)
    <3>1. Placed(i) /\ i.pc = "wput"
      BY <1>4 DEF WritePut
    <3>2. /\ IoType(next) /\ DOMAIN next = DOMAIN Idle /\ next.dbk = next.off
          /\ next.left # 0 => BlockStart(next.dbk) = next.dbk
      BY <3>1, <1>0, AdvanceNext DEF Placed, IoType
    <3>3. PICK r : /\ Set(t, r)
                   /\ r = [next EXCEPT !.pc = IF next.left = 0 THEN "wattr" ELSE "wget"]
      BY <1>4, <2>2 DEF WritePut
    <3> HIDE DEF next
    <3>4. IoType(r)
      BY <3>2, <3>3 DEF IoType, Steps, Idle
    <3>5. Placed(r)
      BY <3>2, <3>3 DEF Placed, Idle, IoType
    <3> QED BY <3>3, <3>4, <3>5, <1>2
  <2> QED BY <2>1, <2>2
<1>5. CASE WriteAttr(t) \/ ReadReturn(t) \/ SetSizeWrite(t) \/ DeleteEntry(t) \/ TruncFail(t)
  BY <1>5, <1>1 DEF WriteAttr, ReadReturn, SetSizeWrite, DeleteEntry, TruncFail
<1>6. CASE ReadGet(t)
  <2> DEFINE next == Advance(i)
  <2>1. Placed(i) /\ i.pc = "rget"
    BY <1>6 DEF ReadGet
  <2>2. /\ IoType(next) /\ DOMAIN next = DOMAIN Idle /\ next.dbk = next.off
        /\ next.left # 0 => BlockStart(next.dbk) = next.dbk
    BY <2>1, <1>0, AdvanceNext DEF Placed, IoType
  <2>3. CASE Set(t, [i EXCEPT !.pc = "read", !.err = "EIO", !.left = 0])
    <3>1. PICK r : Set(t, r) /\ r = [i EXCEPT !.pc = "read", !.err = "EIO", !.left = 0]
      BY <2>3
    <3>2. IoType(r) /\ Placed(r)
      BY <3>1, <1>0 DEF IoType, Placed, Steps, Errors, Idle
    <3> QED BY <3>1, <3>2, <1>2
  <2>4. CASE ~Set(t, [i EXCEPT !.pc = "read", !.err = "EIO", !.left = 0])
    <3> DEFINE e == IF i.dbk \in DOMAIN blocks THEN "none" ELSE "DB_NOTFOUND"
    <3>1. PICK b, r :
            /\ Set(t, r)
            /\ r = [next EXCEPT !.pc = IF next.left = 0 THEN "read" ELSE "rget",
                                !.buf = b, !.err = e]
      BY <1>6, <2>4 DEF ReadGet
    <3>4. e \in Errors
      BY DEF Errors
    <3> HIDE DEF e
    <3> HIDE DEF next
    <3>2. IoType(r)
      BY <2>2, <3>1, <3>4 DEF IoType, Steps, Idle
    <3>3. Placed(r)
      BY <2>2, <3>1 DEF Placed, Idle, IoType
    <3> QED BY <3>1, <3>2, <3>3, <1>2
  <2> QED BY <2>3, <2>4
<1>7. CASE TruncTurn(t)
  <2> DEFINE next == Advance(i)
  <2>1. /\ IoType(next) /\ DOMAIN next = DOMAIN Idle /\ next.dbk = next.off /\ next.pc = "trunc"
    <3>1. i.pc = "trunc" /\ i.dbk <= i.off /\ i.off < i.dbk + BLK
      BY <1>7 DEF TruncTurn, Placed
    <3> QED BY <3>1, <1>0, AdvanceFacts DEF IoType
  <2>2. PICK r : Set(t, r) /\ r = [next EXCEPT !.odd = ~@]
    BY <1>7 DEF TruncTurn
  <2> HIDE DEF next
  <2>3. IoType(r) /\ Placed(r)
    BY <2>1, <2>2 DEF IoType, Placed, Idle
  <2> QED BY <2>2, <2>3, <1>2
<1>8. CASE TruncReturn(t)
  <2>1. PICK r : Set(t, r) /\ r = [i EXCEPT !.pc = i.then]
    BY <1>8 DEF TruncReturn
  <2>2. IoType(r) /\ Placed(r)
    BY <2>1, <1>0 DEF IoType, Placed, Idle, Steps
  <2> QED BY <2>1, <2>2, <1>2
<1> QED BY <1>3, <1>4, <1>5, <1>6, <1>7, <1>8 DEF Continue

-----------------------------------------------------------------------------
(* Types *)

\* The block a write puts is a block.
LEMMA FillType ==
  ASSUME NEW i, IoType(i), i.pc = "wput"
  PROVE  Fill(i) \in Block
  BY DEF Fill, Block, Bytes, IoType

TreeType ==
  /\ DOMAIN blocks \subseteq Nat /\ \A d \in DOMAIN blocks : blocks[d] \in Block
  /\ size \in Nat /\ there \in BOOLEAN /\ hsize \in [Threads -> Nat]
  /\ last \in [Offsets -> Bytes] /\ raced \subseteq Nat /\ quiet \in [Threads -> BOOLEAN]

\* The tree, the handles and the history keep their types.
LEMMA TreeStep ==
  ASSUME TypeOK, [Next]_vars
  PROVE  TreeType'
<1>1. TreeType /\ \A t \in Threads : IoType(io[t])
  BY DEF TypeOK, TreeType
<1>2. CASE UNCHANGED vars
  BY <1>1, <1>2 DEF vars, TreeType
<1>3. ASSUME NEW t \in Threads, Begin(t) PROVE TreeType'
  BY <1>1, <1>3 DEF TreeType, Begin, Reopen, WriteStart, ReadStart, SetSizeStart, DeleteStart
<1>4. ASSUME NEW t \in Threads,
             WriteGet(t) \/ ReadGet(t) \/ ReadReturn(t) \/ TruncReturn(t) \/ DeleteEntry(t)
               \/ TruncFail(t)
      PROVE  TreeType'
  BY <1>1, <1>4 DEF TreeType, WriteGet, ReadGet, ReadReturn, TruncReturn, DeleteEntry, TruncFail
<1>5. ASSUME NEW t \in Threads, WritePut(t) PROVE TreeType'
  <2> DEFINE i == io[t]
  <2>1. i.pc = "wput" /\ IoType(i) /\ Fill(i) \in Block /\ i.dbk \in Nat /\ i.val \in Bytes
    BY <1>1, <1>5, FillType DEF WritePut, IoType, Bytes
  <2>2. CASE UNCHANGED <<blocks, last, raced, quiet>>
    BY <1>1, <1>5, <2>2 DEF WritePut, TreeType
  <2>3. CASE ~UNCHANGED <<blocks, last, raced, quiet>>
    <3>1. /\ blocks' = Put(i.dbk, Fill(i))
          /\ last' = [o \in Offsets |-> IF InCall(i, o) THEN i.val ELSE last[o]]
          /\ raced' \subseteq raced \cup {i.dbk} /\ quiet' = Disturb(t)
          /\ UNCHANGED <<size, there, hsize>>
      BY <1>5, <2>3 DEF WritePut
    <3>2. DOMAIN blocks' \subseteq Nat /\ \A d \in DOMAIN blocks' : blocks'[d] \in Block
      BY <3>1, <2>1, <1>1 DEF Put, TreeType
    <3>3. last' \in [Offsets -> Bytes]
      BY <3>1, <2>1, <1>1 DEF TreeType
    <3>4. raced' \subseteq Nat /\ quiet' \in [Threads -> BOOLEAN]
      BY <3>1, <2>1, <1>1 DEF TreeType, Disturb
    <3> QED BY <3>1, <3>2, <3>3, <3>4, <1>1 DEF TreeType
  <2> QED BY <2>2, <2>3
<1>6. ASSUME NEW t \in Threads, WriteAttr(t) \/ SetSizeWrite(t) PROVE TreeType'
  <2>1. io[t].off \in Nat /\ io[t].start \in Nat /\ hsize[t] \in Nat
    BY <1>1 DEF IoType, TreeType
  <2> QED BY <1>1, <1>6, <2>1 DEF TreeType, WriteAttr, SetSizeWrite
<1>7. ASSUME NEW t \in Threads, TruncTurn(t) PROVE TreeType'
  <2>1. /\ blocks' = Del(io[t].dbk) /\ quiet' = Disturb(t)
        /\ last' = [o \in Offsets |-> IF BlockStart(o) = io[t].dbk THEN Junk ELSE last[o]]
        /\ UNCHANGED <<size, there, hsize, raced>>
    BY <1>7 DEF TruncTurn
  <2>2. DOMAIN blocks' \subseteq Nat /\ \A d \in DOMAIN blocks' : blocks'[d] \in Block
    BY <2>1, <1>1 DEF Del, TreeType
  <2>3. last' \in [Offsets -> Bytes] /\ quiet' \in [Threads -> BOOLEAN]
    BY <2>1, <1>1 DEF TreeType, Disturb, Bytes
  <2> QED BY <2>1, <2>2, <2>3, <1>1 DEF TreeType
<1> QED BY <1>2, <1>3, <1>4, <1>5, <1>6, <1>7 DEF Next, Continue

AllPlaced == \A t \in Threads : Placed(io[t])

\* The two go together: a turn of a loop yields numbers of bytes only from an
\* offset in its block.
LEMMA TypeStep ==
  ASSUME TypeOK, AllPlaced, [Next]_vars
  PROVE  TypeOK' /\ AllPlaced'
<1>1. TreeType'
  BY TreeStep
<1>2. CASE UNCHANGED vars
  BY <1>2 DEF vars, TypeOK, AllPlaced
<1>3. ASSUME NEW t \in Threads, Begin(t) \/ Continue(t) \/ TruncFail(t)
      PROVE  TypeOK' /\ AllPlaced'
  <2>1. /\ DOMAIN io' = Threads /\ IoType(io'[t]) /\ Placed(io'[t])
        /\ \A u \in Threads \ {t} : io'[u] = io[u]
    BY <1>3, BeginStep, ContinueStep DEF AllPlaced
  <2>2. \A u \in Threads : IoType(io'[u]) /\ Placed(io'[u])
    BY <2>1 DEF TypeOK, AllPlaced
  <2> QED BY <1>1, <2>1, <2>2 DEF TypeOK, TreeType, AllPlaced
<1> QED BY <1>2, <1>3 DEF Next

\* What the calls start from.
LEMMA InitFacts == Init => TypeOK /\ AllPlaced
<1> SUFFICES ASSUME Init PROVE TypeOK /\ AllPlaced
  OBVIOUS
<1>1. DOMAIN blocks = {}
  BY DEF Init
<1>2. \A t \in Threads : IoType(io[t]) /\ Placed(io[t])
  BY IdleFacts DEF Init
<1> QED BY <1>1, <1>2 DEF Init, TypeOK, AllPlaced, Bytes

\* Every variable keeps its type: in particular the sizes left in the loops
\* never go below zero.
THEOREM TypeCorrect == Spec => []TypeOK
<1>1. TypeOK /\ AllPlaced /\ [Next]_vars => TypeOK' /\ AllPlaced'
  BY TypeStep
<1> QED BY <1>1, InitFacts, PTL DEF Spec

-----------------------------------------------------------------------------
(* The blocks *)

KeysAligned == \A d \in DOMAIN blocks : BlockStart(d) = d

\* A copy of a block that a write is about to put has every byte as it was
\* last put, unless two such copies existed at once.
CopyFresh ==
  \A t \in Threads :
    LET i == io[t]
    IN  i.pc = "wput" /\ i.dbk \notin raced =>
          \A o \in Offsets :
            BlockStart(o) = i.dbk /\ last[o] # Junk => i.data[o - i.dbk] = last[o]

Kept == KeysAligned /\ CopyFresh /\ BytesKept
IInv == TypeOK /\ AllPlaced /\ Kept

\* The facts below for the steps that touch neither blocks nor their copies.
LEMMA KeptFrame ==
  ASSUME Kept, UNCHANGED <<blocks, last, raced>>,
         \A t \in Threads : io'[t] = io[t] \/ io'[t].pc # "wput"
  PROVE  Kept'
  BY DEF Kept, KeysAligned, CopyFresh, BytesKept

\* A get: the copy is the block, of which every byte is as last put; where
\* there is no block nothing was put.
LEMMA KeptGet ==
  ASSUME TypeOK, AllPlaced, Kept, NEW t \in Threads, WriteGet(t)
  PROVE  Kept'
<1> DEFINE i == io[t]
<1>1. CASE Set(t, Idle)
  <2>1. io'[t] = Idle /\ \A u \in Threads \ {t} : io'[u] = io[u]
    BY <1>1, SetFacts
  <2> QED BY <2>1, KeptFrame DEF WriteGet, Idle
<1>2. CASE ~Set(t, Idle)
  <2> DEFINE data == IF i.dbk \in DOMAIN blocks THEN blocks[i.dbk]
                     ELSE [x \in 0 .. BLK - 1 |-> Junk]
  <2>1. PICK r : Set(t, r) /\ r = [i EXCEPT !.pc = "wput", !.data = data]
    BY <1>2 DEF WriteGet
  <2>2. DOMAIN i = DOMAIN Idle
    BY DEF TypeOK, IoType
  <2>3. r.data = data /\ r.dbk = i.dbk
    BY <2>1, <2>2 DEF Idle
  <2>4. io'[t] = r /\ \A u \in Threads \ {t} : io'[u] = io[u]
    BY <2>1, SetFacts
  <2>5. UNCHANGED <<blocks, last, raced>>
    BY DEF WriteGet
  <2>6. KeysAligned' /\ BytesKept'
    BY <2>5 DEF Kept, KeysAligned, BytesKept
  <2>7. ASSUME i.dbk \notin raced, NEW o \in Offsets, BlockStart(o) = i.dbk, last[o] # Junk
        PROVE  data[o - i.dbk] = last[o]
    BY <2>7 DEF Kept, BytesKept
  <2>8. CopyFresh'
    <3> HIDE DEF data
    <3> SUFFICES ASSUME NEW u \in Threads, io'[u].pc = "wput", io'[u].dbk \notin raced,
                        NEW o \in Offsets, BlockStart(o) = io'[u].dbk, last[o] # Junk
                 PROVE  io'[u].data[o - io'[u].dbk] = last[o]
      BY <2>5 DEF CopyFresh
    <3>1. CASE u = t
      BY <3>1, <2>3, <2>4, <2>7
    <3>2. CASE u # t
      BY <3>2, <2>4 DEF Kept, CopyFresh
    <3> QED BY <3>1, <3>2
  <2> QED BY <2>6, <2>8 DEF Kept
<1> QED BY <1>1, <1>2

\* A put: the bytes written are the last ones put, the others those of the
\* copy; whoever held another copy of the block is in raced from now on.
LEMMA KeptPut ==
  ASSUME TypeOK, AllPlaced, Kept, NEW t \in Threads, WritePut(t)
  PROVE  Kept'
<1> DEFINE i == io[t]
           k == i.dbk
           next == Advance(i)
<1>0. i.pc = "wput" /\ IoType(i) /\ Placed(i) /\ BLK \in Nat
  BY BlkAssumption DEF WritePut, TypeOK, AllPlaced
<1>1. /\ k \in Nat /\ BlockStart(k) = k /\ k <= i.off /\ i.off \in Nat
      /\ SizeInBlk(i) \in Nat /\ i.off + SizeInBlk(i) <= k + BLK
  BY <1>0, AdvanceFacts DEF Placed, IoType
<1>2. CASE Set(t, Idle) /\ UNCHANGED <<blocks, last, raced, quiet>>
  <2>1. io'[t] = Idle /\ \A u \in Threads \ {t} : io'[u] = io[u]
    BY <1>2, SetFacts
  <2> QED BY <2>1, <1>2, KeptFrame DEF Idle
<1>3. ASSUME blocks' = Put(k, Fill(i)),
             last' = [o \in Offsets |-> IF InCall(i, o) THEN i.val ELSE last[o]],
             raced' = raced \cup
               {d \in {k} : \E u \in Threads \ {t} : io[u].pc = "wput" /\ io[u].dbk = d},
             Set(t, [next EXCEPT !.pc = IF next.left = 0 THEN "wattr" ELSE "wget"])
      PROVE  Kept'
  <2>1. io'[t].pc # "wput" /\ \A u \in Threads \ {t} : io'[u] = io[u]
    <3>1. DOMAIN next = DOMAIN Idle
      BY <1>0, AdvanceFacts DEF Placed
    <3> HIDE DEF next
    <3>2. PICK r : Set(t, r) /\ r.pc # "wput"
      BY <1>3, <3>1 DEF Idle
    <3> QED BY <3>2, SetFacts
  <2>2. DOMAIN blocks' = DOMAIN blocks \cup {k}
    BY <1>3 DEF Put
  <2>3. blocks'[k] = Fill(i) /\ \A d \in DOMAIN blocks \ {k} : blocks'[d] = blocks[d]
    BY <1>3 DEF Put
  <2>4. KeysAligned'
    BY <1>1, <2>2 DEF Kept, KeysAligned
  <2>5. \A o \in Offsets : InCall(i, o) => BlockStart(o) = k
    <3> SUFFICES ASSUME NEW o \in Offsets, InCall(i, o) PROVE BlockStart(o) = k
      OBVIOUS
    <3>1. o \in Nat /\ k <= o /\ o < k + BLK
      BY <1>0, <1>1, BoundAssumption DEF InCall, Offsets
    <3> QED BY <3>1, <1>1, StartWithin
  <2>6. ASSUME NEW o \in Offsets, last'[o] # Junk, BlockStart(o) \notin raced'
        PROVE  BlockStart(o) \in DOMAIN blocks'
               /\ blocks'[BlockStart(o)][o - BlockStart(o)] = last'[o]
    <3>1. BlockStart(o) \notin raced
      BY <1>3, <2>6
    <3>2. CASE BlockStart(o) # k
      <4>1. last'[o] = last[o]
        BY <1>3, <2>5, <3>2
      <4> QED BY <4>1, <3>1, <3>2, <2>2, <2>3, <2>6 DEF Kept, BytesKept
    <3>3. CASE BlockStart(o) = k
      <4>1. o \in Nat /\ k <= o /\ o < k + BLK
        BY <3>3, StartBelow, BoundAssumption DEF Offsets
      <4>2. o - k \in 0 .. BLK - 1 /\ k + (o - k) = o
        BY <4>1, <1>0, <1>1
      <4>3. Fill(i)[o - k] = IF InCall(i, o) THEN i.val ELSE i.data[o - k]
        BY <4>2 DEF Fill
      <4>4. ~InCall(i, o) => i.data[o - k] = last[o]
        BY <1>0, <1>3, <2>6, <3>1, <3>3 DEF Kept, CopyFresh
      <4> QED BY <1>3, <2>2, <2>3, <3>3, <4>3, <4>4
    <3> QED BY <3>2, <3>3
  <2>7. BytesKept'
    BY <2>6 DEF BytesKept
  <2>8. CopyFresh'
    <3> SUFFICES ASSUME NEW u \in Threads, io'[u].pc = "wput", io'[u].dbk \notin raced',
                        NEW o \in Offsets, BlockStart(o) = io'[u].dbk, last'[o] # Junk
                 PROVE  io'[u].data[o - io'[u].dbk] = last'[o]
      BY DEF CopyFresh
    <3>1. u # t /\ io'[u] = io[u]
      BY <2>1
    <3>2. io[u].dbk # k /\ io[u].dbk \notin raced
      BY <1>3, <3>1
    <3>3. last'[o] = last[o]
      BY <1>3, <2>5, <3>1, <3>2
    <3> QED BY <3>1, <3>2, <3>3 DEF Kept, CopyFresh
  <2> QED BY <2>4, <2>7, <2>8 DEF Kept
<1> QED BY <1>2, <1>3 DEF WritePut

\* A del: nothing is put in that block any more.
LEMMA KeptDel ==
  ASSUME TypeOK, AllPlaced, Kept, NEW t \in Threads, TruncTurn(t)
  PROVE  Kept'
<1> DEFINE k == io[t].dbk
<1>1. /\ blocks' = Del(k) /\ UNCHANGED raced
      /\ last' = [o \in Offsets |-> IF BlockStart(o) = k THEN Junk ELSE last[o]]
  BY DEF TruncTurn
<1>2. /\ DOMAIN blocks' = DOMAIN blocks \ {k}
      /\ \A d \in DOMAIN blocks \ {k} : blocks'[d] = blocks[d]
  BY <1>1 DEF Del
<1>3. io'[t].pc # "wput" /\ \A u \in Threads \ {t} : io'[u] = io[u]
  <2>1. PICK r : Set(t, r) /\ r = [Advance(io[t]) EXCEPT !.odd = ~@]
    BY DEF TruncTurn
  <2>2. /\ DOMAIN Advance(io[t]) = DOMAIN Idle /\ Advance(io[t]).pc = "trunc"
    BY AdvanceFacts DEF TruncTurn, TypeOK, AllPlaced, Placed
  <2>3. r.pc = "trunc"
    BY <2>1, <2>2 DEF Idle
  <2> QED BY <2>1, <2>3, SetFacts
<1>4. KeysAligned'
  BY <1>2 DEF Kept, KeysAligned
<1>5. \A o \in Offsets : last'[o] # Junk => last'[o] = last[o] /\ BlockStart(o) # k
  BY <1>1
<1>6. BytesKept'
  BY <1>1, <1>2, <1>5 DEF Kept, BytesKept
<1>7. CopyFresh'
  BY <1>1, <1>3, <1>5 DEF Kept, CopyFresh
<1> QED BY <1>4, <1>6, <1>7 DEF Kept

\* No other step puts or gets a block.
LEMMA KeptStep ==
  ASSUME TypeOK, AllPlaced, Kept, [Next]_vars
  PROVE  Kept'
<1>1. CASE UNCHANGED vars
  BY <1>1, KeptFrame DEF vars
<1>2. ASSUME NEW t \in Threads, Begin(t) PROVE Kept'
  <2>1. UNCHANGED <<blocks, last, raced>> /\ (io'[t] = io[t] \/ io'[t].pc # "wput")
    <3>1. CASE Reopen(t)
      BY <3>1 DEF Reopen
    <3>2. CASE ~Reopen(t)
      <4>1. PICK r : Set(t, r) /\ r.pc # "wput" /\ UNCHANGED <<blocks, last, raced>>
        BY <1>2, <3>2 DEF Begin, WriteStart, ReadStart, SetSizeStart, DeleteStart, Idle
      <4> QED BY <4>1, SetFacts
    <3> QED BY <3>1, <3>2
  <2> QED BY <2>1, <1>2, BeginStep, KeptFrame
<1>3. ASSUME NEW t \in Threads, Continue(t) \/ TruncFail(t),
             ~WriteGet(t), ~WritePut(t), ~TruncTurn(t)
      PROVE  Kept'
  <2>1. UNCHANGED <<blocks, last, raced>>
    BY <1>3 DEF Continue, WriteAttr, ReadGet, ReadReturn, TruncReturn, SetSizeWrite, DeleteEntry,
       TruncFail
  <2>2. io[t].pc # "wput" /\ (io'[t] = Idle \/ io'[t].pc \in {io[t].then, "read", "rget"})
    <3>1. DOMAIN io[t] = DOMAIN Idle
      BY DEF TypeOK, IoType
    <3>2. CASE WriteAttr(t) \/ ReadReturn(t) \/ SetSizeWrite(t) \/ DeleteEntry(t) \/ TruncFail(t)
      BY <3>2, SetFacts DEF WriteAttr, ReadReturn, SetSizeWrite, DeleteEntry, TruncFail
    <3>3. CASE TruncReturn(t)
      BY <3>1, <3>3, SetFacts DEF TruncReturn, Idle
    <3>4. CASE ReadGet(t)
      <4>1. DOMAIN Advance(io[t]) = DOMAIN Idle
        BY <3>4, AdvanceFacts DEF ReadGet, TypeOK, AllPlaced, Placed
      <4> DEFINE next == Advance(io[t])
      <4> HIDE DEF next
      <4>3. ASSUME NEW b, NEW e, NEW r, Set(t, r),
                   r = [next EXCEPT !.pc = IF next.left = 0 THEN "read" ELSE "rget",
                                    !.buf = b, !.err = e]
            PROVE  r.pc \in {"read", "rget"}
        BY <4>1, <4>3 DEF Idle, next
      <4>4. ASSUME NEW r, r = [io[t] EXCEPT !.pc = "read", !.err = "EIO", !.left = 0]
            PROVE  r.pc = "read"
        BY <3>1, <4>4 DEF Idle
      <4>2. PICK r : Set(t, r) /\ r.pc \in {"read", "rget"}
        BY <3>4, <4>3, <4>4 DEF ReadGet, next
      <4> QED BY <3>4, <4>2, SetFacts DEF ReadGet
    <3> QED BY <1>3, <3>2, <3>3, <3>4 DEF Continue
  <2>3. io'[t].pc # "wput"
    <3>1. Idle.pc # "wput"
      BY DEF Idle
    <3>2. io[t].then # "wput"
      BY DEF TypeOK, IoType
    <3> QED BY <2>2, <3>1, <3>2
  <2> QED BY <2>1, <2>3, <1>3, ContinueStep, KeptFrame DEF AllPlaced
<1> QED BY <1>1, <1>2, <1>3, KeptGet, KeptPut, KeptDel DEF Next

\* The invariant of the blocks holds of every behaviour.
THEOREM Inductive == Spec => []IInv
<1>1. Init => IInv
  <2>1. Init => Kept
    <3> SUFFICES ASSUME Init PROVE Kept
      OBVIOUS
    <3>1. DOMAIN blocks = {}
      BY DEF Init
    <3> QED BY <3>1 DEF Init, Kept, KeysAligned, CopyFresh, BytesKept, Idle
  <2> QED BY <2>1, InitFacts DEF IInv
<1>2. IInv /\ [Next]_vars => IInv'
  BY TypeStep, KeptStep DEF IInv
<1> QED BY <1>1, <1>2, PTL DEF Spec

\* No byte of the file lives in two blocks, whatever the block size is.
THEOREM DisjointTheorem == Spec => []BlocksDisjoint
<1>1. IInv => BlocksDisjoint
  BY StartsApart DEF IInv, TypeOK, Kept, KeysAligned, BlocksDisjoint
<1> QED BY <1>1, Inductive, PTL

\* No write takes a byte of another one away, except in a block of which two
\* threads held copies at once.
THEOREM KeptTheorem == Spec => []BytesKept
<1>1. IInv => BytesKept
  BY DEF IInv, Kept
<1> QED BY <1>1, Inductive, PTL

-----------------------------------------------------------------------------
(* Reads *)

\* The byte a read should see in the tree as it is.
ByteAt(o) ==
  IF BlockStart(o) \in DOMAIN blocks THEN blocks[BlockStart(o)][o - BlockStart(o)] ELSE Zero

\* Where a read that nobody disturbed has got to, and what it has copied.
Copied(t) ==
  LET i == io[t]
  IN  /\ \A o \in Offsets : i.start <= o /\ o < i.off => o \in DOMAIN i.buf /\ i.buf[o] = ByteAt(o)
      /\ i.err = "DB_NOTFOUND" <=> i.start < i.off /\ BlockStart(i.off - 1) \notin DOMAIN blocks
ReadInv(t) ==
  LET i == io[t]
  IN  (i.pc = "rget" \/ (i.pc = "read" /\ i.err # "EIO")) /\ i.start <= hsize[t] =>
        /\ i.start <= i.off /\ i.off + i.left = i.end /\ (i.pc = "read" => i.left = 0)
        /\ quiet[t] => Copied(t)
AllReads == \A t \in Threads : ReadInv(t)

\* A step that leaves a thread's locals and handle alone and either disturbs
\* it or leaves the blocks alone.
LEMMA ReadFrame ==
  ASSUME NEW t \in Threads, ReadInv(t), io'[t] = io[t], hsize'[t] = hsize[t],
         quiet'[t] => quiet[t] /\ blocks' = blocks
  PROVE  ReadInv(t)'
  BY DEF ReadInv, Copied, ByteAt

\* A thread that is not reading.
LEMMA ReadVacuous ==
  ASSUME NEW t \in Threads, io'[t].pc \notin {"rget", "read"}
  PROVE  ReadInv(t)'
  BY DEF ReadInv

\* The read begins with nothing copied.
LEMMA ReadStartStep ==
  ASSUME TypeOK, NEW t \in Threads, NEW o \in Offsets, NEW n \in Lens, ReadStart(t, o, n)
  PROVE  ReadInv(t)'
<1> DEFINE cut == IF o + n > hsize[t] THEN hsize[t] - o ELSE n
           beyond == o > hsize[t]
           left == IF beyond THEN 0 ELSE cut
<1>1. PICK r : /\ Set(t, r)
               /\ r = [Idle EXCEPT !.pc = IF beyond \/ cut = 0 THEN "read" ELSE "rget",
                                   !.start = o, !.off = o, !.left = left,
                                   !.dbk = BlockStart(o),
                                   !.end = o + (IF beyond THEN n ELSE cut)]
  BY DEF ReadStart
<1>2. io'[t] = r /\ hsize' = hsize
  BY <1>1, SetFacts DEF ReadStart
<1>3. /\ r.start = o /\ r.off = o /\ r.left = left /\ r.err = "none"
      /\ r.end = o + (IF beyond THEN n ELSE cut)
      /\ r.pc = IF beyond \/ cut = 0 THEN "read" ELSE "rget"
  BY <1>1 DEF Idle
<1>4. o \in Nat /\ n \in Nat /\ hsize[t] \in Nat
  BY BoundAssumption DEF Offsets, TypeOK
<1>5. CASE beyond
  BY <1>2, <1>3, <1>4, <1>5 DEF ReadInv
<1>6. CASE ~beyond
  <2>1. r.off + r.left = r.end /\ (r.pc = "read" => r.left = 0)
    BY <1>3, <1>4, <1>6
  <2>2. \A x \in Offsets : ~(o <= x /\ x < o)
    BY <1>4, BoundAssumption DEF Offsets
  <2>3. Copied(t)'
    BY <1>2, <1>3, <1>4, <2>2 DEF Copied
  <2> QED BY <1>2, <1>3, <1>4, <2>1, <2>3 DEF ReadInv
<1> QED BY <1>5, <1>6

\* A turn of a read copies the bytes of the block it is at.
LEMMA ReadGetStep ==
  ASSUME TypeOK, NEW t \in Threads, Placed(io[t]), ReadInv(t), ReadGet(t)
  PROVE  ReadInv(t)'
<1> DEFINE i == io[t]
           next == Advance(i)
           k == i.dbk
<1>0. /\ i.pc = "rget" /\ IoType(i) /\ DOMAIN i = DOMAIN Idle /\ BLK \in Nat
      /\ k \in Nat /\ BlockStart(k) = k /\ k <= i.off /\ i.off < k + BLK
      /\ i.off \in Nat /\ i.left \in Nat /\ i.left > 0 /\ i.start \in Nat /\ i.end \in Nat
      /\ UNCHANGED <<blocks, hsize, quiet>>
  BY BlkAssumption DEF ReadGet, TypeOK, IoType, Placed
<1>1. CASE Set(t, [i EXCEPT !.pc = "read", !.err = "EIO", !.left = 0])
  <2>1. PICK r : Set(t, r) /\ r = [i EXCEPT !.pc = "read", !.err = "EIO", !.left = 0]
    BY <1>1
  <2>2. r.err = "EIO" /\ r.pc = "read"
    BY <2>1, <1>0 DEF Idle
  <2>3. io'[t] = r
    BY <2>1, SetFacts
  <2> QED BY <2>2, <2>3 DEF ReadInv
<1>2. CASE ~Set(t, [i EXCEPT !.pc = "read", !.err = "EIO", !.left = 0])
  <2> DEFINE s == SizeInBlk(i)
  <2>1. /\ s \in Nat /\ s <= i.left /\ i.off + s <= k + BLK /\ s > 0
        /\ DOMAIN next = DOMAIN Idle /\ next.off = i.off + s /\ next.left = i.left - s
        /\ next.start = i.start /\ next.end = i.end
    <3>1. s > 0
      BY <1>0 DEF SizeInBlk
    <3> QED BY <3>1, <1>0, AdvanceFacts
  <2> DEFINE e == IF k \in DOMAIN blocks THEN "none" ELSE "DB_NOTFOUND"
             p == IF next.left = 0 THEN "read" ELSE "rget"
  <2>2. PICK r : Set(t, r) /\ r = [next EXCEPT !.pc = p, !.buf = ReadOn(i), !.err = e]
    BY <1>2 DEF ReadGet
  <2>3. io'[t] = r
    BY <2>2, SetFacts
  <2>4. /\ r.off = i.off + s /\ r.left = i.left - s /\ r.start = i.start /\ r.end = i.end
        /\ r.buf = ReadOn(i) /\ r.pc = p /\ r.err = e
    <3> HIDE DEF next, e, p, s
    <3> QED BY <2>1, <2>2 DEF Idle
  <2>5. ASSUME NEW o \in Nat, i.off <= o, o < i.off + s PROVE BlockStart(o) = k
    BY <2>5, <2>1, <1>0, StartWithin
  <2>6. ASSUME i.start <= hsize[t]
        PROVE  i.start <= i.off /\ i.off + i.left = i.end /\ (quiet[t] => Copied(t))
    <3>1. i.pc = "rget"
      BY <1>0
    <3> USE DEF ReadInv
    <3>2. i.start <= i.off /\ i.off + i.left = i.end
      BY <2>6, <3>1
    <3>3. quiet[t] => Copied(t)
      BY <2>6, <3>1, Zenon
    <3> QED BY <3>2, <3>3
  <2>7. ASSUME i.start <= hsize[t], quiet[t] PROVE Copied(t)'
    <3>1. DOMAIN r.buf = i.start .. i.off + s - 1
      BY <2>4 DEF ReadOn, ReadOnWith
    <3>2. ASSUME NEW o \in Offsets, i.start <= o, o < i.off + s
          PROVE  o \in DOMAIN r.buf /\ r.buf[o] = ByteAt(o)
      <4>1. o \in Nat /\ o \in i.start .. i.off + s - 1
        BY <3>2, <2>1, <1>0, BoundAssumption DEF Offsets
      <4>2. CASE o < i.off
        BY <4>1, <4>2, <3>1, <3>2, <2>4, <2>6, <2>7 DEF ReadOn, ReadOnWith, Copied
      <4>3. CASE ~(o < i.off)
        <5>1. BlockStart(o) = k
          BY <4>1, <4>3, <3>2, <2>5, <1>0
        <5>2. r.buf[o] = IF k \in DOMAIN blocks THEN blocks[k][o - k] ELSE Zero
          BY <4>1, <4>3, <2>4 DEF ReadOn, ReadOnWith
        <5> QED BY <5>1, <5>2, <4>1, <3>1 DEF ByteAt
      <4> QED BY <4>2, <4>3
    <3>3. BlockStart(r.off - 1) = k /\ i.start < r.off
      BY <2>1, <2>4, <2>5, <2>6, <2>7, <1>0
    <3>4. r.err = "DB_NOTFOUND" <=> k \notin DOMAIN blocks
      BY <2>4
    <3> QED BY <3>2, <3>3, <3>4, <2>3, <2>4, <1>0 DEF Copied, ByteAt
  <2>8. r.pc = "read" => r.left = 0
    BY <2>1, <2>4
  <2>9. r.left + r.off = i.left + i.off /\ i.off <= r.off
    BY <2>1, <2>4, <1>0
  <2>10. ASSUME i.start <= hsize[t] PROVE r.start <= r.off /\ r.off + r.left = r.end
    BY <2>6, <2>9, <2>10, <2>4, <2>1, <1>0
  <2> QED BY <2>3, <2>4, <2>7, <2>8, <2>10, <1>0 DEF ReadInv
<1> QED BY <1>1, <1>2

\* The reads of all threads.
LEMMA ReadStep ==
  ASSUME TypeOK, AllPlaced, AllReads, [Next]_vars
  PROVE  AllReads'
<1>1. CASE UNCHANGED vars
  BY <1>1, ReadFrame DEF vars, AllReads
<1>2. ASSUME NEW t \in Threads, Begin(t) \/ Continue(t) \/ TruncFail(t),
             NEW u \in Threads \ {t}
      PROVE  ReadInv(u)'
  <2>1. io'[u] = io[u]
    BY <1>2, BeginStep, ContinueStep DEF AllPlaced
  <2>2. hsize'[u] = hsize[u]
    BY <1>2 DEF TypeOK, Begin, Reopen, WriteStart, ReadStart, SetSizeStart, DeleteStart,
       Continue, WriteGet, WritePut, WriteAttr, ReadGet, ReadReturn, TruncTurn, TruncReturn,
       SetSizeWrite, DeleteEntry, TruncFail
  <2>3. quiet'[u] => quiet[u] /\ blocks' = blocks
    <3>1. CASE WritePut(t) \/ TruncTurn(t)
      BY <3>1 DEF WritePut, TruncTurn, Disturb, TypeOK
    <3>2. CASE ~(WritePut(t) \/ TruncTurn(t))
      BY <1>2, <3>2 DEF TypeOK, Begin, Reopen, WriteStart, ReadStart, SetSizeStart, DeleteStart,
         Continue, WriteGet, WriteAttr, ReadGet, ReadReturn, TruncReturn, SetSizeWrite,
         DeleteEntry, TruncFail
    <3> QED BY <3>1, <3>2
  <2> QED BY <2>1, <2>2, <2>3, ReadFrame DEF AllReads
<1>3. ASSUME NEW t \in Threads, Begin(t) PROVE ReadInv(t)'
  <2>1. ASSUME NEW o \in Offsets, NEW n \in Lens, ReadStart(t, o, n) PROVE ReadInv(t)'
    BY <2>1, ReadStartStep
  <2>2. CASE Reopen(t)
    BY <2>2, ReadVacuous DEF Reopen
  <2>3. CASE /\ ~Reopen(t)
             /\ ~(\E o \in Offsets, n \in Lens : ReadStart(t, o, n))
    <3>1. ASSUME NEW o \in Offsets, NEW n \in Lens, NEW v \in Data, WriteStart(t, o, n, v)
          PROVE  ReadInv(t)'
      <4> DEFINE p == IF n = 0 THEN "wattr" ELSE "wget"
      <4>1. PICK r : /\ Set(t, r)
                     /\ r = [Idle EXCEPT !.pc = p, !.start = o, !.off = o, !.left = n,
                                         !.dbk = BlockStart(o), !.val = v]
        BY <3>1 DEF WriteStart
      <4>2. r.pc \notin {"rget", "read"}
        BY <4>1 DEF Idle
      <4> QED BY <4>1, <4>2, SetFacts, ReadVacuous
    <3>2. ASSUME NEW n \in 0 .. MaxOff, SetSizeStart(t, n) PROVE ReadInv(t)'
      <4> DEFINE p == IF size > n THEN "trunc" ELSE "setsize"
                 left == IF size > n THEN size - n ELSE 0
      <4>1. PICK r : /\ Set(t, r)
                     /\ r = [Idle EXCEPT !.pc = p, !.then = "setsize", !.start = n, !.off = n,
                                         !.dbk = BlockStart(n), !.left = left, !.end = size]
        BY <3>2 DEF SetSizeStart
      <4> HIDE DEF left
      <4>2. r.pc \notin {"rget", "read"}
        BY <4>1 DEF Idle
      <4> QED BY <4>1, <4>2, SetFacts, ReadVacuous
    <3>3. CASE DeleteStart(t)
      <4>1. PICK r : /\ Set(t, r)
                     /\ r = [Idle EXCEPT !.pc = "trunc", !.then = "dela", !.left = size, !.end = size]
        BY <3>3 DEF DeleteStart
      <4>2. r.pc = "trunc"
        BY <4>1 DEF Idle
      <4> QED BY <4>1, <4>2, SetFacts, ReadVacuous
    <3> QED BY <1>3, <2>3, <3>1, <3>2, <3>3 DEF Begin
  <2> QED BY <2>1, <2>2, <2>3
<1>4. ASSUME NEW t \in Threads, Continue(t) \/ TruncFail(t) PROVE ReadInv(t)'
  <2> DEFINE i == io[t]
  <2>0. IoType(i) /\ Placed(i) /\ DOMAIN i = DOMAIN Idle /\ Idle.pc = "idle"
    BY DEF TypeOK, IoType, AllPlaced, Idle
  <2>1. CASE ReadGet(t)
    BY <2>0, <2>1, ReadGetStep DEF AllReads
  <2>2. ASSUME Set(t, Idle) PROVE ReadInv(t)'
    BY <2>0, <2>2, SetFacts, ReadVacuous
  <2>3. CASE WriteGet(t)
    <3>1. ASSUME NEW b, NEW r, Set(t, r), r = [i EXCEPT !.pc = "wput", !.data = b]
          PROVE  r.pc = "wput"
      BY <3>1, <2>0 DEF Idle
    <3> QED BY <2>2, <2>3, <3>1, SetFacts, ReadVacuous DEF WriteGet
  <2>4. CASE WritePut(t)
    <3> DEFINE next == Advance(i)
               p == IF next.left = 0 THEN "wattr" ELSE "wget"
    <3>1. DOMAIN next = DOMAIN Idle
      BY <2>0, <2>4, AdvanceFacts DEF WritePut, Placed
    <3>2. CASE Set(t, [next EXCEPT !.pc = p])
      <4>1. PICK r : Set(t, r) /\ r = [next EXCEPT !.pc = p]
        BY <3>2
      <4> HIDE DEF next
      <4>2. r.pc \in {"wattr", "wget"}
        BY <3>1, <4>1 DEF Idle
      <4> QED BY <4>1, <4>2, SetFacts, ReadVacuous
    <3> QED BY <2>2, <2>4, <3>2 DEF WritePut
  <2>5. CASE TruncTurn(t)
    <3>1. PICK r : Set(t, r) /\ r = [Advance(i) EXCEPT !.odd = ~@]
      BY <2>5 DEF TruncTurn
    <3>2. /\ DOMAIN Advance(i) = DOMAIN Idle /\ Advance(i).pc = "trunc"
      BY <2>0, <2>5, AdvanceFacts DEF TruncTurn, Placed
    <3>3. r.pc = "trunc"
      BY <3>1, <3>2 DEF Idle
    <3> QED BY <3>1, <3>3, SetFacts, ReadVacuous
  <2>6. CASE TruncReturn(t)
    <3>1. PICK r : Set(t, r) /\ r = [i EXCEPT !.pc = i.then]
      BY <2>6 DEF TruncReturn
    <3>2. r.pc \notin {"rget", "read"}
      BY <2>0, <3>1 DEF Idle, IoType
    <3> QED BY <3>1, <3>2, SetFacts, ReadVacuous
  <2>7. CASE WriteAttr(t) \/ ReadReturn(t) \/ SetSizeWrite(t) \/ DeleteEntry(t) \/ TruncFail(t)
    BY <2>2, <2>7 DEF WriteAttr, ReadReturn, SetSizeWrite, DeleteEntry, TruncFail
  <2> QED BY <1>4, <2>1, <2>3, <2>4, <2>5, <2>6, <2>7 DEF Continue
<1>5. ASSUME NEW t \in Threads, Begin(t) \/ Continue(t) \/ TruncFail(t), NEW u \in Threads
      PROVE  ReadInv(u)'
  BY <1>2, <1>3, <1>4, <1>5
<1> QED BY <1>1, <1>5 DEF Next, AllReads

\* A read that nothing disturbs returns every byte as it was last put, zeroes
\* where there is no block, and an error that tells of the last block only.
THEOREM ReadTheorem == Spec => []ReadBack
<1>1. Init => AllReads
  BY DEF Init, AllReads, ReadInv, Idle
<1>2. IInv /\ AllReads /\ [Next]_vars => AllReads'
  BY ReadStep DEF IInv
<1>3. IInv /\ AllReads => ReadBack
  <2> SUFFICES ASSUME IInv, AllReads, NEW t \in Threads,
                      io[t].pc = "read", quiet[t], io[t].err # "EIO", io[t].start <= hsize[t]
               PROVE  LET i == io[t]
                          hole(o) == BlockStart(o) \notin DOMAIN blocks
                      IN  /\ \A o \in {x \in Offsets : i.start <= x /\ x < i.end} :
                               /\ o \in DOMAIN i.buf
                               /\ hole(o) => i.buf[o] = Zero
                               /\ last[o] # Junk /\ BlockStart(o) \notin raced =>
                                    i.buf[o] = last[o]
                          /\ i.err = "DB_NOTFOUND" <=> i.start < i.end /\ hole(i.end - 1)
    BY DEF ReadBack
  <2>1. Copied(t) /\ io[t].off = io[t].end
    BY DEF AllReads, ReadInv, IInv, TypeOK, IoType
  <2> QED BY <2>1 DEF Copied, ByteAt, IInv, Kept, BytesKept
<1> QED BY <1>1, <1>2, <1>3, Inductive, PTL DEF Spec

-----------------------------------------------------------------------------
(* What each step makes of the locals of its thread *)

\* A write begins.
LEMMA WriteStartLocals ==
  ASSUME TypeOK, NEW t \in Threads, NEW o \in Offsets, NEW n \in Lens, NEW v \in Data,
         WriteStart(t, o, n, v)
  PROVE  LET j == io'[t]
         IN  /\ j.pc = IF n = 0 THEN "wattr" ELSE "wget"
             /\ j.start = o /\ j.off = o /\ j.left = n /\ j.val = v
<1> DEFINE p == IF n = 0 THEN "wattr" ELSE "wget"
<1>1. PICK r : /\ Set(t, r)
               /\ r = [Idle EXCEPT !.pc = p, !.start = o, !.off = o, !.left = n,
                                   !.dbk = BlockStart(o), !.val = v]
  BY DEF WriteStart
<1> HIDE DEF p
<1>2. r.pc = p /\ r.start = o /\ r.off = o /\ r.left = n /\ r.val = v
  BY <1>1 DEF Idle
<1> QED BY <1>1, <1>2, SetFacts DEF p

\* A read begins.
LEMMA ReadStartLocals ==
  ASSUME TypeOK, NEW t \in Threads, NEW o \in Offsets, NEW n \in Lens, ReadStart(t, o, n)
  PROVE  LET j == io'[t]
             cut == IF o + n > hsize[t] THEN hsize[t] - o ELSE n
         IN  /\ j.start = o /\ j.off = o /\ j.buf = <<>> /\ j.err = "none"
             /\ o > hsize[t] => j.pc = "read"
             /\ o <= hsize[t] => /\ j.left = cut /\ j.end = o + cut
                                 /\ j.pc = IF cut = 0 THEN "read" ELSE "rget"
<1> DEFINE cut == IF o + n > hsize[t] THEN hsize[t] - o ELSE n
           beyond == o > hsize[t]
           p == IF beyond \/ cut = 0 THEN "read" ELSE "rget"
           l == IF beyond THEN 0 ELSE cut
           e == o + (IF beyond THEN n ELSE cut)
<1>1. PICK r : /\ Set(t, r)
               /\ r = [Idle EXCEPT !.pc = p, !.start = o, !.off = o, !.left = l,
                                   !.dbk = BlockStart(o), !.end = e]
  BY DEF ReadStart
<1>2. o \in Nat /\ hsize[t] \in Nat
  BY BoundAssumption DEF Offsets, TypeOK
<1>3. /\ beyond => p = "read"
      /\ ~beyond => l = cut /\ e = o + cut /\ p = IF cut = 0 THEN "read" ELSE "rget"
  OBVIOUS
<1> HIDE DEF p, l, e
<1>4. /\ r.pc = p /\ r.start = o /\ r.off = o /\ r.left = l /\ r.end = e
      /\ r.buf = <<>> /\ r.err = "none"
  BY <1>1 DEF Idle
<1>5. io'[t] = r
  BY <1>1, SetFacts
<1> HIDE DEF cut
<1>6. o <= hsize[t] <=> ~beyond
  BY <1>2
<1> HIDE DEF beyond
<1> QED BY <1>3, <1>4, <1>5, <1>6 DEF cut, beyond

\* A resize begins.
LEMMA SetSizeLocals ==
  ASSUME TypeOK, NEW t \in Threads, NEW n \in 0 .. MaxOff, SetSizeStart(t, n)
  PROVE  LET j == io'[t]
         IN  /\ j.pc \in {"trunc", "setsize"} /\ j.then = "setsize" /\ j.start = n
             /\ j.pc = "trunc" => j.left > 0
<1> DEFINE p == IF size > n THEN "trunc" ELSE "setsize"
           l == IF size > n THEN size - n ELSE 0
<1>1. PICK r : /\ Set(t, r)
               /\ r = [Idle EXCEPT !.pc = p, !.then = "setsize", !.start = n, !.off = n,
                                   !.dbk = BlockStart(n), !.left = l, !.end = size]
  BY DEF SetSizeStart
<1>2. p \in {"trunc", "setsize"} /\ (p = "trunc" => l > 0)
  BY BoundAssumption DEF TypeOK
<1> HIDE DEF p, l
<1>3. r.pc = p /\ r.then = "setsize" /\ r.start = n /\ r.left = l
  BY <1>1 DEF Idle
<1> QED BY <1>1, <1>2, <1>3, SetFacts

\* A delete begins.
LEMMA DeleteLocals ==
  ASSUME TypeOK, NEW t \in Threads, DeleteStart(t)
  PROVE  io'[t].pc = "trunc" /\ io'[t].then = "dela"
<1>1. PICK r : /\ Set(t, r)
               /\ r = [Idle EXCEPT !.pc = "trunc", !.then = "dela", !.left = size, !.end = size]
  BY DEF DeleteStart
<1>2. r.pc = "trunc" /\ r.then = "dela"
  BY <1>1 DEF Idle
<1> QED BY <1>1, <1>2, SetFacts

\* A get of a write.
LEMMA WriteGetLocals ==
  ASSUME TypeOK, NEW t \in Threads, WriteGet(t)
  PROVE  LET i == io[t]
             j == io'[t]
         IN  \/ j = Idle
             \/ /\ j.pc = "wput" /\ j.start = i.start /\ j.off = i.off /\ j.left = i.left
                /\ j.val = i.val
<1> DEFINE i == io[t]
<1>1. CASE Set(t, Idle)
  BY <1>1, SetFacts
<1>2. CASE ~Set(t, Idle)
  <2>1. PICK b, r : Set(t, r) /\ r = [i EXCEPT !.pc = "wput", !.data = b]
    BY <1>2 DEF WriteGet
  <2>2. DOMAIN i = DOMAIN Idle
    BY DEF TypeOK, IoType
  <2>3. r.pc = "wput" /\ r.start = i.start /\ r.off = i.off /\ r.left = i.left /\ r.val = i.val
    BY <2>1, <2>2 DEF Idle
  <2> QED BY <2>1, <2>3, SetFacts
<1> QED BY <1>1, <1>2

\* A put: some of what is left is stored, up to the end of the block.
LEMMA WritePutLocals ==
  ASSUME TypeOK, NEW t \in Threads, Placed(io[t]), WritePut(t), ~Set(t, Idle)
  PROVE  LET i == io[t]
             j == io'[t]
             s == SizeInBlk(i)
         IN  /\ s \in Nat /\ s > 0 /\ s <= i.left /\ i.off + s <= i.dbk + BLK
             /\ j.off = i.off + s /\ j.left = i.left - s /\ j.start = i.start /\ j.val = i.val
             /\ j.pc = IF j.left = 0 THEN "wattr" ELSE "wget"
<1> DEFINE i == io[t]
           next == Advance(i)
           p == IF next.left = 0 THEN "wattr" ELSE "wget"
<1>1. /\ IoType(i) /\ i.pc = "wput" /\ i.dbk <= i.off /\ i.off < i.dbk + BLK /\ i.left > 0
      /\ i.off \in Nat /\ i.left \in Nat /\ i.dbk \in Nat /\ BLK \in Nat
  BY BlkAssumption DEF WritePut, TypeOK, IoType, Placed
<1>2. PICK r : Set(t, r) /\ r = [next EXCEPT !.pc = p]
  BY DEF WritePut
<1>3. SizeInBlk(i) > 0
  BY <1>1 DEF SizeInBlk
<1>4. /\ DOMAIN next = DOMAIN Idle /\ next.off = i.off + SizeInBlk(i)
      /\ next.left = i.left - SizeInBlk(i) /\ next.start = i.start /\ next.val = i.val
      /\ SizeInBlk(i) \in Nat /\ SizeInBlk(i) <= i.left /\ i.off + SizeInBlk(i) <= i.dbk + BLK
  BY <1>1, AdvanceFacts
<1> HIDE DEF next
<1>5. /\ r.off = next.off /\ r.left = next.left /\ r.start = next.start /\ r.val = next.val
      /\ r.pc = p
  BY <1>2, <1>4 DEF Idle
<1>6. io'[t] = r
  BY <1>2, SetFacts
<1> QED BY <1>3, <1>4, <1>5, <1>6

\* A turn of a read, or its failure.
LEMMA ReadGetLocals ==
  ASSUME TypeOK, NEW t \in Threads, Placed(io[t]), ReadGet(t)
  PROVE  LET i == io[t]
             j == io'[t]
             s == SizeInBlk(i)
         IN  \/ j.pc = "read" /\ j.err = "EIO"
             \/ /\ s \in Nat /\ s > 0 /\ s <= i.left /\ i.off + s <= i.dbk + BLK
                /\ j.off = i.off + s /\ j.left = i.left - s
                /\ j.start = i.start /\ j.end = i.end /\ j.buf = ReadOn(i) /\ j.err # "EIO"
                /\ j.pc = IF j.left = 0 THEN "read" ELSE "rget"
<1> DEFINE i == io[t]
           next == Advance(i)
           p == IF next.left = 0 THEN "read" ELSE "rget"
           e == IF i.dbk \in DOMAIN blocks THEN "none" ELSE "DB_NOTFOUND"
<1>1. /\ IoType(i) /\ i.pc = "rget" /\ i.dbk <= i.off /\ i.off < i.dbk + BLK /\ i.left > 0
      /\ i.off \in Nat /\ i.left \in Nat /\ i.dbk \in Nat /\ BLK \in Nat
      /\ DOMAIN i = DOMAIN Idle
  BY BlkAssumption DEF ReadGet, TypeOK, IoType, Placed
<1>2. CASE Set(t, [i EXCEPT !.pc = "read", !.err = "EIO", !.left = 0])
  <2>1. PICK r : Set(t, r) /\ r = [i EXCEPT !.pc = "read", !.err = "EIO", !.left = 0]
    BY <1>2
  <2>2. r.pc = "read" /\ r.err = "EIO"
    BY <1>1, <2>1 DEF Idle
  <2> QED BY <2>1, <2>2, SetFacts
<1>3. CASE ~Set(t, [i EXCEPT !.pc = "read", !.err = "EIO", !.left = 0])
  <2>1. PICK b, r : b = ReadOn(i) /\ Set(t, r) /\ r = [next EXCEPT !.pc = p, !.buf = b, !.err = e]
    BY <1>3 DEF ReadGet
  <2>2. SizeInBlk(i) > 0
    BY <1>1 DEF SizeInBlk
  <2>3. /\ DOMAIN next = DOMAIN Idle /\ next.off = i.off + SizeInBlk(i)
        /\ next.left = i.left - SizeInBlk(i) /\ next.start = i.start /\ next.end = i.end
        /\ SizeInBlk(i) \in Nat /\ SizeInBlk(i) <= i.left /\ i.off + SizeInBlk(i) <= i.dbk + BLK
    BY <1>1, AdvanceFacts
  <2>4. e # "EIO"
    OBVIOUS
  <2> HIDE DEF next, e
  <2>5. /\ r.off = next.off /\ r.left = next.left /\ r.start = next.start /\ r.end = next.end
        /\ r.pc = p /\ r.buf = b /\ r.err = e
    BY <2>1, <2>3 DEF Idle
  <2>6. io'[t] = r
    BY <2>1, SetFacts
  <2> QED BY <2>1, <2>2, <2>3, <2>4, <2>5, <2>6
<1> QED BY <1>2, <1>3

\* A turn of the loop of dbfs_truncateblocks, and its end.
LEMMA TruncLocals ==
  ASSUME TypeOK, NEW t \in Threads, Placed(io[t]), TruncTurn(t) \/ TruncReturn(t)
  PROVE  LET i == io[t]
             j == io'[t]
         IN  /\ i.pc = "trunc" /\ j.then = i.then /\ j.start = i.start
             /\ TruncTurn(t) => j.pc = "trunc" /\ i.left = 0 /\ j.left = 0
             /\ TruncReturn(t) => j.pc = i.then
<1> DEFINE i == io[t]
           next == Advance(i)
<1>1. /\ IoType(i) /\ i.pc = "trunc" /\ i.dbk <= i.off /\ i.off < i.dbk + BLK
      /\ DOMAIN i = DOMAIN Idle
  BY DEF TruncTurn, TruncReturn, TypeOK, IoType, Placed
<1>2. CASE TruncTurn(t)
  <2>1. PICK r : Set(t, r) /\ r = [next EXCEPT !.odd = ~@]
    BY <1>2 DEF TruncTurn
  <2>2. i.left = 0
    BY <1>2 DEF TruncTurn, TruncGoesOn
  <2>3. /\ DOMAIN next = DOMAIN Idle /\ next.then = i.then /\ next.start = i.start
        /\ next.pc = "trunc" /\ next.left = 0
    BY <1>1, <2>2, AdvanceFacts
  <2> HIDE DEF next
  <2>4. r.then = i.then /\ r.start = i.start /\ r.pc = "trunc" /\ r.left = 0
    BY <2>1, <2>3 DEF Idle
  <2>5. ~TruncReturn(t)
    BY <1>2 DEF TruncTurn, TruncReturn
  <2> QED BY <1>1, <2>1, <2>2, <2>4, <2>5, SetFacts
<1>3. CASE TruncReturn(t)
  <2>1. PICK r : Set(t, r) /\ r = [i EXCEPT !.pc = i.then]
    BY <1>3 DEF TruncReturn
  <2>2. r.then = i.then /\ r.start = i.start /\ r.pc = i.then
    BY <1>1, <2>1 DEF Idle
  <2>3. ~TruncTurn(t)
    BY <1>3 DEF TruncTurn, TruncReturn
  <2> QED BY <1>1, <2>1, <2>2, <2>3, SetFacts
<1> QED BY <1>2, <1>3

\* The steps that end a call.
LEMMA EndLocals ==
  ASSUME TypeOK, NEW t \in Threads,
         WriteAttr(t) \/ ReadReturn(t) \/ SetSizeWrite(t) \/ DeleteEntry(t) \/ TruncFail(t)
  PROVE  io'[t] = Idle
BY SetFacts DEF WriteAttr, ReadReturn, SetSizeWrite, DeleteEntry, TruncFail

-----------------------------------------------------------------------------
(* Why reads and writes end *)

\* Every step of a read or a write leaves less to do, whatever the block size
\* and wherever its offsets lie: with a step always possible, the call ends.
THEOREM ShrinksTheorem == Spec => EachStepShrinks
<1>1. ASSUME IInv, [Next]_vars, NEW t \in Threads, Work(io[t]) > 0, io'[t] # io[t]
      PROVE  Work(io'[t]) < Work(io[t])
  <2> DEFINE i == io[t]
             j == io'[t]
  <2>1. PICK u \in Threads : Begin(u) \/ Continue(u) \/ TruncFail(u)
    BY <1>1 DEF vars, Next
  <2>2. TypeOK /\ Placed(io[u]) /\ Placed(i) /\ IoType(i) /\ i.left \in Nat
    BY <1>1 DEF IInv, AllPlaced, TypeOK, IoType
  <2>3. u = t
    BY <1>1, <2>1, <2>2, BeginStep, ContinueStep
  <2>4. i.pc \in {"wget", "wput", "rget", "wattr", "read"}
    BY <1>1 DEF Work
  <2>5. ~Begin(t) /\ ~TruncFail(t)
    BY <2>4 DEF Begin, Reopen, WriteStart, ReadStart, SetSizeStart, DeleteStart, TruncFail
  <2>6. WriteGet(t) \/ WritePut(t) \/ WriteAttr(t) \/ ReadGet(t) \/ ReadReturn(t)
    BY <2>1, <2>3, <2>4, <2>5 DEF Continue, TruncTurn, TruncReturn, SetSizeWrite, DeleteEntry
  <2>7. Work(Idle) = 0
    BY DEF Work, Idle
  <2>8. CASE j = Idle
    BY <1>1, <2>7, <2>8
  <2>9. CASE WriteGet(t) /\ j # Idle
    <3>1. i.pc = "wget" /\ j.pc = "wput" /\ j.left = i.left
      BY <2>2, <2>9, WriteGetLocals DEF WriteGet
    <3>2. Work(i) = 2 * i.left + 1 /\ Work(j) = 2 * i.left
      BY <3>1 DEF Work
    <3> QED BY <2>2, <3>2
  <2>10. CASE WritePut(t) /\ j # Idle
    <3>1. ~Set(t, Idle)
      BY <2>2, <2>10, SetFacts
    <3> DEFINE s == SizeInBlk(i)
    <3>2. /\ s \in Nat /\ s > 0 /\ s <= i.left /\ j.left = i.left - s
          /\ j.pc = IF j.left = 0 THEN "wattr" ELSE "wget"
      BY <2>2, <2>10, <3>1, WritePutLocals
    <3>3. i.pc = "wput"
      BY <2>10 DEF WritePut
    <3>4. Work(i) = 2 * i.left /\ Work(j) = IF j.left = 0 THEN 1 ELSE 2 * j.left + 1
      BY <3>2, <3>3 DEF Work
    <3> HIDE DEF s
    <3> QED BY <2>2, <3>2, <3>4
  <2>11. CASE ReadGet(t)
    <3>1. i.pc = "rget" /\ i.left > 0
      BY <2>2, <2>11 DEF ReadGet, Placed
    <3>2. Work(i) = i.left + 1
      BY <3>1 DEF Work
    <3>3. CASE j.pc = "read"
      <4>1. Work(j) = 1
        BY <3>3 DEF Work
      <4> QED BY <2>2, <3>1, <3>2, <4>1
    <3>4. CASE j.pc # "read"
      <4> DEFINE s == SizeInBlk(i)
      <4>1. s \in Nat /\ s > 0 /\ s <= i.left /\ j.left = i.left - s /\ j.pc = "rget"
        BY <2>2, <2>11, <3>4, ReadGetLocals
      <4>2. Work(j) = j.left + 1
        BY <4>1 DEF Work
      <4> HIDE DEF s
      <4> QED BY <2>2, <3>2, <4>1, <4>2
    <3> QED BY <3>3, <3>4
  <2>12. CASE WriteAttr(t) \/ ReadReturn(t)
    BY <2>2, <2>8, <2>12, EndLocals
  <2> QED BY <2>6, <2>8, <2>9, <2>10, <2>11, <2>12
<1>2. IInv /\ [Next]_vars =>
        [\A t \in Threads : Work(io[t]) > 0 /\ io'[t] # io[t] => Work(io'[t]) < Work(io[t])]_vars
  BY <1>1
<1> QED BY <1>2, Inductive, PTL DEF Spec, EachStepShrinks

-----------------------------------------------------------------------------
(* The bytes that callers see *)

\* How far a call is: what is left of it ends where it was told to end, and a
\* read has put into its buffer all that it is past.
Counted(t) ==
  LET i == io[t]
  IN  /\ i.pc \in {"wget", "wput", "wattr"} => i.start <= i.off
      /\ i.pc = "wattr" => i.left = 0
      /\ i.pc = "rget" => i.start <= hsize[t]
      /\ i.pc = "rget" \/ (i.pc = "read" /\ i.err # "EIO" /\ i.start <= hsize[t]) =>
           /\ i.start <= i.off /\ i.off + i.left = i.end
           /\ DOMAIN i.buf = i.start .. i.off - 1
      /\ i.pc = "read" /\ i.err # "EIO" /\ i.start <= hsize[t] => i.left = 0
      /\ i.pc = "trunc" => i.then = "dela" \/ (i.then = "setsize" /\ i.left > 0)

AllCounted == \A t \in Threads : Counted(t)

\* The handle of a thread is its own.
LEMMA HandleOwn ==
  ASSUME TypeOK, NEW t \in Threads, Begin(t) \/ Continue(t) \/ TruncFail(t),
         NEW u \in Threads \ {t}
  PROVE  hsize'[u] = hsize[u]
BY DEF TypeOK, Begin, Reopen, WriteStart, ReadStart, SetSizeStart, DeleteStart,
   Continue, WriteGet, WritePut, WriteAttr, ReadGet, ReadReturn, TruncTurn, TruncReturn,
   SetSizeWrite, DeleteEntry, TruncFail

\* A call that begins.
LEMMA CountedBegin ==
  ASSUME TypeOK, NEW t \in Threads, Counted(t), Begin(t)
  PROVE  Counted(t)'
<1>1. CASE Reopen(t)
  BY <1>1 DEF Reopen, Counted
<1>2. ASSUME NEW o \in Offsets, NEW n \in Lens, NEW v \in Data, WriteStart(t, o, n, v)
      PROVE  Counted(t)'
  <2>1. o \in Nat
    BY BoundAssumption DEF Offsets
  <2> QED BY <1>2, <2>1, WriteStartLocals DEF Counted
<1>3. ASSUME NEW o \in Offsets, NEW n \in Lens, ReadStart(t, o, n)
      PROVE  Counted(t)'
  <2>1. o \in Nat /\ n \in Nat /\ hsize[t] \in Nat /\ hsize' = hsize
    BY <1>3, BoundAssumption DEF Offsets, TypeOK, ReadStart
  <2> DEFINE j == io'[t]
             cut == IF o + n > hsize[t] THEN hsize[t] - o ELSE n
  <2>2. /\ j.start = o /\ j.off = o /\ j.buf = <<>> /\ j.err = "none"
        /\ o > hsize[t] => j.pc = "read"
        /\ o <= hsize[t] => /\ j.left = cut /\ j.end = o + cut
                            /\ j.pc = IF cut = 0 THEN "read" ELSE "rget"
    BY <1>3, ReadStartLocals
  <2>3. DOMAIN j.buf = {} /\ o .. o - 1 = {}
    BY <2>1, <2>2
  <2>4. CASE o > hsize[t]
    BY <2>1, <2>2, <2>4 DEF Counted
  <2>5. CASE o <= hsize[t]
    BY <2>1, <2>2, <2>3, <2>5 DEF Counted
  <2> QED BY <2>1, <2>4, <2>5
<1>4. ASSUME NEW n \in 0 .. MaxOff, SetSizeStart(t, n)  PROVE Counted(t)'
  BY <1>4, SetSizeLocals DEF Counted
<1>5. CASE DeleteStart(t)
  BY <1>5, DeleteLocals DEF Counted
<1> QED BY <1>1, <1>2, <1>3, <1>4, <1>5 DEF Begin

\* A call that goes on.
LEMMA CountedContinue ==
  ASSUME TypeOK, NEW t \in Threads, Placed(io[t]), Counted(t), Continue(t) \/ TruncFail(t)
  PROVE  Counted(t)'
<1> DEFINE i == io[t]
           j == io'[t]
<1>1. /\ i.off \in Nat /\ i.left \in Nat /\ i.start \in Nat /\ i.end \in Nat
      /\ i.then \in {"idle", "setsize", "dela"}
  BY DEF TypeOK, IoType
<1>2. CASE j = Idle
  BY <1>2 DEF Counted, Idle
<1>3. CASE WriteGet(t) /\ j # Idle
  <2>1. i.pc = "wget" /\ j.pc = "wput" /\ j.start = i.start /\ j.off = i.off
    BY <1>3, WriteGetLocals DEF WriteGet
  <2> QED BY <2>1 DEF Counted
<1>4. CASE WritePut(t) /\ j # Idle
  <2>1. ~Set(t, Idle)
    BY <1>4, SetFacts
  <2>2. i.pc = "wput"
    BY <1>4 DEF WritePut
  <2> DEFINE s == SizeInBlk(i)
  <2>3. /\ s \in Nat /\ j.off = i.off + s /\ j.start = i.start
        /\ j.pc = IF j.left = 0 THEN "wattr" ELSE "wget"
    BY <1>4, <2>1, WritePutLocals
  <2> HIDE DEF s
  <2> QED BY <1>1, <2>2, <2>3 DEF Counted
<1>5. CASE ReadGet(t)
  <2> DEFINE s == SizeInBlk(i)
  <2>1. i.pc = "rget" /\ hsize' = hsize
    BY <1>5 DEF ReadGet
  <2>2. CASE j.pc = "read" /\ j.err = "EIO"
    BY <2>2 DEF Counted
  <2>3. CASE ~(j.pc = "read" /\ j.err = "EIO")
    <3>1. /\ s \in Nat /\ s > 0 /\ s <= i.left
          /\ j.off = i.off + s /\ j.left = i.left - s
          /\ j.start = i.start /\ j.end = i.end /\ j.buf = ReadOn(i)
          /\ j.pc = IF j.left = 0 THEN "read" ELSE "rget"
      BY <1>5, <2>3, ReadGetLocals
    <3>2. DOMAIN j.buf = i.start .. i.off + s - 1
      BY <3>1 DEF ReadOn, ReadOnWith
    <3> HIDE DEF s
    <3>3. i.start <= i.off /\ i.off + i.left = i.end /\ i.start <= hsize[t]
      BY <2>1 DEF Counted
    <3>4. i.start <= j.off /\ j.off + j.left = j.end
      <4> HIDE DEF i, j
      <4> QED BY <1>1, <3>1, <3>3
    <3>5. DOMAIN j.buf = j.start .. j.off - 1
      <4>1. j.start = i.start /\ j.off = i.off + s /\ s \in Nat
        BY <3>1
      <4> HIDE DEF i, j
      <4>2. j.off - 1 = i.off + s - 1
        BY <1>1, <4>1
      <4> QED BY <3>2, <4>1, <4>2
    <3> QED BY <2>1, <3>1, <3>3, <3>4, <3>5 DEF Counted
  <2> QED BY <2>2, <2>3
<1>6. CASE TruncTurn(t)
  <2>1. i.pc = "trunc" /\ i.left = 0 /\ j.pc = "trunc" /\ j.then = i.then
    BY <1>6, TruncLocals
  <2> QED BY <2>1 DEF Counted
<1>7. CASE TruncReturn(t)
  <2>1. i.pc = "trunc" /\ j.pc = i.then
    BY <1>7, TruncLocals
  <2> QED BY <1>1, <2>1 DEF Counted
<1>8. CASE WriteAttr(t) \/ ReadReturn(t) \/ SetSizeWrite(t) \/ DeleteEntry(t) \/ TruncFail(t)
  BY <1>2, <1>8, EndLocals
<1> QED BY <1>2, <1>3, <1>4, <1>5, <1>6, <1>7, <1>8 DEF Continue

LEMMA CountedStep ==
  ASSUME TypeOK, AllPlaced, AllCounted, [Next]_vars
  PROVE  AllCounted'
<1>1. CASE UNCHANGED vars
  BY <1>1 DEF vars, AllCounted, Counted
<1>2. ASSUME NEW t \in Threads, Begin(t) \/ Continue(t) \/ TruncFail(t), NEW u \in Threads \ {t}
      PROVE  Counted(u)'
  <2>1. io'[u] = io[u] /\ hsize'[u] = hsize[u]
    BY <1>2, BeginStep, ContinueStep, HandleOwn DEF AllPlaced
  <2> QED BY <2>1 DEF AllCounted, Counted
<1>3. ASSUME NEW t \in Threads, Begin(t) \/ Continue(t) \/ TruncFail(t)
      PROVE  Counted(t)'
  BY <1>3, CountedBegin, CountedContinue DEF AllCounted, AllPlaced
<1> QED BY <1>1, <1>2, <1>3 DEF Next, AllCounted

CallRecord(op, from, lo, hi, val, got) ==
  [op |-> op, from |-> from, lo |-> lo, hi |-> hi, val |-> val, got |-> got]

\* The call that callers see of a thread, by where it is.
LEMMA CallIs ==
  ASSUME NEW t \in Threads
  PROVE  LET i == io[t]
         IN  /\ i.pc \in {"wget", "wput", "wattr"} =>
                  CallOf(t) = CallRecord("write", i.start, i.off, i.off + i.left, i.val, <<>>)
             /\ i.pc = "rget" => CallOf(t) = CallRecord("read", i.start, i.off, i.end, Junk, i.buf)
             /\ i.pc = "read" /\ i.err # "EIO" /\ i.start <= hsize[t] =>
                  CallOf(t) = CallRecord("read", i.start, i.end, i.end, Junk, i.buf)
             /\ i.pc = "read" /\ ~(i.err # "EIO" /\ i.start <= hsize[t]) => CallOf(t) = Promise!NoCall
             /\ i.pc = "setsize" \/ (i.pc = "trunc" /\ i.then = "setsize") =>
                  CallOf(t) = CallRecord("resize", i.start, i.start, i.start, Junk, <<>>)
             /\ i.pc = "dela" \/ (i.pc = "trunc" /\ i.then = "dela") =>
                  CallOf(t) = CallRecord("remove", 0, 0, 0, Junk, <<>>)
             /\ i.pc = "idle" => CallOf(t) = Promise!NoCall
<1> DEFINE i == io[t]
<1>1. i.pc \in {"wget", "wput", "wattr"} =>
        CallOf(t) = CallRecord("write", i.start, i.off, i.off + i.left, i.val, <<>>)
  BY DEF CallOf, CallRecord
<1>2. i.pc = "rget" => CallOf(t) = CallRecord("read", i.start, i.off, i.end, Junk, i.buf)
  BY DEF CallOf, CallRecord
<1>3. i.pc = "read" /\ i.err # "EIO" /\ i.start <= hsize[t] =>
        CallOf(t) = CallRecord("read", i.start, i.end, i.end, Junk, i.buf)
  BY DEF CallOf, CallRecord
<1>4. i.pc = "read" /\ ~(i.err # "EIO" /\ i.start <= hsize[t]) => CallOf(t) = Promise!NoCall
  BY DEF CallOf, Promise!NoCall
<1>5. i.pc = "setsize" \/ (i.pc = "trunc" /\ i.then = "setsize") =>
        CallOf(t) = CallRecord("resize", i.start, i.start, i.start, Junk, <<>>)
  BY DEF CallOf, CallRecord
<1>6. i.pc = "dela" \/ (i.pc = "trunc" /\ i.then = "dela") =>
        CallOf(t) = CallRecord("remove", 0, 0, 0, Junk, <<>>)
  BY DEF CallOf, CallRecord
<1>7. i.pc = "idle" => CallOf(t) = Promise!NoCall
  BY DEF CallOf, Promise!NoCall
<1> QED BY <1>1, <1>2, <1>3, <1>4, <1>5, <1>6, <1>7

LEMMA RecordFields ==
  ASSUME NEW op, NEW from, NEW lo, NEW hi, NEW val, NEW got, NEW c,
         c = CallRecord(op, from, lo, hi, val, got)
  PROVE  c.op = op /\ c.from = from /\ c.lo = lo /\ c.hi = hi /\ c.val = val /\ c.got = got
BY DEF CallRecord
LEMMA RecordOn ==
  \A op, from, lo, hi, val, got, n :
    [CallRecord(op, from, lo, hi, val, got) EXCEPT !.lo = n] = CallRecord(op, from, n, hi, val, got)
BY DEF CallRecord
LEMMA RecordGot ==
  \A op, from, lo, hi, val, got, g :
    [CallRecord(op, from, lo, hi, val, got) EXCEPT !.got = g] = CallRecord(op, from, lo, hi, val, g)
BY DEF CallRecord
LEMMA BothFields ==
  \A r, n, g : [r EXCEPT !.lo = n, !.got = g] = [[r EXCEPT !.lo = n] EXCEPT !.got = g]
OBVIOUS

\* A step of one thread moves the call of that thread.
LEMMA OneCall ==
  ASSUME TypeOK, AllPlaced, NEW t \in Threads, Begin(t) \/ Continue(t) \/ TruncFail(t)
  PROVE  /\ Calls[t] = CallOf(t) /\ Calls'[t] = CallOf(t)'
         /\ Calls' = [Calls EXCEPT ![t] = CallOf(t)']
         /\ CallOf(t)' = CallOf(t) => Calls' = Calls
<1>1. \A u \in Threads \ {t} : CallOf(u)' = CallOf(u)
  <2> TAKE u \in Threads \ {t}
  <2>1. io'[u] = io[u] /\ hsize'[u] = hsize[u]
    BY BeginStep, ContinueStep, HandleOwn DEF AllPlaced
  <2> QED BY <2>1 DEF CallOf
<1> QED BY <1>1 DEF Calls

\* A call begins, or a handle is opened again.
LEMMA BeginPromised ==
  ASSUME TypeOK, AllPlaced, NEW t \in Threads, Begin(t)
  PROVE  [Promise!Next]_(Promise!vars)
<1> DEFINE j == io'[t]
<1>1. /\ UNCHANGED <<last, raced, size, there>> /\ io[t].pc = "idle"
      /\ Calls[t] = Promise!NoCall /\ Calls'[t] = CallOf(t)'
      /\ Calls' = [Calls EXCEPT ![t] = Calls'[t]]
      /\ CallOf(t)' = CallOf(t) => Calls' = Calls
  <2>1. io[t].pc = "idle" /\ UNCHANGED <<last, raced, size, there>>
    BY DEF Begin, Reopen, WriteStart, ReadStart, SetSizeStart, DeleteStart
  <2> QED BY <2>1, OneCall, CallIs
<1>2. Void' = Void
  BY <1>1 DEF Void
<1>3. ASSUME NEW op \in {"write", "read", "resize", "remove"}, NEW lo \in Nat, NEW hi \in Nat,
             NEW val, lo <= hi, op \in {"resize", "remove"} => there,
             CallOf(t)' = CallRecord(op, lo, lo, hi, val, <<>>)
      PROVE  [Promise!Next]_(Promise!vars)
  <2>1. Promise!Begin(t)
    <3>1. /\ Calls'[t].op = op /\ Calls'[t].from = lo /\ Calls'[t].lo = lo
          /\ Calls'[t].hi = hi /\ Calls'[t].got = <<>>
      BY <1>1, <1>3, RecordFields
    <3> QED BY <1>1, <1>2, <1>3, <3>1 DEF Promise!Begin, Promise!Only
  <2> QED BY <2>1 DEF Promise!Next
<1>4. ASSUME CallOf(t)' = Promise!NoCall
      PROVE  [Promise!Next]_(Promise!vars)
  BY <1>1, <1>2, <1>4, CallIs DEF Promise!vars
<1>5. CASE Reopen(t)
  <2>1. j = io[t]
    BY <1>5 DEF Reopen
  <2>2. CallOf(t)' = Promise!NoCall
    BY <1>1, <2>1 DEF CallOf, Promise!NoCall
  <2> QED BY <1>4, <2>2
<1>6. ASSUME NEW o \in Offsets, NEW n \in Lens, NEW v \in Data, WriteStart(t, o, n, v)
      PROVE  [Promise!Next]_(Promise!vars)
  <2>1. o \in Nat /\ n \in Nat /\ o + n \in Nat /\ o <= o + n
    BY BoundAssumption DEF Offsets
  <2>2. /\ j.pc \in {"wget", "wattr"} /\ j.start = o /\ j.off = o /\ j.left = n /\ j.val = v
    BY <1>6, WriteStartLocals
  <2>3. CallOf(t)' = CallRecord("write", o, o, o + n, v, <<>>)
    BY <2>2 DEF CallOf, CallRecord
  <2> QED BY <1>3, <2>1, <2>3
<1>7. ASSUME NEW o \in Offsets, NEW n \in Lens, ReadStart(t, o, n)
      PROVE  [Promise!Next]_(Promise!vars)
  <2> DEFINE cut == IF o + n > hsize[t] THEN hsize[t] - o ELSE n
  <2>1. o \in Nat /\ n \in Nat /\ hsize[t] \in Nat /\ hsize' = hsize
    BY <1>7, BoundAssumption DEF Offsets, TypeOK, ReadStart
  <2>2. /\ j.start = o /\ j.off = o /\ j.buf = <<>> /\ j.err = "none"
        /\ o > hsize[t] => j.pc = "read"
        /\ o <= hsize[t] => /\ j.left = cut /\ j.end = o + cut
                            /\ j.pc = IF cut = 0 THEN "read" ELSE "rget"
    BY <1>7, ReadStartLocals
  <2>3. CASE o > hsize[t]
    <3>1. j.pc = "read" /\ ~(j.start <= hsize'[t])
      BY <2>1, <2>2, <2>3
    <3>2. CallOf(t)' = Promise!NoCall
      BY <3>1 DEF CallOf, Promise!NoCall
    <3> QED BY <1>4, <3>2
  <2>4. CASE o <= hsize[t]
    <3>1. cut \in Nat /\ o + cut \in Nat /\ o <= o + cut
      BY <2>1, <2>4
    <3>2. /\ j.start <= hsize'[t] /\ j.err # "EIO" /\ j.end = o + cut
          /\ (j.pc = "read" /\ cut = 0) \/ j.pc = "rget"
      BY <2>1, <2>2, <2>4
    <3> HIDE DEF cut
    <3>3. CASE j.pc = "read" /\ cut = 0
      <4>1. CallOf(t)' = CallRecord("read", o, o + cut, o + cut, Junk, <<>>)
        BY <2>2, <3>2, <3>3 DEF CallOf, CallRecord
      <4>2. o + cut = o
        BY <2>1, <3>3
      <4> QED BY <1>3, <2>1, <4>1, <4>2
    <3>4. CASE j.pc = "rget"
      <4>1. CallOf(t)' = CallRecord("read", o, o, o + cut, Junk, <<>>)
        BY <2>2, <3>2, <3>4 DEF CallOf, CallRecord
      <4> QED BY <1>3, <2>1, <3>1, <4>1
    <3> QED BY <3>2, <3>3, <3>4
  <2> QED BY <2>1, <2>3, <2>4
<1>8. ASSUME NEW n \in 0 .. MaxOff, SetSizeStart(t, n)
      PROVE  [Promise!Next]_(Promise!vars)
  <2>1. j.pc \in {"trunc", "setsize"} /\ j.then = "setsize" /\ j.start = n
    BY <1>8, SetSizeLocals
  <2>2. CallOf(t)' = CallRecord("resize", n, n, n, Junk, <<>>)
    BY <2>1 DEF CallOf, CallRecord
  <2>3. n \in Nat /\ n <= n /\ there
    BY <1>8, BoundAssumption DEF SetSizeStart
  <2> QED BY <1>3, <2>2, <2>3
<1>9. CASE DeleteStart(t)
  <2>1. j.pc = "trunc" /\ j.then = "dela"
    BY <1>9, DeleteLocals
  <2>2. CallOf(t)' = CallRecord("remove", 0, 0, 0, Junk, <<>>)
    BY <2>1 DEF CallOf, CallRecord
  <2>3. there /\ 0 \in Nat /\ 0 <= 0
    BY <1>9 DEF DeleteStart
  <2> QED BY <1>3, <2>2, <2>3
<1> QED BY <1>5, <1>6, <1>7, <1>8, <1>9 DEF Begin

\* The call ends, without or after its effect on what callers see.
LEMMA ReturnPromised ==
  ASSUME TypeOK, AllPlaced, NEW t \in Threads, Continue(t) \/ TruncFail(t),
         CallOf(t)' = Promise!NoCall, UNCHANGED <<last, raced, size, there>>
  PROVE  [Promise!Next]_(Promise!vars)
<1>1. Calls' = [Calls EXCEPT ![t] = Promise!NoCall]
  BY OneCall
<1>2. Void' = Void
  BY DEF Void
<1>3. Promise!Return(t)
  BY <1>1, <1>2 DEF Promise!Return
<1> QED BY <1>3 DEF Promise!Next

\* A step that nobody sees.
LEMMA StutterPromised ==
  ASSUME TypeOK, AllPlaced, NEW t \in Threads, Continue(t) \/ TruncFail(t),
         CallOf(t)' = CallOf(t), UNCHANGED <<last, raced, size, there>>
  PROVE  [Promise!Next]_(Promise!vars)
BY OneCall DEF Void, Promise!vars

\* The put of a write.
LEMMA StorePromised ==
  ASSUME TypeOK, AllPlaced, NEW t \in Threads, WritePut(t), ~Set(t, Idle)
  PROVE  [Promise!Next]_(Promise!vars)
<1> DEFINE i == io[t]
           j == io'[t]
           s == SizeInBlk(i)
           n == i.off + s
<1>1. /\ Continue(t) /\ i.pc = "wput" /\ Placed(i) /\ IoType(i) /\ UNCHANGED <<size, there>>
      /\ last' = [o \in Offsets |-> IF InCall(i, o) THEN i.val ELSE last[o]]
      /\ raced' = raced \cup {d \in {i.dbk} : \E u \in Threads \ {t} : io[u].pc = "wput" /\ io[u].dbk = d}
  BY DEF Continue, WritePut, AllPlaced, TypeOK
<1>2. /\ i.off \in Nat /\ i.left \in Nat /\ i.dbk \in Nat /\ BLK \in Nat
      /\ i.dbk <= i.off /\ i.off < i.dbk + BLK /\ BlockStart(i.dbk) = i.dbk
  BY <1>1, BlkAssumption DEF IoType, Placed
<1>3. /\ s \in Nat /\ s > 0 /\ s <= i.left /\ i.off + s <= i.dbk + BLK
      /\ j.off = i.off + s /\ j.left = i.left - s /\ j.start = i.start /\ j.val = i.val
      /\ j.pc = IF j.left = 0 THEN "wattr" ELSE "wget"
  BY <1>1, WritePutLocals
<1>4. /\ CallOf(t) = CallRecord("write", i.start, i.off, i.off + i.left, i.val, <<>>)
      /\ CallOf(t)' = CallRecord("write", i.start, n, i.off + i.left, i.val, <<>>)
  <2>1. CallOf(t)' = CallRecord("write", j.start, j.off, j.off + j.left, j.val, <<>>)
    BY <1>3 DEF CallOf, CallRecord
  <2>2. j.off + j.left = i.off + i.left
    <3> HIDE DEF i, j, s
    <3> QED BY <1>2, <1>3
  <2> QED BY <1>1, <1>3, <2>1, <2>2, CallIs
<1>5. \A o \in Nat : i.dbk <= o /\ o < i.dbk + BLK => BlockOf[o] = i.dbk
  BY <1>2, StartWithin DEF BlockOf
<1>6. Calls[t] = CallOf(t) /\ Calls' = [Calls EXCEPT ![t] = CallOf(t)'] /\ Calls'[t] = CallOf(t)'
  BY <1>1, OneCall
<1>7. /\ Calls[t].op = "write" /\ Calls[t].lo = i.off /\ Calls[t].hi = i.off + i.left
      /\ Calls[t].val = i.val /\ Calls'[t].lo = n
  BY <1>4, <1>6, RecordFields
<1>8. Calls' = [Calls EXCEPT ![t].lo = n]
  <2>1. CallOf(t)' = [Calls[t] EXCEPT !.lo = n]
    BY <1>4, <1>6, RecordOn
  <2> QED BY <1>6, <2>1 DEF Calls
<1>9. Promise!Piece(Calls[t], n)
  <2>1. i.off < n /\ n <= i.off + i.left
    <3> HIDE DEF i, s
    <3> QED BY <1>2, <1>3
  <2>2. \A o \in i.off .. n - 1 : o \in Nat /\ i.dbk <= o /\ o < i.dbk + BLK
    <3> HIDE DEF i, s
    <3> QED BY <1>2, <1>3
  <2>3. \A o \in i.off .. n - 1 : BlockOf[o] = BlockOf[i.off]
    BY <1>2, <1>5, <2>2
  <2> QED BY <1>7, <2>1, <2>3 DEF Promise!Piece
<1>10. last' = [o \in Offsets |-> IF Calls[t].lo <= o /\ o < n THEN Calls[t].val ELSE last[o]]
  BY <1>1, <1>7 DEF InCall
<1>11. \/ Void' = Void
       \/ /\ Promise!Contended(t)
          /\ Void' = Void \cup {o \in Offsets : BlockOf[o] = BlockOf[Calls[t].lo]}
  <2>1. CASE \E u \in Threads \ {t} : io[u].pc = "wput" /\ io[u].dbk = i.dbk
    <3>1. PICK u \in Threads \ {t} : io[u].pc = "wput" /\ io[u].dbk = i.dbk
      BY <2>1
    <3>2. /\ io[u].off \in Nat /\ io[u].left \in Nat /\ io[u].left > 0
          /\ i.dbk <= io[u].off /\ io[u].off < i.dbk + BLK
      BY <3>1 DEF TypeOK, IoType, AllPlaced, Placed
    <3>3. Calls[u] = CallRecord("write", io[u].start, io[u].off, io[u].off + io[u].left, io[u].val, <<>>)
      BY <3>1, CallIs DEF Calls
    <3>4. /\ Calls[u].op = "write" /\ Calls[u].lo = io[u].off
          /\ Calls[u].hi = io[u].off + io[u].left
      BY <3>3, RecordFields
    <3>5. BlockOf[io[u].off] = i.dbk /\ BlockOf[i.off] = i.dbk
      BY <1>2, <1>5, <3>2
    <3>6. Promise!Contended(t)
      <4>1. Calls[u].lo < Calls[u].hi
        BY <3>2, <3>4
      <4> QED BY <1>7, <3>4, <3>5, <4>1 DEF Promise!Contended
    <3>7. Void' = Void \cup {o \in Offsets : BlockOf[o] = i.dbk}
      <4>1. raced' = raced \cup {i.dbk}
        BY <1>1, <2>1
      <4>2. \A o \in Offsets : BlockOf[o] = BlockStart(o)
        BY BoundAssumption DEF BlockOf, Offsets
      <4> QED BY <4>1, <4>2 DEF Void
    <3> QED BY <1>7, <3>5, <3>6, <3>7
  <2>2. CASE ~(\E u \in Threads \ {t} : io[u].pc = "wput" /\ io[u].dbk = i.dbk)
    <3>1. raced' = raced
      BY <1>1, <2>2
    <3> QED BY <3>1 DEF Void
  <2> QED BY <2>1, <2>2
<1>12. Promise!Store(t)
  <2> HIDE DEF n, i, s, j
  <2> QED BY <1>1, <1>7, <1>8, <1>9, <1>10, <1>11 DEF Promise!Store
<1> QED BY <1>12 DEF Promise!Next

\* The put of the entry after a write.
LEMMA SettlePromised ==
  ASSUME TypeOK, AllPlaced, NEW t \in Threads, Counted(t), WriteAttr(t)
  PROVE  [Promise!Next]_(Promise!vars)
<1> DEFINE i == io[t]
           grown == IF hsize[t] < i.off THEN i.off ELSE hsize[t]
<1>1. /\ Continue(t) /\ i.pc = "wattr" /\ i.left = 0 /\ i.off \in Nat /\ hsize[t] \in Nat
      /\ UNCHANGED <<last, raced>>
  BY DEF Continue, WriteAttr, Counted, TypeOK, IoType
<1>2. CallOf(t)' = Promise!NoCall
  <2>1. io'[t].pc = "idle"
    BY EndLocals DEF Idle
  <2> QED BY <2>1 DEF CallOf, Promise!NoCall
<1>3. CASE UNCHANGED <<size, there>>
  BY <1>1, <1>2, <1>3, ReturnPromised
<1>4. CASE size' = grown /\ there' = TRUE
  <2>1. Calls[t] = CallRecord("write", i.start, i.off, i.off + i.left, i.val, <<>>)
    BY <1>1, CallIs DEF Calls
  <2>2. Calls[t].op = "write" /\ Calls[t].lo = i.off /\ Calls[t].hi = i.off + i.left
    BY <2>1, RecordFields
  <2>3. Calls[t].lo = Calls[t].hi /\ Calls[t].hi <= size'
    BY <1>1, <1>4, <2>2
  <2>4. Calls' = [Calls EXCEPT ![t] = Promise!NoCall] /\ Void' = Void
    BY <1>1, <1>2, OneCall DEF Void
  <2>5. Promise!Settle(t)
    BY <1>1, <1>4, <2>2, <2>3, <2>4 DEF Promise!Settle
  <2> QED BY <2>5 DEF Promise!Next
<1> QED BY <1>3, <1>4 DEF WriteAttr

\* A turn of a read.
LEMMA FetchPromised ==
  ASSUME TypeOK, AllPlaced, BytesKept, NEW t \in Threads, Counted(t), ReadGet(t)
  PROVE  [Promise!Next]_(Promise!vars)
<1> DEFINE i == io[t]
           j == io'[t]
           s == SizeInBlk(i)
           n == i.off + s
           got == ReadOn(i)
<1>1. /\ Continue(t) /\ i.pc = "rget" /\ Placed(i) /\ IoType(i)
      /\ UNCHANGED <<blocks, size, there, hsize, last, raced>>
  BY DEF Continue, ReadGet, AllPlaced, TypeOK
<1>2. /\ i.off \in Nat /\ i.left \in Nat /\ i.dbk \in Nat /\ BLK \in Nat /\ i.start \in Nat
      /\ i.dbk <= i.off /\ i.off < i.dbk + BLK /\ BlockStart(i.dbk) = i.dbk
      /\ i.start <= hsize[t] /\ i.start <= i.off /\ i.off + i.left = i.end
  BY <1>1, BlkAssumption DEF IoType, Placed, Counted
<1>3. CASE j.pc = "read" /\ j.err = "EIO"
  <2>1. CallOf(t)' = Promise!NoCall
    BY <1>3 DEF CallOf, Promise!NoCall
  <2> QED BY <1>1, <2>1, ReturnPromised
<1>4. CASE ~(j.pc = "read" /\ j.err = "EIO")
  <2>1. /\ s \in Nat /\ s > 0 /\ s <= i.left /\ i.off + s <= i.dbk + BLK
        /\ j.off = n /\ j.left = i.left - s
        /\ j.start = i.start /\ j.end = i.end /\ j.buf = got /\ j.err # "EIO"
        /\ j.pc = IF j.left = 0 THEN "read" ELSE "rget"
    BY <1>1, <1>4, ReadGetLocals
  <2>2. /\ CallOf(t) = CallRecord("read", i.start, i.off, i.end, Junk, i.buf)
        /\ CallOf(t)' = CallRecord("read", i.start, n, i.end, Junk, got)
    <3>1. CASE j.left = 0
      <4>1. i.end = n
        <5> HIDE DEF i, j, s
        <5> QED BY <1>2, <2>1, <3>1
      <4>2. j.pc = "read" /\ j.err # "EIO" /\ j.start <= hsize'[t]
        BY <1>1, <1>2, <2>1, <3>1
      <4>3. CallOf(t)' = CallRecord("read", j.start, j.end, j.end, Junk, j.buf)
        BY <4>2 DEF CallOf, CallRecord
      <4> QED BY <1>1, <2>1, <4>1, <4>3, CallIs
    <3>2. CASE j.left # 0
      <4>1. j.pc = "rget"
        BY <2>1, <3>2
      <4>2. CallOf(t)' = CallRecord("read", j.start, j.off, j.end, Junk, j.buf)
        BY <4>1 DEF CallOf, CallRecord
      <4> QED BY <1>1, <2>1, <4>2, CallIs
    <3> QED BY <3>1, <3>2
  <2>3. Calls[t] = CallOf(t) /\ Calls' = [Calls EXCEPT ![t] = CallOf(t)'] /\ Calls'[t] = CallOf(t)'
    BY <1>1, OneCall
  <2>4. /\ Calls[t].op = "read" /\ Calls[t].from = i.start /\ Calls[t].lo = i.off
        /\ Calls[t].hi = i.end /\ Calls[t].got = i.buf
        /\ Calls'[t].lo = n /\ Calls'[t].got = got
    BY <2>2, <2>3, RecordFields
  <2>5. CallOf(t)' = [Calls[t] EXCEPT !.lo = n, !.got = got]
    <3> HIDE DEF got, n, i
    <3>1. [Calls[t] EXCEPT !.lo = n] = CallRecord("read", i.start, n, i.end, Junk, i.buf)
      BY <2>2, <2>3, RecordOn
    <3>2. [CallRecord("read", i.start, n, i.end, Junk, i.buf) EXCEPT !.got = got]
            = CallRecord("read", i.start, n, i.end, Junk, got)
      BY RecordGot
    <3>3. [Calls[t] EXCEPT !.lo = n, !.got = got] = [[Calls[t] EXCEPT !.lo = n] EXCEPT !.got = got]
      BY BothFields
    <3> QED BY <2>2, <3>1, <3>2, <3>3
  <2>6. \A o \in Nat : i.off <= o /\ o < n => BlockStart(o) = i.dbk
    <3>1. \A o \in Nat : i.off <= o /\ o < n => i.dbk <= o /\ o < i.dbk + BLK
      <4> HIDE DEF i, s
      <4> QED BY <1>2, <2>1
    <3> QED BY <1>2, <3>1, StartWithin
  <2>7. Promise!Piece(Calls[t], n)
    <3>1. i.off < n /\ n <= i.end /\ n \in Nat
      <4> HIDE DEF i, s
      <4> QED BY <1>2, <2>1
    <3>2. \A o \in i.off .. n - 1 : o \in Nat /\ i.off <= o /\ o < n
      <4> HIDE DEF i, n
      <4> QED BY <1>2, <3>1
    <3>3. \A o \in i.off .. n - 1 : BlockOf[o] = i.dbk
      BY <2>6, <3>2 DEF BlockOf
    <3>4. BlockOf[i.off] = i.dbk
      BY <1>2, <2>6, <3>1 DEF BlockOf
    <3> QED BY <2>4, <3>1, <3>3, <3>4 DEF Promise!Piece
  <2>8. /\ DOMAIN got = i.start .. n - 1
        /\ \A o \in i.start .. n - 1 :
             got[o] = IF o < i.off THEN i.buf[o]
                      ELSE IF i.dbk \in DOMAIN blocks THEN blocks[i.dbk][o - i.dbk] ELSE Zero
    <3>1. i.off + s - 1 = n - 1
      <4> HIDE DEF i, s
      <4> QED BY <1>2, <2>1
    <3> QED BY <3>1 DEF ReadOn, ReadOnWith
  <2>9. \A o \in i.start .. i.off - 1 : got[o] = i.buf[o]
    <3>1. \A o \in i.start .. i.off - 1 : o \in i.start .. n - 1 /\ o < i.off
      <4> HIDE DEF i, s
      <4> QED BY <1>2, <2>1
    <3> HIDE DEF got
    <3> QED BY <2>8, <3>1
  <2>10. ASSUME NEW o \in Offsets \ Void, i.off <= o, o < n, last[o] # Junk
         PROVE  got[o] = last[o]
    <3>1. o \in Nat
      BY BoundAssumption DEF Offsets
    <3>2. BlockStart(o) = i.dbk /\ i.dbk \notin raced
      BY <2>6, <2>10, <3>1 DEF Void
    <3>3. i.dbk \in DOMAIN blocks /\ blocks[i.dbk][o - i.dbk] = last[o]
      BY <2>10, <3>2 DEF BytesKept
    <3>4. o \in i.start .. n - 1 /\ ~(o < i.off)
      <4> HIDE DEF i, s
      <4> QED BY <1>2, <2>1, <2>10, <3>1
    <3> HIDE DEF got
    <3> QED BY <2>8, <3>3, <3>4
  <2>11. Void' = Void
    BY <1>1 DEF Void
  <2>12. Promise!Fetch(t)
    <3> HIDE DEF got, n, i, j, s
    <3> QED BY <1>1, <2>3, <2>4, <2>5, <2>7, <2>8, <2>9, <2>10, <2>11 DEF Promise!Fetch
  <2> QED BY <2>12 DEF Promise!Next
<1> QED BY <1>3, <1>4

\* dbfs_truncateblocks, and what puts or deletes the entry after it.
LEMMA TruncPromised ==
  ASSUME TypeOK, AllPlaced, NEW t \in Threads, Counted(t),
         TruncTurn(t) \/ TruncReturn(t) \/ SetSizeWrite(t) \/ DeleteEntry(t)
  PROVE  [Promise!Next]_(Promise!vars)
<1> DEFINE i == io[t]
           j == io'[t]
<1>1. Continue(t) /\ UNCHANGED raced /\ Void' = Void
  BY DEF Continue, TruncTurn, TruncReturn, SetSizeWrite, DeleteEntry, Void
<1>2. CASE TruncTurn(t)
  <2>1. /\ i.pc = "trunc" /\ i.left = 0 /\ j.pc = "trunc" /\ j.then = i.then
        /\ last' = [o \in Offsets |-> IF BlockStart(o) = i.dbk THEN Junk ELSE last[o]]
        /\ UNCHANGED <<size, there>>
    BY <1>2, TruncLocals DEF TruncTurn, AllPlaced
  <2>2. i.then = "dela"
    BY <2>1 DEF Counted
  <2>3. /\ CallOf(t) = CallRecord("remove", 0, 0, 0, Junk, <<>>)
        /\ CallOf(t)' = CallOf(t)
    BY <2>1, <2>2 DEF CallOf, CallRecord
  <2>4. Calls' = Calls /\ Calls[t].op = "remove"
    BY <1>1, <2>3, OneCall, RecordFields
  <2>5. Promise!Erase(t)
    <3>1. \A o \in Offsets : last'[o] = last[o] \/ last'[o] = Junk
      BY <2>1
    <3>2. last' = [o \in Offsets |-> last'[o]]
      BY <2>1
    <3> QED BY <1>1, <2>1, <2>4, <3>1, <3>2 DEF Promise!Erase
  <2> QED BY <2>5 DEF Promise!Next
<1>3. CASE TruncReturn(t)
  <2>1. /\ i.pc = "trunc" /\ j.pc = i.then /\ j.then = i.then /\ j.start = i.start
        /\ UNCHANGED <<last, raced, size, there>>
    BY <1>3, TruncLocals DEF TruncReturn, AllPlaced
  <2>2. i.then \in {"setsize", "dela"}
    BY <2>1 DEF Counted
  <2>3. CallOf(t)' = CallOf(t)
    BY <2>1, <2>2 DEF CallOf
  <2> QED BY <1>1, <2>1, <2>3, StutterPromised
<1>4. CASE SetSizeWrite(t) \/ DeleteEntry(t)
  <2>1. j.pc = "idle" /\ UNCHANGED <<last, raced>>
    <3>1. j = Idle
      BY <1>4, EndLocals
    <3>2. j.pc = "idle"
      BY <3>1 DEF Idle
    <3> QED BY <1>4, <3>2 DEF SetSizeWrite, DeleteEntry
  <2>2. CallOf(t)' = Promise!NoCall
    BY <2>1 DEF CallOf, Promise!NoCall
  <2>3. CASE UNCHANGED <<size, there>>
    BY <1>1, <2>1, <2>2, <2>3, ReturnPromised
  <2>4. Calls' = [Calls EXCEPT ![t] = Promise!NoCall]
    BY <1>1, <2>2, OneCall
  <2>5. CASE SetSizeWrite(t) /\ size' = i.start /\ there' = TRUE
    <3>1. i.pc = "setsize"
      BY <2>5 DEF SetSizeWrite
    <3>2. Calls[t] = CallRecord("resize", i.start, i.start, i.start, Junk, <<>>)
      BY <3>1, CallIs DEF Calls
    <3>3. Calls[t].op = "resize" /\ Calls[t].hi = i.start
      BY <3>2, RecordFields
    <3>4. Promise!Resize(t)
      BY <1>1, <2>1, <2>4, <2>5, <3>3 DEF Promise!Resize
    <3> QED BY <3>4 DEF Promise!Next
  <2>6. CASE DeleteEntry(t) /\ there' = FALSE
    <3>1. i.pc = "dela" /\ UNCHANGED size
      BY <2>6 DEF DeleteEntry
    <3>2. Calls[t] = CallRecord("remove", 0, 0, 0, Junk, <<>>)
      BY <3>1, CallIs DEF Calls
    <3>3. Calls[t].op = "remove"
      BY <3>2, RecordFields
    <3>4. Promise!Remove(t)
      BY <1>1, <2>1, <2>4, <2>6, <3>1, <3>3 DEF Promise!Remove
    <3> QED BY <3>4 DEF Promise!Next
  <2> QED BY <1>4, <2>3, <2>5, <2>6 DEF SetSizeWrite, DeleteEntry
<1> QED BY <1>2, <1>3, <1>4

\* What threads do to the bytes of a file is what FilePromise allows, step by
\* step, for every block size and however their gets and puts interleave.
THEOREM PromiseTheorem == Spec => KeepsBytes
<1>1. Init => AllCounted
  <2> SUFFICES ASSUME Init, NEW t \in Threads  PROVE Counted(t)
    BY DEF AllCounted
  <2>1. io[t].pc = "idle"
    BY DEF Init, Idle
  <2> QED BY <2>1 DEF Counted
<1>2. IInv /\ AllCounted /\ [Next]_vars => AllCounted'
  BY CountedStep DEF IInv
<1>3. Init => Promise!Init
  <2> SUFFICES ASSUME Init  PROVE Promise!Init
    OBVIOUS
  <2>1. \A t \in Threads : CallOf(t) = Promise!NoCall
    <3>1. \A t \in Threads : io[t].pc = "idle"
      BY DEF Init, Idle
    <3> QED BY <3>1, CallIs
  <2>2. Calls = [t \in Threads |-> Promise!NoCall]
    BY <2>1 DEF Calls
  <2> QED BY <2>2 DEF Promise!Init, Init, Void
<1>4. IInv /\ AllCounted /\ [Next]_vars => [Promise!Next]_(Promise!vars)
  <2> SUFFICES ASSUME IInv, AllCounted, [Next]_vars  PROVE [Promise!Next]_(Promise!vars)
    OBVIOUS
  <2> USE DEF IInv
  <2>1. CASE UNCHANGED vars
    BY <2>1 DEF vars, Promise!vars, Void, Calls, CallOf
  <2>2. ASSUME NEW t \in Threads, WriteGet(t)  PROVE [Promise!Next]_(Promise!vars)
    <3> DEFINE i == io[t]
               j == io'[t]
    <3>1. i.pc = "wget" /\ Continue(t) /\ UNCHANGED <<last, raced, size, there>>
      BY <2>2 DEF Continue, WriteGet
    <3>2. CASE j = Idle
      <4>1. j.pc = "idle"
        BY <3>2 DEF Idle
      <4>2. CallOf(t)' = Promise!NoCall
        BY <4>1 DEF CallOf, Promise!NoCall
      <4> QED BY <3>1, <4>2, ReturnPromised
    <3>3. CASE j # Idle
      <4>1. j.pc = "wput" /\ j.start = i.start /\ j.off = i.off /\ j.left = i.left /\ j.val = i.val
        BY <2>2, <3>3, WriteGetLocals
      <4>2. CallOf(t)' = CallOf(t)
        BY <3>1, <4>1 DEF CallOf
      <4> QED BY <3>1, <4>2, StutterPromised
    <3> QED BY <3>2, <3>3
  <2>3. ASSUME NEW t \in Threads, WritePut(t), Set(t, Idle)  PROVE [Promise!Next]_(Promise!vars)
    <3>1. io'[t] = Idle /\ io[t].pc = "wput" /\ Continue(t)
      BY <2>3, SetFacts DEF WritePut, Continue
    <3>2. io'[t].pc = "idle"
      BY <3>1 DEF Idle
    <3>3. CallOf(t)' = Promise!NoCall
      BY <3>2 DEF CallOf, Promise!NoCall
    <3>4. UNCHANGED <<last, raced, size, there>>
      <4> DEFINE next == Advance(io[t])
                 p == IF next.left = 0 THEN "wattr" ELSE "wget"
      <4>1. ~Set(t, [next EXCEPT !.pc = p])
        <5>1. DOMAIN next = DOMAIN Idle
          BY <3>1, AdvanceFacts DEF AllPlaced, Placed, TypeOK
        <5>2. PICK r : r = [next EXCEPT !.pc = p]
          OBVIOUS
        <5>3. p # "idle" /\ p = p
          OBVIOUS
        <5> HIDE DEF next, p
        <5>4. r.pc # "idle"
          BY <5>1, <5>2, <5>3 DEF Idle
        <5>5. ~Set(t, r)
          BY <3>2, <5>4, SetFacts
        <5> QED BY <5>2, <5>5
      <4> QED BY <2>3, <4>1 DEF WritePut
    <3> QED BY <3>1, <3>3, <3>4, ReturnPromised
  <2>4. ASSUME NEW t \in Threads, ReadReturn(t) \/ TruncFail(t)  PROVE [Promise!Next]_(Promise!vars)
    <3>1. io'[t].pc = "idle" /\ UNCHANGED <<last, raced, size, there>>
      <4>1. io'[t] = Idle
        BY <2>4, EndLocals
      <4>2. io'[t].pc = "idle"
        BY <4>1 DEF Idle
      <4> QED BY <2>4, <4>2 DEF ReadReturn, TruncFail
    <3>2. CallOf(t)' = Promise!NoCall
      BY <3>1 DEF CallOf, Promise!NoCall
    <3> QED BY <2>4, <3>1, <3>2, ReturnPromised DEF Continue
  <2>5. ASSUME NEW t \in Threads, Continue(t)  PROVE [Promise!Next]_(Promise!vars)
    <3>1. Counted(t) /\ BytesKept
      BY DEF AllCounted, Kept
    <3> QED BY <2>2, <2>3, <2>4, <2>5, <3>1, StorePromised, SettlePromised, FetchPromised,
               TruncPromised DEF Continue
  <2> QED BY <2>1, <2>4, <2>5, BeginPromised DEF Next
<1> QED BY <1>1, <1>2, <1>3, <1>4, Inductive, PTL DEF Spec, KeepsBytes, Promise!Spec
=============================================================================
