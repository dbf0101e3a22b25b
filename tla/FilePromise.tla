----------------------------- MODULE FilePromise -----------------------------
(***************************************************************************)
(* What the calls on one file of a dbfs store do to its bytes, without     *)
(* blocks, copies of them, keys or the locals of a loop.                   *)
(*                                                                         *)
(* A write stores its bytes in order, those of one unit at a time, and no  *)
(* others; it may end after any of them.  A read gets its bytes in order,  *)
(* those of one unit at a time as they are at that moment.  A unit that    *)
(* two writes are about to store into may be void after it was stored:     *)
(* there, and only there, a byte may be another than the last one stored.  *)
(* A resize takes no byte below the new size.                              *)
(***************************************************************************)
EXTENDS Naturals

CONSTANTS
  Offsets,    \* the offsets
  Unit,       \* per offset: the unit it is in
  Unset,      \* the value of a byte that is not there
  Callers     \* the threads

VARIABLES
  bytes,      \* per offset: the byte last stored, or Unset
  void,       \* the offsets of units that two writes stored into at once
  call,       \* per thread: the call it is in
  size,       \* the size of the file
  there       \* whether the file is there

vars == <<bytes, void, call, size, there>>

\* from: where the call began; lo: where it has got to; hi: where it ends;
\* val: the byte it writes; got: the bytes it has read.
NoCall == [op |-> "none", from |-> 0, lo |-> 0, hi |-> 0, val |-> Unset, got |-> <<>>]

Init ==
  /\ bytes = [o \in Offsets |-> Unset] /\ void = {}
  /\ call = [t \in Callers |-> NoCall]
  /\ size = 0 /\ there = TRUE

Only(t) == call' = [call EXCEPT ![t] = call'[t]]

Begin(t) ==
  LET c == call'[t]
  IN  /\ call[t] = NoCall /\ Only(t)
      /\ c.op \in {"write", "read", "resize", "remove"}
      /\ c.lo = c.from /\ c.lo <= c.hi /\ c.got = <<>>
      /\ c.op \in {"resize", "remove"} => there
      /\ UNCHANGED <<bytes, void, size, there>>

\* The bytes from lo up to n, which are of one unit, are the next.
Piece(c, n) == /\ c.lo < n /\ n <= c.hi
               /\ \A o \in c.lo .. n - 1 : Unit[o] = Unit[c.lo]

\* Another write is about to store into the same unit.
Contended(t) ==
  \E u \in Callers \ {t} :
    /\ call[u].op = "write" /\ call[u].lo < call[u].hi
    /\ Unit[call[u].lo] = Unit[call[t].lo]

Store(t) ==
  LET c == call[t]
      n == call'[t].lo
  IN  /\ c.op = "write" /\ Piece(c, n)
      /\ call' = [call EXCEPT ![t].lo = n]
      /\ bytes' = [o \in Offsets |-> IF c.lo <= o /\ o < n THEN c.val ELSE bytes[o]]
      /\ \/ UNCHANGED void
         \/ Contended(t) /\ void' = void \cup {o \in Offsets : Unit[o] = Unit[c.lo]}
      /\ UNCHANGED <<size, there>>

\* The end of a write is within the file then.
Settle(t) ==
  /\ call[t].op = "write" /\ call[t].lo = call[t].hi
  /\ call' = [call EXCEPT ![t] = NoCall]
  /\ there' = TRUE /\ call[t].hi <= size'
  /\ UNCHANGED <<bytes, void>>

Fetch(t) ==
  LET c == call[t]
      n == call'[t].lo
      got == call'[t].got
  IN  /\ c.op = "read" /\ Piece(c, n)
      /\ call' = [call EXCEPT ![t] = [c EXCEPT !.lo = n, !.got = got]]
      /\ DOMAIN got = c.from .. n - 1
      /\ \A o \in c.from .. c.lo - 1 : got[o] = c.got[o]
      /\ \A o \in Offsets \ void : c.lo <= o /\ o < n /\ bytes[o] # Unset => got[o] = bytes[o]
      /\ UNCHANGED <<bytes, void, size, there>>

\* Bytes go, in a resize none below the new size.
Erase(t) ==
  /\ call[t].op \in {"resize", "remove"}
  /\ \A o \in Offsets :
       \/ bytes'[o] = bytes[o]
       \/ bytes'[o] = Unset /\ (call[t].op = "resize" => call[t].hi <= o)
  /\ bytes' = [o \in Offsets |-> bytes'[o]]
  /\ UNCHANGED <<void, call, size, there>>

Resize(t) ==
  /\ call[t].op = "resize"
  /\ call' = [call EXCEPT ![t] = NoCall]
  /\ size' = call[t].hi /\ there' = TRUE
  /\ UNCHANGED <<bytes, void>>

Remove(t) ==
  /\ call[t].op = "remove"
  /\ call' = [call EXCEPT ![t] = NoCall]
  /\ there' = FALSE
  /\ UNCHANGED <<bytes, void, size>>

\* A call returns, with an error or, when it is a read, with what it got.
Return(t) ==
  /\ call' = [call EXCEPT ![t] = NoCall]
  /\ UNCHANGED <<bytes, void, size, there>>

Next ==
  \E t \in Callers :
    Begin(t) \/ Store(t) \/ Settle(t) \/ Fetch(t) \/ Erase(t) \/ Resize(t) \/ Remove(t) \/ Return(t)

Spec == Init /\ [][Next]_vars
=============================================================================
