----------------------------- MODULE TreePromise -----------------------------
(***************************************************************************)
(* What a dbfs store does to the entries of its tree, without keys,        *)
(* cursors, blocks or lent memory.                                         *)
(*                                                                         *)
(* A new entry never takes the place of another.  A handle does: it puts   *)
(* the entry back that its locator had when it was opened, over another    *)
(* one or over none.  Only removals take entries away, one each.  The      *)
(* removal of a file takes that file; the removal of a directory looks at  *)
(* what is in it once, and what it takes may be another entry than the     *)
(* directory, but not the root and none of the directory's.  A listing     *)
(* gives entries as they are found, with all that stay from its beginning  *)
(* to its end.                                                             *)
(***************************************************************************)
CONSTANTS
  Locators,   \* the locators
  Top,        \* the one of the root directory
  Inside,     \* per locator: the locators below it, at any depth
  Within,     \* per locator: those directly in it
  Alike,      \* per locator: others that a listing of it may give
  Callers,    \* the threads in a call, and the handles
  None        \* no locator

VARIABLES
  entry,      \* per locator: "none", "dir" or "file"
  testing,    \* per thread: the directory whose emptiness it tests
  aim,        \* per thread: the entry it is about to remove
  listing,    \* per thread: the directory it lists, the entries there since it began,
              \* the entries given, and whether it has come to its end
  handle      \* per handle: its locator, and what was there when it was opened

vars == <<entry, testing, aim, listing, handle>>

NoListing == [of |-> None, must |-> {}, given |-> {}, over |-> FALSE]
NoHandle == [of |-> None, as |-> "none"]

Init ==
  /\ entry = [p \in Locators |-> IF p = Top THEN "dir" ELSE "none"]
  /\ testing = [t \in Callers |-> None]
  /\ aim = [t \in Callers |-> None]
  /\ listing = [t \in Callers |-> NoListing]
  /\ handle = [t \in Callers |-> NoHandle]

Exists(p) == entry[p] # "none"
Lists(t) == listing[t].of # None
HasOpen(t) == handle[t].of # None
Free(t) == testing[t] = None /\ aim[t] = None /\ ~Lists(t) /\ ~HasOpen(t)

Add(p) ==
  /\ ~Exists(p) /\ entry'[p] \in {"dir", "file"}
  /\ entry' = [entry EXCEPT ![p] = entry'[p]]
  /\ UNCHANGED <<testing, aim, listing, handle>>

RemoveFile(t) ==
  /\ Free(t)
  /\ \E p \in Locators : entry[p] = "file" /\ aim' = [aim EXCEPT ![t] = p]
  /\ UNCHANGED <<entry, testing, listing, handle>>

RemoveDir(t) ==
  /\ Free(t)
  /\ \E d \in Locators \ {Top} : entry[d] = "dir" /\ testing' = [testing EXCEPT ![t] = d]
  /\ UNCHANGED <<entry, aim, listing, handle>>

\* The directory is empty at this moment; what will be removed is settled too.
FoundEmpty(t) ==
  /\ testing[t] # None
  /\ \A e \in Inside[testing[t]] : ~Exists(e)
  /\ testing' = [testing EXCEPT ![t] = None]
  /\ \E a \in (Locators \cup {None}) \ (Inside[testing[t]] \cup {Top}) :
       aim' = [aim EXCEPT ![t] = a]
  /\ UNCHANGED <<entry, listing, handle>>

Remove(t) ==
  /\ aim[t] # None
  /\ entry' = [entry EXCEPT ![aim[t]] = "none"]
  /\ aim' = [aim EXCEPT ![t] = None]
  /\ listing' = [u \in Callers |-> [listing[u] EXCEPT !.must = @ \ {aim[t]}]]
  /\ UNCHANGED <<testing, handle>>

Begun(d) == [of |-> d, must |-> {e \in Within[d] : Exists(e)}, given |-> {}, over |-> FALSE]
List(t) ==
  /\ Free(t)
  /\ \E d \in Locators : Exists(d) /\ listing' = [listing EXCEPT ![t] = Begun(d)]
  /\ UNCHANGED <<entry, testing, aim, handle>>

Give(t) ==
  /\ Lists(t) /\ ~listing[t].over
  /\ \E e \in Within[listing[t].of] \cup Alike[listing[t].of] :
       Exists(e) /\ listing' = [listing EXCEPT ![t].given = @ \cup {e}]
  /\ UNCHANGED <<entry, testing, aim, handle>>

Finish(t) ==
  /\ Lists(t) /\ ~listing[t].over
  /\ listing[t].must \subseteq listing[t].given
  /\ listing' = [listing EXCEPT ![t].over = TRUE]
  /\ UNCHANGED <<entry, testing, aim, handle>>

Open(t) ==
  /\ Free(t)
  /\ \E p \in Locators : Exists(p) /\ handle' = [handle EXCEPT ![t] = [of |-> p, as |-> entry[p]]]
  /\ UNCHANGED <<entry, testing, aim, listing>>

PutBack(t) ==
  /\ HasOpen(t)
  /\ entry' = [entry EXCEPT ![handle[t].of] = handle[t].as]
  /\ UNCHANGED <<testing, aim, listing, handle>>

\* The call is refused or fails, or the listing or handle is closed.
End(t) ==
  /\ testing' = [testing EXCEPT ![t] = None]
  /\ aim' = [aim EXCEPT ![t] = None]
  /\ listing' = [listing EXCEPT ![t] = NoListing]
  /\ handle' = [handle EXCEPT ![t] = NoHandle]
  /\ UNCHANGED entry

Next ==
  \/ \E p \in Locators : Add(p)
  \/ \E t \in Callers :
       \/ FoundEmpty(t) \/ Remove(t) \/ Give(t) \/ Finish(t)
       \/ RemoveFile(t) \/ RemoveDir(t) \/ List(t) \/ Open(t) \/ PutBack(t) \/ End(t)

Spec == Init /\ [][Next]_vars
=============================================================================
