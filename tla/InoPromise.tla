----------------------------- MODULE InoPromise -----------------------------
(***************************************************************************)
(* What a volume promises about inode numbers, without batches, counters   *)
(* or threads: a file gets a number that no file has, neither in the open  *)
(* volume nor in what a crash would leave of it, and that no handle        *)
(* remembers.  It keeps it until it is removed, but for handles: one that  *)
(* was opened on an earlier file of the same locator may put that file's   *)
(* number back, over the new one or over none.  So a number that was given *)
(* to a locator is seen on no other as long as a handle, the volume or the *)
(* file on disk knows it.                                                  *)
(*                                                                         *)
(* A crash takes files back to what was saved of each, one by one; it      *)
(* mixes up no numbers.  Once a mishap broke the promise (sound is FALSE)  *)
(* nothing is promised.                                                    *)
(***************************************************************************)
CONSTANTS
  Files,    \* the locators
  None      \* no number: the file does not exist

VARIABLES
  number,   \* the number of each file of the open volume
  saved,    \* the number of each file in the database file
  held,     \* locators with the numbers that open handles remember of them
  sound     \* whether the promise still holds

vars == <<number, saved, held, sound>>

Init ==
  /\ number = [f \in Files |-> None] /\ saved = [f \in Files |-> None]
  /\ held = {}
  /\ sound = TRUE

\* f is created; its number is any that no file and no handle has.
Take(f) ==
  /\ number[f] = None
  /\ \A g \in Files : number'[f] \notin {number[g], saved[g]}
  /\ \A r \in held : r[2] # number'[f]
  /\ number' = [number EXCEPT ![f] = number'[f]]
  /\ UNCHANGED <<saved, held, sound>>

Drop(f) ==
  /\ number' = [number EXCEPT ![f] = None]
  /\ UNCHANGED <<saved, held, sound>>

\* A handle is opened; one is used; some are closed.
Hold(f) ==
  /\ number[f] # None
  /\ held' = held \cup {<<f, number[f]>>}
  /\ UNCHANGED <<number, saved, sound>>

PutBack(f) ==
  /\ \E r \in held : r[1] = f /\ number' = [number EXCEPT ![f] = r[2]]
  /\ UNCHANGED <<saved, held, sound>>

Forget ==
  /\ held' \subseteq held
  /\ UNCHANGED <<number, saved, sound>>

Save(F) ==
  /\ saved' = [f \in Files |-> IF f \in F THEN number[f] ELSE saved[f]]
  /\ held' \subseteq held
  /\ UNCHANGED <<number, sound>>

Revert ==
  /\ number' = saved /\ held' = {}
  /\ UNCHANGED <<saved, sound>>

Lapse == sound' = FALSE

Next ==
  \/ Lapse
  \/ \E f \in Files : Take(f) \/ Drop(f) \/ Hold(f) \/ PutBack(f)
  \/ Forget
  \/ \E F \in SUBSET Files : Save(F)
  \/ Revert

Spec == Init /\ [][Next]_vars
=============================================================================
