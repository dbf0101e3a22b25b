------------------------------ MODULE ConcWrite ------------------------------
(***************************************************************************)
(* samp/concwrite: main starts threads that each append to one file, and   *)
(* closes the store without waiting for them.  The threads keep what they  *)
(* open in global variables: one handle, one environment, one offset.      *)
(*                                                                         *)
(* An access to memory that is not (or no longer) allocated ends the       *)
(* process, or goes on with what it finds.                                 *)
(***************************************************************************)
EXTENDS Naturals, FiniteSets

CONSTANTS
  Threads,    \* the threads main creates
  Null,       \* the pointer to nothing
  BufLen,     \* strlen(buf)
  MaxFails    \* bound: opens that fail

\* Addresses: one thread opens one handle and one environment.
Addresses == Threads

ASSUME NullAssumption == Null \notin Threads
ASSUME NumberAssumption == BufLen \in Nat \ {0} /\ MaxFails \in Nat

VARIABLES
  main,       \* main: "init", "envdir", "spawn", "exit", "over" (returned) or "dead" (the process crashed)
  store,      \* ms: "none", "open" or "closed"
  file,       \* whether the file exists
  pc,         \* per thread
  handle,     \* the global handle (dh is the same address)
  dbenv,      \* the global environment
  offset,     \* main's offset, which the threads have a pointer to
  loaded,     \* per thread: the offset read by the += in progress
  handles,    \* the addresses of handles that are allocated
  envs,       \* the same of environments
  log         \* history

vars == <<main, store, file, pc, handle, dbenv, offset, loaded, handles, envs, log>>
heap == <<handle, dbenv, handles, envs>>

Steps == {"unborn", "open", "create", "env", "write", "load", "add", "closeenv", "close", "done"}
HasHandle == {"env", "write", "load", "add", "closeenv", "close"}
HasEnv == {"write", "load", "add", "closeenv"}

TypeOK ==
  /\ main \in {"init", "envdir", "spawn", "exit", "over", "dead"}
  /\ store \in {"none", "open", "closed"} /\ file \in BOOLEAN
  /\ pc \in [Threads -> Steps]
  /\ handle \in Addresses \cup {Null} /\ dbenv \in Addresses \cup {Null}
  /\ offset \in Nat /\ loaded \in [Threads -> Nat]
  /\ handles \subseteq Addresses /\ envs \subseteq Addresses
  /\ \A t \in Threads : pc[t] \in HasHandle => handle # Null
  /\ log \in [added : Nat, fails : Nat, again : Nat, envagain : Nat, wild : BOOLEAN, met : BOOLEAN]

\* added: writes counted in offset; fails: opens that failed; again, envagain:
\* closes of what was closed already; wild: memory that is gone was used; met:
\* a thread opened the file while another one had it open.
Init ==
  /\ main = "init" /\ store = "none" /\ file \in BOOLEAN
  /\ pc = [t \in Threads |-> "unborn"]
  /\ handle = Null /\ dbenv = Null
  /\ offset = 0 /\ loaded = [t \in Threads |-> 0]
  /\ handles = {} /\ envs = {}
  /\ log = [added |-> 0, fails |-> 0, again |-> 0, envagain |-> 0, wild |-> FALSE, met |-> FALSE]

\* A thread runs until the process ends.
At(t, l) == main \in {"spawn", "exit"} /\ pc[t] = l
Goes(t, l) == pc' = [pc EXCEPT ![t] = l]

-----------------------------------------------------------------------------
(* main *)

\* A store that does not open leaves ms NULL, and main goes on.
InitStore ==
  /\ main = "init"
  /\ main' = "envdir" /\ store' \in {"open", "none"}
  /\ UNCHANGED <<file, pc, offset, loaded, log>> /\ UNCHANGED heap

\* env_dir_create: there is a directory for the environments, or the process
\* ends.
EnvDirCreate ==
  /\ main = "envdir"
  /\ main' \in {"spawn", "over"}
  /\ UNCHANGED <<store, file, pc, offset, loaded, log>> /\ UNCHANGED heap

\* pthread_create, whose result nobody looks at.
Spawn(t) ==
  /\ main = "spawn" /\ pc[t] = "unborn"
  /\ \E l \in {"open", "done"} : Goes(t, l)
  /\ UNCHANGED <<main, store, file, offset, loaded, log>> /\ UNCHANGED heap

\* mangoo_closestore reads through ms.
CloseStore ==
  /\ main = "spawn" /\ \A t \in Threads : pc[t] # "unborn"
  /\ \/ store = "open" /\ main' = "exit" /\ store' = "closed"
     \/ store = "none" /\ main' = "dead" /\ UNCHANGED store
  /\ UNCHANGED <<file, pc, offset, loaded, log>> /\ UNCHANGED heap

\* main returns, which ends every thread.
Exit ==
  /\ main = "exit" /\ main' = "over"
  /\ UNCHANGED <<store, file, pc, offset, loaded, log>> /\ UNCHANGED heap

-----------------------------------------------------------------------------
(* sampwrite *)

\* mangoo_open stores the address of the handle in the global variable.  A slip
\* to catch beside it: in one of the thread's own.
OpenLocal(t) ==
  /\ At(t, "open") /\ store = "open" /\ file
  /\ \E a \in Addresses \ handles : handles' = handles \cup {a}
  /\ log' = [log EXCEPT !.met = @ \/ \E u \in Threads : pc[u] \in HasHandle]
  /\ Goes(t, "env")
  /\ UNCHANGED <<main, store, file, handle, dbenv, offset, loaded, envs>>
Open(t) ==
  /\ At(t, "open") /\ store = "open" /\ file
  /\ \E a \in Addresses \ handles : handles' = handles \cup {a} /\ handle' = a
  /\ log' = [log EXCEPT !.met = @ \/ \E u \in Threads : pc[u] \in HasHandle]
  /\ Goes(t, "env")
  /\ UNCHANGED <<main, store, file, dbenv, offset, loaded, envs>>

\* No file, no store (EINVAL), or another error: to mangoo_create.
OpenFail(t) ==
  /\ At(t, "open") /\ store # "closed" /\ log.fails < MaxFails
  /\ log' = [log EXCEPT !.fails = @ + 1]
  /\ Goes(t, "create")
  /\ UNCHANGED <<main, store, file, offset, loaded>> /\ UNCHANGED heap

\* And back, whatever it returns.
Create(t) ==
  /\ At(t, "create") /\ store # "closed"
  /\ file' \in {file, file \/ store = "open"}
  /\ Goes(t, "open")
  /\ UNCHANGED <<main, store, offset, loaded, log>> /\ UNCHANGED heap

\* The store is closed and ms freed: mangoo_open or mangoo_create through it is
\* fatal or an error.
UseClosed(t) ==
  /\ At(t, "open") \/ At(t, "create")
  /\ store = "closed"
  /\ \/ main' = "dead" /\ UNCHANGED pc
     \/ Goes(t, IF pc[t] = "open" THEN "create" ELSE "open") /\ UNCHANGED main
  /\ log' = [log EXCEPT !.wild = TRUE]
  /\ UNCHANGED <<store, file, offset, loaded>> /\ UNCHANGED heap

\* Something that a thread reaches through the global handle.
Touch == log' = [log EXCEPT !.wild = @ \/ handle \notin handles \/ store = "closed"]

\* dh is printed; env_open stores an environment, or ends the process.
OpenEnv(t) ==
  /\ At(t, "env") /\ Touch
  /\ \/ /\ \E a \in Addresses \ envs : envs' = envs \cup {a} /\ dbenv' = a
        /\ Goes(t, "write") /\ UNCHANGED main
     \/ main' \in {"over"} \cup (IF handle \in handles THEN {} ELSE {"dead"})
        /\ UNCHANGED <<pc, dbenv, envs>>
  /\ UNCHANGED <<store, file, handle, offset, loaded, handles>>

\* mstream_write through the global handle, which writes through the database.
\* A slip to catch: an error ends the function there.
WriteLeaves(t) ==
  /\ At(t, "write") /\ Touch
  /\ \E l \in {"load", "done"} : Goes(t, l)
  /\ UNCHANGED <<main, store, file, offset, loaded>> /\ UNCHANGED heap
Write(t) ==
  /\ At(t, "write") /\ Touch
  /\ \/ \E l \in {"load", "closeenv"} : Goes(t, l) /\ UNCHANGED main
     \/ /\ handle \notin handles \/ store = "closed"
        /\ main' = "dead" /\ UNCHANGED pc
  /\ UNCHANGED <<store, file, offset, loaded>> /\ UNCHANGED heap

\* *offset += strlen(buf): a load and a store.
Load(t) ==
  /\ At(t, "load")
  /\ loaded' = [loaded EXCEPT ![t] = offset]
  /\ Goes(t, "add")
  /\ UNCHANGED <<main, store, file, offset, log>> /\ UNCHANGED heap

\* A slip to catch: the size of the write, with the final NUL, is added.
AddedSize(t) == loaded[t] + BufLen + 1
Added(t) == loaded[t] + BufLen

Add(t) ==
  /\ At(t, "add")
  /\ offset' = Added(t)
  /\ log' = [log EXCEPT !.added = @ + 1]
  /\ Goes(t, "closeenv")
  /\ UNCHANGED <<main, store, file, loaded>> /\ UNCHANGED heap

\* dbenv->close of the environment that the global variable names by now.
CloseEnv(t) ==
  /\ At(t, "closeenv")
  /\ IF dbenv \in envs
     THEN Goes(t, "close") /\ UNCHANGED <<main, log>>
     ELSE /\ \/ Goes(t, "close") /\ UNCHANGED main
             \/ main' = "dead" /\ UNCHANGED pc
          /\ log' = [log EXCEPT !.envagain = @ + 1]
  /\ envs' = envs \ {dbenv}
  /\ UNCHANGED <<store, file, handle, dbenv, offset, loaded, handles>>

\* mangoo_close of the handle that the global variable names by now.
Close(t) ==
  /\ At(t, "close")
  /\ IF handle \in handles
     THEN Goes(t, "done") /\ UNCHANGED <<main, log>>
     ELSE /\ \/ Goes(t, "done") /\ UNCHANGED main
             \/ main' = "dead" /\ UNCHANGED pc
          /\ log' = [log EXCEPT !.again = @ + 1]
  /\ handles' = handles \ {handle}
  /\ UNCHANGED <<store, file, handle, dbenv, offset, loaded, envs>>

-----------------------------------------------------------------------------
Step(t) ==
  \/ Open(t) \/ OpenFail(t) \/ Create(t) \/ UseClosed(t) \/ OpenEnv(t) \/ Write(t)
  \/ Load(t) \/ Add(t) \/ CloseEnv(t) \/ Close(t)

Next == InitStore \/ EnvDirCreate \/ CloseStore \/ Exit \/ \E t \in Threads : Spawn(t) \/ Step(t)

Spec == Init /\ [][Next]_vars

-----------------------------------------------------------------------------
(* Properties *)

\* As many handles and environments are left open as were closed twice: each
\* thread closes once what it opened once, but it closes what the global
\* variable names, so that every handle closed again is one that another
\* thread opened and nobody closes (concwrite.c:18-20, :75-76).
LeftIsClosedAgain ==
  main # "dead" =>
    /\ Cardinality(handles) = Cardinality({t \in Threads : pc[t] \in HasHandle}) + log.again
    /\ Cardinality(envs) = Cardinality({t \in Threads : pc[t] \in HasEnv}) + log.envagain

\* The offset is that of some of the writes that were counted, one at least:
\* updates get lost, but none is counted in part or twice (concwrite.c:74).
OffsetCounts ==
  \E n \in 0 .. log.added : offset = n * BufLen /\ (log.added > 0 => n > 0)

\* A thread that had the file for itself, with the store still open, used and
\* closed what it had opened (concwrite.c:49-76, :242).
AloneSafe == ~log.met /\ store # "closed" => ~log.wild /\ log.again = 0 /\ log.envagain = 0
=============================================================================
