--------------------------- MODULE ConcWriteProofs ---------------------------
(***************************************************************************)
(* Proofs about ConcWrite for any number of threads, also infinitely many, *)
(* and any length of what they write.                                      *)
(***************************************************************************)
EXTENDS ConcWrite, FiniteSetTheorems, TLAPS

-----------------------------------------------------------------------------
(* Types *)

\* A step of a thread keeps the types.
LEMMA TypeThread == ASSUME TypeOK, NEW t \in Threads, Spawn(t) \/ Step(t)  PROVE TypeOK'
<1> USE DEF TypeOK, Steps, HasHandle
<1>1. CASE Spawn(t)  BY <1>1 DEF Spawn, Goes, heap
<1>2. CASE Open(t)  BY <1>2, NullAssumption DEF Open, Goes, At, Addresses
<1>3. CASE OpenFail(t)  BY <1>3 DEF OpenFail, Goes, At, heap
<1>4. CASE Create(t)  BY <1>4 DEF Create, Goes, At, heap
<1>5. CASE UseClosed(t)  BY <1>5 DEF UseClosed, Goes, At, heap
<1>6. CASE OpenEnv(t)  BY <1>6 DEF OpenEnv, Goes, At, Touch
<1>7. CASE Write(t)  BY <1>7 DEF Write, Goes, At, Touch, heap
<1>8. CASE Load(t)  BY <1>8 DEF Load, Goes, At, heap
<1>9. CASE Add(t)  BY <1>9, NumberAssumption DEF Add, Added, Goes, At, heap
<1>10. CASE CloseEnv(t)  BY <1>10 DEF CloseEnv, Goes, At
<1>11. CASE Close(t)  BY <1>11 DEF Close, Goes, At
<1> QED  BY <1>1, <1>2, <1>3, <1>4, <1>5, <1>6, <1>7, <1>8, <1>9, <1>10, <1>11 DEF Step

\* Main's steps and stuttering leave all but main, store and pc's threads alone.
MainSteps == InitStore \/ EnvDirCreate \/ CloseStore \/ Exit

LEMMA TypeStep == TypeOK /\ [Next]_vars => TypeOK'
<1> SUFFICES ASSUME TypeOK, [Next]_vars  PROVE TypeOK'  OBVIOUS
<1>1. CASE MainSteps \/ UNCHANGED vars
  BY <1>1 DEF MainSteps, InitStore, EnvDirCreate, CloseStore, Exit, TypeOK, heap, vars
<1> QED  BY <1>1, TypeThread DEF Next, MainSteps

LEMMA TypeInit == Init => TypeOK
BY DEF Init, TypeOK, Steps, HasHandle

\* Every variable keeps its type: a thread past its open always has an address
\* to work with, although any thread may replace it (concwrite.c:18).
THEOREM TypeCorrect == Spec => []TypeOK
BY TypeInit, TypeStep, PTL DEF Spec

-----------------------------------------------------------------------------
(* The offset *)

\* What a thread has loaded counts writes as well.
CountInv == \A t \in Threads : \E n \in 0 .. log.added : loaded[t] = n * BufLen

LEMMA CountThread ==
  ASSUME TypeOK, OffsetCounts, CountInv, NEW t \in Threads, Spawn(t) \/ Step(t)
  PROVE  OffsetCounts' /\ CountInv'
<1> USE DEF TypeOK
<1>1. CASE log'.added = log.added /\ UNCHANGED <<offset, loaded>>
  BY <1>1 DEF OffsetCounts, CountInv
<1>2. CASE Spawn(t)  BY <1>1, <1>2 DEF Spawn
<1>3. CASE Open(t) \/ OpenFail(t)  BY <1>1, <1>3 DEF Open, OpenFail
<1>4. CASE Create(t) \/ UseClosed(t)  BY <1>1, <1>4 DEF Create, UseClosed
<1>5. CASE OpenEnv(t) \/ Write(t)  BY <1>1, <1>5 DEF OpenEnv, Write, Touch
<1>6. CASE Load(t)
  <2>1. UNCHANGED <<offset, log>> /\ loaded' = [loaded EXCEPT ![t] = offset]  BY <1>6 DEF Load
  <2> QED  BY <2>1 DEF OffsetCounts, CountInv
<1>7. CASE Add(t)
  <2>1. UNCHANGED loaded /\ log'.added = log.added + 1 /\ offset' = loaded[t] + BufLen
    BY <1>7 DEF Add, Added
  <2>2. PICK n \in 0 .. log.added : loaded[t] = n * BufLen  BY DEF CountInv
  <2>3. offset' = (n + 1) * BufLen
    <3>1. n \in Nat /\ BufLen \in Nat  BY NumberAssumption
    <3>2. n * BufLen + BufLen = (n + 1) * BufLen  BY <3>1
    <3> QED  BY <2>1, <2>2, <3>2
  <2>4. n + 1 \in 0 .. log'.added /\ n + 1 > 0  BY <2>1
  <2>5. OffsetCounts'  BY <2>3, <2>4 DEF OffsetCounts
  <2>6. \A m \in 0 .. log.added : m \in 0 .. log'.added  BY <2>1
  <2>7. CountInv'  BY <2>1, <2>6 DEF CountInv
  <2> QED  BY <2>5, <2>7
<1>8. CASE CloseEnv(t) \/ Close(t)  BY <1>1, <1>8 DEF CloseEnv, Close
<1> QED  BY <1>2, <1>3, <1>4, <1>5, <1>6, <1>7, <1>8 DEF Step

\* Lost updates lose whole writes: the offset is a positive multiple of what one
\* write adds as soon as one was counted, and never more than all of them.
THEOREM OffsetTheorem == Spec => []OffsetCounts
<1> DEFINE IInv == TypeOK /\ OffsetCounts /\ CountInv
<1>1. Init => IInv
  <2> SUFFICES ASSUME Init  PROVE OffsetCounts /\ CountInv  BY TypeInit
  <2>1. 0 * BufLen = 0 /\ 0 \in 0 .. 0  BY NumberAssumption
  <2>2. offset = 0 /\ log.added = 0 /\ \A t \in Threads : loaded[t] = 0  BY DEF Init
  <2> QED  BY <2>1, <2>2 DEF OffsetCounts, CountInv
<1>2. IInv /\ [Next]_vars => IInv'
  <2> SUFFICES ASSUME IInv, [Next]_vars  PROVE IInv'  OBVIOUS
  <2>1. TypeOK'  BY TypeStep
  <2>2. MainSteps \/ UNCHANGED vars => UNCHANGED <<offset, loaded, log>>
    BY DEF MainSteps, InitStore, EnvDirCreate, CloseStore, Exit, vars
  <2>3. UNCHANGED <<offset, loaded, log>> => OffsetCounts' /\ CountInv'
    BY DEF OffsetCounts, CountInv
  <2> QED  BY <2>1, <2>2, <2>3, CountThread DEF Next, MainSteps
<1> QED  BY <1>1, <1>2, PTL DEF Spec

-----------------------------------------------------------------------------
(* A thread that is alone *)

\* As long as no thread opened the file beside another, at most one has a
\* handle, the global variables name what it opened, and nothing was closed
\* twice.
AloneInv ==
  /\ main = "init" => store = "none"
  /\ ~log.met =>
       /\ \A t, u \in Threads : pc[t] \in HasHandle /\ pc[u] \in HasHandle => t = u
       /\ \A t \in Threads : pc[t] \in HasHandle => handle \in handles
       /\ \A t \in Threads : pc[t] \in HasEnv => dbenv \in envs
       /\ log.again = 0 /\ log.envagain = 0
       /\ store # "closed" => ~log.wild

LEMMA AloneThread ==
  ASSUME TypeOK, AloneInv, NEW t \in Threads, Spawn(t) \/ Step(t)  PROVE AloneInv'
<1> USE DEF TypeOK, AloneInv, HasHandle, HasEnv, Steps
<1>1. CASE Spawn(t)  BY <1>1 DEF Spawn, Goes, heap
<1>2. CASE Open(t)  BY <1>2 DEF Open, Goes, At
<1>3. CASE OpenFail(t)  BY <1>3 DEF OpenFail, Goes, At, heap
<1>4. CASE Create(t)  BY <1>4 DEF Create, Goes, At, heap
<1>5. CASE UseClosed(t)  BY <1>5 DEF UseClosed, Goes, At, heap
<1>6. CASE OpenEnv(t)  BY <1>6 DEF OpenEnv, Goes, At, Touch
<1>7. CASE Write(t)
  <2>1. UNCHANGED <<handle, dbenv, handles, envs, store>> /\ pc[t] = "write"
    BY <1>7 DEF Write, At, heap
  <2>2. log' = [log EXCEPT !.wild = @ \/ handle \notin handles \/ store = "closed"]
    BY <1>7 DEF Write, Touch
  <2>3. pc' = pc \/ \E l \in {"load", "closeenv"} : pc' = [pc EXCEPT ![t] = l]
    BY <1>7 DEF Write, Goes
  <2>4. \A u \in Threads : (pc'[u] \in HasHandle <=> pc[u] \in HasHandle)
                        /\ (pc'[u] \in HasEnv <=> pc[u] \in HasEnv)
    BY <2>1, <2>3
  <2>5. \A u, v \in Threads : pc'[u] \in HasHandle /\ pc'[v] \in HasHandle => log.met \/ u = v
    <3> HIDE DEF HasHandle, HasEnv, Steps
    <3> QED  BY <2>4
  <2>6. log'.met = log.met /\ log'.again = log.again /\ log'.envagain = log.envagain
    BY <2>2
  <2>7. ~log.met /\ store # "closed" => ~log'.wild
    BY <2>1, <2>2
  <2>8. main' = "init" => main = "init"  BY <1>7 DEF Write
  <2> HIDE DEF HasHandle, HasEnv, Steps
  <2> QED  BY <2>1, <2>4, <2>5, <2>6, <2>7, <2>8
<1>8. CASE Load(t)  BY <1>8 DEF Load, Goes, At, heap
<1>9. CASE Add(t)  BY <1>9 DEF Add, Goes, At, heap
<1>10. CASE CloseEnv(t)  BY <1>10 DEF CloseEnv, Goes, At
<1>11. CASE Close(t)  BY <1>11 DEF Close, Goes, At
<1> QED  BY <1>1, <1>2, <1>3, <1>4, <1>5, <1>6, <1>7, <1>8, <1>9, <1>10, <1>11 DEF Step

\* The global variables are safe exactly as long as threads take turns and main
\* has not closed the store.
THEOREM AloneTheorem == Spec => []AloneSafe
<1>1. Init => TypeOK /\ AloneInv
  BY TypeInit DEF Init, AloneInv, HasHandle, HasEnv
<1>2. TypeOK /\ AloneInv /\ [Next]_vars => (TypeOK /\ AloneInv)'
  <2> SUFFICES ASSUME TypeOK, AloneInv, [Next]_vars  PROVE AloneInv'  BY TypeStep
  <2>1. MainSteps \/ UNCHANGED vars =>
          /\ UNCHANGED <<pc, log, handle, handles, dbenv, envs>>
          /\ store' # "closed" => store # "closed"
          /\ main' = "init" => store' = "none"
    BY DEF MainSteps, InitStore, EnvDirCreate, CloseStore, Exit, vars, heap, AloneInv
  <2>2. CASE MainSteps \/ UNCHANGED vars  BY <2>1, <2>2 DEF AloneInv
  <2> QED  BY <2>2, AloneThread DEF Next, MainSteps
<1>3. AloneInv => AloneSafe  BY DEF AloneInv, AloneSafe
<1> QED  BY <1>1, <1>2, <1>3, PTL DEF Spec

-----------------------------------------------------------------------------
(* What is left open *)

Holding == {t \in Threads : pc[t] \in HasHandle}
InEnv == {t \in Threads : pc[t] \in HasEnv}

\* The sets counted are finite, since they grow one by one.
BalanceInv ==
  /\ IsFiniteSet(handles) /\ IsFiniteSet(envs)
  /\ IsFiniteSet(Holding) /\ IsFiniteSet(InEnv)
  /\ LeftIsClosedAgain

\* Two finite sets that balance, with a number of repetitions, still do after
\* one element is added to each,
LEMMA BalanceAdd ==
  ASSUME NEW H, NEW T, NEW n \in Nat, IsFiniteSet(H), IsFiniteSet(T),
         Cardinality(H) = Cardinality(T) + n, NEW h, h \notin H, NEW t, t \notin T,
         NEW G, G = H \cup {h}, NEW S, S = T \cup {t}
  PROVE  IsFiniteSet(G) /\ IsFiniteSet(S) /\ Cardinality(G) = Cardinality(S) + n
<1>1. Cardinality(H) \in Nat /\ Cardinality(T) \in Nat  BY FS_CardinalityType
<1>2. IsFiniteSet(H \cup {h}) /\ Cardinality(H \cup {h}) = Cardinality(H) + 1  BY FS_AddElement
<1>3. IsFiniteSet(T \cup {t}) /\ Cardinality(T \cup {t}) = Cardinality(T) + 1  BY FS_AddElement
<1> QED  BY <1>1, <1>2, <1>3

\* after one is taken from each,
LEMMA BalanceTake ==
  ASSUME NEW H, NEW T, NEW n \in Nat, IsFiniteSet(H), IsFiniteSet(T),
         Cardinality(H) = Cardinality(T) + n, NEW h \in H, NEW t \in T,
         NEW G, G = H \ {h}, NEW S, S = T \ {t}
  PROVE  IsFiniteSet(G) /\ IsFiniteSet(S) /\ Cardinality(G) = Cardinality(S) + n
<1>1. Cardinality(H) \in Nat /\ Cardinality(T) \in Nat  BY FS_CardinalityType
<1>2. IsFiniteSet(H \ {h}) /\ Cardinality(H \ {h}) = Cardinality(H) - 1  BY FS_RemoveElement
<1>3. IsFiniteSet(T \ {t}) /\ Cardinality(T \ {t}) = Cardinality(T) - 1  BY FS_RemoveElement
<1> QED  BY <1>1, <1>2, <1>3

\* or after one is taken from the second and a repetition counted.
LEMMA BalanceAgain ==
  ASSUME NEW H, NEW T, NEW n \in Nat, IsFiniteSet(H), IsFiniteSet(T),
         Cardinality(H) = Cardinality(T) + n, NEW t \in T
  PROVE  IsFiniteSet(T \ {t}) /\ Cardinality(H) = Cardinality(T \ {t}) + (n + 1)
<1>1. Cardinality(H) \in Nat /\ Cardinality(T) \in Nat  BY FS_CardinalityType
<1>2. IsFiniteSet(T \ {t}) /\ Cardinality(T \ {t}) = Cardinality(T) - 1  BY FS_RemoveElement
<1> QED  BY <1>1, <1>2

\* A step of a thread keeps the balance or crashes the process.
LEMMA BalanceThread ==
  ASSUME TypeOK, BalanceInv, NEW t \in Threads, Spawn(t) \/ Step(t)
  PROVE  BalanceInv'
<1>1. main # "dead" /\ log.again \in Nat /\ log.envagain \in Nat
  <2>1. main \in {"spawn", "exit"}
    BY DEF Spawn, Step, Open, OpenFail, Create, UseClosed, OpenEnv, Write, Load, Add, CloseEnv, Close, At
  <2> QED  BY <2>1 DEF TypeOK
<1>2. /\ Cardinality(handles) = Cardinality(Holding) + log.again
      /\ Cardinality(envs) = Cardinality(InEnv) + log.envagain
  BY <1>1 DEF BalanceInv, LeftIsClosedAgain, Holding, InEnv
<1>3. ASSUME UNCHANGED <<handles, envs>>, Holding' = Holding, InEnv' = InEnv,
             log'.again = log.again, log'.envagain = log.envagain
      PROVE  BalanceInv'
  BY <1>2, <1>3 DEF BalanceInv, LeftIsClosedAgain, Holding, InEnv
<1>4. ASSUME NEW l \in Steps, Goes(t, l)
      PROVE  /\ Holding' = IF l \in HasHandle THEN Holding \cup {t} ELSE Holding \ {t}
             /\ InEnv' = IF l \in HasEnv THEN InEnv \cup {t} ELSE InEnv \ {t}
  <2>1. pc' = [pc EXCEPT ![t] = l] /\ pc \in [Threads -> Steps]  BY <1>4 DEF Goes, TypeOK
  <2>2. \A u \in Threads : pc'[u] = IF u = t THEN l ELSE pc[u]  BY <2>1
  <2> QED  BY <2>2 DEF Holding, InEnv
<1>5. /\ pc[t] \in HasHandle <=> t \in Holding
      /\ pc[t] \in HasEnv <=> t \in InEnv
  BY DEF Holding, InEnv
<1>6. pc' = pc => Holding' = Holding /\ InEnv' = InEnv  BY DEF Holding, InEnv
<1>7. ASSUME NEW l \in Steps, Goes(t, l),
             l \in HasHandle <=> pc[t] \in HasHandle, l \in HasEnv <=> pc[t] \in HasEnv
      PROVE  Holding' = Holding /\ InEnv' = InEnv
  BY <1>4, <1>5, <1>7
<1>14. ASSUME NEW a, a \notin handles, handles' = handles \cup {a}, Holding' = Holding \cup {t}, t \notin Holding
       PROVE  /\ IsFiniteSet(handles') /\ IsFiniteSet(Holding')
              /\ Cardinality(handles') = Cardinality(Holding') + log.again
  <2>1. /\ IsFiniteSet(handles) /\ IsFiniteSet(Holding) /\ log.again \in Nat
        /\ Cardinality(handles) = Cardinality(Holding) + log.again
    BY <1>1, <1>2 DEF BalanceInv
  <2>2. a \notin handles /\ t \notin Holding  BY <1>14
  <2>3. handles' = handles \cup {a} /\ Holding' = Holding \cup {t}  BY <1>14
  <2> QED  BY <2>1, <2>2, <2>3, BalanceAdd
<1>15. ASSUME NEW a, a \notin envs, envs' = envs \cup {a}, InEnv' = InEnv \cup {t}, t \notin InEnv
       PROVE  /\ IsFiniteSet(envs') /\ IsFiniteSet(InEnv')
              /\ Cardinality(envs') = Cardinality(InEnv') + log.envagain
  <2>1. /\ IsFiniteSet(envs) /\ IsFiniteSet(InEnv) /\ log.envagain \in Nat
        /\ Cardinality(envs) = Cardinality(InEnv) + log.envagain
    BY <1>1, <1>2 DEF BalanceInv
  <2>2. a \notin envs /\ t \notin InEnv  BY <1>15
  <2>3. envs' = envs \cup {a} /\ InEnv' = InEnv \cup {t}  BY <1>15
  <2> QED  BY <2>1, <2>2, <2>3, BalanceAdd
<1>16. ASSUME handle \in handles, handles' = handles \ {handle}, Holding' = Holding \ {t}, t \in Holding
       PROVE  IsFiniteSet(Holding') /\ Cardinality(handles') = Cardinality(Holding') + log.again
  <2>1. /\ IsFiniteSet(handles) /\ IsFiniteSet(Holding) /\ log.again \in Nat
        /\ Cardinality(handles) = Cardinality(Holding) + log.again
    BY <1>1, <1>2 DEF BalanceInv
  <2>2. handle \in handles /\ t \in Holding  BY <1>16
  <2>3. handles' = handles \ {handle} /\ Holding' = Holding \ {t}  BY <1>16
  <2> QED  BY <2>1, <2>2, <2>3, BalanceTake
<1>17. ASSUME dbenv \in envs, envs' = envs \ {dbenv}, InEnv' = InEnv \ {t}, t \in InEnv
       PROVE  IsFiniteSet(InEnv') /\ Cardinality(envs') = Cardinality(InEnv') + log.envagain
  <2>1. /\ IsFiniteSet(envs) /\ IsFiniteSet(InEnv) /\ log.envagain \in Nat
        /\ Cardinality(envs) = Cardinality(InEnv) + log.envagain
    BY <1>1, <1>2 DEF BalanceInv
  <2>2. dbenv \in envs /\ t \in InEnv  BY <1>17
  <2>3. envs' = envs \ {dbenv} /\ InEnv' = InEnv \ {t}  BY <1>17
  <2> QED  BY <2>1, <2>2, <2>3, BalanceTake
<1>18. ASSUME handles' = handles, Holding' = Holding \ {t}, t \in Holding
       PROVE  IsFiniteSet(Holding') /\ Cardinality(handles') = Cardinality(Holding') + (log.again + 1)
  BY <1>1, <1>2, <1>18, BalanceAgain DEF BalanceInv
<1>19. ASSUME envs' = envs, InEnv' = InEnv \ {t}, t \in InEnv
       PROVE  IsFiniteSet(InEnv') /\ Cardinality(envs') = Cardinality(InEnv') + (log.envagain + 1)
  BY <1>1, <1>2, <1>19, BalanceAgain DEF BalanceInv
<1> USE DEF TypeOK, Steps, HasHandle, HasEnv
<1>8. CASE Spawn(t) \/ OpenFail(t) \/ Create(t) \/ Load(t) \/ Add(t)
  <2>1. UNCHANGED <<handles, envs>> /\ log'.again = log.again /\ log'.envagain = log.envagain
    BY <1>8 DEF Spawn, OpenFail, Create, Load, Add, heap
  <2>2. \E l \in Steps : Goes(t, l) /\ (l \in HasHandle <=> pc[t] \in HasHandle)
                       /\ (l \in HasEnv <=> pc[t] \in HasEnv)
    BY <1>8 DEF Spawn, OpenFail, Create, Load, Add, At
  <2> QED  BY <1>3, <1>7, <2>1, <2>2
<1>9. CASE UseClosed(t) \/ Write(t)
  <2>1. UNCHANGED <<handles, envs>> /\ log'.again = log.again /\ log'.envagain = log.envagain
    BY <1>9 DEF UseClosed, Write, Touch, heap
  <2>2. \/ pc' = pc
        \/ \E l \in Steps : Goes(t, l) /\ (l \in HasHandle <=> pc[t] \in HasHandle)
                         /\ (l \in HasEnv <=> pc[t] \in HasEnv)
    BY <1>9 DEF UseClosed, Write, At
  <2> QED  BY <1>3, <1>6, <1>7, <2>1, <2>2
<1>10. CASE Open(t)
  <2>1. UNCHANGED envs /\ log'.again = log.again /\ log'.envagain = log.envagain /\ UNCHANGED main
    BY <1>10 DEF Open
  <2>2. PICK a \in Addresses \ handles : handles' = handles \cup {a}  BY <1>10 DEF Open
  <2>3. Goes(t, "env") /\ pc[t] = "open"  BY <1>10 DEF Open, At
  <2>4. Holding' = Holding \cup {t} /\ t \notin Holding /\ InEnv' = InEnv \ {t} /\ t \notin InEnv
    BY <1>4, <1>5, <2>3
  <2>5. InEnv' = InEnv  BY <2>4
  <2>6. /\ IsFiniteSet(handles') /\ IsFiniteSet(Holding')
        /\ Cardinality(handles') = Cardinality(Holding') + log.again
    BY <1>14, <2>2, <2>4
  <2> QED  BY <1>2, <2>1, <2>5, <2>6 DEF BalanceInv, LeftIsClosedAgain, Holding, InEnv
<1>11. CASE OpenEnv(t)
  <2>1. UNCHANGED handles /\ log'.again = log.again /\ log'.envagain = log.envagain /\ pc[t] = "env"
    BY <1>11 DEF OpenEnv, Touch, At
  <2>2. CASE UNCHANGED <<pc, envs>>  BY <1>3, <1>6, <2>1, <2>2
  <2>3. CASE \E a \in Addresses \ envs : envs' = envs \cup {a} /\ Goes(t, "write")
    <3>1. PICK a \in Addresses \ envs : envs' = envs \cup {a}  BY <2>3
    <3>2. Holding' = Holding \cup {t} /\ t \in Holding /\ InEnv' = InEnv \cup {t} /\ t \notin InEnv
      BY <1>4, <1>5, <2>1, <2>3
    <3>3. Holding' = Holding  BY <3>2
    <3>4. /\ IsFiniteSet(envs') /\ IsFiniteSet(InEnv')
          /\ Cardinality(envs') = Cardinality(InEnv') + log.envagain
      BY <1>15, <3>1, <3>2
    <3> QED  BY <1>2, <2>1, <3>3, <3>4 DEF BalanceInv, LeftIsClosedAgain, Holding, InEnv
  <2> QED  BY <1>11, <2>2, <2>3 DEF OpenEnv
<1>12. CASE CloseEnv(t)
  <2>1. UNCHANGED handles /\ log'.again = log.again /\ pc[t] = "closeenv" /\ envs' = envs \ {dbenv}
    BY <1>12 DEF CloseEnv, At
  <2>2. IsFiniteSet(envs')  BY <2>1, FS_RemoveElement DEF BalanceInv
  <2>3. CASE main' = "dead" /\ pc' = pc
    BY <1>6, <2>1, <2>2, <2>3 DEF BalanceInv, LeftIsClosedAgain
  <2>4. CASE Goes(t, "close")
    <3>1. Holding' = Holding \cup {t} /\ t \in Holding /\ InEnv' = InEnv \ {t} /\ t \in InEnv
      BY <1>4, <1>5, <2>1, <2>4
    <3>2. Holding' = Holding  BY <3>1
    <3>3. \/ dbenv \in envs /\ log' = log
          \/ envs' = envs /\ log'.envagain = log.envagain + 1
      BY <1>12, <2>1 DEF CloseEnv
    <3>4. /\ IsFiniteSet(InEnv')
          /\ Cardinality(envs') = Cardinality(InEnv') + log'.envagain
      <4>1. CASE dbenv \in envs /\ log' = log
        BY <1>17, <2>1, <3>1, <4>1
      <4>2. CASE envs' = envs /\ log'.envagain = log.envagain + 1
        BY <1>19, <3>1, <4>2
      <4> QED  BY <3>3, <4>1, <4>2
    <3> QED  BY <1>2, <2>1, <2>2, <3>2, <3>4 DEF BalanceInv, LeftIsClosedAgain, Holding, InEnv
  <2> QED  BY <1>12, <2>3, <2>4 DEF CloseEnv
<1>13. CASE Close(t)
  <2>1. UNCHANGED envs /\ log'.envagain = log.envagain /\ pc[t] = "close" /\ handles' = handles \ {handle}
    BY <1>13 DEF Close, At
  <2>2. IsFiniteSet(handles')  BY <2>1, FS_RemoveElement DEF BalanceInv
  <2>3. CASE main' = "dead" /\ pc' = pc
    BY <1>6, <2>1, <2>2, <2>3 DEF BalanceInv, LeftIsClosedAgain
  <2>4. CASE Goes(t, "done")
    <3>1. Holding' = Holding \ {t} /\ t \in Holding /\ InEnv' = InEnv \ {t} /\ t \notin InEnv
      BY <1>4, <1>5, <2>1, <2>4
    <3>2. InEnv' = InEnv  BY <3>1
    <3>3. \/ handle \in handles /\ log' = log
          \/ handles' = handles /\ log'.again = log.again + 1
      BY <1>13, <2>1 DEF Close
    <3>4. /\ IsFiniteSet(Holding')
          /\ Cardinality(handles') = Cardinality(Holding') + log'.again
      <4>1. CASE handle \in handles /\ log' = log
        BY <1>16, <2>1, <3>1, <4>1
      <4>2. CASE handles' = handles /\ log'.again = log.again + 1
        BY <1>18, <3>1, <4>2
      <4> QED  BY <3>3, <4>1, <4>2
    <3> QED  BY <1>2, <2>1, <2>2, <3>2, <3>4 DEF BalanceInv, LeftIsClosedAgain, Holding, InEnv
  <2> QED  BY <1>13, <2>3, <2>4 DEF Close
<1> QED  BY <1>8, <1>9, <1>10, <1>11, <1>12, <1>13 DEF Step

\* Handles and environments balance for any number of threads and in every
\* order of their steps: what one thread closes again is what another leaves.
THEOREM BalanceTheorem == Spec => []LeftIsClosedAgain
<1>1. Init => TypeOK /\ BalanceInv
  <2> SUFFICES ASSUME Init  PROVE BalanceInv  BY TypeInit
  <2>1. Holding = {} /\ InEnv = {} /\ handles = {} /\ envs = {}
    BY DEF Init, Holding, InEnv, HasHandle, HasEnv
  <2>2. log.again = 0 /\ log.envagain = 0  BY DEF Init
  <2> QED  BY <2>1, <2>2, FS_EmptySet DEF BalanceInv, LeftIsClosedAgain, Holding, InEnv
<1>2. TypeOK /\ BalanceInv /\ [Next]_vars => (TypeOK /\ BalanceInv)'
  <2> SUFFICES ASSUME TypeOK, BalanceInv, [Next]_vars  PROVE BalanceInv'  BY TypeStep
  <2>1. MainSteps \/ UNCHANGED vars =>
          /\ UNCHANGED <<pc, log, handles, envs>>
          /\ main' # "dead" => main # "dead"
    BY DEF MainSteps, InitStore, EnvDirCreate, CloseStore, Exit, vars, heap
  <2>2. CASE MainSteps \/ UNCHANGED vars
    BY <2>1, <2>2 DEF BalanceInv, LeftIsClosedAgain, Holding, InEnv
  <2> QED  BY <2>2, BalanceThread DEF Next, MainSteps
<1>3. BalanceInv => LeftIsClosedAgain  BY DEF BalanceInv
<1> QED  BY <1>1, <1>2, <1>3, PTL DEF Spec
=============================================================================
