---------------------------- MODULE DbfsDirProofs ---------------------------
(***************************************************************************)
(* Proofs about DbfsKeys and DbfsDir, for every set of canonical locators  *)
(* and any number of threads.                                              *)
(***************************************************************************)
EXTENDS DbfsDir, WellFoundedInduction, TLAPS

-----------------------------------------------------------------------------
(* The order of the keys *)

LEMMA CodesAreNat == \A s \in Seq(Codes) : s \in Seq(Nat)
BY DEF Codes

\* strcmp puts a locator before everything that continues it.
LEMMA PrefixLess ==
  ASSUME NEW s \in Seq(Nat), NEW e \in Seq(Nat), StartsWith(e, s), Len(e) > Len(s)
  PROVE  Less(s, e)
<1>1. Len(s) + 1 \in 1 .. Len(e)
  OBVIOUS
<1>2. \A j \in 1 .. (Len(s) + 1) - 1 : s[j] = e[j]
  BY DEF StartsWith
<1> QED BY <1>1, <1>2 DEF Less

\* Everything between a locator and one of its continuations continues it: the
\* entries of a directory are contiguous, with its like-named siblings.
LEMMA PrefixRange ==
  ASSUME NEW s \in Seq(Codes), NEW p \in Seq(Codes), NEW e \in Seq(Codes),
         StartsWith(e, s), Less(s, p), Less(p, e)
  PROVE  StartsWith(p, s)
<1>1. PICK i \in 1 .. Len(p) :
        /\ i <= Len(s) + 1
        /\ \A j \in 1 .. i - 1 : s[j] = p[j]
        /\ i <= Len(s) => s[i] < p[i]
  BY DEF Less
<1>2. PICK k \in 1 .. Len(e) :
        /\ k <= Len(p) + 1
        /\ \A j \in 1 .. k - 1 : p[j] = e[j]
        /\ k <= Len(p) => p[k] < e[k]
  BY DEF Less
<1>3. \A j \in 1 .. Len(s) : s[j] = e[j]
  BY DEF StartsWith
<1>4. /\ \A j \in 1 .. Len(s) : s[j] \in Nat
      /\ \A j \in 1 .. Len(p) : p[j] \in Nat
      /\ \A j \in 1 .. Len(e) : e[j] \in Nat
      /\ Len(s) \in Nat /\ Len(p) \in Nat /\ Len(e) \in Nat
      /\ Len(s) <= Len(e)
  BY DEF Codes, StartsWith
<1>5. CASE i > Len(s)
  BY <1>1, <1>4, <1>5 DEF StartsWith
<1>6. CASE i <= Len(s)
  <2>1. s[i] < p[i] /\ s[i] = e[i] /\ i <= Len(e) /\ i <= Len(p)
    BY <1>1, <1>3, <1>4, <1>6
  <2>2. CASE k > i
    BY <2>1, <2>2, <1>2, <1>4
  <2>3. CASE k = i
    BY <2>1, <2>3, <1>2, <1>4
  <2>4. CASE k < i
    <3>1. p[k] = s[k] /\ s[k] = e[k] /\ k <= Len(p)
      BY <2>4, <2>1, <1>1, <1>3, <1>4, <1>6
    <3> QED BY <3>1, <1>2, <1>4
  <2> QED BY <2>2, <2>3, <2>4
<1> QED BY <1>5, <1>6, <1>4

\* Where the name begins that a canonical locator leaves behind a shorter one.
LEMMA NameAt ==
  ASSUME NEW p \in Seq(Codes), NEW s \in Seq(Codes), Canonical(p), Len(s) >= 1, Len(p) > Len(s)
  PROVE  /\ p[Len(s) + 1] # Slash => NameStart(p, s) = Len(s) + 1
         /\ p[Len(s) + 1] = Slash => NameStart(p, s) = Len(s) + 2 /\ Len(s) + 2 <= Len(p)
<1> DEFINE First(i) == /\ \A j \in Len(s) + 1 .. i - 1 : p[j] = Slash
                       /\ i <= Len(p) => p[i] # Slash
<1>1. /\ Len(p) > 1 /\ p[Len(p)] # Slash /\ Len(p) \in Nat /\ Len(s) \in Nat
      /\ \A i \in 1 .. Len(p) - 1 : ~(p[i] = Slash /\ p[i + 1] = Slash)
  BY DEF Canonical, Root
<1>2. CASE p[Len(s) + 1] # Slash
  <2>1. First(Len(s) + 1) /\ Len(s) + 1 \in Len(s) + 1 .. Len(p) + 1
    BY <1>1, <1>2
  <2>2. NameStart(p, s) \in Len(s) + 1 .. Len(p) + 1 /\ First(NameStart(p, s))
    BY <2>1 DEF NameStart
  <2> QED BY <1>1, <1>2, <2>2
<1>3. CASE p[Len(s) + 1] = Slash
  <2>1. Len(s) + 2 <= Len(p)
    BY <1>1, <1>3
  <2>2. p[Len(s) + 2] # Slash
    BY <1>1, <1>3, <2>1
  <2>3. First(Len(s) + 2) /\ Len(s) + 2 \in Len(s) + 1 .. Len(p) + 1
    BY <1>1, <1>3, <2>1, <2>2
  <2>4. NameStart(p, s) \in Len(s) + 1 .. Len(p) + 1 /\ First(NameStart(p, s))
    BY <2>3 DEF NameStart
  <2> QED BY <1>1, <1>3, <2>1, <2>2, <2>4
<1> QED BY <1>2, <1>3

\* A canonical locator that continues another one leaves a name behind it.
LEMMA ContinuationNamed ==
  ASSUME NEW p \in Seq(Codes), NEW s \in Seq(Codes), Canonical(p), Len(s) >= 1,
         StartsWith(p, s), Len(p) > Len(s)
  PROVE  NotEmpty(p, s)
BY NameAt DEF NotEmpty

\* What lies below a directory other than the root continues its locator.
LEMMA BelowContinues ==
  ASSUME NEW d \in Seq(Codes), NEW e \in Seq(Codes), d # Root, Below(e, d)
  PROVE  StartsWith(e, d) /\ Len(e) > Len(d)
<1>1. Slash \in Codes /\ Append(d, Slash) \in Seq(Codes) /\ Len(Append(d, Slash)) = Len(d) + 1
  BY SlashAssumption DEF Codes
<1>2. \A i \in 1 .. Len(d) : Append(d, Slash)[i] = d[i]
  BY <1>1
<1> QED BY <1>1, <1>2 DEF Below, StartsWith

\* No canonical locator but the root sorts below it or is equal to it.
LEMMA RootFirst ==
  ASSUME NEW d \in Seq(Codes), Canonical(d)
  PROVE  ~Less(d, Root)
<1>1. d[1] = Slash /\ Len(d) >= 1 /\ Slash \in Nat
  BY SlashAssumption DEF Canonical, Root
<1> SUFFICES ASSUME NEW i \in 1 .. Len(Root), i <= Len(d) + 1,
                    i <= Len(d) => d[i] < Root[i]
             PROVE  FALSE
  BY DEF Less
<1>2. i = 1 /\ Root[i] = Slash
  BY DEF Root
<1> QED BY <1>1, <1>2

-----------------------------------------------------------------------------
(* Types *)

\* The type invariant is preserved by every step.
LEMMA TypeStep == TypeOK /\ [Next]_vars => TypeOK'
<1> SUFFICES ASSUME TypeOK, [Next]_vars PROVE TypeOK'
  OBVIOUS
<1>0. /\ Root \in Paths /\ DentryKey(Root) \in Keys
      /\ \A p \in Paths : DentryKey(p) \in Keys /\ FirstBlock[p] \in Blocks
      /\ \A t \in Threads : loc[t] \in Paths
      /\ FsinfoKey \in Keys /\ NoKey \in Keys
      /\ Present \subseteq Keys
  BY PathsAssumption DEF Keys, Blocks, Present, TypeOK
<1> USE DEF TypeOK, Steps
<1>1. \A t \in Threads : Return(t) =>
        /\ pc' \in [Threads -> Steps]
        /\ loc' \in [Threads -> Paths]
        /\ buf' \in [Threads -> Keys] /\ pos' \in [Threads -> Keys]
  BY <1>0 DEF Return, Release, Goto, TypeOK
<1>2. CASE UNCHANGED vars
  BY <1>2 DEF vars
<1>3. ASSUME NEW t \in Threads, Fill(t) PROVE TypeOK'
  BY <1>3, <1>0 DEF Fill, Create, Kinds
<1>7. ASSUME NEW t \in Threads, Use(t) PROVE TypeOK'
  <2>1. ASSUME NEW p \in Opened, HandleOpen(t, p) PROVE TypeOK'
    <3>1. p \in Paths
      BY PathsAssumption
    <3> QED BY <2>1, <3>1 DEF HandleOpen, Goto, tree
  <2>2. CASE WriteBlock(t)
    <3>1. blocks' \subseteq Blocks
      BY <2>2, <1>0 DEF WriteBlock
    <3> QED BY <2>2, <3>1 DEF WriteBlock
  <2>3. CASE PutAttr(t)
    <3>1. copy' \in [Threads -> Kinds]
      BY <2>3 DEF PutAttr, Resized, Kinds
    <3>2. kind' \in [Paths -> Kinds]
      BY <2>3, <3>1 DEF PutAttr
    <3> QED BY <2>3, <3>1, <3>2 DEF PutAttr
  <2>4. CASE HandleClose(t)
    <3>1. copy' \in [Threads -> Kinds]
      BY <2>4 DEF HandleClose, Kinds
    <3> QED BY <2>4, <3>1, <1>1 DEF HandleClose, tree
  <2> QED BY <1>7, <2>1, <2>2, <2>3, <2>4 DEF Use
<1>4. ASSUME NEW t \in Threads, Delete(t) PROVE TypeOK'
  <2>1. ASSUME NEW p \in Paths, DeleteStart(t, p) PROVE TypeOK'
    BY <2>1, <1>0 DEF DeleteStart, Goto, tree
  <2>2. CASE Spin(t)
    BY <2>2, <1>0 DEF Spin
  <2>3. CASE DeldSet(t)
    <3>1. CASE Return(t)
      BY <2>3, <3>1, <1>1 DEF DeldSet, tree
    <3>2. CASE ~Return(t)
      BY <2>3, <3>2, <1>0 DEF DeldSet, tree, Goto
    <3> QED BY <3>1, <3>2
  <2>4. CASE DeldNext(t)
    <3>1. CASE Return(t)
      BY <2>4, <3>1, <1>1 DEF DeldNext, tree
    <3>2. CASE ~Return(t)
      <4>1. \A k \in Present : BufAfter(t, k) \subseteq Keys
        BY <1>0 DEF BufAfter
      <4> QED BY <2>4, <3>2, <4>1 DEF DeldNext, tree, Goto
    <3> QED BY <3>1, <3>2
  <2>5. CASE Dela(t)
    <3>1. kind' \in [Paths -> Kinds] /\ stable' \in [Threads -> SUBSET Paths]
      BY <2>5 DEF Dela, Kinds
    <3>2. blocks' \subseteq Blocks /\ fsinfo' \in BOOLEAN
      BY <2>5 DEF Dela
    <3> QED BY <2>5, <3>1, <3>2, <1>1 DEF Dela
  <2> QED BY <1>4, <2>1, <2>2, <2>3, <2>4, <2>5 DEF Delete
<1>5. ASSUME NEW t \in Threads, Scan(t) PROVE TypeOK'
  <2>1. ASSUME NEW d \in Paths, DirOpen(t, d) PROVE TypeOK'
    BY <2>1, <1>0 DEF DirOpen, Goto, tree
  <2>2. CASE ScanNext(t)
    <3>1. \A k \in Present : k.dk_type = 1 => k.at \in Paths
      BY DEF Present, DentryKey, BlockKey, FsinfoKey
    <3> QED BY <2>2, <3>1, <1>0 DEF ScanNext, Goto, tree, Advance
  <2>3. CASE DirClose(t)
    BY <2>3, <1>1 DEF DirClose, tree
  <2> QED BY <1>5, <2>1, <2>2, <2>3 DEF Scan
<1>6. ASSUME NEW t \in Threads, Fail(t) PROVE TypeOK'
  <2>1. CASE Refused(t)
    BY <2>1, <1>0 DEF Refused, Release, Goto, tree
  <2>2. CASE FailReturn(t)
    BY <2>2 DEF FailReturn, Goto, tree
  <2> QED BY <1>6, <2>1, <2>2 DEF Fail
<1> QED BY <1>2, <1>3, <1>4, <1>5, <1>6, <1>7 DEF Next

\* Every variable keeps its type; in particular a cursor is always on a key of
\* the tree and attr_ddk names one of the keys listed in Keys.
THEOREM TypeCorrect == Spec => []TypeOK
<1>1. Init => TypeOK
  BY PathsAssumption DEF Init, TypeOK, Kinds, Keys, Steps
<1> QED BY <1>1, TypeStep, PTL DEF Spec

-----------------------------------------------------------------------------
(* Handles *)

\* What the steps of a handle change: little besides a record.
LEMMA UseStep ==
  ASSUME TypeOK, NEW t \in Threads, Use(t)
  PROVE  /\ \A u \in Threads \ {t} :
              /\ pc'[u] = pc[u] /\ loc'[u] = loc[u] /\ copy'[u] = copy[u]
              /\ buf'[u] = buf[u] /\ pos'[u] = pos[u]
         /\ seen' = seen /\ stable' = stable
         /\ pc[t] \in {"idle", "open"} /\ pc'[t] \in {"idle", "open"}
         /\ \/ kind' = kind
            \/ /\ pc[t] = "open" /\ pc' = pc /\ loc' = loc
               /\ copy'[t] \in Resized(copy[t])
               /\ kind' = [kind EXCEPT ![loc[t]] = copy'[t]]
BY DEF TypeOK, Use, HandleOpen, WriteBlock, PutAttr, HandleClose, Return, Release, Goto, tree

\* Resizing makes no directory and no entry go.
LEMMA ResizedFacts ==
  \A k \in Kinds : \A l \in Resized(k) : l \in Kinds \ {"none"} /\ (k = "dir" <=> l = "dir")
BY DEF Resized, Kinds

\* A handle has a record, and one for "/" has that of a directory.
HandleInv ==
  \A t \in Threads : pc[t] = "open" => copy[t] # "none" /\ (loc[t] = Root => copy[t] = "dir")

-----------------------------------------------------------------------------
(* What a delete may remove *)

\* A delete is never at work on "/"; its cursor starts on its own entry; the
\* record it is about to delete is neither "/" nor below the directory.
DeleteInv ==
  \A t \in Threads :
    /\ pc[t] \in {"set", "next", "dela", "spin"} => loc[t] # Root
    /\ pc[t] = "next" => pos[t] = DentryKey(loc[t])
    /\ pc[t] \in {"set", "next"} => buf[t] = DentryKey(loc[t])
    /\ pc[t] = "dela" => \A e \in Paths :
         buf[t] = DentryKey(e) => e # Root /\ ~Below(e, loc[t])

IInv == TypeOK /\ RootStays /\ HandleInv /\ DeleteInv

\* The facts about locators that the steps below need.
LEMMA PathFacts ==
  \A p \in Paths : p \in Seq(Codes) /\ Canonical(p) /\ Len(p) >= 1
<1>1. Len(Root) = 1
  BY DEF Root
<1>2. ASSUME NEW p \in Paths PROVE p \in Seq(Codes) /\ Canonical(p) /\ Len(p) >= 1
  <2>1. p \in Seq(Codes) /\ Canonical(p)
    BY PathsAssumption
  <2>2. Len(p) \in Nat /\ (p = Root \/ Len(p) > 1)
    BY <2>1 DEF Canonical
  <2> QED BY <1>1, <2>1, <2>2
<1> QED BY <1>2

\* The test of dbfs_deld on the key after the directory's: nothing is below it.
LEMMA NextKeyDecides ==
  ASSUME TypeOK, NEW d \in Paths, d # Root,
         NEW e \in Paths, Exists(e), Below(e, d)
  PROVE  /\ ~IsLast(Present, DentryKey(d))
         /\ \A k \in Present : IsNext(Present, DentryKey(d), k) =>
              k.dk_type = 1 /\ NotEmpty(k.at, d)
<1>1. StartsWith(e, d) /\ Len(e) > Len(d)
  BY BelowContinues, PathFacts
<1>2. DentryKey(e) \in Present /\ KeyLess(DentryKey(d), DentryKey(e))
  BY <1>1, PrefixLess, PathFacts, CodesAreNat DEF Present, Exists, KeyLess, DentryKey
<1>3. ASSUME NEW k \in Present, IsNext(Present, DentryKey(d), k)
      PROVE  k.dk_type = 1 /\ NotEmpty(k.at, d)
  <2>1. KeyLess(DentryKey(d), k) /\ (k = DentryKey(e) \/ KeyLess(k, DentryKey(e)))
    BY <1>2, <1>3 DEF IsNext
  <2>2. PICK p \in Paths : k = DentryKey(p)
    BY <2>1 DEF Present, KeyLess, DentryKey, BlockKey, FsinfoKey
  <2>3. Less(d, p) /\ (p = e \/ Less(p, e))
    BY <2>1, <2>2 DEF KeyLess, DentryKey
  <2>4. StartsWith(p, d)
    BY <2>3, <1>1, PrefixRange, PathFacts
  <2>5. Len(p) > Len(d)
    <3> SUFFICES ASSUME Len(p) = Len(d) PROVE FALSE
      BY <2>4, PathFacts DEF StartsWith
    <3>1. PICK i \in 1 .. Len(p) : i <= Len(d) => d[i] < p[i]
      BY <2>3 DEF Less
    <3> QED BY <3>1, <2>4, PathFacts DEF StartsWith, Codes
  <2> QED BY <2>2, <2>4, <2>5, ContinuationNamed, PathFacts DEF DentryKey
<1> QED BY <1>2, <1>3 DEF IsLast

\* The emptiness test is sound: a step from the test to the removal finds
\* nothing below the directory.
LEMMA EmptyStep ==
  ASSUME TypeOK, DeleteInv, [Next]_vars, NEW t \in Threads,
         pc[t] = "next", pc'[t] = "dela", NEW e \in Paths, Exists(e)
  PROVE  ~Below(e, loc[t])
<1> SUFFICES ASSUME Below(e, loc[t]) PROVE FALSE
  OBVIOUS
<1>1. loc[t] \in Paths /\ loc[t] # Root /\ pos[t] = DentryKey(loc[t])
  BY DEF DeleteInv, TypeOK
<1>2. DeldNext(t)
  <2>1. pc \in [Threads -> Steps]
    BY DEF TypeOK
  <2>2. PICK u \in Threads : Fill(u) \/ Use(u) \/ Delete(u) \/ Scan(u) \/ Fail(u)
    BY <2>1 DEF Next, vars
  <2>3. \A v \in Threads : Fill(v) => pc' = pc
    BY DEF Fill, Create
  <2>a. ~Use(u)
    BY UseStep, <2>1
  <2>4. Delete(u) \/ Scan(u) \/ Fail(u) => \A v \in Threads : v # u => pc'[v] = pc[v]
    BY <2>1 DEF Delete, DeleteStart, Spin, DeldSet, DeldNext, Dela, Scan, DirOpen, ScanNext,
       DirClose, Fail, Refused, FailReturn, Return, Release, Goto
  <2>5. u = t /\ (Delete(u) \/ Scan(u) \/ Fail(u))
    BY <2>2, <2>3, <2>a, <2>4
  <2> QED BY <2>5, <2>1 DEF Delete, DeleteStart, Spin, DeldSet, Dela, Scan, DirOpen,
             ScanNext, DirClose, Fail, Refused, FailReturn, Release, Goto
<1>3. ~IsLast(Present, pos[t])
  BY <1>1, NextKeyDecides
<1>4. PICK k \in Present : IsNext(Present, pos[t], k)
        /\ ~(k.dk_type = 1 /\ NotEmpty(k.at, loc[t]))
  BY <1>2, <1>3 DEF DeldNext, Return, Release, Goto, TypeOK
<1> QED BY <1>1, <1>4, NextKeyDecides

\* The key after a directory's, if it passes the test, is not below it.
LEMMA NextKeyOutside ==
  ASSUME NEW d \in Paths, d # Root, NEW e \in Paths,
         KeyLess(DentryKey(d), DentryKey(e)), ~NotEmpty(e, d)
  PROVE  e # Root /\ ~Below(e, d)
<1>1. Less(d, e)
  BY DEF KeyLess, DentryKey
<1>2. e # Root
  BY <1>1, RootFirst, PathFacts
<1>3. ~Below(e, d)
  BY BelowContinues, ContinuationNamed, PathFacts
<1> QED BY <1>2, <1>3

\* The delete invariant is preserved by every step.
LEMMA DeleteStep ==
  ASSUME TypeOK, DeleteInv, [Next]_vars
  PROVE  DeleteInv'
<1>1. /\ pc \in [Threads -> Steps]
      /\ loc \in [Threads -> Paths] /\ buf \in [Threads -> Keys] /\ pos \in [Threads -> Keys]
  BY DEF TypeOK
<1> DEFINE Inv(t) ==
      /\ pc[t] \in {"set", "next", "dela", "spin"} => loc[t] # Root
      /\ pc[t] = "next" => pos[t] = DentryKey(loc[t])
      /\ pc[t] \in {"set", "next"} => buf[t] = DentryKey(loc[t])
      /\ pc[t] = "dela" => \A e \in Paths :
           buf[t] = DentryKey(e) => e # Root /\ ~Below(e, loc[t])
<1>2. ASSUME NEW t \in Threads,
             pc'[t] = pc[t], loc'[t] = loc[t], buf'[t] = buf[t], pos'[t] = pos[t]
      PROVE  Inv(t)'
  BY <1>2 DEF DeleteInv
<1>3. ASSUME NEW t \in Threads, pc'[t] \in {"idle", "scan", "done", "failed"} PROVE Inv(t)'
  BY <1>3
<1>4. ASSUME NEW u \in Threads, Delete(u) \/ Scan(u) \/ Fail(u), NEW t \in Threads PROVE Inv(t)'
  <2>1. CASE t # u
    <3>1. pc'[t] = pc[t] /\ loc'[t] = loc[t] /\ buf'[t] = buf[t] /\ pos'[t] = pos[t]
      BY <1>4, <2>1, <1>1 DEF Delete, DeleteStart, Spin, DeldSet, DeldNext, Dela, Scan,
         DirOpen, ScanNext, DirClose, Fail, Refused, FailReturn, Return, Release, Goto
    <3> QED BY <3>1, <1>2
  <2>2. CASE t = u
    <3>1. ASSUME NEW p \in Paths, DeleteStart(t, p) PROVE Inv(t)'
      <4>1. loc'[t] = p /\ buf'[t] = DentryKey(p) /\ p # Root /\ pc'[t] # "next"
        BY <3>1, <1>1 DEF DeleteStart, Goto
      <4>2. ~Below(p, p)
        BY <4>1, BelowContinues, PathFacts
      <4>3. \A e \in Paths : DentryKey(p) = DentryKey(e) => e = p
        BY DEF DentryKey
      <4> QED BY <4>1, <4>2, <4>3
    <3>2. CASE Spin(t)
      BY <3>2, <1>2 DEF Spin
    <3>3. CASE DeldSet(t)
      <4>1. pc'[t] = "idle" \/ (pc'[t] = "next" /\ loc'[t] = loc[t]
              /\ pos'[t] = DentryKey(loc[t]) /\ buf'[t] = buf[t])
        BY <3>3, <1>1 DEF DeldSet, Return, Release, Goto
      <4>2. loc[t] # Root /\ buf[t] = DentryKey(loc[t])
        BY <3>3 DEF DeldSet, DeleteInv
      <4> QED BY <4>1, <4>2
    <3>4. CASE DeldNext(t)
      <4>1. /\ pc[t] = "next" /\ loc[t] # Root /\ loc[t] \in Paths
            /\ pos[t] = DentryKey(loc[t]) /\ buf[t] = DentryKey(loc[t])
        BY <3>4, <1>1 DEF DeldNext, DeleteInv
      <4>2. CASE Return(t)
        BY <4>2, <1>1, <1>3 DEF Return, Release, Goto
      <4>3. CASE ~Return(t)
        <5>1. pc'[t] = "dela" /\ loc'[t] = loc[t]
          BY <3>4, <4>3, <1>1 DEF DeldNext, Goto
        <5>2. \/ buf'[t] \in {DentryKey(loc[t]), FsinfoKey, NoKey}
              \/ /\ KeyLess(pos[t], buf'[t])
                 /\ ~(buf'[t].dk_type = 1 /\ NotEmpty(buf'[t].at, loc[t]))
          BY <3>4, <4>1, <4>3, <1>1 DEF DeldNext, BufAfter, IsNext
        <5>3. ASSUME NEW e \in Paths, buf'[t] = DentryKey(e) PROVE e # Root /\ ~Below(e, loc[t])
          <6>1. CASE e = loc[t]
            BY <6>1, <4>1, BelowContinues, PathFacts
          <6>2. CASE e # loc[t]
            <7>1. KeyLess(DentryKey(loc[t]), DentryKey(e)) /\ ~NotEmpty(e, loc[t])
              BY <5>2, <5>3, <6>2, <4>1 DEF DentryKey, FsinfoKey, NoKey
            <7> QED BY <7>1, <4>1, NextKeyOutside
          <6> QED BY <6>1, <6>2
        <5> QED BY <5>1, <5>3, <4>1
      <4> QED BY <4>2, <4>3
    <3>5. CASE Dela(t) \/ DirClose(t)
      BY <3>5, <1>1, <1>3 DEF Dela, DirClose, Return, Release, Goto
    <3>6. ASSUME NEW d \in Paths, DirOpen(t, d) PROVE Inv(t)'
      BY <3>6, <1>1, <1>3 DEF DirOpen, Goto
    <3>7. CASE ScanNext(t)
      BY <3>7, <1>1, <1>3 DEF ScanNext, Goto
    <3>8. CASE Fail(t)
      BY <3>8, <1>1, <1>3 DEF Fail, Refused, FailReturn, Return, Release, Goto
    <3> QED BY <1>4, <2>2, <3>1, <3>2, <3>3, <3>4, <3>5, <3>6, <3>7, <3>8 DEF Delete, Scan
  <2> QED BY <2>1, <2>2
<1>5. ASSUME NEW u \in Threads, Fill(u), NEW t \in Threads PROVE Inv(t)'
  BY <1>5, <1>2 DEF Fill, Create
<1>8. ASSUME NEW u \in Threads, Use(u), NEW t \in Threads PROVE Inv(t)'
  <2>1. CASE t # u
    BY <1>8, <2>1, UseStep, <1>2
  <2>2. CASE t = u
    BY <1>8, <2>2, UseStep
  <2> QED BY <2>1, <2>2
<1>6. ASSUME UNCHANGED vars, NEW t \in Threads PROVE Inv(t)'
  BY <1>6, <1>2 DEF vars
<1>7. \A t \in Threads : Inv(t)'
  BY <1>4, <1>5, <1>6, <1>8 DEF Next
<1> QED BY <1>7 DEF DeleteInv

\* Handles keep a record.
LEMMA HandleStep ==
  ASSUME TypeOK, RootStays, HandleInv, [Next]_vars
  PROVE  HandleInv'
<1>1. /\ pc \in [Threads -> Steps] /\ loc \in [Threads -> Paths]
      /\ copy \in [Threads -> Kinds] /\ kind \in [Paths -> Kinds]
  BY DEF TypeOK
<1> SUFFICES ASSUME NEW t \in Threads, pc'[t] = "open"
             PROVE  copy'[t] # "none" /\ (loc'[t] = Root => copy'[t] = "dir")
  BY DEF HandleInv
<1>2. CASE pc[t] = "open" /\ loc'[t] = loc[t] /\ copy'[t] = copy[t]
  BY <1>2 DEF HandleInv
<1>3. ASSUME NEW p \in Opened, HandleOpen(t, p)
      PROVE  copy'[t] # "none" /\ (loc'[t] = Root => copy'[t] = "dir")
  BY <1>1, <1>3 DEF HandleOpen, RootStays
<1>4. CASE PutAttr(t)
  <2>1. pc[t] = "open" /\ loc' = loc /\ copy'[t] \in Resized(copy[t])
    BY <1>1, <1>4 DEF PutAttr
  <2> QED BY <1>1, <2>1, ResizedFacts DEF HandleInv
<1>5. CASE WriteBlock(t) \/ HandleClose(t)
  BY <1>1, <1>2, <1>5 DEF WriteBlock, HandleClose, Return, Goto
<1>6. ASSUME NEW u \in Threads \ {t}, Use(u)
      PROVE  pc[t] = "open" /\ loc'[t] = loc[t] /\ copy'[t] = copy[t]
  BY <1>6, UseStep
<1>7. ASSUME NEW u \in Threads, Fill(u) \/ Delete(u) \/ Scan(u) \/ Fail(u)
      PROVE  pc[t] = "open" /\ loc'[t] = loc[t] /\ copy'[t] = copy[t]
  <2>1. \A v \in Threads \ {u} : pc'[v] = pc[v] /\ loc'[v] = loc[v]
    BY <1>1, <1>7 DEF Fill, Create, Delete, DeleteStart, Spin, DeldSet, DeldNext, Dela, Scan, DirOpen,
       ScanNext, DirClose, Fail, Refused, FailReturn, Return, Release, Goto
  <2>2. copy' = copy
    BY <1>7 DEF Fill, Create, Delete, DeleteStart, Spin, DeldSet, DeldNext, Dela, Scan, DirOpen,
       ScanNext, DirClose, Fail, Refused, FailReturn
  <2>3. pc'[u] # "open"
    BY <1>1, <1>7 DEF Fill, Create, Delete, DeleteStart, Spin, DeldSet, DeldNext, Dela, Scan, DirOpen,
       ScanNext, DirClose, Fail, Refused, FailReturn, Return, Goto
  <2> QED BY <2>1, <2>2, <2>3
<1>8. CASE UNCHANGED vars
  BY <1>2, <1>8 DEF vars
<1> QED BY <1>2, <1>3, <1>4, <1>5, <1>6, <1>7, <1>8 DEF Next, Use

\* The root stays.
LEMMA RootStep ==
  ASSUME TypeOK, RootStays, HandleInv, DeleteInv, [Next]_vars
  PROVE  RootStays'
<1>1. /\ kind \in [Paths -> Kinds] /\ Root \in Paths /\ kind[Root] = "dir"
      /\ copy \in [Threads -> Kinds]
  BY PathsAssumption DEF TypeOK, RootStays
<1>2. CASE kind' = kind
  BY <1>1, <1>2 DEF RootStays
<1>3. ASSUME NEW t \in Threads, Fill(t) PROVE RootStays'
  BY <1>3, <1>1 DEF Fill, Create, RootStays
<1>4. ASSUME NEW t \in Threads, Dela(t) PROVE RootStays'
  <2>1. buf[t] # DentryKey(Root)
    BY <1>4, <1>1 DEF Dela, DeleteInv
  <2> QED BY <1>1, <1>4, <2>1 DEF Dela, RootStays
<1>5. ASSUME NEW t \in Threads, Delete(t) \/ Scan(t) \/ Fail(t), ~Dela(t) PROVE kind' = kind
  BY <1>5 DEF Delete, DeleteStart, Spin, DeldSet, DeldNext, Scan, DirOpen, ScanNext,
     DirClose, Fail, Refused, FailReturn, tree
<1>6. ASSUME NEW t \in Threads, Use(t) PROVE RootStays'
  <2>1. CASE kind' = kind
    BY <2>1, <1>2
  <2>2. CASE kind' # kind
    <3>1. /\ pc[t] = "open" /\ copy'[t] \in Resized(copy[t])
          /\ kind' = [kind EXCEPT ![loc[t]] = copy'[t]]
      BY <1>6, <2>2, UseStep
    <3>2. loc[t] = Root => copy'[t] = "dir"
      BY <1>1, <3>1, ResizedFacts DEF HandleInv
    <3> QED BY <1>1, <3>1, <3>2 DEF RootStays
  <2> QED BY <2>1, <2>2
<1> QED BY <1>2, <1>3, <1>4, <1>5, <1>6 DEF Next, vars

\* The invariant of deletes holds of every behaviour.
THEOREM Inductive == Spec => []IInv
<1>1. Init => IInv
  <2>1. Init => TypeOK
    BY PathsAssumption DEF Init, TypeOK, Kinds, Keys, Steps
  <2>2. Init => RootStays /\ HandleInv /\ DeleteInv
    BY PathsAssumption DEF Init, RootStays, HandleInv, DeleteInv
  <2> QED BY <2>1, <2>2 DEF IInv
<1>2. IInv /\ [Next]_vars => IInv'
  BY TypeStep, RootStep, HandleStep, DeleteStep DEF IInv
<1> QED BY <1>1, <1>2, PTL DEF Spec

\* The root directory is never removed, and stays a directory.
THEOREM RootTheorem == Spec => []RootStays
<1>1. IInv => RootStays
  BY DEF IInv
<1> QED BY <1>1, Inductive, PTL

\* dbfs_deld looks at one key and never passes a directory with anything below
\* it: the contiguity of prefixes in the strcmp order makes one key enough.
THEOREM EmptyTestTheorem == Spec => EmptyTestSound
<1>1. IInv /\ [Next]_vars =>
        [\A t \in Threads : pc[t] = "next" /\ pc'[t] = "dela" =>
           \A e \in Paths : Exists(e) => ~Below(e, loc[t])]_vars
  BY EmptyStep DEF IInv
<1> QED BY <1>1, Inductive, PTL DEF Spec, EmptyTestSound

\* No delete removes an entry below the directory it was called for, whichever
\* record attr_ddk names by then.
THEOREM OutsideTheorem == Spec => DeleteStaysOutside
<1>1. ASSUME IInv, [Next]_vars, NEW t \in Threads, pc[t] = "dela", pc'[t] = "idle",
             NEW e \in Paths, Exists(e), ~Exists(e)'
      PROVE  ~Below(e, loc[t])
  <2>1. /\ pc \in [Threads -> Steps]
        /\ kind \in [Paths -> Kinds]
    BY <1>1 DEF IInv, TypeOK
  <2>2. PICK u \in Threads : Fill(u) \/ Use(u) \/ Delete(u) \/ Scan(u) \/ Fail(u)
    BY <1>1, <2>1 DEF Next, vars
  <2>3. Fill(u) => pc' = pc
    BY DEF Fill, Create
  <2>a. ~Use(u)
    BY <1>1, UseStep DEF IInv
  <2>4. Delete(u) \/ Scan(u) \/ Fail(u) => \A v \in Threads : v # u => pc'[v] = pc[v]
    BY <2>1 DEF Delete, DeleteStart, Spin, DeldSet, DeldNext, Dela, Scan, DirOpen, ScanNext,
       DirClose, Fail, Refused, FailReturn, Return, Release, Goto
  <2>5. u = t /\ (Delete(u) \/ Scan(u) \/ Fail(u))
    BY <1>1, <2>2, <2>3, <2>a, <2>4
  <2>6. Dela(t)
    BY <1>1, <2>5, <2>1 DEF Delete, DeleteStart, Spin, DeldSet, DeldNext, Scan, DirOpen,
       ScanNext, DirClose, Fail, Refused, FailReturn, Release, Goto
  <2>7. buf[t] = DentryKey(e)
    BY <1>1, <2>6, <2>1 DEF Dela, Exists
  <2> QED BY <1>1, <2>7 DEF IInv, DeleteInv
<1>2. IInv /\ [Next]_vars =>
        [\A t \in Threads : pc[t] = "dela" /\ pc'[t] = "idle" =>
           \A e \in Paths : Exists(e) /\ ~Exists(e)' => ~Below(e, loc[t])]_vars
  BY <1>1
<1> QED BY <1>2, Inductive, PTL DEF Spec, DeleteStaysOutside

-----------------------------------------------------------------------------
(* What a listing reports *)

\* strcmp is transitive.
LEMMA LessTransitive ==
  ASSUME NEW s \in Seq(Nat), NEW p \in Seq(Nat), NEW e \in Seq(Nat), Less(s, p), Less(p, e)
  PROVE  Less(s, e)
<1>1. PICK i \in 1 .. Len(p) :
        /\ i <= Len(s) + 1
        /\ \A j \in 1 .. i - 1 : s[j] = p[j]
        /\ i <= Len(s) => s[i] < p[i]
  BY DEF Less
<1>2. PICK k \in 1 .. Len(e) :
        /\ k <= Len(p) + 1
        /\ \A j \in 1 .. k - 1 : p[j] = e[j]
        /\ k <= Len(p) => p[k] < e[k]
  BY DEF Less
<1>3. /\ \A j \in 1 .. Len(s) : s[j] \in Nat
      /\ \A j \in 1 .. Len(p) : p[j] \in Nat
      /\ \A j \in 1 .. Len(e) : e[j] \in Nat
      /\ Len(s) \in Nat /\ Len(p) \in Nat /\ Len(e) \in Nat
  OBVIOUS
<1>4. CASE i < k
  <2>1. i \in 1 .. Len(e) /\ (i <= Len(s) => s[i] < e[i]) /\ \A j \in 1 .. i - 1 : s[j] = e[j]
    BY <1>1, <1>2, <1>3, <1>4
  <2> QED BY <1>1, <2>1 DEF Less
<1>5. CASE i = k
  <2>1. (i <= Len(s) => s[i] < e[i]) /\ \A j \in 1 .. i - 1 : s[j] = e[j]
    BY <1>1, <1>2, <1>3, <1>5
  <2> QED BY <1>1, <1>2, <1>5, <2>1 DEF Less
<1>6. CASE k < i
  <2>1. k <= Len(s) + 1 /\ (k <= Len(s) => s[k] < e[k])
    BY <1>1, <1>2, <1>3, <1>6
  <2>2. \A j \in 1 .. k - 1 : s[j] = e[j]
    BY <1>1, <1>2, <1>3, <1>6
  <2> QED BY <1>2, <2>1, <2>2 DEF Less
<1> QED BY <1>4, <1>5, <1>6, <1>3

\* Every entry of a directory comes after the directory and is one that
\* dbfs_readdir reports.
LEMMA ChildReported ==
  ASSUME NEW d \in Paths, NEW e \in Paths, ChildOf(e, d)
  PROVE  /\ Less(d, e) /\ Reported(e, d)
         /\ d # Root => StartsWith(e, d)
<1>1. /\ d \in Seq(Codes) /\ Len(d) >= 1 /\ Len(d) \in Nat
      /\ e \in Seq(Codes) /\ Canonical(e) /\ Len(e) \in Nat
  BY PathFacts
<1>2. StartsWith(e, d) /\ Len(e) > Len(d)
  <2>1. CASE d = Root
    <3>1. e # Root
      BY <2>1 DEF ChildOf, Below
    <3>2. Len(e) > 1 /\ e[1] = Slash
      BY <1>1, <3>1 DEF Canonical
    <3> QED BY <2>1, <3>2 DEF Root, StartsWith
  <2>2. CASE d # Root
    BY <1>1, <2>2, BelowContinues DEF ChildOf
  <2> QED BY <2>1, <2>2
<1>3. Less(d, e)
  BY <1>1, <1>2, PrefixLess, CodesAreNat
<1>4. NameStart(e, d) <= Len(e) /\ NameStart(e, d) \in 1 .. Len(e)
  BY <1>1, <1>2, NameAt
<1>5. NameIn(e, d) # <<>> /\ ~HasSlash(NameIn(e, d))
  <2>1. Len(NameIn(e, d)) = Len(e) - NameStart(e, d) + 1
    BY <1>1, <1>4 DEF NameIn
  <2> QED BY <1>1, <1>4, <2>1 DEF ChildOf
<1>6. d = Root => ~HasSlash(Tail(e))
  <2> SUFFICES ASSUME d = Root PROVE ~HasSlash(Tail(e))
    OBVIOUS
  <2>1. Len(d) = 1 /\ d[1] = Slash /\ e[1] = Slash /\ Len(e) > 1
    BY <1>2 DEF Root, StartsWith
  <2>2. e[2] # Slash
    BY <1>1, <2>1 DEF Canonical, Root
  <2>3. NameStart(e, d) = 2
    <3>1. Len(d) + 1 = 2 /\ e[Len(d) + 1] # Slash
      BY <2>1, <2>2
    <3>2. NameStart(e, d) = Len(d) + 1
      BY <1>1, <1>2, <3>1, NameAt
    <3> QED BY <3>1, <3>2
  <2>4. Tail(e) = SubSeq(e, 2, Len(e))
    BY <1>1, <2>1
  <2> QED BY <1>5, <2>3, <2>4 DEF NameIn
<1> QED BY <1>2, <1>3, <1>5, <1>6 DEF Reported

\* What dbfs_readdir reports is an entry of the directory or a sibling whose
\* name begins with the directory's.
LEMMA ReportedBounded ==
  ASSUME NEW d \in Paths, NEW e \in Paths, Reported(e, d)
  PROVE  \/ ChildOf(e, d)
         \/ StartsWith(e, d) /\ ~HasSlash(SubSeq(e, Len(d) + 1, Len(e)))
<1>1. /\ d \in Seq(Codes) /\ Len(d) >= 1 /\ Len(d) \in Nat
      /\ e \in Seq(Codes) /\ Canonical(e) /\ Len(e) \in Nat
  BY PathFacts
<1>2. CASE d = Root
  <2>1. e # Root
    <3> SUFFICES ASSUME e = Root PROVE FALSE
      OBVIOUS
    <3>1. Len(e) = 1 /\ Len(d) = 1
      BY <1>2 DEF Root
    <3>2. NameStart(e, d) = 2
      <4> DEFINE First(i) == /\ \A j \in 2 .. i - 1 : e[j] = Slash
                             /\ i <= 1 => e[i] # Slash
      <4>1. First(2) /\ 2 \in 2 .. 2
        OBVIOUS
      <4>2. NameStart(e, d) \in 2 .. 2
        BY <3>1, <4>1 DEF NameStart
      <4> QED BY <4>2
    <3>3. NameIn(e, d) = <<>>
      BY <1>1, <3>1, <3>2 DEF NameIn
    <3> QED BY <3>3 DEF Reported
  <2> QED BY <1>2, <2>1 DEF Reported, ChildOf, Below
<1>3. CASE d # Root /\ Len(e) = Len(d)
  <2>1. SubSeq(e, Len(d) + 1, Len(e)) = <<>>
    BY <1>1, <1>3
  <2>2. ~HasSlash(<<>>)
    BY DEF HasSlash
  <2> QED BY <1>3, <2>1, <2>2 DEF Reported
<1>4. CASE d # Root /\ Len(e) # Len(d)
  <2>1. StartsWith(e, d) /\ Len(e) > Len(d) /\ ~HasSlash(NameIn(e, d))
    BY <1>1, <1>4 DEF Reported, StartsWith
  <2>2. CASE e[Len(d) + 1] = Slash
    <3>1. Slash \in Codes /\ Append(d, Slash) \in Seq(Codes) /\ Len(Append(d, Slash)) = Len(d) + 1
      BY <1>1, SlashAssumption DEF Codes
    <3>2. \A i \in 1 .. Len(d) + 1 : e[i] = Append(d, Slash)[i]
      BY <1>1, <2>1, <2>2 DEF StartsWith
    <3>3. StartsWith(e, Append(d, Slash))
      BY <1>1, <2>1, <3>1, <3>2 DEF StartsWith
    <3> QED BY <1>4, <2>1, <3>3 DEF ChildOf, Below
  <2>3. CASE e[Len(d) + 1] # Slash
    <3>1. NameStart(e, d) = Len(d) + 1
      BY <1>1, <2>1, <2>3, NameAt
    <3> QED BY <2>1, <3>1 DEF NameIn
  <2> QED BY <2>2, <2>3
<1> QED BY <1>2, <1>3, <1>4

\* What the cursor of a thread that lists has passed it has reported, if it was
\* there all the time, and it has reported nothing strange.
ScanInv(t) ==
  /\ pc[t] \notin {"scan", "done"} => seen[t] = {} /\ stable[t] = {}
  /\ \A e \in seen[t] : Reported(e, loc[t])
  /\ \A e \in stable[t] : Exists(e) /\ ChildOf(e, loc[t])
  /\ pc[t] = "scan" =>
       /\ \E q \in Paths : pos[t] = DentryKey(q) /\ (q = loc[t] \/ Less(loc[t], q))
       /\ \A e \in stable[t] : e \in seen[t] \/ KeyLess(pos[t], DentryKey(e))
  /\ pc[t] = "done" => stable[t] \subseteq seen[t]

\* The steps of other threads: entries come, or go from stable too.
LEMMA ScanOthers ==
  ASSUME TypeOK, NEW t \in Threads, ScanInv(t), stable' \in [Threads -> SUBSET Paths],
         pc'[t] = pc[t], loc'[t] = loc[t], pos'[t] = pos[t], seen'[t] = seen[t],
         stable'[t] \subseteq stable[t], \A e \in stable'[t] : Exists(e) => Exists(e)'
  PROVE  ScanInv(t)'
BY DEF ScanInv

\* A thread that does not list.
LEMMA ScanOut ==
  ASSUME NEW t \in Threads, pc'[t] \notin {"scan", "done"}, seen'[t] = {}, stable'[t] = {}
  PROVE  ScanInv(t)'
BY DEF ScanInv

\* One step of a listing.
LEMMA ScanNextStep ==
  ASSUME TypeOK, NEW t \in Threads, ScanInv(t), ScanNext(t)
  PROVE  ScanInv(t)'
<1>1. /\ pc \in [Threads -> Steps] /\ loc \in [Threads -> Paths] /\ pos \in [Threads -> Keys]
      /\ seen \in [Threads -> SUBSET Paths] /\ stable \in [Threads -> SUBSET Paths]
      /\ loc' = loc /\ stable' = stable /\ kind' = kind /\ pc[t] = "scan"
  BY DEF TypeOK, ScanNext, tree
<1> DEFINE d == loc[t]
<1>2. d \in Paths /\ d \in Seq(Codes)
  BY <1>1, PathFacts
<1>3. PICK q \in Paths : pos[t] = DentryKey(q) /\ (q = d \/ Less(d, q))
  BY <1>1 DEF ScanInv
<1>4. ASSUME NEW e \in stable[t]
      PROVE  /\ e \in Paths /\ e \in Seq(Codes) /\ ChildOf(e, d) /\ Exists(e)
             /\ DentryKey(e) \in Present
             /\ e \in seen[t] \/ KeyLess(pos[t], DentryKey(e))
  <2>1. e \in Paths /\ e \in Seq(Codes)
    BY <1>1, PathFacts
  <2> QED BY <1>1, <2>1 DEF ScanInv, Present, Exists
<1>5. CASE IsLast(Present, pos[t]) /\ Goto(t, "done") /\ UNCHANGED <<pos, seen>>
  <2>1. stable[t] \subseteq seen[t]
    BY <1>4, <1>5 DEF IsLast
  <2>2. pc'[t] = "done"
    BY <1>1, <1>5 DEF Goto
  <2>3. \A e \in stable'[t] : Exists(e)' /\ ChildOf(e, loc'[t])
    BY <1>1, <1>4 DEF Exists
  <2>4. \A e \in seen'[t] : Reported(e, loc'[t])
    BY <1>1, <1>5 DEF ScanInv
  <2> QED BY <1>1, <1>5, <2>1, <2>2, <2>3, <2>4 DEF ScanInv
<1>6. ASSUME NEW k \in Present, IsNext(Present, pos[t], k),
             pos' = [pos EXCEPT ![t] = Advance(pos[t], k)],
             IF k.dk_type # 1 \/ ScanStops(k.at, loc[t])
             THEN Goto(t, "done") /\ UNCHANGED seen
             ELSE /\ seen' = IF Reported(k.at, loc[t])
                             THEN [seen EXCEPT ![t] = @ \cup {k.at}] ELSE seen
                  /\ UNCHANGED pc
      PROVE  ScanInv(t)'
  <2>1. KeyLess(pos[t], k) /\ \A m \in Present : KeyLess(pos[t], m) => m = k \/ KeyLess(k, m)
    BY <1>6 DEF IsNext
  <2>2. pos'[t] = k
    BY <1>1, <1>6 DEF Advance
  <2>3. ASSUME NEW e \in stable[t], e \notin seen[t]
        PROVE  DentryKey(e) = k \/ KeyLess(k, DentryKey(e))
    BY <1>4, <2>1, <2>3
  <2>4. CASE k.dk_type # 1 \/ ScanStops(k.at, d)
    <3>1. ASSUME NEW e \in stable[t], e \notin seen[t]  PROVE FALSE
      <4>1. e \in Paths /\ e \in Seq(Codes) /\ ChildOf(e, d) /\ Reported(e, d) /\ Less(d, e)
            /\ (d # Root => StartsWith(e, d))
        BY <1>2, <1>4, ChildReported
      <4>2. CASE DentryKey(e) = k
        BY <2>4, <4>1, <4>2 DEF DentryKey, ScanStops
      <4>3. CASE KeyLess(k, DentryKey(e))
        <5>1. PICK p \in Paths : k = DentryKey(p)
          BY <1>3, <2>1, <4>3 DEF Present, KeyLess, DentryKey, BlockKey, FsinfoKey
        <5>2. Less(q, p) /\ Less(p, e)
          BY <1>3, <2>1, <4>3, <5>1 DEF KeyLess, DentryKey
        <5>3. Less(d, p) /\ p \in Seq(Codes)
          BY <1>2, <1>3, <5>2, LessTransitive, PathFacts, CodesAreNat
        <5>4. d # Root => StartsWith(p, d)
          BY <1>2, <4>1, <5>2, <5>3, PrefixRange
        <5> QED BY <2>4, <5>1, <5>4 DEF DentryKey, ScanStops
      <4> QED BY <2>3, <3>1, <4>2, <4>3
    <3>2. pc'[t] = "done" /\ seen' = seen
      BY <1>1, <1>6, <2>4 DEF Goto
    <3>3. \A e \in stable'[t] : Exists(e)' /\ ChildOf(e, loc'[t])
      BY <1>1, <1>4 DEF Exists
    <3>4. \A e \in seen'[t] : Reported(e, loc'[t])
      BY <1>1, <3>2 DEF ScanInv
    <3>5. stable'[t] \subseteq seen'[t]
      BY <1>1, <3>1, <3>2
    <3> QED BY <3>2, <3>3, <3>4, <3>5 DEF ScanInv
  <2>5. CASE ~(k.dk_type # 1 \/ ScanStops(k.at, d))
    <3>1. pc' = pc
          /\ seen' = IF Reported(k.at, d) THEN [seen EXCEPT ![t] = @ \cup {k.at}] ELSE seen
      BY <1>6, <2>5
    <3>2. PICK p \in Paths : k = DentryKey(p) /\ k.at = p
      BY <2>5 DEF Present, DentryKey, BlockKey, FsinfoKey
    <3>3. seen'[t] = IF Reported(p, d) THEN seen[t] \cup {p} ELSE seen[t]
      BY <1>1, <3>1, <3>2
    <3>4. Less(d, p)
      <4>1. Less(q, p)
        BY <1>3, <2>1, <3>2 DEF KeyLess, DentryKey
      <4> QED BY <1>2, <1>3, <4>1, LessTransitive, PathFacts, CodesAreNat
    <3>5. ASSUME NEW e \in stable'[t]
          PROVE  Exists(e)' /\ ChildOf(e, loc'[t]) /\ (e \in seen'[t] \/ KeyLess(pos'[t], DentryKey(e)))
      <4>1. e \in stable[t]
        BY <1>1, <3>5
      <4>2. Exists(e)' /\ ChildOf(e, loc'[t])
        BY <1>1, <1>4, <4>1 DEF Exists
      <4>3. Reported(e, d)
        BY <1>2, <1>4, <4>1, ChildReported
      <4>4. DentryKey(e) = k => e = p
        BY <3>2 DEF DentryKey
      <4> QED BY <2>2, <2>3, <3>3, <4>1, <4>2, <4>3, <4>4
    <3>6. \A e \in seen'[t] : Reported(e, loc'[t])
      BY <1>1, <3>3 DEF ScanInv
    <3>7. \E r \in Paths : pos'[t] = DentryKey(r) /\ (r = loc'[t] \/ Less(loc'[t], r))
      BY <1>1, <2>2, <3>2, <3>4
    <3> QED BY <1>1, <3>1, <3>5, <3>6, <3>7 DEF ScanInv
  <2> QED BY <2>4, <2>5
<1> QED BY <1>5, <1>6 DEF ScanNext

\* Every step keeps the listings in order.
LEMMA ScanStep ==
  ASSUME TypeOK, TypeOK', \A t \in Threads : ScanInv(t), [Next]_vars, NEW t \in Threads
  PROVE  ScanInv(t)'
<1>1. /\ pc \in [Threads -> Steps] /\ loc \in [Threads -> Paths] /\ pos \in [Threads -> Keys]
      /\ seen \in [Threads -> SUBSET Paths] /\ stable \in [Threads -> SUBSET Paths]
      /\ stable' \in [Threads -> SUBSET Paths] /\ kind \in [Paths -> Kinds]
  BY DEF TypeOK
<1>2. CASE UNCHANGED vars
  BY <1>1, <1>2, ScanOthers DEF vars, Exists
<1>3. ASSUME NEW u \in Threads, Fill(u)  PROVE ScanInv(t)'
  <2>1. UNCHANGED <<pc, loc, pos, seen, stable>>
    BY <1>3 DEF Fill, Create
  <2>2. \A e \in Paths : Exists(e) => Exists(e)'
    BY <1>1, <1>3 DEF Fill, Create, Exists
  <2> QED BY <1>1, <2>1, <2>2, ScanOthers
<1>11. ASSUME NEW u \in Threads, Use(u)  PROVE ScanInv(t)'
  <2>1. \A e \in Paths : Exists(e) => Exists(e)'
    <3>1. \A l \in Resized(copy[u]) : l # "none"
      BY ResizedFacts DEF TypeOK
    <3> QED BY <1>1, <1>11, <3>1, UseStep DEF Exists
  <2>2. CASE t # u
    <3>1. pc'[t] = pc[t] /\ loc'[t] = loc[t] /\ pos'[t] = pos[t] /\ seen' = seen /\ stable' = stable
      BY <1>11, <2>2, UseStep
    <3> QED BY <1>1, <2>1, <3>1, ScanOthers
  <2>3. CASE t = u
    BY <1>11, <2>3, UseStep, ScanOut DEF ScanInv
  <2> QED BY <2>2, <2>3
<1>4. ASSUME NEW u \in Threads, Dela(u)  PROVE ScanInv(t)'
  <2>1. /\ pc[u] = "dela" /\ seen' = seen
        /\ stable'[t] = {p \in stable[t] : DentryKey(p) # buf[u]}
        /\ \A p \in Paths : DentryKey(p) # buf[u] => kind'[p] = kind[p]
    BY <1>4 DEF Dela
  <2>2. CASE t = u
    <3>1. pc'[t] = "idle"
      BY <1>1, <1>4, <2>2 DEF Dela, Return, Goto
    <3>2. seen'[t] = {} /\ stable'[t] = {}
      BY <2>1, <2>2 DEF ScanInv
    <3> QED BY <3>1, <3>2, ScanOut
  <2>3. CASE t # u
    <3>1. pc'[t] = pc[t] /\ loc'[t] = loc[t] /\ pos'[t] = pos[t]
      BY <1>1, <1>4, <2>3 DEF Dela, Return, Release, Goto
    <3>2. \A e \in stable'[t] : Exists(e) => Exists(e)'
      BY <1>1, <2>1 DEF Exists
    <3> QED BY <1>1, <2>1, <3>1, <3>2, ScanOthers
  <2> QED BY <2>2, <2>3
<1>5. ASSUME NEW u \in Threads, t # u, Delete(u) \/ Scan(u) \/ Fail(u), ~Dela(u)
      PROVE  ScanInv(t)'
  <2>1. /\ pc'[t] = pc[t] /\ loc'[t] = loc[t] /\ pos'[t] = pos[t]
        /\ seen'[t] = seen[t] /\ stable'[t] = stable[t] /\ kind' = kind
    BY <1>1, <1>5 DEF Delete, DeleteStart, Spin, DeldSet, DeldNext, Scan, DirOpen, ScanNext,
       DirClose, Fail, Refused, FailReturn, Return, Release, Goto, tree
  <2> QED BY <1>1, <2>1, ScanOthers DEF Exists
<1>6. ASSUME (\E p \in Paths : DeleteStart(t, p)) \/ Spin(t) \/ DeldSet(t) \/ DeldNext(t)
      PROVE  ScanInv(t)'
  <2>1. pc[t] \notin {"scan", "done"} /\ pc'[t] \notin {"scan", "done"}
        /\ seen' = seen /\ stable' = stable
    BY <1>1, <1>6 DEF DeleteStart, Spin, DeldSet, DeldNext, Return, Goto
  <2> QED BY <2>1, ScanOut DEF ScanInv
<1>7. ASSUME NEW d \in Paths, DirOpen(t, d)  PROVE ScanInv(t)'
  <2>1. /\ pc'[t] = "scan" /\ loc'[t] = d /\ pos'[t] = DentryKey(d) /\ seen'[t] = {}
        /\ stable'[t] = {e \in Paths : kind[e] # "none" /\ ChildOf(e, d)} /\ kind' = kind
    BY <1>1, <1>7 DEF DirOpen, Goto, tree
  <2>2. \A e \in stable'[t] : Exists(e)' /\ ChildOf(e, d) /\ KeyLess(pos'[t], DentryKey(e))
    <3>1. \A e \in stable'[t] : e \in Paths /\ ChildOf(e, d) /\ Less(d, e)
      BY <2>1, ChildReported
    <3> QED BY <2>1, <3>1 DEF Exists, KeyLess, DentryKey
  <2> QED BY <2>1, <2>2 DEF ScanInv
<1>8. CASE DirClose(t) \/ Refused(t)
  <2>1. pc'[t] \in {"idle", "failed"} /\ seen'[t] = {} /\ stable'[t] = {}
    BY <1>1, <1>8 DEF DirClose, Refused, Return, Goto
  <2> QED BY <2>1, ScanOut
<1>9. CASE FailReturn(t)
  <2>1. pc[t] = "failed" /\ pc'[t] = "idle" /\ seen' = seen /\ stable' = stable
    BY <1>1, <1>9 DEF FailReturn, Goto
  <2> QED BY <2>1, ScanOut DEF ScanInv
<1>10. Delete(t) \/ Scan(t) \/ Fail(t) => ScanInv(t)'
  BY <1>4, <1>6, <1>7, <1>8, <1>9, ScanNextStep DEF Delete, Scan, Fail
<1> QED BY <1>2, <1>3, <1>4, <1>5, <1>10, <1>11 DEF Next

\* A listing is complete, and the only strange thing in it is a sibling whose
\* name begins with the directory's, for any locators and threads: the entries
\* of a directory are contiguous, so stopping at the first locator that does
\* not begin with the directory's (dir.c:135) loses none of them.
THEOREM ListingTheorem == Spec => [](ScanComplete /\ ListingBounded)
<1> DEFINE Inv == TypeOK /\ \A t \in Threads : ScanInv(t)
<1>1. Init => Inv
  <2>1. Init => TypeOK
    BY PathsAssumption DEF Init, TypeOK, Kinds, Keys, Steps
  <2>2. Init => \A t \in Threads : ScanInv(t)
    BY DEF Init, ScanInv
  <2> QED BY <2>1, <2>2
<1>2. Inv /\ [Next]_vars => Inv'
  <2> SUFFICES ASSUME Inv, [Next]_vars  PROVE Inv'
    OBVIOUS
  <2>1. TypeOK'
    BY TypeStep
  <2>2. \A t \in Threads : ScanInv(t)'
    BY <2>1, ScanStep
  <2> QED BY <2>1, <2>2
<1>3. Inv => ScanComplete /\ ListingBounded
  <2> SUFFICES ASSUME Inv  PROVE ScanComplete /\ ListingBounded
    OBVIOUS
  <2>1. ScanComplete
    BY DEF ScanInv, ScanComplete
  <2>2. \A t \in Threads : loc[t] \in Paths /\ seen[t] \subseteq Paths
    BY DEF TypeOK
  <2>3. ListingBounded
    BY <2>2, ReportedBounded DEF ScanInv, ListingBounded
  <2> QED BY <2>1, <2>3
<1> QED BY <1>1, <1>2, <1>3, PTL DEF Spec

\* An entry that is there all the time reaches the filler.
THEOREM ScanCompleteTheorem == Spec => []ScanComplete
BY ListingTheorem, PTL

\* A listing reports entries of its directory and at worst such siblings.
THEOREM ListingBoundedTheorem == Spec => []ListingBounded
BY ListingTheorem, PTL
-----------------------------------------------------------------------------
(* The tree that callers see *)

\* The invariants that the refinement rests on.
Whole == TypeOK /\ RootStays /\ HandleInv /\ DeleteInv /\ \A t \in Threads : ScanInv(t)

\* No locator is the empty sequence that stands for none.
LEMMA NotNoPath == \A p \in Paths : p # NoPath
<1>1. Len(NoPath) = 0
  BY DEF NoPath
<1> QED BY <1>1, PathFacts

\* The kinds that callers see.
LEMMA TypedFacts ==
  ASSUME TypeOK
  PROVE  /\ Typed \in [Paths -> {"none", "dir", "file"}]
         /\ \A p \in Paths : Typed[p] # "none" <=> Exists(p)
BY DEF Typed, TypeOf, TypeOK, Kinds, Exists

\* A step of one thread moves what callers see of that thread.
LEMMA OneThread ==
  ASSUME NEW t \in Threads,
         \A u \in Threads \ {t} : /\ pc'[u] = pc[u] /\ loc'[u] = loc[u] /\ buf'[u] = buf[u]
                                  /\ seen'[u] = seen[u] /\ stable'[u] = stable[u]
  PROVE  /\ Testing' = [Testing EXCEPT ![t] = TestOf(t)']
         /\ Aims' = [Aims EXCEPT ![t] = AimOf(t)']
         /\ Listings' = [Listings EXCEPT ![t] = ListingOf(t)']
<1>1. \A u \in Threads \ {t} :
        TestOf(u)' = TestOf(u) /\ AimOf(u)' = AimOf(u) /\ ListingOf(u)' = ListingOf(u)
  BY DEF TestOf, AimOf, ListingOf
<1> QED BY <1>1 DEF Testing, Aims, Listings

\* Only the steps of handles are seen as those of handles.
LEMMA HandlesStay ==
  ASSUME TypeOK, NEW t \in Threads, Fill(t) \/ Delete(t) \/ Scan(t) \/ Fail(t)
  PROVE  Handles' = Handles /\ pc[t] # "open"
<1>1. /\ pc[t] # "open" /\ pc'[t] # "open" /\ copy' = copy
      /\ \A u \in Threads \ {t} : pc'[u] = pc[u] /\ loc'[u] = loc[u]
  BY DEF TypeOK, Fill, Create, Delete, DeleteStart, Spin, DeldSet, DeldNext, Dela, Scan, DirOpen,
     ScanNext, DirClose, Fail, Refused, FailReturn, Return, Release, Goto
<1>2. \A u \in Threads : HandleOf(u)' = HandleOf(u)
  BY <1>1 DEF HandleOf
<1> QED BY <1>1, <1>2 DEF Handles

\* A listing that ends, or that loses an entry.
LEMMA ListingOver ==
  \A of, must, given, over, end :
    [[of |-> of, must |-> must, given |-> given, over |-> over] EXCEPT !.over = end]
      = [of |-> of, must |-> must, given |-> given, over |-> end]
OBVIOUS
LEMMA ListingLess ==
  \A of, must, given, over, p :
    [[of |-> of, must |-> must, given |-> given, over |-> over] EXCEPT !.must = @ \ {p}]
      = [of |-> of, must |-> must \ {p}, given |-> given, over |-> over]
OBVIOUS

\* What callers see of a thread stays: a step of that thread alone, of no
\* consequence to the entries, is none of the promise.
LEMMA Unseen ==
  ASSUME NEW t \in Threads,
         \A u \in Threads \ {t} : /\ pc'[u] = pc[u] /\ loc'[u] = loc[u] /\ buf'[u] = buf[u]
                                  /\ seen'[u] = seen[u] /\ stable'[u] = stable[u],
         TestOf(t)' = TestOf(t), AimOf(t)' = AimOf(t), ListingOf(t)' = ListingOf(t),
         Typed' = Typed, Handles' = Handles
  PROVE  UNCHANGED Promise!vars
<1>1. \A u \in Threads \ {t} :
        TestOf(u)' = TestOf(u) /\ AimOf(u)' = AimOf(u) /\ ListingOf(u)' = ListingOf(u)
  BY DEF TestOf, AimOf, ListingOf
<1>2. Testing' = Testing /\ Aims' = Aims /\ Listings' = Listings
  BY <1>1 DEF Testing, Aims, Listings
<1> QED BY <1>2 DEF Promise!vars

\* A thread between calls.
LEMMA UnseenIdle ==
  ASSUME NEW t \in Threads, ScanInv(t), pc[t] \in {"idle", "spin", "failed"}
  PROVE  /\ TestOf(t) = NoPath /\ AimOf(t) = NoPath /\ ListingOf(t) = Promise!NoListing
         /\ Promise!Free(t)
<1>1. TestOf(t) = NoPath /\ AimOf(t) = NoPath /\ ListingOf(t) = Promise!NoListing
  BY DEF TestOf, AimOf, ListingOf, ScanInv, Promise!NoListing
<1>2. ListingOf(t).of = NoPath
  BY DEF ListingOf
<1>3. HandleOf(t).of = NoPath
  BY DEF HandleOf
<1> QED BY <1>1, <1>2, <1>3
    DEF Promise!Free, Promise!Lists, Promise!HasOpen, Testing, Aims, Listings, Handles

\* A call that ends leaves nothing for callers to see.
LEMMA EndSeen ==
  ASSUME NEW t \in Threads, ScanInv(t)', pc'[t] \in {"idle", "failed"}, Typed' = Typed,
         Handles' = Handles, pc[t] # "open",
         \A u \in Threads \ {t} : /\ pc'[u] = pc[u] /\ loc'[u] = loc[u] /\ buf'[u] = buf[u]
                                  /\ seen'[u] = seen[u] /\ stable'[u] = stable[u]
  PROVE  Promise!End(t)
<1>1. TestOf(t)' = NoPath /\ AimOf(t)' = NoPath /\ ListingOf(t)' = Promise!NoListing
  BY DEF TestOf, AimOf, ListingOf, ScanInv, Promise!NoListing
<1>2. Handles' = [Handles EXCEPT ![t] = Promise!NoHandle]
  <2>1. HandleOf(t) = Promise!NoHandle
    BY DEF HandleOf, Promise!NoHandle
  <2> QED BY <2>1 DEF Handles
<1> QED BY <1>1, <1>2, OneThread DEF Promise!End

\* A create.
LEMMA FillPromised ==
  ASSUME Whole, NEW t \in Threads, Fill(t)
  PROVE  [Promise!Next]_(Promise!vars)
<1>1. kind \in [Paths -> Kinds] /\ UNCHANGED <<pc, loc, buf, seen, stable>>
  BY DEF Whole, TypeOK, Fill, Create
<1>2. Testing' = Testing /\ Aims' = Aims /\ Listings' = Listings /\ Handles' = Handles
  BY <1>1, HandlesStay DEF Testing, Aims, Listings, TestOf, AimOf, ListingOf, Whole
<1>3. ASSUME NEW p \in Paths, NEW k \in {"dir", "empty"}, Create(t, p, k)
      PROVE  Promise!Add(p)
  <2>1. ~Promise!Exists(p)
    BY <1>1, <1>3 DEF Create, Promise!Exists, Typed, TypeOf
  <2>2. Typed'[p] \in {"dir", "file"} /\ Typed' = [Typed EXCEPT ![p] = Typed'[p]]
    BY <1>1, <1>3 DEF Create, Typed, TypeOf
  <2> QED BY <1>2, <2>1, <2>2 DEF Promise!Add
<1> QED BY <1>3 DEF Fill, Promise!Next

\* The steps of a handle: an open, a block, a put of its record, a close.
LEMMA UsePromised ==
  ASSUME Whole, Whole', NEW t \in Threads, Use(t)
  PROVE  [Promise!Next]_(Promise!vars)
<1>1. /\ TypeOK /\ kind \in [Paths -> Kinds] /\ pc \in [Threads -> Steps]
      /\ loc \in [Threads -> Paths] /\ copy \in [Threads -> Kinds] /\ loc[t] \in Paths
      /\ ScanInv(t) /\ ScanInv(t)'
      /\ pc[t] \in {"idle", "open"} /\ pc'[t] \in {"idle", "open"}
      /\ seen' = seen /\ stable' = stable
  BY UseStep DEF Whole, TypeOK
<1>2. \A u \in Threads \ {t} : /\ pc'[u] = pc[u] /\ loc'[u] = loc[u] /\ buf'[u] = buf[u]
                               /\ seen'[u] = seen[u] /\ stable'[u] = stable[u]
                               /\ copy'[u] = copy[u]
  BY <1>1, UseStep
<1>3. /\ TestOf(t) = NoPath /\ AimOf(t) = NoPath /\ ListingOf(t) = Promise!NoListing
      /\ TestOf(t)' = NoPath /\ AimOf(t)' = NoPath /\ ListingOf(t)' = Promise!NoListing
  BY <1>1 DEF TestOf, AimOf, ListingOf, ScanInv, Promise!NoListing
<1>4. Testing' = Testing /\ Aims' = Aims /\ Listings' = Listings
  <2>1. \A u \in Threads : TestOf(u)' = TestOf(u) /\ AimOf(u)' = AimOf(u) /\ ListingOf(u)' = ListingOf(u)
    BY <1>2, <1>3 DEF TestOf, AimOf, ListingOf
  <2> QED BY <2>1 DEF Testing, Aims, Listings
<1>5. Handles' = [Handles EXCEPT ![t] = HandleOf(t)']
  <2>1. \A u \in Threads \ {t} : HandleOf(u)' = HandleOf(u)
    BY <1>2 DEF HandleOf
  <2> QED BY <2>1 DEF Handles
<1>6. HandleOf(t)' = HandleOf(t) => Handles' = Handles
  BY <1>5 DEF Handles
<1>7. ASSUME NEW p \in Opened, HandleOpen(t, p) PROVE Promise!Open(t)
  <2>1. /\ pc[t] = "idle" /\ pc'[t] = "open" /\ loc'[t] = p /\ copy'[t] = kind[p]
        /\ kind[p] # "none" /\ kind' = kind /\ p \in Paths
    BY <1>1, <1>7, PathsAssumption DEF HandleOpen, Goto, tree
  <2>2. HandleOf(t)' = [of |-> p, as |-> Typed[p]]
    BY <2>1 DEF HandleOf, Typed
  <2>3. Promise!Exists(p) /\ Promise!Free(t) /\ Typed' = Typed
    BY <1>1, <2>1, UnseenIdle, TypedFacts DEF Promise!Exists, Exists, Typed
  <2> QED BY <1>4, <1>5, <2>1, <2>2, <2>3 DEF Promise!Open
<1>8. CASE WriteBlock(t)
  <2>1. HandleOf(t)' = HandleOf(t) /\ Typed' = Typed
    BY <1>8 DEF WriteBlock, HandleOf, Typed
  <2> QED BY <2>1, <1>4, <1>6 DEF Promise!vars
<1>9. CASE PutAttr(t)
  <2>1. /\ pc[t] = "open" /\ pc' = pc /\ loc' = loc /\ copy'[t] \in Resized(copy[t])
        /\ kind' = kind \/ kind' = [kind EXCEPT ![loc[t]] = copy'[t]]
    BY <1>1, <1>9 DEF PutAttr
  <2>2. TypeOf(copy'[t]) = TypeOf(copy[t])
    <3>1. copy[t] # "none"
      BY <2>1 DEF Whole, HandleInv
    <3> QED BY <1>1, <2>1, <3>1, ResizedFacts DEF TypeOf
  <2>3. HandleOf(t) = [of |-> loc[t], as |-> TypeOf(copy[t])] /\ HandleOf(t)' = HandleOf(t)
    BY <2>1, <2>2 DEF HandleOf
  <2>4. CASE kind' = kind
    BY <2>3, <2>4, <1>4, <1>6 DEF Promise!vars, Typed
  <2>5. CASE kind' = [kind EXCEPT ![loc[t]] = copy'[t]]
    <3>1. Typed' = [Typed EXCEPT ![loc[t]] = TypeOf(copy[t])]
      BY <1>1, <2>2, <2>5 DEF Typed
    <3>2. Handles[t].of = loc[t] /\ Handles[t].as = TypeOf(copy[t]) /\ loc[t] # NoPath
      BY <1>1, <2>3, NotNoPath DEF Handles
    <3>3. Promise!PutBack(t)
      BY <1>4, <1>6, <2>3, <3>1, <3>2 DEF Promise!PutBack, Promise!HasOpen
    <3> QED BY <3>3 DEF Promise!Next
  <2> QED BY <2>1, <2>4, <2>5
<1>10. CASE HandleClose(t)
  <2>1. pc'[t] = "idle" /\ Typed' = Typed
    BY <1>1, <1>10 DEF HandleClose, Return, Goto, tree, Typed
  <2>2. HandleOf(t)' = Promise!NoHandle
    BY <2>1 DEF HandleOf, Promise!NoHandle
  <2>3. /\ Testing' = [Testing EXCEPT ![t] = NoPath] /\ Aims' = [Aims EXCEPT ![t] = NoPath]
        /\ Listings' = [Listings EXCEPT ![t] = Promise!NoListing]
    BY <1>3, <1>4 DEF Testing, Aims, Listings
  <2>4. Promise!End(t)
    BY <1>5, <2>1, <2>2, <2>3 DEF Promise!End
  <2> QED BY <2>4 DEF Promise!Next
<1> QED BY <1>7, <1>8, <1>9, <1>10 DEF Use, Promise!Next

\* The steps of one thread do not touch what others see of theirs, unless an
\* entry goes.
LEMMA OthersStay ==
  ASSUME TypeOK, NEW t \in Threads, Delete(t) \/ Scan(t) \/ Fail(t), ~Dela(t),
         NEW u \in Threads \ {t}
  PROVE  /\ pc'[u] = pc[u] /\ loc'[u] = loc[u] /\ buf'[u] = buf[u]
         /\ seen'[u] = seen[u] /\ stable'[u] = stable[u] /\ kind' = kind
BY DEF TypeOK, Delete, DeleteStart, Spin, DeldSet, DeldNext, Scan, DirOpen, ScanNext, DirClose,
   Fail, Refused, FailReturn, Return, Release, Goto, tree

\* dbfs_delete up to the branch on the type.
LEMMA DeleteStartPromised ==
  ASSUME Whole, NEW t \in Threads, NEW p \in Paths, DeleteStart(t, p)
  PROVE  [Promise!Next]_(Promise!vars)
<1>1. /\ TypeOK /\ ScanInv(t) /\ pc[t] = "idle" /\ p # Root /\ kind' = kind
      /\ loc'[t] = p /\ buf'[t] = DentryKey(p) /\ seen' = seen /\ stable' = stable
      /\ pc \in [Threads -> Steps] /\ kind \in [Paths -> Kinds]
  BY DEF Whole, TypeOK, DeleteStart, tree
<1>2. \A u \in Threads \ {t} : /\ pc'[u] = pc[u] /\ loc'[u] = loc[u] /\ buf'[u] = buf[u]
                               /\ seen'[u] = seen[u] /\ stable'[u] = stable[u]
  BY <1>1 DEF DeleteStart, Goto, TypeOK
<1>3. Typed' = Typed /\ Handles' = Handles
  <2>1. Delete(t)
    BY DEF Delete
  <2> QED BY <1>1, <2>1, HandlesStay DEF Typed
<1>4. /\ TestOf(t) = NoPath /\ AimOf(t) = NoPath /\ ListingOf(t) = Promise!NoListing
      /\ Promise!Free(t)
  BY <1>1, UnseenIdle
<1>5. /\ Testing' = [Testing EXCEPT ![t] = TestOf(t)']
      /\ Aims' = [Aims EXCEPT ![t] = AimOf(t)']
      /\ Listings' = [Listings EXCEPT ![t] = ListingOf(t)']
  BY <1>2, OneThread
<1>6. pc'[t] \notin {"scan", "done"} => ListingOf(t)' = ListingOf(t)
  BY <1>1 DEF ListingOf
<1>7. Listings[t] = ListingOf(t) /\ Aims[t] = AimOf(t) /\ Testing[t] = TestOf(t)
  BY DEF Listings, Aims, Testing
<1>8. Listings' = Listings \/ pc'[t] \in {"scan", "done"}
  BY <1>5, <1>6, <1>7 DEF Listings
<1>9. CASE kind[p] = "dir" /\ Goto(t, "set")
  <2>1. pc'[t] = "set" /\ Typed[p] = "dir"
    BY <1>1, <1>9 DEF Goto, Typed, TypeOf
  <2>2. TestOf(t)' = p /\ AimOf(t)' = NoPath
    BY <1>1, <2>1 DEF TestOf, AimOf
  <2>3. Aims' = Aims
    BY <1>4, <1>5, <1>7, <2>2 DEF Aims
  <2>4. Promise!RemoveDir(t)
    BY <1>1, <1>3, <1>4, <1>5, <1>8, <2>1, <2>2, <2>3 DEF Promise!RemoveDir
  <2> QED BY <2>4 DEF Promise!Next
<1>10. CASE kind[p] = "full" /\ Goto(t, "dela")
  <2>1. pc'[t] = "dela" /\ Typed[p] = "file"
    BY <1>1, <1>10 DEF Goto, Typed, TypeOf
  <2>2. TestOf(t)' = NoPath /\ AimOf(t)' = p
    BY <1>1, <2>1 DEF TestOf, AimOf, DentryKey
  <2>3. Testing' = Testing
    BY <1>4, <1>5, <1>7, <2>2 DEF Testing
  <2>4. Promise!RemoveFile(t)
    BY <1>1, <1>3, <1>4, <1>5, <1>8, <2>1, <2>2, <2>3 DEF Promise!RemoveFile
  <2> QED BY <2>4 DEF Promise!Next
<1>11. CASE kind[p] = "empty" /\ Goto(t, "spin")
  <2>1. pc'[t] = "spin"
    BY <1>1, <1>11 DEF Goto
  <2>2. TestOf(t)' = NoPath /\ AimOf(t)' = NoPath
    BY <2>1 DEF TestOf, AimOf
  <2> QED BY <1>2, <1>3, <1>4, <1>6, <2>1, <2>2, Unseen
<1> QED BY <1>9, <1>10, <1>11 DEF DeleteStart

\* The emptiness test of dbfs_deld, and what its cursor leaves to be deleted.
LEMMA DeldPromised ==
  ASSUME Whole, Whole', NEW t \in Threads, DeldSet(t) \/ DeldNext(t)
  PROVE  [Promise!Next]_(Promise!vars)
<1>1. /\ TypeOK /\ ScanInv(t) /\ ScanInv(t)' /\ pc \in [Threads -> Steps]
      /\ loc \in [Threads -> Paths] /\ loc[t] \in Paths
      /\ pc[t] \in {"set", "next"} /\ seen' = seen /\ stable' = stable
      /\ loc[t] # NoPath
  BY NotNoPath DEF Whole, TypeOK, DeldSet, DeldNext
<1>2. \A u \in Threads \ {t} : /\ pc'[u] = pc[u] /\ loc'[u] = loc[u] /\ buf'[u] = buf[u]
                               /\ seen'[u] = seen[u] /\ stable'[u] = stable[u]
  BY <1>1, OthersStay DEF Delete, DeldSet, DeldNext, Dela
<1>3. Typed' = Typed /\ Handles' = Handles /\ pc[t] # "open"
  <2>1. Delete(t)
    BY DEF Delete
  <2> QED BY <1>1, <2>1, HandlesStay DEF DeldSet, DeldNext, tree, Typed
<1>4. /\ TestOf(t) = loc[t] /\ AimOf(t) = NoPath
  BY <1>1 DEF TestOf, AimOf
<1>5. /\ Testing' = [Testing EXCEPT ![t] = TestOf(t)']
      /\ Aims' = [Aims EXCEPT ![t] = AimOf(t)']
      /\ Listings' = [Listings EXCEPT ![t] = ListingOf(t)']
  BY <1>2, OneThread
<1>6. CASE Return(t)
  <2>1. pc'[t] = "idle"
    BY <1>1, <1>6 DEF Return, Goto
  <2>2. Promise!End(t)
    BY <1>1, <1>2, <1>3, <2>1, EndSeen
  <2> QED BY <2>2 DEF Promise!Next
<1>7. CASE DeldSet(t) /\ ~Return(t)
  <2>1. pc'[t] = "next" /\ loc'[t] = loc[t] /\ pc[t] = "set"
    BY <1>1, <1>7 DEF DeldSet, Goto
  <2>2. TestOf(t)' = TestOf(t) /\ AimOf(t)' = AimOf(t) /\ ListingOf(t)' = ListingOf(t)
    BY <1>1, <2>1 DEF TestOf, AimOf, ListingOf
  <2> QED BY <1>2, <1>3, <2>2, Unseen
<1>8. CASE DeldNext(t) /\ ~Return(t)
  <2>1. pc'[t] = "dela" /\ loc'[t] = loc[t] /\ pc[t] = "next"
    BY <1>1, <1>8 DEF DeldNext, Goto
  <2>2. TestOf(t)' = NoPath /\ ListingOf(t)' = ListingOf(t)
    BY <1>1, <2>1 DEF TestOf, ListingOf
  <2>3. Listings' = Listings
    BY <1>5, <2>2 DEF Listings
  <2>4. Testing[t] = loc[t] /\ ~(Testing[t] = NoPath)
    BY <1>1, <1>4 DEF Testing
  <2>5. \A e \in Under[loc[t]] : ~Promise!Exists(e)
    <3>1. ASSUME NEW e \in Paths, Exists(e) PROVE ~Below(e, loc[t])
      <4>1. DeleteInv /\ [Next]_vars
        BY <1>8 DEF Whole, Next, Delete
      <4> QED BY <1>1, <2>1, <3>1, <4>1, EmptyStep
    <3> QED BY <1>1, <3>1, TypedFacts DEF Under, Promise!Exists
  <2>6. AimOf(t)' \in (Paths \cup {NoPath}) \ (Under[loc[t]] \cup {Root})
    <3>1. NoPath \notin Paths /\ Root \in Paths /\ Under[loc[t]] \subseteq Paths
      BY <1>1, NotNoPath, PathsAssumption DEF Under
    <3>2. CASE buf'[t].dk_type # 1
      BY <3>1, <3>2 DEF AimOf
    <3>3. CASE buf'[t].dk_type = 1
      <4>1. buf'[t] \in Keys
        BY DEF Whole, TypeOK
      <4>2. PICK p \in Paths : buf'[t] = DentryKey(p)
        BY <3>3, <4>1 DEF Keys, FsinfoKey, NoKey, BlockKey
      <4>3. p # Root /\ ~Below(p, loc[t])
        BY <2>1, <4>2 DEF Whole, DeleteInv
      <4>4. AimOf(t)' = p
        BY <2>1, <3>3, <4>2 DEF AimOf, DentryKey
      <4> QED BY <1>1, <4>3, <4>4 DEF Under
    <3> QED BY <3>2, <3>3
  <2>7. Promise!FoundEmpty(t)
    BY <1>3, <1>5, <2>2, <2>3, <2>4, <2>5, <2>6 DEF Promise!FoundEmpty
  <2> QED BY <2>7 DEF Promise!Next
<1> QED BY <1>6, <1>7, <1>8

\* The removal itself.
LEMMA DelaPromised ==
  ASSUME Whole, Whole', NEW t \in Threads, Dela(t)
  PROVE  [Promise!Next]_(Promise!vars)
<1>1. /\ TypeOK /\ ScanInv(t) /\ ScanInv(t)' /\ pc \in [Threads -> Steps]
      /\ loc \in [Threads -> Paths] /\ buf \in [Threads -> Keys] /\ buf[t] \in Keys
      /\ stable \in [Threads -> SUBSET Paths]
      /\ kind \in [Paths -> Kinds]
      /\ pc[t] = "dela" /\ pc'[t] = "idle" /\ seen' = seen
      /\ kind' = [p \in Paths |-> IF DentryKey(p) = buf[t] THEN "none" ELSE kind[p]]
      /\ stable' = [u \in Threads |-> {p \in stable[u] : DentryKey(p) # buf[t]}]
  BY DEF Whole, TypeOK, Dela, Return, Goto
<1>2. \A u \in Threads \ {t} : /\ pc'[u] = pc[u] /\ loc'[u] = loc[u] /\ buf'[u] = buf[u]
                               /\ seen'[u] = seen[u]
  BY <1>1 DEF Dela, Return, Release, Goto
<1>8. Handles' = Handles
  <2>1. Delete(t)
    BY DEF Delete
  <2> QED BY <1>1, <2>1, HandlesStay
<1>3. TestOf(t) = NoPath /\ TestOf(t)' = NoPath /\ AimOf(t)' = NoPath
  BY <1>1 DEF TestOf, AimOf
<1>4. /\ \A u \in Threads \ {t} : TestOf(u)' = TestOf(u) /\ AimOf(u)' = AimOf(u)
      /\ Testing' = Testing /\ Aims' = [Aims EXCEPT ![t] = NoPath]
  BY <1>2, <1>3 DEF TestOf, AimOf, Testing, Aims
<1>5. stable[t] = {} /\ stable'[t] = {} /\ seen[t] = {}
  BY <1>1 DEF ScanInv
<1>6. CASE buf[t].dk_type # 1
  <2>1. \A p : DentryKey(p) # buf[t]
    BY <1>6 DEF DentryKey
  <2>2. kind' = kind /\ stable' = stable
    BY <1>1, <2>1
  <2>3. AimOf(t) = NoPath /\ ListingOf(t)' = ListingOf(t)
    BY <1>1, <1>6, <2>2 DEF AimOf, ListingOf
  <2> QED BY <1>2, <1>3, <1>8, <2>2, <2>3, Unseen DEF Typed
<1>7. CASE buf[t].dk_type = 1
  <2>1. PICK p \in Paths : buf[t] = DentryKey(p)
    BY <1>1, <1>7 DEF Keys, FsinfoKey, NoKey, BlockKey
  <2>2. AimOf(t) = p /\ Aims[t] = p /\ p # NoPath
    BY <1>1, <1>7, <2>1, NotNoPath DEF AimOf, DentryKey, Aims
  <2>3. \A q : DentryKey(q) = buf[t] <=> q = p
    BY <2>1 DEF DentryKey
  <2>4. Typed' = [Typed EXCEPT ![p] = "none"]
    BY <1>1, <2>3 DEF Typed, TypeOf
  <2>5. \A u \in Threads : ListingOf(u)' = [ListingOf(u) EXCEPT !.must = @ \ {p}]
    <3>1. \A u \in Threads : stable'[u] = stable[u] \ {p}
      BY <1>1, <2>3
    <3>2. \A u \in Threads : seen'[u] = seen[u]
      BY <1>1
    <3>3. ASSUME NEW u \in Threads \ {t}
          PROVE  ListingOf(u)' = [ListingOf(u) EXCEPT !.must = @ \ {p}]
      <4>1. pc'[u] = pc[u] /\ loc'[u] = loc[u] /\ seen'[u] = seen[u] /\ stable'[u] = stable[u] \ {p}
        BY <1>1, <1>2, <3>1, <3>3
      <4> DEFINE of == IF pc[u] \in {"scan", "done"} THEN loc[u] ELSE NoPath
      <4>2. ListingOf(u) = [of |-> of, must |-> stable[u], given |-> seen[u], over |-> pc[u] = "done"]
        BY DEF ListingOf
      <4>3. ListingOf(u)' = [of |-> of, must |-> stable[u] \ {p}, given |-> seen[u], over |-> pc[u] = "done"]
        BY <4>1 DEF ListingOf
      <4> HIDE DEF of
      <4> QED BY <4>2, <4>3, ListingLess
    <3>4. ListingOf(t)' = [ListingOf(t) EXCEPT !.must = @ \ {p}]
      <4>1. ListingOf(t).of = NoPath /\ ListingOf(t)'.of = NoPath
        BY <1>1 DEF ListingOf
      <4>2. ListingOf(t)' = Promise!NoListing /\ ListingOf(t) = Promise!NoListing
        BY <1>1, <1>5 DEF ListingOf, Promise!NoListing
      <4> DEFINE over == FALSE
      <4>3. Promise!NoListing = [of |-> NoPath, must |-> {}, given |-> {}, over |-> over]
        BY DEF Promise!NoListing
      <4> HIDE DEF over
      <4>4. [Promise!NoListing EXCEPT !.must = @ \ {p}] = Promise!NoListing
        BY <4>3, ListingLess, {} \ {p} = {}
      <4> QED BY <4>2, <4>4
    <3> QED BY <3>3, <3>4
  <2>6. Listings' = [u \in Threads |-> [Listings[u] EXCEPT !.must = @ \ {p}]]
    BY <2>5 DEF Listings
  <2>7. Promise!Remove(t)
    BY <1>4, <1>8, <2>2, <2>4, <2>6 DEF Promise!Remove
  <2> QED BY <2>7 DEF Promise!Next
<1> QED BY <1>6, <1>7

\* dbfs_dopen, one turn of dbfs_readdir, dbfs_closedir.
LEMMA ScanPromised ==
  ASSUME Whole, Whole', NEW t \in Threads, Scan(t)
  PROVE  [Promise!Next]_(Promise!vars)
<1>1. /\ TypeOK /\ ScanInv(t) /\ ScanInv(t)' /\ pc \in [Threads -> Steps]
      /\ loc \in [Threads -> Paths] /\ seen \in [Threads -> SUBSET Paths]
      /\ stable \in [Threads -> SUBSET Paths]
  BY DEF Whole, TypeOK
<1>2. \A u \in Threads \ {t} : /\ pc'[u] = pc[u] /\ loc'[u] = loc[u] /\ buf'[u] = buf[u]
                               /\ seen'[u] = seen[u] /\ stable'[u] = stable[u]
  <2>1. ~Dela(t)
    BY DEF Scan, DirOpen, ScanNext, DirClose, Dela
  <2> QED BY <1>1, <2>1, OthersStay
<1>3. kind' = kind /\ Typed' = Typed /\ Handles' = Handles /\ pc[t] # "open"
  BY <1>1, HandlesStay DEF Scan, DirOpen, ScanNext, DirClose, tree, Typed
<1>4. /\ Testing' = [Testing EXCEPT ![t] = TestOf(t)']
      /\ Aims' = [Aims EXCEPT ![t] = AimOf(t)']
      /\ Listings' = [Listings EXCEPT ![t] = ListingOf(t)']
  BY <1>2, OneThread
<1>5. /\ Testing[t] = TestOf(t) /\ Aims[t] = AimOf(t) /\ Listings[t] = ListingOf(t)
      /\ TestOf(t)' = TestOf(t) => Testing' = Testing
      /\ AimOf(t)' = AimOf(t) => Aims' = Aims
  BY <1>4 DEF Testing, Aims, Listings
<1>6. ASSUME NEW d \in Paths, DirOpen(t, d)  PROVE Promise!List(t)
  <2>1. /\ pc[t] = "idle" /\ pc'[t] = "scan" /\ loc'[t] = d /\ seen'[t] = {}
        /\ stable'[t] = {e \in Paths : kind[e] # "none" /\ ChildOf(e, d)} /\ kind[d] # "none"
    BY <1>1, <1>6 DEF DirOpen, Goto
  <2>2. stable'[t] = {e \in Children[d] : Promise!Exists(e)} /\ Promise!Exists(d)
    BY <1>1, <2>1, TypedFacts DEF Children, Promise!Exists, Exists
  <2>3. ListingOf(t)' = Promise!Begun(d)
    BY <2>1, <2>2 DEF ListingOf, Promise!Begun
  <2>4. TestOf(t)' = NoPath /\ AimOf(t)' = NoPath
    BY <2>1 DEF TestOf, AimOf
  <2>5. TestOf(t) = NoPath /\ AimOf(t) = NoPath /\ Promise!Free(t)
    BY <1>1, <2>1, UnseenIdle
  <2> QED BY <1>3, <1>4, <1>5, <2>2, <2>3, <2>4, <2>5 DEF Promise!List
<1>7. CASE ScanNext(t)
  <2>1. /\ pc[t] = "scan" /\ loc' = loc /\ buf' = buf /\ stable' = stable
        /\ pc'[t] \in {"scan", "done"} /\ loc[t] \in Paths /\ loc[t] # NoPath
    BY <1>1, <1>7, NotNoPath DEF ScanNext, Goto
  <2>2. TestOf(t)' = TestOf(t) /\ AimOf(t)' = AimOf(t)
    BY <2>1 DEF TestOf, AimOf
  <2>3. Promise!Lists(t) /\ ~Listings[t].over /\ Listings[t].of = loc[t]
        /\ Listings[t].must = stable[t] /\ Listings[t].given = seen[t]
    <3>1. /\ ListingOf(t).of = loc[t] /\ ListingOf(t).over = (pc[t] = "done")
          /\ ListingOf(t).must = stable[t] /\ ListingOf(t).given = seen[t]
      BY <2>1 DEF ListingOf
    <3> QED BY <1>5, <2>1, <3>1 DEF Promise!Lists
  <2>4. CASE pc'[t] = "done"
    <3>1. stable[t] \subseteq seen[t] /\ seen'[t] = seen[t]
      BY <1>1, <1>7, <2>1, <2>4 DEF ScanInv, ScanNext
    <3>2. ListingOf(t)' = [ListingOf(t) EXCEPT !.over = TRUE]
      <4>1. ListingOf(t)' = [of |-> loc[t], must |-> stable[t], given |-> seen[t], over |-> TRUE]
        BY <2>1, <2>4, <3>1 DEF ListingOf
      <4>2. ListingOf(t) = [of |-> loc[t], must |-> stable[t], given |-> seen[t], over |-> FALSE]
        BY <2>1 DEF ListingOf
      <4> DEFINE end == TRUE  over == FALSE
      <4>3. /\ ListingOf(t)' = [of |-> loc[t], must |-> stable[t], given |-> seen[t], over |-> end]
            /\ ListingOf(t) = [of |-> loc[t], must |-> stable[t], given |-> seen[t], over |-> over]
        BY <4>1, <4>2
      <4>4. SUFFICES ListingOf(t)' = [ListingOf(t) EXCEPT !.over = end]
        OBVIOUS
      <4> HIDE DEF end, over
      <4> QED BY <4>3, ListingOver
    <3>3. Promise!Finish(t)
      BY <1>3, <1>4, <1>5, <2>2, <2>3, <3>1, <3>2 DEF Promise!Finish
    <3> QED BY <3>3 DEF Promise!Next
  <2>5. CASE pc'[t] = "scan" /\ seen'[t] = seen[t]
    <3>1. ListingOf(t)' = ListingOf(t)
      BY <2>1, <2>5 DEF ListingOf
    <3> QED BY <1>2, <1>3, <2>2, <3>1, Unseen
  <2>6. CASE pc'[t] = "scan" /\ seen'[t] # seen[t]
    <3>1. PICK k \in Present : /\ k.dk_type = 1 /\ Reported(k.at, loc[t])
                               /\ seen' = [seen EXCEPT ![t] = @ \cup {k.at}]
      BY <1>1, <1>7, <2>6 DEF ScanNext, Goto
    <3>2. k.at \in Paths /\ Promise!Exists(k.at)
      BY <1>1, <3>1, TypedFacts DEF Present, DentryKey, BlockKey, FsinfoKey, Promise!Exists, Exists
    <3>3. k.at \in Children[loc[t]] \cup LikeNamed[loc[t]]
      BY <2>1, <3>1, <3>2, ReportedBounded DEF Children, LikeNamed
    <3>4. ListingOf(t)' = [Listings[t] EXCEPT !.given = @ \cup {k.at}]
      BY <1>1, <1>5, <2>1, <2>6, <3>1 DEF ListingOf
    <3>5. Promise!Give(t)
      BY <1>3, <1>4, <1>5, <2>2, <2>3, <3>2, <3>3, <3>4 DEF Promise!Give
    <3> QED BY <3>5 DEF Promise!Next
  <2> QED BY <2>1, <2>4, <2>5, <2>6
<1>8. CASE DirClose(t)
  <2>1. pc'[t] = "idle"
    BY <1>1, <1>8 DEF DirClose, Return, Goto
  <2>2. Promise!End(t)
    BY <1>1, <1>2, <1>3, <2>1, EndSeen
  <2> QED BY <2>2 DEF Promise!Next
<1> QED BY <1>6, <1>7, <1>8 DEF Scan, Promise!Next

\* A call that fails.
LEMMA FailPromised ==
  ASSUME Whole, Whole', NEW t \in Threads, Fail(t)
  PROVE  [Promise!Next]_(Promise!vars)
<1>1. /\ TypeOK /\ ScanInv(t) /\ ScanInv(t)' /\ pc \in [Threads -> Steps]
  BY DEF Whole, TypeOK
<1>2. \A u \in Threads \ {t} : /\ pc'[u] = pc[u] /\ loc'[u] = loc[u] /\ buf'[u] = buf[u]
                               /\ seen'[u] = seen[u] /\ stable'[u] = stable[u]
  <2>1. ~Dela(t)
    BY DEF Fail, Refused, FailReturn, Dela, Return, Goto, TypeOK, Whole
  <2> QED BY <1>1, <2>1, OthersStay
<1>3. /\ Typed' = Typed /\ pc'[t] \in {"failed", "idle"}
      /\ Handles' = Handles /\ pc[t] # "open"
  BY <1>1, HandlesStay DEF Fail, Refused, FailReturn, Goto, tree, Typed
<1> QED BY <1>1, <1>2, <1>3, EndSeen DEF Promise!Next

\* What threads do to the tree is what TreePromise allows, step by step, however
\* the calls of the threads interleave.
THEOREM PromiseTheorem == Spec => KeepsPromise
<1>1. Init => Whole
  <2>1. Init => TypeOK
    BY PathsAssumption DEF Init, TypeOK, Kinds, Keys, Steps
  <2>2. Init => RootStays /\ HandleInv /\ DeleteInv
    BY PathsAssumption DEF Init, RootStays, HandleInv, DeleteInv
  <2>3. Init => \A t \in Threads : ScanInv(t)
    BY DEF Init, ScanInv
  <2> QED BY <2>1, <2>2, <2>3 DEF Whole
<1>2. Whole /\ [Next]_vars => Whole'
  <2> SUFFICES ASSUME Whole, [Next]_vars  PROVE Whole'
    OBVIOUS
  <2>1. TypeOK'
    BY TypeStep DEF Whole
  <2>2. RootStays' /\ HandleInv' /\ DeleteInv'
    BY RootStep, HandleStep, DeleteStep DEF Whole
  <2>3. \A t \in Threads : ScanInv(t)'
    BY <2>1, ScanStep DEF Whole
  <2> QED BY <2>1, <2>2, <2>3 DEF Whole
<1>3. Init => Promise!Init
  <2> SUFFICES ASSUME Init  PROVE Promise!Init
    OBVIOUS
  <2>1. Typed = [p \in Paths |-> IF p = Root THEN "dir" ELSE "none"]
    BY DEF Init, Typed, TypeOf
  <2>2. \A t \in Threads : /\ TestOf(t) = NoPath /\ AimOf(t) = NoPath
                           /\ ListingOf(t) = Promise!NoListing /\ HandleOf(t) = Promise!NoHandle
    BY DEF Init, TestOf, AimOf, ListingOf, HandleOf, Promise!NoListing, Promise!NoHandle
  <2> QED BY <2>1, <2>2 DEF Promise!Init, Testing, Aims, Listings, Handles
<1>4. Whole /\ Whole' /\ [Next]_vars => [Promise!Next]_(Promise!vars)
  <2> SUFFICES ASSUME Whole, Whole', [Next]_vars  PROVE [Promise!Next]_(Promise!vars)
    OBVIOUS
  <2>1. ASSUME NEW t \in Threads, Delete(t)  PROVE [Promise!Next]_(Promise!vars)
    <3>1. CASE Spin(t)
      <4>1. /\ TestOf(t)' = TestOf(t) /\ AimOf(t)' = AimOf(t) /\ ListingOf(t)' = ListingOf(t)
            /\ Typed' = Typed /\ Handles' = Handles
        BY <3>1, <2>1, HandlesStay DEF Whole, Spin, TestOf, AimOf, ListingOf, Typed
      <4>2. UNCHANGED Promise!vars
        BY <3>1, <4>1, Unseen DEF Spin
      <4> QED BY <4>2
    <3> QED BY <2>1, <3>1, DeleteStartPromised, DeldPromised, DelaPromised DEF Delete
  <2>2. CASE UNCHANGED vars
    BY <2>2 DEF vars, Promise!vars, Typed, Testing, Aims, Listings, Handles, TestOf, AimOf,
       ListingOf, HandleOf
  <2> QED BY <2>1, <2>2, FillPromised, UsePromised, ScanPromised, FailPromised DEF Next
<1> QED BY <1>1, <1>2, <1>3, <1>4, PTL DEF Spec, KeepsPromise, Promise!Spec

-----------------------------------------------------------------------------
(* The order is total, and what follows for a sorted listing *)

\* A set of natural numbers has a least one.
LEMMA LeastNat ==
  ASSUME NEW T \in SUBSET Nat, T # {}
  PROVE  \E x \in T : \A y \in T : x <= y
<1> DEFINE R == OpToRel(<, Nat)
<1>1. IsWellFoundedOn(R, Nat)
  BY NatLessThanWellFounded
<1>2. \A x, y \in Nat : x < y => <<x, y>> \in R
  BY DEF OpToRel
<1> HIDE DEF R
<1>3. PICK x \in T : \A y \in T : ~(<<y, x>> \in R)
  BY <1>1, WFMin
<1>4. \A y \in T : x <= y
  <2> TAKE y \in T
  <2>1. x \in Nat /\ y \in Nat /\ ~(y < x)
    BY <1>2, <1>3
  <2> QED BY <2>1
<1> QED BY <1>4

\* Of two locators one sorts below the other, unless they are the same.
LEMMA LessTotal ==
  ASSUME NEW s \in Seq(Nat), NEW e \in Seq(Nat)
  PROVE  s = e \/ Less(s, e) \/ Less(e, s)
<1>1. /\ \A j \in 1 .. Len(s) : s[j] \in Nat
      /\ \A j \in 1 .. Len(e) : e[j] \in Nat
      /\ Len(s) \in Nat /\ Len(e) \in Nat
  OBVIOUS
<1> DEFINE Shorter == IF Len(s) < Len(e) THEN Len(s) ELSE Len(e)
           Differ == {j \in 1 .. Shorter : s[j] # e[j]}
<1>2. CASE Differ = {}
  <2>1. \A j \in 1 .. Shorter : s[j] = e[j]
    BY <1>2
  <2>2. CASE Len(s) = Len(e)
    BY <1>1, <2>1, <2>2
  <2>3. CASE Len(s) < Len(e)
    <3>1. StartsWith(e, s)
      BY <1>1, <2>1, <2>3 DEF StartsWith
    <3> QED BY <1>1, <2>3, <3>1, PrefixLess
  <2>4. CASE Len(e) < Len(s)
    <3>1. StartsWith(s, e)
      BY <1>1, <2>1, <2>4 DEF StartsWith
    <3> QED BY <1>1, <2>4, <3>1, PrefixLess
  <2> QED BY <1>1, <2>2, <2>3, <2>4
<1>3. CASE Differ # {}
  <2>1. Differ \in SUBSET Nat
    BY <1>1
  <2>2. PICK i \in Differ : \A j \in Differ : i <= j
    BY <1>3, <2>1, LeastNat
  <2>3. /\ i \in 1 .. Len(s) /\ i \in 1 .. Len(e) /\ s[i] # e[i]
        /\ \A j \in 1 .. i - 1 : s[j] = e[j]
    BY <1>1, <2>2
  <2>4. CASE s[i] < e[i]
    <3>1. i <= Len(s) + 1 /\ \A j \in 1 .. i - 1 : s[j] = e[j]
      BY <1>1, <2>3
    <3> QED BY <2>3, <2>4, <3>1 DEF Less
  <2>5. CASE e[i] < s[i]
    <3>1. i <= Len(e) + 1 /\ \A j \in 1 .. i - 1 : e[j] = s[j]
      BY <1>1, <2>3
    <3> QED BY <2>3, <2>5, <3>1 DEF Less
  <2> QED BY <1>1, <2>3, <2>4, <2>5
<1> QED BY <1>2, <1>3

\* No locator sorts below itself.
LEMMA LessIrreflexive ==
  ASSUME NEW s \in Seq(Nat)
  PROVE  ~Less(s, s)
BY DEF Less

\* dbfs_bt_compare orders the keys totally: a B-tree over it is searched and
\* walked in one order only, whichever two keys Berkeley DB compares.
THEOREM KeyOrderTheorem ==
  ASSUME NEW k \in Keys, NEW l \in Keys, NEW m \in Keys
  PROVE  /\ ~KeyLess(k, k)
         /\ k = l \/ KeyLess(k, l) \/ KeyLess(l, k)
         /\ KeyLess(k, l) /\ KeyLess(l, m) => KeyLess(k, m)
<1>1. \A x \in Keys : /\ x = [dk_type |-> x.dk_type, at |-> x.at]
                      /\ x.dk_type \in Nat /\ x.at \in Seq(Nat)
  <2>1. FirstBlock \in [Paths -> Seq(Nat)] /\ \A p \in Paths : p \in Seq(Nat)
    BY PathsAssumption DEF Codes
  <2>2. \A n \in Nat, s \in Seq(Nat) :
          LET x == [dk_type |-> n, at |-> s]
          IN  x = [dk_type |-> x.dk_type, at |-> x.at] /\ x.dk_type \in Nat /\ x.at \in Seq(Nat)
    OBVIOUS
  <2>3. ASSUME NEW x \in Keys
        PROVE  \E n \in Nat, s \in Seq(Nat) : x = [dk_type |-> n, at |-> s]
    <3>1. CASE x = FsinfoKey \/ x = NoKey
      BY <3>1, <<>> \in Seq(Nat) DEF FsinfoKey, NoKey
    <3>2. CASE \E p \in Paths : x = DentryKey(p)
      BY <2>1, <3>2 DEF DentryKey
    <3>3. CASE \E b \in Blocks : x = BlockKey(b)
      BY <2>1, <3>3 DEF BlockKey, Blocks
    <3> QED BY <3>1, <3>2, <3>3 DEF Keys
  <2> QED BY <2>2, <2>3
<1>2. ~KeyLess(k, k)
  BY <1>1, LessIrreflexive DEF KeyLess
<1>3. k = l \/ KeyLess(k, l) \/ KeyLess(l, k)
  <2>1. CASE k.dk_type = l.dk_type
    <3>1. k.at = l.at \/ Less(k.at, l.at) \/ Less(l.at, k.at)
      BY <1>1, LessTotal
    <3> QED BY <1>1, <2>1, <3>1 DEF KeyLess
  <2>2. CASE k.dk_type # l.dk_type
    BY <1>1, <2>2 DEF KeyLess
  <2> QED BY <2>1, <2>2
<1>4. KeyLess(k, l) /\ KeyLess(l, m) => KeyLess(k, m)
  BY <1>1, LessTransitive DEF KeyLess
<1> QED BY <1>2, <1>3, <1>4

\* The entries of a directory stand before the locator that ends its listing:
\* dbfs_readdir loses none by stopping there.  (OrderAssumption of MangooReaddir.)
THEOREM ListingOrderTheorem ==
  ASSUME NEW d \in Paths, NEW e \in Paths, NEW f \in Paths,
         Less(d, f), PlaceIn(e, d) = "entry", PlaceIn(f, d) = "outside"
  PROVE  Less(e, f)
<1>1. /\ d \in Seq(Codes) /\ e \in Seq(Codes) /\ f \in Seq(Codes)
      /\ d \in Seq(Nat) /\ e \in Seq(Nat) /\ f \in Seq(Nat)
  BY PathFacts, CodesAreNat
<1>2. d # Root /\ ~StartsWith(f, d) /\ StartsWith(e, d)
  BY DEF PlaceIn, ScanStops
<1>3. e # f
  BY <1>2
<1>4. ~Less(f, e)
  BY <1>1, <1>2, PrefixRange
<1> QED BY <1>1, <1>3, <1>4, LessTotal
=============================================================================
