------------------------- MODULE MangooReaddirProofs -------------------------
(***************************************************************************)
(* Proofs about MangooReaddir for any number of records, any sizes of      *)
(* locators and of pages.                                                  *)
(***************************************************************************)
EXTENDS MangooReaddir, TLAPS

-----------------------------------------------------------------------------
(* The inductive invariants *)

\* The cursor is at or behind every key that was given, refused or dropped, and
\* a saved name is of a key that was not given yet.
KeysPlaced ==
  /\ \A k \in Keys : k > cur.pos => k \notin log.got \cup log.missed \cup InPage
  /\ log.filled \subseteq 1 .. cur.pos
  /\ dir.saved # None => dir.saved.name \in 1 .. cur.pos /\ dir.saved.name \notin log.filled

\* mf_readdir's count is past every offset it ever gave to the kernel.
OffsetInv ==
  /\ \A i \in 1 .. Len(page) : page[i].off < dir.cur_off
  /\ fpos # 0 => fpos < dir.cur_off
  /\ NothingSkipped

\* In a listing that was not begun again no name is saved while a page is
\* filled, and the offset of a saved one is the count.
SavedInv ==
  /\ log.lost > 0 \/ dir.saved # None \/ log.rewound => dir.cur_off > 0
  /\ ~log.rewound /\ dir.saved # None => pc # "scan" /\ dir.saved.off = dir.cur_off
  /\ SavedFreed

\* An entry that the cursor has passed is in one place.
PlacedOnce(k) ==
  \/ k \in log.got /\ k \notin log.missed /\ k \notin InPage
  \/ k \notin log.got /\ k \in log.missed /\ k \notin InPage
  \/ k \notin log.got /\ k \notin log.missed /\ k \in InPage

Plain == ~log.rewound /\ ~log.wild

ExactInv ==
  /\ log.stable \subseteq {k \in present : Kind[k] = "entry"}
  /\ pc \in {"closed", "ready", "end"} => page = <<>>
  /\ ~log.wild => ~cur.isroot
  /\ Plain =>
       /\ \A k \in log.stable : k <= cur.pos => PlacedOnce(k)
       /\ pc = "end" => \A k \in log.stable : k <= cur.pos

-----------------------------------------------------------------------------
(* Types and pages *)

LEMMA KeysAreNat == Keys \subseteq Nat /\ Keys \subseteq Names /\ Dot \notin Keys /\ DotDot \notin Keys
BY KindAssumption, NameAssumption DEF Keys, Names

\* What is in a page after one entry more.
LEMMA AppendedPage ==
  ASSUME NEW e \in Entry, page \in Seq(Entry), page' = Append(page, e)
  PROVE  /\ page' \in Seq(Entry) /\ page' # <<>> /\ Len(page') = Len(page) + 1
         /\ InPage' = InPage \cup {e.name}
         /\ \A i \in 1 .. Len(page') : page'[i] = IF i <= Len(page) THEN page[i] ELSE e
<1>1. page' \in Seq(Entry) /\ page' # <<>> /\ Len(page') = Len(page) + 1  OBVIOUS
<1>2. \A i \in 1 .. Len(page') : page'[i] = IF i <= Len(page) THEN page[i] ELSE e  OBVIOUS
<1>3. Len(page) \in Nat  OBVIOUS
<1>4. \A x : x \in InPage' <=> x \in InPage \cup {e.name}
  <2>1. ASSUME NEW x, x \in InPage'  PROVE x \in InPage \cup {e.name}
    <3>1. PICK i \in 1 .. Len(page') : page'[i].name = x  BY <2>1 DEF InPage
    <3> QED  BY <1>1, <1>2, <1>3, <3>1 DEF InPage
  <2>2. ASSUME NEW x \in InPage  PROVE x \in InPage'
    <3>1. PICK i \in 1 .. Len(page) : page[i].name = x  BY <2>2 DEF InPage
    <3>2. i \in 1 .. Len(page') /\ page'[i].name = x  BY <1>1, <1>2, <1>3, <3>1
    <3> QED  BY <3>2 DEF InPage
  <2>3. e.name \in InPage'
    <3>1. Len(page) + 1 \in 1 .. Len(page') /\ page'[Len(page) + 1] = e  BY <1>1, <1>2, <1>3
    <3> QED  BY <3>1 DEF InPage
  <2> QED  BY <2>1, <2>2, <2>3
<1> QED  BY <1>1, <1>2, <1>4

\* The names in a page are names.
LEMMA PageNames == TypeOK => InPage \subseteq Names
<1> SUFFICES ASSUME TypeOK, NEW x \in InPage  PROVE x \in Names  OBVIOUS
<1>1. PICK i \in 1 .. Len(page) : x = page[i].name  BY DEF InPage
<1>2. page[i] \in Entry  BY DEF TypeOK
<1> QED  BY <1>1, <1>2 DEF Entry

LEMMA EmptyPage == page = <<>> => InPage = {}
BY DEF InPage

LogType == [stable : SUBSET Keys, filled : SUBSET Names, twice : SUBSET Names, got : SUBSET Names,
            missed : SUBSET Names, rewound : BOOLEAN, wild : BOOLEAN, odd : Nat, lost : Nat]

\* The parts of the type invariant, one by one.
LEMMA Types ==
  ASSUME TypeOK
  PROVE  /\ present \subseteq Keys /\ pc \in {"closed", "ready", "scan", "given", "end", "dead"}
         /\ cur \in Cursor /\ dir \in Dir /\ page \in Seq(Entry) /\ fpos \in Nat
         /\ log \in LogType
BY DEF TypeOK, LogType

LEMMA TypesMeet ==
  ASSUME present' \subseteq Keys, pc' \in {"closed", "ready", "scan", "given", "end", "dead"},
         cur' \in Cursor, dir' \in Dir, page' \in Seq(Entry), fpos' \in Nat,
         log' \in LogType, pc' = "given" => page' # <<>>
  PROVE  TypeOK'
BY DEF TypeOK, LogType

\* What mf_readdir does to the handle's fields,
LEMMA InitsearchType ==
  ASSUME cur \in Cursor, Initsearch
  PROVE  /\ cur' \in Cursor /\ cur'.pos = cur.pos /\ pc' \in {"scan", "dead"}
         /\ cur'.size = cur.size /\ cur'.own = cur.own /\ cur'.seen = cur.seen
         /\ cur.own => ~cur'.isroot /\ pc' = "scan"
<1>1. \/ cur' = [cur EXCEPT !.isroot = FALSE] /\ pc' = "scan"
      \/ ~cur.own /\ cur' = [cur EXCEPT !.isroot = TRUE] /\ pc' = "scan"
      \/ ~cur.own /\ cur' = cur /\ pc' = "dead"
  BY DEF Initsearch
<1> QED  BY <1>1 DEF Cursor

\* and a step of the cursor.
LEMMA AtType ==
  ASSUME cur \in Cursor, NEW k \in Keys, At(k)
  PROVE  /\ cur' \in Cursor /\ cur'.pos = k /\ cur.pos < k /\ cur'.isroot = cur.isroot
         /\ cur'.size = Size[k] /\ cur'.seen = cur.seen \cup {k}
         /\ cur'.own # cur.own => cur.size < Size[k]
<1>1. PICK own \in {cur.own, Size[k] <= cur.size /\ cur.own} :
        cur' = [cur EXCEPT !.pos = k, !.size = Size[k], !.own = own, !.seen = @ \cup {k}]
  BY DEF At, ReturnKey
<1>2. own \in BOOLEAN  BY <1>1 DEF Cursor
<1>3. k \in 0 .. Last /\ Size[k] \in Nat /\ cur.size \in Nat
  BY SizeAssumption, KindAssumption DEF Keys, Cursor
<1>4. cur.pos < k  BY DEF At
<1>5. cur.seen \cup {k} \in SUBSET Keys  BY DEF Cursor
<1>6. own # cur.own => cur.size < Size[k]
  <2>1. CASE Size[k] <= cur.size  BY <1>1, <2>1 DEF Cursor
  <2>2. CASE ~(Size[k] <= cur.size)  BY <1>3, <2>2
  <2> QED  BY <2>1, <2>2
<1>7. /\ cur'.pos = k /\ cur'.size = Size[k] /\ cur'.own = own /\ cur'.seen = cur.seen \cup {k}
      /\ cur'.isroot = cur.isroot /\ cur' \in Cursor
  BY <1>1, <1>2, <1>3, <1>5 DEF Cursor
<1> QED  BY <1>4, <1>6, <1>7

\* The changes of struct mf_dir.
LEMMA DirTypes ==
  ASSUME dir \in Dir, NEW n \in Nat, NEW m \in Nat
  PROVE  /\ Counted(dir, n) \in Dir
         /\ [Counted(dir, n) EXCEPT !.starting_off = m] \in Dir
         /\ [Forgotten(dir) EXCEPT !.starting_off = m] \in Dir
         /\ [Forgotten(Counted(dir, n)) EXCEPT !.starting_off = m] \in Dir
         /\ \A e \in Entry : [dir EXCEPT !.saved = e] \in Dir
<1>1. dir.cur_off \in Nat /\ dir.starting_off \in Nat /\ dir.saved \in Entry \cup {None}
  BY DEF Dir
<1>2. dir.cur_off + n \in Nat  BY <1>1
<1> QED  BY <1>1, <1>2 DEF Dir, Counted, Forgotten

\* The history of a name that is given.
LEMMA FillsType ==
  ASSUME log \in LogType, NEW name \in Names
  PROVE  /\ Fills(name) \in LogType
         /\ Fills(name).filled = log.filled \cup {name}
         /\ Fills(name).twice = log.twice \cup ({name} \cap log.filled)
         /\ Fills(name).stable = log.stable /\ Fills(name).got = log.got
         /\ Fills(name).missed = log.missed /\ Fills(name).lost = log.lost
         /\ Fills(name).rewound = log.rewound /\ Fills(name).wild = log.wild
BY DEF LogType, Fills

\* An opening and a close begin with nothing.
LEMMA NewType ==
  ASSUME present \subseteq Keys
  PROVE  /\ NewCursor \in Cursor /\ NewDir \in Dir
         /\ NewLog \in LogType /\ [NewLog EXCEPT !.stable = {}] \in LogType
<1>1. NewCursor \in Cursor  BY KindAssumption, SizeAssumption DEF NewCursor, Cursor
<1>2. NewDir \in Dir  BY DEF NewDir, Dir
<1>3. NewLog \in LogType  BY DEF NewLog, LogType
<1>4. [NewLog EXCEPT !.stable = {}] \in LogType  BY <1>3 DEF LogType
<1> QED  BY <1>1, <1>2, <1>3, <1>4

LEMMA NewLogFields ==
  ASSUME present \subseteq Keys, NEW l, l \in {NewLog, [NewLog EXCEPT !.stable = {}]}
  PROVE  /\ l.filled = {} /\ l.twice = {} /\ l.got = {} /\ l.missed = {}
         /\ ~l.rewound /\ ~l.wild /\ l.lost = 0
<1>1. /\ NewLog.filled = {} /\ NewLog.twice = {} /\ NewLog.got = {} /\ NewLog.missed = {}
      /\ ~NewLog.rewound /\ ~NewLog.wild /\ NewLog.lost = 0
  BY DEF NewLog
<1>2. NewLog \in LogType  BY NewType
<1>3. CASE l = NewLog  BY <1>1, <1>3
<1>4. CASE l = [NewLog EXCEPT !.stable = {}]  BY <1>1, <1>2, <1>4 DEF LogType
<1> QED  BY <1>3, <1>4

LEMMA TypeStep == TypeOK /\ [Next]_vars => TypeOK'
<1> SUFFICES ASSUME TypeOK, [Next]_vars  PROVE TypeOK'  OBVIOUS
<1> USE Types
<1>1. ASSUME NEW k \in Keys, Change(k)  PROVE TypeOK'
  <2>1. log' \in LogType /\ UNCHANGED <<pc, cur, dir, page, fpos>>  BY <1>1 DEF Change, LogType
  <2>2. present' \subseteq Keys  BY <1>1 DEF Change
  <2> QED  BY <2>1, <2>2 DEF TypeOK, LogType
<1>2. CASE OpenDir \/ ReleaseDir
  <2>1. /\ pc' \in {"ready", "closed", "dead"} /\ cur' = NewCursor /\ dir' = NewDir /\ page' = <<>>
        /\ fpos' = 0 /\ present' = present
    BY <1>2 DEF OpenDir, ReleaseDir
  <2>2. log' \in LogType  BY <1>2, NewType DEF OpenDir, ReleaseDir
  <2> QED  BY <2>1, <2>2, NewType, TypesMeet
<1>3. CASE BeginPage
  <2>1. /\ page' = <<[name |-> Dot, off |-> dir.cur_off], [name |-> DotDot, off |-> dir.cur_off + 1]>>
        /\ dir' = [Counted(dir, 2) EXCEPT !.starting_off = 2]
        /\ log' = [log EXCEPT !.rewound = dir.cur_off # 0, !.wild = @ \/ ~cur.own]
        /\ UNCHANGED <<present, fpos>>
    BY <1>3 DEF BeginPage
  <2>2. page' \in Seq(Entry)
    <3>1. dir.cur_off \in Nat /\ dir.cur_off + 1 \in Nat  BY DEF Dir
    <3>2. /\ [name |-> Dot, off |-> dir.cur_off] \in Entry
          /\ [name |-> DotDot, off |-> dir.cur_off + 1] \in Entry
      BY <3>1 DEF Entry, Names
    <3> QED  BY <2>1, <3>2
  <2>3. dir' \in Dir  BY <2>1, DirTypes
  <2>4. log' \in LogType  BY <2>1 DEF LogType
  <2>5. cur' \in Cursor /\ pc' \in {"scan", "dead"}  BY <1>3, InitsearchType DEF BeginPage
  <2> QED  BY <2>1, <2>2, <2>3, <2>4, <2>5, TypesMeet
<1>4. CASE ResumePage
  <2>1. cur' \in Cursor /\ pc' \in {"scan", "dead"} /\ UNCHANGED <<present, fpos>>
    BY <1>4, InitsearchType DEF ResumePage
  <2>2. CASE SavedMatches(fpos)
    <3>1. dir.saved \in Entry /\ dir.cur_off \in Nat  BY <2>2 DEF SavedMatches, Dir
    <3>2. /\ page' = <<[name |-> dir.saved.name, off |-> dir.cur_off]>>
          /\ dir' = [Forgotten(Counted(dir, 1)) EXCEPT !.starting_off = fpos + 1]
          /\ log' = [Fills(dir.saved.name) EXCEPT !.wild = @ \/ ~cur.own]
      BY <1>4, <2>2 DEF ResumePage
    <3>3. [name |-> dir.saved.name, off |-> dir.cur_off] \in Entry  BY <3>1 DEF Entry
    <3>4. dir' \in Dir
      <4>1. fpos + 1 \in Nat  OBVIOUS
      <4> QED  BY <3>2, <4>1, DirTypes
    <3>5. log' \in LogType
      <4>1. Fills(dir.saved.name) \in LogType  BY <3>1, FillsType DEF Entry
      <4> QED  BY <3>2, <4>1 DEF LogType
    <3>6. page' \in Seq(Entry)  BY <3>2, <3>3
    <3> QED  BY <2>1, <3>4, <3>5, <3>6, TypesMeet
  <2>3. CASE ~SavedMatches(fpos)
    <3>1. /\ page' = <<>> /\ dir' = [Forgotten(dir) EXCEPT !.starting_off = fpos]
          /\ log' = [log EXCEPT !.wild = @ \/ ~cur.own]
      BY <1>4, <2>3 DEF ResumePage
    <3>2. dir' \in Dir  BY <3>1, DirTypes
    <3>3. log' \in LogType  BY <3>1 DEF LogType
    <3> QED  BY <2>1, <3>1, <3>2, <3>3, TypesMeet
  <2> QED  BY <2>2, <2>3
<1>5. CASE ScanLast  BY <1>5 DEF ScanLast, PageDone, TypeOK
<1>6. ASSUME NEW k \in Keys, ScanOver(k)  PROVE TypeOK'
  <2>1. UNCHANGED <<present, dir, page, fpos, log>> /\ cur' \in Cursor  BY <1>6, AtType DEF ScanOver
  <2>2. pc' \in {"scan", "end"} \/ (pc' = "given" /\ page # <<>>)  BY <1>6 DEF ScanOver, PageDone
  <2> QED  BY <2>1, <2>2, TypesMeet
<1>7. ASSUME NEW k \in Keys, Fill(k)  PROVE TypeOK'
  <2>1. cur' \in Cursor /\ UNCHANGED <<present, pc, fpos>> /\ pc = "scan"  BY <1>7, AtType DEF Fill
  <2>2. dir' \in Dir
    <3>1. dir' = Counted(dir, 1)  BY <1>7 DEF Fill
    <3> QED  BY <3>1, DirTypes
  <2>3. CASE Wanted
    <3>1. page' = Append(page, [name |-> k, off |-> dir.cur_off]) /\ log' = Fills(k)
      BY <1>7, <2>3 DEF Fill
    <3>2. [name |-> k, off |-> dir.cur_off] \in Entry  BY KeysAreNat DEF Entry, Dir
    <3>3. page' \in Seq(Entry)  BY <3>1, <3>2
    <3>4. log' \in LogType  BY <3>1, KeysAreNat, FillsType
    <3> QED  BY <2>1, <2>2, <3>3, <3>4, TypesMeet
  <2>4. CASE ~Wanted
    <3>1. UNCHANGED <<page, log>>  BY <1>7, <2>4 DEF Fill
    <3> QED  BY <2>1, <2>2, <3>1, TypesMeet
  <2> QED  BY <2>3, <2>4
<1>8. ASSUME NEW k \in Keys, Refuse(k)  PROVE TypeOK'
  <2>1. [name |-> k, off |-> dir.cur_off] \in Entry  BY KeysAreNat DEF Entry, Dir
  <2>2. dir' \in Dir
    <3>1. dir' = [dir EXCEPT !.saved = [name |-> k, off |-> dir.cur_off]]  BY <1>8 DEF Refuse
    <3> QED  BY <2>1, <3>1, DirTypes
  <2>3. cur' \in Cursor /\ UNCHANGED <<present, page, fpos>> /\ pc' = "given"
    BY <1>8, AtType DEF Refuse
  <2>4. page # <<>>  BY <1>8, PageAssumption DEF Refuse
  <2>5. log' = [log EXCEPT !.missed = @ \cup {k}, !.lost = IF dir.saved # None THEN @ + 1 ELSE @]
    BY <1>8 DEF Refuse
  <2>6. log' \in LogType
    <3> DEFINE n == IF dir.saved # None THEN log.lost + 1 ELSE log.lost
    <3>1. n \in Nat /\ log.missed \cup {k} \in SUBSET Names  BY KeysAreNat DEF LogType
    <3>2. log' = [log EXCEPT !.missed = @ \cup {k}, !.lost = n]  BY <2>5 DEF LogType
    <3> HIDE DEF n
    <3> QED  BY <3>1, <3>2 DEF LogType
  <2> QED  BY <2>2, <2>3, <2>4, <2>6, TypesMeet
<1>9. CASE ScanFail
  <2>1. log' = [log EXCEPT !.missed = @ \cup InPage, !.odd = @ + 1]  BY <1>9 DEF ScanFail
  <2>2. log' \in LogType
    <3>1. log.missed \cup InPage \in SUBSET Names /\ log.odd + 1 \in Nat  BY PageNames DEF LogType
    <3> QED  BY <2>1, <3>1 DEF LogType
  <2>3. UNCHANGED <<present, cur, dir, fpos>> /\ pc' = "ready" /\ page' = <<>>  BY <1>9 DEF ScanFail
  <2> QED  BY <2>2, <2>3, TypesMeet
<1>10. ASSUME NEW n \in 1 .. MaxPage, Take(n)  PROVE TypeOK'
  <2> DEFINE taken == {page[i].name : i \in 1 .. n}
  <2>1. n \in 1 .. Len(page) /\ page[n] \in Entry  BY <1>10 DEF Take
  <2>2. taken \subseteq InPage  BY <2>1 DEF InPage
  <2>3. log' = [log EXCEPT !.got = @ \cup taken, !.missed = @ \cup (InPage \ taken)]
    BY <1>10 DEF Take
  <2>4. taken \subseteq Names /\ InPage \ taken \subseteq Names  BY <2>2, PageNames
  <2> HIDE DEF taken
  <2>5. log' \in LogType  BY <2>3, <2>4 DEF LogType
  <2>6. UNCHANGED <<present, cur, dir>> /\ pc' = "ready" /\ page' = <<>> /\ fpos' = page[n].off
    BY <1>10 DEF Take
  <2>7. fpos' \in Nat  BY <2>1, <2>6 DEF Entry
  <2> QED  BY <2>5, <2>6, <2>7, TypesMeet
<1>11. CASE Rewind
  <2>1. log' \in LogType  BY <1>11 DEF Rewind, LogType
  <2>2. UNCHANGED <<present, cur, dir, page>> /\ fpos' = 0 /\ pc' = "ready"  BY <1>11 DEF Rewind
  <2> QED  BY <2>1, <2>2, TypesMeet
<1>12. CASE UNCHANGED vars  BY <1>12 DEF vars, TypeOK
<1> QED  BY <1>1, <1>2, <1>3, <1>4, <1>5, <1>6, <1>7, <1>8, <1>9, <1>10, <1>11, <1>12
         DEF Next, Continue

LEMMA TypeInit == Init => TypeOK
<1> SUFFICES ASSUME Init  PROVE TypeOK  OBVIOUS
<1>1. present \subseteq Keys /\ cur = NewCursor /\ dir = NewDir /\ log = [NewLog EXCEPT !.stable = {}]
  BY DEF Init
<1>2. cur \in Cursor /\ dir \in Dir /\ log \in LogType  BY <1>1, NewType
<1> QED  BY <1>1, <1>2 DEF Init, TypeOK, LogType

\* Every variable keeps its type, for any directory and any size of pages: a page
\* that goes to the kernel is never empty, unless the listing is over.
THEOREM TypeCorrect == Spec => []TypeOK
BY TypeInit, TypeStep, PTL DEF Spec

-----------------------------------------------------------------------------
(* The count of mf_readdir *)

\* A page of one or two entries.
LEMMA ShortPage ==
  ASSUME NEW e, NEW f
  PROVE  /\ page' = <<e>> => Len(page') = 1 /\ page'[1] = e /\ InPage' = {e.name}
         /\ page' = <<e, f>> =>
              Len(page') = 2 /\ page'[1] = e /\ page'[2] = f /\ InPage' = {e.name, f.name}
<1>1. ASSUME page' = <<e>>  PROVE InPage' = {e.name}
  <2>1. Len(page') = 1 /\ page'[1] = e  BY <1>1
  <2>2. 1 .. 1 = {1}  OBVIOUS
  <2> QED  BY <2>1, <2>2 DEF InPage
<1>2. ASSUME page' = <<e, f>>  PROVE InPage' = {e.name, f.name}
  <2>1. Len(page') = 2 /\ page'[1] = e /\ page'[2] = f  BY <1>2
  <2>2. 1 .. 2 = {1, 2}  OBVIOUS
  <2> QED  BY <2>1, <2>2 DEF InPage
<1> QED  BY <1>1, <1>2

\* A step that neither counts less, nor adds to the page, nor starts a scan.
LEMMA OffsetKept ==
  ASSUME OffsetInv, page' \in {page, <<>>}, UNCHANGED <<dir, fpos>>, pc' = pc \/ pc' # "scan"
  PROVE  OffsetInv'
<1>1. Len(<<>>) = 0  OBVIOUS
<1>2. \A i \in 1 .. Len(page') : page'[i].off < dir'.cur_off
  <2>1. CASE page' = page  BY <2>1 DEF OffsetInv
  <2>2. CASE page' = <<>>  BY <1>1, <2>2
  <2> QED  BY <2>1, <2>2
<1> QED  BY <1>2 DEF OffsetInv, NothingSkipped, Wanted

LEMMA OffsetStep == TypeOK /\ OffsetInv /\ [Next]_vars => OffsetInv'
<1> SUFFICES ASSUME TypeOK, OffsetInv, [Next]_vars  PROVE OffsetInv'  OBVIOUS
<1> USE Types
<1>0. dir.cur_off \in Nat  BY DEF Dir
<1>1. CASE (\E k \in Keys : Change(k) \/ ScanOver(k)) \/ ScanLast \/ ScanFail \/ UNCHANGED vars
  <2>1. page' \in {page, <<>>} /\ UNCHANGED <<dir, fpos>> /\ (pc' = pc \/ pc' # "scan")
    BY <1>1 DEF Change, ScanOver, ScanLast, ScanFail, PageDone, vars
  <2> QED  BY <2>1, OffsetKept
<1>2. CASE OpenDir \/ ReleaseDir \/ Rewind
  <2>1. fpos' = 0 /\ pc' # "scan" /\ (page' = <<>> \/ (page' = page /\ dir' = dir))
    BY <1>2 DEF OpenDir, ReleaseDir, Rewind
  <2>2. \A i \in 1 .. Len(page') : page'[i].off < dir'.cur_off
    <3>1. Len(<<>>) = 0  OBVIOUS
    <3>2. CASE page' = <<>>  BY <3>1, <3>2
    <3>3. CASE page' = page /\ dir' = dir  BY <3>3 DEF OffsetInv
    <3> QED  BY <2>1, <3>2, <3>3
  <2> QED  BY <2>1, <2>2 DEF OffsetInv, NothingSkipped
<1>3. CASE BeginPage
  <2>1. /\ page' = <<[name |-> Dot, off |-> dir.cur_off], [name |-> DotDot, off |-> dir.cur_off + 1]>>
        /\ dir' = [Counted(dir, 2) EXCEPT !.starting_off = 2] /\ fpos' = 0
    BY <1>3 DEF BeginPage
  <2>2. dir'.cur_off = dir.cur_off + 2 /\ dir'.starting_off = 2  BY <2>1 DEF Counted, Dir
  <2>3. \A i \in 1 .. Len(page') : page'[i].off < dir'.cur_off
    <3>1. Len(page') = 2 /\ page'[1].off = dir.cur_off /\ page'[2].off = dir.cur_off + 1  BY <2>1
    <3>2. \A i \in 1 .. 2 : i = 1 \/ i = 2  OBVIOUS
    <3> QED  BY <1>0, <2>2, <3>1, <3>2
  <2> QED  BY <1>0, <2>1, <2>2, <2>3 DEF OffsetInv, NothingSkipped, Wanted
<1>4. CASE ResumePage
  <2>1. fpos' = fpos /\ fpos < dir.cur_off  BY <1>4 DEF ResumePage, OffsetInv
  <2>2. CASE SavedMatches(fpos)
    <3>1. /\ page' = <<[name |-> dir.saved.name, off |-> dir.cur_off]>>
          /\ dir' = [Forgotten(Counted(dir, 1)) EXCEPT !.starting_off = fpos + 1]
      BY <1>4, <2>2 DEF ResumePage
    <3>2. dir'.cur_off = dir.cur_off + 1 /\ dir'.starting_off = fpos + 1
      BY <3>1 DEF Counted, Forgotten, Dir
    <3>3. Len(page') = 1 /\ page'[1].off = dir.cur_off  BY <3>1
    <3>4. \A i \in 1 .. Len(page') : page'[i].off < dir'.cur_off
      BY <1>0, <3>2, <3>3
    <3> QED  BY <1>0, <2>1, <3>2, <3>4 DEF OffsetInv, NothingSkipped, Wanted
  <2>3. CASE ~SavedMatches(fpos)
    <3>1. page' = <<>> /\ dir' = [Forgotten(dir) EXCEPT !.starting_off = fpos]
      BY <1>4, <2>3 DEF ResumePage
    <3>2. dir'.cur_off = dir.cur_off /\ dir'.starting_off = fpos  BY <3>1 DEF Forgotten, Dir
    <3>3. Len(page') = 0  BY <3>1
    <3>4. \A i \in 1 .. Len(page') : page'[i].off < dir'.cur_off  BY <3>3
    <3> QED  BY <1>0, <2>1, <3>2, <3>4 DEF OffsetInv, NothingSkipped, Wanted
  <2> QED  BY <2>2, <2>3
<1>5. ASSUME NEW k \in Keys, Fill(k)  PROVE OffsetInv'
  <2> DEFINE e == [name |-> k, off |-> dir.cur_off]
  <2>1. /\ dir'.cur_off = dir.cur_off + 1 /\ dir'.starting_off = dir.starting_off
        /\ UNCHANGED <<pc, fpos>>
    BY <1>5 DEF Fill, Counted, Dir
  <2>2. page' = page \/ page' = Append(page, e)  BY <1>5 DEF Fill
  <2>3. dir.starting_off \in Nat  BY DEF Dir
  <2>4. \A i \in 1 .. Len(page) : page[i].off \in Nat /\ page[i].off < dir.cur_off
    <3>1. \A i \in 1 .. Len(page) : page[i] \in Entry  OBVIOUS
    <3> QED  BY <3>1 DEF OffsetInv, Entry
  <2>5. \A i \in 1 .. Len(page') : page'[i].off < dir'.cur_off
    <3>1. CASE page' = page  BY <1>0, <2>1, <2>4, <3>1
    <3>2. CASE page' = Append(page, e)
      <4>1. Len(page') = Len(page) + 1 /\ Len(page) \in Nat  BY <3>2
      <4>2. \A i \in 1 .. Len(page') : page'[i] = IF i <= Len(page) THEN page[i] ELSE e  BY <3>2
      <4>3. e.off = dir.cur_off  OBVIOUS
      <4> HIDE DEF e
      <4> QED  BY <1>0, <2>1, <2>4, <4>1, <4>2, <4>3
    <3> QED  BY <2>2, <3>1, <3>2
  <2> QED  BY <1>0, <2>1, <2>3, <2>5 DEF OffsetInv, NothingSkipped, Wanted
<1>6. ASSUME NEW k \in Keys, Refuse(k)  PROVE OffsetInv'
  <2>1. dir'.cur_off = dir.cur_off /\ UNCHANGED <<page, fpos>> /\ pc' = "given"
    BY <1>6 DEF Refuse, Dir
  <2> QED  BY <2>1 DEF OffsetInv, NothingSkipped
<1>7. ASSUME NEW n \in 1 .. MaxPage, Take(n)  PROVE OffsetInv'
  <2>1. /\ n \in 1 .. Len(page) /\ fpos' = page[n].off /\ pc' = "ready" /\ page' = <<>>
        /\ dir' = dir
    BY <1>7 DEF Take
  <2>2. Len(page') = 0  BY <2>1
  <2>3. fpos' < dir'.cur_off  BY <2>1 DEF OffsetInv
  <2>4. \A i \in 1 .. Len(page') : page'[i].off < dir'.cur_off  BY <2>2
  <2> QED  BY <2>1, <2>3, <2>4 DEF OffsetInv, NothingSkipped
<1> QED  BY <1>1, <1>2, <1>3, <1>4, <1>5, <1>6, <1>7 DEF Next, Continue

\* No entry is counted that is not given: the count is ahead of every offset the
\* kernel can ask for, in whatever order it lists, rewinds and fails.
THEOREM SkippedTheorem == Spec => []NothingSkipped
<1>1. Init => TypeOK /\ OffsetInv
  <2> SUFFICES ASSUME Init  PROVE OffsetInv  BY TypeInit
  <2>1. page = <<>> /\ fpos = 0 /\ pc = "closed"  BY DEF Init
  <2>2. Len(page) = 0  BY <2>1
  <2>3. \A i \in 1 .. Len(page) : page[i].off < dir.cur_off  BY <2>2
  <2> QED  BY <2>1, <2>3 DEF OffsetInv, NothingSkipped
<1>2. TypeOK /\ OffsetInv /\ [Next]_vars => (TypeOK /\ OffsetInv)'  BY TypeStep, OffsetStep
<1>3. OffsetInv => NothingSkipped  BY DEF OffsetInv
<1> QED  BY <1>1, <1>2, <1>3, PTL DEF Spec

-----------------------------------------------------------------------------
(* Keys and the cursor *)

\* What a step of the cursor leaves behind it.
LEMMA PlacedStep == TypeOK /\ KeysPlaced /\ log.twice = {} /\ [Next]_vars => KeysPlaced' /\ log'.twice = {}
<1> SUFFICES ASSUME TypeOK, KeysPlaced, log.twice = {}, [Next]_vars
             PROVE  KeysPlaced' /\ log'.twice = {}
  OBVIOUS
<1> USE Types
<1>0. cur.pos \in Nat /\ \A k \in Keys : k \in Nat  BY KeysAreNat DEF Cursor
<1>1. ASSUME UNCHANGED <<dir, page>>, log'.filled = log.filled, log'.twice = log.twice,
             log'.got = log.got, log'.missed = log.missed,
             cur'.pos \in Nat, cur.pos <= cur'.pos
      PROVE  KeysPlaced' /\ log'.twice = {}
  <2>1. InPage' = InPage  BY <1>1 DEF InPage
  <2>2. 1 .. cur.pos \subseteq 1 .. cur'.pos  BY <1>0, <1>1
  <2>3. \A k \in Keys : k > cur'.pos => k > cur.pos  BY <1>0, <1>1
  <2> QED  BY <1>1, <2>1, <2>2, <2>3 DEF KeysPlaced
<1>2. CASE (\E k \in Keys : Change(k)) \/ ScanLast \/ Rewind \/ UNCHANGED vars
  <2>1. /\ UNCHANGED <<cur, dir, page>> /\ log'.filled = log.filled /\ log'.twice = log.twice
        /\ log'.got = log.got /\ log'.missed = log.missed
    BY <1>2 DEF Change, ScanLast, Rewind, vars, LogType
  <2>2. cur.pos <= cur'.pos  BY <1>0, <2>1
  <2> QED  BY <1>0, <1>1, <2>1, <2>2
<1>3. ASSUME NEW k \in Keys, ScanOver(k)  PROVE KeysPlaced' /\ log'.twice = {}
  <2>1. cur'.pos = k /\ cur.pos < k  BY <1>3, AtType DEF ScanOver
  <2>2. UNCHANGED <<dir, page, log>>  BY <1>3 DEF ScanOver
  <2> QED  BY <1>0, <1>1, <2>1, <2>2
<1>4. CASE OpenDir \/ ReleaseDir
  <2>1. page' = <<>> /\ dir' = NewDir /\ (log' = NewLog \/ log' = [NewLog EXCEPT !.stable = {}])
    BY <1>4 DEF OpenDir, ReleaseDir
  <2>2. InPage' = {}  BY <2>1 DEF InPage
  <2>3. log'.got = {} /\ log'.missed = {} /\ log'.filled = {} /\ log'.twice = {}
    BY <2>1, NewLogFields
  <2>4. dir'.saved = None  BY <2>1 DEF NewDir
  <2> QED  BY <2>2, <2>3, <2>4 DEF KeysPlaced
<1>5. CASE BeginPage
  <2>1. /\ page' = <<[name |-> Dot, off |-> dir.cur_off], [name |-> DotDot, off |-> dir.cur_off + 1]>>
        /\ dir'.saved = dir.saved /\ cur'.pos = cur.pos
        /\ log'.filled = log.filled /\ log'.twice = log.twice
        /\ log'.got = log.got /\ log'.missed = log.missed
    BY <1>5, InitsearchType DEF BeginPage, Counted, Dir, LogType
  <2>2. InPage' = {Dot, DotDot}  BY <2>1, ShortPage
  <2> QED  BY <2>1, <2>2, KeysAreNat DEF KeysPlaced
<1>6. CASE ResumePage
  <2>1. cur'.pos = cur.pos  BY <1>6, InitsearchType DEF ResumePage
  <2>2. CASE SavedMatches(fpos)
    <3>1. dir.saved # None /\ dir.saved \in Entry  BY <2>2 DEF SavedMatches, Dir
    <3>2. dir.saved.name \in 1 .. cur.pos /\ dir.saved.name \notin log.filled
      BY <3>1 DEF KeysPlaced
    <3>3. /\ page' = <<[name |-> dir.saved.name, off |-> dir.cur_off]>>
          /\ dir'.saved = None /\ log' = [Fills(dir.saved.name) EXCEPT !.wild = @ \/ ~cur.own]
      BY <1>6, <2>2 DEF ResumePage, Forgotten, Counted, Dir
    <3>4. InPage' = {dir.saved.name}  BY <3>3, ShortPage
    <3>5. /\ log'.filled = log.filled \cup {dir.saved.name}
          /\ log'.twice = log.twice \cup ({dir.saved.name} \cap log.filled)
          /\ log'.got = log.got /\ log'.missed = log.missed
      <4>1. dir.saved.name \in Names  BY <3>1 DEF Entry
      <4>2. Fills(dir.saved.name) \in LogType  BY <4>1, FillsType
      <4>3. /\ log'.filled = Fills(dir.saved.name).filled /\ log'.twice = Fills(dir.saved.name).twice
            /\ log'.got = Fills(dir.saved.name).got /\ log'.missed = Fills(dir.saved.name).missed
        BY <3>3, <4>2 DEF LogType
      <4> QED  BY <4>1, <4>3, FillsType
    <3>6. \A k \in Keys : k > cur.pos => k # dir.saved.name  BY <1>0, <3>2
    <3> QED  BY <2>1, <3>2, <3>3, <3>4, <3>5, <3>6 DEF KeysPlaced
  <2>3. CASE ~SavedMatches(fpos)
    <3>1. page' = <<>> /\ dir'.saved = None /\ log' = [log EXCEPT !.wild = @ \/ ~cur.own]
      BY <1>6, <2>3 DEF ResumePage, Forgotten, Dir
    <3>2. InPage' = {}  BY <3>1 DEF InPage
    <3>3. /\ log'.filled = log.filled /\ log'.twice = log.twice
          /\ log'.got = log.got /\ log'.missed = log.missed
      BY <3>1 DEF LogType
    <3> QED  BY <2>1, <3>1, <3>2, <3>3 DEF KeysPlaced
  <2> QED  BY <2>2, <2>3
<1>7. ASSUME NEW k \in Keys, Fill(k)  PROVE KeysPlaced' /\ log'.twice = {}
  <2>1. cur'.pos = k /\ cur.pos < k  BY <1>7, AtType DEF Fill
  <2>2. dir'.saved = dir.saved  BY <1>7 DEF Fill, Counted, Dir
  <2>3. CASE Wanted
    <3> DEFINE e == [name |-> k, off |-> dir.cur_off]
    <3>1. page' = Append(page, e) /\ log' = Fills(k)  BY <1>7, <2>3 DEF Fill
    <3>2. e \in Entry /\ e.name = k  BY KeysAreNat DEF Entry, Dir
    <3> HIDE DEF e
    <3>3. InPage' = InPage \cup {k}  BY <3>1, <3>2, AppendedPage
    <3>4. /\ log'.filled = log.filled \cup {k} /\ log'.twice = log.twice \cup ({k} \cap log.filled)
          /\ log'.got = log.got /\ log'.missed = log.missed
      BY <3>1, KeysAreNat, FillsType
    <3>5. k \notin log.filled  BY <1>0, <2>1 DEF KeysPlaced
    <3>6. 1 .. cur.pos \subseteq 1 .. k /\ k \in 1 .. k /\ k \notin 1 .. cur.pos
      BY <1>0, <2>1 DEF Keys
    <3>7. \A j \in Keys : j > k => j > cur.pos /\ j # k  BY <1>0, <2>1
    <3> QED  BY <2>1, <2>2, <3>3, <3>4, <3>5, <3>6, <3>7 DEF KeysPlaced
  <2>4. CASE ~Wanted
    <3>1. UNCHANGED <<page, log>>  BY <1>7, <2>4 DEF Fill
    <3>2. InPage' = InPage  BY <3>1 DEF InPage
    <3>3. 1 .. cur.pos \subseteq 1 .. k  BY <1>0, <2>1
    <3>4. \A j \in Keys : j > k => j > cur.pos  BY <1>0, <2>1
    <3> QED  BY <2>1, <2>2, <3>1, <3>2, <3>3, <3>4 DEF KeysPlaced
  <2> QED  BY <2>3, <2>4
<1>8. ASSUME NEW k \in Keys, Refuse(k)  PROVE KeysPlaced' /\ log'.twice = {}
  <2>1. cur'.pos = k /\ cur.pos < k  BY <1>8, AtType DEF Refuse
  <2>2. dir'.saved.name = k /\ page' = page  BY <1>8 DEF Refuse, Dir
  <2>3. /\ log'.filled = log.filled /\ log'.twice = log.twice
        /\ log'.got = log.got /\ log'.missed = log.missed \cup {k}
    BY <1>8 DEF Refuse, LogType
  <2>4. InPage' = InPage  BY <2>2 DEF InPage
  <2>5. 1 .. cur.pos \subseteq 1 .. k /\ k \in 1 .. k /\ k \notin 1 .. cur.pos
    BY <1>0, <2>1 DEF Keys
  <2>6. \A j \in Keys : j > k => j > cur.pos /\ j # k  BY <1>0, <2>1
  <2> QED  BY <2>1, <2>2, <2>3, <2>4, <2>5, <2>6 DEF KeysPlaced
<1>9. CASE ScanFail
  <2>1. page' = <<>> /\ UNCHANGED <<cur, dir>>  BY <1>9 DEF ScanFail
  <2>2. /\ log'.filled = log.filled /\ log'.twice = log.twice
        /\ log'.got = log.got /\ log'.missed = log.missed \cup InPage
    BY <1>9 DEF ScanFail, LogType
  <2>3. InPage' = {}  BY <2>1 DEF InPage
  <2> QED  BY <2>1, <2>2, <2>3 DEF KeysPlaced
<1>10. ASSUME NEW n \in 1 .. MaxPage, Take(n)  PROVE KeysPlaced' /\ log'.twice = {}
  <2> DEFINE taken == {page[i].name : i \in 1 .. n}
  <2>1. taken \subseteq InPage  BY <1>10 DEF Take, InPage
  <2>2. log' = [log EXCEPT !.got = @ \cup taken, !.missed = @ \cup (InPage \ taken)]
    BY <1>10 DEF Take
  <2>3. page' = <<>> /\ UNCHANGED <<cur, dir>>  BY <1>10 DEF Take
  <2> HIDE DEF taken
  <2>4. /\ log'.filled = log.filled /\ log'.twice = log.twice
        /\ log'.got = log.got \cup taken /\ log'.missed = log.missed \cup (InPage \ taken)
    BY <2>2 DEF LogType
  <2>5. InPage' = {}  BY <2>3 DEF InPage
  <2> QED  BY <2>1, <2>3, <2>4, <2>5 DEF KeysPlaced
<1> QED  BY <1>2, <1>3, <1>4, <1>5, <1>6, <1>7, <1>8, <1>9, <1>10 DEF Next, Continue

\* Since the cursor only moves on, no key is given twice: not by a rewind, a
\* removal and creation, an error, or a saved name.
THEOREM TwiceTheorem == Spec => []NoneTwice
<1>1. Init => TypeOK /\ KeysPlaced /\ log.twice = {}
  <2> SUFFICES ASSUME Init  PROVE KeysPlaced /\ log.twice = {}  BY TypeInit
  <2>1. page = <<>> /\ dir.saved = None  BY DEF Init, NewDir
  <2>2. log.got = {} /\ log.missed = {} /\ log.filled = {} /\ log.twice = {}
    BY DEF Init, NewLog
  <2>3. InPage = {}  BY <2>1, EmptyPage
  <2> QED  BY <2>1, <2>2, <2>3 DEF KeysPlaced
<1>2. TypeOK /\ KeysPlaced /\ log.twice = {} /\ [Next]_vars => (TypeOK /\ KeysPlaced /\ log.twice = {})'
  BY TypeStep, PlacedStep
<1>3. log.twice = {} => NoneTwice  BY DEF NoneTwice
<1> QED  BY <1>1, <1>2, <1>3, PTL DEF Spec

-----------------------------------------------------------------------------
(* Saved names *)

\* A step that saves and forgets nothing and starts no scan.
LEMMA SavedKept ==
  ASSUME SavedInv, dir'.saved = dir.saved, dir'.cur_off = dir.cur_off,
         log'.lost = log.lost, log'.rewound = log.rewound, pc' = pc \/ pc' # "scan"
  PROVE  SavedInv'
BY DEF SavedInv, SavedFreed

LEMMA SavedStep == TypeOK /\ OffsetInv /\ SavedInv /\ [Next]_vars => SavedInv'
<1> SUFFICES ASSUME TypeOK, OffsetInv, SavedInv, [Next]_vars  PROVE SavedInv'  OBVIOUS
<1> USE Types
<1>0. dir.cur_off \in Nat /\ log.lost \in Nat  BY DEF Dir, LogType
<1>1. CASE \/ \E k \in Keys : Change(k) \/ ScanOver(k)
           \/ ScanLast \/ ScanFail \/ Rewind \/ UNCHANGED vars
  <2>1. /\ dir' = dir /\ log'.lost = log.lost /\ log'.rewound = log.rewound
        /\ pc' = pc \/ pc' # "scan"
    BY <1>1 DEF Change, ScanOver, ScanLast, ScanFail, Rewind, PageDone, vars, LogType
  <2> QED  BY <2>1, SavedKept
<1>2. CASE OpenDir \/ ReleaseDir
  <2>1. dir' = NewDir /\ (log' = NewLog \/ log' = [NewLog EXCEPT !.stable = {}])
    BY <1>2 DEF OpenDir, ReleaseDir
  <2>2. dir'.saved = None  BY <2>1 DEF NewDir
  <2>3. log'.lost = 0 /\ ~log'.rewound  BY <2>1, NewLogFields
  <2> QED  BY <2>2, <2>3 DEF SavedInv, SavedFreed
<1>3. CASE BeginPage
  <2>1. dir'.cur_off = dir.cur_off + 2 /\ dir'.saved = dir.saved
    BY <1>3 DEF BeginPage, Counted, Dir
  <2>2. log'.lost = log.lost /\ (log'.rewound <=> dir.cur_off # 0)
    BY <1>3 DEF BeginPage, LogType
  <2>3. dir'.cur_off > 0  BY <1>0, <2>1
  <2>4. ~log'.rewound => dir'.saved = None /\ log'.lost = 0
    BY <1>0, <2>1, <2>2 DEF SavedInv
  <2> QED  BY <2>3, <2>4 DEF SavedInv, SavedFreed
<1>4. CASE ResumePage
  <2>1. dir'.saved = None /\ (dir'.cur_off = dir.cur_off \/ dir'.cur_off = dir.cur_off + 1)
    <3>1. CASE SavedMatches(fpos)
      <4>1. dir' = [Forgotten(Counted(dir, 1)) EXCEPT !.starting_off = fpos + 1]
        BY <1>4, <3>1 DEF ResumePage
      <4> QED  BY <4>1 DEF Forgotten, Counted, Dir
    <3>2. CASE ~SavedMatches(fpos)
      <4>1. dir' = [Forgotten(dir) EXCEPT !.starting_off = fpos]  BY <1>4, <3>2 DEF ResumePage
      <4> QED  BY <4>1 DEF Forgotten, Dir
    <3> QED  BY <3>1, <3>2
  <2>2. log'.lost = log.lost /\ log'.rewound = log.rewound
    <3>1. CASE SavedMatches(fpos)
      <4>1. dir.saved.name \in Names  BY <3>1 DEF SavedMatches, Dir, Entry
      <4>2. log' = [Fills(dir.saved.name) EXCEPT !.wild = @ \/ ~cur.own]  BY <1>4, <3>1 DEF ResumePage
      <4>3. Fills(dir.saved.name) \in LogType  BY <4>1, FillsType
      <4>4. log'.lost = Fills(dir.saved.name).lost /\ log'.rewound = Fills(dir.saved.name).rewound
        BY <4>2, <4>3 DEF LogType
      <4> QED  BY <4>1, <4>4, FillsType
    <3>2. CASE ~SavedMatches(fpos)  BY <1>4, <3>2 DEF ResumePage, LogType
    <3> QED  BY <3>1, <3>2
  <2>3. log'.lost > 0 \/ log'.rewound => dir'.cur_off > 0
    <3>1. dir.cur_off > 0 => dir'.cur_off > 0  BY <1>0, <2>1
    <3> QED  BY <2>2, <3>1 DEF SavedInv
  <2> QED  BY <2>1, <2>2, <2>3 DEF SavedInv, SavedFreed
<1>5. ASSUME NEW k \in Keys, Fill(k)  PROVE SavedInv'
  <2>1. dir'.cur_off = dir.cur_off + 1 /\ dir'.saved = dir.saved /\ pc = "scan" /\ pc' = pc
    BY <1>5 DEF Fill, Counted, Dir
  <2>2. log'.lost = log.lost /\ log'.rewound = log.rewound
    <3>1. log' = log \/ log' = Fills(k)  BY <1>5 DEF Fill
    <3> QED  BY <3>1, KeysAreNat, FillsType
  <2>3. dir'.cur_off > 0  BY <1>0, <2>1
  <2> QED  BY <2>1, <2>2, <2>3 DEF SavedInv, SavedFreed
<1>6. ASSUME NEW k \in Keys, Refuse(k)  PROVE SavedInv'
  <2>1. /\ dir'.cur_off = dir.cur_off /\ dir'.saved = [name |-> k, off |-> dir.cur_off]
        /\ pc = "scan" /\ pc' = "given" /\ Wanted
    BY <1>6 DEF Refuse, Dir
  <2>2. /\ log'.rewound = log.rewound
        /\ log'.lost = IF dir.saved # None THEN log.lost + 1 ELSE log.lost
    BY <1>6 DEF Refuse, LogType
  <2>3. page # <<>>  BY <1>6, PageAssumption DEF Refuse
  <2>4. log'.lost > 0 => log.rewound  BY <1>0, <2>1, <2>2 DEF SavedInv, SavedFreed
  <2>5. dir.cur_off > 0
    <3>1. 1 \in 1 .. Len(page) /\ page[1] \in Entry  BY <2>3
    <3>2. page[1].off \in Nat /\ page[1].off < dir.cur_off  BY <3>1 DEF Entry, OffsetInv
    <3> QED  BY <1>0, <3>2
  <2> QED  BY <2>1, <2>2, <2>4, <2>5 DEF SavedInv, SavedFreed
<1>7. ASSUME NEW n \in 1 .. MaxPage, Take(n)  PROVE SavedInv'
  <2>1. /\ dir' = dir /\ log'.lost = log.lost /\ log'.rewound = log.rewound /\ pc' # "scan"
    BY <1>7 DEF Take, LogType
  <2> QED  BY <2>1, SavedKept
<1> QED  BY <1>1, <1>2, <1>3, <1>4, <1>5, <1>6, <1>7 DEF Next, Continue

LEMMA SavedInit == Init => SavedInv /\ OffsetInv
<1> SUFFICES ASSUME Init  PROVE SavedInv /\ OffsetInv  OBVIOUS
<1>1. present \subseteq Keys /\ dir.saved = None /\ page = <<>> /\ fpos = 0 /\ pc = "closed"
  BY DEF Init, NewDir
<1>2. log.lost = 0 /\ ~log.rewound  BY <1>1, NewLogFields DEF Init
<1>3. Len(page) = 0  BY <1>1
<1>4. \A i \in 1 .. Len(page) : page[i].off < dir.cur_off  BY <1>3
<1> QED  BY <1>1, <1>2, <1>4 DEF SavedInv, SavedFreed, OffsetInv, NothingSkipped

\* A name saved by mf_filler loses its memory only in a listing begun again, for
\* any sizes of pages: the next page gives it or frees it.
THEOREM SavedTheorem == Spec => []SavedFreed
<1> DEFINE IInv == TypeOK /\ OffsetInv /\ SavedInv
<1>1. Init => IInv  BY TypeInit, SavedInit
<1>2. IInv /\ [Next]_vars => IInv'  BY TypeStep, OffsetStep, SavedStep
<1>3. IInv => SavedFreed  BY DEF SavedInv
<1> QED  BY <1>1, <1>2, <1>3, PTL DEF Spec

-----------------------------------------------------------------------------
(* What the caller has at the end *)

\* A step that moves no entry from one place to another.
LEMMA ExactKept ==
  ASSUME ExactInv, log'.stable \subseteq log.stable,
         \A k \in log'.stable : k \in present' ,
         InPage' = InPage, log'.got = log.got, log'.missed = log.missed,
         log'.rewound = log.rewound, log'.wild = log.wild,
         cur'.pos = cur.pos, cur'.isroot = cur.isroot,
         pc' \in {"closed", "ready", "end"} => page' = <<>>,
         pc' = "end" => pc = "end"
  PROVE  ExactInv'
<1>1. \A k : PlacedOnce(k)' <=> PlacedOnce(k)  BY DEF PlacedOnce
<1> QED  BY <1>1 DEF ExactInv, Plain

LEMMA ExactStep ==
  TypeOK /\ OffsetInv /\ SavedInv /\ KeysPlaced /\ ExactInv /\ [Next]_vars => ExactInv'
<1> SUFFICES ASSUME TypeOK, OffsetInv, SavedInv, KeysPlaced, ExactInv, [Next]_vars  PROVE ExactInv'
  OBVIOUS
<1> USE Types
<1>0. cur.pos \in Nat /\ \A k \in Keys : k \in Nat  BY KeysAreNat DEF Cursor
<1>1. /\ log.stable \subseteq Keys
      /\ \A k \in log.stable : k \in present /\ Kind[k] = "entry"
  BY DEF LogType, ExactInv
<1>2. ASSUME NEW k \in Keys, Change(k)  PROVE ExactInv'
  <2>1. /\ UNCHANGED <<pc, cur, dir, page>> /\ log'.stable = log.stable \ {k}
        /\ log'.got = log.got /\ log'.missed = log.missed
        /\ log'.rewound = log.rewound /\ log'.wild = log.wild
    BY <1>2 DEF Change, LogType
  <2>2. \A j \in log'.stable : j \in present'  BY <1>1, <1>2, <2>1 DEF Change
  <2>3. InPage' = InPage  BY <2>1 DEF InPage
  <2> QED  BY <2>1, <2>2, <2>3, ExactKept DEF ExactInv
<1>3. CASE Rewind
  <2>1. /\ UNCHANGED <<present, cur, dir, page>> /\ log'.stable = log.stable
        /\ log'.got = log.got /\ log'.missed = log.missed /\ pc' = "ready"
        /\ log'.rewound = log.rewound /\ log'.wild = log.wild
    BY <1>3 DEF Rewind, LogType
  <2>2. page' = <<>>  BY <1>3, <2>1 DEF Rewind, ExactInv
  <2>3. InPage' = InPage  BY <2>1 DEF InPage
  <2> QED  BY <1>1, <2>1, <2>2, <2>3, ExactKept
<1>4. CASE UNCHANGED vars
  <2>1. UNCHANGED <<present, pc, cur, page, log>>  BY <1>4 DEF vars
  <2>2. InPage' = InPage  BY <2>1 DEF InPage
  <2> QED  BY <1>1, <2>1, <2>2, ExactKept DEF ExactInv
<1>5. CASE OpenDir \/ ReleaseDir
  <2>1. /\ page' = <<>> /\ cur' = NewCursor /\ present' = present /\ pc' # "end"
        /\ log' \in {NewLog, [NewLog EXCEPT !.stable = {}]}
    BY <1>5 DEF OpenDir, ReleaseDir
  <2>2. cur'.pos = 0 /\ ~cur'.isroot  BY <2>1 DEF NewCursor
  <2>3. log'.stable \subseteq {k \in present : Kind[k] = "entry"}
    <3>1. NewLog \in LogType /\ NewLog.stable = {k \in present : Kind[k] = "entry"}
      BY NewType DEF NewLog
    <3>2. [NewLog EXCEPT !.stable = {}].stable = {}  BY <3>1 DEF LogType
    <3> QED  BY <2>1, <3>1, <3>2
  <2>4. \A k \in log'.stable : ~(k <= cur'.pos)  BY <1>0, <2>2, <2>3 DEF Keys
  <2> QED  BY <2>1, <2>2, <2>3, <2>4 DEF ExactInv, Plain
<1>6. CASE BeginPage
  <2>1. /\ page' = <<[name |-> Dot, off |-> dir.cur_off], [name |-> DotDot, off |-> dir.cur_off + 1]>>
        /\ cur'.pos = cur.pos /\ (cur.own => ~cur'.isroot) /\ pc' \in {"scan", "dead"}
        /\ present' = present /\ pc = "ready"
    BY <1>6, InitsearchType DEF BeginPage
  <2>2. /\ log'.stable = log.stable /\ log'.got = log.got /\ log'.missed = log.missed
        /\ (log'.rewound <=> dir.cur_off # 0) /\ (log'.wild <=> log.wild \/ ~cur.own)
    BY <1>6 DEF BeginPage, LogType
  <2>3. InPage' = {Dot, DotDot} /\ InPage = {}
    BY <2>1, ShortPage, EmptyPage DEF ExactInv
  <2>4. Plain' => Plain
    <3>1. dir.cur_off = 0 => ~log.rewound  BY DEF SavedInv
    <3> QED  BY <2>2, <3>1 DEF Plain
  <2>5. \A k \in Keys : k \notin InPage'  BY <2>3, KeysAreNat
  <2>6. \A k \in Keys : PlacedOnce(k) => PlacedOnce(k)'  BY <2>2, <2>3, <2>5 DEF PlacedOnce
  <2> QED  BY <1>1, <2>1, <2>2, <2>4, <2>6 DEF ExactInv
<1>7. CASE ResumePage
  <2>1. /\ cur'.pos = cur.pos /\ (cur.own => ~cur'.isroot) /\ pc' \in {"scan", "dead"}
        /\ present' = present /\ pc = "ready" /\ fpos # 0
    BY <1>7, InitsearchType DEF ResumePage
  <2>2. InPage = {}  BY <2>1, EmptyPage DEF ExactInv
  <2>3. CASE SavedMatches(fpos)
    <3>1. dir.saved # None /\ dir.saved.off = fpos /\ dir.saved.name \in Names
      BY <2>3 DEF SavedMatches, Dir, Entry
    <3>2. log.rewound
      <4>1. fpos < dir.cur_off /\ dir.cur_off \in Nat  BY <2>1 DEF OffsetInv, Dir
      <4> QED  BY <3>1, <4>1 DEF SavedInv
    <3>3. /\ log'.stable = log.stable /\ log'.rewound = log.rewound
          /\ (log'.wild <=> log.wild \/ ~cur.own)
      <4>1. log' = [Fills(dir.saved.name) EXCEPT !.wild = @ \/ ~cur.own]
        BY <1>7, <2>3 DEF ResumePage
      <4>2. Fills(dir.saved.name) \in LogType  BY <3>1, FillsType
      <4>3. /\ log'.stable = Fills(dir.saved.name).stable
            /\ log'.rewound = Fills(dir.saved.name).rewound
            /\ (log'.wild <=> Fills(dir.saved.name).wild \/ ~cur.own)
        BY <4>1, <4>2 DEF LogType
      <4> QED  BY <3>1, <4>3, FillsType
    <3> QED  BY <1>1, <2>1, <3>2, <3>3 DEF ExactInv, Plain
  <2>4. CASE ~SavedMatches(fpos)
    <3>1. page' = <<>> /\ log' = [log EXCEPT !.wild = @ \/ ~cur.own]
      BY <1>7, <2>4 DEF ResumePage
    <3>2. /\ log'.stable = log.stable /\ log'.got = log.got /\ log'.missed = log.missed
          /\ log'.rewound = log.rewound /\ (log'.wild <=> log.wild \/ ~cur.own)
      BY <3>1 DEF LogType
    <3>3. InPage' = {}  BY <3>1 DEF InPage
    <3>4. \A k : PlacedOnce(k) => PlacedOnce(k)'  BY <2>2, <3>2, <3>3 DEF PlacedOnce
    <3> QED  BY <1>1, <2>1, <3>2, <3>4 DEF ExactInv, Plain
  <2> QED  BY <2>3, <2>4
<1>8. CASE ScanLast
  <2>1. UNCHANGED <<present, cur, page, log>> /\ pc' \in {"end", "given"} /\ (pc' = "end" => page = <<>>)
    BY <1>8 DEF ScanLast, PageDone
  <2>2. \A k \in log.stable : k <= cur.pos  BY <1>1, <1>8 DEF ScanLast
  <2>3. \A k : PlacedOnce(k)' <=> PlacedOnce(k)  BY <2>1 DEF PlacedOnce, InPage
  <2> QED  BY <1>1, <2>1, <2>2, <2>3 DEF ExactInv, Plain
<1>9. ASSUME NEW k \in Keys, IsNext(k), cur'.pos = k, cur.pos < k
      PROVE  \A j \in log.stable : j <= k => j = k \/ j <= cur.pos
  BY <1>0, <1>1, <1>9 DEF IsNext
<1>10. ASSUME NEW k \in Keys, ScanOver(k)  PROVE ExactInv'
  <2>1. /\ cur'.pos = k /\ cur.pos < k /\ cur'.isroot = cur.isroot /\ IsNext(k)
        /\ UNCHANGED <<present, page, log>> /\ pc = "scan"
    BY <1>10, AtType DEF ScanOver
  <2>2. \A j \in log.stable : j <= k => j = k \/ j <= cur.pos  BY <1>9, <2>1
  <2>3. \A j : PlacedOnce(j)' <=> PlacedOnce(j)  BY <2>1 DEF PlacedOnce, InPage
  <2>4. Plain => k \notin log.stable
    <3> SUFFICES ASSUME Plain  PROVE Kind[k] # "entry"  BY <1>1
    <3>1. ~cur.isroot  BY DEF ExactInv, Plain
    <3> QED  BY <1>10, <3>1 DEF ScanOver, Skipped
  <2>5. /\ pc' \in {"scan", "given", "end"} /\ (pc' = "end" => page = <<>>)
        /\ Plain /\ pc' = "end" => Kind[k] = "outside"
    BY <1>10 DEF ScanOver, PageDone, Skipped
  <2>6. Plain /\ pc' = "end" => \A j \in log.stable : j <= k
    BY <1>0, <1>1, <2>5, OrderAssumption
  <2> QED  BY <1>1, <2>1, <2>2, <2>3, <2>4, <2>5, <2>6 DEF ExactInv, Plain
<1>11. ASSUME NEW k \in Keys, Fill(k)  PROVE ExactInv'
  <2>1. /\ cur'.pos = k /\ cur.pos < k /\ cur'.isroot = cur.isroot /\ IsNext(k)
        /\ UNCHANGED <<present, pc>> /\ pc = "scan" /\ Wanted
    BY <1>11, AtType DEF Fill, OffsetInv, NothingSkipped
  <2>2. \A j \in log.stable : j <= k => j = k \/ j <= cur.pos  BY <1>9, <2>1
  <2> DEFINE e == [name |-> k, off |-> dir.cur_off]
  <2>3. page' = Append(page, e) /\ log' = Fills(k)  BY <1>11, <2>1 DEF Fill
  <2>4. e \in Entry /\ e.name = k  BY KeysAreNat DEF Entry, Dir
  <2> HIDE DEF e
  <2>5. InPage' = InPage \cup {k}  BY <2>3, <2>4, AppendedPage
  <2>6. /\ log'.stable = log.stable /\ log'.got = log.got /\ log'.missed = log.missed
        /\ log'.rewound = log.rewound /\ log'.wild = log.wild
    BY <2>3, KeysAreNat, FillsType
  <2>7. k \notin log.got \cup log.missed \cup InPage  BY <2>1 DEF KeysPlaced
  <2>8. PlacedOnce(k)'  BY <2>5, <2>6, <2>7 DEF PlacedOnce
  <2>9. \A j : j # k => (PlacedOnce(j)' <=> PlacedOnce(j))  BY <2>5, <2>6 DEF PlacedOnce
  <2> QED  BY <1>1, <2>1, <2>2, <2>6, <2>8, <2>9 DEF ExactInv, Plain
<1>12. ASSUME NEW k \in Keys, Refuse(k)  PROVE ExactInv'
  <2>1. /\ cur'.pos = k /\ cur.pos < k /\ cur'.isroot = cur.isroot /\ IsNext(k)
        /\ UNCHANGED <<present, page>> /\ pc = "scan" /\ pc' = "given"
    BY <1>12, AtType DEF Refuse
  <2>2. \A j \in log.stable : j <= k => j = k \/ j <= cur.pos  BY <1>9, <2>1
  <2>3. /\ log'.stable = log.stable /\ log'.got = log.got /\ log'.missed = log.missed \cup {k}
        /\ log'.rewound = log.rewound /\ log'.wild = log.wild
    BY <1>12 DEF Refuse, LogType
  <2>4. InPage' = InPage  BY <2>1 DEF InPage
  <2>5. k \notin log.got \cup log.missed \cup InPage  BY <2>1 DEF KeysPlaced
  <2>6. PlacedOnce(k)'  BY <2>3, <2>4, <2>5 DEF PlacedOnce
  <2>7. \A j : j # k => (PlacedOnce(j)' <=> PlacedOnce(j))  BY <2>3, <2>4 DEF PlacedOnce
  <2> QED  BY <1>1, <2>1, <2>2, <2>3, <2>6, <2>7 DEF ExactInv, Plain
<1>13. CASE ScanFail
  <2>1. UNCHANGED <<present, cur>> /\ page' = <<>> /\ pc' = "ready"  BY <1>13 DEF ScanFail
  <2>2. /\ log'.stable = log.stable /\ log'.got = log.got /\ log'.missed = log.missed \cup InPage
        /\ log'.rewound = log.rewound /\ log'.wild = log.wild
    BY <1>13 DEF ScanFail, LogType
  <2>3. InPage' = {}  BY <2>1 DEF InPage
  <2>4. \A k : PlacedOnce(k) => PlacedOnce(k)'  BY <2>2, <2>3 DEF PlacedOnce
  <2> QED  BY <1>1, <2>1, <2>2, <2>4 DEF ExactInv, Plain
<1>14. ASSUME NEW n \in 1 .. MaxPage, Take(n)  PROVE ExactInv'
  <2> DEFINE taken == {page[i].name : i \in 1 .. n}
  <2>1. taken \subseteq InPage  BY <1>14 DEF Take, InPage
  <2>2. log' = [log EXCEPT !.got = @ \cup taken, !.missed = @ \cup (InPage \ taken)]
    BY <1>14 DEF Take
  <2>3. UNCHANGED <<present, cur>> /\ page' = <<>> /\ pc' = "ready"  BY <1>14 DEF Take
  <2> HIDE DEF taken
  <2>4. /\ log'.stable = log.stable /\ log'.rewound = log.rewound /\ log'.wild = log.wild
        /\ log'.got = log.got \cup taken /\ log'.missed = log.missed \cup (InPage \ taken)
    BY <2>2 DEF LogType
  <2>5. InPage' = {}  BY <2>3 DEF InPage
  <2>6. \A k : PlacedOnce(k) => PlacedOnce(k)'  BY <2>1, <2>4, <2>5 DEF PlacedOnce
  <2> QED  BY <1>1, <2>3, <2>4, <2>6 DEF ExactInv, Plain
<1> QED  BY <1>2, <1>3, <1>4, <1>5, <1>6, <1>7, <1>8, <1>10, <1>11, <1>12, <1>13, <1>14
         DEF Next, Continue

\* At the end of a listing the caller has exactly those of the entries that were
\* there all along that no full page, error or dropped page swallowed, for any
\* directory, page size and changes meanwhile.
THEOREM ExactTheorem == Spec => []ListingExact
<1> DEFINE IInv == TypeOK /\ OffsetInv /\ SavedInv /\ KeysPlaced /\ log.twice = {} /\ ExactInv
<1>1. Init => IInv
  <2> SUFFICES ASSUME Init  PROVE KeysPlaced /\ log.twice = {} /\ ExactInv
    BY TypeInit, SavedInit
  <2>1. /\ page = <<>> /\ dir.saved = None /\ pc = "closed" /\ cur.pos = 0 /\ ~cur.isroot
        /\ present = {} /\ log = [NewLog EXCEPT !.stable = {}]
    BY DEF Init, NewDir, NewCursor
  <2>2. log.got = {} /\ log.missed = {} /\ log.filled = {} /\ log.twice = {}
    BY <2>1, NewLogFields
  <2>3. log.stable = {}
    <3>1. NewLog \in LogType  BY <2>1, NewType
    <3> QED  BY <2>1, <3>1 DEF LogType
  <2>4. InPage = {}  BY <2>1, EmptyPage
  <2> QED  BY <2>1, <2>2, <2>3, <2>4 DEF KeysPlaced, ExactInv
<1>2. IInv /\ [Next]_vars => IInv'
  BY TypeStep, OffsetStep, SavedStep, PlacedStep, ExactStep
<1>3. IInv => ListingExact
  <2> SUFFICES ASSUME IInv, pc = "end", Plain, NEW k \in log.stable
               PROVE  k \in log.got <=> k \notin log.missed
    BY DEF ListingExact, Plain
  <2>1. PlacedOnce(k)  BY DEF ExactInv
  <2>2. InPage = {}  BY EmptyPage DEF ExactInv
  <2> QED  BY <2>1, <2>2 DEF PlacedOnce
<1> QED  BY <1>1, <1>2, <1>3, PTL DEF Spec

-----------------------------------------------------------------------------
(* The memory of the key *)

\* The size at hand is the one of the last key, and the memory moved for a
\* longer one only.
OwnInv ==
  /\ cur.size = Size[cur.pos] /\ cur.pos \in cur.seen \cup {0}
  /\ ~cur.own => Grown(cur.seen)

LEMMA GrownOn ==
  ASSUME NEW S, NEW k, Grown(S)
  PROVE  Grown(S \cup {k})
BY DEF Grown

LEMMA OwnAt ==
  ASSUME TypeOK, OwnInv, NEW k \in Keys, At(k)
  PROVE  OwnInv'
<1>1. cur \in Cursor  BY Types
<1>2. /\ cur'.pos = k /\ cur'.size = Size[k] /\ cur'.seen = cur.seen \cup {k}
      /\ cur'.own # cur.own => cur.size < Size[k]
      /\ cur.pos < k
  BY <1>1, AtType
<1>3. ASSUME ~cur'.own  PROVE Grown(cur.seen \cup {k})
  <2>1. CASE cur.own
    <3>1. Size[cur.pos] < Size[k]  BY <1>2, <1>3, <2>1 DEF OwnInv
    <3> QED  BY <1>2, <3>1 DEF OwnInv, Grown
  <2>2. CASE ~cur.own  BY <2>2, GrownOn DEF OwnInv
  <2> QED  BY <2>1, <2>2
<1>4. Size' = Size  OBVIOUS
<1> QED  BY <1>2, <1>3 DEF OwnInv, Grown

LEMMA OwnStep == TypeOK /\ OwnInv /\ [Next]_vars => OwnInv'
<1> SUFFICES ASSUME TypeOK, OwnInv, [Next]_vars  PROVE OwnInv'  OBVIOUS
<1>1. cur \in Cursor  BY Types
<1>2. CASE UNCHANGED cur  BY <1>2 DEF OwnInv, Grown
<1>3. CASE OpenDir \/ ReleaseDir
  <2>1. cur' = NewCursor  BY <1>3 DEF OpenDir, ReleaseDir
  <2> QED  BY <2>1 DEF OwnInv, NewCursor
<1>4. CASE BeginPage \/ ResumePage
  <2>1. Initsearch  BY <1>4 DEF BeginPage, ResumePage
  <2>2. cur'.pos = cur.pos /\ cur'.size = cur.size /\ cur'.own = cur.own /\ cur'.seen = cur.seen
    BY <1>1, <2>1, InitsearchType
  <2> QED  BY <2>2 DEF OwnInv, Grown
<1>5. ASSUME NEW k \in Keys, ScanOver(k) \/ Fill(k) \/ Refuse(k)  PROVE OwnInv'
  <2>1. At(k)  BY <1>5 DEF ScanOver, Fill, Refuse
  <2> QED  BY <2>1, OwnAt
<1>6. CASE Rewind \/ ScanFail \/ ScanLast \/ \E n \in 1 .. MaxPage : Take(n)
  BY <1>2, <1>6 DEF Rewind, ScanFail, ScanLast, Take
<1>7. CASE (\E k \in Keys : Change(k)) \/ UNCHANGED vars
  BY <1>2, <1>7 DEF Change, vars
<1> QED  BY <1>3, <1>4, <1>5, <1>6, <1>7 DEF Next, Continue

\* Memory that is not the handle's own is what a process dies of,
LEMMA DiesOf ==
  ASSUME TypeOK, [Next]_vars, pc' = "dead", pc # "dead"
  PROVE  ~cur.own
<1>1. cur \in Cursor  BY Types
<1>2. CASE ReleaseDir  BY <1>2 DEF ReleaseDir
<1>3. CASE BeginPage \/ ResumePage
  <2>1. Initsearch  BY <1>3 DEF BeginPage, ResumePage
  <2> QED  BY <1>1, <2>1, InitsearchType
<1>4. CASE OpenDir \/ Rewind \/ ScanFail \/ ScanLast
  BY <1>4 DEF OpenDir, Rewind, ScanFail, ScanLast, PageDone
<1>5. ASSUME NEW k \in Keys, ScanOver(k) \/ Fill(k) \/ Refuse(k)  PROVE ~cur.own
  BY <1>5 DEF ScanOver, Fill, Refuse, PageDone
<1>6. CASE \E n \in 1 .. MaxPage : Take(n)  BY <1>6 DEF Take
<1>7. CASE (\E k \in Keys : Change(k)) \/ UNCHANGED vars  BY <1>7 DEF Change, vars
<1> QED  BY <1>2, <1>3, <1>4, <1>5, <1>6, <1>7 DEF Next, Continue

\* A process dies of a listing, or of its close, only when the cursor returned a
\* key longer than one before it, for any keys and any number of listings of
\* the open directory.
THEOREM DiesTheorem == Spec => DiesOnlyGrown
<1>1. Init => TypeOK /\ OwnInv
  <2> SUFFICES ASSUME Init  PROVE OwnInv  BY TypeInit
  <2>1. cur = NewCursor  BY DEF Init
  <2> QED  BY <2>1 DEF OwnInv, NewCursor
<1>2. TypeOK /\ OwnInv /\ [Next]_vars => (TypeOK /\ OwnInv)'
  BY TypeStep, OwnStep
<1>3. TypeOK /\ OwnInv /\ [Next]_vars =>
        [pc' = "dead" /\ pc # "dead" => Grown(cur.seen)]_vars
  BY DiesOf DEF OwnInv
<1> QED  BY <1>1, <1>2, <1>3, PTL DEF Spec, DiesOnlyGrown
=============================================================================
