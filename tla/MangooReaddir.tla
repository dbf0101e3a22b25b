---------------------------- MODULE MangooReaddir ----------------------------
(***************************************************************************)
(* One directory opened through mangoofuse: mf_readdir fills a page after  *)
(* the other for the kernel, through dbfs_readdir, whose cursor only ever  *)
(* moves on, while other calls add and remove records.                     *)
(*                                                                         *)
(* The records after the directory's own are the numbers 1 .. Last in the  *)
(* order of the tree.  What dbfs_readdir does with each follows from its   *)
(* locator (PlaceIn of DbfsKeys) and is a constant here.                   *)
(***************************************************************************)
EXTENDS Naturals, Sequences

CONSTANTS
  Last,       \* keys after the directory's own
  Kind,       \* per key: "entry" (reported), "deep" (passed over), "outside" (stops)
  Size,       \* per key: its size, and at 0 the size of the directory's own
  Dot, DotDot,    \* the names "." and ".."
  None,       \* no saved name
  MinPage,    \* names that always fit into a page, "." and ".." aside
  MaxPage,    \* names that always fill it
  MaxOdd      \* bound: rewinds and failed calls of one open directory

Keys == 1 .. Last
Names == Keys \cup {Dot, DotDot}

ASSUME KindAssumption == Last \in Nat /\ Kind \in [Keys -> {"entry", "deep", "outside"}]
\* Locators that begin alike stand together, so that a key which stops the
\* listing is behind all entries (ListingOrderTheorem of DbfsDirProofs).
ASSUME OrderAssumption ==
  \A j, k \in Keys : Kind[j] = "entry" /\ Kind[k] = "outside" => j < k
ASSUME SizeAssumption == Size \in [0 .. Last -> Nat]
ASSUME NameAssumption ==
  Dot # DotDot /\ {Dot, DotDot, None} \cap Nat = {}
ASSUME PageAssumption == MinPage \in Nat \ {0} /\ MaxPage \in Nat /\ MinPage <= MaxPage
ASSUME OddAssumption == MaxOdd \in Nat

VARIABLES
  present,    \* the keys in the tree
  pc,         \* the caller and its call
  cur,        \* the handle: cursor position, ddk_size, whether attr_ddk is its own memory,
              \* and the call's isroot; history: the keys it returned
  dir,        \* struct mf_dir: cur_off, starting_off, saved_name with saved_off
  page,       \* the entries in FUSE's buffer, with the offsets they were given
  fpos,       \* the kernel's offset of the open directory
  log         \* history

vars == <<present, pc, cur, dir, page, fpos, log>>

Cursor == [pos : 0 .. Last, size : Nat, own : BOOLEAN, isroot : BOOLEAN, seen : SUBSET Keys]
Entry == [name : Names, off : Nat]
Dir == [cur_off : Nat, starting_off : Nat, saved : Entry \cup {None}]

NewCursor == [pos |-> 0, size |-> Size[0], own |-> TRUE, isroot |-> FALSE, seen |-> {}]
NewDir == [cur_off |-> 0, starting_off |-> 0, saved |-> None]
\* stable: entries there since the directory was opened; filled: put into a
\* page; twice: put into pages more than once; got: what the caller received;
\* missed: refused by a full page, or in a page (or its end) that was dropped;
\* rewound: a later call began at 0; wild: memory that is gone was read; odd
\* and lost: rewinds and failed calls; saved names never freed.
NewLog == [stable |-> {k \in present : Kind[k] = "entry"}, filled |-> {}, twice |-> {}, got |-> {},
           missed |-> {}, rewound |-> FALSE, wild |-> FALSE, odd |-> 0, lost |-> 0]

TypeOK ==
  /\ present \subseteq Keys
  /\ pc \in {"closed", "ready", "scan", "given", "end", "dead"}
  /\ cur \in Cursor /\ dir \in Dir
  /\ page \in Seq(Entry) /\ fpos \in Nat
  /\ pc = "given" => page # <<>>
  /\ log \in [stable : SUBSET Keys, filled : SUBSET Names, twice : SUBSET Names, got : SUBSET Names,
              missed : SUBSET Names, rewound : BOOLEAN, wild : BOOLEAN, odd : Nat, lost : Nat]

Init ==
  /\ present = {} /\ pc = "closed"
  /\ cur = NewCursor /\ dir = NewDir
  /\ page = <<>> /\ fpos = 0
  /\ log = [NewLog EXCEPT !.stable = {}]

InPage == {page[i].name : i \in 1 .. Len(page)}

-----------------------------------------------------------------------------
(* Other callers *)

Change(k) ==
  /\ present' \in {present \cup {k}, present \ {k}} /\ present' # present
  /\ log' = [log EXCEPT !.stable = @ \ {k}]
  /\ UNCHANGED <<pc, cur, dir, page, fpos>>

-----------------------------------------------------------------------------
(* mf_opendir, mf_releasedir *)

\* An opendir that fails leaves the structure it allocated, and nothing else.
OpenDir ==
  /\ pc = "closed"
  /\ pc' = "ready"
  /\ cur' = NewCursor /\ dir' = NewDir /\ page' = <<>> /\ fpos' = 0
  /\ log' = NewLog
  /\ UNCHANGED present

\* dbfs_closedir frees attr_ddk: fatal, or not, when it is not the handle's own.
ReleaseDir ==
  /\ pc \in {"ready", "end"}
  /\ IF cur.own THEN pc' = "closed" ELSE pc' \in {"closed", "dead"}
  /\ cur' = NewCursor /\ dir' = NewDir /\ page' = <<>> /\ fpos' = 0
  /\ log' = [NewLog EXCEPT !.stable = {}]
  /\ UNCHANGED present

-----------------------------------------------------------------------------
(* mf_readdir *)

\* The next DB_NEXT is told to use the memory at attr_ddk and compares it with
\* "/" (here the directory is not the root).  Memory that is gone may be fatal,
\* or read as anything.
Initsearch ==
  \/ /\ pc' = "scan"
     /\ cur' = [cur EXCEPT !.isroot = FALSE]
  \/ /\ ~cur.own
     /\ \/ pc' = "scan" /\ cur' = [cur EXCEPT !.isroot = TRUE]
        \/ pc' = "dead" /\ UNCHANGED cur

\* n entries were given.  A slip to catch: they are not counted.
CountedNot(d, n) == d
Counted(d, n) == [d EXCEPT !.cur_off = @ + n]

\* saved_name is freed and NULL; a slip to catch beside it: it stays.
ForgottenNot(d) == d
Forgotten(d) == [d EXCEPT !.saved = None]

Fills(name) == [log EXCEPT !.filled = @ \cup {name}, !.twice = @ \cup ({name} \cap log.filled)]

\* At offset 0 "." and ".." come first, with cur_off as it is by now; the
\* cursor, cur_off and a saved name are left alone.
BeginPage ==
  /\ pc = "ready" /\ fpos = 0
  /\ Initsearch
  /\ page' = <<[name |-> Dot, off |-> dir.cur_off], [name |-> DotDot, off |-> dir.cur_off + 1]>>
  /\ dir' = [Counted(dir, 2) EXCEPT !.starting_off = 2]
  /\ log' = [log EXCEPT !.rewound = dir.cur_off # 0, !.wild = @ \/ ~cur.own]
  /\ UNCHANGED <<present, fpos>>

\* The saved entry is the one to give first if its offset is the one asked for.
SavedMatches(offset) == dir.saved # None /\ dir.saved.off = offset

\* At another offset a saved entry is given or forgotten.
ResumePage ==
  /\ pc = "ready" /\ fpos # 0
  /\ Initsearch
  /\ IF SavedMatches(fpos)
     THEN /\ page' = <<[name |-> dir.saved.name, off |-> dir.cur_off]>>
          /\ dir' = [Forgotten(Counted(dir, 1)) EXCEPT !.starting_off = fpos + 1]
          /\ log' = [Fills(dir.saved.name) EXCEPT !.wild = @ \/ ~cur.own]
     ELSE /\ page' = <<>>
          /\ dir' = [Forgotten(dir) EXCEPT !.starting_off = fpos]
          /\ log' = [log EXCEPT !.wild = @ \/ ~cur.own]
  /\ UNCHANGED <<present, fpos>>

-----------------------------------------------------------------------------
(* dbfs_readdir, with mf_filler *)

IsNext(k) == cur.pos < k /\ k \in present /\ \A j \in present : cur.pos < j => k <= j

\* The key is returned in the memory of the last one, which is reallocated, and
\* may move, for a longer one.  Slips to catch: the cursor does not move on;
\* each key is returned in memory of its own (DB_DBT_MALLOC).
ReturnKey(k, pos, owns) ==
  \E own \in owns :
    cur' = [cur EXCEPT !.pos = pos, !.size = Size[k], !.own = own, !.seen = @ \cup {k}]
AtStays(k) == ReturnKey(k, cur.pos, {cur.own, Size[k] <= cur.size /\ cur.own})
AtElsewhere(k) == cur.pos < k /\ ReturnKey(k, k, {FALSE})
At(k) == cur.pos < k /\ ReturnKey(k, k, {cur.own, Size[k] <= cur.size /\ cur.own})

\* The page goes back to the kernel; an empty one is the end.  A slip to catch:
\* it never says so.
PageDoneNever == pc' = "given"
PageDone == pc' = IF page = <<>> THEN "end" ELSE "given"

\* No key is left.  A slip to catch: the loop goes on.
ScanLastAgain ==
  /\ pc = "scan" /\ \A k \in present : k <= cur.pos
  /\ UNCHANGED vars
ScanLast ==
  /\ pc = "scan" /\ \A k \in present : k <= cur.pos
  /\ PageDone
  /\ UNCHANGED <<present, cur, dir, page, fpos, log>>

Skipped(k) == Kind[k] = "deep" \/ cur.isroot

ScanOver(k) ==
  /\ pc = "scan" /\ IsNext(k) /\ At(k)
  /\ \/ Skipped(k) /\ UNCHANGED pc
     \/ ~Skipped(k) /\ Kind[k] = "outside" /\ PageDone
  /\ UNCHANGED <<present, dir, page, fpos, log>>

\* Entries before starting_off would be counted only.
Wanted == dir.cur_off >= dir.starting_off

\* mf_filler takes the entry: it goes into the page with the offset cur_off.
Fill(k) ==
  /\ pc = "scan" /\ IsNext(k) /\ At(k) /\ ~Skipped(k) /\ Kind[k] = "entry"
  /\ IF Wanted
     THEN /\ Len(page) < MaxPage
          /\ page' = Append(page, [name |-> k, off |-> dir.cur_off])
          /\ log' = Fills(k)
     ELSE UNCHANGED <<page, log>>
  /\ dir' = Counted(dir, 1)
  /\ UNCHANGED <<present, pc, fpos>>

\* The page is full: the name is saved, over one that was not freed, and
\* ENOBUFS ends the scan with the cursor on the entry.
Refuse(k) ==
  /\ pc = "scan" /\ IsNext(k) /\ At(k) /\ ~Skipped(k) /\ Kind[k] = "entry"
  /\ Wanted /\ Len(page) >= MinPage
  /\ dir' = [dir EXCEPT !.saved = [name |-> k, off |-> dir.cur_off]]
  /\ log' = [log EXCEPT !.missed = @ \cup {k}, !.lost = IF dir.saved # None THEN @ + 1 ELSE @]
  /\ pc' = "given"
  /\ UNCHANGED <<present, page, fpos>>

\* DB_NEXT fails: EIO, and FUSE drops what is in the page.
ScanFail ==
  /\ pc = "scan" /\ log.odd < MaxOdd
  /\ pc' = "ready" /\ page' = <<>>
  /\ log' = [log EXCEPT !.missed = @ \cup InPage, !.odd = @ + 1]
  /\ UNCHANGED <<present, cur, dir, fpos>>

-----------------------------------------------------------------------------
(* The kernel and the caller *)

\* n entries of the page fit into what the caller asked for; the next offset is
\* the one of the last.  Assumed of the kernel: its buffer has room for "." and
\* one more, so that it never stops after ".", whose offset is 0.
Take(n) ==
  /\ pc = "given" /\ n \in 1 .. Len(page)
  /\ page[n].name # Dot
  /\ LET taken == {page[i].name : i \in 1 .. n}
     IN  log' = [log EXCEPT !.got = @ \cup taken, !.missed = @ \cup (InPage \ taken)]
  /\ fpos' = page[n].off
  /\ pc' = "ready" /\ page' = <<>>
  /\ UNCHANGED <<present, cur, dir>>

Rewind ==
  /\ pc \in {"ready", "end"} /\ fpos # 0 /\ log.odd < MaxOdd
  /\ fpos' = 0 /\ pc' = "ready"
  /\ log' = [log EXCEPT !.odd = @ + 1]
  /\ UNCHANGED <<present, cur, dir, page>>

-----------------------------------------------------------------------------
Continue ==
  \/ BeginPage \/ ResumePage
  \/ ScanLast \/ \E k \in Keys : ScanOver(k) \/ Fill(k) \/ Refuse(k)
  \/ \E n \in 1 .. MaxPage : Take(n)

Next ==
  \/ OpenDir \/ ReleaseDir \/ Rewind \/ ScanFail \/ Continue
  \/ \E k \in Keys : Change(k)

Spec == Init /\ [][Next]_vars

\* The caller lists until a page is empty, and nothing in a call blocks.
FairSpec == Spec /\ WF_vars(Continue)

-----------------------------------------------------------------------------
(* Properties *)

\* What a caller has at the end of a listing, of the entries that were there
\* all along: all but those a full page refused (the entry mf_filler saves has
\* the offset after the one the kernel asks for, so that mangoofuse.c:333 never
\* matches and :337 forgets it), those it left in a page, and those of a page
\* that ended in an error; and not one of these.  A listing that was begun
\* again, or that used attr_ddk after its memory had moved, is not covered.
ListingExact ==
  pc = "end" /\ ~log.rewound /\ ~log.wild =>
    \A k \in log.stable : k \in log.got <=> k \notin log.missed

\* No key is put into a page twice, whatever is removed and created meanwhile
\* and however often the caller begins again (dir.c:110 only moves on).
NoneTwice == log.twice = {}

\* The offset the kernel asks for was reached: mf_filler never counts an entry
\* without giving it (mangoofuse.c:281).  This rests on what Take assumes of the
\* kernel, which does not ask again from the offset of "." in mid-listing.
NothingSkipped == pc = "scan" => Wanted

\* A saved name is only ever overwritten, and its memory lost, in a listing
\* that was begun again (mangoofuse.c:285, :326-331).
SavedFreed == log.lost > 0 => log.rewound

\* The process dies in a listing, or as it closes it, only when the cursor has
\* returned a key longer than one before it, the directory's own among these
\* (dir.c:102, :165): an open directory whose cursor went over ever shorter keys
\* only, however its listings ended and began again, is closed safely.
Grown(seen) == \E j \in seen \cup {0}, k \in seen : j < k /\ Size[j] < Size[k]
DiesOnlyGrown == [][pc' = "dead" /\ pc # "dead" => Grown(cur.seen)]_vars

\* A listing comes to its end, however much the directory changes meanwhile.
ListingEnds == pc = "ready" ~> pc \in {"end", "closed", "dead"}
=============================================================================
