------------------------------ MODULE DbfsKeys ------------------------------
(***************************************************************************)
(* Locators and the order of the keys of the dbfs B-tree.                  *)
(*                                                                         *)
(* A locator is the sequence of the codes of its characters, without the   *)
(* final NUL, which strcmp sorts below every character.  The key order     *)
(* (dbfs_bt_compare) puts the fsinfo record first, then the directory      *)
(* entries by locator, then the blocks by <<inode number, offset>>.        *)
(***************************************************************************)
EXTENDS Integers, Sequences

CONSTANT Slash      \* the code of '/'
ASSUME SlashAssumption == Slash \in Nat \ {0}

Codes == Nat \ {0}
Root == <<Slash>>

\* strcmp(s, t) < 0 on sequences of unsigned codes.
Less(s, t) ==
  \E i \in 1 .. Len(t) :
    /\ i <= Len(s) + 1
    /\ \A j \in 1 .. i - 1 : s[j] = t[j]
    /\ i <= Len(s) => s[i] < t[i]

\* strstr(entry, locator) == entry
StartsWith(entry, locator) ==
  /\ Len(locator) <= Len(entry)
  /\ \A i \in 1 .. Len(locator) : entry[i] = locator[i]

HasSlash(s) == \E i \in 1 .. Len(s) : s[i] = Slash

\* entry += strlen(locator), then past the slashes that follow: the position
\* of the first character of what is left (Len(entry) + 1: nothing is).
NameStart(entry, locator) ==
  CHOOSE i \in Len(locator) + 1 .. Len(entry) + 1 :
    /\ \A j \in Len(locator) + 1 .. i - 1 : entry[j] = Slash
    /\ i <= Len(entry) => entry[i] # Slash

\* The name dbfs_readdir and dbfs_deld see in entry, as they read the
\* directory locator.
NameIn(entry, locator) == SubSeq(entry, NameStart(entry, locator), Len(entry))

-----------------------------------------------------------------------------
(* What dbfs_readdir does with an entry e as it lists directory d *)

\* A slip to catch: the entries of subdirectories are not skipped.
ReportedDeep(e, d) == StartsWith(e, d) /\ NameIn(e, d) # <<>>

\* The entries dbfs_readdir gives to the filler, and those it stops at.
Reported(e, d) ==
  LET name == NameIn(e, d)
  IN  /\ IF d = Root THEN ~HasSlash(Tail(e)) ELSE StartsWith(e, d)
      /\ name # <<>> /\ ~HasSlash(name)
\* A slip to catch: a sibling that begins with the name ends the scan, though
\* "/a." comes before the entries of "/a".
ScanStopsEarly(e, d) == d # Root /\ ~StartsWith(e, d \o <<Slash>>)
ScanStops(e, d) == d # Root /\ ~StartsWith(e, d)

\* It is given to the filler, passed over, or ends the listing.
PlaceIn(e, d) ==
  IF ScanStops(e, d) THEN "outside" ELSE IF Reported(e, d) THEN "entry" ELSE "deep"

-----------------------------------------------------------------------------
(* Keys *)

FsinfoKey == [dk_type |-> 0, at |-> <<>>]
DentryKey(p) == [dk_type |-> 1, at |-> p]
BlockKey(b) == [dk_type |-> 2, at |-> b]

\* dbfs_bt_compare < 0
KeyLess(k, l) ==
  \/ k.dk_type < l.dk_type
  \/ k.dk_type = l.dk_type /\ Less(k.at, l.at)

\* l is the record a cursor at k moves to with DB_NEXT in a tree holding keys.
IsNext(keys, k, l) ==
  /\ l \in keys /\ KeyLess(k, l)
  /\ \A m \in keys : KeyLess(k, m) => m = l \/ KeyLess(l, m)
IsLast(keys, k) == \A m \in keys : ~KeyLess(k, m)

-----------------------------------------------------------------------------
(* What a directory contains (the meaning of locators, not code) *)

\* Canonical locators: the root, or names separated by single slashes.
Canonical(p) ==
  \/ p = Root
  \/ /\ Len(p) > 1 /\ p[1] = Slash /\ p[Len(p)] # Slash
     /\ \A i \in 1 .. Len(p) - 1 : ~(p[i] = Slash /\ p[i + 1] = Slash)

\* e lies below directory d, at any depth.
Below(e, d) ==
  IF d = Root THEN e # Root
  ELSE StartsWith(e, Append(d, Slash))

ChildOf(e, d) == Below(e, d) /\ ~HasSlash(NameIn(e, d))
=============================================================================
