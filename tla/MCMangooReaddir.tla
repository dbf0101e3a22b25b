--------------------------- MODULE MCMangooReaddir ---------------------------
EXTENDS MangooReaddir

K == INSTANCE DbfsKeys WITH Slash <- 2

\* "/d", and the locators "/d/a", "/d/b", "/d/cc" and "/e" behind it.
Listed == <<2, 6>>
Locators == <<Listed \o <<2, 3>>, Listed \o <<2, 4>>, Listed \o <<2, 5, 5>>, <<2, 7>> >>
ASSUME \A j, k \in Keys : j < k <=> K!Less(Locators[j], Locators[k])
ASSUME \A k \in Keys : K!Less(Listed, Locators[k])

KindOf == [k \in Keys |-> K!PlaceIn(Locators[k], Listed)]
SizeOf == [k \in 0 .. Last |-> IF k = 0 THEN Len(Listed) ELSE Len(Locators[k])]
=============================================================================
