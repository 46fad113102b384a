--------------------------- MODULE MCRecoveredLoad --------------------------
EXTENDS RecoveredLoad, TLC

CONSTANTS y1, y2, o1, o2, o3

\* Two versions of one year's return and the only return of another year.
TwoVersions == o1 :> y1 @@ o2 :> y1 @@ o3 :> y2

\* One version each.
OneVersion == o1 :> y1 @@ o3 :> y2

\* Paid amounts so close that a list of the one is within the tolerance of
\* the other.  Without a placeholder for the paid list a year's future one is
\* not asked for.
Stated == {[paid |-> 0, future |-> 0], [paid |-> 200, future |-> 0],
           [paid |-> 201, future |-> 0], [paid |-> 200, future |-> 200]}

\* An amount every placeholder is half of, and one that 201 is and 200 is not.
LineOf == {200, 402}

\* A paid list too far from either amount; one of 201, which 200 takes too;
\* lists of both targets, a paid one too far and two as far from 200.
Lists == {<<<<"paid", 203>>>>, <<<<"paid", 201>>>>,
          <<<<"paid", 203>>, <<"paid", 199>>, <<"future", 200>>, <<"paid", 201>>>>}

Alike == Permutations(Policies)
=============================================================================
