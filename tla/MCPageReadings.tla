--------------------------- MODULE MCPageReadings ---------------------------
(***************************************************************************)
(* Three pages of two filings, so that two errors can be one filing's or   *)
(* two filings'.                                                           *)
(***************************************************************************)
EXTENDS PageReadings, TLC

CONSTANTS p1, p2, p3, f1, f2, answer, q1, q2

MCPages == {p1, p2, p3}
MCFilingOf == (p1 :> f1) @@ (p2 :> f1) @@ (p3 :> f2)
SameFiling == Permutations({p1, p2})

=============================================================================
