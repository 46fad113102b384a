---------------------------- MODULE MCBatchLoad ----------------------------
(***************************************************************************)
(* A batch not loaded yet, or loaded once on one of two machines: its zip  *)
(* kept there or not, copied to our bucket or not.                         *)
(***************************************************************************)
EXTENDS BatchLoad, TLC

CONSTANTS c1, c2, old, new

MCCaches == {c1, c2}
MCConcordances == {old, new}
SameSize == [a \in Archives |-> 1]
OtherSize == [a \in Archives |-> a]
Alike == Permutations(Loaders)

First == [id |-> 1, bytes |-> 1, zip |-> 1, conc |-> old]

LoadedInit ==
  /\ served = 1
  /\ mapping = old
  /\ cache \in {[c \in Caches |-> IF c = c1 THEN [file |-> f, stamp |-> [lm |-> 1, sha |-> 1]]
                                  ELSE [file |-> NoArchive, stamp |-> NoStamp]] :
                  f \in {NoArchive, 1}}
  /\ flock = [c \in Caches |-> None]
  /\ bucket \in {[file |-> a, sha |-> a] : a \in {NoArchive, 1}}
  /\ advisory = None
  /\ rows = [p \in Parts |-> {First}]
  /\ runs = <<[id |-> 1, lm |-> 1, sha |-> 1, bytes |-> 1, conc |-> old, kind |-> "load"]>>
  /\ job = [l \in Loaders |-> Idle]
  /\ begun = 1

LoadedSpec == (LoadedInit) /\ [][Next]_vars

=============================================================================
