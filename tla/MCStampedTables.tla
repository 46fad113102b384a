-------------------------- MODULE MCStampedTables --------------------------
(***************************************************************************)
(* The private-foundation part of the pipeline: privategrants (pg) and     *)
(* basic_fields_pf (bf) feed the paid relation, basic_fields_pf and the    *)
(* paid relation feed the future one.                                      *)
(***************************************************************************)
EXTENDS StampedTables, TLC

CONSTANTS pg, bf, paid, future, b1, b2

MCStaging == {pg, bf}
MCRelations == {paid, future}
OnlyBf == {bf}
MCStagingInputs == [r \in Relations |-> IF r = paid THEN Staging ELSE {bf}]
MCReadsCurrent == [r \in Relations |-> IF r = paid THEN {} ELSE {paid}]
MCTempReads == [r \in Relations |-> IF r = paid THEN {bf} ELSE {bf, paid}]
MCBuilders == {b1, b2}
BuilderSymmetry == Permutations(MCBuilders)

(* Each staging table loaded once and stamped, nothing built yet: a state  *)
(* the system reaches first, so that the bounds go to what comes after.    *)
FirstLoad == (bf :> 1) @@ (pg :> 2)
Loads == Cardinality(Staging)
FirstParts(t) == {FirstLoad[t]} \X (1 .. Batches)

LoadedInit ==
  /\ rows = [t \in Staging |->
               [EmptyTable EXCEPT !.loaded = FirstParts(t),
                                  !.unique = IF t \in Deduped THEN FirstParts(t) ELSE {}]]
  /\ stamp = [t \in Staging |-> [run |-> FirstLoad[t], patch |-> 0]]
  /\ runs = [i \in RunIds |->
               IF i > Loads THEN UnusedRun
               ELSE [kind |-> "ingest", table |-> (CHOOSE t \in Staging : FirstLoad[t] = i),
                     version |-> "v1", status |-> "success"]]
  /\ loader = [i \in RunIds |-> IF i > Loads THEN [step |-> "none", sent |-> 0]
                                ELSE [step |-> "done", sent |-> Batches]]
  /\ patcher = [step |-> "idle", purge |-> [t \in Patched |-> {}]]
  /\ built = [r \in Relations |-> NoRelation]
  /\ relStamp = [r \in Relations |-> NoRelStamp]
  /\ builds = 0
  /\ builder = [b \in Builders |-> Idle]
  /\ rules = 0

LoadedSerialSpec == LoadedInit /\ [][SerialNext]_vars

=============================================================================
