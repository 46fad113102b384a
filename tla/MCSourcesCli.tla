---------------------------- MODULE MCSourcesCli ----------------------------
(***************************************************************************)
(* basic_fields (bf) with its relation, and the IRS master file (bmf), a   *)
(* file of a direct server that the identity statements read from staging. *)
(***************************************************************************)
EXTENDS SourcesCli, TLC

CONSTANTS bf, bmf, cur, me, refresh

MCStaging == {bf, bmf}
MCRelations == {cur}
MCStagingInputs == cur :> {bf}
MCReadsCurrent == cur :> {}
MCTempReads == cur :> {}
MCBuilders == {me, refresh}
MCStatements == <<{cur}, {bmf, cur}>>

Whole(i) == {i} \X (1 .. Batches)
Loaded(t) == [kind |-> "ingest", table |-> t, version |-> 1, status |-> "success"]
PatchRun == [kind |-> "patch", table |-> None, version |-> None, status |-> "success"]

(* A database whose run log is `done`, basic_fields loaded by run 1 into   *)
(* `now` with its relation built from that.                                *)
Database(done, now, patch, bmfRows, bmfRun) ==
  /\ rows = (bf :> now) @@ (bmf :> bmfRows)
  /\ stamp = (bf :> [run |-> 1, patch |-> patch]) @@ (bmf :> [run |-> bmfRun, patch |-> 0])
  /\ runs = [i \in RunIds |-> IF i \in DOMAIN done THEN done[i] ELSE UnusedRun]
  /\ loader = [i \in RunIds |-> IF i \in DOMAIN done /\ done[i] # PatchRun
                                THEN [step |-> "done", sent |-> Batches]
                                ELSE [step |-> "none", sent |-> 0]]
  /\ patcher = [step |-> "idle", purge |-> [t \in Patched |-> {}]]
  /\ built = cur :> [id |-> 1, from |-> bf :> {now}, rules |-> 0]
  /\ relStamp = cur :> [id |-> 1, entries |-> bf :> stamp[bf], rules |-> 0]
  /\ builds = 1
  /\ builder = [b \in Builders |-> Idle]
  /\ rules = 0
  /\ command = CommandOver

(* Both sources loaded and basic_fields patched: one more load or patch,   *)
(* beside a canonical build.  The runs basic_fields can hold rows of have  *)
(* ids above the batch load's, or below it.                                *)
InUse ==
  /\ CanonInit /\ below \in {{}, {1, 4}}
  /\ Database(<<Loaded(bf), Loaded(bmf), PatchRun>>,
              [EmptyTable EXCEPT !.loaded = Whole(1), !.patch = 3, !.purged = Whole(1)], 3,
              [EmptyTable EXCEPT !.loaded = Whole(2)], 2)

(* The master file not yet loaded: two more runs, after the canonical    *)
(* builds there are have failed for want of it.                            *)
Starting ==
  /\ below = {}
  /\ canon = CanonIdle
  /\ canonRows = [k \in CanonIds |-> [status |-> "failed", seen |-> <<>>]]
  /\ identity = [build |-> 0, from |-> CanonIdle.from, current |-> {}]
  /\ Database(<<Loaded(bf), PatchRun>>,
              [EmptyTable EXCEPT !.loaded = Whole(1), !.patch = 2, !.purged = Whole(1)], 2,
              NoTable, 0)

MCInit == InUse \/ Starting

InUseSpec == MCInit /\ [][CliNext]_cliVars

=============================================================================
