--------------------------- MODULE CanonicalBuild ---------------------------
(***************************************************************************)
(* The canonical build (canonical/build.py) over the staging tables and    *)
(* relations of StampedTables: build_canonical notes the runs it starts    *)
(* from, scans the basic-fields relations for stale ones                   *)
(* (stale_basic_fields_current), rebuilds those through the same           *)
(* build_current_relations, and builds the identity tables in one          *)
(* transaction that locks what it reads and stops if a source was ingested *)
(* meanwhile.  Ingests, patches and other builders go on around it.        *)
(***************************************************************************)
EXTENDS StampedTables, Sequences, FiniteSetsExt

CONSTANTS
  Me,          \* the builder session of the canonical build
  Statements,  \* what each identity statement reads, in order: Seq(SUBSET names)
  MaxCanon     \* bound: canonical builds in a behaviour

ASSUME CanonicalAssumption ==
  /\ Me \in Builders
  /\ Statements \in Seq(SUBSET (Staging \cup Relations))
  /\ MaxCanon \in Nat
  /\ \A r \in Relations : ReadsCurrent[r] = {} /\ Cardinality(StagingInputs[r]) = 1

VARIABLES
  canon,      \* the build_canonical process
  canonRows,  \* datamart_meta.canonical_builds
  identity,   \* what the committed identity tables were built from
  below       \* runs whose id (a UUID) sorts below that of the batch load

canonVars == <<canon, canonRows, identity, below>>
tableVars == <<rows, stamp, runs, loader, patcher, built, relStamp, builds, builder, rules>>
allVars == <<tableVars, canonVars>>

CanonIds == 1 .. MaxCanon
PatchSource == "irs_extract_patch"
Sources == Staging \cup {PatchSource}

CanonIdle == [step |-> "idle", id |-> 0, todo |-> {}, stale |-> {}, done |-> 0,
              from |-> [n \in Staging \cup Relations |-> {}], current |-> {}]

(* What an identity statement reads: a staging table's rows, or a relation *)
(* with what it was built from.                                            *)
Origin(n) == IF n \in Relations THEN built[n] ELSE rows[n]

CanonInit ==
  /\ canon = CanonIdle
  /\ canonRows = [k \in CanonIds |-> [status |-> "none", seen |-> <<>>]]
  /\ identity = [build |-> 0, from |-> CanonIdle.from, current |-> {}]
  /\ below \in SUBSET RunIds

-----------------------------------------------------------------------------
(* latest_successful_run_ids: each source's latest successful run (0: it   *)
(* has none); a source's runs finish in the order they start.              *)
RunsOf(s) == {i \in RunIds : /\ runs[i].status = "success"
                             /\ IF s = PatchSource THEN runs[i].kind = "patch"
                                ELSE runs[i].kind = "ingest" /\ runs[i].table = s}

Latest == [s \in Sources |-> Max(RunsOf(s) \cup {0})]

(* The largest _ingest_run_id in a staging table's rows: the ingests' ids, *)
(* and on a patched table the batch load's, whose id is MaxRuns + 1 here.  *)
(* 0 is NULL, an empty table's.                                            *)
BatchRun == MaxRuns + 1

LargestRun(content) ==
  LET ids == {part[1] : part \in content.loaded} IN
  IF ids \ below # {} THEN Max(ids \ below)
  ELSE IF content.patch # 0 THEN BatchRun
  ELSE Max(ids \cup {0})

SourceOf(r) == CHOOSE t \in StagingInputs[r] : TRUE

(* Mutant of LooksStale: a relation that exists is taken as fresh.         *)
LooksMissing(r) == ~Exists(r)

(* The scan's comparison.  A relation keeps a row of each run its build    *)
(* read, so its largest id is the largest of the rows it was built from.   *)
LooksStale(r) ==
  \/ ~Exists(r)
  \/ \E c \in built[r].from[SourceOf(r)] : LargestRun(c) # LargestRun(rows[SourceOf(r)])

-----------------------------------------------------------------------------
(* Locks of the identity transaction: ACCESS SHARE on the basic-fields     *)
(* tables and relations from its first statement, on the other tables from *)
(* the statement that reads them, all until it ends.                       *)
Holding == canon.step \in {"locked", "identity"}

Held(n) == /\ Holding
           /\ \/ n \in Relations
              \/ \E r \in Relations : n \in StagingInputs[r]
              \/ canon.from[n] # {}

(* The other processes wait for those locks where they replace a table;   *)
(* SourcesCli composes them.                                               *)
-----------------------------------------------------------------------------
(* build_canonical reads the latest runs and inserts its started row.      *)
CanonStart(k) ==
  /\ canon.step = "idle"
  /\ canonRows[k].status = "none"
  /\ \A j \in CanonIds : j < k => canonRows[j].status # "none"
  /\ canonRows' = [canonRows EXCEPT ![k] = [status |-> "started", seen |-> Latest]]
  /\ canon' = [CanonIdle EXCEPT !.step = "scan", !.id = k, !.todo = Relations]
  /\ UNCHANGED <<tableVars, identity, below>>

(* stale_basic_fields_current, one relation's statement: both maxima in    *)
(* one snapshot.                                                           *)
CanonScan(r) ==
  /\ canon.step = "scan"
  /\ r \in canon.todo
  /\ Exists(SourceOf(r))
  /\ \A b \in Builders : ~Replacing(b, r)
  /\ canon' = [canon EXCEPT !.todo = @ \ {r},
                            !.stale = IF LooksStale(r) THEN @ \cup {r} ELSE @]
  /\ UNCHANGED <<tableVars, canonRows, identity, below>>

(* The stale relations are rebuilt first, one transaction each.            *)
CanonRebuild ==
  /\ canon.step = "scan" /\ canon.todo = {} /\ canon.stale # {}
  /\ BuildStart(Me, canon.stale)
  /\ canon' = [canon EXCEPT !.step = "rebuild"]
  /\ UNCHANGED <<canonRows, identity, below>>

CanonNothingStale ==
  /\ canon.step = "scan" /\ canon.todo = {} /\ canon.stale = {}
  /\ canon' = [canon EXCEPT !.step = "open"]
  /\ UNCHANGED <<tableVars, canonRows, identity, below>>

(* A failure: whatever is open rolls back and the row says failed.         *)
RecordFailed == canonRows' = [canonRows EXCEPT ![canon.id].status = "failed"]

CanonRebuilding ==
  /\ canon.step = "rebuild"
  /\ \/ \E r \in Relations : BuildLock(Me, r)
     \/ \E n \in Staging \cup Relations : BuildReadStamp(Me, n)
     \/ BuildTemp(Me)
     \/ BuildRows(Me)
     \/ BuildCommit(Me)
  /\ canon' = [canon EXCEPT !.step = IF builder'[Me].step = "idle" THEN "open" ELSE @]
  /\ UNCHANGED <<canonRows, identity, below>>

(* build_current_relations raises CurrentRebuildFailed, or the process     *)
(* dies in it: relations it committed stay.                                *)
CanonRebuildFails ==
  /\ canon.step = "rebuild"
  /\ BuildFail(Me)
  /\ canon' = CanonIdle
  /\ RecordFailed \/ UNCHANGED canonRows
  /\ UNCHANGED <<identity, below>>

(* _open_identity_transaction: LOCK TABLE, then the runs again.            *)
CanonLock ==
  /\ canon.step = "open"
  /\ \A r \in Relations : /\ Exists(r) /\ Exists(SourceOf(r))
                          /\ \A b \in Builders : ~Replacing(b, r)
  /\ canon' = [canon EXCEPT !.step = "locked"]
  /\ UNCHANGED <<tableVars, canonRows, identity, below>>

(* Mutant of NothingMoved: the check after the lock left out.              *)
NothingChecked == TRUE

NothingMoved == Latest = canonRows[canon.id].seen

CanonCheck ==
  /\ canon.step = "locked"
  /\ NothingMoved
  /\ canon' = [canon EXCEPT !.step = "identity",
                            !.current = {r \in Relations : RelationCurrent(r)}]
  /\ UNCHANGED <<tableVars, canonRows, identity, below>>

(* The next identity statement.                                            *)
CanonRead ==
  LET reads == Statements[canon.done + 1] IN
  /\ canon.step = "identity"
  /\ canon.done < Len(Statements)
  /\ \A n \in reads : Exists(n)
  /\ canon' = [canon EXCEPT !.done = @ + 1,
                 !.from = [n \in DOMAIN @ |->
                             IF n \in reads THEN @[n] \cup {Origin(n)} ELSE @[n]]]
  /\ UNCHANGED <<tableVars, canonRows, identity, below>>

(* The identity transaction commits; the row is updated in another.        *)
CanonCommit ==
  /\ canon.step = "identity"
  /\ canon.done = Len(Statements)
  /\ identity' = [build |-> canon.id, from |-> canon.from, current |-> canon.current]
  /\ canon' = [canon EXCEPT !.step = "committed"]
  /\ UNCHANGED <<tableVars, canonRows, below>>

CanonRecord ==
  /\ canon.step = "committed"
  /\ canonRows' = [canonRows EXCEPT ![canon.id].status = "success"]
  /\ canon' = CanonIdle
  /\ UNCHANGED <<tableVars, identity, below>>

(* Any error before the commit, a moved source among them.                 *)
CanonFail ==
  /\ canon.step \in {"scan", "open", "locked", "identity"}
  /\ canon' = CanonIdle
  /\ RecordFailed
  /\ UNCHANGED <<tableVars, identity, below>>

(* The process dies, or loses the database: its row stays started.         *)
CanonCrash ==
  /\ canon.step \in {"scan", "open", "locked", "identity", "committed"}
  /\ canon' = CanonIdle
  /\ UNCHANGED <<tableVars, canonRows, identity, below>>

CanonCommand ==
  \/ \E k \in CanonIds : CanonStart(k)
  \/ \E r \in Relations : CanonScan(r)
  \/ CanonRebuild
  \/ CanonNothingStale
  \/ CanonRebuilding
  \/ CanonRebuildFails
  \/ CanonLock
  \/ CanonCheck
  \/ CanonRead
  \/ CanonCommit
  \/ CanonRecord
  \/ CanonFail
  \/ CanonCrash

-----------------------------------------------------------------------------
(* Every identity statement that read a relation read the same build of    *)
(* it, in the committed identity tables as in a transaction under way:     *)
(* nonprofit_canonical and funder_canonical tell 990 filers from 990-PF    *)
(* ones by the same relations, in statements of their own.                 *)
IdentityReadsOneBuild ==
  \A r \in Relations : Cardinality(canon.from[r]) <= 1 /\ Cardinality(identity.from[r]) <= 1

(* A row that says success names the runs behind the identity tables, for  *)
(* each relation relation_states would have called current when the        *)
(* transaction opened: the rows behind it are of the run the row names,    *)
(* whole, with no patch but the one it names.                              *)
NamesItsRows(r, seen) ==
  \A b \in identity.from[r] : \A c \in b.from[SourceOf(r)] :
    /\ c.loaded = {seen[SourceOf(r)]} \X (1 .. Batches)
    /\ c.patch \in {0, seen[PatchSource]}

RowSucceeded(k) == k \in CanonIds /\ canonRows[k].status = "success"

SuccessNamesCurrentRows ==
  RowSucceeded(identity.build) =>
    \A r \in identity.current : NamesItsRows(r, canonRows[identity.build].seen)

(* What a canonical build says of itself: 990 and 990-PF filers are told   *)
(* apart over one build of each relation, and a row that says success      *)
(* names the runs they were read from (canonical/build.py, the checks      *)
(* around the identity transaction).                                       *)
BuildRowTellsTheTables == IdentityReadsOneBuild /\ SuccessNamesCurrentRows
=============================================================================
