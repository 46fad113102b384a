--------------------------- MODULE StampedTables ---------------------------
(***************************************************************************)
(* The staging tables, their stamps, and the _current relations built from *)
(* them (ingestion.py, write_data_to_sql.py, current_grants.py and         *)
(* own_extract/patch.py; the design is docs/current-relations-stamp.md).   *)
(*                                                                         *)
(* Three kinds of process share one Postgres database and no lock but its  *)
(* own: ingests, which replace a staging table one committed batch at a    *)
(* time; the own-extract patch, which rewrites rows of several staging     *)
(* tables in one transaction; and builders, each rebuilding relations one  *)
(* transaction at a time.  Sessions are READ COMMITTED: a statement sees   *)
(* what is committed when it runs, so two statements of one transaction    *)
(* can see different rows.                                                 *)
(***************************************************************************)
EXTENDS Naturals, FiniteSets

CONSTANTS
  Staging,        \* the staging tables
  Relations,      \* the _current relations
  StagingInputs,  \* [Relations -> SUBSET Staging]: the staging part of _INPUTS
  ReadsCurrent,   \* [Relations -> SUBSET Relations]: _READS_CURRENT
  TempReads,      \* the inputs a relation's DDL first copies to temporary tables
  Patched,        \* the staging tables the own-extract patch rewrites
  Deduped,        \* the staging tables whose source declares a dedupe
  Builders,       \* sessions that rebuild relations
  Versions,       \* versions a source can resolve to
  Batches,        \* COPY batches in one load
  MaxRuns,        \* bound: ingest and patch runs in a behaviour
  MaxBuilds,      \* bound: relation builds committed in a behaviour
  MaxRules,       \* bound: changes of the dedup DDL in a behaviour
  None            \* no table, no version

RunIds == 1 .. MaxRuns
BuildIds == 1 .. MaxBuilds
Parts == RunIds \X (1 .. Batches)      \* <<run, batch>>: one COPY batch

InputsOf(r) == StagingInputs[r] \cup ReadsCurrent[r]

(* The relations read staging tables and, one level deep, each other, as   *)
(* with_dependents assumes.                                                *)
ASSUME TopologyAssumption ==
  /\ Staging \cap Relations = {}
  /\ StagingInputs \in [Relations -> SUBSET Staging]
  /\ ReadsCurrent \in [Relations -> SUBSET Relations]
  /\ \A r \in Relations : \A q \in ReadsCurrent[r] : ReadsCurrent[q] = {}
  /\ \A r \in Relations : TempReads[r] \subseteq InputsOf(r)
  /\ Patched \subseteq Staging
  /\ Deduped \subseteq Staging
  /\ None \notin Staging \cup Relations

ASSUME BoundsAssumption ==
  /\ Batches \in Nat \ {0}
  /\ MaxRuns \in Nat
  /\ MaxBuilds \in Nat
  /\ MaxRules \in Nat

VARIABLES
  rows,      \* the committed rows of each staging table
  stamp,     \* the stamp (table comment) of each staging table
  runs,      \* datamart_meta.ingest_runs
  loader,    \* the process behind each ingest run
  patcher,   \* the session of own_extract patch
  built,     \* what each relation's rows were built from
  relStamp,  \* the stamp (table comment) of each relation
  builds,    \* relation builds committed so far: the last build id given
  builder,   \* the builder sessions
  rules      \* the version of the dedup DDL in the code deployed now

vars == <<rows, stamp, runs, loader, patcher, built, relStamp, builds, builder, rules>>
ingestVars == <<rows, stamp, runs, loader>>
buildVars == <<built, relStamp, builds, builder>>

-----------------------------------------------------------------------------
(* The rows of a staging table.  loaded: the COPY batches it holds.        *)
(* unique: those of them a dedupe has collapsed.  patch: the patch run     *)
(* whose rows it holds (0: none).  purged: the batches from which a patch  *)
(* removed the rows of our urls.                                           *)
RowSets == [exists : BOOLEAN, loaded : SUBSET Parts, unique : SUBSET Parts,
            patch : RunIds \cup {0}, purged : SUBSET Parts]

NoTable == [exists |-> FALSE, loaded |-> {}, unique |-> {}, patch |-> 0, purged |-> {}]
EmptyTable == [NoTable EXCEPT !.exists = TRUE]

(* staging_stamp: the ingest run, and the patch run on top of it, if any.  *)
Stamps == [run : RunIds \cup {0}, patch : RunIds \cup {0}]
NoStamp == [run |-> 0, patch |-> 0]

RunRows == [kind : {"ingest", "patch"}, table : Staging \cup {None},
            version : Versions \cup {None},
            status : {"unused", "started", "success", "failed"}]
UnusedRun == [kind |-> "ingest", table |-> None, version |-> None, status |-> "unused"]

LoaderSteps == {"none", "fetch", "copy", "validate", "record", "done", "dead"}
Loaders == [step : LoaderSteps, sent : 0 .. Batches]

(* A relation's stamp records the entry of each input: a staging table's   *)
(* stamp as it is, a relation's stamp id (0: no stamp).                    *)
EntryOf(n) == IF n \in Relations THEN relStamp[n].id ELSE stamp[n]

(* The rows behind an input: a staging table's, or the build that made a   *)
(* relation's.                                                             *)
ContentOf(n) == IF n \in Relations THEN built[n].id ELSE rows[n]

Exists(n) == IF n \in Relations THEN built[n].id # 0 ELSE rows[n].exists

NoRelation == [id |-> 0, from |-> <<>>, rules |-> 0]
NoRelStamp == [id |-> 0, entries |-> <<>>, rules |-> 0]
Idle == [step |-> "idle", todo |-> {}, table |-> None, got |-> {}, entries |-> <<>>,
         from |-> <<>>, rules |-> 0]

Init ==
  /\ rows = [t \in Staging |-> NoTable]
  /\ stamp = [t \in Staging |-> NoStamp]
  /\ runs = [i \in RunIds |-> UnusedRun]
  /\ loader = [i \in RunIds |-> [step |-> "none", sent |-> 0]]
  /\ patcher = [step |-> "idle", purge |-> [t \in Patched |-> {}]]
  /\ built = [r \in Relations |-> NoRelation]
  /\ relStamp = [r \in Relations |-> NoRelStamp]
  /\ builds = 0
  /\ builder = [b \in Builders |-> Idle]
  /\ rules = 0

-----------------------------------------------------------------------------
(* Postgres table locks.  A builder holds its inputs ACCESS SHARE from its *)
(* first statement to its commit, and the relation it replaces ACCESS      *)
(* EXCLUSIVE from its DROP; the patch holds the tables it rewrites ROW     *)
(* EXCLUSIVE.                                                              *)
InTransaction(b) == builder[b].step \in {"stamps", "temp", "built"}

(* Mutant of ReadLocked: the builds take no lock on their inputs.          *)
NeverReadLocked(n) == FALSE

ReadLocked(n) == \E b \in Builders : InTransaction(b) /\ n \in InputsOf(builder[b].table)
Replacing(b, r) == builder[b].step = "built" /\ builder[b].table = r
WriteLocked(t) == patcher.step = "rewritten" /\ t \in Patched

(* Runs are numbered in the order they start.                              *)
NextRun(i) == /\ runs[i].status = "unused"
              /\ \A j \in RunIds : j < i => runs[j].status # "unused"

Loading(i) == loader[i].step \in {"fetch", "copy", "validate", "record"}
TableOf(i) == runs[i].table

(* find_successful_run: the skip check of ingest_source.                   *)
Succeeded(t, v) ==
  \E i \in RunIds : /\ runs[i].kind = "ingest"
                    /\ runs[i].table = t
                    /\ runs[i].version = v
                    /\ runs[i].status = "success"

-----------------------------------------------------------------------------
(* ingest_source, one action per transaction it commits.                   *)

(* The started row; a version with a successful run is skipped unless      *)
(* forced, which touches nothing.                                          *)
IngestStart(i, t, v, force) ==
  /\ NextRun(i)
  /\ force \/ ~Succeeded(t, v)
  /\ runs' = [runs EXCEPT ![i] = [kind |-> "ingest", table |-> t, version |-> v,
                                  status |-> "started"]]
  /\ loader' = [loader EXCEPT ![i] = [step |-> "fetch", sent |-> 0]]
  /\ UNCHANGED <<rows, stamp, patcher, rules, buildVars>>

(* Mutant of IngestRecreate: a table emptied in place keeps its comment.   *)
IngestTruncate(i) ==
  /\ loader[i].step = "fetch"
  /\ ~ReadLocked(TableOf(i)) /\ ~WriteLocked(TableOf(i))
  /\ rows' = [rows EXCEPT ![TableOf(i)] = EmptyTable]
  /\ loader' = [loader EXCEPT ![i] = [step |-> "copy", sent |-> 0]]
  /\ UNCHANGED <<stamp, runs, patcher, rules, buildVars>>

(* The first file's header has arrived: DROP TABLE, with its comment, and  *)
(* CREATE TABLE, committed before any row.                                 *)
IngestRecreate(i) ==
  LET t == TableOf(i) IN
  /\ loader[i].step = "fetch"
  /\ ~ReadLocked(t) /\ ~WriteLocked(t)
  /\ rows' = [rows EXCEPT ![t] = EmptyTable]
  /\ stamp' = [stamp EXCEPT ![t] = NoStamp]
  /\ loader' = [loader EXCEPT ![i] = [step |-> "copy", sent |-> 0]]
  /\ UNCHANGED <<runs, patcher, rules, buildVars>>

(* One COPY batch, committed into whatever table has the name now.         *)
IngestCopy(i) ==
  LET t == TableOf(i)
      k == loader[i].sent + 1 IN
  /\ loader[i].step = "copy"
  /\ k <= Batches
  /\ rows' = [rows EXCEPT ![t].loaded = @ \cup {<<i, k>>}]
  /\ loader' = [loader EXCEPT ![i].sent = k]
  /\ UNCHANGED <<stamp, runs, patcher, rules, buildVars>>

(* Every batch is in: the dedupe of a source that declares one, over every *)
(* row the table holds, then the indexes, whose failure is swallowed.      *)
IngestDedupe(i) ==
  LET t == TableOf(i) IN
  /\ loader[i].step = "copy"
  /\ loader[i].sent = Batches
  /\ rows' = IF t \in Deduped THEN [rows EXCEPT ![t].unique = rows[t].loaded] ELSE rows
  /\ loader' = [loader EXCEPT ![i].step = "validate"]
  /\ UNCHANGED <<stamp, runs, patcher, rules, buildVars>>

(* What validation can see of the rows: the required columns are not null  *)
(* in as many rows as the run streamed, and a deduped table's key takes    *)
(* exactly that many values.  Batches are taken as equal, and a patch as   *)
(* putting in as many rows as it takes out.                                *)
LooksComplete(t) ==
  /\ Cardinality(rows[t].loaded) >= Batches
  /\ t \in Deduped => /\ rows[t].unique = rows[t].loaded
                      /\ Cardinality(rows[t].loaded) = Batches

IngestValidate(i) ==
  /\ loader[i].step = "validate"
  /\ LooksComplete(TableOf(i))
  /\ loader' = [loader EXCEPT ![i].step = "record"]
  /\ UNCHANGED <<rows, stamp, runs, patcher, rules, buildVars>>

(* A download, COPY or dedupe error, or a hard validation failure: the run *)
(* is recorded failed and the table stays as it is.                        *)
IngestFail(i) ==
  /\ loader[i].step \in {"fetch", "copy", "validate"}
  /\ runs' = [runs EXCEPT ![i].status = "failed"]
  /\ loader' = [loader EXCEPT ![i].step = "done"]
  /\ UNCHANGED <<rows, stamp, patcher, rules, buildVars>>

(* _finalize_run with status success: the run row and the table's stamp in *)
(* one transaction.                                                        *)
IngestFinish(i) ==
  /\ loader[i].step = "record"
  /\ runs' = [runs EXCEPT ![i].status = "success"]
  /\ stamp' = [stamp EXCEPT ![TableOf(i)] = [run |-> i, patch |-> 0]]
  /\ loader' = [loader EXCEPT ![i].step = "done"]
  /\ UNCHANGED <<rows, patcher, rules, buildVars>>

(* The process dies (or a database error escapes ingest_source): the run   *)
(* stays 'started' for good.                                               *)
IngestCrash(i) ==
  /\ Loading(i)
  /\ loader' = [loader EXCEPT ![i].step = "dead"]
  /\ UNCHANGED <<rows, stamp, runs, patcher, rules, buildVars>>

Ingest(i) ==
  \/ \E t \in Staging, v \in Versions, force \in BOOLEAN : IngestStart(i, t, v, force)
  \/ IngestRecreate(i)
  \/ IngestCopy(i)
  \/ IngestDedupe(i)
  \/ IngestValidate(i)
  \/ IngestFail(i)
  \/ IngestFinish(i)
  \/ IngestCrash(i)

-----------------------------------------------------------------------------
(* own_extract patch: one transaction over every patched table.            *)

(* The DELETEs and INSERTs, not yet visible to others: the rows they touch *)
(* are those committed when they run.                                      *)
PatchRewrite ==
  /\ patcher.step = "idle"
  /\ \A t \in Patched : rows[t].exists
  /\ patcher' = [step |-> "rewritten", purge |-> [t \in Patched |-> rows[t].loaded]]
  /\ UNCHANGED <<ingestVars, rules, buildVars>>

(* Mutant of PatchedStamp: the patch is not recorded on the stamp.         *)
UnpatchedStamp(s, i) == s

(* stamp_patched keeps the ingest run a stamp names and sets its patch     *)
(* run; a table without a stamp stays without one.                         *)
PatchedStamp(s, i) == IF s = NoStamp THEN NoStamp ELSE [s EXCEPT !.patch = i]

PatchedRows(content, purge, i) ==
  [content EXCEPT !.patch = i, !.purged = content.purged \cup purge]

(* The patch runs (one per table; one id here, for they are recorded in    *)
(* one transaction), the stamps and the commit.                            *)
PatchCommit(i) ==
  /\ patcher.step = "rewritten"
  /\ NextRun(i)
  /\ rows' = [t \in Staging |->
               IF t \in Patched THEN PatchedRows(rows[t], patcher.purge[t], i) ELSE rows[t]]
  /\ stamp' = [t \in Staging |->
               IF t \in Patched THEN PatchedStamp(stamp[t], i) ELSE stamp[t]]
  /\ runs' = [runs EXCEPT ![i] = [kind |-> "patch", table |-> None, version |-> None,
                                  status |-> "success"]]
  /\ patcher' = [step |-> "idle", purge |-> [t \in Patched |-> {}]]
  /\ UNCHANGED <<loader, rules, buildVars>>

PatchAbort ==
  /\ patcher.step = "rewritten"
  /\ patcher' = [step |-> "idle", purge |-> [t \in Patched |-> {}]]
  /\ UNCHANGED <<ingestVars, rules, buildVars>>

Patch == PatchRewrite \/ (\E i \in RunIds : PatchCommit(i)) \/ PatchAbort

-----------------------------------------------------------------------------
(* build_current_relations: the relations of todo in build order, each in  *)
(* a transaction of its own.                                               *)

(* A build is asked for any relations (--only), under the code deployed    *)
(* when its process starts.                                                *)
BuildStart(b, wanted) ==
  /\ builder[b].step = "idle"
  /\ builder' = [builder EXCEPT ![b] = [Idle EXCEPT !.step = "next", !.todo = wanted,
                                                    !.rules = rules]]
  /\ UNCHANGED <<ingestVars, patcher, rules, built, relStamp, builds>>

(* _lock_inputs' LOCK TABLE: every input must exist, and a relation being  *)
(* replaced must be committed first.                                       *)
BuildLock(b, r) ==
  /\ builder[b].step = "next"
  /\ r \in builder[b].todo
  /\ ReadsCurrent[r] \cap builder[b].todo = {}
  /\ \A n \in InputsOf(r) : Exists(n)
  /\ \A q \in ReadsCurrent[r], c \in Builders : ~Replacing(c, q)
  /\ builder' = [builder EXCEPT ![b] =
                   [@ EXCEPT !.step = "stamps", !.table = r, !.got = {}, !.entries = <<>>,
                             !.from = [n \in InputsOf(r) |-> {}]]]
  /\ UNCHANGED <<ingestVars, patcher, rules, built, relStamp, builds>>

(* _lock_inputs' read of one input's stamp: a statement of its own.        *)
BuildReadStamp(b, n) ==
  LET s == builder[b] IN
  /\ s.step = "stamps"
  /\ n \in InputsOf(s.table) \ s.got
  /\ builder' = [builder EXCEPT ![b] =
       [s EXCEPT !.got = s.got \cup {n},
                 !.entries = [m \in s.got \cup {n} |->
                                IF m = n THEN EntryOf(n) ELSE s.entries[m]]]]
  /\ UNCHANGED <<ingestVars, patcher, rules, built, relStamp, builds>>

(* What the relation's rows have been read from so far, and one more       *)
(* statement reading some of the inputs.                                   *)
ReadNow(from, inputs, names) ==
  [n \in inputs |-> IF n \in names THEN from[n] \cup {ContentOf(n)} ELSE from[n]]

(* The DDL's CREATE TEMP TABLE statements read some inputs early.          *)
BuildTemp(b) ==
  LET s == builder[b] IN
  /\ s.step = "stamps"
  /\ s.got = InputsOf(s.table)
  /\ builder' = [builder EXCEPT ![b] =
                   [s EXCEPT !.step = "temp",
                             !.from = ReadNow(s.from, InputsOf(s.table), TempReads[s.table])]]
  /\ UNCHANGED <<ingestVars, patcher, rules, built, relStamp, builds>>

(* DROP TABLE, which waits for the relation's readers and for another      *)
(* builder replacing it, then CREATE TABLE AS over every input.            *)
BuildRows(b) ==
  LET s == builder[b] IN
  /\ s.step = "temp"
  /\ ~ReadLocked(s.table)
  /\ \A c \in Builders : ~Replacing(c, s.table)
  /\ builder' = [builder EXCEPT ![b] =
                   [s EXCEPT !.step = "built",
                             !.from = ReadNow(s.from, InputsOf(s.table), InputsOf(s.table))]]
  /\ UNCHANGED <<ingestVars, patcher, rules, built, relStamp, builds>>

(* Mutant of BuildCommit: the inputs' stamps are read when the relation's  *)
(* is written, after its rows.                                             *)
BuildCommitLateStamps(b) ==
  LET s == builder[b]
      id == builds + 1 IN
  /\ s.step = "built"
  /\ id \in BuildIds
  /\ builds' = id
  /\ built' = [built EXCEPT ![s.table] = [id |-> id, from |-> s.from, rules |-> s.rules]]
  /\ relStamp' = [relStamp EXCEPT ![s.table] =
                    [id |-> id, entries |-> [n \in InputsOf(s.table) |-> EntryOf(n)],
                     rules |-> s.rules]]
  /\ builder' = [builder EXCEPT ![b] = Idle]
  /\ UNCHANGED <<ingestVars, patcher, rules>>

(* The relation's stamp, last in its transaction, and the commit.          *)
BuildCommit(b) ==
  LET s == builder[b]
      id == builds + 1 IN
  /\ s.step = "built"
  /\ id \in BuildIds
  /\ builds' = id
  /\ built' = [built EXCEPT ![s.table] = [id |-> id, from |-> s.from, rules |-> s.rules]]
  /\ relStamp' = [relStamp EXCEPT ![s.table] =
                    [id |-> id, entries |-> s.entries, rules |-> s.rules]]
  /\ builder' = [builder EXCEPT ![b] =
                   IF s.todo = {s.table} THEN Idle
                   ELSE [Idle EXCEPT !.step = "next", !.todo = s.todo \ {s.table},
                                     !.rules = s.rules]]
  /\ UNCHANGED <<ingestVars, patcher, rules>>

(* Any error, or a crash: the open transaction rolls back, the relations   *)
(* committed before it stay, the rest are not begun.                       *)
BuildFail(b) ==
  /\ builder[b].step # "idle"
  /\ builder' = [builder EXCEPT ![b] = Idle]
  /\ UNCHANGED <<ingestVars, patcher, rules, built, relStamp, builds>>

Build(b) ==
  \/ \E wanted \in (SUBSET Relations) \ {{}} : BuildStart(b, wanted)
  \/ \E r \in Relations : BuildLock(b, r)
  \/ \E n \in Staging \cup Relations : BuildReadStamp(b, n)
  \/ BuildTemp(b)
  \/ BuildRows(b)
  \/ BuildCommit(b)
  \/ BuildFail(b)

(* New dedup rules are deployed: ddl_hash of the code changes.             *)
Deploy ==
  /\ rules < MaxRules
  /\ rules' = rules + 1
  /\ UNCHANGED <<ingestVars, patcher, buildVars>>

Next ==
  \/ \E i \in RunIds : Ingest(i)
  \/ Patch
  \/ \E b \in Builders : Build(b)
  \/ Deploy

Spec == Init /\ [][Next]_vars

-----------------------------------------------------------------------------
(* relation_states: each relation current, stale or blocked, from the      *)
(* comments alone.                                                         *)
Unstamped(r) == \E t \in StagingInputs[r] : stamp[t] = NoStamp
Blocked(r) == Unstamped(r) \/ \E q \in ReadsCurrent[r] : Unstamped(q)

RecordsInputs(r) == \A n \in InputsOf(r) : relStamp[r].entries[n] = EntryOf(n)

UpToDate(r) == /\ ~Blocked(r)
               /\ relStamp[r].id # 0
               /\ relStamp[r].rules = rules
               /\ RecordsInputs(r)

RelationCurrent(r) == UpToDate(r) /\ \A q \in ReadsCurrent[r] : UpToDate(q)

-----------------------------------------------------------------------------
(* How the jobs are run.  Nothing in the code keeps two refreshes of one   *)
(* source apart: SerialSpec is the practice of one refresh of a source at  *)
(* a time.                                                                 *)
OneIngestPerTable ==
  \A i, j \in RunIds : Loading(i) /\ Loading(j) /\ TableOf(i) = TableOf(j) => i = j

SerialNext == Next /\ OneIngestPerTable'
SerialSpec == Init /\ [][SerialNext]_vars

-----------------------------------------------------------------------------
(* Every variable keeps its type; the functions and records whose parts    *)
(* have no common set are held to their shape.                             *)
BuilderSteps == {"idle", "next", "stamps", "temp", "built"}

BuilderShape(s) ==
  /\ DOMAIN s = DOMAIN Idle
  /\ s.step \in BuilderSteps
  /\ s.todo \subseteq Relations
  /\ s.step \in {"stamps", "temp", "built"} =>
       s.table \in Relations /\ s.got \subseteq InputsOf(s.table)
  /\ s.rules \in 0 .. rules

TypeOK ==
  /\ rows \in [Staging -> RowSets]
  /\ stamp \in [Staging -> Stamps]
  /\ runs \in [RunIds -> RunRows]
  /\ loader \in [RunIds -> Loaders]
  /\ patcher \in [step : {"idle", "rewritten"}, purge : [Patched -> SUBSET Parts]]
  /\ builds \in 0 .. MaxBuilds
  /\ rules \in 0 .. MaxRules
  /\ built = [r \in Relations |-> built[r]]
  /\ relStamp = [r \in Relations |-> relStamp[r]]
  /\ \A r \in Relations : /\ built[r].id \in 0 .. builds
                          /\ relStamp[r].id = built[r].id
                          /\ relStamp[r].rules = built[r].rules
  /\ builder = [b \in Builders |-> builder[b]]
  /\ \A b \in Builders : BuilderShape(builder[b])

(* A relation relation_states calls current was built under today's rules  *)
(* from exactly the rows each of its inputs holds now, every statement of  *)
(* its transaction having read those same rows, and so was each relation   *)
(* it reads: relation_states looks at comments only, while loads, patches  *)
(* and other builds commit between a build's statements.                   *)
CurrentIsFaithful ==
  \A r \in Relations : RelationCurrent(r) =>
    /\ built[r].rules = rules
    /\ \A n \in InputsOf(r) : built[r].from[n] = {ContentOf(n)}

(* Two current relations that read the same staging table were built from  *)
(* the same rows of it (the paid and the future grants relations divide    *)
(* the filer-years of basic_fields_pf between them).                       *)
CurrentRelationsAgree ==
  \A q, r \in Relations : RelationCurrent(q) /\ RelationCurrent(r) =>
    \A t \in StagingInputs[q] \cap StagingInputs[r] : built[q].from[t] = built[r].from[t]

(* A relation's stamp names the loads its rows came from: whatever stamp   *)
(* it records for a staging table, every row its statements read of that   *)
(* table is of that run, and all of that run's batches were there.  A      *)
(* patch may have moved the rows meanwhile; an ingest may not.             *)
StampNamesOrigin ==
  \A r \in Relations : relStamp[r].id # 0 =>
    \A t \in StagingInputs[r] : relStamp[r].entries[t] # NoStamp =>
      \A c \in built[r].from[t] : c.loaded = {relStamp[r].entries[t].run} \X (1 .. Batches)

(* A stamped table holds the whole of the load its stamp names, deduped    *)
(* where the source declares it, no batch of another run, and the patch    *)
(* the stamp names if it names one (staging_stamp's docstring).            *)
HoldsLoad(content, t, i) ==
  LET own == {i} \X (1 .. Batches) IN
  content.loaded = own /\ (t \in Deduped => content.unique = own)

StampNamesItsLoad ==
  \A t \in Staging : stamp[t] # NoStamp =>
    /\ HoldsLoad(rows[t], t, stamp[t].run)
    /\ stamp[t].patch # 0 => rows[t].patch = stamp[t].patch

(* A table that has lost its rows to a load still running carries no stamp *)
(* (the comment above STAMP_VERSION in ingestion.py).                      *)
RunningLoadIsUnstamped ==
  \A i \in RunIds :
    loader[i].step \in {"copy", "validate", "record"} => stamp[TableOf(i)] = NoStamp

(* No step changes the rows under a stamp and leaves the stamp as it was:  *)
(* what lets a comparison of comments stand in for a scan of the rows.     *)
RowsMoveTheirStamp ==
  [][\A t \in Staging : rows'[t] # rows[t] /\ stamp[t] # NoStamp => stamp'[t] # stamp[t]]_vars

=============================================================================
