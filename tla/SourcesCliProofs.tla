--------------------------- MODULE SourcesCliProofs ---------------------------
(***************************************************************************)
(* Proofs about the loads, patches and builds of the public tables, for    *)
(* any tables, relations, statements and bounds.                           *)
(*                                                                         *)
(* First about StampedTables: its types under the unrestricted             *)
(* specification, and, when a source is refreshed by one process at a      *)
(* time, that a relation whose comments say it is current holds what its   *)
(* inputs hold, and that stamps name the loads that rows are of.           *)
(*                                                                         *)
(* Then about SourcesCli, where one command loads at a time, so that what  *)
(* is shown first holds of it: an exit code of 0 means done, what `loaded` *)
(* shows as loaded is there, and a canonical build's row tells what its    *)
(* tables were read from.                                                  *)
(***************************************************************************)
EXTENDS SourcesCli, TLAPS, FiniteSetTheorems


-----------------------------------------------------------------------------
(* The initial state is well typed.                                        *)
LEMMA InitType == Init => TypeOK
  <1> SUFFICES ASSUME Init PROVE TypeOK
      OBVIOUS
  <1>1. rows \in [Staging -> RowSets] /\ stamp \in [Staging -> Stamps]
        /\ runs \in [RunIds -> RunRows]
      BY DEF Init, RowSets, NoTable, Parts, Stamps, NoStamp, RunRows, UnusedRun
  <1>2. loader \in [RunIds -> Loaders]
      BY BoundsAssumption DEF Init, Loaders, LoaderSteps
  <1>3. patcher \in [step : {"idle", "rewritten"}, purge : [Patched -> SUBSET Parts]]
      BY DEF Init
  <1>4. builds \in 0 .. MaxBuilds /\ rules \in 0 .. MaxRules
      BY BoundsAssumption DEF Init
  <1>5. /\ built = [r \in Relations |-> built[r]]
        /\ relStamp = [r \in Relations |-> relStamp[r]]
        /\ \A r \in Relations : /\ built[r].id \in 0 .. builds
                                /\ relStamp[r].id = built[r].id
                                /\ relStamp[r].rules = built[r].rules
      BY DEF Init, NoRelation, NoRelStamp
  <1>6. builder = [b \in Builders |-> builder[b]]
        /\ \A b \in Builders : BuilderShape(builder[b])
    <2>1. ASSUME NEW b \in Builders
          PROVE  BuilderShape(builder[b])
      <3>1. builder[b] = Idle
          BY DEF Init
      <3>2. Idle.step = "idle" /\ Idle.todo = {} /\ Idle.rules = 0
          BY DEF Idle
      <3>3. 0 \in 0 .. rules
          BY DEF Init
      <3> QED
          BY <3>1, <3>2, <3>3 DEF BuilderShape, BuilderSteps, Idle
    <2> QED
        BY <2>1 DEF Init
  <1> QED
      BY <1>1, <1>2, <1>3, <1>4, <1>5, <1>6 DEF TypeOK

(* Updating one field of a record of the state leaves it of its type.      *)
LEMMA LoaderStep ==
  ASSUME NEW l \in Loaders, NEW s \in LoaderSteps
  PROVE  [l EXCEPT !.step = s] \in Loaders
  BY DEF Loaders

(* A run's row stays one when it is closed.                                *)
LEMMA RunStatus ==
  ASSUME NEW r \in RunRows, NEW s \in {"success", "failed"}
  PROVE  [r EXCEPT !.status = s] \in RunRows
  BY DEF RunRows

(* A table's rows stay rows when one field is set.                         *)
LEMMA RowsField ==
  ASSUME NEW c \in RowSets, NEW q \in SUBSET Parts, NEW j \in RunIds
  PROVE  /\ [c EXCEPT !.loaded = q] \in RowSets
         /\ [c EXCEPT !.unique = q] \in RowSets
         /\ [c EXCEPT !.patch = j, !.purged = q] \in RowSets
  BY DEF RowSets

(* What a loader does keeps the types.                                     *)
LEMMA IngestType ==
  ASSUME TypeOK, NEW i \in RunIds, Ingest(i)
  PROVE  TypeOK'
  <1>0. UNCHANGED <<patcher, rules, built, relStamp, builds, builder>>
      BY DEF Ingest, IngestStart, IngestRecreate, IngestCopy, IngestDedupe, IngestValidate,
             IngestFail, IngestFinish, IngestCrash, buildVars
  <1> SUFFICES /\ rows' \in [Staging -> RowSets]
               /\ stamp' \in [Staging -> Stamps]
               /\ runs' \in [RunIds -> RunRows]
               /\ loader' \in [RunIds -> Loaders]
      BY <1>0 DEF TypeOK, BuilderShape
  <1>a. /\ rows \in [Staging -> RowSets]
        /\ stamp \in [Staging -> Stamps]
        /\ runs \in [RunIds -> RunRows]
        /\ loader \in [RunIds -> Loaders]
      BY DEF TypeOK
  <1>b. \A s \in LoaderSteps : [loader[i] EXCEPT !.step = s] \in Loaders
      BY <1>a, LoaderStep
  <1>c. \A s \in {"success", "failed"} : [runs[i] EXCEPT !.status = s] \in RunRows
      BY <1>a, RunStatus
  <1>d. {"done", "dead", "validate", "record"} \subseteq LoaderSteps
      BY DEF LoaderSteps
  <1>e. [run |-> i, patch |-> 0] \in Stamps
      BY DEF Stamps
  <1>1. CASE \E t \in Staging, v \in Versions, force \in BOOLEAN : IngestStart(i, t, v, force)
      BY <1>1, BoundsAssumption DEF IngestStart, TypeOK, RunRows, Loaders, LoaderSteps
  <1>2. CASE IngestRecreate(i)
    <2>1. EmptyTable \in RowSets /\ NoStamp \in Stamps
        BY DEF EmptyTable, NoTable, RowSets, NoStamp, Stamps, Parts
    <2>2. [step |-> "copy", sent |-> 0] \in Loaders
        BY BoundsAssumption DEF Loaders, LoaderSteps
    <2> QED
        BY <1>2, <1>a, <2>1, <2>2 DEF IngestRecreate
  <1>3. CASE IngestCopy(i)
    <2>1. loader[i].sent + 1 \in 1 .. Batches
        BY <1>3, <1>a, BoundsAssumption DEF IngestCopy, Loaders, RunIds
    <2>2. <<i, loader[i].sent + 1>> \in Parts
        BY <2>1 DEF Parts
    <2>3. \A t \in Staging :
            [rows[t] EXCEPT !.loaded = @ \cup {<<i, loader[i].sent + 1>>}] \in RowSets
      <3> TAKE t \in Staging
      <3>1. rows[t] \in RowSets /\ rows[t].loaded \subseteq Parts
          BY <1>a DEF RowSets
      <3> QED
          BY <3>1, <2>2 DEF RowSets
    <2>4. rows' \in [Staging -> RowSets]
        BY <1>3, <1>a, <2>3 DEF IngestCopy
    <2>5. [loader[i] EXCEPT !.sent = loader[i].sent + 1] \in Loaders
        BY <1>a, <2>1, BoundsAssumption DEF Loaders
    <2>6. loader' \in [RunIds -> Loaders]
        BY <1>3, <1>a, <2>5 DEF IngestCopy
    <2> QED
        BY <1>3, <1>a, <2>4, <2>6 DEF IngestCopy
  <1>4. CASE IngestDedupe(i)
    <2>1. \A t \in Staging : [rows[t] EXCEPT !.unique = rows[t].loaded] \in RowSets
        BY <1>a DEF RowSets
    <2> QED
        BY <1>4, <1>a, <1>b, <1>d, <2>1 DEF IngestDedupe
  <1>5. CASE IngestValidate(i)
      BY <1>5, <1>a, <1>b, <1>d DEF IngestValidate
  <1>6. CASE IngestFail(i)
      BY <1>6, <1>a, <1>b, <1>c, <1>d DEF IngestFail
  <1>7. CASE IngestFinish(i)
      BY <1>7, <1>a, <1>b, <1>c, <1>d, <1>e DEF IngestFinish
  <1>8. CASE IngestCrash(i)
      BY <1>8, <1>a, <1>b, <1>d DEF IngestCrash
  <1> QED
      BY <1>1, <1>2, <1>3, <1>4, <1>5, <1>6, <1>7, <1>8 DEF Ingest

(* The patch keeps the types.                                              *)
LEMMA PatchType ==
  ASSUME TypeOK, Patch
  PROVE  TypeOK'
  <1> USE DEF Parts, RunIds
  <1>1. CASE PatchRewrite
    <2>1. patcher' \in [step : {"idle", "rewritten"}, purge : [Patched -> SUBSET Parts]]
        BY <1>1, TopologyAssumption DEF PatchRewrite, TypeOK, RowSets
    <2> QED
        BY <1>1, <2>1 DEF PatchRewrite, TypeOK, BuilderShape, ingestVars, buildVars
  <1>2. CASE \E i \in RunIds : PatchCommit(i)
    <2> PICK i \in RunIds : PatchCommit(i)
        BY <1>2
    <2>1. rows' \in [Staging -> RowSets]
      <3>1. ASSUME NEW t \in Patched
            PROVE  PatchedRows(rows[t], patcher.purge[t], i) \in RowSets
        <4>1. rows[t] \in RowSets
            BY TopologyAssumption DEF TypeOK
        <4>2. rows[t].purged \cup patcher.purge[t] \in SUBSET Parts
            BY <4>1 DEF TypeOK, RowSets
        <4> QED
            BY <4>1, <4>2, RowsField DEF PatchedRows
      <3> QED
          BY <3>1 DEF PatchCommit, TypeOK
    <2>2. stamp' \in [Staging -> Stamps]
      <3>1. i \in RunIds
          OBVIOUS
      <3>2. ASSUME NEW t \in Staging
            PROVE  PatchedStamp(stamp[t], i) \in Stamps
        <4>1. PICK s \in Stamps : s = stamp[t]
            BY DEF TypeOK
        <4>2. NoStamp \in Stamps
            BY DEF Stamps, NoStamp
        <4>3. [s EXCEPT !.patch = i] \in Stamps
            BY <3>1, <4>1 DEF Stamps
        <4> QED
            BY <4>1, <4>2, <4>3 DEF PatchedStamp
      <3> QED
          BY <3>2 DEF PatchCommit, TypeOK
    <2>3. runs' \in [RunIds -> RunRows]
        BY DEF PatchCommit, TypeOK, RunRows
    <2>4. patcher' \in [step : {"idle", "rewritten"}, purge : [Patched -> SUBSET Parts]]
        BY DEF PatchCommit
    <2> QED
        BY <2>1, <2>2, <2>3, <2>4 DEF PatchCommit, TypeOK, BuilderShape, buildVars
  <1>3. CASE PatchAbort
      BY <1>3 DEF PatchAbort, TypeOK, BuilderShape, ingestVars, buildVars
  <1> QED
      BY <1>1, <1>2, <1>3 DEF Patch

(* A record with a builder's fields, each of its type, is a builder's.     *)
LEMMA IdleFields ==
  DOMAIN Idle = {"step", "todo", "table", "got", "entries", "from", "rules"}
  BY DEF Idle

(* A builder that replaces its own record by one of the same shape, and    *)
(* leaves the database alone, keeps the types.                             *)
LEMMA BuilderUpdate ==
  ASSUME TypeOK, NEW b \in Builders, NEW s, BuilderShape(s),
         builder' = [builder EXCEPT ![b] = s],
         UNCHANGED <<ingestVars, patcher, rules, built, relStamp, builds>>
  PROVE  TypeOK'
  <1>1. builder' = [c \in Builders |-> builder'[c]]
      BY DEF TypeOK
  <1>2. \A c \in Builders : BuilderShape(builder'[c])
      BY DEF TypeOK
  <1>3. \A c \in Builders : BuilderShape(builder[c])'
      BY <1>2 DEF BuilderShape
  <1> QED
      BY <1>1, <1>3 DEF TypeOK, ingestVars

(* What a builder does keeps the types.                                    *)
LEMMA BuildType ==
  ASSUME TypeOK, NEW b \in Builders, Build(b)
  PROVE  TypeOK'
  <1> DEFINE s == builder[b]
  <1>a. BuilderShape(s) /\ DOMAIN builder = Builders
      BY DEF TypeOK
  <1>b. /\ s.step \in BuilderSteps /\ s.todo \subseteq Relations /\ s.rules \in 0 .. rules
        /\ rules \in Nat
      BY <1>a, BoundsAssumption DEF BuilderShape, TypeOK
  <1>c. BuilderShape(Idle)
      BY <1>b DEF BuilderShape, Idle, BuilderSteps
  <1>1. CASE \E wanted \in (SUBSET Relations) \ {{}} : BuildStart(b, wanted)
    <2> PICK wanted \in SUBSET Relations : BuildStart(b, wanted)
        BY <1>1
    <2> PICK new : new = [Idle EXCEPT !.step = "next", !.todo = wanted, !.rules = rules]
        OBVIOUS
    <2>1. BuilderShape(new)
        BY <1>b DEF BuilderShape, Idle, BuilderSteps
    <2> QED
        BY <2>1, BuilderUpdate DEF BuildStart
  <1>2. CASE \E r \in Relations : BuildLock(b, r)
    <2> PICK r \in Relations : BuildLock(b, r)
        BY <1>2
    <2> PICK new : new = [s EXCEPT !.step = "stamps", !.table = r, !.got = {}, !.entries = <<>>,
                                   !.from = [n \in InputsOf(r) |-> {}]]
        OBVIOUS
    <2>1. BuilderShape(new)
        BY <1>a, IdleFields DEF BuilderShape, BuilderSteps
    <2> QED
        BY <2>1, BuilderUpdate DEF BuildLock
  <1>3. CASE \E n \in Staging \cup Relations : BuildReadStamp(b, n)
    <2> PICK n \in Staging \cup Relations : BuildReadStamp(b, n)
        BY <1>3
    <2> PICK new : new = [s EXCEPT !.got = s.got \cup {n},
                            !.entries = [m \in s.got \cup {n} |->
                                           IF m = n THEN EntryOf(n) ELSE s.entries[m]]]
        OBVIOUS
    <2>1. BuilderShape(new)
        BY <1>a, IdleFields DEF BuilderShape, BuilderSteps, BuildReadStamp
    <2> QED
        BY <2>1, BuilderUpdate DEF BuildReadStamp
  <1>4. CASE BuildTemp(b)
    <2> PICK new : new = [s EXCEPT !.step = "temp",
                            !.from = ReadNow(s.from, InputsOf(s.table), TempReads[s.table])]
        OBVIOUS
    <2>1. BuilderShape(new)
        BY <1>4, <1>a, IdleFields DEF BuilderShape, BuilderSteps, BuildTemp
    <2> QED
        BY <1>4, <2>1, BuilderUpdate DEF BuildTemp
  <1>5. CASE BuildRows(b)
    <2> PICK new : new = [s EXCEPT !.step = "built",
                            !.from = ReadNow(s.from, InputsOf(s.table), InputsOf(s.table))]
        OBVIOUS
    <2>1. BuilderShape(new)
        BY <1>5, <1>a, IdleFields DEF BuilderShape, BuilderSteps, BuildRows
    <2> QED
        BY <1>5, <2>1, BuilderUpdate DEF BuildRows
  <1>6. CASE BuildCommit(b)
    <2> PICK new : new = IF s.todo = {s.table} THEN Idle
                         ELSE [Idle EXCEPT !.step = "next", !.todo = s.todo \ {s.table},
                                           !.rules = s.rules]
        OBVIOUS
    <2>1. BuilderShape(new)
        BY <1>b, <1>c DEF BuilderShape, Idle, BuilderSteps
    <2>2. builder' = [builder EXCEPT ![b] = new]
          /\ UNCHANGED <<rows, stamp, runs, loader, patcher, rules>>
        BY <1>6, <1>a DEF BuildCommit, ingestVars
    <2>3. /\ builder' = [c \in Builders |-> builder'[c]]
          /\ \A c \in Builders : BuilderShape(builder[c])'
        BY <2>1, <2>2 DEF TypeOK, BuilderShape
    <2>4. builds' = builds + 1 /\ builds' \in 0 .. MaxBuilds
        BY <1>6, BoundsAssumption DEF BuildCommit, BuildIds, TypeOK
    <2>5. /\ built' = [r \in Relations |-> built'[r]]
          /\ relStamp' = [r \in Relations |-> relStamp'[r]]
        BY <1>6 DEF BuildCommit, TypeOK
    <2>6. ASSUME NEW r \in Relations
          PROVE  /\ built'[r].id \in 0 .. builds'
                 /\ relStamp'[r].id = built'[r].id
                 /\ relStamp'[r].rules = built'[r].rules
      <3>1. built[r].id \in 0 .. builds /\ builds \in Nat
          BY BoundsAssumption DEF TypeOK
      <3> QED
          BY <1>6, <2>4, <3>1 DEF BuildCommit, TypeOK
    <2> QED
        BY <2>2, <2>3, <2>4, <2>5, <2>6 DEF TypeOK
  <1>7. CASE BuildFail(b)
      BY <1>7, <1>c, BuilderUpdate DEF BuildFail
  <1> QED
      BY <1>1, <1>2, <1>3, <1>4, <1>5, <1>6, <1>7 DEF Build

(* New dedup rules keep the types.                                         *)
LEMMA DeployType ==
  ASSUME TypeOK, Deploy
  PROVE  TypeOK'
  <1>1. rules \in Nat /\ rules' \in 0 .. MaxRules /\ rules' = rules + 1
      BY BoundsAssumption DEF Deploy, TypeOK
  <1>2. ASSUME NEW c \in Builders
        PROVE  BuilderShape(builder[c])'
      BY <1>1 DEF Deploy, TypeOK, BuilderShape, buildVars
  <1> QED
      BY <1>1, <1>2 DEF Deploy, TypeOK, ingestVars, buildVars

(* A stutter keeps the types.                                              *)
LEMMA StutterType ==
  ASSUME TypeOK, UNCHANGED vars
  PROVE  TypeOK'
  BY DEF TypeOK, BuilderShape, vars

(* Every reachable state is well typed, in whatever order the processes    *)
(* take their steps.                                                       *)
THEOREM TypeCorrect == Spec => []TypeOK
  <1>1. TypeOK /\ [Next]_vars => TypeOK'
      BY IngestType, PatchType, BuildType, DeployType, StutterType DEF Next
  <1> QED
      BY InitType, <1>1, PTL DEF Spec

-----------------------------------------------------------------------------
(* The inductive invariant behind CurrentIsFaithful.  CurrentIsFaithful    *)
(* alone is not inductive: a build carries the stamps and rows it has read *)
(* over many steps before they become a relation's, and only the freshness *)
(* of run and build ids keeps a stamp that has changed from ever being     *)
(* equal again to one recorded before.                                     *)

(* An entry that has been recorded: a build already committed, or a stamp  *)
(* made of runs that are already over.                                     *)
EntryKnown(n, e) ==
  IF n \in Relations THEN e \in 0 .. builds
  ELSE /\ e \in Stamps
       /\ e # NoStamp =>
            /\ e.run \in RunIds /\ runs[e.run].status = "success"
            /\ e.patch # 0 => runs[e.patch].status = "success"

(* As long as an input still has the entry e, it still holds the rows seen *)
(* under that entry.                                                       *)
Witnessed(n, e, seen) ==
  e = EntryOf(n) /\ (n \in Staging => e # NoStamp) => seen \subseteq {ContentOf(n)}

(* A running load is a started run of a staging table, unstamped as soon   *)
(* as its rows are gone.                                                   *)
LoadInv ==
  \A i \in RunIds : Loading(i) =>
    /\ runs[i].status = "started"
    /\ TableOf(i) \in Staging
    /\ loader[i].step # "fetch" => stamp[TableOf(i)] = NoStamp

StampInv == \A t \in Staging : EntryKnown(t, stamp[t])

(* What a build has recorded and read so far.                              *)
BuildInv ==
  \A b \in Builders : InTransaction(b) =>
    /\ \A n \in builder[b].got : /\ EntryKnown(n, builder[b].entries[n])
                                 /\ Witnessed(n, builder[b].entries[n], builder[b].from[n])
    /\ builder[b].step = "stamps" =>
         \A n \in InputsOf(builder[b].table) : builder[b].from[n] = {}
    /\ builder[b].step # "stamps" => builder[b].got = InputsOf(builder[b].table)
    /\ builder[b].step = "built" =>
         \A n \in InputsOf(builder[b].table) : builder[b].from[n] # {}

(* What a relation's stamp records and its rows were read from.            *)
RelationInv ==
  \A r \in Relations : relStamp[r].id # 0 =>
    \A n \in InputsOf(r) : /\ EntryKnown(n, relStamp[r].entries[n])
                           /\ Witnessed(n, relStamp[r].entries[n], built[r].from[n])
                           /\ built[r].from[n] # {}

IInv == /\ TypeOK
        /\ OneIngestPerTable
        /\ LoadInv
        /\ StampInv
        /\ BuildInv
        /\ RelationInv

-----------------------------------------------------------------------------
(* A run that has succeeded stays successful: only an unused or a started  *)
(* run's row is written.                                                   *)
LEMMA SuccessStays ==
  ASSUME IInv, [SerialNext]_vars, NEW j \in RunIds, runs[j].status = "success"
  PROVE  runs'[j].status = "success"
  <1>a. runs \in [RunIds -> RunRows]
      BY DEF IInv, TypeOK
  <1>1. ASSUME NEW i \in RunIds, Ingest(i)
        PROVE  runs'[j].status = "success"
    <2>1. Loading(i) => runs[i].status = "started"
        BY DEF IInv, LoadInv
    <2>2. \/ runs' = runs
          \/ NextRun(i) /\ \E v : runs' = [runs EXCEPT ![i] = v]
          \/ Loading(i) /\ \E v : runs' = [runs EXCEPT ![i].status = v]
        BY <1>1 DEF Ingest, IngestStart, IngestRecreate, IngestCopy, IngestDedupe,
                    IngestValidate, IngestFail, IngestFinish, IngestCrash, Loading
    <2>3. i = j => runs' = runs
        BY <2>1, <2>2 DEF NextRun
    <2> QED
        BY <1>a, <2>2, <2>3
  <1>2. ASSUME Patch
        PROVE  runs'[j].status = "success"
    <2>1. \/ runs' = runs
          \/ \E i \in RunIds : \E v : NextRun(i) /\ runs' = [runs EXCEPT ![i] = v]
        BY <1>2 DEF Patch, PatchRewrite, PatchCommit, PatchAbort, ingestVars
    <2> QED
        BY <1>a, <2>1 DEF NextRun
  <1>3. ASSUME NEW b \in Builders, Build(b)
        PROVE  runs' = runs
      BY <1>3 DEF Build, BuildStart, BuildLock, BuildReadStamp, BuildTemp, BuildRows,
                  BuildCommit, BuildFail, ingestVars
  <1>4. Deploy \/ UNCHANGED vars => runs' = runs
      BY DEF Deploy, ingestVars, vars
  <1> QED
      BY <1>1, <1>2, <1>3, <1>4 DEF SerialNext, Next

(* What a step may do to one staging table.                                *)
TableStep(t) ==
  (* rows do not change under a stamp that stays, *)
  /\ stamp'[t] = stamp[t] /\ stamp[t] # NoStamp => rows'[t] = rows[t]
  (* and a new stamp has never been recorded before, but is made of runs   *)
  (* that are over now.                                                    *)
  /\ stamp'[t] # stamp[t] /\ stamp'[t] # NoStamp =>
       /\ \A e : EntryKnown(t, e) => e # stamp'[t]
       /\ EntryKnown(t, stamp[t])'

(* Each step of an ingest moves a staging table as TableStep allows.       *)
LEMMA IngestTable ==
  ASSUME IInv, NEW t \in Staging, NEW i \in RunIds, Ingest(i)
  PROVE  TableStep(t)
  <1>a. /\ rows \in [Staging -> RowSets]
        /\ stamp \in [Staging -> Stamps]
        /\ runs \in [RunIds -> RunRows]
      BY DEF IInv, TypeOK
  <1>b. Loading(i) => /\ runs[i].status = "started"
                      /\ TableOf(i) \in Staging
                      /\ loader[i].step # "fetch" => stamp[TableOf(i)] = NoStamp
      BY DEF IInv, LoadInv
  <1>1. CASE UNCHANGED <<rows, stamp>>
      BY <1>1 DEF TableStep
  <1>2. CASE IngestRecreate(i)
      BY <1>2, <1>a, <1>b DEF IngestRecreate, TableStep
  <1>3. CASE IngestCopy(i) \/ IngestDedupe(i)
      BY <1>3, <1>a, <1>b DEF IngestCopy, IngestDedupe, Loading, TableStep
  <1>4. CASE IngestFinish(i)
    <2>1. CASE t # TableOf(i)
        BY <1>4, <1>a, <2>1 DEF IngestFinish, TableStep
    <2>2. CASE t = TableOf(i)
      <3>1. stamp'[t] = [run |-> i, patch |-> 0] /\ runs'[i].status = "success"
            /\ stamp'[t].run = i /\ stamp'[t].patch = 0
          BY <1>4, <1>a, <2>2 DEF IngestFinish, RunRows
      <3>2. runs[i].status = "started" /\ stamp[t] = NoStamp
          BY <1>4, <1>b, <2>2 DEF IngestFinish, Loading
      <3>3. i \in Nat /\ i # 0 /\ NoStamp.run = 0
          BY DEF RunIds, NoStamp
      <3>4. \A e : EntryKnown(t, e) => e # stamp'[t]
          BY <3>1, <3>2, <3>3, TopologyAssumption DEF EntryKnown
      <3>5. EntryKnown(t, stamp[t])'
          BY <3>1, TopologyAssumption DEF EntryKnown, Stamps
      <3> QED
          BY <3>2, <3>4, <3>5 DEF TableStep
    <2> QED
        BY <2>1, <2>2
  <1> QED
      BY <1>1, <1>2, <1>3, <1>4 DEF Ingest, IngestStart, IngestValidate, IngestFail, IngestCrash

(* Each step of a patch moves a staging table as TableStep allows.         *)
LEMMA PatchTable ==
  ASSUME IInv, NEW t \in Staging, Patch
  PROVE  TableStep(t)
  <1>a. /\ stamp[t] \in Stamps
        /\ runs \in [RunIds -> RunRows]
        /\ EntryKnown(t, stamp[t])
      BY DEF IInv, TypeOK, StampInv
  <1>1. CASE UNCHANGED <<rows, stamp>>
      BY <1>1 DEF TableStep
  <1>2. CASE \E i \in RunIds : PatchCommit(i)
    <2> PICK i \in RunIds : PatchCommit(i)
        BY <1>2
    <2>1. CASE t \notin Patched \/ stamp[t] = NoStamp
        BY <2>1 DEF PatchCommit, PatchedStamp, TableStep
    <2>2. CASE t \in Patched /\ stamp[t] # NoStamp
      <3>1. /\ stamp'[t] = [stamp[t] EXCEPT !.patch = i]
            /\ stamp'[t].run = stamp[t].run /\ stamp'[t].patch = i
            /\ stamp'[t] \in Stamps
          BY <1>a, <2>2 DEF PatchCommit, PatchedStamp, Stamps
      <3>2. /\ runs[i].status = "unused"
            /\ runs'[i].status = "success"
            /\ \A j \in RunIds : j # i => runs'[j] = runs[j]
          BY <1>a DEF PatchCommit, NextRun
      <3>3. i \in Nat /\ i # 0
          BY DEF RunIds
      <3>4. stamp[t].run \in RunIds /\ runs[stamp[t].run].status = "success"
          BY <1>a, <2>2, TopologyAssumption DEF EntryKnown
      <3>5. \A e : EntryKnown(t, e) => e # stamp'[t]
        <4> SUFFICES ASSUME EntryKnown(t, stamp'[t])
                     PROVE  FALSE
            OBVIOUS
        <4>1. stamp'[t] # NoStamp
            BY <3>1, <3>3 DEF NoStamp
        <4> QED
            BY <4>1, <3>1, <3>2, <3>3, TopologyAssumption DEF EntryKnown
      <3>6. EntryKnown(t, stamp[t])'
          BY <3>1, <3>2, <3>4, TopologyAssumption DEF EntryKnown
      <3>7. stamp'[t] # stamp[t]
          BY <3>5, <1>a
      <3> QED
          BY <3>5, <3>6, <3>7 DEF TableStep
    <2> QED
        BY <2>1, <2>2
  <1> QED
      BY <1>1, <1>2 DEF Patch, PatchRewrite, PatchAbort, ingestVars

(* Every serial step moves a staging table as TableStep allows.            *)
LEMMA EveryTableStep ==
  ASSUME IInv, [SerialNext]_vars, NEW t \in Staging
  PROVE  TableStep(t)
  <1>1. ASSUME NEW b \in Builders, Build(b)
        PROVE  UNCHANGED <<rows, stamp>>
      BY <1>1 DEF Build, BuildStart, BuildLock, BuildReadStamp, BuildTemp, BuildRows,
                  BuildCommit, BuildFail, ingestVars
  <1>2. Deploy \/ UNCHANGED vars => UNCHANGED <<rows, stamp>>
      BY DEF Deploy, ingestVars, vars
  <1>3. UNCHANGED <<rows, stamp>> => TableStep(t)
      BY DEF TableStep
  <1> QED
      BY <1>1, <1>2, <1>3, IngestTable, PatchTable DEF SerialNext, Next

(* What a step may do to one relation: its stamp and rows stay as they     *)
(* are, or are those of a build with a new id.                             *)
LEMMA RelationStep ==
  ASSUME IInv, [SerialNext]_vars, NEW r \in Relations
  PROVE  /\ builds' \in Nat /\ builds \in Nat /\ builds' >= builds
         /\ \/ relStamp'[r] = relStamp[r] /\ built'[r] = built[r]
            \/ relStamp'[r].id = builds + 1 /\ builds' = builds + 1
  <1>a. /\ builds \in Nat
        /\ relStamp = [q \in Relations |-> relStamp[q]]
        /\ built = [q \in Relations |-> built[q]]
      BY BoundsAssumption DEF IInv, TypeOK
  <1>1. CASE UNCHANGED <<built, relStamp, builds>>
      BY <1>1, <1>a
  <1>2. CASE \E b \in Builders : BuildCommit(b)
    <2> PICK b \in Builders : BuildCommit(b)
        BY <1>2
    <2> DEFINE t == builder[b].table
               newStamp == [id |-> builds + 1, entries |-> builder[b].entries,
                            rules |-> builder[b].rules]
               newRows == [id |-> builds + 1, from |-> builder[b].from,
                           rules |-> builder[b].rules]
    <2>1. /\ builds' = builds + 1
          /\ relStamp' = [relStamp EXCEPT ![t] = newStamp]
          /\ built' = [built EXCEPT ![t] = newRows]
        BY DEF BuildCommit
    <2>2. newStamp.id = builds + 1
        OBVIOUS
    <2> HIDE DEF t, newStamp, newRows
    <2>3. CASE r = t
        BY <1>a, <2>1, <2>2, <2>3
    <2>4. CASE r # t
      <3>1. relStamp'[r] = relStamp[r] /\ built'[r] = built[r]
          BY <1>a, <2>1, <2>4
      <3>2. builds \in Nat /\ builds' = builds + 1
          BY <1>a, <2>1
      <3> QED
          BY <3>1, <3>2
    <2> QED
        BY <2>3, <2>4
  <1>3. ASSUME NEW i \in RunIds, Ingest(i)
        PROVE  UNCHANGED <<built, relStamp, builds>>
      BY <1>3 DEF Ingest, IngestStart, IngestRecreate, IngestCopy, IngestDedupe,
                  IngestValidate, IngestFail, IngestFinish, IngestCrash, buildVars
  <1>4. Patch \/ Deploy \/ UNCHANGED vars => UNCHANGED <<built, relStamp, builds>>
      BY DEF Patch, PatchRewrite, PatchCommit, PatchAbort, Deploy, buildVars, vars
  <1> QED
      BY <1>1, <1>2, <1>3, <1>4
      DEF SerialNext, Next, Build, BuildStart, BuildLock, BuildReadStamp, BuildTemp, BuildRows,
          BuildFail

(* A recorded entry stays known, and as long as its input still has it the *)
(* input still holds the rows seen under it: an entry that was replaced    *)
(* never comes back.                                                       *)
LEMMA EntryStep ==
  ASSUME IInv, [SerialNext]_vars, NEW n \in Staging \cup Relations, NEW e, NEW seen,
         EntryKnown(n, e)
  PROVE  /\ EntryKnown(n, e)'
         /\ Witnessed(n, e, seen) => Witnessed(n, e, seen)'
  <1>1. CASE n \in Relations
    <2>1. EntryKnown(n, e)'
        BY <1>1, RelationStep DEF EntryKnown
    <2>2. relStamp[n].id = built[n].id /\ n \notin Staging
        BY <1>1, TopologyAssumption DEF IInv, TypeOK
    <2>3. Witnessed(n, e, seen) => Witnessed(n, e, seen)'
        BY <1>1, <2>2, RelationStep DEF Witnessed, EntryOf, ContentOf, EntryKnown
    <2> QED
        BY <2>1, <2>3
  <1>2. CASE n \in Staging
    <2>0. n \notin Relations
        BY <1>2, TopologyAssumption
    <2>1. EntryKnown(n, e)'
        BY <2>0, SuccessStays DEF EntryKnown, Stamps
    <2>2. TableStep(n)
        BY <1>2, EveryTableStep
    <2>3. Witnessed(n, e, seen) => Witnessed(n, e, seen)'
        BY <1>2, <2>0, <2>2 DEF Witnessed, EntryOf, ContentOf, TableStep
    <2> QED
        BY <2>1, <2>3
  <1> QED
      BY <1>1, <1>2

-----------------------------------------------------------------------------
(* The parts of the invariant, one after the other.                        *)

LEMMA InitInv == Init => IInv
  <1> SUFFICES ASSUME Init PROVE IInv
      OBVIOUS
  <1>1. OneIngestPerTable /\ LoadInv
      BY DEF Init, OneIngestPerTable, LoadInv, Loading
  <1>2. StampInv
    <2>1. NoStamp \in Stamps
        BY DEF NoStamp, Stamps
    <2> QED
        BY <2>1, TopologyAssumption DEF Init, StampInv, EntryKnown
  <1>3. BuildInv /\ RelationInv
      BY DEF Init, BuildInv, InTransaction, Idle, RelationInv, NoRelStamp
  <1> QED
      BY <1>1, <1>2, <1>3, InitType DEF IInv

(* No serial step leaves a stamp whose entry is not known.                 *)
LEMMA StampStep ==
  ASSUME IInv, [SerialNext]_vars
  PROVE  StampInv'
  <1> SUFFICES ASSUME NEW t \in Staging PROVE EntryKnown(t, stamp[t])'
      BY DEF StampInv
  <1>1. EntryKnown(t, stamp[t])
      BY DEF IInv, StampInv
  <1>2. CASE stamp'[t] = stamp[t]
    <2>1. \A e : EntryKnown(t, e) => EntryKnown(t, e)'
        BY EntryStep
    <2> QED
        BY <1>1, <1>2, <2>1 DEF EntryKnown
  <1>3. CASE stamp'[t] = NoStamp
    <2>1. NoStamp \in Stamps
        BY DEF NoStamp, Stamps
    <2> QED
        BY <1>3, <2>1, TopologyAssumption DEF EntryKnown
  <1>4. CASE stamp'[t] # stamp[t] /\ stamp'[t] # NoStamp
      BY <1>4, EveryTableStep DEF TableStep
  <1> QED
      BY <1>2, <1>3, <1>4

(* A running load stays a started one, of a table unstamped once its rows  *)
(* are gone.                                                               *)
LEMMA LoadStep ==
  ASSUME IInv, [SerialNext]_vars
  PROVE  LoadInv'
  <1>a. /\ stamp \in [Staging -> Stamps]
        /\ runs \in [RunIds -> RunRows]
        /\ loader \in [RunIds -> Loaders]
      BY DEF IInv, TypeOK
  <1> SUFFICES ASSUME NEW j \in RunIds, Loading(j)'
               PROVE  /\ runs'[j].status = "started"
                      /\ TableOf(j)' \in Staging
                      /\ loader'[j].step # "fetch" => stamp'[TableOf(j)'] = NoStamp
      BY DEF LoadInv
  <1>b. Loading(j) => /\ runs[j].status = "started"
                      /\ TableOf(j) \in Staging
                      /\ loader[j].step # "fetch" => stamp[TableOf(j)] = NoStamp
      BY DEF IInv, LoadInv
  <1>1. ASSUME NEW i \in RunIds, Ingest(i), i # j
        PROVE  /\ runs'[j] = runs[j] /\ loader'[j] = loader[j]
               /\ TableOf(j) \in Staging /\ stamp[TableOf(j)] = NoStamp =>
                    stamp'[TableOf(j)] = NoStamp
    <2>1. runs'[j] = runs[j] /\ loader'[j] = loader[j]
        BY <1>1, <1>a DEF Ingest, IngestStart, IngestRecreate, IngestCopy, IngestDedupe,
                          IngestValidate, IngestFail, IngestFinish, IngestCrash
    <2>2. Loading(j)
        BY <2>1 DEF Loading
    <2>3. Loading(i) => TableOf(i) # TableOf(j)
        BY <1>1, <2>2 DEF IInv, OneIngestPerTable
    <2>4. TableOf(j) \in Staging /\ stamp[TableOf(j)] = NoStamp => stamp'[TableOf(j)] = NoStamp
        BY <1>1, <1>a, <2>3 DEF Ingest, IngestStart, IngestRecreate, IngestCopy, IngestDedupe,
                    IngestValidate, IngestFail, IngestFinish, IngestCrash, Loading
    <2> QED
        BY <2>1, <2>4
  <1>2. ASSUME Ingest(j)
        PROVE  /\ runs'[j].status = "started"
               /\ TableOf(j)' \in Staging
               /\ loader'[j].step # "fetch" => stamp'[TableOf(j)'] = NoStamp
    <2>1. CASE \E t \in Staging, v \in Versions, force \in BOOLEAN : IngestStart(j, t, v, force)
        BY <2>1, <1>a DEF IngestStart, TableOf, Loaders
    <2>2. CASE IngestRecreate(j)
        BY <2>2, <1>a, <1>b DEF IngestRecreate, Loading, TableOf
    <2>3. CASE IngestCopy(j) \/ IngestDedupe(j) \/ IngestValidate(j)
        BY <2>3, <1>a, <1>b DEF IngestCopy, IngestDedupe, IngestValidate, Loading, TableOf
    <2>4. CASE IngestFail(j) \/ IngestFinish(j) \/ IngestCrash(j)
        BY <2>4, <1>a DEF IngestFail, IngestFinish, IngestCrash, Loading, Loaders
    <2> QED
        BY <1>2, <2>1, <2>2, <2>3, <2>4 DEF Ingest
  <1>3. ASSUME Patch
        PROVE  /\ runs'[j].status = "started"
               /\ TableOf(j)' \in Staging
               /\ loader'[j].step # "fetch" => stamp'[TableOf(j)'] = NoStamp
    <2>1. loader' = loader
        BY <1>3 DEF Patch, PatchRewrite, PatchCommit, PatchAbort, ingestVars
    <2>2. Loading(j)
        BY <2>1 DEF Loading
    <2>3. runs'[j] = runs[j]
        BY <1>3, <1>a, <1>b, <2>2
        DEF Patch, PatchRewrite, PatchCommit, PatchAbort, ingestVars, NextRun
    <2>4. stamp[TableOf(j)] = NoStamp => stamp'[TableOf(j)] = NoStamp
        BY <1>3, <1>b, <2>2
        DEF Patch, PatchRewrite, PatchCommit, PatchAbort, PatchedStamp, ingestVars
    <2> QED
        BY <1>b, <2>1, <2>2, <2>3, <2>4 DEF TableOf
  <1>4. ASSUME UNCHANGED <<stamp, runs, loader>>
        PROVE  /\ runs'[j].status = "started"
               /\ TableOf(j)' \in Staging
               /\ loader'[j].step # "fetch" => stamp'[TableOf(j)'] = NoStamp
      BY <1>4, <1>b DEF Loading, TableOf
  <1>5. ASSUME NEW b \in Builders, Build(b)
        PROVE  UNCHANGED <<stamp, runs, loader>>
      BY <1>5 DEF Build, BuildStart, BuildLock, BuildReadStamp, BuildTemp, BuildRows,
                  BuildCommit, BuildFail, ingestVars
  <1>6. Deploy \/ UNCHANGED vars => UNCHANGED <<stamp, runs, loader>>
      BY DEF Deploy, ingestVars, vars
  <1>7. ASSUME NEW i \in RunIds, Ingest(i), i # j
        PROVE  /\ runs'[j].status = "started"
               /\ TableOf(j)' \in Staging
               /\ loader'[j].step # "fetch" => stamp'[TableOf(j)'] = NoStamp
      BY <1>7, <1>1, <1>b DEF Loading, TableOf
  <1> QED
      BY <1>2, <1>3, <1>4, <1>5, <1>6, <1>7 DEF SerialNext, Next

(* What a step may do to a builder in its transaction.                     *)
BuilderOK(s) ==
  s.step \in {"stamps", "temp", "built"} =>
    /\ \A n \in s.got : EntryKnown(n, s.entries[n]) /\ Witnessed(n, s.entries[n], s.from[n])
    /\ s.step = "stamps" => \A n \in InputsOf(s.table) : s.from[n] = {}
    /\ s.step # "stamps" => s.got = InputsOf(s.table)
    /\ s.step = "built" => \A n \in InputsOf(s.table) : s.from[n] # {}

(* What a builder has recorded and read stays right, whatever step is      *)
(* taken.                                                                  *)
LEMMA BuilderStays ==
  ASSUME IInv, [SerialNext]_vars, NEW s, BuilderShape(s)', BuilderOK(s)
  PROVE  BuilderOK(s)'
  <1>1. s.step \in {"stamps", "temp", "built"} => s.got \subseteq Staging \cup Relations
      BY TopologyAssumption DEF BuilderShape, InputsOf
  <1>2. \A n \in Staging \cup Relations : \A e, seen :
          EntryKnown(n, e) => /\ EntryKnown(n, e)'
                              /\ Witnessed(n, e, seen) => Witnessed(n, e, seen)'
      BY EntryStep
  <1> QED
      BY <1>1, <1>2 DEF BuilderOK

(* What a builder reads for itself, before anything else changes.          *)
LEMMA BuilderMoves ==
  ASSUME IInv, NEW b \in Builders, Build(b), BuilderOK(builder[b])
  PROVE  BuilderOK(builder'[b])
  <1> DEFINE s == builder[b]
  <1>a. /\ DOMAIN builder = Builders
        /\ DOMAIN s = {"step", "todo", "table", "got", "entries", "from", "rules"}
        /\ s.step \in {"stamps", "temp", "built"} =>
             s.table \in Relations /\ s.got \subseteq InputsOf(s.table)
      BY IdleFields DEF IInv, TypeOK, BuilderShape
  <1>1. CASE \E wanted \in (SUBSET Relations) \ {{}} : BuildStart(b, wanted)
      BY <1>1, <1>a DEF BuildStart, BuilderOK, Idle
  <1>2. CASE \E r \in Relations : BuildLock(b, r)
      BY <1>2, <1>a DEF BuildLock, BuilderOK
  <1>3. CASE \E n \in Staging \cup Relations : BuildReadStamp(b, n)
    <2> PICK n \in Staging \cup Relations : BuildReadStamp(b, n)
        BY <1>3
    <2> PICK t : t = builder'[b]
        OBVIOUS
    <2>1. /\ t.step = "stamps" /\ t.table = s.table /\ t.from = s.from
          /\ t.got = s.got \cup {n}
          /\ t.entries = [m \in s.got \cup {n} |-> IF m = n THEN EntryOf(n) ELSE s.entries[m]]
        BY <1>a DEF BuildReadStamp
    <2>2. EntryKnown(n, EntryOf(n))
      <3>1. CASE n \in Relations
          BY <3>1 DEF IInv, TypeOK, EntryKnown, EntryOf
      <3>2. CASE n \in Staging /\ n \notin Relations
          BY <3>2 DEF IInv, StampInv, EntryOf
      <3> QED
          BY <3>1, <3>2
    <2>3. s.step = "stamps" /\ s.from[n] = {}
        BY DEF BuildReadStamp, BuilderOK
    <2>4. BuilderOK(t)
        BY <2>1, <2>2, <2>3 DEF BuilderOK, Witnessed
    <2> QED
        BY <2>4
  <1>4. CASE BuildTemp(b) \/ BuildRows(b)
    <2> PICK t : t = builder'[b]
        OBVIOUS
    <2>1. PICK names \in SUBSET InputsOf(s.table) :
            /\ t.from = ReadNow(s.from, InputsOf(s.table), names)
            /\ t.table = s.table /\ t.got = s.got /\ t.entries = s.entries
            /\ \/ t.step = "temp"
               \/ t.step = "built" /\ names = InputsOf(s.table)
      <3>1. CASE BuildTemp(b)
        <4>1. TempReads[s.table] \in SUBSET InputsOf(s.table)
            BY <3>1, <1>a, TopologyAssumption DEF BuildTemp
        <4> QED
            BY <3>1, <1>a, <4>1 DEF BuildTemp
      <3>2. CASE BuildRows(b)
          BY <3>2, <1>a DEF BuildRows
      <3> QED
          BY <1>4, <3>1, <3>2
    <2>2. s.got = InputsOf(s.table) /\ s.step \in {"stamps", "temp"}
        BY <1>4 DEF BuildTemp, BuildRows, BuilderOK
    <2>3. \A n \in InputsOf(s.table) :
            t.from[n] = IF n \in names THEN s.from[n] \cup {ContentOf(n)} ELSE s.from[n]
        BY <2>1 DEF ReadNow
    <2>4. \A n \in InputsOf(s.table) :
            EntryKnown(n, s.entries[n]) /\ Witnessed(n, s.entries[n], t.from[n])
        BY <2>2, <2>3 DEF BuilderOK, Witnessed
    <2>5. BuilderOK(t)
        BY <2>1, <2>2, <2>3, <2>4 DEF BuilderOK
    <2> QED
        BY <2>5
  <1>5. CASE BuildCommit(b) \/ BuildFail(b)
    <2>1. builder'[b].step \in {"idle", "next"}
      <3>1. Idle.step = "idle"
          BY DEF Idle
      <3> DEFINE next == [Idle EXCEPT !.step = "next", !.todo = s.todo \ {s.table},
                                      !.rules = s.rules]
      <3>2. next.step = "next"
          BY DEF Idle
      <3>3. builder'[b] \in {Idle, next}
          BY <1>5, <1>a DEF BuildCommit, BuildFail
      <3> HIDE DEF next
      <3> QED
          BY <3>1, <3>2, <3>3
    <2> QED
        BY <2>1 DEF BuilderOK
  <1> QED
      BY <1>1, <1>2, <1>3, <1>4, <1>5 DEF Build

(* What a build has recorded stays true of what it has read.               *)
LEMMA BuildStep ==
  ASSUME IInv, [SerialNext]_vars, TypeOK'
  PROVE  BuildInv'
  <1> SUFFICES ASSUME NEW b \in Builders
               PROVE  BuilderOK(builder[b])'
      BY DEF BuildInv, BuilderOK, InTransaction
  <1> PICK t : t = builder'[b]
      OBVIOUS
  <1>1. BuilderShape(t)'
      BY DEF TypeOK
  <1>2. BuilderOK(builder[b])
      BY DEF IInv, BuildInv, BuilderOK, InTransaction
  <1>3. BuilderOK(t)
    <2>1. CASE Build(b)
        BY <1>2, <2>1, BuilderMoves
    <2>2. ASSUME NEW c \in Builders, c # b, Build(c)
          PROVE  builder'[b] = builder[b]
        BY <2>2 DEF Build, BuildStart, BuildLock, BuildReadStamp, BuildTemp, BuildRows,
                    BuildCommit, BuildFail, IInv, TypeOK
    <2>3. ASSUME NEW i \in RunIds, Ingest(i)
          PROVE  builder' = builder
        BY <2>3 DEF Ingest, IngestStart, IngestRecreate, IngestCopy, IngestDedupe,
                    IngestValidate, IngestFail, IngestFinish, IngestCrash, buildVars
    <2>4. Patch \/ Deploy \/ UNCHANGED vars => builder' = builder
        BY DEF Patch, PatchRewrite, PatchCommit, PatchAbort, Deploy, buildVars, vars
    <2> QED
        BY <1>2, <2>1, <2>2, <2>3, <2>4 DEF SerialNext, Next
  <1>4. BuilderOK(t)'
      BY <1>1, <1>3, BuilderStays
  <1> QED
      BY <1>4 DEF BuilderOK

(* A relation's stamp stays true of the rows it was read from.             *)
LEMMA RelationInvStep ==
  ASSUME IInv, [SerialNext]_vars
  PROVE  RelationInv'
  <1> DEFINE Right(n, e, seen) == EntryKnown(n, e) /\ Witnessed(n, e, seen) /\ seen # {}
  <1>a. ASSUME NEW n \in Staging \cup Relations, NEW e, NEW seen, Right(n, e, seen)
        PROVE  /\ EntryKnown(n, e)' /\ Witnessed(n, e, seen)' /\ seen # {}
      BY <1>a, EntryStep
  <1> SUFFICES ASSUME NEW r \in Relations, relStamp'[r].id # 0, NEW n \in InputsOf(r),
                      NEW e, e = relStamp'[r].entries[n], NEW seen, seen = built'[r].from[n]
               PROVE  /\ EntryKnown(n, e)' /\ Witnessed(n, e, seen)' /\ seen # {}
      BY DEF RelationInv, EntryKnown, Witnessed
  <1>b. n \in Staging \cup Relations
      BY TopologyAssumption DEF InputsOf
  <1>c. /\ relStamp = [q \in Relations |-> relStamp[q]]
        /\ built = [q \in Relations |-> built[q]]
      BY DEF IInv, TypeOK
  <1>1. CASE relStamp'[r] = relStamp[r] /\ built'[r] = built[r]
    <2>1. Right(n, e, seen)
        BY <1>1 DEF IInv, RelationInv
    <2> QED
        BY <1>a, <1>b, <2>1
  <1>2. ASSUME NEW b \in Builders, BuildCommit(b), r = builder[b].table
        PROVE  Right(n, e, seen)
    <2>1. builder[b].step = "built"
        BY <1>2 DEF BuildCommit
    <2>2. e = builder[b].entries[n] /\ seen = builder[b].from[n]
        BY <1>2, <1>c DEF BuildCommit
    <2> QED
        BY <1>2, <2>1, <2>2 DEF IInv, BuildInv, InTransaction
  <1>3. ASSUME NEW b \in Builders, BuildCommit(b), r # builder[b].table
        PROVE  relStamp'[r] = relStamp[r] /\ built'[r] = built[r]
      BY <1>3, <1>c DEF BuildCommit
  <1>4. ASSUME NEW i \in RunIds, Ingest(i)
        PROVE  UNCHANGED <<built, relStamp>>
      BY <1>4 DEF Ingest, IngestStart, IngestRecreate, IngestCopy, IngestDedupe,
                  IngestValidate, IngestFail, IngestFinish, IngestCrash, buildVars
  <1>5. Patch \/ Deploy \/ UNCHANGED vars => UNCHANGED <<built, relStamp>>
      BY DEF Patch, PatchRewrite, PatchCommit, PatchAbort, Deploy, buildVars, vars
  <1>6. ASSUME NEW b \in Builders, Build(b), ~BuildCommit(b)
        PROVE  UNCHANGED <<built, relStamp>>
      BY <1>6 DEF Build, BuildStart, BuildLock, BuildReadStamp, BuildTemp, BuildRows, BuildFail
  <1>7. \/ relStamp'[r] = relStamp[r] /\ built'[r] = built[r]
        \/ \E b \in Builders : BuildCommit(b) /\ r = builder[b].table
      BY <1>3, <1>4, <1>5, <1>6 DEF SerialNext, Next
  <1> QED
      BY <1>1, <1>2, <1>7, <1>a, <1>b

(* Every serial step keeps the inductive invariant.                        *)
LEMMA IInvStep == IInv /\ [SerialNext]_vars => IInv'
  <1> SUFFICES ASSUME IInv, [SerialNext]_vars PROVE IInv'
      OBVIOUS
  <1>1. TypeOK'
      BY IngestType, PatchType, BuildType, DeployType, StutterType DEF IInv, SerialNext, Next
  <1>2. OneIngestPerTable'
    <2>1. UNCHANGED vars => OneIngestPerTable'
        BY DEF IInv, OneIngestPerTable, Loading, TableOf, vars
    <2> QED
        BY <2>1 DEF SerialNext
  <1> QED
      BY <1>1, <1>2, LoadStep, StampStep, BuildStep, RelationInvStep DEF IInv

(* The comparison of comments is sound: what relation_states calls current *)
(* holds exactly what its inputs hold.                                     *)
LEMMA InvIsFaithful == IInv => CurrentIsFaithful
  <1> SUFFICES ASSUME IInv, NEW r \in Relations, RelationCurrent(r)
               PROVE  /\ built[r].rules = rules
                      /\ \A n \in InputsOf(r) : built[r].from[n] = {ContentOf(n)}
      BY DEF CurrentIsFaithful
  <1>1. /\ relStamp[r].id # 0 /\ relStamp[r].rules = rules
        /\ \A n \in InputsOf(r) : relStamp[r].entries[n] = EntryOf(n)
        /\ \A t \in StagingInputs[r] : stamp[t] # NoStamp
      BY DEF RelationCurrent, UpToDate, RecordsInputs, Blocked, Unstamped
  <1>2. built[r].rules = rules
      BY <1>1 DEF IInv, TypeOK
  <1>3. ASSUME NEW n \in InputsOf(r)
        PROVE  built[r].from[n] = {ContentOf(n)}
    <2>1. n \in Staging => n \in StagingInputs[r] /\ EntryOf(n) = stamp[n]
        BY TopologyAssumption DEF InputsOf, EntryOf
    <2>2. Witnessed(n, EntryOf(n), built[r].from[n]) /\ built[r].from[n] # {}
        BY <1>1 DEF IInv, RelationInv
    <2> QED
        BY <1>1, <2>1, <2>2 DEF Witnessed
  <1> QED
      BY <1>2, <1>3

(* When no source is refreshed by two processes at once, a relation whose  *)
(* comments say it is current was built, by every statement of its build,  *)
(* from the rows its inputs hold now, under the rules of the code deployed *)
(* now.                                                                    *)
THEOREM CurrentRelationsAreFaithful == SerialSpec => []CurrentIsFaithful
  <1>1. SerialSpec => []IInv
      BY InitInv, IInvStep, PTL DEF SerialSpec
  <1> QED
      BY <1>1, InvIsFaithful, PTL

(* Under the same practice a table that has lost its rows to a load still  *)
(* running carries no stamp.                                               *)
THEOREM RunningLoadsAreUnstamped == SerialSpec => []RunningLoadIsUnstamped
  <1>1. SerialSpec => []IInv
      BY InitInv, IInvStep, PTL DEF SerialSpec
  <1>2. IInv => RunningLoadIsUnstamped
      BY DEF IInv, LoadInv, RunningLoadIsUnstamped, Loading
  <1> QED
      BY <1>1, <1>2, PTL

(* And rows never change under a stamp that stays as it was.               *)
THEOREM RowsMoveWithStamp == SerialSpec => RowsMoveTheirStamp
  <1>1. SerialSpec => []IInv
      BY InitInv, IInvStep, PTL DEF SerialSpec
  <1>2. IInv /\ [SerialNext]_vars =>
          [\A t \in Staging : rows'[t] # rows[t] /\ stamp[t] # NoStamp
                                => stamp'[t] # stamp[t]]_vars
      BY EveryTableStep DEF TableStep
  <1> QED
      BY <1>1, <1>2, PTL DEF SerialSpec, RowsMoveTheirStamp

(* Two current relations that read the same staging table were built from  *)
(* the same rows of it.                                                    *)
THEOREM CurrentRelationsAgreeAlways == SerialSpec => []CurrentRelationsAgree
  <1>1. CurrentIsFaithful => CurrentRelationsAgree
      BY DEF CurrentIsFaithful, CurrentRelationsAgree, InputsOf
  <1> QED
      BY <1>1, CurrentRelationsAreFaithful, PTL

-----------------------------------------------------------------------------
(* What a stamp says of the rows.  RelationInv ties rows to a stamp while  *)
(* it stays; the load a stamp names is tied to the rows by what a running  *)
(* load has put into its table, and by the lock of a build that has read   *)
(* the stamp.                                                              *)

(* The COPY batches of a whole load.                                       *)
Whole(i) == {i} \X (1 .. Batches)

(* A load whose table has been recreated has put there what it has sent,   *)
(* nobody else anything, and past the dedupe it is all of it.              *)
Sent(i) ==
  loader[i].step \in {"copy", "validate", "record"} =>
    /\ rows[TableOf(i)].loaded = {i} \X (1 .. loader[i].sent)
    /\ loader[i].step # "copy" => HoldsLoad(rows[TableOf(i)], TableOf(i), i)
SentInv == \A i \in RunIds : Sent(i)

(* What a build has read of a stamped input is of the load the stamp names *)
(* and still there: the build's lock keeps the next load from the table.   *)
OriginInv ==
  \A b \in Builders : InTransaction(b) =>
    \A t \in builder[b].got \cap Staging : builder[b].entries[t] # NoStamp =>
      /\ stamp[t] # NoStamp
      /\ rows[t].loaded = Whole(builder[b].entries[t].run)
      /\ \A c \in builder[b].from[t] : c.loaded = Whole(builder[b].entries[t].run)

NamesInv == SentInv /\ StampNamesItsLoad /\ OriginInv /\ StampNamesOrigin

(* What holds of a load goes on while the load and its rows stay.          *)
LEMMA SentStays ==
  ASSUME NEW j \in RunIds, Sent(j), loader'[j] = loader[j], runs'[j].table = runs[j].table,
         rows'[runs[j].table].loaded = rows[runs[j].table].loaded,
         rows'[runs[j].table].unique = rows[runs[j].table].unique
  PROVE  Sent(j)'
  BY DEF Sent, TableOf, HoldsLoad

(* An ingest touches the rows and the stamp of its own table alone, and    *)
(* its own run.                                                            *)
LEMMA IngestElsewhere ==
  ASSUME IInv, NEW i \in RunIds, Ingest(i)
  PROVE  /\ \A j \in RunIds \ {i} : runs'[j] = runs[j] /\ loader'[j] = loader[j]
         /\ \A t \in Staging : rows'[t] # rows[t] \/ stamp'[t] # stamp[t] =>
              Loading(i) /\ t = TableOf(i)
  <1>a. /\ rows \in [Staging -> RowSets] /\ stamp \in [Staging -> Stamps]
        /\ runs \in [RunIds -> RunRows] /\ loader \in [RunIds -> Loaders]
      BY DEF IInv, TypeOK
  <1>1. ASSUME NEW j \in RunIds \ {i}
        PROVE  runs'[j] = runs[j] /\ loader'[j] = loader[j]
      BY <1>a DEF Ingest, IngestStart, IngestRecreate, IngestCopy, IngestDedupe,
                  IngestValidate, IngestFail, IngestFinish, IngestCrash
  <1>2. ASSUME NEW t \in Staging, rows'[t] # rows[t] \/ stamp'[t] # stamp[t]
        PROVE  Loading(i) /\ t = TableOf(i)
      BY <1>2, <1>a DEF Ingest, IngestStart, IngestRecreate, IngestCopy, IngestDedupe,
                  IngestValidate, IngestFail, IngestFinish, IngestCrash, Loading
  <1> QED
      BY <1>1, <1>2

(* A patch keeps what is loaded into a table and the run its stamp names,  *)
(* and sets the patch of both.                                             *)
LEMMA PatchElsewhere ==
  ASSUME IInv, Patch, NEW t \in Staging
  PROVE  /\ loader' = loader
         /\ rows'[t].loaded = rows[t].loaded /\ rows'[t].unique = rows[t].unique
         /\ stamp[t] = NoStamp => stamp'[t] = NoStamp
         /\ stamp[t] # NoStamp =>
              /\ stamp'[t] # NoStamp /\ stamp'[t].run = stamp[t].run
              /\ \/ stamp'[t] = stamp[t] /\ rows'[t] = rows[t]
                 \/ rows'[t].patch = stamp'[t].patch
  <1>a. rows \in [Staging -> RowSets] /\ stamp \in [Staging -> Stamps]
      BY DEF IInv, TypeOK
  <1>1. CASE UNCHANGED <<rows, stamp, loader>>
      BY <1>1
  <1>2. ASSUME NEW i \in RunIds, PatchCommit(i)
        PROVE  /\ loader' = loader
               /\ rows'[t].loaded = rows[t].loaded /\ rows'[t].unique = rows[t].unique
               /\ stamp[t] = NoStamp => stamp'[t] = NoStamp
               /\ stamp[t] # NoStamp =>
                    /\ stamp'[t] # NoStamp /\ stamp'[t].run = stamp[t].run
                    /\ \/ stamp'[t] = stamp[t] /\ rows'[t] = rows[t]
                       \/ rows'[t].patch = stamp'[t].patch
    <2>1. CASE t \notin Patched
        BY <1>2, <2>1 DEF PatchCommit
    <2>2. CASE t \in Patched
      <3>1. PICK old \in RowSets : old = rows[t]
          BY <1>a
      <3>2. PICK s \in Stamps : s = stamp[t]
          BY <1>a
      <3>3. PICK gone : gone = old.purged \cup patcher.purge[t]
          OBVIOUS
      <3>4. rows'[t] = [old EXCEPT !.patch = i, !.purged = gone]
          BY <1>2, <2>2, <3>1, <3>3 DEF PatchCommit, PatchedRows
      <3>5. rows'[t].loaded = old.loaded /\ rows'[t].unique = old.unique /\ rows'[t].patch = i
          BY <3>4 DEF RowSets
      <3>6. stamp'[t] = PatchedStamp(s, i)
          BY <1>2, <2>2, <3>2 DEF PatchCommit
      <3>7. i # 0 /\ NoStamp.patch = 0
          BY DEF RunIds, NoStamp
      <3>8. s # NoStamp => stamp'[t].run = s.run /\ stamp'[t].patch = i
          BY <3>6 DEF PatchedStamp, Stamps
      <3>9. s = NoStamp => stamp'[t] = NoStamp
          BY <3>6 DEF PatchedStamp
      <3>10. loader' = loader
          BY <1>2 DEF PatchCommit
      <3> QED
          BY <3>1, <3>2, <3>5, <3>7, <3>8, <3>9, <3>10
    <2> QED
        BY <2>1, <2>2
  <1> QED
      BY <1>1, <1>2 DEF Patch, PatchRewrite, PatchAbort, ingestVars

(* Builds, deployments and stutters leave the staging tables alone.        *)
LEMMA OthersElsewhere ==
  ASSUME (\E b \in Builders : Build(b)) \/ Deploy \/ UNCHANGED vars
  PROVE  UNCHANGED ingestVars
  BY DEF Build, BuildStart, BuildLock, BuildReadStamp, BuildTemp, BuildRows, BuildCommit,
         BuildFail, Deploy, ingestVars, vars

(* A load's rows are its own until it is over: no step of another touches  *)
(* them, and each batch, then the dedupe, adds its part.                   *)
LEMMA SentStep ==
  ASSUME IInv, SentInv, [SerialNext]_vars
  PROVE  SentInv'
  <1>a. /\ rows \in [Staging -> RowSets] /\ runs \in [RunIds -> RunRows]
        /\ loader \in [RunIds -> Loaders]
      BY DEF IInv, TypeOK
  <1> SUFFICES ASSUME NEW j \in RunIds, loader'[j].step \in {"copy", "validate", "record"}
               PROVE  Sent(j)'
      BY DEF SentInv, Sent
  <1>b. Loading(j) => TableOf(j) \in Staging /\ runs[j].status = "started"
      BY DEF IInv, LoadInv
  <1>1. ASSUME NEW i \in RunIds \ {j}, Ingest(i)
        PROVE  Sent(j)'
    <2>1. runs'[j] = runs[j] /\ loader'[j] = loader[j]
        BY <1>1, IngestElsewhere
    <2>2. Loading(j)
        BY <2>1 DEF Loading
    <2>3. Loading(i) => TableOf(i) # TableOf(j)
        BY <2>2 DEF IInv, OneIngestPerTable
    <2>4. rows'[runs[j].table] = rows[runs[j].table]
        BY <1>b, <1>1, <2>2, <2>3, IngestElsewhere DEF TableOf
    <2> QED
        BY <2>1, <2>4, SentStays DEF SentInv
  <1>2. ASSUME Ingest(j)
        PROVE  Sent(j)'
    <2>1. PICK t : t = TableOf(j)
        OBVIOUS
    <2>2. CASE IngestRecreate(j)
      <3>1. rows'[t].loaded = {} /\ loader'[j] = [step |-> "copy", sent |-> 0] /\ runs' = runs
          BY <1>a, <1>b, <2>1, <2>2 DEF IngestRecreate, EmptyTable, NoTable, Loading
      <3>2. 1 .. 0 = {}
          OBVIOUS
      <3> QED
          BY <2>1, <3>1, <3>2 DEF Sent, TableOf
    <2>3. CASE IngestCopy(j)
      <3>1. PICK sent \in 0 .. Batches : sent = loader[j].sent
          BY <1>a DEF Loaders
      <3>2. loader[j].step = "copy" /\ t \in Staging
          BY <1>b, <2>1, <2>3 DEF IngestCopy, Loading
      <3>3. /\ loader'[j].step = "copy" /\ loader'[j].sent = sent + 1 /\ runs' = runs
            /\ rows' = [rows EXCEPT ![t].loaded = @ \cup {<<j, sent + 1>>}]
          BY <1>a, <2>1, <2>3, <3>1, <3>2 DEF IngestCopy, Loaders
      <3>4. rows[t].loaded = {j} \X (1 .. sent)
          BY <2>1, <3>1, <3>2 DEF SentInv, Sent
      <3>5. rows'[t].loaded = rows[t].loaded \cup {<<j, sent + 1>>}
          BY <1>a, <3>2, <3>3 DEF RowSets
      <3>6. 1 .. (sent + 1) = (1 .. sent) \cup {sent + 1}
          BY BoundsAssumption
      <3>7. {j} \X (1 .. (sent + 1)) = ({j} \X (1 .. sent)) \cup {<<j, sent + 1>>}
          BY <3>6
      <3> QED
          BY <2>1, <3>3, <3>4, <3>5, <3>7 DEF Sent, TableOf
    <2>4. CASE IngestDedupe(j)
      <3>1. loader[j].step = "copy" /\ t \in Staging /\ loader[j].sent = Batches
          BY <1>b, <2>1, <2>4 DEF IngestDedupe, Loading
      <3>2. /\ loader'[j].step = "validate" /\ loader'[j].sent = Batches /\ runs' = runs
            /\ rows' = IF t \in Deduped THEN [rows EXCEPT ![t].unique = rows[t].loaded] ELSE rows
          BY <1>a, <2>1, <2>4, <3>1 DEF IngestDedupe, Loaders
      <3>3. rows[t].loaded = {j} \X (1 .. Batches)
          BY <2>1, <3>1 DEF SentInv, Sent
      <3>4. rows'[t].loaded = rows[t].loaded /\ (t \in Deduped => rows'[t].unique = rows[t].loaded)
          BY <1>a, <3>1, <3>2 DEF RowSets
      <3> QED
          BY <2>1, <3>2, <3>3, <3>4 DEF Sent, TableOf, HoldsLoad
    <2>5. CASE IngestValidate(j)
      <3>1. /\ loader[j].step = "validate" /\ loader'[j].sent = loader[j].sent
            /\ rows' = rows /\ runs' = runs
          BY <1>a, <2>5 DEF IngestValidate, Loaders
      <3> QED
          BY <3>1 DEF SentInv, Sent, TableOf, HoldsLoad
    <2>6. IngestFail(j) \/ IngestFinish(j) \/ IngestCrash(j) => FALSE
        BY <1>a DEF IngestFail, IngestFinish, IngestCrash, Loaders
    <2>7. (\E u \in Staging, v \in Versions, force \in BOOLEAN : IngestStart(j, u, v, force)) => FALSE
        BY <1>a DEF IngestStart
    <2> QED
        BY <1>2, <2>2, <2>3, <2>4, <2>5, <2>6, <2>7 DEF Ingest
  <1>3. CASE Patch
    <2>1. loader'[j] = loader[j]
        BY <1>3 DEF Patch, PatchRewrite, PatchCommit, PatchAbort, ingestVars
    <2>2. TableOf(j) \in Staging /\ runs[j].status = "started"
        BY <1>b, <2>1 DEF Loading
    <2>3. runs'[j] = runs[j]
        BY <1>3, <1>a, <2>2 DEF Patch, PatchRewrite, PatchCommit, PatchAbort, ingestVars, NextRun
    <2> QED
        BY <1>3, <2>1, <2>2, <2>3, PatchElsewhere, SentStays DEF SentInv, TableOf
  <1>4. CASE UNCHANGED ingestVars
      BY <1>4, SentStays DEF SentInv, ingestVars
  <1> QED
      BY <1>1, <1>2, <1>3, <1>4, OthersElsewhere DEF SerialNext, Next

(* A stamp is set when its load is whole, and its rows move with it.       *)
LEMMA NamesItsLoadStep ==
  ASSUME IInv, SentInv, StampNamesItsLoad, [SerialNext]_vars
  PROVE  StampNamesItsLoad'
  <1>a. /\ rows \in [Staging -> RowSets] /\ stamp \in [Staging -> Stamps]
      BY DEF IInv, TypeOK
  <1> SUFFICES ASSUME NEW t \in Staging, stamp'[t] # NoStamp
               PROVE  /\ HoldsLoad(rows'[t], t, stamp'[t].run)
                      /\ stamp'[t].patch # 0 => rows'[t].patch = stamp'[t].patch
      BY DEF StampNamesItsLoad, HoldsLoad
  <1>1. CASE rows'[t] = rows[t] /\ stamp'[t] = stamp[t]
      BY <1>1 DEF StampNamesItsLoad
  <1>2. ASSUME NEW i \in RunIds, Ingest(i), rows'[t] # rows[t] \/ stamp'[t] # stamp[t]
        PROVE  /\ HoldsLoad(rows'[t], t, stamp'[t].run)
               /\ stamp'[t].patch # 0 => rows'[t].patch = stamp'[t].patch
    <2>1. Loading(i) /\ t = TableOf(i)
        BY <1>2, IngestElsewhere
    <2>2. loader[i].step # "fetch" => stamp[t] = NoStamp
        BY <2>1 DEF IInv, LoadInv
    <2>3. IngestFinish(i)
        BY <1>2, <1>a, <2>1, <2>2 DEF Ingest, IngestStart, IngestRecreate, IngestCopy,
               IngestDedupe, IngestValidate, IngestFail, IngestCrash
    <2>4. /\ loader[i].step = "record" /\ rows' = rows
          /\ stamp'[t] = [run |-> i, patch |-> 0]
        BY <1>a, <2>1, <2>3 DEF IngestFinish
    <2>5. HoldsLoad(rows[t], t, i)
        BY <2>1, <2>4 DEF SentInv, Sent
    <2> QED
        BY <2>4, <2>5
  <1>3. CASE Patch
    <2>1. stamp[t] # NoStamp
        BY <1>3, PatchElsewhere
    <2>2. /\ HoldsLoad(rows[t], t, stamp[t].run)
          /\ stamp[t].patch # 0 => rows[t].patch = stamp[t].patch
        BY <2>1 DEF StampNamesItsLoad
    <2> QED
        BY <1>3, <2>1, <2>2, PatchElsewhere DEF HoldsLoad
  <1>4. CASE UNCHANGED ingestVars
      BY <1>1, <1>4 DEF ingestVars
  <1> QED
      BY <1>1, <1>2, <1>3, <1>4, OthersElsewhere DEF SerialNext, Next

(* Under the lock of a build that has found it stamped, a table keeps its  *)
(* load, and a stamp.                                                      *)
LEMMA LockedKeeps ==
  ASSUME IInv, [SerialNext]_vars, NEW t \in Staging, ReadLocked(t), stamp[t] # NoStamp
  PROVE  rows'[t].loaded = rows[t].loaded /\ stamp'[t] # NoStamp
  <1>a. /\ rows \in [Staging -> RowSets] /\ stamp \in [Staging -> Stamps]
      BY DEF IInv, TypeOK
  <1>1. ASSUME NEW i \in RunIds, Ingest(i)
        PROVE  rows'[t] = rows[t] /\ stamp'[t] = stamp[t]
    <2>1. CASE Loading(i) /\ t = TableOf(i)
      <3>1. loader[i].step = "fetch"
          BY <2>1 DEF IInv, LoadInv
      <3> QED
          BY <1>1, <2>1, <3>1 DEF Ingest, IngestStart, IngestRecreate, IngestCopy,
             IngestDedupe, IngestValidate, IngestFail, IngestFinish, IngestCrash
    <2> QED
        BY <1>1, <2>1, IngestElsewhere
  <1>2. Patch => rows'[t].loaded = rows[t].loaded /\ stamp'[t] # NoStamp
      BY PatchElsewhere
  <1>3. UNCHANGED ingestVars => rows'[t] = rows[t] /\ stamp'[t] = stamp[t]
      BY DEF ingestVars
  <1> QED
      BY <1>1, <1>2, <1>3, OthersElsewhere DEF SerialNext, Next

(* What a builder's record says of the loads behind its stamped inputs.    *)
OriginOK(s) ==
  s.step \in {"stamps", "temp", "built"} =>
    \A t \in s.got \cap Staging : s.entries[t] # NoStamp =>
      /\ stamp[t] # NoStamp
      /\ rows[t].loaded = Whole(s.entries[t].run)
      /\ \A c \in s.from[t] : c.loaded = Whole(s.entries[t].run)

(* Whatever step is taken, the inputs of a build in its transaction keep   *)
(* the loads its record names.                                             *)
LEMMA OriginStays ==
  ASSUME IInv, [SerialNext]_vars, NEW b \in Builders, OriginOK(builder[b]),
         builder'[b] = builder[b]
  PROVE  OriginOK(builder[b])'
  <1> SUFFICES ASSUME InTransaction(b), NEW t \in builder[b].got \cap Staging,
                      builder[b].entries[t] # NoStamp
               PROVE  stamp'[t] # NoStamp /\ rows'[t].loaded = rows[t].loaded
      BY DEF OriginOK, InTransaction
  <1>1. t \in InputsOf(builder[b].table)
      BY DEF IInv, TypeOK, BuilderShape, InTransaction
  <1>2. ReadLocked(t)
      BY <1>1 DEF ReadLocked
  <1>3. stamp[t] # NoStamp
      BY DEF OriginOK, InTransaction
  <1> QED
      BY <1>2, <1>3, LockedKeeps

(* A builder that reads a stamp reads that of a whole load, and what it    *)
(* reads of a stamped table is that load's.                                *)
LEMMA OriginMoves ==
  ASSUME IInv, StampNamesItsLoad, NEW b \in Builders, Build(b), OriginOK(builder[b])
  PROVE  OriginOK(builder[b])'
  <1> DEFINE s == builder[b]
  <1>a. /\ DOMAIN builder = Builders
        /\ DOMAIN s = {"step", "todo", "table", "got", "entries", "from", "rules"}
        /\ s.step \in {"stamps", "temp", "built"} =>
             s.table \in Relations /\ s.got \subseteq InputsOf(s.table)
      BY IdleFields DEF IInv, TypeOK, BuilderShape
  <1>b. rows' = rows /\ stamp' = stamp
      BY OthersElsewhere DEF ingestVars
  <1>c. Staging \cap Relations = {}
      BY TopologyAssumption
  <1> PICK u : u = builder'[b]
      OBVIOUS
  <1> SUFFICES OriginOK(u)
      BY <1>b DEF OriginOK
  <1>1. CASE \E wanted \in (SUBSET Relations) \ {{}} : BuildStart(b, wanted)
      BY <1>1, <1>a DEF BuildStart, OriginOK, Idle
  <1>2. CASE \E r \in Relations : BuildLock(b, r)
      BY <1>2, <1>a DEF BuildLock, OriginOK
  <1>3. CASE \E n \in Staging \cup Relations : BuildReadStamp(b, n)
    <2> PICK n \in Staging \cup Relations : BuildReadStamp(b, n)
        BY <1>3
    <2>1. /\ u.step = "stamps" /\ u.table = s.table /\ u.from = s.from
          /\ u.got = s.got \cup {n}
          /\ u.entries = [m \in s.got \cup {n} |-> IF m = n THEN EntryOf(n) ELSE s.entries[m]]
        BY <1>a DEF BuildReadStamp
    <2>2. s.step = "stamps" /\ n \in InputsOf(s.table) \ s.got
        BY DEF BuildReadStamp
    <2>3. s.from[n] = {}
        BY <2>2 DEF IInv, BuildInv, InTransaction
    <2>4. ASSUME n \in Staging, EntryOf(n) # NoStamp
          PROVE  stamp[n] # NoStamp /\ rows[n].loaded = Whole(EntryOf(n).run)
      <3>1. EntryOf(n) = stamp[n]
          BY <1>c, <2>4 DEF EntryOf
      <3> QED
          BY <2>4, <3>1 DEF StampNamesItsLoad, HoldsLoad, Whole
    <2>5. ASSUME NEW t \in u.got \cap Staging, u.entries[t] # NoStamp
          PROVE  /\ stamp[t] # NoStamp
                 /\ rows[t].loaded = Whole(u.entries[t].run)
                 /\ \A c \in u.from[t] : c.loaded = Whole(u.entries[t].run)
      <3>1. CASE t = n
          BY <2>1, <2>3, <2>4, <2>5, <3>1
      <3>2. CASE t # n
          BY <2>1, <2>2, <2>5, <3>2 DEF OriginOK
      <3> QED
          BY <3>1, <3>2
    <2> QED
        BY <2>5 DEF OriginOK
  <1>4. CASE BuildTemp(b) \/ BuildRows(b)
    <2>1. PICK names :
            /\ u.from = ReadNow(s.from, InputsOf(s.table), names)
            /\ u.got = s.got /\ u.entries = s.entries
            /\ s.step \in {"stamps", "temp"}
      <3>1. CASE BuildTemp(b)
          BY <3>1, <1>a DEF BuildTemp
      <3>2. CASE BuildRows(b)
          BY <3>2, <1>a DEF BuildRows
      <3> QED
          BY <1>4, <3>1, <3>2
    <2>2. ASSUME NEW t \in s.got \cap Staging, s.entries[t] # NoStamp
          PROVE  /\ stamp[t] # NoStamp
                 /\ rows[t].loaded = Whole(s.entries[t].run)
                 /\ \A c \in u.from[t] : c.loaded = Whole(s.entries[t].run)
      <3>1. /\ stamp[t] # NoStamp
            /\ rows[t].loaded = Whole(s.entries[t].run)
            /\ \A c \in s.from[t] : c.loaded = Whole(s.entries[t].run)
          BY <2>1, <2>2 DEF OriginOK
      <3>2. t \in InputsOf(s.table) /\ ContentOf(t) = rows[t]
          BY <1>a, <1>c, <2>1, <2>2 DEF ContentOf
      <3>3. u.from[t] \subseteq s.from[t] \cup {rows[t]}
          BY <2>1, <3>2 DEF ReadNow
      <3> QED
          BY <3>1, <3>3
    <2> QED
        BY <2>1, <2>2 DEF OriginOK
  <1>5. CASE BuildCommit(b) \/ BuildFail(b)
    <2>1. u.step \in {"idle", "next"}
      <3>1. Idle.step = "idle"
          BY DEF Idle
      <3> DEFINE next == [Idle EXCEPT !.step = "next", !.todo = s.todo \ {s.table},
                                      !.rules = s.rules]
      <3>2. next.step = "next"
          BY DEF Idle
      <3>3. u \in {Idle, next}
          BY <1>5, <1>a DEF BuildCommit, BuildFail
      <3> HIDE DEF next
      <3> QED
          BY <3>1, <3>2, <3>3
    <2> QED
        BY <2>1 DEF OriginOK
  <1> QED
      BY <1>1, <1>2, <1>3, <1>4, <1>5 DEF Build

(* What a build has read of stamped inputs stays of the loads it records.  *)
LEMMA OriginStep ==
  ASSUME IInv, StampNamesItsLoad, OriginInv, [SerialNext]_vars
  PROVE  OriginInv'
  <1> SUFFICES ASSUME NEW b \in Builders
               PROVE  OriginOK(builder[b])'
      BY DEF OriginInv, OriginOK, InTransaction
  <1>1. OriginOK(builder[b])
      BY DEF OriginInv, OriginOK, InTransaction
  <1>2. CASE Build(b)
      BY <1>1, <1>2, OriginMoves
  <1>3. CASE builder'[b] = builder[b]
      BY <1>1, <1>3, OriginStays
  <1>4. ASSUME NEW c \in Builders, c # b, Build(c)
        PROVE  builder'[b] = builder[b]
      BY <1>4 DEF Build, BuildStart, BuildLock, BuildReadStamp, BuildTemp, BuildRows,
                  BuildCommit, BuildFail, IInv, TypeOK
  <1>5. ASSUME NEW i \in RunIds, Ingest(i)
        PROVE  builder' = builder
      BY <1>5 DEF Ingest, IngestStart, IngestRecreate, IngestCopy, IngestDedupe,
                  IngestValidate, IngestFail, IngestFinish, IngestCrash, buildVars
  <1>6. Patch \/ Deploy \/ UNCHANGED vars => builder' = builder
      BY DEF Patch, PatchRewrite, PatchCommit, PatchAbort, Deploy, buildVars, vars
  <1> QED
      BY <1>2, <1>3, <1>4, <1>5, <1>6 DEF SerialNext, Next

(* A step leaves a relation's stamp and rows, or commits them from a       *)
(* builder's record.                                                       *)
LEMMA RelationFrom ==
  ASSUME IInv, [SerialNext]_vars, NEW r \in Relations
  PROVE  \/ relStamp'[r] = relStamp[r] /\ built'[r] = built[r]
         \/ \E b \in Builders : /\ builder[b].step = "built" /\ builder[b].table = r
                                /\ relStamp'[r].entries = builder[b].entries
                                /\ built'[r].from = builder[b].from
  <1>a. /\ relStamp = [q \in Relations |-> relStamp[q]]
        /\ built = [q \in Relations |-> built[q]]
      BY DEF IInv, TypeOK
  <1>1. ASSUME NEW b \in Builders, BuildCommit(b), r = builder[b].table
        PROVE  /\ builder[b].step = "built" /\ builder[b].table = r
               /\ relStamp'[r].entries = builder[b].entries
               /\ built'[r].from = builder[b].from
      BY <1>1, <1>a DEF BuildCommit
  <1>2. ASSUME NEW b \in Builders, BuildCommit(b), r # builder[b].table
        PROVE  relStamp'[r] = relStamp[r] /\ built'[r] = built[r]
      BY <1>2, <1>a DEF BuildCommit
  <1>3. ASSUME NEW b \in Builders, Build(b), ~BuildCommit(b)
        PROVE  UNCHANGED <<built, relStamp>>
      BY <1>3 DEF Build, BuildStart, BuildLock, BuildReadStamp, BuildTemp, BuildRows, BuildFail
  <1>4. ASSUME NEW i \in RunIds, Ingest(i)
        PROVE  UNCHANGED <<built, relStamp>>
      BY <1>4 DEF Ingest, IngestStart, IngestRecreate, IngestCopy, IngestDedupe,
                  IngestValidate, IngestFail, IngestFinish, IngestCrash, buildVars
  <1>5. Patch \/ Deploy \/ UNCHANGED vars => UNCHANGED <<built, relStamp>>
      BY DEF Patch, PatchRewrite, PatchCommit, PatchAbort, Deploy, buildVars, vars
  <1> QED
      BY <1>1, <1>2, <1>3, <1>4, <1>5 DEF SerialNext, Next

(* A relation's stamp is what its build recorded, of rows its build read.  *)
LEMMA NamesOriginStep ==
  ASSUME IInv, OriginInv, StampNamesOrigin, [SerialNext]_vars
  PROVE  StampNamesOrigin'
  <1> SUFFICES ASSUME NEW r \in Relations, relStamp'[r].id # 0, NEW t \in StagingInputs[r],
                      relStamp'[r].entries[t] # NoStamp, NEW c \in built'[r].from[t]
               PROVE  c.loaded = Whole(relStamp'[r].entries[t].run)
      BY DEF StampNamesOrigin, Whole
  <1>1. CASE relStamp'[r] = relStamp[r] /\ built'[r] = built[r]
      BY <1>1 DEF StampNamesOrigin, Whole
  <1>2. ASSUME NEW b \in Builders, builder[b].step = "built", builder[b].table = r,
               relStamp'[r].entries = builder[b].entries, built'[r].from = builder[b].from
        PROVE  c.loaded = Whole(relStamp'[r].entries[t].run)
    <2>1. builder[b].got = InputsOf(r)
        BY <1>2 DEF IInv, BuildInv, InTransaction
    <2>2. t \in InputsOf(r) /\ t \in Staging
        BY TopologyAssumption DEF InputsOf
    <2> QED
        BY <1>2, <2>1, <2>2 DEF OriginInv, InTransaction
  <1> QED
      BY <1>1, <1>2, RelationFrom

(* Everything stamps say of rows holds, step by step, from no table.       *)
LEMMA NamesInvariance == SerialSpec => [](IInv /\ NamesInv)
  <1>1. Init => NamesInv
    <2>1. ASSUME Init
          PROVE  SentInv /\ StampNamesItsLoad
        BY <2>1 DEF Init, SentInv, Sent, StampNamesItsLoad
    <2>2. ASSUME Init
          PROVE  OriginInv /\ StampNamesOrigin
        BY <2>2 DEF Init, OriginInv, InTransaction, Idle, StampNamesOrigin, NoRelStamp
    <2> QED
        BY <2>1, <2>2 DEF NamesInv
  <1>2. IInv /\ NamesInv /\ [SerialNext]_vars => IInv' /\ NamesInv'
      BY IInvStep, SentStep, NamesItsLoadStep, OriginStep, NamesOriginStep DEF NamesInv
  <1> QED
      BY <1>1, <1>2, InitInv, PTL DEF SerialSpec

(* A stamped table holds the whole of the load its stamp names, deduped    *)
(* where its source says so, nothing of another load, and the patch the    *)
(* stamp names: whatever loads failed, died or ran over other tables.      *)
THEOREM StampsNameTheirLoads == SerialSpec => []StampNamesItsLoad
  <1>1. NamesInv => StampNamesItsLoad
      BY DEF NamesInv
  <1> QED
      BY <1>1, NamesInvariance, PTL

(* Every row a relation's build read of a stamped input is of the load the *)
(* relation's stamp records for it.                                        *)
THEOREM StampsNameTheirOrigins == SerialSpec => []StampNamesOrigin
  <1>1. NamesInv => StampNamesOrigin
      BY DEF NamesInv
  <1> QED
      BY <1>1, NamesInvariance, PTL

-----------------------------------------------------------------------------
(* Who does what: the one load there is is the refresh's, and a session    *)
(* builds while its command says so.                                       *)
CommandSteps == {"over", "next", "ingest", "rebuild", "byhand"}
CanonSteps == {"idle", "scan", "rebuild", "open", "locked", "identity", "committed"}

LoadsInv ==
  /\ DOMAIN command = DOMAIN CommandOver /\ command.step \in CommandSteps
  /\ command.force \in BOOLEAN
  /\ \A t \in command.todo \ Direct : command.newest[t] \in Versions \cup {None}
  /\ \A i \in RunIds : Loading(i) => command.step = "ingest" /\ command.run = i
  /\ command.step = "ingest" => command.run \in RunIds /\ Loading(command.run)

SessionsInv ==
  /\ DOMAIN canon = DOMAIN CanonIdle /\ canon.step \in CanonSteps
  /\ canon.todo \subseteq Relations /\ canon.stale \subseteq Relations
  /\ builder[Cli].step # "idle" <=> command.step \in {"rebuild", "byhand"}
  /\ builder[Me].step # "idle" <=> canon.step = "rebuild"
  /\ \A b \in Builders \ {Cli, Me} : builder[b].step = "idle"

TablesInv == IInv /\ NamesInv /\ LoadsInv /\ SessionsInv

-----------------------------------------------------------------------------
(* Runs are numbered as they start, and none is started beside a load.     *)
Started(i) == runs[i].kind = "ingest" /\ runs[i].status # "unused"

NumberedInv ==
  /\ \A i, j \in RunIds : i < j /\ runs[i].status = "unused" => runs[j].status = "unused"
  /\ \A i \in RunIds : runs[i].status = "unused" => runs[i] = UnusedRun
  /\ \A i \in RunIds : runs[i].kind = "patch" => runs[i].table = None
  /\ \A i \in RunIds : Started(i) => TableOf(i) \in Staging
  /\ command.step = "ingest" => \A i \in RunIds : Started(i) => i <= command.run

(* The greatest of a set of runs.                                          *)
Newest(i, S) == i \in S /\ \A j \in S : j <= i

(* A stamp names the table's newest success, the newest run, if that is    *)
(* one, is named, and the rows of a patch are the newest patch's.          *)
LatestInv ==
  \A t \in Staging :
    /\ stamp[t] # NoStamp => Newest(stamp[t].run, RunsOf(t))
    /\ \A i \in IngestsOf(t) :
         Newest(i, IngestsOf(t)) /\ runs[i].status = "success" => stamp[t].run = i
    /\ rows[t].patch # 0 => t \in Patched /\ Newest(rows[t].patch, RunsOf(PatchSource))

(* A run that has recreated its table and has not failed.                  *)
Placed(i) ==
  /\ runs[i].kind = "ingest"
  /\ runs[i].status = "success" \/ loader[i].step \in {"copy", "validate", "record"}

Since(content, i) == \A part \in content.loaded : part[1] >= i

(* Rows are of no run before one that has replaced the table, in a table   *)
(* and in what a build has read of it.                                     *)
SinceInv ==
  \A i \in RunIds : Placed(i) =>
    /\ Since(rows[TableOf(i)], i)
    /\ \A b \in Builders : InTransaction(b) /\ TableOf(i) \in StagingInputs[builder[b].table] =>
         \A c \in builder[b].from[TableOf(i)] : Since(c, i)

RunsInv == NumberedInv /\ LatestInv /\ SinceInv

-----------------------------------------------------------------------------
(* What the refresh has done so far.                                       *)
Rebuilt(r, i) == \A c \in built[r].from[TableOf(i)] : Since(c, i)

DoneInv ==
  /\ DOMAIN command.got = command.wanted
  /\ command.wanted \subseteq Staging
  /\ command.step \notin {"next", "ingest"} => command.todo = {}
  /\ command.exit = 0 => \A t \in command.wanted \ command.todo :
       /\ command.got[t] # None
       /\ \/ command.step = "ingest" /\ TableOf(command.run) = t
               /\ runs[command.run].version = command.got[t]
          \/ Succeeded(t, command.got[t])
  /\ \A i \in command.loaded : /\ i \in RunIds
                               /\ runs[i].kind = "ingest" /\ runs[i].status = "success"
  /\ \A i \in command.loaded, r \in Basic : TableOf(i) \in StagingInputs[r] =>
       /\ command.step = "rebuild" => r \in builder[Cli].todo \/ Rebuilt(r, i)
       /\ command.step \in {"over", "byhand"} => Rebuilt(r, i)

(* A source is loaded once by a command, and what it loaded is still the   *)
(* source's newest run.                                                    *)
LoadedInv ==
  /\ command.step = "ingest" => TableOf(command.run) \notin command.todo
  /\ \A i \in command.loaded :
       /\ TableOf(i) \notin command.todo
       /\ Newest(i, IngestsOf(TableOf(i)))

-----------------------------------------------------------------------------
(* The canonical build: from its lock on the relations stay, and what it   *)
(* has read of them is what they hold.                                     *)
Behind(r, b, seen) ==
  \A c \in b.from[SourceOf(r)] :
    c.loaded = Whole(seen[SourceOf(r)]) /\ c.patch \in {0, seen[PatchSource]}

Names == Staging \cup Relations
AtMostOne(S) == \A x, y \in S : x = y

CanonInv ==
  /\ DOMAIN canonRows = CanonIds
  /\ \A k \in CanonIds : DOMAIN canonRows[k] = {"status", "seen"}
  /\ DOMAIN identity = {"build", "from", "current"}
  /\ DOMAIN canon.from = Names /\ DOMAIN identity.from = Names
  /\ canon.step # "idle" => canon.id \in CanonIds /\ canonRows[canon.id].status # "none"
  /\ canon.step \in {"scan", "rebuild", "open"} => canon.from = CanonIdle.from
  /\ canon.current \subseteq Relations /\ identity.current \subseteq Relations
  /\ Holding => \A r \in Relations : /\ \A b \in Builders : ~Replacing(b, r)
                                     /\ canon.from[r] \subseteq {built[r]}
  /\ canon.step = "identity" =>
       \A r \in canon.current : Behind(r, built[r], canonRows[canon.id].seen)
  /\ \A r \in Relations : AtMostOne(identity.from[r]) /\ AtMostOne(canon.from[r])
  /\ identity.build # 0 =>
       /\ identity.build \in CanonIds /\ canonRows[identity.build].status # "none"
       /\ \A r \in identity.current : \A b \in identity.from[r] :
            Behind(r, b, canonRows[identity.build].seen)

CliInv == TablesInv /\ RunsInv /\ DoneInv /\ LoadedInv /\ CanonInv

-----------------------------------------------------------------------------
(* The fields of a command and of a canonical build.                       *)
LEMMA CommandFields ==
  /\ DOMAIN CommandOver = {"step", "wanted", "force", "newest", "todo", "run", "got", "loaded", "exit"}
  /\ DOMAIN CanonIdle = {"step", "id", "todo", "stale", "done", "from", "current"}
  BY DEF CommandOver, CanonIdle

(* A command that is over.                                                 *)
LEMMA EndedFields ==
  ASSUME NEW exit
  PROVE  LET over == Ended(exit) IN
         /\ DOMAIN over = DOMAIN CommandOver
         /\ over.step = "over" /\ over.force = FALSE /\ over.todo = {} /\ over.exit = exit
         /\ exit # 0 => over.wanted = {} /\ over.got = <<>> /\ over.loaded = {}
         /\ exit = 0 => /\ over.wanted = command.wanted /\ over.got = command.got
                        /\ over.loaded = command.loaded
  BY CommandFields DEF Ended, CommandOver

(* A nonempty finite set of numbers has a greatest: a smallest one of      *)
(* those without would lose a member and still have none.                  *)
LEMMA FiniteHasMax ==
  ASSUME NEW S \in SUBSET Nat, IsFiniteSet(S), S # {}
  PROVE  \E x \in S : \A y \in S : x >= y
  <1> DEFINE Topped(D) == \E x \in D : \A y \in D : x >= y
             Bad == {D \in SUBSET S : D # {} /\ ~Topped(D)}
  <1>1. SUFFICES Bad = {}
      BY <1>1
  <1>2. SUFFICES ASSUME Bad # {} PROVE FALSE
      OBVIOUS
  <1>3. Bad \subseteq FiniteSubsetsOf(S)
      BY FS_FiniteSubsetsOfFinite
  <1> HIDE DEF Bad
  <1>4. PICK D \in Bad : \A E \in Bad : ~(<<E, D>> \in StrictSubsetOrdering(S))
      BY <1>2, <1>3, FS_StrictSubsetOrderingWellFounded, WFMin
  <1> USE DEF Bad
  <1>5. PICK x \in D : TRUE
      BY <1>4
  <1>6. D \ {x} \notin Bad
      BY <1>4, <1>5 DEF StrictSubsetOrdering
  <1>7. CASE D \ {x} = {}
    <2>1. x \in Nat /\ \A y \in D : y = x
        BY <1>4, <1>5, <1>7
    <2> QED
        BY <2>1, <1>4, <1>5
  <1>8. CASE D \ {x} # {}
    <2>1. PICK m \in D \ {x} : \A y \in D \ {x} : m >= y
        BY <1>4, <1>6, <1>8
    <2>2. m \in Nat /\ x \in Nat /\ D \subseteq Nat
        BY <1>4, <1>5, <2>1
    <2>3. CASE x >= m
      <3>1. \A y \in D : x >= y
          BY <2>1, <2>2, <2>3
      <3> QED
          BY <3>1, <1>4, <1>5
    <2>4. CASE m >= x
      <3>1. \A y \in D : m >= y
          BY <2>1, <2>2, <2>4
      <3> QED
          BY <3>1, <2>1, <1>4
    <2> QED
        BY <2>2, <2>3, <2>4
  <1> QED
      BY <1>7, <1>8

(* The newest of some dates is one of them.                                *)
LEMMA NewestDate ==
  ASSUME NEW D \in SUBSET Versions, D # {}
  PROVE  Max(D) \in Versions
  <1>1. D \in SUBSET Nat /\ IsFiniteSet(D)
      BY RefreshAssumption, FS_Subset
  <1>2. \E x \in D : \A y \in D : x >= y
      BY <1>1, FiniteHasMax
  <1> QED
      BY <1>2 DEF Max

(* A source resolves to a version there is, or to none.                    *)
LEMMA Resolved ==
  ASSUME LoadsInv, NEW t \in Staging, Turn(t)
  PROVE  Resolutions(t) \subseteq Versions \cup {None}
  <1>1. CASE t \in Direct
      BY <1>1, NewestDate DEF Resolutions, LastModifiedVersion
  <1>2. CASE t \notin Direct
      BY <1>2 DEF Resolutions, LoadsInv, Turn
  <1> QED
      BY <1>1, <1>2

-----------------------------------------------------------------------------
(* A step of the commands is one of the tables.                            *)

(* A build by one session leaves the others' alone.                        *)
LEMMA OwnSession ==
  ASSUME TypeOK, NEW b \in Builders, Build(b)
  PROVE  /\ \A c \in Builders \ {b} : builder'[c] = builder[c]
         /\ DOMAIN builder' = Builders
         /\ UNCHANGED ingestVars
  BY DEF TypeOK, Build, BuildStart, BuildLock, BuildReadStamp, BuildTemp, BuildRows, BuildCommit,
         BuildFail, ingestVars

(* What a step has to do with the loads, as one of five.                   *)
Starts(i) ==
  /\ command.step = "next"
  /\ \E t \in Staging, v \in Versions : IngestStart(i, t, v, command.force)
  /\ command'.step = "ingest" /\ command'.run = i

Goes(i) ==
  /\ command.step = "ingest" /\ command.run = i
  /\ \/ IngestRecreate(i) \/ IngestCopy(i) \/ IngestDedupe(i) \/ IngestValidate(i)
     \/ IngestFail(i) \/ IngestFinish(i) \/ IngestCrash(i)
  /\ IF loader'[i].step \in {"done", "dead"} THEN command'.step \in {"next", "over"}
                                             ELSE command' = command

Rests == UNCHANGED ingestVars /\ command.step # "ingest" /\ command'.step # "ingest"

(* The refresh loads, builds, or does nothing to the tables.               *)
LEMMA RefreshSteps ==
  ASSUME LoadsInv, SessionsInv, TypeOK, RefreshNext
  PROVE  \/ \E i \in RunIds : Starts(i) /\ UNCHANGED builder
         \/ \E i \in RunIds : Goes(i) /\ UNCHANGED builder
         \/ Rests /\ UNCHANGED vars
         \/ Rests /\ Build(Cli)
  <1>1. ASSUME NEW t \in Staging, SourceIngest(t)
        PROVE  \E i \in RunIds : Starts(i) /\ UNCHANGED builder
    <2>1. PICK v \in Resolutions(t) \ {None}, i \in RunIds :
            /\ IngestStart(i, t, v, command.force)
            /\ command' = [command EXCEPT !.step = "ingest", !.todo = @ \ {t}, !.got[t] = v, !.run = i]
        BY <1>1 DEF SourceIngest
    <2>2. v \in Versions
        BY <1>1, Resolved DEF SourceIngest
    <2>3. command'.step = "ingest" /\ command'.run = i
        BY <2>1, CommandFields DEF LoadsInv
    <2> QED
        BY <1>1, <2>1, <2>2, <2>3 DEF Starts, SourceIngest, Turn, IngestStart, buildVars
  <1>2. ASSUME NEW i \in RunIds, Ingesting(i)
        PROVE  Goes(i) /\ UNCHANGED builder
    <2>1. UNCHANGED builder
        BY <1>2 DEF Ingesting, IngestRecreate, IngestCopy, IngestDedupe, IngestValidate, IngestFail,
                    IngestFinish, buildVars
    <2>2. loader'[i].step # "dead"
        BY <1>2 DEF Ingesting, IngestRecreate, IngestCopy, IngestDedupe, IngestValidate, IngestFail,
                    IngestFinish, TypeOK, Loaders
    <2>3. AfterIngest(i).step = "next"
        BY CommandFields DEF AfterIngest, LoadsInv
    <2> QED
        BY <1>2, <2>1, <2>2, <2>3 DEF Ingesting, Goes
  <1>3. CASE RefreshDies
    <2>1. command'.step = "over"
        BY <1>3, EndedFields DEF RefreshDies
    <2>2. CASE command.step = "next" /\ UNCHANGED vars
        BY <2>1, <2>2 DEF Rests, vars, ingestVars
    <2>3. CASE command.step = "ingest" /\ IngestCrash(command.run)
      <3>1. command.run \in RunIds
          BY <2>3 DEF LoadsInv
      <3>2. Goes(command.run)
          BY <2>1, <2>3, <3>1 DEF Goes, IngestCrash, TypeOK, Loaders
      <3> QED
          BY <2>3, <3>1, <3>2 DEF IngestCrash, buildVars
    <2>4. CASE command.step = "rebuild" /\ BuildFail(Cli)
        BY <2>1, <2>4 DEF Rests, BuildFail, Build
    <2> QED
        BY <1>3, <2>2, <2>3, <2>4 DEF RefreshDies
  <1>4. ASSUME Building, command.step # "ingest"
        PROVE  Rests /\ Build(Cli)
    <2>1. Build(Cli)
        BY <1>4 DEF Building, Build
    <2>2. UNCHANGED ingestVars
        BY <2>1, OwnSession, RefreshAssumption
    <2>3. command'.step # "ingest"
        BY <1>4, EndedFields DEF Building
    <2> QED
        BY <1>4, <2>1, <2>2, <2>3 DEF Rests
  <1>5. ASSUME NEW wanted \in (SUBSET Relations) \ {{}}, BuildStart(Cli, wanted)
        PROVE  Build(Cli) /\ UNCHANGED ingestVars
    <2>1. Build(Cli)
        BY <1>5 DEF Build
    <2> QED
        BY <2>1, OwnSession, RefreshAssumption
  <1>6. CASE RebuildDependent
    <2>1. CASE Dependent = {}
        BY <1>6, <2>1, EndedFields DEF RebuildDependent, Rests, vars, ingestVars
    <2>2. CASE Dependent # {}
      <3>1. Dependent \in (SUBSET Relations) \ {{}}
          BY <2>2, RefreshAssumption DEF Dependent
      <3>2. command.step = "next" /\ command'.step = "rebuild" /\ BuildStart(Cli, Dependent)
          BY <1>6, <2>2, CommandFields DEF RebuildDependent, LoadsInv
      <3> QED
          BY <3>1, <3>2, <1>5 DEF Rests
    <2> QED
        BY <2>1, <2>2
  <1>7. ASSUME NEW wanted \in (SUBSET Relations) \ {{}}, ByHand(wanted)
        PROVE  Rests /\ Build(Cli)
    <2>1. command.step = "over" /\ command'.step = "byhand" /\ BuildStart(Cli, wanted)
        BY <1>7, CommandFields DEF ByHand
    <2> QED
        BY <2>1, <1>5 DEF Rests
  <1>8. CASE RebuildDependentFails \/ ByHandFails
    <2>1. Ended(1).step = "over"
        BY EndedFields
    <2>2. BuildFail(Cli) /\ command.step # "ingest" /\ command'.step = "over"
        BY <1>8, <2>1 DEF RebuildDependentFails, ByHandFails
    <2> QED
        BY <2>2 DEF Rests, BuildFail, Build
  <1>9. CASE RefreshStart \/ RefreshRefused
             \/ \E t \in Staging : SourceMissing(t) \/ SourceUnversioned(t) \/ SourceSkipped(t)
    <2>1. UNCHANGED vars /\ command.step \in {"over", "next"}
        BY <1>9 DEF RefreshStart, RefreshRefused, SourceMissing, SourceUnversioned, SourceSkipped, Turn
    <2>2. CASE RefreshStart
        BY <2>1, <2>2, CommandFields DEF RefreshStart, Rests, vars, ingestVars
    <2>3. CASE RefreshRefused \/ \E t \in Staging : SourceUnversioned(t)
        BY <2>1, <2>3, EndedFields DEF RefreshRefused, SourceUnversioned, Rests, vars, ingestVars
    <2>4. CASE \E t \in Staging : SourceMissing(t) \/ SourceSkipped(t)
      <3>1. \A t \in Staging : SourceMissing(t) => command'.step = "next"
          BY CommandFields DEF SourceMissing, Turn, LoadsInv
      <3>2. \A t \in Staging : SourceSkipped(t) => command'.step = "next"
          BY CommandFields DEF SourceSkipped, Turn, LoadsInv
      <3> QED
          BY <2>1, <2>4, <3>1, <3>2 DEF Rests, vars, ingestVars
    <2> QED
        BY <1>9, <2>2, <2>3, <2>4
  <1> QED
      BY <1>1, <1>2, <1>3, <1>4, <1>6, <1>7, <1>8, <1>9
         DEF RefreshNext, RebuildingDependent, ByHandBuilding

(* The canonical build builds, or does nothing to the tables.              *)
LEMMA CanonMoves ==
  ASSUME SessionsInv, TypeOK, CanonCommand
  PROVE  (UNCHANGED vars \/ Build(Me)) /\ UNCHANGED ingestVars
  <1>1. ASSUME CanonRebuild
        PROVE  Build(Me)
    <2>1. canon.stale \in (SUBSET Relations) \ {{}}
        BY <1>1 DEF CanonRebuild, SessionsInv
    <2> QED
        BY <1>1, <2>1 DEF CanonRebuild, Build
  <1>2. CanonRebuilding \/ CanonRebuildFails => Build(Me)
      BY DEF CanonRebuilding, CanonRebuildFails, Build
  <1>3. ASSUME \/ \E k \in CanonIds : CanonStart(k)
               \/ \E r \in Relations : CanonScan(r)
               \/ CanonNothingStale \/ CanonLock \/ CanonCheck \/ CanonRead \/ CanonCommit
               \/ CanonRecord \/ CanonFail \/ CanonCrash
        PROVE  UNCHANGED vars
      BY <1>3 DEF CanonStart, CanonScan, CanonNothingStale, CanonLock, CanonCheck, CanonRead,
                  CanonCommit, CanonRecord, CanonFail, CanonCrash, tableVars, vars
  <1>4. UNCHANGED vars \/ Build(Me)
      BY <1>1, <1>2, <1>3 DEF CanonCommand
  <1>5. Build(Me) => UNCHANGED ingestVars
      BY OwnSession, CanonicalAssumption
  <1>6. UNCHANGED vars => UNCHANGED ingestVars
      BY DEF vars, ingestVars
  <1> QED
      BY <1>4, <1>5, <1>6

(* Every step is one of the tables'; it loads, patches, builds, or leaves  *)
(* the tables alone.                                                       *)
LEMMA Kinds ==
  ASSUME LoadsInv, SessionsInv, TypeOK, [CliNext]_cliVars
  PROVE  \/ \E i \in RunIds : Starts(i) /\ UNCHANGED builder
         \/ \E i \in RunIds : Goes(i) /\ UNCHANGED builder
         \/ Patch /\ UNCHANGED <<builder, command>>
         \/ /\ (UNCHANGED ingestVars /\ UNCHANGED command) \/ Rests
            /\ UNCHANGED vars \/ \E b \in {Cli, Me} : Build(b)
  <1>1. CASE RefreshNext
      BY <1>1, RefreshSteps DEF Rests
  <1>2. CASE Patch /\ UNCHANGED command
      BY <1>2 DEF Patch, PatchRewrite, PatchCommit, PatchAbort, buildVars
  <1>3. CASE CanonCommand /\ UNCHANGED command
      BY <1>3, CanonMoves DEF vars, ingestVars
  <1>4. CASE UNCHANGED cliVars
      BY <1>4 DEF cliVars, allVars, tableVars, vars, ingestVars
  <1> QED
      BY <1>1, <1>2, <1>3, <1>4 DEF CliNext

(* Loads and patches are runs'.                                            *)
LEMMA IsNext ==
  ASSUME LoadsInv, SessionsInv, TypeOK, [CliNext]_cliVars
  PROVE  [Next]_vars
  <1>1. \A i \in RunIds : Starts(i) => Ingest(i)
      BY DEF Starts, Ingest, LoadsInv
  <1>2. \A i \in RunIds : Goes(i) => Ingest(i)
      BY DEF Goes, Ingest
  <1> QED
      BY <1>1, <1>2, Kinds, CanonicalAssumption, RefreshAssumption DEF Next

(* The fields of the next command.                                         *)
LEMMA CommandStep ==
  ASSUME LoadsInv, SessionsInv, TypeOK, [CliNext]_cliVars
  PROVE  /\ DOMAIN command' = DOMAIN CommandOver /\ command'.step \in CommandSteps
         /\ command'.force \in BOOLEAN
         /\ \A t \in command'.todo \ Direct : command'.newest[t] \in Versions \cup {None}
  <1> DEFINE Fine == /\ DOMAIN command' = DOMAIN CommandOver /\ command'.step \in CommandSteps
                     /\ command'.force \in BOOLEAN
                     /\ \A t \in command'.todo \ Direct : command'.newest[t] \in Versions \cup {None}
  <1>a. ASSUME NEW e, command' = Ended(e)
        PROVE  Fine
      BY <1>a, EndedFields DEF CommandSteps
  <1>b. UNCHANGED command => Fine
      BY DEF LoadsInv
  <1>c. ASSUME DOMAIN command' = DOMAIN command, command'.step \in CommandSteps,
               command'.force = command.force, command'.newest = command.newest,
               command'.todo \subseteq command.todo
        PROVE  Fine
      BY <1>c DEF LoadsInv
  <1>1. ASSUME RefreshStart
        PROVE  Fine
    <2>1. PICK wanted \in Selections, force \in BOOLEAN,
               listing \in SUBSET ((Staging \ Direct) \X Versions) :
            command' = [CommandOver EXCEPT !.step = "next", !.wanted = wanted, !.todo = wanted,
                          !.force = force,
                          !.newest = [t \in wanted \ Direct |-> ResolveLatest(listing, t)],
                          !.got = [t \in wanted |-> None]]
        BY <1>1 DEF RefreshStart
    <2>2. ASSUME NEW t
          PROVE  ResolveLatest(listing, t) \in Versions \cup {None}
      <3> DEFINE dates == {file[2] : file \in {f \in listing : f[1] = t}}
      <3>1. dates \subseteq Versions
          OBVIOUS
      <3> HIDE DEF dates
      <3>2. dates # {} => Max(dates) \in Versions
          BY <3>1, NewestDate
      <3> USE DEF dates
      <3> QED
          BY <3>2 DEF ResolveLatest
    <2>3. /\ DOMAIN command' = DOMAIN CommandOver /\ command'.step = "next"
          /\ command'.force = force /\ command'.todo = wanted
          /\ command'.newest = [t \in wanted \ Direct |-> ResolveLatest(listing, t)]
        BY <2>1, CommandFields DEF CommandOver
    <2> QED
        BY <2>2, <2>3 DEF CommandSteps
  <1>2. ASSUME RefreshRefused \/ (\E t \in Staging : SourceUnversioned(t)) \/ RebuildDependentFails
                 \/ RefreshDies \/ ByHandFails
        PROVE  Fine
      BY <1>2, <1>a DEF RefreshRefused, SourceUnversioned, RebuildDependentFails, RefreshDies,
                        ByHandFails
  <1>3. ASSUME NEW t \in Staging, SourceMissing(t) \/ SourceSkipped(t)
        PROVE  Fine
    <2>1. command.step = "next"
        BY <1>3 DEF SourceMissing, SourceSkipped, Turn
    <2>2. CASE SourceMissing(t)
        BY <2>1, <2>2, <1>c, CommandFields DEF SourceMissing, LoadsInv, CommandSteps
    <2>3. CASE SourceSkipped(t)
        BY <2>1, <2>3, <1>c, CommandFields DEF SourceSkipped, LoadsInv, CommandSteps
    <2> QED
        BY <1>3, <2>2, <2>3
  <1>4. ASSUME NEW t \in Staging, SourceIngest(t)
        PROVE  Fine
      BY <1>4, <1>c, CommandFields DEF SourceIngest, LoadsInv, CommandSteps
  <1>5. ASSUME NEW i \in RunIds, Ingesting(i)
        PROVE  Fine
    <2>1. CASE command' = AfterIngest(i)
        BY <2>1, <1>c, CommandFields DEF AfterIngest, LoadsInv, CommandSteps
    <2> QED
        BY <1>5, <2>1, <1>b DEF Ingesting
  <1>6. ASSUME RebuildDependent
        PROVE  Fine
    <2>1. CASE command' = [command EXCEPT !.step = "rebuild"]
        BY <2>1, <1>c, CommandFields DEF LoadsInv, CommandSteps
    <2> QED
        BY <1>6, <2>1, <1>a DEF RebuildDependent
  <1>7. ASSUME Building
        PROVE  Fine
      BY <1>7, <1>a, <1>b DEF Building
  <1>8. ASSUME NEW wanted \in (SUBSET Relations) \ {{}}, ByHand(wanted)
        PROVE  Fine
      BY <1>8, CommandFields DEF ByHand, CommandOver, CommandSteps
  <1>9. CASE RefreshNext
      BY <1>1, <1>2, <1>3, <1>4, <1>5, <1>6, <1>7, <1>8, <1>9
         DEF RefreshNext, RebuildingDependent, ByHandBuilding
  <1> QED
      BY <1>9, <1>b DEF CliNext, cliVars

(* There is one load at most after a step, the refresh's.                  *)
LEMMA LoadsStep ==
  ASSUME LoadsInv, SessionsInv, IInv, [CliNext]_cliVars
  PROVE  LoadsInv'
  <1> USE DEF Loading
  <1>a. TypeOK /\ loader \in [RunIds -> Loaders]
      BY DEF IInv, TypeOK
  <1>1. ASSUME NEW i \in RunIds, Starts(i)
        PROVE  LoadsInv'
    <2>1. /\ \A j \in RunIds \ {i} : loader'[j] = loader[j]
          /\ loader'[i].step = "fetch"
        BY <1>1, <1>a DEF Starts, IngestStart
    <2>2. \A j \in RunIds : ~Loading(j)
        BY <1>1 DEF Starts, LoadsInv
    <2> QED
        BY <1>1, <1>a, <2>1, <2>2, CommandStep DEF Starts, LoadsInv
  <1>2. ASSUME NEW i \in RunIds, Goes(i)
        PROVE  LoadsInv'
    <2>1. Ingest(i) /\ loader'[i].step \in {"copy", "validate", "record", "done", "dead"}
        BY <1>2, <1>a DEF Goes, Ingest, IngestRecreate, IngestCopy, IngestDedupe, IngestValidate,
                          IngestFail, IngestFinish, IngestCrash, Loaders
    <2>2. \A j \in RunIds \ {i} : loader'[j] = loader[j] /\ ~Loading(j)
        BY <1>2, <2>1, IngestElsewhere DEF Goes, LoadsInv
    <2> QED
        BY <1>2, <1>a, <2>1, <2>2, CommandStep DEF Goes, LoadsInv
  <1>3. CASE Patch /\ UNCHANGED command
    <2>1. loader' = loader
        BY <1>3 DEF Patch, PatchRewrite, PatchCommit, PatchAbort, ingestVars
    <2> QED
        BY <1>3, <2>1, <1>a, CommandStep DEF LoadsInv
  <1>4. CASE UNCHANGED ingestVars /\ ((UNCHANGED command) \/ Rests)
      BY <1>4, <1>a, CommandStep DEF LoadsInv, Rests, ingestVars
  <1> QED
      BY <1>a, <1>1, <1>2, <1>3, <1>4, Kinds DEF Rests

(* The sessions build when their commands say so.                          *)
LEMMA SessionsStep ==
  ASSUME LoadsInv, SessionsInv, IInv, [CliNext]_cliVars
  PROVE  SessionsInv'
  <1>a. TypeOK
      BY DEF IInv
  <1>b. /\ Cli \in Builders /\ Me \in Builders /\ Me # Cli
        /\ builder = [b \in Builders |-> builder[b]]
      BY <1>a, CanonicalAssumption, RefreshAssumption, SessionsAssumption DEF TypeOK
  <1>c. CASE UNCHANGED <<builder, canon, command>>
      BY <1>c DEF SessionsInv
  <1>1. CASE RefreshNext /\ UNCHANGED canonVars
    <2> SUFFICES /\ \A b \in Builders \ {Cli} : builder'[b] = builder[b]
                 /\ builder'[Cli].step # "idle" <=> command'.step \in {"rebuild", "byhand"}
        BY <1>1, <1>b DEF SessionsInv, canonVars
    <2>1. CASE UNCHANGED builder /\ command'.step \notin {"rebuild", "byhand"}
               /\ command.step \notin {"rebuild", "byhand"}
        BY <2>1 DEF SessionsInv
    <2>2. CASE \/ RefreshStart \/ RefreshRefused
               \/ \E t \in Staging : SourceMissing(t) \/ SourceUnversioned(t) \/ SourceSkipped(t)
               \/ \E t \in Staging : SourceIngest(t)
               \/ \E i \in RunIds : Ingesting(i)
      <3>1. Ended(1).step = "over"
          BY EndedFields
      <3>2. UNCHANGED builder
          BY <2>2 DEF RefreshStart, RefreshRefused, SourceMissing, SourceUnversioned, SourceSkipped,
               SourceIngest, IngestStart, Ingesting, IngestRecreate, IngestCopy, IngestDedupe,
               IngestValidate, IngestFail, IngestFinish, vars, buildVars
      <3>3. command.step \in {"over", "next", "ingest"}
          BY <2>2 DEF RefreshStart, RefreshRefused, SourceMissing, SourceUnversioned, SourceSkipped,
               SourceIngest, Turn, Ingesting
      <3>4. RefreshStart => command'.step = "next"
          BY CommandFields DEF RefreshStart
      <3>5. \A t \in Staging : SourceMissing(t) => command'.step = "next"
          BY CommandFields DEF SourceMissing, Turn, LoadsInv
      <3>6. \A t \in Staging : SourceSkipped(t) => command'.step = "next"
          BY CommandFields DEF SourceSkipped, Turn, LoadsInv
      <3>7. \A t \in Staging : SourceIngest(t) => command'.step = "ingest"
          BY CommandFields DEF SourceIngest, LoadsInv
      <3>8. \A i \in RunIds : Ingesting(i) => command'.step \in {"next", "ingest"}
          BY CommandFields DEF Ingesting, AfterIngest, LoadsInv
      <3>9. RefreshRefused \/ (\E t \in Staging : SourceUnversioned(t)) => command'.step = "over"
          BY <3>1 DEF RefreshRefused, SourceUnversioned
      <3> QED
          BY <2>1, <2>2, <3>2, <3>3, <3>4, <3>5, <3>6, <3>7, <3>8, <3>9
    <2>3. ASSUME Building, command.step \in {"rebuild", "byhand"}
          PROVE  /\ \A b \in Builders \ {Cli} : builder'[b] = builder[b]
                 /\ builder'[Cli].step # "idle" <=> command'.step \in {"rebuild", "byhand"}
      <3>1. Build(Cli)
          BY <2>3 DEF Building, Build
      <3>2. \A b \in Builders \ {Cli} : builder'[b] = builder[b]
          BY <3>1, <1>a, <1>b, OwnSession
      <3>3. \A e : Ended(e).step = "over"
          BY EndedFields
      <3> QED
          BY <2>3, <3>2, <3>3 DEF Building
    <2>4. ASSUME BuildFail(Cli), command'.step = "over"
          PROVE  /\ \A b \in Builders \ {Cli} : builder'[b] = builder[b]
                 /\ builder'[Cli].step # "idle" <=> command'.step \in {"rebuild", "byhand"}
        BY <2>4, <1>b DEF BuildFail, Idle
    <2>5. ASSUME NEW wanted, BuildStart(Cli, wanted), command'.step \in {"rebuild", "byhand"}
          PROVE  /\ \A b \in Builders \ {Cli} : builder'[b] = builder[b]
                 /\ builder'[Cli].step # "idle" <=> command'.step \in {"rebuild", "byhand"}
        BY <2>5, <1>b, IdleFields DEF BuildStart
    <2>6. CASE RebuildDependent
      <3>1. CASE Dependent = {}
          BY <2>6, <3>1, <2>1, EndedFields DEF RebuildDependent, vars
      <3>2. CASE Dependent # {}
          BY <2>6, <3>2, <2>5, CommandFields DEF RebuildDependent, LoadsInv
      <3> QED
          BY <3>1, <3>2
    <2>7. CASE RebuildDependentFails \/ ByHandFails
      <3>1. Ended(1).step = "over"
          BY EndedFields
      <3> QED
          BY <2>4, <2>7, <3>1 DEF RebuildDependentFails, ByHandFails
    <2>8. CASE RefreshDies
      <3>1. command'.step = "over"
          BY <2>8, EndedFields DEF RefreshDies
      <3>2. CASE command.step = "next" /\ UNCHANGED vars
          BY <2>1, <3>1, <3>2 DEF vars
      <3>3. CASE command.step = "ingest" /\ IngestCrash(command.run)
          BY <2>1, <3>1, <3>3 DEF IngestCrash, buildVars
      <3>4. CASE BuildFail(Cli)
          BY <2>4, <3>1, <3>4
      <3> QED
          BY <2>8, <3>2, <3>3, <3>4 DEF RefreshDies
    <2>9. ASSUME NEW wanted, ByHand(wanted)
          PROVE  /\ \A b \in Builders \ {Cli} : builder'[b] = builder[b]
                 /\ builder'[Cli].step # "idle" <=> command'.step \in {"rebuild", "byhand"}
      <3>1. command'.step = "byhand" /\ BuildStart(Cli, wanted)
          BY <2>9, CommandFields DEF ByHand
      <3> QED
          BY <2>5, <3>1
    <2> QED
        BY <1>1, <2>2, <2>3, <2>6, <2>7, <2>8, <2>9
           DEF RefreshNext, RebuildingDependent, ByHandBuilding
  <1>2. CASE Patch /\ UNCHANGED <<canonVars, command>>
      BY <1>2, <1>c DEF Patch, PatchRewrite, PatchCommit, PatchAbort, buildVars, canonVars
  <1>3. CASE CanonCommand /\ UNCHANGED command
    <2>a. /\ DOMAIN canon' = DOMAIN CanonIdle /\ canon'.step \in CanonSteps
          /\ canon'.todo \subseteq Relations /\ canon'.stale \subseteq Relations
          /\ \A b \in Builders \ {Me} : builder'[b] = builder[b]
          /\ builder'[Me].step # "idle" <=> canon'.step = "rebuild"
          => SessionsInv'
        BY <1>3, <1>b DEF SessionsInv
    <2>b. DOMAIN canon = DOMAIN CanonIdle
        BY DEF SessionsInv
    <2>c. CanonIdle.step = "idle" /\ CanonIdle.todo = {} /\ CanonIdle.stale = {}
        BY DEF CanonIdle
    <2>1. ASSUME NEW k \in CanonIds, CanonStart(k)
          PROVE  SessionsInv'
        BY <2>1, <2>a, <2>c, CommandFields DEF CanonStart, tableVars, SessionsInv, CanonSteps
    <2>2. ASSUME NEW r \in Relations, CanonScan(r)
          PROVE  SessionsInv'
        BY <2>2, <2>a, <2>b, CommandFields DEF CanonScan, tableVars, SessionsInv, CanonSteps
    <2>3. CASE CanonRebuild
        BY <2>3, <2>a, <2>b, <1>b, CommandFields, IdleFields
           DEF CanonRebuild, BuildStart, SessionsInv, CanonSteps
    <2>4. CASE CanonNothingStale \/ CanonLock \/ CanonCheck
        BY <2>4, <2>a, <2>b, CommandFields
           DEF CanonNothingStale, CanonLock, CanonCheck, tableVars, SessionsInv, CanonSteps
    <2>5. CASE CanonRebuilding
      <3>1. Build(Me)
          BY <2>5 DEF CanonRebuilding, Build
      <3>2. \A b \in Builders \ {Me} : builder'[b] = builder[b]
          BY <3>1, <1>a, <1>b, OwnSession
      <3>3. canon' = [canon EXCEPT !.step = IF builder'[Me].step = "idle" THEN "open" ELSE @]
            /\ canon.step = "rebuild"
          BY <2>5 DEF CanonRebuilding
      <3>4. /\ DOMAIN canon' = DOMAIN CanonIdle
            /\ canon'.step = IF builder'[Me].step = "idle" THEN "open" ELSE "rebuild"
            /\ canon'.todo = canon.todo /\ canon'.stale = canon.stale
          BY <3>3, <2>b, CommandFields
      <3> QED
          BY <2>a, <3>2, <3>4 DEF SessionsInv, CanonSteps
    <2>6. CASE CanonRebuildFails
        BY <2>6, <2>a, <2>c, <1>b, IdleFields
           DEF CanonRebuildFails, BuildFail, SessionsInv, CanonSteps, Idle
    <2>7. CASE CanonRead
        BY <2>7, <2>a, <2>b, CommandFields DEF CanonRead, tableVars, SessionsInv, CanonSteps
    <2>8. CASE CanonCommit
        BY <2>8, <2>a, <2>b, CommandFields DEF CanonCommit, tableVars, SessionsInv, CanonSteps
    <2>9. CASE CanonRecord \/ CanonFail \/ CanonCrash
        BY <2>9, <2>a, <2>c DEF CanonRecord, CanonFail, CanonCrash, tableVars, SessionsInv, CanonSteps
    <2> QED
        BY <1>3, <2>1, <2>2, <2>3, <2>4, <2>5, <2>6, <2>7, <2>8, <2>9 DEF CanonCommand
  <1>4. CASE UNCHANGED cliVars
      BY <1>4, <1>c DEF cliVars, allVars, tableVars, canonVars
  <1> QED
      BY <1>1, <1>2, <1>3, <1>4 DEF CliNext

(* So one run loads at a time, and what is shown of StampedTables holds.   *)
LEMMA IsSerial ==
  ASSUME LoadsInv, SessionsInv, IInv, [CliNext]_cliVars
  PROVE  [SerialNext]_vars
  <1>1. [Next]_vars
      BY IsNext DEF IInv
  <1>2. OneIngestPerTable'
      BY LoadsStep DEF LoadsInv, OneIngestPerTable
  <1> QED
      BY <1>1, <1>2 DEF SerialNext

(* The invariants of the tables hold of the commands.                      *)
LEMMA TablesStep ==
  ASSUME TablesInv, [CliNext]_cliVars
  PROVE  TablesInv'
  <1>1. [SerialNext]_vars
      BY IsSerial DEF TablesInv
  <1>2. IInv' /\ NamesInv'
      BY <1>1, IInvStep, SentStep, NamesItsLoadStep, OriginStep, NamesOriginStep
         DEF TablesInv, NamesInv
  <1> QED
      BY <1>2, LoadsStep, SessionsStep DEF TablesInv

-----------------------------------------------------------------------------
(* Runs and the rows and stamps they leave.                                *)

(* What a load may do next, a step at a time.                              *)
LEMMA LoadMoves ==
  ASSUME TablesInv, NEW i \in RunIds, Goes(i)
  PROVE  LET t == TableOf(i) IN
         /\ t \in Staging /\ runs[i].status = "started" /\ Loading(i)
         /\ \A j \in RunIds \ {i} : runs'[j] = runs[j] /\ loader'[j] = loader[j] /\ ~Loading(j)
         /\ \A s \in Staging \ {t} : rows'[s] = rows[s] /\ stamp'[s] = stamp[s]
         /\ runs'[i].kind = runs[i].kind /\ runs'[i].table = t
         /\ runs'[i].version = runs[i].version
         /\ \/ /\ runs'[i].status \in {"started", "failed"}
               /\ stamp'[t] \in {stamp[t], NoStamp}
               /\ loader[i].step # "fetch" => stamp'[t] = NoStamp
            \/ runs'[i].status = "success" /\ stamp'[t] = [run |-> i, patch |-> 0]
         /\ \/ /\ loader[i].step = "fetch" /\ ~ReadLocked(t)
               /\ rows'[t] = EmptyTable /\ stamp'[t] = NoStamp
            \/ /\ rows'[t].patch = rows[t].patch
               /\ rows'[t].loaded \subseteq rows[t].loaded \cup Whole(i)
               /\ loader'[i].step \in {"copy", "validate", "record"} \/ runs'[i].status = "success" =>
                    loader[i].step \in {"copy", "validate", "record"}
  <1>a. /\ rows \in [Staging -> RowSets] /\ stamp \in [Staging -> Stamps]
        /\ runs \in [RunIds -> RunRows] /\ loader \in [RunIds -> Loaders]
      BY DEF TablesInv, IInv, TypeOK
  <1>b. Ingest(i) /\ Loading(i)
      BY DEF Goes, Ingest, IngestRecreate, IngestCopy, IngestDedupe, IngestValidate, IngestFail,
             IngestFinish, IngestCrash, Loading
  <1>c. /\ TableOf(i) \in Staging /\ runs[i].status = "started"
        /\ loader[i].step # "fetch" => stamp[TableOf(i)] = NoStamp
      BY <1>b DEF TablesInv, IInv, LoadInv
  <1>d. \A j \in RunIds \ {i} : runs'[j] = runs[j] /\ loader'[j] = loader[j] /\ ~Loading(j)
      BY <1>b, IngestElsewhere DEF TablesInv, LoadsInv
  <1>e. \A s \in Staging \ {TableOf(i)} : rows'[s] = rows[s] /\ stamp'[s] = stamp[s]
      BY <1>b, IngestElsewhere DEF TablesInv
  <1>f. /\ runs[i] \in RunRows /\ loader[i] \in Loaders /\ rows[TableOf(i)] \in RowSets
      BY <1>a, <1>c
  <1>1. CASE IngestRecreate(i)
      BY <1>1, <1>a, <1>b, <1>c, <1>d, <1>e DEF IngestRecreate, TableOf
  <1>2. CASE IngestCopy(i)
    <2>1. /\ rows'[TableOf(i)].patch = rows[TableOf(i)].patch
          /\ rows'[TableOf(i)].loaded = rows[TableOf(i)].loaded \cup {<<i, loader[i].sent + 1>>}
        BY <1>2, <1>a, <1>c, <1>f DEF IngestCopy, RowSets
    <2>2. <<i, loader[i].sent + 1>> \in Whole(i)
        BY <1>2, <1>f, BoundsAssumption DEF IngestCopy, Loaders, Whole
    <2> QED
        BY <1>2, <1>b, <1>c, <1>d, <1>e, <2>1, <2>2 DEF IngestCopy, TableOf
  <1>3. CASE IngestDedupe(i)
    <2>1. /\ rows'[TableOf(i)].patch = rows[TableOf(i)].patch
          /\ rows'[TableOf(i)].loaded = rows[TableOf(i)].loaded
        BY <1>3, <1>a, <1>c, <1>f DEF IngestDedupe, RowSets
    <2> QED
        BY <1>3, <1>b, <1>c, <1>d, <1>e, <2>1 DEF IngestDedupe, TableOf
  <1>4. CASE IngestValidate(i)
      BY <1>4, <1>b, <1>c, <1>d, <1>e DEF IngestValidate, TableOf
  <1>5. CASE IngestFail(i)
    <2>1. /\ runs'[i].status = "failed" /\ runs'[i].kind = runs[i].kind
          /\ runs'[i].table = runs[i].table /\ runs'[i].version = runs[i].version
          /\ loader'[i].step = "done"
        BY <1>5, <1>a, <1>f DEF IngestFail, RunRows, Loaders
    <2> QED
        BY <1>5, <1>b, <1>c, <1>d, <1>e, <2>1 DEF IngestFail, TableOf
  <1>6. CASE IngestFinish(i)
    <2>1. /\ runs'[i].status = "success" /\ runs'[i].kind = runs[i].kind
          /\ runs'[i].table = runs[i].table /\ runs'[i].version = runs[i].version
          /\ stamp'[TableOf(i)] = [run |-> i, patch |-> 0]
        BY <1>6, <1>a, <1>c, <1>f DEF IngestFinish, RunRows
    <2> QED
        BY <1>6, <1>b, <1>c, <1>d, <1>e, <2>1 DEF IngestFinish, TableOf
  <1>7. CASE IngestCrash(i)
    <2>1. loader'[i].step = "dead"
        BY <1>7, <1>a, <1>f DEF IngestCrash, Loaders
    <2> QED
        BY <1>7, <1>b, <1>c, <1>d, <1>e, <2>1 DEF IngestCrash, TableOf
  <1> QED
      BY <1>1, <1>2, <1>3, <1>4, <1>5, <1>6, <1>7 DEF Goes

(* A refresh that starts a load adds its run.                              *)
LEMMA StartMoves ==
  ASSUME TablesInv, NumberedInv, NEW i \in RunIds, Starts(i)
  PROVE  /\ UNCHANGED <<rows, stamp>> /\ runs[i] = UnusedRun
         /\ \A j \in RunIds \ {i} : runs'[j] = runs[j] /\ loader'[j] = loader[j]
         /\ \A j \in RunIds : ~Loading(j)
         /\ runs'[i].kind = "ingest" /\ runs'[i].table \in Staging /\ runs'[i].status = "started"
         /\ loader'[i].step = "fetch"
         /\ \A j \in RunIds : runs[j].status # "unused" => j < i
         /\ \A j \in RunIds : j < i => runs[j].status # "unused"
  <1>a. runs \in [RunIds -> RunRows] /\ loader \in [RunIds -> Loaders]
      BY DEF TablesInv, IInv, TypeOK
  <1>1. PICK t \in Staging, v \in Versions : IngestStart(i, t, v, command.force)
      BY DEF Starts
  <1>2. NextRun(i)
      BY <1>1 DEF IngestStart
  <1>3. \A j \in RunIds : j < i => runs[j].status # "unused"
      BY <1>2 DEF NextRun
  <1>4. \A j \in RunIds : runs[j].status # "unused" => j < i
      BY <1>2 DEF NextRun, NumberedInv, RunIds
  <1>5. \A j \in RunIds : ~Loading(j)
      BY DEF TablesInv, LoadsInv, Starts
  <1>6. runs[i] = UnusedRun
      BY <1>2 DEF NextRun, NumberedInv
  <1> QED
      BY <1>a, <1>1, <1>3, <1>4, <1>5, <1>6 DEF IngestStart

(* A patch adds a run, and its rows to every table it rewrites, or does    *)
(* nothing that others see.                                                *)
LEMMA PatchMoves ==
  ASSUME TablesInv, NumberedInv, Patch
  PROVE  \/ UNCHANGED ingestVars
         \/ \E i \in RunIds :
              /\ loader' = loader /\ runs[i] = UnusedRun
              /\ \A j \in RunIds \ {i} : runs'[j] = runs[j]
              /\ runs'[i].kind = "patch" /\ runs'[i].table = None /\ runs'[i].status = "success"
              /\ \A j \in RunIds : runs[j].status # "unused" => j < i
              /\ \A j \in RunIds : j < i => runs[j].status # "unused"
              /\ \A t \in Staging :
                   /\ IF t \in Patched THEN rows'[t].patch = i ELSE rows'[t] = rows[t]
                   /\ rows'[t].loaded = rows[t].loaded
                   /\ stamp[t] = NoStamp => stamp'[t] = NoStamp
                   /\ stamp[t] # NoStamp => stamp'[t] # NoStamp /\ stamp'[t].run = stamp[t].run
  <1>a. /\ rows \in [Staging -> RowSets] /\ runs \in [RunIds -> RunRows]
      BY DEF TablesInv, IInv, TypeOK
  <1>1. CASE PatchRewrite \/ PatchAbort
      BY <1>1 DEF PatchRewrite, PatchAbort, ingestVars
  <1>2. ASSUME NEW i \in RunIds, PatchCommit(i)
        PROVE  /\ loader' = loader /\ runs[i] = UnusedRun
               /\ \A j \in RunIds \ {i} : runs'[j] = runs[j]
               /\ runs'[i].kind = "patch" /\ runs'[i].table = None /\ runs'[i].status = "success"
               /\ \A j \in RunIds : runs[j].status # "unused" => j < i
               /\ \A j \in RunIds : j < i => runs[j].status # "unused"
               /\ \A t \in Staging :
                    /\ IF t \in Patched THEN rows'[t].patch = i ELSE rows'[t] = rows[t]
                    /\ rows'[t].loaded = rows[t].loaded
                    /\ stamp[t] = NoStamp => stamp'[t] = NoStamp
                    /\ stamp[t] # NoStamp => stamp'[t] # NoStamp /\ stamp'[t].run = stamp[t].run
    <2>1. NextRun(i)
        BY <1>2 DEF PatchCommit
    <2>2. /\ \A j \in RunIds : runs[j].status # "unused" => j < i
          /\ \A j \in RunIds : j < i => runs[j].status # "unused"
          /\ runs[i] = UnusedRun
        BY <2>1 DEF NextRun, NumberedInv, RunIds
    <2>3. ASSUME NEW t \in Staging
          PROVE  /\ IF t \in Patched THEN rows'[t].patch = i ELSE rows'[t] = rows[t]
                 /\ rows'[t].loaded = rows[t].loaded
      <3>1. PICK old \in RowSets : old = rows[t]
          BY <1>a
      <3>2. PICK gone : gone = old.purged \cup patcher.purge[t]
          OBVIOUS
      <3>3. rows'[t] = IF t \in Patched THEN [old EXCEPT !.patch = i, !.purged = gone] ELSE old
          BY <1>2, <3>1, <3>2 DEF PatchCommit, PatchedRows
      <3> QED
          BY <3>1, <3>3 DEF RowSets
    <2>4. /\ loader' = loader /\ \A j \in RunIds \ {i} : runs'[j] = runs[j]
          /\ runs'[i].kind = "patch" /\ runs'[i].table = None /\ runs'[i].status = "success"
        BY <1>2, <1>a DEF PatchCommit
    <2> QED
        BY <2>2, <2>3, <2>4, PatchElsewhere DEF TablesInv
  <1> QED
      BY <1>1, <1>2 DEF Patch

(* Runs stay numbered as they start.                                       *)
LEMMA NumberedStep ==
  ASSUME TablesInv, NumberedInv, [CliNext]_cliVars
  PROVE  NumberedInv'
  <1>a. /\ TypeOK /\ runs \in [RunIds -> RunRows] /\ \A i \in RunIds : i \in Nat
      BY DEF TablesInv, IInv, TypeOK, RunIds
  <1>1. ASSUME NEW i \in RunIds, Starts(i)
        PROVE  NumberedInv'
    <2>1. /\ command'.step = "ingest" /\ command'.run = i
        BY <1>1 DEF Starts
    <2>2. runs'[i].kind = "ingest" /\ runs'[i].status = "started" /\ runs'[i].table \in Staging
        BY <1>1, StartMoves
    <2>3. /\ \A j \in RunIds \ {i} : runs'[j] = runs[j]
          /\ \A j \in RunIds : runs[j].status # "unused" => j < i
          /\ \A j \in RunIds : j < i => runs[j].status # "unused"
        BY <1>1, StartMoves
    <2> QED
        BY <1>a, <2>1, <2>2, <2>3 DEF NumberedInv, Started, TableOf
  <1>2. ASSUME NEW i \in RunIds, Goes(i)
        PROVE  NumberedInv'
    <2>1. /\ runs[i].status = "started" /\ \A j \in RunIds \ {i} : runs'[j] = runs[j]
          /\ runs'[i].kind = runs[i].kind /\ runs'[i].status \in {"started", "failed", "success"}
          /\ runs'[i].table = runs[i].table
        BY <1>2, LoadMoves DEF TableOf
    <2>2. command.step = "ingest" /\ command.run = i
          /\ (command'.step = "ingest" => command'.run = i)
        BY <1>2 DEF Goes
    <2> QED
        BY <1>a, <2>1, <2>2 DEF NumberedInv, Started, TableOf
  <1>3. CASE Patch /\ UNCHANGED command
    <2>1. CASE UNCHANGED ingestVars
        BY <1>3, <2>1 DEF NumberedInv, Started, TableOf, ingestVars
    <2>2. ASSUME NEW i \in RunIds,
                 \A j \in RunIds \ {i} : runs'[j] = runs[j],
                 runs'[i].kind = "patch", runs'[i].table = None, runs'[i].status = "success",
                 \A j \in RunIds : runs[j].status # "unused" => j < i,
                 \A j \in RunIds : j < i => runs[j].status # "unused"
          PROVE  NumberedInv'
        BY <1>3, <1>a, <2>2 DEF NumberedInv, Started, TableOf
    <2> QED
        BY <1>3, <2>1, <2>2, PatchMoves
  <1>4. CASE UNCHANGED ingestVars /\ ((UNCHANGED command) \/ Rests)
      BY <1>4 DEF NumberedInv, Started, TableOf, Rests, ingestVars
  <1> QED
      BY <1>a, <1>1, <1>2, <1>3, <1>4, Kinds DEF TablesInv, Rests

(* A stamp names the newest success of its table, and rows of a patch are  *)
(* the newest patch's.                                                     *)
LEMMA LatestStep ==
  ASSUME TablesInv, NumberedInv, LatestInv, [CliNext]_cliVars
  PROVE  LatestInv'
  <1>a. /\ TypeOK /\ None \notin Staging /\ \A i \in RunIds : i \in Nat /\ i # 0
      BY TopologyAssumption DEF TablesInv, IInv, RunIds
  <1>b. \A t \in Staging : t # PatchSource
      BY SessionsAssumption
  <1>c. UnusedRun.kind = "ingest" /\ UnusedRun.table = None /\ UnusedRun.status = "unused"
      BY DEF UnusedRun
  <1>1. ASSUME NEW i \in RunIds, Starts(i)
        PROVE  LatestInv'
    <2>1. /\ UNCHANGED <<rows, stamp>> /\ \A j \in RunIds \ {i} : runs'[j] = runs[j]
          /\ runs[i].kind = "ingest" /\ runs[i].table = None /\ runs[i].status = "unused"
          /\ runs'[i].kind = "ingest" /\ runs'[i].status = "started"
          /\ \A j \in RunIds : runs[j].status # "unused" => j < i
        BY <1>1, <1>c, StartMoves
    <2>2. \A s : RunsOf(s)' = RunsOf(s)
        BY <2>1 DEF RunsOf
    <2>3. \A t \in Staging : /\ IngestsOf(t) \subseteq IngestsOf(t)' /\ i \notin IngestsOf(t)
                             /\ \A j \in IngestsOf(t)' : j \in IngestsOf(t) \/ j = i
        BY <2>1, <1>a DEF IngestsOf
    <2>4. ASSUME NEW t \in Staging, NEW j \in IngestsOf(t)', Newest(j, IngestsOf(t)'),
                 runs'[j].status = "success"
          PROVE  stamp[t].run = j
      <3>1. j # i
          BY <2>1, <2>4
      <3>2. j \in IngestsOf(t) /\ Newest(j, IngestsOf(t)) /\ runs[j].status = "success"
          BY <2>1, <2>3, <2>4, <3>1 DEF Newest, IngestsOf
      <3> QED
          BY <3>2 DEF LatestInv
    <2> QED
        BY <2>1, <2>2, <2>4 DEF LatestInv
  <1>2. ASSUME NEW i \in RunIds, Goes(i)
        PROVE  LatestInv'
    <2> PICK t : t = TableOf(i)
        OBVIOUS
    <2>1. /\ t \in Staging /\ runs[i].status = "started"
          /\ \A j \in RunIds \ {i} : runs'[j] = runs[j]
          /\ \A s \in Staging \ {t} : rows'[s] = rows[s] /\ stamp'[s] = stamp[s]
          /\ runs'[i].kind = runs[i].kind /\ runs'[i].table = t
          /\ \/ runs'[i].status \in {"started", "failed"} /\ stamp'[t] \in {stamp[t], NoStamp}
             \/ runs'[i].status = "success" /\ stamp'[t] = [run |-> i, patch |-> 0]
          /\ rows'[t].patch \in {rows[t].patch, 0}
        BY <1>2, LoadMoves DEF EmptyTable, NoTable
    <2>2. runs[i].kind = "ingest"
        BY <2>1, <1>a DEF NumberedInv, TypeOK, RunRows, TableOf
    <2>3. RunsOf(PatchSource)' = RunsOf(PatchSource)
        BY <2>1, <2>2 DEF RunsOf
    <2>4. \A s \in Staging \ {t} : RunsOf(s)' = RunsOf(s)
        BY <2>1, <1>b DEF RunsOf
    <2>5. \A s \in Staging : IngestsOf(s)' = IngestsOf(s)
        BY <2>1 DEF IngestsOf, TableOf
    <2>6. \A j \in RunIds : Started(j) => j <= i
        BY <1>2 DEF Goes, NumberedInv
    <2>7. Newest(i, IngestsOf(t)) /\ \A j \in IngestsOf(t) : Newest(j, IngestsOf(t)) => j = i
      <3>1. \A j \in IngestsOf(t) : runs[j].status # "unused"
          BY <1>a, <1>c, <2>1 DEF IngestsOf, NumberedInv
      <3>2. i \in IngestsOf(t) /\ \A j \in IngestsOf(t) : j <= i /\ j \in Nat
          BY <1>a, <2>2, <2>6, <3>1 DEF IngestsOf, Started, TableOf
      <3> QED
          BY <1>a, <3>2 DEF Newest
    <2>8. CASE runs'[i].status # "success"
      <3>1. RunsOf(t)' = RunsOf(t)
          BY <2>1, <2>8, <1>b DEF RunsOf
      <3>2. \A s \in Staging : stamp'[s] \in {stamp[s], NoStamp}
          BY <2>1, <2>8
      <3>3. ASSUME NEW s \in Staging, NEW j \in IngestsOf(s), Newest(j, IngestsOf(s)),
                   runs'[j].status = "success"
            PROVE  stamp'[s].run = j
        <4>1. j # i /\ j \in RunIds
            BY <2>8, <3>3 DEF IngestsOf
        <4>2. s # t
            BY <2>7, <3>3, <4>1
        <4> QED
            BY <2>1, <3>3, <4>1, <4>2 DEF LatestInv
      <3>4. \A s \in Staging : stamp'[s] # NoStamp => Newest(stamp'[s].run, RunsOf(s)')
          BY <2>4, <3>1, <3>2 DEF LatestInv
      <3>5. \A s \in Staging : rows'[s].patch # 0 =>
              s \in Patched /\ Newest(rows'[s].patch, RunsOf(PatchSource)')
          BY <2>1, <2>3 DEF LatestInv
      <3> QED
          BY <2>5, <3>3, <3>4, <3>5 DEF LatestInv
    <2>9. CASE runs'[i].status = "success"
      <3>1. stamp'[t].run = i
          BY <2>1, <2>9
      <3>2. Newest(i, RunsOf(t)')
        <4>1. i \in RunsOf(t)'
            BY <2>1, <2>2, <2>9, <1>b DEF RunsOf
        <4>2. ASSUME NEW j \in RunsOf(t)'
              PROVE  j <= i
          <5>1. CASE j = i
              BY <5>1, <1>a
          <5>2. CASE j # i
              BY <4>2, <5>2, <2>1, <2>6, <1>b DEF RunsOf, Started
          <5> QED
              BY <5>1, <5>2
        <4> QED
            BY <4>1, <4>2 DEF Newest
      <3>3. \A s \in Staging : stamp'[s] # NoStamp => Newest(stamp'[s].run, RunsOf(s)')
        <4>1. \A s \in Staging \ {t} : stamp'[s] # NoStamp => Newest(stamp'[s].run, RunsOf(s)')
            BY <2>1, <2>4 DEF LatestInv
        <4> QED
            BY <4>1, <3>1, <3>2
      <3>4. ASSUME NEW s \in Staging, NEW j \in IngestsOf(s), Newest(j, IngestsOf(s)),
                   runs'[j].status = "success"
            PROVE  stamp'[s].run = j
        <4>1. CASE s = t
            BY <2>7, <3>1, <3>4, <4>1
        <4>2. CASE s # t
          <5>1. j # i /\ j \in RunIds
              BY <3>4, <4>2 DEF IngestsOf, TableOf
          <5> QED
              BY <2>1, <3>4, <4>2, <5>1 DEF LatestInv
        <4> QED
            BY <4>1, <4>2
      <3>5. \A s \in Staging : rows'[s].patch # 0 =>
              s \in Patched /\ Newest(rows'[s].patch, RunsOf(PatchSource)')
          BY <2>1, <2>3 DEF LatestInv
      <3> QED
          BY <2>5, <3>3, <3>4, <3>5 DEF LatestInv
    <2> QED
        BY <2>8, <2>9
  <1>3. ASSUME NEW i \in RunIds,
               runs[i] = UnusedRun,
               \A j \in RunIds \ {i} : runs'[j] = runs[j],
               runs'[i].kind = "patch", runs'[i].table = None, runs'[i].status = "success",
               \A j \in RunIds : runs[j].status # "unused" => j < i,
               \A t \in Staging :
                 /\ IF t \in Patched THEN rows'[t].patch = i ELSE rows'[t] = rows[t]
                 /\ stamp[t] = NoStamp => stamp'[t] = NoStamp
                 /\ stamp[t] # NoStamp => stamp'[t] # NoStamp /\ stamp'[t].run = stamp[t].run
        PROVE  LatestInv'
    <2>1. \A t \in Staging : RunsOf(t)' = RunsOf(t) /\ IngestsOf(t)' = IngestsOf(t)
      <3>1. /\ runs[i].table = None /\ runs[i].status = "unused" /\ runs'[i].table = None
            /\ runs'[i].kind = "patch" /\ \A j \in RunIds \ {i} : runs'[j] = runs[j]
          BY <1>3, <1>c
      <3> QED
          BY <3>1, <1>a, <1>b DEF RunsOf, IngestsOf
    <2>2. Newest(i, RunsOf(PatchSource)')
      <3>1. i \in RunsOf(PatchSource)'
          BY <1>3 DEF RunsOf
      <3>2. ASSUME NEW j \in RunsOf(PatchSource)'
            PROVE  j <= i
        <4>1. j \in RunIds /\ (j = i \/ runs[j].status = "success")
            BY <1>3, <3>2 DEF RunsOf
        <4> QED
            BY <4>1, <1>3, <1>a
      <3> QED
          BY <3>1, <3>2 DEF Newest
    <2>3. \A t \in Staging : rows'[t].patch # 0 =>
            t \in Patched /\ Newest(rows'[t].patch, RunsOf(PatchSource)')
        BY <1>3, <2>2 DEF LatestInv
    <2>4. \A t \in Staging : stamp'[t] # NoStamp => Newest(stamp'[t].run, RunsOf(t)')
        BY <1>3, <2>1 DEF LatestInv
    <2>5. ASSUME NEW t \in Staging, NEW j \in IngestsOf(t), Newest(j, IngestsOf(t)),
                 runs'[j].status = "success"
          PROVE  stamp'[t].run = j
      <3>1. j \in RunIds /\ j # i /\ j # 0
          BY <1>3, <1>a, <1>c, <2>5 DEF IngestsOf
      <3>2. stamp[t].run = j
          BY <1>3, <2>5, <3>1 DEF LatestInv
      <3>3. stamp[t] # NoStamp
          BY <3>1, <3>2 DEF NoStamp
      <3> QED
          BY <1>3, <3>2, <3>3
    <2> QED
        BY <2>1, <2>3, <2>4, <2>5 DEF LatestInv
  <1>4. CASE UNCHANGED ingestVars
      BY <1>4 DEF LatestInv, RunsOf, IngestsOf, Newest, ingestVars
  <1>5. CASE Patch
      BY <1>3, <1>4, <1>5, PatchMoves
  <1> QED
      BY <1>a, <1>1, <1>2, <1>4, <1>5, Kinds DEF TablesInv, Rests

(* A run is placed by emptying its table, which nobody reads then.         *)
LEMMA PlacedMoves ==
  ASSUME TablesInv, NumberedInv, [CliNext]_cliVars, NEW i \in RunIds, Placed(i)'
  PROVE  /\ TableOf(i)' = TableOf(i) /\ TableOf(i) \in Staging
         /\ \/ Placed(i)
            \/ rows'[TableOf(i)].loaded = {} /\ ~ReadLocked(TableOf(i)) /\ UNCHANGED builder
  <1>a. TypeOK /\ EmptyTable.loaded = {}
      BY DEF TablesInv, IInv, EmptyTable, NoTable
  <1>b. ASSUME runs'[i] = runs[i], loader'[i] = loader[i]
        PROVE  TableOf(i)' = TableOf(i) /\ TableOf(i) \in Staging /\ Placed(i)
    <2>1. Placed(i) /\ TableOf(i)' = TableOf(i)
        BY <1>b DEF Placed, TableOf
    <2>2. runs[i].status # "unused" /\ runs[i].kind = "ingest"
        BY <2>1 DEF Placed, TablesInv, IInv, LoadInv, Loading
    <2> QED
        BY <2>1, <2>2 DEF NumberedInv, Started
  <1>1. ASSUME NEW k \in RunIds, Starts(k)
        PROVE  /\ TableOf(i)' = TableOf(i) /\ TableOf(i) \in Staging /\ Placed(i)
    <2>1. i # k
        BY <1>1, StartMoves DEF Placed
    <2> QED
        BY <1>1, <2>1, <1>b, StartMoves
  <1>2. ASSUME NEW k \in RunIds, Goes(k), UNCHANGED builder
        PROVE  /\ TableOf(i)' = TableOf(i) /\ TableOf(i) \in Staging
               /\ \/ Placed(i)
                  \/ rows'[TableOf(i)].loaded = {} /\ ~ReadLocked(TableOf(i)) /\ UNCHANGED builder
    <2>1. CASE i # k
        BY <1>2, <2>1, <1>b, LoadMoves
    <2>2. CASE i = k
      <3>1. /\ TableOf(i) \in Staging /\ runs'[i].kind = runs[i].kind
            /\ runs'[i].table = TableOf(i)
            /\ \/ rows'[TableOf(i)] = EmptyTable /\ ~ReadLocked(TableOf(i))
               \/ loader'[i].step \in {"copy", "validate", "record"} \/ runs'[i].status = "success" =>
                    loader[i].step \in {"copy", "validate", "record"}
          BY <1>2, <2>2, LoadMoves
      <3> QED
          BY <3>1, <1>2, <1>a DEF Placed, TableOf
    <2> QED
        BY <2>1, <2>2
  <1>3. CASE Patch
    <2>1. \A j \in RunIds : j = i /\ runs'[j].kind = "patch" => FALSE
        BY DEF Placed
    <2> QED
        BY <1>3, <1>b, <2>1, PatchMoves DEF ingestVars
  <1>4. CASE UNCHANGED ingestVars
      BY <1>4, <1>b DEF ingestVars
  <1> QED
      BY <1>a, <1>1, <1>2, <1>3, <1>4, Kinds DEF TablesInv, Rests

(* What is added to a table a run has replaced is of that run or later.    *)
LEMMA RowsSince ==
  ASSUME TablesInv, NumberedInv, [CliNext]_cliVars, NEW i \in RunIds, Placed(i)
  PROVE  \A part \in rows'[TableOf(i)].loaded :
            part \in rows[TableOf(i)].loaded \/ part[1] >= i
  <1>a. /\ TypeOK /\ i \in Nat /\ EmptyTable.loaded = {}
      BY DEF TablesInv, IInv, RunIds, EmptyTable, NoTable
  <1>b. Started(i) /\ TableOf(i) \in Staging
      BY DEF Placed, Started, TablesInv, IInv, LoadInv, Loading, NumberedInv
  <1>1. ASSUME NEW k \in RunIds, Starts(k)
        PROVE  rows' = rows
      BY <1>1, StartMoves
  <1>2. ASSUME NEW k \in RunIds, Goes(k)
        PROVE  \A part \in rows'[TableOf(i)].loaded :
                 part \in rows[TableOf(i)].loaded \/ part[1] >= i
    <2>1. k >= i
        BY <1>2, <1>a, <1>b DEF Goes, NumberedInv, RunIds
    <2>2. \A part \in Whole(k) : part[1] = k
        BY DEF Whole
    <2>3. CASE TableOf(k) # TableOf(i)
        BY <1>2, <1>b, <2>3, LoadMoves
    <2>4. CASE TableOf(k) = TableOf(i)
      <3>1. \/ rows'[TableOf(i)] = EmptyTable
            \/ rows'[TableOf(i)].loaded \subseteq rows[TableOf(i)].loaded \cup Whole(k)
          BY <1>2, <2>4, LoadMoves
      <3> QED
          BY <3>1, <2>1, <2>2, <1>a
    <2> QED
        BY <2>3, <2>4
  <1>3. CASE Patch
      BY <1>3, <1>b, PatchElsewhere DEF TablesInv
  <1>4. CASE UNCHANGED ingestVars
      BY <1>4 DEF ingestVars
  <1> QED
      BY <1>a, <1>1, <1>2, <1>3, <1>4, Kinds DEF TablesInv, Rests

(* A build's statements read what the tables hold.                         *)
LEMMA BuildReads ==
  ASSUME TypeOK, NEW b \in Builders, Build(b), NEW c \in Builders, InTransaction(c)',
         NEW t \in StagingInputs[builder'[c].table], NEW x \in builder'[c].from[t]
  PROVE  \/ x = rows[t]
         \/ InTransaction(c) /\ builder'[c].table = builder[c].table /\ x \in builder[c].from[t]
  <1>a. /\ DOMAIN builder = Builders
        /\ DOMAIN builder[b] = {"step", "todo", "table", "got", "entries", "from", "rules"}
        /\ builder[b].step \in {"stamps", "temp", "built"} => builder[b].table \in Relations
      BY IdleFields DEF TypeOK, BuilderShape
  <1>b. \A r \in Relations : StagingInputs[r] \subseteq Staging /\ StagingInputs[r] \subseteq InputsOf(r)
      BY TopologyAssumption DEF InputsOf
  <1>c. \A s \in Staging : ContentOf(s) = rows[s]
      BY TopologyAssumption DEF ContentOf
  <1>d. CASE c # b
      BY <1>d, OwnSession DEF InTransaction
  <1>1. CASE c = b /\ \E wanted : BuildStart(b, wanted)
      BY <1>1, <1>a, IdleFields DEF BuildStart, InTransaction, Idle
  <1>2. ASSUME c = b, NEW r \in Relations, BuildLock(b, r)
        PROVE  FALSE
    <2>1. builder'[b].table = r /\ builder'[b].from = [n \in InputsOf(r) |-> {}]
        BY <1>2, <1>a DEF BuildLock
    <2> QED
        BY <1>2, <2>1, <1>b
  <1>3. CASE c = b /\ \E n \in Staging \cup Relations : BuildReadStamp(b, n)
      BY <1>3, <1>a DEF BuildReadStamp, InTransaction
  <1>4. CASE c = b /\ BuildTemp(b)
    <2>1. /\ builder'[b].table = builder[b].table
          /\ builder'[b].from = ReadNow(builder[b].from, InputsOf(builder[b].table),
                                        TempReads[builder[b].table])
          /\ builder[b].step = "stamps"
        BY <1>4, <1>a DEF BuildTemp
    <2> QED
        BY <1>4, <1>a, <1>b, <1>c, <2>1 DEF ReadNow, InTransaction
  <1>5. CASE c = b /\ BuildRows(b)
    <2>1. /\ builder'[b].table = builder[b].table
          /\ builder'[b].from = ReadNow(builder[b].from, InputsOf(builder[b].table),
                                        InputsOf(builder[b].table))
          /\ builder[b].step = "temp"
        BY <1>5, <1>a DEF BuildRows
    <2> QED
        BY <1>5, <1>a, <1>b, <1>c, <2>1 DEF ReadNow, InTransaction
  <1>6. CASE c = b /\ (BuildCommit(b) \/ BuildFail(b))
    <2>1. builder'[b].step \in {"idle", "next"}
      <3> DEFINE next == [Idle EXCEPT !.step = "next",
                                      !.todo = builder[b].todo \ {builder[b].table},
                                      !.rules = builder[b].rules]
      <3>1. Idle.step = "idle" /\ next.step = "next"
          BY DEF Idle
      <3>2. builder'[b] \in {Idle, next}
          BY <1>6, <1>a DEF BuildCommit, BuildFail
      <3> HIDE DEF next
      <3> QED
          BY <3>1, <3>2
    <2> QED
        BY <1>6, <2>1 DEF InTransaction
  <1> QED
      BY <1>d, <1>1, <1>2, <1>3, <1>4, <1>5, <1>6 DEF Build

(* Rows stay those of the runs since one that has replaced its table.      *)
LEMMA SinceStep ==
  ASSUME TablesInv, NumberedInv, SinceInv, [CliNext]_cliVars
  PROVE  SinceInv'
  <1>a. TypeOK /\ EmptyTable.loaded = {}
      BY DEF TablesInv, IInv, EmptyTable, NoTable
  <1> SUFFICES ASSUME NEW i \in RunIds, Placed(i)'
               PROVE  /\ Since(rows'[TableOf(i)'], i)
                      /\ \A b \in Builders :
                           InTransaction(b)' /\ TableOf(i)' \in StagingInputs[builder'[b].table] =>
                             \A c \in builder'[b].from[TableOf(i)'] : Since(c, i)
      BY DEF SinceInv, Since
  <1> PICK t : t = TableOf(i)
      OBVIOUS
  <1>1. TableOf(i)' = t /\ t \in Staging
      BY PlacedMoves
  <1>2. CASE Placed(i)
    <2>1. Since(rows'[t], i)
        BY <1>2, RowsSince DEF SinceInv, Since
    <2>2. ASSUME NEW b \in Builders, InTransaction(b)', t \in StagingInputs[builder'[b].table],
                 NEW c \in builder'[b].from[t]
          PROVE  Since(c, i)
      <3>1. UNCHANGED builder \/ \E d \in Builders : Build(d)
          BY <1>a, Kinds, RefreshAssumption, CanonicalAssumption DEF TablesInv, vars
      <3>2. CASE UNCHANGED builder
          BY <1>2, <2>2, <3>2 DEF SinceInv, InTransaction
      <3>3. ASSUME NEW d \in Builders, Build(d)
            PROVE  Since(c, i)
          BY <1>2, <1>a, <2>2, <3>3, BuildReads DEF SinceInv
      <3> QED
          BY <3>1, <3>2, <3>3
    <2> QED
        BY <1>1, <2>1, <2>2
  <1>3. CASE rows'[t].loaded = {} /\ ~ReadLocked(t) /\ UNCHANGED builder
      BY <1>1, <1>3 DEF Since, ReadLocked, InTransaction, InputsOf
  <1> QED
      BY <1>2, <1>3, PlacedMoves

-----------------------------------------------------------------------------
(* What the refresh has done stays done.                                   *)

(* A run that has succeeded keeps its row.                                 *)
LEMMA RunKeeps ==
  ASSUME TablesInv, NumberedInv, [CliNext]_cliVars, NEW i \in RunIds, runs[i].status = "success"
  PROVE  runs'[i] = runs[i]
  <1>a. TypeOK /\ UnusedRun.status = "unused"
      BY DEF TablesInv, IInv, UnusedRun
  <1>1. ASSUME NEW k \in RunIds, Starts(k)
        PROVE  runs'[i] = runs[i]
      BY <1>1, <1>a, StartMoves
  <1>2. ASSUME NEW k \in RunIds, Goes(k)
        PROVE  runs'[i] = runs[i]
      BY <1>2, LoadMoves
  <1>3. CASE Patch
      BY <1>3, <1>a, PatchMoves DEF ingestVars
  <1>4. CASE UNCHANGED ingestVars
      BY <1>4 DEF ingestVars
  <1> QED
      BY <1>a, <1>1, <1>2, <1>3, <1>4, Kinds DEF TablesInv, Rests

(* A relation rebuilt since a load stays so: whatever builds it next reads *)
(* rows of that load or later.                                             *)
LEMMA RebuiltStays ==
  ASSUME TablesInv, NumberedInv, SinceInv, [CliNext]_cliVars,
         NEW i \in RunIds, runs[i].kind = "ingest", runs[i].status = "success",
         NEW r \in Relations, TableOf(i) \in StagingInputs[r], Rebuilt(r, i)
  PROVE  Rebuilt(r, i)'
  <1> PICK t : t = TableOf(i)
      OBVIOUS
  <1>1. Placed(i) /\ TableOf(i)' = t
      BY RunKeeps DEF Placed, TableOf
  <1>2. [SerialNext]_vars /\ IInv
      BY IsSerial DEF TablesInv
  <1>3. CASE built'[r] = built[r]
      BY <1>1, <1>3 DEF Rebuilt
  <1>4. ASSUME NEW b \in Builders, builder[b].step = "built", builder[b].table = r,
               built'[r].from = builder[b].from
        PROVE  Rebuilt(r, i)'
      BY <1>1, <1>4 DEF Rebuilt, SinceInv, InTransaction, Since
  <1> QED
      BY <1>2, <1>3, <1>4, RelationFrom

(* What a builder does in its transaction.                                 *)
InRelation(b) ==
  \/ \E r \in Relations : BuildLock(b, r)
  \/ \E n \in Staging \cup Relations : BuildReadStamp(b, n)
  \/ BuildTemp(b)
  \/ BuildRows(b)

(* Its list stays, and it replaces a relation only by BuildRows.           *)
LEMMA ListStays ==
  ASSUME TypeOK, NEW b \in Builders, InRelation(b)
  PROVE  /\ builder'[b].todo = builder[b].todo
         /\ builder'[b].step \in {"stamps", "temp", "built"}
         /\ builder'[b].step = "built" => BuildRows(b)
  <1>a. /\ DOMAIN builder = Builders
        /\ DOMAIN builder[b] = {"step", "todo", "table", "got", "entries", "from", "rules"}
      BY IdleFields DEF TypeOK, BuilderShape
  <1>1. CASE \E r \in Relations : BuildLock(b, r)
      BY <1>1, <1>a DEF BuildLock
  <1>2. CASE \E n \in Staging \cup Relations : BuildReadStamp(b, n)
      BY <1>2, <1>a DEF BuildReadStamp
  <1>3. CASE BuildTemp(b)
      BY <1>3, <1>a DEF BuildTemp
  <1>4. CASE BuildRows(b)
      BY <1>4, <1>a DEF BuildRows
  <1> QED
      BY <1>1, <1>2, <1>3, <1>4 DEF InRelation

(* A relation the refresh has to rebuild is on its list until it is built  *)
(* from that load or later.                                                *)
LEMMA RebuildGoes ==
  ASSUME TablesInv, NumberedInv, SinceInv, [CliNext]_cliVars, Building,
         NEW i \in RunIds, runs[i].kind = "ingest", runs[i].status = "success",
         NEW r \in Relations, TableOf(i) \in StagingInputs[r], r \in builder[Cli].todo
  PROVE  r \in builder'[Cli].todo \/ Rebuilt(r, i)'
  <1> PICK t : t = TableOf(i)
      OBVIOUS
  <1>1. Placed(i) /\ TableOf(i)' = t
      BY RunKeeps DEF Placed, TableOf
  <1>a. /\ DOMAIN builder = Builders /\ Cli \in Builders
        /\ DOMAIN builder[Cli] = {"step", "todo", "table", "got", "entries", "from", "rules"}
        /\ built = [q \in Relations |-> built[q]]
      BY RefreshAssumption, IdleFields DEF TablesInv, IInv, TypeOK, BuilderShape
  <1>2. CASE InRelation(Cli)
      BY <1>2, <1>a, ListStays DEF TablesInv, IInv
  <1>3. CASE BuildCommit(Cli) /\ r = builder[Cli].table
    <2>1. builder[Cli].step = "built" /\ built'[r].from = builder[Cli].from
        BY <1>3, <1>a DEF BuildCommit
    <2> QED
        BY <1>a, <1>1, <1>3, <2>1 DEF Rebuilt, SinceInv, InTransaction, Since
  <1>4. CASE BuildCommit(Cli) /\ r # builder[Cli].table
    <2>1. PICK todo : todo = builder[Cli].todo \ {builder[Cli].table}
        OBVIOUS
    <2>2. builder'[Cli] = [Idle EXCEPT !.step = "next", !.todo = todo, !.rules = builder[Cli].rules]
        BY <1>4, <1>a, <2>1 DEF BuildCommit
    <2>3. builder'[Cli].todo = todo
        BY <2>2 DEF Idle
    <2> QED
        BY <1>4, <2>1, <2>3
  <1> QED
      BY <1>2, <1>3, <1>4 DEF Building, InRelation

(* A command that ends with an error claims nothing.                       *)
LEMMA FailedClaimsNothing ==
  ASSUME NEW e, e # 0, command' = Ended(e)
  PROVE  DoneInv'
  <1>1. /\ command'.wanted = {} /\ command'.got = <<>> /\ command'.loaded = {}
        /\ command'.todo = {} /\ command'.exit = e
      BY EndedFields
  <1> QED
      BY <1>1 DEF DoneInv

(* What the refresh has done stays done while its command stays, and its   *)
(* list of relations.                                                      *)
LEMMA DoneStays ==
  ASSUME TablesInv, NumberedInv, SinceInv, DoneInv, [CliNext]_cliVars,
         DOMAIN command'.got = command'.wanted, command'.wanted \subseteq Staging,
         command'.step \notin {"next", "ingest"} => command'.todo = {},
         command'.exit = 0 => \A t \in command'.wanted \ command'.todo :
           /\ command'.got[t] # None
           /\ \/ command'.step = "ingest" /\ TableOf(command.run)' = t
                   /\ runs'[command'.run].version = command'.got[t]
              \/ Succeeded(t, command.got[t])'
              \/ Succeeded(t, command'.got[t]),
         \A i \in command'.loaded \ command.loaded :
           /\ i \in RunIds /\ runs'[i].kind = "ingest" /\ runs'[i].status = "success"
           /\ command'.step = "next",
         command'.step = "rebuild" =>
           \/ command.step = "rebuild" /\ (Building \/ builder'[Cli].todo = builder[Cli].todo)
           \/ Dependent \subseteq builder'[Cli].todo,
         command'.step \in {"over", "byhand"} /\ command'.loaded # {} =>
           \/ command.step \in {"over", "byhand"}
           \/ command.step = "rebuild" /\ builder'[Cli].todo = {} /\ Building
           \/ Dependent = {}
  PROVE  DoneInv'
  <1>1. \A t, v : Succeeded(t, v) => Succeeded(t, v)'
      BY RunKeeps DEF Succeeded
  <1>2. \A i \in command.loaded :
          /\ i \in RunIds /\ runs[i].kind = "ingest" /\ runs[i].status = "success"
          /\ runs'[i] = runs[i] /\ TableOf(i)' = TableOf(i)
      BY RunKeeps DEF DoneInv, TableOf
  <1>3. ASSUME NEW i \in command.loaded, NEW r \in Basic, TableOf(i) \in StagingInputs[r]
        PROVE  /\ command'.step = "rebuild" => r \in builder'[Cli].todo \/ Rebuilt(r, i)'
               /\ command'.step \in {"over", "byhand"} /\ command'.loaded # {} => Rebuilt(r, i)'
    <2>1. r \in Relations /\ i \in RunIds
        BY <1>2, RefreshAssumption
    <2>2. Rebuilt(r, i) => Rebuilt(r, i)'
        BY <1>2, <1>3, <2>1, RebuiltStays
    <2>3. Building /\ r \in builder[Cli].todo => r \in builder'[Cli].todo \/ Rebuilt(r, i)'
        BY <1>2, <1>3, <2>1, RebuildGoes
    <2>4. r \in Dependent
        BY <1>3 DEF Dependent
    <2> QED
        BY <1>3, <2>1, <2>2, <2>3, <2>4 DEF DoneInv
  <1>4. \A i \in command'.loaded :
          i \in RunIds /\ runs'[i].kind = "ingest" /\ runs'[i].status = "success"
      BY <1>2
  <1>5. ASSUME NEW i \in command'.loaded, NEW r \in Basic, TableOf(i)' \in StagingInputs[r]
        PROVE  /\ command'.step = "rebuild" => r \in builder'[Cli].todo \/ Rebuilt(r, i)'
               /\ command'.step \in {"over", "byhand"} => Rebuilt(r, i)'
      BY <1>2, <1>3, <1>5
  <1>6. command'.exit = 0 => \A t \in command'.wanted \ command'.todo :
          /\ command'.got[t] # None
          /\ \/ command'.step = "ingest" /\ TableOf(command.run)' = t
                  /\ runs'[command'.run].version = command'.got[t]
             \/ Succeeded(t, command.got[t])'
      BY <1>1 DEF Succeeded
  <1> QED
      BY <1>4, <1>5, <1>6 DEF DoneInv

(* What an exit code of 0 will claim is kept true by every step.           *)
LEMMA DoneStep ==
  ASSUME TablesInv, NumberedInv, SinceInv, DoneInv, [CliNext]_cliVars
  PROVE  DoneInv'
  <1>a. /\ DOMAIN command = DOMAIN CommandOver /\ DOMAIN command.got = command.wanted
        /\ command.wanted \subseteq Staging
        /\ runs \in [RunIds -> RunRows] /\ loader \in [RunIds -> Loaders]
        /\ IInv /\ LoadsInv /\ SessionsInv /\ TypeOK
      BY DEF TablesInv, LoadsInv, DoneInv, IInv, TypeOK
  <1>1. CASE RefreshStart
    <2>1. PICK wanted \in Selections, force \in BOOLEAN,
               listing \in SUBSET ((Staging \ Direct) \X Versions) :
            command' = [CommandOver EXCEPT !.step = "next", !.wanted = wanted, !.todo = wanted,
                          !.force = force,
                          !.newest = [t \in wanted \ Direct |-> ResolveLatest(listing, t)],
                          !.got = [t \in wanted |-> None]]
        BY <1>1 DEF RefreshStart
    <2>2. wanted \subseteq Staging
        BY DEF Selections
    <2>3. /\ command'.step = "next" /\ command'.wanted = wanted /\ command'.todo = wanted
          /\ command'.got = [t \in wanted |-> None] /\ command'.loaded = {}
        BY <2>1, CommandFields DEF CommandOver
    <2> QED
        BY <2>2, <2>3, DoneStays
  <1>2. CASE RefreshRefused \/ (\E t \in Staging : SourceUnversioned(t)) \/ RebuildDependentFails
             \/ RefreshDies \/ ByHandFails
      BY <1>2, FailedClaimsNothing
         DEF RefreshRefused, SourceUnversioned, RebuildDependentFails, RefreshDies, ByHandFails
  <1>3. ASSUME NEW t \in Staging, SourceMissing(t)
        PROVE  DoneInv'
    <2>1. /\ command'.step = "next" /\ command'.wanted = command.wanted
          /\ command'.got = command.got /\ command'.loaded = command.loaded /\ command'.exit = 1
        BY <1>3, <1>a, CommandFields DEF SourceMissing, Turn
    <2> QED
        BY <1>a, <2>1, DoneStays
  <1>4. ASSUME NEW t \in Staging, SourceSkipped(t)
        PROVE  DoneInv'
    <2>1. PICK v \in Resolutions(t) \ {None} :
            Succeeded(t, v) /\ command' = [command EXCEPT !.todo = @ \ {t}, !.got[t] = v]
        BY <1>4 DEF SourceSkipped
    <2>2. command.step = "next"
        BY <1>4 DEF SourceSkipped, Turn
    <2>3. /\ command'.step = "next" /\ command'.wanted = command.wanted
          /\ command'.got = [command.got EXCEPT ![t] = v] /\ command'.loaded = command.loaded
          /\ command'.todo = command.todo \ {t} /\ command'.exit = command.exit
        BY <1>a, <2>1, <2>2, CommandFields
    <2>4. ASSUME command'.exit = 0, NEW s \in command'.wanted \ command'.todo
          PROVE  command'.got[s] # None /\ Succeeded(s, command'.got[s])
      <3>1. CASE s = t
        <4>1. command'.got[s] = v
            BY <1>a, <2>3, <2>4, <3>1
        <4> QED
            BY <2>1, <3>1, <4>1
      <3>2. CASE s # t
        <4>1. command'.got[s] = command.got[s] /\ s \in command.wanted \ command.todo
            BY <1>a, <2>3, <2>4, <3>2
        <4> QED
            BY <2>2, <2>3, <2>4, <4>1 DEF DoneInv
      <3> QED
          BY <3>1, <3>2
    <2> QED
        BY <1>a, <2>3, <2>4, DoneStays
  <1>5. ASSUME NEW t \in Staging, SourceIngest(t)
        PROVE  DoneInv'
    <2>1. PICK v \in Resolutions(t) \ {None}, i \in RunIds :
            /\ IngestStart(i, t, v, command.force)
            /\ command' = [command EXCEPT !.step = "ingest", !.todo = @ \ {t}, !.got[t] = v,
                                          !.run = i]
        BY <1>5 DEF SourceIngest
    <2>2. command.step = "next"
        BY <1>5 DEF SourceIngest, Turn
    <2>3. /\ command'.step = "ingest" /\ command'.wanted = command.wanted
          /\ command'.got = [command.got EXCEPT ![t] = v] /\ command'.loaded = command.loaded
          /\ command'.todo = command.todo \ {t} /\ command'.exit = command.exit
          /\ command'.run = i
        BY <1>a, <2>1, <2>2, CommandFields
    <2>4. runs'[i].table = t /\ runs'[i].version = v
        BY <1>a, <2>1 DEF IngestStart
    <2>5. ASSUME command'.exit = 0, NEW s \in command'.wanted \ command'.todo
          PROVE  /\ command'.got[s] # None
                 /\ \/ TableOf(command.run)' = s /\ runs'[command'.run].version = command'.got[s]
                    \/ Succeeded(s, command'.got[s])
      <3>1. CASE s = t
        <4>1. command'.got[s] = v
            BY <1>a, <2>3, <2>5, <3>1
        <4> QED
            BY <2>1, <2>3, <2>4, <3>1, <4>1 DEF TableOf
      <3>2. CASE s # t
        <4>1. command'.got[s] = command.got[s] /\ s \in command.wanted \ command.todo
            BY <1>a, <2>3, <2>5, <3>2
        <4> QED
            BY <2>2, <2>3, <2>5, <4>1 DEF DoneInv
      <3> QED
          BY <3>1, <3>2
    <2> QED
        BY <1>a, <2>3, <2>5, DoneStays
  <1>6. ASSUME NEW i \in RunIds, Ingesting(i), UNCHANGED canonVars
        PROVE  DoneInv'
    <2>1. /\ command.step = "ingest" /\ command.run = i
          /\ Goes(i)
          /\ command' = IF loader'[i].step = "done" THEN AfterIngest(i) ELSE command
      <3>1. loader'[i].step # "dead"
          BY <1>6, <1>a DEF Ingesting, IngestRecreate, IngestCopy, IngestDedupe, IngestValidate,
                      IngestFail, IngestFinish, Loaders
      <3>2. AfterIngest(i).step = "next"
          BY <1>a, CommandFields DEF AfterIngest
      <3> QED
          BY <1>6, <3>1, <3>2 DEF Ingesting, Goes
    <2>2. /\ runs'[i].kind = runs[i].kind /\ runs'[i].table = TableOf(i)
          /\ runs'[i].version = runs[i].version /\ runs[i].status = "started"
        BY <2>1, LoadMoves
    <2>3. runs[i].kind = "ingest"
      <3>1. runs[i] \in RunRows /\ runs[i].table \in Staging
          BY <2>1, <1>a, LoadMoves DEF TableOf
      <3>2. runs[i].kind \in {"ingest", "patch"} /\ runs[i].table # None
          BY <3>1, TopologyAssumption DEF RunRows
      <3> QED
          BY <3>2 DEF NumberedInv
    <2>4. ASSUME command.exit = 0, NEW s \in command.wanted \ command.todo
          PROVE  /\ command.got[s] # None
                 /\ \/ TableOf(i)' = s /\ runs'[i].version = command.got[s]
                    \/ Succeeded(s, command.got[s])
        BY <2>1, <2>2, <2>4 DEF DoneInv, TableOf
    <2>5. CASE loader'[i].step # "done"
        BY <1>a, <2>1, <2>2, <2>4, <2>5, DoneStays DEF TableOf
    <2>6. CASE loader'[i].step = "done" /\ runs'[i].status = "success"
      <3>1. /\ command'.step = "next" /\ command'.wanted = command.wanted
            /\ command'.got = command.got /\ command'.loaded = command.loaded \cup {i}
            /\ command'.todo = command.todo /\ command'.exit = command.exit
          BY <1>a, <2>1, <2>6, CommandFields DEF AfterIngest
      <3>2. \A s, v : TableOf(i)' = s /\ runs'[i].version = v => Succeeded(s, v)'
          BY <2>2, <2>3, <2>6 DEF Succeeded, TableOf
      <3>3. command'.exit = 0 => \A s \in command'.wanted \ command'.todo :
              command'.got[s] # None
              /\ (Succeeded(s, command.got[s])' \/ Succeeded(s, command'.got[s]))
        <4> SUFFICES ASSUME command.exit = 0, NEW s \in command.wanted \ command.todo
                     PROVE  command.got[s] # None
                            /\ (Succeeded(s, command.got[s])' \/ Succeeded(s, command.got[s]))
            BY <3>1 DEF Succeeded
        <4>1. TableOf(i)' = s /\ runs'[i].version = command'.got[s] => Succeeded(s, command.got[s])'
            BY <2>2, <2>3, <2>6 DEF Succeeded, TableOf
        <4> QED
            BY <2>4, <3>1, <4>1
      <3> QED
          BY <1>a, <2>2, <2>3, <2>6, <3>1, <3>3, DoneStays
    <2>7. CASE loader'[i].step = "done" /\ runs'[i].status # "success"
      <3>1. /\ command'.step = "next" /\ command'.wanted = command.wanted
            /\ command'.got = command.got /\ command'.loaded = command.loaded
            /\ command'.exit = 1
          BY <1>a, <2>1, <2>7, CommandFields DEF AfterIngest
      <3> QED
          BY <1>a, <3>1, DoneStays
    <2> QED
        BY <2>5, <2>6, <2>7
  <1>c. ASSUME command' = Ended(command.exit), command.exit = 0
        PROVE  /\ command'.step = "over" /\ command'.wanted = command.wanted
               /\ command'.got = command.got /\ command'.loaded = command.loaded
               /\ command'.todo = {} /\ command'.exit = 0
      BY <1>c, EndedFields
  <1>7. CASE RebuildDependent
    <2>1. command.step = "next" /\ command.todo = {}
        BY <1>7 DEF RebuildDependent
    <2>2. command.exit = 0 => \A s \in command.wanted :
            command.got[s] # None /\ Succeeded(s, command.got[s])
        BY <2>1 DEF DoneInv
    <2>3. CASE Dependent # {}
      <3>1. /\ command'.step = "rebuild" /\ command'.wanted = command.wanted
            /\ command'.got = command.got /\ command'.loaded = command.loaded
            /\ command'.todo = {} /\ command'.exit = command.exit
          BY <1>7, <1>a, <2>1, <2>3, CommandFields DEF RebuildDependent
      <3>2. builder'[Cli].todo = Dependent
        <4>1. builder'[Cli] = [Idle EXCEPT !.step = "next", !.todo = Dependent, !.rules = rules]
            BY <1>7, <1>a, <2>3, RefreshAssumption DEF RebuildDependent, BuildStart, TypeOK
        <4> QED
            BY <4>1, IdleFields
      <3> QED
          BY <1>a, <2>1, <2>2, <3>1, <3>2, DoneStays
    <2>4. CASE Dependent = {}
      <3>1. command' = Ended(command.exit)
          BY <1>7, <2>4 DEF RebuildDependent
      <3>2. CASE command.exit # 0
          BY <3>1, <3>2, FailedClaimsNothing
      <3>3. CASE command.exit = 0
          BY <1>a, <1>c, <2>1, <2>2, <2>4, <3>1, <3>3, DoneStays
      <3> QED
          BY <3>2, <3>3
    <2> QED
        BY <2>3, <2>4
  <1>8. ASSUME Building, command.step \in {"rebuild", "byhand"}
        PROVE  DoneInv'
    <2>1. command.todo = {}
        BY <1>8 DEF DoneInv
    <2>2. command.exit = 0 => \A s \in command.wanted :
            command.got[s] # None /\ Succeeded(s, command.got[s])
        BY <1>8, <2>1 DEF DoneInv
    <2>3. CASE builder'[Cli].step # "idle"
      <3>1. command' = command
          BY <1>8, <2>3 DEF Building
      <3> QED
          BY <1>8, <1>a, <2>1, <2>2, <3>1, DoneStays
    <2>4. CASE builder'[Cli].step = "idle"
      <3>1. command' = Ended(command.exit)
          BY <1>8, <2>4 DEF Building
      <3>2. CASE command.exit # 0
          BY <3>1, <3>2, FailedClaimsNothing
      <3>3. CASE command.exit = 0
        <4>1. builder'[Cli].todo = {}
          <5>1. TypeOK'
              BY TablesStep DEF TablesInv, IInv
          <5>2. Build(Cli) /\ Cli \in Builders
              BY <1>8, RefreshAssumption DEF Building, Build
          <5>3. /\ DOMAIN builder = Builders
                /\ DOMAIN builder[Cli] = {"step", "todo", "table", "got", "entries", "from", "rules"}
              BY <1>a, <5>2, IdleFields DEF TypeOK, BuilderShape
          <5>4. CASE BuildCommit(Cli)
            <6> DEFINE next == [Idle EXCEPT !.step = "next",
                                            !.todo = builder[Cli].todo \ {builder[Cli].table},
                                            !.rules = builder[Cli].rules]
            <6>1. Idle.todo = {} /\ next.step = "next"
                BY DEF Idle
            <6>2. builder'[Cli] \in {Idle, next}
                BY <5>2, <5>3, <5>4 DEF BuildCommit
            <6> HIDE DEF next
            <6> QED
                BY <2>4, <6>1, <6>2
          <5>5. CASE ~BuildCommit(Cli)
            <6>1. InRelation(Cli)
                BY <1>8, <5>5 DEF Building, InRelation
            <6>2. builder'[Cli].step # "idle"
                BY <1>a, <5>2, <6>1, ListStays
            <6> QED
                BY <2>4, <6>2
          <5> QED
              BY <5>4, <5>5
        <4> QED
            BY <1>8, <1>a, <1>c, <2>1, <2>2, <3>1, <3>3, <4>1, DoneStays
      <3> QED
          BY <3>2, <3>3
    <2> QED
        BY <2>3, <2>4
  <1>9. ASSUME NEW wanted, ByHand(wanted)
        PROVE  DoneInv'
    <2>1. /\ command'.step = "byhand" /\ command'.wanted = {} /\ command'.got = <<>>
          /\ command'.todo = {} /\ command'.loaded = {}
        BY <1>9, CommandFields DEF ByHand, CommandOver
    <2>2. DOMAIN command'.got = {}
        BY <2>1
    <2> QED
        BY <2>1, <2>2, DoneStays
  <1>10. CASE UNCHANGED <<ingestVars, command>> /\ builder'[Cli] = builder[Cli]
    <2>1. command'.exit = 0 => \A s \in command'.wanted \ command'.todo :
            /\ command'.got[s] # None
            /\ \/ command'.step = "ingest" /\ TableOf(command.run)' = s
                    /\ runs'[command'.run].version = command'.got[s]
               \/ Succeeded(s, command'.got[s])
        BY <1>10 DEF DoneInv, TableOf, ingestVars
    <2> QED
        BY <1>10, <1>a, <2>1, DoneStays DEF DoneInv
  <1>11. CASE Patch /\ UNCHANGED <<builder, command>>
    <2>1. command.step = "ingest" => runs'[command.run] = runs[command.run]
        BY <1>11, <1>a, PatchMoves
           DEF LoadsInv, LoadInv, IInv, UnusedRun, ingestVars
    <2>2. command'.exit = 0 => \A s \in command'.wanted \ command'.todo :
            /\ command'.got[s] # None
            /\ \/ command'.step = "ingest" /\ TableOf(command.run)' = s
                    /\ runs'[command'.run].version = command'.got[s]
               \/ Succeeded(s, command'.got[s])
        BY <1>11, <2>1 DEF DoneInv, TableOf
    <2> QED
        BY <1>11, <1>a, <2>2, DoneStays DEF DoneInv
  <1>12. CASE RefreshNext /\ UNCHANGED canonVars
      BY <1>1, <1>2, <1>3, <1>4, <1>5, <1>6, <1>7, <1>8, <1>9, <1>12
         DEF RefreshNext, RebuildingDependent, ByHandBuilding
  <1>13. CASE CanonCommand /\ UNCHANGED command
    <2>1. UNCHANGED ingestVars /\ (UNCHANGED vars \/ Build(Me))
        BY <1>13, <1>a, CanonMoves
    <2>2. builder'[Cli] = builder[Cli]
        BY <2>1, <1>a, OwnSession, CanonicalAssumption, RefreshAssumption, SessionsAssumption
           DEF vars
    <2> QED
        BY <1>10, <1>13, <2>1, <2>2
  <1>14. CASE UNCHANGED cliVars
      BY <1>10, <1>14 DEF cliVars, allVars, tableVars, ingestVars
  <1>15. CASE Patch /\ UNCHANGED command
      BY <1>11, <1>15 DEF Patch, PatchRewrite, PatchCommit, PatchAbort, buildVars
  <1> QED
      BY <1>12, <1>13, <1>14, <1>15 DEF CliNext

(* What a command has loaded stays its source's newest run while it starts *)
(* no load.                                                                *)
LEMMA LoadedStays ==
  ASSUME TablesInv, NumberedInv, DoneInv, LoadedInv, [CliNext]_cliVars,
         command'.loaded \subseteq command.loaded, command'.todo \subseteq command.todo,
         command'.step = "ingest" => command.step = "ingest" /\ command'.run = command.run
  PROVE  LoadedInv'
  <1>a. \A i \in RunIds : ~Starts(i)
      BY DEF Starts
  <1>b. TypeOK /\ LoadsInv /\ SessionsInv /\ UnusedRun.table = None /\ None \notin Staging
      BY TopologyAssumption DEF TablesInv, IInv, UnusedRun
  <1>1. ASSUME NEW j \in RunIds
        PROVE  /\ runs'[j].kind = "ingest" /\ runs'[j].table \in Staging =>
                    runs[j].kind = "ingest" /\ runs[j].table = runs'[j].table
               /\ runs[j].kind = "ingest" /\ runs[j].table \in Staging =>
                    runs'[j].kind = "ingest" /\ runs[j].table = runs'[j].table
    <2>1. ASSUME NEW k \in RunIds, Goes(k)
          PROVE  runs'[j].kind = runs[j].kind /\ runs'[j].table = runs[j].table
      <3>1. /\ runs'[k].kind = runs[k].kind /\ runs'[k].table = runs[k].table
            /\ j # k => runs'[j] = runs[j]
          BY <2>1, LoadMoves DEF TableOf
      <3> QED
          BY <3>1
    <2>2. CASE Patch
      <3>1. CASE UNCHANGED ingestVars
          BY <3>1 DEF ingestVars
      <3>2. ASSUME NEW k \in RunIds, runs[k] = UnusedRun, runs'[k].kind = "patch",
                   \A l \in RunIds \ {k} : runs'[l] = runs[l]
            PROVE  /\ runs'[j].kind = "ingest" => runs'[j] = runs[j]
                   /\ runs[j].table \in Staging => runs'[j] = runs[j]
          BY <1>b, <3>2
      <3> QED
          BY <2>2, <3>1, <3>2, PatchMoves
    <2>3. CASE UNCHANGED ingestVars
        BY <2>3 DEF ingestVars
    <2> QED
        BY <1>a, <1>b, <2>1, <2>2, <2>3, Kinds DEF Rests
  <1>2. \A i \in command.loaded : /\ i \in RunIds /\ runs[i].kind = "ingest"
                                  /\ TableOf(i) \in Staging /\ TableOf(i)' = TableOf(i)
      BY <1>1 DEF DoneInv, LoadedInv, TableOf, NumberedInv, Started
  <1>3. ASSUME NEW i \in command'.loaded
        PROVE  TableOf(i)' \notin command'.todo /\ Newest(i, IngestsOf(TableOf(i)))'
    <2>1. PICK t \in Staging : t = TableOf(i) /\ TableOf(i)' = t
        BY <1>2, <1>3
    <2>2. IngestsOf(t)' = IngestsOf(t)
        BY <1>1 DEF IngestsOf
    <2> QED
        BY <1>3, <2>1, <2>2 DEF LoadedInv, Newest
  <1>4. command'.step = "ingest" => TableOf(command.run)' \notin command'.todo
    <2> SUFFICES ASSUME command'.step = "ingest" PROVE TableOf(command.run)' \notin command'.todo
        OBVIOUS
    <2>1. command.step = "ingest" /\ command.run \in RunIds /\ Loading(command.run)
          /\ command'.run = command.run
        BY <1>b DEF LoadsInv
    <2>2. PICK k \in RunIds : k = command.run
        BY <2>1
    <2>3. runs[k].table \in Staging /\ runs[k] \in RunRows
        BY <1>b, <2>1, <2>2 DEF TablesInv, IInv, TypeOK, LoadInv, TableOf
    <2>4. runs[k].kind = "ingest"
        BY <1>b, <2>3 DEF NumberedInv, RunRows
    <2> QED
        BY <1>1, <2>1, <2>2, <2>3, <2>4 DEF LoadedInv, TableOf
  <1> QED
      BY <1>3, <1>4 DEF LoadedInv

LEMMA LoadedStep ==
  ASSUME TablesInv, NumberedInv, DoneInv, LoadedInv, [CliNext]_cliVars
  PROVE  LoadedInv'
  <1>a. /\ DOMAIN command = DOMAIN CommandOver /\ TypeOK /\ LoadsInv /\ SessionsInv
        /\ runs \in [RunIds -> RunRows]
      BY DEF TablesInv, LoadsInv, IInv, TypeOK
  <1>b. ASSUME command'.loaded = {}, command'.step # "ingest"
        PROVE  LoadedInv'
      BY <1>b DEF LoadedInv
  <1>c. ASSUME NEW e, command' = Ended(e)
        PROVE  LoadedInv'
    <2>1. command'.todo = {} /\ command'.step = "over" /\ command'.loaded \subseteq command.loaded
        BY <1>c, EndedFields
    <2> QED
        BY <2>1, LoadedStays
  <1>1. CASE RefreshStart
    <2>1. command'.loaded = {} /\ command'.step = "next"
        BY <1>1, CommandFields DEF RefreshStart, CommandOver
    <2> QED
        BY <1>b, <2>1
  <1>2. CASE RefreshRefused \/ (\E t \in Staging : SourceUnversioned(t)) \/ RebuildDependentFails
             \/ RefreshDies \/ ByHandFails
      BY <1>2, <1>c DEF RefreshRefused, SourceUnversioned, RebuildDependentFails, RefreshDies, ByHandFails
  <1>3. ASSUME NEW t \in Staging, SourceMissing(t) \/ SourceSkipped(t)
        PROVE  LoadedInv'
    <2>1. /\ command'.step = "next" /\ command'.loaded = command.loaded
          /\ command'.todo \subseteq command.todo
      <3>1. CASE SourceMissing(t)
          BY <1>a, <3>1, CommandFields DEF SourceMissing, Turn
      <3>2. CASE SourceSkipped(t)
        <4>1. PICK v : command' = [command EXCEPT !.todo = @ \ {t}, !.got[t] = v]
            BY <3>2 DEF SourceSkipped
        <4>2. command.step = "next"
            BY <3>2 DEF SourceSkipped, Turn
        <4> QED
            BY <1>a, <4>1, <4>2, CommandFields
      <3> QED
          BY <1>3, <3>1, <3>2
    <2> QED
        BY <2>1, LoadedStays
  <1>4. ASSUME NEW t \in Staging, SourceIngest(t)
        PROVE  LoadedInv'
    <2>1. PICK v \in Resolutions(t) \ {None}, k \in RunIds :
            /\ IngestStart(k, t, v, command.force)
            /\ command' = [command EXCEPT !.step = "ingest", !.todo = @ \ {t}, !.got[t] = v,
                                          !.run = k]
        BY <1>4 DEF SourceIngest
    <2>2. /\ command'.step = "ingest" /\ command'.run = k /\ command'.loaded = command.loaded
          /\ command'.todo = command.todo \ {t} /\ t \in command.todo
      <3>1. t \in command.todo
          BY <1>4 DEF SourceIngest, Turn
      <3> QED
          BY <1>a, <2>1, <3>1, CommandFields
    <2>3. runs'[k].kind = "ingest" /\ runs'[k].table = t /\ \A j \in RunIds \ {k} : runs'[j] = runs[j]
        BY <1>a, <2>1 DEF IngestStart
    <2>4. runs[k].status = "unused"
        BY <2>1 DEF IngestStart, NextRun
    <2>5. ASSUME NEW i \in command.loaded
          PROVE  TableOf(i)' \notin command'.todo /\ Newest(i, IngestsOf(TableOf(i)))'
      <3>1. i \in RunIds /\ i # k /\ runs'[i] = runs[i] /\ TableOf(i) # t
          BY <2>2, <2>3, <2>4 DEF DoneInv, LoadedInv
      <3>2. PICK s : s = TableOf(i) /\ TableOf(i)' = s
          BY <3>1 DEF TableOf
      <3>3. k \notin IngestsOf(s)'
          BY <2>3, <3>1, <3>2 DEF IngestsOf
      <3>4. IngestsOf(s)' \subseteq IngestsOf(s) /\ i \in IngestsOf(s)'
          BY <2>3, <3>1, <3>2, <3>3 DEF IngestsOf, LoadedInv, Newest
      <3> QED
          BY <2>2, <3>2, <3>4 DEF LoadedInv, Newest
    <2>6. TableOf(command.run)' \notin command'.todo
        BY <2>2, <2>3 DEF TableOf
    <2> QED
        BY <2>2, <2>5, <2>6 DEF LoadedInv
  <1>5. ASSUME NEW k \in RunIds, Ingesting(k)
        PROVE  LoadedInv'
    <2>1. /\ command.step = "ingest" /\ command.run = k
          /\ command' = IF loader'[k].step = "done" THEN AfterIngest(k) ELSE command
        BY <1>5 DEF Ingesting
    <2>2. CASE loader'[k].step # "done"
        BY <2>1, <2>2, LoadedStays
    <2>3. CASE loader'[k].step = "done" /\ runs'[k].status # "success"
      <3>1. /\ command'.step = "next" /\ command'.loaded = command.loaded
            /\ command'.todo = command.todo
          BY <1>a, <2>1, <2>3, CommandFields DEF AfterIngest
      <3> QED
          BY <3>1, LoadedStays
    <2>4. CASE loader'[k].step = "done" /\ runs'[k].status = "success"
      <3>1. /\ command'.step = "next" /\ command'.loaded = command.loaded \cup {k}
            /\ command'.todo = command.todo
          BY <1>a, <2>1, <2>4, CommandFields DEF AfterIngest
      <3>2. Goes(k)
          BY <1>5, <1>a, <2>1, <2>4, <3>1 DEF Goes, Ingesting
      <3>3. /\ runs'[k].table = TableOf(k) /\ runs'[k].kind = runs[k].kind
            /\ \A j \in RunIds \ {k} : runs'[j] = runs[j]
            /\ runs[k].status = "started" /\ TableOf(k) \in Staging
          BY <3>2, LoadMoves
      <3>4. runs[k].kind = "ingest"
          BY <1>a, <3>3, TopologyAssumption DEF NumberedInv, RunRows, TableOf
      <3>5. \A s : IngestsOf(s)' = IngestsOf(s)
          BY <3>3 DEF IngestsOf, TableOf
      <3>6. \A j \in IngestsOf(TableOf(k)) : j <= k
        <4> SUFFICES ASSUME NEW j \in IngestsOf(TableOf(k)) PROVE j <= k
            OBVIOUS
        <4>1. j \in RunIds /\ runs[j].kind = "ingest" /\ runs[j].table \in Staging
            BY <3>3 DEF IngestsOf
        <4>2. runs[j].status # "unused"
            BY <4>1, TopologyAssumption DEF NumberedInv, UnusedRun
        <4> QED
            BY <2>1, <4>1, <4>2 DEF NumberedInv, Started
      <3>7. Newest(k, IngestsOf(TableOf(k)))'
          BY <3>3, <3>4, <3>5, <3>6 DEF Newest, IngestsOf, TableOf
      <3>8. TableOf(k)' \notin command'.todo
          BY <2>1, <3>1, <3>3 DEF LoadedInv, TableOf
      <3>9. ASSUME NEW i \in command.loaded
            PROVE  TableOf(i)' \notin command'.todo /\ Newest(i, IngestsOf(TableOf(i)))'
        <4>1. i \in RunIds /\ TableOf(i)' = TableOf(i)
            BY <3>3 DEF DoneInv, TableOf
        <4> QED
            BY <3>1, <3>5, <4>1 DEF LoadedInv, Newest
      <3> QED
          BY <3>1, <3>7, <3>8, <3>9 DEF LoadedInv
    <2> QED
        BY <2>2, <2>3, <2>4
  <1>6. CASE RebuildDependent
    <2>1. CASE Dependent = {}
        BY <1>6, <1>c, <2>1 DEF RebuildDependent
    <2>2. CASE Dependent # {}
      <3>1. /\ command'.step = "rebuild" /\ command'.loaded = command.loaded
            /\ command'.todo = command.todo
          BY <1>6, <1>a, <2>2, CommandFields DEF RebuildDependent
      <3> QED
          BY <3>1, LoadedStays
    <2> QED
        BY <2>1, <2>2
  <1>7. CASE Building /\ command.step \in {"rebuild", "byhand"}
    <2>1. command' = command \/ command' = Ended(command.exit)
        BY <1>7 DEF Building
    <2> QED
        BY <1>7, <1>c, <2>1, LoadedStays
  <1>8. ASSUME NEW wanted, ByHand(wanted)
        PROVE  LoadedInv'
    <2>1. command'.loaded = {} /\ command'.step = "byhand"
        BY <1>8, CommandFields DEF ByHand, CommandOver
    <2> QED
        BY <1>b, <2>1
  <1>9. CASE UNCHANGED command
      BY <1>9, LoadedStays
  <1>10. CASE RefreshNext
      BY <1>1, <1>2, <1>3, <1>4, <1>5, <1>6, <1>7, <1>8, <1>10
         DEF RefreshNext, RebuildingDependent, ByHandBuilding
  <1> QED
      BY <1>9, <1>10 DEF CliNext, cliVars

-----------------------------------------------------------------------------
(* The canonical build.                                                    *)

(* The greatest of some runs, or 0.                                        *)
LEMMA NewestIsMax ==
  ASSUME NEW S \in SUBSET RunIds, NEW i, Newest(i, S)
  PROVE  Max(S \cup {0}) = i
  <1>1. /\ i \in S \cup {0} /\ i \in Nat /\ \A y \in S \cup {0} : y \in Nat
        /\ \A y \in S \cup {0} : i >= y
      BY DEF Newest, RunIds
  <1>2. \A x \in S \cup {0} : (\A y \in S \cup {0} : x >= y) => x = i
      BY <1>1
  <1> QED
      BY <1>1, <1>2 DEF Max

(* Each relation is built from one staging table.                          *)
LEMMA SourceIsInput ==
  ASSUME NEW r \in Relations
  PROVE  SourceOf(r) \in StagingInputs[r] /\ SourceOf(r) \in Staging
  <1>1. StagingInputs[r] # {}
      BY CanonicalAssumption, FS_EmptySet
  <1> QED
      BY <1>1, TopologyAssumption DEF SourceOf

(* While the identity transaction holds its locks no relation is replaced: *)
(* the refresh waits, the canonical build does not rebuild.                *)
LEMMA RelationsHeld ==
  ASSUME TablesInv, CanonInv, [CliNext]_cliVars, Holding, NEW r \in Relations
  PROVE  built'[r] = built[r] /\ \A b \in Builders : ~Replacing(b, r)'
  <1>a. /\ TypeOK /\ IInv /\ LoadsInv /\ SessionsInv
        /\ \A q \in Relations, b \in Builders : ~Replacing(b, q)
      BY DEF TablesInv, IInv, CanonInv
  <1>1. built'[r] = built[r]
    <2>1. [SerialNext]_vars
        BY <1>a, IsSerial
    <2>2. \A b \in Builders : ~(builder[b].step = "built" /\ builder[b].table = r)
        BY <1>a DEF Replacing
    <2> QED
        BY <1>a, <2>1, <2>2, RelationFrom
  <1>2. ASSUME NEW b \in Builders, builder'[b] # builder[b]
        PROVE  ~Replacing(b, r)'
    <2>1. CASE RefreshNext /\ WaitsForCanon
      <3>1. UNCHANGED builder \/ UNCHANGED vars \/ Build(Cli)
          BY <1>a, <2>1, RefreshSteps
      <3>2. Build(Cli) /\ b = Cli
          BY <1>a, <1>2, <3>1, OwnSession, RefreshAssumption DEF vars
      <3>3. /\ DOMAIN builder = Builders
            /\ DOMAIN builder[b] = {"step", "todo", "table", "got", "entries", "from", "rules"}
            /\ builder[b].step \in {"stamps", "temp", "built"} => builder[b].table \in Relations
          BY <1>a, IdleFields DEF TypeOK, BuilderShape
      <3>4. CASE BuildRows(Cli)
        <4>1. builder[b].step = "temp" /\ builder'[b].step = "built"
            BY <3>2, <3>3, <3>4 DEF BuildRows
        <4> QED
            BY <2>1, <3>2, <3>3, <4>1 DEF WaitsForCanon, Held
      <3>5. CASE \E wanted : BuildStart(Cli, wanted)
          BY <3>2, <3>3, <3>5, IdleFields DEF BuildStart, Replacing
      <3>6. CASE InRelation(Cli) /\ ~BuildRows(Cli)
          BY <1>a, <3>2, <3>6, ListStays DEF Replacing
      <3>7. CASE BuildCommit(Cli) \/ BuildFail(Cli)
        <4> DEFINE next == [Idle EXCEPT !.step = "next",
                                        !.todo = builder[Cli].todo \ {builder[Cli].table},
                                        !.rules = builder[Cli].rules]
        <4>1. Idle.step = "idle" /\ next.step = "next"
            BY DEF Idle
        <4>2. builder'[Cli] \in {Idle, next}
            BY <3>2, <3>3, <3>7 DEF BuildCommit, BuildFail
        <4> HIDE DEF next
        <4> QED
            BY <3>2, <4>1, <4>2 DEF Replacing
      <3> QED
          BY <3>2, <3>4, <3>5, <3>6, <3>7 DEF Build, InRelation
    <2>2. CASE Patch
        BY <1>2, <2>2 DEF Patch, PatchRewrite, PatchCommit, PatchAbort, buildVars
    <2>3. CASE CanonCommand
        BY <1>2, <2>3 DEF CanonCommand, CanonStart, CanonScan, CanonRebuild, CanonNothingStale,
               CanonRebuilding, CanonRebuildFails, CanonLock, CanonCheck, CanonRead, CanonCommit,
               CanonRecord, CanonFail, CanonCrash, Holding, tableVars
    <2> QED
        BY <1>2, <2>1, <2>2, <2>3 DEF CliNext, cliVars, allVars, tableVars
  <1>3. \A b \in Builders : builder'[b] = builder[b] => ~Replacing(b, r)'
      BY <1>a DEF Replacing
  <1> QED
      BY <1>1, <1>2, <1>3

(* What relation_states calls current when nothing has moved since the     *)
(* canonical build began is of the runs its row names.                     *)
LEMMA CurrentIsBehind ==
  ASSUME TablesInv, LatestInv, NEW r \in Relations, RelationCurrent(r)
  PROVE  Behind(r, built[r], Latest)
  <1> PICK t : t = SourceOf(r)
      OBVIOUS
  <1>1. t \in Staging /\ t \in StagingInputs[r] /\ t \in InputsOf(r) /\ t \notin Relations
      BY SourceIsInput, TopologyAssumption DEF InputsOf
  <1>2. built[r].from[t] = {rows[t]}
      BY <1>1, InvIsFaithful DEF TablesInv, CurrentIsFaithful, ContentOf
  <1>3. stamp[t] # NoStamp
      BY <1>1 DEF RelationCurrent, UpToDate, Blocked, Unstamped
  <1>4. rows[t].loaded = Whole(stamp[t].run)
      BY <1>1, <1>3 DEF TablesInv, NamesInv, StampNamesItsLoad, HoldsLoad, Whole
  <1>5. \A s : RunsOf(s) \in SUBSET RunIds
      BY DEF RunsOf
  <1>6. t \in Sources /\ PatchSource \in Sources
      BY <1>1 DEF Sources
  <1>7. Latest[t] = stamp[t].run
      BY <1>1, <1>3, <1>5, <1>6, NewestIsMax DEF LatestInv, Latest
  <1>8. rows[t].patch # 0 => Latest[PatchSource] = rows[t].patch
      BY <1>1, <1>5, <1>6, NewestIsMax DEF LatestInv, Latest
  <1> QED
      BY <1>2, <1>4, <1>7, <1>8 DEF Behind

(* The identity tables are read from one build of each relation, of the    *)
(* runs the canonical build's row names.                                   *)
LEMMA CanonStep ==
  ASSUME TablesInv, LatestInv, CanonInv, [CliNext]_cliVars
  PROVE  CanonInv'
  <1>a. /\ SessionsInv /\ TypeOK /\ DOMAIN canon = DOMAIN CanonIdle /\ canon.step \in CanonSteps
        /\ canon'.step \in CanonSteps
      BY SessionsStep DEF TablesInv, SessionsInv, IInv
  <1>b. /\ DOMAIN canonRows = CanonIds
        /\ \A k \in CanonIds : DOMAIN canonRows[k] = {"status", "seen"}
        /\ DOMAIN identity = {"build", "from", "current"}
        /\ DOMAIN canon.from = Names /\ DOMAIN identity.from = Names
        /\ canon.step # "idle" => canon.id \in CanonIds /\ canonRows[canon.id].status # "none"
      BY DEF CanonInv
  <1>c. /\ CanonIdle.step = "idle" /\ CanonIdle.current = {} /\ DOMAIN CanonIdle.from = Names
        /\ \A n \in Names : CanonIdle.from[n] = {}
      BY DEF CanonIdle, Names
  <1>d. \A q, b, seen : Behind(q, b, seen)' = Behind(q, b, seen)
      BY DEF Behind, SourceOf
  (* A build goes on: what it has read, and its row, stay.                 *)
  <1>1. ASSUME UNCHANGED <<canonRows, identity>>, DOMAIN canon' = DOMAIN CanonIdle,
               canon'.id = canon.id, canon'.from = canon.from, canon'.current = canon.current,
               canon.step # "idle", canon'.step \notin {"locked", "identity"},
               canon'.step \in {"scan", "rebuild", "open"} =>
                 canon.step \in {"scan", "rebuild", "open"}
        PROVE  CanonInv'
      BY <1>1, <1>b, <1>d DEF CanonInv, Holding
  (* A build is over: its row may say how.                                 *)
  <1>2. ASSUME UNCHANGED identity, canon' = CanonIdle, canon.step # "idle",
               \/ UNCHANGED canonRows
               \/ \E s \in {"failed", "success"} :
                    canonRows' = [canonRows EXCEPT ![canon.id].status = s]
        PROVE  CanonInv'
    <2>1. /\ DOMAIN canonRows' = CanonIds
          /\ \A k \in CanonIds : DOMAIN canonRows'[k] = {"status", "seen"}
          /\ \A k \in CanonIds : /\ canonRows'[k].seen = canonRows[k].seen
                                 /\ canonRows[k].status # "none" => canonRows'[k].status # "none"
        BY <1>2, <1>b
    <2> QED
        BY <1>2, <1>b, <1>c, <1>d, <2>1 DEF CanonInv, Holding, AtMostOne, Names
  <1>3. ASSUME UNCHANGED canonVars
        PROVE  CanonInv'
    <2>1. ASSUME Holding, NEW r \in Relations
          PROVE  built'[r] = built[r] /\ \A b \in Builders : ~Replacing(b, r)'
        BY <2>1, RelationsHeld
    <2> QED
        BY <1>3, <1>d, <2>1 DEF CanonInv, Holding, canonVars
  <1>4. ASSUME NEW k \in CanonIds, CanonStart(k)
        PROVE  CanonInv'
    <2>1. /\ canon'.step = "scan" /\ canon'.id = k /\ canon'.from = CanonIdle.from
          /\ canon'.current = {}
        BY <1>4, <1>c, CommandFields DEF CanonStart
    <2>2. /\ DOMAIN canonRows' = CanonIds
          /\ \A j \in CanonIds : DOMAIN canonRows'[j] = {"status", "seen"}
          /\ \A j \in CanonIds \ {k} : canonRows'[j] = canonRows[j]
          /\ canonRows'[k].status = "started" /\ canonRows[k].status = "none"
        BY <1>4, <1>b DEF CanonStart
    <2>3. identity' = identity
        BY <1>4 DEF CanonStart
    <2> QED
        BY <1>b, <1>c, <1>d, <2>1, <2>2, <2>3 DEF CanonInv, Holding, AtMostOne, Names
  <1>5. CASE CanonLock
    <2>1. /\ canon'.step = "locked" /\ canon'.id = canon.id /\ canon'.from = canon.from
          /\ canon'.current = canon.current /\ canon.step = "open"
          /\ UNCHANGED <<built, builder, canonRows, identity>>
          /\ \A r \in Relations : \A b \in Builders : ~Replacing(b, r)
        BY <1>5, <1>a, CommandFields DEF CanonLock, tableVars
    <2>2. \A r \in Relations : canon.from[r] = {}
        BY <1>c, <2>1 DEF CanonInv, Names
    <2>3. \A r \in Relations : \A b \in Builders : ~Replacing(b, r)'
        BY <2>1 DEF Replacing
    <2> QED
        BY <1>b, <1>d, <2>1, <2>2, <2>3 DEF CanonInv, Holding
  <1>6. CASE CanonCheck
    <2>1. /\ canon'.step = "identity" /\ canon'.id = canon.id /\ canon'.from = canon.from
          /\ canon'.current = {r \in Relations : RelationCurrent(r)} /\ canon.step = "locked"
          /\ UNCHANGED <<built, builder, canonRows, identity>>
          /\ Latest = canonRows[canon.id].seen
        BY <1>6, <1>a, CommandFields DEF CanonCheck, NothingMoved, tableVars
    <2>2. \A r \in canon'.current : Behind(r, built[r], canonRows[canon.id].seen)
        BY <2>1, CurrentIsBehind
    <2>3. \A r \in Relations, b \in Builders : Replacing(b, r)' = Replacing(b, r)
        BY <2>1 DEF Replacing
    <2> QED
        BY <1>b, <1>d, <2>1, <2>2, <2>3 DEF CanonInv, Holding
  <1>7. CASE CanonRead
    <2> DEFINE reads == Statements[canon.done + 1]
    <2>1. /\ canon'.step = "identity" /\ canon'.id = canon.id /\ canon.step = "identity"
          /\ canon'.from = [n \in DOMAIN canon.from |->
                              IF n \in reads THEN canon.from[n] \cup {Origin(n)} ELSE canon.from[n]]
          /\ canon'.current = canon.current
          /\ UNCHANGED <<built, builder, canonRows, identity>>
        BY <1>7, <1>a, CommandFields DEF CanonRead, tableVars
    <2>2. \A r \in Relations : canon.from[r] \subseteq {built[r]} /\ canon'.from[r] \subseteq {built[r]}
        BY <1>b, <2>1 DEF CanonInv, Holding, Origin, Names
    <2>3. \A r \in Relations, b \in Builders : Replacing(b, r)' = Replacing(b, r)
        BY <2>1 DEF Replacing
    <2>4. DOMAIN canon'.from = Names
        BY <1>b, <2>1
    <2>5. \A r \in Relations : AtMostOne(canon'.from[r])
        BY <2>2 DEF AtMostOne
    <2> HIDE DEF reads
    <2> QED
        BY <1>b, <1>d, <2>1, <2>2, <2>3, <2>4, <2>5 DEF CanonInv, Holding
  <1>8. CASE CanonCommit
    <2>1. /\ canon'.step = "committed" /\ canon'.id = canon.id /\ canon.step = "identity"
          /\ canon'.from = canon.from /\ canon'.current = canon.current
          /\ canonRows' = canonRows
          /\ identity' = [build |-> canon.id, from |-> canon.from, current |-> canon.current]
        BY <1>8, <1>a, CommandFields DEF CanonCommit
    <2>2. /\ DOMAIN identity' = {"build", "from", "current"}
          /\ identity'.build = canon.id /\ identity'.from = canon.from
          /\ identity'.current = canon.current
        BY <2>1
    <2>3. \A r \in canon.current : \A b \in canon.from[r] :
            Behind(r, b, canonRows[canon.id].seen)
        BY <2>1 DEF CanonInv, Holding
    <2> QED
        BY <1>b, <1>d, <2>1, <2>2, <2>3 DEF CanonInv, Holding
  <1>9. CASE \/ \E r \in Relations : CanonScan(r)
             \/ CanonRebuild \/ CanonNothingStale \/ CanonRebuilding
    <2>1. /\ DOMAIN canon' = DOMAIN CanonIdle /\ UNCHANGED <<canonRows, identity>>
          /\ canon'.id = canon.id /\ canon'.from = canon.from /\ canon'.current = canon.current
          /\ canon.step \in {"scan", "rebuild"} /\ canon'.step \in {"scan", "rebuild", "open"}
        BY <1>9, <1>a, CommandFields
           DEF CanonScan, CanonRebuild, CanonNothingStale, CanonRebuilding
    <2> QED
        BY <1>1, <2>1
  <1>10. CASE CanonRebuildFails \/ CanonRecord \/ CanonFail \/ CanonCrash
      BY <1>2, <1>10 DEF CanonRebuildFails, CanonRecord, CanonFail, CanonCrash, RecordFailed
  <1> QED
      BY <1>3, <1>4, <1>5, <1>6, <1>7, <1>8, <1>9, <1>10
         DEF CliNext, CanonCommand, cliVars, allVars

-----------------------------------------------------------------------------
(* The commands start on an empty database, and every step keeps what they *)
(* say of it.                                                              *)
LEMMA CliInitInv == CliInit => CliInv
  <1> SUFFICES ASSUME CliInit PROVE CliInv
      OBVIOUS
  <1>a. Init /\ CanonInit /\ command = CommandOver
      BY DEF CliInit
  <1>b. /\ CommandOver.step = "over" /\ CommandOver.todo = {} /\ CommandOver.force \in BOOLEAN
        /\ CommandOver.wanted = {} /\ CommandOver.got = <<>> /\ CommandOver.loaded = {}
      BY DEF CommandOver
  <1>c. /\ CanonIdle.step = "idle" /\ CanonIdle.todo = {} /\ CanonIdle.stale = {}
        /\ CanonIdle.current = {} /\ DOMAIN CanonIdle.from = Names
        /\ \A n \in Names : CanonIdle.from[n] = {}
      BY DEF CanonIdle, Names
  <1>d. /\ \A i \in RunIds : runs[i] = UnusedRun /\ loader[i].step = "none"
        /\ \A t \in Staging : rows[t] = NoTable /\ stamp[t] = NoStamp
        /\ \A b \in Builders : builder[b].step = "idle"
      BY <1>a DEF Init, Idle
  <1>e. /\ UnusedRun.kind = "ingest" /\ UnusedRun.table = None /\ UnusedRun.status = "unused"
        /\ NoTable.patch = 0
      BY DEF UnusedRun, NoTable
  <1>1. LoadsInv
      BY <1>a, <1>b, <1>d DEF LoadsInv, CommandSteps, Loading
  <1>2. SessionsInv
      BY <1>a, <1>b, <1>c, <1>d, CanonicalAssumption, RefreshAssumption
         DEF SessionsInv, CanonInit, CanonSteps
  <1>3. SentInv /\ StampNamesItsLoad
      BY <1>d DEF SentInv, Sent, StampNamesItsLoad
  <1>4. OriginInv /\ StampNamesOrigin
      BY <1>a, <1>d DEF Init, OriginInv, InTransaction, StampNamesOrigin, NoRelStamp
  <1>5. NumberedInv
      BY <1>a, <1>b, <1>d, <1>e DEF NumberedInv, Started
  <1>6. LatestInv
    <2>1. \A t \in Staging : IngestsOf(t) = {}
        BY <1>d, <1>e, TopologyAssumption DEF IngestsOf
    <2> QED
        BY <1>d, <1>e, <2>1 DEF LatestInv
  <1>7. SinceInv
      BY <1>d, <1>e DEF SinceInv, Placed
  <1>8. DoneInv
    <2>1. DOMAIN <<>> = {}
        OBVIOUS
    <2> QED
        BY <1>a, <1>b, <2>1 DEF DoneInv
  <1>8a. LoadedInv
      BY <1>a, <1>b DEF LoadedInv
  <1>9. CanonInv
    <2>1. /\ canon = CanonIdle /\ DOMAIN canonRows = CanonIds
          /\ \A k \in CanonIds : DOMAIN canonRows[k] = {"status", "seen"}
        BY <1>a DEF CanonInit
    <2>2. /\ DOMAIN identity = {"build", "from", "current"}
          /\ identity.build = 0 /\ identity.from = CanonIdle.from /\ identity.current = {}
        BY <1>a DEF CanonInit
    <2> QED
        BY <1>c, <2>1, <2>2 DEF CanonInv, Holding, AtMostOne, Names
  <1> QED
      BY <1>a, <1>1, <1>2, <1>3, <1>4, <1>5, <1>6, <1>7, <1>8, <1>8a, <1>9, InitInv
         DEF CliInv, TablesInv, NamesInv, RunsInv

LEMMA CliInvariance == CliSpec => []CliInv
  <1>1. CliInv /\ [CliNext]_cliVars => CliInv'
      BY TablesStep, NumberedStep, LatestStep, SinceStep, DoneStep, LoadedStep, CanonStep DEF CliInv, RunsInv
  <1> QED
      BY <1>1, CliInitInv, PTL DEF CliSpec

(* What the loaded command shows as loaded is there: the latest run of a   *)
(* source, if it succeeded, is the one the stamp names, whatever loads     *)
(* failed or died before it and whatever patches ran since (cmd_loaded,    *)
(* latest_runs).                                                           *)
THEOREM ShownIsLoaded == CliSpec => []ShownAsLoadedIsLoaded
  <1>1. ASSUME CliInv
        PROVE  ShownAsLoadedIsLoaded
    <2> SUFFICES ASSUME NEW t \in Staging, LoadedShows(t) = "success"
                 PROVE  HoldsLoad(rows[t], t, LoadedRun(t))
        BY DEF ShownAsLoadedIsLoaded
    <2> DEFINE S == IngestsOf(t) \cup {0}
               i == LoadedRun(t)
    <2>1. S \in SUBSET Nat /\ IsFiniteSet(S) /\ S # {}
      <3>1. S \subseteq 0 .. MaxRuns
          BY BoundsAssumption DEF IngestsOf, RunIds
      <3>2. IsFiniteSet(0 .. MaxRuns)
          BY BoundsAssumption, FS_Interval
      <3>3. 0 \in S
          OBVIOUS
      <3> HIDE DEF S
      <3>4. IsFiniteSet(S)
          BY <3>1, <3>2, FS_Subset
      <3> QED
          BY <3>1, <3>3, <3>4
    <2>2. i \in S /\ \A j \in S : i >= j
      <3>1. \E x \in S : \A y \in S : x >= y
        <4> HIDE DEF S
        <4> QED
            BY <2>1, FiniteHasMax
      <3> QED
          BY <3>1 DEF LoadedRun, Max
    <2>3. i # 0 /\ runs[i].status = "success"
        BY DEF LoadedShows
    <2>4. Newest(i, IngestsOf(t))
        BY <2>1, <2>2, <2>3 DEF Newest
    <2>5. stamp[t].run = i
        BY <1>1, <2>3, <2>4 DEF CliInv, RunsInv, LatestInv, Newest
    <2>6. stamp[t] # NoStamp
        BY <2>3, <2>5 DEF NoStamp
    <2> QED
        BY <1>1, <2>5, <2>6 DEF CliInv, TablesInv, NamesInv, StampNamesItsLoad
  <1> QED
      BY <1>1, CliInvariance, PTL

(* A refresh that exits 0 has resolved every source it was asked for.      *)
(* Those it loaded hold that load and no other, and each basic-fields      *)
(* relation of them is rebuilt from it or a later one; those it skipped    *)
(* have a success row of their version, which is all the skip looks at     *)
(* (cmd_refresh, _rebuild_dependent_current).  A source that is missing,   *)
(* fails to load or to rebuild, or a death on the way, shows in the exit   *)
(* code.                                                                   *)
THEOREM ZeroExitIsDone == CliSpec => []ZeroExitMeansDone
  <1>1. ASSUME CliInv
        PROVE  ZeroExitMeansDone
    <2> SUFFICES ASSUME command.step = "over", command.exit = 0
                 PROVE  /\ \A t \in command.wanted :
                             command.got[t] # None /\ Succeeded(t, command.got[t])
                        /\ \A j \in command.loaded : HoldsLoad(rows[TableOf(j)], TableOf(j), j)
                        /\ \A j \in command.loaded, r \in Basic :
                             TableOf(j) \in StagingInputs[r] =>
                               \A c \in built[r].from[TableOf(j)] :
                                 \A part \in c.loaded : part[1] >= j
        BY DEF ZeroExitMeansDone
    <2>1. DoneInv /\ command.todo = {}
        BY <1>1 DEF CliInv, DoneInv
    <2>2. ASSUME NEW j \in command.loaded
          PROVE  HoldsLoad(rows[TableOf(j)], TableOf(j), j)
      <3>1. j \in RunIds /\ runs[j].kind = "ingest" /\ runs[j].status = "success"
          BY <2>1 DEF DoneInv
      <3>2. PICK t \in Staging : t = TableOf(j)
          BY <1>1, <3>1 DEF CliInv, RunsInv, NumberedInv, Started
      <3>3. Newest(j, IngestsOf(t))
          BY <1>1, <3>2 DEF CliInv, LoadedInv
      <3>4. stamp[t].run = j
          BY <1>1, <3>1, <3>3 DEF CliInv, RunsInv, LatestInv, Newest
      <3>5. stamp[t] # NoStamp
          BY <3>1, <3>4 DEF NoStamp, RunIds
      <3> QED
          BY <1>1, <3>2, <3>4, <3>5 DEF CliInv, TablesInv, NamesInv, StampNamesItsLoad
    <2> QED
        BY <2>1, <2>2 DEF DoneInv, Rebuilt, Since
  <1> QED
      BY <1>1, CliInvariance, PTL

(* A canonical build tells 990 filers from 990-PF ones over one build of   *)
(* each relation, and its row, if it says success, names the runs behind   *)
(* every relation that was current when its transaction opened, beside a   *)
(* refresh, builds by hand and patches (canonical/build.py, the checks     *)
(* around the identity transaction).                                       *)
THEOREM CanonicalRowTells == CliSpec => []BuildRowTellsTheTables
  <1>1. ASSUME NEW S, AtMostOne(S)
        PROVE  Cardinality(S) <= 1
    <2>1. CASE S = {}
        BY <2>1, FS_EmptySet
    <2>2. ASSUME NEW x \in S
          PROVE  Cardinality(S) <= 1
      <3>1. S = {x}
          BY <1>1, <2>2 DEF AtMostOne
      <3> QED
          BY <3>1, FS_Singleton
    <2> QED
        BY <2>1, <2>2
  <1>2. ASSUME CliInv
        PROVE  BuildRowTellsTheTables
    <2>1. CanonInv
        BY <1>2 DEF CliInv
    <2>2. IdentityReadsOneBuild
        BY <1>1, <2>1 DEF CanonInv, IdentityReadsOneBuild
    <2>3. SuccessNamesCurrentRows
      <3> SUFFICES ASSUME RowSucceeded(identity.build), NEW r \in identity.current
                   PROVE  NamesItsRows(r, canonRows[identity.build].seen)
          BY DEF SuccessNamesCurrentRows
      <3>1. identity.build # 0
          BY DEF RowSucceeded, CanonIds
      <3> QED
          BY <2>1, <3>1 DEF CanonInv, Behind, NamesItsRows, Whole
    <2> QED
        BY <2>2, <2>3 DEF BuildRowTellsTheTables
  <1> QED
      BY <1>2, CliInvariance, PTL

(* One command loading at a time is the practice SerialSpec assumes, so    *)
(* that everything shown of it holds of the commands: what their stamps    *)
(* say of the tables, and of the relations (cmd_refresh ingests its        *)
(* sources one after another).                                             *)
THEOREM CommandsAreSerial == CliSpec => SerialSpec
  <1>1. CliInit => Init
      BY DEF CliInit
  <1>2. CliInv /\ [CliNext]_cliVars => [SerialNext]_vars
      BY IsSerial DEF CliInv, TablesInv
  <1> QED
      BY <1>1, <1>2, CliInvariance, PTL DEF CliSpec, SerialSpec
=============================================================================
