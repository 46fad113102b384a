--------------------------- MODULE SourcesRefresh ---------------------------
(***************************************************************************)
(* The refresh command (sources/__main__.py, sources/resolver.py) over the *)
(* staging tables of StampedTables: it resolves the newest version of each *)
(* source it is asked for, ingests one after another, rebuilds the         *)
(* basic-fields relations of those it loaded, and exits 0 when all went    *)
(* well.  Between two of them the command line of current_grants may       *)
(* rebuild relations by hand.                                              *)
(*                                                                         *)
(* A source is named by its staging table and a version by its date, a     *)
(* natural number.                                                         *)
(***************************************************************************)
EXTENDS StampedTables, FiniteSetsExt

CONSTANTS
  Cli,       \* the builder session of the commands
  Direct,    \* the sources of plain files at an HTTPS server
  Deferred,  \* the sources a refresh of everything leaves out
  Basic      \* the relations a refresh rebuilds

ASSUME RefreshAssumption ==
  /\ Cli \in Builders
  /\ Direct \subseteq Staging /\ Deferred \subseteq Staging
  /\ Basic \subseteq Relations
  /\ Versions \subseteq Nat /\ IsFiniteSet(Versions)

VARIABLE command  \* the command under way, or the last one

CommandOver == [step |-> "over", wanted |-> {}, force |-> FALSE, newest |-> <<>>, todo |-> {},
                run |-> 0, got |-> <<>>, loaded |-> {}, exit |-> 0]

(* The command's end: an error keeps nothing but its exit code.            *)
Ended(exit) ==
  IF exit # 0 THEN [CommandOver EXCEPT !.exit = exit]
  ELSE [CommandOver EXCEPT !.wanted = command.wanted, !.got = command.got,
                           !.loaded = command.loaded]

-----------------------------------------------------------------------------
(* resolve_latest: the newest dated file of the source in the listing, a   *)
(* set of <<source, date>>.                                                *)
ResolveLatest(listing, t) ==
  LET dates == {file[2] : file \in {f \in listing : f[1] = t}}
  IN  IF dates = {} THEN None ELSE Max(dates)

(* last_modified_version: the newest date a server gave a file.            *)
LastModifiedVersion(dates) == Max(dates)

(* What the CLI resolves a source to at its turn; None is a missing        *)
(* source: no file of the name, or a server that could not be asked.       *)
Resolutions(t) ==
  IF t \in Direct THEN {LastModifiedVersion(d) : d \in (SUBSET Versions) \ {{}}} \cup {None}
  ELSE {command.newest[t]}

(* _select_specs: the sources named, or all but the deferred.              *)
Selections == ((SUBSET Staging) \ {{}, Staging}) \cup {Staging \ Deferred}

(* One listing of the bucket serves every source of it.                    *)
RefreshStart ==
  /\ command.step = "over"
  /\ \E wanted \in Selections, force \in BOOLEAN, listing \in SUBSET ((Staging \ Direct) \X Versions) :
       command' = [CommandOver EXCEPT !.step = "next", !.wanted = wanted, !.todo = wanted,
                                      !.force = force,
                                      !.newest = [t \in wanted \ Direct |-> ResolveLatest(listing, t)],
                                      !.got = [t \in wanted |-> None]]
  /\ UNCHANGED vars

(* The listing failed, or a name is not registered: nothing is begun.  (1  *)
(* stands for every exit code but 0.)                                      *)
RefreshRefused ==
  /\ command.step = "over"
  /\ command' = Ended(1)
  /\ UNCHANGED vars

Turn(t) == command.step = "next" /\ t \in command.todo

(* A source that cannot be resolved does not stop the others.              *)
SourceMissing(t) ==
  /\ Turn(t)
  /\ None \in Resolutions(t)
  /\ command' = [command EXCEPT !.todo = @ \ {t}, !.exit = 1]
  /\ UNCHANGED vars

(* No file of a direct source carried the header: LookupError, which the   *)
(* command does not catch.                                                 *)
SourceUnversioned(t) ==
  /\ Turn(t)
  /\ t \in Direct
  /\ command' = Ended(1)
  /\ UNCHANGED vars

SourceSkipped(t) ==
  /\ Turn(t)
  /\ ~command.force
  /\ \E v \in Resolutions(t) \ {None} :
       /\ Succeeded(t, v)
       /\ command' = [command EXCEPT !.todo = @ \ {t}, !.got[t] = v]
  /\ UNCHANGED vars

SourceIngest(t) ==
  /\ Turn(t)
  /\ \E v \in Resolutions(t) \ {None}, i \in RunIds :
       /\ IngestStart(i, t, v, command.force)
       /\ command' = [command EXCEPT !.step = "ingest", !.todo = @ \ {t}, !.got[t] = v, !.run = i]

(* Mutant of AfterIngest: a skipped or failed source counts as loaded.     *)
AfterIngestEither(i) ==
  [command EXCEPT !.step = "next", !.loaded = @ \cup {i}]

(* A failed ingest shows in the exit code; a success in what is rebuilt.   *)
AfterIngest(i) ==
  IF runs'[i].status = "success" THEN [command EXCEPT !.step = "next", !.loaded = @ \cup {i}]
  ELSE [command EXCEPT !.step = "next", !.exit = 1]

Ingesting(i) ==
  /\ command.step = "ingest" /\ command.run = i
  /\ \/ IngestRecreate(i)
     \/ IngestCopy(i)
     \/ IngestDedupe(i)
     \/ IngestValidate(i)
     \/ IngestFail(i)
     \/ IngestFinish(i)
  /\ command' = IF loader'[i].step = "done" THEN AfterIngest(i) ELSE command

(* _rebuild_dependent_current: the basic-fields relations of the sources   *)
(* this command reloaded, and no other.                                    *)
Dependent == {r \in Basic : \E i \in command.loaded : TableOf(i) \in StagingInputs[r]}

RebuildDependent ==
  /\ command.step = "next" /\ command.todo = {}
  /\ IF Dependent = {} THEN command' = Ended(command.exit) /\ UNCHANGED vars
     ELSE BuildStart(Cli, Dependent) /\ command' = [command EXCEPT !.step = "rebuild"]

Building ==
  /\ \/ \E r \in Relations : BuildLock(Cli, r)
     \/ \E n \in Staging \cup Relations : BuildReadStamp(Cli, n)
     \/ BuildTemp(Cli)
     \/ BuildRows(Cli)
     \/ BuildCommit(Cli)
  /\ command' = IF builder'[Cli].step = "idle" THEN Ended(command.exit) ELSE command

RebuildingDependent == command.step = "rebuild" /\ Building

(* The ingests stand, and the exit code says that the rebuild failed.      *)
RebuildDependentFails ==
  /\ command.step = "rebuild"
  /\ BuildFail(Cli)
  /\ command' = Ended(1)

(* The process dies, at any point.                                         *)
RefreshDies ==
  /\ \/ command.step = "next" /\ UNCHANGED vars
     \/ command.step = "ingest" /\ IngestCrash(command.run)
     \/ command.step = "rebuild" /\ BuildFail(Cli)
  /\ command' = Ended(1)

(* python -m givingtuesday_datamart.current_grants, of any relations.      *)
ByHand(wanted) ==
  /\ command.step = "over"
  /\ BuildStart(Cli, wanted)
  /\ command' = [CommandOver EXCEPT !.step = "byhand"]

ByHandBuilding == command.step = "byhand" /\ Building

ByHandFails ==
  /\ command.step = "byhand"
  /\ BuildFail(Cli)
  /\ command' = Ended(1)

RefreshNext ==
  \/ RefreshStart
  \/ RefreshRefused
  \/ \E t \in Staging : SourceMissing(t)
  \/ \E t \in Staging : SourceUnversioned(t)
  \/ \E t \in Staging : SourceSkipped(t)
  \/ \E t \in Staging : SourceIngest(t)
  \/ \E i \in RunIds : Ingesting(i)
  \/ RebuildDependent
  \/ RebuildingDependent
  \/ RebuildDependentFails
  \/ RefreshDies
  \/ \E wanted \in (SUBSET Relations) \ {{}} : ByHand(wanted)
  \/ ByHandBuilding
  \/ ByHandFails

-----------------------------------------------------------------------------
(* cmd_loaded: the latest run of a source by its start, 0 for none.        *)
IngestsOf(t) == {i \in RunIds : runs[i].kind = "ingest" /\ runs[i].table = t}

(* Mutant of LoadedRun: the latest run that went well.                     *)
LoadedRunThatSucceeded(t) == Max({i \in IngestsOf(t) : runs[i].status = "success"} \cup {0})

LoadedRun(t) == Max(IngestsOf(t) \cup {0})

LoadedShows(t) == IF LoadedRun(t) = 0 THEN "never" ELSE runs[LoadedRun(t)].status

(* What an exit code of 0 stands for: every source selected was resolved;  *)
(* a source the command loaded holds exactly that load, and each           *)
(* basic-fields relation of it was rebuilt from that load or since; of a   *)
(* source it skipped there is a success row of the version, which is what  *)
(* the skip looks at and no more (cmd_refresh, find_successful_run,        *)
(* _rebuild_dependent_current).                                            *)
ZeroExitMeansDone ==
  command.step = "over" /\ command.exit = 0 =>
    /\ \A t \in command.wanted : command.got[t] # None /\ Succeeded(t, command.got[t])
    /\ \A i \in command.loaded : HoldsLoad(rows[TableOf(i)], TableOf(i), i)
    /\ \A i \in command.loaded, r \in Basic :
         TableOf(i) \in StagingInputs[r] =>
           \A c \in built[r].from[TableOf(i)] : \A part \in c.loaded : part[1] >= i

(* README.md:139-140: a refresh "skips a successful (source, version) pair *)
(* - it's already loaded": the sources a command skipped, ending with exit *)
(* code 0, hold rows of a load of the version they resolved to.  TLC       *)
(* refutes it: a disagreement, not a property that is claimed (README).    *)
SkippedIsLoaded ==
  command.step = "over" /\ command.exit = 0 =>
    \A t \in command.wanted \ {TableOf(i) : i \in command.loaded} :
      \E i \in IngestsOf(t) : /\ runs[i].version = command.got[t] /\ runs[i].status = "success"
                              /\ HoldsLoad(rows[t], t, i)

(* What `loaded` shows as loaded is there: a source whose latest run says  *)
(* success holds that run's rows, all of them and no other's (cmd_loaded). *)
ShownAsLoadedIsLoaded ==
  \A t \in Staging : LoadedShows(t) = "success" => HoldsLoad(rows[t], t, LoadedRun(t))
=============================================================================
