------------------------------ MODULE MatchRun ------------------------------
(***************************************************************************)
(* A run of the grant matcher (grant_matching.py, match_records): its      *)
(* build row, the bookkeeping, the rebuild of the _current relations, the  *)
(* locked reads, the chunks it resumes from S3 and computes, and its two   *)
(* output tables.  Runs are killed and given again, two can run at once,   *)
(* and sources, recovered grants and the view's policy change.             *)
(*                                                                         *)
(* Rows are represented by a number that changes with them, matches by the *)
(* rows they were computed from.                                           *)
(***************************************************************************)
EXTENDS Naturals, Sequences, FiniteSets, Functions

CONSTANTS
  Matchers,     \* processes running the matcher
  Direct,       \* sources whose staging tables the universe reads
  GrantsOf,     \* sources privategrants_current is built from
  Derived,      \* the _current relations
  Paid,         \* privategrants_current
  ViewTables,   \* the relations the matching views are defined over
  ReadsCurrent, \* per relation, the relations it is built from
  Policies,     \* policy versions recovered grants are loaded under
  Chunks,       \* chunk indices of a run
  Sizes,        \* values of --chunk-size
  Concurrent,   \* BOOLEAN: loads and syncs may commit while a matcher runs
  MaxBuilds,    \* bound: matcher runs
  MaxChanges,   \* bound: loads, reloads, syncs, view commands
  None

Sources == Direct \cup GrantsOf

ASSUME MatchAssumption ==
  /\ Chunks # {} /\ Policies # {} /\ Sizes # {}
  /\ Paid \in ViewTables /\ ViewTables \subseteq Derived
  /\ ReadsCurrent \in [Derived -> SUBSET Derived]
  /\ Concurrent \in BOOLEAN
  /\ MaxBuilds \in Nat /\ MaxChanges \in Nat
  /\ None \notin Policies /\ None \notin Nat /\ None \notin [Sources -> Nat]

VARIABLES
  source,      \* per source: source_version of its latest success, rows, a load under way
  paid,        \* the rows of privategrants_current: of each source, those it was built from
  stamp,       \* per relation: the versions its stamp names
  view,        \* the policy privategrants_current_w_recovered shows
  recovered,   \* privategrants_recovered, per policy
  corrections, \* the corrections CSV of the checkout
  chunks,      \* checkpoints in S3: key |-> the rows and the size they were scored in
  recipients,  \* privategrants_w_recipients: the build, its matches, the grants joined to them
  unioned,     \* unioned_grants: the build whose recipients it is a union of
  builds,      \* canonical_builds
  run,         \* per matcher
  changes

world == <<source, recovered, corrections, changes>>
relations == <<paid, stamp>>
outputs == <<recipients, unioned>>
vars == <<source, paid, stamp, view, recovered, corrections, chunks, recipients, unioned, builds,
          run, changes>>

Idle == [pc |-> "idle", build |-> 0, skip_rebuild |-> FALSE, between |-> FALSE,
         limit |-> FALSE, size |-> None, policy |-> None, versions |-> None, to_build |-> {},
         prefix |-> None, inputs |-> None, results |-> <<>>]

(* A source's rows are shifted while they are not those its version was    *)
(* first loaded with: after a forced reload or a patch, or part way through*)
(* a load.  (History: the code has no such column.)                        *)
Init ==
  /\ source = [s \in Sources |-> [version |-> 1, rows |-> 1, loading |-> FALSE, shifted |-> FALSE]]
  /\ paid = [s \in GrantsOf |-> 1]
  /\ stamp = [d \in Derived |-> None]
  /\ view \in Policies \cup {None}
  /\ recovered = [p \in Policies |-> 1]
  /\ corrections = 1
  /\ chunks = <<>>
  /\ recipients = [build |-> 0, matches |-> <<>>, joined |-> None]
  /\ unioned = 0
  /\ builds = <<>>
  /\ run = [m \in Matchers |-> Idle]
  /\ changes = 0

Running(m) == run[m].pc # "idle"
Quiet == \A m \in Matchers : ~Running(m)

-----------------------------------------------------------------------------
(* The options of a run.                                                   *)
Options == [skip_rebuild : BOOLEAN, between : BOOLEAN, limit : BOOLEAN, size : Sizes,
            asked : Policies \cup {None}]

Begun(b, o) == [Idle EXCEPT
  !.pc = "bookkeeping", !.build = b, !.skip_rebuild = o.skip_rebuild, !.between = o.between,
  !.limit = o.limit, !.size = o.size, !.policy = o.asked]

(* match_records: the 'started' row.                                       *)
Start(m) ==
  /\ ~Running(m) /\ Len(builds) < MaxBuilds
  /\ builds' = Append(builds, [status |-> "started", recovered |-> None, pg |-> None, ug |-> None])
  /\ \E o \in Options : run' = [run EXCEPT ![m] = Begun(Len(builds) + 1, o)]
  /\ UNCHANGED <<world, relations, view, chunks, outputs>>

Versions == [s \in Sources |-> source[s].version]

(* _unstamped_current_relations.                                           *)
Unstamped(versions) == {d \in Derived : stamp[d] # versions}

(* with_dependents: those, and the relations built from one of them.       *)
WithDependents(stale) == stale \cup {d \in Derived : ReadsCurrent[d] \cap stale # {}}

StagingOf == [s \in GrantsOf |-> source[s].rows]

(* recovered_policy_of: None when it raises.                               *)
PolicyOf(shown, asked) ==
  IF shown = None THEN asked ELSE IF asked \in {None, shown} THEN shown ELSE None

Failed(m) ==
  /\ builds' = [builds EXCEPT ![run[m].build].status = "failed"]
  /\ run' = [run EXCEPT ![m] = Idle]

(* _load_inputs, 1: the policy, the versions, what is to be rebuilt.       *)
Bookkeeping(m) ==
  LET policy == PolicyOf(view, run[m].policy) IN
  /\ run[m].pc = "bookkeeping"
  /\ IF policy = None THEN Failed(m)
     ELSE /\ run' = [run EXCEPT ![m].pc = "rebuild", ![m].policy = policy, ![m].versions = Versions,
                     ![m].to_build = IF run[m].skip_rebuild THEN WithDependents(Unstamped(Versions)) ELSE Derived]
          /\ UNCHANGED builds
  /\ UNCHANGED <<world, relations, view, chunks, outputs>>

(* A transaction that holds a lock on the view and on what the matching    *)
(* views read: from the third phase's CREATE OR REPLACE VIEW to its commit.*)
Reading(m) == run[m].pc \in {"universe", "grants"}
Unread == \A m \in Matchers : ~Reading(m)

(* A relation's rows and stamp, in the transaction that builds it.         *)
Builds(d, versions) ==
  /\ d \in ViewTables => Unread
  /\ stamp' = [stamp EXCEPT ![d] = versions]
  /\ paid' = IF d = Paid THEN StagingOf ELSE paid

(* after_current_build: the view privategrants_current's DROP ... CASCADE  *)
(* took is back for the policy read before; over another relation's build  *)
(* a view that shows another policy raises.                                *)
ViewAfter(d, policy) ==
  IF d = Paid THEN policy ELSE IF d \in ViewTables THEN PolicyOf(view, policy) ELSE view

(* 2: one relation, with its stamp and, of those the views read, the views.*)
Rebuild(m, d) ==
  /\ run[m].pc = "rebuild" /\ d \in run[m].to_build
  /\ d \in ViewTables => ViewAfter(d, run[m].policy) # None
  /\ Builds(d, run[m].versions)
  /\ view' = ViewAfter(d, run[m].policy)
  /\ run' = [run EXCEPT ![m].to_build = @ \ {d}]
  /\ UNCHANGED <<world, chunks, outputs, builds>>

Checked(m) == Unstamped(run[m].versions) = {} /\ Versions = run[m].versions

(* Mutant of Prefix: chunks of a limited run go where the others are.      *)
PrefixUnlimited(m) ==
  [versions |-> run[m].versions, policy |-> run[m].policy, digest |-> recovered[run[m].policy],
   corrections |-> corrections, limit |-> FALSE]

(* _resolve_checkpoint_prefix, and the subdirectory of a limited run.      *)
Prefix(m) ==
  [versions |-> run[m].versions, policy |-> run[m].policy, digest |-> recovered[run[m].policy],
   corrections |-> corrections, limit |-> run[m].limit]

(* recovered_digest, and _stamp_recovered in a session of its own.         *)
StampRecovered(m) ==
  builds' = [builds EXCEPT ![run[m].build].recovered =
               [policy |-> run[m].policy, digest |-> recovered[run[m].policy]]]

(* _load_corrections: the table emptied and filled again, under a lock     *)
(* held until the universe is read.                                        *)
LoadCorrections == [corrections |-> corrections]

(* 3: the stamps and the versions again, the corrections, the view         *)
(* ensured, the digest and the prefix.                                     *)
Views(m) ==
  LET policy == PolicyOf(view, run[m].policy) IN
  /\ run[m].pc = "rebuild" /\ run[m].to_build = {}
  /\ IF ~Checked(m) \/ policy = None
     THEN Failed(m) /\ UNCHANGED view
     ELSE /\ view' = policy
          /\ StampRecovered(m)
          /\ run' = [run EXCEPT ![m].pc = "universe", ![m].prefix = Prefix(m),
                                ![m].inputs = LoadCorrections]
  /\ UNCHANGED <<world, relations, chunks, outputs>>

(* The two reads, at READ COMMITTED: what each sees is what is committed   *)
(* by then.  The basic fields and the registry are read from staging, the  *)
(* grants from privategrants_current through the view.                     *)
ReadUniverse(m) ==
  /\ run[m].pc = "universe"
  /\ run' = [run EXCEPT ![m].pc = "grants",
                        ![m].inputs = [corrections |-> @.corrections,
                                       direct |-> [s \in Direct |-> source[s].rows]]]
  /\ UNCHANGED <<world, relations, view, chunks, outputs, builds>>

ReadGrants(m) ==
  /\ run[m].pc = "grants"
  /\ run' = [run EXCEPT ![m].pc = "list",
               ![m].inputs = [corrections |-> @.corrections, direct |-> @.direct, grants |-> paid,
                              policy |-> view, recovered |-> recovered[view],
                              limit |-> run[m].limit, size |-> run[m].size]]
  /\ UNCHANGED <<world, relations, view, chunks, outputs, builds>>

-----------------------------------------------------------------------------
Key(m, c) == <<run[m].prefix, c>>
Stored(m) == {c \in Chunks : Key(m, c) \in DOMAIN chunks}

(* The listing of the prefix and the chunks under it, or (--no-resume)     *)
(* nothing.                                                                *)
ListChunks(m) ==
  /\ run[m].pc = "list"
  /\ \E resumed \in {{}, Stored(m)} :
       run' = [run EXCEPT ![m].pc = "compute",
                          ![m].results = [c \in resumed |-> chunks[Key(m, c)]]]
  /\ UNCHANGED <<world, relations, view, chunks, outputs, builds>>

(* A chunk scored and its checkpoint written, by a worker or the loop, in  *)
(* any order.                                                              *)
ComputeChunk(m, c) ==
  /\ run[m].pc = "compute" /\ c \in Chunks \ DOMAIN run[m].results
  /\ chunks' = [k \in DOMAIN chunks \cup {Key(m, c)} |->
                  IF k = Key(m, c) THEN run[m].inputs ELSE chunks[k]]
  /\ run' = [run EXCEPT ![m].results = [k \in DOMAIN @ \cup {c} |->
                                          IF k = c THEN run[m].inputs ELSE @[k]]]
  /\ UNCHANGED <<world, relations, view, outputs, builds>>

Complete(m) == run[m].pc = "compute" /\ DOMAIN run[m].results = Chunks

(* The grants the matches are joined to: those the view shows when the     *)
(* join runs, hours after they were read (privategrants_w_column_keys_view).*)
Joined == [grants |-> paid, policy |-> view, recovered |-> recovered[view]]
Recipients(m) == [build |-> run[m].build, matches |-> run[m].results, joined |-> Joined]

(* write_matches: both tables, one transaction.                            *)
WriteBoth(m) ==
  /\ Complete(m) /\ ~run[m].between /\ Unread
  /\ recipients' = Recipients(m)
  /\ unioned' = run[m].build
  /\ run' = [run EXCEPT ![m].pc = "finish"]
  /\ UNCHANGED <<world, relations, view, chunks, builds>>

(* Mutant of WriteRecipients: the count is left to the end.                *)
WriteRecipientsUncounted(m) ==
  /\ Complete(m) /\ run[m].between /\ Unread
  /\ recipients' = Recipients(m)
  /\ run' = [run EXCEPT ![m].pc = "union"]
  /\ UNCHANGED <<world, relations, view, chunks, unioned, builds>>

(* --commit-between-outputs: privategrants_w_recipients with its count on  *)
(* the build row, then unioned_grants from whatever recipients are there.  *)
WriteRecipients(m) ==
  /\ Complete(m) /\ run[m].between /\ Unread
  /\ recipients' = Recipients(m)
  /\ builds' = [builds EXCEPT ![run[m].build].pg = run[m].build]
  /\ run' = [run EXCEPT ![m].pc = "union"]
  /\ UNCHANGED <<world, relations, view, chunks, unioned>>

WriteUnion(m) ==
  /\ run[m].pc = "union"
  /\ unioned' = recipients.build
  /\ run' = [run EXCEPT ![m].pc = "finish"]
  /\ UNCHANGED <<world, relations, view, chunks, recipients, builds>>

(* _finalize_build_success.                                                *)
Finish(m) ==
  /\ run[m].pc = "finish"
  /\ builds' = [builds EXCEPT ![run[m].build] =
                  [@ EXCEPT !.status = "success", !.pg = run[m].build, !.ug = run[m].build]]
  /\ run' = [run EXCEPT ![m] = Idle]
  /\ UNCHANGED <<world, relations, view, chunks, outputs>>

(* Any step raised: its transaction is rolled back, the row says failed.   *)
Raise(m) ==
  /\ Running(m) /\ run[m].pc # "finish"
  /\ Failed(m)
  /\ UNCHANGED <<world, relations, view, chunks, outputs>>

(* The process is gone; its row still says started.                        *)
Kill(m) ==
  /\ Running(m)
  /\ run' = [run EXCEPT ![m] = Idle]
  /\ UNCHANGED <<world, relations, view, chunks, outputs, builds>>

-----------------------------------------------------------------------------
(* The world.  What these processes do in detail is StampedTables and      *)
(* RecoveredLoad.                                                          *)
Change == changes < MaxChanges /\ changes' = changes + 1
Allowed == Concurrent \/ Quiet

(* A load: its table is part loaded until the run that ends it, which may  *)
(* be long after (a load can fail past its DROP).                          *)
LoadBegins(s) ==
  /\ Change /\ Allowed /\ ~source[s].loading
  /\ s \in Direct => Unread
  /\ source' = [source EXCEPT ![s].rows = 2 * @ + 1, ![s].loading = TRUE, ![s].shifted = TRUE]
  /\ UNCHANGED <<relations, view, recovered, corrections, chunks, outputs, builds, run>>

Loaded(row, forced) ==
  [row EXCEPT !.rows = @ + 1, !.loading = FALSE, !.shifted = forced,
              !.version = IF forced THEN @ ELSE @ + 1]

(* It ends with a version of its own, or (forced, or a patch) the same.    *)
LoadEnds(s) ==
  /\ source[s].loading /\ Allowed
  /\ \E forced \in BOOLEAN : source' = [source EXCEPT ![s] = Loaded(source[s], forced)]
  /\ UNCHANGED <<relations, view, recovered, corrections, chunks, outputs, builds, run, changes>>

(* sources refresh or current_grants: a stamp without the matcher's keys,  *)
(* the view back for the policy it showed.                                 *)
RefreshRelation(d) ==
  /\ Allowed
  /\ stamp[d] # None \/ (d = Paid /\ paid # StagingOf)
  /\ Builds(d, None)
  /\ UNCHANGED <<world, view, chunks, outputs, builds, run>>

(* placeholder_recovery load; it creates a view where there is none.       *)
Sync(p) ==
  /\ Change /\ Allowed
  /\ recovered' = [recovered EXCEPT ![p] = @ + 1]
  /\ view' = IF view = None THEN p ELSE view
  /\ UNCHANGED <<source, corrections, relations, chunks, outputs, builds, run>>

(* A new checkout, or an edit.                                             *)
EditCorrections ==
  /\ Change /\ Allowed
  /\ corrections' = corrections + 1
  /\ UNCHANGED <<source, relations, view, recovered, chunks, outputs, builds, run>>

(* placeholder_recovery view --policy, whatever runs.                      *)
ViewCommand(p) ==
  /\ Change /\ Unread /\ view # p
  /\ view' = p
  /\ UNCHANGED <<source, relations, recovered, corrections, chunks, outputs, builds, run>>

Step(m) ==
  \/ Start(m) \/ Bookkeeping(m) \/ (\E d \in Derived : Rebuild(m, d)) \/ Views(m)
  \/ ReadUniverse(m) \/ ReadGrants(m) \/ ListChunks(m) \/ (\E c \in Chunks : ComputeChunk(m, c))
  \/ WriteBoth(m) \/ WriteRecipients(m) \/ WriteUnion(m) \/ Finish(m) \/ Raise(m) \/ Kill(m)

World ==
  \/ \E s \in Sources : LoadBegins(s) \/ LoadEnds(s)
  \/ \E d \in Derived : RefreshRelation(d)
  \/ \E p \in Policies : Sync(p) \/ ViewCommand(p)
  \/ EditCorrections

Next == World \/ \E m \in Matchers : Step(m)

Spec == Init /\ [][Next]_vars

-----------------------------------------------------------------------------
Counts == 0 .. MaxBuilds
BuildRow == [status : {"started", "success", "failed"},
             recovered : {None} \cup [policy : Policies, digest : Nat],
             pg : Counts \cup {None}, ug : Counts \cup {None}]
Prefixes == [versions : [Sources -> Nat], policy : Policies, digest : Nat,
             corrections : Nat, limit : BOOLEAN]
Inputs == [corrections : Nat, direct : [Direct -> Nat], grants : [GrantsOf -> Nat],
           policy : Policies, recovered : Nat, limit : BOOLEAN, size : Sizes]
Joins == [grants : [GrantsOf -> Nat], policy : Policies, recovered : Nat]

TypeOK ==
  /\ source \in [Sources -> [version : Nat, rows : Nat, loading : BOOLEAN, shifted : BOOLEAN]]
  /\ paid \in [GrantsOf -> Nat]
  /\ stamp \in [Derived -> {None} \cup [Sources -> Nat]]
  /\ view \in Policies \cup {None}
  /\ recovered \in [Policies -> Nat] /\ corrections \in Nat
  /\ \A k \in DOMAIN chunks : k \in Prefixes \X Chunks /\ chunks[k] \in Inputs
  /\ recipients.build \in Counts /\ recipients.joined \in {None} \cup Joins
  /\ \A c \in DOMAIN recipients.matches : c \in Chunks /\ recipients.matches[c] \in Inputs
  /\ unioned \in Counts
  /\ builds \in Seq(BuildRow) /\ Len(builds) \in Counts
  /\ \A m \in Matchers :
       /\ run[m].prefix \in {None} \cup Prefixes
       /\ run[m].policy \in {None} \cup Policies
       /\ run[m].to_build \subseteq Derived
       /\ DOMAIN run[m].results \subseteq Chunks

(* Scored on the same rows, but for a source whose rows were shifted under *)
(* an unchanged version.                                                   *)
SameRows(one, other) ==
  /\ one.corrections = other.corrections /\ one.limit = other.limit
  /\ one.policy = other.policy /\ one.recovered = other.recovered
  /\ \A s \in Sources : ~source[s].shifted =>
       /\ s \in Direct => one.direct[s] = other.direct[s]
       /\ s \in GrantsOf => one.grants[s] = other.grants[s]

(* A chunk resumed from S3 was scored on the rows this run would score it  *)
(* on: the prefix it was found under was never written for other rows,     *)
(* whatever runs were killed, limited, made to skip the rebuild or went on *)
(* beside this one.  What a version does not name is excepted by name: rows*)
(* shifted under it, and the pairs a chunk of another size holds.          *)
(* (_resolve_checkpoint_prefix and --skip-rebuild's stamps.)               *)
ResumedChunksAreThisRuns ==
  \A m \in Matchers : \A c \in DOMAIN run[m].results : SameRows(run[m].results[c], run[m].inputs)

(* The grants a run reads are those its build row and its prefix name,     *)
(* though the view can be pointed at another policy between its            *)
(* transactions.  (_load_inputs, recovered_policy_of, _stamp_recovered.)   *)
GrantsAreThoseNamed ==
  \A m \in Matchers : run[m].pc \in {"list", "compute", "union", "finish"} =>
    LET named == builds[run[m].build].recovered IN
    /\ run[m].inputs.policy = named.policy /\ run[m].prefix.policy = named.policy
    /\ run[m].inputs.recovered = named.digest /\ run[m].prefix.digest = named.digest

(* The two output tables are of one build, or the row of the build whose   *)
(* recipients are in place says that it got no further: not successful,    *)
(* with the count of the first table and none of the second.               *)
(* (_write_outputs, _record_privategrants_w_recipients.)                   *)
OutputsAreOnePair ==
  unioned # recipients.build =>
    LET row == builds[recipients.build] IN
    row.status # "success" /\ row.pg = recipients.build /\ row.ug = None

Writing(m) == run[m].pc \in {"union", "finish"} /\ recipients.build = run[m].build

(* The grants written with their recipients are those that were matched,   *)
(* though the join reads them again hours later: unless the view has been  *)
(* pointed at another policy meanwhile.                                    *)
(* (_write_privategrants_w_recipients.)                                    *)
JoinedAreThoseMatched ==
  \A m \in Matchers : Writing(m) /\ recipients.joined.policy = run[m].inputs.policy =>
    /\ recipients.joined.recovered = run[m].inputs.recovered
    /\ \A s \in GrantsOf : ~source[s].shifted =>
         recipients.joined.grants[s] = run[m].inputs.grants[s]

(* A run matches the rows its build row and its prefix name, those it      *)
(* finds matched in a checkpoint included, and writes the grants it        *)
(* matched, where versions name rows and the view is left alone.           *)
RunMatchesWhatItNames == ResumedChunksAreThisRuns /\ GrantsAreThoseNamed /\ JoinedAreThoseMatched

-----------------------------------------------------------------------------
(* What comments and help say, and the code does not hold to: TLC refutes  *)
(* each, and none is a property that is claimed (README, Disagreements).   *)

(* "A new ingest of any source [...] produces a fresh prefix, so old       *)
(* checkpoints can never silently be reused against new data": with no load*)
(* under way, a chunk is resumed on the very rows the run reads.           *)
(* (_resolve_checkpoint_prefix's docstring.)                               *)
OldChunksAreNotReused ==
  (\A s \in Sources : ~source[s].loading) => \A m \in Matchers : \A c \in DOMAIN run[m].results :
    /\ run[m].results[c].direct = run[m].inputs.direct
    /\ run[m].results[c].grants = run[m].inputs.grants

(* "Changing this invalidates any existing chunks at the same prefix": a   *)
(* chunk that is resumed has this run's size.  (--chunk-size's help.)      *)
OtherSizesAreInvalid ==
  \A m \in Matchers : \A c \in DOMAIN run[m].results : run[m].results[c].size = run[m].size

(* "The recovered grants the run takes, read once": those in the table are *)
(* of the policy the build's source_runs names.  (_load_inputs.)           *)
RecoveredAreReadOnce ==
  \A m \in Matchers : Writing(m) =>
    recipients.joined.policy = builds[run[m].build].recovered.policy
=============================================================================
