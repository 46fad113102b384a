---------------------------- MODULE MatchRunProofs ----------------------------
(***************************************************************************)
(* Proofs about grant matching.  Of MatchRun, for any matchers, sources,   *)
(* policies and chunks: the output tables are one pair, or the build row   *)
(* says otherwise; and, while no load or sync commits beside a matcher, a  *)
(* run matches the rows it names, but for those of a source shifted under  *)
(* its version, and writes the grants it matched while the view stands.    *)
(*  Of MatchRules, for any finite tables of any names and   *)
(* places: the tools beside the matcher decide as it does, one filer       *)
(* decides a tuple, and the join keeps every recovered grant.              *)
(***************************************************************************)
EXTENDS MatchRun, MatchProblems, TLAPS, FiniteSetTheorems, NaturalsInduction

Pcs == {"idle", "bookkeeping", "rebuild", "universe", "grants", "list", "compute", "union", "finish"}
Results == UNION {[S -> Inputs] : S \in SUBSET Chunks}
SourceRow == [version : Nat, rows : Nat, loading : BOOLEAN, shifted : BOOLEAN]
Outcome == [build : Counts, matches : Results, joined : {None} \cup Joins]
First == [corrections : Nat]
Second == [corrections : Nat, direct : [Direct -> Nat]]
Runs == [pc : Pcs, build : Nat, skip_rebuild : BOOLEAN, between : BOOLEAN, limit : BOOLEAN, size : {None} \cup Sizes,
         policy : Policies \cup {None}, versions : {None} \cup [Sources -> Nat],
         to_build : SUBSET Derived, prefix : {None} \cup Prefixes,
         inputs : {None} \cup First \cup Second \cup Inputs, results : Results]

TypeInv ==
  /\ source \in [Sources -> SourceRow]
  /\ paid \in [GrantsOf -> Nat]
  /\ stamp \in [Derived -> {None} \cup [Sources -> Nat]]
  /\ view \in Policies \cup {None}
  /\ recovered \in [Policies -> Nat] /\ corrections \in Nat
  /\ \A k \in DOMAIN chunks : k \in Prefixes \X Chunks /\ chunks[k] \in Inputs
  /\ recipients \in Outcome
  /\ unioned \in Counts
  /\ builds \in Seq(BuildRow) /\ Len(builds) \in Counts
  /\ run \in [Matchers -> Runs]

(* What a run has, by where it is.                                         *)
RunInv(m) ==
  LET r == run[m] IN
  /\ r.pc # "idle" => /\ r.build \in 1 .. Len(builds)
                      /\ builds[r.build].status = "started" /\ builds[r.build].ug = None
  /\ r.pc \notin {"idle", "bookkeeping"} => r.policy \in Policies /\ r.versions \in [Sources -> Nat]
  /\ r.pc # "idle" => r.size \in Sizes
  /\ r.pc \notin {"idle", "bookkeeping", "rebuild"} => r.prefix \in Prefixes /\ view \in Policies
  /\ r.pc = "universe" => r.inputs \in First
  /\ r.pc = "grants" => r.inputs \in Second
  /\ r.pc \in {"list", "compute", "union", "finish"} => r.inputs \in Inputs

Distinct ==
  \A m, n \in Matchers : Running(m) /\ Running(n) /\ run[m].build = run[n].build => m = n

(* Only the run whose recipients are in place can be between its outputs.  *)
PairInv ==
  /\ recipients.build \in 0 .. Len(builds)
  /\ unioned # recipients.build =>
       /\ recipients.build \in 1 .. Len(builds)
       /\ builds[recipients.build].status # "success"
       /\ builds[recipients.build].pg = recipients.build
       /\ builds[recipients.build].ug = None
  /\ \A m \in Matchers : Running(m) /\ run[m].build = recipients.build =>
       /\ run[m].pc \in {"union", "finish"}
       /\ run[m].pc = "finish" => unioned = recipients.build

IInv == TypeInv /\ (\A m \in Matchers : RunInv(m)) /\ Distinct /\ PairInv

-----------------------------------------------------------------------------
(* Rows and the versions that name them.                                   *)
AreTheRows(inputs, s) ==
  /\ s \in Direct => inputs.direct[s] = source[s].rows
  /\ s \in GrantsOf => inputs.grants[s] = source[s].rows

(* Rows scored under a prefix are those it names: the same corrections,    *)
(* policy, grants and limit, and of a source whose version is still the    *)
(* one named, and its rows those of that version, the rows there are now.  *)
Names(prefix, inputs) ==
  /\ inputs.corrections = prefix.corrections /\ inputs.policy = prefix.policy
  /\ inputs.recovered = prefix.digest /\ inputs.limit = prefix.limit
  /\ \A s \in Sources :
       /\ prefix.versions[s] <= source[s].version
       /\ prefix.versions[s] = source[s].version /\ ~source[s].shifted => AreTheRows(inputs, s)

StampInv ==
  stamp[Paid] # None => \A s \in GrantsOf :
    /\ stamp[Paid][s] <= source[s].version
    /\ stamp[Paid][s] = source[s].version /\ ~source[s].shifted => paid[s] = source[s].rows

ChunkInv == \A k \in DOMAIN chunks : Names(k[1], chunks[k])

(* privategrants_current holds the sources' rows.                          *)
Fresh == \A s \in GrantsOf : ~source[s].shifted => paid[s] = source[s].rows

(* The grants joined are those matched.                                    *)
JoinNamed(m) ==
  Writing(m) /\ recipients.joined.policy = run[m].inputs.policy =>
    /\ recipients.joined.recovered = run[m].inputs.recovered
    /\ \A s \in GrantsOf : ~source[s].shifted =>
         recipients.joined.grants[s] = run[m].inputs.grants[s]

(* Nothing changes beside a running matcher but the relations and the      *)
(* view, and the view not while a matcher reads.                           *)
NamedRun(m) ==
  LET r == run[m] IN
  /\ r.pc \notin {"idle", "bookkeeping"} => r.versions = Versions
  /\ r.pc \notin {"idle", "bookkeeping", "rebuild"} =>
       /\ r.prefix = Prefix(m)
       /\ builds[r.build].recovered = [policy |-> r.policy, digest |-> recovered[r.policy]]
       /\ Fresh
  /\ r.pc \in {"universe", "grants"} => view = r.policy /\ r.inputs.corrections = corrections
  /\ r.pc = "grants" => \A s \in Direct : r.inputs.direct[s] = source[s].rows
  /\ r.pc \in {"list", "compute", "union", "finish"} => Names(r.prefix, r.inputs)
  /\ r.pc \notin {"compute", "union", "finish"} => DOMAIN r.results = {}
  /\ \A c \in DOMAIN r.results : SameRows(r.results[c], r.inputs)
  /\ JoinNamed(m)

NamedInv == StampInv /\ ChunkInv /\ \A m \in Matchers : NamedRun(m)

-----------------------------------------------------------------------------
(* The sets of the types.                                                  *)
LEMMA ResultsAre ==
  ASSUME NEW f
  PROVE  f \in Results <=> \E S \in SUBSET Chunks : f \in [S -> Inputs]
  BY DEF Results

(* The run's results, before its first chunk.                              *)
LEMMA NoResults == <<>> \in Results /\ DOMAIN <<>> = {}
  <1>1. <<>> \in [{} -> Inputs]
      OBVIOUS
  <1> QED
      BY <1>1, ResultsAre

(* A matcher between runs holds no build and no results.                   *)
LEMMA IdleRun == Idle \in Runs /\ Idle.pc = "idle" /\ Idle.build = 0 /\ DOMAIN Idle.results = {}
  <1>1. Idle.pc = "idle" /\ Idle.build = 0 /\ Idle.results = <<>>
      BY DEF Idle
  <1>2. Idle \in Runs
      BY NoResults DEF Idle, Runs, Pcs
  <1> QED
      BY <1>1, <1>2, NoResults

(* What a row of match_builds holds, and what closing it keeps.            *)
LEMMA BuildRows ==
  ASSUME NEW row \in BuildRow
  PROVE  /\ row.status \in {"started", "success", "failed"}
         /\ row.pg \in Counts \cup {None} /\ row.ug \in Counts \cup {None}
  BY DEF BuildRow

(* The row of a build is written.                                          *)
LEMMA RowWritten ==
  ASSUME TypeInv, NEW b \in 1 .. Len(builds), NEW row \in BuildRow,
         builds' = [builds EXCEPT ![b] = row]
  PROVE  /\ builds' \in Seq(BuildRow) /\ Len(builds') = Len(builds)
         /\ builds'[b] = row
         /\ \A i \in 1 .. Len(builds) : i # b => builds'[i] = builds[i]
  BY DEF TypeInv

-----------------------------------------------------------------------------
(* A step of one matcher: its record, and the rows it leaves alone.        *)
Moved(m, u) ==
  /\ u \in Runs /\ run' = [run EXCEPT ![m] = u]
  /\ builds' \in Seq(BuildRow) /\ Len(builds) <= Len(builds') /\ Len(builds') \in Counts
  /\ \A n \in Matchers \ {m} : Running(n) => builds'[run[n].build] = builds[run[n].build]
  /\ view' = view \/ view' \in Policies

(* A step that moves one matcher leaves the others' runs.                  *)
LEMMA MovedRuns ==
  ASSUME IInv, NEW m \in Matchers, NEW u, Moved(m, u)
  PROVE  /\ run' \in [Matchers -> Runs] /\ run'[m] = u
         /\ \A n \in Matchers \ {m} : run'[n] = run[n] /\ RunInv(n)'
  <1>1. run \in [Matchers -> Runs] /\ Len(builds) \in Nat
      BY DEF IInv, TypeInv
  <1>2. run' \in [Matchers -> Runs] /\ run'[m] = u /\ \A n \in Matchers \ {m} : run'[n] = run[n]
      BY <1>1 DEF Moved
  <1>3. ASSUME NEW n \in Matchers \ {m}
        PROVE  RunInv(n)'
    <2>1. run'[n] = run[n] /\ RunInv(n)
        BY <1>2 DEF IInv
    <2>2. view \in Policies => view' \in Policies
        BY DEF Moved
    <2>3. run[n].pc # "idle" =>
            /\ run[n].build \in 1 .. Len(builds')
            /\ builds'[run[n].build] = builds[run[n].build]
      <3>1. run[n].pc # "idle" => run[n].build \in 1 .. Len(builds)
          BY <2>1 DEF RunInv
      <3>2. Len(builds') \in Nat /\ Len(builds) <= Len(builds')
          BY DEF Moved
      <3> QED
          BY <1>1, <3>1, <3>2 DEF Moved, Running
    <2> QED
        BY <2>1, <2>2, <2>3 DEF RunInv
  <1> QED
      BY <1>2, <1>3

(* A matcher that goes on with its build, or is done with it.              *)
LEMMA Goes ==
  ASSUME IInv, NEW m \in Matchers, NEW u, Moved(m, u), RunInv(m)',
         u.pc # "idle" => Running(m) /\ u.build = run[m].build
  PROVE  /\ run' \in [Matchers -> Runs] /\ run'[m] = u
         /\ \A n \in Matchers \ {m} : run'[n] = run[n]
         /\ \A n \in Matchers : RunInv(n)'
         /\ Distinct'
  <1>1. /\ run' \in [Matchers -> Runs] /\ run'[m] = u
        /\ \A n \in Matchers \ {m} : run'[n] = run[n] /\ RunInv(n)'
      BY MovedRuns
  <1>2. \A n \in Matchers : Running(n)' => Running(n) /\ run'[n].build = run[n].build
      BY <1>1 DEF Running
  <1>3. Distinct'
      BY <1>2 DEF IInv, Distinct
  <1> QED
      BY <1>1, <1>3

(* The outputs stay, and so does what the row of their build says of them. *)
LEMMA PairKept ==
  ASSUME IInv, NEW m \in Matchers, NEW u, Moved(m, u), run'[m] = u,
         \A n \in Matchers \ {m} : run'[n] = run[n],
         UNCHANGED outputs,
         u.pc # "idle" => Running(m) /\ u.build = run[m].build,
         u.pc # "idle" => run[m].pc \notin {"union", "finish"},
         recipients.build \in 1 .. Len(builds) /\ unioned # recipients.build =>
           /\ builds'[recipients.build].status # "success"
           /\ builds'[recipients.build].pg = builds[recipients.build].pg
           /\ builds'[recipients.build].ug = builds[recipients.build].ug
  PROVE  PairInv'
  <1>1. recipients' = recipients /\ unioned' = unioned
      BY DEF outputs
  <1>2. Len(builds) \in Nat /\ Len(builds') \in Nat /\ Len(builds) <= Len(builds')
      BY DEF Moved, IInv, TypeInv
  <1>3. recipients.build \in 0 .. Len(builds')
        /\ (recipients.build \in 1 .. Len(builds) => recipients.build \in 1 .. Len(builds'))
      BY <1>2 DEF IInv, PairInv
  <1>4. \A n \in Matchers : Running(n)' /\ run'[n].build = recipients.build =>
          /\ run'[n].pc \in {"union", "finish"}
          /\ run'[n].pc = "finish" => unioned = recipients.build
    <2>1. ASSUME Running(m)', u.build = recipients.build
          PROVE  FALSE
      <3>1. Running(m) /\ run[m].build = recipients.build /\ run[m].pc \notin {"union", "finish"}
          BY <2>1 DEF Running
      <3> QED
          BY <3>1 DEF IInv, PairInv
    <2>2. \A n \in Matchers \ {m} : Running(n)' => Running(n)
        BY DEF Running
    <2> QED
        BY <2>1, <2>2 DEF IInv, PairInv
  <1> QED
      BY <1>1, <1>3, <1>4 DEF IInv, PairInv

(* A step that writes no build row and no output.                          *)
LEMMA Quietly ==
  ASSUME IInv, NEW m \in Matchers, NEW u \in Runs, run' = [run EXCEPT ![m] = u],
         UNCHANGED <<builds, recipients, unioned>>, view' = view \/ view' \in Policies,
         run'[m] = u => RunInv(m)',
         u.pc # "idle" => /\ Running(m) /\ u.build = run[m].build
                          /\ run[m].pc \notin {"union", "finish"}
  PROVE  /\ run' \in [Matchers -> Runs] /\ run'[m] = u
         /\ \A n \in Matchers \ {m} : run'[n] = run[n]
         /\ (\A n \in Matchers : RunInv(n))' /\ Distinct' /\ PairInv'
  <1>1. Moved(m, u)
      BY DEF Moved, IInv, TypeInv
  <1>2. run'[m] = u
      BY <1>1, MovedRuns
  <1>3. /\ run' \in [Matchers -> Runs] /\ run'[m] = u
        /\ \A n \in Matchers \ {m} : run'[n] = run[n]
        /\ \A n \in Matchers : RunInv(n)'
        /\ Distinct'
      BY <1>1, <1>2, Goes
  <1>4. UNCHANGED outputs
      BY DEF outputs
  <1>5. recipients.build \in 1 .. Len(builds) /\ unioned # recipients.build =>
           /\ builds'[recipients.build].status # "success"
           /\ builds'[recipients.build].pg = builds[recipients.build].pg
           /\ builds'[recipients.build].ug = builds[recipients.build].ug
      BY DEF IInv, PairInv
  <1>6. PairInv'
      BY <1>1, <1>3, <1>4, <1>5, PairKept
  <1> QED
      BY <1>3, <1>6

(* A step that writes the row of the matcher's own build, which stays one  *)
(* that did not succeed, and with its counts.                              *)
LEMMA Noting ==
  ASSUME IInv, NEW m \in Matchers, NEW u \in Runs, run' = [run EXCEPT ![m] = u],
         Running(m), run[m].pc \notin {"union", "finish"} \/ u.pc = "idle",
         NEW row \in BuildRow, builds' = [builds EXCEPT ![run[m].build] = row],
         row.status # "success", row.pg = builds[run[m].build].pg, row.ug = builds[run[m].build].ug,
         UNCHANGED <<recipients, unioned>>, view' = view \/ view' \in Policies,
         run'[m] = u /\ builds'[run[m].build] = row /\ Len(builds') = Len(builds) => RunInv(m)',
         u.pc # "idle" => u.build = run[m].build
  PROVE  /\ run' \in [Matchers -> Runs] /\ run'[m] = u
         /\ \A n \in Matchers \ {m} : run'[n] = run[n]
         /\ builds' \in Seq(BuildRow) /\ Len(builds') = Len(builds)
         /\ builds'[run[m].build] = row
         /\ \A n \in Matchers \ {m} : Running(n) => builds'[run[n].build] = builds[run[n].build]
         /\ (\A n \in Matchers : RunInv(n))' /\ Distinct' /\ PairInv'
  <1>1. run[m].build \in 1 .. Len(builds)
      BY DEF IInv, RunInv, Running
  <1>2. /\ builds' \in Seq(BuildRow) /\ Len(builds') = Len(builds)
        /\ builds'[run[m].build] = row
        /\ \A i \in 1 .. Len(builds) : i # run[m].build => builds'[i] = builds[i]
      BY <1>1, RowWritten DEF IInv
  <1>3. \A n \in Matchers \ {m} : Running(n) => builds'[run[n].build] = builds[run[n].build]
    <2>1. \A n \in Matchers \ {m} : Running(n) =>
             run[n].build \in 1 .. Len(builds) /\ run[n].build # run[m].build
        BY DEF IInv, RunInv, Running, Distinct
    <2> QED
        BY <1>2, <2>1
  <1>4. Moved(m, u)
      BY <1>2, <1>3 DEF Moved, IInv, TypeInv
  <1>5. run'[m] = u
      BY <1>4, MovedRuns
  <1>6. /\ run' \in [Matchers -> Runs] /\ run'[m] = u
        /\ \A n \in Matchers \ {m} : run'[n] = run[n]
        /\ \A n \in Matchers : RunInv(n)'
        /\ Distinct'
      BY <1>2, <1>4, <1>5, Goes
  <1>7. UNCHANGED outputs
      BY DEF outputs
  <1>8. recipients.build \in 1 .. Len(builds) /\ unioned # recipients.build =>
           /\ builds'[recipients.build].status # "success"
           /\ builds'[recipients.build].pg = builds[recipients.build].pg
           /\ builds'[recipients.build].ug = builds[recipients.build].ug
      BY <1>2 DEF IInv, PairInv
  <1>9. PairInv'
      BY <1>4, <1>6, <1>7, <1>8, PairKept
  <1> QED
      BY <1>2, <1>3, <1>6, <1>9

(* A run that is over is of no more concern.                               *)
LEMMA IdleIsFine ==
  ASSUME NEW m \in Matchers
  PROVE  run'[m] = Idle => RunInv(m)'
  BY IdleRun DEF RunInv

(* The policy a run takes, None when it raises.                            *)
LEMMA PolicyType ==
  ASSUME NEW shown \in Policies \cup {None}, NEW asked \in Policies \cup {None}
  PROVE  /\ PolicyOf(shown, asked) \in Policies \cup {None}
         /\ shown # None /\ PolicyOf(shown, asked) # None => PolicyOf(shown, asked) = shown
         /\ asked # None /\ PolicyOf(shown, asked) # None => PolicyOf(shown, asked) = asked
  BY DEF PolicyOf

(* The versions of the sources, as a run reads them.                       *)
LEMMA VersionsType ==
  ASSUME TypeInv
  PROVE  Versions \in [Sources -> Nat]
  BY DEF TypeInv, Versions, SourceRow

-----------------------------------------------------------------------------
(* The steps of a run, one by one.                                         *)
LEMMA Fails ==
  ASSUME IInv, NEW m \in Matchers, Running(m), Failed(m),
         UNCHANGED <<source, paid, stamp, view, recovered, corrections, chunks, recipients, unioned>>
  PROVE  IInv'
  <1>1. PICK b \in 1 .. Len(builds) : b = run[m].build
      BY DEF IInv, RunInv, Running
  <1>2. PICK old \in BuildRow : old = builds[b]
      BY <1>1 DEF IInv, TypeInv
  <1>3. PICK row : row = [old EXCEPT !.status = "failed"]
      OBVIOUS
  <1>4. /\ row \in BuildRow /\ row.status = "failed" /\ row.pg = old.pg /\ row.ug = old.ug
      BY <1>3 DEF BuildRow
  <1>5. builds' = [builds EXCEPT ![b] = row] /\ run' = [run EXCEPT ![m] = Idle]
      BY <1>1, <1>2, <1>3 DEF Failed
  <1>6. /\ run' \in [Matchers -> Runs]
        /\ builds' \in Seq(BuildRow) /\ Len(builds') = Len(builds)
        /\ (\A n \in Matchers : RunInv(n))' /\ Distinct' /\ PairInv'
      BY <1>1, <1>2, <1>4, <1>5, IdleRun, IdleIsFine, Noting
  <1>7. TypeInv'
      BY <1>6 DEF IInv, TypeInv
  <1> QED
      BY <1>6, <1>7 DEF IInv

(* A run opens, registers, fails or closes its build row.                  *)
LEMMA Bookkeeps ==
  ASSUME IInv, NEW m \in Matchers, Bookkeeping(m)
  PROVE  IInv'
  <1>1. /\ run[m].pc = "bookkeeping" /\ Running(m)
        /\ UNCHANGED <<source, paid, stamp, view, recovered, corrections, chunks, recipients, unioned>>
      BY DEF Bookkeeping, Running, world, relations, outputs
  <1>2. PICK now \in Runs : now = run[m]
      BY DEF IInv, TypeInv
  <1>3. PICK policy : policy = PolicyOf(view, run[m].policy)
      OBVIOUS
  <1>4. policy \in Policies \cup {None}
      BY <1>2, <1>3, PolicyType DEF IInv, TypeInv, Runs
  <1>5. CASE policy = None
      BY <1>1, <1>3, <1>5, Fails DEF Bookkeeping
  <1>6. CASE policy # None
    <2>1. PICK todo \in SUBSET Derived :
            todo = IF run[m].skip_rebuild THEN WithDependents(Unstamped(Versions)) ELSE Derived
        BY DEF Unstamped, WithDependents
    <2>2. PICK u : u = [now EXCEPT !.pc = "rebuild", !.policy = policy, !.versions = Versions,
                                   !.to_build = todo]
        OBVIOUS
    <2>3. /\ u \in Runs /\ u.pc = "rebuild" /\ u.policy = policy /\ u.versions = Versions
          /\ u.build = now.build /\ u.size = now.size
        BY <1>4, <2>2, VersionsType DEF Runs, Pcs, IInv
    <2>4. run' = [run EXCEPT ![m] = u] /\ UNCHANGED builds
        BY <1>2, <1>3, <1>6, <2>1, <2>2 DEF Bookkeeping
    <2>5. run'[m] = u => RunInv(m)'
        BY <1>1, <1>2, <1>4, <1>6, <2>3, <2>4, VersionsType DEF IInv, RunInv
    <2>6. /\ run' \in [Matchers -> Runs]
          /\ (\A n \in Matchers : RunInv(n))' /\ Distinct' /\ PairInv'
        BY <1>1, <1>2, <2>3, <2>4, <2>5, Quietly
    <2>7. TypeInv'
        BY <1>1, <2>4, <2>6 DEF IInv, TypeInv
    <2> QED
        BY <2>6, <2>7 DEF IInv
  <1> QED
      BY <1>5, <1>6

(* A relation's build keeps the types of rows and stamps.                  *)
LEMMA BuildTypes ==
  ASSUME TypeInv, NEW d, NEW versions \in {None} \cup [Sources -> Nat],
         Builds(d, versions)
  PROVE  paid' \in [GrantsOf -> Nat] /\ stamp' \in [Derived -> {None} \cup [Sources -> Nat]]
  <1>1. StagingOf \in [GrantsOf -> Nat]
      BY DEF StagingOf, TypeInv, SourceRow, Sources
  <1> QED
      BY <1>1 DEF Builds, TypeInv

(* A view built over stays, or shows a policy.                             *)
LEMMA ViewIsKept ==
  ASSUME NEW shown \in Policies \cup {None}, shown = view, NEW policy \in Policies, NEW d,
         d \in ViewTables => ViewAfter(d, policy) # None
  PROVE  ViewAfter(d, policy) = view \/ ViewAfter(d, policy) \in Policies
  BY PolicyType DEF ViewAfter

(* A run rebuilds a derived relation, stamped with the versions the run    *)
(* took.                                                                   *)
LEMMA Rebuilds ==
  ASSUME IInv, NEW m \in Matchers, NEW d \in Derived, Rebuild(m, d)
  PROVE  IInv'
  <1>1. /\ run[m].pc = "rebuild" /\ Running(m) /\ view' = ViewAfter(d, run[m].policy)
        /\ Builds(d, run[m].versions)
        /\ UNCHANGED <<source, recovered, corrections, chunks, recipients, unioned, builds>>
      BY DEF Rebuild, Running, world, outputs
  <1>2. PICK now \in Runs : now = run[m]
      BY DEF IInv, TypeInv
  <1>3. now.policy \in Policies /\ now.versions \in [Sources -> Nat]
      BY <1>1, <1>2 DEF IInv, RunInv
  <1>4. PICK u : u = [now EXCEPT !.to_build = @ \ {d}]
      OBVIOUS
  <1>5. /\ u \in Runs /\ u.pc = now.pc /\ u.policy = now.policy /\ u.versions = now.versions
        /\ u.build = now.build /\ u.size = now.size
      BY <1>4 DEF Runs
  <1>6. run' = [run EXCEPT ![m] = u]
      BY <1>2, <1>4 DEF Rebuild
  <1>7. run'[m] = u => RunInv(m)'
      BY <1>1, <1>2, <1>3, <1>5 DEF IInv, RunInv
  <1>8. view' = view \/ view' \in Policies
      BY <1>1, <1>2, <1>3, ViewIsKept DEF Rebuild, IInv, TypeInv
  <1>9. /\ run' \in [Matchers -> Runs]
        /\ (\A n \in Matchers : RunInv(n))' /\ Distinct' /\ PairInv'
      BY <1>1, <1>2, <1>5, <1>6, <1>7, <1>8, Quietly
  <1>10. paid' \in [GrantsOf -> Nat] /\ stamp' \in [Derived -> {None} \cup [Sources -> Nat]]
      BY <1>1, <1>2, <1>3, BuildTypes DEF IInv
  <1>11. TypeInv'
      BY <1>1, <1>8, <1>9, <1>10 DEF IInv, TypeInv
  <1> QED
      BY <1>9, <1>11 DEF IInv

(* A run replaces, or leaves, the views over its output.                   *)
LEMMA Viewing ==
  ASSUME IInv, NEW m \in Matchers, Views(m)
  PROVE  IInv'
  <1>1. /\ run[m].pc = "rebuild" /\ Running(m)
        /\ UNCHANGED <<source, paid, stamp, recovered, corrections, chunks, recipients, unioned>>
      BY DEF Views, Running, world, relations, outputs
  <1>2. PICK now \in Runs : now = run[m]
      BY DEF IInv, TypeInv
  <1>3. now.policy \in Policies /\ now.versions \in [Sources -> Nat]
      BY <1>1, <1>2 DEF IInv, RunInv
  <1>4. PICK policy : policy = PolicyOf(view, run[m].policy)
      OBVIOUS
  <1>5. policy \in Policies \cup {None}
      BY <1>2, <1>4, PolicyType DEF IInv, TypeInv, Runs
  <1>6. CASE ~Checked(m) \/ policy = None
    <2>1. Failed(m) /\ UNCHANGED view
        BY <1>4, <1>6 DEF Views
    <2> QED
        BY <1>1, <2>1, Fails
  <1>7. CASE ~(~Checked(m) \/ policy = None)
    <2>1. view' = policy /\ StampRecovered(m)
          /\ run' = [run EXCEPT ![m].pc = "universe", ![m].prefix = Prefix(m),
                                ![m].inputs = LoadCorrections]
        BY <1>4, <1>7 DEF Views
    <2>0. now.size \in Sizes
        BY <1>1, <1>2 DEF IInv, RunInv
    <2>2. PICK prefix \in Prefixes : prefix = Prefix(m)
      <3>1. /\ recovered[now.policy] \in Nat /\ corrections \in Nat /\ now.limit \in BOOLEAN
          BY <1>3 DEF IInv, TypeInv, Runs
      <3> QED
          BY <1>2, <1>3, <3>1 DEF Prefix, Prefixes
    <2>3. PICK inputs \in First : inputs = LoadCorrections
        BY DEF LoadCorrections, First, IInv, TypeInv
    <2>4. PICK u : u = [now EXCEPT !.pc = "universe", !.prefix = prefix, !.inputs = inputs]
        OBVIOUS
    <2>5. /\ u \in Runs /\ u.pc = "universe" /\ u.policy = now.policy /\ u.versions = now.versions
          /\ u.build = now.build /\ u.size = now.size /\ u.prefix = prefix /\ u.inputs = inputs
        BY <2>4 DEF Runs, Pcs
    <2>6. run' = [run EXCEPT ![m] = u]
        BY <1>2, <2>1, <2>2, <2>3, <2>4
    <2>7. PICK b \in 1 .. Len(builds) : b = run[m].build
        BY <1>1 DEF IInv, RunInv
    <2>8. PICK old \in BuildRow : old = builds[b]
        BY DEF IInv, TypeInv
    <2>9. old.status = "started" /\ old.ug = None
        BY <1>1, <2>7, <2>8 DEF IInv, RunInv
    <2>10. PICK note : note = [policy |-> run[m].policy, digest |-> recovered[run[m].policy]]
        OBVIOUS
    <2>11. note \in [policy : Policies, digest : Nat]
        BY <1>2, <1>3, <2>10 DEF IInv, TypeInv
    <2>12. PICK row : row = [old EXCEPT !.recovered = note]
        OBVIOUS
    <2>13. row \in BuildRow /\ row.status = old.status /\ row.pg = old.pg /\ row.ug = old.ug
        BY <2>11, <2>12 DEF BuildRow
    <2>14. builds' = [builds EXCEPT ![b] = row]
        BY <2>1, <2>7, <2>8, <2>10, <2>12 DEF StampRecovered
    <2>16. view' \in Policies
        BY <1>5, <1>7, <2>1
    <2>15. run'[m] = u /\ builds'[b] = row /\ Len(builds') = Len(builds) => RunInv(m)'
        BY <1>1, <1>2, <1>3, <2>0, <2>5, <2>7, <2>9, <2>13, <2>16 DEF RunInv
    <2>17. row.status # "success"
        BY <2>9, <2>13
    <2>18. /\ run' \in [Matchers -> Runs]
           /\ builds' \in Seq(BuildRow) /\ Len(builds') = Len(builds)
           /\ (\A n \in Matchers : RunInv(n))' /\ Distinct' /\ PairInv'
      <3>1. /\ builds' = [builds EXCEPT ![run[m].build] = row]
            /\ row.pg = builds[run[m].build].pg /\ row.ug = builds[run[m].build].ug
          BY <2>7, <2>8, <2>13, <2>14
      <3>2. run'[m] = u /\ builds'[run[m].build] = row /\ Len(builds') = Len(builds) => RunInv(m)'
          BY <2>7, <2>15
      <3>3. u.pc # "idle" => u.build = run[m].build
          BY <1>2, <2>5
      <3>4. run[m].pc \notin {"union", "finish"} /\ UNCHANGED <<recipients, unioned>>
          BY <1>1
      <3>5. row \in BuildRow /\ u \in Runs
          BY <2>5, <2>13
      <3> QED
          BY ZenonT(60), <1>1, <2>6, <2>16, <2>17, <3>1, <3>2, <3>3, <3>4, <3>5, Noting
    <2>19. TypeInv'
        BY <1>1, <2>16, <2>18 DEF IInv, TypeInv
    <2> QED
        BY <2>18, <2>19 DEF IInv
  <1> QED
      BY <1>6, <1>7

(* A run reads the universe it prunes by.                                  *)
LEMMA ReadsUniverse ==
  ASSUME IInv, NEW m \in Matchers, ReadUniverse(m)
  PROVE  IInv'
  <1>1. /\ run[m].pc = "universe" /\ Running(m)
        /\ UNCHANGED <<source, paid, stamp, view, recovered, corrections, chunks, recipients, unioned, builds>>
      BY DEF ReadUniverse, Running, world, relations, outputs
  <1>2. PICK now \in Runs : now = run[m]
      BY DEF IInv, TypeInv
  <1>3. RunInv(m)
      BY DEF IInv
  <1>4. now.inputs.corrections \in Nat
      BY <1>1, <1>2, <1>3 DEF RunInv, First
  <1>5. PICK direct \in [Direct -> Nat] : direct = [s \in Direct |-> source[s].rows]
      BY DEF IInv, TypeInv, Sources, SourceRow
  <1>6. PICK inputs \in Second : inputs = [corrections |-> now.inputs.corrections, direct |-> direct]
      BY <1>4 DEF Second
  <1>7. PICK u : u = [now EXCEPT !.pc = "grants", !.inputs = inputs]
      OBVIOUS
  <1>8. /\ u \in Runs /\ u.pc = "grants" /\ u.policy = now.policy /\ u.versions = now.versions
        /\ u.build = now.build /\ u.size = now.size /\ u.prefix = now.prefix /\ u.inputs = inputs
      BY <1>7 DEF Runs, Pcs
  <1>9. run' = [run EXCEPT ![m] = u]
      BY <1>2, <1>5, <1>6, <1>7 DEF ReadUniverse
  <1>10. run'[m] = u => RunInv(m)'
      BY <1>1, <1>2, <1>3, <1>8 DEF RunInv
  <1>11. /\ run' \in [Matchers -> Runs]
         /\ (\A n \in Matchers : RunInv(n))' /\ Distinct' /\ PairInv'
      BY <1>1, <1>2, <1>8, <1>9, <1>10, Quietly
  <1>12. TypeInv'
      BY <1>1, <1>11 DEF IInv, TypeInv
  <1> QED
      BY <1>11, <1>12 DEF IInv

(* A run reads the grants it matches.                                      *)
LEMMA ReadsGrants ==
  ASSUME IInv, NEW m \in Matchers, ReadGrants(m)
  PROVE  IInv'
  <1>1. /\ run[m].pc = "grants" /\ Running(m)
        /\ UNCHANGED <<source, paid, stamp, view, recovered, corrections, chunks, recipients, unioned, builds>>
      BY DEF ReadGrants, Running, world, relations, outputs
  <1>2. PICK now \in Runs : now = run[m]
      BY DEF IInv, TypeInv
  <1>3. RunInv(m)
      BY DEF IInv
  <1>4. now.inputs.corrections \in Nat /\ now.inputs.direct \in [Direct -> Nat]
      BY <1>1, <1>2, <1>3 DEF RunInv, Second
  <1>5. PICK theirs \in [GrantsOf -> Nat] : theirs = paid
      BY DEF IInv, TypeInv
  <1>6. view \in Policies /\ recovered[view] \in Nat /\ now.limit \in BOOLEAN /\ now.size \in Sizes
      BY <1>1, <1>2, <1>3 DEF IInv, TypeInv, RunInv, Runs
  <1>7. PICK inputs \in Inputs :
          inputs = [corrections |-> now.inputs.corrections, direct |-> now.inputs.direct,
                    grants |-> theirs, policy |-> view, recovered |-> recovered[view],
                    limit |-> now.limit, size |-> now.size]
      BY <1>4, <1>6 DEF Inputs
  <1>8. PICK u : u = [now EXCEPT !.pc = "list", !.inputs = inputs]
      OBVIOUS
  <1>9. /\ u \in Runs /\ u.pc = "list" /\ u.policy = now.policy /\ u.versions = now.versions
        /\ u.build = now.build /\ u.size = now.size /\ u.prefix = now.prefix /\ u.inputs = inputs
      BY <1>8 DEF Runs, Pcs
  <1>10. run' = [run EXCEPT ![m] = u]
      BY <1>2, <1>5, <1>7, <1>8 DEF ReadGrants
  <1>11. run'[m] = u => RunInv(m)'
      BY <1>1, <1>2, <1>3, <1>9 DEF RunInv
  <1>12. /\ run' \in [Matchers -> Runs]
         /\ (\A n \in Matchers : RunInv(n))' /\ Distinct' /\ PairInv'
      BY <1>1, <1>2, <1>9, <1>10, <1>11, Quietly
  <1>13. TypeInv'
      BY <1>1, <1>12 DEF IInv, TypeInv
  <1> QED
      BY <1>12, <1>13 DEF IInv

(* A run lists the chunks that are done under its prefix.                  *)
LEMMA Lists ==
  ASSUME IInv, NEW m \in Matchers, ListChunks(m)
  PROVE  IInv'
  <1>1. /\ run[m].pc = "list" /\ Running(m)
        /\ UNCHANGED <<source, paid, stamp, view, recovered, corrections, chunks, recipients, unioned, builds>>
      BY DEF ListChunks, Running, world, relations, outputs
  <1>2. PICK now \in Runs : now = run[m]
      BY DEF IInv, TypeInv
  <1>3. RunInv(m)
      BY DEF IInv
  <1>4. PICK resumed \in {{}, Stored(m)} :
          run' = [run EXCEPT ![m].pc = "compute",
                             ![m].results = [c \in resumed |-> chunks[Key(m, c)]]]
      BY DEF ListChunks
  <1>5. resumed \subseteq Chunks /\ \A c \in resumed : Key(m, c) \in DOMAIN chunks
      BY DEF Stored
  <1>6. PICK results : results = [c \in resumed |-> chunks[Key(m, c)]]
      OBVIOUS
  <1>7. results \in Results
    <2>1. \A c \in resumed : chunks[Key(m, c)] \in Inputs
        BY <1>5 DEF IInv, TypeInv
    <2>2. results \in [resumed -> Inputs]
        BY <1>6, <2>1
    <2> QED
        BY <1>5, <2>2, ResultsAre
  <1>8. PICK u : u = [now EXCEPT !.pc = "compute", !.results = results]
      OBVIOUS
  <1>9. /\ u \in Runs /\ u.pc = "compute" /\ u.policy = now.policy /\ u.versions = now.versions
        /\ u.build = now.build /\ u.size = now.size /\ u.prefix = now.prefix /\ u.inputs = now.inputs
      BY <1>7, <1>8 DEF Runs, Pcs
  <1>10. run' = [run EXCEPT ![m] = u]
      BY <1>2, <1>4, <1>6, <1>8
  <1>11. run'[m] = u => RunInv(m)'
      BY <1>1, <1>2, <1>3, <1>9 DEF RunInv
  <1>12. /\ run' \in [Matchers -> Runs]
         /\ (\A n \in Matchers : RunInv(n))' /\ Distinct' /\ PairInv'
      BY <1>1, <1>2, <1>9, <1>10, <1>11, Quietly
  <1>13. TypeInv'
      BY <1>1, <1>12 DEF IInv, TypeInv
  <1> QED
      BY <1>12, <1>13 DEF IInv

(* A run computes a missing chunk from what it read.                       *)
LEMMA Computes ==
  ASSUME IInv, NEW m \in Matchers, NEW c \in Chunks, ComputeChunk(m, c)
  PROVE  IInv'
  <1>1. /\ run[m].pc = "compute" /\ Running(m)
        /\ UNCHANGED <<source, paid, stamp, view, recovered, corrections, recipients, unioned, builds>>
      BY DEF ComputeChunk, Running, world, relations, outputs
  <1>2. PICK now \in Runs : now = run[m]
      BY DEF IInv, TypeInv
  <1>3. RunInv(m)
      BY DEF IInv
  <1>4. now.inputs \in Inputs /\ now.prefix \in Prefixes
      BY <1>1, <1>2, <1>3 DEF RunInv
  <1>5. PICK results : results = [k \in DOMAIN now.results \cup {c} |->
                                    IF k = c THEN now.inputs ELSE now.results[k]]
      OBVIOUS
  <1>6. results \in Results
    <2>1. PICK S \in SUBSET Chunks : now.results \in [S -> Inputs]
        BY ResultsAre DEF Runs
    <2>2. results \in [S \cup {c} -> Inputs]
        BY <1>4, <1>5, <2>1
    <2> QED
        BY <2>2, ResultsAre
  <1>7. PICK u : u = [now EXCEPT !.results = results]
      OBVIOUS
  <1>8. /\ u \in Runs /\ u.pc = now.pc /\ u.policy = now.policy /\ u.versions = now.versions
        /\ u.build = now.build /\ u.size = now.size /\ u.prefix = now.prefix /\ u.inputs = now.inputs
      BY <1>6, <1>7 DEF Runs
  <1>9. run' = [run EXCEPT ![m] = u]
      BY <1>2, <1>5, <1>7 DEF ComputeChunk
  <1>10. run'[m] = u => RunInv(m)'
      BY <1>1, <1>2, <1>3, <1>8 DEF RunInv
  <1>11. /\ run' \in [Matchers -> Runs]
         /\ (\A n \in Matchers : RunInv(n))' /\ Distinct' /\ PairInv'
      BY <1>1, <1>2, <1>8, <1>9, <1>10, Quietly
  <1>12. \A k \in DOMAIN chunks' : k \in Prefixes \X Chunks /\ chunks'[k] \in Inputs
    <2>1. Key(m, c) \in Prefixes \X Chunks
        BY <1>2, <1>4 DEF Key
    <2>2. chunks' = [k \in DOMAIN chunks \cup {Key(m, c)} |->
                       IF k = Key(m, c) THEN now.inputs ELSE chunks[k]]
        BY <1>2 DEF ComputeChunk
    <2> QED
        BY <1>4, <2>1, <2>2 DEF IInv, TypeInv
  <1>13. TypeInv'
      BY <1>1, <1>11, <1>12 DEF IInv, TypeInv
  <1> QED
      BY <1>11, <1>13 DEF IInv

(* A build is begun with a row of its own.                                 *)
LEMMA Starts ==
  ASSUME IInv, NEW m \in Matchers, Start(m)
  PROVE  IInv'
  <1>1. /\ ~Running(m) /\ Len(builds) < MaxBuilds
        /\ UNCHANGED <<source, paid, stamp, view, recovered, corrections, chunks, recipients, unioned>>
      BY DEF Start, world, relations, outputs
  <1>2. MaxBuilds \in Nat /\ Len(builds) \in Nat /\ builds \in Seq(BuildRow)
      BY MatchAssumption DEF IInv, TypeInv
  <1>3. PICK row : row = [status |-> "started", recovered |-> None, pg |-> None, ug |-> None]
      OBVIOUS
  <1>4. row \in BuildRow /\ row.status = "started" /\ row.ug = None
      BY <1>3 DEF BuildRow
  <1>5. builds' = Append(builds, row)
      BY <1>3 DEF Start
  <1>6. PICK b \in Nat : b = Len(builds) + 1
      BY <1>2
  <1>7. /\ builds' \in Seq(BuildRow) /\ Len(builds') = b /\ Len(builds') \in Counts
        /\ builds'[b] = row /\ \A i \in 1 .. Len(builds) : builds'[i] = builds[i]
      BY <1>1, <1>2, <1>4, <1>5, <1>6 DEF Counts
  <1>8. PICK o \in Options : run' = [run EXCEPT ![m] = Begun(Len(builds) + 1, o)]
      BY DEF Start
  <1>9. PICK u : u = Begun(b, o)
      OBVIOUS
  <1>10. u \in Runs /\ u.pc = "bookkeeping" /\ u.build = b /\ u.size \in Sizes
    <2>1. PICK idle \in Runs : idle = Idle
        BY IdleRun
    <2>2. o.skip_rebuild \in BOOLEAN /\ o.between \in BOOLEAN /\ o.limit \in BOOLEAN
          /\ o.size \in Sizes /\ o.asked \in Policies \cup {None}
        BY DEF Options
    <2>3. u = [idle EXCEPT
                   !.pc = "bookkeeping", !.build = b, !.skip_rebuild = o.skip_rebuild,
                   !.between = o.between, !.limit = o.limit, !.size = o.size, !.policy = o.asked]
        BY <1>9, <2>1 DEF Begun
    <2> QED
        BY <2>2, <2>3 DEF Runs, Pcs
  <1>11. run' = [run EXCEPT ![m] = u]
      BY <1>6, <1>8, <1>9
  <1>12. Moved(m, u)
    <2>1. \A n \in Matchers \ {m} : Running(n) => run[n].build \in 1 .. Len(builds)
        BY DEF IInv, RunInv, Running
    <2> QED
        BY <1>1, <1>2, <1>6, <1>7, <1>10, <1>11, <2>1 DEF Moved
  <1>13. /\ run' \in [Matchers -> Runs] /\ run'[m] = u
         /\ \A n \in Matchers \ {m} : run'[n] = run[n] /\ RunInv(n)'
      BY <1>12, MovedRuns
  <1>14. RunInv(m)'
    <2>1. b \in 1 .. Len(builds')
        BY <1>2, <1>6, <1>7
    <2> QED
        BY <1>4, <1>7, <1>10, <1>13, <2>1 DEF RunInv
  <1>15. \A n \in Matchers \ {m} : Running(n) => run[n].build # b
    <2>1. \A n \in Matchers \ {m} : Running(n) => run[n].build \in 1 .. Len(builds)
        BY DEF IInv, RunInv, Running
    <2> QED
        BY <1>2, <1>6, <2>1
  <1>16. Distinct'
      BY <1>10, <1>13, <1>15 DEF IInv, Distinct, Running
  <1>17. PairInv'
    <2>1. recipients.build \in 0 .. Len(builds) /\ recipients.build # b
          /\ recipients.build \in 0 .. Len(builds')
        BY <1>2, <1>6, <1>7 DEF IInv, PairInv
    <2>2. unioned # recipients.build =>
            /\ recipients.build \in 1 .. Len(builds')
            /\ builds'[recipients.build] = builds[recipients.build]
        BY <1>2, <1>6, <1>7 DEF IInv, PairInv
    <2> QED
        BY <1>1, <1>10, <1>13, <2>1, <2>2 DEF IInv, PairInv, Running
  <1>18. TypeInv'
      BY <1>1, <1>7, <1>13 DEF IInv, TypeInv
  <1> QED
      BY <1>13, <1>14, <1>16, <1>17, <1>18 DEF IInv

(* A killed run leaves its row as it is.                                   *)
LEMMA Killing ==
  ASSUME IInv, NEW m \in Matchers, Kill(m)
  PROVE  IInv'
  <1>1. /\ run' = [run EXCEPT ![m] = Idle]
        /\ UNCHANGED <<source, paid, stamp, view, recovered, corrections, chunks, recipients, unioned, builds>>
      BY DEF Kill, world, relations, outputs
  <1>2. /\ run' \in [Matchers -> Runs]
        /\ (\A n \in Matchers : RunInv(n))' /\ Distinct' /\ PairInv'
      BY <1>1, IdleRun, IdleIsFine, Quietly
  <1>3. TypeInv'
      BY <1>1, <1>2 DEF IInv, TypeInv
  <1> QED
      BY <1>2, <1>3 DEF IInv

(* What a run writes, when a view shows the grants it is joined to.        *)
LEMMA RecipientsType ==
  ASSUME IInv, NEW m \in Matchers, Complete(m)
  PROVE  Recipients(m) \in Outcome /\ Recipients(m).build = run[m].build
  <1>1. run[m] \in Runs /\ RunInv(m) /\ run[m].pc = "compute"
      BY DEF IInv, TypeInv, Complete
  <1>2. view \in Policies /\ recovered[view] \in Nat /\ paid \in [GrantsOf -> Nat]
      BY <1>1 DEF IInv, TypeInv, RunInv
  <1>3. Joined \in Joins
      BY <1>2 DEF Joined, Joins
  <1>4. run[m].results \in Results /\ run[m].build \in Counts
      BY <1>1, MatchAssumption DEF Runs, RunInv, Counts, IInv, TypeInv
  <1> QED
      BY <1>3, <1>4 DEF Recipients, Outcome

(* The two outputs in one transaction.                                     *)
LEMMA WritesBoth ==
  ASSUME IInv, NEW m \in Matchers, WriteBoth(m)
  PROVE  IInv'
  <1>1. /\ run[m].pc = "compute" /\ Running(m)
        /\ recipients' \in Outcome /\ recipients'.build = run[m].build
        /\ unioned' = run[m].build
        /\ UNCHANGED <<source, paid, stamp, view, recovered, corrections, chunks, builds>>
      BY RecipientsType DEF WriteBoth, Complete, Running, world, relations
  <1>2. PICK now \in Runs : now = run[m]
      BY DEF IInv, TypeInv
  <1>3. RunInv(m)
      BY DEF IInv
  <1>4. PICK u : u = [now EXCEPT !.pc = "finish"]
      OBVIOUS
  <1>5. /\ u \in Runs /\ u.pc = "finish" /\ u.policy = now.policy /\ u.versions = now.versions
        /\ u.build = now.build /\ u.size = now.size /\ u.prefix = now.prefix /\ u.inputs = now.inputs
      BY <1>4 DEF Runs, Pcs
  <1>6. run' = [run EXCEPT ![m] = u]
      BY <1>2, <1>4 DEF WriteBoth
  <1>7. Moved(m, u)
      BY <1>1, <1>5, <1>6 DEF Moved, IInv, TypeInv
  <1>8. run'[m] = u
      BY <1>7, MovedRuns
  <1>9. RunInv(m)'
      BY <1>1, <1>2, <1>3, <1>5, <1>8 DEF RunInv
  <1>10. /\ run' \in [Matchers -> Runs]
         /\ \A n \in Matchers \ {m} : run'[n] = run[n]
         /\ \A n \in Matchers : RunInv(n)'
         /\ Distinct'
      BY <1>1, <1>2, <1>5, <1>7, <1>9, Goes
  <1>11. now.build \in 1 .. Len(builds) /\ now.build \in Counts
      BY <1>1, <1>2, <1>3, MatchAssumption DEF RunInv, Counts, IInv, TypeInv
  <1>12. recipients'.build = now.build /\ recipients' \in Outcome
      BY <1>1, <1>2
  <1>13. PairInv'
    <2>1. now.build \in 0 .. Len(builds')
        BY <1>1, <1>11
    <2>2. \A n \in Matchers : Running(n)' /\ run'[n].build = now.build => n = m
        BY <1>1, <1>2, <1>10 DEF IInv, Distinct, Running
    <2> QED
        BY <1>1, <1>2, <1>5, <1>8, <1>12, <2>1, <2>2 DEF PairInv
  <1>14. TypeInv'
      BY <1>1, <1>2, <1>10, <1>11, <1>12 DEF IInv, TypeInv
  <1> QED
      BY <1>10, <1>13, <1>14 DEF IInv

(* The first output alone: its build's row has the count of it.            *)
LEMMA WritesRecipients ==
  ASSUME IInv, NEW m \in Matchers, WriteRecipients(m)
  PROVE  IInv'
  <1>1. /\ run[m].pc = "compute" /\ Running(m)
        /\ recipients' \in Outcome /\ recipients'.build = run[m].build
        /\ UNCHANGED <<source, paid, stamp, view, recovered, corrections, chunks, unioned>>
      BY RecipientsType DEF WriteRecipients, Complete, Running, world, relations
  <1>2. PICK now \in Runs : now = run[m]
      BY DEF IInv, TypeInv
  <1>3. RunInv(m)
      BY DEF IInv
  <1>4. PICK u : u = [now EXCEPT !.pc = "union"]
      OBVIOUS
  <1>5. /\ u \in Runs /\ u.pc = "union" /\ u.policy = now.policy /\ u.versions = now.versions
        /\ u.build = now.build /\ u.size = now.size /\ u.prefix = now.prefix /\ u.inputs = now.inputs
      BY <1>4 DEF Runs, Pcs
  <1>6. run' = [run EXCEPT ![m] = u]
      BY <1>2, <1>4 DEF WriteRecipients
  <1>7. PICK b \in 1 .. Len(builds) : b = now.build /\ b \in Counts
      BY <1>1, <1>2, <1>3, MatchAssumption DEF RunInv, Counts, IInv, TypeInv
  <1>8. PICK old \in BuildRow : old = builds[b]
      BY DEF IInv, TypeInv
  <1>9. old.status = "started" /\ old.ug = None
      BY <1>1, <1>2, <1>3, <1>7, <1>8 DEF RunInv
  <1>10. PICK row : row = [old EXCEPT !.pg = b]
      OBVIOUS
  <1>11. row \in BuildRow /\ row.status = "started" /\ row.pg = b /\ row.ug = None
      BY <1>7, <1>9, <1>10 DEF BuildRow
  <1>12. builds' = [builds EXCEPT ![b] = row]
      BY <1>2, <1>7, <1>8, <1>10 DEF WriteRecipients
  <1>13. /\ builds' \in Seq(BuildRow) /\ Len(builds') = Len(builds) /\ builds'[b] = row
         /\ \A i \in 1 .. Len(builds) : i # b => builds'[i] = builds[i]
      BY <1>11, <1>12, RowWritten DEF IInv
  <1>14. Moved(m, u)
    <2>1. \A n \in Matchers \ {m} : Running(n) =>
             run[n].build \in 1 .. Len(builds) /\ run[n].build # b
        BY <1>1, <1>2, <1>7 DEF IInv, RunInv, Running, Distinct
    <2>2. \A n \in Matchers \ {m} : Running(n) => builds'[run[n].build] = builds[run[n].build]
        BY <1>13, <2>1
    <2>3. Len(builds) <= Len(builds') /\ Len(builds') \in Counts
        BY <1>13 DEF IInv, TypeInv, Counts
    <2> QED
        BY <1>1, <1>5, <1>6, <1>13, <2>2, <2>3 DEF Moved
  <1>15. run'[m] = u
      BY <1>14, MovedRuns
  <1>16. RunInv(m)'
      BY <1>1, <1>2, <1>3, <1>5, <1>7, <1>11, <1>13, <1>15 DEF RunInv
  <1>17. /\ run' \in [Matchers -> Runs]
         /\ \A n \in Matchers \ {m} : run'[n] = run[n]
         /\ \A n \in Matchers : RunInv(n)'
         /\ Distinct'
      BY <1>1, <1>2, <1>5, <1>14, <1>16, Goes
  <1>18. recipients'.build = b /\ recipients' \in Outcome
      BY <1>1, <1>2, <1>7
  <1>19. PairInv'
    <2>1. b \in 0 .. Len(builds') /\ b \in 1 .. Len(builds')
        BY <1>13
    <2>2. \A n \in Matchers : Running(n)' /\ run'[n].build = b => n = m
        BY <1>1, <1>2, <1>7, <1>17 DEF IInv, Distinct, Running
    <2> QED
        BY <1>5, <1>11, <1>13, <1>15, <1>18, <2>1, <2>2 DEF PairInv
  <1>20. TypeInv'
      BY <1>1, <1>13, <1>17, <1>18 DEF IInv, TypeInv
  <1> QED
      BY <1>17, <1>19, <1>20 DEF IInv

(* The union of whatever recipients are in place: the pair is one again.   *)
LEMMA WritesUnion ==
  ASSUME IInv, NEW m \in Matchers, WriteUnion(m)
  PROVE  IInv'
  <1>1. /\ run[m].pc = "union" /\ Running(m) /\ unioned' = recipients.build
        /\ UNCHANGED <<source, paid, stamp, view, recovered, corrections, chunks, recipients, builds>>
      BY DEF WriteUnion, Running, world, relations
  <1>2. PICK now \in Runs : now = run[m]
      BY DEF IInv, TypeInv
  <1>3. RunInv(m)
      BY DEF IInv
  <1>4. PICK u : u = [now EXCEPT !.pc = "finish"]
      OBVIOUS
  <1>5. /\ u \in Runs /\ u.pc = "finish" /\ u.policy = now.policy /\ u.versions = now.versions
        /\ u.build = now.build /\ u.size = now.size /\ u.prefix = now.prefix /\ u.inputs = now.inputs
      BY <1>4 DEF Runs, Pcs
  <1>6. run' = [run EXCEPT ![m] = u]
      BY <1>2, <1>4 DEF WriteUnion
  <1>7. Moved(m, u)
      BY <1>1, <1>5, <1>6 DEF Moved, IInv, TypeInv
  <1>8. run'[m] = u
      BY <1>7, MovedRuns
  <1>9. RunInv(m)'
      BY <1>1, <1>2, <1>3, <1>5, <1>8 DEF RunInv
  <1>10. /\ run' \in [Matchers -> Runs]
         /\ \A n \in Matchers \ {m} : run'[n] = run[n]
         /\ \A n \in Matchers : RunInv(n)'
         /\ Distinct'
      BY <1>1, <1>2, <1>5, <1>7, <1>9, Goes
  <1>11. PairInv'
    <2>1. \A n \in Matchers : Running(n)' /\ run'[n].build = recipients.build =>
            run'[n].pc \in {"union", "finish"}
        BY <1>1, <1>2, <1>5, <1>8, <1>10 DEF IInv, PairInv, Running
    <2> QED
        BY <1>1, <2>1 DEF IInv, PairInv
  <1>12. TypeInv'
      BY <1>1, <1>10 DEF IInv, TypeInv, Outcome
  <1> QED
      BY <1>10, <1>11, <1>12 DEF IInv

(* A build succeeds once its own outputs, or later ones, are a pair.       *)
LEMMA Finishes ==
  ASSUME IInv, NEW m \in Matchers, Finish(m)
  PROVE  IInv'
  <1>1. /\ run[m].pc = "finish" /\ Running(m) /\ run' = [run EXCEPT ![m] = Idle]
        /\ UNCHANGED <<source, paid, stamp, view, recovered, corrections, chunks, recipients, unioned>>
      BY DEF Finish, Running, world, relations, outputs
  <1>2. RunInv(m) /\ run[m] \in Runs
      BY DEF IInv, TypeInv
  <1>3. PICK b \in 1 .. Len(builds) : b = run[m].build /\ b \in Counts
      BY <1>1, <1>2, MatchAssumption DEF RunInv, Counts, IInv, TypeInv
  <1>4. PICK old \in BuildRow : old = builds[b]
      BY DEF IInv, TypeInv
  <1>5. PICK row : row = [old EXCEPT !.status = "success", !.pg = b, !.ug = b]
      OBVIOUS
  <1>6. row \in BuildRow
      BY <1>3, <1>5 DEF BuildRow
  <1>7. builds' = [builds EXCEPT ![b] = row]
      BY <1>3, <1>4, <1>5 DEF Finish
  <1>8. /\ builds' \in Seq(BuildRow) /\ Len(builds') = Len(builds) /\ builds'[b] = row
        /\ \A i \in 1 .. Len(builds) : i # b => builds'[i] = builds[i]
      BY <1>6, <1>7, RowWritten DEF IInv
  <1>9. Moved(m, Idle)
    <2>1. \A n \in Matchers \ {m} : Running(n) =>
             run[n].build \in 1 .. Len(builds) /\ run[n].build # b
        BY <1>1, <1>3 DEF IInv, RunInv, Running, Distinct
    <2>2. \A n \in Matchers \ {m} : Running(n) => builds'[run[n].build] = builds[run[n].build]
        BY <1>8, <2>1
    <2>3. Len(builds) <= Len(builds') /\ Len(builds') \in Counts
        BY <1>8 DEF IInv, TypeInv, Counts
    <2> QED
        BY <1>1, <1>8, <2>2, <2>3, IdleRun DEF Moved
  <1>10. run'[m] = Idle
      BY <1>9, MovedRuns
  <1>11. RunInv(m)'
      BY <1>10, IdleIsFine
  <1>12. /\ run' \in [Matchers -> Runs]
         /\ \A n \in Matchers \ {m} : run'[n] = run[n]
         /\ \A n \in Matchers : RunInv(n)'
         /\ Distinct'
      BY <1>9, <1>11, IdleRun, Goes
  <1>13. recipients.build = b => unioned = recipients.build
      BY <1>1, <1>3 DEF IInv, PairInv
  <1>14. recipients.build \in 1 .. Len(builds) /\ unioned # recipients.build =>
           builds'[recipients.build] = builds[recipients.build]
      BY <1>8, <1>13
  <1>15. PairInv'
      BY <1>1, <1>8, <1>9, <1>10, <1>12, <1>14, IdleRun, PairKept DEF IInv, PairInv, outputs
  <1>16. TypeInv'
      BY <1>1, <1>8, <1>12 DEF IInv, TypeInv
  <1> QED
      BY <1>12, <1>15, <1>16 DEF IInv

(* Loads, syncs and view commands leave the runs and the outputs alone.    *)
LEMMA WorldTypes ==
  ASSUME TypeInv, World
  PROVE  /\ source' \in [Sources -> SourceRow]
         /\ paid' \in [GrantsOf -> Nat] /\ stamp' \in [Derived -> {None} \cup [Sources -> Nat]]
         /\ view' = view \/ view' \in Policies
         /\ recovered' \in [Policies -> Nat] /\ corrections' \in Nat
         /\ UNCHANGED <<chunks, recipients, unioned, builds, run>>
  <1>1. ASSUME NEW s \in Sources, LoadBegins(s) \/ LoadEnds(s)
        PROVE  /\ source' \in [Sources -> SourceRow]
               /\ UNCHANGED <<paid, stamp, view, recovered, corrections, chunks, recipients, unioned, builds, run>>
    <2>1. PICK old \in SourceRow : old = source[s]
        BY DEF TypeInv
    <2>0. source \in [Sources -> SourceRow] /\ old.rows \in Nat /\ old.version \in Nat
        BY DEF TypeInv, SourceRow
    <2>2. CASE LoadBegins(s)
      <3>0. PICK rows \in Nat : rows = 2 * old.rows + 1
          BY <2>0
      <3>1. PICK new : new = [old EXCEPT !.rows = rows, !.loading = TRUE, !.shifted = TRUE]
          OBVIOUS
      <3>2. new \in SourceRow
          BY <3>1 DEF SourceRow
      <3>3. source' = [source EXCEPT ![s] = new]
          BY <2>1, <2>2, <3>0, <3>1 DEF LoadBegins
      <3>4. source' \in [Sources -> SourceRow]
          BY <2>0, <3>2, <3>3
      <3> QED
          BY <2>2, <3>4 DEF LoadBegins, outputs, relations
    <2>3. CASE LoadEnds(s)
      <3>1. PICK forced \in BOOLEAN : source' = [source EXCEPT ![s] = Loaded(source[s], forced)]
          BY <2>3 DEF LoadEnds
      <3>2. PICK version \in Nat : version = IF forced THEN old.version ELSE old.version + 1
          BY <2>0
      <3>0. PICK rows \in Nat : rows = old.rows + 1
          BY <2>0
      <3>3. PICK new : new = [old EXCEPT !.rows = rows, !.loading = FALSE, !.shifted = forced,
                                         !.version = version]
          OBVIOUS
      <3>4. new \in SourceRow
          BY <3>3 DEF SourceRow
      <3>5. source' = [source EXCEPT ![s] = new]
          BY <2>1, <3>0, <3>1, <3>2, <3>3 DEF Loaded
      <3>6. source' \in [Sources -> SourceRow]
          BY <2>0, <3>4, <3>5
      <3> QED
          BY <2>3, <3>6 DEF LoadEnds, outputs, relations
    <2> QED
        BY <1>1, <2>2, <2>3
  <1>2. ASSUME NEW d \in Derived, RefreshRelation(d)
        PROVE  /\ paid' \in [GrantsOf -> Nat] /\ stamp' \in [Derived -> {None} \cup [Sources -> Nat]]
               /\ UNCHANGED <<source, view, recovered, corrections, chunks, recipients, unioned, builds, run>>
      BY <1>2, BuildTypes DEF RefreshRelation, outputs, world
  <1>3. ASSUME NEW p \in Policies, Sync(p)
        PROVE  /\ recovered' \in [Policies -> Nat] /\ (view' = view \/ view' \in Policies)
               /\ UNCHANGED <<source, paid, stamp, corrections, chunks, recipients, unioned, builds, run>>
      BY <1>3 DEF Sync, TypeInv, outputs, relations
  <1>4. ASSUME NEW p \in Policies, ViewCommand(p)
        PROVE  /\ view' \in Policies
               /\ UNCHANGED <<source, paid, stamp, recovered, corrections, chunks, recipients, unioned, builds, run>>
      BY <1>4 DEF ViewCommand, outputs, relations
  <1>5. CASE EditCorrections
      BY <1>5 DEF EditCorrections, TypeInv, outputs, relations
  <1> QED
      BY <1>1, <1>2, <1>3, <1>4, <1>5 DEF World, TypeInv

(* Loads, refreshes, syncs and edits beside the runs disturb none of them. *)
LEMMA WorldKeeps ==
  ASSUME IInv, World
  PROVE  IInv'
  <1>1. /\ source' \in [Sources -> SourceRow]
        /\ paid' \in [GrantsOf -> Nat] /\ stamp' \in [Derived -> {None} \cup [Sources -> Nat]]
        /\ view' = view \/ view' \in Policies
        /\ recovered' \in [Policies -> Nat] /\ corrections' \in Nat
        /\ UNCHANGED <<chunks, recipients, unioned, builds, run>>
      BY WorldTypes DEF IInv
  <1>2. TypeInv'
      BY <1>1 DEF IInv, TypeInv
  <1>3. \A m \in Matchers : RunInv(m)'
      BY <1>1 DEF IInv, RunInv
  <1>4. Distinct' /\ PairInv'
      BY <1>1 DEF IInv, Distinct, PairInv, Running
  <1> QED
      BY <1>2, <1>3, <1>4 DEF IInv

-----------------------------------------------------------------------------
(* The invariant holds of a database no matcher has run on.                *)
LEMMA InitEstablishes ==
  ASSUME Init
  PROVE  IInv
  <1>1. TypeInv
    <2>1. source \in [Sources -> SourceRow]
        BY DEF Init, SourceRow
    <2>2. paid \in [GrantsOf -> Nat] /\ stamp \in [Derived -> {None} \cup [Sources -> Nat]]
        BY DEF Init
    <2>3. recipients \in Outcome /\ unioned \in Counts
        BY NoResults, MatchAssumption DEF Init, Counts, Outcome
    <2>4. builds \in Seq(BuildRow) /\ Len(builds) \in Counts
        BY MatchAssumption DEF Init, Counts
    <2>5. run \in [Matchers -> Runs]
        BY IdleRun DEF Init
    <2>6. \A k \in DOMAIN chunks : k \in Prefixes \X Chunks /\ chunks[k] \in Inputs
        BY NoResults DEF Init
    <2> QED
        BY <2>1, <2>2, <2>3, <2>4, <2>5, <2>6 DEF Init, TypeInv
  <1>2. \A m \in Matchers : run[m] = Idle
      BY DEF Init
  <1>3. (\A m \in Matchers : RunInv(m)) /\ Distinct
      BY <1>2, IdleRun DEF RunInv, Distinct, Running
  <1>4. PairInv
      BY <1>2, IdleRun DEF Init, PairInv, Running
  <1> QED
      BY <1>1, <1>3, <1>4 DEF IInv

(* Every step keeps the invariant, whatever runs together with it.         *)
LEMMA StepPreserves ==
  ASSUME IInv, [Next]_vars
  PROVE  IInv'
  <1>1. ASSUME NEW m \in Matchers, Step(m)
        PROVE  IInv'
    <2>1. CASE Raise(m)
        BY <2>1, Fails DEF Raise, world, relations, outputs
    <2> QED
        BY <1>1, <2>1, Starts, Bookkeeps, Rebuilds, Viewing, ReadsUniverse, ReadsGrants, Lists, Computes,
           WritesBoth, WritesRecipients, WritesUnion, Finishes, Killing DEF Step
  <1>2. CASE World
      BY <1>2, WorldKeeps
  <1>3. CASE UNCHANGED vars
    <2>1. UNCHANGED <<source, paid, stamp, view, recovered, corrections, chunks, recipients, unioned, builds, run>>
        BY <1>3 DEF vars
    <2>2. TypeInv'
        BY <2>1 DEF IInv, TypeInv
    <2>3. (\A m \in Matchers : RunInv(m)') /\ Distinct' /\ PairInv'
        BY <2>1 DEF IInv, RunInv, Distinct, PairInv, Running
    <2> QED
        BY <2>2, <2>3 DEF IInv
  <1> QED
      BY <1>1, <1>2, <1>3 DEF Next

(* The invariant holds throughout.                                         *)
LEMMA Invariance == Spec => []IInv
  BY InitEstablishes, StepPreserves, PTL DEF Spec

(* Whatever the runs, the loads and the syncs do, the tables, checkpoints, *)
(* build rows and runs are of their types.                                 *)
THEOREM RunsWellTyped == Spec => []TypeOK
  <1>1. ASSUME IInv
        PROVE  TypeOK
    <2>1. \A f \in Results : DOMAIN f \subseteq Chunks /\ \A c \in DOMAIN f : f[c] \in Inputs
        BY ResultsAre
    <2>2. \A m \in Matchers : run[m] \in Runs
        BY <1>1 DEF IInv, TypeInv
    <2>3. \A m \in Matchers :
            /\ run[m].prefix \in {None} \cup Prefixes
            /\ run[m].policy \in {None} \cup Policies
            /\ run[m].to_build \subseteq Derived
            /\ run[m].results \in Results
        BY <2>2 DEF Runs
    <2>4. /\ recipients.matches \in Results /\ recipients.build \in Counts
          /\ recipients.joined \in {None} \cup Joins
        BY <1>1 DEF IInv, TypeInv, Outcome
    <2>5. \A c \in DOMAIN recipients.matches : c \in Chunks /\ recipients.matches[c] \in Inputs
        BY <2>1, <2>4
    <2> QED
        BY <1>1, <2>1, <2>3, <2>4, <2>5 DEF IInv, TypeInv, TypeOK, SourceRow
  <1> QED
      BY <1>1, Invariance, PTL

(* The two output tables are of one build, or the row of the build whose   *)
(* recipients are in place says that it got no further, however many runs  *)
(* are killed, fail or go on beside each other.                            *)
THEOREM OutputsArePaired == Spec => []OutputsAreOnePair
  <1>1. IInv => OutputsAreOnePair
      BY DEF IInv, PairInv, OutputsAreOnePair
  <1> QED
      BY <1>1, Invariance, PTL

-----------------------------------------------------------------------------
(* Nothing commits beside a matcher but view commands and other matchers.  *)
Undisturbed == ~Concurrent

(* A source is as it was, or shifted under its version, or at a later one. *)
SourcesGoOn ==
  \A s \in Sources :
    \/ source'[s] = source[s]
    \/ source'[s].version = source[s].version /\ source'[s].shifted
    \/ source'[s].version = source[s].version + 1

(* A load takes its source to a later version, or shifts its rows.         *)
LEMMA LoadsGoOn ==
  ASSUME TypeInv, NEW s \in Sources, LoadBegins(s) \/ LoadEnds(s)
  PROVE  SourcesGoOn
  <1>1. PICK old \in SourceRow : old = source[s]
      BY DEF TypeInv
  <1>2. CASE LoadBegins(s)
    <2>1. source' = [source EXCEPT ![s] = [old EXCEPT !.rows = 2 * @ + 1, !.loading = TRUE,
                                                      !.shifted = TRUE]]
        BY <1>1, <1>2 DEF LoadBegins
    <2>2. PICK new : new = [old EXCEPT !.rows = 2 * @ + 1, !.loading = TRUE, !.shifted = TRUE]
        OBVIOUS
    <2>3. new.version = old.version /\ new.shifted
        BY <2>2 DEF SourceRow
    <2>4. source' = [source EXCEPT ![s] = new]
        BY <2>1, <2>2
    <2> QED
        BY <1>1, <2>3, <2>4 DEF SourcesGoOn, TypeInv
  <1>3. CASE LoadEnds(s)
    <2>1. PICK forced \in BOOLEAN : source' = [source EXCEPT ![s] = Loaded(source[s], forced)]
        BY <1>3 DEF LoadEnds
    <2>2. PICK new : new = Loaded(old, forced)
        OBVIOUS
    <2>3. (new.version = old.version /\ new.shifted) \/ new.version = old.version + 1
        BY <2>2 DEF SourceRow, Loaded
    <2>4. source' = [source EXCEPT ![s] = new]
        BY <1>1, <2>1, <2>2
    <2> QED
        BY <1>1, <2>3, <2>4 DEF SourcesGoOn, TypeInv
  <1> QED
      BY <1>2, <1>3

(* What a prefix names it goes on naming.                                  *)
LEMMA NamesKept ==
  ASSUME TypeInv, SourcesGoOn, NEW prefix \in Prefixes, NEW inputs \in Inputs,
         Names(prefix, inputs)
  PROVE  Names(prefix, inputs)'
  <1>1. ASSUME NEW s \in Sources
        PROVE  /\ prefix.versions[s] <= source'[s].version
               /\ prefix.versions[s] = source'[s].version /\ ~source'[s].shifted =>
                    /\ s \in Direct => inputs.direct[s] = source'[s].rows
                    /\ s \in GrantsOf => inputs.grants[s] = source'[s].rows
    <2>1. prefix.versions[s] \in Nat /\ source[s].version \in Nat
        BY DEF Prefixes, TypeInv, SourceRow
    <2>2. /\ prefix.versions[s] <= source[s].version
          /\ prefix.versions[s] = source[s].version /\ ~source[s].shifted =>
                    /\ s \in Direct => inputs.direct[s] = source[s].rows
                    /\ s \in GrantsOf => inputs.grants[s] = source[s].rows
        BY DEF Names, AreTheRows
    <2> QED
        BY <2>1, <2>2 DEF SourcesGoOn
  <1> QED
      BY <1>1 DEF Names, AreTheRows

(* Chunks on disk stay what their prefix names while versions only grow.   *)
LEMMA ChunksKept ==
  ASSUME TypeInv, SourcesGoOn, ChunkInv, UNCHANGED chunks
  PROVE  ChunkInv'
  <1>1. ASSUME NEW k \in DOMAIN chunks
        PROVE  Names(k[1], chunks[k])'
    <2>1. PICK prefix \in Prefixes, c \in Chunks : k = <<prefix, c>>
        BY DEF TypeInv
    <2>2. k[1] = prefix
        BY <2>1
    <2>3. PICK inputs \in Inputs : inputs = chunks[k]
        BY DEF TypeInv
    <2>4. Names(prefix, inputs)
        BY <2>2, <2>3 DEF ChunkInv
    <2>5. Names(prefix, inputs)'
        BY <2>4, NamesKept
    <2>6. chunks'[k] = inputs
        BY <2>3
    <2> QED
        BY <2>2, <2>5, <2>6
  <1> QED
      BY <1>1 DEF ChunkInv

(* A relation stays what its stamp names while versions only grow.         *)
LEMMA StampsKept ==
  ASSUME TypeInv, SourcesGoOn, StampInv, UNCHANGED <<paid, stamp>>
  PROVE  StampInv'
  <1>1. ASSUME NEW s \in GrantsOf, stamp[Paid] # None
        PROVE  /\ stamp[Paid][s] <= source'[s].version
               /\ stamp[Paid][s] = source'[s].version /\ ~source'[s].shifted =>
                    paid[s] = source'[s].rows
    <2>1. stamp[Paid][s] \in Nat /\ source[s].version \in Nat /\ s \in Sources
        BY <1>1, MatchAssumption DEF TypeInv, Sources, SourceRow
    <2> QED
        BY <1>1, <2>1 DEF SourcesGoOn, StampInv
  <1> QED
      BY <1>1 DEF StampInv

(* While its versions are those there are, a prefix names one set of rows. *)
LEMMA OneSetOfRows ==
  ASSUME NEW prefix, NEW one \in Inputs, NEW other \in Inputs,
         Names(prefix, one), Names(prefix, other), prefix.versions = Versions
  PROVE  SameRows(one, other)
  <1>1. \A s \in Sources : ~source[s].shifted => AreTheRows(one, s) /\ AreTheRows(other, s)
      BY DEF Names, Versions
  <1> QED
      BY <1>1 DEF Names, SameRows, AreTheRows

-----------------------------------------------------------------------------
(* Whether a prefix names given inputs rests on the sources alone.         *)
LEMMA NamesStay ==
  ASSUME NEW prefix, NEW inputs, UNCHANGED source, Names(prefix, inputs)
  PROVE  Names(prefix, inputs)'
  BY DEF Names, AreTheRows

(* What a run wrote stays while its sources do, until others write over it.*)
LEMMA JoinStays ==
  ASSUME NEW n \in Matchers, JoinNamed(n), run'[n] = run[n], UNCHANGED source,
         Running(n) => UNCHANGED recipients \/ recipients'.build # run[n].build
  PROVE  JoinNamed(n)'
  <1>1. CASE ~Running(n)
      BY <1>1 DEF JoinNamed, Writing, Running
  <1>2. CASE UNCHANGED recipients
      BY <1>2 DEF JoinNamed, Writing
  <1>3. CASE recipients'.build # run[n].build
      BY <1>3 DEF JoinNamed, Writing
  <1> QED
      BY <1>1, <1>2, <1>3

(* A run that stays where it is, its build row and what it reads.          *)
LEMMA RunStays ==
  ASSUME NEW n \in Matchers, NamedRun(n), run'[n] = run[n],
         UNCHANGED <<source, recovered, corrections>>,
         Running(n) => builds'[run[n].build] = builds[run[n].build],
         Running(n) => UNCHANGED recipients \/ recipients'.build # run[n].build,
         Fresh => Fresh', Reading(n) => UNCHANGED view
  PROVE  NamedRun(n)'
  <1>1. PICK r : r = run[n]
      OBVIOUS
  <1>2. Versions' = Versions /\ (r.prefix = Prefix(n) => r.prefix = Prefix(n)')
      BY <1>1 DEF Versions, Prefix
  <1>4. /\ r.pc \notin {"idle", "bookkeeping"} => r.versions = Versions'
        /\ r.pc \notin {"idle", "bookkeeping", "rebuild"} =>
             /\ r.prefix = Prefix(n)'
             /\ builds'[r.build].recovered = [policy |-> r.policy, digest |-> recovered'[r.policy]]
             /\ Fresh'
      BY <1>1, <1>2 DEF NamedRun, Running
  <1>5. /\ r.pc \in {"universe", "grants"} => view' = r.policy /\ r.inputs.corrections = corrections'
        /\ r.pc = "grants" => \A s \in Direct : r.inputs.direct[s] = source'[s].rows
      BY <1>1 DEF NamedRun, Reading
  <1>6. /\ r.pc \in {"list", "compute", "union", "finish"} => Names(r.prefix, r.inputs)
        /\ r.pc \notin {"compute", "union", "finish"} => DOMAIN r.results = {}
        /\ \A c \in DOMAIN r.results : SameRows(r.results[c], r.inputs)
        /\ JoinNamed(n)
      BY <1>1 DEF NamedRun
  <1>7. r.pc \in {"list", "compute", "union", "finish"} => Names(run[n].prefix, run[n].inputs)'
    <2>1. ASSUME r.pc \in {"list", "compute", "union", "finish"}
          PROVE  Names(run[n].prefix, run[n].inputs)'
      <3>1. PICK prefix, inputs : prefix = r.prefix /\ inputs = r.inputs
          OBVIOUS
      <3>2. Names(prefix, inputs)'
          BY <1>6, <2>1, <3>1, NamesStay
      <3>3. run'[n].prefix = prefix /\ run'[n].inputs = inputs
          BY <1>1, <3>1
      <3> QED
          BY <3>2, <3>3 DEF Names, AreTheRows
    <2> QED
        BY <2>1
  <1>8. run'[n] = r
      BY <1>1
  <1>9. \A c \in DOMAIN run'[n].results : SameRows(run[n].results[c], run[n].inputs)'
      BY <1>1, <1>6, <1>8 DEF SameRows
  <1>10. JoinNamed(n)'
      BY <1>6, JoinStays
  <1> QED
      BY <1>4, <1>5, <1>6, <1>7, <1>8, <1>9, <1>10 DEF NamedRun

(* A matcher beside the one that moves reads what it read before.          *)
LEMMA OthersNamed ==
  ASSUME IInv, NamedInv, NEW m \in Matchers, NEW n \in Matchers, n # m, run'[n] = run[n],
         UNCHANGED <<source, recovered, corrections>>, Running(m),
         \A i \in 1 .. Len(builds) : i # run[m].build => builds'[i] = builds[i],
         UNCHANGED recipients \/ recipients'.build = run[m].build,
         Fresh => Fresh', Reading(n) => UNCHANGED view
  PROVE  NamedRun(n)'
  <1>1. NamedRun(n) /\ RunInv(n)
      BY DEF NamedInv, IInv
  <1>2. Running(n) => builds'[run[n].build] = builds[run[n].build]
      BY <1>1 DEF IInv, RunInv, Distinct, Running
  <1>3. Running(n) => UNCHANGED recipients \/ recipients'.build # run[n].build
      BY DEF IInv, Distinct
  <1> QED
      BY <1>1, <1>2, <1>3, RunStays

(* Nothing a matcher does touches the sources and what they are loaded on. *)
LEMMA StandingStill ==
  ASSUME UNCHANGED source
  PROVE  SourcesGoOn
  BY DEF SourcesGoOn

(* Rows left alone stay those of their sources.                            *)
LEMMA FreshStays ==
  ASSUME UNCHANGED <<source, paid>>, Fresh
  PROVE  Fresh'
  BY DEF Fresh

(* A step of one matcher that leaves relations and checkpoints alone.      *)
LEMMA OneMoves ==
  ASSUME IInv, NamedInv, NEW m \in Matchers, Running(m),
         UNCHANGED <<source, recovered, corrections, paid, stamp, chunks>>,
         \A n \in Matchers \ {m} : run'[n] = run[n],
         \A i \in 1 .. Len(builds) : i # run[m].build => builds'[i] = builds[i],
         UNCHANGED recipients \/ recipients'.build = run[m].build,
         (\E n \in Matchers : Reading(n)) => UNCHANGED view,
         NamedRun(m)'
  PROVE  NamedInv'
  <1>1. StampInv'
      BY StampsKept, StandingStill DEF IInv, NamedInv
  <1>2. ChunkInv'
      BY ChunksKept, StandingStill DEF IInv, NamedInv
  <1>3. ASSUME NEW n \in Matchers, n # m
        PROVE  NamedRun(n)'
      BY <1>3, OthersNamed, FreshStays
  <1> QED
      BY <1>1, <1>2, <1>3 DEF NamedInv

(* A matcher between runs names nothing.                                   *)
LEMMA IdleNamed ==
  ASSUME NEW m \in Matchers
  PROVE  run'[m] = Idle => NamedRun(m)'
  BY IdleRun DEF NamedRun, JoinNamed, Writing

(* The row of its build is all a failing run writes.                       *)
LEMMA FailsNamed ==
  ASSUME IInv, NamedInv, NEW m \in Matchers, Running(m), Failed(m),
         UNCHANGED <<source, recovered, corrections, paid, stamp, chunks, view, recipients>>
  PROVE  NamedInv'
  <1>1. run' = [run EXCEPT ![m] = Idle] /\ run \in [Matchers -> Runs]
      BY DEF Failed, IInv, TypeInv
  <1>2. run'[m] = Idle /\ \A n \in Matchers \ {m} : run'[n] = run[n]
      BY <1>1
  <1>3. \A i \in 1 .. Len(builds) : i # run[m].build => builds'[i] = builds[i]
      BY DEF Failed, IInv, TypeInv
  <1> QED
      BY <1>2, <1>3, IdleNamed, OneMoves

(* A run that starts has read nothing yet.                                 *)
LEMMA StartsNamed ==
  ASSUME IInv, NamedInv, NEW m \in Matchers, Start(m)
  PROVE  NamedInv'
  <1>1. /\ ~Running(m)
        /\ UNCHANGED <<source, recovered, corrections, paid, stamp, chunks, view, recipients>>
      BY DEF Start, world, relations, outputs
  <1>2. PICK o \in Options : run' = [run EXCEPT ![m] = Begun(Len(builds) + 1, o)]
      BY DEF Start
  <1>3. PICK u : u = Begun(Len(builds) + 1, o)
      OBVIOUS
  <1>4. u.pc = "bookkeeping" /\ u.results = <<>>
      BY <1>3 DEF Begun, Idle
  <1>5. run'[m] = u /\ \A n \in Matchers \ {m} : run'[n] = run[n]
      BY <1>2, <1>3 DEF IInv, TypeInv
  <1>6. NamedRun(m)'
      BY <1>1, <1>4, <1>5, NoResults DEF NamedRun, JoinNamed, Writing
  <1>7. \A i \in 1 .. Len(builds) : builds'[i] = builds[i]
    <2>1. PICK row : builds' = Append(builds, row)
        BY DEF Start
    <2> QED
        BY <2>1 DEF IInv, TypeInv
  <1>8. ASSUME NEW n \in Matchers, n # m
        PROVE  NamedRun(n)'
    <2>1. NamedRun(n) /\ RunInv(n) /\ run'[n] = run[n]
        BY <1>5, <1>8 DEF NamedInv, IInv
    <2>2. Running(n) => builds'[run[n].build] = builds[run[n].build]
        BY <1>7, <2>1 DEF RunInv, Running
    <2> QED
        BY <1>1, <2>1, <2>2, RunStays, FreshStays
  <1> QED
      BY <1>1, <1>6, <1>8, StampsKept, ChunksKept, StandingStill DEF NamedInv, IInv

(* Build rows do not change what a run's prefix names.                     *)
LEMMA BookkeepsNamed ==
  ASSUME IInv, NamedInv, NEW m \in Matchers, Bookkeeping(m)
  PROVE  NamedInv'
  <1>1. /\ run[m].pc = "bookkeeping" /\ Running(m)
        /\ UNCHANGED <<source, paid, stamp, view, recovered, corrections, chunks, recipients>>
      BY DEF Bookkeeping, Running, world, relations, outputs
  <1>2. PICK now \in Runs : now = run[m]
      BY DEF IInv, TypeInv
  <1>3. PICK policy : policy = PolicyOf(view, run[m].policy)
      OBVIOUS
  <1>4. CASE policy = None
      BY <1>1, <1>3, <1>4, FailsNamed DEF Bookkeeping
  <1>5. CASE policy # None
    <2>1. PICK todo : todo = IF run[m].skip_rebuild THEN WithDependents(Unstamped(Versions)) ELSE Derived
        OBVIOUS
    <2>2. PICK u : u = [now EXCEPT !.pc = "rebuild", !.policy = policy, !.versions = Versions,
                                   !.to_build = todo]
        OBVIOUS
    <2>3. u.pc = "rebuild" /\ u.versions = Versions /\ u.results = now.results /\ u.inputs = now.inputs
        BY <2>2 DEF Runs
    <2>4. run' = [run EXCEPT ![m] = u] /\ UNCHANGED builds
        BY <1>2, <1>3, <1>5, <2>1, <2>2 DEF Bookkeeping
    <2>5. run'[m] = u /\ \A n \in Matchers \ {m} : run'[n] = run[n]
        BY <2>4 DEF IInv, TypeInv
    <2>6. Versions' = Versions
        BY <1>1 DEF Versions
    <2>7. NamedRun(m)
        BY DEF NamedInv
    <2>8. NamedRun(m)'
        BY <1>1, <1>2, <2>3, <2>5, <2>6, <2>7 DEF NamedRun, JoinNamed, Writing
    <2> QED
        BY <1>1, <2>4, <2>5, <2>8, OneMoves
  <1> QED
      BY <1>4, <1>5

(* privategrants_current is built from the rows there are.                 *)
LEMMA BuildsFresh ==
  ASSUME NEW d, NEW versions, Builds(d, versions), UNCHANGED source, Fresh
  PROVE  Fresh'
  BY DEF Builds, Fresh, StagingOf

(* And is stamped, if at all, with the versions there are.                 *)
LEMMA BuildsStamped ==
  ASSUME TypeInv, StampInv, NEW d \in Derived, NEW versions \in {None, Versions},
         Builds(d, versions), UNCHANGED source
  PROVE  StampInv'
  <1>1. stamp' = [stamp EXCEPT ![d] = versions] /\ stamp \in [Derived -> {None} \cup [Sources -> Nat]]
      BY DEF Builds, TypeInv
  <1>2. Paid \in Derived
      BY MatchAssumption
  <1>3. CASE d = Paid
    <2>1. stamp'[Paid] = versions /\ paid' = StagingOf
        BY <1>1, <1>2, <1>3 DEF Builds
    <2>2. ASSUME NEW s \in GrantsOf, versions # None
          PROVE  /\ versions[s] <= source[s].version
                 /\ paid'[s] = source[s].rows
      <3>1. s \in Sources /\ source[s].version \in Nat
          BY DEF Sources, TypeInv, SourceRow
      <3> QED
          BY <2>1, <2>2, <3>1 DEF Versions, StagingOf
    <2> QED
        BY <2>1, <2>2 DEF StampInv
  <1>4. CASE d # Paid
    <2>1. stamp'[Paid] = stamp[Paid] /\ paid' = paid
        BY <1>1, <1>2, <1>4 DEF Builds
    <2> QED
        BY <2>1 DEF StampInv
  <1> QED
      BY <1>3, <1>4

(* A rebuilt relation is made of the sources its stamp names.              *)
LEMMA RebuildsNamed ==
  ASSUME IInv, NamedInv, NEW m \in Matchers, NEW d \in Derived, Rebuild(m, d)
  PROVE  NamedInv'
  <1>1. /\ run[m].pc = "rebuild" /\ Running(m)
        /\ UNCHANGED <<source, recovered, corrections, chunks, builds, recipients>>
      BY DEF Rebuild, Running, world, outputs
  <1>2. PICK now \in Runs : now = run[m]
      BY DEF IInv, TypeInv
  <1>3. NamedRun(m)
      BY DEF NamedInv
  <1>4. now.versions = Versions
      BY <1>1, <1>2, <1>3 DEF NamedRun
  <1>5. PICK u : u = [now EXCEPT !.to_build = @ \ {d}]
      OBVIOUS
  <1>6. u.pc = now.pc /\ u.versions = now.versions /\ u.results = now.results /\ u.inputs = now.inputs
      BY <1>5 DEF Runs
  <1>7. run' = [run EXCEPT ![m] = u]
      BY <1>2, <1>5 DEF Rebuild
  <1>8. run'[m] = u /\ \A n \in Matchers \ {m} : run'[n] = run[n]
      BY <1>7 DEF IInv, TypeInv
  <1>9. Versions' = Versions
      BY <1>1 DEF Versions
  <1>10. NamedRun(m)'
      BY <1>1, <1>2, <1>3, <1>6, <1>8, <1>9 DEF NamedRun, JoinNamed, Writing
  <1>11. Builds(d, Versions)
      BY <1>2, <1>4 DEF Rebuild
  <1>12. (\E n \in Matchers : Reading(n)) => UNCHANGED view
      BY <1>11, MatchAssumption DEF Rebuild, Builds, ViewAfter, Unread
  <1>13. ASSUME NEW n \in Matchers, n # m
         PROVE  NamedRun(n)'
    <2>1. \A i \in 1 .. Len(builds) : i # run[m].build => builds'[i] = builds[i]
        BY <1>1
    <2> QED
        BY <1>1, <1>8, <1>11, <1>12, <1>13, <2>1, BuildsFresh, OthersNamed
  <1>14. StampInv'
      BY <1>1, <1>9, <1>11, BuildsStamped DEF IInv, NamedInv
  <1> QED
      BY <1>1, <1>10, <1>13, <1>14, ChunksKept, StandingStill DEF NamedInv, IInv

(* Versions are never the None of a stamp without them.                    *)
LEMMA NoNamesAreNone ==
  ASSUME TypeInv
  PROVE  Versions # None
  BY VersionsType, MatchAssumption

(* The views show the output of one prefix.                                *)
LEMMA ViewsNamed ==
  ASSUME IInv, NamedInv, NEW m \in Matchers, Views(m)
  PROVE  NamedInv'
  <1>1. /\ run[m].pc = "rebuild" /\ Running(m)
        /\ UNCHANGED <<source, paid, stamp, recovered, corrections, chunks, recipients>>
      BY DEF Views, Running, world, relations, outputs
  <1>2. PICK now \in Runs : now = run[m]
      BY DEF IInv, TypeInv
  <1>3. NamedRun(m) /\ RunInv(m)
      BY DEF NamedInv, IInv
  <1>4. /\ now.versions = Versions /\ now.policy \in Policies /\ DOMAIN now.results = {}
      BY <1>1, <1>2, <1>3 DEF NamedRun, RunInv
  <1>5. PICK policy : policy = PolicyOf(view, run[m].policy)
      OBVIOUS
  <1>6. CASE ~Checked(m) \/ policy = None
    <2>1. Failed(m) /\ UNCHANGED view
        BY <1>5, <1>6 DEF Views
    <2> QED
        BY <1>1, <2>1, FailsNamed
  <1>7. CASE Checked(m) /\ policy # None
    <2>1. view' = policy /\ StampRecovered(m)
          /\ run' = [run EXCEPT ![m].pc = "universe", ![m].prefix = Prefix(m),
                                ![m].inputs = LoadCorrections]
        BY <1>5, <1>7 DEF Views
    <2>2. policy = now.policy /\ (view # None => view = policy)
        BY <1>2, <1>4, <1>5, <1>7, PolicyType, MatchAssumption DEF IInv, TypeInv
    <2>3. PICK prefix : prefix = Prefix(m)
        OBVIOUS
    <2>4. PICK u : u = [now EXCEPT !.pc = "universe", !.prefix = prefix, !.inputs = LoadCorrections]
        OBVIOUS
    <2>5. /\ u.pc = "universe" /\ u.policy = now.policy /\ u.versions = now.versions
          /\ u.build = now.build /\ u.prefix = prefix /\ u.inputs = LoadCorrections
          /\ u.results = now.results /\ u.limit = now.limit
        BY <2>4 DEF Runs
    <2>6. run' = [run EXCEPT ![m] = u]
        BY <1>2, <2>1, <2>3, <2>4
    <2>7. run'[m] = u /\ \A n \in Matchers \ {m} : run'[n] = run[n]
        BY <2>6 DEF IInv, TypeInv
    <2>8. PICK b \in 1 .. Len(builds) : b = now.build
        BY <1>1, <1>2, <1>3 DEF RunInv
    <2>9. PICK note : note = [policy |-> now.policy, digest |-> recovered[now.policy]]
        OBVIOUS
    <2>10. builds' = [builds EXCEPT ![b].recovered = note]
        BY <1>2, <2>1, <2>8, <2>9 DEF StampRecovered
    <2>11. PICK old \in BuildRow : old = builds[b]
        BY DEF IInv, TypeInv
    <2>12. PICK row : row = [old EXCEPT !.recovered = note]
        OBVIOUS
    <2>13. row.recovered = note
        BY <2>12 DEF BuildRow
    <2>14. builds' = [builds EXCEPT ![b] = row]
        BY <2>10, <2>11, <2>12
    <2>15. builds'[b] = row /\ \A i \in 1 .. Len(builds) : i # b => builds'[i] = builds[i]
        BY <2>14 DEF IInv, TypeInv
    <2>16. Versions' = Versions /\ prefix = Prefix(m)'
        BY <1>1, <1>2, <2>3, <2>5, <2>7 DEF Versions, Prefix
    <2>17. Fresh'
      <3>1. stamp[Paid] = Versions
          BY <1>2, <1>4, <1>7, MatchAssumption DEF Checked, Unstamped
      <3>2. Versions # None /\ \A s \in GrantsOf : Versions[s] = source[s].version
          BY NoNamesAreNone DEF IInv, Versions, Sources
      <3>3. Fresh
          BY <3>1, <3>2 DEF NamedInv, StampInv, Fresh
      <3> QED
          BY <1>1, <3>3, FreshStays
    <2>18. u.inputs.corrections = corrections'
        BY <1>1, <2>5 DEF LoadCorrections
    <2>19. /\ builds'[u.build].recovered = [policy |-> u.policy, digest |-> recovered'[u.policy]]
           /\ view' = u.policy
        BY <1>1, <2>1, <2>2, <2>5, <2>8, <2>9, <2>13, <2>15
    <2>20. NamedRun(m)'
        BY <1>1, <1>4, <2>5, <2>7, <2>16, <2>17, <2>18, <2>19 DEF NamedRun, JoinNamed, Writing
    <2>21. ASSUME NEW n \in Matchers, Reading(n)
           PROVE  UNCHANGED view
      <3>1. view \in Policies
          BY <2>21 DEF Reading, IInv, RunInv
      <3> QED
          BY <2>1, <2>2, <3>1, MatchAssumption
    <2>22. \A i \in 1 .. Len(builds) : i # run[m].build => builds'[i] = builds[i]
        BY <1>2, <2>8, <2>15
    <2> QED
        BY <1>1, <2>7, <2>20, <2>21, <2>22, OneMoves
  <1> QED
      BY <1>6, <1>7

(* The universe a run reads is the one its prefix names.                   *)
LEMMA ReadsUniverseNamed ==
  ASSUME IInv, NamedInv, NEW m \in Matchers, ReadUniverse(m)
  PROVE  NamedInv'
  <1>1. /\ run[m].pc = "universe" /\ Running(m)
        /\ UNCHANGED <<source, paid, stamp, view, recovered, corrections, chunks, builds, recipients>>
      BY DEF ReadUniverse, Running, world, relations, outputs
  <1>2. PICK now \in Runs : now = run[m]
      BY DEF IInv, TypeInv
  <1>3. NamedRun(m)
      BY DEF NamedInv
  <1>4. PICK inputs : inputs = [corrections |-> now.inputs.corrections,
                                direct |-> [s \in Direct |-> source[s].rows]]
      OBVIOUS
  <1>5. PICK u : u = [now EXCEPT !.pc = "grants", !.inputs = inputs]
      OBVIOUS
  <1>6. /\ u.pc = "grants" /\ u.policy = now.policy /\ u.versions = now.versions
        /\ u.build = now.build /\ u.prefix = now.prefix /\ u.inputs = inputs
        /\ u.results = now.results /\ u.limit = now.limit
      BY <1>5 DEF Runs
  <1>7. run' = [run EXCEPT ![m] = u]
      BY <1>2, <1>4, <1>5 DEF ReadUniverse
  <1>8. run'[m] = u /\ \A n \in Matchers \ {m} : run'[n] = run[n]
      BY <1>7 DEF IInv, TypeInv
  <1>9. Versions' = Versions /\ (now.prefix = Prefix(m) => u.prefix = Prefix(m)')
      BY <1>1, <1>2, <1>6, <1>8 DEF Versions, Prefix
  <1>10. inputs.corrections = now.inputs.corrections /\ \A s \in Direct : inputs.direct[s] = source[s].rows
      BY <1>4
  <1>11. DOMAIN now.results = {}
      BY <1>1, <1>2, <1>3 DEF NamedRun
  <1>12. NamedRun(m)'
      BY <1>1, <1>2, <1>3, <1>6, <1>8, <1>9, <1>10, <1>11, FreshStays DEF NamedRun, JoinNamed, Writing
  <1> QED
      BY <1>1, <1>8, <1>12, OneMoves

(* The grants a run reads are the ones its prefix names.                   *)
LEMMA ReadsGrantsNamed ==
  ASSUME IInv, NamedInv, NEW m \in Matchers, ReadGrants(m)
  PROVE  NamedInv'
  <1>1. /\ run[m].pc = "grants" /\ Running(m)
        /\ UNCHANGED <<source, paid, stamp, view, recovered, corrections, chunks, builds, recipients>>
      BY DEF ReadGrants, Running, world, relations, outputs
  <1>2. PICK now \in Runs : now = run[m]
      BY DEF IInv, TypeInv
  <1>3. NamedRun(m) /\ RunInv(m)
      BY DEF NamedInv, IInv
  <1>4. PICK inputs : inputs = [corrections |-> now.inputs.corrections, direct |-> now.inputs.direct,
                                grants |-> paid, policy |-> view, recovered |-> recovered[view],
                                limit |-> now.limit, size |-> now.size]
      OBVIOUS
  <1>5. PICK u : u = [now EXCEPT !.pc = "list", !.inputs = inputs]
      OBVIOUS
  <1>6. /\ u.pc = "list" /\ u.policy = now.policy /\ u.versions = now.versions
        /\ u.build = now.build /\ u.prefix = now.prefix /\ u.inputs = inputs
        /\ u.results = now.results /\ u.limit = now.limit
      BY <1>5 DEF Runs
  <1>7. run' = [run EXCEPT ![m] = u]
      BY <1>2, <1>4, <1>5 DEF ReadGrants
  <1>8. run'[m] = u /\ \A n \in Matchers \ {m} : run'[n] = run[n]
      BY <1>7 DEF IInv, TypeInv
  <1>9. Versions' = Versions /\ (now.prefix = Prefix(m) => u.prefix = Prefix(m)')
      BY <1>1, <1>2, <1>6, <1>8 DEF Versions, Prefix
  <1>10. /\ now.prefix = Prefix(m) /\ now.versions = Versions /\ view = now.policy
         /\ Fresh
         /\ now.inputs.corrections = corrections
         /\ \A s \in Direct : now.inputs.direct[s] = source[s].rows
         /\ DOMAIN now.results = {}
      BY <1>1, <1>2, <1>3 DEF NamedRun
  <1>11. PICK prefix : prefix = now.prefix
      OBVIOUS
  <1>12. Names(prefix, inputs)
    <2>1. /\ inputs.corrections = prefix.corrections /\ inputs.policy = prefix.policy
          /\ inputs.recovered = prefix.digest /\ inputs.limit = prefix.limit
        BY <1>2, <1>4, <1>10, <1>11 DEF Prefix
    <2>2. prefix.versions = Versions
        BY <1>2, <1>10, <1>11 DEF Prefix
    <2>3. ASSUME NEW s \in Sources
          PROVE  /\ prefix.versions[s] <= source[s].version
                 /\ ~source[s].shifted => AreTheRows(inputs, s)
      <3>1. prefix.versions[s] = source[s].version /\ source[s].version \in Nat
          BY <2>2 DEF Versions, IInv, TypeInv, SourceRow
      <3>2. ~source[s].shifted => AreTheRows(inputs, s)
          BY <1>4, <1>10 DEF AreTheRows, Fresh
      <3> QED
          BY <3>1, <3>2
    <2> QED
        BY <2>1, <2>3 DEF Names
  <1>14. Names(run[m].prefix, run[m].inputs)'
    <2>1. run'[m].prefix = prefix /\ run'[m].inputs = inputs
        BY <1>6, <1>8, <1>11
    <2>2. Names(prefix, inputs)'
        BY <1>1, <1>12, NamesStay
    <2> QED
        BY <2>1, <2>2 DEF Names, AreTheRows
  <1>15. NamedRun(m)'
      BY <1>1, <1>2, <1>3, <1>6, <1>8, <1>9, <1>10, <1>14, FreshStays DEF NamedRun, JoinNamed, Writing
  <1> QED
      BY <1>1, <1>8, <1>15, OneMoves

(* A run that has read its inputs goes on with them.                       *)
LEMMA GoesOnNamed ==
  ASSUME IInv, NamedInv, NEW m \in Matchers,
         run[m].pc \in {"list", "compute", "union", "finish"},
         NEW u, run' = [run EXCEPT ![m] = u], u.pc \in {"compute", "union", "finish"},
         u.prefix = run[m].prefix, u.inputs = run[m].inputs, u.versions = run[m].versions,
         u.policy = run[m].policy, u.build = run[m].build, u.limit = run[m].limit,
         \A c \in DOMAIN u.results : SameRows(u.results[c], u.inputs),
         UNCHANGED <<source, recovered, corrections, paid>>, run'[m] = u => JoinNamed(m)',
         builds'[run[m].build].recovered = builds[run[m].build].recovered
  PROVE  NamedRun(m)' /\ run'[m] = u /\ \A n \in Matchers \ {m} : run'[n] = run[n]
  <1>1. run'[m] = u /\ \A n \in Matchers \ {m} : run'[n] = run[n]
      BY DEF IInv, TypeInv
  <1>2. PICK prefix, inputs : prefix = run[m].prefix /\ inputs = run[m].inputs
      OBVIOUS
  <1>3. NamedRun(m)
      BY DEF NamedInv
  <1>4. Names(prefix, inputs)'
      BY <1>2, <1>3, NamesStay DEF NamedRun
  <1>5. Names(run[m].prefix, run[m].inputs)'
    <2>1. run'[m].prefix = prefix /\ run'[m].inputs = inputs
        BY <1>1, <1>2
    <2> QED
        BY <1>4, <2>1 DEF Names, AreTheRows
  <1>6. Versions' = Versions /\ (run[m].prefix = Prefix(m) => u.prefix = Prefix(m)')
      BY <1>1 DEF Versions, Prefix
  <1>7. \A c \in DOMAIN u.results : SameRows(u.results[c], u.inputs)'
      BY DEF SameRows
  <1>8. NamedRun(m)'
    <2>1. Fresh'
        BY <1>3, FreshStays DEF NamedRun
    <2> QED
        BY <1>1, <1>3, <1>5, <1>6, <1>7, <2>1 DEF NamedRun
  <1> QED
      BY <1>1, <1>8

(* A chunk found under a prefix was scored on the rows the prefix names.   *)
LEMMA ListsNamed ==
  ASSUME IInv, NamedInv, NEW m \in Matchers, ListChunks(m)
  PROVE  NamedInv'
  <1>1. /\ run[m].pc = "list" /\ Running(m)
        /\ UNCHANGED <<source, paid, stamp, view, recovered, corrections, chunks, builds, recipients>>
      BY DEF ListChunks, Running, world, relations, outputs
  <1>2. PICK now \in Runs : now = run[m]
      BY DEF IInv, TypeInv
  <1>3. NamedRun(m) /\ RunInv(m)
      BY DEF NamedInv, IInv
  <1>4. PICK resumed \in {{}, Stored(m)} :
          run' = [run EXCEPT ![m].pc = "compute",
                             ![m].results = [c \in resumed |-> chunks[Key(m, c)]]]
      BY DEF ListChunks
  <1>5. PICK results : results = [c \in resumed |-> chunks[Key(m, c)]]
      OBVIOUS
  <1>6. ASSUME NEW c \in resumed
        PROVE  SameRows(results[c], now.inputs)
    <2>1. Key(m, c) \in DOMAIN chunks /\ Key(m, c)[1] = now.prefix
        BY <1>2, <1>6 DEF Stored, Key
    <2>2. chunks[Key(m, c)] \in Inputs /\ now.inputs \in Inputs
        BY <1>1, <1>2, <1>3, <2>1 DEF IInv, TypeInv, RunInv
    <2>3. Names(now.prefix, chunks[Key(m, c)])
        BY <2>1 DEF NamedInv, ChunkInv
    <2>4. Names(now.prefix, now.inputs)
        BY <1>1, <1>2, <1>3 DEF NamedRun
    <2>5. now.prefix = Prefix(m) /\ now.versions = Versions
        BY <1>1, <1>2, <1>3 DEF NamedRun
    <2>6. now.prefix.versions = Versions
        BY <1>2, <2>5 DEF Prefix
    <2>7. SameRows(chunks[Key(m, c)], now.inputs)
        BY <2>2, <2>3, <2>4, <2>6, OneSetOfRows
    <2> QED
        BY <1>5, <2>7
  <1>7. PICK u : u = [now EXCEPT !.pc = "compute", !.results = results]
      OBVIOUS
  <1>8. /\ u.pc = "compute" /\ u.policy = now.policy /\ u.versions = now.versions
        /\ u.build = now.build /\ u.prefix = now.prefix /\ u.inputs = now.inputs
        /\ u.limit = now.limit /\ u.results = results
      BY <1>7 DEF Runs
  <1>9. run' = [run EXCEPT ![m] = u]
      BY <1>2, <1>4, <1>5, <1>7
  <1>10. DOMAIN u.results = resumed /\ \A c \in DOMAIN u.results : SameRows(u.results[c], u.inputs)
      BY <1>5, <1>6, <1>8
  <1>11. run'[m] = u => JoinNamed(m)'
      BY <1>8 DEF JoinNamed, Writing
  <1>12. NamedRun(m)' /\ \A n \in Matchers \ {m} : run'[n] = run[n]
      BY <1>1, <1>2, <1>8, <1>9, <1>10, <1>11, GoesOnNamed
  <1> QED
      BY <1>1, <1>12, OneMoves

(* A chunk is computed from what its prefix names.                         *)
LEMMA ComputesNamed ==
  ASSUME IInv, NamedInv, NEW m \in Matchers, NEW c \in Chunks, ComputeChunk(m, c)
  PROVE  NamedInv'
  <1>1. /\ run[m].pc = "compute" /\ Running(m)
        /\ UNCHANGED <<source, paid, stamp, view, recovered, corrections, builds, recipients>>
      BY DEF ComputeChunk, Running, world, relations, outputs
  <1>2. PICK now \in Runs : now = run[m]
      BY DEF IInv, TypeInv
  <1>3. NamedRun(m) /\ RunInv(m)
      BY DEF NamedInv, IInv
  <1>4. PICK results : results = [k \in DOMAIN now.results \cup {c} |->
                                    IF k = c THEN now.inputs ELSE now.results[k]]
      OBVIOUS
  <1>5. PICK u : u = [now EXCEPT !.results = results]
      OBVIOUS
  <1>6. /\ u.pc = now.pc /\ u.policy = now.policy /\ u.versions = now.versions
        /\ u.build = now.build /\ u.prefix = now.prefix /\ u.inputs = now.inputs
        /\ u.limit = now.limit /\ u.results = results
      BY <1>5 DEF Runs
  <1>7. run' = [run EXCEPT ![m] = u]
      BY <1>2, <1>4, <1>5 DEF ComputeChunk
  <1>8. \A k \in DOMAIN now.results : SameRows(now.results[k], now.inputs)
      BY <1>2, <1>3 DEF NamedRun
  <1>9. \A k \in DOMAIN u.results : SameRows(u.results[k], u.inputs)
    <2>1. SameRows(now.inputs, now.inputs)
        BY DEF SameRows
    <2> QED
        BY <1>4, <1>6, <1>8, <2>1
  <1>10. NamedRun(m)' /\ \A n \in Matchers \ {m} : run'[n] = run[n]
    <2>1. run'[m] = u => JoinNamed(m)'
        BY <1>1, <1>2, <1>6 DEF JoinNamed, Writing
    <2> QED
        BY <1>1, <1>2, <1>6, <1>7, <1>9, <2>1, GoesOnNamed
  <1>11. ASSUME NEW n \in Matchers, n # m
         PROVE  NamedRun(n)'
    <2>1. \A i \in 1 .. Len(builds) : i # run[m].build => builds'[i] = builds[i]
        BY <1>1
    <2> QED
        BY <1>1, <1>10, <1>11, <2>1, FreshStays, OthersNamed
  <1>12. ChunkInv'
    <2>1. PICK key : key = Key(m, c)
        OBVIOUS
    <2>2. chunks' = [k \in DOMAIN chunks \cup {key} |->
                       IF k = key THEN now.inputs ELSE chunks[k]]
        BY <1>2, <2>1 DEF ComputeChunk
    <2>3. key[1] = now.prefix
        BY <1>2, <2>1 DEF Key
    <2>4. Names(now.prefix, now.inputs)
        BY <1>1, <1>2, <1>3 DEF NamedRun
    <2>5. ASSUME NEW k \in DOMAIN chunks'
          PROVE  Names(k[1], chunks[k])'
      <3>1. PICK inputs : inputs = chunks'[k]
          OBVIOUS
      <3>2. Names(k[1], inputs)
          BY <2>2, <2>3, <2>4, <2>5, <3>1 DEF NamedInv, ChunkInv
      <3>3. Names(k[1], inputs)'
          BY <1>1, <3>2, NamesStay
      <3> QED
          BY <3>1, <3>3
    <2> QED
        BY <2>5 DEF ChunkInv
  <1> QED
      BY <1>1, <1>10, <1>11, <1>12, StampsKept, StandingStill DEF NamedInv, IInv

(* The grants joined when a run writes are those it read and matched.      *)
LEMMA JoinsNamed ==
  ASSUME IInv, NamedInv, NEW m \in Matchers,
         WriteBoth(m) \/ WriteRecipients(m) \/ WriteUnion(m),
         run'[m].build = run[m].build, run'[m].inputs = run[m].inputs
  PROVE  JoinNamed(m)'
  <1>1. PICK now \in Runs : now = run[m]
      BY DEF IInv, TypeInv
  <1>2. UNCHANGED <<source, recovered>>
      BY DEF WriteBoth, WriteRecipients, WriteUnion, world
  <1>3. NamedRun(m)
      BY DEF NamedInv
  <1>4. CASE WriteUnion(m)
      BY <1>2, <1>3, <1>4 DEF WriteUnion, NamedRun, JoinNamed, Writing
  <1>5. CASE WriteBoth(m) \/ WriteRecipients(m)
    <2>1. recipients'.joined = Joined /\ now.pc = "compute"
        BY <1>1, <1>5 DEF WriteBoth, WriteRecipients, Recipients, Complete
    <2>2. /\ now.versions = Versions /\ now.prefix = Prefix(m) /\ Fresh /\ Names(now.prefix, now.inputs)
        BY <1>1, <1>3, <2>1 DEF NamedRun
    <2>3. view = now.inputs.policy => recovered[view] = now.inputs.recovered
        BY <1>1, <2>2 DEF Names, Prefix
    <2>4. ASSUME NEW s \in GrantsOf, ~source[s].shifted
          PROVE  paid[s] = now.inputs.grants[s]
      <3>1. now.prefix.versions[s] = source[s].version /\ s \in Sources
          BY <1>1, <2>2 DEF Prefix, Versions, Sources
      <3> QED
          BY <2>2, <2>4, <3>1 DEF Names, AreTheRows, Fresh
    <2>5. PICK joined : joined = recipients'.joined
        OBVIOUS
    <2>6. joined.grants = paid /\ joined.policy = view /\ joined.recovered = recovered[view]
        BY <2>1, <2>5 DEF Joined
    <2> QED
        BY <1>1, <1>2, <2>3, <2>4, <2>5, <2>6 DEF JoinNamed
  <1> QED
      BY <1>4, <1>5

(* The outputs: the row of the build keeps what it says was read.          *)
LEMMA WritesNamed ==
  ASSUME IInv, NamedInv, NEW m \in Matchers,
         WriteBoth(m) \/ WriteRecipients(m) \/ WriteUnion(m)
  PROVE  NamedInv'
  <1>1. /\ run[m].pc \in {"compute", "union"} /\ Running(m)
        /\ UNCHANGED <<source, paid, stamp, view, recovered, corrections, chunks>>
      BY DEF WriteBoth, WriteRecipients, WriteUnion, Complete, Running, world, relations
  <1>2. PICK now \in Runs : now = run[m]
      BY DEF IInv, TypeInv
  <1>3. NamedRun(m) /\ RunInv(m)
      BY DEF NamedInv, IInv
  <1>4. PICK pc \in {"union", "finish"} : run' = [run EXCEPT ![m].pc = pc]
      BY DEF WriteBoth, WriteRecipients, WriteUnion
  <1>5. PICK u : u = [now EXCEPT !.pc = pc]
      OBVIOUS
  <1>6. /\ u.pc = pc /\ u.policy = now.policy /\ u.versions = now.versions
        /\ u.build = now.build /\ u.prefix = now.prefix /\ u.inputs = now.inputs
        /\ u.limit = now.limit /\ u.results = now.results
      BY <1>5 DEF Runs
  <1>7. run' = [run EXCEPT ![m] = u]
      BY <1>2, <1>4, <1>5
  <1>8. PICK b \in 1 .. Len(builds) : b = now.build
      BY <1>1, <1>2, <1>3 DEF RunInv, Running
  <1>9. /\ builds'[b].recovered = builds[b].recovered
        /\ \A i \in 1 .. Len(builds) : i # b => builds'[i] = builds[i]
    <2>1. CASE UNCHANGED builds
        BY <2>1
    <2>2. CASE WriteRecipients(m)
      <3>1. PICK old \in BuildRow : old = builds[b]
          BY DEF IInv, TypeInv
      <3>2. PICK row : row = [old EXCEPT !.pg = b]
          OBVIOUS
      <3>3. row.recovered = old.recovered
          BY <3>2 DEF BuildRow
      <3>4. builds' = [builds EXCEPT ![b] = row]
          BY <1>2, <1>8, <2>2, <3>1, <3>2 DEF WriteRecipients
      <3> QED
          BY <3>1, <3>3, <3>4 DEF IInv, TypeInv
    <2> QED
        BY <2>1, <2>2 DEF WriteBoth, WriteUnion
  <1>10. \A c \in DOMAIN u.results : SameRows(u.results[c], u.inputs)
      BY <1>2, <1>3, <1>6 DEF NamedRun
  <1>11. builds'[run[m].build].recovered = builds[run[m].build].recovered
      BY <1>2, <1>8, <1>9
  <1>12. run'[m] = u => JoinNamed(m)'
      BY <1>1, <1>2, <1>6, JoinsNamed
  <1>14. NamedRun(m)' /\ \A n \in Matchers \ {m} : run'[n] = run[n]
      BY <1>1, <1>2, <1>6, <1>7, <1>10, <1>11, <1>12, GoesOnNamed
  <1>13. \A i \in 1 .. Len(builds) : i # run[m].build => builds'[i] = builds[i]
      BY <1>2, <1>8, <1>9
  <1>15. UNCHANGED recipients \/ recipients'.build = run[m].build
      BY DEF WriteBoth, WriteRecipients, WriteUnion, Recipients
  <1> QED
      BY <1>1, <1>14, <1>13, <1>15, OneMoves

(* A run that ends, or is killed.                                          *)
LEMMA EndsNamed ==
  ASSUME IInv, NamedInv, NEW m \in Matchers, Finish(m) \/ Kill(m)
  PROVE  NamedInv'
  <1>1. /\ Running(m) /\ run' = [run EXCEPT ![m] = Idle]
        /\ UNCHANGED <<source, paid, stamp, view, recovered, corrections, chunks, recipients>>
      BY DEF Finish, Kill, Running, world, relations, outputs
  <1>2. run'[m] = Idle /\ \A n \in Matchers \ {m} : run'[n] = run[n]
      BY <1>1 DEF IInv, TypeInv
  <1>3. \A i \in 1 .. Len(builds) : i # run[m].build => builds'[i] = builds[i]
      BY DEF Finish, Kill, IInv, TypeInv
  <1> QED
      BY <1>1, <1>2, <1>3, IdleNamed, OneMoves

(* No step of a matcher lets a prefix stand for other inputs.              *)
LEMMA StepNamed ==
  ASSUME IInv, NamedInv, Undisturbed, NEW m \in Matchers, Step(m)
  PROVE  NamedInv'
  <1>1. CASE Raise(m)
      BY <1>1, FailsNamed DEF Raise, world, relations, outputs
  <1> QED
      BY <1>1, StartsNamed, BookkeepsNamed, RebuildsNamed, ViewsNamed, ReadsUniverseNamed,
         ReadsGrantsNamed, ListsNamed, ComputesNamed, WritesNamed, EndsNamed DEF Step

-----------------------------------------------------------------------------
(* While no matcher runs, every run is named; what the world changes then  *)
(* is named by later versions, digests and policies.                       *)
LEMMA QuietNamed ==
  ASSUME IInv, NamedInv, Quiet, UNCHANGED <<chunks, run>>, SourcesGoOn, StampInv'
  PROVE  NamedInv'
  <1>1. ChunkInv'
      BY ChunksKept DEF IInv, NamedInv
  <1>2. \A m \in Matchers : NamedRun(m)'
      BY DEF NamedInv, NamedRun, JoinNamed, Writing, Quiet, Running
  <1> QED
      BY <1>1, <1>2 DEF NamedInv

(* Undisturbed, what others do changes nothing that a prefix names.        *)
LEMMA WorldNamed ==
  ASSUME IInv, NamedInv, Undisturbed, World
  PROVE  NamedInv'
  <1>1. ASSUME NEW s \in Sources, LoadBegins(s) \/ LoadEnds(s)
        PROVE  NamedInv'
    <2>1. UNCHANGED <<paid, stamp, chunks, run>>
        BY <1>1 DEF LoadBegins, LoadEnds, relations
    <2>2. SourcesGoOn
        BY <1>1, LoadsGoOn DEF IInv
    <2>3. Quiet
        BY <1>1 DEF LoadBegins, LoadEnds, Allowed, Undisturbed
    <2>4. StampInv'
        BY <2>1, <2>2, StampsKept DEF IInv, NamedInv
    <2> QED
        BY <2>1, <2>2, <2>3, <2>4, QuietNamed
  <1>2. ASSUME NEW d \in Derived, RefreshRelation(d)
        PROVE  NamedInv'
    <2>1. UNCHANGED <<source, chunks, run>> /\ Quiet /\ Builds(d, None)
        BY <1>2 DEF RefreshRelation, Allowed, Undisturbed, world
    <2>2. StampInv'
        BY <2>1, BuildsStamped DEF IInv, NamedInv
    <2> QED
        BY <2>1, <2>2, StandingStill, QuietNamed
  <1>3. CASE EditCorrections \/ \E p \in Policies : Sync(p)
    <2>1. UNCHANGED <<source, paid, stamp, chunks, run>> /\ Quiet
        BY <1>3 DEF EditCorrections, Sync, Allowed, Undisturbed, relations
    <2>2. StampInv'
        BY <2>1, StandingStill, StampsKept DEF IInv, NamedInv
    <2> QED
        BY <2>1, <2>2, StandingStill, QuietNamed
  <1>4. ASSUME NEW p \in Policies, ViewCommand(p)
        PROVE  NamedInv'
    <2>1. Unread /\ UNCHANGED <<source, paid, stamp, recovered, corrections, chunks, builds, run, recipients>>
        BY <1>4 DEF ViewCommand, relations, outputs
    <2>2. ASSUME NEW m \in Matchers
          PROVE  NamedRun(m)'
        BY <2>1, RunStays, FreshStays DEF Unread, NamedInv
    <2>3. StampInv' /\ ChunkInv'
        BY <2>1, StandingStill, StampsKept, ChunksKept DEF IInv, NamedInv
    <2> QED
        BY <2>2, <2>3 DEF NamedInv
  <1> QED
      BY <1>1, <1>2, <1>3, <1>4 DEF World

(* Nothing is named before the first run.                                  *)
LEMMA InitNamed ==
  ASSUME Init
  PROVE  NamedInv
  <1>1. StampInv
      BY MatchAssumption DEF Init, StampInv
  <1>2. ChunkInv
      BY NoResults DEF Init, ChunkInv
  <1>3. \A m \in Matchers : run[m] = Idle
      BY DEF Init
  <1>4. \A m \in Matchers : NamedRun(m)
      BY <1>3, IdleRun DEF NamedRun, JoinNamed, Writing
  <1> QED
      BY <1>1, <1>2, <1>4 DEF NamedInv

(* Every undisturbed step keeps what prefixes name.                        *)
LEMMA NamedPreserved ==
  ASSUME IInv, NamedInv, Undisturbed, [Next]_vars
  PROVE  NamedInv'
  <1>1. CASE UNCHANGED vars
    <2>1. UNCHANGED <<source, paid, stamp, view, recovered, corrections, chunks, builds, run, recipients>>
        BY <1>1 DEF vars
    <2>2. \A m \in Matchers : NamedRun(m)'
        BY <2>1, RunStays, FreshStays DEF NamedInv
    <2>3. StampInv' /\ ChunkInv'
        BY <2>1, StandingStill, StampsKept, ChunksKept DEF IInv, NamedInv
    <2> QED
        BY <2>2, <2>3 DEF NamedInv
  <1> QED
      BY <1>1, StepNamed, WorldNamed DEF Next

(* What a run has matched is scored on the rows its prefix and its build   *)
(* row name, those it took from a checkpoint included, and joined to the   *)
(* grants it matched, whatever runs were killed, limited or made to skip   *)
(* the rebuild, and though view commands and other matchers go on beside   *)
(* it: as long as no load, sync or edit commits beside a matcher, but for a*)
(* source whose rows were shifted under its version, and for the join once *)
(* the view is pointed at another policy.                                  *)
THEOREM RunsMatchWhatTheyName ==
  ASSUME ~Concurrent
  PROVE  Spec => []RunMatchesWhatItNames
  <1>1. Undisturbed
      BY DEF Undisturbed
  <1>2. Init => NamedInv
      BY InitNamed
  <1>3. IInv /\ NamedInv /\ [Next]_vars => NamedInv'
      BY <1>1, NamedPreserved
  <1>4. IInv /\ NamedInv => RunMatchesWhatItNames
    <2>1. ASSUME IInv, NamedInv
          PROVE  ResumedChunksAreThisRuns
        BY <2>1 DEF ResumedChunksAreThisRuns, NamedInv, NamedRun
    <2>2. ASSUME IInv, NamedInv, NEW m \in Matchers,
                 run[m].pc \in {"list", "compute", "union", "finish"}
          PROVE  LET named == builds[run[m].build].recovered IN
                 /\ run[m].inputs.policy = named.policy /\ run[m].prefix.policy = named.policy
                 /\ run[m].inputs.recovered = named.digest /\ run[m].prefix.digest = named.digest
      <3>1. NamedRun(m)
          BY <2>2 DEF NamedInv
      <3>2. /\ builds[run[m].build].recovered =
                 [policy |-> run[m].policy, digest |-> recovered[run[m].policy]]
            /\ run[m].prefix = Prefix(m) /\ Names(run[m].prefix, run[m].inputs)
          BY <2>2, <3>1 DEF NamedRun
      <3> QED
          BY <3>2 DEF Names, Prefix
    <2>3. ASSUME IInv, NamedInv
          PROVE  JoinedAreThoseMatched
        BY <2>3 DEF JoinedAreThoseMatched, NamedInv, NamedRun, JoinNamed
    <2> QED
        BY <2>1, <2>2, <2>3 DEF RunMatchesWhatItNames, GrantsAreThoseNamed
  <1> QED
      BY <1>2, <1>3, <1>4, Invariance, PTL DEF Spec

-----------------------------------------------------------------------------
(* What the matcher decides: MatchRules, by way of MatchProblems           *)

(* Orders                                                                  *)

(* A finite set that a relation orders has a first member.                 *)
LEMMA FirstExists ==
  ASSUME NEW S, IsFiniteSet(S), S # {}, NEW R,
         \A x, y, z \in S : <<x, y>> \in R /\ <<y, z>> \in R => <<x, z>> \in R,
         \A x, y \in S : x # y => <<x, y>> \in R \/ <<y, x>> \in R
  PROVE  \E x \in S : \A y \in S \ {x} : <<x, y>> \in R
  <1> DEFINE Led(D) == \E x \in D : \A y \in D \ {x} : <<x, y>> \in R
             Bad == {D \in SUBSET S : D # {} /\ ~Led(D)}
  <1>1. SUFFICES Bad = {}
      BY <1>1
  <1>2. SUFFICES ASSUME Bad # {} PROVE FALSE
      OBVIOUS
  <1>3. Bad \subseteq FiniteSubsetsOf(S)
      BY FS_FiniteSubsetsOfFinite
  <1> HIDE DEF Bad
  <1>4. PICK D \in Bad : \A E \in Bad : ~(<<E, D>> \in StrictSubsetOrdering(S))
      BY <1>2, <1>3, FS_StrictSubsetOrderingWellFounded, WFMin
  <1> USE DEF Bad
  <1>5. PICK d \in D : TRUE
      BY <1>4
  <1> HIDE DEF Bad
  <1>6. D \ {d} \notin Bad
    <2>1. D \ {d} \subseteq D /\ D \ {d} # D /\ D \in SUBSET S
        BY <1>4, <1>5 DEF Bad
    <2>2. <<D \ {d}, D>> \in StrictSubsetOrdering(S)
        BY <2>1 DEF StrictSubsetOrdering
    <2> QED
        BY <1>4, <2>2
  <1> USE DEF Bad
  <1>7. CASE D \ {d} = {}
      BY <1>4, <1>5, <1>7
  <1>8. CASE D \ {d} # {}
    <2>1. PICK m \in D \ {d} : \A y \in (D \ {d}) \ {m} : <<m, y>> \in R
        BY <1>4, <1>6, <1>8
    <2>2. CASE <<m, d>> \in R
        BY <1>4, <1>5, <2>1, <2>2
    <2>3. CASE <<d, m>> \in R
      <3>1. \A y \in D \ {d} : <<d, y>> \in R
          BY <1>4, <1>5, <2>1, <2>3
      <3> QED
          BY <1>4, <1>5, <3>1
    <2> QED
        BY <1>4, <1>5, <2>1, <2>2, <2>3
  <1> QED
      BY <1>7, <1>8

(* The order of rank keys is lexicographic: strict and total on keys of    *)
(* one length.                                                             *)
LEMMA HigherTransitive ==
  ASSUME NEW n \in Nat, NEW a \in [1..n -> Int], NEW b \in [1..n -> Int], NEW c \in [1..n -> Int],
         Higher(a, b), Higher(b, c)
  PROVE  Higher(a, c)
  <1>1. PICK i \in 1..n : a[i] > b[i] /\ \A j \in 1..(i - 1) : a[j] = b[j]
      BY DEF Higher
  <1>2. PICK k \in 1..n : b[k] > c[k] /\ \A j \in 1..(k - 1) : b[j] = c[j]
      BY DEF Higher
  <1>3. CASE i < k
    <2>1. a[i] > c[i] /\ \A j \in 1..(i - 1) : a[j] = c[j]
        BY <1>1, <1>2, <1>3
    <2> QED
        BY <2>1 DEF Higher
  <1>4. CASE i = k
    <2>1. a[i] > c[i] /\ \A j \in 1..(i - 1) : a[j] = c[j]
        BY <1>1, <1>2, <1>4
    <2> QED
        BY <2>1 DEF Higher
  <1>5. CASE i > k
    <2>1. a[k] > c[k] /\ \A j \in 1..(k - 1) : a[j] = c[j]
        BY <1>1, <1>2, <1>5
    <2> QED
        BY <2>1 DEF Higher
  <1> QED
      BY <1>3, <1>4, <1>5

(* Of two such keys that differ one sorts before the other.                *)
LEMMA HigherTotal ==
  ASSUME NEW n \in Nat, NEW a \in [1..n -> Int], NEW b \in [1..n -> Int], a # b
  PROVE  Higher(a, b) \/ Higher(b, a)
  <1> DEFINE D == {i \in 1..n : a[i] # b[i]}
  <1>1. D # {} /\ D \in SUBSET Nat
      OBVIOUS
  <1>2. PICK i \in D : \A j \in D : ~(<<j, i>> \in OpToRel(<, Nat))
      BY <1>1, WFMin, NatLessThanWellFounded
  <1>3. i \in 1..n /\ a[i] # b[i] /\ a[i] \in Int /\ b[i] \in Int
      BY <1>2
  <1>4. \A j \in D : ~(j < i)
    <2> SUFFICES ASSUME NEW j \in D, j < i PROVE FALSE
        OBVIOUS
    <2>1. <<j, i>> \in OpToRel(<, Nat)
        BY <1>1, <1>2 DEF OpToRel
    <2> QED
        BY <1>2, <2>1
  <1>5. \A j \in 1..(i - 1) : j \in 1..n /\ j < i
      BY <1>3
  <1>6. \A j \in 1..(i - 1) : a[j] = b[j]
      BY <1>4, <1>5
  <1> QED
      BY <1>3, <1>6 DEF Higher

(* No key sorts before itself.                                             *)
LEMMA HigherStrict ==
  ASSUME NEW n \in Nat, NEW a \in [1..n -> Int]
  PROVE  ~Higher(a, a)
  BY DEF Higher

(* What a function makes of a finite set is finite.                        *)
LEMMA ImageFinite ==
  ASSUME NEW S, IsFiniteSet(S), NEW T, NEW f \in [S -> T], \A y \in T : \E x \in S : f[x] = y
  PROVE  /\ IsFiniteSet(T)
         /\ (\A x, y \in S : f[x] = f[y] => x = y) => Cardinality(T) = Cardinality(S)
  <1>1. f \in Surjection(S, T)
      BY DEF Surjection
  <1>2. (\A x, y \in S : f[x] = f[y] => x = y) => f \in Injection(S, T)
      BY DEF Injection, IsInjective
  <1> QED
      BY <1>1, <1>2, FS_Surjection

(* Or of the same size, when it keeps members apart.                        *)
LEMMA SameSize ==
  ASSUME NEW S, IsFiniteSet(S), NEW T, NEW f \in [S -> T],
         \A y \in T : \E x \in S : f[x] = y, \A x, y \in S : f[x] = f[y] => x = y
  PROVE  Cardinality(T) = Cardinality(S)
  BY ImageFinite

-----------------------------------------------------------------------------
(* Winners                                                                 *)

(* Scores are what ScoresAssumption says of names and places that are      *)
(* known, and a rank key is a tuple of integers.                           *)
LEMMA TierIs == ASSUME NEW f PROVE LocationAgreement(f) \in 0..3
  BY DEF LocationAgreement

Percents(f) == f.name \in 0..100 /\ f.addr \in 0..100
KeyLength(ranking) == IF ranking = "weighted" THEN 1 ELSE 6

(* A condition counts 0 or 1.                                              *)
LEMMA BitIs == \A P : Bit(P) \in 0..1 /\ Bit(P) \in Int
  BY DEF Bit

(* A rank key is a tuple of integers, of the length its order has.         *)
LEMMA KeyIs ==
  ASSUME NEW f, Percents(f), NEW ranking
  PROVE  RankKey(f, ranking) \in [1..KeyLength(ranking) -> Int]
  <1>0. PICK combined \in Int : combined = 2 * f.name + f.addr
    <2>1. PICK n, k : n = f.name /\ k = f.addr
        OBVIOUS
    <2>2. n \in 0..100 /\ k \in 0..100
        BY <2>1 DEF Percents
    <2>3. 2 * n + k \in Int
        BY <2>2
    <2> QED
        BY <2>1, <2>3
  <1>1. CASE ranking = "weighted"
    <2>2. RankKey(f, ranking) = <<combined>>
        BY <1>0, <1>1 DEF RankKey
    <2>3. <<combined>> \in [1..1 -> Int]
        OBVIOUS
    <2> QED
        BY <1>1, <2>2, <2>3 DEF KeyLength
  <1>2. CASE ranking # "weighted"
    <2>1. PICK a, b, d, e \in Int :
            /\ a = Bit(LocationAgreement(f) > 0)
            /\ b = Bit(f.name >= ExactName \/ NamesHeld(f))
            /\ d = Bit(f.name >= ExactName)
            /\ e = Bit(f.name >= ExactName /\ f.row.source # "eo_bmf")
        BY BitIs, Zenon
    <2>2. PICK tier \in Int : tier = LocationAgreement(f)
      <3>1. \A i \in 0..3 : i \in Int
          OBVIOUS
      <3> QED
          BY <3>1, TierIs
    <2>a. RankKey(f, ranking) = <<a, b, tier, d, e, combined>>
        BY <1>0, <1>2, <2>1, <2>2 DEF RankKey
    <2>3. <<a, b, tier, d, e, combined>> \in [1..6 -> Int]
        OBVIOUS
    <2> QED
        BY <1>2, <2>a, <2>3 DEF KeyLength
  <1> QED
      BY <1>1, <1>2

(* Of pairs with one tuple, by rows the views order: the winner is a pair, *)
(* and it sorts before the rest.                                           *)
Beats(f, h, ranking) ==
  \/ Higher(RankKey(f, ranking), RankKey(h, ranking))
  \/ RankKey(f, ranking) = RankKey(h, ranking) /\ KeyBefore(f.row, h.row)

Contest(pairs, rows) ==
  /\ IsFiniteSet(pairs) /\ pairs # {} /\ ViewsOrder(rows)
  /\ \A f \in pairs : f.row \in rows /\ Percents(f)
  /\ \A f, h \in pairs : f.row = h.row => f = h

(* The winner is one of the pairs and sorts before the others.             *)
LEMMA WinnerBeats ==
  ASSUME NEW pairs, NEW rows, Contest(pairs, rows), NEW ranking
  PROVE  /\ Winner(pairs, ranking) \in pairs
         /\ \A h \in pairs \ {Winner(pairs, ranking)} : Beats(Winner(pairs, ranking), h, ranking)
  <1> DEFINE key(f) == RankKey(f, ranking)
             R == {d \in pairs \X pairs : Beats(d[1], d[2], ranking)}
  <1>1. \A f \in pairs : key(f) \in [1..KeyLength(ranking) -> Int] /\ f.row \in rows
      BY KeyIs DEF Contest
  <1>2. KeyLength(ranking) \in Nat
      BY DEF KeyLength
  <1>3. \A f, h \in pairs : <<f, h>> \in R <=> Beats(f, h, ranking)
      OBVIOUS
  <1> HIDE DEF key, R
  <1>4. ASSUME NEW x \in pairs, NEW y \in pairs, NEW z \in pairs,
               Beats(x, y, ranking), Beats(y, z, ranking)
        PROVE  Beats(x, z, ranking)
    <2>1. KeyBefore(x.row, y.row) /\ KeyBefore(y.row, z.row) => KeyBefore(x.row, z.row)
        BY <1>1 DEF Contest, ViewsOrder
    <2>2. Higher(key(x), key(y)) /\ Higher(key(y), key(z)) => Higher(key(x), key(z))
        BY <1>1, <1>2, HigherTransitive
    <2> QED
        BY <1>4, <2>1, <2>2 DEF Beats, key
  <1>5. ASSUME NEW x \in pairs, NEW y \in pairs, x # y
        PROVE  Beats(x, y, ranking) \/ Beats(y, x, ranking)
    <2>1. KeyBefore(x.row, y.row) \/ KeyBefore(y.row, x.row)
        BY <1>1, <1>5 DEF Contest, ViewsOrder
    <2>2. key(x) = key(y) \/ Higher(key(x), key(y)) \/ Higher(key(y), key(x))
        BY <1>1, <1>2, HigherTotal
    <2> QED
        BY <2>1, <2>2 DEF Beats, key
  <1>6. \E x \in pairs : \A y \in pairs \ {x} : <<x, y>> \in R
    <2>1. \A x, y, z \in pairs : <<x, y>> \in R /\ <<y, z>> \in R => <<x, z>> \in R
        BY <1>3, <1>4
    <2>2. \A x, y \in pairs : x # y => <<x, y>> \in R \/ <<y, x>> \in R
        BY <1>3, <1>5
    <2>3. IsFiniteSet(pairs) /\ pairs # {}
        BY DEF Contest
    <2> QED
        BY <2>1, <2>2, <2>3, FirstExists
  <1>7. \E x \in pairs : \A y \in pairs \ {x} : Beats(x, y, ranking)
      BY <1>3, <1>6
  <1> QED
      BY <1>7 DEF Winner, Beats

-----------------------------------------------------------------------------
(* Pairs and matches of a universe and tuples                              *)

Placed(S) == \A r \in S : r.name \in DOMAIN CleanName /\ r.place \in Places

Setting(universe, tuples) ==
  /\ IsFiniteSet(universe) /\ IsFiniteSet(tuples)
  /\ Placed(universe) /\ Placed(tuples) /\ ViewsOrder(universe)
  /\ \A g \in tuples : g.name \notin Pointers

(* A part of a setting is one.                                             *)
LEMMA SettingWithin ==
  ASSUME NEW universe, NEW tuples, Setting(universe, tuples),
         NEW rows \in SUBSET universe, NEW some \in SUBSET tuples
  PROVE  Setting(rows, some)
  <1>1. IsFiniteSet(rows) /\ IsFiniteSet(some)
      BY FS_Subset DEF Setting
  <1>2. Placed(rows) /\ Placed(some) /\ \A g \in some : g.name \notin Pointers
      BY DEF Setting, Placed
  <1>3. ViewsOrder(rows)
    <2>1. ViewsOrder(universe)
        BY DEF Setting
    <2> QED
        BY <2>1 DEF ViewsOrder
  <1> QED
      BY <1>1, <1>2, <1>3 DEF Setting

(* The features of the pairs that blocking makes.                          *)
FeaturesOf(universe, tuples) == {Feature(p[1], p[2]) : p \in CandidatePairs(universe, tuples)}

(* What a feature says in its columns,                                     *)
LEMMA FeatureFields ==
  ASSUME NEW u, NEW g
  PROVE  /\ Feature(u, g).row = u /\ Feature(u, g).tuple = g
         /\ Feature(u, g).name = IF FullName(u) = FullName(g) /\ FullName(g) # <<>>
                                 THEN 100 ELSE NameScore(u.name, g.name)
         /\ Feature(u, g).addr = AddressScore(u.place, g.place)
  BY DEF Feature

(* and in its two flags.                                                   *)
LEMMA FeatureTruths ==
  ASSUME NEW u, NEW g, NEW f, f = Feature(u, g)
  PROVE  /\ f.zip <=> CleanZip(u.place.zip) = CleanZip(g.place.zip)
         /\ f.state <=> (u.place.state # "" /\ u.place.state = g.place.state)
  BY DEF Feature

(* A feature is of a candidate pair, and its scores are percents.          *)
LEMMA FeatureOf ==
  ASSUME NEW universe, NEW tuples, Setting(universe, tuples), NEW f \in FeaturesOf(universe, tuples)
  PROVE  /\ f.row \in universe /\ f.tuple \in tuples /\ f = Feature(f.row, f.tuple)
         /\ <<f.row, f.tuple>> \in CandidatePairs(universe, tuples) /\ Percents(f)
  <1>1. PICK u \in universe, g \in tuples : f = Feature(u, g) /\ <<u, g>> \in CandidatePairs(universe, tuples)
      BY DEF FeaturesOf, CandidatePairs
  <1>2. f.row = u /\ f.tuple = g
      BY <1>1 DEF Feature
  <1>3. Percents(f)
    <2>1. NameScore(u.name, g.name) \in 0..100 /\ AddressScore(u.place, g.place) \in 0..100
        BY ScoresAssumption DEF Setting, Placed
    <2>2. f.name = IF FullName(u) = FullName(g) /\ FullName(g) # <<>> THEN 100 ELSE NameScore(u.name, g.name)
        BY <1>1, FeatureFields
    <2>3. f.addr = AddressScore(u.place, g.place)
        BY <1>1, FeatureFields
    <2> QED
        BY <2>1, <2>2, <2>3 DEF Percents
  <1> QED
      BY <1>1, <1>2, <1>3

(* Finitely many pairs, finitely many features.                            *)
LEMMA FeaturesFinite ==
  ASSUME NEW universe, NEW tuples, Setting(universe, tuples)
  PROVE  IsFiniteSet(FeaturesOf(universe, tuples))
  <1>1. IsFiniteSet(universe \X tuples)
      BY FS_Product DEF Setting
  <1>2. IsFiniteSet(CandidatePairs(universe, tuples))
      BY <1>1, FS_Subset DEF CandidatePairs
  <1> DEFINE C == CandidatePairs(universe, tuples)
             feature == [p \in C |-> Feature(p[1], p[2])]
  <1>3. feature \in [C -> FeaturesOf(universe, tuples)]
        /\ \A f \in FeaturesOf(universe, tuples) : \E p \in C : feature[p] = f
      BY DEF FeaturesOf
  <1> HIDE DEF feature
  <1> QED
      BY <1>2, <1>3, ImageFinite

(* The pairs that decide, before and after the early refusals; those of a  *)
(* tuple; and its winner.                                                  *)
Final(features) ==
  {f \in features : /\ PassesRules(f, FINAL_FILTER_RULES)
                    /\ f.tuple.name \notin Pointers /\ ~GovernmentRefusal(f)}
Early(features, ranking) == Final(features) \ EarlyRefused(Final(features), ranking)
PairsOf(pairs, g) == {f \in pairs : f.tuple = g}
Best(features, g, ranking) == Winner(PairsOf(Early(features, ranking), g), ranking)

(* The matches are the winners of the pairs left, but for those refused.   *)
LEMMA MatchesAre ==
  ASSUME NEW features, NEW ranking
  PROVE  ResolveMatches(features, ranking) =
           {Match(w) : w \in {b \in {Best(features, g, ranking) : g \in {f.tuple : f \in Early(features, ranking)}} :
                                ~OneFilerRefused(b, Final(features))}}
  BY DEF ResolveMatches, Final, Early, PairsOf, Best

(* A tuple with a pair left has a winner, which sorts before the rest.     *)
LEMMA BestOf ==
  ASSUME NEW universe, NEW tuples, Setting(universe, tuples),
         NEW features \in SUBSET FeaturesOf(universe, tuples), NEW ranking,
         NEW f \in Early(features, ranking)
  PROVE  LET w == Best(features, f.tuple, ranking)
         IN /\ w \in Early(features, ranking) /\ w.tuple = f.tuple
            /\ w # f => Beats(w, f, ranking)
  <1> DEFINE pairs == PairsOf(Early(features, ranking), f.tuple)
  <1>1. f \in pairs /\ pairs \subseteq features
      BY DEF PairsOf, Early, Final
  <1>2. Contest(pairs, universe)
    <2>1. IsFiniteSet(pairs)
        BY <1>1, FeaturesFinite, FS_Subset
    <2>2. \A x \in pairs : x.row \in universe /\ Percents(x) /\ x = Feature(x.row, f.tuple)
        BY <1>1, FeatureOf DEF PairsOf
    <2>3. \A x, h \in pairs : x.row = h.row => x = h
        BY <2>2
    <2> QED
        BY <1>1, <2>1, <2>2, <2>3 DEF Contest, Setting
  <1>3. /\ Winner(pairs, ranking) \in pairs
        /\ \A h \in pairs \ {Winner(pairs, ranking)} : Beats(Winner(pairs, ranking), h, ranking)
      BY <1>2, WinnerBeats
  <1> QED
      BY <1>1, <1>3 DEF Best, PairsOf

(* A match by a rule on pairs says so.                                     *)
LEMMA MatchFields ==
  ASSUME NEW f
  PROVE  /\ Match(f).row = f.row /\ Match(f).tuple = f.tuple /\ Match(f).tier # "name_only"
         /\ Match(f).tier = "address_and_name" <=> ByAddress(f, FINAL_FILTER_RULES)
  BY DEF Match

(* A match is a winner that is not refused, and a winner that is not       *)
(* refused is a match.                                                     *)
LEMMA Resolved ==
  ASSUME NEW universe, NEW tuples, Setting(universe, tuples),
         NEW features \in SUBSET FeaturesOf(universe, tuples), NEW ranking
  PROVE  /\ \A m \in ResolveMatches(features, ranking) :
              \E w \in Early(features, ranking) :
                 m = Match(w) /\ w = Best(features, w.tuple, ranking) /\ ~OneFilerRefused(w, Final(features))
         /\ \A f \in Early(features, ranking) :
              LET w == Best(features, f.tuple, ranking)
              IN ~OneFilerRefused(w, Final(features)) => Match(w) \in ResolveMatches(features, ranking)
  <1>1. ASSUME NEW m \in ResolveMatches(features, ranking)
        PROVE  \E w \in Early(features, ranking) :
                 m = Match(w) /\ w = Best(features, w.tuple, ranking) /\ ~OneFilerRefused(w, Final(features))
    <2>1. PICK f \in Early(features, ranking) :
            /\ m = Match(Best(features, f.tuple, ranking))
            /\ ~OneFilerRefused(Best(features, f.tuple, ranking), Final(features))
        BY MatchesAre
    <2>2. /\ Best(features, f.tuple, ranking) \in Early(features, ranking)
          /\ Best(features, f.tuple, ranking).tuple = f.tuple
        BY BestOf
    <2> QED
        BY <2>1, <2>2
  <1>2. ASSUME NEW f \in Early(features, ranking),
               ~OneFilerRefused(Best(features, f.tuple, ranking), Final(features))
        PROVE  Match(Best(features, f.tuple, ranking)) \in ResolveMatches(features, ranking)
      BY <1>2, MatchesAre
  <1> QED
      BY <1>1, <1>2

(* Matches depend on the pairs that decide, and tuple by tuple.            *)
LEMMA ResolvedByFinal ==
  ASSUME NEW features, NEW others, Final(features) = Final(others), NEW ranking
  PROVE  ResolveMatches(features, ranking) = ResolveMatches(others, ranking)
  <1>1. Early(features, ranking) = Early(others, ranking)
      BY DEF Early
  <1>2. \A g : Best(features, g, ranking) = Best(others, g, ranking)
      BY <1>1 DEF Best
  <1> QED
      BY <1>1, <1>2, MatchesAre

(* A pair that passes the rules that decide passes the chunks'.            *)
LEMMA ChunkRulesAreLooser ==
  ASSUME NEW f, Percents(f), PassesRules(f, FINAL_FILTER_RULES)
  PROVE  PassesRules(f, CHUNK_FILTER_RULES)
  BY DEF Percents, PassesRules, ByAddress, Reaches, FINAL_FILTER_RULES, CHUNK_FILTER_RULES

(* So the saved pairs hold every pair that decides.                        *)
LEMMA ScoreSliceIs ==
  ASSUME NEW universe, NEW tuples, Setting(universe, tuples)
  PROVE  /\ ScoreSlice(universe, tuples) \subseteq FeaturesOf(universe, tuples)
         /\ Final(ScoreSlice(universe, tuples)) = Final(FeaturesOf(universe, tuples))
  <1>1. ScoreSlice(universe, tuples)
          = {f \in FeaturesOf(universe, tuples) : PassesRules(f, CHUNK_FILTER_RULES)}
      BY DEF ScoreSlice, FeaturesOf
  <1>2. \A f \in FeaturesOf(universe, tuples) : Percents(f)
      BY FeatureOf
  <1> QED
      BY <1>1, <1>2, ChunkRulesAreLooser DEF Final

(* The matches of some tuples are those of their pairs.                    *)
LEMMA ResolvedWithin ==
  ASSUME NEW universe, NEW tuples, Setting(universe, tuples),
         NEW features \in SUBSET FeaturesOf(universe, tuples), NEW ranking, NEW some
  PROVE  ResolveMatches({f \in features : f.tuple \in some}, ranking)
           = {m \in ResolveMatches(features, ranking) : m.tuple \in some}
  <1> DEFINE within == {f \in features : f.tuple \in some}
  <1>1. Final(within) = {f \in Final(features) : f.tuple \in some}
      BY DEF Final
  <1>2. \A g \in some : FilersInState(Final(within), g) = FilersInState(Final(features), g)
      BY <1>1 DEF FilersInState
  <1>3. \A f : f.tuple \in some => (OneFilerRefused(f, Final(within)) <=> OneFilerRefused(f, Final(features)))
      BY <1>2 DEF OneFilerRefused
  <1>4. Early(within, ranking) = {f \in Early(features, ranking) : f.tuple \in some}
      BY <1>1, <1>3 DEF Early, EarlyRefused
  <1>5. \A g \in some : Best(within, g, ranking) = Best(features, g, ranking)
    <2>1. \A g \in some : PairsOf(Early(within, ranking), g) = PairsOf(Early(features, ranking), g)
        BY <1>4 DEF PairsOf
    <2> QED
        BY <2>1 DEF Best
  <1>6. within \in SUBSET FeaturesOf(universe, tuples)
      OBVIOUS
  <1> HIDE DEF within
  <1>7. ASSUME NEW m \in ResolveMatches(within, ranking)
        PROVE  m \in ResolveMatches(features, ranking) /\ m.tuple \in some
    <2>1. PICK w \in Early(within, ranking) :
            m = Match(w) /\ w = Best(within, w.tuple, ranking) /\ ~OneFilerRefused(w, Final(within))
        BY <1>6, Resolved
    <2>2. w \in Early(features, ranking) /\ w.tuple \in some
        BY <1>4, <2>1
    <2>3. w = Best(features, w.tuple, ranking) /\ ~OneFilerRefused(w, Final(features))
        BY <1>3, <1>5, <2>1, <2>2
    <2> QED
        BY <2>1, <2>2, <2>3, Resolved, MatchFields
  <1>8. ASSUME NEW m \in ResolveMatches(features, ranking), m.tuple \in some
        PROVE  m \in ResolveMatches(within, ranking)
    <2>1. PICK w \in Early(features, ranking) :
            m = Match(w) /\ w = Best(features, w.tuple, ranking) /\ ~OneFilerRefused(w, Final(features))
        BY Resolved
    <2>2. w.tuple \in some
        BY <1>8, <2>1, MatchFields
    <2>3. w \in Early(within, ranking) /\ w = Best(within, w.tuple, ranking) /\ ~OneFilerRefused(w, Final(within))
        BY <1>3, <1>4, <1>5, <2>1, <2>2
    <2> QED
        BY <1>6, <2>1, <2>3, Resolved
  <1> QED
      BY <1>7, <1>8 DEF within

(* The name-only tier.                                                     *)
Namesakes(universe, g) == {u \in universe : FullName(u) = FullName(g)}
FirstNamed(universe, g) ==
  CHOOSE u \in Namesakes(universe, g) : \A v \in Namesakes(universe, g) \ {u} : KeyBefore(u, v)
OneNamed(universe, g) ==
  /\ NoUSAddress(g) /\ FullName(g) # <<>> /\ g.name \notin Pointers
  /\ Cardinality({u.ein : u \in Namesakes(universe, g)}) = 1
  /\ ~OneWordNamesake(g, FirstNamed(universe, g))
NameOnly(universe, g) ==
  [row |-> FirstNamed(universe, g), tuple |-> g, tier |-> "name_only", words |-> Len(FullName(g))]

(* The name-only matches, tuple by tuple.                                  *)
LEMMA NameOnlyMatchesAre ==
  ASSUME NEW universe, NEW tuples, NEW matched
  PROVE  NameOnlyMatches(universe, tuples, matched)
           = {NameOnly(universe, g) : g \in {x \in tuples \ matched : OneNamed(universe, x)}}
  BY DEF NameOnlyMatches, NameOnly, OneNamed, FirstNamed, Namesakes

(* A name with one filer has a first row.                                  *)
LEMMA FirstNamedIs ==
  ASSUME NEW universe, NEW tuples, Setting(universe, tuples), NEW g, OneNamed(universe, g)
  PROVE  FirstNamed(universe, g) \in Namesakes(universe, g)
  <1> DEFINE S == Namesakes(universe, g)
             R == {d \in S \X S : KeyBefore(d[1], d[2])}
  <1>1. S # {}
    <2>1. S = {} => {u.ein : u \in S} = {}
        OBVIOUS
    <2>2. Cardinality({u.ein : u \in S}) = 1
        BY DEF OneNamed
    <2> HIDE DEF S
    <2>3. Cardinality({}) # 1
        BY FS_EmptySet
    <2> QED
        BY <2>1, <2>2, <2>3
  <1>2. IsFiniteSet(S) /\ S \subseteq universe
      BY FS_Subset DEF Setting, Namesakes
  <1>3. ViewsOrder(universe)
      BY DEF Setting
  <1>4. \A x, y \in S : <<x, y>> \in R <=> KeyBefore(x, y)
      OBVIOUS
  <1>5. \A x, y, z \in S : KeyBefore(x, y) /\ KeyBefore(y, z) => KeyBefore(x, z)
      BY <1>2, <1>3 DEF ViewsOrder
  <1>6. \A x, y \in S : x # y => KeyBefore(x, y) \/ KeyBefore(y, x)
      BY <1>2, <1>3 DEF ViewsOrder
  <1> HIDE DEF S, R
  <1>7. \E x \in S : \A y \in S \ {x} : <<x, y>> \in R
      BY <1>1, <1>2, <1>4, <1>5, <1>6, FirstExists
  <1>8. \E x \in S : \A y \in S \ {x} : KeyBefore(x, y)
      BY <1>4, <1>7
  <1> QED
      BY <1>8 DEF FirstNamed, S

(* A match is of a tuple, by a rule on pairs or by its name alone.         *)
LEMMA MatchIsOf ==
  ASSUME NEW universe, NEW tuples, Setting(universe, tuples),
         NEW features \in SUBSET FeaturesOf(universe, tuples), NEW ranking,
         NEW m \in AllMatches(features, universe, tuples, ranking)
  PROVE  /\ m.tuple \in tuples /\ m.row \in universe
         /\ \/ m.tier # "name_only" /\ m \in ResolveMatches(features, ranking)
            \/ /\ m.tier = "name_only" /\ m = NameOnly(universe, m.tuple)
               /\ OneNamed(universe, m.tuple)
               /\ m.tuple \notin {x.tuple : x \in ResolveMatches(features, ranking)}
  <1>1. CASE m \in ResolveMatches(features, ranking)
    <2>1. PICK w \in Early(features, ranking) : m = Match(w)
        BY <1>1, Resolved
    <2>2. w \in features
        BY DEF Early, Final
    <2> QED
        BY <1>1, <2>1, <2>2, FeatureOf, MatchFields
  <1>2. CASE m \notin ResolveMatches(features, ranking)
    <2> DEFINE matched == {x.tuple : x \in ResolveMatches(features, ranking)}
    <2>1. m \in NameOnlyMatches(universe, tuples, matched)
        BY <1>2 DEF AllMatches
    <2> HIDE DEF matched
    <2>2. PICK g \in tuples \ matched : m = NameOnly(universe, g) /\ OneNamed(universe, g)
        BY <2>1, NameOnlyMatchesAre
    <2>3. m.tuple = g /\ m.tier = "name_only" /\ m.row = FirstNamed(universe, g)
        BY <2>2 DEF NameOnly
    <2>4. FirstNamed(universe, g) \in universe
        BY <2>2, FirstNamedIs DEF Namesakes
    <2> QED
        BY <2>2, <2>3, <2>4 DEF matched
  <1> QED
      BY <1>1, <1>2

(* Refusing shared names before the winner is picked loses no match: a     *)
(* winner that is not refused was not refused early, so its tuple has one. *)
LEMMA EarlyRefusalAdds ==
  ASSUME NEW universe, NEW tuples, Setting(universe, tuples),
         NEW features \in SUBSET FeaturesOf(universe, tuples)
  PROVE  {m.tuple : m \in AllMatches(features, universe, tuples, "weighted")}
           \subseteq {m.tuple : m \in AllMatches(features, universe, tuples, "named_first")}
  <1> DEFINE late == ResolveMatches(features, "weighted")
             early == ResolveMatches(features, "named_first")
             of(matches) == {m.tuple : m \in matches}
  <1>1. of(late) \subseteq of(early)
    <2> SUFFICES ASSUME NEW m \in late PROVE m.tuple \in of(early)
        OBVIOUS
    <2>1. PICK w \in Early(features, "weighted") : m = Match(w) /\ ~OneFilerRefused(w, Final(features))
        BY Resolved
    <2>2. w \in Early(features, "named_first")
        BY <2>1 DEF Early, EarlyRefused
    <2>3. PICK b \in Early(features, "named_first") :
            b = Best(features, w.tuple, "named_first") /\ b.tuple = w.tuple
        BY <2>2, BestOf
    <2>4. ~OneFilerRefused(b, Final(features))
        BY <2>3 DEF Early, EarlyRefused
    <2>5. Match(b) \in early
        BY <2>2, <2>3, <2>4, Resolved
    <2>6. m.tuple = w.tuple /\ Match(b).tuple = w.tuple
        BY <2>1, <2>3, MatchFields
    <2> QED
        BY <2>5, <2>6
  <1> HIDE DEF late, early
  <1> SUFFICES ASSUME NEW m \in AllMatches(features, universe, tuples, "weighted"), m.tuple \notin of(early)
               PROVE  m.tuple \in of(NameOnlyMatches(universe, tuples, of(early)))
      BY DEF AllMatches, early
  <1>2. m.tuple \in tuples /\ OneNamed(universe, m.tuple)
    <2>1. m \notin late
        BY <1>1
    <2> QED
        BY <2>1, MatchIsOf DEF late
  <1> HIDE DEF of
  <1>3. NameOnly(universe, m.tuple) \in NameOnlyMatches(universe, tuples, of(early))
      BY <1>2, NameOnlyMatchesAre
  <1>4. NameOnly(universe, m.tuple).tuple = m.tuple
      BY DEF NameOnly
  <1> QED
      BY <1>3, <1>4 DEF of

(* A shared name decides nothing: of a tuple without a street address the  *)
(* pairs of the state that carry its name would all be filers in its state.*)
Namesake(universe, m) ==
  {u \in universe : FullName(u) = FullName(m.tuple) /\ FullName(u) # <<>>}
Around(universe, m) ==
  IF m.tier = "name_only" THEN Namesake(universe, m)
  ELSE {u \in Namesake(universe, m) : u.place.state = m.tuple.place.state}

(* So one EIN, the match's, carries the name there.                        *)
LEMMA OneFilerAround ==
  ASSUME NEW universe, NEW tuples, Setting(universe, tuples), NEW ranking,
         NEW m \in AllMatches(ScoreSlice(universe, tuples), universe, tuples, ranking),
         m.tier # "address_and_name", m.tuple.place.line \notin Streets
  PROVE  Cardinality({u.ein : u \in Around(universe, m)} \cup {m.row.ein}) = 1
  <1> DEFINE features == ScoreSlice(universe, tuples)
             eins == {u.ein : u \in Around(universe, m)} \cup {m.row.ein}
             final == Final(FeaturesOf(universe, tuples))
  <1>1. features \in SUBSET FeaturesOf(universe, tuples) /\ Final(features) = final
      BY ScoreSliceIs
  <1>2. CASE m.tier = "name_only"
    <2>0. m = NameOnly(universe, m.tuple) /\ OneNamed(universe, m.tuple)
        BY <1>1, <1>2, MatchIsOf
    <2>1. m.row = FirstNamed(universe, m.tuple) /\ OneNamed(universe, m.tuple)
      <3>1. \A g : NameOnly(universe, g).row = FirstNamed(universe, g)
          BY DEF NameOnly
      <3> QED
          BY <2>0, <3>1
    <2>2. m.row \in Namesakes(universe, m.tuple)
        BY <2>1, FirstNamedIs
    <2>3. Around(universe, m) = Namesakes(universe, m.tuple)
        BY <1>2, <2>1 DEF Around, Namesake, Namesakes, OneNamed
    <2>4. eins = {u.ein : u \in Namesakes(universe, m.tuple)}
        BY <2>2, <2>3
    <2> QED
        BY <2>1, <2>4 DEF OneNamed
  <1>3. CASE m.tier # "name_only"
    <2>1. m \in ResolveMatches(features, ranking)
        BY <1>1, <1>3, MatchIsOf
    <2>2. PICK w \in Early(features, ranking) : m = Match(w) /\ ~OneFilerRefused(w, final)
        BY <1>1, <2>1, Resolved
    <2>3. w \in final /\ w \in FeaturesOf(universe, tuples)
        BY <1>1, <2>2 DEF Early, Final
    <2>4. PICK g \in tuples : g = w.tuple /\ m.tuple = g /\ m.row = w.row /\ w = Feature(w.row, g)
      <3>1. w.tuple \in tuples /\ w = Feature(w.row, w.tuple)
          BY <2>3, FeatureOf
      <3>2. m.tuple = w.tuple /\ m.row = w.row
          BY <2>2, MatchFields
      <3> QED
          BY <3>1, <3>2
    <2> DEFINE held == FilersInState(final, g)
    <2>5. ~ByAddress(w, FINAL_FILTER_RULES)
        BY <2>2, MatchFields
    <2>6. w.name >= ExactName /\ w.state
        BY <2>3, <2>5 DEF Final, PassesRules, ExactName
    <2>7. w.row.ein \in held
        BY <2>3, <2>4, <2>6 DEF FilersInState
    <2>8. held = {w.row.ein}
      <3>1. IsFiniteSet(held)
        <4> DEFINE here == {x \in final : x.tuple = g /\ x.name >= ExactName /\ x.state}
                   ein == [f \in here |-> f.row.ein]
        <4>1. IsFiniteSet(here)
            BY FeaturesFinite, FS_Subset DEF Final
        <4>2. ein \in [here -> held] /\ \A e \in held : \E f \in here : ein[f] = e
            BY DEF FilersInState
        <4> HIDE DEF here, ein, held
        <4> QED
            BY <4>1, <4>2, ImageFinite
      <3>2. ~(Cardinality(held) > 1)
          BY <2>2, <2>4, <2>5 DEF OneFilerRefused
      <3> HIDE DEF held
      <3>3. Cardinality(held) \in Nat /\ Cardinality(held) # 0
          BY <2>7, <3>1, FS_CardinalityType, FS_EmptySet
      <3>4. Cardinality(held) = 1
          BY <3>2, <3>3
      <3>5. PICK x : held = {x}
          BY <3>1, <3>4, FS_Singleton
      <3> QED
          BY <2>7, <3>5
    <2>9. ASSUME NEW u \in Around(universe, m) PROVE u.ein \in held
      <3>1. /\ u \in universe /\ FullName(u) = FullName(g) /\ FullName(g) # <<>>
            /\ u.place.state = g.place.state
          BY <1>3, <2>4 DEF Around, Namesake
      <3>2. PICK f : f = Feature(u, g)
          OBVIOUS
      <3>3. f \in FeaturesOf(universe, tuples)
        <4>1. <<u, g>> \in CandidatePairs(universe, tuples)
            BY <3>1 DEF CandidatePairs
        <4> QED
            BY <3>2, <4>1 DEF FeaturesOf
      <3>4. f.name = 100 /\ f.row = u /\ f.tuple = g
          BY <3>1, <3>2 DEF Feature
      <3>5. f.state
        <4>1. w.state <=> w.row.place.state # "" /\ w.row.place.state = g.place.state
            BY <2>4, FeatureTruths
        <4>2. f.state <=> u.place.state # "" /\ u.place.state = g.place.state
            BY <3>2, FeatureTruths
        <4> QED
            BY <2>6, <3>1, <4>1, <4>2
      <3>6. f \in final
          BY <3>3, <3>4, <3>5 DEF Final, PassesRules, GovernmentRefusal, ExactName, FINAL_FILTER_RULES, Setting
      <3> QED
          BY <3>4, <3>5, <3>6 DEF FilersInState, ExactName, FINAL_FILTER_RULES
    <2>10. eins = {w.row.ein}
        BY <2>4, <2>8, <2>9
    <2> QED
        BY <2>10, FS_Singleton
  <1> QED
      BY <1>2, <1>3

(* The preflight scores the tuples its lines could win, against every row  *)
(* that blocks with one of them.                                           *)
LEMMA PreflightIs ==
  ASSUME NEW universe, NEW tuples, Setting(universe, tuples), NEW family
  PROVE  Preflight(family, universe, tuples)
           = {m \in MatchSlice(universe, tuples) : m.tuple \in FamilyGrants(family, tuples)}
  <1>1. PICK slice \in SUBSET tuples : slice = FamilyGrants(family, tuples)
      BY DEF FamilyGrants
  <1>2. PICK rows \in SUBSET universe : rows = FamilyUniverse(family, universe, slice)
      BY DEF FamilyUniverse
  <1>3. \A u \in universe, g \in slice : SameBlockZip(u, g) \/ FullName(u) = FullName(g) => u \in rows
      BY <1>2 DEF FamilyUniverse, SameBlockZip
  <1> DEFINE all == ScoreSlice(universe, tuples)
             within == {f \in all : f.tuple \in slice}
             won == ResolveMatches(all, "named_first")
             wonWithin == ResolveMatches(within, "named_first")
             matched == {m.tuple : m \in won}
             matchedWithin == {m.tuple : m \in wonWithin}
  <1>4. CandidatePairs(rows, slice) = {p \in CandidatePairs(universe, tuples) : p[2] \in slice}
      BY <1>3 DEF CandidatePairs
  <1>5. ScoreSlice(rows, slice) = within
    <2>1. \A p \in CandidatePairs(universe, tuples) : Feature(p[1], p[2]).tuple = p[2]
        BY FeatureFields
    <2> QED
        BY <1>4, <2>1 DEF ScoreSlice
  <1>6. wonWithin = {m \in won : m.tuple \in slice}
      BY ScoreSliceIs, ResolvedWithin
  <1>7. ASSUME NEW g \in slice
        PROVE  NameOnly(rows, g) = NameOnly(universe, g) /\ (OneNamed(rows, g) <=> OneNamed(universe, g))
    <2>1. Namesakes(rows, g) = Namesakes(universe, g)
        BY <1>3 DEF Namesakes
    <2>2. FirstNamed(rows, g) = FirstNamed(universe, g)
        BY <2>1 DEF FirstNamed
    <2> QED
        BY <2>1, <2>2 DEF NameOnly, OneNamed
  <1>8. slice \ matchedWithin = (slice \ matched)
      BY <1>6
  <1> HIDE DEF all, within, won, wonWithin, matched, matchedWithin
  <1>9. NameOnlyMatches(rows, slice, matchedWithin)
          = {m \in NameOnlyMatches(universe, tuples, matched) : m.tuple \in slice}
    <2>1. \A g : NameOnly(universe, g).tuple = g
        BY DEF NameOnly
    <2>2. NameOnlyMatches(rows, slice, matchedWithin)
            = {NameOnly(rows, g) : g \in {x \in slice \ matchedWithin : OneNamed(rows, x)}}
        BY NameOnlyMatchesAre
    <2>3. NameOnlyMatches(universe, tuples, matched)
            = {NameOnly(universe, g) : g \in {x \in tuples \ matched : OneNamed(universe, x)}}
        BY NameOnlyMatchesAre
    <2>4. {NameOnly(rows, g) : g \in {x \in slice \ matchedWithin : OneNamed(rows, x)}}
            = {NameOnly(universe, g) : g \in {x \in slice \ matched : OneNamed(universe, x)}}
        BY <1>7, <1>8
    <2> QED
        BY <2>1, <2>2, <2>3, <2>4
  <1>10. Preflight(family, universe, tuples) = wonWithin \cup NameOnlyMatches(rows, slice, matchedWithin)
      BY <1>1, <1>2, <1>5 DEF Preflight, MatchSlice, AllMatches, wonWithin, matchedWithin
  <1>11. MatchSlice(universe, tuples) = won \cup NameOnlyMatches(universe, tuples, matched)
      BY DEF MatchSlice, AllMatches, won, matched, all
  <1> QED
      BY <1>1, <1>6, <1>9, <1>10, <1>11

(* A tuple that a line's row wins is in the slice of the line's family.    *)
LEMMA LineInSlice ==
  ASSUME NEW universe, NEW tuples, Setting(universe, tuples),
         NEW m \in MatchSlice(universe, tuples),
         NEW family, NEW c \in family, c.name = m.row.name
  PROVE  m.tuple \in FamilyGrants(family, tuples)
  <1>1. ScoreSlice(universe, tuples) \in SUBSET FeaturesOf(universe, tuples)
      BY ScoreSliceIs
  <1>2. m \in AllMatches(ScoreSlice(universe, tuples), universe, tuples, "named_first")
      BY DEF MatchSlice
  <1>3. m.tuple \in tuples
      BY <1>1, <1>2, MatchIsOf
  <1>4. CASE m \in ResolveMatches(ScoreSlice(universe, tuples), "named_first")
    <2>1. PICK w \in Early(ScoreSlice(universe, tuples), "named_first") : m = Match(w)
        BY <1>1, <1>4, Resolved
    <2>2. w \in Final(ScoreSlice(universe, tuples)) /\ w \in FeaturesOf(universe, tuples)
        BY <1>1 DEF Early, Final
    <2>a. m.row = w.row /\ m.tuple = w.tuple
        BY <2>1, MatchFields
    <2>3. Percents(w) /\ w = Feature(m.row, m.tuple)
        BY <2>2, <2>a, FeatureOf
    <2>4. w.name >= 70
        BY <2>2, <2>3 DEF Percents, Final, PassesRules, ByAddress, Reaches, FINAL_FILTER_RULES
    <2>5. w.name = IF FullName(m.row) = FullName(m.tuple) /\ FullName(m.tuple) # <<>>
                   THEN 100 ELSE NameScore(m.row.name, m.tuple.name)
        BY <2>3, FeatureFields
    <2>6. FullName(c) = FullName(m.row)
        BY DEF FullName
    <2> QED
        BY <1>3, <2>4, <2>5, <2>6 DEF FamilyGrants
  <1>5. CASE m \notin ResolveMatches(ScoreSlice(universe, tuples), "named_first")
    <2>1. m = NameOnly(universe, m.tuple) /\ OneNamed(universe, m.tuple)
        BY <1>1, <1>2, <1>5, MatchIsOf
    <2>2. m.row \in Namesakes(universe, m.tuple)
        BY <2>1, FirstNamedIs DEF NameOnly
    <2> QED
        BY <1>3, <2>2 DEF FamilyGrants, Namesakes, FullName
  <1> QED
      BY <1>4, <1>5

(* Full marks in the same place, and not by a record of the BMF, give the  *)
(* greatest key there is, and only full marks give it.                     *)
LEMMA FullMarks ==
  ASSUME NEW f, Percents(f), f.name = 100, f.addr = 100, LocationAgreement(f) = 3, f.row.source # "eo_bmf"
  PROVE  RankKey(f, "named_first") = <<1, 1, 3, 1, 1, 300>>
  <1>1. f.name >= ExactName
      BY DEF ExactName, FINAL_FILTER_RULES
  <1>2. Bit(f.name >= ExactName \/ NamesHeld(f)) = 1 /\ Bit(f.name >= ExactName) = 1
        /\ Bit(f.name >= ExactName /\ f.row.source # "eo_bmf") = 1
      BY <1>1 DEF Bit
  <1>3. Bit(LocationAgreement(f) > 0) = 1 /\ 2 * f.name + f.addr = 300
      BY DEF Bit
  <1> QED
      BY <1>2, <1>3 DEF RankKey

(* No key sorts before that one.                                           *)
LEMMA OnlyFullMarks ==
  ASSUME NEW f, Percents(f)
  PROVE  /\ ~Higher(RankKey(f, "named_first"), <<1, 1, 3, 1, 1, 300>>)
         /\ RankKey(f, "named_first") = <<1, 1, 3, 1, 1, 300>> => f.name = 100 /\ f.addr = 100
  <1>1. PICK a, b, d, e \in 0..1 :
          /\ a = Bit(LocationAgreement(f) > 0)
          /\ b = Bit(f.name >= ExactName \/ NamesHeld(f))
          /\ d = Bit(f.name >= ExactName)
          /\ e = Bit(f.name >= ExactName /\ f.row.source # "eo_bmf")
      BY BitIs, Zenon
  <1>2. PICK tier \in 0..3 : tier = LocationAgreement(f)
      BY TierIs, Zenon
  <1>a. PICK combined \in 0..300 :
          combined = 2 * f.name + f.addr /\ (combined = 300 => f.name = 100 /\ f.addr = 100)
    <2>1. PICK n, k : n = f.name /\ k = f.addr
        OBVIOUS
    <2>2. n \in 0..100 /\ k \in 0..100
        BY <2>1 DEF Percents
    <2>3. PICK combined \in 0..300 : combined = 2 * n + k /\ (combined = 300 => n = 100 /\ k = 100)
        BY <2>2
    <2> QED
        BY <2>1, <2>3
  <1>3. RankKey(f, "named_first") = <<a, b, tier, d, e, combined>>
      BY <1>1, <1>2, <1>a DEF RankKey
  <1>4. ~Higher(<<a, b, tier, d, e, combined>>, <<1, 1, 3, 1, 1, 300>>)
      BY DEF Higher
  <1>5. <<a, b, tier, d, e, combined>> = <<1, 1, 3, 1, 1, 300>> => f.name = 100 /\ f.addr = 100
      BY <1>a
  <1> QED
      BY <1>3, <1>4, <1>5

(* So a correction line wins the tuple it was written from.                *)
Twin(u, c) ==
  /\ FullName(u) = FullName(c) \/ NameScore(u.name, c.name) = 100
  /\ AddressScore(u.place, c.place) = 100

(* A tuple written as the line is goes to its EIN, but for a twin.         *)
LEMMA LineWins ==
  ASSUME NEW universe, NEW tuples, Setting(universe, tuples),
         NEW c, c.place \in Places, Addressed(c.place), FullName(c) # <<>>, CleanZip(c.place.zip) # "00000",
         NEW r \in universe, r.ein = c.ein, r.name = c.name, r.place = c.place, r.source # "eo_bmf"
  PROVE  (\A u \in universe : Twin(u, c) => u.ein = c.ein)
           => VerbatimWon(c, tuples, MatchSlice(universe, tuples))
  <1>0. \A x \in FeaturesOf(universe, tuples) :
          x.row \in universe /\ Percents(x) /\ x = Feature(x.row, x.tuple)
      BY FeatureOf
  <1> SUFFICES ASSUME \A u \in universe : Twin(u, c) => u.ein = c.ein,
                      NEW g \in tuples, g.name = c.name, CleanZip(g.place.zip) = CleanZip(c.place.zip),
                      [g.place EXCEPT !.zip = c.place.zip] = c.place
               PROVE  \E m \in MatchSlice(universe, tuples) : m.tuple = g /\ m.row.ein = c.ein
      BY DEF VerbatimWon
  <1> DEFINE features == ScoreSlice(universe, tuples)
             final == Final(FeaturesOf(universe, tuples))
             early == Early(features, "named_first")
  <1>1. features \in SUBSET FeaturesOf(universe, tuples) /\ Final(features) = final
      BY ScoreSliceIs
  <1>2. FullName(r) = FullName(c) /\ FullName(g) = FullName(c)
      BY DEF FullName
  <1>3. g.place \in Places /\ g.name \notin Pointers
      BY DEF Setting, Placed
  <1>4. \A p \in Places : AddressScore(p, g.place) = AddressScore(p, c.place)
      BY <1>3, ScoresAssumption
  <1>5. PICK f : f = Feature(r, g)
      OBVIOUS
  <1>6. f.row = r /\ f.tuple = g /\ f.name = 100 /\ f.addr = 100
    <2>1. AddressScore(c.place, g.place) = 100
        BY <1>4, ScoresAssumption
    <2> QED
        BY <1>2, <1>5, <2>1, FeatureFields
  <1>7. f \in FeaturesOf(universe, tuples)
    <2>1. <<r, g>> \in CandidatePairs(universe, tuples)
        BY <1>2 DEF CandidatePairs
    <2> QED
        BY <1>5, <2>1 DEF FeaturesOf
  <1>8. ByAddress(f, FINAL_FILTER_RULES)
      BY <1>6 DEF ByAddress, Reaches, FINAL_FILTER_RULES
  <1>9. f \in final
      BY <1>3, <1>6, <1>7, <1>8 DEF Final, PassesRules, GovernmentRefusal, ExactName, FINAL_FILTER_RULES
  <1>10. f \in early
      BY <1>1, <1>8, <1>9 DEF Early, EarlyRefused, OneFilerRefused
  <1>11. PICK b \in early : /\ b = Best(features, g, "named_first") /\ b.tuple = g
                            /\ b # f => Beats(b, f, "named_first")
      BY <1>1, <1>6, <1>10, BestOf
  <1>12. Match(b) \in MatchSlice(universe, tuples)
    <2>1. ~OneFilerRefused(b, Final(features))
        BY <1>11 DEF Early, EarlyRefused
    <2>2. Match(b) \in ResolveMatches(features, "named_first")
        BY <1>1, <1>6, <1>10, <1>11, <2>1, Resolved
    <2> QED
        BY <2>2 DEF MatchSlice, AllMatches
  <1>13. b.row.ein = c.ein
    <2>1. CASE b = f
        BY <1>6, <2>1
    <2>2. CASE b # f
      <3>1. b \in FeaturesOf(universe, tuples)
          BY <1>1 DEF Early, Final
      <3> HIDE DEF features, final, early
      <3>a. b.tuple = g
          BY <1>11
      <3>b. b.row \in universe /\ Percents(b) /\ b = Feature(b.row, b.tuple)
          BY <1>0, <3>1
      <3>2. b.row \in universe /\ Percents(b) /\ b = Feature(b.row, g)
          BY <3>a, <3>b
      <3>3. LocationAgreement(f) = 3
        <4>1. /\ CleanZip(f.row.place.zip) # "00000" /\ f.addr >= 90
              /\ CleanZip(f.row.place.zip) = CleanZip(f.tuple.place.zip)
            BY <1>6
        <4> QED
            BY <4>1 DEF LocationAgreement
      <3>4. RankKey(f, "named_first") = <<1, 1, 3, 1, 1, 300>>
          BY <1>6, <3>3, FullMarks DEF Percents
      <3>5. b.name = 100 /\ b.addr = 100
          BY <1>11, <2>2, <3>2, <3>4, OnlyFullMarks DEF Beats
      <3>6. AddressScore(b.row.place, c.place) = 100
        <4>1. b.row.place \in Places
            BY <3>2 DEF Setting, Placed
        <4>2. b.addr = AddressScore(b.row.place, g.place)
            BY <3>2, FeatureFields
        <4> QED
            BY <1>4, <3>5, <4>1, <4>2
      <3>7. FullName(b.row) = FullName(c) \/ NameScore(b.row.name, c.name) = 100
        <4>1. b.name = IF FullName(b.row) = FullName(g) /\ FullName(g) # <<>>
                       THEN 100 ELSE NameScore(b.row.name, g.name)
            BY <3>2, FeatureFields
        <4> QED
            BY <1>2, <3>5, <4>1
      <3> QED
          BY <3>2, <3>6, <3>7 DEF Twin
    <2> QED
        BY <2>1, <2>2
  <1> QED
      BY <1>11, <1>12, <1>13, MatchFields

(* Among the rows of one EIN no pair is refused for another filer's sake,  *)
(* so that a tuple is matched by a rule on pairs when some pair passes.    *)
LEMMA OneEINMatches ==
  ASSUME NEW rows, NEW g, Setting(rows, {g}), \A u, v \in rows : u.ein = v.ein
  PROVE  (\E m \in AllMatches(ScoreSlice(rows, {g}), rows, {g}, "named_first") : m.tier # "name_only")
           <=> Final(FeaturesOf(rows, {g})) # {}
  <1> DEFINE features == ScoreSlice(rows, {g})
             final == Final(FeaturesOf(rows, {g}))
  <1>1. features \in SUBSET FeaturesOf(rows, {g}) /\ Final(features) = final
      BY ScoreSliceIs
  <1>2. ASSUME NEW f \in FeaturesOf(rows, {g}) PROVE f.row \in rows /\ f.tuple = g
    <2>1. f.row \in rows /\ f.tuple \in {g}
        BY FeatureOf
    <2> QED
        BY <2>1
  <1>3. \A f \in final : ~OneFilerRefused(f, final)
    <2>1. \A f \in final : f.row \in rows
        BY <1>2 DEF Final
    <2>2. ~(Cardinality(FilersInState(final, g)) > 1)
      <3>1. ASSUME NEW d \in FilersInState(final, g), NEW e \in FilersInState(final, g) PROVE d = e
        <4>1. PICK f \in final : d = f.row.ein
            BY DEF FilersInState
        <4>2. PICK h \in final : e = h.row.ein
            BY DEF FilersInState
        <4> QED
            BY <2>1, <4>1, <4>2
      <3>2. CASE FilersInState(final, g) = {}
        <4>1. Cardinality(FilersInState(final, g)) = 0
            BY <3>2, FS_EmptySet
        <4> QED
            BY <4>1
      <3>3. CASE FilersInState(final, g) # {}
        <4>1. PICK e : FilersInState(final, g) = {e}
            BY <3>1, <3>3
        <4>2. Cardinality(FilersInState(final, g)) = 1
            BY <4>1, FS_Singleton
        <4> QED
            BY <4>2
      <3> QED
          BY <3>2, <3>3
    <2>3. \A f \in final : f.tuple = g
        BY <1>2 DEF Final
    <2> QED
        BY <2>2, <2>3 DEF OneFilerRefused
  <1>4. Early(features, "named_first") = final
      BY <1>1, <1>3 DEF Early, EarlyRefused
  <1> HIDE DEF features, final
  <1>5. ASSUME NEW m \in AllMatches(features, rows, {g}, "named_first"), m.tier # "name_only"
        PROVE  final # {}
    <2>1. m \in ResolveMatches(features, "named_first")
        BY <1>1, <1>5, MatchIsOf
    <2> QED
        BY <1>1, <1>4, <2>1, Resolved
  <1>6. ASSUME NEW f \in final
        PROVE  \E m \in AllMatches(features, rows, {g}, "named_first") : m.tier # "name_only"
    <2>1. PICK b \in final : b = Best(features, f.tuple, "named_first")
        BY <1>1, <1>4, BestOf
    <2>2. Match(b) \in ResolveMatches(features, "named_first")
        BY <1>1, <1>3, <1>4, <2>1, Resolved
    <2> QED
        BY <2>2, MatchFields DEF AllMatches
  <1> QED
      BY <1>5, <1>6 DEF features, final

(* A row as the explainer reads it and as the universe has it: of one name *)
(* and one place, but for zips that are the same cleaned.                  *)
Alike(x, u) ==
  /\ x.name = u.name /\ x.place \in Places /\ u.place \in Places
  /\ x.place.state = u.place.state /\ CleanZip(x.place.zip) = CleanZip(u.place.zip)
  /\ u.place = [x.place EXCEPT !.zip = u.place.zip]

(* Such rows are as near to any place.                                     *)
LEMMA AlikeScores ==
  ASSUME NEW x, NEW u, Alike(x, u), NEW q \in Places
  PROVE  AddressScore(x.place, q) = AddressScore(u.place, q)
  BY ScoresAssumption DEF Alike

(* A row is like itself,                                                   *)
LEMMA SameAlike ==
  ASSUME NEW x, NEW u, x.name = u.name, x.place = u.place, u.place \in Places
  PROVE  Alike(x, u)
  <1>1. u.place \in [line : STRING, city : STRING, state : STRING, zip : STRING]
      BY ScoresAssumption
  <1> QED
      BY <1>1 DEF Alike

(* and a line of the registry as written like the row made of it, when its *)
(* zip means the same.                                                     *)
Line(c) == [ein |-> c.ein, name |-> c.name, place |-> ZipCut(c.place)]

LEMMA LineAlike ==
  ASSUME NEW c, c.place \in Places, SaysItsZip(c), NEW x, x.name = c.name, x.place = c.place,
         NEW u, u.name = Line(c).name, u.place = Line(c).place
  PROVE  Alike(x, u)
  <1>1. PICK p \in [line : STRING, city : STRING, state : STRING, zip : STRING] : p = c.place
      BY ScoresAssumption
  <1>2. u.place = ZipCut(p) /\ ZipCut(p) \in Places
      BY <1>1, ScoresAssumption DEF Line
  <1>3. ZipCut(p) = [p EXCEPT !.zip = FirstFive[p.zip]]
      BY DEF ZipCut
  <1>4. /\ ZipCut(p).zip = FirstFive[p.zip] /\ ZipCut(p).state = p.state
        /\ ZipCut(p) = [p EXCEPT !.zip = ZipCut(p).zip]
      BY <1>3
  <1>5. CleanZip(p.zip) = CleanZip(ZipCut(p).zip)
      BY <1>1, <1>4 DEF SaysItsZip
  <1> QED
      BY <1>1, <1>2, <1>4, <1>5 DEF Alike, Line

(* The explainer says "would match" of the pairs that would: without an    *)
(* address on both sides a pair passes only by its state, which is one.    *)
LEMMA ExplainedAsMatched ==
  ASSUME NEW x, NEW k, NEW u, NEW g, Alike(x, u), k.name = g.name, k.place = g.place,
         u.place \in Places, g.place \in Places, u.name \in DOMAIN CleanName, g.name \in DOMAIN CleanName
  PROVE  ExplainedMatch(Feature(x, k)) <=>
           /\ PassesRules(Feature(u, g), FINAL_FILTER_RULES)
           /\ ~GovernmentRefusal(Feature(u, g)) /\ g.name \notin Pointers
           /\ SameBlockZip(u, g) \/ FullName(u) = FullName(g)
  <1>1. PICK e : e = Feature(x, k)
      OBVIOUS
  <1>2. PICK f : f = Feature(u, g)
      OBVIOUS
  <1>3. /\ e.row = x /\ e.tuple = k /\ f.row = u /\ f.tuple = g
        /\ e.name = f.name /\ e.addr = f.addr
    <2>1. AddressScore(x.place, k.place) = AddressScore(u.place, g.place) /\ x.name = u.name
        BY AlikeScores DEF Alike
    <2> QED
        BY <1>1, <1>2, <2>1, FeatureFields DEF FullName
  <1>4. (e.zip <=> f.zip) /\ (e.state <=> f.state)
    <2>1. /\ e.zip <=> CleanZip(x.place.zip) = CleanZip(k.place.zip)
          /\ e.state <=> (x.place.state # "" /\ x.place.state = k.place.state)
        BY <1>1, FeatureTruths
    <2>2. /\ f.zip <=> CleanZip(u.place.zip) = CleanZip(g.place.zip)
          /\ f.state <=> (u.place.state # "" /\ u.place.state = g.place.state)
        BY <1>2, FeatureTruths
    <2> QED
        BY <2>1, <2>2 DEF Alike
  <1>5. PassesRules(e, FINAL_FILTER_RULES) <=> PassesRules(f, FINAL_FILTER_RULES)
      BY <1>3, <1>4 DEF PassesRules, ByAddress, Reaches
  <1>6. GovernmentRefusal(e) <=> GovernmentRefusal(f)
      BY <1>3 DEF GovernmentRefusal, Alike
  <1>7. BlockedVia(e) # {} <=> CleanZip(u.place.zip) = CleanZip(g.place.zip) \/ FullName(u) = FullName(g)
    <2>1. f.zip <=> CleanZip(u.place.zip) = CleanZip(g.place.zip)
        BY <1>2, FeatureTruths
    <2>2. FullName(e.row) = FullName(u) /\ FullName(e.tuple) = FullName(g)
        BY <1>3 DEF FullName, Alike
    <2>3. "zip" \in BlockedVia(e) <=> e.zip
        BY DEF BlockedVia
    <2>4. "name" \in BlockedVia(e) <=> FullName(e.row) = FullName(e.tuple)
        BY DEF BlockedVia
    <2>5. BlockedVia(e) \subseteq {"zip", "name"}
        BY DEF BlockedVia
    <2> QED
        BY <1>4, <2>1, <2>2, <2>3, <2>4, <2>5
  <1>8. PassesRules(f, FINAL_FILTER_RULES) => HasAddress(u) /\ HasAddress(g)
    <2>1. CASE ByAddress(f, FINAL_FILTER_RULES)
      <3>a. f.addr = AddressScore(u.place, g.place)
          BY <1>2, FeatureFields
      <3>1. f.addr = AddressScore(u.place, g.place) /\ f.addr \in 0..100
          BY <3>a, ScoresAssumption
      <3>2. f.addr > 0
          BY <2>1, <3>1 DEF ByAddress, Reaches, FINAL_FILTER_RULES
      <3> QED
          BY <3>1, <3>2, ScoresAssumption DEF HasAddress
    <2>2. CASE f.state
        BY <1>2, <2>2, FeatureTruths DEF HasAddress, Addressed
    <2> QED
        BY <2>1, <2>2 DEF PassesRules
  <1> QED
      BY <1>1, <1>2, <1>3, <1>5, <1>6, <1>7, <1>8 DEF ExplainedMatch, SameBlockZip

-----------------------------------------------------------------------------
(* The universe and the tuples of tables                                   *)

(* Rows of three columns, and the tables a run reads them from.            *)
Bare(r) == [ein |-> r.ein, name |-> r.name, place |-> r.place]

Tables(db) ==
  /\ DOMAIN db = {"filings", "pf", "bmf", "corrections"}
  /\ \A arm \in DOMAIN db : NamedRows(db[arm])
  /\ \A r \in db.bmf : r.sort \in DOMAIN CleanName
  /\ \A c \in db.corrections : ValidCorrection(c) /\ (c.twoLetters => c.place.state # "")

Known(rows) == IsFiniteSet(rows) /\ \A r \in rows : r = Bare(r) /\ r.name \in DOMAIN CleanName /\ r.place \in Places

(* The four arms of the universe.                                          *)
LEMMA ArmsAre ==
  ASSUME NEW db
  PROVE  /\ DOMAIN Arms(db) = {"basic_fields", "basic_fields_pf", "correction", "eo_bmf"}
         /\ Arms(db)["basic_fields"] = FilerRows(db.filings)
         /\ Arms(db)["basic_fields_pf"] = FilerRows(db.pf)
         /\ Arms(db)["correction"] = CorrectionRows(db.corrections)
         /\ Arms(db)["eo_bmf"] = BmfRows(db.bmf)
  BY DEF Arms

(* The rows of a table, with three columns, are known.                     *)
LEMMA BareRowsKnown ==
  ASSUME NEW S, NamedRows(S)
  PROVE  Known({Bare(r) : r \in S})
  <1> DEFINE bare == [r \in S |-> Bare(r)]
  <1>1. bare \in [S -> {Bare(r) : r \in S}] /\ \A b \in {Bare(r) : r \in S} : \E r \in S : bare[r] = b
      OBVIOUS
  <1>2. IsFiniteSet({Bare(r) : r \in S})
    <2> HIDE DEF bare
    <2> QED
        BY <1>1, ImageFinite DEF NamedRows
  <1>3. \A b \in {Bare(r) : r \in S} : b = Bare(b) /\ b.name \in DOMAIN CleanName /\ b.place \in Places
      BY DEF NamedRows, Bare
  <1> QED
      BY <1>2, <1>3 DEF Known

(* So are those of the 990 and 990-PF views,                               *)
LEMMA FilerRowsKnown ==
  ASSUME NEW S, NamedRows(S)
  PROVE  Known(FilerRows(S))
  <1>1. NamedRows({x \in S : x.recent})
      BY FS_Subset DEF NamedRows
  <1>2. FilerRows(S) = {Bare(r) : r \in {x \in S : x.recent}}
      BY DEF FilerRows, Bare
  <1> QED
      BY <1>1, <1>2, BareRowsKnown

(* of the BMF view, by name of record or sort name,                        *)
LEMMA BmfRowsKnown ==
  ASSUME NEW S, NamedRows(S), \A r \in S : r.sort \in DOMAIN CleanName
  PROVE  Known(BmfRows(S))
  <1> DEFINE Sorted(r) == [ein |-> r.ein, name |-> r.sort, place |-> r.place]
             sorted == [r \in S |-> Sorted(r)]
             names == {Bare(r) : r \in S}
             sorts == {Sorted(r) : r \in S}
  <1>1. Known(names)
      BY BareRowsKnown
  <1>2. IsFiniteSet(sorts)
    <2>1. sorted \in [S -> sorts] /\ \A b \in sorts : \E r \in S : sorted[r] = b
        OBVIOUS
    <2> HIDE DEF sorted, sorts
    <2> QED
        BY <2>1, ImageFinite DEF NamedRows
  <1>3. \A b \in sorts : b = Bare(b) /\ b.name \in DOMAIN CleanName /\ b.place \in Places
      BY DEF NamedRows, Bare
  <1>4. BmfRows(S) \subseteq names \cup sorts
      BY DEF BmfRows, Bare
  <1> HIDE DEF names, sorts
  <1>5. IsFiniteSet(names \cup sorts)
      BY <1>1, <1>2, FS_Union DEF Known
  <1> QED
      BY <1>1, <1>3, <1>4, <1>5, FS_Subset DEF Known

(* of the registry's,                                                      *)
LEMMA CorrectionRowsKnown ==
  ASSUME NEW S, NamedRows(S)
  PROVE  Known(CorrectionRows(S))
  <1> DEFINE line == [c \in S |-> Line(c)]
  <1>1. CorrectionRows(S) = {Line(c) : c \in S}
      BY DEF CorrectionRows, Line
  <1>2. IsFiniteSet(CorrectionRows(S))
    <2>1. line \in [S -> CorrectionRows(S)] /\ \A r \in CorrectionRows(S) : \E c \in S : line[c] = r
        BY <1>1
    <2> HIDE DEF line
    <2> QED
        BY <2>1, ImageFinite DEF NamedRows
  <1>3. \A r \in CorrectionRows(S) : r = Bare(r) /\ r.name \in DOMAIN CleanName /\ r.place \in Places
    <2>1. \A c \in S : c.name \in DOMAIN CleanName /\ ZipCut(c.place) \in Places
        BY ScoresAssumption DEF NamedRows
    <2> QED
        BY <1>1, <2>1 DEF Line, Bare
  <1> QED
      BY <1>2, <1>3 DEF Known

(* and so of every arm.                                                    *)
LEMMA ArmKnown ==
  ASSUME NEW db, Tables(db), NEW s \in DOMAIN Arms(db)
  PROVE  Known(Arms(db)[s])
  <1>1. Known(FilerRows(db.filings)) /\ Known(FilerRows(db.pf)) /\ Known(BmfRows(db.bmf))
      BY FilerRowsKnown, BmfRowsKnown DEF Tables
  <1>2. Known(CorrectionRows(db.corrections))
      BY CorrectionRowsKnown DEF Tables
  <1> QED
      BY <1>1, <1>2, ArmsAre

(* A row of the universe is held by the arm it is from, which ranks first  *)
(* of those that hold it.                                                  *)
LEMMA SomeArmIsFirst ==
  ASSUME NEW H \in SUBSET DOMAIN SourceRank, H # {}
  PROVE  \E s \in H : \A t \in H : SourceRank[s] =< SourceRank[t]
  <1>1. DOMAIN SourceRank = {"basic_fields", "basic_fields_pf", "correction", "eo_bmf"}
        /\ SourceRank["basic_fields"] = 1 /\ SourceRank["basic_fields_pf"] = 2
        /\ SourceRank["correction"] = 3 /\ SourceRank["eo_bmf"] = 4
      BY DEF SourceRank
  <1>2. CASE "basic_fields" \in H
      BY <1>1, <1>2
  <1>3. CASE "basic_fields" \notin H /\ "basic_fields_pf" \in H
      BY <1>1, <1>3
  <1>4. CASE "basic_fields" \notin H /\ "basic_fields_pf" \notin H /\ "correction" \in H
      BY <1>1, <1>4
  <1>5. CASE H = {"eo_bmf"}
      BY <1>1, <1>5
  <1> QED
      BY <1>1, <1>2, <1>3, <1>4, <1>5

Held(db, s, r) == s \in DOMAIN Arms(db) /\ Bare(r) \in Arms(db)[s]

(* Each row of an arm is a row of the universe, once, under its first arm. *)
LEMMA UniverseRows ==
  ASSUME NEW db, Tables(db)
  PROVE  /\ IsFiniteSet(Universe(db)) /\ Placed(Universe(db))
         /\ \A u \in Universe(db) :
              /\ Held(db, u.source, u)
              /\ \A s : Held(db, s, u) => SourceRank[u.source] =< SourceRank[s]
         /\ \A s \in DOMAIN Arms(db) : \A r \in Arms(db)[s] : \E u \in Universe(db) : Bare(u) = r
  <1> DEFINE arms == Arms(db)
             rows == UNION {arms[s] : s \in DOMAIN arms}
             holders(r) == {s \in DOMAIN arms : r \in arms[s]}
             first(r) == CHOOSE s \in holders(r) : \A t \in holders(r) : SourceRank[s] =< SourceRank[t]
             Row(r) == [ein |-> r.ein, name |-> r.name, place |-> r.place, source |-> first(r)]
  <1>1. Universe(db) = {Row(r) : r \in rows}
      BY DEF Universe
  <1>2. DOMAIN arms = {"basic_fields", "basic_fields_pf", "correction", "eo_bmf"} /\ DOMAIN arms = DOMAIN SourceRank
      BY ArmsAre DEF SourceRank
  <1> HIDE DEF arms
  <1>3. \A r \in rows : first(r) \in holders(r) /\ \A t \in holders(r) : SourceRank[first(r)] =< SourceRank[t]
    <2> SUFFICES ASSUME NEW r \in rows
                 PROVE  first(r) \in holders(r) /\ \A t \in holders(r) : SourceRank[first(r)] =< SourceRank[t]
        OBVIOUS
    <2>1. holders(r) # {} /\ holders(r) \in SUBSET DOMAIN SourceRank
        BY <1>2
    <2> HIDE DEF holders
    <2> QED
        BY <2>1, SomeArmIsFirst
  <1>4. \A r \in rows : r = Bare(r) /\ r.name \in DOMAIN CleanName /\ r.place \in Places
      BY ArmKnown DEF arms, Known
  <1>5. IsFiniteSet(rows)
    <2>1. PICK a, b, c, d : a = arms["basic_fields"] /\ b = arms["basic_fields_pf"]
                            /\ c = arms["correction"] /\ d = arms["eo_bmf"]
        OBVIOUS
    <2>2. rows = ((a \cup b) \cup c) \cup d
        BY <1>2, <2>1
    <2>3. IsFiniteSet(a) /\ IsFiniteSet(b) /\ IsFiniteSet(c) /\ IsFiniteSet(d)
      <3>1. \A s \in DOMAIN arms : IsFiniteSet(arms[s])
          BY ArmKnown DEF arms, Known
      <3> QED
          BY <1>2, <2>1, <3>1
    <2> HIDE DEF rows
    <2>4. IsFiniteSet(a \cup b)
        BY <2>3, FS_Union
    <2>5. IsFiniteSet((a \cup b) \cup c)
        BY <2>3, <2>4, FS_Union
    <2>6. IsFiniteSet(((a \cup b) \cup c) \cup d)
        BY <2>3, <2>5, FS_Union
    <2> QED
        BY <2>2, <2>6
  <1> HIDE DEF rows, first
  <1>6. IsFiniteSet(Universe(db))
    <2> DEFINE row == [r \in rows |-> Row(r)]
    <2>1. row \in [rows -> Universe(db)] /\ \A u \in Universe(db) : \E r \in rows : row[r] = u
        BY <1>1
    <2> HIDE DEF row
    <2> QED
        BY <1>5, <2>1, ImageFinite
  <1>7. \A r \in rows : Bare(Row(r)) = r
      BY <1>4 DEF Bare
  <1>8. \A s \in DOMAIN arms : \A r \in arms[s] : r \in rows
      BY DEF rows
  <1>9. \A s, r : Held(db, s, r) <=> s \in holders(Bare(r))
      BY DEF Held, arms
  <1>10. Placed(Universe(db))
      BY <1>1, <1>4 DEF Placed
  <1>11. ASSUME NEW u \in Universe(db)
         PROVE  /\ Held(db, u.source, u)
                /\ \A s : Held(db, s, u) => SourceRank[u.source] =< SourceRank[s]
    <2>1. PICK r \in rows : u = Row(r)
        BY <1>1
    <2>2. u.source = first(r) /\ Bare(u) = r
        BY <1>7, <2>1
    <2> HIDE DEF Row, holders
    <2> QED
        BY <1>3, <1>9, <2>2
  <1>12. \A s \in DOMAIN arms : \A r \in arms[s] : \E u \in Universe(db) : Bare(u) = r
    <2> HIDE DEF Row
    <2> QED
        BY <1>1, <1>7, <1>8
  <1> QED
      BY <1>6, <1>10, <1>11, <1>12 DEF arms

(* The tuples of a relation are the keys of its recent grants to a         *)
(* business that is named, each once.                                      *)
Asked(r) == r.recent /\ r.name # NoName /\ r.name \notin Pointers

(* A key of grants asked about is one tuple.                               *)
LEMMA TuplesAre ==
  ASSUME NEW grants, NamedRows(grants)
  PROVE  /\ IsFiniteSet(GrantTuples(grants)) /\ Placed(GrantTuples(grants))
         /\ \A g \in GrantTuples(grants) : g.name \notin Pointers /\ \E r \in grants : Asked(r) /\ KeyOf(r) = KeyOf(g)
         /\ \A g, h \in GrantTuples(grants) : KeyOf(g) = KeyOf(h) => g = h
         /\ \A r \in grants : Asked(r) => \E g \in GrantTuples(grants) : KeyOf(g) = KeyOf(r)
  <1> DEFINE read == {r \in grants : Asked(r)}
             keys == {KeyOf(r) : r \in read}
             Tuple(k) == [name |-> k.name, place |-> k.place,
                          foreign_country |-> \E r \in read : KeyOf(r) = k /\ r.abroad]
  <1>1. GrantTuples(grants) = {Tuple(k) : k \in keys}
      BY DEF GrantTuples, Asked
  <1>2. \A k \in keys : KeyOf(Tuple(k)) = k
      BY DEF KeyOf
  <1>3. IsFiniteSet(read)
      BY FS_Subset DEF NamedRows
  <1>4. \A r \in read : r \in grants /\ Asked(r) /\ r.name \in DOMAIN CleanName /\ r.place \in Places
      BY DEF NamedRows
  <1> HIDE DEF read
  <1>5. IsFiniteSet(keys)
    <2> DEFINE key == [r \in read |-> KeyOf(r)]
    <2>1. key \in [read -> keys] /\ \A k \in keys : \E r \in read : key[r] = k
        OBVIOUS
    <2> HIDE DEF key
    <2> QED
        BY <1>3, <2>1, ImageFinite
  <1>6. IsFiniteSet(GrantTuples(grants))
    <2> DEFINE tuple == [k \in keys |-> Tuple(k)]
    <2>1. tuple \in [keys -> GrantTuples(grants)] /\ \A g \in GrantTuples(grants) : \E k \in keys : tuple[k] = g
        BY <1>1
    <2> HIDE DEF tuple
    <2> QED
        BY <1>5, <2>1, ImageFinite
  <1>7. ASSUME NEW g \in GrantTuples(grants)
        PROVE  /\ g = Tuple(KeyOf(g)) /\ g.name \in DOMAIN CleanName /\ g.place \in Places
               /\ g.name \notin Pointers /\ \E r \in grants : Asked(r) /\ KeyOf(r) = KeyOf(g)
    <2>1. PICK k \in keys : g = Tuple(k)
        BY <1>1
    <2>2. PICK r \in read : k = KeyOf(r)
        OBVIOUS
    <2>3. KeyOf(g) = KeyOf(r)
        BY <1>2, <2>1, <2>2
    <2>4. g.name = r.name /\ g.place = r.place
        BY <2>1, <2>2 DEF KeyOf
    <2>5. g = Tuple(KeyOf(g))
        BY <1>2, <2>1
    <2> HIDE DEF Tuple
    <2> QED
        BY <1>4, <2>2, <2>3, <2>4, <2>5 DEF Asked
  <1>8. \A r \in grants : Asked(r) => \E g \in GrantTuples(grants) : KeyOf(g) = KeyOf(r)
    <2> SUFFICES ASSUME NEW r \in grants, Asked(r) PROVE \E g \in GrantTuples(grants) : KeyOf(g) = KeyOf(r)
        OBVIOUS
    <2>1. KeyOf(r) \in keys
        BY DEF read
    <2> HIDE DEF Tuple, keys
    <2> QED
        BY <1>1, <1>2, <2>1
  <1>9. \A g, h \in GrantTuples(grants) : KeyOf(g) = KeyOf(h) => g = h
    <2> HIDE DEF Tuple
    <2> QED
        BY <1>7
  <1> QED
      BY <1>6, <1>7, <1>8, <1>9 DEF Placed

(* The tables of a problem are a setting.                                  *)
LEMMA PosedIs ==
  ASSUME NEW p, Posed(p)
  PROVE  Tables(p.db) /\ Setting(Universe(p.db), GrantTuples(p.grants))
  <1>1. Tables(p.db) /\ NamedRows(p.grants) /\ ViewsOrder(Universe(p.db))
      BY DEF Posed, Tables
  <1> QED
      BY <1>1, UniverseRows, TuplesAre DEF Setting

-----------------------------------------------------------------------------
(* The tools beside the matcher, on tables                                 *)

(* Saved chunks hold every pair the decision uses.                         *)
LEMMA ChunksHold ==
  ASSUME NEW universe, NEW tuples, Setting(universe, tuples)
  PROVE  MatchSlice(universe, tuples)
           = AllMatches(FeaturesOf(universe, tuples), universe, tuples, "named_first")
  BY ScoreSliceIs, ResolvedByFinal DEF AllMatches, MatchSlice

(* What the explainer reads of an EIN are the universe's rows of it, with  *)
(* a line in the registry or with the line tried, but for that line's zip. *)
LEMMA ExplainerReads ==
  ASSUME NEW db, Tables(db), NEW ein, NEW added, added \subseteq {c \in db.corrections : c.ein = ein},
         \A c \in added : SaysItsZip(c)
  PROVE  LET rows == ExplainerRows([db EXCEPT !.corrections = @ \ added], ein, added)
         IN /\ \A x \in rows : \E u \in Universe(db) : u.ein = ein /\ Alike(x, u)
            /\ \A u \in Universe(db) : u.ein = ein => \E x \in rows : Alike(x, u)
  <1>1. PICK left : left = [db EXCEPT !.corrections = @ \ added]
      OBVIOUS
  <1>2. /\ left.filings = db.filings /\ left.pf = db.pf /\ left.bmf = db.bmf
        /\ left.corrections = db.corrections \ added
      BY <1>1 DEF Tables
  <1>3. DOMAIN Arms(left) = DOMAIN Arms(db) /\ "correction" \in DOMAIN Arms(db)
      BY ArmsAre
  <1>4. \A s \in DOMAIN Arms(db) \ {"correction"} : Arms(left)[s] = Arms(db)[s]
      BY <1>2, ArmsAre
  <1>5. Arms(left)["correction"] = CorrectionRows(db.corrections \ added)
        /\ Arms(db)["correction"] = CorrectionRows(db.corrections)
      BY <1>2, ArmsAre
  <1> DEFINE Tried(c) == [ein |-> ein, name |-> c.name, place |-> c.place, source |-> "hypothetical"]
             Read(s, r) == [ein |-> ein, name |-> r.name, place |-> r.place, source |-> s]
             rows == ExplainerRows(left, ein, added)
  <1>6. rows = {Tried(c) : c \in added} \cup
               UNION {{Read(s, r) : r \in {x \in Arms(left)[s] : x.ein = ein}} : s \in DOMAIN Arms(left)}
      BY DEF ExplainerRows
  <1>7. \A c : Tried(c).name = c.name /\ Tried(c).place = c.place
      OBVIOUS
  <1>8. \A s, r : Read(s, r).name = r.name /\ Read(s, r).place = r.place
      OBVIOUS
  <1>9. \A c \in db.corrections : Line(c) \in CorrectionRows(db.corrections)
        /\ (c \notin added => Line(c) \in CorrectionRows(db.corrections \ added))
      BY DEF Line, CorrectionRows
  <1>10. \A r \in CorrectionRows(db.corrections) : \E c \in db.corrections : r = Line(c)
      BY DEF Line, CorrectionRows
  <1>11. CorrectionRows(db.corrections \ added) \subseteq CorrectionRows(db.corrections)
      BY DEF CorrectionRows
  <1>12. \A s \in DOMAIN Arms(db) : Arms(left)[s] \subseteq Arms(db)[s]
      BY <1>4, <1>5, <1>11
  <1>13. \A r : Bare(r).ein = r.ein /\ Bare(r).name = r.name /\ Bare(r).place = r.place
      BY DEF Bare
  <1>a. \A c : Line(c).ein = c.ein /\ Line(c).name = c.name
      BY DEF Line
  <1>b. \A c \in db.corrections : c.place \in Places
      BY DEF Tables, NamedRows
  <1>c. \A u \in Universe(db) : u.place \in Places
      BY UniverseRows DEF Placed
  <1> HIDE DEF rows, Tried, Read
  <1>14. ASSUME NEW s \in DOMAIN Arms(db), NEW r \in Arms(db)[s], r.ein = ein
         PROVE  \E u \in Universe(db) : u.ein = ein /\ u.name = r.name /\ u.place = r.place
    <2>1. PICK u \in Universe(db) : Bare(u) = r
        BY <1>14, UniverseRows
    <2> QED
        BY <1>13, <1>14, <2>1
  <1>15. ASSUME NEW x \in rows
         PROVE  \E u \in Universe(db) : u.ein = ein /\ Alike(x, u)
    <2>1. CASE \E c \in added : x = Tried(c)
      <3>1. PICK c \in added : x = Tried(c)
          BY <2>1
      <3>2. c \in db.corrections /\ c.ein = ein
          OBVIOUS
      <3>3. Line(c) \in Arms(db)["correction"] /\ Line(c).ein = ein
          BY <1>5, <1>9, <1>a, <3>2
      <3>4. PICK u \in Universe(db) : u.ein = ein /\ u.name = Line(c).name /\ u.place = Line(c).place
          BY <1>3, <1>14, <3>3
      <3>5. Alike(x, u)
          BY <1>7, <1>b, <3>1, <3>2, <3>4, LineAlike
      <3> QED
          BY <3>4, <3>5
    <2>2. CASE \E s \in DOMAIN Arms(left) : \E r \in Arms(left)[s] : r.ein = ein /\ x = Read(s, r)
      <3>1. PICK s \in DOMAIN Arms(db) : \E r \in Arms(db)[s] : r.ein = ein /\ x = Read(s, r)
          BY <1>3, <1>12, <2>2
      <3>2. PICK r \in Arms(db)[s] : r.ein = ein /\ x = Read(s, r)
          BY <3>1
      <3>3. PICK u \in Universe(db) : u.ein = ein /\ u.name = r.name /\ u.place = r.place
          BY <1>14, <3>2
      <3>4. Alike(x, u)
          BY <1>8, <1>c, <3>2, <3>3, SameAlike
      <3> QED
          BY <3>3, <3>4
    <2> QED
        BY <1>6, <2>1, <2>2
  <1>16. ASSUME NEW u \in Universe(db), u.ein = ein
         PROVE  \E x \in rows : Alike(x, u)
    <2>1. PICK s : s \in DOMAIN Arms(db) /\ Bare(u) \in Arms(db)[s]
        BY UniverseRows DEF Held
    <2>2. CASE Bare(u) \in Arms(left)[s]
      <3>1. Read(s, Bare(u)) \in rows
          BY <1>3, <1>6, <1>13, <1>16, <2>1, <2>2
      <3>2. Alike(Read(s, Bare(u)), u)
          BY <1>8, <1>13, <1>c, SameAlike
      <3> QED
          BY <3>1, <3>2
    <2>3. CASE Bare(u) \notin Arms(left)[s]
      <3>1. Bare(u) \in CorrectionRows(db.corrections) /\ Bare(u) \notin CorrectionRows(db.corrections \ added)
          BY <1>4, <1>5, <2>1, <2>3
      <3>2. PICK c \in db.corrections : Bare(u) = Line(c)
          BY <1>10, <3>1
      <3>3. c \in added /\ Tried(c) \in rows
          BY <1>6, <1>9, <3>1, <3>2
      <3>4. Alike(Tried(c), u)
          BY <1>7, <1>13, <1>b, <3>2, <3>3, LineAlike
      <3> QED
          BY <3>3, <3>4
    <2> QED
        BY <2>2, <2>3
  <1> QED
      BY <1>1, <1>15, <1>16 DEF rows

(* So the explainer's verdict on an EIN is that of a run over its rows.    *)
Run(rows, g) == AllMatches(ScoreSlice(rows, {g}), rows, {g}, "named_first")
AskedKeys(grants) == {KeyOf(r) : r \in {x \in grants : x.recent /\ x.name # NoName}}
Told(db, ein, added, keys) == Explain([db EXCEPT !.corrections = @ \ added], ein, added, keys)
RowsIn(universe, ein) == {u \in universe : u.ein = ein}

(* A tuple "would match" when a run over the rows matches it by a pair.    *)
LEMMA WouldMatch ==
  ASSUME NEW db, Tables(db), NEW grants, NamedRows(grants), ViewsOrder(Universe(db)),
         NEW ein, \E u \in Universe(db) : u.ein = ein,
         NEW added, added \subseteq {c \in db.corrections : c.ein = ein}, \A c \in added : SaysItsZip(c),
         NEW keys, keys = AskedKeys(grants),
         NEW told, told = Told(db, ein, added, keys),
         NEW rows, rows = RowsIn(Universe(db), ein)
  PROVE  /\ told.raised <=> keys = {}
         /\ {e.tuple : e \in {x \in told.pairs : x.would_match}}
              = {KeyOf(g) : g \in {x \in GrantTuples(grants) : \E m \in Run(rows, x) : m.tier # "name_only"}}
  <1> USE DEF AskedKeys, Told, RowsIn
  <1>1. PICK read : read = ExplainerRows([db EXCEPT !.corrections = @ \ added], ein, added)
      OBVIOUS
  <1>2. /\ \A x \in read : \E u \in rows : Alike(x, u)
        /\ \A u \in rows : \E x \in read : Alike(x, u)
      BY <1>1, ExplainerReads
  <1>3. PICK pairs : pairs = {ExplainedPair(Feature(p[1], p[2])) : p \in read \X keys}
      OBVIOUS
  <1>a. told = [raised |-> read = {} \/ keys = {}, pairs |-> pairs]
      BY <1>1, <1>3 DEF Explain
  <1>b. told.pairs = pairs
      BY <1>a
  <1>c. told.raised <=> read = {} \/ keys = {}
    <2>1. \A raised, all : [raised |-> raised, pairs |-> all].raised = raised
        OBVIOUS
    <2>2. told.raised = (read = {} \/ keys = {})
        BY <1>a, <2>1, Zenon
    <2> QED
        BY <2>2
  <1>4. told.raised <=> keys = {}
      BY <1>2, <1>c
  <1>5. told.pairs = {ExplainedPair(Feature(p[1], p[2])) : p \in read \X keys}
      BY <1>3, <1>b
  <1>6. \A x, k : /\ ExplainedPair(Feature(x, k)).tuple = k
                  /\ ExplainedPair(Feature(x, k)).would_match <=> ExplainedMatch(Feature(x, k))
    <2> SUFFICES ASSUME NEW x, NEW k
                 PROVE  /\ ExplainedPair(Feature(x, k)).tuple = k
                        /\ ExplainedPair(Feature(x, k)).would_match <=> ExplainedMatch(Feature(x, k))
        OBVIOUS
    <2>1. PICK f : f = Feature(x, k)
        OBVIOUS
    <2>2. f.tuple = k
        BY <2>1, FeatureFields
    <2>3. ExplainedPair(f).tuple = f.tuple /\ (ExplainedPair(f).would_match <=> ExplainedMatch(f))
        BY DEF ExplainedPair
    <2> QED
        BY <2>1, <2>2, <2>3
  <1>7. \A k : k \in {e.tuple : e \in {x \in told.pairs : x.would_match}}
                 <=> k \in keys /\ \E x \in read : ExplainedMatch(Feature(x, k))
    <2>1. \A x \in read, k \in keys : ExplainedPair(Feature(x, k)) \in told.pairs
      <3> SUFFICES ASSUME NEW x \in read, NEW k \in keys PROVE ExplainedPair(Feature(x, k)) \in told.pairs
          OBVIOUS
      <3>1. <<x, k>> \in read \X keys /\ <<x, k>>[1] = x /\ <<x, k>>[2] = k
          OBVIOUS
      <3> QED
          BY <1>5, <3>1
    <2>2. \A e \in told.pairs : \E x \in read, k \in keys : e = ExplainedPair(Feature(x, k))
        BY <1>5
    <2> SUFFICES ASSUME NEW k
                 PROVE  k \in {e.tuple : e \in {x \in told.pairs : x.would_match}}
                          <=> k \in keys /\ \E x \in read : ExplainedMatch(Feature(x, k))
        OBVIOUS
    <2>3. ASSUME NEW e \in told.pairs, e.would_match, e.tuple = k
          PROVE  k \in keys /\ \E x \in read : ExplainedMatch(Feature(x, k))
      <3>1. PICK x \in read, j \in keys : e = ExplainedPair(Feature(x, j))
          BY <2>2
      <3> QED
          BY <1>6, <2>3, <3>1
    <2>4. ASSUME k \in keys, NEW x \in read, ExplainedMatch(Feature(x, k))
          PROVE  \E e \in told.pairs : e.would_match /\ e.tuple = k
        BY <1>6, <2>1, <2>4
    <2> QED
        BY <2>3, <2>4
  <1>8. Setting(Universe(db), GrantTuples(grants)) /\ Placed(rows) /\ Placed(GrantTuples(grants))
      BY UniverseRows, TuplesAre DEF Setting, Placed
  <1>9. ASSUME NEW x \in GrantTuples(grants)
        PROVE  Setting(rows, {x}) /\ ((\E m \in Run(rows, x) : m.tier # "name_only")
                                       <=> Final(FeaturesOf(rows, {x})) # {})
    <2>1. Setting(rows, {x})
        BY <1>8, SettingWithin
    <2>2. \A u, v \in rows : u.ein = v.ein
        OBVIOUS
    <2> QED
        BY <2>1, <2>2, OneEINMatches DEF Run
  <1>10. ASSUME NEW k \in keys, NEW x \in read, ExplainedMatch(Feature(x, k))
         PROVE  \E g \in GrantTuples(grants) : KeyOf(g) = k /\ Final(FeaturesOf(rows, {g})) # {}
    <2>1. PICK r \in grants : r.recent /\ r.name # NoName /\ KeyOf(r) = k
        OBVIOUS
    <2>2. k.name \notin Pointers
        BY <1>10, FeatureFields DEF ExplainedMatch
    <2>3. Asked(r)
        BY <2>1, <2>2 DEF Asked, KeyOf
    <2>4. PICK g \in GrantTuples(grants) : KeyOf(g) = k
        BY <2>1, <2>3, TuplesAre
    <2>5. k.name = g.name /\ k.place = g.place
        BY <2>4 DEF KeyOf
    <2>6. PICK u \in rows : Alike(x, u)
        BY <1>2
    <2>7. /\ PassesRules(Feature(u, g), FINAL_FILTER_RULES)
          /\ ~GovernmentRefusal(Feature(u, g)) /\ g.name \notin Pointers
          /\ SameBlockZip(u, g) \/ FullName(u) = FullName(g)
        BY <1>8, <1>10, <2>5, <2>6, ExplainedAsMatched DEF Placed
    <2>8. Feature(u, g) \in FeaturesOf(rows, {g})
      <3>1. <<u, g>> \in CandidatePairs(rows, {g}) /\ <<u, g>>[1] = u /\ <<u, g>>[2] = g
          BY <2>7 DEF CandidatePairs
      <3> QED
          BY <3>1 DEF FeaturesOf
    <2>9. Feature(u, g) \in Final(FeaturesOf(rows, {g}))
        BY <2>7, <2>8, FeatureFields DEF Final
    <2> QED
        BY <2>4, <2>9
  <1>11. ASSUME NEW g \in GrantTuples(grants), Final(FeaturesOf(rows, {g})) # {}
         PROVE  KeyOf(g) \in keys /\ \E x \in read : ExplainedMatch(Feature(x, KeyOf(g)))
    <2>1. PICK f \in FeaturesOf(rows, {g}) : /\ PassesRules(f, FINAL_FILTER_RULES)
                                             /\ f.tuple.name \notin Pointers /\ ~GovernmentRefusal(f)
        BY <1>11 DEF Final
    <2>2. f.row \in rows /\ f.tuple \in {g} /\ f = Feature(f.row, f.tuple)
          /\ <<f.row, f.tuple>> \in CandidatePairs(rows, {g})
        BY <1>9, FeatureOf
    <2>3. f.tuple = g
        BY <2>2
    <2>4. PICK u \in rows : f = Feature(u, g) /\ <<u, g>> \in CandidatePairs(rows, {g})
        BY <2>2, <2>3
    <2>5. SameBlockZip(u, g) \/ FullName(u) = FullName(g)
        BY <2>4 DEF CandidatePairs
    <2>6. PICK x \in read : Alike(x, u)
        BY <1>2
    <2>7. PICK k : k = KeyOf(g)
        OBVIOUS
    <2>8. k.name = g.name /\ k.place = g.place
        BY <2>7 DEF KeyOf
    <2>9. u.place \in Places /\ g.place \in Places /\ u.name \in DOMAIN CleanName /\ g.name \in DOMAIN CleanName
        BY <1>8 DEF Placed
    <2>10. ExplainedMatch(Feature(x, k))
        BY <2>1, <2>3, <2>4, <2>5, <2>6, <2>8, <2>9, ExplainedAsMatched
    <2>11. KeyOf(g) \in keys
        BY TuplesAre DEF Asked
    <2> QED
        BY <2>7, <2>10, <2>11, Zenon
  <1>12. {e.tuple : e \in {x \in told.pairs : x.would_match}}
           = {KeyOf(g) : g \in {x \in GrantTuples(grants) : \E m \in Run(rows, x) : m.tier # "name_only"}}
    <2>1. PICK matched, won : /\ matched = {e.tuple : e \in {x \in told.pairs : x.would_match}}
                              /\ won = {x \in GrantTuples(grants) : \E m \in Run(rows, x) : m.tier # "name_only"}
        OBVIOUS
    <2>2. \A x : x \in won <=> x \in GrantTuples(grants) /\ Final(FeaturesOf(rows, {x})) # {}
        BY <1>9, <2>1
    <2>3. \A k : k \in matched <=> k \in keys /\ \E x \in read : ExplainedMatch(Feature(x, k))
        BY <1>7, <2>1
    <2>4. \A k : k \in matched => \E g \in won : k = KeyOf(g)
        BY <1>10, <2>2, <2>3
    <2>5. \A g \in won : KeyOf(g) \in matched
        BY <1>11, <2>2, <2>3
    <2>6. matched = {KeyOf(g) : g \in won}
        BY <2>4, <2>5
    <2> QED
        BY <2>1, <2>6
  <1> QED
      BY <1>4, <1>12

-----------------------------------------------------------------------------
(* The join of the matches to the grants                                   *)

(* A tuple has one match at most.                                          *)
LEMMA OneMatch ==
  ASSUME NEW universe, NEW tuples, Setting(universe, tuples),
         NEW features \in SUBSET FeaturesOf(universe, tuples), NEW ranking,
         NEW m \in AllMatches(features, universe, tuples, ranking),
         NEW n \in AllMatches(features, universe, tuples, ranking), m.tuple = n.tuple
  PROVE  m = n
  <1> DEFINE ruled == ResolveMatches(features, ranking)
  <1>1. \A x \in ruled : \E w : x = Match(w) /\ w = Best(features, w.tuple, ranking) /\ x.tuple = w.tuple
      BY Resolved, MatchFields
  <1>2. \A x \in ruled, y \in ruled : x.tuple = y.tuple => x = y
    <2> HIDE DEF ruled
    <2> QED
        BY <1>1
  <1>3. /\ m \in ruled \/ (m = NameOnly(universe, m.tuple) /\ m.tuple \notin {x.tuple : x \in ruled})
        /\ n \in ruled \/ (n = NameOnly(universe, n.tuple) /\ n.tuple \notin {x.tuple : x \in ruled})
      BY MatchIsOf
  <1> HIDE DEF ruled
  <1> QED
      BY <1>2, <1>3

(* A row of the join is a grant and the match of the tuple of its key.     *)
Tied(m) == [ein |-> m.row.ein, key |-> KeyOf(m.tuple), source |-> m.row.source, tier |-> m.tier, words |-> m.words]

(* What a row of the join holds, and that each such pair has a row.        *)
LEMMA JoinedAre ==
  ASSUME NEW grants, NEW matches
  PROVE  /\ \A w \in WithRecipients(grants, matches) :
              /\ w = [grant |-> w.grant, match |-> w.match] /\ w.grant \in grants
              /\ \E m \in matches : w.match = Tied(m) /\ KeyOf(w.grant) = KeyOf(m.tuple)
         /\ \A r \in grants, m \in matches : KeyOf(r) = KeyOf(m.tuple) =>
              \E w \in WithRecipients(grants, matches) : w.grant = r /\ w.match.ein = m.row.ein
  <1> DEFINE Row(r, x) == [grant |-> r, match |-> x]
             tied == MatchedTuples(matches)
             pairs == {q \in grants \X tied : KeyOf(q[1]) = q[2].key}
  <1>1. WithRecipients(grants, matches) = {Row(p[1], p[2]) : p \in pairs}
      BY DEF WithRecipients
  <1>2. \A x : x \in tied <=> \E m \in matches : x = Tied(m)
      BY DEF MatchedTuples, Tied
  <1>3. \A m : Tied(m).key = KeyOf(m.tuple) /\ Tied(m).ein = m.row.ein
      BY DEF Tied
  <1>4. \A r, x : Row(r, x).grant = r /\ Row(r, x).match = x
      OBVIOUS
  <1>5. \A r, x : <<r, x>> \in pairs <=> r \in grants /\ x \in tied /\ KeyOf(r) = x.key
      OBVIOUS
  <1>6. \A p \in pairs : p = <<p[1], p[2]>>
      OBVIOUS
  <1>7. \A r, x : <<r, x>>[1] = r /\ <<r, x>>[2] = x
      OBVIOUS
  <1> HIDE DEF Row, tied, pairs, Tied
  <1>8. ASSUME NEW w \in WithRecipients(grants, matches)
        PROVE  /\ w = Row(w.grant, w.match) /\ w.grant \in grants
               /\ \E m \in matches : w.match = Tied(m) /\ KeyOf(w.grant) = KeyOf(m.tuple)
    <2>1. PICK p \in pairs : w = Row(p[1], p[2])
        BY <1>1
    <2>2. w.grant = p[1] /\ w.match = p[2]
        BY <1>4, <2>1
    <2>3. p[1] \in grants /\ p[2] \in tied /\ KeyOf(p[1]) = p[2].key
        BY <1>5, <1>6
    <2>4. PICK m \in matches : p[2] = Tied(m)
        BY <1>2, <2>3
    <2>5. KeyOf(w.grant) = KeyOf(m.tuple)
        BY <1>3, <2>2, <2>3, <2>4
    <2> QED
        BY <2>1, <2>2, <2>3, <2>4, <2>5
  <1>9. ASSUME NEW r \in grants, NEW m \in matches, KeyOf(r) = KeyOf(m.tuple)
        PROVE  \E w \in WithRecipients(grants, matches) : w.grant = r /\ w.match.ein = m.row.ein
    <2>1. <<r, Tied(m)>> \in pairs
        BY <1>2, <1>3, <1>5, <1>9
    <2>2. Row(r, Tied(m)) \in WithRecipients(grants, matches)
        BY <1>1, <1>7, <2>1
    <2> QED
        BY <1>3, <1>4, <2>2
  <1> QED
      BY <1>8, <1>9 DEF Row

(* So a grant has one recipient, and a recovered grant keeps its row in    *)
(* the union, by its own key.                                              *)
LEMMA JoinKeeps ==
  ASSUME NEW grants, NamedRows(grants), Keyed(grants), NEW universe, Setting(universe, GrantTuples(grants)),
         NEW matches, matches = MatchSlice(universe, GrantTuples(grants)),
         NEW joined, joined = WithRecipients(grants, matches),
         NEW fromLists, fromLists = {w \in joined : w.grant.row_source = "placeholder_recovery"}
  PROVE  /\ \A v, w \in joined : v.grant.id = w.grant.id => v = w
         /\ Cardinality({u \in UnionedGrants(joined) : u.row_source = "placeholder_recovery"}) = Cardinality(fromLists)
  <1>1. \A m, n \in matches : m.tuple = n.tuple => m = n
      BY ScoreSliceIs, OneMatch DEF MatchSlice
  <1>2. \A m \in matches : m.tuple \in GrantTuples(grants)
      BY ScoreSliceIs, MatchIsOf DEF MatchSlice
  <1>3. \A g, h \in GrantTuples(grants) : KeyOf(g) = KeyOf(h) => g = h
      BY TuplesAre
  <1>4. \A w \in joined : /\ w = [grant |-> w.grant, match |-> w.match] /\ w.grant \in grants
                          /\ \E m \in matches : w.match = Tied(m) /\ KeyOf(w.grant) = KeyOf(m.tuple)
      BY JoinedAre
  <1>5. ASSUME NEW v \in joined, NEW w \in joined, v.grant = w.grant
        PROVE  v = w
    <2>1. PICK m \in matches : v.match = Tied(m) /\ KeyOf(v.grant) = KeyOf(m.tuple)
        BY <1>4
    <2>2. PICK n \in matches : w.match = Tied(n) /\ KeyOf(w.grant) = KeyOf(n.tuple)
        BY <1>4
    <2>3. m = n
        BY <1>1, <1>2, <1>3, <1>5, <2>1, <2>2
    <2> QED
        BY <1>4, <1>5, <2>1, <2>2, <2>3
  <1>6. \A r, s \in grants : r.id = s.id \/ (r.recovered # <<>> /\ r.recovered = s.recovered) => r = s
      BY DEF Keyed
  <1>7. \A r \in grants : r.row_source = "placeholder_recovery" <=> r.recovered # <<>>
      BY DEF Keyed
  <1>8. \A v, w \in joined : v.grant.id = w.grant.id => v = w
      BY <1>4, <1>5, <1>6
  <1>9. IsFiniteSet(joined)
    <2> DEFINE grant == [w \in joined |-> w.grant]
    <2>1. grant \in Injection(joined, grants)
        BY <1>4, <1>5 DEF Injection, IsInjective
    <2> HIDE DEF grant
    <2> QED
        BY <2>1, FS_Injection DEF NamedRows
  <1>10. IsFiniteSet(fromLists)
      BY <1>9, FS_Subset
  <1> DEFINE kept == {u \in UnionedGrants(joined) : u.row_source = "placeholder_recovery"}
             column == [w \in fromLists |-> UnionedColumns(w)]
  <1>11. \A w : /\ UnionedColumns(w).row_source = w.grant.row_source
                /\ UnionedColumns(w).recovered = w.grant.recovered
      BY DEF UnionedColumns
  <1>12. \A u : u \in UnionedGrants(joined) <=> \E w \in joined : u = UnionedColumns(w)
      BY DEF UnionedGrants
  <1>13. \A w \in fromLists : UnionedColumns(w) \in kept
      BY <1>11, <1>12
  <1>14. \A u \in kept : \E w \in fromLists : UnionedColumns(w) = u
      BY <1>11, <1>12
  <1>15. column \in [fromLists -> kept] /\ \A u \in kept : \E w \in fromLists : column[w] = u
    <2> HIDE DEF kept
    <2> QED
        BY <1>13, <1>14
  <1>16. ASSUME NEW v \in fromLists, NEW w \in fromLists, column[v] = column[w] PROVE v = w
    <2>1. UnionedColumns(v) = UnionedColumns(w)
        BY <1>16
    <2>2. v.grant.recovered = w.grant.recovered
        BY <1>11, <2>1
    <2>3. v \in joined /\ w \in joined /\ v.grant \in grants /\ w.grant \in grants /\ v.grant.recovered # <<>>
        BY <1>4, <1>7
    <2>4. v.grant = w.grant
        BY <1>6, <2>2, <2>3
    <2> QED
        BY <1>5, <2>3, <2>4
  <1> HIDE DEF column, kept
  <1>17. Cardinality(kept) = Cardinality(fromLists)
    <2>1. \A v, w \in fromLists : column[v] = column[w] => v = w
        BY <1>16
    <2>2. column \in [fromLists -> kept] /\ \A u \in kept : \E w \in fromLists : column[w] = u
        BY <1>15
    <2>3. PICK S, T, f : S = fromLists /\ T = kept /\ f = column
        OBVIOUS
    <2>4. /\ IsFiniteSet(S) /\ f \in [S -> T] /\ \A u \in T : \E w \in S : f[w] = u
          /\ \A v, w \in S : f[v] = f[w] => v = w
        BY <1>10, <2>1, <2>2, <2>3
    <2>5. Cardinality(T) = Cardinality(S)
        BY <2>4, SameSize
    <2> QED
        BY <2>3, <2>5
  <1> QED
      BY <1>8, <1>17 DEF kept

(* The explainer shows the EIN a tuple went to.                            *)
LEMMA ShownMatch ==
  ASSUME NEW grants, NamedRows(grants), NEW matches, NEW m \in matches, m.tuple \in GrantTuples(grants),
         NEW joined, joined = WithRecipients(grants, matches)
  PROVE  m.row.ein \in CurrentMatch(KeyOf(m.tuple), grants, joined)
  <1>1. PICK r \in grants : KeyOf(r) = KeyOf(m.tuple)
      BY TuplesAre
  <1>2. PICK w \in joined : w.grant = r /\ w.match.ein = m.row.ein
      BY <1>1, JoinedAre
  <1> QED
      BY <1>1, <1>2 DEF CurrentMatch

-----------------------------------------------------------------------------
(* The answers to problems that can be posed                               *)

(* The answer, column by column.                                           *)
LEMMA MatchingIs ==
  ASSUME NEW p
  PROVE  /\ Matching(p).universe = Universe(p.db) /\ Matching(p).tuples = GrantTuples(p.grants)
         /\ Matching(p).matches = MatchSlice(Universe(p.db), GrantTuples(p.grants))
         /\ Matching(p).weighted = AllMatches(ScoreSlice(Universe(p.db), GrantTuples(p.grants)),
                                              Universe(p.db), GrantTuples(p.grants), "weighted")
  BY DEF Matching, MatchSlice

(* Every run asks a problem that can be posed and gives its answer.        *)
Answered == Posed(problem) /\ (answer = Unanswered \/ answer = Matching(problem))

(* It holds at first, and answering keeps it.                              *)
LEMMA RunsAnswer == MatchSpec => []Answered
  <1>1. Posed(problem) /\ answer = Unanswered => Answered
      BY DEF Answered
  <1>2. Answered /\ [answer = Unanswered /\ MatchStep /\ UNCHANGED problem]_<<problem, answer>> => Answered'
    <2> SUFFICES ASSUME Answered, [answer = Unanswered /\ MatchStep /\ UNCHANGED problem]_<<problem, answer>>
                 PROVE  Answered'
        OBVIOUS
    <2>1. CASE answer = Unanswered /\ MatchStep /\ UNCHANGED problem
        BY <2>1 DEF Answered, MatchStep, Posed
    <2>2. CASE UNCHANGED <<problem, answer>>
        BY <2>2 DEF Answered, Unanswered
    <2> QED
        BY <2>1, <2>2
  <1> QED
      BY <1>1, <1>2, PTL DEF MatchSpec

(* In a solved state there are tables, and the lemmas above speak of them. *)
SolvedOn(universe, tuples) ==
  /\ universe = Universe(problem.db) /\ tuples = GrantTuples(problem.grants)
  /\ Tables(problem.db) /\ NamedRows(problem.grants) /\ Keyed(problem.grants) /\ Setting(universe, tuples)
  /\ answer.universe = universe /\ answer.tuples = tuples
  /\ answer.matches = MatchSlice(universe, tuples)
  /\ answer.weighted = AllMatches(ScoreSlice(universe, tuples), universe, tuples, "weighted")

(* An answer is the matcher's, on a setting.                               *)
LEMMA SolvedIs ==
  ASSUME Answered, Solved("matching")
  PROVE  SolvedOn(Universe(problem.db), GrantTuples(problem.grants))
  <1>1. Posed(problem) /\ answer = Matching(problem)
      BY DEF Answered, Solved
  <1>2. Tables(problem.db) /\ Setting(Universe(problem.db), GrantTuples(problem.grants))
      BY <1>1, PosedIs
  <1>3. NamedRows(problem.grants) /\ Keyed(problem.grants)
      BY <1>1 DEF Posed
  <1> QED
      BY <1>1, <1>2, <1>3, MatchingIs DEF SolvedOn

(* PreflightIs on each family of lines; a line's row is from its family.   *)
LEMMA PreflightHolds == Answered => PreflightIsTheRun
  <1> SUFFICES ASSUME Answered, Solved("matching"), NEW ein \in {c.ein : c \in problem.db.corrections},
                      NEW family, family = {c \in CorrectionRows(problem.db.corrections) : c.ein = ein}
               PROVE  /\ Preflight(family, answer.universe, answer.tuples)
                           = {m \in answer.matches : m.tuple \in FamilyGrants(family, answer.tuples)}
                      /\ \A m \in answer.matches : m.row.source = "correction" /\ m.row.ein = ein
                           => m.tuple \in FamilyGrants(family, answer.tuples)
      BY DEF PreflightIsTheRun
  <1>1. PICK universe, tuples : SolvedOn(universe, tuples)
      BY SolvedIs
  <1>2. Preflight(family, answer.universe, answer.tuples)
          = {m \in answer.matches : m.tuple \in FamilyGrants(family, answer.tuples)}
      BY <1>1, PreflightIs DEF SolvedOn
  <1>3. ASSUME NEW m \in answer.matches, m.row.source = "correction", m.row.ein = ein
        PROVE  m.tuple \in FamilyGrants(family, answer.tuples)
    <2>1. m \in MatchSlice(universe, tuples) /\ Setting(universe, tuples)
        BY <1>1 DEF SolvedOn
    <2>2. m.row \in Universe(problem.db) /\ Tables(problem.db)
        BY <1>1, <2>1, ScoreSliceIs, MatchIsOf DEF MatchSlice, SolvedOn
    <2>3. Bare(m.row) \in Arms(problem.db)["correction"]
        BY <1>3, <2>2, UniverseRows DEF Held
    <2>4. Bare(m.row) \in family /\ Bare(m.row).name = m.row.name
        BY <1>3, <2>3, ArmsAre DEF Bare
    <2>5. m.tuple \in FamilyGrants(family, tuples)
        BY <2>1, <2>4, LineInSlice
    <2> QED
        BY <1>1, <2>5 DEF SolvedOn
  <1> QED
      BY <1>2, <1>3

(* WouldMatch on each EIN, and ShownMatch on each match.                   *)
LEMMA ExplainerHolds == Answered => ExplainerIsTheMatcher
  <1> SUFFICES ASSUME Answered, Solved("matching"),
                      NEW keys, keys = AskedKeys(problem.grants),
                      NEW joined, joined = WithRecipients(problem.grants, answer.matches)
               PROVE  /\ \A ein \in {u.ein : u \in answer.universe}, added \in UpTo(1, problem.db.corrections) :
                           added \subseteq {c \in problem.db.corrections : c.ein = ein}
                           /\ (\A c \in added : SaysItsZip(c)) =>
                             /\ Told(problem.db, ein, added, keys).raised <=> keys = {}
                             /\ {e.tuple : e \in {x \in Told(problem.db, ein, added, keys).pairs : x.would_match}}
                                  = {KeyOf(g) : g \in {x \in answer.tuples :
                                       \E m \in Run(RowsIn(answer.universe, ein), x) : m.tier # "name_only"}}
                      /\ \A m \in answer.matches : m.row.ein \in CurrentMatch(KeyOf(m.tuple), problem.grants, joined)
      BY DEF ExplainerIsTheMatcher, LinesOf, SaidAsDone, AskedKeys, Run, Told, RowsIn
  <1>1. PICK universe, tuples : SolvedOn(universe, tuples)
      BY SolvedIs
  <1>2. ASSUME NEW ein \in {u.ein : u \in answer.universe}, NEW added,
               added \subseteq {c \in problem.db.corrections : c.ein = ein}, \A c \in added : SaysItsZip(c)
        PROVE  /\ Told(problem.db, ein, added, keys).raised <=> keys = {}
               /\ {e.tuple : e \in {x \in Told(problem.db, ein, added, keys).pairs : x.would_match}}
                    = {KeyOf(g) : g \in {x \in answer.tuples : \E m \in Run(RowsIn(answer.universe, ein), x) : m.tier # "name_only"}}
    <2>1. PICK db, grants : db = problem.db /\ grants = problem.grants
        OBVIOUS
    <2>2. answer.universe = Universe(db) /\ answer.tuples = GrantTuples(grants)
        BY <1>1, <2>1 DEF SolvedOn
    <2>3. Tables(db) /\ NamedRows(grants) /\ ViewsOrder(Universe(db))
        BY <1>1, <2>1 DEF SolvedOn, Setting
    <2>4. (\E u \in Universe(db) : u.ein = ein) /\ added \subseteq {c \in db.corrections : c.ein = ein}
        BY <1>2, <2>1, <2>2
    <2>a. \A c \in added : SaysItsZip(c)
        BY <1>2
    <2>5. keys = AskedKeys(grants)
        BY <2>1
    <2>6. PICK told, rows : told = Told(db, ein, added, keys) /\ rows = RowsIn(Universe(db), ein)
        OBVIOUS
    <2>7. told = Told(problem.db, ein, added, keys) /\ rows = RowsIn(answer.universe, ein)
        BY <2>1, <2>2, <2>6
    <2>8. /\ told.raised <=> keys = {}
          /\ {e.tuple : e \in {x \in told.pairs : x.would_match}}
               = {KeyOf(g) : g \in {x \in GrantTuples(grants) : \E m \in Run(rows, x) : m.tier # "name_only"}}
        BY <2>3, <2>4, <2>a, <2>5, <2>6, WouldMatch
    <2> QED
        BY <2>2, <2>7, <2>8
  <1>3. ASSUME NEW m \in answer.matches
        PROVE  m.row.ein \in CurrentMatch(KeyOf(m.tuple), problem.grants, joined)
    <2>a. m \in MatchSlice(universe, tuples) /\ Setting(universe, tuples) /\ tuples = GrantTuples(problem.grants)
        BY <1>1 DEF SolvedOn
    <2>1. m.tuple \in GrantTuples(problem.grants)
        BY <2>a, ScoreSliceIs, MatchIsOf DEF MatchSlice
    <2>2. NamedRows(problem.grants)
        BY <1>1 DEF SolvedOn
    <2> QED
        BY <2>1, <2>2, ShownMatch
  <1> QED
      BY <1>2, <1>3

(* ChunksHold on the run's universe and tuples.                            *)
LEMMA ChunksHeld == Answered => ChunksHoldTheMatches
  <1> SUFFICES ASSUME Answered, Solved("matching")
               PROVE  answer.matches = AllMatches(FeaturesOf(answer.universe, answer.tuples),
                                                  answer.universe, answer.tuples, "named_first")
      BY DEF ChunksHoldTheMatches, FeaturesOf
  <1> QED
      BY SolvedIs, ChunksHold DEF SolvedOn

(* EarlyRefusalAdds, and OneFilerAround under both rankings.               *)
LEMMA SharedNamesHold == Answered => EarlyRefusalOnlyAdds /\ SharedNamesDecideNothing
  <1> SUFFICES ASSUME Answered, Solved("matching")
               PROVE  /\ {m.tuple : m \in answer.weighted} \subseteq {m.tuple : m \in answer.matches}
                      /\ \A m \in answer.matches \cup answer.weighted :
                           m.tier # "address_and_name" /\ m.tuple.place.line \notin Streets
                             => Cardinality({u.ein : u \in Around(answer.universe, m)} \cup {m.row.ein}) = 1
      BY DEF EarlyRefusalOnlyAdds, SharedNamesDecideNothing, Around, Namesake
  <1>1. PICK universe, tuples : SolvedOn(universe, tuples)
      BY SolvedIs
  <1>2. /\ answer.matches = AllMatches(ScoreSlice(universe, tuples), universe, tuples, "named_first")
        /\ answer.weighted = AllMatches(ScoreSlice(universe, tuples), universe, tuples, "weighted")
        /\ Setting(universe, tuples) /\ answer.universe = universe
      BY <1>1 DEF SolvedOn, MatchSlice
  <1>3. {m.tuple : m \in answer.weighted} \subseteq {m.tuple : m \in answer.matches}
      BY <1>2, ScoreSliceIs, EarlyRefusalAdds
  <1>4. ASSUME NEW m \in answer.matches \cup answer.weighted,
               m.tier # "address_and_name", m.tuple.place.line \notin Streets
        PROVE  Cardinality({u.ein : u \in Around(answer.universe, m)} \cup {m.row.ein}) = 1
      BY <1>2, <1>4, OneFilerAround
  <1> QED
      BY <1>3, <1>4

(* LineWins: the row of a line is in the universe, from no later arm.      *)
LEMMA CorrectionsHold == Answered => CorrectionsDecide
  <1> SUFFICES ASSUME Answered, Solved("matching"),
                      NEW c \in CorrectionRows(problem.db.corrections), FullName(c) # <<>>, CleanZip(c.place.zip) # "00000",
                      \A u \in answer.universe : Twin(u, c) => u.ein = c.ein
               PROVE  VerbatimWon(c, answer.tuples, answer.matches)
      BY DEF CorrectionsDecide, Twin
  <1>1. PICK universe, tuples : SolvedOn(universe, tuples)
      BY SolvedIs
  <1>2. Tables(problem.db) /\ universe = Universe(problem.db) /\ Setting(universe, tuples)
        /\ answer.universe = universe /\ answer.tuples = tuples /\ answer.matches = MatchSlice(universe, tuples)
      BY <1>1 DEF SolvedOn
  <1>3. c.place \in Places /\ Addressed(c.place) /\ Bare(c) = c
    <2>1. PICK l \in problem.db.corrections : c = Line(l)
        BY DEF CorrectionRows, Line
    <2>2. l.place \in Places /\ l.place.state # ""
        BY <1>2 DEF Tables, NamedRows, ValidCorrection
    <2>3. PICK p \in [line : STRING, city : STRING, state : STRING, zip : STRING] : p = l.place
        BY <2>2, ScoresAssumption
    <2>4. ZipCut(p) \in Places /\ ZipCut(p).state = p.state
        BY <2>2, <2>3, ScoresAssumption DEF ZipCut
    <2> QED
        BY <2>1, <2>2, <2>3, <2>4 DEF Line, Bare, Addressed
  <1>4. "correction" \in DOMAIN Arms(problem.db) /\ Bare(c) \in Arms(problem.db)["correction"]
      BY <1>3, ArmsAre
  <1>5. PICK r \in universe : Bare(r) = Bare(c)
      BY <1>2, <1>4, UniverseRows
  <1>6. r.ein = c.ein /\ r.name = c.name /\ r.place = c.place
      BY <1>5 DEF Bare
  <1>7. r.source # "eo_bmf"
    <2>1. SourceRank[r.source] =< SourceRank["correction"]
        BY <1>2, <1>4, <1>5, UniverseRows DEF Held
    <2>2. SourceRank["correction"] = 3 /\ SourceRank["eo_bmf"] = 4
        BY DEF SourceRank
    <2> QED
        BY <2>1, <2>2
  <1> QED
      BY <1>2, <1>3, <1>6, <1>7, LineWins

(* JoinKeeps on the run's grants and matches.                              *)
LEMMA JoinHolds == Answered => JoinKeepsRecoveredGrants
  <1> SUFFICES ASSUME Answered, Solved("matching"),
                      NEW joined, joined = WithRecipients(problem.grants, answer.matches),
                      NEW fromLists, fromLists = {w \in joined : w.grant.row_source = "placeholder_recovery"}
               PROVE  /\ \A v, w \in joined : v.grant.id = w.grant.id => v = w
                      /\ Cardinality({u \in UnionedGrants(joined) : u.row_source = "placeholder_recovery"})
                           = Cardinality(fromLists)
      BY DEF JoinKeepsRecoveredGrants
  <1>1. PICK grants, universe, matches :
          /\ grants = problem.grants /\ matches = answer.matches
          /\ NamedRows(grants) /\ Keyed(grants) /\ Setting(universe, GrantTuples(grants))
          /\ matches = MatchSlice(universe, GrantTuples(grants))
      BY SolvedIs DEF SolvedOn
  <1> QED
      BY <1>1, JoinKeeps

(* Of every problem that can be posed: the preflight's winners are the     *)
(* run's (corrections_preflight.run_preflight), the explainer says "would  *)
(* match" of the tuples a run over the EIN's rows would match              *)
(* (match_explainer._score_pairs), and a run over saved chunks matches     *)
(* what one over all candidate pairs would.                                *)
THEOREM ToolsDecideAlike == MatchSpec => []ToolsAreTheMatcher
  <1>1. Answered => ToolsAreTheMatcher
      BY PreflightHolds, ExplainerHolds, ChunksHeld DEF ToolsAreTheMatcher
  <1> QED
      BY <1>1, RunsAnswer, PTL

(* No name that two filers of a state carry decides a tuple without a      *)
(* street, refusing such pairs before the winner is picked loses no match  *)
(* of the order it replaced, and a line of the registry wins the tuple it  *)
(* was written from (grant_matching.resolve_matches).                      *)
THEOREM OneFilerDecidesATuple == MatchSpec => []OneFilerDecides
  <1>1. Answered => OneFilerDecides
      BY SharedNamesHold, CorrectionsHold DEF OneFilerDecides
  <1> QED
      BY <1>1, RunsAnswer, PTL

(* The join gives a grant one recipient, and the union that keeps one of   *)
(* equal rows keeps every recovered grant, by its key                      *)
(* (grant_matching._UNIONED_GRANTS_DDL).                                   *)
THEOREM RecoveredGrantsStay == MatchSpec => []JoinKeepsRecoveredGrants
  <1>1. Answered => JoinKeepsRecoveredGrants
      BY JoinHolds
  <1> QED
      BY <1>1, RunsAnswer, PTL
=============================================================================
