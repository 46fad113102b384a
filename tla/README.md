# A verification model of givingtuesday-datamart

TLA+ specifications of the parts of this repository whose correctness depends on the order in
which processes, transactions, workers and restarts interleave; TLC configurations that check
them; and proofs, checked by TLAPS, of the results that hold for every size of the system.
Paths below are under `givingtuesday_datamart/` unless they say otherwise.

## The system

The datamart is one Postgres database filled by batch jobs that people start by hand, often
several at once, and read by a matcher, a Python client and a web frontend.

| part | state it keeps | operations | talks to |
|---|---|---|---|
| sources CLI, registry, resolver (`sources/`) | none | discover versions, `refresh`, `build-canonical` | ingestion, current relations, canonical build |
| ingestion (`ingestion.py`), loader (`write_data_to_sql.py`), validation (`validation.py`) | staging tables, their comments (stamps), `datamart_meta.ingest_runs` | skip, started row, recreate, COPY in batches, dedupe, index, validate, record with stamp | Postgres, one commit per step |
| own-extract loader (`own_extract/load.py`, `batches.py`) | `irs_extract` tables, archives and stamps in a cache, S3 copies | discover, claim, fetch, load, archive, audit, reload | flock, advisory locks |
| own-extract patch (`own_extract/patch.py`) | rows of ten staging tables, runs, stamps | one transaction over all of them | staging tables |
| current relations (`current_grants.py`) | the six `_current` relations and their stamps | build one relation per transaction, compare stamps, scan for stale ones, adopt | staging tables and each other |
| canonical build (`canonical/build.py`) | identity tables, `canonical_builds` | note runs, scan, rebuild, locked identity transaction, record | current relations, staging, runs |
| grant matching (`grant_matching.py`) and its checks, corrections, explainer | checkpoints in S3, two output tables | rebuild, resume chunks, score, resolve, write | current relations, recovered grants |
| filing images (`filing_images.py`, `irs_source.py`) | PDFs in S3, `filing_images` | fetch with attempts and refusals, materialise, recut | IRS, S3 |
| page readings (`page_readings.py`, `_internal/bulk.py`, `vlm_transcription.py`) | `page_readings` | look up, render, read in a pool, record in chunks | gateway, S3 |
| page verdicts (`page_verdicts.py`, `reading_pairs.py`) | `page_verdicts` | `agree` under a policy | page readings |
| placeholder recovery (`placeholder_recovery/`, `attachment_grants.py`) | work list, recovered grants, the view | `frame.run`, load, view | all of the three above |
| watchdog (`watchdog.py`) | none | poll, cancel, terminate | Postgres backends, a child process |
| client, frontend, census, proofs, exploratory | none of their own | reads, one-off measurements | the tables |

What is hard in it, and what correctness means for each part:

* **Staging, stamps and relations.** Loads commit a table before its rows, and rows before
  anything says the load succeeded; patches rewrite committed tables; builds read several tables
  in several READ COMMITTED statements. Correct means that what the comments say can stand in for
  the rows: a relation called current holds what its inputs hold, and a stamp names what is under it.
* **Canonical build.** Notes its sources, then scans and rebuilds without a lock, then reads under
  one. Correct means the identity tables were read from one state of each relation, and a row that
  says success names what is behind them.
* **Page readings.** Each reading is paid for. Correct means: nothing bought that is stored, nothing
  paid for and thrown away, a page given up after exactly `max_errors` failures, no attempts lost to
  an outage, whatever stops the run.
* **Verdicts and the run.** Correct means each verdict is what the policy says of the stored
  readings, never taken back and changed only where a reading changed under it, and the run, given
  again, ends once nothing stops it.
* **Own-extract loading.** Loaders race for a batch in one cache or two, archives are reposted and
  deleted, the concordance changes. Correct means a batch's rows are its latest run's, once, and that
  run names the archive and the mapping they come from.
* **The sources command.** Resolves, loads and rebuilds one thing after another while others are at
  work on the same tables. Correct means an exit code of 0 stands for what was asked and done, and what
  `loaded` shows as loaded is there.
* **Grant matching.** A run resumes chunks another run saved, under a prefix that stands in for the rows;
  its two output tables may be committed apart. Correct means a resumed chunk is what the run would
  compute, the rows read are the rows named, and the outputs are a pair or say that they are not. Its
  decisions are rules over data: one filer decides a tuple, and the tools beside it (preflight,
  explainer) decide as it does.
* **Filing images.** A cached file, an object and a row that no transaction joins. Correct means the bytes
  used are those the row describes, and attempts charged are attempts made.
* **Recovered grants.** A load reads verdicts, current filings and a work list that all move. Correct
  means the table becomes what the rule gives, and the view counts a year's dollars once.
* **Watchdog.** Statements, the command and the link to the instance go their own way between a look and
  the cancel that follows. Correct means every stop ends, and the exit code tells how.
* **Client and dedup rules.** No state of their own; correct means that reads which should agree do, and
  that a filer-year keeps the lines its filing states.

`PROJECT.json` lists every component with its status, every hazard at the line where it bites with
the properties that watch it, and for every definition the lines of source it translates.

## The modules

| module | models | state |
|---|---|---|
| `StampedTables` | ingestion, loader, validation, patch, builds of current relations, `relation_states` | `rows`, `stamp` (comments), `runs` (`ingest_runs`), `loader` (one per run), `patcher`, `built` and `relStamp` (relations and their comments), `builder`, `rules` (the dedup DDL deployed) |
| `CanonicalBuild` | `build_canonical`, the staleness scan | `StampedTables` and `canon`, `canonRows`, `identity`, `below` (how UUIDs sort) |
| `SourcesRefresh` | `sources refresh`, `loaded`, the resolver, `current_grants` by hand | `StampedTables` and `command` |
| `SourcesCli` | composes the two: a refresh beside a canonical build and patches | |
| `Readings` | what `page_readings` promises: the abstract specification | `table` |
| `PageReadings` | `read_pages` and `upsert_as_done`, thread by thread | `table`, `proc` (a call: its lookup, its futures, its buffer, the breaker), `improved` (the parser), `reads` |
| `ReadingRun` | `frame.run`, `agree` and `base_pair_report`, over `Readings` | `table`, `verdicts`, `improved` (the parser), `run` (the step), `gate` (the `agree` call), `recovered` (history) |
| `BatchLoad` | own-extract `load`, `--returns-only`, `audit`, `reload` of one batch | `served`, `mapping` (the world), `cache`, `flock`, `bucket`, `advisory`, `rows`, `runs`, `job` |
| `MatchRun` | `match_records` from build row to output tables | `source`, `paid`, `stamp`, `view`, `recovered`, `corrections` (what it reads), `chunks` (checkpoints), `recipients`, `unioned`, `builds`, `run` |
| `FilingImages` | `fetch_filings`, `recut`, `materialise`/`local_pdf`, `render` | `table`, `object` (S3), `cache`, `pages` (PNGs), `rule` (the code deployed), `call`, `recut`, `reader`, `readings`, `forgotten` (history) |
| `RecoveredLoad` | work list, recovered-grants `load`, the view and its recreation | `current`, `line25` (the relations), `worklist`, `fetched`, `accepted`, `stored`, `view`, `rebuilding`, `load` |
| `Watchdog` | `watchdog.run`, `_stop`, `stop` | `watch`, `child`, `backend`, `interrupts` |
| `MatchRules` | the matcher's views, blocks, features, guards, ranking, winners, the join to grants; preflight and explainer | operators |
| `MatchProblems` | what `MatchRules` is asked, a universe and grants, and the properties of its answers (`MatchSpec`) | |
| `ClientReads` | the queries of `client.py` | operators |
| `CurrentRules` | which rows of a filer-year the current relations keep | operators |
| `CurrentProblems` | what `CurrentRules` is asked, a grant list with its line 25 or the versions of a year, and what its answers promise (`BlockSpec`, `VersionSpec`) | |
| `GrantLists` | which tables of a transcribed filing are its grant list | operators |
| `RuleProblems` | a behaviour for the four above: a problem, then the rules' answer | `problem`, `answer` |
| `MC*` | constants and initial states for TLC; `MCMatchRules` and `MCCurrentRules` hold small problems of `MatchProblems` and `CurrentProblems`, the second also the property on doubled filings; `MCClientReads`, `MCGrantLists` the problems and the properties of their modules; `MCRules` puts them in one run | |
| `SourcesCliProofs`, `BatchLoadProofs`, `PageReadingsProofs`, `ReadingRunProofs`, `WatchdogProofs`, `MatchRunProofs`, `FilingImagesProofs`, `RecoveredLoadProofs` | theorems about the module each is named for; the first also about `StampedTables`, `CanonicalBuild` and `SourcesRefresh`, `MatchRunProofs` also about `MatchRules`, `RecoveredLoadProofs` also about `CurrentRules`, whose relation the view is over | |

How they correspond to the code:

* `StampedTables` has one action per committed transaction or per statement that can see other
  transactions' commits. `IngestStart .. IngestFinish` are `ingest_source` in order; `IngestFail`
  its except branches, `IngestCrash` a killed process or an error that escapes it. A staging table's
  content is which COPY batches it holds, which of them a dedupe has collapsed, which patch is on it
  and from which batches that patch removed rows. `PatchRewrite`, `PatchCommit`, `PatchAbort` are
  `patch.apply` around its one commit. `BuildStart .. BuildCommit` are `build_current_relations`: the
  LOCK, one stamp read per input, the temporary tables, the CREATE TABLE AS, the stamp and commit.
  Locks are guards: who waits for whom follows Postgres's ACCESS SHARE, ROW EXCLUSIVE and ACCESS
  EXCLUSIVE. `UpToDate` and `RelationCurrent` are `relation_states`.
* `CanonicalBuild` extends it: the other processes are the same actions, held back where the identity
  transaction's locks hold them, and the rebuild uses `StampedTables`' own builder actions. `Statements`
  is the sequence of what the identity SQL reads.
* `PageReadings` collects one future per action on the main thread (`CollectRow`, `CollectRaised`,
  `CollectTrip`, `CollectUnwritten`), starts and ends jobs in the pool, and has the ways out: the end
  of the loop, Ctrl-C, the breaker, a failed commit, a worker's exception, death. `Drain` and `Flush`
  are the `finally` block. A look-up under settings that are not today's raises like a stored-only
  pass and is not told apart from it (`buy = FALSE`). A Ctrl-C lands in the wait for a future.
* `ReadingRun` takes each `read_pages` call as one step that does what `Readings` allows, which is
  what `PageReadings` is shown to implement: stored parse failures that the call's parser reads become
  readings, whatever their errors and also in a stored-only pass, and of the rest it buys those with attempts
  left. A call cut short (its breaker, a failed write, a Ctrl-C) is `Stop` or `BaseReaderFails` with some of
  the pages re-parsed, or all of them and any subset of the others recorded. `agree` is stage by stage:
  `Consult` (a reader), `Decide` (the stage's verdicts), `DecideLast`; a stop in a flush leaves any of its
  verdicts written. `run` is the cost gate's stored-only pass, base readers as processes, transcribe,
  transcribe again, final check. A better parser can be deployed at any time (`ImproveParser`): a run keeps the
  one it was started with, its child processes may have the newer.

* `BatchLoad` has one action per step of a command that another loader, a crash, a repost or a changed
  concordance can come between: the check before the claim, the claim, the archive renamed into place,
  its stamp, the parse, the advisory lock, the rows deleted, the commit, the copy to S3, the clean-up.
  A run also carries the archive that was really parsed (`bytes`), beside the SHA-256 it records.
  Batches share no file or lock, so one is modelled; `ensure_tables`' DDL is left out.

* `SourcesRefresh` takes the command source by source: selected, resolved (or its error), skipped, ingested
  by `StampedTables`' own loader actions, then the dependents rebuilt by its builder actions, then the
  exit code. A version is a date. Exit 1 stands for any code but 0. Adoption of stamps (`--adopt`) is not
  an action.
* `MatchRun` represents rows by a number that changes with them and matches by the inputs they were scored
  on, so that "the same" is an equality. One action per transaction or S3 call: build row, bookkeeping,
  each relation rebuilt, the locked reads, the listing of chunks, each chunk, one output transaction or
  two, the final row. The universe is read from staging (`Direct`), the grants from `privategrants_current` and
  the recovered ones through the view, once to match them and again to join them (`Joined`), hours later.
  A load may fail part way, end with a version of its own, or end with the version there was (forced, or a
  patch); `shifted`, history the code does not keep, marks rows that are not those a version was first loaded with.
  `Concurrent` is the one assumption a run makes of its surroundings. A prefix given by a caller of
  `match_records` is left out.
* `FilingImages` collects results as `fetch_filings`' main thread does: a streak of refusals counts in the
  order jobs finish, rows are written in chunks. Each commit may fail, by an error or a Ctrl-C in it, and land
  all the same or not: a chunk's is emptied out of the buffer first, so its rows are not tried again
  (`CollectFails`), and the call's last one ends it without a report (`LastCommitFails`). A Ctrl-C otherwise
  lands in the wait for a future; a second one, while the jobs in flight are waited for, is as a kill
  (`Crash`) after what they uploaded. The commands of one box are given one at a time.
* `RecoveredLoad` takes the work list once, verdicts batch by batch, and commits filing by filing. `Listed` is the
  query: a placeholder that holds at least half of line 25(d), which another build moves in its own transaction
  (`RebuildFields`). `Selected` takes of a target's lists the one of lowest error within the 0.5% tolerance, so a
  loaded list may differ from the amount it was held to; its rows keep that amount (`declared`), and a filing
  that states another has other rows even where the same list is selected. Of a row's other columns, those that
  come from the work list (source version, labels) or the reading are left out: no property tells them apart.
  `stored` keeps the time of its rows because a repeat must not touch it. `rebuilding` is
  `current_grants.main` between reading the view's policy and recreating the view.
* `Watchdog` has a step per call to the instance, each of which may fail, and per signal. One interrupt is
  modelled: a second one escapes `run()` in the middle of a stop. A listing that is not answered before
  the terminate counts as "gone", as in the code.
* The rule modules translate SQL and pandas into sets and sequences of records. Strings are members of
  small sets; what a regular expression, a cleaning or a similarity says of one is a constant. In
  `MatchRules` scores are percents, and the registry of corrections is valid, or the run raises. Tables give their zips
  as the views cut them; a registry line has its own as written, since the view, the preflight and the explainer
  each read it. Stripping and lower-casing of the other columns are part of what a member of a set stands for. In
  `ClientReads` the rank order and limit of a keyword search, and `search_nonprofits`' ranking, are left out.
  In `GrantLists` a group key is the set of its words, uncut. Ties the code leaves to row order are
  chosen freely.

Mutants, operators kept before the definition they alter and named as such, are plausible bugs; each
property is broken by at least one of them (`PROJECT.json`, "mutants").

## The runs

All runs say `CHECK_DEADLOCK FALSE`: the counters that bound them (runs, builds, reads) run out, and
idle jobs are a legitimate end.

| run | bounds | shows |
|---|---|---|
| `stamped_tables` | one loaded table, two relations of it of which one reads the other, two builders, one more load or patch, two builds, one change of rules (1.1M states) | a relation the comments call current is exactly what its inputs hold (`CurrentIsFaithful`); a relation's stamp names the load of every row its statements read (`StampNamesOrigin`); rows never move under an unmoved stamp |
| `sources` | a derived, patched table with its relation and a direct one; one canonical build beside a refresh, hand builds, one more load or patch, or two from a database where the direct source was never loaded (1.3M) | the identity statements read one build of each relation and a success row names the runs behind current relations (`BuildRowTellsTheTables`); a stamped table holds exactly the load it names; after exit 0 what the command loaded is in the tables and what depends on it is rebuilt, and what it skipped has a success row (`ZeroExitMeansDone`; that such a row is not a loaded table is `skipped_is_loaded`); what `loaded` shows as loaded is there |
| `page_readings` | three pages of two filings, two workers, chunk 2, two errors, three calls (0.57M) | implements `Readings` (`KeepsReadings`); buys only what is missing and records what was paid for (`MoneyBuysReadings`); a breaker's trip costs nothing; what a call reports is what the table holds |
| `batch_load` | a batch loaded once, its zip and our copy kept or not; two more commands of two loaders on two machines, two postings, two concordances (0.5M) | a batch's rows are its latest run's, once, from the archive it names; one run per version and concordance; nobody touches an archive in use; a reload parses what was loaded |
| `reading_run` | one page, two base and two escalation readers, two errors, any number of stops, one better parser, of which one kind of answer waits (1.7M) | verdicts are the policy's but where a stored failure was re-parsed since, and all of them when a run ends (`VerdictsFollowPolicy`); the report of what escalation bought adds up; no other verdict changes; the run, given again, ends once stops cease (`RunCompletes`) |
| `match_run` | two sources of the grants, of which the universe reads one, two relations of which one reads the other, two matchers, two policies, two chunks, two builds, one change (1.0M) | a resumed chunk was scored on this run's rows, the grants read are those named, the grants joined those matched (`RunMatchesWhatItNames`), but for rows shifted under their version and a view pointed elsewhere before the join; the outputs are a pair or the row says not |
| `watchdog` | two backends with two statements each, three levels of swap, two absent polls, one interrupt | exit 2 leaves nothing running that was seen, exit 0 stopped nothing (`ExitCodeTellsTheEnd`); every stop ends |
| `filing_images` | three filings, two images, two workers, chunk 2, two refusals in a row, two attempts, two calls, one call cut short by a kill, an interrupt or failed commits, one reading (3.0M) | bytes handed to a reader are the row's, and the bucket differs from a row only after a refetch (`BytesAreRows`); a filing reported as not tried was not, and attempts charged are attempts made but where a failed commit or a kill lost the row (`TriesAreTold`); a reading is of the pages its row marks |
| `recovered_load` | two years, one with two versions of its return, one policy, two builds, three changes, two loads, one stop (2.8M) | after a full load the table is what the rule gives; a repeat writes nothing; the view adds up to the tolerance, and exactly where it replaces nothing |
| `rules` | every problem of at most 3 organizations and 2 grants, 4 of both; 3 identities, 2 queries, 3 payments; 2 years, 4 lines of 3 versions; 4 tables of 2 statements (0.51M) | see below |
| `stale_pages`, `view_decides` | the first two disagreements below | violated, each by what the code does |

The properties of `rules`: the preflight, the explainer and the saved chunks decide as the matcher does
(`ToolsAreTheMatcher`; of a correction line only tried, when its zip means the same as written and as the registry's view
cuts it); no shared name decides a tuple, refusing shared names early loses no match, a
correction decides the tuple it was written from (`OneFilerDecides`); the join to grants gives each one
recipient and keeps repeated recovered grants (`JoinKeepsRecoveredGrants`); bulk, single and streamed
identity searches agree, roll-ups are of the grants read, profiles are of the identities (`ReadsAgree`);
an eligibility filter is the filter a caller would write over the reads; one line-25 rule at most fires and what it
leaves adds up to line 25 (`LineRulesLeaveLine25`); a filing emitted twice counts once and what is not repaired is
reported (`DoubledFilingsCountOnce`); Schedule I lines and financials of a year are of one filing (`VersionsAgree`); an accepted list is evidenced and one given up
was not there (`AcceptedListsAreEvidenced`); what is reconciled is the filing's list
(`ReadListsAreTheLists`). Each is a comparison of two computations or of a result with what it was computed
from, not a restatement of one.

Why these bounds. In the tables, every hazard is a race of one writer against one reader's
statements; two builders are needed for two relations rebuilt side by side, a second relation for a
relation read by another, and one load after the first for a drop to be older than another. Batches
are one there (two with a dedupe exceed what TLC finishes in minutes); the proofs hold for any number. In
`page_readings` two filings and two errors are what the breaker tells apart, a chunk of two pages leaves one
row over, and three calls let a page fail, fail again, and be skipped. In `reading_run` pages meet only in
that one failed page brings a second transcribe for all and one unread page stops a stored-only pass, while
the policy's cases need all four readers, so the bounds go to those. A limit of two errors has a first failure,
a last one, and a retry between; the code's third adds a retry. `Garbled` holds one answer, the one that decides between the not-a-list rule and a dispute.
In `match_run` a chunk is resumed by the second build from the first, and one change between them is what can
make it wrong. In `filing_images` a third filing is the one a pool of two has not begun when two refusals
stop it. In `recovered_load` two versions of one year's return are what moves the work list; amounts of 200 and 201 are the smallest
that 0.5% does not tell apart, with lists of 199, 201 (a tie for 200) and 203 (too far from both), and line 25 is 200 or
402, half of which one of them holds and the other does not. In `rules`
three organizations are a winner, a rival of the same name and a third that breaks or makes a tie; four
tables are a statement in two parts, one before it and one after it. `MaxGroups` is 14 in the code.

In `batch_load` every race is between two commands, and what a third adds is what the batch held
before, which the initial states enumerate. Two postings have two sizes there. With one size
(`SameSize`) TLC refutes `RowsAreLatestLoad`: the IRS reposts after two loaders asked for its
Last-Modified; the first dies between the rename and the stamp, where the stamp of an earlier load
still lies; the second takes that stamp for the new file's, since `fetch` compares sizes and not the
SHA-256 it has.

`stamped_tables` starts from a loaded table and `sources` from a database in use (loaded, patched, relation
built) or from one whose master file was never loaded, states the system reaches first, so that the
bound on runs goes to what follows. `CliSpec`, which the proofs are about, starts from an empty one.

**One refresh of a source at a time.** `SerialSpec` assumes it, and so do `sources` and the proofs
of everything but types. Nothing in the code enforces it; `docs/current-relations-stamp.md` and the
comments of `ingestion.py` leave it to practice. Without it two loads append to one table, and TLC
refutes `CurrentIsFaithful`. Likewise `page_readings` assumes one call over the same pages at a
time (`Overlap = FALSE`): with two, both buy, and the later commit overwrites.

**No load beside a matcher.** `match_run` assumes that no load, sync of recovered grants or edit of the corrections
commits while a matcher runs (`Concurrent = FALSE`). Operators are told so of recovered grants
(`docs/placeholder_recovery_operations.md:480`, `docs/data-refresh-2026-10.md:41`); of sources the matcher refuses what it sees
between its bookkeeping and its reads, and the rest is practice. Without the assumption TLC refutes
`RunMatchesWhatItNames`. View commands, other matchers, and loads of any kind between runs are there. Rows shifted
under a version that stays (a forced reload, a patch, a load that failed) do make a run resume chunks of
other rows, another `--chunk-size` those of other pairs, and a view command before the join has
other grants written than were matched: the property excepts these by name, and each is a disagreement below.

**Fairness.** `ReadingRun` has `WF_vars(Step)`: a run goes on while nothing stops it and a stopped run is given
again, which is what `frame.run`'s docstring tells its user to do ("safe to run again after any stop").
Stops are neither bounded nor fair: a Ctrl-C, a crash, the cost gate's ceiling, the breaker of a read, a failed
write, a base reader that exits non-zero. `RunCompletes` is conditional on them: `<>[](run.step # "stopped")`. A gateway
that is down for good trips the breaker on every run, costs no attempts, and keeps the run from its end; that much
is assumed of it and no more: it may answer or fail every call. A ceiling that the projection exceeds stops
every run likewise until it is raised. `Watchdog` has `WF_vars(Step)`, the watchdog is
a process that runs on, and `WF_vars(Killed)`, a process that was sent SIGKILL ends. Nothing is assumed of
statements, of the command under a lesser signal, or of the instance.

### Disagreements between code and documents

Two are runs TLC finds violated; six more are formulas of the modules that TLC refutes within a minute when one is given
to it as the INVARIANT of the named cfg. Each says what the quoted line says.

1. `stale_pages` (`ReadingsAreOfTheirImage`): `render` keeps the PNGs of a filing by its object id, so after a
   refetch brings another image its readings are made from the old pages and stored under the new
   sha256, which `docs/placeholder_recovery_operations.md:123-125` says never happens.
2. `view_decides` (`OnlyTheViewCommandDecides`): `current_grants.main` reads the view's policy before its builds and
   recreates the view with it after them, undoing a `view` command given in between; `view.py:30-31`
   says only that command changes it.
3. `SkippedIsLoaded` (`SourcesCli.cfg`): a forced reload that fails after the DROP leaves a table `refresh` skips
   with exit 0, since the skip looks for any earlier success of the version; the repository's `README.md:139-140` says a skipped
   source is "already loaded". What exit 0 does stand for is `ZeroExitMeansDone`.
4. `ForceReloads` (`BatchLoad.cfg`, also with one loader): `load --force` of a batch already loaded parses the archive, then meets the check
   of `_copy` (`load.py:225`) and stands down; its help (`own_extract/__main__.py:318-319`) says it reloads such a batch.
   `OneRunPerVersion`, which `batch_load` checks, is that same check from its other side: what it promises two loaders
   is what keeps `--force` from its work.
5. `OldChunksAreNotReused` (`MatchRun.cfg`, also with one matcher): a checkpoint prefix names source versions, so after a forced reload of the same
   version chunks scored on its rows before are resumed; `grant_matching.py:1047-1050` says a new ingest
   of any source produces a fresh prefix and old chunks "can never silently be reused against new data".
6. `OtherSizesAreInvalid` (`MatchRun.cfg` with `Sizes = {50, 100}`): the size is in neither the prefix nor the file's name, so chunks cut to another
   `--chunk-size` are resumed; its help (`grant_matching.py:2992-2993`) says a change "invalidates any existing chunks".
7. `RecoveredAreReadOnce` (`MatchRun.cfg`): the join reads the recovered grants again through the live view, which a `view` command may
   have pointed at another policy; `grant_matching.py:2761-2762` says they are read once and that the build row
   and the prefix name the same rows.
8. `TriedLinesAreTheRegistrys` (`Rules.cfg`, also at its smallest bounds): the explainer tries a correction line with its zip as written, the registry's view
   keeps five characters of it, lower case, and `clean_zip` makes nothing of a zip of six to eight without a dash. Of a
   line with a British postcode the explainer says "not blocked" where the line in the registry wins the tuple;
   `match_explainer.py:29-32` says the question is answerable before editing the registry.

Others met while reading and modelling, not kept as runs:

* `stamp_patched` takes an unstamped table as one without stamps, so a patch goes ahead while a load
  runs, and the load's stamp then names no patch.
* `stale_basic_fields_current` compares maxima of run ids that include the patch's own; `adopt_relations`
  inherits it.
* A reader that runs out of attempts in the second transcribe leaves the final stored-only check a
  verdict to write, which stops the run; giving it again completes, as `RunCompletes` says.
* A concordance that changes and changes back leaves a batch that `patch` refuses and that `load`, `reload`
  and `load --force` all take for loaded.
* `docs/current-relations-stamp.md:204-206` sends an operator to `--adopt` after an edit of a stamped table,
  which answers "stamped already" (`current_grants.py:1259-1260`). `adopt_staging` reads runs, then
  samples, without a lock, and adopts an empty sample.
* A direct source without Last-Modified raises a LookupError `_resolve_for_cli` does not catch
  (`resolver.py:131`, `__main__.py:61-65`): a refresh ends with earlier sources loaded and nothing rebuilt.
* `base_pair_report` joins on readings, so a decided page nobody could read is missing from what says "every
  page decided" (`ReportTellsEscalation` allows for it).
* `get_grants` promises one spelling per granter EIN whichever year's filing; an EIN in both canonical tables
  gets the funder's name on 990-PF rows and the nonprofit's on 990 rows. A limited list is cut in the
  database's collation and sorted again by code points, so it need not be the head of the full one.
* `_search_runs` is given labelled tables only, so a run can cross a vetoed table although its docstring says
  it never does (`attachment_grants.py:519-523`, `559-560`).
* The module docstring of `placeholder_recovery/view.py` (40-44) names `load` and `view` as what brings the view
  back after a rebuild dropped it; `current_grants.main` recreates it itself.

## What is proved

Every theorem is about any values of the constants that meet the module's named assumptions, which
state what the code requires of them; what a theorem assumes beyond is in its statement. Each safety
property is proved the same way: an inductive invariant `IInv`, established by `Init`, kept by every
action (one step of the proof each), and implying the property. `IInv` was checked by TLC on the run's
bounds before it was proved. In each module the properties of the run were not inductive by
themselves; what had to be added is what the code relies on without saying it, and is named below.

**`SourcesCliProofs`**, its first part, about `StampedTables`: any sets of tables, relations and builders, any topology that meets
`TopologyAssumption` (relations read staging tables and, one level deep, each other), and any bounds:

| theorem | statement |
|---|---|
| `TypeCorrect` | `Spec => []TypeOK` |
| `CurrentRelationsAreFaithful` | `SerialSpec => []CurrentIsFaithful` |
| `CurrentRelationsAgreeAlways` | `SerialSpec => []CurrentRelationsAgree` |
| `RunningLoadsAreUnstamped` | `SerialSpec => []RunningLoadIsUnstamped` |
| `RowsMoveWithStamp` | `SerialSpec => RowsMoveTheirStamp` |
| `StampsNameTheirLoads` | `SerialSpec => []StampNamesItsLoad` |
| `StampsNameTheirOrigins` | `SerialSpec => []StampNamesOrigin` |

`CurrentIsFaithful` speaks of a finished build, and says nothing of the stamps a build in progress has
read, nor of why a stamp seen once can not come back under other rows. `IInv` adds, besides types and
`OneIngestPerTable`:

* `LoadInv`: a run whose load is under way is 'started' and its table is unstamped from the
  recreation on;
* `StampInv` (`EntryKnown`): a stamp names runs already recorded as successes, so an id recorded
  later is new: a table whose stamp moves never returns to an earlier stamp;
* `BuildInv` (with its witness that an entry read and rows read later belong together): while a
  builder is in its transaction, wherever the entry it read still is the input's entry, every row it
  has read is what the input holds now;
* `RelationInv`: the same for committed relations.

`EveryTableStep` is the heart of it: a step leaves a table's rows alone or gives it a stamp nobody
has recorded, so a recorded entry that equals the present one proves the rows are the same. The
action lemmas (`IngestTable`, `PatchTable`, `EntryStep`, `RelationStep`, `LoadStep`, `BuildStep`)
show each part kept; `IInvStep` puts them together.

The two theorems on names rest on `NamesInv` beside it: a running load's table holds exactly the batches
it has sent (`SentInv`), so the stamp written at its end names all of them and nothing else; and a build
in its transaction that read a stamp and rows of a table keeps that load under its lock (`OriginInv`),
although a patch may commit between its statements and move the rest of the stamp (`LockedKeeps`).

**`BatchLoadProofs`**, about any loaders, cache directories, concordances, postings and number of commands,
from no row loaded:

| theorem | statement |
|---|---|
| `BatchTypeCorrect` | `Spec => []TypeOK` |
| `OneRunPerVersionAlways` | `Spec => []OneRunPerVersion` |
| `ArchiveStays` | `Spec => []ArchiveStaysWhileUsed` |
| `RowsAreLatestLoadAlways` | `Spec => []RowsAreLatestLoad`, assuming `SizesDiffer` |
| `CopiesAreTheLoadedAlways` | `Spec => []CopiesAreTheLoaded`, assuming `SizesDiffer` |
| `SideTablesAlways` | `Spec => []SideTablesHoldOneWrite`, assuming `SizesDiffer` |

`SizesDiffer`, that two postings of the archive never have one size, is what `fetch` trusts when it
compares sizes; the paragraph on `SameSize` above says what goes wrong without it. The first three need
nothing of the kind. That a commit writes a real stamp rests on what the
loader had in hand at each earlier step, and that nobody took it away. So `IInv` adds

* `Holding`: past the claim a loader holds its directory's flock, inside the transaction the batch's
  advisory lock;
* `JobsOK` and `StampsOK`: what a loader has in hand at each step, and that a stamp on disk is a real
  one or absent;
* `CheckedInv`: in the transaction, what the check found and what the DELETE saw are still so, which
  is where one run a version comes from;
* `OneWrite`: each table holds one command's rows.

`HonestInv` adds the agreement of archive, stamp and job (`HonestJob`), of runs and of rows. `Others`
says what a step leaves alone of another loader's; `OwnStep` and `HonestOwn` what it does to its own.

**`PageReadingsProofs`**, about any pages, filings, answers, workers, chunk, breaker and number of attempts:

| theorem | statement |
|---|---|
| `ReadingsWellTyped` | `Spec => []TypeOK`, any calls at once |
| `ReadingsKept` | `Spec => KeepsReadings`, assuming `Alone`: the refinement of `Readings` |
| `MoneyIsNotLost` | `Spec => []MoneyBuysReadings`, assuming `Alone` |
| `TrippedRunsAreFree` | `Spec => []TripCostsNothing`, assuming `Sole` |
| `ReportsAreTheTable` | `Spec => []ReportIsTable`, assuming `Sole` |

`Alone` (no two calls over the same pages are live at once, `Overlap = FALSE` or one process) is the
practice of the section above; with overlap both calls buy. `Sole` is one process, as in the run: the last
two properties compare a call that has ended with the table, which another process's later call may move
although neither did wrong. The invariant is `TableInv` of the live call: of a page it does not buy the
table holds what the look-up made of it, of a page it buys what the look-up found until the page's row
leaves the buffer in a commit, and that row from then on; and while the breaker has not been decided, or
has tripped, the pages to buy are untouched. Each step of `Next` then is a step of `Readings` or a stutter
(`LiveStep`): only the look-up's reparses and the commits of a chunk write, and each commits rows that one
attempt made from the row still there.

**`ReadingRunProofs`**, about any policy `check_policy` lets through, pages, answers and stops:

| theorem | statement |
|---|---|
| `RunWellTyped` | `Spec => []TypeOK` |
| `VerdictsAreThePolicys` | `Spec => []VerdictsFollowPolicy` |
| `VerdictsAreKept` | `Spec => VerdictsStay` |
| `ReportIsTrue` | `Spec => []ReportTellsEscalation`, assuming `IsFiniteSet(Pages)` and `Escalation # <<>>` |

A verdict is decided stage by stage and `VerdictsFollowPolicy` compares it with the policy over all stored
readings at once. What connects the two is `GateInv`: the pages the gate consults a reader on, or decides,
are those every earlier reader has settled (read, or is out of attempts) and no earlier stage decides. A
settled reading stays as it is with one exception, which `RowGrows` names: a stored failure that is re-parsed. From
that step on the page is in `recovered` if it has a verdict, until a stage decides it again; nothing is said of
its verdict meanwhile, and `DoneInv` (the second half of `VerdictsFollowPolicy`, stage by stage) says that the final
stored-only check leaves no such page. `EscalationInv`, for the report: an escalation reader has read a page only
because the base readers settled it without deciding it, or one of them was given up on first and its failure re-parsed
later (`RecoveredLate`), the one case in which the report charges a page of the not-a-list rule. A policy without an escalation has no report to
tell anything in (its last reader is a base reader).

**`WatchdogProofs`**, about any backends, limits and interrupts: `WatchWellTyped` (`Spec => []TypeOK`) and
`ExitCodeIsTrue` (`Spec => []ExitCodeTellsTheEnd`). The exit code looks back on the whole watch; the
invariant adds that nothing was asked before the stop (`LoopInv`), that past the signals the command is
over (`StopInv`), and that a statement listed at the breach and still running is a target (`TargetInv`),
which is why a backend's statements are counted.

**`MatchRunProofs`**, its first part, about `MatchRun`: any matchers, sources, policies, chunks and builds:

| theorem | statement |
|---|---|
| `RunsWellTyped` | `Spec => []TypeOK` |
| `OutputsArePaired` | `Spec => []OutputsAreOnePair` |
| `RunsMatchWhatTheyName` | `Spec => []RunMatchesWhatItNames`, assuming `~Concurrent` |

The pair needs no assumption on what commits beside a run: `PairInv` says that only the run whose recipients
are in place can be between its two outputs, `Distinct` that no two runs share a build row. The third
theorem's assumption is that of the run `match_run`; its invariant `NamedInv` says of every checkpoint
ever saved (`ChunkInv`) and every running matcher (`NamedRun`) that the rows it was scored on are those its
prefix names (`Names`). Names are compared by version, and versions only grow, so a version that is still the
present one, of a source not shifted under it, names the present rows; a chunk under an older version can not be found
again by a later prefix. `privategrants_current` holds the rows its stamp names (`StampInv`), so from the checks before
the reads to the join it holds those of the sources (`Fresh`), other matchers' rebuilds included.

**`FilingImagesProofs`**, about any filings, images, workers, chunk, attempts and refusals:

| theorem | statement |
|---|---|
| `ImagesWellTyped` | `Spec => []TypeOK` |
| `BytesAreTheRows` | `Spec => []BytesAreRows` |
| `ToldAsTried` | `Spec => []TriesAreTold` |
| `PagesReadAreCut` | `Spec => []ReadPagesAreCut` |

Within a call the table lags behind the downloads by the buffer, so the properties are about what a call has
committed or is about to. `FilingInv` follows each filing through the pool: not committed, the table holds
what the call found; committed, a row one attempt further and, but for a refetch, of the image in the
bucket, or, of a call that stops on a failed commit, what it found and the filing is `forgotten`; and the
attempts begun are those made. `AreHeld` says of the rows a last commit is given that they are all that is
left, each filing once: what it loses is what is forgotten. `StreakInv` counts the refusals behind a stop: a streak is of
that many different filings, each refused in its row or in the buffer. `PhaseInv` and `BufferInv` say where
jobs can be when the loop has ended; `ReaderInv`, `RecutInv` and `ReadInv` what the other commands of the
box have read of the table.

**`MatchRunProofs`**, its second part, about `MatchRules`: any names, words, scores, places and lists of them
that meet `ScoresAssumption`, and any finite tables of any size (`MatchSpec`):

| theorem | statement |
|---|---|
| `ToolsDecideAlike` | `MatchSpec => []ToolsAreTheMatcher` |
| `OneFilerDecidesATuple` | `MatchSpec => []OneFilerDecides` |
| `RecoveredGrantsStay` | `MatchSpec => []JoinKeepsRecoveredGrants` |

`ScoresAssumption` says that scores are percents, that an address without a line, a city or a state scores 0 and
any other is all like itself, that the zip is no part of it (`create_clean_address`), and that a zip cut to five is one
`clean_zip` makes something of. `Posed` says what a run is
given: names and places of those sets, lines `_read_corrections_csv` does not raise at, grants with an id each and
recovered ones with a key each, and rows the views' ORDER BY tells apart (`KeyBefore` orders the universe). TLC evaluates
both on the run's problems (`ScoresAssumption`, `ProblemsPosed`), so no theorem is about nothing. The argument:

* the order of `RankKey` is lexicographic and total, ties fall to the views' order, so among finitely many pairs
  there is one winner and it beats every other (`WinnerBeats`, from `FirstExists` by induction on finite sets);
* the winner of a tuple depends on the tuple's own pairs that pass the final rules, and these pass the chunks' rules
  (`ScoreSliceIs`, `ResolvedByFinal`, `ResolvedWithin`): hence saved chunks, and the preflight's slice, whose universe
  holds every row that blocks with one of its tuples, give the run's matches (`PreflightIs`), and a tuple won by a
  line is in its family's slice (`LineInSlice`);
* of one EIN's rows no pair is refused for another filer's sake (`OneEINMatches`), and the explainer's blocking, which
  does not ask for an address, admits no pair more, because a pair without one passes by its state
  (`ExplainedAsMatched`); a tried line is its registry row but for a zip that cleans to the same (`LineAlike`, a
  hypothesis that is needed: disagreement 8);
* the EINs in a state that the one-filer rule counts are those that carry the name there (`OneFilerAround`), and a winner it
  does not refuse was not refused early (`EarlyRefusalAdds`); a line's row has the greatest key there is, which only a
  twin shares (`LineWins`);
* a tuple has one match (`OneMatch`), a key one tuple (`TuplesAre`), so a grant has one recipient (`JoinKeeps`).

The proof corrected two statements that the bounds had let through. A line of the registry does not beat a row of
another EIN whose name only normalizes to the same ("U.S. Fund" beside "US Fund"): the two tie at full marks, so such a row counts as a
twin in `CorrectionsDecide`. And zips are compared as `clean_zip` leaves them in `location_agreement` too, so a line without
a zip, or with one that comes to 00000, is none the property can speak of.

The types of every state machine with proofs (`TypeOK`), and `CurrentRelationsAgree` and `RunningLoadIsUnstamped`, are
proved and in no run; the last two follow from what a run checks.

**`SourcesCliProofs`**, its second part, about the commands on one database, a refresh or a build by hand beside a canonical
build and patches, from an empty database on (`CliSpec`), for any tables, identity statements and bounds and
finitely many dates:

| theorem | statement |
|---|---|
| `CommandsAreSerial` | `CliSpec => SerialSpec` |
| `ShownIsLoaded` | `CliSpec => []ShownAsLoadedIsLoaded` |
| `ZeroExitIsDone` | `CliSpec => []ZeroExitMeansDone` |
| `CanonicalRowTells` | `CliSpec => []BuildRowTellsTheTables` |

The first is an implementation proof: a command loads one source at a time, so each step is one `SerialSpec`
allows (`LoadsInv`: the one run loading is the refresh's), and what is proved of `SerialSpec` holds of the
commands. Built on it, `CliInv` has seven parts more:

* `SessionsInv`: a builder session is at work exactly while its command says so;
* `NumberedInv`: runs are numbered as they start, and while one loads it is the newest ingest;
* `LatestInv`: a stamp names its table's newest success, and if the newest run of a table is a success, its
  stamp names that one: a reload that fails past the DROP takes the stamp with it, and one that fails before
  is itself the newest run;
* `SinceInv`: from the time a run has emptied its table, the table and whatever a build has read of it hold
  rows of that run or later, because the DROP waits for every build that reads the table;
* `DoneInv`: what the refresh has been through so far, source by source and relation by relation, stays done:
  what is built after a load, by whomever, is built from it or later (`RebuiltStays`, `RebuildGoes`);
* `LoadedInv`: a command loads a source once, so what it loaded is still the source's newest run, and the rows
  are that run's (`LatestInv`);
* `CanonInv`: from its lock on no relation is replaced (`RelationsHeld`), a canonical build reads one build of
  each, and what was current when the runs were checked again is of the runs its row names
  (`CurrentIsBehind`, from `CurrentIsFaithful`, `StampNamesItsLoad` and `LatestInv`).

`CliInv` was checked by TLC on the `sources` run's databases in use.

**`RecoveredLoadProofs`**, its first part, about `RecoveredLoad`: any policies, filings, years, readings, lists, amounts and bounds, from any
state of privategrants_current and any readings (`Init`):

| theorem | statement |
|---|---|
| `LoadTypeCorrect` | `Spec => []TypeOK` |
| `FullLoadsAreTheRule` | `Spec => []FullLoadIsRule` |
| `RepeatsWriteNothing` | `Spec => RepeatWritesNothing` |
| `ViewsAddUp` | `Spec => []ViewAddsUp` |

`FullLoadIsRule` speaks of a load that is over. What makes it so is the load's progress, filing by filing, and
what it holds in memory meanwhile:

* `UpToDate`: while nothing it reads has changed, the list the load took is the work list on what it has still
  to come to, what it read for its batch is what the table of readings holds, and a filing that had rows and is
  not on its list has none by the rule;
* `FullInv`: of a full load, a filing it is past has the rows the rule gives, one it has still to come to has
  not been seen, and one without rows stays without until the load comes to it;
* `CleanInv`: a load of a policy whose last full load still holds reads nothing that has changed since, so what it
  comes to it finds as the rule has it, and commits nothing (`RepeatsWriteNothing`).

`ViewsAddUp` is not equality: what the view holds for a year is within the tolerance of what `privategrants_current`
holds where a list is shown, the list having been held to today's placeholder, and equal to it elsewhere.
`RowsAreLists` says of the selection that what it takes is near the amount and is one list of a target at most.
The view's dollars are then the one list of the one filing of a year (`YearInv`), or the rows as they stand
(`SumOfNone`, `SumOfOne` unfold the sum), for any tolerance (`ToleranceAssumption`: a natural number of thousandths). `IInv` was checked by TLC on the bounds of the run.

**`RecoveredLoadProofs`**, its second part, about `CurrentRules`: any rows of a filer-year, of any number, amounts that may
be negative or none, and any rows of basic_fields, repeated or not:

| theorem | statement |
|---|---|
| `YearsAreOfOneFiling` | `VersionSpec => []VersionsAgree` |
| `Line25IsKept` | `BlockSpec => []LineRulesLeaveLine25` |

`VersionsPosed` and `BlockPosed` say what a filer-year is: it has a line item, urls and hashes are numbers to be
compared, amounts are integers, and for `VersionsAgree` there is a version. TLC evaluates both on the run's problems
(`YearsArePosed`). The argument of the first:

* the order of the versions is a strict one on finitely many, so it has a first member (`NothingBefore`,
  `CurrentVersionIs`), which reports the metric if one does (`AmongReporting`) and is of the latest url of those
  (`OneFiling`);
* of the copies of a line item one is first (`FirstCopyKept`), so the rows of rank 1 hold each line item once
  (`FirstCopies`), and giving the rows a second time adds none (`GivenTwice`, `AmendedYearTwice`).

Of the second, which is about sums that the community modules write as a fold:

* a fold over a finite set takes out whichever row one likes (`FoldUpTo`, `FoldsAgree`, `SumWithout`). Induction over the
  rows is done on the least set that is a counterexample (`SmallestSet`);
* of a block whose every line item is there an even number of times the first half of the copies is half the
  rows and half the sum (`HalfKept`): as many are left as go, of each line item (`HalfOf`), and the least block this
  fails for would have a smaller one with a line item less;
* the three rules ask for blocks no two of them can share (`RulesApart`): the first for rows of one line item, the second
  for several that share one amount, the third for a total beside other rows that add up to it, which rows of one
  amount never do: the others would have to be 0 (`NoTotalAmong`);
* what each leaves has line 25 for its sum (`ForwardLeaves`, `FieldLeaves`, `TotalLeaves`), with the halving of a
  doubled filing before it (`PairLeaves`), and without one of them the rows that stay are the block or its half
  (`LinesKept`).

Only model-checked:

* the properties of `ClientReads` and `GrantLists`, and `DoubledFilingsCountOnce` of `CurrentRules`: they say what recursive
  functions, and lists made by flattening lists, come to for inputs of every size (induction over data);
* liveness (`RunCompletes`, `StopsEnd`), and with it ENABLED, out of the prover's reach.


## Not modelled

HTTP, S3, PDF rendering, gateway calls and XML parsing are represented by their outcomes. Of SQL that only
computes, the dedup rules, the matcher's rules and the client's queries are operators; the columns of the
identity tables are not. Adoption of stamps, discovery of batches, the scraping of listings, person and address
normalization, the response parser, the selection of the population and the comparison with ground truth
have no actions: they are data or run by hand. Reports, wording and logging are left out.

Prerequisite checks, the cost projection and `--dry-run` of the run end it before anything is bought
and are covered by `Stop`. Two hazards have no property, with the reason in `PROJECT.json`: two refreshes of one
source at once (excluded by `SerialSpec`, not by the code), and equal maxima in the staleness scan. The components without a module
(own-extract reports, census, session helpers, one-off scripts, the frontend) keep no state that others act on.

## Plan

The modules of the plan are written, every state invariant and action property of the state machines' runs is
proved, and so are those of the matcher's rules and, but for the doubled filings, of the current relations' rules.
Left are that property and the other two rule modules.
