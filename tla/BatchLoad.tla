----------------------------- MODULE BatchLoad -----------------------------
(***************************************************************************)
(* One IRS batch on its way into irs_extract (own_extract/__main__.py,     *)
(* batches.py, load.py).  Loaders on several machines each take the batch  *)
(* in their cache directory under a flock, fetch its archive, parse it and *)
(* replace the batch's rows in one transaction under an advisory lock.     *)
(* The IRS may repost the archive under its name, the concordance file may *)
(* change, and any command may die at any step.                            *)
(*                                                                         *)
(* An archive is a number: what the server holds, its Last-Modified and    *)
(* its SHA-256 are the number of the posting, and two postings may have    *)
(* the same size.  Batches share no lock and no file, so one is modelled.  *)
(***************************************************************************)
EXTENDS Naturals, FiniteSets, Sequences

CONSTANTS
  Loaders,       \* processes, or reload jobs
  Caches,        \* cache directories, one a machine
  Concordances,  \* contents of concordance.csv
  None,
  MaxArchives,   \* bound: postings of the archive
  SizeOf,        \* [1 .. MaxArchives -> sizes]
  MaxJobs        \* bound: commands run

ASSUME BatchAssumption ==
  /\ None \notin Loaders
  /\ MaxArchives \in Nat \ {0} /\ MaxJobs \in Nat
  /\ SizeOf \in [1 .. MaxArchives -> Nat]

VARIABLES
  served,    \* the archive the IRS serves
  mapping,   \* the concordance file
  cache,     \* per cache directory: the zip and the stamp beside it
  flock,     \* per cache directory: who holds the batch's .lock
  bucket,    \* our copy in S3, with the SHA-256 in its metadata
  advisory,  \* the holder of the batch's advisory lock
  rows,      \* the batch's rows in the GT tables, in returns, in unread_paths
  runs,      \* its successful runs in ingest_runs, by finished_at; bytes: what was parsed
  job,       \* what each loader is doing
  begun      \* commands begun

vars == <<served, mapping, cache, flock, bucket, advisory, rows, runs, job, begun>>

Archives == 1 .. MaxArchives
Parts == {"tables", "returns", "unread"}
NoArchive == 0
NoStamp == [lm |-> 0, sha |-> 0]
Kinds == {"load", "returns", "audit", "reload"}
(* audit and reload read our copy; load and --returns-only the server's.   *)
FromCopy(k) == k \in {"audit", "reload"}
(* The commands that record a run.                                         *)
Records(k) == k \in {"load", "reload"}

Idle == [step |-> "idle", kind |-> "load", id |-> 0, force |-> FALSE, cache |-> None, lm |-> 0,
         sha |-> 0, conc |-> None, downloaded |-> FALSE, held |-> NoStamp, bytes |-> 0,
         deleted |-> {}]

Init ==
  /\ served = 1
  /\ mapping \in Concordances
  /\ cache = [c \in Caches |-> [file |-> NoArchive, stamp |-> NoStamp]]
  /\ flock = [c \in Caches |-> None]
  /\ bucket = [file |-> NoArchive, sha |-> 0]
  /\ advisory = None
  /\ rows = [p \in Parts |-> {}]
  /\ runs = <<>>
  /\ job = [l \in Loaders |-> Idle]
  /\ begun = 0

(* load._loaded: some success run of this version under this concordance.  *)
Loaded(lm, conc) == \E i \in DOMAIN runs : runs[i].lm = lm /\ runs[i].conc = conc
Latest == runs[Len(runs)]

At(l, step) == job[l].step = step
Dir(l) == cache[job[l].cache]
Goes(l, step) == job' = [job EXCEPT ![l].step = step]
Released(l) == [c \in Caches |-> IF flock[c] = l THEN None ELSE flock[c]]
Ends(l) == job' = [job EXCEPT ![l] = Idle] /\ flock' = Released(l)
dbVars == <<advisory, rows, runs>>
(* The IRS's and the repository's own doings.                              *)
world == <<served, mapping>>

-----------------------------------------------------------------------------
(* _load: the concordance is read and the server asked once, up front.     *)
BeginLoad(l, c, kind, force) ==
  /\ At(l, "idle") /\ begun < MaxJobs /\ (force => kind = "load")
  /\ job' = [job EXCEPT ![l] = [Idle EXCEPT !.step = "claim", !.kind = kind, !.id = begun + 1,
                                            !.force = force, !.cache = c, !.lm = served,
                                            !.conc = mapping]]
  /\ begun' = begun + 1
  /\ UNCHANGED <<world, cache, flock, bucket, dbVars>>

(* _each_batch: the stamps of the latest loads are read once, up front.    *)
BeginAgain(l, c, kind) ==
  /\ At(l, "idle") /\ begun < MaxJobs /\ runs # <<>>
  /\ job' = [job EXCEPT ![l] = [Idle EXCEPT !.step = IF kind = "reload" THEN "fresh" ELSE "claim",
                                            !.kind = kind, !.id = begun + 1, !.cache = c,
                                            !.lm = Latest.lm, !.sha = Latest.sha]]
  /\ begun' = begun + 1
  /\ UNCHANGED <<world, cache, flock, bucket, dbVars>>

(* _reload_one, before the claim.                                          *)
ReloadFresh(l) ==
  /\ At(l, "fresh")
  /\ IF Loaded(job[l].lm, mapping)
     THEN Ends(l)
     ELSE /\ job' = [job EXCEPT ![l].step = "claim", ![l].conc = mapping]
          /\ UNCHANGED flock
  /\ UNCHANGED <<world, cache, bucket, dbVars, begun>>

(* Mutant of Claim: a claimed cache is taken.                              *)
ClaimAnyway(l) ==
  /\ At(l, "claim")
  /\ flock' = [flock EXCEPT ![job[l].cache] = l]
  /\ Goes(l, IF job[l].kind = "load" /\ ~ job[l].force THEN "check" ELSE "fetch")
  /\ UNCHANGED <<world, cache, bucket, dbVars, begun>>

(* batches.claim: LOCK_EX | LOCK_NB.                                       *)
Claim(l) ==
  /\ At(l, "claim") /\ flock[job[l].cache] = None
  /\ flock' = [flock EXCEPT ![job[l].cache] = l]
  /\ Goes(l, IF job[l].kind = "load" /\ ~ job[l].force THEN "check" ELSE "fetch")
  /\ UNCHANGED <<world, cache, bucket, dbVars, begun>>

(* "another loader sharing this cache has it"                              *)
ClaimRefused(l) ==
  /\ At(l, "claim") /\ flock[job[l].cache] # None
  /\ Ends(l)
  /\ UNCHANGED <<world, cache, bucket, dbVars, begun>>

(* already_loaded, unless --force.                                         *)
Check(l) ==
  /\ At(l, "check")
  /\ IF Loaded(job[l].lm, job[l].conc)
     THEN Ends(l)
     ELSE Goes(l, "fetch") /\ UNCHANGED flock
  /\ UNCHANGED <<world, cache, bucket, dbVars, begun>>

-----------------------------------------------------------------------------
(* fetch: the cached archive will do when its stamp is the server's and    *)
(* the file has the stamp's size.                                          *)
Reusable(l) ==
  LET held == Dir(l).stamp
  IN  /\ Dir(l).file # NoArchive /\ held # NoStamp
      /\ held.lm = job[l].lm /\ SizeOf[held.sha] = SizeOf[Dir(l).file]

FetchCached(l) ==
  /\ At(l, "fetch") /\ ~ FromCopy(job[l].kind) /\ Reusable(l)
  /\ Goes(l, "read")
  /\ UNCHANGED <<world, cache, flock, bucket, dbVars, begun>>

(* What the server sends now, whatever it described then, renamed into     *)
(* place whole.                                                            *)
Download(l) ==
  /\ At(l, "fetch") /\ ~ FromCopy(job[l].kind) /\ ~ Reusable(l)
  /\ cache' = [cache EXCEPT ![job[l].cache].file = served]
  /\ job' = [job EXCEPT ![l].step = "stamp", ![l].sha = served]
  /\ UNCHANGED <<world, flock, bucket, dbVars, begun>>

(* Mutant of FetchArchived: the SHA-256 is not looked at.                  *)
FetchUnchecked(l) ==
  /\ At(l, "fetch") /\ FromCopy(job[l].kind)
  /\ LET here == Dir(l).file
     IN  /\ here # NoArchive \/ bucket.file # NoArchive
         /\ cache' = [cache EXCEPT ![job[l].cache].file =
                        IF here # NoArchive THEN here ELSE bucket.file]
         /\ job' = [job EXCEPT ![l].step = IF job[l].kind = "reload" THEN "stamp" ELSE "read",
                               ![l].downloaded = here = NoArchive]
  /\ UNCHANGED <<world, flock, bucket, dbVars, begun>>

(* fetch_archived: the cached zip if its SHA-256 is the load's, else our   *)
(* copy, which must have it.                                               *)
FetchArchived(l) ==
  /\ At(l, "fetch") /\ FromCopy(job[l].kind)
  /\ LET here == Dir(l).file
         path == IF here = job[l].sha THEN here ELSE bucket.file
     IN  /\ path = job[l].sha
         /\ cache' = [cache EXCEPT ![job[l].cache].file = path]
         /\ job' = [job EXCEPT ![l].step = IF job[l].kind = "reload" THEN "stamp" ELSE "read",
                               ![l].downloaded = here = NoArchive]
  /\ UNCHANGED <<world, flock, bucket, dbVars, begun>>

(* It raises on another archive, after putting it in place.                *)
FetchedAnother(l) ==
  /\ At(l, "fetch") /\ FromCopy(job[l].kind)
  /\ Dir(l).file # job[l].sha /\ bucket.file # job[l].sha
  /\ cache' = IF bucket.file = NoArchive THEN cache
              ELSE [cache EXCEPT ![job[l].cache].file = bucket.file]
  /\ Ends(l)
  /\ UNCHANGED <<world, bucket, dbVars, begun>>

(* The stamp goes in after the archive: fetch's, or the reload's own.      *)
WriteStamp(l) ==
  /\ At(l, "stamp")
  /\ cache' = [cache EXCEPT ![job[l].cache].stamp = [lm |-> job[l].lm, sha |-> job[l].sha]]
  /\ Goes(l, "read")
  /\ UNCHANGED <<world, flock, bucket, dbVars, begun>>

(* load_batch: the stamp beside the archive, and the archive parsed into   *)
(* CSV files.  audit reads the concordance here and keeps its own stamp.   *)
Extract(l) ==
  /\ At(l, "read") /\ Dir(l).file # NoArchive
  /\ job' = [job EXCEPT ![l].step = "lock", ![l].bytes = Dir(l).file,
               ![l].held = IF job[l].kind = "audit" THEN [lm |-> job[l].lm, sha |-> job[l].sha]
                           ELSE Dir(l).stamp,
               ![l].conc = IF job[l].kind = "audit" THEN mapping ELSE job[l].conc]
  /\ UNCHANGED <<world, cache, flock, bucket, dbVars, begun>>

-----------------------------------------------------------------------------
(* Mutant of LockBatch: no advisory lock.                                  *)
LockNothing(l) ==
  /\ At(l, "lock")
  /\ advisory' = l
  /\ Goes(l, "locked")
  /\ UNCHANGED <<world, cache, flock, bucket, rows, runs, begun>>

(* pg_advisory_xact_lock on the batch, held to the end of the transaction. *)
LockBatch(l) ==
  /\ At(l, "lock") /\ advisory = None
  /\ advisory' = l
  /\ Goes(l, "locked")
  /\ UNCHANGED <<world, cache, flock, bucket, rows, runs, begun>>

(* _copy: "loaded meanwhile by another loader"                             *)
StandDown(l) ==
  /\ At(l, "locked") /\ Records(job[l].kind) /\ Loaded(job[l].held.lm, job[l].conc)
  /\ advisory' = None
  /\ Goes(l, "clean")
  /\ UNCHANGED <<world, cache, flock, bucket, rows, runs, begun>>

PartsOf(k) == CASE k = "returns" -> {"returns"} [] k = "audit" -> {"unread"} [] OTHER -> Parts

(* Mutant of Replace: no second check, under the lock.                     *)
ReplaceAnyway(l) ==
  /\ At(l, "locked")
  /\ job' = [job EXCEPT ![l].step = "replaced",
                        ![l].deleted = {w.id : w \in UNION {rows[p] : p \in PartsOf(job[l].kind)}}]
  /\ UNCHANGED <<world, cache, flock, bucket, dbVars, begun>>

(* _replace, _write_unread: delete what is committed, copy ours in.        *)
Replace(l) ==
  /\ At(l, "locked") /\ ~ (Records(job[l].kind) /\ Loaded(job[l].held.lm, job[l].conc))
  /\ job' = [job EXCEPT ![l].step = "replaced",
                        ![l].deleted = {w.id : w \in UNION {rows[p] : p \in PartsOf(job[l].kind)}}]
  /\ UNCHANGED <<world, cache, flock, bucket, dbVars, begun>>

Commit(l) ==
  /\ At(l, "replaced")
  /\ LET j == job[l]
         ours == [id |-> j.id, bytes |-> j.bytes, zip |-> j.held.sha, conc |-> j.conc]
     IN  /\ rows' = [p \in Parts |-> IF p \in PartsOf(j.kind)
                                     THEN {w \in rows[p] : w.id \notin j.deleted} \cup {ours}
                                     ELSE rows[p]]
         /\ runs' = IF Records(j.kind)
                    THEN Append(runs, [id |-> j.id, lm |-> j.held.lm, sha |-> j.held.sha,
                                       bytes |-> j.bytes, conc |-> j.conc,
                                       kind |-> j.kind])
                    ELSE runs
         /\ Goes(l, IF j.kind = "load" THEN "archive" ELSE "clean")
  /\ advisory' = None
  /\ UNCHANGED <<world, cache, flock, bucket, begun>>

(* batches.archive, unless --no-archive: an object with this SHA-256 in    *)
(* its metadata is left alone.                                             *)
Archive(l) ==
  /\ At(l, "archive")
  /\ bucket' \in {bucket, IF bucket.sha = Dir(l).stamp.sha THEN bucket
                          ELSE [file |-> Dir(l).file, sha |-> Dir(l).stamp.sha]}
  /\ Goes(l, "clean")
  /\ UNCHANGED <<world, cache, flock, dbVars, begun>>

(* The zip goes unless --keep-zips; audit and reload delete only what they *)
(* downloaded.  The stamp stays.                                           *)
Clean(l) ==
  /\ At(l, "clean")
  /\ \E c \in {Dir(l), [Dir(l) EXCEPT !.file = NoArchive]} :
       /\ FromCopy(job[l].kind) /\ ~ job[l].downloaded => c = Dir(l)
       /\ cache' = [cache EXCEPT ![job[l].cache] = c]
  /\ Ends(l)
  /\ UNCHANGED <<world, bucket, dbVars, begun>>

(* An error or a killed process: the system takes the flock back, the      *)
(* database rolls the transaction back; files stay as they are.            *)
Fail(l) ==
  /\ ~ At(l, "idle")
  /\ Ends(l)
  /\ advisory' = IF advisory = l THEN None ELSE advisory
  /\ UNCHANGED <<world, cache, bucket, rows, runs, begun>>

Repost ==
  /\ served < MaxArchives
  /\ served' = served + 1
  /\ UNCHANGED <<mapping, cache, flock, bucket, dbVars, job, begun>>

Deploy ==
  /\ mapping' \in Concordances \ {mapping}
  /\ UNCHANGED <<served, cache, flock, bucket, dbVars, job, begun>>

Step(l) ==
  \/ \E c \in Caches, kind \in {"load", "returns"}, force \in BOOLEAN : BeginLoad(l, c, kind, force)
  \/ \E c \in Caches, kind \in {"audit", "reload"} : BeginAgain(l, c, kind)
  \/ ReloadFresh(l) \/ Claim(l) \/ ClaimRefused(l) \/ Check(l)
  \/ FetchCached(l) \/ Download(l) \/ FetchArchived(l) \/ FetchedAnother(l)
  \/ WriteStamp(l) \/ Extract(l)
  \/ LockBatch(l) \/ StandDown(l) \/ Replace(l) \/ Commit(l)
  \/ Archive(l) \/ Clean(l) \/ Fail(l)

Next == (\E l \in Loaders : Step(l)) \/ Repost \/ Deploy

Spec == Init /\ [][Next]_vars

-----------------------------------------------------------------------------
Steps == {"idle", "fresh", "claim", "check", "fetch", "stamp", "read", "lock", "locked",
          "replaced", "archive", "clean"}
StampShape == [lm : 0 .. MaxArchives, sha : 0 .. MaxArchives]
JobShape == [step : Steps, kind : Kinds, id : 0 .. MaxJobs, force : BOOLEAN,
             cache : Caches \cup {None}, lm : 0 .. MaxArchives, sha : 0 .. MaxArchives,
             conc : Concordances \cup {None}, downloaded : BOOLEAN, held : StampShape,
             bytes : 0 .. MaxArchives, deleted : SUBSET (1 .. MaxJobs)]
RowShape == [id : 1 .. MaxJobs, bytes : Archives, zip : Archives, conc : Concordances]
RunShape == [id : 1 .. MaxJobs, lm : Archives, sha : Archives, bytes : Archives,
             conc : Concordances, kind : {"load", "reload"}]

(* Every variable has its type; rows and runs carry a real archive and     *)
(* concordance, never an absent stamp (load.py's `stamp or {}`).           *)
TypeOK ==
  /\ served \in Archives /\ mapping \in Concordances
  /\ cache \in [Caches -> [file : 0 .. MaxArchives, stamp : StampShape]]
  /\ flock \in [Caches -> Loaders \cup {None}]
  /\ bucket \in [file : 0 .. MaxArchives, sha : 0 .. MaxArchives]
  /\ advisory \in Loaders \cup {None}
  /\ rows \in [Parts -> SUBSET RowShape]
  /\ runs \in Seq(RunShape)
  /\ job \in [Loaders -> JobShape]
  /\ begun \in 0 .. MaxJobs

(* load.py: "Loading a batch replaces that batch's rows in every table in  *)
(* one transaction".  The tables hold the latest run's rows and no others, *)
(* under its concordance, and what was parsed is the archive whose SHA-256 *)
(* the run's manifest gives; patch stamps them with that run.              *)
RowsAreLatestLoad ==
  IF runs = <<>> THEN rows["tables"] = {}
  ELSE rows["tables"] = {[id |-> Latest.id, bytes |-> Latest.sha, zip |-> Latest.sha,
                          conc |-> Latest.conc]}

(* returns and unread_paths, which two more commands write, hold one       *)
(* write's rows at most; unread_paths names the archive it was counted     *)
(* from.                                                                   *)
SideTablesHoldOneWrite ==
  /\ \A p \in Parts : Cardinality(rows[p]) <= 1
  /\ \A w \in rows["unread"] : w.bytes = w.zip

(* The check under the lock (_copy): however many loaders start on a       *)
(* posting under one concordance, one loads it.  That holds of forced      *)
(* loads too, which is not what --force says of itself (ForceReloads).     *)
OneRunPerVersion ==
  \A i, k \in DOMAIN runs : runs[i].lm = runs[k].lm /\ runs[i].conc = runs[k].conc => i = k

(* own_extract/__main__.py:318-319, of --force: "reload a batch already    *)
(* loaded at the same Last-Modified and concordance".  A forced load that  *)
(* comes to its end without an error has loaded the batch.  TLC refutes    *)
(* it: a disagreement, not a property that is claimed (README).            *)
ForceReloads ==
  \A l \in Loaders :
    At(l, "clean") /\ job[l].kind = "load" /\ job[l].force =>
      \E i \in DOMAIN runs : runs[i].id = job[l].id

(* batches.claim: from the fetch to the parse nobody else replaces or      *)
(* deletes the archive a loader works from; the two loaders of 2026-10-23. *)
ArchiveStaysWhileUsed ==
  \A l \in Loaders :
    /\ job[l].step \in {"stamp", "read"} => Dir(l).file # NoArchive
    /\ job[l].step \in {"lock", "locked", "replaced", "archive"} => Dir(l).file = job[l].bytes

(* reload: "checked against the SHA-256 its first load stamped".  A run    *)
(* made from our copy parses the bytes an earlier load of that version did, *)
(* not what the bucket or the cache holds under that name today.           *)
CopiesAreTheLoaded ==
  \A i \in DOMAIN runs : runs[i].kind = "reload" =>
    \E k \in 1 .. (i - 1) : runs[k].lm = runs[i].lm /\ runs[k].bytes = runs[i].bytes

=============================================================================
