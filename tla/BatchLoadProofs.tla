--------------------------- MODULE BatchLoadProofs ---------------------------
(***************************************************************************)
(* Proofs about BatchLoad, for any loaders, caches, concordances, postings *)
(* and number of commands.                                                 *)
(***************************************************************************)
EXTENDS BatchLoad, TLAPS, FiniteSetTheorems

Claimed == {"check", "fetch", "stamp", "read", "lock", "locked", "replaced", "archive", "clean"}
Parsed == {"lock", "locked", "replaced"}
InTransaction == {"locked", "replaced"}
RealStamps == [lm : Archives, sha : Archives]

(* Who is past the claim holds the flock, who is past the lock the         *)
(* advisory lock.                                                          *)
Holding ==
  \A l \in Loaders : /\ At(l, "idle") \/ job[l].cache \in Caches
                     /\ job[l].step \in Claimed => flock[job[l].cache] = l
                     /\ job[l].step \in InTransaction => advisory = l

(* What a command has in hand at each step.                                *)
JobOK(l) ==
  /\ ~ At(l, "idle") =>
       /\ job[l].id \in 1 .. MaxJobs /\ job[l].lm \in Archives
       /\ FromCopy(job[l].kind) => job[l].sha \in Archives
       /\ ~ At(l, "fresh") /\ job[l].kind # "audit" => job[l].conc \in Concordances
  /\ At(l, "fresh") => job[l].kind = "reload"
  /\ At(l, "stamp") => job[l].sha \in Archives /\ job[l].kind # "audit" /\ Dir(l).file # NoArchive
  /\ At(l, "read") => /\ Dir(l).file # NoArchive
                      /\ job[l].kind # "audit" => Dir(l).stamp \in RealStamps
  /\ job[l].step \in Parsed =>
       job[l].bytes \in Archives /\ job[l].held \in RealStamps /\ job[l].conc \in Concordances
  /\ job[l].step \in Parsed \cup {"archive"} => Dir(l).file = job[l].bytes
JobsOK == \A l \in Loaders : JobOK(l)

StampsOK == \A c \in Caches : cache[c].stamp = NoStamp \/ cache[c].stamp \in RealStamps

(* Under the lock: what the check found and the DELETE saw is still so.    *)
CheckedInv ==
  \A l \in Loaders : At(l, "replaced") =>
    /\ job[l].deleted = {w.id : w \in UNION {rows[p] : p \in PartsOf(job[l].kind)}}
    /\ Records(job[l].kind) => ~ Loaded(job[l].held.lm, job[l].conc)

OneWrite == \A p \in Parts : \A v, w \in rows[p] : v = w

IInv == TypeOK /\ Holding /\ JobsOK /\ StampsOK /\ CheckedInv /\ OneWrite /\ OneRunPerVersion

-----------------------------------------------------------------------------
(* Two postings of the archive never have one size.                        *)
SizesDiffer == \A a, b \in Archives : SizeOf[a] = SizeOf[b] => a = b

(* The stamp a command reads beside the archive is the archive's.          *)
HonestJob(l) ==
  /\ At(l, "stamp") => Dir(l).file = job[l].sha
  /\ At(l, "read") => Dir(l).file = IF job[l].kind = "audit" THEN job[l].sha ELSE Dir(l).stamp.sha
  /\ At(l, "read") /\ job[l].kind = "reload" => Dir(l).stamp = [lm |-> job[l].lm, sha |-> job[l].sha]
  /\ job[l].step \in Parsed => job[l].held.sha = job[l].bytes
  /\ job[l].step \in Parsed /\ job[l].kind = "reload" =>
       job[l].held = [lm |-> job[l].lm, sha |-> job[l].sha]
  /\ ~ At(l, "idle") /\ FromCopy(job[l].kind) =>
       \E k \in DOMAIN runs : runs[k].lm = job[l].lm /\ runs[k].sha = job[l].sha

HonestInv ==
  /\ \A l \in Loaders : HonestJob(l)
  /\ \A i \in DOMAIN runs : runs[i].bytes = runs[i].sha
  /\ \A p \in Parts : \A w \in rows[p] : w.bytes = w.zip
  /\ RowsAreLatestLoad
  /\ CopiesAreTheLoaded

-----------------------------------------------------------------------------
(* Updating one field of a job leaves it of its type.                      *)
LEMMA JobStep ==
  ASSUME NEW j \in JobShape, NEW s \in Steps
  PROVE  [j EXCEPT !.step = s] \in JobShape
  BY DEF JobShape

(* A loader doing nothing has a job of its type.                          *)
LEMMA IdleType == Idle \in JobShape
  <1>1. NoStamp \in StampShape /\ 0 \in 0 .. MaxArchives /\ 0 \in 0 .. MaxJobs
      BY BatchAssumption DEF NoStamp, StampShape
  <1> QED
      BY <1>1 DEF Idle, JobShape, Steps, Kinds

(* Both invariants hold before the first command.                         *)
LEMMA InitInv == Init => IInv /\ HonestInv
  <1> SUFFICES ASSUME Init PROVE IInv /\ HonestInv
      OBVIOUS
  <1>1. TypeOK
    <2>1. NoStamp \in StampShape /\ 0 \in 0 .. MaxArchives /\ 1 \in Archives /\ 0 \in 0 .. MaxJobs
        BY BatchAssumption DEF NoStamp, StampShape, Archives
    <2>2. cache \in [Caches -> [file : 0 .. MaxArchives, stamp : StampShape]]
          /\ bucket \in [file : 0 .. MaxArchives, sha : 0 .. MaxArchives]
        BY <2>1 DEF Init, NoArchive
    <2>3. job \in [Loaders -> JobShape]
        BY IdleType DEF Init
    <2>4. rows \in [Parts -> SUBSET RowShape] /\ runs \in Seq(RunShape)
        BY DEF Init
    <2> QED
        BY <2>1, <2>2, <2>3, <2>4 DEF Init, TypeOK
  <1>2. \A l \in Loaders : job[l] = Idle /\ job[l].step = "idle"
      BY DEF Init, Idle
  <1>3. Holding /\ JobsOK /\ StampsOK /\ CheckedInv
      BY <1>2 DEF Init, Holding, JobsOK, JobOK, StampsOK, CheckedInv, At, Claimed, InTransaction, Parsed
  <1>4. OneWrite /\ OneRunPerVersion
      BY DEF Init, OneWrite, OneRunPerVersion
  <1>5. HonestInv
      BY <1>2 DEF Init, HonestInv, HonestJob, At, Parsed, RowsAreLatestLoad, CopiesAreTheLoaded, Parts
  <1> QED
      BY <1>1, <1>3, <1>4, <1>5 DEF IInv

-----------------------------------------------------------------------------
(* The latest run is one of the runs.                                     *)
LEMMA LatestType ==
  ASSUME TypeOK, runs # <<>>
  PROVE  Len(runs) \in DOMAIN runs /\ Latest \in RunShape
  <1>1. runs \in Seq(RunShape)
      BY DEF TypeOK
  <1>2. Len(runs) \in Nat /\ DOMAIN runs = 1 .. Len(runs) /\ Len(runs) # 0
      BY <1>1
  <1> QED
      BY <1>1, <1>2 DEF Latest

(* Types are kept.                                                         *)
LEMMA JobType ==
  ASSUME IInv, NEW l \in Loaders, Step(l)
  PROVE  job' \in [Loaders -> JobShape]
  <1>a. /\ job \in [Loaders -> JobShape] /\ begun \in 0 .. MaxJobs
        /\ served \in Archives /\ mapping \in Concordances
        /\ cache \in [Caches -> [file : 0 .. MaxArchives, stamp : StampShape]]
        /\ runs \in Seq(RunShape)
      BY DEF IInv, TypeOK
  <1>b. job[l] \in JobShape /\ (~ At(l, "idle") => job[l].cache \in Caches)
      BY <1>a DEF IInv, Holding
  <1>1. \A s \in Steps : Goes(l, s) => job' \in [Loaders -> JobShape]
      BY <1>a, <1>b, JobStep DEF Goes
  <1>2. Ends(l) => job' \in [Loaders -> JobShape]
      BY <1>a, IdleType DEF Ends
  <1>3. ASSUME NEW c \in Caches, NEW kind \in {"load", "returns"}, NEW force \in BOOLEAN,
               BeginLoad(l, c, kind, force)
        PROVE  job' \in [Loaders -> JobShape]
    <2>1. begun + 1 \in 0 .. MaxJobs /\ served \in 0 .. MaxArchives
        BY <1>3, <1>a, BatchAssumption DEF BeginLoad, Archives
    <2>2. [Idle EXCEPT !.step = "claim", !.kind = kind, !.id = begun + 1, !.force = force,
                       !.cache = c, !.lm = served, !.conc = mapping] \in JobShape
        BY <1>a, <2>1, IdleType DEF JobShape, Steps, Kinds
    <2> QED
        BY <1>a, <1>3, <2>2 DEF BeginLoad
  <1>4. ASSUME NEW c \in Caches, NEW kind \in {"audit", "reload"}, BeginAgain(l, c, kind)
        PROVE  job' \in [Loaders -> JobShape]
    <2>0. Latest \in RunShape /\ begun + 1 \in 0 .. MaxJobs
        BY <1>4, <1>a, BatchAssumption, LatestType DEF BeginAgain, IInv
    <2>1. Latest.lm \in 0 .. MaxArchives /\ Latest.sha \in 0 .. MaxArchives
        BY <2>0 DEF RunShape, Archives
    <2>2. [Idle EXCEPT !.step = IF kind = "reload" THEN "fresh" ELSE "claim", !.kind = kind,
                       !.id = begun + 1, !.cache = c, !.lm = Latest.lm, !.sha = Latest.sha] \in JobShape
        BY <1>a, <2>0, <2>1, IdleType DEF JobShape, Steps, Kinds
    <2> QED
        BY <1>a, <1>4, <2>2 DEF BeginAgain
  <1>5. ReloadFresh(l) \/ Claim(l) \/ ClaimRefused(l) \/ Check(l) => job' \in [Loaders -> JobShape]
    <2>1. [job[l] EXCEPT !.step = "claim", !.conc = mapping] \in JobShape
        BY <1>a, <1>b DEF JobShape, Steps
    <2> QED
        BY <1>a, <1>1, <1>2, <2>1 DEF ReloadFresh, Claim, ClaimRefused, Check, Steps
  <1>6. FetchCached(l) \/ Download(l) \/ FetchArchived(l) \/ FetchedAnother(l) \/ WriteStamp(l)
          => job' \in [Loaders -> JobShape]
    <2>0. served \in 0 .. MaxArchives
        BY <1>a, BatchAssumption DEF Archives
    <2>1. [job[l] EXCEPT !.step = "stamp", !.sha = served] \in JobShape
        BY <1>b, <2>0 DEF JobShape, Steps
    <2>2. \A d \in BOOLEAN, s \in {"stamp", "read"} :
            [job[l] EXCEPT !.step = s, !.downloaded = d] \in JobShape
        BY <1>a, <1>b DEF JobShape, Steps
    <2> QED
        BY <1>a, <1>1, <1>2, <2>1, <2>2
        DEF FetchCached, Download, FetchArchived, FetchedAnother, WriteStamp, Steps
  <1>7. Extract(l) => job' \in [Loaders -> JobShape]
    <2> HAVE Extract(l)
    <2> DEFINE held == IF job[l].kind = "audit" THEN [lm |-> job[l].lm, sha |-> job[l].sha]
                       ELSE Dir(l).stamp
               conc == IF job[l].kind = "audit" THEN mapping ELSE job[l].conc
    <2>1. Dir(l).file \in 0 .. MaxArchives /\ Dir(l).stamp \in StampShape
        BY <1>a, <1>b DEF Extract, At, Dir
    <2>2. held \in StampShape /\ conc \in Concordances \cup {None}
        BY <1>a, <1>b, <2>1 DEF JobShape, StampShape
    <2>3. [job[l] EXCEPT !.step = "lock", !.bytes = Dir(l).file, !.held = held, !.conc = conc] \in JobShape
      <3> HIDE DEF held, conc
      <3> QED
          BY <1>b, <2>1, <2>2 DEF JobShape, Steps
    <2> QED
        BY <1>a, <2>3 DEF Extract
  <1>8. LockBatch(l) \/ StandDown(l) \/ Replace(l) \/ Commit(l) \/ Archive(l) \/ Clean(l) \/ Fail(l)
          => job' \in [Loaders -> JobShape]
    <2>1. Replace(l) => job' \in [Loaders -> JobShape]
      <3> DEFINE ids == {w.id : w \in UNION {rows[p] : p \in PartsOf(job[l].kind)}}
      <3>1. ids \in SUBSET (1 .. MaxJobs)
          BY <1>b DEF IInv, TypeOK, RowShape, PartsOf, Parts
      <3>2. [job[l] EXCEPT !.step = "replaced", !.deleted = ids] \in JobShape
        <4> HIDE DEF ids
        <4> QED
            BY <1>b, <3>1 DEF JobShape, Steps
      <3> QED
          BY <1>a, <3>2 DEF Replace
    <2> QED
        BY <1>1, <1>2, <2>1 DEF LockBatch, StandDown, Commit, Archive, Clean, Fail, Steps
  <1> QED
      BY <1>3, <1>4, <1>5, <1>6, <1>7, <1>8 DEF Step

-----------------------------------------------------------------------------
(* A loader's step leaves the other loaders' jobs alone, the archive a     *)
(* claim of theirs covers, and, while one of them holds the advisory lock, *)
(* the rows and the runs.                                                  *)
LEMMA Others ==
  ASSUME IInv, NEW l \in Loaders, Step(l), NEW k \in Loaders, k # l
  PROVE  /\ job'[k] = job[k]
         /\ job[k].step \in Claimed => /\ flock'[job[k].cache] = k
                                       /\ cache'[job[k].cache] = cache[job[k].cache]
         /\ advisory = k => advisory' = k /\ rows' = rows /\ runs' = runs
  <1>a. /\ job \in [Loaders -> JobShape] /\ flock \in [Caches -> Loaders \cup {None}]
        /\ cache \in [Caches -> [file : 0 .. MaxArchives, stamp : StampShape]]
      BY DEF IInv, TypeOK
  <1>b. /\ job[l].step \in Claimed => flock[job[l].cache] = l
        /\ job[l].step \in InTransaction => advisory = l
        /\ job[k].step \in Claimed => flock[job[k].cache] = k /\ job[k].cache \in Caches
      BY DEF IInv, Holding, At, Claimed
  <1>c. None # k /\ None # l
      BY BatchAssumption
  <1>d. job[k].step \in Claimed /\ job[l].step \in Claimed => job[k].cache # job[l].cache
      BY <1>b
  <1>1. job'[k] = job[k]
      BY <1>a DEF Step, BeginLoad, BeginAgain, ReloadFresh, Claim, ClaimRefused, Check, FetchCached,
         Download, FetchArchived, FetchedAnother, WriteStamp, Extract, LockBatch, StandDown, Replace,
         Commit, Archive, Clean, Fail, Goes, Ends
  <1>2. job[k].step \in Claimed => flock'[job[k].cache] = k
    <2>1. Ends(l) /\ job[k].step \in Claimed => flock'[job[k].cache] = k
        BY <1>b DEF Ends, Released
    <2>2. Claim(l) /\ job[k].step \in Claimed => flock'[job[k].cache] = k
        BY <1>a, <1>b, <1>c DEF Claim
    <2> QED
        BY <1>b, <2>1, <2>2 DEF Step, BeginLoad, BeginAgain, ReloadFresh, ClaimRefused, Check, FetchCached,
         Download, FetchArchived, FetchedAnother, WriteStamp, Extract, LockBatch, StandDown, Replace,
         Commit, Archive, Clean, Fail
  <1>3. job[k].step \in Claimed => cache'[job[k].cache] = cache[job[k].cache]
    <2>1. (Download(l) \/ FetchArchived(l) \/ FetchedAnother(l) \/ WriteStamp(l) \/ Clean(l))
          /\ job[k].step \in Claimed => cache'[job[k].cache] = cache[job[k].cache]
      <3>1. Download(l) \/ FetchArchived(l) \/ FetchedAnother(l) \/ WriteStamp(l) \/ Clean(l)
              => job[l].step \in Claimed
          BY DEF Download, FetchArchived, FetchedAnother, WriteStamp, Clean, At, Claimed
      <3>2. Download(l) \/ FetchArchived(l) \/ FetchedAnother(l) \/ WriteStamp(l) \/ Clean(l)
              => cache' = cache \/ \E x : cache' = [cache EXCEPT ![job[l].cache] = x]
        <4>1. Clean(l) => \E x : cache' = [cache EXCEPT ![job[l].cache] = x]
            BY DEF Clean
        <4>2. FetchedAnother(l) => cache' = cache \/ \E x : cache' = [cache EXCEPT ![job[l].cache] = x]
            BY DEF FetchedAnother
        <4> QED
            BY <4>1, <4>2 DEF Download, FetchArchived, WriteStamp
      <3> QED
          BY <1>a, <1>b, <1>d, <3>1, <3>2
    <2> QED
        BY <2>1 DEF Step, BeginLoad, BeginAgain, ReloadFresh, Claim, ClaimRefused, Check, FetchCached,
         Extract, LockBatch, StandDown, Replace, Commit, Archive, Fail
  <1>4. advisory = k => advisory' = k /\ rows' = rows /\ runs' = runs
      BY <1>b, <1>c DEF Step, BeginLoad, BeginAgain, ReloadFresh, Claim, ClaimRefused, Check, FetchCached,
         Download, FetchArchived, FetchedAnother, WriteStamp, Extract, LockBatch, StandDown, Replace,
         Commit, Archive, Clean, Fail, dbVars, At, InTransaction
  <1> QED
      BY <1>1, <1>2, <1>3, <1>4

(* What a commit writes.                                                   *)
LEMMA Written ==
  ASSUME IInv, NEW l \in Loaders, Commit(l)
  PROVE  /\ job[l].id \in 1 .. MaxJobs /\ job[l].bytes \in Archives
         /\ job[l].held \in RealStamps /\ job[l].conc \in Concordances
         /\ \A p \in Parts : rows'[p] =
              IF p \in PartsOf(job[l].kind)
              THEN {[id |-> job[l].id, bytes |-> job[l].bytes, zip |-> job[l].held.sha,
                     conc |-> job[l].conc]}
              ELSE rows[p]
         /\ Records(job[l].kind) => ~ Loaded(job[l].held.lm, job[l].conc)
  <1>a. At(l, "replaced") /\ job[l].step \in Parsed
      BY DEF Commit, At, Parsed
  <1>b. /\ job[l].bytes \in Archives /\ job[l].held \in RealStamps /\ job[l].conc \in Concordances
        /\ job[l].id \in 1 .. MaxJobs
      BY <1>a DEF IInv, JobsOK, JobOK, At
  <1>c. /\ job[l].deleted = {w.id : w \in UNION {rows[p] : p \in PartsOf(job[l].kind)}}
        /\ Records(job[l].kind) => ~ Loaded(job[l].held.lm, job[l].conc)
      BY <1>a DEF IInv, CheckedInv
  <1>d. \A p \in PartsOf(job[l].kind) : {w \in rows[p] : w.id \notin job[l].deleted} = {}
      BY <1>c
  <1> QED
      BY <1>b, <1>c, <1>d DEF Commit

(* Types are kept by a loader's step.                                      *)
LEMMA TypeStep ==
  ASSUME IInv, NEW l \in Loaders, Step(l)
  PROVE  TypeOK'
  <1>a. /\ job \in [Loaders -> JobShape] /\ flock \in [Caches -> Loaders \cup {None}]
        /\ cache \in [Caches -> [file : 0 .. MaxArchives, stamp : StampShape]]
        /\ begun \in 0 .. MaxJobs /\ served \in Archives /\ mapping \in Concordances
        /\ bucket \in [file : 0 .. MaxArchives, sha : 0 .. MaxArchives]
        /\ advisory \in Loaders \cup {None}
        /\ rows \in [Parts -> SUBSET RowShape] /\ runs \in Seq(RunShape)
      BY DEF IInv, TypeOK
  <1>b. job[l] \in JobShape /\ (~ At(l, "idle") => job[l].cache \in Caches)
      BY <1>a DEF IInv, Holding
  <1>c. ~ At(l, "idle") => /\ Dir(l) \in [file : 0 .. MaxArchives, stamp : StampShape]
                           /\ Dir(l).file \in 0 .. MaxArchives /\ Dir(l).stamp \in StampShape
      BY <1>a, <1>b DEF Dir
  <1>d. job[l].lm \in 0 .. MaxArchives /\ job[l].sha \in 0 .. MaxArchives
      BY <1>b DEF JobShape
  <1>1. job' \in [Loaders -> JobShape]
      BY JobType
  <1>2. served' \in Archives /\ mapping' \in Concordances
      BY <1>a DEF Step, BeginLoad, BeginAgain, ReloadFresh, Claim, ClaimRefused, Check, FetchCached,
         Download, FetchArchived, FetchedAnother, WriteStamp, Extract, LockBatch, StandDown, Replace,
         Commit, Archive, Clean, Fail, world
  <1>3. begun' \in 0 .. MaxJobs
    <2>1. begun' = begun \/ (begun < MaxJobs /\ begun' = begun + 1)
      <3>1. \A c, kind, force : BeginLoad(l, c, kind, force) \/ BeginAgain(l, c, kind)
              => begun < MaxJobs /\ begun' = begun + 1
          BY DEF BeginLoad, BeginAgain
      <3>2. (\E c \in Caches, kind \in {"load", "returns"}, force \in BOOLEAN : BeginLoad(l, c, kind, force))
            \/ (\E c \in Caches, kind \in {"audit", "reload"} : BeginAgain(l, c, kind))
            \/ begun' = begun
          BY DEF Step, ReloadFresh, Claim, ClaimRefused, Check, FetchCached, Download,
           FetchArchived, FetchedAnother, WriteStamp, Extract, LockBatch, StandDown, Replace, Commit,
           Archive, Clean, Fail
      <3> QED
          BY <3>1, <3>2
    <2> QED
        BY <1>a, <2>1, BatchAssumption
  <1>4. advisory' \in Loaders \cup {None}
      BY <1>a DEF Step, BeginLoad, BeginAgain, ReloadFresh, Claim, ClaimRefused, Check, FetchCached,
         Download, FetchArchived, FetchedAnother, WriteStamp, Extract, LockBatch, StandDown, Replace,
         Commit, Archive, Clean, Fail, dbVars
  <1>5. flock' \in [Caches -> Loaders \cup {None}]
    <2>1. Released(l) \in [Caches -> Loaders \cup {None}]
        BY <1>a DEF Released
    <2>2. Claim(l) => flock' \in [Caches -> Loaders \cup {None}]
        BY <1>a DEF Claim
    <2> QED
        BY <1>a, <2>1, <2>2 DEF Step, BeginLoad, BeginAgain, ReloadFresh, ClaimRefused, Check, FetchCached,
         Download, FetchArchived, FetchedAnother, WriteStamp, Extract, LockBatch, StandDown, Replace,
         Commit, Archive, Clean, Fail, Ends
  <1>6. cache' \in [Caches -> [file : 0 .. MaxArchives, stamp : StampShape]]
    <2>0. \A x \in [file : 0 .. MaxArchives, stamp : StampShape] : [cache EXCEPT ![job[l].cache] = x]
            \in [Caches -> [file : 0 .. MaxArchives, stamp : StampShape]]
        BY <1>a
    <2>1. Download(l) \/ FetchArchived(l) \/ FetchedAnother(l)
            => cache' \in [Caches -> [file : 0 .. MaxArchives, stamp : StampShape]]
      <3>1. Download(l) \/ FetchArchived(l) \/ FetchedAnother(l) =>
              cache' = cache \/ \E f \in 0 .. MaxArchives : cache' = [cache EXCEPT ![job[l].cache].file = f]
        <4>1. served \in 0 .. MaxArchives /\ bucket.file \in 0 .. MaxArchives
            BY <1>a DEF Archives
        <4> QED
            BY <1>c, <4>1 DEF Download, FetchArchived, FetchedAnother, At
      <3>2. ASSUME NEW f \in 0 .. MaxArchives
            PROVE  [cache EXCEPT ![job[l].cache].file = f]
                     \in [Caches -> [file : 0 .. MaxArchives, stamp : StampShape]]
        <4> DEFINE x == [cache[job[l].cache] EXCEPT !.file = f]
        <4>1. job[l].cache \in Caches => x \in [file : 0 .. MaxArchives, stamp : StampShape]
            BY <1>a
        <4>2. [cache EXCEPT ![job[l].cache].file = f] = [cache EXCEPT ![job[l].cache] = x]
            OBVIOUS
        <4> HIDE DEF x
        <4> QED
            BY <1>a, <4>1, <4>2
      <3> HAVE Download(l) \/ FetchArchived(l) \/ FetchedAnother(l)
      <3>3. CASE cache' = cache
          BY <1>a, <3>3
      <3>4. CASE \E f \in 0 .. MaxArchives : cache' = [cache EXCEPT ![job[l].cache].file = f]
        <4>1. PICK f \in 0 .. MaxArchives : cache' = [cache EXCEPT ![job[l].cache].file = f]
            BY <3>4
        <4>2. [cache EXCEPT ![job[l].cache].file = f]
                \in [Caches -> [file : 0 .. MaxArchives, stamp : StampShape]]
            BY <3>2
        <4> QED
            BY <4>1, <4>2
      <3> QED
          BY <3>1, <3>3, <3>4
    <2>2. ASSUME WriteStamp(l)
          PROVE  cache' \in [Caches -> [file : 0 .. MaxArchives, stamp : StampShape]]
      <3>1. [lm |-> job[l].lm, sha |-> job[l].sha] \in StampShape
          BY <1>d DEF StampShape
      <3> QED
          BY <1>a, <1>b, <2>2, <3>1 DEF WriteStamp
    <2>3. Clean(l) => cache' \in [Caches -> [file : 0 .. MaxArchives, stamp : StampShape]]
      <3>1. Clean(l) => \E x \in [file : 0 .. MaxArchives, stamp : StampShape] :
                           cache' = [cache EXCEPT ![job[l].cache] = x]
        <4> HAVE Clean(l)
        <4>1. PICK x \in {Dir(l), [Dir(l) EXCEPT !.file = NoArchive]} :
                cache' = [cache EXCEPT ![job[l].cache] = x]
            BY DEF Clean
        <4>2. x \in [file : 0 .. MaxArchives, stamp : StampShape]
            BY <1>c, <4>1, BatchAssumption DEF Clean, At, NoArchive
        <4> QED
            BY <4>1, <4>2
      <3> QED
          BY <2>0, <3>1
    <2> QED
        BY <1>a, <2>1, <2>2, <2>3 DEF Step, BeginLoad, BeginAgain, ReloadFresh, Claim, ClaimRefused, Check,
         FetchCached, Extract, LockBatch, StandDown, Replace, Commit, Archive, Fail
  <1>7. bucket' \in [file : 0 .. MaxArchives, sha : 0 .. MaxArchives]
    <2>1. Archive(l) => bucket' \in [file : 0 .. MaxArchives, sha : 0 .. MaxArchives]
      <3> HAVE Archive(l)
      <3>1. Dir(l).file \in 0 .. MaxArchives /\ Dir(l).stamp.sha \in 0 .. MaxArchives
          BY <1>c DEF Archive, At, StampShape
      <3> QED
          BY <1>a, <3>1 DEF Archive
    <2> QED
        BY <1>a, <2>1 DEF Step, BeginLoad, BeginAgain, ReloadFresh, Claim, ClaimRefused, Check, FetchCached,
         Download, FetchArchived, FetchedAnother, WriteStamp, Extract, LockBatch, StandDown, Replace,
         Commit, Clean, Fail
  <1>8. rows' \in [Parts -> SUBSET RowShape] /\ runs' \in Seq(RunShape)
    <2>1. CASE Commit(l)
      <3>1. job[l].held.sha \in Archives /\ job[l].held.lm \in Archives
          BY <2>1, Written DEF RealStamps
      <3>2. [id |-> job[l].id, bytes |-> job[l].bytes, zip |-> job[l].held.sha, conc |-> job[l].conc]
              \in RowShape
          BY <2>1, <3>1, Written DEF RowShape
      <3>3. rows' \in [Parts -> SUBSET RowShape]
        <4>1. ASSUME NEW p \in Parts PROVE rows'[p] \in SUBSET RowShape
          <5>1. rows[p] \in SUBSET RowShape
              BY <1>a
          <5>2. rows'[p] = {[id |-> job[l].id, bytes |-> job[l].bytes, zip |-> job[l].held.sha,
                             conc |-> job[l].conc]} \/ rows'[p] = rows[p]
              BY <2>1, Written
          <5> QED
              BY <3>2, <5>1, <5>2
        <4>2. DOMAIN rows' = Parts /\ rows' = [p \in DOMAIN rows' |-> rows'[p]]
            BY <2>1 DEF Commit
        <4> QED
            BY <4>1, <4>2
      <3>4. Records(job[l].kind) =>
              [id |-> job[l].id, lm |-> job[l].held.lm, sha |-> job[l].held.sha, bytes |-> job[l].bytes,
               conc |-> job[l].conc, kind |-> job[l].kind] \in RunShape
          BY <2>1, <3>1, Written DEF RunShape, Records
      <3>5. runs' \in Seq(RunShape)
          BY <1>a, <2>1, <3>4 DEF Commit
      <3> QED
          BY <3>3, <3>5
    <2> QED
        BY <1>a, <2>1 DEF Step, BeginLoad, BeginAgain, ReloadFresh, Claim, ClaimRefused, Check, FetchCached,
         Download, FetchArchived, FetchedAnother, WriteStamp, Extract, LockBatch, StandDown, Replace,
         Archive, Clean, Fail, dbVars
  <1> QED
      BY <1>1, <1>2, <1>3, <1>4, <1>5, <1>6, <1>7, <1>8 DEF TypeOK

-----------------------------------------------------------------------------
(* A step that only moves a job on leaves the rest of it.                  *)
LEMMA MovedOn ==
  ASSUME TypeOK, NEW l \in Loaders, NEW s, Goes(l, s)
  PROVE  /\ job'[l].step = s /\ job'[l].kind = job[l].kind /\ job'[l].id = job[l].id
         /\ job'[l].cache = job[l].cache /\ job'[l].lm = job[l].lm /\ job'[l].sha = job[l].sha
         /\ job'[l].conc = job[l].conc /\ job'[l].held = job[l].held /\ job'[l].bytes = job[l].bytes
         /\ job'[l].deleted = job[l].deleted
  <1>1. job[l] \in JobShape /\ job'[l] = [job[l] EXCEPT !.step = s]
      BY DEF TypeOK, Goes
  <1> QED
      BY <1>1 DEF JobShape

(* A command that ends leaves nothing in hand.                             *)
LEMMA Ended ==
  ASSUME TypeOK, NEW l \in Loaders, Ends(l)
  PROVE  job'[l].step = "idle"
  BY DEF TypeOK, Ends, Idle

(* What a command has in hand after its own step, and the locks with it.   *)
LEMMA OwnStep ==
  ASSUME IInv, NEW l \in Loaders, Step(l)
  PROVE  /\ job'[l].step = "idle" \/ job'[l].cache \in Caches
         /\ job'[l].step \in Claimed => flock'[job'[l].cache] = l
         /\ job'[l].step \in InTransaction => advisory' = l
         /\ JobOK(l)'
  <1> DEFINE Mine == /\ job'[l].step = "idle" \/ job'[l].cache \in Caches
                     /\ job'[l].step \in Claimed => flock'[job'[l].cache] = l
                     /\ job'[l].step \in InTransaction => advisory' = l
                     /\ JobOK(l)'
  <1> USE DEF At, Dir
  <1>a. /\ job \in [Loaders -> JobShape] /\ flock \in [Caches -> Loaders \cup {None}]
        /\ cache \in [Caches -> [file : 0 .. MaxArchives, stamp : StampShape]]
        /\ served \in Archives /\ mapping \in Concordances /\ begun \in 0 .. MaxJobs
        /\ runs \in Seq(RunShape) /\ TypeOK
      BY DEF IInv, TypeOK
  <1>b. /\ job[l] \in JobShape /\ (job[l].step # "idle" => job[l].cache \in Caches)
        /\ job[l].step \in Claimed => flock[job[l].cache] = l
        /\ job[l].step \in InTransaction => advisory = l
        /\ JobOK(l)
      BY <1>a DEF IInv, Holding, JobsOK
  <1>c. NoArchive = 0 /\ NoArchive \notin Archives
      BY DEF NoArchive, Archives
  <1>1. Ends(l) => Mine
      BY <1>a, Ended DEF JobOK, Claimed, InTransaction, Parsed
  <1>2. ASSUME NEW c \in Caches, NEW kind \in {"load", "returns"}, NEW force \in BOOLEAN,
               BeginLoad(l, c, kind, force)
        PROVE  Mine
    <2>1. /\ job'[l].step = "claim" /\ job'[l].kind = kind /\ job'[l].id = begun + 1
          /\ job'[l].cache = c /\ job'[l].lm = served /\ job'[l].conc = mapping
        BY <1>2, <1>a DEF BeginLoad, Idle
    <2>2. begun + 1 \in 1 .. MaxJobs
        BY <1>2, <1>a, BatchAssumption DEF BeginLoad
    <2> QED
        BY <1>a, <2>1, <2>2 DEF JobOK, Claimed, InTransaction, Parsed, FromCopy
  <1>3. ASSUME NEW c \in Caches, NEW kind \in {"audit", "reload"}, BeginAgain(l, c, kind)
        PROVE  Mine
    <2>1. /\ job'[l].step = IF kind = "reload" THEN "fresh" ELSE "claim"
          /\ job'[l].kind = kind /\ job'[l].id = begun + 1
          /\ job'[l].cache = c /\ job'[l].lm = Latest.lm /\ job'[l].sha = Latest.sha
        BY <1>3, <1>a DEF BeginAgain, Idle
    <2>2. begun + 1 \in 1 .. MaxJobs
        BY <1>3, <1>a, BatchAssumption DEF BeginAgain
    <2>3. Latest.lm \in Archives /\ Latest.sha \in Archives
        BY <1>3, <1>a, LatestType DEF BeginAgain, RunShape
    <2> QED
        BY <1>a, <2>1, <2>2, <2>3 DEF JobOK, Claimed, InTransaction, Parsed, FromCopy
  <1>4. ReloadFresh(l) => Mine
    <2> HAVE ReloadFresh(l)
    <2>1. CASE job' = [job EXCEPT ![l].step = "claim", ![l].conc = mapping]
      <3>1. /\ job'[l].step = "claim" /\ job'[l].kind = job[l].kind /\ job'[l].id = job[l].id
            /\ job'[l].cache = job[l].cache /\ job'[l].lm = job[l].lm /\ job'[l].sha = job[l].sha
            /\ job'[l].conc = mapping
          BY <2>1, <1>a, <1>b DEF JobShape
      <3> QED
          BY <1>a, <1>b, <3>1 DEF ReloadFresh, JobOK, Claimed, InTransaction, Parsed
    <2> QED
        BY <1>1, <2>1 DEF ReloadFresh
  <1>5. Claim(l) \/ Check(l) => Mine
    <2>1. ASSUME Claim(l) PROVE Mine
      <3>1. PICK s \in {"check", "fetch"} : Goes(l, s)
          BY <2>1 DEF Claim
      <3>2. flock'[job[l].cache] = l
          BY <2>1, <1>a, <1>b DEF Claim
      <3> QED
          BY <2>1, <1>a, <1>b, <3>1, <3>2, MovedOn DEF Claim, JobOK, Claimed, InTransaction, Parsed
    <2>2. ASSUME Check(l), Goes(l, "fetch"), UNCHANGED flock PROVE Mine
        BY <2>2, <1>a, <1>b, MovedOn DEF Check, JobOK, Claimed, InTransaction, Parsed
    <2> QED
        BY <1>1, <2>1, <2>2 DEF Check
  <1>6. ClaimRefused(l) \/ FetchedAnother(l) \/ Clean(l) \/ Fail(l) => Mine
      BY <1>1 DEF ClaimRefused, FetchedAnother, Clean, Fail
  <1>7. ASSUME FetchCached(l) PROVE Mine
    <2>1. cache[job[l].cache].stamp \in RealStamps /\ cache[job[l].cache].file # NoArchive
        BY <1>7, <1>b DEF FetchCached, Reusable, IInv, StampsOK
    <2> QED
        BY <1>7, <1>a, <1>b, <2>1, MovedOn DEF FetchCached, JobOK, Claimed, InTransaction, Parsed
  <1>8. ASSUME Download(l) PROVE Mine
    <2>1. /\ job'[l].step = "stamp" /\ job'[l].kind = job[l].kind /\ job'[l].id = job[l].id
          /\ job'[l].cache = job[l].cache /\ job'[l].lm = job[l].lm /\ job'[l].sha = served
          /\ job'[l].conc = job[l].conc
        BY <1>8, <1>a, <1>b DEF Download, JobShape
    <2>2. cache'[job[l].cache].file = served
        BY <1>8, <1>a, <1>b DEF Download
    <2> QED
        BY <1>8, <1>a, <1>b, <1>c, <2>1, <2>2
        DEF Download, JobOK, Claimed, InTransaction, Parsed, FromCopy
  <1>9. ASSUME FetchArchived(l) PROVE Mine
    <2>1. /\ job'[l].step = IF job[l].kind = "reload" THEN "stamp" ELSE "read"
          /\ job'[l].kind = job[l].kind /\ job'[l].id = job[l].id
          /\ job'[l].cache = job[l].cache /\ job'[l].lm = job[l].lm /\ job'[l].sha = job[l].sha
          /\ job'[l].conc = job[l].conc
        BY <1>9, <1>a, <1>b DEF FetchArchived, JobShape
    <2>2. cache'[job[l].cache].file = job[l].sha
        BY <1>9, <1>a, <1>b DEF FetchArchived
    <2> QED
        BY <1>9, <1>a, <1>b, <1>c, <2>1, <2>2
        DEF FetchArchived, JobOK, Claimed, InTransaction, Parsed, FromCopy
  <1>10. ASSUME WriteStamp(l) PROVE Mine
    <2>1. /\ cache'[job[l].cache].file = cache[job[l].cache].file
          /\ cache'[job[l].cache].stamp = [lm |-> job[l].lm, sha |-> job[l].sha]
        BY <1>10, <1>a, <1>b DEF WriteStamp
    <2>2. [lm |-> job[l].lm, sha |-> job[l].sha] \in RealStamps
      <3>1. job[l].lm \in Archives /\ job[l].sha \in Archives
          BY <1>10, <1>b DEF WriteStamp, JobOK
      <3> QED
          BY <3>1 DEF RealStamps
    <2> QED
        BY <1>10, <1>a, <1>b, <2>1, <2>2, MovedOn
        DEF WriteStamp, JobOK, Claimed, InTransaction, Parsed
  <1>11. ASSUME Extract(l) PROVE Mine
    <2>1. /\ job'[l].step = "lock" /\ job'[l].bytes = cache[job[l].cache].file
          /\ job'[l].held = (IF job[l].kind = "audit" THEN [lm |-> job[l].lm, sha |-> job[l].sha]
                             ELSE cache[job[l].cache].stamp)
          /\ job'[l].conc = (IF job[l].kind = "audit" THEN mapping ELSE job[l].conc)
          /\ job'[l].kind = job[l].kind /\ job'[l].id = job[l].id
          /\ job'[l].cache = job[l].cache /\ job'[l].lm = job[l].lm /\ job'[l].sha = job[l].sha
        BY <1>11, <1>a, <1>b DEF Extract, JobShape
    <2>2. cache[job[l].cache].file \in Archives
        BY <1>11, <1>a, <1>b DEF Extract, NoArchive, Archives
    <2>3. job'[l].held \in RealStamps
      <3>1. job[l].step = "read"
          BY <1>11 DEF Extract
      <3>2. CASE job[l].kind = "audit"
        <4>1. job[l].lm \in Archives /\ job[l].sha \in Archives
            BY <1>b, <3>1, <3>2 DEF JobOK, FromCopy
        <4> QED
            BY <2>1, <3>2, <4>1 DEF RealStamps
      <3>3. CASE job[l].kind # "audit"
        <4>1. Dir(l).stamp \in RealStamps
            BY <1>b, <3>1, <3>3 DEF JobOK
        <4> QED
            BY <2>1, <3>3, <4>1
      <3> QED
          BY <3>2, <3>3
    <2> QED
        BY ZenonT(60), <1>11, <1>a, <1>b, <2>1, <2>2, <2>3 DEF Extract, JobOK, Claimed, InTransaction, Parsed
  <1>12. LockBatch(l) \/ StandDown(l) \/ Archive(l) => Mine
      BY <1>a, <1>b, MovedOn DEF LockBatch, StandDown, Archive, JobOK, Claimed, InTransaction, Parsed, dbVars
  <1>13. ASSUME Replace(l) PROVE Mine
    <2>1. /\ job'[l].step = "replaced" /\ job'[l].kind = job[l].kind /\ job'[l].id = job[l].id
          /\ job'[l].cache = job[l].cache /\ job'[l].lm = job[l].lm /\ job'[l].sha = job[l].sha
          /\ job'[l].conc = job[l].conc /\ job'[l].held = job[l].held /\ job'[l].bytes = job[l].bytes
        BY <1>13, <1>a, <1>b DEF Replace, JobShape
    <2> QED
        BY <1>13, <1>a, <1>b, <2>1 DEF Replace, JobOK, Claimed, InTransaction, Parsed, dbVars
  <1>14. ASSUME Commit(l) PROVE Mine
    <2>1. PICK s \in {"archive", "clean"} : Goes(l, s)
        BY <1>14 DEF Commit
    <2> QED
        BY <1>14, <1>a, <1>b, <2>1, MovedOn DEF Commit, JobOK, Claimed, InTransaction, Parsed
  <1> QED
      BY <1>2, <1>3, <1>4, <1>5, <1>6, <1>7, <1>8, <1>9, <1>10, <1>11, <1>12, <1>13, <1>14 DEF Step

(* A commit records at most its run, and nothing else touches the runs.    *)
LEMMA RunsGrow ==
  ASSUME IInv, NEW l \in Loaders, Step(l)
  PROVE  /\ DOMAIN runs \subseteq DOMAIN runs' /\ \A i \in DOMAIN runs : runs'[i] = runs[i]
         /\ ~ (Commit(l) /\ Records(job[l].kind)) => runs' = runs
         /\ ~ Commit(l) => rows' = rows
         /\ Commit(l) /\ Records(job[l].kind) =>
              /\ DOMAIN runs = 1 .. Len(runs) /\ DOMAIN runs' = 1 .. (Len(runs) + 1)
              /\ Len(runs) \in Nat /\ Len(runs') = Len(runs) + 1
              /\ runs'[Len(runs) + 1] =
                   [id |-> job[l].id, lm |-> job[l].held.lm, sha |-> job[l].held.sha,
                    bytes |-> job[l].bytes, conc |-> job[l].conc, kind |-> job[l].kind]
  <1>a. runs \in Seq(RunShape)
      BY DEF IInv, TypeOK
  <1>1. ~ (Commit(l) /\ Records(job[l].kind)) => runs' = runs
      BY DEF Step, BeginLoad, BeginAgain, ReloadFresh, Claim, ClaimRefused, Check, FetchCached,
         Download, FetchArchived, FetchedAnother, WriteStamp, Extract, LockBatch, StandDown, Replace,
         Commit, Archive, Clean, Fail, dbVars
  <1>2. ~ Commit(l) => rows' = rows
      BY DEF Step, BeginLoad, BeginAgain, ReloadFresh, Claim, ClaimRefused, Check, FetchCached,
         Download, FetchArchived, FetchedAnother, WriteStamp, Extract, LockBatch, StandDown, Replace,
         Archive, Clean, Fail, dbVars
  <1>3. ASSUME Commit(l), Records(job[l].kind)
        PROVE  /\ DOMAIN runs = 1 .. Len(runs) /\ DOMAIN runs' = 1 .. (Len(runs) + 1)
               /\ Len(runs) \in Nat /\ Len(runs') = Len(runs) + 1
               /\ runs'[Len(runs) + 1] =
                    [id |-> job[l].id, lm |-> job[l].held.lm, sha |-> job[l].held.sha,
                     bytes |-> job[l].bytes, conc |-> job[l].conc, kind |-> job[l].kind]
               /\ \A i \in DOMAIN runs : runs'[i] = runs[i]
    <2> DEFINE run == [id |-> job[l].id, lm |-> job[l].held.lm, sha |-> job[l].held.sha,
                       bytes |-> job[l].bytes, conc |-> job[l].conc, kind |-> job[l].kind]
    <2>1. run \in RunShape
        BY <1>3, Written DEF RunShape, RealStamps, Records
    <2>2. runs' = Append(runs, run)
        BY <1>3 DEF Commit
    <2> HIDE DEF run
    <2>3. /\ DOMAIN runs = 1 .. Len(runs) /\ DOMAIN runs' = 1 .. (Len(runs) + 1)
          /\ Len(runs) \in Nat /\ Len(runs') = Len(runs) + 1
          /\ runs'[Len(runs) + 1] = run
          /\ \A i \in DOMAIN runs : runs'[i] = runs[i]
        BY <1>a, <2>1, <2>2
    <2> QED
        BY <2>3 DEF run
  <1> QED
      BY <1>1, <1>2, <1>3

(* A loader's step keeps the inductive invariant.                          *)
LEMMA LoaderStep ==
  ASSUME IInv, NEW l \in Loaders, Step(l)
  PROVE  IInv'
  <1>a. /\ job \in [Loaders -> JobShape]
        /\ cache \in [Caches -> [file : 0 .. MaxArchives, stamp : StampShape]] /\ TypeOK
      BY DEF IInv, TypeOK
  <1>1. TypeOK'
      BY TypeStep
  <1>2. Holding'
    <2> SUFFICES ASSUME NEW k \in Loaders
                 PROVE  /\ job'[k].step = "idle" \/ job'[k].cache \in Caches
                        /\ job'[k].step \in Claimed => flock'[job'[k].cache] = k
                        /\ job'[k].step \in InTransaction => advisory' = k
        BY DEF Holding, At
    <2>1. CASE k = l
        BY <2>1, OwnStep
    <2>2. CASE k # l
        BY <2>2, Others DEF IInv, Holding, At
    <2> QED
        BY <2>1, <2>2
  <1>3. JobsOK'
    <2> SUFFICES ASSUME NEW k \in Loaders PROVE JobOK(k)'
        BY DEF JobsOK
    <2>1. CASE k = l
        BY <2>1, OwnStep
    <2>2. CASE k # l
      <3>1. /\ job'[k] = job[k]
            /\ job[k].step \in Claimed => cache'[job[k].cache] = cache[job[k].cache]
            /\ JobOK(k)
          BY <2>2, Others DEF IInv, JobsOK
      <3> QED
          BY <3>1 DEF JobOK, At, Dir, Claimed, Parsed
    <2> QED
        BY <2>1, <2>2
  <1>4. StampsOK'
    <2> SUFFICES ASSUME NEW c \in Caches PROVE cache'[c].stamp = NoStamp \/ cache'[c].stamp \in RealStamps
        BY DEF StampsOK
    <2>0. cache[c].stamp = NoStamp \/ cache[c].stamp \in RealStamps
        BY DEF IInv, StampsOK
    <2>1. CASE WriteStamp(l)
      <3>1. [lm |-> job[l].lm, sha |-> job[l].sha] \in RealStamps
          BY <2>1 DEF WriteStamp, IInv, JobsOK, JobOK, At, RealStamps
      <3> QED
          BY <1>a, <2>0, <2>1, <3>1 DEF WriteStamp
    <2>2. CASE Clean(l)
      <3>1. PICK x \in {Dir(l), [Dir(l) EXCEPT !.file = NoArchive]} :
              cache' = [cache EXCEPT ![job[l].cache] = x]
          BY <2>2 DEF Clean
      <3>2. job[l].cache \in Caches
          BY <2>2 DEF Clean, IInv, Holding, At
      <3>3. x.stamp = cache[job[l].cache].stamp
          BY <1>a, <3>1, <3>2 DEF Dir
      <3> QED
          BY <1>a, <2>0, <3>1, <3>3
    <2>3. CASE ~ WriteStamp(l) /\ ~ Clean(l)
      <3>1. cache'[c].stamp = cache[c].stamp
        <4>1. Download(l) \/ FetchArchived(l) \/ FetchedAnother(l) =>
                cache' = cache \/ \E f : cache' = [cache EXCEPT ![job[l].cache].file = f]
            BY DEF Download, FetchArchived, FetchedAnother
        <4>2. ASSUME NEW f, cache' = [cache EXCEPT ![job[l].cache].file = f]
              PROVE  cache'[c].stamp = cache[c].stamp
            BY <1>a, <4>2
        <4>3. CASE Download(l) \/ FetchArchived(l) \/ FetchedAnother(l)
            BY <4>1, <4>2, <4>3
        <4>4. CASE ~ (Download(l) \/ FetchArchived(l) \/ FetchedAnother(l))
          <5>1. cache' = cache
              BY <2>3, <4>4 DEF Step, BeginLoad, BeginAgain, ReloadFresh, Claim, ClaimRefused, Check,
                 FetchCached, Extract, LockBatch, StandDown, Replace, Commit, Archive, Fail
          <5> QED
              BY <5>1
        <4> QED
            BY <4>3, <4>4
      <3> QED
          BY <2>0, <3>1
    <2> QED
        BY <2>1, <2>2, <2>3
  <1>5. CheckedInv'
    <2> SUFFICES ASSUME NEW k \in Loaders, job'[k].step = "replaced"
                 PROVE  /\ job'[k].deleted = {w.id : w \in UNION {rows'[p] : p \in PartsOf(job'[k].kind)}}
                        /\ Records(job'[k].kind) =>
                             ~ \E i \in DOMAIN runs' : /\ runs'[i].lm = job'[k].held.lm
                                                       /\ runs'[i].conc = job'[k].conc
        BY DEF CheckedInv, At, Loaded
    <2>1. CASE k # l
      <3>1. job'[k] = job[k] /\ rows' = rows /\ runs' = runs
          BY <2>1, Others DEF IInv, Holding, InTransaction
      <3> QED
          BY <3>1 DEF IInv, CheckedInv, At, Loaded
    <2>2. CASE k = l
      <3>1. Replace(l)
        <4>1. Ends(l) => job'[l].step # "replaced"
            BY <1>a, Ended
        <4>2. \A s : Goes(l, s) => job'[l].step = s
            BY <1>a, MovedOn
        <4>3. \A c, kind, force : BeginLoad(l, c, kind, force) => job'[l].step = "claim"
            BY <1>a DEF BeginLoad, Idle
        <4>4. \A c, kind : BeginAgain(l, c, kind) => job'[l].step \in {"fresh", "claim"}
            BY <1>a DEF BeginAgain, Idle
        <4>5. ReloadFresh(l) /\ ~ Ends(l) => job'[l].step = "claim"
            BY <1>a DEF ReloadFresh, JobShape
        <4>6. Download(l) \/ FetchArchived(l) => job'[l].step \in {"stamp", "read"}
            BY <1>a DEF Download, FetchArchived, JobShape
        <4>7. Extract(l) => job'[l].step = "lock"
            BY <1>a DEF Extract, JobShape
        <4>8. ClaimRefused(l) \/ FetchedAnother(l) \/ Clean(l) \/ Fail(l) => Ends(l)
            BY DEF ClaimRefused, FetchedAnother, Clean, Fail
        <4>9. Claim(l) \/ Check(l) \/ FetchCached(l) \/ WriteStamp(l) \/ LockBatch(l) \/ StandDown(l)
              \/ Commit(l) \/ Archive(l) =>
                \/ Ends(l)
                \/ \E s \in {"check", "fetch", "read", "locked", "clean", "archive"} : Goes(l, s)
            BY DEF Claim, Check, FetchCached, WriteStamp, LockBatch, StandDown, Commit, Archive
        <4> QED
            BY <2>2, <4>1, <4>2, <4>3, <4>4, <4>5, <4>6, <4>7, <4>8, <4>9 DEF Step
      <3>2. /\ job'[l].kind = job[l].kind /\ job'[l].held = job[l].held /\ job'[l].conc = job[l].conc
            /\ job'[l].deleted = {w.id : w \in UNION {rows[p] : p \in PartsOf(job[l].kind)}}
            /\ rows' = rows /\ runs' = runs
          BY <1>a, <3>1 DEF Replace, JobShape, dbVars
      <3>3. Records(job[l].kind) => ~ \E i \in DOMAIN runs : /\ runs[i].lm = job[l].held.lm
                                                            /\ runs[i].conc = job[l].conc
          BY <3>1 DEF Replace, Loaded
      <3>4. {w.id : w \in UNION {rows'[p] : p \in PartsOf(job'[l].kind)}}
              = {w.id : w \in UNION {rows[p] : p \in PartsOf(job[l].kind)}}
          BY <3>2
      <3> QED
          BY <2>2, <3>2, <3>3, <3>4
    <2> QED
        BY <2>1, <2>2
  <1>6. OneWrite'
    <2>1. CASE Commit(l)
        BY <2>1, Written DEF IInv, OneWrite
    <2>2. CASE ~ Commit(l)
        BY <2>2, RunsGrow DEF IInv, OneWrite
    <2> QED
        BY <2>1, <2>2
  <1>7. OneRunPerVersion'
    <2>1. CASE Commit(l) /\ Records(job[l].kind)
      <3>1. \A i \in DOMAIN runs : ~ (runs[i].lm = job[l].held.lm /\ runs[i].conc = job[l].conc)
          BY <2>1, Written DEF Loaded
      <3>a. /\ DOMAIN runs = 1 .. Len(runs) /\ DOMAIN runs' = 1 .. (Len(runs) + 1)
            /\ Len(runs) \in Nat /\ Len(runs') = Len(runs) + 1
            /\ runs'[Len(runs) + 1] =
                 [id |-> job[l].id, lm |-> job[l].held.lm, sha |-> job[l].held.sha,
                  bytes |-> job[l].bytes, conc |-> job[l].conc, kind |-> job[l].kind]
          BY <2>1, RunsGrow
      <3>b. \A i \in DOMAIN runs : runs'[i] = runs[i]
          BY RunsGrow
      <3>c. runs'[Len(runs) + 1].lm = job[l].held.lm /\ runs'[Len(runs) + 1].conc = job[l].conc
          BY <3>a
      <3>2. /\ DOMAIN runs = 1 .. Len(runs) /\ DOMAIN runs' = 1 .. (Len(runs) + 1) /\ Len(runs) \in Nat
            /\ runs'[Len(runs) + 1].lm = job[l].held.lm /\ runs'[Len(runs) + 1].conc = job[l].conc
            /\ \A i \in DOMAIN runs : runs'[i] = runs[i]
          BY <3>a, <3>b, <3>c
      <3> SUFFICES ASSUME NEW i \in DOMAIN runs', NEW k \in DOMAIN runs',
                          runs'[i].lm = runs'[k].lm, runs'[i].conc = runs'[k].conc
                   PROVE  i = k
          BY DEF OneRunPerVersion
      <3>3. /\ i \in DOMAIN runs \/ i = Len(runs) + 1
            /\ k \in DOMAIN runs \/ k = Len(runs) + 1
          BY <3>2
      <3>4. CASE i \in DOMAIN runs /\ k \in DOMAIN runs
          BY <3>2, <3>4 DEF IInv, OneRunPerVersion
      <3> QED
          BY <3>1, <3>2, <3>3, <3>4
    <2>2. CASE ~ (Commit(l) /\ Records(job[l].kind))
        BY <2>2, RunsGrow DEF IInv, OneRunPerVersion
    <2> QED
        BY <2>1, <2>2
  <1> QED
      BY <1>1, <1>2, <1>3, <1>4, <1>5, <1>6, <1>7 DEF IInv

(* A repost, a new concordance or nothing at all keeps both invariants.    *)
LEMMA WorldStep ==
  ASSUME Repost \/ Deploy \/ UNCHANGED vars
  PROVE  (IInv => IInv') /\ (HonestInv => HonestInv')
  <1>1. /\ UNCHANGED <<cache, flock, bucket, advisory, rows, runs, job, begun>>
        /\ TypeOK => served' \in Archives /\ mapping' \in Concordances
      BY BatchAssumption DEF Repost, Deploy, vars, dbVars, Archives, TypeOK
  <1>2. IInv => IInv'
      BY <1>1 DEF IInv, TypeOK, Holding, JobsOK, JobOK, StampsOK, CheckedInv, Loaded, OneWrite,
         OneRunPerVersion, At, Dir
  <1>3. HonestInv => HonestInv'
      BY <1>1 DEF HonestInv, HonestJob, RowsAreLatestLoad, CopiesAreTheLoaded, Latest, At, Dir
  <1> QED
      BY <1>2, <1>3

(* The archive and the stamp a command works from agree after its step.    *)
LEMMA HonestOwn ==
  ASSUME SizesDiffer, IInv, HonestInv, NEW l \in Loaders, Step(l)
  PROVE  HonestJob(l)'
  <1> USE DEF At, Dir
  <1>a. /\ job \in [Loaders -> JobShape]
        /\ cache \in [Caches -> [file : 0 .. MaxArchives, stamp : StampShape]]
        /\ runs \in Seq(RunShape) /\ TypeOK
      BY DEF IInv, TypeOK
  <1>b. /\ job[l] \in JobShape /\ (job[l].step # "idle" => job[l].cache \in Caches)
        /\ JobOK(l) /\ HonestJob(l)
      BY <1>a DEF IInv, Holding, JobsOK, HonestInv
  <1>c. (\E k \in DOMAIN runs : runs[k].lm = job[l].lm /\ runs[k].sha = job[l].sha)
          => \E k \in DOMAIN runs' : runs'[k].lm = job[l].lm /\ runs'[k].sha = job[l].sha
      BY RunsGrow
  <1>1. Ends(l) => HonestJob(l)'
      BY <1>a, Ended DEF HonestJob, Parsed
  <1>2. ASSUME NEW c \in Caches, NEW kind \in {"load", "returns"}, NEW force \in BOOLEAN,
               BeginLoad(l, c, kind, force)
        PROVE  HonestJob(l)'
    <2>1. job'[l].step = "claim" /\ job'[l].kind = kind
        BY <1>2, <1>a DEF BeginLoad, Idle
    <2> QED
        BY <2>1 DEF HonestJob, Parsed, FromCopy
  <1>3. ASSUME NEW c \in Caches, NEW kind \in {"audit", "reload"}, BeginAgain(l, c, kind)
        PROVE  HonestJob(l)'
    <2>1. job'[l].step \in {"fresh", "claim"} /\ job'[l].lm = Latest.lm /\ job'[l].sha = Latest.sha
        BY <1>3, <1>a DEF BeginAgain, Idle
    <2>2. Len(runs) \in DOMAIN runs' /\ runs'[Len(runs)] = Latest
        BY <1>3, <1>a, LatestType, RunsGrow DEF BeginAgain, Latest
    <2> QED
        BY <2>1, <2>2 DEF HonestJob, Parsed
  <1>4. ReloadFresh(l) => HonestJob(l)'
    <2>1. ASSUME ReloadFresh(l), job' = [job EXCEPT ![l].step = "claim", ![l].conc = mapping]
          PROVE  HonestJob(l)'
      <3>1. /\ job'[l].step = "claim" /\ job'[l].kind = job[l].kind
            /\ job'[l].lm = job[l].lm /\ job'[l].sha = job[l].sha
          BY <2>1, <1>a, <1>b DEF JobShape
      <3> QED
          BY <1>b, <1>c, <2>1, <3>1 DEF ReloadFresh, HonestJob, Parsed
    <2> QED
        BY <1>1, <2>1 DEF ReloadFresh
  <1>5. Claim(l) \/ Check(l) => HonestJob(l)'
    <2>1. ASSUME job[l].step # "idle", NEW s \in {"check", "fetch"}, Goes(l, s) PROVE HonestJob(l)'
        BY <2>1, <1>a, <1>b, <1>c, MovedOn DEF HonestJob, Parsed
    <2> QED
        BY <1>1, <2>1 DEF Claim, Check
  <1>6. ClaimRefused(l) \/ FetchedAnother(l) \/ Clean(l) \/ Fail(l) => HonestJob(l)'
      BY <1>1 DEF ClaimRefused, FetchedAnother, Clean, Fail
  <1>7. ASSUME FetchCached(l) PROVE HonestJob(l)'
    <2>1. cache[job[l].cache].stamp \in RealStamps /\ cache[job[l].cache].file # NoArchive
        BY <1>7, <1>b DEF FetchCached, Reusable, IInv, StampsOK
    <2>2. cache[job[l].cache].file \in Archives /\ cache[job[l].cache].stamp.sha \in Archives
        BY <1>7, <1>a, <1>b, <2>1 DEF FetchCached, NoArchive, Archives, RealStamps
    <2>3. cache[job[l].cache].file = cache[job[l].cache].stamp.sha
        BY <1>7, <2>2 DEF FetchCached, Reusable, SizesDiffer
    <2> QED
        BY <1>7, <1>a, <1>b, <2>3, MovedOn DEF FetchCached, HonestJob, Parsed, FromCopy
  <1>8. ASSUME Download(l) PROVE HonestJob(l)'
    <2>1. /\ job'[l].step = "stamp" /\ job'[l].kind = job[l].kind /\ job'[l].sha = served
          /\ job'[l].cache = job[l].cache /\ cache'[job[l].cache].file = served
        BY <1>8, <1>a, <1>b DEF Download, JobShape
    <2> QED
        BY <1>8, <2>1 DEF Download, HonestJob, Parsed
  <1>9. ASSUME FetchArchived(l) PROVE HonestJob(l)'
    <2>1. /\ job'[l].step = IF job[l].kind = "reload" THEN "stamp" ELSE "read"
          /\ job'[l].kind = job[l].kind /\ job'[l].lm = job[l].lm /\ job'[l].sha = job[l].sha
          /\ job'[l].cache = job[l].cache
        BY <1>9, <1>a, <1>b DEF FetchArchived, JobShape
    <2>2. cache'[job[l].cache].file = job[l].sha
        BY <1>9, <1>a, <1>b DEF FetchArchived
    <2>3. job[l].kind \in {"audit", "reload"} /\ job[l].step = "fetch"
        BY <1>9 DEF FetchArchived, FromCopy
    <2>4. \E k \in DOMAIN runs' : runs'[k].lm = job[l].lm /\ runs'[k].sha = job[l].sha
        BY <1>b, <1>c, <2>3 DEF HonestJob, FromCopy
    <2> QED
        BY <2>1, <2>2, <2>3, <2>4 DEF HonestJob, Parsed
  <1>10. ASSUME WriteStamp(l) PROVE HonestJob(l)'
    <2>1. /\ cache'[job[l].cache].file = cache[job[l].cache].file
          /\ cache'[job[l].cache].stamp = [lm |-> job[l].lm, sha |-> job[l].sha]
        BY <1>10, <1>a, <1>b DEF WriteStamp
    <2>2. job[l].kind # "audit"
        BY <1>10, <1>b DEF WriteStamp, JobOK
    <2>3. /\ job'[l].step = "read" /\ job'[l].kind = job[l].kind /\ job'[l].cache = job[l].cache
          /\ job'[l].lm = job[l].lm /\ job'[l].sha = job[l].sha
      <3>1. Goes(l, "read")
          BY <1>10 DEF WriteStamp
      <3> QED
          BY <1>a, <3>1, MovedOn
    <2>4. job[l].step = "stamp" /\ cache[job[l].cache].file = job[l].sha
        BY <1>10, <1>b DEF WriteStamp, HonestJob
    <2> QED
        BY <1>b, <1>c, <2>1, <2>2, <2>3, <2>4 DEF HonestJob, Parsed
  <1>11. ASSUME Extract(l) PROVE HonestJob(l)'
    <2>1. /\ job'[l].step = "lock" /\ job'[l].bytes = cache[job[l].cache].file
          /\ job'[l].held = (IF job[l].kind = "audit" THEN [lm |-> job[l].lm, sha |-> job[l].sha]
                             ELSE cache[job[l].cache].stamp)
          /\ job'[l].kind = job[l].kind
          /\ job'[l].cache = job[l].cache /\ job'[l].lm = job[l].lm /\ job'[l].sha = job[l].sha
        BY <1>11, <1>a, <1>b DEF Extract, JobShape
    <2>2. /\ job[l].step = "read"
          /\ cache[job[l].cache].file = IF job[l].kind = "audit" THEN job[l].sha
                                        ELSE cache[job[l].cache].stamp.sha
          /\ job[l].kind = "reload" =>
               cache[job[l].cache].stamp = [lm |-> job[l].lm, sha |-> job[l].sha]
        BY <1>11, <1>b DEF Extract, HonestJob
    <2>3. FromCopy(job[l].kind) =>
            \E k \in DOMAIN runs' : runs'[k].lm = job[l].lm /\ runs'[k].sha = job[l].sha
        BY <1>b, <1>c, <2>2 DEF HonestJob
    <2>4. job'[l].held.sha = job'[l].bytes
        BY <2>1, <2>2
    <2>5. job[l].kind = "reload" => job'[l].held = [lm |-> job[l].lm, sha |-> job[l].sha]
        BY <2>1, <2>2
    <2> QED
        BY <2>1, <2>3, <2>4, <2>5 DEF HonestJob
  <1>12. ASSUME LockBatch(l) \/ StandDown(l) \/ Archive(l) \/ Commit(l) PROVE HonestJob(l)'
    <2>1. \/ Goes(l, "locked") /\ job[l].step \in Parsed
          \/ \E s \in {"clean", "archive"} : Goes(l, s) /\ job[l].step # "idle"
        BY <1>12 DEF LockBatch, StandDown, Archive, Commit, Parsed
    <2>a. PICK s : Goes(l, s)
        BY <2>1
    <2>2. /\ job'[l].kind = job[l].kind /\ job'[l].lm = job[l].lm /\ job'[l].sha = job[l].sha
          /\ job'[l].held = job[l].held /\ job'[l].bytes = job[l].bytes
        BY <1>a, <2>a, MovedOn
    <2>3. \/ job'[l].step = "locked" /\ job[l].step \in Parsed
          \/ job'[l].step \in {"clean", "archive"} /\ job[l].step # "idle"
      <3>1. \A t : Goes(l, t) => job'[l].step = t
          BY <1>a, MovedOn
      <3> QED
          BY <2>1, <3>1
    <2> QED
        BY <1>b, <1>c, <2>2, <2>3 DEF HonestJob, Parsed
  <1>13. ASSUME Replace(l) PROVE HonestJob(l)'
    <2>1. /\ job'[l].step = "replaced" /\ job'[l].kind = job[l].kind
          /\ job'[l].lm = job[l].lm /\ job'[l].sha = job[l].sha
          /\ job'[l].held = job[l].held /\ job'[l].bytes = job[l].bytes
        BY <1>13, <1>a, <1>b DEF Replace, JobShape
    <2> QED
        BY <1>13, <1>b, <1>c, <2>1 DEF Replace, HonestJob, Parsed
  <1> QED
      BY <1>2, <1>3, <1>4, <1>5, <1>6, <1>7, <1>8, <1>9, <1>10, <1>11, <1>12, <1>13 DEF Step

(* Where sizes tell postings apart, a loader's step keeps rows, runs and   *)
(* archives in agreement.                                                  *)
LEMMA HonestStep ==
  ASSUME SizesDiffer, IInv, HonestInv, NEW l \in Loaders, Step(l)
  PROVE  HonestInv'
  <1>a. runs \in Seq(RunShape) /\ rows \in [Parts -> SUBSET RowShape] /\ TypeOK
      BY DEF IInv, TypeOK
  <1>b. ASSUME Commit(l)
        PROVE  /\ job[l].held.sha = job[l].bytes /\ job[l].step = "replaced"
               /\ job[l].kind = "reload" => /\ job[l].held.lm = job[l].lm /\ job[l].held.sha = job[l].sha
                                            /\ \E k \in DOMAIN runs : /\ runs[k].lm = job[l].lm
                                                                      /\ runs[k].sha = job[l].sha
    <2>1. job[l].step = "replaced" /\ HonestJob(l)
        BY <1>b DEF Commit, At, HonestInv
    <2>2. job[l].kind = "reload" => job[l].held = [lm |-> job[l].lm, sha |-> job[l].sha]
        BY <2>1 DEF HonestJob, Parsed
    <2>3. job[l].kind = "reload" => job[l].held.lm = job[l].lm /\ job[l].held.sha = job[l].sha
        BY <2>2
    <2> QED
        BY <2>1, <2>3 DEF HonestJob, Parsed, FromCopy, At
  <1>1. \A k \in Loaders : HonestJob(k)'
    <2> TAKE k \in Loaders
    <2>1. CASE k = l
        BY <2>1, HonestOwn
    <2>2. CASE k # l
      <3>1. /\ job'[k] = job[k]
            /\ job[k].step \in Claimed => cache'[job[k].cache] = cache[job[k].cache]
            /\ HonestJob(k)
          BY <2>2, Others DEF HonestInv
      <3>2. (\E i \in DOMAIN runs : runs[i].lm = job[k].lm /\ runs[i].sha = job[k].sha)
              => \E i \in DOMAIN runs' : runs'[i].lm = job[k].lm /\ runs'[i].sha = job[k].sha
          BY RunsGrow
      <3> QED
          BY <3>1, <3>2 DEF HonestJob, At, Dir, Claimed, Parsed
    <2> QED
        BY <2>1, <2>2
  <1>2. \A i \in DOMAIN runs' : runs'[i].bytes = runs'[i].sha
    <2>1. CASE Commit(l) /\ Records(job[l].kind)
      <3>1. /\ DOMAIN runs = 1 .. Len(runs) /\ DOMAIN runs' = 1 .. (Len(runs) + 1) /\ Len(runs) \in Nat
            /\ runs'[Len(runs) + 1] =
                 [id |-> job[l].id, lm |-> job[l].held.lm, sha |-> job[l].held.sha,
                  bytes |-> job[l].bytes, conc |-> job[l].conc, kind |-> job[l].kind]
          BY <2>1, RunsGrow
      <3>2. runs'[Len(runs) + 1].bytes = runs'[Len(runs) + 1].sha
          BY <1>b, <2>1, <3>1
      <3>3. \A i \in DOMAIN runs : runs'[i] = runs[i] /\ runs[i].bytes = runs[i].sha
          BY RunsGrow DEF HonestInv
      <3> QED
          BY <3>1, <3>2, <3>3
    <2>2. CASE ~ (Commit(l) /\ Records(job[l].kind))
        BY <2>2, RunsGrow DEF HonestInv
    <2> QED
        BY <2>1, <2>2
  <1>3. \A p \in Parts : \A w \in rows'[p] : w.bytes = w.zip
    <2>1. CASE Commit(l)
      <3> SUFFICES ASSUME NEW p \in Parts, NEW w \in rows'[p] PROVE w.bytes = w.zip
          OBVIOUS
      <3>1. \/ w = [id |-> job[l].id, bytes |-> job[l].bytes, zip |-> job[l].held.sha,
                    conc |-> job[l].conc]
            \/ w \in rows[p]
          BY <2>1, Written
      <3>2. job[l].bytes = job[l].held.sha
          BY <1>b, <2>1
      <3> QED
          BY <3>1, <3>2 DEF HonestInv
    <2>2. CASE ~ Commit(l)
        BY <2>2, RunsGrow DEF HonestInv
    <2> QED
        BY <2>1, <2>2
  <1>4. RowsAreLatestLoad'
    <2>0. "tables" \in Parts
        BY DEF Parts
    <2>1. CASE Commit(l) /\ Records(job[l].kind)
      <3>1. /\ Len(runs') = Len(runs) + 1 /\ Len(runs) \in Nat
            /\ runs'[Len(runs) + 1] =
                 [id |-> job[l].id, lm |-> job[l].held.lm, sha |-> job[l].held.sha,
                  bytes |-> job[l].bytes, conc |-> job[l].conc, kind |-> job[l].kind]
          BY <2>1, RunsGrow
      <3>2. runs' # <<>>
          BY <3>1
      <3>3. "tables" \in PartsOf(job[l].kind)
          BY <2>0, <2>1 DEF Records, PartsOf
      <3>4. rows'["tables"] = {[id |-> job[l].id, bytes |-> job[l].bytes, zip |-> job[l].held.sha,
                                conc |-> job[l].conc]}
          BY <2>0, <2>1, <3>3, Written
      <3>5. job[l].bytes = job[l].held.sha
          BY <1>b, <2>1
      <3> QED
          BY <3>1, <3>2, <3>4, <3>5 DEF RowsAreLatestLoad, Latest
    <2>2. CASE ~ (Commit(l) /\ Records(job[l].kind))
      <3>1. runs' = runs
          BY <2>2, RunsGrow
      <3>2. rows'["tables"] = rows["tables"]
        <4>1. CASE Commit(l)
          <5>1. "tables" \notin PartsOf(job[l].kind)
            <6>1. job[l].kind \in Kinds
                BY DEF IInv, TypeOK, JobShape
            <6> QED
                BY <2>2, <4>1, <6>1 DEF Records, PartsOf, Kinds
          <5> QED
              BY <2>0, <4>1, <5>1, Written
        <4>2. CASE ~ Commit(l)
            BY <4>2, RunsGrow
        <4> QED
            BY <4>1, <4>2
      <3> QED
          BY <3>1, <3>2 DEF HonestInv, RowsAreLatestLoad, Latest
    <2> QED
        BY <2>1, <2>2
  <1>5. CopiesAreTheLoaded'
    <2>1. CASE Commit(l) /\ Records(job[l].kind)
      <3>1. /\ DOMAIN runs = 1 .. Len(runs) /\ DOMAIN runs' = 1 .. (Len(runs) + 1) /\ Len(runs) \in Nat
            /\ runs'[Len(runs) + 1] =
                 [id |-> job[l].id, lm |-> job[l].held.lm, sha |-> job[l].held.sha,
                  bytes |-> job[l].bytes, conc |-> job[l].conc, kind |-> job[l].kind]
          BY <2>1, RunsGrow
      <3>2. \A i \in DOMAIN runs : runs'[i] = runs[i] /\ runs[i].bytes = runs[i].sha
          BY RunsGrow DEF HonestInv
      <3> SUFFICES ASSUME NEW i \in DOMAIN runs', runs'[i].kind = "reload"
                   PROVE  \E k \in 1 .. (i - 1) : runs'[k].lm = runs'[i].lm /\ runs'[k].bytes = runs'[i].bytes
          BY DEF CopiesAreTheLoaded
      <3>3. CASE i \in DOMAIN runs
        <4>1. \E k \in 1 .. (i - 1) : runs[k].lm = runs[i].lm /\ runs[k].bytes = runs[i].bytes
            BY <3>2, <3>3 DEF HonestInv, CopiesAreTheLoaded
        <4>2. \A k \in 1 .. (i - 1) : k \in DOMAIN runs
            BY <3>1, <3>3
        <4> QED
            BY <3>2, <3>3, <4>1, <4>2
      <3>4. CASE i = Len(runs) + 1
        <4>1. /\ job[l].kind = "reload" /\ runs'[i].lm = job[l].held.lm
              /\ runs'[i].bytes = job[l].bytes
            BY <3>1, <3>4
        <4>2. PICK k \in DOMAIN runs : runs[k].lm = job[l].lm /\ runs[k].sha = job[l].sha
            BY <1>b, <2>1, <4>1
        <4>3. runs'[k].lm = runs'[i].lm /\ runs'[k].bytes = runs'[i].bytes
            BY <1>b, <2>1, <3>2, <4>1, <4>2
        <4>4. k \in 1 .. (i - 1)
            BY <3>1, <3>4
        <4> QED
            BY <4>3, <4>4
      <3> QED
          BY <3>1, <3>3, <3>4
    <2>2. CASE ~ (Commit(l) /\ Records(job[l].kind))
      <3>1. runs' = runs
          BY <2>2, RunsGrow
      <3> QED
          BY <3>1 DEF HonestInv, CopiesAreTheLoaded
    <2> QED
        BY <2>1, <2>2
  <1> QED
      BY <1>1, <1>2, <1>3, <1>4, <1>5 DEF HonestInv

-----------------------------------------------------------------------------
(* The first invariant holds of every behaviour.                           *)
LEMMA Inductive == Spec => []IInv
  <1>1. Init => IInv
      BY InitInv
  <1>2. IInv /\ [Next]_vars => IInv'
      BY LoaderStep, WorldStep DEF Next
  <1> QED
      BY <1>1, <1>2, PTL DEF Spec

(* The second too, where sizes tell postings apart.                        *)
LEMMA HonestInductive ==
  ASSUME SizesDiffer
  PROVE  Spec => [](IInv /\ HonestInv)
  <1>1. Init => IInv /\ HonestInv
      BY InitInv
  <1>2. IInv /\ HonestInv /\ [Next]_vars => (IInv /\ HonestInv)'
      BY LoaderStep, HonestStep, WorldStep DEF Next
  <1> QED
      BY <1>1, <1>2, PTL DEF Spec

(* Every variable keeps its type: no run or row of an absent stamp.        *)
THEOREM BatchTypeCorrect == Spec => []TypeOK
  BY Inductive, PTL DEF IInv

(* However many loaders start on one posting, and whatever is killed, one  *)
(* run of it under one concordance is recorded.                            *)
THEOREM OneRunPerVersionAlways == Spec => []OneRunPerVersion
  BY Inductive, PTL DEF IInv

(* Nobody else replaces or deletes the archive a loader works from.        *)
THEOREM ArchiveStays == Spec => []ArchiveStaysWhileUsed
  <1>1. IInv => ArchiveStaysWhileUsed
      BY DEF IInv, JobsOK, JobOK, ArchiveStaysWhileUsed, At, Parsed
  <1> QED
      BY <1>1, Inductive, PTL

(* Where two postings never have one size, the tables hold the latest      *)
(* run's rows, made from the archive whose SHA-256 the run records.        *)
THEOREM RowsAreLatestLoadAlways ==
  ASSUME SizesDiffer
  PROVE  Spec => []RowsAreLatestLoad
  BY HonestInductive, PTL DEF HonestInv

(* And a run made from our copy is of bytes an earlier load parsed.        *)
THEOREM CopiesAreTheLoadedAlways ==
  ASSUME SizesDiffer
  PROVE  Spec => []CopiesAreTheLoaded
  BY HonestInductive, PTL DEF HonestInv

(* And each side table holds one write's rows at most.                     *)
THEOREM SideTablesAlways ==
  ASSUME SizesDiffer
  PROVE  Spec => []SideTablesHoldOneWrite
  <1>1. IInv /\ HonestInv => SideTablesHoldOneWrite
    <2> SUFFICES ASSUME IInv, HonestInv PROVE SideTablesHoldOneWrite
        OBVIOUS
    <2>1. ASSUME NEW p \in Parts PROVE Cardinality(rows[p]) <= 1
      <3>1. CASE rows[p] = {}
          BY <3>1, FS_EmptySet
      <3>2. CASE rows[p] # {}
        <4>1. PICK w \in rows[p] : TRUE
            BY <3>2
        <4>2. \A v \in rows[p] : v = w
            BY DEF IInv, OneWrite
        <4>3. rows[p] = {w}
            BY <4>2
        <4>4. Cardinality({w}) = 1
            BY FS_Singleton
        <4> QED
            BY <4>3, <4>4
      <3> QED
          BY <3>1, <3>2
    <2>2. \A w \in rows["unread"] : w.bytes = w.zip
        BY DEF HonestInv, Parts
    <2> QED
        BY <2>1, <2>2 DEF SideTablesHoldOneWrite
  <1> QED
      BY <1>1, HonestInductive, PTL

=============================================================================
