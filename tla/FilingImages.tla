---------------------------- MODULE FilingImages ----------------------------
(***************************************************************************)
(* filing_images.py: the PDF images of filings, fetched from the IRS by    *)
(* a pool of workers into a local cache and an S3 object, described in a   *)
(* row of filing_images, cut again when the rule for the filer's pages     *)
(* changes, and handed to readers as a local file whose pages are rendered *)
(* once.                                                                   *)
(*                                                                         *)
(* A filing has three copies of its image that no transaction joins: the   *)
(* cached file, the object and the row's sha256.  A call writes them in    *)
(* that order, the rows in chunks at its end, and may stop in between.     *)
(* The commands (fetch, recut, a reading) are given one at a time.         *)
(*                                                                         *)
(* An image is its sha256.  Why an attempt failed is told apart as far as  *)
(* the code tells it apart: HTTP 403 ("403"), no image listed, the rest.   *)
(***************************************************************************)
EXTENDS Integers, Sequences, FiniteSets, SequencesExt

CONSTANTS
    Filings,          \* the filings of the frame a call is given
    Images,           \* the images the IRS may serve for a filing
    None,
    Workers,          \* size of the pool
    Chunk,            \* CHUNK, rows per commit
    RefusalsToStop,   \* REFUSALS_TO_STOP
    MaxAttempts,      \* MAX_ATTEMPTS
    MaxCalls,         \* bound: calls of fetch_filings
    MaxStops,         \* bound: calls cut short: killed, interrupted, or by a failed
                      \* commit
    MaxReads          \* bound: files handed to a reader

ASSUME SizesAssumption ==
    /\ IsFiniteSet(Filings) /\ None \notin Filings /\ None \notin Images
    /\ Workers \in Nat \ {0} /\ Chunk \in Nat \ {0}
    /\ RefusalsToStop \in Nat \ {0} /\ MaxAttempts \in Nat \ {0}

VARIABLES
    table,      \* [Filings -> row or None]: filing_images
    object,     \* [Filings -> image or None]: what S3 holds
    cache,      \* [Filings -> image or None]: <cache>/pdfs/
    pages,      \* [Filings -> image or None]: whose pages <cache>/pages200/
                \* holds, drawn
    rule,       \* which rule cuts the filer's pages: the code deployed
    call,       \* the fetch_filings call in progress
    recut,      \* the recut in progress: the rows it is about to write
    reader,     \* a local_pdf in progress, until the file is read
    readings,   \* [Filings -> what a reader last recorded, or None]
    tries,      \* [Filings -> Nat]: attempts really begun (history)
    refetched,  \* fetched filings ever asked for again, with --refetch (history)
    forgotten,  \* filings once asked for whose row no commit kept: a kill or a
                \* failed commit came first (history)
    used        \* [calls, stops, reads]: what the bounds count

vars == <<table, object, cache, pages, rule, call, recut, reader, readings, tries, refetched, forgotten, used>>

Rules == {1, 2}
Errors == {"", "403", "other"}
Row == [status : {"fetched", "failed", "no_teos_image"}, attempts : Nat,
        error : Errors, sha : Images \union {None}, cut : Rules \union {0}]

ASSUME RowAssumption == None \notin Row

\* A row before its first attempt (the columns the model keeps).
NewRow == [status |-> "failed", attempts |-> 0, error |-> "", sha |-> None, cut |-> 0]

IsFetched(row) == row # None /\ row.status = "fetched"

Retryable(row) ==
    \/ row = None
    \/ row.status = "failed" /\ row.attempts < MaxAttempts

Idle == [pc |-> "idle", prior |-> [f \in Filings |-> None],
         job |-> [f \in Filings |-> "out"], image |-> [f \in Filings |-> None],
         result |-> [f \in Filings |-> None], buffer |-> <<>>, streak |-> 0,
         report |-> [f \in Filings |-> "none"]]

NoReader == [f |-> None, sha |-> None, cut |-> 0, path |-> FALSE]
NoRecut == [f \in {} |-> None]

Init ==
    /\ table = [f \in Filings |-> None] /\ object = [f \in Filings |-> None]
    /\ cache = [f \in Filings |-> None] /\ pages = [f \in Filings |-> None] /\ rule = 1
    /\ call = Idle /\ recut = [on |-> FALSE, rows |-> NoRecut]
    /\ reader = NoReader /\ readings = [f \in Filings |-> None]
    /\ tries = [f \in Filings |-> 0] /\ refetched = {} /\ forgotten = {}
    /\ used = [calls |-> 0, stops |-> 0, reads |-> 0]

\* One command at a time.
Alone == call.pc = "idle" /\ ~recut.on /\ reader = NoReader

\* One more call cut short, unless it already was.
CutShort ==
    /\ call.pc = "stopping" \/ used.stops < MaxStops
    /\ used' = IF call.pc = "stopping" THEN used ELSE [used EXCEPT !.stops = @ + 1]

Jobs(states) == {f \in Filings : call.job[f] \in states}
Todo == {f \in Filings : call.job[f] # "out"}

---------------------------------------------------------------------------
(* One attempt at one filing: _fetch_one. *)

Base(f) == IF call.prior[f] = None THEN NewRow ELSE call.prior[f]

\* A row that was fetched keeps its status; attempts and error move.
Failed(f, status, error) ==
    [Base(f) EXCEPT !.attempts = @ + 1, !.error = error,
                    !.status = IF IsFetched(call.prior[f]) THEN @ ELSE status]

Described(f) ==
    [status |-> "fetched", attempts |-> Base(f).attempts + 1, error |-> "",
     sha |-> call.image[f], cut |-> rule]

Refused(row) == row.error = "403"

---------------------------------------------------------------------------
(* fetch_filings *)

\* The rows are read once, here; a filing out of the call is reported from
\* its row.  Nothing to fetch ends the call.
StartFetch(refetch) ==
    LET todo == {f \in Filings : refetch \/ Retryable(table[f])} IN
    /\ Alone /\ used.calls < MaxCalls
    /\ used' = [used EXCEPT !.calls = @ + 1]
    /\ call' = [Idle EXCEPT
          !.pc = IF todo = {} THEN "idle" ELSE "run", !.prior = table,
          !.job = [f \in Filings |-> IF f \in todo THEN "queued" ELSE "out"],
          !.report = [f \in Filings |-> IF f \in todo THEN "none" ELSE "row"]]
    /\ refetched' = refetched \union {f \in todo : IsFetched(table[f])}
    /\ UNCHANGED <<table, object, cache, pages, rule, recut, reader, readings, tries, forgotten>>

\* A worker takes a job: the request goes to the IRS.  The frame's order
\* is arbitrary, so any queued job may be the next.
Ask(f) ==
    /\ call.job[f] = "queued" /\ Cardinality(Jobs({"asked", "staged"})) < Workers
    /\ call' = [call EXCEPT !.job[f] = "asked"]
    /\ tries' = [tries EXCEPT ![f] = @ + 1]
    /\ UNCHANGED <<table, object, cache, pages, rule, recut, reader, readings, refetched, forgotten, used>>

Done(f, row) == [call EXCEPT !.job[f] = "done", !.image[f] = None, !.result[f] = row]

\* No image listed, none served, not a PDF, unreadable widths: the cache
\* and the object are not touched.
AnswerFails(f) ==
    /\ call.job[f] = "asked"
    /\ \E why \in {<<"failed", "403">>, <<"failed", "other">>, <<"no_teos_image", "other">>} :
          call' = Done(f, Failed(f, why[1], why[2]))
    /\ UNCHANGED <<table, object, cache, pages, rule, recut, reader, readings, tries, refetched, forgotten, used>>

\* The newest image served, staged, measured and renamed into the cache.
AnswerImage(f) ==
    /\ call.job[f] = "asked"
    /\ \E image \in Images :
          /\ cache' = [cache EXCEPT ![f] = image]
          /\ call' = [call EXCEPT !.job[f] = "staged", !.image[f] = image]
    /\ UNCHANGED <<table, object, pages, rule, recut, reader, readings, tries, refetched, forgotten, used>>

Upload(f) ==
    /\ call.job[f] = "staged"
    /\ object' = [object EXCEPT ![f] = call.image[f]]
    /\ call' = Done(f, Described(f))
    /\ UNCHANGED <<table, cache, pages, rule, recut, reader, readings, tries, refetched, forgotten, used>>

UploadFails(f) ==
    /\ call.job[f] = "staged"
    /\ call' = Done(f, Failed(f, "failed", "other"))
    /\ UNCHANGED <<table, object, cache, pages, rule, recut, reader, readings, tries, refetched, forgotten, used>>

\* An upsert of whole rows, keyed by filing.
Upserted(rows) ==
    [f \in Filings |-> IF \E i \in DOMAIN rows : rows[i].f = f
                       THEN (CHOOSE r \in Range(rows) : r.f = f).row ELSE table[f]]

\* Jobs not yet started are cancelled; the others are waited for.
Cancelled(pc) ==
    [call EXCEPT !.pc = pc, !.job = [f \in Filings |-> IF @[f] = "queued" THEN "cancelled" ELSE @[f]]]

\* The loop takes a finished job: a full buffer is committed, and a row
\* that ends a streak of refusals closes the loop.
Collect(f) ==
    LET row == call.result[f]
        buffer == Append(call.buffer, [f |-> f, row |-> row])
        streak == IF Refused(row) THEN call.streak + 1 ELSE 0
        full == Len(buffer) >= Chunk
        next == IF streak >= RefusalsToStop THEN Cancelled("closing") ELSE call
    IN
    /\ call.pc = "run" /\ call.job[f] = "done"
    /\ table' = IF full THEN Upserted(buffer) ELSE table
    /\ call' = [next EXCEPT !.job[f] = "collected", !.result[f] = None,
                            !.buffer = IF full THEN <<>> ELSE buffer,
                            !.streak = streak, !.report[f] = "row"]
    /\ UNCHANGED <<object, cache, pages, rule, recut, reader, readings, tries, refetched, forgotten, used>>

\* Of the filings whose rows a commit was given, those it forgets when it
\* failed and did not land all the same.
Lost(rows, landed) == IF landed THEN {} ELSE {rows[i].f : i \in DOMAIN rows}

\* The commit of a full buffer raises, by an error or Ctrl-C in it, landed
\* or not.  The buffer was emptied before: its rows are not tried again.
\* The loop stops as at Ctrl-C, the row not handed on.
CollectFails(f) ==
    LET buffer == Append(call.buffer, [f |-> f, row |-> call.result[f]]) IN
    /\ call.pc = "run" /\ call.job[f] = "done" /\ Len(buffer) >= Chunk /\ CutShort
    /\ \E landed \in BOOLEAN :
          /\ table' = IF landed THEN Upserted(buffer) ELSE table
          /\ forgotten' = forgotten \union Lost(buffer, landed)
    /\ call' = [Cancelled("stopping") EXCEPT !.job[f] = "collected", !.result[f] = None,
                                             !.buffer = <<>>]
    /\ UNCHANGED <<object, cache, pages, rule, recut, reader, readings, tries, refetched>>

\* A call returns: what it reported stays, and of its locals what a
\* property compares, the filings it cancelled and their rows as it found
\* them.
Over(report) ==
    [Idle EXCEPT !.report = report,
                 !.job = [f \in Filings |-> IF call.job[f] = "cancelled" THEN "cancelled" ELSE "out"],
                 !.prior = [f \in Filings |-> IF call.job[f] = "cancelled" THEN call.prior[f] ELSE None]]

AllCollected == call.pc = "run" /\ \A f \in Todo : call.job[f] = "collected"

Finish ==
    /\ AllCollected
    /\ table' = Upserted(call.buffer)
    /\ call' = Over(call.report)
    /\ UNCHANGED <<object, cache, pages, rule, recut, reader, readings, tries, refetched, forgotten, used>>

\* Ctrl-C lands in the wait for a future.
Interrupt ==
    /\ call.pc = "run" /\ CutShort
    /\ call' = Cancelled("stopping")
    /\ UNCHANGED <<table, object, cache, pages, rule, recut, reader, readings, tries, refetched, forgotten>>

\* The rows of the jobs in flight thrown away: a mutation.
InFlightDropped == {f \in Filings : FALSE}

InFlight == {f \in Filings : call.job[f] = "done"}

\* The rows still to be committed: the buffer, and what the jobs in flight
\* returned.
Held == call.buffer \o [i \in 1..Cardinality(InFlight) |->
            LET f == SetToSeq(InFlight)[i] IN [f |-> f, row |-> call.result[f]]]

\* The jobs in flight are over.
Drained == call.pc \in {"closing", "stopping"} /\ Jobs({"asked", "staged"}) = {}

Drain ==
    /\ Drained
    /\ table' = Upserted(Held)
    /\ call' = IF call.pc = "stopping" THEN Idle
               ELSE [call EXCEPT !.pc = "closed", !.buffer = <<>>,
                                 !.result = [f \in Filings |-> None]]
    /\ UNCHANGED <<object, cache, pages, rule, recut, reader, readings, tries, refetched, forgotten, used>>

\* The last commit of a call raises, landed or not, and the call with it:
\* no report.
LastCommitFails ==
    /\ AllCollected \/ Drained
    /\ Held # <<>> /\ CutShort
    /\ \E landed \in BOOLEAN :
          /\ table' = IF landed THEN Upserted(Held) ELSE table
          /\ forgotten' = forgotten \union Lost(Held, landed)
    /\ call' = Idle
    /\ UNCHANGED <<object, cache, pages, rule, recut, reader, readings, tries, refetched>>

\* The row moved since the call read it, so this call tried it.
Tried(f) ==
    /\ table[f] # None
    /\ call.prior[f] = None \/ table[f].attempts > call.prior[f].attempts

\* After a refusal, what became of the filings the loop did not reach.
Report ==
    /\ call.pc = "closed"
    /\ call' = Over([f \in Filings |->
          IF call.report[f] # "none" THEN call.report[f]
          ELSE IF Tried(f) THEN "row" ELSE "unfetched:teos_refused"])
    /\ UNCHANGED <<table, object, cache, pages, rule, recut, reader, readings, tries, refetched, forgotten, used>>

\* The process is killed: files and objects written stay, rows buffered and
\* attempts under way go.
Crash ==
    /\ call.pc # "idle" /\ CutShort
    /\ call' = Idle
    /\ forgotten' = forgotten \union Lost(call.buffer, FALSE)
          \union IF call.pc = "closed" THEN {} ELSE Jobs({"asked", "staged", "done"})
    /\ UNCHANGED <<table, object, cache, pages, rule, recut, reader, readings, tries, refetched>>

---------------------------------------------------------------------------
(* local_pdf and materialise *)

ReadRow(f) ==
    /\ Alone /\ used.reads < MaxReads /\ IsFetched(table[f])
    /\ reader' = [f |-> f, sha |-> table[f].sha, cut |-> table[f].cut, path |-> FALSE]
    /\ used' = [used EXCEPT !.reads = @ + 1]
    /\ UNCHANGED <<table, object, cache, pages, rule, call, recut, readings, tries, refetched, forgotten>>

\* The cached file trusted because it is there: a mutation.
CachedExists(f, sha) == cache[f] # None

\* The cached file serves when it hashes to the row's sha256.
CachedServes(f, sha) == cache[f] = sha

FromCache ==
    /\ reader # NoReader /\ ~reader.path /\ CachedServes(reader.f, reader.sha)
    /\ reader' = [reader EXCEPT !.path = TRUE]
    /\ UNCHANGED <<table, object, cache, pages, rule, call, recut, readings, tries, refetched, forgotten, used>>

\* Downloaded, verified, renamed into the cache; or refused.
FromObject ==
    /\ reader # NoReader /\ ~reader.path /\ ~CachedServes(reader.f, reader.sha)
    /\ IF object[reader.f] = reader.sha
       THEN /\ cache' = [cache EXCEPT ![reader.f] = reader.sha]
            /\ reader' = [reader EXCEPT !.path = TRUE]
       ELSE cache' = cache /\ reader' = NoReader
    /\ UNCHANGED <<table, object, pages, rule, call, recut, readings, tries, refetched, forgotten, used>>

\* render draws the pages no PNG is there for, out of the file; the reader
\* is shown the PNGs and records what it reads under the row's sha256
\* (page_readings).
UseFile ==
    /\ reader.path
    /\ pages' = [pages EXCEPT ![reader.f] = IF @ = None THEN cache[reader.f] ELSE @]
    /\ readings' = [readings EXCEPT ![reader.f] =
          [sha |-> reader.sha, bytes |-> pages'[reader.f], cut |-> reader.cut]]
    /\ reader' = NoReader
    /\ UNCHANGED <<table, object, cache, rule, call, recut, tries, refetched, forgotten, used>>

---------------------------------------------------------------------------
(* recut *)

\* A deployment with another rule for the filer's pages, between commands
\* and once a filing is cut (before, one rule is as good as the other).
Deploy ==
    /\ rule = 1 /\ Alone
    /\ \E f \in Filings : IsFetched(table[f])
    /\ rule' = 2
    /\ UNCHANGED <<table, object, cache, call, recut, reader, readings, tries, refetched, forgotten, used, pages>>

\* The filings with readings cut again too: a mutation.
CutDiffersForAll(f) == IsFetched(table[f]) /\ table[f].cut # rule

\* The rows the rule cuts differently and nobody has read.
CutDiffers(f) == IsFetched(table[f]) /\ table[f].cut # rule /\ readings[f] = None

RecutRead ==
    LET changed == {f \in Filings : CutDiffers(f)} IN
    /\ Alone /\ changed # {}
    /\ recut' = [on |-> TRUE, rows |-> [f \in changed |-> [table[f] EXCEPT !.cut = rule]]]
    /\ UNCHANGED <<table, object, cache, pages, rule, call, reader, readings, tries, refetched, forgotten, used>>

\* Whole rows, as they were read.
RecutWrite ==
    /\ recut.on
    /\ table' = [f \in Filings |-> IF f \in DOMAIN recut.rows THEN recut.rows[f] ELSE table[f]]
    /\ recut' = [on |-> FALSE, rows |-> NoRecut]
    /\ UNCHANGED <<object, cache, pages, rule, call, reader, readings, tries, refetched, forgotten, used>>

---------------------------------------------------------------------------

Next ==
    \/ \E refetch \in BOOLEAN : StartFetch(refetch)
    \/ \E f \in Filings : \/ Ask(f) \/ AnswerFails(f) \/ AnswerImage(f)
                          \/ Upload(f) \/ UploadFails(f) \/ Collect(f) \/ CollectFails(f) \/ ReadRow(f)
    \/ Finish \/ Interrupt \/ Drain \/ LastCommitFails \/ Report \/ Crash
    \/ FromCache \/ FromObject \/ UseFile
    \/ Deploy \/ RecutRead \/ RecutWrite

Spec == Init /\ [][Next]_vars

---------------------------------------------------------------------------
(* Properties *)

\* Types; and a row has the image it describes exactly when it is fetched.
TypeOK ==
    /\ \A f \in Filings : table[f] # None =>
          /\ table[f] \in Row
          /\ (table[f].sha # None) = (table[f].status = "fetched")
    /\ object \in [Filings -> Images \union {None}]
    /\ cache \in [Filings -> Images \union {None}]
    /\ rule \in Rules /\ refetched \subseteq Filings /\ forgotten \subseteq Filings
    /\ tries \in [Filings -> Nat]
    /\ call.pc \in {"idle", "run", "closing", "stopping", "closed"}

\* The file a reader is handed has the bytes of the sha256 it records under,
\* whatever was killed between the cached file, the object and the row
\* (materialise).
UsedBytesAreRows == reader.path => cache[reader.f] = reader.sha

\* A call the IRS refused reports a filing as unfetched exactly when it
\* never asked for it: its row is the one the call found, its attempts
\* uncharged, and enough rows of the call record a refusal (fetch_filings).
UnfetchedMeansUntried ==
    call.pc = "idle" =>
      \A f \in Filings :
        /\ call.report[f] = "unfetched:teos_refused" =>
             /\ call.job[f] = "cancelled"
             /\ table[f] = call.prior[f] \/ (IsFetched(table[f]) /\ IsFetched(call.prior[f]))
             /\ Cardinality({g \in Filings : table[g] # None /\ Refused(table[g])}) >= RefusalsToStop
        /\ call.report[f] = "row" => call.job[f] # "cancelled"

\* Between calls a filing was charged the attempts that were made, however
\* the calls ended and whatever was cancelled, refused or interrupted: but
\* for the filings whose row was in a commit that failed, or in a process
\* killed, and of these attempts are only ever forgotten, never invented.
AttemptsAreTries ==
    \A f \in Filings :
      LET charged == IF table[f] = None THEN 0 ELSE table[f].attempts IN
      /\ charged <= tries[f]
      /\ call.pc = "idle" /\ f \notin forgotten => charged = tries[f]

\* An object differs from its row only where a refetch overwrote it: plain
\* calls, kills and recuts never make a fetched filing unreadable (verify).
MismatchNeedsRefetch ==
    \A f \in Filings : IsFetched(table[f]) /\ object[f] # table[f].sha => f \in refetched

\* The bytes in use are those a row describes: handed to a reader always,
\* and in the bucket but for a refetch.
BytesAreRows == UsedBytesAreRows /\ MismatchNeedsRefetch

\* What is charged and reported of a filing is what was tried of it.
TriesAreTold == UnfetchedMeansUntried /\ AttemptsAreTries

\* The pages a reading was made of are the ones its row marks, whatever
\* rules were deployed, unless the filing was refetched (recut).
ReadPagesAreCut ==
    \A f \in Filings \ refetched : readings[f] # None => readings[f].cut = table[f].cut

\* "Readings are keyed on the image hash, so a re-fetched PDF never inherits
\* readings of a different image" (docs/placeholder_recovery_operations.md):
\* a reading under a sha256 is of the image with that sha256.
ReadingsAreOfTheirImage ==
    \A f \in Filings : readings[f] # None => readings[f].bytes = readings[f].sha
=============================================================================
