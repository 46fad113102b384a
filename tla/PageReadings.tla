---------------------------- MODULE PageReadings ----------------------------
(***************************************************************************)
(* read_pages (page_readings.py) and the collector it drives               *)
(* (_internal/bulk.py, upsert_as_done): look the pages up once, read the   *)
(* missing ones in a pool of workers, and commit what comes back a chunk   *)
(* at a time from the main thread, under a circuit breaker on the run's    *)
(* first results.  A run can be interrupted, fail to write, or die; the    *)
(* next one starts from the table.  Renders, S3 and the gateway are their  *)
(* outcomes: a page is answered, or errors, or its worker raises.          *)
(***************************************************************************)
EXTENDS Naturals, FiniteSets

CONSTANTS
  Pages,           \* the pages asked for, of one model
  Filings,         \* the filings they belong to
  FilingOf,        \* [Pages -> Filings]
  Answers,         \* what the model can return
  None,            \* SQL NULL
  Procs,           \* processes running read_pages
  Overlap,         \* BOOLEAN: two calls on these pages may be live at once
  Workers,         \* threads in a read pool
  Chunk,           \* CHUNK
  MaxErrors,       \* max_errors
  BreakerRows,     \* BREAKER_ROWS
  BreakerFilings,  \* BREAKER_FILINGS
  MaxReads         \* bound: read_pages calls in a behaviour

ASSUME PagesAssumption ==
  /\ FilingOf \in [Pages -> Filings]
  /\ IsFiniteSet(Pages)
  /\ MaxErrors \in Nat \ {0} /\ None \notin Answers
  /\ Workers \in Nat /\ Chunk \in Nat \ {0} /\ MaxReads \in Nat
  /\ BreakerRows \in Nat \ {0} /\ BreakerFilings \in Nat \ {0}
  /\ Overlap \in BOOLEAN

VARIABLES
  table,     \* page_readings
  proc,      \* the read_pages call of each process
  improved,  \* today's parser reads the stored parse failures
  reads      \* read_pages calls begun

vars == <<table, proc, improved, reads>>

Store == INSTANCE Readings WITH Keys <- Pages

-----------------------------------------------------------------------------
(* A job's state: its future is queued, running, cancelled, or holds what  *)
(* the worker returned or raised.                                          *)
Outcomes == [kind : {"row"}, row : Store!Rows] \cup {[kind |-> "raised"], [kind |-> "dropped"]}
NoJob == [kind |-> "none"]
Queued == [kind |-> "queued"]
Running == [kind |-> "running"]
Cancelled == [kind |-> "cancelled"]
Raised == [kind |-> "raised"]
Dropped == [kind |-> "dropped"]
Jobs == Outcomes \cup {NoJob, Queued, Running, Cancelled}

(* seen: the rows the lookup found.  taken: the futures collected.         *)
(* buffer: the pages whose rows are held.  deciding: the breaker has not   *)
(* released the run.  end: how the call ended.                             *)
NoCall == [step |-> "idle", buy |-> TRUE, parser |-> FALSE, seen |-> [p \in Pages |-> Store!NoRow],
           jobs |-> [p \in Pages |-> NoJob], taken |-> {}, buffer |-> {}, deciding |-> TRUE,
           end |-> "none"]

Live(q) == proc[q].step \in {"lookup", "read", "stop"}

Init ==
  /\ table = [p \in Pages |-> Store!NoRow]
  /\ proc = [q \in Procs |-> NoCall]
  /\ improved = FALSE
  /\ reads = 0

Finished(job) == job.kind \in {"row", "raised", "dropped"}
InFlight(s) == {p \in Pages : s.jobs[p].kind = "running"}
Uncollected(s) ==
  {p \in Pages : s.jobs[p].kind \in {"queued", "running", "row", "raised", "dropped"}} \ s.taken

(* store.upsert: the rows of S as their workers made them, over whatever   *)
(* the table holds (ON CONFLICT DO UPDATE every column).                   *)
Write(s, S) == table' = [p \in Pages |-> IF p \in S THEN s.jobs[p].row ELSE table[p]]

-----------------------------------------------------------------------------
(* A call begins: the pages' rows are looked up in one query.  buy is      *)
(* false for a stored-only pass.  Nothing keeps two calls on the same      *)
(* pages apart; in practice runs follow each other, a run's base readers   *)
(* are of two models, and an interrupted run waits for them.               *)
Lookup(q, buy) ==
  /\ ~Live(q)
  /\ Overlap \/ \A r \in Procs : ~Live(r)
  /\ reads < MaxReads
  /\ reads' = reads + 1
  /\ proc' = [proc EXCEPT ![q] = [NoCall EXCEPT !.step = "lookup", !.buy = buy,
                                                !.parser = improved, !.seen = table]]
  /\ UNCHANGED <<table, improved>>

(* The lookup sorted: a hit, a parse failure today's parser reads, a page  *)
(* out of attempts, or a miss.                                             *)
Hits(s) == {p \in Pages : Store!Hit(s.seen[p])}
Reparses(s) == {p \in Pages : s.parser /\ Store!Reparsable(s.seen[p])}
Skipped(s) == {p \in Pages : Store!OutOfAttempts(s.seen[p])} \ Reparses(s)

Misses(s) == Pages \ (Hits(s) \cup Reparses(s) \cup Skipped(s))

(* The reparsed rows are stored; then the call returns (no miss), raises   *)
(* MissingReadings (it may not buy) or submits its misses to the pool.     *)
Submit(q) ==
  LET s == proc[q] IN
  /\ s.step = "lookup"
  /\ table' = [p \in Pages |-> IF p \in Reparses(s) THEN Store!Reparsed(s.seen[p]) ELSE table[p]]
  /\ proc' = [proc EXCEPT ![q] =
       IF Misses(s) = {} THEN [s EXCEPT !.step = "idle", !.end = "returned"]
       ELSE IF ~s.buy THEN [s EXCEPT !.step = "idle", !.end = "missing"]
       ELSE [s EXCEPT !.step = "read",
                      !.jobs = [p \in Pages |-> IF p \in Misses(s) THEN Queued ELSE NoJob]]]
  /\ UNCHANGED <<improved, reads>>

-----------------------------------------------------------------------------
(* The workers.                                                            *)
JobStart(q, p) ==
  LET s == proc[q] IN
  /\ s.step = "read"
  /\ s.jobs[p] = Queued
  /\ Cardinality(InFlight(s)) < Workers
  /\ proc' = [proc EXCEPT ![q].jobs[p] = Running]
  /\ UNCHANGED <<table, improved, reads>>

(* Mutant of RowsFrom: the row found by the lookup is not handed on.       *)
RowsFromFresh(s, p) ==
  {Store!Answered(Store!NoRow, a) : a \in Answers} \cup {Store!Errored(Store!NoRow, None)}

(* _read_one's rows, from the row the lookup found: an answer, an error    *)
(* (of the render, the gateway or the page), or a parse failure with its   *)
(* text, one the parser of this process cannot read.                       *)
RowsFrom(s, p) ==
  {Store!Answered(s.seen[p], a) : a \in Answers}
    \cup {Store!Errored(s.seen[p], t) : t \in {None} \cup (IF s.parser THEN {} ELSE Answers)}

(* A worker returns its row, raises, or, once the renders still queued are *)
(* cancelled on the way out, fails under the read waiting for one.         *)
JobEnd(q, p) ==
  LET s == proc[q] IN
  /\ s.step \in {"read", "stop"}
  /\ s.jobs[p] = Running
  /\ \E job \in {[kind |-> "row", row |-> r] : r \in RowsFrom(s, p)} \cup {Raised}
               \cup (IF s.step = "stop" THEN {Dropped} ELSE {}) :
       proc' = [proc EXCEPT ![q].jobs[p] = job]
  /\ UNCHANGED <<table, improved, reads>>

-----------------------------------------------------------------------------
(* upsert_as_done, on the main thread.                                     *)
AnyAnswered(s, held) == \E p \in held : Store!Hit(s.jobs[p].row)

(* _systemic: these first results are all errors, from too many filings    *)
(* to be the pages' own.                                                   *)
Systemic(s, held) ==
  /\ ~AnyAnswered(s, held)
  /\ Cardinality(held) >= BreakerRows
  /\ Cardinality({FilingOf[p] : p \in held}) >= BreakerFilings

Stopping(s, end) ==
  [s EXCEPT !.step = "stop", !.end = end,
            !.jobs = [p \in Pages |-> IF s.jobs[p] = Queued THEN Cancelled ELSE s.jobs[p]]]

(* A worker's exception is kept for the end.                               *)
CollectRaised(q, p) ==
  LET s == proc[q] IN
  /\ s.step = "read"
  /\ p \in Uncollected(s) /\ s.jobs[p] = Raised
  /\ proc' = [proc EXCEPT ![q].taken = @ \cup {p}]
  /\ UNCHANGED <<table, improved, reads>>

Deciding(s, held) == s.deciding /\ ~AnyAnswered(s, held)
Full(s, held) == ~Deciding(s, held) /\ Cardinality(held) >= Chunk

(* A row is held; when the breaker has released the run and a chunk is     *)
(* full, the chunk is committed.                                           *)
CollectRow(q, p) ==
  LET s == proc[q]
      held == s.buffer \cup {p}
      full == Full(s, held) IN
  /\ s.step = "read"
  /\ p \in Uncollected(s) /\ s.jobs[p].kind = "row"
  /\ ~(s.deciding /\ Systemic(s, held))
  /\ IF full THEN Write(s, held) ELSE table' = table
  /\ proc' = [proc EXCEPT ![q] = [s EXCEPT !.taken = @ \cup {p}, !.deciding = Deciding(s, held),
                                           !.buffer = IF full THEN {} ELSE held]]
  /\ UNCHANGED <<improved, reads>>

(* The breaker trips on it: SystemicFailure.                               *)
CollectTrip(q, p) ==
  LET s == proc[q]
      held == s.buffer \cup {p} IN
  /\ s.step = "read"
  /\ p \in Uncollected(s) /\ s.jobs[p].kind = "row"
  /\ s.deciding /\ Systemic(s, held)
  /\ proc' = [proc EXCEPT ![q] = Stopping([s EXCEPT !.taken = @ \cup {p}, !.buffer = held],
                                          "tripped")]
  /\ UNCHANGED <<table, improved, reads>>

(* The chunk's commit fails: its rows are no longer held.                  *)
CollectUnwritten(q, p) ==
  LET s == proc[q] IN
  /\ s.step = "read"
  /\ p \in Uncollected(s) /\ s.jobs[p].kind = "row"
  /\ Full(s, s.buffer \cup {p})
  /\ proc' = [proc EXCEPT ![q] = Stopping([s EXCEPT !.taken = @ \cup {p}, !.buffer = {}],
                                          "unwritten")]
  /\ UNCHANGED <<table, improved, reads>>

(* Ctrl-C in the wait.                                                     *)
Interrupt(q) ==
  /\ proc[q].step = "read"
  /\ proc' = [proc EXCEPT ![q] = Stopping(@, "interrupted")]
  /\ UNCHANGED <<table, improved, reads>>

(* Mutant of Drain: what the jobs in flight return is dropped.             *)
DrainDropped(q, p) ==
  /\ proc[q].step = "stop"
  /\ p \in Uncollected(proc[q]) /\ Finished(proc[q].jobs[p])
  /\ proc' = [proc EXCEPT ![q].taken = @ \cup {p}]
  /\ UNCHANGED <<table, improved, reads>>

(* On the way out the jobs in flight are waited for and held as well,      *)
(* unless the breaker tripped.                                             *)
Drain(q, p) ==
  LET s == proc[q] IN
  /\ s.step = "stop"
  /\ p \in Uncollected(s) /\ Finished(s.jobs[p])
  /\ proc' = [proc EXCEPT ![q] =
       [s EXCEPT !.taken = @ \cup {p},
                 !.buffer = IF s.jobs[p].kind = "row" /\ s.end # "tripped" THEN @ \cup {p} ELSE @]]
  /\ UNCHANGED <<table, improved, reads>>

(* How a call that reached the end of its loop, or stopped, ends.          *)
EndOf(s) ==
  IF s.step = "stop" THEN s.end
  ELSE IF \E p \in Pages : s.jobs[p] = Raised THEN "raised" ELSE "returned"

(* Mutants of Held: the breaker's trip does not clear what is held; rows   *)
(* held while the breaker decides are not written at the end.              *)
HeldAnyway(s) == s.buffer
HeldOnceReleased(s) == IF s.deciding THEN {} ELSE s.buffer

Held(s) == IF s.end = "tripped" THEN {} ELSE s.buffer

(* Every future is in: what is held is committed and the call ends.        *)
Flush(q) ==
  LET s == proc[q] IN
  /\ s.step \in {"read", "stop"}
  /\ Uncollected(s) = {}
  /\ Write(s, Held(s))
  /\ proc' = [proc EXCEPT ![q] = [s EXCEPT !.step = "idle", !.end = EndOf(s), !.buffer = {}]]
  /\ UNCHANGED <<improved, reads>>

(* That commit fails.                                                      *)
FlushUnwritten(q) ==
  LET s == proc[q] IN
  /\ s.step \in {"read", "stop"}
  /\ Uncollected(s) = {}
  /\ Held(s) # {}
  /\ proc' = [proc EXCEPT ![q] = [s EXCEPT !.step = "idle", !.end = "unwritten", !.buffer = {}]]
  /\ UNCHANGED <<table, improved, reads>>

(* The process is killed, or stopped a second time while it drains.        *)
Crash(q) ==
  /\ Live(q)
  /\ proc' = [proc EXCEPT ![q] = [@ EXCEPT !.step = "idle", !.end = "dead", !.buffer = {}]]
  /\ UNCHANGED <<table, improved, reads>>

(* A parser that reads the stored parse failures is deployed.              *)
ImproveParser ==
  /\ ~improved
  /\ improved' = TRUE
  /\ UNCHANGED <<table, proc, reads>>

ReadPages(q) ==
  \/ \E buy \in BOOLEAN : Lookup(q, buy)
  \/ Submit(q)
  \/ \E p \in Pages :
       \/ JobStart(q, p)
       \/ JobEnd(q, p)
       \/ CollectRaised(q, p)
       \/ CollectRow(q, p)
       \/ CollectTrip(q, p)
       \/ CollectUnwritten(q, p)
       \/ Drain(q, p)
  \/ Interrupt(q)
  \/ Flush(q)
  \/ FlushUnwritten(q)
  \/ Crash(q)

Next == (\E q \in Procs : ReadPages(q)) \/ ImproveParser

Spec == Init /\ [][Next]_vars

-----------------------------------------------------------------------------
Ends == {"none", "returned", "raised", "missing", "tripped", "interrupted", "unwritten", "dead"}

CallOK(s) ==
  /\ s.step \in {"idle", "lookup", "read", "stop"} /\ s.end \in Ends
  /\ s.buy \in BOOLEAN /\ s.parser \in BOOLEAN /\ s.deciding \in BOOLEAN
  /\ s.seen \in [Pages -> Store!Rows]
  /\ \A p \in Pages : s.jobs[p] \in Jobs
  /\ s.taken \subseteq Pages /\ s.buffer \subseteq s.taken

TypeOK ==
  /\ table \in [Pages -> Store!Rows]
  /\ DOMAIN proc = Procs /\ \A q \in Procs : CallOK(proc[q])
  /\ improved \in BOOLEAN
  /\ reads \in 0 .. MaxReads

(* The table behaves as Readings promises: a reading stays, a page out of  *)
(* attempts is not read, an error costs one attempt, through chunks,       *)
(* stops, lost commits, crashes and restarts.                              *)
KeepsReadings == Store!Spec

(* A worker is at work only on a page without a reading and with attempts  *)
(* left, whatever was committed since the lookup: nothing is bought twice. *)
BuysOnlyMissing ==
  \A q \in Procs, p \in Pages :
    proc[q].jobs[p].kind = "running" /\ Live(q) =>
      ~Store!Hit(table[p]) /\ table[p].errors < MaxErrors

(* An answer paid for is in the table when the call is over, however it    *)
(* ended short of a crash or a failed commit: read to the end, a worker's  *)
(* exception, an interrupt (upsert_as_done's docstring: a resume does not  *)
(* buy them again).                                                        *)
PaidAnswersRecorded ==
  \A q \in Procs, p \in Pages :
    /\ proc[q].step = "idle" /\ proc[q].end \in {"returned", "raised", "interrupted"}
    /\ proc[q].jobs[p].kind = "row" /\ Store!Hit(proc[q].jobs[p].row)
    => Store!Hit(table[p])

(* A run the breaker stops costs no page an attempt (_systemic).           *)
TripCostsNothing ==
  \A q \in Procs : proc[q].step = "idle" /\ proc[q].end = "tripped" =>
    \A p \in Misses(proc[q]) : table[p] = proc[q].seen[p]

(* What a call that returns reports is what the table holds: each page is  *)
(* in exactly one of responses, skipped and failed (ReadResult), and agree *)
(* takes a page in failed to be short of max_errors or newly at it.        *)
Responses(s) == Hits(s) \cup Reparses(s)
                  \cup {p \in Pages : s.jobs[p].kind = "row" /\ Store!Hit(s.jobs[p].row)}
Failed(s) == {p \in Pages : s.jobs[p].kind = "row" /\ ~Store!Hit(s.jobs[p].row)}

ReportIsTable ==
  \A q \in Procs : LET s == proc[q] IN
    s.step = "idle" /\ s.end = "returned" =>
      /\ \A p \in Pages : Store!Hit(table[p]) <=> p \in Responses(s)
      /\ \A p \in Failed(s) : p \notin Skipped(s) /\ table[p].errors = s.seen[p].errors + 1
      /\ Pages = Responses(s) \cup Skipped(s) \cup Failed(s)

(* Money buys readings: a page is sent to a model only to get one it has   *)
(* not, and what was paid for is on the table.                             *)
MoneyBuysReadings == BuysOnlyMissing /\ PaidAnswersRecorded
=============================================================================
