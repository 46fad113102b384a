-------------------------- MODULE PageReadingsProofs --------------------------
(***************************************************************************)
(* Proofs about PageReadings, for any pages, answers, pool, chunk and      *)
(* breaker: its types; and, when no two calls on the same pages are live   *)
(* at once, that the table behaves as Readings promises, that money buys   *)
(* readings, that a tripped run costs no page an attempt, and that what a  *)
(* call reports is the table.                                              *)
(***************************************************************************)
EXTENDS PageReadings, TLAPS

Steps == {"idle", "lookup", "read", "stop"}

(* A call as a record: the typing that its updates need.                   *)
Calls == [step : Steps, buy : BOOLEAN, parser : BOOLEAN, seen : [Pages -> Store!Rows],
          jobs : [Pages -> Jobs], taken : SUBSET Pages, buffer : SUBSET Pages,
          deciding : BOOLEAN, end : Ends]

(* What a call's own fields have to do with one another.                   *)
CallInv(s) ==
  /\ s.step = "lookup" => s.jobs = [p \in Pages |-> NoJob] /\ s.taken = {} /\ s.buffer = {}
  /\ s.step \in {"lookup", "read"} => s.end = "none"
  /\ s.step = "stop" => s.end \in {"tripped", "unwritten", "interrupted"}
  /\ s.step = "read" =>
       \A p \in Misses(s) : s.jobs[p].kind \in {"queued", "running", "row", "raised"}
  /\ s.buffer \subseteq s.taken
  /\ \A p \in Pages : s.jobs[p] # NoJob => p \in Misses(s)
  /\ \A p \in Pages : s.jobs[p].kind = "row" => s.jobs[p].row \in RowsFrom(s, p)
  /\ \A p \in s.buffer : s.jobs[p].kind = "row"
  /\ \A p \in s.taken : Finished(s.jobs[p])

TypeInv ==
  /\ table \in [Pages -> Store!Rows]
  /\ proc \in [Procs -> Calls]
  /\ improved \in BOOLEAN
  /\ reads \in 0 .. MaxReads
  /\ \A q \in Procs : CallInv(proc[q])

(* What the table holds of the pages of a live call: of a page that is not *)
(* bought what the lookup made of it, of a page bought what the lookup     *)
(* found until its row is committed, and its row from then on.             *)
Unbought(s, p) == IF p \in Reparses(s) THEN Store!Reparsed(s.seen[p]) ELSE s.seen[p]
Kept(s) == s.end \notin {"tripped", "unwritten"}

TableInv(s) ==
  /\ s.step = "lookup" => table = s.seen
  /\ s.step \in {"read", "stop"} =>
       \A p \in Pages :
         /\ p \notin Misses(s) => table[p] = Unbought(s, p)
         /\ p \in Misses(s) \ (s.taken \ s.buffer) => table[p] = s.seen[p]
         /\ p \in s.taken \ s.buffer /\ s.jobs[p].kind = "row" /\ Kept(s)
              => table[p] = s.jobs[p].row
  /\ (s.step = "read" /\ s.deciding) \/ (s.step = "stop" /\ s.end = "tripped") =>
       \A p \in Misses(s) : table[p] = s.seen[p]

Alone == ~Overlap \/ \A q, r \in Procs : q = r

LiveInv ==
  /\ \A q, r \in Procs : Live(q) /\ Live(r) => q = r
  /\ \A q \in Procs : Live(q) => TableInv(proc[q])

IInv == TypeInv /\ LiveInv /\ PaidAnswersRecorded

-----------------------------------------------------------------------------
(* The initial state.                                                      *)
LEMMA NoRowType == Store!NoRow \in Store!Rows
  BY PagesAssumption DEF Store!NoRow, Store!Rows

(* No call is a call, and one that meets what calls meet.                  *)
LEMMA NoCallType == NoCall \in Calls /\ CallInv(NoCall)
  <1>1. NoJob \in Jobs /\ NoJob.kind = "none"
      BY DEF Jobs, NoJob
  <1>2. [p \in Pages |-> NoJob] \in [Pages -> Jobs]
      BY <1>1
  <1>3. [p \in Pages |-> Store!NoRow] \in [Pages -> Store!Rows]
      BY NoRowType
  <1>4. NoCall \in Calls
      BY <1>2, <1>3 DEF Calls, Steps, Ends, NoCall
  <1>5. /\ NoCall.step = "idle" /\ NoCall.taken = {} /\ NoCall.buffer = {}
        /\ NoCall.jobs = [p \in Pages |-> NoJob]
      BY DEF NoCall
  <1> QED
      BY <1>1, <1>4, <1>5 DEF CallInv

(* The first state is well typed.                                          *)
LEMMA InitTypes == Init => TypeInv
  <1> SUFFICES ASSUME Init PROVE TypeInv
      OBVIOUS
  <1>1. [p \in Pages |-> Store!NoRow] \in [Pages -> Store!Rows]
      BY NoRowType
  <1>2. table \in [Pages -> Store!Rows] /\ improved \in BOOLEAN
      BY <1>1 DEF Init
  <1>4. reads \in 0 .. MaxReads
      BY PagesAssumption DEF Init
  <1>3. proc \in [Procs -> Calls] /\ \A q \in Procs : CallInv(proc[q])
      BY NoCallType DEF Init
  <1> QED
      BY <1>2, <1>3, <1>4 DEF TypeInv

-----------------------------------------------------------------------------
(* A job's kind says what it is.                                           *)
LEMMA JobKinds ==
  ASSUME NEW job \in Jobs
  PROVE  /\ job.kind \in {"row", "raised", "dropped", "none", "queued", "running", "cancelled"}
         /\ job.kind = "row" => job.row \in Store!Rows
         /\ job = NoJob <=> job.kind = "none"
         /\ job = Queued <=> job.kind = "queued"
         /\ job = Running <=> job.kind = "running"
         /\ job = Raised <=> job.kind = "raised"
  BY DEF Jobs, Outcomes, NoJob, Queued, Running, Cancelled, Raised, Dropped

(* The rows a worker can return for a page without a reading and with      *)
(* attempts left.                                                          *)
LEMMA RowsFromTyped ==
  ASSUME NEW s \in Calls, NEW p \in Misses(s)
  PROVE  /\ p \in Pages
         /\ ~Store!Hit(s.seen[p]) /\ s.seen[p].errors < MaxErrors
         /\ ~Store!OutOfAttempts(s.seen[p])
         /\ RowsFrom(s, p) \subseteq Store!Rows
         /\ RowsFrom(s, p) \subseteq Store!ResultsOf(s.seen[p])
  <1>1. p \in Pages /\ p \notin Hits(s) /\ p \notin Reparses(s) /\ p \notin Skipped(s)
      BY DEF Misses
  <1>2. ~Store!Hit(s.seen[p]) /\ ~Store!OutOfAttempts(s.seen[p])
      BY <1>1 DEF Hits, Skipped
  <1>3. s.seen[p] \in Store!Rows
      BY <1>1 DEF Calls
  <1>4. s.seen[p].errors \in 0 .. MaxErrors /\ s.seen[p].errors # MaxErrors
      BY <1>2, <1>3 DEF Store!Rows, Store!OutOfAttempts
  <1>5. s.seen[p].errors < MaxErrors /\ s.seen[p].errors + 1 \in 0 .. MaxErrors
      BY <1>4, PagesAssumption
  <1>6. \A a \in Answers : Store!Answered(s.seen[p], a) \in Store!Rows
      BY <1>3 DEF Store!Rows, Store!Answered
  <1>7. \A t \in Answers \cup {None} : Store!Errored(s.seen[p], t) \in Store!Rows
      BY <1>5 DEF Store!Rows, Store!Errored
  <1>8. RowsFrom(s, p) \subseteq Store!ResultsOf(s.seen[p])
      BY DEF RowsFrom, Store!ResultsOf
  <1>9. Store!ResultsOf(s.seen[p]) \subseteq Store!Rows
      BY <1>6, <1>7 DEF Store!ResultsOf
  <1> QED
      BY <1>1, <1>2, <1>5, <1>8, <1>9

(* The sort of a lookup depends on what it found only.                     *)
LEMMA SortSame ==
  ASSUME NEW s, NEW u, u.seen = s.seen, u.parser = s.parser
  PROVE  /\ Misses(u) = Misses(s) /\ Reparses(u) = Reparses(s)
         /\ Hits(u) = Hits(s) /\ Skipped(u) = Skipped(s)
         /\ \A p : RowsFrom(u, p) = RowsFrom(s, p) /\ Unbought(u, p) = Unbought(s, p)
  BY DEF Misses, Hits, Reparses, Skipped, RowsFrom, Unbought

-----------------------------------------------------------------------------
(* What an action makes of the call of q, field by field; the other calls  *)
(* are as they were.                                                       *)
Becomes(q, step, jobs, taken, buffer, deciding, end) ==
  /\ proc' = [r \in Procs |-> IF r = q THEN proc'[q] ELSE proc[r]]
  /\ proc'[q] \in Calls
  /\ proc'[q].seen = proc[q].seen /\ proc'[q].parser = proc[q].parser
  /\ proc'[q].step = step /\ proc'[q].jobs = jobs /\ proc'[q].taken = taken
  /\ proc'[q].buffer = buffer /\ proc'[q].deciding = deciding /\ proc'[q].end = end

(* The same from the updated record.                                       *)
LEMMA Becoming ==
  ASSUME TypeInv, NEW q \in Procs, NEW u \in Calls, proc' = [proc EXCEPT ![q] = u],
         u.seen = proc[q].seen, u.parser = proc[q].parser
  PROVE  Becomes(q, u.step, u.jobs, u.taken, u.buffer, u.deciding, u.end)
  BY DEF TypeInv, Becomes

(* A job that starts takes its page in hand, and changes nothing else of   *)
(* the call.                                                               *)
LEMMA JobStartCall ==
  ASSUME TypeInv, NEW q \in Procs, NEW p \in Pages, JobStart(q, p)
  PROVE  LET s == proc[q] IN
         Becomes(q, s.step, [s.jobs EXCEPT ![p] = Running], s.taken, s.buffer, s.deciding, s.end)
  <1> DEFINE s == proc[q]
             jobs == [s.jobs EXCEPT ![p] = Running]
  <1>1. s \in Calls
      BY DEF TypeInv
  <1>2. jobs \in [Pages -> Jobs]
      BY <1>1 DEF Calls, Jobs
  <1> HIDE DEF jobs
  <1>3. PICK u : u = [s EXCEPT !.jobs = jobs]
      OBVIOUS
  <1>4. /\ u \in Calls /\ u.seen = s.seen /\ u.parser = s.parser /\ u.step = s.step
        /\ u.jobs = jobs /\ u.taken = s.taken /\ u.buffer = s.buffer
        /\ u.deciding = s.deciding /\ u.end = s.end
      BY <1>1, <1>2, <1>3 DEF Calls
  <1>5. proc' = [proc EXCEPT ![q] = u]
      BY <1>3 DEF JobStart, jobs
  <1> QED
      BY <1>4, <1>5, Becoming DEF jobs

(* A job ends with one answer, kept for its collection.                    *)
LEMMA JobEndCall ==
  ASSUME TypeInv, NEW q \in Procs, NEW p \in Pages, JobEnd(q, p)
  PROVE  \E job \in Jobs :
           LET s == proc[q] IN
           /\ job.kind = "row" => job.row \in RowsFrom(s, p)
           /\ job.kind \in {"row", "raised"} \/ (s.step = "stop" /\ job.kind = "dropped")
           /\ Becomes(q, s.step, [s.jobs EXCEPT ![p] = job], s.taken, s.buffer, s.deciding, s.end)
  <1> DEFINE s == proc[q]
  <1>1. s \in Calls /\ CallInv(s) /\ s.jobs[p] = Running
      BY DEF TypeInv, JobEnd
  <1>2. p \in Misses(s)
      BY <1>1 DEF CallInv, Running, NoJob
  <1>3. RowsFrom(s, p) \subseteq Store!Rows
      BY <1>1, <1>2, RowsFromTyped
  <1>4. PICK job \in {[kind |-> "row", row |-> r] : r \in RowsFrom(s, p)} \cup {Raised}
                    \cup (IF s.step = "stop" THEN {Dropped} ELSE {}) :
          proc' = [proc EXCEPT ![q].jobs[p] = job]
      BY DEF JobEnd
  <1>5. job \in Jobs
      BY <1>3, <1>4 DEF Jobs, Outcomes, Raised, Dropped
  <1>6. /\ job.kind = "row" => job.row \in RowsFrom(s, p)
        /\ job.kind \in {"row", "raised"} \/ (s.step = "stop" /\ job.kind = "dropped")
      BY <1>4 DEF Raised, Dropped
  <1> DEFINE jobs == [s.jobs EXCEPT ![p] = job]
  <1>7. jobs \in [Pages -> Jobs]
      BY <1>1, <1>5 DEF Calls
  <1> HIDE DEF jobs
  <1>8. PICK u : u = [s EXCEPT !.jobs = jobs]
      OBVIOUS
  <1>9. /\ u \in Calls /\ u.seen = s.seen /\ u.parser = s.parser /\ u.step = s.step
        /\ u.jobs = jobs /\ u.taken = s.taken /\ u.buffer = s.buffer
        /\ u.deciding = s.deciding /\ u.end = s.end
      BY <1>1, <1>7, <1>8 DEF Calls
  <1>10. proc' = [proc EXCEPT ![q] = u]
      BY <1>4, <1>8 DEF jobs
  <1>11. Becomes(q, s.step, jobs, s.taken, s.buffer, s.deciding, s.end)
      BY <1>9, <1>10, Becoming
  <1> QED
      BY <1>5, <1>6, <1>11 DEF jobs

(* A job that raised is collected without a row.                           *)
LEMMA CollectRaisedCall ==
  ASSUME TypeInv, NEW q \in Procs, NEW p \in Pages, CollectRaised(q, p)
  PROVE  LET s == proc[q] IN
         Becomes(q, s.step, s.jobs, s.taken \cup {p}, s.buffer, s.deciding, s.end)
  <1> DEFINE s == proc[q]
  <1>1. s \in Calls
      BY DEF TypeInv
  <1>2. PICK u : u = [s EXCEPT !.taken = s.taken \cup {p}]
      OBVIOUS
  <1>3. /\ u \in Calls /\ u.seen = s.seen /\ u.parser = s.parser /\ u.step = s.step
        /\ u.jobs = s.jobs /\ u.taken = s.taken \cup {p} /\ u.buffer = s.buffer
        /\ u.deciding = s.deciding /\ u.end = s.end
      BY <1>1, <1>2 DEF Calls
  <1>4. proc' = [proc EXCEPT ![q] = u]
      BY <1>2 DEF CollectRaised
  <1> QED
      BY <1>3, <1>4, Becoming

(* A row that is collected joins the buffer, or is flushed with it.        *)
LEMMA CollectRowCall ==
  ASSUME TypeInv, NEW q \in Procs, NEW p \in Pages, CollectRow(q, p)
  PROVE  LET s == proc[q]
             held == s.buffer \cup {p} IN
         Becomes(q, s.step, s.jobs, s.taken \cup {p}, IF Full(s, held) THEN {} ELSE held,
                 Deciding(s, held), s.end)
  <1> DEFINE s == proc[q]
             held == s.buffer \cup {p}
  <1>1. s \in Calls
      BY DEF TypeInv
  <1>2. Deciding(s, held) \in BOOLEAN
      BY DEF Deciding
  <1>3. PICK b \in SUBSET Pages : b = IF Full(s, held) THEN {} ELSE held
      BY <1>1 DEF Calls
  <1>4. PICK d \in BOOLEAN : d = Deciding(s, held)
      BY <1>2
  <1>5. PICK u : u = [s EXCEPT !.taken = s.taken \cup {p}, !.deciding = d, !.buffer = b]
      OBVIOUS
  <1>6. /\ u \in Calls /\ u.seen = s.seen /\ u.parser = s.parser /\ u.step = s.step
        /\ u.jobs = s.jobs /\ u.taken = s.taken \cup {p} /\ u.buffer = b
        /\ u.deciding = d /\ u.end = s.end
      BY <1>1, <1>5 DEF Calls
  <1>7. proc' = [proc EXCEPT ![q] = u]
      BY <1>3, <1>4, <1>5 DEF CollectRow
  <1> QED
      BY <1>3, <1>4, <1>6, <1>7, Becoming

(* A stop takes the jobs still queued back.                                *)
Withdrawn(s) == [p \in Pages |-> IF s.jobs[p] = Queued THEN Cancelled ELSE s.jobs[p]]

(* A call that stops goes on to drain what it had taken.                   *)
LEMMA StoppingCall ==
  ASSUME TypeInv, NEW q \in Procs, NEW t \in SUBSET Pages, NEW b \in SUBSET Pages,
         NEW end \in Ends,
         proc' = [proc EXCEPT ![q] = Stopping([proc[q] EXCEPT !.taken = t, !.buffer = b], end)]
  PROVE  Becomes(q, "stop", Withdrawn(proc[q]), t, b, proc[q].deciding, end)
  <1> DEFINE s == proc[q]
  <1>1. s \in Calls
      BY DEF TypeInv
  <1>2. PICK v : v = [s EXCEPT !.taken = t, !.buffer = b]
      OBVIOUS
  <1>3. /\ v \in Calls /\ v.seen = s.seen /\ v.parser = s.parser
        /\ v.jobs = s.jobs /\ v.taken = t /\ v.buffer = b /\ v.deciding = s.deciding
      BY <1>1, <1>2 DEF Calls
  <1>4. Withdrawn(s) \in [Pages -> Jobs]
      BY <1>1 DEF Calls, Withdrawn, Jobs
  <1>5. PICK u : u = Stopping(v, end)
      OBVIOUS
  <1>6. u = [v EXCEPT !.step = "stop", !.end = end, !.jobs = Withdrawn(s)]
      BY <1>3, <1>5 DEF Stopping, Withdrawn
  <1>7. /\ u \in Calls /\ u.seen = s.seen /\ u.parser = s.parser /\ u.step = "stop"
        /\ u.jobs = Withdrawn(s) /\ u.taken = t /\ u.buffer = b
        /\ u.deciding = s.deciding /\ u.end = end
      BY <1>3, <1>4, <1>6 DEF Calls, Steps
  <1>8. proc' = [proc EXCEPT ![q] = u]
      BY <1>2, <1>5
  <1> QED
      BY ZenonT(60), <1>7, <1>8, Becoming

(* The collected row that trips the gate stops the call.                   *)
LEMMA CollectTripCall ==
  ASSUME TypeInv, NEW q \in Procs, NEW p \in Pages, CollectTrip(q, p)
  PROVE  LET s == proc[q] IN
         Becomes(q, "stop", Withdrawn(s), s.taken \cup {p}, s.buffer \cup {p}, s.deciding, "tripped")
  <1>1. proc[q].taken \cup {p} \in SUBSET Pages /\ proc[q].buffer \cup {p} \in SUBSET Pages
      BY DEF TypeInv, Calls
  <1>2. "tripped" \in Ends
      BY DEF Ends
  <1>3. proc' = [proc EXCEPT ![q] = Stopping([proc[q] EXCEPT !.taken = proc[q].taken \cup {p},
                                              !.buffer = proc[q].buffer \cup {p}], "tripped")]
      BY DEF CollectTrip
  <1> QED
      BY <1>1, <1>2, <1>3, StoppingCall

(* A flush that fails while collecting stops the call.                     *)
LEMMA CollectUnwrittenCall ==
  ASSUME TypeInv, NEW q \in Procs, NEW p \in Pages, CollectUnwritten(q, p)
  PROVE  LET s == proc[q] IN
         Becomes(q, "stop", Withdrawn(s), s.taken \cup {p}, {}, s.deciding, "unwritten")
  <1>1. proc[q].taken \cup {p} \in SUBSET Pages /\ {} \in SUBSET Pages
      BY DEF TypeInv, Calls
  <1>2. "unwritten" \in Ends
      BY DEF Ends
  <1>3. proc' = [proc EXCEPT ![q] = Stopping([proc[q] EXCEPT !.taken = proc[q].taken \cup {p},
                                              !.buffer = {}], "unwritten")]
      BY DEF CollectUnwritten
  <1> QED
      BY <1>1, <1>2, <1>3, StoppingCall

(* Ctrl-C stops the call.                                                  *)
LEMMA InterruptCall ==
  ASSUME TypeInv, NEW q \in Procs, Interrupt(q)
  PROVE  LET s == proc[q] IN
         Becomes(q, "stop", Withdrawn(s), s.taken, s.buffer, s.deciding, "interrupted")
  <1> DEFINE s == proc[q]
  <1>1. s \in Calls
      BY DEF TypeInv
  <1>2. Withdrawn(s) \in [Pages -> Jobs]
      BY <1>1 DEF Calls, Withdrawn, Jobs
  <1>3. PICK u : u = [s EXCEPT !.step = "stop", !.end = "interrupted", !.jobs = Withdrawn(s)]
      OBVIOUS
  <1>4. /\ u \in Calls /\ u.seen = s.seen /\ u.parser = s.parser /\ u.step = "stop"
        /\ u.jobs = Withdrawn(s) /\ u.taken = s.taken /\ u.buffer = s.buffer
        /\ u.deciding = s.deciding /\ u.end = "interrupted"
      BY <1>1, <1>2, <1>3 DEF Calls, Steps, Ends
  <1>5. proc' = [proc EXCEPT ![q] = u]
      BY <1>3 DEF Interrupt, Stopping, Withdrawn
  <1> QED
      BY <1>4, <1>5, Becoming

(* The drain takes a finished job's row into the buffer, unless the gate   *)
(* tripped.                                                                *)
LEMMA DrainCall ==
  ASSUME TypeInv, NEW q \in Procs, NEW p \in Pages, Drain(q, p)
  PROVE  LET s == proc[q] IN
         Becomes(q, s.step, s.jobs, s.taken \cup {p},
                 IF s.jobs[p].kind = "row" /\ s.end # "tripped" THEN s.buffer \cup {p} ELSE s.buffer,
                 s.deciding, s.end)
  <1> DEFINE s == proc[q]
  <1>1. s \in Calls
      BY DEF TypeInv
  <1>2. PICK b \in SUBSET Pages :
               b = IF s.jobs[p].kind = "row" /\ s.end # "tripped" THEN s.buffer \cup {p}
                   ELSE s.buffer
      BY <1>1 DEF Calls
  <1>3. PICK u : u = [s EXCEPT !.taken = s.taken \cup {p}, !.buffer = b]
      OBVIOUS
  <1>4. /\ u \in Calls /\ u.seen = s.seen /\ u.parser = s.parser /\ u.step = s.step
        /\ u.jobs = s.jobs /\ u.taken = s.taken \cup {p} /\ u.buffer = b
        /\ u.deciding = s.deciding /\ u.end = s.end
      BY <1>1, <1>3 DEF Calls
  <1>5. proc' = [proc EXCEPT ![q] = u]
      BY <1>2, <1>3 DEF Drain
  <1> QED
      BY <1>2, <1>4, <1>5, Becoming

(* A call ends.                                                            *)
LEMMA EndingCall ==
  ASSUME TypeInv, NEW q \in Procs, NEW end \in Ends,
         proc' = [proc EXCEPT ![q] = [proc[q] EXCEPT !.step = "idle", !.end = end, !.buffer = {}]]
  PROVE  LET s == proc[q] IN Becomes(q, "idle", s.jobs, s.taken, {}, s.deciding, end)
  <1> DEFINE s == proc[q]
  <1>1. s \in Calls
      BY DEF TypeInv
  <1>2. PICK u : u = [s EXCEPT !.step = "idle", !.end = end, !.buffer = {}]
      OBVIOUS
  <1>3. /\ u \in Calls /\ u.seen = s.seen /\ u.parser = s.parser /\ u.step = "idle"
        /\ u.jobs = s.jobs /\ u.taken = s.taken /\ u.buffer = {}
        /\ u.deciding = s.deciding /\ u.end = end
      BY <1>1, <1>2 DEF Calls, Steps
  <1>4. proc' = [proc EXCEPT ![q] = u]
      BY <1>2
  <1> QED
      BY <1>3, <1>4, Becoming

(* The last flush of a call ends it.                                       *)
LEMMA FlushCall ==
  ASSUME TypeInv, NEW q \in Procs, Flush(q)
  PROVE  LET s == proc[q] IN Becomes(q, "idle", s.jobs, s.taken, {}, s.deciding, EndOf(s))
  <1>1. EndOf(proc[q]) \in Ends
      BY DEF TypeInv, Calls, EndOf, Ends
  <1> QED
      BY <1>1, EndingCall DEF Flush

(* A last flush that fails ends the call all the same.                     *)
LEMMA FlushUnwrittenCall ==
  ASSUME TypeInv, NEW q \in Procs, FlushUnwritten(q)
  PROVE  LET s == proc[q] IN Becomes(q, "idle", s.jobs, s.taken, {}, s.deciding, "unwritten")
  <1>1. "unwritten" \in Ends
      BY DEF Ends
  <1> QED
      BY <1>1, EndingCall DEF FlushUnwritten

(* A killed process takes its call with it.                                *)
LEMMA CrashCall ==
  ASSUME TypeInv, NEW q \in Procs, Crash(q)
  PROVE  LET s == proc[q] IN Becomes(q, "idle", s.jobs, s.taken, {}, s.deciding, "dead")
  <1>1. "dead" \in Ends
      BY DEF Ends
  <1> QED
      BY <1>1, EndingCall DEF Crash

(* The lookup of a call: its row is what the table holds.                  *)
LEMMA LookupCall ==
  ASSUME TypeInv, NEW q \in Procs, NEW buy \in BOOLEAN, Lookup(q, buy)
  PROVE  /\ proc' = [r \in Procs |-> IF r = q THEN proc'[q] ELSE proc[r]]
         /\ proc'[q] \in Calls
         /\ proc'[q].seen = table /\ proc'[q].step = "lookup"
         /\ proc'[q].jobs = [p \in Pages |-> NoJob] /\ proc'[q].taken = {}
         /\ proc'[q].buffer = {} /\ proc'[q].end = "none"
  <1>1. PICK u : u = [NoCall EXCEPT !.step = "lookup", !.buy = buy, !.parser = improved,
                                    !.seen = table]
      OBVIOUS
  <1>2. /\ NoCall.jobs = [p \in Pages |-> NoJob] /\ NoCall.taken = {}
        /\ NoCall.buffer = {} /\ NoCall.end = "none"
      BY DEF NoCall
  <1>3. /\ u \in Calls /\ u.seen = table /\ u.step = "lookup"
        /\ u.jobs = [p \in Pages |-> NoJob] /\ u.taken = {}
        /\ u.buffer = {} /\ u.end = "none"
      BY <1>1, <1>2, NoCallType DEF Calls, Steps, TypeInv
  <1>4. proc' = [proc EXCEPT ![q] = u]
      BY <1>1 DEF Lookup
  <1> QED
      BY <1>3, <1>4 DEF TypeInv

(* What a lookup leads to: the end of the call, or its misses queued.      *)
LEMMA SubmitCall ==
  ASSUME TypeInv, NEW q \in Procs, Submit(q)
  PROVE  LET s == proc[q] IN
         \/ /\ Misses(s) = {}
            /\ Becomes(q, "idle", s.jobs, s.taken, s.buffer, s.deciding, "returned")
         \/ /\ Misses(s) # {}
            /\ Becomes(q, "idle", s.jobs, s.taken, s.buffer, s.deciding, "missing")
         \/ Becomes(q, "read", [p \in Pages |-> IF p \in Misses(s) THEN Queued ELSE NoJob], s.taken,
                    s.buffer, s.deciding, s.end)
  <1> DEFINE s == proc[q]
             jobs == [p \in Pages |-> IF p \in Misses(s) THEN Queued ELSE NoJob]
  <1>1. s \in Calls
      BY DEF TypeInv
  <1>2. jobs \in [Pages -> Jobs]
      BY DEF Jobs
  <1> HIDE DEF jobs
  <1>3. ASSUME NEW end \in {"returned", "missing"},
               proc' = [proc EXCEPT ![q] = [s EXCEPT !.step = "idle", !.end = end]]
        PROVE  Becomes(q, "idle", s.jobs, s.taken, s.buffer, s.deciding, end)
    <2>1. PICK u : u = [s EXCEPT !.step = "idle", !.end = end]
        OBVIOUS
    <2>2. /\ u \in Calls /\ u.seen = s.seen /\ u.parser = s.parser /\ u.step = "idle"
          /\ u.jobs = s.jobs /\ u.taken = s.taken /\ u.buffer = s.buffer
          /\ u.deciding = s.deciding /\ u.end = end
        BY <1>1, <2>1 DEF Calls, Steps, Ends
    <2> QED
        BY <1>3, <2>1, <2>2, Becoming
  <1>4. ASSUME proc' = [proc EXCEPT ![q] = [s EXCEPT !.step = "read", !.jobs = jobs]]
        PROVE  Becomes(q, "read", jobs, s.taken, s.buffer, s.deciding, s.end)
    <2>1. PICK u : u = [s EXCEPT !.step = "read", !.jobs = jobs]
        OBVIOUS
    <2>2. /\ u \in Calls /\ u.seen = s.seen /\ u.parser = s.parser /\ u.step = "read"
          /\ u.jobs = jobs /\ u.taken = s.taken /\ u.buffer = s.buffer
          /\ u.deciding = s.deciding /\ u.end = s.end
        BY <1>1, <1>2, <2>1 DEF Calls, Steps
    <2> QED
        BY <1>4, <2>1, <2>2, Becoming
  <1>5. CASE Misses(s) = {}
      BY <1>3, <1>5 DEF Submit
  <1>6. CASE Misses(s) # {} /\ ~s.buy
      BY <1>3, <1>6 DEF Submit
  <1>7. CASE Misses(s) # {} /\ s.buy
      BY <1>4, <1>7 DEF Submit, jobs
  <1> QED
      BY <1>5, <1>6, <1>7

-----------------------------------------------------------------------------
(* Types.                                                                  *)
LEMMA OneCall ==
  ASSUME TypeInv, NEW q \in Procs,
         proc' = [r \in Procs |-> IF r = q THEN proc'[q] ELSE proc[r]],
         proc'[q] \in Calls, CallInv(proc'[q]),
         table' \in [Pages -> Store!Rows], improved' \in BOOLEAN, reads' \in 0 .. MaxReads
  PROVE  TypeInv'
  <1>1. proc' \in [Procs -> Calls]
      BY DEF TypeInv
  <1>2. ASSUME NEW r \in Procs PROVE CallInv(proc'[r])
    <2>1. CASE r = q
        BY <2>1
    <2>2. CASE r # q
      <3>1. proc'[r] = proc[r]
          BY <2>2
      <3> QED
          BY <3>1 DEF TypeInv
    <2> QED
        BY <2>1, <2>2
  <1> QED
      BY <1>1, <1>2 DEF TypeInv

(* What is written of bought rows are rows of the table.                   *)
LEMMA WriteTypes ==
  ASSUME TypeInv, NEW q \in Procs, NEW S, Write(proc[q], S),
         \A p \in S \cap Pages : proc[q].jobs[p].kind = "row"
  PROVE  table' \in [Pages -> Store!Rows]
  <1>1. ASSUME NEW p \in Pages PROVE (IF p \in S THEN proc[q].jobs[p].row ELSE table[p]) \in Store!Rows
    <2>1. proc[q].jobs[p] \in Jobs /\ table[p] \in Store!Rows
        BY DEF TypeInv, Calls
    <2> QED
        BY <2>1, JobKinds
  <1> QED
      BY <1>1 DEF Write

(* What a step of read_pages does to its own call keeps CallInv.           *)
LEMMA WorkerInv ==
  ASSUME TypeInv, NEW q \in Procs, NEW p \in Pages, JobStart(q, p) \/ JobEnd(q, p)
  PROVE  CallInv(proc'[q])
  <1> DEFINE s == proc[q]
             u == proc'[q]
  <1>1. s \in Calls /\ CallInv(s)
      BY DEF TypeInv
  <1>2. \A x \in Pages : s.jobs[x] \in Jobs
      BY <1>1 DEF Calls
  <1>3. s.step # "lookup" /\ p \notin s.taken /\ p \in Misses(s)
    <2>1. s.step # "lookup" /\ s.jobs[p] \in {Queued, Running}
        BY DEF JobStart, JobEnd
    <2>2. ~Finished(s.jobs[p]) /\ s.jobs[p] # NoJob
        BY <2>1 DEF Queued, Running, Finished, NoJob
    <2> QED
        BY <1>1, <2>1, <2>2 DEF CallInv
  <1>4. PICK job \in Jobs :
          /\ job.kind \in {"running", "row", "raised"} \/ (s.step = "stop" /\ job.kind = "dropped")
          /\ job.kind = "row" => job.row \in RowsFrom(s, p)
          /\ Becomes(q, s.step, [s.jobs EXCEPT ![p] = job], s.taken, s.buffer, s.deciding, s.end)
    <2>1. CASE JobStart(q, p)
      <3>1. Running \in Jobs /\ Running.kind = "running"
          BY DEF Running, Jobs
      <3> QED
          BY <2>1, <3>1, JobStartCall
    <2>2. CASE JobEnd(q, p)
        BY <2>2, JobEndCall
    <2> QED
        BY <2>1, <2>2
  <1>5. /\ u.step = s.step /\ u.taken = s.taken /\ u.buffer = s.buffer /\ u.end = s.end
        /\ u.jobs[p] = job
        /\ \A x \in Pages \ {p} : u.jobs[x] = s.jobs[x]
      BY <1>1, <1>4 DEF Becomes, Calls
  <1>6. Misses(u) = Misses(s) /\ \A x : RowsFrom(u, x) = RowsFrom(s, x)
      BY <1>4, SortSame DEF Becomes
  <1> HIDE DEF u, s
  <1>7. s.buffer \subseteq Pages /\ s.taken \subseteq Pages
      BY <1>1 DEF Calls
  <1>8. \A x \in s.taken : x # p
      BY <1>3
  <1>9. u.step = "read" =>
          \A x \in Misses(u) : u.jobs[x].kind \in {"queued", "running", "row", "raised"}
      BY <1>1, <1>4, <1>5, <1>6 DEF CallInv, Misses
  <1>10. /\ \A x \in Pages : u.jobs[x] # NoJob => x \in Misses(u)
         /\ \A x \in Pages : u.jobs[x].kind = "row" => u.jobs[x].row \in RowsFrom(u, x)
      BY <1>1, <1>3, <1>4, <1>5, <1>6 DEF CallInv
  <1>11. /\ \A x \in u.buffer : u.jobs[x].kind = "row"
         /\ \A x \in u.taken : Finished(u.jobs[x])
      BY <1>1, <1>5, <1>7, <1>8 DEF CallInv
  <1>12. CallInv(u)
      BY <1>1, <1>3, <1>5, <1>9, <1>10, <1>11 DEF CallInv
  <1> QED
      BY <1>12 DEF u

(* Collecting keeps what holds of a call.                                  *)
LEMMA CollectInv ==
  ASSUME TypeInv, NEW q \in Procs, NEW p \in Pages,
         CollectRaised(q, p) \/ CollectRow(q, p) \/ Drain(q, p)
  PROVE  CallInv(proc'[q])
  <1> DEFINE s == proc[q]
             u == proc'[q]
  <1>1. s \in Calls /\ CallInv(s)
      BY DEF TypeInv
  <1>2. s.step \in {"read", "stop"} /\ Finished(s.jobs[p])
      BY DEF CollectRaised, CollectRow, Drain, Raised, Finished
  <1>3. PICK b, d :
          /\ b \in {{}, s.buffer, s.buffer \cup {p}}
          /\ b = s.buffer \cup {p} => s.jobs[p].kind = "row" \/ p \in s.buffer
          /\ Becomes(q, s.step, s.jobs, s.taken \cup {p}, b, d, s.end)
    <2>1. CASE CollectRaised(q, p)
        BY <2>1, CollectRaisedCall
    <2>2. CASE CollectRow(q, p)
      <3> DEFINE held == IF Full(s, s.buffer \cup {p}) THEN {} ELSE s.buffer \cup {p}
                 deciding == Deciding(s, s.buffer \cup {p})
      <3>1. s.jobs[p].kind = "row"
          BY <2>2 DEF CollectRow
      <3>2. Becomes(q, s.step, s.jobs, s.taken \cup {p}, held, deciding, s.end)
          BY <2>2, CollectRowCall
      <3>3. held \in {{}, s.buffer \cup {p}}
          OBVIOUS
      <3> QED
          BY <3>1, <3>2, <3>3
    <2>3. CASE Drain(q, p)
      <3> DEFINE row == s.jobs[p].kind = "row" /\ s.end # "tripped"
                 held == IF row THEN s.buffer \cup {p} ELSE s.buffer
      <3>1. Becomes(q, s.step, s.jobs, s.taken \cup {p}, held, s.deciding, s.end)
          BY <2>3, DrainCall
      <3>2. held \in {s.buffer, s.buffer \cup {p}}
          OBVIOUS
      <3>3. held = s.buffer \cup {p} => s.jobs[p].kind = "row" \/ p \in s.buffer
          BY Zenon
      <3> QED
          BY <3>1, <3>2, <3>3
    <2> QED
        BY <2>1, <2>2, <2>3
  <1>4. /\ u.step = s.step /\ u.jobs = s.jobs /\ u.taken = s.taken \cup {p} /\ u.buffer = b
        /\ u.end = s.end
      BY <1>3 DEF Becomes
  <1>5. Misses(u) = Misses(s) /\ \A x : RowsFrom(u, x) = RowsFrom(s, x)
      BY <1>3, SortSame DEF Becomes
  <1> HIDE DEF u, s
  <1>6. CallInv(u)
      BY <1>1, <1>2, <1>3, <1>4, <1>5 DEF CallInv
  <1> QED
      BY <1>6 DEF u

(* Stopping keeps what holds of a call.                                    *)
LEMMA StopInv ==
  ASSUME TypeInv, NEW q \in Procs, NEW p \in Pages,
         CollectTrip(q, p) \/ CollectUnwritten(q, p) \/ Interrupt(q)
  PROVE  CallInv(proc'[q])
  <1> DEFINE s == proc[q]
             u == proc'[q]
  <1>1. s \in Calls /\ CallInv(s)
      BY DEF TypeInv
  <1>2. PICK t, b, end :
          /\ end \in {"tripped", "unwritten", "interrupted"}
          /\ \/ t = s.taken \cup {p} /\ s.jobs[p].kind = "row" /\ b \in {{}, s.buffer \cup {p}}
             \/ t = s.taken /\ b = s.buffer
          /\ Becomes(q, "stop", Withdrawn(s), t, b, s.deciding, end)
    <2>1. CASE CollectTrip(q, p)
        BY <2>1, CollectTripCall DEF CollectTrip
    <2>2. CASE CollectUnwritten(q, p)
        BY <2>2, CollectUnwrittenCall DEF CollectUnwritten
    <2>3. CASE Interrupt(q)
        BY <2>3, InterruptCall
    <2> QED
        BY <2>1, <2>2, <2>3
  <1>3. /\ u.step = "stop" /\ u.jobs = Withdrawn(s) /\ u.taken = t /\ u.buffer = b /\ u.end = end
      BY <1>2 DEF Becomes
  <1>4. Misses(u) = Misses(s) /\ \A x : RowsFrom(u, x) = RowsFrom(s, x)
      BY <1>2, SortSame DEF Becomes
  <1> HIDE DEF u, s
  <1>5. /\ \A x \in Pages : s.jobs[x] # Queued => u.jobs[x] = s.jobs[x]
        /\ \A x \in Pages : s.jobs[x] = Queued => u.jobs[x] = Cancelled
      BY <1>3 DEF Withdrawn
  <1>6. s.taken \subseteq Pages /\ s.buffer \subseteq Pages
      BY <1>1 DEF Calls
  <1>7. ~Finished(Queued) /\ Queued # NoJob /\ Queued.kind = "queued" /\ Cancelled.kind = "cancelled"
      BY DEF Finished, Queued, Cancelled, NoJob
  <1>8. /\ \A x \in Pages : u.jobs[x] # NoJob => x \in Misses(u)
        /\ \A x \in Pages : u.jobs[x].kind = "row" => u.jobs[x].row \in RowsFrom(u, x)
      BY <1>1, <1>4, <1>5, <1>7 DEF CallInv
  <1>9. Finished(s.jobs[p]) \/ t = s.taken
      BY <1>2 DEF Finished
  <1>10. /\ \A x \in u.buffer : u.jobs[x].kind = "row"
         /\ \A x \in u.taken : Finished(u.jobs[x])
    <2>1. \A x \in t : x \in Pages /\ Finished(s.jobs[x])
        BY <1>1, <1>2, <1>6, <1>9 DEF CallInv
    <2>2. \A x \in b : x \in t /\ s.jobs[x].kind = "row"
        BY <1>1, <1>2 DEF CallInv
    <2> QED
        BY <1>3, <1>5, <1>7, <2>1, <2>2
  <1>11. u.buffer \subseteq u.taken
      BY <1>1, <1>2, <1>3 DEF CallInv
  <1>12. CallInv(u)
      BY <1>2, <1>3, <1>8, <1>10, <1>11 DEF CallInv
  <1> QED
      BY <1>12 DEF u

(* Ending keeps what holds of a call.                                      *)
LEMMA EndInv ==
  ASSUME TypeInv, NEW q \in Procs, Flush(q) \/ FlushUnwritten(q) \/ Crash(q)
  PROVE  CallInv(proc'[q])
  <1> DEFINE s == proc[q]
             u == proc'[q]
  <1>1. s \in Calls /\ CallInv(s)
      BY DEF TypeInv
  <1>2. PICK end : Becomes(q, "idle", s.jobs, s.taken, {}, s.deciding, end)
      BY FlushCall, FlushUnwrittenCall, CrashCall
  <1>3. u.step = "idle" /\ u.jobs = s.jobs /\ u.taken = s.taken /\ u.buffer = {}
      BY <1>2 DEF Becomes
  <1>4. Misses(u) = Misses(s) /\ \A x : RowsFrom(u, x) = RowsFrom(s, x)
      BY <1>2, SortSame DEF Becomes
  <1> HIDE DEF u, s
  <1>5. CallInv(u)
      BY <1>1, <1>3, <1>4 DEF CallInv
  <1> QED
      BY <1>5 DEF u

(* A call begins with the pages the table lacks.                           *)
LEMMA LookupInv ==
  ASSUME TypeInv, NEW q \in Procs, NEW buy \in BOOLEAN, Lookup(q, buy)
  PROVE  CallInv(proc'[q])
  <1> DEFINE u == proc'[q]
  <1>1. /\ u.step = "lookup" /\ u.jobs = [p \in Pages |-> NoJob] /\ u.taken = {} /\ u.buffer = {}
        /\ u.end = "none"
      BY LookupCall
  <1> HIDE DEF u
  <1>2. NoJob.kind = "none"
      BY DEF NoJob
  <1>3. CallInv(u)
      BY <1>1, <1>2 DEF CallInv
  <1> QED
      BY <1>3 DEF u

(* The pages are submitted to the pool as the call found them.             *)
LEMMA SubmitInv ==
  ASSUME TypeInv, NEW q \in Procs, Submit(q)
  PROVE  CallInv(proc'[q])
  <1> DEFINE s == proc[q]
             u == proc'[q]
             queued == [p \in Pages |-> IF p \in Misses(s) THEN Queued ELSE NoJob]
  <1>1. s \in Calls /\ CallInv(s) /\ s.step = "lookup"
      BY DEF TypeInv, Submit
  <1>2. s.jobs = [p \in Pages |-> NoJob] /\ s.taken = {} /\ s.buffer = {} /\ s.end = "none"
      BY <1>1 DEF CallInv
  <1>3. /\ u.seen = s.seen /\ u.parser = s.parser /\ u.taken = {} /\ u.buffer = {}
        /\ \/ u.step = "idle" /\ u.jobs = s.jobs
           \/ u.step = "read" /\ u.jobs = queued /\ u.end = "none"
      BY <1>2, SubmitCall DEF Becomes
  <1>4. Misses(u) = Misses(s)
      BY <1>3, SortSame
  <1>5. NoJob.kind = "none" /\ Queued.kind = "queued"
      BY DEF NoJob, Queued
  <1> HIDE DEF u, s
  <1>6. Misses(s) \subseteq Pages
      BY DEF Misses
  <1>7. CASE u.step = "idle" /\ u.jobs = s.jobs
    <2>1. CallInv(u)
        BY <1>2, <1>3, <1>5, <1>7 DEF CallInv
    <2> QED
        BY <2>1 DEF u
  <1>8. CASE u.step = "read" /\ u.jobs = queued /\ u.end = "none"
    <2>1. CallInv(u)
        BY <1>3, <1>4, <1>5, <1>6, <1>8 DEF CallInv
    <2> QED
        BY <2>1 DEF u
  <1> QED
      BY <1>3, <1>7, <1>8

(* The types are kept by every step, with any number of calls live.        *)
LEMMA TypeStep ==
  ASSUME TypeInv, [Next]_vars
  PROVE  TypeInv'
  <1>1. ASSUME NEW q \in Procs, ReadPages(q)
        PROVE  TypeInv'
    <2> DEFINE s == proc[q]
    <2>1. s \in Calls /\ CallInv(s)
        BY DEF TypeInv
    <2>2. /\ table \in [Pages -> Store!Rows] /\ improved \in BOOLEAN
          /\ reads \in 0 .. MaxReads
        BY DEF TypeInv
    <2>3. CASE \E buy \in BOOLEAN : Lookup(q, buy)
      <3>1. PICK buy \in BOOLEAN : Lookup(q, buy)
          BY <2>3
      <3>2. reads' \in 0 .. MaxReads
          BY <2>2, <3>1, PagesAssumption DEF Lookup
      <3>3. table' = table /\ improved' = improved
          BY <3>1 DEF Lookup
      <3> QED
          BY <2>2, <3>1, <3>2, <3>3, LookupCall, LookupInv, OneCall
    <2>4. CASE Submit(q)
      <3>1. \A p \in Pages : Store!Reparsable(s.seen[p]) => Store!Reparsed(s.seen[p]) \in Store!Rows
          BY <2>1 DEF Calls, Store!Rows, Store!Reparsable, Store!Reparsed
      <3>2. \A p \in Pages : (IF p \in Reparses(s) THEN Store!Reparsed(s.seen[p]) ELSE table[p])
                               \in Store!Rows
          BY <2>2, <3>1 DEF Reparses
      <3>3. table' \in [Pages -> Store!Rows]
          BY <2>4, <3>2 DEF Submit
      <3>4. improved' = improved /\ reads' = reads
          BY <2>4 DEF Submit
      <3>5. /\ proc' = [r \in Procs |-> IF r = q THEN proc'[q] ELSE proc[r]]
            /\ proc'[q] \in Calls
          BY <2>4, SubmitCall DEF Becomes
      <3> QED
          BY <2>2, <2>4, <3>3, <3>4, <3>5, SubmitInv, OneCall
    <2>5. CASE \E p \in Pages : JobStart(q, p) \/ JobEnd(q, p)
      <3>1. PICK p \in Pages : JobStart(q, p) \/ JobEnd(q, p)
          BY <2>5
      <3>2. table' = table /\ improved' = improved /\ reads' = reads
          BY <3>1 DEF JobStart, JobEnd
      <3>3. /\ proc' = [r \in Procs |-> IF r = q THEN proc'[q] ELSE proc[r]]
            /\ proc'[q] \in Calls
          BY <3>1, JobStartCall, JobEndCall DEF Becomes
      <3> QED
          BY <2>2, <3>1, <3>2, <3>3, WorkerInv, OneCall
    <2>6. CASE \E p \in Pages : CollectRaised(q, p) \/ CollectRow(q, p) \/ Drain(q, p)
      <3>1. PICK p \in Pages : CollectRaised(q, p) \/ CollectRow(q, p) \/ Drain(q, p)
          BY <2>6
      <3>2. improved' = improved /\ reads' = reads
          BY <3>1 DEF CollectRaised, CollectRow, Drain
      <3>3. table' \in [Pages -> Store!Rows]
        <4>1. ASSUME CollectRow(q, p), Full(s, s.buffer \cup {p})
              PROVE  table' \in [Pages -> Store!Rows]
          <5>1. \A x \in s.buffer \cup {p} : s.jobs[x].kind = "row"
              BY <2>1, <4>1 DEF CollectRow, CallInv
          <5>2. Write(s, s.buffer \cup {p})
              BY <4>1 DEF CollectRow
          <5> QED
              BY <5>1, <5>2, WriteTypes
        <4>2. ASSUME ~(CollectRow(q, p) /\ Full(s, s.buffer \cup {p}))
              PROVE  table' = table
            BY <3>1, <4>2 DEF CollectRaised, CollectRow, Drain
        <4> QED
            BY <2>2, <4>1, <4>2
      <3>4. /\ proc' = [r \in Procs |-> IF r = q THEN proc'[q] ELSE proc[r]]
            /\ proc'[q] \in Calls
          BY <3>1, CollectRaisedCall, CollectRowCall, DrainCall DEF Becomes
      <3> QED
          BY <2>2, <3>1, <3>2, <3>3, <3>4, CollectInv, OneCall
    <2>7. CASE \E p \in Pages : CollectTrip(q, p) \/ CollectUnwritten(q, p)
      <3>1. PICK p \in Pages : CollectTrip(q, p) \/ CollectUnwritten(q, p)
          BY <2>7
      <3>2. table' = table /\ improved' = improved /\ reads' = reads
          BY <3>1 DEF CollectTrip, CollectUnwritten
      <3>3. /\ proc' = [r \in Procs |-> IF r = q THEN proc'[q] ELSE proc[r]]
            /\ proc'[q] \in Calls
          BY <3>1, CollectTripCall, CollectUnwrittenCall DEF Becomes
      <3> QED
          BY <2>2, <3>1, <3>2, <3>3, StopInv, OneCall
    <2>8. CASE Interrupt(q)
      <3>1. table' = table /\ improved' = improved /\ reads' = reads
          BY <2>8 DEF Interrupt
      <3>2. /\ proc' = [r \in Procs |-> IF r = q THEN proc'[q] ELSE proc[r]]
            /\ proc'[q] \in Calls
          BY <2>8, InterruptCall DEF Becomes
      <3>3. CallInv(proc'[q])
        <4>1. CASE Pages = {}
          <5>1. s.taken = {} /\ s.buffer = {}
              BY <2>1, <4>1 DEF Calls
          <5>2. /\ proc'[q].step = "stop" /\ proc'[q].end = "interrupted"
                /\ proc'[q].taken = {} /\ proc'[q].buffer = {}
              BY <2>8, <5>1, InterruptCall DEF Becomes
          <5> QED
              BY <4>1, <5>2 DEF CallInv
        <4>2. CASE Pages # {}
            BY <2>8, <4>2, StopInv
        <4> QED
            BY <4>1, <4>2
      <3> QED
          BY <2>2, <3>1, <3>2, <3>3, OneCall
    <2>9. CASE Flush(q) \/ FlushUnwritten(q) \/ Crash(q)
      <3>1. improved' = improved /\ reads' = reads
          BY <2>9 DEF Flush, FlushUnwritten, Crash
      <3>2. table' \in [Pages -> Store!Rows]
        <4>1. \A x \in Held(s) : s.jobs[x].kind = "row"
            BY <2>1 DEF Held, CallInv
        <4>2. ASSUME Flush(q) PROVE Write(s, Held(s))
            BY <4>2 DEF Flush
        <4>3. ASSUME ~Flush(q) PROVE table' = table
            BY <2>9, <4>3 DEF FlushUnwritten, Crash
        <4> QED
            BY <2>2, <4>1, <4>2, <4>3, WriteTypes
      <3>3. /\ proc' = [r \in Procs |-> IF r = q THEN proc'[q] ELSE proc[r]]
            /\ proc'[q] \in Calls
          BY <2>9, FlushCall, FlushUnwrittenCall, CrashCall DEF Becomes
      <3> QED
          BY <2>2, <2>9, <3>1, <3>2, <3>3, EndInv, OneCall
    <2> QED
        BY <1>1, <2>3, <2>4, <2>5, <2>6, <2>7, <2>8, <2>9 DEF ReadPages
  <1>2. CASE ImproveParser
      BY <1>2 DEF ImproveParser, TypeInv
  <1>3. CASE UNCHANGED vars
      BY <1>3 DEF vars, TypeInv
  <1> QED
      BY <1>1, <1>2, <1>3 DEF Next

(* Every row of the table, of a lookup and of a worker has its shape, and  *)
(* no page is charged more than max_errors attempts, however many calls    *)
(* run at once.                                                            *)
THEOREM ReadingsWellTyped == Spec => []TypeOK
  <1>1. TypeInv => TypeOK
      BY DEF TypeInv, TypeOK, CallOK, Calls, Steps, CallInv
  <1> QED
      BY <1>1, InitTypes, TypeStep, PTL DEF Spec

-----------------------------------------------------------------------------
(* What a live call knows of the table.                                    *)

(* Writing rows over what the lookup found of their pages is one commit of *)
(* Readings.                                                               *)
LEMMA WriteRecords ==
  ASSUME TypeInv, NEW q \in Procs, NEW S \in SUBSET Pages, Write(proc[q], S),
         \A p \in S : proc[q].jobs[p].kind = "row" /\ table[p] = proc[q].seen[p]
  PROVE  Store!Next
  <1> DEFINE s == proc[q]
             results == [p \in S |-> s.jobs[p].row]
  <1>1. s \in Calls /\ CallInv(s)
      BY DEF TypeInv
  <1>2. ASSUME NEW p \in S
        PROVE  /\ ~Store!Hit(table[p]) /\ ~Store!OutOfAttempts(table[p])
               /\ s.jobs[p].row \in Store!Rows
               /\ s.jobs[p].row \in Store!ResultsOf(table[p])
    <2>1. p \in Pages /\ s.jobs[p].kind = "row" /\ s.jobs[p] # NoJob
        BY DEF NoJob
    <2>2. p \in Misses(s) /\ s.jobs[p].row \in RowsFrom(s, p)
        BY <1>1, <2>1 DEF CallInv
    <2> QED
        BY <1>1, <2>2, RowsFromTyped
  <1>3. results \in [S -> Store!Rows]
      BY <1>2
  <1>4. table' = [k \in Pages |-> IF k \in S THEN results[k] ELSE table[k]]
      BY DEF Write
  <1>5. \A k \in S : results[k] \in Store!ResultsOf(table[k])
      BY <1>2
  <1> HIDE DEF results
  <1>6. Store!Record(S)
      BY <1>2, <1>3, <1>4, <1>5 DEF Store!Record
  <1> QED
      BY <1>6 DEF Store!Next

(* A commit of Readings takes no reading away.                             *)
LEMMA HitsStay ==
  ASSUME table \in [Pages -> Store!Rows], [Store!Next]_table, NEW p \in Pages, Store!Hit(table[p])
  PROVE  Store!Hit(table'[p])
  <1>1. CASE Store!Next
    <2>1. PICK S \in SUBSET Pages : Store!Record(S) \/ Store!Recover(S)
        BY <1>1 DEF Store!Next
    <2>2. p \notin S
        BY <2>1 DEF Store!Record, Store!Recover, Store!Reparsable
    <2>3. table'[p] = table[p]
        BY <2>1, <2>2 DEF Store!Record, Store!Recover
    <2> QED
        BY <2>3
  <1> QED
      BY <1>1

(* The other calls are not live: what q does concerns its own only.        *)
LEMMA OwnCall ==
  ASSUME LiveInv, NEW q \in Procs, Live(q) \/ \A r \in Procs : ~Live(r) \/ r = q,
         proc' = [r \in Procs |-> IF r = q THEN proc'[q] ELSE proc[r]],
         Live(q)' => TableInv(proc[q])'
  PROVE  LiveInv'
  <1>1. ASSUME NEW r \in Procs, r # q PROVE ~Live(r)'
    <2>1. ~Live(r) /\ proc'[r] = proc[r]
        BY <1>1 DEF LiveInv
    <2> QED
        BY <2>1 DEF Live
  <1>2. \A r \in Procs : Live(r)' => TableInv(proc[r])'
      BY <1>1
  <1> QED
      BY <1>1, <1>2 DEF LiveInv

(* A step under which the table stays, and nothing that is held or was     *)
(* collected is lost sight of.                                             *)
LEMMA TableStays ==
  ASSUME TypeInv, NEW q \in Procs, TableInv(proc[q]), proc[q].step \in {"read", "stop"},
         table' = table, NEW step, NEW jobs, NEW taken, NEW buffer, NEW deciding, NEW end,
         Becomes(q, step, jobs, taken, buffer, deciding, end),
         step \in {"read", "stop"},
         proc[q].taken \ proc[q].buffer \subseteq taken \ buffer,
         \A p \in proc[q].taken : jobs[p] = proc[q].jobs[p],
         end \notin {"tripped", "unwritten"} =>
           /\ Kept(proc[q])
           /\ \A p \in (taken \ buffer) \cap Pages :
                p \in proc[q].taken \ proc[q].buffer \/ jobs[p].kind # "row",
         (step = "read" /\ deciding) \/ (step = "stop" /\ end = "tripped") =>
           \/ proc[q].step = "read" /\ proc[q].deciding
           \/ proc[q].step = "stop" /\ proc[q].end = "tripped"
  PROVE  TableInv(proc[q])'
  <1> DEFINE s == proc[q]
             u == proc'[q]
  <1>1. /\ u.step = step /\ u.jobs = jobs /\ u.taken = taken /\ u.buffer = buffer
        /\ u.deciding = deciding /\ u.end = end /\ u.seen = s.seen /\ u.parser = s.parser
      BY DEF Becomes
  <1>2. Misses(u) = Misses(s) /\ \A p : Unbought(u, p) = Unbought(s, p)
      BY <1>1, SortSame
  <1>3. ASSUME NEW p \in Pages
        PROVE  /\ p \notin Misses(u) => table[p] = Unbought(u, p)
               /\ p \in Misses(u) \ (u.taken \ u.buffer) => table[p] = u.seen[p]
               /\ p \in u.taken \ u.buffer /\ u.jobs[p].kind = "row" /\ Kept(u)
                    => table[p] = u.jobs[p].row
    <2>1. /\ p \notin Misses(s) => table[p] = Unbought(s, p)
          /\ p \in Misses(s) \ (s.taken \ s.buffer) => table[p] = s.seen[p]
          /\ p \in s.taken \ s.buffer /\ s.jobs[p].kind = "row" /\ Kept(s)
               => table[p] = s.jobs[p].row
        BY DEF TableInv
    <2>2. p \in Misses(u) \ (u.taken \ u.buffer) => table[p] = u.seen[p]
        BY <1>1, <1>2, <2>1
    <2>3. ASSUME p \in u.taken \ u.buffer, u.jobs[p].kind = "row", Kept(u)
          PROVE  table[p] = u.jobs[p].row
      <3>1. p \in s.taken \ s.buffer /\ Kept(s)
          BY <1>1, <2>3 DEF Kept
      <3>2. u.jobs[p] = s.jobs[p]
          BY <1>1, <3>1
      <3> QED
          BY <2>1, <2>3, <3>1, <3>2
    <2> QED
        BY <1>2, <2>1, <2>2, <2>3
  <1>4. (u.step = "read" /\ u.deciding) \/ (u.step = "stop" /\ u.end = "tripped") =>
          \A p \in Misses(u) : table[p] = u.seen[p]
      BY <1>1, <1>2 DEF TableInv
  <1>5. u.step # "lookup"
      BY <1>1
  <1> QED
      BY <1>3, <1>4, <1>5 DEF TableInv

(* What a page being collected is.                                         *)
LEMMA Collecting ==
  ASSUME TypeInv, NEW q \in Procs, NEW p \in Pages, p \in Uncollected(proc[q])
  PROVE  p \notin proc[q].taken /\ p \notin proc[q].buffer
  BY DEF TypeInv, CallInv, Uncollected

(* The steps of a live call that leave the table alone.                    *)
QuietStep(q) ==
  \/ \E p \in Pages : \/ JobStart(q, p) \/ JobEnd(q, p) \/ CollectRaised(q, p)
                      \/ CollectRow(q, p) /\ ~Full(proc[q], proc[q].buffer \cup {p})
                      \/ CollectTrip(q, p) \/ CollectUnwritten(q, p) \/ Drain(q, p)
  \/ Interrupt(q)

(* Steps that write no row leave the table and what was paid for.          *)
LEMMA QuietSteps ==
  ASSUME TypeInv, NEW q \in Procs, TableInv(proc[q]), QuietStep(q)
  PROVE  /\ table' = table
         /\ proc' = [r \in Procs |-> IF r = q THEN proc'[q] ELSE proc[r]]
         /\ proc'[q].step \in {"read", "stop"}
         /\ TableInv(proc[q])'
  <1> DEFINE s == proc[q]
  <1>1. s \in Calls /\ CallInv(s)
      BY DEF TypeInv
  <1>2. s.buffer \subseteq s.taken /\ s.taken \subseteq Pages
      BY <1>1 DEF CallInv, Calls
  <1>3. \A x \in s.taken : s.jobs[x] # Queued /\ s.jobs[x] # Running
      BY <1>1 DEF CallInv, Finished, Queued, Running
  <1>4. \A x \in s.taken : Withdrawn(s)[x] = s.jobs[x]
      BY <1>2, <1>3 DEF Withdrawn
  <1>5. s.step = "read" => Kept(s)
      BY <1>1 DEF CallInv, Kept
  <1>6. ASSUME NEW p \in Pages, JobStart(q, p) \/ JobEnd(q, p)
        PROVE  /\ table' = table /\ s.step \in {"read", "stop"}
               /\ \E job : Becomes(q, s.step, [s.jobs EXCEPT ![p] = job], s.taken, s.buffer,
                                   s.deciding, s.end)
               /\ TableInv(proc[q])'
    <2>1. table' = table /\ s.step \in {"read", "stop"} /\ s.jobs[p] \in {Queued, Running}
        BY <1>6 DEF JobStart, JobEnd
    <2>2. PICK job : Becomes(q, s.step, [s.jobs EXCEPT ![p] = job], s.taken, s.buffer,
                             s.deciding, s.end)
        BY <1>6, JobStartCall, JobEndCall
    <2>3. PICK jobs : jobs = [s.jobs EXCEPT ![p] = job]
        OBVIOUS
    <2>4. \A x \in s.taken : jobs[x] = s.jobs[x]
        BY <1>1, <1>2, <1>3, <2>1, <2>3 DEF Calls
    <2>5. Becomes(q, s.step, jobs, s.taken, s.buffer, s.deciding, s.end)
        BY <2>2, <2>3
    <2>6. TableInv(proc[q])'
        BY <2>1, <2>4, <2>5, TableStays DEF Kept
    <2> QED
        BY <2>1, <2>2, <2>6
  <1>7. ASSUME NEW p \in Pages, CollectRaised(q, p) \/ Drain(q, p)
        PROVE  /\ table' = table /\ s.step \in {"read", "stop"}
               /\ \E b : Becomes(q, s.step, s.jobs, s.taken \cup {p}, b, s.deciding, s.end)
               /\ TableInv(proc[q])'
    <2>1. table' = table /\ s.step \in {"read", "stop"} /\ p \in Uncollected(s)
        BY <1>7 DEF CollectRaised, Drain
    <2>2. p \notin s.taken /\ p \notin s.buffer
        BY <2>1, Collecting
    <2>3. PICK b : /\ b \in {s.buffer, s.buffer \cup {p}}
                   /\ s.jobs[p].kind = "row" /\ Kept(s) => p \in b
                   /\ Becomes(q, s.step, s.jobs, s.taken \cup {p}, b, s.deciding, s.end)
      <3>1. CASE CollectRaised(q, p)
        <4>1. s.jobs[p].kind # "row"
            BY <3>1 DEF CollectRaised, Raised
        <4> QED
            BY <3>1, <4>1, CollectRaisedCall
      <3>2. CASE Drain(q, p)
        <4> DEFINE row == s.jobs[p].kind = "row" /\ s.end # "tripped"
                   held == IF row THEN s.buffer \cup {p} ELSE s.buffer
        <4>1. Becomes(q, s.step, s.jobs, s.taken \cup {p}, held, s.deciding, s.end)
            BY <3>2, DrainCall
        <4>2. held \in {s.buffer, s.buffer \cup {p}}
            OBVIOUS
        <4>3. s.jobs[p].kind = "row" /\ Kept(s) => p \in held
            BY DEF Kept
        <4> QED
            BY <4>1, <4>2, <4>3
      <3> QED
          BY <1>7, <3>1, <3>2
    <2>4. s.taken \ s.buffer \subseteq (s.taken \cup {p}) \ b
        BY <2>2, <2>3
    <2>5. s.end \notin {"tripped", "unwritten"} =>
            /\ Kept(s)
            /\ \A x \in ((s.taken \cup {p}) \ b) \cap Pages :
                 x \in s.taken \ s.buffer \/ s.jobs[x].kind # "row"
        BY <2>2, <2>3 DEF Kept
    <2>6. TableInv(proc[q])'
        BY <2>1, <2>3, <2>4, <2>5, TableStays
    <2> QED
        BY <2>1, <2>3, <2>6
  <1>8. ASSUME NEW p \in Pages, CollectRow(q, p), ~Full(s, s.buffer \cup {p})
        PROVE  /\ table' = table /\ s.step \in {"read", "stop"}
               /\ \E d : Becomes(q, s.step, s.jobs, s.taken \cup {p}, s.buffer \cup {p}, d, s.end)
               /\ TableInv(proc[q])'
    <2>1. table' = table /\ s.step = "read" /\ p \in Uncollected(s)
        BY <1>8 DEF CollectRow
    <2>2. p \notin s.taken /\ p \notin s.buffer
        BY <2>1, Collecting
    <2>3. PICK d : d = Deciding(s, s.buffer \cup {p})
        OBVIOUS
    <2>4. Becomes(q, s.step, s.jobs, s.taken \cup {p}, s.buffer \cup {p}, d, s.end)
        BY <1>8, <2>3, CollectRowCall
    <2>5. d => s.deciding
        BY <2>3 DEF Deciding
    <2>6. s.taken \ s.buffer \subseteq (s.taken \cup {p}) \ (s.buffer \cup {p})
        BY <2>2
    <2>7. TableInv(proc[q])'
        BY <1>5, <2>1, <2>4, <2>5, <2>6, TableStays
    <2> QED
        BY <2>1, <2>4, <2>7
  <1>9. ASSUME NEW p \in Pages, CollectTrip(q, p)
        PROVE  /\ table' = table
               /\ \E t, b, d, e : Becomes(q, "stop", Withdrawn(s), t, b, d, e)
               /\ TableInv(proc[q])'
    <2>1. table' = table /\ s.step = "read" /\ s.deciding /\ p \in Uncollected(s)
        BY <1>9 DEF CollectTrip
    <2>2. p \notin s.taken /\ p \notin s.buffer
        BY <2>1, Collecting
    <2>3. Becomes(q, "stop", Withdrawn(s), s.taken \cup {p}, s.buffer \cup {p}, s.deciding, "tripped")
        BY <1>9, CollectTripCall
    <2>4. s.taken \ s.buffer \subseteq (s.taken \cup {p}) \ (s.buffer \cup {p})
        BY <2>2
    <2>5. TableInv(proc[q])'
        BY <1>4, <2>1, <2>3, <2>4, TableStays
    <2> QED
        BY <2>1, <2>3, <2>5
  <1>10. ASSUME NEW p \in Pages, CollectUnwritten(q, p)
         PROVE  /\ table' = table
                /\ \E t, b, d, e : Becomes(q, "stop", Withdrawn(s), t, b, d, e)
                /\ TableInv(proc[q])'
    <2>1. table' = table /\ s.step = "read"
        BY <1>10 DEF CollectUnwritten
    <2>2. Becomes(q, "stop", Withdrawn(s), s.taken \cup {p}, {}, s.deciding, "unwritten")
        BY <1>10, CollectUnwrittenCall
    <2>3. TableInv(proc[q])'
        BY <1>4, <2>1, <2>2, TableStays
    <2> QED
        BY <2>1, <2>2, <2>3
  <1>11. ASSUME Interrupt(q)
         PROVE  /\ table' = table
                /\ \E t, b, d, e : Becomes(q, "stop", Withdrawn(s), t, b, d, e)
                /\ TableInv(proc[q])'
    <2>1. table' = table /\ s.step = "read"
        BY <1>11 DEF Interrupt
    <2>2. Becomes(q, "stop", Withdrawn(s), s.taken, s.buffer, s.deciding, "interrupted")
        BY <1>11, InterruptCall
    <2>3. TableInv(proc[q])'
        BY <1>4, <1>5, <2>1, <2>2, TableStays
    <2> QED
        BY <2>1, <2>2, <2>3
  <1> QED
      BY <1>6, <1>7, <1>8, <1>9, <1>10, <1>11 DEF QuietStep, Becomes

(* A full chunk is committed: a commit of Readings, after which the pages  *)
(* of the chunk hold their rows.                                           *)
LEMMA ChunkStep ==
  ASSUME TypeInv, NEW q \in Procs, TableInv(proc[q]), NEW p \in Pages, CollectRow(q, p),
         Full(proc[q], proc[q].buffer \cup {p})
  PROVE  /\ Store!Next
         /\ proc' = [r \in Procs |-> IF r = q THEN proc'[q] ELSE proc[r]]
         /\ TableInv(proc[q])'
  <1> DEFINE s == proc[q]
             u == proc'[q]
             held == s.buffer \cup {p}
  <1>1. s \in Calls /\ CallInv(s)
      BY DEF TypeInv
  <1>2. /\ s.step = "read" /\ p \in Uncollected(s) /\ s.jobs[p].kind = "row" /\ Write(s, held)
      BY DEF CollectRow
  <1>3. p \notin s.taken /\ held \subseteq Pages /\ Kept(s)
      BY <1>1, <1>2, Collecting DEF Calls, CallInv, Kept
  <1>4. ASSUME NEW x \in held
        PROVE  s.jobs[x].kind = "row" /\ x \in Misses(s) /\ table[x] = s.seen[x]
    <2>1. s.jobs[x].kind = "row"
        BY <1>1, <1>2 DEF CallInv
    <2>2. x \in Misses(s)
        BY <1>1, <1>3, <2>1 DEF CallInv, NoJob
    <2>3. x \notin s.taken \ s.buffer
        BY <1>3
    <2> QED
        BY <1>2, <1>3, <2>1, <2>2, <2>3 DEF TableInv
  <1>5. Store!Next
      BY <1>2, <1>3, <1>4, WriteRecords
  <1>6. Becomes(q, s.step, s.jobs, s.taken \cup {p}, {}, Deciding(s, held), s.end)
      BY CollectRowCall
  <1>7. /\ u.step = "read" /\ u.jobs = s.jobs /\ u.taken = s.taken \cup {p} /\ u.buffer = {}
        /\ u.deciding = Deciding(s, held) /\ u.end = s.end /\ u.seen = s.seen /\ u.parser = s.parser
      BY <1>2, <1>6 DEF Becomes
  <1>8. ~u.deciding
      BY <1>7 DEF Full
  <1>9. Misses(u) = Misses(s) /\ \A x : Unbought(u, x) = Unbought(s, x)
      BY <1>7, SortSame
  <1>10. ASSUME NEW x \in Pages
         PROVE  /\ x \notin Misses(u) => table'[x] = Unbought(u, x)
                /\ x \in Misses(u) \ (u.taken \ u.buffer) => table'[x] = u.seen[x]
                /\ x \in u.taken \ u.buffer /\ u.jobs[x].kind = "row" /\ Kept(u)
                     => table'[x] = u.jobs[x].row
    <2>1. /\ x \notin Misses(s) => table[x] = Unbought(s, x)
          /\ x \in Misses(s) \ (s.taken \ s.buffer) => table[x] = s.seen[x]
          /\ x \in s.taken \ s.buffer /\ s.jobs[x].kind = "row" /\ Kept(s)
               => table[x] = s.jobs[x].row
        BY <1>2 DEF TableInv
    <2>2. table'[x] = IF x \in held THEN s.jobs[x].row ELSE table[x]
        BY <1>2 DEF Write
    <2>3. CASE x \in held
        BY <1>1, <1>4, <1>7, <1>9, <2>2, <2>3 DEF CallInv
    <2>4. CASE x \notin held
        BY <1>3, <1>7, <1>9, <2>1, <2>2, <2>4
    <2> QED
        BY <2>3, <2>4
  <1>11. TableInv(proc[q])'
      BY <1>7, <1>8, <1>10 DEF TableInv
  <1> QED
      BY <1>5, <1>6, <1>11 DEF Becomes

(* The end of a call: what is held is committed, as one commit of          *)
(* Readings; unless the call was stopped by the breaker or by a commit     *)
(* that failed, every row is then on the table.                            *)
LEMMA FlushStep ==
  ASSUME TypeInv, NEW q \in Procs, TableInv(proc[q]), Flush(q)
  PROVE  LET s == proc[q] IN
         /\ Store!Next
         /\ \A x \in Pages : x \notin Misses(s) => table'[x] = Unbought(s, x)
         /\ Kept(s) => \A x \in Pages : s.jobs[x].kind = "row" => table'[x] = s.jobs[x].row
         /\ s.end = "tripped" => \A x \in Misses(s) : table'[x] = s.seen[x]
  <1> DEFINE s == proc[q]
  <1>1. s \in Calls /\ CallInv(s)
      BY DEF TypeInv
  <1>2. s.step \in {"read", "stop"} /\ Uncollected(s) = {} /\ Write(s, Held(s))
      BY DEF Flush
  <1>3. Held(s) \subseteq Pages /\ Held(s) \subseteq s.buffer
      BY <1>1 DEF Calls, Held
  <1>4. ASSUME NEW x \in Held(s)
        PROVE  s.jobs[x].kind = "row" /\ x \in Misses(s) /\ table[x] = s.seen[x]
    <2>1. x \in Pages /\ s.jobs[x].kind = "row"
        BY <1>1, <1>3 DEF CallInv
    <2>2. x \in Misses(s)
        BY <1>1, <2>1 DEF CallInv, NoJob
    <2> QED
        BY <1>2, <1>3, <2>1, <2>2 DEF TableInv
  <1>5. Store!Next
      BY <1>2, <1>3, <1>4, WriteRecords
  <1>6. \A x \in Pages : table'[x] = IF x \in Held(s) THEN s.jobs[x].row ELSE table[x]
      BY <1>2 DEF Write
  <1>7. \A x \in Pages : x \notin Misses(s) => table'[x] = Unbought(s, x)
      BY <1>2, <1>4, <1>6 DEF TableInv
  <1>8. ASSUME Kept(s), NEW x \in Pages, s.jobs[x].kind = "row"
        PROVE  table'[x] = s.jobs[x].row
    <2>1. x \in s.taken
        BY <1>2, <1>8 DEF Uncollected
    <2>2. Held(s) = s.buffer
        BY <1>8 DEF Held, Kept
    <2>3. CASE x \in s.buffer
        BY <1>6, <2>2, <2>3
    <2>4. CASE x \notin s.buffer
        BY <1>2, <1>6, <1>8, <2>1, <2>2, <2>4 DEF TableInv
    <2> QED
        BY <2>3, <2>4
  <1>9. ASSUME s.end = "tripped", NEW x \in Misses(s)
        PROVE  table'[x] = s.seen[x]
    <2>1. Held(s) = {} /\ s.step = "stop" /\ x \in Pages
        BY <1>1, <1>2, <1>9 DEF Held, CallInv, Misses
    <2>2. table[x] = s.seen[x]
        BY <1>9, <2>1 DEF TableInv
    <2> QED
        BY <1>6, <2>1, <2>2
  <1> QED
      BY <1>5, <1>7, <1>8, <1>9

(* The parse failures that parse today are stored: the other commit of     *)
(* Readings.                                                               *)
LEMMA SubmitStep ==
  ASSUME TypeInv, NEW q \in Procs, TableInv(proc[q]), Submit(q)
  PROVE  /\ Store!Next
         /\ \A x \in Pages : table'[x] = Unbought(proc[q], x)
         /\ proc' = [r \in Procs |-> IF r = q THEN proc'[q] ELSE proc[r]]
         /\ proc'[q].step # "idle" => TableInv(proc[q])'
  <1> DEFINE s == proc[q]
             u == proc'[q]
  <1>1. s \in Calls /\ CallInv(s) /\ s.step = "lookup"
      BY DEF TypeInv, Submit
  <1>2. table = s.seen /\ s.taken = {} /\ s.buffer = {}
      BY <1>1 DEF TableInv, CallInv
  <1>3. table' = [p \in Pages |-> IF p \in Reparses(s) THEN Store!Reparsed(s.seen[p]) ELSE table[p]]
      BY DEF Submit
  <1>4. Reparses(s) \subseteq Pages /\ \A p \in Reparses(s) : Store!Reparsable(table[p])
      BY <1>2 DEF Reparses
  <1>5. Store!Recover(Reparses(s))
      BY <1>2, <1>3, <1>4 DEF Store!Recover
  <1>6. Store!Next
      BY <1>4, <1>5 DEF Store!Next
  <1>7. \A x \in Pages : table'[x] = Unbought(s, x)
      BY <1>2, <1>3 DEF Unbought
  <1>8. /\ proc' = [r \in Procs |-> IF r = q THEN proc'[q] ELSE proc[r]]
        /\ u.seen = s.seen /\ u.parser = s.parser /\ u.taken = {} /\ u.buffer = {}
        /\ u.step \in {"idle", "read"} /\ (u.step = "read" => u.end = s.end)
      BY <1>2, SubmitCall DEF Becomes
  <1>9. Misses(u) = Misses(s) /\ \A x : Unbought(u, x) = Unbought(s, x)
      BY <1>8, SortSame
  <1>10. \A x \in Misses(s) : x \in Pages /\ Unbought(s, x) = s.seen[x]
      BY DEF Misses, Unbought
  <1>11. TableInv(proc[q])'
      BY <1>7, <1>8, <1>9, <1>10 DEF TableInv
  <1> QED
      BY <1>6, <1>7, <1>8, <1>11

(* A step of a live call, as the cases the proofs tell apart.              *)
LEMMA LiveCases ==
  ASSUME NEW q \in Procs, ReadPages(q)
  PROVE  \/ \E buy \in BOOLEAN : Lookup(q, buy)
         \/ Live(q) /\ \/ Submit(q)
                       \/ QuietStep(q)
                       \/ \E p \in Pages : CollectRow(q, p) /\ Full(proc[q], proc[q].buffer \cup {p})
                       \/ Flush(q)
                       \/ FlushUnwritten(q) \/ Crash(q)
  BY DEF ReadPages, QuietStep, Live, Submit, JobStart, JobEnd, CollectRaised, CollectRow,
         CollectTrip, CollectUnwritten, Interrupt, Drain, Flush, FlushUnwritten, Crash

(* With one live call at a time, each knows what the table holds of its    *)
(* pages, and every step is a commit of Readings or leaves the table.      *)
LEMMA LiveStep ==
  ASSUME TypeInv, LiveInv, Alone, [Next]_vars
  PROVE  LiveInv' /\ [Store!Next]_table
  <1>1. ASSUME NEW q \in Procs, ReadPages(q)
        PROVE  LiveInv' /\ [Store!Next]_table
    <2> DEFINE s == proc[q]
    <2>1. s \in Calls /\ CallInv(s)
        BY DEF TypeInv
    <2>2. Live(q) => TableInv(proc[q])
        BY DEF LiveInv
    <2>3. CASE \E buy \in BOOLEAN : Lookup(q, buy)
      <3>1. PICK buy \in BOOLEAN : Lookup(q, buy)
          BY <2>3
      <3>2. \A r \in Procs : ~Live(r) \/ r = q
          BY <3>1 DEF Lookup, Alone
      <3>3. /\ proc' = [r \in Procs |-> IF r = q THEN proc'[q] ELSE proc[r]]
            /\ proc'[q].seen = table /\ proc'[q].step = "lookup" /\ table' = table
          BY <3>1, LookupCall DEF Lookup
      <3>4. TableInv(proc[q])'
          BY <3>3 DEF TableInv
      <3> QED
          BY <3>2, <3>3, <3>4, OwnCall
    <2>4. CASE Live(q) /\ Submit(q)
      <3>1. /\ Store!Next
            /\ proc' = [r \in Procs |-> IF r = q THEN proc'[q] ELSE proc[r]]
            /\ proc'[q].step # "idle" => TableInv(proc[q])'
          BY <2>2, <2>4, SubmitStep
      <3>2. Live(q)' => proc'[q].step # "idle"
          BY DEF Live
      <3> QED
          BY <2>4, <3>1, <3>2, OwnCall
    <2>5. CASE Live(q) /\ QuietStep(q)
      <3>1. /\ table' = table
            /\ proc' = [r \in Procs |-> IF r = q THEN proc'[q] ELSE proc[r]]
            /\ TableInv(proc[q])'
          BY <2>2, <2>5, QuietSteps
      <3> QED
          BY <2>5, <3>1, OwnCall
    <2>6. CASE Live(q) /\ \E p \in Pages : CollectRow(q, p) /\ Full(proc[q], proc[q].buffer \cup {p})
      <3>1. /\ Store!Next
            /\ proc' = [r \in Procs |-> IF r = q THEN proc'[q] ELSE proc[r]]
            /\ TableInv(proc[q])'
          BY <2>2, <2>6, ChunkStep
      <3> QED
          BY <2>6, <3>1, OwnCall
    <2>7. CASE Live(q) /\ (Flush(q) \/ FlushUnwritten(q) \/ Crash(q))
      <3>1. [Store!Next]_table
          BY <2>2, <2>7, FlushStep DEF FlushUnwritten, Crash
      <3>2. /\ proc' = [r \in Procs |-> IF r = q THEN proc'[q] ELSE proc[r]]
            /\ proc'[q].step = "idle"
          BY <2>7, FlushCall, FlushUnwrittenCall, CrashCall DEF Becomes
      <3>3. ~Live(q)'
          BY <3>2 DEF Live
      <3> QED
          BY <2>7, <3>1, <3>2, <3>3, OwnCall
    <2> QED
        BY <1>1, <2>3, <2>4, <2>5, <2>6, <2>7, LiveCases
  <1>2. CASE ImproveParser
      BY <1>2 DEF ImproveParser, LiveInv, Live, TableInv
  <1>3. CASE UNCHANGED vars
      BY <1>3 DEF vars, LiveInv, Live, TableInv
  <1> QED
      BY <1>1, <1>2, <1>3 DEF Next

(* Before the first call nothing is bought, and no call has ended.         *)
LEMMA InitLive == Init => LiveInv /\ PaidAnswersRecorded
  <1>1. NoCall.step = "idle" /\ NoCall.end = "none"
      BY DEF NoCall
  <1> QED
      BY <1>1 DEF Init, LiveInv, Live, PaidAnswersRecorded

(* What was paid for is on the table when the call is over, and no later   *)
(* commit takes it away.                                                   *)
LEMMA PaidStep ==
  ASSUME TypeInv, LiveInv, PaidAnswersRecorded, Alone, [Next]_vars
  PROVE  PaidAnswersRecorded'
  <1>1. \A p \in Pages : Store!Hit(table[p]) => Store!Hit(table'[p])
      BY LiveStep, HitsStay DEF TypeInv
  <1>2. SUFFICES ASSUME NEW q \in Procs, NEW p \in Pages,
                        proc'[q].step = "idle",
                        proc'[q].end \in {"returned", "raised", "interrupted"},
                        proc'[q].jobs[p].kind = "row", Store!Hit(proc'[q].jobs[p].row)
                 PROVE  Store!Hit(table'[p])
      BY DEF PaidAnswersRecorded
  <1>3. CASE proc'[q] = proc[q]
      BY <1>1, <1>2, <1>3 DEF PaidAnswersRecorded
  <1>4. CASE ReadPages(q)
    <2>1. Live(q) => TableInv(proc[q])
        BY DEF LiveInv
    <2>2. CASE \E buy \in BOOLEAN : Lookup(q, buy)
        BY <1>2, <2>2, LookupCall
    <2>3. CASE Live(q) /\ Submit(q)
      <3>1. proc[q].step = "lookup" /\ CallInv(proc[q])
          BY <2>3 DEF Submit, TypeInv
      <3>2. proc[q].jobs[p] = NoJob
          BY <3>1 DEF CallInv
      <3>3. proc'[q].step = "idle" => proc'[q].jobs = proc[q].jobs
          BY <2>3, SubmitCall DEF Becomes
      <3> QED
          BY <1>2, <3>2, <3>3 DEF NoJob
    <2>4. CASE Live(q) /\ QuietStep(q)
        BY <1>2, <2>1, <2>4, QuietSteps
    <2>5. CASE Live(q) /\ \E x \in Pages : CollectRow(q, x) /\ Full(proc[q], proc[q].buffer \cup {x})
      <3>1. PICK x \in Pages : CollectRow(q, x)
          BY <2>5
      <3>2. proc'[q].step = proc[q].step /\ proc[q].step = "read"
          BY <3>1, CollectRowCall DEF Becomes, CollectRow
      <3> QED
          BY <1>2, <3>2
    <2>6. CASE Live(q) /\ Flush(q)
      <3>1. proc'[q].end = EndOf(proc[q]) /\ proc'[q].jobs = proc[q].jobs
          BY <2>6, FlushCall DEF Becomes
      <3>2. proc[q].step \in {"read", "stop"} /\ CallInv(proc[q])
          BY <2>6 DEF Flush, TypeInv
      <3>3. Kept(proc[q])
          BY <1>2, <3>1, <3>2 DEF EndOf, CallInv, Kept
      <3> QED
          BY <1>2, <2>1, <2>6, <3>1, <3>3, FlushStep
    <2>7. CASE Live(q) /\ (FlushUnwritten(q) \/ Crash(q))
      <3>1. proc'[q].end \in {"unwritten", "dead"}
          BY <2>7, FlushUnwrittenCall, CrashCall DEF Becomes
      <3> QED
          BY <1>2, <3>1
    <2> QED
        BY <1>4, <2>2, <2>3, <2>4, <2>5, <2>6, <2>7, LiveCases
  <1>5. CASE \E r \in Procs : r # q /\ ReadPages(r)
    <2>1. PICK r \in Procs : r # q /\ ReadPages(r)
        BY <1>5
    <2>2. proc'[q] = proc[q]
        BY <2>1 DEF ReadPages, Lookup, Submit, JobStart, JobEnd, CollectRaised, CollectRow,
                    CollectTrip, CollectUnwritten, Interrupt, Drain, Flush, FlushUnwritten, Crash,
                    TypeInv
    <2> QED
        BY <1>3, <2>2
  <1>6. CASE ImproveParser \/ UNCHANGED vars
      BY <1>3, <1>6 DEF ImproveParser, vars
  <1> QED
      BY <1>4, <1>5, <1>6 DEF Next

(* A worker at work is at work on a page that has no reading and attempts  *)
(* left.                                                                   *)
LEMMA LiveBuysMissing == TypeInv /\ LiveInv => BuysOnlyMissing
  <1> SUFFICES ASSUME TypeInv, LiveInv, NEW q \in Procs, NEW p \in Pages,
                      proc[q].jobs[p].kind = "running", Live(q)
               PROVE  ~Store!Hit(table[p]) /\ table[p].errors < MaxErrors
      BY DEF BuysOnlyMissing
  <1> DEFINE s == proc[q]
  <1>1. s \in Calls /\ CallInv(s) /\ TableInv(s)
      BY DEF TypeInv, LiveInv
  <1>2. s.step \in {"read", "stop"}
      BY <1>1 DEF Live, CallInv, NoJob
  <1>3. p \in Misses(s) /\ p \notin s.taken
      BY <1>1 DEF CallInv, Finished, NoJob
  <1>4. table[p] = s.seen[p]
      BY <1>1, <1>2, <1>3 DEF TableInv
  <1> QED
      BY <1>1, <1>3, <1>4, RowsFromTyped

(* When no two calls on the same pages are live at once, the table behaves *)
(* as Readings promises, for any pages, pool, chunk and breaker, and       *)
(* through every stop, lost commit and crash.                              *)
THEOREM ReadingsKept ==
  ASSUME Alone
  PROVE  Spec => KeepsReadings
  <1>1. Init => Store!Init
      BY DEF Init, Store!Init
  <1>2. TypeInv /\ LiveInv /\ [Next]_vars => LiveInv' /\ [Store!Next]_table
      BY LiveStep
  <1>3. Spec => [](TypeInv /\ LiveInv)
      BY <1>2, InitTypes, TypeStep, InitLive, PTL DEF Spec
  <1> QED
      BY <1>1, <1>2, <1>3, PTL DEF Spec, KeepsReadings, Store!Spec

(* Under the same practice a page is sent to a model only for a reading it *)
(* has not, and what was paid for is on the table when the call is over.   *)
THEOREM MoneyIsNotLost ==
  ASSUME Alone
  PROVE  Spec => []MoneyBuysReadings
  <1>1. Init => IInv
      BY InitTypes, InitLive DEF IInv
  <1>2. IInv /\ [Next]_vars => IInv'
      BY TypeStep, LiveStep, PaidStep DEF IInv
  <1>3. IInv => MoneyBuysReadings
      BY LiveBuysMissing DEF IInv, MoneyBuysReadings
  <1> QED
      BY <1>1, <1>2, <1>3, PTL DEF Spec

-----------------------------------------------------------------------------
(* What a call's end says of the table, until the next call begins: with   *)
(* one process.                                                            *)
Sole == \A q, r \in Procs : q = r

(* A page that is not bought is a hit after the lookup just when it was    *)
(* one, or its parse failure was read.                                     *)
LEMMA UnboughtHits ==
  ASSUME NEW s \in Calls, NEW p \in Pages, p \notin Misses(s)
  PROVE  /\ Store!Hit(Unbought(s, p)) <=> p \in Hits(s) \cup Reparses(s)
         /\ p \in Hits(s) \cup Reparses(s) \cup Skipped(s)
         /\ p \in Hits(s) \cup Reparses(s) => p \notin Skipped(s)
  <1>1. s.seen[p] \in Store!Rows
      BY DEF Calls
  <1>2. p \in Hits(s) \cup Reparses(s) \cup Skipped(s)
      BY DEF Misses
  <1>3. CASE p \in Reparses(s)
      BY <1>1, <1>3 DEF Reparses, Skipped, Unbought, Store!Rows, Store!Hit, Store!Reparsable,
                        Store!Reparsed
  <1>4. CASE p \notin Reparses(s)
      BY <1>2, <1>4 DEF Hits, Skipped, Unbought, Store!OutOfAttempts
  <1> QED
      BY <1>2, <1>3, <1>4

(* A row bought for a page is an answer, or one error more.                *)
LEMMA BoughtRows ==
  ASSUME NEW s \in Calls, NEW p \in Misses(s), NEW row \in RowsFrom(s, p)
  PROVE  ~Store!Hit(row) => row.errors = s.seen[p].errors + 1
  <1>1. s.seen[p] \in Store!Rows
      BY DEF Calls, Misses
  <1>2. \A a \in Answers : Store!Hit(Store!Answered(s.seen[p], a))
      BY <1>1, PagesAssumption DEF Store!Rows, Store!Hit, Store!Answered
  <1>3. \A t : Store!Errored(s.seen[p], t).errors = s.seen[p].errors + 1
      BY DEF Store!Errored
  <1> QED
      BY <1>2, <1>3 DEF RowsFrom

EndsTell == TripCostsNothing /\ ReportIsTable

(* What an ended call reports stays true of the table.                     *)
LEMMA EndsStep ==
  ASSUME TypeInv, LiveInv, EndsTell, Sole, [Next]_vars
  PROVE  EndsTell'
  <1>3. CASE ImproveParser \/ UNCHANGED vars
      BY <1>3 DEF ImproveParser, vars, EndsTell, TripCostsNothing, ReportIsTable
  <1>4. ASSUME NEW q \in Procs, ReadPages(q)
        PROVE  EndsTell'
    <2> DEFINE s == proc[q]
               u == proc'[q]
    <2>1. s \in Calls /\ CallInv(s) /\ (Live(q) => TableInv(s))
        BY DEF TypeInv, LiveInv
    <2>2. \A r \in Procs : r = q
        BY DEF Sole
    <2>3. SUFFICES ASSUME u.step = "idle"
                   PROVE  /\ u.end = "tripped" => \A p \in Misses(u) : table'[p] = u.seen[p]
                          /\ u.end = "returned" =>
                               /\ \A p \in Pages : Store!Hit(table'[p]) <=> p \in Responses(u)
                               /\ \A p \in Failed(u) : /\ p \notin Skipped(u)
                                                       /\ table'[p].errors = u.seen[p].errors + 1
                               /\ Pages = Responses(u) \cup Skipped(u) \cup Failed(u)
        BY <2>2 DEF EndsTell, TripCostsNothing, ReportIsTable
    <2>4. CASE \E buy \in BOOLEAN : Lookup(q, buy)
        BY <2>3, <2>4, LookupCall
    <2>5. CASE Live(q) /\ Submit(q)
      <3>1. /\ u.jobs = s.jobs /\ u.seen = s.seen /\ u.parser = s.parser
            /\ u.end = "returned" => Misses(s) = {}
            /\ u.end # "tripped"
          BY <2>3, <2>5, SubmitCall DEF Becomes
      <3>2. /\ Hits(u) = Hits(s) /\ Reparses(u) = Reparses(s) /\ Skipped(u) = Skipped(s)
          BY <3>1, SortSame
      <3>3. \A p \in Pages : s.jobs[p].kind # "row"
        <4>1. s.step = "lookup"
            BY <2>5 DEF Submit
        <4> QED
            BY <2>1, <4>1 DEF CallInv, NoJob
      <3>4. Responses(u) = Hits(s) \cup Reparses(s) /\ Failed(u) = {}
          BY <3>1, <3>2, <3>3 DEF Responses, Failed
      <3>5. ASSUME u.end = "returned", NEW p \in Pages
            PROVE  /\ Store!Hit(table'[p]) <=> p \in Responses(u)
                   /\ p \in Responses(u) \cup Skipped(u)
        <4>1. table'[p] = Unbought(s, p) /\ p \notin Misses(s)
            BY <2>1, <2>5, <3>1, <3>5, SubmitStep
        <4> QED
            BY <2>1, <3>2, <3>4, <4>1, UnboughtHits
      <3>6. Responses(u) \subseteq Pages /\ Skipped(u) \subseteq Pages /\ Failed(u) \subseteq Pages
          BY DEF Responses, Skipped, Failed, Hits, Reparses
      <3> QED
          BY <3>1, <3>4, <3>5, <3>6
    <2>6. CASE Live(q) /\ QuietStep(q)
        BY <2>1, <2>3, <2>6, QuietSteps
    <2>7. CASE Live(q) /\ \E x \in Pages : CollectRow(q, x) /\ Full(proc[q], proc[q].buffer \cup {x})
      <3>1. PICK x \in Pages : CollectRow(q, x)
          BY <2>7
      <3>2. u.step = s.step /\ s.step = "read"
          BY <3>1, CollectRowCall DEF Becomes, CollectRow
      <3> QED
          BY <2>3, <3>2
    <2>8. CASE Live(q) /\ (FlushUnwritten(q) \/ Crash(q))
      <3>1. u.end \in {"unwritten", "dead"}
          BY <2>8, FlushUnwrittenCall, CrashCall DEF Becomes
      <3> QED
          BY <3>1
    <2>9. CASE Live(q) /\ Flush(q)
      <3>1. u.end = EndOf(s) /\ u.jobs = s.jobs /\ u.seen = s.seen /\ u.parser = s.parser
          BY <2>9, FlushCall DEF Becomes
      <3>2. /\ Hits(u) = Hits(s) /\ Reparses(u) = Reparses(s) /\ Skipped(u) = Skipped(s)
            /\ Misses(u) = Misses(s)
          BY <3>1, SortSame
      <3>3. s.step \in {"read", "stop"} /\ Uncollected(s) = {}
          BY <2>9 DEF Flush
      <3>4. ASSUME u.end = "tripped" PROVE \A p \in Misses(u) : table'[p] = u.seen[p]
        <4>1. s.end = "tripped"
            BY <3>1, <3>4 DEF EndOf
        <4> QED
            BY <2>1, <2>9, <3>1, <3>2, <4>1, FlushStep
      <3>5. ASSUME u.end = "returned"
            PROVE  s.step = "read" /\ Kept(s) /\ \A p \in Misses(s) : s.jobs[p].kind = "row"
        <4>1. s.step = "read" /\ \A p \in Pages : s.jobs[p] # Raised
            BY <2>1, <3>1, <3>3, <3>5 DEF EndOf, CallInv
        <4>2. Kept(s)
            BY <2>1, <4>1 DEF CallInv, Kept
        <4>3. ASSUME NEW p \in Misses(s) PROVE s.jobs[p].kind = "row"
          <5>1. p \in Pages /\ s.jobs[p] \in Jobs
              BY <2>1 DEF Misses, Calls
          <5>2. s.jobs[p].kind \in {"queued", "running", "row", "raised"}
              BY <2>1, <4>1 DEF CallInv
          <5>3. s.jobs[p].kind # "raised"
              BY <4>1, <5>1, JobKinds
          <5>4. s.jobs[p].kind \in {"queued", "running"} => p \in s.taken
              BY <3>3, <5>1 DEF Uncollected
          <5>5. p \in s.taken => s.jobs[p].kind \notin {"queued", "running"}
              BY <2>1 DEF CallInv, Finished
          <5> QED
              BY <5>2, <5>3, <5>4, <5>5
        <4> QED
            BY <4>1, <4>2, <4>3
      <3>6. ASSUME u.end = "returned", NEW p \in Pages
            PROVE  /\ Store!Hit(table'[p]) <=> p \in Responses(u)
                   /\ p \in Failed(u) => /\ p \notin Skipped(u)
                                         /\ table'[p].errors = u.seen[p].errors + 1
                   /\ p \in Responses(u) \cup Skipped(u) \cup Failed(u)
        <4>1. CASE p \in Misses(s)
          <5>1. s.jobs[p].kind = "row" /\ Kept(s)
              BY <3>5, <3>6, <4>1
          <5>2. table'[p] = s.jobs[p].row
              BY <2>1, <2>9, <5>1, FlushStep
          <5>3. s.jobs[p].row \in RowsFrom(s, p)
              BY <2>1, <5>1 DEF CallInv
          <5>4. p \notin Hits(s) /\ p \notin Reparses(s) /\ p \notin Skipped(s)
              BY <4>1 DEF Misses
          <5>5. p \in Responses(u) <=> Store!Hit(s.jobs[p].row)
              BY <3>1, <3>2, <5>1, <5>4 DEF Responses
          <5>6. p \in Failed(u) <=> ~Store!Hit(s.jobs[p].row)
              BY <3>1, <5>1 DEF Failed
          <5>7. ~Store!Hit(s.jobs[p].row) => s.jobs[p].row.errors = s.seen[p].errors + 1
              BY <2>1, <4>1, <5>3, BoughtRows
          <5> QED
              BY <3>1, <3>2, <5>2, <5>4, <5>5, <5>6, <5>7
        <4>2. CASE p \notin Misses(s)
          <5>1. s.jobs[p].kind # "row"
              BY <2>1, <4>2 DEF CallInv, NoJob
          <5>2. table'[p] = Unbought(s, p)
              BY <2>1, <2>9, <4>2, FlushStep
          <5>3. (p \in Responses(u) <=> p \in Hits(s) \cup Reparses(s)) /\ p \notin Failed(u)
              BY <3>1, <3>2, <5>1 DEF Responses, Failed
          <5> QED
              BY <2>1, <3>2, <4>2, <5>2, <5>3, UnboughtHits
        <4> QED
            BY <4>1, <4>2
      <3>7. Responses(u) \subseteq Pages /\ Skipped(u) \subseteq Pages /\ Failed(u) \subseteq Pages
          BY DEF Responses, Skipped, Failed, Hits, Reparses
      <3> QED
          BY <3>4, <3>6, <3>7
    <2> QED
        BY <1>4, <2>4, <2>5, <2>6, <2>7, <2>8, <2>9, LiveCases
  <1> QED
      BY <1>3, <1>4 DEF Next

(* A lone process's calls report what the table holds, throughout.         *)
LEMMA SoleEndsTell ==
  ASSUME Sole
  PROVE  Spec => []EndsTell
  <1>1. Alone
      BY DEF Alone, Sole
  <1>2. Init => TypeInv /\ LiveInv /\ EndsTell
    <2>1. NoCall.end = "none"
        BY DEF NoCall
    <2>2. Init => EndsTell
        BY <2>1 DEF Init, EndsTell, TripCostsNothing, ReportIsTable
    <2> QED
        BY <2>2, InitTypes, InitLive
  <1>3. TypeInv /\ LiveInv /\ EndsTell /\ [Next]_vars => (TypeInv /\ LiveInv /\ EndsTell)'
      BY <1>1, TypeStep, LiveStep, EndsStep
  <1> QED
      BY <1>2, <1>3, PTL DEF Spec

(* With one process, a run the breaker stops has cost no page an attempt.  *)
THEOREM TrippedRunsAreFree ==
  ASSUME Sole
  PROVE  Spec => []TripCostsNothing
  <1>1. EndsTell => TripCostsNothing
      BY DEF EndsTell
  <1> QED
      BY <1>1, SoleEndsTell, PTL

(* And what a call that returns reports is what the table holds.           *)
THEOREM ReportsAreTheTable ==
  ASSUME Sole
  PROVE  Spec => []ReportIsTable
  <1>1. EndsTell => ReportIsTable
      BY DEF EndsTell
  <1> QED
      BY <1>1, SoleEndsTell, PTL
=============================================================================
