----------------------------- MODULE ReadingRun -----------------------------
(***************************************************************************)
(* The whole reading run of a frame (placeholder_recovery/frame.py, run)   *)
(* and the page gate it drives (page_verdicts.py, agree): the cost gate's  *)
(* stored-only pass, the base readers as child processes, transcribe,      *)
(* transcribe again for what failed, and the final stored-only check.      *)
(* Each reading of pages by a model is one call of read_pages, taken at    *)
(* what Readings promises of it, its re-parse of stored failures included. *)
(* A run can stop at any point, any number of times; the same command is   *)
(* then given again, perhaps from newer code.                              *)
(***************************************************************************)
EXTENDS Naturals, Sequences, FiniteSets

CONSTANTS
  Pages,        \* the frame's attachment pages
  Base,         \* policy["base"]: Seq of one or two readers
  Escalation,   \* policy["escalation"]: Seq of readers
  LoadSingle,   \* BOOLEAN: the flagged rule is load_single, not leave_out
  EmptyOther,   \* BOOLEAN: the policy has the not_a_list rule
  Answers,      \* what a reader can return for a page, equal pairs being one
  Empty,        \* the answers without a (name, amount) pair
  Others,       \* those of them labelled other
  Lists,        \* the answers labelled as a list
  Garbled,      \* bound: those a parser short of today's fails to read
  MaxErrors,    \* max_errors
  None          \* no reading, no verdict

Readers == Base \o Escalation
ReaderSet == {Readers[i] : i \in 1 .. Len(Readers)}

(* check_policy: one or two base readers, no reader twice, a flagged rule, *)
(* and the not_a_list rule only for a base pair.                           *)
CheckPolicy ==
  /\ Len(Base) \in 1 .. 2
  /\ \A i, j \in 1 .. Len(Readers) : Readers[i] = Readers[j] => i = j
  /\ LoadSingle \in BOOLEAN /\ EmptyOther \in BOOLEAN
  /\ EmptyOther => Len(Base) = 2

ASSUME PolicyAssumption ==
  /\ Base \in Seq(ReaderSet) /\ Escalation \in Seq(ReaderSet)
  /\ CheckPolicy

(* A page's verdict.                                                       *)
Verdicts == [kind : {"agreed", "not_a_list", "escalated", "unreadable", "flagged"},
             accepted : ReaderSet \cup {None}, matched : Seq(ReaderSet),
             consulted : 1 .. Len(Readers)]

ASSUME ReadingAssumption ==
  /\ Others \subseteq Empty \ Lists /\ Empty \cup Lists \subseteq Answers /\ None \notin Answers
  /\ Garbled \subseteq Answers
  /\ MaxErrors \in Nat \ {0}
  /\ None \notin Verdicts

VARIABLES
  table,     \* page_readings
  verdicts,  \* page_verdicts of this policy version and these images
  improved,  \* today's parser reads the stored parse failures
  run,       \* the run: its step, its parser, the base readers still to finish
  gate,      \* the agree call of the current step
  recovered  \* history: the pages with a verdict that a stored failure of
             \* theirs was re-parsed after, and that no stage decided since

vars == <<table, verdicts, improved, run, gate, recovered>>

Store == INSTANCE Readings WITH Keys <- Pages \X ReaderSet

Read(p, m) == Store!Hit(table[<<p, m>>])
Reading(p, m) == table[<<p, m>>].answer
Absent(p, m) == Store!OutOfAttempts(table[<<p, m>>])

-----------------------------------------------------------------------------
(* reading_pairs.agree_on: equal pairs, at least one.                      *)
AgreeOn(a, b) == a = b /\ a \notin Empty

NoGate == [phase |-> "none", at |-> 0, batch |-> {}, failed |-> {}, written |-> {}, buy |-> FALSE]
NewGate(buy) == [NoGate EXCEPT !.phase = "consult", !.at = 1, !.batch = Pages, !.buy = buy]
Idle == [step |-> "idle", left |-> {}, broke |-> FALSE, parser |-> FALSE]
Stopped == [Idle EXCEPT !.step = "stopped"]

Init ==
  /\ table = [k \in Pages \X ReaderSet |-> Store!NoRow]
  /\ verdicts = [p \in Pages |-> None]
  /\ improved = FALSE
  /\ run = Idle
  /\ gate = NoGate
  /\ recovered = {}

(* read_pages of model m on some pages.  The stored failures the call's    *)
(* parser reads become readings, whatever their errors.  The pages still   *)
(* without a reading and with attempts left are read: each is answered, or *)
(* errs, perhaps leaving a text that this parser does not read.            *)
Reparses(m, pages, parser) == {p \in pages : parser /\ Store!Reparsable(table[<<p, m>>])}
Missing(m, pages, parser) ==
  {p \in pages : ~Read(p, m) /\ ~Absent(p, m)} \ Reparses(m, pages, parser)

Outcomes(parser) ==
  [answer : Answers, text : {None}]
    \cup [answer : {None}, text : {None} \cup (IF parser THEN {} ELSE Garbled)]

RowOf(row, outcome) ==
  IF outcome.answer # None THEN Store!Answered(row, outcome.answer)
  ELSE Store!Errored(row, outcome.text)

(* A verdict is behind the table once a reading of its page is re-parsed.  *)
Behind(pages) == recovered \cup {p \in pages : verdicts[p] # None}

(* The rows re-parsed, then those read.                                    *)
Results(m, reparsed, result) ==
  /\ table' = [k \in DOMAIN table |->
                 IF k[2] # m THEN table[k]
                 ELSE IF k[1] \in reparsed THEN Store!Reparsed(table[k])
                 ELSE IF k[1] \in DOMAIN result THEN RowOf(table[k], result[k[1]])
                 ELSE table[k]]
  /\ recovered' = Behind(reparsed)

(* A call cut short (its breaker, a failed write, a Ctrl-C, a kill) has    *)
(* stored some of the re-parsed rows, or all of them and some of those     *)
(* that it could buy.                                                      *)
PartResults(m, pages, parser, buy) ==
  LET all == Reparses(m, pages, parser) IN
  \E reparsed \in SUBSET all :
    \E bought \in SUBSET (IF buy /\ reparsed = all THEN Missing(m, pages, parser) ELSE {}) :
      \E result \in [bought -> Outcomes(parser)] : Results(m, reparsed, result)

-----------------------------------------------------------------------------
(* agree.  The readers in turn: the base readers each on every page no     *)
(* reader has failed on this run, the escalation readers each on the pages *)
(* still disputed.                                                         *)
Model == Readers[gate.at]

(* Mutant of Passed: a page a reader failed on goes on as a dispute.       *)
PassedAll(failed) == gate.batch

Passed(failed) == gate.batch \ failed

Consult ==
  LET missing == Missing(Model, gate.batch, run.parser) IN
  /\ gate.phase = "consult"
  /\ gate.buy \/ missing = {}
  /\ \E result \in [missing -> Outcomes(run.parser)] :
       LET failed == {p \in missing : result[p].answer = None} IN
       /\ Results(Model, Reparses(Model, gate.batch, run.parser), result)
       /\ gate' = [gate EXCEPT
            !.phase = IF gate.at < Len(Base) THEN "consult" ELSE "decide",
            !.at = IF gate.at < Len(Base) THEN @ + 1 ELSE @,
            !.batch = Passed(failed),
            !.failed = @ \cup failed]
  /\ UNCHANGED <<verdicts, improved, run>>

(* A stored-only pass meets a page without a reading: MissingReadings,     *)
(* after the re-parsed rows are stored.                                    *)
ConsultMissing ==
  /\ gate.phase = "consult"
  /\ ~gate.buy
  /\ Missing(Model, gate.batch, run.parser) # {}
  /\ Results(Model, Reparses(Model, gate.batch, run.parser), <<>>)
  /\ gate' = [gate EXCEPT !.phase = "missing"]
  /\ UNCHANGED <<verdicts, improved, run>>

Verdict(kind, accepted, matched, consulted) ==
  [kind |-> kind, accepted |-> accepted, matched |-> matched, consulted |-> consulted]

(* says_not_a_list: labelled other, and no (name, amount) pair.            *)
SaysNotAList(p, m) == Reading(p, m) \in Others

(* The verdict of the base pair on a page, None when they dispute it.      *)
BaseVerdict(p) ==
  LET m == Base[1]
      n == Base[Len(Base)] IN
  IF ~Read(p, m) \/ ~Read(p, n) THEN None
  ELSE IF Len(Base) = 1 \/ AgreeOn(Reading(p, m), Reading(p, n))
  THEN Verdict("agreed", m, Base, Len(Base))
  ELSE IF EmptyOther /\ SaysNotAList(p, m) /\ SaysNotAList(p, n)
  THEN Verdict("not_a_list", None, Base, Len(Base))
  ELSE None

(* The earlier readers an escalation reader, the i-th, agrees with.        *)
Match(p, i) == {j \in 1 .. (i - 1) : Read(p, Readers[i]) /\ Read(p, Readers[j])
                  /\ AgreeOn(Reading(p, Readers[j]), Reading(p, Readers[i]))}

First(indices) == CHOOSE i \in indices : \A j \in indices : i <= j

EscalatedVerdict(p, i) ==
  IF Match(p, i) = {} THEN None
  ELSE Verdict("escalated", Readers[i], <<Readers[First(Match(p, i))], Readers[i]>>, i)

StageVerdict(p) == IF gate.at = Len(Base) THEN BaseVerdict(p) ELSE EscalatedVerdict(p, gate.at)

(* What is left after the last reader.                                     *)
LastVerdict(p) ==
  LET readable == {i \in 1 .. Len(Readers) : Read(p, Readers[i])}
      produced == readable \ (1 .. Len(Base))
      last == CHOOSE i \in produced : \A j \in produced : j <= i IN
  IF Cardinality(readable) < 2 THEN Verdict("unreadable", None, <<>>, Len(Readers))
  ELSE IF LoadSingle /\ produced # {} THEN Verdict("flagged", Readers[last], <<>>, Len(Readers))
  ELSE Verdict("flagged", None, <<>>, Len(Readers))

(* Mutant of Changed: every decided row is written.                        *)
ChangedAlways(p, verdict) == TRUE

(* _same: a verdict already on the table under the same decision is kept.  *)
Changed(p, verdict) == verdicts[p] # verdict

(* The pages the stage at hand decides, and how.                           *)
Decided ==
  IF gate.phase = "last" THEN gate.batch ELSE {p \in gate.batch : StageVerdict(p) # None}
Decision(p) == IF gate.phase = "last" THEN LastVerdict(p) ELSE StageVerdict(p)

(* flush: the verdicts of some decided pages are written.                  *)
Flush(pages) ==
  /\ verdicts' = [p \in Pages |-> IF p \in pages THEN Decision(p) ELSE verdicts[p]]
  /\ recovered' = recovered \ pages

Written == gate.written \cup {p \in Decided : Changed(p, Decision(p))}

(* A stage's decisions, then the next reader if any page is disputed.      *)
Decide ==
  LET disputed == gate.batch \ Decided IN
  /\ gate.phase = "decide"
  /\ Flush(Decided)
  /\ gate' = [gate EXCEPT
       !.written = Written,
       !.batch = disputed,
       !.phase = IF gate.at < Len(Readers) /\ disputed # {} THEN "consult" ELSE "last",
       !.at = IF gate.at < Len(Readers) /\ disputed # {} THEN @ + 1 ELSE @]
  /\ UNCHANGED <<table, improved, run>>

(* The pages still disputed after the last reader.                         *)
DecideLast ==
  /\ gate.phase = "last"
  /\ Flush(Decided)
  /\ gate' = [gate EXCEPT !.written = Written, !.phase = "over"]
  /\ UNCHANGED <<table, improved, run>>

-----------------------------------------------------------------------------
(* run, step by step.                                                      *)
Start ==
  /\ run.step \in {"idle", "stopped", "done"}
  /\ run' = [Idle EXCEPT !.step = "gate", !.parser = improved]
  /\ gate' = NewGate(FALSE)
  /\ UNCHANGED <<table, verdicts, improved, recovered>>

(* The cost gate's stored-only pass is over; what it wrote is legitimate.  *)
(* The base readers are started, both at once.                             *)
GatePassed ==
  /\ run.step = "gate"
  /\ gate.phase \in {"over", "missing"}
  /\ run' = [run EXCEPT !.step = "base", !.left = {Base[i] : i \in 1 .. Len(Base)}]
  /\ gate' = NoGate
  /\ UNCHANGED <<table, verdicts, improved, recovered>>

(* A base reader's process reads every page it lacks and exits.  Started   *)
(* by the run, it has the run's parser or one deployed since.              *)
BaseReader(m) ==
  /\ run.step = "base"
  /\ m \in run.left
  /\ \E parser \in {run.parser, improved} :
       \E result \in [Missing(m, Pages, parser) -> Outcomes(parser)] :
         Results(m, Reparses(m, Pages, parser), result)
  /\ run' = [run EXCEPT !.left = @ \ {m}]
  /\ UNCHANGED <<verdicts, improved, gate>>

(* It exits non-zero (its breaker, an exception, a kill) with some of the  *)
(* pages recorded; the run waits for the other and stops.                  *)
BaseReaderFails(m) ==
  /\ run.step = "base"
  /\ m \in run.left
  /\ \E parser \in {run.parser, improved} : PartResults(m, Pages, parser, TRUE)
  /\ run' = [run EXCEPT !.left = @ \ {m}, !.broke = TRUE]
  /\ UNCHANGED <<verdicts, improved, gate>>

BaseReadersDone ==
  /\ run.step = "base"
  /\ run.left = {}
  /\ IF run.broke
     THEN run' = Stopped /\ UNCHANGED gate
     ELSE run' = [run EXCEPT !.step = "first"] /\ gate' = NewGate(TRUE)
  /\ UNCHANGED <<table, verdicts, improved, recovered>>

(* transcribe is over: again when it left pages without a verdict, else    *)
(* (or after the second) the final stored-only check.                      *)
Transcribed ==
  /\ run.step \in {"first", "second"}
  /\ gate.phase = "over"
  /\ IF run.step = "first" /\ gate.failed # {}
     THEN run' = [run EXCEPT !.step = "second"] /\ gate' = NewGate(TRUE)
     ELSE run' = [run EXCEPT !.step = "final"] /\ gate' = NewGate(FALSE)
  /\ UNCHANGED <<table, verdicts, improved, recovered>>

(* The final check passed: the pass bought nothing and wrote nothing.      *)
FinalPassed ==
  /\ run.step = "final"
  /\ gate.phase = "over" /\ gate.written = {}
  /\ run' = [Idle EXCEPT !.step = "done"]
  /\ gate' = NoGate
  /\ UNCHANGED <<table, verdicts, improved, recovered>>

(* It did not: readings were missing, or verdicts were written.            *)
FinalStopped ==
  /\ run.step = "final"
  /\ \/ gate.phase = "missing"
     \/ gate.phase = "over" /\ gate.written # {}
  /\ run' = Idle
  /\ gate' = NoGate
  /\ UNCHANGED <<table, verdicts, improved, recovered>>

(* The run stops where it is: a Ctrl-C, a crash, a read's breaker, the     *)
(* cost gate's ceiling, a failed write.  A read_pages under way has        *)
(* recorded some of its pages, a flush has written some of its verdicts.   *)
Stop ==
  /\ run.step \notin {"idle", "stopped", "done"}
  /\ run' = Stopped
  /\ gate' = NoGate
  /\ \/ UNCHANGED <<table, verdicts, recovered>>
     \/ /\ gate.phase = "consult"
        /\ PartResults(Model, gate.batch, run.parser, gate.buy)
        /\ UNCHANGED verdicts
     \/ /\ \E m \in run.left, parser \in {run.parser, improved} :
             PartResults(m, Pages, parser, TRUE)
        /\ UNCHANGED verdicts
     \/ /\ gate.phase \in {"decide", "last"}
        /\ \E pages \in SUBSET Decided : Flush(pages)
        /\ UNCHANGED table
  /\ UNCHANGED improved

(* A parser that reads the stored parse failures is deployed.              *)
ImproveParser ==
  /\ ~improved
  /\ improved' = TRUE
  /\ UNCHANGED <<table, verdicts, run, gate, recovered>>

Step ==
  \/ Start
  \/ GatePassed
  \/ \E m \in ReaderSet : BaseReader(m)
  \/ BaseReadersDone
  \/ Consult
  \/ ConsultMissing
  \/ Decide
  \/ DecideLast
  \/ Transcribed
  \/ FinalPassed
  \/ FinalStopped

Next ==
  \/ Step
  \/ \E m \in ReaderSet : BaseReaderFails(m)
  \/ Stop
  \/ ImproveParser

(* A run goes on while nothing stops it, and its command is given again.   *)
Spec == Init /\ [][Next]_vars /\ WF_vars(Step)

-----------------------------------------------------------------------------
(* base_pair_report: the decided pages by what the base pair said of them. *)

(* The verdicts are joined to the policy's readings, so a page that nobody *)
(* has read is not in it.                                                  *)
Reported == {p \in Pages : verdicts[p] # None /\ \E m \in ReaderSet : Read(p, m)}

BaseReaders == {Base[i] : i \in 1 .. Len(Base)}

(* Mutant of BasePairClass: the classes of the readers there are.          *)
BasePairClassOfReaders(p) ==
  LET present == {m \in BaseReaders : Read(p, m)}
      lists == Cardinality({m \in present : Reading(p, m) \in Lists}) IN
  CASE lists = 2 -> "both a list"
    [] lists = 1 -> "one a list"
    [] lists = 0 /\ \A m \in present : SaysNotAList(p, m) -> "both other, no rows"
    [] OTHER -> "neither a list, otherwise"

BasePairClass(p) ==
  LET lists == Cardinality({m \in BaseReaders : Reading(p, m) \in Lists}) IN
  IF \E m \in BaseReaders : ~Read(p, m) THEN "a base reader absent"
  ELSE CASE lists = 2 -> "both a list"
         [] lists = 1 -> "one a list"
         [] lists = 0 /\ \A m \in BaseReaders : SaysNotAList(p, m) -> "both other, no rows"
         [] OTHER -> "neither a list, otherwise"

(* base_pair_table, a class's line: its pages, how many of them the last   *)
(* reader was consulted on, how many ended flagged, and the escalation     *)
(* readings paid for (for their cost).                                     *)
BasePairLine(class) ==
  LET pages == {p \in Reported : BasePairClass(p) = class} IN
  [pages |-> Cardinality(pages),
   last |-> Cardinality({p \in pages : verdicts[p].consulted = Len(Readers)}),
   flagged |-> Cardinality({p \in pages : verdicts[p].kind = "flagged"}),
   bought |-> Cardinality({k \in pages \X (ReaderSet \ BaseReaders) : Read(k[1], k[2])})]

-----------------------------------------------------------------------------
(* The policy, as one definition over the stored readings: the verdict of  *)
(* a page, and whether the readers it takes have each read the page or run *)
(* out of attempts on it.                                                  *)
Resolving(p) == {i \in (Len(Base) + 1) .. Len(Readers) : Match(p, i) # {}}

PolicyVerdict(p) ==
  IF BaseVerdict(p) # None THEN BaseVerdict(p)
  ELSE IF Resolving(p) # {} THEN EscalatedVerdict(p, First(Resolving(p)))
  ELSE LastVerdict(p)

Settled(p) ==
  \A i \in 1 .. PolicyVerdict(p).consulted : Read(p, Readers[i]) \/ Absent(p, Readers[i])

(* A verdict is the policy's over the readings stored now, however many    *)
(* runs, failures and stops lie between the readings and the verdict,      *)
(* unless a stored failure of the page was re-parsed since; and a run that *)
(* ends leaves no such page, and none without a verdict (run's final       *)
(* check: the verdicts on the table are the ones the readings give).       *)
VerdictsFollowPolicy ==
  /\ \A p \in Pages \ recovered :
       verdicts[p] # None => Settled(p) /\ verdicts[p] = PolicyVerdict(p)
  /\ run.step = "done" => recovered = {} /\ \A p \in Pages : verdicts[p] # None

(* The pages a base reader was out of attempts on before its last failure  *)
(* was re-parsed: escalation bought readings of them meanwhile.            *)
RecoveredLate ==
  {p \in Pages : \E m \in BaseReaders : Read(p, m) /\ table[<<p, m>>].errors = MaxErrors}

(* The report tells what the policy's escalation bought, once the pages    *)
(* re-parsed are decided again: where the policy has the not_a_list rule,  *)
(* the rule's class is the pages the rule decides, none of them reaches    *)
(* the last reader, and nothing was bought for one but when a base reader  *)
(* was given up on and its failure re-parsed later; each class's flagged   *)
(* pages are pages the last reader was consulted on; and those of the      *)
(* pages decided that the report leaves out nobody could read              *)
(* (base_pair_report: "what the policy's escalation bought, class by       *)
(* class").                                                                *)
ReportTellsEscalation ==
  LET rule == BasePairLine("both other, no rows") IN
  recovered = {} =>
    /\ EmptyOther =>
         /\ rule.pages = Cardinality({p \in Pages : verdicts[p] # None
                                                   /\ verdicts[p].kind = "not_a_list"})
         /\ rule.last = 0
         /\ RecoveredLate = {} => rule.bought = 0
    /\ \A p \in Reported : LET line == BasePairLine(BasePairClass(p)) IN line.flagged <= line.last
    /\ \A p \in Pages \ Reported : verdicts[p] # None => verdicts[p].kind = "unreadable"

(* A verdict, once written, is not taken back, and is changed only for a   *)
(* page of which a stored failure was re-parsed since: not by a later      *)
(* stage, run or retry under the same policy (decided_at dates the         *)
(* decision).                                                              *)
VerdictsStay ==
  [][\A p \in Pages : verdicts[p] # None =>
       \/ verdicts'[p] = verdicts[p]
       \/ p \in recovered /\ verdicts'[p] # None]_vars

(* The run reaches its end, given again, once nothing stops it any more:   *)
(* whatever the readers answer, pages that fail and pages that time out    *)
(* included, and wherever it was stopped before.                           *)
RunCompletes == <>[](run.step # "stopped") => []<>(run.step = "done")

=============================================================================
