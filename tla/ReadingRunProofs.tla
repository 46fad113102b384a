--------------------------- MODULE ReadingRunProofs ---------------------------
(***************************************************************************)
(* Proofs about ReadingRun, for any policy, pages, answers and any number  *)
(* of stops: a verdict is the policy's over the readings stored now, and   *)
(* stays, until a stored failure of its page is re-parsed; a run that ends *)
(* leaves no page behind; the report tells what the escalation bought.     *)
(***************************************************************************)
EXTENDS ReadingRun, TLAPS, WellFoundedInduction, FiniteSetTheorems

Phases == {"none", "consult", "decide", "last", "over", "missing"}
RunSteps == {"idle", "stopped", "gate", "base", "first", "second", "final", "done"}
Indices == 1 .. Len(Readers)

Runs == [step : RunSteps, left : SUBSET BaseReaders, broke : BOOLEAN, parser : BOOLEAN]
Gates == [phase : Phases, at : 0 .. Len(Readers), batch : SUBSET Pages,
          failed : SUBSET Pages, written : SUBSET Pages, buy : BOOLEAN]

TypeOK ==
  /\ table \in [Pages \X ReaderSet -> Store!Rows]
  /\ verdicts \in [Pages -> Verdicts \cup {None}]
  /\ run \in Runs
  /\ gate \in Gates
  /\ recovered \subseteq Pages
  /\ improved \in BOOLEAN

(* The first n readers have each read the page or are out of attempts on   *)
(* it; none of them decides it.                                            *)
SettledTo(p, n) == \A i \in 1 .. n : Read(p, Readers[i]) \/ Absent(p, Readers[i])
UndecidedTo(p, n) ==
  /\ n >= Len(Base) => BaseVerdict(p) = None
  /\ \A i \in (Len(Base) + 1) .. n : Match(p, i) = {}

(* The pages the gate is about to consult a reader on, or to decide, are   *)
(* those that the readers before have settled and not decided.             *)
GateInv ==
  /\ gate.phase \in {"consult", "decide", "last"} => gate.at \in Indices
  /\ gate.phase = "consult" =>
       \A p \in gate.batch : SettledTo(p, gate.at - 1) /\ UndecidedTo(p, gate.at - 1)
  /\ gate.phase = "decide" =>
       /\ gate.at >= Len(Base)
       /\ \A p \in gate.batch : SettledTo(p, gate.at) /\ UndecidedTo(p, gate.at - 1)
  /\ gate.phase = "last" =>
       \A p \in gate.batch : SettledTo(p, Len(Readers)) /\ UndecidedTo(p, Len(Readers))

(* The pages the gate has come through with are decided, and nothing of    *)
(* theirs was re-parsed since; a run at rest and the base readers have no  *)
(* gate; the final check buys nothing, so no reader fails in it.           *)
OpenPages == (IF gate.phase = "over" THEN {} ELSE gate.batch) \cup gate.failed
IsBehind(p) == verdicts[p] = None \/ p \in recovered
DoneInv ==
  /\ gate.phase # "none" => \A p \in Pages \ OpenPages : ~IsBehind(p)
  /\ ~gate.buy => gate.failed = {}
  /\ run.step \in {"idle", "stopped", "base", "done"} => gate = NoGate
  /\ run.left # {} => run.step = "base"
  /\ run.step = "final" => ~gate.buy
  /\ run.step = "done" => \A p \in Pages : ~IsBehind(p)

(* An escalation reader has read a page only because the base readers      *)
(* settled it and did not decide it, when none was re-parsed late.         *)
EscalationInv ==
  \A p \in Pages : \A i \in (Len(Base) + 1) .. Len(Readers) :
    Read(p, Readers[i]) => SettledTo(p, Len(Base)) /\ (BaseVerdict(p) = None \/ p \in RecoveredLate)

IInv == TypeOK /\ GateInv /\ DoneInv /\ EscalationInv /\ VerdictsFollowPolicy

-----------------------------------------------------------------------------
(* The readers of a policy.                                                *)

(* A nonempty set of positions has a first and a last member.              *)
LEMMA LeastIndex ==
  ASSUME NEW T \in SUBSET Nat, T # {}
  PROVE  First(T) \in T /\ \A y \in T : First(T) <= y
  <1>1. PICK x \in T : \A y \in T : ~(<<y, x>> \in OpToRel(<, Nat))
      BY WFMin, NatLessThanWellFounded
  <1>2. \A y \in T : ~(y < x)
      BY <1>1 DEF OpToRel
  <1>3. \A y \in T : x <= y
      BY <1>2
  <1> QED
      BY <1>3 DEF First

(* Some index of a set of indices is the last one.                         *)
LEMMA GreatestIndex ==
  ASSUME NEW n \in Nat, NEW T \in SUBSET (1 .. n), T # {}
  PROVE  \E x \in T : \A y \in T : y <= x
  <1> DEFINE U == {n - y : y \in T}
  <1>1. U \in SUBSET Nat /\ U # {}
    <2>1. \A y \in T : n - y \in Nat
        OBVIOUS
    <2>2. U \in SUBSET Nat
        BY <2>1
    <2>3. PICK y \in T : TRUE
        OBVIOUS
    <2>4. n - y \in U
        BY <2>3
    <2> QED
        BY <2>2, <2>4
  <1> HIDE DEF U
  <1>2. First(U) \in U /\ \A z \in U : First(U) <= z
      BY <1>1, LeastIndex
  <1> USE DEF U
  <1>3. PICK g \in T : First(U) = n - g
      BY <1>2
  <1>4. \A y \in T : n - g <= n - y
      BY <1>2, <1>3
  <1>5. n \in Nat /\ g \in 1 .. n /\ \A y \in T : y \in 1 .. n
      OBVIOUS
  <1> HIDE DEF U
  <1> QED
      BY <1>4, <1>5

(* The base readers come first, then those of the escalation.              *)
LEMMA ReaderOrder ==
  /\ Len(Base) \in 1 .. 2 /\ Len(Escalation) \in Nat
  /\ Len(Readers) = Len(Base) + Len(Escalation) /\ Len(Readers) \in Nat
  /\ Len(Base) <= Len(Readers) /\ Len(Readers) >= 1
  /\ \A i \in 1 .. Len(Base) : Base[i] = Readers[i]
  /\ \A i \in 1 .. Len(Readers) : Readers[i] \in ReaderSet
  /\ \A i \in 1 .. Len(Base) : Base[i] \in ReaderSet
  /\ \A i, j \in 1 .. Len(Readers) : Readers[i] = Readers[j] => i = j
  /\ Base \in Seq(ReaderSet) /\ Escalation \in Seq(ReaderSet)
  <1>1. Base \in Seq(ReaderSet) /\ Escalation \in Seq(ReaderSet) /\ CheckPolicy
      BY PolicyAssumption
  <1>2. Len(Base) \in Nat /\ Len(Escalation) \in Nat
      BY <1>1
  <1>3. /\ Len(Readers) = Len(Base) + Len(Escalation)
        /\ \A i \in 1 .. Len(Base) : Base[i] = Readers[i]
      BY <1>1, <1>2 DEF Readers
  <1>4. Len(Base) \in 1 .. 2 /\ \A i, j \in 1 .. Len(Readers) : Readers[i] = Readers[j] => i = j
      BY <1>1 DEF CheckPolicy
  <1>5. \A i \in 1 .. Len(Readers) : Readers[i] \in ReaderSet
      BY DEF ReaderSet
  <1>6. /\ Len(Readers) \in Nat /\ Len(Base) <= Len(Readers) /\ Len(Readers) >= 1
        /\ \A i \in 1 .. Len(Base) : i \in 1 .. Len(Readers)
      BY <1>2, <1>3, <1>4
  <1>7. \A i \in 1 .. Len(Base) : Base[i] \in ReaderSet
      BY <1>3, <1>5, <1>6
  <1> QED
      BY <1>1, <1>2, <1>3, <1>4, <1>5, <1>6, <1>7

(* The base readers come first among the readers, and there is one at      *)
(* least.                                                                  *)
LEMMA ReaderCounts ==
  /\ Len(Base) \in Nat /\ Len(Base) >= 1 /\ Len(Base) <= Len(Readers)
  /\ Len(Readers) \in Nat /\ Len(Base) \in 1 .. Len(Readers)
  <1>1. Len(Base) \in 1 .. 2 /\ Len(Base) <= Len(Readers) /\ Len(Readers) \in Nat
      BY ReaderOrder
  <1>2. Len(Base) \in Nat /\ Len(Base) >= 1
      BY <1>1
  <1> QED
      BY <1>1, <1>2

(* What a verdict is, as the policy makes it.                              *)
LEMMA VerdictType ==
  ASSUME NEW kind \in {"agreed", "not_a_list", "escalated", "unreadable", "flagged"},
         NEW accepted \in ReaderSet \cup {None}, NEW matched \in Seq(ReaderSet),
         NEW consulted \in 1 .. Len(Readers)
  PROVE  /\ Verdict(kind, accepted, matched, consulted) \in Verdicts
         /\ Verdict(kind, accepted, matched, consulted) # None
         /\ Verdict(kind, accepted, matched, consulted).kind = kind
         /\ Verdict(kind, accepted, matched, consulted).consulted = consulted
  <1>1. Verdict(kind, accepted, matched, consulted) \in Verdicts
      BY DEF Verdict, Verdicts
  <1> QED
      BY <1>1, ReadingAssumption DEF Verdict

(* A verdict of the base readers is a verdict, with its two readers.       *)
LEMMA BaseVerdictType ==
  ASSUME NEW p \in Pages
  PROVE  BaseVerdict(p) # None =>
           /\ BaseVerdict(p) \in Verdicts
           /\ BaseVerdict(p).consulted = Len(Base)
           /\ BaseVerdict(p).kind \in {"agreed", "not_a_list"}
  <1>1. Base[1] \in ReaderSet /\ Base \in Seq(ReaderSet) /\ Len(Base) \in 1 .. Len(Readers)
      BY ReaderOrder
  <1>2. \A kind \in {"agreed", "not_a_list"} : \A accepted \in ReaderSet \cup {None} :
          /\ Verdict(kind, accepted, Base, Len(Base)) \in Verdicts
          /\ Verdict(kind, accepted, Base, Len(Base)).kind = kind
          /\ Verdict(kind, accepted, Base, Len(Base)).consulted = Len(Base)
      BY <1>1, VerdictType
  <1> QED
      BY <1>1, <1>2 DEF BaseVerdict

(* A verdict reached by escalation is one, if a reading matched.           *)
LEMMA EscalatedVerdictType ==
  ASSUME NEW p \in Pages, NEW i \in (Len(Base) + 1) .. Len(Readers)
  PROVE  /\ EscalatedVerdict(p, i) = None <=> Match(p, i) = {}
         /\ Match(p, i) # {} => /\ EscalatedVerdict(p, i) \in Verdicts
                                /\ EscalatedVerdict(p, i).consulted = i
                                /\ EscalatedVerdict(p, i).kind = "escalated"
  <1>1. i \in 1 .. Len(Readers) /\ 1 .. (i - 1) \subseteq 1 .. Len(Readers)
      BY ReaderOrder
  <1>2. ASSUME Match(p, i) # {}
        PROVE  /\ EscalatedVerdict(p, i) \in Verdicts /\ EscalatedVerdict(p, i) # None
               /\ EscalatedVerdict(p, i).consulted = i
               /\ EscalatedVerdict(p, i).kind = "escalated"
    <2>1. Match(p, i) \subseteq 1 .. (i - 1)
        BY DEF Match
    <2>2. First(Match(p, i)) \in Match(p, i)
        BY <1>2, <2>1, LeastIndex
    <2>3. Readers[First(Match(p, i))] \in ReaderSet /\ Readers[i] \in ReaderSet
        BY <1>1, <2>1, <2>2, ReaderOrder
    <2>4. PICK pair : pair = <<Readers[First(Match(p, i))], Readers[i]>>
        OBVIOUS
    <2>5. pair \in Seq(ReaderSet)
        BY <2>3, <2>4
    <2>6. EscalatedVerdict(p, i) = Verdict("escalated", Readers[i], pair, i)
        BY <1>2, <2>4 DEF EscalatedVerdict
    <2>7. Readers[i] \in ReaderSet \cup {None}
        BY <2>3
    <2>8. \A accepted \in ReaderSet \cup {None} :
            /\ Verdict("escalated", accepted, pair, i) \in Verdicts
            /\ Verdict("escalated", accepted, pair, i) # None
            /\ Verdict("escalated", accepted, pair, i).kind = "escalated"
            /\ Verdict("escalated", accepted, pair, i).consulted = i
        BY <1>1, <2>5, VerdictType
    <2> QED
        BY <2>6, <2>7, <2>8
  <1> QED
      BY <1>2 DEF EscalatedVerdict

(* What the last reader leaves undecided still gets a verdict.             *)
LEMMA LastVerdictType ==
  ASSUME NEW p \in Pages
  PROVE  /\ LastVerdict(p) \in Verdicts /\ LastVerdict(p) # None
         /\ LastVerdict(p).consulted = Len(Readers)
         /\ LastVerdict(p).kind \in {"unreadable", "flagged"}
  <1> DEFINE readable == {i \in 1 .. Len(Readers) : Read(p, Readers[i])}
             produced == readable \ (1 .. Len(Base))
             last == CHOOSE i \in produced : \A j \in produced : j <= i
  <1>1. Len(Readers) \in 1 .. Len(Readers) /\ Len(Readers) \in Nat /\ <<>> \in Seq(ReaderSet)
      BY ReaderOrder
  <1>2. produced # {} => Readers[last] \in ReaderSet
    <2>1. produced \in SUBSET (1 .. Len(Readers))
        OBVIOUS
    <2> HIDE DEF produced
    <2>2. produced # {} => \E i \in produced : \A j \in produced : j <= i
        BY <1>1, <2>1, GreatestIndex
    <2>3. produced # {} => last \in produced
        BY <2>2
    <2> QED
        BY <2>1, <2>3, ReaderOrder
  <1>3. \A kind \in {"unreadable", "flagged"} : \A accepted \in ReaderSet \cup {None} :
          /\ Verdict(kind, accepted, <<>>, Len(Readers)) \in Verdicts
          /\ Verdict(kind, accepted, <<>>, Len(Readers)) # None
          /\ Verdict(kind, accepted, <<>>, Len(Readers)).kind = kind
          /\ Verdict(kind, accepted, <<>>, Len(Readers)).consulted = Len(Readers)
    <2> SUFFICES ASSUME NEW kind \in {"unreadable", "flagged"}, NEW accepted \in ReaderSet \cup {None}
                 PROVE  /\ Verdict(kind, accepted, <<>>, Len(Readers)) \in Verdicts
                        /\ Verdict(kind, accepted, <<>>, Len(Readers)) # None
                        /\ Verdict(kind, accepted, <<>>, Len(Readers)).kind = kind
                        /\ Verdict(kind, accepted, <<>>, Len(Readers)).consulted = Len(Readers)
        OBVIOUS
    <2>1. PICK none : none = <<>>
        OBVIOUS
    <2>2. none \in Seq(ReaderSet)
        BY <1>1, <2>1
    <2>3. kind \in {"agreed", "not_a_list", "escalated", "unreadable", "flagged"}
        OBVIOUS
    <2> DEFINE verdict == Verdict(kind, accepted, none, Len(Readers))
    <2>4. /\ verdict \in Verdicts /\ verdict # None
          /\ verdict.kind = kind /\ verdict.consulted = Len(Readers)
        BY SMTT(30), <1>1, <2>2, <2>3, VerdictType
    <2> QED
        BY <2>1, <2>4
  <1>4. \/ LastVerdict(p) = Verdict("unreadable", None, <<>>, Len(Readers))
        \/ LastVerdict(p) = Verdict("flagged", None, <<>>, Len(Readers))
        \/ produced # {} /\ LastVerdict(p) = Verdict("flagged", Readers[last], <<>>, Len(Readers))
      BY DEF LastVerdict
  <1> HIDE DEF produced, last
  <1> QED
      BY <1>2, <1>3, <1>4

-----------------------------------------------------------------------------
(* What a reading of pages does to the table, and what it leaves alone.    *)

(* A row of the table.                                                     *)
LEMMA RowType ==
  ASSUME TypeOK, NEW p \in Pages, NEW m \in ReaderSet
  PROVE  table[<<p, m>>] \in Store!Rows
  BY DEF TypeOK

(* What a call of one reader does, complete or cut short: rows stay rows,  *)
(* only that reader's change, on the pages asked for; a reading stays, and *)
(* a page out of attempts keeps its row or has it re-parsed, which leaves  *)
(* its verdict behind.                                                     *)
Call(m, pages) ==
  \E parser \in BOOLEAN : \E reparsed \in SUBSET Reparses(m, pages, parser) :
    \E bought \in SUBSET Missing(m, pages, parser) :
      \E result \in [bought -> Outcomes(parser)] : Results(m, reparsed, result)

RowGrows(p, r) ==
  /\ Read(p, r) => table'[<<p, r>>] = table[<<p, r>>]
  /\ Absent(p, r) =>
       \/ table'[<<p, r>>] = table[<<p, r>>]
       \/ /\ Read(p, r)' /\ table'[<<p, r>>].errors = MaxErrors
          /\ verdicts[p] # None => p \in recovered'

(* What a call leaves: the rows of other readers and other pages, and a    *)
(* reading wherever it re-parsed a failure or got an answer.               *)
CallKeeps(m, all, reparsed, bought, result) ==
  /\ table' \in [Pages \X ReaderSet -> Store!Rows]
  /\ recovered' = recovered \cup {p \in reparsed : verdicts[p] # None}
  /\ \A p \in Pages, r \in ReaderSet :
       /\ RowGrows(p, r)
       /\ r # m \/ p \notin all => table'[<<p, r>>] = table[<<p, r>>]
       /\ r = m /\ p \in reparsed => table'[<<p, r>>].answer # None
       /\ r = m /\ p \in bought /\ result[p].answer # None => table'[<<p, r>>].answer # None
       /\ r = m /\ p \notin reparsed \cup bought => table'[<<p, r>>] = table[<<p, r>>]

LEMMA ResultsKeep ==
  ASSUME TypeOK, NEW m \in ReaderSet, NEW parser \in BOOLEAN, NEW all \in SUBSET Pages,
         NEW reparsed \in SUBSET Reparses(m, all, parser),
         NEW bought \in SUBSET Missing(m, all, parser),
         NEW result \in [bought -> Outcomes(parser)], Results(m, reparsed, result)
  PROVE  CallKeeps(m, all, reparsed, bought, result)
  <1>1. DOMAIN result = bought /\ DOMAIN table = Pages \X ReaderSet
        /\ reparsed \subseteq all /\ bought \subseteq all /\ reparsed \cap bought = {}
      BY DEF TypeOK, Missing, Reparses
  <1>2. table' = [k \in Pages \X ReaderSet |->
                    IF k[2] # m THEN table[k]
                    ELSE IF k[1] \in reparsed THEN Store!Reparsed(table[k])
                    ELSE IF k[1] \in bought THEN RowOf(table[k], result[k[1]])
                    ELSE table[k]]
      BY <1>1 DEF Results
  <1>3. recovered' = recovered \cup {p \in reparsed : verdicts[p] # None}
      BY DEF Results, Behind
  <1>4. ASSUME NEW p \in reparsed
        PROVE  /\ ~Read(p, m) /\ Store!Reparsed(table[<<p, m>>]) \in Store!Rows
               /\ Store!Reparsed(table[<<p, m>>]).answer # None
               /\ Store!Reparsed(table[<<p, m>>]).errors = table[<<p, m>>].errors
    <2>1. p \in Pages /\ Store!Reparsable(table[<<p, m>>])
        BY DEF Reparses
    <2>2. PICK row \in Store!Rows : row = table[<<p, m>>]
        BY <2>1, RowType
    <2>3. row.text # None /\ row.text \in Answers /\ row.answer = None
        BY <2>1, <2>2 DEF Store!Reparsable, Store!Hit, Store!Rows
    <2>4. /\ Store!Reparsed(row) \in Store!Rows /\ Store!Reparsed(row).answer # None
          /\ Store!Reparsed(row).errors = row.errors
        BY <2>3 DEF Store!Reparsed, Store!Rows
    <2> QED
        BY <2>2, <2>3, <2>4 DEF Read, Store!Hit
  <1>5. ASSUME NEW p \in bought
        PROVE  /\ ~Read(p, m) /\ ~Absent(p, m)
               /\ RowOf(table[<<p, m>>], result[p]) \in Store!Rows
               /\ result[p].answer # None => RowOf(table[<<p, m>>], result[p]).answer # None
    <2>1. p \in Pages /\ ~Read(p, m) /\ ~Absent(p, m)
        BY DEF Missing
    <2>2. PICK row \in Store!Rows : row = table[<<p, m>>]
        BY <2>1, RowType
    <2>3. row.errors \in 0 .. MaxErrors /\ row.errors # MaxErrors
        BY <2>1, <2>2 DEF Read, Absent, Store!OutOfAttempts, Store!Rows
    <2>4. row.errors + 1 \in 0 .. MaxErrors
        BY <2>3, ReadingAssumption
    <2>5. PICK out \in Outcomes(parser) : out = result[p]
        BY <1>1
    <2>6. \/ out.answer \in Answers
          \/ out.answer = None /\ out.text \in Answers \cup {None}
        BY <2>5, ReadingAssumption DEF Outcomes
    <2>7. out.answer \in Answers => /\ Store!Answered(row, out.answer) \in Store!Rows
                                    /\ Store!Answered(row, out.answer).answer = out.answer
        BY DEF Store!Answered, Store!Rows
    <2>8. out.text \in Answers \cup {None} => Store!Errored(row, out.text) \in Store!Rows
        BY <2>4 DEF Store!Errored, Store!Rows
    <2>9. /\ RowOf(row, out) \in Store!Rows
          /\ out.answer # None => RowOf(row, out).answer # None
        BY <2>6, <2>7, <2>8, ReadingAssumption DEF RowOf
    <2> QED
        BY <2>1, <2>2, <2>5, <2>9
  <1>6. ASSUME NEW p \in Pages, NEW r \in ReaderSet
        PROVE  /\ table'[<<p, r>>] \in Store!Rows
               /\ RowGrows(p, r)
               /\ r # m \/ p \notin all => table'[<<p, r>>] = table[<<p, r>>]
               /\ r = m /\ p \in reparsed => table'[<<p, r>>].answer # None
               /\ r = m /\ p \in bought /\ result[p].answer # None => table'[<<p, r>>].answer # None
               /\ r = m /\ p \notin reparsed \cup bought => table'[<<p, r>>] = table[<<p, r>>]
    <2>1. table[<<p, r>>] \in Store!Rows
        BY RowType
    <2>2. table'[<<p, r>>] = IF r # m THEN table[<<p, r>>]
                             ELSE IF p \in reparsed THEN Store!Reparsed(table[<<p, r>>])
                             ELSE IF p \in bought THEN RowOf(table[<<p, r>>], result[p])
                             ELSE table[<<p, r>>]
        BY <1>2
    <2>3. CASE r # m \/ p \notin reparsed \cup bought
        BY <1>1, <2>1, <2>2, <2>3 DEF RowGrows
    <2>4. CASE r = m /\ p \in reparsed
      <3>1. table'[<<p, r>>] = Store!Reparsed(table[<<p, r>>])
          BY <2>2, <2>4
      <3>2. Absent(p, r) => table[<<p, r>>].errors = MaxErrors
          BY DEF Absent, Store!OutOfAttempts
      <3>3. RowGrows(p, r)
          BY <1>3, <1>4, <2>4, <3>1, <3>2 DEF RowGrows, Read, Store!Hit
      <3> QED
          BY <1>1, <1>4, <2>4, <3>1, <3>3
    <2>5. CASE r = m /\ p \in bought
      <3>1. table'[<<p, r>>] = RowOf(table[<<p, r>>], result[p])
          BY <1>1, <2>2, <2>5
      <3>2. RowGrows(p, r)
          BY <1>5, <2>5 DEF RowGrows
      <3> QED
          BY <1>1, <1>5, <2>5, <3>1, <3>2
    <2> QED
        BY <2>3, <2>4, <2>5
  <1>7. \A k \in Pages \X ReaderSet : table'[k] \in Store!Rows
      BY <1>6
  <1>8. table' \in [Pages \X ReaderSet -> Store!Rows]
      BY <1>2, <1>7
  <1> QED
      BY <1>3, <1>6, <1>8 DEF CallKeeps

(* The rows of a page's settled readers stay what they are.                *)
RowsStay(p) ==
  \A m \in ReaderSet : Read(p, m) \/ Absent(p, m) => table'[<<p, m>>] = table[<<p, m>>]

-----------------------------------------------------------------------------
(* What the policy says of a page depends on the rows of the readers it    *)
(* has come to, and of no other.                                           *)
RowsKept(p, n) == \A i \in 1 .. n : table'[<<p, Readers[i]>>] = table[<<p, Readers[i]>>]

(* Readings that are kept read the same.                                   *)
LEMMA KeptReadings ==
  ASSUME NEW p \in Pages, NEW n \in 0 .. Len(Readers), RowsKept(p, n)
  PROVE  \A i \in 1 .. n : /\ Read(p, Readers[i])' <=> Read(p, Readers[i])
                           /\ Absent(p, Readers[i])' <=> Absent(p, Readers[i])
                           /\ Reading(p, Readers[i])' = Reading(p, Readers[i])
  BY DEF RowsKept, Read, Absent, Reading, Store!Hit, Store!OutOfAttempts

(* The base verdict stays while the base readings are kept.                *)
LEMMA KeptBaseVerdict ==
  ASSUME NEW p \in Pages, NEW n \in 0 .. Len(Readers), RowsKept(p, n), n >= Len(Base)
  PROVE  BaseVerdict(p)' = BaseVerdict(p)
  <1>0. /\ n \in Nat /\ Len(Base) \in Nat /\ Len(Base) >= 1
        /\ \A i \in 1 .. Len(Base) : Base[i] = Readers[i]
      BY ReaderCounts, ReaderOrder
  <1>1. /\ 1 \in 1 .. n /\ Len(Base) \in 1 .. n
        /\ Base[1] = Readers[1] /\ Base[Len(Base)] = Readers[Len(Base)]
      BY <1>0
  <1>2. \A i \in 1 .. n : /\ Read(p, Readers[i])' <=> Read(p, Readers[i])
                          /\ Reading(p, Readers[i])' = Reading(p, Readers[i])
      BY KeptReadings
  <1>3. /\ Read(p, Base[1])' <=> Read(p, Base[1])
        /\ Reading(p, Base[1])' = Reading(p, Base[1])
        /\ Read(p, Base[Len(Base)])' <=> Read(p, Base[Len(Base)])
        /\ Reading(p, Base[Len(Base)])' = Reading(p, Base[Len(Base)])
      BY <1>1, <1>2
  <1> QED
      BY <1>3 DEF BaseVerdict, SaysNotAList

(* A match stays while the readings up to it are kept.                     *)
LEMMA KeptMatch ==
  ASSUME NEW p \in Pages, NEW n \in 0 .. Len(Readers), RowsKept(p, n), NEW i \in 1 .. n
  PROVE  Match(p, i)' = Match(p, i) /\ EscalatedVerdict(p, i)' = EscalatedVerdict(p, i)
  <1>1. \A j \in 1 .. n : /\ Read(p, Readers[j])' <=> Read(p, Readers[j])
                          /\ Reading(p, Readers[j])' = Reading(p, Readers[j])
      BY KeptReadings
  <1>2. n \in Nat /\ i \in Nat /\ \A j \in 1 .. (i - 1) : j \in 1 .. n
      BY ReaderOrder
  <1>3. \A j \in 1 .. (i - 1) :
          (/\ Read(p, Readers[i])' /\ Read(p, Readers[j])'
           /\ AgreeOn(Reading(p, Readers[j])', Reading(p, Readers[i])'))
          <=> (/\ Read(p, Readers[i]) /\ Read(p, Readers[j])
               /\ AgreeOn(Reading(p, Readers[j]), Reading(p, Readers[i])))
      BY <1>1, <1>2
  <1>4. Match(p, i)' = Match(p, i)
      BY <1>3 DEF Match, AgreeOn
  <1> QED
      BY <1>4 DEF EscalatedVerdict

(* LastVerdict from the readers that have read the page.                   *)
LastOf(readable) ==
  LET produced == readable \ (1 .. Len(Base))
      last == CHOOSE i \in produced : \A j \in produced : j <= i IN
  IF Cardinality(readable) < 2 THEN Verdict("unreadable", None, <<>>, Len(Readers))
  ELSE IF LoadSingle /\ produced # {} THEN Verdict("flagged", Readers[last], <<>>, Len(Readers))
  ELSE Verdict("flagged", None, <<>>, Len(Readers))

(* The last verdict stays while every reading is kept.                     *)
LEMMA KeptLastVerdict ==
  ASSUME NEW p \in Pages, RowsKept(p, Len(Readers))
  PROVE  LastVerdict(p)' = LastVerdict(p)
  <1>1. \A i \in 1 .. Len(Readers) : Read(p, Readers[i])' <=> Read(p, Readers[i])
      BY KeptReadings, ReaderOrder
  <1>2. {i \in 1 .. Len(Readers) : Read(p, Readers[i])'} = {i \in 1 .. Len(Readers) : Read(p, Readers[i])}
      BY <1>1
  <1>3. LastVerdict(p) = LastOf({i \in 1 .. Len(Readers) : Read(p, Readers[i])})
      BY Zenon DEF LastVerdict, LastOf
  <1>4. LastVerdict(p)' = LastOf({i \in 1 .. Len(Readers) : Read(p, Readers[i])'})
      BY Zenon DEF LastVerdict, LastOf
  <1> QED
      BY <1>2, <1>3, <1>4

(* So a page settled and undecided by its first readers stays so.          *)
LEMMA KeptSettled ==
  ASSUME NEW p \in Pages, NEW n \in 0 .. Len(Readers), RowsKept(p, n), NEW k \in 0 .. n
  PROVE  /\ SettledTo(p, k)' <=> SettledTo(p, k)
         /\ UndecidedTo(p, k)' <=> UndecidedTo(p, k)
  <1>1. n \in Nat /\ k \in Nat /\ \A i \in 1 .. k : i \in 1 .. n
      BY ReaderOrder
  <1>2. SettledTo(p, k)' <=> SettledTo(p, k)
      BY <1>1, KeptReadings DEF SettledTo
  <1>3. \A i \in (Len(Base) + 1) .. k : i \in 1 .. n
      BY <1>1, ReaderOrder
  <1>4. \A i \in (Len(Base) + 1) .. k : Match(p, i)' = Match(p, i)
      BY <1>3, KeptMatch
  <1>5. k >= Len(Base) => BaseVerdict(p)' = BaseVerdict(p)
      BY <1>1, KeptBaseVerdict, ReaderOrder
  <1>6. UndecidedTo(p, k)' <=> UndecidedTo(p, k)
      BY <1>4, <1>5 DEF UndecidedTo
  <1> QED
      BY <1>2, <1>6

(* Rows that stay keep what is settled of a page.                          *)
LEMMA StayKeepsRows ==
  ASSUME NEW p \in Pages, RowsStay(p), NEW n \in 0 .. Len(Readers), SettledTo(p, n)
  PROVE  RowsKept(p, n)
  <1>1. \A i \in 1 .. n : Readers[i] \in ReaderSet
      BY ReaderOrder
  <1> QED
      BY <1>1 DEF RowsStay, SettledTo, RowsKept

-----------------------------------------------------------------------------
(* The policy's verdict, by the readers that decide it.                    *)

(* The base pair decides the page ...                                      *)
LEMMA PolicyOfTheBase ==
  ASSUME NEW p \in Pages, BaseVerdict(p) # None
  PROVE  PolicyVerdict(p) = BaseVerdict(p) /\ PolicyVerdict(p).consulted = Len(Base)
  BY BaseVerdictType DEF PolicyVerdict

(* ... or the first escalation reader that some earlier reader agrees with *)
LEMMA PolicyOfAnEscalation ==
  ASSUME NEW p \in Pages, NEW i \in (Len(Base) + 1) .. Len(Readers),
         UndecidedTo(p, i - 1), Match(p, i) # {}
  PROVE  PolicyVerdict(p) = EscalatedVerdict(p, i) /\ PolicyVerdict(p).consulted = i
  <1>1. Len(Base) \in Nat /\ Len(Readers) \in Nat /\ i \in Nat
      BY ReaderOrder
  <1>2. BaseVerdict(p) = None /\ \A j \in (Len(Base) + 1) .. (i - 1) : Match(p, j) = {}
      BY <1>1 DEF UndecidedTo
  <1>3. i \in Resolving(p) /\ Resolving(p) \in SUBSET Nat
      BY <1>1 DEF Resolving
  <1>4. First(Resolving(p)) \in Resolving(p) /\ First(Resolving(p)) <= i
      BY <1>3, LeastIndex
  <1>5. \A j \in Resolving(p) : j >= i
      BY <1>1, <1>2 DEF Resolving
  <1>6. First(Resolving(p)) = i
      BY <1>1, <1>3, <1>4, <1>5
  <1>7. PolicyVerdict(p) = EscalatedVerdict(p, i)
      BY <1>2, <1>3, <1>6 DEF PolicyVerdict
  <1> QED
      BY <1>7, EscalatedVerdictType

(* ... or nobody does.                                                     *)
LEMMA PolicyOfTheRest ==
  ASSUME NEW p \in Pages, UndecidedTo(p, Len(Readers))
  PROVE  PolicyVerdict(p) = LastVerdict(p) /\ PolicyVerdict(p).consulted = Len(Readers)
  <1>1. Resolving(p) = {} /\ BaseVerdict(p) = None
      BY ReaderOrder DEF Resolving, UndecidedTo
  <1> QED
      BY <1>1, LastVerdictType DEF PolicyVerdict

(* There is no fourth case.                                                *)
LEMMA PolicyCases ==
  ASSUME NEW p \in Pages
  PROVE  \/ BaseVerdict(p) # None
         \/ \E i \in (Len(Base) + 1) .. Len(Readers) : UndecidedTo(p, i - 1) /\ Match(p, i) # {}
         \/ UndecidedTo(p, Len(Readers))
  <1>1. Len(Base) \in Nat /\ Len(Readers) \in Nat
      BY ReaderOrder
  <1>2. SUFFICES ASSUME BaseVerdict(p) = None, ~UndecidedTo(p, Len(Readers))
                 PROVE  \E i \in (Len(Base) + 1) .. Len(Readers) : UndecidedTo(p, i - 1) /\ Match(p, i) # {}
      OBVIOUS
  <1>3. Resolving(p) # {} /\ Resolving(p) \in SUBSET Nat
      BY <1>1, <1>2 DEF Resolving, UndecidedTo
  <1>4. PICK i \in Resolving(p) : \A j \in Resolving(p) : i <= j
      BY <1>3, LeastIndex
  <1>5. i \in (Len(Base) + 1) .. Len(Readers) /\ Match(p, i) # {}
      BY <1>4 DEF Resolving
  <1>6. \A j \in (Len(Base) + 1) .. (i - 1) : Match(p, j) = {}
      BY <1>1, <1>4, <1>5 DEF Resolving
  <1>7. UndecidedTo(p, i - 1)
      BY <1>2, <1>6 DEF UndecidedTo
  <1> QED
      BY <1>5, <1>7

(* What the policy says of a page it has the readings for does not change  *)
(* when more readings are stored.                                          *)
LEMMA PolicyStays ==
  ASSUME NEW p \in Pages, RowsStay(p), Settled(p)
  PROVE  PolicyVerdict(p)' = PolicyVerdict(p) /\ Settled(p)'
  <1>1. /\ Len(Base) \in Nat /\ Len(Base) >= 1 /\ Len(Base) <= Len(Readers)
        /\ Len(Readers) \in Nat /\ Len(Base) \in 1 .. Len(Readers)
      BY ReaderCounts
  <1>2. ASSUME NEW n \in 0 .. Len(Readers), PolicyVerdict(p).consulted = n,
               PolicyVerdict(p)' = PolicyVerdict(p)
        PROVE  Settled(p)'
    <2>1. SettledTo(p, n)
        BY <1>2 DEF Settled, SettledTo
    <2>2. RowsKept(p, n)
        BY <2>1, StayKeepsRows
    <2>3. SettledTo(p, n)'
        BY <1>1, <2>1, <2>2, KeptSettled
    <2> QED
        BY <1>2, <2>3 DEF Settled, SettledTo
  <1>3. CASE BaseVerdict(p) # None
    <2>1. PolicyVerdict(p) = BaseVerdict(p) /\ PolicyVerdict(p).consulted = Len(Base)
        BY <1>3, PolicyOfTheBase
    <2>2. SettledTo(p, Len(Base))
        BY <2>1 DEF Settled, SettledTo
    <2>3. RowsKept(p, Len(Base))
        BY <1>1, <2>2, StayKeepsRows
    <2>4. BaseVerdict(p)' = BaseVerdict(p)
        BY <1>1, <2>3, KeptBaseVerdict
    <2>5. PolicyVerdict(p)' = BaseVerdict(p)'
        BY <1>3, <2>4 DEF PolicyVerdict
    <2> QED
        BY <1>1, <1>2, <2>1, <2>4, <2>5
  <1>4. CASE \E i \in (Len(Base) + 1) .. Len(Readers) : UndecidedTo(p, i - 1) /\ Match(p, i) # {}
    <2>1. PICK i \in (Len(Base) + 1) .. Len(Readers) : UndecidedTo(p, i - 1) /\ Match(p, i) # {}
        BY <1>4
    <2>2. PolicyVerdict(p) = EscalatedVerdict(p, i) /\ PolicyVerdict(p).consulted = i
        BY <2>1, PolicyOfAnEscalation
    <2>3. i \in 1 .. Len(Readers) /\ i \in 1 .. i /\ i - 1 \in 0 .. i
        BY <1>1
    <2>4. SettledTo(p, i)
        BY <2>2 DEF Settled, SettledTo
    <2>5. RowsKept(p, i)
        BY <2>3, <2>4, StayKeepsRows
    <2>6. Match(p, i)' = Match(p, i) /\ EscalatedVerdict(p, i)' = EscalatedVerdict(p, i)
        BY <2>3, <2>5, KeptMatch
    <2>7. UndecidedTo(p, i - 1)'
        BY <2>1, <2>3, <2>5, KeptSettled
    <2>8. PolicyVerdict(p)' = EscalatedVerdict(p, i)'
      <3>1. (BaseVerdict(p) = None)' /\ \A j \in (Len(Base) + 1) .. (i - 1) : Match(p, j)' = {}
          BY <1>1, <2>7 DEF UndecidedTo
      <3>2. i \in Resolving(p)' /\ Resolving(p)' \in SUBSET Nat
          BY <1>1, <2>1, <2>6 DEF Resolving
      <3>3. First(Resolving(p)') \in Resolving(p)' /\ First(Resolving(p)') <= i
          BY <3>2, LeastIndex
      <3>4. \A j \in Resolving(p)' : j >= i
          BY <1>1, <3>1 DEF Resolving
      <3>5. First(Resolving(p)') = i
          BY <1>1, <3>2, <3>3, <3>4
      <3> QED
          BY <3>1, <3>2, <3>5 DEF PolicyVerdict, First
    <2> QED
        BY <1>2, <2>2, <2>3, <2>6, <2>8
  <1>5. CASE UndecidedTo(p, Len(Readers))
    <2>1. PolicyVerdict(p) = LastVerdict(p) /\ PolicyVerdict(p).consulted = Len(Readers)
        BY <1>5, PolicyOfTheRest
    <2>2. SettledTo(p, Len(Readers))
        BY <2>1 DEF Settled, SettledTo
    <2>3. RowsKept(p, Len(Readers))
        BY <1>1, <2>2, StayKeepsRows
    <2>4. LastVerdict(p)' = LastVerdict(p)
        BY <2>3, KeptLastVerdict
    <2>5. UndecidedTo(p, Len(Readers))'
        BY <1>1, <1>5, <2>3, KeptSettled
    <2>6. Resolving(p)' = {} /\ (BaseVerdict(p) = None)'
        BY <1>1, <2>5 DEF Resolving, UndecidedTo
    <2>7. PolicyVerdict(p)' = LastVerdict(p)'
        BY <2>6 DEF PolicyVerdict
    <2> QED
        BY <1>1, <1>2, <2>1, <2>4, <2>7
  <1> QED
      BY <1>3, <1>4, <1>5, PolicyCases

-----------------------------------------------------------------------------
(* The gate's records.                                                     *)
LEMMA NewGateFields ==
  ASSUME NEW buy \in BOOLEAN
  PROVE  /\ NewGate(buy) \in Gates /\ NoGate \in Gates
         /\ NewGate(buy).phase = "consult" /\ NewGate(buy).at = 1 /\ NoGate.phase = "none"
  <1>1. Len(Readers) \in Nat /\ 1 \in 0 .. Len(Readers) /\ 0 \in 0 .. Len(Readers)
      BY ReaderCounts
  <1>2. NoGate \in Gates /\ NoGate.phase = "none"
      BY <1>1 DEF NoGate, Gates, Phases
  <1>3. PICK new : new = NewGate(buy)
      OBVIOUS
  <1>4. new = [NoGate EXCEPT !.phase = "consult", !.at = 1, !.batch = Pages, !.buy = buy]
      BY <1>3 DEF NewGate
  <1>5. new.phase = "consult" /\ new.at = 1
      BY <1>4 DEF NoGate
  <1>6. new \in Gates
      BY <1>1, <1>4 DEF NoGate, Gates, Phases
  <1> QED
      BY <1>2, <1>3, <1>5, <1>6

(* The reader the gate has come to.                                        *)
LEMMA GateReader ==
  ASSUME TypeOK, GateInv, gate.phase \in {"consult", "decide", "last"}
  PROVE  gate.at \in 1 .. Len(Readers) /\ gate.at \in Nat /\ Model \in ReaderSet
         /\ gate.batch \subseteq Pages
  <1>1. gate.at \in 1 .. Len(Readers) /\ gate.batch \subseteq Pages
      BY DEF GateInv, Indices, TypeOK, Gates
  <1> QED
      BY <1>1, ReaderOrder, ReaderCounts DEF Model

-----------------------------------------------------------------------------
(* What a step does to the table of readings: rows stay rows, those of     *)
(* settled readers are kept or re-parsed, and the only ones that change    *)
(* are the base readers' or of the pages the gate is consulting on.        *)
TableStep ==
  /\ table' \in [Pages \X ReaderSet -> Store!Rows]
  /\ recovered' \subseteq Pages
  /\ \A p \in Pages, r \in ReaderSet :
       /\ RowGrows(p, r)
       /\ \/ table'[<<p, r>>] = table[<<p, r>>]
          \/ r \in BaseReaders
          \/ gate.phase = "consult" /\ p \in gate.batch /\ r = Model

(* A step that leaves the table alone moves it as TableStep allows.        *)
LEMMA SameTable ==
  ASSUME TypeOK, UNCHANGED table, recovered' \subseteq recovered
  PROVE  TableStep
  BY DEF TypeOK, TableStep, RowGrows

(* A call cut short is a call.                                             *)
LEMMA PartIsCall ==
  ASSUME NEW m, NEW pages, NEW parser \in BOOLEAN, NEW buy, PartResults(m, pages, parser, buy)
  PROVE  Call(m, pages)
  <1>1. PICK reparsed \in SUBSET Reparses(m, pages, parser) :
          \E bought \in SUBSET (IF buy /\ reparsed = Reparses(m, pages, parser)
                                THEN Missing(m, pages, parser) ELSE {}) :
            \E result \in [bought -> Outcomes(parser)] : Results(m, reparsed, result)
      BY DEF PartResults
  <1>2. \E bought \in SUBSET Missing(m, pages, parser) :
            \E result \in [bought -> Outcomes(parser)] : Results(m, reparsed, result)
      BY <1>1
  <1> QED
      BY <1>2 DEF Call

(* A base reader's call keeps the settled rows.                            *)
LEMMA BaseCall ==
  ASSUME TypeOK, NEW m \in run.left, Call(m, Pages)
  PROVE  TableStep
  <1>1. m \in BaseReaders /\ BaseReaders \subseteq ReaderSet
      BY ReaderOrder DEF TypeOK, Runs, BaseReaders
  <1>4. PICK all \in SUBSET Pages : all = Pages
      OBVIOUS
  <1>0. PICK parser \in BOOLEAN : \E reparsed \in SUBSET Reparses(m, all, parser) :
          \E bought \in SUBSET Missing(m, all, parser) :
            \E result \in [bought -> Outcomes(parser)] : Results(m, reparsed, result)
      BY <1>4 DEF Call
  <1>a. PICK reparsed \in SUBSET Reparses(m, all, parser) :
          \E bought \in SUBSET Missing(m, all, parser) :
            \E result \in [bought -> Outcomes(parser)] : Results(m, reparsed, result)
      BY <1>0
  <1>2. PICK bought \in SUBSET Missing(m, all, parser) :
          \E result \in [bought -> Outcomes(parser)] : Results(m, reparsed, result)
      BY <1>a
  <1>b. PICK result \in [bought -> Outcomes(parser)] : Results(m, reparsed, result)
      BY <1>2
  <1>3. m \in ReaderSet /\ reparsed \subseteq Pages
      BY <1>1 DEF Reparses
  <1>5. /\ table' \in [Pages \X ReaderSet -> Store!Rows]
        /\ recovered' = recovered \cup {p \in reparsed : verdicts[p] # None}
        /\ \A p \in Pages, r \in ReaderSet :
             RowGrows(p, r) /\ (r # m \/ p \notin all => table'[<<p, r>>] = table[<<p, r>>])
    <2>1. CallKeeps(m, all, reparsed, bought, result)
        BY <1>b, <1>3, ResultsKeep
    <2> QED
        BY <2>1 DEF CallKeeps
  <1> QED
      BY <1>1, <1>3, <1>5 DEF TableStep, TypeOK

(* A call of the gate keeps the settled rows, and touches the batch alone. *)
LEMMA GateCall ==
  ASSUME TypeOK, GateInv, gate.phase = "consult", Call(Model, gate.batch)
  PROVE  /\ TableStep
         /\ \A p \in Pages \ gate.batch : p \in recovered' => p \in recovered
         /\ \A p \in Pages, r \in ReaderSet \ {Model} : table'[<<p, r>>] = table[<<p, r>>]
  <1>1. PICK m \in ReaderSet : m = Model
      BY GateReader
  <1>0. PICK parser \in BOOLEAN : \E reparsed \in SUBSET Reparses(m, gate.batch, parser) :
          \E bought \in SUBSET Missing(m, gate.batch, parser) :
            \E result \in [bought -> Outcomes(parser)] : Results(m, reparsed, result)
      BY <1>1 DEF Call
  <1>a. PICK reparsed \in SUBSET Reparses(m, gate.batch, parser) :
          \E bought \in SUBSET Missing(m, gate.batch, parser) :
            \E result \in [bought -> Outcomes(parser)] : Results(m, reparsed, result)
      BY <1>0
  <1>b. PICK bought \in SUBSET Missing(m, gate.batch, parser) :
          \E result \in [bought -> Outcomes(parser)] : Results(m, reparsed, result)
      BY <1>a
  <1>2. PICK result \in [bought -> Outcomes(parser)] : Results(m, reparsed, result)
      BY <1>b
  <1>3. PICK all \in SUBSET Pages : all = gate.batch
      BY GateReader
  <1>4. reparsed \subseteq all
      BY <1>3 DEF Reparses
  <1>5. /\ table' \in [Pages \X ReaderSet -> Store!Rows]
        /\ recovered' = recovered \cup {p \in reparsed : verdicts[p] # None}
        /\ \A p \in Pages, r \in ReaderSet :
             /\ RowGrows(p, r)
             /\ r # m \/ p \notin all => table'[<<p, r>>] = table[<<p, r>>]
    <2>1. CallKeeps(m, all, reparsed, bought, result)
        BY <1>2, <1>3, ResultsKeep
    <2> QED
        BY <2>1 DEF CallKeeps
  <1>6. recovered' \subseteq Pages /\ \A p \in Pages \ all : p \in recovered' => p \in recovered
      BY <1>4, <1>5 DEF TypeOK
  <1>7. TableStep
      BY <1>1, <1>3, <1>5, <1>6 DEF TableStep
  <1> QED
      BY <1>1, <1>3, <1>5, <1>6, <1>7

(* What the gate's consulting steps do is a call.                          *)
LEMMA ConsultIsCall ==
  ASSUME TypeOK, Consult \/ ConsultMissing
  PROVE  gate.phase = "consult" /\ Call(Model, gate.batch)
  <1>1. run.parser \in BOOLEAN
      BY DEF TypeOK, Runs
  <1>2. CASE Consult
    <2>1. PICK result \in [Missing(Model, gate.batch, run.parser) -> Outcomes(run.parser)] :
            Results(Model, Reparses(Model, gate.batch, run.parser), result)
        BY <1>2 DEF Consult
    <2> QED
        BY <1>1, <1>2, <2>1 DEF Consult, Call
  <1>3. CASE ConsultMissing
    <2>1. PICK none \in SUBSET Missing(Model, gate.batch, run.parser) : none = {}
        OBVIOUS
    <2>2. <<>> \in [none -> Outcomes(run.parser)]
        BY <2>1
    <2>3. Results(Model, Reparses(Model, gate.batch, run.parser), <<>>)
        BY <1>3 DEF ConsultMissing
    <2> QED
        BY <1>1, <1>3, <2>2, <2>3 DEF ConsultMissing, Call
  <1> QED
      BY <1>2, <1>3

(* So is what a base reader does.                                          *)
LEMMA BaseIsCall ==
  ASSUME TypeOK, NEW m, BaseReader(m) \/ BaseReaderFails(m)
  PROVE  m \in run.left /\ Call(m, Pages)
  <1>1. run.parser \in BOOLEAN /\ improved \in BOOLEAN
      BY DEF TypeOK, Runs
  <1>2. CASE BaseReader(m)
    <2>1. PICK parser \in BOOLEAN :
            \E result \in [Missing(m, Pages, parser) -> Outcomes(parser)] :
              Results(m, Reparses(m, Pages, parser), result)
        BY <1>1, <1>2 DEF BaseReader
    <2>2. PICK bought \in SUBSET Missing(m, Pages, parser) : bought = Missing(m, Pages, parser)
        OBVIOUS
    <2> QED
        BY <1>2, <2>1, <2>2 DEF BaseReader, Call
  <1>3. CASE BaseReaderFails(m)
    <2>1. PICK parser \in BOOLEAN : PartResults(m, Pages, parser, TRUE)
        BY <1>1, <1>3 DEF BaseReaderFails
    <2>2. Call(m, Pages)
        BY <2>1, PartIsCall
    <2> QED
        BY <1>3, <2>2 DEF BaseReaderFails
  <1> QED
      BY <1>2, <1>3

(* A stop leaves the table alone, or is in the middle of a call.           *)
LEMMA StopCases ==
  ASSUME TypeOK, Stop
  PROVE  \/ UNCHANGED <<table, verdicts, recovered>>
         \/ gate.phase = "consult" /\ Call(Model, gate.batch) /\ UNCHANGED verdicts
         \/ (\E m \in run.left : Call(m, Pages)) /\ UNCHANGED verdicts
         \/ /\ gate.phase \in {"decide", "last"} /\ UNCHANGED table
            /\ \E pages \in SUBSET Decided : Flush(pages)
  <1>1. run.parser \in BOOLEAN /\ improved \in BOOLEAN
      BY DEF TypeOK, Runs
  <1>2. ASSUME NEW m, NEW pages, NEW parser \in {run.parser, improved}, NEW buy,
               PartResults(m, pages, parser, buy)
        PROVE  Call(m, pages)
      BY <1>1, <1>2, PartIsCall
  <1> QED
      BY <1>2 DEF Stop

(* Every step grows the table so.                                          *)
LEMMA TableSteps ==
  ASSUME TypeOK, GateInv, [Next]_vars
  PROVE  TableStep
  <1>1. ASSUME NEW m \in ReaderSet, BaseReader(m) \/ BaseReaderFails(m)
        PROVE  TableStep
      BY <1>1, BaseIsCall, BaseCall
  <1>2. CASE Consult \/ ConsultMissing
      BY <1>2, ConsultIsCall, GateCall
  <1>3. CASE Stop
    <2>1. CASE UNCHANGED <<table, verdicts, recovered>>
        BY <2>1, SameTable
    <2>2. CASE gate.phase = "consult" /\ Call(Model, gate.batch)
        BY <2>2, GateCall
    <2>3. CASE \E m \in run.left : Call(m, Pages)
        BY <2>3, BaseCall
    <2>4. CASE UNCHANGED table /\ \E pages \in SUBSET Decided : Flush(pages)
      <3>1. recovered' \subseteq recovered
          BY <2>4 DEF Flush
      <3> QED
          BY <2>4, <3>1, SameTable
    <2> QED
        BY <1>3, <2>1, <2>2, <2>3, <2>4, StopCases
  <1>4. ASSUME UNCHANGED table, recovered' \subseteq recovered
        PROVE  TableStep
      BY <1>4, SameTable
  <1>5. CASE Decide \/ DecideLast
      BY <1>4, <1>5 DEF Decide, DecideLast, Flush
  <1>6. \/ \E m \in ReaderSet : BaseReader(m) \/ BaseReaderFails(m)
        \/ Consult \/ ConsultMissing \/ Stop \/ Decide \/ DecideLast
        \/ UNCHANGED table /\ recovered' \subseteq recovered
      BY DEF Next, Step, vars, Start, GatePassed, BaseReadersDone, Transcribed, FinalPassed,
             FinalStopped, ImproveParser
  <1> QED
      BY <1>1, <1>2, <1>3, <1>4, <1>5, <1>6

-----------------------------------------------------------------------------
(* The run's own record.                                                   *)
LEMMA RunStays ==
  ASSUME TypeOK, [Next]_vars
  PROVE  run' \in Runs /\ improved' \in BOOLEAN
  <1>1. /\ Idle \in Runs /\ Stopped \in Runs
        /\ \A step \in RunSteps : [Idle EXCEPT !.step = step] \in Runs
        /\ [Idle EXCEPT !.step = "gate", !.parser = improved] \in Runs
      BY DEF Idle, Stopped, Runs, RunSteps, TypeOK
  <1>2. PICK now \in Runs : now = run
      BY DEF TypeOK
  <1>3. /\ \A step \in RunSteps : [now EXCEPT !.step = step] \in Runs
        /\ \A m : [now EXCEPT !.left = @ \ {m}] \in Runs
        /\ \A m : [now EXCEPT !.left = @ \ {m}, !.broke = TRUE] \in Runs
        /\ [now EXCEPT !.step = "base", !.left = BaseReaders] \in Runs
      BY DEF Runs, RunSteps
  <1>4. /\ "gate" \in RunSteps /\ "first" \in RunSteps /\ "second" \in RunSteps
        /\ "final" \in RunSteps /\ "done" \in RunSteps
      BY DEF RunSteps
  <1>5. improved' \in BOOLEAN
    <2>1. ASSUME NEW m \in ReaderSet, BaseReader(m) \/ BaseReaderFails(m)
          PROVE  improved' = improved
        BY <2>1 DEF BaseReader, BaseReaderFails
    <2>2. CASE Stop
        BY <2>2 DEF Stop, TypeOK
    <2> QED
        BY <2>1, <2>2 DEF Next, Step, vars, Start, GatePassed, BaseReadersDone, Consult,
           ConsultMissing, Decide, DecideLast, Transcribed, FinalPassed, FinalStopped,
           ImproveParser, TypeOK
  <1>6. run' \in Runs
    <2>1. CASE Start \/ GatePassed
        BY <1>1, <1>2, <1>3, <1>4, <2>1 DEF Start, GatePassed, BaseReaders
    <2>2. ASSUME NEW m \in ReaderSet, BaseReader(m) \/ BaseReaderFails(m)
          PROVE  run' \in Runs
        BY ZenonT(60), <1>2, <1>3, <2>2 DEF BaseReader, BaseReaderFails
    <2>3. CASE BaseReadersDone \/ Transcribed
        BY <1>1, <1>2, <1>3, <1>4, <2>3 DEF BaseReadersDone, Transcribed
    <2>4. CASE FinalPassed \/ FinalStopped \/ Stop
        BY <1>1, <1>4, <2>4 DEF FinalPassed, FinalStopped, Stop
    <2>5. CASE Consult \/ ConsultMissing \/ Decide \/ DecideLast \/ ImproveParser \/ UNCHANGED vars
        BY <1>2, <2>5 DEF Consult, ConsultMissing, Decide, DecideLast, ImproveParser, vars
    <2> QED
        BY <2>1, <2>2, <2>3, <2>4, <2>5 DEF Next, Step
  <1> QED
      BY <1>5, <1>6

-----------------------------------------------------------------------------
(* The gate, step by step.                                                 *)
GateOK == gate \in Gates /\ GateInv

(* A gate that is over has nothing to keep.                                *)
LEMMA NoGateStep ==
  ASSUME gate' = NoGate
  PROVE  GateOK'
  BY NewGateFields DEF GateOK, GateInv

(* A gate begins at the first model with the pages it was given.           *)
LEMMA NewGateStep ==
  ASSUME NEW buy \in BOOLEAN, gate' = NewGate(buy)
  PROVE  GateOK'
  <1>1. gate' \in Gates /\ gate'.phase = "consult" /\ gate'.at = 1
      BY NewGateFields
  <1>2. 1 \in Indices /\ 0 < Len(Base)
      BY ReaderCounts DEF Indices
  <1>3. \A p : SettledTo(p, 0)' /\ UndecidedTo(p, 0)'
      BY <1>2, ReaderCounts DEF SettledTo, UndecidedTo
  <1> QED
      BY <1>1, <1>2, <1>3 DEF GateOK, GateInv

(* A gate that waits keeps what it settled.                                *)
LEMMA SameGateStep ==
  ASSUME TypeOK, GateInv, UNCHANGED <<gate, table>>
  PROVE  GateOK'
  <1>1. ASSUME NEW p \in Pages, NEW n \in 0 .. Len(Readers)
        PROVE  /\ SettledTo(p, n)' <=> SettledTo(p, n)
               /\ UndecidedTo(p, n)' <=> UndecidedTo(p, n)
    <2>1. RowsKept(p, n)
        BY DEF RowsKept
    <2>2. n \in 0 .. n
        BY ReaderCounts
    <2> QED
        BY <2>1, <2>2, KeptSettled
  <1>2. gate.at \in 0 .. Len(Readers) /\ gate.batch \subseteq Pages /\ Len(Readers) \in 0 .. Len(Readers)
      BY ReaderCounts DEF TypeOK, Gates
  <1>3. gate.at \in Indices => gate.at - 1 \in 0 .. Len(Readers)
      BY <1>2, ReaderCounts DEF Indices
  <1>4. /\ gate.phase = "consult" =>
             \A p \in gate.batch : SettledTo(p, gate.at - 1)' /\ UndecidedTo(p, gate.at - 1)'
        /\ gate.phase = "decide" =>
             \A p \in gate.batch : SettledTo(p, gate.at)' /\ UndecidedTo(p, gate.at - 1)'
        /\ gate.phase = "last" =>
             \A p \in gate.batch : SettledTo(p, Len(Readers))' /\ UndecidedTo(p, Len(Readers))'
      BY <1>1, <1>2, <1>3 DEF GateInv
  <1> QED
      BY <1>4 DEF GateOK, GateInv, TypeOK

(* The gate consults the next model about the pages still open.            *)
LEMMA ConsultStep ==
  ASSUME TypeOK, GateInv, Consult
  PROVE  GateOK'
  <1>b. PICK parser \in BOOLEAN : parser = run.parser
      BY DEF TypeOK, Runs
  <1>0. PICK at, m : at = gate.at /\ m = Model
      OBVIOUS
  <1>a. PICK all \in SUBSET Pages : all = gate.batch
      BY DEF TypeOK, Gates
  <1> DEFINE missing == Missing(m, all, parser)
             reparsed == Reparses(m, all, parser)
  <1>1. PICK result \in [missing -> Outcomes(parser)] :
          /\ Results(m, reparsed, result)
          /\ gate' = [gate EXCEPT
               !.phase = IF gate.at < Len(Base) THEN "consult" ELSE "decide",
               !.at = IF gate.at < Len(Base) THEN @ + 1 ELSE @,
               !.batch = Passed({p \in missing : result[p].answer = None}),
               !.failed = @ \cup {p \in missing : result[p].answer = None}]
      BY <1>0, <1>a, <1>b DEF Consult
  <1>2. gate.phase = "consult" /\ Call(Model, gate.batch) /\ parser \in BOOLEAN
      BY <1>0, ConsultIsCall DEF TypeOK, Runs
  <1>4. at \in 1 .. Len(Readers) /\ at \in Nat /\ gate.batch \subseteq Pages
        /\ m \in ReaderSet /\ m = Readers[at]
      BY <1>0, <1>2, GateReader DEF Model
  <1>5. missing \subseteq gate.batch /\ \A p \in gate.batch \ (missing \cup reparsed) : Read(p, m) \/ Absent(p, m)
      BY <1>a DEF Missing
  <1>3. /\ \A p \in reparsed : Read(p, m)'
        /\ \A p \in missing : result[p].answer # None => Read(p, m)'
        /\ \A p \in Pages \ (reparsed \cup missing) : table'[<<p, m>>] = table[<<p, m>>]
        /\ \A p \in Pages, r \in ReaderSet \ {m} : table'[<<p, r>>] = table[<<p, r>>]
    <2>1. /\ \A p \in reparsed : table'[<<p, m>>].answer # None
          /\ \A p \in missing : result[p].answer # None => table'[<<p, m>>].answer # None
          /\ \A p \in Pages \ (reparsed \cup missing) : table'[<<p, m>>] = table[<<p, m>>]
          /\ \A p \in Pages, r \in ReaderSet :
               r # m \/ p \notin all => table'[<<p, r>>] = table[<<p, r>>]
      <3> HIDE DEF missing, reparsed
      <3>1. PICK reader \in ReaderSet : reader = m
          BY <1>4
      <3>2. PICK fixed \in SUBSET Reparses(reader, all, parser) : fixed = reparsed
          BY <3>1 DEF reparsed
      <3>3. PICK bought \in SUBSET Missing(reader, all, parser) : bought = missing
          BY <3>1 DEF missing
      <3>4. PICK found \in [bought -> Outcomes(parser)] : found = result
          BY <3>3
      <3>5. Results(reader, fixed, found)
          BY <1>1, <3>1, <3>2, <3>4
      <3>6. \A p \in Pages, r \in ReaderSet :
              /\ r # reader \/ p \notin all => table'[<<p, r>>] = table[<<p, r>>]
              /\ r = reader /\ p \in fixed => table'[<<p, r>>].answer # None
              /\ r = reader /\ p \in bought /\ found[p].answer # None => table'[<<p, r>>].answer # None
              /\ r = reader /\ p \notin fixed \cup bought => table'[<<p, r>>] = table[<<p, r>>]
        <4>1. CallKeeps(reader, all, fixed, bought, found)
            BY <3>5, ResultsKeep
        <4> QED
            BY <4>1 DEF CallKeeps
      <3>7. fixed \subseteq Pages /\ bought \subseteq Pages
          BY DEF Reparses, Missing
      <3> QED
          BY <3>1, <3>2, <3>3, <3>4, <3>6, <3>7
    <2> QED
        BY <2>1 DEF Read, Store!Hit
  <1>6. ASSUME NEW p \in gate.batch, ~(p \in missing /\ result[p].answer = None)
        PROVE  SettledTo(p, at)' /\ UndecidedTo(p, at - 1)'
    <2>0. p \in Pages /\ at - 1 \in 0 .. Len(Readers) /\ at - 1 \in 0 .. (at - 1)
        BY <1>4
    <2>1. SettledTo(p, at - 1)' /\ UndecidedTo(p, at - 1)'
      <3>1. SettledTo(p, at - 1) /\ UndecidedTo(p, at - 1)
          BY <1>0, <1>2 DEF GateInv
      <3>2. \A i \in 1 .. (at - 1) : i \in 1 .. Len(Readers) /\ i # at
          BY <1>4, ReaderCounts
      <3>3. \A i \in 1 .. (at - 1) : Readers[i] \in ReaderSet \ {m}
          BY <1>4, <3>2, ReaderOrder
      <3>4. RowsKept(p, at - 1)
          BY <1>3, <2>0, <3>3 DEF RowsKept
      <3> QED
          BY <2>0, <3>1, <3>4, KeptSettled
    <2>2. Read(p, m)' \/ Absent(p, m)'
      <3>1. CASE p \in missing \cup reparsed
          BY <1>3, <1>6, <3>1
      <3>2. CASE p \notin missing \cup reparsed
        <4>1. table'[<<p, m>>] = table[<<p, m>>]
            BY <1>3, <2>0, <3>2
        <4> QED
            BY <1>5, <3>2, <4>1 DEF Read, Absent
      <3> QED
          BY <3>1, <3>2
    <2>3. Read(p, Readers[at])' \/ Absent(p, Readers[at])'
        BY <1>4, <2>2
    <2> QED
        BY <1>4, <2>1, <2>3 DEF SettledTo
  <1> HIDE DEF missing, reparsed
  <1>7. PICK gone : gone = {p \in missing : result[p].answer = None}
      OBVIOUS
  <1>8. gone \subseteq gate.batch /\ \A p \in gate.batch \ gone : ~(p \in missing /\ result[p].answer = None)
      BY <1>5, <1>7
  <1>9. gate' = [gate EXCEPT
               !.phase = IF at < Len(Base) THEN "consult" ELSE "decide",
               !.at = IF at < Len(Base) THEN at + 1 ELSE at,
               !.batch = gate.batch \ gone, !.failed = @ \cup gone]
      BY <1>0, <1>1, <1>7 DEF Passed
  <1>10. /\ gate'.phase = IF at < Len(Base) THEN "consult" ELSE "decide"
         /\ gate'.at = IF at < Len(Base) THEN at + 1 ELSE at
         /\ gate'.batch = gate.batch \ gone
         /\ gate' \in Gates
    <2>1. PICK now \in Gates : now = gate
        BY DEF TypeOK
    <2>2. PICK phase \in {"consult", "decide"} : phase = IF at < Len(Base) THEN "consult" ELSE "decide"
        OBVIOUS
    <2>3. PICK next \in 0 .. Len(Readers) : next = IF at < Len(Base) THEN at + 1 ELSE at
        BY <1>4, ReaderCounts
    <2>4. PICK batch \in SUBSET Pages : batch = gate.batch \ gone
        BY <1>4
    <2>5. PICK failed \in SUBSET Pages : failed = now.failed \cup gone
        BY <1>4, <1>8 DEF Gates
    <2>6. gate' = [now EXCEPT !.phase = phase, !.at = next, !.batch = batch, !.failed = failed]
        BY <1>9, <2>1, <2>2, <2>3, <2>4, <2>5
    <2>7. gate' \in Gates /\ gate'.phase = phase /\ gate'.at = next /\ gate'.batch = batch
        BY <2>6 DEF Gates, Phases
    <2> QED
        BY <2>2, <2>3, <2>4, <2>7
  <1>11. \A p \in gate'.batch : SettledTo(p, at)' /\ UndecidedTo(p, at - 1)'
      BY <1>6, <1>8, <1>10
  <1>12. CASE at < Len(Base)
    <2>1. gate'.phase = "consult" /\ gate'.at = at + 1 /\ gate'.at \in Indices
          /\ gate'.at - 1 = at
        BY <1>4, <1>10, <1>12, ReaderCounts DEF Indices
    <2>2. \A p : UndecidedTo(p, at)'
      <3>1. ~(at >= Len(Base)) /\ (Len(Base) + 1) .. at = {}
          BY <1>4, <1>12, ReaderCounts
      <3> QED
          BY <3>1 DEF UndecidedTo
    <2> QED
        BY <1>10, <1>11, <2>1, <2>2 DEF GateOK, GateInv
  <1>13. CASE ~(at < Len(Base))
    <2>1. gate'.phase = "decide" /\ gate'.at = at /\ gate'.at \in Indices /\ gate'.at >= Len(Base)
        BY <1>4, <1>10, <1>13, ReaderCounts DEF Indices
    <2> QED
        BY <1>10, <1>11, <2>1 DEF GateOK, GateInv
  <1> QED
      BY <1>12, <1>13

(* The stage's verdict on a page of the gate is the policy's.              *)
LEMMA StageDecides ==
  ASSUME TypeOK, GateInv, gate.phase = "decide", NEW p \in gate.batch
  PROVE  /\ StageVerdict(p) # None =>
              /\ StageVerdict(p) \in Verdicts
              /\ StageVerdict(p) = PolicyVerdict(p) /\ Settled(p)
         /\ StageVerdict(p) = None => UndecidedTo(p, gate.at)
  <1>1. gate.at \in 1 .. Len(Readers) /\ gate.at \in Nat /\ p \in Pages /\ gate.at >= Len(Base)
      BY GateReader DEF GateInv
  <1>2. SettledTo(p, gate.at) /\ UndecidedTo(p, gate.at - 1)
      BY DEF GateInv
  <1>3. CASE gate.at = Len(Base)
    <2>1. StageVerdict(p) = BaseVerdict(p)
        BY <1>3 DEF StageVerdict
    <2>2. BaseVerdict(p) # None =>
            /\ BaseVerdict(p) \in Verdicts
            /\ PolicyVerdict(p) = BaseVerdict(p) /\ PolicyVerdict(p).consulted = Len(Base)
        BY <1>1, BaseVerdictType, PolicyOfTheBase
    <2>3. BaseVerdict(p) = None => UndecidedTo(p, gate.at)
        BY <1>1, <1>3 DEF UndecidedTo
    <2> QED
        BY <1>2, <1>3, <2>1, <2>2, <2>3 DEF Settled, SettledTo
  <1>4. CASE gate.at # Len(Base)
    <2>1. gate.at \in (Len(Base) + 1) .. Len(Readers)
        BY <1>1, <1>4, ReaderCounts
    <2>2. StageVerdict(p) = EscalatedVerdict(p, gate.at)
        BY <1>4 DEF StageVerdict
    <2>3. /\ EscalatedVerdict(p, gate.at) = None <=> Match(p, gate.at) = {}
          /\ EscalatedVerdict(p, gate.at) # None =>
               /\ EscalatedVerdict(p, gate.at) \in Verdicts
               /\ PolicyVerdict(p) = EscalatedVerdict(p, gate.at)
               /\ PolicyVerdict(p).consulted = gate.at
        BY <1>1, <1>2, <2>1, EscalatedVerdictType, PolicyOfAnEscalation
    <2>4. Match(p, gate.at) = {} => UndecidedTo(p, gate.at)
      <3>1. BaseVerdict(p) = None /\ \A i \in (Len(Base) + 1) .. (gate.at - 1) : Match(p, i) = {}
          BY <1>2, <2>1, ReaderCounts DEF UndecidedTo
      <3>2. \A i \in (Len(Base) + 1) .. gate.at : i = gate.at \/ i \in (Len(Base) + 1) .. (gate.at - 1)
          BY <1>1, ReaderCounts
      <3> QED
          BY <3>1, <3>2 DEF UndecidedTo
    <2> QED
        BY <1>2, <2>2, <2>3, <2>4 DEF Settled, SettledTo
  <1> QED
      BY <1>3, <1>4

(* The gate decides the pages its model has read.                          *)
LEMMA DecideStep ==
  ASSUME TypeOK, GateInv, Decide
  PROVE  GateOK'
  <1>0. PICK at : at = gate.at
      OBVIOUS
  <1>1. gate.phase = "decide" /\ table' = table
      BY DEF Decide
  <1>2. at \in 1 .. Len(Readers) /\ at \in Nat /\ gate.batch \subseteq Pages /\ at >= Len(Base)
      BY <1>0, <1>1, GateReader DEF GateInv
  <1>a. Decided = {p \in gate.batch : StageVerdict(p) # None}
      BY <1>1 DEF Decided
  <1>3. PICK disputed \in SUBSET gate.batch : disputed = gate.batch \ Decided
      OBVIOUS
  <1>4. PICK wrote \in SUBSET gate.batch : wrote = {p \in Decided : Changed(p, Decision(p))}
      BY <1>a
  <1>5. gate' = [gate EXCEPT
          !.written = @ \cup wrote,
          !.batch = disputed,
          !.phase = IF at < Len(Readers) /\ disputed # {} THEN "consult" ELSE "last",
          !.at = IF at < Len(Readers) /\ disputed # {} THEN @ + 1 ELSE @]
      BY <1>0, <1>3, <1>4 DEF Decide, Written
  <1>6. /\ gate' \in Gates /\ gate'.batch = disputed
        /\ gate'.phase = IF at < Len(Readers) /\ disputed # {} THEN "consult" ELSE "last"
        /\ gate'.at = IF at < Len(Readers) /\ disputed # {} THEN at + 1 ELSE at
    <2>1. PICK now \in Gates : now = gate
        BY DEF TypeOK
    <2>2. PICK phase \in {"consult", "last"} :
            phase = IF at < Len(Readers) /\ disputed # {} THEN "consult" ELSE "last"
        OBVIOUS
    <2>3. PICK next \in 0 .. Len(Readers) :
            next = IF at < Len(Readers) /\ disputed # {} THEN at + 1 ELSE at
        BY <1>2, ReaderCounts
    <2>4. PICK written \in SUBSET Pages : written = now.written \cup wrote
        BY <1>2 DEF Gates
    <2>5. disputed \in SUBSET Pages
        BY <1>2
    <2>6. gate' = [now EXCEPT !.written = written, !.batch = disputed, !.phase = phase, !.at = next]
        BY <1>0, <1>5, <2>1, <2>2, <2>3, <2>4
    <2>7. gate' \in Gates /\ gate'.batch = disputed /\ gate'.phase = phase /\ gate'.at = next
        BY <2>5, <2>6 DEF Gates, Phases
    <2> QED
        BY <2>2, <2>3, <2>7
  <1>8. ASSUME NEW p \in disputed
        PROVE  SettledTo(p, at)' /\ UndecidedTo(p, at)'
    <2>1. p \in gate.batch /\ StageVerdict(p) = None /\ p \in Pages
        BY <1>2, <1>3, <1>a
    <2>2. SettledTo(p, at) /\ UndecidedTo(p, at)
        BY <1>0, <1>1, <2>1, StageDecides DEF GateInv
    <2>3. at \in 0 .. Len(Readers) /\ at \in 0 .. at
        BY <1>2
    <2>4. RowsKept(p, at)
        BY <1>1 DEF RowsKept
    <2> QED
        BY <2>1, <2>2, <2>3, <2>4, KeptSettled
  <1>9. CASE at < Len(Readers) /\ disputed # {}
    <2>1. gate'.phase = "consult" /\ gate'.at = at + 1 /\ gate'.at \in Indices /\ gate'.at - 1 = at
        BY <1>2, <1>6, <1>9, ReaderCounts DEF Indices
    <2> QED
        BY <1>6, <1>8, <2>1 DEF GateOK, GateInv
  <1>10. CASE ~(at < Len(Readers) /\ disputed # {})
    <2>1. gate'.phase = "last" /\ gate'.at \in Indices
        BY <1>2, <1>6, <1>10 DEF Indices
    <2>2. \A p \in disputed : at = Len(Readers)
        BY <1>2, <1>10, ReaderCounts
    <2> QED
        BY <1>6, <1>8, <2>1, <2>2 DEF GateOK, GateInv
  <1> QED
      BY <1>9, <1>10

(* The steps that end the gate's consultation, or its whole call.          *)
LEMMA LastStep ==
  ASSUME TypeOK, GateInv, DecideLast \/ ConsultMissing
  PROVE  GateOK'
  <1>1. PICK wrote \in SUBSET Pages :
          \/ gate' = [gate EXCEPT !.written = @ \cup wrote, !.phase = "over"]
          \/ gate' = [gate EXCEPT !.phase = "missing"]
    <2>1. CASE DecideLast
      <3>1. Decided \subseteq Pages
          BY DEF TypeOK, Gates, Decided
      <3>2. PICK wrote \in SUBSET Pages : wrote = {p \in Decided : Changed(p, Decision(p))}
          BY <3>1
      <3> QED
          BY <2>1, <3>2 DEF DecideLast, Written
    <2>2. CASE ConsultMissing
        BY <2>2 DEF ConsultMissing
    <2> QED
        BY <2>1, <2>2
  <1>2. PICK now \in Gates : now = gate
      BY DEF TypeOK
  <1>3. PICK written \in SUBSET Pages : written = now.written \cup wrote
      BY DEF Gates
  <1>4. \/ gate' = [now EXCEPT !.written = written, !.phase = "over"]
        \/ gate' = [now EXCEPT !.phase = "missing"]
      BY <1>1, <1>2, <1>3
  <1>5. gate' \in Gates /\ gate'.phase \in {"over", "missing"}
      BY <1>4 DEF Gates, Phases
  <1> QED
      BY <1>5 DEF GateOK, GateInv

(* Every step keeps what holds of the gate.                                *)
LEMMA GateSteps ==
  ASSUME TypeOK, GateInv, DoneInv, [Next]_vars
  PROVE  GateOK'
  <1>1. CASE gate' = NoGate \/ gate' = NewGate(TRUE) \/ gate' = NewGate(FALSE)
      BY <1>1, NoGateStep, NewGateStep
  <1>2. CASE UNCHANGED <<gate, table>>
      BY <1>2, SameGateStep
  <1>3. CASE Consult \/ Decide \/ DecideLast \/ ConsultMissing
      BY <1>3, ConsultStep, DecideStep, LastStep
  <1>4. ASSUME NEW m \in ReaderSet, BaseReader(m) \/ BaseReaderFails(m)
        PROVE  GateOK'
    <2>1. gate' = NoGate
        BY <1>4 DEF BaseReader, BaseReaderFails, DoneInv
    <2> QED
        BY <2>1, NoGateStep
  <1>5. \/ gate' = NoGate \/ gate' = NewGate(TRUE) \/ gate' = NewGate(FALSE) \/ UNCHANGED <<gate, table>>
        \/ Consult \/ Decide \/ DecideLast \/ ConsultMissing
        \/ \E m \in ReaderSet : BaseReader(m) \/ BaseReaderFails(m)
      BY DEF Next, Step, vars, Start, GatePassed, BaseReadersDone, Transcribed, FinalPassed,
             FinalStopped, Stop, ImproveParser
  <1> QED
      BY <1>1, <1>2, <1>3, <1>4, <1>5

-----------------------------------------------------------------------------
(* The verdicts, step by step: what a step writes for a page is the        *)
(* policy's verdict, over readings that the page's readers are done with.  *)
VerdictStep ==
  /\ verdicts' \in [Pages -> Verdicts \cup {None}]
  /\ \A p \in Pages :
       \/ verdicts'[p] = verdicts[p] /\ (p \in recovered => p \in recovered')
       \/ /\ UNCHANGED table /\ verdicts'[p] # None /\ p \notin recovered'
          /\ verdicts'[p] = PolicyVerdict(p) /\ Settled(p)

(* What a stage decides of a page is the policy's verdict.                 *)
LEMMA DecisionIsPolicys ==
  ASSUME TypeOK, GateInv, gate.phase \in {"decide", "last"}, NEW p \in Decided
  PROVE  /\ p \in Pages /\ p \in gate.batch
         /\ Decision(p) \in Verdicts /\ Decision(p) # None
         /\ Decision(p) = PolicyVerdict(p) /\ Settled(p)
  <1>1. gate.batch \subseteq Pages
      BY GateReader
  <1>2. CASE gate.phase = "decide"
    <2>1. p \in gate.batch /\ StageVerdict(p) # None /\ Decision(p) = StageVerdict(p)
        BY <1>2 DEF Decided, Decision
    <2> QED
        BY <1>1, <1>2, <2>1, StageDecides
  <1>3. CASE gate.phase = "last"
    <2>1. p \in gate.batch /\ Decision(p) = LastVerdict(p)
        BY <1>3 DEF Decided, Decision
    <2>2. SettledTo(p, Len(Readers)) /\ UndecidedTo(p, Len(Readers)) /\ p \in Pages
        BY <1>1, <1>3, <2>1 DEF GateInv
    <2>3. PolicyVerdict(p) = LastVerdict(p) /\ PolicyVerdict(p).consulted = Len(Readers)
        BY <2>2, PolicyOfTheRest
    <2> QED
        BY <2>1, <2>2, <2>3, LastVerdictType DEF Settled, SettledTo
  <1> QED
      BY <1>2, <1>3

(* A flush writes the policy's verdicts.                                   *)
LEMMA FlushStep ==
  ASSUME TypeOK, GateInv, gate.phase \in {"decide", "last"}, UNCHANGED table,
         NEW pages \in SUBSET Decided, Flush(pages)
  PROVE  VerdictStep
  <1>1. \A p \in pages : /\ p \in Pages /\ Decision(p) \in Verdicts /\ Decision(p) # None
                         /\ Decision(p) = PolicyVerdict(p) /\ Settled(p)
      BY DecisionIsPolicys
  <1>2. /\ verdicts' = [p \in Pages |-> IF p \in pages THEN Decision(p) ELSE verdicts[p]]
        /\ recovered' = recovered \ pages
      BY DEF Flush
  <1>3. \A p \in Pages : verdicts[p] \in Verdicts \cup {None}
      BY DEF TypeOK
  <1>4. verdicts' \in [Pages -> Verdicts \cup {None}]
      BY <1>1, <1>2, <1>3
  <1> QED
      BY <1>1, <1>2, <1>4 DEF VerdictStep

(* A call of a reader leaves the verdicts alone.                           *)
LEMMA SameVerdicts ==
  ASSUME TypeOK, UNCHANGED verdicts, recovered \subseteq recovered'
  PROVE  VerdictStep
  BY DEF VerdictStep, TypeOK

LEMMA CallLeavesBehind ==
  ASSUME NEW m, NEW pages, Call(m, pages)
  PROVE  recovered \subseteq recovered'
  <1>1. \E reparsed, result : Results(m, reparsed, result)
      BY DEF Call
  <1> QED
      BY <1>1 DEF Results, Behind

(* Every step writes verdicts of the policy, or none.                      *)
LEMMA VerdictSteps ==
  ASSUME TypeOK, GateInv, [Next]_vars
  PROVE  VerdictStep
  <1>1. CASE UNCHANGED <<verdicts, recovered>>
      BY <1>1, SameVerdicts
  <1>2. CASE Decide \/ DecideLast
    <2>1. gate.phase \in {"decide", "last"} /\ UNCHANGED table /\ Flush(Decided)
        BY <1>2 DEF Decide, DecideLast
    <2> QED
        BY <2>1, FlushStep
  <1>3. CASE Consult \/ ConsultMissing
    <2>1. UNCHANGED verdicts /\ Call(Model, gate.batch)
        BY <1>3, ConsultIsCall DEF Consult, ConsultMissing
    <2> QED
        BY <2>1, CallLeavesBehind, SameVerdicts
  <1>4. ASSUME NEW m \in ReaderSet, BaseReader(m) \/ BaseReaderFails(m)
        PROVE  VerdictStep
    <2>1. UNCHANGED verdicts /\ Call(m, Pages)
        BY <1>4, BaseIsCall DEF BaseReader, BaseReaderFails
    <2> QED
        BY <2>1, CallLeavesBehind, SameVerdicts
  <1>5. CASE Stop
    <2>1. CASE gate.phase = "consult" /\ Call(Model, gate.batch) /\ UNCHANGED verdicts
        BY <2>1, CallLeavesBehind, SameVerdicts
    <2>2. CASE (\E m \in run.left : Call(m, Pages)) /\ UNCHANGED verdicts
        BY <2>2, CallLeavesBehind, SameVerdicts
    <2>3. CASE /\ gate.phase \in {"decide", "last"} /\ UNCHANGED table
               /\ \E pages \in SUBSET Decided : Flush(pages)
        BY <2>3, FlushStep
    <2> QED
        BY <1>1, <1>5, <2>1, <2>2, <2>3, StopCases
  <1>6. \/ UNCHANGED <<verdicts, recovered>> \/ Decide \/ DecideLast \/ Consult \/ ConsultMissing
        \/ Stop \/ \E m \in ReaderSet : BaseReader(m) \/ BaseReaderFails(m)
      BY DEF Next, Step, vars, Start, GatePassed, BaseReadersDone, Transcribed, FinalPassed,
             FinalStopped, ImproveParser
  <1> QED
      BY <1>1, <1>2, <1>3, <1>4, <1>5, <1>6

-----------------------------------------------------------------------------
(* The pages the gate has come through with.                               *)

(* A gate that is off leaves nothing to show.                              *)
LEMMA DoneWithoutGate ==
  ASSUME TypeOK, DoneInv, [Next]_vars
  PROVE  /\ gate' = NoGate \/ gate' = NewGate(TRUE) \/ gate' = NewGate(FALSE) =>
              /\ gate'.phase # "none" => \A p \in Pages \ OpenPages' : ~IsBehind(p)'
              /\ ~gate'.buy => gate'.failed = {}
  <1>1. NoGate.phase = "none" /\ NoGate.failed = {}
      BY DEF NoGate
  <1>2. ASSUME NEW buy \in BOOLEAN, gate' = NewGate(buy)
        PROVE  OpenPages' = Pages /\ gate'.failed = {}
    <2>1. gate'.phase = "consult" /\ gate'.batch = Pages /\ gate'.failed = {}
        BY <1>2 DEF NewGate, NoGate
    <2> QED
        BY <2>1 DEF OpenPages
  <1> QED
      BY <1>1, <1>2

(* A consulting step opens no page the gate has come through with.         *)
LEMMA DoneConsult ==
  ASSUME TypeOK, GateInv, DoneInv, Consult \/ ConsultMissing
  PROVE  /\ \A p \in Pages \ OpenPages' : ~IsBehind(p)'
         /\ gate'.buy = gate.buy /\ (~gate.buy => gate'.failed = {})
  <1>1. /\ gate.phase = "consult" /\ UNCHANGED verdicts
        /\ \A p \in Pages \ gate.batch : p \in recovered' => p \in recovered
      BY ConsultIsCall, GateCall DEF Consult, ConsultMissing
  <1>2. PICK missing : missing = Missing(Model, gate.batch, run.parser)
      OBVIOUS
  <1>3. PICK gone \in SUBSET missing :
          /\ gate'.batch = gate.batch \ gone /\ gate'.failed = gate.failed \cup gone
          /\ gate'.phase # "over" /\ gate'.buy = gate.buy
          /\ gone # {} => gate.buy
    <2>1. PICK now \in Gates : now = gate
        BY DEF TypeOK
    <2>2. CASE Consult
      <3>1. PICK result \in [missing -> Outcomes(run.parser)] :
              gate' = [gate EXCEPT
                   !.phase = IF gate.at < Len(Base) THEN "consult" ELSE "decide",
                   !.at = IF gate.at < Len(Base) THEN @ + 1 ELSE @,
                   !.batch = Passed({p \in missing : result[p].answer = None}),
                   !.failed = @ \cup {p \in missing : result[p].answer = None}]
          BY <1>2, <2>2 DEF Consult
      <3>2. PICK gone \in SUBSET missing : gone = {p \in missing : result[p].answer = None}
          OBVIOUS
      <3>3. gate.buy \/ missing = {}
          BY <1>2, <2>2 DEF Consult
      <3>4. PICK phase, at :
              /\ phase = (IF gate.at < Len(Base) THEN "consult" ELSE "decide")
              /\ at = IF gate.at < Len(Base) THEN gate.at + 1 ELSE gate.at
          OBVIOUS
      <3>5. gate' = [now EXCEPT !.phase = phase, !.at = at, !.batch = now.batch \ gone,
                                !.failed = now.failed \cup gone]
          BY <2>1, <3>1, <3>2, <3>4 DEF Passed
      <3>6. /\ gate'.batch = now.batch \ gone /\ gate'.failed = now.failed \cup gone
            /\ gate'.phase = phase /\ gate'.buy = now.buy
          BY <3>5 DEF Gates
      <3> QED
          BY <2>1, <3>2, <3>3, <3>4, <3>6
    <2>3. CASE ConsultMissing
      <3>1. gate' = [now EXCEPT !.phase = "missing"]
          BY <2>1, <2>3 DEF ConsultMissing
      <3>2. /\ gate'.batch = now.batch /\ gate'.failed = now.failed
            /\ gate'.phase = "missing" /\ gate'.buy = now.buy
          BY <3>1 DEF Gates
      <3>3. {} \in SUBSET missing
          OBVIOUS
      <3> QED
          BY <2>1, <3>2, <3>3
    <2> QED
        BY <2>2, <2>3
  <1>4. missing \subseteq gate.batch
      BY <1>2 DEF Missing
  <1>5. OpenPages = gate.batch \cup gate.failed /\ OpenPages' = OpenPages
      BY <1>1, <1>3, <1>4 DEF OpenPages
  <1>6. ASSUME NEW p \in Pages \ OpenPages'
        PROVE  ~IsBehind(p)'
    <2>1. p \notin gate.batch /\ ~IsBehind(p)
        BY <1>1, <1>5 DEF DoneInv
    <2> QED
        BY <1>1, <2>1 DEF IsBehind
  <1> QED
      BY <1>3, <1>6 DEF DoneInv

(* A deciding step closes the pages it decides.                            *)
LEMMA DoneDecide ==
  ASSUME TypeOK, GateInv, DoneInv, Decide \/ DecideLast
  PROVE  /\ \A p \in Pages \ OpenPages' : ~IsBehind(p)'
         /\ gate'.buy = gate.buy /\ gate'.failed = gate.failed
  <1>1. PICK now \in Gates : now = gate
      BY DEF TypeOK
  <1>2. /\ gate'.buy = gate.buy /\ gate'.failed = gate.failed
        /\ gate'.phase = "over" \/ gate'.batch = gate.batch \ Decided
        /\ gate'.phase = "over" => gate.phase = "last"
    <2>1. CASE Decide
      <3>1. PICK disputed, written, phase, at :
              /\ disputed = gate.batch \ Decided /\ written = Written
              /\ phase = (IF gate.at < Len(Readers) /\ disputed # {} THEN "consult" ELSE "last")
              /\ at = IF gate.at < Len(Readers) /\ disputed # {} THEN gate.at + 1 ELSE gate.at
          OBVIOUS
      <3>2. gate' = [now EXCEPT !.written = written, !.batch = disputed, !.phase = phase, !.at = at]
          BY <1>1, <2>1, <3>1 DEF Decide
      <3>3. /\ gate'.buy = now.buy /\ gate'.failed = now.failed /\ gate'.batch = disputed
            /\ gate'.phase = phase
          BY <3>2 DEF Gates
      <3> QED
          BY <1>1, <3>1, <3>3
    <2>2. CASE DecideLast
      <3>1. PICK written : written = Written
          OBVIOUS
      <3>2. gate' = [now EXCEPT !.written = written, !.phase = "over"]
          BY <1>1, <2>2, <3>1 DEF DecideLast
      <3>3. gate'.buy = now.buy /\ gate'.failed = now.failed /\ gate'.phase = "over"
          BY <3>2 DEF Gates
      <3> QED
          BY <1>1, <2>2, <3>3 DEF DecideLast
    <2> QED
        BY <2>1, <2>2
  <1>3. gate.phase \in {"decide", "last"} /\ UNCHANGED table /\ Flush(Decided)
      BY DEF Decide, DecideLast
  <1>4. ASSUME NEW p \in Pages \ OpenPages'
        PROVE  ~IsBehind(p)'
    <2>1. p \notin gate.failed /\ (p \in Decided \/ p \notin gate.batch)
      <3>1. gate'.phase # "over" => p \notin gate'.batch
          BY DEF OpenPages
      <3>2. p \notin gate'.failed
          BY DEF OpenPages
      <3>3. gate.phase = "last" => Decided = gate.batch
          BY DEF Decided
      <3> QED
          BY <1>2, <3>1, <3>2, <3>3
    <2>2. CASE p \in Decided
      <3>1. Decision(p) # None
          BY <1>3, <2>2, DecisionIsPolicys
      <3> QED
          BY <1>3, <2>2, <3>1 DEF Flush, IsBehind
    <2>3. CASE p \notin Decided
      <3>1. ~IsBehind(p)
          BY <1>3, <2>1, <2>3 DEF DoneInv, OpenPages
      <3> QED
          BY <1>3, <2>3, <3>1 DEF Flush, IsBehind
    <2> QED
        BY <2>2, <2>3
  <1> QED
      BY <1>2, <1>4

(* Every step keeps what is known of the pages decided.                    *)
LEMMA DoneSteps ==
  ASSUME TypeOK, GateInv, DoneInv, [Next]_vars
  PROVE  DoneInv'
  <1>1. /\ NoGate.phase = "none" /\ NoGate.failed = {} /\ NoGate.batch = {}
        /\ ~NewGate(FALSE).buy
        /\ \A step \in RunSteps : /\ [Idle EXCEPT !.step = step].step = step
                                 /\ [Idle EXCEPT !.step = step].left = {}
      BY DEF NoGate, NewGate, Idle
  <1>2. PICK now \in Runs : now = run
      BY DEF TypeOK
  <1>3. CASE Start
    <2>1. run' = [Idle EXCEPT !.step = "gate", !.parser = improved] /\ gate' = NewGate(FALSE)
        BY <1>3 DEF Start
    <2>2. run'.step = "gate" /\ run'.left = {}
        BY <2>1 DEF Idle
    <2> QED
        BY <2>1, <2>2, DoneWithoutGate DEF DoneInv
  <1>4. CASE GatePassed
    <2>1. run' = [now EXCEPT !.step = "base", !.left = BaseReaders] /\ gate' = NoGate
        BY <1>2, <1>4 DEF GatePassed, BaseReaders
    <2>2. run'.step = "base"
        BY <2>1 DEF Runs
    <2> QED
        BY <2>1, <2>2, DoneWithoutGate DEF DoneInv
  <1>5. ASSUME NEW m \in ReaderSet, BaseReader(m) \/ BaseReaderFails(m)
        PROVE  DoneInv'
    <2>1. /\ \/ run' = [now EXCEPT !.left = @ \ {m}]
             \/ run' = [now EXCEPT !.left = @ \ {m}, !.broke = TRUE]
          /\ gate' = gate /\ run.step = "base"
        BY <1>2, <1>5 DEF BaseReader, BaseReaderFails
    <2>2. run'.step = "base"
        BY <1>2, <2>1 DEF Runs
    <2>3. gate' = NoGate
        BY <2>1 DEF DoneInv
    <2> QED
        BY <2>2, <2>3, DoneWithoutGate DEF DoneInv
  <1>6. CASE BaseReadersDone
    <2>1. run.step = "base" /\ run.left = {} /\ gate = NoGate
        BY <1>6 DEF BaseReadersDone, DoneInv
    <2>2. \/ run' = Stopped /\ gate' = NoGate
          \/ run' = [now EXCEPT !.step = "first"] /\ gate' = NewGate(TRUE)
        BY <1>2, <1>6, <2>1 DEF BaseReadersDone
    <2>3. CASE run' = Stopped /\ gate' = NoGate
      <3>1. run'.step = "stopped" /\ run'.left = {}
          BY <2>3 DEF Stopped, Idle
      <3> QED
          BY <2>3, <3>1, DoneWithoutGate DEF DoneInv
    <2>4. CASE run' = [now EXCEPT !.step = "first"] /\ gate' = NewGate(TRUE)
      <3>1. run'.step = "first" /\ run'.left = {}
          BY <1>2, <2>1, <2>4 DEF Runs
      <3> QED
          BY <2>4, <3>1, DoneWithoutGate DEF DoneInv
    <2> QED
        BY <2>2, <2>3, <2>4
  <1>7. CASE Transcribed
    <2>1. run.left = {}
        BY <1>7 DEF Transcribed, DoneInv
    <2>2. \/ run' = [now EXCEPT !.step = "second"] /\ gate' = NewGate(TRUE)
          \/ run' = [now EXCEPT !.step = "final"] /\ gate' = NewGate(FALSE)
        BY <1>2, <1>7 DEF Transcribed
    <2>3. /\ run'.left = {}
          /\ \/ run'.step = "second" /\ gate' = NewGate(TRUE)
             \/ run'.step = "final" /\ gate' = NewGate(FALSE)
        BY <1>2, <2>1, <2>2 DEF Runs
    <2> QED
        BY <1>1, <2>3, DoneWithoutGate DEF DoneInv
  <1>8. CASE FinalPassed
    <2>1. run' = [Idle EXCEPT !.step = "done"] /\ gate' = NoGate /\ UNCHANGED <<verdicts, recovered>>
        BY <1>8 DEF FinalPassed
    <2>2. run'.step = "done" /\ run'.left = {}
        BY <2>1 DEF Idle
    <2>3. gate.phase = "over" /\ gate.failed = {}
        BY <1>8 DEF FinalPassed, DoneInv
    <2>4. \A p \in Pages : ~IsBehind(p)
        BY <2>3 DEF DoneInv, OpenPages
    <2> QED
        BY <2>1, <2>2, <2>4, DoneWithoutGate DEF DoneInv, IsBehind
  <1>9. CASE FinalStopped \/ Stop
    <2>1. (run' = Idle \/ run' = Stopped) /\ gate' = NoGate
        BY <1>9 DEF FinalStopped, Stop
    <2>2. run'.left = {} /\ run'.step \in {"idle", "stopped"}
        BY <2>1 DEF Idle, Stopped
    <2> QED
        BY <2>1, <2>2, DoneWithoutGate DEF DoneInv
  <1>10. CASE Consult \/ ConsultMissing
    <2>1. gate.phase = "consult" /\ UNCHANGED run
        BY <1>10 DEF Consult, ConsultMissing
    <2>2. run.step \notin {"base", "idle", "stopped", "done"}
        BY <1>1, <2>1 DEF DoneInv
    <2> QED
        BY <1>10, <2>1, <2>2, DoneConsult DEF DoneInv
  <1>11. CASE Decide \/ DecideLast
    <2>1. gate.phase \in {"decide", "last"} /\ UNCHANGED run
        BY <1>11 DEF Decide, DecideLast
    <2>2. run.step \notin {"base", "idle", "stopped", "done"}
        BY <1>1, <2>1 DEF DoneInv
    <2> QED
        BY <1>11, <2>1, <2>2, DoneDecide DEF DoneInv
  <1>12. CASE UNCHANGED <<run, gate, verdicts, recovered>>
      BY <1>12 DEF DoneInv, OpenPages, IsBehind
  <1>13. \/ Start \/ GatePassed \/ BaseReadersDone \/ Transcribed \/ FinalPassed \/ FinalStopped \/ Stop
         \/ Consult \/ ConsultMissing \/ Decide \/ DecideLast
         \/ \E m \in ReaderSet : BaseReader(m) \/ BaseReaderFails(m)
         \/ UNCHANGED <<run, gate, verdicts, recovered>>
      BY DEF Next, Step, vars, ImproveParser
  <1> QED
      BY <1>3, <1>4, <1>5, <1>6, <1>7, <1>8, <1>9, <1>10, <1>11, <1>12, <1>13

-----------------------------------------------------------------------------
(* No step leaves a verdict that is not the policy's, and one is changed   *)
(* only for a page that was left behind.                                   *)
LEMMA VerdictsFollow ==
  ASSUME TypeOK, GateInv, DoneInv, VerdictsFollowPolicy, [Next]_vars
  PROVE  /\ VerdictsFollowPolicy'
         /\ \A p \in Pages : verdicts[p] # None =>
              \/ verdicts'[p] = verdicts[p]
              \/ p \in recovered /\ verdicts'[p] # None
  <1>1. \A p \in Pages, r \in ReaderSet : RowGrows(p, r)
      BY TableSteps DEF TableStep
  <1>2. \A p \in Pages :
          \/ verdicts'[p] = verdicts[p] /\ (p \in recovered => p \in recovered')
          \/ /\ UNCHANGED table /\ verdicts'[p] # None /\ p \notin recovered'
             /\ verdicts'[p] = PolicyVerdict(p) /\ Settled(p)
      BY VerdictSteps DEF VerdictStep
  <1>3. ASSUME NEW p \in Pages \ recovered', verdicts'[p] # None
        PROVE  Settled(p)' /\ verdicts'[p] = PolicyVerdict(p)'
    <2>1. CASE verdicts'[p] = verdicts[p] /\ p \notin recovered
      <3>1. Settled(p) /\ verdicts'[p] = PolicyVerdict(p)
          BY <1>3, <2>1 DEF VerdictsFollowPolicy
      <3>2. RowsStay(p)
          BY <1>1, <1>3, <2>1 DEF RowsStay, RowGrows
      <3> QED
          BY <3>1, <3>2, PolicyStays
    <2>2. CASE UNCHANGED table /\ verdicts'[p] = PolicyVerdict(p) /\ Settled(p)
      <3>1. RowsStay(p)
          BY <2>2 DEF RowsStay
      <3> QED
          BY <2>2, <3>1, PolicyStays
    <2> QED
        BY <1>2, <1>3, <2>1, <2>2
  <1>4. (run.step = "done" => recovered = {} /\ \A p \in Pages : verdicts[p] # None)'
    <2>1. DoneInv' /\ recovered' \subseteq Pages
        BY DoneSteps, TableSteps DEF TableStep
    <2> QED
        BY <2>1 DEF DoneInv, IsBehind
  <1>5. \A p \in Pages : verdicts[p] # None =>
              \/ verdicts'[p] = verdicts[p]
              \/ p \in recovered /\ verdicts'[p] # None
      BY <1>2 DEF VerdictsFollowPolicy
  <1> QED
      BY <1>3, <1>4, <1>5 DEF VerdictsFollowPolicy

-----------------------------------------------------------------------------
(* The escalation's readings.                                              *)

(* Each position past the base readers is an escalation reader's.          *)
LEMMA EscalationReader ==
  ASSUME NEW i \in (Len(Base) + 1) .. Len(Readers)
  PROVE  i \in 1 .. Len(Readers) /\ Readers[i] \in ReaderSet /\ Readers[i] \notin BaseReaders
  <1>1. i \in 1 .. Len(Readers) /\ i \in Nat /\ Len(Base) \in Nat /\ Len(Readers) \in Nat
      BY ReaderCounts
  <1>2. \A j \in 1 .. Len(Base) : j \in 1 .. Len(Readers) /\ j # i /\ Base[j] = Readers[j]
      BY <1>1, ReaderOrder
  <1>3. \A j \in 1 .. Len(Readers) : Readers[j] = Readers[i] => j = i
      BY <1>1, ReaderOrder
  <1>4. Readers[i] \in ReaderSet
      BY <1>1, ReaderOrder
  <1> QED
      BY <1>1, <1>2, <1>3, <1>4 DEF BaseReaders

(* What the base readers have settled stays settled, and undecided but for *)
(* a late re-parse.                                                        *)
LEMMA BaseStaysOpen ==
  ASSUME TypeOK, TableStep, NEW p \in Pages, SettledTo(p, Len(Base)),
         BaseVerdict(p) = None \/ p \in RecoveredLate
  PROVE  SettledTo(p, Len(Base))' /\ ((BaseVerdict(p) = None)' \/ p \in RecoveredLate')
  <1>1. /\ Len(Base) \in 0 .. Len(Readers) /\ Len(Base) \in Nat
        /\ \A i \in 1 .. Len(Base) : Readers[i] \in ReaderSet /\ Readers[i] \in BaseReaders
      BY ReaderCounts, ReaderOrder DEF BaseReaders
  <1>2. \A r \in ReaderSet : RowGrows(p, r)
      BY DEF TableStep
  <1>3. SettledTo(p, Len(Base))'
    <2>1. ASSUME NEW r \in ReaderSet, Read(p, r) \/ Absent(p, r)
          PROVE  Read(p, r)' \/ Absent(p, r)'
        BY <1>2, <2>1 DEF RowGrows, Read, Absent
    <2> QED
        BY <1>1, <2>1 DEF SettledTo
  <1>4. CASE p \in RecoveredLate
    <2>1. PICK m \in BaseReaders : Read(p, m) /\ table[<<p, m>>].errors = MaxErrors
        BY <1>4 DEF RecoveredLate
    <2>2. m \in ReaderSet
        BY ReaderOrder DEF BaseReaders
    <2>3. table'[<<p, m>>] = table[<<p, m>>]
        BY <1>2, <2>1, <2>2 DEF RowGrows
    <2>4. Read(p, m)' /\ table'[<<p, m>>].errors = MaxErrors
        BY <2>1, <2>3 DEF Read
    <2> QED
        BY <1>3, <2>4 DEF RecoveredLate
  <1>5. CASE RowsKept(p, Len(Base)) /\ BaseVerdict(p) = None
    <2>1. BaseVerdict(p)' = BaseVerdict(p)
        BY <1>1, <1>5, KeptBaseVerdict
    <2> QED
        BY <1>3, <1>5, <2>1
  <1>6. CASE ~RowsKept(p, Len(Base))
    <2>1. PICK i \in 1 .. Len(Base) : table'[<<p, Readers[i]>>] # table[<<p, Readers[i]>>]
        BY <1>6 DEF RowsKept
    <2>2. Read(p, Readers[i])' /\ table'[<<p, Readers[i]>>].errors = MaxErrors
        BY <1>1, <1>2, <2>1 DEF SettledTo, RowGrows
    <2> QED
        BY <1>1, <1>3, <2>2 DEF RecoveredLate
  <1> QED
      BY <1>4, <1>5, <1>6

(* Only a page the base readers left open is ever read by a later reader.  *)
LEMMA EscalationStep ==
  ASSUME TypeOK, GateInv, EscalationInv, [Next]_vars
  PROVE  EscalationInv'
  <1>1. TableStep
      BY TableSteps
  <1>2. Len(Base) \in Nat /\ Len(Readers) \in Nat
      BY ReaderCounts
  <1>3. ASSUME NEW p \in Pages, NEW i \in (Len(Base) + 1) .. Len(Readers), Read(p, Readers[i])'
        PROVE  SettledTo(p, Len(Base)) /\ (BaseVerdict(p) = None \/ p \in RecoveredLate)
    <2>1. i \in 1 .. Len(Readers) /\ Readers[i] \in ReaderSet /\ Readers[i] \notin BaseReaders
        BY EscalationReader
    <2>2. CASE table'[<<p, Readers[i]>>] = table[<<p, Readers[i]>>]
      <3>1. Read(p, Readers[i])
          BY <1>3, <2>2 DEF Read
      <3> QED
          BY <3>1 DEF EscalationInv
    <2>3. CASE gate.phase = "consult" /\ p \in gate.batch /\ Readers[i] = Model
      <3>1. gate.at \in 1 .. Len(Readers) /\ gate.at \in Nat
          BY <2>3, GateReader
      <3>2. gate.at = i
          BY <2>1, <2>3, <3>1, ReaderOrder DEF Model
      <3>3. SettledTo(p, i - 1) /\ UndecidedTo(p, i - 1)
          BY <2>3, <3>2 DEF GateInv
      <3>4. i - 1 >= Len(Base) /\ \A j \in 1 .. Len(Base) : j \in 1 .. (i - 1)
          BY <1>2
      <3> QED
          BY <3>3, <3>4 DEF SettledTo, UndecidedTo
    <2> QED
        BY <1>1, <2>1, <2>2, <2>3 DEF TableStep
  <1>4. \A p \in Pages :
          SettledTo(p, Len(Base)) /\ (BaseVerdict(p) = None \/ p \in RecoveredLate) =>
            SettledTo(p, Len(Base))' /\ ((BaseVerdict(p) = None)' \/ p \in RecoveredLate')
      BY <1>1, BaseStaysOpen
  <1> QED
      BY <1>3, <1>4 DEF EscalationInv

-----------------------------------------------------------------------------
(* The invariant.                                                          *)
LEMMA InitEstablishes ==
  ASSUME Init
  PROVE  IInv
  <1>1. Store!NoRow \in Store!Rows
      BY ReadingAssumption DEF Store!NoRow, Store!Rows
  <1>2. TypeOK
    <2>1. Idle \in Runs
        BY DEF Idle, Runs, RunSteps
    <2>2. table \in [Pages \X ReaderSet -> Store!Rows]
        BY <1>1 DEF Init
    <2>3. verdicts \in [Pages -> Verdicts \cup {None}]
        BY DEF Init
    <2>4. gate \in Gates
        BY NewGateFields DEF Init
    <2>5. recovered \subseteq Pages /\ improved \in BOOLEAN
        BY DEF Init
    <2> QED
        BY <2>1, <2>2, <2>3, <2>4, <2>5 DEF Init, TypeOK
  <1>3. GateInv
      BY NewGateFields DEF Init, GateInv
  <1>4. EscalationInv
    <2>1. ASSUME NEW p \in Pages, NEW m \in ReaderSet
          PROVE  ~Read(p, m)
        BY DEF Init, Read, Store!Hit, Store!NoRow
    <2> QED
        BY <2>1, EscalationReader DEF EscalationInv
  <1>5. VerdictsFollowPolicy
      BY DEF Init, VerdictsFollowPolicy, Idle
  <1>6. DoneInv
      BY DEF Init, DoneInv, Idle, NoGate
  <1> QED
      BY <1>2, <1>3, <1>4, <1>5, <1>6 DEF IInv

(* Every step keeps the inductive invariant.                               *)
LEMMA StepPreserves ==
  ASSUME IInv, [Next]_vars
  PROVE  IInv'
  <1>1. TypeOK /\ GateInv /\ DoneInv /\ EscalationInv /\ VerdictsFollowPolicy
      BY DEF IInv
  <1>2. TypeOK'
    <2>1. table' \in [Pages \X ReaderSet -> Store!Rows] /\ recovered' \subseteq Pages
        BY <1>1, TableSteps DEF TableStep
    <2>2. verdicts' \in [Pages -> Verdicts \cup {None}]
        BY <1>1, VerdictSteps DEF VerdictStep
    <2>3. run' \in Runs /\ improved' \in BOOLEAN
        BY <1>1, RunStays
    <2>4. gate' \in Gates
        BY <1>1, GateSteps DEF GateOK
    <2> QED
        BY <2>1, <2>2, <2>3, <2>4 DEF TypeOK
  <1>3. GateInv'
      BY <1>1, GateSteps DEF GateOK
  <1>4. DoneInv' /\ EscalationInv' /\ VerdictsFollowPolicy'
      BY <1>1, DoneSteps, EscalationStep, VerdictsFollow
  <1> QED
      BY <1>2, <1>3, <1>4 DEF IInv

(* The inductive invariant holds throughout.                               *)
LEMMA Invariance == Spec => []IInv
  BY InitEstablishes, StepPreserves, PTL DEF Spec

(* Whatever the readers answer and however often the run stops, the state  *)
(* of a reading run is of its types: no page is charged more than          *)
(* max_errors errors by any reader, and every verdict is one of the        *)
(* policy's five.                                                          *)
THEOREM RunWellTyped == Spec => []TypeOK
  <1>1. IInv => TypeOK
      BY DEF IInv
  <1> QED
      BY <1>1, Invariance, PTL

(* A verdict is the policy's over the readings stored now, unless a stored *)
(* failure of its page was re-parsed since; and a run that ends leaves no  *)
(* such page, and none without a verdict.                                  *)
THEOREM VerdictsAreThePolicys == Spec => []VerdictsFollowPolicy
  <1>1. IInv => VerdictsFollowPolicy
      BY DEF IInv
  <1> QED
      BY <1>1, Invariance, PTL

(* A verdict, once written, is not taken back, and is changed only for a   *)
(* page of which a stored failure was re-parsed since.                     *)
THEOREM VerdictsAreKept == Spec => VerdictsStay
  <1>1. IInv /\ [Next]_vars =>
          [\A p \in Pages : verdicts[p] # None =>
             \/ verdicts'[p] = verdicts[p]
             \/ p \in recovered /\ verdicts'[p] # None]_vars
      BY VerdictsFollow DEF IInv
  <1> QED
      BY <1>1, Invariance, PTL DEF Spec, VerdictsStay

-----------------------------------------------------------------------------
(* The base-pair report.                                                   *)

(* The pages of a class have a line's counts; a part of them counts less.  *)
LEMMA NothingCounts == Cardinality({}) = 0
  BY FS_EmptySet

(* What a verdict's kind says of who decided the page.                     *)
LEMMA KindOfVerdict ==
  ASSUME VerdictsFollowPolicy, NEW p \in Pages \ recovered, verdicts[p] # None
  PROVE  /\ verdicts[p].kind = "not_a_list" => BaseVerdict(p) = verdicts[p]
         /\ verdicts[p].kind = "flagged" => verdicts[p].consulted = Len(Readers)
         /\ BaseVerdict(p) # None => verdicts[p] = BaseVerdict(p)
         /\ (\A m \in ReaderSet : ~Read(p, m)) => verdicts[p].kind = "unreadable"
  <1>1. verdicts[p] = PolicyVerdict(p)
      BY DEF VerdictsFollowPolicy
  <1>2. CASE BaseVerdict(p) # None
    <2>1. verdicts[p] = BaseVerdict(p) /\ verdicts[p].kind \in {"agreed", "not_a_list"}
        BY <1>1, <1>2, PolicyOfTheBase, BaseVerdictType
    <2>2. Base[1] \in ReaderSet /\ Read(p, Base[1])
      <3>1. 1 \in 1 .. Len(Base)
          BY ReaderCounts
      <3>2. Base[1] \in ReaderSet
          BY <3>1, ReaderOrder
      <3> QED
          BY <1>2, <3>2 DEF BaseVerdict
    <2> QED
        BY <2>1, <2>2
  <1>3. CASE \E i \in (Len(Base) + 1) .. Len(Readers) : UndecidedTo(p, i - 1) /\ Match(p, i) # {}
    <2>1. PICK i \in (Len(Base) + 1) .. Len(Readers) : UndecidedTo(p, i - 1) /\ Match(p, i) # {}
        BY <1>3
    <2>2. verdicts[p].kind = "escalated"
        BY <1>1, <2>1, PolicyOfAnEscalation, EscalatedVerdictType
    <2>3. BaseVerdict(p) = None
        BY <2>1, ReaderCounts DEF UndecidedTo
    <2>4. Readers[i] \in ReaderSet /\ Read(p, Readers[i])
        BY <2>1, EscalationReader DEF Match
    <2> QED
        BY <2>2, <2>3, <2>4
  <1>4. CASE UndecidedTo(p, Len(Readers))
    <2>1. verdicts[p] = LastVerdict(p)
        BY <1>1, <1>4, PolicyOfTheRest
    <2>2. verdicts[p].consulted = Len(Readers) /\ verdicts[p].kind \in {"unreadable", "flagged"}
        BY <2>1, LastVerdictType
    <2>3. BaseVerdict(p) = None
        BY <1>4, ReaderCounts DEF UndecidedTo
    <2>4. ASSUME \A m \in ReaderSet : ~Read(p, m)
          PROVE  verdicts[p].kind = "unreadable"
      <3>1. {i \in 1 .. Len(Readers) : Read(p, Readers[i])} = {}
          BY <2>4, ReaderOrder
      <3>4. Cardinality({i \in 1 .. Len(Readers) : Read(p, Readers[i])}) = 0
          BY <3>1, NothingCounts
      <3>2. Cardinality({i \in 1 .. Len(Readers) : Read(p, Readers[i])}) < 2
          BY <3>4
      <3>3. LastVerdict(p) = Verdict("unreadable", None, <<>>, Len(Readers))
          BY <3>2 DEF LastVerdict
      <3> QED
          BY <2>1, <3>3 DEF Verdict
    <2> QED
        BY <2>2, <2>3, <2>4
  <1> QED
      BY <1>2, <1>3, <1>4, PolicyCases

(* The class "both other, no rows" is that of the pages the not_a_list     *)
(* rule decides.                                                           *)
LEMMA RuleClass ==
  ASSUME EmptyOther, NEW p \in Pages
  PROVE  /\ BasePairClass(p) = "both other, no rows" =>
              BaseVerdict(p) = Verdict("not_a_list", None, Base, Len(Base))
         /\ BaseVerdict(p) # None /\ BaseVerdict(p).kind = "not_a_list" =>
              /\ BasePairClass(p) = "both other, no rows"
              /\ \E m \in ReaderSet : Read(p, m)
  <1>1. Len(Base) = 2 /\ Base[1] \in ReaderSet /\ Base[2] \in ReaderSet
    <2>1. Len(Base) = 2
        BY PolicyAssumption DEF CheckPolicy
    <2>2. 1 \in 1 .. Len(Base) /\ 2 \in 1 .. Len(Base)
        BY <2>1
    <2> QED
        BY <2>1, <2>2, ReaderOrder
  <1>2. BaseReaders = {Base[1], Base[2]}
      BY <1>1 DEF BaseReaders
  <1>3. \A m : SaysNotAList(p, m) => Reading(p, m) \in Empty /\ Reading(p, m) \notin Lists
      BY ReadingAssumption DEF SaysNotAList
  <1>4. ASSUME BasePairClass(p) = "both other, no rows"
        PROVE  BaseVerdict(p) = Verdict("not_a_list", None, Base, Len(Base))
    <2>1. \A m \in BaseReaders : Read(p, m) /\ SaysNotAList(p, m)
        BY <1>4 DEF BasePairClass
    <2>2. Read(p, Base[1]) /\ Read(p, Base[2]) /\ SaysNotAList(p, Base[1]) /\ SaysNotAList(p, Base[2])
        BY <1>2, <2>1
    <2>3. ~AgreeOn(Reading(p, Base[1]), Reading(p, Base[2]))
        BY <1>3, <2>2 DEF AgreeOn
    <2> QED
        BY <1>1, <2>2, <2>3 DEF BaseVerdict
  <1>5. ASSUME BaseVerdict(p) # None, BaseVerdict(p).kind = "not_a_list"
        PROVE  /\ BasePairClass(p) = "both other, no rows"
               /\ \E m \in ReaderSet : Read(p, m)
    <2>1. /\ Read(p, Base[1]) /\ Read(p, Base[2])
          /\ SaysNotAList(p, Base[1]) /\ SaysNotAList(p, Base[2])
        BY <1>1, <1>5 DEF BaseVerdict, Verdict
    <2>2. {m \in BaseReaders : Reading(p, m) \in Lists} = {}
        BY <1>2, <1>3, <2>1
    <2>3. Cardinality({m \in BaseReaders : Reading(p, m) \in Lists}) = 0
        BY <2>2, NothingCounts
    <2>4. BasePairClass(p) = "both other, no rows"
      <3>1. \A m \in BaseReaders : Read(p, m) /\ SaysNotAList(p, m)
          BY <1>2, <2>1
      <3> QED
          BY <2>3, <3>1 DEF BasePairClass
    <2> QED
        BY <1>1, <2>1, <2>4
  <1> QED
      BY <1>4, <1>5

(* The rule's verdict.                                                     *)
LEMMA RuleVerdict ==
  /\ Verdict("not_a_list", None, Base, Len(Base)) # None
  /\ Verdict("not_a_list", None, Base, Len(Base)).kind = "not_a_list"
  /\ Verdict("not_a_list", None, Base, Len(Base)).consulted = Len(Base)
  <1> DEFINE verdict == Verdict("not_a_list", None, Base, Len(Base))
  <1>1. Base \in Seq(ReaderSet) /\ Len(Base) \in 1 .. Len(Readers)
      BY ReaderOrder, ReaderCounts
  <1>2. verdict \in Verdicts
      BY <1>1 DEF Verdict, Verdicts
  <1>3. verdict.kind = "not_a_list" /\ verdict.consulted = Len(Base)
      BY DEF Verdict
  <1> HIDE DEF verdict
  <1>4. verdict # None
      BY <1>2, ReadingAssumption
  <1> USE DEF verdict
  <1> QED
      BY <1>3, <1>4

(* A reader that is not a base reader is one of the escalation's.          *)
LEMMA EscalationPosition ==
  ASSUME NEW m \in ReaderSet \ BaseReaders
  PROVE  \E i \in (Len(Base) + 1) .. Len(Readers) : m = Readers[i]
  <1>1. PICK i \in 1 .. Len(Readers) : m = Readers[i]
      BY DEF ReaderSet
  <1>2. \A j \in 1 .. Len(Base) : Base[j] = Readers[j]
      BY ReaderOrder
  <1>3. ~(i \in 1 .. Len(Base))
      BY <1>1, <1>2 DEF BaseReaders
  <1>4. Len(Base) \in Nat /\ Len(Readers) \in Nat
      BY ReaderCounts
  <1>5. i \in (Len(Base) + 1) .. Len(Readers)
      BY <1>3, <1>4
  <1> QED
      BY <1>1, <1>5

(* The report tells what the escalation bought, for a policy with an       *)
(* escalation and any finite set of pages.                                 *)
THEOREM ReportIsTrue ==
  ASSUME IsFiniteSet(Pages), Escalation # <<>>
  PROVE  Spec => []ReportTellsEscalation
  <1>1. ASSUME IInv, recovered = {}
        PROVE  ReportTellsEscalation
    <2>1. VerdictsFollowPolicy /\ EscalationInv
        BY <1>1 DEF IInv
    <2>0. \A p \in Pages : p \in Pages \ recovered
        BY <1>1
    <2>2. Len(Base) # Len(Readers)
        BY ReaderOrder
    <2> DEFINE ofRule == {p \in Reported : BasePairClass(p) = "both other, no rows"}
               listless == {p \in Pages : verdicts[p] # None /\ verdicts[p].kind = "not_a_list"}
    <2>3. ASSUME EmptyOther, NEW p \in ofRule
          PROVE  /\ p \in listless /\ verdicts[p].consulted # Len(Readers)
                 /\ RecoveredLate = {} => \A m \in ReaderSet \ BaseReaders : ~Read(p, m)
      <3>1. p \in Pages /\ verdicts[p] # None
          BY DEF Reported
      <3>2. BaseVerdict(p) = Verdict("not_a_list", None, Base, Len(Base))
          BY <2>3, <3>1, RuleClass
      <3>4. BaseVerdict(p) # None /\ BaseVerdict(p).kind = "not_a_list" /\ BaseVerdict(p).consulted = Len(Base)
          BY <3>2, RuleVerdict
      <3>5. verdicts[p] = BaseVerdict(p)
          BY <2>0, <2>1, <3>1, <3>4, KindOfVerdict
      <3>6. ASSUME NEW m \in ReaderSet \ BaseReaders, RecoveredLate = {}
            PROVE  ~Read(p, m)
        <4>1. PICK i \in (Len(Base) + 1) .. Len(Readers) : m = Readers[i]
            BY EscalationPosition
        <4> QED
            BY <2>1, <3>1, <3>4, <3>6, <4>1 DEF EscalationInv
      <3> QED
          BY <2>2, <3>1, <3>4, <3>5, <3>6
    <2>4. ASSUME EmptyOther, NEW p \in listless
          PROVE  p \in ofRule
      <3>1. BaseVerdict(p) = verdicts[p]
          BY <2>0, <2>1, KindOfVerdict
      <3>2. BasePairClass(p) = "both other, no rows" /\ \E m \in ReaderSet : Read(p, m)
          BY <2>4, <3>1, RuleClass
      <3> QED
          BY <3>2 DEF Reported
    <2>5. ASSUME EmptyOther
          PROVE  LET rule == BasePairLine("both other, no rows") IN
                 /\ rule.pages = Cardinality(listless) /\ rule.last = 0
                 /\ RecoveredLate = {} => rule.bought = 0
      <3>1. ofRule = listless
          BY <2>3, <2>4, <2>5
      <3>2. {p \in ofRule : verdicts[p].consulted = Len(Readers)} = {}
          BY <2>3, <2>5
      <3>3. RecoveredLate = {} => {k \in ofRule \X (ReaderSet \ BaseReaders) : Read(k[1], k[2])} = {}
          BY <2>3, <2>5
      <3> QED
          BY <3>1, <3>2, <3>3, NothingCounts DEF BasePairLine
    <2>6. ASSUME NEW class
          PROVE  BasePairLine(class).flagged <= BasePairLine(class).last
      <3> DEFINE pages == {p \in Reported : BasePairClass(p) = class}
      <3>1. IsFiniteSet({p \in pages : verdicts[p].consulted = Len(Readers)})
        <4>1. {p \in pages : verdicts[p].consulted = Len(Readers)} \subseteq Pages
            BY DEF Reported
        <4> QED
            BY <4>1, FS_Subset
      <3>2. {p \in pages : verdicts[p].kind = "flagged"}
              \subseteq {p \in pages : verdicts[p].consulted = Len(Readers)}
          BY <2>0, <2>1, KindOfVerdict DEF Reported
      <3>3. Cardinality({p \in pages : verdicts[p].kind = "flagged"})
              <= Cardinality({p \in pages : verdicts[p].consulted = Len(Readers)})
          BY <3>1, <3>2, FS_Subset
      <3> QED
          BY <3>3 DEF BasePairLine
    <2>7. ASSUME NEW p \in Pages \ Reported, verdicts[p] # None
          PROVE  verdicts[p].kind = "unreadable"
        BY <2>0, <2>1, <2>7, KindOfVerdict DEF Reported
    <2> HIDE DEF ofRule
    <2> QED
        BY <2>5, <2>6, <2>7 DEF ReportTellsEscalation
  <1>2. IInv => ReportTellsEscalation
      BY <1>1 DEF ReportTellsEscalation
  <1> QED
      BY <1>2, Invariance, PTL
=============================================================================
