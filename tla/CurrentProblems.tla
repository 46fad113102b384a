--------------------------- MODULE CurrentProblems ---------------------------
(***************************************************************************)
(* What CurrentRules is asked: the 990-PF line items of a filer-year with  *)
(* its line 25, or the Schedule I line items of a year of which            *)
(* basic_fields has several versions; and what the answers promise.        *)
(***************************************************************************)
EXTENDS CurrentRules, RuleProblems

\* A relation's rows of a filer-year: there is a line item.
HasItems(rows) == rows \in Seq(ToSet(rows)) /\ rows # <<>> /\ \A r \in ToSet(rows) : r.url \in Nat

\* The filer-years the relations are built for: a grant list with amounts, and what basic_fields has
\* of its filings, if anything; or line items and the versions the year's financials may come from.
BlockPosed(p) ==
  /\ p.kind = "block" /\ HasItems(p.rows) /\ p.basic \in Seq(ToSet(p.basic))
  /\ \A r \in ToSet(p.rows) : r.amt \in Int
  /\ \A b \in ToSet(p.basic) : b.url \in Nat /\ b.sha \in Nat /\ b.d \in Int /\ b.a \in Int

VersionsPosed(p) ==
  /\ p.kind = "versions" /\ HasItems(p.rows) /\ p.basic \in Seq(ToSet(p.basic)) /\ p.basic # <<>>
  /\ \A b \in ToSet(p.basic) :
       b.url \in Nat /\ b.sha \in Nat /\ b.amended \in BOOLEAN /\ b.metric \in BOOLEAN

Built(p) == [paid |-> PfCurrent(p.rows, p.basic, TRUE, 0), future |-> PfCurrent(p.rows, p.basic, FALSE, 0)]

BlockStep == problem.kind = "block" /\ answer' = Built(problem)

BlockSpec ==
  /\ BlockPosed(problem) /\ answer = Unanswered
  /\ [][answer = Unanswered /\ BlockStep /\ UNCHANGED problem]_<<problem, answer>>

Versioned(p) == [version |-> CurrentVersion(p.basic, TRUE), kept |-> SchedIKept(p.rows, p.basic)]

VersionStep == problem.kind = "versions" /\ answer' = Versioned(problem)

VersionSpec ==
  /\ VersionsPosed(problem) /\ answer = Unanswered
  /\ [][answer = Unanswered /\ VersionStep /\ UNCHANGED problem]_<<problem, answer>>

\* How often a set of rows holds each line item.
Contents(rows, kept) ==
  [t \in {LineItem(rows[i]) : i \in kept} |-> Cardinality({i \in kept : LineItem(rows[i]) = t})]

(***************************************************************************)
(* Properties.                                                             *)
(***************************************************************************)
\* The three line-25 rules never meet, and what one leaves adds up to line 25 of the kept url, in
\* a column, with refunds, empty groups and a doubled filing among the rows; a block of which line
\* 25 declares every row, in either column, loses none but the second half of a doubled filing.
LineRulesLeaveLine25 ==
  Solved("block") =>
    LET built == answer.paid
        fired == built.rules \cap {"forward_fill", "field_fill", "total_row"}
        stated == {Line25(problem.basic, built.url, c) : c \in {"d", "a"}}
        block == Under(problem.rows, built.url)
        half == IF "pair_collapse" \in built.rules THEN 2 ELSE 1
    IN /\ Cardinality(fired) =< 1
       /\ fired # {} => SumOf(problem.rows, built.kept) \in stated
       /\ \A line \in stated : SumOf(problem.rows, block) = half * line =>
            Cardinality(built.kept) * half = Cardinality(block)
       /\ fired = {} => Cardinality(built.kept) * half = Cardinality(block)

\* The Schedule I lines and the filer's financials of a year come from one filing where every
\* version reports the metric and lists grants; an amendment's copy of the list under the
\* original's url counts once, and a year without an amendment keeps every repeated grant.
VersionsAgree ==
  Solved("versions") =>
    LET basic == ToSet(problem.basic)
        url == problem.rows[CHOOSE i \in answer.kept : TRUE].url
        copied == problem.rows \o problem.rows
    IN /\ (\A b \in basic : b.metric) /\ {b.url : b \in basic} = Urls(problem.rows) =>
            answer.version.url = url
       /\ (\E b \in basic : b.metric) => answer.version.metric
       /\ Filings(problem.basic) >= 2 =>
            Contents(copied, SchedIKept(copied, problem.basic)) = Contents(problem.rows, answer.kept)
       /\ Filings(problem.basic) < 2 => answer.kept = Under(problem.rows, url)
=============================================================================
