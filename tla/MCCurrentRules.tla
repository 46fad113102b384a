--------------------------- MODULE MCCurrentRules ---------------------------
(***************************************************************************)
(* CurrentProblems on small filer-years.                                   *)
(***************************************************************************)
EXTENDS CurrentProblems

CONSTANTS
  MaxLines,     \* bound: rows of the 990-PF block under the kept url
  MaxVersions   \* bound: line items, and rows of basic_fields, of a 990's filer-year

Item(url, name, text, amt) == [url |-> url, name |-> name, text |-> text, amt |-> amt]

\* one recipient under two texts, a second one, an empty group, a refund, a total
LineItems(url) ==
  {Item(url, "p", 1, 2), Item(url, "p", 2, 2), Item(url, "q", 1, 2), Item(url, "q", 1, 1),
   Item(url, "z", 1, 0), Item(url, "q", 1, -1), Item(url, "p", 1, 3)}

Repeat(x, n) == [i \in 1..n |-> x]

\* Sequences of at most n of a set, equal ones together: which order the blocks come in matters to
\* no rule but "the first row with the amount".
RECURSIVE Listings(_, _)
Listings(S, n) ==
  IF S = {} THEN {<<>>}
  ELSE LET x == CHOOSE y \in S : TRUE
       IN UNION {{Repeat(x, k) \o rest : rest \in Listings(S \ {x}, n - k)} : k \in 0..n}

Basic(url, sha, d, a) == [url |-> url, sha |-> sha, d |-> d, a |-> a, amended |-> FALSE, metric |-> TRUE]

SmallBlocks ==
  {[kind |-> "block",
    rows |-> (IF earlier THEN <<Item(1, "p", 1, 2)>> ELSE <<>>) \o lines,
    basic |-> Repeat(Basic(2, 1, d, a), IF twice THEN 2 ELSE 1) \o <<Basic(1, 2, 3, 3)>>] :
     lines \in Listings(LineItems(2), MaxLines) \ {<<>>}, d \in 0..3, a \in 0..3, earlier \in BOOLEAN, twice \in BOOLEAN}

Version(url, sha, amended, metric) ==
  [url |-> url, sha |-> sha, d |-> 0, a |-> 0, amended |-> amended, metric |-> metric]

SmallVersions ==
  {[kind |-> "versions", rows |-> lines, basic |-> SetToSeq(basic)] :
     lines \in Listings({Item(u, "p", 1, 1) : u \in 1..3} \cup {Item(2, "q", 1, 1)}, MaxVersions) \ {<<>>},
     basic \in {B \in UpTo(MaxVersions, {Version(u, s, am, m) : u \in 1..3, s \in 1..2, am, m \in BOOLEAN}) :
                  B # {} /\ \A b, c \in B : b.url = c.url /\ b.sha = c.sha => b = c}}

CurrentProblem == problem \in SmallBlocks \cup SmallVersions

\* The filing emitted twice: every row under the url after itself, and its row of basic_fields.
Doubled(rows, url) ==
  FlattenSeq([i \in DOMAIN rows |-> IF rows[i].url = url THEN <<rows[i], rows[i]>> ELSE <<rows[i]>>])

(***************************************************************************)
(* Properties.                                                             *)
(***************************************************************************)
\* A filing the extract emits twice, rows and basic row, leaves what it leaves when emitted once,
\* paid and future: each line item as often, under the same rules beside pair_collapse.
DoublingIsInvisible ==
  Solved("block") =>
    LET url == answer.paid.url
        once == <<Basic(url, 1, Line25(problem.basic, url, "d"), Line25(problem.basic, url, "a"))>>
        rows == Doubled(problem.rows, url)
    IN \A paid \in BOOLEAN :
         LET single == PfCurrent(problem.rows, once, paid, 0)
             double == PfCurrent(rows, once \o once, paid, 0)
         IN /\ Contents(rows, double.kept) = Contents(problem.rows, single.kept)
            /\ double.rules = single.rules \cup {"pair_collapse"}

\* The watch over the paid relation lists the filer-years the old line-25 test would have halved
\* and no rule took rows from, and so a list of several line items emitted twice without its basic
\* row, which line 25 states once, is repaired or reported.
HeldWholeIsWatched ==
  Solved("block") =>
    LET url == answer.paid.url
        rows == Doubled(problem.rows, url)
        block == Under(problem.rows, url)
        alone == <<Basic(url, 1, SumOf(problem.rows, block), 0)>>
        built == PfCurrent(rows, alone, TRUE, 0)
        oldTest(r, b, set) ==
          LET d == Line25(b, url, "d")
              full == SumOf(r, set)
          IN /\ \A i \in set : Cardinality(Copies(r, set, i)) % 2 = 0
             /\ ~OneTuple(r, set) /\ d > 0
             /\ (full - 2 * d) * (full - 2 * d) < 4 * (full - d) * (full - d)
    IN /\ Unhalved(problem.rows, problem.basic, answer.paid)
            <=> answer.paid.rules \subseteq {"latest_url"} /\ oldTest(problem.rows, problem.basic, block)
       /\ ~OneTuple(problem.rows, block) /\ SumOf(problem.rows, block) > 0 =>
            Unhalved(rows, alone, built) \/ built.rules \cap {"forward_fill", "field_fill", "total_row"} # {}

\* A filing of a private foundation emitted twice counts once, and what no rule could repair is
\* reported.
DoubledFilingsCountOnce == DoublingIsInvisible /\ HeldWholeIsWatched

\* The problems are ones that can be posed: what the proofs assume, the runs meet.
ASSUME YearsArePosed ==
    (\A p \in SmallBlocks : BlockPosed(p)) /\ (\A p \in SmallVersions : VersionsPosed(p))
=============================================================================
