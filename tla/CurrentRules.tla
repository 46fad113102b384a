---------------------------- MODULE CurrentRules ----------------------------
(***************************************************************************)
(* Which rows of a filer-year the current relations keep                   *)
(* (current_grants.py): the filing version of basic_fields_current, the    *)
(* Schedule I line items, and the 990-PF line items paid and approved for  *)
(* the future.  The rows of the filer-year are a sequence, in the          *)
(* extract's order (ctid), of [url, name, text, amt]: the content the tuple*)
(* hash covers is the name, the amount and the rest of the text.  Its rows *)
(* of basic_fields are a sequence of [url, sha, d, a, amended, metric],    *)
(* where d and a are the two columns of line 25, 0 when none is stated.    *)
(* Urls and shas are numbers; a later url is a larger one.                 *)
(***************************************************************************)
EXTENDS Integers, Sequences, FiniteSets, SequencesExt

Urls(rows) == {r.url : r \in ToSet(rows)}

Largest(S) == CHOOSE x \in S : \A y \in S : x >= y

Smallest(S) == CHOOSE x \in S : \A y \in S : x =< y

Under(rows, url) == {i \in DOMAIN rows : rows[i].url = url}

LineItem(row) == <<row.name, row.text, row.amt>>

Copies(rows, block, i) == {j \in block : LineItem(rows[j]) = LineItem(rows[i])}

CopyRank(rows, block, i) == Cardinality({j \in Copies(rows, block, i) : j =< i})

SumOf(rows, block) == FoldSet(LAMBDA i, sum : sum + rows[i].amt, 0, block)

Filings(basic) == Cardinality({b.sha : b \in ToSet(basic)})

(***************************************************************************)
(* basic_fields_current and its 990-EZ and 990-PF twins: one version, whole*)
(***************************************************************************)
\* A form without an amended flag and a key metric (990-PF) has both out of the order.
VersionBefore(b, c, keyed) ==
  LET reports(x) == keyed /\ x.metric
      amends(x) == keyed /\ x.amended
  IN \/ reports(b) /\ ~reports(c)
     \/ /\ reports(b) = reports(c)
        /\ \/ amends(b) /\ ~amends(c)
           \/ amends(b) = amends(c) /\ (b.url > c.url \/ (b.url = c.url /\ b.sha < c.sha))

CurrentVersion(basic, keyed) ==
  CHOOSE b \in ToSet(basic) : \A c \in ToSet(basic) : ~VersionBefore(c, b, keyed)

VersionRule(basic) ==
  IF Filings(basic) >= 2 THEN "latest_filing" ELSE IF Len(basic) > 1 THEN "duplicate_row" ELSE "passthrough"

(***************************************************************************)
(* Schedule I                                                              *)
(***************************************************************************)
\* The latest url, amended or not: a mutation.
SchedIUrlLatest(rows, basic) == Largest(Urls(rows))

\* The amended filing's url, else the latest.
SchedIUrl(rows, basic) ==
  LET amended == {u \in Urls(rows) : \E b \in ToSet(basic) : b.url = u /\ b.amended}
  IN Largest(IF amended # {} THEN amended ELSE Urls(rows))

\* An amendment's block is a copy of the original's: identical line items count once.
SchedIKept(rows, basic) ==
  LET block == Under(rows, SchedIUrl(rows, basic))
  IN {i \in block : Filings(basic) < 2 \/ CopyRank(rows, block, i) = 1}

(***************************************************************************)
(* 990-PF line items: what a block shows, and the rules                    *)
(***************************************************************************)
\* One row per url: the rows of one never disagree, the lowest sha makes the pick repeatable.
Line25(basic, url, column) ==
  LET rows == {b \in ToSet(basic) : b.url = url}
  IN IF rows = {} THEN 0 ELSE (CHOOSE b \in rows : \A c \in rows : b.sha =< c.sha)[column]

Repeated(basic, url) == Cardinality({i \in DOMAIN basic : basic[i].url = url}) > 1

\* pair_collapse: every tuple an even number of times, and the filing's own row repeated
Pair(rows, block, basic, url) ==
  Repeated(basic, url) /\ \A i \in block : Cardinality(Copies(rows, block, i)) % 2 = 0

OneTuple(rows, block) == \A i, j \in block : LineItem(rows[i]) = LineItem(rows[j])

Declared(rows, block, held, d, a) == SumOf(rows, block) \in {held * d, held * a}

ForwardFill(rows, block, held, d, a) ==
  /\ OneTuple(rows, block) /\ Cardinality(block) >= 2 * held
  /\ \E i \in block : rows[i].amt > 0 /\ rows[i].amt \in {d, a}
  /\ ~Declared(rows, block, held, d, a)

WithAmount(rows, block) == {i \in block : rows[i].amt # 0}

FieldFill(rows, block, held, d, a) ==
  LET grant == WithAmount(rows, block)
  IN /\ ~OneTuple(rows, block)
     /\ \A i, j \in grant : rows[i].amt = rows[j].amt /\ rows[i].name = rows[j].name
     /\ Cardinality(grant) >= 2 * held
     /\ \E i \in grant : rows[i].amt > 0 /\ rows[i].amt \in {d, a}
     /\ ~Declared(rows, block, held, d, a)

\* The rows of a doubled filing added as they are: a mutation.
TotalUnderUnhalved(rows, block, held, line) ==
  LET carrying == {i \in block : rows[i].amt = line}
  IN line > 0 /\ carrying # {} /\ OneTuple(rows, carrying) /\ SumOf(rows, block \ carrying) = line

\* The rows carrying one column of line 25 are one tuple, and the others add up to it.
TotalUnder(rows, block, held, line) ==
  LET carrying == {i \in block : rows[i].amt = line}
  IN line > 0 /\ carrying # {} /\ OneTuple(rows, carrying) /\ SumOf(rows, block \ carrying) = line * held

\* Where the two columns name different rows the table cannot say which is the total.
TotalRow(rows, block, held, d, a) ==
  LET byD == TotalUnder(rows, block, held, d)
      byA == TotalUnder(rows, block, held, a)
  IN (byD \/ byA) /\ ~(byD /\ byA /\ d # a) /\ ~Declared(rows, block, held, d, a)

(***************************************************************************)
(* The relation of a filer-year: the rows kept, and the rules that took any*)
(***************************************************************************)
\* paid: the paid rows, the one side line 25 totals; paidUrl: the url the paid relation holds the
\* filer-year under, 0 for none, read by the future side only.
PfCurrent(rows, basic, paid, paidUrl) ==
  LET url == Largest(Urls(rows))
      block == Under(rows, url)
      d == Line25(basic, url, "d")
      a == Line25(basic, url, "a")
      pair == Pair(rows, block, basic, url)
      held == IF pair THEN 2 ELSE 1
      forward == paid /\ ForwardFill(rows, block, held, d, a)
      field == paid /\ FieldFill(rows, block, held, d, a)
      total == paid /\ TotalRow(rows, block, held, d, a)
      totalAmount == IF TotalUnder(rows, block, held, d) THEN d ELSE a
      stays(i) ==
        CASE forward -> CopyRank(rows, block, i) = 1
          [] field /\ rows[i].amt # 0 -> i = Smallest(WithAmount(rows, block))
          [] total /\ rows[i].amt = totalAmount -> FALSE
          [] OTHER -> pair => CopyRank(rows, block, i) * 2 =< Cardinality(Copies(rows, block, i))
      refiled == ~paid /\ paidUrl > url
      fired == [latest_url |-> Cardinality(Urls(rows)) > 1, pair_collapse |-> pair,
                forward_fill |-> forward, field_fill |-> field, total_row |-> total]
  IN [url |-> url, kept |-> IF refiled THEN {} ELSE {i \in block : stays(i)},
      rules |-> {r \in DOMAIN fired : fired[r]}]

\* unhalved_doubles, read from the built relation
Unhalved(rows, basic, built) ==
  LET d == Line25(basic, built.url, "d")
      full == SumOf(rows, built.kept)
      apart(x) == IF x < 0 THEN -x ELSE x
  IN /\ built.rules \subseteq {"latest_url"}
     /\ Cardinality(built.kept) % 2 = 0 /\ Cardinality(built.kept) >= 4
     /\ d > 0 /\ apart(full - 2 * d) < 2 * apart(full - d)
     /\ \A i \in built.kept : Cardinality(Copies(rows, built.kept, i)) % 2 = 0
     /\ ~OneTuple(rows, built.kept)
=============================================================================
