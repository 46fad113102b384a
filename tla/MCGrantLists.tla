---------------------------- MODULE MCGrantLists ----------------------------
(***************************************************************************)
(* GrantLists on small filings: any few tables, and the pages of a filing  *)
(* whose lists are known.                                                  *)
(***************************************************************************)
EXTENDS GrantLists, RuleProblems

CONSTANT MaxTables  \* bound: tables of a filing

MCGrantContext == {"grants paid", "cash contributions", "approved for future payment"}
MCNonGrantContext == {"legal fees"}
MCFuturePayment == {"approved for future payment", "part xv line 3b approved for future payment"}
MCGrantHeader == {"grantee", "name and address"}
MCAmountHeaders == <<{"fair market value"}, {"amount"}>>
MCNameHeaders == <<{"name and address"}, {"grantee"}>>
MCWords ==
  [h \in MCGrantContext \union MCNonGrantContext \union MCFuturePayment
         \union {"the foundation", "expenditure responsibility", "part xv line 3a"} |-> {h}]
MCRecipientLike == {"Food Bank", "Art House"}
MCLetters == MCRecipientLike \union {"line", "Total", "See attached", "cash"}
MCTotalNames == {"Total"}
MCPointerNames == {"See attached"}
MCLongNames == {}
MCNoAmount == -1

-----------------------------------------------------------------------------
(* Any few tables: of two statements, a future list, names under no        *)
(* heading, form lines, a schedule of something else.                      *)

Listed(name, amounts) == [i \in DOMAIN amounts |-> [name |-> name, amount |-> amounts[i]]]

Table(context, name, amounts) ==
  [header |-> <<>>, kind |-> "", totals |-> <<>>, context |-> context, rows |-> Listed(name, amounts)]

SomeTables ==
  {Table(c[1], c[2], amounts) :
     c \in {<<{"grants paid"}, "Food Bank">>, <<{"cash contributions"}, "Food Bank">>,
            <<{"approved for future payment"}, "Food Bank">>, <<{}, "Food Bank">>,
            <<{}, "line">>, <<{"legal fees"}, "Food Bank">>},
     amounts \in {<<300>>, <<300, 602>>}}

OnPage(table, page) ==
  [page |-> page, header |-> table.header, kind |-> table.kind, totals |-> table.totals,
   context |-> table.context, rows |-> table.rows]

TablesProblem ==
  \E n \in 1..MaxTables : \E ts \in [1..n -> SomeTables] : \E paid \in {1200, 1800}, future \in {0, 1200} :
    problem = [kind |-> "tables", tables |-> [i \in 1..n |-> OnPage(ts[i], i)],
               paid |-> paid, future |-> future]

-----------------------------------------------------------------------------
(* A filing whose lists are known.  The paid list runs over its pages under *)
(* one heading; fees may follow; a future list opens under its own heading, *)
(* or under none after a page that ends the list before it.  A statement of *)
(* expenditure responsibility, on a page or in the XML, may be part of the  *)
(* paid total.  No two sums of the amounts come close.                      *)

ListLabels == {"grants_paid_list", "grants_future_list"}

Rows(first) == <<[name |-> "Food Bank", amount |-> first], [name |-> "Art House", amount |-> 2 * first]>>

PaidRows(f) == [i \in 1..f.paidPages |-> Rows(IF i = 1 THEN 1000 ELSE 4000)]
FutureRows(f) == [i \in 1..f.futurePages |-> Rows(IF i = 1 THEN 64000 ELSE 256000)]
ErRows == Rows(16000)

Truth(f, target) ==
  (IF target = "future" THEN <<>>
   ELSE FlattenSeq(PaidRows(f)) \o (IF f.erCounts THEN ErRows ELSE <<>>))
  \o (IF target = "paid" THEN <<>> ELSE FlattenSeq(FutureRows(f)))

Stated(f, target) == Dollars(Truth(f, target))

Targets(f) == {Stated(f, "paid"), Stated(f, "future"), Stated(f, "combined")}

FilingProblem ==
  \E form \in {"pages", "ocr"}, paidPages \in 1..2, futurePages \in 0..2,
     fees, erCounts, closes, silent \in BOOLEAN,
     er \in {"none", "page", "xml"}, label, another \in ListLabels,
     layout \in {"named", "valued", "garbled"} :
    /\ problem = [kind |-> "filing", form |-> form, paidPages |-> paidPages, futurePages |-> futurePages,
                  fees |-> fees, er |-> er, erCounts |-> erCounts, closes |-> closes,
                  silent |-> silent, label |-> label, another |-> another, layout |-> layout]
    /\ er = "none" => ~erCounts
    /\ form = "ocr" => er # "page" /\ label = another /\ label = "grants_paid_list"
    /\ form = "pages" => layout = "named"
    /\ form = "pages" /\ silent => futurePages > 0 /\ label = "grants_future_list" /\ (fees \/ (closes /\ er = "none"))

\* the total a list ends with, under no name when it is the declared one
TotalLine(f) == [name |-> "", amount |-> Dollars(FlattenSeq(PaidRows(f)))]

Page(label, heading, rows) == [label |-> label, heading |-> heading, rows |-> rows, totals |-> <<>>]

Pages(f) ==
  [i \in 1..f.paidPages |->
     Page(IF i = 1 THEN "grants_paid_list" ELSE f.another, IF i = 1 THEN "grants paid" ELSE "the foundation",
          PaidRows(f)[i] \o (IF f.closes /\ i = f.paidPages THEN <<TotalLine(f)>> ELSE <<>>))]
  \o (IF f.er = "page" THEN <<Page("expenditure_responsibility", "", ErRows)>> ELSE <<>>)
  \o (IF f.fees THEN <<Page("other", "", Rows(700))>> ELSE <<>>)
  \o [i \in 1..f.futurePages |->
        Page(IF i = 1 THEN f.label ELSE f.another,
             IF i = 1 /\ ~f.silent THEN "approved for future payment" ELSE "the foundation",
             FutureRows(f)[i])]

Cell(text) == [text |-> text, money |-> -1]
Money(amount) == [text |-> "", money |-> amount]

Header(f) ==
  CASE f.layout = "named" -> <<Cell("grantee"), Cell("amount"), Cell("fair market value")>>
    [] f.layout = "valued" -> <<Cell("grantee"), Cell("status"), Cell("amount")>>
    [] f.layout = "garbled" -> <<Cell("%"), Cell("%"), Cell("%")>>

\* the columns: a name, the cost of the gift or its purpose, the gift
Line(f, row) ==
  <<Cell(row.name),
    IF f.layout = "named" THEN Money(row.amount \div 2) ELSE Cell(IF row.name = "" THEN "" ELSE "cash"),
    Money(row.amount)>>

Element(type, page, text, rows) == [type |-> type, page |-> page, text |-> text, rows |-> rows]

Sheet(f, page, heading, rows) ==
  (IF heading = "" THEN <<>> ELSE <<Element("Title", page, heading, <<>>)>>)
  \o <<Element("Table", page, "", <<Header(f)>> \o [i \in DOMAIN rows |-> Line(f, rows[i])])>>

\* An OCR's silent list is headed in the footers of its pages, and follows a schedule of something else.
PaidSheet(f, page, i) ==
  LET rows == PaidRows(f)[i] \o (IF f.closes /\ i = f.paidPages THEN <<TotalLine(f)>> ELSE <<>>)
  IN  Sheet(f, page, IF i = 1 /\ ~f.silent THEN "grants paid" ELSE "", rows)
      \o (IF f.silent THEN <<Element("Footer", page, "grants paid", <<>>)>> ELSE <<>>)

Elements(f) ==
  LET before == IF f.silent THEN 1 ELSE 0
      after == before + f.paidPages + (IF f.fees THEN 1 ELSE 0)
      Fees(page) == Sheet(f, page, "legal fees", Rows(700))
  IN  (IF f.silent THEN Fees(1) ELSE <<>>)
      \o FlattenSeq([i \in 1..f.paidPages |-> PaidSheet(f, before + i, i)])
      \o (IF f.fees THEN Fees(after) ELSE <<>>)
      \o FlattenSeq([i \in 1..f.futurePages |->
                       Sheet(f, after + i, IF i = 1 THEN "approved for future payment" ELSE "",
                             FutureRows(f)[i])])

XmlRows(f) ==
  <<[source |-> "990PF_P14_3A", name |-> "See attached", amount |-> Stated(f, "paid")]>>
  \o (IF f.er # "xml" THEN <<>>
      ELSE [i \in 1..2 |-> [source |-> "990PF_EXPENDITURE_RESP",
                             name |-> ErRows[i].name, amount |-> ErRows[i].amount]])

Transcribed(f) ==
  (IF f.form = "pages" THEN PageTables(Pages(f), Targets(f)) ELSE CandidateTables(Elements(f), Targets(f)))
  \o XmlTables(XmlRows(f), Targets(f))

ListProblem == TablesProblem \/ FilingProblem

ListAnswer(p) ==
  LET known == p.kind = "filing" IN
  [lists |-> ExtractTables(IF known THEN Transcribed(p) ELSE p.tables,
                           IF known THEN Stated(p, "paid") ELSE p.paid,
                           IF known THEN Stated(p, "future") ELSE p.future)]

(***************************************************************************)
(* Properties.                                                             *)
(***************************************************************************)

\* The evidence an accepted list rests on: whole labelled tables, or neighbours that are mostly names.
IsNeighbours(run, tables) ==
  \E i, j \in DOMAIN tables : i <= j /\ run = SubSeq(tables, i, j)

Evidenced(e, tables) ==
  LET eligible == Eligible(tables, e.target)
  IN  /\ Reconciles(Dollars(e.rows), e.declared) /\ Len(e.rows) >= 3
      /\ \A t \in ToSet(e.tables) : t \in ToSet(eligible) /\ ~Vetoed(t)
      /\ IF e.labelled THEN \A t \in ToSet(e.tables) : Labelled(t)
         ELSE /\ IsNeighbours(e.tables, eligible) /\ 2 * Named(e.rows) >= Len(e.rows)
              /\ \/ \A t \in ToSet(eligible) : Labelled(t) => t \in ToSet(e.tables)
                 \/ 2 * DollarsIn(SelectSeq(eligible, Labelled)) < e.declared

\* A target is given up only if no set of whole statements, and no run of labelled tables, adds up to it.
GivenUp(e, tables) ==
  LET labelled == SelectSeq(Eligible(tables, e.target), Labelled)
      groups == {Group(t) : t \in ToSet(labelled)}
      Adds(run) == Reconciles(DollarsIn(run), e.declared) /\ Len(GrantRows(run)) >= 3
  IN  /\ Cardinality(groups) <= MaxGroups =>
           \A S \in SUBSET groups : ~Adds(SelectSeq(labelled, LAMBDA t : Group(t) \in S))
      /\ \A i, j \in DOMAIN labelled : ~Adds(SubSeq(labelled, i, j))

\* An accepted list is evidenced and counts no table twice; one given up was not there to be found;
\* and the report of a filing whose list was found under its label never says there is none, or less
\* (attachment_grants.py: select, extract_tables, diagnose).
AcceptedListsAreEvidenced ==
  Solved("tables") =>
    /\ \A k \in DOMAIN answer.lists :
         LET e == answer.lists[k]
         IN  /\ e.outcome = "reconciled" => Evidenced(e, problem.tables)
             /\ e.outcome = "no_reconciling_run" => GivenUp(e, problem.tables)
             /\ e.outcome = "reconciled" /\ e.labelled =>
                  /\ Diagnose(problem.tables, e.declared) = "list_present"
                  /\ e.target = "paid" => Coverage(problem.tables, e.declared) >= 99
    /\ \A j, k \in DOMAIN answer.lists :
         j # k => ToSet(answer.lists[j].tables) \cap ToSet(answer.lists[k].tables) = {}

\* What is reconciled is the list itself, whichever pages it runs over, whatever the model called
\* its later pages, wherever the filing put the rest of it (attachment_grants.py: page_tables,
\* candidate_tables, xml_tables).
ReadListsAreTheLists ==
  Solved("filing") =>
    /\ \A k \in DOMAIN answer.lists :
         LET e == answer.lists[k]
         IN  e.outcome = "reconciled" =>
               {r.amount : r \in ToSet(e.rows)} = {r.amount : r \in ToSet(Truth(problem, e.target))}
               /\ Len(e.rows) = Len(Truth(problem, e.target))
    /\ \A target \in {"paid", "future"} :
         Len(Truth(problem, target)) >= 3 =>
           \E k \in DOMAIN answer.lists : answer.lists[k].target = target /\ answer.lists[k].outcome = "reconciled"
=============================================================================
