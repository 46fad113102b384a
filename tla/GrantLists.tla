----------------------------- MODULE GrantLists -----------------------------
(***************************************************************************)
(* Which tables of a transcribed filing are its grant list                 *)
(* (attachment_grants.py): the tables three producers make of it, and the  *)
(* search for those that add up to a declared total.                       *)
(*                                                                         *)
(* A heading, a column and a name are members of small sets; what the      *)
(* regular expressions say of them are the constants.  The context of a    *)
(* table is the set of the headings over it: its words are a bag in the    *)
(* code too.  An amount is a whole number of dollars, NoAmount when the    *)
(* cell is not money.  page 0 is the page a table of the XML has not.      *)
(***************************************************************************)
EXTENDS Integers, FiniteSets, SequencesExt

CONSTANTS GrantContext,      \* the headings that say grants
          NonGrantContext,   \* the headings and columns that say something else
          FuturePayment,     \* the headings of grants approved for the future
          GrantHeader,       \* the headings and columns that name a grant
          AmountHeaders,     \* the columns of each amount pattern, best first
          NameHeaders,       \* the columns of each name pattern, best first
          Words,             \* the words of a heading, page numbers left out
          Letters,           \* the names with a word in them
          TotalNames,        \* the names of a total row
          PointerNames,      \* the names that point at a document
          RecipientLike,     \* the names of an organization
          LongNames,         \* the names that read like prose
          MaxGroups,         \* the statements a subset search takes
          NoAmount

NoRun == <<>>
NoCarry == [none |-> TRUE]
MinRows == 3
FewDollars == 100

Distance(a, b) == IF a < b THEN b - a ELSE a - b

\* error <= 0.005
Reconciles(sum, declared) == 1000 * Distance(sum, declared) <= 5 * declared
Overshoots(sum, declared) == 1000 * (sum - declared) > 5 * declared

\* the targets a cell may repeat: a zero target is none
IsTarget(amount, targets) ==
  \E t \in targets \ {0} : Distance(amount, t) <= 1 \/ Distance(amount, t) <= t \div 1000000

-----------------------------------------------------------------------------
(* A table. *)

Vetoed(t) == t.kind = "veto" \/ (t.context \union ToSet(t.header)) \cap NonGrantContext # {}

Labelled(t) ==
  /\ ~Vetoed(t)
  /\ \/ t.kind \in {"paid", "future"}
     \/ t.context \cap GrantContext # {}
     \/ ToSet(t.header) \cap GrantHeader # {}

Future(t) == t.kind = "future" \/ t.context \cap FuturePayment # {}

\* the statement a table belongs to
Group(t) == <<Future(t), UNION {Words[h] : h \in t.context}>>

Dollars(rows) == FoldLeft(LAMBDA sum, row : sum + row.amount, 0, rows)

GrantRows(tables) == FlattenSeq([i \in DOMAIN tables |-> tables[i].rows])

DollarsIn(tables) == Dollars(GrantRows(tables))

Named(rows) == Len(SelectSeq(rows, LAMBDA row : row.name \in RecipientLike))

\* the tables a report of a failed filing counts as its list
GrantLike(t) ==
  Labelled(t) \/ (~Vetoed(t) /\ Len(t.rows) >= 8 /\ 10 * Named(t.rows) >= 6 * Len(t.rows))

Diagnose(tables, declared) ==
  LET grantish == SelectSeq(tables, GrantLike)
  IN  IF grantish = <<>> THEN "list_absent"
      ELSE IF 2 * DollarsIn(grantish) < declared THEN "list_partial"
      ELSE "list_present"

\* in percent
Coverage(tables, declared) ==
  IF declared = 0 THEN 0
  ELSE (100 * DollarsIn(SelectSeq(tables, LAMBDA t : ~Future(t) /\ GrantLike(t)))) \div declared

-----------------------------------------------------------------------------
(* The search. *)

\* Any set of whole statements: the code keeps the first of the lowest error.
SearchStatements(tables, declared) ==
  LET groups == {Group(tables[i]) : i \in DOMAIN tables}
      Run(S) == SelectSeq(tables, LAMBDA t : Group(t) \in S)
      fits == {S \in SUBSET groups : /\ Reconciles(DollarsIn(Run(S)), declared)
                                     /\ Len(GrantRows(Run(S))) >= MinRows}
      Error(S) == Distance(DollarsIn(Run(S)), declared)
  IN  IF Cardinality(groups) \notin 1..MaxGroups \/ fits = {} THEN NoRun
      ELSE Run(CHOOSE S \in fits : \A other \in fits : Error(S) <= Error(other))

\* Runs that cross a vetoed table: a mutation.
RunsReachedOverVetoes(tables, declared) ==
  {b \in (DOMAIN tables) \X (DOMAIN tables) :
     /\ b[1] <= b[2]
     /\ \A i \in b[1]..(b[2] - 1) : ~Overshoots(DollarsIn(SubSeq(tables, b[1], i)), declared)}

RunsReached(tables, declared) ==
  {b \in (DOMAIN tables) \X (DOMAIN tables) :
     /\ b[1] <= b[2]
     /\ \A i \in b[1]..b[2] : ~Vetoed(tables[i])
     /\ \A i \in b[1]..(b[2] - 1) : ~Overshoots(DollarsIn(SubSeq(tables, b[1], i)), declared)}

\* A run of neighbours, the first of the lowest error; share is in percent.
SearchRuns(tables, declared, share) ==
  LET Run(b) == SubSeq(tables, b[1], b[2])
      Error(b) == Distance(DollarsIn(Run(b)), declared)
      fits == {b \in RunsReached(tables, declared) :
                 LET rows == GrantRows(Run(b))
                 IN  /\ Reconciles(Dollars(rows), declared)
                     /\ Len(rows) >= MinRows
                     /\ 100 * Named(rows) >= share * Len(rows)}
      Before(b, c) == \/ Error(b) < Error(c)
                      \/ /\ Error(b) = Error(c)
                         /\ b[1] < c[1] \/ (b[1] = c[1] /\ b[2] <= c[2])
  IN  IF fits = {} THEN NoRun ELSE Run(CHOOSE b \in fits : \A c \in fits : Before(b, c))

Extraction(outcome, target, declared, run, labelled) ==
  [outcome |-> outcome, target |-> target, declared |-> declared, tables |-> run,
   rows |-> GrantRows(run), labelled |-> labelled,
   total_stated |-> \E i \in DOMAIN run : \E j \in DOMAIN run[i].totals :
                       IsTarget(run[i].totals[j], {declared})]

\* Names carry a run only if the labelled tables cannot be the list, or are in it.
NamesMayDecide(labelled, run, declared) ==
  2 * DollarsIn(labelled) < declared \/ ToSet(labelled) \subseteq ToSet(run)

Eligible(tables, target) ==
  SelectSeq(tables, LAMBDA t : target = "combined" \/ Future(t) = (target = "future"))

\* found is the run by labels, named the one by names.
Outcome(target, declared, eligible, labelled, found, named) ==
  IF declared <= 0 THEN Extraction("no_declared_amount", target, declared, NoRun, FALSE)
  ELSE IF eligible = <<>> THEN Extraction("no_candidate_tables", target, declared, NoRun, FALSE)
  ELSE IF found # NoRun THEN Extraction("reconciled", target, declared, found, TRUE)
  ELSE IF named # NoRun /\ NamesMayDecide(labelled, named, declared)
       THEN Extraction("reconciled", target, declared, named, FALSE)
  ELSE Extraction("no_reconciling_run", target, declared, NoRun, FALSE)

FirstRun(run, other) == IF run # NoRun THEN run ELSE other

Select(tables, declared, target) ==
  LET eligible == Eligible(tables, target)
      labelled == SelectSeq(eligible, Labelled)
  IN  Outcome(target, declared, eligible, labelled,
              FirstRun(SearchStatements(labelled, declared), SearchRuns(labelled, declared, 0)),
              SearchRuns(eligible, declared, 50))

Reconciled(extraction) == extraction.outcome = "reconciled"

\* sorted is stable
ByPage(tables) ==
  LET last == CHOOSE n \in {tables[i].page : i \in DOMAIN tables} \union {0} :
                \A i \in DOMAIN tables : tables[i].page <= n
  IN  FlattenSeq([n \in 1..(last + 1) |-> SelectSeq(tables, LAMBDA t : t.page = n - 1)])

\* The extractions of a filing: its paid list, and the future one it declares, or both as one.
Extractions(ofPaid, ofFuture, combined) ==
  IF /\ ~Reconciled(ofPaid) /\ ofFuture # <<>> /\ ~Reconciled(ofFuture[1])
     /\ Reconciled(combined)
  THEN <<combined>>
  ELSE <<ofPaid>> \o ofFuture

ExtractTables(tables, paid, future) ==
  LET sorted == ByPage(tables)
  IN  Extractions(Select(sorted, paid, "paid"),
                  IF future = 0 THEN <<>> ELSE <<Select(sorted, future, "future")>>,
                  Select(sorted, paid + future, "combined"))

-----------------------------------------------------------------------------
(* The tables of a vision model's pages. *)

PageKind(label) ==
  CASE label \in {"grants_paid_list", "expenditure_responsibility"} -> "paid"
    [] label = "grants_future_list" -> "future"
    [] OTHER -> ""

IsTotal(item, targets) ==
  \/ item.name \notin Letters
  \/ item.name \in TotalNames
  \/ IsTarget(item.amount, targets)

IsGrant(item, targets) ==
  ~IsTotal(item, targets) /\ item.amount > 0 /\ item.name \notin PointerNames

Amounts(items) == [i \in DOMAIN items |-> items[i].amount]

PageContext(data) ==
  ({data.heading} \ {""}) \union
  (IF data.label = "expenditure_responsibility" THEN {"expenditure responsibility"} ELSE {})

\* does the heading tell the selector something?
OwnHeading(data) ==
  \/ data.label = "expenditure_responsibility"
  \/ data.heading \in GrantContext \union FuturePayment \union NonGrantContext \union GrantHeader

PageTable(page, data, carried, targets) ==
  LET items == SelectSeq(data.rows, LAMBDA item : item.amount # NoAmount)
      inherits == PageKind(data.label) # "" /\ ~OwnHeading(data) /\ carried # NoCarry
  IN  [page |-> page, header |-> <<>>,
       rows |-> SelectSeq(items, LAMBDA item : IsGrant(item, targets)),
       totals |-> Amounts(SelectSeq(items, LAMBDA item : IsTotal(item, targets)))
                  \o SelectSeq(data.totals, LAMBDA amount : amount # NoAmount),
       context |-> IF inherits THEN carried.context ELSE PageContext(data),
       kind |-> IF inherits THEN carried.kind ELSE PageKind(data.label)]

\* A list continued past its total: a mutation.
ClosedNever(table, targets) == FALSE

\* a list its total closes is not continued
Closed(table, targets) == \E i \in DOMAIN table.totals : IsTarget(table.totals[i], targets)

Carry(table, targets) ==
  IF Labelled(table) /\ ~Closed(table, targets)
  THEN [context |-> table.context, kind |-> IF Future(table) THEN "future" ELSE "paid"]
  ELSE NoCarry

PageTables(pages, targets) ==
  LET Step(acc, page) ==
        LET table == PageTable(page, pages[page], acc.carried, targets)
        IN  [found |-> IF table.rows = <<>> THEN acc.found ELSE Append(acc.found, table),
             carried |-> Carry(table, targets)]
  IN  FoldLeft(Step, [found |-> <<>>, carried |-> NoCarry], [i \in DOMAIN pages |-> i]).found

-----------------------------------------------------------------------------
(* The tables of the XML: one for each source with a row left. *)

XmlKind(source) == IF source = "990PF_P14_3B" THEN "future" ELSE "paid"

XmlContext(source) ==
  CASE source = "990PF_P14_3A" -> {"part xv line 3a"}
    [] source = "990PF_P14_3B" -> {"part xv line 3b approved for future payment"}
    [] source = "990PF_EXPENDITURE_RESP" -> {"expenditure responsibility"}

XmlSources == {"990PF_P14_3A", "990PF_P14_3B", "990PF_EXPENDITURE_RESP"}

XmlTables(rows, targets) ==
  LET kept == SelectSeq(rows, LAMBDA row :
                /\ row.source \in XmlSources
                /\ row.amount # NoAmount /\ row.amount > 0
                /\ row.name \in Letters /\ row.name \notin PointerNames
                /\ ~IsTarget(row.amount, targets))
      From(s) == SelectSeq(kept, LAMBDA row : row.source = s)
      Grants(s) == [i \in DOMAIN From(s) |-> [name |-> From(s)[i].name, amount |-> From(s)[i].amount]]
      Opens(i) == \A j \in 1..(i - 1) : kept[j].source # kept[i].source
      firsts == SetToSortSeq({i \in DOMAIN kept : Opens(i)}, <)
      Table(s) == [page |-> 0, header |-> <<>>, rows |-> Grants(s), totals |-> <<>>,
                   context |-> XmlContext(s), kind |-> XmlKind(s)]
  IN  [k \in DOMAIN firsts |-> Table(kept[firsts[k]].source)]

-----------------------------------------------------------------------------
(* The tables of an OCR's elements, in document order.  A row is a sequence *)
(* of cells [text, money].                                                  *)

\* the first column of the first pattern that has one, 0 for none
PickColumn(header, patterns) ==
  LET hits == {p \in DOMAIN patterns : \E i \in DOMAIN header : header[i].text \in patterns[p]}
      best == CHOOSE p \in hits : \A q \in hits : p <= q
  IN  IF hits = {} THEN 0
      ELSE CHOOSE i \in DOMAIN header :
             /\ header[i].text \in patterns[best]
             /\ \A j \in 1..(i - 1) : header[j].text \notin patterns[best]

\* the column with the most money, the last of several; two cells at least
DensestColumn(data) ==
  LET columns == UNION {DOMAIN data[r] : r \in DOMAIN data}
      Density(i) == Cardinality({r \in DOMAIN data :
                                   i \in DOMAIN data[r] /\ data[r][i].money # NoAmount})
      best == {i \in columns : \A j \in columns : Density(j) <= Density(i)}
  IN  IF \A i \in columns : Density(i) < 2 THEN 0 ELSE CHOOSE i \in best : \A j \in best : j <= i

AmountColumn(rows) ==
  LET picked == PickColumn(rows[1], AmountHeaders)
  IN  IF picked # 0 THEN picked ELSE DensestColumn(Tail(rows))

\* The cell of the name column, else the first that reads like a recipient,
\* else one with words ("" for none; the code takes the longest).
RowName(row, column) ==
  LET texts == [i \in DOMAIN row |-> row[i].text]
      In(S) == SelectSeq(texts, LAMBDA text : text \in S)
  IN  IF column \in DOMAIN row /\ texts[column] \in Letters THEN texts[column]
      ELSE IF In(RecipientLike) # <<>> THEN Head(In(RecipientLike))
      ELSE IF In(Letters) # <<>> THEN Head(In(Letters))
      ELSE ""

\* what becomes of a row of the table, in the order of the code's tests
RowIs(row, amountColumn, nameColumn, targets) ==
  LET amount == IF amountColumn \in DOMAIN row THEN row[amountColumn].money ELSE NoAmount
      name == RowName(row, nameColumn)
  IN  CASE amount = NoAmount -> "nothing"
        [] amount # NoAmount /\ ((\E i \in DOMAIN row : row[i].text \in TotalNames)
                                 \/ IsTarget(amount, targets)) -> "total"
        [] OTHER -> IF amount = 0 THEN "nothing"
                    ELSE IF name = "" THEN "total"
                    ELSE IF name \in PointerNames THEN "nothing"
                    ELSE "grant"

\* form lines and prose are not lists
ShapedLikeList(grants) ==
  LET few == Len(SelectSeq(grants, LAMBDA row : row.amount < FewDollars))
      long == Len(SelectSeq(grants, LAMBDA row : row.name \in LongNames))
  IN  2 * few <= Len(grants) /\ long < Len(grants) - Len(grants) \div 2

ElementTable(element, context, targets) ==
  LET data == Tail(element.rows)
      amountColumn == AmountColumn(element.rows)
      nameColumn == PickColumn(element.rows[1], NameHeaders)
      Of(what) == SelectSeq(data, LAMBDA row : RowIs(row, amountColumn, nameColumn, targets) = what)
      grants == Of("grant")
  IN  [page |-> element.page,
       header |-> [i \in DOMAIN element.rows[1] |-> element.rows[1][i].text],
       rows |-> [i \in DOMAIN grants |-> [name |-> RowName(grants[i], nameColumn),
                                          amount |-> grants[i][amountColumn].money]],
       totals |-> [i \in DOMAIN Of("total") |-> Of("total")[i][amountColumn].money],
       context |-> context, kind |-> ""]

IsList(element, table) ==
  /\ Len(element.rows) >= 2
  /\ AmountColumn(element.rows) # 0
  /\ table.rows # <<>>
  /\ ShapedLikeList(table.rows)

Footers(elements, page) ==
  {elements[i].text : i \in {j \in DOMAIN elements : elements[j].type = "Footer"
                                                      /\ elements[j].page = page}}

\* a heading goes on to the pages without one if it says grants
CarriedOver(acc) ==
  IF acc.onPage = {} THEN acc.carried
  ELSE IF acc.onPage \cap GrantContext # {} THEN acc.onPage ELSE {}

CandidateTables(elements, targets) ==
  LET Turn(acc, element) ==
        IF element.page = acc.page THEN acc
        ELSE [acc EXCEPT !.carried = CarriedOver(acc), !.onPage = {}, !.page = element.page]
      Read(acc, element) ==
        LET context == (IF acc.onPage # {} THEN acc.onPage ELSE acc.carried)
                       \union Footers(elements, element.page)
            table == ElementTable(element, context, targets)
        IN  IF element.type = "Table" /\ IsList(element, table)
            THEN [acc EXCEPT !.found = Append(@, table)]
            ELSE acc
      Step(acc, element) ==
        IF element.type \in {"Title", "Header", "FigureCaption"}
        THEN [Turn(acc, element) EXCEPT !.onPage = @ \union ({element.text} \ {""})]
        ELSE Read(Turn(acc, element), element)
  IN  ByPage(FoldLeft(Step, [found |-> <<>>, carried |-> {}, onPage |-> {}, page |-> 0], elements).found)
=============================================================================
