----------------------------- MODULE ClientReads -----------------------------
(***************************************************************************)
(* What the read-only client answers (client/client.py), as operators on   *)
(* the tables it reads: the identity search, alone, in bulk and as a       *)
(* stream to match in process; the keyword search and its eligibility      *)
(* filters; the filing, grant, profile and portfolio reads.                *)
(*                                                                         *)
(* A database is [nonprofits, funders, texts, basic, grants]: the two      *)
(* canonical tables (one row per EIN), nonprofit_text, basic_fields_current*)
(* (one row per filer and year) and unioned_grants (rows told apart by     *)
(* id).  An absent string is "", an absent number NoNumber.  Order matters *)
(* where a limit cuts, so the two orders of names are parameters: the      *)
(* database's collation and Python's code points.                          *)
(***************************************************************************)
EXTENDS Integers, Sequences, FiniteSets, SequencesExt

CONSTANTS
  NotGiven,            \* an argument left out
  Domain,              \* url as given |-> the domain it normalizes to, "" for none
  NineDigits,          \* EIN as given to the search |-> its nine digits, "" for malformed
  FunderEIN,           \* EIN as given to a funder read |-> its nine digits, "" for malformed
  NameHolds(_, _),     \* ILIKE: the first name holds the second
  DomainStarts(_, _),  \* LIKE: the first domain starts with the second
  CollatesBefore(_, _),   \* names in the database's order
  CodePointsBefore(_, _), \* names in Python's order
  EINBefore(_, _),
  TextMatches(_, _)    \* rank of a text for a keyword, 0 for no match

NoNumber == -1

Tiers == [ein |-> 4, url_exact |-> 3, url_prefix |-> 2, name |-> 1]

(***************************************************************************)
(* Identity search: signals, tiers, order.                                 *)
(***************************************************************************)
Malformed(q) ==
  \/ q.ein # NotGiven /\ NineDigits[q.ein] = ""
  \/ q.url # NotGiven /\ Domain[q.url] = ""

\* _normalize_identity_signals, a malformed signal dropped
Signals(q) ==
  [name |-> IF q.name = NotGiven THEN "" ELSE q.name,
   domain |-> IF q.url = NotGiven THEN "" ELSE Domain[q.url],
   ein |-> IF q.ein = NotGiven THEN "" ELSE NineDigits[q.ein]]

NoSignal == [name |-> "", domain |-> "", ein |-> ""]

NameSurfaces(arm, row) ==
  {row.name, row.second} \cup (IF arm = "nonprofit" THEN row.dbas ELSE {})

\* The signals by which a row of an arm is a hit, of those an arm's statement reads.
SignalsOf(arm, row, asked, prefix) ==
  LET byName == asked.name # "" /\ \E n \in NameSurfaces(arm, row) : NameHolds(n, asked.name)
      byEIN == asked.ein # "" /\ row.ein = asked.ein
      byURL == arm = "nonprofit" /\ asked.domain # "" /\ row.domain # ""
  IN {s \in DOMAIN Tiers :
        \/ s = "name" /\ byName
        \/ s = "ein" /\ byEIN
        \/ s = "url_exact" /\ byURL /\ row.domain = asked.domain
        \/ s = "url_prefix" /\ byURL /\ prefix /\ DomainStarts(row.domain, asked.domain)}

\* One row per EIN, with its best tier.
Hits(arm, rows, asked, prefix) ==
  LET signals(row) == SignalsOf(arm, row, asked, prefix)
      best(row) == CHOOSE s \in signals(row) : \A t \in signals(row) : Tiers[s] >= Tiers[t]
  IN {[org |-> row, arm |-> arm, signal |-> best(row)] : row \in {r \in rows : signals(r) # {}}}

Before(NameBefore(_, _), g, h) ==
  LET rank(x) == Tiers[x.signal]
      last(x) == x.org.name = ""
  IN \/ rank(g) > rank(h)
     \/ /\ rank(g) = rank(h)
        /\ \/ g.org.year > h.org.year
           \/ /\ g.org.year = h.org.year
              /\ \/ ~last(g) /\ last(h)
                 \/ ~last(g) /\ ~last(h) /\ NameBefore(g.org.name, h.org.name)
                 \/ g.org.name = h.org.name /\ EINBefore(g.org.ein, h.org.ein)

\* The order of the statements, which cut at the limit.
SqlBefore(g, h) == Before(CollatesBefore, g, h)

\* _identity_sort_key; a stable sort leaves the nonprofit arm's row before its twin.
SortBefore(g, h) ==
  \/ Before(CodePointsBefore, g, h)
  \/ ~Before(CodePointsBefore, h, g) /\ g.arm = "nonprofit" /\ h.arm = "funder"

Cut(seq, limit) == IF limit = NoNumber THEN seq ELSE SubSeq(seq, 1, IF limit < Len(seq) THEN limit ELSE Len(seq))

Ordered(hits, limit) == ToSet(Cut(SetToSortSeq(hits, SqlBefore), limit))

Merged(hits, limit) == Cut(SetToSortSeq(hits, SortBefore), limit)

ArmRows(db, arm) == IF arm = "nonprofit" THEN db.nonprofits ELSE db.funders

ArmsOf(org_type) == {arm \in {"nonprofit", "funder"} : org_type \in {"all", arm}}

Raised == [raised |-> TRUE]

Answered(hits) == [raised |-> FALSE, hits |-> hits]

\* The funder arm has nothing to search when only a url is given.
SearchIdentity(db, q, org_type, limit) ==
  LET asked == Signals(q)
      runs == {arm \in ArmsOf(org_type) : arm = "nonprofit" \/ asked.name # "" \/ asked.ein # ""}
  IN IF Malformed(q) \/ asked = NoSignal THEN Raised
     ELSE Answered(Merged(UNION {Ordered(Hits(arm, ArmRows(db, arm), asked, TRUE), limit) : arm \in runs}, limit))

(***************************************************************************)
(* Identity search in bulk: [key, name, url, ein] queries, in chunks.      *)
(***************************************************************************)
Chunks(seq, size) ==
  LET last(k) == IF k * size + size < Len(seq) THEN k * size + size ELSE Len(seq)
  IN {SubSeq(seq, k * size + 1, last(k)) : k \in {i \in 0..Len(seq) : i * size < Len(seq)}}

\* One statement of a chunk: its rows are <<key, hit>>, cut per key.
BulkArm(arm, rows, chunk, prefix, limit) ==
  UNION {{<<q.key, h>> : h \in Ordered(Hits(arm, rows, q.asked, prefix), limit)} : q \in ToSet(chunk)}

\* A chunk without a name or an EIN has nothing for the funder arm.
BulkRows(db, chunk, arms, prefix, limit) ==
  LET named == \E q \in ToSet(chunk) : q.asked.name # "" \/ q.asked.ein # ""
  IN UNION {BulkArm(arm, ArmRows(db, arm), chunk, prefix, limit) :
              arm \in {a \in arms : a = "nonprofit" \/ named}}

SearchIdentityBulk(db, queries, org_type, prefix, limit, chunk_size, on_invalid) ==
  LET keys == {q.key : q \in ToSet(queries)}
      normalized == [i \in DOMAIN queries |-> [key |-> queries[i].key, asked |-> Signals(queries[i])]]
      rows == UNION {BulkRows(db, chunk, ArmsOf(org_type), prefix, limit) : chunk \in Chunks(normalized, chunk_size)}
      of(key) == {r[2] : r \in {x \in rows : x[1] = key}}
  IN IF \/ Cardinality(keys) # Len(queries)
        \/ on_invalid = "raise" /\ \E q \in ToSet(queries) : Malformed(q)
     THEN Raised
     ELSE Answered([key \in keys |-> Merged(of(key), limit)])

\* iter_identity_universe: both tables, in one shape.
IdentityUniverse(db, org_type) ==
  UNION {{[org |-> row, arm |-> arm] : row \in ArmRows(db, arm)} : arm \in ArmsOf(org_type)}

(***************************************************************************)
(* Keyword search and the filing reads.                                    *)
(***************************************************************************)
RowsOf(rows, ein) == {r \in rows : r.ein = ein}

OnlyOf(rows, ein, field) == IF RowsOf(rows, ein) = {} THEN "" ELSE (CHOOSE r \in RowsOf(rows, ein) : TRUE)[field]

Total(rows, Value(_)) == FoldSet(LAMBDA r, sum : sum + Value(r), 0, rows)

Since(rows, min_taxyear) == {r \in rows : min_taxyear = NoNumber \/ (r.year # NoNumber /\ r.year >= min_taxyear)}

Known(rows, field) == {r \in rows : r[field] # NoNumber}

\* AVG(x) >= bound over the rows where x is known; false over none.
MeanReaches(rows, field, bound) ==
  LET known == Known(rows, field)
      value(r) == r[field]
  IN known # {} /\ Total(known, value) >= bound * Cardinality(known)

\* One year enough: a mutation.
ContribEligibleByRow(db, min_avg, min_taxyear) ==
  {ein \in {r.ein : r \in db.basic} :
     \E r \in Since(RowsOf(db.basic, ein), min_taxyear) : r.cash >= min_avg}

\* contrib_eligible, and find_eins_with_min_avg_contributions on the same column
ContribEligible(db, min_avg, min_taxyear) ==
  {ein \in {r.ein : r \in db.basic} : MeanReaches(Since(RowsOf(db.basic, ein), min_taxyear), "cash", min_avg)}

FindEinsWithMinAvg(db, eins, column, min_avg, min_taxyear) ==
  {ein \in eins : MeanReaches(Since(RowsOf(db.basic, ein), min_taxyear), column, min_avg)}

\* An absent government line subtracts nothing; an absent total stays absent.
BasicFields(db, eins, min_taxyear) ==
  LET noGov(r) == IF r.cash = NoNumber THEN NoNumber ELSE r.cash - (IF r.gov = NoNumber THEN 0 ELSE r.gov)
  IN {[ein |-> r.ein, year |-> r.year, cash |-> r.cash, revenue |-> r.revenue, no_gov |-> noGov(r)] :
        r \in Since({b \in db.basic : b.ein \in eins}, min_taxyear)}

\* grant_eligible: yearly sums first, an unread amount counting as none.
GrantEligible(db, min_num, min_avg, min_taxyear) ==
  LET received(ein) == {g \in db.grants : g.grantee = ein /\ g.year # NoNumber /\ g.year >= min_taxyear}
      years(ein) == {g.year : g \in received(ein)}
      amount(g) == g.amount
      all(ein) == Total(Known(received(ein), "amount"), amount)
  IN {ein \in {g.grantee : g \in db.grants} \ {""} :
        /\ received(ein) # {}
        /\ min_num > 0 => Cardinality(received(ein)) >= min_num
        /\ min_avg > 0 => all(ein) >= min_avg * Cardinality(years(ein))}

\* A threshold of None or 0 is off; keywords are or-ed; a filer without a canonical row stays.
SearchNonprofits(db, keywords, min_contrib, min_grants, min_num, min_taxyear) ==
  LET basic == min_contrib > 0
      grants == min_grants > 0 \/ min_num > 0
      found == {t.ein : t \in {x \in db.texts : \E k \in keywords : TextMatches(x.text, k) > 0}}
      eligible == {ein \in found :
                     /\ basic => ein \in ContribEligible(db, min_contrib, min_taxyear)
                     /\ grants => ein \in GrantEligible(db, min_num, min_grants, min_taxyear)}
  IN IF keywords = {} \/ ((basic \/ grants) /\ min_taxyear = NoNumber) THEN Raised
     ELSE Answered({[ein |-> ein, name |-> OnlyOf(db.nonprofits, ein, "name")] : ein \in eligible})

\* The EINs asked for, canonical or not, once per time asked.
NonprofitsByEIN(db, eins) ==
  [i \in DOMAIN eins |-> [ein |-> eins[i], name |-> OnlyOf(db.nonprofits, eins[i], "name"),
                          text |-> OnlyOf(db.texts, eins[i], "text")]]

\* get_nonprofit: the canonical row and its text, or none.
NonprofitOf(db, ein) ==
  {[ein |-> r.ein, name |-> r.name, text |-> OnlyOf(db.texts, ein, "text")] : r \in RowsOf(db.nonprofits, ein)}

(***************************************************************************)
(* Grants and funders.                                                     *)
(***************************************************************************)
Coalesce(seq) ==
  LET known == SelectSeq(seq, LAMBDA x : x # "") IN IF known = <<>> THEN "" ELSE Head(known)

\* A private foundation's row takes the funder's name first, a public charity's the nonprofit's.
GranterName(db, g) ==
  LET fc == OnlyOf(db.funders, g.granter, "name")
      nc == OnlyOf(db.nonprofits, g.granter, "name")
  IN Coalesce(IF g.pf THEN <<fc, nc, g.name>> ELSE <<nc, fc, g.name>>)

GrantsOf(db, eins, role, min_taxyear) ==
  {[grant |-> g, granter_name |-> GranterName(db, g)] :
     g \in Since({x \in db.grants : x[role] \in eins \ {""}}, min_taxyear)}

\* The funder's record decides when there is one, its absent name too.
IdentityOf(db, ein) ==
  IF RowsOf(db.funders, ein) # {} THEN [ein |-> ein, name |-> OnlyOf(db.funders, ein, "name"), dbas |-> {}]
  ELSE [ein |-> ein, name |-> OnlyOf(db.nonprofits, ein, "name"),
        dbas |-> UNION {r.dbas : r \in RowsOf(db.nonprofits, ein)}]

\* _normalize_funder_eins
FunderEINs(eins) == {FunderEIN[e] : e \in eins}

FunderIdentities(db, eins) ==
  IF "" \in FunderEINs(eins) THEN Raised
  ELSE Answered(SetToSortSeq({IdentityOf(db, e) : e \in FunderEINs(eins)}, LAMBDA a, b : EINBefore(a.ein, b.ein)))

ProfileOf(db, ein) ==
  LET nonprofit == RowsOf(db.nonprofits, ein) # {}
      funder == RowsOf(db.funders, ein) # {}
      either(field) == Coalesce(<<OnlyOf(db.nonprofits, ein, field), OnlyOf(db.funders, ein, field)>>)
      name == IF funder THEN OnlyOf(db.funders, ein, "name") ELSE OnlyOf(db.nonprofits, ein, "name")
      dbas == IF funder THEN {} ELSE UNION {r.dbas : r \in RowsOf(db.nonprofits, ein)}
  IN [ein |-> ein, name |-> name, dbas |-> dbas, place |-> either("place"),
      text |-> OnlyOf(db.texts, ein, "text"), nonprofit |-> nonprofit, funder |-> funder]

\* Batches of the sorted EINs, batch size 1000 in the code.
FunderProfiles(db, eins, batch) ==
  LET asked == SetToSortSeq(FunderEINs(eins), EINBefore)
  IN IF "" \in FunderEINs(eins) THEN Raised
     ELSE Answered({ProfileOf(db, e) : e \in UNION {ToSet(c) : c \in Chunks(asked, batch)}})

SumOrNone(grants) ==
  LET amount(g) == g.amount
  IN IF Known(grants, "amount") = {} THEN NoNumber ELSE Total(Known(grants, "amount"), amount)

\* Added over the rows joined to both canonicals: a mutation.
YearTotalJoined(db, grants) ==
  LET twice(g) == RowsOf(db.funders, g.granter) # {} /\ RowsOf(db.nonprofits, g.granter) # {}
      amount(g) == IF twice(g) THEN 2 * g.amount ELSE g.amount
  IN Total(Known(grants, "amount"), amount)

\* Added before any identity is joined; an unread amount counts as none.
YearTotal(db, grants) ==
  LET amount(g) == g.amount IN Total(Known(grants, "amount"), amount)

\* One row per EIN and year; a malformed granter fails the read.
GrantSummaries(db, eins, role, min_taxyear) ==
  LET read == Since({g \in db.grants : g[role] \in eins \ {""}}, min_taxyear)
      group(ein, year) == {g \in read : g[role] = ein /\ g.year = year}
      granters(group_) == {g.granter : g \in group_} \ {""}
      row(ein, year) ==
        [ein |-> ein, year |-> year, count |-> Cardinality(group(ein, year)),
         total |-> YearTotal(db, group(ein, year)),
         granters |-> {IdentityOf(db, e) : e \in FunderEINs(granters(group(ein, year)))}]
  IN IF "" \in FunderEINs(granters(read)) THEN Raised
     ELSE Answered({row(g[role], g.year) : g \in read})

\* The scope bounds what is scoped and never the totals.
MetricsOf(db, ein, recipients, scoped, min_taxyear, max_taxyear) ==
  LET grants == {g \in db.grants : g.granter = ein}
      identified(g) == g.grantee \in DOMAIN FunderEIN /\ FunderEIN[g.grantee] = g.grantee /\ g.grantee # ""
      inYears(g) == /\ min_taxyear = NoNumber \/ (g.year # NoNumber /\ g.year >= min_taxyear)
                    /\ max_taxyear = NoNumber \/ (g.year # NoNumber /\ g.year =< max_taxyear)
      inScope == {g \in grants : identified(g) /\ g.grantee \in recipients /\ inYears(g)}
      unknown == {g \in grants : ~identified(g)}
  IN [ein |-> ein,
      portfolio |-> Cardinality({g.grantee : g \in grants \ unknown}),
      amount |-> SumOrNone(grants),
      unidentified_amount |-> SumOrNone(unknown),
      scoped_count |-> IF ~scoped \/ grants = {} THEN NoNumber ELSE Cardinality({g.grantee : g \in inScope}),
      scoped_amount |-> IF scoped THEN SumOrNone(inScope) ELSE NoNumber,
      grants |-> Cardinality(grants),
      unidentified |-> Cardinality(unknown)]

PortfolioMetrics(db, eins, recipient_eins, scoped, min_taxyear, max_taxyear) ==
  IF \/ "" \in FunderEINs(eins) \cup FunderEINs(recipient_eins)
     \/ min_taxyear # NoNumber /\ max_taxyear # NoNumber /\ min_taxyear > max_taxyear
  THEN Raised
  ELSE Answered({MetricsOf(db, e, FunderEINs(recipient_eins), scoped, min_taxyear, max_taxyear) : e \in FunderEINs(eins)})
=============================================================================
