---------------------------- MODULE MCClientReads ----------------------------
(***************************************************************************)
(* ClientReads on small databases.                                         *)
(***************************************************************************)
EXTENDS ClientReads, RuleProblems, TLC

CONSTANTS
  MaxIdentities,  \* bound: rows of the two canonical tables in a search
  MaxQueries,     \* bound: queries of a bulk search
  MaxPayments,    \* bound: rows of unioned_grants
  MaxYears        \* bound: rows of basic_fields_current

(***************************************************************************)
(* Names, urls and EINs.  "acme fund" collates before "Beta" and comes     *)
(* after it by code point.                                                 *)
(***************************************************************************)
MCDomain == ("http://www.acme.org/x" :> "acme.org") @@ ("acme" :> "acme") @@ ("n/a" :> "")
MCNineDigits == ("1" :> "1") @@ ("0-1" :> "1") @@ ("3" :> "3") @@ ("typo" :> "")
MCFunderEIN == [e \in {"1", "2", "3", "5"} |-> e] @@ ("0-1" :> "1") @@ ("typo" :> "") @@ ("" :> "")
MCNameHolds(n, m) == n # "" /\ (n = m \/ (n = "acme fund" /\ m = "Acme"))
MCDomainStarts(d, e) == d = e \/ <<d, e>> \in {<<"acme.org", "acme">>, <<"acme.org.uk", "acme.org">>, <<"acme.org.uk", "acme">>}
IndexIn(seq, x) == CHOOSE i \in DOMAIN seq : seq[i] = x
Earlier(seq, n, m) == IndexIn(seq, n) < IndexIn(seq, m)
MCCollatesBefore(n, m) == Earlier(<<"Acme", "acme fund", "Beta">>, n, m)
MCCodePointsBefore(n, m) == Earlier(<<"Acme", "Beta", "acme fund">>, n, m)
MCEINBefore(d, e) == Earlier(<<"0-1", "1", "2", "3", "5", "typo">>, d, e)
MCTextMatches(t, k) == IF t = k THEN 2 ELSE IF t = "both" THEN 1 ELSE 0

Org(ein, name, second, dbas, domain, year) ==
  [ein |-> ein, name |-> name, second |-> second, dbas |-> dbas, domain |-> domain, year |-> year,
   place |-> IF ein = "3" THEN "" ELSE "nyc"]

Canonical ==
  {<<"nonprofit", Org("1", "Acme", "", {}, "acme.org", 2020)>>,
   <<"nonprofit", Org("2", "acme fund", "", {"Beta"}, "acme.org.uk", 2020)>>,
   <<"nonprofit", Org("3", "Beta", "Acme", {}, "", NoNumber)>>,
   <<"nonprofit", Org("5", "", "", {"Acme"}, "acme", 2021)>>,
   <<"funder", Org("1", "acme fund", "", {}, "", 2020)>>,
   <<"funder", Org("2", "Beta", "Acme", {}, "", 2020)>>,
   <<"funder", Org("3", "Beta", "Acme", {}, "", NoNumber)>>,
   <<"funder", Org("5", "", "Acme", {}, "", 2021)>>}

Tables(rows) ==
  [nonprofits |-> {r[2] : r \in {x \in rows : x[1] = "nonprofit"}},
   funders |-> {r[2] : r \in {x \in rows : x[1] = "funder"}}]

Query(key, name, url, ein) == [key |-> key, name |-> name, url |-> url, ein |-> ein]

Queries ==
  {Query("a", "Acme", NotGiven, NotGiven), Query("b", "Beta", "acme", "0-1"),
   Query("c", NotGiven, "http://www.acme.org/x", NotGiven), Query("d", "Acme", "n/a", NotGiven),
   Query("e", NotGiven, "acme", "typo"), Query("f", NotGiven, NotGiven, "3"), Query("g", NotGiven, "n/a", NotGiven)}

SearchProblem ==
  \E rows \in UpTo(MaxIdentities, Canonical), qs \in UpTo(MaxQueries, Queries) \ {{}},
     org_type \in {"all", "nonprofit", "funder"}, limit \in {NoNumber, 1, 2} :
       problem = [kind |-> "search", db |-> Tables(rows), queries |-> qs, org_type |-> org_type, limit |-> limit]

Payment(id, granter, grantee, year, amount, pf) ==
  [id |-> id, granter |-> granter, grantee |-> grantee, year |-> year, amount |-> amount, pf |-> pf, name |-> "filed"]

Payments ==
  {Payment(1, "1", "5", 2020, 10, FALSE), Payment(2, "1", "5", 2020, 10, TRUE),
   Payment(3, "1", "", 2021, NoNumber, TRUE), Payment(4, "2", "5", NoNumber, 7, FALSE),
   Payment(5, "", "5", 2021, 3, FALSE), Payment(6, "typo", "3", 2021, 4, FALSE), Payment(7, "2", "3", 2021, 0, TRUE)}

GrantProblem ==
  \E rows \in UpTo(2, {x \in Canonical : x[2].ein # "3"}), grants \in UpTo(MaxPayments, Payments),
     eins \in {{"1"}, {"1", "0-1", "2"}, {"3", "5"}, {"2", "typo"}}, min \in {NoNumber, 2021}, max \in {NoNumber, 2020} :
       problem = [kind |-> "grants", eins |-> eins, min |-> min, max |-> max,
                  db |-> [texts |-> {[ein |-> "1", text |-> "both"], [ein |-> "5", text |-> "arts"]}, grants |-> grants]
                           @@ Tables(rows)]

Year(ein, year, cash, gov, revenue) == [ein |-> ein, year |-> year, cash |-> cash, gov |-> gov, revenue |-> revenue]

Years ==
  {Year("1", 2019, 9, NoNumber, 9), Year("1", 2020, 4, 1, 8), Year("1", 2021, NoNumber, 2, 6),
   Year("1", 2022, 7, 0, 7), Year("2", 2020, 6, 6, NoNumber), Year("2", NoNumber, 2, 0, 2), Year("5", 2021, 0, NoNumber, 6)}

EligibilityProblem ==
  \E basic \in UpTo(MaxYears, Years), grants \in UpTo(MaxYears, Payments), keywords \in {{}, {"arts"}},
     min \in {NoNumber, 2020}, thresholds \in {<<0, 0, 0>>, <<6, 0, 0>>, <<0, 2, 0>>, <<0, 0, 6>>, <<6, 2, 6>>} :
       problem = [kind |-> "eligibility", keywords |-> keywords, min |-> min,
                  contrib |-> thresholds[1], num |-> thresholds[2], avg |-> thresholds[3],
                  db |-> [texts |-> {[ein |-> "1", text |-> "both"], [ein |-> "2", text |-> "arts"],
                                     [ein |-> "5", text |-> "arts"]},
                          basic |-> basic, grants |-> grants] @@ Tables({x \in Canonical : x[2].ein \in {"1", "5"}})]

ClientProblem == SearchProblem \/ GrantProblem \/ EligibilityProblem

InOrder(qs) == SetToSortSeq(qs, LAMBDA q, r : Earlier(<<"a", "b", "c", "d", "e", "f", "g">>, q.key, r.key))

ClientAnswer(p) ==
  CASE p.kind = "search" -> [key \in {q.key : q \in p.queries} |-> SearchIdentity(p.db, CHOOSE q \in p.queries : q.key = key, p.org_type, p.limit)]
    [] p.kind = "grants" -> [role \in {"granter", "grantee"} |-> GrantSummaries(p.db, p.eins, role, p.min)]
    [] p.kind = "eligibility" -> SearchNonprofits(p.db, p.keywords, p.contrib, p.avg, p.num, p.min)

(***************************************************************************)
(* Properties.                                                             *)
(***************************************************************************)
WithoutMalformed(q) ==
  [q EXCEPT !.url = IF Signals(q).domain = "" THEN NotGiven ELSE @, !.ein = IF Signals(q).ein = "" THEN NotGiven ELSE @]

\* The three ways to look an organization up agree: a bulk search in chunks of any size gives each
\* key what a search of its own gives it, prefix matches included, and fails or drops the same
\* signals; matching in process over the streamed universe finds the organizations an unlimited
\* search finds.  A limit keeps the better tiers, and within one the later years.
IdentityReadsAgree ==
  Solved("search") =>
    /\ \A size \in 1..MaxQueries, mode \in {"raise", "skip"} :
         LET bulk == SearchIdentityBulk(problem.db, InOrder(problem.queries), problem.org_type, TRUE,
                                        problem.limit, size, mode)
             single(q) == SearchIdentity(problem.db, WithoutMalformed(q), problem.org_type, problem.limit)
         IN /\ bulk.raised <=> mode = "raise" /\ \E q \in problem.queries : Malformed(q)
            /\ ~bulk.raised =>
                 \A q \in problem.queries :
                   bulk.hits[q.key] = IF Signals(q) = NoSignal THEN <<>> ELSE single(q).hits
    /\ \A q \in problem.queries :
         ~answer[q.key].raised =>
           LET full == ToSet(SearchIdentity(problem.db, q, problem.org_type, NoNumber).hits)
               kept == ToSet(answer[q.key].hits)
               local == {u \in IdentityUniverse(problem.db, problem.org_type) :
                           SignalsOf(u.arm, u.org, Signals(q), TRUE) # {}}
           IN /\ {[org |-> h.org, arm |-> h.arm] : h \in full} = local
              /\ kept \subseteq full
              /\ Cardinality(kept) = IF problem.limit = NoNumber \/ problem.limit > Cardinality(full)
                                     THEN Cardinality(full) ELSE problem.limit
              /\ \A h \in kept, d \in full \ kept :
                   <<Tiers[d.signal], d.org.year>> # <<Tiers[h.signal], h.org.year>> =>
                     \/ Tiers[h.signal] > Tiers[d.signal]
                     \/ Tiers[h.signal] = Tiers[d.signal] /\ h.org.year > d.org.year

\* The two roll-ups are roll-ups of the grants read: the yearly summaries and the portfolio metrics
\* count and add the rows get_grants returns, each once, whatever the joins to the two canonical
\* tables bring, and a scope leaves the totals alone.
RollupsAreTheGrants ==
  Solved("grants") =>
    /\ \A role \in {"granter", "grantee"} :
         LET read == {r.grant : r \in GrantsOf(problem.db, problem.eins, role, problem.min)}
             amount(g) == g.amount
         IN ~answer[role].raised =>
              /\ {<<s.ein, s.year>> : s \in answer[role].hits} = {<<g[role], g.year>> : g \in read}
              /\ \A s \in answer[role].hits :
                   LET group == {g \in read : g[role] = s.ein /\ g.year = s.year}
                   IN /\ s.count = Cardinality(group)
                      /\ s.total = Total(Known(group, "amount"), amount)
                      /\ {i.ein : i \in s.granters} = {g.granter : g \in group} \ {""}
    /\ LET metrics == PortfolioMetrics(problem.db, problem.eins, {"5", "3"}, TRUE, problem.min, problem.max)
       IN ~metrics.raised =>
            \A m \in metrics.hits :
              LET read == {r.grant : r \in GrantsOf(problem.db, {m.ein}, "granter", NoNumber)}
                  within == {r.grant : r \in GrantsOf(problem.db, {m.ein}, "granter", problem.min)}
                  early(g) == problem.max # NoNumber => g.year # NoNumber /\ g.year =< problem.max
                  inScope == {g \in within : g.grantee \in {"5", "3"} /\ early(g)}
              IN /\ m.grants = Cardinality(read) /\ m.amount = SumOrNone(read)
                 /\ m.portfolio = Cardinality({g.grantee : g \in read} \ {""})
                 /\ m.scoped_amount = SumOrNone(inScope)
                 /\ m.grants > 0 => m.scoped_count = Cardinality({g.grantee : g \in inScope})

\* A funder has one identity in all the funder reads: the profiles, in batches of any size, hold one
\* record for each EIN asked for, under the name of get_funder_identities, which is the name of the
\* summaries; a profile's presence flags and text are those of the single lookups.
ProfilesAreIdentities ==
  Solved("grants") =>
    LET identities == FunderIdentities(problem.db, problem.eins)
    IN \A batch \in 1..2 :
         LET profiles == FunderProfiles(problem.db, problem.eins, batch)
         IN /\ profiles.raised = identities.raised
            /\ ~profiles.raised =>
                 /\ {[ein |-> p.ein, name |-> p.name, dbas |-> p.dbas] : p \in profiles.hits} = ToSet(identities.hits)
                 /\ \A p \in profiles.hits :
                      LET single == NonprofitOf(problem.db, p.ein)
                          hit == NonprofitsByEIN(problem.db, <<p.ein>>)[1]
                      IN /\ p.nonprofit <=> single # {}
                         /\ p.text = hit.text /\ \A n \in single : n.text = p.text /\ n.name = hit.name
                 /\ ~answer["granter"].raised =>
                      \A s \in answer["granter"].hits : s.granters \subseteq ToSet(identities.hits)

\* An eligibility filter is the filter a caller would write over the reads: it keeps an EIN whose
\* mean yearly contributions over get_basic_fields reach the threshold, as
\* find_eins_with_min_avg_contributions does, and whose yearly grant summaries do in number and
\* mean; a threshold of zero keeps every match, the filers of no year and no grant among them.
EligibilityIsTheReads ==
  Solved("eligibility") /\ ~answer.raised =>
    LET eins == {t.ein : t \in {x \in problem.db.texts : \E k \in problem.keywords : TextMatches(x.text, k) > 0}}
        years(ein) == BasicFields(problem.db, {ein}, problem.min)
        grants(ein) == GrantSummaries(problem.db, {ein}, "grantee", problem.min)
        total(r) == r.total
        count(r) == r.count
        kept == {h.ein : h \in answer.hits}
        gives(ein) == MeanReaches(years(ein), "cash", problem.contrib)
        receives(ein) ==
          LET summaries == grants(ein).hits
          IN /\ summaries # {} /\ Total(summaries, count) >= problem.num
             /\ Total(summaries, total) >= problem.avg * Cardinality(summaries)
    IN /\ problem.contrib > 0 =>
            kept \subseteq FindEinsWithMinAvg(problem.db, eins, "cash", problem.contrib, problem.min)
       /\ \A ein \in {e \in eins : ~grants(e).raised} :
            ein \in kept <=>
              /\ problem.contrib = 0 \/ gives(ein)
              /\ problem.num + problem.avg = 0 \/ receives(ein)

\* The reads of the client agree with each other: the ways to look an organization up, the roll-ups
\* with the grants, the profiles with the identities.
ReadsAgree == IdentityReadsAgree /\ RollupsAreTheGrants /\ ProfilesAreIdentities
=============================================================================
