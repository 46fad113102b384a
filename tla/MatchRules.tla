----------------------------- MODULE MatchRules -----------------------------
(***************************************************************************)
(* What the grant matcher decides (grant_matching.py), as operators on the *)
(* rows it reads: the filer universe and the grant tuples its views make,  *)
(* the blocks and scores, the rules and guards, the winner of a tuple, the *)
(* name-only tier, and the join that carries the matches to the grants.    *)
(* Beside them, the two tools that repeat those decisions on a slice:      *)
(* corrections_preflight.py and match_explainer.py.                        *)
(*                                                                         *)
(* Strings are members of small sets.  What the code computes from one is  *)
(* a constant: its cleaned name, the similarity of two, the state it says. *)
(* Scores are in percent.                                                  *)
(***************************************************************************)
EXTENDS Integers, Sequences, FiniteSets, Functions

CONSTANTS
  CleanName,       \* business name |-> its words, cleaned (clean_name); <<>> when no letter or digit
  NoName,          \* the business name of a row that has none
  Government,      \* business names that start as a government's or a public institution's
  Banks,           \* business names that are a trustee's or a bank's
  Pointers,        \* business names that point at an attachment (PLACEHOLDER_REGEX)
  StopWords,       \* words that carry no identity
  WordTwins,       \* pairs of words, one a truncation, an abbreviation or a typo of the other
  NameScore(_, _),    \* Jaro-Winkler of two normalized names
  Places,             \* places rows give, each [line, city, state, zip], "" when absent
  FiveDigits,         \* zip |-> its five digits, zeros in front; 00000 for none; NoZip where it has none
  NoZip,              \* what clean_zip makes of a zip longer than five that is no US one: no zip at all
  FirstFive,          \* zip as a line of the registry writes it |-> its first five characters
  AddressScore(_, _), \* Levenshtein of two places' addresses
  Streets,         \* address lines with a digit in them
  LineEndsIn,      \* address line |-> the cities its last words may name
  StateCode,       \* state as written |-> its code, letters and digits only; "" for none
  USStates,        \* states as written that name a US state or territory
  ForeignEINs,     \* EINs of the IRS's prefix for foreign organizations, 98-
  KeyBefore(_, _)  \* the views' order of key tuples

\* The address compared is a place's line, city and state; where there is none the score is 0.
Addressed(place) == place.line # "" \/ place.city # "" \/ place.state # ""

\* The registry's view, and the preflight in its place, cut a line's zip to five characters.
ZipCut(place) == [place EXCEPT !.zip = FirstFive[place.zip]]

\* Scores are in percent, an address is all like itself, and a zip is no part of it; a zip cut is a zip.
ASSUME ScoresAssumption ==
    /\ \A n, m \in DOMAIN CleanName : NameScore(n, m) \in 0..100
    /\ Places \subseteq [line : STRING, city : STRING, state : STRING, zip : STRING]
    /\ \A p \in Places : ZipCut(p) \in Places /\ FiveDigits[ZipCut(p).zip] # NoZip
    /\ \A p, q \in Places :
         /\ AddressScore(p, q) \in 0..100
         /\ AddressScore(p, q) > 0 => Addressed(p) /\ Addressed(q)
         /\ Addressed(p) => AddressScore(p, p) = 100
         /\ \A z \in Places : [z EXCEPT !.zip = q.zip] = q =>
              AddressScore(p, z) = AddressScore(p, q) /\ AddressScore(z, p) = AddressScore(q, p)

(***************************************************************************)
(* The views.  The zips of filings, records and grants are given as their  *)
(* views cut them; a line of the registry has its own as it was written,   *)
(* for the view is not its only reader.                                    *)
(***************************************************************************)
\* basic_fields_unique_names_view and its PF twin.
FilerRows(filings) ==
  {[ein |-> f.ein, name |-> f.name, place |-> f.place] : f \in {x \in filings : x.recent}}

\* eo_bmf_unique_names_view: the name of record and the sort name, each a row of its own.
BmfRows(records) ==
  LET hostsName(r) == r.sort # NoName /\ r.subordinate /\ r.name \in Government
      ownSort(r) == r.sort \notin {NoName, r.name} \cup Banks \cup Government
      row(r, name) == [ein |-> r.ein, name |-> name, place |-> r.place]
  IN {row(r, r.name) : r \in {x \in records : x.name # NoName /\ ~hostsName(x)}}
       \cup {row(r, r.sort) : r \in {x \in records : ownSort(x)}}

\* One line of the registry: an EIN, a name, a state and a zip that can meet a grant's.
ValidCorrection(c) ==
  /\ c.ein # 0 /\ c.name # NoName /\ c.documented
  /\ (c.twoLetters \/ (c.place.state # "" /\ c.place.state \notin USStates))
  /\ c.place.zip # ""

CorrectionRows(lines) == {[ein |-> c.ein, name |-> c.name, place |-> ZipCut(c.place)] : c \in lines}

SourceRank == [basic_fields |-> 1, basic_fields_pf |-> 2, correction |-> 3, eo_bmf |-> 4]

Arms(db) ==
  [basic_fields |-> FilerRows(db.filings), basic_fields_pf |-> FilerRows(db.pf),
   correction |-> CorrectionRows(db.corrections), eo_bmf |-> BmfRows(db.bmf)]

\* One row per key tuple of the four arms, from the arm that ranks first.
Universe(db) ==
  LET arms == Arms(db)
      holders(r) == {s \in DOMAIN arms : r \in arms[s]}
      first(r) == CHOOSE s \in holders(r) : \A t \in holders(r) : SourceRank[s] =< SourceRank[t]
  IN {[ein |-> r.ein, name |-> r.name, place |-> r.place, source |-> first(r)] :
        r \in UNION {arms[s] : s \in DOMAIN arms}}

KeyOf(r) == [name |-> r.name, place |-> r.place]

\* privategrants_unique_names_view: the tuples of recent grants to a business that is named.
GrantTuples(grants) ==
  LET read == {r \in grants : r.recent /\ r.name # NoName /\ r.name \notin Pointers}
  IN {[name |-> k.name, place |-> k.place,
       foreign_country |-> \E r \in read : KeyOf(r) = k /\ r.abroad] : k \in {KeyOf(r) : r \in read}}

(***************************************************************************)
(* Blocks and scores.                                                      *)
(***************************************************************************)
FullName(r) == CleanName[r.name]
CleanZip(zip) == FiveDigits[zip]
HasAddress(r) == Addressed(r.place)

SameBlockZip(u, g) ==
  /\ HasAddress(u) /\ HasAddress(g)
  /\ CleanZip(u.place.zip) = CleanZip(g.place.zip)

\* Blocking by state for blocking by name: a mutation.
CandidatePairsByState(universe, tuples) ==
  {p \in universe \X tuples : SameBlockZip(p[1], p[2]) \/ p[1].place.state = p[2].place.state}

CandidatePairs(universe, tuples) ==
  {p \in universe \X tuples : SameBlockZip(p[1], p[2]) \/ FullName(p[1]) = FullName(p[2])}

Feature(u, g) ==
  LET sameName == FullName(u) = FullName(g) /\ FullName(g) # <<>>
  IN [row |-> u, tuple |-> g,
      name |-> IF sameName THEN 100 ELSE NameScore(u.name, g.name),
      addr |-> AddressScore(u.place, g.place),
      zip |-> CleanZip(u.place.zip) = CleanZip(g.place.zip),
      state |-> u.place.state # "" /\ u.place.state = g.place.state]

CHUNK_FILTER_RULES ==
  [nearName |-> <<95, 35>>, nearAddress |-> <<75, 75>>, goodEnough |-> <<55, 85>>, exactName |-> 95]
FINAL_FILTER_RULES ==
  [nearName |-> <<99, 50>>, nearAddress |-> <<85, 85>>, goodEnough |-> <<70, 90>>, exactName |-> 99]

Reaches(f, minima) == f.name >= minima[1] /\ f.addr >= minima[2]

ByAddress(f, rules) ==
  Reaches(f, rules.nearName) \/ Reaches(f, rules.nearAddress) \/ Reaches(f, rules.goodEnough)

PassesRules(f, rules) == ByAddress(f, rules) \/ (f.name >= rules.exactName /\ f.state)

ScoreSlice(universe, tuples) ==
  {f \in {Feature(p[1], p[2]) : p \in CandidatePairs(universe, tuples)} :
     PassesRules(f, CHUNK_FILTER_RULES)}

(***************************************************************************)
(* The guards and the winner of a tuple.                                   *)
(***************************************************************************)
ExactName == FINAL_FILTER_RULES.exactName

TokenCovered(word, words) == \E w \in words : w = word \/ <<w, word>> \in WordTwins

GovernmentRefusal(f) ==
  LET tokens(name) == Range(CleanName[name]) \ StopWords
  IN /\ f.name < ExactName
     /\ f.tuple.name \in Government
     /\ \E word \in tokens(f.row.name) : ~TokenCovered(word, tokens(f.tuple.name))

\* The tier of geographic support: 3 local, 2 the state, 1 unknown, 0 a conflict.
LocationAgreement(f) ==
  LET u == f.row.place
      g == f.tuple.place
      zip(place) == CleanZip(place.zip)
      sameState == StateCode[u.state] # "" /\ StateCode[u.state] = StateCode[g.state]
      sameZip == zip(u) # "00000" /\ zip(u) = zip(g)
      sameCity == u.city # "" /\ (u.city = g.city \/ (g.city = "" /\ u.city \in LineEndsIn[g.line]))
      local == (sameCity /\ (sameState \/ sameZip)) \/ (sameZip /\ f.addr >= 90)
  IN CASE local -> 3
       [] ~local /\ sameState -> 2
       [] ~local /\ ~sameState /\ StateCode[u.state] # "" /\ StateCode[g.state] # "" -> 0
       [] OTHER -> 1

NamesHeld(f) == FullName(f.tuple) # <<>> /\ Range(FullName(f.tuple)) \subseteq Range(FullName(f.row))

Bit(condition) == IF condition THEN 1 ELSE 0

RankKey(f, ranking) ==
  LET exact == f.name >= ExactName
      combined == 2 * f.name + f.addr
      tier == LocationAgreement(f)
  IN IF ranking = "weighted" THEN <<combined>>
     ELSE <<Bit(tier > 0), Bit(exact \/ NamesHeld(f)), tier, Bit(exact),
            Bit(exact /\ f.row.source # "eo_bmf"), combined>>

Higher(a, b) == \E i \in DOMAIN a : a[i] > b[i] /\ \A j \in 1..(i - 1) : a[j] = b[j]

\* The pair that sorts first: the sort is stable and the pairs come in the universe's order.
Winner(pairs, ranking) ==
  CHOOSE f \in pairs :
    \A h \in pairs \ {f} :
      \/ Higher(RankKey(f, ranking), RankKey(h, ranking))
      \/ RankKey(f, ranking) = RankKey(h, ranking) /\ KeyBefore(f.row, h.row)

\* EINs the exact-name tier accepts for the tuple.
FilersInState(pairs, g) == {f.row.ein : f \in {x \in pairs : x.tuple = g /\ x.name >= ExactName /\ x.state}}

OneFilerRefused(f, pairs) ==
  /\ ~ByAddress(f, FINAL_FILTER_RULES)
  /\ Cardinality(FilersInState(pairs, f.tuple)) > 1
  /\ f.tuple.place.line \notin Streets

Match(f) == [row |-> f.row, tuple |-> f.tuple, words |-> 0,
             tier |-> IF ByAddress(f, FINAL_FILTER_RULES) THEN "address_and_name" ELSE "state_and_name"]

\* Every pair of a refused tuple refused: a mutation.
EarlyRefusedTuples(final, ranking) ==
  {f \in final : ranking # "weighted" /\ \E h \in final : h.tuple = f.tuple /\ OneFilerRefused(h, final)}

\* Under "weighted" the rule looks at the winner only.
EarlyRefused(final, ranking) == {f \in final : ranking # "weighted" /\ OneFilerRefused(f, final)}

ResolveMatches(features, ranking) ==
  LET final == {f \in features : PassesRules(f, FINAL_FILTER_RULES)
                                 /\ f.tuple.name \notin Pointers /\ ~GovernmentRefusal(f)}
      early == final \ EarlyRefused(final, ranking)
      winners == {Winner({f \in early : f.tuple = g}, ranking) : g \in {f.tuple : f \in early}}
  IN {Match(f) : f \in {w \in winners : ~OneFilerRefused(w, final)}}

(***************************************************************************)
(* The name-only tier, and a run.                                          *)
(***************************************************************************)
NoUSAddress(g) == g.place.state \notin USStates \/ g.foreign_country

OneWordNamesake(g, u) ==
  /\ NoUSAddress(g) /\ (g.place.state # "" \/ g.place.zip # "")
  /\ Len(FullName(g)) = 1
  /\ u.place.state \in USStates
  /\ u.ein \notin ForeignEINs

NameOnlyMatches(universe, tuples, matched) ==
  LET named(g) == {u \in universe : FullName(u) = FullName(g)}
      first(g) == CHOOSE u \in named(g) : \A v \in named(g) \ {u} : KeyBefore(u, v)
      open == {g \in tuples \ matched : NoUSAddress(g) /\ FullName(g) # <<>> /\ g.name \notin Pointers}
      found == {g \in open : Cardinality({u.ein : u \in named(g)}) = 1}
  IN {[row |-> first(g), tuple |-> g, tier |-> "name_only", words |-> Len(FullName(g))] :
        g \in {x \in found : ~OneWordNamesake(x, first(x))}}

AllMatches(features, universe, tuples, ranking) ==
  LET matches == ResolveMatches(features, ranking)
  IN matches \cup NameOnlyMatches(universe, tuples, {m.tuple : m \in matches})

MatchSlice(universe, tuples) ==
  AllMatches(ScoreSlice(universe, tuples), universe, tuples, "named_first")

(***************************************************************************)
(* The outputs.  A physical row of a grants relation has an id of its own. *)
(***************************************************************************)
MatchedTuples(matches) ==
  {[ein |-> m.row.ein, key |-> KeyOf(m.tuple), source |-> m.row.source, tier |-> m.tier,
    words |-> m.words] : m \in matches}

WithRecipients(grants, matches) ==
  {[grant |-> p[1], match |-> p[2]] :
     p \in {q \in grants \X MatchedTuples(matches) : KeyOf(q[1]) = q[2].key}}

\* The ordinal left out of the key: a mutation.
UnionedColumnsPerPage(w) ==
  [filing |-> w.grant.filing, name |-> w.grant.name, place |-> w.grant.place,
   amount |-> w.grant.amount, grantee |-> w.match.ein, source |-> w.match.source,
   tier |-> w.match.tier, words |-> w.match.words,
   row_source |-> w.grant.row_source, recovered |-> [i \in DOMAIN w.grant.recovered \ {3} |-> w.grant.recovered[i]]]

\* The columns of unioned_grants a private foundation's row gives, with the key of a recovered row
\* (object, page, ordinal): UNION keeps one of equal rows.
UnionedColumns(w) ==
  [filing |-> w.grant.filing, name |-> w.grant.name, place |-> w.grant.place,
   amount |-> w.grant.amount, grantee |-> w.match.ein, source |-> w.match.source,
   tier |-> w.match.tier, words |-> w.match.words,
   row_source |-> w.grant.row_source, recovered |-> w.grant.recovered]

UnionedGrants(recipients) == {UnionedColumns(w) : w \in recipients}

(***************************************************************************)
(* corrections_preflight.py: the slice of one EIN's correction lines.      *)
(***************************************************************************)
FamilyGrants(family, tuples) ==
  {g \in tuples : \E c \in family : NameScore(c.name, g.name) >= 70 \/ FullName(c) = FullName(g)}

FamilyUniverse(family, universe, slice) ==
  {u \in universe : \E x \in slice \cup family :
     CleanZip(u.place.zip) = CleanZip(x.place.zip) \/ FullName(u) = FullName(x)}

Preflight(family, universe, tuples) ==
  LET slice == FamilyGrants(family, tuples)
  IN MatchSlice(FamilyUniverse(family, universe, slice), slice)

\* (b) of the preflight, for one line: its verbatim tuples are won to its EIN.
VerbatimWon(c, tuples, winners) ==
  LET verbatim(g) == /\ g.name = c.name /\ CleanZip(g.place.zip) = CleanZip(c.place.zip)
                     /\ [g.place EXCEPT !.zip = c.place.zip] = c.place
  IN \A g \in {x \in tuples : verbatim(x)} : \E m \in winners : m.tuple = g /\ m.row.ein = c.ein

(***************************************************************************)
(* match_explainer.py: why does a grant match an EIN, or not?              *)
(***************************************************************************)
\* Every row the arms hold of the EIN, and the line to try as a correction: the tool leaves its zip
\* as it was written.
ExplainerRows(db, ein, tried) ==
  {[ein |-> ein, name |-> c.name, place |-> c.place, source |-> "hypothetical"] : c \in tried} \cup
  UNION {{[ein |-> ein, name |-> r.name, place |-> r.place, source |-> s] :
            r \in {x \in Arms(db)[s] : x.ein = ein}} : s \in DOMAIN Arms(db)}

\* Would blocking make the pair?
BlockedVia(f) ==
  {via \in {"zip", "name"} : IF via = "zip" THEN f.zip ELSE FullName(f.row) = FullName(f.tuple)}

ExplainedMatch(f) ==
  /\ PassesRules(f, FINAL_FILTER_RULES) /\ ~GovernmentRefusal(f)
  /\ BlockedVia(f) # {}
  /\ f.tuple.name \notin Pointers

ExplainedPair(f) ==
  [row |-> f.row, tuple |-> f.tuple, blocked |-> BlockedVia(f), would_match |-> ExplainedMatch(f),
   guard_refused |-> PassesRules(f, FINAL_FILTER_RULES) /\ GovernmentRefusal(f),
   placeholder_refused |-> f.tuple.name \in Pointers]

\* Who the last run gave a tuple to, found through a few columns of its rows.
CurrentMatch(key, grants, joined) ==
  LET alike(r, w) == /\ r.filing = w.grant.filing /\ r.amount = w.grant.amount /\ r.name = w.grant.name
                     /\ r.place.line = w.grant.place.line
  IN {w.match.ein : w \in {x \in joined : \E r \in grants : KeyOf(r) = key /\ alike(r, x)}}

\* explain_row and explain_family: each pair of the EIN's rows with the tuples asked about.
Explain(db, ein, tried, keys) ==
  LET rows == ExplainerRows(db, ein, tried)
  IN [raised |-> rows = {} \/ keys = {}, pairs |-> {ExplainedPair(Feature(p[1], p[2])) : p \in rows \X keys}]
=============================================================================
