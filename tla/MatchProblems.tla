---------------------------- MODULE MatchProblems ----------------------------
(***************************************************************************)
(* What MatchRules is asked, a filer universe and the grants to match to   *)
(* it, and what its answers and those of the tools beside it promise.      *)
(***************************************************************************)
EXTENDS MatchRules, RuleProblems

\* A zip as the views cut it.
ZipsCut(S) == \A r \in S : ZipCut(r.place) = r.place

\* A table of names and places, and a relation of grants, with the key of a recovered row.
NamedRows(S) == IsFiniteSet(S) /\ \A r \in S : r.name \in DOMAIN CleanName /\ r.place \in Places
Keyed(grants) ==
  /\ \A r, s \in grants : r.id = s.id \/ (r.recovered # <<>> /\ r.recovered = s.recovered) => r = s
  /\ \A r \in grants : r.row_source = "placeholder_recovery" <=> r.recovered # <<>>

\* The views' order, on the rows of a universe.
ViewsOrder(rows) ==
  /\ \A r \in rows : ~KeyBefore(r, r)
  /\ \A r, s \in rows : r # s => KeyBefore(r, s) \/ KeyBefore(s, r)
  /\ \A r, s, t \in rows : KeyBefore(r, s) /\ KeyBefore(s, t) => KeyBefore(r, t)

\* The inputs a run can be given: finite tables, each row of a known name and place (a BMF record of
\* a sort name too), lines of the registry the run does not raise at, rows the views can order.
Posed(p) ==
  /\ p.kind = "matching" /\ DOMAIN p.db = {"filings", "pf", "bmf", "corrections"}
  /\ \A arm \in DOMAIN p.db : NamedRows(p.db[arm])
  /\ \A r \in p.db.bmf : r.sort \in DOMAIN CleanName
  /\ ZipsCut(p.grants) /\ \A arm \in DOMAIN p.db \ {"corrections"} : ZipsCut(p.db[arm])
  /\ \A c \in p.db.corrections : ValidCorrection(c) /\ (c.twoLetters => c.place.state # "")
  /\ NamedRows(p.grants) /\ Keyed(p.grants)
  /\ ViewsOrder(Universe(p.db))

Matching(p) ==
  LET universe == Universe(p.db)
      tuples == GrantTuples(p.grants)
      features == ScoreSlice(universe, tuples)
  IN [universe |-> universe, tuples |-> tuples,
      matches |-> AllMatches(features, universe, tuples, "named_first"),
      weighted |-> AllMatches(features, universe, tuples, "weighted")]

MatchStep == problem.kind = "matching" /\ answer' = Matching(problem)

MatchSpec ==
  /\ Posed(problem) /\ answer = Unanswered
  /\ [][answer = Unanswered /\ MatchStep /\ UNCHANGED problem]_<<problem, answer>>

(***************************************************************************)
(* Properties.                                                             *)
(***************************************************************************)
\* The preflight of the corrections registry scores a slice of the universe and of the grants for
\* each family of correction lines (corrections_preflight.py): the winners it reports are the
\* winners of the full run for the tuples of its slice, and every tuple the run gives to one of
\* the family's lines is in the slice.
PreflightIsTheRun ==
  Solved("matching") =>
    \A ein \in {c.ein : c \in problem.db.corrections} :
      LET family == {c \in CorrectionRows(problem.db.corrections) : c.ein = ein}
          slice == FamilyGrants(family, answer.tuples)
      IN /\ Preflight(family, answer.universe, answer.tuples)
              = {m \in answer.matches : m.tuple \in slice}
         /\ \A m \in answer.matches :
              m.row.source = "correction" /\ m.row.ein = ein => m.tuple \in slice

\* Chunks are saved filtered by looser rules than those that decide, so that a run can tighten its
\* rules over old chunks: the saved pairs hold every pair the decision would have used.
ChunksHoldTheMatches ==
  Solved("matching") =>
    LET unfiltered == {Feature(p[1], p[2]) : p \in CandidatePairs(answer.universe, answer.tuples)}
    IN answer.matches = AllMatches(unfiltered, answer.universe, answer.tuples, "named_first")

\* Refusing the pairs of a shared name before the winner is picked only adds matches: a tuple the
\* old order matches, which refuses its winner, is matched by the order that replaced it.
EarlyRefusalOnlyAdds ==
  Solved("matching") => {m.tuple : m \in answer.weighted} \subseteq {m.tuple : m \in answer.matches}

\* A name that two filers carry never decides alone: a tuple without a street address is matched
\* on its name, with or without its state, only when one EIN of the universe holds it there.
SharedNamesDecideNothing ==
  Solved("matching") =>
    \A m \in answer.matches \cup answer.weighted :
      m.tier # "address_and_name" /\ m.tuple.place.line \notin Streets =>
        LET namesakes == {u \in answer.universe : FullName(u) = FullName(m.tuple) /\ FullName(u) # <<>>}
            around == IF m.tier = "name_only" THEN namesakes
                      ELSE {u \in namesakes : u.place.state = m.tuple.place.state}
        IN Cardinality({u.ein : u \in around} \cup {m.row.ein}) = 1

\* A correction line with a word and a zip decides the tuple it was written from
\* (docs/corrections-plan.md, the preflight's check b): the tuple is won to the line's EIN, unless
\* a row of another EIN has full marks too: the same name, cleaned or normalized, at the same address.
CorrectionsDecide ==
  Solved("matching") =>
    \A c \in {x \in CorrectionRows(problem.db.corrections) : FullName(x) # <<>> /\ CleanZip(x.place.zip) # "00000"} :
      LET twin(u) == /\ FullName(u) = FullName(c) \/ NameScore(u.name, c.name) = 100
                     /\ AddressScore(u.place, c.place) = 100
      IN (\A u \in answer.universe : twin(u) => u.ein = c.ein)
           => VerbatimWon(c, answer.tuples, answer.matches)

\* What the explainer says of an EIN when some of its lines are tried and not in the registry is what
\* the matcher does with them there: "would match" of a tuple exactly when a universe of the EIN's
\* rows would match it by a rule on pairs.
SaidAsDone(ein, added) ==
  LET keys == {KeyOf(r) : r \in {x \in problem.grants : x.recent /\ x.name # NoName}}
      told == Explain([problem.db EXCEPT !.corrections = @ \ added], ein, added, keys)
      rows == {u \in answer.universe : u.ein = ein}
      run(g) == AllMatches(ScoreSlice(rows, {g}), rows, {g}, "named_first")
  IN /\ told.raised <=> keys = {}
     /\ {e.tuple : e \in {x \in told.pairs : x.would_match}}
          = {KeyOf(g) : g \in {x \in answer.tuples : \E m \in run(x) : m.tier # "name_only"}}

LinesOf(ein) == {c \in problem.db.corrections : c.ein = ein}

\* A line whose zip means the same, cleaned, as written and as cut: no postcode of six to eight
\* characters, which means nothing as written.
SaysItsZip(c) == CleanZip(c.place.zip) = CleanZip(FirstFive[c.place.zip])

\* Of the grants a run reads the explainer's verdict on an EIN is the matcher's, with its lines in
\* the registry and with one of them tried before it is there, where that line's zip means the same
\* cut and uncut; of the run there was it shows the EIN a tuple went to (match_explainer.py).
ExplainerIsTheMatcher ==
  Solved("matching") =>
    LET joined == WithRecipients(problem.grants, answer.matches)
    IN /\ \A ein \in {u.ein : u \in answer.universe}, added \in UpTo(1, problem.db.corrections) :
            added \subseteq LinesOf(ein) /\ (\A c \in added : SaysItsZip(c)) => SaidAsDone(ein, added)
       /\ \A m \in answer.matches : m.row.ein \in CurrentMatch(KeyOf(m.tuple), problem.grants, joined)

\* "Would this correction fix it?" is answerable before editing the registry (match_explainer.py's
\* opening comment): what the explainer says of any line tried is what the matcher does with it.
\* TLC refutes it: a disagreement, not a property that is claimed (README).
TriedLinesAreTheRegistrys ==
  Solved("matching") =>
    \A ein \in {u.ein : u \in answer.universe}, added \in UpTo(1, problem.db.corrections) :
      added \subseteq LinesOf(ein) => SaidAsDone(ein, added)

\* The join of the matches to the grants gives each grant one recipient, and the union that drops
\* equal rows keeps every recovered grant: two payments the list repeats stay two.
JoinKeepsRecoveredGrants ==
  Solved("matching") =>
    LET joined == WithRecipients(problem.grants, answer.matches)
        recovered == {w \in joined : w.grant.row_source = "placeholder_recovery"}
    IN /\ \A v, w \in joined : v.grant.id = w.grant.id => v = w
       /\ Cardinality({u \in UnionedGrants(joined) : u.row_source = "placeholder_recovery"}) = Cardinality(recovered)

\* The tools beside the matcher decide as it does: the preflight over its slice, the explainer over
\* one EIN, and a run that reads the chunks another saved.
ToolsAreTheMatcher == PreflightIsTheRun /\ ExplainerIsTheMatcher /\ ChunksHoldTheMatches

\* One filer decides a tuple: no shared name does, refusing shared names early loses no match, and
\* a correction decides the tuple it was written from.
OneFilerDecides == EarlyRefusalOnlyAdds /\ SharedNamesDecideNothing /\ CorrectionsDecide
=============================================================================
