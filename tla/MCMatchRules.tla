---------------------------- MODULE MCMatchRules ----------------------------
(***************************************************************************)
(* MatchProblems on small universes of filers and grants.                  *)
(***************************************************************************)
EXTENDS MatchProblems, TLC

CONSTANTS
  MaxOrganizations,  \* bound: records of the filer universe in a matching problem
  MaxGrants,         \* bound: rows of the grants relation in one
  MaxRows            \* bound: the two together

(***************************************************************************)
(* Matching: names, places, records and grants.                            *)
(***************************************************************************)
Fund == "fund"           \* "US Fund"
FundInc == "inc"         \* "US Fund, Inc.": the same name, cleaned
DottedFund == "u.s."     \* "U.S. Fund": the same name, normalized, and another, cleaned
Funds == "funds"         \* "US Funds": another name, one letter off (of a name long enough, 99 in 100)
FundWest == "west"       \* "US Fund West": holds the words of the first
Brac == "brac"
Univ == "univ"           \* "University of X"
UnivClub == "club"       \* "University of X Club"
See == "see"

MCCleanName ==
  (Fund :> <<"us", "fund">>) @@ (FundInc :> <<"us", "fund">>) @@ (DottedFund :> <<"u", "s", "fund">>) @@ (Funds :> <<"us", "funds">>)
    @@ (FundWest :> <<"us", "fund", "west">>) @@ (Brac :> <<"brac">>)
    @@ (Univ :> <<"university", "of", "x">>) @@ (UnivClub :> <<"university", "of", "x", "club">>)
    @@ (See :> <<"see">>) @@ ("" :> <<>>)

MCNameScore(n, m) ==
  IF n = m THEN 100
  ELSE CASE {n, m} = {Fund, DottedFund} -> 100
         [] {n, m} \in {{Fund, FundInc}, {DottedFund, FundInc}} -> 94
         [] {n, m} \in {{Fund, Funds}, {DottedFund, Funds}} -> 99
         [] {n, m} = {FundInc, Funds} -> 92
         [] {n, m} \in {{Fund, FundWest}, {DottedFund, FundWest}} -> 88
         [] {n, m} = {Univ, UnivClub} -> 91
         [] OTHER -> 45

Place(line, city, state, zip) == [line |-> line, city |-> city, state |-> state, zip |-> zip]
Main == Place("1 main st", "nyc", "ny", "10001")
Box == Place("box 2", "nyc", "ny", "10002")
Upstate == Place("5 elm", "albany", "n.y.", "12201")
Suite == Place("9 oak", "nyc", "ny", "10001")
Dept == Place("dept nyc", "nyc", "ny", "10002")
Jersey == Place("1 main st", "newark", "nj", "10001")
Nowhere == Place("", "", "", "")
Spelled == Place("1 main st", "nyc", "new york", "10001")
Newark == Place("7 ash", "newark", "nj", "07101")
Geneva == Place("rue x", "geneva", "geneva", "1218")
ListMain == Place("1 main st", "", "ny", "10001")   \* as a recovered grant prints it
ListMainLong == Place("1 main st", "", "ny", "10001-2345")   \* the same, as a line of the registry may write it
Oxford == Place("4 high st", "oxford", "oxon", "ox4 2")
OxfordFull == Place("4 high st", "oxford", "oxon", "OX4 2JY")
ListCity == Place("dept nyc", "", "ny", "")

MCAddressScore(p, q) ==
  LET same(part, points) == IF p[part] = q[part] /\ p[part] # "" THEN points ELSE 0
      equal == [p EXCEPT !.zip = ""] = [q EXCEPT !.zip = ""]
  IN IF ~Addressed(p) \/ ~Addressed(q) THEN 0
     ELSE IF equal THEN 100 ELSE same("line", 70) + same("city", 15) + same("state", 15)

MCStreets == {"1 main st", "box 2", "5 elm", "9 oak", "7 ash", "4 high st"}
MCLineEndsIn == [l \in MCStreets \cup {"", "rue x", "dept nyc"} |-> IF l = "dept nyc" THEN {"nyc"} ELSE {}]
MCStateCode ==
  ("ny" :> "NY") @@ ("n.y." :> "NY") @@ ("nj" :> "NJ") @@ ("new york" :> "NEWYORK") @@ ("geneva" :> "GENEVA") @@ ("oxon" :> "OXON") @@ ("" :> "")
MCUSStates == {"ny", "n.y.", "nj", "new york"}
MCGovernment == {Univ, UnivClub}
MCBanks == {}
MCPointers == {See}
MCStopWords == {"of"}
MCWordTwins == {<<"fund", "funds">>, <<"funds", "fund">>}
MCForeignEINs == {98}

Order == <<"", Brac, UnivClub, Fund, Funds, See, DottedFund, Univ, FundInc, FundWest>>
PlaceOrder ==
  <<Nowhere, ListMain, ListMainLong, Main, Spelled, Jersey, Upstate, Box, Suite, Dept, Newark, ListCity, Geneva,
    Oxford, OxfordFull>>
MCPlaces ==
  {Nowhere, ListMain, ListMainLong, Main, Spelled, Jersey, Upstate, Box, Suite, Dept, Newark, ListCity, Geneva,
   Oxford, OxfordFull}
Zips == {"", "10001", "10001-2345", "10002", "12201", "07101", "1218", "ox4 2", "OX4 2JY"}
MCFiveDigits ==
  [z \in Zips |->
     CASE z = "" -> "00000" [] z = "1218" -> "01218" [] z = "10001-2345" -> "10001" [] z = "OX4 2JY" -> "no zip"
       [] OTHER -> z]
MCFirstFive ==
  [z \in Zips |-> CASE z = "10001-2345" -> "10001" [] z = "OX4 2JY" -> "ox4 2" [] OTHER -> z]
At(seq, x) == CHOOSE i \in DOMAIN seq : seq[i] = x
MCKeyBefore(r, s) ==
  Higher(<<s.ein, At(Order, s.name), At(PlaceOrder, s.place)>>,
         <<r.ein, At(Order, r.name), At(PlaceOrder, r.place)>>)

Filing(form, ein, name, place) ==
  [arm |-> form, ein |-> ein, name |-> name, place |-> place, recent |-> TRUE]
Bmf(ein, name, sort, place, subordinate) ==
  [arm |-> "bmf", ein |-> ein, name |-> name, sort |-> sort, place |-> place, subordinate |-> subordinate]
Correction(ein, name, place) ==
  [arm |-> "corrections", ein |-> ein, name |-> name, place |-> place, documented |-> TRUE,
   twoLetters |-> place.state \in {"ny", "nj"}]

Organizations ==
  {Filing("filings", 1, Fund, Main), Filing("filings", 2, Fund, Dept), Filing("filings", 3, FundWest, Main),
   Filing("filings", 4, Funds, Suite), Filing("filings", 4, Funds, Newark),
   Filing("filings", 5, FundInc, Box), Filing("filings", 5, FundInc, Upstate),
   Filing("filings", 2, DottedFund, Main),
   Filing("filings", 6, UnivClub, Main), Filing("pf", 7, Brac, Main), Filing("pf", 98, Brac, Geneva),
   Bmf(9, Fund, "", Main, FALSE), Bmf(1, UnivClub, Fund, Upstate, FALSE), Bmf(8, Univ, Brac, Upstate, TRUE),
   Correction(9, Fund, Main), Correction(9, Fund, ListMainLong), Correction(8, Univ, Main), Correction(8, Univ, Spelled),
   Correction(5, Brac, Geneva), Correction(2, DottedFund, OxfordFull)}

Grant(id, name, place, abroad, recovered) ==
  [id |-> id, filing |-> 1, name |-> name, place |-> place, abroad |-> abroad, recent |-> TRUE,
   amount |-> 100, recovered |-> recovered,
   row_source |-> IF recovered = <<>> THEN "privategrants_current" ELSE "placeholder_recovery"]

Grants ==
  {Grant(1, Fund, Main, FALSE, <<>>), Grant(2, Fund, ListMain, FALSE, <<1, 1, 1>>),
   Grant(3, Fund, ListMain, FALSE, <<1, 1, 2>>), Grant(4, Fund, ListCity, FALSE, <<1, 2, 1>>),
   Grant(5, FundInc, Nowhere, FALSE, <<1, 2, 2>>), Grant(6, Brac, Geneva, TRUE, <<>>),
   Grant(7, Univ, Main, FALSE, <<>>), Grant(8, FundWest, Jersey, FALSE, <<>>),
   Grant(9, See, Main, FALSE, <<>>), Grant(10, Brac, Nowhere, TRUE, <<>>),
   Grant(11, Fund, Jersey, FALSE, <<>>), Grant(12, Fund, Oxford, TRUE, <<>>)}

MatchingProblem(orgs, grants) ==
  [kind |-> "matching", grants |-> grants,
   db |-> [filings |-> {o \in orgs : o.arm = "filings"}, pf |-> {o \in orgs : o.arm = "pf"},
           bmf |-> {o \in orgs : o.arm = "bmf"}, corrections |-> {o \in orgs : o.arm = "corrections"}]]

MatchingProblems ==
  {MatchingProblem(orgs, grants) :
     <<orgs, grants>> \in {d \in UpTo(MaxOrganizations, Organizations) \X UpTo(MaxGrants, Grants) :
                            Cardinality(d[1]) + Cardinality(d[2]) <= MaxRows}}

\* With a correction that is not valid the run raises.
AMatchingProblem ==
  /\ problem \in MatchingProblems
  /\ \A c \in problem.db.corrections : ValidCorrection(c)

\* What the theorems on matching ask of a problem is so of these.
ASSUME ProblemsPosed ==
    \A p \in MatchingProblems : (\A c \in p.db.corrections : ValidCorrection(c)) => Posed(p)
=============================================================================
