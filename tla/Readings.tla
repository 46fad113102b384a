------------------------------ MODULE Readings ------------------------------
(***************************************************************************)
(* What the page_readings table promises its readers, whoever reads pages  *)
(* and however a run ends: a page once read keeps its reading; an error    *)
(* costs the page one attempt, and only a page with attempts left is sent  *)
(* to the model; a stored parse failure may become a reading at no cost.   *)
(***************************************************************************)
EXTENDS Naturals

CONSTANTS
  Keys,       \* keys of page_readings: a page and the model that reads it
  Answers,    \* what a model can return for a page
  MaxErrors,  \* max_errors
  None        \* SQL NULL

VARIABLE table     \* page_readings; NoRow where the key has no row

(* A row.  text is a stored parse failure: the answer a better parser      *)
(* reads in it.                                                            *)
Rows == [answer : Answers \cup {None}, errors : 0 .. MaxErrors, text : Answers \cup {None}]
NoRow == [answer |-> None, errors |-> 0, text |-> None]

Hit(row) == row.answer # None
OutOfAttempts(row) == ~Hit(row) /\ row.errors = MaxErrors

(* reading_from_result: a success keeps the errors before it, an error     *)
(* counts one more.                                                        *)
Answered(row, a) == [row EXCEPT !.answer = a]
Errored(row, t) == [answer |-> None, errors |-> row.errors + 1, text |-> t]
ResultsOf(row) == {Answered(row, a) : a \in Answers}
                    \cup {Errored(row, t) : t \in Answers \cup {None}}

Reparsable(row) == ~Hit(row) /\ row.text # None
Reparsed(row) == [row EXCEPT !.answer = row.text]

Init == table = [k \in Keys |-> NoRow]

(* One chunk of results is committed.                                      *)
Record(S) ==
  /\ \A k \in S : ~Hit(table[k]) /\ ~OutOfAttempts(table[k])
  /\ \E results \in [S -> Rows] :
       /\ \A k \in S : results[k] \in ResultsOf(table[k])
       /\ table' = [k \in Keys |-> IF k \in S THEN results[k] ELSE table[k]]

(* Parse failures that parse today are stored as readings.                 *)
Recover(S) ==
  /\ \A k \in S : Reparsable(table[k])
  /\ table' = [k \in Keys |-> IF k \in S THEN Reparsed(table[k]) ELSE table[k]]

Next == \E S \in SUBSET Keys : Record(S) \/ Recover(S)

Spec == Init /\ [][Next]_table

=============================================================================
