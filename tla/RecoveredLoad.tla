--------------------------- MODULE RecoveredLoad ----------------------------
(***************************************************************************)
(* placeholder_recovery/work_list.py, loader.py and view.py: the list of   *)
(* filings whose grants sit behind a placeholder row, the load of the      *)
(* grants read from their attachments, and the view that shows them in     *)
(* the placeholder's place.                                                *)
(*                                                                         *)
(* Four things move on their own while a load runs or between loads: the   *)
(* filing and the amounts privategrants_current holds for a filer's year,  *)
(* the work list made of them, the images and verdicts the lists are read  *)
(* from, and the policy the view shows.  A load takes the work list once,  *)
(* the verdicts batch by batch, and commits filing by filing.              *)
(*                                                                         *)
(* A list is its target and its total: <<target, total>>.  What a filing's *)
(* accepted readings hold is a sequence of lists, as the search meets      *)
(* them; GrantLists says which they are.  The search takes a list that is  *)
(* within a tolerance of the amount asked for, so its total need not be    *)
(* that amount, and its rows keep the amount it was held to.               *)
(***************************************************************************)
EXTENDS Integers, Sequences, FiniteSets, FiniteSetsExt, Functions

CONSTANTS
    Policies,        \* policy versions
    Objects,         \* filings, by object id: versions of a year's return
    YearOf,          \* [Objects -> the filer's year it is a return of]
    Excluded,        \* years of the filers left off the list
    Findable,        \* the lists readings may hold, in the order met
    Amounts,         \* [paid, future]: what placeholder rows may state
    DeclaredPaid,    \* what line 25(d) may state
    Tolerance,       \* DEFAULT_TOLERANCE, in thousandths
    Batch,           \* BATCH, filings whose readings are held at once
    None,
    MaxDrops,        \* bound: builds of the current relations
    MaxChanges,      \* bound: changes of images or verdicts
    MaxLoads,        \* bound: load commands
    MaxStops         \* bound: loads killed or failed

ASSUME BatchAssumption == Batch \in Nat \ {0}
ASSUME ToleranceAssumption == Tolerance \in Nat

\* A filing is a return of one year; an absent value is none that is held;
\* "no" is no policy; lists and stated amounts are amounts under a target.
ASSUME ConstantsAssumption ==
    /\ DOMAIN YearOf = Objects
    /\ None \notin Policies /\ "no" \notin Policies \union {None}
    /\ None \notin [paid : Nat, future : Nat]
    /\ None \notin [rows : SUBSET [target : {"paid", "future"}, total : Nat, declared : Nat], at : Nat]
    /\ Findable \subseteq Seq({"paid", "future"} \X Nat)
    /\ Amounts \subseteq [paid : Nat, future : Nat]
    /\ DeclaredPaid \subseteq Nat

VARIABLES
    current,    \* [years -> [object, paid, future]]: privategrants_current
    line25,     \* [years -> DeclaredPaid]: grants paid in cash, basic_fields_pf_current
    worklist,   \* [Objects -> [paid, future] or None]: pf_placeholder_filings
    fetched,    \* filings with an attachment in filing_images
    accepted,   \* [Policies -> [Objects -> lists or None]]: what the
                \* verdicts on the current image make findable
    stored,     \* [Policies -> [Objects -> [rows, at] or None]]:
                \* privategrants_recovered; at is loaded_at
    view,       \* the policy the view shows, or None
    decided,    \* the policy last decided on (history)
    rebuilding, \* the policy a rebuild of privategrants_current read from
                \* the view, or "no": none is under way
    load,       \* the load command in progress
    clean,      \* policies whose last full load ended with nothing it
                \* reads having changed since it began (history)
    used        \* [drops, changes, loads, stops]: what the bounds count

vars == <<current, line25, worklist, fetched, accepted, stored, view, decided, rebuilding, load, clean, used>>

Years == Range(YearOf)
Targets == {"paid", "future"}

\* A row of the work list, and what the store holds for a filing: for each
\* list what its rows add up to and the amount they reconciled against.
PlaceholderFiling == [paid : Nat, future : Nat]
LoadedLists == SUBSET [target : Targets, total : Nat, declared : Nat]
RecoveredGrants == [rows : LoadedLists, at : Nat]

NoLoad == [pc |-> "idle", policy |-> None, full |-> FALSE, filings |-> [o \in Objects |-> None],
           todo |-> {}, batch |-> {}, found |-> [o \in Objects |-> None], had |-> {}, seen |-> {},
           dirty |-> FALSE]

Init ==
    /\ current \in [Years -> [object : Objects, paid : {0}, future : {0}]]
    /\ \A y \in Years : YearOf[current[y].object] = y
    /\ \E declared \in DeclaredPaid : line25 = [y \in Years |-> declared]
    /\ worklist = [o \in Objects |-> None] /\ fetched = {}
    /\ accepted = [p \in Policies |-> [o \in Objects |-> None]]
    /\ stored = [p \in Policies |-> [o \in Objects |-> None]]
    /\ view = None /\ decided = None /\ rebuilding = "no" /\ load = NoLoad /\ clean = {}
    /\ used = [drops |-> 0, changes |-> 0, loads |-> 0, stops |-> 0]

---------------------------------------------------------------------------
(* What the commands are given *)

\* current_grants, and the matcher before its builds: the policy to create
\* the view for again, read in a session of its own.
RebuildStart ==
    /\ rebuilding = "no" /\ used.drops < MaxDrops
    /\ rebuilding' = view
    /\ used' = [used EXCEPT !.drops = @ + 1]
    /\ UNCHANGED <<current, line25, worklist, fetched, accepted, stored, view, decided, load, clean>>

\* The table built anew in one transaction, a year's rows another version of
\* the return or other amounts.  DROP ... CASCADE takes the view along; it is
\* created again for the policy read, and not at all when none was.
Rebuild ==
    /\ rebuilding # "no"
    /\ \E y \in Years, o \in Objects, a \in Amounts :
          /\ YearOf[o] = y
          /\ current' = [current EXCEPT ![y] = [object |-> o, paid |-> a.paid, future |-> a.future]]
    /\ view' = rebuilding /\ rebuilding' = "no"
    /\ UNCHANGED <<line25, worklist, fetched, accepted, stored, decided, load, clean, used>>

\* basic_fields_pf_current built anew, in a transaction of its own: a year's
\* line 25(d) is another amount.
RebuildFields ==
    /\ used.drops < MaxDrops
    /\ \E y \in Years, declared \in DeclaredPaid : line25' = [line25 EXCEPT ![y] = declared]
    /\ line25' # line25
    /\ used' = [used EXCEPT !.drops = @ + 1]
    /\ UNCHANGED <<current, worklist, fetched, accepted, stored, view, decided, rebuilding, load, clean>>

\* The build rolled back, or never reached.
RebuildFails ==
    /\ rebuilding # "no"
    /\ rebuilding' = "no"
    /\ UNCHANGED <<current, line25, worklist, fetched, accepted, stored, view, decided, load, clean, used>>

\* privategrants_current holds the filing with a placeholder for its paid
\* list.
Placeholder(o) == current[YearOf[o]].object = o /\ current[YearOf[o]].paid > 0

\* The placeholder holds half or more of what line 25(d) declares.
HoldsHalf(o) == line25[YearOf[o]] > 0 /\ 2 * current[YearOf[o]].paid >= line25[YearOf[o]]

\* The filings a placeholder holds half the grants of, less the excluded filers'.
Listed(o) ==
    IF Placeholder(o) /\ HoldsHalf(o) /\ YearOf[o] \notin Excluded
    THEN [paid |-> current[YearOf[o]].paid, future |-> current[YearOf[o]].future] ELSE None

\* work_list.rebuild: the table replaced whole, in one transaction.
WorkList ==
    /\ worklist' = [o \in Objects |-> Listed(o)]
    /\ worklist' # worklist
    /\ clean' = {} /\ load' = [load EXCEPT !.dirty = TRUE]
    /\ UNCHANGED <<current, line25, fetched, accepted, stored, view, decided, used, rebuilding>>

\* An image fetched, or fetched anew: no verdict is on it yet.
Fetch(o) ==
    /\ used.changes < MaxChanges
    /\ fetched' = fetched \union {o}
    /\ accepted' = [p \in Policies |-> [accepted[p] EXCEPT ![o] = None]]
    /\ <<fetched', accepted'>> # <<fetched, accepted>>
    /\ used' = [used EXCEPT !.changes = @ + 1]
    /\ clean' = {} /\ load' = [load EXCEPT !.dirty = TRUE]
    /\ UNCHANGED <<current, line25, worklist, stored, view, decided, rebuilding>>

\* A run decides pages of a filing under a policy.
Agree(p, o) ==
    /\ used.changes < MaxChanges /\ o \in fetched
    /\ \E lists \in Findable : accepted' = [accepted EXCEPT ![p][o] = lists]
    /\ accepted' # accepted
    /\ used' = [used EXCEPT !.changes = @ + 1]
    /\ clean' = clean \ {p}
    /\ load' = IF load.policy = p THEN [load EXCEPT !.dirty = TRUE] ELSE load
    /\ UNCHANGED <<current, line25, worklist, fetched, stored, view, decided, rebuilding>>

---------------------------------------------------------------------------
(* load *)

\* How far a total is from the amount it should be, and whether that is
\* within the tolerance.
Off(total, amount) == IF total < amount THEN amount - total ELSE total - amount
Near(total, amount) == 1000 * Off(total, amount) <= Tolerance * amount

\* The nearest list loads however far it is: a mutation.
SelectedNearest(lists, i, amount) ==
    \A j \in DOMAIN lists : lists[j][1] = lists[i][1] =>
        Off(lists[i][2], amount) < Off(lists[j][2], amount)
          \/ (Off(lists[i][2], amount) = Off(lists[j][2], amount) /\ i <= j)

\* Of a target's lists the one of lowest error, the first of several as
\* low, when it is within the tolerance.
Selected(lists, i, amount) ==
    /\ Near(lists[i][2], amount)
    /\ \A j \in DOMAIN lists : lists[j][1] = lists[i][1] =>
          \/ Off(lists[i][2], amount) < Off(lists[j][2], amount)
          \/ Off(lists[i][2], amount) = Off(lists[j][2], amount) /\ i <= j

\* The list selected for an amount of the filing's, with that amount.
Row(filing, list) == [target |-> list[1], total |-> list[2], declared |-> filing[list[1]]]

\* The lists that add up to the filing's own amounts, each under its target.
Rows(filing, lists) ==
    LET found == {i \in DOMAIN lists : filing[lists[i][1]] > 0 /\ Selected(lists, i, filing[lists[i][1]])}
    IN {Row(filing, lists[i]) : i \in found}

\* The rows a filing should have: none off the list, or unread.
RuleRows(p, o) ==
    IF worklist[o] = None \/ o \notin fetched \/ accepted[p][o] = None THEN {}
    ELSE Rows(worklist[o], accepted[p][o])

HasRows(p) == {o \in Objects : stored[p][o] # None}
StoredRows(p, o) == IF stored[p][o] = None THEN {} ELSE stored[p][o].rows

\* The scope, the images and the filings with rows are read once; a filing
\* not on the list is not a scope.
LoadStart(p, scope) ==
    LET filings == [o \in Objects |-> IF o \in scope THEN worklist[o] ELSE None]
        full == scope = Objects
        had == HasRows(p) \intersect scope
        todo == {o \in fetched : filings[o] # None}
    IN
    /\ load.pc = "idle" /\ used.loads < MaxLoads
    /\ full \/ worklist[CHOOSE o \in scope : TRUE] # None
    /\ used' = [used EXCEPT !.loads = @ + 1]
    /\ load' = [NoLoad EXCEPT !.pc = "batches", !.policy = p, !.full = full,
                              !.filings = filings, !.todo = todo, !.had = had]
    /\ UNCHANGED <<current, line25, worklist, fetched, accepted, stored, view, decided, clean, rebuilding>>

\* What the verdicts on the current images let the selector find.
AcceptedReadings(p, batch) ==
    [o \in Objects |-> IF o \in batch THEN accepted[p][o] ELSE None]

\* The accepted readings of the next batch of filings.
ReadBatch ==
    /\ load.pc = "batches" /\ load.batch = {} /\ load.todo # {}
    /\ \E batch \in SUBSET load.todo :
          /\ Cardinality(batch) = IF Cardinality(load.todo) < Batch THEN Cardinality(load.todo) ELSE Batch
          /\ load' = [load EXCEPT !.batch = batch, !.todo = @ \ batch,
                                  !.found = AcceptedReadings(load.policy, batch)]
    /\ UNCHANGED <<current, line25, worklist, fetched, accepted, stored, view, decided, clean, used, rebuilding>>

\* Rows compared with the time they were loaded: a mutation.
SameRowsDated(p, o, rows) == StoredRows(p, o) = rows /\ rows = {}

\* Every column but the time of the load, the amount reconciled against
\* among them: rows whose filing states another amount are other rows.
SameRows(p, o, rows) == StoredRows(p, o) = rows

\* _sync: the filing's rows replaced in one transaction when they differ.
Synced(p, o, rows) ==
    IF SameRows(p, o, rows) THEN stored
    ELSE [stored EXCEPT ![p][o] = IF rows = {} THEN None ELSE [rows |-> rows, at |-> used.loads]]

\* A filing of the batch: with nothing accepted it is passed over, and so
\* is one that gives no rows and had none.
LoadFiling(o) ==
    LET p == load.policy
        passed == load.found[o] = None \/ (Rows(load.filings[o], load.found[o]) = {} /\ o \notin load.had)
    IN
    /\ load.pc = "batches" /\ o \in load.batch
    /\ stored' = IF passed THEN stored ELSE Synced(p, o, Rows(load.filings[o], load.found[o]))
    /\ load' = [load EXCEPT !.batch = @ \ {o}, !.found[o] = None,
                            !.seen = IF passed THEN @ ELSE @ \union {o}]
    /\ UNCHANGED <<current, line25, worklist, fetched, accepted, view, decided, clean, used, rebuilding>>

\* The filings with rows that the load did not come to left as they are: a
\* mutation.
LeftOverNone == {}

LeftOver == load.had \ load.seen

BatchesDone == load.pc = "batches" /\ load.batch = {} /\ load.todo = {}

\* No list today: off the work list, or nothing accepted to read.
EmptyFiling(o) ==
    /\ BatchesDone /\ o \in LeftOver
    /\ stored' = Synced(load.policy, o, {})
    /\ load' = [load EXCEPT !.seen = @ \union {o}]
    /\ UNCHANGED <<current, line25, worklist, fetched, accepted, view, decided, clean, used, rebuilding>>

LoadEnd ==
    /\ BatchesDone /\ LeftOver = {}
    /\ load' = [load EXCEPT !.pc = "view", !.filings = NoLoad.filings, !.had = {}, !.seen = {}]
    /\ clean' = IF load.full /\ ~load.dirty THEN clean \union {load.policy} ELSE clean
    /\ UNCHANGED <<current, line25, worklist, fetched, accepted, stored, view, decided, used, rebuilding>>

\* ensure_view: created when there is none, left alone when it shows
\* another policy.
EnsureView ==
    /\ load.pc = "view"
    /\ view' = IF view \in {None, load.policy} THEN load.policy ELSE view
    /\ decided' = IF decided = None THEN load.policy ELSE decided
    /\ load' = NoLoad
    /\ UNCHANGED <<current, line25, worklist, fetched, accepted, stored, clean, used, rebuilding>>

\* Killed, or a selected row that is not in its reading: what is committed
\* stays.
Stop ==
    /\ load.pc # "idle" /\ used.stops < MaxStops
    /\ load' = NoLoad
    /\ clean' = clean \ {load.policy}
    /\ used' = [used EXCEPT !.stops = @ + 1]
    /\ UNCHANGED <<current, line25, worklist, fetched, accepted, stored, view, decided, rebuilding>>

\* The view command.
ViewCommand(p) ==
    /\ view # p
    /\ view' = p /\ decided' = p
    /\ UNCHANGED <<current, line25, worklist, fetched, accepted, stored, load, clean, used, rebuilding>>

---------------------------------------------------------------------------
(* What the view shows *)

\* The list shown whatever its target: a mutation.
PaidRowsBoth(p, o) == StoredRows(p, o)

PaidRows(p, o) == {l \in StoredRows(p, o) : l.target = "paid"}

\* A loaded filing is shown while privategrants_current holds the version
\* that was read, with its placeholder.
ShownFilings(y) ==
    {o \in Objects : PaidRows(view, o) # {} /\ YearOf[o] = y /\ Placeholder(o)}

\* The dollars the view shows for a year: the lists of its shown filings,
\* and the rows of privategrants_current they do not replace.
Dollars(y) ==
    LET lists == UNION {PaidRows(view, o) \X {o} : o \in ShownFilings(y)} IN
    MapThenSumSet(LAMBDA l : l[1].total, lists) + (IF ShownFilings(y) = {} THEN current[y].paid ELSE 0)

---------------------------------------------------------------------------

Next ==
    \/ RebuildStart \/ Rebuild \/ RebuildFails \/ RebuildFields \/ WorkList
    \/ \E o \in Objects : \/ Fetch(o) \/ LoadFiling(o) \/ EmptyFiling(o)
    \/ \E p \in Policies : \/ ViewCommand(p)
                           \/ \E o \in Objects : Agree(p, o)
                           \/ \E scope \in {Objects} \union {{o} : o \in Objects} : LoadStart(p, scope)
    \/ ReadBatch \/ LoadEnd \/ EnsureView \/ Stop

Spec == Init /\ [][Next]_vars

---------------------------------------------------------------------------
(* Properties *)

\* Types; no filing is stored without rows, and a year's filing is its own.
TypeOK ==
    /\ \A p \in Policies, o \in Objects : stored[p][o] # None =>
          stored[p][o] \in RecoveredGrants /\ stored[p][o].rows # {}
    /\ \A o \in Objects : worklist[o] # None => worklist[o] \in PlaceholderFiling
    /\ \A y \in Years : YearOf[current[y].object] = y
    /\ view \in Policies \union {None} /\ clean \subseteq Policies /\ fetched \subseteq Objects
    /\ load.seen \subseteq load.had \union {o \in Objects : load.filings[o] # None}

\* After a full load during which, and since which, nothing it reads has
\* changed, the table holds for every filing the rows the rule gives today:
\* whatever loads, kills, drops and lists came before (loader.load).
FullLoadIsRule ==
    \A p \in clean : \A o \in Objects : StoredRows(p, o) = RuleRows(p, o)

\* A load of anything the last full load covered writes nothing, and rows
\* keep the time they were loaded (a second load writes nothing).
RepeatWritesNothing ==
    [][\A p \in clean : p \in clean' => stored'[p] = stored[p]]_vars

\* With the work list the one of the current relations, and the view's policy
\* loaded since: a list shown was held to the amount its placeholder states
\* today, and the view holds a year's dollars as privategrants_current does,
\* to the tolerance a list is held to, and to the dollar where it replaces
\* nothing: a recovered list stands for its placeholder, once (view_sql).
ViewAddsUp ==
    (view \in clean /\ \A o \in Objects : worklist[o] = Listed(o)) =>
      \A y \in Years :
        /\ \A o \in ShownFilings(y) : \A l \in PaidRows(view, o) : l.declared = current[y].paid
        /\ Near(Dollars(y), current[y].paid)
        /\ ShownFilings(y) = {} => Dollars(y) = current[y].paid

\* "Which policy is a decision, so only the ``view`` command changes it: a
\* load under another policy leaves the view as it is" (view.py).
OnlyTheViewCommandDecides == view # None => view = decided
=============================================================================
