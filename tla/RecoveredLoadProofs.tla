------------------------- MODULE RecoveredLoadProofs --------------------------
(***************************************************************************)
(* Proofs about RecoveredLoad, for any policies, filings and bounds: after *)
(* a full load the table is what the rule gives, a load with nothing new   *)
(* writes nothing, and the view adds up to privategrants_current.  And,    *)
(* about the current relations themselves, of CurrentRules: for any        *)
(* versions and line items of a filer-year, its lines and its financials   *)
(* are of one filing, and what the line-25 rules leave of its grant list   *)
(* adds up to what they read.                                              *)
(***************************************************************************)
EXTENDS RecoveredLoad, CurrentProblems, TLAPS, FiniteSetTheorems, WellFoundedInduction

Listings == PlaceholderFiling \union {None}
Found == Findable \union {None}
Kept == RecoveredGrants \union {None}
Loads ==
  [pc : {"idle", "batches", "view"}, policy : Policies \union {None}, full : BOOLEAN,
   filings : [Objects -> Listings], todo : SUBSET Objects, batch : SUBSET Objects,
   found : [Objects -> Found], had : SUBSET Objects, seen : SUBSET Objects, dirty : BOOLEAN]

(* The types, variable by variable.                                        *)
Typed ==
  /\ current \in [Years -> [object : Objects, paid : Nat, future : Nat]]
  /\ worklist \in [Objects -> Listings]
  /\ fetched \subseteq Objects
  /\ accepted \in [Policies -> [Objects -> Found]]
  /\ stored \in [Policies -> [Objects -> Kept]]
  /\ view \in Policies \union {None}
  /\ rebuilding \in Policies \union {None, "no"}
  /\ load \in Loads
  /\ clean \subseteq Policies
  /\ used \in [drops : Nat, changes : Nat, loads : Nat, stops : Nat]

(* The filings a load has still to come to.                                *)
Waiting == load.todo \union load.batch

(* What is stored has rows; a year's filing is its own; a load under way   *)
(* is a policy's, and what it comes to had rows or is on its list.         *)
KeptInv == \A p \in Policies, o \in Objects : stored[p][o] # None => stored[p][o].rows # {}
YearInv == \A y \in Years : YearOf[current[y].object] = y
LoadInv ==
  /\ load.pc = "idle" <=> load.policy = None
  /\ load.todo \intersect load.batch = {}
  /\ \A o \in Waiting : load.filings[o] # None
  /\ load.seen \subseteq load.had \union {o \in Objects : load.filings[o] # None}

(* While nothing it reads has changed, a load has the work list for what   *)
(* it is to read, and the readings of its batch.                           *)
UpToDate ==
  load.pc = "batches" /\ ~load.dirty =>
    /\ \A o \in Waiting : o \in fetched /\ load.filings[o] = worklist[o]
    /\ \A o \in load.batch : load.found[o] = accepted[load.policy][o]
    /\ \A o \in (load.had \ load.seen) \ Waiting : RuleRows(load.policy, o) = {}

(* A full load, more: what it is past has the rows the rule gives, but for *)
(* the left-over filings; what had no rows when it began has none until    *)
(* the load comes to it.                                                   *)
FullInv ==
  load.pc = "batches" /\ load.full /\ ~load.dirty =>
    \A o \in Objects :
      /\ o \in Waiting =>
           /\ o \notin load.seen
           /\ o \notin load.had => stored[load.policy][o] = None
      /\ o \notin Waiting \union (load.had \ load.seen) =>
           StoredRows(load.policy, o) = RuleRows(load.policy, o)

(* A load of a policy whose full load still holds has nothing dirty.       *)
CleanInv == load.pc # "idle" /\ load.policy \in clean => ~load.dirty

IInv ==
  /\ Typed /\ KeptInv /\ YearInv /\ LoadInv /\ UpToDate /\ FullInv /\ CleanInv /\ FullLoadIsRule

-----------------------------------------------------------------------------
(* Initially nothing is listed, read, stored or under way.                 *)
LEMMA InitEstablishes == Init => IInv
  <1> SUFFICES ASSUME Init PROVE IInv
      OBVIOUS
  <1>1. /\ worklist = [o \in Objects |-> None] /\ fetched = {}
        /\ accepted = [p \in Policies |-> [o \in Objects |-> None]]
        /\ stored = [p \in Policies |-> [o \in Objects |-> None]]
        /\ load = NoLoad /\ clean = {}
      BY DEF Init
  <1>2. NoLoad \in Loads
      BY DEF NoLoad, Loads, Listings, Found
  <1>3. Typed
    <2>1. current \in [Years -> [object : Objects, paid : Nat, future : Nat]]
        BY DEF Init
    <2> QED
        BY <1>1, <1>2, <2>1 DEF Typed, Init, Listings, Found, Kept
  <1>4. KeptInv /\ YearInv /\ FullLoadIsRule
      BY <1>1 DEF Init, KeptInv, YearInv, FullLoadIsRule
  <1>5. LoadInv /\ UpToDate /\ FullInv /\ CleanInv
      BY <1>1 DEF NoLoad, LoadInv, Waiting, UpToDate, FullInv, CleanInv
  <1> QED
      BY <1>3, <1>4, <1>5 DEF IInv

(* The rows of a filing of the work list: each of a list that is near the  *)
(* amount the filing states under its target, one list of a target at most *)
(* (of two one is further off, or met later).                              *)
LEMMA RowsAreLists ==
  ASSUME NEW filing \in PlaceholderFiling, NEW lists \in Seq(Targets \X Nat)
  PROVE  /\ Rows(filing, lists) \in LoadedLists
         /\ \A l \in Rows(filing, lists) : l.declared = filing[l.target] /\ Near(l.total, l.declared)
         /\ \A k, l \in Rows(filing, lists) : k.target = l.target => k = l
  <1> DEFINE found == {i \in DOMAIN lists : filing[lists[i][1]] > 0 /\ Selected(lists, i, filing[lists[i][1]])}
  <1>1. \A i \in DOMAIN lists : i \in Nat /\ lists[i][1] \in Targets /\ lists[i][2] \in Nat
    <2>1. \A i \in DOMAIN lists : i \in Nat /\ lists[i] \in Targets \X Nat
        OBVIOUS
    <2> QED
        BY <2>1
  <1>2. filing["paid"] \in Nat /\ filing["future"] \in Nat
      BY DEF PlaceholderFiling
  <1>3. \A t \in Targets : filing[t] \in Nat
      BY <1>2 DEF Targets
  <1>4. Rows(filing, lists) = {Row(filing, lists[i]) : i \in found}
      BY DEF Rows
  <1>5. \A i \in found : /\ Row(filing, lists[i]) \in [target : Targets, total : Nat, declared : Nat]
                         /\ Row(filing, lists[i]).target = lists[i][1]
                         /\ Row(filing, lists[i]).total = lists[i][2]
                         /\ Row(filing, lists[i]).declared = filing[lists[i][1]]
      BY <1>1, <1>3 DEF Row
  <1>6. \A i \in found : Near(lists[i][2], filing[lists[i][1]])
      BY DEF Selected
  <1>7. \A i, j \in found : lists[i][1] = lists[j][1] => i = j
    <2> SUFFICES ASSUME NEW i \in found, NEW j \in found, lists[i][1] = lists[j][1]
                 PROVE  i = j
        OBVIOUS
    <2> DEFINE amount == filing[lists[i][1]]
               a == Off(lists[i][2], amount)
               b == Off(lists[j][2], amount)
    <2>1. i \in DOMAIN lists /\ j \in DOMAIN lists /\ i \in Nat /\ j \in Nat
        BY <1>1
    <2>2. a \in Int /\ b \in Int
        BY <1>1, <1>3 DEF Off
    <2>3. a < b \/ (a = b /\ i <= j)
        BY <2>1 DEF Selected
    <2>4. b < a \/ (b = a /\ j <= i)
        BY <2>1 DEF Selected
    <2> HIDE DEF a, b, found
    <2> QED
        BY <2>1, <2>2, <2>3, <2>4
  <1> HIDE DEF found
  <1> QED
      BY <1>4, <1>5, <1>6, <1>7 DEF LoadedLists

(* What is stored and what the rule gives, by what they are read from.     *)
LEMMA RuleRowsSame ==
  ASSUME NEW p, NEW o, UNCHANGED <<worklist, fetched>>, accepted'[p][o] = accepted[p][o]
  PROVE  RuleRows(p, o)' = RuleRows(p, o)
  BY DEF RuleRows, Rows, Row, Selected, Near, Off

LEMMA StoredRowsSame ==
  ASSUME NEW p, NEW o, stored'[p][o] = stored[p][o]
  PROVE  StoredRows(p, o)' = StoredRows(p, o)
  BY DEF StoredRows

(* A step that leaves the load and all it reads and writes alone.          *)
LEMMA LoadUntouched ==
  IInv /\ Typed' /\ YearInv' /\ UNCHANGED <<worklist, fetched, accepted, stored, load, clean>> => IInv'
  <1> SUFFICES ASSUME IInv, Typed', YearInv',
                      UNCHANGED <<worklist, fetched, accepted, stored, load, clean>>
               PROVE  IInv'
      OBVIOUS
  <1>1. \A p, o : RuleRows(p, o)' = RuleRows(p, o) /\ StoredRows(p, o)' = StoredRows(p, o)
      BY RuleRowsSame, StoredRowsSame
  <1>2. KeptInv' /\ LoadInv' /\ UpToDate' /\ FullInv' /\ CleanInv' /\ FullLoadIsRule'
      BY <1>1 DEF IInv, KeptInv, LoadInv, UpToDate, FullInv, CleanInv, FullLoadIsRule, Waiting
  <1> QED
      BY <1>2 DEF IInv

-----------------------------------------------------------------------------
(* privategrants_current and the view                                      *)

LEMMA RebuildStartKeeps == IInv /\ RebuildStart => IInv'
  <1> SUFFICES ASSUME IInv, RebuildStart PROVE IInv'
      OBVIOUS
  <1>1. Typed' /\ YearInv'
      BY DEF IInv, Typed, YearInv, RebuildStart
  <1> QED
      BY <1>1, LoadUntouched DEF RebuildStart

LEMMA RebuildKeeps == IInv /\ Rebuild => IInv'
  <1> SUFFICES ASSUME IInv, Rebuild PROVE IInv'
      OBVIOUS
  <1>1. PICK y \in Years, o \in Objects, a \in Amounts :
          /\ YearOf[o] = y
          /\ current' = [current EXCEPT ![y] = [object |-> o, paid |-> a.paid, future |-> a.future]]
      BY DEF Rebuild
  <1>2. a.paid \in Nat /\ a.future \in Nat
      BY ConstantsAssumption
  <1>3. current' \in [Years -> [object : Objects, paid : Nat, future : Nat]]
      BY <1>1, <1>2 DEF IInv, Typed
  <1>4. Typed'
      BY <1>3 DEF IInv, Typed, Rebuild
  <1>5. YearInv'
      BY <1>1 DEF IInv, Typed, YearInv
  <1> QED
      BY <1>4, <1>5, LoadUntouched DEF Rebuild

LEMMA RebuildFieldsKeeps == IInv /\ RebuildFields => IInv'
  <1> SUFFICES ASSUME IInv, RebuildFields PROVE IInv'
      OBVIOUS
  <1>1. Typed' /\ YearInv'
      BY DEF IInv, Typed, YearInv, RebuildFields
  <1> QED
      BY <1>1, LoadUntouched DEF RebuildFields

LEMMA RebuildFailsKeeps == IInv /\ RebuildFails => IInv'
  <1> SUFFICES ASSUME IInv, RebuildFails PROVE IInv'
      OBVIOUS
  <1>1. Typed' /\ YearInv'
      BY DEF IInv, Typed, YearInv, RebuildFails
  <1> QED
      BY <1>1, LoadUntouched DEF RebuildFails

LEMMA ViewCommandKeeps ==
  ASSUME IInv, NEW p \in Policies, ViewCommand(p)
  PROVE  IInv'
  <1>1. Typed' /\ YearInv'
      BY DEF IInv, Typed, YearInv, ViewCommand
  <1> QED
      BY <1>1, LoadUntouched DEF ViewCommand

-----------------------------------------------------------------------------
(* What a load reads changes: nothing is clean that it was read for.       *)

LEMMA WorkListKeeps == IInv /\ WorkList => IInv'
  <1> SUFFICES ASSUME IInv, WorkList PROVE IInv'
      OBVIOUS
  <1>1. /\ load' = [load EXCEPT !.dirty = TRUE] /\ clean' = {}
        /\ UNCHANGED <<current, fetched, accepted, stored, view, used, rebuilding>>
      BY DEF WorkList
  <1>2. /\ load' \in Loads /\ load'.dirty
        /\ load'.pc = load.pc /\ load'.policy = load.policy /\ load'.filings = load.filings
        /\ load'.had = load.had /\ load'.seen = load.seen /\ Waiting' = Waiting
        /\ load'.todo = load.todo /\ load'.batch = load.batch
      BY <1>1 DEF IInv, Typed, Loads, Waiting
  <1>3. worklist' \in [Objects -> Listings]
    <2>1. \A o \in Objects : YearOf[o] \in Years
        BY ConstantsAssumption DEF Years, Range
    <2>2. \A o \in Objects : Listed(o) \in Listings
        BY <2>1 DEF IInv, Typed, Listed, Listings, PlaceholderFiling
    <2> QED
        BY <2>2 DEF WorkList
  <1>4. Typed'
      BY <1>1, <1>2, <1>3 DEF IInv, Typed
  <1>5. KeptInv' /\ YearInv' /\ LoadInv'
      BY <1>1, <1>2 DEF IInv, KeptInv, YearInv, LoadInv
  <1>6. UpToDate' /\ FullInv' /\ CleanInv' /\ FullLoadIsRule'
      BY <1>1, <1>2 DEF UpToDate, FullInv, CleanInv, FullLoadIsRule
  <1> QED
      BY <1>4, <1>5, <1>6 DEF IInv

LEMMA FetchKeeps ==
  ASSUME IInv, NEW o \in Objects, Fetch(o)
  PROVE  IInv'
  <1>1. /\ load' = [load EXCEPT !.dirty = TRUE] /\ clean' = {}
        /\ fetched' = fetched \union {o}
        /\ accepted' = [p \in Policies |-> [accepted[p] EXCEPT ![o] = None]]
        /\ used' = [used EXCEPT !.changes = @ + 1]
        /\ UNCHANGED <<current, worklist, stored, view, rebuilding>>
      BY DEF Fetch
  <1>2. /\ load' \in Loads /\ load'.dirty
        /\ load'.pc = load.pc /\ load'.policy = load.policy /\ load'.filings = load.filings
        /\ load'.had = load.had /\ load'.seen = load.seen /\ Waiting' = Waiting
        /\ load'.todo = load.todo /\ load'.batch = load.batch
      BY <1>1 DEF IInv, Typed, Loads, Waiting
  <1>3. accepted' \in [Policies -> [Objects -> Found]]
      BY <1>1 DEF IInv, Typed, Found
  <1>4. Typed'
      BY <1>1, <1>2, <1>3 DEF IInv, Typed
  <1>5. KeptInv' /\ YearInv' /\ LoadInv'
      BY <1>1, <1>2 DEF IInv, KeptInv, YearInv, LoadInv
  <1>6. UpToDate' /\ FullInv' /\ CleanInv' /\ FullLoadIsRule'
      BY <1>1, <1>2 DEF UpToDate, FullInv, CleanInv, FullLoadIsRule
  <1> QED
      BY <1>4, <1>5, <1>6 DEF IInv

(* A verdict of one policy leaves the loads of the others up to date.      *)
LEMMA AgreeKeeps ==
  ASSUME IInv, NEW p \in Policies, NEW o \in Objects, Agree(p, o)
  PROVE  IInv'
  <1>1. PICK lists \in Findable : accepted' = [accepted EXCEPT ![p][o] = lists]
      BY DEF Agree
  <1>2. /\ load' = IF load.policy = p THEN [load EXCEPT !.dirty = TRUE] ELSE load
        /\ clean' = clean \ {p}
        /\ used' = [used EXCEPT !.changes = @ + 1]
        /\ UNCHANGED <<current, worklist, fetched, stored, view, rebuilding>>
      BY DEF Agree
  <1>3. accepted' \in [Policies -> [Objects -> Found]]
      BY <1>1 DEF IInv, Typed, Found
  <1>4. \A q \in Policies \ {p} : accepted'[q] = accepted[q]
      BY <1>1 DEF IInv, Typed
  <1>5. \A q \in Policies \ {p}, x \in Objects : RuleRows(q, x)' = RuleRows(q, x)
      BY <1>2, <1>4, RuleRowsSame
  <1>6. \A q \in Policies, x \in Objects : StoredRows(q, x)' = StoredRows(q, x)
      BY <1>2, StoredRowsSame
  <1>7. load' \in Loads
      BY <1>2 DEF IInv, Typed, Loads
  <1>8. Typed'
    <2>1. /\ clean' \subseteq Policies
          /\ used' \in [drops : Nat, changes : Nat, loads : Nat, stops : Nat]
        BY <1>2 DEF IInv, Typed
    <2>2. UNCHANGED <<current, worklist, fetched, stored, view, rebuilding>>
        BY <1>2
    <2> QED
        BY <1>3, <1>7, <2>1, <2>2 DEF IInv, Typed
  <1>9. FullLoadIsRule'
      BY <1>2, <1>5, <1>6 DEF IInv, Typed, FullLoadIsRule
  <1>10. CASE load.policy = p
    <2>1. /\ load'.dirty
          /\ load'.pc = load.pc /\ load'.policy = load.policy /\ load'.filings = load.filings
          /\ load'.had = load.had /\ load'.seen = load.seen /\ Waiting' = Waiting
          /\ load'.todo = load.todo /\ load'.batch = load.batch
        BY <1>2, <1>10 DEF IInv, Typed, Loads, Waiting
    <2>2. KeptInv' /\ YearInv' /\ LoadInv'
        BY <1>2, <2>1 DEF IInv, KeptInv, YearInv, LoadInv
    <2>3. UpToDate' /\ FullInv' /\ CleanInv'
        BY <1>2, <1>10, <2>1 DEF UpToDate, FullInv, CleanInv
    <2> QED
        BY <1>8, <1>9, <2>2, <2>3 DEF IInv
  <1>11. CASE load.policy # p
    <2>1. load' = load
        BY <1>2, <1>11
    <2>2. KeptInv' /\ YearInv' /\ LoadInv' /\ CleanInv'
        BY <1>2, <2>1 DEF IInv, KeptInv, YearInv, LoadInv, CleanInv, Waiting
    <2>3. load.pc = "batches" => load.policy \in Policies \ {p}
        BY <1>11 DEF IInv, LoadInv, Typed, Loads
    <2>4. load \in Loads
        BY DEF IInv, Typed
    <2>5. UpToDate'
        BY <1>2, <1>4, <1>5, <2>1, <2>3, <2>4 DEF IInv, UpToDate, Waiting, Loads
    <2>6. FullInv'
        BY <1>2, <1>5, <1>6, <2>1, <2>3 DEF IInv, FullInv, Waiting
    <2> QED
        BY <1>8, <1>9, <2>2, <2>5, <2>6 DEF IInv
  <1> QED
      BY <1>10, <1>11

-----------------------------------------------------------------------------
(* The load                                                                *)

(* A load begins with the work list, nothing written and nothing seen: a   *)
(* filing it does not wait for has no rows under the rule, and of those a  *)
(* full load waits for or not it knows which have some stored.             *)
LEMMA LoadStartKeeps ==
  ASSUME IInv, NEW p \in Policies, NEW scope \in {Objects} \union {{o} : o \in Objects},
         LoadStart(p, scope)
  PROVE  IInv'
  <1> DEFINE filings == [o \in Objects |-> IF o \in scope THEN worklist[o] ELSE None]
             had == HasRows(p) \intersect scope
             todo == {o \in fetched : filings[o] # None}
             next == [NoLoad EXCEPT !.pc = "batches", !.policy = p, !.full = (scope = Objects),
                                    !.filings = filings, !.todo = todo, !.had = had]
  <1>1. /\ load.pc = "idle" /\ load' = next
        /\ used' = [used EXCEPT !.loads = @ + 1]
        /\ UNCHANGED <<current, worklist, fetched, accepted, stored, view, clean, rebuilding>>
      BY DEF LoadStart
  <1>2. filings \in [Objects -> Listings] /\ had \subseteq Objects /\ todo \subseteq Objects
    <2>1. \A o \in Objects : filings[o] \in Listings
        BY DEF IInv, Typed, Listings
    <2> QED
        BY <2>1 DEF IInv, Typed, HasRows
  <1>3. /\ next \in Loads
        /\ next.pc = "batches" /\ next.policy = p /\ next.full = (scope = Objects)
        /\ next.filings = filings /\ next.todo = todo /\ next.batch = {}
        /\ next.had = had /\ next.seen = {} /\ next.dirty = FALSE
      BY <1>2 DEF NoLoad, Loads, Found
  <1>4. \A q, o : RuleRows(q, o)' = RuleRows(q, o) /\ StoredRows(q, o)' = StoredRows(q, o)
      BY <1>1, RuleRowsSame, StoredRowsSame
  <1>5. \A o \in Objects : filings[o] = IF o \in scope THEN worklist[o] ELSE None
      OBVIOUS
  <1> HIDE DEF next, filings
  <1>6. Typed'
      BY <1>1, <1>3 DEF IInv, Typed
  <1>7. KeptInv' /\ YearInv' /\ FullLoadIsRule' /\ CleanInv'
      BY <1>1, <1>3, <1>4 DEF IInv, KeptInv, YearInv, FullLoadIsRule, CleanInv
  <1>8. LoadInv'
      BY <1>1, <1>3, ConstantsAssumption DEF LoadInv, Waiting
  <1>9. \A o \in scope \ todo : o \in Objects => RuleRows(p, o) = {}
      BY <1>5 DEF RuleRows
  <1>10. UpToDate'
    <2>1. \A o \in todo : o \in fetched /\ filings[o] = worklist[o]
        BY <1>5 DEF IInv, Typed
    <2>2. \A o \in had \ todo : RuleRows(p, o) = {}
        BY <1>2, <1>9
    <2> QED
        BY <1>1, <1>3, <1>4, <2>1, <2>2 DEF UpToDate, Waiting
  <1>11. FullInv'
    <2> SUFFICES ASSUME scope = Objects,  NEW o \in Objects
                 PROVE  /\ o \in todo => (o \notin had => stored[p][o] = None)
                        /\ o \notin todo \union had => StoredRows(p, o) = RuleRows(p, o)
        BY <1>1, <1>3, <1>4 DEF FullInv, Waiting
    <2>1. o \notin had => stored[p][o] = None
        BY DEF HasRows
    <2>2. o \notin todo => RuleRows(p, o) = {}
        BY <1>9
    <2> QED
        BY <2>1, <2>2 DEF StoredRows
  <1> QED
      BY <1>6, <1>7, <1>8, <1>10, <1>11 DEF IInv

(* The batch is read as the verdicts stand.                                *)
LEMMA ReadBatchKeeps == IInv /\ ReadBatch => IInv'
  <1> SUFFICES ASSUME IInv, ReadBatch PROVE IInv'
      OBVIOUS
  <1>1. PICK batch \in SUBSET load.todo :
          load' = [load EXCEPT !.batch = batch, !.todo = @ \ batch,
                               !.found = AcceptedReadings(load.policy, batch)]
      BY DEF ReadBatch
  <1>2. /\ load.pc = "batches" /\ load.batch = {}
        /\ UNCHANGED <<current, worklist, fetched, accepted, stored, view, clean, used, rebuilding>>
      BY DEF ReadBatch
  <1>3. load \in Loads /\ load.policy \in Policies
      BY <1>2 DEF IInv, Typed, LoadInv, Loads
  <1>4. AcceptedReadings(load.policy, batch) \in [Objects -> Found]
      BY <1>3 DEF IInv, Typed, AcceptedReadings, Found
  <1>5. load' \in Loads
      BY <1>1, <1>3, <1>4 DEF Loads
  <1>6. /\ load'.pc = "batches" /\ load'.policy = load.policy /\ load'.full = load.full
        /\ load'.filings = load.filings /\ load'.had = load.had /\ load'.seen = load.seen
        /\ load'.dirty = load.dirty /\ load'.batch = batch /\ load'.todo = load.todo \ batch
        /\ load'.found = AcceptedReadings(load.policy, batch)
      BY <1>1, <1>2, <1>3 DEF Loads
  <1>7. Waiting' = Waiting
      BY <1>2, <1>6 DEF Waiting
  <1>8. \A q, o : RuleRows(q, o)' = RuleRows(q, o) /\ StoredRows(q, o)' = StoredRows(q, o)
      BY <1>2, RuleRowsSame, StoredRowsSame
  <1>9. Typed'
      BY <1>2, <1>5 DEF IInv, Typed
  <1>10. KeptInv' /\ YearInv' /\ FullLoadIsRule' /\ CleanInv' /\ LoadInv'
      BY <1>2, <1>6, <1>7, <1>8 DEF IInv, KeptInv, YearInv, FullLoadIsRule, CleanInv, LoadInv
  <1>11. \A o \in batch : load'.found[o] = accepted[load.policy][o]
      BY <1>3, <1>6 DEF AcceptedReadings, Loads
  <1>12. UpToDate'
      BY <1>2, <1>6, <1>7, <1>8, <1>11 DEF IInv, UpToDate
  <1>13. FullInv'
      BY <1>2, <1>6, <1>7, <1>8 DEF IInv, FullInv
  <1> QED
      BY <1>9, <1>10, <1>12, <1>13 DEF IInv

(* A sync leaves the filing its rows, the others theirs.                   *)
LEMMA SyncedRows ==
  ASSUME Typed, KeptInv, NEW p \in Policies, NEW o \in Objects, NEW rows \in LoadedLists,
         stored' = Synced(p, o, rows)
  PROVE  /\ stored' \in [Policies -> [Objects -> Kept]] /\ KeptInv'
         /\ StoredRows(p, o)' = rows
         /\ \A q \in Policies, x \in Objects : (q # p \/ x # o) =>
              stored'[q][x] = stored[q][x] /\ StoredRows(q, x)' = StoredRows(q, x)
         /\ \A q \in Policies \ {p} : stored'[q] = stored[q]
         /\ StoredRows(p, o) = rows => stored' = stored
  <1> DEFINE kept == IF rows = {} THEN None ELSE [rows |-> rows, at |-> used.loads]
  <1>1. kept \in Kept /\ (kept # None => kept.rows # {})
        /\ (IF kept = None THEN {} ELSE kept.rows) = rows
      BY ConstantsAssumption DEF Typed, Kept, RecoveredGrants, LoadedLists, Targets
  <1> HIDE DEF kept
  <1>2. CASE SameRows(p, o, rows)
    <2>1. stored' = stored
        BY <1>2 DEF Synced
    <2> QED
        BY <1>2, <2>1 DEF Typed, KeptInv, SameRows, StoredRows
  <1>3. CASE ~SameRows(p, o, rows)
    <2>1. stored' = [stored EXCEPT ![p][o] = kept]
        BY <1>3 DEF Synced, kept
    <2>2. stored' \in [Policies -> [Objects -> Kept]]
        BY <1>1, <2>1 DEF Typed
    <2>3. stored'[p][o] = kept
        BY <2>1 DEF Typed
    <2>4. \A q \in Policies, x \in Objects : (q # p \/ x # o) => stored'[q][x] = stored[q][x]
        BY <2>1 DEF Typed
    <2>5. KeptInv'
        BY <1>1, <2>3, <2>4 DEF KeptInv
    <2>6. \A q \in Policies \ {p} : stored'[q] = stored[q]
        BY <2>1 DEF Typed
    <2> QED
        BY <1>1, <1>3, <2>2, <2>3, <2>4, <2>5, <2>6 DEF StoredRows, SameRows
  <1> QED
      BY <1>2, <1>3

(* One filing of the batch: the rows the rule gives, or the rows it had    *)
(* for a filing left over.                                                 *)
LEMMA LoadFilingKeeps ==
  ASSUME IInv, NEW o \in Objects, LoadFiling(o)
  PROVE  IInv'
  <1>0. PICK p : p = load.policy
      OBVIOUS
  <1> DEFINE rows == Rows(load.filings[o], load.found[o])
             passed == load.found[o] = None \/ (rows = {} /\ o \notin load.had)
             seen == IF passed THEN load.seen ELSE load.seen \union {o}
  <1>1. /\ load.pc = "batches" /\ load.policy = p /\ o \in load.batch
        /\ stored' = IF passed THEN stored ELSE Synced(p, o, rows)
        /\ load' = [load EXCEPT !.batch = @ \ {o}, !.found[o] = None, !.seen = seen]
        /\ UNCHANGED <<current, worklist, fetched, accepted, view, clean, used, rebuilding>>
      BY <1>0 DEF LoadFiling
  <1>2. load \in Loads /\ p \in Policies
      BY <1>1 DEF IInv, Typed, LoadInv, Loads
  <1>3. ~passed => rows \in LoadedLists
    <2>1. load.found[o] # None => load.found[o] \in Seq(Targets \X Nat)
        BY <1>2, ConstantsAssumption DEF Loads, Found, Targets
    <2>2. load.filings[o] \in PlaceholderFiling
        BY <1>1, <1>2 DEF IInv, LoadInv, Waiting, Loads, Listings
    <2> QED
        BY <2>1, <2>2, RowsAreLists
  <1>4. ~passed /\ rows = {} => o \in load.had
      OBVIOUS
  <1>5. seen \subseteq Objects /\ seen \subseteq load.seen \union {o} /\ load.seen \subseteq seen
      BY <1>2 DEF Loads
  <1>6. passed => seen = load.seen
      OBVIOUS
  <1>7. ~passed => o \in seen
      OBVIOUS
  <1>8. passed => load.found[o] = None \/ (rows = {} /\ o \notin load.had)
      OBVIOUS
  <1> HIDE DEF passed, seen, rows
  <1>9. /\ load' \in Loads
        /\ load'.pc = "batches" /\ load'.policy = p /\ load'.full = load.full
        /\ load'.filings = load.filings /\ load'.had = load.had /\ load'.seen = seen
        /\ load'.dirty = load.dirty /\ load'.batch = load.batch \ {o} /\ load'.todo = load.todo
        /\ \A x \in Objects \ {o} : load'.found[x] = load.found[x]
      BY <1>1, <1>2, <1>5 DEF Loads, Found
  <1>10. /\ stored' \in [Policies -> [Objects -> Kept]] /\ KeptInv'
         /\ \A q \in Policies, x \in Objects : (q # p \/ x # o) =>
              stored'[q][x] = stored[q][x] /\ StoredRows(q, x)' = StoredRows(q, x)
    <2>1. CASE passed
        BY <1>1, <2>1 DEF IInv, Typed, KeptInv, StoredRows
    <2>2. CASE ~passed
        BY <1>1, <1>2, <1>3, <2>2, SyncedRows DEF IInv
    <2> QED
        BY <2>1, <2>2
  <1>11. ~passed => StoredRows(p, o)' = rows /\ (StoredRows(p, o) = rows => stored' = stored)
      BY <1>1, <1>2, <1>3, SyncedRows DEF IInv
  <1>12. \A q, x : RuleRows(q, x)' = RuleRows(q, x)
      BY <1>1, RuleRowsSame
  <1>13. ~load.dirty =>
           /\ o \in fetched /\ load.filings[o] = worklist[o] /\ load.filings[o] # None
           /\ load.found[o] = accepted[p][o]
      BY <1>1 DEF IInv, UpToDate, LoadInv, Waiting
  <1>14. ~load.dirty => RuleRows(p, o) = IF load.found[o] = None THEN {} ELSE rows
      BY <1>13 DEF RuleRows, rows
  <1>15. ~load.dirty /\ ~passed => load.found[o] # None
      BY DEF passed
  <1>16. Typed'
      BY <1>1, <1>9, <1>10 DEF IInv, Typed
  <1>17. YearInv' /\ CleanInv'
      BY <1>1, <1>9 DEF IInv, YearInv, CleanInv
  <1>18. LoadInv'
      BY <1>1, <1>5, <1>9 DEF IInv, LoadInv, Waiting
  <1>19. FullLoadIsRule'
    <2> SUFFICES ASSUME NEW q \in clean, NEW x \in Objects
                 PROVE  StoredRows(q, x)' = RuleRows(q, x)
        BY <1>1, <1>12 DEF FullLoadIsRule
    <2>1. StoredRows(q, x) = RuleRows(q, x) /\ q \in Policies
        BY DEF IInv, Typed, FullLoadIsRule
    <2>2. CASE q # p \/ x # o
        BY <1>10, <2>1, <2>2
    <2>3. CASE q = p /\ x = o
      <3>1. ~load.dirty
          BY <1>1, <2>3 DEF IInv, CleanInv
      <3>2. CASE passed
          BY <1>1, <2>1, <3>2 DEF StoredRows
      <3>3. CASE ~passed
          BY <1>11, <1>14, <1>15, <2>1, <2>3, <3>1, <3>3
      <3> QED
          BY <3>2, <3>3
    <2> QED
        BY <2>2, <2>3
  <1>20. ~load.dirty /\ o \in load.had \ seen => RuleRows(p, o) = {}
      BY <1>7, <1>8, <1>14
  <1>21. UpToDate'
    <2> SUFFICES ASSUME ~load.dirty
                 PROVE  /\ \A x \in load.todo \union (load.batch \ {o}) : x \in fetched /\ load.filings[x] = worklist[x]
                        /\ \A x \in load.batch \ {o} : load'.found[x] = accepted[p][x]
                        /\ \A x \in (load.had \ seen) \ (load.todo \union (load.batch \ {o})) : RuleRows(p, x) = {}
        BY <1>1, <1>9, <1>12 DEF UpToDate, Waiting
    <2>1. /\ \A x \in Waiting : x \in fetched /\ load.filings[x] = worklist[x]
          /\ \A x \in load.batch : load.found[x] = accepted[p][x]
          /\ \A x \in (load.had \ load.seen) \ Waiting : RuleRows(p, x) = {}
        BY <1>1 DEF IInv, UpToDate
    <2>2. load.batch \subseteq Objects
        BY <1>2 DEF Loads
    <2>3. \A x \in (load.had \ seen) \ (load.todo \union (load.batch \ {o})) : RuleRows(p, x) = {}
        BY <1>5, <1>20, <2>1 DEF Waiting
    <2> QED
        BY <1>9, <2>1, <2>2, <2>3 DEF Waiting
  <1>22. FullInv'
    <2> SUFFICES ASSUME load.full, ~load.dirty, NEW x \in Objects
                 PROVE  /\ x \in load.todo \union (load.batch \ {o}) =>
                             x \notin seen /\ (x \notin load.had => stored'[p][x] = None)
                        /\ x \notin load.todo \union (load.batch \ {o}) \union (load.had \ seen) =>
                             StoredRows(p, x)' = RuleRows(p, x)
        BY <1>1, <1>9, <1>12 DEF FullInv, Waiting
    <2>1. /\ x \in Waiting => x \notin load.seen /\ (x \notin load.had => stored[p][x] = None)
          /\ x \notin Waiting \union (load.had \ load.seen) => StoredRows(p, x) = RuleRows(p, x)
        BY <1>1 DEF IInv, FullInv
    <2>2. CASE x = o
      <3>1. o \notin load.seen /\ (o \notin load.had => stored[p][o] = None)
          BY <1>1, <2>1, <2>2 DEF Waiting
      <3>2. CASE ~passed
        <4>1. o \notin load.todo
            BY <1>1 DEF IInv, LoadInv
        <4> QED
            BY <1>11, <1>14, <1>15, <2>2, <3>2, <4>1
      <3>3. CASE passed
        <4>1. o \notin load.todo /\ stored' = stored
            BY <1>1, <3>3 DEF IInv, LoadInv
        <4> QED
            BY <1>6, <1>8, <1>14, <2>2, <3>1, <3>3, <4>1 DEF StoredRows
      <3> QED
          BY <3>2, <3>3
    <2>3. CASE x # o
        BY <1>2, <1>5, <1>10, <2>1, <2>3 DEF Waiting
    <2> QED
        BY <2>2, <2>3
  <1> QED
      BY <1>10, <1>16, <1>17, <1>18, <1>19, <1>21, <1>22 DEF IInv

(* A left-over filing has no rows under the rule, and none after.          *)
LEMMA EmptyFilingKeeps ==
  ASSUME IInv, NEW o \in Objects, EmptyFiling(o)
  PROVE  IInv'
  <1>0. PICK p : p = load.policy
      OBVIOUS
  <1>1. /\ load.pc = "batches" /\ load.batch = {} /\ load.todo = {} /\ load.policy = p
        /\ o \in load.had \ load.seen /\ stored' = Synced(p, o, {})
        /\ load' = [load EXCEPT !.seen = @ \union {o}]
        /\ UNCHANGED <<current, worklist, fetched, accepted, view, clean, used, rebuilding>>
      BY <1>0 DEF EmptyFiling, BatchesDone, LeftOver
  <1>2. load \in Loads /\ p \in Policies
      BY <1>1 DEF IInv, Typed, LoadInv, Loads
  <1>3. /\ load' \in Loads
        /\ load'.pc = "batches" /\ load'.policy = p /\ load'.full = load.full
        /\ load'.filings = load.filings /\ load'.had = load.had /\ load'.seen = load.seen \union {o}
        /\ load'.dirty = load.dirty /\ load'.batch = {} /\ load'.todo = {}
      BY <1>1, <1>2 DEF Loads
  <1>4. Waiting = {} /\ Waiting' = {}
      BY <1>1, <1>3 DEF Waiting
  <1>5. /\ stored' \in [Policies -> [Objects -> Kept]] /\ KeptInv'
        /\ StoredRows(p, o)' = {}
        /\ \A q \in Policies, x \in Objects : (q # p \/ x # o) => StoredRows(q, x)' = StoredRows(q, x)
    <2>1. {} \in LoadedLists
        BY DEF LoadedLists
    <2> QED
        BY <1>1, <1>2, <2>1, SyncedRows DEF IInv
  <1>6. \A q, x : RuleRows(q, x)' = RuleRows(q, x)
      BY <1>1, RuleRowsSame
  <1>7. ~load.dirty => RuleRows(p, o) = {}
      BY <1>1, <1>4 DEF IInv, UpToDate
  <1>8. Typed'
      BY <1>1, <1>3, <1>5 DEF IInv, Typed
  <1>9. YearInv' /\ CleanInv'
      BY <1>1, <1>3 DEF IInv, YearInv, CleanInv
  <1>10. LoadInv'
      BY <1>1, <1>3, <1>4 DEF IInv, LoadInv
  <1>11. FullLoadIsRule'
    <2>1. \A q \in clean, x \in Objects : q \in Policies /\ StoredRows(q, x) = RuleRows(q, x)
        BY DEF IInv, Typed, FullLoadIsRule
    <2>2. p \in clean => ~load.dirty
        BY <1>1 DEF IInv, CleanInv
    <2> QED
        BY <1>1, <1>5, <1>6, <1>7, <2>1, <2>2 DEF FullLoadIsRule
  <1>12. UpToDate'
      BY <1>1, <1>3, <1>4, <1>6 DEF IInv, UpToDate
  <1>13. FullInv'
    <2> SUFFICES ASSUME load.full, ~load.dirty, NEW x \in Objects,
                        x \notin load.had \ (load.seen \union {o})
                 PROVE  StoredRows(p, x)' = RuleRows(p, x)
        BY <1>3, <1>4, <1>6 DEF FullInv
    <2>1. CASE x = o
        BY <1>5, <1>7, <2>1
    <2>2. CASE x # o
        BY <1>1, <1>2, <1>4, <1>5, <2>2 DEF IInv, FullInv
    <2> QED
        BY <2>1, <2>2
  <1> QED
      BY <1>5, <1>8, <1>9, <1>10, <1>11, <1>12, <1>13 DEF IInv

(* A full load that ends up to date leaves every filing what the rule      *)
(* gives: nothing waits and nothing is left over.                          *)
LEMMA LoadEndKeeps == IInv /\ LoadEnd => IInv'
  <1> SUFFICES ASSUME IInv, LoadEnd PROVE IInv'
      OBVIOUS
  <1>1. /\ load.pc = "batches" /\ load.batch = {} /\ load.todo = {} /\ load.had \ load.seen = {}
        /\ load' = [load EXCEPT !.pc = "view", !.filings = NoLoad.filings, !.had = {}, !.seen = {}]
        /\ clean' = IF load.full /\ ~load.dirty THEN clean \union {load.policy} ELSE clean
        /\ UNCHANGED <<current, worklist, fetched, accepted, stored, view, used, rebuilding>>
      BY DEF LoadEnd, BatchesDone, LeftOver
  <1>2. load \in Loads /\ load.policy \in Policies
      BY <1>1 DEF IInv, Typed, LoadInv, Loads
  <1>3. NoLoad.filings \in [Objects -> Listings]
      BY DEF NoLoad, Listings
  <1>4. /\ load' \in Loads
        /\ load'.pc = "view" /\ load'.policy = load.policy /\ load'.dirty = load.dirty
        /\ load'.seen = {} /\ load'.batch = {} /\ load'.todo = {}
      BY <1>1, <1>2, <1>3 DEF Loads
  <1>5. \A q, o : RuleRows(q, o)' = RuleRows(q, o) /\ StoredRows(q, o)' = StoredRows(q, o)
      BY <1>1, RuleRowsSame, StoredRowsSame
  <1>6. clean' \subseteq Policies
      BY <1>1, <1>2 DEF IInv, Typed
  <1>7. Typed'
      BY <1>1, <1>4, <1>6 DEF IInv, Typed
  <1>8. KeptInv' /\ YearInv' /\ UpToDate' /\ FullInv'
      BY <1>1, <1>4 DEF IInv, KeptInv, YearInv, UpToDate, FullInv
  <1>9. LoadInv'
      BY <1>1, <1>2, <1>4, ConstantsAssumption DEF LoadInv, Waiting
  <1>10. CleanInv'
      BY <1>1, <1>4 DEF IInv, CleanInv
  <1>11. FullLoadIsRule'
    <2>1. \A p \in clean, o \in Objects : StoredRows(p, o) = RuleRows(p, o)
        BY DEF IInv, FullLoadIsRule
    <2>2. load.full /\ ~load.dirty =>
            \A o \in Objects : StoredRows(load.policy, o) = RuleRows(load.policy, o)
        BY <1>1 DEF IInv, FullInv, Waiting
    <2> QED
        BY <1>1, <1>5, <2>1, <2>2 DEF FullLoadIsRule
  <1> QED
      BY <1>7, <1>8, <1>9, <1>10, <1>11 DEF IInv

(* A load over, or stopped: what is committed stays.                       *)
LEMMA NoLoadKeeps ==
  ASSUME IInv, load' = NoLoad, clean' \subseteq clean, Typed',
         UNCHANGED <<current, worklist, fetched, accepted, stored>>
  PROVE  IInv'
  <1>1. \A q, o : RuleRows(q, o)' = RuleRows(q, o) /\ StoredRows(q, o)' = StoredRows(q, o)
      BY RuleRowsSame, StoredRowsSame
  <1>2. KeptInv' /\ YearInv' /\ FullLoadIsRule'
      BY <1>1 DEF IInv, KeptInv, YearInv, FullLoadIsRule
  <1>3. LoadInv' /\ UpToDate' /\ FullInv' /\ CleanInv'
      BY DEF NoLoad, LoadInv, Waiting, UpToDate, FullInv, CleanInv
  <1> QED
      BY <1>2, <1>3 DEF IInv

LEMMA EndsKeep == IInv /\ (EnsureView \/ Stop) => IInv'
  <1> SUFFICES ASSUME IInv, EnsureView \/ Stop PROVE IInv'
      OBVIOUS
  <1>1. NoLoad \in Loads
      BY DEF NoLoad, Loads, Listings, Found
  <1>2. CASE EnsureView
    <2>1. load.policy \in Policies \union {None}
        BY DEF IInv, Typed, Loads
    <2>2. Typed'
        BY <1>1, <1>2, <2>1 DEF IInv, Typed, EnsureView
    <2> QED
        BY <1>2, <2>2, NoLoadKeeps DEF EnsureView
  <1>3. CASE Stop
    <2>1. Typed'
        BY <1>1, <1>3 DEF IInv, Typed, Stop
    <2> QED
        BY <1>3, <2>1, NoLoadKeeps DEF Stop
  <1> QED
      BY <1>2, <1>3

-----------------------------------------------------------------------------
LEMMA StepPreserves == IInv /\ [Next]_vars => IInv'
  <1> SUFFICES ASSUME IInv, [Next]_vars PROVE IInv'
      OBVIOUS
  <1>1. CASE RebuildStart \/ Rebuild \/ RebuildFails \/ RebuildFields \/ WorkList
      BY <1>1, RebuildStartKeeps, RebuildKeeps, RebuildFailsKeeps, RebuildFieldsKeeps, WorkListKeeps
  <1>2. CASE \E o \in Objects : Fetch(o) \/ LoadFiling(o) \/ EmptyFiling(o)
      BY <1>2, FetchKeeps, LoadFilingKeeps, EmptyFilingKeeps
  <1>3. CASE \E p \in Policies :
               \/ ViewCommand(p)
               \/ \E o \in Objects : Agree(p, o)
               \/ \E scope \in {Objects} \union {{o} : o \in Objects} : LoadStart(p, scope)
      BY <1>3, ViewCommandKeeps, AgreeKeeps, LoadStartKeeps
  <1>4. CASE ReadBatch \/ LoadEnd \/ EnsureView \/ Stop
      BY <1>4, ReadBatchKeeps, LoadEndKeeps, EndsKeep
  <1>5. CASE UNCHANGED vars
    <2>1. Typed' /\ YearInv'
        BY <1>5 DEF IInv, Typed, YearInv, vars
    <2> QED
        BY <1>5, <2>1, LoadUntouched DEF vars
  <1> QED
      BY <1>1, <1>2, <1>3, <1>4, <1>5 DEF Next

LEMMA Invariance == Spec => []IInv
  BY InitEstablishes, StepPreserves, PTL DEF Spec

(* For any policies, filings and lists, and however loads, kills, rebuilds *)
(* and drops interleave: after a full load during which, and since which,  *)
(* nothing it reads has changed, every filing has the rows the rule gives. *)
THEOREM FullLoadsAreTheRule == Spec => []FullLoadIsRule
  <1>1. IInv => FullLoadIsRule
      BY DEF IInv
  <1> QED
      BY <1>1, Invariance, PTL

(* Every filing stored has rows and every year its own filing; a load has  *)
(* come to nothing but what had rows or is on its list.                    *)
THEOREM LoadTypeCorrect == Spec => []TypeOK
  <1>1. IInv => TypeOK
    <2> SUFFICES ASSUME IInv PROVE TypeOK
        OBVIOUS
    <2>1. \A p \in Policies, o \in Objects : stored[p][o] # None =>
            stored[p][o] \in RecoveredGrants /\ stored[p][o].rows # {}
        BY DEF IInv, Typed, KeptInv, Kept
    <2>2. \A o \in Objects : worklist[o] # None => worklist[o] \in PlaceholderFiling
        BY DEF IInv, Typed, Listings
    <2> QED
        BY <2>1, <2>2 DEF IInv, Typed, YearInv, LoadInv, TypeOK
  <1> QED
      BY <1>1, Invariance, PTL

-----------------------------------------------------------------------------
(* A load over what a full load covered writes nothing                     *)

LEMMA LoadFilingWrites ==
  ASSUME IInv, NEW o \in Objects, LoadFiling(o), NEW q \in clean
  PROVE  stored'[q] = stored[q]
  <1>0. PICK p : p = load.policy
      OBVIOUS
  <1> DEFINE rows == Rows(load.filings[o], load.found[o])
             passed == load.found[o] = None \/ (rows = {} /\ o \notin load.had)
  <1>1. /\ load.pc = "batches" /\ o \in load.batch /\ load.policy = p
        /\ stored' = IF passed THEN stored ELSE Synced(p, o, rows)
      BY <1>0 DEF LoadFiling
  <1>2. load \in Loads /\ p \in Policies /\ q \in Policies
      BY <1>1 DEF IInv, Typed, LoadInv, Loads
  <1>3. CASE passed
      BY <1>1, <1>3
  <1>4. CASE ~passed
    <2>1. rows \in LoadedLists
      <3>1. load.found[o] \in Seq(Targets \X Nat)
          BY <1>2, <1>4, ConstantsAssumption DEF Loads, Found, Targets
      <3>2. load.filings[o] \in PlaceholderFiling
          BY <1>1, <1>2 DEF IInv, LoadInv, Waiting, Loads, Listings
      <3> QED
          BY <3>1, <3>2, RowsAreLists
    <2>2. CASE q # p
        BY <1>1, <1>2, <1>4, <2>1, <2>2, SyncedRows DEF IInv
    <2>3. CASE q = p
      <3>1. ~load.dirty
          BY <1>1, <2>3 DEF IInv, CleanInv
      <3>2. /\ o \in fetched /\ load.filings[o] = worklist[o] /\ load.filings[o] # None
            /\ load.found[o] = accepted[p][o] /\ load.found[o] # None
          BY <1>1, <1>4, <3>1 DEF IInv, UpToDate, LoadInv, Waiting
      <3>3. rows = RuleRows(p, o)
          BY <3>2 DEF RuleRows
      <3>4. StoredRows(p, o) = rows
          BY <2>3, <3>3 DEF IInv, FullLoadIsRule
      <3> QED
          BY <1>1, <1>2, <1>4, <2>1, <3>4, SyncedRows DEF IInv
    <2> QED
        BY <2>2, <2>3
  <1> QED
      BY <1>3, <1>4

LEMMA EmptyFilingWrites ==
  ASSUME IInv, NEW o \in Objects, EmptyFiling(o), NEW q \in clean
  PROVE  stored'[q] = stored[q]
  <1>0. PICK p : p = load.policy
      OBVIOUS
  <1>1. /\ load.pc = "batches" /\ load.batch = {} /\ load.todo = {} /\ load.policy = p
        /\ o \in load.had \ load.seen /\ stored' = Synced(p, o, {})
      BY <1>0 DEF EmptyFiling, BatchesDone, LeftOver
  <1>2. p \in Policies /\ q \in Policies /\ {} \in LoadedLists
      BY <1>1 DEF IInv, Typed, LoadInv, Loads, LoadedLists
  <1>3. CASE q # p
      BY <1>1, <1>2, <1>3, SyncedRows DEF IInv
  <1>4. CASE q = p
    <2>1. ~load.dirty
        BY <1>1, <1>4 DEF IInv, CleanInv
    <2>2. RuleRows(p, o) = {}
        BY <1>1, <2>1 DEF IInv, UpToDate, Waiting
    <2>3. StoredRows(p, o) = {}
        BY <1>4, <2>2 DEF IInv, FullLoadIsRule
    <2>4. stored' = stored
        BY <1>1, <2>3 DEF Synced, SameRows
    <2> QED
        BY <2>4
  <1> QED
      BY <1>3, <1>4

(* A load of anything the last full load covered writes nothing: the rows  *)
(* keep the time they were loaded, whichever policy and whichever filings  *)
(* the loads since were for.                                               *)
THEOREM RepeatsWriteNothing == Spec => RepeatWritesNothing
  <1>1. IInv /\ [Next]_vars => [\A p \in clean : p \in clean' => stored'[p] = stored[p]]_vars
    <2> SUFFICES ASSUME IInv, Next, NEW p \in clean
                 PROVE  stored'[p] = stored[p]
        OBVIOUS
    <2>1. CASE \E o \in Objects : LoadFiling(o) \/ EmptyFiling(o)
        BY <2>1, LoadFilingWrites, EmptyFilingWrites
    <2>2. CASE ~ \E o \in Objects : LoadFiling(o) \/ EmptyFiling(o)
      <3>1. UNCHANGED stored
          BY <2>2 DEF Next, RebuildStart, Rebuild, RebuildFails, RebuildFields, WorkList, Fetch, ViewCommand, Agree,
             LoadStart, ReadBatch, LoadEnd, EnsureView, Stop
      <3> QED
          BY <3>1
    <2> QED
        BY <2>1, <2>2
  <1> QED
      BY <1>1, Invariance, PTL DEF Spec, RepeatWritesNothing

-----------------------------------------------------------------------------
(* The view adds up                                                        *)

(* The dollars of no list, and of one.                                     *)
LEMMA SumOfNone == MapThenSumSet(LAMBDA l : l[1].total, {}) = 0
  <1> DEFINE TakenOut(f) == f = [s \in SUBSET {} |->
                IF s = {} THEN 0 ELSE LET x == CHOOSE x \in s : TRUE IN x[1].total + f[s \ {x}]]
             sum == CHOOSE f : TakenOut(f)
  <1>1. \E f : TakenOut(f)
    <2>1. TakenOut([s \in SUBSET {} |-> 0])
        OBVIOUS
    <2> QED
        BY <2>1
  <1>2. TakenOut(sum)
      BY <1>1
  <1>3. sum[{}] = 0
      BY <1>2
  <1>4. MapThenSumSet(LAMBDA l : l[1].total, {}) = sum[{}]
      BY DEF MapThenSumSet, MapThenFoldSet
  <1> QED
      BY <1>3, <1>4

LEMMA SumOfOne ==
  ASSUME NEW e, e[1].total \in Nat
  PROVE  MapThenSumSet(LAMBDA l : l[1].total, {e}) = e[1].total
  <1> DEFINE TakenOut(f) == f = [s \in SUBSET {e} |->
                IF s = {} THEN 0 ELSE LET x == CHOOSE x \in s : TRUE IN x[1].total + f[s \ {x}]]
             sum == CHOOSE f : TakenOut(f)
  <1>1. \E f : TakenOut(f)
    <2> DEFINE f0 == [s \in SUBSET {e} |-> IF s = {} THEN 0 ELSE e[1].total]
    <2>1. \A s \in SUBSET {e} : s # {} => s = {e}
        OBVIOUS
    <2>2. (CHOOSE x \in {e} : TRUE) = e
        OBVIOUS
    <2>3. \A s \in SUBSET {e} : f0[s] = IF s = {} THEN 0 ELSE LET x == CHOOSE x \in s : TRUE IN x[1].total + f0[s \ {x}]
      <3> SUFFICES ASSUME NEW s \in SUBSET {e}, s # {}
                   PROVE  f0[s] = LET x == CHOOSE x \in s : TRUE IN x[1].total + f0[s \ {x}]
          OBVIOUS
      <3>1. s = {e}
          BY <2>1
      <3>2. f0[{e}] = e[1].total /\ f0[{}] = 0 /\ {e} \ {e} = {}
          OBVIOUS
      <3> HIDE DEF f0
      <3> QED
          BY <2>2, <3>1, <3>2
    <2>4. f0 = [s \in SUBSET {e} |-> f0[s]]
        OBVIOUS
    <2>5. TakenOut(f0)
      <3> HIDE DEF f0
      <3> QED
        BY <2>3, <2>4
    <2> QED
        BY <2>5
  <1>2. TakenOut(sum)
      BY <1>1
  <1>3. sum[{}] = 0
      BY <1>2
  <1>4. sum[{e}] = e[1].total
    <2>1. (CHOOSE x \in {e} : TRUE) = e /\ {e} \ {e} = {}
        OBVIOUS
    <2>2. sum[{e}] = e[1].total + sum[{}]
        BY <1>2, <2>1
    <2> QED
        BY <1>3, <2>2
  <1>5. MapThenSumSet(LAMBDA l : l[1].total, {e}) = sum[{e}]
      BY DEF MapThenSumSet, MapThenFoldSet
  <1> QED
      BY <1>4, <1>5

(* An amount is within the tolerance of itself.                            *)
LEMMA NearItself ==
  ASSUME NEW amount \in Nat
  PROVE  Near(amount, amount)
  <1>1. Tolerance * amount \in Nat
      BY ToleranceAssumption
  <1> QED
      BY <1>1 DEF Near, Off

(* With the table what the rule gives and the work list the one of the     *)
(* current relations, a shown filing's paid list is one, held to the       *)
(* amount its placeholder states; a year shows one filing at most.         *)
LEMMA ViewHolds == IInv => ViewAddsUp
  <1> SUFFICES ASSUME IInv, view \in clean, \A o \in Objects : worklist[o] = Listed(o), NEW y \in Years
               PROVE  /\ \A o \in ShownFilings(y) : \A l \in PaidRows(view, o) : l.declared = current[y].paid
                      /\ Near(Dollars(y), current[y].paid)
                      /\ ShownFilings(y) = {} => Dollars(y) = current[y].paid
      BY DEF ViewAddsUp
  <1>1. current[y] \in [object : Objects, paid : Nat, future : Nat]
      BY DEF IInv, Typed
  <1>2. \A o \in ShownFilings(y) :
          /\ o = current[y].object
          /\ \E l : /\ PaidRows(view, o) = {l} /\ l.total \in Nat
                    /\ l.declared = current[y].paid /\ Near(l.total, current[y].paid)
    <2> SUFFICES ASSUME NEW o \in ShownFilings(y)
                 PROVE  /\ o = current[y].object
                        /\ \E l : /\ PaidRows(view, o) = {l} /\ l.total \in Nat
                                  /\ l.declared = current[y].paid /\ Near(l.total, current[y].paid)
        OBVIOUS
    <2>1. o \in Objects /\ PaidRows(view, o) # {} /\ YearOf[o] = y /\ Placeholder(o)
        BY DEF ShownFilings
    <2>2. o = current[y].object
        BY <2>1 DEF Placeholder
    <2>3. StoredRows(view, o) = RuleRows(view, o) /\ view \in Policies
        BY <2>1 DEF IInv, Typed, FullLoadIsRule
    <2>4. \A l \in PaidRows(view, o) : l \in RuleRows(view, o) /\ l.target = "paid"
        BY <2>3 DEF PaidRows
    <2>5. PICK l : l \in PaidRows(view, o)
        BY <2>1
    <2>6. worklist[o] # None /\ accepted[view][o] # None
          /\ RuleRows(view, o) = Rows(worklist[o], accepted[view][o])
        BY <2>4, <2>5 DEF RuleRows
    <2>7. worklist[o].paid = current[y].paid
      <3>1. worklist[o] = Listed(o)
          BY <2>1
      <3>2. worklist[o] = [paid |-> current[y].paid, future |-> current[y].future]
          BY <2>1, <2>6, <3>1 DEF Listed
      <3> QED
          BY <3>2
    <2>8. worklist[o] \in PlaceholderFiling
        BY <2>1, <2>6 DEF IInv, Typed, Listings
    <2>9. accepted[view][o] \in Seq(Targets \X Nat)
        BY <2>1, <2>3, <2>6, ConstantsAssumption DEF IInv, Typed, Found, Targets
    <2> DEFINE rows == Rows(worklist[o], accepted[view][o])
    <2>10. /\ rows \in LoadedLists
           /\ \A k \in rows : k.declared = worklist[o][k.target] /\ Near(k.total, k.declared)
           /\ \A k, m \in rows : k.target = m.target => k = m
        BY <2>8, <2>9, RowsAreLists
    <2> HIDE DEF rows
    <2>11. l \in rows /\ \A k \in PaidRows(view, o) : k \in rows /\ k.target = "paid"
        BY <2>4, <2>5, <2>6 DEF rows
    <2>12. PaidRows(view, o) = {l}
        BY <2>5, <2>10, <2>11
    <2>13. l.total \in Nat
        BY <2>10, <2>11 DEF LoadedLists
    <2>14. l.declared = current[y].paid
        BY <2>5, <2>7, <2>10, <2>11
    <2>15. Near(l.total, current[y].paid)
        BY <2>10, <2>11, <2>14
    <2> QED
        BY <2>2, <2>12, <2>13, <2>14, <2>15
  <1> DEFINE lists == UNION {PaidRows(view, o) \X {o} : o \in ShownFilings(y)}
  <1>3. Dollars(y) = MapThenSumSet(LAMBDA l : l[1].total, lists)
                       + (IF ShownFilings(y) = {} THEN current[y].paid ELSE 0)
      BY DEF Dollars
  <1>4. CASE ShownFilings(y) = {}
    <2>1. lists = {}
        BY <1>4
    <2> HIDE DEF lists
    <2>2. Dollars(y) = current[y].paid
        BY <1>1, <1>3, <1>4, <2>1, SumOfNone
    <2> QED
        BY <1>1, <1>4, <2>2, NearItself
  <1>5. CASE ShownFilings(y) # {}
    <2>1. PICK o : o \in ShownFilings(y)
        BY <1>5
    <2>2. PICK l : /\ PaidRows(view, o) = {l} /\ l.total \in Nat
                   /\ l.declared = current[y].paid /\ Near(l.total, current[y].paid)
        BY <1>2, <2>1
    <2> DEFINE e == <<l, o>>
    <2>3. ShownFilings(y) = {o}
        BY <1>2, <2>1
    <2>4. lists = {l} \X {o}
        BY <2>2, <2>3
    <2>5. lists = {e}
        BY <2>4
    <2>6. e[1].total = l.total
        OBVIOUS
    <2> HIDE DEF lists, e
    <2>7. MapThenSumSet(LAMBDA x : x[1].total, {e}) = e[1].total
        BY <2>2, <2>6, SumOfOne
    <2>8. Dollars(y) = l.total
        BY <1>3, <1>5, <2>2, <2>5, <2>6, <2>7
    <2>9. Near(Dollars(y), current[y].paid)
        BY <2>2, <2>8
    <2>10. \A x \in ShownFilings(y) : \A k \in PaidRows(view, x) : k.declared = current[y].paid
        BY <2>2, <2>3
    <2> QED
        BY <1>5, <2>9, <2>10
  <1> QED
      BY <1>4, <1>5

(* Whatever came before: with the work list the one of the current         *)
(* relations, and the view's policy loaded since, a list shown was held to *)
(* the amount its placeholder states today, and the view holds the dollars *)
(* privategrants_current holds, year by year: to the tolerance where it    *)
(* shows a list, and to the dollar where it shows none.                    *)
THEOREM ViewsAddUp == Spec => []ViewAddsUp
  BY ViewHolds, Invariance, PTL

-----------------------------------------------------------------------------
(* Which version of a filer-year is kept: CurrentRules, by CurrentProblems *)

(* In a finite set a strict order has a member nothing comes before.       *)
LEMMA NothingBefore ==
  ASSUME NEW S, IsFiniteSet(S), S # {}, NEW R,
         \A x \in S : <<x, x>> \notin R,
         \A x, y, z \in S : <<x, y>> \in R /\ <<y, z>> \in R => <<x, z>> \in R
  PROVE  \E x \in S : \A y \in S : <<y, x>> \notin R
  <1> DEFINE Before(x) == {y \in S : <<y, x>> \in R}
             Tails == {Before(x) : x \in S}
  <1>1. Tails \subseteq FiniteSubsetsOf(S) /\ Tails # {}
    <2>1. Tails \subseteq SUBSET S
        OBVIOUS
    <2>2. PICK x \in S : TRUE
        OBVIOUS
    <2>3. Before(x) \in Tails
        OBVIOUS
    <2> HIDE DEF Tails
    <2> QED
        BY <2>1, <2>3, FS_FiniteSubsetsOfFinite
  <1> HIDE DEF Tails
  <1>2. PICK D \in Tails : \A E \in Tails : ~(<<E, D>> \in StrictSubsetOrdering(S))
      BY <1>1, FS_StrictSubsetOrderingWellFounded, WFMin
  <1> USE DEF Tails
  <1>3. PICK x \in S : D = Before(x)
      BY <1>2
  <1>4. SUFFICES ASSUME NEW y \in S, <<y, x>> \in R PROVE FALSE
      BY <1>3
  <1>5. Before(y) \subseteq Before(x) /\ y \in Before(x) /\ y \notin Before(y)
      BY <1>4
  <1>6. <<Before(y), Before(x)>> \in StrictSubsetOrdering(S)
      BY <1>5 DEF StrictSubsetOrdering
  <1>7. Before(y) \in Tails
      OBVIOUS
  <1> QED
      BY <1>2, <1>3, <1>6, <1>7

LEMMA LargestIs ==
  ASSUME NEW S \in SUBSET Nat, IsFiniteSet(S), S # {}
  PROVE  Largest(S) \in S /\ \A y \in S : Largest(S) >= y
  <1> DEFINE R == {e \in S \X S : e[1] > e[2]}
  <1>1. PICK x \in S : \A y \in S : <<y, x>> \notin R
    <2>1. \A x \in S : <<x, x>> \notin R
        OBVIOUS
    <2>2. \A x, y, z \in S : <<x, y>> \in R /\ <<y, z>> \in R => <<x, z>> \in R
        OBVIOUS
    <2> HIDE DEF R
    <2> QED
        BY <2>1, <2>2, NothingBefore
  <1>2. \A y \in S : x >= y
    <2> TAKE y \in S
    <2>1. ~(y > x)
      <3> SUFFICES ASSUME y > x PROVE FALSE
          OBVIOUS
      <3>1. <<y, x>> \in R
          OBVIOUS
      <3> QED
          BY <1>1, <3>1
    <2> QED
        BY <2>1
  <1> QED
      BY <1>2 DEF Largest

LEMMA FirstOf ==
  ASSUME NEW S \in SUBSET Nat, IsFiniteSet(S), S # {}
  PROVE  \E x \in S : \A y \in S : x =< y
  <1> DEFINE R == {e \in S \X S : e[1] < e[2]}
  <1>1. PICK x \in S : \A y \in S : <<y, x>> \notin R
    <2>1. \A x \in S : <<x, x>> \notin R
        OBVIOUS
    <2>2. \A x, y, z \in S : <<x, y>> \in R /\ <<y, z>> \in R => <<x, z>> \in R
        OBVIOUS
    <2> HIDE DEF R
    <2> QED
        BY <2>1, <2>2, NothingBefore
  <1>2. ASSUME NEW y \in S PROVE x =< y
    <2>1. ~(y < x)
      <3> SUFFICES ASSUME y < x PROVE FALSE
          OBVIOUS
      <3>1. <<y, x>> \in R
          OBVIOUS
      <3> QED
          BY <1>1, <3>1
    <2> QED
        BY <2>1
  <1> QED
      BY <1>2

(* What a function makes of a finite set is finite.                        *)
LEMMA ImageFinite ==
  ASSUME NEW S, IsFiniteSet(S), NEW f, DOMAIN f = S, f = [x \in S |-> f[x]]
  PROVE  IsFiniteSet({f[x] : x \in S})
  <1>1. f \in Surjection(S, {f[x] : x \in S})
      BY DEF Surjection
  <1> QED
      BY <1>1, FS_Surjection

LEMMA FieldsFinite ==
  ASSUME NEW S, IsFiniteSet(S)
  PROVE  IsFiniteSet({b.url : b \in S}) /\ IsFiniteSet({b.sha : b \in S})
  <1>1. IsFiniteSet({[b \in S |-> b.url][x] : x \in S})
      BY ImageFinite
  <1>2. IsFiniteSet({[b \in S |-> b.sha][x] : x \in S})
      BY ImageFinite
  <1>3. /\ {[b \in S |-> b.url][x] : x \in S} = {b.url : b \in S}
        /\ {[b \in S |-> b.sha][x] : x \in S} = {b.sha : b \in S}
      OBVIOUS
  <1> QED
      BY <1>1, <1>2, <1>3

(* The rows of a sequence, and those of it after itself.                   *)
LEMMA RowsOf ==
  ASSUME NEW rows, rows \in Seq(ToSet(rows))
  PROVE  /\ DOMAIN rows = 1..Len(rows) /\ Len(rows) \in Nat
         /\ IsFiniteSet(DOMAIN rows) /\ IsFiniteSet(ToSet(rows))
         /\ \A i \in DOMAIN rows : rows[i] \in ToSet(rows)
         /\ rows # <<>> => ToSet(rows) # {}
  <1>1. DOMAIN rows = 1..Len(rows) /\ Len(rows) \in Nat
      OBVIOUS
  <1>2. IsFiniteSet(DOMAIN rows)
      BY <1>1, FS_Interval
  <1>3. ToSet(rows) = {rows[i] : i \in DOMAIN rows}
      BY DEF ToSet
  <1>4. IsFiniteSet(ToSet(rows))
      BY <1>1, <1>2, <1>3, ImageFinite
  <1> QED
      BY <1>1, <1>2, <1>3, <1>4

(* An amendment that holds line items, or else the latest url, is a url of *)
(* the rows.                                                               *)
LEMMA SchedIUrlIs ==
  ASSUME NEW rows, rows \in Seq(ToSet(rows)), rows # <<>>, \A r \in ToSet(rows) : r.url \in Nat, NEW basic,
         NEW amended, amended = {u \in Urls(rows) : \E b \in ToSet(basic) : b.url = u /\ b.amended},
         NEW among, among = IF amended # {} THEN amended ELSE Urls(rows)
  PROVE  SchedIUrl(rows, basic) \in among /\ \A u \in among : SchedIUrl(rows, basic) >= u
  <1>1. IsFiniteSet(Urls(rows)) /\ Urls(rows) # {} /\ Urls(rows) \subseteq Nat
    <2>1. IsFiniteSet(ToSet(rows)) /\ ToSet(rows) # {}
        BY RowsOf
    <2>2. Urls(rows) = {r.url : r \in ToSet(rows)}
        BY DEF Urls
    <2> QED
        BY <2>1, <2>2, FieldsFinite
  <1>2. IsFiniteSet(among) /\ among # {} /\ among \in SUBSET Nat
      BY <1>1, FS_Subset
  <1>3. SchedIUrl(rows, basic) = Largest(among)
      BY DEF SchedIUrl
  <1> QED
      BY <1>2, <1>3, LargestIs

LEMMA SchedIUrlHasRows ==
  ASSUME NEW rows, rows \in Seq(ToSet(rows)), rows # <<>>, \A r \in ToSet(rows) : r.url \in Nat, NEW basic
  PROVE  Under(rows, SchedIUrl(rows, basic)) # {}
  <1>1. SchedIUrl(rows, basic) \in Urls(rows)
      BY SchedIUrlIs
  <1> QED
      BY <1>1 DEF Urls, Under, ToSet

(* The order of versions is strict, and one version comes first in it.     *)
Version(b) == b.url \in Nat /\ b.sha \in Nat /\ b.amended \in BOOLEAN /\ b.metric \in BOOLEAN

LEMMA OrderIsStrict ==
  ASSUME NEW b, Version(b), NEW c, Version(c), NEW d, Version(d)
  PROVE  /\ ~VersionBefore(b, b, TRUE)
         /\ VersionBefore(b, c, TRUE) /\ VersionBefore(c, d, TRUE) => VersionBefore(b, d, TRUE)
  BY DEF Version, VersionBefore

LEMMA CurrentVersionIs ==
  ASSUME NEW basic, basic \in Seq(ToSet(basic)), basic # <<>>, \A b \in ToSet(basic) : Version(b)
  PROVE  /\ CurrentVersion(basic, TRUE) \in ToSet(basic)
         /\ \A c \in ToSet(basic) : ~VersionBefore(c, CurrentVersion(basic, TRUE), TRUE)
  <1> DEFINE S == ToSet(basic)
             R == {e \in S \X S : VersionBefore(e[1], e[2], TRUE)}
  <1>1. IsFiniteSet(S) /\ S # {}
      BY RowsOf
  <1> HIDE DEF S
  <1>2. \A b, c \in S : <<b, c>> \in R <=> VersionBefore(b, c, TRUE)
      OBVIOUS
  <1> HIDE DEF R
  <1>3. \A b \in S : Version(b)
      BY DEF S
  <1>4. \A b \in S : <<b, b>> \notin R
      BY <1>2, <1>3, OrderIsStrict
  <1>5. \A b, c, d \in S : <<b, c>> \in R /\ <<c, d>> \in R => <<b, d>> \in R
      BY <1>2, <1>3, OrderIsStrict
  <1>6. \E b \in S : \A c \in S : <<c, b>> \notin R
      BY <1>1, <1>4, <1>5, NothingBefore
  <1>7. \E b \in S : \A c \in S : ~VersionBefore(c, b, TRUE)
      BY <1>2, <1>6
  <1> QED
      BY <1>7 DEF S, CurrentVersion

(* The versions all report the metric: the one kept is an amendment if     *)
(* there is one, and of those the latest.                                  *)
LEMMA AmongReporting ==
  ASSUME NEW S, NEW v \in S, \A b \in S : Version(b) /\ b.metric, \A c \in S : ~VersionBefore(c, v, TRUE)
  PROVE  /\ (\E b \in S : b.amended) => v.amended
         /\ \A b \in S : b.amended = v.amended => v.url >= b.url
  BY DEF Version, VersionBefore

LEMMA OneFiling ==
  ASSUME NEW rows, rows \in Seq(ToSet(rows)), rows # <<>>, \A r \in ToSet(rows) : r.url \in Nat,
         NEW basic, basic \in Seq(ToSet(basic)), basic # <<>>, \A b \in ToSet(basic) : Version(b) /\ b.metric,
         {b.url : b \in ToSet(basic)} = Urls(rows)
  PROVE  CurrentVersion(basic, TRUE).url = SchedIUrl(rows, basic)
  <1> DEFINE v == CurrentVersion(basic, TRUE)
             S == ToSet(basic)
             amended == {u \in Urls(rows) : \E b \in S : b.url = u /\ b.amended}
             among == IF amended # {} THEN amended ELSE Urls(rows)
             url == SchedIUrl(rows, basic)
  <1>1. v \in S /\ \A c \in S : ~VersionBefore(c, v, TRUE)
      BY CurrentVersionIs
  <1>2. url \in among /\ \A u \in among : url >= u
      BY SchedIUrlIs
  <1> HIDE DEF v, url
  <1>3. /\ (\E b \in S : b.amended) => v.amended
        /\ \A b \in S : b.amended = v.amended => v.url >= b.url
      BY <1>1, AmongReporting
  <1>4. \A b \in S : b.url \in Nat /\ b.amended \in BOOLEAN /\ b.url \in Urls(rows)
      BY DEF Version
  <1>5. amended # {} <=> v.amended
      BY <1>1, <1>3, <1>4
  <1>6. v.url \in among
      BY <1>1, <1>4, <1>5
  <1>7. PICK b \in S : b.url = url /\ b.amended = v.amended
    <2>1. CASE amended # {}
        BY <1>2, <1>4, <1>5, <2>1
    <2>2. CASE amended = {}
      <3>1. PICK b \in S : b.url = url
          BY <1>2, <2>2
      <3> QED
          BY <1>1, <1>3, <1>4, <1>5, <2>2, <3>1
    <2> QED
        BY <2>1, <2>2
  <1>8. v.url >= url /\ url >= v.url /\ v.url \in Nat /\ url \in Nat
      BY <1>1, <1>2, <1>3, <1>4, <1>6, <1>7
  <1>9. v.url = url
      BY <1>8
  <1> QED
      BY <1>9 DEF v, url

(* The copies of rank 1 of a line item of a block, the line items a block  *)
(* holds, and where a set of rows holds one.                               *)
Firsts(rows, block, i) == {j \in Copies(rows, block, i) : CopyRank(rows, block, j) = 1}
Items(rows, block) == {LineItem(rows[i]) : i \in block}
Holding(rows, kept, t) == {i \in kept : LineItem(rows[i]) = t}

(* Of the copies of a line item the one of rank 1 is the first.            *)
LEMMA FirstCopyKept ==
  ASSUME NEW rows, rows \in Seq(ToSet(rows)), NEW block \in SUBSET DOMAIN rows, NEW i \in block
  PROVE  \E m \in block : Firsts(rows, block, i) = {m}
  <1> DEFINE C == Copies(rows, block, i)
  <1>1. C \subseteq block /\ i \in C /\ C \in SUBSET Nat /\ IsFiniteSet(C)
    <2>1. C \subseteq DOMAIN rows /\ DOMAIN rows \subseteq Nat
        BY RowsOf DEF Copies
    <2> QED
        BY <2>1, RowsOf, FS_Subset DEF Copies
  <1>2. \A j \in C : Copies(rows, block, j) = C
      BY DEF Copies
  <1> HIDE DEF C
  <1>3. PICK m \in C : \A j \in C : m =< j
      BY <1>1, FirstOf
  <1>4. \A j \in C : CopyRank(rows, block, j) = Cardinality({k \in C : k =< j})
      BY <1>2 DEF CopyRank
  <1>5. CopyRank(rows, block, m) = 1
    <2>1. \A k \in C : k =< m <=> k = m
        BY <1>1, <1>3
    <2>2. {k \in C : k =< m} = {m}
        BY <1>3, <2>1
    <2> QED
        BY <1>3, <1>4, <2>2, FS_Singleton
  <1>6. ASSUME NEW j \in C, CopyRank(rows, block, j) = 1 PROVE j = m
    <2> DEFINE K == {k \in C : k =< j}
    <2>1. j \in K /\ m \in K
        BY <1>1, <1>3
    <2>2. Cardinality(K) = 1 /\ IsFiniteSet(K)
        BY <1>1, <1>4, <1>6, FS_Subset
    <2> HIDE DEF K
    <2> QED
        BY <2>1, <2>2, FS_Singleton
  <1> QED
      BY <1>1, <1>3, <1>5, <1>6 DEF C, Firsts

(* So a block of which the first copies are kept holds each of its line    *)
(* items once.                                                             *)
LEMMA FirstCopies ==
  ASSUME NEW rows, rows \in Seq(ToSet(rows)), NEW block \in SUBSET DOMAIN rows,
         NEW kept, kept = {i \in block : CopyRank(rows, block, i) = 1}
  PROVE  Contents(rows, kept) = [t \in Items(rows, block) |-> 1]
  <1>1. \A i \in block : \E m \in block : Holding(rows, kept, LineItem(rows[i])) = {m}
    <2> TAKE i \in block
    <2>1. Holding(rows, kept, LineItem(rows[i])) = Firsts(rows, block, i)
        BY DEF Copies, Firsts, Holding
    <2>2. \E m \in block : Firsts(rows, block, i) = {m}
        BY FirstCopyKept
    <2> QED
        BY <2>1, <2>2
  <1>2. Items(rows, kept) = Items(rows, block)
    <2>1. \A i \in block : \E m \in kept : LineItem(rows[m]) = LineItem(rows[i])
        BY <1>1 DEF Holding
    <2> QED
        BY <2>1 DEF Items
  <1>3. ASSUME NEW t \in Items(rows, block) PROVE Cardinality(Holding(rows, kept, t)) = 1
    <2>1. PICK i \in block : t = LineItem(rows[i])
        BY DEF Items
    <2> QED
        BY <1>1, <2>1, FS_Singleton
  <1>4. Contents(rows, kept) = [t \in Items(rows, kept) |-> Cardinality(Holding(rows, kept, t))]
      BY DEF Contents, Items, Holding
  <1> QED
      BY <1>2, <1>3, <1>4

(* A list given twice has the urls and the line items it has once.         *)
LEMMA GivenTwice ==
  ASSUME NEW rows, rows \in Seq(ToSet(rows)), NEW copied, copied = rows \o rows
  PROVE  /\ copied \in Seq(ToSet(copied)) /\ ToSet(copied) = ToSet(rows)
         /\ \A u : Items(copied, Under(copied, u)) = Items(rows, Under(rows, u))
  <1> DEFINE n == Len(rows)
  <1>1. n \in Nat /\ DOMAIN rows = 1..n /\ DOMAIN copied = 1..(n + n)
      BY RowsOf
  <1>2. \A i \in 1..n : copied[i] = rows[i]
      BY <1>1
  <1>3. \A i \in 1..(n + n) : i > n => i - n \in 1..n /\ copied[i] = rows[i - n]
      BY <1>1
  <1>4. ToSet(copied) = ToSet(rows)
    <2>1. /\ \A r : r \in ToSet(copied) <=> \E i \in 1..(n + n) : r = copied[i]
          /\ \A r : r \in ToSet(rows) <=> \E i \in 1..n : r = rows[i]
        BY <1>1 DEF ToSet
    <2>2. \A i \in 1..(n + n) : \E j \in 1..n : copied[i] = rows[j]
        BY <1>1, <1>2, <1>3
    <2>3. \A j \in 1..n : j \in 1..(n + n)
        BY <1>1
    <2>4. \A r : r \in ToSet(copied) => r \in ToSet(rows)
        BY <2>1, <2>2
    <2>5. \A r : r \in ToSet(rows) => r \in ToSet(copied)
        BY <1>2, <2>1, <2>3
    <2> QED
        BY <2>4, <2>5
  <1>5. copied \in Seq(ToSet(copied))
      BY <1>4
  <1>6. ASSUME NEW u PROVE Items(copied, Under(copied, u)) = Items(rows, Under(rows, u))
    <2>1. \A i \in Under(copied, u) : \E j \in Under(rows, u) : copied[i] = rows[j]
      <3> TAKE i \in Under(copied, u)
      <3>1. i \in 1..(n + n) /\ copied[i].url = u
          BY <1>1 DEF Under
      <3>2. PICK j \in 1..n : copied[i] = rows[j]
          BY <1>1, <1>2, <1>3, <3>1
      <3> QED
          BY <1>1, <3>1, <3>2 DEF Under
    <2>2. \A j \in Under(rows, u) : j \in Under(copied, u) /\ copied[j] = rows[j]
        BY <1>1, <1>2 DEF Under
    <2> QED
        BY <2>1, <2>2 DEF Items
  <1> QED
      BY <1>4, <1>5, <1>6

(* So an amended year holds each line item of its filing once.             *)
LEMMA AmendedYear ==
  ASSUME NEW rows, rows \in Seq(ToSet(rows)), NEW basic, Filings(basic) \in Nat, Filings(basic) >= 2
  PROVE  Contents(rows, SchedIKept(rows, basic)) = [t \in Items(rows, Under(rows, SchedIUrl(rows, basic))) |-> 1]
  <1> DEFINE block == Under(rows, SchedIUrl(rows, basic))
             kept == SchedIKept(rows, basic)
  <1>1. block \in SUBSET DOMAIN rows
      BY DEF Under
  <1>2. kept = {i \in block : CopyRank(rows, block, i) = 1}
      BY DEF SchedIKept
  <1> HIDE DEF block, kept
  <1>3. Contents(rows, kept) = [t \in Items(rows, block) |-> 1]
      BY <1>1, <1>2, FirstCopies
  <1> QED
      BY <1>3 DEF block, kept

LEMMA AmendedYearTwice ==
  ASSUME NEW rows, rows \in Seq(ToSet(rows)), NEW copied, copied \in Seq(ToSet(copied)),
         ToSet(copied) = ToSet(rows), \A u : Items(copied, Under(copied, u)) = Items(rows, Under(rows, u)),
         NEW basic, Filings(basic) \in Nat, Filings(basic) >= 2
  PROVE  Contents(copied, SchedIKept(copied, basic)) = Contents(rows, SchedIKept(rows, basic))
  <1>1. SchedIUrl(copied, basic) = SchedIUrl(rows, basic)
      BY DEF SchedIUrl, Urls
  <1>2. Contents(copied, SchedIKept(copied, basic))
          = [t \in Items(copied, Under(copied, SchedIUrl(copied, basic))) |-> 1]
      BY AmendedYear
  <1>3. Contents(rows, SchedIKept(rows, basic)) = [t \in Items(rows, Under(rows, SchedIUrl(rows, basic))) |-> 1]
      BY AmendedYear
  <1> QED
      BY <1>1, <1>2, <1>3

(* What is kept of a year is of the url it is read from.                   *)
LEMMA KeptUrl ==
  ASSUME NEW rows, rows \in Seq(ToSet(rows)), rows # <<>>, \A r \in ToSet(rows) : r.url \in Nat, NEW basic
  PROVE  rows[CHOOSE i \in SchedIKept(rows, basic) : TRUE].url = SchedIUrl(rows, basic)
  <1> DEFINE block == Under(rows, SchedIUrl(rows, basic))
             kept == SchedIKept(rows, basic)
  <1>1. block # {} /\ block \in SUBSET DOMAIN rows
      BY SchedIUrlHasRows DEF Under
  <1>2. kept = {i \in block : Filings(basic) < 2 \/ CopyRank(rows, block, i) = 1}
      BY DEF SchedIKept
  <1>3. PICK i \in block : TRUE
      BY <1>1
  <1>4. \A j \in block : rows[j].url = SchedIUrl(rows, basic)
      BY DEF Under
  <1> HIDE DEF block, kept
  <1>5. \E m \in block : Firsts(rows, block, i) = {m}
      BY <1>1, <1>3, FirstCopyKept
  <1>6. Firsts(rows, block, i) \subseteq kept
      BY <1>2 DEF Copies, Firsts
  <1>7. (CHOOSE j \in kept : TRUE) \in block
      BY <1>2, <1>5, <1>6
  <1> QED
      BY <1>4, <1>7 DEF kept

(* The four clauses, of any filer-year.                                    *)
LEMMA VersionsHold ==
  ASSUME NEW rows, rows \in Seq(ToSet(rows)), rows # <<>>, \A r \in ToSet(rows) : r.url \in Nat,
         NEW basic, basic \in Seq(ToSet(basic)), basic # <<>>, \A b \in ToSet(basic) : Version(b)
  PROVE  /\ (\A b \in ToSet(basic) : b.metric) /\ {b.url : b \in ToSet(basic)} = Urls(rows) =>
              CurrentVersion(basic, TRUE).url = rows[CHOOSE i \in SchedIKept(rows, basic) : TRUE].url
         /\ (\E b \in ToSet(basic) : b.metric) => CurrentVersion(basic, TRUE).metric
         /\ Filings(basic) >= 2 =>
              Contents(rows \o rows, SchedIKept(rows \o rows, basic)) = Contents(rows, SchedIKept(rows, basic))
         /\ Filings(basic) < 2 =>
              SchedIKept(rows, basic) = Under(rows, rows[CHOOSE i \in SchedIKept(rows, basic) : TRUE].url)
  <1>1. Filings(basic) \in Nat
    <2>1. IsFiniteSet({b.sha : b \in ToSet(basic)})
        BY RowsOf, FieldsFinite
    <2> QED
        BY <2>1, FS_CardinalityType DEF Filings
  <1>2. rows[CHOOSE i \in SchedIKept(rows, basic) : TRUE].url = SchedIUrl(rows, basic)
      BY KeptUrl
  <1>3. (\A b \in ToSet(basic) : b.metric) /\ {b.url : b \in ToSet(basic)} = Urls(rows) =>
          CurrentVersion(basic, TRUE).url = SchedIUrl(rows, basic)
      BY OneFiling
  <1>4. (\E b \in ToSet(basic) : b.metric) => CurrentVersion(basic, TRUE).metric
    <2>1. /\ CurrentVersion(basic, TRUE) \in ToSet(basic)
          /\ \A c \in ToSet(basic) : ~VersionBefore(c, CurrentVersion(basic, TRUE), TRUE)
        BY CurrentVersionIs
    <2> QED
        BY <2>1 DEF Version, VersionBefore
  <1>5. Filings(basic) >= 2 =>
          Contents(rows \o rows, SchedIKept(rows \o rows, basic)) = Contents(rows, SchedIKept(rows, basic))
    <2>1. PICK copied : copied = rows \o rows
        OBVIOUS
    <2>2. /\ copied \in Seq(ToSet(copied)) /\ ToSet(copied) = ToSet(rows)
          /\ \A u : Items(copied, Under(copied, u)) = Items(rows, Under(rows, u))
        BY <2>1, GivenTwice
    <2>3. Filings(basic) >= 2 =>
            Contents(copied, SchedIKept(copied, basic)) = Contents(rows, SchedIKept(rows, basic))
        BY <1>1, <2>2, AmendedYearTwice
    <2> QED
        BY <2>1, <2>3
  <1>6. Filings(basic) < 2 => SchedIKept(rows, basic) = Under(rows, SchedIUrl(rows, basic))
      BY DEF SchedIKept
  <1> QED
      BY <1>2, <1>3, <1>4, <1>5, <1>6

(* Of every filer-year with versions and line items: the line items and    *)
(* the financials are of one filing where every version reports the metric *)
(* and lists grants, an amendment's copy of the list counts once, and a    *)
(* year without an amendment keeps its repeated grants                     *)
(* (current_grants._BASIC_FIELDS_SELECT, _SCHED_I_CURRENT_DDL).            *)
THEOREM YearsAreOfOneFiling == VersionSpec => []VersionsAgree
  <1> DEFINE Answered == VersionsPosed(problem) /\ answer \in {Unanswered, Versioned(problem)}
  <1>1. VersionsPosed(problem) /\ answer = Unanswered => Answered
      OBVIOUS
  <1>2. /\ Answered
        /\ [answer = Unanswered /\ VersionStep /\ UNCHANGED problem]_<<problem, answer>>
        => Answered'
      BY DEF VersionStep, Versioned, VersionsPosed, HasItems
  <1>3. Answered => VersionsAgree
    <2> SUFFICES ASSUME Answered, Solved("versions") PROVE VersionsAgree
        BY DEF VersionsAgree
    <2>1. answer = [version |-> CurrentVersion(problem.basic, TRUE), kept |-> SchedIKept(problem.rows, problem.basic)]
        BY DEF Solved, Versioned
    <2>2. answer.version = CurrentVersion(problem.basic, TRUE) /\ answer.kept = SchedIKept(problem.rows, problem.basic)
        BY <2>1
    <2>3. /\ problem.rows \in Seq(ToSet(problem.rows)) /\ problem.rows # <<>>
          /\ \A r \in ToSet(problem.rows) : r.url \in Nat
          /\ problem.basic \in Seq(ToSet(problem.basic)) /\ problem.basic # <<>>
          /\ \A b \in ToSet(problem.basic) : Version(b)
        BY DEF VersionsPosed, HasItems, Version
    <2> DEFINE rows == problem.rows
               basic == problem.basic
    <2>4. /\ (\A b \in ToSet(basic) : b.metric) /\ {b.url : b \in ToSet(basic)} = Urls(rows) =>
               CurrentVersion(basic, TRUE).url = rows[CHOOSE i \in SchedIKept(rows, basic) : TRUE].url
          /\ (\E b \in ToSet(basic) : b.metric) => CurrentVersion(basic, TRUE).metric
          /\ Filings(basic) >= 2 =>
               Contents(rows \o rows, SchedIKept(rows \o rows, basic)) = Contents(rows, SchedIKept(rows, basic))
          /\ Filings(basic) < 2 =>
               SchedIKept(rows, basic) = Under(rows, rows[CHOOSE i \in SchedIKept(rows, basic) : TRUE].url)
      <3> HIDE DEF rows, basic
      <3> QED
          BY <2>3, VersionsHold DEF rows, basic
    <2> QED
        BY <2>2, <2>4 DEF VersionsAgree
  <1> QED
      BY <1>1, <1>2, <1>3, PTL DEF VersionSpec

-----------------------------------------------------------------------------
(* Which line items of a 990-PF block are kept: CurrentRules               *)

(* A family of subsets of a finite set has a smallest one.                 *)
LEMMA SmallestSet ==
  ASSUME NEW S, IsFiniteSet(S), NEW F \in SUBSET (SUBSET S), F # {}
  PROVE  \E T \in F : \A U \in F : U \subseteq T => U = T
  <1>1. F \subseteq FiniteSubsetsOf(S)
      BY FS_FiniteSubsetsOfFinite
  <1>2. PICK T \in F : \A U \in F : ~(<<U, T>> \in StrictSubsetOrdering(S))
      BY <1>1, FS_StrictSubsetOrderingWellFounded, WFMin
  <1>3. ASSUME NEW U \in F, U \subseteq T, U # T PROVE FALSE
    <2>1. <<U, T>> \in StrictSubsetOrdering(S)
        BY <1>3 DEF StrictSubsetOrdering
    <2> QED
        BY <1>2, <2>1
  <1> QED
      BY <1>3

(* The sum of rows is a fold: a function on sets that unfolds one row.     *)
AnyOf(s) == CHOOSE x \in s : TRUE

Unfolds(rows, S, f) ==
  f = [s \in SUBSET S |-> IF s = {} THEN 0 ELSE f[s \ {AnyOf(s)}] + rows[AnyOf(s)].amt]

UnfoldsTo(rows, S, f, n) ==
  \A s \in SUBSET S : Cardinality(s) =< n =>
    f[s] = IF s = {} THEN 0 ELSE f[s \ {AnyOf(s)}] + rows[AnyOf(s)].amt

HaveAmounts(rows, S) == \A i \in S : rows[i].amt \in Int

(* It has one for the sets of up to n rows, for every n, and so for all.   *)
LEMMA FoldUpTo ==
  ASSUME NEW rows, NEW S, IsFiniteSet(S), HaveAmounts(rows, S), NEW n \in Nat
  PROVE  \E f \in [SUBSET S -> Int] : UnfoldsTo(rows, S, f, n)
  <1> DEFINE Bad == {k \in Nat : ~\E f \in [SUBSET S -> Int] : UnfoldsTo(rows, S, f, k)}
  <1>1. \A s \in SUBSET S : IsFiniteSet(s) /\ Cardinality(s) \in Nat /\ (Cardinality(s) = 0 <=> s = {})
      BY FS_Subset, FS_CardinalityType, FS_EmptySet
  <1>2. \A s \in SUBSET S : s # {} => AnyOf(s) \in s /\ AnyOf(s) \in S /\ rows[AnyOf(s)].amt \in Int
      BY DEF HaveAmounts, AnyOf
  <1>3. \A s \in SUBSET S : s # {} => s \ {AnyOf(s)} \in SUBSET S /\ Cardinality(s \ {AnyOf(s)}) = Cardinality(s) - 1
      BY <1>1, <1>2, FS_RemoveElement
  <1>4. 0 \notin Bad
    <2>1. [s \in SUBSET S |-> 0] \in [SUBSET S -> Int]
        OBVIOUS
    <2>2. UnfoldsTo(rows, S, [s \in SUBSET S |-> 0], 0)
        BY <1>1 DEF UnfoldsTo
    <2> QED
        BY <2>1, <2>2
  <1>5. ASSUME NEW k \in Nat, k \notin Bad PROVE k + 1 \notin Bad
    <2>1. PICK f \in [SUBSET S -> Int] : UnfoldsTo(rows, S, f, k)
        BY <1>5
    <2> DEFINE g == [s \in SUBSET S |-> IF s = {} THEN 0 ELSE f[s \ {AnyOf(s)}] + rows[AnyOf(s)].amt]
    <2>2. g \in [SUBSET S -> Int]
        BY <1>2, <1>3
    <2>3. \A s \in SUBSET S : Cardinality(s) =< k => g[s] = f[s]
        BY <2>1 DEF UnfoldsTo
    <2>4. ASSUME NEW s \in SUBSET S, Cardinality(s) =< k + 1
          PROVE  g[s] = IF s = {} THEN 0 ELSE g[s \ {AnyOf(s)}] + rows[AnyOf(s)].amt
      <3>1. CASE s = {}
          BY <3>1
      <3>2. CASE s # {}
        <4>1. s \ {AnyOf(s)} \in SUBSET S /\ Cardinality(s \ {AnyOf(s)}) =< k
            BY <1>1, <1>3, <2>4, <3>2
        <4>2. g[s \ {AnyOf(s)}] = f[s \ {AnyOf(s)}]
            BY <2>3, <4>1
        <4>3. g[s] = f[s \ {AnyOf(s)}] + rows[AnyOf(s)].amt
            BY <3>2
        <4> HIDE DEF g
        <4> QED
            BY <3>2, <4>2, <4>3
      <3> QED
          BY <3>1, <3>2
    <2> HIDE DEF g
    <2>5. UnfoldsTo(rows, S, g, k + 1)
        BY <2>4 DEF UnfoldsTo
    <2> QED
        BY <2>2, <2>5
  <1>6. Bad = {}
    <2> SUFFICES ASSUME Bad # {} PROVE FALSE
        OBVIOUS
    <2>1. Bad \subseteq Nat
        OBVIOUS
    <2> HIDE DEF Bad
    <2>2. PICK k \in Bad : \A j \in Bad : ~(<<j, k>> \in OpToRel(<, Nat))
        BY <2>1, WFMin, NatLessThanWellFounded
    <2>3. k \in Nat /\ k # 0
        BY <1>4, <2>1
    <2>4. k - 1 \in Nat /\ <<k - 1, k>> \in OpToRel(<, Nat)
        BY <2>3 DEF OpToRel
    <2>5. k - 1 \notin Bad
        BY <2>2, <2>4
    <2>6. (k - 1) + 1 \notin Bad
        BY <1>5, <2>4, <2>5
    <2> QED
        BY <2>3, <2>6
  <1>7. PICK f \in [SUBSET S -> Int] : UnfoldsTo(rows, S, f, n)
      BY <1>6
  <1> QED
      BY <1>7

LEMMA FoldExists ==
  ASSUME NEW rows, NEW S, IsFiniteSet(S), HaveAmounts(rows, S)
  PROVE  \E f \in [SUBSET S -> Int] : Unfolds(rows, S, f)
  <1>1. Cardinality(S) \in Nat /\ \A s \in SUBSET S : Cardinality(s) =< Cardinality(S)
      BY FS_CardinalityType, FS_Subset
  <1>2. PICK f \in [SUBSET S -> Int] : UnfoldsTo(rows, S, f, Cardinality(S))
      BY <1>1, FoldUpTo
  <1>3. Unfolds(rows, S, f)
      BY <1>1, <1>2 DEF Unfolds, UnfoldsTo
  <1> QED
      BY <1>3

(* Two that unfold agree where both are defined.                           *)
LEMMA FoldsAgree ==
  ASSUME NEW rows, NEW S, IsFiniteSet(S), NEW T \in SUBSET S, NEW f, Unfolds(rows, S, f), NEW g, Unfolds(rows, T, g)
  PROVE  \A s \in SUBSET T : f[s] = g[s]
  <1> DEFINE Bad == {s \in SUBSET T : f[s] # g[s]}
  <1>1. \A s \in SUBSET T : f[s] = IF s = {} THEN 0 ELSE f[s \ {AnyOf(s)}] + rows[AnyOf(s)].amt
      BY DEF Unfolds
  <1>2. \A s \in SUBSET T : g[s] = IF s = {} THEN 0 ELSE g[s \ {AnyOf(s)}] + rows[AnyOf(s)].amt
      BY DEF Unfolds
  <1>3. \A s \in SUBSET T : s # {} => AnyOf(s) \in s
      BY DEF AnyOf
  <1>4. SUFFICES ASSUME Bad # {} PROVE FALSE
      OBVIOUS
  <1>5. Bad \in SUBSET (SUBSET T) /\ IsFiniteSet(T)
      BY FS_Subset
  <1>6. PICK s \in Bad : \A u \in Bad : u \subseteq s => u = s
    <2> HIDE DEF Bad
    <2> QED
        BY <1>4, <1>5, SmallestSet
  <1>7. s # {}
      BY <1>1, <1>2, <1>6
  <1>8. s \ {AnyOf(s)} \notin Bad
      BY <1>3, <1>6, <1>7
  <1>9. f[s \ {AnyOf(s)}] = g[s \ {AnyOf(s)}]
      BY <1>6, <1>8
  <1> QED
      BY <1>1, <1>2, <1>6, <1>7, <1>9

(* The sum of no rows is 0; of others, what it is without any one of them, *)
(* and that one's amount.                                                  *)
LEMMA SumUnfolds ==
  ASSUME NEW rows, NEW S, IsFiniteSet(S), HaveAmounts(rows, S)
  PROVE  /\ SumOf(rows, S) \in Int
         /\ S = {} => SumOf(rows, S) = 0
         /\ S # {} => \E x \in S : SumOf(rows, S) = SumOf(rows, S \ {x}) + rows[x].amt
  <1> DEFINE sum(T) == CHOOSE f : Unfolds(rows, T, f)
             c == AnyOf(S)
  <1>1. \A T \in SUBSET S : IsFiniteSet(T) /\ HaveAmounts(rows, T)
      BY FS_Subset DEF HaveAmounts
  <1>2. \A T \in SUBSET S : Unfolds(rows, T, sum(T))
      BY <1>1, FoldExists
  <1>3. \A T \in SUBSET S : SumOf(rows, T) = sum(T)[T]
      BY DEF SumOf, FoldSet, MapThenFoldSet, Unfolds, AnyOf
  <1> HIDE DEF sum
  <1>4. PICK f \in [SUBSET S -> Int] : Unfolds(rows, S, f)
      BY FoldExists
  <1>5. \A T \in SUBSET S : SumOf(rows, T) = f[T]
      BY <1>2, <1>3, <1>4, FoldsAgree
  <1>6. SumOf(rows, S) \in Int
      BY <1>4, <1>5
  <1>7. S = {} => SumOf(rows, S) = 0
      BY <1>4, <1>5 DEF Unfolds
  <1>8. S # {} => c \in S /\ SumOf(rows, S) = SumOf(rows, S \ {c}) + rows[c].amt
    <2> SUFFICES ASSUME S # {} PROVE c \in S /\ SumOf(rows, S) = SumOf(rows, S \ {c}) + rows[c].amt
        OBVIOUS
    <2>1. c \in S
        BY DEF AnyOf
    <2>2. f[S] = f[S \ {c}] + rows[c].amt
        BY <1>4 DEF Unfolds
    <2> QED
        BY <1>5, <2>1, <2>2
  <1> QED
      BY <1>6, <1>7, <1>8

LEMMA SumWithout ==
  ASSUME NEW rows, NEW S, IsFiniteSet(S), HaveAmounts(rows, S), NEW x \in S
  PROVE  SumOf(rows, S) = SumOf(rows, S \ {x}) + rows[x].amt
  <1> DEFINE Bad == {T \in SUBSET S : \E y \in T : SumOf(rows, T) # SumOf(rows, T \ {y}) + rows[y].amt}
  <1>1. SUFFICES Bad = {}
      BY <1>1
  <1>2. SUFFICES ASSUME Bad # {} PROVE FALSE
      OBVIOUS
  <1>3. PICK T \in Bad : \A U \in Bad : U \subseteq T => U = T
    <2>1. Bad \in SUBSET (SUBSET S)
        OBVIOUS
    <2> HIDE DEF Bad
    <2> QED
        BY <1>2, <2>1, SmallestSet
  <1>4. PICK y \in T : SumOf(rows, T) # SumOf(rows, T \ {y}) + rows[y].amt
      BY <1>3
  <1>5. \A U \in SUBSET S : IsFiniteSet(U) /\ HaveAmounts(rows, U) /\ SumOf(rows, U) \in Int
    <2>1. \A U \in SUBSET S : IsFiniteSet(U) /\ HaveAmounts(rows, U)
        BY FS_Subset DEF HaveAmounts
    <2> QED
        BY <2>1, SumUnfolds
  <1>6. T \in SUBSET S
      BY <1>3
  <1>7. PICK c \in T : SumOf(rows, T) = SumOf(rows, T \ {c}) + rows[c].amt
      BY <1>4, <1>5, <1>6, SumUnfolds
  <1>8. c # y
      BY <1>4, <1>7
  <1>9. T \ {c} \notin Bad /\ T \ {y} \notin Bad /\ T \ {c} \in SUBSET S /\ T \ {y} \in SUBSET S
      BY <1>3, <1>4, <1>6, <1>7
  <1>10. SumOf(rows, T \ {c}) = SumOf(rows, (T \ {c}) \ {y}) + rows[y].amt
      BY <1>4, <1>8, <1>9
  <1>11. SumOf(rows, T \ {y}) = SumOf(rows, (T \ {y}) \ {c}) + rows[c].amt
      BY <1>7, <1>8, <1>9
  <1>12. (T \ {y}) \ {c} = (T \ {c}) \ {y} /\ (T \ {c}) \ {y} \in SUBSET S
      BY <1>6
  <1>13. rows[c].amt \in Int /\ rows[y].amt \in Int /\ SumOf(rows, (T \ {c}) \ {y}) \in Int
      BY <1>4, <1>5, <1>6, <1>7, <1>12 DEF HaveAmounts
  <1>14. SumOf(rows, T) = SumOf(rows, T \ {y}) + rows[y].amt
    <2> DEFINE rest == SumOf(rows, (T \ {c}) \ {y})
    <2>1. SumOf(rows, T) = (rest + rows[y].amt) + rows[c].amt
        BY <1>7, <1>10
    <2>2. SumOf(rows, T \ {y}) = rest + rows[c].amt
        BY <1>11, <1>12
    <2>3. rest \in Int
        BY <1>13
    <2> HIDE DEF rest
    <2>4. (rest + rows[y].amt) + rows[c].amt = (rest + rows[c].amt) + rows[y].amt
        BY <1>13, <2>3
    <2> QED
        BY <2>1, <2>2, <2>4
  <1> QED
      BY <1>4, <1>14

(* What follows of sums: of equal amounts, and of two sets.                *)
LEMMA SumOfNothing ==
  ASSUME NEW rows, NEW S, IsFiniteSet(S), \A i \in S : rows[i].amt = 0
  PROVE  SumOf(rows, S) = 0
  <1> DEFINE Bad == {T \in SUBSET S : SumOf(rows, T) # 0}
  <1>1. SUFFICES ASSUME Bad # {} PROVE FALSE
      OBVIOUS
  <1>2. PICK T \in Bad : \A U \in Bad : U \subseteq T => U = T
    <2>1. Bad \in SUBSET (SUBSET S)
        OBVIOUS
    <2> HIDE DEF Bad
    <2> QED
        BY <1>1, <2>1, SmallestSet
  <1>3. T \in SUBSET S /\ IsFiniteSet(T) /\ HaveAmounts(rows, T) /\ SumOf(rows, T) # 0
      BY <1>2, FS_Subset DEF HaveAmounts
  <1>4. T # {}
      BY <1>3, SumUnfolds
  <1>5. PICK x \in T : TRUE
      BY <1>4
  <1>6. T \ {x} \notin Bad
      BY <1>2, <1>5
  <1>7. SumOf(rows, T \ {x}) = 0
      BY <1>3, <1>6
  <1>8. SumOf(rows, T) = SumOf(rows, T \ {x}) + rows[x].amt
      BY <1>3, <1>5, SumWithout
  <1> QED
      BY <1>3, <1>5, <1>7, <1>8

LEMMA SumOfOneRow ==
  ASSUME NEW rows, NEW x, rows[x].amt \in Int
  PROVE  SumOf(rows, {x}) = rows[x].amt
  <1>1. IsFiniteSet({x}) /\ HaveAmounts(rows, {x})
      BY FS_Singleton DEF HaveAmounts
  <1>2. SumOf(rows, {x}) = SumOf(rows, {x} \ {x}) + rows[x].amt
      BY <1>1, SumWithout
  <1>3. {x} \ {x} = {} /\ SumOf(rows, {}) = 0
      BY FS_EmptySet, SumOfNothing
  <1> QED
      BY <1>2, <1>3

LEMMA SumOfTwo ==
  ASSUME NEW rows, NEW A, IsFiniteSet(A), NEW B, IsFiniteSet(B), A \cap B = {}, HaveAmounts(rows, A), HaveAmounts(rows, B)
  PROVE  SumOf(rows, A \cup B) = SumOf(rows, A) + SumOf(rows, B)
  <1> DEFINE Bad == {T \in SUBSET A : SumOf(rows, T \cup B) # SumOf(rows, T) + SumOf(rows, B)}
  <1>1. SUFFICES ASSUME Bad # {} PROVE FALSE
      OBVIOUS
  <1>2. PICK T \in Bad : \A U \in Bad : U \subseteq T => U = T
    <2>1. Bad \in SUBSET (SUBSET A)
        OBVIOUS
    <2> HIDE DEF Bad
    <2> QED
        BY <1>1, <2>1, SmallestSet
  <1>3. \A U \in SUBSET A : /\ IsFiniteSet(U) /\ HaveAmounts(rows, U) /\ SumOf(rows, U) \in Int
                            /\ IsFiniteSet(U \cup B) /\ HaveAmounts(rows, U \cup B) /\ SumOf(rows, U \cup B) \in Int
    <2>1. \A U \in SUBSET A : /\ IsFiniteSet(U) /\ HaveAmounts(rows, U)
                              /\ IsFiniteSet(U \cup B) /\ HaveAmounts(rows, U \cup B)
        BY FS_Subset, FS_Union DEF HaveAmounts
    <2> QED
        BY <2>1, SumUnfolds
  <1>4. SumOf(rows, B) \in Int
      BY SumUnfolds
  <1>5. T \in SUBSET A /\ SumOf(rows, T \cup B) # SumOf(rows, T) + SumOf(rows, B)
      BY <1>2
  <1>6. T # {}
    <2>1. SumOf(rows, {}) = 0
        BY FS_EmptySet, SumOfNothing
    <2> QED
        BY <1>4, <1>5, <2>1
  <1>7. PICK x \in T : TRUE
      BY <1>6
  <1>8. SumOf(rows, (T \ {x}) \cup B) = SumOf(rows, T \ {x}) + SumOf(rows, B)
      BY <1>2, <1>5, <1>7
  <1>9. SumOf(rows, T) = SumOf(rows, T \ {x}) + rows[x].amt
      BY <1>3, <1>5, <1>7, SumWithout
  <1>10. SumOf(rows, T \cup B) = SumOf(rows, (T \ {x}) \cup B) + rows[x].amt
    <2>1. (T \cup B) \ {x} = (T \ {x}) \cup B
        BY <1>5, <1>7
    <2>2. SumOf(rows, T \cup B) = SumOf(rows, (T \cup B) \ {x}) + rows[x].amt
        BY <1>3, <1>5, <1>7, SumWithout
    <2> QED
        BY <2>1, <2>2
  <1>11. rows[x].amt \in Int /\ SumOf(rows, T \ {x}) \in Int
      BY <1>3, <1>5, <1>7 DEF HaveAmounts
  <1> QED
      BY <1>4, <1>5, <1>8, <1>9, <1>10, <1>11

LEMMA SizeOfTwo ==
  ASSUME NEW A, IsFiniteSet(A), NEW B, IsFiniteSet(B), A \cap B = {}
  PROVE  Cardinality(A \cup B) = Cardinality(A) + Cardinality(B)
  <1>1. Cardinality(A \cup B) = Cardinality(A) + Cardinality(B) - Cardinality(A \cap B)
      BY FS_Union
  <1>2. Cardinality(A) \in Nat /\ Cardinality(B) \in Nat /\ Cardinality(A \cap B) = 0
      BY FS_CardinalityType, FS_EmptySet
  <1> QED
      BY <1>1, <1>2

LEMMA SumOfSame ==
  ASSUME NEW rows, NEW S, IsFiniteSet(S), NEW a \in Int, \A i \in S : rows[i].amt = a
  PROVE  SumOf(rows, S) = Cardinality(S) * a
  <1> DEFINE Bad == {T \in SUBSET S : SumOf(rows, T) # Cardinality(T) * a}
  <1>1. SUFFICES ASSUME Bad # {} PROVE FALSE
      OBVIOUS
  <1>2. PICK T \in Bad : \A U \in Bad : U \subseteq T => U = T
    <2>1. Bad \in SUBSET (SUBSET S)
        OBVIOUS
    <2> HIDE DEF Bad
    <2> QED
        BY <1>1, <2>1, SmallestSet
  <1>3. T \in SUBSET S /\ IsFiniteSet(T) /\ HaveAmounts(rows, T) /\ SumOf(rows, T) # Cardinality(T) * a
      BY <1>2, FS_Subset DEF HaveAmounts
  <1>4. T # {}
      BY <1>3, SumUnfolds, FS_EmptySet
  <1>5. PICK x \in T : TRUE
      BY <1>4
  <1>6. SumOf(rows, T \ {x}) = Cardinality(T \ {x}) * a
      BY <1>2, <1>3, <1>5
  <1>7. SumOf(rows, T) = SumOf(rows, T \ {x}) + a
      BY <1>3, <1>5, SumWithout
  <1>8. Cardinality(T) \in Nat /\ Cardinality(T \ {x}) = Cardinality(T) - 1
      BY <1>3, <1>5, FS_RemoveElement, FS_CardinalityType
  <1>9. (Cardinality(T) - 1) * a + a = Cardinality(T) * a
      BY <1>8
  <1> QED
      BY <1>3, <1>6, <1>7, <1>8, <1>9

(* The rows of a set in the extract's order: as many are among the first n *)
(* as n, and so half of an even set is in its first half.                  *)
RankIn(C, i) == Cardinality({j \in C : j =< i})

LEMMA LastOf ==
  ASSUME NEW S \in SUBSET Nat, IsFiniteSet(S), S # {}
  PROVE  \E x \in S : \A y \in S : y =< x
  BY LargestIs

LEMMA AmongTheFirst ==
  \A C : IsFiniteSet(C) /\ C \subseteq Nat =>
    \A n \in Nat : n =< Cardinality(C) => Cardinality({i \in C : RankIn(C, i) =< n}) = n
  <1> SUFFICES ASSUME NEW C, IsFiniteSet(C)
               PROVE  C \subseteq Nat =>
                        \A n \in Nat : n =< Cardinality(C) => Cardinality({i \in C : RankIn(C, i) =< n}) = n
      OBVIOUS
  <1>0. SUFFICES ASSUME C \subseteq Nat, NEW n \in Nat, n =< Cardinality(C)
                 PROVE  Cardinality({i \in C : RankIn(C, i) =< n}) = n
      OBVIOUS
  <1> DEFINE First(T) == {i \in T : RankIn(T, i) =< n}
             Bad == {T \in SUBSET C : n =< Cardinality(T) /\ Cardinality(First(T)) # n}
  <1>1. SUFFICES ASSUME Bad # {} PROVE FALSE
      BY <1>0
  <1>2. PICK T \in Bad : \A U \in Bad : U \subseteq T => U = T
    <2>1. Bad \in SUBSET (SUBSET C)
        OBVIOUS
    <2> HIDE DEF Bad
    <2> QED
        BY <1>1, <2>1, SmallestSet
  <1>3. T \in SUBSET Nat /\ T \in SUBSET C /\ IsFiniteSet(T) /\ Cardinality(T) \in Nat
      BY <1>0, <1>2, FS_Subset, FS_CardinalityType
  <1>4. n =< Cardinality(T) /\ Cardinality(First(T)) # n
      BY <1>2
  <1>5. \A i \in T : RankIn(T, i) \in Nat /\ RankIn(T, i) =< Cardinality(T)
    <2> TAKE i \in T
    <2>1. {j \in T : j =< i} \subseteq T
        OBVIOUS
    <2> QED
        BY <1>3, <2>1, FS_Subset, FS_CardinalityType DEF RankIn
  <1>6. n # Cardinality(T)
    <2> SUFFICES ASSUME n = Cardinality(T) PROVE FALSE
        OBVIOUS
    <2>1. First(T) = T
        BY <1>5
    <2> QED
        BY <1>4, <2>1
  <1>7. T # {}
      BY <1>3, <1>4, <1>6, FS_EmptySet
  <1>8. PICK m \in T : \A y \in T : y =< m
      BY <1>3, <1>7, LastOf
  <1>9. Cardinality(T \ {m}) = Cardinality(T) - 1 /\ T \ {m} \in SUBSET C
      BY <1>3, <1>8, FS_RemoveElement
  <1>10. n =< Cardinality(T \ {m})
      BY <1>3, <1>4, <1>6, <1>9
  <1>11. RankIn(T, m) = Cardinality(T)
    <2>1. {j \in T : j =< m} = T
        BY <1>8
    <2> QED
        BY <2>1 DEF RankIn
  <1>12. \A i \in T \ {m} : RankIn(T, i) = RankIn(T \ {m}, i)
    <2> TAKE i \in T \ {m}
    <2>1. ~(m =< i)
        BY <1>3, <1>8
    <2>2. {j \in T : j =< i} = {j \in T \ {m} : j =< i}
        BY <2>1
    <2> QED
        BY <2>2 DEF RankIn
  <1>13. First(T) = First(T \ {m})
    <2>1. ~(RankIn(T, m) =< n)
        BY <1>3, <1>4, <1>6, <1>11
    <2>2. \A i \in T : RankIn(T, i) =< n <=> i # m /\ RankIn(T \ {m}, i) =< n
        BY <1>12, <2>1
    <2> QED
        BY <2>2
  <1>14. Cardinality(First(T \ {m})) = n
    <2>1. T \ {m} \notin Bad
        BY <1>2, <1>8
    <2> HIDE DEF First
    <2> QED
        BY <1>9, <1>10, <2>1
  <1> QED
      BY <1>4, <1>13, <1>14

LEMMA HalfOf ==
  ASSUME NEW C \in SUBSET Nat, IsFiniteSet(C), Cardinality(C) % 2 = 0
  PROVE  Cardinality({i \in C : RankIn(C, i) * 2 =< Cardinality(C)}) * 2 = Cardinality(C)
  <1>1. Cardinality(C) \in Nat
      BY FS_CardinalityType
  <1>2. PICK n \in Nat : Cardinality(C) = 2 * n
      BY <1>1
  <1>3. \A i \in C : RankIn(C, i) \in Nat
    <2> TAKE i \in C
    <2>1. {j \in C : j =< i} \subseteq C
        OBVIOUS
    <2> QED
        BY <2>1, FS_Subset, FS_CardinalityType DEF RankIn
  <1>4. {i \in C : RankIn(C, i) * 2 =< Cardinality(C)} = {i \in C : RankIn(C, i) =< n}
    <2>1. \A i \in C : RankIn(C, i) * 2 =< Cardinality(C) <=> RankIn(C, i) =< n
      <3> TAKE i \in C
      <3>1. \A k \in Nat : k * 2 =< 2 * n <=> k =< n
          OBVIOUS
      <3> QED
          BY <1>2, <1>3, <3>1
    <2> QED
        BY <2>1
  <1>5. Cardinality({i \in C : RankIn(C, i) =< n}) = n
    <2>1. n =< Cardinality(C) /\ C \subseteq Nat /\ IsFiniteSet(C)
        BY <1>2
    <2>2. \A k \in Nat : k =< Cardinality(C) => Cardinality({i \in C : RankIn(C, i) =< k}) = k
        BY <2>1, AmongTheFirst
    <2> QED
        BY <2>1, <2>2
  <1> QED
      BY <1>2, <1>4, <1>5

(* Of a set of rows that holds every line item an even number of times     *)
(* pair_collapse keeps half the rows, and half the sum.                    *)
FirstHalf(rows, W) == {i \in W : CopyRank(rows, W, i) * 2 =< Cardinality(Copies(rows, W, i))}

LEMMA HalfKept ==
  \A rows, W : /\ IsFiniteSet(W) /\ W \subseteq Nat /\ HaveAmounts(rows, W)
               /\ \A i \in W : Cardinality(Copies(rows, W, i)) % 2 = 0
               => /\ Cardinality(FirstHalf(rows, W)) * 2 = Cardinality(W)
                  /\ SumOf(rows, FirstHalf(rows, W)) * 2 = SumOf(rows, W)
  <1> SUFFICES ASSUME NEW rows, NEW W, IsFiniteSet(W), HaveAmounts(rows, W),
                      \A i \in W : Cardinality(Copies(rows, W, i)) % 2 = 0
               PROVE  W \subseteq Nat => /\ Cardinality(FirstHalf(rows, W)) * 2 = Cardinality(W)
                                         /\ SumOf(rows, FirstHalf(rows, W)) * 2 = SumOf(rows, W)
      OBVIOUS
  <1>0. SUFFICES ASSUME W \subseteq Nat
                 PROVE  /\ Cardinality(FirstHalf(rows, W)) * 2 = Cardinality(W)
                        /\ SumOf(rows, FirstHalf(rows, W)) * 2 = SumOf(rows, W)
      OBVIOUS
  <1> DEFINE H == FirstHalf(rows, W)
             Closed(T) == \A i \in T : Copies(rows, W, i) \subseteq T
             Halved(T) == /\ Cardinality(H \cap T) * 2 = Cardinality(T)
                          /\ SumOf(rows, H \cap T) * 2 = SumOf(rows, T)
             Bad == {T \in SUBSET W : Closed(T) /\ ~Halved(T)}
  <1>1. Closed(W) /\ H \cap W = H
      BY DEF Copies, FirstHalf
  <1>2. Bad = {} => Halved(W)
      BY <1>1
  <1>3. ASSUME Bad # {} PROVE FALSE
    <2>1. PICK T \in Bad : \A U \in Bad : U \subseteq T => U = T
      <3>1. Bad \in SUBSET (SUBSET W)
          OBVIOUS
      <3> HIDE DEF Bad
      <3> QED
          BY <1>3, <3>1, SmallestSet
    <2>2. T \in SUBSET W /\ Closed(T) /\ ~Halved(T)
        BY <2>1
    <2>3. \A U \in SUBSET W : /\ IsFiniteSet(U) /\ HaveAmounts(rows, U) /\ SumOf(rows, U) \in Int
                              /\ Cardinality(U) \in Nat
      <3>1. \A U \in SUBSET W : IsFiniteSet(U) /\ HaveAmounts(rows, U)
          BY FS_Subset DEF HaveAmounts
      <3> QED
          BY <3>1, SumUnfolds, FS_CardinalityType
    <2>4. T # {}
      <3> SUFFICES ASSUME T = {} PROVE FALSE
          OBVIOUS
      <3>1. H \cap T = {} /\ Cardinality({}) = 0 /\ SumOf(rows, {}) = 0
          BY FS_EmptySet, SumOfNothing
      <3> QED
          BY <2>2, <3>1
    <2>5. PICK i \in T : TRUE
        BY <2>4
    <2> DEFINE C == Copies(rows, W, i)
    <2>6. C \subseteq T /\ i \in C /\ C \in SUBSET W /\ C \in SUBSET Nat
        BY <1>0, <2>2, <2>5 DEF Copies
    <2>7. \A j \in C : Copies(rows, W, j) = C
        BY DEF Copies
    <2>8. Closed(T \ C) /\ T \ C \in SUBSET W
        BY <2>2, <2>7 DEF Copies
    <2>9. Cardinality(C) % 2 = 0 /\ IsFiniteSet(C)
        BY <2>3, <2>6
    <2>10. \A j \in C : LineItem(rows[j]) = LineItem(rows[i])
        BY DEF Copies
    <2>11. \A j \in C : rows[j].amt = rows[i].amt
        BY <2>10 DEF LineItem
    <2> HIDE DEF C
    <2>12. Halved(T \ C)
        BY <2>1, <2>5, <2>6, <2>8
    <2>13. H \cap C = {j \in C : RankIn(C, j) * 2 =< Cardinality(C)}
        BY <2>6, <2>7 DEF FirstHalf, CopyRank, RankIn
    <2>14. Cardinality(H \cap C) * 2 = Cardinality(C)
        BY <2>6, <2>9, <2>13, HalfOf
    <2>15. H \cap C \in SUBSET W /\ H \cap (T \ C) \in SUBSET W
        BY <2>6 DEF FirstHalf
    <2>16. rows[i].amt \in Int
        BY <2>3, <2>5, <2>2 DEF HaveAmounts
    <2>17. SumOf(rows, H \cap C) = Cardinality(H \cap C) * rows[i].amt
      <3> DEFINE E == H \cap C
      <3>1. IsFiniteSet(E) /\ \A j \in E : rows[j].amt = rows[i].amt
          BY <2>3, <2>11, <2>15
      <3> HIDE DEF E
      <3>2. SumOf(rows, E) = Cardinality(E) * rows[i].amt
          BY <2>16, <3>1, SumOfSame
      <3> QED
          BY <3>2 DEF E
    <2>18. SumOf(rows, C) = Cardinality(C) * rows[i].amt
        BY <2>3, <2>6, <2>11, <2>16, SumOfSame
    <2>19. SumOf(rows, H \cap C) * 2 = SumOf(rows, C)
      <3>1. PICK n \in Nat, a \in Int : n = Cardinality(H \cap C) /\ a = rows[i].amt
          BY <2>3, <2>15, <2>16
      <3>2. (n * a) * 2 = (n * 2) * a
          OBVIOUS
      <3> QED
          BY <2>14, <2>17, <2>18, <3>1, <3>2
    <2> HIDE DEF H
    <2>20. /\ T = C \cup (T \ C) /\ C \cap (T \ C) = {}
           /\ H \cap T = (H \cap C) \cup (H \cap (T \ C)) /\ (H \cap C) \cap (H \cap (T \ C)) = {}
        BY <2>6
    <2>21. /\ Cardinality(T) = Cardinality(C) + Cardinality(T \ C)
           /\ SumOf(rows, T) = SumOf(rows, C) + SumOf(rows, T \ C)
      <3> DEFINE D == T \ C
      <3>1. /\ IsFiniteSet(C) /\ HaveAmounts(rows, C) /\ Cardinality(C) \in Nat
            /\ IsFiniteSet(D) /\ HaveAmounts(rows, D) /\ Cardinality(D) \in Nat
          BY <2>3, <2>6, <2>8
      <3>2. T = C \cup D /\ C \cap D = {}
          BY <2>20
      <3> HIDE DEF D
      <3>3. SumOf(rows, C \cup D) = SumOf(rows, C) + SumOf(rows, D)
          BY <3>1, <3>2, SumOfTwo
      <3>4. Cardinality(C \cup D) = Cardinality(C) + Cardinality(D)
          BY <3>1, <3>2, SizeOfTwo
      <3> QED
          BY <3>2, <3>3, <3>4 DEF D
    <2>22. /\ Cardinality(H \cap T) = Cardinality(H \cap C) + Cardinality(H \cap (T \ C))
           /\ SumOf(rows, H \cap T) = SumOf(rows, H \cap C) + SumOf(rows, H \cap (T \ C))
      <3> DEFINE D == H \cap (T \ C)
                 E == H \cap C
      <3>1. /\ IsFiniteSet(E) /\ HaveAmounts(rows, E) /\ Cardinality(E) \in Nat
            /\ IsFiniteSet(D) /\ HaveAmounts(rows, D) /\ Cardinality(D) \in Nat
          BY <2>3, <2>15
      <3>2. H \cap T = E \cup D /\ E \cap D = {}
          BY <2>20
      <3> HIDE DEF D, E
      <3>3. SumOf(rows, E \cup D) = SumOf(rows, E) + SumOf(rows, D)
          BY <3>1, <3>2, SumOfTwo
      <3>4. Cardinality(E \cup D) = Cardinality(E) + Cardinality(D)
          BY <3>1, <3>2, SizeOfTwo
      <3> QED
          BY <3>2, <3>3, <3>4 DEF D, E
    <2>23. Halved(T)
        BY <2>3, <2>6, <2>8, <2>12, <2>14, <2>15, <2>19, <2>21, <2>22
    <2> QED
        BY <2>2, <2>23
  <1> QED
      BY <1>1, <1>2, <1>3

(* A block's rules, of any rows, block, line 25 and held rows.             *)
BlockOf(rows, block) ==
  rows \in Seq(ToSet(rows)) /\ block \in SUBSET DOMAIN rows /\ HaveAmounts(rows, block)

LEMMA BlockIs ==
  ASSUME NEW rows, NEW block, BlockOf(rows, block)
  PROVE  IsFiniteSet(block) /\ block \subseteq Nat
  <1>1. DOMAIN rows \subseteq Nat /\ IsFiniteSet(DOMAIN rows)
      BY RowsOf DEF BlockOf
  <1> QED
      BY <1>1, FS_Subset DEF BlockOf

LEMMA NoTotalAmong ==
  ASSUME NEW rows, NEW block, BlockOf(rows, block), NEW held \in {1, 2}, NEW line \in Int,
         \A i, j \in WithAmount(rows, block) : rows[i].amt = rows[j].amt
  PROVE  ~TotalUnder(rows, block, held, line)
  <1> SUFFICES ASSUME TotalUnder(rows, block, held, line) PROVE FALSE
      OBVIOUS
  <1> DEFINE W == block \ {i \in block : rows[i].amt = line}
  <1>1. PICK i \in block : rows[i].amt = line
      BY DEF TotalUnder
  <1>2. line > 0 /\ SumOf(rows, W) = line * held
      BY DEF TotalUnder
  <1>3. \A j \in W : rows[j].amt = 0
      BY <1>1, <1>2 DEF WithAmount
  <1>4. IsFiniteSet(W)
      BY BlockIs, FS_Subset
  <1> HIDE DEF W
  <1>5. SumOf(rows, W) = 0
      BY <1>3, <1>4, SumOfNothing
  <1>6. line * held = line \/ line * held = line + line
      OBVIOUS
  <1> QED
      BY <1>2, <1>5, <1>6

LEMMA RulesApart ==
  ASSUME NEW rows, NEW block, BlockOf(rows, block), NEW held \in {1, 2}, NEW d \in Int, NEW a \in Int
  PROVE  /\ ~(ForwardFill(rows, block, held, d, a) /\ FieldFill(rows, block, held, d, a))
         /\ ~(ForwardFill(rows, block, held, d, a) /\ TotalRow(rows, block, held, d, a))
         /\ ~(FieldFill(rows, block, held, d, a) /\ TotalRow(rows, block, held, d, a))
  <1>1. TotalRow(rows, block, held, d, a) =>
          TotalUnder(rows, block, held, d) \/ TotalUnder(rows, block, held, a)
      BY DEF TotalRow
  <1>2. ForwardFill(rows, block, held, d, a) =>
          \A i, j \in WithAmount(rows, block) : rows[i].amt = rows[j].amt
      BY DEF ForwardFill, OneTuple, LineItem, WithAmount
  <1>3. FieldFill(rows, block, held, d, a) =>
          \A i, j \in WithAmount(rows, block) : rows[i].amt = rows[j].amt
      BY DEF FieldFill
  <1>4. ~(ForwardFill(rows, block, held, d, a) /\ FieldFill(rows, block, held, d, a))
      BY DEF ForwardFill, FieldFill
  <1> QED
      BY <1>1, <1>2, <1>3, <1>4, NoTotalAmong

(* forward_fill leaves one row, of an amount line 25 states.               *)
LEMMA ForwardLeaves ==
  ASSUME NEW rows, NEW block, BlockOf(rows, block), NEW held, NEW d, NEW a,
         ForwardFill(rows, block, held, d, a), NEW kept, kept = {i \in block : CopyRank(rows, block, i) = 1}
  PROVE  SumOf(rows, kept) \in {d, a}
  <1>1. PICK i \in block : rows[i].amt \in {d, a}
      BY DEF ForwardFill
  <1>2. \A j \in block : j \in Copies(rows, block, i)
      BY DEF ForwardFill, OneTuple, Copies
  <1>3. Firsts(rows, block, i) = kept
      BY <1>2 DEF Firsts, Copies
  <1>4. PICK m \in block : kept = {m}
      BY <1>1, <1>3, FirstCopyKept DEF BlockOf
  <1>5. rows[m].amt = rows[i].amt
      BY <1>1, <1>4 DEF ForwardFill, OneTuple, LineItem
  <1>6. rows[m].amt \in Int
      BY <1>4 DEF BlockOf, HaveAmounts
  <1> QED
      BY <1>1, <1>4, <1>5, <1>6, SumOfOneRow

(* field_fill leaves one row with an amount, which line 25 states.         *)
LEMMA FieldLeaves ==
  ASSUME NEW rows, NEW block, BlockOf(rows, block), NEW held, NEW d, NEW a,
         FieldFill(rows, block, held, d, a), NEW kept \in SUBSET block,
         \A i \in block : rows[i].amt # 0 => (i \in kept <=> i = Smallest(WithAmount(rows, block)))
  PROVE  SumOf(rows, kept) \in {d, a}
  <1> DEFINE G == WithAmount(rows, block)
             m == Smallest(G)
             Z == {i \in kept : rows[i].amt = 0}
  <1>1. PICK i \in block : rows[i].amt > 0 /\ rows[i].amt \in {d, a}
      BY DEF FieldFill, WithAmount
  <1>2. i \in G
      BY <1>1 DEF WithAmount
  <1>3. G \in SUBSET Nat /\ IsFiniteSet(G)
      BY BlockIs, FS_Subset DEF WithAmount
  <1>4. m \in G
    <2>1. \E x \in G : \A y \in G : x =< y
        BY <1>2, <1>3, FirstOf
    <2> QED
        BY <2>1 DEF Smallest
  <1>5. rows[m].amt = rows[i].amt
      BY <1>2, <1>4 DEF FieldFill
  <1>6. m \in block /\ rows[m].amt # 0 /\ rows[m].amt \in Int
      BY <1>4 DEF WithAmount, BlockOf, HaveAmounts
  <1> HIDE DEF m, G
  <1>7. \A j \in block : rows[j].amt # 0 => (j \in kept <=> j = m)
      BY DEF m, G
  <1>8. kept = {m} \cup Z /\ {m} \cap Z = {}
      BY <1>6, <1>7
  <1>9. IsFiniteSet({m}) /\ IsFiniteSet(Z) /\ HaveAmounts(rows, {m}) /\ HaveAmounts(rows, Z) /\ \A j \in Z : rows[j].amt = 0
      BY <1>6, BlockIs, FS_Subset, FS_Singleton DEF HaveAmounts
  <1> HIDE DEF Z
  <1>10. SumOf(rows, {m} \cup Z) = SumOf(rows, {m}) + SumOf(rows, Z)
      BY <1>8, <1>9, SumOfTwo
  <1>11. SumOf(rows, Z) = 0 /\ SumOf(rows, {m}) = rows[m].amt
      BY <1>6, <1>9, SumOfNothing, SumOfOneRow
  <1>12. SumOf(rows, kept) = rows[m].amt
      BY <1>6, <1>8, <1>10, <1>11
  <1> QED
      BY <1>1, <1>5, <1>12

(* What pair_collapse and total_row leave.                                 *)
InHalf(rows, block, i) == CopyRank(rows, block, i) * 2 =< Cardinality(Copies(rows, block, i))
ButTotal(rows, block, pair, line) == {i \in block : rows[i].amt # line /\ (pair => InHalf(rows, block, i))}
Held(pair) == IF pair THEN 2 ELSE 1
Even(rows, block) == \A i \in block : Cardinality(Copies(rows, block, i)) % 2 = 0

LEMMA TotalLeaves ==
  ASSUME NEW rows, NEW block, BlockOf(rows, block), NEW pair \in BOOLEAN, pair => Even(rows, block), NEW line \in Int,
         TotalUnder(rows, block, Held(pair), line)
  PROVE  SumOf(rows, ButTotal(rows, block, pair, line)) = line
  <1> DEFINE kept == ButTotal(rows, block, pair, line)
             W == block \ {i \in block : rows[i].amt = line}
  <1>1. SumOf(rows, W) = line * (IF pair THEN 2 ELSE 1)
      BY DEF TotalUnder, Held
  <1>2. IsFiniteSet(W) /\ W \subseteq Nat /\ HaveAmounts(rows, W)
      BY BlockIs, FS_Subset DEF BlockOf, HaveAmounts
  <1>3. \A i \in W : Copies(rows, W, i) = Copies(rows, block, i)
      BY DEF Copies, LineItem
  <1>4. \A i \in W : CopyRank(rows, W, i) = CopyRank(rows, block, i)
      BY <1>3 DEF CopyRank
  <1>5. CASE pair
    <2>1. \A i \in W : Cardinality(Copies(rows, W, i)) % 2 = 0
        BY <1>3, <1>5 DEF Even
    <2>2. kept = FirstHalf(rows, W)
        BY <1>3, <1>4, <1>5 DEF FirstHalf, InHalf, ButTotal
    <2>3. FirstHalf(rows, W) \subseteq W
        BY DEF FirstHalf
    <2> HIDE DEF W
    <2>4. SumOf(rows, FirstHalf(rows, W)) * 2 = SumOf(rows, W)
        BY <1>2, <2>1, HalfKept
    <2>5. IsFiniteSet(FirstHalf(rows, W)) /\ HaveAmounts(rows, FirstHalf(rows, W))
        BY <1>2, <2>3, FS_Subset DEF HaveAmounts
    <2>6. SumOf(rows, FirstHalf(rows, W)) \in Int
        BY <2>5, SumUnfolds
    <2>7. SumOf(rows, FirstHalf(rows, W)) * 2 = line * 2
        BY <1>1, <1>5, <2>4
    <2>8. \A x \in Int : x * 2 = line * 2 => x = line
        OBVIOUS
    <2> QED
        BY <2>2, <2>6, <2>7, <2>8
  <1>6. CASE ~pair
    <2>1. kept = W
        BY <1>6 DEF ButTotal
    <2> HIDE DEF W
    <2>2. SumOf(rows, W) = line * 1
        BY <1>1, <1>6
    <2>3. line * 1 = line
        OBVIOUS
    <2> QED
        BY <2>1, <2>2, <2>3
  <1> QED
      BY <1>5, <1>6

LEMMA PairLeaves ==
  ASSUME NEW rows, NEW block, BlockOf(rows, block), NEW pair \in BOOLEAN, pair => Even(rows, block),
         NEW kept, kept = {i \in block : pair => InHalf(rows, block, i)}
  PROVE  Cardinality(kept) * (IF pair THEN 2 ELSE 1) = Cardinality(block)
  <1>1. IsFiniteSet(block) /\ block \subseteq Nat /\ HaveAmounts(rows, block)
      BY BlockIs DEF BlockOf
  <1>2. CASE pair
    <2>1. \A i \in block : Cardinality(Copies(rows, block, i)) % 2 = 0
        BY <1>2 DEF Even
    <2>2. kept = FirstHalf(rows, block)
        BY <1>2 DEF FirstHalf, InHalf
    <2>3. Cardinality(FirstHalf(rows, block)) * 2 = Cardinality(block)
        BY <1>1, <2>1, HalfKept
    <2> QED
        BY <1>2, <2>2, <2>3
  <1>3. CASE ~pair
    <2>1. kept = block /\ Cardinality(block) \in Nat
        BY <1>1, <1>3, FS_CardinalityType
    <2> QED
        BY <1>3, <2>1
  <1> QED
      BY <1>2, <1>3

(* Line 25 is an amount, of the row of the url with the lowest sha.        *)
LEMMA Line25Is ==
  ASSUME NEW basic, basic \in Seq(ToSet(basic)), NEW url,
         \A b \in ToSet(basic) : b.sha \in Nat /\ b.d \in Int /\ b.a \in Int
  PROVE  Line25(basic, url, "d") \in Int /\ Line25(basic, url, "a") \in Int
  <1> DEFINE S == {b \in ToSet(basic) : b.url = url}
             b1 == CHOOSE b \in S : \A c \in S : b.sha =< c.sha
  <1>1. IsFiniteSet(S)
    <2>1. IsFiniteSet(ToSet(basic))
        BY RowsOf
    <2> QED
        BY <2>1, FS_Subset
  <1>2. CASE S = {}
      BY <1>2 DEF Line25
  <1>3. CASE S # {}
    <2> DEFINE shas == {b.sha : b \in S}
    <2>1. shas \in SUBSET Nat /\ IsFiniteSet(shas) /\ shas # {}
        BY <1>1, <1>3, FieldsFinite
    <2>2. PICK x \in shas : \A y \in shas : x =< y
      <3> HIDE DEF shas
      <3> QED
          BY <2>1, FirstOf
    <2>3. \E b \in S : \A c \in S : b.sha =< c.sha
        BY <2>2
    <2> HIDE DEF S
    <2>4. b1 \in S
        BY <2>3
    <2> HIDE DEF b1
    <2>5. b1.d \in Int /\ b1.a \in Int
        BY <2>4 DEF S
    <2>6. Line25(basic, url, "d") = b1.d /\ Line25(basic, url, "a") = b1.a
        BY <1>3 DEF Line25, S, b1
    <2> QED
        BY <2>5, <2>6
  <1> QED
      BY <1>2, <1>3

(* The relation's answer for the paid rows, part by part.                  *)
Stays(rows, block, d, a, pair, forward, field, total, held, i) ==
  CASE forward -> CopyRank(rows, block, i) = 1
    [] field /\ rows[i].amt # 0 -> i = Smallest(WithAmount(rows, block))
    [] total /\ rows[i].amt = (IF TotalUnder(rows, block, held, d) THEN d ELSE a) -> FALSE
    [] OTHER -> pair => InHalf(rows, block, i)

LEMMA PaidIs ==
  ASSUME NEW rows, NEW basic, NEW paidUrl
  PROVE  LET url == Largest(Urls(rows))
             block == Under(rows, url)
             d == Line25(basic, url, "d")
             a == Line25(basic, url, "a")
             pair == Pair(rows, block, basic, url)
             held == IF pair THEN 2 ELSE 1
             forward == ForwardFill(rows, block, held, d, a)
             field == FieldFill(rows, block, held, d, a)
             total == TotalRow(rows, block, held, d, a)
             built == PfCurrent(rows, basic, TRUE, paidUrl)
         IN  /\ built.url = url
             /\ "pair_collapse" \in built.rules <=> pair
             /\ "forward_fill" \in built.rules <=> forward
             /\ "field_fill" \in built.rules <=> field
             /\ "total_row" \in built.rules <=> total
             /\ built.kept = {i \in block : Stays(rows, block, d, a, pair, forward, field, total, held, i)}
  <1> DEFINE url == Largest(Urls(rows))
             block == Under(rows, url)
             d == Line25(basic, url, "d")
             a == Line25(basic, url, "a")
             pair == Pair(rows, block, basic, url)
             held == IF pair THEN 2 ELSE 1
             forward == ForwardFill(rows, block, held, d, a)
             field == FieldFill(rows, block, held, d, a)
             total == TotalRow(rows, block, held, d, a)
             built == PfCurrent(rows, basic, TRUE, paidUrl)
             fired == [latest_url |-> Cardinality(Urls(rows)) > 1, pair_collapse |-> pair,
                       forward_fill |-> TRUE /\ forward, field_fill |-> TRUE /\ field, total_row |-> TRUE /\ total]
             kept == {i \in block : Stays(rows, block, d, a, pair, TRUE /\ forward, TRUE /\ field, TRUE /\ total, held, i)}
  <1>1. built = [url |-> url, kept |-> IF ~TRUE /\ paidUrl > url THEN {} ELSE kept,
                 rules |-> {r \in DOMAIN fired : fired[r]}]
      BY DEF PfCurrent, Stays, InHalf
  <1> HIDE DEF built, url, block, pair, forward, field, total, held
  <1>2. built.url = url /\ built.kept = kept /\ built.rules = {r \in DOMAIN fired : fired[r]}
      BY <1>1
  <1>3. /\ "pair_collapse" \in DOMAIN fired /\ fired["pair_collapse"] = pair
        /\ "forward_fill" \in DOMAIN fired /\ fired["forward_fill"] = (TRUE /\ forward)
        /\ "field_fill" \in DOMAIN fired /\ fired["field_fill"] = (TRUE /\ field)
        /\ "total_row" \in DOMAIN fired /\ fired["total_row"] = (TRUE /\ total)
      OBVIOUS
  <1>4. kept = {i \in block : Stays(rows, block, d, a, pair, forward, field, total, held, i)}
      BY DEF Stays
  <1> HIDE DEF fired, kept
  <1>5. /\ "pair_collapse" \in built.rules <=> pair
        /\ "forward_fill" \in built.rules <=> forward
        /\ "field_fill" \in built.rules <=> field
        /\ "total_row" \in built.rules <=> total
      BY <1>2, <1>3
  <1> QED
      BY <1>2, <1>4, <1>5 DEF built, url, block, pair, forward, field, total, held

(* What the rules keep of a block, whichever of them fires.                *)
Forward(rows, block, d, a, pair) == ForwardFill(rows, block, Held(pair), d, a)
Field(rows, block, d, a, pair) == FieldFill(rows, block, Held(pair), d, a)
Total(rows, block, d, a, pair) == TotalRow(rows, block, Held(pair), d, a)
KeptBy(rows, block, d, a, pair) ==
  {i \in block : Stays(rows, block, d, a, pair, Forward(rows, block, d, a, pair), Field(rows, block, d, a, pair),
                       Total(rows, block, d, a, pair), Held(pair), i)}

LEMMA LinesKept ==
  ASSUME NEW rows, NEW block, BlockOf(rows, block), NEW d \in Int, NEW a \in Int,
         NEW pair \in BOOLEAN, pair => Even(rows, block)
  PROVE  /\ ~(Forward(rows, block, d, a, pair) /\ Field(rows, block, d, a, pair))
         /\ ~(Forward(rows, block, d, a, pair) /\ Total(rows, block, d, a, pair))
         /\ ~(Field(rows, block, d, a, pair) /\ Total(rows, block, d, a, pair))
         /\ \/ Forward(rows, block, d, a, pair)
            \/ Field(rows, block, d, a, pair)
            \/ Total(rows, block, d, a, pair)
            => /\ SumOf(rows, KeptBy(rows, block, d, a, pair)) \in {d, a}
               /\ SumOf(rows, block) \notin {Held(pair) * d, Held(pair) * a}
         /\ \/ Forward(rows, block, d, a, pair)
            \/ Field(rows, block, d, a, pair)
            \/ Total(rows, block, d, a, pair)
            \/ Cardinality(KeptBy(rows, block, d, a, pair)) * Held(pair) = Cardinality(block)
  <1> DEFINE forward == Forward(rows, block, d, a, pair)
             field == Field(rows, block, d, a, pair)
             total == Total(rows, block, d, a, pair)
             kept == KeptBy(rows, block, d, a, pair)
  <1>1. Held(pair) \in {1, 2}
      BY DEF Held
  <1>2. ~(forward /\ field) /\ ~(forward /\ total) /\ ~(field /\ total)
      BY <1>1, RulesApart DEF Forward, Field, Total
  <1>3. kept = {i \in block : Stays(rows, block, d, a, pair, forward, field, total, Held(pair), i)}
      BY DEF KeptBy
  <1>4. forward \/ field \/ total => SumOf(rows, block) \notin {Held(pair) * d, Held(pair) * a}
      BY DEF Forward, Field, Total, ForwardFill, FieldFill, TotalRow, Declared
  <1>5. ASSUME forward PROVE SumOf(rows, kept) \in {d, a}
    <2>1. ForwardFill(rows, block, Held(pair), d, a)
        BY <1>5 DEF Forward
    <2>2. kept = {i \in block : CopyRank(rows, block, i) = 1}
      <3> HIDE DEF kept, forward, field, total
      <3> QED
          BY <1>2, <1>3, <1>5 DEF Stays
    <2> QED
        BY <2>1, <2>2, ForwardLeaves
  <1>6. ASSUME field PROVE SumOf(rows, kept) \in {d, a}
    <2>1. FieldFill(rows, block, Held(pair), d, a)
        BY <1>6 DEF Field
    <2>2. /\ kept \in SUBSET block
          /\ \A i \in block : rows[i].amt # 0 => (i \in kept <=> i = Smallest(WithAmount(rows, block)))
      <3> HIDE DEF kept, forward, field, total
      <3> QED
          BY <1>2, <1>3, <1>6 DEF Stays
    <2> HIDE DEF kept
    <2> QED
        BY <2>1, <2>2, FieldLeaves
  <1>7. ASSUME total PROVE SumOf(rows, kept) \in {d, a}
    <2> DEFINE line == IF TotalUnder(rows, block, Held(pair), d) THEN d ELSE a
    <2>1. TotalUnder(rows, block, Held(pair), line) /\ line \in {d, a} /\ line \in Int
        BY <1>7 DEF Total, TotalRow
    <2> HIDE DEF line
    <2>2. kept = ButTotal(rows, block, pair, line)
      <3> HIDE DEF kept, forward, field, total
      <3> QED
          BY <1>2, <1>3, <1>7 DEF Stays, ButTotal, line
    <2>3. SumOf(rows, ButTotal(rows, block, pair, line)) = line
        BY <2>1, TotalLeaves
    <2> QED
        BY <2>1, <2>2, <2>3
  <1>8. ASSUME ~forward, ~field, ~total PROVE Cardinality(kept) * Held(pair) = Cardinality(block)
    <2>1. kept = {i \in block : pair => InHalf(rows, block, i)}
      <3> HIDE DEF kept, forward, field, total
      <3> QED
          BY <1>3, <1>8 DEF Stays
    <2> HIDE DEF kept
    <2>2. Cardinality(kept) * (IF pair THEN 2 ELSE 1) = Cardinality(block)
        BY <2>1, PairLeaves
    <2> QED
        BY <2>2 DEF Held
  <1> QED
      BY <1>2, <1>4, <1>5, <1>6, <1>7, <1>8

(* The url the block is of, and that it has rows.                          *)
LEMMA PosedBlock ==
  ASSUME NEW rows, HasItems(rows), \A r \in ToSet(rows) : r.amt \in Int
  PROVE  BlockOf(rows, Under(rows, Largest(Urls(rows))))
  BY RowsOf DEF BlockOf, HaveAmounts, Under, HasItems

LEMMA SmallOf ==
  ASSUME NEW S, \A x, y \in S : x = y
  PROVE  Cardinality(S) =< 1
  <1>1. CASE S = {}
      BY <1>1, FS_EmptySet
  <1>2. CASE S # {}
    <2>1. PICK x \in S : S = {x}
        BY <1>2
    <2> QED
        BY <2>1, FS_Singleton
  <1> QED
      BY <1>1, <1>2

(* The four clauses, of any filer-year.                                    *)
LEMMA BlockHolds ==
  ASSUME NEW rows, HasItems(rows), \A r \in ToSet(rows) : r.amt \in Int, NEW basic, basic \in Seq(ToSet(basic)),
         \A b \in ToSet(basic) : b.sha \in Nat /\ b.d \in Int /\ b.a \in Int
  PROVE  LET built == PfCurrent(rows, basic, TRUE, 0)
             fired == built.rules \cap {"forward_fill", "field_fill", "total_row"}
             stated == {Line25(basic, built.url, c) : c \in {"d", "a"}}
             block == Under(rows, built.url)
             half == IF "pair_collapse" \in built.rules THEN 2 ELSE 1
         IN  /\ Cardinality(fired) =< 1
             /\ fired # {} => SumOf(rows, built.kept) \in stated
             /\ \A line \in stated : SumOf(rows, block) = half * line =>
                  Cardinality(built.kept) * half = Cardinality(block)
             /\ fired = {} => Cardinality(built.kept) * half = Cardinality(block)
  <1> DEFINE built == PfCurrent(rows, basic, TRUE, 0)
             fired == built.rules \cap {"forward_fill", "field_fill", "total_row"}
             url == Largest(Urls(rows))
             block == Under(rows, url)
             d == Line25(basic, url, "d")
             a == Line25(basic, url, "a")
             pair == Pair(rows, block, basic, url)
             half == IF "pair_collapse" \in built.rules THEN 2 ELSE 1
  <1>1. /\ built.url = url
        /\ "pair_collapse" \in built.rules <=> pair
        /\ "forward_fill" \in built.rules <=> Forward(rows, block, d, a, pair)
        /\ "field_fill" \in built.rules <=> Field(rows, block, d, a, pair)
        /\ "total_row" \in built.rules <=> Total(rows, block, d, a, pair)
        /\ built.kept = KeptBy(rows, block, d, a, pair)
      BY PaidIs DEF Forward, Field, Total, KeptBy, Held
  <1>2. d \in Int /\ a \in Int
      BY Line25Is
  <1>3. BlockOf(rows, block)
      BY PosedBlock
  <1>4. pair \in BOOLEAN /\ (pair => Even(rows, block))
      BY DEF Pair, Even
  <1>5. {Line25(basic, built.url, c) : c \in {"d", "a"}} = {d, a}
      BY <1>1
  <1>6. Under(rows, built.url) = block
      BY <1>1
  <1> HIDE DEF built, d, a, pair, block
  <1>7. half = Held(pair)
      BY <1>1 DEF Held
  <1> HIDE DEF half
  <1> DEFINE forward == Forward(rows, block, d, a, pair)
             field == Field(rows, block, d, a, pair)
             total == Total(rows, block, d, a, pair)
             kept == KeptBy(rows, block, d, a, pair)
  <1>8. /\ ~(forward /\ field) /\ ~(forward /\ total) /\ ~(field /\ total)
        /\ forward \/ field \/ total =>
             SumOf(rows, kept) \in {d, a} /\ SumOf(rows, block) \notin {half * d, half * a}
        /\ forward \/ field \/ total \/ Cardinality(kept) * half = Cardinality(block)
      BY <1>2, <1>3, <1>4, <1>7, LinesKept
  <1>9. /\ "forward_fill" \in built.rules <=> forward
        /\ "field_fill" \in built.rules <=> field
        /\ "total_row" \in built.rules <=> total
        /\ built.kept = kept
      BY <1>1
  <1> HIDE DEF forward, field, total, kept
  <1>10. Cardinality(fired) =< 1
    <2>1. \A x, y \in fired : x = y
        BY <1>8, <1>9
    <2> HIDE DEF fired
    <2> QED
        BY <2>1, SmallOf
  <1>11. fired # {} <=> forward \/ field \/ total
      BY <1>9
  <1> HIDE DEF fired
  <1>12. fired # {} => SumOf(rows, built.kept) \in {d, a}
      BY <1>8, <1>9, <1>11
  <1>13. \A line \in {d, a} : SumOf(rows, block) = half * line => Cardinality(built.kept) * half = Cardinality(block)
      BY <1>8, <1>9
  <1>14. fired = {} => Cardinality(built.kept) * half = Cardinality(block)
      BY <1>8, <1>9, <1>11
  <1> QED
      BY <1>5, <1>6, <1>10, <1>12, <1>13, <1>14 DEF built, fired, half

(* Of every grant list with amounts, whatever its rows, its line 25 and    *)
(* how often its filing was emitted: at most one of the rules that read    *)
(* line 25 fires, and what it leaves adds up to a column of it; a list     *)
(* that line 25 declares, every row of it, loses none but the second half  *)
(* of a doubled filing (current_grants._pf_current_ddl).                   *)
THEOREM Line25IsKept == BlockSpec => []LineRulesLeaveLine25
  <1> DEFINE Answered == BlockPosed(problem) /\ answer \in {Unanswered, Built(problem)}
  <1>1. BlockPosed(problem) /\ answer = Unanswered => Answered
      OBVIOUS
  <1>2. /\ Answered
        /\ [answer = Unanswered /\ BlockStep /\ UNCHANGED problem]_<<problem, answer>>
        => Answered'
      BY DEF BlockStep, Built, BlockPosed, HasItems
  <1>3. Answered => LineRulesLeaveLine25
    <2> SUFFICES ASSUME Answered, Solved("block") PROVE LineRulesLeaveLine25
        BY DEF LineRulesLeaveLine25
    <2>0. answer = [paid |-> PfCurrent(problem.rows, problem.basic, TRUE, 0),
                    future |-> PfCurrent(problem.rows, problem.basic, FALSE, 0)]
        BY DEF Solved, Built
    <2>1. answer.paid = PfCurrent(problem.rows, problem.basic, TRUE, 0)
        BY <2>0
    <2>2. /\ HasItems(problem.rows) /\ \A r \in ToSet(problem.rows) : r.amt \in Int
          /\ problem.basic \in Seq(ToSet(problem.basic))
          /\ \A b \in ToSet(problem.basic) : b.sha \in Nat /\ b.d \in Int /\ b.a \in Int
        BY DEF BlockPosed
    <2> QED
        BY <2>1, <2>2, BlockHolds DEF LineRulesLeaveLine25
  <1> QED
      BY <1>1, <1>2, <1>3, PTL DEF BlockSpec
=============================================================================
