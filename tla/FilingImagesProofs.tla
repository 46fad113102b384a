------------------------- MODULE FilingImagesProofs -------------------------
(***************************************************************************)
(* Proofs about FilingImages, for any filings, images, pool, chunk and     *)
(* attempts: the bytes in use are those a row describes, what is charged   *)
(* and reported of a filing is what was tried of it, and the pages read    *)
(* are the ones its row marks.                                             *)
(***************************************************************************)
EXTENDS FilingImages, FiniteSetTheorems, TLAPS

(* Rows with an image exactly when they are fetched.                       *)
Rows == {row \in Row : (row.sha # None) <=> (row.status = "fetched")}
Places == {"out", "queued", "asked", "staged", "done", "collected", "cancelled"}
Pcs == {"idle", "run", "closing", "stopping", "closed"}
Entries == [f : Filings, row : Rows]
Calls == [pc : Pcs, prior : [Filings -> Rows \cup {None}], job : [Filings -> Places],
          image : [Filings -> Images \cup {None}], result : [Filings -> Rows \cup {None}],
          buffer : Seq(Entries), streak : Nat,
          report : [Filings -> {"none", "row", "unfetched:teos_refused"}]]
Readers == [f : Filings, sha : Images, cut : Rules \cup {0}, path : BOOLEAN]
Readings == [sha : Images, bytes : Images \cup {None}, cut : Rules \cup {0}]
Used == [calls : Nat, stops : Nat, reads : Nat]

TypeInv ==
    /\ table \in [Filings -> Rows \cup {None}]
    /\ object \in [Filings -> Images \cup {None}]
    /\ cache \in [Filings -> Images \cup {None}]
    /\ pages \in [Filings -> Images \cup {None}]
    /\ rule \in Rules /\ refetched \subseteq Filings /\ forgotten \subseteq Filings
    /\ tries \in [Filings -> Nat]
    /\ call \in Calls /\ used \in Used
    /\ reader \in {NoReader} \cup Readers
    /\ readings \in [Filings -> {None} \cup Readings]

Charged(row) == IF row = None THEN 0 ELSE row.attempts

(* One command at a time, and what it has read of the table.               *)
ReaderInv ==
    reader # NoReader =>
      /\ call.pc = "idle" /\ ~recut.on
      /\ IsFetched(table[reader.f])
      /\ reader.sha = table[reader.f].sha /\ reader.cut = table[reader.f].cut
      /\ reader.path => cache[reader.f] = reader.sha

RecutInv ==
    recut.on =>
      /\ call.pc = "idle" /\ DOMAIN recut.rows \subseteq Filings
      /\ \A f \in DOMAIN recut.rows :
            /\ IsFetched(table[f]) /\ readings[f] = None
            /\ recut.rows[f] = [table[f] EXCEPT !.cut = rule]

(* What was read of a filing is of the row there is, but for a refetch.    *)
ReadInv ==
    \A f \in Filings \ refetched : readings[f] # None =>
      IsFetched(table[f]) /\ readings[f].cut = table[f].cut

---------------------------------------------------------------------------
(* A call in progress: what its loop has committed or is about to.         *)
Buffered(f) == {i \in DOMAIN call.buffer : call.buffer[i].f = f}

(* A row this call made of a filing: one attempt more than it found, and,  *)
(* but for a refetch, of the image in the bucket.                          *)
Made(f, row) ==
    /\ row \in Rows /\ row.attempts = Charged(call.prior[f]) + 1
    /\ f \notin refetched /\ IsFetched(row) => object[f] = row.sha

Committed(f) ==
    \/ call.job[f] = "collected" /\ Buffered(f) = {}
    \/ call.job[f] = "done" /\ call.pc = "closed"

(* The row a call made and committed of a filing, or, of a call that is    *)
(* stopping, that the failed commit lost.                                  *)
Kept(f, row) ==
    \/ Made(f, row)
    \/ call.pc = "stopping" /\ f \in forgotten /\ row = call.prior[f]

FilingInv(f) ==
    /\ IF Committed(f) THEN Kept(f, table[f]) ELSE table[f] = call.prior[f]
    /\ \A i \in Buffered(f) : call.job[f] = "collected" /\ Made(f, call.buffer[i].row)
    /\ call.job[f] = "staged" => call.image[f] \in Images
    /\ call.job[f] = "done" /\ call.pc # "closed" => Made(f, call.result[f])
    /\ call.job[f] # "out" /\ f \notin refetched => ~IsFetched(call.prior[f]) /\ readings[f] = None
    /\ call.pc # "stopping" =>
         call.report[f] = IF call.job[f] \in {"out", "collected"} THEN "row" ELSE "none"
    /\ LET begun == Charged(call.prior[f]) +
                      (IF call.job[f] \in {"asked", "staged", "done", "collected"} THEN 1 ELSE 0)
       IN begun <= tries[f] /\ (f \notin forgotten => tries[f] = begun)

(* Where the jobs can be, by where the loop is.                            *)
PhaseInv ==
    /\ call.pc = "run" => \A f \in Filings : call.job[f] # "cancelled"
    /\ call.pc # "run" => \A f \in Filings : call.job[f] # "queued"
    /\ call.pc = "closed" => /\ \A f \in Filings : call.job[f] \notin {"asked", "staged"}
                             /\ call.buffer = <<>>

BufferInv ==
    \A i, j \in DOMAIN call.buffer : call.buffer[i].f = call.buffer[j].f => i = j

RefusedHere(f) ==
    /\ call.job[f] = "collected"
    /\ Buffered(f) = {} => Refused(table[f])
    /\ \A i \in Buffered(f) : Refused(call.buffer[i].row)

(* A streak is of so many filings refused, in a call that will report it.  *)
StreakInv ==
    call.pc # "stopping" =>
    /\ \E R \in SUBSET Filings : Cardinality(R) >= call.streak /\ \A f \in R : RefusedHere(f)
    /\ call.pc \in {"closing", "closed"} => call.streak >= RefusalsToStop

CallInv ==
    /\ \A f \in Filings : FilingInv(f)
    /\ PhaseInv /\ BufferInv /\ StreakInv

IdleInv ==
    /\ \A f \in Filings : call.job[f] \in {"out", "cancelled"}
    /\ \A f \in Filings : Charged(table[f]) <= tries[f]
                          /\ (f \notin forgotten => Charged(table[f]) = tries[f])
    /\ UnfetchedMeansUntried

IInv ==
    /\ TypeInv /\ ReaderInv /\ RecutInv /\ ReadInv /\ MismatchNeedsRefetch
    /\ call.pc = "idle" => IdleInv
    /\ call.pc # "idle" => CallInv

---------------------------------------------------------------------------
(* The rows of a table: never None, and of an image when fetched.          *)
LEMMA RowFields ==
  ASSUME NEW row \in Rows
  PROVE  /\ row # None /\ row \in Row /\ row.attempts \in Nat /\ row.error \in Errors
         /\ row.cut \in Rules \cup {0}
         /\ (row.status = "fetched") <=> (row.sha \in Images)
         /\ row.status # "fetched" => row.sha = None
         /\ Charged(row) = row.attempts
  BY RowAssumption, SizesAssumption DEF Rows, Row, Charged

(* A row cut again.                                                        *)
LEMMA CutRow ==
  ASSUME NEW row \in Rows, NEW cut \in Rules
  PROVE  LET again == [row EXCEPT !.cut = cut] IN
         /\ again \in Rows /\ again.cut = cut /\ again.status = row.status
         /\ again.attempts = row.attempts /\ again.error = row.error /\ again.sha = row.sha
  BY DEF Rows, Row

(* No call is a call: its jobs are out of it, nothing is reported or       *)
(* buffered.                                                               *)
LEMMA IdleCall == Idle \in Calls /\ Idle.pc = "idle" /\ Idle.buffer = <<>>
                  /\ \A f \in Filings : Idle.job[f] = "out" /\ Idle.report[f] = "none"
  <1>1. <<>> \in Seq(Entries)
      OBVIOUS
  <1> QED
      BY <1>1 DEF Idle, Calls, Pcs, Places

(* NoReader is none of the readers, and has no path.                       *)
LEMMA NoReaders == NoReader.path = FALSE /\ NoReader \notin Readers
  BY SizesAssumption DEF NoReader, Readers

(* What a buffered entry holds, for a buffer read by its positions.        *)
LEMMA EntryFields ==
  ASSUME NEW rows \in Seq(Entries)
  PROVE  /\ DOMAIN rows = 1 .. Len(rows) /\ Len(rows) \in Nat
         /\ \A i \in DOMAIN rows : /\ rows[i] \in Entries
                                   /\ rows[i].f \in Filings /\ rows[i].row \in Rows
  <1>1. \A i \in DOMAIN rows : rows[i] \in Entries
      OBVIOUS
  <1>2. \A e \in Entries : e.f \in Filings /\ e.row \in Rows
      BY DEF Entries
  <1> QED
      BY <1>1, <1>2

(* Rows are put in the table by filing; each has one at most.              *)
LEMMA UpsertedIs ==
  ASSUME NEW rows \in Seq(Entries), table \in [Filings -> Rows \cup {None}],
         \A i, j \in DOMAIN rows : rows[i].f = rows[j].f => i = j
  PROVE  /\ Upserted(rows) \in [Filings -> Rows \cup {None}]
         /\ \A i \in DOMAIN rows : Upserted(rows)[rows[i].f] = rows[i].row
         /\ \A f \in Filings : (\A i \in DOMAIN rows : rows[i].f # f) => Upserted(rows)[f] = table[f]
  <1>1. \A i \in DOMAIN rows : rows[i] \in Entries /\ rows[i].f \in Filings /\ rows[i].row \in Rows
      BY EntryFields
  <1>2. ASSUME NEW i \in DOMAIN rows
        PROVE  (CHOOSE r \in Range(rows) : r.f = rows[i].f) = rows[i]
    <2>1. rows[i] \in Range(rows)
        BY DEF Range
    <2>2. \A r \in Range(rows) : r.f = rows[i].f => r = rows[i]
        BY <1>2 DEF Range
    <2> QED
        BY <2>1, <2>2
  <1>3. ASSUME NEW i \in DOMAIN rows
        PROVE  Upserted(rows)[rows[i].f] = rows[i].row
      BY <1>1, <1>2, <1>3 DEF Upserted
  <1>4. ASSUME NEW f \in Filings, \A i \in DOMAIN rows : rows[i].f # f
        PROVE  Upserted(rows)[f] = table[f]
      BY <1>4 DEF Upserted
  <1>5. \A f \in Filings : Upserted(rows)[f] \in Rows \cup {None}
      BY <1>1, <1>3, <1>4
  <1>6. Upserted(rows) \in [Filings -> Rows \cup {None}]
      BY <1>5 DEF Upserted
  <1> QED
      BY <1>3, <1>4, <1>6

---------------------------------------------------------------------------
(* What holds while nothing of it moves.                                   *)
LEMMA CallFields ==
  ASSUME TypeInv
  PROVE  /\ call \in Calls /\ call.pc \in Pcs /\ call.buffer \in Seq(Entries) /\ call.streak \in Nat
         /\ \A f \in Filings :
              /\ call.prior[f] \in Rows \cup {None} /\ call.job[f] \in Places
              /\ call.result[f] \in Rows \cup {None} /\ call.image[f] \in Images \cup {None}
              /\ call.report[f] \in {"none", "row", "unfetched:teos_refused"}
         /\ \A i \in DOMAIN call.buffer : call.buffer[i].f \in Filings /\ call.buffer[i].row \in Rows
         /\ DOMAIN call.buffer = 1 .. Len(call.buffer) /\ Len(call.buffer) \in Nat
  <1>1. /\ call \in Calls /\ call.pc \in Pcs /\ call.buffer \in Seq(Entries) /\ call.streak \in Nat
        /\ call.prior \in [Filings -> Rows \cup {None}] /\ call.job \in [Filings -> Places]
        /\ call.result \in [Filings -> Rows \cup {None}]
        /\ call.image \in [Filings -> Images \cup {None}]
        /\ call.report \in [Filings -> {"none", "row", "unfetched:teos_refused"}]
      BY DEF TypeInv, Calls
  <1> QED
      BY <1>1, EntryFields

(* What a row charges is a number, 0 for no row.                           *)
LEMMA ChargedIs ==
  ASSUME NEW row \in Rows \cup {None}
  PROVE  Charged(row) \in Nat
  BY RowFields DEF Charged

(* What holds between calls goes on while calls, rows and tries stay.      *)
LEMMA IdleStays ==
  ASSUME IdleInv, UNCHANGED <<call, table, tries>>, forgotten' = forgotten
  PROVE  IdleInv'
  BY DEF IdleInv, UnfetchedMeansUntried, Charged, IsFetched, Refused

(* What holds of a filing in a call goes on while all of its own stays.    *)
LEMMA FilingStays ==
  ASSUME NEW g \in Filings, FilingInv(g),
         table'[g] = table[g], object'[g] = object[g], tries'[g] = tries[g],
         readings'[g] = readings[g], refetched' = refetched, forgotten' = forgotten,
         call'.pc = call.pc, call'.buffer = call.buffer, call'.prior[g] = call.prior[g],
         call'.job[g] = call.job[g], call'.image[g] = call.image[g],
         call'.result[g] = call.result[g], call'.report[g] = call.report[g]
  PROVE  FilingInv(g)'
  <1>1. Buffered(g)' = Buffered(g)
      BY DEF Buffered
  <1>2. Committed(g)' = Committed(g)
      BY <1>1 DEF Committed
  <1>3. \A row : Made(g, row) => Made(g, row)'
      BY DEF Made, Charged, IsFetched
  <1>4. Charged(call'.prior[g]) = Charged(call.prior[g])
      BY DEF Charged
  <1>5. PICK row : row = table[g]
      OBVIOUS
  <1>6. Kept(g, row) => Kept(g, row)'
      BY <1>3 DEF Kept
  <1>7. Kept(g, table[g]) => Kept(g, table[g])'
      BY <1>5, <1>6 DEF Kept, Made
  <1> QED
      BY <1>1, <1>2, <1>3, <1>4, <1>7 DEF FilingInv, IsFetched

(* A table some of whose filings have the row this call made of them.      *)
LEMMA TableMoves ==
  ASSUME IInv, call.pc # "idle", UNCHANGED <<object, readings, refetched>>,
         \A f \in Filings :
           \/ table'[f] = table[f]
           \/ call.job[f] \in {"done", "collected"} /\ Made(f, table'[f])
  PROVE  ReadInv' /\ MismatchNeedsRefetch'
  <1>1. \A f \in Filings : FilingInv(f)
      BY DEF IInv, CallInv
  <1>2. ReadInv'
    <2>1. \A f \in Filings \ refetched : readings[f] # None => call.job[f] = "out"
        BY <1>1 DEF FilingInv
    <2> QED
        BY <2>1 DEF IInv, ReadInv, IsFetched
  <1>3. MismatchNeedsRefetch'
      BY DEF IInv, MismatchNeedsRefetch, Made, IsFetched
  <1> QED
      BY <1>2, <1>3

(* No reader and no recut beside a call.                                   *)
LEMMA Apart ==
  ASSUME IInv, call.pc # "idle", UNCHANGED <<reader, recut>>
  PROVE  ReaderInv' /\ RecutInv'
  <1>1. reader = NoReader /\ ~recut.on
      BY DEF IInv, ReaderInv, RecutInv
  <1> QED
      BY <1>1 DEF ReaderInv, RecutInv

(* One attempt at one filing goes on.                                      *)
LEMMA JobMoves ==
  ASSUME IInv, call.pc # "idle", NEW f \in Filings, call.job[f] \in {"queued", "asked", "staged"},
         call' \in Calls, call'.pc = call.pc, call'.prior = call.prior,
         call'.buffer = call.buffer, call'.streak = call.streak, call'.report = call.report,
         call'.job[f] \in {"asked", "staged", "done"},
         \A g \in Filings \ {f} :
           /\ call'.job[g] = call.job[g] /\ call'.image[g] = call.image[g]
           /\ call'.result[g] = call.result[g]
           /\ object'[g] = object[g] /\ tries'[g] = tries[g],
         object' \in [Filings -> Images \cup {None}],
         cache' \in [Filings -> Images \cup {None}], tries' \in [Filings -> Nat],
         UNCHANGED <<table, pages, rule, recut, reader, readings, refetched, forgotten, used>>,
         FilingInv(f)'
  PROVE  IInv'
  <1>1. TypeInv'
      BY DEF IInv, TypeInv
  <1>2. ReaderInv' /\ RecutInv'
      BY Apart
  <1>3. ReadInv'
      BY DEF IInv, ReadInv, IsFetched
  <1>4. CallInv /\ FilingInv(f)
      BY DEF IInv, CallInv
  <1>5. Buffered(f) = {} /\ ~Committed(f)
      BY <1>4 DEF FilingInv, Committed
  <1>6. MismatchNeedsRefetch'
    <2>1. f \notin refetched => ~IsFetched(table[f])
        BY <1>4, <1>5 DEF FilingInv
    <2> QED
        BY <2>1 DEF IInv, MismatchNeedsRefetch, IsFetched
  <1>7. \A g \in Filings : FilingInv(g)'
    <2>1. ASSUME NEW g \in Filings \ {f}
          PROVE  FilingInv(g)'
        BY <1>4, FilingStays DEF CallInv
    <2> QED
        BY <2>1
  <1>8. PhaseInv'
    <2>1. PhaseInv
        BY <1>4 DEF CallInv
    <2>2. \A g \in Filings : call'.job[g] = call.job[g] \/ call'.job[g] \in {"asked", "staged", "done"}
        OBVIOUS
    <2>3. call.pc # "closed"
      <3>1. call.pc = "closed" => call.job[f] \notin {"asked", "staged", "queued"}
          BY <2>1 DEF PhaseInv
      <3> QED
          BY <3>1
    <2> QED
        BY <2>1, <2>2, <2>3 DEF PhaseInv
  <1>9. BufferInv'
      BY <1>4 DEF CallInv, BufferInv
  <1>10. StreakInv'
    <2>1. ASSUME NEW g \in Filings, RefusedHere(g)
          PROVE  RefusedHere(g)'
      <3>1. g # f
          BY <2>1 DEF RefusedHere
      <3>2. Buffered(g)' = Buffered(g)
          BY DEF Buffered
      <3> QED
          BY <2>1, <3>1, <3>2 DEF RefusedHere, Refused
    <2> QED
        BY <1>4, <2>1 DEF CallInv, StreakInv
  <1> QED
      BY <1>1, <1>2, <1>3, <1>6, <1>7, <1>8, <1>9, <1>10 DEF IInv, CallInv

(* What a failed attempt makes of the row the call found.                  *)
LEMMA FailedIsMade ==
  ASSUME IInv, NEW f \in Filings, call.pc # "idle", call.job[f] # "out",
         NEW status \in {"failed", "no_teos_image"}, NEW error \in Errors
  PROVE  Failed(f, status, error) \in Rows /\ Made(f, Failed(f, status, error))
  <1>1. PICK prior \in Rows \cup {None} : prior = call.prior[f]
      BY CallFields DEF IInv
  <1>2. FilingInv(f)
      BY DEF IInv, CallInv
  <1>3. PICK base : base = Base(f)
      OBVIOUS
  <1>4. NewRow \in Rows /\ NewRow.attempts = 0 /\ NewRow.status = "failed"
      BY SizesAssumption DEF NewRow, Rows, Row, Rules, Errors
  <1>5. base \in Rows /\ base.attempts = Charged(prior) /\ (base.status = "fetched" <=> IsFetched(prior))
      BY <1>1, <1>3, <1>4, RowFields DEF Base, Charged, IsFetched
  <1>6. PICK attempts \in Nat : attempts = base.attempts + 1
      BY <1>5, RowFields
  <1>7. PICK next : next = IF IsFetched(prior) THEN base.status ELSE status
      OBVIOUS
  <1>8. PICK row : row = [base EXCEPT !.attempts = attempts, !.error = error, !.status = next]
      OBVIOUS
  <1>9. Failed(f, status, error) = row
      BY <1>1, <1>3, <1>6, <1>7, <1>8 DEF Failed
  <1>10. next \in {"fetched", "failed", "no_teos_image"} /\ (next = "fetched" <=> base.status = "fetched")
      BY <1>5, <1>7
  <1>11. row \in Rows /\ row.attempts = attempts /\ row.status = next /\ row.sha = base.sha
      BY <1>5, <1>8, <1>10 DEF Rows, Row
  <1>12. f \notin refetched => ~IsFetched(row)
      BY <1>1, <1>2, <1>5, <1>10, <1>11 DEF FilingInv, IsFetched
  <1> QED
      BY <1>1, <1>5, <1>6, <1>9, <1>11, <1>12 DEF Made

(* _ask_job: a job that tries its filing counts one more try of it.        *)
LEMMA Asks ==
  ASSUME IInv, call.pc # "idle", NEW f \in Filings, Ask(f)
  PROVE  IInv'
  <1>1. /\ call.job[f] = "queued"
        /\ UNCHANGED <<table, object, cache, pages, rule, recut, reader, readings, refetched, forgotten, used>>
      BY DEF Ask
  <1>2. PICK c \in Calls : c = call
      BY DEF IInv, TypeInv
  <1>3. PICK job : job = [c.job EXCEPT ![f] = "asked"]
      OBVIOUS
  <1>4. job \in [Filings -> Places] /\ job[f] = "asked" /\ \A g \in Filings \ {f} : job[g] = c.job[g]
      BY <1>3 DEF Calls, Places
  <1>5. PICK u : u = [c EXCEPT !.job = job]
      OBVIOUS
  <1>6. /\ u \in Calls /\ u.job = job /\ u.pc = c.pc /\ u.prior = c.prior /\ u.buffer = c.buffer
        /\ u.streak = c.streak /\ u.report = c.report /\ u.image = c.image /\ u.result = c.result
      BY <1>4, <1>5 DEF Calls
  <1>7. call' = u
      BY <1>2, <1>3, <1>5 DEF Ask
  <1>8. tries' = [tries EXCEPT ![f] = @ + 1] /\ tries \in [Filings -> Nat]
      BY DEF Ask, IInv, TypeInv
  <1>9. tries' \in [Filings -> Nat] /\ tries'[f] = tries[f] + 1
        /\ \A g \in Filings \ {f} : tries'[g] = tries[g]
      BY <1>8
  <1>10. FilingInv(f)'
    <2>1. FilingInv(f)
        BY DEF IInv, CallInv
    <2>2. Buffered(f) = {} /\ ~Committed(f)
        BY <1>1, <2>1 DEF FilingInv, Committed
    <2>3. Buffered(f)' = {} /\ ~Committed(f)'
        BY <1>2, <1>4, <1>6, <1>7, <2>2 DEF Buffered, Committed
    <2>4. call.prior[f] \in Rows \cup {None} /\ Charged(call.prior[f]) \in Nat /\ tries[f] \in Nat
        BY <1>8, CallFields, ChargedIs DEF IInv
    <2>5. call'.job[f] = "asked" /\ call'.prior[f] = call.prior[f] /\ call'.report[f] = call.report[f]
          /\ call'.pc = call.pc
        BY <1>2, <1>4, <1>6, <1>7
    <2> QED
        BY <1>1, <1>9, <2>1, <2>2, <2>3, <2>4, <2>5 DEF FilingInv, Charged, IsFetched
  <1> QED
      BY <1>1, <1>2, <1>4, <1>6, <1>7, <1>9, <1>10, JobMoves DEF IInv, TypeInv

(* A filing that is in a call is in one that goes on.                      *)
LEMMA Busy ==
  ASSUME IInv, NEW f \in Filings, call.job[f] \notin {"out", "cancelled"}
  PROVE  call.pc # "idle"
  BY DEF IInv, IdleInv

(* An attempt over: its row waits for the loop.                            *)
LEMMA Dones ==
  ASSUME IInv, NEW f \in Filings, call.job[f] \in {"asked", "staged"},
         NEW row, Made(f, row)', row \in Rows, call' = Done(f, row),
         object' \in [Filings -> Images \cup {None}],
         \A g \in Filings \ {f} : object'[g] = object[g],
         UNCHANGED <<table, cache, pages, rule, recut, reader, readings, tries, refetched, forgotten, used>>
  PROVE  IInv'
  <1>1. PICK c \in Calls : c = call
      BY DEF IInv, TypeInv
  <1>2. PICK job : job = [c.job EXCEPT ![f] = "done"]
      OBVIOUS
  <1>3. PICK image : image = [c.image EXCEPT ![f] = None]
      OBVIOUS
  <1>4. PICK result : result = [c.result EXCEPT ![f] = row]
      OBVIOUS
  <1>5. job \in [Filings -> Places] /\ job[f] = "done" /\ \A g \in Filings \ {f} : job[g] = c.job[g]
      BY <1>2 DEF Calls, Places
  <1>6. /\ image \in [Filings -> Images \cup {None}]
        /\ \A g \in Filings \ {f} : image[g] = c.image[g]
      BY <1>3 DEF Calls
  <1>7. /\ result \in [Filings -> Rows \cup {None}] /\ result[f] = row
        /\ \A g \in Filings \ {f} : result[g] = c.result[g]
      BY <1>4 DEF Calls
  <1>8. PICK u : u = [c EXCEPT !.job = job, !.image = image, !.result = result]
      OBVIOUS
  <1>9. /\ u \in Calls /\ u.job = job /\ u.pc = c.pc /\ u.prior = c.prior /\ u.buffer = c.buffer
        /\ u.streak = c.streak /\ u.report = c.report /\ u.image = image /\ u.result = result
      BY <1>5, <1>6, <1>7, <1>8 DEF Calls
  <1>10. call' = u
      BY <1>1, <1>2, <1>3, <1>4, <1>8 DEF Done
  <1>11. call.pc # "idle"
      BY Busy
  <1>12. FilingInv(f)'
    <2>1. FilingInv(f) /\ PhaseInv
        BY <1>11 DEF IInv, CallInv
    <2>2. Buffered(f) = {} /\ ~Committed(f) /\ call.pc # "closed"
        BY <2>1 DEF FilingInv, Committed, PhaseInv
    <2>3. Buffered(f)' = {} /\ ~Committed(f)'
        BY <1>1, <1>5, <1>9, <1>10, <2>2 DEF Buffered, Committed
    <2>4. call'.job[f] = "done" /\ call'.prior[f] = call.prior[f] /\ call'.report[f] = call.report[f]
          /\ call'.result[f] = row /\ call'.pc = call.pc
        BY <1>1, <1>5, <1>7, <1>9, <1>10
    <2>5. PICK r : r = row
        OBVIOUS
    <2>6. Made(f, r)' /\ call'.result[f] = r
        BY <2>4, <2>5
    <2>7. Made(f, call.result[f])'
        BY <2>6 DEF Made
    <2> QED
        BY <2>1, <2>2, <2>3, <2>4, <2>7 DEF FilingInv, Charged, IsFetched
  <1>13. cache' \in [Filings -> Images \cup {None}] /\ tries' \in [Filings -> Nat]
      BY DEF IInv, TypeInv
  <1>14. \A g \in Filings \ {f} :
           /\ call'.job[g] = call.job[g] /\ call'.image[g] = call.image[g]
           /\ call'.result[g] = call.result[g]
           /\ object'[g] = object[g] /\ tries'[g] = tries[g]
      BY <1>1, <1>5, <1>6, <1>7, <1>9, <1>10
  <1>15. /\ call' \in Calls /\ call'.pc = call.pc /\ call'.prior = call.prior
         /\ call'.buffer = call.buffer /\ call'.streak = call.streak /\ call'.report = call.report
         /\ call'.job[f] \in {"asked", "staged", "done"}
      BY <1>1, <1>5, <1>9, <1>10
  <1> QED
      BY <1>11, <1>12, <1>13, <1>14, <1>15, JobMoves

(* A job whose fetch or upload failed hands back a row that names no       *)
(* image.                                                                  *)
LEMMA AnswerFailing ==
  ASSUME IInv, NEW f \in Filings, AnswerFails(f) \/ UploadFails(f)
  PROVE  IInv'
  <1>1. /\ call.job[f] \in {"asked", "staged"}
        /\ UNCHANGED <<table, object, cache, pages, rule, recut, reader, readings, tries, refetched, forgotten, used>>
      BY DEF AnswerFails, UploadFails
  <1>2. PICK status \in {"failed", "no_teos_image"}, error \in Errors :
          call' = Done(f, Failed(f, status, error))
    <2>1. "403" \in Errors /\ "other" \in Errors
        BY DEF Errors
    <2>2. CASE AnswerFails(f)
      <3>1. PICK why \in {<<"failed", "403">>, <<"failed", "other">>, <<"no_teos_image", "other">>} :
              call' = Done(f, Failed(f, why[1], why[2]))
          BY <2>2 DEF AnswerFails
      <3>2. why[1] \in {"failed", "no_teos_image"} /\ why[2] \in {"403", "other"}
          OBVIOUS
      <3> QED
          BY <2>1, <3>1, <3>2
    <2>3. CASE UploadFails(f)
        BY <2>1, <2>3 DEF UploadFails
    <2> QED
        BY <2>2, <2>3
  <1>3. PICK row : row = Failed(f, status, error)
      OBVIOUS
  <1>4. call.pc # "idle"
      BY <1>1, Busy
  <1>5. row \in Rows /\ Made(f, row)
      BY <1>1, <1>3, <1>4, FailedIsMade
  <1>6. call' = Done(f, row)
      BY <1>2, <1>3
  <1>7. call'.prior = call.prior
    <2>1. PICK c \in Calls : c = call
        BY DEF IInv, TypeInv
    <2>2. PICK job, image, result : job = [c.job EXCEPT ![f] = "done"]
            /\ image = [c.image EXCEPT ![f] = None] /\ result = [c.result EXCEPT ![f] = row]
        OBVIOUS
    <2>3. call' = [c EXCEPT !.job = job, !.image = image, !.result = result]
        BY <1>6, <2>1, <2>2 DEF Done
    <2> QED
        BY <2>1, <2>3 DEF Calls
  <1>8. Made(f, row)'
      BY <1>1, <1>5, <1>7 DEF Made, IsFetched, Charged
  <1>9. object' \in [Filings -> Images \cup {None}]
      BY <1>1 DEF IInv, TypeInv
  <1> QED
      BY <1>1, <1>5, <1>6, <1>8, <1>9, Dones

(* The upload of a job's image, the object before its row.                 *)
LEMMA Uploads ==
  ASSUME IInv, NEW f \in Filings, Upload(f)
  PROVE  IInv'
  <1>1. /\ call.job[f] = "staged" /\ object' = [object EXCEPT ![f] = call.image[f]]
        /\ call' = Done(f, Described(f))
        /\ UNCHANGED <<table, cache, pages, rule, recut, reader, readings, tries, refetched, forgotten, used>>
      BY DEF Upload
  <1>2. call.pc # "idle"
      BY <1>1, Busy
  <1>3. PICK image \in Images : image = call.image[f]
      BY <1>1, <1>2 DEF IInv, CallInv, FilingInv
  <1>4. PICK prior \in Rows \cup {None} : prior = call.prior[f]
      BY CallFields DEF IInv
  <1>5. PICK base : base = Base(f)
      OBVIOUS
  <1>6. base.attempts \in Nat /\ base.attempts = Charged(prior)
      BY <1>4, <1>5, RowFields DEF Base, Charged, NewRow
  <1>7. PICK attempts \in Nat : attempts = base.attempts + 1
      BY <1>6
  <1>8. PICK row : row = [status |-> "fetched", attempts |-> attempts, error |-> "",
                          sha |-> image, cut |-> rule]
      OBVIOUS
  <1>9. row = Described(f)
      BY <1>3, <1>5, <1>7, <1>8 DEF Described
  <1>10. row \in Rows /\ row.attempts = attempts /\ row.sha = image
    <2>1. rule \in Rules \cup {0} /\ "" \in Errors /\ image # None
        BY SizesAssumption DEF IInv, TypeInv, Errors
    <2> QED
        BY <1>8, <2>1 DEF Rows, Row
  <1>11. /\ object' \in [Filings -> Images \cup {None}] /\ object'[f] = image
         /\ \A g \in Filings \ {f} : object'[g] = object[g]
      BY <1>1, <1>3 DEF IInv, TypeInv
  <1>12. call' = Done(f, row)
      BY <1>1, <1>9
  <1>13. call'.prior = call.prior
    <2>1. PICK c \in Calls : c = call
        BY DEF IInv, TypeInv
    <2>2. PICK job, im, result : job = [c.job EXCEPT ![f] = "done"]
            /\ im = [c.image EXCEPT ![f] = None] /\ result = [c.result EXCEPT ![f] = row]
        OBVIOUS
    <2>3. call' = [c EXCEPT !.job = job, !.image = im, !.result = result]
        BY <1>12, <2>1, <2>2 DEF Done
    <2> QED
        BY <2>1, <2>3 DEF Calls
  <1>14. Made(f, row)'
      BY <1>4, <1>6, <1>7, <1>10, <1>11, <1>13 DEF Made, Charged
  <1> QED
      BY <1>1, <1>10, <1>11, <1>12, <1>14, Dones

(* TEOS answered an image: the job goes on to its upload with it.          *)
LEMMA AnswersImage ==
  ASSUME IInv, NEW f \in Filings, AnswerImage(f)
  PROVE  IInv'
  <1>1. /\ call.job[f] = "asked"
        /\ UNCHANGED <<table, object, pages, rule, recut, reader, readings, tries, refetched, forgotten, used>>
      BY DEF AnswerImage
  <1>2. PICK image \in Images :
          /\ cache' = [cache EXCEPT ![f] = image]
          /\ call' = [call EXCEPT !.job[f] = "staged", !.image[f] = image]
      BY DEF AnswerImage
  <1>3. PICK c \in Calls : c = call
      BY DEF IInv, TypeInv
  <1>4. PICK job : job = [c.job EXCEPT ![f] = "staged"]
      OBVIOUS
  <1>5. PICK images : images = [c.image EXCEPT ![f] = image]
      OBVIOUS
  <1>6. job \in [Filings -> Places] /\ job[f] = "staged" /\ \A g \in Filings \ {f} : job[g] = c.job[g]
      BY <1>4 DEF Calls, Places
  <1>7. /\ images \in [Filings -> Images \cup {None}] /\ images[f] = image
        /\ \A g \in Filings \ {f} : images[g] = c.image[g]
      BY <1>5 DEF Calls
  <1>8. PICK u : u = [c EXCEPT !.job = job, !.image = images]
      OBVIOUS
  <1>9. /\ u \in Calls /\ u.job = job /\ u.pc = c.pc /\ u.prior = c.prior /\ u.buffer = c.buffer
        /\ u.streak = c.streak /\ u.report = c.report /\ u.image = images /\ u.result = c.result
      BY <1>6, <1>7, <1>8 DEF Calls
  <1>10. call' = u
      BY <1>2, <1>3, <1>4, <1>5, <1>8
  <1>11. call.pc # "idle"
      BY <1>1, Busy
  <1>12. FilingInv(f)'
    <2>1. FilingInv(f) /\ PhaseInv
        BY <1>11 DEF IInv, CallInv
    <2>2. Buffered(f) = {} /\ ~Committed(f)
        BY <1>1, <2>1 DEF FilingInv, Committed
    <2>3. Buffered(f)' = {} /\ ~Committed(f)'
        BY <1>3, <1>6, <1>9, <1>10, <2>2 DEF Buffered, Committed
    <2>4. call'.job[f] = "staged" /\ call'.prior[f] = call.prior[f] /\ call'.report[f] = call.report[f]
          /\ call'.image[f] = image /\ call'.pc = call.pc
        BY <1>3, <1>6, <1>7, <1>9, <1>10
    <2> QED
        BY <1>1, <2>1, <2>2, <2>3, <2>4 DEF FilingInv, Charged, IsFetched
  <1>13. /\ cache' \in [Filings -> Images \cup {None}] /\ tries' \in [Filings -> Nat]
         /\ object' \in [Filings -> Images \cup {None}]
      BY <1>1, <1>2 DEF IInv, TypeInv
  <1>14. \A g \in Filings \ {f} :
           /\ call'.job[g] = call.job[g] /\ call'.image[g] = call.image[g]
           /\ call'.result[g] = call.result[g]
           /\ object'[g] = object[g] /\ tries'[g] = tries[g]
      BY <1>1, <1>3, <1>6, <1>7, <1>9, <1>10
  <1>15. /\ call' \in Calls /\ call'.pc = call.pc /\ call'.prior = call.prior
         /\ call'.buffer = call.buffer /\ call'.streak = call.streak /\ call'.report = call.report
         /\ call'.job[f] \in {"asked", "staged", "done"}
      BY <1>3, <1>6, <1>9, <1>10
  <1> QED
      BY <1>1, <1>11, <1>12, <1>13, <1>14, <1>15, JobMoves

(* Queued jobs are cancelled: they were never asked for.                   *)
LEMMA CancelledIs ==
  ASSUME TypeInv, NEW pc \in Pcs
  PROVE  LET u == Cancelled(pc) IN
         /\ u \in Calls /\ u.pc = pc /\ u.prior = call.prior /\ u.image = call.image
         /\ u.result = call.result /\ u.buffer = call.buffer /\ u.streak = call.streak
         /\ u.report = call.report
         /\ \A f \in Filings :
              u.job[f] = IF call.job[f] = "queued" THEN "cancelled" ELSE call.job[f]
  <1>1. PICK c \in Calls : c = call
      BY DEF TypeInv
  <1>2. PICK job : job = [f \in Filings |-> IF c.job[f] = "queued" THEN "cancelled" ELSE c.job[f]]
      OBVIOUS
  <1>3. job \in [Filings -> Places]
    <2>1. c.job \in [Filings -> Places]
        BY DEF Calls
    <2> QED
        BY <1>2, <2>1 DEF Places
  <1>4. PICK u : u = [c EXCEPT !.pc = pc, !.job = job]
      OBVIOUS
  <1>5. /\ u \in Calls /\ u.job = job /\ u.pc = pc /\ u.prior = c.prior /\ u.buffer = c.buffer
        /\ u.streak = c.streak /\ u.report = c.report /\ u.image = c.image /\ u.result = c.result
      BY <1>3, <1>4 DEF Calls
  <1>6. Cancelled(pc) = u
      BY <1>1, <1>2, <1>4 DEF Cancelled
  <1> QED
      BY <1>1, <1>2, <1>5, <1>6

(* A filing whose job, if it waited, no longer does.                       *)
LEMMA FilingClosed ==
  ASSUME NEW g \in Filings, FilingInv(g),
         table'[g] = table[g], object'[g] = object[g], tries'[g] = tries[g],
         readings'[g] = readings[g], refetched' = refetched, forgotten' = forgotten,
         call.pc = "run", call'.pc # "closed", call'.prior[g] = call.prior[g],
         call'.job[g] = call.job[g] \/ (call.job[g] = "queued" /\ call'.job[g] = "cancelled"),
         call'.image[g] = call.image[g],
         call'.result[g] = call.result[g], call'.report[g] = call.report[g],
         Buffered(g)' = Buffered(g),
         \A i \in Buffered(g) : call'.buffer[i] = call.buffer[i]
  PROVE  FilingInv(g)'
  <1>1. Committed(g)' = Committed(g)
      BY DEF Committed
  <1>2. \A row : Made(g, row) => Made(g, row)'
      BY DEF Made, Charged, IsFetched
  <1>3. Charged(call'.prior[g]) = Charged(call.prior[g])
      BY DEF Charged
  <1>4. PICK row : row = table[g]
      OBVIOUS
  <1>5. Kept(g, row) => Made(g, row)'
      BY <1>2 DEF Kept
  <1>6. Kept(g, table[g]) => Kept(g, table[g])'
      BY <1>4, <1>5 DEF Kept, Made
  <1> QED
      BY <1>1, <1>2, <1>3, <1>6 DEF FilingInv, IsFetched

(* A call cut short is counted.                                            *)
LEMMA Counted ==
  ASSUME TypeInv, CutShort
  PROVE  used' \in Used
  <1>1. PICK now \in Used : now = used
      BY DEF TypeInv
  <1>2. PICK n \in Nat : n = now.stops + 1
      BY DEF Used
  <1>3. used' = now \/ used' = [now EXCEPT !.stops = n]
      BY <1>1, <1>2 DEF CutShort
  <1> QED
      BY <1>1, <1>3 DEF Used

(* Ctrl-C in the loop that collects: the call goes on to its finally.      *)
LEMMA Interrupts ==
  ASSUME IInv, Interrupt
  PROVE  IInv'
  <1>1. /\ call.pc = "run" /\ call' = Cancelled("stopping") /\ CutShort
        /\ UNCHANGED <<table, object, cache, pages, rule, recut, reader, readings, tries, refetched, forgotten>>
      BY DEF Interrupt
  <1>2. used' \in Used
      BY <1>1, Counted DEF IInv
  <1>3. /\ call' \in Calls /\ call'.pc = "stopping" /\ call'.prior = call.prior
        /\ call'.image = call.image /\ call'.result = call.result /\ call'.buffer = call.buffer
        /\ call'.streak = call.streak /\ call'.report = call.report
        /\ \A f \in Filings :
             call'.job[f] = IF call.job[f] = "queued" THEN "cancelled" ELSE call.job[f]
      BY <1>1, CancelledIs DEF IInv, Pcs
  <1>4. TypeInv'
      BY <1>1, <1>2, <1>3 DEF IInv, TypeInv
  <1>5. ReaderInv' /\ RecutInv'
      BY <1>1, Apart
  <1>6. ReadInv' /\ MismatchNeedsRefetch'
      BY <1>1, TableMoves
  <1>7. CallInv
      BY <1>1 DEF IInv
  <1>8. \A g \in Filings : FilingInv(g)'
    <2>1. ASSUME NEW g \in Filings
          PROVE  FilingInv(g)'
      <3>1. Buffered(g)' = Buffered(g)
          BY <1>3 DEF Buffered
      <3> QED
          BY <1>1, <1>2, <1>3, <1>7, <3>1, FilingClosed DEF CallInv
    <2> QED
        BY <2>1
  <1>9. PhaseInv' /\ BufferInv'
      BY <1>3, <1>7 DEF CallInv, PhaseInv, BufferInv
  <1>10. StreakInv'
      BY <1>3 DEF StreakInv
  <1> QED
      BY <1>3, <1>4, <1>5, <1>6, <1>8, <1>9, <1>10 DEF IInv, CallInv

---------------------------------------------------------------------------
(* The loop takes a job: its row goes to the buffer, and with the buffer   *)
(* to the table when that is full.                                         *)
LEMMA Collects ==
  ASSUME IInv, NEW f \in Filings, Collect(f)
  PROVE  IInv'
  <1>1. /\ call.pc = "run" /\ call.job[f] = "done" /\ CallInv
        /\ UNCHANGED <<object, cache, pages, rule, recut, reader, readings, tries, refetched, forgotten, used>>
      BY DEF Collect, IInv
  <1>2. PICK c \in Calls : c = call
      BY DEF IInv, TypeInv
  <1>3. FilingInv(f) /\ PhaseInv /\ BufferInv /\ StreakInv
      BY <1>1 DEF CallInv
  <1>4. PICK row : row = call.result[f]
      OBVIOUS
  <1>5. row \in Rows /\ Made(f, row) /\ Buffered(f) = {} /\ ~Committed(f)
      BY <1>1, <1>3, <1>4 DEF FilingInv, Committed, Made
  <1>6. PICK entry \in Entries : entry = [f |-> f, row |-> row]
      BY <1>5 DEF Entries
  <1>7. PICK n \in Nat : n = Len(c.buffer)
      BY DEF Calls
  <1>8. PICK buffer \in Seq(Entries) : buffer = Append(c.buffer, entry)
    <2>1. PICK old \in Seq(Entries) : old = c.buffer
        BY DEF Calls
    <2>2. Append(old, entry) \in Seq(Entries)
        OBVIOUS
    <2> QED
        BY <2>1, <2>2
  <1>9. /\ DOMAIN buffer = 1 .. n + 1 /\ DOMAIN c.buffer = 1 .. n
        /\ buffer[n + 1] = entry /\ \A i \in 1 .. n : buffer[i] = c.buffer[i]
    <2>1. c.buffer \in Seq(Entries)
        BY DEF Calls
    <2> QED
        BY <1>7, <1>8, <2>1
  <1>10. \A i \in 1 .. n : buffer[i].f # f
      BY <1>2, <1>5, <1>9 DEF Buffered
  <1>11. \A i, j \in DOMAIN buffer : buffer[i].f = buffer[j].f => i = j
    <2>1. \A i, j \in 1 .. n : buffer[i].f = buffer[j].f => i = j
        BY <1>2, <1>3, <1>9 DEF BufferInv
    <2>2. buffer[n + 1].f = f
        BY <1>6, <1>9
    <2> QED
        BY <1>9, <1>10, <2>1, <2>2
  <1> DEFINE full == Len(buffer) >= Chunk
  <1>13. PICK streak \in Nat : streak = IF Refused(row) THEN c.streak + 1 ELSE 0
      BY DEF Calls
  <1>14. PICK next : next = IF streak >= RefusalsToStop THEN Cancelled("closing") ELSE call
      OBVIOUS
  <1>15. /\ next \in Calls /\ next.prior = c.prior /\ next.image = c.image
         /\ next.result = c.result /\ next.buffer = c.buffer /\ next.report = c.report
         /\ next.pc \in {"run", "closing"}
         /\ next.pc = "closing" => streak >= RefusalsToStop
         /\ \A g \in Filings :
              next.job[g] = IF next.pc = "closing" /\ c.job[g] = "queued" THEN "cancelled" ELSE c.job[g]
    <2>1. CASE streak >= RefusalsToStop
        BY <1>2, <1>14, <2>1, CancelledIs DEF IInv, Pcs
    <2>2. CASE ~(streak >= RefusalsToStop)
        BY <1>1, <1>2, <1>14, <2>2
    <2> QED
        BY <2>1, <2>2
  <1>16. PICK job : job = [next.job EXCEPT ![f] = "collected"]
      OBVIOUS
  <1>17. PICK result : result = [next.result EXCEPT ![f] = None]
      OBVIOUS
  <1>18. PICK report : report = [next.report EXCEPT ![f] = "row"]
      OBVIOUS
  <1>19. /\ job \in [Filings -> Places] /\ job[f] = "collected"
         /\ \A g \in Filings \ {f} : job[g] = next.job[g]
      BY <1>15, <1>16 DEF Calls, Places
  <1>20. /\ result \in [Filings -> Rows \cup {None}]
         /\ \A g \in Filings \ {f} : result[g] = c.result[g]
      BY <1>15, <1>17 DEF Calls
  <1>21. /\ report \in [Filings -> {"none", "row", "unfetched:teos_refused"}] /\ report[f] = "row"
         /\ \A g \in Filings \ {f} : report[g] = c.report[g]
      BY <1>15, <1>18 DEF Calls
  <1>22. PICK left \in Seq(Entries) : left = IF full THEN <<>> ELSE buffer
    <2>1. <<>> \in Seq(Entries)
        OBVIOUS
    <2> QED
        BY <2>1
  <1> HIDE DEF full
  <1>23. PICK u : u = [next EXCEPT !.job = job, !.result = result, !.buffer = left,
                                   !.streak = streak, !.report = report]
      OBVIOUS
  <1>24. /\ u \in Calls /\ u.pc = next.pc /\ u.prior = c.prior /\ u.job = job /\ u.image = c.image
         /\ u.result = result /\ u.buffer = left /\ u.streak = streak /\ u.report = report
      BY <1>13, <1>15, <1>19, <1>20, <1>21, <1>22, <1>23 DEF Calls
  <1>25. /\ table' = IF full THEN Upserted(buffer) ELSE table
         /\ call' = u
    <2>1. Append(call.buffer, [f |-> f, row |-> call.result[f]]) = buffer
        BY <1>2, <1>4, <1>6, <1>8
    <2>2. (IF Refused(call.result[f]) THEN call.streak + 1 ELSE 0) = streak
        BY <1>2, <1>4, <1>13
    <2> QED
        BY ZenonT(60), <1>14, <1>16, <1>17, <1>18, <1>22, <1>23, <2>1, <2>2 DEF Collect, full
  <1>26. /\ Upserted(buffer) \in [Filings -> Rows \cup {None}]
         /\ \A i \in DOMAIN buffer : Upserted(buffer)[buffer[i].f] = buffer[i].row
         /\ \A g \in Filings : (\A i \in DOMAIN buffer : buffer[i].f # g) => Upserted(buffer)[g] = table[g]
      BY <1>11, UpsertedIs DEF IInv, TypeInv
  <1>27. ASSUME NEW g \in Filings, g # f
         PROVE  FilingInv(g)' /\ (table'[g] = table[g] \/ (call.job[g] = "collected" /\ Made(g, table'[g])))
    <2>1. FilingInv(g)
        BY <1>1 DEF CallInv
    <2>2. /\ call'.pc # "closed" /\ call.pc # "closed" /\ call'.prior[g] = call.prior[g]
          /\ call'.job[g] = call.job[g] \/ (call.job[g] = "queued" /\ call'.job[g] = "cancelled")
          /\ call'.image[g] = call.image[g] /\ call'.result[g] = call.result[g]
          /\ call'.report[g] = call.report[g]
        BY <1>1, <1>2, <1>15, <1>19, <1>20, <1>21, <1>24, <1>25, <1>27
    <2>3. CASE ~full
      <3>1. Buffered(g)' = Buffered(g)
          BY <1>2, <1>6, <1>9, <1>22, <1>24, <1>25, <1>27, <2>3 DEF Buffered
      <3>2. \A i \in Buffered(g) : call'.buffer[i] = call.buffer[i]
          BY <1>2, <1>9, <1>22, <1>24, <1>25, <2>3 DEF Buffered
      <3>3. table'[g] = table[g]
          BY <1>25, <2>3
      <3> QED
          BY <1>1, <2>1, <2>2, <3>1, <3>2, <3>3, FilingClosed
    <2>4. CASE full /\ Buffered(g) = {}
      <3>1. \A i \in DOMAIN buffer : buffer[i].f # g
          BY <1>2, <1>6, <1>9, <1>27, <2>4 DEF Buffered
      <3>2. table'[g] = table[g]
          BY <1>25, <1>26, <2>4, <3>1
      <3>3. Buffered(g)' = Buffered(g)
          BY <1>22, <1>24, <1>25, <2>4 DEF Buffered
      <3> QED
          BY <1>1, <2>1, <2>2, <2>4, <3>2, <3>3, FilingClosed
    <2>5. CASE full /\ Buffered(g) # {}
      <3>1. PICK i \in Buffered(g) : TRUE
          BY <2>5
      <3>2. i \in DOMAIN buffer /\ buffer[i] = call.buffer[i] /\ buffer[i].f = g
          BY <1>2, <1>9, <3>1 DEF Buffered
      <3>3. call.job[g] = "collected" /\ Made(g, buffer[i].row)
          BY <2>1, <3>1, <3>2 DEF FilingInv
      <3>4. PICK made : made = buffer[i].row
          OBVIOUS
      <3>5. table'[g] = made /\ Made(g, made)
          BY <1>25, <1>26, <2>5, <3>2, <3>3, <3>4
      <3>6. Buffered(g)' = {}
          BY <1>22, <1>24, <1>25, <2>5 DEF Buffered
      <3>7. call'.job[g] = "collected" /\ Committed(g)'
          BY <2>2, <3>3, <3>6 DEF Committed
      <3>8. Made(g, made)'
          BY <1>1, <2>2, <3>5 DEF Made, Charged, IsFetched
      <3>9. Made(g, table[g])'
          BY <3>5, <3>8 DEF Made
      <3>10. FilingInv(g)'
          BY <1>1, <2>1, <2>2, <3>3, <3>6, <3>7, <3>9 DEF FilingInv, Kept, Charged, IsFetched
      <3> QED
          BY <3>3, <3>5, <3>10
    <2> QED
        BY <2>3, <2>4, <2>5
  <1>28. /\ FilingInv(f)'
         /\ table'[f] = table[f] \/ Made(f, table'[f])
    <2>1. /\ call'.pc # "closed" /\ call'.prior[f] = call.prior[f]
          /\ call'.job[f] = "collected" /\ call'.report[f] = "row"
        BY <1>2, <1>15, <1>19, <1>21, <1>24, <1>25
    <2>2. Made(f, row)'
        BY <1>1, <1>5, <2>1 DEF Made, Charged
    <2>3. CASE full
      <3>1. table'[f] = row
          BY <1>6, <1>9, <1>25, <1>26, <2>3
      <3>2. Buffered(f)' = {} /\ Committed(f)'
          BY <1>22, <1>24, <1>25, <2>1, <2>3 DEF Buffered, Committed
      <3>3. Made(f, table[f])'
          BY <2>2, <3>1 DEF Made
      <3>4. FilingInv(f)'
          BY <1>1, <1>3, <2>1, <3>2, <3>3 DEF FilingInv, Kept, Charged, IsFetched
      <3> QED
          BY <1>5, <3>1, <3>4
    <2>4. CASE ~full
      <3>1. call'.buffer = buffer /\ table' = table
          BY <1>22, <1>24, <1>25, <2>4
      <3>2. Buffered(f)' = {n + 1}
          BY <1>6, <1>9, <1>10, <3>1 DEF Buffered
      <3>3. \A i \in Buffered(f)' : call'.buffer[i].row = row
          BY <1>6, <1>9, <3>1, <3>2
      <3>4. \A i \in Buffered(f)' : Made(f, call.buffer[i].row)'
        <4>1. ASSUME NEW i \in Buffered(f)'
              PROVE  Made(f, call.buffer[i].row)'
            BY <2>2, <3>3, <4>1 DEF Made
        <4> QED
            BY <4>1
      <3>5. ~Committed(f)'
          BY <2>1, <3>2 DEF Committed
      <3>6. FilingInv(f)'
          BY <1>1, <1>3, <1>5, <2>1, <3>1, <3>4, <3>5 DEF FilingInv, Charged, IsFetched
      <3> QED
          BY <3>1, <3>6
    <2> QED
        BY <2>3, <2>4
  <1>29. ReadInv' /\ MismatchNeedsRefetch'
    <2>1. \A g \in Filings :
            \/ table'[g] = table[g]
            \/ call.job[g] \in {"done", "collected"} /\ Made(g, table'[g])
        BY <1>1, <1>27, <1>28
    <2> QED
        BY <1>1, <2>1, TableMoves
  <1>30. ReaderInv' /\ RecutInv'
      BY <1>1, Apart
  <1>31. TypeInv'
    <2>1. table' \in [Filings -> Rows \cup {None}]
        BY <1>25, <1>26 DEF IInv, TypeInv
    <2> QED
        BY <1>1, <1>24, <1>25, <2>1 DEF IInv, TypeInv
  <1>32. PhaseInv'
    <2>1. \A g \in Filings : call.job[g] # "cancelled"
        BY <1>1, <1>3 DEF PhaseInv
    <2>2. \A g \in Filings \ {f} : call'.job[g] =
            IF call'.pc = "closing" /\ call.job[g] = "queued" THEN "cancelled" ELSE call.job[g]
        BY <1>2, <1>15, <1>19, <1>24, <1>25
    <2>3. call'.job[f] = "collected" /\ call'.pc \in {"run", "closing"}
        BY <1>15, <1>19, <1>24, <1>25
    <2> QED
        BY <2>1, <2>2, <2>3 DEF PhaseInv
  <1>33. BufferInv'
    <2>1. call'.buffer = left
        BY <1>24, <1>25
    <2> QED
        BY <1>11, <1>22, <2>1 DEF BufferInv
  <1>34. StreakInv'
    <2>1. ASSUME NEW g \in Filings, RefusedHere(g)
          PROVE  RefusedHere(g)'
      <3>1. g # f /\ call.job[g] = "collected"
          BY <1>1, <2>1 DEF RefusedHere
      <3>2. call'.job[g] = "collected"
          BY <1>2, <1>15, <1>19, <1>24, <1>25, <3>1
      <3>3. CASE ~full
        <4>1. Buffered(g)' = Buffered(g) /\ \A i \in Buffered(g) : call'.buffer[i] = call.buffer[i]
            BY <1>2, <1>6, <1>9, <1>22, <1>24, <1>25, <3>1, <3>3 DEF Buffered
        <4>2. table' = table
            BY <1>25, <3>3
        <4> QED
            BY <2>1, <3>2, <4>1, <4>2 DEF RefusedHere, Refused
      <3>4. CASE full
        <4>1. Buffered(g)' = {}
            BY <1>22, <1>24, <1>25, <3>4 DEF Buffered
        <4>2. Refused(table'[g])
          <5>1. CASE Buffered(g) = {}
            <6>1. \A i \in DOMAIN buffer : buffer[i].f # g
                BY <1>2, <1>6, <1>9, <3>1, <5>1 DEF Buffered
            <6> QED
                BY <1>25, <1>26, <2>1, <3>4, <5>1, <6>1 DEF RefusedHere
          <5>2. CASE Buffered(g) # {}
            <6>1. PICK i \in Buffered(g) : TRUE
                BY <5>2
            <6>2. i \in DOMAIN buffer /\ buffer[i] = call.buffer[i] /\ buffer[i].f = g
                BY <1>2, <1>9, <6>1 DEF Buffered
            <6> QED
                BY <1>25, <1>26, <2>1, <3>4, <6>1, <6>2 DEF RefusedHere
          <5> QED
              BY <5>1, <5>2
        <4> QED
            BY <3>2, <4>1, <4>2 DEF RefusedHere, Refused
      <3> QED
          BY <3>3, <3>4
    <2>2. Refused(row) => RefusedHere(f)'
      <3>1. CASE full
        <4>1. table'[f] = row /\ Buffered(f)' = {} /\ call'.job[f] = "collected"
            BY <1>6, <1>9, <1>19, <1>22, <1>24, <1>25, <1>26, <3>1 DEF Buffered
        <4> QED
            BY <4>1 DEF RefusedHere, Refused
      <3>2. CASE ~full
        <4>1. call'.buffer = buffer /\ call'.job[f] = "collected"
            BY <1>19, <1>22, <1>24, <1>25, <3>2
        <4>2. Buffered(f)' = {n + 1} /\ call'.buffer[n + 1].row = row
            BY <1>6, <1>9, <1>10, <4>1 DEF Buffered
        <4> QED
            BY <4>1, <4>2 DEF RefusedHere, Refused
      <3> QED
          BY <3>1, <3>2
    <2>3. \E R \in SUBSET Filings : Cardinality(R) >= streak /\ \A g \in R : RefusedHere(g)'
      <3>1. CASE ~Refused(row)
        <4>1. Cardinality({}) >= streak
            BY <1>13, <3>1, FS_EmptySet
        <4> QED
            BY <4>1
      <3>2. CASE Refused(row)
        <4>1. PICK R \in SUBSET Filings : Cardinality(R) >= call.streak /\ \A g \in R : RefusedHere(g)
            BY <1>1, <1>3 DEF StreakInv
        <4>2. f \notin R
            BY <1>1, <4>1 DEF RefusedHere
        <4>3. IsFiniteSet(R) /\ Cardinality(R) \in Nat
            BY <4>1, FS_Subset, FS_CardinalityType, SizesAssumption
        <4>4. Cardinality(R \cup {f}) = Cardinality(R) + 1
            BY <4>2, <4>3, FS_AddElement
        <4>5. Cardinality(R \cup {f}) >= streak
          <5>1. streak = call.streak + 1 /\ call.streak \in Nat
              BY <1>2, <1>13, <3>2, CallFields DEF IInv
          <5> QED
              BY <4>1, <4>3, <4>4, <5>1
        <4>6. \A g \in R \cup {f} : RefusedHere(g)'
            BY <2>1, <2>2, <3>2, <4>1
        <4> QED
            BY <4>5, <4>6
      <3> QED
          BY <3>1, <3>2
    <2>4. call'.streak = streak /\ (call'.pc \in {"closing", "closed"} => streak >= RefusalsToStop)
        BY <1>15, <1>24, <1>25
    <2> QED
        BY <2>3, <2>4 DEF StreakInv
  <1>35. call'.pc # "idle"
      BY <1>15, <1>24, <1>25
  <1> QED
      BY <1>27, <1>28, <1>29, <1>30, <1>31, <1>32, <1>33, <1>34, <1>35 DEF IInv, CallInv

(* What holds of a filing when the loop stops with an empty buffer.        *)
LEMMA FilingStopped ==
  ASSUME NEW g \in Filings, FilingInv(g),
         object'[g] = object[g], tries'[g] = tries[g],
         readings'[g] = readings[g], refetched' = refetched, forgotten \subseteq forgotten',
         call.pc = "run", call'.pc = "stopping", call'.prior[g] = call.prior[g],
         Buffered(g)' = {}, call'.image[g] = call.image[g],
         \/ call'.job[g] = call.job[g] /\ call'.result[g] = call.result[g]
         \/ call.job[g] = "queued" /\ call'.job[g] = "cancelled"
         \/ call.job[g] = "done" /\ call'.job[g] = "collected",
         call'.job[g] = "collected" => Kept(g, table[g])',
         call'.job[g] # "collected" => table'[g] = call.prior[g]
  PROVE  FilingInv(g)'
  <1>1. Committed(g)' <=> call'.job[g] = "collected"
      BY DEF Committed
  <1>2. Made(g, call.result[g]) /\ call'.result[g] = call.result[g] => Made(g, call.result[g])'
      BY DEF Made, Charged, IsFetched
  <1>3. Charged(call'.prior[g]) = Charged(call.prior[g])
      BY DEF Charged
  <1>4. call'.job[g] = "done" => call.job[g] = "done" /\ call'.result[g] = call.result[g]
      OBVIOUS
  <1> QED
      BY <1>1, <1>2, <1>3, <1>4 DEF FilingInv, IsFetched

(* The commit of a full buffer raised: its rows are in the table all the   *)
(* same, or are forgotten; the loop stops.                                 *)
LEMMA FailedCollects ==
  ASSUME IInv, NEW f \in Filings, CollectFails(f)
  PROVE  IInv'
  <1>1. /\ call.pc = "run" /\ call.job[f] = "done" /\ CallInv /\ CutShort
        /\ UNCHANGED <<object, cache, pages, rule, recut, reader, readings, tries, refetched>>
      BY DEF CollectFails, IInv
  <1>2. FilingInv(f) /\ BufferInv /\ PhaseInv
      BY <1>1 DEF CallInv
  <1>3. PICK row : row = call.result[f]
      OBVIOUS
  <1>4. row \in Rows /\ Made(f, row) /\ Buffered(f) = {} /\ ~Committed(f)
      BY <1>1, <1>2, <1>3 DEF FilingInv, Committed, Made
  <1>5. PICK entry \in Entries : entry = [f |-> f, row |-> row]
      BY <1>4 DEF Entries
  <1>6. PICK old \in Seq(Entries) : old = call.buffer
      BY CallFields DEF IInv
  <1>7. PICK n \in Nat : n = Len(old)
      OBVIOUS
  <1>8. PICK buffer \in Seq(Entries) : buffer = Append(old, entry)
    <2>1. Append(old, entry) \in Seq(Entries)
        OBVIOUS
    <2> QED
        BY <2>1
  <1>9. /\ DOMAIN buffer = 1 .. n + 1 /\ DOMAIN old = 1 .. n
        /\ buffer[n + 1] = entry /\ \A i \in 1 .. n : buffer[i] = old[i]
      BY <1>7, <1>8
  <1>10. \A i \in 1 .. n : buffer[i].f # f
      BY <1>4, <1>6, <1>9 DEF Buffered
  <1>11. \A i, j \in DOMAIN buffer : buffer[i].f = buffer[j].f => i = j
    <2>1. \A i, j \in 1 .. n : buffer[i].f = buffer[j].f => i = j
        BY <1>2, <1>6, <1>9 DEF BufferInv
    <2>2. buffer[n + 1].f = f
        BY <1>5, <1>9
    <2> QED
        BY <1>9, <1>10, <2>1, <2>2
  <1>12. PICK landed \in BOOLEAN :
           /\ table' = IF landed THEN Upserted(buffer) ELSE table
           /\ forgotten' = forgotten \union Lost(buffer, landed)
    <2>1. Append(call.buffer, [f |-> f, row |-> call.result[f]]) = buffer
        BY <1>3, <1>5, <1>6, <1>8
    <2> QED
        BY <2>1 DEF CollectFails
  <1>13. PICK next \in Calls : next = Cancelled("stopping")
      BY CancelledIs DEF IInv, Pcs
  <1>14. /\ next.pc = "stopping" /\ next.prior = call.prior /\ next.image = call.image
         /\ next.result = call.result /\ next.report = call.report /\ next.streak = call.streak
         /\ \A g \in Filings :
              next.job[g] = IF call.job[g] = "queued" THEN "cancelled" ELSE call.job[g]
      BY <1>13, CancelledIs DEF IInv, Pcs
  <1>15. PICK job : job = [next.job EXCEPT ![f] = "collected"]
      OBVIOUS
  <1>16. PICK result : result = [next.result EXCEPT ![f] = None]
      OBVIOUS
  <1>17. PICK empty \in Seq(Entries) : empty = <<>>
    <2>1. <<>> \in Seq(Entries)
        OBVIOUS
    <2> QED
        BY <2>1
  <1>18. /\ job \in [Filings -> Places] /\ job[f] = "collected"
         /\ \A g \in Filings \ {f} : job[g] = next.job[g]
      BY <1>15 DEF Calls, Places
  <1>19. /\ result \in [Filings -> Rows \cup {None}]
         /\ \A g \in Filings \ {f} : result[g] = next.result[g]
      BY <1>16 DEF Calls
  <1>20. PICK u : u = [next EXCEPT !.job = job, !.result = result, !.buffer = empty]
      OBVIOUS
  <1>21. /\ u \in Calls /\ u.pc = next.pc /\ u.prior = next.prior /\ u.job = job /\ u.image = next.image
         /\ u.result = result /\ u.buffer = empty
      BY <1>17, <1>18, <1>19, <1>20 DEF Calls
  <1>22. call' = u
      BY <1>13, <1>15, <1>16, <1>17, <1>20 DEF CollectFails
  <1>23. /\ call' \in Calls /\ call'.pc = "stopping" /\ call'.buffer = <<>>
         /\ \A g \in Filings : /\ call'.prior[g] = call.prior[g] /\ call'.image[g] = call.image[g]
                               /\ Buffered(g)' = {}
    <2>1. call'.buffer = <<>>
        BY <1>17, <1>21, <1>22
    <2>2. \A g \in Filings : Buffered(g)' = {}
        BY <2>1 DEF Buffered
    <2> QED
        BY <1>14, <1>21, <1>22, <2>1, <2>2
  <1>24. /\ call'.job[f] = "collected"
         /\ \A g \in Filings \ {f} :
              /\ call'.job[g] = IF call.job[g] = "queued" THEN "cancelled" ELSE call.job[g]
              /\ call'.result[g] = call.result[g]
      BY <1>14, <1>18, <1>19, <1>21, <1>22
  <1>25. \A i \in DOMAIN buffer : buffer[i].f \in Filings /\ buffer[i].row \in Rows
      BY EntryFields
  <1>26. forgotten \subseteq forgotten' /\ forgotten' \subseteq Filings
      BY <1>12, <1>25 DEF IInv, TypeInv, Lost
  <1>27. /\ Upserted(buffer) \in [Filings -> Rows \cup {None}]
         /\ \A i \in DOMAIN buffer : Upserted(buffer)[buffer[i].f] = buffer[i].row
         /\ \A g \in Filings : (\A i \in DOMAIN buffer : buffer[i].f # g) => Upserted(buffer)[g] = table[g]
      BY <1>11, UpsertedIs DEF IInv, TypeInv
  <1>28. table' \in [Filings -> Rows \cup {None}]
      BY <1>12, <1>27 DEF IInv, TypeInv
  <1>29. \A i \in DOMAIN buffer :
           call'.job[buffer[i].f] = "collected" /\ call.job[buffer[i].f] \in {"done", "collected"}
           /\ Made(buffer[i].f, buffer[i].row) /\ ~Committed(buffer[i].f)
    <2>1. ASSUME NEW i \in 1 .. n
          PROVE  call.job[buffer[i].f] = "collected" /\ Made(buffer[i].f, buffer[i].row)
                 /\ Buffered(buffer[i].f) # {}
      <3>1. i \in Buffered(buffer[i].f) /\ buffer[i] = call.buffer[i]
          BY <1>6, <1>9 DEF Buffered
      <3>2. FilingInv(buffer[i].f)
          BY <1>1, <1>9, <1>25 DEF CallInv
      <3> QED
          BY <3>1, <3>2 DEF FilingInv
    <2>2. ASSUME NEW i \in 1 .. n
          PROVE  call'.job[buffer[i].f] = "collected" /\ ~Committed(buffer[i].f)
      <3>1. buffer[i].f # f /\ buffer[i].f \in Filings
          BY <1>9, <1>10, <1>25
      <3> QED
          BY <1>24, <2>1, <3>1 DEF Committed
    <2>3. buffer[n + 1].f = f /\ buffer[n + 1].row = row
        BY <1>5, <1>9
    <2> QED
        BY <1>1, <1>4, <1>9, <1>24, <2>1, <2>2, <2>3
  <1>30. ASSUME NEW g \in Filings
         PROVE  /\ FilingInv(g)'
                /\ table'[g] = table[g] \/ (call.job[g] \in {"done", "collected"} /\ Made(g, table'[g]))
    <2>1. FilingInv(g)
        BY <1>1 DEF CallInv
    <2>2. PICK now : now = table'[g]
        OBVIOUS
    <2>3. Made(g, now) => Made(g, now)'
        BY <1>1, <1>23 DEF Made, Charged
    <2>4. CASE \E i \in DOMAIN buffer : buffer[i].f = g
      <3>1. PICK i \in DOMAIN buffer : buffer[i].f = g
          BY <2>4
      <3>2. call'.job[g] = "collected" /\ call.job[g] \in {"done", "collected"} /\ Made(g, buffer[i].row)
            /\ ~Committed(g)
          BY <1>29, <3>1
      <3>3. CASE landed
        <4>1. now = buffer[i].row
            BY <1>12, <1>27, <2>2, <3>1, <3>3
        <4>2. Made(g, now)
            BY <3>2, <4>1
        <4>3. Kept(g, table[g])'
            BY <2>2, <2>3, <4>2 DEF Kept, Made
        <4>4. FilingInv(g)'
            BY <1>1, <1>23, <1>24, <1>26, <2>1, <3>2, <4>3, FilingStopped
        <4> QED
            BY <2>2, <3>2, <4>2, <4>4
      <3>4. CASE ~landed
        <4>1. table' = table /\ table[g] = call.prior[g]
            BY <1>12, <2>1, <3>2, <3>4 DEF FilingInv
        <4>2. g \in forgotten'
            BY <1>12, <3>1, <3>4 DEF Lost
        <4>3. Kept(g, table[g])'
            BY <1>23, <4>1, <4>2 DEF Kept
        <4>4. FilingInv(g)'
            BY <1>1, <1>23, <1>24, <1>26, <2>1, <3>2, <4>3, FilingStopped
        <4> QED
            BY <4>1, <4>4
      <3> QED
          BY <3>3, <3>4
    <2>5. CASE \A i \in DOMAIN buffer : buffer[i].f # g
      <3>1. g # f /\ Buffered(g) = {}
        <4>1. buffer[n + 1].f = f /\ n + 1 \in DOMAIN buffer
            BY <1>5, <1>9
        <4>2. \A i \in DOMAIN old : i \in DOMAIN buffer /\ buffer[i] = old[i]
            BY <1>9
        <4> QED
            BY <1>6, <2>5, <4>1, <4>2 DEF Buffered
      <3>2. table'[g] = table[g]
          BY <1>12, <1>27, <2>5
      <3>3. call'.job[g] = IF call.job[g] = "queued" THEN "cancelled" ELSE call.job[g]
          BY <1>24, <3>1
      <3>4. ASSUME call'.job[g] = "collected"
            PROVE  Kept(g, table[g])'
        <4>1. Made(g, now)
            BY <1>1, <2>1, <2>2, <3>1, <3>2, <3>3, <3>4 DEF FilingInv, Committed, Kept
        <4> QED
            BY <2>2, <2>3, <4>1 DEF Kept, Made
      <3>5. call'.job[g] # "collected" => table'[g] = call.prior[g]
          BY <1>1, <2>1, <3>2, <3>3 DEF FilingInv, Committed
      <3>6. FilingInv(g)'
          BY <1>1, <1>23, <1>24, <1>26, <2>1, <3>1, <3>3, <3>4, <3>5, FilingStopped
      <3> QED
          BY <3>2, <3>6
    <2> QED
        BY <2>4, <2>5
  <1>31. ReadInv' /\ MismatchNeedsRefetch'
      BY <1>1, <1>30, TableMoves
  <1>32. ReaderInv' /\ RecutInv'
      BY <1>1, Apart
  <1>33. TypeInv'
    <2>1. used' \in Used
        BY <1>1, Counted DEF IInv
    <2> QED
        BY <1>1, <1>23, <1>26, <1>28, <2>1 DEF IInv, TypeInv
  <1>34. PhaseInv' /\ BufferInv' /\ StreakInv'
    <2>1. \A g \in Filings : call'.job[g] # "queued"
        BY <1>24
    <2> QED
        BY <1>23, <2>1 DEF PhaseInv, BufferInv, StreakInv
  <1> QED
      BY <1>23, <1>30, <1>31, <1>32, <1>33, <1>34 DEF IInv, CallInv

---------------------------------------------------------------------------
(* One sequence after the other.                                           *)
LEMMA Joined ==
  ASSUME NEW S, NEW a \in Seq(S), NEW b \in Seq(S)
  PROVE  /\ a \o b \in Seq(S) /\ DOMAIN (a \o b) = 1 .. Len(a) + Len(b)
         /\ \A i \in 1 .. Len(a) : (a \o b)[i] = a[i]
         /\ \A i \in 1 .. Len(b) : (a \o b)[Len(a) + i] = b[i]
  <1>1. Len(a) \in Nat /\ Len(b) \in Nat
      OBVIOUS
  <1>2. a \o b \in Seq(S) /\ Len(a \o b) = Len(a) + Len(b)
      OBVIOUS
  <1>3. \A i \in 1 .. Len(a) + Len(b) : (a \o b)[i] = IF i <= Len(a) THEN a[i] ELSE b[i - Len(a)]
      OBVIOUS
  <1>4. \A i \in 1 .. Len(a) : i \in 1 .. Len(a) + Len(b) /\ i <= Len(a)
      BY <1>1
  <1>5. \A i \in 1 .. Len(b) : Len(a) + i \in 1 .. Len(a) + Len(b) /\ ~(Len(a) + i <= Len(a))
                               /\ Len(a) + i - Len(a) = i
      BY <1>1
  <1>6. \A i \in 1 .. Len(b) : (a \o b)[Len(a) + i] = b[i]
      BY <1>3, <1>5
  <1> QED
      BY <1>2, <1>3, <1>4, <1>6

(* The set of the jobs in flight, in some order, each once.                *)
LEMMA Enumerated ==
  ASSUME NEW S \in SUBSET Filings
  PROVE  /\ Cardinality(S) \in Nat
         /\ SetToSeq(S) \in [1 .. Cardinality(S) -> S]
         /\ \A i, j \in 1 .. Cardinality(S) : SetToSeq(S)[i] = SetToSeq(S)[j] => i = j
         /\ \A f \in S : \E i \in 1 .. Cardinality(S) : SetToSeq(S)[i] = f
  <1>1. IsFiniteSet(S)
      BY FS_Subset, SizesAssumption
  <1>2. PICK n \in Nat : n = Cardinality(S)
      BY <1>1, FS_CardinalityType
  <1>3. \E b \in [1 .. n -> S] : IsInjective(b)
      BY <1>1, <1>2, FS_CardinalityType DEF ExistsBijection, Bijection, Injection
  <1>4. SetToSeq(S) = CHOOSE b \in [1 .. n -> S] : IsInjective(b)
      BY <1>2 DEF SetToSeq
  <1>5. SetToSeq(S) \in [1 .. n -> S] /\ IsInjective(SetToSeq(S))
      BY <1>3, <1>4
  <1>6. SetToSeq(S) \in Injection(1 .. n, S)
      BY <1>5 DEF Injection
  <1>7. Cardinality(1 .. n) = Cardinality(S)
      BY <1>2, FS_Interval
  <1>8. SetToSeq(S) \in Surjection(1 .. n, S)
      BY <1>1, <1>6, <1>7, FS_Injection
  <1> QED
      BY <1>2, <1>5, <1>8 DEF IsInjective, Surjection

(* Rows that are all of a call still to be committed.                      *)
AreHeld(rows) ==
    /\ rows \in Seq(Entries)
    /\ \A i, j \in DOMAIN rows : rows[i].f = rows[j].f => i = j
    /\ \A i \in DOMAIN rows :
         \/ i \in DOMAIN call.buffer /\ rows[i] = call.buffer[i]
         \/ call.job[rows[i].f] = "done" /\ rows[i].row = call.result[rows[i].f]
    /\ \A i \in DOMAIN call.buffer : i \in DOMAIN rows /\ rows[i] = call.buffer[i]
    /\ \A f \in Filings : call.job[f] = "done" => \E i \in DOMAIN rows : rows[i].f = f

(* The buffer and the jobs in flight: each filing once.                    *)
LEMMA HeldIs ==
  ASSUME IInv, call.pc \in {"run", "closing", "stopping"}
  PROVE  AreHeld(Held)
  <1>1. (\A f \in Filings : FilingInv(f)) /\ BufferInv
      BY DEF IInv, CallInv
  <1>2. PICK buffer \in Seq(Entries) : buffer = call.buffer
      BY CallFields DEF IInv
  <1>3. PICK n \in Nat : n = Len(buffer)
      OBVIOUS
  <1>4. DOMAIN buffer = 1 .. n /\ \A i \in 1 .. n : buffer[i].f \in Filings /\ buffer[i].row \in Rows
      BY <1>3, EntryFields
  <1>5. PICK order : order = SetToSeq(InFlight)
      OBVIOUS
  <1>6. PICK m : m = Cardinality(InFlight)
      OBVIOUS
  <1>7. InFlight \in SUBSET Filings
      BY DEF InFlight
  <1>8. /\ m \in Nat /\ order \in [1 .. m -> InFlight]
        /\ \A i, j \in 1 .. m : order[i] = order[j] => i = j
        /\ \A f \in InFlight : \E i \in 1 .. m : order[i] = f
      BY <1>5, <1>6, <1>7, Enumerated
  <1>9. \A i \in 1 .. m : order[i] \in Filings /\ call.job[order[i]] = "done"
                          /\ call.result[order[i]] \in Rows
    <2>1. \A i \in 1 .. m : order[i] \in Filings /\ call.job[order[i]] = "done"
        BY <1>8 DEF InFlight
    <2>2. \A f \in Filings : call.job[f] = "done" => call.result[f] \in Rows
        BY <1>1 DEF FilingInv, Made
    <2> QED
        BY <2>1, <2>2
  <1>10. PICK flight : flight = [i \in 1 .. m |-> [f |-> order[i], row |-> call.result[order[i]]]]
      OBVIOUS
  <1>11. flight \in [1 .. m -> Entries]
      BY <1>9, <1>10 DEF Entries
  <1>12. flight \in Seq(Entries) /\ Len(flight) = m /\ DOMAIN flight = 1 .. m
      BY <1>8, <1>11
  <1>13. PICK rows \in Seq(Entries) : rows = buffer \o flight
      BY <1>12, Joined
  <1>14. /\ DOMAIN rows = 1 .. n + m
         /\ \A i \in 1 .. n : rows[i] = buffer[i]
         /\ \A i \in 1 .. m : rows[n + i] = flight[i]
      BY <1>3, <1>12, <1>13, Joined
  <1>15. \A i \in 1 .. m : rows[n + i].f = order[i] /\ rows[n + i].row = call.result[order[i]]
      BY <1>10, <1>14
  <1>16. \A i \in 1 .. n + m : i \in 1 .. n \/ \E j \in 1 .. m : i = n + j
    <2>1. \A i \in 1 .. n + m : i \in 1 .. n \/ (i - n \in 1 .. m /\ i = n + (i - n))
        BY <1>8
    <2> QED
        BY <2>1
  <1>17. \A i \in 1 .. n : call.job[rows[i].f] = "collected"
      BY <1>1, <1>2, <1>4, <1>14 DEF FilingInv, Buffered
  <1>18. Held = rows
    <2>1. flight = [i \in 1..Cardinality(InFlight) |->
                      LET f == SetToSeq(InFlight)[i] IN [f |-> f, row |-> call.result[f]]]
        BY <1>5, <1>6, <1>10
    <2> QED
        BY <1>2, <1>13, <2>1 DEF Held
  <1>19. \A i, j \in DOMAIN rows : rows[i].f = rows[j].f => i = j
    <2>1. ASSUME NEW i \in 1 .. n, NEW j \in 1 .. n, rows[i].f = rows[j].f
          PROVE  i = j
        BY <1>1, <1>2, <1>4, <1>14, <2>1 DEF BufferInv
    <2>2. ASSUME NEW i \in 1 .. m, NEW j \in 1 .. m, rows[n + i].f = rows[n + j].f
          PROVE  i = j
        BY <1>8, <1>15, <2>2
    <2>3. \A i \in 1 .. n, j \in 1 .. m : rows[i].f # rows[n + j].f
        BY <1>9, <1>15, <1>17
    <2>4. ASSUME NEW i \in DOMAIN rows, NEW j \in DOMAIN rows, rows[i].f = rows[j].f
          PROVE  i = j
      <3>1. CASE i \in 1 .. n /\ j \in 1 .. n
          BY <2>1, <2>4, <3>1
      <3>2. CASE ~(i \in 1 .. n) /\ ~(j \in 1 .. n)
        <4>1. PICK k \in 1 .. m : i = n + k
            BY <1>14, <1>16, <3>2
        <4>2. PICK l \in 1 .. m : j = n + l
            BY <1>14, <1>16, <3>2
        <4>3. k = l
            BY <2>2, <2>4, <4>1, <4>2
        <4> QED
            BY <4>1, <4>2, <4>3
      <3>3. CASE i \in 1 .. n /\ ~(j \in 1 .. n)
        <4>1. PICK l \in 1 .. m : j = n + l
            BY <1>14, <1>16, <3>3
        <4> QED
            BY <2>3, <2>4, <3>3, <4>1
      <3>4. CASE ~(i \in 1 .. n) /\ j \in 1 .. n
        <4>1. PICK k \in 1 .. m : i = n + k
            BY <1>14, <1>16, <3>4
        <4> QED
            BY <2>3, <2>4, <3>4, <4>1
      <3> QED
          BY <3>1, <3>2, <3>3, <3>4
    <2> QED
        BY <2>4
  <1>20. \A i \in DOMAIN rows :
           \/ i \in DOMAIN buffer /\ rows[i] = buffer[i]
           \/ call.job[rows[i].f] = "done" /\ rows[i].row = call.result[rows[i].f]
      BY <1>4, <1>9, <1>14, <1>15, <1>16
  <1>21. \A i \in DOMAIN buffer : i \in DOMAIN rows /\ rows[i] = buffer[i]
      BY <1>4, <1>8, <1>14
  <1>22. \A f \in Filings : call.job[f] = "done" => \E i \in DOMAIN rows : rows[i].f = f
    <2>1. ASSUME NEW f \in Filings, call.job[f] = "done"
          PROVE  \E i \in DOMAIN rows : rows[i].f = f
      <3>1. PICK i \in 1 .. m : order[i] = f
          BY <1>8, <2>1 DEF InFlight
      <3>2. n + i \in DOMAIN rows
          BY <1>8, <1>14
      <3> QED
          BY <1>15, <3>1, <3>2
    <2> QED
        BY <2>1
  <1> QED
      BY <1>2, <1>18, <1>19, <1>20, <1>21, <1>22 DEF AreHeld

(* All the rows of a call in the table: those its loop has not committed,  *)
(* and those of the jobs it did not take.                                  *)
LEMMA Settles ==
  ASSUME IInv, call.pc \in {"run", "closing", "stopping"},
         \/ table' = Upserted(call.buffer) /\ \A f \in Filings : call.job[f] # "done"
         \/ table' = Upserted(Held)
  PROVE  /\ table' \in [Filings -> Rows \cup {None}]
         /\ \A f \in Filings : IF call.job[f] \in {"done", "collected"}
                               THEN Kept(f, table'[f]) ELSE table'[f] = call.prior[f]
         /\ \A f \in Filings : RefusedHere(f) => Refused(table'[f])
         /\ \A f \in Filings :
              table'[f] = table[f] \/ (call.job[f] \in {"done", "collected"} /\ Made(f, table'[f]))
  <1>1. (\A f \in Filings : FilingInv(f)) /\ BufferInv
      BY DEF IInv, CallInv
  <1>2. PICK buffer \in Seq(Entries) : buffer = call.buffer
      BY CallFields DEF IInv
  <1>3. PICK n \in Nat : n = Len(buffer)
      OBVIOUS
  <1>4. DOMAIN buffer = 1 .. n /\ \A i \in 1 .. n : buffer[i].f \in Filings /\ buffer[i].row \in Rows
      BY <1>3, EntryFields
  <1>5. \E rows : table' = Upserted(rows) /\ AreHeld(rows)
    <2>1. CASE table' = Upserted(call.buffer) /\ \A f \in Filings : call.job[f] # "done"
      <3>1. AreHeld(buffer)
          BY <1>1, <1>2, <2>1 DEF AreHeld, BufferInv
      <3> QED
          BY <1>2, <2>1, <3>1
    <2>2. CASE table' = Upserted(Held)
        BY <2>2, HeldIs
    <2> QED
        BY <2>1, <2>2
  <1>6. PICK rows \in Seq(Entries) :
          /\ table' = Upserted(rows)
          /\ \A i, j \in DOMAIN rows : rows[i].f = rows[j].f => i = j
          /\ \A i \in DOMAIN rows :
               \/ i \in DOMAIN buffer /\ rows[i] = buffer[i]
               \/ call.job[rows[i].f] = "done" /\ rows[i].row = call.result[rows[i].f]
          /\ \A i \in DOMAIN buffer : i \in DOMAIN rows /\ rows[i] = buffer[i]
          /\ \A f \in Filings : call.job[f] = "done" => \E i \in DOMAIN rows : rows[i].f = f
      BY <1>2, <1>5 DEF AreHeld
  <1>7. /\ table' \in [Filings -> Rows \cup {None}]
        /\ \A i \in DOMAIN rows : table'[rows[i].f] = rows[i].row
        /\ \A f \in Filings : (\A i \in DOMAIN rows : rows[i].f # f) => table'[f] = table[f]
    <2>1. table \in [Filings -> Rows \cup {None}]
        BY DEF IInv, TypeInv
    <2>2. /\ Upserted(rows) \in [Filings -> Rows \cup {None}]
          /\ \A i \in DOMAIN rows : Upserted(rows)[rows[i].f] = rows[i].row
          /\ \A f \in Filings : (\A i \in DOMAIN rows : rows[i].f # f) => Upserted(rows)[f] = table[f]
        BY <1>6, <2>1, UpsertedIs
    <2> QED
        BY <1>6, <2>2
  <1>8. ASSUME NEW f \in Filings
        PROVE  /\ IF call.job[f] \in {"done", "collected"}
                  THEN Kept(f, table'[f]) ELSE table'[f] = call.prior[f]
               /\ RefusedHere(f) => Refused(table'[f])
               /\ table'[f] = table[f] \/ (call.job[f] \in {"done", "collected"} /\ Made(f, table'[f]))
    <2>1. FilingInv(f)
        BY <1>1
    <2>2. CASE Buffered(f) # {}
      <3>1. PICK i \in Buffered(f) : TRUE
          BY <2>2
      <3>2. call.job[f] = "collected" /\ Made(f, call.buffer[i].row)
          BY <2>1, <3>1 DEF FilingInv
      <3>3. i \in DOMAIN rows /\ rows[i] = call.buffer[i] /\ rows[i].f = f
          BY <1>2, <1>6, <3>1 DEF Buffered
      <3>4. table'[f] = call.buffer[i].row
          BY <1>7, <3>3
      <3> QED
          BY <3>1, <3>2, <3>4 DEF RefusedHere, Kept
    <2>3. CASE call.job[f] = "done"
      <3>1. PICK i \in DOMAIN rows : rows[i].f = f
          BY <1>6, <2>3
      <3>2. i \in DOMAIN buffer => ~(rows[i] = buffer[i])
          BY <1>2, <2>1, <2>3, <3>1 DEF FilingInv, Buffered
      <3>3. table'[f] = call.result[f]
          BY <1>6, <1>7, <3>1, <3>2
      <3> QED
          BY <2>1, <2>3, <3>3 DEF FilingInv, RefusedHere, Kept
    <2>4. CASE Buffered(f) = {} /\ call.job[f] # "done"
      <3>1. \A i \in DOMAIN rows : rows[i].f # f
          BY <1>2, <1>6, <2>4 DEF Buffered
      <3>2. table'[f] = table[f]
          BY <1>7, <3>1
      <3> QED
          BY <2>1, <2>4, <3>2 DEF FilingInv, Committed, RefusedHere
    <2> QED
        BY <2>2, <2>3, <2>4
  <1> QED
      BY <1>7, <1>8

(* Once its rows are in the table, a call has charged what it tried.       *)
LEMMA ChargedAtEnd ==
  ASSUME IInv, call.pc # "idle", NEW f \in Filings, NEW row \in Rows \cup {None},
         call.job[f] \notin {"asked", "staged"},
         IF call.job[f] \in {"done", "collected"} THEN Kept(f, row) ELSE row = call.prior[f]
  PROVE  Charged(row) <= tries[f] /\ (f \notin forgotten => Charged(row) = tries[f])
  <1>1. FilingInv(f)
      BY DEF IInv, CallInv
  <1>2. call.prior[f] \in Rows \cup {None} /\ tries[f] \in Nat
      BY CallFields DEF IInv, TypeInv
  <1>3. Charged(call.prior[f]) \in Nat
      BY <1>2, ChargedIs
  <1>4. Made(f, row) => Charged(row) = Charged(call.prior[f]) + 1
      BY RowFields DEF Made
  <1> QED
      BY <1>1, <1>2, <1>3, <1>4 DEF FilingInv, Kept

(* What Over leaves of a call: no jobs, no buffer, and its report.         *)
LEMMA OverIs ==
  ASSUME TypeInv, NEW report \in [Filings -> {"none", "row", "unfetched:teos_refused"}]
  PROVE  LET u == Over(report) IN
         /\ u \in Calls /\ u.pc = "idle" /\ u.report = report
         /\ \A f \in Filings :
              /\ u.job[f] = IF call.job[f] = "cancelled" THEN "cancelled" ELSE "out"
              /\ u.prior[f] = IF call.job[f] = "cancelled" THEN call.prior[f] ELSE None
  <1>1. PICK job \in [Filings -> Places] :
          job = [f \in Filings |-> IF call.job[f] = "cancelled" THEN "cancelled" ELSE "out"]
      BY DEF Places
  <1>2. PICK prior \in [Filings -> Rows \cup {None}] :
          prior = [f \in Filings |-> IF call.job[f] = "cancelled" THEN call.prior[f] ELSE None]
      BY CallFields
  <1>3. PICK idle \in Calls : idle = Idle
      BY IdleCall
  <1>4. idle.pc = "idle"
      BY <1>3, IdleCall
  <1>5. PICK u : u = [idle EXCEPT !.report = report, !.job = job, !.prior = prior]
      OBVIOUS
  <1>6. u \in Calls /\ u.pc = "idle" /\ u.report = report /\ u.job = job /\ u.prior = prior
      BY <1>4, <1>5 DEF Calls
  <1>7. Over(report) = u
      BY <1>1, <1>2, <1>3, <1>5 DEF Over
  <1> QED
      BY <1>1, <1>2, <1>6, <1>7

(* Every job collected: the call goes on to write its last rows.           *)
LEMMA Finishes ==
  ASSUME IInv, Finish
  PROVE  IInv'
  <1>1. /\ call.pc = "run" /\ \A f \in Todo : call.job[f] = "collected"
        /\ table' = Upserted(call.buffer) /\ call' = Over(call.report)
        /\ UNCHANGED <<object, cache, pages, rule, recut, reader, readings, tries, refetched, forgotten, used>>
      BY DEF Finish, AllCollected
  <1>2. \A f \in Filings : call.job[f] \in {"out", "collected"}
      BY <1>1 DEF Todo
  <1>3. /\ table' \in [Filings -> Rows \cup {None}]
        /\ \A f \in Filings : IF call.job[f] \in {"done", "collected"}
                              THEN Kept(f, table'[f]) ELSE table'[f] = call.prior[f]
        /\ \A f \in Filings :
             table'[f] = table[f] \/ (call.job[f] \in {"done", "collected"} /\ Made(f, table'[f]))
      BY <1>1, <1>2, Settles
  <1>4. PICK report \in [Filings -> {"none", "row", "unfetched:teos_refused"}] : report = call.report
      BY DEF IInv, TypeInv, Calls
  <1>5. /\ call' \in Calls /\ call'.pc = "idle" /\ call'.report = report
        /\ \A f \in Filings : call'.job[f] = "out"
      BY <1>1, <1>2, <1>4, OverIs DEF IInv
  <1>6. TypeInv'
      BY <1>1, <1>3, <1>5 DEF IInv, TypeInv
  <1>7. ReaderInv' /\ RecutInv'
      BY <1>1, Apart
  <1>8. ReadInv' /\ MismatchNeedsRefetch'
      BY <1>1, <1>3, TableMoves
  <1>9. IdleInv'
    <2>1. ASSUME NEW f \in Filings
          PROVE  /\ Charged(table'[f]) <= tries[f] /\ (f \notin forgotten => Charged(table'[f]) = tries[f])
                 /\ report[f] # "unfetched:teos_refused"
      <3>1. PICK row \in Rows \cup {None} : row = table'[f]
          BY <1>3
      <3>2. Charged(row) <= tries[f] /\ (f \notin forgotten => Charged(row) = tries[f])
          BY <1>1, <1>2, <1>3, <3>1, ChargedAtEnd
      <3>3. report[f] = "row"
          BY <1>1, <1>2, <1>4 DEF IInv, CallInv, FilingInv
      <3> QED
          BY <3>1, <3>2, <3>3
    <2> QED
        BY <1>1, <1>5, <2>1 DEF IdleInv, UnfetchedMeansUntried, Charged
  <1> QED
      BY <1>5, <1>6, <1>7, <1>8, <1>9 DEF IInv

(* The finally of a stopped call: what is buffered or still running is     *)
(* written.                                                                *)
LEMMA Drains ==
  ASSUME IInv, Drain
  PROVE  IInv'
  <1>1. /\ call.pc \in {"closing", "stopping"} /\ Jobs({"asked", "staged"}) = {}
        /\ table' = Upserted(Held)
        /\ UNCHANGED <<object, cache, pages, rule, recut, reader, readings, tries, refetched, forgotten, used>>
      BY DEF Drain, Drained
  <1>2. CallInv
      BY <1>1 DEF IInv
  <1>3. \A f \in Filings : call.job[f] \in {"out", "done", "collected", "cancelled"}
    <2>1. \A f \in Filings : call.job[f] \notin {"queued", "asked", "staged"}
        BY <1>1, <1>2 DEF Jobs, CallInv, PhaseInv
    <2>2. \A f \in Filings : call.job[f] \in Places
        BY CallFields DEF IInv
    <2> QED
        BY <2>1, <2>2 DEF Places
  <1>4. /\ table' \in [Filings -> Rows \cup {None}]
        /\ \A f \in Filings : IF call.job[f] \in {"done", "collected"}
                              THEN Kept(f, table'[f]) ELSE table'[f] = call.prior[f]
        /\ \A f \in Filings : RefusedHere(f) => Refused(table'[f])
        /\ \A f \in Filings :
             table'[f] = table[f] \/ (call.job[f] \in {"done", "collected"} /\ Made(f, table'[f]))
      BY <1>1, Settles
  <1>5. ReaderInv' /\ RecutInv'
      BY <1>1, Apart
  <1>6. ReadInv' /\ MismatchNeedsRefetch'
      BY <1>1, <1>4, TableMoves
  <1>7. CASE call.pc = "stopping"
    <2>1. call' = Idle
        BY <1>7 DEF Drain
    <2>2. TypeInv'
        BY <1>1, <1>4, <2>1, IdleCall DEF IInv, TypeInv
    <2>3. ASSUME NEW f \in Filings
          PROVE  Charged(table'[f]) <= tries[f] /\ (f \notin forgotten => Charged(table'[f]) = tries[f])
      <3>1. PICK row \in Rows \cup {None} : row = table'[f]
          BY <1>4
      <3>2. Charged(row) <= tries[f] /\ (f \notin forgotten => Charged(row) = tries[f])
          BY <1>1, <1>3, <1>4, <3>1, ChargedAtEnd
      <3> QED
          BY <3>1, <3>2
    <2>4. IdleInv'
        BY <1>1, <2>1, <2>3, IdleCall DEF IdleInv, UnfetchedMeansUntried, Charged
    <2> QED
        BY <1>5, <1>6, <2>1, <2>2, <2>4, IdleCall DEF IInv
  <1>8. CASE call.pc = "closing"
    <2>1. PICK c \in Calls : c = call
        BY DEF IInv, TypeInv
    <2>2. PICK result \in [Filings -> Rows \cup {None}] : result = [f \in Filings |-> None]
        OBVIOUS
    <2>3. PICK empty \in Seq(Entries) : empty = <<>>
        BY IdleCall DEF Calls
    <2>4. PICK u : u = [c EXCEPT !.pc = "closed", !.buffer = empty, !.result = result]
        OBVIOUS
    <2>5. /\ u \in Calls /\ u.pc = "closed" /\ u.prior = c.prior /\ u.job = c.job /\ u.image = c.image
          /\ u.buffer = <<>> /\ u.streak = c.streak /\ u.report = c.report
        BY <2>2, <2>3, <2>4 DEF Calls, Pcs
    <2>6. call' = u
        BY <1>8, <2>1, <2>2, <2>3, <2>4 DEF Drain
    <2>7. TypeInv'
        BY <1>1, <1>4, <2>5, <2>6 DEF IInv, TypeInv
    <2>8. \A f \in Filings : Buffered(f)' = {}
        BY <2>5, <2>6 DEF Buffered
    <2>9. ASSUME NEW f \in Filings
          PROVE  FilingInv(f)'
      <3>1. FilingInv(f)
          BY <1>2 DEF CallInv
      <3>2. /\ call'.pc = "closed" /\ call'.prior[f] = call.prior[f] /\ call'.job[f] = call.job[f]
            /\ call'.image[f] = call.image[f] /\ call'.report[f] = call.report[f]
          BY <2>1, <2>5, <2>6
      <3>3. Committed(f)' <=> call.job[f] \in {"done", "collected"}
          BY <2>8, <3>2 DEF Committed
      <3>4. PICK row : row = table'[f]
          OBVIOUS
      <3>5. call.job[f] \in {"done", "collected"} => Made(f, row)'
          BY <1>1, <1>4, <1>8, <3>2, <3>4 DEF Kept, Made, Charged, IsFetched
      <3>6. call.job[f] \in {"done", "collected"} => Made(f, table[f])'
          BY <3>4, <3>5 DEF Made
      <3> QED
          BY <1>1, <1>4, <1>8, <2>8, <3>1, <3>2, <3>3, <3>6 DEF FilingInv, Kept, Charged, IsFetched
    <2>10. PhaseInv' /\ BufferInv'
        BY <1>3, <2>1, <2>5, <2>6 DEF PhaseInv, BufferInv
    <2>11. StreakInv'
      <3>1. \A f \in Filings : RefusedHere(f) => RefusedHere(f)'
          BY <1>4, <2>1, <2>5, <2>6, <2>8 DEF RefusedHere, Refused
      <3>2. call'.streak = call.streak /\ call.streak >= RefusalsToStop
          BY <1>2, <1>8, <2>1, <2>5, <2>6 DEF CallInv, StreakInv
      <3> QED
          BY <1>2, <1>8, <3>1, <3>2 DEF CallInv, StreakInv
    <2> QED
        BY <1>5, <1>6, <2>5, <2>6, <2>7, <2>9, <2>10, <2>11 DEF IInv, CallInv
  <1> QED
      BY <1>1, <1>7, <1>8

(* After a refusal: the filings never asked for are those it names.        *)
LEMMA Reports ==
  ASSUME IInv, Report
  PROVE  IInv'
  <1>1. /\ call.pc = "closed"
        /\ UNCHANGED <<table, object, cache, pages, rule, recut, reader, readings, tries, refetched, forgotten, used>>
      BY DEF Report
  <1>2. CallInv /\ call.buffer = <<>> /\ \A f \in Filings : Buffered(f) = {}
      BY <1>1 DEF IInv, CallInv, PhaseInv, Buffered
  <1>3. PICK report : report = [f \in Filings |->
          IF call.report[f] # "none" THEN call.report[f]
          ELSE IF Tried(f) THEN "row" ELSE "unfetched:teos_refused"]
      OBVIOUS
  <1>4. report \in [Filings -> {"none", "row", "unfetched:teos_refused"}]
      BY <1>3, CallFields DEF IInv
  <1>5. /\ call' \in Calls /\ call'.pc = "idle" /\ call'.report = report
        /\ \A f \in Filings :
             /\ call'.job[f] = IF call.job[f] = "cancelled" THEN "cancelled" ELSE "out"
             /\ call'.prior[f] = IF call.job[f] = "cancelled" THEN call.prior[f] ELSE None
    <2>1. call' = Over(report)
        BY <1>3 DEF Report
    <2> QED
        BY <1>4, <2>1, OverIs DEF IInv
  <1>6. TypeInv'
      BY <1>1, <1>5 DEF IInv, TypeInv
  <1>7. ReaderInv' /\ RecutInv'
      BY <1>1, Apart
  <1>8. ReadInv' /\ MismatchNeedsRefetch'
      BY <1>1, TableMoves
  <1>9. ASSUME NEW f \in Filings
        PROVE  /\ call.job[f] \in {"out", "done", "collected", "cancelled"}
               /\ IF call.job[f] \in {"done", "collected"}
                  THEN Made(f, table[f]) ELSE table[f] = call.prior[f]
    <2>1. call.job[f] \in Places /\ call.job[f] \notin {"queued", "asked", "staged"}
        BY <1>1, <1>2, CallFields DEF IInv, CallInv, PhaseInv
    <2>2. FilingInv(f)
        BY <1>2 DEF CallInv
    <2> QED
        BY <1>1, <1>2, <2>1, <2>2 DEF FilingInv, Committed, Kept, Places
  <1>10. ASSUME NEW f \in Filings
         PROVE  Charged(table[f]) <= tries[f] /\ (f \notin forgotten => Charged(table[f]) = tries[f])
    <2>1. PICK row \in Rows \cup {None} : row = table[f]
        BY DEF IInv, TypeInv
    <2> QED
        BY <1>1, <1>9, <2>1, ChargedAtEnd DEF Kept
  <1>11. ASSUME NEW f \in Filings
         PROVE  Tried(f) <=> call.job[f] \in {"done", "collected"}
    <2>1. table[f] \in Rows \cup {None} /\ call.prior[f] \in Rows \cup {None}
        BY CallFields DEF IInv, TypeInv
    <2>2. CASE call.job[f] \in {"done", "collected"}
      <3>1. table[f] \in Rows /\ table[f].attempts = Charged(call.prior[f]) + 1
          BY <1>9, <2>2 DEF Made
      <3>2. call.prior[f] # None => table[f].attempts > call.prior[f].attempts
          BY <2>1, <3>1, RowFields DEF Charged
      <3> QED
          BY <2>2, <3>1, <3>2, RowFields DEF Tried
    <2>3. CASE call.job[f] \notin {"done", "collected"}
      <3>1. table[f] = call.prior[f]
          BY <1>9, <2>3
      <3>2. table[f] # None => ~(table[f].attempts > table[f].attempts)
          BY <2>1, RowFields
      <3> QED
          BY <2>3, <3>1, <3>2 DEF Tried
    <2> QED
        BY <2>2, <2>3
  <1>12. Cardinality({g \in Filings : table[g] # None /\ Refused(table[g])}) >= RefusalsToStop
    <2>1. PICK R \in SUBSET Filings : Cardinality(R) >= call.streak /\ \A f \in R : RefusedHere(f)
        BY <1>1, <1>2 DEF CallInv, StreakInv
    <2>2. PICK T \in SUBSET Filings : T = {g \in Filings : table[g] # None /\ Refused(table[g])}
        OBVIOUS
    <2>3. ASSUME NEW f \in R
          PROVE  f \in T
      <3>1. call.job[f] = "collected" /\ Refused(table[f])
          BY <1>2, <2>1 DEF RefusedHere
      <3>2. table[f] \in Rows
          BY <1>9, <2>1, <3>1 DEF Made
      <3> QED
          BY <2>1, <2>2, <3>1, <3>2, RowFields
    <2>4. IsFiniteSet(T) /\ R \in SUBSET T
        BY <2>2, <2>3, FS_Subset, SizesAssumption
    <2>5. Cardinality(R) <= Cardinality(T)
        BY <2>4, FS_Subset
    <2>6. Cardinality(R) \in Nat /\ Cardinality(T) \in Nat
        BY <2>4, FS_Subset, FS_CardinalityType
    <2>7. call.streak >= RefusalsToStop /\ call.streak \in Nat /\ RefusalsToStop \in Nat
        BY <1>1, <1>2, CallFields, SizesAssumption DEF IInv, CallInv, StreakInv
    <2>8. Cardinality(T) >= RefusalsToStop
        BY <2>1, <2>5, <2>6, <2>7
    <2> QED
        BY <2>2, <2>8
  <1>13. ASSUME NEW f \in Filings
         PROVE  /\ report[f] = "unfetched:teos_refused" =>
                     call'.job[f] = "cancelled" /\ table[f] = call'.prior[f]
                /\ report[f] = "row" => call'.job[f] # "cancelled"
    <2>1. call.report[f] = IF call.job[f] \in {"out", "collected"} THEN "row" ELSE "none"
        BY <1>1, <1>2 DEF CallInv, FilingInv
    <2>2. report[f] = IF call.report[f] # "none" THEN call.report[f]
                      ELSE IF Tried(f) THEN "row" ELSE "unfetched:teos_refused"
        BY <1>3
    <2> QED
        BY <1>5, <1>9, <1>11, <2>1, <2>2
  <1>14. IdleInv'
    <2>1. UnfetchedMeansUntried'
        BY <1>1, <1>5, <1>12, <1>13 DEF UnfetchedMeansUntried, Refused
    <2>2. \A f \in Filings : call'.job[f] \in {"out", "cancelled"}
        BY <1>5
    <2> QED
        BY <1>1, <1>10, <2>1, <2>2 DEF IdleInv, Charged
  <1> QED
      BY <1>5, <1>6, <1>7, <1>8, <1>14 DEF IInv

(* At no time has a filing been charged more than was tried of it.        *)
LEMMA ChargedInCall ==
  ASSUME IInv, call.pc # "idle", NEW f \in Filings
  PROVE  Charged(table[f]) <= tries[f]
  <1>1. FilingInv(f)
      BY DEF IInv, CallInv
  <1>2. Charged(call.prior[f]) \in Nat /\ tries[f] \in Nat
      BY CallFields, ChargedIs DEF IInv, TypeInv
  <1>3. CASE Committed(f)
    <2>1. call.job[f] \in {"done", "collected"} /\ Kept(f, table[f])
        BY <1>1, <1>3 DEF FilingInv, Committed
    <2>2. Charged(table[f]) = Charged(call.prior[f]) + 1 \/ table[f] = call.prior[f]
        BY <2>1, RowFields DEF Kept, Made
    <2> QED
        BY <1>1, <1>2, <2>1, <2>2 DEF FilingInv
  <1>4. CASE ~Committed(f)
    <2>1. table[f] = call.prior[f]
        BY <1>1, <1>4 DEF FilingInv
    <2> QED
        BY <1>1, <1>2, <2>1 DEF FilingInv
  <1> QED
      BY <1>3, <1>4

(* A filing whose row no commit still waits for has been charged what was  *)
(* tried of it, unless a commit lost it.                                   *)
LEMMA ChargedUnlessLost ==
  ASSUME IInv, call.pc # "idle", NEW f \in Filings, f \notin forgotten, Buffered(f) = {},
         call.job[f] \notin {"asked", "staged"}, call.job[f] = "done" => call.pc = "closed"
  PROVE  Charged(table[f]) = tries[f]
  <1>1. FilingInv(f)
      BY DEF IInv, CallInv
  <1>2. Charged(call.prior[f]) \in Nat /\ tries[f] \in Nat
      BY CallFields, ChargedIs DEF IInv, TypeInv
  <1>3. CASE call.job[f] \in {"done", "collected"}
    <2>1. Made(f, table[f])
        BY <1>1, <1>3 DEF FilingInv, Committed, Kept
    <2>2. Charged(table[f]) = Charged(call.prior[f]) + 1
        BY <2>1, RowFields DEF Made
    <2> QED
        BY <1>1, <1>2, <1>3, <2>2 DEF FilingInv
  <1>4. CASE call.job[f] \notin {"done", "collected"}
    <2>1. table[f] = call.prior[f]
        BY <1>1, <1>4 DEF FilingInv, Committed
    <2> QED
        BY <1>1, <1>2, <1>4, <2>1 DEF FilingInv
  <1> QED
      BY <1>3, <1>4

(* A killed process takes its call, and leaves the rows and the objects.   *)
LEMMA Crashes ==
  ASSUME IInv, Crash
  PROVE  IInv'
  <1>1. /\ call.pc # "idle" /\ call' = Idle /\ CutShort
        /\ forgotten' = forgotten \union Lost(call.buffer, FALSE)
              \union IF call.pc = "closed" THEN {} ELSE Jobs({"asked", "staged", "done"})
        /\ UNCHANGED <<table, object, cache, pages, rule, recut, reader, readings, tries, refetched>>
      BY DEF Crash
  <1>2. used' \in Used
      BY <1>1, Counted DEF IInv
  <1>3. TypeInv'
    <2>1. \A i \in DOMAIN call.buffer : call.buffer[i].f \in Filings
        BY CallFields DEF IInv
    <2>2. forgotten' \subseteq Filings
        BY <1>1, <2>1 DEF IInv, TypeInv, Lost, Jobs
    <2> QED
        BY <1>1, <1>2, <2>2, IdleCall DEF IInv, TypeInv
  <1>4. ReaderInv' /\ RecutInv'
      BY <1>1, Apart
  <1>5. ReadInv' /\ MismatchNeedsRefetch'
      BY <1>1, TableMoves
  <1>6. \A f \in Filings : Charged(table[f]) <= tries[f]
      BY <1>1, ChargedInCall
  <1>7. ASSUME NEW f \in Filings, f \notin forgotten'
        PROVE  Charged(table[f]) = tries[f]
    <2>1. f \notin forgotten /\ Buffered(f) = {}
        BY <1>1, <1>7 DEF Lost, Buffered
    <2>2. call.pc # "closed" => call.job[f] \notin {"asked", "staged", "done"}
        BY <1>1, <1>7 DEF Jobs
    <2>3. call.pc = "closed" => call.job[f] \notin {"asked", "staged"}
        BY <1>1 DEF IInv, CallInv, PhaseInv
    <2> QED
        BY <1>1, <2>1, <2>2, <2>3, ChargedUnlessLost
  <1>8. IdleInv'
      BY <1>1, <1>6, <1>7, IdleCall DEF IdleInv, UnfetchedMeansUntried, Charged
  <1> QED
      BY <1>1, <1>3, <1>4, <1>5, <1>8, IdleCall DEF IInv

(* The last commit of a call raised: its rows are in the table all the     *)
(* same, or are forgotten.                                                 *)
LEMMA LastFails ==
  ASSUME IInv, LastCommitFails
  PROVE  IInv'
  <1>1. /\ AllCollected \/ Drained
        /\ call' = Idle /\ CutShort
        /\ UNCHANGED <<object, cache, pages, rule, recut, reader, readings, tries, refetched>>
      BY DEF LastCommitFails
  <1>2. PICK landed \in BOOLEAN :
          /\ table' = IF landed THEN Upserted(Held) ELSE table
          /\ forgotten' = forgotten \union Lost(Held, landed)
      BY DEF LastCommitFails
  <1>3. call.pc \in {"run", "closing", "stopping"} /\ call.pc # "idle"
      BY <1>1 DEF AllCollected, Drained
  <1>4. CallInv
      BY <1>3 DEF IInv
  <1>5. \A f \in Filings : call.job[f] \in {"out", "done", "collected", "cancelled"}
    <2>1. \A f \in Filings : call.job[f] \in Places
        BY CallFields DEF IInv
    <2>2. CASE AllCollected
        BY <2>2 DEF AllCollected, Todo
    <2>3. CASE Drained
        BY <1>4, <2>1, <2>3 DEF Drained, Jobs, CallInv, PhaseInv, Places
    <2> QED
        BY <1>1, <2>2, <2>3
  <1>6. PICK held : held = Held
      OBVIOUS
  <1>7. AreHeld(held)
      BY <1>3, <1>6, HeldIs
  <1>8. /\ \A i \in DOMAIN held : held[i].f \in Filings
        /\ \A f \in Filings : Buffered(f) # {} \/ call.job[f] = "done" => \E i \in DOMAIN held : held[i].f = f
    <2>1. \A i \in DOMAIN held : held[i].f \in Filings
        BY <1>7, EntryFields DEF AreHeld
    <2>2. ASSUME NEW f \in Filings, NEW i \in Buffered(f)
          PROVE  \E j \in DOMAIN held : held[j].f = f
        BY <1>7, <2>2 DEF AreHeld, Buffered
    <2> QED
        BY <1>7, <2>1, <2>2 DEF AreHeld
  <1>9. forgotten \subseteq forgotten' /\ forgotten' \subseteq Filings
      BY <1>2, <1>6, <1>8 DEF IInv, TypeInv, Lost
  <1>10. landed =>
          /\ table' \in [Filings -> Rows \cup {None}]
          /\ \A f \in Filings : IF call.job[f] \in {"done", "collected"}
                                THEN Kept(f, table'[f]) ELSE table'[f] = call.prior[f]
          /\ \A f \in Filings :
               table'[f] = table[f] \/ (call.job[f] \in {"done", "collected"} /\ Made(f, table'[f]))
      BY <1>2, <1>3, Settles
  <1>11. table' \in [Filings -> Rows \cup {None}]
      BY <1>2, <1>10 DEF IInv, TypeInv
  <1>12. TypeInv'
    <2>1. used' \in Used
        BY <1>1, Counted DEF IInv
    <2> QED
        BY <1>1, <1>9, <1>11, <2>1, IdleCall DEF IInv, TypeInv
  <1>13. ReaderInv' /\ RecutInv'
      BY <1>1, <1>3, Apart
  <1>14. ReadInv' /\ MismatchNeedsRefetch'
      BY <1>1, <1>2, <1>3, <1>10, TableMoves
  <1>15. ASSUME NEW f \in Filings
         PROVE  Charged(table'[f]) <= tries[f] /\ (f \notin forgotten' => Charged(table'[f]) = tries[f])
    <2>1. CASE landed
      <3>1. PICK row \in Rows \cup {None} : row = table'[f]
          BY <1>11
      <3>2. Charged(row) <= tries[f] /\ (f \notin forgotten => Charged(row) = tries[f])
          BY <1>3, <1>5, <1>10, <2>1, <3>1, ChargedAtEnd
      <3> QED
          BY <1>9, <3>1, <3>2
    <2>2. CASE ~landed
      <3>1. table' = table /\ Charged(table[f]) <= tries[f]
          BY <1>2, <1>3, <2>2, ChargedInCall
      <3>2. ASSUME f \notin forgotten'
            PROVE  Charged(table[f]) = tries[f]
        <4>1. f \notin forgotten /\ ~\E i \in DOMAIN held : held[i].f = f
            BY <1>2, <1>6, <2>2, <3>2 DEF Lost
        <4>2. Buffered(f) = {} /\ call.job[f] # "done"
            BY <1>8, <4>1
        <4> QED
            BY <1>3, <1>5, <4>1, <4>2, ChargedUnlessLost
      <3> QED
          BY <3>1, <3>2
    <2> QED
        BY <2>1, <2>2
  <1>16. IdleInv'
      BY <1>1, <1>15, IdleCall DEF IdleInv, UnfetchedMeansUntried, Charged
  <1> QED
      BY <1>1, <1>12, <1>13, <1>14, <1>16, IdleCall DEF IInv
---------------------------------------------------------------------------
(* A call begins on the table as it is.                                    *)
LEMMA Starts ==
  ASSUME IInv, NEW refetch \in BOOLEAN, StartFetch(refetch)
  PROVE  IInv'
  <1>1. /\ call.pc = "idle" /\ ~recut.on /\ reader = NoReader
        /\ UNCHANGED <<table, object, cache, pages, rule, recut, reader, readings, tries, forgotten>>
      BY DEF StartFetch, Alone
  <1>2. PICK todo \in SUBSET Filings : todo = {f \in Filings : refetch \/ Retryable(table[f])}
      OBVIOUS
  <1>3. /\ used' = [used EXCEPT !.calls = @ + 1]
        /\ refetched' = refetched \union {f \in todo : IsFetched(table[f])}
        /\ call' = [Idle EXCEPT
              !.pc = IF todo = {} THEN "idle" ELSE "run", !.prior = table,
              !.job = [f \in Filings |-> IF f \in todo THEN "queued" ELSE "out"],
              !.report = [f \in Filings |-> IF f \in todo THEN "none" ELSE "row"]]
      BY <1>2 DEF StartFetch
  <1>4. used' \in Used
    <2>1. PICK now \in Used : now = used
        BY DEF IInv, TypeInv
    <2>2. PICK n \in Nat : n = now.calls + 1
        BY DEF Used
    <2>3. used' = [now EXCEPT !.calls = n]
        BY <1>3, <2>1, <2>2
    <2> QED
        BY <2>1, <2>3 DEF Used
  <1>5. PICK pc : pc = IF todo = {} THEN "idle" ELSE "run"
      OBVIOUS
  <1>6. PICK job \in [Filings -> Places] : job = [f \in Filings |-> IF f \in todo THEN "queued" ELSE "out"]
      BY DEF Places
  <1>7. PICK report \in [Filings -> {"none", "row", "unfetched:teos_refused"}] :
          report = [f \in Filings |-> IF f \in todo THEN "none" ELSE "row"]
      OBVIOUS
  <1>8. PICK idle \in Calls : idle = Idle
      BY IdleCall
  <1>9. PICK u : u = [idle EXCEPT !.pc = pc, !.prior = table, !.job = job, !.report = report]
      OBVIOUS
  <1>10. /\ u \in Calls /\ u.pc = pc /\ u.prior = table /\ u.job = job /\ u.report = report
         /\ u.buffer = <<>> /\ u.streak = 0
    <2>1. table \in [Filings -> Rows \cup {None}] /\ pc \in Pcs
        BY <1>5 DEF IInv, TypeInv, Pcs
    <2>2. idle.buffer = <<>> /\ idle.streak = 0
        BY <1>8 DEF Idle
    <2> QED
        BY <1>9, <2>1, <2>2 DEF Calls
  <1>11. call' = u
      BY <1>3, <1>5, <1>6, <1>7, <1>8, <1>9
  <1>12. refetched' \subseteq Filings /\ refetched \subseteq refetched'
         /\ \A f \in todo : f \notin refetched' => ~IsFetched(table[f])
      BY <1>3 DEF IInv, TypeInv
  <1>13. TypeInv'
      BY <1>1, <1>4, <1>10, <1>11, <1>12 DEF IInv, TypeInv
  <1>14. ReaderInv' /\ RecutInv'
      BY <1>1 DEF ReaderInv, RecutInv
  <1>15. ReadInv' /\ MismatchNeedsRefetch'
      BY <1>1, <1>12 DEF IInv, ReadInv, MismatchNeedsRefetch, IsFetched
  <1>16. IdleInv
      BY <1>1 DEF IInv
  <1>17. CASE todo = {}
    <2>1. call'.pc = "idle" /\ \A f \in Filings : call'.job[f] = "out" /\ call'.report[f] = "row"
        BY <1>5, <1>6, <1>7, <1>10, <1>11, <1>17
    <2>2. IdleInv'
        BY <1>1, <1>4, <1>16, <2>1 DEF IdleInv, UnfetchedMeansUntried, Charged
    <2> QED
        BY <1>13, <1>14, <1>15, <2>1, <2>2 DEF IInv
  <1>18. CASE todo # {}
    <2>1. call'.pc = "run"
        BY <1>5, <1>10, <1>11, <1>18
    <2>2. \A f \in Filings : Buffered(f)' = {}
        BY <1>10, <1>11 DEF Buffered
    <2>3. ASSUME NEW f \in Filings
          PROVE  FilingInv(f)'
      <3>1. /\ call'.prior[f] = table[f] /\ call'.job[f] = IF f \in todo THEN "queued" ELSE "out"
            /\ call'.report[f] = IF f \in todo THEN "none" ELSE "row"
          BY <1>6, <1>7, <1>10, <1>11
      <3>2. ~Committed(f)'
          BY <3>1 DEF Committed
      <3>3. f \in todo /\ f \notin refetched' => ~IsFetched(table[f]) /\ readings[f] = None
          BY <1>12 DEF IInv, ReadInv
      <3>4. Charged(table[f]) \in Nat /\ tries[f] \in Nat
            /\ Charged(table[f]) <= tries[f] /\ (f \notin forgotten => Charged(table[f]) = tries[f])
          BY <1>16, ChargedIs DEF IInv, TypeInv, IdleInv
      <3> QED
          BY <1>1, <1>4, <2>2, <3>1, <3>2, <3>3, <3>4 DEF FilingInv, Charged, IsFetched
    <2>4. PhaseInv' /\ BufferInv'
        BY <1>6, <1>10, <1>11, <2>1 DEF PhaseInv, BufferInv
    <2>5. StreakInv'
      <3>1. Cardinality({}) >= 0
          BY FS_EmptySet
      <3>2. {} \in SUBSET Filings
          OBVIOUS
      <3>3. \E R \in SUBSET Filings : Cardinality(R) >= 0 /\ \A f \in R : RefusedHere(f)'
          BY <3>1, <3>2
      <3> QED
          BY <1>10, <1>11, <2>1, <3>3 DEF StreakInv
    <2> QED
        BY <1>13, <1>14, <1>15, <2>1, <2>3, <2>4, <2>5 DEF IInv, CallInv
  <1> QED
      BY <1>17, <1>18

---------------------------------------------------------------------------
(* The readers and the recuts: no call goes on beside them.                *)
LEMMA Reads ==
  ASSUME IInv, NEW f \in Filings, ReadRow(f)
  PROVE  IInv'
  <1>1. /\ call.pc = "idle" /\ ~recut.on /\ IsFetched(table[f])
        /\ used' = [used EXCEPT !.reads = @ + 1]
        /\ reader' = [f |-> f, sha |-> table[f].sha, cut |-> table[f].cut, path |-> FALSE]
        /\ UNCHANGED <<table, object, cache, pages, rule, call, recut, readings, tries, refetched, forgotten>>
      BY DEF ReadRow, Alone
  <1>2. used' \in Used
    <2>1. PICK now \in Used : now = used
        BY DEF IInv, TypeInv
    <2>2. PICK n \in Nat : n = now.reads + 1
        BY DEF Used
    <2>3. used' = [now EXCEPT !.reads = n]
        BY <1>1, <2>1, <2>2
    <2> QED
        BY <2>1, <2>3 DEF Used
  <1>3. table[f].sha \in Images /\ table[f].cut \in Rules \cup {0}
    <2>1. table[f] \in Rows
        BY <1>1 DEF IInv, TypeInv, IsFetched
    <2> QED
        BY <1>1, <2>1, RowFields DEF IsFetched
  <1>4. reader' \in Readers /\ reader'.f = f /\ reader'.sha = table[f].sha
        /\ reader'.cut = table[f].cut /\ reader'.path = FALSE
      BY <1>1, <1>3 DEF Readers
  <1>5. TypeInv'
      BY <1>1, <1>2, <1>4 DEF IInv, TypeInv
  <1>6. ReaderInv' /\ RecutInv'
      BY <1>1, <1>4 DEF IInv, ReaderInv, RecutInv, IsFetched
  <1>7. ReadInv' /\ MismatchNeedsRefetch'
      BY <1>1 DEF IInv, ReadInv, MismatchNeedsRefetch, IsFetched
  <1>8. IdleInv'
      BY <1>1, <1>2, IdleStays DEF IInv
  <1> QED
      BY <1>1, <1>5, <1>6, <1>7, <1>8 DEF IInv

(* get_filing_file hands out the cached file, or the bucket's object.      *)
LEMMA Serves ==
  ASSUME IInv, FromCache \/ FromObject
  PROVE  IInv'
  <1>1. /\ reader # NoReader /\ ~reader.path
        /\ UNCHANGED <<table, object, pages, rule, call, recut, readings, tries, refetched, forgotten, used>>
      BY DEF FromCache, FromObject
  <1>2. reader \in Readers /\ call.pc = "idle" /\ ~recut.on
      BY <1>1 DEF IInv, TypeInv, ReaderInv
  <1>3. PICK r \in Readers : r = reader
      BY <1>2
  <1>4. r.f \in Filings /\ r.sha \in Images
      BY <1>3 DEF Readers
  <1>5. /\ cache' \in [Filings -> Images \cup {None}]
        /\ \/ reader' = NoReader
           \/ reader' = [r EXCEPT !.path = TRUE] /\ cache'[r.f] = r.sha
    <2>1. CASE FromCache
        BY <1>3, <1>4, <2>1 DEF FromCache, CachedServes, IInv, TypeInv
    <2>2. CASE FromObject
        BY <1>3, <1>4, <2>2 DEF FromObject, IInv, TypeInv
    <2> QED
        BY <2>1, <2>2
  <1>6. PICK next : next = [r EXCEPT !.path = TRUE]
      OBVIOUS
  <1>7. next \in Readers /\ next.f = r.f /\ next.sha = r.sha /\ next.cut = r.cut
      BY <1>6 DEF Readers
  <1>8. reader' = NoReader \/ (reader' = next /\ cache'[r.f] = r.sha)
      BY <1>5, <1>6
  <1>9. TypeInv'
      BY <1>1, <1>5, <1>7, <1>8 DEF IInv, TypeInv
  <1>10. ReaderInv'
      BY <1>1, <1>2, <1>3, <1>7, <1>8 DEF IInv, ReaderInv, IsFetched
  <1>11. RecutInv' /\ ReadInv' /\ MismatchNeedsRefetch'
      BY <1>1, <1>2 DEF IInv, RecutInv, ReadInv, MismatchNeedsRefetch, IsFetched
  <1>12. IdleInv'
      BY <1>1, <1>2, IdleStays DEF IInv
  <1> QED
      BY <1>1, <1>2, <1>9, <1>10, <1>11, <1>12 DEF IInv

(* The reader uses the file it was handed.                                 *)
LEMMA Uses ==
  ASSUME IInv, UseFile
  PROVE  IInv'
  <1>1. /\ reader.path /\ reader' = NoReader
        /\ UNCHANGED <<table, object, cache, rule, call, recut, tries, refetched, forgotten, used>>
      BY DEF UseFile
  <1>2. reader # NoReader
      BY <1>1, NoReaders
  <1>3. reader \in Readers /\ call.pc = "idle" /\ ~recut.on
        /\ IsFetched(table[reader.f]) /\ reader.cut = table[reader.f].cut
      BY <1>2 DEF IInv, TypeInv, ReaderInv
  <1>4. PICK f \in Filings : f = reader.f
      BY <1>3 DEF Readers
  <1>5. pages' = [pages EXCEPT ![f] = IF @ = None THEN cache[f] ELSE @]
        /\ readings' = [readings EXCEPT ![f] =
              [sha |-> reader.sha, bytes |-> pages'[f], cut |-> reader.cut]]
      BY <1>4 DEF UseFile
  <1>6. pages' \in [Filings -> Images \cup {None}]
      BY <1>5 DEF IInv, TypeInv
  <1>7. PICK reading \in Readings : reading = [sha |-> reader.sha, bytes |-> pages'[f], cut |-> reader.cut]
      BY <1>3, <1>6 DEF Readings, Readers
  <1>8. readings' = [readings EXCEPT ![f] = reading]
      BY <1>5, <1>7
  <1>9. readings' \in [Filings -> {None} \cup Readings] /\ readings'[f] = reading
        /\ \A g \in Filings \ {f} : readings'[g] = readings[g]
      BY <1>8 DEF IInv, TypeInv
  <1>10. TypeInv'
      BY <1>1, <1>6, <1>9 DEF IInv, TypeInv
  <1>11. ReaderInv' /\ RecutInv' /\ MismatchNeedsRefetch'
      BY <1>1, <1>3 DEF IInv, ReaderInv, RecutInv, MismatchNeedsRefetch, IsFetched
  <1>12. ReadInv'
    <2>1. reading.cut = table[f].cut /\ IsFetched(table[f])
        BY <1>3, <1>4, <1>7
    <2> QED
        BY <1>1, <1>9, <2>1 DEF IInv, ReadInv, IsFetched
  <1>13. IdleInv'
      BY <1>1, <1>3, IdleStays DEF IInv
  <1> QED
      BY <1>1, <1>3, <1>10, <1>11, <1>12, <1>13 DEF IInv

(* A new page rule is deployed, and recuts nothing by itself.              *)
LEMMA Deploys ==
  ASSUME IInv, Deploy
  PROVE  IInv'
  <1>1. /\ call.pc = "idle" /\ ~recut.on /\ reader = NoReader /\ rule' = 2
        /\ UNCHANGED <<table, object, cache, call, recut, reader, readings, tries, refetched, forgotten, used, pages>>
      BY DEF Deploy, Alone
  <1>2. TypeInv'
      BY <1>1 DEF IInv, TypeInv, Rules
  <1>3. ReaderInv' /\ RecutInv' /\ ReadInv' /\ MismatchNeedsRefetch'
      BY <1>1 DEF IInv, ReaderInv, RecutInv, ReadInv, MismatchNeedsRefetch, IsFetched
  <1>4. IdleInv'
      BY <1>1, IdleStays DEF IInv
  <1> QED
      BY <1>1, <1>2, <1>3, <1>4 DEF IInv

(* recut reads the fetched rows and their objects.                         *)
LEMMA RecutReads ==
  ASSUME IInv, RecutRead
  PROVE  IInv'
  <1>1. PICK changed \in SUBSET Filings : changed = {f \in Filings : CutDiffers(f)}
      OBVIOUS
  <1>2. /\ call.pc = "idle" /\ reader = NoReader
        /\ recut' = [on |-> TRUE, rows |-> [f \in changed |-> [table[f] EXCEPT !.cut = rule]]]
        /\ UNCHANGED <<table, object, cache, pages, rule, call, reader, readings, tries, refetched, forgotten, used>>
      BY <1>1 DEF RecutRead, Alone
  <1>3. PICK rows : rows = [f \in changed |-> [table[f] EXCEPT !.cut = rule]]
      OBVIOUS
  <1>4. recut'.rows = rows /\ DOMAIN rows = changed
        /\ \A f \in changed : rows[f] = [table[f] EXCEPT !.cut = rule]
      BY <1>2, <1>3
  <1>5. \A f \in changed : IsFetched(table[f]) /\ readings[f] = None
      BY <1>1 DEF CutDiffers
  <1>6. RecutInv'
      BY <1>2, <1>4, <1>5 DEF RecutInv, IsFetched
  <1>7. TypeInv' /\ ReaderInv' /\ ReadInv' /\ MismatchNeedsRefetch'
      BY <1>2 DEF IInv, TypeInv, ReaderInv, ReadInv, MismatchNeedsRefetch, IsFetched
  <1>8. IdleInv'
      BY <1>2, IdleStays DEF IInv
  <1> QED
      BY <1>2, <1>6, <1>7, <1>8 DEF IInv

(* recut writes the pages of what it read.                                 *)
LEMMA RecutWrites ==
  ASSUME IInv, RecutWrite
  PROVE  IInv'
  <1>1. /\ recut.on /\ call.pc = "idle" /\ recut'.on = FALSE
        /\ table' = [f \in Filings |-> IF f \in DOMAIN recut.rows THEN recut.rows[f] ELSE table[f]]
        /\ UNCHANGED <<object, cache, pages, rule, call, reader, readings, tries, refetched, forgotten, used>>
      BY DEF RecutWrite, IInv, RecutInv
  <1>2. reader = NoReader
      BY <1>1 DEF IInv, ReaderInv
  <1>3. ASSUME NEW f \in Filings
        PROVE  \/ table'[f] = table[f]
               \/ /\ table'[f] \in Rows /\ IsFetched(table[f]) /\ IsFetched(table'[f])
                  /\ readings[f] = None /\ table'[f].sha = table[f].sha
                  /\ table'[f].error = table[f].error /\ table'[f].attempts = table[f].attempts
    <2>1. ASSUME f \in DOMAIN recut.rows
          PROVE  /\ table'[f] \in Rows /\ IsFetched(table[f]) /\ IsFetched(table'[f])
                 /\ readings[f] = None /\ table'[f].sha = table[f].sha
                 /\ table'[f].error = table[f].error /\ table'[f].attempts = table[f].attempts
      <3>1. /\ IsFetched(table[f]) /\ readings[f] = None
            /\ recut.rows[f] = [table[f] EXCEPT !.cut = rule]
          BY <1>1, <2>1 DEF IInv, RecutInv
      <3>2. PICK row \in Rows : row = table[f]
          BY <3>1 DEF IInv, TypeInv, IsFetched
      <3>3. rule \in Rules
          BY DEF IInv, TypeInv
      <3>4. PICK again : again = [row EXCEPT !.cut = rule]
          OBVIOUS
      <3>5. /\ again \in Rows /\ again.status = row.status
            /\ again.attempts = row.attempts /\ again.error = row.error /\ again.sha = row.sha
          BY <3>3, <3>4, CutRow
      <3>6. table'[f] = again
          BY <1>1, <2>1, <3>1, <3>2, <3>4
      <3> QED
          BY <3>1, <3>2, <3>5, <3>6, RowFields DEF IsFetched
    <2>2. f \notin DOMAIN recut.rows => table'[f] = table[f]
        BY <1>1
    <2> QED
        BY <2>1, <2>2
  <1>4. table' \in [Filings -> Rows \cup {None}]
    <2>1. \A f \in Filings : table'[f] \in Rows \cup {None}
        BY <1>3 DEF IInv, TypeInv
    <2> QED
        BY <1>1, <2>1
  <1>5. TypeInv'
      BY <1>1, <1>4 DEF IInv, TypeInv
  <1>6. ReaderInv' /\ RecutInv'
      BY <1>1, <1>2 DEF ReaderInv, RecutInv
  <1>7. ReadInv' /\ MismatchNeedsRefetch'
      BY <1>1, <1>3 DEF IInv, ReadInv, MismatchNeedsRefetch, IsFetched
  <1>8. IdleInv'
    <2>1. IdleInv
        BY <1>1 DEF IInv
    <2>2. \A f \in Filings : Charged(table'[f]) = Charged(table[f])
        BY <1>3 DEF Charged, IsFetched
    <2>3. {g \in Filings : table'[g] # None /\ Refused(table'[g])}
          = {g \in Filings : table[g] # None /\ Refused(table[g])}
        BY <1>3 DEF Refused, IsFetched
    <2>4. UnfetchedMeansUntried'
      <3>1. ASSUME NEW f \in Filings, table[f] = call.prior[f] \/ (IsFetched(table[f]) /\ IsFetched(call.prior[f]))
            PROVE  table'[f] = call.prior[f] \/ (IsFetched(table'[f]) /\ IsFetched(call.prior[f]))
          BY <1>3, <3>1
      <3> QED
          BY <1>1, <2>1, <2>3, <3>1 DEF IdleInv, UnfetchedMeansUntried, Refused, IsFetched
    <2> QED
        BY <1>1, <2>1, <2>2, <2>4 DEF IdleInv, Charged
  <1> QED
      BY <1>1, <1>5, <1>6, <1>7, <1>8 DEF IInv

---------------------------------------------------------------------------
(* The inductive invariant holds of an empty table.                        *)
LEMMA InitEstablishes ==
  ASSUME Init
  PROVE  IInv
  <1>1. TypeInv
    <2>1. used \in Used /\ reader = NoReader /\ rule \in Rules
        BY DEF Init, Used, Rules
    <2> QED
        BY <2>1, IdleCall DEF Init, TypeInv
  <1>2. call.pc = "idle" /\ reader = NoReader /\ ~recut.on
      BY IdleCall DEF Init
  <1>3. ReaderInv /\ RecutInv /\ ReadInv /\ MismatchNeedsRefetch
      BY <1>2 DEF Init, ReaderInv, RecutInv, ReadInv, MismatchNeedsRefetch, IsFetched
  <1>4. IdleInv
      BY IdleCall DEF Init, IdleInv, UnfetchedMeansUntried, Charged
  <1> QED
      BY <1>1, <1>2, <1>3, <1>4 DEF IInv

(* Every step keeps the inductive invariant.                               *)
LEMMA StepPreserves ==
  ASSUME IInv, [Next]_vars
  PROVE  IInv'
  <1>1. CASE UNCHANGED vars
    <2>1. UNCHANGED <<table, object, cache, pages, rule, call, recut, reader, readings, tries, refetched, forgotten, used>>
        BY <1>1 DEF vars
    <2>2. TypeInv' /\ ReaderInv' /\ RecutInv' /\ ReadInv' /\ MismatchNeedsRefetch'
        BY <2>1 DEF IInv, TypeInv, ReaderInv, RecutInv, ReadInv, MismatchNeedsRefetch, IsFetched
    <2>3. call.pc = "idle" => IdleInv'
        BY <2>1, IdleStays DEF IInv
    <2>4. call.pc # "idle" => CallInv'
      <3>1. ASSUME call.pc # "idle"
            PROVE  CallInv'
        <4>1. CallInv
            BY <3>1 DEF IInv
        <4>2. \A f \in Filings : FilingInv(f)'
            BY <2>1, <4>1, FilingStays DEF CallInv
        <4>3. PhaseInv' /\ BufferInv'
            BY <2>1, <4>1 DEF CallInv, PhaseInv, BufferInv
        <4>4. \A f \in Filings : RefusedHere(f) => RefusedHere(f)'
            BY <2>1 DEF RefusedHere, Buffered, Refused
        <4>5. StreakInv'
            BY <2>1, <4>1, <4>4 DEF CallInv, StreakInv
        <4> QED
            BY <4>2, <4>3, <4>5 DEF CallInv
      <3> QED
          BY <3>1
    <2> QED
        BY <2>1, <2>2, <2>3, <2>4 DEF IInv
  <1>2. ASSUME NEW f \in Filings, Ask(f)
        PROVE  IInv'
    <2>1. call.pc # "idle"
        BY <1>2, Busy DEF Ask
    <2> QED
        BY <1>2, <2>1, Asks
  <1> QED
      BY <1>1, <1>2, Starts, AnswerFailing, AnswersImage, Uploads, Collects, Reads, Finishes, Interrupts,
         FailedCollects, LastFails, Drains, Reports, Crashes, Serves, Uses, Deploys, RecutReads, RecutWrites DEF Next

(* The inductive invariant holds throughout.                               *)
LEMMA Invariance == Spec => []IInv
  BY InitEstablishes, StepPreserves, PTL DEF Spec

(* The rows, the objects, the cache and the calls are of their types, and  *)
(* a row has the image it describes exactly when it is fetched.            *)
THEOREM ImagesWellTyped == Spec => []TypeOK
  <1>1. ASSUME IInv
        PROVE  TypeOK
    <2>1. call.pc \in Pcs
        BY <1>1, CallFields DEF IInv
    <2>2. ASSUME NEW f \in Filings, table[f] # None
          PROVE  table[f] \in Row /\ (table[f].sha # None) = (table[f].status = "fetched")
      <3>1. PICK row \in Rows : row = table[f]
          BY <1>1, <2>2 DEF IInv, TypeInv
      <3> QED
          BY <3>1 DEF Rows
    <2> QED
        BY <1>1, <2>1, <2>2 DEF IInv, TypeInv, TypeOK, Pcs
  <1> QED
      BY <1>1, Invariance, PTL

(* A reader is handed the bytes its row describes, and the bucket holds    *)
(* what the rows describe but for filings refetched, whatever calls and    *)
(* uploads were killed, interrupted or refused in between.                 *)
THEOREM BytesAreTheRows == Spec => []BytesAreRows
  <1>1. ASSUME IInv
        PROVE  BytesAreRows
    <2>1. reader.path => reader # NoReader
        BY NoReaders
    <2> QED
        BY <1>1, <2>1 DEF IInv, ReaderInv, BytesAreRows, UsedBytesAreRows
  <1> QED
      BY <1>1, Invariance, PTL

(* What is charged and reported of a filing is what was tried of it,       *)
(* however the pool's answers fall and wherever a call is cut short.       *)
THEOREM ToldAsTried == Spec => []TriesAreTold
  <1>1. ASSUME IInv
        PROVE  TriesAreTold
    <2>1. UnfetchedMeansUntried
        BY <1>1 DEF IInv, IdleInv, UnfetchedMeansUntried
    <2>2. ASSUME NEW f \in Filings
          PROVE  /\ Charged(table[f]) <= tries[f]
                 /\ call.pc = "idle" /\ f \notin forgotten => Charged(table[f]) = tries[f]
      <3>1. CASE call.pc = "idle"
          BY <1>1, <3>1 DEF IInv, IdleInv
      <3>2. CASE call.pc # "idle"
          BY <1>1, <3>2, ChargedInCall
      <3> QED
          BY <3>1, <3>2
    <2> QED
        BY <2>1, <2>2 DEF TriesAreTold, AttemptsAreTries, Charged
  <1> QED
      BY <1>1, Invariance, PTL

(* The pages a reading was made of are the ones its row marks, whatever    *)
(* rules were deployed, unless the filing was refetched.                   *)
THEOREM PagesReadAreCut == Spec => []ReadPagesAreCut
  <1>1. IInv => ReadPagesAreCut
      BY DEF IInv, ReadInv, ReadPagesAreCut
  <1> QED
      BY <1>1, Invariance, PTL
=============================================================================
