---------------------------- MODULE WatchdogProofs ----------------------------
(***************************************************************************)
(* Proofs about Watchdog, for any backends, limits and interrupts: the     *)
(* exit code tells what the watch left behind.                             *)
(***************************************************************************)
EXTENDS Watchdog, TLAPS

Loop == {"poll", "list", "wait", "sleep"}

(* A watch has its exit code when it is over; a command has ended with     *)
(* one, 0 or 1.                                                            *)
CodeInv ==
  /\ watch.pc # "done" => watch.code = None
  /\ child.state = "ended" => child.code \in {0, 1}

(* In its loop the watch has touched nothing yet.                          *)
LoopInv ==
  watch.pc \in Loop =>
    /\ \A p \in Pids : backend[p].asked = "nothing"
    /\ child.signal = 0 /\ ~watch.interrupted

(* A stop that goes on to the backends is a breach's, and past the signals *)
(* the command is over.                                                    *)
StopInv ==
  /\ watch.pc \in {"cancel", "grace", "terminate"} => ~watch.interrupted
  /\ watch.pc \in {"grace", "terminate"} => child.state # "running"

(* The statements that were listed at the breach and still run are those   *)
(* of targets: a backend counts its statements, so one begun since is told *)
(* from them.                                                              *)
TargetInv ==
  \A p \in Pids :
    /\ backend[p].begun >= watch.begun[p]
    /\ backend[p].active => backend[p].begun >= 1
    /\ backend[p].active /\ backend[p].begun = watch.begun[p] => p \in watch.targets

IInv == TypeOK /\ CodeInv /\ LoopInv /\ StopInv /\ TargetInv /\ ExitCodeTellsTheEnd

-----------------------------------------------------------------------------
(* What the watch and the rest of the state become, a step at a time.      *)
Watches ==
  [pc : {"poll", "list", "wait", "sleep", "cancel", "signal", "await", "grace", "terminate", "done"},
   code : Codes, report_only : BOOLEAN, swap_base : Levels,
   reasons : SUBSET {"free", "swap", "mem"}, targets : SUBSET Pids,
   begun : [Pids -> 0 .. MaxStatements], failed : BOOLEAN,
   seen : BOOLEAN, absent : 0 .. AbsentPolls, rung : 0 .. Rungs, interrupted : BOOLEAN]
Children == [state : {"none", "running", "ended"}, code : Codes, signal : 0 .. Rungs]
Backends == [begun : 0 .. MaxStatements, active : BOOLEAN,
             asked : {"nothing", "cancel", "terminate"}, gone : BOOLEAN]

(* The type invariant, variable by variable.                               *)
LEMMA Typed ==
  TypeOK <=> /\ watch \in Watches /\ child \in Children /\ backend \in [Pids -> Backends]
             /\ interrupts \in 0 .. MaxInterrupts
  BY DEF TypeOK, Watches, Children, Backends

(* The exit codes and the bounds.                                          *)
LEMMA Constants ==
  /\ None \notin {0, 1, 2, 130} /\ Rungs = 3
  /\ MaxStatements \in Nat /\ MaxStatements >= 1 /\ AbsentPolls \in Nat /\ AbsentPolls >= 1
  /\ MaxInterrupts \in Nat
  BY WatchdogAssumption DEF Rungs

(* The counters' ranges hold the values the watch sets.                    *)
LEMMA Values ==
  /\ 1 \in 0 .. Rungs /\ \A r \in 0 .. Rungs : r < Rungs => r + 1 \in 0 .. Rungs
  /\ 0 \in 0 .. AbsentPolls /\ TRUE \in BOOLEAN
  /\ \A n \in 0 .. MaxStatements : n < MaxStatements => n + 1 \in 0 .. MaxStatements
  /\ 0 \in Codes /\ 1 \in Codes /\ 2 \in Codes /\ 130 \in Codes
  BY Constants DEF Codes

(* The inductive invariant holds before the watch starts.                  *)
LEMMA InitEstablishes ==
  ASSUME Init
  PROVE  IInv
  <1>1. PICK o \in Options :
       /\ watch = [pc |-> "poll", code |-> None, report_only |-> o.report_only, swap_base |-> None,
                   reasons |-> {}, targets |-> {}, begun |-> [p \in Pids |-> 0], failed |-> FALSE,
                   seen |-> FALSE, absent |-> 0, rung |-> 0, interrupted |-> FALSE]
       /\ child = [state |-> IF o.command THEN "running" ELSE "none", code |-> None, signal |-> 0]
      BY DEF Init
  <1>2. /\ watch.pc = "poll" /\ watch.code = None /\ watch.targets = {} /\ ~watch.interrupted
        /\ watch.begun = [p \in Pids |-> 0] /\ child.state # "ended" /\ child.signal = 0
      BY <1>1
  <1>3. /\ backend = [p \in Pids |-> [begun |-> 0, active |-> FALSE, asked |-> "nothing", gone |-> FALSE]]
        /\ interrupts = 0
      BY DEF Init
  <1>4. watch \in Watches
    <2>1. o.report_only \in BOOLEAN
        BY DEF Options
    <2> QED
        BY <1>1, <2>1, Constants DEF Watches, Codes, Levels
  <1>5. child \in Children
      BY <1>1, Constants DEF Children, Codes
  <1>6. TypeOK
      BY <1>3, <1>4, <1>5, Typed, Constants DEF Backends
  <1>7. CodeInv /\ LoopInv /\ StopInv
      BY <1>2, <1>3 DEF CodeInv, LoopInv, StopInv, Loop
  <1>8. TargetInv
      BY <1>2, <1>3 DEF TargetInv
  <1>9. ExitCodeTellsTheEnd
      BY <1>2, Constants DEF ExitCodeTellsTheEnd, BreachLeavesNothing, ZeroMeansFinished
  <1> QED
      BY <1>6, <1>7, <1>8, <1>9 DEF IInv

-----------------------------------------------------------------------------
(* A step of the loop touches no backend and does not signal the command.  *)
LEMMA Polling ==
  ASSUME IInv, ReadMetrics \/ NotListed \/ NextPoll
  PROVE  IInv'
  <1>1. PICK now \in Watches : now = watch
      BY Typed DEF IInv
  <1>2. PICK pc \in Loop, reasons \in SUBSET {"free", "swap", "mem"}, base \in Levels :
          watch' = [now EXCEPT !.pc = pc, !.reasons = reasons, !.swap_base = base]
    <2>1. CASE ReadMetrics
      <3>1. PICK reading \in Reading :
              watch' = [now EXCEPT !.pc = "list",
                !.swap_base = IF now.swap_base = None THEN reading.swap ELSE now.swap_base,
                !.reasons = breaches(reading, IF now.swap_base = None THEN reading.swap ELSE now.swap_base)]
          BY <1>1, <2>1 DEF ReadMetrics
      <3>2. PICK base \in Levels : base = IF now.swap_base = None THEN reading.swap ELSE now.swap_base
          BY DEF Reading, Watches
      <3>3. breaches(reading, base) \in SUBSET {"free", "swap", "mem"}
          BY DEF breaches
      <3>4. watch' = [now EXCEPT !.pc = "list", !.reasons = breaches(reading, base), !.swap_base = base]
          BY <3>1, <3>2
      <3> QED
          BY <3>3, <3>4 DEF Loop
    <2>2. CASE NotListed \/ NextPoll
      <3>1. PICK pc \in Loop : watch' = [now EXCEPT !.pc = pc, !.reasons = {}]
          BY <1>1, <2>2 DEF NotListed, NextPoll, Goto, After, Loop
      <3>2. now.swap_base \in Levels
          BY DEF Watches
      <3>3. watch' = [now EXCEPT !.pc = pc, !.reasons = {}, !.swap_base = now.swap_base]
          BY <3>1 DEF Watches
      <3> QED
          BY <3>2, <3>3
    <2> QED
        BY <2>1, <2>2
  <1>3. watch' \in Watches
      BY <1>2 DEF Watches, Loop
  <1>4. /\ watch'.pc \in Loop /\ watch'.code = watch.code /\ watch'.targets = watch.targets
        /\ watch'.begun = watch.begun /\ watch'.interrupted = watch.interrupted
      BY <1>1, <1>2 DEF Watches
  <1>5. watch.pc \in Loop
      BY DEF ReadMetrics, NotListed, NextPoll, Loop
  <1>6. UNCHANGED <<child, backend, interrupts>>
      BY DEF ReadMetrics, NotListed, NextPoll
  <1>7. TypeOK'
      BY <1>3, <1>6, Typed DEF IInv, TypeOK, Watches
  <1>8. (CodeInv /\ LoopInv /\ StopInv)'
      BY <1>4, <1>5, <1>6 DEF IInv, CodeInv, LoopInv, StopInv, Loop
  <1>9. TargetInv'
      BY <1>4, <1>6 DEF IInv, TargetInv
  <1>10. ExitCodeTellsTheEnd'
      BY <1>4, <1>5, <1>6, Constants DEF IInv, CodeInv, Loop, ExitCodeTellsTheEnd,
         BreachLeavesNothing, ZeroMeansFinished
  <1> QED
      BY <1>7, <1>8, <1>9, <1>10 DEF IInv

(* A step that ends the watch leaves the rest as it is, so only the exit   *)
(* code is to be looked at.                                                *)
LEMMA Ending ==
  ASSUME IInv, watch' \in Watches, watch'.pc = "done",
         watch'.begun = watch.begun, watch'.targets = watch.targets,
         UNCHANGED <<child, backend, interrupts>>, ExitCodeTellsTheEnd'
  PROVE  IInv'
  <1>1. TypeOK'
      BY Typed DEF IInv, TypeOK, Watches
  <1>2. (CodeInv /\ LoopInv /\ StopInv)'
      BY DEF IInv, CodeInv, LoopInv, StopInv, Loop
  <1>3. TargetInv'
      BY DEF IInv, TargetInv
  <1> QED
      BY <1>1, <1>2, <1>3 DEF IInv

(* The fields a step that ends the watch sets.                             *)
LEMMA EndFields ==
  ASSUME TypeOK, NEW code \in Codes, End(code)
  PROVE  /\ watch' \in Watches /\ watch'.pc = "done" /\ watch'.code = code
         /\ watch'.begun = watch.begun /\ watch'.targets = watch.targets
         /\ watch'.failed = watch.failed
  <1>1. PICK now \in Watches : now = watch
      BY Typed
  <1>2. watch' = [now EXCEPT !.pc = "done", !.code = code, !.reasons = {}]
      BY <1>1 DEF End
  <1>3. watch' \in Watches
      BY <1>2 DEF Watches
  <1> QED
      BY <1>1, <1>2, <1>3 DEF Watches

(* The command has ended, or the time given to a watch alone is over.      *)
LEMMA LoopEnds ==
  ASSUME IInv, CommandEnded \/ TimeLimit
  PROVE  IInv'
  <1>1. PICK code \in {0, 1} : End(code) /\ (code = 0 => child.state = "ended" /\ child.code = 0)
      BY DEF IInv, CodeInv, CommandEnded, TimeLimit
  <1>2. /\ watch' \in Watches /\ watch'.pc = "done" /\ watch'.code = code
        /\ watch'.begun = watch.begun /\ watch'.targets = watch.targets
      BY <1>1, EndFields DEF IInv, Codes
  <1>3. UNCHANGED <<child, backend, interrupts>> /\ watch.pc \in Loop
      BY DEF CommandEnded, TimeLimit, Loop
  <1>4. ExitCodeTellsTheEnd'
      BY <1>1, <1>2, <1>3 DEF IInv, LoopInv, ExitCodeTellsTheEnd, BreachLeavesNothing, ZeroMeansFinished
  <1> QED
      BY <1>2, <1>3, <1>4, Ending

(* A breach with some of ours active begins the stop with every active     *)
(* backend a target; otherwise the loop goes on, or a watch alone ends.    *)
LEMMA Listing ==
  ASSUME IInv, ListBackends
  PROVE  IInv'
  <1>1. PICK now \in Watches : now = watch
      BY Typed DEF IInv
  <1>2. UNCHANGED <<child, backend, interrupts>> /\ watch.pc = "list"
      BY DEF ListBackends
  <1>3. CASE watch.reasons # {} /\ Active # {} /\ ~watch.report_only
    <2>1. Active \in SUBSET Pids /\ \A p \in Pids : p \in Active <=> backend[p].active
        BY DEF Active
    <2>2. PICK begun : begun = [p \in Pids |-> IF p \in Active THEN backend[p].begun ELSE 0]
        OBVIOUS
    <2>3. begun \in [Pids -> 0 .. MaxStatements]
      <3>1. \A p \in Pids : backend[p].begun \in 0 .. MaxStatements
          BY Typed DEF IInv, Backends
      <3> QED
          BY <2>2, <3>1, Constants
    <2>4. watch' = [now EXCEPT !.pc = "cancel", !.targets = Active, !.reasons = {}, !.begun = begun]
        BY <1>1, <1>3, <2>2 DEF ListBackends
    <2>5. watch' \in Watches
        BY <2>1, <2>3, <2>4 DEF Watches
    <2>6. /\ watch'.pc = "cancel" /\ watch'.targets = Active /\ watch'.begun = begun
          /\ watch'.code = watch.code /\ watch'.interrupted = watch.interrupted
        BY <1>1, <2>4 DEF Watches
    <2>7. TypeOK'
        BY <1>2, <2>5, Typed DEF IInv, TypeOK, Watches
    <2>8. (CodeInv /\ LoopInv /\ StopInv)'
        BY <1>2, <2>6 DEF IInv, CodeInv, LoopInv, StopInv, Loop
    <2>9. TargetInv'
      <3>1. \A p \in Pids : backend[p].begun \in 0 .. MaxStatements
          BY Typed DEF IInv, Backends
      <3>2. \A p \in Pids : begun[p] = IF backend[p].active THEN backend[p].begun ELSE 0
          BY <2>1, <2>2
      <3>3. \A p \in Pids : backend[p].active => backend[p].begun >= 1
          BY DEF IInv, TargetInv
      <3>4. \A p \in Pids : backend[p].begun >= begun[p]
          BY <3>1, <3>2, Constants
      <3> QED
          BY <1>2, <2>1, <2>6, <3>2, <3>3, <3>4 DEF TargetInv
    <2>10. ExitCodeTellsTheEnd'
        BY <1>2, <2>6, Constants DEF IInv, CodeInv, ExitCodeTellsTheEnd, BreachLeavesNothing, ZeroMeansFinished
    <2> QED
        BY <2>7, <2>8, <2>9, <2>10 DEF IInv
  <1>4. CASE ~(watch.reasons # {} /\ Active # {} /\ ~watch.report_only)
    <2>1. CASE End(0) /\ child.state = "none"
      <3>1. /\ watch' \in Watches /\ watch'.pc = "done" /\ watch'.code = 0
            /\ watch'.begun = watch.begun /\ watch'.targets = watch.targets
          BY <2>1, EndFields DEF IInv, Codes
      <3>2. ExitCodeTellsTheEnd'
          BY <1>2, <2>1, <3>1 DEF ExitCodeTellsTheEnd, BreachLeavesNothing, ZeroMeansFinished
      <3> QED
          BY <1>2, <3>1, <3>2, Ending
    <2>2. CASE ~(End(0) /\ child.state = "none")
      <3>1. PICK pc \in {"wait", "sleep"}, seen \in BOOLEAN, absent \in 0 .. AbsentPolls :
              watch' = [now EXCEPT !.pc = pc, !.seen = seen, !.absent = absent, !.reasons = {}]
        <4>1. After \in {"wait", "sleep"} /\ now.seen \in BOOLEAN /\ now.absent \in 0 .. AbsentPolls
            BY DEF After, Watches
        <4>2. CASE child.state # "none"
          <5>1. watch' = [now EXCEPT !.pc = After, !.reasons = {}]
              BY <1>1, <1>4, <4>2 DEF ListBackends, Goto
          <5>2. watch' = [now EXCEPT !.pc = After, !.seen = now.seen, !.absent = now.absent, !.reasons = {}]
              BY <5>1 DEF Watches
          <5> QED
              BY <4>1, <5>2
        <4>3. CASE child.state = "none" /\ Active # {}
          <5>1. watch' = [now EXCEPT !.pc = After, !.seen = TRUE, !.absent = 0, !.reasons = {}]
              BY <1>1, <1>4, <4>3 DEF ListBackends
          <5>2. PICK seen \in BOOLEAN : seen = TRUE
              OBVIOUS
          <5>3. PICK absent \in 0 .. AbsentPolls : absent = 0
              BY Values
          <5>4. watch' = [now EXCEPT !.pc = After, !.seen = seen, !.absent = absent, !.reasons = {}]
              BY <5>1, <5>2, <5>3
          <5> QED
              BY <4>1, <5>4
        <4>4. CASE child.state = "none" /\ Active = {}
          <5>1. ~(now.seen /\ now.absent + 1 >= AbsentPolls)
              BY <1>1, <1>4, <2>2, <4>4 DEF ListBackends
          <5>2. PICK absent \in 0 .. AbsentPolls : absent = IF now.seen THEN now.absent + 1 ELSE now.absent
              BY <4>1, <5>1, Constants
          <5>3. watch' = [now EXCEPT !.pc = After, !.absent = absent, !.reasons = {}]
              BY <1>1, <1>4, <4>4, <5>1, <5>2 DEF ListBackends
          <5>4. watch' = [now EXCEPT !.pc = After, !.seen = now.seen, !.absent = absent, !.reasons = {}]
              BY <5>3 DEF Watches
          <5> QED
              BY <4>1, <5>4
        <4> QED
            BY <4>2, <4>3, <4>4
      <3>2. watch' \in Watches
          BY <3>1 DEF Watches
      <3>3. /\ watch'.pc \in Loop /\ watch'.code = watch.code /\ watch'.targets = watch.targets
            /\ watch'.begun = watch.begun /\ watch'.interrupted = watch.interrupted
          BY <1>1, <3>1 DEF Watches, Loop
      <3>4. TypeOK'
          BY <1>2, <3>2, Typed DEF IInv, TypeOK, Watches
      <3>5. (CodeInv /\ LoopInv /\ StopInv)'
          BY <1>2, <3>3 DEF IInv, CodeInv, LoopInv, StopInv, Loop
      <3>6. TargetInv'
          BY <1>2, <3>3 DEF IInv, TargetInv
      <3>7. ExitCodeTellsTheEnd'
          BY <1>2, <3>3, Constants DEF IInv, CodeInv, ExitCodeTellsTheEnd, BreachLeavesNothing, ZeroMeansFinished
      <3> QED
          BY <3>4, <3>5, <3>6, <3>7 DEF IInv
    <2> QED
        BY <2>1, <2>2
  <1> QED
      BY <1>3, <1>4

-----------------------------------------------------------------------------
(* A step of the stop that only moves the watch, and not to its end.       *)
LEMMA Stopping ==
  ASSUME IInv, watch.pc # "done", watch' \in Watches, watch'.pc \notin Loop \cup {"done"},
         watch'.code = watch.code, watch'.begun = watch.begun,
         watch'.targets = watch.targets,
         watch'.pc \in {"cancel", "grace", "terminate"} => ~watch'.interrupted,
         watch'.pc \in {"grace", "terminate"} => child.state # "running",
         UNCHANGED <<child, backend, interrupts>>
  PROVE  IInv'
  <1>1. TypeOK'
      BY Typed DEF IInv, TypeOK, Watches
  <1>2. (CodeInv /\ LoopInv /\ StopInv)'
      BY DEF IInv, CodeInv, LoopInv, StopInv, Loop
  <1>3. TargetInv'
      BY DEF IInv, TargetInv
  <1>4. ExitCodeTellsTheEnd'
      BY Constants DEF IInv, CodeInv, ExitCodeTellsTheEnd, BreachLeavesNothing, ZeroMeansFinished
  <1> QED
      BY <1>1, <1>2, <1>3, <1>4 DEF IInv

(* After child.stop(): an interrupted watch ends with 130, a breach's goes *)
(* on to the backends.                                                     *)
LEMMA AfterTheCommand ==
  ASSUME IInv, watch.pc # "done", child.state # "running", Stopped,
         UNCHANGED <<child, backend, interrupts>>
  PROVE  IInv'
  <1>1. PICK now \in Watches : now = watch
      BY Typed DEF IInv
  <1>2. CASE watch.interrupted
    <2>1. watch' = [now EXCEPT !.pc = "done", !.code = 130]
        BY <1>1, <1>2 DEF Stopped
    <2>2. watch' \in Watches
        BY ZenonT(60), <2>1 DEF Watches, Codes
    <2>3. watch'.pc = "done" /\ watch'.code = 130 /\ watch'.begun = watch.begun
          /\ watch'.targets = watch.targets
        BY <1>1, <2>1 DEF Watches
    <2>4. ExitCodeTellsTheEnd'
        BY <2>3 DEF ExitCodeTellsTheEnd, BreachLeavesNothing, ZeroMeansFinished
    <2> QED
        BY <2>2, <2>3, <2>4, Ending
  <1>3. CASE ~watch.interrupted
    <2>1. watch' = [now EXCEPT !.pc = "grace"]
        BY <1>1, <1>3 DEF Stopped
    <2>2. watch' \in Watches
        BY <2>1 DEF Watches
    <2>3. /\ watch'.pc = "grace" /\ watch'.code = watch.code /\ watch'.begun = watch.begun
          /\ watch'.targets = watch.targets /\ watch'.interrupted = watch.interrupted
        BY <1>1, <2>1 DEF Watches
    <2> QED
        BY <1>3, <2>2, <2>3, Stopping DEF Loop
  <1> QED
      BY <1>2, <1>3

(* A backend is asked to cancel or to end.                                 *)
LEMMA Asking ==
  ASSUME IInv, watch.pc \in {"cancel", "terminate"}, NEW p \in Pids,
         NEW what \in {"cancel", "terminate"}, backend' = [backend EXCEPT ![p].asked = what],
         UNCHANGED <<watch, child, interrupts>>
  PROVE  IInv'
  <1>1. PICK row \in Backends : row = backend[p]
      BY Typed DEF IInv
  <1>2. [row EXCEPT !.asked = what] \in Backends
      BY DEF Backends
  <1>3. backend' = [backend EXCEPT ![p] = [row EXCEPT !.asked = what]]
      BY <1>1
  <1>4. backend' \in [Pids -> Backends]
      BY <1>2, <1>3, Typed DEF IInv
  <1>5. \A q \in Pids : backend'[q].begun = backend[q].begun /\ backend'[q].active = backend[q].active
      BY <1>1, <1>3, Typed DEF IInv, Backends
  <1>6. TypeOK'
      BY <1>4, Typed DEF IInv, TypeOK, Backends
  <1>7. (CodeInv /\ LoopInv /\ StopInv)'
      BY DEF IInv, CodeInv, LoopInv, StopInv, Loop
  <1>8. TargetInv'
      BY <1>5 DEF IInv, TargetInv
  <1>9. ExitCodeTellsTheEnd'
      BY Constants DEF IInv, CodeInv, ExitCodeTellsTheEnd, BreachLeavesNothing, ZeroMeansFinished
  <1> QED
      BY <1>6, <1>7, <1>8, <1>9 DEF IInv

-----------------------------------------------------------------------------
(* The steps of the stop.                                                  *)
LEMMA Cancels ==
  ASSUME IInv, Cancel \/ CancelFails
  PROVE  IInv'
  <1>1. PICK now \in Watches : now = watch
      BY Typed DEF IInv
  <1>2. watch.pc = "cancel" /\ ~watch.interrupted /\ UNCHANGED <<child, interrupts>>
      BY DEF IInv, StopInv, Cancel, CancelFails
  <1>3. child.state \in {"none", "running", "ended"}
      BY Typed DEF IInv, Children
  <1>4. CASE Cancel
    <2>1. CASE {p \in watch.targets : backend[p].asked = "nothing"} = {}
      <3>1. StopCommand /\ UNCHANGED backend
          BY <1>4, <2>1 DEF Cancel
      <3>2. CASE child.state = "none"
          BY <1>2, <3>1, <3>2, AfterTheCommand DEF StopCommand
      <3>3. CASE child.state # "none"
        <4>1. watch' = [now EXCEPT !.pc = "signal", !.rung = 1]
            BY <1>1, <3>1, <3>3 DEF StopCommand
        <4>2. watch' \in Watches
            BY <4>1, Values DEF Watches
        <4>3. /\ watch'.pc = "signal" /\ watch'.code = watch.code /\ watch'.begun = watch.begun
              /\ watch'.targets = watch.targets
            BY <1>1, <4>1 DEF Watches
        <4> QED
            BY <1>2, <3>1, <4>2, <4>3, Stopping DEF Loop
      <3> QED
          BY <3>2, <3>3
    <2>2. CASE {p \in watch.targets : backend[p].asked = "nothing"} # {}
      <3>1. PICK p \in watch.targets : backend' = [backend EXCEPT ![p].asked = "cancel"]
          BY <1>4, <2>2 DEF Cancel
      <3>2. p \in Pids /\ UNCHANGED watch
          BY <1>1, <1>4, <2>2 DEF Cancel, Watches
      <3> QED
          BY <1>2, <3>1, <3>2, Asking
    <2> QED
        BY <2>1, <2>2
  <1>5. CASE CancelFails
    <2>1. CASE child.state = "none"
      <3>1. watch' = [now EXCEPT !.pc = "grace", !.failed = TRUE]
          BY <1>1, <1>5, <2>1 DEF CancelFails
      <3>2. watch' \in Watches
          BY <3>1 DEF Watches
      <3>3. /\ watch'.pc = "grace" /\ watch'.code = watch.code /\ watch'.begun = watch.begun
            /\ watch'.targets = watch.targets /\ watch'.interrupted = watch.interrupted
          BY <1>1, <3>1 DEF Watches
      <3>4. UNCHANGED backend
          BY <1>5 DEF CancelFails
      <3> QED
          BY <1>2, <2>1, <3>2, <3>3, <3>4, Stopping DEF Loop
    <2>2. CASE child.state # "none"
      <3>1. watch' = [now EXCEPT !.pc = "signal", !.rung = 1, !.failed = TRUE]
          BY <1>1, <1>5, <2>2 DEF CancelFails
      <3>2. watch' \in Watches
          BY <3>1, Values DEF Watches
      <3>3. /\ watch'.pc = "signal" /\ watch'.code = watch.code /\ watch'.begun = watch.begun
            /\ watch'.targets = watch.targets
          BY <1>1, <3>1 DEF Watches
      <3>4. UNCHANGED backend
          BY <1>5 DEF CancelFails
      <3> QED
          BY <1>2, <3>2, <3>3, <3>4, Stopping DEF Loop
    <2> QED
        BY <2>1, <2>2
  <1> QED
      BY <1>4, <1>5

(* The watch's signals, its waits for them, and the command they stopped.  *)
LEMMA Signals ==
  ASSUME IInv, Signal \/ StillRunning \/ CommandStopped
  PROVE  IInv'
  <1>1. PICK now \in Watches : now = watch
      BY Typed DEF IInv
  <1>2. CASE Signal
    <2>1. PICK old \in Children : old = child
        BY Typed DEF IInv
    <2>2. watch' = [now EXCEPT !.pc = "await", !.reasons = {}] /\ UNCHANGED <<backend, interrupts>>
        BY <1>1, <1>2 DEF Signal, Goto
    <2>3. watch' \in Watches
        BY <2>2 DEF Watches
    <2>4. /\ watch'.pc = "await" /\ watch'.code = watch.code /\ watch'.begun = watch.begun
          /\ watch'.targets = watch.targets /\ watch.pc = "signal"
        BY <1>1, <1>2, <2>2 DEF Watches, Signal
    <2>5. child' = [old EXCEPT !.signal = now.rung]
        BY <1>1, <1>2, <2>1 DEF Signal
    <2>6. child' \in Children
        BY <2>5 DEF Watches, Children
    <2>7. child'.state = child.state /\ child'.code = child.code
        BY <2>1, <2>5 DEF Children
    <2>8. TypeOK'
        BY <2>2, <2>3, <2>6, Typed DEF IInv, TypeOK, Watches, Children
    <2>9. (CodeInv /\ LoopInv /\ StopInv)'
        BY <2>4, <2>7 DEF IInv, CodeInv, LoopInv, StopInv, Loop
    <2>10. TargetInv'
        BY <2>2, <2>4 DEF IInv, TargetInv
    <2>11. ExitCodeTellsTheEnd'
        BY <2>4, Constants DEF IInv, CodeInv, ExitCodeTellsTheEnd, BreachLeavesNothing, ZeroMeansFinished
    <2> QED
        BY <2>8, <2>9, <2>10, <2>11 DEF IInv
  <1>3. CASE StillRunning
    <2>1. watch' = [now EXCEPT !.pc = "signal", !.rung = now.rung + 1] /\ now.rung < Rungs
        BY <1>1, <1>3 DEF StillRunning
    <2>2. watch' \in Watches
      <3>1. now.rung + 1 \in 0 .. Rungs
          BY <2>1, Values DEF Watches
      <3> QED
          BY <2>1, <3>1 DEF Watches
    <2>3. /\ watch'.pc = "signal" /\ watch'.code = watch.code /\ watch'.begun = watch.begun
          /\ watch'.targets = watch.targets
        BY <1>1, <2>1 DEF Watches
    <2> QED
        BY <1>3, <2>2, <2>3, Stopping DEF Loop, StillRunning
  <1>4. CASE CommandStopped
      BY <1>4, AfterTheCommand DEF CommandStopped
  <1> QED
      BY <1>2, <1>3, <1>4

(* The statements listed at the breach that still run are those of the     *)
(* targets; a watch ends with 2 when none is left, each has been asked to  *)
(* end, or the instance does not answer.                                   *)
LEMMA Terminates ==
  ASSUME IInv, Relist \/ NotRelisted \/ Terminate \/ TerminateFails
  PROVE  IInv'
  <1>1. PICK now \in Watches : now = watch
      BY Typed DEF IInv
  <1>2. /\ watch.pc \in {"grace", "terminate"} /\ ~watch.interrupted /\ child.state # "running"
        /\ UNCHANGED <<child, interrupts>>
      BY DEF IInv, StopInv, Relist, NotRelisted, Terminate, TerminateFails
  <1>3. \A p \in Pids : backend[p].active /\ backend[p].begun = watch.begun[p] => p \in watch.targets
      BY DEF IInv, TargetInv
  <1>4. ASSUME End(2), UNCHANGED backend,
               \A p \in watch.targets : backend[p].active => backend[p].asked = "terminate"
        PROVE  IInv'
    <2>1. /\ watch' \in Watches /\ watch'.pc = "done" /\ watch'.code = 2
          /\ watch'.begun = watch.begun /\ watch'.targets = watch.targets
        BY <1>4, EndFields DEF IInv, Codes
    <2>2. ExitCodeTellsTheEnd'
        BY <1>2, <1>3, <1>4, <2>1 DEF ExitCodeTellsTheEnd, BreachLeavesNothing, ZeroMeansFinished
    <2> QED
        BY <1>2, <1>4, <2>1, <2>2, Ending
  <1>5. CASE NotRelisted \/ TerminateFails
    <2>1. watch' = [now EXCEPT !.pc = "done", !.code = 2, !.failed = TRUE] /\ UNCHANGED backend
        BY <1>1, <1>5 DEF NotRelisted, TerminateFails
    <2>2. watch' \in Watches
        BY <2>1 DEF Watches, Codes
    <2>3. /\ watch'.pc = "done" /\ watch'.code = 2 /\ watch'.failed = TRUE
          /\ watch'.begun = watch.begun /\ watch'.targets = watch.targets
        BY <1>1, <2>1 DEF Watches
    <2>4. ExitCodeTellsTheEnd'
        BY <1>2, <2>1, <2>3 DEF ExitCodeTellsTheEnd, BreachLeavesNothing, ZeroMeansFinished
    <2> QED
        BY <1>2, <2>1, <2>2, <2>3, <2>4, Ending
  <1>6. CASE Relist
    <2>1. UNCHANGED backend /\ watch.pc = "grace"
        BY <1>6 DEF Relist
    <2>2. \A p \in Pids : p \in Active <=> backend[p].active
        BY DEF Active
    <2>3. watch.targets \subseteq Pids
        BY <1>1 DEF Watches
    <2>4. CASE watch.targets \cap Active = {}
      <3>1. End(2)
          BY <1>6, <2>4 DEF Relist
      <3> QED
          BY <1>4, <2>1, <2>2, <2>3, <2>4, <3>1
    <2>5. CASE watch.targets \cap Active # {}
      <3>1. watch' = [now EXCEPT !.pc = "terminate", !.targets = watch.targets \cap Active]
          BY <1>1, <1>6, <2>5 DEF Relist
      <3>2. watch' \in Watches
          BY <2>3, <3>1 DEF Watches
      <3>3. /\ watch'.pc = "terminate" /\ watch'.code = watch.code /\ watch'.begun = watch.begun
            /\ watch'.targets = watch.targets \cap Active /\ watch'.interrupted = watch.interrupted
          BY <1>1, <3>1 DEF Watches
      <3>4. TypeOK'
          BY <1>2, <2>1, <3>2, Typed DEF IInv, TypeOK, Watches
      <3>5. (CodeInv /\ LoopInv /\ StopInv)'
          BY <1>2, <2>1, <3>3 DEF IInv, CodeInv, LoopInv, StopInv, Loop
      <3>6. TargetInv'
          BY <2>1, <2>2, <3>3 DEF IInv, TargetInv
      <3>7. ExitCodeTellsTheEnd'
          BY <1>2, <3>3, Constants DEF IInv, CodeInv, ExitCodeTellsTheEnd, BreachLeavesNothing, ZeroMeansFinished
      <3> QED
          BY <3>4, <3>5, <3>6, <3>7 DEF IInv
    <2> QED
        BY <2>4, <2>5
  <1>7. CASE Terminate
    <2>1. CASE {p \in watch.targets : backend[p].asked # "terminate"} = {}
        BY <1>4, <1>7, <2>1 DEF Terminate
    <2>2. CASE {p \in watch.targets : backend[p].asked # "terminate"} # {}
      <3>1. PICK p \in watch.targets : backend' = [backend EXCEPT ![p].asked = "terminate"]
          BY <1>7, <2>2 DEF Terminate
      <3>2. p \in Pids /\ UNCHANGED watch /\ watch.pc = "terminate"
          BY <1>1, <1>7, <2>2 DEF Terminate, Watches
      <3> QED
          BY <1>2, <3>1, <3>2, Asking
    <2> QED
        BY <2>1, <2>2
  <1> QED
      BY <1>5, <1>6, <1>7

(* An interrupt ends the watch with 130, or begins the stop of a command.  *)
LEMMA Interrupted ==
  ASSUME IInv, Interrupt
  PROVE  IInv'
  <1>1. PICK now \in Watches : now = watch
      BY Typed DEF IInv
  <1>2. /\ watch.pc # "done" /\ interrupts' = interrupts + 1 /\ interrupts < MaxInterrupts
        /\ UNCHANGED <<child, backend>>
      BY DEF Interrupt
  <1>3. \/ watch' = [now EXCEPT !.pc = "done", !.code = 130]
        \/ watch' = [now EXCEPT !.pc = "signal", !.rung = 1, !.interrupted = TRUE]
      BY <1>1 DEF Interrupt
  <1>4. watch' \in Watches
    <2>1. CASE watch' = [now EXCEPT !.pc = "done", !.code = 130]
        BY <2>1, Values DEF Watches
    <2>2. CASE watch' = [now EXCEPT !.pc = "signal", !.rung = 1, !.interrupted = TRUE]
        BY <2>2, Values DEF Watches
    <2> QED
        BY <1>3, <2>1, <2>2
  <1>5. /\ \/ watch'.pc = "done" /\ watch'.code = 130
           \/ watch'.pc = "signal" /\ watch'.code = watch.code
        /\ watch'.begun = watch.begun /\ watch'.targets = watch.targets
      BY ZenonT(60), <1>1, <1>3 DEF Watches
  <1>6. interrupts' \in 0 .. MaxInterrupts
      BY <1>2, Typed, Constants DEF IInv
  <1>7. TypeOK'
      BY <1>2, <1>4, <1>6, Typed DEF IInv, TypeOK, Watches
  <1>8. (CodeInv /\ LoopInv /\ StopInv)'
      BY <1>2, <1>5 DEF IInv, CodeInv, LoopInv, StopInv, Loop
  <1>9. TargetInv'
      BY <1>2, <1>5 DEF IInv, TargetInv
  <1>10. ExitCodeTellsTheEnd'
      BY <1>2, <1>5, Constants DEF IInv, CodeInv, ExitCodeTellsTheEnd, BreachLeavesNothing, ZeroMeansFinished
  <1> QED
      BY <1>7, <1>8, <1>9, <1>10 DEF IInv

-----------------------------------------------------------------------------
(* The command and the backends go their own way.                          *)
LEMMA CommandGoes ==
  ASSUME IInv, CommandEnds
  PROVE  IInv'
  <1>1. PICK old \in Children : old = child
      BY Typed DEF IInv
  <1>2. PICK code \in {0, 1} : child' = [old EXCEPT !.state = "ended", !.code = code]
      BY <1>1 DEF CommandEnds
  <1>3. child.state = "running" /\ UNCHANGED <<watch, backend, interrupts>>
      BY DEF CommandEnds
  <1>4. child' \in Children
      BY <1>2 DEF Children, Codes
  <1>5. child'.state = "ended" /\ child'.code = code /\ child'.signal = child.signal
      BY <1>1, <1>2 DEF Children
  <1>6. TypeOK'
      BY <1>3, <1>4, Typed DEF IInv, TypeOK, Children
  <1>7. (CodeInv /\ LoopInv /\ StopInv)'
      BY <1>3, <1>5 DEF IInv, CodeInv, LoopInv, StopInv
  <1>8. TargetInv'
      BY <1>3 DEF IInv, TargetInv
  <1>9. ExitCodeTellsTheEnd'
      BY <1>3, <1>5 DEF IInv, ExitCodeTellsTheEnd, BreachLeavesNothing, ZeroMeansFinished
  <1> QED
      BY <1>6, <1>7, <1>8, <1>9 DEF IInv

(* Statements of the backends begin and end beside the watch.              *)
LEMMA BackendGoes ==
  ASSUME IInv, NEW p \in Pids, StatementBegins(p) \/ StatementEnds(p) \/ BackendEnds(p)
  PROVE  IInv'
  <1>1. PICK row \in Backends : row = backend[p]
      BY Typed DEF IInv
  <1>2. PICK new \in Backends :
          /\ backend' = [backend EXCEPT ![p] = new]
          /\ new.asked = row.asked
          /\ \/ new.active /\ new.begun = row.begun + 1
             \/ ~new.active /\ new.begun = row.begun
    <2>1. CASE StatementBegins(p)
      <3>1. row.begun < MaxStatements /\ backend' = [backend EXCEPT ![p].active = TRUE, ![p].begun = @ + 1]
          BY <1>1, <2>1 DEF StatementBegins
      <3>2. PICK new : new = [row EXCEPT !.active = TRUE, !.begun = row.begun + 1]
          OBVIOUS
      <3>5. row.begun + 1 \in 0 .. MaxStatements
          BY <3>1, Values DEF Backends
      <3>3. new \in Backends /\ new.active /\ new.begun = row.begun + 1 /\ new.asked = row.asked
          BY <3>2, <3>5 DEF Backends
      <3>4. backend' = [backend EXCEPT ![p] = new]
          BY <1>1, <3>1, <3>2
      <3> QED
          BY <3>3, <3>4
    <2>2. CASE StatementEnds(p)
      <3>1. PICK new : new = [row EXCEPT !.active = FALSE]
          OBVIOUS
      <3>2. new \in Backends /\ ~new.active /\ new.begun = row.begun /\ new.asked = row.asked
          BY <3>1 DEF Backends
      <3>3. backend' = [backend EXCEPT ![p] = new]
          BY <1>1, <2>2, <3>1 DEF StatementEnds
      <3> QED
          BY <3>2, <3>3
    <2>3. CASE BackendEnds(p)
      <3>1. PICK new : new = [row EXCEPT !.active = FALSE, !.gone = TRUE]
          OBVIOUS
      <3>2. new \in Backends /\ ~new.active /\ new.begun = row.begun /\ new.asked = row.asked
          BY <3>1 DEF Backends
      <3>3. backend' = [backend EXCEPT ![p] = new]
          BY <1>1, <2>3, <3>1 DEF BackendEnds
      <3> QED
          BY <3>2, <3>3
    <2> QED
        BY <2>1, <2>2, <2>3
  <1>3. UNCHANGED <<watch, child, interrupts>>
      BY DEF StatementBegins, StatementEnds, BackendEnds
  <1>4. backend' \in [Pids -> Backends]
      BY <1>2, Typed DEF IInv
  <1>5. /\ backend'[p] = new /\ \A q \in Pids \ {p} : backend'[q] = backend[q]
        /\ row.begun \in Nat
      BY <1>2, Typed, Constants DEF IInv, Backends
  <1>6. \A q \in Pids : backend'[q].asked = backend[q].asked
      BY <1>1, <1>2, <1>5
  <1>7. TypeOK'
      BY <1>3, <1>4, Typed DEF IInv, TypeOK, Backends
  <1>8. (CodeInv /\ LoopInv /\ StopInv)'
      BY <1>3, <1>6 DEF IInv, CodeInv, LoopInv, StopInv
  <1>9. watch.begun[p] \in Nat
      BY Typed, Constants DEF IInv, Watches
  <1>10. row.begun >= watch.begun[p]
      BY <1>1 DEF IInv, TargetInv
  <1>11. new.begun >= watch.begun[p] /\ (new.active => new.begun >= 1 /\ new.begun # watch.begun[p])
      BY <1>2, <1>5, <1>9, <1>10
  <1>12. TargetInv'
      BY <1>3, <1>5, <1>11 DEF IInv, TargetInv
  <1>13. ExitCodeTellsTheEnd'
    <2>1. \A q \in Pids : backend'[q].active /\ backend'[q].begun = watch.begun[q] =>
            backend[q].active /\ backend[q].begun = watch.begun[q]
        BY <1>5, <1>11
    <2> QED
        BY <1>3, <1>6, <2>1 DEF IInv, ExitCodeTellsTheEnd, BreachLeavesNothing, ZeroMeansFinished
  <1> QED
      BY <1>7, <1>8, <1>12, <1>13 DEF IInv

-----------------------------------------------------------------------------
(* Every step keeps the inductive invariant.                               *)
LEMMA StepPreserves ==
  ASSUME IInv, [Next]_vars
  PROVE  IInv'
  <1>1. CASE Step
      BY <1>1, Polling, Listing, LoopEnds, Cancels, Signals, Terminates DEF Step
  <1>2. CASE Interrupt
      BY <1>2, Interrupted
  <1>3. CASE World
      BY <1>3, CommandGoes, BackendGoes DEF World
  <1>4. CASE UNCHANGED vars
      BY <1>4 DEF vars, IInv, TypeOK, CodeInv, LoopInv, StopInv, TargetInv, ExitCodeTellsTheEnd,
         BreachLeavesNothing, ZeroMeansFinished, Codes, Levels
  <1> QED
      BY <1>1, <1>2, <1>3, <1>4 DEF Next

(* The inductive invariant holds throughout.                               *)
LEMMA Invariance == Spec => []IInv
  BY InitEstablishes, StepPreserves, PTL DEF Spec

(* Whatever the command, the backends, the readings and the interrupts do, *)
(* the watch stays within its types: its counts of absent polls and of     *)
(* signals within their limits, the exit code one of the four.             *)
THEOREM WatchWellTyped == Spec => []TypeOK
  <1>1. IInv => TypeOK
      BY DEF IInv
  <1> QED
      BY <1>1, Invariance, PTL

(* The exit code tells what happened: 2 that nothing listed at the breach  *)
(* is left running without having been asked to end, unless a call failed; *)
(* 0 that the command ended well and was not stopped.                      *)
THEOREM ExitCodeIsTrue == Spec => []ExitCodeTellsTheEnd
  <1>1. IInv => ExitCodeTellsTheEnd
      BY DEF IInv
  <1> QED
      BY <1>1, Invariance, PTL
=============================================================================
