------------------------------ MODULE Watchdog ------------------------------
(***************************************************************************)
(* The watch of the shared instance during a refresh (watchdog.py): polls  *)
(* of three metrics and of this host's active backends; on a breach the    *)
(* cancel of what was listed, the stop of the command under watch, the     *)
(* grace and the terminate of what still runs.  Backends, the command and  *)
(* the link to the instance go their own way between any two steps.        *)
(***************************************************************************)
EXTENDS Naturals, FiniteSets

CONSTANTS
  Pids,           \* this host's backends
  MaxSwap,        \* bound: levels of swap a reading can show, 0 .. MaxSwap
  MaxSwapRise,    \* limits.max_swap_rise_gb, in levels
  AbsentPolls,    \* --absent-polls
  MaxStatements,  \* bound: statements one backend runs
  MaxInterrupts,  \* bound: Ctrl-C or SIGTERM to the watchdog
  None            \* no datapoint, no exit code

ASSUME WatchdogAssumption ==
  /\ MaxSwap \in Nat /\ MaxSwapRise \in Nat /\ MaxInterrupts \in Nat
  /\ AbsentPolls \in Nat \ {0} /\ MaxStatements \in Nat \ {0}
  /\ None \notin 0 .. MaxSwap /\ None \notin {0, 1, 2, 130}

VARIABLES
  watch,       \* the Watch object and where its loop is
  child,       \* the command under watch: its process group, exit code, last signal
  backend,     \* per pid: statements begun, whether one is active, whether it is gone
  interrupts   \* how often the watchdog was interrupted

vars == <<watch, child, backend, interrupts>>

Levels == (0 .. MaxSwap) \cup {None}
Reading == [free : {"ok", "low", None}, swap : Levels, mem : {"ok", "low", None}]

(* What a reading breaks.  A missing value breaks nothing.                 *)
breaches(reading, base) ==
  {m \in {"free", "mem"} : reading[m] = "low"}
    \cup {m \in {"swap"} : /\ reading.swap # None /\ base # None
                           /\ reading.swap > base + MaxSwapRise}

Active == {p \in Pids : backend[p].active}

(* What main makes of its command line: a command to run, --report-only.   *)
Options == [command : BOOLEAN, report_only : BOOLEAN]

Init ==
  /\ \E o \in Options :
       /\ watch = [pc |-> "poll", code |-> None, report_only |-> o.report_only, swap_base |-> None,
                   reasons |-> {}, targets |-> {}, begun |-> [p \in Pids |-> 0], failed |-> FALSE,
                   seen |-> FALSE, absent |-> 0, rung |-> 0, interrupted |-> FALSE]
       /\ child = [state |-> IF o.command THEN "running" ELSE "none", code |-> None, signal |-> 0]
  /\ backend = [p \in Pids |-> [begun |-> 0, active |-> FALSE, asked |-> "nothing", gone |-> FALSE]]
  /\ interrupts = 0

Goto(pc) == watch' = [watch EXCEPT !.pc = pc, !.reasons = {}]
End(code) == watch' = [watch EXCEPT !.pc = "done", !.code = code, !.reasons = {}]

-----------------------------------------------------------------------------
(* The loop.                                                               *)

(* poll: the reading; its first swap level is the base.                    *)
ReadMetrics ==
  /\ watch.pc = "poll"
  /\ \E reading \in Reading :
       LET base == IF watch.swap_base = None THEN reading.swap ELSE watch.swap_base IN
       watch' = [watch EXCEPT !.pc = "list", !.swap_base = base,
                              !.reasons = breaches(reading, base)]
  /\ UNCHANGED <<child, backend, interrupts>>

After == IF child.state = "none" THEN "sleep" ELSE "wait"

(* poll: the backends listed.  A breach with some of ours active starts    *)
(* the stop; alone, a watch ends once ours have been gone long enough.     *)
ListBackends ==
  /\ watch.pc = "list"
  /\ IF watch.reasons # {} /\ Active # {} /\ ~watch.report_only
     THEN watch' = [watch EXCEPT !.pc = "cancel", !.targets = Active, !.reasons = {},
                                 !.begun = [p \in Pids |-> IF p \in Active THEN backend[p].begun
                                                           ELSE 0]]
     ELSE IF child.state # "none" THEN Goto(After)
     ELSE IF Active # {}
     THEN watch' = [watch EXCEPT !.pc = After, !.seen = TRUE, !.absent = 0, !.reasons = {}]
     ELSE IF watch.seen /\ watch.absent + 1 >= AbsentPolls THEN End(0)
     ELSE watch' = [watch EXCEPT !.pc = After, !.absent = IF watch.seen THEN @ + 1 ELSE @,
                                 !.reasons = {}]
  /\ UNCHANGED <<child, backend, interrupts>>

(* _backends caught a DBAPIError: the link is reset, the poll over.        *)
NotListed ==
  /\ watch.pc = "list"
  /\ Goto(After)
  /\ UNCHANGED <<child, backend, interrupts>>

(* run: child.wait(interval) times out, or the command has ended.          *)
NextPoll ==
  /\ watch.pc \in {"wait", "sleep"}
  /\ Goto("poll")
  /\ UNCHANGED <<child, backend, interrupts>>

CommandEnded ==
  /\ watch.pc = "wait" /\ child.state = "ended"
  /\ End(child.code)
  /\ UNCHANGED <<child, backend, interrupts>>

TimeLimit ==
  /\ watch.pc = "sleep"
  /\ End(1)
  /\ UNCHANGED <<child, backend, interrupts>>

-----------------------------------------------------------------------------
(* The stop.                                                               *)

(* After child.stop(): the grace of a breach, or the end of an interrupt.  *)
Stopped ==
  watch' = IF watch.interrupted THEN [watch EXCEPT !.pc = "done", !.code = 130]
           ELSE [watch EXCEPT !.pc = "grace"]

StopCommand ==
  IF child.state = "none" THEN Stopped
  ELSE watch' = [watch EXCEPT !.pc = "signal", !.rung = 1]

(* cancel: one pg_cancel_backend after another over one connection.        *)
Cancel ==
  LET next == {p \in watch.targets : backend[p].asked = "nothing"} IN
  /\ watch.pc = "cancel"
  /\ IF next = {} THEN StopCommand /\ UNCHANGED backend
     ELSE /\ \E p \in next : backend' = [backend EXCEPT ![p].asked = "cancel"]
          /\ UNCHANGED watch
  /\ UNCHANGED <<child, interrupts>>

(* The connection breaks on the way: the rest are not cancelled.           *)
CancelFails ==
  /\ watch.pc = "cancel"
  /\ watch' = IF child.state = "none" THEN [watch EXCEPT !.pc = "grace", !.failed = TRUE]
              ELSE [watch EXCEPT !.pc = "signal", !.rung = 1, !.failed = TRUE]
  /\ UNCHANGED <<child, backend, interrupts>>

(* Process.stop: SIGINT, SIGTERM and SIGKILL, each with its grace; the     *)
(* last is waited for without end.                                         *)
Rungs == 3

Signal ==
  /\ watch.pc = "signal" /\ child.state = "running"
  /\ child' = [child EXCEPT !.signal = watch.rung]
  /\ Goto("await")
  /\ UNCHANGED <<backend, interrupts>>

CommandStopped ==
  /\ watch.pc \in {"signal", "await"} /\ child.state = "ended"
  /\ Stopped
  /\ UNCHANGED <<child, backend, interrupts>>

(* Mutant of StillRunning: no kill after the second signal.                *)
StillRunningGivesUp ==
  /\ watch.pc = "await"
  /\ IF watch.rung < 2 THEN watch' = [watch EXCEPT !.pc = "signal", !.rung = @ + 1] ELSE Stopped
  /\ UNCHANGED <<child, backend, interrupts>>

StillRunning ==
  /\ watch.pc = "await" /\ watch.rung < Rungs
  /\ watch' = [watch EXCEPT !.pc = "signal", !.rung = @ + 1]
  /\ UNCHANGED <<child, backend, interrupts>>

(* Mutant of Relist: whatever was cancelled is taken to be gone.           *)
RelistNothing ==
  /\ watch.pc = "grace"
  /\ End(2)
  /\ UNCHANGED <<child, backend, interrupts>>

(* After the grace the backends are read again; the targets among them     *)
(* are terminated.                                                         *)
Relist ==
  /\ watch.pc = "grace"
  /\ LET left == watch.targets \cap Active IN
     IF left = {} THEN End(2)
     ELSE watch' = [watch EXCEPT !.pc = "terminate", !.targets = left]
  /\ UNCHANGED <<child, backend, interrupts>>

NotRelisted ==
  /\ watch.pc = "grace"
  /\ watch' = [watch EXCEPT !.pc = "done", !.code = 2, !.failed = TRUE]
  /\ UNCHANGED <<child, backend, interrupts>>

Terminate ==
  LET next == {p \in watch.targets : backend[p].asked # "terminate"} IN
  /\ watch.pc = "terminate"
  /\ IF next = {} THEN End(2) /\ UNCHANGED backend
     ELSE /\ \E p \in next : backend' = [backend EXCEPT ![p].asked = "terminate"]
          /\ UNCHANGED watch
  /\ UNCHANGED <<child, interrupts>>

TerminateFails ==
  /\ watch.pc = "terminate"
  /\ watch' = [watch EXCEPT !.pc = "done", !.code = 2, !.failed = TRUE]
  /\ UNCHANGED <<child, backend, interrupts>>

(* Ctrl-C or SIGTERM, which raises the same: run stops the command; a      *)
(* second one escapes it.                                                  *)
Interrupt ==
  /\ watch.pc # "done" /\ interrupts < MaxInterrupts
  /\ interrupts' = interrupts + 1
  /\ watch' = IF watch.interrupted \/ child.state = "none"
              THEN [watch EXCEPT !.pc = "done", !.code = 130]
              ELSE [watch EXCEPT !.pc = "signal", !.rung = 1, !.interrupted = TRUE]
  /\ UNCHANGED <<child, backend>>

-----------------------------------------------------------------------------
(* What is watched.                                                        *)

(* The command ends by itself or of a signal, well or badly.               *)
CommandEnds ==
  /\ child.state = "running"
  /\ \E code \in {0, 1} : child' = [child EXCEPT !.state = "ended", !.code = code]
  /\ UNCHANGED <<watch, backend, interrupts>>

StatementBegins(p) ==
  /\ ~backend[p].active /\ ~backend[p].gone /\ backend[p].begun < MaxStatements
  /\ backend' = [backend EXCEPT ![p].active = TRUE, ![p].begun = @ + 1]
  /\ UNCHANGED <<watch, child, interrupts>>

(* Done, or cancelled.                                                     *)
StatementEnds(p) ==
  /\ backend[p].active
  /\ backend' = [backend EXCEPT ![p].active = FALSE]
  /\ UNCHANGED <<watch, child, interrupts>>

(* The client has gone, or the backend was terminated.                     *)
BackendEnds(p) ==
  /\ ~backend[p].gone
  /\ backend' = [backend EXCEPT ![p].active = FALSE, ![p].gone = TRUE]
  /\ UNCHANGED <<watch, child, interrupts>>

Step ==
  \/ ReadMetrics \/ ListBackends \/ NotListed \/ NextPoll \/ CommandEnded \/ TimeLimit
  \/ Cancel \/ CancelFails \/ Signal \/ CommandStopped \/ StillRunning
  \/ Relist \/ NotRelisted \/ Terminate \/ TerminateFails

World == CommandEnds \/ \E p \in Pids : StatementBegins(p) \/ StatementEnds(p) \/ BackendEnds(p)

Killed == child.signal = Rungs /\ CommandEnds

Next == Step \/ Interrupt \/ World

(* The watchdog is a process that runs on, and SIGKILL is not refused.     *)
Spec == Init /\ [][Next]_vars /\ WF_vars(Step) /\ WF_vars(Killed)

-----------------------------------------------------------------------------
Codes == {None, 0, 1, 2, 130}

TypeOK ==
  /\ watch \in [pc : {"poll", "list", "wait", "sleep", "cancel", "signal", "await", "grace",
                      "terminate", "done"},
                code : Codes, report_only : BOOLEAN, swap_base : Levels,
                reasons : SUBSET {"free", "swap", "mem"}, targets : SUBSET Pids,
                begun : [Pids -> 0 .. MaxStatements], failed : BOOLEAN,
                seen : BOOLEAN, absent : 0 .. AbsentPolls, rung : 0 .. Rungs,
                interrupted : BOOLEAN]
  /\ child \in [state : {"none", "running", "ended"}, code : Codes, signal : 0 .. Rungs]
  /\ backend \in [Pids -> [begun : 0 .. MaxStatements, active : BOOLEAN,
                           asked : {"nothing", "cancel", "terminate"}, gone : BOOLEAN]]
  /\ interrupts \in 0 .. MaxInterrupts

(* A watch that ended on a breach leaves nothing of this host's running    *)
(* that it saw: the command is over, and a statement listed at the breach  *)
(* has ended or its backend has been terminated, unless the instance       *)
(* failed to answer one of the calls.  (watchdog.py, _stop.)               *)
BreachLeavesNothing ==
  watch.code = 2 =>
    /\ child.state # "running"
    /\ watch.failed \/ \A p \in Pids :
         backend[p].active /\ backend[p].begun = watch.begun[p] => backend[p].asked = "terminate"

(* A run script reads success only from a command that ended well by       *)
(* itself: never from one the watch had begun to stop.  (watchdog.py, the  *)
(* module's "ends with its exit code" and "exits 2".)                      *)
ZeroMeansFinished ==
  watch.code = 0 /\ child.state # "none" =>
    /\ child.state = "ended" /\ child.code = 0
    /\ child.signal = 0 /\ \A p \in Pids : backend[p].asked = "nothing"

(* Every stop the watch begins comes to its end, with the command ended,   *)
(* whatever the command does of the signals and the instance of the calls, *)
(* and also when an interrupt falls into it.  (watchdog.py, _stop, stop.)  *)
StopsEnd ==
  watch.pc \in {"cancel", "signal"} ~> (watch.pc = "done" /\ child.state # "running")

(* The exit code tells a run script what happened: 2 that nothing is left, *)
(* 0 that nothing was stopped.                                             *)
ExitCodeTellsTheEnd == BreachLeavesNothing /\ ZeroMeansFinished
=============================================================================
