----------------------------- MODULE SourcesCli -----------------------------
(***************************************************************************)
(* The two long commands of the sources CLI on one database: a refresh     *)
(* (SourcesRefresh) and a canonical build (CanonicalBuild), which may run  *)
(* at once, beside the own-extract patch.                                  *)
(***************************************************************************)
EXTENDS CanonicalBuild, SourcesRefresh

(* The build and the refresh are sessions of their own, and the patch's    *)
(* runs are logged under a source no staging table has.                    *)
ASSUME SessionsAssumption == Me # Cli /\ PatchSource \notin Staging

cliVars == <<allVars, command>>

(* The refresh waits where it replaces a table the identity transaction    *)
(* holds.                                                                  *)
WaitsForCanon ==
  /\ \A i \in RunIds : loader[i].step = "fetch" /\ loader'[i].step = "copy" => ~Held(TableOf(i))
  /\ builder[Cli].step = "temp" /\ builder'[Cli].step = "built" => ~Held(builder[Cli].table)

CliNext ==
  \/ RefreshNext /\ WaitsForCanon /\ UNCHANGED canonVars
  \/ Patch /\ UNCHANGED <<canonVars, command>>
  \/ CanonCommand /\ UNCHANGED command

CliInit == Init /\ CanonInit /\ command = CommandOver

CliSpec == CliInit /\ [][CliNext]_cliVars
=============================================================================
