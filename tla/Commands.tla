------------------------------ MODULE Commands ------------------------------
(***************************************************************************)
(* One run of procsec executes one command: a behaviour is one of those of *)
(* the commands on all processes (Baseline), on the namespaces of one or   *)
(* two (Namespaces), or on the memory of one (Maps).                       *)
(***************************************************************************)
EXTENDS Baseline, Namespaces, Maps

commandsVars == <<baselineVars, nsVars, mapsVars>>

\* One initial state of each, in which it stays while another command runs.
BaselineRests == procs = << >> /\ BaselineInit
NsRests == tasks = [s \in Sides |-> CHOOSE task \in Task : TRUE] /\ NsInit
MapsRests == mem = << >> /\ MapsInit

CommandsTypeOK == BaselineTypeOK /\ NsTypeOK /\ MapsTypeOK

CommandsInit ==
    \/ BaselineInit /\ NsRests /\ MapsRests
    \/ BaselineRests /\ NsInit /\ MapsRests
    \/ BaselineRests /\ NsRests /\ MapsInit

CommandsNext ==
    \/ NsRests /\ MapsRests /\ BaselineNext /\ UNCHANGED <<nsVars, mapsVars>>
    \/ BaselineRests /\ MapsRests /\ NsNext /\ UNCHANGED <<baselineVars, mapsVars>>
    \/ BaselineRests /\ NsRests /\ MapsNext /\ UNCHANGED <<baselineVars, nsVars>>

CommandsSpec == CommandsInit /\ [][CommandsNext]_commandsVars
=============================================================================
