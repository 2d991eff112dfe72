------------------------------- MODULE Service -------------------------------
(***************************************************************************)
(* start.py and the API process it runs: the launcher's signals (Launcher) *)
(* against a process that cannot end while a websocket handler of the log  *)
(* stream (LogStream) has not returned.                                    *)
(***************************************************************************)
EXTENDS LogStream

CONSTANT PipeSize   \* what the bridge may write before its pipe is full

ASSUME SAssumption == PipeSize \in Nat

VARIABLES main, mode, procs, bridge, pipe, stuck, ctrl_c

launcherOnly == <<main, mode, procs, bridge, pipe, stuck, ctrl_c>>
serviceVars == <<vars, launcherOnly>>

L == INSTANCE Launcher

ServiceInit == L!Init /\ StreamInit

(* The API is started and ended by LogStream's conditions, everything else *)
(* of it belongs to one of the two.                                        *)
ServiceNext ==
  \/ L!LauncherStep /\ UNCHANGED streamVars
  \/ (StreamStep \/ Startup \/ Exit) /\ UNCHANGED launcherOnly

ServiceSpec ==
  /\ ServiceInit /\ [][ServiceNext]_serviceVars
  /\ Fairness /\ L!Fairness /\ WF_vars(Exit)

-----------------------------------------------------------------------------
(* Both parts have values that the code can give them.                     *)
TypeOK ==
  /\ StreamTypeOK
  /\ main \in L!Waits \union {"stopping", "goodbye", "left"}
  /\ mode \in {"full", "mcp_only", "api_only"}
  /\ procs \subseteq {"bridge", "api"}
  /\ bridge \in {"none", "boot", "up", "ending", "dead"}
  /\ pipe \in 0 .. PipeSize /\ stuck \in BOOLEAN /\ ctrl_c \in BOOLEAN

\* No longer running, or never started.
Ended(life) == life \in {"none", "dead"}

(* After a Ctrl-C at the terminal every process ends, whatever the launch  *)
(* it interrupted; except an API that has had a websocket client and that  *)
(* no kill() reached, unregistered yet or spared by a second interrupt.    *)
OnlyHungSurvives ==
  ctrl_c ~>
    /\ Ended(bridge)
    /\ \/ Ended(api)
       \/ Handlers # {} /\ ("api" \notin procs \/ main = "left")
=============================================================================
