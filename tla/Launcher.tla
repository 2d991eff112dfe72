------------------------------- MODULE Launcher -------------------------------
(***************************************************************************)
(* start.py: the launcher starts the stub bridge and the API as processes, *)
(* waits for them, and stops them on Ctrl-C.  A Ctrl-C may come at any     *)
(* moment, and twice; from the terminal it reaches the children too.       *)
(*                                                                         *)
(* The children are uvicorn servers: a first SIGINT or SIGTERM makes them  *)
(* end in their own time, a SIGINT while they do makes them wait for       *)
(* nothing: at once, unless they are starting or stuck in a write.         *)
(***************************************************************************)
EXTENDS Naturals

CONSTANT PipeSize   \* what the bridge may write before its pipe is full

VARIABLES
  main,      \* where main() is
  mode,      \* "full", "mcp_only" or "api_only"
  procs,     \* the processes registered in procs
  bridge,    \* the bridge: "none", "boot", "up", "ending" or "dead"
  api,       \* the API, likewise
  pipe,      \* what the bridge has written and nobody reads
  stuck,     \* the bridge is in a write to its full pipe
  ctrl_c     \* a Ctrl-C has reached both children (ghost)

launcherVars == <<main, mode, procs>>
bridgeVars == <<bridge, pipe, stuck>>
vars == <<launcherVars, bridgeVars, api, ctrl_c>>

Waits == {"start_bridge", "bridge_sleep", "start_api", "api_sleep", "browser", "wait"}

Init ==
  /\ mode \in {"full", "mcp_only", "api_only"}
  /\ main = IF mode = "api_only" THEN "start_api" ELSE "start_bridge"
  /\ procs = {}
  /\ bridge = "none" /\ pipe = 0 /\ stuck = FALSE
  /\ api = "none"
  /\ ctrl_c = FALSE

Alive == {"boot", "up", "ending"}
Gone == main \in {"goodbye", "left"}

\* The end of the launcher closes its end of the pipe.
Blocked == stuck /\ ~Gone

(* What a process makes of a signal: during its imports it dies of it.     *)
After(life, signal) ==
  CASE life = "boot" -> {"ending", "dead"}
    [] life = "up" -> {"ending"}
    [] life = "ending" /\ signal = "INT" -> {"ending", "dead"}
    [] OTHER -> {life}

-----------------------------------------------------------------------------
(* launch_mcp_server: Popen, then a sleep; its result is registered after. *)
StartBridge ==
  /\ main = "start_bridge"
  /\ bridge' = "boot" /\ main' = "bridge_sleep"
  /\ UNCHANGED <<mode, procs, pipe, stuck, api, ctrl_c>>

BridgeStarted ==
  /\ main = "bridge_sleep"
  /\ procs' = procs \union {"bridge"}
  /\ main' = IF mode = "full" THEN "start_api" ELSE "wait"
  /\ UNCHANGED <<mode, bridgeVars, api, ctrl_c>>

(* launch_api_server, whatever has become of the bridge.                   *)
StartApi ==
  /\ main = "start_api"
  /\ api' = "boot" /\ main' = "api_sleep"
  /\ UNCHANGED <<mode, procs, bridgeVars, ctrl_c>>

ApiStarted ==
  /\ main = "api_sleep"
  /\ procs' = procs \union {"api"}
  /\ main' = "browser"
  /\ UNCHANGED <<mode, bridgeVars, api, ctrl_c>>

Browse ==
  /\ main = "browser" /\ main' = "wait"
  /\ UNCHANGED <<mode, procs, bridgeVars, api, ctrl_c>>

Life(p) == IF p = "bridge" THEN bridge ELSE api

(* p.wait() for each of them, in order: both have ended.                   *)
AllEnded ==
  /\ main = "wait" /\ \A p \in procs : Life(p) = "dead"
  /\ main' = "left"
  /\ UNCHANGED <<mode, procs, bridgeVars, api, ctrl_c>>

(* KeyboardInterrupt, while the try block runs: terminate() what is        *)
(* registered.  toAll: the children got the SIGINT as well.                *)
Interrupt(toAll) ==
  LET hit(p) == toAll \/ p \in procs
      signal == IF toAll THEN "INT" ELSE "TERM"
  IN /\ main \in Waits /\ main' = "stopping"
     /\ IF hit("bridge") THEN bridge' \in After(bridge, signal) ELSE UNCHANGED bridge
     /\ IF hit("api") THEN api' \in After(api, signal) ELSE UNCHANGED api
     /\ ctrl_c' = (ctrl_c \/ toAll)
     /\ UNCHANGED <<mode, procs, pipe, stuck>>

\* terminate() again in the place of kill().
TerminateAgain ==
  /\ main = "stopping" /\ main' = "goodbye"
  /\ UNCHANGED <<mode, procs, bridgeVars, api, ctrl_c>>

(* Half a second later: kill(), "All services stopped. Goodbye!"           *)
Kill ==
  /\ main = "stopping" /\ main' = "goodbye"
  /\ bridge' = IF "bridge" \in procs THEN "dead" ELSE bridge
  /\ api' = IF "api" \in procs THEN "dead" ELSE api
  /\ UNCHANGED <<mode, procs, pipe, stuck, ctrl_c>>

(* A second KeyboardInterrupt, during that half second, leaves main().     *)
InterruptAgain(toAll) ==
  /\ main = "stopping" /\ main' = "left"
  /\ IF toAll THEN bridge' \in After(bridge, "INT") /\ api' \in After(api, "INT")
              ELSE UNCHANGED <<bridge, api>>
  /\ ctrl_c' = (ctrl_c \/ toAll)
  /\ UNCHANGED <<mode, procs, pipe, stuck>>

-----------------------------------------------------------------------------
(* The bridge writes to stdout, a pipe that nobody reads: when that is     *)
(* full it is stuck in the write, and serves no more.  Once the launcher   *)
(* is gone writes fail, which its logging ignores.                         *)
Write ==
  /\ bridge \in Alive /\ ~stuck /\ ~Gone
  /\ IF pipe < PipeSize THEN pipe' = pipe + 1 /\ UNCHANGED stuck
                        ELSE stuck' = TRUE /\ UNCHANGED pipe
  /\ UNCHANGED <<launcherVars, bridge, api, ctrl_c>>

BridgeUp ==
  /\ bridge = "boot" /\ ~Blocked /\ bridge' = "up"
  /\ UNCHANGED <<launcherVars, pipe, stuck, api, ctrl_c>>

BridgeExits ==
  /\ bridge = "ending" /\ ~Blocked /\ bridge' = "dead"
  /\ UNCHANGED <<launcherVars, pipe, stuck, api, ctrl_c>>

(* A process dies of its own: a taken port, a failed preflight, a crash.   *)
BridgeFails ==
  /\ bridge \in Alive /\ bridge' = "dead"
  /\ UNCHANGED <<launcherVars, pipe, stuck, api, ctrl_c>>

ApiFails ==
  /\ api \in Alive /\ api' = "dead"
  /\ UNCHANGED <<launcherVars, bridgeVars, ctrl_c>>

ApiUp ==
  /\ api = "boot" /\ api' = "up"
  /\ UNCHANGED <<launcherVars, bridgeVars, ctrl_c>>

ApiExits ==
  /\ api = "ending" /\ api' = "dead"
  /\ UNCHANGED <<launcherVars, bridgeVars, ctrl_c>>

Sleeps == StartBridge \/ BridgeStarted \/ StartApi \/ ApiStarted \/ Browse \/ Kill

LauncherStep ==
  \/ Sleeps \/ AllEnded
  \/ \E toAll \in BOOLEAN : Interrupt(toAll) \/ InterruptAgain(toAll)
  \/ Write \/ BridgeUp \/ BridgeExits \/ BridgeFails \/ ApiFails

Next == LauncherStep \/ ApiUp \/ ApiExits

(* Sleeps end, and a bridge that is not stuck ends when told.              *)
Fairness == WF_vars(Sleeps) /\ WF_vars(AllEnded) /\ WF_vars(BridgeExits)

Spec == Init /\ [][Next]_vars /\ Fairness
=============================================================================
