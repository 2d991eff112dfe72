------------------------------ MODULE LogStream ------------------------------
(***************************************************************************)
(* main.py: one life of the API process as its log stream sees it.  Log    *)
(* records are queued by _LogBroadcaster.emit, and broadcast_loop sends    *)
(* each of them to the websocket clients of the moment, one after the      *)
(* other, while clients come and go.                                       *)
(*                                                                         *)
(* An action is what a coroutine does from an await to the next.  Entries  *)
(* are numbered as they are logged.                                        *)
(***************************************************************************)
EXTENDS Naturals, Sequences

CONSTANTS
  Clients,      \* websocket connections; a client that returns is a new one
  QueueSize,    \* maxsize of the queue
  MaxEntries    \* bound: entries logged

ASSUME LSAssumption == QueueSize \in Nat \ {0} /\ MaxEntries \in Nat

VARIABLES
  api,        \* the process: "none", "boot", "up", "ending" or "dead"
  attached,   \* the broadcaster is still a handler of the root logger
  queue,      \* _queue
  clients,    \* _clients
  sending,    \* the round of broadcast_loop under way
  socket,     \* per client: "new", "open", "gone" (unnoticed) or "closed"
  logged,     \* entries logged so far
  accepted, taken, joined, received   \* ghosts: see StreamContiguous

ghosts == <<accepted, taken, joined, received>>
streamVars == <<attached, queue, clients, sending, socket, logged, ghosts>>
vars == <<api, streamVars>>

Idle == [entry |-> 0, todo |-> {}, dead |-> {}]

(* What _setup_logging leaves: with config/logging_config.yaml applied,    *)
(* root has other handlers; without it the broadcaster stays.              *)
StreamInit ==
  /\ attached \in BOOLEAN
  /\ queue = <<>> /\ clients = {} /\ sending = Idle
  /\ socket = [c \in Clients |-> "new"]
  /\ logged = 0
  /\ accepted = <<>> /\ taken = 0
  /\ joined = [c \in Clients |-> 0]
  /\ received = [c \in Clients |-> <<>>]

Init == api = "none" /\ StreamInit

Running == api \in {"boot", "up", "ending"}

-----------------------------------------------------------------------------
PutUnbounded ==
  IF ~attached THEN UNCHANGED <<logged, queue, accepted>>
  ELSE /\ logged < MaxEntries
       /\ logged' = logged + 1
       /\ queue' = Append(queue, logged')
       /\ accepted' = Append(accepted, logged')

(* emit: put_nowait, and a full queue drops the new entry.                 *)
Put ==
  IF ~attached THEN UNCHANGED <<logged, queue, accepted>>
  ELSE /\ logged < MaxEntries
       /\ logged' = logged + 1
       /\ IF Len(queue) < QueueSize
            THEN /\ queue' = Append(queue, logged')
                 /\ accepted' = Append(accepted, logged')
            ELSE UNCHANGED <<queue, accepted>>

(* A record is logged somewhere in the service, from its start on.         *)
Emit ==
  /\ Running /\ attached
  /\ Put
  /\ UNCHANGED <<api, attached, clients, sending, socket, taken, joined, received>>

(* websocket_log_stream: accept, add_client and a log record; from then on *)
(* the handler sleeps, for ever, and never learns that its client left.    *)
Connect(c) ==
  /\ api = "up" /\ socket[c] = "new"
  /\ clients' = clients \union {c}
  /\ socket' = [socket EXCEPT ![c] = "open"]
  /\ joined' = [joined EXCEPT ![c] = taken]
  /\ Put
  /\ UNCHANGED <<api, attached, sending, taken, received>>

\* Handlers that have not returned: every one ever started.
Handlers == {c \in Clients : socket[c] # "new"}

(* A round of broadcast_loop, with todo still to be sent to: when that is  *)
(* nobody, the dead are removed and the loop waits for the next entry.     *)
Round(entry, todo, dead) ==
  IF todo = {}
    THEN sending' = Idle /\ clients' = clients \ dead
    ELSE /\ sending' = [entry |-> entry, todo |-> todo, dead |-> dead]
         /\ UNCHANGED clients

(* The task runs from the end of startup to the process's exit.            *)
Take ==
  /\ api \in {"up", "ending"} /\ sending = Idle /\ queue # <<>>
  /\ queue' = Tail(queue) /\ taken' = taken + 1
  /\ Round(Head(queue), clients, {})
  /\ UNCHANGED <<api, attached, socket, logged, accepted, joined, received>>

Sending(c) == api \in {"up", "ending"} /\ c \in sending.todo

(* send_text to a client that is there.                                    *)
Send(c) ==
  /\ Sending(c) /\ socket[c] = "open"
  /\ received' = [received EXCEPT ![c] = Append(@, sending.entry)]
  /\ Round(sending.entry, sending.todo \ {c}, sending.dead)
  /\ UNCHANGED <<api, attached, queue, socket, logged, accepted, taken, joined>>

(* send_text to one that has left, which nobody has noticed yet.           *)
SendInVain(c) ==
  /\ Sending(c) /\ socket[c] = "gone"
  /\ Round(sending.entry, sending.todo \ {c}, sending.dead)
  /\ UNCHANGED <<api, attached, queue, socket, logged, ghosts>>

SendFailsBreaks(c) ==
  /\ Sending(c) /\ socket[c] = "closed"
  /\ Round(sending.entry, {}, sending.dead \union {c})
  /\ UNCHANGED <<api, attached, queue, socket, logged, ghosts>>

SendFailsKept(c) ==
  /\ Sending(c) /\ socket[c] = "closed"
  /\ Round(sending.entry, sending.todo \ {c}, sending.dead)
  /\ UNCHANGED <<api, attached, queue, socket, logged, ghosts>>

\* The exception leaves the loop, whose task is over.
SendFailsRaises(c) == Sending(c) /\ socket[c] = "closed" /\ UNCHANGED vars

(* send_text raises.                                                       *)
SendFails(c) ==
  /\ Sending(c) /\ socket[c] = "closed"
  /\ Round(sending.entry, sending.todo \ {c}, sending.dead \union {c})
  /\ UNCHANGED <<api, attached, queue, socket, logged, ghosts>>

(* A client leaves; uvicorn notices by a closing frame or a missing pong,  *)
(* and closes the connections itself when the process is to end.           *)
Leave(c) ==
  /\ socket[c] = "open"
  /\ socket' = [socket EXCEPT ![c] = "gone"]
  /\ UNCHANGED <<api, attached, queue, clients, sending, logged, ghosts>>

Notice(c) ==
  /\ Running
  /\ socket[c] = "gone" \/ (socket[c] = "open" /\ api = "ending")
  /\ socket' = [socket EXCEPT ![c] = "closed"]
  /\ UNCHANGED <<api, attached, queue, clients, sending, logged, ghosts>>

-----------------------------------------------------------------------------
(* lifespan: startup, and the end, for which uvicorn waits until every     *)
(* handler has returned; only then is broadcast_loop cancelled and the     *)
(* pipeline shut down.                                                     *)
Startup ==
  /\ api = "boot" /\ api' = "up"
  /\ UNCHANGED streamVars

Exit ==
  /\ api = "ending" /\ Handlers = {}
  /\ api' = "dead"
  /\ UNCHANGED streamVars

(* What happens to the process from outside: it is started, told to end,   *)
(* or it dies.                                                             *)
Outside ==
  /\ \/ api = "none" /\ api' = "boot"
     \/ api = "boot" /\ api' = "ending"
     \/ api = "up" /\ api' = "ending"
     \/ Running /\ api' = "dead"
  /\ UNCHANGED streamVars

StreamStep ==
  \/ Emit \/ Take
  \/ \E c \in Clients :
       Connect(c) \/ Send(c) \/ SendInVain(c) \/ SendFails(c) \/ Leave(c) \/ Notice(c)

Next == StreamStep \/ Startup \/ Exit \/ Outside

(* The loop runs when it can.  A send ends, and a client that left is      *)
(* noticed, since uvicorn pings its websockets and closes silent ones.     *)
Fairness ==
  /\ WF_vars(Take)
  /\ \A c \in Clients :
       WF_vars(Send(c) \/ SendInVain(c) \/ SendFails(c)) /\ WF_vars(Notice(c))

Spec == Init /\ [][Next]_vars /\ Fairness

-----------------------------------------------------------------------------
StreamTypeOK ==
  /\ api \in {"none", "boot", "up", "ending", "dead"}
  /\ attached \in BOOLEAN
  /\ queue \in Seq(Nat) /\ Len(queue) <= QueueSize
  /\ clients \subseteq Clients
  /\ sending \in [entry : Nat, todo : SUBSET Clients, dead : SUBSET Clients]
  /\ socket \in [Clients -> {"new", "open", "gone", "closed"}]
  /\ logged \in Nat
  /\ accepted \in Seq(Nat) /\ taken \in Nat
  /\ joined \in [Clients -> Nat]
  /\ received \in [Clients -> Seq(Nat)]

\* Entries the loop has finished with, as far as client c is concerned.
Passed(c) == IF c \in sending.todo THEN taken - 1 ELSE taken

(* A client that is there has received every entry accepted into the queue *)
(* whose round began after it joined, each once and in order, whoever      *)
(* joined or died during the rounds; one that left, a beginning of them.   *)
StreamContiguous ==
  \A c \in Clients :
    /\ Len(received[c]) <= Passed(c) - joined[c]
    /\ socket[c] = "open" => Len(received[c]) = Passed(c) - joined[c]
    /\ \A i \in 1 .. Len(received[c]) : received[c][i] = accepted[joined[c] + i]

(* docs/API_REFERENCE.md:577: "Disconnected clients are silently removed", *)
(* once there is an entry to send, although no handler ever removes one.   *)
DeadRemoved ==
  \A c \in Clients :
    socket[c] = "closed" /\ c \in clients /\ queue # <<>> /\ api = "up"
      ~> c \notin clients \/ api # "up"

(* An accepted entry reaches every client that joined before its round,    *)
(* unless it leaves or the process is to end: no dead client and no other  *)
(* client's silence holds the stream up for ever.                          *)
EntriesDelivered ==
  \A c \in Clients, n \in 1 .. MaxEntries :
    socket[c] = "open" /\ joined[c] < n /\ n <= Len(accepted) /\ api = "up"
      ~> Len(received[c]) >= n - joined[c] \/ socket[c] # "open" \/ api # "up"
=============================================================================
