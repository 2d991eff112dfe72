---------------------------- MODULE ServiceProofs ----------------------------
(***************************************************************************)
(* Theorems about the log stream, alone and under the launcher: for every  *)
(* set of clients, queue size and pipe size, whatever MaxEntries bounds.   *)
(***************************************************************************)
EXTENDS Service, Integers, TLAPS

(* What is in the queue is the end of what was accepted.                   *)
QueueInv ==
  /\ Len(accepted) = taken + Len(queue)
  /\ \A i \in 1 .. Len(queue) : queue[i] = accepted[taken + i]

(* The round under way sends the entry taken last.                         *)
RoundInv ==
  sending.todo # {} => taken >= 1 /\ sending.entry = accepted[taken]

(* A client that is there is registered, and a dead one is gone for good.  *)
SocketInv ==
  \A c \in Clients :
    /\ socket[c] = "new" => c \notin clients /\ c \notin sending.todo /\ received[c] = <<>>
    /\ socket[c] = "open" => c \in clients
    /\ c \in sending.dead => socket[c] = "closed"

IInv == StreamTypeOK /\ QueueInv /\ RoundInv /\ SocketInv /\ StreamContiguous

Lives == {"none", "boot", "up", "ending", "dead"}

-----------------------------------------------------------------------------
(* A sequence of numbers with one more keeps the others.                   *)
LEMMA Appended ==
  ASSUME NEW s \in Seq(Nat), NEW e \in Nat
  PROVE /\ Append(s, e) \in Seq(Nat) /\ Len(Append(s, e)) = Len(s) + 1
        /\ Append(s, e)[Len(s) + 1] = e
        /\ \A i \in 1 .. Len(s) : Append(s, e)[i] = s[i]
  OBVIOUS

(* emit leaves queue and accepted entries in agreement, and the entries    *)
(* that were accepted before where they were.                              *)
LEMMA PutKeeps ==
  ASSUME StreamTypeOK, QueueInv, Put, UNCHANGED taken
  PROVE /\ queue' \in Seq(Nat) /\ Len(queue') <= QueueSize
        /\ logged' \in Nat /\ accepted' \in Seq(Nat)
        /\ QueueInv'
        /\ Len(accepted) <= Len(accepted')
        /\ \A i \in 1 .. Len(accepted) : accepted'[i] = accepted[i]
<1>1. QueueSize \in Nat /\ queue \in Seq(Nat) /\ accepted \in Seq(Nat) /\ taken \in Nat
      /\ logged \in Nat /\ Len(queue) <= QueueSize
  BY LSAssumption DEF StreamTypeOK
<1>2. CASE UNCHANGED <<queue, accepted>> /\ logged' \in {logged, logged + 1}
  BY <1>1, <1>2 DEF QueueInv
<1>3. CASE /\ logged' = logged + 1 /\ Len(queue) < QueueSize
           /\ queue' = Append(queue, logged') /\ accepted' = Append(accepted, logged')
  <2>1. /\ queue' \in Seq(Nat) /\ accepted' \in Seq(Nat) /\ logged' \in Nat
        /\ Len(queue') = Len(queue) + 1 /\ Len(accepted') = Len(accepted) + 1
        /\ queue'[Len(queue) + 1] = logged' /\ accepted'[Len(accepted) + 1] = logged'
        /\ \A i \in 1 .. Len(queue) : queue'[i] = queue[i]
        /\ \A i \in 1 .. Len(accepted) : accepted'[i] = accepted[i]
    BY <1>1, <1>3, Appended
  <2>2. Len(accepted') = taken' + Len(queue')
    BY <1>1, <2>1 DEF QueueInv
  <2>3. ASSUME NEW i \in 1 .. Len(queue')
        PROVE  queue'[i] = accepted'[taken' + i]
    <3>1. CASE i = Len(queue) + 1
      BY <1>1, <2>1, <3>1 DEF QueueInv
    <3>2. CASE i # Len(queue) + 1
      <4>1. i \in 1 .. Len(queue) /\ taken + i \in 1 .. Len(accepted)
        BY <1>1, <2>1, <3>2 DEF QueueInv
      <4> QED BY <1>1, <2>1, <4>1 DEF QueueInv
    <3> QED BY <3>1, <3>2
  <2>4. QueueInv'
    BY <2>2, <2>3 DEF QueueInv
  <2>5. Len(queue') <= QueueSize /\ Len(accepted) <= Len(accepted')
    BY <1>1, <1>3, <2>1
  <2> QED BY <2>1, <2>4, <2>5
<1> QED BY <1>1, <1>2, <1>3 DEF Put

(* A round keeps sending to whom it has not sent to yet, and removes       *)
(* nobody but the dead.                                                    *)
LEMMA RoundKeeps ==
  ASSUME StreamTypeOK, NEW entry \in Nat, NEW todo \in SUBSET Clients,
         NEW dead \in SUBSET Clients, Round(entry, todo, dead)
  PROVE /\ sending' \in [entry : Nat, todo : SUBSET Clients, dead : SUBSET Clients]
        /\ sending'.todo = todo /\ sending'.dead \subseteq dead
        /\ todo # {} => sending'.entry = entry
        /\ clients \ dead \subseteq clients' /\ clients' \subseteq clients
<1>1. CASE todo = {}
  BY <1>1 DEF Round, Idle, StreamTypeOK
<1>2. CASE todo # {}
  <2>1. sending' = [entry |-> entry, todo |-> todo, dead |-> dead] /\ clients' = clients
    BY <1>2 DEF Round
  <2> QED BY <1>2, <2>1
<1> QED BY <1>1, <1>2

(* What a client has received was accepted, and its round has begun.       *)
LEMMA Within ==
  ASSUME IInv, NEW c \in Clients
  PROVE /\ joined[c] \in Nat /\ received[c] \in Seq(Nat) /\ taken \in Nat
        /\ Passed(c) \in Int /\ Passed(c) <= taken /\ taken <= Len(accepted)
        /\ joined[c] + Len(received[c]) <= taken
        /\ \A i \in 1 .. Len(received[c]) : joined[c] + i \in 1 .. Len(accepted)
<1>1. /\ joined[c] \in Nat /\ received[c] \in Seq(Nat) /\ taken \in Nat
      /\ queue \in Seq(Nat) /\ accepted \in Seq(Nat)
  BY DEF IInv, StreamTypeOK
<1>2. Len(received[c]) \in Nat /\ Len(queue) \in Nat /\ Len(accepted) \in Nat
  BY <1>1
<1>3. Len(accepted) = taken + Len(queue) /\ Len(received[c]) <= Passed(c) - joined[c]
  BY DEF IInv, QueueInv, StreamContiguous
<1>4. Passed(c) \in Int /\ Passed(c) <= taken
  BY <1>1 DEF Passed
<1>5. joined[c] + Len(received[c]) <= taken /\ taken <= Len(accepted)
  BY <1>1, <1>2, <1>3, <1>4
<1>6. ASSUME NEW i \in 1 .. Len(received[c])
      PROVE  joined[c] + i \in 1 .. Len(accepted)
  <2>1. joined[c] \in Nat /\ taken \in Nat
    BY <1>1
  <2> QED BY <1>2, <1>5, <2>1
<1> QED BY <1>1, <1>4, <1>5, <1>6

-----------------------------------------------------------------------------
(* The process starts with empty queues, and nobody connected.             *)
LEMMA InitIInv ==
  ASSUME StreamInit, api \in Lives
  PROVE  IInv
<1>1. QueueSize \in Nat
  BY LSAssumption
<1>2. StreamTypeOK
  <2>1. Idle \in [entry : Nat, todo : SUBSET Clients, dead : SUBSET Clients]
    BY DEF Idle
  <2>2. <<>> \in Seq(Nat) /\ Len(<<>>) = 0
    OBVIOUS
  <2>3. received \in [Clients -> Seq(Nat)] /\ joined \in [Clients -> Nat]
    BY <2>2 DEF StreamInit
  <2> QED BY <1>1, <2>1, <2>2, <2>3 DEF StreamInit, StreamTypeOK, Lives
<1>3. StreamContiguous
  <2>1. Len(<<>>) = 0
    OBVIOUS
  <2>2. ASSUME NEW c \in Clients
        PROVE  received[c] = <<>> /\ joined[c] = 0 /\ Passed(c) = 0 /\ socket[c] = "new"
    BY DEF StreamInit, Passed, Idle
  <2>3. ASSUME NEW c \in Clients
        PROVE  /\ Len(received[c]) <= Passed(c) - joined[c] /\ socket[c] # "open"
               /\ \A i \in 1 .. Len(received[c]) : received[c][i] = accepted[joined[c] + i]
    BY <2>1, <2>2
  <2> QED BY <2>3 DEF StreamContiguous
<1> QED BY <1>2, <1>3 DEF StreamInit, IInv, QueueInv, RoundInv, SocketInv, Idle

(* What happens to the process leaves the stream as it is.                 *)
LEMMA OutsideIInv ==
  ASSUME IInv, UNCHANGED streamVars, api' \in Lives
  PROVE  IInv'
BY DEF IInv, streamVars, ghosts, Lives, StreamTypeOK, QueueInv, RoundInv, SocketInv,
       StreamContiguous, Passed

(* An accepted entry more changes nothing for the entries before it.       *)
LEMMA EmitIInv ==
  ASSUME IInv, Emit
  PROVE  IInv'
<1> USE DEF IInv
<1>1. UNCHANGED <<api, attached, clients, sending, socket, taken, joined, received>> /\ Put
  BY DEF Emit
<1>2. /\ queue' \in Seq(Nat) /\ Len(queue') <= QueueSize
      /\ logged' \in Nat /\ accepted' \in Seq(Nat)
      /\ QueueInv' /\ Len(accepted) <= Len(accepted')
      /\ \A i \in 1 .. Len(accepted) : accepted'[i] = accepted[i]
  BY <1>1, PutKeeps
<1>3. StreamTypeOK'
  BY <1>1, <1>2 DEF StreamTypeOK
<1>4. RoundInv'
  <2>1. taken \in Nat /\ queue \in Seq(Nat) /\ Len(accepted) = taken + Len(queue)
    BY DEF StreamTypeOK, QueueInv
  <2>2. SUFFICES ASSUME sending.todo # {}
                 PROVE  taken >= 1 /\ sending.entry = accepted'[taken]
    BY <1>1 DEF RoundInv
  <2>3. taken \in 1 .. Len(accepted) /\ sending.entry = accepted[taken]
    BY <2>1, <2>2 DEF RoundInv
  <2> QED BY <1>2, <2>3
<1>5. SocketInv'
  BY <1>1 DEF SocketInv
<1>6. StreamContiguous'
  <2>1. ASSUME NEW c \in Clients
        PROVE  \A i \in 1 .. Len(received[c]) : received[c][i] = accepted'[joined[c] + i]
    BY <1>2, Within DEF StreamContiguous
  <2> QED BY <1>1, <2>1 DEF StreamContiguous, Passed
<1> QED BY <1>2, <1>3, <1>4, <1>5, <1>6

(* A client that joins has received nothing, and nothing has passed it.    *)
LEMMA ConnectIInv ==
  ASSUME IInv, NEW c \in Clients, Connect(c)
  PROVE  IInv'
<1> USE DEF IInv
<1>1. /\ socket[c] = "new" /\ Put
      /\ clients' = clients \union {c} /\ socket' = [socket EXCEPT ![c] = "open"]
      /\ joined' = [joined EXCEPT ![c] = taken]
      /\ UNCHANGED <<api, attached, sending, taken, received>>
  BY DEF Connect
<1>2. /\ queue' \in Seq(Nat) /\ Len(queue') <= QueueSize
      /\ logged' \in Nat /\ accepted' \in Seq(Nat)
      /\ QueueInv' /\ Len(accepted) <= Len(accepted')
      /\ \A i \in 1 .. Len(accepted) : accepted'[i] = accepted[i]
  BY <1>1, PutKeeps
<1>3. StreamTypeOK'
  BY <1>1, <1>2 DEF StreamTypeOK
<1>4. RoundInv'
  <2>1. SUFFICES ASSUME sending.todo # {}
                 PROVE  taken >= 1 /\ sending.entry = accepted'[taken]
    BY <1>1 DEF RoundInv
  <2>2. taken \in 1 .. Len(accepted) /\ sending.entry = accepted[taken]
    BY <2>1, Within DEF RoundInv
  <2> QED BY <1>2, <2>2
<1>5. SocketInv'
  BY <1>1 DEF SocketInv, StreamTypeOK
<1>6. StreamContiguous'
  <2>1. ASSUME NEW d \in Clients, d # c
        PROVE  \A i \in 1 .. Len(received[d]) : received[d][i] = accepted'[joined[d] + i]
    BY <1>2, Within DEF StreamContiguous
  <2>2. ASSUME NEW d \in Clients, d # c
        PROVE  joined'[d] = joined[d] /\ socket'[d] = socket[d]
    BY <1>1, <2>2 DEF StreamTypeOK
  <2>3. Len(received[c]) = 0 /\ joined'[c] = taken /\ Passed(c) = taken /\ taken \in Nat
    BY <1>1 DEF SocketInv, StreamTypeOK, Passed
  <2>4. ASSUME NEW d \in Clients
        PROVE  Passed(d)' = Passed(d)
    BY <1>1 DEF Passed
  <2> QED BY <1>1, <2>1, <2>2, <2>3, <2>4 DEF StreamContiguous
<1> QED BY <1>2, <1>3, <1>4, <1>5, <1>6

(* The loop takes the oldest entry: the next one to be sent to everybody.  *)
LEMMA TakeIInv ==
  ASSUME IInv, Take
  PROVE  IInv'
<1> USE DEF IInv
<1>1. /\ sending = Idle /\ queue # <<>>
      /\ queue' = Tail(queue) /\ taken' = taken + 1
      /\ Round(Head(queue), clients, {})
      /\ UNCHANGED <<api, attached, socket, logged, accepted, joined, received>>
  BY DEF Take
<1>2. /\ queue \in Seq(Nat) /\ accepted \in Seq(Nat) /\ taken \in Nat
      /\ Len(queue) <= QueueSize /\ QueueSize \in Nat
      /\ clients \in SUBSET Clients
  BY LSAssumption DEF StreamTypeOK
<1>3. /\ Head(queue) \in Nat /\ Head(queue) = queue[1] /\ Len(queue) >= 1
      /\ Tail(queue) \in Seq(Nat) /\ Len(Tail(queue)) = Len(queue) - 1
      /\ \A i \in 1 .. Len(Tail(queue)) : Tail(queue)[i] = queue[i + 1]
  BY <1>1, <1>2
<1>4. /\ sending' \in [entry : Nat, todo : SUBSET Clients, dead : SUBSET Clients]
      /\ sending'.todo = clients /\ sending'.dead = {}
      /\ clients # {} => sending'.entry = Head(queue)
      /\ clients' = clients
  <2>1. /\ sending' \in [entry : Nat, todo : SUBSET Clients, dead : SUBSET Clients]
        /\ sending'.todo = clients /\ sending'.dead \subseteq {}
        /\ clients # {} => sending'.entry = Head(queue)
        /\ clients \ {} \subseteq clients' /\ clients' \subseteq clients
    <3>1. Head(queue) \in Nat /\ clients \in SUBSET Clients /\ {} \in SUBSET Clients
      BY <1>2, <1>3
    <3>2. StreamTypeOK /\ Round(Head(queue), clients, {})
      BY <1>1
    <3> QED BY <3>1, <3>2, RoundKeeps
  <2> QED BY <2>1
<1>5. StreamTypeOK'
  BY <1>1, <1>2, <1>3, <1>4 DEF StreamTypeOK
<1>6. QueueInv'
  <2>1. \A i \in 1 .. Len(queue') : queue'[i] = accepted'[taken' + i]
    <3>1. ASSUME NEW i \in 1 .. Len(queue')
          PROVE  i + 1 \in 1 .. Len(queue) /\ queue'[i] = queue[i + 1]
      <4>1. Len(queue) \in Nat
        BY <1>2
      <4> QED BY <1>1, <1>3, <4>1
    <3>2. ASSUME NEW i \in 1 .. Len(queue')
          PROVE  taken' + i = taken + (i + 1)
      BY <1>1, <1>2
    <3> QED BY <1>1, <3>1, <3>2 DEF QueueInv
  <2>2. Len(queue) \in Nat /\ taken \in Nat /\ Len(queue') = Len(queue) - 1
    BY <1>1, <1>2, <1>3
  <2>3. Len(accepted') = taken' + Len(queue')
    <3>1. Len(accepted) = taken + Len(queue) /\ taken' = taken + 1 /\ accepted' = accepted
      BY <1>1 DEF QueueInv
    <3> QED BY <2>2, <3>1
  <2> QED BY <2>1, <2>3 DEF QueueInv
<1>7. RoundInv'
  <2>1. queue[1] = accepted[taken + 1]
    BY <1>2, <1>3 DEF QueueInv
  <2> QED BY <1>1, <1>2, <1>3, <1>4, <2>1 DEF RoundInv
<1>8. SocketInv'
  BY <1>1, <1>4 DEF SocketInv
<1>9. StreamContiguous'
  <2>1. ASSUME NEW c \in Clients
        PROVE  /\ Passed(c) = taken
               /\ Passed(c)' \in {taken, taken + 1}
               /\ c \in clients => Passed(c)' = taken
    BY <1>1, <1>2, <1>4 DEF Passed, Idle
  <2>2. ASSUME NEW c \in Clients
        PROVE  socket[c] = "open" => c \in clients
    BY DEF SocketInv
  <2>3. ASSUME NEW c \in Clients
        PROVE  /\ Len(received[c]) <= Passed(c)' - joined[c]
               /\ socket[c] = "open" => Len(received[c]) = Passed(c)' - joined[c]
    <3>1. joined[c] \in Nat /\ Len(received[c]) \in Nat
      BY Within
    <3>2. /\ Len(received[c]) <= Passed(c) - joined[c]
          /\ socket[c] = "open" => Len(received[c]) = Passed(c) - joined[c]
      BY DEF StreamContiguous
    <3>3. Len(received[c]) <= Passed(c)' - joined[c]
      <4>1. Passed(c) \in Nat /\ Passed(c)' \in Nat /\ Passed(c) <= Passed(c)'
        BY <1>2, <2>1
      <4> HIDE DEF IInv
      <4> QED BY <3>1, <3>2, <4>1
    <3>4. socket[c] = "open" => Len(received[c]) = Passed(c)' - joined[c]
      <4>1. socket[c] = "open" => Passed(c)' = Passed(c)
        BY <2>1, <2>2
      <4> HIDE DEF IInv
      <4> QED BY <3>2, <4>1
    <3> QED BY <3>3, <3>4
  <2> QED BY <1>1, <2>3 DEF StreamContiguous
<1> QED BY <1>5, <1>6, <1>7, <1>8, <1>9

(* A send that reaches nobody concerns a client that is not there.         *)
LEMMA SkipIInv ==
  ASSUME IInv, NEW c \in Clients, c \in sending.todo, socket[c] \in {"gone", "closed"},
         NEW dead \in SUBSET Clients, \A d \in dead : socket[d] = "closed",
         Round(sending.entry, sending.todo \ {c}, dead),
         UNCHANGED <<api, attached, queue, socket, logged, ghosts>>
  PROVE  IInv'
<1> USE DEF IInv, ghosts
<1>1. /\ sending.entry \in Nat /\ sending.todo \ {c} \in SUBSET Clients /\ taken \in Nat
      /\ clients \in SUBSET Clients
  BY DEF StreamTypeOK
<1>2. /\ sending' \in [entry : Nat, todo : SUBSET Clients, dead : SUBSET Clients]
      /\ sending'.todo = sending.todo \ {c} /\ sending'.dead \subseteq dead
      /\ sending.todo \ {c} # {} => sending'.entry = sending.entry
      /\ clients \ dead \subseteq clients' /\ clients' \subseteq clients
  BY <1>1, RoundKeeps
<1>3. StreamTypeOK'
  BY <1>1, <1>2 DEF StreamTypeOK
<1>4. QueueInv'
  BY DEF QueueInv
<1>5. RoundInv'
  BY <1>2 DEF RoundInv
<1>6. SocketInv'
  BY <1>2 DEF SocketInv
<1>7. StreamContiguous'
  <2>1. ASSUME NEW d \in Clients
        PROVE  /\ Passed(d)' \in Int /\ Passed(d) <= Passed(d)'
               /\ d # c => Passed(d)' = Passed(d)
    BY <1>1, <1>2 DEF Passed
  <2>2. ASSUME NEW d \in Clients
        PROVE  /\ Len(received[d]) <= Passed(d)' - joined[d]
               /\ socket[d] = "open" => Len(received[d]) = Passed(d)' - joined[d]
    <3>1. joined[d] \in Nat /\ Len(received[d]) \in Nat /\ Passed(d) \in Int
      BY Within
    <3>2. /\ Len(received[d]) <= Passed(d) - joined[d]
          /\ socket[d] = "open" => Len(received[d]) = Passed(d) - joined[d]
      BY DEF StreamContiguous
    <3> QED BY <2>1, <3>1, <3>2
  <2> QED BY <2>2 DEF StreamContiguous
<1> QED BY <1>3, <1>4, <1>5, <1>6, <1>7

(* A client that is sent an entry has received all that precede it.        *)
LEMMA SendIInv ==
  ASSUME IInv, NEW c \in Clients, Send(c)
  PROVE  IInv'
<1> USE DEF IInv
<1>1. /\ c \in sending.todo /\ socket[c] = "open"
      /\ received' = [received EXCEPT ![c] = Append(received[c], sending.entry)]
      /\ Round(sending.entry, sending.todo \ {c}, sending.dead)
      /\ UNCHANGED <<api, attached, queue, socket, logged, accepted, taken, joined>>
  BY DEF Send, Sending
<1>2. /\ sending.entry \in Nat /\ sending.todo \ {c} \in SUBSET Clients /\ taken \in Nat
      /\ sending.dead \in SUBSET Clients /\ clients \in SUBSET Clients
      /\ received \in [Clients -> Seq(Nat)]
  BY DEF StreamTypeOK
<1>3. /\ sending' \in [entry : Nat, todo : SUBSET Clients, dead : SUBSET Clients]
      /\ sending'.todo = sending.todo \ {c} /\ sending'.dead \subseteq sending.dead
      /\ sending.todo \ {c} # {} => sending'.entry = sending.entry
      /\ clients \ sending.dead \subseteq clients' /\ clients' \subseteq clients
  BY <1>1, <1>2, RoundKeeps
<1>4. /\ received'[c] \in Seq(Nat) /\ Len(received'[c]) = Len(received[c]) + 1
      /\ received'[c][Len(received[c]) + 1] = sending.entry
      /\ \A i \in 1 .. Len(received[c]) : received'[c][i] = received[c][i]
      /\ \A d \in Clients : d # c => received'[d] = received[d]
      /\ received' \in [Clients -> Seq(Nat)]
  BY <1>1, <1>2, Appended
<1>5. StreamTypeOK'
  BY <1>1, <1>2, <1>3, <1>4 DEF StreamTypeOK
<1>6. QueueInv'
  BY <1>1 DEF QueueInv
<1>7. RoundInv'
  BY <1>1, <1>3 DEF RoundInv
<1>8. SocketInv'
  BY <1>1, <1>3, <1>4 DEF SocketInv
<1>9. StreamContiguous'
  <2>1. ASSUME NEW d \in Clients, d # c
        PROVE  Passed(d)' = Passed(d)
    BY <1>1, <1>3, <2>1 DEF Passed
  <2>2. Passed(c) = taken - 1 /\ Passed(c)' = taken
    BY <1>1, <1>3 DEF Passed
  <2>3. /\ Len(received[c]) \in Nat /\ joined[c] \in Nat
        /\ Len(received[c]) = taken - 1 - joined[c]
    <3>1. Len(received[c]) \in Nat /\ joined[c] \in Nat
      BY Within
    <3>2. Len(received[c]) = Passed(c) - joined[c]
      BY <1>1 DEF StreamContiguous
    <3> QED BY <2>2, <3>1, <3>2
  <2>4. sending.entry = accepted[joined[c] + Len(received[c]) + 1]
    <3>1. joined[c] + Len(received[c]) + 1 = taken
      <4>1. taken \in Nat
        BY <1>2
      <4> QED BY <2>3, <4>1
    <3> QED BY <1>1, <3>1 DEF RoundInv
  <2>5. \A i \in 1 .. Len(received'[c]) : received'[c][i] = accepted[joined[c] + i]
    <3>1. SUFFICES ASSUME NEW i \in 1 .. Len(received'[c])
                   PROVE  received'[c][i] = accepted[joined[c] + i]
      OBVIOUS
    <3>2. CASE i = Len(received[c]) + 1
      <4>1. joined[c] + i = joined[c] + Len(received[c]) + 1
        BY <2>3, <3>2
      <4> QED BY <1>4, <2>4, <3>2, <4>1
    <3>3. CASE i # Len(received[c]) + 1
      <4>1. i \in 1 .. Len(received[c])
        BY <1>4, <2>3, <3>1, <3>3
      <4> QED BY <1>4, <4>1 DEF StreamContiguous
    <3> QED BY <3>2, <3>3
  <2>6. Len(received'[c]) = Passed(c)' - joined[c]
    BY <1>2, <1>4, <2>2, <2>3
  <2>7. Len(received'[c]) <= Passed(c)' - joined[c]
    BY <1>2, <2>2, <2>3, <2>6
  <2>8. ASSUME NEW d \in Clients, d # c
        PROVE  received'[d] = received[d] /\ Passed(d)' = Passed(d)
    BY <1>4, <2>1, <2>8
  <2> QED BY <1>1, <2>5, <2>6, <2>7, <2>8 DEF StreamContiguous
<1> QED BY <1>5, <1>6, <1>7, <1>8, <1>9

(* Leaving, and being noticed, only loosens what is said of a client.      *)
LEMMA LeaveIInv ==
  ASSUME IInv, NEW c \in Clients, Leave(c) \/ Notice(c)
  PROVE  IInv'
<1> USE DEF IInv, ghosts
<1>1. PICK s \in {"gone", "closed"} :
        /\ socket' = [socket EXCEPT ![c] = s]
        /\ socket[c] \in {"open", "gone"}
        /\ UNCHANGED <<api, attached, queue, clients, sending, logged, ghosts>>
  BY DEF Leave, Notice
<1>2. StreamTypeOK'
  BY <1>1 DEF StreamTypeOK
<1>3. QueueInv' /\ RoundInv'
  BY <1>1 DEF QueueInv, RoundInv
<1>4. SocketInv'
  BY <1>1 DEF SocketInv, StreamTypeOK
<1>5. StreamContiguous'
  <2>1. ASSUME NEW d \in Clients
        PROVE  /\ socket'[d] = "open" => socket[d] = "open"
               /\ Passed(d)' = Passed(d)
    BY <1>1 DEF StreamTypeOK, Passed
  <2> QED BY <1>1, <2>1 DEF StreamContiguous
<1> QED BY <1>2, <1>3, <1>4, <1>5

(* Every step of the stream keeps the invariant.                           *)
LEMMA StreamStepIInv ==
  ASSUME IInv, StreamStep
  PROVE  IInv'
<1>1. CASE Emit
  BY <1>1, EmitIInv
<1>2. CASE Take
  BY <1>2, TakeIInv
<1>3. ASSUME NEW c \in Clients,
             Connect(c) \/ Send(c) \/ SendInVain(c) \/ SendFails(c) \/ Leave(c) \/ Notice(c)
      PROVE  IInv'
  <2>1. CASE Connect(c)
    BY <2>1, ConnectIInv
  <2>2. CASE Send(c)
    BY <2>2, SendIInv
  <2>3. CASE SendInVain(c)
    <3>1. sending.dead \in SUBSET Clients /\ \A d \in sending.dead : socket[d] = "closed"
      BY DEF IInv, StreamTypeOK, SocketInv
    <3> QED BY <2>3, <3>1, SkipIInv DEF SendInVain, Sending
  <2>4. CASE SendFails(c)
    <3>1. /\ sending.dead \union {c} \in SUBSET Clients
          /\ \A d \in sending.dead \union {c} : socket[d] = "closed"
      BY <2>4 DEF IInv, StreamTypeOK, SocketInv, SendFails
    <3> QED BY <2>4, <3>1, SkipIInv DEF SendFails, Sending
  <2>5. CASE Leave(c) \/ Notice(c)
    BY <2>5, LeaveIInv
  <2> QED BY <1>3, <2>1, <2>2, <2>3, <2>4, <2>5
<1> QED BY <1>1, <1>2, <1>3 DEF StreamStep

-----------------------------------------------------------------------------
(* What start.py does to the API process is one of its lives, as is what   *)
(* it does to the bridge.                                                  *)
LEMMA AfterIsALife ==
  ASSUME NEW life \in Lives, NEW signal
  PROVE  L!After(life, signal) \subseteq Lives
BY DEF Lives, L!After

LauncherTypeOK ==
  /\ main \in L!Waits \union {"stopping", "goodbye", "left"}
  /\ mode \in {"full", "mcp_only", "api_only"}
  /\ procs \subseteq {"bridge", "api"}
  /\ bridge \in Lives /\ api \in Lives
  /\ pipe \in 0 .. PipeSize /\ stuck \in BOOLEAN /\ ctrl_c \in BOOLEAN

(* Every step of start.py and of the bridge keeps their types.             *)
LEMMA LauncherStepType ==
  ASSUME LauncherTypeOK, L!LauncherStep
  PROVE  LauncherTypeOK'
<1> USE DEF LauncherTypeOK, L!launcherVars, L!bridgeVars
<1>1. CASE L!Sleeps
  <2>1. CASE L!StartBridge
    BY <2>1 DEF L!StartBridge, L!Waits, Lives
  <2>2. CASE L!BridgeStarted
    BY <2>2 DEF L!BridgeStarted, L!Waits
  <2>3. CASE L!StartApi
    BY <2>3 DEF L!StartApi, L!Waits, Lives
  <2>4. CASE L!ApiStarted
    BY <2>4 DEF L!ApiStarted, L!Waits
  <2>5. CASE L!Browse
    BY <2>5 DEF L!Browse, L!Waits
  <2>6. CASE L!Kill
    BY <2>6 DEF L!Kill, Lives
  <2> QED BY <1>1, <2>1, <2>2, <2>3, <2>4, <2>5, <2>6 DEF L!Sleeps
<1>2. CASE L!AllEnded
  BY <1>2 DEF L!AllEnded
<1>3. ASSUME NEW toAll \in BOOLEAN, L!Interrupt(toAll)
      PROVE  LauncherTypeOK'
  <2>1. bridge' \in Lives /\ api' \in Lives
    BY <1>3, AfterIsALife DEF L!Interrupt
  <2> QED BY <1>3, <2>1 DEF L!Interrupt
<1>4. ASSUME NEW toAll \in BOOLEAN, L!InterruptAgain(toAll)
      PROVE  LauncherTypeOK'
  <2>1. bridge' \in Lives /\ api' \in Lives
    BY <1>4, AfterIsALife DEF L!InterruptAgain
  <2> QED BY <1>4, <2>1 DEF L!InterruptAgain
<1>5. CASE L!Write
  <2>1. pipe \in 0 .. PipeSize /\ (pipe' = pipe \/ (pipe < PipeSize /\ pipe' = pipe + 1))
    BY <1>5 DEF L!Write
  <2>2. pipe' \in 0 .. PipeSize
    BY <2>1, SAssumption
  <2>3. stuck' \in BOOLEAN
    BY <1>5 DEF L!Write
  <2> QED BY <1>5, <2>2, <2>3 DEF L!Write
<1>6. CASE L!BridgeUp \/ L!BridgeExits \/ L!BridgeFails \/ L!ApiFails
  BY <1>6 DEF L!BridgeUp, L!BridgeExits, L!BridgeFails, L!ApiFails, Lives
<1> QED BY <1>1, <1>2, <1>3, <1>4, <1>5, <1>6 DEF L!LauncherStep

(* Startup and exit, as the process itself has them.                       *)
LEMMA OutsideType ==
  ASSUME IInv, Outside \/ Startup \/ Exit
  PROVE  IInv'
<1>1. api' \in Lives /\ UNCHANGED streamVars
  BY DEF Outside, Startup, Exit, Lives
<1> QED BY <1>1, OutsideIInv

-----------------------------------------------------------------------------
(* The log stream alone: whatever happens to its process, and whenever     *)
(* clients come and go, each receives what was accepted since it came,     *)
(* without a gap, a repetition or a change of order.                       *)
THEOREM StreamIsContiguous == Spec => [](StreamTypeOK /\ StreamContiguous)
<1>1. Init => IInv
  BY InitIInv DEF Init, Lives
<1>2. IInv /\ [Next]_vars => IInv'
  <2>1. IInv /\ UNCHANGED vars => IInv'
    BY OutsideIInv DEF vars, IInv, StreamTypeOK, Lives
  <2>2. IInv /\ Next => IInv'
    BY StreamStepIInv, OutsideType DEF Next
  <2> QED BY <2>1, <2>2
<1>3. IInv => StreamTypeOK /\ StreamContiguous
  BY DEF IInv
<1> QED BY <1>1, <1>2, <1>3, PTL DEF Spec

(* The service: the same under everything that start.py does, and types.   *)
THEOREM ServiceInvariant == ServiceSpec => [](IInv /\ LauncherTypeOK)
<1>1. ServiceInit => IInv /\ LauncherTypeOK
  <2>1. ServiceInit => IInv
    BY InitIInv DEF ServiceInit, L!Init, Lives
  <2>2. ServiceInit => LauncherTypeOK
    <3>1. ServiceInit => pipe \in 0 .. PipeSize
      BY SAssumption DEF ServiceInit, L!Init
    <3> QED BY <3>1 DEF ServiceInit, L!Init, L!Waits, LauncherTypeOK, Lives
  <2> QED BY <2>1, <2>2
<1>2. IInv /\ LauncherTypeOK /\ [ServiceNext]_serviceVars => IInv' /\ LauncherTypeOK'
  <2> SUFFICES ASSUME IInv, LauncherTypeOK, [ServiceNext]_serviceVars
               PROVE  IInv' /\ LauncherTypeOK'
    OBVIOUS
  <2>1. CASE L!LauncherStep /\ UNCHANGED streamVars
    <3>1. LauncherTypeOK'
      BY <2>1, LauncherStepType
    <3>2. api' \in Lives
      BY <3>1 DEF LauncherTypeOK
    <3> QED BY <2>1, <3>1, <3>2, OutsideIInv
  <2>2. CASE (StreamStep \/ Startup \/ Exit) /\ UNCHANGED launcherOnly
    <3>1. IInv'
      BY <2>2, StreamStepIInv, OutsideType
    <3>2. LauncherTypeOK'
      BY <2>2, <3>1 DEF launcherOnly, LauncherTypeOK, IInv, StreamTypeOK, Lives
    <3> QED BY <3>1, <3>2
  <2>3. CASE UNCHANGED serviceVars
    <3>1. UNCHANGED streamVars /\ UNCHANGED launcherOnly /\ UNCHANGED api
      BY <2>3 DEF serviceVars, vars
    <3>2. LauncherTypeOK'
      BY <3>1 DEF launcherOnly, LauncherTypeOK
    <3>3. api' \in Lives
      BY <3>2 DEF LauncherTypeOK
    <3> QED BY <3>1, <3>2, <3>3, OutsideIInv
  <2> QED BY <2>1, <2>2, <2>3 DEF ServiceNext
<1> QED BY <1>1, <1>2, PTL DEF ServiceSpec

(* No step of the launcher takes the service out of its types.             *)
THEOREM TypeCorrect == ServiceSpec => []TypeOK
<1>1. IInv /\ LauncherTypeOK => TypeOK
  BY DEF IInv, LauncherTypeOK, TypeOK, Lives
<1> QED BY <1>1, ServiceInvariant, PTL

(* Signals and crashes, whenever they come, leave no gap either.           *)
THEOREM ServiceStreamContiguous == ServiceSpec => []StreamContiguous
<1>1. IInv => StreamContiguous
  BY DEF IInv
<1> QED BY <1>1, ServiceInvariant, PTL
=============================================================================
