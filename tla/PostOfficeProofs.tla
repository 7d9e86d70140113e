-------------------------- MODULE PostOfficeProofs --------------------------
(***************************************************************************)
(* Every wakeup of the post office finds what it was sent for, and mail    *)
(* that the network does not lose is delivered once and in order, for any  *)
(* machines, mailboxes and threads.                                        *)
(*                                                                         *)
(* PostOfficeInv is inductive; it says in particular that the units of     *)
(* messageAvailable are the packets that wait in the network's buffer,     *)
(* from which DeliveredInOrder follows step by step.                       *)
(***************************************************************************)
EXTENDS PostOffice, SequenceTheorems, TLAPS

Threads == Senders \cup Receivers
Holders == Receivers \cup {postalWorker, NULL}
Stations == {"wait", "receive", "acquire", "append", "release"}

-----------------------------------------------------------------------------
(* Threads, functions and sequences *)

\* Senders, receivers, the postal worker, packets and NULL are different.
LEMMA Distinct ==
  /\ \A t \in Senders : t # NULL /\ t \notin Receivers
  /\ \A t \in Receivers : t # NULL /\ t # postalWorker /\ t \notin Senders
  /\ \A p \in Packets : p # NULL
  /\ postalWorker # NULL
  BY PostOfficeAssumption

\* A step of a thread moves its own pc.
LEMMA GotoIsOwn ==
  ASSUME TypeOK, NEW t \in Threads, NEW place \in Places, Goto(t, place)
  PROVE  /\ pc' \in [Threads -> Places] /\ pc'[t] = place
         /\ \A u \in Threads \ {t} : pc'[u] = pc[u]
  BY DEF TypeOK, Goto, Threads

\* A step of a postal worker moves its own place.
LEMMA WorkIsOwn ==
  ASSUME TypeOK, NEW m \in Machines, NEW from, NEW place \in Stations, Work(m, from, place)
  PROVE  /\ worker' \in [Machines -> Stations] /\ worker[m] = from /\ worker'[m] = place
         /\ \A n \in Machines \ {m} : worker'[n] = worker[n]
  BY DEF TypeOK, Work, Stations

\* Taking or freeing the lock of a mailbox.
LEMMA LockIsOwn ==
  ASSUME TypeOK, NEW m \in Machines, NEW b \in Boxes, NEW h \in Holders,
         boxLock' = [boxLock EXCEPT ![m][b] = h]
  PROVE  /\ boxLock' \in [Machines -> [Boxes -> Holders]]
         /\ \A n \in Machines, c \in Boxes :
              boxLock'[n][c] = IF n = m /\ c = b THEN h ELSE boxLock[n][c]
  BY Zenon DEF TypeOK, Holders

\* Changing the list of a mailbox.
LEMMA BoxIsOwn ==
  ASSUME TypeOK, NEW m \in Machines, NEW b \in Boxes, NEW list \in Seq(Packets),
         boxes' = [boxes EXCEPT ![m][b] = list]
  PROVE  /\ boxes' \in [Machines -> [Boxes -> Seq(Packets)]]
         /\ \A n \in Machines, c \in Boxes :
              boxes'[n][c] = IF n = m /\ c = b THEN list ELSE boxes[n][c]
  BY Zenon DEF TypeOK

\* Changing the list of what has been taken from a mailbox.
LEMMA TakenIsOwn ==
  ASSUME TypeOK, NEW m \in Machines, NEW b \in Boxes, NEW list \in Seq(Packets),
         taken' = [taken EXCEPT ![m][b] = list]
  PROVE  /\ taken' \in [Machines -> [Boxes -> Seq(Packets)]]
         /\ \A n \in Machines, c \in Boxes :
              taken'[n][c] = IF n = m /\ c = b THEN list ELSE taken[n][c]
  BY Zenon DEF TypeOK

\* The machine and the mailbox of a call.
LEMMA Addresses ==
  ASSUME TypeOK, NEW t \in Threads
  PROVE  home[t] \in Machines /\ to[t][1] \in Machines /\ to[t][2] \in Boxes
  BY PostOfficeAssumption, Zenon DEF TypeOK, Threads

\* The packet of a postal worker that has one.
LEMMA MailHasBox ==
  ASSUME TypeOK, MailIsThere, NEW m \in Machines, worker[m] \notin {"wait", "receive"}
  PROVE  mail[m] \in Packets /\ mail[m].to \in Boxes
<1>1. mail[m] \in Packets
  BY DEF TypeOK, MailIsThere
<1> QED BY <1>1 DEF Packets

\* The packets of a list.
LEMMA PacketLists ==
  ASSUME NEW list \in Seq(Packets), NEW p \in Packets
  PROVE  /\ Append(list, p) \in Seq(Packets) /\ Append(list, p) # <<>>
         /\ list # <<>> => Head(list) \in Packets /\ Tail(list) \in Seq(Packets)
  BY AppendProperties, HeadTailProperties

\* A call and a step of Send change nothing of the mailboxes and of other threads.
LEMMA SendFrame ==
  ASSUME TypeOK, NEW t \in Senders,
         SendStep(t) \/ \E m \in Machines, b \in Boxes : CallSend(t, m, b)
  PROVE  /\ UNCHANGED <<messageAvailable, inbox, worker, mail, boxes, boxLock, delivered>>
         /\ \A u \in Threads \ {t} : pc'[u] = pc[u] /\ to'[u] = to[u] /\ packet'[u] = packet[u]
<1> USE DEF sendVars, arriveVars, workVars, boxVars, threadVars, history
<1>0. /\ pc \in [Threads -> Places] /\ packet \in [Threads -> Packets \cup {NULL}]
      /\ to \in [Threads -> Machines \X Boxes]
  BY Zenon DEF TypeOK, Threads
<1>1. ASSUME NEW m \in Machines, NEW b \in Boxes, CallSend(t, m, b)
      PROVE  /\ UNCHANGED <<messageAvailable, inbox, worker, mail, boxes, boxLock, delivered>>
             /\ \A u \in Threads \ {t} : pc'[u] = pc[u] /\ to'[u] = to[u] /\ packet'[u] = packet[u]
  BY <1>0, <1>1, ZenonT(60) DEF CallSend, Goto
<1>2. ASSUME SendStep(t)
      PROVE  UNCHANGED <<messageAvailable, inbox, worker, mail, boxes, boxLock, delivered, to, packet>>
  BY <1>2, Zenon DEF SendStep, AcquireSend, NetworkSend, AwaitSent, ReleaseSend
<1>3. ASSUME SendStep(t) PROVE \E place : pc' = [pc EXCEPT ![t] = place]
  BY <1>3, Zenon DEF SendStep, AcquireSend, NetworkSend, AwaitSent, ReleaseSend, Goto
<1>4. ASSUME SendStep(t) PROVE \A u \in Threads \ {t} : pc'[u] = pc[u]
  BY <1>0, <1>3, <1>4
<1> QED BY <1>1, <1>2, <1>4, Zenon

\* A step of a machine changes nothing of the threads and of other machines.
LEMMA WorkFrame ==
  ASSUME TypeOK, NEW m \in Machines, SendDone(m) \/ CheckPktAvail(m) \/ WorkerStep(m)
  PROVE  UNCHANGED <<sendLock, pc, packet, to, carried>>
<1> USE DEF sendVars, arriveVars, workVars, boxVars, threadVars, history
<1>1. CASE SendDone(m)
  BY <1>1, Zenon DEF SendDone
<1>2. CASE CheckPktAvail(m)
  BY <1>2, Zenon DEF CheckPktAvail
<1>3. CASE WorkerStep(m)
  BY <1>3, Zenon DEF WorkerStep, AwaitMessage, NetworkReceive, AcquirePut, Put, ReleasePut
<1> QED BY <1>1, <1>2, <1>3

\* A call and a step of Receive change nothing of Send, of the network and of other threads.
LEMMA ReceiveFrame ==
  ASSUME TypeOK, NEW t \in Receivers, ReceiveStep(t) \/ \E b \in Boxes : CallReceive(t, b)
  PROVE  /\ UNCHANGED <<sendDone, messageSent, sendLock, messageAvailable, socket, inbox,
                        worker, mail, carried, delivered>>
         /\ \A u \in Threads \ {t} : pc'[u] = pc[u] /\ to'[u] = to[u] /\ packet'[u] = packet[u]
<1> USE DEF sendVars, arriveVars, workVars, boxVars, threadVars, history
<1>0. /\ pc \in [Threads -> Places] /\ packet \in [Threads -> Packets \cup {NULL}]
      /\ to \in [Threads -> Machines \X Boxes]
  BY Zenon DEF TypeOK, Threads
<1>1. UNCHANGED <<sendDone, messageSent, sendLock, messageAvailable, socket, inbox,
                  worker, mail, carried, delivered>>
  BY Zenon DEF ReceiveStep, CallReceive, AcquireGet, Wait, LeaveLoop, Get, ReleaseGet
<1>2. \E place : pc' = [pc EXCEPT ![t] = place]
  BY Zenon DEF ReceiveStep, CallReceive, AcquireGet, Wait, LeaveLoop, Get, ReleaseGet, Goto
<1>3. to' = to \/ \E where : to' = [to EXCEPT ![t] = where]
  BY Zenon DEF ReceiveStep, CallReceive, AcquireGet, Wait, LeaveLoop, Get, ReleaseGet
<1>4. packet' = packet \/ \E p : packet' = [packet EXCEPT ![t] = p]
  BY Zenon DEF ReceiveStep, CallReceive, AcquireGet, Wait, LeaveLoop, Get, ReleaseGet
<1>5. \A u \in Threads \ {t} : pc'[u] = pc[u]
  BY <1>0, <1>2
<1>6. \A u \in Threads \ {t} : to'[u] = to[u]
  BY <1>0, <1>3
<1>7. \A u \in Threads \ {t} : packet'[u] = packet[u]
  BY <1>0, <1>4
<1> QED BY <1>1, <1>5, <1>6, <1>7, Zenon

-----------------------------------------------------------------------------
(* Types *)

\* The constructors.
LEMMA InitInv == Init => PostOfficeInv /\ DeliveredInOrder
<1> SUFFICES ASSUME Init PROVE PostOfficeInv /\ DeliveredInOrder
  OBVIOUS
<1> USE DEF Init, NetworkInit, SynchListInit
<1>1. TypeOK
  <2>1. <<>> \in Seq(Packets) /\ "idle" \in Places
    BY DEF Places
  <2>2. to \in [Senders \cup Receivers -> Machines \X Boxes]
    BY PostOfficeAssumption
  <2> HIDE DEF Packets, Places
  <2>3. /\ sendDone \in [Machines -> Nat] /\ messageSent \in [Machines -> Nat]
        /\ messageAvailable \in [Machines -> Nat] /\ count \in [Senders -> Nat]
    OBVIOUS
  <2>4. /\ socket \in [Machines -> Seq(Packets)] /\ carried \in [Machines -> Seq(Packets)]
        /\ delivered \in [Machines -> Seq(Packets)]
        /\ boxes \in [Machines -> [Boxes -> Seq(Packets)]]
        /\ taken \in [Machines -> [Boxes -> Seq(Packets)]]
    BY <2>1
  <2>5. /\ sendLock \in [Machines -> Senders \cup {NULL}]
        /\ boxLock \in [Machines -> [Boxes -> Receivers \cup {postalWorker, NULL}]]
        /\ inbox \in [Machines -> Packets \cup {NULL}]
        /\ mail \in [Machines -> Packets \cup {NULL}]
        /\ packet \in [Senders \cup Receivers -> Packets \cup {NULL}]
    OBVIOUS
  <2>6. /\ pc \in [Senders \cup Receivers -> Places]
        /\ worker \in [Machines -> {"wait", "receive", "acquire", "append", "release"}]
    BY <2>1
  <2> QED BY <2>2, <2>3, <2>4, <2>5, <2>6 DEF TypeOK
<1>2. HoldersAreInside /\ MailIsThere
  BY Distinct, PostOfficeAssumption DEF HoldersAreInside, MailIsThere
<1>3. OneSend /\ UnitMeansPacket /\ RemoveFindsMail
  BY DEF OneSend, UnitMeansPacket, RemoveFindsMail
<1>4. DeliveredInOrder
  <2> SUFFICES ASSUME NEW m \in Machines PROVE <<>> = ((<<>> \o <<>>) \o <<>>) \o <<>>
    BY Zenon DEF DeliveredInOrder, One
  <2> QED OBVIOUS
<1> QED BY <1>1, <1>2, <1>3, <1>4 DEF PostOfficeInv

\* The steps of Send keep the types.
LEMMA SendType ==
  ASSUME TypeOK, MailIsThere, NEW t \in Senders,
         SendStep(t) \/ \E m \in Machines, b \in Boxes : CallSend(t, m, b)
  PROVE  TypeOK'
<1> USE DEF sendVars, arriveVars, workVars, boxVars, threadVars, history
<1>0. t \in Threads /\ {"idle", "acquire", "send", "sent", "release"} \subseteq Places
  BY DEF Threads, Places
<1>1. ASSUME NEW m \in Machines, NEW b \in Boxes, CallSend(t, m, b) PROVE TypeOK'
  <2>1. pc' \in [Senders \cup Receivers -> Places]
    BY <1>0, <1>1, GotoIsOwn, Zenon DEF CallSend, Threads
  <2>2. count' \in [Senders -> Nat] /\ count[t] + 1 \in Nat
    <3>1. count \in [Senders -> Nat]
      BY DEF TypeOK
    <3>2. count' = [count EXCEPT ![t] = count[t] + 1]
      BY <1>1 DEF CallSend
    <3> QED BY <3>1, <3>2
  <2>3. [from |-> t, n |-> count[t] + 1, to |-> b] \in Packets
    BY <2>2 DEF Packets
  <2>4. packet' \in [Senders \cup Receivers -> Packets \cup {NULL}]
    BY <1>1, <2>3 DEF CallSend, TypeOK
  <2>5. to' \in [Senders \cup Receivers -> Machines \X Boxes]
    BY <1>1, ZenonT(60) DEF CallSend, TypeOK
  <2> QED BY <1>1, <2>1, <2>2, <2>4, <2>5, Zenon DEF CallSend, TypeOK
<1>2. CASE AcquireSend(t)
  <2>1. pc' \in [Senders \cup Receivers -> Places]
    BY <1>0, <1>2, GotoIsOwn, Zenon DEF AcquireSend, Threads
  <2>2. sendLock' \in [Machines -> Senders \cup {NULL}]
    BY <1>2, Zenon DEF AcquireSend, TypeOK
  <2> QED BY <1>2, <2>1, <2>2, Zenon DEF AcquireSend, TypeOK
<1>3. CASE NetworkSend(t)
  <2>1. pc' \in [Senders \cup Receivers -> Places]
    BY <1>0, <1>3, GotoIsOwn, Zenon DEF NetworkSend, Threads
  <2>2. sendDone' \in [Machines -> Nat]
    <3>1. sendDone \in [Machines -> Nat]
      BY Zenon DEF TypeOK
    <3>2. sendDone' = [sendDone EXCEPT ![home[t]] = @ + 1] /\ home[t] \in Machines
      BY <1>0, <1>3, Addresses DEF NetworkSend
    <3> QED BY <3>1, <3>2
  <2>3. packet[t] \in Packets
    BY <1>0, <1>3 DEF NetworkSend, TypeOK, MailIsThere
  <2>4. /\ Append(socket[to[t][1]], packet[t]) \in Seq(Packets)
        /\ Append(carried[to[t][1]], packet[t]) \in Seq(Packets)
    BY <1>0, <2>3, Addresses, PacketLists, SMTT(30) DEF TypeOK
  <2>5. socket' \in [Machines -> Seq(Packets)] /\ carried' \in [Machines -> Seq(Packets)]
    <3>1. socket \in [Machines -> Seq(Packets)] /\ carried \in [Machines -> Seq(Packets)]
      BY SMTT(30) DEF TypeOK
    <3>2. \/ /\ socket' = [socket EXCEPT ![to[t][1]] = Append(socket[to[t][1]], packet[t])]
             /\ carried' = [carried EXCEPT ![to[t][1]] = Append(carried[to[t][1]], packet[t])]
          \/ UNCHANGED <<socket, carried>>
      BY <1>3 DEF NetworkSend
    <3>3. to[t][1] \in Machines
      BY <1>0, Addresses
    <3>4. CASE UNCHANGED <<socket, carried>>
      BY <3>1, <3>4
    <3>5. CASE /\ socket' = [socket EXCEPT ![to[t][1]] = Append(socket[to[t][1]], packet[t])]
               /\ carried' = [carried EXCEPT ![to[t][1]] = Append(carried[to[t][1]], packet[t])]
      BY <2>4, <3>1, <3>3, <3>5
    <3> QED BY <3>2, <3>4, <3>5
  <2> QED BY <1>3, <2>1, <2>2, <2>5, Zenon DEF NetworkSend, TypeOK
<1>4. CASE AwaitSent(t)
  <2>1. pc' \in [Senders \cup Receivers -> Places]
    BY <1>0, <1>4, GotoIsOwn, Zenon DEF AwaitSent, Threads
  <2>2. messageSent' \in [Machines -> Nat]
    <3>1. messageSent \in [Machines -> Nat]
      BY DEF TypeOK
    <3>2. /\ messageSent[home[t]] > 0 /\ home[t] \in Machines
          /\ messageSent' = [messageSent EXCEPT ![home[t]] = @ - 1]
      BY <1>0, <1>4, Addresses DEF AwaitSent
    <3> QED BY <3>1, <3>2
  <2> QED BY <1>4, <2>1, <2>2, Zenon DEF AwaitSent, TypeOK
<1>5. CASE ReleaseSend(t)
  <2>1. pc' \in [Senders \cup Receivers -> Places]
    BY <1>0, <1>5, GotoIsOwn, Zenon DEF ReleaseSend, Threads
  <2>2. sendLock' \in [Machines -> Senders \cup {NULL}]
    BY <1>5, Zenon DEF ReleaseSend, TypeOK
  <2> QED BY <1>5, <2>1, <2>2, Zenon DEF ReleaseSend, TypeOK
<1> QED BY <1>1, <1>2, <1>3, <1>4, <1>5 DEF SendStep

\* The interrupts and the postal worker keep the types.
LEMMA WorkType ==
  ASSUME TypeOK, MailIsThere, NEW m \in Machines,
         SendDone(m) \/ CheckPktAvail(m) \/ WorkerStep(m)
  PROVE  TypeOK'
<1> USE DEF sendVars, arriveVars, workVars, boxVars, threadVars, history
<1>1. CASE SendDone(m)
  <2>1. sendDone' \in [Machines -> Nat] /\ messageSent' \in [Machines -> Nat]
    BY <1>1 DEF SendDone, PacketSent, TypeOK
  <2> QED BY <1>1, <2>1, Zenon DEF SendDone, TypeOK
<1>2. CASE CheckPktAvail(m)
  <2>1. messageAvailable' \in [Machines -> Nat]
    BY <1>2, SMTT(60) DEF CheckPktAvail, IncomingPacket, TypeOK
  <2>2. Head(socket[m]) \in Packets /\ Tail(socket[m]) \in Seq(Packets)
    BY <1>2, HeadTailProperties DEF CheckPktAvail, TypeOK
  <2>3. /\ inbox' \in [Machines -> Packets \cup {NULL}]
        /\ socket' \in [Machines -> Seq(Packets)]
    BY <1>2, <2>2 DEF CheckPktAvail, TypeOK
  <2> QED BY <1>2, <2>1, <2>3, Zenon DEF CheckPktAvail, TypeOK
<1>3. CASE AwaitMessage(m)
  <2>1. messageAvailable' \in [Machines -> Nat]
    BY <1>3 DEF AwaitMessage, TypeOK
  <2>2. worker' \in [Machines -> Stations]
    BY <1>3, WorkIsOwn DEF AwaitMessage, Stations
  <2> QED BY <1>3, <2>1, <2>2, Zenon DEF AwaitMessage, TypeOK, Stations
<1>4. CASE NetworkReceive(m)
  <2>1. /\ inbox' \in [Machines -> Packets \cup {NULL}]
        /\ mail' \in [Machines -> Packets \cup {NULL}]
    BY <1>4 DEF NetworkReceive, TypeOK
  <2>2. worker' \in [Machines -> Stations]
    BY <1>4, WorkIsOwn DEF NetworkReceive, Stations
  <2> QED BY <1>4, <2>1, <2>2, Zenon DEF NetworkReceive, TypeOK, Stations
<1>5. CASE AcquirePut(m)
  <2>1. worker[m] = "acquire" /\ worker' \in [Machines -> Stations]
    BY <1>5, WorkIsOwn DEF AcquirePut, Stations
  <2>2. boxLock' \in [Machines -> [Boxes -> Holders]]
    BY <1>5, <2>1, MailHasBox, LockIsOwn, Zenon DEF AcquirePut, Holders
  <2> QED BY <1>5, <2>1, <2>2, Zenon DEF AcquirePut, TypeOK, Stations, Holders
<1>6. CASE Put(m)
  <2>1. worker[m] = "append" /\ worker' \in [Machines -> Stations]
    BY <1>6, WorkIsOwn DEF Put, Stations
  <2>2. mail[m] \in Packets /\ mail[m].to \in Boxes
    BY <2>1, MailHasBox
  <2>3. /\ Append(boxes[m][mail[m].to], mail[m]) \in Seq(Packets)
        /\ Append(delivered[m], mail[m]) \in Seq(Packets)
    BY <2>2, PacketLists DEF TypeOK
  <2>4. boxes' = [boxes EXCEPT ![m][mail[m].to] = Append(boxes[m][mail[m].to], mail[m])]
    BY <1>6 DEF Put, TypeOK
  <2>5. boxes' \in [Machines -> [Boxes -> Seq(Packets)]]
    BY <2>2, <2>3, <2>4, BoxIsOwn, Zenon
  <2>6. delivered' \in [Machines -> Seq(Packets)]
    BY <1>6, <2>3 DEF Put, TypeOK
  <2> QED BY <1>6, <2>1, <2>5, <2>6, Zenon DEF Put, TypeOK, Stations
<1>7. CASE ReleasePut(m)
  <2>1. worker[m] = "release" /\ worker' \in [Machines -> Stations]
    BY <1>7, WorkIsOwn DEF ReleasePut, Stations
  <2>2. boxLock' \in [Machines -> [Boxes -> Holders]]
    BY <1>7, <2>1, MailHasBox, LockIsOwn, Zenon DEF ReleasePut, Holders
  <2>3. mail' \in [Machines -> Packets \cup {NULL}]
    BY <1>7 DEF ReleasePut, TypeOK
  <2> QED BY <1>7, <2>1, <2>2, <2>3, Zenon DEF ReleasePut, TypeOK, Stations, Holders
<1> QED BY <1>1, <1>2, <1>3, <1>4, <1>5, <1>6, <1>7 DEF WorkerStep

\* The steps of Receive keep the types.
LEMMA ReceiveType ==
  ASSUME TypeOK, RemoveFindsMail, NEW t \in Receivers,
         ReceiveStep(t) \/ \E b \in Boxes : CallReceive(t, b)
  PROVE  TypeOK'
<1> USE DEF sendVars, arriveVars, workVars, boxVars, threadVars, history
<1>0. t \in Threads /\ {"idle", "acquire", "test", "remove", "release"} \subseteq Places
  BY DEF Threads, Places
<1>1. home[t] \in Machines /\ to[t][2] \in Boxes
  BY <1>0, Addresses
<1>2. ASSUME NEW b \in Boxes, CallReceive(t, b) PROVE TypeOK'
  <2>1. pc' \in [Senders \cup Receivers -> Places]
    BY <1>0, <1>2, GotoIsOwn, SMTT(60) DEF CallReceive, Threads
  <2>2. to' \in [Senders \cup Receivers -> Machines \X Boxes]
    <3>1. to' = [to EXCEPT ![t] = <<home[t], b>>] /\ <<home[t], b>> \in Machines \X Boxes
      BY <1>1, <1>2 DEF CallReceive
    <3> QED BY <3>1, Zenon DEF TypeOK
  <2> QED BY <1>2, <2>1, <2>2, Zenon DEF CallReceive, TypeOK
<1>3. CASE AcquireGet(t)
  <2>1. pc' \in [Senders \cup Receivers -> Places]
    BY <1>0, <1>3, GotoIsOwn, Zenon DEF AcquireGet, Threads
  <2>2. boxLock' \in [Machines -> [Boxes -> Holders]]
    BY <1>1, <1>3, LockIsOwn, Zenon DEF AcquireGet, Holders
  <2> QED BY <1>3, <2>1, <2>2, Zenon DEF AcquireGet, TypeOK, Holders
<1>4. CASE Wait(t)
  <2>1. pc' \in [Senders \cup Receivers -> Places]
    BY <1>0, <1>4, GotoIsOwn, Zenon DEF Wait, Threads
  <2>2. boxLock' \in [Machines -> [Boxes -> Holders]]
    BY <1>1, <1>4, LockIsOwn, Zenon DEF Wait, Holders
  <2> QED BY <1>4, <2>1, <2>2, Zenon DEF Wait, TypeOK, Holders
<1>5. CASE LeaveLoop(t)
  <2>1. pc' \in [Senders \cup Receivers -> Places]
    BY <1>0, <1>5, GotoIsOwn, Zenon DEF LeaveLoop, Threads
  <2> QED BY <1>5, <2>1, Zenon DEF LeaveLoop, TypeOK
<1>6. CASE Get(t)
  <2> DEFINE list == boxes[home[t]][to[t][2]]
  <2>1. pc' \in [Senders \cup Receivers -> Places]
    BY <1>0, <1>6, GotoIsOwn, Zenon DEF Get, Threads
  <2>2. list \in Seq(Packets) /\ list # <<>>
    BY <1>1, <1>6, ZenonT(60) DEF TypeOK, RemoveFindsMail, Get
  <2>3. Head(list) \in Packets /\ Tail(list) \in Seq(Packets)
    BY <2>2, HeadTailProperties
  <2>4. boxes' = [boxes EXCEPT ![home[t]][to[t][2]] = Tail(list)]
    BY <1>6 DEF Get, TypeOK
  <2>5. boxes' \in [Machines -> [Boxes -> Seq(Packets)]]
    BY <1>1, <2>3, <2>4, BoxIsOwn, Zenon
  <2>6. packet' \in [Senders \cup Receivers -> Packets \cup {NULL}]
    BY <1>6, <2>3, Zenon DEF Get, TypeOK
  <2>7. taken' \in [Machines -> [Boxes -> Seq(Packets)]]
    <3>1. Append(taken[home[t]][to[t][2]], Head(list)) \in Seq(Packets)
      BY <1>1, <2>3, AppendProperties, SMTT(60) DEF TypeOK
    <3>2. taken' = [taken EXCEPT ![home[t]][to[t][2]] = Append(taken[home[t]][to[t][2]], Head(list))]
      BY <1>6 DEF Get, TypeOK
    <3> QED BY <1>1, <3>1, <3>2, TakenIsOwn, ZenonT(60)
  <2> QED BY <1>6, <2>1, <2>5, <2>6, <2>7, Zenon DEF Get, TypeOK
<1>7. CASE ReleaseGet(t)
  <2>1. pc' \in [Senders \cup Receivers -> Places]
    BY <1>0, <1>7, GotoIsOwn, Zenon DEF ReleaseGet, Threads
  <2>2. boxLock' \in [Machines -> [Boxes -> Holders]]
    BY <1>1, <1>7, LockIsOwn, Zenon DEF ReleaseGet, Holders
  <2> QED BY <1>7, <2>1, <2>2, Zenon DEF ReleaseGet, TypeOK, Holders
<1> QED BY <1>2, <1>3, <1>4, <1>5, <1>6, <1>7 DEF ReceiveStep

-----------------------------------------------------------------------------
(* Locks and packets in hand *)

\* Every step keeps the holders of the locks between Acquire and Release.
LEMMA HoldersStep ==
  ASSUME TypeOK, TypeOK', HoldersAreInside, MailIsThere, Next
  PROVE  HoldersAreInside'
<1> USE DEF sendVars, arriveVars, workVars, boxVars, threadVars, history
<1> DEFINE
      SendLocks == \A t \in Senders : pc[t] \in {"send", "sent", "release"} <=> sendLock[home[t]] = t
      GetLocks == \A t \in Receivers :
                    pc[t] \in {"test", "remove", "release"} => boxLock[home[t]][to[t][2]] = t
      PutLocks == \A m \in Machines :
                    worker[m] \in {"append", "release"} => boxLock[m][mail[m].to] = postalWorker
<1>0. /\ \A t \in Threads : home[t] \in Machines /\ to[t][2] \in Boxes
      /\ Places = {"idle", "acquire", "send", "sent", "test", "remove", "release"}
      /\ Senders \subseteq Threads /\ Receivers \subseteq Threads
  BY Addresses DEF Threads, Places
<1>1. \A m \in Machines : worker[m] \in {"append", "release"} => mail[m].to \in Boxes
  BY MailHasBox, SMTT(60)
<1>2. SUFFICES SendLocks' /\ GetLocks' /\ PutLocks'
  BY DEF HoldersAreInside
<1>3. SendLocks /\ GetLocks /\ PutLocks
  BY Zenon DEF HoldersAreInside
<1>4. ASSUME NEW t \in Senders, SendStep(t) \/ \E m \in Machines, b \in Boxes : CallSend(t, m, b)
      PROVE  SendLocks' /\ GetLocks' /\ PutLocks'
  <2>1. UNCHANGED <<boxLock, worker, mail>> /\ \A u \in Threads \ {t} : to'[u] = to[u]
    BY <1>4, SendFrame, Zenon
  <2>2. \A u \in Threads \ {t} : pc'[u] = pc[u]
    BY <1>4, SendFrame, Zenon
  <2>3. GetLocks' /\ PutLocks'
    BY <1>0, <1>3, <2>1, <2>2, Distinct, SMTT(30)
  <2>4. CASE AcquireSend(t)
    <3>1. pc[t] = "acquire" /\ pc'[t] = "send" /\ sendLock[home[t]] = NULL
      BY <1>0, <2>4, GotoIsOwn, Zenon DEF AcquireSend
    <3>2. \A m \in Machines : sendLock'[m] = IF m = home[t] THEN t ELSE sendLock[m]
      BY <2>4, Zenon DEF AcquireSend, TypeOK
    <3> QED BY <1>0, <1>3, <2>2, <2>3, <3>1, <3>2, Distinct, SMTT(30)
  <2>5. CASE ReleaseSend(t)
    <3>1. pc[t] = "release" /\ pc'[t] = "idle"
      BY <1>0, <2>5, GotoIsOwn, Zenon DEF ReleaseSend
    <3>2. \A m \in Machines : sendLock'[m] = IF m = home[t] THEN NULL ELSE sendLock[m]
      BY <2>5, Zenon DEF ReleaseSend, TypeOK
    <3> QED BY <1>0, <1>3, <2>2, <2>3, <3>1, <3>2, Distinct, SMTT(30)
  <2>6. CASE NetworkSend(t) \/ AwaitSent(t)
    <3>1. /\ pc[t] \in {"send", "sent"} /\ pc'[t] \in {"sent", "release"}
          /\ sendLock' = sendLock
      BY <1>0, <2>6, GotoIsOwn DEF NetworkSend, AwaitSent
    <3> QED BY <1>0, <1>3, <2>2, <2>3, <3>1, ZenonT(60)
  <2>7. CASE \E m \in Machines, b \in Boxes : CallSend(t, m, b)
    <3>1. pc[t] = "idle" /\ pc'[t] = "acquire" /\ sendLock' = sendLock
      BY <1>0, <2>7, GotoIsOwn DEF CallSend
    <3> QED BY <1>0, <1>3, <2>2, <2>3, <3>1
  <2> QED BY <1>4, <2>4, <2>5, <2>6, <2>7, Zenon DEF SendStep
<1>5. ASSUME NEW m \in Machines, SendDone(m) \/ CheckPktAvail(m) \/ AwaitMessage(m) \/ NetworkReceive(m)
      PROVE  SendLocks' /\ GetLocks' /\ PutLocks'
  <2>1. UNCHANGED <<sendLock, boxLock, pc, to>>
    BY <1>5, Zenon DEF SendDone, CheckPktAvail, AwaitMessage, NetworkReceive
  <2>2. CASE UNCHANGED <<worker, mail>>
    BY <1>3, <2>1, <2>2
  <2>3. CASE AwaitMessage(m)
    <3>1. /\ worker'[m] = "receive" /\ mail' = mail
          /\ \A n \in Machines \ {m} : worker'[n] = worker[n]
      BY <2>3, WorkIsOwn DEF AwaitMessage, Stations
    <3> QED BY <1>3, <2>1, <3>1
  <2>4. CASE NetworkReceive(m)
    <3>1. worker'[m] = "acquire" /\ \A n \in Machines \ {m} : worker'[n] = worker[n]
      BY <2>4, WorkIsOwn DEF NetworkReceive, Stations
    <3>2. mail \in [Machines -> Packets \cup {NULL}] /\ mail' = [mail EXCEPT ![m] = inbox[m]]
      BY <2>4, Zenon DEF NetworkReceive, TypeOK
    <3>3. \A n \in Machines \ {m} : mail'[n] = mail[n]
      BY <3>2
    <3> QED BY <1>3, <2>1, <3>1, <3>3
  <2> QED BY <1>5, <2>2, <2>3, <2>4, Zenon DEF SendDone, CheckPktAvail
<1>6. ASSUME NEW m \in Machines, AcquirePut(m) PROVE SendLocks' /\ GetLocks' /\ PutLocks'
  <2> DEFINE b == mail[m].to
  <2>1. /\ UNCHANGED <<sendLock, pc, to, mail>> /\ boxLock[m][b] = NULL
        /\ boxLock' = [boxLock EXCEPT ![m][b] = postalWorker] /\ worker[m] = "acquire"
        /\ \A n \in Machines \ {m} : worker'[n] = worker[n]
    BY <1>6, WorkIsOwn DEF AcquirePut, Stations
  <2>2. b \in Boxes
    BY <2>1, MailHasBox
  <2>3. \A n \in Machines, c \in Boxes :
          boxLock'[n][c] = IF n = m /\ c = b THEN postalWorker ELSE boxLock[n][c]
    <3>1. boxLock \in [Machines -> [Boxes -> Holders]]
      BY DEF TypeOK, Holders
    <3> QED BY <2>1, <2>2, <3>1
  <2> HIDE DEF b
  <2>4. SendLocks' /\ GetLocks'
    BY <1>0, <1>3, <2>1, <2>3, Distinct
  <2>5. PutLocks'
    BY <1>1, <1>3, <2>1, <2>2, <2>3 DEF b
  <2> QED BY <2>4, <2>5
<1>7. ASSUME NEW m \in Machines, Put(m) PROVE SendLocks' /\ GetLocks' /\ PutLocks'
  <2>1. /\ UNCHANGED <<sendLock, pc, to, mail, boxLock>> /\ worker[m] = "append"
        /\ \A n \in Machines \ {m} : worker'[n] = worker[n]
    BY <1>7, WorkIsOwn DEF Put, Stations
  <2> QED BY <1>3, <2>1
<1>8. ASSUME NEW m \in Machines, ReleasePut(m) PROVE SendLocks' /\ GetLocks' /\ PutLocks'
  <2> DEFINE b == mail[m].to
  <2>1. /\ UNCHANGED <<sendLock, pc, to>> /\ boxLock' = [boxLock EXCEPT ![m][b] = NULL]
        /\ worker[m] = "release" /\ worker'[m] = "wait"
        /\ \A n \in Machines \ {m} : worker'[n] = worker[n] /\ mail'[n] = mail[n]
    <3>1. mail \in [Machines -> Packets \cup {NULL}]
      BY DEF TypeOK
    <3>2. mail' = [mail EXCEPT ![m] = NULL]
      BY <1>8 DEF ReleasePut
    <3>3. \A n \in Machines \ {m} : mail'[n] = mail[n]
      BY <3>1, <3>2
    <3> QED BY <1>8, <3>3, WorkIsOwn DEF ReleasePut, Stations
  <2>2. b \in Boxes /\ boxLock[m][b] = postalWorker
    BY <1>1, <1>3, <2>1, SMTT(60)
  <2>3. \A n \in Machines, c \in Boxes :
          boxLock'[n][c] = IF n = m /\ c = b THEN NULL ELSE boxLock[n][c]
    <3>1. boxLock \in [Machines -> [Boxes -> Holders]]
      BY DEF TypeOK, Holders
    <3> QED BY <2>1, <2>2, <3>1, SMTT(60)
  <2> HIDE DEF b
  <2>4. SendLocks' /\ GetLocks'
    BY <1>0, <1>3, <2>1, <2>2, <2>3, Distinct, SMTT(60)
  <2>5. PutLocks'
    BY <1>1, <1>3, <2>1, <2>3, SMTT(30)
  <2> QED BY <2>4, <2>5
<1>9. ASSUME NEW t \in Receivers, ReceiveStep(t) \/ \E b \in Boxes : CallReceive(t, b)
      PROVE  SendLocks' /\ GetLocks' /\ PutLocks'
  <2> DEFINE h == home[t]  c == to[t][2]
  <2>0. h \in Machines /\ c \in Boxes /\ t \in Threads
    BY <1>0, ZenonT(60)
  <2>1. UNCHANGED <<sendLock, worker, mail>> /\ \A u \in Threads \ {t} : to'[u] = to[u]
    BY <1>9, ReceiveFrame
  <2>2. \A u \in Threads \ {t} : pc'[u] = pc[u]
    BY <1>9, ReceiveFrame
  <2>3. SendLocks'
    BY <1>0, <1>3, <2>1, <2>2, Distinct
  <2>4. CASE AcquireGet(t)
    <3>1. /\ pc'[t] = "test" /\ to' = to /\ boxLock[h][c] = NULL
          /\ boxLock' = [boxLock EXCEPT ![h][c] = t]
      BY <1>0, <2>4, GotoIsOwn DEF AcquireGet
    <3>2. \A n \in Machines, d \in Boxes :
            boxLock'[n][d] = IF n = h /\ d = c THEN t ELSE boxLock[n][d]
      <4>1. boxLock \in [Machines -> [Boxes -> Holders]]
        BY SMTT(60) DEF TypeOK, Holders
      <4> QED BY <2>0, <3>1, <4>1
    <3> HIDE DEF h, c
    <3>3. GetLocks'
      BY <1>0, <1>3, <2>2, <3>1, <3>2, Distinct, SMTT(60) DEF h, c
    <3>4. PutLocks'
      BY <1>1, <1>3, <2>1, <3>1, <3>2, Distinct, SMTT(30)
    <3> QED BY <2>3, <3>3, <3>4
  <2>5. CASE Wait(t) \/ ReleaseGet(t)
    <3>1. /\ pc[t] \in {"test", "release"} /\ pc'[t] \in {"acquire", "idle"} /\ to' = to
          /\ boxLock' = [boxLock EXCEPT ![h][c] = NULL]
      BY <1>0, <2>5, GotoIsOwn, Zenon DEF Wait, ReleaseGet
    <3>2. \A n \in Machines, d \in Boxes :
            boxLock'[n][d] = IF n = h /\ d = c THEN NULL ELSE boxLock[n][d]
      <4>1. boxLock \in [Machines -> [Boxes -> Holders]]
        BY DEF TypeOK, Holders
      <4> QED BY <2>0, <3>1, <4>1
    <3>3. boxLock[h][c] = t
      BY <1>3, <3>1
    <3> HIDE DEF h, c
    <3>4. GetLocks'
      BY <1>0, <1>3, <2>2, <3>1, <3>2, <3>3
    <3>5. PutLocks'
      BY <1>1, <1>3, <2>1, <3>1, <3>2, <3>3, Distinct
    <3> QED BY <2>3, <3>4, <3>5
  <2>6. CASE LeaveLoop(t) \/ Get(t)
    <3>1. pc[t] \in {"test", "remove"} /\ to' = to /\ boxLock' = boxLock
      BY <2>6 DEF LeaveLoop, Get
    <3> QED BY <1>0, <1>3, <2>1, <2>2, <2>3, <3>1, ZenonT(60)
  <2>7. CASE \E b \in Boxes : CallReceive(t, b)
    <3>1. pc'[t] = "acquire" /\ boxLock' = boxLock
      BY <1>0, <2>7, GotoIsOwn, ZenonT(60) DEF CallReceive
    <3> QED BY <1>0, <1>3, <2>1, <2>2, <2>3, <3>1, SMTT(30)
  <2> QED BY <1>9, <2>4, <2>5, <2>6, <2>7 DEF ReceiveStep
<1> QED BY <1>4, <1>5, <1>6, <1>7, <1>8, <1>9 DEF Next, WorkerStep

\* Every step keeps the packets in hand.
LEMMA MailStep ==
  ASSUME TypeOK, MailIsThere, UnitMeansPacket, Next
  PROVE  MailIsThere'
<1> USE DEF sendVars, arriveVars, workVars, boxVars, threadVars, history
<1> DEFINE SendersHave == \A t \in Senders : pc[t] # "idle" => packet[t] # NULL
           WorkersHave == \A m \in Machines : mail[m] # NULL <=> worker[m] \notin {"wait", "receive"}
<1>0. /\ Places = {"idle", "acquire", "send", "sent", "test", "remove", "release"}
      /\ Senders \subseteq Threads /\ Receivers \subseteq Threads
  BY Zenon DEF Threads, Places
<1>1. SUFFICES SendersHave' /\ WorkersHave'
  BY DEF MailIsThere
<1>2. SendersHave /\ WorkersHave
  BY DEF MailIsThere
<1>3. ASSUME NEW t \in Senders, NEW m \in Machines, NEW b \in Boxes, CallSend(t, m, b)
      PROVE  SendersHave' /\ WorkersHave'
  <2> DEFINE p == [from |-> t, n |-> count[t] + 1, to |-> b]
  <2>1. \A u \in Senders \ {t} : pc'[u] = pc[u] /\ packet'[u] = packet[u]
    BY <1>3, Zenon DEF CallSend, Goto, TypeOK
  <2>2. packet'[t] = p /\ UNCHANGED <<mail, worker>>
    BY <1>3 DEF CallSend, TypeOK
  <2>3. count[t] + 1 \in Nat
    <3>1. count \in [Senders -> Nat]
      BY DEF TypeOK
    <3> QED BY <3>1
  <2>4. p \in Packets
    BY <2>3 DEF Packets
  <2> HIDE DEF p
  <2>5. packet'[t] # NULL
    BY <2>2, <2>4, Distinct
  <2> QED BY <1>2, <2>1, <2>2, <2>5, Zenon
<1>4. ASSUME NEW t \in Senders, SendStep(t) PROVE SendersHave' /\ WorkersHave'
  <2>1. UNCHANGED <<packet, mail, worker>> /\ pc[t] # "idle"
    BY <1>4, Zenon DEF SendStep, AcquireSend, NetworkSend, AwaitSent, ReleaseSend
  <2>2. \A u \in Senders \ {t} : pc'[u] = pc[u]
    BY <1>0, <1>4, SendFrame, Zenon
  <2> QED BY <1>2, <2>1, <2>2
<1>5. ASSUME NEW m \in Machines, SendDone(m) \/ CheckPktAvail(m)
      PROVE  SendersHave' /\ WorkersHave'
  BY <1>2, <1>5 DEF SendDone, CheckPktAvail
<1>6. ASSUME NEW m \in Machines, AwaitMessage(m) \/ AcquirePut(m) \/ Put(m)
      PROVE  SendersHave' /\ WorkersHave'
  <2>1. UNCHANGED <<pc, packet, mail>>
    BY <1>6, Zenon DEF AwaitMessage, AcquirePut, Put
  <2>2. \A n \in Machines : worker'[n] \in {"wait", "receive"} <=> worker[n] \in {"wait", "receive"}
    <3>1. worker \in [Machines -> Stations]
      BY Zenon DEF TypeOK, Stations
    <3>2. \/ worker[m] = "wait" /\ worker' = [worker EXCEPT ![m] = "receive"]
          \/ worker[m] = "acquire" /\ worker' = [worker EXCEPT ![m] = "append"]
          \/ worker[m] = "append" /\ worker' = [worker EXCEPT ![m] = "release"]
      BY <1>6, Zenon DEF AwaitMessage, AcquirePut, Put, Work
    <3> QED BY <3>1, <3>2
  <2> QED BY <1>2, <2>1, <2>2
<1>7. ASSUME NEW m \in Machines, NetworkReceive(m) PROVE SendersHave' /\ WorkersHave'
  <2>1. /\ worker[m] = "receive" /\ worker'[m] = "acquire" /\ UNCHANGED <<pc, packet>>
        /\ \A n \in Machines \ {m} : worker'[n] = worker[n]
    BY <1>7, WorkIsOwn DEF NetworkReceive, Stations
  <2>2. mail'[m] = inbox[m] /\ \A n \in Machines \ {m} : mail'[n] = mail[n]
    BY <1>7 DEF NetworkReceive, TypeOK
  <2>3. inbox[m] # NULL
    <3>1. messageAvailable[m] \in Nat
      BY DEF TypeOK
    <3> QED BY <2>1, <3>1 DEF UnitMeansPacket
  <2> QED BY <1>2, <2>1, <2>2, <2>3
<1>8. ASSUME NEW m \in Machines, ReleasePut(m) PROVE SendersHave' /\ WorkersHave'
  <2>1. /\ worker'[m] = "wait" /\ UNCHANGED <<pc, packet>>
        /\ \A n \in Machines \ {m} : worker'[n] = worker[n]
    BY <1>8, WorkIsOwn DEF ReleasePut, Stations
  <2>2. mail'[m] = NULL /\ \A n \in Machines \ {m} : mail'[n] = mail[n]
    <3>1. mail \in [Machines -> Packets \cup {NULL}]
      BY DEF TypeOK
    <3> QED BY <1>8, <3>1 DEF ReleasePut
  <2> QED BY <1>2, <2>1, <2>2
<1>9. ASSUME NEW t \in Receivers, ReceiveStep(t) \/ \E b \in Boxes : CallReceive(t, b)
      PROVE  SendersHave' /\ WorkersHave'
  <2>1. UNCHANGED <<mail, worker>>
    BY <1>9, ReceiveFrame, SMTT(60)
  <2>2. \A u \in Senders : pc'[u] = pc[u] /\ packet'[u] = packet[u]
    BY <1>0, <1>9, ReceiveFrame, Distinct
  <2> QED BY <1>2, <2>1, <2>2
<1> QED BY <1>3, <1>4, <1>5, <1>6, <1>7, <1>8, <1>9 DEF Next, WorkerStep

-----------------------------------------------------------------------------
(* Wakeups *)

\* Every step keeps one end of a Send for the sender that waits.
LEMMA OneSendStep ==
  ASSUME TypeOK, HoldersAreInside, OneSend, Next
  PROVE  OneSend'
<1> USE DEF sendVars, arriveVars, workVars, boxVars, threadVars, history
<1> DEFINE Waits(m) == \E t \in Senders : home[t] = m /\ pc[t] = "sent"
<1>0. /\ Places = {"idle", "acquire", "send", "sent", "test", "remove", "release"}
      /\ \A t \in Senders : t \in Threads /\ home[t] \in Machines
  BY Addresses DEF Threads, Places
<1>1. \A m \in Machines : sendDone[m] \in Nat /\ messageSent[m] \in Nat
  BY DEF TypeOK
<1>2. ASSUME NEW t \in Senders, NetworkSend(t) PROVE OneSend'
  <2> DEFINE h == home[t]
  <2>1. /\ pc[t] = "send" /\ pc'[t] = "sent" /\ messageSent' = messageSent
        /\ \A u \in Senders \ {t} : pc'[u] = pc[u]
    BY <1>0, <1>2, GotoIsOwn DEF NetworkSend, Threads
  <2>2. \A m \in Machines : sendDone'[m] = IF m = h THEN sendDone[m] + 1 ELSE sendDone[m]
    <3>1. sendDone \in [Machines -> Nat] /\ sendDone' = [sendDone EXCEPT ![h] = @ + 1]
      BY <1>2, Zenon DEF NetworkSend, TypeOK
    <3> QED BY <3>1, Zenon
  <2>3. \A u \in Senders : home[u] = h => pc[u] # "sent"
    BY <2>1 DEF HoldersAreInside
  <2>4. ~Waits(h) /\ Waits(h)' /\ \A m \in Machines \ {h} : Waits(m)' <=> Waits(m)
    BY <2>1, <2>3
  <2> HIDE DEF h, Waits
  <2>5. OneSend' <=> \A m \in Machines :
                       sendDone'[m] + messageSent'[m] = IF Waits(m)' THEN 1 ELSE 0
    BY DEF OneSend, Waits
  <2>6. \A m \in Machines : sendDone[m] + messageSent[m] = IF Waits(m) THEN 1 ELSE 0
    BY Zenon DEF OneSend, Waits
  <2> QED BY <1>1, <2>1, <2>2, <2>4, <2>5, <2>6, SMTT(30)
<1>3. ASSUME NEW t \in Senders, AwaitSent(t) PROVE OneSend'
  <2> DEFINE h == home[t]
  <2>1. /\ pc[t] = "sent" /\ pc'[t] = "release" /\ sendDone' = sendDone
        /\ \A u \in Senders \ {t} : pc'[u] = pc[u]
    BY <1>0, <1>3, GotoIsOwn DEF AwaitSent, Threads
  <2>2. \A m \in Machines : messageSent'[m] = IF m = h THEN messageSent[m] - 1 ELSE messageSent[m]
    <3>1. messageSent \in [Machines -> Nat] /\ messageSent' = [messageSent EXCEPT ![h] = @ - 1]
      BY <1>3, Zenon DEF AwaitSent, TypeOK
    <3> QED BY <3>1
  <2>3. \A u \in Senders \ {t} : home[u] = h => pc[u] # "sent"
    BY <2>1 DEF HoldersAreInside
  <2>4. Waits(h) /\ ~Waits(h)' /\ \A m \in Machines \ {h} : Waits(m)' <=> Waits(m)
    BY <2>1, <2>3
  <2> HIDE DEF h, Waits
  <2>5. OneSend' <=> \A m \in Machines :
                       sendDone'[m] + messageSent'[m] = IF Waits(m)' THEN 1 ELSE 0
    BY DEF OneSend, Waits
  <2>6. \A m \in Machines : sendDone[m] + messageSent[m] = IF Waits(m) THEN 1 ELSE 0
    BY Zenon DEF OneSend, Waits
  <2> QED BY <1>1, <2>1, <2>2, <2>4, <2>5, <2>6
<1>4. ASSUME NEW m \in Machines, SendDone(m) PROVE OneSend'
  <2>1. pc' = pc /\ sendDone[m] > 0
    BY <1>4 DEF SendDone
  <2>2. /\ \A n \in Machines : sendDone'[n] = IF n = m THEN sendDone[n] - 1 ELSE sendDone[n]
        /\ \A n \in Machines : messageSent'[n] = IF n = m THEN messageSent[n] + 1 ELSE messageSent[n]
    BY <1>4, Zenon DEF SendDone, PacketSent, TypeOK
  <2>3. \A n \in Machines : sendDone'[n] + messageSent'[n] = sendDone[n] + messageSent[n]
    BY <1>1, <2>2
  <2> QED BY <2>1, <2>3 DEF OneSend
<1>5. ASSUME UNCHANGED <<sendDone, messageSent>>,
             \A t \in Senders : pc'[t] = "sent" <=> pc[t] = "sent"
      PROVE  OneSend'
  BY <1>5 DEF OneSend
<1>6. ASSUME NEW t \in Senders,
             AcquireSend(t) \/ ReleaseSend(t) \/ \E m \in Machines, b \in Boxes : CallSend(t, m, b)
      PROVE  OneSend'
  <2>1. UNCHANGED <<sendDone, messageSent>> /\ \A u \in Senders : pc'[u] = "sent" <=> pc[u] = "sent"
    <3>1. UNCHANGED <<sendDone, messageSent>>
      BY <1>6, Zenon DEF AcquireSend, ReleaseSend, CallSend
    <3>2. \A u \in Senders \ {t} : pc'[u] = pc[u]
      BY <1>0, <1>6, SendFrame, Zenon DEF SendStep
    <3>3. pc[t] # "sent" /\ pc'[t] # "sent"
      BY <1>0, <1>6, GotoIsOwn DEF AcquireSend, ReleaseSend, CallSend
    <3> QED BY <3>1, <3>2, <3>3
  <2> QED BY <1>5, <2>1
<1>7. ASSUME NEW m \in Machines, CheckPktAvail(m) \/ WorkerStep(m) PROVE OneSend'
  <2>1. UNCHANGED <<sendDone, messageSent, pc>>
    BY <1>7, Zenon DEF CheckPktAvail, WorkerStep, AwaitMessage, NetworkReceive, AcquirePut, Put,
                ReleasePut
  <2> QED BY <1>5, <2>1
<1>8. ASSUME NEW t \in Receivers, ReceiveStep(t) \/ \E b \in Boxes : CallReceive(t, b)
      PROVE  OneSend'
  <2>1. UNCHANGED <<sendDone, messageSent>>
    BY <1>8, ReceiveFrame, Zenon
  <2>2. \A u \in Senders : pc'[u] = pc[u]
    BY <1>0, <1>8, ReceiveFrame, Distinct, Zenon
  <2> QED BY <1>5, <2>1, <2>2, Zenon
<1> QED BY <1>2, <1>3, <1>4, <1>6, <1>7, <1>8 DEF Next, SendStep

\* Every step keeps a unit of messageAvailable, or the worker out of P, for the packet
\* in the buffer.
LEMMA UnitStep ==
  ASSUME TypeOK, UnitMeansPacket, Next
  PROVE  UnitMeansPacket'
<1> USE DEF sendVars, arriveVars, workVars, boxVars, threadVars, history
<1> DEFINE Took(m) == IF worker[m] = "receive" THEN 1 ELSE 0
           Has(m) == IF inbox[m] = NULL THEN 0 ELSE 1
<1>0. \A m \in Machines : messageAvailable[m] \in Nat
  BY DEF TypeOK
<1>1. \A m \in Machines : messageAvailable[m] + Took(m) = Has(m)
  BY Zenon DEF UnitMeansPacket
<1>2. SUFFICES \A m \in Machines : messageAvailable'[m] + Took(m)' = Has(m)'
  BY DEF UnitMeansPacket
<1>3. ASSUME UNCHANGED <<messageAvailable, inbox>>,
             \A m \in Machines : worker'[m] = "receive" <=> worker[m] = "receive"
      PROVE  \A m \in Machines : messageAvailable'[m] + Took(m)' = Has(m)'
  BY <1>1, <1>3
<1>4. ASSUME NEW m \in Machines, CheckPktAvail(m)
      PROVE  \A n \in Machines : messageAvailable'[n] + Took(n)' = Has(n)'
  <2>1. inbox[m] = NULL /\ worker' = worker
    BY <1>4 DEF CheckPktAvail
  <2>2. Head(socket[m]) \in Packets
    BY <1>4, HeadTailProperties DEF CheckPktAvail, TypeOK
  <2>3. inbox'[m] # NULL /\ \A n \in Machines \ {m} : inbox'[n] = inbox[n]
    <3>1. inbox \in [Machines -> Packets \cup {NULL}]
      BY Zenon DEF TypeOK
    <3>2. inbox' = [inbox EXCEPT ![m] = Head(socket[m])]
      BY <1>4, Zenon DEF CheckPktAvail
    <3> QED BY <2>2, <3>1, <3>2, Distinct
  <2>4. /\ messageAvailable'[m] = messageAvailable[m] + 1
        /\ \A n \in Machines \ {m} : messageAvailable'[n] = messageAvailable[n]
    BY <1>4 DEF CheckPktAvail, IncomingPacket, TypeOK
  <2> QED BY <1>0, <1>1, <2>1, <2>3, <2>4
<1>5. ASSUME NEW m \in Machines, AwaitMessage(m)
      PROVE  \A n \in Machines : messageAvailable'[n] + Took(n)' = Has(n)'
  <2>1. /\ worker[m] = "wait" /\ worker'[m] = "receive" /\ inbox' = inbox
        /\ \A n \in Machines \ {m} : worker'[n] = worker[n]
    BY <1>5, WorkIsOwn, SMTT(60) DEF AwaitMessage, Stations
  <2>2. /\ messageAvailable'[m] = messageAvailable[m] - 1
        /\ \A n \in Machines \ {m} : messageAvailable'[n] = messageAvailable[n]
    BY <1>5 DEF AwaitMessage, TypeOK
  <2> QED BY <1>0, <1>1, <2>1, <2>2, SMTT(60)
<1>6. ASSUME NEW m \in Machines, NetworkReceive(m)
      PROVE  \A n \in Machines : messageAvailable'[n] + Took(n)' = Has(n)'
  <2>1. /\ worker[m] = "receive" /\ worker'[m] = "acquire"
        /\ messageAvailable' = messageAvailable
        /\ \A n \in Machines \ {m} : worker'[n] = worker[n]
    BY <1>6, WorkIsOwn DEF NetworkReceive, Stations
  <2>2. inbox'[m] = NULL /\ \A n \in Machines \ {m} : inbox'[n] = inbox[n]
    BY <1>6, SMTT(60) DEF NetworkReceive, TypeOK
  <2> QED BY <1>0, <1>1, <2>1, <2>2
<1>7. ASSUME NEW m \in Machines, AcquirePut(m) \/ Put(m) \/ ReleasePut(m)
      PROVE  \A n \in Machines : messageAvailable'[n] + Took(n)' = Has(n)'
  <2>1. /\ UNCHANGED <<messageAvailable, inbox>>
        /\ \A n \in Machines : worker'[n] = "receive" <=> worker[n] = "receive"
    <3>1. UNCHANGED <<messageAvailable, inbox>>
      BY <1>7, Zenon DEF AcquirePut, Put, ReleasePut
    <3>2. worker \in [Machines -> Stations]
      BY Zenon DEF TypeOK, Stations
    <3>3. \/ worker[m] = "acquire" /\ worker' = [worker EXCEPT ![m] = "append"]
          \/ worker[m] = "append" /\ worker' = [worker EXCEPT ![m] = "release"]
          \/ worker[m] = "release" /\ worker' = [worker EXCEPT ![m] = "wait"]
      BY <1>7, Zenon DEF AcquirePut, Put, ReleasePut, Work
    <3> QED BY <3>1, <3>2, <3>3
  <2> QED BY <1>3, <2>1
<1>8. CASE UNCHANGED <<messageAvailable, inbox, worker>>
  BY <1>3, <1>8
<1>9. ASSUME NEW t \in Senders, SendStep(t) \/ \E m \in Machines, b \in Boxes : CallSend(t, m, b)
      PROVE  UNCHANGED <<messageAvailable, inbox, worker>>
  BY <1>9, SendFrame
<1>10. ASSUME NEW t \in Receivers, ReceiveStep(t) \/ \E b \in Boxes : CallReceive(t, b)
       PROVE  UNCHANGED <<messageAvailable, inbox, worker>>
  BY <1>10, ReceiveFrame
<1>11. ASSUME NEW m \in Machines, SendDone(m) PROVE UNCHANGED <<messageAvailable, inbox, worker>>
  BY <1>11, Zenon DEF SendDone
<1> QED BY <1>4, <1>5, <1>6, <1>7, <1>8, <1>9, <1>10, <1>11, Zenon DEF Next, WorkerStep

\* Every step keeps a message for the receiver that has left its loop.
LEMMA RemoveStep ==
  ASSUME TypeOK, HoldersAreInside, MailIsThere, RemoveFindsMail, Next
  PROVE  RemoveFindsMail'
<1> USE DEF sendVars, arriveVars, workVars, boxVars, threadVars, history
<1>0. /\ Places = {"idle", "acquire", "send", "sent", "test", "remove", "release"}
      /\ Receivers \subseteq Threads
      /\ \A t \in Threads : home[t] \in Machines /\ to[t][2] \in Boxes
  BY Addresses DEF Threads, Places
<1>1. ASSUME boxes' = boxes,
             \A t \in Receivers : pc'[t] = "remove" => pc[t] = "remove" /\ to'[t] = to[t]
      PROVE  RemoveFindsMail'
  BY <1>1, SMTT(60) DEF RemoveFindsMail
<1>2. ASSUME NEW t \in Senders, SendStep(t) \/ \E m \in Machines, b \in Boxes : CallSend(t, m, b)
      PROVE  RemoveFindsMail'
  <2>1. boxes' = boxes /\ \A u \in Receivers : pc'[u] = pc[u] /\ to'[u] = to[u]
    BY <1>0, <1>2, SendFrame, Distinct
  <2> QED BY <1>1, <2>1, Zenon
<1>3. ASSUME NEW m \in Machines, SendDone(m) \/ CheckPktAvail(m) \/ WorkerStep(m), ~Put(m)
      PROVE  RemoveFindsMail'
  <2>1. UNCHANGED <<boxes, pc, to>>
    BY <1>3, Zenon DEF SendDone, CheckPktAvail, WorkerStep, AwaitMessage, NetworkReceive,
                       AcquirePut, ReleasePut
  <2> QED BY <1>1, <2>1
<1>4. ASSUME NEW m \in Machines, Put(m) PROVE RemoveFindsMail'
  <2> DEFINE b == mail[m].to
             list == Append(boxes[m][b], mail[m])
  <2>1. worker[m] = "append" /\ UNCHANGED <<pc, to>>
    BY <1>4 DEF Put, Work
  <2>2. mail[m] \in Packets /\ b \in Boxes
    BY <2>1, MailHasBox
  <2>3. list \in Seq(Packets) /\ list # <<>>
    <3>1. boxes[m][b] \in Seq(Packets)
      BY <2>2 DEF TypeOK
    <3> QED BY <2>2, <3>1, PacketLists
  <2>4. boxes' = [boxes EXCEPT ![m][b] = list]
    BY <1>4 DEF Put
  <2> HIDE DEF b, list
  <2>5. \A n \in Machines, c \in Boxes :
          boxes'[n][c] = IF n = m /\ c = b THEN list ELSE boxes[n][c]
    <3>1. boxes \in [Machines -> [Boxes -> Seq(Packets)]]
      BY DEF TypeOK
    <3> QED BY <2>2, <2>4, <3>1
  <2> QED BY <1>0, <2>1, <2>3, <2>5 DEF RemoveFindsMail
<1>5. ASSUME NEW t \in Receivers, LeaveLoop(t) PROVE RemoveFindsMail'
  <2>1. /\ boxes' = boxes /\ to' = to /\ boxes[home[t]][to[t][2]] # <<>>
        /\ \A u \in Receivers \ {t} : pc'[u] = pc[u]
    BY <1>5 DEF LeaveLoop, Goto, TypeOK
  <2> QED BY <2>1, Zenon DEF RemoveFindsMail
<1>6. ASSUME NEW t \in Receivers, Get(t) PROVE RemoveFindsMail'
  <2> DEFINE h == home[t]  c == to[t][2]
  <2>1. /\ pc[t] = "remove" /\ pc'[t] = "release" /\ to' = to
        /\ \A u \in Receivers \ {t} : pc'[u] = pc[u]
    BY <1>0, <1>6, GotoIsOwn DEF Get
  <2>2. \A n \in Machines, d \in Boxes : n # h \/ d # c => boxes'[n][d] = boxes[n][d]
    <3>1. boxes \in [Machines -> [Boxes -> Seq(Packets)]]
      BY ZenonT(60) DEF TypeOK
    <3>2. boxes' = [boxes EXCEPT ![h][c] = Tail(boxes[h][c])]
      BY <1>6 DEF Get
    <3> HIDE DEF h, c
    <3> QED BY <3>1, <3>2
  <2>3. \A u \in Receivers \ {t} : pc[u] = "remove" => home[u] # h \/ to[u][2] # c
    BY <2>1, SMTT(60) DEF HoldersAreInside
  <2> HIDE DEF h, c
  <2> QED BY <1>0, <2>1, <2>2, <2>3, SMTT(30) DEF RemoveFindsMail
<1>7. ASSUME NEW t \in Receivers,
             AcquireGet(t) \/ Wait(t) \/ ReleaseGet(t) \/ \E b \in Boxes : CallReceive(t, b)
      PROVE  RemoveFindsMail'
  <2>1. boxes' = boxes /\ \A u \in Receivers \ {t} : pc'[u] = pc[u] /\ to'[u] = to[u]
    <3>1. boxes' = boxes
      BY <1>7, ZenonT(60) DEF AcquireGet, Wait, ReleaseGet, CallReceive
    <3> QED BY <1>0, <1>7, <3>1, ReceiveFrame DEF ReceiveStep
  <2>2. pc'[t] \in {"test", "acquire", "idle"}
    BY <1>0, <1>7, GotoIsOwn DEF AcquireGet, Wait, ReleaseGet, CallReceive
  <2> QED BY <1>1, <2>1, <2>2, SMTT(30)
<1> QED BY <1>2, <1>3, <1>4, <1>5, <1>6, <1>7 DEF Next, WorkerStep, ReceiveStep

\* Every step keeps the invariant.
LEMMA NextInv == PostOfficeInv /\ [Next]_vars => PostOfficeInv'
<1> SUFFICES ASSUME PostOfficeInv, [Next]_vars PROVE PostOfficeInv'
  OBVIOUS
<1> USE DEF PostOfficeInv
<1>1. CASE Next
  <2>1. TypeOK'
    BY <1>1, SendType, WorkType, ReceiveType DEF Next
  <2> QED BY <1>1, <2>1, HoldersStep, MailStep, OneSendStep, UnitStep, RemoveStep
<1>2. CASE UNCHANGED vars
  <2> USE <1>2 DEF vars, sendVars, arriveVars, workVars, boxVars, threadVars, history
  <2>1. TypeOK'
    BY Zenon DEF TypeOK
  <2>2. HoldersAreInside' /\ MailIsThere'
    BY Zenon DEF HoldersAreInside, MailIsThere
  <2>3. OneSend' /\ UnitMeansPacket' /\ RemoveFindsMail'
    BY Zenon DEF OneSend, UnitMeansPacket, RemoveFindsMail
  <2> QED BY <2>1, <2>2, <2>3, Zenon
<1> QED BY <1>1, <1>2

-----------------------------------------------------------------------------
(* The order of delivery *)

\* Moving the first element of a list to the one before.
LEMMA HeadMoves ==
  ASSUME NEW s \in Seq(Packets), NEW q \in Seq(Packets), q # <<>>
  PROVE  (s \o <<>>) \o q = (s \o <<Head(q)>>) \o Tail(q)
<1> DEFINE h == <<Head(q)>>
<1>1. Head(q) \in Packets /\ Tail(q) \in Seq(Packets) /\ h \in Seq(Packets)
  BY HeadTailProperties
<1>2. /\ h \o Tail(q) \in Seq(Packets) /\ Len(h \o Tail(q)) = Len(h) + Len(Tail(q))
      /\ \A k \in 1 .. Len(h) + Len(Tail(q)) :
           (h \o Tail(q))[k] = IF k <= Len(h) THEN h[k] ELSE Tail(q)[k - Len(h)]
  BY <1>1, ConcatProperties
<1>3. Len(h) = 1 /\ h[1] = q[1] /\ Len(q) > 0
  OBVIOUS
<1>4. Len(Tail(q)) = Len(q) - 1 /\ \A k \in 1 .. Len(Tail(q)) : Tail(q)[k] = q[k + 1]
  BY HeadTailProperties
<1> HIDE DEF h
<1>5. Len(q) = Len(h \o Tail(q)) /\ \A k \in 1 .. Len(q) : q[k] = (h \o Tail(q))[k]
  BY <1>2, <1>3, <1>4
<1>6. q = h \o Tail(q)
  BY <1>2, <1>5, SeqEqual
<1>7. s \o <<>> = s /\ (s \o h) \o Tail(q) = s \o (h \o Tail(q))
  BY <1>1, ConcatEmptySeq, ConcatAssociative, SMTT(30)
<1> QED BY <1>6, <1>7 DEF h

\* Appending to the last list of a concatenation.
LEMMA AppendLast ==
  ASSUME NEW s \in Seq(Packets), NEW q \in Seq(Packets), NEW p \in Packets
  PROVE  Append(s \o q, p) = s \o Append(q, p)
<1>1. s \o q \in Seq(Packets) /\ <<p>> \in Seq(Packets)
  BY ConcatProperties
<1>2. Append(s \o q, p) = (s \o q) \o <<p>> /\ Append(q, p) = q \o <<p>>
  BY <1>1, AppendIsConcat, Zenon
<1>3. (s \o q) \o <<p>> = s \o (q \o <<p>>)
  BY <1>1, ConcatAssociative, SMTT(30)
<1> QED BY <1>2, <1>3

\* What has not been delivered of a machine's mail.
InHand(m) == IF worker[m] = "release" THEN <<>> ELSE One(mail[m])

LEMMA ListsAre ==
  ASSUME TypeOK, NEW m \in Machines
  PROVE  /\ carried[m] \in Seq(Packets) /\ delivered[m] \in Seq(Packets)
         /\ socket[m] \in Seq(Packets) /\ One(inbox[m]) \in Seq(Packets)
         /\ InHand(m) \in Seq(Packets) /\ delivered[m] \o InHand(m) \in Seq(Packets)
         /\ (delivered[m] \o InHand(m)) \o One(inbox[m]) \in Seq(Packets)
<1>1. /\ carried[m] \in Seq(Packets) /\ delivered[m] \in Seq(Packets)
      /\ socket[m] \in Seq(Packets)
      /\ inbox[m] \in Packets \cup {NULL} /\ mail[m] \in Packets \cup {NULL}
  BY DEF TypeOK
<1>2. One(inbox[m]) \in Seq(Packets) /\ InHand(m) \in Seq(Packets)
  BY <1>1 DEF One, InHand
<1>3. delivered[m] \o InHand(m) \in Seq(Packets)
  BY <1>1, <1>2, ConcatProperties, SMTT(60)
<1>4. (delivered[m] \o InHand(m)) \o One(inbox[m]) \in Seq(Packets)
  BY <1>2, <1>3, ConcatProperties, SMTT(60)
<1> QED BY <1>1, <1>2, <1>3, <1>4

\* Mail in order at one machine.
Ordered(m) == carried[m] = ((delivered[m] \o InHand(m)) \o One(inbox[m])) \o socket[m]

\* Every step keeps the order of what is carried and delivered.
LEMMA OrderStep ==
  ASSUME PostOfficeInv, DeliveredInOrder, Next
  PROVE  DeliveredInOrder'
<1> USE DEF sendVars, arriveVars, workVars, boxVars, threadVars, history
<1>0. TypeOK /\ MailIsThere /\ UnitMeansPacket
  BY DEF PostOfficeInv
<1>1. \A m \in Machines : Ordered(m)
  BY Zenon DEF DeliveredInOrder, Ordered, InHand
<1>2. SUFFICES \A m \in Machines : Ordered(m)'
  BY Zenon DEF DeliveredInOrder, Ordered, InHand
<1>3. ASSUME NEW m \in Machines, carried'[m] = carried[m], delivered'[m] = delivered[m],
             worker'[m] = worker[m], mail'[m] = mail[m], inbox'[m] = inbox[m],
             socket'[m] = socket[m]
      PROVE  Ordered(m)'
  BY <1>1, <1>3, Zenon DEF Ordered, InHand
<1>4. ASSUME NEW t \in Senders, NetworkSend(t) PROVE \A m \in Machines : Ordered(m)'
  <2>0. PICK d \in Machines : d = to[t][1]
    BY <1>0, Addresses, Zenon DEF Threads
  <2>1. UNCHANGED <<delivered, worker, mail, inbox>>
    BY <1>4, ZenonT(60) DEF NetworkSend
  <2>2. packet[t] \in Packets
    BY <1>0, <1>4, Zenon DEF NetworkSend, TypeOK, MailIsThere
  <2>3. CASE UNCHANGED <<socket, carried>>
    BY <1>3, <2>1, <2>3, ZenonT(60)
  <2>4. CASE /\ socket' = [socket EXCEPT ![d] = Append(socket[d], packet[t])]
             /\ carried' = [carried EXCEPT ![d] = Append(carried[d], packet[t])]
    <3>1. /\ socket'[d] = Append(socket[d], packet[t])
          /\ carried'[d] = Append(carried[d], packet[t])
          /\ \A m \in Machines \ {d} : socket'[m] = socket[m] /\ carried'[m] = carried[m]
      <4>1. DOMAIN socket = Machines /\ DOMAIN carried = Machines
        BY <1>0 DEF TypeOK
      <4>2. socket = [m \in Machines |-> socket[m]] /\ carried = [m \in Machines |-> carried[m]]
        BY <1>0, ZenonT(60) DEF TypeOK
      <4> QED BY <2>1, <2>4, <4>1, <4>2, ZenonT(60)
    <3>2. Ordered(d)'
      <4> DEFINE before == (delivered[d] \o InHand(d)) \o One(inbox[d])
      <4>1. before \in Seq(Packets) /\ socket[d] \in Seq(Packets)
        BY <1>0, <2>1, ListsAre
      <4>2. carried[d] = before \o socket[d]
        BY <1>1, <2>1, Zenon DEF Ordered
      <4>3. (Ordered(d) <=> carried[d] = before \o socket[d])' /\ before' = before
        BY <2>1 DEF Ordered, InHand
      <4> HIDE DEF before
      <4>4. Append(before \o socket[d], packet[t]) = before \o Append(socket[d], packet[t])
        <5> DEFINE q == socket[d]  p == packet[t]
        <5>1. before \in Seq(Packets) /\ q \in Seq(Packets) /\ p \in Packets
          BY <2>2, <4>1
        <5> HIDE DEF q, p
        <5>2. Append(before \o q, p) = before \o Append(q, p)
          BY <5>1, AppendLast, ZenonT(60)
        <5> QED BY <5>2 DEF q, p
      <4> QED BY <3>1, <4>2, <4>3, <4>4, ZenonT(60)
    <3> QED BY <1>3, <2>1, <3>1, <3>2
  <2> QED BY <1>4, <2>0, <2>3, <2>4, Zenon DEF NetworkSend
<1>5. ASSUME NEW m \in Machines, CheckPktAvail(m) PROVE \A n \in Machines : Ordered(n)'
  <2>1. /\ UNCHANGED <<delivered, worker, mail, carried>>
        /\ inbox[m] = NULL /\ socket[m] # <<>>
    BY <1>5, ZenonT(60) DEF CheckPktAvail
  <2>2. /\ inbox'[m] = Head(socket[m]) /\ socket'[m] = Tail(socket[m])
        /\ \A n \in Machines \ {m} : inbox'[n] = inbox[n] /\ socket'[n] = socket[n]
    BY <1>0, <1>5 DEF CheckPktAvail, TypeOK
  <2>3. Head(socket[m]) # NULL
    <3>1. socket[m] \in Seq(Packets)
      BY <1>0 DEF TypeOK
    <3> QED BY <2>1, <3>1, HeadTailProperties, Distinct, ZenonT(60)
  <2>4. Ordered(m)'
    <3> DEFINE s == delivered[m] \o InHand(m)
    <3>1. s \in Seq(Packets) /\ socket[m] \in Seq(Packets)
      BY <1>0, ListsAre, Zenon
    <3>2. carried[m] = (s \o <<>>) \o socket[m]
      BY <1>1, <2>1, Zenon DEF Ordered, One
    <3>3. (Ordered(m) <=> carried[m] = (s \o One(inbox[m])) \o socket[m])' /\ s' = s
      BY <2>1, ZenonT(60) DEF Ordered, InHand
    <3>4. One(inbox[m])' = <<Head(socket[m])>>
      BY <2>2, <2>3, Zenon DEF One
    <3> HIDE DEF s
    <3>5. (s \o <<>>) \o socket[m] = (s \o <<Head(socket[m])>>) \o Tail(socket[m])
      BY <2>1, <3>1, HeadMoves, Zenon
    <3> QED BY <2>1, <2>2, <3>2, <3>3, <3>4, <3>5, Zenon
  <2> QED BY <1>3, <2>1, <2>2, <2>4
<1>6. ASSUME NEW m \in Machines, NetworkReceive(m) PROVE \A n \in Machines : Ordered(n)'
  <2>1. /\ UNCHANGED <<delivered, socket, carried>>
        /\ worker[m] = "receive" /\ worker'[m] = "acquire"
        /\ \A n \in Machines \ {m} : worker'[n] = worker[n]
    BY <1>0, <1>6, WorkIsOwn, Zenon DEF NetworkReceive, Stations
  <2>2. /\ mail'[m] = inbox[m] /\ inbox'[m] = NULL
        /\ \A n \in Machines \ {m} : mail'[n] = mail[n] /\ inbox'[n] = inbox[n]
    BY <1>0, <1>6, Zenon DEF NetworkReceive, TypeOK
  <2>3. InHand(m) = <<>>
    BY <1>0, <2>1, ZenonT(60) DEF InHand, One, MailIsThere
  <2>4. InHand(m)' = One(inbox[m]) /\ One(inbox[m])' = <<>>
    BY <2>1, <2>2 DEF InHand, One
  <2>5. Ordered(m)'
    <3>1. /\ delivered[m] \in Seq(Packets) /\ One(inbox[m]) \in Seq(Packets)
          /\ delivered[m] \o One(inbox[m]) \in Seq(Packets)
      BY <1>0, ListsAre, ConcatProperties, SMTT(60)
    <3>2. /\ delivered[m] \o <<>> = delivered[m]
          /\ (delivered[m] \o One(inbox[m])) \o <<>> = delivered[m] \o One(inbox[m])
      BY <3>1, ConcatEmptySeq
    <3>3. carried[m] = ((delivered[m] \o <<>>) \o One(inbox[m])) \o socket[m]
      BY <1>1, <2>3, Zenon DEF Ordered
    <3> QED BY <2>1, <2>4, <3>2, <3>3, ZenonT(60) DEF Ordered
  <2> QED BY <1>3, <2>1, <2>2, <2>5, Zenon
<1>7. ASSUME NEW m \in Machines, Put(m) PROVE \A n \in Machines : Ordered(n)'
  <2>1. /\ UNCHANGED <<mail, inbox, socket, carried>>
        /\ worker[m] = "append" /\ worker'[m] = "release"
        /\ \A n \in Machines \ {m} : worker'[n] = worker[n]
    BY <1>0, <1>7, WorkIsOwn, ZenonT(60) DEF Put, Stations
  <2>2. /\ delivered'[m] = Append(delivered[m], mail[m])
        /\ \A n \in Machines \ {m} : delivered'[n] = delivered[n]
    <3>1. DOMAIN delivered = Machines /\ delivered = [n \in Machines |-> delivered[n]]
      BY <1>0, Zenon DEF TypeOK
    <3> QED BY <1>7, <3>1, Zenon DEF Put
  <2>3. mail[m] \in Packets /\ mail[m] # NULL
    BY <1>0, <2>1, MailHasBox, Distinct, Zenon
  <2>4. InHand(m) = <<mail[m]>> /\ InHand(m)' = <<>>
    BY <2>1, <2>3, Zenon DEF InHand, One
  <2>5. Ordered(m)'
    <3>1. delivered[m] \in Seq(Packets) /\ Append(delivered[m], mail[m]) \in Seq(Packets)
      BY <1>0, <2>3, ListsAre, PacketLists, ZenonT(60)
    <3>2. Append(delivered[m], mail[m]) = delivered[m] \o <<mail[m]>>
      BY <2>3, <3>1, AppendIsConcat, SMTT(60)
    <3>3. Append(delivered[m], mail[m]) \o <<>> = Append(delivered[m], mail[m])
      BY <3>1, ConcatEmptySeq
    <3>4. carried[m] = ((delivered[m] \o <<mail[m]>>) \o One(inbox[m])) \o socket[m]
      BY <1>1, <2>4, Zenon DEF Ordered
    <3> QED BY <2>1, <2>2, <2>4, <3>2, <3>3, <3>4, Zenon DEF Ordered
  <2> QED BY <1>3, <2>1, <2>2, <2>5, Zenon
<1>8. ASSUME NEW m \in Machines, ReleasePut(m) PROVE \A n \in Machines : Ordered(n)'
  <2>1. /\ UNCHANGED <<delivered, inbox, socket, carried>>
        /\ worker[m] = "release" /\ worker'[m] = "wait"
        /\ \A n \in Machines \ {m} : worker'[n] = worker[n]
    BY <1>0, <1>8, WorkIsOwn, SMTT(60) DEF ReleasePut, Stations
  <2>2. mail'[m] = NULL /\ \A n \in Machines \ {m} : mail'[n] = mail[n]
    <3>1. mail \in [Machines -> Packets \cup {NULL}]
      BY <1>0, SMTT(60) DEF TypeOK
    <3> QED BY <1>8, <3>1, SMTT(60) DEF ReleasePut
  <2>3. InHand(m) = <<>> /\ InHand(m)' = <<>>
    BY <2>1, <2>2 DEF InHand, One
  <2>4. Ordered(m)'
    BY <1>1, <2>1, <2>3, Zenon DEF Ordered
  <2> QED BY <1>3, <2>1, <2>2, <2>4, ZenonT(60)
<1>9. ASSUME NEW m \in Machines, AwaitMessage(m) \/ AcquirePut(m)
      PROVE  \A n \in Machines : Ordered(n)'
  <2>1. /\ UNCHANGED <<delivered, inbox, socket, carried, mail>>
        /\ worker[m] # "release" /\ worker'[m] # "release"
        /\ \A n \in Machines \ {m} : worker'[n] = worker[n]
    BY <1>0, <1>9, WorkIsOwn DEF AwaitMessage, AcquirePut, Stations
  <2>2. \A n \in Machines : InHand(n)' = InHand(n)
    BY <2>1 DEF InHand
  <2> QED BY <1>1, <2>1, <2>2, ZenonT(60) DEF Ordered
<1>10. CASE UNCHANGED <<delivered, inbox, socket, carried, mail, worker>>
  BY <1>3, <1>10, SMTT(60)
<1>11. ASSUME NEW t \in Senders, ~NetworkSend(t),
              SendStep(t) \/ \E m \in Machines, b \in Boxes : CallSend(t, m, b)
       PROVE  UNCHANGED <<delivered, inbox, socket, carried, mail, worker>>
  BY <1>11, ZenonT(60) DEF SendStep, CallSend, AcquireSend, AwaitSent, ReleaseSend
<1>12. ASSUME NEW t \in Receivers, ReceiveStep(t) \/ \E b \in Boxes : CallReceive(t, b)
       PROVE  UNCHANGED <<delivered, inbox, socket, carried, mail, worker>>
  BY <1>0, <1>12, ReceiveFrame, Zenon
<1>13. ASSUME NEW m \in Machines, SendDone(m)
       PROVE  UNCHANGED <<delivered, inbox, socket, carried, mail, worker>>
  BY <1>13, Zenon DEF SendDone
<1> QED BY <1>4, <1>5, <1>6, <1>7, <1>8, <1>9, <1>10, <1>11, <1>12, <1>13
        DEF Next, SendStep, WorkerStep

-----------------------------------------------------------------------------
(* The order in the mailboxes *)

\* Places before the last one.
LEMMA BeforeLast ==
  ASSUME NEW n \in Nat, NEW j \in 1 .. n + 1, j # n + 1
  PROVE  j \in 1 .. n
  BY SMTT(60)

LEMMA BeforePlace ==
  ASSUME NEW n \in Nat, NEW j \in 1 .. n, NEW i \in 1 .. n + 1, i < j
  PROVE  i \in 1 .. n
  BY SMTT(60)

\* A packet for a box is put behind the mail of the box.
LEMMA MailArrives ==
  ASSUME NEW s \in Seq(Packets), NEW d \in Seq(Packets), NEW p \in Packets, NEW b \in Boxes,
         p.to = b, IsMailOf(s, d, b)
  PROVE  IsMailOf(Append(s, p), Append(d, p), b)
<1> DEFINE places == {k \in 1 .. Len(d) : d[k].to = b}
           s2 == Append(s, p)
           d2 == Append(d, p)
           more == {k \in 1 .. Len(d2) : d2[k].to = b}
<1>1. PICK f \in [1 .. Len(s) -> places] :
        /\ \A i, j \in 1 .. Len(s) : i < j => f[i] < f[j]
        /\ \A k \in places : \E i \in 1 .. Len(s) : f[i] = k
        /\ \A i \in 1 .. Len(s) : s[i] = d[f[i]]
  BY ZenonT(60) DEF IsMailOf
<1>2. /\ Len(s) \in Nat /\ Len(d) \in Nat
      /\ Len(s2) = Len(s) + 1 /\ Len(d2) = Len(d) + 1
      /\ s2[Len(s) + 1] = p /\ d2[Len(d) + 1] = p
      /\ \A i \in 1 .. Len(s) : s2[i] = s[i]
      /\ \A k \in 1 .. Len(d) : d2[k] = d[k]
  BY LenProperties, AppendProperties, SMTT(60)
<1> HIDE DEF s2, d2
<1>3. more = places \cup {Len(d) + 1}
  BY <1>2
<1> DEFINE g == [i \in 1 .. Len(s2) |-> IF i = Len(s) + 1 THEN Len(d) + 1 ELSE f[i]]
<1>4. \A i \in 1 .. Len(s) : f[i] \in places /\ f[i] \in 1 .. Len(d)
  BY <1>1, ZenonT(60)
<1> HIDE DEF places, more
<1>5. g \in [1 .. Len(s2) -> more]
  BY <1>2, <1>3, <1>4
<1>6. \A i \in 1 .. Len(s) : g[i] = f[i]
  BY <1>2
<1>7. g[Len(s) + 1] = Len(d) + 1
  BY <1>2
<1> HIDE DEF g
<1>8. \A i, j \in 1 .. Len(s2) : i < j => g[i] < g[j]
  <2> SUFFICES ASSUME NEW i \in 1 .. Len(s2), NEW j \in 1 .. Len(s2), i < j PROVE g[i] < g[j]
    BY SMTT(60)
  <2>1. CASE j = Len(s) + 1
    <3>1. i \in 1 .. Len(s)
      BY <1>2, <2>1, SMTT(60)
    <3>2. g[i] = f[i] /\ f[i] \in 1 .. Len(d) /\ g[j] = Len(d) + 1
      BY <1>4, <1>6, <1>7, <2>1, <3>1, ZenonT(60)
    <3> QED BY <1>2, <3>2, SMTT(60)
  <2>2. CASE j # Len(s) + 1
    <3>1. i \in 1 .. Len(s) /\ j \in 1 .. Len(s)
      <4>1. Len(s) \in Nat /\ Len(s2) = Len(s) + 1
        BY <1>2, ZenonT(60)
      <4>2. j \in 1 .. Len(s)
        BY <2>2, <4>1, BeforeLast, ZenonT(60)
      <4>3. i \in 1 .. Len(s)
        BY <4>1, <4>2, BeforePlace, ZenonT(60)
      <4> QED BY <4>2, <4>3, ZenonT(60)
    <3>2. g[i] = f[i] /\ g[j] = f[j] /\ f[i] < f[j]
      BY <1>1, <1>6, <3>1, ZenonT(60)
    <3> QED BY <3>2, ZenonT(60)
  <2> QED BY <2>1, <2>2
<1>9. \A k \in more : \E i \in 1 .. Len(s2) : g[i] = k
  <2> SUFFICES ASSUME NEW k \in more PROVE \E i \in 1 .. Len(s2) : g[i] = k
    BY SMTT(60)
  <2>1. CASE k = Len(d) + 1
    BY <1>2, <1>7, <2>1
  <2>2. CASE k \in places
    <3>1. PICK i \in 1 .. Len(s) : f[i] = k
      BY <1>1, <2>2, ZenonT(60)
    <3>2. g[i] = k
      BY <1>6, <3>1, ZenonT(60)
    <3>3. i \in 1 .. Len(s2)
      BY <1>2, SMTT(60)
    <3> QED BY <3>2, <3>3, ZenonT(60)
  <2> QED BY <1>3, <2>1, <2>2, SMTT(60)
<1>10. \A i \in 1 .. Len(s2) : s2[i] = d2[g[i]]
  <2> SUFFICES ASSUME NEW i \in 1 .. Len(s2) PROVE s2[i] = d2[g[i]]
    BY ZenonT(60)
  <2>1. CASE i = Len(s) + 1
    BY <1>2, <1>7, <2>1, Zenon
  <2>2. CASE i # Len(s) + 1
    <3>1. i \in 1 .. Len(s)
      BY <1>2, <2>2
    <3>2. s2[i] = s[i] /\ g[i] = f[i] /\ s[i] = d[f[i]] /\ d2[f[i]] = d[f[i]]
      BY <1>1, <1>2, <1>4, <1>6, <3>1, Zenon
    <3> QED BY <3>2, ZenonT(60)
  <2> QED BY <2>1, <2>2, ZenonT(60)
<1> QED BY <1>5, <1>8, <1>9, <1>10, Zenon DEF IsMailOf, more, s2, d2

\* A packet for another box is not mail of this one.
LEMMA MailPasses ==
  ASSUME NEW s \in Seq(Packets), NEW d \in Seq(Packets), NEW p \in Packets, NEW b \in Boxes,
         p.to # b, IsMailOf(s, d, b)
  PROVE  IsMailOf(s, Append(d, p), b)
<1> DEFINE places == {k \in 1 .. Len(d) : d[k].to = b}
           d2 == Append(d, p)
           more == {k \in 1 .. Len(d2) : d2[k].to = b}
<1>1. PICK f \in [1 .. Len(s) -> places] :
        /\ \A i, j \in 1 .. Len(s) : i < j => f[i] < f[j]
        /\ \A k \in places : \E i \in 1 .. Len(s) : f[i] = k
        /\ \A i \in 1 .. Len(s) : s[i] = d[f[i]]
  BY ZenonT(60) DEF IsMailOf
<1>2. /\ Len(d) \in Nat /\ Len(d2) = Len(d) + 1 /\ d2[Len(d) + 1] = p
      /\ \A k \in 1 .. Len(d) : d2[k] = d[k]
  BY LenProperties, AppendProperties
<1> HIDE DEF d2
<1>3. more = places
  BY <1>2
<1>4. \A i \in 1 .. Len(s) : s[i] = d2[f[i]]
  BY <1>1, <1>2, Zenon
<1> HIDE DEF places, more
<1> QED BY <1>1, <1>3, <1>4, Zenon DEF IsMailOf, more, d2

\* No mail yet.
LEMMA NoMail ==
  ASSUME NEW b \in Boxes
  PROVE  IsMailOf(<<>> \o <<>>, <<>>, b)
<1> DEFINE places == {k \in 1 .. Len(<<>>) : <<>>[k].to = b}
           none == <<>> \o <<>>
           f == [i \in 1 .. Len(none) |-> 0]
<1>1. Len(none) = 0 /\ Len(<<>>) = 0
  BY ConcatEmptySeq, SMTT(60)
<1>2. 1 .. Len(none) = {} /\ places = {}
  BY <1>1, SMTT(60)
<1> HIDE DEF places, none
<1>3. f \in [1 .. Len(none) -> places]
  BY <1>2, SMTT(60)
<1> QED BY <1>2, <1>3, Zenon DEF IsMailOf, places, none

\* Every step keeps the order of what a box has been given, has given out and holds.
LEMMA BoxOrderStep ==
  ASSUME PostOfficeInv, BoxesKeepOrder, Next
  PROVE  BoxesKeepOrder'
<1> USE DEF sendVars, arriveVars, workVars, boxVars, threadVars, history
<1>0. TypeOK /\ MailIsThere /\ RemoveFindsMail
  BY SMTT(60) DEF PostOfficeInv
<1>1. ASSUME NEW n \in Machines, NEW c \in Boxes
      PROVE  /\ taken[n][c] \in Seq(Packets) /\ boxes[n][c] \in Seq(Packets)
             /\ delivered[n] \in Seq(Packets)
             /\ taken[n][c] \o boxes[n][c] \in Seq(Packets)
             /\ IsMailOf(taken[n][c] \o boxes[n][c], delivered[n], c)
  <2>1. /\ taken[n][c] \in Seq(Packets) /\ boxes[n][c] \in Seq(Packets)
        /\ delivered[n] \in Seq(Packets)
    BY <1>0, ZenonT(60) DEF TypeOK
  <2> QED BY <2>1, ConcatProperties, ZenonT(60) DEF BoxesKeepOrder
<1>2. ASSUME NEW m \in Machines, Put(m) PROVE BoxesKeepOrder'
  <2>1. worker[m] = "append" /\ UNCHANGED taken
    BY <1>2, Zenon DEF Put, Work
  <2>2. mail[m] \in Packets /\ mail[m].to \in Boxes
    BY <1>0, <2>1, MailHasBox, ZenonT(60)
  <2>3. PICK list \in Seq(Packets) : list = Append(boxes[m][mail[m].to], mail[m])
    BY <1>1, <2>2, AppendProperties, ZenonT(60)
  <2>4. boxes' = [boxes EXCEPT ![m][mail[m].to] = list]
    BY <1>0, <1>2, <2>2, <2>3, Zenon DEF Put, TypeOK
  <2>5. \A n \in Machines, c \in Boxes :
          boxes'[n][c] = IF n = m /\ c = mail[m].to THEN list ELSE boxes[n][c]
    BY <1>0, <2>2, <2>4, BoxIsOwn, ZenonT(60)
  <2>6. /\ delivered'[m] = Append(delivered[m], mail[m])
        /\ \A n \in Machines \ {m} : delivered'[n] = delivered[n]
    <3>1. delivered \in [Machines -> Seq(Packets)]
      BY <1>0, Zenon DEF TypeOK
    <3>2. delivered' = [delivered EXCEPT ![m] = Append(@, mail[m])]
      BY <1>2, Zenon DEF Put
    <3> QED BY <3>1, <3>2
  <2> SUFFICES ASSUME NEW n \in Machines, NEW c \in Boxes
               PROVE  IsMailOf(taken'[n][c] \o boxes'[n][c], delivered'[n], c)
    BY Zenon DEF BoxesKeepOrder
  <2>7. CASE n # m
    <3>1. /\ taken'[n][c] = taken[n][c] /\ boxes'[n][c] = boxes[n][c]
          /\ delivered'[n] = delivered[n]
      BY <2>1, <2>5, <2>6, <2>7, ZenonT(60)
    <3> QED BY <1>1, <3>1, Zenon
  <2>8. CASE n = m /\ c = mail[m].to
    <3>1. taken[m][c] \o list = Append(taken[m][c] \o boxes[m][c], mail[m])
      <4>1. Append(taken[m][c] \o boxes[m][c], mail[m]) = taken[m][c] \o Append(boxes[m][c], mail[m])
        <5>1. taken[m][c] \in Seq(Packets) /\ boxes[m][c] \in Seq(Packets) /\ mail[m] \in Packets
          BY <1>1, <2>2, Zenon
        <5>2. PICK a \in Seq(Packets), b \in Seq(Packets), p \in Packets :
                a = taken[m][c] /\ b = boxes[m][c] /\ p = mail[m]
          BY <5>1, Zenon
        <5>3. Append(a \o b, p) = a \o Append(b, p)
          BY AppendLast, ZenonT(60)
        <5> QED BY <5>2, <5>3, Zenon
      <4> QED BY <2>3, <2>8, <4>1, Zenon
    <3>2. IsMailOf(Append(taken[m][c] \o boxes[m][c], mail[m]), Append(delivered[m], mail[m]), c)
      BY <1>1, <2>2, <2>8, MailArrives, Zenon
    <3>3. /\ taken'[n][c] = taken[m][c] /\ boxes'[n][c] = list
          /\ delivered'[n] = Append(delivered[m], mail[m])
      BY <2>1, <2>5, <2>6, <2>8, Zenon
    <3> QED BY <3>1, <3>2, <3>3, Zenon
  <2>9. CASE n = m /\ c # mail[m].to
    <3>1. IsMailOf(taken[m][c] \o boxes[m][c], Append(delivered[m], mail[m]), c)
      BY <1>1, <2>2, <2>9, MailPasses, ZenonT(60)
    <3>2. /\ taken'[n][c] = taken[m][c] /\ boxes'[n][c] = boxes[m][c]
          /\ delivered'[n] = Append(delivered[m], mail[m])
      BY <2>1, <2>5, <2>6, <2>9, ZenonT(60)
    <3> QED BY <3>1, <3>2, Zenon
  <2> QED BY <2>7, <2>8, <2>9, Zenon
<1>3. ASSUME NEW t \in Receivers, Get(t) PROVE BoxesKeepOrder'
  <2>1. PICK m \in Machines, b \in Boxes : m = home[t] /\ b = to[t][2]
    BY <1>0, Addresses, Zenon DEF Threads
  <2>2. boxes[m][b] # <<>> /\ boxes[m][b] \in Seq(Packets)
    BY <1>0, <1>1, <1>3, <2>1, ZenonT(60) DEF RemoveFindsMail, Get
  <2>3. PICK p \in Packets, rest \in Seq(Packets) : p = Head(boxes[m][b]) /\ rest = Tail(boxes[m][b])
    BY <2>2, HeadTailProperties, Zenon
  <2>4. PICK more \in Seq(Packets) : more = Append(taken[m][b], p)
    BY <1>1, AppendProperties, ZenonT(60)
  <2>5. /\ boxes' = [boxes EXCEPT ![m][b] = rest]
        /\ taken' = [taken EXCEPT ![m][b] = more]
        /\ UNCHANGED delivered
    <3>1. /\ boxes' = [boxes EXCEPT ![m][b] = Tail(@)]
          /\ taken' = [taken EXCEPT ![m][b] = Append(@, p)]
          /\ UNCHANGED delivered
      BY <1>3, <2>1, <2>3, ZenonT(60) DEF Get
    <3>2. /\ boxes \in [Machines -> [Boxes -> Seq(Packets)]]
          /\ taken \in [Machines -> [Boxes -> Seq(Packets)]]
      BY <1>0, ZenonT(60) DEF TypeOK
    <3> QED BY <2>3, <2>4, <3>1, <3>2, Zenon
  <2>6. \A n \in Machines, c \in Boxes :
          boxes'[n][c] = IF n = m /\ c = b THEN rest ELSE boxes[n][c]
    BY <1>0, <2>5, BoxIsOwn, ZenonT(60)
  <2>7. \A n \in Machines, c \in Boxes :
          taken'[n][c] = IF n = m /\ c = b THEN more ELSE taken[n][c]
    BY <1>0, <2>5, TakenIsOwn, ZenonT(60)
  <2> SUFFICES ASSUME NEW n \in Machines, NEW c \in Boxes
               PROVE  taken'[n][c] \o boxes'[n][c] = taken[n][c] \o boxes[n][c]
    BY <1>1, <2>5, Zenon DEF BoxesKeepOrder
  <2>8. CASE ~(n = m /\ c = b)
    BY <2>6, <2>7, <2>8, ZenonT(60)
  <2>9. CASE n = m /\ c = b
    <3>1. (taken[m][b] \o <<>>) \o boxes[m][b] = (taken[m][b] \o <<p>>) \o rest
      BY <1>1, <2>2, <2>3, HeadMoves, ZenonT(60)
    <3>2. taken[m][b] \o <<>> = taken[m][b]
      BY <1>1, ConcatEmptySeq, SMTT(60)
    <3>3. more = taken[m][b] \o <<p>>
      BY <1>1, <2>4, AppendIsConcat, ZenonT(60)
    <3> QED BY <2>6, <2>7, <2>9, <3>1, <3>2, <3>3, Zenon
  <2> QED BY <2>8, <2>9, Zenon
<1>4. CASE UNCHANGED <<boxes, taken, delivered>>
  BY <1>1, <1>4, Zenon DEF BoxesKeepOrder
<1>5. ASSUME NEW t \in Senders, SendStep(t) \/ \E m \in Machines, b \in Boxes : CallSend(t, m, b)
      PROVE  UNCHANGED <<boxes, taken, delivered>>
  BY <1>5, ZenonT(60) DEF SendStep, CallSend, AcquireSend, NetworkSend, AwaitSent, ReleaseSend
<1>6. ASSUME NEW m \in Machines, ~Put(m), SendDone(m) \/ CheckPktAvail(m) \/ WorkerStep(m)
      PROVE  UNCHANGED <<boxes, taken, delivered>>
  BY <1>6, Zenon DEF WorkerStep, SendDone, CheckPktAvail, AwaitMessage, NetworkReceive, AcquirePut,
                     ReleasePut
<1>7. ASSUME NEW t \in Receivers, ~Get(t), ReceiveStep(t) \/ \E b \in Boxes : CallReceive(t, b)
      PROVE  UNCHANGED <<boxes, taken, delivered>>
  BY <1>7, Zenon DEF ReceiveStep, CallReceive, AcquireGet, Wait, LeaveLoop, ReleaseGet
<1> QED BY <1>2, <1>3, <1>4, <1>5, <1>6, <1>7, ZenonT(60) DEF Next

-----------------------------------------------------------------------------
(* Theorems *)

\* Every wakeup finds what it was sent for: the P of a Send the end of its own packet,
\* the postal worker a packet, list->Remove() a message, for any number of machines,
\* mailboxes and threads, and whatever the network loses.
THEOREM WakeupsAreExact == Spec => []PostOfficeInv
<1>1. Init => PostOfficeInv
  BY InitInv
<1> QED BY <1>1, NextInv, PTL DEF Spec

\* What the network does not lose, the postal worker puts into the mailboxes once and
\* in the order in which it was sent.
THEOREM DeliveryInOrder == Spec => []DeliveredInOrder
<1>1. Init => DeliveredInOrder
  BY InitInv, SMTT(60)
<1>2. PostOfficeInv /\ DeliveredInOrder /\ [Next]_vars => DeliveredInOrder'
  <2> SUFFICES ASSUME PostOfficeInv, DeliveredInOrder, [Next]_vars PROVE DeliveredInOrder'
    OBVIOUS
  <2>1. CASE UNCHANGED vars
    BY <2>1, Zenon DEF vars, arriveVars, workVars, history, DeliveredInOrder
  <2> QED BY <2>1, OrderStep, SMTT(60)
<1> QED BY <1>1, <1>2, WakeupsAreExact, PTL DEF Spec

\* A message is taken from its mailbox once, after those that were sent before it and
\* have arrived: what the receivers of a box have taken, followed by what is in it, is
\* what the network delivered for the box.
THEOREM MailOrder == Spec => []MailInOrder
<1>1. Init => BoxesKeepOrder
  <2> SUFFICES ASSUME Init, NEW m \in Machines, NEW b \in Boxes
               PROVE  IsMailOf(taken[m][b] \o boxes[m][b], delivered[m], b)
    BY ZenonT(60) DEF BoxesKeepOrder
  <2>1. taken[m][b] = <<>> /\ boxes[m][b] = <<>> /\ delivered[m] = <<>>
    BY Zenon DEF Init, NetworkInit, SynchListInit
  <2> QED BY <2>1, NoMail, Zenon
<1>2. PostOfficeInv /\ BoxesKeepOrder /\ [Next]_vars => BoxesKeepOrder'
  <2> SUFFICES ASSUME PostOfficeInv, BoxesKeepOrder, [Next]_vars PROVE BoxesKeepOrder'
    OBVIOUS
  <2>1. CASE UNCHANGED vars
    BY <2>1, Zenon DEF vars, boxVars, history, BoxesKeepOrder
  <2> QED BY <2>1, BoxOrderStep
<1>3. Spec => []BoxesKeepOrder
  BY <1>1, <1>2, WakeupsAreExact, PTL DEF Spec
<1> QED BY <1>3, DeliveryInOrder, PTL DEF MailInOrder
==============================================================================
