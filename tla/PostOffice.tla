----------------------------- MODULE PostOffice -----------------------------
(***************************************************************************)
(* The post office of network/post.cc over the network device of           *)
(* machine/network.cc and the SynchList of threads/synchlist.h: threads    *)
(* send packets to the mailboxes of machines, a network that loses some of *)
(* them, a postal worker on each machine that delivers what arrives, and   *)
(* threads that receive from a mailbox.                                    *)
(*                                                                         *)
(* Locks are as in AbstractLock.  Condition::Wait does not stop a thread   *)
(* (see Port), so SynchList::Remove releases its lock and acquires it      *)
(* again, and Signal wakes nobody.                                         *)
(***************************************************************************)
EXTENDS Integers, Sequences

CONSTANTS
  Machines, Boxes,
  Senders, Receivers,   \* threads
  home,                 \* the machine of a thread
  postalWorker,
  NULL,
  MaxSent               \* bound on the messages of a sender

\* A mail with its headers: n tells the messages of a sender apart.
Packets == [from : Senders, n : Nat, to : Boxes]

ASSUME PostOfficeAssumption ==
  /\ home \in [Senders \cup Receivers -> Machines]
  /\ Senders \cap Receivers = {}
  /\ postalWorker \notin Receivers
  /\ NULL \notin Senders \cup Receivers \cup {postalWorker} \cup Packets
  /\ MaxSent \in Nat

VARIABLES
  sendDone,           \* the NetworkSendDone interrupts that are pending
  messageSent,        \* the values of the semaphores
  messageAvailable,
  sendLock,           \* the holder of a machine's lock, or NULL
  socket,             \* the packets on their way to a machine
  inbox,              \* the packet its network has read, or NULL
  worker, mail,       \* where its postal worker is, and the packet it has
  boxes, boxLock,     \* the list of each mailbox, and the holder of its lock
  pc, packet,         \* where a thread is, and the packet it sends or has received
  to,                 \* <<machine, box>> of its call
  count,              \* the messages a sender has sent
  carried, delivered, taken   \* history: packets put on the way to a machine, into its
                              \* boxes, and out of each box

sendVars == <<sendDone, messageSent, sendLock>>
arriveVars == <<messageAvailable, socket, inbox>>
workVars == <<worker, mail>>
boxVars == <<boxes, boxLock>>
threadVars == <<pc, packet, to, count>>
history == <<carried, delivered, taken>>
vars == <<sendVars, arriveVars, workVars, boxVars, threadVars, history>>

-----------------------------------------------------------------------------
\* The constructors of Network, MailBox and SynchList.
NetworkInit ==
  /\ sendDone = [m \in Machines |-> 0]
  /\ socket = [m \in Machines |-> <<>>]
  /\ inbox = [m \in Machines |-> NULL]

SynchListInit ==
  /\ boxes = [m \in Machines |-> [b \in Boxes |-> <<>>]]
  /\ boxLock = [m \in Machines |-> [b \in Boxes |-> NULL]]

Init ==
  /\ NetworkInit
  /\ SynchListInit
  /\ messageSent = [m \in Machines |-> 0]
  /\ messageAvailable = [m \in Machines |-> 0]
  /\ sendLock = [m \in Machines |-> NULL]
  /\ worker = [m \in Machines |-> "wait"]
  /\ mail = [m \in Machines |-> NULL]
  /\ pc = [t \in Senders \cup Receivers |-> "idle"]
  /\ packet = [t \in Senders \cup Receivers |-> NULL]
  /\ \E b \in Boxes : to = [t \in Senders \cup Receivers |-> <<home[t], b>>]
  /\ count = [t \in Senders |-> 0]
  /\ carried = [m \in Machines |-> <<>>]
  /\ delivered = [m \in Machines |-> <<>>]
  /\ taken = [m \in Machines |-> [b \in Boxes |-> <<>>]]

Goto(t, place) == pc' = [pc EXCEPT ![t] = place]

-----------------------------------------------------------------------------
(* PostOffice::Send and Network::Send *)

CallSend(t, m, b) ==
  /\ pc[t] = "idle"
  /\ count[t] < MaxSent
  /\ count' = [count EXCEPT ![t] = @ + 1]
  /\ packet' = [packet EXCEPT ![t] = [from |-> t, n |-> count[t] + 1, to |-> b]]
  /\ to' = [to EXCEPT ![t] = <<m, b>>]
  /\ Goto(t, "acquire")
  /\ UNCHANGED <<sendVars, arriveVars, workVars, boxVars, history>>

\* Mutant: there is no lock.
AcquireSendNot(t) ==
  /\ pc[t] = "acquire"
  /\ Goto(t, "send")
  /\ UNCHANGED <<sendVars, arriveVars, workVars, boxVars, packet, to, count, history>>

AcquireSend(t) ==
  /\ pc[t] = "acquire"
  /\ sendLock[home[t]] = NULL
  /\ sendLock' = [sendLock EXCEPT ![home[t]] = t]
  /\ Goto(t, "send")
  /\ UNCHANGED <<sendDone, messageSent, arriveVars, workVars, boxVars, packet, to,
                 count, history>>

\* Mutant: no interrupt is scheduled for a packet that is lost.
NetworkSendSilently(t) ==
  LET m == home[t]
  IN  /\ pc[t] = "send"
      /\ \/ /\ socket' = [socket EXCEPT ![to[t][1]] = Append(@, packet[t])]
            /\ carried' = [carried EXCEPT ![to[t][1]] = Append(@, packet[t])]
            /\ sendDone' = [sendDone EXCEPT ![m] = @ + 1]
         \/ UNCHANGED <<socket, carried, sendDone>>
      /\ Goto(t, "sent")
      /\ UNCHANGED <<messageSent, sendLock, messageAvailable, inbox, workVars, boxVars,
                     packet, to, count, delivered, taken>>

\* Network::Send asserts that the device is not busy but never marks it so.  The
\* packet is lost or put on its way; the interrupt comes in both cases.
NetworkSend(t) ==
  LET m == home[t]
  IN  /\ pc[t] = "send"
      /\ sendDone' = [sendDone EXCEPT ![m] = @ + 1]
      /\ \/ /\ socket' = [socket EXCEPT ![to[t][1]] = Append(@, packet[t])]
            /\ carried' = [carried EXCEPT ![to[t][1]] = Append(@, packet[t])]
         \/ UNCHANGED <<socket, carried>>
      /\ Goto(t, "sent")
      /\ UNCHANGED <<messageSent, sendLock, messageAvailable, inbox, workVars, boxVars,
                     packet, to, count, delivered, taken>>

\* The handlers of the post office.
PacketSent(m) == messageSent' = [messageSent EXCEPT ![m] = @ + 1]
IncomingPacket(m) == messageAvailable' = [messageAvailable EXCEPT ![m] = @ + 1]

\* Network::SendDone
SendDone(m) ==
  /\ sendDone[m] > 0
  /\ sendDone' = [sendDone EXCEPT ![m] = @ - 1]
  /\ PacketSent(m)
  /\ UNCHANGED <<sendLock, arriveVars, workVars, boxVars, threadVars, history>>

\* messageSent->P()
AwaitSent(t) ==
  /\ pc[t] = "sent"
  /\ messageSent[home[t]] > 0
  /\ messageSent' = [messageSent EXCEPT ![home[t]] = @ - 1]
  /\ Goto(t, "release")
  /\ UNCHANGED <<sendDone, sendLock, arriveVars, workVars, boxVars, packet, to, count,
                 history>>

ReleaseSend(t) ==
  /\ pc[t] = "release"
  /\ sendLock' = [sendLock EXCEPT ![home[t]] = NULL]
  /\ Goto(t, "idle")
  /\ UNCHANGED <<sendDone, messageSent, arriveVars, workVars, boxVars, packet, to,
                 count, history>>

-----------------------------------------------------------------------------
(* Network::CheckPktAvail and PostOffice::PostalDelivery *)

\* Mutant: the packet that is buffered is overwritten.
CheckPktOverwrites(m) ==
  /\ socket[m] # <<>>
  /\ inbox' = [inbox EXCEPT ![m] = Head(socket[m])]
  /\ socket' = [socket EXCEPT ![m] = Tail(@)]
  /\ messageAvailable' = [messageAvailable EXCEPT ![m] = @ + 1]
  /\ UNCHANGED <<sendVars, workVars, boxVars, threadVars, history>>

\* The poll reads a packet if there is one and none is buffered.
CheckPktAvail(m) ==
  /\ inbox[m] = NULL
  /\ socket[m] # <<>>
  /\ inbox' = [inbox EXCEPT ![m] = Head(socket[m])]
  /\ socket' = [socket EXCEPT ![m] = Tail(@)]
  /\ IncomingPacket(m)
  /\ UNCHANGED <<sendVars, workVars, boxVars, threadVars, history>>

Work(m, from, place) == worker[m] = from /\ worker' = [worker EXCEPT ![m] = place]

\* messageAvailable->P()
AwaitMessage(m) ==
  /\ Work(m, "wait", "receive")
  /\ messageAvailable[m] > 0
  /\ messageAvailable' = [messageAvailable EXCEPT ![m] = @ - 1]
  /\ UNCHANGED <<sendVars, socket, inbox, mail, boxVars, threadVars, history>>

\* Network::Receive
NetworkReceive(m) ==
  /\ Work(m, "receive", "acquire")
  /\ mail' = [mail EXCEPT ![m] = inbox[m]]
  /\ inbox' = [inbox EXCEPT ![m] = NULL]
  /\ UNCHANGED <<sendVars, messageAvailable, socket, boxVars, threadVars, history>>

\* MailBox::Put, SynchList::Append: lock->Acquire()
AcquirePut(m) ==
  LET b == mail[m].to
  IN  /\ Work(m, "acquire", "append")
      /\ boxLock[m][b] = NULL
      /\ boxLock' = [boxLock EXCEPT ![m][b] = postalWorker]
      /\ UNCHANGED <<sendVars, arriveVars, mail, boxes, threadVars, history>>

\* list->Append(item) and listEmpty->Signal()
Put(m) ==
  /\ Work(m, "append", "release")
  /\ boxes' = [boxes EXCEPT ![m][mail[m].to] = Append(@, mail[m])]
  /\ delivered' = [delivered EXCEPT ![m] = Append(@, mail[m])]
  /\ UNCHANGED <<sendVars, arriveVars, mail, boxLock, threadVars, carried, taken>>

\* Mutant: the lock of the box stays taken.
ReleasePutNot(m) ==
  /\ Work(m, "release", "wait")
  /\ mail' = [mail EXCEPT ![m] = NULL]
  /\ UNCHANGED <<sendVars, arriveVars, boxes, boxLock, threadVars, history>>

ReleasePut(m) ==
  /\ Work(m, "release", "wait")
  /\ boxLock' = [boxLock EXCEPT ![m][mail[m].to] = NULL]
  /\ mail' = [mail EXCEPT ![m] = NULL]
  /\ UNCHANGED <<sendVars, arriveVars, boxes, threadVars, history>>

-----------------------------------------------------------------------------
(* PostOffice::Receive, MailBox::Get and SynchList::Remove *)

CallReceive(t, b) ==
  /\ pc[t] = "idle"
  /\ to' = [to EXCEPT ![t] = <<home[t], b>>]
  /\ Goto(t, "acquire")
  /\ UNCHANGED <<sendVars, arriveVars, workVars, boxVars, packet, count, history>>

AcquireGet(t) ==
  LET m == home[t] b == to[t][2]
  IN  /\ pc[t] = "acquire"
      /\ boxLock[m][b] = NULL
      /\ boxLock' = [boxLock EXCEPT ![m][b] = t]
      /\ Goto(t, "test")
      /\ UNCHANGED <<sendVars, arriveVars, workVars, boxes, packet, to, count, history>>

\* The list is empty: Wait releases the lock, and acquires it again.
Wait(t) ==
  LET m == home[t] b == to[t][2]
  IN  /\ pc[t] = "test"
      /\ boxes[m][b] = <<>>
      /\ boxLock' = [boxLock EXCEPT ![m][b] = NULL]
      /\ Goto(t, "acquire")
      /\ UNCHANGED <<sendVars, arriveVars, workVars, boxes, packet, to, count, history>>

\* The list is not empty.
LeaveLoop(t) ==
  /\ pc[t] = "test"
  /\ boxes[home[t]][to[t][2]] # <<>>
  /\ Goto(t, "remove")
  /\ UNCHANGED <<sendVars, arriveVars, workVars, boxVars, packet, to, count, history>>

\* list->Remove()
Get(t) ==
  LET m == home[t] b == to[t][2]
  IN  /\ pc[t] = "remove"
      /\ packet' = [packet EXCEPT ![t] = Head(boxes[m][b])]
      /\ boxes' = [boxes EXCEPT ![m][b] = Tail(@)]
      /\ taken' = [taken EXCEPT ![m][b] = Append(@, Head(boxes[m][b]))]
      /\ Goto(t, "release")
      /\ UNCHANGED <<sendVars, arriveVars, workVars, boxLock, to, count, carried, delivered>>

ReleaseGet(t) ==
  LET m == home[t] b == to[t][2]
  IN  /\ pc[t] = "release"
      /\ boxLock' = [boxLock EXCEPT ![m][b] = NULL]
      /\ Goto(t, "idle")
      /\ UNCHANGED <<sendVars, arriveVars, workVars, boxes, packet, to, count, history>>

SendStep(t) == AcquireSend(t) \/ NetworkSend(t) \/ AwaitSent(t) \/ ReleaseSend(t)
WorkerStep(m) ==
  AwaitMessage(m) \/ NetworkReceive(m) \/ AcquirePut(m) \/ Put(m) \/ ReleasePut(m)
ReceiveStep(t) == AcquireGet(t) \/ Wait(t) \/ LeaveLoop(t) \/ Get(t) \/ ReleaseGet(t)

Next ==
  \/ \E t \in Senders : SendStep(t) \/ \E m \in Machines, b \in Boxes : CallSend(t, m, b)
  \/ \E m \in Machines : SendDone(m) \/ CheckPktAvail(m) \/ WorkerStep(m)
  \/ \E t \in Receivers : ReceiveStep(t) \/ \E b \in Boxes : CallReceive(t, b)

Spec == Init /\ [][Next]_vars

\* Interrupts happen and threads that can go on do so.  Strong fairness where a
\* lock is acquired: see Lock.
FairSpec ==
  /\ Spec
  /\ \A m \in Machines :
       /\ WF_vars(SendDone(m)) /\ WF_vars(CheckPktAvail(m))
       /\ WF_vars(WorkerStep(m)) /\ SF_vars(AcquirePut(m))
  /\ \A t \in Senders : WF_vars(SendStep(t)) /\ SF_vars(AcquireSend(t))
  /\ \A t \in Receivers : WF_vars(ReceiveStep(t)) /\ SF_vars(AcquireGet(t))

-----------------------------------------------------------------------------
(* Properties *)

Places == {"idle", "acquire", "send", "sent", "test", "remove", "release"}

TypeOK ==
  /\ sendDone \in [Machines -> Nat] /\ messageSent \in [Machines -> Nat]
  /\ messageAvailable \in [Machines -> Nat]
  /\ sendLock \in [Machines -> Senders \cup {NULL}]
  /\ socket \in [Machines -> Seq(Packets)]
  /\ inbox \in [Machines -> Packets \cup {NULL}] /\ mail \in [Machines -> Packets \cup {NULL}]
  /\ worker \in [Machines -> {"wait", "receive", "acquire", "append", "release"}]
  /\ boxes \in [Machines -> [Boxes -> Seq(Packets)]]
  /\ boxLock \in [Machines -> [Boxes -> Receivers \cup {postalWorker, NULL}]]
  /\ pc \in [Senders \cup Receivers -> Places]
  /\ packet \in [Senders \cup Receivers -> Packets \cup {NULL}]
  /\ to \in [Senders \cup Receivers -> Machines \X Boxes]
  /\ count \in [Senders -> Nat]
  /\ carried \in [Machines -> Seq(Packets)] /\ delivered \in [Machines -> Seq(Packets)]
  /\ taken \in [Machines -> [Boxes -> Seq(Packets)]]

\* Who is between Acquire and Release holds the lock, a sender that of its machine, a
\* receiver and the postal worker that of their mailbox.
HoldersAreInside ==
  /\ \A t \in Senders : pc[t] \in {"send", "sent", "release"} <=> sendLock[home[t]] = t
  /\ \A t \in Receivers :
       pc[t] \in {"test", "remove", "release"} => boxLock[home[t]][to[t][2]] = t
  /\ \A m \in Machines :
       worker[m] \in {"append", "release"} => boxLock[m][mail[m].to] = postalWorker

\* A sender that has called has its packet, and the postal worker has one exactly
\* from Receive until it has put it into a mailbox.
MailIsThere ==
  /\ \A t \in Senders : pc[t] # "idle" => packet[t] # NULL
  /\ \A m \in Machines : mail[m] # NULL <=> worker[m] \notin {"wait", "receive"}

\* One packet of a machine is being sent at a time, and its end wakes its sender:
\* an interrupt or a unit of messageSent is there exactly while a sender waits.
OneSend ==
  \A m \in Machines :
    sendDone[m] + messageSent[m] =
      IF \E t \in Senders : home[t] = m /\ pc[t] = "sent" THEN 1 ELSE 0

\* The postal worker comes out of P exactly once for a packet that is buffered, so
\* Network::Receive never returns an empty one, whose mailbox would be garbage.
UnitMeansPacket ==
  \A m \in Machines :
    messageAvailable[m] + (IF worker[m] = "receive" THEN 1 ELSE 0) =
      IF inbox[m] = NULL THEN 0 ELSE 1

\* list->Remove() finds a message, although the lock was released while waiting.
RemoveFindsMail ==
  \A t \in Receivers : pc[t] = "remove" => boxes[home[t]][to[t][2]] # <<>>

One(p) == IF p = NULL THEN <<>> ELSE <<p>>

\* Once the network has not lost a packet, it is delivered once and in order: what
\* was put on the way to a machine is what went into its boxes, what the postal
\* worker and the network hold, and what is still on the way.
DeliveredInOrder ==
  \A m \in Machines :
    carried[m] = delivered[m]
      \o (IF worker[m] = "release" THEN <<>> ELSE One(mail[m]))
      \o One(inbox[m]) \o socket[m]

\* s holds the packets of d that are for box b, each once and in their order: f says
\* where in d they are.
IsMailOf(s, d, b) ==
  LET places == {k \in 1 .. Len(d) : d[k].to = b}
  IN  \E f \in [1 .. Len(s) -> places] :
        /\ \A i, j \in 1 .. Len(s) : i < j => f[i] < f[j]
        /\ \A k \in places : \E i \in 1 .. Len(s) : f[i] = k
        /\ \A i \in 1 .. Len(s) : s[i] = d[f[i]]

\* Every mailbox gives out its own messages, once and in the order of delivery.
BoxesKeepOrder ==
  \A m \in Machines, b \in Boxes :
    IsMailOf(taken[m][b] \o boxes[m][b], delivered[m], b)

\* Mail is delivered in order, from the network to the one who takes it from a box.
MailInOrder == DeliveredInOrder /\ BoxesKeepOrder

\* Every wakeup finds what it was sent for: the end of one's own Send, a packet, a
\* message.
PostOfficeInv ==
  /\ TypeOK /\ HoldersAreInside /\ MailIsThere
  /\ OneSend /\ UnitMeansPacket /\ RemoveFindsMail

\* Send returns, also if the packet is lost.
SendReturns == \A t \in Senders : pc[t] = "acquire" ~> pc[t] = "idle"

Among(packets, t, n) == \E k \in DOMAIN packets : packets[k].from = t /\ packets[k].n = n

\* A packet that the network has not lost gets into its mailbox.
PacketIsDelivered ==
  \A m \in Machines, t \in Senders, n \in 1 .. MaxSent :
    Among(carried[m], t, n) ~> Among(delivered[m], t, n)
==============================================================================
