--------------------------- MODULE ConnectionsProofs ---------------------------
(***************************************************************************)
(* Proofs about Connections, for any number of slots, handles, holders and *)
(* senders and every bound.                                                *)
(***************************************************************************)
EXTENDS Connections, FiniteSetTheorems, WellFoundedInduction, TLAPS

(* An accepted slot, and one that waits for accept(), has a handle; a      *)
(* Connection points at a slot with its link.                              *)
Held ==
    /\ \A c \in Holders : holder[c] # Nobody =>
         /\ holder[c].slot \in Slots
         /\ slots[holder[c].slot].link = holder[c].link
         /\ slots[holder[c].slot].handle \in Handles
    /\ \A s \in Slots : slots[s].state = "Connecting" => slots[s].handle \in Handles

IInv == TypeOK /\ Held /\ RefsAreHolders

-----------------------------------------------------------------------------
(* The first of a set of slots is one of them. *)

LEMMA Least ==
    ASSUME NEW T, T \subseteq Nat, T # {}
    PROVE  \E x \in T : \A y \in T : x <= y
<1> DEFINE R == OpToRel(<, Nat)
<1>1. PICK x \in T : \A y \in T : ~ (<<y, x>> \in R)
  <2>1. IsWellFoundedOn(R, Nat) BY NatLessThanWellFounded
  <2> HIDE DEF R
  <2> QED BY <2>1, WFMin, Zenon
<1>2. \A y \in T : ~ (y < x) BY <1>1 DEF OpToRel
<1> QED BY <1>2

LEMMA FirstIn ==
    ASSUME NEW S, S \subseteq Slots, S # {}
    PROVE  First(S) \in S
<1>1. S \subseteq Nat BY ConnectionsAssumption DEF Slots
<1>2. \E x \in S : \A y \in S : x <= y BY <1>1, Least
<1> QED BY <1>2 DEF First

LEMMA FirstOf ==
    /\ \A h : Connected(h) # {} => First(Connected(h)) \in Connected(h)
    /\ \A h : OfHandle(h) # {} => First(OfHandle(h)) \in OfHandle(h)
    /\ Vacant # {} => First(Vacant) \in Vacant
    /\ Requests # {} => First(Requests) \in Requests
BY FirstIn DEF Connected, OfHandle, Vacant, Requests

LEMMA StateNames ==
    /\ "Disconnected" \in States /\ "Connecting" \in States /\ "Connected" \in States
    /\ "DisconnectRequest" \in States /\ "Disconnecting" \in States
BY DEF States

(* What one slot is after a step that moves no Connection and no handle:   *)
(* it keeps its references, handle and link, and starts no wait for        *)
(* accept().                                                               *)
Keeps(r, q) ==
    /\ q.refs = r.refs /\ q.handle = r.handle /\ q.link = r.link
    /\ q.state = "Connecting" => r.state = "Connecting"

LEMMA OthersKeep ==
    ASSUME IInv, holder' = holder, slots' \in [Slots -> Slot],
           \A s \in Slots : Keeps(slots[s], slots'[s])
    PROVE  Held' /\ RefsAreHolders'
<1>1. Held' BY DEF IInv, TypeOK, TableOK, Slot, Held, Keeps, Nobody
<1>2. \A s \in Slots : HoldersOf(s)' = HoldersOf(s) BY DEF HoldersOf
<1>3. RefsAreHolders' BY <1>2 DEF IInv, RefsAreHolders, Keeps
<1> QED BY <1>1, <1>3

(* The steps that change at most one slot and no Connection.               *)
LEMMA GiveBackKeeps ==
    ASSUME TypeOK, NEW h, NEW n \in Nat, GiveBack(h, n)
    PROVE  slots' \in [Slots -> Slot] /\ \A s \in Slots : Keeps(slots[s], slots'[s])
<1>1. slots \in [Slots -> Slot] BY DEF TypeOK, TableOK
<1>2. CASE slots' = slots BY <1>1, <1>2 DEF Keeps
<1>3. CASE Connected(h) # {} /\ slots' = [slots EXCEPT ![First(Connected(h))].credits = @ + n]
  <2>1. First(Connected(h)) \in Slots BY <1>3, FirstOf DEF Connected
  <2>2. PICK t \in Slots : slots' = [slots EXCEPT ![t].credits = @ + n] BY <1>3, <2>1
  <2>3. slots[t] \in Slot /\ slots'[t] = [slots[t] EXCEPT !.credits = @ + n]
        /\ \A s \in Slots \ {t} : slots'[s] = slots[s]
    BY <1>1, <2>2
  <2>4. slots'[t] \in Slot /\ Keeps(slots[t], slots'[t]) BY <2>3 DEF Slot, Keeps
  <2> QED BY <1>1, <2>2, <2>3, <2>4 DEF Keeps
<1> QED BY <1>2, <1>3 DEF GiveBack

LEMMA StateKeeps ==
    ASSUME TypeOK, NEW t, NEW st \in States \ {"Connecting"}, SetState(t, st)
    PROVE  slots' \in [Slots -> Slot] /\ \A s \in Slots : Keeps(slots[s], slots'[s])
<1>1. slots \in [Slots -> Slot] BY DEF TypeOK, TableOK
<1> QED BY <1>1 DEF SetState, Slot, Keeps

LEMMA AskKeeps ==
    ASSUME TypeOK, NEW S, AskDisconnect(S)
    PROVE  slots' \in [Slots -> Slot] /\ \A s \in Slots : Keeps(slots[s], slots'[s])
<1>1. slots \in [Slots -> Slot] BY DEF TypeOK, TableOK
<1>2. CASE slots' = slots BY <1>1, <1>2 DEF Keeps
<1>3. CASE SetState(First(S), "DisconnectRequest") BY <1>3, StateKeeps DEF States
<1> QED BY <1>2, <1>3 DEF AskDisconnect

-----------------------------------------------------------------------------
(* What an action leaves of IInv to prove.                                 *)

LEMMA InitInv == Init => IInv
<1> SUFFICES ASSUME Init PROVE IInv OBVIOUS
<1>1. TableOK
  BY ConnectionsAssumption DEF Init, TableOK, Slot, States, Free, Nobody
<1>2. LoopsOK
  BY ConnectionsAssumption DEF Init, LoopsOK, Pdu, Sender, HciPacket, Sending, Quiet, Reading, Idle
<1>3. Held BY DEF Init, Held, Free, Nobody
<1>4. RefsAreHolders
  <2>1. \A s \in Slots : HoldersOf(s) = {}
    BY DEF Init, HoldersOf, Nobody, Slots, NoSlot
  <2> QED BY <2>1, FS_EmptySet DEF Init, RefsAreHolders, Free
<1> QED BY <1>1, <1>2, <1>3, <1>4 DEF IInv, TypeOK

LEMMA SlotOf ==
    ASSUME IInv
    PROVE  /\ \A s \in Slots : slots[s] \in Slot
           /\ \A s \in Slots : IsFiniteSet(HoldersOf(s))
           /\ \A c \in Holders : holder[c] # Nobody => slots[holder[c].slot].refs > 0
<1>1. \A s \in Slots : slots[s] \in Slot BY DEF IInv, TypeOK, TableOK
<1>2. \A s \in Slots : IsFiniteSet(HoldersOf(s))
  BY ConnectionsAssumption, FS_Subset DEF HoldersOf
<1>3. ASSUME NEW c \in Holders, holder[c] # Nobody PROVE slots[holder[c].slot].refs > 0
  <2> DEFINE s == holder[c].slot
  <2>1. s \in Slots BY <1>3 DEF IInv, Held
  <2>2. c \in HoldersOf(s) BY <1>3 DEF HoldersOf
  <2>3. Cardinality(HoldersOf(s)) \in Nat /\ Cardinality(HoldersOf(s)) # 0
    BY <1>2, <2>1, <2>2, FS_CardinalityType, FS_EmptySet
  <2> QED BY <2>1, <2>3 DEF IInv, RefsAreHolders
<1> QED BY <1>1, <1>2, <1>3

(* The slot t has references added or taken, the others are as they were.  *)
RefsMove(t, n) ==
    /\ slots' \in [Slots -> Slot]
    /\ slots'[t].refs = slots[t].refs + n
    /\ slots'[t].handle = slots[t].handle /\ slots'[t].link = slots[t].link
    /\ slots'[t].state # "Connecting"
    /\ \A s \in Slots \ {t} : slots'[s] = slots[s]

LEMMA OneMore ==
    ASSUME IInv, NEW c \in Holders, holder[c] = Nobody, NEW t \in Slots,
           slots[t].handle \in Handles, RefsMove(t, 1),
           holder' = [holder EXCEPT ![c] = [slot |-> t, link |-> slots[t].link]]
    PROVE  TableOK' /\ Held' /\ RefsAreHolders'
<1>1. NoSlot \notin Slots BY ConnectionsAssumption DEF Slots, NoSlot
<1>2. TableOK' BY SlotOf DEF IInv, TypeOK, TableOK, Slot, RefsMove
<1>3. Held' BY <1>1 DEF IInv, TypeOK, TableOK, Held, Nobody, RefsMove
<1>4. \A s \in Slots : HoldersOf(s)' = IF s = t THEN HoldersOf(s) \cup {c} ELSE HoldersOf(s)
  BY <1>1 DEF IInv, TypeOK, TableOK, HoldersOf, Nobody
<1>5. c \notin HoldersOf(t) BY <1>1 DEF HoldersOf, Nobody
<1>6. Cardinality(HoldersOf(t) \cup {c}) = Cardinality(HoldersOf(t)) + 1
  BY <1>5, SlotOf, FS_AddElement
<1>7. RefsAreHolders' BY <1>4, <1>6 DEF IInv, RefsAreHolders, RefsMove
<1> QED BY <1>2, <1>3, <1>7

LEMMA OneLess ==
    ASSUME IInv, NEW c \in Holders, holder[c] # Nobody, RefsMove(holder[c].slot, -1),
           holder' = [holder EXCEPT ![c] = Nobody]
    PROVE  TableOK' /\ Held' /\ RefsAreHolders'
<1> DEFINE t == holder[c].slot
<1>1. NoSlot \notin Slots /\ t \in Slots
  BY ConnectionsAssumption DEF Slots, NoSlot, IInv, Held
<1>2. TableOK' BY DEF IInv, TypeOK, TableOK, Nobody, RefsMove
<1>3. Held' BY <1>1 DEF IInv, TypeOK, TableOK, Held, Nobody, RefsMove
<1>4. \A s \in Slots : HoldersOf(s)' = IF s = t THEN HoldersOf(s) \ {c} ELSE HoldersOf(s)
  BY <1>1 DEF IInv, TypeOK, TableOK, HoldersOf, Nobody
<1>5. c \in HoldersOf(t) BY DEF HoldersOf
<1>6. Cardinality(HoldersOf(t) \ {c}) = Cardinality(HoldersOf(t)) - 1
  BY <1>1, <1>5, SlotOf, FS_RemoveElement
<1>7. RefsAreHolders' BY <1>1, <1>4, <1>6 DEF IInv, RefsAreHolders, RefsMove
<1> QED BY <1>2, <1>3, <1>7

-----------------------------------------------------------------------------
(* The types of the loops and the controller. *)

LEMMA AppendType ==
    ASSUME NEW S, NEW q \in Seq(S), NEW e \in S
    PROVE  Append(q, e) \in Seq(S)
OBVIOUS

LEMMA PacketType ==
    ASSUME NEW k \in {"up", "down", "sent", "gatt", "bad", "status"}, NEW h \in Handles,
           NEW l \in Links \cup {NoLink}
    PROVE  Packet(k, h, l) \in HciPacket
BY DEF Packet, HciPacket

LEMMA CountType ==
    ASSUME LoopsOK
    PROVE  /\ count \in [links : 0 .. MaxLinks, sent : Nat, got : Nat]
           /\ count.links < MaxLinks =>
                [count EXCEPT !.links = @ + 1] \in [links : 0 .. MaxLinks, sent : Nat, got : Nat]
           /\ [count EXCEPT !.sent = @ + 1] \in [links : 0 .. MaxLinks, sent : Nat, got : Nat]
           /\ [count EXCEPT !.got = @ + 1] \in [links : 0 .. MaxLinks, sent : Nat, got : Nat]
<1>1. count \in [links : 0 .. MaxLinks, sent : Nat, got : Nat] BY DEF LoopsOK
<1>2. MaxLinks \in Nat BY ConnectionsAssumption
<1> QED BY <1>1, <1>2

LEMMA ControllerLoops ==
    ASSUME IInv, Controller
    PROVE  LoopsOK'
<1>0. LoopsOK BY DEF IInv, TypeOK
<1>1. ASSUME NEW h \in Handles, LinkUp(h) PROVE LoopsOK'
  <2>1. count.links + 1 \in Links BY <1>0, <1>1, ConnectionsAssumption DEF LoopsOK, LinkUp, Links
  <2>2. hci' \in Seq(HciPacket) BY <1>0, <1>1, <2>1, PacketType, AppendType DEF LoopsOK, LinkUp
  <2>3. live' \in [Handles -> Links \cup {NoLink}] BY <1>0, <1>1, <2>1 DEF LoopsOK, LinkUp
  <2>4. count' \in [links : 0 .. MaxLinks, sent : Nat, got : Nat]
    BY <1>0, <1>1, CountType DEF LinkUp
  <2> QED BY <1>0, <1>1, <2>2, <2>3, <2>4 DEF LoopsOK, LinkUp, loops
<1>2. ASSUME NEW h \in Handles, LinkDown(h) PROVE LoopsOK'
  <2>1. hci' \in Seq(HciPacket) BY <1>0, <1>2, PacketType, AppendType DEF LoopsOK, LinkDown
  <2>2. live' \in [Handles -> Links \cup {NoLink}] BY <1>0, <1>2 DEF LoopsOK, LinkDown
  <2>3. buffered' \in [Handles -> Nat] BY <1>0, <1>2 DEF LoopsOK, LinkDown
  <2> QED BY <1>0, <1>2, <2>1, <2>2, <2>3 DEF LoopsOK, LinkDown, loops
<1>3. ASSUME NEW h \in Handles, PacketSent(h) PROVE LoopsOK'
  <2>1. hci' \in Seq(HciPacket) BY <1>0, <1>3, PacketType, AppendType DEF LoopsOK, PacketSent
  <2>2. buffered' \in [Handles -> Nat] BY <1>0, <1>3 DEF LoopsOK, PacketSent
  <2> QED BY <1>0, <1>3, <2>1, <2>2 DEF LoopsOK, PacketSent, loops
<1>4. ASSUME NEW h \in Handles, NEW k \in {"gatt", "bad"}, PacketIn(h, k) PROVE LoopsOK'
  <2>1. hci' \in Seq(HciPacket) BY <1>0, <1>4, PacketType, AppendType DEF LoopsOK, PacketIn
  <2>2. count' \in [links : 0 .. MaxLinks, sent : Nat, got : Nat] BY <1>0, <1>4, CountType DEF PacketIn
  <2> QED BY <1>0, <1>4, <2>1, <2>2 DEF LoopsOK, PacketIn, loops
<1>5. ASSUME Execute PROVE LoopsOK'
  <2>0. command \in Handles BY <1>0, <1>5 DEF LoopsOK, Execute
  <2>1. Packet("status", command, NoLink) \in HciPacket /\ Packet("down", command, live[command]) \in HciPacket
    BY <1>0, <2>0, PacketType DEF LoopsOK
  <2>2. hci' \in Seq(HciPacket) BY <1>0, <1>5, <2>1, AppendType DEF LoopsOK, Execute
  <2>3. live' \in [Handles -> Links \cup {NoLink}] BY <1>0, <1>5 DEF LoopsOK, Execute
  <2>4. buffered' \in [Handles -> Nat] BY <1>0, <1>5 DEF LoopsOK, Execute
  <2> QED BY <1>0, <1>5, <2>2, <2>3, <2>4 DEF LoopsOK, Execute
<1> QED BY <1>1, <1>2, <1>3, <1>4, <1>5 DEF Controller

LEMMA HeadType ==
    ASSUME IInv, hci # <<>>
    PROVE  Head(hci) \in HciPacket /\ Tail(hci) \in Seq(HciPacket)
BY DEF IInv, TypeOK, LoopsOK

LEMMA RxLoops ==
    ASSUME IInv, Rx
    PROVE  LoopsOK'
<1>0. LoopsOK BY DEF IInv, TypeOK
<1>1. ASSUME RxUp PROVE LoopsOK'
  <2>1. Head(hci).handle \in Handles /\ hci' \in Seq(HciPacket)
    BY <1>1, HeadType DEF RxUp, Received, HciPacket
  <2>2. rx' \in [pc : {"read", "refuse", "wait"}, handle : Handles \cup {NoHandle}]
    BY <1>0, <1>1, <2>1 DEF LoopsOK, RxUp
  <2>3. control' = control /\ command' = command BY <1>1 DEF RxUp
  <2> QED BY <1>0, <1>1, <2>1, <2>2, <2>3 DEF LoopsOK, RxUp, Received
<1>2. ASSUME RxRefuse PROVE LoopsOK'
  <2>1. rx' \in [pc : {"read", "refuse", "wait"}, handle : Handles \cup {NoHandle}]
        /\ command' \in Handles \cup {NoHandle}
    BY <1>0, <1>2 DEF LoopsOK, RxRefuse
  <2> QED BY <1>0, <1>2, <2>1 DEF LoopsOK, RxRefuse, radio
<1>3. ASSUME RxDown \/ RxSent \/ RxGatt \/ RxBad PROVE LoopsOK'
  <2>1. hci' \in Seq(HciPacket) /\ UNCHANGED <<outbound, sender, live, buffered, count>>
    BY <1>3, HeadType DEF RxDown, RxSent, RxGatt, RxBad, Received
  <2>2. UNCHANGED <<rx, control, command>> BY <1>3 DEF RxDown, RxSent, RxGatt, RxBad, loops
  <2> QED BY <1>0, <2>1, <2>2 DEF LoopsOK
<1>4. ASSUME RxStatus PROVE LoopsOK'
  <2>1. hci' \in Seq(HciPacket) BY <1>4, HeadType DEF RxStatus, Received
  <2>2. control' \in [pc : {"idle", "wait", "done"}, slot : Slots \cup {NoSlot}]
    BY <1>0, <1>4 DEF LoopsOK, RxStatus
  <2> QED BY <1>0, <1>4, <2>1, <2>2 DEF LoopsOK, RxStatus, Received
<1> QED BY <1>1, <1>2, <1>3, <1>4 DEF Rx

LEMMA ControlLoops ==
    ASSUME IInv, Control
    PROVE  LoopsOK'
<1>0. LoopsOK BY DEF IInv, TypeOK
<1>1. ASSUME TakeRequest PROVE LoopsOK'
  <2>1. First(Requests) \in Slots BY <1>1, FirstOf DEF TakeRequest, Requests
  <2>2. slots[First(Requests)].handle \in Handles \cup {NoHandle} BY <2>1, SlotOf DEF Slot
  <2>3. /\ control' \in [pc : {"idle", "wait", "done"}, slot : Slots \cup {NoSlot}]
        /\ command' \in Handles \cup {NoHandle}
    BY <1>1, <2>1, <2>2 DEF TakeRequest
  <2> QED BY <1>0, <1>1, <2>3 DEF LoopsOK, TakeRequest, radio
<1>2. ASSUME Confirm PROVE LoopsOK' BY <1>0, <1>2 DEF LoopsOK, Confirm, Idle, radio
<1> QED BY <1>1, <1>2 DEF Control

LEMMA ApplicationLoops ==
    ASSUME IInv, Application
    PROVE  LoopsOK'
<1>0. LoopsOK BY DEF IInv, TypeOK
<1>1. ASSUME UNCHANGED <<outbound, sender, loops, radio, count>> PROVE LoopsOK'
  BY <1>0, <1>1 DEF LoopsOK, loops, radio
<1>2. ASSUME NEW c \in Holders, NEW n \in 1 .. MaxFrags, Send(c, n) PROVE LoopsOK'
  <2> DEFINE p == [handle |-> slots[holder[c].slot].handle, link |-> holder[c].link, frags |-> n]
  <2>1. p \in Pdu BY <1>2, ConnectionsAssumption DEF Send, Pdu, IInv, TypeOK, TableOK, Held
  <2>2. outbound' = Append(outbound, p) BY <1>2 DEF Send
  <2>3. outbound' \in Seq(Pdu) BY <1>0, <2>1, <2>2, AppendType DEF LoopsOK
  <2>4. count' \in [links : 0 .. MaxLinks, sent : Nat, got : Nat] BY <1>0, <1>2, CountType DEF Send
  <2> QED BY <1>0, <1>2, <2>3, <2>4 DEF LoopsOK, Send, loops, radio
<1>3. ASSUME NEW x \in Senders, NEW h \in Handles, NEW n \in 1 .. MaxFrags, ChannelSend(x, h, n)
      PROVE  LoopsOK'
  <2>1. First(Connected(h)) \in Slots BY <1>3, FirstOf DEF ChannelSend, Connected
  <2>2. slots[First(Connected(h))].link \in Links \cup {NoLink} BY <2>1, SlotOf DEF Slot
  <2> DEFINE r == [pc |-> "ask", handle |-> h, link |-> slots[First(Connected(h))].link,
                   frags |-> n, grant |-> 0]
  <2>5. r \in Sender /\ sender' = [sender EXCEPT ![x] = r]
    BY <1>3, <2>2, ConnectionsAssumption DEF ChannelSend, Ask, Sender
  <2>3. sender' \in [Sending -> Sender] BY <1>0, <2>5 DEF LoopsOK
  <2>4. count' \in [links : 0 .. MaxLinks, sent : Nat, got : Nat] BY <1>0, <1>3, CountType DEF ChannelSend
  <2> QED BY <1>0, <1>3, <2>3, <2>4 DEF LoopsOK, ChannelSend, loops, radio
<1> QED
  BY <1>1, <1>2, <1>3 DEF Application, Accept, GetConnected, Clone, DropConnection, Disconnect, NextGatt

LEMMA QuietType == Quiet \in Sender
BY DEF Quiet, Sender

LEMMA TransmitLoops ==
    ASSUME IInv, Transmit
    PROVE  LoopsOK'
<1>0. LoopsOK BY DEF IInv, TypeOK
<1>1. ASSUME TxTake PROVE LoopsOK'
  <2>1. Head(outbound) \in Pdu /\ outbound' \in Seq(Pdu) BY <1>0, <1>1 DEF LoopsOK, TxTake
  <2>2. sender' \in [Sending -> Sender]
    BY <1>0, <1>1, <2>1 DEF LoopsOK, TxTake, Ask, Sender, Pdu
  <2> QED BY <1>0, <1>1, <2>1, <2>2 DEF LoopsOK, TxTake, loops, radio
<1>2. ASSUME NEW x \in Sending, Write(x) PROVE LoopsOK'
  <2>1. sender[x] \in Sender BY <1>0 DEF LoopsOK
  <2>2. [sender[x] EXCEPT !.frags = @ - 1, !.grant = Less(@)] \in Sender
    <3>1. sender[x].frags - 1 \in Nat BY <1>2, <2>1 DEF Write, Sender
    <3>2. Less(sender[x].grant) \in Nat BY <2>1 DEF Less, Sender
    <3> QED BY <2>1, <3>1, <3>2 DEF Sender
  <2>3. sender' \in [Sending -> Sender] BY <1>0, <1>2, <2>2 DEF LoopsOK, Write
  <2>4. buffered' \in [Handles -> Nat]
    <3>1. buffered \in [Handles -> Nat] BY <1>0 DEF LoopsOK
    <3> DEFINE h == sender[x].handle
               n == IF live[h] = NoLink THEN buffered[h] ELSE buffered[h] + 1
    <3>2. buffered' = [buffered EXCEPT ![h] = n] BY <1>2 DEF Write
    <3>3. h \in Handles => n \in Nat BY <3>1
    <3> QED BY <3>1, <3>2, <3>3
  <2> QED BY <1>0, <1>2, <2>3, <2>4 DEF LoopsOK, Write, loops
<1>3. ASSUME NEW x \in Sending, DropSender(x) \/ CancelAsk(x) PROVE LoopsOK'
  <2>1. sender' \in [Sending -> Sender]
    BY <1>0, <1>3, QuietType DEF LoopsOK, DropSender, CancelAsk
  <2> QED BY <1>0, <1>3, <2>1 DEF LoopsOK, DropSender, CancelAsk, loops, radio
<1>4. ASSUME NEW x \in Sending, NEW n \in 1 .. MaxFrags + 1, Grant(x, n) PROVE LoopsOK'
  <2>0. n \in Nat /\ sender[x] \in Sender BY <1>0, ConnectionsAssumption DEF LoopsOK
  <2>3. [sender[x] EXCEPT !.pc = "send", !.grant = n] \in Sender BY <2>0 DEF Sender
  <2>1. sender' \in [Sending -> Sender] BY <1>0, <1>4, <2>3, QuietType DEF LoopsOK, Grant
  <2> QED BY <1>0, <1>4, <2>1 DEF LoopsOK, Grant, loops, radio
<1> QED BY <1>1, <1>2, <1>3, <1>4 DEF Transmit

-----------------------------------------------------------------------------
(* The table: steps that move no Connection, and steps that do. *)

Calm == holder' = holder /\ slots' \in [Slots -> Slot] /\ \A s \in Slots : Keeps(slots[s], slots'[s])

LEMMA SameTable ==
    ASSUME IInv, UNCHANGED table
    PROVE  Calm
BY DEF IInv, TypeOK, TableOK, table, Calm, Keeps

LEMMA RxUpTable ==
    ASSUME IInv, RxUp
    PROVE  TableOK' /\ Held' /\ RefsAreHolders'
<1>1. CASE Vacant = {}
  <2>1. Calm BY <1>1, SameTable DEF RxUp, Received, table
  <2> QED BY <2>1, OthersKeep DEF Calm, TableOK, IInv, TypeOK
<1>2. CASE Vacant # {}
  <2> DEFINE t == First(Vacant)
             r == [slots[t] EXCEPT !.state = "Connecting", !.handle = Head(hci).handle,
                                   !.link = Head(hci).link, !.credits = Credits]
  <2>1. t \in Slots /\ slots[t].refs = 0 BY <1>2, FirstOf DEF Vacant
  <2>2. Head(hci).handle \in Handles /\ Head(hci).link \in Links \cup {NoLink}
    BY HeadType DEF RxUp, Received, HciPacket
  <2>3. slots[t] \in Slot BY <2>1, SlotOf
  <2>4. /\ r \in Slot /\ r.handle \in Handles /\ r.refs = 0
    <3>1. Credits \in Int BY ConnectionsAssumption
    <3> QED BY <2>1, <2>2, <2>3, <3>1, StateNames DEF Slot
  <2>5. slots' = [slots EXCEPT ![t] = r] /\ holder' = holder BY <1>2 DEF RxUp, Received
  <2> HIDE DEF r
  <2>6. slots' \in [Slots -> Slot] /\ slots'[t] = r /\ \A s \in Slots \ {t} : slots'[s] = slots[s]
    BY <2>1, <2>4, <2>5 DEF IInv, TypeOK, TableOK
  <2>7. \A c \in Holders : holder[c] # Nobody => holder[c].slot # t BY <2>1, SlotOf
  <2>8. Held' BY <2>4, <2>5, <2>6, <2>7 DEF IInv, Held
  <2>9. \A s \in Slots : HoldersOf(s)' = HoldersOf(s) BY <2>5 DEF HoldersOf
  <2>10. RefsAreHolders' BY <2>1, <2>4, <2>6, <2>9 DEF IInv, RefsAreHolders
  <2> QED BY <2>5, <2>6, <2>8, <2>10 DEF TableOK, IInv, TypeOK
<1> QED BY <1>1, <1>2

LEMMA RxCalm ==
    ASSUME IInv, RxRefuse \/ RxDown \/ RxSent \/ RxGatt \/ RxBad \/ RxStatus
    PROVE  Calm
<1>0. TypeOK /\ slots \in [Slots -> Slot] BY DEF IInv, TypeOK, TableOK
<1>1. CASE RxRefuse BY <1>1, SameTable DEF RxRefuse
<1>2. CASE RxDown
  <2> DEFINE S == OfHandle(Head(hci).handle)
  <2>1. CASE S = {} BY <1>2, <2>1, SameTable DEF RxDown, Received, table
  <2>2. CASE S # {}
    <3>1. First(S) \in Slots BY <2>2, FirstOf DEF OfHandle
    <3> DEFINE r == [slots[First(S)] EXCEPT !.state = "Disconnected", !.gatt = <<>>]
    <3>2. slots' = [slots EXCEPT ![First(S)] = r] /\ holder' = holder BY <1>2, <2>2 DEF RxDown, Received
    <3>4. slots[First(S)] \in Slot /\ <<>> \in Seq(Links \cup {NoLink}) BY <1>0, <3>1
    <3> HIDE DEF S
    <3>3. r \in Slot /\ Keeps(slots[First(S)], r) BY <3>4, StateNames DEF Slot, Keeps
    <3> HIDE DEF r, S
    <3> QED BY <1>0, <3>1, <3>2, <3>3 DEF Calm, Keeps
  <2> QED BY <2>1, <2>2
<1>3. CASE RxSent
  <2>1. holder' = holder /\ GiveBack(Head(hci).handle, 1) BY <1>3 DEF RxSent, Received
  <2> QED BY <1>0, <2>1, GiveBackKeeps DEF Calm
<1>4. CASE RxGatt
  <2> DEFINE S == Connected(Head(hci).handle)
  <2>1. CASE slots' = slots BY <1>4, <2>1, SameTable DEF RxGatt, Received, table
  <2>2. CASE S # {} /\ slots' = [slots EXCEPT ![First(S)].gatt = Append(@, Head(hci).link)]
    <3>1. First(S) \in Slots BY <2>2, FirstOf DEF Connected
    <3>2. Head(hci).link \in Links \cup {NoLink} BY <1>4, HeadType DEF RxGatt, Received, HciPacket
    <3>3. slots[First(S)].gatt \in Seq(Links \cup {NoLink}) BY <1>0, <3>1 DEF Slot
    <3>4. Append(slots[First(S)].gatt, Head(hci).link) \in Seq(Links \cup {NoLink})
      BY <3>2, <3>3, AppendType
    <3> DEFINE r == [slots[First(S)] EXCEPT !.gatt = Append(@, Head(hci).link)]
    <3>5. slots' = [slots EXCEPT ![First(S)] = r] BY <1>0, <2>2, <3>1
    <3>6. r \in Slot /\ Keeps(slots[First(S)], r) BY <1>0, <3>1, <3>4 DEF Slot, Keeps
    <3>7. holder' = holder BY <1>4 DEF RxGatt, Received
    <3> HIDE DEF r, S
    <3> QED BY <1>0, <3>1, <3>5, <3>6, <3>7 DEF Calm, Keeps
  <2> QED BY <1>4, <2>1, <2>2 DEF RxGatt
<1>5. CASE RxBad
  <2>1. holder' = holder /\ AskDisconnect(Connected(Head(hci).handle)) BY <1>5 DEF RxBad, Received
  <2> QED BY <1>0, <2>1, AskKeeps DEF Calm
<1>6. CASE RxStatus BY <1>6, SameTable DEF RxStatus, Received, table
<1> QED BY <1>1, <1>2, <1>3, <1>4, <1>5, <1>6

LEMMA ControlCalm ==
    ASSUME IInv, Control
    PROVE  Calm
<1>1. CASE TakeRequest BY <1>1, SameTable DEF TakeRequest
<1>2. CASE Confirm BY <1>2, StateKeeps DEF Confirm, Calm, IInv, States
<1> QED BY <1>1, <1>2 DEF Control

LEMMA TransmitCalm ==
    ASSUME IInv, Transmit
    PROVE  Calm
<1>0. TypeOK /\ slots \in [Slots -> Slot] BY DEF IInv, TypeOK, TableOK
<1>1. CASE UNCHANGED table BY <1>1, SameTable
<1>2. ASSUME NEW x \in Sending, DropSender(x) PROVE Calm
  <2>1. sender[x].grant \in Nat BY <1>0 DEF TypeOK, LoopsOK, Sender
  <2> QED BY <1>0, <1>2, <2>1, GiveBackKeeps DEF DropSender, Calm
<1>3. ASSUME NEW x \in Sending, NEW n \in 1 .. MaxFrags + 1, Grant(x, n) PROVE Calm
  <2> DEFINE S == Connected(sender[x].handle)
  <2>1. CASE S = {} BY <1>3, <2>1, SameTable DEF Grant, table
  <2>2. CASE S # {}
    <3>1. First(S) \in Slots BY <2>2, FirstOf DEF Connected
    <3> DEFINE r == [slots[First(S)] EXCEPT !.credits = @ - n]
    <3>2. slots' = [slots EXCEPT ![First(S)] = r] /\ holder' = holder
      BY <1>0, <1>3, <2>2, <3>1 DEF Grant
    <3>3. n \in Int BY ConnectionsAssumption
    <3>4. r \in Slot /\ Keeps(slots[First(S)], r) BY <1>0, <3>1, <3>3 DEF Slot, Keeps
    <3> HIDE DEF r, S
    <3> QED BY <1>0, <3>1, <3>2, <3>4 DEF Calm, Keeps
  <2> QED BY <2>1, <2>2
<1> QED BY <1>1, <1>2, <1>3 DEF Transmit, TxTake, Write, CancelAsk, table

LEMMA ApplicationTable ==
    ASSUME IInv, Application
    PROVE  Calm \/ (TableOK' /\ Held' /\ RefsAreHolders')
<1>0. /\ TypeOK /\ slots \in [Slots -> Slot] /\ Nobody.slot \notin Slots
      /\ holder \in [Holders -> [slot : Slots \cup {NoSlot}, link : Links \cup {NoLink}]]
  BY DEF IInv, TypeOK, TableOK, Nobody, Slots, NoSlot
<1>1. ASSUME NEW c \in Holders, NEW s \in Slots, Accept(c, s)
      PROVE  TableOK' /\ Held' /\ RefsAreHolders'
  <2> DEFINE r == [slots[s] EXCEPT !.state = "Connected", !.refs = @ + 1]
  <2>1. slots[s] \in Slot /\ slots[s].state = "Connecting" /\ slots[s].handle \in Handles
    BY <1>0, <1>1 DEF Accept, IInv, Held
  <2>2. r \in Slot /\ r.refs = slots[s].refs + 1 /\ r.handle = slots[s].handle
        /\ r.link = slots[s].link /\ r.state # "Connecting"
    <3>1. slots[s].refs + 1 \in Nat BY <2>1 DEF Slot
    <3> QED BY <2>1, <3>1, StateNames DEF Slot
  <2>3. slots' = [slots EXCEPT ![s] = r] BY <1>1 DEF Accept
  <2> HIDE DEF r
  <2>4. RefsMove(s, 1) BY <1>0, <2>2, <2>3 DEF RefsMove
  <2> QED BY <1>1, <2>1, <2>4, OneMore DEF Accept, Hold
<1>2. ASSUME NEW c \in Holders, NEW h \in Handles, GetConnected(c, h)
      PROVE  TableOK' /\ Held' /\ RefsAreHolders'
  <2> DEFINE s == First(Connected(h))
             r == [slots[s] EXCEPT !.refs = @ + 1]
  <2>1. s \in Slots /\ slots[s] \in Slot /\ slots[s].state = "Connected" /\ slots[s].handle = h
    BY <1>0, <1>2, FirstOf DEF GetConnected, Connected
  <2>2. r \in Slot /\ r.refs = slots[s].refs + 1 /\ r.handle = slots[s].handle
        /\ r.link = slots[s].link /\ r.state # "Connecting"
    BY <2>1 DEF Slot
  <2>3. slots' = [slots EXCEPT ![s] = r] /\ Hold(c, s) BY <1>0, <1>2, <2>1 DEF GetConnected
  <2> HIDE DEF r, s
  <2>4. RefsMove(s, 1) BY <1>0, <2>1, <2>2, <2>3 DEF RefsMove
  <2> QED BY <1>2, <2>1, <2>3, <2>4, OneMore DEF GetConnected, Hold
<1>3. ASSUME NEW c \in Holders, NEW d \in Holders, Clone(c, d)
      PROVE  TableOK' /\ Held' /\ RefsAreHolders'
  <2> DEFINE s == holder[c].slot
             r == [slots[s] EXCEPT !.refs = @ + 1]
  <2>1. s \in Slots /\ slots[s] \in Slot /\ slots[s].handle \in Handles /\ slots[s].link = holder[c].link
    BY <1>0, <1>3 DEF Clone, IInv, Held
  <2>2. slots[s].state # "Connecting"
    <3>1. slots[s].refs > 0 BY <1>3, SlotOf DEF Clone
    <3> QED BY <2>1, <3>1 DEF IInv, RefsAreHolders
  <2>3. r \in Slot /\ r.refs = slots[s].refs + 1 /\ r.handle = slots[s].handle
        /\ r.link = slots[s].link /\ r.state # "Connecting"
    BY <2>1, <2>2 DEF Slot
  <2>4. slots' = [slots EXCEPT ![s] = r] BY <1>0, <1>3, <2>1 DEF Clone
  <2>5. holder[c] = [slot |-> s, link |-> slots[s].link] BY <1>0, <2>1
  <2> HIDE DEF r, s
  <2>6. RefsMove(s, 1) BY <1>0, <2>1, <2>3, <2>4 DEF RefsMove
  <2> QED BY <1>3, <2>1, <2>5, <2>6, OneMore DEF Clone
<1>4. ASSUME NEW c \in Holders, DropConnection(c)
      PROVE  TableOK' /\ Held' /\ RefsAreHolders'
  <2> DEFINE s == holder[c].slot
             st == IF slots[s].refs = 1 /\ slots[s].state = "Connected"
                   THEN "DisconnectRequest" ELSE slots[s].state
             r == [slots[s] EXCEPT !.refs = @ - 1, !.state = st]
  <2>1. s \in Slots /\ slots[s] \in Slot /\ slots[s].refs > 0
    BY <1>0, <1>4, SlotOf DEF DropConnection, IInv, Held
  <2>2. slots[s].state # "Connecting" BY <2>1 DEF IInv, RefsAreHolders
  <2>3. st \in States /\ st # "Connecting" BY <2>1, <2>2 DEF Slot, States
  <2>4. slots' = [slots EXCEPT ![s] = r] /\ holder' = [holder EXCEPT ![c] = Nobody]
    BY <1>0, <1>4, <2>1 DEF DropConnection
  <2>5. r \in Slot /\ r.refs = slots[s].refs + -1 /\ r.handle = slots[s].handle
        /\ r.link = slots[s].link /\ r.state # "Connecting"
    <3>1. slots[s].refs - 1 \in Nat BY <2>1 DEF Slot
    <3> HIDE DEF st
    <3> QED BY <2>1, <2>3, <3>1 DEF Slot
  <2> HIDE DEF r
  <2>6. RefsMove(s, -1) BY <1>0, <2>1, <2>4, <2>5 DEF RefsMove
  <2> QED BY <1>4, <2>4, <2>6, OneLess DEF DropConnection
<1>5. ASSUME NEW c \in Holders, Disconnect(c) PROVE Calm
  BY <1>0, <1>5, AskKeeps DEF Disconnect, Calm
<1>6. ASSUME NEW c \in Holders, NextGatt(c) PROVE Calm
  <2> DEFINE s == holder[c].slot
             r == [slots[s] EXCEPT !.gatt = Tail(@)]
  <2>1. s \in Slots /\ slots[s] \in Slot BY <1>0, <1>6 DEF NextGatt, IInv, Held
  <2>2. Tail(slots[s].gatt) \in Seq(Links \cup {NoLink}) BY <1>6, <2>1 DEF Slot, NextGatt
  <2>3. slots' = [slots EXCEPT ![s] = r] /\ holder' = holder BY <1>0, <1>6, <2>1 DEF NextGatt
  <2>4. r \in Slot /\ Keeps(slots[s], r) BY <2>1, <2>2 DEF Slot, Keeps
  <2> HIDE DEF r, s
  <2> QED BY <1>0, <2>1, <2>3, <2>4 DEF Calm, Keeps
<1>7. CASE UNCHANGED table BY <1>7, SameTable
<1> QED BY <1>1, <1>2, <1>3, <1>4, <1>5, <1>6, <1>7 DEF Application, Send, ChannelSend

-----------------------------------------------------------------------------
LEMMA StepInv == IInv /\ [Next]_vars => IInv'
<1> SUFFICES ASSUME IInv, [Next]_vars PROVE IInv' OBVIOUS
<1>1. ASSUME Calm, LoopsOK' PROVE IInv'
  BY <1>1, OthersKeep DEF Calm, IInv, TypeOK, TableOK
<1>2. CASE Controller
  <2>1. UNCHANGED table BY <1>2 DEF Controller, LinkUp, LinkDown, PacketSent, PacketIn, Execute
  <2> QED BY <1>1, <1>2, <2>1, SameTable, ControllerLoops
<1>3. CASE Rx
  <2>1. CASE RxUp BY <1>3, <2>1, RxUpTable, RxLoops DEF IInv, TypeOK
  <2>2. CASE ~RxUp BY <1>1, <1>3, <2>2, RxCalm, RxLoops DEF Rx
  <2> QED BY <2>1, <2>2
<1>4. CASE Control BY <1>1, <1>4, ControlCalm, ControlLoops
<1>5. CASE Application
  <2>1. LoopsOK' BY <1>5, ApplicationLoops
  <2>2. CASE Calm BY <1>1, <2>1, <2>2
  <2>3. CASE TableOK' /\ Held' /\ RefsAreHolders' BY <2>1, <2>3 DEF IInv, TypeOK
  <2> QED BY <1>5, <2>2, <2>3, ApplicationTable
<1>6. CASE Transmit BY <1>1, <1>6, TransmitCalm, TransmitLoops
<1>7. CASE UNCHANGED vars
  <2>1. LoopsOK' BY <1>7 DEF vars, IInv, TypeOK, LoopsOK
  <2>2. UNCHANGED table BY <1>7 DEF vars, table
  <2> QED BY <1>1, <2>1, <2>2, SameTable
<1> QED BY <1>2, <1>3, <1>4, <1>5, <1>6, <1>7 DEF Next

(* The types of the table, the loops and the controller, for any number of *)
(* slots, handles and holders.                                             *)
THEOREM TypeCorrect == Spec => []TypeOK
<1>1. IInv => TypeOK BY DEF IInv
<1> QED BY <1>1, InitInv, StepInv, PTL DEF Spec

(* A Connection never finds another link in its slot: connect() gives out  *)
(* no slot that a reference is left to, also when the controller uses      *)
(* handles again and a confirmation comes late.                            *)
THEOREM HoldersKeepLinks == Spec => []HolderKeepsItsLink
<1>1. IInv => HolderKeepsItsLink BY DEF IInv, Held, HolderKeepsItsLink
<1> QED BY <1>1, InitInv, StepInv, PTL DEF Spec

(* Refcounts are exact: dec_ref never finds 0, poll_accept never finds a   *)
(* reference.                                                              *)
THEOREM RefsExact == Spec => []RefsAreHolders
<1>1. IInv => RefsAreHolders BY DEF IInv
<1> QED BY <1>1, InitInv, StepInv, PTL DEF Spec

-----------------------------------------------------------------------------
(* Without handle reuse the number of a link is its handle, and everything *)
(* that carries both carries a matching pair.                              *)

OwnPdu    == {p \in Pdu : p.link = p.handle}
OwnPacket == {e \in HciPacket : e.kind # "status" => e.link = e.handle}

OwnSlot(r) ==
    /\ r.link = r.handle /\ r.gatt \in Seq({r.link})
    /\ r.state = "Disconnected" => r.gatt = <<>>

OwnSender(r) == r.link = r.handle /\ (r.pc # "idle" => r.handle \in Handles)

Own ==
    /\ \A s \in Slots : OwnSlot(slots[s])
    /\ outbound \in Seq(OwnPdu)
    /\ \A x \in Sending : OwnSender(sender[x])
    /\ hci \in Seq(OwnPacket)
    /\ \A h \in Handles : live[h] \in {NoLink, h}

LEMMA OwnController ==
    ASSUME ~Reuse, IInv, Own, Controller
    PROVE  Own'
<1>0. /\ live \in [Handles -> Links \cup {NoLink}] /\ hci \in Seq(OwnPacket)
      /\ command \in Handles \cup {NoHandle}
  BY DEF IInv, TypeOK, LoopsOK, Own
<1>1. UNCHANGED <<slots, outbound, sender>>
  BY DEF Controller, LinkUp, LinkDown, PacketSent, PacketIn, Execute, table
<1>2. ASSUME hci' \in Seq(OwnPacket), \A h \in Handles : live'[h] \in {NoLink, h} PROVE Own'
  BY <1>1, <1>2 DEF Own
<1>3. ASSUME NEW k \in {"up", "down", "sent", "gatt", "bad"}, NEW h \in Handles, h \in Links \cup {NoLink}
      PROVE  Packet(k, h, h) \in OwnPacket
  BY <1>3 DEF Packet, OwnPacket, HciPacket
<1>4. ASSUME NEW h \in Handles, LinkUp(h) PROVE Own'
  <2>1. h = count.links + 1 BY <1>4 DEF LinkUp
  <2>2. h \in Links
    <3>1. count.links \in 0 .. MaxLinks BY CountType DEF IInv, TypeOK
    <3>2. MaxLinks \in Nat /\ count.links < MaxLinks BY <1>4, ConnectionsAssumption DEF LinkUp
    <3> QED BY <2>1, <3>1, <3>2 DEF Links
  <2>3. Packet("up", h, h) \in OwnPacket BY <1>3, <2>2
  <2>4. hci' = Append(hci, Packet("up", h, h)) /\ live' = [live EXCEPT ![h] = h]
    BY <1>4, <2>1 DEF LinkUp
  <2>5. hci' \in Seq(OwnPacket) BY <1>0, <2>3, <2>4, AppendType
  <2>6. \A g \in Handles : live'[g] \in {NoLink, g} BY <1>0, <2>4 DEF Own
  <2> QED BY <1>2, <2>5, <2>6
<1>5. ASSUME NEW h \in Handles, NEW k \in {"down", "sent", "gatt", "bad"}, live[h] # NoLink,
             hci' = Append(hci, Packet(k, h, live[h])),
             \A g \in Handles : live'[g] \in {NoLink, g}
      PROVE  Own'
  <2>1. live[h] = h /\ h \in Links \cup {NoLink} BY <1>0, <1>5 DEF Own
  <2>2. Packet(k, h, live[h]) \in OwnPacket BY <1>3, <2>1
  <2>3. hci' \in Seq(OwnPacket) BY <1>0, <1>5, <2>2, AppendType
  <2> QED BY <1>2, <1>5, <2>3
<1>6. ASSUME NEW h \in Handles, LinkDown(h) PROVE Own'
  <2>1. \A g \in Handles : live'[g] \in {NoLink, g} BY <1>0, <1>6 DEF LinkDown, Own
  <2> QED BY <1>5, <1>6, <2>1 DEF LinkDown
<1>8. ASSUME NEW h \in Handles, PacketSent(h) PROVE Own'
  <2>1. \A g \in Handles : live'[g] \in {NoLink, g} BY <1>8 DEF PacketSent, Own
  <2> QED BY <1>5, <1>8, <2>1 DEF PacketSent
<1>9. ASSUME NEW h \in Handles, NEW k \in {"gatt", "bad"}, PacketIn(h, k) PROVE Own'
  <2>1. \A g \in Handles : live'[g] \in {NoLink, g} BY <1>9 DEF PacketIn, Own
  <2> QED BY <1>5, <1>9, <2>1 DEF PacketIn
<1>10. ASSUME Execute PROVE Own'
  <2>1. \A g \in Handles : live'[g] \in {NoLink, g} BY <1>0, <1>10 DEF Execute, Own
  <2>2. command \in Handles BY <1>0, <1>10 DEF Execute
  <2>3. Packet("status", command, NoLink) \in OwnPacket BY <2>2 DEF Packet, OwnPacket, HciPacket
  <2>4. live[command] # NoLink => Packet("down", command, live[command]) \in OwnPacket
    BY <1>0, <1>3, <2>2 DEF Own
  <2>5. hci' \in Seq(OwnPacket) BY <1>0, <1>10, <2>3, <2>4, AppendType DEF Execute
  <2> QED BY <1>2, <2>1, <2>5
<1> QED BY <1>4, <1>6, <1>8, <1>9, <1>10 DEF Controller

(* What becomes of a slot that keeps its link and its queue.               *)
Same(r, q) ==
    /\ q.link = r.link /\ q.handle = r.handle /\ q.gatt = r.gatt
    /\ q.state = "Disconnected" => r.state = "Disconnected"

LEMMA SameOwn ==
    ASSUME Own, \A s \in Slots : Same(slots[s], slots'[s])
    PROVE  \A s \in Slots : OwnSlot(slots'[s])
BY DEF Own, OwnSlot, Same

LEMMA StateSame ==
    ASSUME IInv, NEW t, NEW st \in States \ {"Disconnected"}, SetState(t, st)
    PROVE  \A s \in Slots : Same(slots[s], slots'[s])
<1>1. slots \in [Slots -> Slot] BY DEF IInv, TypeOK, TableOK
<1> QED BY <1>1 DEF SetState, Slot, Same

LEMMA AskSame ==
    ASSUME IInv, NEW S, AskDisconnect(S)
    PROVE  \A s \in Slots : Same(slots[s], slots'[s])
<1>1. CASE slots' = slots BY <1>1 DEF Same
<1>2. CASE SetState(First(S), "DisconnectRequest") BY <1>2, StateSame DEF States
<1> QED BY <1>1, <1>2 DEF AskDisconnect

LEMMA GiveBackSame ==
    ASSUME IInv, NEW h, NEW n, GiveBack(h, n)
    PROVE  \A s \in Slots : Same(slots[s], slots'[s])
<1>1. slots \in [Slots -> Slot] BY DEF IInv, TypeOK, TableOK
<1>2. CASE slots' = slots BY <1>2 DEF Same
<1>3. CASE slots' = [slots EXCEPT ![First(Connected(h))].credits = @ + n]
  <2>1. PICK t : slots' = [slots EXCEPT ![t].credits = @ + n] BY <1>3
  <2> QED BY <1>1, <2>1 DEF Slot, Same
<1> QED BY <1>2, <1>3 DEF GiveBack

(* One slot changes: the others are still as they should be.               *)
LEMMA OneOwn ==
    ASSUME IInv, Own, NEW t \in Slots, NEW r, OwnSlot(r), slots' = [slots EXCEPT ![t] = r]
    PROVE  \A s \in Slots : OwnSlot(slots'[s])
<1>1. slots \in [Slots -> Slot] BY DEF IInv, TypeOK, TableOK
<1> QED BY <1>1 DEF Own

LEMMA HeadOwn ==
    ASSUME Own, hci # <<>>
    PROVE  Head(hci) \in OwnPacket /\ Tail(hci) \in Seq(OwnPacket)
BY DEF Own

LEMMA OwnRx ==
    ASSUME IInv, Own, Rx
    PROVE  Own'
<1>1. slots \in [Slots -> Slot] BY DEF IInv, TypeOK, TableOK
<1>2. ASSUME NEW k, Received(k), \A s \in Slots : OwnSlot(slots'[s]) PROVE Own'
  <2>1. hci' \in Seq(OwnPacket) BY <1>2, HeadOwn DEF Received
  <2> QED BY <1>2, <2>1 DEF Own, Received
<1>3. CASE RxUp
  <2>1. CASE Vacant = {} BY <1>2, <1>3, <2>1 DEF RxUp, Own
  <2>2. CASE Vacant # {}
    <3> DEFINE t == First(Vacant)
               r == [slots[t] EXCEPT !.state = "Connecting", !.handle = Head(hci).handle,
                                     !.link = Head(hci).link, !.credits = Credits]
    <3>1. t \in Slots /\ slots[t].state = "Disconnected" BY <2>2, FirstOf DEF Vacant
    <3>2. slots[t] \in Slot /\ slots[t].gatt = <<>> BY <1>1, <3>1 DEF Own, OwnSlot
    <3>3. Head(hci).link = Head(hci).handle
      BY <1>3, HeadOwn DEF RxUp, Received, OwnPacket
    <3>4. r.link = Head(hci).link /\ r.handle = Head(hci).handle /\ r.gatt = <<>>
      BY <3>2 DEF Slot
    <3>5. slots' = [slots EXCEPT ![t] = r] BY <1>3, <2>2 DEF RxUp
    <3> HIDE DEF t, r
    <3>6. OwnSlot(r) BY <3>3, <3>4 DEF OwnSlot
    <3>7. \A s \in Slots : OwnSlot(slots'[s]) BY <3>1, <3>5, <3>6, OneOwn
    <3> QED BY <1>2, <1>3, <3>7 DEF RxUp
  <2> QED BY <2>1, <2>2
<1>4. CASE RxRefuse BY <1>4 DEF RxRefuse, Own, table, radio
<1>5. CASE RxDown
  <2> DEFINE S == OfHandle(Head(hci).handle)
             t == First(S)
             r == [slots[t] EXCEPT !.state = "Disconnected", !.gatt = <<>>]
  <2>1. CASE S = {} BY <1>2, <1>5, <2>1 DEF RxDown, Own
  <2>2. CASE S # {}
    <3>1. t \in Slots BY <2>2, FirstOf DEF OfHandle
    <3>2. slots[t] \in Slot /\ slots[t].link = slots[t].handle BY <1>1, <3>1 DEF Own, OwnSlot
    <3>3. r.link = slots[t].link /\ r.handle = slots[t].handle /\ r.gatt = <<>> BY <3>2 DEF Slot
    <3>4. OwnSlot(r) BY <3>2, <3>3 DEF OwnSlot
    <3>5. slots' = [slots EXCEPT ![t] = r] BY <1>5, <2>2 DEF RxDown
    <3> HIDE DEF t, r
    <3>6. \A s \in Slots : OwnSlot(slots'[s]) BY <3>1, <3>4, <3>5, OneOwn
    <3> QED BY <1>2, <1>5, <3>6 DEF RxDown
  <2> QED BY <2>1, <2>2
<1>6. CASE RxSent
  <2>1. \A s \in Slots : OwnSlot(slots'[s]) BY <1>6, GiveBackSame, SameOwn DEF RxSent
  <2> QED BY <1>2, <1>6, <2>1 DEF RxSent
<1>7. CASE RxGatt
  <2> DEFINE S == Connected(Head(hci).handle)
             t == First(S)
             r == [slots[t] EXCEPT !.gatt = Append(@, Head(hci).link)]
  <2>1. CASE slots' = slots BY <1>2, <1>7, <2>1 DEF RxGatt, Own
  <2>2. CASE S # {} /\ slots' = [slots EXCEPT ![t].gatt = Append(@, Head(hci).link)]
    <3>1. t \in Slots /\ slots[t].state = "Connected" /\ slots[t].handle = Head(hci).handle
      BY <2>2, FirstOf DEF Connected
    <3>2. slots[t] \in Slot /\ OwnSlot(slots[t]) BY <1>1, <3>1 DEF Own
    <3>3. Head(hci).link = slots[t].link
      BY <1>7, <3>1, <3>2, HeadOwn DEF RxGatt, Received, OwnPacket, OwnSlot
    <3>4. Append(slots[t].gatt, Head(hci).link) \in Seq({slots[t].link})
      BY <3>2, <3>3, AppendType DEF OwnSlot
    <3>5. r.link = slots[t].link /\ r.handle = slots[t].handle /\ r.state = "Connected"
          /\ r.gatt = Append(slots[t].gatt, Head(hci).link)
      BY <3>1, <3>2 DEF Slot
    <3>6. OwnSlot(r) BY <3>2, <3>4, <3>5 DEF OwnSlot
    <3>7. slots' = [slots EXCEPT ![t] = r] BY <1>1, <2>2
    <3> HIDE DEF t, r
    <3>8. \A s \in Slots : OwnSlot(slots'[s]) BY <3>1, <3>6, <3>7, OneOwn
    <3> QED BY <1>2, <1>7, <3>8 DEF RxGatt
  <2> QED BY <1>7, <2>1, <2>2 DEF RxGatt
<1>8. CASE RxBad
  <2>1. \A s \in Slots : OwnSlot(slots'[s]) BY <1>8, AskSame, SameOwn DEF RxBad
  <2> QED BY <1>2, <1>8, <2>1 DEF RxBad
<1>9. CASE RxStatus BY <1>2, <1>9 DEF RxStatus, Own
<1> QED BY <1>3, <1>4, <1>5, <1>6, <1>7, <1>8, <1>9 DEF Rx

LEMMA OwnControl ==
    ASSUME IInv, Own, Control
    PROVE  Own'
<1>1. CASE TakeRequest BY <1>1 DEF TakeRequest, Own, table, radio
<1>2. CASE Confirm
  <2>1. \A s \in Slots : OwnSlot(slots'[s])
    BY <1>2, StateSame, SameOwn DEF Confirm, States
  <2> QED BY <1>2, <2>1 DEF Confirm, Own, radio
<1> QED BY <1>1, <1>2 DEF Control

LEMMA OwnTransmit ==
    ASSUME IInv, Own, Transmit
    PROVE  Own'
<1>0. /\ sender \in [Sending -> Sender] /\ \A s \in Slots : OwnSlot(slots[s])
      /\ outbound \in Seq(OwnPdu)
  BY DEF IInv, TypeOK, LoopsOK, Own
<1>1. ASSUME NEW x \in Sending, NEW r, OwnSender(r), sender' = [sender EXCEPT ![x] = r],
             \A s \in Slots : OwnSlot(slots'[s]), outbound' \in Seq(OwnPdu),
             UNCHANGED <<hci, live>>
      PROVE  Own'
  BY <1>0, <1>1 DEF Own
<1>2. TxRunner \in Sending /\ OwnSender(Quiet)
  BY DEF Sending, OwnSender, Quiet, NoHandle, NoLink
<1>3. CASE TxTake
  <2>1. outbound # <<>> /\ outbound' = Tail(outbound) /\ UNCHANGED <<slots, hci, live>>
    BY <1>3 DEF TxTake, table, radio
  <2> DEFINE p == Head(outbound)
             r == [pc |-> "ask", handle |-> p.handle, link |-> p.link, frags |-> p.frags, grant |-> 0]
  <2>2. p \in OwnPdu /\ outbound' \in Seq(OwnPdu) BY <1>0, <2>1
  <2>3. sender' = [sender EXCEPT ![TxRunner] = r] BY <1>3 DEF TxTake, Ask
  <2>4. OwnSender(r) BY <2>2 DEF OwnPdu, Pdu, OwnSender
  <2> HIDE DEF p, r
  <2> QED BY <1>0, <1>1, <1>2, <2>1, <2>2, <2>3, <2>4
<1>4. ASSUME NEW x \in Sending, NEW n \in 1 .. MaxFrags + 1, Grant(x, n) PROVE Own'
  <2> DEFINE S == Connected(sender[x].handle)
  <2>1. UNCHANGED <<outbound, hci, live>> BY <1>4 DEF Grant, radio
  <2>2. CASE slots' = slots /\ sender' = [sender EXCEPT ![x] = Quiet]
    BY <1>0, <1>1, <1>2, <2>1, <2>2
  <2>3. CASE /\ slots' = [slots EXCEPT ![First(S)].credits = @ - n]
             /\ sender' = [sender EXCEPT ![x] = [sender[x] EXCEPT !.pc = "send", !.grant = n]]
    <3>1. slots \in [Slots -> Slot] BY DEF IInv, TypeOK, TableOK
    <3>2. PICK t : slots' = [slots EXCEPT ![t].credits = @ - n] BY <2>3
    <3>3. \A s \in Slots : OwnSlot(slots'[s]) BY <3>1, <3>2, SameOwn DEF Slot, Same
    <3> DEFINE r == [sender[x] EXCEPT !.pc = "send", !.grant = n]
    <3>4. OwnSender(r) BY <1>0, <1>4 DEF Own, OwnSender, Sender, Grant
    <3>5. sender' = [sender EXCEPT ![x] = r] BY <2>3
    <3> HIDE DEF r
    <3> QED BY <1>0, <1>1, <2>1, <3>3, <3>4, <3>5
  <2> QED BY <1>4, <2>2, <2>3 DEF Grant
<1>5. ASSUME NEW x \in Sending, Write(x) PROVE Own'
  <2> DEFINE r == [sender[x] EXCEPT !.frags = @ - 1, !.grant = Less(@)]
  <2>1. OwnSender(r) BY <1>0, <1>5 DEF Own, OwnSender, Sender, Write
  <2>2. sender' = [sender EXCEPT ![x] = r] /\ UNCHANGED <<slots, outbound, hci, live>>
    BY <1>5 DEF Write, table
  <2> HIDE DEF r
  <2> QED BY <1>0, <1>1, <2>1, <2>2
<1>6. ASSUME NEW x \in Sending, DropSender(x) PROVE Own'
  <2>1. \A s \in Slots : OwnSlot(slots'[s]) BY <1>6, GiveBackSame, SameOwn DEF DropSender
  <2> QED BY <1>0, <1>1, <1>2, <1>6, <2>1 DEF DropSender, radio
<1>7. ASSUME NEW x \in Sending, CancelAsk(x) PROVE Own'
  BY <1>0, <1>1, <1>2, <1>7 DEF CancelAsk, table, radio
<1> QED BY <1>3, <1>4, <1>5, <1>6, <1>7 DEF Transmit

LEMMA OwnApplication ==
    ASSUME IInv, Own, Application
    PROVE  Own'
<1>0. /\ slots \in [Slots -> Slot] /\ \A s \in Slots : OwnSlot(slots[s])
      /\ outbound \in Seq(OwnPdu) /\ sender \in [Sending -> Sender]
  BY DEF IInv, TypeOK, TableOK, LoopsOK, Own
<1>1. ASSUME UNCHANGED <<outbound, sender, hci, live>>, \A s \in Slots : OwnSlot(slots'[s])
      PROVE  Own'
  BY <1>1 DEF Own
<1>2. ASSUME NEW c \in Holders, NEW s \in Slots, Accept(c, s) PROVE Own'
  <2> DEFINE r == [slots[s] EXCEPT !.state = "Connected", !.refs = @ + 1]
  <2>1. slots' = [slots EXCEPT ![s] = r] BY <1>2 DEF Accept
  <2>2. Same(slots[s], r) BY <1>0 DEF Slot, Same
  <2> HIDE DEF r
  <2>3. \A t \in Slots : Same(slots[t], slots'[t]) BY <1>0, <2>1, <2>2 DEF Same
  <2> QED BY <1>1, <1>2, <2>3, SameOwn DEF Accept, radio
<1>3. ASSUME NEW c \in Holders, NEW h \in Handles, GetConnected(c, h) PROVE Own'
  <2>1. PICK t : slots' = [slots EXCEPT ![t].refs = @ + 1] BY <1>3 DEF GetConnected
  <2>2. \A s \in Slots : Same(slots[s], slots'[s]) BY <1>0, <2>1 DEF Slot, Same
  <2> QED BY <1>1, <1>3, <2>2, SameOwn DEF GetConnected, radio
<1>4. ASSUME NEW c \in Holders, NEW d \in Holders, Clone(c, d) PROVE Own'
  <2>1. PICK t : slots' = [slots EXCEPT ![t].refs = @ + 1] BY <1>4 DEF Clone
  <2>2. \A s \in Slots : Same(slots[s], slots'[s]) BY <1>0, <2>1 DEF Slot, Same
  <2> QED BY <1>1, <1>4, <2>2, SameOwn DEF Clone, radio
<1>5. ASSUME NEW c \in Holders, DropConnection(c) PROVE Own'
  <2> DEFINE t == holder[c].slot
             last == slots[t].refs = 1 /\ slots[t].state = "Connected"
             r == [slots[t] EXCEPT !.refs = @ - 1, !.state = IF last THEN "DisconnectRequest" ELSE @]
  <2>1. slots' = [slots EXCEPT ![t] = r] BY <1>5 DEF DropConnection
  <2>2. t \in Slots BY <1>5 DEF DropConnection, IInv, Held
  <2>3. Same(slots[t], r) BY <1>0, <2>2 DEF Slot, Same
  <2> HIDE DEF r, t
  <2>4. \A s \in Slots : Same(slots[s], slots'[s]) BY <1>0, <2>1, <2>3 DEF Same
  <2> QED BY <1>1, <1>5, <2>4, SameOwn DEF DropConnection, radio
<1>6. ASSUME NEW c \in Holders, Disconnect(c) PROVE Own'
  <2>1. \A s \in Slots : Same(slots[s], slots'[s]) BY <1>6, AskSame DEF Disconnect
  <2> QED BY <1>1, <1>6, <2>1, SameOwn DEF Disconnect, radio
<1>7. ASSUME NEW c \in Holders, NEW n \in 1 .. MaxFrags, Send(c, n) PROVE Own'
  <2> DEFINE t == holder[c].slot
             p == [handle |-> slots[t].handle, link |-> holder[c].link, frags |-> n]
  <2>1. t \in Slots /\ slots[t].link = holder[c].link /\ slots[t].handle \in Handles
    BY <1>7 DEF Send, IInv, Held
  <2>2. slots[t].link = slots[t].handle BY <1>0, <2>1 DEF OwnSlot
  <2>3. slots[t].link \in Links \cup {NoLink} BY <1>0, <2>1 DEF Slot
  <2>4. n \in Nat BY ConnectionsAssumption
  <2>5. p \in OwnPdu BY <2>1, <2>2, <2>3, <2>4 DEF OwnPdu, Pdu
  <2>6. outbound' = Append(outbound, p) BY <1>7 DEF Send
  <2> HIDE DEF p
  <2>7. outbound' \in Seq(OwnPdu) BY <1>0, <2>5, <2>6, AppendType
  <2> QED BY <1>0, <1>7, <2>7 DEF Send, Own, table, radio
<1>8. ASSUME NEW c \in Holders, NextGatt(c) PROVE Own'
  <2> DEFINE t == holder[c].slot
             r == [slots[t] EXCEPT !.gatt = Tail(@)]
  <2>1. t \in Slots /\ slots[t].gatt # <<>> BY <1>8 DEF NextGatt, IInv, Held
  <2>2. slots[t] \in Slot /\ OwnSlot(slots[t]) BY <1>0, <2>1
  <2>3. Tail(slots[t].gatt) \in Seq({slots[t].link}) BY <2>1, <2>2 DEF OwnSlot
  <2>4. r.link = slots[t].link /\ r.handle = slots[t].handle /\ r.state = slots[t].state
        /\ r.gatt = Tail(slots[t].gatt)
    BY <2>2 DEF Slot
  <2>5. slots' = [slots EXCEPT ![t] = r] BY <1>0, <1>8 DEF NextGatt
  <2> HIDE DEF r, t
  <2>6. OwnSlot(r) BY <2>1, <2>2, <2>3, <2>4 DEF OwnSlot
  <2>7. \A s \in Slots : OwnSlot(slots'[s]) BY <2>1, <2>5, <2>6, OneOwn
  <2> QED BY <1>1, <1>8, <2>7 DEF NextGatt, radio
<1>9. ASSUME NEW x \in Senders, NEW h \in Handles, NEW n \in 1 .. MaxFrags, ChannelSend(x, h, n)
      PROVE  Own'
  <2> DEFINE t == First(Connected(h))
             r == [pc |-> "ask", handle |-> h, link |-> slots[t].link, frags |-> n, grant |-> 0]
  <2>1. t \in Slots /\ slots[t].handle = h BY <1>9, FirstOf DEF ChannelSend, Connected
  <2>2. OwnSender(r) BY <1>0, <2>1 DEF OwnSlot, OwnSender
  <2>3. sender' = [sender EXCEPT ![x] = r] /\ UNCHANGED <<slots, outbound, hci, live>>
    BY <1>9 DEF ChannelSend, Ask, table, radio
  <2> HIDE DEF r, t
  <2> QED BY <1>0, <2>2, <2>3 DEF Own
<1> QED BY <1>2, <1>3, <1>4, <1>5, <1>6, <1>7, <1>8, <1>9 DEF Application

-----------------------------------------------------------------------------
LEMMA OwnInit == Init => Own
<1> SUFFICES ASSUME Init PROVE Own OBVIOUS
<1>1. OwnSlot(Free)
  <2>1. Free.link = Free.handle /\ Free.gatt = <<>> BY DEF Free, NoLink, NoHandle
  <2> QED BY <2>1 DEF OwnSlot
<1>2. outbound \in Seq(OwnPdu) /\ hci \in Seq(OwnPacket) BY DEF Init
<1>3. OwnSender(Quiet) BY DEF OwnSender, Quiet, NoLink, NoHandle
<1> QED BY <1>1, <1>2, <1>3 DEF Init, Own

LEMMA OwnStep ==
    ASSUME ~Reuse
    PROVE  IInv /\ Own /\ [Next]_vars => Own'
<1> SUFFICES ASSUME IInv, Own, [Next]_vars PROVE Own' OBVIOUS
<1>1. CASE UNCHANGED vars BY <1>1 DEF vars, Own
<1> QED BY <1>1, OwnController, OwnRx, OwnControl, OwnApplication, OwnTransmit DEF Next

(* Without handle reuse, a PDU goes out on the link of the Connection or   *)
(* the channel that sent it, however late it leaves the queue and whoever  *)
(* has the slot by then.                                                   *)
THEOREM PdusStayOnLink == ~Reuse => (Spec => []PduOnItsLink)
<1> SUFFICES ASSUME ~Reuse PROVE Spec => []PduOnItsLink OBVIOUS
<1>1. Own => PduOnItsLink
  <2> SUFFICES ASSUME Own, NEW x \in Sending, sender[x].pc = "send"
               PROVE  live[sender[x].handle] \in {NoLink, sender[x].link}
    BY DEF PduOnItsLink
  <2>1. sender[x].handle \in Handles /\ sender[x].link = sender[x].handle BY DEF Own, OwnSender
  <2> QED BY <2>1 DEF Own
<1>2. IInv /\ Own /\ [Next]_vars => Own' BY OwnStep
<1> QED BY <1>1, <1>2, OwnInit, InitInv, StepInv, PTL DEF Spec

(* Without handle reuse, a session reads no ATT PDU of another link from   *)
(* its slot.                                                               *)
THEOREM GattStaysOnLink == ~Reuse => (Spec => []GattOfItsLink)
<1> SUFFICES ASSUME ~Reuse PROVE Spec => []GattOfItsLink OBVIOUS
<1>1. Own => GattOfItsLink
  <2> SUFFICES ASSUME Own, NEW s \in Slots, NEW i \in 1 .. Len(slots[s].gatt)
               PROVE  slots[s].gatt[i] = slots[s].link
    BY DEF GattOfItsLink
  <2>1. slots[s].gatt \in Seq({slots[s].link}) BY DEF Own, OwnSlot
  <2> QED BY <2>1
<1>2. IInv /\ Own /\ [Next]_vars => Own' BY OwnStep
<1> QED BY <1>1, <1>2, OwnInit, InitInv, StepInv, PTL DEF Spec

-----------------------------------------------------------------------------
(* Link credits.  Counting the packets of a queue that are equal to one.   *)

At(q, f) == {i \in 1 .. Len(q) : q[i] = f}

LEMMA AtFinite ==
    ASSUME NEW S, NEW q \in Seq(S), NEW f
    PROVE  IsFiniteSet(At(q, f)) /\ Cardinality(At(q, f)) \in Nat
<1>1. IsFiniteSet(1 .. Len(q)) BY FS_Interval
<1>2. At(q, f) \subseteq 1 .. Len(q) BY DEF At
<1> QED BY <1>1, <1>2, FS_Subset, FS_CardinalityType

LEMMA AtAppend ==
    ASSUME NEW S, NEW q \in Seq(S), NEW e \in S, NEW f
    PROVE  Cardinality(At(Append(q, e), f)) = Cardinality(At(q, f)) + (IF e = f THEN 1 ELSE 0)
<1>1. At(Append(q, e), f) = IF e = f THEN At(q, f) \cup {Len(q) + 1} ELSE At(q, f)
  BY DEF At
<1>2. Len(q) + 1 \notin At(q, f) BY DEF At
<1>3. Cardinality(At(q, f) \cup {Len(q) + 1}) = Cardinality(At(q, f)) + 1
  BY <1>2, AtFinite, FS_AddElement
<1> QED BY <1>1, <1>3, AtFinite

LEMMA AtTail ==
    ASSUME NEW S, NEW q \in Seq(S), q # <<>>, NEW f
    PROVE  Cardinality(At(Tail(q), f)) = Cardinality(At(q, f)) - (IF Head(q) = f THEN 1 ELSE 0)
<1> DEFINE A == At(Tail(q), f)
           B == At(q, f) \ {1}
           g == [i \in A |-> i + 1]
<1>0. Len(q) \in Nat /\ Len(q) > 0 /\ Len(Tail(q)) = Len(q) - 1
      /\ \A i \in 1 .. Len(Tail(q)) : Tail(q)[i] = q[i + 1]
  OBVIOUS
<1>1. \A i \in A : g[i] \in B
  <2> SUFFICES ASSUME NEW i \in A PROVE i + 1 \in B OBVIOUS
  <2>1. i \in 1 .. Len(Tail(q)) /\ Tail(q)[i] = f BY DEF At
  <2> QED BY <1>0, <2>1 DEF At
<1>2. \A j \in B : j - 1 \in A /\ g[j - 1] = j
  <2> SUFFICES ASSUME NEW j \in B PROVE j - 1 \in A /\ (j - 1) + 1 = j OBVIOUS
  <2>1. j \in 2 .. Len(q) /\ q[j] = f BY <1>0 DEF At
  <2>2. j - 1 \in 1 .. Len(Tail(q)) /\ (j - 1) + 1 = j BY <1>0, <2>1
  <2>3. Tail(q)[j - 1] = f BY <1>0, <2>1, <2>2
  <2> QED BY <2>2, <2>3 DEF At
<1>3. \A i, j \in A : g[i] = g[j] => i = j BY DEF At
<1>4. g \in Bijection(A, B)
  <2>1. g \in [A -> B] BY <1>1
  <2> HIDE DEF A, B
  <2> QED BY <1>2, <1>3, <2>1 DEF Bijection, Injection, Surjection, IsInjective
<1>5. IsFiniteSet(A)
  <2>1. Tail(q) \in Seq(S) OBVIOUS
  <2> QED BY <2>1, AtFinite
<1>6. Cardinality(B) = Cardinality(A) BY <1>4, <1>5, FS_Bijection DEF ExistsBijection
<1>7. Head(q) = q[1] /\ (1 \in At(q, f) <=> Head(q) = f) BY <1>0 DEF At
<1>8. Cardinality(B) = IF 1 \in At(q, f) THEN Cardinality(At(q, f)) - 1 ELSE Cardinality(At(q, f))
  BY AtFinite, FS_RemoveElement
<1> QED BY <1>6, <1>7, <1>8, AtFinite

-----------------------------------------------------------------------------
(* Counting the credits the senders have: when one sender changes, the     *)
(* number changes by what that one has.                                    *)

TokensIn(f, h) == {t \in Sending \X (1 .. MaxFrags + 1) : f[t[1]].handle = h /\ t[2] <= f[t[1]].grant}

Share(r, h) == IF r.handle = h THEN r.grant ELSE 0

LEMMA TokensFinite ==
    ASSUME NEW f, NEW h
    PROVE  IsFiniteSet(TokensIn(f, h)) /\ Cardinality(TokensIn(f, h)) \in Nat
<1>1. IsFiniteSet(Sending) BY ConnectionsAssumption, FS_AddElement DEF Sending
<1>2. MaxFrags + 1 \in Int BY ConnectionsAssumption
<1>3. IsFiniteSet(1 .. MaxFrags + 1) BY <1>2, FS_Interval
<1>4. IsFiniteSet(Sending \X (1 .. MaxFrags + 1)) BY <1>1, <1>3, FS_Product
<1>5. TokensIn(f, h) \subseteq Sending \X (1 .. MaxFrags + 1) BY DEF TokensIn
<1> QED BY <1>4, <1>5, FS_Subset, FS_CardinalityType

LEMMA Segment ==
    ASSUME NEW n \in Nat
    PROVE  IsFiniteSet(1 .. n) /\ Cardinality(1 .. n) = n
<1>1. 1 \in Int /\ n \in Int OBVIOUS
<1>2. IsFiniteSet(1 .. n) /\ Cardinality(1 .. n) = IF 1 > n THEN 0 ELSE n - 1 + 1
  BY <1>1, FS_Interval
<1> QED BY <1>2

LEMMA TokensOfOne ==
    ASSUME NEW f, NEW h, NEW x \in Sending, f[x].grant \in 0 .. MaxFrags + 1
    PROVE  Cardinality({t \in TokensIn(f, h) : t[1] = x}) = Share(f[x], h)
<1> DEFINE A == {t \in TokensIn(f, h) : t[1] = x}
           n == f[x].grant
<1>0. n \in Nat /\ MaxFrags \in Nat BY ConnectionsAssumption
<1>1. CASE f[x].handle # h
  <2>1. A = {} BY <1>1 DEF TokensIn
  <2> QED BY <1>1, <2>1, FS_EmptySet DEF Share
<1>2. CASE f[x].handle = h
  <2>1. A = {x} \X (1 .. n)
    <3>1. ASSUME NEW t \in A PROVE t \in {x} \X (1 .. n)
      BY <1>0, <3>1 DEF TokensIn
    <3>2. ASSUME NEW t \in {x} \X (1 .. n) PROVE t \in A
      BY <1>0, <1>2, <3>2 DEF TokensIn
    <3> QED BY <3>1, <3>2
  <2>2. IsFiniteSet(1 .. n) /\ Cardinality(1 .. n) = n BY <1>0, Segment
  <2>3. IsFiniteSet({x}) /\ Cardinality({x}) = 1 BY FS_Singleton
  <2>4. Cardinality({x} \X (1 .. n)) = 1 * n BY <2>2, <2>3, FS_Product
  <2>5. Share(f[x], h) = n BY <1>2 DEF Share
  <2>6. Cardinality(A) = n
    <3> HIDE DEF A, n
    <3> QED BY <1>0, <2>1, <2>4
  <2> QED BY <2>5, <2>6
<1> QED BY <1>1, <1>2

LEMMA TokensChange ==
    ASSUME NEW f \in [Sending -> Sender], NEW g \in [Sending -> Sender], NEW h, NEW x \in Sending,
           \A y \in Sending \ {x} : g[y] = f[y],
           f[x].grant \in 0 .. MaxFrags + 1, g[x].grant \in 0 .. MaxFrags + 1
    PROVE  Cardinality(TokensIn(g, h)) =
               Cardinality(TokensIn(f, h)) - Share(f[x], h) + Share(g[x], h)
<1> DEFINE F == {t \in TokensIn(f, h) : t[1] = x}
           G == {t \in TokensIn(g, h) : t[1] = x}
           R == {t \in TokensIn(f, h) : t[1] # x}
<1>1. TokensIn(f, h) = F \cup R /\ F \cap R = {} OBVIOUS
<1>2. TokensIn(g, h) = G \cup R /\ G \cap R = {} BY DEF TokensIn
<1>3. IsFiniteSet(F) /\ IsFiniteSet(G) /\ IsFiniteSet(R)
  <2>1. F \subseteq TokensIn(f, h) /\ R \subseteq TokensIn(f, h) /\ G \subseteq TokensIn(g, h)
    OBVIOUS
  <2> HIDE DEF F, G, R
  <2> QED BY <2>1, TokensFinite, FS_Subset
<1>4. Cardinality(F) = Share(f[x], h) /\ Cardinality(G) = Share(g[x], h) BY TokensOfOne
<1> HIDE DEF F, G, R
<1>5. Cardinality(F) \in Nat /\ Cardinality(G) \in Nat /\ Cardinality(R) \in Nat
  BY <1>3, FS_CardinalityType
<1>6. Cardinality(F \cup R) = Cardinality(F) + Cardinality(R) - Cardinality(F \cap R)
      /\ Cardinality(G \cup R) = Cardinality(G) + Cardinality(R) - Cardinality(G \cap R)
  BY <1>3, FS_Union
<1>7. Cardinality(F \cap R) = 0 /\ Cardinality(G \cap R) = 0 BY <1>1, <1>2, FS_EmptySet
<1>8. Cardinality(TokensIn(f, h)) = Cardinality(F) + Cardinality(R)
      /\ Cardinality(TokensIn(g, h)) = Cardinality(G) + Cardinality(R)
  BY <1>1, <1>2, <1>5, <1>6, <1>7
<1> QED BY <1>4, <1>5, <1>8

LEMMA TokensUpdate ==
    ASSUME NEW f \in [Sending -> Sender], NEW x \in Sending, NEW r \in Sender, NEW h,
           f[x].grant \in 0 .. MaxFrags + 1, r.grant \in 0 .. MaxFrags + 1
    PROVE  Cardinality(TokensIn([f EXCEPT ![x] = r], h)) =
               Cardinality(TokensIn(f, h)) - Share(f[x], h) + Share(r, h)
<1> DEFINE g == [f EXCEPT ![x] = r]
<1>1. g \in [Sending -> Sender] /\ g[x] = r /\ \A y \in Sending \ {x} : g[y] = f[y] OBVIOUS
<1> HIDE DEF g
<1>2. Cardinality(TokensIn(g, h)) = Cardinality(TokensIn(f, h)) - Share(f[x], h) + Share(g[x], h)
  BY <1>1, TokensChange
<1> QED BY <1>1, <1>2 DEF g

LEMMA NoTokens ==
    ASSUME NEW f, NEW h, \A x \in Sending : f[x].handle = h => f[x].grant = 0
    PROVE  Cardinality(TokensIn(f, h)) = 0
<1>1. TokensIn(f, h) = {}
  <2> SUFFICES ASSUME NEW t \in TokensIn(f, h) PROVE FALSE OBVIOUS
  <2>1. f[t[1]].grant = 0 /\ t[2] \in 1 .. MaxFrags + 1 /\ t[2] <= f[t[1]].grant BY DEF TokensIn
  <2> QED BY <2>1
<1> QED BY <1>1, FS_EmptySet

-----------------------------------------------------------------------------
(* Where the credits of a link are.  A link that has not come up, or whose *)
(* slot waits for accept(), has all of them in its slot: no grant, no      *)
(* packet in the controller, no completion on the way.  No two slots have  *)
(* the same handle, and a handle comes up once.                            *)

Out(h)  == Cardinality(TokensIn(sender, h))
Back(h) == Cardinality(At(hci, Packet("sent", h, h)))

Unused(h) == Out(h) = 0 /\ buffered[h] = 0 /\ Back(h) = 0

GrantFits(r) ==
    IF r.pc = "send" THEN r.frags <= r.grant /\ r.grant <= MaxFrags + 1 ELSE r.grant = 0

Known ==
    /\ \A s \in Slots : slots[s].handle <= count.links
    /\ \A s \in Slots : slots[s].state = "Connected" => slots[s].handle \in Handles
    /\ \A h \in Handles : h > count.links => Unused(h)
    /\ \A s, t \in Slots : slots[s].handle = slots[t].handle => s = t \/ slots[s].handle = NoHandle

UpHandles(q) == {q[i].handle : i \in {k \in 1 .. Len(q) : q[k].kind = "up"}}

UpsDistinct(q) ==
    \A i, j \in 1 .. Len(q) : q[i].kind = "up" /\ q[j].kind = "up" /\ q[i].handle = q[j].handle => i = j

Ups ==
    /\ UpsDistinct(hci)
    /\ \A h \in UpHandles(hci) : /\ h <= count.links /\ Unused(h)
                                 /\ \A s \in Slots : slots[s].handle # h

Fresh ==
    \A s \in Slots : slots[s].state = "Connecting" => slots[s].credits = Credits /\ Unused(slots[s].handle)

All(s) == slots[s].credits + Out(slots[s].handle) + buffered[slots[s].handle] + Back(slots[s].handle)

Balanced ==
    \A s \in Slots : slots[s].state = "Connected" /\ live[slots[s].handle] = slots[s].handle => All(s) = Credits

Tally == (\A x \in Sending : GrantFits(sender[x])) /\ Known /\ Ups /\ Fresh /\ Balanced

LEMMA UpsAppend ==
    ASSUME NEW S, NEW q \in Seq(S), NEW e \in S, UpsDistinct(q),
           e.kind = "up" => e.handle \notin UpHandles(q)
    PROVE  /\ UpHandles(Append(q, e)) = UpHandles(q) \cup (IF e.kind = "up" THEN {e.handle} ELSE {})
           /\ UpsDistinct(Append(q, e))
<1> DEFINE p == Append(q, e)
<1>1. Len(p) = Len(q) + 1 /\ p[Len(q) + 1] = e /\ \A i \in 1 .. Len(q) : p[i] = q[i] OBVIOUS
<1>2. Len(q) \in Nat OBVIOUS
<1> HIDE DEF p
<1>3. UpHandles(p) = UpHandles(q) \cup (IF e.kind = "up" THEN {e.handle} ELSE {})
  BY <1>1, <1>2 DEF UpHandles
<1>4. UpsDistinct(p) BY <1>1, <1>2 DEF UpsDistinct, UpHandles
<1> QED BY <1>3, <1>4 DEF p

LEMMA UpsAppendOther ==
    ASSUME NEW S, NEW q \in Seq(S), NEW e \in S, UpsDistinct(q), e.kind # "up"
    PROVE  UpHandles(Append(q, e)) = UpHandles(q) /\ UpsDistinct(Append(q, e))
<1>1. UpHandles(Append(q, e)) = UpHandles(q) \cup {} /\ UpsDistinct(Append(q, e)) BY UpsAppend
<1> QED BY <1>1

LEMMA UpsTail ==
    ASSUME NEW S, NEW q \in Seq(S), q # <<>>, UpsDistinct(q)
    PROVE  /\ UpHandles(Tail(q)) \subseteq UpHandles(q)
           /\ UpsDistinct(Tail(q))
           /\ Head(q).kind = "up" => /\ Head(q).handle \in UpHandles(q)
                                     /\ Head(q).handle \notin UpHandles(Tail(q))
<1> DEFINE p == Tail(q)
<1>1. Len(q) = Len(p) + 1 /\ \A i \in 1 .. Len(p) : p[i] = q[i + 1] OBVIOUS
<1>2. Len(p) \in Nat /\ Head(q) = q[1] OBVIOUS
<1> HIDE DEF p
<1>3. UpHandles(p) \subseteq UpHandles(q) BY <1>1, <1>2 DEF UpHandles
<1>4. UpsDistinct(p)
  <2> SUFFICES ASSUME NEW i \in 1 .. Len(p), NEW j \in 1 .. Len(p), p[i].kind = "up", p[j].kind = "up",
                      p[i].handle = p[j].handle
               PROVE  i = j
    BY DEF UpsDistinct
  <2>1. i + 1 \in 1 .. Len(q) /\ j + 1 \in 1 .. Len(q) /\ p[i] = q[i + 1] /\ p[j] = q[j + 1]
    BY <1>1, <1>2
  <2>2. i + 1 = j + 1 BY <2>1 DEF UpsDistinct
  <2> QED BY <2>2
<1>5. ASSUME Head(q).kind = "up"
      PROVE  Head(q).handle \in UpHandles(q) /\ Head(q).handle \notin UpHandles(p)
  <2>1. 1 \in 1 .. Len(q) BY <1>1, <1>2
  <2>2. Head(q).handle \in UpHandles(q) BY <1>2, <1>5, <2>1 DEF UpHandles
  <2>3. ASSUME NEW i \in 1 .. Len(p), p[i].kind = "up", p[i].handle = Head(q).handle PROVE FALSE
    <3>1. i + 1 \in 1 .. Len(q) /\ p[i] = q[i + 1] /\ i + 1 # 1 BY <1>1, <1>2
    <3> QED BY <1>2, <1>5, <2>1, <2>3, <3>1 DEF UpsDistinct
  <2> QED BY <2>2, <2>3 DEF UpHandles
<1> QED BY <1>3, <1>4, <1>5 DEF p

LEMMA UpHandlesType ==
    ASSUME NEW q \in Seq(HciPacket)
    PROVE  UpHandles(q) \subseteq Handles
<1> SUFFICES ASSUME NEW i \in 1 .. Len(q) PROVE q[i].handle \in Handles BY DEF UpHandles
<1>1. q[i] \in HciPacket OBVIOUS
<1> QED BY <1>1 DEF HciPacket

LEMMA Numbers ==
    ASSUME IInv, NEW h \in Handles
    PROVE  Out(h) \in Nat /\ buffered[h] \in Nat /\ Back(h) \in Nat
<1>1. hci \in Seq(HciPacket) /\ buffered \in [Handles -> Nat] BY DEF IInv, TypeOK, LoopsOK
<1> QED BY <1>1, AtFinite, TokensFinite DEF Out, Back

(* A step that brings no link up and gives no slot another handle.         *)
Steady ==
    /\ count'.links = count.links
    /\ \A s \in Slots : /\ slots'[s].handle = slots[s].handle
                        /\ slots'[s].state = "Connecting" =>
                             slots[s].state = "Connecting" /\ slots'[s].credits = slots[s].credits
                        /\ slots'[s].state = "Connected" => slots[s].state \in {"Connected", "Connecting"}
    /\ UpHandles(hci') \subseteq UpHandles(hci) /\ UpsDistinct(hci')
    /\ \A x \in Sending : GrantFits(sender'[x])

LEMMA SteadyTally ==
    ASSUME IInv, IInv', Own, Tally, Steady,
           \A h \in Handles : Unused(h) => Unused(h)',
           \A s \in Slots : slots'[s].state = "Connected" /\ live'[slots'[s].handle] = slots'[s].handle =>
               live[slots[s].handle] = slots[s].handle /\ All(s)' = All(s)
    PROVE  Tally'
<1>1. \A s \in Slots : slots[s].state \in {"Connected", "Connecting"} => slots[s].handle \in Handles
  BY DEF Tally, Known, IInv, Held
<1>2. Known' BY <1>1 DEF Tally, Known, Steady
<1>3. Fresh' BY <1>1 DEF Tally, Fresh, Steady
<1>4. Ups'
  <2>1. \A h \in UpHandles(hci) : h \in Handles
    BY UpHandlesType DEF IInv, TypeOK, LoopsOK
  <2> QED BY <2>1 DEF Tally, Ups, Steady
<1>5. ASSUME NEW s \in Slots, slots'[s].state = "Connected", live'[slots'[s].handle] = slots'[s].handle
      PROVE  All(s)' = Credits
  <2>1. live[slots[s].handle] = slots[s].handle /\ All(s)' = All(s) BY <1>5
  <2>2. CASE slots[s].state = "Connected" BY <2>1, <2>2 DEF Tally, Balanced
  <2>3. CASE slots[s].state = "Connecting"
    <3>1. slots[s].credits = Credits /\ Unused(slots[s].handle) BY <2>3 DEF Tally, Fresh
    <3>2. All(s) = Credits BY <3>1, ConnectionsAssumption DEF All, Unused
    <3> QED BY <2>1, <3>2
  <2> QED BY <1>5, <2>2, <2>3 DEF Steady
<1>6. Balanced' BY <1>5 DEF Balanced
<1>7. \A x \in Sending : GrantFits(sender'[x]) BY DEF Steady
<1>8. (\A x \in Sending : GrantFits(sender[x]))' BY <1>7
<1> QED BY <1>2, <1>3, <1>4, <1>6, <1>8 DEF Tally

(* Only the packets that come from the controller are added to the queue,  *)
(* and only the first is taken from it.                                    *)
LEMMA BackAppend ==
    ASSUME IInv, NEW e \in HciPacket, hci' = Append(hci, e), NEW h \in Handles
    PROVE  Back(h)' = Back(h) + (IF e = Packet("sent", h, h) THEN 1 ELSE 0)
BY AtAppend DEF IInv, TypeOK, LoopsOK, Back

LEMMA BackTail ==
    ASSUME IInv, hci # <<>>, hci' = Tail(hci), NEW h \in Handles
    PROVE  Back(h)' = Back(h) - (IF Head(hci) = Packet("sent", h, h) THEN 1 ELSE 0)
BY AtTail DEF IInv, TypeOK, LoopsOK, Back

LEMMA TallyUp ==
    ASSUME ~Reuse, IInv, IInv', Own, Tally, NEW g \in Handles, LinkUp(g)
    PROVE  Tally'
<1>0. /\ hci \in Seq(HciPacket) /\ live \in [Handles -> Links \cup {NoLink}]
      /\ count \in [links : 0 .. MaxLinks, sent : Nat, got : Nat]
  BY DEF IInv, TypeOK, LoopsOK
<1>1. g = count.links + 1 /\ g \in Links
  BY <1>0, ConnectionsAssumption DEF LinkUp, Links
<1>2. UNCHANGED <<slots, sender, buffered>> /\ count'.links = count.links + 1
  BY <1>0 DEF LinkUp, table
<1> DEFINE e == Packet("up", g, g)
<1>3. e \in HciPacket /\ hci' = Append(hci, e) /\ live' = [live EXCEPT ![g] = g]
  BY <1>1, PacketType DEF LinkUp
<1>4. \A h \in Handles : Back(h)' = Back(h)
  <2> SUFFICES ASSUME NEW h \in Handles PROVE Back(h)' = Back(h) OBVIOUS
  <2>1. e # Packet("sent", h, h) BY DEF Packet
  <2> HIDE DEF e
  <2> QED BY <1>3, <2>1, BackAppend, Numbers
<1>5. \A h : Out(h)' = Out(h) BY <1>2 DEF Out
<1>6. \A h \in Handles : Unused(h) => Unused(h)' BY <1>2, <1>4, <1>5 DEF Unused
<1>7. g \notin UpHandles(hci) /\ \A h \in UpHandles(hci) : h \in Handles /\ h \in Nat
  <2>1. \A h \in UpHandles(hci) : h \in Handles /\ h \in Nat
    BY <1>0, UpHandlesType, ConnectionsAssumption
  <2> QED BY <1>0, <1>1, <2>1 DEF Tally, Ups
<1>8. UpHandles(hci') = UpHandles(hci) \cup {g} /\ UpsDistinct(hci')
  <2>1. e.kind = "up" /\ e.handle = g BY DEF Packet
  <2> HIDE DEF e
  <2> QED BY <1>0, <1>3, <1>7, <2>1, UpsAppend DEF Tally, Ups
<1>9. Known'
  <2>1. \A s \in Slots : slots[s].handle \in Nat BY SlotOf, ConnectionsAssumption DEF Slot, NoHandle
  <2> QED BY <1>0, <1>2, <1>6, <2>1, ConnectionsAssumption DEF Tally, Known
<1>10. Ups'
  <2>1. Unused(g) /\ \A s \in Slots : slots[s].handle # g
    BY <1>0, <1>1 DEF Tally, Known
  <2> QED BY <1>0, <1>1, <1>2, <1>6, <1>7, <1>8, <2>1 DEF Tally, Ups
<1>11. Fresh' BY <1>2, <1>6 DEF Tally, Fresh, IInv, Held
<1>12. Balanced'
  <2> SUFFICES ASSUME NEW s \in Slots, slots[s].state = "Connected",
                      live'[slots[s].handle] = slots[s].handle
               PROVE  All(s)' = Credits
    BY <1>2 DEF Balanced
  <2>1. slots[s].handle \in Handles /\ slots[s].handle # g BY <1>0, <1>1 DEF Tally, Known
  <2>2. live[slots[s].handle] = slots[s].handle BY <1>0, <1>3, <2>1
  <2>3. All(s) = Credits BY <2>2 DEF Tally, Balanced
  <2> QED BY <1>2, <1>4, <1>5, <2>1, <2>3 DEF All
<1> QED BY <1>2, <1>9, <1>10, <1>11, <1>12 DEF Tally

(* Packets about the end of a link change no count. *)
Follows(q, p) ==
    /\ p \in Seq(HciPacket) /\ UpsDistinct(p) /\ UpHandles(p) \subseteq UpHandles(q)
    /\ \A h \in Handles : Cardinality(At(p, Packet("sent", h, h))) = Cardinality(At(q, Packet("sent", h, h)))

LEMMA OtherFollows ==
    ASSUME NEW q \in Seq(HciPacket), UpsDistinct(q), NEW e \in HciPacket, e.kind \notin {"up", "sent"}
    PROVE  Follows(q, Append(q, e))
<1>1. UpHandles(Append(q, e)) = UpHandles(q) /\ UpsDistinct(Append(q, e)) BY UpsAppendOther
<1>2. ASSUME NEW h \in Handles
      PROVE  Cardinality(At(Append(q, e), Packet("sent", h, h))) = Cardinality(At(q, Packet("sent", h, h)))
  <2>1. e # Packet("sent", h, h) BY DEF Packet
  <2> QED BY <2>1, AtAppend, AtFinite
<1>3. Append(q, e) \in Seq(HciPacket) BY AppendType
<1> QED BY <1>1, <1>2, <1>3 DEF Follows

LEMMA FollowsTwice ==
    ASSUME NEW q, NEW p, NEW r, Follows(q, p), Follows(p, r)
    PROVE  Follows(q, r)
BY DEF Follows

LEMMA TallyEnd ==
    ASSUME IInv, IInv', Own, Tally, NEW g \in Handles, Follows(hci, hci'),
           live' = [live EXCEPT ![g] = NoLink], buffered' = [buffered EXCEPT ![g] = 0],
           UNCHANGED <<slots, sender, count>>
    PROVE  Tally'
<1>0. live \in [Handles -> Links \cup {NoLink}] /\ buffered \in [Handles -> Nat] /\ NoLink \notin Handles
  BY ConnectionsAssumption DEF IInv, TypeOK, LoopsOK, NoLink, NoHandle
<1>1. \A h \in Handles : Back(h)' = Back(h) BY DEF Follows, Back
<1>2. \A h : Out(h)' = Out(h) BY DEF Out
<1>3. Steady BY DEF Steady, Follows, Tally
<1>4. \A h \in Handles : Unused(h) => Unused(h)' BY <1>0, <1>1, <1>2 DEF Unused
<1>5. ASSUME NEW s \in Slots, slots'[s].state = "Connected", live'[slots'[s].handle] = slots'[s].handle
      PROVE  live[slots[s].handle] = slots[s].handle /\ All(s)' = All(s)
  <2>1. slots[s].handle \in Handles BY <1>5 DEF Tally, Known
  <2>2. slots[s].handle # g BY <1>0, <1>5, <2>1
  <2> QED BY <1>0, <1>1, <1>2, <1>5, <2>1, <2>2 DEF All
<1> QED BY <1>3, <1>4, <1>5, SteadyTally

LEMMA TallyController ==
    ASSUME ~Reuse, IInv, IInv', Own, Tally, Controller
    PROVE  Tally'
<1>0. /\ hci \in Seq(HciPacket) /\ UpsDistinct(hci) /\ buffered \in [Handles -> Nat]
      /\ live \in [Handles -> Links \cup {NoLink}] /\ command \in Handles \cup {NoHandle}
  BY DEF IInv, TypeOK, LoopsOK, Tally, Ups
<1>1. ASSUME NEW h \in Handles, LinkUp(h) PROVE Tally' BY <1>1, TallyUp
<1>2. ASSUME NEW h \in Handles, LinkDown(h) PROVE Tally'
  <2> DEFINE e == Packet("down", h, live[h])
  <2>1. e \in HciPacket /\ hci' = Append(hci, e) BY <1>0, <1>2, PacketType DEF LinkDown
  <2>2. e.kind \notin {"up", "sent"} BY DEF Packet
  <2> HIDE DEF e
  <2>3. Follows(hci, hci') BY <1>0, <2>1, <2>2, OtherFollows
  <2> QED BY <1>2, <2>3, TallyEnd DEF LinkDown, table
<1>3. ASSUME NEW g \in Handles, PacketSent(g) PROVE Tally'
  <2> DEFINE e == Packet("sent", g, g)
  <2>1. live[g] = g /\ buffered[g] > 0 BY <1>3 DEF PacketSent, Own
  <2>2. e \in HciPacket /\ hci' = Append(hci, e) BY <1>0, <1>3, <2>1, PacketType DEF PacketSent
  <2>3. e.kind # "up" /\ \A h \in Handles : e = Packet("sent", h, h) <=> h = g BY DEF Packet
  <2> HIDE DEF e
  <2>4. \A h \in Handles : Back(h)' = Back(h) + (IF h = g THEN 1 ELSE 0)
    BY <2>2, <2>3, BackAppend
  <2>5. \A h : Out(h)' = Out(h) BY <1>3 DEF Out, PacketSent
  <2>6. buffered' = [buffered EXCEPT ![g] = @ - 1] /\ UNCHANGED <<slots, sender, live, count>>
    BY <1>3 DEF PacketSent, table
  <2>7. UpHandles(hci') = UpHandles(hci) /\ UpsDistinct(hci') BY <1>0, <2>2, <2>3, UpsAppendOther
  <2>8. Steady BY <2>6, <2>7 DEF Steady, Tally
  <2>9. \A h \in Handles : Unused(h) => Unused(h)'
    BY <1>0, <2>1, <2>4, <2>5, <2>6, Numbers DEF Unused
  <2>10. ASSUME NEW s \in Slots, slots'[s].state = "Connected", live'[slots'[s].handle] = slots'[s].handle
         PROVE  live[slots[s].handle] = slots[s].handle /\ All(s)' = All(s)
    <3>1. slots[s].handle \in Handles BY <2>6, <2>10 DEF Tally, Known
    <3>2. slots[s].credits \in Int BY SlotOf DEF Slot
    <3> DEFINE h == slots[s].handle
    <3>3. Back(h)' = Back(h) + (IF h = g THEN 1 ELSE 0) /\ Out(h)' = Out(h)
          /\ buffered'[h] = buffered[h] - (IF h = g THEN 1 ELSE 0)
      BY <1>0, <2>4, <2>5, <2>6, <3>1, Numbers
    <3>4. Out(h) \in Nat /\ buffered[h] \in Nat /\ Back(h) \in Nat BY <3>1, Numbers
    <3>5. slots[s].credits + Out(h)' + buffered'[h] + Back(h)'
              = slots[s].credits + Out(h) + buffered[h] + Back(h)
      <4> HIDE DEF h
      <4> QED BY <3>2, <3>3, <3>4
    <3>6. All(s)' = slots[s].credits + Out(h)' + buffered'[h] + Back(h)' BY <2>6 DEF All
    <3> QED BY <2>6, <2>10, <3>5, <3>6 DEF All
  <2> QED BY <2>8, <2>9, <2>10, SteadyTally
<1>4. ASSUME NEW g \in Handles, NEW k \in {"gatt", "bad"}, PacketIn(g, k) PROVE Tally'
  <2> DEFINE e == Packet(k, g, live[g])
  <2>1. e \in HciPacket /\ hci' = Append(hci, e) BY <1>0, <1>4, PacketType DEF PacketIn
  <2>2. e.kind \notin {"up", "sent"} BY DEF Packet
  <2> HIDE DEF e
  <2>3. Follows(hci, hci') BY <1>0, <2>1, <2>2, OtherFollows
  <2>4. UNCHANGED <<slots, sender, live, buffered>> /\ count'.links = count.links
    BY <1>4, CountType DEF PacketIn, table, IInv, TypeOK
  <2>5. \A h \in Handles : Back(h)' = Back(h) BY <2>3 DEF Follows, Back
  <2>6. \A h : Out(h)' = Out(h) BY <2>4 DEF Out
  <2>7. Steady BY <2>3, <2>4 DEF Steady, Follows, Tally
  <2>8. \A h \in Handles : Unused(h) => Unused(h)' BY <2>4, <2>5, <2>6 DEF Unused
  <2>9. ASSUME NEW s \in Slots, slots'[s].state = "Connected", live'[slots'[s].handle] = slots'[s].handle
        PROVE  live[slots[s].handle] = slots[s].handle /\ All(s)' = All(s)
    BY <2>4, <2>5, <2>6, <2>9 DEF All, Tally, Known
  <2> QED BY <2>7, <2>8, <2>9, SteadyTally
<1>5. ASSUME Execute PROVE Tally'
  <2> DEFINE e == Packet("status", command, NoLink)
             d == Packet("down", command, live[command])
  <2>1. command \in Handles BY <1>0, <1>5 DEF Execute
  <2>2. e \in HciPacket /\ d \in HciPacket BY <1>0, <2>1, PacketType
  <2>3. e.kind \notin {"up", "sent"} /\ d.kind \notin {"up", "sent"} BY DEF Packet
  <2>4. hci' = Append(hci, e) \o (IF live[command] = NoLink THEN <<>> ELSE <<d>>) BY <1>5 DEF Execute
  <2> HIDE DEF e, d
  <2>5. Follows(hci, Append(hci, e)) BY <1>0, <2>2, <2>3, OtherFollows
  <2>6. Follows(Append(hci, e), Append(Append(hci, e), d))
    BY <2>2, <2>3, <2>5, OtherFollows DEF Follows
  <2>7. hci' = Append(hci, e) \/ hci' = Append(Append(hci, e), d)
    <3>1. Append(hci, e) \in Seq(HciPacket) BY <2>5 DEF Follows
    <3>2. CASE live[command] = NoLink
      <4>1. hci' = Append(hci, e) \o <<>> BY <2>4, <3>2
      <4> QED BY <3>1, <4>1
    <3>3. CASE live[command] # NoLink
      <4>1. hci' = Append(hci, e) \o <<d>> BY <2>4, <3>3
      <4> QED BY <2>2, <3>1, <4>1
    <3> QED BY <3>2, <3>3
  <2>8. Follows(hci, Append(Append(hci, e), d)) BY <2>5, <2>6, FollowsTwice
  <2>9. Follows(hci, hci') BY <2>5, <2>7, <2>8
  <2> QED BY <1>5, <2>1, <2>9, TallyEnd DEF Execute, table
<1> QED BY <1>1, <1>2, <1>3, <1>4, <1>5 DEF Controller

-----------------------------------------------------------------------------
(* Credits go to the slot of the handle, the only one. *)
LEMMA OneConnected ==
    ASSUME Tally, NEW h \in Handles, NEW s \in Connected(h)
    PROVE  First(Connected(h)) = s
<1>1. h # NoHandle BY ConnectionsAssumption DEF NoHandle
<1>2. \A t \in Connected(h) : t = s BY <1>1 DEF Connected, Tally, Known
<1> QED BY <1>2, FirstOf

LEMMA GiveBackCredits ==
    ASSUME IInv, Tally, NEW h \in Handles, NEW n \in Nat, GiveBack(h, n), NEW s \in Slots
    PROVE  /\ slots'[s].handle = slots[s].handle /\ slots'[s].state = slots[s].state
           /\ slots'[s].credits = slots[s].credits + (IF s \in Connected(h) THEN n ELSE 0)
<1>0. slots \in [Slots -> Slot] /\ slots[s].credits \in Int BY SlotOf DEF IInv, TypeOK, TableOK, Slot
<1>1. CASE Connected(h) = {} \/ n = 0 BY <1>0, <1>1 DEF GiveBack
<1>2. CASE Connected(h) # {} /\ n # 0
  <2>1. PICK t \in Slots : t \in Connected(h) BY <1>2 DEF Connected
  <2>2. First(Connected(h)) = t BY <2>1, OneConnected
  <2>3. slots' = [slots EXCEPT ![t].credits = @ + n] BY <1>2, <2>2 DEF GiveBack
  <2>4. s \in Connected(h) <=> s = t BY <2>1, <2>2, OneConnected
  <2> QED BY <1>0, <2>3, <2>4 DEF Slot
<1> QED BY <1>1, <1>2

LEMMA TallyRxUp ==
    ASSUME IInv, IInv', Own, Tally, RxUp
    PROVE  Tally'
<1> DEFINE g == Head(hci).handle
           t == First(Vacant)
<1>0. /\ hci \in Seq(HciPacket) /\ hci # <<>> /\ hci' = Tail(hci) /\ Head(hci).kind = "up"
      /\ g \in Handles /\ Head(hci).link = g
  <2>1. hci \in Seq(HciPacket) /\ hci # <<>> /\ hci' = Tail(hci) /\ Head(hci).kind = "up"
    BY DEF RxUp, Received, IInv, TypeOK, LoopsOK
  <2>2. Head(hci) \in HciPacket /\ Head(hci) \in OwnPacket BY <2>1, HeadType, HeadOwn
  <2> QED BY <2>1, <2>2 DEF HciPacket, OwnPacket
<1>1. UNCHANGED <<sender, live, buffered, count>> BY DEF RxUp, Received
<1>2. /\ UpHandles(hci') \subseteq UpHandles(hci) /\ UpsDistinct(hci')
      /\ g \in UpHandles(hci) /\ g \notin UpHandles(hci')
  BY <1>0, UpsTail DEF Tally, Ups
<1>3. \A h \in Handles : Back(h)' = Back(h)
  <2> SUFFICES ASSUME NEW h \in Handles PROVE Back(h)' = Back(h) OBVIOUS
  <2>1. Head(hci) # Packet("sent", h, h) BY <1>0 DEF Packet
  <2> QED BY <1>0, <2>1, BackTail, Numbers
<1>4. \A h : Out(h)' = Out(h) BY <1>1 DEF Out
<1>5. \A h \in Handles : Unused(h) => Unused(h)' BY <1>1, <1>3, <1>4 DEF Unused
<1>6. g <= count.links /\ Unused(g) /\ \A s \in Slots : slots[s].handle # g BY <1>2 DEF Tally, Ups
<1>7. CASE Vacant = {}
  <2>1. slots' = slots BY <1>7 DEF RxUp
  <2>2. Steady BY <1>1, <1>2, <2>1 DEF Steady, Tally
  <2>3. ASSUME NEW s \in Slots, slots'[s].state = "Connected", live'[slots'[s].handle] = slots'[s].handle
        PROVE  live[slots[s].handle] = slots[s].handle /\ All(s)' = All(s)
    BY <1>1, <1>3, <1>4, <2>1, <2>3 DEF All, Tally, Known
  <2> QED BY <1>5, <2>2, <2>3, SteadyTally
<1>8. CASE Vacant # {}
  <2> DEFINE r == [slots[t] EXCEPT !.state = "Connecting", !.handle = g, !.link = g, !.credits = Credits]
  <2>1. t \in Slots BY <1>8, FirstOf DEF Vacant
  <2>2. slots \in [Slots -> Slot] /\ slots[t] \in Slot BY <2>1, SlotOf DEF IInv, TypeOK, TableOK
  <2>3. r.state = "Connecting" /\ r.handle = g /\ r.credits = Credits BY <2>2 DEF Slot
  <2>4. slots' = [slots EXCEPT ![t] = r] BY <1>0, <1>8 DEF RxUp
  <2> HIDE DEF r, t, g
  <2>5. slots'[t] = r /\ \A s \in Slots \ {t} : slots'[s] = slots[s] BY <2>1, <2>2, <2>4
  <2>6. Known'
    <3>1. \A s \in Slots : slots'[s].handle <= count.links BY <1>6, <2>3, <2>5 DEF Tally, Known
    <3>2. \A s \in Slots : slots'[s].state = "Connected" => slots'[s].handle \in Handles
      BY <2>3, <2>5 DEF Tally, Known
    <3>3. \A s, u \in Slots : slots'[s].handle = slots'[u].handle => s = u \/ slots'[s].handle = NoHandle
      BY <1>6, <2>3, <2>5 DEF Tally, Known
    <3> QED BY <1>1, <1>5, <3>1, <3>2, <3>3 DEF Tally, Known
  <2>7. Ups'
    <3>1. \A h \in UpHandles(hci') : h \in Handles BY <1>0, <1>2, UpHandlesType
    <3> QED BY <1>1, <1>2, <1>5, <2>3, <2>5, <3>1 DEF Tally, Ups
  <2>8. Fresh' BY <1>0, <1>5, <1>6, <2>3, <2>5 DEF Tally, Fresh, IInv, Held
  <2>9. Balanced'
    <3> SUFFICES ASSUME NEW s \in Slots, slots'[s].state = "Connected", live'[slots'[s].handle] = slots'[s].handle
                 PROVE  All(s)' = Credits
      BY DEF Balanced
    <3>1. slots'[s] = slots[s] BY <2>3, <2>5
    <3>2. slots[s].handle \in Handles BY <3>1 DEF Tally, Known
    <3>3. All(s) = Credits BY <1>1, <3>1 DEF Tally, Balanced
    <3> QED BY <1>1, <1>3, <1>4, <3>1, <3>2, <3>3 DEF All
  <2> QED BY <1>1, <2>6, <2>7, <2>8, <2>9 DEF Tally
<1> QED BY <1>7, <1>8

(* A packet is read that tells of no credit, and no slot gets any.         *)
Unpaid ==
    \A s \in Slots : /\ slots'[s].handle = slots[s].handle
                     /\ slots'[s].state = "Connecting" => slots[s].state = "Connecting"
                     /\ slots'[s].state = "Connected" => slots[s].state \in {"Connected", "Connecting"}
                     /\ slots'[s].credits = slots[s].credits

LEMMA TallyUnpaid ==
    ASSUME IInv, IInv', Own, Tally, Unpaid, UNCHANGED <<live, buffered>>, count'.links = count.links,
           \A h \in Handles : Out(h)' = Out(h), \A x \in Sending : GrantFits(sender'[x]),
           hci' = hci \/ (hci # <<>> /\ Head(hci).kind # "sent" /\ hci' = Tail(hci))
    PROVE  Tally'
<1>1. UpHandles(hci') \subseteq UpHandles(hci) /\ UpsDistinct(hci')
  <2>1. hci \in Seq(HciPacket) /\ UpsDistinct(hci) BY DEF Tally, Ups, IInv, TypeOK, LoopsOK
  <2>2. CASE hci' = hci BY <2>1, <2>2
  <2>3. CASE hci # <<>> /\ hci' = Tail(hci) BY <2>1, <2>3, UpsTail
  <2> QED BY <2>2, <2>3
<1>2. \A h \in Handles : Back(h)' = Back(h)
  <2> SUFFICES ASSUME NEW h \in Handles PROVE Back(h)' = Back(h) OBVIOUS
  <2>1. CASE hci' = hci BY <2>1 DEF Back
  <2>2. CASE hci # <<>> /\ Head(hci).kind # "sent" /\ hci' = Tail(hci)
    <3>1. Head(hci) # Packet("sent", h, h) BY <2>2 DEF Packet
    <3> QED BY <2>2, <3>1, BackTail, Numbers
  <2> QED BY <2>1, <2>2
<1>3. Steady BY <1>1 DEF Steady, Unpaid
<1>4. \A h \in Handles : Unused(h) => Unused(h)' BY <1>2 DEF Unused
<1>5. ASSUME NEW s \in Slots, slots'[s].state = "Connected", live'[slots'[s].handle] = slots'[s].handle
      PROVE  live[slots[s].handle] = slots[s].handle /\ All(s)' = All(s)
  <2>1. slots[s].handle \in Handles BY <1>5 DEF Tally, Known, IInv, Held, Unpaid
  <2> QED BY <1>2, <1>5, <2>1 DEF All, Unpaid
<1> QED BY <1>3, <1>4, <1>5, SteadyTally

LEMMA StateUnpaid ==
    ASSUME IInv, NEW t, NEW st \in States \ {"Connecting", "Connected"}, SetState(t, st)
    PROVE  Unpaid
<1>1. slots \in [Slots -> Slot] BY DEF IInv, TypeOK, TableOK
<1> QED BY <1>1 DEF SetState, Slot, Unpaid

LEMMA AskUnpaid ==
    ASSUME IInv, NEW S, AskDisconnect(S)
    PROVE  Unpaid
<1>1. CASE slots' = slots BY <1>1 DEF Unpaid
<1>2. CASE SetState(First(S), "DisconnectRequest") BY <1>2, StateUnpaid DEF States
<1> QED BY <1>1, <1>2 DEF AskDisconnect

LEMMA TallyRxSent ==
    ASSUME IInv, IInv', Own, Tally, RxSent
    PROVE  Tally'
<1> DEFINE g == Head(hci).handle
<1>0. /\ hci \in Seq(HciPacket) /\ hci # <<>> /\ hci' = Tail(hci) /\ g \in Handles
      /\ Head(hci) = Packet("sent", g, g)
  <2>1. hci \in Seq(HciPacket) /\ hci # <<>> /\ hci' = Tail(hci) /\ Head(hci).kind = "sent"
    BY DEF RxSent, Received, IInv, TypeOK, LoopsOK
  <2>2. Head(hci) \in HciPacket /\ Head(hci) \in OwnPacket BY <2>1, HeadType, HeadOwn
  <2>3. Head(hci).link = g BY <2>1, <2>2 DEF OwnPacket
  <2> QED BY <2>1, <2>2, <2>3 DEF HciPacket, Packet
<1>1. UNCHANGED <<sender, live, buffered, count>> /\ GiveBack(g, 1) BY DEF RxSent, Received
<1>2. UpHandles(hci') \subseteq UpHandles(hci) /\ UpsDistinct(hci')
  BY <1>0, UpsTail DEF Tally, Ups
<1>3. \A h \in Handles : Back(h)' = Back(h) - (IF h = g THEN 1 ELSE 0)
  <2> SUFFICES ASSUME NEW h \in Handles PROVE Back(h)' = Back(h) - (IF h = g THEN 1 ELSE 0) OBVIOUS
  <2>1. Head(hci) = Packet("sent", h, h) <=> h = g BY <1>0 DEF Packet
  <2> QED BY <1>0, <2>1, BackTail
<1>4. \A h : Out(h)' = Out(h) BY <1>1 DEF Out
<1>5. \A h \in Handles : Back(h) \in Nat /\ Back(h)' \in Nat
  <2>1. hci' \in Seq(HciPacket) BY <1>0
  <2> QED BY <1>0, <2>1, AtFinite DEF Back
<1>6. \A h \in Handles : Unused(h) => h # g /\ Unused(h)' BY <1>0, <1>1, <1>3, <1>4, <1>5 DEF Unused
<1>7. \A s \in Slots : /\ slots'[s].handle = slots[s].handle /\ slots'[s].state = slots[s].state
                       /\ slots'[s].credits = slots[s].credits + (IF s \in Connected(g) THEN 1 ELSE 0)
  BY <1>0, <1>1, GiveBackCredits
<1>8. Steady
  <2>1. ASSUME NEW s \in Slots, slots[s].state = "Connecting" PROVE slots'[s].credits = slots[s].credits
    <3>1. s \notin Connected(g) /\ slots[s].credits \in Int BY <2>1, SlotOf DEF Connected, Slot
    <3> QED BY <1>7, <3>1
  <2> QED BY <1>1, <1>2, <1>7, <2>1 DEF Steady, Tally
<1>9. ASSUME NEW s \in Slots, slots'[s].state = "Connected", live'[slots'[s].handle] = slots'[s].handle
      PROVE  live[slots[s].handle] = slots[s].handle /\ All(s)' = All(s)
  <2>0. slots[s].handle \in Handles BY <1>7, <1>9 DEF Tally, Known
  <2>1. PICK h \in Handles : h = slots[s].handle BY <2>0
  <2>8. slots[s].credits \in Int BY SlotOf DEF Slot
  <2>2. slots'[s].credits = slots[s].credits + (IF h = g THEN 1 ELSE 0)
    BY <1>7, <1>9, <2>1 DEF Connected
  <2>3. Back(h)' = Back(h) - (IF h = g THEN 1 ELSE 0) /\ Back(h) \in Nat
        /\ Out(h) \in Nat /\ buffered[h] \in Nat
    BY <1>3, <2>1, Numbers
  <2>4. slots'[s].credits + Out(h) + buffered[h] + Back(h)' = slots[s].credits + Out(h) + buffered[h] + Back(h)
    BY <2>2, <2>3, <2>8
  <2>5. slots'[s].handle = h BY <1>7, <2>1
  <2>6. Out(h)' = Out(h) BY <1>4
  <2>7. All(s)' = slots'[s].credits + Out(h)' + buffered'[h] + Back(h)' BY <2>5 DEF All
  <2> QED BY <1>1, <1>9, <2>1, <2>4, <2>5, <2>6, <2>7 DEF All
<1> QED BY <1>6, <1>8, <1>9, SteadyTally

LEMMA TallyRx ==
    ASSUME IInv, IInv', Own, Tally, Rx
    PROVE  Tally'
<1>0. slots \in [Slots -> Slot] BY DEF IInv, TypeOK, TableOK
<1>1. ASSUME NEW k, k # "sent", Received(k), Unpaid PROVE Tally'
  <2>1. UNCHANGED <<sender, live, buffered, count>> /\ hci # <<>> /\ Head(hci).kind # "sent" /\ hci' = Tail(hci)
    BY <1>1 DEF Received
  <2>2. \A h \in Handles : Out(h)' = Out(h) BY <2>1 DEF Out
  <2>3. \A x \in Sending : GrantFits(sender'[x]) BY <2>1 DEF Tally
  <2> QED BY <1>1, <2>1, <2>2, <2>3, TallyUnpaid
<1>2. CASE RxUp BY <1>2, TallyRxUp
<1>3. CASE RxRefuse
  <2>1. UNCHANGED <<slots, sender, live, buffered, count, hci>> BY <1>3 DEF RxRefuse, table, radio
  <2>2. Unpaid BY <2>1 DEF Unpaid
  <2>3. (\A h \in Handles : Out(h)' = Out(h)) /\ \A x \in Sending : GrantFits(sender'[x])
    BY <2>1 DEF Out, Tally
  <2> QED BY <2>1, <2>2, <2>3, TallyUnpaid
<1>4. CASE RxDown
  <2> DEFINE S == OfHandle(Head(hci).handle)
             r == [slots[First(S)] EXCEPT !.state = "Disconnected", !.gatt = <<>>]
  <2>1. CASE S = {}
    <3>1. Unpaid BY <1>4, <2>1 DEF RxDown, Unpaid
    <3> QED BY <1>1, <1>4, <3>1 DEF RxDown
  <2>2. CASE S # {}
    <3>1. First(S) \in Slots BY <2>2, FirstOf DEF OfHandle
    <3>2. slots' = [slots EXCEPT ![First(S)] = r] BY <1>4, <2>2 DEF RxDown
    <3>3. r.state = "Disconnected" /\ r.handle = slots[First(S)].handle /\ r.credits = slots[First(S)].credits
      BY <1>0, <3>1 DEF Slot
    <3> HIDE DEF r, S
    <3>4. Unpaid BY <1>0, <3>1, <3>2, <3>3 DEF Unpaid
    <3> QED BY <1>1, <1>4, <3>4 DEF RxDown
  <2> QED BY <2>1, <2>2
<1>5. CASE RxSent BY <1>5, TallyRxSent
<1>6. CASE RxGatt
  <2> DEFINE S == Connected(Head(hci).handle)
  <2>1. Unpaid
    <3>1. CASE slots' = slots BY <3>1 DEF Unpaid
    <3>2. CASE slots' = [slots EXCEPT ![First(S)].gatt = Append(@, Head(hci).link)]
      <4>1. PICK t, q : slots' = [slots EXCEPT ![t].gatt = q] BY <3>2
      <4> QED BY <1>0, <4>1 DEF Slot, Unpaid
    <3> QED BY <1>6, <3>1, <3>2 DEF RxGatt
  <2> QED BY <1>1, <1>6, <2>1 DEF RxGatt
<1>7. CASE RxBad
  <2>1. Unpaid BY <1>7, AskUnpaid DEF RxBad
  <2> QED BY <1>1, <1>7, <2>1 DEF RxBad
<1>8. CASE RxStatus
  <2>1. Unpaid BY <1>8 DEF RxStatus, Unpaid
  <2> QED BY <1>1, <1>8, <2>1 DEF RxStatus
<1> QED BY <1>2, <1>3, <1>4, <1>5, <1>6, <1>7, <1>8 DEF Rx

LEMMA TallyControl ==
    ASSUME IInv, IInv', Own, Tally, Control
    PROVE  Tally'
<1>1. UNCHANGED <<sender, live, buffered, count, hci>> BY DEF Control, TakeRequest, Confirm, radio
<1>2. (\A h \in Handles : Out(h)' = Out(h)) /\ \A x \in Sending : GrantFits(sender'[x])
  BY <1>1 DEF Out, Tally
<1>3. Unpaid
  <2>1. CASE TakeRequest BY <2>1 DEF TakeRequest, table, Unpaid
  <2>2. CASE Confirm BY <2>2, StateUnpaid DEF Confirm, States
  <2> QED BY <2>1, <2>2 DEF Control
<1> QED BY <1>1, <1>2, <1>3, TallyUnpaid

-----------------------------------------------------------------------------
(* One sender changes. *)
LEMMA OutChange ==
    ASSUME IInv, Tally, NEW x \in Sending, NEW r \in Sender, GrantFits(r),
           sender' = [sender EXCEPT ![x] = r], NEW h
    PROVE  Out(h)' = Out(h) - Share(sender[x], h) + Share(r, h)
<1>1. sender \in [Sending -> Sender] BY DEF IInv, TypeOK, LoopsOK
<1>2. MaxFrags \in Nat BY ConnectionsAssumption
<1>3. \A q \in Sender : GrantFits(q) => q.grant \in 0 .. MaxFrags + 1 BY <1>2 DEF GrantFits, Sender
<1>4. sender[x] \in Sender /\ GrantFits(sender[x]) BY <1>1 DEF Tally
<1>5. sender[x].grant \in 0 .. MaxFrags + 1 /\ r.grant \in 0 .. MaxFrags + 1 BY <1>3, <1>4
<1>6. Cardinality(TokensIn([sender EXCEPT ![x] = r], h)) =
          Cardinality(TokensIn(sender, h)) - Share(sender[x], h) + Share(r, h)
  BY <1>1, <1>5, TokensUpdate
<1> QED BY <1>6 DEF Out

LEMMA OutSame ==
    ASSUME IInv, Tally, NEW x \in Sending, sender[x].pc # "send", NEW r \in Sender, r.pc # "send",
           r.grant = 0, sender' = [sender EXCEPT ![x] = r]
    PROVE  (\A h \in Handles : Out(h)' = Out(h)) /\ \A y \in Sending : GrantFits(sender'[y])
<1>1. sender \in [Sending -> Sender] BY DEF IInv, TypeOK, LoopsOK
<1>2. sender[x].grant = 0 BY DEF Tally, GrantFits
<1>3. GrantFits(r) BY DEF GrantFits
<1>4. ASSUME NEW h \in Handles PROVE Out(h)' = Out(h)
  <2>1. Out(h)' = Out(h) - Share(sender[x], h) + Share(r, h) BY <1>3, OutChange
  <2>2. Share(sender[x], h) = 0 /\ Share(r, h) = 0 BY <1>2 DEF Share
  <2> QED BY <2>1, <2>2, Numbers
<1>5. \A y \in Sending : GrantFits(sender'[y]) BY <1>1, <1>3 DEF Tally
<1> QED BY <1>4, <1>5

LEMMA TallyApplication ==
    ASSUME IInv, IInv', Own, Tally, Application
    PROVE  Tally'
<1>0. slots \in [Slots -> Slot] /\ sender \in [Sending -> Sender]
      /\ count \in [links : 0 .. MaxLinks, sent : Nat, got : Nat]
  BY DEF IInv, TypeOK, TableOK, LoopsOK
<1>1. ASSUME Unpaid, UNCHANGED <<sender, live, buffered, hci>>, count'.links = count.links
      PROVE  Tally'
  <2>1. (\A h \in Handles : Out(h)' = Out(h)) /\ \A x \in Sending : GrantFits(sender'[x])
    BY <1>1 DEF Out, Tally
  <2> QED BY <1>1, <2>1, TallyUnpaid
<1>2. ASSUME NEW c \in Holders, NEW s \in Slots, Accept(c, s) PROVE Tally'
  <2> DEFINE r == [slots[s] EXCEPT !.state = "Connected", !.refs = @ + 1]
  <2>1. slots' = [slots EXCEPT ![s] = r] /\ slots[s].state = "Connecting" BY <1>2 DEF Accept
  <2>2. r.state = "Connected" /\ r.handle = slots[s].handle /\ r.credits = slots[s].credits
    BY <1>0 DEF Slot
  <2> HIDE DEF r
  <2>3. Unpaid BY <1>0, <2>1, <2>2 DEF Unpaid
  <2> QED BY <1>1, <1>2, <2>3 DEF Accept, radio
<1>3. ASSUME NEW c \in Holders, NEW h \in Handles, GetConnected(c, h) PROVE Tally'
  <2>1. PICK t : slots' = [slots EXCEPT ![t].refs = @ + 1] BY <1>3 DEF GetConnected
  <2>2. Unpaid BY <1>0, <2>1 DEF Slot, Unpaid
  <2> QED BY <1>1, <1>3, <2>2 DEF GetConnected, radio
<1>4. ASSUME NEW c \in Holders, NEW d \in Holders, Clone(c, d) PROVE Tally'
  <2>1. PICK t : slots' = [slots EXCEPT ![t].refs = @ + 1] BY <1>4 DEF Clone
  <2>2. Unpaid BY <1>0, <2>1 DEF Slot, Unpaid
  <2> QED BY <1>1, <1>4, <2>2 DEF Clone, radio
<1>5. ASSUME NEW c \in Holders, DropConnection(c) PROVE Tally'
  <2> DEFINE t == holder[c].slot
             last == slots[t].refs = 1 /\ slots[t].state = "Connected"
             r == [slots[t] EXCEPT !.refs = @ - 1, !.state = IF last THEN "DisconnectRequest" ELSE @]
  <2>1. slots' = [slots EXCEPT ![t] = r] BY <1>5 DEF DropConnection
  <2>2. t \in Slots BY <1>5 DEF DropConnection, IInv, Held
  <2>3. r.handle = slots[t].handle /\ r.credits = slots[t].credits
        /\ r.state \in {"DisconnectRequest", slots[t].state}
    BY <1>0, <2>2 DEF Slot
  <2> HIDE DEF r, t, last
  <2>4. Unpaid BY <1>0, <2>1, <2>2, <2>3 DEF Unpaid
  <2> QED BY <1>1, <1>5, <2>4 DEF DropConnection, radio
<1>6. ASSUME NEW c \in Holders, Disconnect(c) PROVE Tally'
  <2>1. Unpaid BY <1>6, AskUnpaid DEF Disconnect
  <2> QED BY <1>1, <1>6, <2>1 DEF Disconnect, radio
<1>7. ASSUME NEW c \in Holders, NEW n \in 1 .. MaxFrags, Send(c, n) PROVE Tally'
  <2>1. Unpaid BY <1>7 DEF Send, table, Unpaid
  <2> QED BY <1>0, <1>1, <1>7, <2>1 DEF Send, radio
<1>8. ASSUME NEW c \in Holders, NextGatt(c) PROVE Tally'
  <2>1. PICK t, q : slots' = [slots EXCEPT ![t].gatt = q] BY <1>8 DEF NextGatt
  <2>2. Unpaid BY <1>0, <2>1 DEF Slot, Unpaid
  <2> QED BY <1>1, <1>8, <2>2 DEF NextGatt, radio
<1>9. ASSUME NEW x \in Senders, NEW h \in Handles, NEW n \in 1 .. MaxFrags, ChannelSend(x, h, n)
      PROVE  Tally'
  <2> DEFINE t == First(Connected(h))
             r == [pc |-> "ask", handle |-> h, link |-> slots[t].link, frags |-> n, grant |-> 0]
  <2>1. t \in Slots BY <1>9, FirstOf DEF ChannelSend, Connected
  <2>2. slots[t].link \in Links \cup {NoLink} BY <1>0, <2>1 DEF Slot
  <2>3. r \in Sender /\ r.pc # "send" /\ r.grant = 0 BY <2>2, ConnectionsAssumption DEF Sender
  <2>4. sender' = [sender EXCEPT ![x] = r] /\ x \in Sending /\ sender[x].pc # "send"
    BY <1>9 DEF ChannelSend, Ask, Sending
  <2> HIDE DEF r, t
  <2>5. (\A g \in Handles : Out(g)' = Out(g)) /\ \A y \in Sending : GrantFits(sender'[y])
    BY <2>3, <2>4, OutSame
  <2>6. Unpaid /\ UNCHANGED <<live, buffered, hci>> /\ count'.links = count.links
    BY <1>0, <1>9 DEF ChannelSend, table, Unpaid, radio
  <2> QED BY <2>5, <2>6, TallyUnpaid
<1> QED BY <1>2, <1>3, <1>4, <1>5, <1>6, <1>7, <1>8, <1>9 DEF Application

LEMMA TallyWrite ==
    ASSUME IInv, IInv', Own, Tally, NEW x \in Sending, Write(x)
    PROVE  Tally'
<1>0. /\ sender \in [Sending -> Sender] /\ buffered \in [Handles -> Nat]
      /\ UNCHANGED <<slots, live, count, hci>>
  BY DEF IInv, TypeOK, LoopsOK, Write, table
<1> DEFINE r == [sender[x] EXCEPT !.frags = @ - 1, !.grant = Less(@)]
<1>1. /\ sender[x] \in Sender /\ sender[x].pc = "send" /\ sender[x].frags > 0
      /\ sender[x].frags <= sender[x].grant /\ sender[x].grant <= MaxFrags + 1
      /\ sender[x].handle \in Handles
  BY <1>0 DEF Write, Tally, GrantFits, Own, OwnSender
<1>2. PICK g \in Handles : g = sender[x].handle BY <1>1
<1>3. /\ r.pc = "send" /\ r.handle = g /\ r.frags = sender[x].frags - 1 /\ r.grant = sender[x].grant - 1
      /\ r.link = sender[x].link
  BY <1>1, <1>2 DEF Sender, Less
<1>4. MaxFrags \in Nat BY ConnectionsAssumption
<1>5. r \in Sender /\ GrantFits(r)
  <2>1. r \in Sender
    <3>1. sender[x].frags - 1 \in Nat BY <1>1 DEF Sender
    <3>2. Less(sender[x].grant) \in Nat BY <1>1 DEF Less, Sender
    <3> QED BY <1>1, <3>1, <3>2 DEF Sender
  <2> HIDE DEF r
  <2> QED BY <1>1, <1>3, <1>4, <2>1 DEF Sender, GrantFits
<1>6. sender' = [sender EXCEPT ![x] = r] BY DEF Write
<1> HIDE DEF r
<1>7. \A h \in Handles : Out(h)' = Out(h) - (IF h = g THEN 1 ELSE 0)
  <2> SUFFICES ASSUME NEW h \in Handles PROVE Out(h)' = Out(h) - (IF h = g THEN 1 ELSE 0) OBVIOUS
  <2>1. Out(h)' = Out(h) - Share(sender[x], h) + Share(r, h) BY <1>5, <1>6, OutChange
  <2>2. sender[x].grant \in Nat BY <1>1 DEF Sender
  <2> QED BY <1>2, <1>3, <2>1, <2>2, Numbers DEF Share
<1>8. \A h \in Handles : Out(h) \in Nat /\ Out(h)' \in Nat BY TokensFinite DEF Out
<1>9. \A h \in Handles : Back(h)' = Back(h) BY <1>0 DEF Back
<1>10. buffered' = [buffered EXCEPT ![g] = IF live[g] = NoLink THEN @ ELSE @ + 1]
  BY <1>2 DEF Write
<1>11. \A h \in Handles : Unused(h) => Unused(h)'
  BY <1>0, <1>7, <1>8, <1>9, <1>10 DEF Unused
<1>12. Steady BY <1>0, <1>5, <1>6 DEF Steady, Tally, Ups
<1>13. ASSUME NEW s \in Slots, slots'[s].state = "Connected", live'[slots'[s].handle] = slots'[s].handle
       PROVE  live[slots[s].handle] = slots[s].handle /\ All(s)' = All(s)
  <2>0. slots[s].handle \in Handles BY <1>0, <1>13 DEF Tally, Known
  <2>1. PICK h \in Handles : h = slots[s].handle BY <2>0
  <2>2. slots[s].credits \in Int BY SlotOf DEF Slot
  <2>3. h # NoLink /\ live[h] = h BY <1>0, <1>13, <2>1, ConnectionsAssumption DEF NoLink, NoHandle
  <2>4. buffered'[h] = buffered[h] + (IF h = g THEN 1 ELSE 0) BY <1>0, <1>10, <2>3
  <2>5. Out(h)' = Out(h) - (IF h = g THEN 1 ELSE 0) /\ Back(h)' = Back(h) BY <1>7, <1>9
  <2>6. slots[s].credits + Out(h)' + buffered'[h] + Back(h)' = slots[s].credits + Out(h) + buffered[h] + Back(h)
    BY <2>2, <2>4, <2>5, Numbers
  <2>7. slots'[s].handle = h /\ slots'[s].credits = slots[s].credits BY <1>0, <2>1
  <2>8. All(s)' = slots[s].credits + Out(h)' + buffered'[h] + Back(h)' BY <2>7 DEF All
  <2> QED BY <2>1, <2>3, <2>6, <2>8 DEF All
<1> QED BY <1>11, <1>12, <1>13, SteadyTally

LEMMA TallyGrant ==
    ASSUME IInv, IInv', Own, Tally, NEW x \in Sending, NEW n \in 1 .. MaxFrags + 1, Grant(x, n)
    PROVE  Tally'
<1>0. /\ sender \in [Sending -> Sender] /\ sender[x] \in Sender /\ slots \in [Slots -> Slot]
      /\ UNCHANGED <<live, buffered, count, hci>>
  BY DEF IInv, TypeOK, TableOK, LoopsOK, Grant, radio
<1>1. sender[x].pc = "ask" /\ sender[x].handle \in Handles /\ sender[x].grant = 0
  BY DEF Grant, Tally, GrantFits, Own, OwnSender
<1>2. CASE slots' = slots /\ sender' = [sender EXCEPT ![x] = Quiet]
  <2>1. Quiet.pc # "send" /\ Quiet.grant = 0 BY DEF Quiet
  <2>2. (\A h \in Handles : Out(h)' = Out(h)) /\ \A y \in Sending : GrantFits(sender'[y])
    BY <1>1, <1>2, <2>1, QuietType, OutSame
  <2>3. Unpaid BY <1>2 DEF Unpaid
  <2> QED BY <1>0, <2>2, <2>3, TallyUnpaid
<1>3. CASE Connected(sender[x].handle) # {}
  <2>1. PICK g \in Handles : g = sender[x].handle BY <1>1
  <2>2. PICK t \in Slots : t \in Connected(g) BY <1>3, <2>1 DEF Connected
  <2>3. First(Connected(g)) = t BY <2>2, OneConnected
  <2> DEFINE r == [sender[x] EXCEPT !.pc = "send", !.grant = n]
  <2>4. slots' = [slots EXCEPT ![t].credits = @ - n] /\ sender' = [sender EXCEPT ![x] = r]
    BY <1>3, <2>1, <2>3 DEF Grant
  <2>5. n \in Nat /\ n <= MaxFrags + 1 /\ sender[x].frags <= n
    BY <1>0, ConnectionsAssumption DEF Grant, Sender
  <2>6. r \in Sender /\ r.pc = "send" /\ r.grant = n /\ r.handle = g /\ r.frags = sender[x].frags
    BY <1>0, <2>1, <2>5 DEF Sender
  <2> HIDE DEF r
  <2>7. GrantFits(r) BY <2>5, <2>6 DEF GrantFits
  <2>8. \A h \in Handles : Out(h)' = Out(h) + (IF h = g THEN n ELSE 0)
    <3> SUFFICES ASSUME NEW h \in Handles PROVE Out(h)' = Out(h) + (IF h = g THEN n ELSE 0) OBVIOUS
    <3>1. Out(h)' = Out(h) - Share(sender[x], h) + Share(r, h) BY <2>4, <2>6, <2>7, OutChange
    <3>2. Share(sender[x], h) = 0 /\ Share(r, h) = IF h = g THEN n ELSE 0 BY <1>1, <2>6 DEF Share
    <3> QED BY <2>5, <3>1, <3>2, Numbers
  <2>9. \A h \in Handles : Back(h)' = Back(h) BY <1>0 DEF Back
  <2>11. \A s \in Slots : /\ slots'[s].handle = slots[s].handle /\ slots'[s].state = slots[s].state
                          /\ slots'[s].credits = slots[s].credits - (IF s = t THEN n ELSE 0)
    <3>1. \A s \in Slots : slots[s].credits \in Int BY <1>0 DEF Slot
    <3> QED BY <1>0, <2>4, <2>5, <3>1 DEF Slot
  <2>12. slots[t].state = "Connected" /\ slots[t].handle = g /\ g # NoHandle
    BY <2>2, ConnectionsAssumption DEF Connected, NoHandle
  <2>13. \A s \in Slots : slots[s].handle = g => s = t BY <2>12 DEF Tally, Known
  <2>14. ASSUME NEW h \in Handles, Unused(h), h # g PROVE Unused(h)'
    BY <1>0, <2>8, <2>9, <2>14, Numbers DEF Unused
  <2>15. Known'
    <3>1. g <= count.links BY <2>12 DEF Tally, Known
    <3>2. \A h \in Handles : h > count.links => h # g
      <4>1. count.links \in Nat BY <1>0, CountType DEF IInv, TypeOK, LoopsOK
      <4> QED BY <3>1, <4>1, ConnectionsAssumption
    <3> QED BY <1>0, <2>11, <2>14, <3>2 DEF Tally, Known
  <2>16. Ups'
    <3>1. \A h \in UpHandles(hci) : h \in Handles /\ h # g
      BY <2>12, UpHandlesType DEF Tally, Ups, IInv, TypeOK, LoopsOK
    <3> QED BY <1>0, <2>11, <2>14, <3>1 DEF Tally, Ups
  <2>17. Fresh'
    <3> SUFFICES ASSUME NEW s \in Slots, slots'[s].state = "Connecting"
                 PROVE  slots'[s].credits = Credits /\ Unused(slots[s].handle)'
      BY <2>11 DEF Fresh
    <3>1. slots[s].state = "Connecting" /\ s # t BY <2>11, <2>12
    <3>2. slots[s].handle \in Handles /\ slots[s].handle # g BY <2>13, <3>1 DEF IInv, Held
    <3>3. slots[s].credits = Credits /\ Unused(slots[s].handle) BY <3>1 DEF Tally, Fresh
    <3>4. PICK h \in Handles : h = slots[s].handle BY <3>2
    <3>5. Unused(h)' BY <2>14, <3>2, <3>3, <3>4
    <3>6. slots'[s].handle = h BY <2>11, <3>4
    <3> QED BY <2>11, <3>1, <3>3, <3>5, <3>6, ConnectionsAssumption DEF Unused
  <2>18. Balanced'
    <3> SUFFICES ASSUME NEW s \in Slots, slots'[s].state = "Connected", live'[slots'[s].handle] = slots'[s].handle
                 PROVE  All(s)' = Credits
      BY DEF Balanced
    <3>1. slots[s].state = "Connected" /\ live[slots[s].handle] = slots[s].handle BY <1>0, <2>11
    <3>2. slots[s].handle \in Handles /\ slots[s].credits \in Int BY <3>1, SlotOf DEF Tally, Known, Slot
    <3>3. PICK h \in Handles : h = slots[s].handle BY <3>2
    <3>4. slots'[s].credits = slots[s].credits - (IF h = g THEN n ELSE 0) /\ slots'[s].handle = h
      BY <2>11, <2>12, <2>13, <3>3
    <3>5. Out(h)' = Out(h) + (IF h = g THEN n ELSE 0) /\ Back(h)' = Back(h) BY <2>8, <2>9
    <3>6. slots'[s].credits + Out(h)' + buffered'[h] + Back(h)' = slots[s].credits + Out(h) + buffered[h] + Back(h)
      BY <1>0, <2>5, <3>2, <3>4, <3>5, Numbers
    <3>7. All(s)' = slots'[s].credits + Out(h)' + buffered'[h] + Back(h)' BY <3>4 DEF All
    <3>8. All(s) = Credits BY <3>1 DEF Tally, Balanced
    <3> QED BY <3>3, <3>6, <3>7, <3>8 DEF All
  <2>19. \A y \in Sending : GrantFits(sender'[y]) BY <1>0, <2>4, <2>7 DEF Tally
  <2>20. (\A y \in Sending : GrantFits(sender[y]))' BY <2>19
  <2> QED BY <2>15, <2>16, <2>17, <2>18, <2>20 DEF Tally
<1> QED BY <1>2, <1>3 DEF Grant

LEMMA TallyDrop ==
    ASSUME IInv, IInv', Own, Tally, NEW x \in Sending, DropSender(x)
    PROVE  Tally'
<1>0. /\ sender \in [Sending -> Sender] /\ sender[x] \in Sender /\ sender[x].pc = "send"
      /\ UNCHANGED <<live, buffered, count, hci>> /\ sender' = [sender EXCEPT ![x] = Quiet]
  BY DEF IInv, TypeOK, LoopsOK, DropSender, radio
<1>1. sender[x].handle \in Handles /\ sender[x].grant \in Nat BY <1>0 DEF Own, OwnSender, Sender
<1>2. PICK g \in Handles, n \in Nat : g = sender[x].handle /\ n = sender[x].grant BY <1>1
<1>3. GiveBack(g, n) BY <1>2 DEF DropSender
<1>4. \A s \in Slots : /\ slots'[s].handle = slots[s].handle /\ slots'[s].state = slots[s].state
                       /\ slots'[s].credits = slots[s].credits + (IF s \in Connected(g) THEN n ELSE 0)
  BY <1>3, GiveBackCredits
<1>5. GrantFits(Quiet) /\ \A h \in Handles : Share(Quiet, h) = 0 BY DEF GrantFits, Quiet, Share
<1>6. \A h \in Handles : Out(h)' = Out(h) - (IF h = g THEN n ELSE 0)
  <2> SUFFICES ASSUME NEW h \in Handles PROVE Out(h)' = Out(h) - (IF h = g THEN n ELSE 0) OBVIOUS
  <2>1. Out(h)' = Out(h) - Share(sender[x], h) + Share(Quiet, h) BY <1>0, <1>5, QuietType, OutChange
  <2>2. Share(sender[x], h) = IF h = g THEN n ELSE 0 BY <1>2 DEF Share
  <2> QED BY <1>5, <2>1, <2>2, Numbers
<1>7. \A h \in Handles : Out(h) \in Nat /\ Out(h)' \in Nat BY TokensFinite DEF Out
<1>8. \A h \in Handles : Back(h)' = Back(h) BY <1>0 DEF Back
<1>9. \A h \in Handles : Unused(h) => Unused(h)' BY <1>0, <1>6, <1>7, <1>8 DEF Unused
<1>10. Steady
  <2>1. ASSUME NEW s \in Slots, slots[s].state = "Connecting" PROVE slots'[s].credits = slots[s].credits
    <3>1. s \notin Connected(g) /\ slots[s].credits \in Int BY <2>1, SlotOf DEF Connected, Slot
    <3> QED BY <1>4, <3>1
  <2>2. \A y \in Sending : GrantFits(sender'[y]) BY <1>0, <1>5 DEF Tally
  <2> QED BY <1>0, <1>4, <2>1, <2>2 DEF Steady, Tally, Ups
<1>11. ASSUME NEW s \in Slots, slots'[s].state = "Connected", live'[slots'[s].handle] = slots'[s].handle
       PROVE  live[slots[s].handle] = slots[s].handle /\ All(s)' = All(s)
  <2>1. slots[s].handle \in Handles /\ slots[s].credits \in Int
    BY <1>4, <1>11, SlotOf DEF Tally, Known, Slot
  <2>2. PICK h \in Handles : h = slots[s].handle BY <2>1
  <2>3. slots'[s].credits = slots[s].credits + (IF h = g THEN n ELSE 0) /\ slots'[s].handle = h
    BY <1>4, <1>11, <2>2 DEF Connected
  <2>4. Out(h)' = Out(h) - (IF h = g THEN n ELSE 0) /\ Back(h)' = Back(h) BY <1>6, <1>8
  <2>5. slots'[s].credits + Out(h)' + buffered'[h] + Back(h)' = slots[s].credits + Out(h) + buffered[h] + Back(h)
    BY <1>0, <2>1, <2>3, <2>4, Numbers
  <2>6. All(s)' = slots'[s].credits + Out(h)' + buffered'[h] + Back(h)' BY <2>3 DEF All
  <2> QED BY <1>0, <1>11, <2>2, <2>3, <2>5, <2>6 DEF All
<1> QED BY <1>9, <1>10, <1>11, SteadyTally

LEMMA TallyTransmit ==
    ASSUME IInv, IInv', Own, Tally, Transmit
    PROVE  Tally'
<1>0. sender \in [Sending -> Sender] /\ outbound \in Seq(Pdu) BY DEF IInv, TypeOK, LoopsOK
<1>1. ASSUME NEW x \in Sending, sender[x].pc # "send", NEW r \in Sender, r.pc # "send", r.grant = 0,
             sender' = [sender EXCEPT ![x] = r], UNCHANGED <<slots, live, buffered, hci, count>>
      PROVE  Tally'
  <2>1. (\A h \in Handles : Out(h)' = Out(h)) /\ \A y \in Sending : GrantFits(sender'[y])
    BY <1>1, OutSame
  <2>2. Unpaid BY <1>1 DEF Unpaid
  <2> QED BY <1>1, <2>1, <2>2, TallyUnpaid
<1>2. CASE TxTake
  <2> DEFINE p == Head(outbound)
             r == [pc |-> "ask", handle |-> p.handle, link |-> p.link, frags |-> p.frags, grant |-> 0]
  <2>1. p \in Pdu BY <1>0, <1>2 DEF TxTake
  <2>2. r \in Sender /\ r.pc # "send" /\ r.grant = 0 BY <2>1 DEF Pdu, Sender
  <2>3. TxRunner \in Sending /\ sender[TxRunner].pc # "send" /\ sender' = [sender EXCEPT ![TxRunner] = r]
        /\ UNCHANGED <<slots, live, buffered, hci, count>>
    BY <1>2 DEF TxTake, Ask, Sending, table, radio
  <2> HIDE DEF p, r
  <2> QED BY <1>1, <2>2, <2>3
<1>3. ASSUME NEW x \in Sending, CancelAsk(x) PROVE Tally'
  <2>1. Quiet.pc # "send" /\ Quiet.grant = 0 BY DEF Quiet
  <2>2. sender[x].pc # "send" /\ sender' = [sender EXCEPT ![x] = Quiet]
        /\ UNCHANGED <<slots, live, buffered, hci, count>>
    BY <1>3 DEF CancelAsk, table, radio
  <2> QED BY <1>1, <2>1, <2>2, QuietType
<1> QED BY <1>2, <1>3, TallyWrite, TallyDrop, TallyGrant DEF Transmit

-----------------------------------------------------------------------------
LEMMA TallyInit == Init => Tally
<1> SUFFICES ASSUME Init PROVE Tally OBVIOUS
<1>1. \A x \in Sending : sender[x] = Quiet BY DEF Init
<1>2. \A x \in Sending : GrantFits(sender[x]) BY <1>1 DEF GrantFits, Quiet
<1>3. \A h \in Handles : Unused(h)
  <2> SUFFICES ASSUME NEW h \in Handles PROVE Unused(h) OBVIOUS
  <2>1. Out(h) = 0 BY <1>1, NoTokens DEF Out, Quiet
  <2>2. At(hci, Packet("sent", h, h)) = {} BY DEF Init, At
  <2>3. Back(h) = 0 BY <2>2, FS_EmptySet DEF Back
  <2> QED BY <2>1, <2>3 DEF Unused, Init
<1>4. \A s \in Slots : slots[s].handle = NoHandle /\ slots[s].state = "Disconnected" BY DEF Init, Free
<1>5. UpHandles(hci) = {} /\ UpsDistinct(hci) BY DEF Init, UpHandles, UpsDistinct
<1>6. Known BY <1>3, <1>4 DEF Known, Init, NoHandle
<1> QED BY <1>2, <1>4, <1>5, <1>6 DEF Tally, Ups, Fresh, Balanced

LEMMA TallyStep ==
    ASSUME ~Reuse
    PROVE  IInv /\ Own /\ Tally /\ [Next]_vars => Tally'
<1> SUFFICES ASSUME IInv, Own, Tally, [Next]_vars PROVE Tally' OBVIOUS
<1>1. IInv' BY StepInv
<1>2. CASE UNCHANGED vars
  <2>1. (\A h : Out(h)' = Out(h)) /\ (\A h : Back(h)' = Back(h)) /\ UNCHANGED <<slots, live, buffered, count, hci, sender>>
    BY <1>2 DEF vars, Out, Back
  <2>2. Unpaid BY <2>1 DEF Unpaid
  <2> QED BY <1>1, <2>1, <2>2, TallyUnpaid DEF Tally
<1> QED
  BY <1>1, <1>2, TallyController, TallyRx, TallyControl, TallyApplication, TallyTransmit DEF Next

(* Without handle reuse, link credits are neither lost nor made, for any   *)
(* number of slots, senders, links and credits: whatever a sender was      *)
(* granted, wrote, gave back or never wrote, and in whatever order the     *)
(* completions, the end of links and new connections are read.             *)
THEOREM CreditsStay == ~Reuse => (Spec => []CreditsConserved)
<1> SUFFICES ASSUME ~Reuse PROVE Spec => []CreditsConserved OBVIOUS
<1>1. Own /\ Tally => CreditsConserved
  <2> SUFFICES ASSUME Own, Tally, NEW s \in Slots, slots[s].state = "Connected",
                      live[slots[s].handle] = slots[s].link
               PROVE  slots[s].credits + Cardinality(Tokens(slots[s].handle)) + buffered[slots[s].handle]
                          + Cardinality(Unread(slots[s].handle, slots[s].link)) = Credits
    BY DEF CreditsConserved
  <2>1. slots[s].link = slots[s].handle BY DEF Own, OwnSlot
  <2>2. All(s) = Credits BY <2>1 DEF Tally, Balanced
  <2>3. Cardinality(Tokens(slots[s].handle)) = Out(slots[s].handle) BY DEF Tokens, TokensIn, Out
  <2>4. Cardinality(Unread(slots[s].handle, slots[s].link)) = Back(slots[s].handle)
    BY <2>1 DEF Unread, At, Back
  <2> QED BY <2>2, <2>3, <2>4 DEF All
<1>2. IInv /\ Own /\ [Next]_vars => Own' BY OwnStep
<1>3. IInv /\ Own /\ Tally /\ [Next]_vars => Tally' BY TallyStep
<1> QED BY <1>1, <1>2, <1>3, OwnInit, InitInv, StepInv, TallyInit, PTL DEF Spec
=============================================================================
