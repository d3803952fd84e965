----------------------------- MODULE Connections -----------------------------
(***************************************************************************)
(* trouble-host's connection table with any number of slots: the           *)
(* ConnectionManager, the Connection objects an application holds, the     *)
(* three loops of host.rs that work on the table (the RX runner, the first *)
(* arm of the control runner, the TX runner), the senders of L2CAP         *)
(* channels, and the controller they talk to.                              *)
(*                                                                         *)
(* The loops are futures that may run as separate tasks (Runner::split):   *)
(* between two of their awaits anything else can happen.  The controller   *)
(* answers through one FIFO of packets, which only the RX runner reads;    *)
(* the answer to a command is one of them.                                 *)
(*                                                                         *)
(* Roles, peer addresses and accept filters are left out: over all filters *)
(* an application may pass, accept takes any slot that is Connecting.      *)
(* Links are numbered in the order they come up; a number is a ghost that  *)
(* tells two links apart that have the same handle.                        *)
(***************************************************************************)
EXTENDS Integers, Sequences, FiniteSets

CONSTANTS
    NSlots,    \* CONNS of HostResources
    Handles,   \* connection handles the controller uses
    Reuse,     \* whether the controller gives a handle out again
    Holders,   \* places that hold a Connection
    Senders,   \* tasks that send on an L2CAP channel of their own
    TxRunner,  \* the TX runner, a sender too
    Credits,   \* ACL buffers the controller reports, link credits of each link
    OutCap,    \* L2CAP_TX_QUEUE_SIZE
    GattCap,   \* L2CAP_RX_QUEUE_SIZE
    MaxFrags,  \* bound: fragments of a PDU
    MaxLinks,  \* bound: links in a behaviour
    MaxPdus,   \* bound: PDUs the host sends in a behaviour
    MaxIn      \* bound: PDUs that arrive in a behaviour

Slots   == 1 .. NSlots
Links   == 1 .. MaxLinks
NoLink  == 0
NoSlot  == 0
NoHandle == 0
Sending == Senders \cup {TxRunner}

ASSUME ConnectionsAssumption ==
    /\ NSlots \in Nat \ {0} /\ MaxLinks \in Nat /\ MaxPdus \in Nat /\ MaxIn \in Nat
    /\ Credits \in Nat /\ OutCap \in Nat /\ GattCap \in Nat /\ MaxFrags \in Nat
    /\ Handles \subseteq Nat \ {NoHandle}
    /\ Reuse \in BOOLEAN
    /\ IsFiniteSet(Holders) /\ IsFiniteSet(Senders)
    /\ TxRunner \notin Senders

VARIABLES
    slots,     \* the ConnectionStorage of each slot
    holder,    \* the slot of the Connection in each place, and the link it was made for
    outbound,  \* ConnectionManager::outbound
    sender,    \* the L2capSender of each sending future
    rx,        \* the RX runner: reading, or refusing a link it has no slot for
    control,   \* the control runner, and the DisconnectRequest it holds
    command,   \* the handle of the Disconnect command the controller has to execute
    hci,       \* packets from the controller
    live,      \* the link on each handle
    buffered,  \* ACL packets of each handle in the controller's buffers
    count      \* ghost: links, PDUs sent and PDUs received so far

vars == <<slots, holder, outbound, sender, rx, control, command, hci, live, buffered, count>>
table == <<slots, holder>>
radio == <<hci, live, buffered>>
loops == <<rx, control, command>>

States == {"Disconnected", "Connecting", "Connected", "DisconnectRequest", "Disconnecting"}
Nobody == [slot |-> NoSlot, link |-> NoLink]
Quiet  == [pc |-> "idle", handle |-> NoHandle, link |-> NoLink, frags |-> 0, grant |-> 0]
Idle   == [pc |-> "idle", slot |-> NoSlot]
Reading == [pc |-> "read", handle |-> NoHandle]
Free   == [state |-> "Disconnected", handle |-> NoHandle, link |-> NoLink, refs |-> 0,
           credits |-> Credits, gatt |-> <<>>]

Slot == [state : States, handle : Handles \cup {NoHandle}, link : Links \cup {NoLink},
         refs : Nat, credits : Int, gatt : Seq(Links \cup {NoLink})]
Pdu  == [handle : Handles, link : Links \cup {NoLink}, frags : Nat]
Sender == [pc : {"idle", "ask", "send"}, handle : Handles \cup {NoHandle},
           link : Links \cup {NoLink}, frags : Nat, grant : Nat]
HciPacket == [kind : {"up", "down", "sent", "gatt", "bad", "status"},
              handle : Handles, link : Links \cup {NoLink}]

TableOK ==
    /\ slots \in [Slots -> Slot]
    /\ holder \in [Holders -> [slot : Slots \cup {NoSlot}, link : Links \cup {NoLink}]]

LoopsOK ==
    /\ outbound \in Seq(Pdu)
    /\ sender \in [Sending -> Sender]
    /\ rx \in [pc : {"read", "refuse", "wait"}, handle : Handles \cup {NoHandle}]
    /\ control \in [pc : {"idle", "wait", "done"}, slot : Slots \cup {NoSlot}]
    /\ command \in Handles \cup {NoHandle}
    /\ hci \in Seq(HciPacket)
    /\ live \in [Handles -> Links \cup {NoLink}]
    /\ buffered \in [Handles -> Nat]
    /\ count \in [links : 0 .. MaxLinks, sent : Nat, got : Nat]

TypeOK == TableOK /\ LoopsOK

Init ==
    /\ slots = [s \in Slots |-> Free]
    /\ holder = [c \in Holders |-> Nobody]
    /\ outbound = <<>>
    /\ sender = [x \in Sending |-> Quiet]
    /\ rx = Reading /\ control = Idle /\ command = NoHandle
    /\ hci = <<>>
    /\ live = [h \in Handles |-> NoLink]
    /\ buffered = [h \in Handles |-> 0]
    /\ count = [links |-> 0, sent |-> 0, got |-> 0]

-----------------------------------------------------------------------------
(* Every loop over the table takes the first slot that fits.               *)

First(S) == CHOOSE s \in S : \A t \in S : s <= t

Connected(h)  == {s \in Slots : slots[s].state = "Connected" /\ slots[s].handle = h}

\* Mutant: connect() takes a Disconnected slot whatever references are left
VacantWhateverRefs == {s \in Slots : slots[s].state = "Disconnected"}

Vacant        == {s \in Slots : slots[s].state = "Disconnected" /\ slots[s].refs = 0}

OfHandle(h)   == {s \in Slots : slots[s].state # "Disconnected" /\ slots[s].handle = h}

\* Mutant: poll_disconnecting passes over slots that are still referenced
RequestsUnreferenced == {s \in Slots : slots[s].state = "DisconnectRequest" /\ slots[s].refs = 0}

Requests      == {s \in Slots : slots[s].state = "DisconnectRequest"}

SetState(s, st) == slots' = [slots EXCEPT ![s].state = st]

(* Credits go back to the first Connected slot of the handle, if any.      *)
GiveBack(h, n) ==
    IF Connected(h) = {} \/ n = 0 THEN slots' = slots
    ELSE slots' = [slots EXCEPT ![First(Connected(h))].credits = @ + n]

(* request_disconnect and request_handle_disconnect: only a Connected slot *)
(* is marked.                                                              *)
AskDisconnect(S) == IF S = {} THEN slots' = slots ELSE SetState(First(S), "DisconnectRequest")

-----------------------------------------------------------------------------
(* The controller (bt-hci and the radio).                                  *)

Packet(k, h, l) == [kind |-> k, handle |-> h, link |-> l]

LinkUp(h) ==
    /\ count.links < MaxLinks /\ live[h] = NoLink
    /\ Reuse \/ h = count.links + 1
    /\ count' = [count EXCEPT !.links = @ + 1]
    /\ live' = [live EXCEPT ![h] = count.links + 1]
    /\ hci' = Append(hci, Packet("up", h, count.links + 1))
    /\ UNCHANGED <<table, outbound, sender, loops, buffered>>

(* Lost or closed by the peer: its packets are flushed with the link.      *)
LinkDown(h) ==
    /\ live[h] # NoLink
    /\ live' = [live EXCEPT ![h] = NoLink]
    /\ buffered' = [buffered EXCEPT ![h] = 0]
    /\ hci' = Append(hci, Packet("down", h, live[h]))
    /\ UNCHANGED <<table, outbound, sender, loops, count>>

(* The Disconnect command: its status comes first, and says                *)
(* UNKNOWN_CONN_IDENTIFIER when there is no such link any more.            *)
Execute ==
    /\ command # NoHandle
    /\ command' = NoHandle
    /\ live' = [live EXCEPT ![command] = NoLink]
    /\ buffered' = [buffered EXCEPT ![command] = 0]
    /\ hci' = Append(hci, Packet("status", command, NoLink))
              \o (IF live[command] = NoLink THEN <<>> ELSE <<Packet("down", command, live[command])>>)
    /\ UNCHANGED <<table, outbound, sender, rx, control, count>>

PacketSent(h) ==
    /\ live[h] # NoLink /\ buffered[h] > 0
    /\ buffered' = [buffered EXCEPT ![h] = @ - 1]
    /\ hci' = Append(hci, Packet("sent", h, live[h]))
    /\ UNCHANGED <<table, outbound, sender, loops, live, count>>

(* An ATT PDU, or a fragment handle_acl answers with InvalidState.         *)
PacketIn(h, k) ==
    /\ live[h] # NoLink /\ count.got < MaxIn
    /\ count' = [count EXCEPT !.got = @ + 1]
    /\ hci' = Append(hci, Packet(k, h, live[h]))
    /\ UNCHANGED <<table, outbound, sender, loops, live, buffered>>

-----------------------------------------------------------------------------
(* The RX runner.                                                          *)

Received(k) ==
    /\ rx = Reading /\ hci # <<>> /\ Head(hci).kind = k
    /\ hci' = Tail(hci)
    /\ UNCHANGED <<holder, outbound, sender, live, buffered, count>>

RxUp ==
    /\ Received("up")
    /\ LET e == Head(hci)
           s == First(Vacant) IN
       IF Vacant = {}
       THEN rx' = [pc |-> "refuse", handle |-> e.handle] /\ slots' = slots
       ELSE /\ slots' = [slots EXCEPT ![s] =
                            [slots[s] EXCEPT !.state = "Connecting", !.handle = e.handle,
                                             !.link = e.link, !.credits = Credits]]
            /\ rx' = rx
    /\ UNCHANGED <<control, command>>

(* With no slot, the runner itself sends Disconnect and awaits the answer, *)
(* which nobody but itself can read.                                       *)
RxRefuse ==
    /\ rx.pc = "refuse" /\ command = NoHandle
    /\ command' = rx.handle
    /\ rx' = [rx EXCEPT !.pc = "wait"]
    /\ UNCHANGED <<table, outbound, sender, control, radio, count>>

\* Mutant: disconnected() leaves the GATT queue
RxDownKeepsGatt ==
    /\ Received("down")
    /\ LET S == OfHandle(Head(hci).handle) IN
       IF S = {} THEN slots' = slots ELSE SetState(First(S), "Disconnected")
    /\ UNCHANGED loops

RxDown ==
    /\ Received("down")
    /\ LET S == OfHandle(Head(hci).handle) IN
       IF S = {} THEN slots' = slots
       ELSE slots' = [slots EXCEPT ![First(S)] =
                         [slots[First(S)] EXCEPT !.state = "Disconnected", !.gatt = <<>>]]
    /\ UNCHANGED loops

RxSent ==
    /\ Received("sent")
    /\ GiveBack(Head(hci).handle, 1)
    /\ UNCHANGED loops

RxGatt ==
    /\ Received("gatt")
    /\ LET S == Connected(Head(hci).handle) IN
       IF S = {} \/ Len(slots[First(S)].gatt) = GattCap
       THEN slots' = slots
       ELSE slots' = [slots EXCEPT ![First(S)].gatt = Append(@, Head(hci).link)]
    /\ UNCHANGED loops

RxBad ==
    /\ Received("bad")
    /\ AskDisconnect(Connected(Head(hci).handle))
    /\ UNCHANGED loops

RxStatus ==
    /\ Received("status")
    /\ control' = [control EXCEPT !.pc = IF @ = "wait" THEN "done" ELSE @]
    /\ UNCHANGED <<slots, rx, command>>

-----------------------------------------------------------------------------
(* The control runner: take a request, await the command, confirm.         *)

TakeRequest ==
    /\ control.pc = "idle" /\ command = NoHandle /\ Requests # {}
    /\ control' = [pc |-> "wait", slot |-> First(Requests)]
    /\ command' = slots[First(Requests)].handle
    /\ UNCHANGED <<table, outbound, sender, rx, radio, count>>

(* DisconnectRequest::confirm sets the state whatever it is by now.        *)
Confirm ==
    /\ control.pc = "done"
    /\ SetState(control.slot, "Disconnecting")
    /\ control' = Idle
    /\ UNCHANGED <<holder, outbound, sender, rx, command, radio, count>>

-----------------------------------------------------------------------------
(* The Connection objects of the application.                              *)

Hold(c, s) == holder' = [holder EXCEPT ![c] = [slot |-> s, link |-> slots[s].link]]

Accept(c, s) ==
    /\ holder[c] = Nobody /\ slots[s].state = "Connecting"
    /\ slots' = [slots EXCEPT ![s] = [slots[s] EXCEPT !.state = "Connected", !.refs = @ + 1]]
    /\ Hold(c, s)
    /\ UNCHANGED <<outbound, sender, loops, radio, count>>

(* get_connected_handle, and by peer address alike.                        *)
GetConnected(c, h) ==
    /\ holder[c] = Nobody /\ Connected(h) # {}
    /\ LET s == First(Connected(h)) IN
       /\ slots' = [slots EXCEPT ![s].refs = @ + 1]
       /\ Hold(c, s)
    /\ UNCHANGED <<outbound, sender, loops, radio, count>>

Clone(c, d) ==
    /\ holder[c] # Nobody /\ holder[d] = Nobody
    /\ slots' = [slots EXCEPT ![holder[c].slot].refs = @ + 1]
    /\ holder' = [holder EXCEPT ![d] = holder[c]]
    /\ UNCHANGED <<outbound, sender, loops, radio, count>>

(* dec_ref: the last one out asks for the link to be closed.               *)
DropConnection(c) ==
    /\ holder[c] # Nobody
    /\ LET s == holder[c].slot
           last == slots[s].refs = 1 /\ slots[s].state = "Connected" IN
       slots' = [slots EXCEPT ![s] =
                    [slots[s] EXCEPT !.refs = @ - 1,
                                     !.state = IF last THEN "DisconnectRequest" ELSE @]]
    /\ holder' = [holder EXCEPT ![c] = Nobody]
    /\ UNCHANGED <<outbound, sender, loops, radio, count>>

Disconnect(c) ==
    /\ holder[c] # Nobody
    /\ AskDisconnect({holder[c].slot} \cap {s \in Slots : slots[s].state = "Connected"})
    /\ UNCHANGED <<holder, outbound, sender, loops, radio, count>>

(* send and try_send: to the handle in the slot, whatever its state.       *)
Send(c, n) ==
    /\ holder[c] # Nobody /\ Len(outbound) < OutCap /\ count.sent < MaxPdus
    /\ outbound' = Append(outbound, [handle |-> slots[holder[c].slot].handle,
                                     link |-> holder[c].link, frags |-> n])
    /\ count' = [count EXCEPT !.sent = @ + 1]
    /\ UNCHANGED <<table, sender, loops, radio>>

NextGatt(c) ==
    /\ holder[c] # Nobody /\ slots[holder[c].slot].gatt # <<>>
    /\ slots' = [slots EXCEPT ![holder[c].slot].gatt = Tail(@)]
    /\ UNCHANGED <<holder, outbound, sender, loops, radio, count>>

-----------------------------------------------------------------------------
(* BleHost::l2cap and L2capSender.  The header is counted once too often   *)
(* for a PDU that has one already, so the grant may be one packet larger   *)
(* than the PDU; what is left over goes back when the sender is dropped.   *)

Ask(x, h, l, n) ==
    sender' = [sender EXCEPT ![x] = [pc |-> "ask", handle |-> h, link |-> l, frags |-> n, grant |-> 0]]

TxTake ==
    /\ sender[TxRunner].pc = "idle" /\ outbound # <<>>
    /\ outbound' = Tail(outbound)
    /\ LET p == Head(outbound) IN Ask(TxRunner, p.handle, p.link, p.frags)
    /\ UNCHANGED <<table, loops, radio, count>>

(* A channel has the connection handle of its link in it.                  *)
ChannelSend(x, h, n) ==
    /\ x \in Senders /\ sender[x].pc = "idle"
    /\ Connected(h) # {} /\ count.sent < MaxPdus
    /\ Ask(x, h, slots[First(Connected(h))].link, n)
    /\ count' = [count EXCEPT !.sent = @ + 1]
    /\ UNCHANGED <<table, outbound, loops, radio>>

(* poll_request_to_send: NotFound ends the attempt; too few credits wait.  *)
Grant(x, n) ==
    /\ sender[x].pc = "ask" /\ n \in sender[x].frags .. sender[x].frags + 1
    /\ LET S == Connected(sender[x].handle) IN
       IF S = {}
       THEN sender' = [sender EXCEPT ![x] = Quiet] /\ slots' = slots
       ELSE /\ n <= slots[First(S)].credits
            /\ slots' = [slots EXCEPT ![First(S)].credits = @ - n]
            /\ sender' = [sender EXCEPT ![x] = [sender[x] EXCEPT !.pc = "send", !.grant = n]]
    /\ UNCHANGED <<holder, outbound, loops, radio, count>>

Less(n) == IF n = 0 THEN 0 ELSE n - 1     \* saturating_sub(1)

(* One fragment to the controller, which drops what has no link.           *)
Write(x) ==
    /\ sender[x].pc = "send" /\ sender[x].frags > 0
    /\ LET h == sender[x].handle IN
       buffered' = [buffered EXCEPT ![h] = IF live[h] = NoLink THEN @ ELSE @ + 1]
    /\ sender' = [sender EXCEPT ![x] = [sender[x] EXCEPT !.frags = @ - 1, !.grant = Less(@)]]
    /\ UNCHANGED <<table, outbound, loops, hci, live, count>>

\* Mutant: PacketGrant without a Drop
DropSenderKeepsGrant(x) ==
    /\ sender[x].pc = "send" /\ (sender[x].frags = 0 \/ x \in Senders)
    /\ sender' = [sender EXCEPT ![x] = Quiet]
    /\ UNCHANGED <<table, outbound, loops, radio, count>>

(* The sender is dropped: the PDU is out, or its future was cancelled.     *)
DropSender(x) ==
    /\ sender[x].pc = "send" /\ (sender[x].frags = 0 \/ x \in Senders)
    /\ GiveBack(sender[x].handle, sender[x].grant)
    /\ sender' = [sender EXCEPT ![x] = Quiet]
    /\ UNCHANGED <<holder, outbound, loops, radio, count>>

CancelAsk(x) ==
    /\ x \in Senders /\ sender[x].pc = "ask"
    /\ sender' = [sender EXCEPT ![x] = Quiet]
    /\ UNCHANGED <<table, outbound, loops, radio, count>>

-----------------------------------------------------------------------------
Controller ==
    \/ \E h \in Handles : LinkUp(h) \/ LinkDown(h) \/ PacketSent(h)
    \/ \E h \in Handles, k \in {"gatt", "bad"} : PacketIn(h, k)
    \/ Execute

Rx == RxUp \/ RxRefuse \/ RxDown \/ RxSent \/ RxGatt \/ RxBad \/ RxStatus

Control == TakeRequest \/ Confirm

Application ==
    \/ \E c \in Holders :
         \/ \E s \in Slots : Accept(c, s)
         \/ \E h \in Handles : GetConnected(c, h)
         \/ \E d \in Holders : Clone(c, d)
         \/ \E n \in 1 .. MaxFrags : Send(c, n)
         \/ DropConnection(c) \/ Disconnect(c) \/ NextGatt(c)
    \/ \E x \in Senders, h \in Handles, n \in 1 .. MaxFrags : ChannelSend(x, h, n)

Transmit ==
    \/ TxTake
    \/ \E x \in Sending : Write(x) \/ DropSender(x) \/ CancelAsk(x)
    \/ \E x \in Sending, n \in 1 .. MaxFrags + 1 : Grant(x, n)

Next == Controller \/ Rx \/ Control \/ Application \/ Transmit

Spec == Init /\ [][Next]_vars

(* Every loop that can go on does; the radio, the peers and the            *)
(* application promise nothing, but a command is executed.                 *)
FairSpec == Spec /\ WF_vars(Rx) /\ WF_vars(Control) /\ WF_vars(Execute)

-----------------------------------------------------------------------------
HoldersOf(s) == {c \in Holders : holder[c].slot = s}

(* Safety: a Connection stays with the link it was made for, whatever      *)
(* comes and goes meanwhile: connect() gives out no slot that a reference  *)
(* is left to.                                                             *)
HolderKeepsItsLink ==
    \A c \in Holders : holder[c] # Nobody => slots[holder[c].slot].link = holder[c].link

(* Safety: a slot's refcount is the number of Connections there are, and   *)
(* a slot that waits for accept() has none: neither the unwrap! of         *)
(* dec_ref ("dropping a connection with refcount 0") nor the assert_eq! of *)
(* poll_accept can fail.                                                   *)
RefsAreHolders ==
    \A s \in Slots : /\ slots[s].refs = Cardinality(HoldersOf(s))
                     /\ slots[s].state = "Connecting" => slots[s].refs = 0

(* Safety, without handle reuse: what a session reads from its slot's GATT *)
(* queue was sent on its own link.                                         *)
GattOfItsLink == \A s \in Slots : \A i \in 1 .. Len(slots[s].gatt) : slots[s].gatt[i] = slots[s].link

(* Safety, without handle reuse: a PDU goes out on the link of the         *)
(* Connection or channel that sent it, or not at all.                      *)
PduOnItsLink ==
    \A x \in Sending : sender[x].pc = "send" => live[sender[x].handle] \in {NoLink, sender[x].link}

(* One token for every credit a sender still has on the handle.            *)
Tokens(h) == {t \in Sending \X (1 .. MaxFrags + 1) :
                 sender[t[1]].handle = h /\ t[2] <= sender[t[1]].grant}

(* The completions of a link that the RX runner has not read.              *)
Unread(h, l) == {i \in 1 .. Len(hci) : hci[i] = Packet("sent", h, l)}

(* Safety, without handle reuse: link credits are neither lost nor made:   *)
(* those of the slot, those granted, the packets in the controller and the *)
(* completions not yet read are together what the controller reported.     *)
CreditsConserved ==
    \A s \in Slots : LET h == slots[s].handle IN
        slots[s].state = "Connected" /\ live[h] = slots[s].link =>
            slots[s].credits + Cardinality(Tokens(h)) + buffered[h]
                + Cardinality(Unread(h, slots[s].link)) = Credits

(* Liveness: a slot marked for disconnection is taken up by the control    *)
(* runner, unless the RX runner waits for a command of its own.            *)
RequestServed ==
    \A s \in Slots : slots[s].state = "DisconnectRequest" ~>
        (slots[s].state # "DisconnectRequest" \/ rx.pc # "read")

=============================================================================
