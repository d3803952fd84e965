------------------------------- MODULE Channels -------------------------------
(***************************************************************************)
(* trouble-host's credit-based L2CAP channels (channel_manager.rs, the     *)
(* handles of l2cap.rs, the second arm of the control runner), at both     *)
(* ends of a link: the slots of both channel managers, the futures that    *)
(* create, accept, send and receive, the two RX runners and the signals    *)
(* and frames between them.                                                *)
(*                                                                         *)
(* wire[e] is what the controller of end e has for its host, in order.     *)
(* The content of an SDU is left out: on every frame that is taken it is   *)
(* open whether it completes an SDU.  PSMs, MTUs and MPSs are left out.    *)
(* Connections have the number of their link for a handle; Connections.tla *)
(* is about handles that are used again.                                   *)
(*                                                                         *)
(* The identifier of the connection request (of either end, drawn here     *)
(* from one counter) stays with both ends of the channel as a ghost that   *)
(* tells the channels apart that a slot, and so a cid, was used for.       *)
(***************************************************************************)
EXTENDS Integers, Sequences, FiniteSets

CONSTANTS
    NChan,      \* CHANNELS of HostResources
    Creators,   \* ends whose application calls create
    Speakers,   \* ends whose application calls send
    Splitters,  \* ends whose application calls split
    Initial,    \* initial_credits
    QLen,       \* L2CAP_RX_QUEUE_SIZE
    Every,      \* CreditFlowPolicy::Every(n); 0 stands for MinThreshold
    Threshold,  \* CreditFlowPolicy::MinThreshold(n)
    MaxLinks,   \* bound: links in a behaviour
    MaxOpens,   \* bound: calls of create
    MaxSends,   \* bound: calls of send
    MaxCancels, \* bound: futures the application drops before they are ready
    MaxFrames   \* bound: frames of an SDU

Ends  == {1, 2}
Other(e) == 3 - e
Slots == 1 .. NChan
None  == 0

ASSUME ChannelsAssumption ==
    /\ NChan \in Nat \ {0} /\ Creators \subseteq Ends /\ Speakers \subseteq Ends
    /\ Splitters \subseteq Ends
    /\ Initial \in Nat /\ QLen \in Nat /\ Every \in Nat /\ Threshold \in Nat
    /\ MaxLinks \in Nat /\ MaxOpens \in Nat /\ MaxSends \in Nat /\ MaxFrames \in Nat
    /\ MaxCancels \in Nat

VARIABLES
    chan,      \* the ChannelStorage of each slot
    handles,   \* the handles of l2cap.rs there are of each slot
    creator,   \* the future of create
    acceptor,  \* the future of accept, once it has a channel
    sender,    \* the future of send on each slot
    receiver,  \* the future of receive on each slot
    control,   \* the control runner, and the DisconnectRequest it holds
    linked,    \* the connection the application uses, and whether the host has it Connected
    air,       \* the link that is up
    wire,      \* from the controller to the host
    count      \* ghost: links, channels and SDUs so far

futures == <<creator, acceptor, sender, receiver, control>>
vars == <<chan, handles, futures, linked, air, wire, count>>

States == {"Disconnected", "Connecting", "PeerConnecting", "Connected",
           "PeerDisconnecting", "Disconnecting"}
Forms  == {"channel", "writer", "reader", "ref"}
Fresh  == [state |-> "Disconnected", conn |-> None, cid |-> None, peer |-> None, id |-> 0,
           credits |-> 0, available |-> 0, received |-> 0, inbound |-> 0, refs |-> 0, skew |-> 0,
           astray |-> 0]
Idle   == [pc |-> "idle", slot |-> None, conn |-> None]
Done   == [pc |-> "idle", slot |-> None, conn |-> None, id |-> 0]
Quiet  == [pc |-> "idle", left |-> 0, grant |-> 0, conn |-> None, peer |-> None]
Deaf   == [pc |-> "idle", n |-> 0]
NoRequest == [pc |-> "idle", slot |-> None, kind |-> "dreq", conn |-> None, cid |-> None]

Conns == 0 .. MaxLinks
Cids  == 0 .. NChan
Chan  == [state : States, conn : Conns, cid : Cids, peer : Cids, id : Nat,
          credits : Nat, available : Nat, received : Nat, inbound : Nat, refs : Nat, skew : Int,
          astray : Int]
Message == [kind : {"up", "down", "req", "res", "ind", "data", "dreq", "drsp"},
            conn : Conns, cid : Cids, id : Nat, n : Nat]

TypeOK ==
    /\ chan \in [Ends -> [Slots -> Chan]]
    /\ handles \in [Ends -> [Slots -> SUBSET Forms]]
    /\ creator \in [Ends -> [pc : {"idle", "ask", "wait", "panicked"}, slot : Cids, conn : Conns,
                            id : Nat]]
    /\ acceptor \in [Ends -> [pc : {"idle", "answer"}, slot : Cids, conn : Conns]]
    /\ sender \in [Ends -> [Slots -> [pc : {"idle", "ask", "frames"}, left : Nat, grant : Nat,
                                      conn : Conns, peer : Cids]]]
    /\ receiver \in [Ends -> [Slots -> [pc : {"idle", "tell", "told"}, n : Nat]]]
    /\ control \in [Ends -> [pc : {"idle", "send", "confirm"}, slot : Cids,
                             kind : {"dreq", "drsp"}, conn : Conns, cid : Cids]]
    /\ linked \in [Ends -> [conn : Conns, on : BOOLEAN]]
    /\ air \in Conns
    /\ wire \in [Ends -> Seq(Message)]
    /\ count \in [links : Conns, opens : Nat, sends : Nat, cancels : Nat]

Init ==
    /\ chan = [e \in Ends |-> [i \in Slots |-> Fresh]]
    /\ handles = [e \in Ends |-> [i \in Slots |-> {}]]
    /\ creator = [e \in Ends |-> Done] /\ acceptor = [e \in Ends |-> Idle]
    /\ sender = [e \in Ends |-> [i \in Slots |-> Quiet]]
    /\ receiver = [e \in Ends |-> [i \in Slots |-> Deaf]]
    /\ control = [e \in Ends |-> NoRequest]
    /\ linked = [e \in Ends |-> [conn |-> None, on |-> FALSE]]
    /\ air = None
    /\ wire = [e \in Ends |-> <<>>]
    /\ count = [links |-> 0, opens |-> 0, sends |-> 0, cancels |-> 0]

-----------------------------------------------------------------------------
First(S) == CHOOSE i \in S : \A j \in S : i <= j

Msg(k, l, cid, id, n) == [kind |-> k, conn |-> l, cid |-> cid, id |-> id, n |-> n]

SetChan(e, i, r) == chan' = [chan EXCEPT ![e][i] = r]

(* The link layer still has the connection; whether the radio still has    *)
(* the link is another matter.                                             *)
IsConnected(e, l) == linked[e].on /\ linked[e].conn = l

Write(e, m) ==
    wire' = IF air = m.conn THEN [wire EXCEPT ![Other(e)] = Append(@, m)] ELSE wire

Free(e) == {i \in Slots : chan[e][i].state = "Disconnected" /\ chan[e][i].refs = 0}

(* alloc: an unused slot, its queue emptied.                               *)
Allocated(e, l, st, id) ==
    [chan[e][First(Free(e))] EXCEPT !.state = st, !.conn = l, !.cid = First(Free(e)),
                                    !.id = id, !.inbound = 0, !.skew = 0, !.astray = 0]

(* ChannelStorage::close.                                                  *)
Closed(r) == [r EXCEPT !.state = "Disconnected", !.cid = None, !.conn = None, !.peer = None,
                       !.available = 0, !.received = 0, !.credits = 0]

(* dec_ref.                                                                *)
Released(r) ==
    [r EXCEPT !.refs = @ - 1,
              !.state = IF r.refs = 1 /\ @ = "Connected" THEN "Disconnecting" ELSE @]

(* CreditFlowControl::process.                                             *)
ToGrant(r) ==
    IF (Every > 0 /\ r.received >= Every) \/ (Every = 0 /\ r.available < Threshold)
    THEN {r.received} ELSE {}

Minus(a, b) == IF a > b THEN a - b ELSE 0     \* saturating_sub

-----------------------------------------------------------------------------
(* The radio and the connection manager. *)

LinkUp ==
    /\ air = None /\ count.links < MaxLinks
    /\ count' = [count EXCEPT !.links = @ + 1]
    /\ air' = count.links + 1
    /\ wire' = [e \in Ends |-> Append(wire[e], Msg("up", count.links + 1, None, 0, 0))]
    /\ UNCHANGED <<chan, handles, futures, linked>>

(* Either end may miss what it has not read of the link yet; to lose a     *)
(* later part of it only is to read the rest before.                       *)
Kept(e, k) ==
    \/ k = Len(wire[e])
    \/ /\ \A x \in k + 1 .. Len(wire[e]) : wire[e][x].kind \notin {"up", "down"}
       /\ k > 0 => wire[e][k].kind \in {"up", "down"}

LinkDown ==
    /\ air # None
    /\ air' = None
    /\ \E k1 \in 0 .. Len(wire[1]), k2 \in 0 .. Len(wire[2]) :
         /\ Kept(1, k1) /\ Kept(2, k2)
         /\ wire' = [e \in Ends |-> Append(SubSeq(wire[e], 1, IF e = 1 THEN k1 ELSE k2),
                                           Msg("down", air, None, 0, 0))]
    /\ UNCHANGED <<chan, handles, futures, linked, count>>

Received(e, k) ==
    /\ wire[e] # <<>> /\ Head(wire[e]).kind = k
    /\ wire' = [wire EXCEPT ![e] = Tail(@)]
    /\ UNCHANGED <<handles, futures, air, count>>

RxUp(e) ==
    /\ Received(e, "up")
    /\ linked' = [linked EXCEPT ![e] = [conn |-> Head(wire[e]).conn, on |-> TRUE]]
    /\ UNCHANGED chan

RxDown(e) ==
    /\ Received(e, "down")
    /\ linked' = [linked EXCEPT ![e].on = FALSE]
    /\ chan' = [chan EXCEPT ![e] = [i \in Slots |->
                  IF chan[e][i].conn = Head(wire[e]).conn THEN Closed(chan[e][i]) ELSE chan[e][i]]]

-----------------------------------------------------------------------------
(* Signals and frames. *)

(* With no slot left the request is not even answered.                     *)
RxRequest(e) ==
    /\ Received(e, "req")
    /\ LET m == Head(wire[e]) IN
       IF Free(e) = {} THEN chan' = chan
       ELSE SetChan(e, First(Free(e)),
                    [Allocated(e, m.conn, "PeerConnecting", m.id) EXCEPT !.peer = m.cid, !.credits = m.n])
    /\ UNCHANGED linked

RxResponse(e) ==
    /\ Received(e, "res")
    /\ LET m == Head(wire[e])
           S == {i \in Slots : chan[e][i].state = "Connecting" /\ chan[e][i].id = m.id
                                                               /\ chan[e][i].conn = m.conn} IN
       IF S = {} THEN chan' = chan
       ELSE SetChan(e, First(S), [chan[e][First(S)] EXCEPT !.state = "Connected", !.peer = m.cid,
                                                           !.credits = m.n])
    /\ UNCHANGED linked

(* The first channel with that cid at the peer, which need not be the one  *)
(* it is for: the cid may have been used for another since.                *)
Astray(r, m) ==
    IF r.id = m.id THEN [r EXCEPT !.astray = @ - m.n] ELSE r

RxIndication(e) ==
    /\ Received(e, "ind")
    /\ LET m == Head(wire[e])
           S == {i \in Slots : chan[e][i].state = "Connected" /\ chan[e][i].peer = m.cid
                                                              /\ chan[e][i].conn = m.conn}
           w == First(S)
           r == chan[e][w]
           taken == [r EXCEPT !.credits = @ + m.n, !.astray = IF r.id = m.id THEN @ ELSE @ + m.n] IN
       IF S = {} THEN chan' = chan
       ELSE chan' = [chan EXCEPT ![e] =
                       [i \in Slots |-> IF i = w THEN taken ELSE Astray(chan[e][i], m)]]
    /\ UNCHANGED linked

(* dispatch: an error drops the frame, or with the queue full the SDU, and *)
(* leaves the link as it is.                                               *)
RxData(e) ==
    /\ Received(e, "data")
    /\ LET m == Head(wire[e])
           i == m.cid
           r == chan[e][i]
           own == IF m.id = r.id THEN 1 ELSE 0 IN
       IF i \notin Slots \/ r.state # "Connected" \/ r.cid # i THEN UNCHANGED chan
       ELSE IF r.available = 0
       THEN SetChan(e, i, [r EXCEPT !.skew = @ - own])
       ELSE \E whole \in BOOLEAN :
            SetChan(e, i, [r EXCEPT !.available = @ - 1, !.received = @ + 1, !.skew = @ + 1 - own,
                                    !.inbound = IF whole /\ @ < QLen THEN @ + 1 ELSE @])
    /\ UNCHANGED linked

(* Whatever the state and the connection: only the cid is looked at.       *)
RxDisconnectRequest(e) ==
    /\ Received(e, "dreq")
    /\ LET S == {i \in Slots : chan[e][i].cid = Head(wire[e]).cid} IN
       chan' = IF S = {} THEN chan ELSE [chan EXCEPT ![e][First(S)].state = "PeerDisconnecting"]
    /\ UNCHANGED linked

RxDisconnectResponse(e) ==
    /\ Received(e, "drsp")
    /\ LET S == {i \in Slots : chan[e][i].state = "Disconnecting" /\ chan[e][i].cid = Head(wire[e]).cid} IN
       IF S = {} THEN chan' = chan ELSE SetChan(e, First(S), Closed(chan[e][First(S)]))
    /\ UNCHANGED linked

-----------------------------------------------------------------------------
(* A future the application drops, or one that ends by itself.             *)

Cancel == count.cancels < MaxCancels /\ count' = [count EXCEPT !.cancels = @ + 1]

Stops(done) == (done /\ count' = count) \/ (~done /\ Cancel)

-----------------------------------------------------------------------------
(* create and accept. *)

others == <<linked, air>>

(* The connection may have ended already: alloc does not look.             *)
Create(e) ==
    /\ e \in Creators /\ creator[e].pc = "idle" /\ linked[e].conn # None /\ Free(e) # {}
    /\ count.opens < MaxOpens
    /\ count' = [count EXCEPT !.opens = @ + 1]
    /\ LET i == First(Free(e)) IN
       /\ SetChan(e, i, [Allocated(e, linked[e].conn, "Connecting", count.opens + 1)
                            EXCEPT !.available = Initial, !.received = 0])
       /\ creator' = [creator EXCEPT ![e] = [pc |-> "ask", slot |-> i, conn |-> linked[e].conn,
                                                id |-> count.opens + 1]]
    /\ UNCHANGED <<handles, acceptor, sender, receiver, control, wire, others>>

(* An error leaves the slot Connecting.                                    *)
CreateAsk(e) ==
    /\ creator[e].pc = "ask"
    /\ LET l == creator[e].conn
           i == creator[e].slot IN
       IF IsConnected(e, l)
       THEN /\ Write(e, Msg("req", l, i, creator[e].id, Initial))
            /\ creator' = [creator EXCEPT ![e].pc = "wait"]
       ELSE creator' = [creator EXCEPT ![e] = Done] /\ wire' = wire
    /\ UNCHANGED <<chan, handles, acceptor, sender, receiver, control, count, others>>

(* poll_created, when it is ready; its assertions are on the connection    *)
(* and on the refcount of the slot.                                        *)
Created(e) ==
    /\ creator[e].pc = "wait"
    /\ LET i == creator[e].slot
           r == chan[e][i]
           end(pc) == creator' = [creator EXCEPT ![e] = [Done EXCEPT !.pc = pc]] IN
       \/ /\ ~IsConnected(e, creator[e].conn)
          /\ end("idle") /\ UNCHANGED <<chan, handles>>
       \/ /\ IsConnected(e, creator[e].conn)
          /\ r.conn # creator[e].conn \/ (r.state = "Connected" /\ r.refs # 0)
          /\ end("panicked") /\ UNCHANGED <<chan, handles>>
       \/ /\ IsConnected(e, creator[e].conn) /\ r.conn = creator[e].conn
          /\ r.state \in {"Disconnecting", "PeerDisconnecting"}
          /\ end("idle") /\ UNCHANGED <<chan, handles>>
       \/ /\ IsConnected(e, creator[e].conn) /\ r.conn = creator[e].conn
          /\ r.state = "Connected" /\ r.refs = 0
          /\ end("idle")
          /\ SetChan(e, i, [r EXCEPT !.refs = @ + 1])
          /\ handles' = [handles EXCEPT ![e][i] = {"channel"}]
    /\ UNCHANGED <<acceptor, sender, receiver, control, wire, count, others>>

CancelCreate(e) ==
    /\ creator[e].pc \in {"ask", "wait"} /\ Cancel
    /\ creator' = [creator EXCEPT ![e] = Done]
    /\ UNCHANGED <<chan, handles, acceptor, sender, receiver, control, wire, others>>

Accept(e) ==
    /\ acceptor[e].pc = "idle"
    /\ \E i \in Slots :
       LET r == chan[e][i] IN
       /\ r.state = "PeerConnecting" /\ r.conn = linked[e].conn
       /\ \A j \in 1 .. i - 1 : ~(chan[e][j].state = "PeerConnecting" /\ chan[e][j].conn = r.conn)
       /\ SetChan(e, i, [r EXCEPT !.state = "Connected", !.available = Initial, !.received = 0,
                                  !.refs = @ + 1])
       /\ handles' = [handles EXCEPT ![e][i] = @ \cup {"channel"}]
       /\ acceptor' = [acceptor EXCEPT ![e] = [pc |-> "answer", slot |-> i, conn |-> r.conn]]
    /\ UNCHANGED <<creator, sender, receiver, control, wire, count, others>>

(* The response goes out and the channel is handed over; or the future     *)
(* fails or is dropped, and the channel with it.                           *)
Answer(e) ==
    /\ acceptor[e].pc = "answer" /\ IsConnected(e, acceptor[e].conn)
    /\ LET i == acceptor[e].slot IN
       Write(e, Msg("res", acceptor[e].conn, i, chan[e][i].id, Initial))
    /\ acceptor' = [acceptor EXCEPT ![e] = Idle]
    /\ UNCHANGED <<chan, handles, creator, sender, receiver, control, count, others>>

AcceptFails(e) ==
    /\ acceptor[e].pc = "answer" /\ Stops(~IsConnected(e, acceptor[e].conn))
    /\ LET i == acceptor[e].slot IN
       /\ SetChan(e, i, Released(chan[e][i]))
       /\ handles' = [handles EXCEPT ![e][i] = {}]
    /\ acceptor' = [acceptor EXCEPT ![e] = Idle]
    /\ UNCHANGED <<creator, sender, receiver, control, wire, others>>

-----------------------------------------------------------------------------
(* The handles.  A handle is not dropped, split or merged while a future   *)
(* borrows it.                                                             *)

InHand(e, i, F) ==
    /\ handles[e][i] \cap F # {} /\ ~(acceptor[e].pc = "answer" /\ acceptor[e].slot = i)

StillSender(e, i)   == sender[e][i] = Quiet
StillReceiver(e, i) == receiver[e][i] = Deaf

Drop(e, i, f) ==
    /\ InHand(e, i, {f})
    /\ f \in {"channel", "writer"} => StillSender(e, i)
    /\ f \in {"channel", "reader"} => StillReceiver(e, i)
    /\ SetChan(e, i, Released(chan[e][i]))
    /\ handles' = [handles EXCEPT ![e][i] = @ \ {f}]
    /\ UNCHANGED <<futures, wire, count, others>>

(* Two references more, then the channel itself is dropped.                *)
Split(e, i) ==
    /\ e \in Splitters /\ InHand(e, i, {"channel"}) /\ StillSender(e, i) /\ StillReceiver(e, i)
    /\ SetChan(e, i, Released([chan[e][i] EXCEPT !.refs = @ + 2]))
    /\ handles' = [handles EXCEPT ![e][i] = (@ \ {"channel"}) \cup {"writer", "reader"}]
    /\ UNCHANGED <<futures, wire, count, others>>

Merge(e, i) ==
    /\ {"writer", "reader"} \subseteq handles[e][i] /\ StillSender(e, i) /\ StillReceiver(e, i)
    /\ SetChan(e, i, Released(Released([chan[e][i] EXCEPT !.refs = @ + 1])))
    /\ handles' = [handles EXCEPT ![e][i] = (@ \ {"writer", "reader"}) \cup {"channel"}]
    /\ UNCHANGED <<futures, wire, count, others>>

ChannelRef(e, i) ==
    /\ InHand(e, i, {"reader"}) /\ StillReceiver(e, i) /\ "ref" \notin handles[e][i]
    /\ SetChan(e, i, [chan[e][i] EXCEPT !.refs = @ + 1])
    /\ handles' = [handles EXCEPT ![e][i] = @ \cup {"ref"}]
    /\ UNCHANGED <<futures, wire, count, others>>

Disconnect(e, i) ==
    /\ InHand(e, i, {"channel", "writer", "reader"})
    /\ chan[e][i].state = "Connected"
    /\ chan' = [chan EXCEPT ![e][i].state = "Disconnecting"]
    /\ UNCHANGED <<handles, futures, wire, count, others>>

-----------------------------------------------------------------------------
(* send: the parameters are read once, then the credits are waited for,    *)
(* then the frames are written one by one.                                 *)

SetSender(e, i, s) == sender' = [sender EXCEPT ![e][i] = s]

Send(e, i, n) ==
    /\ e \in Speakers /\ InHand(e, i, {"channel", "writer"}) /\ StillSender(e, i)
    /\ chan[e][i].state = "Connected" /\ count.sends < MaxSends
    /\ count' = [count EXCEPT !.sends = @ + 1]
    /\ SetSender(e, i, [pc |-> "ask", left |-> n, grant |-> 0,
                        conn |-> chan[e][i].conn, peer |-> chan[e][i].peer])
    /\ UNCHANGED <<chan, handles, creator, acceptor, receiver, control, wire, others>>

Granted(e, i) ==
    /\ sender[e][i].pc = "ask"
    /\ LET n == sender[e][i].left
           r == chan[e][i] IN
       \/ /\ r.state = "Connected" /\ n <= r.credits
          /\ SetChan(e, i, [r EXCEPT !.credits = @ - n])
          /\ SetSender(e, i, [sender[e][i] EXCEPT !.pc = "frames", !.grant = n])
       \/ /\ r.state # "Connected"
          /\ SetSender(e, i, Quiet) /\ chan' = chan
    /\ UNCHANGED <<handles, creator, acceptor, receiver, control, wire, count, others>>

(* The channel is not looked at again.                                     *)
Frame(e, i) ==
    /\ sender[e][i].pc = "frames" /\ sender[e][i].left > 0 /\ IsConnected(e, sender[e][i].conn)
    /\ Write(e, Msg("data", sender[e][i].conn, sender[e][i].peer, chan[e][i].id, 0))
    /\ SetSender(e, i, [sender[e][i] EXCEPT !.left = @ - 1, !.grant = Minus(@, 1)])
    /\ UNCHANGED <<chan, handles, creator, acceptor, receiver, control, count, others>>

\* Mutant: CreditGrant without a Drop
SendEndsKeeping(e, i) ==
    /\ sender[e][i].pc # "idle"
    /\ Stops(sender[e][i].pc = "frames" /\ (sender[e][i].left = 0 \/ ~IsConnected(e, sender[e][i].conn)))
    /\ SetSender(e, i, Quiet)
    /\ UNCHANGED <<chan, handles, creator, acceptor, receiver, control, wire, others>>

(* All sent, an error, or dropped: CreditGrant gives back what is left.    *)
SendEnds(e, i) ==
    /\ sender[e][i].pc # "idle"
    /\ Stops(sender[e][i].pc = "frames" /\ (sender[e][i].left = 0 \/ ~IsConnected(e, sender[e][i].conn)))
    /\ SetSender(e, i, Quiet)
    /\ chan' = IF chan[e][i].state # "Connected" THEN chan
               ELSE [chan EXCEPT ![e][i].credits = @ + sender[e][i].grant]
    /\ UNCHANGED <<handles, creator, acceptor, receiver, control, wire, others>>

-----------------------------------------------------------------------------
(* receive and receive_sdu: an SDU, then flow_control: the credits to give *)
(* are counted, indicated to the peer, and only then confirmed.            *)

SetReceiver(e, i, v) == receiver' = [receiver EXCEPT ![e][i] = v]

Receive(e, i) ==
    /\ InHand(e, i, {"channel", "reader"}) /\ StillReceiver(e, i)
    /\ chan[e][i].state = "Connected" /\ chan[e][i].inbound > 0
    /\ chan' = [chan EXCEPT ![e][i].inbound = @ - 1]
    /\ IF ToGrant(chan[e][i]) = {} THEN receiver' = receiver
       ELSE \E n \in ToGrant(chan[e][i]) : SetReceiver(e, i, [pc |-> "tell", n |-> n])
    /\ UNCHANGED <<handles, creator, acceptor, sender, control, wire, count, others>>

Tell(e, i) ==
    /\ receiver[e][i].pc = "tell"
    /\ LET r == chan[e][i]
           l == r.conn IN
       IF l # None /\ IsConnected(e, l)
       THEN /\ Write(e, Msg("ind", l, i, r.id, receiver[e][i].n))
            /\ SetReceiver(e, i, [receiver[e][i] EXCEPT !.pc = "told"])
       ELSE SetReceiver(e, i, Deaf) /\ wire' = wire
    /\ UNCHANGED <<chan, handles, creator, acceptor, sender, control, count, others>>

ConfirmGrant(e, i) ==
    /\ receiver[e][i].pc = "told"
    /\ LET r == chan[e][i]
           n == receiver[e][i].n IN
       chan' = IF r.state # "Connected" THEN chan
               ELSE [chan EXCEPT ![e][i] = [r EXCEPT !.received = Minus(@, n), !.available = @ + n]]
    /\ SetReceiver(e, i, Deaf)
    /\ UNCHANGED <<handles, creator, acceptor, sender, control, wire, count, others>>

(* Dropped after the indication is out, the peer has the credits and the   *)
(* channel does not know.                                                  *)
CancelReceive(e, i) ==
    /\ receiver[e][i].pc \in {"tell", "told"} /\ Cancel
    /\ chan' = IF receiver[e][i].pc = "tell" THEN chan
               ELSE [chan EXCEPT ![e][i].skew = @ + receiver[e][i].n]
    /\ SetReceiver(e, i, Deaf)
    /\ UNCHANGED <<handles, creator, acceptor, sender, control, wire, others>>

-----------------------------------------------------------------------------
(* The control runner: poll_disconnecting, DisconnectRequest::send and     *)
(* confirm.  A response carries the cids as a request does.                *)

\* Mutant: poll_disconnecting leaves a disconnection by the peer to the peer
EndingOwn(e) == {i \in Slots : chan[e][i].state = "Disconnecting"}

Ending(e) == {i \in Slots : chan[e][i].state \in {"Disconnecting", "PeerDisconnecting"}}

TakeRequest(e) ==
    /\ control[e].pc = "idle" /\ Ending(e) # {}
    /\ LET i == First(Ending(e))
           peers == chan[e][i].state = "PeerDisconnecting" IN
       control' = [control EXCEPT ![e] =
                     [pc |-> "send", slot |-> i, conn |-> chan[e][i].conn,
                      kind |-> IF peers THEN "drsp" ELSE "dreq",
                      cid |-> IF peers THEN chan[e][i].cid ELSE chan[e][i].peer]]
    /\ UNCHANGED <<chan, handles, creator, acceptor, sender, receiver, wire, count, others>>

SendRequest(e) ==
    /\ control[e].pc = "send"
    /\ IF IsConnected(e, control[e].conn)
       THEN Write(e, Msg(control[e].kind, control[e].conn, control[e].cid, 0, 0))
       ELSE wire' = wire
    /\ control' = [control EXCEPT ![e].pc = "confirm"]
    /\ UNCHANGED <<chan, handles, creator, acceptor, sender, receiver, count, others>>

(* Whatever the slot is used for by now.                                   *)
ConfirmRequest(e) ==
    /\ control[e].pc = "confirm"
    /\ chan' = [chan EXCEPT ![e][control[e].slot].state = "Disconnected"]
    /\ control' = [control EXCEPT ![e] = NoRequest]
    /\ UNCHANGED <<handles, creator, acceptor, sender, receiver, wire, count, others>>

-----------------------------------------------------------------------------
Rx(e) == RxUp(e) \/ RxDown(e) \/ RxRequest(e) \/ RxResponse(e) \/ RxIndication(e) \/ RxData(e)
            \/ RxDisconnectRequest(e) \/ RxDisconnectResponse(e)

Open(e) == Create(e) \/ CreateAsk(e) \/ Created(e) \/ CancelCreate(e)
              \/ Accept(e) \/ Answer(e) \/ AcceptFails(e)

Handle(e, i) ==
    \/ \E f \in Forms : Drop(e, i, f)
    \/ Split(e, i) \/ Merge(e, i) \/ ChannelRef(e, i) \/ Disconnect(e, i)

Data(e, i) ==
    \/ \E n \in 1 .. MaxFrames : Send(e, i, n)
    \/ Granted(e, i) \/ Frame(e, i) \/ SendEnds(e, i)
    \/ Receive(e, i) \/ Tell(e, i) \/ ConfirmGrant(e, i) \/ CancelReceive(e, i)

Control(e) == TakeRequest(e) \/ SendRequest(e) \/ ConfirmRequest(e)

Next ==
    \/ LinkUp \/ LinkDown
    \/ \E e \in Ends : Rx(e) \/ Open(e) \/ Control(e) \/ \E i \in Slots : Handle(e, i) \/ Data(e, i)

Spec == Init /\ [][Next]_vars

(* The control runner goes on whenever it can: it is one of the futures of *)
(* a runner that every packet wakes.                                       *)
FairSpec == Spec /\ \A e \in Ends : WF_vars(Control(e))

-----------------------------------------------------------------------------
(* Safety: the refcount of a slot is the number of handles there are, and  *)
(* a channel that is still to be handed out has none: dec_ref finds no 0   *)
(* ("bug: dropping a channel"), and accept no reference ("unexpected       *)
(* refcount").                                                             *)
RefsAreHandles ==
    \A e \in Ends, i \in Slots :
        /\ chan[e][i].refs = Cardinality(handles[e][i])
        /\ chan[e][i].state \in {"Connecting", "PeerConnecting"} => chan[e][i].refs = 0

(* Safety: at the receiving end credits are neither made nor lost: those   *)
(* the peer may still use and those of frames not yet granted again are    *)
(* together what the channel started with.                                 *)
GrantsConserved ==
    \A e \in Ends, i \in Slots : chan[e][i].state = "Connected" =>
        chan[e][i].available + chan[e][i].received = Initial

(* Of the channel with an id, in a queue: the credits its frames have taken *)
(* or its indications give, one by one.                                     *)
Worth(m) == IF m.kind = "data" THEN 1 ELSE m.n

CreditsIn(q, k, id) ==
    UNION {{x} \X (1 .. Worth(q[x])) : x \in {y \in DOMAIN q : q[y].kind = k /\ q[y].id = id}}

Frames(e, id)     == Cardinality(CreditsIn(wire[e], "data", id))
Indicated(e, id)  == Cardinality(CreditsIn(wire[e], "ind", id))
Unconfirmed(e, i) == IF receiver[e][i].pc = "told" THEN receiver[e][i].n ELSE 0

(* Safety: between the ends of an open channel too: what the sender has,   *)
(* has granted to a future or has on its way in either direction is what   *)
(* the receiver allows, but for frames of an earlier channel that were     *)
(* taken for its own, frames it dropped, and grants whose future was       *)
(* dropped before it confirmed them (all counted by skew), and grants that *)
(* reached another channel (counted by astray at both).                    *)
CreditsConserved ==
    \A e \in Ends : \A i, j \in Slots :
        LET s == chan[e][i]
            r == chan[Other(e)][j] IN
        s.state = "Connected" /\ r.state = "Connected" /\ s.id = r.id /\ air = s.conn =>
            s.credits + sender[e][i].grant + Frames(Other(e), s.id) + Indicated(e, s.id)
                = r.available + Unconfirmed(Other(e), j) + r.skew + s.astray

(* Liveness: a channel that is to be disconnected is so in the end.        *)
DisconnectServed ==
    \A e \in Ends, i \in Slots :
        chan[e][i].state \in {"Disconnecting", "PeerDisconnecting"} ~>
            chan[e][i].state \notin {"Disconnecting", "PeerDisconnecting"}

=============================================================================
