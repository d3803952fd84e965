------------------------------ MODULE Peripheral ------------------------------
(***************************************************************************)
(* The firmware of the peripheral: the lifecycle loop of                   *)
(* apps/ble/peripheral/src/main.rs, the two tasks it joins for one         *)
(* connection (easyble's passive GATT session and the product's            *)
(* custom_task of apps/ble/peripheral/src/lib.rs), the attribute values    *)
(* and transfer counters they share, and the parts of trouble-host they    *)
(* block or fail on: the connection slot, its event queue and GATT queue,  *)
(* the outbound channel, the packet pool and the CCCD table.               *)
(*                                                                         *)
(* Everything runs in one embassy task: the futures of the BLE runner, of  *)
(* the session and of custom_task are polled by nested joins, so a future  *)
(* keeps the processor until it reaches an await that is not ready.        *)
(* CpuFree says when custom_task has given it up; every other future's     *)
(* step has it as a guard, and a step of theirs runs to its next await.    *)
(***************************************************************************)
EXTENDS Naturals, Sequences, FiniteSets

CONSTANTS
    Peers,       \* identities of the centrals that may connect
    EchoVals,    \* the non-empty echo payloads
    NoEcho,      \* the empty payload
    Inputs,      \* the ATT requests and commands a central may issue
    ChunkSize,   \* bulk::CHUNK_SIZE, 252 in the code
    MaxPayload,  \* the longest value a notification has room for in a packet, 248
    CounterMod,  \* the counters are u32: 2^32
    TickMod,     \* battery_tick is a u8: 256
    OutCap,      \* outbound channel (8) and the PDU the TX runner holds
    GattCap,     \* L2CAP_RX_QUEUE_SIZE, 8
    EventCap,    \* CONNECTION_EVENT_QUEUE_SIZE, 2
    PoolSize,    \* packets of the DefaultPacketPool, 16
    MaxOther     \* bound: events other than Disconnected in one connection

-----------------------------------------------------------------------------
(* The values that travel. *)

Chars == {"level", "echo", "bulk", "status"}     \* characteristics with a CCCD
Kinds == {"rsp", "level", "echo", "bulk"}        \* PDUs the firmware queues

Idle         == [cmd |-> "Idle", total |-> 0]
ResetStats   == [cmd |-> "ResetStats", total |-> 0]
StartStream(n) == [cmd |-> "StartStream", total |-> n]
Commands == {Idle, ResetStats} \cup {StartStream(n) : n \in 0 .. CounterMod - 1}

AllInputs ==
         [op : {"control"}, cmd : Commands]
    \cup [op : {"echo"}, val : EchoVals \cup {NoEcho}]
    \cup [op : {"status"}, val : BOOLEAN]
    \cup [op : {"cccd"}, char : Chars, on : BOOLEAN]
    \cup [op : {"read"}]
    \cup [op : {"data"}, len : 1 .. ChunkSize]

(* All but the write without response are ATT requests: a client has one   *)
(* of them outstanding at a time.                                          *)
IsRequest(r) == r.op # "data"

Stats == [rx : 0 .. CounterMod - 1, tx : 0 .. CounterMod - 1]

ASSUME SizeAssumption ==
    /\ ChunkSize \in Nat \ {0} /\ MaxPayload \in Nat
    /\ CounterMod \in Nat \ {0}
    /\ TickMod \in Nat \ {0}
    /\ OutCap \in Nat \ {0} /\ GattCap \in Nat \ {0} /\ EventCap \in Nat \ {0}
    /\ PoolSize \in Nat \ {0}
    /\ MaxOther \in Nat

NoPeer == "none"

ASSUME ValueAssumption ==
    /\ NoPeer \notin Peers
    /\ NoEcho \notin EchoVals
    /\ Inputs \subseteq AllInputs

-----------------------------------------------------------------------------
VARIABLES
    phase,    \* where the lifecycle loop is
    adv,      \* the controller is advertising
    slot,     \* state of the one ConnectionStorage
    peer,     \* identity in the slot
    events,   \* its event queue
    others,   \* events other than Disconnected posted for this connection
    gattq,    \* its GATT queue
    waiting,  \* the central has a request whose response it has not seen
    out,      \* the outbound channel
    client,   \* the CCCD table's one client: identity and is_connected
    subs,     \* the characteristics whose notifications that table enables
    asked,    \* history: the <<peer, characteristic>> pairs ever subscribed
    control, echo, status, level, stats,   \* attribute values
    rx, tx,   \* RX_BYTES and TX_BYTES
    spc,      \* the session future
    cpc,      \* the custom_task future
    held,     \* kind of the PDU custom_task waits to send, or "none"
    data,     \* custom_task's copy of the echo value it notifies
    total, sent,   \* run_bulk_stream's total and offset
    tick      \* battery_tick

lifeVars  == <<phase, adv>>
linkVars  == <<slot, peer, events, others, gattq, waiting>>
cccdVars  == <<client, subs, asked>>
attrVars  == <<control, echo, status, level, stats>>
countVars == <<rx, tx>>
taskVars  == <<cpc, held, data, total, sent, tick>>

vars == <<lifeVars, linkVars, out, cccdVars, attrVars, countVars, spc, taskVars>>

Init ==
    /\ phase = "advertise" /\ adv = FALSE
    /\ slot = "Disconnected" /\ peer = NoPeer
    /\ events = <<>> /\ others = 0 /\ gattq = <<>> /\ waiting = FALSE
    /\ out = <<>>
    /\ client = [peer |-> NoPeer, connected |-> FALSE] /\ subs = {} /\ asked = {}
    /\ control = Idle /\ echo = NoEcho /\ status = FALSE /\ level = 50
    /\ stats = [rx |-> 0, tx |-> 0] /\ rx = 0 /\ tx = 0
    /\ spc = "off"
    /\ cpc = "off" /\ held = "none" /\ data = NoEcho
    /\ total = 0 /\ sent = 0 /\ tick = 0

(* custom_task is at an await that is not ready, or is not running. *)
CpuFree == held # "none" \/ cpc \in {"off", "sleep", "done"}

(* Packets taken from the pool: queued requests, queued PDUs, the response *)
(* the session and the notification custom_task are blocked on.            *)
Used == Len(gattq) + Len(out)
        + (IF spc = "reply" THEN 1 ELSE 0) + (IF held # "none" THEN 1 ELSE 0)
PacketFree == Used < PoolSize
OutFree    == Len(out) < OutCap

-----------------------------------------------------------------------------
(* The lifecycle loop. *)

(* Peripheral::advertise has its HCI commands answered by the controller.  *)
(* They are awaited, so the TX runner has been polled since the last       *)
(* session ended: it found no connected slot and dropped what was queued.  *)
Advertising ==
    /\ phase = "advertise" /\ out = <<>>
    /\ phase' = "accept" /\ adv' = TRUE
    /\ UNCHANGED <<linkVars, out, cccdVars, attrVars, countVars, spc, taskVars>>

(* An error of the stack's runner, of advertising or of accepting is       *)
(* fatal: software_reset starts the program again.                         *)
SoftwareReset ==
    /\ CpuFree
    /\ phase' = "advertise" /\ adv' = FALSE
    /\ slot' = "Disconnected" /\ peer' = NoPeer
    /\ events' = <<>> /\ others' = 0 /\ gattq' = <<>> /\ waiting' = FALSE
    /\ out' = <<>>
    /\ client' = [peer |-> NoPeer, connected |-> FALSE] /\ subs' = {} /\ asked' = {}
    /\ control' = Idle /\ echo' = NoEcho /\ status' = FALSE /\ level' = 50
    /\ stats' = [rx |-> 0, tx |-> 0] /\ rx' = 0 /\ tx' = 0
    /\ spc' = "off"
    /\ cpc' = "off" /\ held' = "none" /\ data' = NoEcho
    /\ total' = 0 /\ sent' = 0 /\ tick' = 0

\* Mutant: connect() takes over the table's client without comparing identities.
KeepsForAnyone(p) == TRUE

(* Whether the CCCD table keeps its subscriptions for identity p: it does  *)
(* for the client it already holds and for the first one of all.           *)
KeepsSubscriptions(p) == client.peer \in {p, NoPeer}

(* Advertiser::accept takes the connecting slot, connected() binds the     *)
(* attribute server, and the two session futures are created and joined.   *)
Connected ==
    /\ phase = "accept" /\ slot = "Connecting"
    /\ slot' = "Connected" /\ phase' = "session"
    /\ client' = [peer |-> peer, connected |-> TRUE]
    /\ subs' = IF KeepsSubscriptions(peer) THEN subs ELSE {}
    /\ spc' = "next" /\ cpc' = "top" /\ tick' = 0
    /\ UNCHANGED <<adv, peer, events, others, gattq, waiting, out, asked, attrVars,
                   countVars, held, data, total, sent>>

\* Mutant: dropping the GattConnection does not tell the CCCD table.
SessionOverUntold ==
    /\ phase = "session" /\ spc = "done" /\ cpc = "done"
    /\ phase' = "advertise" /\ spc' = "off" /\ cpc' = "off"
    /\ UNCHANGED <<adv, linkVars, out, cccdVars, attrVars, countVars, held, data, total,
                   sent, tick>>

(* join returns when both futures have: the GattConnection is dropped.     *)
SessionOver ==
    /\ phase = "session" /\ spc = "done" /\ cpc = "done"
    /\ phase' = "advertise" /\ spc' = "off" /\ cpc' = "off"
    /\ client' = [client EXCEPT !.connected = FALSE]
    /\ UNCHANGED <<adv, linkVars, out, subs, asked, attrVars, countVars, held, data,
                   total, sent, tick>>

-----------------------------------------------------------------------------
(* The RX and TX runners, driven by the controller and the central.        *)

(* LeConnectionComplete: the controller stops advertising, and the slot is *)
(* taken if it is free and no handle to it is left.                        *)
RxConnectionComplete(p) ==
    /\ CpuFree /\ adv /\ slot = "Disconnected" /\ phase # "session"
    /\ adv' = FALSE
    /\ slot' = "Connecting" /\ peer' = p /\ events' = <<>> /\ others' = 0
    /\ UNCHANGED <<phase, gattq, waiting, out, cccdVars, attrVars, countVars, spc, taskVars>>

\* Mutant: the GATT queue is not cleared when the link is lost.
RxDisconnectionKeepsQueue ==
    /\ CpuFree /\ slot \in {"Connecting", "Connected"}
    /\ slot' = "Disconnected"
    /\ events' = IF Len(events) < EventCap THEN Append(events, "Disconnected") ELSE events
    /\ waiting' = FALSE
    /\ UNCHANGED <<lifeVars, peer, others, gattq, out, cccdVars, attrVars, countVars, spc,
                   taskVars>>

(* DisconnectionComplete: the event is lost when the event queue is full.  *)
RxDisconnectionComplete ==
    /\ CpuFree /\ slot \in {"Connecting", "Connected"}
    /\ slot' = "Disconnected"
    /\ events' = IF Len(events) < EventCap THEN Append(events, "Disconnected") ELSE events
    /\ gattq' = <<>> /\ waiting' = FALSE
    /\ UNCHANGED <<lifeVars, peer, others, out, cccdVars, attrVars, countVars, spc, taskVars>>

(* A PHY, data-length or connection-parameter event.                       *)
RxOtherEvent ==
    /\ CpuFree /\ slot = "Connected" /\ Len(events) < EventCap /\ others < MaxOther
    /\ events' = Append(events, "Other") /\ others' = others + 1
    /\ UNCHANGED <<lifeVars, slot, peer, gattq, waiting, out, cccdVars, attrVars, countVars,
                   spc, taskVars>>

(* The central sends r; handle_acl takes a packet for it and posts it to   *)
(* the GATT queue, and drops it when there is no packet, no place, or the  *)
(* connection has not been accepted yet.                                   *)
RxGatt(r) ==
    /\ CpuFree /\ slot \in {"Connecting", "Connected"}
    /\ IsRequest(r) => ~waiting
    /\ waiting' = (waiting \/ IsRequest(r))
    /\ gattq' = IF slot = "Connected" /\ PacketFree /\ Len(gattq) < GattCap
                THEN Append(gattq, r) ELSE gattq
    /\ UNCHANGED <<lifeVars, slot, peer, events, others, out, cccdVars, attrVars, countVars,
                   spc, taskVars>>

(* The TX runner sends the first queued PDU to a connected peer...         *)
TxSend ==
    /\ CpuFree /\ out # <<>> /\ slot = "Connected"
    /\ out' = Tail(out)
    /\ waiting' = (waiting /\ Head(out) # "rsp")
    /\ UNCHANGED <<lifeVars, slot, peer, events, others, gattq, cccdVars, attrVars,
                   countVars, spc, taskVars>>

\* Mutant: the runner waits for credits of a link that is down.
TxDropNever == FALSE

(* ... and drops it when the slot is not connected.                        *)
TxDrop ==
    /\ CpuFree /\ out # <<>> /\ slot # "Connected"
    /\ out' = Tail(out)
    /\ UNCHANGED <<lifeVars, linkVars, cccdVars, attrVars, countVars, spc, taskVars>>

-----------------------------------------------------------------------------
(* The GATT session: easyble::gatt::session with handle_gatt_event.        *)

(* conn.next() prefers the event queue; only Disconnected ends the loop.   *)
SessionEvent ==
    /\ CpuFree /\ spc = "next" /\ events # <<>>
    /\ events' = Tail(events)
    /\ spc' = IF Head(events) = "Disconnected" THEN "done" ELSE "next"
    /\ UNCHANGED <<lifeVars, slot, peer, others, gattq, waiting, out, cccdVars, attrVars,
                   countVars, taskVars>>

\* Mutant: the RX counter is not a u32.
RxAfterUnbounded(r) == IF r.op = "data" THEN rx + r.len ELSE rx

(* handle_gatt_event: what the product does before the write is stored.    *)
IsReset(r) == r.op = "control" /\ r.cmd = ResetStats
RxAfter(r) == IF IsReset(r) THEN 0
              ELSE IF r.op = "data" THEN (rx + r.len) % CounterMod ELSE rx
TxAfter(r) == IF IsReset(r) THEN 0 ELSE tx

\* Mutant: the stats value is synchronised before the counters change.
HandleGattEventStale(r) ==
    /\ rx' = RxAfter(r) /\ tx' = TxAfter(r)
    /\ stats' = IF IsReset(r) \/ r.op = "data" THEN [rx |-> rx, tx |-> tx] ELSE stats

HandleGattEvent(r) ==
    /\ rx' = RxAfter(r) /\ tx' = TxAfter(r)
    /\ stats' = IF IsReset(r) \/ r.op = "data"
                THEN [rx |-> RxAfter(r), tx |-> TxAfter(r)] ELSE stats

(* process_accept: the attribute server stores the written value.          *)
Store(r) ==
    /\ control' = IF r.op = "control" THEN r.cmd ELSE control
    /\ echo'    = IF r.op = "echo" THEN r.val ELSE echo
    /\ status'  = IF r.op = "status" THEN r.val ELSE status
    /\ subs'    = IF r.op # "cccd" THEN subs
                  ELSE IF r.on THEN subs \cup {r.char} ELSE subs \ {r.char}
    /\ asked'   = IF r.op = "cccd" /\ r.on THEN asked \cup {<<peer, r.char>>} ELSE asked

(* process answers every request; a write command produces no response.    *)
Replies(r) == IsRequest(r)

\* Mutant: the response is sent with try_send and its failure ignored.
SessionAcceptTrySend ==
    /\ CpuFree /\ spc = "next" /\ events = <<>> /\ gattq # <<>> /\ PacketFree
    /\ LET r == Head(gattq) IN
        /\ HandleGattEvent(r)
        /\ Store(r)
        /\ out' = IF Replies(r) /\ OutFree THEN Append(out, "rsp") ELSE out
    /\ gattq' = Tail(gattq)
    /\ UNCHANGED <<lifeVars, slot, peer, events, others, waiting, client, level, spc, taskVars>>

(* One GATT event accepted; a response that finds the channel full blocks. *)
SessionAccept ==
    /\ CpuFree /\ spc = "next" /\ events = <<>> /\ gattq # <<>> /\ PacketFree
    /\ LET r == Head(gattq) IN
        /\ HandleGattEvent(r)
        /\ Store(r)
        /\ out' = IF Replies(r) /\ OutFree THEN Append(out, "rsp") ELSE out
        /\ spc' = IF Replies(r) /\ ~OutFree THEN "reply" ELSE "next"
    /\ gattq' = Tail(gattq)
    /\ UNCHANGED <<lifeVars, slot, peer, events, others, waiting, client, level, taskVars>>

(* accept() finds no packet: the callback has run, nothing is stored and   *)
(* nothing is answered; the error is only logged.                          *)
SessionAcceptFails ==
    /\ CpuFree /\ spc = "next" /\ events = <<>> /\ gattq # <<>> /\ ~PacketFree
    /\ HandleGattEvent(Head(gattq))
    /\ gattq' = Tail(gattq)
    /\ UNCHANGED <<lifeVars, slot, peer, events, others, waiting, out, cccdVars, control,
                   echo, status, level, spc, taskVars>>

(* reply.send() gets its place.                                            *)
SessionReply ==
    /\ CpuFree /\ spc = "reply" /\ OutFree
    /\ out' = Append(out, "rsp") /\ spc' = "next"
    /\ UNCHANGED <<lifeVars, linkVars, cccdVars, attrVars, countVars, taskVars>>

-----------------------------------------------------------------------------
(* custom_task and run_bulk_stream.                                        *)

Running(pc) == cpc = pc /\ held = "none"

(* Characteristic::notify for characteristic k, once the value is set:     *)
(* nothing for a peer that has not subscribed, an error for a value that   *)
(* does not fit in a packet or without a packet, and otherwise a place in  *)
(* the outbound channel, waited for if need be.                            *)
Notify(k, fits, okPc, errPc) ==
    \/ /\ k \notin subs
       /\ cpc' = okPc /\ UNCHANGED <<out, held>>
    \/ /\ k \in subs /\ ~(fits /\ PacketFree)
       /\ cpc' = errPc /\ UNCHANGED <<out, held>>
    \/ /\ k \in subs /\ fits /\ PacketFree /\ OutFree
       /\ out' = Append(out, k) /\ cpc' = okPc /\ UNCHANGED held
    \/ /\ k \in subs /\ fits /\ PacketFree /\ ~OutFree
       /\ held' = k /\ cpc' = okPc /\ UNCHANGED out

(* The channel takes the PDU custom_task was waiting to send.              *)
TaskUnblocked ==
    /\ held # "none" /\ OutFree
    /\ out' = Append(out, held) /\ held' = "none"
    /\ UNCHANGED <<lifeVars, linkVars, cccdVars, attrVars, countVars, spc, cpc, data, total,
                   sent, tick>>

(* Top of the loop, a StartStream command: run_bulk_stream begins.         *)
StreamStart ==
    /\ Running("top") /\ control.cmd = "StartStream"
    /\ tx' = 0 /\ stats' = [rx |-> rx, tx |-> 0]
    /\ total' = control.total /\ sent' = 0 /\ cpc' = "chunk"
    /\ UNCHANGED <<lifeVars, linkVars, out, cccdVars, control, echo, status, level, rx, spc,
                   held, data, tick>>

ChunkLen == IF total - sent < ChunkSize THEN total - sent ELSE ChunkSize

(* One chunk is notified; an error ends the stream early.                  *)
StreamChunk ==
    /\ Running("chunk") /\ sent < total
    /\ Notify("bulk", ChunkLen <= MaxPayload, "count", "finish")
    /\ UNCHANGED <<lifeVars, linkVars, cccdVars, attrVars, countVars, spc, data, total, sent,
                   tick>>

(* notify returned Ok: TX_BYTES and the stats value follow.                *)
StreamCount ==
    /\ Running("count")
    /\ tx' = (tx + ChunkLen) % CounterMod
    /\ stats' = [rx |-> rx, tx |-> tx']
    /\ sent' = sent + ChunkLen /\ cpc' = "chunk"
    /\ UNCHANGED <<lifeVars, linkVars, out, cccdVars, control, echo, status, level, rx, spc,
                   held, data, total, tick>>

(* The end of run_bulk_stream: the control value becomes Idle, whatever it *)
(* holds by now, and the loop continues at its top.                        *)
StreamFinish ==
    /\ Running("finish") \/ (Running("chunk") /\ sent >= total)
    /\ control' = Idle /\ cpc' = "top"
    /\ UNCHANGED <<lifeVars, linkVars, out, cccdVars, echo, status, level, stats, countVars,
                   spc, held, data, total, sent, tick>>

(* Echo: a copy of the value is notified; a failure is only logged.        *)
EchoNotify ==
    /\ Running("top") /\ control.cmd # "StartStream" /\ echo # NoEcho
    /\ data' = echo
    /\ Notify("echo", TRUE, "clear", "clear")
    /\ UNCHANGED <<lifeVars, linkVars, cccdVars, attrVars, countVars, spc, total, sent, tick>>

(* Then the echo value is set to empty.                                    *)
EchoClear ==
    /\ Running("clear")
    /\ echo' = NoEcho /\ cpc' = "level"
    /\ UNCHANGED <<lifeVars, linkVars, out, cccdVars, control, status, level, stats,
                   countVars, spc, held, data, total, sent, tick>>

EchoNothing ==
    /\ Running("top") /\ control.cmd # "StartStream" /\ echo = NoEcho
    /\ cpc' = "level"
    /\ UNCHANGED <<lifeVars, linkVars, out, cccdVars, attrVars, countVars, spc, held, data,
                   total, sent, tick>>

(* The battery notification: its failure is what ends custom_task.         *)
LevelNotify ==
    /\ Running("level")
    /\ tick' = (tick + 1) % TickMod /\ level' = tick'
    /\ Notify("level", TRUE, "sleep", "done")
    /\ UNCHANGED <<lifeVars, linkVars, cccdVars, control, echo, status, stats, countVars,
                   spc, data, total, sent>>

(* The 2 s timer fires.                                                    *)
TaskWake ==
    /\ Running("sleep") /\ cpc' = "top"
    /\ UNCHANGED <<lifeVars, linkVars, out, cccdVars, attrVars, countVars, spc, held, data,
                   total, sent, tick>>

-----------------------------------------------------------------------------
Lifecycle == Advertising \/ Connected \/ SessionOver
Session   == SessionEvent \/ SessionAccept \/ SessionAcceptFails \/ SessionReply
TxRunner  == TxSend \/ TxDrop
CustomTask ==
    \/ TaskUnblocked \/ StreamStart \/ StreamChunk \/ StreamCount \/ StreamFinish
    \/ EchoNotify \/ EchoClear \/ EchoNothing \/ LevelNotify \/ TaskWake
Radio ==
    \/ \E p \in Peers : RxConnectionComplete(p)
    \/ RxDisconnectionComplete \/ RxOtherEvent
    \/ \E r \in Inputs : RxGatt(r)

Next == Lifecycle \/ SoftwareReset \/ Session \/ TxRunner \/ CustomTask \/ Radio

Spec == Init /\ [][Next]_vars

(* Each wake of the one task polls every future of the joins, so none that *)
(* is ready again and again is left out: strong fairness. For the TX       *)
(* runner, a connected peer either returns credits or its link is          *)
(* supervised to its end. Nothing is assumed of the radio and the central. *)
Fairness == SF_vars(Lifecycle) /\ SF_vars(Session) /\ SF_vars(TxRunner) /\ SF_vars(CustomTask)
FairSpec == Spec /\ Fairness

-----------------------------------------------------------------------------
(* Safety. *)

TypeOK ==
    /\ phase \in {"advertise", "accept", "session"} /\ adv \in BOOLEAN
    /\ slot \in {"Disconnected", "Connecting", "Connected"}
    /\ peer \in Peers \cup {NoPeer}
    /\ events \in Seq({"Disconnected", "Other"}) /\ others \in 0 .. MaxOther
    /\ gattq \in Seq(Inputs) /\ waiting \in BOOLEAN
    /\ out \in Seq(Kinds)
    /\ client \in [peer : Peers \cup {NoPeer}, connected : BOOLEAN]
    /\ subs \subseteq Chars /\ asked \subseteq ((Peers \cup {NoPeer}) \X Chars)
    /\ control \in Commands /\ echo \in EchoVals \cup {NoEcho} /\ status \in BOOLEAN
    /\ level \in {50} \cup 0 .. TickMod - 1 /\ tick \in 0 .. TickMod - 1
    /\ stats \in Stats /\ rx \in 0 .. CounterMod - 1 /\ tx \in 0 .. CounterMod - 1
    /\ spc \in {"off", "next", "reply", "done"}
    /\ cpc \in {"off", "top", "chunk", "count", "finish", "clear", "level", "sleep", "done"}
    /\ held \in (Kinds \ {"rsp"}) \cup {"none"}
    /\ data \in EchoVals \cup {NoEcho}
    /\ total \in 0 .. CounterMod - 1 /\ sent \in 0 .. CounterMod - 1

(* Whenever another future can look, the stats value a central reads shows *)
(* the counters: sync_bulk_stats follows every change of RX_BYTES and      *)
(* TX_BYTES before the next await, in both futures that change them.       *)
StatsInSync == CpuFree => stats = [rx |-> rx, tx |-> tx]

(* TX_BYTES never claims more than the latest stream has sent, and never   *)
(* more than its total, also when ResetStats arrives in mid-stream.        *)
TxWithinStream == tx <= sent /\ sent <= total

(* A session ends only after its link is down, and no other connection has *)
(* taken the slot while a handle to it was left: when the lifecycle drops  *)
(* the GattConnection it never tears down a live connection.               *)
DropsNoLiveLink == spc = "done" => slot = "Disconnected"

(* When a connection is accepted the CCCD table's one entry is not held by *)
(* a connected client: ConnectionLimitReached, fatal in main, is           *)
(* unreachable, as the comment in CccdTables::connect expects.             *)
ServerAdmits == slot = "Connecting" => ~client.connected

(* Every notification in the outbound channel, or waiting for a place in   *)
(* it, is of a characteristic the present peer itself once subscribed to:  *)
(* subscriptions are not inherited from another central.                   *)
NotifiesWhoAsked ==
    /\ \A i \in 1 .. Len(out) : out[i] # "rsp" => <<peer, out[i]>> \in asked
    /\ held # "none" => <<peer, held>> \in asked

(* The answers on their way to a central: requests still to be accepted,   *)
(* the response the session is blocked on, responses in the channel.       *)
Answers ==
    {<<"gattq", i>> : i \in {j \in 1 .. Len(gattq) : IsRequest(gattq[j])}}
    \cup {<<"out", i>> : i \in {j \in 1 .. Len(out) : out[j] = "rsp"}}
    \cup (IF spc = "reply" THEN {<<"reply", 0>>} ELSE {})

(* While connected at most one answer is on its way, and only to a central *)
(* that waits for it: a response is never taken for that of a later        *)
(* request, nor one of a lost link for that of the next connection.        *)
OneAnswer ==
    slot = "Connected" =>
        /\ \A a, b \in Answers : a = b
        /\ Answers # {} => waiting

-----------------------------------------------------------------------------
(* Liveness, under FairSpec. *)

(* A lost link ends the GATT session (or the firmware is reset).           *)
SessionEndsOnLoss == (phase = "session" /\ slot = "Disconnected") ~> (spc \in {"done", "off"})

(* A stream that has begun ends, whatever becomes of the link: the task    *)
(* is at the top of its loop again (or the firmware is reset).             *)
StreamEnds == (cpc \in {"chunk", "count"}) ~> (cpc \in {"top", "off"})

(* A request the GATT queue has taken is answered, or its link is lost.    *)
RequestAnswered ==
    (\E i \in 1 .. Len(gattq) : IsRequest(gattq[i])) ~> ~waiting

(* After a lost connection the firmware advertises again.                  *)
AdvertisesAgain == (phase = "session" /\ slot = "Disconnected") ~> adv
=============================================================================
