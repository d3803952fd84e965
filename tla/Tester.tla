------------------------------- MODULE Tester -------------------------------
(***************************************************************************)
(* trouble tester: the tasks of its second phase and what runs between     *)
(* them (lib.rs, peripheral.rs, central.rs, connection.rs, gatt_client.rs, *)
(* command_channel.rs).  The BTP loop forwards one command at a time to    *)
(* the task it is for and waits for the one response channel; the tasks    *)
(* tell events through a queue that only the BTP loop empties.  There is   *)
(* one connection slot, free again when the link is gone and the last      *)
(* Connection handle is dropped.                                           *)
(*                                                                         *)
(* What the loop does with a command before it forwards it is BtpServer.   *)
(***************************************************************************)
EXTENDS Integers, Sequences

CONSTANTS Services,        \* of the peer: first and last handle and characteristics of each
          ClientRequests,  \* the commands for the GATT client
          EventCap,        \* of the queue of events, 8 in the code
          MaxServices, MaxCharacteristics, MaxListeners,   \* of the GATT client, 32, 64 and 16
          MaxCommands, MaxLinks, MaxLinkEvents   \* bounds of the model

VARIABLES btp, commands, response, events, peripheral, central, client, slot, advertising, told,
          panicked, count

vars == <<btp, commands, response, events, peripheral, central, client, slot, advertising, told,
          panicked, count>>

Tasks == {"peripheral", "central", "gatt_client"}

None == [kind |-> "none", from |-> 0, to |-> 0, on |-> FALSE]
Plain(kind) == [None EXCEPT !.kind = kind]

PeripheralCommands == {Plain("StartAdvertising"), Plain("StopAdvertising")}
CentralCommands == {Plain("StartDiscovery"), Plain("StopDiscovery"), Plain("Connect")}

CommandsOf == [peripheral |-> PeripheralCommands, central |-> CentralCommands,
               gatt_client |-> ClientRequests]

NoClient == [at |-> "idle", command |-> None, ask |-> "none", services |-> <<>>, chars |-> <<>>,
             listeners |-> <<>>, arrived |-> 0]

(* refs: the tasks that have a handle; subscribed: what the peer notifies  *)
NoLink == [state |-> "Disconnected", refs |-> {}, subscribed |-> {}]

Init ==
    /\ btp = [waits |-> FALSE, task |-> "none"]
    /\ commands = [t \in Tasks |-> None]
    /\ response = <<>> /\ events = <<>>
    /\ peripheral = [at |-> "idle", say |-> <<>>]
    /\ central = [at |-> "idle", say |-> <<>>]
    /\ client = NoClient
    /\ slot = NoLink
    /\ advertising = FALSE
    /\ told = "down"
    /\ panicked = FALSE
    /\ count = [commands |-> 0, links |-> 0, events |-> 0]

-----------------------------------------------------------------------------
(***************************************************************************)
(* Channels                                                                *)
(***************************************************************************)
(* CommandReceiver::receive; Command::reply, which waits for room          *)
Receive(t, kind) ==
    /\ commands[t].kind = kind
    /\ commands' = [commands EXCEPT ![t] = None]

Reply(t, answer) ==
    /\ response = <<>>
    /\ response' = <<[task |-> t, answer |-> answer]>>

(* Connection's drop: the last handle of a link that is up ends it.        *)
Released(t) ==
    LET left == slot.refs \ {t}
    IN IF left = {} /\ slot.state = "Disconnected"
       THEN NoLink
       ELSE [slot EXCEPT !.refs = left,
                         !.state = IF left = {} /\ @ = "Connected" THEN "DisconnectRequest" ELSE @]

(* events.send(..).await: the events a task has to send, one after another *)
Room == Len(events) < EventCap

-----------------------------------------------------------------------------
(***************************************************************************)
(* The BTP loop                                                            *)
(***************************************************************************)
Forward(t) ==
    /\ ~btp.waits /\ count.commands < MaxCommands
    /\ commands[t] = None
    /\ \E c \in CommandsOf[t] :
          /\ commands' = [commands EXCEPT ![t] = c]
          /\ btp' = [waits |-> TRUE, task |-> t]
    /\ count' = [count EXCEPT !.commands = @ + 1]
    /\ UNCHANGED <<response, events, peripheral, central, client, slot, advertising, told, panicked>>

Answer ==
    /\ btp.waits /\ response # <<>>
    /\ advertising' = CASE response[1].answer = "StartedAdvertising" -> TRUE
                        [] response[1].answer = "StoppedAdvertising" -> FALSE
                        [] OTHER -> advertising
    /\ response' = <<>>
    /\ btp' = [waits |-> FALSE, task |-> "none"]
    /\ UNCHANGED <<commands, events, peripheral, central, client, slot, told, panicked, count>>

TakesEvent ==
    /\ events' = Tail(events)
    /\ advertising' = (advertising /\ Head(events) # "AdvertisingStopped")
    /\ told' = CASE Head(events) = "DeviceConnected"    -> "up"
                 [] Head(events) = "DeviceDisconnected" -> "down"
                 [] OTHER -> told
    /\ UNCHANGED <<btp, commands, response, peripheral, central, client, slot, panicked, count>>

\* Mutant: no event is taken while an answer is awaited
TellWhenIdle == events # <<>> /\ ~btp.waits /\ TakesEvent

(* An event is taken while a packet is read, and while an answer is        *)
(* awaited, where an answer that is there is taken first.                  *)
Tell == events # <<>> /\ (btp.waits => response = <<>>) /\ TakesEvent

(* GAP Disconnect: Connection::disconnect on a handle that is dropped      *)
Disconnect ==
    /\ ~btp.waits /\ slot.state = "Connected"
    /\ slot' = [slot EXCEPT !.state = "DisconnectRequest"]
    /\ UNCHANGED <<btp, commands, response, events, peripheral, central, client, advertising, told,
                   panicked, count>>

-----------------------------------------------------------------------------
(***************************************************************************)
(* connection::run, in the peripheral and the central task.  A task that   *)
(* has events to send does nothing else.                                   *)
(***************************************************************************)
(* The task with its record; s is the slot it leaves behind.               *)
Says(task) ==
    /\ task.say # <<>> /\ Room
    /\ events' = Append(events, Head(task.say))

Said(task) ==
    [at  |-> IF task.at = "leaving" /\ Len(task.say) = 1 THEN "idle" ELSE task.at,
     say |-> Tail(task.say)]

SaidSlot(t, task) == IF Said(task).at = "idle" THEN Released(t) ELSE slot

Free(task, at) == task.at = at /\ task.say = <<>>

(* A write, a parameter update, a pairing event: the other side is told,   *)
(* and of what was queued before the link was lost too.                    *)
Served(task) == Free(task, "serving") /\ count.events < MaxLinkEvents

(* An error of the host ends the loop and nothing is told; the handle is   *)
(* dropped.  (with_attribute_server's error is left out: the server has an *)
(* entry for each link there can be.)                                      *)
ServedBadly(task) == Free(task, "serving") /\ count.events < MaxLinkEvents

Lost(task) == Free(task, "serving") /\ slot.state = "Disconnected"

\* Mutant: a slot is used again while handles of its last link are held
LinkUpEarly(t) ==
    /\ slot.state = "Disconnected" /\ count.links < MaxLinks
    /\ slot' = [NoLink EXCEPT !.state = "Connected", !.refs = {t}]
    /\ count' = [count EXCEPT !.links = @ + 1]

LinkUp(t) ==
    /\ slot = NoLink
    /\ count.links < MaxLinks
    /\ slot' = [slot EXCEPT !.state = "Connected", !.refs = {t}]
    /\ count' = [count EXCEPT !.links = @ + 1]

OneEvent == count' = [count EXCEPT !.events = @ + 1]

-----------------------------------------------------------------------------
(***************************************************************************)
(* peripheral::run                                                         *)
(***************************************************************************)
AtPeripheral(at, say) == peripheral' = [at |-> at, say |-> say]

PeripheralIdle ==
    /\ Free(peripheral, "idle")
    /\ \/ Receive("peripheral", "StopAdvertising") /\ Reply("peripheral", "StoppedAdvertising")
          /\ UNCHANGED peripheral
       \/ Receive("peripheral", "StartAdvertising") /\ AtPeripheral("starting", <<>>)
          /\ UNCHANGED response
    /\ UNCHANGED <<btp, events, central, client, slot, advertising, told, panicked, count>>

(* peripheral.advertise(..).await                                          *)
PeripheralStarts ==
    /\ Free(peripheral, "starting")
    /\ \/ Reply("peripheral", "StartedAdvertising") /\ AtPeripheral("advertising", <<>>)
       \/ Reply("peripheral", "Fail") /\ AtPeripheral("idle", <<>>)
    /\ UNCHANGED <<btp, commands, events, central, client, slot, advertising, told, panicked, count>>

(* A command while it advertises, or while it serves a connection          *)
PeripheralBusy ==
    /\ \/ Free(peripheral, "advertising")
       \/ Free(peripheral, "serving")
    /\ \/ Receive("peripheral", "StartAdvertising") /\ Reply("peripheral", "Fail")
          /\ UNCHANGED peripheral
       \/ /\ Receive("peripheral", "StopAdvertising") /\ Reply("peripheral", "StoppedAdvertising")
          /\ AtPeripheral(IF peripheral.at = "advertising" THEN "idle" ELSE peripheral.at, <<>>)
    /\ UNCHANGED <<btp, events, central, client, slot, advertising, told, panicked, count>>

(* advertiser.accept() gives a connection, or an error, of which nobody    *)
(* hears                                                                   *)
PeripheralAccepts ==
    /\ Free(peripheral, "advertising")
    /\ LinkUp("peripheral")
    /\ AtPeripheral("serving", <<"AdvertisingStopped", "DeviceConnected">>)
    /\ UNCHANGED <<btp, commands, response, events, central, client, advertising, told, panicked>>

PeripheralAcceptFails ==
    /\ Free(peripheral, "advertising")
    /\ AtPeripheral("idle", <<>>)
    /\ UNCHANGED <<btp, commands, response, events, central, client, slot, advertising, told,
                   panicked, count>>

PeripheralServes ==
    \/ /\ Served(peripheral) /\ OneEvent
       /\ AtPeripheral("serving", <<"LinkEvent">>)
       /\ UNCHANGED <<btp, commands, response, events, central, client, slot, advertising, told, panicked>>
    \/ /\ ServedBadly(peripheral) /\ OneEvent
       /\ AtPeripheral("idle", <<>>)
       /\ slot' = Released("peripheral")
       /\ UNCHANGED <<btp, commands, response, events, central, client, advertising, told, panicked>>

PeripheralLeaves ==
    /\ Lost(peripheral)
    /\ AtPeripheral("leaving", <<"DeviceDisconnected">>)
    /\ UNCHANGED <<btp, commands, response, events, central, client, slot, advertising, told,
                   panicked, count>>

PeripheralSays ==
    /\ Says(peripheral)
    /\ peripheral' = Said(peripheral)
    /\ slot' = SaidSlot("peripheral", peripheral)
    /\ UNCHANGED <<btp, commands, response, central, client, advertising, told, panicked, count>>

-----------------------------------------------------------------------------
(***************************************************************************)
(* central::run                                                            *)
(***************************************************************************)
AtCentral(at, say) == central' = [at |-> at, say |-> say]

CentralIdle ==
    /\ Free(central, "idle")
    /\ \/ Receive("central", "StartDiscovery") /\ AtCentral("starting", <<>>) /\ UNCHANGED response
       \/ Receive("central", "StopDiscovery") /\ Reply("central", "DiscoveryStopped")
          /\ UNCHANGED central
       \/ Receive("central", "Connect") /\ Reply("central", "Connecting")
          /\ AtCentral("connecting", <<>>)
    /\ UNCHANGED <<btp, events, peripheral, client, slot, advertising, told, panicked, count>>

(* scanner.scan(..).await                                                  *)
CentralStarts ==
    /\ Free(central, "starting")
    /\ \/ Reply("central", "DiscoveryStarted") /\ AtCentral("scanning", <<>>)
       \/ Reply("central", "Fail") /\ AtCentral("idle", <<>>)
    /\ UNCHANGED <<btp, commands, events, peripheral, client, slot, advertising, told, panicked, count>>

CentralBusy ==
    /\ \/ Free(central, "scanning")
       \/ Free(central, "serving")
    /\ \/ /\ Receive("central", "StartDiscovery") \/ Receive("central", "Connect")
          /\ Reply("central", "Fail")
          /\ UNCHANGED central
       \/ /\ Receive("central", "StopDiscovery") /\ Reply("central", "DiscoveryStopped")
          /\ AtCentral(IF central.at = "scanning" THEN "idle" ELSE central.at, <<>>)
    /\ UNCHANGED <<btp, events, peripheral, client, slot, advertising, told, panicked, count>>

(* central.connect(..).await, for which no command is heard and no time is *)
(* set                                                                     *)
CentralConnects ==
    /\ Free(central, "connecting")
    /\ LinkUp("central")
    /\ AtCentral("serving", <<"DeviceConnected">>)
    /\ UNCHANGED <<btp, commands, response, events, peripheral, client, advertising, told, panicked>>

CentralConnectFails ==
    /\ Free(central, "connecting")
    /\ AtCentral("idle", <<>>)
    /\ UNCHANGED <<btp, commands, response, events, peripheral, client, slot, advertising, told,
                   panicked, count>>

CentralServes ==
    \/ /\ Served(central) /\ OneEvent
       /\ AtCentral("serving", <<"LinkEvent">>)
       /\ UNCHANGED <<btp, commands, response, events, peripheral, client, slot, advertising, told, panicked>>
    \/ /\ ServedBadly(central) /\ OneEvent
       /\ AtCentral("idle", <<>>)
       /\ slot' = Released("central")
       /\ UNCHANGED <<btp, commands, response, events, peripheral, client, advertising, told, panicked>>

CentralLeaves ==
    /\ Lost(central)
    /\ AtCentral("leaving", <<"DeviceDisconnected">>)
    /\ UNCHANGED <<btp, commands, response, events, peripheral, client, slot, advertising, told,
                   panicked, count>>

CentralSays ==
    /\ Says(central)
    /\ central' = Said(central)
    /\ slot' = SaidSlot("central", central)
    /\ UNCHANGED <<btp, commands, response, peripheral, client, advertising, told, panicked, count>>

-----------------------------------------------------------------------------
(***************************************************************************)
(* The link and the controller                                             *)
(***************************************************************************)
LinkLost ==
    /\ slot.state # "Disconnected"
    /\ slot' = IF slot.refs = {} THEN NoLink ELSE [slot EXCEPT !.state = "Disconnected"]
    /\ UNCHANGED <<btp, commands, response, events, peripheral, central, client, advertising, told,
                   panicked, count>>

(* try_send: what finds no room in the queue is dropped.                   *)
Offered(event) == IF Room THEN Append(events, event) ELSE events

(* BleEventHandler::on_adv_reports                                         *)
DeviceFound ==
    /\ central.at = "scanning" /\ count.events < MaxLinkEvents
    /\ events' = Offered("DeviceFound")
    /\ OneEvent
    /\ UNCHANGED <<btp, commands, response, peripheral, central, client, slot, advertising, told,
                   panicked>>

-----------------------------------------------------------------------------
(***************************************************************************)
(* gatt_client::run                                                        *)
(***************************************************************************)
(* What a command does next, given what is in the cache and what it asked  *)
(* the peer last: another request, or its answer.                          *)
Asks(request) == [ask |-> request, answer |-> "none"]
Answers(answer) == [ask |-> "none", answer |-> answer]

(* The first of a list that is meant, 0 if none is                         *)
First(indices) ==
    IF indices = {} THEN 0 ELSE CHOOSE i \in indices : \A j \in indices : i <= j

Holder(services, handle) ==
    First({i \in DOMAIN services : handle \in services[i].first .. services[i].last})

Chrc(chars, c) ==
    First({i \in DOMAIN chars :
              c.from = IF c.kind = "Cfg" THEN chars[i].cccd ELSE chars[i].value})

(* DiscoveryCache::find_service_containing                                 *)
FindService(c, services, asked, found) ==
    IF Holder(services, c.from) # 0 THEN found
    ELSE IF asked = "services" THEN Answers("Fail") ELSE Asks("services")

(* find_service: the range is that of a service.                           *)
OverRange(c, services, asked) ==
    LET i == Holder(services, c.from)
    IN FindService(c, services, asked,
          IF services[i].first = c.from /\ services[i].last = c.to
          THEN Asks("request") ELSE Answers("Fail"))

(* What is refused before anything is asked: an offset, one listener more. *)
Unsupported(c) ==
    \/ c.kind = "ReadLong" /\ c.on
    \/ c.kind = "Cfg" /\ c.on /\ Len(client.listeners) = MaxListeners

(* find_characteristic_by                                                  *)
OnCharacteristic(c, services, chars, asked) ==
    IF Chrc(chars, c) # 0
    THEN IF Unsupported(c) THEN Answers("Fail") ELSE Asks("request")
    ELSE IF asked = "characteristics" THEN Answers("Fail")
    ELSE FindService(c, services, asked, Asks("characteristics"))

Proceeds(c, services, chars, asked) ==
    CASE c.kind = "ExchangeMtu" -> Answers("MtuExchanged")
      [] c.kind = "DiscoverPrimaryUuid" -> Asks("request")
      [] c.kind \in {"DiscoverChrcUuid", "ReadUuid"} -> OverRange(c, services, asked)
      [] OTHER -> OnCharacteristic(c, services, chars, asked)

(* Turning off forgets the listener before the peer is asked.              *)
Without(listeners, handle) ==
    LET i == First({j \in DOMAIN listeners : listeners[j] = handle})
    IN IF i = 0 THEN listeners
       ELSE SubSeq(listeners, 1, i - 1) \o SubSeq(listeners, i + 1, Len(listeners))

Forgetting(c, chars, ask) ==
    IF c.kind = "Cfg" /\ ~c.on /\ ask = "request"
    THEN Without(client.listeners, chars[Chrc(chars, c)].value)
    ELSE client.listeners

(* The command goes on with the cache services and chars: it asks, or is   *)
(* answered.                                                               *)
Goes(c, services, chars, asked) ==
    LET next == Proceeds(c, services, chars, asked)
    IN /\ client' = [client EXCEPT
             !.at = IF next.ask = "none" THEN "ready" ELSE "asking",
             !.command = IF next.ask = "none" THEN None ELSE c,
             !.ask = next.ask, !.services = services, !.chars = chars,
             !.listeners = Forgetting(c, chars, next.ask)]
       /\ IF next.ask = "none" THEN Reply("gatt_client", next.answer) ELSE UNCHANGED response

(* The command is answered.                                                *)
Ends(answer, services, chars, listeners) ==
    /\ Reply("gatt_client", answer)
    /\ client' = [client EXCEPT !.at = "ready", !.command = None, !.ask = "none",
                                !.services = services, !.chars = chars, !.listeners = listeners]

Fails == Ends("Fail", client.services, client.chars, client.listeners)

Taken == commands' = [commands EXCEPT !["gatt_client"] = None]

(* A command with nobody connected; one with a connection, of which a      *)
(* handle is taken                                                         *)
ClientIdle ==
    /\ client.at = "idle" /\ commands["gatt_client"] # None
    /\ Taken
    /\ \/ /\ slot.state # "Connected" /\ Reply("gatt_client", "Fail")
          /\ UNCHANGED <<client, slot>>
       \/ /\ slot.state = "Connected"
          /\ client' = [client EXCEPT !.at = "making", !.command = commands["gatt_client"]]
          /\ slot' = [slot EXCEPT !.refs = @ \cup {"gatt_client"}]
          /\ UNCHANGED response
    /\ UNCHANGED <<btp, events, peripheral, central, advertising, told, panicked, count>>

(* GattClient::new: it asks for the MTU, and waits for the answer for ever *)
ClientMade ==
    /\ client.at = "making"
    /\ \/ /\ slot.state = "Connected"
          /\ Goes(client.command, <<>>, <<>>, "none") /\ UNCHANGED slot
       \/ /\ Reply("gatt_client", "Fail")
          /\ client' = NoClient /\ slot' = Released("gatt_client")
    /\ UNCHANGED <<btp, commands, events, peripheral, central, advertising, told, panicked, count>>

ClientReady ==
    /\ client.at = "ready" /\ commands["gatt_client"] # None
    /\ Taken
    /\ Goes(commands["gatt_client"], client.services, client.chars, "none")
    /\ UNCHANGED <<btp, events, peripheral, central, slot, advertising, told, panicked, count>>

(* services(): the cache is replaced.                                      *)
HearsServices ==
    /\ client.ask = "services"
    /\ Goes(client.command, Services, client.chars, "services") \/ Fails
    /\ UNCHANGED <<slot, panicked>>

(* characteristics(service): the cache is extended, and a cache without    *)
(* room panics.                                                            *)
HearsCharacteristics ==
    LET service == client.services[Holder(client.services, client.command.from)]
        chars   == client.chars \o service.chars
    IN /\ client.ask = "characteristics"
       /\ \/ /\ Len(chars) <= MaxCharacteristics
             /\ Goes(client.command, client.services, chars, "characteristics")
             /\ UNCHANGED panicked
          \/ /\ Len(chars) > MaxCharacteristics
             /\ panicked' = TRUE /\ UNCHANGED <<client, response>>
          \/ Fails /\ UNCHANGED panicked
       /\ UNCHANGED slot

Elements(s) == {s[i] : i \in DOMAIN s}

(* The command's own request                                               *)
DiscoversPrimary(c) ==
    LET found == SelectSeq(Services, LAMBDA s : s.uuid = c.from)
    IN /\ c.kind = "DiscoverPrimaryUuid"
       /\ IF Len(client.services) + Len(found) > MaxServices
          THEN Fails
          ELSE Ends("Services", client.services \o found, client.chars, client.listeners)

DiscoversChrc(c) ==
    /\ c.kind = "DiscoverChrcUuid"
    /\ \E x \in Elements(client.services[Holder(client.services, c.from)].chars) :
          IF Len(client.chars) = MaxCharacteristics
          THEN Fails
          ELSE Ends("Characteristics", client.services, Append(client.chars, x), client.listeners)

ReadsOrWrites(c) ==
    /\ c.kind \in {"Read", "ReadLong", "ReadUuid", "Write", "WriteWithoutRsp"}
    /\ Ends(CASE c.kind \in {"Read", "ReadLong"} -> "ReadData"
              [] c.kind = "ReadUuid" -> "ReadUuidData"
              [] c.kind = "Write" -> "WriteResult"
              [] OTHER -> "WriteWithoutRspDone",
            client.services, client.chars, client.listeners)

Configures(c) ==
    LET value == client.chars[Chrc(client.chars, c)].value
    IN /\ c.kind = "Cfg"
       /\ Ends("CfgDone", client.services, client.chars,
               IF c.on THEN Append(client.listeners, value) ELSE client.listeners)
       /\ slot' = [slot EXCEPT !.subscribed = IF c.on THEN @ \cup {value} ELSE @ \ {value}]

HearsRequest ==
    /\ client.ask = "request" /\ UNCHANGED panicked
    /\ \/ Configures(client.command)
       \/ /\ \/ DiscoversPrimary(client.command)
             \/ DiscoversChrc(client.command)
             \/ ReadsOrWrites(client.command)
             \/ Fails
          /\ UNCHANGED slot

(* The peer answers while it is connected.  Nobody answers when the link   *)
(* is gone, and a write without response waits for nobody.                 *)
ClientHears ==
    /\ client.at = "asking"
    /\ \/ slot.state = "Connected"
       \/ client.ask = "request" /\ client.command.kind = "WriteWithoutRsp"
    /\ HearsServices \/ HearsCharacteristics \/ HearsRequest
    /\ UNCHANGED <<btp, commands, events, peripheral, central, advertising, told, count>>

(* A notification, kept for each listener of its handle until next_command *)
(* passes it on                                                            *)
ClientNotified ==
    /\ slot.state = "Connected" /\ count.events < MaxLinkEvents
    /\ \E h \in slot.subscribed \cap Elements(client.listeners) :
          client' = [client EXCEPT !.arrived =
                        @ + Len(SelectSeq(client.listeners, LAMBDA l : l = h))]
    /\ OneEvent
    /\ UNCHANGED <<btp, commands, response, events, peripheral, central, slot, advertising, told,
                   panicked>>

ClientPassesOn ==
    /\ client.at = "ready" /\ client.arrived > 0
    /\ client' = [client EXCEPT !.arrived = @ - 1]
    /\ events' = IF client.listeners = <<>> THEN events ELSE Offered("NotificationReceived")
    /\ UNCHANGED <<btp, commands, response, peripheral, central, slot, advertising, told, panicked,
                   count>>

-----------------------------------------------------------------------------
PeripheralStep == PeripheralIdle \/ PeripheralStarts \/ PeripheralBusy \/ PeripheralLeaves \/ PeripheralSays
CentralStep == CentralIdle \/ CentralStarts \/ CentralBusy \/ CentralLeaves \/ CentralSays
ClientStep == ClientIdle \/ ClientMade \/ ClientReady \/ ClientHears \/ ClientPassesOn

PeerStep ==
    \/ PeripheralAccepts \/ PeripheralAcceptFails \/ PeripheralServes
    \/ CentralConnects \/ CentralConnectFails \/ CentralServes
    \/ LinkLost \/ DeviceFound \/ ClientNotified

Next ==
    /\ ~panicked
    /\ \/ (\E t \in Tasks : Forward(t)) \/ Answer \/ Tell \/ Disconnect
       \/ PeripheralStep \/ CentralStep \/ ClientStep \/ PeerStep

Spec == Init /\ [][Next]_vars

(* The executor polls every task that can go on; the transport takes what  *)
(* the loop writes, and a peer that is connected answers.                  *)
Fairness ==
    /\ WF_vars(~panicked /\ Answer) /\ WF_vars(~panicked /\ Tell)
    /\ WF_vars(~panicked /\ PeripheralStep) /\ WF_vars(~panicked /\ CentralStep)
    /\ WF_vars(~panicked /\ ClientStep)

FairSpec == Spec /\ Fairness

-----------------------------------------------------------------------------
(***************************************************************************)
(* Properties                                                              *)
(***************************************************************************)
(* What is told of a link comes after the link was told and before its end *)
(* was (the two role tasks tell in turns through one queue, and what a     *)
(* task had to tell of its link is queued before the slot serves another). *)
LinkToldInOrder ==
    [][Tell /\ Head(events) \in {"LinkEvent", "DeviceDisconnected"} => told = "up"]_vars

(* The loop gets its answer, with the queue of events full too, but for a  *)
(* central that is still connecting, and a client whose link is gone.      *)
LoopAnswers ==
    btp.waits ~>
        \/ ~btp.waits \/ panicked
        \/ btp.task = "central" /\ central.at = "connecting"
        \/ btp.task = "gatt_client" /\ slot.state # "Connected"
=============================================================================
