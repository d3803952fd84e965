------------------------------ MODULE BtpServer ------------------------------
(***************************************************************************)
(* trouble tester, btp/mod.rs and btp/service_builder.rs: the BTP loop.    *)
(* Before the server it takes commands that build the attribute table and  *)
(* change settings; the first command that needs the server makes the      *)
(* loop commit what is queued, and stays in the packet as the first        *)
(* command of the second loop.  There a command is answered at once or     *)
(* forwarded to a task, and until the task answers, and while no packet    *)
(* is there, the events of the tasks are written.                          *)
(*                                                                         *)
(* The tasks are not in this module: they answer what they can answer.     *)
(***************************************************************************)
EXTENDS BtpWire, AttrTable

CONSTANTS Packets,      \* what the other side may send: headers with their data
          Events,       \* what the tasks may tell
          QueueSize,    \* commands the builder queues, 32 in the code
          NameLen,      \* device_name.len()
          Lists,        \* the sizes of lists a GATT server may send, and of values
          Values,
          MaxPackets, MaxEvents   \* bounds of the model

VARIABLES phase, packet, gap, builder, table, waiting, out, shown, promised, dropped, taken, seen

serverVars == <<phase, packet, gap, builder, table, waiting, out, shown, promised, dropped, taken, seen>>

(* What tells the current settings; the tasks tell of other things.        *)
Tellers == {"CurrentSettings", "ControllerInfo", "NewSettings"}

ASSUME EventsTellNoSettings == \A e \in Events : e.kind \notin Tellers

ASSUME MasksAgree ==
    /\ \A svc \in Core .. L2cap : Supported[svc] = DOMAIN Commands(svc)
    /\ [svc \in Core .. L2cap |-> MaskBytes(Supported[svc])] = (0 :> 1 @@ 1 :> 4 @@ 2 :> 5 @@ 3 :> 2)

ASSUME L2capFraming ==
    \A k \in L2capMessages, n \in Values :
        L2capLen(Message(k, <<n>>)) = Total(L2capPieces(Message(k, <<n>>)))

NoPacket  == [svc |-> NoController, op |-> 0, idx |-> NoController, len |-> 0, data |-> <<>>]
NoAdvert  == [kind |-> "none", bondable |-> FALSE, flags |-> {}]
Nobody    == [task |-> "none", command |-> "none", advert |-> NoAdvert]
NoService == <<>>
Nothing   == Message("none", <<>>)

-----------------------------------------------------------------------------
(***************************************************************************)
(* A command's result: a message, or the status of an error; Forwarded is  *)
(* neither yet.                                                            *)
(***************************************************************************)
Ok(r) == [status |-> "ok", r |-> r, to |-> Nobody]
Err(s) == [status |-> s, r |-> Nothing, to |-> Nobody]
Forwarded(task, command, advert) ==
    [status |-> "forwarded", r |-> Nothing, to |-> [task |-> task, command |-> command, advert |-> advert]]

Name(h) == Commands(h.svc)[h.op].cmd

(* Where argument i of the command begins                                  *)
Pos(p, i) == At(Commands(p.svc)[p.op].args, p.data)[i]

Byte(p, i) == U8(p.data, Pos(p, i))
Half(p, i) == U16(p.data, Pos(p, i))

-----------------------------------------------------------------------------
(***************************************************************************)
(* init_table: the services GAP and GATT                                   *)
(***************************************************************************)
GapService  == <<0, 24>>    GattService == <<1, 24>>
DeviceName  == <<0, 42>>    Appearance  == <<1, 42>>
ServiceChanged == <<5, 42>> ClientFeatures == <<41, 43>>   DatabaseHash == <<42, 43>>

GapAttributes == 5
GattAttributes == 8

InitTable ==
    LET gapService  == AddReadOnly(AddReadOnly(AddService(<<>>, TRUE, GapService), DeviceName, NameLen),
                                   Appearance, 2)
        gattService == AddService(Closed(gapService, 1), TRUE, GattService)
        fixed(t, props, uuid, len) ==
            AddCharacteristic(t, props, Stored(uuid, len, len, FALSE, DefaultPermissions(props)))
    IN Closed(fixed(fixed(fixed(gattService, 32, ServiceChanged, 0), 10, ClientFeatures, 1),
                    2, DatabaseHash, 16),
              GapAttributes + 1)

(***************************************************************************)
(* ServiceBuilder                                                          *)
(***************************************************************************)
NoLevel == "none"

\* Mutant: the CCCD is not counted
CountNoCccd(c) == IF c.kind = "characteristic" THEN 2 ELSE 1

(* att_count                                                               *)
Count(c) == IF c.kind # "characteristic" THEN 1 ELSE IF HasCccd(c.props) THEN 3 ELSE 2

NextHandle(b) == b.id + Total([i \in DOMAIN b.commands |-> Count(b.commands[i])]) + 1

Command(kind, props, perm, uuid, of) ==
    [kind |-> kind, props |-> props, perm |-> perm, uuid |-> uuid, of |-> of, len |-> 0]

(* Only a level above Allowed is asked of a characteristic's value         *)
Wanted(level) ==
    IF level \in {"EncryptionRequired", "AuthenticationRequired"} THEN level ELSE NoLevel

(* One command committed; its attributes must fit, or the push panics.     *)
Committed(a, c) ==
    LET value == Stored(c.uuid, c.len, Capacity(c.len), TRUE,
                        IF c.kind = "descriptor" THEN c.perm ELSE DefaultPermissions(c.props))
        grown == CASE c.kind = "include"    -> AddIncluded(a.table, c.of)
                   [] c.kind = "descriptor" -> AddDescriptor(a.table, value)
                   [] c.kind = "characteristic" ->
                        SetPermissions(AddCharacteristic(a.table, c.props, value), Len(a.table) + 2,
                                 Wanted(c.perm.read), Wanted(c.perm.write))
    IN IF a.end # "ok" THEN a
       ELSE IF \/ c.kind = "include" /\ ~Includable(a.table, c.of)
               \/ c.kind = "descriptor" /\ ~a.open
       THEN [a EXCEPT !.end = "Fail"]
       ELSE IF Len(grown) > TableSize THEN [a EXCEPT !.end = "panic"]
       ELSE [a EXCEPT !.table = grown, !.open = c.kind # "include"]

(* finalize: the service is taken and its queue drained whatever happens   *)
Finalized(b, t) ==
    LET opened == AddService(t, b.service[1].primary, b.service[1].uuid)
        after[i \in 0 .. Len(b.commands)] ==
            IF i = 0 THEN [table |-> opened, end |-> "ok", open |-> FALSE]
                     ELSE Committed(after[i - 1], b.commands[i])
        run    == after[Len(b.commands)]
    IN IF b.service = NoService THEN [table |-> t, end |-> "ok"]
       ELSE IF Len(opened) > TableSize THEN [table |-> t, end |-> "panic"]
       ELSE [table |-> Closed(run.table, Len(opened)), end |-> run.end]

Emptied(b) == IF b.service = NoService THEN b ELSE [b EXCEPT !.service = NoService, !.commands = <<>>]

-----------------------------------------------------------------------------
(***************************************************************************)
(* handle_gap_settings: what it answers, and the GAP state it leaves       *)
(***************************************************************************)
DefaultSettings == {"POWERED", "CONNECTABLE", "LE", "STATIC_ADDRESS", "SECURE_CONNECTIONS"}

Changed(g, mask, on) == [g EXCEPT !.settings = IF on THEN @ \cup mask ELSE @ \ mask]

\* Mutant: the bit that is not for the wire is told
CurrentUnmasked(g) == Ok(Telling("CurrentSettings", <<>>, g.settings))

(* change_current_settings answers with the settings the wire knows        *)
Current(g) == Ok(Telling("CurrentSettings", <<>>, g.settings \cap Settings))

SettingsAfter(p, g) ==
    LET c == Name(p)
    IN CASE c = "SetConnectable"  -> Changed(g, {"CONNECTABLE"}, Byte(p, 1) # 0)
         [] c = "SetBondable"     -> Changed(g, {"BONDABLE"}, Byte(p, 1) # 0)
         [] c = "SetDiscoverable" ->
              (CASE Byte(p, 1) = 0 -> Changed(g, {"DISCOVERABLE", Limited}, FALSE)
                 [] Byte(p, 1) = 1 -> Changed(Changed(g, {Limited}, FALSE), {"DISCOVERABLE"}, TRUE)
                 [] OTHER          -> Changed(g, {"DISCOVERABLE", Limited}, TRUE))
         [] c = "SetIoCapability" -> [g EXCEPT !.io = Byte(p, 1)]
         [] c = "SetFilterAcceptList" ->
              [g EXCEPT !.accept = IF Byte(p, 1) = 0 THEN <<>> ELSE <<Address(p.data, Pos(p, 1) + 1)>>]
         [] OTHER -> g

ExpectedIndex(p) ==
    IF Name(p) \in {"ReadSupportedCommands", "ReadControllerIndexList"} THEN NoController ELSE 0

GapSettings(p, g) ==
    LET c == Name(p)  after == SettingsAfter(p, g)
        reply(r) == [gap |-> after, res |-> r]
    IN IF p.idx # ExpectedIndex(p) THEN [gap |-> g, res |-> Err("InvalidIndex")]
       ELSE CASE c = "ReadSupportedCommands"   -> reply(Ok(Message("SupportedCommands", <<>>)))
              [] c = "ReadControllerIndexList" -> reply(Ok(Message("ControllerIndexList", <<>>)))
              [] c = "ReadControllerInfo" ->
                   reply(Ok(Telling("ControllerInfo",
                                    <<NameLen, IF NameLen < MaxShortName THEN NameLen ELSE MaxShortName>>,
                                    g.settings \ {Limited})))
              [] c \in {"SetConnectable", "SetBondable", "SetDiscoverable"} -> reply(Current(after))
              [] c = "SetIoCapability" -> reply(Ok(Message("Success", <<>>)))
              [] c = "SetFilterAcceptList" ->
                   reply(IF Byte(p, 1) > 1 THEN Err("Fail") ELSE Ok(Message("Success", <<>>)))
              [] OTHER -> reply(Err("NotReady"))

HandleCore(p) ==
    LET c == Name(p)
    IN Ok(Message(CASE c = "ReadSupportedCommands" -> "SupportedCommands"
                    [] c = "ReadSupportedServices" -> "SupportedServices"
                    [] OTHER                       -> "Done", <<>>))

HandleL2cap == Err("UnknownCommand")

-----------------------------------------------------------------------------
(***************************************************************************)
(* handle_gatt_pre_server: the result, the builder and the table it        *)
(* leaves, how a commit of the queue ended, and the attributes it promises *)
(* the other side a handle of.                                             *)
(***************************************************************************)
Unbuilt(res) == [res |-> res, builder |-> builder, table |-> table, end |-> "ok", made |-> {}]

(* A handle is told, and what shall be at it                               *)
Promise(handle, kind, type, read, write) ==
    [handle |-> handle, kind |-> kind, type |-> type, read |-> read, write |-> write]

Queued(c, handle, answer, type, read, write) ==
    IF builder.service = NoService \/ Len(builder.commands) >= QueueSize THEN Unbuilt(Err("Fail"))
    ELSE [Unbuilt(Ok(Message(answer, <<>>))) EXCEPT
             !.builder.commands = Append(@, c),
             !.made = {Promise(handle, IF c.kind = "include" THEN "include" ELSE "data",
                               type, read, write)}]

BuildService(p) ==
    LET f == Finalized(builder, table)
        primary == Byte(p, 1) = 0
        id == Len(f.table) + 1
    IN IF f.end # "ok"
       THEN [Unbuilt(Err("Fail")) EXCEPT !.builder = Emptied(builder), !.table = f.table, !.end = f.end]
       ELSE [Unbuilt(Ok(Message("ServiceAdded", <<>>))) EXCEPT
                !.builder = [service |-> <<[primary |-> primary, uuid |-> Uuid(p.data, Pos(p, 2))]>>,
                             id |-> id, commands |-> Emptied(builder).commands],
                !.table = f.table,
                !.made = {Promise(id, "service", IF primary THEN PrimaryService ELSE SecondaryService,
                                  NoLevel, NoLevel)}]

BuildCharacteristic(p) ==
    LET uuid == Uuid(p.data, Pos(p, 4))  perm == Asked(Byte(p, 3))
    IN IF Half(p, 1) # 0 THEN Unbuilt(Err("Fail"))
       ELSE Queued(Command("characteristic", Byte(p, 2), perm, uuid, 0), NextHandle(builder) + 1,
                   "CharacteristicAdded", uuid, Wanted(perm.read), Wanted(perm.write))

BuildDescriptor(p) ==
    LET uuid == Uuid(p.data, Pos(p, 3))  perm == Asked(Byte(p, 2))
    IN IF Half(p, 1) # 0 THEN Unbuilt(Err("Fail"))
       ELSE Queued(Command("descriptor", 0, perm, uuid, 0), NextHandle(builder),
                   "DescriptorAdded", uuid, perm.read, perm.write)

BuildInclude(p) ==
    Queued(Command("include", 0, ReadOnly, Include, Half(p, 1)), NextHandle(builder),
           "IncludedServiceAdded", Include, NoLevel, NoLevel)

(* The value goes to the last command queued                               *)
BuildValue(p) ==
    LET n == Len(builder.commands)
    IN IF \/ Half(p, 1) # 0 \/ builder.service = NoService \/ n = 0
          \/ builder.commands[n].kind = "include"
       THEN Unbuilt(Err("Fail"))
       ELSE [Unbuilt(Ok(Message("ValueSet", <<>>))) EXCEPT
                !.builder.commands[n].len = Half(p, 2)]

GattPreServer(p) ==
    LET c == Name(p)
    IN CASE c = "ReadSupportedCommands" -> Unbuilt(Ok(Message("SupportedCommands", <<>>)))
         [] c = "AddService"         -> BuildService(p)
         [] c = "AddCharacteristic"  -> BuildCharacteristic(p)
         [] c = "AddDescriptor"      -> BuildDescriptor(p)
         [] c = "AddIncludedService" -> BuildInclude(p)
         [] c = "SetValue"           -> BuildValue(p)
         [] c = "SetEncKeySize"      -> Unbuilt(Ok(Message("EncKeySizeSet", <<>>)))
         [] OTHER                    -> Unbuilt(Err("NotReady"))

-----------------------------------------------------------------------------
(***************************************************************************)
(* GapCommand::ad: what is to be advertised, or nothing                    *)
(***************************************************************************)
(* prepend_flags                                                           *)
AdvertFlags(settings) ==
    IF "CONNECTABLE" \notin settings THEN {}
    ELSE {"BR_EDR_NOT_SUPPORTED"} \cup
         (IF "DISCOVERABLE" \notin settings THEN {}
          ELSE IF Limited \in settings THEN {"LE_LIMITED"} ELSE {"LE_GENERAL"})

AdvertKind(p, settings) ==
    LET ext     == "EXTENDED_ADVERTISING" \in settings
        connect == "CONNECTABLE" \in settings
        scan    == U8(p.data, Pos(p, 1) + 1) > 0
        high    == Half(p, 2) % 2 = 1
    IN IF Name(p) = "StartAdvertising"
       THEN CASE connect /\ ext          -> "ExtConnectableNonscannableUndirected"
              [] connect /\ ~ext         -> "ConnectableScannableUndirected"
              [] ~connect /\ ext /\ scan -> "ExtNonconnectableScannableUndirected"
              [] ~connect /\ ext         -> "ExtNonconnectableNonscannableUndirected"
              [] ~connect /\ scan        -> "NonconnectableScannableUndirected"
              [] OTHER                   -> "NonconnectableNonscannableUndirected"
       ELSE CASE ~connect                -> "none"
              [] connect /\ ext          -> "ExtConnectableNonscannableDirected"
              [] connect /\ high         -> "ConnectableNonscannableDirectedHighDuty"
              [] OTHER                   -> "ConnectableNonscannableDirected"

Advert(p, settings) ==
    [kind     |-> AdvertKind(p, settings),
     bondable |-> "CONNECTABLE" \in settings /\ "BONDABLE" \in settings,
     flags    |-> IF Name(p) = "StartAdvertising" THEN AdvertFlags(settings) ELSE {}]

(***************************************************************************)
(* handle_gap and handle_gatt: what they may come to                       *)
(***************************************************************************)
GapRuntime(p, g) ==
    LET c == Name(p)
    IN CASE c \in {"StartAdvertising", "StartDirectedAdvertising"} ->
              IF AdvertKind(p, g.settings) = "none" THEN {Err("Fail")}
              ELSE {Forwarded("peripheral", "StartAdvertising", Advert(p, g.settings))}
         [] c = "StopAdvertising" -> {Forwarded("peripheral", c, NoAdvert)}
         [] c \in {"StartDiscovery", "StopDiscovery", "Connect"} -> {Forwarded("central", c, NoAdvert)}
         [] OTHER -> {Ok(Message("Success", <<>>)), Err("Fail")}

ClientCommands ==
    {"ExchangeMtu", "DiscoverPrimaryUuid", "DiscoverChrcUuid", "Read", "ReadLong", "ReadUuid",
     "Write", "WriteWithoutRsp", "CfgNotify", "CfgIndicate"}

(* The UUIDs of the attributes from a handle to a handle, of a type if any *)
AttrsOf(p, t) ==
    LET type == Uuid(p.data, Pos(p, 3))
        wanted(h) == /\ h >= Half(p, 1) /\ h <= Half(p, 2)
                     /\ type = <<>> \/ t[h].type = type
        handles == SelectSeq([h \in DOMAIN t |-> h], wanted)
    IN [i \in DOMAIN handles |-> Len(t[handles[i]].type)]

MaxValue == 512

GattServed(p, t) ==
    LET c == Name(p)
    IN CASE c = "ReadSupportedCommands" -> Ok(Message("SupportedCommands", <<>>))
         [] c = "StartServer" -> Ok(Message("ServerStarted", <<>>))
         [] c = "SetValue" -> IF Writable(t, Half(p, 1), Half(p, 2))
                              THEN Ok(Message("ValueSet", <<>>)) ELSE Err("Fail")
         [] c = "SetEncKeySize" -> Ok(Message("EncKeySizeSet", <<>>))
         [] c = "GetAttrs" -> Ok(Message("Attrs", AttrsOf(p, t)))
         [] c = "GetAttrValue" ->
              IF ~Readable(t, Half(p, 2)) THEN Err("Fail")
              ELSE LET n == t[Half(p, 2)].len
                   IN Ok(Message("AttrValue", <<IF n < MaxValue THEN n ELSE MaxValue>>))
         [] c \in ClientCommands -> Forwarded("gatt_client", c, NoAdvert)
         [] OTHER -> Err("Fail")

TableAfter(p, t) ==
    IF Name(p) = "SetValue" /\ Writable(t, Half(p, 1), Half(p, 2)) THEN Write(t, Half(p, 1), Half(p, 2))
    ELSE t

(***************************************************************************)
(* What the task a command went to may answer                              *)
(***************************************************************************)
AnswersTo(command, g) ==
    {Err("Fail")} \cup
    CASE command = "StartAdvertising"    -> {Current(Changed(g, {"ADVERTISING"}, TRUE))}
      [] command = "StopAdvertising"     -> {Current(Changed(g, {"ADVERTISING"}, FALSE))}
      [] command \in {"StartDiscovery", "StopDiscovery", "Connect"} -> {Ok(Message("Success", <<>>))}
      [] command = "ExchangeMtu"         -> {Ok(Message("MtuExchanged", <<>>))}
      [] command = "DiscoverPrimaryUuid" -> {Ok(Message("Services", s)) : s \in Lists}
      [] command = "DiscoverChrcUuid"    -> {Ok(Message("Characteristics", s)) : s \in Lists}
      [] command \in {"Read", "ReadLong"} -> {Ok(Message("ReadData", <<n>>)) : n \in Values}
      [] command = "ReadUuid"            -> {Ok(Message("ReadUuidData", s)) : s \in Lists}
      [] command = "Write"               -> {Ok(Message("WriteResult", <<>>))}
      [] command = "WriteWithoutRsp"     -> {Ok(Message("WriteWithoutRspDone", <<>>))}
      [] command \in {"CfgNotify", "CfgIndicate"} -> {Ok(Message("CfgDone", <<>>))}

-----------------------------------------------------------------------------
Tells(r) == shown' = IF r.kind \in Tellers THEN r.tells ELSE shown

(* A result is written under the header of the packet p it answers; a loop *)
(* that finds the settings without POWERED ends.                           *)
Respond(p, res, g, on) ==
    /\ IF res.status = "ok" THEN out' = AnswerOut(p, res.r) /\ Tells(res.r)
                             ELSE out' = ErrorOut(p, res.status) /\ UNCHANGED shown
    /\ gap' = g
    /\ phase' = IF "POWERED" \in g.settings THEN on ELSE "ended"

ServerInit ==
    /\ phase = "pre"
    /\ packet = NoPacket
    /\ gap = [settings |-> DefaultSettings, accept |-> <<>>, io |-> 3]
    /\ builder = [service |-> NoService, id |-> 0, commands |-> <<>>]
    /\ table = InitTable
    /\ waiting = Nobody
    /\ out = EventOut(Message("IutReady", <<>>))
    /\ shown = {} /\ promised = {} /\ dropped = FALSE
    /\ taken = 0 /\ seen = 0

Unread == /\ taken < MaxPackets /\ taken' = taken + 1 /\ UNCHANGED seen

(***************************************************************************)
(* run_pre_server                                                          *)
(***************************************************************************)
Refused(p) ==
    /\ phase = "pre" /\ Unread
    /\ p.len <= MaxData /\ Parsed(p, p.data) # "ok"
    /\ out' = ErrorOut(p, Parsed(p, p.data))
    /\ UNCHANGED <<phase, packet, gap, builder, table, waiting, shown, promised, dropped>>

Accepted(p) == phase = "pre" /\ Unread /\ p.len <= MaxData /\ Parsed(p, p.data) = "ok"

PreCore(p) ==
    /\ Accepted(p) /\ p.svc \in {Core, L2cap}
    /\ Respond(p, IF p.svc = Core THEN HandleCore(p) ELSE HandleL2cap, gap, phase)
    /\ UNCHANGED <<packet, builder, table, waiting, promised, dropped>>

PreGap(p) ==
    /\ Accepted(p) /\ p.svc = Gap
    /\ LET g == GapSettings(p, gap)
       IN g.res.status # "NotReady" /\ Respond(p, g.res, g.gap, phase)
    /\ UNCHANGED <<packet, builder, table, waiting, promised, dropped>>

PreGatt(p) ==
    /\ Accepted(p) /\ p.svc = Gatt
    /\ LET b == GattPreServer(p)
       IN /\ b.res.status # "NotReady"
          /\ builder' = b.builder
          /\ table' = b.table
          /\ promised' = promised \cup b.made
          /\ dropped' = (dropped \/ b.end = "Fail")
          /\ IF b.end = "panic" THEN phase' = "panicked" /\ UNCHANGED <<gap, out, shown>>
                                ELSE Respond(p, b.res, gap, phase)
    /\ UNCHANGED <<packet, waiting>>

(* A command for the server: what is queued is committed, an error of that *)
(* goes unheard (.ok()), and the command waits for the other loop.         *)
NeedsServer(p) ==
    \/ p.svc = Gap /\ GapSettings(p, gap).res.status = "NotReady"
    \/ p.svc = Gatt /\ GattPreServer(p).res.status = "NotReady"

StartsServer(p) ==
    /\ Accepted(p) /\ NeedsServer(p)
    /\ LET f == Finalized(builder, table)
       IN /\ table' = f.table
          /\ dropped' = (dropped \/ f.end = "Fail")
          /\ phase' = IF f.end = "panic" THEN "panicked" ELSE "run"
    /\ builder' = Emptied(builder)
    /\ packet' = p
    /\ UNCHANGED <<gap, waiting, out, shown, promised>>

(***************************************************************************)
(* run                                                                     *)
(***************************************************************************)
InHand == phase = "run" /\ packet # NoPacket /\ waiting = Nobody

RefusedLater ==
    /\ InHand /\ Parsed(packet, packet.data) # "ok"
    /\ out' = ErrorOut(packet, Parsed(packet, packet.data))
    /\ packet' = NoPacket
    /\ UNCHANGED <<phase, gap, builder, table, waiting, shown, promised, dropped, taken, seen>>

(* A result known now is written, another is awaited.                      *)
Done(res, g) ==
    IF res.status = "forwarded"
    THEN waiting' = res.to /\ gap' = g /\ UNCHANGED <<phase, packet, out, shown>>
    ELSE Respond(packet, res, g, phase) /\ packet' = NoPacket /\ UNCHANGED waiting

RunCore ==
    /\ InHand /\ Parsed(packet, packet.data) = "ok" /\ packet.svc \in {Core, L2cap}
    /\ Respond(packet, IF packet.svc = Core THEN HandleCore(packet) ELSE HandleL2cap, gap, phase)
    /\ packet' = NoPacket
    /\ UNCHANGED <<builder, table, waiting, promised, dropped, taken, seen>>

RunGap ==
    /\ InHand /\ Parsed(packet, packet.data) = "ok" /\ packet.svc = Gap
    /\ LET g == GapSettings(packet, gap)
       IN \E res \in IF g.res.status = "NotReady" THEN GapRuntime(packet, gap) ELSE {g.res} :
             Done(res, g.gap)
    /\ UNCHANGED <<builder, table, promised, dropped, taken, seen>>

RunGatt ==
    /\ InHand /\ Parsed(packet, packet.data) = "ok" /\ packet.svc = Gatt
    /\ Done(GattServed(packet, table), gap)
    /\ table' = TableAfter(packet, table)
    /\ UNCHANGED <<builder, promised, dropped, taken, seen>>

(* The task's answer; what it says of advertising becomes a setting.       *)
Answered ==
    /\ waiting # Nobody
    /\ \E res \in AnswersTo(waiting.command, gap) :
          Respond(packet, res,
                  IF waiting.task # "peripheral" \/ res.status # "ok" THEN gap
                  ELSE Changed(gap, {"ADVERTISING"}, waiting.command = "StartAdvertising"), phase)
    /\ packet' = NoPacket
    /\ waiting' = Nobody
    /\ UNCHANGED <<builder, table, promised, dropped, taken, seen>>

(* convert_event, while a packet or an answer is awaited                   *)
AdvertisingStopped == Message("AdvertisingStopped", <<>>)

Converted(e) ==
    IF e = AdvertisingStopped
    THEN Telling("NewSettings", <<>>, gap.settings \ {"ADVERTISING", Limited}) ELSE e

TellEvent ==
    /\ phase = "run" /\ (packet = NoPacket \/ waiting # Nobody)
    /\ seen < MaxEvents /\ seen' = seen + 1
    /\ \E e \in Events :
          /\ gap' = IF e = AdvertisingStopped THEN Changed(gap, {"ADVERTISING"}, FALSE) ELSE gap
          /\ out' = EventOut(Converted(e))
          /\ Tells(Converted(e))
    /\ UNCHANGED <<phase, packet, builder, table, waiting, promised, dropped, taken>>

ReadPacket(p) ==
    /\ phase = "run" /\ packet = NoPacket /\ Unread
    /\ p.len <= MaxData
    /\ packet' = p
    /\ UNCHANGED <<phase, gap, builder, table, waiting, out, shown, promised, dropped>>

(* A packet that says it is too long, or a transport that fails, ends both *)
(* loops with an error.                                                    *)
TooLong(p) ==
    /\ \/ phase = "pre"
       \/ phase = "run" /\ packet = NoPacket
    /\ Unread /\ p.len > MaxData
    /\ phase' = "failed"
    /\ UNCHANGED <<packet, gap, builder, table, waiting, out, shown, promised, dropped>>

ServerNext ==
    \/ \E p \in Packets : \/ Refused(p) \/ PreCore(p) \/ PreGap(p) \/ PreGatt(p)
                          \/ StartsServer(p) \/ ReadPacket(p) \/ TooLong(p)
    \/ RefusedLater \/ RunCore \/ RunGap \/ RunGatt \/ Answered \/ TellEvent

ServerSpec == ServerInit /\ [][ServerNext]_serverVars

-----------------------------------------------------------------------------
(* Every handle that AddService, AddCharacteristic, AddDescriptor and      *)
(* AddIncludedService answered with, computed from a queue of commands     *)
(* before any of them was carried out (next_handle), is in the server's    *)
(* table the attribute it was said to be, with the level it asked for,     *)
(* unless a commit of the queue failed.                                    *)
HandlesKept ==
    phase = "run" /\ ~dropped =>
        \A m \in promised :
            /\ m.handle \in DOMAIN table
            /\ LET a == table[m.handle]
               IN /\ a.kind = m.kind /\ a.type = m.type
                  /\ m.read  # NoLevel => a.perm.read  = m.read
                  /\ m.write # NoLevel => a.perm.write = m.write

(* The settings the other side was told last are the settings: none of     *)
(* handle_gap_settings, the answers of the peripheral task and             *)
(* convert_event changes one and says nothing, and none tells the bit that *)
(* is not for the wire.                                                    *)
ToldIsCurrent == shown # {} => shown = gap.settings \ {Limited}

(* The length a header says is the length of what is written after it, for *)
(* every answer, error and event: data_len and write are two accounts of   *)
(* one layout.                                                             *)
FramingKept == out.len = out.bytes
=============================================================================
