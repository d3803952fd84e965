------------------------------- MODULE BtpWire -------------------------------
(***************************************************************************)
(* trouble tester, btp/protocol: the packets of the Bluetooth Test         *)
(* Protocol.  A packet is a header [svc, op, idx, len] and its data, a     *)
(* sequence of bytes; idx is -1 where the wire has 0xFF, "no controller".  *)
(* A command's layout is the sequence of the fields its parser reads, so   *)
(* parsing is a walk of a cursor along the layout.  The answers and events *)
(* the tester writes are records; of each the module has the length its    *)
(* header declares and the lengths of the pieces then written.             *)
(***************************************************************************)
EXTENDS Integers, Sequences, FiniteSets, TLC

CONSTANTS MaxData,    \* MAX_DATA_SIZE
          MaxName     \* MAX_NAME_LEN

Core == 0   Gap == 1   Gatt == 2   L2cap == 3

NoController == -1

(***************************************************************************)
(* Settings, and the permissions of an attribute                           *)
(***************************************************************************)
Settings == {"POWERED", "CONNECTABLE", "FAST_CONNECTABLE", "DISCOVERABLE", "BONDABLE",
             "LINK_LEVEL_SECURITY", "SSP", "BR_EDR", "HIGH_SPEED", "LE", "ADVERTISING",
             "SECURE_CONNECTIONS", "DEBUG_KEYS", "PRIVACY", "CONTROLLER_CONFIG", "STATIC_ADDRESS",
             "SC_ONLY", "EXTENDED_ADVERTISING", "PERIODIC_ADVERTISING"}

(* LIMITED_DISCOVERABLE, bit 31: known to the tester and not to the wire   *)
Limited == "LIMITED_DISCOVERABLE"

Cmd(c, a) == [cmd |-> c, args |-> a]

(***************************************************************************)
(* The commands of each service: opcode, name, fields.                     *)
(***************************************************************************)
CoreCommands ==
    (1 :> Cmd("ReadSupportedCommands", <<>>)) @@ (2 :> Cmd("ReadSupportedServices", <<>>)) @@
    (3 :> Cmd("RegisterService", <<"u8">>))   @@ (4 :> Cmd("UnregisterService", <<"u8">>))

(* The GAP commands on the tester itself ...                               *)
GapModeCommands ==
    (\h01 :> Cmd("ReadSupportedCommands", <<>>)) @@
    (\h02 :> Cmd("ReadControllerIndexList", <<>>)) @@
    (\h03 :> Cmd("ReadControllerInfo", <<>>)) @@
    (\h06 :> Cmd("SetConnectable", <<"u8">>)) @@
    (\h08 :> Cmd("SetDiscoverable", <<"mode">>)) @@
    (\h09 :> Cmd("SetBondable", <<"u8">>)) @@
    (\h0a :> Cmd("StartAdvertising", <<"adverts", "u32", "u8">>)) @@
    (\h0b :> Cmd("StopAdvertising", <<>>)) @@
    (\h10 :> Cmd("SetIoCapability", <<"iocap">>)) @@
    (\h15 :> Cmd("StartDirectedAdvertising", <<"addr", "u16">>)) @@
    (\h1c :> Cmd("SetFilterAcceptList", <<"addrs">>))

(* ... and those on peers                                                  *)
GapPeerCommands ==
    (\h0c :> Cmd("StartDiscovery", <<"u8">>)) @@
    (\h0d :> Cmd("StopDiscovery", <<>>)) @@
    (\h0e :> Cmd("Connect", <<"addr", "u8">>)) @@
    (\h0f :> Cmd("Disconnect", <<"addr">>)) @@
    (\h11 :> Cmd("Pair", <<"addr">>)) @@
    (\h12 :> Cmd("Unpair", <<"addr">>)) @@
    (\h13 :> Cmd("PasskeyEntry", <<"addr", "u32">>)) @@
    (\h14 :> Cmd("PasskeyConfirm", <<"addr", "u8">>)) @@
    (\h16 :> Cmd("ConnParamUpdate", <<"addr", "u32", "u32">>))

GapCommands == GapModeCommands @@ GapPeerCommands

(* The commands that build the attribute table or look into it.            *)
TableCommands ==
    (\h01 :> Cmd("ReadSupportedCommands", <<>>)) @@
    (\h02 :> Cmd("AddService", <<"flag", "uuid">>)) @@
    (\h03 :> Cmd("AddCharacteristic", <<"u16", "u8", "u8", "uuid">>)) @@
    (\h04 :> Cmd("AddDescriptor", <<"u16", "u8", "uuid">>)) @@
    (\h05 :> Cmd("AddIncludedService", <<"u16">>)) @@
    (\h06 :> Cmd("SetValue", <<"u16", "block">>)) @@
    (\h07 :> Cmd("StartServer", <<>>)) @@
    (\h09 :> Cmd("SetEncKeySize", <<"u16", "u8">>)) @@
    (\h1c :> Cmd("GetAttrs", <<"u16", "u16", "optuuid">>)) @@
    (\h1d :> Cmd("GetAttrValue", <<"addr", "u16">>))

(* The commands for the server of the peer: where its parts are ...        *)
DiscoveryCommands ==
    (\h0a :> Cmd("ExchangeMtu", <<"addr">>)) @@
    (\h0b :> Cmd("DiscoverAllPrimary", <<"addr">>)) @@
    (\h0c :> Cmd("DiscoverPrimaryUuid", <<"addr", "uuid">>)) @@
    (\h0d :> Cmd("FindIncluded", <<"addr", "u16", "u16">>)) @@
    (\h0e :> Cmd("DiscoverAllChrc", <<"addr", "u16", "u16">>)) @@
    (\h0f :> Cmd("DiscoverChrcUuid", <<"addr", "u16", "u16", "uuid">>)) @@
    (\h10 :> Cmd("DiscoverAllDesc", <<"addr", "u16", "u16">>))

(* ... what they hold ...                                                  *)
ReadCommands ==
    (\h11 :> Cmd("Read", <<"addr", "u16">>)) @@
    (\h12 :> Cmd("ReadUuid", <<"addr", "u16", "u16", "uuid">>)) @@
    (\h13 :> Cmd("ReadLong", <<"addr", "u16", "u16">>)) @@
    (\h14 :> Cmd("ReadMultiple", <<"addr", "handles">>)) @@
    (\h20 :> Cmd("ReadMultipleVar", <<"addr", "handles">>))

(* ... and what they shall hold.                                           *)
WriteCommands ==
    (\h15 :> Cmd("WriteWithoutRsp", <<"addr", "u16", "block">>)) @@
    (\h16 :> Cmd("SignedWriteWithoutRsp", <<"addr", "u16", "block">>)) @@
    (\h17 :> Cmd("Write", <<"addr", "u16", "block">>)) @@
    (\h18 :> Cmd("WriteLong", <<"addr", "u16", "u16", "block">>)) @@
    (\h19 :> Cmd("ReliableWrite", <<"addr", "u16", "u16", "block">>)) @@
    (\h1a :> Cmd("CfgNotify", <<"addr", "u8", "u16">>)) @@
    (\h1b :> Cmd("CfgIndicate", <<"addr", "u8", "u16">>))

GattCommands == TableCommands @@ DiscoveryCommands @@ ReadCommands @@ WriteCommands

L2capCommands ==
    (1 :> Cmd("ReadSupportedCommands", <<>>)) @@
    (2 :> Cmd("Connect", <<"addr", "u16", "u16", "u8", "u8">>)) @@
    (3 :> Cmd("Disconnect", <<"u8">>)) @@
    (4 :> Cmd("SendData", <<"u8", "block">>)) @@
    (5 :> Cmd("Listen", <<"u16", "flag", "u16", "u8", "u8", "listen">>)) @@
    (6 :> Cmd("AcceptConnection", <<"u8", "u16">>)) @@
    (7 :> Cmd("Reconfigure", <<"addr", "u16", "octets">>)) @@
    (8 :> Cmd("Credits", <<"u8">>)) @@
    (9 :> Cmd("DisconnectEattChans", <<"addr", "u8">>))

(***************************************************************************)
(* The commands a service says it supports: its mask, which the code has   *)
(* as a list of its own beside the parser's.                               *)
(***************************************************************************)
Supported == [svc \in Core .. L2cap |->
    CASE svc = Core  -> 1 .. 4
      [] svc = Gap   -> (1 .. 3) \cup {6} \cup (8 .. \h16) \cup {\h1c}
      [] svc = Gatt  -> (1 .. 7) \cup (9 .. \h1d) \cup {\h20}
      [] svc = L2cap -> 1 .. 9]

(* supported_commands_bitmask: bit op of a mask of as many bytes as needed  *)
MaskBytes(ops) == 1 + CHOOSE m \in {o \div 8 : o \in ops} : \A o \in ops : o \div 8 <= m

Commands(svc) == CASE svc = Core -> CoreCommands [] svc = Gap -> GapCommands
                   [] svc = Gatt -> GattCommands [] svc = L2cap -> L2capCommands

(***************************************************************************)
(* The cursor.  A field has a fixed part, and the lengths in it say what   *)
(* follows; past the end of the data nothing can be read.                  *)
(***************************************************************************)
Fixed == [u8 |-> 1, u16 |-> 2, u32 |-> 4, addr |-> 7, flag |-> 1, mode |-> 1, iocap |-> 1,
          listen |-> 2, uuid |-> 1, optuuid |-> 1, addrs |-> 1, handles |-> 1, octets |-> 1,
          block |-> 2, adverts |-> 2]

U8(d, p)  == d[p + 1]
U16(d, p) == d[p + 1] + 256 * d[p + 2]

(* What the lengths in the fixed part of field f at p announce             *)
Announced(f, d, p) ==
    CASE f \in {"uuid", "optuuid", "octets"} -> U8(d, p)
      [] f = "handles" -> 2 * U8(d, p)
      [] f = "addrs"   -> 7 * U8(d, p)
      [] f = "block"   -> U16(d, p)
      [] f = "adverts" -> U8(d, p) + U8(d, p + 1)
      [] OTHER         -> 0

(* The values the conversions of a field accept (try_from)                 *)
LegalByte(f, b) ==
    CASE f = "flag" -> b \in {0, 1} [] f = "mode" -> b \in 0 .. 2 [] f = "iocap" -> b \in 0 .. 4

LegalListen(n) == n \in 0 .. 5

Legal(f, d, p) ==
    CASE f \in {"flag", "mode", "iocap"} -> LegalByte(f, U8(d, p))
      [] f = "listen"  -> LegalListen(U16(d, p))
      [] f = "uuid"    -> U8(d, p) \in {2, 16}
      [] f = "optuuid" -> U8(d, p) \in {0, 2, 16}
      [] OTHER         -> TRUE

TooShort == -1

(* The end of field f at p, or TooShort where it cannot be read            *)
End(f, d, p) ==
    IF p = TooShort \/ Len(d) < p + Fixed[f] THEN TooShort
    ELSE IF ~Legal(f, d, p) \/ Len(d) < p + Fixed[f] + Announced(f, d, p) THEN TooShort
    ELSE p + Fixed[f] + Announced(f, d, p)

(* Where field i of the layout starts; At(args, d)[Len(args) + 1] is where *)
(* the command ends.  What is left over is only warned of.                 *)
At(args, d) ==
    LET at[i \in 1 .. Len(args) + 1] ==
            IF i = 1 THEN 0 ELSE End(args[i - 1], d, at[i - 1])
    IN at

Fits(args, d) == At(args, d)[Len(args) + 1] # TooShort

(* The address at p; the levels a byte of permissions asks for, of whose   *)
(* bits the first of plain, encrypted, authenticated counts.               *)
Address(d, p) == SubSeq(d, p + 1, p + 7)

Level(byte, plain, enc, authen) ==
    LET set(b) == (byte \div b) % 2 = 1
    IN IF set(plain) THEN "Allowed" ELSE IF set(enc) THEN "EncryptionRequired"
       ELSE IF set(authen) THEN "AuthenticationRequired" ELSE "NotAllowed"

Asked(byte) == [read |-> Level(byte, 1, 4, 16), write |-> Level(byte, 2, 8, 32)]

(* A UUID field: a byte with the length, and the bytes                     *)
Uuid(d, p) == SubSeq(d, p + 2, p + 1 + U8(d, p))

(***************************************************************************)
(* BtpCommand::parse, up to the status an error is answered with           *)
(***************************************************************************)
NeedsController(h) ==
    CASE h.svc = Core -> FALSE [] h.svc = Gap -> h.op \notin {1, 2} [] OTHER -> h.op # 1

Parsed(h, d) ==
    IF h.op \notin 1 .. 127 THEN "Fail"
    ELSE IF h.svc \notin Core .. L2cap THEN "UnknownCommand"
    ELSE IF NeedsController(h) /\ h.idx # 0 THEN "InvalidIndex"
    ELSE IF h.op \notin DOMAIN Commands(h.svc) THEN "UnknownCommand"
    ELSE IF ~Fits(Commands(h.svc)[h.op].args, d) THEN "Fail"
    ELSE "ok"

(***************************************************************************)
(* Answers and events: [kind, sizes, tells], the sizes those of its        *)
(* elements of variable length (names, UUIDs, values), in order, and the   *)
(* current settings it tells, if it does.                                  *)
(***************************************************************************)
Message(k, s) == [kind |-> k, sizes |-> s, tells |-> {}]

Telling(k, s, settings) == [Message(k, s) EXCEPT !.tells = settings]

Total(s) ==
    LET upTo[i \in 0 .. Len(s)] == IF i = 0 THEN 0 ELSE upTo[i - 1] + s[i]
    IN upTo[Len(s)]

MaxShortName == 11

CoreAnswerLen(r)    == IF r.kind = "SupportedCommands" THEN MaskBytes(Supported[Core])
                       ELSE IF r.kind = "SupportedServices" THEN 1 ELSE 0
CoreAnswerPieces(r) == IF r.kind \in {"SupportedCommands", "SupportedServices"} THEN <<1>> ELSE <<>>

GapAnswerLen(r) ==
    CASE r.kind = "Success"             -> 0
      [] r.kind = "SupportedCommands"   -> MaskBytes(Supported[Gap])
      [] r.kind = "ControllerIndexList" -> 1 + 1
      [] r.kind = "ControllerInfo"      -> 6 + 4 + 4 + 3 + MaxName + MaxShortName
      [] r.kind = "CurrentSettings"     -> 4

\* Mutant: a long name is written whole
PaddedUncut(n, room) == <<n, IF n < room THEN room - n ELSE 0>>

(* A name is cut to the place it has and padded with zeros                 *)
Padded(n, room) == IF n < room THEN <<n, room - n>> ELSE <<room, 0>>

GapAnswerPieces(r) ==
    CASE r.kind = "Success"             -> <<>>
      [] r.kind = "SupportedCommands"   -> <<4>>
      [] r.kind = "ControllerIndexList" -> <<1, 1>>
      [] r.kind = "ControllerInfo"      -> <<6, 4, 4, 3>> \o Padded(r.sizes[1], MaxName)
                                                         \o Padded(r.sizes[2], MaxShortName)
      [] r.kind = "CurrentSettings"     -> <<4>>

(* The parts of constant length of one element of a list                   *)
ListItem == [Services        |-> <<2, 2>>, IncludedServices |-> <<2, 1, 2, 2>>,
             Characteristics |-> <<2, 2, 1>>, Descriptors   |-> <<2>>, Attrs |-> <<2, 1>>]

GattAnswerLen(r) ==
    LET each(w) == Total([i \in DOMAIN r.sizes |-> w + r.sizes[i]])
    IN CASE r.kind = "SupportedCommands" -> MaskBytes(Supported[Gatt])
         [] r.kind \in {"ServiceAdded", "CharacteristicAdded", "DescriptorAdded",
                        "IncludedServiceAdded"} -> 2
         [] r.kind = "ServerStarted"    -> 3
         [] r.kind = "WriteResult"      -> 1
         [] r.kind = "Services"         -> 1 + each(5)
         [] r.kind = "IncludedServices" -> 1 + each(8)
         [] r.kind = "Characteristics"  -> 1 + each(6)
         [] r.kind = "Descriptors"      -> 1 + each(3)
         [] r.kind = "Attrs"            -> 1 + each(4)
         [] r.kind = "ReadUuidData"     -> 1 + 1 + each(3)
         [] r.kind \in {"ReadData", "AttrValue"} -> 1 + 2 + r.sizes[1]
         [] OTHER -> 0       \* ValueSet, EncKeySizeSet, MtuExchanged, ...Done

(* write_uuid: a byte with the length, then the UUID                       *)
GattAnswerPieces(r) ==
    LET each(F(_)) ==
            LET upTo[i \in 0 .. Len(r.sizes)] ==
                    IF i = 0 THEN <<>> ELSE upTo[i - 1] \o F(r.sizes[i])
            IN upTo[Len(r.sizes)]
    IN CASE r.kind = "SupportedCommands" -> <<5>>
         [] r.kind \in {"ServiceAdded", "CharacteristicAdded", "DescriptorAdded",
                        "IncludedServiceAdded"} -> <<2>>
         [] r.kind = "ServerStarted" -> <<2, 1>>
         [] r.kind = "WriteResult"   -> <<1>>
         [] r.kind \in DOMAIN ListItem ->
                <<1>> \o each(LAMBDA n : ListItem[r.kind] \o <<1, n>>)
         [] r.kind = "ReadUuidData" -> <<1, 1>> \o each(LAMBDA n : <<2, 1, n>>)
         [] r.kind \in {"ReadData", "AttrValue"} -> <<1, 2, r.sizes[1]>>
         [] OTHER -> <<>>

GapEventLen(e) ==
    CASE e.kind = "NewSettings" -> 4
      [] e.kind = "DeviceFound" -> 11 + e.sizes[1]
      [] e.kind \in {"DeviceConnected", "ConnParamUpdate"} -> 13
      [] e.kind \in {"DeviceDisconnected", "PasskeyEntryRequest"} -> 7
      [] e.kind \in {"PasskeyDisplay", "PasskeyConfirmRequest"} -> 11
      [] e.kind \in {"SecLevelChanged", "PairingFailed"} -> 8

GapEventPieces(e) ==
    CASE e.kind = "NewSettings" -> <<4>>
      [] e.kind = "DeviceFound" -> <<1, 6, 1, 1, 2, e.sizes[1]>>
      [] e.kind \in {"DeviceConnected", "ConnParamUpdate"} -> <<1, 6, 2, 2, 2>>
      [] e.kind \in {"DeviceDisconnected", "PasskeyEntryRequest"} -> <<1, 6>>
      [] e.kind \in {"PasskeyDisplay", "PasskeyConfirmRequest"} -> <<1, 6, 4>>
      [] e.kind \in {"SecLevelChanged", "PairingFailed"} -> <<1, 6, 1>>

GattEvents == {"NotificationReceived", "AttrValueChanged"}

GattEventLen(e) == IF e.kind = "NotificationReceived" THEN 1 + 6 + 1 + 2 + 2 + e.sizes[1]
                                                      ELSE 2 + 2 + e.sizes[1]

GattEventPieces(e) == IF e.kind = "NotificationReceived" THEN <<1, 6, 1, 2, 2, e.sizes[1]>>
                                                         ELSE <<2, 2, e.sizes[1]>>

(* The service L2CAP refuses every command, and no event of it is sent:    *)
(* its messages are written by nothing.                                    *)
L2capMessages == {"SupportedCommands", "ConnectedAnswer", "Empty", "ConnectionRequest", "Connected",
                  "Disconnected", "DataReceived", "Reconfigured"}

L2capLen(r) ==
    CASE r.kind = "SupportedCommands" -> MaskBytes(Supported[L2cap])
      [] r.kind = "ConnectedAnswer"   -> 1 + r.sizes[1]
      [] r.kind = "Empty"             -> 0
      [] r.kind = "ConnectionRequest" -> 10
      [] r.kind = "Connected"         -> 18
      [] r.kind = "Disconnected"      -> 12
      [] r.kind = "DataReceived"      -> 3 + r.sizes[1]
      [] r.kind = "Reconfigured"      -> 9

L2capPieces(r) ==
    CASE r.kind = "SupportedCommands" -> <<2>>
      [] r.kind = "ConnectedAnswer"   -> <<1, r.sizes[1]>>
      [] r.kind = "Empty"             -> <<>>
      [] r.kind = "ConnectionRequest" -> <<1, 2, 1, 6>>
      [] r.kind = "Connected"         -> <<1, 2, 2, 2, 2, 2, 1, 6>>
      [] r.kind = "Disconnected"      -> <<2, 1, 2, 1, 6>>
      [] r.kind = "DataReceived"      -> <<1, 2, r.sizes[1]>>
      [] r.kind = "Reconfigured"      -> <<1, 2, 2, 2, 2>>

(***************************************************************************)
(* What goes out: a header, and as many bytes as the pieces have           *)
(***************************************************************************)
Written(svc, op, idx, len, pieces) ==
    [svc |-> svc, op |-> op, idx |-> idx, len |-> len % 65536, bytes |-> Total(pieces)]

AnswerOut(h, r) ==
    CASE h.svc = Core -> Written(h.svc, h.op, h.idx, CoreAnswerLen(r), CoreAnswerPieces(r))
      [] h.svc = Gap  -> Written(h.svc, h.op, h.idx, GapAnswerLen(r), GapAnswerPieces(r))
      [] h.svc = Gatt -> Written(h.svc, h.op, h.idx, GattAnswerLen(r), GattAnswerPieces(r))

ErrorOut(h, status) == Written(h.svc, 0, h.idx, 1, <<1>>)

EventOpcode == [IutReady |-> \h80, NewSettings |-> \h80, DeviceFound |-> \h81,
                DeviceConnected |-> \h82, DeviceDisconnected |-> \h83, PasskeyDisplay |-> \h84,
                PasskeyEntryRequest |-> \h85, PasskeyConfirmRequest |-> \h86,
                ConnParamUpdate |-> \h88, SecLevelChanged |-> \h89, PairingFailed |-> \h8c,
                NotificationReceived |-> \h80, AttrValueChanged |-> \h81]

EventOut(e) ==
    CASE e.kind = "IutReady"    -> Written(Core, EventOpcode[e.kind], NoController, 0, <<>>)
      [] e.kind \in GattEvents  -> Written(Gatt, EventOpcode[e.kind], 0, GattEventLen(e), GattEventPieces(e))
      [] OTHER                  -> Written(Gap, EventOpcode[e.kind], 0, GapEventLen(e), GapEventPieces(e))
=============================================================================
