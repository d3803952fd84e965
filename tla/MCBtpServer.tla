----------------------------- MODULE MCBtpServer -----------------------------
(***************************************************************************)
(* BtpServer for TLC: packets a test driver sends, and packets with a      *)
(* field too short, too large or of no meaning.                            *)
(***************************************************************************)
EXTENDS BtpServer

Pkt(svc, op, idx, data) == [svc |-> svc, op |-> op, idx |-> idx, len |-> Len(data), data |-> data]

Addr  == <<0, 1, 1, 1, 1, 1, 1>>
Short == <<2, 7, 7>>
Wide  == <<16, 1, 2, 3, 4, 5, 6, 7, 8, 9, 10, 11, 12, 13, 14, 15, 16>>

(* Services, what is in them, and values: handle 14 is the first that is   *)
(* not of the table's own services.                                        *)
BuildPackets ==
    {Pkt(Gatt, 2, 0, <<0>> \o Short), Pkt(Gatt, 2, 0, <<1>> \o Wide),
     Pkt(Gatt, 3, 0, <<0, 0, 18, 5>> \o Short), Pkt(Gatt, 3, 0, <<0, 0, 10, 18>> \o Wide),
     Pkt(Gatt, 4, 0, <<0, 0, 36>> \o Short),
     Pkt(Gatt, 5, 0, <<14, 0>>),
     Pkt(Gatt, 6, 0, <<0, 0, 9, 0, 1, 2, 3, 4, 5, 6, 7, 8, 9>>)}

(* Building commands that are refused, or do nothing                       *)
BadBuildPackets ==
    {Pkt(Gatt, 3, 0, <<1, 0, 2, 1>> \o Short)}

SettingPackets ==
    {Pkt(Gap, 6, 0, <<0>>), Pkt(Gap, 8, 0, <<1>>), Pkt(Gap, 8, 0, <<2>>),
     Pkt(Gap, 9, 0, <<1>>), Pkt(Gap, \h1c, 0, <<2>> \o Addr \o Addr), Pkt(Gap, 3, 0, <<>>)}

OddPackets ==
    {Pkt(Core, 2, NoController, <<>>), Pkt(L2cap, 1, NoController, <<>>),
     Pkt(9, 1, 0, <<>>), Pkt(Gatt, 7, 1, <<>>),
     Pkt(Gatt, 6, 0, <<0, 0, 9, 0, 1>>),
     [Pkt(Core, 1, NoController, <<>>) EXCEPT !.len = MaxData + 1]}

ServerPackets ==
    {Pkt(Gatt, 7, 0, <<>>), Pkt(Gatt, \h1c, 0, <<1, 0, 255, 255, 0>>),
     Pkt(Gatt, \h1d, 0, Addr \o <<3, 0>>), Pkt(Gatt, 6, 0, <<16, 0, 1, 0, 1>>),
     Pkt(Gatt, \h0c, 0, Addr \o Short),
     Pkt(Gatt, \h12, 0, Addr \o <<1, 0, 9, 0>> \o Short),
     Pkt(Gap, \h0a, 0, <<3, 0, 2, 1, 6, 0, 0, 0, 0, 0>>),
     Pkt(Gap, \h0b, 0, <<>>),
     Pkt(Gap, \h15, 0, Addr \o <<1, 0>>), Pkt(Gap, \h11, 0, Addr)}

MCPackets == BuildPackets \cup BadBuildPackets \cup SettingPackets \cup OddPackets \cup ServerPackets

MCEvents ==
    {AdvertisingStopped, Message("DeviceFound", <<3>>), Message("DeviceConnected", <<>>),
     Message("PairingFailed", <<>>), Message("NotificationReceived", <<2>>)}

MCLists == {<<>>, <<2, 16>>}
MCValues == {0, 5}
=============================================================================
