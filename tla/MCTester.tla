----------------------------- MODULE MCTester -----------------------------
(***************************************************************************)
(* Tester for TLC: a peer with two services, of which one has a            *)
(* characteristic with notifications, and commands that find and miss.     *)
(***************************************************************************)
EXTENDS Tester

Measurement == [value |-> 3, cccd |-> 4]
Control     == [value |-> 6, cccd |-> 0]

MCServices == <<[first |-> 1, last |-> 6, uuid |-> 1, chars |-> <<Measurement, Control>>],
                [first |-> 7, last |-> 8, uuid |-> 2, chars |-> <<>>]>>

Over(kind, first, last) == [Plain(kind) EXCEPT !.from = first, !.to = last]
On(kind, handle, on) == [Plain(kind) EXCEPT !.from = handle, !.on = on]

MCClientRequests ==
    {Plain("ExchangeMtu"), Over("DiscoverPrimaryUuid", 1, 0),
     Over("DiscoverChrcUuid", 1, 6), Over("ReadUuid", 1, 8), Over("ReadUuid", 1, 6),
     On("Read", 3, FALSE), On("Read", 5, FALSE), On("ReadLong", 6, TRUE), On("Write", 6, FALSE),
     On("WriteWithoutRsp", 6, FALSE), On("Cfg", 4, TRUE), On("Cfg", 4, FALSE)}
=============================================================================
