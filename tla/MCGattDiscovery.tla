--------------------------- MODULE MCGattDiscovery ----------------------------
(* An instance of GattDiscovery for TLC: tables that AttributeTable builds.  *)
EXTENDS GattDiscovery, GattTables

S(u, cs)       == [uuid |-> u, chars |-> cs]
C(u, b, n, ds) == [uuid |-> u, notify |-> b, len |-> n, descriptors |-> ds]

(* Narrow services with a wide one between them; one has a run of          *)
(* characteristics of both widths.                                         *)
Many == << S("n1", <<>>), S("n2", <<>>), S("n1", <<>>), S("w1", <<>>),
           S("n2", <<C("n1", TRUE, 0, <<>>), C("n2", FALSE, 1, <<>>), C("n1", TRUE, 1, <<"n2">>),
                     C("w1", TRUE, 1, <<"w1">>)>>) >>

(* More services than the client keeps, and more characteristics           *)
Crowd == [i \in 1 .. 5 |-> S("n1", <<>>)]
         \o <<S("n1", [i \in 1 .. 5 |-> C("n1", FALSE, 0, <<>>)])>>

(* Wide UUIDs, and values about the length of one response and of two      *)
Wide == << S("w1", <<C("w1", FALSE, 44, <<>>), C("n2", FALSE, 45, <<>>), C("w1", TRUE, 21, <<"n1">>)>>),
           S("w1", <<C("n2", TRUE, 43, <<"w1">>)>>) >>

(* A plain service whose last attribute is a value, as Device Information  *)
Plain == << S("n1", <<C("n1", FALSE, 23, <<>>), C("n2", FALSE, 66, <<>>)>>) >>

MCTables == {Built(l) : l \in {Many, Crowd, Wide, Plain}}
===============================================================================
