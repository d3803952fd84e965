----------------------------- MODULE MCPeripheral -----------------------------
(* Instances of Peripheral for TLC: the requests each run lets a central make. *)
EXTENDS Peripheral

Reset      == [op |-> "control", cmd |-> ResetStats]
Stream(n)  == [op |-> "control", cmd |-> StartStream(n)]
Echo(v)    == [op |-> "echo", val |-> v]
Cccd(c, b) == [op |-> "cccd", char |-> c, on |-> b]
Upload(n)  == [op |-> "data", len |-> n]

\* Two centrals: uploads, resets and a stream of a full and a short chunk, which only a
\* central that has not subscribed to it lets pass; subscriptions that one central makes,
\* and unmakes, before the other comes; packets in short supply.
PeerInputs == {Reset, Stream(3), Upload(1), Cccd("level", TRUE), Cccd("level", FALSE), Echo("a")}

\* Streams that pass and that fail, subscriptions that make the task block, and an upload.
RequestInputs == {Stream(1), Stream(2), Cccd("level", TRUE), Cccd("bulk", TRUE), Upload(1)}

\* A central that subscribes to the battery level and nothing else.
BatteryInputs == {Cccd("level", TRUE)}

=============================================================================
