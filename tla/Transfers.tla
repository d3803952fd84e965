------------------------------- MODULE Transfers -------------------------------
(***************************************************************************)
(* The central's session API (apps/ble/central/src/lib.rs) against the     *)
(* firmware of Peripheral: the bulk calls and the monitor of the central's *)
(* main loop, each a sequence of ATT requests, with the link lost at any   *)
(* moment and found lost by either end first.                              *)
(*                                                                         *)
(* A request or an upload arrives at the firmware when it is written: the  *)
(* central does nothing else meanwhile that the firmware could see, and    *)
(* what is written when the link has gone is lost.  The operating system's *)
(* stack (bluest) answers an ATT timeout by closing the link.  The values  *)
(* of a bulk chunk are a function of its offset modulo PatternMod.         *)
(***************************************************************************)
EXTENDS Peripheral

CONSTANTS
    Totals,      \* totals the application asks to upload, stream and receive
    Polls,       \* reads of reset_bulk_stats, 30
    PatternMod,  \* period of fill_test_pattern, 256
    MaxCalls     \* bound: API calls in a behaviour

ASSUME TransfersAssumption ==
    /\ Totals \subseteq 1 .. CounterMod - 1
    /\ Polls \in Nat \ {0} /\ PatternMod \in Nat \ {0} /\ MaxCalls \in Nat

VARIABLES
    link,      \* the central's stack has the connection
    call,      \* the API call in progress
    pend,      \* its ATT request
    answer,    \* the stats the response to the last read carries, and uploads then
    chunks,    \* what the bulk notifications in out, and in held, carry
    inbox,     \* bulk notifications the stream has for receive_bulk_stream
    uploads,   \* ghost: bytes written and bytes dropped since the last reset taken
    calls,     \* ghost: calls so far
    result     \* history: how the last call ended

centralVars == <<link, call, pend, inbox, calls, result>>
wireVars    == <<answer, chunks, uploads>>
allVars     == <<vars, centralVars, wireVars>>

Ops == {"none", "reset", "upload", "start", "receive", "stats", "notify", "monitor"}

NoCall == [op |-> "none", pc |-> "none", n |-> 0, got |-> 0, left |-> 0]
Zero   == [rx |-> 0, tx |-> 0]
NoStats == [stats |-> Zero, sent |-> 0, lost |-> 0]

Read      == [op |-> "read"]
Control(c) == [op |-> "control", cmd |-> c]
Cccd(k, b) == [op |-> "cccd", char |-> k, on |-> b]
Upload(k)  == [op |-> "data", len |-> k]

(* monitor_session until its loop: device info, battery and status are     *)
(* read, an echo is written, the battery level subscribed to.              *)
MonitorRequests == <<Read, Read, [op |-> "echo", val |-> CHOOSE v \in EchoVals : TRUE],
                     Cccd("level", TRUE)>>

(* Every request the calls make.                                           *)
CallInputs ==
    {Read, Control(ResetStats), Cccd("bulk", TRUE), Cccd("bulk", FALSE), Cccd("level", TRUE)}
    \cup {[op |-> "echo", val |-> v] : v \in EchoVals}
    \cup {Control(StartStream(n)) : n \in Totals}
    \cup {Upload(k) : k \in 1 .. ChunkSize}

ASSUME InputsAssumption == CallInputs \subseteq Inputs /\ EchoVals # {}

TransfersInit ==
    /\ Init
    /\ link = FALSE /\ call = NoCall /\ pend = "none" /\ answer = NoStats
    /\ chunks = <<>> /\ inbox = <<>> /\ uploads = [sent |-> 0, lost |-> 0] /\ calls = 0
    /\ result = [op |-> "none", n |-> 0, ok |-> TRUE, stats |-> Zero, sent |-> 0, lost |-> 0]

-----------------------------------------------------------------------------
(* The firmware's steps, with what its PDUs carry.                         *)

(* The bytes of the uploads in a queue, each with the place of its upload. *)
ByteSet(q) ==
    {b \in (1 .. Len(q)) \X (1 .. ChunkSize) : q[b[1]].op = "data" /\ b[2] <= q[b[1]].len}
Bytes(q)   == Cardinality(ByteSet(q))

ResetAt(q) == {i \in 1 .. Len(q) : IsReset(q[i])}

FwOther ==
    /\ Advertising \/ Connected \/ SessionOver \/ SessionEvent \/ SessionReply
         \/ TaskUnblocked \/ StreamStart \/ StreamCount \/ StreamFinish
         \/ EchoNotify \/ EchoClear \/ EchoNothing \/ LevelNotify \/ TaskWake \/ RxOtherEvent
    /\ UNCHANGED <<centralVars, wireVars>>

FwAccept ==
    /\ SessionAccept \/ SessionAcceptFails
    /\ LET r == Head(gattq) IN
       /\ answer' = IF r = Read /\ PacketFree
                     THEN [stats |-> stats, sent |-> uploads.sent, lost |-> uploads.lost]
                     ELSE answer
       /\ uploads' = IF IsReset(r) THEN [sent |-> Bytes(Tail(gattq)), lost |-> 0] ELSE uploads
    /\ UNCHANGED <<centralVars, chunks>>

FwChunk ==
    /\ StreamChunk
    /\ chunks' = IF out' = out /\ held' = held THEN chunks
                 ELSE Append(chunks, [at |-> sent, len |-> ChunkLen])
    /\ UNCHANGED <<centralVars, answer, uploads>>

FwDrop ==
    /\ TxDrop
    /\ chunks' = IF Head(out) = "bulk" THEN Tail(chunks) ELSE chunks
    /\ UNCHANGED <<centralVars, answer, uploads>>

(* A PDU reaches the central if its stack still has the link; a bulk chunk *)
(* reaches receive_bulk_stream if its stream is there.                     *)
FwSend ==
    /\ TxSend
    /\ chunks' = IF Head(out) = "bulk" THEN Tail(chunks) ELSE chunks
    /\ pend' = IF Head(out) = "rsp" /\ link /\ pend = "sent" THEN "answered" ELSE pend
    /\ inbox' = IF Head(out) = "bulk" /\ link /\ call.op = "receive" /\ call.pc \in {"ack", "next"}
                THEN Append(inbox, Head(chunks)) ELSE inbox
    /\ UNCHANGED <<link, call, calls, result, answer, uploads>>

(* The firmware finds the link lost; uploads still in the queue go with it.*)
FwLinkLost ==
    /\ RxDisconnectionComplete
    /\ uploads' = [sent |-> rx, lost |-> 0]
    /\ UNCHANGED <<centralVars, answer, chunks>>

FwReset ==
    /\ SoftwareReset
    /\ chunks' = <<>> /\ uploads' = [sent |-> 0, lost |-> 0]
    /\ UNCHANGED <<centralVars, answer>>

-----------------------------------------------------------------------------
(* The central's stack.                                                    *)

Connect(p) ==
    /\ ~link /\ call = NoCall
    /\ RxConnectionComplete(p)
    /\ link' = TRUE /\ pend' = "none"
    /\ UNCHANGED <<call, inbox, calls, result, wireVars>>

(* The supervision timeout, or the peer's termination; or an ATT request   *)
(* that is not answered in time.                                           *)
LinkNoticed ==
    /\ link /\ link' = FALSE
    /\ slot = "Disconnected" \/ pend = "sent"
    /\ UNCHANGED <<vars, call, pend, inbox, calls, result, wireVars>>

Arrives(r) ==
    IF slot \in {"Connecting", "Connected"} THEN RxGatt(r) ELSE CpuFree /\ UNCHANGED vars

Ask(r) ==
    /\ link /\ pend = "none" /\ Arrives(r)
    /\ pend' = "sent"
    /\ UNCHANGED <<link, inbox, calls, result, wireVars>>

Answered == pend = "answered" /\ pend' = "none"

Step(c) == call' = c

Return(b) ==
    /\ call' = NoCall
    /\ result' = [op |-> call.op, n |-> call.n, ok |-> b,
                stats |-> answer.stats, sent |-> answer.sent, lost |-> answer.lost]

local == <<vars, link, wireVars>>      \* what a step inside the central leaves alone

(* Any call fails when its stack has lost the link; monitor_session, which *)
(* may only wait for a notification, ends with the stream or at the next   *)
(* poll instead.                                                           *)
Fails ==
    /\ ~link /\ call # NoCall /\ ~(call.op = "monitor" /\ call.pc = "wait")
    /\ Return(FALSE) /\ pend' = "none" /\ inbox' = <<>>
    /\ UNCHANGED <<local, calls>>

Begin(op, n) ==
    /\ link /\ call = NoCall /\ calls < MaxCalls
    /\ calls' = calls + 1
    /\ Step([op |-> op, pc |-> "write", n |-> n, got |-> 0, left |-> n])
    /\ UNCHANGED <<local, pend, inbox, result>>

-----------------------------------------------------------------------------
(* reset_bulk_stats, and the calls of one request.                         *)

ResetWrite ==
    /\ call.op = "reset" /\ call.pc = "write"
    /\ Ask(Control(ResetStats)) /\ Step([call EXCEPT !.pc = "ack"])

ResetAcked ==
    /\ call.op = "reset" /\ call.pc = "ack" /\ Answered
    /\ Step([call EXCEPT !.pc = "poll", !.left = Polls])
    /\ UNCHANGED <<local, inbox, calls, result>>

Poll ==
    /\ call.op = "reset" /\ call.pc = "poll"
    /\ Ask(Read) /\ Step([call EXCEPT !.pc = "read"])

\* Mutant: what is read is not looked at
PolledBlindly ==
    /\ call.op = "reset" /\ call.pc = "read" /\ Answered
    /\ Return(TRUE)
    /\ UNCHANGED <<local, inbox, calls>>

Polled ==
    /\ call.op = "reset" /\ call.pc = "read" /\ Answered
    /\ \/ /\ answer.stats = Zero /\ Return(TRUE)
       \/ /\ answer.stats # Zero /\ call.left = 1 /\ Return(FALSE)
       \/ /\ answer.stats # Zero /\ call.left > 1
          /\ Step([call EXCEPT !.pc = "poll", !.left = @ - 1]) /\ result' = result
    /\ UNCHANGED <<local, inbox, calls>>

(* read_bulk_stats, start_bulk_stream, and notifications of the battery:   *)
(* one request, and Ok with its answer.                                    *)
OneRequest == [stats |-> Read, start |-> Control(StartStream(call.n)), notify |-> Cccd("level", TRUE)]

RequestWrite ==
    /\ call.op \in DOMAIN OneRequest /\ call.pc = "write"
    /\ Ask(OneRequest[call.op]) /\ Step([call EXCEPT !.pc = "ack"])

RequestDone ==
    /\ call.op \in DOMAIN OneRequest /\ call.pc = "ack" /\ Answered /\ Return(TRUE)
    /\ UNCHANGED <<local, inbox, calls>>

-----------------------------------------------------------------------------
(* upload_test_pattern and receive_bulk_stream.                            *)

UploadLen == IF call.left < ChunkSize THEN call.left ELSE ChunkSize

UploadChunk ==
    /\ call.op = "upload" /\ call.left > 0 /\ link
    /\ LET k == UploadLen IN
       /\ Arrives(Upload(k))
       /\ Step([call EXCEPT !.left = @ - k])
       /\ uploads' = IF slot = "Disconnected" THEN uploads
                     ELSE [sent |-> uploads.sent + k,
                           lost |-> uploads.lost + IF gattq' = gattq THEN k ELSE 0]
    /\ UNCHANGED <<link, pend, inbox, calls, result, answer, chunks>>

UploadDone ==
    /\ call.op = "upload" /\ call.left = 0 /\ Return(TRUE)
    /\ UNCHANGED <<local, pend, inbox, calls>>

Subscribe ==
    /\ call.op = "receive" /\ call.pc = "write"
    /\ Ask(Cccd("bulk", TRUE)) /\ Step([call EXCEPT !.pc = "ack"])

Subscribed ==
    /\ call.op = "receive" /\ call.pc = "ack" /\ Answered
    /\ Step([call EXCEPT !.pc = "next"])
    /\ UNCHANGED <<local, inbox, calls, result>>

Fits(c) ==
    /\ c.len = (IF call.n - call.got < ChunkSize THEN call.n - call.got ELSE ChunkSize)
    /\ c.at % PatternMod = call.got % PatternMod

(* got stays at the end of what fitted; the stream is dropped either way.  *)
ReceiveChunk ==
    /\ call.op = "receive" /\ call.pc = "next" /\ call.got < call.n /\ inbox # <<>>
    /\ inbox' = Tail(inbox)
    /\ Step(IF Fits(Head(inbox)) THEN [call EXCEPT !.got = @ + Head(inbox).len]
                                 ELSE [call EXCEPT !.pc = "drop"])
    /\ UNCHANGED <<local, pend, calls, result>>

ReceiveEnds ==
    /\ call.op = "receive" /\ call.pc = "next" /\ (call.got >= call.n \/ inbox = <<>>)
    /\ Step([call EXCEPT !.pc = "drop"])
    /\ UNCHANGED <<local, pend, inbox, calls, result>>

(* The stack may or may not unsubscribe for the dropped stream.            *)
Unsubscribe ==
    /\ call.op = "receive" /\ call.pc = "drop"
    /\ Ask(Cccd("bulk", FALSE)) /\ Step([call EXCEPT !.pc = "off"])

ReceiveDone ==
    /\ call.op = "receive"
    /\ (call.pc = "drop" /\ pend' = pend) \/ (call.pc = "off" /\ Answered)
    /\ inbox' = <<>> /\ Return(call.got >= call.n)
    /\ UNCHANGED <<local, calls>>

-----------------------------------------------------------------------------
(* monitor_session.                                                        *)

MonitorAsk ==
    /\ call.op = "monitor" /\ call.pc = "write"
    /\ Ask(MonitorRequests[call.got + 1]) /\ Step([call EXCEPT !.pc = "ack"])

MonitorAnswered ==
    /\ call.op = "monitor" /\ call.pc \in {"ack", "read"} /\ Answered
    /\ Step(IF call.pc = "ack" /\ call.got + 1 < Len(MonitorRequests)
            THEN [call EXCEPT !.pc = "write", !.got = @ + 1] ELSE [call EXCEPT !.pc = "wait"])
    /\ UNCHANGED <<local, inbox, calls, result>>

(* With the link gone the stream of notifications may end or just stop.    *)
StreamOver ==
    /\ call.op = "monitor" /\ call.pc = "wait" /\ ~link
    /\ Return(FALSE)
    /\ UNCHANGED <<local, pend, inbox, calls>>

\* Mutant: the timer's branch reads only while the link is up
TimerOnlyLinked ==
    /\ call.op = "monitor" /\ call.pc = "wait"
    /\ Ask(Read) /\ Step([call EXCEPT !.pc = "read"])

(* sleep(PERIODIC_READ_INTERVAL) is over, no notification having come.     *)
Timer ==
    /\ call.op = "monitor" /\ call.pc = "wait"
    /\ \/ link /\ Ask(Read) /\ Step([call EXCEPT !.pc = "read"])
       \/ ~link /\ Return(FALSE) /\ UNCHANGED <<local, pend, inbox, calls>>

-----------------------------------------------------------------------------
Firmware == FwOther \/ FwAccept \/ FwChunk \/ FwDrop \/ FwSend

Api ==
    \/ Fails
    \/ ResetWrite \/ ResetAcked \/ Poll \/ Polled \/ RequestWrite \/ RequestDone
    \/ UploadChunk \/ UploadDone
    \/ Subscribe \/ Subscribed \/ ReceiveChunk \/ ReceiveEnds \/ Unsubscribe \/ ReceiveDone
    \/ MonitorAsk \/ MonitorAnswered \/ Timer

TransfersNext ==
    \/ Firmware \/ FwLinkLost \/ FwReset \/ LinkNoticed \/ Api \/ StreamOver
    \/ \E p \in Peers : Connect(p)
    \/ \E op \in {"reset", "stats", "notify", "monitor"} : Begin(op, 0)
    \/ \E op \in {"upload", "start", "receive"}, n \in Totals : Begin(op, n)

TransfersSpec == TransfersInit /\ [][TransfersNext]_allVars

(* The central's calls go on, its stack notices what is lost.  Nothing is  *)
(* assumed of the firmware, the radio, or of the notification stream.      *)
TransfersFairSpec == TransfersSpec /\ WF_allVars(Api) /\ WF_allVars(LinkNoticed)

-----------------------------------------------------------------------------
(* Safety: no upload is counted twice, and none is missed that the         *)
(* firmware has not dropped: RX_BYTES, the uploads in the queue and those  *)
(* dropped are together what the central wrote since the last reset.       *)
UploadsAccounted ==
    ResetAt(gattq) = {} /\ slot # "Disconnected" =>
        (rx + Bytes(gattq) + uploads.lost) % CounterMod = uploads.sent % CounterMod

(* Safety: the stats a read_bulk_stats returns show every upload written   *)
(* before it but those dropped: none is overtaken by the read.             *)
StatsTellUploads ==
    result.op = "stats" /\ result.ok =>
        result.stats.rx = (result.sent - result.lost) % CounterMod

(* Safety: reset_bulk_stats says Ok only if a reset of this connection has *)
(* been carried out and everything uploaded before it has been counted     *)
(* before it.                                                              *)
ResetIsClean ==
    result.op = "reset" /\ result.ok => result.stats = Zero /\ result.sent = result.lost

(* Liveness: a monitor whose link is lost returns to the main loop's scan, *)
(* whether or not the notification stream tells it.                        *)
MonitorNoticesLoss == (call.op = "monitor" /\ ~link) ~> (call.op # "monitor")
=============================================================================
