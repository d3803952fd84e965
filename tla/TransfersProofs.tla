--------------------------- MODULE TransfersProofs ----------------------------
(***************************************************************************)
(* Proofs about Peripheral and about Transfers, for every value of their   *)
(* constants.  First the firmware alone: its types, its attribute server   *)
(* and its counters.  Then the central with it: what the central is told   *)
(* of its uploads is true, however often the link is lost and whoever      *)
(* notices it first.  Every step of Transfers is one of the firmware's or  *)
(* leaves it alone, so what is proved of the firmware holds there.         *)
(***************************************************************************)
EXTENDS Transfers, Integers, FiniteSetTheorems, TLAPS

(* TypeOK in three parts, one for each kind of reasoning.                  *)
LinkType ==
    /\ adv \in BOOLEAN /\ waiting \in BOOLEAN /\ status \in BOOLEAN
    /\ client \in [peer : Peers \cup {NoPeer}, connected : BOOLEAN]
QueueType ==
    /\ events \in Seq({"Disconnected", "Other"})
    /\ gattq \in Seq(Inputs)
    /\ out \in Seq(Kinds)
ScalarType ==
    /\ phase \in {"advertise", "accept", "session"}
    /\ slot \in {"Disconnected", "Connecting", "Connected"}
    /\ peer \in Peers \cup {NoPeer} /\ others \in 0 .. MaxOther
    /\ subs \subseteq Chars /\ asked \subseteq ((Peers \cup {NoPeer}) \X Chars)
    /\ control \in Commands /\ echo \in EchoVals \cup {NoEcho}
    /\ level \in {50} \cup 0 .. TickMod - 1 /\ tick \in 0 .. TickMod - 1
    /\ stats \in Stats /\ rx \in 0 .. CounterMod - 1 /\ tx \in 0 .. CounterMod - 1
    /\ spc \in {"off", "next", "reply", "done"}
    /\ cpc \in {"off", "top", "chunk", "count", "finish", "clear", "level", "sleep", "done"}
    /\ held \in (Kinds \ {"rsp"}) \cup {"none"}
    /\ data \in EchoVals \cup {NoEcho}
    /\ total \in 0 .. CounterMod - 1 /\ sent \in 0 .. CounterMod - 1

(* The strengthening the properties of connections rest on.                *)

\* The two session futures exist exactly while the lifecycle is in a session,
\* and custom_task waits for the channel only inside a notification.
TasksInSession ==
    /\ spc = "off" <=> phase # "session"
    /\ cpc = "off" <=> phase # "session"
    /\ held # "none" => cpc \in {"count", "clear", "sleep"}

\* Where a link may be, and that nothing of an earlier one is left by then.
LinkInPhase ==
    /\ adv => phase = "accept" /\ slot = "Disconnected"
    /\ phase = "accept" => out = <<>>
    /\ slot = "Connecting" => phase = "accept" /\ events = <<>>
    /\ slot = "Connected" => phase = "session" /\ spc # "done"
    /\ slot # "Disconnected" => peer # NoPeer
    /\ slot # "Disconnected" => \A i \in 1 .. Len(events) : events[i] # "Disconnected"
    /\ slot # "Connected" => gattq = <<>>
    /\ slot = "Disconnected" => ~waiting

\* Whose the entry of the CCCD table is.
TableOfPeer ==
    /\ client.connected => phase = "session"
    /\ phase = "session" => client.peer = peer /\ peer # NoPeer
    /\ client.peer = NoPeer => subs = {}
    /\ \A c \in subs : <<client.peer, c>> \in asked

Coupling == TasksInSession /\ LinkInPhase /\ TableOfPeer /\ NotifiesWhoAsked

(* The three parts make TypeOK, before and after a step.                   *)
LEMMA TypeParts ==
    /\ TypeOK <=> LinkType /\ QueueType /\ ScalarType
    /\ TypeOK' <=> LinkType' /\ QueueType' /\ ScalarType'
BY DEF TypeOK, LinkType, QueueType, ScalarType

(* Reduction modulo a positive number.                                     *)
LEMMA ModFacts ==
    ASSUME NEW a \in Nat, NEW m \in Nat \ {0}
    PROVE  /\ a % m \in 0 .. m - 1
           /\ a < m => a % m = a
BY SMT

(* What a request may hold.                                                *)
LEMMA InputFacts ==
    ASSUME NEW r \in Inputs
    PROVE  /\ r.op \in {"control", "echo", "status", "cccd", "read", "data"}
           /\ r.op = "control" => r.cmd \in Commands
           /\ r.op = "echo" => r.val \in EchoVals \cup {NoEcho}
           /\ r.op = "status" => r.val \in BOOLEAN
           /\ r.op = "cccd" => r.char \in Chars /\ r.on \in BOOLEAN
           /\ r.op = "data" => r.len \in 1 .. ChunkSize
BY ValueAssumption DEF AllInputs

(* What a control command may hold.                                        *)
LEMMA CommandFacts ==
    /\ Idle \in Commands
    /\ \A c \in Commands : c.total \in 0 .. CounterMod - 1
BY SizeAssumption DEF Commands, Idle, ResetStats, StartStream

-----------------------------------------------------------------------------
(* The types, action by action.                                            *)
LEMMA TypeInit == Init => TypeOK
<1> SUFFICES ASSUME Init PROVE TypeOK
  OBVIOUS
<1>1. LinkType
  BY DEF Init, LinkType
<1>2. QueueType
  BY DEF Init, QueueType
<1>3. ScalarType
  BY SizeAssumption, CommandFacts DEF Init, ScalarType, Stats, Kinds, Chars
<1>4. QED
  BY <1>1, <1>2, <1>3, TypeParts

(* The lifecycle loop keeps the types.                                     *)
LEMMA TypeLifecycle == TypeOK /\ (Lifecycle \/ SoftwareReset) => TypeOK'
<1> SUFFICES ASSUME LinkType, QueueType, ScalarType, Lifecycle \/ SoftwareReset
             PROVE  TypeOK'
  BY TypeParts
<1> USE DEF lifeVars, linkVars, cccdVars, attrVars, countVars, taskVars
<1>1. CASE Advertising
  <2>1. LinkType'
    BY <1>1 DEF Advertising, LinkType
  <2>2. QueueType'
    BY <1>1 DEF Advertising, QueueType
  <2>3. ScalarType'
    BY <1>1 DEF Advertising, ScalarType
  <2>4. QED
    BY <2>1, <2>2, <2>3, TypeParts
<1>2. CASE Connected
  <2>1. LinkType'
    BY <1>2 DEF Connected, ScalarType, LinkType
  <2>2. QueueType'
    BY <1>2 DEF Connected, QueueType
  <2>3. ScalarType'
    BY <1>2, SizeAssumption DEF Connected, ScalarType
  <2>4. QED
    BY <2>1, <2>2, <2>3, TypeParts
<1>3. CASE SessionOver
  <2>1. LinkType'
    BY <1>3 DEF SessionOver, LinkType
  <2>2. QueueType'
    BY <1>3 DEF SessionOver, QueueType
  <2>3. ScalarType'
    BY <1>3 DEF SessionOver, ScalarType
  <2>4. QED
    BY <2>1, <2>2, <2>3, TypeParts
<1>4. CASE SoftwareReset
  <2>1. LinkType'
    BY <1>4 DEF SoftwareReset, LinkType
  <2>2. QueueType'
    BY <1>4 DEF SoftwareReset, QueueType
  <2>3. ScalarType'
    BY <1>4, SizeAssumption, CommandFacts DEF SoftwareReset, Stats, Kinds, Chars, ScalarType
  <2>4. QED
    BY <2>1, <2>2, <2>3, TypeParts
<1>5. QED
  BY <1>1, <1>2, <1>3, <1>4 DEF Lifecycle

(* The RX and TX runners keep the types.                                   *)
LEMMA TypeRadio == TypeOK /\ (Radio \/ TxRunner) => TypeOK'
<1> SUFFICES ASSUME LinkType, QueueType, ScalarType, Radio \/ TxRunner PROVE TypeOK'
  BY TypeParts
<1> USE DEF lifeVars, linkVars, cccdVars, attrVars, countVars, taskVars
<1>1. ASSUME NEW p \in Peers, RxConnectionComplete(p) PROVE TypeOK'
  <2>1. LinkType'
    BY <1>1 DEF RxConnectionComplete, LinkType
  <2>2. QueueType'
    BY <1>1 DEF RxConnectionComplete, QueueType
  <2>3. ScalarType'
    BY <1>1, SizeAssumption DEF RxConnectionComplete, ScalarType
  <2>4. QED
    BY <2>1, <2>2, <2>3, TypeParts
<1>2. CASE RxDisconnectionComplete
  <2>1. LinkType'
    BY <1>2 DEF RxDisconnectionComplete, LinkType
  <2>2. QueueType'
    BY <1>2 DEF RxDisconnectionComplete, QueueType
  <2>3. ScalarType'
    BY <1>2 DEF RxDisconnectionComplete, ScalarType
  <2>4. QED
    BY <2>1, <2>2, <2>3, TypeParts
<1>3. CASE RxOtherEvent
  <2>1. LinkType'
    BY <1>3 DEF RxOtherEvent, LinkType
  <2>2. QueueType'
    BY <1>3 DEF RxOtherEvent, QueueType
  <2>3. ScalarType'
    BY <1>3, SizeAssumption DEF RxOtherEvent, ScalarType
  <2>4. QED
    BY <2>1, <2>2, <2>3, TypeParts
<1>4. ASSUME NEW r \in Inputs, RxGatt(r) PROVE TypeOK'
  <2>1. LinkType'
    BY <1>4 DEF RxGatt, LinkType
  <2>2. QueueType'
    BY <1>4 DEF RxGatt, QueueType
  <2>3. ScalarType'
    BY <1>4 DEF RxGatt, ScalarType
  <2>4. QED
    BY <2>1, <2>2, <2>3, TypeParts
<1>5. CASE TxSend
  <2>1. LinkType'
    BY <1>5 DEF TxSend, LinkType
  <2>2. QueueType'
    BY <1>5 DEF TxSend, QueueType
  <2>3. ScalarType'
    BY <1>5 DEF TxSend, ScalarType
  <2>4. QED
    BY <2>1, <2>2, <2>3, TypeParts
<1>6. CASE TxDrop
  <2>1. LinkType'
    BY <1>6 DEF TxDrop, LinkType
  <2>2. QueueType'
    BY <1>6 DEF TxDrop, QueueType
  <2>3. ScalarType'
    BY <1>6 DEF TxDrop, ScalarType
  <2>4. QED
    BY <2>1, <2>2, <2>3, TypeParts
<1>7. QED
  BY <1>1, <1>2, <1>3, <1>4, <1>5, <1>6 DEF Radio, TxRunner

(* The counters and the stats value after a GATT event of the product.     *)
LEMMA TypeHandle ==
    ASSUME NEW r \in Inputs, LinkType, QueueType, ScalarType, HandleGattEvent(r)
    PROVE  rx' \in 0 .. CounterMod - 1 /\ tx' \in 0 .. CounterMod - 1 /\ stats' \in Stats
<1>1. RxAfter(r) \in 0 .. CounterMod - 1
  <2>1. CASE IsReset(r)
    BY <2>1, SizeAssumption DEF RxAfter
  <2>2. CASE ~IsReset(r) /\ r.op = "data"
    <3>1. rx + r.len \in Nat
      BY <2>2, InputFacts, SizeAssumption DEF ScalarType
    <3>2. QED
      BY <2>2, <3>1, ModFacts, SizeAssumption DEF RxAfter
  <2>3. CASE ~IsReset(r) /\ r.op # "data"
    BY <2>3 DEF RxAfter, ScalarType
  <2>4. QED
    BY <2>1, <2>2, <2>3
<1>2. TxAfter(r) \in 0 .. CounterMod - 1
  BY SizeAssumption DEF TxAfter, ScalarType
<1>3. QED
  BY <1>1, <1>2 DEF HandleGattEvent, Stats, ScalarType

(* The values and subscriptions the attribute server stores.               *)
LEMMA TypeStore ==
    ASSUME NEW r \in Inputs, LinkType, QueueType, ScalarType, Store(r)
    PROVE  /\ control' \in Commands /\ echo' \in EchoVals \cup {NoEcho} /\ status' \in BOOLEAN
           /\ subs' \subseteq Chars /\ asked' \subseteq ((Peers \cup {NoPeer}) \X Chars)
<1>1. control' \in Commands /\ echo' \in EchoVals \cup {NoEcho}
  BY InputFacts DEF Store, ScalarType
<1>2. status' \in BOOLEAN
  BY InputFacts DEF Store, LinkType
<1>3. subs' \subseteq Chars /\ asked' \subseteq ((Peers \cup {NoPeer}) \X Chars)
  BY InputFacts DEF Store, ScalarType
<1>4. QED
  BY <1>1, <1>2, <1>3

(* The GATT session keeps the types.                                       *)
LEMMA TypeSession == TypeOK /\ Session => TypeOK'
<1> SUFFICES ASSUME LinkType, QueueType, ScalarType, Session PROVE TypeOK'
  BY TypeParts
<1> USE DEF lifeVars, linkVars, cccdVars, attrVars, countVars, taskVars
<1>1. CASE SessionEvent
  <2>1. LinkType'
    BY <1>1 DEF SessionEvent, LinkType
  <2>2. QueueType'
    BY <1>1 DEF SessionEvent, QueueType
  <2>3. ScalarType'
    BY <1>1 DEF SessionEvent, ScalarType
  <2>4. QED
    BY <2>1, <2>2, <2>3, TypeParts
<1>2. CASE SessionAccept
  <2> DEFINE r == Head(gattq)
  <2>1. r \in Inputs
    BY <1>2 DEF SessionAccept, QueueType
  <2>2. HandleGattEvent(r) /\ Store(r)
    BY <1>2 DEF SessionAccept
  <2>3. LinkType'
    BY <1>2, <2>1, <2>2, TypeStore DEF SessionAccept, LinkType
  <2>4. QueueType'
    BY <1>2 DEF SessionAccept, QueueType, Kinds
  <2>5. ScalarType'
    BY <1>2, <2>1, <2>2, TypeStore, TypeHandle DEF SessionAccept, ScalarType
  <2>6. QED
    BY <2>3, <2>4, <2>5, TypeParts
<1>3. CASE SessionAcceptFails
  <2> DEFINE r == Head(gattq)
  <2>1. r \in Inputs /\ HandleGattEvent(r)
    BY <1>3 DEF SessionAcceptFails, QueueType
  <2>2. LinkType'
    BY <1>3 DEF SessionAcceptFails, LinkType
  <2>3. QueueType'
    BY <1>3 DEF SessionAcceptFails, QueueType
  <2>4. ScalarType'
    BY <1>3, <2>1, TypeHandle DEF SessionAcceptFails, ScalarType
  <2>5. QED
    BY <2>2, <2>3, <2>4, TypeParts
<1>4. CASE SessionReply
  <2>1. LinkType'
    BY <1>4 DEF SessionReply, LinkType
  <2>2. QueueType'
    BY <1>4 DEF SessionReply, Kinds, QueueType
  <2>3. ScalarType'
    BY <1>4 DEF SessionReply, ScalarType
  <2>4. QED
    BY <2>1, <2>2, <2>3, TypeParts
<1>5. QED
  BY <1>1, <1>2, <1>3, <1>4 DEF Session

(* The three outcomes of a notification.                                  *)
LEMMA TypeNotify ==
    ASSUME NEW k \in Kinds \ {"rsp"}, NEW fits, NEW ok, NEW err, QueueType, ScalarType,
           Notify(k, fits, ok, err)
    PROVE  /\ out' \in Seq(Kinds) /\ held' \in (Kinds \ {"rsp"}) \cup {"none"}
           /\ cpc' \in {ok, err}
<1>1. out' = out \/ out' = Append(out, k)
  BY DEF Notify
<1>2. held' \in (Kinds \ {"rsp"}) \cup {"none"}
  BY DEF Notify, ScalarType
<1>3. cpc' \in {ok, err}
  BY DEF Notify
<1>4. out' \in Seq(Kinds)
  BY <1>1 DEF QueueType
<1>5. QED
  BY <1>2, <1>3, <1>4

(* A chunk never runs past the total of its stream.                        *)
LEMMA ChunkFacts ==
    ASSUME ScalarType, sent <= total
    PROVE  /\ ChunkLen \in Nat /\ sent + ChunkLen <= total
           /\ sent + ChunkLen \in 0 .. CounterMod - 1
BY SizeAssumption DEF ScalarType, ChunkLen

(* custom_task keeps the types, given that a stream stays in its total:    *)
(* TypeOK is not inductive alone.                                          *)
LEMMA TypeTask == TypeOK /\ TxWithinStream /\ CustomTask => TypeOK'
<1> SUFFICES ASSUME LinkType, QueueType, ScalarType, TxWithinStream, CustomTask PROVE TypeOK'
  BY TypeParts
<1> USE DEF lifeVars, linkVars, cccdVars, attrVars, countVars, taskVars
<1>1. CASE TaskUnblocked
  <2>1. LinkType'
    BY <1>1 DEF TaskUnblocked, LinkType
  <2>2. QueueType'
    BY <1>1 DEF TaskUnblocked, Kinds, QueueType, ScalarType
  <2>3. ScalarType'
    BY <1>1 DEF TaskUnblocked, ScalarType
  <2>4. QED
    BY <2>1, <2>2, <2>3, TypeParts
<1>2. CASE StreamStart
  <2>1. LinkType'
    BY <1>2 DEF StreamStart, LinkType
  <2>2. QueueType'
    BY <1>2 DEF StreamStart, QueueType
  <2>3. ScalarType'
    BY <1>2, CommandFacts, SizeAssumption DEF StreamStart, Stats, ScalarType
  <2>4. QED
    BY <2>1, <2>2, <2>3, TypeParts
<1>3. CASE StreamChunk
  <2>1. LinkType'
    BY <1>3 DEF StreamChunk, LinkType
  <2>2. QueueType'
    BY <1>3, TypeNotify DEF StreamChunk, Kinds, QueueType
  <2>3. ScalarType'
    BY <1>3, TypeNotify DEF StreamChunk, Kinds, ScalarType
  <2>4. QED
    BY <2>1, <2>2, <2>3, TypeParts
<1>4. CASE StreamCount
  <2>1. LinkType'
    BY <1>4 DEF StreamCount, LinkType
  <2>2. QueueType'
    BY <1>4 DEF StreamCount, QueueType
  <2>3. tx' \in 0 .. CounterMod - 1
    <3>1. ChunkLen \in Nat /\ tx + ChunkLen \in Nat
      BY ChunkFacts DEF TxWithinStream, ScalarType
    <3>2. QED
      BY <1>4, <3>1, ModFacts, SizeAssumption DEF StreamCount
  <2>4. sent' \in 0 .. CounterMod - 1
    BY <1>4, ChunkFacts DEF StreamCount, TxWithinStream
  <2>5. stats' \in Stats
    BY <1>4, <2>3 DEF StreamCount, Stats, ScalarType
  <2>6. ScalarType'
    BY <1>4, <2>3, <2>4, <2>5 DEF StreamCount, ScalarType
  <2>7. QED
    BY <2>1, <2>2, <2>6, TypeParts
<1>5. CASE StreamFinish
  <2>1. LinkType'
    BY <1>5 DEF StreamFinish, LinkType
  <2>2. QueueType'
    BY <1>5 DEF StreamFinish, QueueType
  <2>3. ScalarType'
    BY <1>5, CommandFacts DEF StreamFinish, ScalarType
  <2>4. QED
    BY <2>1, <2>2, <2>3, TypeParts
<1>6. CASE EchoNotify
  <2>1. LinkType'
    BY <1>6 DEF EchoNotify, LinkType
  <2>2. QueueType'
    BY <1>6, TypeNotify DEF EchoNotify, Kinds, QueueType
  <2>3. ScalarType'
    BY <1>6, TypeNotify DEF EchoNotify, Kinds, ScalarType
  <2>4. QED
    BY <2>1, <2>2, <2>3, TypeParts
<1>7. CASE EchoClear
  <2>1. LinkType'
    BY <1>7 DEF EchoClear, LinkType
  <2>2. QueueType'
    BY <1>7 DEF EchoClear, QueueType
  <2>3. ScalarType'
    BY <1>7 DEF EchoClear, ScalarType
  <2>4. QED
    BY <2>1, <2>2, <2>3, TypeParts
<1>8. CASE EchoNothing
  <2>1. LinkType'
    BY <1>8 DEF EchoNothing, LinkType
  <2>2. QueueType'
    BY <1>8 DEF EchoNothing, QueueType
  <2>3. ScalarType'
    BY <1>8 DEF EchoNothing, ScalarType
  <2>4. QED
    BY <2>1, <2>2, <2>3, TypeParts
<1>9. CASE LevelNotify
  <2>1. LinkType'
    BY <1>9 DEF LevelNotify, LinkType
  <2>2. QueueType'
    BY <1>9, TypeNotify DEF LevelNotify, Kinds, QueueType
  <2>3. ScalarType'
    <3>1. "level" \in Kinds \ {"rsp"} /\ Notify("level", TRUE, "sleep", "done")
      BY <1>9 DEF LevelNotify, Kinds
    <3>2. held' \in (Kinds \ {"rsp"}) \cup {"none"} /\ cpc' \in {"sleep", "done"}
      BY <3>1, TypeNotify
    <3>3. tick' \in 0 .. TickMod - 1 /\ level' = tick'
      BY <1>9, ModFacts, SizeAssumption DEF LevelNotify, ScalarType
    <3>4. QED
      BY <1>9, <3>2, <3>3 DEF LevelNotify, ScalarType
  <2>4. QED
    BY <2>1, <2>2, <2>3, TypeParts
<1>10. CASE TaskWake
  <2>1. LinkType'
    BY <1>10 DEF TaskWake, LinkType
  <2>2. QueueType'
    BY <1>10 DEF TaskWake, QueueType
  <2>3. ScalarType'
    BY <1>10 DEF TaskWake, ScalarType
  <2>4. QED
    BY <2>1, <2>2, <2>3, TypeParts
<1>11. QED
  BY <1>1, <1>2, <1>3, <1>4, <1>5, <1>6, <1>7, <1>8, <1>9, <1>10 DEF CustomTask

-----------------------------------------------------------------------------
(* The counters of a stream.                                               *)
LEMMA StreamStep == TypeOK /\ TxWithinStream /\ [Next]_vars => TxWithinStream'
<1> SUFFICES ASSUME LinkType, QueueType, ScalarType, TxWithinStream, [Next]_vars
             PROVE  TxWithinStream'
  BY TypeParts
<1> USE DEF TxWithinStream, lifeVars, linkVars, cccdVars, attrVars, countVars, taskVars
<1>1. CASE Lifecycle \/ TxRunner \/ Radio
  BY <1>1 DEF Lifecycle, Advertising, Connected, SessionOver, TxRunner, TxSend, TxDrop,
              Radio, RxConnectionComplete, RxDisconnectionComplete, RxOtherEvent, RxGatt
<1>2. CASE SoftwareReset
  BY <1>2 DEF SoftwareReset
<1>3. CASE Session
  <2>1. ASSUME NEW r, HandleGattEvent(r), UNCHANGED taskVars PROVE TxWithinStream'
    BY <2>1 DEF HandleGattEvent, TxAfter, ScalarType
  <2>2. QED
    BY <1>3, <2>1 DEF Session, SessionEvent, SessionAccept, SessionAcceptFails, SessionReply
<1>4. CASE StreamStart
  BY <1>4, CommandFacts DEF StreamStart, ScalarType
<1>5. CASE StreamCount
  <2>1. /\ ChunkLen \in Nat /\ sent + ChunkLen <= total
        /\ tx + ChunkLen <= sent + ChunkLen /\ tx + ChunkLen < CounterMod /\ tx + ChunkLen \in Nat
    BY ChunkFacts, SizeAssumption DEF ScalarType
  <2>2. (tx + ChunkLen) % CounterMod = tx + ChunkLen
    BY <2>1, ModFacts, SizeAssumption
  <2>3. QED
    BY <1>5, <2>1, <2>2 DEF StreamCount, ScalarType
<1>6. CASE TaskUnblocked \/ StreamChunk \/ StreamFinish \/ EchoNotify \/ EchoClear
           \/ EchoNothing \/ LevelNotify \/ TaskWake
  BY <1>6 DEF TaskUnblocked, StreamChunk, StreamFinish, EchoNotify, EchoClear, EchoNothing,
              LevelNotify, TaskWake
<1>7. CASE UNCHANGED vars
  BY <1>7 DEF vars
<1>8. QED
  BY <1>1, <1>2, <1>3, <1>4, <1>5, <1>6, <1>7 DEF Next, CustomTask

(* Every step keeps the types.                                             *)
LEMMA TypeStep == TypeOK /\ TxWithinStream /\ [Next]_vars => TypeOK'
<1>1. ASSUME TypeOK, UNCHANGED vars PROVE TypeOK'
  BY <1>1 DEF TypeOK, vars, lifeVars, linkVars, cccdVars, attrVars, countVars, taskVars
<1>2. QED
  BY <1>1, TypeLifecycle, TypeRadio, TypeSession, TypeTask DEF Next

(* The stats value changes with the counters.                              *)
StatsMatch == stats = [rx |-> rx, tx |-> tx]

(* Every step changes the stats value with the counters or neither.        *)
LEMMA StatsStep == StatsMatch /\ [Next]_vars => StatsMatch'
<1> SUFFICES ASSUME StatsMatch, [Next]_vars PROVE StatsMatch'
  OBVIOUS
<1> USE DEF StatsMatch, lifeVars, linkVars, cccdVars, attrVars, countVars, taskVars
<1>1. CASE Lifecycle \/ SoftwareReset \/ TxRunner \/ Radio
  BY <1>1 DEF Lifecycle, Advertising, Connected, SessionOver, SoftwareReset, TxRunner, TxSend,
              TxDrop, Radio, RxConnectionComplete, RxDisconnectionComplete, RxOtherEvent, RxGatt
<1>2. CASE Session
  <2>1. ASSUME NEW r, HandleGattEvent(r) PROVE StatsMatch'
    BY <2>1 DEF HandleGattEvent, RxAfter, TxAfter
  <2>2. QED
    BY <1>2, <2>1 DEF Session, SessionEvent, SessionAccept, SessionAcceptFails, SessionReply
<1>3. CASE CustomTask
  BY <1>3 DEF CustomTask, TaskUnblocked, StreamStart, StreamChunk, StreamCount, StreamFinish,
              EchoNotify, EchoClear, EchoNothing, LevelNotify, TaskWake
<1>4. CASE UNCHANGED vars
  BY <1>4 DEF vars
<1>5. QED
  BY <1>1, <1>2, <1>3, <1>4 DEF Next

-----------------------------------------------------------------------------
(* Coupling, action by action: the lifecycle loop.                         *)
LEMMA CouplingLifecycle == TypeOK /\ Coupling /\ (Lifecycle \/ SoftwareReset) => Coupling'
<1> SUFFICES ASSUME LinkType, QueueType, ScalarType, TasksInSession, LinkInPhase, TableOfPeer,
                    NotifiesWhoAsked, Lifecycle \/ SoftwareReset
             PROVE  Coupling'
  BY TypeParts DEF Coupling
<1> USE DEF lifeVars, linkVars, cccdVars, attrVars, countVars, taskVars
<1>1. CASE Advertising
  <2>1. TasksInSession'
    BY <1>1 DEF Advertising, TasksInSession
  <2>2. LinkInPhase'
    BY <1>1 DEF Advertising, LinkInPhase, TasksInSession, ScalarType
  <2>3. TableOfPeer'
    BY <1>1 DEF Advertising, TableOfPeer
  <2>4. NotifiesWhoAsked'
    BY <1>1 DEF Advertising, NotifiesWhoAsked
  <2>5. QED
    BY <2>1, <2>2, <2>3, <2>4 DEF Coupling
<1>2. CASE Connected
  <2>1. TasksInSession'
    BY <1>2 DEF Connected, TasksInSession, LinkInPhase
  <2>2. LinkInPhase'
    BY <1>2 DEF Connected, LinkInPhase, TasksInSession
  <2>3. TableOfPeer'
    BY <1>2 DEF Connected, TableOfPeer, LinkInPhase, KeepsSubscriptions
  <2>4. NotifiesWhoAsked'
    BY <1>2 DEF Connected, NotifiesWhoAsked, TasksInSession, LinkInPhase
  <2>5. QED
    BY <2>1, <2>2, <2>3, <2>4 DEF Coupling
<1>3. CASE SessionOver
  <2>1. TasksInSession'
    BY <1>3 DEF SessionOver, TasksInSession
  <2>2. LinkInPhase'
    BY <1>3 DEF SessionOver, LinkInPhase, TasksInSession
  <2>3. TableOfPeer'
    BY <1>3 DEF SessionOver, TableOfPeer, LinkType
  <2>4. NotifiesWhoAsked'
    BY <1>3 DEF SessionOver, NotifiesWhoAsked
  <2>5. QED
    BY <2>1, <2>2, <2>3, <2>4 DEF Coupling
<1>4. CASE SoftwareReset
  <2>1. TasksInSession'
    BY <1>4 DEF SoftwareReset, TasksInSession
  <2>2. LinkInPhase'
    BY <1>4 DEF SoftwareReset, LinkInPhase
  <2>3. TableOfPeer'
    BY <1>4 DEF SoftwareReset, TableOfPeer
  <2>4. NotifiesWhoAsked'
    BY <1>4 DEF SoftwareReset, NotifiesWhoAsked
  <2>5. QED
    BY <2>1, <2>2, <2>3, <2>4 DEF Coupling
<1>5. QED
  BY <1>1, <1>2, <1>3, <1>4 DEF Lifecycle

(* Coupling under the RX and TX runners.                                   *)
LEMMA CouplingRadio == TypeOK /\ Coupling /\ (Radio \/ TxRunner) => Coupling'
<1> SUFFICES ASSUME LinkType, QueueType, ScalarType, TasksInSession, LinkInPhase, TableOfPeer,
                    NotifiesWhoAsked, Radio \/ TxRunner
             PROVE  Coupling'
  BY TypeParts DEF Coupling
<1> USE DEF lifeVars, linkVars, cccdVars, attrVars, countVars, taskVars
<1>1. ASSUME NEW p \in Peers, RxConnectionComplete(p) PROVE Coupling'
  <2>1. TasksInSession'
    BY <1>1 DEF RxConnectionComplete, TasksInSession
  <2>2. LinkInPhase'
    BY <1>1, ValueAssumption DEF RxConnectionComplete, LinkInPhase, TasksInSession
  <2>3. TableOfPeer'
    BY <1>1 DEF RxConnectionComplete, TableOfPeer, LinkInPhase
  <2>4. NotifiesWhoAsked'
    BY <1>1 DEF RxConnectionComplete, NotifiesWhoAsked, LinkInPhase, TasksInSession
  <2>5. QED
    BY <2>1, <2>2, <2>3, <2>4 DEF Coupling
<1>2. CASE RxDisconnectionComplete
  <2>1. TasksInSession'
    BY <1>2 DEF RxDisconnectionComplete, TasksInSession
  <2>2. LinkInPhase'
    BY <1>2 DEF RxDisconnectionComplete, LinkInPhase
  <2>3. TableOfPeer'
    BY <1>2 DEF RxDisconnectionComplete, TableOfPeer
  <2>4. NotifiesWhoAsked'
    BY <1>2 DEF RxDisconnectionComplete, NotifiesWhoAsked
  <2>5. QED
    BY <2>1, <2>2, <2>3, <2>4 DEF Coupling
<1>3. CASE RxOtherEvent
  <2>1. TasksInSession'
    BY <1>3 DEF RxOtherEvent, TasksInSession
  <2>2. LinkInPhase'
    BY <1>3 DEF RxOtherEvent, LinkInPhase, QueueType
  <2>3. TableOfPeer'
    BY <1>3 DEF RxOtherEvent, TableOfPeer
  <2>4. NotifiesWhoAsked'
    BY <1>3 DEF RxOtherEvent, NotifiesWhoAsked
  <2>5. QED
    BY <2>1, <2>2, <2>3, <2>4 DEF Coupling
<1>4. ASSUME NEW r \in Inputs, RxGatt(r) PROVE Coupling'
  <2>1. TasksInSession'
    BY <1>4 DEF RxGatt, TasksInSession
  <2>2. LinkInPhase'
    BY <1>4 DEF RxGatt, LinkInPhase
  <2>3. TableOfPeer'
    BY <1>4 DEF RxGatt, TableOfPeer
  <2>4. NotifiesWhoAsked'
    BY <1>4 DEF RxGatt, NotifiesWhoAsked
  <2>5. QED
    BY <2>1, <2>2, <2>3, <2>4 DEF Coupling
<1>5. CASE TxSend
  <2>1. TasksInSession'
    BY <1>5 DEF TxSend, TasksInSession
  <2>2. LinkInPhase'
    BY <1>5 DEF TxSend, LinkInPhase, QueueType
  <2>3. TableOfPeer'
    BY <1>5 DEF TxSend, TableOfPeer
  <2>4. NotifiesWhoAsked'
    BY <1>5 DEF TxSend, NotifiesWhoAsked, QueueType
  <2>5. QED
    BY <2>1, <2>2, <2>3, <2>4 DEF Coupling
<1>6. CASE TxDrop
  <2>1. TasksInSession'
    BY <1>6 DEF TxDrop, TasksInSession
  <2>2. LinkInPhase'
    BY <1>6 DEF TxDrop, LinkInPhase, QueueType
  <2>3. TableOfPeer'
    BY <1>6 DEF TxDrop, TableOfPeer
  <2>4. NotifiesWhoAsked'
    BY <1>6 DEF TxDrop, NotifiesWhoAsked, QueueType
  <2>5. QED
    BY <2>1, <2>2, <2>3, <2>4 DEF Coupling
<1>7. QED
  BY <1>1, <1>2, <1>3, <1>4, <1>5, <1>6 DEF Radio, TxRunner

(* Coupling under the GATT session.                                        *)
LEMMA CouplingSession == TypeOK /\ Coupling /\ (Session) => Coupling'
<1> SUFFICES ASSUME LinkType, QueueType, ScalarType, TasksInSession, LinkInPhase, TableOfPeer,
                    NotifiesWhoAsked, Session
             PROVE  Coupling'
  BY TypeParts DEF Coupling
<1> USE DEF lifeVars, linkVars, cccdVars, attrVars, countVars, taskVars
<1>1. CASE SessionEvent
  <2>1. TasksInSession'
    BY <1>1 DEF SessionEvent, TasksInSession
  <2>2. LinkInPhase'
    BY <1>1 DEF SessionEvent, LinkInPhase, TasksInSession, QueueType
  <2>3. TableOfPeer'
    BY <1>1 DEF SessionEvent, TableOfPeer
  <2>4. NotifiesWhoAsked'
    BY <1>1 DEF SessionEvent, NotifiesWhoAsked
  <2>5. QED
    BY <2>1, <2>2, <2>3, <2>4 DEF Coupling
<1>2. CASE SessionAccept
  <2>1. TasksInSession'
    BY <1>2 DEF SessionAccept, TasksInSession
  <2>2. LinkInPhase'
    BY <1>2 DEF SessionAccept, LinkInPhase, TasksInSession
  <2>3. TableOfPeer'
    BY <1>2, InputFacts DEF SessionAccept, TableOfPeer, TasksInSession, Store
  <2>4. NotifiesWhoAsked'
    BY <1>2 DEF SessionAccept, NotifiesWhoAsked, Store, QueueType, Kinds
  <2>5. QED
    BY <2>1, <2>2, <2>3, <2>4 DEF Coupling
<1>3. CASE SessionAcceptFails
  <2>1. TasksInSession'
    BY <1>3 DEF SessionAcceptFails, TasksInSession
  <2>2. LinkInPhase'
    BY <1>3 DEF SessionAcceptFails, LinkInPhase, TasksInSession
  <2>3. TableOfPeer'
    BY <1>3 DEF SessionAcceptFails, TableOfPeer
  <2>4. NotifiesWhoAsked'
    BY <1>3 DEF SessionAcceptFails, NotifiesWhoAsked
  <2>5. QED
    BY <2>1, <2>2, <2>3, <2>4 DEF Coupling
<1>4. CASE SessionReply
  <2>1. TasksInSession'
    BY <1>4 DEF SessionReply, TasksInSession
  <2>2. LinkInPhase'
    BY <1>4 DEF SessionReply, LinkInPhase, TasksInSession
  <2>3. TableOfPeer'
    BY <1>4 DEF SessionReply, TableOfPeer
  <2>4. NotifiesWhoAsked'
    BY <1>4 DEF SessionReply, NotifiesWhoAsked, QueueType, Kinds
  <2>5. QED
    BY <2>1, <2>2, <2>3, <2>4 DEF Coupling
<1>5. QED
  BY <1>1, <1>2, <1>3, <1>4 DEF Session

(* A PDU more in the channel, when its characteristic is one asked for.    *)
LEMMA OneMoreAsked ==
    ASSUME QueueType, NotifiesWhoAsked, NEW k \in Kinds, out' = Append(out, k), peer' = peer,
           asked' = asked, k # "rsp" => <<peer, k>> \in asked
    PROVE  \A i \in 1 .. Len(out') : out'[i] # "rsp" => <<peer', out'[i]>> \in asked'
<1> SUFFICES ASSUME NEW i \in 1 .. Len(out'), out'[i] # "rsp" PROVE <<peer', out'[i]>> \in asked'
  OBVIOUS
<1>1. CASE i \in 1 .. Len(out)
  <2>1. out'[i] = out[i]
    BY <1>1 DEF QueueType
  <2>2. QED
    BY <1>1, <2>1 DEF NotifiesWhoAsked
<1>2. CASE i = Len(out) + 1
  <2>1. out'[i] = k
    BY <1>2 DEF QueueType
  <2>2. QED
    BY <2>1
<1>3. Len(out') = Len(out) + 1 /\ Len(out) \in Nat
  BY DEF QueueType
<1>4. i \in 1 .. Len(out) \/ i = Len(out) + 1
  BY <1>3
<1>5. QED
  BY <1>1, <1>2, <1>4

(* A notification goes to the peer that subscribed: the table is its own.  *)
LEMMA AskedNotify ==
    ASSUME QueueType, ScalarType, TableOfPeer, NotifiesWhoAsked, phase = "session",
           NEW k \in Kinds \ {"rsp"}, NEW fits, NEW ok, NEW err, Notify(k, fits, ok, err),
           held = "none", peer' = peer, asked' = asked
    PROVE  NotifiesWhoAsked'
<1>1. k \in subs => <<peer, k>> \in asked
  BY DEF TableOfPeer
<1>2. \/ out' = out /\ held' = held
      \/ k \in subs /\ out' = Append(out, k) /\ held' = held
      \/ k \in subs /\ out' = out /\ held' = k
  BY DEF Notify
<1>3. CASE out' = out /\ held' = held
  BY <1>3 DEF NotifiesWhoAsked
<1>4. CASE k \in subs /\ out' = Append(out, k) /\ held' = held
  BY <1>1, <1>4, OneMoreAsked DEF NotifiesWhoAsked
<1>5. CASE k \in subs /\ out' = out /\ held' = k
  BY <1>1, <1>5 DEF NotifiesWhoAsked
<1>6. QED
  BY <1>2, <1>3, <1>4, <1>5

(* Coupling under custom_task.                                             *)
LEMMA CouplingTask == TypeOK /\ Coupling /\ (CustomTask) => Coupling'
<1> SUFFICES ASSUME LinkType, QueueType, ScalarType, TasksInSession, LinkInPhase, TableOfPeer,
                    NotifiesWhoAsked, CustomTask
             PROVE  Coupling'
  BY TypeParts DEF Coupling
<1> USE DEF lifeVars, linkVars, cccdVars, attrVars, countVars, taskVars
<1>1. CASE TaskUnblocked
  <2>1. TasksInSession'
    BY <1>1 DEF TaskUnblocked, TasksInSession
  <2>2. LinkInPhase'
    BY <1>1 DEF TaskUnblocked, LinkInPhase, TasksInSession
  <2>3. TableOfPeer'
    BY <1>1 DEF TaskUnblocked, TableOfPeer
  <2>4. NotifiesWhoAsked'
    <3>1. held \in Kinds /\ <<peer, held>> \in asked
      BY <1>1 DEF TaskUnblocked, NotifiesWhoAsked, ScalarType
    <3>2. QED
      BY <1>1, <3>1, OneMoreAsked DEF TaskUnblocked, NotifiesWhoAsked
  <2>5. QED
    BY <2>1, <2>2, <2>3, <2>4 DEF Coupling
<1>2. CASE StreamStart
  <2>1. TasksInSession'
    BY <1>2 DEF StreamStart, TasksInSession, Running
  <2>2. LinkInPhase'
    BY <1>2 DEF StreamStart, LinkInPhase
  <2>3. TableOfPeer'
    BY <1>2 DEF StreamStart, TableOfPeer
  <2>4. NotifiesWhoAsked'
    BY <1>2 DEF StreamStart, NotifiesWhoAsked
  <2>5. QED
    BY <2>1, <2>2, <2>3, <2>4 DEF Coupling
<1>3. CASE StreamChunk
  <2>1. TasksInSession'
    BY <1>3 DEF StreamChunk, TasksInSession, Notify, Running
  <2>2. LinkInPhase'
    BY <1>3 DEF StreamChunk, LinkInPhase, TasksInSession, Notify, Running
  <2>3. TableOfPeer'
    BY <1>3 DEF StreamChunk, TableOfPeer, Notify
  <2>4. NotifiesWhoAsked'
    BY <1>3, AskedNotify DEF StreamChunk, TasksInSession, Running, Kinds
  <2>5. QED
    BY <2>1, <2>2, <2>3, <2>4 DEF Coupling
<1>4. CASE StreamCount
  <2>1. TasksInSession'
    BY <1>4 DEF StreamCount, TasksInSession, Running
  <2>2. LinkInPhase'
    BY <1>4 DEF StreamCount, LinkInPhase
  <2>3. TableOfPeer'
    BY <1>4 DEF StreamCount, TableOfPeer
  <2>4. NotifiesWhoAsked'
    BY <1>4 DEF StreamCount, NotifiesWhoAsked
  <2>5. QED
    BY <2>1, <2>2, <2>3, <2>4 DEF Coupling
<1>5. CASE StreamFinish
  <2>1. TasksInSession'
    BY <1>5 DEF StreamFinish, TasksInSession, Running
  <2>2. LinkInPhase'
    BY <1>5 DEF StreamFinish, LinkInPhase
  <2>3. TableOfPeer'
    BY <1>5 DEF StreamFinish, TableOfPeer
  <2>4. NotifiesWhoAsked'
    BY <1>5 DEF StreamFinish, NotifiesWhoAsked
  <2>5. QED
    BY <2>1, <2>2, <2>3, <2>4 DEF Coupling
<1>6. CASE EchoNotify
  <2>1. TasksInSession'
    BY <1>6 DEF EchoNotify, TasksInSession, Notify, Running
  <2>2. LinkInPhase'
    BY <1>6 DEF EchoNotify, LinkInPhase, TasksInSession, Notify, Running
  <2>3. TableOfPeer'
    BY <1>6 DEF EchoNotify, TableOfPeer, Notify
  <2>4. NotifiesWhoAsked'
    BY <1>6, AskedNotify DEF EchoNotify, TasksInSession, Running, Kinds
  <2>5. QED
    BY <2>1, <2>2, <2>3, <2>4 DEF Coupling
<1>7. CASE EchoClear
  <2>1. TasksInSession'
    BY <1>7 DEF EchoClear, TasksInSession, Running
  <2>2. LinkInPhase'
    BY <1>7 DEF EchoClear, LinkInPhase
  <2>3. TableOfPeer'
    BY <1>7 DEF EchoClear, TableOfPeer
  <2>4. NotifiesWhoAsked'
    BY <1>7 DEF EchoClear, NotifiesWhoAsked
  <2>5. QED
    BY <2>1, <2>2, <2>3, <2>4 DEF Coupling
<1>8. CASE EchoNothing
  <2>1. TasksInSession'
    BY <1>8 DEF EchoNothing, TasksInSession, Running
  <2>2. LinkInPhase'
    BY <1>8 DEF EchoNothing, LinkInPhase
  <2>3. TableOfPeer'
    BY <1>8 DEF EchoNothing, TableOfPeer
  <2>4. NotifiesWhoAsked'
    BY <1>8 DEF EchoNothing, NotifiesWhoAsked
  <2>5. QED
    BY <2>1, <2>2, <2>3, <2>4 DEF Coupling
<1>9. CASE LevelNotify
  <2>1. TasksInSession'
    BY <1>9 DEF LevelNotify, TasksInSession, Notify, Running
  <2>2. LinkInPhase'
    BY <1>9 DEF LevelNotify, LinkInPhase, TasksInSession, Notify, Running
  <2>3. TableOfPeer'
    BY <1>9 DEF LevelNotify, TableOfPeer, Notify
  <2>4. NotifiesWhoAsked'
    BY <1>9, AskedNotify DEF LevelNotify, TasksInSession, Running, Kinds
  <2>5. QED
    BY <2>1, <2>2, <2>3, <2>4 DEF Coupling
<1>10. CASE TaskWake
  <2>1. TasksInSession'
    BY <1>10 DEF TaskWake, TasksInSession, Running
  <2>2. LinkInPhase'
    BY <1>10 DEF TaskWake, LinkInPhase
  <2>3. TableOfPeer'
    BY <1>10 DEF TaskWake, TableOfPeer
  <2>4. NotifiesWhoAsked'
    BY <1>10 DEF TaskWake, NotifiesWhoAsked
  <2>5. QED
    BY <2>1, <2>2, <2>3, <2>4 DEF Coupling
<1>11. QED
  BY <1>1, <1>2, <1>3, <1>4, <1>5, <1>6, <1>7, <1>8, <1>9, <1>10 DEF CustomTask

(* Every step keeps Coupling.                                              *)
LEMMA CouplingStep == TypeOK /\ Coupling /\ [Next]_vars => Coupling'
<1>1. ASSUME Coupling, UNCHANGED vars PROVE Coupling'
  BY <1>1 DEF Coupling, TasksInSession, LinkInPhase, TableOfPeer, NotifiesWhoAsked, vars,
              lifeVars, linkVars, cccdVars, attrVars, countVars, taskVars
<1>2. QED
  BY <1>1, CouplingLifecycle, CouplingRadio, CouplingSession, CouplingTask DEF Next

-----------------------------------------------------------------------------
(* OneAnswer without the tags: at most one request in the GATT queue, at   *)
(* most one response in the channel, never two of the three places taken,  *)
(* and the central waits when one is.                                      *)
SingleAnswer ==
    slot = "Connected" =>
        /\ \A i, j \in 1 .. Len(gattq) : IsRequest(gattq[i]) /\ IsRequest(gattq[j]) => i = j
        /\ \A i, j \in 1 .. Len(out) : out[i] = "rsp" /\ out[j] = "rsp" => i = j
        /\ \A i \in 1 .. Len(gattq), j \in 1 .. Len(out) : ~(IsRequest(gattq[i]) /\ out[j] = "rsp")
        /\ \A i \in 1 .. Len(gattq) : IsRequest(gattq[i]) => spc # "reply" /\ waiting
        /\ \A j \in 1 .. Len(out) : out[j] = "rsp" => spc # "reply" /\ waiting
        /\ spc = "reply" => waiting

(* The tagged form, which the runs check, follows.                         *)
LEMMA SingleAnswerIsOne == SingleAnswer => OneAnswer
<1> SUFFICES ASSUME SingleAnswer, slot = "Connected"
             PROVE  (\A a, b \in Answers : a = b) /\ (Answers # {} => waiting)
  BY DEF OneAnswer
<1>1. ASSUME NEW a \in Answers
      PROVE  \/ \E i \in 1 .. Len(gattq) : IsRequest(gattq[i]) /\ a = <<"gattq", i>>
             \/ \E i \in 1 .. Len(out) : out[i] = "rsp" /\ a = <<"out", i>>
             \/ spc = "reply" /\ a = <<"reply", 0>>
  BY <1>1 DEF Answers
<1>2. ASSUME NEW a \in Answers, NEW b \in Answers PROVE a = b
  BY <1>1, <1>2 DEF SingleAnswer
<1>3. ASSUME NEW a \in Answers PROVE waiting
  BY <1>1, <1>3 DEF SingleAnswer
<1>4. QED
  BY <1>2, <1>3

(* The steps that leave the three places and what they hold alone.         *)
LEMMA SingleAnswerKept ==
    ASSUME SingleAnswer, slot' = slot, gattq' = gattq, out' = out, waiting' = waiting,
           spc' = spc \/ spc' # "reply"
    PROVE  SingleAnswer'
BY DEF SingleAnswer

(* A notification in the channel is no answer.                             *)
LEMMA SingleAnswerNotified ==
    ASSUME QueueType, SingleAnswer, NEW k \in Kinds \ {"rsp"}, out' = Append(out, k),
           slot' = slot, gattq' = gattq, waiting' = waiting, spc' = spc
    PROVE  SingleAnswer'
<1>1. \A j \in 1 .. Len(out') : out'[j] = "rsp" => j \in 1 .. Len(out) /\ out[j] = "rsp"
  BY DEF QueueType, Kinds
<1>2. QED
  BY <1>1 DEF SingleAnswer

(* A connection is accepted with nothing left of an earlier one.           *)
LEMMA AnswerLifecycle ==
    LinkInPhase /\ TasksInSession /\ SingleAnswer /\ (Lifecycle \/ SoftwareReset)
        => SingleAnswer'
<1> SUFFICES ASSUME LinkInPhase, TasksInSession, SingleAnswer, Lifecycle \/ SoftwareReset
             PROVE  SingleAnswer'
  OBVIOUS
<1> USE DEF SingleAnswer, LinkInPhase, lifeVars, linkVars
<1>1. CASE Advertising
  BY <1>1 DEF Advertising
<1>2. CASE Connected
  BY <1>2 DEF Connected
<1>3. CASE SessionOver
  BY <1>3 DEF SessionOver
<1>4. CASE SoftwareReset
  BY <1>4 DEF SoftwareReset
<1>5. QED
  BY <1>1, <1>2, <1>3, <1>4 DEF Lifecycle

(* A request is sent only by a central that waits for no answer, and a     *)
(* response that is sent ends its wait.                                    *)
LEMMA AnswerRadio == TypeOK /\ SingleAnswer /\ (Radio \/ TxRunner) => SingleAnswer'
<1> SUFFICES ASSUME LinkType, QueueType, ScalarType, SingleAnswer, Radio \/ TxRunner
             PROVE  SingleAnswer'
  BY TypeParts
<1> USE DEF lifeVars, linkVars
<1>1. ASSUME NEW p \in Peers, RxConnectionComplete(p) PROVE SingleAnswer'
  BY <1>1 DEF RxConnectionComplete, SingleAnswer
<1>2. CASE RxDisconnectionComplete
  BY <1>2 DEF RxDisconnectionComplete, SingleAnswer
<1>3. CASE RxOtherEvent
  BY <1>3, SingleAnswerKept DEF RxOtherEvent
<1>4. ASSUME NEW r \in Inputs, RxGatt(r) PROVE SingleAnswer'
  <2>1. CASE gattq' = gattq
    BY <1>4, <2>1 DEF RxGatt, SingleAnswer
  <2>2. CASE slot = "Connected" /\ gattq' = Append(gattq, r)
    <3>1. \A i \in 1 .. Len(gattq') : (i \in 1 .. Len(gattq) /\ gattq'[i] = gattq[i])
                                       \/ (i = Len(gattq) + 1 /\ gattq'[i] = r)
      <4> TAKE i \in 1 .. Len(gattq')
      <4>1. Len(gattq) \in Nat /\ Len(gattq') = Len(gattq) + 1
        BY <2>2 DEF QueueType
      <4>2. i \in 1 .. Len(gattq) \/ i = Len(gattq) + 1
        BY <4>1
      <4>3. CASE i \in 1 .. Len(gattq)
        <5>1. gattq'[i] = gattq[i]
          BY <2>2, <4>3 DEF QueueType
        <5>2. QED
          BY <4>3, <5>1
      <4>4. CASE i = Len(gattq) + 1
        <5>1. gattq'[i] = r
          BY <2>2, <4>1, <4>4 DEF QueueType
        <5>2. QED
          BY <4>4, <5>1
      <4>5. QED
        BY <4>2, <4>3, <4>4
    <3>2. /\ slot = "Connected" /\ slot' = slot /\ out' = out /\ spc' = spc
          /\ IsRequest(r) => ~waiting
          /\ waiting' = (waiting \/ IsRequest(r))
      BY <1>4, <2>2 DEF RxGatt
    <3>3. CASE ~IsRequest(r)
      BY <3>1, <3>2, <3>3 DEF SingleAnswer
    <3>4. CASE IsRequest(r)
      <4>1. /\ \A i \in 1 .. Len(gattq) : ~IsRequest(gattq[i])
            /\ \A j \in 1 .. Len(out) : out[j] # "rsp"
            /\ spc # "reply"
        BY <3>2, <3>4 DEF SingleAnswer
      <4>2. waiting'
        BY <3>2, <3>4
      <4>3. QED
        BY <3>1, <3>2, <4>1, <4>2 DEF SingleAnswer
    <3>5. QED
      BY <3>3, <3>4
  <2>3. QED
    BY <1>4, <2>1, <2>2 DEF RxGatt
<1>5. CASE TxSend
  <2>1. /\ slot = "Connected" /\ slot' = slot /\ gattq' = gattq /\ spc' = spc /\ out # <<>>
        /\ out' = Tail(out) /\ waiting' = (waiting /\ Head(out) # "rsp")
    BY <1>5 DEF TxSend
  <2>2. \A j \in 1 .. Len(out') : j + 1 \in 1 .. Len(out) /\ out'[j] = out[j + 1]
    BY <2>1 DEF QueueType
  <2>3. 1 \in 1 .. Len(out) /\ Head(out) = out[1]
    BY <2>1 DEF QueueType
  <2>4. CASE Head(out) = "rsp"
    <3>1. /\ \A i \in 1 .. Len(gattq) : ~IsRequest(gattq[i])
          /\ spc # "reply"
      BY <2>1, <2>3, <2>4 DEF SingleAnswer
    <3>2. \A j \in 1 .. Len(out') : out'[j] # "rsp"
      <4> SUFFICES ASSUME NEW j \in 1 .. Len(out'), out'[j] = "rsp" PROVE FALSE
        OBVIOUS
      <4>1. j + 1 = 1
        BY <2>1, <2>2, <2>3, <2>4 DEF SingleAnswer
      <4>2. QED
        BY <4>1
    <3>3. QED
      BY <2>1, <3>1, <3>2 DEF SingleAnswer
  <2>5. CASE Head(out) # "rsp"
    <3>1. waiting' = waiting
      BY <2>1, <2>5 DEF LinkType
    <3>2. \A i, j \in 1 .. Len(out') : out'[i] = "rsp" /\ out'[j] = "rsp" => i = j
      <4> SUFFICES ASSUME NEW i \in 1 .. Len(out'), NEW j \in 1 .. Len(out'),
                          out'[i] = "rsp", out'[j] = "rsp"
                   PROVE  i = j
        OBVIOUS
      <4>1. i + 1 = j + 1
        BY <2>1, <2>2 DEF SingleAnswer
      <4>2. QED
        BY <4>1
    <3>3. QED
      BY <2>1, <2>2, <3>1, <3>2 DEF SingleAnswer
  <2>6. QED
    BY <2>4, <2>5
<1>6. CASE TxDrop
  BY <1>6 DEF TxDrop, SingleAnswer
<1>7. QED
  BY <1>1, <1>2, <1>3, <1>4, <1>5, <1>6 DEF Radio, TxRunner

(* What is left of a queue once its head is taken.                         *)
LEMMA TailFacts ==
    ASSUME QueueType, gattq # <<>>
    PROVE  /\ \A i \in 1 .. Len(Tail(gattq)) :
                /\ i + 1 \in 1 .. Len(gattq)
                /\ Tail(gattq)[i] = gattq[i + 1]
           /\ 1 \in 1 .. Len(gattq) /\ Head(gattq) = gattq[1]
BY DEF QueueType

(* A response more in the channel.                                         *)
LEMMA ResponseFacts ==
    ASSUME QueueType, out' = Append(out, "rsp"), \A j \in 1 .. Len(out) : out[j] # "rsp"
    PROVE  \A i, j \in 1 .. Len(out') : out'[i] = "rsp" /\ out'[j] = "rsp" => i = j
<1>1. \A j \in 1 .. Len(out') : out'[j] = "rsp" => j = Len(out) + 1
  BY DEF QueueType
<1>2. QED
  BY <1>1

(* The session turns one request into at most one response.                *)
LEMMA AnswerSession == TypeOK /\ SingleAnswer /\ Session => SingleAnswer'
<1> SUFFICES ASSUME LinkType, QueueType, ScalarType, SingleAnswer, Session PROVE SingleAnswer'
  BY TypeParts
<1> USE DEF lifeVars, linkVars
<1>1. CASE SessionEvent
  BY <1>1, SingleAnswerKept DEF SessionEvent
<1>2. CASE SessionAccept
  <2>1. /\ slot' = slot /\ gattq # <<>> /\ gattq' = Tail(gattq) /\ waiting' = waiting /\ spc = "next"
        /\ \/ ~IsRequest(Head(gattq)) /\ out' = out /\ spc' = "next"
           \/ IsRequest(Head(gattq)) /\ out' = out /\ spc' = "reply"
           \/ IsRequest(Head(gattq)) /\ out' = Append(out, "rsp") /\ spc' = "next"
    BY <1>2 DEF SessionAccept, Replies
  <2>2. /\ \A i \in 1 .. Len(gattq') : i + 1 \in 1 .. Len(gattq) /\ gattq'[i] = gattq[i + 1]
        /\ 1 \in 1 .. Len(gattq) /\ Head(gattq) = gattq[1]
    BY <2>1, TailFacts
  <2>3. slot = "Connected" =>
          \A i, j \in 1 .. Len(gattq') : IsRequest(gattq'[i]) /\ IsRequest(gattq'[j]) => i = j
    <3> SUFFICES ASSUME slot = "Connected", NEW i \in 1 .. Len(gattq'), NEW j \in 1 .. Len(gattq'),
                        IsRequest(gattq'[i]), IsRequest(gattq'[j])
                 PROVE  i = j
      OBVIOUS
    <3>1. i + 1 = j + 1
      BY <2>2 DEF SingleAnswer
    <3>2. QED
      BY <3>1
  <2>4. CASE ~IsRequest(Head(gattq)) /\ out' = out /\ spc' = "next"
    BY <2>1, <2>2, <2>3, <2>4 DEF SingleAnswer
  <2>5. ASSUME IsRequest(Head(gattq)), slot = "Connected"
        PROVE  /\ waiting
               /\ \A i \in 1 .. Len(gattq') : ~IsRequest(gattq'[i])
               /\ \A j \in 1 .. Len(out) : out[j] # "rsp"
    <3>1. waiting /\ \A j \in 1 .. Len(out) : out[j] # "rsp"
      BY <2>2, <2>5 DEF SingleAnswer
    <3>2. ASSUME NEW i \in 1 .. Len(gattq'), IsRequest(gattq'[i]) PROVE FALSE
      <4>1. i + 1 = 1
        BY <2>2, <2>5, <3>2 DEF SingleAnswer
      <4>2. QED
        BY <4>1
    <3>3. QED
      BY <3>1, <3>2
  <2>6. CASE IsRequest(Head(gattq)) /\ out' = out /\ spc' = "reply"
    BY <2>1, <2>5, <2>6 DEF SingleAnswer
  <2>7. CASE IsRequest(Head(gattq)) /\ out' = Append(out, "rsp") /\ spc' = "next"
    BY <2>1, <2>5, <2>7, ResponseFacts DEF SingleAnswer
  <2>8. QED
    BY <2>1, <2>4, <2>6, <2>7
<1>3. CASE SessionAcceptFails
  <2>1. /\ slot' = slot /\ gattq # <<>> /\ gattq' = Tail(gattq) /\ waiting' = waiting
        /\ out' = out /\ spc' = spc
    BY <1>3 DEF SessionAcceptFails
  <2>2. \A i \in 1 .. Len(gattq') : i + 1 \in 1 .. Len(gattq) /\ gattq'[i] = gattq[i + 1]
    BY <2>1, TailFacts
  <2>3. slot = "Connected" =>
          \A i, j \in 1 .. Len(gattq') : IsRequest(gattq'[i]) /\ IsRequest(gattq'[j]) => i = j
    <3> SUFFICES ASSUME slot = "Connected", NEW i \in 1 .. Len(gattq'), NEW j \in 1 .. Len(gattq'),
                        IsRequest(gattq'[i]), IsRequest(gattq'[j])
                 PROVE  i = j
      OBVIOUS
    <3>1. i + 1 = j + 1
      BY <2>2 DEF SingleAnswer
    <3>2. QED
      BY <3>1
  <2>4. QED
    BY <2>1, <2>2, <2>3 DEF SingleAnswer
<1>4. CASE SessionReply
  <2>1. /\ slot' = slot /\ gattq' = gattq /\ waiting' = waiting
        /\ out' = Append(out, "rsp") /\ spc = "reply" /\ spc' = "next"
    BY <1>4 DEF SessionReply
  <2>2. slot = "Connected" => /\ waiting
                              /\ \A i \in 1 .. Len(gattq) : ~IsRequest(gattq[i])
                              /\ \A j \in 1 .. Len(out) : out[j] # "rsp"
    BY <2>1 DEF SingleAnswer
  <2>3. QED
    BY <2>1, <2>2, ResponseFacts DEF SingleAnswer
<1>5. QED
  BY <1>1, <1>2, <1>3, <1>4 DEF Session

(* custom_task queues notifications only.                                  *)
LEMMA AnswerTask == TypeOK /\ SingleAnswer /\ CustomTask => SingleAnswer'
<1> SUFFICES ASSUME LinkType, QueueType, ScalarType, SingleAnswer, CustomTask PROVE SingleAnswer'
  BY TypeParts
<1>1. UNCHANGED <<slot, gattq, waiting, spc>>
  BY DEF CustomTask, TaskUnblocked, StreamStart, StreamChunk, StreamCount, StreamFinish, EchoNotify,
         EchoClear, EchoNothing, LevelNotify, TaskWake, lifeVars, linkVars
<1>2. out' = out \/ \E k \in Kinds \ {"rsp"} : out' = Append(out, k)
  <2>1. ASSUME NEW k \in Kinds \ {"rsp"}, NEW fits, NEW ok, NEW err, Notify(k, fits, ok, err)
        PROVE  out' = out \/ out' = Append(out, k)
    BY <2>1 DEF Notify
  <2>2. CASE TaskUnblocked
    BY <2>2 DEF TaskUnblocked, ScalarType
  <2>3. CASE StreamChunk
    BY <2>3, <2>1 DEF StreamChunk, Kinds
  <2>4. CASE EchoNotify
    BY <2>4, <2>1 DEF EchoNotify, Kinds
  <2>5. CASE LevelNotify
    <3>1. "level" \in Kinds \ {"rsp"} /\ Notify("level", TRUE, "sleep", "done")
      BY <2>5 DEF LevelNotify, Kinds
    <3>2. QED
      BY <2>1, <3>1
  <2>6. CASE StreamStart \/ StreamCount \/ StreamFinish \/ EchoClear \/ EchoNothing \/ TaskWake
    BY <2>6 DEF StreamStart, StreamCount, StreamFinish, EchoClear, EchoNothing, TaskWake
  <2>7. QED
    BY <2>2, <2>3, <2>4, <2>5, <2>6 DEF CustomTask
<1>3. QED
  BY <1>1, <1>2, SingleAnswerKept, SingleAnswerNotified

(* Every step keeps SingleAnswer.                                          *)
LEMMA AnswerStep == TypeOK /\ Coupling /\ SingleAnswer /\ [Next]_vars => SingleAnswer'
<1>1. ASSUME SingleAnswer, UNCHANGED vars PROVE SingleAnswer'
  BY <1>1, SingleAnswerKept DEF vars, lifeVars, linkVars
<1>2. QED
  BY <1>1, AnswerLifecycle, AnswerRadio, AnswerSession, AnswerTask DEF Next, Coupling

-----------------------------------------------------------------------------
(* The whole inductive invariant.                                          *)
IndInv == TypeOK /\ TxWithinStream /\ StatsMatch /\ Coupling /\ SingleAnswer

(* It holds initially.                                                     *)
LEMMA InductiveInit == Init => IndInv
<1> SUFFICES ASSUME Init PROVE IndInv
  OBVIOUS
<1>1. TypeOK
  BY TypeInit
<1>2. TxWithinStream /\ StatsMatch
  BY DEF Init, TxWithinStream, StatsMatch
<1>3. TasksInSession
  BY DEF Init, TasksInSession
<1>4. LinkInPhase
  BY DEF Init, LinkInPhase
<1>5. TableOfPeer
  BY DEF Init, TableOfPeer
<1>6. NotifiesWhoAsked
  BY DEF Init, NotifiesWhoAsked
<1>7. SingleAnswer
  BY DEF Init, SingleAnswer
<1>8. QED
  BY <1>1, <1>2, <1>3, <1>4, <1>5, <1>6, <1>7 DEF IndInv, Coupling

(* Every step keeps it.                                                    *)
LEMMA InductiveStep == IndInv /\ [Next]_vars => IndInv'
BY TypeStep, StreamStep, StatsStep, CouplingStep, AnswerStep DEF IndInv

(* The invariant holds in every behaviour.                                 *)
THEOREM Inductive == Spec => []IndInv
BY InductiveInit, InductiveStep, PTL DEF Spec

(* Every variable stays in its set, whatever the requests and capacities.  *)
THEOREM TypesHold == Spec => []TypeOK
<1>1. IndInv => TypeOK
  BY DEF IndInv
<1>2. QED
  BY <1>1, Inductive, PTL

(* The stats value follows RX_BYTES and TX_BYTES.                          *)
THEOREM StatsHold == Spec => []StatsInSync
<1>1. IndInv => StatsInSync
  BY DEF IndInv, StatsMatch, StatsInSync
<1>2. QED
  BY <1>1, Inductive, PTL

(* TX_BYTES never runs ahead of the stream it counts.                      *)
THEOREM StreamsHold == Spec => []TxWithinStream
<1>1. IndInv => TxWithinStream
  BY DEF IndInv
<1>2. QED
  BY <1>1, Inductive, PTL

(* The lifecycle never drops the handle of a live connection.              *)
THEOREM NoLiveLinkDropped == Spec => []DropsNoLiveLink
<1>1. IndInv => DropsNoLiveLink
  BY TypeParts DEF IndInv, Coupling, TasksInSession, LinkInPhase, DropsNoLiveLink, ScalarType
<1>2. QED
  BY <1>1, Inductive, PTL

(* The CCCD table always has room for the connection about to be accepted. *)
THEOREM ServerHasRoom == Spec => []ServerAdmits
<1>1. IndInv => ServerAdmits
  BY DEF IndInv, Coupling, LinkInPhase, TableOfPeer, ServerAdmits
<1>2. QED
  BY <1>1, Inductive, PTL

(* Nobody is notified of what another central subscribed to.               *)
THEOREM SubscriptionsArePrivate == Spec => []NotifiesWhoAsked
<1>1. IndInv => NotifiesWhoAsked
  BY DEF IndInv, Coupling
<1>2. QED
  BY <1>1, Inductive, PTL

(* A central never has two answers coming, nor one it does not wait for.   *)
THEOREM AnswersAreSingle == Spec => []OneAnswer
<1>1. IndInv => OneAnswer
  BY SingleAnswerIsOne DEF IndInv
<1>2. QED
  BY <1>1, Inductive, PTL
-----------------------------------------------------------------------------

-----------------------------------------------------------------------------
(* Counting modulo the size of a counter.                                  *)

LEMMA Division ==
    ASSUME NEW a \in Int, NEW m \in Nat \ {0}
    PROVE  /\ a = m * (a \div m) + (a % m)
           /\ a \div m \in Int
           /\ a % m \in 0 .. m - 1
BY SMT

LEMMA RemainderUnique ==
    ASSUME NEW m \in Nat \ {0}, NEW q \in Int, NEW r \in 0 .. m - 1,
           NEW q2 \in Int, NEW r2 \in 0 .. m - 1, m * q + r = m * q2 + r2
    PROVE  r = r2
<1>1. CASE q = q2
  BY <1>1, SMT
<1>2. CASE q < q2
  <2>1. m * (q2 - q) >= m
    BY <1>2, SMT
  <2>2. m*q2 - m*q = m*(q2-q)
    BY SMT
  <2>3. QED BY <2>1, <2>2, SMT
<1>3. CASE q > q2
  <2>1. m * (q - q2) >= m
    BY <1>3, SMT
  <2>2. m*q - m*q2 = m*(q-q2)
    BY SMT
  <2>3. QED BY <2>1, <2>2, SMT
<1>4. QED BY <1>1, <1>2, <1>3

LEMMA WholePeriods ==
    ASSUME NEW m \in Nat \ {0}, NEW a \in Int, NEW k \in Int
    PROVE  (a + m * k) % m = a % m
<1>1. a + m * k = m * (a \div m + k) + (a % m)
  <2>1. m * (a \div m + k) = m * (a \div m) + m * k
    BY Division, SMT
  <2>2. QED BY Division, <2>1, SMT
<1>2. m * k \in Int 
  BY SMT
<1>3. a + m*k = m * ((a+m*k) \div m) + ((a+m*k) % m)
  BY Division, <1>2
<1>4. \A q, q2 \in Int, r, r2 \in 0 .. m-1 : m*q + r = m*q2+r2 => r = r2
  BY RemainderUnique
<1>5. /\ a \div m + k \in Int /\ (a+m*k) \div m \in Int /\ a + m * k \in Int
      /\ a % m \in 0 .. m-1 /\ (a+m*k) % m \in 0 .. m-1
  BY <1>2, Division
<1>6. QED BY <1>1, <1>3, <1>4, <1>5

LEMMA ModShift ==
    ASSUME NEW m \in Nat \ {0}, NEW a \in Int, NEW b \in Int, NEW c \in Int, a % m = b % m
    PROVE  (a + c) % m = (b + c) % m
<1> DEFINE k == a \div m - b \div m
<1>1. k \in Int BY Division
<1>2. m * k = m * (a \div m) - m * (b \div m)
  BY Division, SMT
<1>3. a + c = (b + c) + m * k
  <2>1. a = m * (a \div m) + (a % m) /\ b = m * (b \div m) + (b % m) BY Division
  <2>2. m * (a \div m) \in Int /\ m * (b \div m) \in Int /\ a % m \in Int /\ b % m \in Int
    BY Division
  <2> DEFINE x == m * (a \div m)
             y == m * (b \div m)
             z == a % m
             w == b % m
             d == m * k
  <2>3. a = x + z /\ b = y + w /\ d = x - y /\ z = w /\ x \in Int /\ y \in Int /\ z \in Int
    BY <2>1, <2>2, <1>2
  <2> HIDE DEF x, y, z, w, d, k
  <2>4. a + c = (b + c) + d
    BY <2>3
  <2>5. QED BY <2>4 DEF d
<1> HIDE DEF k
<1>4. ((b + c) + m * k) % m = (b + c) % m
  <2>1. b + c \in Int OBVIOUS
  <2>2. QED BY <1>1, <2>1, WholePeriods
<1>5. QED BY <1>3, <1>4

LEMMA ModOnce ==
    ASSUME NEW m \in Nat \ {0}, NEW a \in Int, NEW c \in Int
    PROVE  ((a % m) + c) % m = (a + c) % m
<1>1. a % m \in 0 .. m - 1 BY Division
<1>2. (a % m) % m = a % m
  BY <1>1, SMT
<1>3. a % m \in Int BY <1>1
<1>4. QED BY ONLY <1>2, <1>3, ModShift, a \in Int, c \in Int, m \in Nat \ {0}

LEMMA ModMinus ==
    ASSUME NEW m \in Nat \ {0}, NEW a \in 0 .. m - 1, NEW l \in Int, NEW s \in Int,
           (a + l) % m = s % m
    PROVE  a = (s - l) % m
<1>1. (a + l + (0-l)) % m = (s + (0-l)) % m
  <2>1. a + l \in Int /\ 0 - l \in Int OBVIOUS
  <2>2. QED BY <2>1, ModShift
<1>2. a + l + (0-l) = a /\ s + (0-l) = s - l OBVIOUS
<1>3. a % m = a BY SMT
<1>4. QED BY <1>1, <1>2, <1>3

-----------------------------------------------------------------------------
(* The bytes in a queue of requests: what one more adds, and the head takes.*)

Size(r) == IF r.op = "data" THEN r.len ELSE 0

LEMMA SizeType ==
    ASSUME NEW r \in Inputs
    PROVE  Size(r) \in 0 .. ChunkSize
BY InputFacts, SizeAssumption DEF Size

LEMMA Segment ==
    ASSUME NEW n \in Nat
    PROVE  IsFiniteSet(1 .. n) /\ Cardinality(1 .. n) = n
<1>1. 1 \in Int /\ n \in Int OBVIOUS
<1>2. IsFiniteSet(1 .. n) /\ Cardinality(1 .. n) = IF 1 > n THEN 0 ELSE n - 1 + 1
  BY <1>1, FS_Interval
<1> QED BY <1>2

LEMMA BytesFinite ==
    ASSUME NEW q \in Seq(Inputs)
    PROVE  IsFiniteSet(ByteSet(q)) /\ Bytes(q) \in Nat
<1>1. IsFiniteSet(1 .. Len(q)) BY Segment
<1>2. IsFiniteSet(1 .. ChunkSize) BY SizeAssumption, Segment
<1>3. IsFiniteSet((1 .. Len(q)) \X (1 .. ChunkSize)) BY <1>1, <1>2, FS_Product
<1>4. ByteSet(q) \subseteq (1 .. Len(q)) \X (1 .. ChunkSize) BY DEF ByteSet
<1> QED BY <1>3, <1>4, FS_Subset, FS_CardinalityType DEF Bytes

LEMMA NoBytes ==
    ASSUME NEW q \in Seq(Inputs), \A i \in 1 .. Len(q) : q[i].op # "data"
    PROVE  Bytes(q) = 0
<1>1. ByteSet(q) = {} BY DEF ByteSet
<1> QED BY <1>1, FS_EmptySet DEF Bytes

\* One request's bytes, wherever it is in the queue.
LEMMA BytesOfOne ==
    ASSUME NEW r \in Inputs, NEW i
    PROVE  /\ IsFiniteSet({i} \X (1 .. Size(r)))
           /\ Cardinality({i} \X (1 .. Size(r))) = Size(r)
<1> DEFINE n == Size(r)
<1>1. n \in Nat BY SizeType, SizeAssumption
<1> HIDE DEF n
<1>2. IsFiniteSet(1 .. n) /\ Cardinality(1 .. n) = n BY <1>1, Segment
<1>3. IsFiniteSet({i}) /\ Cardinality({i}) = 1 BY FS_Singleton
<1>4. IsFiniteSet({i} \X (1 .. n)) /\ Cardinality({i} \X (1 .. n)) = 1 * n
  BY <1>2, <1>3, FS_Product
<1>5. IsFiniteSet({i} \X (1 .. n)) /\ Cardinality({i} \X (1 .. n)) = n BY <1>1, <1>4
<1> QED BY <1>5 DEF n

LEMMA BytesAppend ==
    ASSUME NEW q \in Seq(Inputs), NEW r \in Inputs
    PROVE  Bytes(Append(q, r)) = Bytes(q) + Size(r)
<1> DEFINE New == {Len(q) + 1} \X (1 .. Size(r))
           Old == ByteSet(q)
           All == ByteSet(Append(q, r))
<1>0. Len(q) \in Nat /\ Len(Append(q, r)) = Len(q) + 1
      /\ \A i \in 1 .. Len(q) : Append(q, r)[i] = q[i]
      /\ Append(q, r)[Len(q) + 1] = r
  OBVIOUS
<1>1. ASSUME NEW t \in All PROVE t \in Old \cup New
  <2>1. PICK i \in 1 .. Len(q) + 1, k \in 1 .. ChunkSize :
            t = <<i, k>> /\ Append(q, r)[i].op = "data" /\ k <= Append(q, r)[i].len
    BY <1>0, <1>1 DEF ByteSet
  <2>2. CASE i = Len(q) + 1
    BY <1>0, <2>1, <2>2, InputFacts, SizeAssumption DEF Size
  <2>3. CASE i # Len(q) + 1
    <3>1. i \in 1 .. Len(q) BY <1>0, <2>3
    <3> QED BY <1>0, <2>1, <3>1 DEF ByteSet
  <2> QED BY <2>2, <2>3
<1>2. ASSUME NEW t \in Old PROVE t \in All
  <2>1. PICK i \in 1 .. Len(q), k \in 1 .. ChunkSize : t = <<i, k>> /\ q[i].op = "data" /\ k <= q[i].len
    BY <1>2 DEF ByteSet
  <2>2. i \in 1 .. Len(Append(q, r)) /\ Append(q, r)[i] = q[i] BY <1>0
  <2> QED BY <2>1, <2>2 DEF ByteSet
<1>3. ASSUME NEW t \in New PROVE t \in All
  <2>1. PICK k \in 1 .. Size(r) : t = <<Len(q) + 1, k>> OBVIOUS
  <2>2. r.op = "data" /\ k <= r.len /\ k \in 1 .. ChunkSize
    BY SizeType, SizeAssumption, InputFacts DEF Size
  <2>3. Len(q) + 1 \in 1 .. Len(Append(q, r)) /\ Append(q, r)[Len(q) + 1] = r BY <1>0
  <2> QED BY <2>1, <2>2, <2>3 DEF ByteSet
<1>4. All = Old \cup New BY <1>1, <1>2, <1>3
<1>5. Old \cap New = {} BY <1>0 DEF ByteSet
<1>6. IsFiniteSet(Old) /\ IsFiniteSet(New) /\ Cardinality(New) = Size(r) /\ Cardinality(Old) \in Nat
  BY BytesFinite, BytesOfOne DEF Bytes
<1>7. Size(r) \in Nat BY SizeType, SizeAssumption
<1>8. Bytes(q) = Cardinality(Old) /\ Bytes(Append(q, r)) = Cardinality(All) BY DEF Bytes
<1> HIDE DEF Old, New, All
<1>9. Cardinality(Old \cup New) = Cardinality(Old) + Cardinality(New) - Cardinality(Old \cap New)
  BY <1>6, FS_Union
<1>10. Cardinality(Old \cap New) = 0 BY <1>5, FS_EmptySet
<1> QED BY <1>4, <1>6, <1>7, <1>8, <1>9, <1>10

LEMMA BytesTail ==
    ASSUME NEW q \in Seq(Inputs), q # <<>>
    PROVE  Bytes(q) = Bytes(Tail(q)) + Size(Head(q))
<1> DEFINE A == ByteSet(Tail(q))
           F == {1} \X (1 .. Size(Head(q)))
           B == ByteSet(q) \ F
           g == [t \in A |-> <<t[1] + 1, t[2]>>]
<1>0. Len(q) \in Nat /\ Len(q) > 0 /\ Len(Tail(q)) = Len(q) - 1
      /\ Head(q) = q[1] /\ Head(q) \in Inputs /\ Tail(q) \in Seq(Inputs)
      /\ \A i \in 1 .. Len(Tail(q)) : Tail(q)[i] = q[i + 1]
  OBVIOUS
<1>1. \A t \in A : g[t] \in B
  <2> SUFFICES ASSUME NEW t \in A PROVE <<t[1] + 1, t[2]>> \in B OBVIOUS
  <2>1. PICK i \in 1 .. Len(Tail(q)), k \in 1 .. ChunkSize :
            t = <<i, k>> /\ Tail(q)[i].op = "data" /\ k <= Tail(q)[i].len
    BY DEF ByteSet
  <2>2. i + 1 \in 1 .. Len(q) /\ q[i + 1] = Tail(q)[i] /\ i + 1 # 1 BY <1>0
  <2> QED BY <2>1, <2>2 DEF ByteSet
<1>2. \A u \in B : \E t \in A : g[t] = u
  <2> SUFFICES ASSUME NEW u \in B PROVE \E t \in A : <<t[1] + 1, t[2]>> = u OBVIOUS
  <2>1. PICK i \in 1 .. Len(q), k \in 1 .. ChunkSize :
            u = <<i, k>> /\ q[i].op = "data" /\ k <= q[i].len
    BY DEF ByteSet
  <2>2. i # 1 BY <1>0, <2>1 DEF Size
  <2>3. i - 1 \in 1 .. Len(Tail(q)) /\ (i - 1) + 1 = i BY <1>0, <2>2
  <2>4. Tail(q)[i - 1] = q[i] BY <1>0, <2>3
  <2>5. <<i - 1, k>> \in A BY <2>1, <2>3, <2>4 DEF ByteSet
  <2>6. <<<<i - 1, k>>[1] + 1, <<i - 1, k>>[2]>> = u BY <2>1, <2>3
  <2> QED BY <2>5, <2>6
<1>3. \A t, u \in A : g[t] = g[u] => t = u
  <2> SUFFICES ASSUME NEW t \in A, NEW u \in A, <<t[1] + 1, t[2]>> = <<u[1] + 1, u[2]>> PROVE t = u
    OBVIOUS
  <2>1. t \in Nat \X Nat /\ u \in Nat \X Nat BY <1>0, SizeAssumption DEF ByteSet
  <2>2. t[1] + 1 = u[1] + 1 /\ t[2] = u[2] OBVIOUS
  <2>3. t = <<t[1], t[2]>> /\ u = <<u[1], u[2]>> /\ t[1] \in Nat /\ u[1] \in Nat BY <2>1
  <2> QED BY <2>2, <2>3
<1>4. g \in Bijection(A, B)
  <2>1. g \in [A -> B] BY <1>1
  <2> HIDE DEF A, B
  <2> QED BY <1>2, <1>3, <2>1 DEF Bijection, Injection, Surjection, IsInjective
<1>5. IsFiniteSet(A) /\ Cardinality(A) \in Nat BY <1>0, BytesFinite DEF Bytes
<1>6. IsFiniteSet(B) /\ Cardinality(B) = Cardinality(A)
  <2> HIDE DEF A, B, g
  <2> QED BY <1>4, <1>5, FS_Bijection DEF ExistsBijection
<1>7. F \subseteq ByteSet(q)
  <2> SUFFICES ASSUME NEW k \in 1 .. Size(Head(q)) PROVE <<1, k>> \in ByteSet(q) OBVIOUS
  <2>1. q[1].op = "data" /\ k <= q[1].len /\ k \in 1 .. ChunkSize /\ 1 \in 1 .. Len(q)
    BY <1>0, SizeType, SizeAssumption, InputFacts DEF Size
  <2> QED BY <2>1 DEF ByteSet
<1>8. IsFiniteSet(F) /\ Cardinality(F) = Size(Head(q)) BY <1>0, BytesOfOne
<1>9. Size(Head(q)) \in Nat BY <1>0, SizeType, SizeAssumption
<1>10. ByteSet(q) = B \cup F /\ B \cap F = {} BY <1>7
<1>11. Bytes(q) = Cardinality(ByteSet(q)) /\ Bytes(Tail(q)) = Cardinality(A) BY DEF Bytes
<1> HIDE DEF A, B, F
<1>12. Cardinality(B \cup F) = Cardinality(B) + Cardinality(F) - Cardinality(B \cap F)
  BY <1>6, <1>8, FS_Union
<1>13. Cardinality(B \cap F) = 0 BY <1>10, FS_EmptySet
<1> QED BY <1>5, <1>6, <1>8, <1>9, <1>10, <1>11, <1>12, <1>13

-----------------------------------------------------------------------------
(* The firmware's part of every step is a step of Peripheral.              *)

LEMMA RequestsAreInputs ==
    /\ Read \in Inputs /\ Control(ResetStats) \in Inputs
    /\ Cccd("bulk", TRUE) \in Inputs /\ Cccd("bulk", FALSE) \in Inputs
    /\ Cccd("level", TRUE) \in Inputs
    /\ \A n \in Totals : Control(StartStream(n)) \in Inputs
    /\ \A k \in 1 .. ChunkSize : Upload(k) \in Inputs
    /\ \A i \in 1 .. 4 : MonitorRequests[i] \in Inputs
<1>1. PICK v \in EchoVals : v = CHOOSE x \in EchoVals : TRUE
  BY InputsAssumption
<1>2. \A x \in CallInputs : x \in Inputs BY InputsAssumption
<1>3. [op |-> "echo", val |-> CHOOSE x \in EchoVals : TRUE] \in CallInputs
  BY <1>1 DEF CallInputs
<1>4. /\ Read \in CallInputs /\ Control(ResetStats) \in CallInputs
      /\ Cccd("bulk", TRUE) \in CallInputs /\ Cccd("bulk", FALSE) \in CallInputs
      /\ Cccd("level", TRUE) \in CallInputs
      /\ \A n \in Totals : Control(StartStream(n)) \in CallInputs
      /\ \A k \in 1 .. ChunkSize : Upload(k) \in CallInputs
  BY DEF CallInputs
<1>5. /\ MonitorRequests[1] = Read /\ MonitorRequests[2] = Read
      /\ MonitorRequests[3] = [op |-> "echo", val |-> CHOOSE x \in EchoVals : TRUE]
      /\ MonitorRequests[4] = Cccd("level", TRUE)
  BY DEF MonitorRequests
<1>6. \A i \in 1 .. 4 : i = 1 \/ i = 2 \/ i = 3 \/ i = 4 OBVIOUS
<1> QED BY <1>2, <1>3, <1>4, <1>5, <1>6

-----------------------------------------------------------------------------
(* What the central's variables hold.                                      *)
CallPcs == {"none", "write", "ack", "poll", "read", "next", "drop", "off", "wait"}

CentralType ==
    /\ link \in BOOLEAN /\ pend \in {"none", "sent", "answered"}
    /\ call = [op |-> call.op, pc |-> call.pc, n |-> call.n, got |-> call.got, left |-> call.left]
    /\ call.op \in Ops /\ call.pc \in CallPcs /\ call.left \in Nat
    /\ call.op = "start" => call.n \in Totals
    /\ call.op = "monitor" /\ call.pc \in {"write", "ack"} => call.got \in 0 .. 3
    /\ uploads \in [sent : Nat, lost : Nat]
    /\ answer \in [stats : Stats, sent : Nat, lost : Nat]

(* A call has a request outstanding only at the awaits of its answer, and  *)
(* upload_test_pattern never.                                              *)
Outstanding ==
    /\ call.op \in {"none", "upload"} => pend = "none"
    /\ call.op = "none" => call.pc = "none"
    /\ call.op = "reset" => call.pc \in {"write", "ack", "poll", "read"}
    /\ call.pc \in {"none", "write", "poll", "next", "drop", "wait"} => pend = "none"

(* The central and the firmware are on the same connection.                *)
Together == link /\ slot = "Connected"

(* On its own connection nothing is outstanding that the central does not  *)
(* wait for, and nothing is written behind a request.                      *)
InStep ==
    /\ link /\ slot # "Disconnected" /\ waiting => pend = "sent"
    /\ \A i \in 1 .. Len(gattq) : IsRequest(gattq[i]) => i = Len(gattq)

(* A response the session has made and the central has not seen.           *)
Response == spc = "reply" \/ \E i \in 1 .. Len(out) : out[i] = "rsp"

(* The reset has been carried out, and nothing came after it.              *)
Cleared == rx = 0 /\ uploads.sent = 0 /\ uploads.lost = 0 /\ Bytes(gattq) = 0

Coming == pend = "answered" \/ (Together /\ Response)

(* Where reset_bulk_stats is: its own request is in the queue or has been  *)
(* carried out, and its reads are answered from what follows.              *)
ResetOnItsWay ==
    call.op = "reset" =>
        /\ call.pc = "ack" /\ Coming => Cleared
        /\ call.pc \in {"poll", "read"} => Cleared
        /\ call.pc = "read" /\ Coming => answer.sent = answer.lost
        /\ call.pc = "ack" /\ Together =>
               \A i \in 1 .. Len(gattq) : IsRequest(gattq[i]) => IsReset(gattq[i])
        /\ call.pc = "read" /\ Together =>
               \A i \in 1 .. Len(gattq) : IsRequest(gattq[i]) => gattq[i] = Read

(* UploadsAccounted, and also while no link is up.                         *)
Accounted ==
    ResetAt(gattq) = {} =>
        (rx + Bytes(gattq) + uploads.lost) % CounterMod = uploads.sent % CounterMod

(* The answer of a read tells the uploads before it.                       *)
AnswerTells == (answer.stats.rx + answer.lost) % CounterMod = answer.sent % CounterMod

CInv ==
    /\ CentralType /\ Outstanding /\ InStep /\ ResetOnItsWay /\ Accounted /\ AnswerTells
    /\ StatsTellUploads /\ ResetIsClean

-----------------------------------------------------------------------------
(* The firmware's steps and the loss of the link, as Peripheral's steps.   *)
LEMMA ArrivesStep ==
    ASSUME NEW r \in Inputs, Arrives(r)
    PROVE  [Next]_vars
BY DEF Arrives, Next, Radio

LEMMA AskStep ==
    ASSUME NEW r \in Inputs, Ask(r)
    PROVE  [Next]_vars
BY ArrivesStep DEF Ask

\* The request a call of one request makes.
LEMMA OneRequestIs ==
    /\ DOMAIN OneRequest = {"stats", "start", "notify"}
    /\ OneRequest["stats"] = Read
    /\ OneRequest["start"] = Control(StartStream(call.n))
    /\ OneRequest["notify"] = Cccd("level", TRUE)
BY DEF OneRequest

\* What a chunk of an upload has.
LEMMA UploadLenIs ==
    ASSUME CentralType, call.left > 0
    PROVE  UploadLen \in 1 .. ChunkSize /\ UploadLen <= call.left
BY SizeAssumption DEF UploadLen, CentralType

LEMMA FirmwareStep == CentralType /\ [TransfersNext]_allVars => [Next]_vars
<1> SUFFICES ASSUME CentralType, [TransfersNext]_allVars PROVE [Next]_vars
  OBVIOUS
<1> USE RequestsAreInputs
<1>1. CASE Firmware \/ FwLinkLost \/ FwReset
  BY <1>1 DEF Firmware, FwOther, FwAccept, FwChunk, FwDrop, FwSend, FwLinkLost, FwReset, Next,
     Lifecycle, Session, TxRunner, CustomTask, Radio
<1>2. ASSUME NEW p \in Peers, Connect(p) PROVE [Next]_vars
  BY <1>2 DEF Connect, Next, Radio
<1>3. CASE LinkNoticed \/ StreamOver \/ Fails \/ ResetAcked \/ Polled \/ RequestDone \/ UploadDone
           \/ Subscribed \/ ReceiveChunk \/ ReceiveEnds \/ ReceiveDone \/ MonitorAnswered
  BY <1>3 DEF LinkNoticed, StreamOver, Fails, ResetAcked, Polled, RequestDone, UploadDone,
     Subscribed, ReceiveChunk, ReceiveEnds, ReceiveDone, MonitorAnswered, local
<1>4. ASSUME NEW op, NEW n, Begin(op, n) PROVE [Next]_vars
  BY <1>4 DEF Begin, local
<1>5. CASE ResetWrite \/ Poll \/ Subscribe \/ Unsubscribe
  BY <1>5, AskStep DEF ResetWrite, Poll, Subscribe, Unsubscribe
<1>6. CASE RequestWrite
  <2>1. OneRequest[call.op] \in Inputs
    BY <1>6, OneRequestIs DEF RequestWrite, CentralType
  <2> QED BY <1>6, <2>1, AskStep DEF RequestWrite
<1>7. CASE MonitorAsk
  <2>1. call.got + 1 \in 1 .. 4 BY <1>7 DEF MonitorAsk, CentralType
  <2> QED BY <1>7, <2>1, AskStep DEF MonitorAsk
<1>8. CASE Timer
  BY <1>8, AskStep DEF Timer, local
<1>9. CASE UploadChunk
  <2>1. Upload(UploadLen) \in Inputs BY <1>9, UploadLenIs DEF UploadChunk
  <2> QED BY <1>9, <2>1, ArrivesStep DEF UploadChunk
<1>10. CASE UNCHANGED allVars
  BY <1>10 DEF allVars
<1> QED BY <1>1, <1>2, <1>3, <1>4, <1>5, <1>6, <1>7, <1>8, <1>9, <1>10 DEF TransfersNext, Api

-----------------------------------------------------------------------------
(* What the firmware's invariant says of the wire.                         *)
Wire ==
    /\ gattq \in Seq(Inputs) /\ out \in Seq(Kinds) /\ held # "rsp"
    /\ slot \in {"Disconnected", "Connecting", "Connected"} /\ waiting \in BOOLEAN
    /\ rx \in 0 .. CounterMod - 1 /\ stats \in Stats /\ stats.rx = rx
    /\ slot # "Connected" => gattq = <<>>
    /\ slot = "Disconnected" => ~waiting
    /\ phase = "accept" => out = <<>>

LEMMA WireFacts == IndInv => Wire
BY TypeParts DEF IndInv, Wire, QueueType, ScalarType, LinkType, StatsMatch, Coupling, LinkInPhase, Kinds,
   Chars, Stats

\* A request or a response in the firmware makes the central wait.
LEMMA AnswerAwaited ==
    ASSUME IndInv, slot = "Connected"
    PROVE  /\ Response => waiting
           /\ \A i \in 1 .. Len(gattq) : IsRequest(gattq[i]) => waiting /\ ~Response
BY DEF IndInv, SingleAnswer, Response

\* A response more in the channel is one.
LEMMA ResponseAppend ==
    ASSUME NEW q \in Seq(Kinds), NEW k \in Kinds
    PROVE  (\E i \in 1 .. Len(Append(q, k)) : Append(q, k)[i] = "rsp")
              <=> (k = "rsp" \/ \E i \in 1 .. Len(q) : q[i] = "rsp")
<1>1. Len(Append(q, k)) = Len(q) + 1 /\ Append(q, k)[Len(q) + 1] = k
      /\ (\A i \in 1 .. Len(q) : Append(q, k)[i] = q[i]) /\ Len(q) \in Nat
  OBVIOUS
<1>2. \A i \in 1 .. Len(q) + 1 : i = Len(q) + 1 \/ i \in 1 .. Len(q) BY <1>1
<1>3. \A i \in 1 .. Len(q) : i \in 1 .. Len(q) + 1 BY <1>1
<1>4. Len(q) + 1 \in 1 .. Len(q) + 1 BY <1>1
<1> QED BY <1>1, <1>2, <1>3, <1>4

LEMMA ResponseTail ==
    ASSUME NEW q \in Seq(Kinds), q # <<>>, NEW i \in 1 .. Len(Tail(q)), Tail(q)[i] = "rsp"
    PROVE  \E j \in 1 .. Len(q) : q[j] = "rsp"
<1>1. Len(Tail(q)) = Len(q) - 1 /\ Tail(q)[i] = q[i + 1] /\ Len(q) \in Nat OBVIOUS
<1>2. i + 1 \in 1 .. Len(q) BY <1>1
<1> QED BY <1>1, <1>2

-----------------------------------------------------------------------------
(* Steps of the firmware that neither take a request nor send.             *)
Calm ==
    /\ UNCHANGED <<link, call, pend, uploads, answer, result>>
    /\ UNCHANGED <<gattq, rx, waiting>>
    /\ slot' = slot \/ (slot = "Connecting" /\ slot' = "Connected")
    /\ Response' => Response
    /\ slot # slot' => ~Response'

LEMMA CalmKeeps == Wire /\ CInv /\ Calm => CInv'
<1> SUFFICES ASSUME Wire, CInv, Calm PROVE CInv'
  OBVIOUS
<1>1. Together' => Together \/ gattq = <<>> BY DEF Calm, Together, Wire
<1>2. Together' /\ Response' => Together /\ Response BY DEF Calm, Together
<1>3. Coming' => Coming BY <1>2 DEF Coming, Calm
<1>4. Cleared' <=> Cleared BY DEF Calm, Cleared
<1>5. CentralType' /\ Outstanding' BY DEF CInv, Calm, CentralType, Outstanding
<1>6. InStep' BY DEF CInv, Calm, InStep
<1>7. ResetOnItsWay'
  BY <1>1, <1>3, <1>4 DEF CInv, Calm, ResetOnItsWay
<1>8. Accounted' /\ AnswerTells' /\ StatsTellUploads' /\ ResetIsClean'
  BY DEF CInv, Calm, Accounted, AnswerTells, StatsTellUploads, ResetIsClean
<1> QED BY <1>5, <1>6, <1>7, <1>8 DEF CInv

LEMMA OtherIsCalm == IndInv /\ Wire /\ FwOther => Calm
<1> SUFFICES ASSUME IndInv, Wire, FwOther PROVE Calm
  OBVIOUS
<1> USE DEF lifeVars, linkVars, cccdVars, attrVars, countVars, taskVars, centralVars, wireVars
<1>1. UNCHANGED <<link, call, pend, uploads, answer, result>> BY DEF FwOther
<1>2. CASE Advertising \/ SessionOver \/ SessionEvent \/ StreamStart \/ StreamCount \/ StreamFinish
           \/ EchoClear \/ EchoNothing \/ TaskWake \/ RxOtherEvent
  BY <1>1, <1>2 DEF Calm, Response, Advertising, SessionOver, SessionEvent, StreamStart, StreamCount,
     StreamFinish, EchoClear, EchoNothing, TaskWake, RxOtherEvent
<1>3. CASE Connected
  BY <1>1, <1>3 DEF Calm, Response, Connected, Wire
<1>4. CASE SessionReply
  BY <1>1, <1>4 DEF Calm, Response, SessionReply
<1>5. CASE TaskUnblocked
  <2>1. out' = Append(out, held) /\ held # "rsp" /\ held \in Kinds
    BY <1>5, TypeParts DEF TaskUnblocked, Wire, IndInv, ScalarType
  <2>2. Response' => Response
    BY <1>5, <2>1, ResponseAppend DEF Wire, Response, TaskUnblocked
  <2> QED BY <1>1, <1>5, <2>2 DEF Calm, TaskUnblocked
<1>6. CASE EchoNotify \/ LevelNotify
  <2>1. out' = out \/ out' = Append(out, "echo") \/ out' = Append(out, "level")
    BY <1>6 DEF EchoNotify, LevelNotify, Notify
  <2>2. spc' = spc BY <1>6 DEF EchoNotify, LevelNotify
  <2>3. Response' => Response
    BY <2>1, <2>2, ResponseAppend DEF Wire, Response, Kinds
  <2> QED BY <1>1, <1>6, <2>3 DEF Calm, EchoNotify, LevelNotify
<1> QED BY <1>2, <1>3, <1>4, <1>5, <1>6 DEF FwOther

LEMMA ChunkIsCalm == Wire /\ FwChunk => Calm
<1> SUFFICES ASSUME Wire, FwChunk PROVE Calm
  OBVIOUS
<1> USE DEF lifeVars, linkVars, cccdVars, attrVars, countVars, centralVars
<1>1. out' = out \/ out' = Append(out, "bulk")
  BY DEF FwChunk, StreamChunk, Notify
<1>2. Response' => Response
  BY <1>1, ResponseAppend DEF FwChunk, StreamChunk, Wire, Response, Kinds
<1> QED BY <1>2 DEF Calm, FwChunk, StreamChunk

LEMMA DropIsCalm == Wire /\ FwDrop => Calm
<1> SUFFICES ASSUME Wire, FwDrop PROVE Calm
  OBVIOUS
<1> USE DEF lifeVars, linkVars, cccdVars, attrVars, countVars, taskVars, centralVars
<1>1. out' = Tail(out) /\ out # <<>> /\ spc' = spc BY DEF FwDrop, TxDrop
<1>2. Response' => Response
  BY <1>1, ResponseTail DEF Wire, Response
<1> QED BY <1>2 DEF Calm, FwDrop, TxDrop

-----------------------------------------------------------------------------
(* A response, or a notification, leaves.                                  *)
LEMMA SendKeeps == Wire /\ CInv /\ FwSend => CInv'
<1> SUFFICES ASSUME Wire, CInv, FwSend PROVE CInv'
  OBVIOUS
<1> USE DEF lifeVars, linkVars, cccdVars, attrVars, countVars, taskVars
<1>1. /\ UNCHANGED <<gattq, rx, slot, spc, link, call, result, answer, uploads>>
      /\ out' = Tail(out) /\ out # <<>> /\ slot = "Connected"
      /\ waiting' = (waiting /\ Head(out) # "rsp")
      /\ pend' = IF Head(out) = "rsp" /\ link /\ pend = "sent" THEN "answered" ELSE pend
  BY DEF FwSend, TxSend
<1>2. Response' => Response BY <1>1, ResponseTail DEF Wire, Response
<1>3. Head(out) = "rsp" => Response
  <2>1. Head(out) = out[1] /\ 1 \in 1 .. Len(out) BY <1>1 DEF Wire
  <2> QED BY <2>1 DEF Response
<1>4. Together' <=> Together BY <1>1 DEF Together
<1>5. Coming' => Coming BY <1>1, <1>2, <1>3, <1>4 DEF Coming, Together
<1>6. Cleared' <=> Cleared BY <1>1 DEF Cleared
<1>7. CentralType' BY <1>1 DEF CInv, CentralType
<1>8. Outstanding' BY <1>1 DEF CInv, Outstanding
<1>9. InStep' BY <1>1 DEF CInv, InStep
<1>10. ResetOnItsWay' BY <1>1, <1>4, <1>5, <1>6 DEF CInv, ResetOnItsWay
<1>11. Accounted' /\ AnswerTells' /\ StatsTellUploads' /\ ResetIsClean'
  BY <1>1 DEF CInv, Accounted, AnswerTells, StatsTellUploads, ResetIsClean
<1> QED BY <1>7, <1>8, <1>9, <1>10, <1>11 DEF CInv

-----------------------------------------------------------------------------
(* The session takes a request: the queue, the counter and what is told.   *)

\* The rest of a queue without its head.
LEMMA QueueTail ==
    ASSUME NEW q \in Seq(Inputs), q # <<>>
    PROVE  /\ Head(q) \in Inputs /\ Tail(q) \in Seq(Inputs) /\ Head(q) = q[1] /\ 1 \in 1 .. Len(q)
           /\ Len(q) \in Nat /\ Len(Tail(q)) = Len(q) - 1
           /\ \A i \in 1 .. Len(Tail(q)) : Tail(q)[i] = q[i + 1] /\ i + 1 \in 1 .. Len(q)
OBVIOUS

\* A request at the head is the whole queue.
LEMMA RequestAlone ==
    ASSUME Wire, InStep, gattq # <<>>, IsRequest(Head(gattq))
    PROVE  Len(gattq) = 1 /\ Tail(gattq) = <<>> /\ Bytes(Tail(gattq)) = 0 /\ Bytes(gattq) = 0
<1>1. Len(gattq) = 1 /\ gattq \in Seq(Inputs) /\ Head(gattq) = gattq[1]
  BY QueueTail DEF Wire, InStep
<1>2. Tail(gattq) = <<>> BY <1>1
<1>3. <<>> \in Seq(Inputs) /\ \A i \in 1 .. Len(<<>>) : <<>>[i].op # "data" OBVIOUS
<1>4. Bytes(<<>>) = 0 BY <1>3, NoBytes
<1>5. \A i \in 1 .. Len(gattq) : gattq[i].op # "data" BY <1>1 DEF IsRequest
<1>6. Bytes(gattq) = 0 BY <1>1, <1>5, NoBytes
<1> QED BY <1>1, <1>2, <1>4, <1>6

\* What FwAccept changes, of what the invariant is about.
LEMMA AcceptChange ==
    ASSUME Wire, FwAccept
    PROVE  /\ gattq # <<>> /\ slot = "Connected" /\ gattq' = Tail(gattq)
           /\ UNCHANGED <<slot, waiting, link, call, pend, result>>
           /\ rx' = RxAfter(Head(gattq))
           /\ Response' => Response \/ (IsRequest(Head(gattq)) /\ PacketFree)
           /\ answer' = IF Head(gattq) = Read /\ PacketFree
                        THEN [stats |-> stats, sent |-> uploads.sent, lost |-> uploads.lost]
                        ELSE answer
           /\ uploads' = IF IsReset(Head(gattq)) THEN [sent |-> Bytes(Tail(gattq)), lost |-> 0]
                         ELSE uploads
<1> USE DEF lifeVars, linkVars, cccdVars, attrVars, countVars, taskVars, centralVars
<1>1. gattq # <<>> /\ gattq' = Tail(gattq) BY DEF FwAccept, SessionAccept, SessionAcceptFails
<1>2. UNCHANGED <<slot, waiting, link, call, pend, result>>
  BY DEF FwAccept, SessionAccept, SessionAcceptFails
<1>3. rx' = RxAfter(Head(gattq))
  BY DEF FwAccept, SessionAccept, SessionAcceptFails, HandleGattEvent
<1>4. Response' => Response \/ (IsRequest(Head(gattq)) /\ PacketFree)
  <2>1. CASE SessionAccept
    BY <2>1 DEF SessionAccept, Replies, Response
  <2>2. CASE SessionAcceptFails
    BY <2>2 DEF SessionAcceptFails, Response
  <2> QED BY <2>1, <2>2 DEF FwAccept
<1> QED BY <1>1, <1>2, <1>3, <1>4 DEF FwAccept, Wire

\* Taking a request keeps the sum.
LEMMA AcceptAccounted ==
    ASSUME Wire, CInv, FwAccept
    PROVE  Accounted'
<1> DEFINE r == Head(gattq)
           B == Bytes(Tail(gattq))
<1> SUFFICES ASSUME ResetAt(Tail(gattq)) = {}
             PROVE  (rx' + B + uploads'.lost) % CounterMod = uploads'.sent % CounterMod
  BY AcceptChange DEF Accounted
<1>1. r \in Inputs /\ Tail(gattq) \in Seq(Inputs) /\ gattq # <<>>
  BY AcceptChange, QueueTail DEF Wire
<1>2. B \in Nat /\ Bytes(gattq) \in Nat /\ Bytes(gattq) = B + Size(r)
  BY <1>1, BytesFinite, BytesTail DEF Wire
<1>3. CASE IsReset(r)
  <2>1. rx' = 0 /\ uploads' = [sent |-> B, lost |-> 0]
    BY <1>3, AcceptChange DEF RxAfter
  <2> QED BY <1>2, <2>1
<1>4. CASE ~IsReset(r)
  <2>1. ResetAt(gattq) = {}
    <3> SUFFICES ASSUME NEW i \in 1 .. Len(gattq), IsReset(gattq[i]) PROVE FALSE
      BY DEF ResetAt
    <3>1. i # 1 BY <1>1, <1>4, QueueTail DEF Wire
    <3>2. i - 1 \in 1 .. Len(Tail(gattq)) /\ Tail(gattq)[i - 1] = gattq[i]
      BY <1>1, <3>1, QueueTail DEF Wire
    <3> QED BY <3>2 DEF ResetAt
  <2>2. (rx + Bytes(gattq) + uploads.lost) % CounterMod = uploads.sent % CounterMod
    BY <2>1 DEF CInv, Accounted
  <2>3. uploads' = uploads /\ uploads.lost \in Nat /\ rx \in Nat
    BY <1>4, AcceptChange, SizeAssumption DEF Wire, CInv, CentralType
  <2>4. CASE r.op # "data"
    <3>1. rx' = rx /\ Size(r) = 0 BY <1>4, <2>4, AcceptChange DEF RxAfter, Size
    <3>2. Bytes(gattq) = B BY <1>2, <3>1
    <3> QED BY <2>2, <2>3, <3>1, <3>2
  <2>5. CASE r.op = "data"
    <3>1. rx' = (rx + r.len) % CounterMod /\ Size(r) = r.len /\ r.len \in Nat
      BY <1>1, <1>4, <2>5, AcceptChange, InputFacts, SizeAssumption DEF RxAfter, Size
    <3> DEFINE a == rx + r.len
               c == B + uploads.lost
    <3>2. a \in Int /\ c \in Int /\ CounterMod \in Nat \ {0}
      BY <1>2, <2>3, <3>1, SizeAssumption
    <3>3. rx + Bytes(gattq) + uploads.lost = a + c BY <1>2, <2>3, <3>1
    <3>4. rx' = a % CounterMod BY <3>1
    <3>5. rx' \in Int BY <3>2, <3>4, Division
    <3>6. rx' + B + uploads.lost = (a % CounterMod) + c BY <1>2, <2>3, <3>4, <3>5
    <3> HIDE DEF a, c
    <3>7. ((a % CounterMod) + c) % CounterMod = (a + c) % CounterMod BY <3>2, ModOnce
    <3> QED BY <2>2, <2>3, <3>3, <3>6, <3>7
  <2> QED BY <2>4, <2>5
<1> QED BY <1>3, <1>4

\* A read taken tells what was uploaded before it.
LEMMA AcceptTells ==
    ASSUME Wire, CInv, FwAccept
    PROVE  AnswerTells'
<1>1. CASE Head(gattq) = Read /\ PacketFree
  <2>1. gattq # <<>> /\ IsRequest(Head(gattq)) /\ ~IsReset(Head(gattq))
    BY <1>1, AcceptChange DEF IsRequest, IsReset, Read
  <2>2. Len(gattq) = 1 /\ Bytes(gattq) = 0 /\ gattq[1] = Head(gattq)
    BY <2>1, RequestAlone, QueueTail DEF CInv, Wire
  <2>3. ResetAt(gattq) = {} BY <2>1, <2>2 DEF ResetAt
  <2>4. answer'.stats.rx = rx /\ answer'.sent = uploads.sent /\ answer'.lost = uploads.lost
    BY <1>1, AcceptChange DEF Wire
  <2>5. rx \in Nat /\ rx + Bytes(gattq) + uploads.lost = rx + uploads.lost
    BY <2>2, SizeAssumption DEF Wire, CInv, CentralType
  <2> QED BY <2>3, <2>4, <2>5 DEF CInv, Accounted, AnswerTells
<1>2. CASE ~(Head(gattq) = Read /\ PacketFree)
  BY <1>2, AcceptChange DEF CInv, AnswerTells
<1> QED BY <1>1, <1>2

\* Once a reset is carried out nothing taken changes that.
LEMMA AcceptCleared ==
    ASSUME Wire, CInv, FwAccept, Cleared
    PROVE  Cleared'
<1>1. Head(gattq) \in Inputs /\ Bytes(Tail(gattq)) \in Nat
      /\ Bytes(gattq) = Bytes(Tail(gattq)) + Size(Head(gattq))
  BY AcceptChange, QueueTail, BytesFinite, BytesTail DEF Wire
<1>2. Size(Head(gattq)) \in Nat BY <1>1, SizeType, SizeAssumption
<1>3. Size(Head(gattq)) = 0 /\ Bytes(Tail(gattq)) = 0 BY <1>1, <1>2 DEF Cleared
<1>4. Head(gattq).op # "data" BY <1>1, <1>3, InputFacts, SizeAssumption DEF Size
<1>5. rx' = 0 BY <1>4, AcceptChange DEF RxAfter, Cleared
<1>6. uploads'.sent = 0 /\ uploads'.lost = 0
  <2>1. CASE IsReset(Head(gattq)) BY <1>3, <2>1, AcceptChange
  <2>2. CASE ~IsReset(Head(gattq)) BY <2>2, AcceptChange DEF Cleared
  <2> QED BY <2>1, <2>2
<1>7. Bytes(gattq') = 0 BY <1>3, AcceptChange
<1> QED BY <1>5, <1>6, <1>7 DEF Cleared

\* And a reset taken from behind everything else clears.
LEMMA ResetClears ==
    ASSUME Wire, CInv, FwAccept, IsReset(Head(gattq))
    PROVE  Cleared'
<1>1. IsRequest(Head(gattq)) BY DEF IsReset, IsRequest
<1>2. Bytes(Tail(gattq)) = 0 BY <1>1, AcceptChange, RequestAlone DEF CInv
<1>3. rx' = 0 BY AcceptChange DEF RxAfter
<1>4. uploads'.sent = 0 /\ uploads'.lost = 0 BY <1>2, AcceptChange
<1>5. Bytes(gattq') = 0 BY <1>2, AcceptChange
<1> QED BY <1>3, <1>4, <1>5 DEF Cleared

LEMMA AcceptReset ==
    ASSUME Wire, CInv, FwAccept
    PROVE  ResetOnItsWay'
<1> SUFFICES ASSUME call.op = "reset"
             PROVE  /\ call.pc = "ack" /\ Coming' => Cleared'
                    /\ call.pc \in {"poll", "read"} => Cleared'
                    /\ call.pc = "read" /\ Coming' => answer'.sent = answer'.lost
                    /\ call.pc = "ack" /\ Together =>
                           \A i \in 1 .. Len(gattq') : IsRequest(gattq'[i]) => IsReset(gattq'[i])
                    /\ call.pc = "read" /\ Together =>
                           \A i \in 1 .. Len(gattq') : IsRequest(gattq'[i]) => gattq'[i] = Read
  BY AcceptChange DEF ResetOnItsWay, Together
<1> DEFINE r == Head(gattq)
<1>1. Coming' => Coming \/ (Together /\ IsRequest(r) /\ PacketFree)
  BY AcceptChange DEF Coming, Together
<1>2. \A i \in 1 .. Len(gattq') : \E j \in 1 .. Len(gattq) : gattq'[i] = gattq[j]
  BY AcceptChange, QueueTail DEF Wire
<1>3. \E j \in 1 .. Len(gattq) : r = gattq[j]
  BY AcceptChange, QueueTail DEF Wire
<1>4. ASSUME call.pc = "ack", Coming' PROVE Cleared'
  <2>1. CASE Coming
    BY <1>4, <2>1, AcceptCleared DEF CInv, ResetOnItsWay
  <2>2. CASE Together /\ IsRequest(r)
    BY <1>3, <1>4, <2>2, ResetClears DEF CInv, ResetOnItsWay
  <2> QED BY <1>1, <1>4, <2>1, <2>2
<1>5. ASSUME call.pc \in {"poll", "read"} PROVE Cleared'
  BY <1>5, AcceptCleared DEF CInv, ResetOnItsWay
<1>6. ASSUME call.pc = "read", Coming' PROVE answer'.sent = answer'.lost
  <2>1. Cleared BY <1>6 DEF CInv, ResetOnItsWay
  <2>2. CASE Coming
    BY <1>6, <2>1, <2>2, AcceptChange DEF CInv, ResetOnItsWay, Cleared
  <2>3. CASE Together /\ IsRequest(r) /\ PacketFree
    <3>1. r = Read BY <1>3, <1>6, <2>3 DEF CInv, ResetOnItsWay
    <3> QED BY <2>1, <2>3, <3>1, AcceptChange DEF Cleared
  <2> QED BY <1>1, <1>6, <2>2, <2>3
<1>7. ASSUME call.pc = "ack", Together
      PROVE  \A i \in 1 .. Len(gattq') : IsRequest(gattq'[i]) => IsReset(gattq'[i])
  BY <1>2, <1>7 DEF CInv, ResetOnItsWay
<1>8. ASSUME call.pc = "read", Together
      PROVE  \A i \in 1 .. Len(gattq') : IsRequest(gattq'[i]) => gattq'[i] = Read
  BY <1>2, <1>8 DEF CInv, ResetOnItsWay
<1> QED BY <1>4, <1>5, <1>6, <1>7, <1>8

LEMMA AcceptKeeps == Wire /\ CInv /\ FwAccept => CInv'
<1> SUFFICES ASSUME Wire, CInv, FwAccept PROVE CInv'
  OBVIOUS
<1>1. CentralType'
  <2>1. Bytes(Tail(gattq)) \in Nat BY AcceptChange, QueueTail, BytesFinite DEF Wire
  <2>2. uploads' \in [sent : Nat, lost : Nat] BY <2>1, AcceptChange DEF CInv, CentralType
  <2>3. answer' \in [stats : Stats, sent : Nat, lost : Nat]
    BY AcceptChange DEF CInv, CentralType, Wire
  <2> QED BY <2>2, <2>3, AcceptChange DEF CInv, CentralType
<1>2. Outstanding' BY AcceptChange DEF CInv, Outstanding
<1>3. InStep'
  <2>1. ASSUME NEW i \in 1 .. Len(gattq'), IsRequest(gattq'[i]) PROVE i = Len(gattq')
    <3>1. i + 1 \in 1 .. Len(gattq) /\ gattq'[i] = gattq[i + 1] /\ Len(gattq') = Len(gattq) - 1
          /\ Len(gattq) \in Nat
      BY AcceptChange, QueueTail DEF Wire
    <3>2. i + 1 = Len(gattq) BY <2>1, <3>1 DEF CInv, InStep
    <3> QED BY <3>1, <3>2
  <2> QED BY <2>1, AcceptChange DEF CInv, InStep
<1>4. StatsTellUploads' /\ ResetIsClean' BY AcceptChange DEF CInv, StatsTellUploads, ResetIsClean
<1> QED BY <1>1, <1>2, <1>3, <1>4, AcceptAccounted, AcceptTells, AcceptReset DEF CInv

-----------------------------------------------------------------------------
(* The link is lost, found lost, made anew; the firmware starts again.     *)

LEMMA EmptyQueue == <<>> \in Seq(Inputs) /\ Bytes(<<>>) = 0 /\ Len(<<>>) = 0
<1>1. <<>> \in Seq(Inputs) /\ Len(<<>>) = 0 /\ \A i \in 1 .. Len(<<>>) : <<>>[i].op # "data"
  OBVIOUS
<1> QED BY <1>1, NoBytes

LEMMA LossKeeps == Wire /\ CInv /\ (FwLinkLost \/ FwReset) => CInv'
<1> SUFFICES ASSUME Wire, CInv, FwLinkLost \/ FwReset PROVE CInv'
  OBVIOUS
<1> USE DEF centralVars
<1>1. /\ UNCHANGED <<link, call, pend, answer, result>>
      /\ slot' = "Disconnected" /\ gattq' = <<>> /\ waiting' = FALSE
      /\ uploads' = [sent |-> rx', lost |-> 0] /\ (rx' = rx \/ rx' = 0)
  BY DEF FwLinkLost, FwReset, RxDisconnectionComplete, SoftwareReset, attrVars, countVars
<1>2. rx' \in Nat /\ rx' \in Int BY <1>1, SizeAssumption DEF Wire
<1>3. Bytes(gattq') = 0 BY <1>1, EmptyQueue
<1>4. Cleared => Cleared'
  <2>1. rx = 0 => rx' = 0 /\ uploads'.sent = 0 /\ uploads'.lost = 0 BY <1>1
  <2> QED BY <1>3, <2>1 DEF Cleared
<1>5. ~Together' /\ (Coming' => Coming) BY <1>1 DEF Together, Coming
<1>6. CentralType' /\ Outstanding' BY <1>1, <1>2 DEF CInv, CentralType, Outstanding
<1>7. InStep' BY <1>1, EmptyQueue DEF InStep
<1>8. ResetOnItsWay' BY <1>1, <1>4, <1>5 DEF CInv, ResetOnItsWay
<1>9. Accounted'
  <2>1. rx' + Bytes(gattq') + uploads'.lost = uploads'.sent BY <1>1, <1>2, <1>3
  <2> QED BY <2>1 DEF Accounted
<1>10. AnswerTells' /\ StatsTellUploads' /\ ResetIsClean'
  BY <1>1 DEF CInv, AnswerTells, StatsTellUploads, ResetIsClean
<1> QED BY <1>6, <1>7, <1>8, <1>9, <1>10 DEF CInv

LEMMA LinkKeeps ==
    ASSUME Wire, CInv, LinkNoticed \/ \E p \in Peers : Connect(p)
    PROVE  CInv'
<1> USE DEF lifeVars, cccdVars, attrVars, countVars, taskVars, vars, linkVars, wireVars
<1>1. /\ UNCHANGED <<call, gattq, rx, waiting, spc, out, answer, uploads, result>>
      /\ link' \in BOOLEAN /\ pend' \in {"none", "sent", "answered"}
      /\ ~Together'
      /\ pend' = pend \/ (pend' = "none" /\ call.op = "none" /\ slot = "Disconnected")
      /\ link' => slot = "Disconnected"
  <2>1. ASSUME LinkNoticed
        PROVE  /\ UNCHANGED <<call, gattq, rx, waiting, spc, out, answer, uploads, result>>
               /\ link' = FALSE /\ pend' = pend
    BY <2>1 DEF LinkNoticed
  <2>2. ASSUME NEW p \in Peers, Connect(p)
        PROVE  /\ UNCHANGED <<call, gattq, rx, waiting, spc, out, answer, uploads, result>>
               /\ link' = TRUE /\ pend' = "none" /\ call = NoCall
               /\ slot = "Disconnected" /\ slot' = "Connecting"
    BY <2>2 DEF Connect, RxConnectionComplete
  <2>3. pend \in {"none", "sent", "answered"} BY DEF CInv, CentralType
  <2>4. CASE LinkNoticed
    BY <2>1, <2>3, <2>4 DEF Together
  <2>5. CASE \E p \in Peers : Connect(p)
    <3>1. PICK p \in Peers : Connect(p) BY <2>5
    <3>2. /\ UNCHANGED <<call, gattq, rx, waiting, spc, out, answer, uploads, result>>
          /\ link' = TRUE /\ pend' = "none" /\ call = NoCall
          /\ slot = "Disconnected" /\ slot' = "Connecting"
      BY <2>2, <3>1
    <3>3. ~Together' BY <3>2 DEF Together
    <3>4. call.op = "none" BY <3>2 DEF NoCall
    <3> QED BY <3>2, <3>3, <3>4
  <2> QED BY <2>4, <2>5
<1>2. Coming' => Coming BY <1>1 DEF Coming
<1>3. Cleared' <=> Cleared BY <1>1 DEF Cleared
<1>4. CentralType' BY <1>1 DEF CInv, CentralType
<1>5. Outstanding' BY <1>1 DEF CInv, Outstanding
<1>6. InStep' BY <1>1 DEF CInv, InStep, Wire
<1>7. ResetOnItsWay' BY <1>1, <1>2, <1>3 DEF CInv, ResetOnItsWay
<1>8. Accounted' /\ AnswerTells' /\ StatsTellUploads' /\ ResetIsClean'
  BY <1>1 DEF CInv, Accounted, AnswerTells, StatsTellUploads, ResetIsClean
<1> QED BY <1>4, <1>5, <1>6, <1>7, <1>8 DEF CInv

-----------------------------------------------------------------------------
(* Steps inside the central.                                               *)

LEMMA LocalKeeps ==
    ASSUME Wire, CInv, UNCHANGED local, CentralType', Outstanding',
           pend' = pend \/ pend # "sent" \/ ~link,
           call'.op = "reset" => call'.pc = "write" \/ (call'.pc = "poll" /\ Cleared),
           StatsTellUploads', ResetIsClean'
    PROVE  CInv'
<1>1. UNCHANGED <<slot, gattq, rx, waiting, link, answer, uploads>>
  BY DEF local, vars, linkVars, countVars, wireVars
<1>2. Cleared' <=> Cleared BY <1>1 DEF Cleared
<1>3. InStep' BY <1>1 DEF CInv, InStep
<1>4. ResetOnItsWay' BY <1>1, <1>2 DEF ResetOnItsWay
<1>5. Accounted' /\ AnswerTells' BY <1>1 DEF CInv, Accounted, AnswerTells
<1> QED BY <1>3, <1>4, <1>5 DEF CInv

LEMMA ResultSame ==
    ASSUME CInv, result' = result
    PROVE  StatsTellUploads' /\ ResetIsClean'
BY DEF CInv, StatsTellUploads, ResetIsClean

\* What a call returns is true.
LEMMA ReturnTells ==
    ASSUME CInv, NEW b \in BOOLEAN, Return(b),
           call.op = "reset" /\ b => answer.stats = Zero /\ answer.sent = answer.lost
    PROVE  StatsTellUploads' /\ ResetIsClean' /\ call' = NoCall
<1>1. result' = [op |-> call.op, n |-> call.n, ok |-> b,
                 stats |-> answer.stats, sent |-> answer.sent, lost |-> answer.lost]
  BY DEF Return
<1>2. answer.stats.rx \in 0 .. CounterMod - 1 /\ answer.lost \in Int /\ answer.sent \in Int
      /\ CounterMod \in Nat \ {0}
  BY SizeAssumption DEF CInv, CentralType, Stats
<1>3. answer.stats.rx = (answer.sent - answer.lost) % CounterMod
  BY <1>2, ModMinus DEF CInv, AnswerTells
<1>4. StatsTellUploads' BY <1>1, <1>3 DEF StatsTellUploads
<1>5. ResetIsClean' BY <1>1 DEF ResetIsClean
<1> QED BY <1>4, <1>5 DEF Return

\* A call ends.
LEMMA EndKeeps ==
    ASSUME Wire, CInv, UNCHANGED local, NEW b \in BOOLEAN, Return(b), pend' = "none",
           pend # "sent" \/ ~link,
           call.op = "reset" /\ b => answer.stats = Zero /\ answer.sent = answer.lost
    PROVE  CInv'
<1>1. StatsTellUploads' /\ ResetIsClean' /\ call' = NoCall BY ReturnTells
<1>2. UNCHANGED <<link, answer, uploads>> BY DEF local, wireVars
<1>3. CentralType' BY <1>1, <1>2 DEF CInv, CentralType, NoCall, Ops, CallPcs
<1>4. Outstanding' BY <1>1 DEF Outstanding, NoCall
<1>5. call'.op # "reset" BY <1>1 DEF NoCall
<1> QED BY <1>1, <1>3, <1>4, <1>5, LocalKeeps

LEMMA EndsKeep ==
    ASSUME Wire, CInv,
           Fails \/ RequestDone \/ UploadDone \/ ReceiveDone \/ StreamOver
    PROVE  CInv'
<1>1. CASE Fails
  BY <1>1, EndKeeps DEF Fails
<1>2. CASE RequestDone
  <2>1. call.op # "reset" BY <1>2, OneRequestIs DEF RequestDone
  <2> QED BY <1>2, <2>1, EndKeeps DEF RequestDone, Answered
<1>3. CASE UploadDone
  <2>1. call.op # "reset" /\ pend = "none" BY <1>3 DEF UploadDone, CInv, Outstanding
  <2> QED BY <1>3, <2>1, EndKeeps DEF UploadDone
<1>4. CASE ReceiveDone
  <2>1. call.op = "receive" BY <1>4 DEF ReceiveDone
  <2>2. pend' = "none" /\ pend # "sent"
    BY <1>4 DEF ReceiveDone, Answered, CInv, Outstanding
  <2>3. (call.got >= call.n) \in BOOLEAN OBVIOUS
  <2> QED BY <1>4, <2>1, <2>2, <2>3, EndKeeps DEF ReceiveDone
<1>5. CASE StreamOver
  <2>1. pend = "none" BY <1>5 DEF StreamOver, CInv, Outstanding
  <2> QED BY <1>5, <2>1, EndKeeps DEF StreamOver
<1> QED BY <1>1, <1>2, <1>3, <1>4, <1>5

\* A call goes on, inside the central.
LEMMA GoesOn ==
    ASSUME Wire, CInv, UNCHANGED local, result' = result, CentralType', Outstanding',
           pend' = pend \/ pend # "sent",
           call'.op = "reset" => call'.pc = "write" \/ (call'.pc = "poll" /\ Cleared)
    PROVE  CInv'
BY ResultSame, LocalKeeps

LEMMA LocalType == UNCHANGED local => UNCHANGED <<link, answer, uploads>>
BY DEF local, wireVars

LEMMA StepsKeep ==
    ASSUME Wire, CInv,
           ResetAcked \/ Subscribed \/ ReceiveChunk \/ ReceiveEnds \/ MonitorAnswered
    PROVE  CInv'
<1>1. CASE ResetAcked
  <2>1. /\ UNCHANGED local /\ result' = result /\ pend' = "none" /\ pend = "answered"
        /\ call' = [call EXCEPT !.pc = "poll", !.left = Polls]
        /\ call.op = "reset" /\ call.pc = "ack"
    BY <1>1 DEF ResetAcked, Answered, Step
  <2>2. Cleared BY <2>1 DEF CInv, ResetOnItsWay, Coming
  <2>3. CentralType' BY <2>1, LocalType, TransfersAssumption DEF CInv, CentralType, CallPcs
  <2>4. Outstanding' BY <2>1 DEF CInv, CentralType, Outstanding
  <2> QED BY <2>1, <2>2, <2>3, <2>4, GoesOn DEF CInv, CentralType
<1>2. CASE Subscribed
  <2>1. /\ UNCHANGED local /\ result' = result /\ pend' = "none" /\ pend = "answered"
        /\ call' = [call EXCEPT !.pc = "next"] /\ call.op = "receive"
    BY <1>2 DEF Subscribed, Answered, Step
  <2>2. CentralType' BY <2>1, LocalType DEF CInv, CentralType, CallPcs
  <2>3. Outstanding' BY <2>1 DEF CInv, CentralType, Outstanding
  <2> QED BY <2>1, <2>2, <2>3, GoesOn DEF CInv, CentralType
<1>3. CASE ReceiveChunk \/ ReceiveEnds
  <2>1. /\ UNCHANGED local /\ result' = result /\ pend' = pend
        /\ call.op = "receive" /\ call.pc = "next"
        /\ \/ \E g : call' = [call EXCEPT !.got = g]
           \/ call' = [call EXCEPT !.pc = "drop"]
    BY <1>3 DEF ReceiveChunk, ReceiveEnds, Step
  <2>2. CentralType' BY <2>1, LocalType DEF CInv, CentralType, CallPcs
  <2>3. Outstanding' BY <2>1 DEF CInv, CentralType, Outstanding
  <2>4. call'.op = "receive" BY <2>1 DEF CInv, CentralType
  <2> QED BY <2>1, <2>2, <2>3, <2>4, GoesOn
<1>4. CASE MonitorAnswered
  <2>1. /\ UNCHANGED local /\ result' = result /\ pend' = "none" /\ pend = "answered"
        /\ call.op = "monitor"
        /\ \/ call' = [call EXCEPT !.pc = "write", !.got = @ + 1]
              /\ call.pc = "ack" /\ call.got + 1 < Len(MonitorRequests)
           \/ call' = [call EXCEPT !.pc = "wait"]
    BY <1>4 DEF MonitorAnswered, Answered, Step
  <2>2. Len(MonitorRequests) = 4 BY DEF MonitorRequests
  <2>3. CentralType'
    <3>1. CASE call' = [call EXCEPT !.pc = "wait"]
      BY <2>1, <3>1, LocalType DEF CInv, CentralType, CallPcs
    <3>2. CASE /\ call' = [call EXCEPT !.pc = "write", !.got = @ + 1]
               /\ call.pc = "ack" /\ call.got + 1 < Len(MonitorRequests)
      <4>1. call.got \in 0 .. 3 /\ call.got + 1 \in 0 .. 3 BY <2>1, <2>2, <3>2 DEF CInv, CentralType
      <4>2. /\ call'.op = "monitor" /\ call'.pc = "write" /\ call'.got = call.got + 1
            /\ call'.left = call.left /\ call'.n = call.n
            /\ call' = [op |-> call'.op, pc |-> call'.pc, n |-> call'.n, got |-> call'.got,
                        left |-> call'.left]
        BY <2>1, <3>2 DEF CInv, CentralType
      <4> QED BY <2>1, <4>1, <4>2, LocalType DEF CInv, CentralType, CallPcs
    <3> QED BY <2>1, <3>1, <3>2
  <2>4. Outstanding' BY <2>1 DEF CInv, CentralType, Outstanding
  <2>5. call'.op = "monitor" BY <2>1 DEF CInv, CentralType
  <2> QED BY <2>1, <2>3, <2>4, <2>5, GoesOn
<1> QED BY <1>1, <1>2, <1>3, <1>4

\* The stats read by a reset_bulk_stats are looked at.
LEMMA PolledKeeps == Wire /\ CInv /\ Polled => CInv'
<1> SUFFICES ASSUME Wire, CInv, Polled PROVE CInv'
  OBVIOUS
<1>1. UNCHANGED local /\ pend' = "none" /\ pend = "answered" /\ call.op = "reset" /\ call.pc = "read"
  BY DEF Polled, Answered
<1>2. answer.sent = answer.lost /\ Cleared BY <1>1 DEF CInv, ResetOnItsWay, Coming
<1>3. CASE answer.stats = Zero /\ Return(TRUE)
  BY <1>1, <1>2, <1>3, EndKeeps
<1>4. CASE Return(FALSE)
  BY <1>1, <1>4, EndKeeps
<1>5. CASE call.left > 1 /\ Step([call EXCEPT !.pc = "poll", !.left = @ - 1]) /\ result' = result
  <2>1. call' = [call EXCEPT !.pc = "poll", !.left = @ - 1] /\ call.left - 1 \in Nat
    BY <1>5 DEF Step, CInv, CentralType
  <2>2. CentralType' BY <1>1, <2>1, LocalType DEF CInv, CentralType, CallPcs
  <2>3. Outstanding' BY <1>1, <2>1 DEF CInv, CentralType, Outstanding
  <2>4. call'.pc = "poll" BY <2>1 DEF CInv, CentralType
  <2> QED BY <1>1, <1>2, <1>5, <2>2, <2>3, <2>4, GoesOn
<1> QED BY <1>3, <1>4, <1>5 DEF Polled

LEMMA BeginKeeps ==
    ASSUME Wire, CInv, NEW op \in Ops \ {"none"}, NEW n \in Totals \cup {0}, Begin(op, n),
           op = "start" => n \in Totals
    PROVE  CInv'
<1>1. /\ UNCHANGED local /\ result' = result /\ pend' = pend /\ call = NoCall
      /\ call' = [op |-> op, pc |-> "write", n |-> n, got |-> 0, left |-> n]
  BY DEF Begin, Step
<1>2. n \in Nat BY TransfersAssumption, SizeAssumption
<1>3. CentralType' BY <1>1, <1>2, LocalType DEF CInv, CentralType, CallPcs
<1>4. pend = "none" BY <1>1 DEF CInv, Outstanding, NoCall
<1>5. Outstanding' BY <1>1, <1>4 DEF Outstanding
<1> QED BY <1>1, <1>3, <1>5, GoesOn

-----------------------------------------------------------------------------
(* Requests.                                                               *)

\* A request of the central on its way to the firmware.
LEMMA AskChange ==
    ASSUME NEW r \in Inputs, Ask(r), IsRequest(r), Wire, IndInv, CInv
    PROVE  /\ UNCHANGED <<link, slot, rx, out, spc, answer, uploads, result>>
           /\ link = TRUE /\ pend' = "sent" /\ ~Coming'
           /\ Together => \A i \in 1 .. Len(gattq) : ~IsRequest(gattq[i])
           /\ gattq' = gattq \/ gattq' = Append(gattq, r)
           /\ ~Together => gattq' = gattq
<1> USE DEF lifeVars, linkVars, cccdVars, attrVars, countVars, taskVars, vars, wireVars
<1>1. link = TRUE /\ pend = "none" /\ pend' = "sent" /\ Arrives(r)
      /\ UNCHANGED <<link, result, answer, uploads>>
  BY DEF Ask, CInv, CentralType
<1>2. UNCHANGED <<slot, rx, out, spc>> BY <1>1 DEF Arrives, RxGatt
<1>3. gattq' = gattq \/ (gattq' = Append(gattq, r) /\ slot = "Connected")
  BY <1>1 DEF Arrives, RxGatt
<1>4. slot # "Disconnected" => ~waiting BY <1>1 DEF CInv, InStep
<1>5. slot = "Connected" => ~Response /\ \A i \in 1 .. Len(gattq) : ~IsRequest(gattq[i])
  BY <1>4, AnswerAwaited
<1>6. Response' <=> Response BY <1>2 DEF Response
<1>7. ~Coming' BY <1>1, <1>2, <1>5, <1>6 DEF Coming, Together
<1> QED BY <1>1, <1>2, <1>3, <1>5, <1>7 DEF Together

\* The queue with one more.
LEMMA QueueAppend ==
    ASSUME NEW q \in Seq(Inputs), NEW r \in Inputs
    PROVE  /\ Append(q, r) # q /\ Len(Append(q, r)) = Len(q) + 1 /\ Len(q) \in Nat
           /\ Append(q, r)[Len(q) + 1] = r
           /\ \A i \in 1 .. Len(q) : Append(q, r)[i] = q[i]
           /\ \A i \in 1 .. Len(Append(q, r)) : i = Len(q) + 1 \/ i \in 1 .. Len(q)
<1>1. Len(Append(q, r)) = Len(q) + 1 /\ Append(q, r)[Len(q) + 1] = r /\ Len(q) \in Nat
      /\ \A i \in 1 .. Len(q) : Append(q, r)[i] = q[i]
  OBVIOUS
<1>2. Append(q, r) # q BY <1>1
<1> QED BY <1>1, <1>2

LEMMA AppendReset ==
    ASSUME NEW q \in Seq(Inputs), NEW r \in Inputs, ResetAt(Append(q, r)) = {}
    PROVE  ResetAt(q) = {}
<1> SUFFICES ASSUME NEW i \in 1 .. Len(q), IsReset(q[i]) PROVE FALSE
  BY DEF ResetAt
<1>1. i \in 1 .. Len(Append(q, r)) /\ Append(q, r)[i] = q[i] BY QueueAppend
<1> QED BY <1>1 DEF ResetAt

LEMMA AskKeeps ==
    ASSUME NEW r \in Inputs, Ask(r), IsRequest(r), Wire, IndInv, CInv, CentralType', Outstanding',
           call'.op = "reset" => \/ call'.pc = "ack" /\ IsReset(r)
                                 \/ call.op = "reset" /\ call.pc = "poll"
                                    /\ call'.pc = "read" /\ r = Read
    PROVE  CInv'
<1> USE AskChange
<1>1. StatsTellUploads' /\ ResetIsClean' BY ResultSame
<1>2. Size(r) = 0 BY DEF IsRequest, Size
<1>3. Bytes(gattq') = Bytes(gattq)
  <2>1. gattq \in Seq(Inputs) BY DEF Wire
  <2>2. Bytes(gattq) \in Nat /\ Bytes(Append(gattq, r)) = Bytes(gattq) + 0
    BY <1>2, <2>1, BytesAppend, BytesFinite
  <2>3. CASE gattq' = gattq
    BY ONLY <2>3
  <2>4. CASE gattq' = Append(gattq, r)
    <3>1. Bytes(gattq') = Bytes(Append(gattq, r)) BY ONLY <2>4
    <3> QED BY ONLY <2>2, <3>1
  <2> QED BY <2>3, <2>4
<1>4. Cleared => Cleared' BY <1>3 DEF Cleared
<1>5. Together' <=> Together BY DEF Together
<1>6. \A i \in 1 .. Len(gattq') :
          IsRequest(gattq'[i]) => (Together => gattq'[i] = r) /\ i = Len(gattq')
  <2>1. CASE gattq' = gattq
    BY <2>1 DEF CInv, InStep
  <2>2. CASE gattq' = Append(gattq, r) /\ Together
    <3> SUFFICES ASSUME NEW i \in 1 .. Len(gattq'), IsRequest(gattq'[i])
                 PROVE  gattq'[i] = r /\ i = Len(gattq')
      OBVIOUS
    <3>1. gattq \in Seq(Inputs) BY DEF Wire
    <3>2. /\ Len(gattq') = Len(gattq) + 1 /\ gattq'[Len(gattq) + 1] = r
          /\ i = Len(gattq) + 1 \/ i \in 1 .. Len(gattq)
          /\ \A j \in 1 .. Len(gattq) : gattq'[j] = gattq[j]
      BY <2>2, <3>1, QueueAppend
    <3> QED BY <2>2, <3>2
  <2> QED BY <2>1, <2>2
<1>7. InStep' BY <1>6 DEF InStep
<1>8. ResetOnItsWay'
  BY <1>4, <1>5, <1>6 DEF CInv, ResetOnItsWay
<1>9. Accounted'
  <2> SUFFICES ASSUME ResetAt(gattq') = {}
               PROVE  (rx' + Bytes(gattq') + uploads'.lost) % CounterMod = uploads'.sent % CounterMod
    BY DEF Accounted
  <2>1. ResetAt(gattq) = {} BY AppendReset DEF Wire
  <2> QED BY <1>3, <2>1 DEF CInv, Accounted
<1>10. AnswerTells' BY DEF CInv, AnswerTells
<1> QED BY <1>1, <1>7, <1>8, <1>9, <1>10 DEF CInv

LEMMA AsksKeep ==
    ASSUME Wire, IndInv, CInv,
           ResetWrite \/ Poll \/ RequestWrite \/ Subscribe \/ Unsubscribe \/ MonitorAsk
    PROVE  CInv'
<1> USE RequestsAreInputs
<1>1. CASE ResetWrite
  <2>1. Ask(Control(ResetStats)) /\ call' = [call EXCEPT !.pc = "ack"] /\ call.op = "reset"
    BY <1>1 DEF ResetWrite, Step
  <2>2. IsRequest(Control(ResetStats)) /\ IsReset(Control(ResetStats))
    BY DEF IsRequest, IsReset, Control
  <2>3. CentralType' /\ call'.pc = "ack"
    BY <2>1, <2>2, AskChange DEF CInv, CentralType, CallPcs
  <2>4. Outstanding' BY <2>1, <2>2, <2>3, AskChange DEF CInv, CentralType, Outstanding
  <2> QED BY <2>1, <2>2, <2>3, <2>4, AskKeeps
<1>2. CASE Poll
  <2>1. Ask(Read) /\ call' = [call EXCEPT !.pc = "read"] /\ call.op = "reset" /\ call.pc = "poll"
    BY <1>2 DEF Poll, Step
  <2>2. IsRequest(Read) BY DEF IsRequest, Read
  <2>3. CentralType' /\ call'.pc = "read"
    BY <2>1, <2>2, AskChange DEF CInv, CentralType, CallPcs
  <2>4. Outstanding' BY <2>1, <2>2, <2>3, AskChange DEF CInv, CentralType, Outstanding
  <2> QED BY <2>1, <2>2, <2>3, <2>4, AskKeeps
<1>3. CASE RequestWrite
  <2>1. /\ Ask(OneRequest[call.op]) /\ call' = [call EXCEPT !.pc = "ack"]
        /\ call.op \in {"stats", "start", "notify"}
    BY <1>3, OneRequestIs DEF RequestWrite, Step
  <2>2. OneRequest[call.op] \in Inputs /\ IsRequest(OneRequest[call.op])
    <3>1. CASE call.op = "stats"
      BY <3>1, OneRequestIs DEF IsRequest, Read
    <3>2. CASE call.op = "start"
      <4>1. call.n \in Totals BY <3>2 DEF CInv, CentralType
      <4> QED BY <3>2, <4>1, OneRequestIs DEF IsRequest, Control
    <3>3. CASE call.op = "notify"
      BY <3>3, OneRequestIs DEF IsRequest, Cccd
    <3> QED BY <2>1, <3>1, <3>2, <3>3
  <2>3. CentralType' /\ call'.op = call.op /\ call'.pc = "ack"
    BY <2>1, <2>2, AskChange DEF CInv, CentralType, CallPcs
  <2>4. Outstanding' BY <2>1, <2>2, <2>3, AskChange DEF Outstanding
  <2> QED BY <2>1, <2>2, <2>3, <2>4, AskKeeps
<1>4. CASE Subscribe \/ Unsubscribe
  <2>1. PICK b \in BOOLEAN, x \in {"ack", "off"} :
            Ask(Cccd("bulk", b)) /\ call' = [call EXCEPT !.pc = x] /\ call.op = "receive"
    BY <1>4 DEF Subscribe, Unsubscribe, Step
  <2>2. Cccd("bulk", b) \in Inputs /\ IsRequest(Cccd("bulk", b))
    BY DEF IsRequest, Cccd
  <2>3. CentralType' /\ call'.op = "receive" /\ call'.pc = x
    BY <2>1, <2>2, AskChange DEF CInv, CentralType, CallPcs
  <2>4. Outstanding' BY <2>1, <2>2, <2>3, AskChange DEF Outstanding
  <2> QED BY <2>1, <2>2, <2>3, <2>4, AskKeeps
<1>5. CASE MonitorAsk
  <2>1. /\ Ask(MonitorRequests[call.got + 1]) /\ call' = [call EXCEPT !.pc = "ack"]
        /\ call.op = "monitor" /\ call.pc = "write"
    BY <1>5 DEF MonitorAsk, Step
  <2>2. call.got \in 0 .. 3 /\ call.got + 1 \in 1 .. 4 BY <2>1 DEF CInv, CentralType
  <2>3. MonitorRequests[call.got + 1] \in Inputs BY <2>2
  <2>4. \A i \in 1 .. 4 : IsRequest(MonitorRequests[i])
    BY DEF MonitorRequests, IsRequest, Read, Cccd
  <2>5. IsRequest(MonitorRequests[call.got + 1]) BY <2>2, <2>4
  <2>6. CentralType' /\ call'.op = "monitor" /\ call'.pc = "ack"
    <3>1. UNCHANGED <<link, answer, uploads>> /\ pend' = "sent" BY <2>1, <2>3, <2>5, AskChange
    <3>2. call'.op = "monitor" /\ call'.pc = "ack" /\ call'.got = call.got
      BY <2>1 DEF CInv, CentralType
    <3> QED BY <2>1, <2>2, <3>1, <3>2 DEF CInv, CentralType, CallPcs
  <2>7. Outstanding'
    <3>1. pend' = "sent" BY <2>1, <2>3, <2>5, AskChange
    <3> QED BY <2>6, <3>1 DEF Outstanding
  <2> QED BY <2>1, <2>3, <2>5, <2>6, <2>7, AskKeeps
<1> QED BY <1>1, <1>2, <1>3, <1>4, <1>5

LEMMA TimerKeeps == Wire /\ IndInv /\ CInv /\ Timer => CInv'
<1> SUFFICES ASSUME Wire, IndInv, CInv, Timer PROVE CInv'
  OBVIOUS
<1>1. CASE link /\ Ask(Read) /\ Step([call EXCEPT !.pc = "read"])
  <2>1. IsRequest(Read) /\ Read \in Inputs BY RequestsAreInputs DEF IsRequest, Read
  <2>2. call' = [call EXCEPT !.pc = "read"] /\ call.op = "monitor" BY <1>1 DEF Timer, Step
  <2>3. CentralType' /\ call'.op = "monitor" /\ call'.pc = "read"
    BY <1>1, <2>1, <2>2, AskChange DEF CInv, CentralType, CallPcs
  <2>4. Outstanding' BY <1>1, <2>1, <2>3, AskChange DEF Outstanding
  <2> QED BY <1>1, <2>1, <2>3, <2>4, AskKeeps
<1>2. CASE ~link /\ Return(FALSE) /\ UNCHANGED <<local, pend, inbox, calls>>
  <2>1. pend = "none" /\ call.op = "monitor" BY DEF Timer, CInv, Outstanding
  <2> QED BY <1>2, <2>1, EndKeeps
<1> QED BY <1>1, <1>2 DEF Timer

-----------------------------------------------------------------------------
(* An upload.                                                              *)
LEMMA UploadKeeps == Wire /\ IndInv /\ CInv /\ UploadChunk => CInv'
<1> SUFFICES ASSUME Wire, IndInv, CInv, UploadChunk PROVE CInv'
  OBVIOUS
<1> DEFINE k == UploadLen
           r == Upload(k)
<1> USE DEF lifeVars, linkVars, cccdVars, attrVars, countVars, taskVars, vars
<1>1. /\ call.op = "upload" /\ link = TRUE /\ call.left > 0 /\ pend = "none"
      /\ UNCHANGED <<link, pend, result, answer>>
      /\ Arrives(r) /\ call' = [call EXCEPT !.left = @ - k]
      /\ uploads' = IF slot = "Disconnected" THEN uploads
                    ELSE [sent |-> uploads.sent + k,
                          lost |-> uploads.lost + IF gattq' = gattq THEN k ELSE 0]
  BY DEF UploadChunk, Step, CInv, CentralType, Outstanding
<1>2. k \in 1 .. ChunkSize /\ k <= call.left /\ k \in Nat
  BY <1>1, UploadLenIs, SizeAssumption DEF CInv
<1>3. r \in Inputs /\ ~IsRequest(r) /\ ~IsReset(r) /\ Size(r) = k
  BY <1>2, RequestsAreInputs DEF Upload, IsRequest, IsReset, Size
<1>4. rx' = rx /\ slot' = slot /\ (waiting' = waiting)
  BY <1>1, <1>3 DEF Arrives, RxGatt, Wire
<1>5. gattq' = gattq \/ (gattq' = Append(gattq, r) /\ slot = "Connected")
  BY <1>1 DEF Arrives, RxGatt
<1>6. slot # "Disconnected" => ~waiting BY <1>1 DEF CInv, InStep
<1>7. \A i \in 1 .. Len(gattq) : ~IsRequest(gattq[i])
  <2>1. CASE slot = "Connected" BY <1>6, <2>1, AnswerAwaited
  <2>2. CASE slot # "Connected" BY <2>2, EmptyQueue DEF Wire
  <2> QED BY <2>1, <2>2
<1> HIDE DEF k, r
<1>8. \A i \in 1 .. Len(gattq') : ~IsRequest(gattq'[i])
  <2>1. CASE gattq' = gattq BY <1>7, <2>1
  <2>2. CASE gattq' = Append(gattq, r)
    <3> SUFFICES ASSUME NEW i \in 1 .. Len(gattq') PROVE ~IsRequest(gattq'[i])
      OBVIOUS
    <3>1. gattq \in Seq(Inputs) BY DEF Wire
    <3>2. /\ gattq'[Len(gattq) + 1] = r
          /\ i = Len(gattq) + 1 \/ i \in 1 .. Len(gattq)
          /\ \A j \in 1 .. Len(gattq) : gattq'[j] = gattq[j]
      BY <1>3, <2>2, <3>1, QueueAppend
    <3> QED BY <1>3, <1>7, <3>2
  <2> QED BY <1>5, <2>1, <2>2
<1>9. CentralType'
  <2>1. uploads' \in [sent : Nat, lost : Nat] BY <1>1, <1>2 DEF CInv, CentralType
  <2>2. call.left - k \in Nat BY <1>2 DEF CInv, CentralType
  <2>3. call'.op = call.op /\ call'.pc = call.pc /\ call'.left = call.left - k /\ call'.got = call.got
        /\ call'.n = call.n
        /\ call' = [op |-> call'.op, pc |-> call'.pc, n |-> call'.n, got |-> call'.got,
                    left |-> call'.left]
    BY <1>1 DEF CInv, CentralType
  <2> QED BY <1>1, <2>1, <2>2, <2>3 DEF CInv, CentralType
<1>10. call'.op = "upload" /\ call'.pc = call.pc BY <1>1 DEF CInv, CentralType
<1>11. Outstanding' BY <1>1, <1>10 DEF CInv, Outstanding
<1>12. InStep' BY <1>4, <1>6, <1>8 DEF InStep
<1>13. ResetOnItsWay' BY <1>10 DEF ResetOnItsWay
<1>14. Accounted'
  <2> SUFFICES ASSUME ResetAt(gattq') = {}
               PROVE  (rx' + Bytes(gattq') + uploads'.lost) % CounterMod = uploads'.sent % CounterMod
    BY DEF Accounted
  <2>1. ResetAt(gattq) = {} /\ gattq \in Seq(Inputs) BY <1>3, <1>5, AppendReset DEF Wire
  <2>2. (rx + Bytes(gattq) + uploads.lost) % CounterMod = uploads.sent % CounterMod
    BY <2>1 DEF CInv, Accounted
  <2>3. CASE slot = "Disconnected"
    BY <1>1, <1>4, <1>5, <2>2, <2>3
  <2>4. CASE slot # "Disconnected"
    <3>1. rx \in Nat /\ Bytes(gattq) \in Nat /\ uploads.lost \in Nat /\ uploads.sent \in Nat
      BY <2>1, BytesFinite, SizeAssumption DEF Wire, CInv, CentralType
    <3>2. uploads'.sent = uploads.sent + k
          /\ rx' + Bytes(gattq') + uploads'.lost = (rx + Bytes(gattq) + uploads.lost) + k
      <4>1. CASE gattq' = gattq
        BY <1>1, <1>2, <1>4, <2>4, <3>1, <4>1
      <4>2. CASE gattq' = Append(gattq, r)
        <5>1. gattq' # gattq /\ Bytes(gattq') = Bytes(gattq) + k
          BY <1>3, <2>1, <4>2, QueueAppend, BytesAppend
        <5>2. uploads'.lost = uploads.lost + 0 /\ uploads'.sent = uploads.sent + k
          BY <1>1, <2>4, <5>1
        <5> QED BY <1>2, <1>4, <3>1, <5>1, <5>2
      <4> QED BY <1>5, <4>1, <4>2
    <3> DEFINE a == rx + Bytes(gattq) + uploads.lost
               b == uploads.sent
    <3>3. a \in Int /\ b \in Int /\ k \in Int /\ CounterMod \in Nat \ {0} /\ a % CounterMod = b % CounterMod
      BY <1>2, <2>2, <3>1, SizeAssumption
    <3> HIDE DEF a, b
    <3>4. (a + k) % CounterMod = (b + k) % CounterMod BY <3>3, ModShift
    <3> QED BY <3>2, <3>4 DEF a, b
  <2> QED BY <2>3, <2>4
<1>15. AnswerTells' BY <1>1 DEF CInv, AnswerTells
<1>16. StatsTellUploads' /\ ResetIsClean' BY <1>1, ResultSame
<1> QED BY <1>9, <1>11, <1>12, <1>13, <1>14, <1>15, <1>16 DEF CInv

-----------------------------------------------------------------------------
(* The whole.                                                              *)
LEMMA CInvStep == IndInv /\ CInv /\ [TransfersNext]_allVars => CInv'
<1> SUFFICES ASSUME IndInv, CInv, [TransfersNext]_allVars PROVE CInv'
  OBVIOUS
<1>0. Wire BY WireFacts
<1>1. CASE Firmware \/ FwLinkLost \/ FwReset
  BY <1>0, <1>1, OtherIsCalm, ChunkIsCalm, DropIsCalm, CalmKeeps, SendKeeps, AcceptKeeps, LossKeeps
     DEF Firmware
<1>2. CASE LinkNoticed \/ \E p \in Peers : Connect(p)
  BY <1>0, <1>2, LinkKeeps
<1>3. CASE Fails \/ RequestDone \/ UploadDone \/ ReceiveDone \/ StreamOver
  BY <1>0, <1>3, EndsKeep
<1>4. CASE ResetAcked \/ Subscribed \/ ReceiveChunk \/ ReceiveEnds \/ MonitorAnswered
  BY <1>0, <1>4, StepsKeep
<1>5. CASE ResetWrite \/ Poll \/ RequestWrite \/ Subscribe \/ Unsubscribe \/ MonitorAsk
  BY <1>0, <1>5, AsksKeep
<1>6. CASE Polled \/ Timer \/ UploadChunk
  BY <1>0, <1>6, PolledKeeps, TimerKeeps, UploadKeeps
<1>7. CASE \/ \E op \in {"reset", "stats", "notify", "monitor"} : Begin(op, 0)
           \/ \E op \in {"upload", "start", "receive"}, n \in Totals : Begin(op, n)
  <2>1. {"reset", "stats", "notify", "monitor", "upload", "start", "receive"} \subseteq Ops \ {"none"}
    BY DEF Ops
  <2>2. "start" \notin {"reset", "stats", "notify", "monitor"} OBVIOUS
  <2> QED BY <1>0, <1>7, <2>1, <2>2, BeginKeeps
<1>8. CASE UNCHANGED allVars
  <2>1. UNCHANGED local /\ UNCHANGED <<call, pend, result>>
    BY <1>8 DEF allVars, local, centralVars, wireVars
  <2>2. CentralType' /\ Outstanding'
    BY <2>1, LocalType DEF CInv, CentralType, Outstanding
  <2>3. Calm
    BY <1>8 DEF Calm, Response, allVars, centralVars, wireVars, vars, linkVars, countVars
  <2> QED BY <1>0, <2>3, CalmKeeps
<1> QED BY <1>1, <1>2, <1>3, <1>4, <1>5, <1>6, <1>7, <1>8 DEF TransfersNext, Api

LEMMA CInvInit == TransfersInit => CInv
<1> SUFFICES ASSUME TransfersInit PROVE CInv
  OBVIOUS
<1>1. gattq = <<>> /\ rx = 0 /\ slot = "Disconnected" BY DEF TransfersInit, Init
<1>2. Bytes(gattq) = 0 BY <1>1, EmptyQueue
<1>3. CentralType
  <2>1. 0 \in 0 .. CounterMod - 1 BY SizeAssumption
  <2> QED BY <2>1 DEF TransfersInit, CentralType, NoCall, NoStats, Zero, Stats, Ops, CallPcs
<1>4. Outstanding BY DEF TransfersInit, Outstanding, NoCall
<1>5. InStep BY <1>1, EmptyQueue DEF InStep
<1>6. ResetOnItsWay BY DEF TransfersInit, NoCall, ResetOnItsWay
<1>7. Accounted BY <1>1, <1>2 DEF TransfersInit, Accounted
<1>8. AnswerTells BY DEF TransfersInit, AnswerTells, NoStats, Zero
<1>9. StatsTellUploads /\ ResetIsClean BY DEF TransfersInit, StatsTellUploads, ResetIsClean
<1> QED BY <1>3, <1>4, <1>5, <1>6, <1>7, <1>8, <1>9 DEF CInv

LEMMA TransfersInductive == TransfersSpec => [](IndInv /\ CInv)
<1>1. CInv /\ [TransfersNext]_allVars => [Next]_vars BY FirmwareStep DEF CInv
<1>2. TransfersInit => Init /\ CInv BY CInvInit DEF TransfersInit
<1>3. IndInv /\ CInv /\ [TransfersNext]_allVars => CInv' BY CInvStep
<1>4. Init => IndInv BY InductiveInit
<1>5. IndInv /\ [Next]_vars => IndInv' BY InductiveStep
<1> QED BY <1>1, <1>2, <1>3, <1>4, <1>5, PTL DEF TransfersSpec

(* The firmware in Transfers is the one of Peripheral: whatever is proved  *)
(* of Spec holds of it.                                                    *)
THEOREM FirmwareIsPeripheral == TransfersSpec => Spec
<1>1. CInv /\ [TransfersNext]_allVars => [Next]_vars BY FirmwareStep DEF CInv
<1>2. TransfersInit => Init BY DEF TransfersInit
<1> QED BY <1>1, <1>2, TransfersInductive, PTL DEF TransfersSpec, Spec

(* No upload is counted twice, and none missed but those dropped.          *)
THEOREM UploadsCounted == TransfersSpec => []UploadsAccounted
<1>1. CInv => UploadsAccounted BY DEF CInv, Accounted, UploadsAccounted
<1> QED BY <1>1, TransfersInductive, PTL

(* The stats a read_bulk_stats returns show the uploads written before it. *)
THEOREM StatsAreTold == TransfersSpec => []StatsTellUploads
<1>1. CInv => StatsTellUploads BY DEF CInv
<1> QED BY <1>1, TransfersInductive, PTL

(* After an Ok of reset_bulk_stats everything counted came after the reset.*)
THEOREM ResetsAreClean == TransfersSpec => []ResetIsClean
<1>1. CInv => ResetIsClean BY DEF CInv
<1> QED BY <1>1, TransfersInductive, PTL
=============================================================================
