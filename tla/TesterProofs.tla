----------------------------- MODULE TesterProofs -----------------------------
(***************************************************************************)
(* Proofs about the two modules of the Bluetooth tester, for every value   *)
(* of their constants: what the loop tells of a link is told in order      *)
(* (Tester), and what the command server tells of the controller's         *)
(* settings is true (BtpServer).                                           *)
(***************************************************************************)
EXTENDS Tester, BtpServer, WellFoundedInduction, TLAPS

-----------------------------------------------------------------------------
(* The loop and its links.                                                 *)

Kinds == {"AdvertisingStopped", "DeviceConnected", "DeviceDisconnected", "LinkEvent",
          "DeviceFound", "NotificationReceived"}

OfLink == {"LinkEvent", "DeviceDisconnected"}

Roles == {"peripheral", "central"}

-----------------------------------------------------------------------------
(***************************************************************************)
(* The queue.  Whoever takes events one by one knows the link as up when   *)
(* it comes to event i: a DeviceConnected before i has no                  *)
(* DeviceDisconnected between them, or the link is known as up already and *)
(* no end of it comes first.                                               *)
(***************************************************************************)
NoEnd(queue, from, to) == \A k \in from .. to : queue[k] # "DeviceDisconnected"

UpAt(queue, heard, i) ==
    \/ \E j \in 1 .. i - 1 : queue[j] = "DeviceConnected" /\ NoEnd(queue, j + 1, i - 1)
    \/ heard = "up" /\ NoEnd(queue, 1, i - 1)

QueueOK(queue, heard) ==
    \A i \in 1 .. Len(queue) : queue[i] \in OfLink => UpAt(queue, heard, i)

(* A role task that has told its link, or never will, may tell of it.      *)
Holding == {"serving", "leaving"}

Announces == {<<"AdvertisingStopped", "DeviceConnected">>, <<"DeviceConnected">>}

SaysOK(task) ==
    /\ task.at = "serving" => task.say \in Announces \cup {<<>>, <<"LinkEvent">>}
    /\ task.at = "leaving" => task.say = <<"DeviceDisconnected">>
    /\ task.at \notin Holding => task.say = <<>>

RoleOK(queue, heard, refs, t, task) ==
    /\ SaysOK(task)
    /\ t \in refs <=> task.at \in Holding
    /\ task.at \in Holding /\ task.say \notin Announces => UpAt(queue, heard, Len(queue) + 1)

IsSlot(s) == s = [state |-> s.state, refs |-> s.refs, subscribed |-> s.subscribed]

TellInv ==
    /\ events \in Seq(Kinds)
    /\ IsSlot(slot)
    /\ QueueOK(events, told)
    /\ RoleOK(events, told, slot.refs, "peripheral", peripheral)
    /\ RoleOK(events, told, slot.refs, "central", central)
    /\ ~(peripheral.at \in Holding /\ central.at \in Holding)

-----------------------------------------------------------------------------
(***************************************************************************)
(* The queue grows and shrinks                                             *)
(***************************************************************************)
Sooner(heard, event) ==
    CASE event = "DeviceConnected"    -> "up"
      [] event = "DeviceDisconnected" -> "down"
      [] OTHER                        -> heard

LEMMA AppendKeepsUp ==
    ASSUME NEW queue \in Seq(Kinds), NEW heard, NEW e \in Kinds, NEW i \in 1 .. Len(queue) + 1
    PROVE  UpAt(Append(queue, e), heard, i) <=> UpAt(queue, heard, i)
<1>1. \A k \in 1 .. i - 1 : Append(queue, e)[k] = queue[k]
    OBVIOUS
<1>2. \A from \in 1 .. i : NoEnd(Append(queue, e), from, i - 1) <=> NoEnd(queue, from, i - 1)
    BY <1>1 DEF NoEnd
<1>3. QED
    BY <1>1, <1>2 DEF UpAt

LEMMA AppendExtendsUp ==
    ASSUME NEW queue \in Seq(Kinds), NEW heard, NEW e \in Kinds, e # "DeviceDisconnected",
           e = "DeviceConnected" \/ UpAt(queue, heard, Len(queue) + 1)
    PROVE  UpAt(Append(queue, e), heard, Len(Append(queue, e)) + 1)
<1> DEFINE q == Append(queue, e)
           n == Len(queue)
<1>1. n \in Nat /\ Len(q) = n + 1 /\ q[n + 1] = e /\ \A k \in 1 .. n : q[k] = queue[k]
    OBVIOUS
<1>2. CASE e = "DeviceConnected"
    <2>1. n + 1 \in 1 .. Len(q) + 1 - 1 /\ NoEnd(q, n + 1 + 1, Len(q) + 1 - 1)
        BY <1>1 DEF NoEnd
    <2>2. QED
        BY <2>1, <1>1, <1>2 DEF UpAt
<1>3. CASE UpAt(queue, heard, n + 1)
    <2>1. ASSUME NEW from \in 1 .. n + 1, NoEnd(queue, from, n + 1 - 1)
          PROVE  NoEnd(q, from, Len(q) + 1 - 1)
        BY <2>1, <1>1 DEF NoEnd
    <2>2. CASE heard = "up" /\ NoEnd(queue, 1, n + 1 - 1)
        BY <2>2, <2>1, <1>1 DEF UpAt
    <2>3. CASE \E j \in 1 .. n + 1 - 1 : queue[j] = "DeviceConnected" /\ NoEnd(queue, j + 1, n + 1 - 1)
        <3>1. PICK j \in 1 .. n : queue[j] = "DeviceConnected" /\ NoEnd(queue, j + 1, n + 1 - 1)
            BY <2>3, <1>1
        <3>2. j + 1 \in 1 .. n + 1 /\ q[j] = "DeviceConnected" /\ j \in 1 .. Len(q) + 1 - 1
            BY <3>1, <1>1
        <3>3. NoEnd(q, j + 1, Len(q) + 1 - 1)
            BY <3>1, <3>2, <2>1
        <3>4. QED
            BY <3>2, <3>3 DEF UpAt
    <2>4. QED
        BY <1>3, <2>2, <2>3 DEF UpAt
<1>4. QED
    BY <1>2, <1>3

(* An event of a link goes where the link is known as up.                  *)
LEMMA AppendKeepsOrder ==
    ASSUME NEW queue \in Seq(Kinds), NEW heard, NEW e \in Kinds, QueueOK(queue, heard),
           e \in OfLink => UpAt(queue, heard, Len(queue) + 1)
    PROVE  QueueOK(Append(queue, e), heard)
<1> DEFINE q == Append(queue, e)
<1>1. Len(q) = Len(queue) + 1 /\ q[Len(queue) + 1] = e /\ Len(queue) \in Nat
      /\ \A k \in 1 .. Len(queue) : q[k] = queue[k]
    OBVIOUS
<1>2. ASSUME NEW i \in 1 .. Len(q), q[i] \in OfLink
      PROVE  UpAt(q, heard, i)
    <2>1. i \in 1 .. Len(queue) + 1
        BY <1>1
    <2>2. UpAt(queue, heard, i)
        <3>1. CASE i = Len(queue) + 1
            BY <3>1, <1>1, <1>2
        <3>2. CASE i \in 1 .. Len(queue)
            BY <3>2, <1>1, <1>2 DEF QueueOK
        <3>3. QED
            BY <3>1, <3>2, <2>1, <1>1
    <2>3. QED
        BY <2>1, <2>2, AppendKeepsUp
<1>3. QED
    BY <1>2 DEF QueueOK

LEMMA TailKeepsUp ==
    ASSUME NEW queue \in Seq(Kinds), queue # <<>>, NEW heard, NEW i \in 1 .. Len(queue),
           UpAt(queue, heard, i + 1)
    PROVE  UpAt(Tail(queue), Sooner(heard, Head(queue)), i)
<1> DEFINE q == Tail(queue)
<1>1. Len(queue) \in Nat /\ Len(q) = Len(queue) - 1 /\ Head(queue) = queue[1]
      /\ \A k \in 1 .. Len(queue) - 1 : q[k] = queue[k + 1]
    OBVIOUS
<1>2. ASSUME NEW from \in 1 .. i, NoEnd(queue, from + 1, i)
      PROVE  NoEnd(q, from, i - 1)
    BY <1>1, <1>2 DEF NoEnd
<1>3. CASE heard = "up" /\ NoEnd(queue, 1, i)
    <2>1. NoEnd(queue, 1 + 1, i) /\ Head(queue) # "DeviceDisconnected"
        BY <1>1, <1>3 DEF NoEnd
    <2>2. NoEnd(q, 1, i - 1)
        BY <2>1, <1>2
    <2>3. Sooner(heard, Head(queue)) = "up"
        BY <2>1, <1>3 DEF Sooner
    <2>4. QED
        BY <2>2, <2>3 DEF UpAt
<1>4. CASE \E j \in 1 .. i : queue[j] = "DeviceConnected" /\ NoEnd(queue, j + 1, i)
    <2>1. PICK j \in 1 .. i : queue[j] = "DeviceConnected" /\ NoEnd(queue, j + 1, i)
        BY <1>4
    <2>2. CASE j = 1
        <3>1. Sooner(heard, Head(queue)) = "up"
            BY <2>1, <2>2, <1>1 DEF Sooner
        <3>2. NoEnd(q, 1, i - 1)
            BY <2>1, <2>2, <1>2
        <3>3. QED
            BY <3>1, <3>2 DEF UpAt
    <2>3. CASE j # 1
        <3>1. j - 1 \in 1 .. i - 1 /\ q[j - 1] = "DeviceConnected"
            BY <2>1, <2>3, <1>1
        <3>2. j \in 1 .. i /\ NoEnd(q, j, i - 1) /\ j = (j - 1) + 1
            BY <2>1, <1>2
        <3>3. QED
            BY <3>1, <3>2 DEF UpAt
    <2>4. QED
        BY <2>2, <2>3
<1>5. QED
    BY <1>3, <1>4 DEF UpAt

LEMMA TailKeepsOrder ==
    ASSUME NEW queue \in Seq(Kinds), queue # <<>>, NEW heard, QueueOK(queue, heard)
    PROVE  QueueOK(Tail(queue), Sooner(heard, Head(queue)))
<1> DEFINE q == Tail(queue)
<1>1. Len(queue) \in Nat /\ Len(q) = Len(queue) - 1
      /\ \A k \in 1 .. Len(queue) - 1 : q[k] = queue[k + 1]
    OBVIOUS
<1>2. ASSUME NEW i \in 1 .. Len(q), q[i] \in OfLink
      PROVE  UpAt(q, Sooner(heard, Head(queue)), i)
    <2>1. i + 1 \in 1 .. Len(queue) /\ i \in 1 .. Len(queue) /\ queue[i + 1] \in OfLink
        BY <1>1, <1>2
    <2>2. UpAt(queue, heard, i + 1)
        BY <2>1 DEF QueueOK
    <2>3. QED
        BY <2>1, <2>2, TailKeepsUp
<1>3. QED
    BY <1>2 DEF QueueOK

-----------------------------------------------------------------------------
(***************************************************************************)
(* A role task and the queue                                               *)
(***************************************************************************)
(* Another event is told, which is not of the end of a link.               *)
LEMMA RoleUnderAppend ==
    ASSUME NEW queue \in Seq(Kinds), NEW heard, NEW refs, NEW t, NEW task,
           NEW e \in Kinds \ {"DeviceDisconnected"}, RoleOK(queue, heard, refs, t, task)
    PROVE  RoleOK(Append(queue, e), heard, refs, t, task)
BY AppendExtendsUp DEF RoleOK

LEMMA RoleUnderTail ==
    ASSUME NEW queue \in Seq(Kinds), queue # <<>>, NEW heard, NEW refs, NEW t, NEW task,
           RoleOK(queue, heard, refs, t, task)
    PROVE  RoleOK(Tail(queue), Sooner(heard, Head(queue)), refs, t, task)
<1>1. Len(queue) \in 1 .. Len(queue) /\ Len(Tail(queue)) + 1 = Len(queue)
    OBVIOUS
<1>2. UpAt(queue, heard, Len(queue) + 1) => UpAt(Tail(queue), Sooner(heard, Head(queue)), Len(queue))
    BY <1>1, TailKeepsUp
<1>3. QED
    BY <1>1, <1>2 DEF RoleOK

(* A task that holds no link may be at any place that holds none, and      *)
(* another task's events are not its own.                                  *)
LEMMA RoleWithout ==
    ASSUME NEW queue, NEW heard, NEW refs, NEW queue2, NEW heard2, NEW refs2, NEW t, NEW task, NEW task2,
           RoleOK(queue, heard, refs, t, task), task.at \notin Holding,
           t \in refs2 <=> t \in refs,
           task2.at \notin Holding, task2.say = <<>>
    PROVE  RoleOK(queue2, heard2, refs2, t, task2)
BY DEF RoleOK, SaysOK, Holding

(* SaidSlot's references                                                   *)
Left(task, refs, t) == IF Said(task).at = "idle" THEN refs \ {t} ELSE refs

(* A task tells the next of its events: what it says of its link goes      *)
(* where the link is known, and after its end it holds none.               *)
LEMMA RoleSays ==
    ASSUME NEW queue \in Seq(Kinds), NEW heard, NEW refs, NEW t, NEW task,
           QueueOK(queue, heard), RoleOK(queue, heard, refs, t, task), task.say # <<>>
    PROVE  /\ Head(task.say) \in Kinds
           /\ task.at \in Holding
           /\ QueueOK(Append(queue, Head(task.say)), heard)
           /\ RoleOK(Append(queue, Head(task.say)), heard, Left(task, refs, t), t, Said(task))
<1> DEFINE q == Append(queue, Head(task.say))
<1>1. task.at \in Holding
    BY DEF RoleOK, SaysOK
<1>2. CASE task.at = "leaving"
    <2>1. task.say = <<"DeviceDisconnected">>
        BY <1>2 DEF RoleOK, SaysOK, Holding
    <2>2. /\ Head(task.say) = "DeviceDisconnected" /\ Head(task.say) \in Kinds
          /\ Said(task).at = "idle" /\ Said(task).say = <<>>
        BY <1>2, <2>1 DEF Said, Kinds
    <2>3. task.say \notin Announces
        BY <2>1 DEF Announces
    <2>4. QueueOK(q, heard)
        BY <1>1, <2>2, <2>3, AppendKeepsOrder DEF RoleOK
    <2>5. RoleOK(q, heard, Left(task, refs, t), t, Said(task))
        BY <2>2 DEF RoleOK, SaysOK, Left, Holding
    <2>6. QED
        BY <1>1, <2>2, <2>4, <2>5
<1>3. CASE task.at = "serving"
    <2>1. /\ Said(task).at = "serving" /\ Said(task).say = Tail(task.say)
          /\ Left(task, refs, t) = refs
        BY <1>3 DEF Said, Left
    <2>2. t \in refs
        BY <1>1 DEF RoleOK
    <2>3. CASE task.say = <<"AdvertisingStopped", "DeviceConnected">>
        <3>1. /\ Head(task.say) = "AdvertisingStopped" /\ Head(task.say) \in Kinds
              /\ Tail(task.say) = <<"DeviceConnected">>
              /\ Head(task.say) \notin OfLink
            BY <2>3 DEF Kinds, OfLink
        <3>2. QueueOK(q, heard)
            BY <3>1, AppendKeepsOrder
        <3>3. RoleOK(q, heard, refs, t, Said(task))
            BY <2>1, <2>2, <3>1 DEF RoleOK, SaysOK, Announces, Holding
        <3>4. QED
            BY <1>1, <2>1, <3>1, <3>2, <3>3
    <2>4. CASE task.say = <<"DeviceConnected">>
        <3>1. /\ Head(task.say) = "DeviceConnected" /\ Head(task.say) \in Kinds
              /\ Tail(task.say) = <<>>
              /\ Head(task.say) \notin OfLink
            BY <2>4 DEF Kinds, OfLink
        <3>2. QueueOK(q, heard)
            BY <3>1, AppendKeepsOrder
        <3>3. UpAt(q, heard, Len(q) + 1)
            BY <3>1, AppendExtendsUp
        <3>4. RoleOK(q, heard, refs, t, Said(task))
            BY <2>1, <2>2, <3>1, <3>3 DEF RoleOK, SaysOK, Holding
        <3>5. QED
            BY <1>1, <2>1, <3>1, <3>2, <3>4
    <2>5. CASE task.say = <<"LinkEvent">>
        <3>1. /\ Head(task.say) = "LinkEvent" /\ Head(task.say) \in Kinds
              /\ Tail(task.say) = <<>>
              /\ task.say \notin Announces
            BY <2>5 DEF Kinds, Announces
        <3>2. UpAt(queue, heard, Len(queue) + 1)
            BY <1>1, <3>1 DEF RoleOK
        <3>3. QueueOK(q, heard)
            BY <3>1, <3>2, AppendKeepsOrder
        <3>4. UpAt(q, heard, Len(q) + 1)
            BY <3>1, <3>2, AppendExtendsUp
        <3>5. RoleOK(q, heard, refs, t, Said(task))
            BY <2>1, <2>2, <3>1, <3>4 DEF RoleOK, SaysOK, Holding
        <3>6. QED
            BY <1>1, <2>1, <3>1, <3>3, <3>5
    <2>6. QED
        BY <1>3, <2>3, <2>4, <2>5 DEF RoleOK, SaysOK, Announces
<1>4. QED
    BY <1>1, <1>2, <1>3 DEF Holding

(* Released takes t's reference, and none of another task.                 *)
LEMMA ReleasedRefs ==
    ASSUME NEW t, IsSlot(slot)
    PROVE  IsSlot(Released(t)) /\ Released(t).refs = slot.refs \ {t}
<1> DEFINE left == slot.refs \ {t}
           state == IF left = {} /\ slot.state = "Connected" THEN "DisconnectRequest" ELSE slot.state
<1>1. CASE left = {} /\ slot.state = "Disconnected"
    BY <1>1 DEF Released, NoLink, IsSlot
<1>2. CASE ~(left = {} /\ slot.state = "Disconnected")
    <2>1. Released(t) = [slot EXCEPT !.refs = left, !.state = state]
        BY <1>2 DEF Released
    <2>2. Released(t) = [state |-> state, refs |-> left, subscribed |-> slot.subscribed]
        BY <2>1 DEF IsSlot
    <2>3. QED
        BY <2>2 DEF IsSlot
<1>3. QED
    BY <1>1, <1>2

-----------------------------------------------------------------------------
(***************************************************************************)
(* The steps                                                               *)
(***************************************************************************)
RoleVars == <<events, told, peripheral, central>>

SameRoles(refs) == \A t \in Roles : t \in refs <=> t \in slot.refs

(* Steps that leave the queue and the role tasks as they are, and their    *)
(* references: the loop's, the GATT client's, the link's.                  *)
LEMMA RolesRest ==
    ASSUME TellInv, UNCHANGED RoleVars, IsSlot(slot'), SameRoles(slot'.refs)
    PROVE  TellInv'
<1>1. \A task : \A t \in Roles : RoleOK(events, told, slot.refs, t, task)
                              => RoleOK(events', told', slot'.refs, t, task)
    BY DEF RoleOK, SameRoles, RoleVars
<1>2. QED
    BY <1>1 DEF TellInv, RoleVars, Roles

LEMMA NewSlot ==
    ASSUME IsSlot(slot), NEW new
    PROVE  /\ [slot EXCEPT !.state = new] = [state |-> new, refs |-> slot.refs, subscribed |-> slot.subscribed]
           /\ [slot EXCEPT !.refs = new] = [state |-> slot.state, refs |-> new, subscribed |-> slot.subscribed]
           /\ [slot EXCEPT !.subscribed = new] = [state |-> slot.state, refs |-> slot.refs, subscribed |-> new]
BY DEF IsSlot

LEMMA BtpStep ==
    ASSUME TellInv, (\E t \in Tasks : Forward(t)) \/ Answer \/ Disconnect
    PROVE  TellInv'
<1>1. UNCHANGED RoleVars
    BY DEF Forward, Answer, Disconnect, RoleVars
<1>2. IsSlot(slot') /\ SameRoles(slot'.refs)
    <2>1. CASE UNCHANGED slot
        BY <2>1 DEF TellInv, SameRoles, IsSlot
    <2>2. CASE Disconnect
        BY <2>2, NewSlot DEF Disconnect, TellInv, SameRoles, IsSlot
    <2>3. QED
        BY <2>1, <2>2 DEF Forward, Answer
<1>3. QED
    BY <1>1, <1>2, RolesRest

LEMMA LinkLostStep ==
    ASSUME TellInv, LinkLost
    PROVE  TellInv'
<1>1. UNCHANGED RoleVars
    BY DEF LinkLost, RoleVars
<1>2. IsSlot(slot') /\ SameRoles(slot'.refs)
    <2>1. CASE slot.refs = {}
        BY <2>1 DEF LinkLost, NoLink, IsSlot, SameRoles
    <2>2. CASE slot.refs # {}
        BY <2>2, NewSlot DEF LinkLost, TellInv, IsSlot, SameRoles
    <2>3. QED
        BY <2>1, <2>2
<1>3. QED
    BY <1>1, <1>2, RolesRest

(* The client has a handle of its own, and changes what is subscribed.     *)
LEMMA ClientSlot ==
    ASSUME TellInv, ClientIdle \/ ClientMade \/ ClientReady \/ ClientHears \/ ClientPassesOn \/ ClientNotified
    PROVE  IsSlot(slot') /\ SameRoles(slot'.refs)
<1>1. CASE UNCHANGED slot
    BY <1>1 DEF TellInv, SameRoles, IsSlot
<1>2. CASE slot' = [slot EXCEPT !.refs = @ \cup {"gatt_client"}]
    BY <1>2, NewSlot DEF TellInv, SameRoles, IsSlot, Roles
<1>3. CASE slot' = Released("gatt_client")
    BY <1>3, ReleasedRefs DEF TellInv, SameRoles, Roles
<1>4. CASE \E subscribed : slot' = [slot EXCEPT !.subscribed = subscribed]
    BY <1>4, NewSlot DEF TellInv, SameRoles, IsSlot
<1>5. CASE ClientHears
    <2>1. CASE Configures(client.command)
        <3>1. \E v : slot' = [slot EXCEPT !.subscribed = IF client.command.on THEN @ \cup {v} ELSE @ \ {v}]
            BY <2>1 DEF Configures
        <3>2. QED
            BY <3>1, <1>4
    <2>2. QED
        BY <1>1, <1>5, <2>1 DEF ClientHears, HearsServices, HearsCharacteristics, HearsRequest
<1>6. QED
    BY <1>1, <1>2, <1>3, <1>5 DEF ClientIdle, ClientMade, ClientReady, ClientPassesOn, ClientNotified

LEMMA ClientTells ==
    ASSUME TellInv, ClientIdle \/ ClientMade \/ ClientReady \/ ClientHears \/ ClientNotified
    PROVE  TellInv'
<1>1. UNCHANGED RoleVars
    BY DEF ClientIdle, ClientMade, ClientReady, ClientHears, ClientNotified, RoleVars
<1>2. QED
    BY <1>1, ClientSlot, RolesRest

(* What others than the role tasks put into the queue is not of a link.    *)
LEMMA OtherEvent ==
    ASSUME TellInv, NEW e \in {"DeviceFound", "NotificationReceived"},
           events' = events \/ events' = Append(events, e),
           UNCHANGED <<told, peripheral, central, slot>>
    PROVE  TellInv'
<1>1. CASE events' = events
    BY <1>1 DEF TellInv, RoleOK, IsSlot
<1>2. CASE events' = Append(events, e)
    <2>1. e \in Kinds \ {"DeviceDisconnected"} /\ e \notin OfLink
        BY DEF Kinds, OfLink
    <2>2. events' \in Seq(Kinds) /\ QueueOK(events', told)
        BY <1>2, <2>1, AppendKeepsOrder DEF TellInv
    <2>3. \A task : \A t \in Roles : RoleOK(events, told, slot.refs, t, task)
                                  => RoleOK(events', told, slot.refs, t, task)
        BY <1>2, <2>1, RoleUnderAppend DEF TellInv
    <2>4. QED
        BY <2>2, <2>3 DEF TellInv, Roles, IsSlot
<1>3. QED
    BY <1>1, <1>2

LEMMA TellStep ==
    ASSUME TellInv, Tell
    PROVE  TellInv'
<1>1. events' = Tail(events) /\ events # <<>> /\ told' = Sooner(told, Head(events))
      /\ UNCHANGED <<peripheral, central, slot>>
    BY DEF Tell, TakesEvent, Sooner
<1>2. events' \in Seq(Kinds) /\ QueueOK(events', told')
    BY <1>1, TailKeepsOrder DEF TellInv
<1>3. \A task : \A t \in Roles : RoleOK(events, told, slot.refs, t, task)
                              => RoleOK(events', told', slot.refs, t, task)
    BY <1>1, RoleUnderTail DEF TellInv
<1>4. QED
    BY <1>1, <1>2, <1>3 DEF TellInv, Roles, IsSlot

(***************************************************************************)
(* The role tasks.  What a step of one does to the two, in general: it     *)
(* moves where it holds no link, takes or loses one, or tells.             *)
(***************************************************************************)
(* A task that has nothing to say of a link it serves, or holds none, is   *)
(* answered or moves.                                                      *)
RoleMoves(task, new) ==
    /\ task.say = <<>> /\ new.say = <<>>
    /\ new.at = task.at \/ (task.at \notin Holding /\ new.at \notin Holding)

LEMMA RoleMoved ==
    ASSUME NEW queue, NEW heard, NEW refs, NEW t, NEW task, NEW new,
           RoleOK(queue, heard, refs, t, task), RoleMoves(task, new)
    PROVE  RoleOK(queue, heard, refs, t, new)
BY DEF RoleOK, RoleMoves, SaysOK, Holding, Announces

LEMMA MoveStep ==
    ASSUME TellInv, UNCHANGED <<events, told, slot>>,
           \/ RoleMoves(peripheral, peripheral') /\ UNCHANGED central
           \/ RoleMoves(central, central') /\ UNCHANGED peripheral
    PROVE  TellInv'
<1>1. CASE RoleMoves(peripheral, peripheral') /\ UNCHANGED central
    <2>1. RoleOK(events, told, slot.refs, "peripheral", peripheral')
        BY <1>1, RoleMoved DEF TellInv
    <2>2. peripheral'.at \in Holding => peripheral.at \in Holding
        BY <1>1 DEF RoleMoves
    <2>3. QED
        BY <1>1, <2>1, <2>2 DEF TellInv, IsSlot
<1>2. CASE RoleMoves(central, central') /\ UNCHANGED peripheral
    <2>1. RoleOK(events, told, slot.refs, "central", central')
        BY <1>2, RoleMoved DEF TellInv
    <2>2. central'.at \in Holding => central.at \in Holding
        BY <1>2 DEF RoleMoves
    <2>3. QED
        BY <1>2, <2>1, <2>2 DEF TellInv, IsSlot
<1>3. QED
    BY <1>1, <1>2

(* A link comes up while nobody has a reference to the slot.               *)
LEMMA LinkUpStep ==
    ASSUME TellInv, NEW t \in Roles, LinkUp(t), UNCHANGED <<events, told>>,
           \/ /\ t = "peripheral" /\ UNCHANGED central
              /\ peripheral' = [at |-> "serving", say |-> <<"AdvertisingStopped", "DeviceConnected">>]
           \/ /\ t = "central" /\ UNCHANGED peripheral
              /\ central' = [at |-> "serving", say |-> <<"DeviceConnected">>]
    PROVE  TellInv'
<1>1. slot.refs = {} /\ IsSlot(slot') /\ slot'.refs = {t}
    BY NewSlot DEF LinkUp, NoLink, IsSlot
<1>2. peripheral.at \notin Holding /\ central.at \notin Holding
    BY <1>1 DEF TellInv, RoleOK
<1>3. CASE t = "peripheral"
    <2>1. RoleOK(events, told, slot'.refs, "peripheral", peripheral')
        BY <1>1, <1>3 DEF RoleOK, SaysOK, Announces, Holding
    <2>2. RoleOK(events, told, slot'.refs, "central", central)
        BY <1>1, <1>2, <1>3 DEF TellInv, RoleOK
    <2>3. QED
        BY <1>1, <1>2, <1>3, <2>1, <2>2 DEF TellInv
<1>4. CASE t = "central"
    <2>1. RoleOK(events, told, slot'.refs, "central", central')
        BY <1>1, <1>4 DEF RoleOK, SaysOK, Announces, Holding
    <2>2. RoleOK(events, told, slot'.refs, "peripheral", peripheral)
        BY <1>1, <1>2, <1>4 DEF TellInv, RoleOK
    <2>3. QED
        BY <1>1, <1>2, <1>4, <2>1, <2>2 DEF TellInv
<1>5. QED
    BY <1>3, <1>4 DEF Roles

(* Where a task that serves its link, with nothing left to say, goes on:   *)
(* something of its link to tell, or the end of it.                        *)
Serving == {[at |-> "serving", say |-> <<"LinkEvent">>],
            [at |-> "leaving", say |-> <<"DeviceDisconnected">>]}

LEMMA RoleServes ==
    ASSUME NEW queue, NEW heard, NEW refs, NEW t, NEW task, NEW new \in Serving,
           RoleOK(queue, heard, refs, t, task), Free(task, "serving")
    PROVE  task.at \in Holding /\ RoleOK(queue, heard, refs, t, new)
<1>1. task.at \in Holding /\ task.say \notin Announces
    BY DEF Free, Holding, Announces
<1>2. t \in refs /\ UpAt(queue, heard, Len(queue) + 1)
    BY <1>1 DEF RoleOK
<1>3. SaysOK(new) /\ new.at \in Holding
    BY DEF Serving, SaysOK, Holding
<1>4. QED
    BY <1>1, <1>2, <1>3 DEF RoleOK

LEMMA ServeStep ==
    ASSUME TellInv, UNCHANGED <<events, told, slot>>,
           \/ Free(peripheral, "serving") /\ peripheral' \in Serving /\ UNCHANGED central
           \/ Free(central, "serving") /\ central' \in Serving /\ UNCHANGED peripheral
    PROVE  TellInv'
<1>1. CASE Free(peripheral, "serving") /\ peripheral' \in Serving /\ UNCHANGED central
    <2>1. peripheral.at \in Holding /\ RoleOK(events, told, slot.refs, "peripheral", peripheral')
        BY <1>1, RoleServes DEF TellInv
    <2>2. QED
        BY <1>1, <2>1 DEF TellInv, IsSlot
<1>2. CASE Free(central, "serving") /\ central' \in Serving /\ UNCHANGED peripheral
    <2>1. central.at \in Holding /\ RoleOK(events, told, slot.refs, "central", central')
        BY <1>2, RoleServes DEF TellInv
    <2>2. QED
        BY <1>2, <2>1 DEF TellInv, IsSlot
<1>3. QED
    BY <1>1, <1>2

(* The handle is dropped and nothing is told.                              *)
LEMMA DropStep ==
    ASSUME TellInv, UNCHANGED <<events, told>>, NEW t \in Roles, slot' = Released(t),
           \/ /\ t = "peripheral" /\ Free(peripheral, "serving") /\ UNCHANGED central
              /\ peripheral' = [at |-> "idle", say |-> <<>>]
           \/ /\ t = "central" /\ Free(central, "serving") /\ UNCHANGED peripheral
              /\ central' = [at |-> "idle", say |-> <<>>]
    PROVE  TellInv'
<1>1. IsSlot(slot') /\ slot'.refs = slot.refs \ {t}
    BY ReleasedRefs DEF TellInv
<1>2. CASE t = "peripheral"
    <2>1. RoleOK(events, told, slot'.refs, "peripheral", peripheral')
        BY <1>1, <1>2 DEF RoleOK, SaysOK, Holding
    <2>2. RoleOK(events, told, slot'.refs, "central", central)
        BY <1>1, <1>2 DEF TellInv, RoleOK
    <2>3. QED
        BY <1>1, <1>2, <2>1, <2>2 DEF TellInv, Holding
<1>3. CASE t = "central"
    <2>1. RoleOK(events, told, slot'.refs, "central", central')
        BY <1>1, <1>3 DEF RoleOK, SaysOK, Holding
    <2>2. RoleOK(events, told, slot'.refs, "peripheral", peripheral)
        BY <1>1, <1>3 DEF TellInv, RoleOK
    <2>3. QED
        BY <1>1, <1>3, <2>1, <2>2 DEF TellInv, Holding
<1>4. QED
    BY <1>2, <1>3 DEF Roles

LEMMA SaysStep ==
    ASSUME TellInv, PeripheralSays \/ CentralSays
    PROVE  TellInv'
<1>1. CASE PeripheralSays
    <2> DEFINE e == Head(peripheral.say)
               new == Said(peripheral)
               left == Left(peripheral, slot.refs, "peripheral")
    <2>1. /\ peripheral.say # <<>> /\ events' = Append(events, e) /\ peripheral' = new
          /\ slot' = SaidSlot("peripheral", peripheral) /\ UNCHANGED <<central, told>>
        BY <1>1 DEF PeripheralSays, Says
    <2>2. /\ e \in Kinds /\ peripheral.at \in Holding
          /\ QueueOK(Append(events, e), told)
          /\ RoleOK(Append(events, e), told, left, "peripheral", new)
        BY <2>1, RoleSays DEF TellInv
    <2>3. IsSlot(slot') /\ slot'.refs = left
        BY <2>1, ReleasedRefs DEF TellInv, SaidSlot, Left
    <2>4. central.at \notin Holding /\ central.say = <<>>
        BY <2>2 DEF TellInv, RoleOK, SaysOK
    <2>5. RoleOK(events', told, left, "central", central)
        BY <2>4, RoleWithout DEF TellInv, Left
    <2>6. events' \in Seq(Kinds)
        BY <2>1, <2>2 DEF TellInv
    <2>7. QED
        BY <2>1, <2>2, <2>3, <2>4, <2>5, <2>6 DEF TellInv
<1>2. CASE CentralSays
    <2> DEFINE e == Head(central.say)
               new == Said(central)
               left == Left(central, slot.refs, "central")
    <2>1. /\ central.say # <<>> /\ events' = Append(events, e) /\ central' = new
          /\ slot' = SaidSlot("central", central) /\ UNCHANGED <<peripheral, told>>
        BY <1>2 DEF CentralSays, Says
    <2>2. /\ e \in Kinds /\ central.at \in Holding
          /\ QueueOK(Append(events, e), told)
          /\ RoleOK(Append(events, e), told, left, "central", new)
        BY <2>1, RoleSays DEF TellInv
    <2>3. IsSlot(slot') /\ slot'.refs = left
        BY <2>1, ReleasedRefs DEF TellInv, SaidSlot, Left
    <2>4. peripheral.at \notin Holding /\ peripheral.say = <<>>
        BY <2>2 DEF TellInv, RoleOK, SaysOK
    <2>5. RoleOK(events', told, left, "peripheral", peripheral)
        BY <2>4, RoleWithout DEF TellInv, Left
    <2>6. events' \in Seq(Kinds)
        BY <2>1, <2>2 DEF TellInv
    <2>7. QED
        BY <2>1, <2>2, <2>3, <2>4, <2>5, <2>6 DEF TellInv
<1>3. QED
    BY <1>1, <1>2

LEMMA PeripheralInv ==
    ASSUME TellInv, PeripheralStep \/ PeripheralAccepts \/ PeripheralAcceptFails \/ PeripheralServes
    PROVE  TellInv'
<1>1. CASE PeripheralIdle \/ PeripheralStarts \/ PeripheralBusy \/ PeripheralAcceptFails
    <2>1. UNCHANGED <<events, told, slot, central>>
        BY <1>1 DEF PeripheralIdle, PeripheralStarts, PeripheralBusy, PeripheralAcceptFails
    <2>2. peripheral.say = <<>> /\ (peripheral' = peripheral \/ peripheral'.say = <<>>)
        BY <1>1 DEF PeripheralIdle, PeripheralStarts, PeripheralBusy, PeripheralAcceptFails, Free, AtPeripheral
    <2>3. \/ peripheral'.at = peripheral.at
          \/ peripheral.at \notin Holding /\ peripheral'.at \notin Holding
        <3>1. CASE PeripheralIdle
            BY <3>1 DEF PeripheralIdle, Free, AtPeripheral, Holding
        <3>2. CASE PeripheralStarts \/ PeripheralAcceptFails
            BY <3>2 DEF PeripheralStarts, PeripheralAcceptFails, Free, AtPeripheral, Holding
        <3>3. CASE PeripheralBusy
            BY <3>3 DEF PeripheralBusy, Free, AtPeripheral, Holding
        <3>4. QED
            BY <1>1, <3>1, <3>2, <3>3
    <2>4. QED
        BY <2>1, <2>2, <2>3, MoveStep DEF RoleMoves
<1>2. CASE PeripheralAccepts
    BY <1>2, LinkUpStep DEF PeripheralAccepts, AtPeripheral, Roles
<1>3. CASE Free(peripheral, "serving") /\ peripheral' \in Serving /\ UNCHANGED <<events, told, slot, central>>
    BY <1>3, ServeStep
<1>4. CASE PeripheralServes
    <2>1. CASE AtPeripheral("serving", <<"LinkEvent">>) /\ Served(peripheral) /\ UNCHANGED <<events, told, slot, central>>
        BY <2>1, <1>3 DEF Served, AtPeripheral, Serving
    <2>2. CASE /\ AtPeripheral("idle", <<>>) /\ ServedBadly(peripheral) /\ slot' = Released("peripheral")
               /\ UNCHANGED <<events, told, central>>
        BY <2>2, DropStep DEF ServedBadly, AtPeripheral, Roles
    <2>3. QED
        BY <1>4, <2>1, <2>2 DEF PeripheralServes
<1>5. CASE PeripheralLeaves
    BY <1>5, <1>3 DEF PeripheralLeaves, Lost, AtPeripheral, Serving
<1>6. QED
    BY <1>1, <1>2, <1>4, <1>5, SaysStep DEF PeripheralStep

LEMMA CentralInv ==
    ASSUME TellInv, CentralStep \/ CentralConnects \/ CentralConnectFails \/ CentralServes
    PROVE  TellInv'
<1>1. CASE CentralIdle \/ CentralStarts \/ CentralBusy \/ CentralConnectFails
    <2>1. UNCHANGED <<events, told, slot, peripheral>>
        BY <1>1 DEF CentralIdle, CentralStarts, CentralBusy, CentralConnectFails
    <2>2. central.say = <<>> /\ (central' = central \/ central'.say = <<>>)
        BY <1>1 DEF CentralIdle, CentralStarts, CentralBusy, CentralConnectFails, Free, AtCentral
    <2>3. \/ central'.at = central.at
          \/ central.at \notin Holding /\ central'.at \notin Holding
        <3>1. CASE CentralIdle
            BY <3>1 DEF CentralIdle, Free, AtCentral, Holding
        <3>2. CASE CentralStarts \/ CentralConnectFails
            BY <3>2 DEF CentralStarts, CentralConnectFails, Free, AtCentral, Holding
        <3>3. CASE CentralBusy
            BY <3>3 DEF CentralBusy, Free, AtCentral, Holding
        <3>4. QED
            BY <1>1, <3>1, <3>2, <3>3
    <2>4. QED
        BY <2>1, <2>2, <2>3, MoveStep DEF RoleMoves
<1>2. CASE CentralConnects
    BY <1>2, LinkUpStep DEF CentralConnects, AtCentral, Roles
<1>3. CASE Free(central, "serving") /\ central' \in Serving /\ UNCHANGED <<events, told, slot, peripheral>>
    BY <1>3, ServeStep
<1>4. CASE CentralServes
    <2>1. CASE AtCentral("serving", <<"LinkEvent">>) /\ Served(central) /\ UNCHANGED <<events, told, slot, peripheral>>
        BY <2>1, <1>3 DEF Served, AtCentral, Serving
    <2>2. CASE /\ AtCentral("idle", <<>>) /\ ServedBadly(central) /\ slot' = Released("central")
               /\ UNCHANGED <<events, told, peripheral>>
        BY <2>2, DropStep DEF ServedBadly, AtCentral, Roles
    <2>3. QED
        BY <1>4, <2>1, <2>2 DEF CentralServes
<1>5. CASE CentralLeaves
    BY <1>5, <1>3 DEF CentralLeaves, Lost, AtCentral, Serving
<1>6. QED
    BY <1>1, <1>2, <1>4, <1>5, SaysStep DEF CentralStep

-----------------------------------------------------------------------------
(***************************************************************************)
(* The theorems                                                            *)
(***************************************************************************)
LEMMA TellInvInit ==
    Init => TellInv
<1> SUFFICES ASSUME Init PROVE TellInv
    OBVIOUS
<1>1. events = <<>> /\ told = "down" /\ slot = NoLink
      /\ peripheral = [at |-> "idle", say |-> <<>>] /\ central = [at |-> "idle", say |-> <<>>]
    BY DEF Init
<1>2. IsSlot(slot) /\ slot.refs = {}
    BY <1>1 DEF NoLink, IsSlot
<1>3. events \in Seq(Kinds) /\ QueueOK(events, told)
    BY <1>1 DEF QueueOK
<1>4. /\ RoleOK(events, told, slot.refs, "peripheral", peripheral)
      /\ RoleOK(events, told, slot.refs, "central", central)
    BY <1>1, <1>2 DEF RoleOK, SaysOK, Holding
<1>5. QED
    BY <1>1, <1>2, <1>3, <1>4 DEF TellInv, Holding

LEMMA TellInvNext ==
    TellInv /\ [Next]_vars => TellInv'
<1> SUFFICES ASSUME TellInv, [Next]_vars PROVE TellInv'
    OBVIOUS
<1>1. CASE (\E t \in Tasks : Forward(t)) \/ Answer \/ Disconnect
    BY <1>1, BtpStep
<1>2. CASE Tell
    BY <1>2, TellStep
<1>3. CASE PeripheralStep \/ PeripheralAccepts \/ PeripheralAcceptFails \/ PeripheralServes
    BY <1>3, PeripheralInv
<1>4. CASE CentralStep \/ CentralConnects \/ CentralConnectFails \/ CentralServes
    BY <1>4, CentralInv
<1>5. CASE ClientIdle \/ ClientMade \/ ClientReady \/ ClientHears \/ ClientNotified
    BY <1>5, ClientTells
<1>6. CASE ClientPassesOn
    BY <1>6, OtherEvent DEF ClientPassesOn, Offered
<1>7. CASE LinkLost
    BY <1>7, LinkLostStep
<1>8. CASE DeviceFound
    BY <1>8, OtherEvent DEF DeviceFound, Offered
<1>9. CASE UNCHANGED vars
    BY <1>9 DEF vars, TellInv, RoleOK, IsSlot
<1>10. QED
    BY <1>1, <1>2, <1>3, <1>4, <1>5, <1>6, <1>7, <1>8, <1>9 DEF Next, ClientStep, PeerStep

(* The queue and the role tasks always agree on the link: an event of it   *)
(* waits where the link is known as up to whoever empties the queue, the   *)
(* two tasks never hold it both, and each has yet to say just what is left *)
(* of its turn.                                                            *)
THEOREM QueueAgrees == Spec => []TellInv
    BY TellInvInit, TellInvNext, PTL DEF Spec

(* An event of a link, and its end, are told after the link itself was and *)
(* before another's, for any length of the queue, any peer and any number  *)
(* of links.                                                               *)
THEOREM TellsInOrder == Spec => LinkToldInOrder
<1>1. TellInv /\ Tell /\ Head(events) \in {"LinkEvent", "DeviceDisconnected"} => told = "up"
    <2> SUFFICES ASSUME TellInv, Tell, Head(events) \in OfLink PROVE told = "up"
        BY DEF OfLink
    <2>1. events # <<>> /\ events \in Seq(Kinds)
        BY DEF Tell, TellInv
    <2>2. 1 \in 1 .. Len(events) /\ events[1] \in OfLink
        BY <2>1
    <2>3. UpAt(events, told, 1)
        BY <2>2 DEF TellInv, QueueOK
    <2>4. QED
        BY <2>3 DEF UpAt
<1>2. TellInv /\ [Next]_vars
        => [Tell /\ Head(events) \in {"LinkEvent", "DeviceDisconnected"} => told = "up"]_vars
    BY <1>1
<1>3. QED
    BY <1>2, QueueAgrees, PTL DEF Spec, LinkToldInOrder

-----------------------------------------------------------------------------
(***************************************************************************)
(* The command server.  Its settings are those of handle_gap_settings, the *)
(* task it waits for was asked what that task is there for.                *)
(***************************************************************************)


Known == Settings \cup {Limited}

OfAdvertising == {"StartAdvertising", "StopAdvertising"}

OfOthers == {"StartDiscovery", "StopDiscovery", "Connect"} \cup ClientCommands

Awaits(w) ==
    \/ w = Nobody
    \/ w.task = "peripheral" /\ w.command \in OfAdvertising
    \/ w.task # "peripheral" /\ w.command \in OfOthers

IsGap(g) ==
    /\ g = [settings |-> g.settings, accept |-> g.accept, io |-> g.io]
    /\ g.settings \subseteq Known

SettingsInv ==
    /\ IsGap(gap)
    /\ Awaits(waiting)
    /\ ToldIsCurrent

(* A result that leaves the settings g tells them, or leaves what they were *)
Tidy(res, g, was) ==
    \/ res.status = "ok" /\ res.r.kind \in Tellers /\ res.r.tells = g.settings \ {Limited}
    \/ ~(res.status = "ok" /\ res.r.kind \in Tellers) /\ g.settings = was.settings

LEMMA RespondTidy ==
    ASSUME NEW p, NEW res, NEW g, NEW on, IsGap(g), Tidy(res, g, gap), ToldIsCurrent,
           Respond(p, res, g, on)
    PROVE  ToldIsCurrent' /\ gap' = g
<1>1. gap' = g BY DEF Respond
<1>2. CASE res.status = "ok"
  <2>1. Tells(res.r) BY <1>2 DEF Respond
  <2>2. shown' = IF res.r.kind \in Tellers THEN res.r.tells ELSE shown BY <2>1 DEF Tells
  <2>3. CASE res.r.kind \in Tellers BY <1>1, <1>2, <2>2, <2>3 DEF Tidy, ToldIsCurrent
  <2>4. CASE res.r.kind \notin Tellers BY <1>1, <1>2, <2>2, <2>4 DEF Tidy, ToldIsCurrent
  <2> QED BY <2>3, <2>4
<1>3. CASE res.status # "ok"
  <2>1. shown' = shown BY <1>3 DEF Respond
  <2> QED BY <1>1, <1>3, <2>1 DEF Tidy, ToldIsCurrent
<1> QED BY <1>1, <1>2, <1>3

LEMMA ErrTidy ==
    ASSUME NEW s, s # "ok", NEW g
    PROVE  Tidy(Err(s), g, g)
BY DEF Tidy, Err

LEMMA MessageTidy ==
    ASSUME NEW k, k \notin Tellers, NEW n, NEW g, NEW was, g.settings = was.settings
    PROVE  Tidy(Ok(Message(k, n)), g, was)
BY DEF Tidy, Ok, Message

LEMMA ChangedIsGap ==
    ASSUME NEW g, IsGap(g), NEW mask, mask \subseteq Known, NEW on \in BOOLEAN
    PROVE  /\ IsGap(Changed(g, mask, on))
           /\ Changed(g, mask, on).settings = IF on THEN g.settings \cup mask ELSE g.settings \ mask
<1>1. PICK s, a, i : g = [settings |-> s, accept |-> a, io |-> i] BY DEF IsGap
<1>2. s \subseteq Known BY <1>1 DEF IsGap
<1>3. Changed(g, mask, on) = [settings |-> IF on THEN s \cup mask ELSE s \ mask, accept |-> a, io |-> i]
  BY <1>1 DEF Changed
<1>4. (IF on THEN s \cup mask ELSE s \ mask) \subseteq Known BY <1>2
<1> HIDE DEF Known
<1> QED BY <1>1, <1>3, <1>4 DEF IsGap

LEMMA TellingTells ==
    ASSUME NEW k, NEW n, NEW t
    PROVE  /\ Ok(Telling(k, n, t)).status = "ok"
           /\ Ok(Telling(k, n, t)).r.kind = k
           /\ Ok(Telling(k, n, t)).r.tells = t
<1>1. Message(k, n) = [kind |-> k, sizes |-> n, tells |-> {}] BY DEF Message
<1>2. Telling(k, n, t) = [kind |-> k, sizes |-> n, tells |-> t] BY <1>1 DEF Telling
<1> DEFINE m == Telling(k, n, t)
<1>3. m.kind = k /\ m.tells = t BY <1>2
<1> HIDE DEF m
<1>4. Ok(m).status = "ok" /\ Ok(m).r = m BY DEF Ok
<1> USE DEF m
<1> QED BY <1>3, <1>4

LEMMA CurrentTidy ==
    ASSUME NEW g, IsGap(g), NEW was
    PROVE  Tidy(Current(g), g, was)
<1>1. g.settings \cap Settings = g.settings \ {Limited}
  BY DEF IsGap, Known, Limited, Settings
<1> DEFINE t == g.settings \ {Limited}
<1>2. Current(g) = Ok(Telling("CurrentSettings", <<>>, t))
  <2> DEFINE u == g.settings \cap Settings
  <2>1. u = t BY <1>1
  <2>2. Current(g) = Ok(Telling("CurrentSettings", <<>>, u)) BY DEF Current
  <2> HIDE DEF u, t
  <2> QED BY <2>1, <2>2
<1> HIDE DEF t
<1>3. /\ Current(g).status = "ok" /\ Current(g).r.kind = "CurrentSettings"
      /\ Current(g).r.tells = t
  BY <1>2, TellingTells
<1> USE DEF t
<1> QED BY <1>3 DEF Tidy, Tellers

LEMMA SettingsAfterOK ==
    ASSUME NEW p, NEW g, IsGap(g)
    PROVE  /\ IsGap(SettingsAfter(p, g))
           /\ Name(p) \notin {"SetConnectable", "SetBondable", "SetDiscoverable"}
                => SettingsAfter(p, g).settings = g.settings
<1> DEFINE c == Name(p)
<1>0. /\ {"CONNECTABLE"} \subseteq Known /\ {"BONDABLE"} \subseteq Known /\ {"DISCOVERABLE"} \subseteq Known
      /\ {Limited} \subseteq Known /\ {"DISCOVERABLE", Limited} \subseteq Known
  BY DEF Known, Settings
<1>1. CASE c = "SetConnectable"
  <2>1. SettingsAfter(p, g) \in {Changed(g, {"CONNECTABLE"}, TRUE), Changed(g, {"CONNECTABLE"}, FALSE)}
    <3>1. CASE Byte(p, 1) # 0 BY <1>1, <3>1 DEF SettingsAfter, Changed
    <3>2. CASE Byte(p, 1) = 0 BY <1>1, <3>2 DEF SettingsAfter, Changed
    <3> QED BY <3>1, <3>2
  <2>2. IsGap(Changed(g, {"CONNECTABLE"}, FALSE)) BY <1>0, ChangedIsGap
  <2>3. IsGap(Changed(g, {"CONNECTABLE"}, TRUE)) BY <1>0, ChangedIsGap
  <2> QED BY <1>1, <2>1, <2>2, <2>3
<1>2. CASE c = "SetBondable"
  <2>1. SettingsAfter(p, g) \in {Changed(g, {"BONDABLE"}, TRUE), Changed(g, {"BONDABLE"}, FALSE)}
    <3>1. CASE Byte(p, 1) # 0 BY <1>2, <3>1 DEF SettingsAfter, Changed
    <3>2. CASE Byte(p, 1) = 0 BY <1>2, <3>2 DEF SettingsAfter, Changed
    <3> QED BY <3>1, <3>2
  <2>2. IsGap(Changed(g, {"BONDABLE"}, FALSE)) BY <1>0, ChangedIsGap
  <2>3. IsGap(Changed(g, {"BONDABLE"}, TRUE)) BY <1>0, ChangedIsGap
  <2> QED BY <1>2, <2>1, <2>2, <2>3
<1>3. CASE c = "SetDiscoverable"
  <2>1. SettingsAfter(p, g) \in {Changed(g, {"DISCOVERABLE", Limited}, FALSE),
                                 Changed(Changed(g, {Limited}, FALSE), {"DISCOVERABLE"}, TRUE),
                                 Changed(g, {"DISCOVERABLE", Limited}, TRUE)}
    BY <1>3 DEF SettingsAfter
  <2>2. IsGap(Changed(g, {"DISCOVERABLE", Limited}, FALSE)) BY <1>0, ChangedIsGap
  <2>3. IsGap(Changed(g, {"DISCOVERABLE", Limited}, TRUE)) BY <1>0, ChangedIsGap
  <2>4. IsGap(Changed(g, {Limited}, FALSE)) BY <1>0, ChangedIsGap
  <2>5. IsGap(Changed(Changed(g, {Limited}, FALSE), {"DISCOVERABLE"}, TRUE)) BY <2>4, <1>0, ChangedIsGap
  <2> QED BY <1>3, <2>1, <2>2, <2>3, <2>5
<1>a. PICK s, a, i : g = [settings |-> s, accept |-> a, io |-> i] BY DEF IsGap
<1>4. CASE c = "SetIoCapability"
  <2>1. SettingsAfter(p, g) = [settings |-> s, accept |-> a, io |-> Byte(p, 1)]
    BY <1>4, <1>a DEF SettingsAfter
  <2>2. IsGap(SettingsAfter(p, g)) BY <1>a, <2>1 DEF IsGap
  <2> QED BY <1>4, <1>a, <2>1, <2>2
<1>5. CASE c = "SetFilterAcceptList"
  <2>1. PICK x : SettingsAfter(p, g) = [settings |-> s, accept |-> x, io |-> i]
    BY <1>5, <1>a DEF SettingsAfter
  <2>2. IsGap(SettingsAfter(p, g)) BY <1>a, <2>1 DEF IsGap
  <2> QED BY <1>5, <1>a, <2>1, <2>2
<1>6. CASE c \notin {"SetConnectable", "SetBondable", "SetDiscoverable", "SetIoCapability", "SetFilterAcceptList"}
  <2>1. SettingsAfter(p, g) = g BY <1>6 DEF SettingsAfter
  <2> QED BY <2>1
<1> QED BY <1>1, <1>2, <1>3, <1>4, <1>5, <1>6

LEMMA GapSettingsTidy ==
    ASSUME NEW p, NEW g, IsGap(g)
    PROVE  /\ IsGap(GapSettings(p, g).gap)
           /\ Tidy(GapSettings(p, g).res, GapSettings(p, g).gap, g)
           /\ GapSettings(p, g).res.status = "NotReady" => GapSettings(p, g).gap.settings = g.settings
           /\ GapSettings(p, g).res.status # "forwarded"
<1> DEFINE c == Name(p)
           after == SettingsAfter(p, g)
           Changes == {"SetConnectable", "SetBondable", "SetDiscoverable"}
           reply(r) == [gap |-> after, res |-> r]
           G == GapSettings(p, g)
<1>1. IsGap(after) /\ (c \notin Changes => after.settings = g.settings)
  BY SettingsAfterOK
<1>2. CASE p.idx # ExpectedIndex(p)
  <2>1. G = [gap |-> g, res |-> Err("InvalidIndex")] BY <1>2 DEF GapSettings
  <2>2. Tidy(Err("InvalidIndex"), g, g) BY ErrTidy
  <2> QED BY <2>1, <2>2 DEF Err
<1>3. CASE p.idx = ExpectedIndex(p) /\ c \in Changes
  <2>1. G = reply(Current(after)) BY <1>3 DEF GapSettings
  <2>2. Tidy(Current(after), after, g) BY <1>1, CurrentTidy
  <2> QED BY <2>1, <2>2, <1>1 DEF Current, Ok
<1>4. CASE p.idx = ExpectedIndex(p) /\ c \notin Changes
  <2>0. after.settings = g.settings BY <1>1, <1>4
  <2>1. \E k \in {"SupportedCommands", "ControllerIndexList", "Success"} : G = reply(Ok(Message(k, <<>>)))
        \/ \E s \in {"Fail", "NotReady"} : G = reply(Err(s))
        \/ \E n : G = reply(Ok(Telling("ControllerInfo", n, g.settings \ {Limited})))
    BY <1>4 DEF GapSettings
  <2>2. ASSUME NEW k \in {"SupportedCommands", "ControllerIndexList", "Success"}, G = reply(Ok(Message(k, <<>>)))
        PROVE  Tidy(G.res, G.gap, g) /\ G.res.status = "ok" /\ G.gap = after
    <3>1. Tidy(Ok(Message(k, <<>>)), after, g) BY <2>0, MessageTidy DEF Tellers
    <3> QED BY <2>2, <3>1 DEF Ok
  <2>3. ASSUME NEW s \in {"Fail", "NotReady"}, G = reply(Err(s))
        PROVE  Tidy(G.res, G.gap, g) /\ G.res.status # "forwarded" /\ G.gap = after
    <3>1. Tidy(Err(s), after, g) BY <2>0 DEF Tidy, Err
    <3> QED BY <2>3, <3>1 DEF Err
  <2>4. ASSUME NEW n, G = reply(Ok(Telling("ControllerInfo", n, g.settings \ {Limited})))
        PROVE  Tidy(G.res, G.gap, g) /\ G.res.status = "ok" /\ G.gap = after
    <3>1. Tidy(Ok(Telling("ControllerInfo", n, g.settings \ {Limited})), after, g)
      BY <2>0 DEF Tidy, Ok, Telling, Message, Tellers
    <3> QED BY <2>4, <3>1 DEF Ok
  <2>5. Tidy(G.res, G.gap, g) /\ G.res.status # "forwarded" /\ G.gap = after
    <3> HIDE DEF G, after, reply
    <3> QED BY <2>1, <2>2, <2>3, <2>4
  <2> QED BY <2>5, <1>1, <2>0, <2>1, <2>2, <2>3, <2>4
<1> QED BY <1>2, <1>3, <1>4

(***************************************************************************)
(* The results of the services: of no setting, or to be had of a task.     *)
(***************************************************************************)
SaysNoSetting(res) ==
    \/ \E k, n : k \notin Tellers /\ res = Ok(Message(k, n))
    \/ \E s \in {"Fail", "NotReady", "UnknownCommand"} : res = Err(s)

Passed(res) == \E task, c, a : /\ res = Forwarded(task, c, a)
                               /\ Awaits(res.to)

LEMMA SaidTidy ==
    ASSUME NEW res, SaysNoSetting(res), NEW g
    PROVE  Tidy(res, g, g) /\ res.status # "forwarded"
<1>1. CASE \E k, n : k \notin Tellers /\ res = Ok(Message(k, n))
  <2>1. PICK k, n : k \notin Tellers /\ res = Ok(Message(k, n)) BY <1>1
  <2> QED BY <2>1, MessageTidy DEF Ok
<1>2. CASE \E s \in {"Fail", "NotReady", "UnknownCommand"} : res = Err(s)
  <2>1. PICK s \in {"Fail", "NotReady", "UnknownCommand"} : res = Err(s) BY <1>2
  <2> QED BY <2>1, ErrTidy DEF Err
<1> QED BY <1>1, <1>2 DEF SaysNoSetting

LEMMA CoreSaid ==
    ASSUME NEW p
    PROVE  SaysNoSetting(IF p.svc = Core THEN HandleCore(p) ELSE HandleL2cap)
<1>1. PICK k \in {"SupportedCommands", "SupportedServices", "Done"} : HandleCore(p) = Ok(Message(k, <<>>))
  BY DEF HandleCore
<1>2. SaysNoSetting(HandleCore(p)) BY <1>1 DEF SaysNoSetting, Tellers
<1>3. SaysNoSetting(HandleL2cap) BY DEF SaysNoSetting, HandleL2cap
<1> QED BY <1>2, <1>3

LEMMA GattServedSaid ==
    ASSUME NEW p, NEW t
    PROVE  SaysNoSetting(GattServed(p, t)) \/ Passed(GattServed(p, t))
<1> DEFINE c == Name(p)
           r == GattServed(p, t)
           Kind == {"SupportedCommands", "ServerStarted", "ValueSet", "EncKeySizeSet", "Attrs", "AttrValue"}
<1>1. CASE c \in ClientCommands
  <2>1. r = Forwarded("gatt_client", c, NoAdvert) BY <1>1 DEF GattServed, ClientCommands
  <2>2. r.to.task = "gatt_client" /\ r.to.command = c BY <2>1 DEF Forwarded
  <2> QED BY <1>1, <2>1, <2>2 DEF Passed, Awaits, OfOthers
<1>2. CASE c \notin ClientCommands
  <2>1. (\E k \in Kind : \E n : r = Ok(Message(k, n))) \/ r = Err("Fail")
    BY <1>2 DEF GattServed
  <2> HIDE DEF r
  <2>2. \A k \in Kind : k \notin Tellers BY DEF Tellers
  <2> HIDE DEF Kind
  <2>3. SaysNoSetting(r) BY <2>1, <2>2 DEF SaysNoSetting
  <2> USE DEF r
  <2> QED BY <2>3
<1> QED BY <1>1, <1>2

LEMMA UnbuiltRes ==
    ASSUME NEW res
    PROVE  Unbuilt(res).res = res
BY DEF Unbuilt

LEMMA QueuedSaid ==
    ASSUME NEW c, NEW h, NEW answer, answer \notin Tellers, NEW type, NEW r, NEW w
    PROVE  SaysNoSetting(Queued(c, h, answer, type, r, w).res)
<1> DEFINE q == Queued(c, h, answer, type, r, w)
           m == Ok(Message(answer, <<>>))
<1>1. q.res = Err("Fail") \/ q.res = m
  <2>1. CASE builder.service = NoService \/ Len(builder.commands) >= QueueSize
    BY <2>1, UnbuiltRes DEF Queued
  <2>2. CASE ~(builder.service = NoService \/ Len(builder.commands) >= QueueSize)
    <3>1. PICK b, x : q = [Unbuilt(m) EXCEPT !.builder.commands = b, !.made = x]
      BY <2>2 DEF Queued
    <3> HIDE DEF m, q
    <3>2. q.res = Unbuilt(m).res BY <3>1 DEF Unbuilt
    <3> QED BY <3>2, UnbuiltRes
  <2> QED BY <2>1, <2>2
<1> QED BY <1>1 DEF SaysNoSetting

LEMMA GattPreServerSaid ==
    ASSUME NEW p
    PROVE  SaysNoSetting(GattPreServer(p).res)
<1> DEFINE c == Name(p)
<1>0. \A s \in {"Fail", "NotReady"} : SaysNoSetting(Err(s)) BY DEF SaysNoSetting
<1>1. ASSUME NEW k, k \notin Tellers PROVE SaysNoSetting(Ok(Message(k, <<>>))) BY <1>1 DEF SaysNoSetting
<1>2. CASE c \in {"ReadSupportedCommands", "SetEncKeySize"}
  <2>1. PICK k \in {"SupportedCommands", "EncKeySizeSet"} : GattPreServer(p) = Unbuilt(Ok(Message(k, <<>>)))
    BY <1>2 DEF GattPreServer
  <2>2. k \notin Tellers BY DEF Tellers
  <2> QED BY <2>1, <2>2, <1>1, UnbuiltRes
<1>3. CASE c = "AddService"
  <2>1. GattPreServer(p) = BuildService(p) BY <1>3 DEF GattPreServer
  <2>2. BuildService(p).res = Err("Fail") \/ BuildService(p).res = Ok(Message("ServiceAdded", <<>>))
    <3>1. CASE Finalized(builder, table).end # "ok"
      <4>1. PICK b, t, e : BuildService(p) = [Unbuilt(Err("Fail")) EXCEPT !.builder = b, !.table = t, !.end = e]
        BY <3>1 DEF BuildService
      <4>2. BuildService(p).res = Unbuilt(Err("Fail")).res BY <4>1 DEF Unbuilt
      <4> QED BY <4>2, UnbuiltRes
    <3>2. CASE Finalized(builder, table).end = "ok"
      <4> DEFINE m == Ok(Message("ServiceAdded", <<>>))
      <4>1. PICK b, t, x : BuildService(p) = [Unbuilt(m) EXCEPT !.builder = b, !.table = t, !.made = x]
        BY <3>2 DEF BuildService
      <4> HIDE DEF m
      <4>2. BuildService(p).res = Unbuilt(m).res BY <4>1 DEF Unbuilt
      <4>3. BuildService(p).res = m BY <4>2, UnbuiltRes
      <4> USE DEF m
      <4> QED BY <4>3
    <3> QED BY <3>1, <3>2
  <2> QED BY <2>1, <2>2, <1>0, <1>1 DEF Tellers
<1>4. CASE c = "AddCharacteristic"
  <2>1. GattPreServer(p) = BuildCharacteristic(p) BY <1>4 DEF GattPreServer
  <2>2. PICK q, h, type, r, w :
            BuildCharacteristic(p) = Unbuilt(Err("Fail"))
            \/ BuildCharacteristic(p) = Queued(q, h, "CharacteristicAdded", type, r, w)
    BY DEF BuildCharacteristic
  <2>3. SaysNoSetting(Queued(q, h, "CharacteristicAdded", type, r, w).res) BY QueuedSaid DEF Tellers
  <2> QED BY <2>1, <2>2, <2>3, <1>0, UnbuiltRes
<1>5. CASE c = "AddDescriptor"
  <2>1. GattPreServer(p) = BuildDescriptor(p) BY <1>5 DEF GattPreServer
  <2>2. PICK q, h, type, r, w :
            BuildDescriptor(p) = Unbuilt(Err("Fail"))
            \/ BuildDescriptor(p) = Queued(q, h, "DescriptorAdded", type, r, w)
    BY DEF BuildDescriptor
  <2>3. SaysNoSetting(Queued(q, h, "DescriptorAdded", type, r, w).res) BY QueuedSaid DEF Tellers
  <2> QED BY <2>1, <2>2, <2>3, <1>0, UnbuiltRes
<1>6. CASE c = "AddIncludedService"
  <2>1. GattPreServer(p) = BuildInclude(p) BY <1>6 DEF GattPreServer
  <2>2. SaysNoSetting(BuildInclude(p).res) BY QueuedSaid DEF BuildInclude, Tellers
  <2> QED BY <2>1, <2>2
<1>7. CASE c = "SetValue"
  <2>1. GattPreServer(p) = BuildValue(p) BY <1>7 DEF GattPreServer
  <2> DEFINE n == Len(builder.commands)
             m == Ok(Message("ValueSet", <<>>))
  <2>2. PICK b : BuildValue(p) = Unbuilt(Err("Fail")) \/ BuildValue(p) = [Unbuilt(m) EXCEPT !.builder.commands[n].len = b]
    BY DEF BuildValue
  <2> HIDE DEF m, n
  <2>3. BuildValue(p) = [Unbuilt(m) EXCEPT !.builder.commands[n].len = b] => BuildValue(p).res = Unbuilt(m).res
    BY DEF Unbuilt
  <2>4. BuildValue(p).res = Err("Fail") \/ BuildValue(p).res = m BY <2>2, <2>3, UnbuiltRes
  <2> USE DEF m
  <2> QED BY <2>1, <2>4, <1>0, <1>1 DEF Tellers
<1>8. CASE c \notin {"ReadSupportedCommands", "SetEncKeySize", "AddService", "AddCharacteristic",
                     "AddDescriptor", "AddIncludedService", "SetValue"}
  <2>1. GattPreServer(p) = Unbuilt(Err("NotReady")) BY <1>8 DEF GattPreServer
  <2> QED BY <2>1, <1>0, UnbuiltRes
<1> QED BY <1>2, <1>3, <1>4, <1>5, <1>6, <1>7, <1>8

LEMMA GapRuntimeSaid ==
    ASSUME NEW p, NEW g, NEW res \in GapRuntime(p, g)
    PROVE  SaysNoSetting(res) \/ Passed(res)
<1> DEFINE c == Name(p)
<1>1. \/ res = Ok(Message("Success", <<>>)) \/ res = Err("Fail")
      \/ \E a : res = Forwarded("peripheral", "StartAdvertising", a)
      \/ c = "StopAdvertising" /\ res = Forwarded("peripheral", c, NoAdvert)
      \/ c \in {"StartDiscovery", "StopDiscovery", "Connect"} /\ res = Forwarded("central", c, NoAdvert)
  BY DEF GapRuntime
<1>2. CASE res = Ok(Message("Success", <<>>)) BY <1>2 DEF SaysNoSetting, Tellers
<1>3. CASE res = Err("Fail") BY <1>3 DEF SaysNoSetting
<1>4. ASSUME NEW a, res = Forwarded("peripheral", "StartAdvertising", a) PROVE Passed(res)
  <2>1. res.to.task = "peripheral" /\ res.to.command = "StartAdvertising" BY <1>4 DEF Forwarded
  <2> QED BY <1>4, <2>1 DEF Passed, Awaits, OfAdvertising
<1>5. ASSUME c = "StopAdvertising", res = Forwarded("peripheral", c, NoAdvert) PROVE Passed(res)
  <2>1. res.to.task = "peripheral" /\ res.to.command = "StopAdvertising" BY <1>5 DEF Forwarded
  <2> QED BY <1>5, <2>1 DEF Passed, Awaits, OfAdvertising
<1>6. ASSUME c \in {"StartDiscovery", "StopDiscovery", "Connect"}, res = Forwarded("central", c, NoAdvert)
      PROVE  Passed(res)
  <2>1. res.to.task = "central" /\ res.to.command = c BY <1>6 DEF Forwarded
  <2> QED BY <1>6, <2>1 DEF Passed, Awaits, OfOthers
<1> QED BY <1>1, <1>2, <1>3, <1>4, <1>5, <1>6

(* The setting an answer of the peripheral task is about                   *)
LEMMA AnswerTidy ==
    ASSUME NEW w, Awaits(w), w # Nobody, NEW g, IsGap(g), NEW res \in AnswersTo(w.command, g),
           NEW after,
           after = IF w.task # "peripheral" \/ res.status # "ok" THEN g
                   ELSE Changed(g, {"ADVERTISING"}, w.command = "StartAdvertising")
    PROVE  IsGap(after) /\ Tidy(res, after, g)
<1>1. CASE w.task = "peripheral" /\ w.command \in OfAdvertising
  <2>1. PICK on \in BOOLEAN : on = (w.command = "StartAdvertising") OBVIOUS
  <2> DEFINE new == Changed(g, {"ADVERTISING"}, on)
  <2>2. res = Err("Fail") \/ res = Current(new) BY <1>1, <2>1 DEF AnswersTo, OfAdvertising
  <2>3. CASE res = Err("Fail")
    <3>1. after = g BY <2>3 DEF Err
    <3> QED BY <2>3, <3>1, ErrTidy
  <2>4. CASE res = Current(new)
    <3>1. res.status = "ok" BY <2>4 DEF Current, Ok
    <3>2. after = new BY <1>1, <2>1, <3>1
    <3>3. IsGap(new) BY ChangedIsGap DEF Known, Settings
    <3> HIDE DEF new
    <3> QED BY <2>4, <3>2, <3>3, CurrentTidy
  <2> QED BY <2>2, <2>3, <2>4
<1>2. CASE w.task # "peripheral" /\ w.command \in OfOthers
  <2>1. after = g BY <1>2
  <2>2. SaysNoSetting(res)
    <3> DEFINE Kind == {"Success", "MtuExchanged", "Services", "Characteristics", "ReadData", "ReadUuidData",
                         "WriteResult", "WriteWithoutRspDone", "CfgDone"}
    <3>1. res = Err("Fail") \/ \E k \in Kind : \E n : res = Ok(Message(k, n))
      BY <1>2 DEF AnswersTo, OfOthers, ClientCommands
    <3>2. \A k \in Kind : k \notin Tellers BY DEF Tellers
    <3> HIDE DEF Kind
    <3> QED BY <3>1, <3>2 DEF SaysNoSetting
  <2> QED BY <2>1, <2>2, SaidTidy
<1> QED BY <1>1, <1>2 DEF Awaits

-----------------------------------------------------------------------------
(***************************************************************************)
(* The steps                                                               *)
(***************************************************************************)
LEMMA RespondKeeps ==
    ASSUME SettingsInv, NEW p, NEW res, NEW g, NEW on, IsGap(g), Tidy(res, g, gap),
           Respond(p, res, g, on), Awaits(waiting')
    PROVE  SettingsInv'
<1>1. ToldIsCurrent' /\ gap' = g BY RespondTidy DEF SettingsInv
<1>2. IsGap(gap') BY <1>1
<1> QED BY <1>1, <1>2 DEF SettingsInv

LEMMA SettingsKept ==
    ASSUME SettingsInv, [ServerNext]_serverVars
    PROVE  SettingsInv'
<1> USE DEF SettingsInv
<1>0. CASE gap' = gap /\ waiting' = waiting /\ shown' = shown
  BY <1>0 DEF ToldIsCurrent
<1>1. CASE UNCHANGED serverVars BY <1>0, <1>1 DEF serverVars
<1>2. ASSUME NEW p \in Packets, Refused(p) PROVE SettingsInv' BY <1>0, <1>2 DEF Refused
<1>3. ASSUME NEW p \in Packets, PreCore(p) PROVE SettingsInv'
  <2>1. Tidy(IF p.svc = Core THEN HandleCore(p) ELSE HandleL2cap, gap, gap) BY CoreSaid, SaidTidy
  <2>2. waiting' = waiting
        /\ Respond(p, IF p.svc = Core THEN HandleCore(p) ELSE HandleL2cap, gap, phase)
    BY <1>3 DEF PreCore
  <2> QED BY <2>1, <2>2, RespondKeeps
<1>4. ASSUME NEW p \in Packets, PreGap(p) PROVE SettingsInv'
  <2> DEFINE g == GapSettings(p, gap)
  <2>1. IsGap(g.gap) /\ Tidy(g.res, g.gap, gap) BY GapSettingsTidy
  <2>2. waiting' = waiting /\ Respond(p, g.res, g.gap, phase) BY <1>4 DEF PreGap
  <2> QED BY <2>1, <2>2, RespondKeeps
<1>5. ASSUME NEW p \in Packets, PreGatt(p) PROVE SettingsInv'
  <2> DEFINE b == GattPreServer(p)
  <2>1. Tidy(b.res, gap, gap) BY GattPreServerSaid, SaidTidy
  <2>2. CASE b.end = "panic" BY <1>5, <2>2, <1>0 DEF PreGatt
  <2>3. CASE b.end # "panic"
    <3>1. waiting' = waiting /\ Respond(p, b.res, gap, phase) BY <1>5, <2>3 DEF PreGatt
    <3> QED BY <2>1, <3>1, RespondKeeps
  <2> QED BY <2>2, <2>3
<1>6. ASSUME NEW p \in Packets, StartsServer(p) PROVE SettingsInv' BY <1>0, <1>6 DEF StartsServer
<1>7. ASSUME NEW p \in Packets, ReadPacket(p) PROVE SettingsInv' BY <1>0, <1>7 DEF ReadPacket
<1>8. ASSUME NEW p \in Packets, TooLong(p) PROVE SettingsInv' BY <1>0, <1>8 DEF TooLong
<1>9. CASE RefusedLater BY <1>0, <1>9 DEF RefusedLater
<1>10. CASE RunCore
  <2>1. Tidy(IF packet.svc = Core THEN HandleCore(packet) ELSE HandleL2cap, gap, gap) BY CoreSaid, SaidTidy
  <2>2. waiting' = waiting
        /\ Respond(packet, IF packet.svc = Core THEN HandleCore(packet) ELSE HandleL2cap, gap, phase)
    BY <1>10 DEF RunCore
  <2> QED BY <2>1, <2>2, RespondKeeps
<1>11. ASSUME NEW res, NEW g, IsGap(g), Done(res, g),
              \/ Tidy(res, g, gap) /\ res.status # "forwarded"
              \/ Passed(res) /\ g.settings = gap.settings
       PROVE  SettingsInv'
  <2>1. CASE res.status = "forwarded"
    <3>1. waiting' = res.to /\ gap' = g /\ shown' = shown BY <1>11, <2>1 DEF Done
    <3>2. Awaits(res.to) /\ g.settings = gap.settings BY <1>11, <2>1 DEF Passed
    <3> QED BY <3>1, <3>2, <1>11 DEF ToldIsCurrent
  <2>2. CASE res.status # "forwarded"
    <3>1. waiting' = waiting /\ Respond(packet, res, g, phase) BY <1>11, <2>2 DEF Done
    <3>2. ~Passed(res) BY <2>2 DEF Passed, Forwarded
    <3> QED BY <3>1, <3>2, <1>11, RespondKeeps
  <2> QED BY <2>1, <2>2
<1>12. CASE RunGap
  <2> DEFINE g == GapSettings(packet, gap)
  <2>1. PICK res \in (IF g.res.status = "NotReady" THEN GapRuntime(packet, gap) ELSE {g.res}) : Done(res, g.gap)
    BY <1>12 DEF RunGap
  <2>2. /\ IsGap(g.gap) /\ Tidy(g.res, g.gap, gap) /\ g.res.status # "forwarded"
        /\ g.res.status = "NotReady" => g.gap.settings = gap.settings
    BY GapSettingsTidy
  <2> HIDE DEF g
  <2>3. CASE g.res.status = "NotReady"
    <3>1. SaysNoSetting(res) \/ Passed(res) BY <2>1, <2>3, GapRuntimeSaid
    <3>2. SaysNoSetting(res) => Tidy(res, gap, gap) /\ res.status # "forwarded" BY SaidTidy
    <3>3. SaysNoSetting(res) => Tidy(res, g.gap, gap)
      <4> SUFFICES ASSUME SaysNoSetting(res) PROVE Tidy(res, g.gap, gap) OBVIOUS
      <4>1. ~(res.status = "ok" /\ res.r.kind \in Tellers)
        <5>1. CASE \E s \in {"Fail", "NotReady", "UnknownCommand"} : res = Err(s) BY <5>1 DEF Err
        <5>2. CASE \E k, n : k \notin Tellers /\ res = Ok(Message(k, n))
          <6>1. PICK k, n : k \notin Tellers /\ res = Ok(Message(k, n)) BY <5>2
          <6> QED BY <6>1 DEF Ok, Message
        <5> QED BY <5>1, <5>2 DEF SaysNoSetting
      <4> QED BY <4>1, <2>2, <2>3 DEF Tidy
    <3> QED BY <3>1, <3>2, <3>3, <2>1, <2>2, <2>3, <1>11
  <2>4. CASE g.res.status # "NotReady"
    <3>1. res = g.res BY <2>1, <2>4
    <3> QED BY <3>1, <2>1, <2>2, <1>11
  <2> QED BY <2>3, <2>4
<1>13. CASE RunGatt
  <2> DEFINE r == GattServed(packet, table)
  <2>1. Done(r, gap) BY <1>13 DEF RunGatt
  <2>2. SaysNoSetting(r) \/ Passed(r) BY GattServedSaid
  <2> HIDE DEF r
  <2>3. SaysNoSetting(r) => Tidy(r, gap, gap) /\ r.status # "forwarded" BY SaidTidy
  <2> QED BY <2>1, <2>2, <2>3, <1>11
<1>14. CASE Answered
  <2> DEFINE after(res) == IF waiting.task # "peripheral" \/ res.status # "ok" THEN gap
                           ELSE Changed(gap, {"ADVERTISING"}, waiting.command = "StartAdvertising")
  <2>1. PICK res \in AnswersTo(waiting.command, gap) : Respond(packet, res, after(res), phase)
    BY <1>14 DEF Answered
  <2>2. waiting # Nobody /\ waiting' = Nobody BY <1>14 DEF Answered
  <2>3. IsGap(after(res)) /\ Tidy(res, after(res), gap)
    BY <2>1, <2>2, AnswerTidy
  <2>4. Awaits(waiting') BY <2>2 DEF Awaits
  <2> HIDE DEF after
  <2> QED BY <2>1, <2>3, <2>4, RespondKeeps
<1>15. CASE TellEvent
  <2>1. PICK e \in Events :
            /\ gap' = IF e = AdvertisingStopped THEN Changed(gap, {"ADVERTISING"}, FALSE) ELSE gap
            /\ Tells(Converted(e))
    BY <1>15 DEF TellEvent
  <2>2. waiting' = waiting BY <1>15 DEF TellEvent
  <2>3. CASE e # AdvertisingStopped
    <3>1. Converted(e) = e BY <2>3 DEF Converted
    <3>2. shown' = shown BY <2>1, <3>1, EventsTellNoSettings DEF Tells
    <3> QED BY <2>1, <2>2, <2>3, <3>2, <1>0
  <2>4. CASE e = AdvertisingStopped
    <3> DEFINE s == gap.settings \ {"ADVERTISING", Limited}
    <3>1. Converted(e) = Telling("NewSettings", <<>>, s) BY <2>4 DEF Converted
    <3> HIDE DEF s
    <3>2. Converted(e).kind = "NewSettings" /\ Converted(e).tells = s
      <4>1. Message("NewSettings", <<>>) = [kind |-> "NewSettings", sizes |-> <<>>, tells |-> {}] BY DEF Message
      <4> QED BY <3>1, <4>1 DEF Telling
    <3>3. shown' = s BY <2>1, <3>2 DEF Tells, Tellers
    <3>4. IsGap(Changed(gap, {"ADVERTISING"}, FALSE))
          /\ Changed(gap, {"ADVERTISING"}, FALSE).settings = gap.settings \ {"ADVERTISING"}
      BY ChangedIsGap DEF Known, Settings
    <3>5. gap' = Changed(gap, {"ADVERTISING"}, FALSE) BY <2>1, <2>4
    <3>6. shown' = gap'.settings \ {Limited} BY <3>3, <3>4, <3>5 DEF s
    <3> QED BY <2>2, <3>4, <3>5, <3>6 DEF ToldIsCurrent
  <2> QED BY <2>3, <2>4
<1> QED
  BY <1>1, <1>2, <1>3, <1>4, <1>5, <1>6, <1>7, <1>8, <1>9, <1>10, <1>12, <1>13, <1>14, <1>15 DEF ServerNext

(* The inductive invariant: the settings are settings, a task is asked     *)
(* what it is there for, and the settings told last are those that are.    *)
THEOREM SettingsStay == ServerSpec => []SettingsInv
<1>1. ServerInit => SettingsInv
  <2> SUFFICES ASSUME ServerInit PROVE SettingsInv OBVIOUS
  <2>1. gap = [settings |-> DefaultSettings, accept |-> <<>>, io |-> 3] BY DEF ServerInit
  <2>2. DefaultSettings \subseteq Known BY DEF DefaultSettings, Known, Settings
  <2>3. IsGap(gap) BY <2>1, <2>2 DEF IsGap
  <2> QED BY <2>3 DEF ServerInit, SettingsInv, Awaits, ToldIsCurrent
<1>2. SettingsInv /\ [ServerNext]_serverVars => SettingsInv' BY SettingsKept
<1> QED BY <1>1, <1>2, PTL DEF ServerSpec

(* Whatever the commands, the events and the tasks' answers, the settings  *)
(* a test driver was told last are the settings of handle_gap_settings,    *)
(* without the bit that is not for the wire.                               *)
THEOREM SettingsAreTold == ServerSpec => []ToldIsCurrent
<1>1. SettingsInv => ToldIsCurrent BY DEF SettingsInv
<1> QED BY <1>1, SettingsStay, PTL

-----------------------------------------------------------------------------
(* The attribute table the queued commands build.                           *)

(***************************************************************************)
(* Recursion over a sequence: what a recursive function of its length is.  *)
(***************************************************************************)
LEMMA LeastElement ==
    ASSUME NEW T, T \subseteq Nat, T # {}
    PROVE  \E x \in T : \A y \in T : x <= y
<1> DEFINE R == OpToRel(<, Nat)
<1>1. PICK x \in T : \A y \in T : ~ (<<y, x>> \in R)
  <2>1. IsWellFoundedOn(R, Nat) BY NatLessThanWellFounded
  <2> HIDE DEF R
  <2> QED BY <2>1, WFMin, Zenon
<1>2. \A y \in T : ~ (y < x) BY <1>1 DEF OpToRel
<1> QED BY <1>2

(* The sums of the first elements ...                                      *)
IsSums(f, s, n) == f = [i \in 0 .. n |-> IF i = 0 THEN 0 ELSE f[i - 1] + s[i]]

LEMMA SumsExist ==
    ASSUME NEW s, NEW n \in Nat
    PROVE  \E f : IsSums(f, s, n)
<1> DEFINE T == {k \in Nat : ~ \E f : IsSums(f, s, k)}
<1> SUFFICES ASSUME T # {} PROVE FALSE OBVIOUS
<1>1. PICK k \in T : \A y \in T : k <= y
  <2>1. T \subseteq Nat OBVIOUS
  <2> HIDE DEF T
  <2> QED BY <2>1, LeastElement
<1>2. CASE k = 0
  <2> DEFINE f == [i \in 0 .. 0 |-> 0]
  <2>1. IsSums(f, s, 0) BY DEF IsSums
  <2> QED BY <1>1, <1>2, <2>1
<1>3. CASE k # 0
  <2>1. k - 1 \in Nat /\ k - 1 \notin T BY <1>1, <1>3
  <2>2. PICK f : IsSums(f, s, k - 1) BY <2>1
  <2> DEFINE g == [i \in 0 .. k |-> IF i = k THEN f[k - 1] + s[k] ELSE f[i]]
  <2>3. \A i \in 0 .. k : g[i] = IF i = 0 THEN 0 ELSE g[i - 1] + s[i]
    <3> TAKE i \in 0 .. k
    <3>0. \A j \in 0 .. k - 1 : f[j] = IF j = 0 THEN 0 ELSE f[j - 1] + s[j] BY <2>2 DEF IsSums
    <3>1. CASE i = k BY <3>1, <1>3, <2>1
    <3>2. CASE i # k
      <4>1. i \in 0 .. k - 1 /\ g[i] = f[i] BY <3>2
      <4>2. CASE i = 0 BY <4>1, <4>2, <3>0
      <4>3. CASE i # 0
        <5>1. g[i - 1] = f[i - 1] BY <4>1, <4>3
        <5> QED BY <4>1, <4>3, <5>1, <3>0
      <4> QED BY <4>2, <4>3
    <3> QED BY <3>1, <3>2
  <2>4. IsSums(g, s, k) BY <2>3 DEF IsSums
  <2> QED BY <1>1, <2>4
<1> QED BY <1>2, <1>3

LEMMA SumsAgree ==
    ASSUME NEW s, NEW t, NEW n \in Nat, NEW m \in Nat, n <= m, NEW f, NEW g,
           IsSums(f, s, n), IsSums(g, t, m), \A i \in 1 .. n : s[i] = t[i]
    PROVE  f[n] = g[n]
<1> DEFINE T == {k \in 0 .. n : f[k] # g[k]}
<1> SUFFICES ASSUME n \in T PROVE FALSE OBVIOUS
<1>1. PICK k \in T : \A y \in T : k <= y
  <2>1. T \subseteq Nat OBVIOUS
  <2> HIDE DEF T
  <2> QED BY <2>1, LeastElement
<1>2. \A i \in 0 .. n : f[i] = IF i = 0 THEN 0 ELSE f[i - 1] + s[i] BY DEF IsSums
<1>3. \A i \in 0 .. m : g[i] = IF i = 0 THEN 0 ELSE g[i - 1] + t[i] BY DEF IsSums
<1>4. k \in 0 .. m BY <1>1
<1>5. CASE k = 0 BY <1>1, <1>2, <1>3, <1>5
<1>6. CASE k # 0
  <2>1. k - 1 \in 0 .. n /\ f[k - 1] = g[k - 1] BY <1>1, <1>6
  <2> QED BY <2>1, <1>1, <1>2, <1>3, <1>4, <1>6
<1> QED BY <1>5, <1>6

LEMMA TotalIs ==
    ASSUME NEW s, Len(s) \in Nat
    PROVE  \E f : IsSums(f, s, Len(s)) /\ Total(s) = f[Len(s)]
<1> DEFINE f == CHOOSE f : IsSums(f, s, Len(s))
<1>1. IsSums(f, s, Len(s)) BY SumsExist
<1>2. Total(s) = f[Len(s)] BY DEF Total, IsSums
<1> QED BY <1>1, <1>2

LEMMA TotalEmpty == Total(<<>>) = 0
<1>1. PICK f : IsSums(f, <<>>, 0) /\ Total(<<>>) = f[0] BY TotalIs
<1> QED BY <1>1 DEF IsSums

(* ... of a sequence that is another with one element more                 *)
LEMMA TotalAppend ==
    ASSUME NEW s, NEW t, Len(s) \in Nat, Len(t) = Len(s) + 1,
           \A i \in 1 .. Len(s) : s[i] = t[i]
    PROVE  Total(t) = Total(s) + t[Len(t)]
<1>1. PICK f : IsSums(f, s, Len(s)) /\ Total(s) = f[Len(s)] BY TotalIs
<1>2. PICK g : IsSums(g, t, Len(t)) /\ Total(t) = g[Len(t)] BY TotalIs
<1>3. Len(t) \in Nat /\ Len(s) <= Len(t) OBVIOUS
<1>5. f[Len(s)] = g[Len(s)]
  <2> DEFINE n == Len(s)
             m == Len(t)
  <2>1. /\ n \in Nat /\ m \in Nat /\ n <= m /\ IsSums(f, s, n) /\ IsSums(g, t, m)
        /\ \A i \in 1 .. n : s[i] = t[i]
    BY <1>1, <1>2, <1>3
  <2> HIDE DEF n, m
  <2>2. f[n] = g[n] BY <2>1, SumsAgree
  <2> QED BY <2>2 DEF n
<1>4. g[Len(t)] = g[Len(t) - 1] + t[Len(t)]
  BY <1>2 DEF IsSums
<1> QED BY <1>1, <1>2, <1>5, <1>4

LEMMA TotalIsNat ==
    ASSUME NEW s, Len(s) \in Nat, \A i \in 1 .. Len(s) : s[i] \in Nat
    PROVE  Total(s) \in Nat
<1>1. PICK f : IsSums(f, s, Len(s)) /\ Total(s) = f[Len(s)] BY TotalIs
<1> DEFINE n == Len(s)
           T == {k \in 0 .. n : f[k] \notin Nat}
<1>2. \A i \in 0 .. n : f[i] = IF i = 0 THEN 0 ELSE f[i - 1] + s[i] BY <1>1 DEF IsSums
<1>3. T = {}
  <2> SUFFICES ASSUME T # {} PROVE FALSE OBVIOUS
  <2>1. PICK k \in T : \A y \in T : k <= y
    <3>1. T \subseteq Nat OBVIOUS
    <3> HIDE DEF T
    <3> QED BY <3>1, LeastElement
  <2>2. k # 0 BY <1>2, <2>1
  <2>3. k - 1 \in 0 .. n /\ k - 1 \notin T BY <2>1, <2>2
  <2>4. f[k] = f[k - 1] + s[k] /\ f[k - 1] \in Nat /\ s[k] \in Nat BY <1>2, <2>1, <2>2, <2>3
  <2> QED BY <2>1, <2>4
<1> QED BY <1>1, <1>3

(* The queue of the builder committed, command by command                  *)
IsCommits(f, a, cs, n) ==
    f = [i \in 0 .. n |-> IF i = 0 THEN a ELSE Committed(f[i - 1], cs[i])]

LEMMA CommitsExist ==
    ASSUME NEW a, NEW cs, NEW n \in Nat
    PROVE  \E f : IsCommits(f, a, cs, n)
<1> DEFINE T == {k \in Nat : ~ \E f : IsCommits(f, a, cs, k)}
<1> SUFFICES ASSUME T # {} PROVE FALSE OBVIOUS
<1>1. PICK k \in T : \A y \in T : k <= y
  <2>1. T \subseteq Nat OBVIOUS
  <2> HIDE DEF T
  <2> QED BY <2>1, LeastElement
<1>2. CASE k = 0
  <2> DEFINE f == [i \in 0 .. 0 |-> a]
  <2>1. IsCommits(f, a, cs, 0) BY DEF IsCommits
  <2> QED BY <1>1, <1>2, <2>1
<1>3. CASE k # 0
  <2>1. k - 1 \in Nat /\ k - 1 \notin T BY <1>1, <1>3
  <2>2. PICK f : IsCommits(f, a, cs, k - 1) BY <2>1
  <2> DEFINE g == [i \in 0 .. k |-> IF i = k THEN Committed(f[k - 1], cs[k]) ELSE f[i]]
  <2>3. \A i \in 0 .. k : g[i] = IF i = 0 THEN a ELSE Committed(g[i - 1], cs[i])
    <3> TAKE i \in 0 .. k
    <3>0. \A j \in 0 .. k - 1 : f[j] = IF j = 0 THEN a ELSE Committed(f[j - 1], cs[j])
      BY <2>2 DEF IsCommits
    <3>1. CASE i = k BY <3>1, <1>3, <2>1
    <3>2. CASE i # k
      <4>1. i \in 0 .. k - 1 /\ g[i] = f[i] BY <3>2
      <4>2. CASE i = 0 BY <4>1, <4>2, <3>0
      <4>3. CASE i # 0
        <5>1. g[i - 1] = f[i - 1] BY <4>1, <4>3
        <5> QED BY <4>1, <4>3, <5>1, <3>0
      <4> QED BY <4>2, <4>3
    <3> QED BY <3>1, <3>2
  <2>4. IsCommits(g, a, cs, k) BY <2>3 DEF IsCommits
  <2> QED BY <1>1, <2>4
<1> QED BY <1>2, <1>3

LEMMA CommitsAgree ==
    ASSUME NEW a, NEW s, NEW t, NEW n \in Nat, NEW m \in Nat, n <= m, NEW f, NEW g,
           IsCommits(f, a, s, n), IsCommits(g, a, t, m), \A i \in 1 .. n : s[i] = t[i]
    PROVE  f[n] = g[n]
<1> DEFINE T == {k \in 0 .. n : f[k] # g[k]}
<1> SUFFICES ASSUME n \in T PROVE FALSE OBVIOUS
<1>1. PICK k \in T : \A y \in T : k <= y
  <2>1. T \subseteq Nat OBVIOUS
  <2> HIDE DEF T
  <2> QED BY <2>1, LeastElement
<1>2. \A i \in 0 .. n : f[i] = IF i = 0 THEN a ELSE Committed(f[i - 1], s[i]) BY DEF IsCommits
<1>3. \A i \in 0 .. m : g[i] = IF i = 0 THEN a ELSE Committed(g[i - 1], t[i]) BY DEF IsCommits
<1>4. k \in 0 .. m BY <1>1
<1>5. CASE k = 0 BY <1>1, <1>2, <1>3, <1>5
<1>6. CASE k # 0
  <2>1. k - 1 \in 0 .. n /\ f[k - 1] = g[k - 1] BY <1>1, <1>6
  <2> QED BY <2>1, <1>1, <1>2, <1>3, <1>4, <1>6
<1> QED BY <1>5, <1>6

-----------------------------------------------------------------------------
(***************************************************************************)
(* Tables: what is built on a table keeps the attributes it has.           *)
(***************************************************************************)
IsAttr(a) ==
    a = [kind |-> a.kind, type |-> a.type, len |-> a.len, cap |-> a.cap, vary |-> a.vary,
         perm |-> [read |-> a.perm.read, write |-> a.perm.write], of |-> a.of, last |-> a.last]

IsTable(t) ==
    /\ t \in Seq({t[h] : h \in DOMAIN t})
    /\ \A h \in DOMAIN t : IsAttr(t[h])

AlikeAttr(a, b) == a.kind = b.kind /\ a.type = b.type /\ a.perm = b.perm

Keeps(t, u) ==
    /\ IsTable(t) /\ IsTable(u) /\ Len(t) <= Len(u)
    /\ \A h \in 1 .. Len(t) : AlikeAttr(t[h], u[h])

LEMMA TableLen ==
    ASSUME NEW t, IsTable(t)
    PROVE  Len(t) \in Nat /\ DOMAIN t = 1 .. Len(t)
BY DEF IsTable

LEMMA AppendTable ==
    ASSUME NEW t, IsTable(t), NEW x, IsAttr(x)
    PROVE  /\ Keeps(t, Append(t, x))
           /\ Len(Append(t, x)) = Len(t) + 1
           /\ Append(t, x)[Len(t) + 1] = x
<1> DEFINE S == {t[h] : h \in DOMAIN t}
           u == Append(t, x)
<1>1. t \in Seq(S \cup {x}) BY DEF IsTable
<1> HIDE DEF S
<1>2. /\ u \in Seq(S \cup {x}) /\ Len(u) = Len(t) + 1 /\ Len(t) \in Nat
      /\ DOMAIN u = 1 .. Len(t) + 1 /\ DOMAIN t = 1 .. Len(t)
      /\ u[Len(t) + 1] = x /\ \A h \in 1 .. Len(t) : u[h] = t[h]
  BY <1>1
<1> HIDE DEF u
<1>3. u \in Seq({u[h] : h \in DOMAIN u})
  <2> DEFINE n == Len(t) + 1
  <2>0. n \in Nat /\ DOMAIN u = 1 .. n BY <1>2
  <2> DEFINE R == {u[h] : h \in DOMAIN u}
  <2>1. u \in [1 .. n -> R] BY <2>0, <1>2
  <2> HIDE DEF n, R
  <2>2. u \in Seq(R) BY <2>0, <2>1
  <2> QED BY <2>2 DEF R
<1>4. \A h \in DOMAIN u : IsAttr(u[h]) BY <1>2 DEF IsTable
<1>5. IsTable(u) BY <1>3, <1>4 DEF IsTable
<1>6. Keeps(t, u) BY <1>2, <1>5 DEF Keeps, AlikeAttr
<1> USE DEF u
<1> QED BY <1>2, <1>6

LEMMA UpdateIs ==
    ASSUME NEW t, IsTable(t), NEW h, NEW x, h \in DOMAIN t => IsAttr(x)
    PROVE  LET u == [t EXCEPT ![h] = x]
           IN /\ IsTable(u) /\ Len(u) = Len(t) /\ DOMAIN u = DOMAIN t
              /\ \A k \in DOMAIN t : u[k] = IF k = h THEN x ELSE t[k]
<1> DEFINE u == [t EXCEPT ![h] = x]
<1>1. DOMAIN u = DOMAIN t /\ \A k \in DOMAIN t : u[k] = IF k = h THEN x ELSE t[k]
  BY DEF IsTable
<1>2. Len(t) \in Nat /\ DOMAIN t = 1 .. Len(t) BY TableLen
<1> HIDE DEF u
<1>3. u \in Seq({u[k] : k \in DOMAIN u}) /\ Len(u) = Len(t)
  <2>0. u \in [DOMAIN u -> {u[k] : k \in DOMAIN u}]
    <3>1. u = [k \in DOMAIN t |-> IF k = h THEN x ELSE t[k]] BY DEF u, IsTable
    <3> QED BY <3>1
  <2>1. u \in [1 .. Len(t) -> {u[k] : k \in DOMAIN u}] BY <1>1, <1>2, <2>0
  <2> QED BY <2>1, <1>1, <1>2
<1>4. \A k \in DOMAIN u : IsAttr(u[k]) BY <1>1 DEF IsTable
<1> USE DEF u
<1> QED BY <1>1, <1>2, <1>3, <1>4 DEF IsTable

LEMMA UpdateKeeps ==
    ASSUME NEW t, IsTable(t), NEW h, NEW x, h \in DOMAIN t => IsAttr(x) /\ AlikeAttr(t[h], x)
    PROVE  Keeps(t, [t EXCEPT ![h] = x]) /\ Len([t EXCEPT ![h] = x]) = Len(t)
<1> DEFINE u == [t EXCEPT ![h] = x]
<1>1. /\ IsTable(u) /\ Len(u) = Len(t) /\ DOMAIN u = DOMAIN t
      /\ \A k \in DOMAIN t : u[k] = IF k = h THEN x ELSE t[k]
  BY UpdateIs
<1>2. Len(t) \in Nat /\ DOMAIN t = 1 .. Len(t) BY TableLen
<1> HIDE DEF u
<1>3. Keeps(t, u) BY <1>1, <1>2 DEF Keeps, AlikeAttr
<1> USE DEF u
<1> QED BY <1>1, <1>3

LEMMA KeepsTransitive ==
    ASSUME NEW t, NEW u, NEW v, Keeps(t, u), Keeps(u, v)
    PROVE  Keeps(t, v)
<1>1. Len(t) \in Nat /\ Len(u) \in Nat /\ Len(v) \in Nat BY TableLen DEF Keeps
<1> QED BY <1>1 DEF Keeps, AlikeAttr

LEMMA KeepsItself ==
    ASSUME NEW t, IsTable(t)
    PROVE  Keeps(t, t)
BY TableLen DEF Keeps, AlikeAttr

-----------------------------------------------------------------------------
(***************************************************************************)
(* A command committed: the attributes it adds                             *)
(***************************************************************************)
IsPerm(p) == p = [read |-> p.read, write |-> p.write]

IsCommand(c) ==
    /\ c = [kind |-> c.kind, props |-> c.props, perm |-> c.perm, uuid |-> c.uuid, of |-> c.of,
            len |-> c.len]
    /\ c.kind \in {"include", "descriptor", "characteristic"}
    /\ IsPerm(c.perm)

LevelOr(level, default) == IF level \in Levels THEN level ELSE default

PermOf(c) ==
    [read  |-> LevelOr(Wanted(c.perm.read), DefaultPermissions(c.props).read),
     write |-> LevelOr(Wanted(c.perm.write), DefaultPermissions(c.props).write)]

Look(kind, type, perm) == [kind |-> kind, type |-> type, perm |-> perm]

(* What attribute i that command c adds looks like: its length does not    *)
(* matter.                                                                 *)
Added(c, i) ==
    IF c.kind = "include" THEN Look("include", Include, ReadOnly)
    ELSE IF c.kind = "descriptor" THEN Look("data", c.uuid, c.perm)
    ELSE IF i = 1 THEN Look("declaration", Declaration, ReadOnly)
    ELSE IF i = 2 THEN Look("data", c.uuid, PermOf(c))
    ELSE Look("cccd", Configuration, [read |-> "Allowed", write |-> "Allowed"])

Looks(a, look) == a.kind = look.kind /\ a.type = look.type /\ a.perm = look.perm

LEMMA AttributeIs ==
    ASSUME NEW kind, NEW type, NEW len, NEW perm, IsPerm(perm)
    PROVE  /\ IsAttr(Attribute(kind, type, len, perm))
           /\ Looks(Attribute(kind, type, len, perm), Look(kind, type, perm))
<1> DEFINE a == Attribute(kind, type, len, perm)
<1>1. a = [kind |-> kind, type |-> type, len |-> len, cap |-> 0, vary |-> FALSE, perm |-> perm,
           of |-> 0, last |-> 0]
  BY DEF Attribute
<1>2. Looks(a, Look(kind, type, perm)) BY <1>1 DEF Looks, Look
<1>3. IsAttr(a)
  <2>1. a.perm = [read |-> a.perm.read, write |-> a.perm.write] BY <1>1 DEF IsPerm
  <2> HIDE DEF a
  <2> QED BY <1>1, <2>1 DEF IsAttr
<1> QED BY <1>2, <1>3

LEMMA StoredIs ==
    ASSUME NEW type, NEW len, NEW cap, NEW vary, NEW perm, IsPerm(perm)
    PROVE  /\ IsAttr(Stored(type, len, cap, vary, perm))
           /\ Looks(Stored(type, len, cap, vary, perm), Look("data", type, perm))
<1> DEFINE a == Stored(type, len, cap, vary, perm)
<1>1. a = [kind |-> "data", type |-> type, len |-> len, cap |-> cap, vary |-> vary, perm |-> perm,
           of |-> 0, last |-> 0]
  <2>1. Attribute("data", type, len, perm) =
            [kind |-> "data", type |-> type, len |-> len, cap |-> 0, vary |-> FALSE, perm |-> perm,
             of |-> 0, last |-> 0]
    BY DEF Attribute
  <2> DEFINE r == Attribute("data", type, len, perm)
  <2> HIDE DEF r
  <2>2. a = [r EXCEPT !.cap = cap, !.vary = vary] BY DEF Stored, r
  <2>3. r = [kind |-> "data", type |-> type, len |-> len, cap |-> 0, vary |-> FALSE, perm |-> perm,
             of |-> 0, last |-> 0]
    BY <2>1 DEF r
  <2> QED BY <2>2, <2>3
<1>2. Looks(a, Look("data", type, perm)) BY <1>1 DEF Looks, Look
<1>3. IsAttr(a)
  <2>1. a.perm = [read |-> a.perm.read, write |-> a.perm.write] BY <1>1 DEF IsPerm
  <2> HIDE DEF a
  <2> QED BY <1>1, <2>1 DEF IsAttr
<1> QED BY <1>2, <1>3

LEMMA IncludedIs ==
    ASSUME NEW len, NEW of, NEW last
    PROVE  LET x == [Attribute("include", Include, len, ReadOnly) EXCEPT !.of = of, !.last = last]
           IN IsAttr(x) /\ Looks(x, Look("include", Include, ReadOnly))
<1> DEFINE x == [Attribute("include", Include, len, ReadOnly) EXCEPT !.of = of, !.last = last]
<1>1. x = [kind |-> "include", type |-> Include, len |-> len, cap |-> 0, vary |-> FALSE,
           perm |-> ReadOnly, of |-> of, last |-> last]
  <2>1. Attribute("include", Include, len, ReadOnly) =
            [kind |-> "include", type |-> Include, len |-> len, cap |-> 0, vary |-> FALSE,
             perm |-> ReadOnly, of |-> 0, last |-> 0]
    BY DEF Attribute
  <2> DEFINE r == Attribute("include", Include, len, ReadOnly)
  <2> HIDE DEF r
  <2>2. x = [r EXCEPT !.of = of, !.last = last] BY DEF r
  <2> HIDE DEF x
  <2>3. r = [kind |-> "include", type |-> Include, len |-> len, cap |-> 0, vary |-> FALSE,
             perm |-> ReadOnly, of |-> 0, last |-> 0]
    BY <2>1 DEF r
  <2> QED BY <2>2, <2>3
<1>2. Looks(x, Look("include", Include, ReadOnly)) BY <1>1 DEF Looks, Look
<1>3. IsAttr(x)
  <2>1. x.perm = [read |-> x.perm.read, write |-> x.perm.write] BY <1>1 DEF ReadOnly
  <2> HIDE DEF x
  <2> QED BY <1>1, <2>1 DEF IsAttr
<1> QED BY <1>2, <1>3

(* Attributes one after the other                                          *)
LEMMA TwoAppended ==
    ASSUME NEW t, IsTable(t), NEW x, NEW y
    PROVE  t \o <<x, y>> = Append(Append(t, x), y)
<1> DEFINE S == {t[h] : h \in DOMAIN t} \cup {x, y}
<1>1. t \in Seq(S) /\ x \in S /\ y \in S BY DEF IsTable
<1> HIDE DEF S
<1> QED BY <1>1

LEMMA OneAppended ==
    ASSUME NEW t, IsTable(t), NEW x
    PROVE  t \o <<x>> = Append(t, x) /\ t \o <<>> = t
<1> DEFINE S == {t[h] : h \in DOMAIN t} \cup {x}
<1>1. t \in Seq(S) /\ x \in S BY DEF IsTable
<1> HIDE DEF S
<1> QED BY <1>1

LEMMA CharacteristicIs ==
    ASSUME NEW t, IsTable(t), NEW props, NEW value, IsAttr(value)
    PROVE  LET u == AddCharacteristic(t, props, value)
           IN /\ Keeps(t, u)
              /\ Len(u) = Len(t) + (IF HasCccd(props) THEN 3 ELSE 2)
              /\ Looks(u[Len(t) + 1], Look("declaration", Declaration, ReadOnly))
              /\ u[Len(t) + 2] = value
              /\ HasCccd(props) => Looks(u[Len(t) + 3], Look("cccd", Configuration,
                                                           [read |-> "Allowed", write |-> "Allowed"]))
<1> DEFINE n == Len(t)
           x == Attribute("declaration", Declaration, 3 + Len(value.type), ReadOnly)
           t1 == Append(t, x)
           t2 == Append(t1, value)
           t3 == Append(t2, Cccd)
           open == [read |-> "Allowed", write |-> "Allowed"]
           u == AddCharacteristic(t, props, value)
<1>0. n \in Nat BY TableLen
<1>1. IsAttr(x) /\ Looks(x, Look("declaration", Declaration, ReadOnly))
  BY AttributeIs DEF IsPerm, ReadOnly
<1>2. IsAttr(Cccd) /\ Looks(Cccd, Look("cccd", Configuration, open))
  BY AttributeIs DEF IsPerm, Cccd
<1>3. IsTable(t1) /\ IsTable(t2) /\ IsTable(t3) BY AppendTable, <1>1, <1>2 DEF Keeps
<1>4. u = IF HasCccd(props) THEN t3 ELSE t2
  <2>1. t \o <<x, value>> = t2 BY TwoAppended
  <2>2. t2 \o <<Cccd>> = t3 /\ t2 \o <<>> = t2 BY <1>3, OneAppended
  <2> HIDE DEF t3, t2, t1
  <2> QED BY <2>1, <2>2 DEF AddCharacteristic
<1>5. Len(t1) = n + 1 /\ Len(t2) = n + 2 /\ Len(t3) = n + 3
  BY AppendTable, <1>0, <1>1, <1>2, <1>3
<1>6. Keeps(t, t1) /\ Keeps(t1, t2) /\ Keeps(t2, t3) BY AppendTable, <1>1, <1>2, <1>3
<1>7. Keeps(t, t2) /\ Keeps(t, t3) /\ Keeps(t1, t3) BY <1>6, KeepsTransitive
<1>8. t1[n + 1] = x /\ t2[n + 2] = value /\ t3[n + 3] = Cccd
  BY AppendTable, <1>0, <1>1, <1>2, <1>3, <1>5
<1>9. t2[n + 1] = x /\ t3[n + 1] = x /\ t3[n + 2] = value
  <2> DEFINE S == {t[h] : h \in DOMAIN t} \cup {x, value, Cccd}
  <2>1. t \in Seq(S) /\ x \in S /\ value \in S /\ Cccd \in S BY DEF IsTable
  <2> HIDE DEF S, x
  <2> QED BY <2>1, <1>0
<1> HIDE DEF t1, t2, t3, x, u, n
<1>10. /\ Keeps(t, u)
       /\ Len(u) = n + (IF HasCccd(props) THEN 3 ELSE 2)
       /\ Looks(u[n + 1], Look("declaration", Declaration, ReadOnly))
       /\ u[n + 2] = value
       /\ HasCccd(props) => Looks(u[n + 3], Look("cccd", Configuration, open))
  <2> HIDE DEF open
  <2>1. CASE HasCccd(props) BY <2>1, <1>1, <1>2, <1>4, <1>5, <1>7, <1>8, <1>9
  <2>2. CASE ~HasCccd(props) BY <2>2, <1>1, <1>2, <1>4, <1>5, <1>7, <1>8, <1>9
  <2> QED BY <2>1, <2>2
<1> QED BY <1>10 DEF u, n

(* The table the command leaves, if nothing stops it                       *)
ValueOf(c) ==
    Stored(c.uuid, c.len, Capacity(c.len), TRUE,
           IF c.kind = "descriptor" THEN c.perm ELSE DefaultPermissions(c.props))

Grown(t, c) ==
    CASE c.kind = "include"    -> AddIncluded(t, c.of)
      [] c.kind = "descriptor" -> AddDescriptor(t, ValueOf(c))
      [] c.kind = "characteristic" ->
           SetPermissions(AddCharacteristic(t, c.props, ValueOf(c)), Len(t) + 2,
                          Wanted(c.perm.read), Wanted(c.perm.write))

Grows(t, c, u) ==
    /\ Keeps(t, u)
    /\ Len(u) = Len(t) + Count(c)
    /\ \A i \in 1 .. Count(c) : Looks(u[Len(t) + i], Added(c, i))

LEMMA CommittedIs ==
    ASSUME NEW a, NEW c
    PROVE  Committed(a, c) =
               IF a.end # "ok" THEN a
               ELSE IF \/ c.kind = "include" /\ ~Includable(a.table, c.of)
                       \/ c.kind = "descriptor" /\ ~a.open
               THEN [a EXCEPT !.end = "Fail"]
               ELSE IF Len(Grown(a.table, c)) > TableSize THEN [a EXCEPT !.end = "panic"]
               ELSE [a EXCEPT !.table = Grown(a.table, c), !.open = c.kind # "include"]
BY DEF Committed, Grown, ValueOf

LEMMA PermissionsAre ==
    ASSUME NEW props
    PROVE  IsPerm(DefaultPermissions(props))
BY DEF IsPerm, DefaultPermissions

LEMMA GrownIs ==
    ASSUME NEW t, IsTable(t), NEW c, IsCommand(c)
    PROVE  Grows(t, c, Grown(t, c))
<1> DEFINE n == Len(t)
           u == Grown(t, c)
           v == ValueOf(c)
<1>0. n \in Nat BY TableLen
<1>1. CASE c.kind = "include"
  <2> DEFINE x == [Attribute("include", Include, IF t[c.of].len = 2 THEN 6 ELSE 4, ReadOnly)
                      EXCEPT !.of = c.of, !.last = t[c.of].last]
  <2>1. u = Append(t, x) BY <1>1 DEF Grown, AddIncluded
  <2>2. IsAttr(x) /\ Looks(x, Look("include", Include, ReadOnly)) BY IncludedIs
  <2> HIDE DEF x
  <2>3. Keeps(t, u) /\ Len(u) = n + 1 /\ u[n + 1] = x BY <2>1, <2>2, AppendTable
  <2>4. Count(c) = 1 BY <1>1 DEF Count
  <2>5. Added(c, 1) = Look("include", Include, ReadOnly) BY <1>1 DEF Added
  <2> HIDE DEF u, n
  <2>6. \A i \in 1 .. Count(c) : Looks(u[n + i], Added(c, i))
    BY <1>0, <2>2, <2>3, <2>4, <2>5
  <2>7. Keeps(t, u) /\ Len(u) = n + Count(c) BY <2>3, <2>4
  <2> QED BY <2>6, <2>7 DEF Grows, u, n
<1>2. CASE c.kind = "descriptor"
  <2>1. u = Append(t, v) BY <1>2 DEF Grown, AddDescriptor
  <2>2. IsAttr(v) /\ Looks(v, Look("data", c.uuid, c.perm))
    <3>1. v = Stored(c.uuid, c.len, Capacity(c.len), TRUE, c.perm) BY <1>2 DEF ValueOf
    <3> QED BY <3>1, StoredIs DEF IsCommand
  <2> HIDE DEF v
  <2>3. Keeps(t, u) /\ Len(u) = n + 1 /\ u[n + 1] = v BY <2>1, <2>2, AppendTable
  <2>4. Count(c) = 1 BY <1>2 DEF Count
  <2>5. Added(c, 1) = Look("data", c.uuid, c.perm) BY <1>2 DEF Added
  <2> HIDE DEF u, n
  <2>6. \A i \in 1 .. Count(c) : Looks(u[n + i], Added(c, i))
    BY <1>0, <2>2, <2>3, <2>4, <2>5
  <2>7. Keeps(t, u) /\ Len(u) = n + Count(c) BY <2>3, <2>4
  <2> QED BY <2>6, <2>7 DEF Grows, u, n
<1>3. CASE c.kind = "characteristic"
  <2> DEFINE w == AddCharacteristic(t, c.props, v)
             perm == PermOf(c)
             y == [w[n + 2] EXCEPT !.perm = perm]
  <2>1. IsAttr(v) /\ Looks(v, Look("data", c.uuid, DefaultPermissions(c.props)))
    <3>1. v = Stored(c.uuid, c.len, Capacity(c.len), TRUE, DefaultPermissions(c.props)) BY <1>3 DEF ValueOf
    <3> QED BY <3>1, StoredIs, PermissionsAre
  <2>2. /\ Keeps(t, w)
        /\ Len(w) = n + (IF HasCccd(c.props) THEN 3 ELSE 2)
        /\ Looks(w[n + 1], Look("declaration", Declaration, ReadOnly))
        /\ w[n + 2] = v
        /\ HasCccd(c.props) => Looks(w[n + 3], Look("cccd", Configuration,
                                                    [read |-> "Allowed", write |-> "Allowed"]))
    BY <2>1, CharacteristicIs
  <2>3. Count(c) = (IF HasCccd(c.props) THEN 3 ELSE 2) BY <1>3 DEF Count
  <2>4. IsTable(w) /\ n + 2 \in DOMAIN w
    <3>1. IsTable(w) BY <2>2 DEF Keeps
    <3> QED BY <3>1, <2>2, <1>0, TableLen
  <2>5. v.perm = DefaultPermissions(c.props) /\ v.kind = "data" /\ v.type = c.uuid
    BY <2>1 DEF Looks, Look
  <2>6. u = [w EXCEPT ![n + 2] = y]
    <3>1. u = [w EXCEPT ![n + 2].perm =
                  [read  |-> IF Wanted(c.perm.read) \in Levels THEN Wanted(c.perm.read) ELSE @.read,
                   write |-> IF Wanted(c.perm.write) \in Levels THEN Wanted(c.perm.write) ELSE @.write]]
      BY <1>3 DEF Grown, SetPermissions
    <3>2. w[n + 2].perm = DefaultPermissions(c.props) BY <2>2, <2>5
    <3> HIDE DEF w, v, u, n
    <3> QED BY <3>1, <3>2, <2>4 DEF PermOf, LevelOr
  <2>7. IsAttr(y) /\ y.perm = perm /\ y.kind = "data" /\ y.type = c.uuid
    <3>1. PICK k, ty, l, cp, vr, p, o, la :
              v = [kind |-> k, type |-> ty, len |-> l, cap |-> cp, vary |-> vr, perm |-> p, of |-> o, last |-> la]
      BY <2>1 DEF IsAttr
    <3>2. y = [v EXCEPT !.perm = perm] BY <2>2
    <3> HIDE DEF v, y, perm, w
    <3>3. y = [kind |-> k, type |-> ty, len |-> l, cap |-> cp, vary |-> vr, perm |-> perm, of |-> o, last |-> la]
      BY <3>1, <3>2
    <3>4. perm = [read |-> perm.read, write |-> perm.write] BY DEF perm, PermOf
    <3>5. y.kind = "data" /\ y.type = c.uuid /\ y.perm = perm BY <3>1, <3>3, <2>5
    <3>6. IsAttr(y) BY <3>3, <3>4 DEF IsAttr
    <3> QED BY <3>5, <3>6
  <2>8. /\ IsTable(u) /\ Len(u) = Len(w)
        /\ \A k \in DOMAIN w : u[k] = IF k = n + 2 THEN y ELSE w[k]
    <3> HIDE DEF y, w, u
    <3> QED BY <2>4, <2>6, <2>7, UpdateIs
  <2>9. DOMAIN w = 1 .. Len(w) /\ Len(w) \in Nat /\ Len(w) = n + Count(c) BY <2>2, <2>3, <2>4, TableLen
  <2>10. Keeps(t, u)
    <3> HIDE DEF y, w, u
    <3>1. n + 2 <= Len(w) BY <2>4, <2>9, <1>0
    <3>2. \A k \in 1 .. n : u[k] = w[k] BY <2>8, <2>9, <3>1, <1>0
    <3> QED BY <2>2, <2>8, <3>2 DEF Keeps
  <2>11. /\ Added(c, 1) = Look("declaration", Declaration, ReadOnly)
         /\ Added(c, 2) = Look("data", c.uuid, perm)
         /\ Added(c, 3) = Look("cccd", Configuration, [read |-> "Allowed", write |-> "Allowed"])
    BY <1>3 DEF Added
  <2>12. Looks(u[n + 1], Added(c, 1))
    <3> HIDE DEF y, w, u
    <3>1. u[n + 1] = w[n + 1] BY <2>4, <2>8, <2>9, <1>0
    <3> QED BY <2>2, <2>11, <3>1
  <2>13. Looks(u[n + 2], Added(c, 2))
    <3> HIDE DEF y, w, u, perm
    <3>1. u[n + 2] = y BY <2>4, <2>8
    <3> QED BY <2>7, <2>11, <3>1 DEF Looks, Look
  <2>14. HasCccd(c.props) => Looks(u[n + 3], Added(c, 3))
    <3> HIDE DEF y, w, u
    <3>1. HasCccd(c.props) => u[n + 3] = w[n + 3] BY <2>2, <2>8, <2>9, <1>0
    <3> QED BY <2>2, <2>11, <3>1
  <2>15. Len(u) = n + Count(c) BY <2>8, <2>9
  <2>16. \A i \in 1 .. Count(c) : Looks(u[n + i], Added(c, i))
    <3> HIDE DEF u
    <3>1. CASE HasCccd(c.props)
      <4>1. 1 .. Count(c) = {1, 2, 3} BY <3>1, <2>3
      <4> QED BY <3>1, <4>1, <2>12, <2>13, <2>14
    <3>2. CASE ~HasCccd(c.props)
      <4>1. 1 .. Count(c) = {1, 2} BY <3>2, <2>3
      <4> QED BY <4>1, <2>12, <2>13
    <3> QED BY <3>1, <3>2
  <2> QED BY <2>10, <2>15, <2>16 DEF Grows
<1> QED BY <1>1, <1>2, <1>3 DEF IsCommand

(* The state of a commit, and one command of it                            *)
IsRun(a) ==
    /\ a = [table |-> a.table, end |-> a.end, open |-> a.open]
    /\ a.end \in {"ok", "Fail", "panic"}
    /\ a.end = "ok" => IsTable(a.table)

LEMMA CommitGrows ==
    ASSUME NEW a, IsRun(a), NEW c, IsCommand(c)
    PROVE  /\ IsRun(Committed(a, c))
           /\ Committed(a, c).end = "ok" =>
                 a.end = "ok" /\ Grows(a.table, c, Committed(a, c).table)
<1> DEFINE r == Committed(a, c)
           g == Grown(a.table, c)
<1>1. PICK t, e, o : a = [table |-> t, end |-> e, open |-> o] BY DEF IsRun
<1>2. CASE a.end # "ok" BY <1>2, CommittedIs
<1>3. CASE a.end = "ok"
  <2>1. Grows(t, c, g) /\ IsTable(g) BY <1>1, <1>3, GrownIs DEF IsRun, Grows, Keeps
  <2>2. r \in {[a EXCEPT !.end = "Fail"], [a EXCEPT !.end = "panic"]}
        \/ r = [a EXCEPT !.table = g, !.open = c.kind # "include"]
    BY <1>3, CommittedIs
  <2> HIDE DEF r, g
  <2>3. CASE r \in {[a EXCEPT !.end = "Fail"], [a EXCEPT !.end = "panic"]}
    <3>1. PICK x \in {"Fail", "panic"} : r = [table |-> t, end |-> x, open |-> o] BY <1>1, <2>3
    <3> QED BY <3>1 DEF r, IsRun
  <2>4. CASE r = [a EXCEPT !.table = g, !.open = c.kind # "include"]
    <3> DEFINE x == c.kind # "include"
    <3> HIDE DEF x
    <3>1. r = [table |-> g, end |-> e, open |-> x] BY <1>1, <2>4 DEF x
    <3>2. e = "ok" /\ r.end = "ok" /\ r.table = g /\ a.table = t BY <1>1, <1>3, <3>1
    <3> QED BY <1>3, <2>1, <3>1, <3>2 DEF r, IsRun
  <2> QED BY <2>2, <2>3, <2>4
<1> QED BY <1>2, <1>3

(* The length of a value changes nothing a promise is about.               *)
ButForLen(c, d) ==
    c.kind = d.kind /\ c.props = d.props /\ c.perm = d.perm /\ c.uuid = d.uuid /\ c.of = d.of

LEMMA LookAlike ==
    ASSUME NEW a, NEW b, NEW look, Looks(a, look), Looks(b, look)
    PROVE  AlikeAttr(a, b)
BY DEF Looks, AlikeAttr

LEMMA GrowAlike ==
    ASSUME NEW t, IsTable(t), NEW c, IsCommand(c), NEW d, ButForLen(c, d), NEW u, NEW v,
           Grows(t, c, u), Grows(t, d, v)
    PROVE  Keeps(u, v) /\ Len(u) = Len(v)
<1>1. Count(c) = Count(d) /\ Count(c) \in 1 .. 3 BY DEF Count, ButForLen
<1>2. \A i : Added(c, i) = Added(d, i) BY DEF Added, ButForLen, PermOf
<1>3. Len(t) \in Nat BY TableLen
<1>4. /\ Keeps(t, u) /\ Len(u) = Len(t) + Count(c)
      /\ \A i \in 1 .. Count(c) : Looks(u[Len(t) + i], Added(c, i))
  BY DEF Grows
<1>5. /\ Keeps(t, v) /\ Len(v) = Len(t) + Count(c)
      /\ \A i \in 1 .. Count(c) : Looks(v[Len(t) + i], Added(c, i))
  BY <1>1, <1>2 DEF Grows
<1>6. ASSUME NEW h \in 1 .. Len(u) PROVE AlikeAttr(u[h], v[h])
  <2>1. CASE h <= Len(t)
    <3>1. AlikeAttr(t[h], u[h]) /\ AlikeAttr(t[h], v[h]) BY <1>3, <1>4, <1>5, <2>1 DEF Keeps
    <3> QED BY <3>1 DEF AlikeAttr
  <2>2. CASE h > Len(t)
    <3> DEFINE i == h - Len(t)
    <3>1. i \in 1 .. Count(c) /\ h = Len(t) + i BY <1>1, <1>3, <1>4, <2>2
    <3> HIDE DEF i
    <3>2. Looks(u[Len(t) + i], Added(c, i)) /\ Looks(v[Len(t) + i], Added(c, i)) BY <1>4, <1>5, <3>1
    <3> QED BY <3>1, <3>2, LookAlike
  <2> QED BY <2>1, <2>2, <1>1, <1>3, <1>4
<1>7. Len(u) = Len(v) /\ Len(u) <= Len(v) BY <1>1, <1>3, <1>4, <1>5
<1> QED BY <1>4, <1>5, <1>6, <1>7 DEF Keeps

LEMMA CommitAlike ==
    ASSUME NEW a, IsRun(a), NEW c, IsCommand(c), NEW d, IsCommand(d), ButForLen(c, d),
           Committed(a, d).end = "ok"
    PROVE  /\ Committed(a, c).end = "ok"
           /\ Keeps(Committed(a, c).table, Committed(a, d).table)
           /\ Len(Committed(a, c).table) = Len(Committed(a, d).table)
<1>1. a.end = "ok" /\ IsTable(a.table) BY CommitGrows DEF IsRun
<1>2. PICK t, o : a = [table |-> t, end |-> "ok", open |-> o] BY <1>1 DEF IsRun
<1>3. Grows(t, c, Grown(t, c)) /\ Grows(t, d, Grown(t, d)) BY <1>1, <1>2, GrownIs
<1>4. Keeps(Grown(t, c), Grown(t, d)) /\ Len(Grown(t, c)) = Len(Grown(t, d))
  BY <1>1, <1>2, <1>3, GrowAlike
<1> DEFINE stops(x) == \/ x.kind = "include" /\ ~Includable(t, x.of)
                       \/ x.kind = "descriptor" /\ ~o
           gc == Grown(t, c)
           gd == Grown(t, d)
           r == Committed(a, c)
           s == Committed(a, d)
<1>5. stops(c) <=> stops(d) BY DEF ButForLen
<1>6. a.table = t /\ a.end = "ok" /\ a.open = o BY <1>2
<1>7. r = IF stops(c) THEN [a EXCEPT !.end = "Fail"]
          ELSE IF Len(gc) > TableSize THEN [a EXCEPT !.end = "panic"]
          ELSE [a EXCEPT !.table = gc, !.open = c.kind # "include"]
  BY <1>6, CommittedIs
<1>8. s = IF stops(d) THEN [a EXCEPT !.end = "Fail"]
          ELSE IF Len(gd) > TableSize THEN [a EXCEPT !.end = "panic"]
          ELSE [a EXCEPT !.table = gd, !.open = d.kind # "include"]
  BY <1>6, CommittedIs
<1> HIDE DEF stops, gc, gd, r, s
<1>9. ~stops(d) /\ ~(Len(gd) > TableSize)
  <2>1. stops(d) => s = [a EXCEPT !.end = "Fail"] BY <1>8
  <2>2. ~stops(d) /\ Len(gd) > TableSize => s = [a EXCEPT !.end = "panic"] BY <1>8
  <2>3. [a EXCEPT !.end = "Fail"].end = "Fail" /\ [a EXCEPT !.end = "panic"].end = "panic" BY <1>2
  <2>4. s.end = "ok" BY DEF s
  <2> QED BY <2>1, <2>2, <2>3, <2>4
<1>10. ~(Len(gc) > TableSize) BY <1>4, <1>9 DEF gc, gd
<1>11. r.table = gc /\ r.end = "ok"
  <2> DEFINE x == c.kind # "include"
  <2> HIDE DEF x
  <2>1. r = [a EXCEPT !.table = gc, !.open = x] BY <1>5, <1>7, <1>9, <1>10 DEF x
  <2>2. r = [table |-> gc, end |-> "ok", open |-> x] BY <1>2, <2>1
  <2> QED BY <2>2
<1>12. s.table = gd
  <2> DEFINE x == d.kind # "include"
  <2> HIDE DEF x
  <2>1. s = [a EXCEPT !.table = gd, !.open = x] BY <1>8, <1>9 DEF x
  <2>2. s = [table |-> gd, end |-> "ok", open |-> x] BY <1>2, <2>1
  <2> QED BY <2>2
<1> QED BY <1>4, <1>11, <1>12 DEF r, s, gc, gd

-----------------------------------------------------------------------------
(***************************************************************************)
(* The queue committed to a table: what is there before the service is     *)
(* closed                                                                  *)
(***************************************************************************)
IsQueue(q) ==
    /\ q \in Seq({q[i] : i \in DOMAIN q})
    /\ \A i \in DOMAIN q : IsCommand(q[i])

Opened(t, sv) == AddService(t, sv[1].primary, sv[1].uuid)

Start(t, sv) == [table |-> Opened(t, sv), end |-> "ok", open |-> FALSE]

Commits(t, sv, q) == CHOOSE f : IsCommits(f, Start(t, sv), q, Len(q))

Now(t, sv, q) == Commits(t, sv, q)[Len(q)]

LEMMA FinalizedIs ==
    ASSUME NEW b, NEW t
    PROVE  Finalized(b, t) =
             IF b.service = NoService THEN [table |-> t, end |-> "ok"]
             ELSE IF Len(Opened(t, b.service)) > TableSize THEN [table |-> t, end |-> "panic"]
             ELSE [table |-> Closed(Now(t, b.service, b.commands).table, Len(Opened(t, b.service))),
                   end |-> Now(t, b.service, b.commands).end]
BY DEF Finalized, Now, Commits, IsCommits, Start, Opened

LEMMA QueueLen ==
    ASSUME NEW q, IsQueue(q)
    PROVE  Len(q) \in Nat /\ DOMAIN q = 1 .. Len(q)
BY DEF IsQueue

LEMMA CommitsAre ==
    ASSUME NEW t, NEW sv, NEW q, Len(q) \in Nat
    PROVE  IsCommits(Commits(t, sv, q), Start(t, sv), q, Len(q))
<1>1. \E f : IsCommits(f, Start(t, sv), q, Len(q)) BY CommitsExist
<1> QED BY <1>1 DEF Commits

LEMMA NowOfNone ==
    ASSUME NEW t, NEW sv
    PROVE  Now(t, sv, <<>>) = Start(t, sv)
<1> DEFINE f == Commits(t, sv, <<>>)
<1>0. Len(<<>>) = 0 OBVIOUS
<1>1. IsCommits(f, Start(t, sv), <<>>, 0) BY <1>0, CommitsAre
<1> HIDE DEF f
<1>2. f[0] = Start(t, sv) BY <1>1 DEF IsCommits
<1> QED BY <1>0, <1>2 DEF Now, f

(* One command more                                                        *)
LEMMA NowOfOneMore ==
    ASSUME NEW t, NEW sv, NEW q, NEW r, Len(q) \in Nat, Len(r) = Len(q) + 1,
           \A i \in 1 .. Len(q) : q[i] = r[i]
    PROVE  Now(t, sv, r) = Committed(Now(t, sv, q), r[Len(r)])
<1> DEFINE f == Commits(t, sv, q)
           g == Commits(t, sv, r)
           n == Len(q)
           m == Len(r)
           a == Start(t, sv)
<1>1. IsCommits(f, a, q, n) BY CommitsAre
<1>2. IsCommits(g, a, r, m)
  <2>1. m \in Nat OBVIOUS
  <2> QED BY <2>1, CommitsAre
<1>3. n \in Nat /\ m \in Nat /\ n <= m /\ m = n + 1 /\ \A i \in 1 .. n : q[i] = r[i] OBVIOUS
<1> HIDE DEF f, g, n, m, a
<1>4. f[n] = g[n] BY <1>1, <1>2, <1>3, CommitsAgree
<1>5. g[m] = Committed(g[m - 1], r[m]) BY <1>2, <1>3 DEF IsCommits
<1>6. g[m] = Committed(f[n], r[m]) BY <1>3, <1>4, <1>5
<1> QED BY <1>6 DEF Now, f, g, n, m

LEMMA QueueAppend ==
    ASSUME NEW q, IsQueue(q), NEW c, IsCommand(c)
    PROVE  LET r == Append(q, c)
           IN /\ IsQueue(r) /\ Len(r) = Len(q) + 1 /\ r[Len(r)] = c
              /\ \A i \in 1 .. Len(q) : q[i] = r[i]
<1> DEFINE S == {q[h] : h \in DOMAIN q}
           u == Append(q, c)
<1>1. q \in Seq(S \cup {c}) BY DEF IsQueue
<1> HIDE DEF S
<1>2. /\ u \in Seq(S \cup {c}) /\ Len(u) = Len(q) + 1 /\ Len(q) \in Nat
      /\ DOMAIN u = 1 .. Len(q) + 1 /\ DOMAIN q = 1 .. Len(q)
      /\ u[Len(q) + 1] = c /\ \A h \in 1 .. Len(q) : u[h] = q[h]
  BY <1>1
<1> HIDE DEF u
<1>3. u \in Seq({u[h] : h \in DOMAIN u})
  <2> DEFINE n == Len(q) + 1
             R == {u[h] : h \in DOMAIN u}
  <2>0. n \in Nat /\ DOMAIN u = 1 .. n BY <1>2
  <2>1. u \in [1 .. n -> R] BY <2>0, <1>2
  <2> HIDE DEF n, R
  <2>2. u \in Seq(R) BY <2>0, <2>1
  <2> QED BY <2>2 DEF R
<1>4. \A h \in DOMAIN u : IsCommand(u[h]) BY <1>2 DEF IsQueue
<1>5. IsQueue(u) BY <1>3, <1>4 DEF IsQueue
<1> USE DEF u
<1> QED BY <1>2, <1>5

(* ... and the others than the last                                        *)
LEMMA QueueFront ==
    ASSUME NEW q, IsQueue(q), Len(q) > 0
    PROVE  LET r == SubSeq(q, 1, Len(q) - 1)
           IN /\ IsQueue(r) /\ Len(r) = Len(q) - 1
              /\ \A i \in 1 .. Len(r) : r[i] = q[i]
<1> DEFINE S == {q[h] : h \in DOMAIN q}
           n == Len(q) - 1
           r == SubSeq(q, 1, n)
<1>1. q \in Seq(S) /\ Len(q) \in Nat /\ n \in Nat /\ DOMAIN q = 1 .. Len(q) BY DEF IsQueue
<1> HIDE DEF S
<1>2. r \in Seq(S) /\ Len(r) = n /\ DOMAIN r = 1 .. n /\ \A i \in 1 .. n : r[i] = q[i] BY <1>1
<1> HIDE DEF r
<1>3. r \in Seq({r[h] : h \in DOMAIN r})
  <2> DEFINE R == {r[h] : h \in DOMAIN r}
  <2>1. r \in [1 .. n -> R] BY <1>2
  <2> HIDE DEF n, R
  <2>2. r \in Seq(R) BY <1>1, <2>1
  <2> QED BY <2>2 DEF R
<1>4. \A h \in DOMAIN r : IsCommand(r[h]) BY <1>1, <1>2 DEF IsQueue
<1>5. IsQueue(r) BY <1>3, <1>4 DEF IsQueue
<1> USE DEF r
<1> QED BY <1>1, <1>2, <1>5

LEMMA OpenedIs ==
    ASSUME NEW t, IsTable(t), NEW sv
    PROVE  /\ Keeps(t, Opened(t, sv))
           /\ Len(Opened(t, sv)) = Len(t) + 1
           /\ Looks(Opened(t, sv)[Len(t) + 1],
                    Look("service", IF sv[1].primary THEN PrimaryService ELSE SecondaryService, ReadOnly))
<1> DEFINE x == Attribute("service", IF sv[1].primary THEN PrimaryService ELSE SecondaryService,
                          Len(sv[1].uuid), ReadOnly)
<1>1. Opened(t, sv) = Append(t, x) BY DEF Opened, AddService
<1>2. /\ IsAttr(x)
      /\ Looks(x, Look("service", IF sv[1].primary THEN PrimaryService ELSE SecondaryService, ReadOnly))
  BY AttributeIs DEF IsPerm, ReadOnly
<1> HIDE DEF x
<1> QED BY <1>1, <1>2, AppendTable

(* The queue is committed to a table that grows, whatever is in it.        *)
LEMMA NowRuns ==
    ASSUME NEW t, IsTable(t), NEW sv, NEW q, IsQueue(q)
    PROVE  IsRun(Now(t, sv, q))
<1> DEFINE f == Commits(t, sv, q)
           n == Len(q)
           T == {k \in 0 .. n : ~IsRun(f[k])}
<1>0. n \in Nat /\ DOMAIN q = 1 .. n BY QueueLen
<1>1. IsCommits(f, Start(t, sv), q, n) BY <1>0, CommitsAre
<1>2. IsRun(Start(t, sv))
  <2>1. IsTable(Opened(t, sv)) BY OpenedIs DEF Keeps
  <2> DEFINE o == Opened(t, sv)
  <2> HIDE DEF o
  <2>2. Start(t, sv) = [table |-> o, end |-> "ok", open |-> FALSE] BY DEF Start, o
  <2>3. IsTable(o) BY <2>1 DEF o
  <2> QED BY <2>2, <2>3 DEF IsRun
<1> HIDE DEF f
<1>3. \A i \in 0 .. n : f[i] = IF i = 0 THEN Start(t, sv) ELSE Committed(f[i - 1], q[i])
  BY <1>1 DEF IsCommits
<1>4. T = {}
  <2> SUFFICES ASSUME T # {} PROVE FALSE OBVIOUS
  <2>1. PICK k \in T : \A y \in T : k <= y
    <3>1. T \subseteq Nat BY <1>0
    <3> HIDE DEF T
    <3> QED BY <3>1, LeastElement
  <2>2. k # 0 BY <1>0, <1>2, <1>3, <2>1
  <2>3. k - 1 \in 0 .. n /\ k - 1 \notin T BY <1>0, <2>1, <2>2
  <2>4. IsRun(f[k - 1]) /\ IsCommand(q[k]) BY <1>0, <2>1, <2>2, <2>3 DEF IsQueue
  <2>5. f[k] = Committed(f[k - 1], q[k]) BY <1>3, <2>1, <2>2
  <2>6. IsRun(f[k]) BY <2>4, <2>5, CommitGrows
  <2> QED BY <2>1, <2>6
<1> QED BY <1>0, <1>4 DEF Now, f

-----------------------------------------------------------------------------
(***************************************************************************)
(* Promises, and what the queue promises                                   *)
(***************************************************************************)
Kept(m, t) ==
    /\ m.handle \in DOMAIN t
    /\ LET a == t[m.handle]
       IN /\ a.kind = m.kind /\ a.type = m.type
          /\ m.read  # NoLevel => a.perm.read  = m.read
          /\ m.write # NoLevel => a.perm.write = m.write

LEMMA KeptBeyond ==
    ASSUME NEW m, NEW t, NEW u, Kept(m, t), Keeps(t, u)
    PROVE  Kept(m, u)
<1>1. DOMAIN t = 1 .. Len(t) /\ DOMAIN u = 1 .. Len(u) /\ Len(t) \in Nat /\ Len(u) \in Nat
  BY TableLen DEF Keeps
<1>2. m.handle \in DOMAIN t /\ m.handle \in DOMAIN u BY <1>1 DEF Kept, Keeps
<1>3. AlikeAttr(t[m.handle], u[m.handle]) BY <1>1, <1>2 DEF Keeps
<1> QED BY <1>2, <1>3 DEF Kept, AlikeAttr

LEMMA ClosedKeeps ==
    ASSUME NEW t, IsTable(t), NEW h
    PROVE  Keeps(t, Closed(t, h)) /\ Len(Closed(t, h)) = Len(t)
<1> DEFINE x == [t[h] EXCEPT !.last = Len(t)]
<1>1. Closed(t, h) = [t EXCEPT ![h] = x] BY DEF Closed
<1>2. ASSUME h \in DOMAIN t PROVE IsAttr(x) /\ AlikeAttr(t[h], x)
  <2>1. IsAttr(t[h]) BY <1>2 DEF IsTable
  <2>2. PICK k, ty, l, cp, vr, p, o, la :
            t[h] = [kind |-> k, type |-> ty, len |-> l, cap |-> cp, vary |-> vr, perm |-> p, of |-> o,
                    last |-> la]
    BY <2>1 DEF IsAttr
  <2>p. p = [read |-> p.read, write |-> p.write]
    <3>1. t[h].perm = [read |-> t[h].perm.read, write |-> t[h].perm.write] BY <2>1 DEF IsAttr
    <3>2. t[h].perm = p BY <2>2
    <3> QED BY <3>1, <3>2
  <2> DEFINE n == Len(t)
  <2> HIDE DEF n
  <2>3. x = [kind |-> k, type |-> ty, len |-> l, cap |-> cp, vary |-> vr, perm |-> p, of |-> o, last |-> n]
    BY <2>2 DEF n
  <2> HIDE DEF x
  <2>4. IsAttr(x) BY <2>p, <2>3 DEF IsAttr
  <2>5. AlikeAttr(t[h], x) BY <2>2, <2>3 DEF AlikeAttr
  <2> USE DEF x
  <2> QED BY <2>4, <2>5
<1> HIDE DEF x
<1>3. Keeps(t, [t EXCEPT ![h] = x]) /\ Len([t EXCEPT ![h] = x]) = Len(t)
  <2>1. h \in DOMAIN t => IsAttr(x) /\ AlikeAttr(t[h], x) BY <1>2
  <2> QED BY <2>1, UpdateKeeps
<1> QED BY <1>1, <1>3

LEMMA WriteKeeps ==
    ASSUME NEW t, IsTable(t), NEW h, NEW n
    PROVE  Keeps(t, Write(t, h, n))
<1> DEFINE x == [t[h] EXCEPT !.len = n]
<1>1. Write(t, h, n) = t \/ Write(t, h, n) = [t EXCEPT ![h] = x] BY DEF Write
<1>2. ASSUME h \in DOMAIN t PROVE IsAttr(x) /\ AlikeAttr(t[h], x)
  <2>1. IsAttr(t[h]) BY <1>2 DEF IsTable
  <2>2. PICK k, ty, l, cp, vr, p, o, la :
            t[h] = [kind |-> k, type |-> ty, len |-> l, cap |-> cp, vary |-> vr, perm |-> p, of |-> o,
                    last |-> la]
    BY <2>1 DEF IsAttr
  <2>p. p = [read |-> p.read, write |-> p.write]
    <3>1. t[h].perm = [read |-> t[h].perm.read, write |-> t[h].perm.write] BY <2>1 DEF IsAttr
    <3>2. t[h].perm = p BY <2>2
    <3> QED BY <3>1, <3>2
  <2>3. x = [kind |-> k, type |-> ty, len |-> n, cap |-> cp, vary |-> vr, perm |-> p, of |-> o, last |-> la]
    BY <2>2
  <2> HIDE DEF x
  <2>4. IsAttr(x) BY <2>p, <2>3 DEF IsAttr
  <2>5. AlikeAttr(t[h], x) BY <2>2, <2>3 DEF AlikeAttr
  <2> USE DEF x
  <2> QED BY <2>4, <2>5
<1> HIDE DEF x
<1>3. Keeps(t, [t EXCEPT ![h] = x])
  <2>1. h \in DOMAIN t => IsAttr(x) /\ AlikeAttr(t[h], x) BY <1>2
  <2> QED BY <2>1, UpdateKeeps
<1> QED BY <1>1, <1>3, KeepsItself

(* What handle the queue is at: the sum NextHandle makes, one command more *)
Counts(q) == [i \in DOMAIN q |-> Count(q[i])]

LEMMA CountIs ==
    ASSUME NEW c
    PROVE  Count(c) \in 1 .. 3
BY DEF Count

LEMMA CountsLen ==
    ASSUME NEW q, IsQueue(q)
    PROVE  Len(Counts(q)) = Len(q) /\ Len(q) \in Nat
<1>1. Len(q) \in Nat /\ DOMAIN q = 1 .. Len(q) BY QueueLen
<1>2. Counts(q) \in [1 .. Len(q) -> Nat] BY <1>1, CountIs DEF Counts
<1>3. Counts(q) \in Seq(Nat) BY <1>1, <1>2
<1> QED BY <1>1, <1>2, <1>3

LEMMA CountsOfOneMore ==
    ASSUME NEW q, IsQueue(q), NEW r, IsQueue(r), Len(r) = Len(q) + 1,
           \A i \in 1 .. Len(q) : q[i] = r[i]
    PROVE  Total(Counts(r)) = Total(Counts(q)) + Count(r[Len(r)])
<1>0. Len(q) \in Nat /\ DOMAIN q = 1 .. Len(q) /\ DOMAIN r = 1 .. Len(q) + 1 BY QueueLen
<1>1. Len(Counts(q)) = Len(q) /\ Len(Counts(r)) = Len(q) + 1 BY CountsLen
<1>2. \A i \in 1 .. Len(q) : Counts(q)[i] = Counts(r)[i] BY <1>0 DEF Counts
<1>3. Counts(r)[Len(r)] = Count(r[Len(r)]) BY <1>0 DEF Counts
<1> DEFINE cq == Counts(q)
           cr == Counts(r)
<1> HIDE DEF cq, cr
<1>4. Total(cr) = Total(cq) + cr[Len(cr)]
  <2>1. Len(cq) \in Nat /\ Len(cr) = Len(cq) + 1 /\ \A i \in 1 .. Len(cq) : cq[i] = cr[i]
    BY <1>0, <1>1, <1>2 DEF cq, cr
  <2> QED BY <2>1, TotalAppend
<1> QED BY <1>0, <1>1, <1>3, <1>4 DEF cq, cr

LEMMA NextHandleIs ==
    ASSUME NEW b
    PROVE  NextHandle(b) = b.id + Total(Counts(b.commands)) + 1
BY DEF NextHandle, Counts

(***************************************************************************)
(* A builder whose queue, if it can be committed, keeps the promises ms    *)
(***************************************************************************)
AllKept(ms, t) == \A m \in ms : Kept(m, t)

NowOf(b, t) == Now(t, b.service, b.commands)

Queueing(b, t, ms) ==
    /\ b.id = Len(t) + 1
    /\ NowOf(b, t).end = "ok" =>
          /\ Len(NowOf(b, t).table) + 1 = NextHandle(b)
          /\ AllKept(ms, NowOf(b, t).table)

Ready(b, t, ms) ==
    /\ IsTable(t)
    /\ b = [service |-> b.service, id |-> b.id, commands |-> b.commands]
    /\ IsQueue(b.commands)
    /\ b.service = NoService => b.commands = <<>> /\ AllKept(ms, t)
    /\ b.service # NoService => Queueing(b, t, ms)

LEMMA FinalizedKeeps ==
    ASSUME NEW b, NEW t, NEW ms, Ready(b, t, ms)
    PROVE  /\ Finalized(b, t).end \in {"ok", "Fail", "panic"}
           /\ Finalized(b, t).end = "ok" =>
                 IsTable(Finalized(b, t).table) /\ AllKept(ms, Finalized(b, t).table)
<1> DEFINE f == Finalized(b, t)
           o == Len(Opened(t, b.service))
           a == NowOf(b, t)
<1>0. f = IF b.service = NoService THEN [table |-> t, end |-> "ok"]
          ELSE IF o > TableSize THEN [table |-> t, end |-> "panic"]
          ELSE [table |-> Closed(a.table, o), end |-> a.end]
  BY FinalizedIs DEF NowOf
<1> HIDE DEF f, o
<1>1. CASE b.service = NoService
  <2>1. f.table = t /\ f.end = "ok" BY <1>0, <1>1
  <2> QED BY <1>1, <2>1 DEF Ready, f
<1>2. CASE b.service # NoService /\ o > TableSize
  <2>1. f.end = "panic" BY <1>0, <1>2
  <2> QED BY <2>1 DEF f
<1>3. CASE b.service # NoService /\ ~(o > TableSize)
  <2>1. f.table = Closed(a.table, o) /\ f.end = a.end BY <1>0, <1>3
  <2>2. IsRun(a) BY NowRuns DEF Ready, NowOf
  <2> HIDE DEF a
  <2>3. CASE a.end = "ok"
    <3>1. Keeps(a.table, Closed(a.table, o)) BY <2>2, <2>3, ClosedKeeps DEF IsRun
    <3>2. AllKept(ms, a.table) BY <1>3, <2>3 DEF Ready, Queueing, a
    <3>3. AllKept(ms, f.table) BY <2>1, <3>1, <3>2, KeptBeyond DEF AllKept
    <3> QED BY <2>1, <2>3, <3>1, <3>3 DEF Keeps, f
  <2>4. CASE a.end # "ok"
    BY <2>1, <2>2, <2>4 DEF IsRun, f
  <2> QED BY <2>3, <2>4
<1> QED BY <1>1, <1>2, <1>3

(* One command queued, and the handle the answer tells                     *)
Nth(c) == IF c.kind = "characteristic" THEN 2 ELSE 1

Meant(m, c, h) ==
    LET look == Added(c, Nth(c))
    IN /\ m.handle = h + Nth(c) - 1
       /\ m.kind = look.kind /\ m.type = look.type
       /\ m.read  # NoLevel => look.perm.read  = m.read
       /\ m.write # NoLevel => look.perm.write = m.write

LEMMA QueuedReady ==
    ASSUME NEW b, NEW t, NEW ms, Ready(b, t, ms), b.service # NoService,
           NEW c, IsCommand(c), NEW m, Meant(m, c, NextHandle(b))
    PROVE  Ready([b EXCEPT !.commands = Append(@, c)], t, ms \cup {m})
<1> DEFINE q == b.commands
           r == Append(b.commands, c)
           n == [b EXCEPT !.commands = Append(@, c)]
           a == NowOf(b, t)
           z == NowOf(n, t)
<1>1. PICK sv, id : b = [service |-> sv, id |-> id, commands |-> q] BY DEF Ready
<1>2. n = [service |-> sv, id |-> id, commands |-> r]
  <2> HIDE DEF q
  <2>1. n = [b EXCEPT !.commands = r] BY DEF q
  <2> HIDE DEF r, n
  <2> QED BY <1>1, <2>1
<1>3. /\ IsQueue(q) /\ IsQueue(r) /\ Len(q) \in Nat /\ Len(r) = Len(q) + 1 /\ r[Len(r)] = c
      /\ \A i \in 1 .. Len(q) : q[i] = r[i]
  BY QueueAppend, QueueLen DEF Ready
<1> HIDE DEF q, r, n
<1>4. /\ b.service = sv /\ b.id = id /\ b.commands = q
      /\ n.service = sv /\ n.id = id /\ n.commands = r
  BY <1>1, <1>2
<1>5. z = Committed(a, c)
  <2>1. Now(t, sv, r) = Committed(Now(t, sv, q), r[Len(r)]) BY <1>3, NowOfOneMore
  <2> QED BY <1>3, <1>4, <2>1 DEF NowOf
<1>6. NextHandle(n) = NextHandle(b) + Count(c)
  <2>1. Total(Counts(r)) = Total(Counts(q)) + Count(c) BY <1>3, CountsOfOneMore
  <2>2. NextHandle(n) = id + Total(Counts(r)) + 1 /\ NextHandle(b) = id + Total(Counts(q)) + 1
    BY <1>4, NextHandleIs
  <2>3. Total(Counts(q)) \in Int
    <3>1. Len(Counts(q)) \in Nat BY <1>3, CountsLen
    <3>2. \A i \in 1 .. Len(Counts(q)) : Counts(q)[i] \in Nat
      BY <1>3, CountsLen, QueueLen, CountIs DEF Counts
    <3> QED BY <3>1, <3>2, TotalIsNat
  <2>4. id \in Int BY <1>4, TableLen DEF Ready, Queueing
  <2> QED BY <2>1, <2>2, <2>3, <2>4, CountIs
<1>7. ASSUME z.end = "ok"
      PROVE  Len(z.table) + 1 = NextHandle(n) /\ AllKept(ms \cup {m}, z.table)
  <2>1. IsRun(a) BY NowRuns DEF Ready, NowOf
  <2> HIDE DEF a, z
  <2>2. a.end = "ok" /\ Grows(a.table, c, z.table) BY <1>5, <1>7, <2>1, CommitGrows
  <2>3. Len(a.table) + 1 = NextHandle(b) /\ AllKept(ms, a.table)
    BY <2>2 DEF Ready, Queueing, a
  <2>4. /\ Keeps(a.table, z.table) /\ Len(z.table) = Len(a.table) + Count(c)
        /\ \A i \in 1 .. Count(c) : Looks(z.table[Len(a.table) + i], Added(c, i))
    BY <2>2 DEF Grows
  <2>5. Len(a.table) \in Nat /\ Count(c) \in 1 .. 3 /\ Nth(c) \in 1 .. Count(c)
    BY <2>4, TableLen, CountIs DEF Keeps, Nth, Count
  <2>6. DOMAIN z.table = 1 .. Len(z.table) BY <2>4, TableLen DEF Keeps
  <2>7. Len(z.table) + 1 = NextHandle(n) BY <1>6, <2>3, <2>4, <2>5
  <2>8. m.handle = Len(a.table) + Nth(c) BY <2>3, <2>5 DEF Meant
  <2>9. m.handle \in DOMAIN z.table /\ Looks(z.table[m.handle], Added(c, Nth(c)))
    BY <2>4, <2>5, <2>6, <2>8
  <2>10. Kept(m, z.table) BY <2>9 DEF Kept, Looks, Meant
  <2>11. AllKept(ms, z.table) BY <2>3, <2>4, KeptBeyond DEF AllKept
  <2> QED BY <2>7, <2>10, <2>11 DEF AllKept
<1>8. n = [service |-> n.service, id |-> n.id, commands |-> n.commands] BY <1>2, <1>4
<1>9. Queueing(n, t, ms \cup {m}) BY <1>4, <1>7 DEF Ready, Queueing, z
<1>10. n.service # NoService BY <1>4
<1>11. Ready(n, t, ms \cup {m}) BY <1>3, <1>4, <1>8, <1>9, <1>10 DEF Ready
<1> QED BY <1>11 DEF n, r

(* The value of the last command set: another length                       *)
LEMMA LenOfCommand ==
    ASSUME NEW c, IsCommand(c), NEW l
    PROVE  IsCommand([c EXCEPT !.len = l]) /\ ButForLen(c, [c EXCEPT !.len = l])
<1> DEFINE d == [c EXCEPT !.len = l]
<1>1. PICK k, pr, pe, u, o, n : c = [kind |-> k, props |-> pr, perm |-> pe, uuid |-> u, of |-> o, len |-> n]
  BY DEF IsCommand
<1>2. d = [kind |-> k, props |-> pr, perm |-> pe, uuid |-> u, of |-> o, len |-> l] BY <1>1
<1>3. /\ c.kind = k /\ c.props = pr /\ c.perm = pe /\ c.uuid = u /\ c.of = o
      /\ d.kind = k /\ d.props = pr /\ d.perm = pe /\ d.uuid = u /\ d.of = o /\ d.len = l
  BY <1>1, <1>2
<1> HIDE DEF d
<1>4. ButForLen(c, d) BY <1>3 DEF ButForLen
<1>5. d = [kind |-> d.kind, props |-> d.props, perm |-> d.perm, uuid |-> d.uuid, of |-> d.of, len |-> d.len]
  BY <1>2, <1>3
<1>6. IsCommand(d) BY <1>3, <1>5 DEF IsCommand
<1> QED BY <1>4, <1>6 DEF d

LEMMA QueueChanged ==
    ASSUME NEW q, IsQueue(q), NEW n \in DOMAIN q, NEW d, IsCommand(d)
    PROVE  LET r == [q EXCEPT ![n] = d]
           IN /\ IsQueue(r) /\ Len(r) = Len(q) /\ DOMAIN r = DOMAIN q /\ r[n] = d
              /\ \A i \in DOMAIN q : i # n => r[i] = q[i]
<1> DEFINE r == [q EXCEPT ![n] = d]
<1>1. /\ DOMAIN r = DOMAIN q /\ r[n] = d
      /\ \A k \in DOMAIN q : k # n => r[k] = q[k]
  BY DEF IsQueue
<1>2. Len(q) \in Nat /\ DOMAIN q = 1 .. Len(q) BY QueueLen
<1>0. r = [k \in DOMAIN q |-> IF k = n THEN d ELSE q[k]] BY DEF IsQueue
<1> HIDE DEF r
<1>3. r \in Seq({r[k] : k \in DOMAIN r}) /\ Len(r) = Len(q)
  <2>1. r \in [DOMAIN r -> {r[k] : k \in DOMAIN r}] BY <1>0, <1>1
  <2>2. r \in [1 .. Len(q) -> {r[k] : k \in DOMAIN r}] BY <1>1, <1>2, <2>1
  <2> QED BY <2>2, <1>1, <1>2
<1>4. \A k \in DOMAIN r : IsCommand(r[k]) BY <1>1 DEF IsQueue
<1>5. IsQueue(r) BY <1>3, <1>4 DEF IsQueue
<1> USE DEF r
<1> QED BY <1>1, <1>3, <1>5

LEMMA ValueReady ==
    ASSUME NEW b, NEW t, NEW ms, Ready(b, t, ms), b.service # NoService, Len(b.commands) > 0,
           NEW l
    PROVE  Ready([b EXCEPT !.commands[Len(b.commands)].len = l], t, ms)
<1> DEFINE q == b.commands
           m == Len(b.commands)
           d == [b.commands[Len(b.commands)] EXCEPT !.len = l]
           r == [b.commands EXCEPT ![Len(b.commands)] = [b.commands[Len(b.commands)] EXCEPT !.len = l]]
           n == [b EXCEPT !.commands[Len(b.commands)].len = l]
           front == SubSeq(b.commands, 1, Len(b.commands) - 1)
<1>0. IsQueue(q) /\ Len(q) \in Nat /\ DOMAIN q = 1 .. Len(q) /\ m = Len(q) /\ m \in DOMAIN q
  BY QueueLen DEF Ready
<1>1. PICK sv, id : b = [service |-> sv, id |-> id, commands |-> q] BY DEF Ready
<1>2. n = [service |-> sv, id |-> id, commands |-> r]
  <2>1. n = [b EXCEPT !.commands = r] BY <1>1
  <2> HIDE DEF n, r, q
  <2> QED BY <1>1, <2>1
<1>3. IsCommand(d) /\ ButForLen(q[m], d)
  <2>1. IsCommand(q[m]) BY <1>0 DEF IsQueue
  <2> QED BY <2>1, LenOfCommand
<1>4. /\ IsQueue(r) /\ Len(r) = Len(q) /\ DOMAIN r = DOMAIN q /\ r[m] = d
      /\ \A i \in DOMAIN q : i # m => r[i] = q[i]
  <2>1. r = [q EXCEPT ![m] = d] OBVIOUS
  <2> HIDE DEF r, q, m, d
  <2> DEFINE u == [q EXCEPT ![m] = d]
  <2>2. IsQueue(q) /\ m \in DOMAIN q /\ IsCommand(d) BY <1>0, <1>3
  <2>3. /\ IsQueue(u) /\ Len(u) = Len(q) /\ DOMAIN u = DOMAIN q /\ u[m] = d
        /\ \A i \in DOMAIN q : i # m => u[i] = q[i]
    BY <2>2, QueueChanged
  <2> HIDE DEF u
  <2>4. r = u BY <2>1 DEF u
  <2> QED BY <2>3, <2>4
<1>5. /\ IsQueue(front) /\ Len(front) = m - 1
      /\ \A i \in 1 .. Len(front) : front[i] = q[i]
  BY <1>0, QueueFront
<1> HIDE DEF q, r, n, d, m, front
<1>6. /\ b.service = sv /\ b.id = id /\ b.commands = q
      /\ n.service = sv /\ n.id = id /\ n.commands = r
  BY <1>1, <1>2
<1> DEFINE a == Now(t, sv, front)
<1>7. NowOf(b, t) = Committed(a, q[m])
  <2>1. Now(t, sv, q) = Committed(Now(t, sv, front), q[Len(q)]) BY <1>0, <1>5, NowOfOneMore
  <2> QED BY <1>0, <1>6, <2>1 DEF NowOf
<1>8. NowOf(n, t) = Committed(a, d)
  <2>1. Len(front) \in Nat /\ Len(r) = Len(front) + 1 /\ \A i \in 1 .. Len(front) : front[i] = r[i]
    BY <1>0, <1>4, <1>5
  <2>2. Now(t, sv, r) = Committed(Now(t, sv, front), r[Len(r)]) BY <2>1, NowOfOneMore
  <2> QED BY <1>0, <1>4, <1>6, <2>2 DEF NowOf
<1>9. NextHandle(n) = NextHandle(b)
  <2>1. \A i \in DOMAIN q : Count(r[i]) = Count(q[i])
    <3> SUFFICES ASSUME NEW i \in DOMAIN q PROVE Count(r[i]) = Count(q[i]) OBVIOUS
    <3>1. CASE i = m BY <3>1, <1>3, <1>4 DEF ButForLen, Count
    <3>2. CASE i # m BY <3>2, <1>4
    <3> QED BY <3>1, <3>2
  <2>2. Counts(r) = Counts(q) BY <2>1, <1>4 DEF Counts
  <2> QED BY <1>6, <2>2, NextHandleIs
<1>10. ASSUME NowOf(n, t).end = "ok"
       PROVE  Len(NowOf(n, t).table) + 1 = NextHandle(n) /\ AllKept(ms, NowOf(n, t).table)
  <2>1. IsRun(a) BY <1>5, NowRuns DEF Ready
  <2>2. IsCommand(q[m]) BY <1>0 DEF IsQueue
  <2> HIDE DEF a
  <2>3. /\ NowOf(b, t).end = "ok"
        /\ Keeps(NowOf(b, t).table, NowOf(n, t).table)
        /\ Len(NowOf(b, t).table) = Len(NowOf(n, t).table)
    BY <1>3, <1>7, <1>8, <1>10, <2>1, <2>2, CommitAlike
  <2>4. Len(NowOf(b, t).table) + 1 = NextHandle(b) /\ AllKept(ms, NowOf(b, t).table)
    BY <2>3 DEF Ready, Queueing
  <2> QED BY <1>9, <2>3, <2>4, KeptBeyond DEF AllKept
<1>11. Queueing(n, t, ms) BY <1>6, <1>10 DEF Ready, Queueing
<1>12. n = [service |-> n.service, id |-> n.id, commands |-> n.commands] BY <1>2, <1>6
<1>13. Ready(n, t, ms) BY <1>4, <1>6, <1>11, <1>12 DEF Ready
<1> QED BY <1>13 DEF n

(* A service opened on the table the last one left                         *)
LEMMA ServiceReady ==
    ASSUME NEW t, IsTable(t), NEW ms, AllKept(ms, t), NEW primary \in BOOLEAN, NEW uuid
    PROVE  Ready([service |-> <<[primary |-> primary, uuid |-> uuid]>>, id |-> Len(t) + 1, commands |-> <<>>],
                 t,
                 ms \cup {Promise(Len(t) + 1, "service", IF primary THEN PrimaryService ELSE SecondaryService,
                                  NoLevel, NoLevel)})
<1> DEFINE sv == <<[primary |-> primary, uuid |-> uuid]>>
           id == Len(t) + 1
           n == [service |-> sv, id |-> id, commands |-> <<>>]
           m == Promise(Len(t) + 1, "service", IF primary THEN PrimaryService ELSE SecondaryService,
                        NoLevel, NoLevel)
           o == Opened(t, sv)
<1>1. n.service = sv /\ n.id = id /\ n.commands = <<>> OBVIOUS
<1>2. n = [service |-> n.service, id |-> n.id, commands |-> n.commands] OBVIOUS
<1>3. sv # NoService BY DEF NoService
<1>4. sv[1].primary = primary OBVIOUS
<1>5. /\ Keeps(t, o) /\ Len(o) = Len(t) + 1
      /\ Looks(o[Len(t) + 1],
               Look("service", IF primary THEN PrimaryService ELSE SecondaryService, ReadOnly))
  BY <1>4, OpenedIs
<1>6. /\ m.handle = Len(t) + 1 /\ m.kind = "service" /\ m.read = NoLevel /\ m.write = NoLevel
      /\ m.type = IF primary THEN PrimaryService ELSE SecondaryService
  BY DEF Promise
<1> HIDE DEF n, sv, id, m, o
<1>7. Kept(m, o)
  <2>1. Len(t) + 1 \in DOMAIN o BY <1>5, TableLen DEF Keeps
  <2> QED BY <1>5, <1>6, <2>1 DEF Kept, Looks, Look
<1>8. AllKept(ms, o) BY <1>5, KeptBeyond DEF AllKept
<1>9. NowOf(n, t).table = o
  <2>1. NowOf(n, t) = Start(t, sv) BY <1>1, NowOfNone DEF NowOf
  <2> QED BY <2>1 DEF Start, o
<1>10. NextHandle(n) = Len(t) + 2
  <2>1. Counts(<<>>) = <<>> BY DEF Counts
  <2>2. Total(Counts(n.commands)) = 0 BY <1>1, <2>1, TotalEmpty
  <2> QED BY <1>1, <2>2, NextHandleIs, TableLen DEF id
<1>11. Len(NowOf(n, t).table) + 1 = NextHandle(n) /\ AllKept(ms \cup {m}, NowOf(n, t).table)
  BY <1>5, <1>7, <1>8, <1>9, <1>10, TableLen DEF AllKept
<1>12. Queueing(n, t, ms \cup {m}) BY <1>1, <1>11 DEF Queueing, id
<1>13. IsQueue(n.commands) BY <1>1 DEF IsQueue
<1>14. Ready(n, t, ms \cup {m}) BY <1>1, <1>2, <1>3, <1>12, <1>13 DEF Ready
<1> QED BY <1>14 DEF n, sv, id, m

(***************************************************************************)
(* Every building command leaves a builder that keeps what was promised    *)
(* and what it promises.                                                   *)
(***************************************************************************)
LEMMA NextHandleIsInt ==
    ASSUME NEW b, NEW t, NEW ms, Ready(b, t, ms), b.service # NoService
    PROVE  NextHandle(b) \in Int
<1>1. b.id \in Int BY TableLen DEF Ready, Queueing
<1>2. IsQueue(b.commands) BY DEF Ready
<1> DEFINE q == b.commands
<1> HIDE DEF q
<1>3. IsQueue(q) BY <1>2 DEF q
<1>4. Len(Counts(q)) \in Nat /\ \A i \in 1 .. Len(Counts(q)) : Counts(q)[i] \in Nat
  BY <1>3, CountsLen, QueueLen, CountIs DEF Counts
<1>5. Total(Counts(q)) \in Nat BY <1>4, TotalIsNat
<1> QED BY <1>1, <1>5, NextHandleIs DEF q

Lawful(r) ==
    /\ r.end \in {"ok", "Fail", "panic"}
    /\ r.end = "ok" => Ready(r.builder, r.table, promised \cup r.made)

LEMMA UnbuiltLawful ==
    ASSUME Ready(builder, table, promised), NEW res
    PROVE  Lawful(Unbuilt(res))
<1>1. /\ Unbuilt(res).end = "ok" /\ Unbuilt(res).builder = builder
      /\ Unbuilt(res).table = table /\ Unbuilt(res).made = {}
  BY DEF Unbuilt
<1>2. promised \cup {} = promised OBVIOUS
<1> QED BY <1>1, <1>2 DEF Lawful

LEMMA QueuedLawful ==
    ASSUME Ready(builder, table, promised), NEW c, IsCommand(c), NEW handle, NEW answer, NEW type,
           NEW read, NEW write,
           builder.service # NoService =>
              Meant(Promise(handle, IF c.kind = "include" THEN "include" ELSE "data", type, read, write),
                    c, NextHandle(builder))
    PROVE  Lawful(Queued(c, handle, answer, type, read, write))
<1> DEFINE r == Queued(c, handle, answer, type, read, write)
           m == Promise(handle, IF c.kind = "include" THEN "include" ELSE "data", type, read, write)
           b == [builder EXCEPT !.commands = Append(@, c)]
           res == Ok(Message(answer, <<>>))
<1>1. CASE builder.service = NoService \/ Len(builder.commands) >= QueueSize
  BY <1>1, UnbuiltLawful DEF Queued
<1>2. CASE ~(builder.service = NoService \/ Len(builder.commands) >= QueueSize)
  <2>1. r = [Unbuilt(res) EXCEPT !.builder.commands = Append(@, c), !.made = {m}]
    BY <1>2 DEF Queued
  <2> HIDE DEF res
  <2>2. Unbuilt(res) = [res |-> res, builder |-> builder, table |-> table, end |-> "ok", made |-> {}]
    BY DEF Unbuilt
  <2> HIDE DEF r, m
  <2>3. r = [res |-> res, builder |-> b, table |-> table, end |-> "ok", made |-> {m}]
    <3> DEFINE u == [res |-> res, builder |-> builder, table |-> table, end |-> "ok", made |-> {}]
    <3>1. r = [u EXCEPT !.builder.commands = Append(@, c), !.made = {m}] BY <2>1, <2>2
    <3> HIDE DEF u
    <3>6. [u EXCEPT !.builder.commands = Append(@, c), !.made = {m}]
            = [[u EXCEPT !.builder.commands = Append(@, c)] EXCEPT !.made = {m}]
      OBVIOUS
    <3>7. [u EXCEPT !.builder.commands = Append(@, c)]
            = [u EXCEPT !.builder = [u.builder EXCEPT !.commands = Append(@, c)]]
      OBVIOUS
    <3>3. u.builder = builder BY DEF u
    <3>4. [u EXCEPT !.builder = [u.builder EXCEPT !.commands = Append(@, c)]] = [u EXCEPT !.builder = b]
      BY <3>3
    <3> HIDE DEF b
    <3>5. r = [[u EXCEPT !.builder = b] EXCEPT !.made = {m}] BY <3>1, <3>6, <3>7, <3>4
    <3> QED BY <3>5 DEF u
  <2>4. Ready(b, table, promised \cup {m})
    <3>1. Meant(m, c, NextHandle(builder)) BY <1>2 DEF m
    <3> QED BY <1>2, <3>1, QueuedReady
  <2> HIDE DEF b
  <2>5. r.end = "ok" /\ r.builder = b /\ r.table = table /\ r.made = {m} BY <2>3
  <2>6. Lawful(r) BY <2>4, <2>5 DEF Lawful
  <2> QED BY <2>6 DEF r
<1> QED BY <1>1, <1>2

LEMMA CommandIs ==
    ASSUME NEW kind \in {"include", "descriptor", "characteristic"}, NEW props, NEW perm, IsPerm(perm),
           NEW uuid, NEW of
    PROVE  LET c == Command(kind, props, perm, uuid, of)
           IN /\ IsCommand(c) /\ c.kind = kind /\ c.props = props /\ c.perm = perm /\ c.uuid = uuid
<1> DEFINE c == Command(kind, props, perm, uuid, of)
<1>1. c = [kind |-> kind, props |-> props, perm |-> perm, uuid |-> uuid, of |-> of, len |-> 0]
  BY DEF Command
<1>2. /\ c.kind = kind /\ c.props = props /\ c.perm = perm /\ c.uuid = uuid /\ c.of = of /\ c.len = 0
  BY <1>1
<1> HIDE DEF c
<1>3. IsCommand(c) BY <1>1, <1>2 DEF IsCommand
<1> QED BY <1>2, <1>3 DEF c

LEMMA AskedIsPerm == ASSUME NEW byte PROVE IsPerm(Asked(byte))
BY DEF Asked, IsPerm

LEMMA CharacteristicLawful ==
    ASSUME Ready(builder, table, promised), NEW p
    PROVE  Lawful(BuildCharacteristic(p))
<1> DEFINE uuid == Uuid(p.data, Pos(p, 4))
           perm == Asked(Byte(p, 3))
           c == Command("characteristic", Byte(p, 2), perm, uuid, 0)
           h == NextHandle(builder)
           read == Wanted(perm.read)
           write == Wanted(perm.write)
           m == Promise(h + 1, IF c.kind = "include" THEN "include" ELSE "data", uuid, read, write)
           r == Queued(c, h + 1, "CharacteristicAdded", uuid, read, write)
<1>0. BuildCharacteristic(p) = IF Half(p, 1) # 0 THEN Unbuilt(Err("Fail")) ELSE r
  BY DEF BuildCharacteristic
<1>1. IsPerm(perm) BY AskedIsPerm
<1>2. IsCommand(c) /\ c.kind = "characteristic" /\ c.perm = perm /\ c.uuid = uuid BY <1>1, CommandIs
<1>3. ASSUME builder.service # NoService PROVE Meant(m, c, h)
  <2>1. h \in Int BY <1>3, NextHandleIsInt
  <2> HIDE DEF h
  <2>2. m.handle = h + 1 /\ m.kind = "data" /\ m.type = uuid /\ m.read = read /\ m.write = write
    BY <1>2 DEF Promise
  <2>3. Nth(c) = 2 /\ Added(c, 2) = Look("data", uuid, PermOf(c)) BY <1>2 DEF Nth, Added
  <2>4. /\ read # NoLevel => PermOf(c).read = read
        /\ write # NoLevel => PermOf(c).write = write
    BY <1>2 DEF PermOf, LevelOr, Wanted, Levels
  <2> HIDE DEF m, read, write, uuid, c
  <2> QED BY <2>1, <2>2, <2>3, <2>4 DEF Meant, Look
<1>4. Lawful(r)
  <2> HIDE DEF c, read, write, uuid
  <2> QED BY <1>2, <1>3, QueuedLawful
<1> QED BY <1>0, <1>4, UnbuiltLawful

LEMMA DescriptorLawful ==
    ASSUME Ready(builder, table, promised), NEW p
    PROVE  Lawful(BuildDescriptor(p))
<1> DEFINE uuid == Uuid(p.data, Pos(p, 3))
           perm == Asked(Byte(p, 2))
           c == Command("descriptor", 0, perm, uuid, 0)
           h == NextHandle(builder)
           m == Promise(h, IF c.kind = "include" THEN "include" ELSE "data", uuid, perm.read, perm.write)
           r == Queued(c, h, "DescriptorAdded", uuid, perm.read, perm.write)
<1>0. BuildDescriptor(p) = IF Half(p, 1) # 0 THEN Unbuilt(Err("Fail")) ELSE r
  BY DEF BuildDescriptor
<1>1. IsPerm(perm) BY AskedIsPerm
<1> HIDE DEF perm
<1>2. IsCommand(c) /\ c.kind = "descriptor" /\ c.perm = perm /\ c.uuid = uuid BY <1>1, CommandIs
<1>3. ASSUME builder.service # NoService PROVE Meant(m, c, h)
  <2>1. h \in Int BY <1>3, NextHandleIsInt
  <2> HIDE DEF h
  <2>2. /\ m.handle = h /\ m.kind = "data" /\ m.type = uuid /\ m.read = perm.read /\ m.write = perm.write
    BY <1>2 DEF Promise
  <2>3. Nth(c) = 1 /\ Added(c, 1) = Look("data", uuid, perm) BY <1>2 DEF Nth, Added
  <2> HIDE DEF m, uuid, c
  <2> QED BY <2>1, <2>2, <2>3 DEF Meant, Look
<1>4. Lawful(r)
  <2> HIDE DEF c, uuid
  <2> QED BY <1>2, <1>3, QueuedLawful
<1> QED BY <1>0, <1>4, UnbuiltLawful DEF perm

LEMMA IncludeLawful ==
    ASSUME Ready(builder, table, promised), NEW p
    PROVE  Lawful(BuildInclude(p))
<1> DEFINE c == Command("include", 0, ReadOnly, Include, Half(p, 1))
           h == NextHandle(builder)
           m == Promise(h, IF c.kind = "include" THEN "include" ELSE "data", Include, NoLevel, NoLevel)
           r == Queued(c, h, "IncludedServiceAdded", Include, NoLevel, NoLevel)
<1>0. BuildInclude(p) = r BY DEF BuildInclude
<1>1. IsPerm(ReadOnly) BY DEF ReadOnly, IsPerm
<1>2. IsCommand(c) /\ c.kind = "include" BY <1>1, CommandIs
<1>3. ASSUME builder.service # NoService PROVE Meant(m, c, h)
  <2>1. h \in Int BY <1>3, NextHandleIsInt
  <2> HIDE DEF h
  <2>2. m.handle = h /\ m.kind = "include" /\ m.type = Include /\ m.read = NoLevel /\ m.write = NoLevel
    BY <1>2 DEF Promise
  <2>3. Nth(c) = 1 /\ Added(c, 1) = Look("include", Include, ReadOnly) BY <1>2 DEF Nth, Added
  <2> HIDE DEF m, c
  <2> QED BY <2>1, <2>2, <2>3 DEF Meant, Look
<1>4. Lawful(r)
  <2> HIDE DEF c
  <2> QED BY <1>2, <1>3, QueuedLawful
<1> QED BY <1>0, <1>4

LEMMA ValueLawful ==
    ASSUME Ready(builder, table, promised), NEW p
    PROVE  Lawful(BuildValue(p))
<1> DEFINE n == Len(builder.commands)
           l == Half(p, 2)
           res == Ok(Message("ValueSet", <<>>))
           stops == \/ Half(p, 1) # 0 \/ builder.service = NoService \/ n = 0
                    \/ builder.commands[n].kind = "include"
           b == [builder EXCEPT !.commands[Len(builder.commands)].len = l]
           r == BuildValue(p)
<1>1. r = IF stops THEN Unbuilt(Err("Fail")) ELSE [Unbuilt(res) EXCEPT !.builder.commands[n].len = l]
  BY DEF BuildValue
<1>2. CASE stops BY <1>1, <1>2, UnbuiltLawful
<1>3. CASE ~stops
  <2>0. builder.service # NoService /\ Len(builder.commands) > 0
    <3>1. n \in Nat BY QueueLen DEF Ready
    <3> QED BY <1>3, <3>1
  <2> DEFINE u == Unbuilt(res)
  <2>1. r = [u EXCEPT !.builder.commands[n].len = l] BY <1>1, <1>3
  <2> HIDE DEF r, res, n, l
  <2>2. u = [res |-> res, builder |-> builder, table |-> table, end |-> "ok", made |-> {}]
    BY DEF Unbuilt
  <2> HIDE DEF u
  <2>3. [u EXCEPT !.builder.commands[n].len = l] = [u EXCEPT !.builder = [u.builder EXCEPT !.commands[n].len = l]]
    OBVIOUS
  <2>4. u.builder = builder BY <2>2
  <2>5. [u EXCEPT !.builder = [u.builder EXCEPT !.commands[n].len = l]] = [u EXCEPT !.builder = b]
    BY <2>4 DEF n
  <2>6. Ready(b, table, promised) BY <2>0, ValueReady
  <2> HIDE DEF b
  <2>7. r = [u EXCEPT !.builder = b] BY <2>1, <2>3, <2>5
  <2>8. r = [res |-> res, builder |-> b, table |-> table, end |-> "ok", made |-> {}] BY <2>2, <2>7
  <2>9. r.end = "ok" /\ r.builder = b /\ r.table = table /\ r.made = {} BY <2>8
  <2>10. promised \cup {} = promised OBVIOUS
  <2>11. Lawful(r) BY <2>6, <2>9, <2>10 DEF Lawful
  <2> QED BY <2>11 DEF r
<1> QED BY <1>2, <1>3

LEMMA ServiceLawful ==
    ASSUME Ready(builder, table, promised), NEW p
    PROVE  Lawful(BuildService(p))
<1> DEFINE f == Finalized(builder, table)
           primary == Byte(p, 1) = 0
           uuid == Uuid(p.data, Pos(p, 2))
           id == Len(f.table) + 1
           fail == Err("Fail")
           res == Ok(Message("ServiceAdded", <<>>))
           e == Emptied(builder)
           m == Promise(id, "service", IF primary THEN PrimaryService ELSE SecondaryService,
                        NoLevel, NoLevel)
           b == [service |-> <<[primary |-> primary, uuid |-> uuid]>>, id |-> id,
                 commands |-> Emptied(builder).commands]
           r == BuildService(p)
<1>1. r = IF f.end # "ok"
          THEN [Unbuilt(fail) EXCEPT !.builder = e, !.table = f.table, !.end = f.end]
          ELSE [Unbuilt(res) EXCEPT !.builder = b, !.table = f.table, !.made = {m}]
  BY DEF BuildService
<1>2. /\ f.end \in {"ok", "Fail", "panic"}
      /\ f.end = "ok" => IsTable(f.table) /\ AllKept(promised, f.table)
  BY FinalizedKeeps
<1>3. \A x : Unbuilt(x) = [res |-> x, builder |-> builder, table |-> table, end |-> "ok", made |-> {}]
  BY DEF Unbuilt
<1>4. CASE f.end # "ok"
  <2> DEFINE ft == f.table
             fe == f.end
  <2>1. r = [Unbuilt(fail) EXCEPT !.builder = e, !.table = ft, !.end = fe] BY <1>1, <1>4
  <2> HIDE DEF r, e, ft, fe, fail
  <2>2. r = [res |-> fail, builder |-> e, table |-> ft, end |-> fe, made |-> {}] BY <1>3, <2>1
  <2>3. r.end = fe BY <2>2
  <2> QED BY <1>2, <1>4, <2>3 DEF Lawful, r, fe
<1>5. CASE f.end = "ok"
  <2>1. e.commands = <<>>
    <3>1. CASE builder.service = NoService BY <3>1 DEF Emptied, Ready
    <3>2. CASE builder.service # NoService
      <4>1. PICK sv, i, q : builder = [service |-> sv, id |-> i, commands |-> q] BY DEF Ready
      <4>2. e = [builder EXCEPT !.service = NoService, !.commands = <<>>] BY <3>2 DEF Emptied
      <4> HIDE DEF e
      <4>3. e = [service |-> NoService, id |-> i, commands |-> <<>>] BY <4>1, <4>2
      <4> QED BY <4>3
    <3> QED BY <3>1, <3>2
  <2> DEFINE ft == f.table
  <2>2. Ready(b, ft, promised \cup {m})
    <3>1. IsTable(ft) /\ AllKept(promised, ft) /\ primary \in BOOLEAN BY <1>2, <1>5
    <3>2. b = [service |-> <<[primary |-> primary, uuid |-> uuid]>>, id |-> Len(ft) + 1, commands |-> <<>>]
      BY <2>1
    <3>3. m = Promise(Len(ft) + 1, "service", IF primary THEN PrimaryService ELSE SecondaryService,
                      NoLevel, NoLevel)
      OBVIOUS
    <3> HIDE DEF ft, b, m, primary, uuid
    <3> QED BY <3>1, <3>2, <3>3, ServiceReady
  <2>3. r = [Unbuilt(res) EXCEPT !.builder = b, !.table = ft, !.made = {m}] BY <1>1, <1>5
  <2> HIDE DEF r, b, ft, m, res
  <2>4. r = [res |-> res, builder |-> b, table |-> ft, end |-> "ok", made |-> {m}] BY <1>3, <2>3
  <2>5. r.end = "ok" /\ r.builder = b /\ r.table = ft /\ r.made = {m} BY <2>4
  <2>6. Lawful(r) BY <2>2, <2>5 DEF Lawful
  <2> QED BY <2>6 DEF r
<1> QED BY <1>4, <1>5

LEMMA PreServerLawful ==
    ASSUME Ready(builder, table, promised), NEW p
    PROVE  Lawful(GattPreServer(p))
<1> DEFINE r == GattPreServer(p)
<1>1. \/ \E res : r = Unbuilt(res)
      \/ r \in {BuildService(p), BuildCharacteristic(p), BuildDescriptor(p), BuildInclude(p), BuildValue(p)}
  BY DEF GattPreServer
<1> QED BY <1>1, UnbuiltLawful, ServiceLawful, CharacteristicLawful, DescriptorLawful, IncludeLawful,
        ValueLawful

(***************************************************************************)
(* The table of the tester's own services                                  *)
(***************************************************************************)
LEMMA TableGrows ==
    ASSUME NEW t, IsTable(t), NEW props, NEW value, IsAttr(value)
    PROVE  IsTable(AddCharacteristic(t, props, value))
BY CharacteristicIs DEF Keeps

LEMMA InitTableIs == IsTable(InitTable)
<1> DEFINE t0 == AddService(<<>>, TRUE, GapService)
           t1 == AddReadOnly(t0, DeviceName, NameLen)
           gapService == AddReadOnly(t1, Appearance, 2)
           t2 == Closed(gapService, 1)
           gattService == AddService(t2, TRUE, GattService)
           Fixed3(t, props, uuid, len) ==
               AddCharacteristic(t, props, Stored(uuid, len, len, FALSE, DefaultPermissions(props)))
           t3 == Fixed3(gattService, 32, ServiceChanged, 0)
           t4 == Fixed3(t3, 10, ClientFeatures, 1)
           t5 == Fixed3(t4, 2, DatabaseHash, 16)
<1>1. InitTable = Closed(t5, GapAttributes + 1) BY DEF InitTable
<1>2. ASSUME NEW t, IsTable(t), NEW uuid PROVE IsTable(AddService(t, TRUE, uuid))
  <2> DEFINE sv == <<[primary |-> TRUE, uuid |-> uuid]>>
  <2>1. Keeps(t, Opened(t, sv)) BY <1>2, OpenedIs
  <2> QED BY <2>1 DEF Keeps, Opened
<1>3. ASSUME NEW t, IsTable(t), NEW uuid, NEW len PROVE IsTable(AddReadOnly(t, uuid, len))
  <2>1. IsAttr(Attribute("readonly", uuid, len, DefaultPermissions(2))) BY AttributeIs, PermissionsAre
  <2> QED BY <1>3, <2>1, TableGrows DEF AddReadOnly
<1>4. ASSUME NEW t, IsTable(t), NEW props, NEW uuid, NEW len PROVE IsTable(Fixed3(t, props, uuid, len))
  <2>1. IsAttr(Stored(uuid, len, len, FALSE, DefaultPermissions(props))) BY StoredIs, PermissionsAre
  <2> QED BY <1>4, <2>1, TableGrows
<1>5. ASSUME NEW t, IsTable(t), NEW h PROVE IsTable(Closed(t, h)) BY <1>5, ClosedKeeps DEF Keeps
<1>6. IsTable(<<>>) BY DEF IsTable
<1>7. IsTable(t0) BY <1>2, <1>6
<1>8. IsTable(t1) /\ IsTable(gapService)
  <2> HIDE DEF t0
  <2> QED BY <1>3, <1>7
<1>9. IsTable(gattService)
  <2> HIDE DEF gapService
  <2>1. IsTable(t2) BY <1>5, <1>8
  <2> HIDE DEF t2
  <2> QED BY <1>2, <2>1
<1> HIDE DEF gattService, Fixed3
<1>10. IsTable(t3) BY <1>4, <1>9
<1>11. IsTable(t4) BY <1>4, <1>10
<1>12. IsTable(t5) BY <1>4, <1>11
<1> HIDE DEF t5
<1> QED BY <1>1, <1>5, <1>12

(***************************************************************************)
(* The invariant: while there is no server the builder's queue, if it can  *)
(* be committed, keeps every promise; once there is one the table does.    *)
(***************************************************************************)
HandleInv ==
    ~dropped =>
        /\ phase = "pre" => Ready(builder, table, promised)
        /\ phase = "run" => IsTable(table) /\ AllKept(promised, table)

LEMMA HandlesFromInv == HandleInv => HandlesKept
BY DEF HandleInv, HandlesKept, AllKept, Kept

LEMMA HandlesUndisturbed ==
    ASSUME HandleInv, phase' = phase \/ phase' \notin {"pre", "run"},
           UNCHANGED <<builder, table, promised, dropped>>
    PROVE  HandleInv'
BY DEF HandleInv, AllKept

LEMMA HandlesServed ==
    ASSUME HandleInv, phase = "run", phase' = phase \/ phase' = "ended",
           UNCHANGED <<builder, promised, dropped>>,
           table' = table \/ \E h, n : table' = Write(table, h, n)
    PROVE  HandleInv'
<1>1. ASSUME ~dropped PROVE IsTable(table') /\ AllKept(promised, table')
  <2>1. IsTable(table) /\ AllKept(promised, table) BY <1>1 DEF HandleInv
  <2>2. Keeps(table, table') BY <2>1, WriteKeeps, KeepsItself
  <2> QED BY <2>1, <2>2, KeptBeyond DEF AllKept, Keeps
<1> QED BY <1>1 DEF HandleInv, AllKept

LEMMA HandlesStay ==
    ASSUME HandleInv, ServerNext
    PROVE  HandleInv'
<1>1. ASSUME NEW p \in Packets, Refused(p) \/ TooLong(p) \/ ReadPacket(p)
      PROVE  HandleInv'
  BY <1>1, HandlesUndisturbed DEF Refused, TooLong, ReadPacket
<1>2. ASSUME NEW p \in Packets, PreCore(p) \/ PreGap(p)
      PROVE  HandleInv'
  <2>1. phase' \in {phase, "ended"} /\ UNCHANGED <<builder, table, promised, dropped>>
    BY <1>2 DEF PreCore, PreGap, Respond
  <2> QED BY <2>1, HandlesUndisturbed
<1>3. ASSUME NEW p \in Packets, PreGatt(p)
      PROVE  HandleInv'
  <2> DEFINE b == GattPreServer(p)
  <2>0. phase = "pre" BY <1>3 DEF PreGatt, Accepted
  <2>1. /\ builder' = b.builder /\ table' = b.table /\ promised' = promised \cup b.made
        /\ dropped' = (dropped \/ b.end = "Fail")
        /\ phase' = IF b.end = "panic" THEN "panicked" ELSE IF "POWERED" \in gap.settings THEN phase ELSE "ended"
    BY <1>3 DEF PreGatt, Respond
  <2>2. ASSUME ~dropped PROVE Lawful(b) BY <2>0, <2>2, PreServerLawful DEF HandleInv
  <2> HIDE DEF b
  <2>3. ASSUME ~dropped', phase' = "pre" PROVE Ready(builder', table', promised')
    <3>1. ~dropped /\ b.end = "ok" BY <2>0, <2>1, <2>2, <2>3 DEF Lawful
    <3> QED BY <2>1, <2>2, <3>1 DEF Lawful
  <2>4. phase' # "run" BY <2>0, <2>1
  <2> QED BY <2>3, <2>4 DEF HandleInv
<1>4. ASSUME NEW p \in Packets, StartsServer(p)
      PROVE  HandleInv'
  <2> DEFINE f == Finalized(builder, table)
  <2>0. phase = "pre" BY <1>4 DEF StartsServer, Accepted
  <2>1. /\ table' = f.table /\ promised' = promised
        /\ dropped' = (dropped \/ f.end = "Fail")
        /\ phase' = IF f.end = "panic" THEN "panicked" ELSE "run"
    BY <1>4 DEF StartsServer
  <2>2. ASSUME ~dropped
        PROVE  /\ f.end \in {"ok", "Fail", "panic"}
               /\ f.end = "ok" => IsTable(f.table) /\ AllKept(promised, f.table)
    <3>1. Ready(builder, table, promised) BY <2>0, <2>2 DEF HandleInv
    <3> QED BY <3>1, FinalizedKeeps
  <2> HIDE DEF f
  <2>3. ASSUME ~dropped', phase' = "run" PROVE IsTable(table') /\ AllKept(promised, table')
    <3>1. ~dropped /\ f.end = "ok" BY <2>1, <2>2, <2>3
    <3> QED BY <2>1, <2>2, <3>1
  <2>4. phase' # "pre" BY <2>1
  <2> QED BY <2>1, <2>3, <2>4 DEF HandleInv, AllKept
<1>5. ASSUME RefusedLater \/ TellEvent PROVE HandleInv'
  BY <1>5, HandlesUndisturbed DEF RefusedLater, TellEvent
<1>6. ASSUME RunCore PROVE HandleInv'
  <2>1. phase' \in {phase, "ended"} /\ UNCHANGED <<builder, table, promised, dropped>>
    BY <1>6 DEF RunCore, Respond
  <2> QED BY <2>1, HandlesUndisturbed
<1>7. ASSUME RunGap PROVE HandleInv'
  <2>1. phase' \in {phase, "ended"} /\ UNCHANGED <<builder, table, promised, dropped>>
    BY <1>7 DEF RunGap, Done, Respond
  <2> QED BY <2>1, HandlesUndisturbed
<1>8. ASSUME RunGatt PROVE HandleInv'
  <2>1. /\ phase = "run" /\ phase' \in {phase, "ended"}
        /\ UNCHANGED <<builder, promised, dropped>>
        /\ table' = TableAfter(packet, table)
    BY <1>8 DEF RunGatt, InHand, Done, Respond
  <2>2. table' = table \/ \E h, n : table' = Write(table, h, n) BY <2>1 DEF TableAfter
  <2> QED BY <2>1, <2>2, HandlesServed
<1>9. ASSUME Answered PROVE HandleInv'
  <2>1. phase' \in {phase, "ended"} /\ UNCHANGED <<builder, table, promised, dropped>>
    BY <1>9 DEF Answered, Respond
  <2> QED BY <2>1, HandlesUndisturbed
<1> QED BY <1>1, <1>2, <1>3, <1>4, <1>5, <1>6, <1>7, <1>8, <1>9 DEF ServerNext

(* Whatever requests come before StartServer, in whatever order and however *)
(* many fail: at the start the queued commands, if they can be committed,   *)
(* build a table in which every handle that was told is the attribute it    *)
(* was told for; once the server runs its table is such a table.            *)
THEOREM HandlesReady == ServerSpec => []HandleInv
<1>1. ServerInit => HandleInv
  <2> SUFFICES ASSUME ServerInit PROVE HandleInv OBVIOUS
  <2> DEFINE b == [service |-> NoService, id |-> 0, commands |-> <<>>]
  <2>1. /\ builder = b /\ table = InitTable /\ promised = {} /\ phase = "pre"
    BY DEF ServerInit
  <2>2. b.service = NoService /\ b.id = 0 /\ b.commands = <<>> OBVIOUS
  <2>3. IsQueue(<<>>) BY DEF IsQueue
  <2>4. AllKept({}, InitTable) BY DEF AllKept
  <2> HIDE DEF b
  <2>5. b = [service |-> b.service, id |-> b.id, commands |-> b.commands] BY <2>2 DEF b
  <2>6. Ready(b, InitTable, {}) BY <2>2, <2>3, <2>4, <2>5, InitTableIs DEF Ready
  <2> QED BY <2>1, <2>6 DEF HandleInv
<1>2. HandleInv /\ [ServerNext]_serverVars => HandleInv'
  <2>1. HandleInv /\ UNCHANGED serverVars => HandleInv' BY HandlesUndisturbed DEF serverVars
  <2> QED BY <2>1, HandlesStay
<1> QED BY <1>1, <1>2, PTL DEF ServerSpec

(* The handles the tester computes for its answers, counted ahead of the    *)
(* table, are the handles the attribute table then gives.                   *)
THEOREM HandlesAreKept == ServerSpec => []HandlesKept
<1> QED BY HandlesFromInv, HandlesReady, PTL

=============================================================================
