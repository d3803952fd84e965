---------------------------- MODULE ChannelsProofs ----------------------------
(***************************************************************************)
(* Proofs about Channels, for any number of slots, any policy and every    *)
(* bound.                                                                  *)
(***************************************************************************)
EXTENDS Channels, FiniteSetTheorems, WellFoundedInduction, TLAPS

Listener == [pc : {"idle", "tell", "told"}, n : Nat]
Creator  == [pc : {"idle", "ask", "wait", "panicked"}, slot : Cids, conn : Conns, id : Nat]

(* What holds of a slot, of its handles and of the future that receives on *)
(* it: the credits of a channel also add up while it waits to be opened,   *)
(* and a grant to confirm was counted before.                              *)
SlotOK(r, H, v) ==
    /\ r.refs = Cardinality(H)
    /\ r.state \in {"Connecting", "PeerConnecting"} => r.refs = 0
    /\ r.state \in {"Connecting", "Connected"} => r.available + r.received = Initial
    /\ v.pc # "idle" => /\ H \cap {"channel", "reader"} # {}
                        /\ r.state = "Connected" => v.n <= r.received
    /\ "channel" \in H => H \cap {"writer", "reader"} = {}

Shape ==
    /\ chan \in [Ends -> [Slots -> Chan]]
    /\ handles \in [Ends -> [Slots -> SUBSET Forms]]
    /\ receiver \in [Ends -> [Slots -> Listener]]

Table == \A e \in Ends, i \in Slots : SlotOK(chan[e][i], handles[e][i], receiver[e][i])

Rest ==
    /\ creator \in [Ends -> Creator]
    /\ acceptor \in [Ends -> [pc : {"idle", "answer"}, slot : Cids, conn : Conns]]
    /\ sender \in [Ends -> [Slots -> [pc : {"idle", "ask", "frames"}, left : Nat, grant : Nat,
                                      conn : Conns, peer : Cids]]]
    /\ control \in [Ends -> [pc : {"idle", "send", "confirm"}, slot : Cids,
                             kind : {"dreq", "drsp"}, conn : Conns, cid : Cids]]
    /\ linked \in [Ends -> [conn : Conns, on : BOOLEAN]]
    /\ air \in Conns
    /\ wire \in [Ends -> Seq(Message)]
    /\ count \in [links : Conns, opens : Nat, sends : Nat, cancels : Nat]

(* A future that has a slot has one; the channel that accept has taken has *)
(* no other handle yet.                                                    *)
Placed ==
    \A e \in Ends :
        /\ creator[e].pc \in {"ask", "wait"} => creator[e].slot \in Slots
        /\ control[e].pc # "idle" => control[e].slot \in Slots
        /\ acceptor[e].pc = "answer" => /\ acceptor[e].slot \in Slots
                                        /\ handles[e][acceptor[e].slot] = {"channel"}
                                        /\ receiver[e][acceptor[e].slot].pc = "idle"

IInv == Shape /\ Table /\ Rest /\ Placed

-----------------------------------------------------------------------------
(* The first of a set of slots is one of them. *)

LEMMA Least ==
    ASSUME NEW T, T \subseteq Nat, T # {}
    PROVE  \E x \in T : \A y \in T : x <= y
<1> DEFINE R == OpToRel(<, Nat)
<1>1. PICK x \in T : \A y \in T : ~ (<<y, x>> \in R)
  <2>1. IsWellFoundedOn(R, Nat) BY NatLessThanWellFounded
  <2> HIDE DEF R
  <2> QED BY <2>1, WFMin, Zenon
<1>2. \A y \in T : ~ (y < x) BY <1>1 DEF OpToRel
<1> QED BY <1>2

LEMMA FirstIn ==
    ASSUME NEW S, S \subseteq Slots, S # {}
    PROVE  First(S) \in S
<1>1. S \subseteq Nat BY ChannelsAssumption DEF Slots
<1>2. \E x \in S : \A y \in S : x <= y BY <1>1, Least
<1> QED BY <1>2 DEF First

LEMMA FirstOf ==
    \A e \in Ends : /\ Free(e) # {} => First(Free(e)) \in Free(e)
                    /\ Ending(e) # {} => First(Ending(e)) \in Ending(e)
BY FirstIn DEF Free, Ending

LEMMA StateNames ==
    /\ "Disconnected" \in States /\ "Connecting" \in States /\ "PeerConnecting" \in States
    /\ "Connected" \in States /\ "PeerDisconnecting" \in States /\ "Disconnecting" \in States
BY DEF States

LEMMA CidNames == Slots \subseteq Cids /\ None \in Cids /\ None \in Conns /\ None \notin Slots
BY ChannelsAssumption DEF Slots, Cids, Conns, None

-----------------------------------------------------------------------------
(* A step that touches one slot. *)

LEMMA OneChan ==
    ASSUME Shape, NEW e \in Ends, NEW i \in Slots, NEW r \in Chan,
           chan' = [chan EXCEPT ![e][i] = r]
    PROVE  /\ chan' \in [Ends -> [Slots -> Chan]] /\ chan'[e][i] = r
           /\ \A f \in Ends, j \in Slots : f # e \/ j # i => chan'[f][j] = chan[f][j]
BY DEF Shape

LEMMA OneHandle ==
    ASSUME Shape, NEW e \in Ends, NEW i \in Slots, NEW H \in SUBSET Forms,
           handles' = [handles EXCEPT ![e][i] = H]
    PROVE  /\ handles' \in [Ends -> [Slots -> SUBSET Forms]] /\ handles'[e][i] = H
           /\ \A f \in Ends, j \in Slots : f # e \/ j # i => handles'[f][j] = handles[f][j]
BY DEF Shape

LEMMA OneReceiver ==
    ASSUME Shape, NEW e \in Ends, NEW i \in Slots, NEW v \in Listener,
           receiver' = [receiver EXCEPT ![e][i] = v]
    PROVE  /\ receiver' \in [Ends -> [Slots -> Listener]] /\ receiver'[e][i] = v
           /\ \A f \in Ends, j \in Slots : f # e \/ j # i => receiver'[f][j] = receiver[f][j]
BY DEF Shape

(* The channel only.                                                       *)
LEMMA ChanStep ==
    ASSUME Shape, Table, NEW e \in Ends, NEW i \in Slots, NEW r \in Chan,
           chan' = [chan EXCEPT ![e][i] = r], SlotOK(r, handles[e][i], receiver[e][i]),
           UNCHANGED <<handles, receiver>>
    PROVE  Shape' /\ Table'
<1>1. Shape' BY OneChan DEF Shape
<1>2. Table' BY OneChan DEF Table
<1> QED BY <1>1, <1>2

(* The channel and its handles.                                            *)
LEMMA HandleStep ==
    ASSUME Shape, Table, NEW e \in Ends, NEW i \in Slots, NEW r \in Chan, NEW H \in SUBSET Forms,
           chan' = [chan EXCEPT ![e][i] = r], handles' = [handles EXCEPT ![e][i] = H],
           SlotOK(r, H, receiver[e][i]), receiver' = receiver
    PROVE  Shape' /\ Table'
<1>1. Shape' BY OneChan, OneHandle DEF Shape
<1>2. ASSUME NEW f \in Ends, NEW j \in Slots
      PROVE  SlotOK(chan'[f][j], handles'[f][j], receiver'[f][j])
  <2>1. CASE f = e /\ j = i
    <3>1. chan'[e][i] = r BY OneChan
    <3>2. handles'[e][i] = H BY OneHandle
    <3> QED BY <2>1, <3>1, <3>2
  <2>2. CASE f # e \/ j # i BY <2>2, OneChan, OneHandle DEF Table
  <2> QED BY <2>1, <2>2
<1>3. Table' BY <1>2 DEF Table
<1> QED BY <1>1, <1>3

(* The channel and the future that receives on it.                         *)
LEMMA ReceiverStep ==
    ASSUME Shape, Table, NEW e \in Ends, NEW i \in Slots, NEW r \in Chan, NEW v \in Listener,
           chan' = [chan EXCEPT ![e][i] = r], receiver' = [receiver EXCEPT ![e][i] = v],
           SlotOK(r, handles[e][i], v), handles' = handles
    PROVE  Shape' /\ Table'
<1>1. Shape' BY OneChan, OneReceiver DEF Shape
<1>2. ASSUME NEW f \in Ends, NEW j \in Slots
      PROVE  SlotOK(chan'[f][j], handles'[f][j], receiver'[f][j])
  <2>1. CASE f = e /\ j = i
    <3>1. chan'[e][i] = r BY OneChan
    <3>2. receiver'[e][i] = v BY OneReceiver
    <3> QED BY <2>1, <3>1, <3>2
  <2>2. CASE f # e \/ j # i BY <2>2, OneChan, OneReceiver DEF Table
  <2> QED BY <2>1, <2>2
<1>3. Table' BY <1>2 DEF Table
<1> QED BY <1>1, <1>3

LEMMA SlotType ==
    ASSUME Shape, Table, NEW e \in Ends, NEW i \in Slots
    PROVE  /\ chan[e][i] \in Chan /\ handles[e][i] \in SUBSET Forms /\ receiver[e][i] \in Listener
           /\ SlotOK(chan[e][i], handles[e][i], receiver[e][i])
           /\ chan' = chan => chan' = [chan EXCEPT ![e][i] = chan[e][i]]
<1>1. chan[e][i] \in Chan /\ handles[e][i] \in SUBSET Forms /\ receiver[e][i] \in Listener
  BY DEF Shape
<1>2. chan = [chan EXCEPT ![e][i] = chan[e][i]] BY DEF Shape
<1> QED BY <1>1, <1>2 DEF Table

LEMMA SameSlots ==
    ASSUME Shape, Table, UNCHANGED <<chan, handles, receiver>>
    PROVE  Shape' /\ Table'
BY DEF Shape, Table

(* How many handles there are.                                             *)
LEMMA FormsFinite == IsFiniteSet(Forms) /\ \A H \in SUBSET Forms : IsFiniteSet(H)
<1>1. IsFiniteSet({"channel", "writer", "reader", "ref"})
  <2>1. IsFiniteSet({}) BY FS_EmptySet
  <2>2. IsFiniteSet({} \cup {"channel"}) BY <2>1, FS_AddElement
  <2>3. IsFiniteSet(({} \cup {"channel"}) \cup {"writer"}) BY <2>2, FS_AddElement
  <2>4. IsFiniteSet((({} \cup {"channel"}) \cup {"writer"}) \cup {"reader"}) BY <2>3, FS_AddElement
  <2>5. IsFiniteSet(((({} \cup {"channel"}) \cup {"writer"}) \cup {"reader"}) \cup {"ref"})
    BY <2>4, FS_AddElement
  <2>6. {"channel", "writer", "reader", "ref"}
          = ((({} \cup {"channel"}) \cup {"writer"}) \cup {"reader"}) \cup {"ref"}
    OBVIOUS
  <2> QED BY <2>5, <2>6
<1> QED BY <1>1, FS_Subset DEF Forms

LEMMA Counting ==
    ASSUME NEW H \in SUBSET Forms
    PROVE  /\ Cardinality(H) \in Nat
           /\ Cardinality(H) = 0 <=> H = {}
           /\ \A f \in Forms : f \notin H => Cardinality(H \cup {f}) = Cardinality(H) + 1
           /\ \A f \in H : Cardinality(H \ {f}) = Cardinality(H) - 1
BY FormsFinite, FS_CardinalityType, FS_EmptySet, FS_AddElement, FS_RemoveElement

-----------------------------------------------------------------------------
(* What the steps make of a slot. *)

LEMMA InitInv == Init => IInv
<1> SUFFICES ASSUME Init PROVE IInv OBVIOUS
<1>1. Fresh \in Chan BY CidNames, StateNames DEF Fresh, Chan, None
<1>2. Shape BY <1>1 DEF Init, Shape, Listener, Deaf
<1>3. Table BY FS_EmptySet DEF Init, Table, SlotOK, Fresh, Deaf
<1>4. Rest
  <2>1. None \in Cids /\ None \in Conns /\ 0 \in Conns
    BY CidNames, ChannelsAssumption DEF Conns
  <2>2. creator \in [Ends -> Creator]
        /\ acceptor \in [Ends -> [pc : {"idle", "answer"}, slot : Cids, conn : Conns]]
    BY <2>1 DEF Init, Idle, Done, Creator
  <2>3. sender \in [Ends -> [Slots -> [pc : {"idle", "ask", "frames"}, left : Nat, grant : Nat,
                                      conn : Conns, peer : Cids]]]
    BY <2>1 DEF Init, Quiet
  <2>4. control \in [Ends -> [pc : {"idle", "send", "confirm"}, slot : Cids,
                             kind : {"dreq", "drsp"}, conn : Conns, cid : Cids]]
    BY <2>1 DEF Init, NoRequest
  <2>5. wire \in [Ends -> Seq(Message)] BY DEF Init
  <2> QED BY <2>1, <2>2, <2>3, <2>4, <2>5 DEF Init, Rest
<1>5. Placed BY DEF Init, Placed, Idle, Done, NoRequest
<1> QED BY <1>2, <1>3, <1>4, <1>5 DEF IInv

(* A new channel: nothing but its queue is left of the last one.           *)
LEMMA AllocatedOK ==
    ASSUME Shape, Table, NEW e \in Ends, Free(e) # {}, NEW l \in Conns, NEW id \in Nat,
           NEW st \in {"Connecting", "PeerConnecting"}
    PROVE  LET r == Allocated(e, l, st, id)
               i == First(Free(e)) IN
           /\ i \in Slots /\ r \in Chan /\ r.state = st /\ r.refs = 0
           /\ handles[e][i] = {} /\ receiver[e][i].pc = "idle"
<1> DEFINE i == First(Free(e))
           q == chan[e][i]
<1>1. i \in Slots /\ q.state = "Disconnected" /\ q.refs = 0 BY FirstOf DEF Free
<1>2. q \in Chan /\ handles[e][i] \in SUBSET Forms /\ SlotOK(q, handles[e][i], receiver[e][i])
  BY <1>1, SlotType
<1>3. handles[e][i] = {} BY <1>1, <1>2, Counting DEF SlotOK
<1>4. receiver[e][i].pc = "idle" BY <1>2, <1>3 DEF SlotOK
<1>5. i \in Cids BY <1>1, CidNames
<1>6. Allocated(e, l, st, id) = [q EXCEPT !.state = st, !.conn = l, !.cid = i, !.id = id,
                                         !.inbound = 0, !.skew = 0, !.astray = 0]
  BY DEF Allocated
<1> HIDE DEF i, q
<1>7. st \in States BY StateNames
<1>8. Allocated(e, l, st, id) \in Chan
  <2> DEFINE a == [q EXCEPT !.state = st, !.conn = l, !.cid = i]
  <2>1. a \in Chan BY <1>2, <1>5, <1>7 DEF Chan
  <2>2. Allocated(e, l, st, id)
          = [[[[a EXCEPT !.id = id] EXCEPT !.inbound = 0] EXCEPT !.skew = 0] EXCEPT !.astray = 0]
    BY <1>2, <1>6 DEF Chan
  <2> HIDE DEF a
  <2>3. [a EXCEPT !.id = id] \in Chan BY <2>1 DEF Chan
  <2> DEFINE b == [a EXCEPT !.id = id]
  <2> HIDE DEF b
  <2>4. [b EXCEPT !.inbound = 0] \in Chan BY <2>3 DEF Chan, b
  <2> DEFINE c == [b EXCEPT !.inbound = 0]
  <2>5. c \in Chan BY <2>4
  <2> HIDE DEF c
  <2>6. 0 \in Int OBVIOUS
  <2>7. \A n \in Int : [c EXCEPT !.skew = n] \in Chan BY <2>5 DEF Chan
  <2>8. [c EXCEPT !.skew = 0] \in Chan BY <2>6, <2>7
  <2> DEFINE d == [c EXCEPT !.skew = 0]
  <2> HIDE DEF d
  <2>9. \A n \in Int : [d EXCEPT !.astray = n] \in Chan BY <2>8 DEF Chan, d
  <2>10. [d EXCEPT !.astray = 0] \in Chan BY <2>6, <2>9
  <2> QED BY <2>2, <2>10 DEF b, c, d
<1>9. Allocated(e, l, st, id).state = st BY <1>2, <1>6 DEF Chan
<1>10. Allocated(e, l, st, id).refs = q.refs BY <1>2, <1>6 DEF Chan
<1> QED BY <1>1, <1>3, <1>4, <1>8, <1>9, <1>10 DEF i, q

LEMMA ClosedOK ==
    ASSUME NEW r \in Chan, NEW H, NEW v, SlotOK(r, H, v)
    PROVE  Closed(r) \in Chan /\ SlotOK(Closed(r), H, v)
<1>1. Closed(r) \in Chan /\ Closed(r).refs = r.refs /\ Closed(r).state = "Disconnected"
  BY CidNames, StateNames DEF Closed, Chan
<1> QED BY <1>1 DEF SlotOK

(* Only the state changes, to one that promises nothing.                   *)
LEMMA EndedOK ==
    ASSUME NEW r \in Chan, NEW H, NEW v, SlotOK(r, H, v),
           NEW st \in {"Disconnected", "PeerDisconnecting", "Disconnecting"}
    PROVE  [r EXCEPT !.state = st] \in Chan /\ SlotOK([r EXCEPT !.state = st], H, v)
<1>0. st \in States BY StateNames
<1>1. [r EXCEPT !.state = st] \in Chan /\ [r EXCEPT !.state = st].refs = r.refs
      /\ [r EXCEPT !.state = st].state = st
  BY <1>0 DEF Chan
<1> QED BY <1>1 DEF SlotOK

LEMMA ReleasedOK ==
    ASSUME NEW r \in Chan, r.refs > 0
    PROVE  /\ Released(r) \in Chan /\ Released(r).refs = r.refs - 1
           /\ Released(r).state \in {r.state, "Disconnecting"}
           /\ Released(r).available = r.available /\ Released(r).received = r.received
<1> DEFINE n == r.refs - 1
           st == IF r.refs = 1 /\ r.state = "Connected" THEN "Disconnecting" ELSE r.state
<1>1. n \in Nat BY DEF Chan
<1>2. st \in States /\ st \in {r.state, "Disconnecting"} BY StateNames DEF Chan
<1>3. Released(r) = [r EXCEPT !.refs = n, !.state = st] BY DEF Released, Chan
<1> HIDE DEF n, st
<1>4. Released(r) \in Chan BY <1>1, <1>2, <1>3 DEF Chan
<1>5. Released(r).refs = n /\ Released(r).state = st
      /\ Released(r).available = r.available /\ Released(r).received = r.received
  BY <1>3 DEF Chan
<1> QED BY <1>2, <1>4, <1>5 DEF n

-----------------------------------------------------------------------------
(* The rest of the state. *)

LEMMA WriteType ==
    ASSUME Rest, NEW e \in Ends, NEW m \in Message, Write(e, m)
    PROVE  wire' \in [Ends -> Seq(Message)]
<1>1. Other(e) \in Ends BY DEF Ends, Other
<1>2. wire[Other(e)] \in Seq(Message) BY <1>1 DEF Rest
<1>3. Append(wire[Other(e)], m) \in Seq(Message) BY <1>2
<1> QED BY <1>1, <1>3 DEF Rest, Write

LEMMA ReadType ==
    ASSUME Rest, NEW e \in Ends, wire[e] # <<>>, wire' = [wire EXCEPT ![e] = Tail(@)]
    PROVE  Head(wire[e]) \in Message /\ wire' \in [Ends -> Seq(Message)]
<1>1. wire[e] \in Seq(Message) BY DEF Rest
<1>2. Head(wire[e]) \in Message /\ Tail(wire[e]) \in Seq(Message) BY <1>1
<1> QED BY <1>2 DEF Rest

LEMMA StillPlaced ==
    ASSUME Placed, UNCHANGED <<handles, creator, acceptor, receiver, control>>
    PROVE  Placed'
BY DEF Placed

(* A slot that accept does not hold.                                       *)
LEMMA PlacedElsewhere ==
    ASSUME Placed, NEW e \in Ends, NEW i \in Slots, UNCHANGED <<creator, acceptor, control>>,
           ~(acceptor[e].pc = "answer" /\ acceptor[e].slot = i),
           \A f \in Ends, j \in Slots : f # e \/ j # i =>
               handles'[f][j] = handles[f][j] /\ receiver'[f][j] = receiver[f][j]
    PROVE  Placed'
<1>1. ASSUME NEW f \in Ends, acceptor[f].pc = "answer"
      PROVE  /\ acceptor[f].slot \in Slots
             /\ handles'[f][acceptor[f].slot] = {"channel"}
             /\ receiver'[f][acceptor[f].slot].pc = "idle"
  BY <1>1 DEF Placed
<1> QED BY <1>1 DEF Placed

-----------------------------------------------------------------------------
(* What each action preserves. *)

LEMMA LinkUpInv == ASSUME IInv, LinkUp PROVE IInv'
<1>1. Shape' /\ Table' BY SameSlots DEF IInv, LinkUp, futures
<1>2. Rest'
  <2>1. count.links + 1 \in Conns
    BY ChannelsAssumption DEF IInv, Rest, LinkUp, Conns
  <2>2. Msg("up", count.links + 1, None, 0, 0) \in Message
    BY <2>1, CidNames DEF Msg, Message
  <2>3. \A e \in Ends : Append(wire[e], Msg("up", count.links + 1, None, 0, 0)) \in Seq(Message)
    BY <2>2 DEF IInv, Rest
  <2>4. wire' \in [Ends -> Seq(Message)] BY <2>3 DEF LinkUp
  <2>5. count' \in [links : Conns, opens : Nat, sends : Nat, cancels : Nat]
    BY <2>1 DEF IInv, Rest, LinkUp
  <2> QED BY <2>1, <2>4, <2>5 DEF IInv, Rest, LinkUp, futures
<1>3. Placed' BY StillPlaced DEF IInv, LinkUp, futures
<1> QED BY <1>1, <1>2, <1>3 DEF IInv

LEMMA LinkDownInv == ASSUME IInv, LinkDown PROVE IInv'
<1>1. Shape' /\ Table' BY SameSlots DEF IInv, LinkDown, futures
<1>2. Rest'
  <2>1. Msg("down", air, None, 0, 0) \in Message
    BY CidNames DEF IInv, Rest, Msg, Message
  <2>2. wire[1] \in Seq(Message) /\ wire[2] \in Seq(Message) BY DEF IInv, Rest, Ends
  <2>3. PICK k1 \in 0 .. Len(wire[1]), k2 \in 0 .. Len(wire[2]) :
           wire' = [e \in Ends |-> Append(SubSeq(wire[e], 1, IF e = 1 THEN k1 ELSE k2),
                                         Msg("down", air, None, 0, 0))]
    BY DEF LinkDown
  <2>4. \A e \in Ends : SubSeq(wire[e], 1, IF e = 1 THEN k1 ELSE k2) \in Seq(Message)
    BY <2>2, <2>3 DEF Ends
  <2>5. wire' \in [Ends -> Seq(Message)]
    <3>1. ASSUME NEW e \in Ends
          PROVE  Append(SubSeq(wire[e], 1, IF e = 1 THEN k1 ELSE k2),
                        Msg("down", air, None, 0, 0)) \in Seq(Message)
      <4> DEFINE q == SubSeq(wire[e], 1, IF e = 1 THEN k1 ELSE k2)
      <4>1. q \in Seq(Message) BY <2>4
      <4> HIDE DEF q
      <4>2. Append(q, Msg("down", air, None, 0, 0)) \in Seq(Message) BY <2>1, <4>1
      <4> QED BY <4>2 DEF q
    <3> QED BY <2>3, <3>1
  <2>6. air' \in Conns BY CidNames DEF LinkDown
  <2> QED BY <2>5, <2>6 DEF IInv, Rest, LinkDown, futures
<1>3. Placed' BY StillPlaced DEF IInv, LinkDown, futures
<1> QED BY <1>1, <1>2, <1>3 DEF IInv

(* What is the same for every packet.                                      *)
LEMMA RxRest ==
    ASSUME IInv, NEW e \in Ends, NEW k, Received(e, k), linked' \in [Ends -> [conn : Conns, on : BOOLEAN]]
    PROVE  Rest' /\ Placed'
<1>1. wire' \in [Ends -> Seq(Message)] BY ReadType DEF IInv, Received
<1>2. Rest' BY <1>1 DEF IInv, Rest, Received, futures
<1>3. Placed' BY StillPlaced DEF IInv, Received, futures
<1> QED BY <1>2, <1>3

LEMMA HeadIs ==
    ASSUME IInv, NEW e \in Ends, NEW k, Received(e, k)
    PROVE  /\ Head(wire[e]).conn \in Conns /\ Head(wire[e]).cid \in Cids
           /\ Head(wire[e]).id \in Nat /\ Head(wire[e]).n \in Nat
<1>1. Head(wire[e]) \in Message BY ReadType DEF IInv, Received
<1> QED BY <1>1 DEF Message

LEMMA RxUpInv == ASSUME IInv, NEW e \in Ends, RxUp(e) PROVE IInv'
<1>1. Shape' /\ Table' BY SameSlots DEF IInv, RxUp, Received, futures
<1>2. Head(wire[e]).conn \in Conns BY HeadIs DEF RxUp
<1>3. linked' \in [Ends -> [conn : Conns, on : BOOLEAN]] BY <1>2 DEF IInv, Rest, RxUp
<1>4. Rest' /\ Placed' BY <1>3, RxRest DEF IInv, Rest, RxUp
<1> QED BY <1>1, <1>4 DEF IInv

LEMMA RxDownInv == ASSUME IInv, NEW e \in Ends, RxDown(e) PROVE IInv'
<1> DEFINE after(i) == IF chan[e][i].conn = Head(wire[e]).conn THEN Closed(chan[e][i]) ELSE chan[e][i]
<1>1. \A i \in Slots : after(i) \in Chan /\ SlotOK(after(i), handles[e][i], receiver[e][i])
  BY SlotType, ClosedOK DEF IInv
<1>2. chan' = [chan EXCEPT ![e] = [i \in Slots |-> after(i)]] BY DEF RxDown
<1> HIDE DEF after
<1>3. UNCHANGED <<handles, receiver>> BY DEF RxDown, Received, futures
<1>4. Shape' BY <1>1, <1>2, <1>3 DEF IInv, Shape
<1>5. ASSUME NEW f \in Ends, NEW j \in Slots
      PROVE  SlotOK(chan'[f][j], handles'[f][j], receiver'[f][j])
  <2>1. CASE f = e
    <3>1. chan'[f][j] = after(j) BY <1>2, <2>1 DEF IInv, Shape
    <3> QED BY <1>1, <1>3, <2>1, <3>1
  <2>2. CASE f # e
    <3>1. chan'[f][j] = chan[f][j] BY <1>2, <2>2 DEF IInv, Shape
    <3> QED BY <1>3, <3>1 DEF IInv, Table
  <2> QED BY <2>1, <2>2
<1>6. Table' BY <1>5 DEF Table
<1>7. linked' \in [Ends -> [conn : Conns, on : BOOLEAN]] BY DEF IInv, Rest, RxDown
<1>8. Rest' /\ Placed' BY <1>7, RxRest DEF IInv, Rest, RxDown
<1> QED BY <1>4, <1>6, <1>8 DEF IInv

(* A packet that changes the channel of one slot, or of none.              *)
LEMMA RxSlot ==
    ASSUME IInv, NEW e \in Ends, NEW k, Received(e, k), linked' = linked,
           \/ chan' = chan
           \/ \E i \in Slots, r \in Chan :
                /\ chan' = [chan EXCEPT ![e][i] = r]
                /\ SlotOK(r, handles[e][i], receiver[e][i])
    PROVE  IInv'
<1>1. UNCHANGED <<handles, receiver>> BY DEF Received, futures
<1>2. Shape' /\ Table'
  <2>1. CASE chan' = chan BY <1>1, <2>1, SameSlots DEF IInv
  <2>2. CASE chan' # chan
    <3>1. PICK i \in Slots, r \in Chan : /\ chan' = [chan EXCEPT ![e][i] = r]
                                       /\ SlotOK(r, handles[e][i], receiver[e][i])
      BY <2>2
    <3> QED BY <1>1, <3>1, ChanStep DEF IInv
  <2> QED BY <2>1, <2>2
<1>3. Rest' /\ Placed' BY RxRest DEF IInv, Rest
<1> QED BY <1>2, <1>3 DEF IInv

LEMMA RxRequestInv == ASSUME IInv, NEW e \in Ends, RxRequest(e) PROVE IInv'
<1> DEFINE m == Head(wire[e])
           a == Allocated(e, m.conn, "PeerConnecting", m.id)
           r == [a EXCEPT !.peer = m.cid, !.credits = m.n]
           i == First(Free(e))
<1>1. m.conn \in Conns /\ m.cid \in Cids /\ m.id \in Nat /\ m.n \in Nat
  BY HeadIs DEF RxRequest
<1>2. CASE Free(e) = {} BY <1>2, RxSlot DEF RxRequest, IInv, Rest
<1>3. CASE Free(e) # {}
  <2>1. i \in Slots /\ a \in Chan /\ a.state = "PeerConnecting" /\ a.refs = 0
        /\ handles[e][i] = {} /\ receiver[e][i].pc = "idle"
    BY <1>1, <1>3, AllocatedOK DEF IInv
  <2>2. chan' = [chan EXCEPT ![e][i] = r] BY <1>3 DEF RxRequest, SetChan
  <2> HIDE DEF a, i, m
  <2>3. r \in Chan /\ r.state = "PeerConnecting" /\ r.refs = 0 BY <1>1, <2>1 DEF Chan
  <2> HIDE DEF r
  <2>4. SlotOK(r, handles[e][i], receiver[e][i]) BY <2>1, <2>3, FS_EmptySet DEF SlotOK
  <2> QED BY <2>1, <2>2, <2>3, <2>4, RxSlot DEF RxRequest, IInv, Rest
<1> QED BY <1>2, <1>3

LEMMA RxResponseInv == ASSUME IInv, NEW e \in Ends, RxResponse(e) PROVE IInv'
<1> DEFINE m == Head(wire[e])
           S == {i \in Slots : chan[e][i].state = "Connecting" /\ chan[e][i].id = m.id
                                                               /\ chan[e][i].conn = m.conn}
           i == First(S)
           q == chan[e][i]
           r == [q EXCEPT !.state = "Connected", !.peer = m.cid, !.credits = m.n]
<1>1. m.conn \in Conns /\ m.cid \in Cids /\ m.id \in Nat /\ m.n \in Nat
  BY HeadIs DEF RxResponse
<1>2. CASE S = {} BY <1>2, RxSlot DEF RxResponse, IInv, Rest
<1>3. CASE S # {}
  <2>1. i \in Slots /\ q.state = "Connecting" BY <1>3, FirstIn
  <2>2. chan' = [chan EXCEPT ![e][i] = r] BY <1>3 DEF RxResponse, SetChan
  <2>3. q \in Chan /\ SlotOK(q, handles[e][i], receiver[e][i]) /\ handles[e][i] \in SUBSET Forms
    BY <2>1, SlotType DEF IInv
  <2>4. handles[e][i] = {} BY <2>1, <2>3, Counting DEF SlotOK
  <2> HIDE DEF i, m, q
  <2>5. r \in Chan /\ r.state = "Connected" /\ r.refs = q.refs /\ r.available = q.available
        /\ r.received = q.received
    BY <1>1, <2>3, StateNames DEF Chan
  <2> HIDE DEF r
  <2>6. SlotOK(r, handles[e][i], receiver[e][i]) BY <2>1, <2>3, <2>4, <2>5 DEF SlotOK
  <2> QED BY <2>1, <2>2, <2>5, <2>6, RxSlot DEF RxResponse, IInv, Rest
<1> QED BY <1>2, <1>3

(* What a packet does to the channels when it may change several slots.    *)
LEMMA RxSlots ==
    ASSUME IInv, NEW e \in Ends, NEW k, Received(e, k), linked' = linked, NEW c \in [Slots -> Chan],
           chan' = [chan EXCEPT ![e] = c],
           \A i \in Slots : SlotOK(c[i], handles[e][i], receiver[e][i])
    PROVE  IInv'
<1>1. UNCHANGED <<handles, receiver>> BY DEF Received, futures
<1>2. Shape' BY <1>1 DEF IInv, Shape
<1>3. ASSUME NEW f \in Ends, NEW j \in Slots
      PROVE  SlotOK(chan'[f][j], handles'[f][j], receiver'[f][j])
  <2>1. CASE f = e
    <3>1. chan'[f] = c BY <2>1 DEF IInv, Shape
    <3> QED BY <1>1, <2>1, <3>1
  <2>2. CASE f # e
    <3>1. chan'[f] = chan[f] BY <2>2 DEF IInv, Shape
    <3> QED BY <1>1, <3>1 DEF IInv, Table
  <2> QED BY <2>1, <2>2
<1>4. Table' BY <1>3 DEF Table
<1>5. Rest' /\ Placed' BY RxRest DEF IInv, Rest
<1> QED BY <1>2, <1>4, <1>5 DEF IInv

(* Credits more or fewer, and what is told apart of them.                  *)
LEMMA TakenOK ==
    ASSUME NEW q \in Chan, NEW H, NEW v, SlotOK(q, H, v), NEW n \in Nat, NEW z \in Int
    PROVE  LET r == [q EXCEPT !.credits = n, !.astray = z] IN
           /\ r \in Chan /\ SlotOK(r, H, v) /\ r.state = q.state
<1> DEFINE r == [q EXCEPT !.credits = n, !.astray = z]
<1>1. r \in Chan /\ r.state = q.state /\ r.refs = q.refs /\ r.available = q.available
      /\ r.received = q.received
  BY DEF Chan
<1> HIDE DEF r
<1>2. SlotOK(r, H, v) BY <1>1 DEF SlotOK
<1> QED BY <1>1, <1>2 DEF r

LEMMA RxIndicationInv == ASSUME IInv, NEW e \in Ends, RxIndication(e) PROVE IInv'
<1> DEFINE m == Head(wire[e])
           S == {i \in Slots : chan[e][i].state = "Connected" /\ chan[e][i].peer = m.cid
                                                              /\ chan[e][i].conn = m.conn}
           w == First(S)
           q == chan[e][w]
           taken == [q EXCEPT !.credits = q.credits + m.n,
                              !.astray = IF q.id = m.id THEN q.astray ELSE q.astray + m.n]
           c == [i \in Slots |-> IF i = w THEN taken ELSE Astray(chan[e][i], m)]
<1>1. m.n \in Nat BY HeadIs DEF RxIndication
<1>2. CASE S = {} BY <1>2, RxSlot DEF RxIndication, IInv, Rest
<1>3. CASE S # {}
  <2>1. w \in Slots BY <1>3, FirstIn
  <2>2. chan' = [chan EXCEPT ![e] = c] BY <1>3 DEF RxIndication
  <2>3. taken \in Chan /\ SlotOK(taken, handles[e][w], receiver[e][w])
    <3>1. q \in Chan /\ SlotOK(q, handles[e][w], receiver[e][w]) BY <2>1, SlotType DEF IInv
    <3> DEFINE n == q.credits + m.n
               z == IF q.id = m.id THEN q.astray ELSE q.astray + m.n
    <3>2. taken = [q EXCEPT !.credits = n, !.astray = z] OBVIOUS
    <3> HIDE DEF q, m
    <3>3. n \in Nat /\ z \in Int BY <1>1, <3>1 DEF Chan
    <3> HIDE DEF n, z, taken
    <3> QED BY <3>1, <3>2, <3>3, TakenOK
  <2>4. ASSUME NEW i \in Slots
        PROVE  Astray(chan[e][i], m) \in Chan
               /\ SlotOK(Astray(chan[e][i], m), handles[e][i], receiver[e][i])
    <3> DEFINE p == chan[e][i]
               z == p.astray - m.n
    <3>1. p \in Chan /\ SlotOK(p, handles[e][i], receiver[e][i]) BY SlotType DEF IInv
    <3>2. Astray(p, m) = IF p.id = m.id THEN [p EXCEPT !.astray = z] ELSE p BY DEF Astray
    <3> HIDE DEF p, m
    <3>3. z \in Int /\ p.credits \in Nat BY <1>1, <3>1 DEF Chan
    <3> HIDE DEF z
    <3>4. [p EXCEPT !.astray = z] = [p EXCEPT !.credits = p.credits, !.astray = z] BY <3>1 DEF Chan
    <3> DEFINE k == p.credits
               y == [p EXCEPT !.credits = k, !.astray = z]
    <3>a. k \in Nat BY <3>3
    <3> HIDE DEF k
    <3>b. y \in Chan /\ SlotOK(y, handles[e][i], receiver[e][i])
      BY <3>1, <3>3, <3>a, TakenOK
    <3>5. [p EXCEPT !.astray = z] \in Chan /\ SlotOK([p EXCEPT !.astray = z], handles[e][i], receiver[e][i])
      <4> HIDE DEF y
      <4>1. y = [p EXCEPT !.astray = z] BY <3>4 DEF y, k
      <4> QED BY <3>b, <4>1
    <3> QED BY <3>1, <3>2, <3>5 DEF p
  <2> HIDE DEF taken, m, w
  <2>5. c \in [Slots -> Chan] /\ \A i \in Slots : SlotOK(c[i], handles[e][i], receiver[e][i])
    BY <2>3, <2>4
  <2> HIDE DEF c
  <2>6. Received(e, "ind") /\ linked' = linked BY DEF RxIndication
  <2> QED BY <2>2, <2>5, <2>6, RxSlots
<1> QED BY <1>2, <1>3

LEMMA RxDisconnectRequestInv == ASSUME IInv, NEW e \in Ends, RxDisconnectRequest(e) PROVE IInv'
<1> DEFINE S == {i \in Slots : chan[e][i].cid = Head(wire[e]).cid}
           i == First(S)
           r == [chan[e][i] EXCEPT !.state = "PeerDisconnecting"]
<1>1. CASE S = {} BY <1>1, RxSlot DEF RxDisconnectRequest, IInv, Rest
<1>2. CASE S # {}
  <2>1. i \in Slots BY <1>2, FirstIn
  <2>2. chan' = [chan EXCEPT ![e][i] = r] BY <1>2 DEF RxDisconnectRequest
  <2>3. r \in Chan /\ SlotOK(r, handles[e][i], receiver[e][i])
    BY <2>1, SlotType, EndedOK DEF IInv
  <2> QED BY <2>1, <2>2, <2>3, RxSlot DEF RxDisconnectRequest, IInv, Rest
<1> QED BY <1>1, <1>2

LEMMA RxDisconnectResponseInv == ASSUME IInv, NEW e \in Ends, RxDisconnectResponse(e) PROVE IInv'
<1> DEFINE S == {i \in Slots : chan[e][i].state = "Disconnecting" /\ chan[e][i].cid = Head(wire[e]).cid}
           i == First(S)
           r == Closed(chan[e][i])
<1>1. CASE S = {} BY <1>1, RxSlot DEF RxDisconnectResponse, IInv, Rest
<1>2. CASE S # {}
  <2>1. i \in Slots BY <1>2, FirstIn
  <2>2. chan' = [chan EXCEPT ![e][i] = r] BY <1>2 DEF RxDisconnectResponse, SetChan
  <2>3. r \in Chan /\ SlotOK(r, handles[e][i], receiver[e][i])
    BY <2>1, SlotType, ClosedOK DEF IInv
  <2> QED BY <2>1, <2>2, <2>3, RxSlot DEF RxDisconnectResponse, IInv, Rest
<1> QED BY <1>1, <1>2

(* A frame takes a credit, and a credit to give again.                     *)
LEMMA RxDataInv == ASSUME IInv, NEW e \in Ends, RxData(e) PROVE IInv'
<1> DEFINE i == Head(wire[e]).cid
           q == chan[e][i]
           own == IF Head(wire[e]).id = q.id THEN 1 ELSE 0
<1>1. CASE i \notin Slots \/ q.state # "Connected" \/ q.cid # i
  BY <1>1, RxSlot DEF RxData, IInv, Rest
<1>2. CASE ~(i \notin Slots \/ q.state # "Connected" \/ q.cid # i)
  <2>1. i \in Slots /\ q.state = "Connected" BY <1>2
  <2>2. q \in Chan /\ SlotOK(q, handles[e][i], receiver[e][i]) BY <2>1, SlotType DEF IInv
  <2>3. own \in Int OBVIOUS
  <2>5. CASE q.available = 0
    <3> DEFINE r == [q EXCEPT !.skew = q.skew - own]
    <3>1. chan' = [chan EXCEPT ![e][i] = r]
      BY <1>2, <2>5 DEF RxData, SetChan
    <3> HIDE DEF i, q, own
    <3>2. q.skew - own \in Int BY <2>2, <2>3 DEF Chan
    <3>3. r \in Chan /\ r.state = q.state /\ r.refs = q.refs /\ r.available = q.available
          /\ r.received = q.received
      BY <2>2, <3>2 DEF Chan
    <3> HIDE DEF r
    <3>4. SlotOK(r, handles[e][i], receiver[e][i]) BY <2>2, <3>3 DEF SlotOK
    <3> QED BY <2>1, <3>1, <3>3, <3>4, RxSlot DEF RxData
  <2>6. CASE q.available # 0
    <3>1. PICK whole \in BOOLEAN :
             chan' = [chan EXCEPT ![e][i] =
                          [q EXCEPT !.available = q.available - 1, !.received = q.received + 1,
                                    !.skew = q.skew + 1 - own,
                                    !.inbound = IF whole /\ q.inbound < QLen THEN q.inbound + 1
                                                ELSE q.inbound]]
      BY <1>2, <2>6 DEF RxData, SetChan
    <3> DEFINE n == IF whole /\ q.inbound < QLen THEN q.inbound + 1 ELSE q.inbound
               z == q.skew + 1 - own
               r == [q EXCEPT !.available = q.available - 1, !.received = q.received + 1,
                              !.skew = z, !.inbound = n]
    <3> HIDE DEF i, q, own
    <3>2. n \in Nat /\ z \in Int /\ q.available - 1 \in Nat /\ q.received + 1 \in Nat
          /\ q.available \in Nat /\ q.received \in Nat
      BY <2>2, <2>3, <2>6 DEF Chan
    <3>3. chan' = [chan EXCEPT ![e][i] = r] BY <3>1
    <3> HIDE DEF n, z
    <3>4. r \in Chan BY <2>2, <3>2 DEF Chan
    <3>5. r.state = q.state /\ r.refs = q.refs /\ r.available = q.available - 1
          /\ r.received = q.received + 1
      BY <2>2 DEF Chan
    <3> HIDE DEF r
    <3>6. receiver[e][i] \in Listener BY <2>1, SlotType DEF IInv
    <3>7. SlotOK(r, handles[e][i], receiver[e][i])
      BY <2>1, <2>2, <3>2, <3>5, <3>6 DEF SlotOK, Listener
    <3> QED BY <2>1, <3>1, <3>3, <3>4, <3>7, RxSlot DEF RxData
  <2> QED BY <2>5, <2>6
<1> QED BY <1>1, <1>2

LEMMA CountType ==
    ASSUME IInv, NEW d \in BOOLEAN, count' = count \/ Cancel \/ Stops(d)
    PROVE  count' \in [links : Conns, opens : Nat, sends : Nat, cancels : Nat]
<1>1. count \in [links : Conns, opens : Nat, sends : Nat, cancels : Nat] BY DEF IInv, Rest
<1>2. count.cancels + 1 \in Nat BY <1>1
<1> QED BY <1>1, <1>2 DEF Cancel, Stops

LEMMA CreateInv == ASSUME IInv, NEW e \in Ends, Create(e) PROVE IInv'
<1> DEFINE l == linked[e].conn
           n == count.opens + 1
           a == Allocated(e, l, "Connecting", n)
           r == [a EXCEPT !.available = Initial, !.received = 0]
           i == First(Free(e))
<1>1. l \in Conns /\ n \in Nat BY DEF IInv, Rest
<1>2. i \in Slots /\ a \in Chan /\ a.state = "Connecting" /\ a.refs = 0
      /\ handles[e][i] = {} /\ receiver[e][i].pc = "idle"
  BY <1>1, AllocatedOK DEF IInv, Create
<1>3. chan' = [chan EXCEPT ![e][i] = r] BY DEF Create, SetChan
<1>4. creator' = [creator EXCEPT ![e] = [pc |-> "ask", slot |-> i, conn |-> l, id |-> n]]
  BY DEF Create
<1>5. count' = [count EXCEPT !.opens = n] BY DEF Create
<1>6. UNCHANGED <<handles, acceptor, sender, receiver, control, wire, linked, air>>
  BY DEF Create, others
<1>7. i \in Cids BY <1>2, CidNames
<1> HIDE DEF a, i, l, n
<1>8. r \in Chan /\ r.state = "Connecting" /\ r.refs = 0 /\ r.available = Initial /\ r.received = 0
  BY <1>2, ChannelsAssumption DEF Chan
<1> HIDE DEF r
<1>9. SlotOK(r, handles[e][i], receiver[e][i])
  BY <1>2, <1>8, FS_EmptySet, ChannelsAssumption DEF SlotOK
<1>10. Shape' /\ Table' BY <1>2, <1>3, <1>6, <1>8, <1>9, ChanStep DEF IInv
<1>11. Rest' BY <1>1, <1>4, <1>5, <1>6, <1>7 DEF IInv, Rest, Creator
<1>12. Placed' BY <1>2, <1>4, <1>6 DEF IInv, Placed, Rest
<1> QED BY <1>10, <1>11, <1>12 DEF IInv

LEMMA CreateAskInv == ASSUME IInv, NEW e \in Ends, CreateAsk(e) PROVE IInv'
<1> DEFINE l == creator[e].conn
           i == creator[e].slot
<1>1. UNCHANGED <<chan, handles, acceptor, sender, receiver, control, count, linked, air>>
  BY DEF CreateAsk, others
<1>2. l \in Conns /\ i \in Slots BY DEF IInv, Rest, Placed, CreateAsk, Creator
<1>3. Msg("req", l, i, creator[e].id, Initial) \in Message
  BY <1>2, CidNames, ChannelsAssumption DEF IInv, Rest, Creator, Msg, Message
<1>4. wire' \in [Ends -> Seq(Message)]
  <2>1. CASE wire' = wire BY <2>1 DEF IInv, Rest
  <2>2. CASE Write(e, Msg("req", l, i, creator[e].id, Initial)) BY <1>3, <2>2, WriteType DEF IInv
  <2> QED BY <2>1, <2>2 DEF CreateAsk
<1>5. creator' = [creator EXCEPT ![e] = Done] \/ creator' = [creator EXCEPT ![e].pc = "wait"]
  BY DEF CreateAsk
<1>6. /\ creator' \in [Ends -> Creator]
      /\ creator'[e].pc \in {"ask", "wait"} => creator'[e].slot \in Slots
      /\ \A f \in Ends : f # e => creator'[f] = creator[f]
  <2> DEFINE c == [creator[e] EXCEPT !.pc = "wait"]
  <2>1. creator[e] \in Creator
    BY DEF IInv, Rest
  <2>2. c \in Creator /\ c.slot = i BY <2>1 DEF Creator
  <2>3. Done \in Creator /\ Done.pc = "idle" BY CidNames DEF Done, Creator
  <2>4. CASE creator' = [creator EXCEPT ![e] = Done] BY <2>3, <2>4 DEF IInv, Rest
  <2>5. CASE creator' = [creator EXCEPT ![e].pc = "wait"]
    <3>1. creator' = [creator EXCEPT ![e] = c] BY <2>5
    <3> HIDE DEF c, i
    <3> QED BY <1>2, <2>2, <3>1 DEF IInv, Rest
  <2> QED BY <1>5, <2>4, <2>5
<1>7. Rest' BY <1>1, <1>4, <1>6 DEF IInv, Rest
<1>8. Placed' BY <1>1, <1>6 DEF IInv, Placed
<1>9. Shape' /\ Table' BY <1>1, SameSlots DEF IInv
<1> QED BY <1>7, <1>8, <1>9 DEF IInv

LEMMA CreatedInv == ASSUME IInv, NEW e \in Ends, Created(e) PROVE IInv'
<1> DEFINE i == creator[e].slot
           q == chan[e][i]
           r == [q EXCEPT !.refs = q.refs + 1]
<1>1. UNCHANGED <<acceptor, sender, receiver, control, wire, count, linked, air>>
  BY DEF Created, others
<1>2. i \in Slots BY DEF IInv, Placed, Created
<1>3. creator' = [creator EXCEPT ![e] = [Done EXCEPT !.pc = "idle"]]
      \/ creator' = [creator EXCEPT ![e] = [Done EXCEPT !.pc = "panicked"]]
  BY DEF Created
<1>4. creator' \in [Ends -> Creator]
      /\ creator'[e].pc \in {"idle", "panicked"} /\ \A f \in Ends : f # e => creator'[f] = creator[f]
  <2>1. \A pc \in {"idle", "panicked"} :
          /\ [Done EXCEPT !.pc = pc] \in Creator
          /\ [Done EXCEPT !.pc = pc].pc = pc
    BY CidNames DEF Done, Creator
  <2>2. PICK pc \in {"idle", "panicked"} : creator' = [creator EXCEPT ![e] = [Done EXCEPT !.pc = pc]]
    BY <1>3
  <2> QED BY <2>1, <2>2 DEF IInv, Rest
<1>5. Rest' BY <1>1, <1>4 DEF IInv, Rest
<1>6. CASE UNCHANGED <<chan, handles>>
  <2>1. Shape' /\ Table' BY <1>1, <1>6, SameSlots DEF IInv
  <2>2. Placed' BY <1>1, <1>4, <1>6 DEF IInv, Placed
  <2> QED BY <1>5, <2>1, <2>2 DEF IInv
<1>7. CASE /\ q.state = "Connected" /\ q.refs = 0 /\ SetChan(e, i, r)
           /\ handles' = [handles EXCEPT ![e][i] = {"channel"}]
  <2>1. q \in Chan /\ SlotOK(q, handles[e][i], receiver[e][i]) /\ handles[e][i] \in SUBSET Forms
    BY <1>2, SlotType DEF IInv
  <2>2. handles[e][i] = {} BY <1>7, <2>1, Counting DEF SlotOK
  <2>3. {"channel"} \in SUBSET Forms /\ {} \in SUBSET Forms /\ "channel" \in Forms BY DEF Forms
  <2>4. Cardinality({} \cup {"channel"}) = Cardinality({}) + 1 BY <2>3, Counting
  <2>5. Cardinality({"channel"}) = 1 BY <2>4, FS_EmptySet
  <2>6. chan' = [chan EXCEPT ![e][i] = r] BY <1>7 DEF SetChan
  <2>7. q.refs + 1 \in Nat BY <2>1 DEF Chan
  <2>8. r \in Chan /\ r.state = q.state /\ r.refs = q.refs + 1 /\ r.available = q.available
        /\ r.received = q.received
    BY <2>1, <2>7 DEF Chan
  <2>9. SlotOK(r, {"channel"}, receiver[e][i])
    <3> HIDE DEF r, q, i
    <3>1. receiver[e][i].pc = "idle" BY <2>1, <2>2 DEF SlotOK
    <3>2. r.available + r.received = Initial BY <1>7, <2>1, <2>8 DEF SlotOK
    <3>3. r.state = "Connected" /\ r.refs = 1 BY <1>7, <2>8
    <3> QED BY <2>5, <3>1, <3>2, <3>3 DEF SlotOK
  <2>10. Shape' /\ Table'
    <3> HIDE DEF r, q, i
    <3> QED BY <1>1, <1>2, <1>7, <2>3, <2>6, <2>8, <2>9, HandleStep DEF IInv
  <2>11. ~(acceptor[e].pc = "answer" /\ acceptor[e].slot = i) BY <2>2 DEF IInv, Placed
  <2>12. \A f \in Ends, j \in Slots : f # e \/ j # i => handles'[f][j] = handles[f][j]
    BY <1>2, <1>7, <2>3, OneHandle DEF IInv
  <2>13. Placed'
    <3>1. \A f \in Ends : acceptor[f].pc = "answer" =>
             /\ acceptor[f].slot \in Slots
             /\ handles'[f][acceptor[f].slot] = {"channel"}
             /\ receiver'[f][acceptor[f].slot].pc = "idle"
      BY <1>1, <2>11, <2>12 DEF IInv, Placed
    <3> QED BY <1>1, <1>4, <3>1 DEF IInv, Placed
  <2> QED BY <1>5, <2>10, <2>13 DEF IInv
<1> QED BY <1>6, <1>7 DEF Created

LEMMA CancelCreateInv == ASSUME IInv, NEW e \in Ends, CancelCreate(e) PROVE IInv'
<1>1. UNCHANGED <<chan, handles, acceptor, sender, receiver, control, wire, linked, air>>
  BY DEF CancelCreate, others
<1>2. creator' = [creator EXCEPT ![e] = Done] BY DEF CancelCreate
<1>3. count' \in [links : Conns, opens : Nat, sends : Nat, cancels : Nat]
  BY CountType DEF CancelCreate
<1>4. Rest' BY <1>1, <1>2, <1>3, CidNames DEF IInv, Rest, Done, Creator
<1>5. Placed' BY <1>1, <1>2 DEF IInv, Placed, Rest, Done
<1>6. Shape' /\ Table' BY <1>1, SameSlots DEF IInv
<1> QED BY <1>4, <1>5, <1>6 DEF IInv

LEMMA AcceptInv == ASSUME IInv, NEW e \in Ends, Accept(e) PROVE IInv'
<1>1. PICK i \in Slots :
        /\ chan[e][i].state = "PeerConnecting"
        /\ chan' = [chan EXCEPT ![e][i] = [chan[e][i] EXCEPT !.state = "Connected", !.available = Initial,
                                            !.received = 0, !.refs = chan[e][i].refs + 1]]
        /\ handles' = [handles EXCEPT ![e][i] = handles[e][i] \cup {"channel"}]
        /\ acceptor' = [acceptor EXCEPT ![e] = [pc |-> "answer", slot |-> i, conn |-> chan[e][i].conn]]
  BY DEF Accept, SetChan
<1>2. UNCHANGED <<creator, sender, receiver, control, wire, count, linked, air>>
  BY DEF Accept, others
<1> DEFINE q == chan[e][i]
           r == [q EXCEPT !.state = "Connected", !.available = Initial, !.received = 0,
                          !.refs = q.refs + 1]
<1>3. q \in Chan /\ SlotOK(q, handles[e][i], receiver[e][i]) /\ handles[e][i] \in SUBSET Forms
  BY SlotType DEF IInv
<1>4. q.refs = 0 /\ handles[e][i] = {} /\ receiver[e][i].pc = "idle"
  BY <1>1, <1>3, Counting DEF SlotOK
<1>5. {"channel"} \in SUBSET Forms /\ {} \in SUBSET Forms /\ "channel" \in Forms BY DEF Forms
<1>6. Cardinality({} \cup {"channel"}) = Cardinality({}) + 1 BY <1>5, Counting
<1>7. Cardinality({"channel"}) = 1 BY <1>6, FS_EmptySet
<1>8. handles' = [handles EXCEPT ![e][i] = {"channel"}]
  <2>1. handles[e][i] \cup {"channel"} = {"channel"} BY <1>4
  <2> QED BY <1>1, <2>1
<1>9. chan' = [chan EXCEPT ![e][i] = r] BY <1>1
<1>10. acceptor' = [acceptor EXCEPT ![e] = [pc |-> "answer", slot |-> i, conn |-> q.conn]] BY <1>1
<1>11. q.conn \in Conns BY <1>3 DEF Chan
<1> HIDE DEF q
<1>12. r \in Chan
  <2>1. q.refs + 1 \in Nat /\ Initial \in Nat /\ 0 \in Nat /\ "Connected" \in States
    BY <1>4, StateNames, ChannelsAssumption
  <2> QED BY <1>3, <2>1 DEF Chan
<1>13. r.state = "Connected" /\ r.refs = 1 /\ r.available = Initial /\ r.received = 0
  BY <1>3, <1>4 DEF Chan
<1> HIDE DEF r
<1>14. SlotOK(r, {"channel"}, receiver[e][i])
  BY <1>4, <1>7, <1>13, ChannelsAssumption DEF SlotOK
<1>15. Shape' /\ Table' BY <1>2, <1>5, <1>8, <1>9, <1>12, <1>14, HandleStep DEF IInv
<1>16. Rest' BY <1>2, <1>10, <1>11, CidNames DEF IInv, Rest
<1>17. Placed'
  <2>1. handles'[e][i] = {"channel"} BY <1>5, <1>8, OneHandle DEF IInv
  <2>2. \A f \in Ends, j \in Slots : f # e \/ j # i => handles'[f][j] = handles[f][j]
    BY <1>5, <1>8, OneHandle DEF IInv
  <2>3. acceptor'[e].slot = i /\ \A f \in Ends : f # e => acceptor'[f] = acceptor[f]
    BY <1>10 DEF IInv, Rest
  <2>4. \A f \in Ends : acceptor'[f].pc = "answer" =>
             /\ acceptor'[f].slot \in Slots
             /\ handles'[f][acceptor'[f].slot] = {"channel"}
             /\ receiver'[f][acceptor'[f].slot].pc = "idle"
    <3>1. ASSUME NEW f \in Ends, f # e, acceptor'[f].pc = "answer"
          PROVE  /\ acceptor'[f].slot \in Slots
                 /\ handles'[f][acceptor'[f].slot] = {"channel"}
                 /\ receiver'[f][acceptor'[f].slot].pc = "idle"
      <4>1. acceptor'[f] = acceptor[f] /\ acceptor[f].pc = "answer" BY <2>3, <3>1
      <4>2. acceptor[f].slot \in Slots /\ handles[f][acceptor[f].slot] = {"channel"}
            /\ receiver[f][acceptor[f].slot].pc = "idle"
        BY <4>1 DEF IInv, Placed
      <4>3. handles'[f][acceptor[f].slot] = handles[f][acceptor[f].slot] BY <2>2, <3>1, <4>2
      <4> QED BY <1>2, <4>1, <4>2, <4>3
    <3>2. /\ acceptor'[e].slot \in Slots
          /\ handles'[e][acceptor'[e].slot] = {"channel"}
          /\ receiver'[e][acceptor'[e].slot].pc = "idle"
      BY <1>2, <1>4, <2>1, <2>3
    <3> QED BY <3>1, <3>2
  <2> QED BY <1>2, <2>4 DEF IInv, Placed
<1> QED BY <1>15, <1>16, <1>17 DEF IInv

LEMMA AcceptorEnds ==
    ASSUME Placed, Rest, NEW e \in Ends, acceptor' = [acceptor EXCEPT ![e] = Idle]
    PROVE  /\ acceptor' \in [Ends -> [pc : {"idle", "answer"}, slot : Cids, conn : Conns]]
           /\ acceptor'[e].pc = "idle" /\ \A f \in Ends : f # e => acceptor'[f] = acceptor[f]
<1>1. Idle \in [pc : {"idle", "answer"}, slot : Cids, conn : Conns] /\ Idle.pc = "idle"
  BY CidNames DEF Idle
<1> QED BY <1>1 DEF Rest

LEMMA AnswerInv == ASSUME IInv, NEW e \in Ends, Answer(e) PROVE IInv'
<1> DEFINE l == acceptor[e].conn
           i == acceptor[e].slot
<1>1. UNCHANGED <<chan, handles, creator, sender, receiver, control, count, linked, air>>
  BY DEF Answer, others
<1>2. l \in Conns /\ i \in Slots BY DEF IInv, Rest, Placed, Answer
<1>3. Msg("res", l, i, chan[e][i].id, Initial) \in Message
  BY <1>2, CidNames, SlotType, ChannelsAssumption DEF IInv, Msg, Message, Chan
<1>4. wire' \in [Ends -> Seq(Message)] BY <1>3, WriteType DEF IInv, Answer
<1>5. acceptor' = [acceptor EXCEPT ![e] = Idle] BY DEF Answer
<1>6. Rest' BY <1>1, <1>4, <1>5, AcceptorEnds DEF IInv, Rest
<1>7. Placed' BY <1>1, <1>5, AcceptorEnds DEF IInv, Placed
<1>8. Shape' /\ Table' BY <1>1, SameSlots DEF IInv
<1> QED BY <1>6, <1>7, <1>8 DEF IInv

LEMMA AcceptFailsInv == ASSUME IInv, NEW e \in Ends, AcceptFails(e) PROVE IInv'
<1> DEFINE i == acceptor[e].slot
           q == chan[e][i]
           r == Released(q)
<1>1. UNCHANGED <<creator, sender, receiver, control, wire, linked, air>>
  BY DEF AcceptFails, others
<1>2. i \in Slots /\ handles[e][i] = {"channel"} /\ receiver[e][i].pc = "idle"
  BY DEF IInv, Placed, AcceptFails
<1>3. q \in Chan /\ SlotOK(q, handles[e][i], receiver[e][i]) BY <1>2, SlotType DEF IInv
<1>4. q.refs = 1
  <2>1. {} \in SUBSET Forms /\ "channel" \in Forms BY DEF Forms
  <2>2. Cardinality({} \cup {"channel"}) = Cardinality({}) + 1 BY <2>1, Counting
  <2>3. Cardinality({"channel"}) = 1 BY <2>2, FS_EmptySet
  <2> QED BY <1>2, <1>3, <2>3 DEF SlotOK
<1>5. chan' = [chan EXCEPT ![e][i] = r] /\ handles' = [handles EXCEPT ![e][i] = {}]
  BY DEF AcceptFails, SetChan
<1>6. acceptor' = [acceptor EXCEPT ![e] = Idle] BY DEF AcceptFails
<1>7. count' \in [links : Conns, opens : Nat, sends : Nat, cancels : Nat]
  <2>1. (~IsConnected(e, acceptor[e].conn)) \in BOOLEAN OBVIOUS
  <2> QED BY <2>1, CountType DEF AcceptFails
<1> HIDE DEF q, i
<1>8. r \in Chan /\ r.refs = 0 /\ r.state \in {q.state, "Disconnecting"}
      /\ r.available = q.available /\ r.received = q.received
  BY <1>3, <1>4, ReleasedOK
<1> HIDE DEF r
<1>9. SlotOK(r, {}, receiver[e][i]) BY <1>2, <1>3, <1>8, FS_EmptySet DEF SlotOK
<1>10. {} \in SUBSET Forms OBVIOUS
<1>11. Shape' /\ Table' BY <1>1, <1>2, <1>5, <1>8, <1>9, <1>10, HandleStep DEF IInv
<1>12. Rest' BY <1>1, <1>6, <1>7, AcceptorEnds DEF IInv, Rest
<1>13. Placed'
  <2>1. \A f \in Ends, j \in Slots : f # e \/ j # i => handles'[f][j] = handles[f][j]
    BY <1>2, <1>5, <1>10, OneHandle DEF IInv
  <2>2. ASSUME NEW f \in Ends, acceptor'[f].pc = "answer"
        PROVE  /\ acceptor'[f].slot \in Slots
               /\ handles'[f][acceptor'[f].slot] = {"channel"}
               /\ receiver'[f][acceptor'[f].slot].pc = "idle"
    <3>1. f # e /\ acceptor'[f] = acceptor[f] BY <1>6, <2>2, AcceptorEnds DEF IInv
    <3>2. acceptor[f].slot \in Slots /\ handles[f][acceptor[f].slot] = {"channel"}
          /\ receiver[f][acceptor[f].slot].pc = "idle"
      BY <2>2, <3>1 DEF IInv, Placed
    <3>3. handles'[f][acceptor[f].slot] = handles[f][acceptor[f].slot] BY <2>1, <3>1, <3>2
    <3> QED BY <1>1, <3>1, <3>2, <3>3
  <2> QED BY <1>1, <2>2 DEF IInv, Placed
<1> QED BY <1>11, <1>12, <1>13 DEF IInv

-----------------------------------------------------------------------------
(* The handles: what is left when the channel and the set of its handles   *)
(* change together.                                                        *)

LEMMA HandleInv ==
    ASSUME IInv, NEW e \in Ends, NEW i \in Slots, NEW r \in Chan, NEW H \in SUBSET Forms,
           chan' = [chan EXCEPT ![e][i] = r], handles' = [handles EXCEPT ![e][i] = H],
           SlotOK(r, H, receiver[e][i]), UNCHANGED <<futures, wire, count, others>>,
           ~(acceptor[e].pc = "answer" /\ acceptor[e].slot = i)
    PROVE  IInv'
<1>1. Shape' /\ Table' BY HandleStep DEF IInv, futures
<1>2. Rest' BY DEF IInv, Rest, futures, others
<1>3. \A f \in Ends, j \in Slots : f # e \/ j # i => handles'[f][j] = handles[f][j]
  BY OneHandle DEF IInv
<1>4. Placed'
  <2>1. \A f \in Ends, j \in Slots : f # e \/ j # i =>
          handles'[f][j] = handles[f][j] /\ receiver'[f][j] = receiver[f][j]
    BY <1>3 DEF futures
  <2>2. UNCHANGED <<creator, acceptor, control>> BY DEF futures
  <2> QED BY <2>1, <2>2, PlacedElsewhere DEF IInv
<1> QED BY <1>1, <1>2, <1>4 DEF IInv

LEMMA DropInv ==
    ASSUME IInv, NEW e \in Ends, NEW i \in Slots, NEW f \in Forms, Drop(e, i, f)
    PROVE  IInv'
<1> DEFINE q == chan[e][i]
           r == Released(q)
           H == handles[e][i] \ {f}
<1>1. q \in Chan /\ SlotOK(q, handles[e][i], receiver[e][i]) /\ handles[e][i] \in SUBSET Forms
      /\ receiver[e][i] \in Listener
  BY SlotType DEF IInv
<1>2. f \in handles[e][i] /\ ~(acceptor[e].pc = "answer" /\ acceptor[e].slot = i)
      /\ (f \in {"channel", "reader"} => receiver[e][i].pc = "idle")
  BY DEF Drop, InHand, StillReceiver, Deaf
<1>3. chan' = [chan EXCEPT ![e][i] = r] /\ handles' = [handles EXCEPT ![e][i] = H]
      /\ UNCHANGED <<futures, wire, count, others>>
  BY DEF Drop, SetChan
<1>4. Cardinality(H) = q.refs - 1 /\ Cardinality(H) \in Nat /\ H \in SUBSET Forms
  <2>1. H \in SUBSET Forms BY <1>1
  <2> QED BY <1>1, <1>2, <2>1, Counting DEF SlotOK
<1>5. q.refs > 0 BY <1>1, <1>4 DEF Chan
<1> HIDE DEF q
<1>6. r \in Chan /\ r.refs = q.refs - 1 /\ r.state \in {q.state, "Disconnecting"}
      /\ r.available = q.available /\ r.received = q.received
  BY <1>1, <1>5, ReleasedOK
<1>7. /\ receiver[e][i].pc # "idle" => H \cap {"channel", "reader"} # {}
      /\ "channel" \in H => H \cap {"writer", "reader"} = {}
  BY <1>1, <1>2 DEF SlotOK
<1> HIDE DEF r, H
<1>8. q.state \in {"Connecting", "PeerConnecting"} => FALSE BY <1>1, <1>5 DEF SlotOK
<1>9. SlotOK(r, H, receiver[e][i]) BY <1>1, <1>4, <1>6, <1>7, <1>8 DEF SlotOK
<1> QED BY <1>2, <1>3, <1>4, <1>6, <1>9, HandleInv

(* A channel with handles is none that waits to be opened.                 *)
LEMMA RefsOK ==
    ASSUME NEW q \in Chan, NEW H \in SUBSET Forms, NEW v, SlotOK(q, H, v), H # {}, NEW n \in Nat
    PROVE  /\ q.state \notin {"Connecting", "PeerConnecting"} /\ q.refs > 0
           /\ [q EXCEPT !.refs = n] \in Chan /\ [q EXCEPT !.refs = n].refs = n
           /\ [q EXCEPT !.refs = n].state = q.state /\ [q EXCEPT !.refs = n].available = q.available
           /\ [q EXCEPT !.refs = n].received = q.received
<1>1. Cardinality(H) \in Nat /\ Cardinality(H) # 0 BY Counting
<1> QED BY <1>1 DEF SlotOK, Chan

LEMMA SplitInv == ASSUME IInv, NEW e \in Ends, NEW i \in Slots, Split(e, i) PROVE IInv'
<1> DEFINE q == chan[e][i]
           a == [q EXCEPT !.refs = q.refs + 2]
           r == Released(a)
           B == handles[e][i] \ {"channel"}
           H == B \cup {"writer", "reader"}
<1>1. q \in Chan /\ SlotOK(q, handles[e][i], receiver[e][i]) /\ handles[e][i] \in SUBSET Forms
  BY SlotType DEF IInv
<1>2. "channel" \in handles[e][i] /\ ~(acceptor[e].pc = "answer" /\ acceptor[e].slot = i)
      /\ receiver[e][i].pc = "idle"
  BY DEF Split, InHand, StillReceiver, Deaf
<1>3. chan' = [chan EXCEPT ![e][i] = r] /\ handles' = [handles EXCEPT ![e][i] = H]
      /\ UNCHANGED <<futures, wire, count, others>>
  BY DEF Split, SetChan
<1>4. B \in SUBSET Forms /\ Cardinality(B) = q.refs - 1
  <2>1. B \in SUBSET Forms BY <1>1
  <2> QED BY <1>1, <1>2, <2>1, Counting DEF SlotOK
<1>5. H \in SUBSET Forms /\ Cardinality(H) = q.refs + 1
  <2>1. "writer" \in Forms /\ "reader" \in Forms BY DEF Forms
  <2>2. "writer" \notin B /\ "reader" \notin B BY <1>1, <1>2 DEF SlotOK
  <2>3. B \cup {"writer"} \in SUBSET Forms /\ "reader" \notin B \cup {"writer"} BY <1>4, <2>1, <2>2
  <2>4. Cardinality(B \cup {"writer"}) = Cardinality(B) + 1 BY <1>4, <2>1, <2>2, Counting
  <2>5. Cardinality((B \cup {"writer"}) \cup {"reader"}) = Cardinality(B \cup {"writer"}) + 1
    BY <2>1, <2>3, Counting
  <2>6. H = (B \cup {"writer"}) \cup {"reader"} OBVIOUS
  <2>7. q.refs \in Nat BY <1>1 DEF Chan
  <2>8. H \in SUBSET Forms BY <2>1, <2>3, <2>6
  <2> HIDE DEF B, H, q
  <2> QED BY <1>4, <2>4, <2>5, <2>6, <2>7, <2>8
<1>6. q.refs + 2 \in Nat BY <1>1 DEF Chan
<1>7. a \in Chan /\ a.refs = q.refs + 2 /\ a.state = q.state /\ a.available = q.available
      /\ a.received = q.received /\ q.state \notin {"Connecting", "PeerConnecting"} /\ q.refs > 0
  BY <1>1, <1>2, <1>6, RefsOK
<1>8. "channel" \notin H OBVIOUS
<1> HIDE DEF H, a, q
<1>9. r \in Chan /\ r.refs = a.refs - 1 /\ r.state \in {a.state, "Disconnecting"}
      /\ r.available = a.available /\ r.received = a.received
  <2>1. a.refs > 0 BY <1>1, <1>7 DEF Chan
  <2> QED BY <1>7, <2>1, ReleasedOK
<1>10. r.refs = q.refs + 1 BY <1>1, <1>7, <1>9 DEF Chan
<1> HIDE DEF r
<1>11. SlotOK(r, H, receiver[e][i])
  BY <1>1, <1>2, <1>5, <1>7, <1>8, <1>9, <1>10 DEF SlotOK
<1> QED BY <1>2, <1>3, <1>5, <1>9, <1>11, HandleInv

LEMMA MergeInv == ASSUME IInv, NEW e \in Ends, NEW i \in Slots, Merge(e, i) PROVE IInv'
<1> DEFINE q == chan[e][i]
           a == [q EXCEPT !.refs = q.refs + 1]
           b == Released(a)
           r == Released(b)
           B == handles[e][i] \ {"writer", "reader"}
           H == B \cup {"channel"}
<1>1. q \in Chan /\ SlotOK(q, handles[e][i], receiver[e][i]) /\ handles[e][i] \in SUBSET Forms
  BY SlotType DEF IInv
<1>2. "writer" \in handles[e][i] /\ "reader" \in handles[e][i] /\ receiver[e][i].pc = "idle"
  BY DEF Merge, StillReceiver, Deaf
<1>3. ~(acceptor[e].pc = "answer" /\ acceptor[e].slot = i) BY <1>2 DEF IInv, Placed
<1>4. chan' = [chan EXCEPT ![e][i] = r] /\ handles' = [handles EXCEPT ![e][i] = H]
      /\ UNCHANGED <<futures, wire, count, others>>
  BY DEF Merge, SetChan
<1>5. B \in SUBSET Forms /\ q.refs >= 2 /\ Cardinality(B) = q.refs - 2 /\ Cardinality(B) \in Nat
  <2>1. handles[e][i] \ {"writer"} \in SUBSET Forms /\ "reader" \in handles[e][i] \ {"writer"}
    BY <1>1, <1>2
  <2>2. Cardinality(handles[e][i] \ {"writer"}) = Cardinality(handles[e][i]) - 1
    BY <1>1, <1>2, Counting
  <2>3. Cardinality((handles[e][i] \ {"writer"}) \ {"reader"}) = Cardinality(handles[e][i] \ {"writer"}) - 1
    BY <2>1, Counting
  <2>4. B = (handles[e][i] \ {"writer"}) \ {"reader"} OBVIOUS
  <2>5. q.refs = Cardinality(handles[e][i]) /\ q.refs \in Nat BY <1>1 DEF SlotOK, Chan
  <2>6. B \in SUBSET Forms BY <1>1
  <2>7. Cardinality(B) \in Nat BY <2>6, Counting
  <2> HIDE DEF B, q
  <2> QED BY <2>2, <2>3, <2>4, <2>5, <2>6, <2>7
<1>6. H \in SUBSET Forms /\ Cardinality(H) = q.refs - 1
  <2>1. "channel" \in Forms BY DEF Forms
  <2>2. "channel" \notin B BY <1>1, <1>2 DEF SlotOK
  <2>3. Cardinality(H) = Cardinality(B) + 1 BY <1>5, <2>1, <2>2, Counting
  <2>4. H \in SUBSET Forms BY <1>5, <2>1
  <2>5. q.refs \in Nat BY <1>1 DEF Chan
  <2> HIDE DEF B, H, q
  <2> QED BY <1>5, <2>3, <2>4, <2>5
<1>7. H \cap {"writer", "reader"} = {} OBVIOUS
<1>8. q.refs + 1 \in Nat BY <1>1 DEF Chan
<1>9. a \in Chan /\ a.refs = q.refs + 1 /\ a.state = q.state /\ a.available = q.available
      /\ a.received = q.received /\ q.state \notin {"Connecting", "PeerConnecting"} /\ q.refs > 0
  BY <1>1, <1>2, <1>8, RefsOK
<1> HIDE DEF a, q, H
<1>10. b \in Chan /\ b.refs = a.refs - 1 /\ b.state \in {a.state, "Disconnecting"}
       /\ b.available = a.available /\ b.received = a.received
  <2>1. a.refs > 0 BY <1>1, <1>9 DEF Chan
  <2> QED BY <1>9, <2>1, ReleasedOK
<1> HIDE DEF b
<1>11. b.refs = q.refs /\ b.refs > 0 BY <1>1, <1>5, <1>9, <1>10 DEF Chan
<1>12. r \in Chan /\ r.refs = b.refs - 1 /\ r.state \in {b.state, "Disconnecting"}
       /\ r.available = b.available /\ r.received = b.received
  BY <1>10, <1>11, ReleasedOK
<1> HIDE DEF r
<1>13. SlotOK(r, H, receiver[e][i])
  BY <1>1, <1>2, <1>6, <1>7, <1>9, <1>10, <1>11, <1>12 DEF SlotOK
<1> QED BY <1>3, <1>4, <1>6, <1>12, <1>13, HandleInv

LEMMA ChannelRefInv == ASSUME IInv, NEW e \in Ends, NEW i \in Slots, ChannelRef(e, i) PROVE IInv'
<1> DEFINE q == chan[e][i]
           r == [q EXCEPT !.refs = q.refs + 1]
           H == handles[e][i] \cup {"ref"}
<1>1. q \in Chan /\ SlotOK(q, handles[e][i], receiver[e][i]) /\ handles[e][i] \in SUBSET Forms
  BY SlotType DEF IInv
<1>2. handles[e][i] # {} /\ "ref" \notin handles[e][i]
      /\ ~(acceptor[e].pc = "answer" /\ acceptor[e].slot = i) /\ receiver[e][i].pc = "idle"
  BY DEF ChannelRef, InHand, StillReceiver, Deaf
<1>3. chan' = [chan EXCEPT ![e][i] = r] /\ handles' = [handles EXCEPT ![e][i] = H]
      /\ UNCHANGED <<futures, wire, count, others>>
  BY DEF ChannelRef, SetChan
<1>4. H \in SUBSET Forms /\ Cardinality(H) = q.refs + 1
  <2>1. "ref" \in Forms BY DEF Forms
  <2>2. Cardinality(H) = Cardinality(handles[e][i]) + 1 BY <1>1, <1>2, <2>1, Counting
  <2> QED BY <1>1, <2>1, <2>2 DEF SlotOK
<1>5. "channel" \in H => H \cap {"writer", "reader"} = {} BY <1>1 DEF SlotOK
<1>6. q.refs + 1 \in Nat BY <1>1 DEF Chan
<1>7. r \in Chan /\ r.refs = q.refs + 1 /\ r.state = q.state /\ r.available = q.available
      /\ r.received = q.received /\ q.state \notin {"Connecting", "PeerConnecting"}
  BY <1>1, <1>2, <1>6, RefsOK
<1> HIDE DEF r, q, H
<1>8. SlotOK(r, H, receiver[e][i]) BY <1>1, <1>2, <1>4, <1>5, <1>7 DEF SlotOK
<1> QED BY <1>2, <1>3, <1>4, <1>7, <1>8, HandleInv

(* A step of a slot that leaves its handles and the futures that hold it   *)
(* alone.                                                                  *)
LEMMA ChanInv ==
    ASSUME IInv, NEW e \in Ends, NEW i \in Slots, NEW r \in Chan,
           chan' = [chan EXCEPT ![e][i] = r], SlotOK(r, handles[e][i], receiver[e][i]),
           UNCHANGED <<handles, creator, acceptor, receiver, wire, others>>,
           Rest => Rest',
           \/ control' = control
           \/ control'[e] = NoRequest /\ \A f \in Ends : f # e => control'[f] = control[f]
    PROVE  IInv'
<1>1. Shape' /\ Table' BY ChanStep DEF IInv
<1>2. Placed'
  <2>1. \A f \in Ends : control'[f].pc # "idle" => control'[f].slot \in Slots
    BY DEF IInv, Placed, NoRequest
  <2> QED BY <2>1 DEF IInv, Placed
<1> QED BY <1>1, <1>2 DEF IInv

LEMMA DisconnectInv == ASSUME IInv, NEW e \in Ends, NEW i \in Slots, Disconnect(e, i) PROVE IInv'
<1> DEFINE r == [chan[e][i] EXCEPT !.state = "Disconnecting"]
<1>1. r \in Chan /\ SlotOK(r, handles[e][i], receiver[e][i]) BY SlotType, EndedOK DEF IInv
<1>2. chan' = [chan EXCEPT ![e][i] = r] BY DEF Disconnect
<1>3. UNCHANGED <<handles, futures, wire, count, others>> BY DEF Disconnect
<1>4. Rest => Rest' BY <1>3 DEF Rest, futures, others
<1> QED BY <1>1, <1>2, <1>3, <1>4, ChanInv DEF futures

-----------------------------------------------------------------------------
(* send. *)

LEMMA SenderType ==
    ASSUME IInv, NEW e \in Ends, NEW i \in Slots
    PROVE  /\ sender[e][i] \in [pc : {"idle", "ask", "frames"}, left : Nat, grant : Nat,
                               conn : Conns, peer : Cids]
           /\ \A s \in [pc : {"idle", "ask", "frames"}, left : Nat, grant : Nat, conn : Conns, peer : Cids] :
                 SetSender(e, i, s) =>
                    sender' \in [Ends -> [Slots -> [pc : {"idle", "ask", "frames"}, left : Nat, grant : Nat,
                                                   conn : Conns, peer : Cids]]]
           /\ Quiet \in [pc : {"idle", "ask", "frames"}, left : Nat, grant : Nat, conn : Conns, peer : Cids]
<1>1. Quiet \in [pc : {"idle", "ask", "frames"}, left : Nat, grant : Nat, conn : Conns, peer : Cids]
  BY CidNames DEF Quiet
<1>2. ASSUME NEW s \in [pc : {"idle", "ask", "frames"}, left : Nat, grant : Nat, conn : Conns, peer : Cids],
             SetSender(e, i, s)
      PROVE  sender' \in [Ends -> [Slots -> [pc : {"idle", "ask", "frames"}, left : Nat, grant : Nat,
                                            conn : Conns, peer : Cids]]]
  BY <1>2 DEF IInv, Rest, SetSender
<1>3. sender[e][i] \in [pc : {"idle", "ask", "frames"}, left : Nat, grant : Nat,
                        conn : Conns, peer : Cids]
  BY DEF IInv, Rest
<1> QED BY <1>1, <1>2, <1>3

LEMMA SendInv ==
    ASSUME IInv, NEW e \in Ends, NEW i \in Slots, NEW n \in 1 .. MaxFrames, Send(e, i, n)
    PROVE  IInv'
<1>1. UNCHANGED <<chan, handles, creator, acceptor, receiver, control, wire, linked, air>>
  BY DEF Send, others
<1>2. Shape' /\ Table' BY <1>1, SameSlots DEF IInv
<1>3. Placed' BY <1>1, StillPlaced DEF IInv
<1>4. [pc |-> "ask", left |-> n, grant |-> 0, conn |-> chan[e][i].conn, peer |-> chan[e][i].peer]
        \in [pc : {"idle", "ask", "frames"}, left : Nat, grant : Nat, conn : Conns, peer : Cids]
  BY SlotType DEF IInv, Chan
<1>5. count' \in [links : Conns, opens : Nat, sends : Nat, cancels : Nat]
  <2>1. count.sends + 1 \in Nat BY DEF IInv, Rest
  <2> QED BY <2>1 DEF IInv, Rest, Send
<1>6. Rest' BY <1>1, <1>4, <1>5, SenderType DEF IInv, Rest, Send
<1> QED BY <1>2, <1>3, <1>6 DEF IInv

LEMMA GrantedInv == ASSUME IInv, NEW e \in Ends, NEW i \in Slots, Granted(e, i) PROVE IInv'
<1> DEFINE n == sender[e][i].left
           q == chan[e][i]
           r == [q EXCEPT !.credits = q.credits - n]
<1>1. UNCHANGED <<handles, creator, acceptor, receiver, control, wire, count, linked, air>>
  BY DEF Granted, others
<1>2. n \in Nat BY SenderType
<1>3. Rest'
  <2>1. [sender[e][i] EXCEPT !.pc = "frames", !.grant = n]
          \in [pc : {"idle", "ask", "frames"}, left : Nat, grant : Nat, conn : Conns, peer : Cids]
    BY SenderType
  <2>2. SetSender(e, i, [sender[e][i] EXCEPT !.pc = "frames", !.grant = n]) \/ SetSender(e, i, Quiet)
    BY DEF Granted
  <2> HIDE DEF n
  <2> QED BY <1>1, <2>1, <2>2, SenderType DEF IInv, Rest
<1>4. CASE chan' = chan
  <2>1. Shape' /\ Table' BY <1>1, <1>4, SameSlots DEF IInv
  <2>2. Placed' BY <1>1, StillPlaced DEF IInv
  <2> QED BY <1>3, <2>1, <2>2 DEF IInv
<1>5. CASE n <= q.credits /\ SetChan(e, i, r)
  <2>1. chan' = [chan EXCEPT ![e][i] = r] BY <1>5 DEF SetChan
  <2>2. q \in Chan /\ SlotOK(q, handles[e][i], receiver[e][i]) BY SlotType DEF IInv
  <2> HIDE DEF q, n
  <2>3. q.credits - n \in Nat BY <1>2, <1>5, <2>2 DEF Chan
  <2>4. r \in Chan /\ r.state = q.state /\ r.refs = q.refs /\ r.available = q.available
        /\ r.received = q.received
    BY <2>2, <2>3 DEF Chan
  <2> HIDE DEF r
  <2>5. SlotOK(r, handles[e][i], receiver[e][i]) BY <2>2, <2>4 DEF SlotOK
  <2> QED BY <1>1, <1>3, <2>1, <2>4, <2>5, ChanInv DEF others
<1> QED BY <1>4, <1>5 DEF Granted

LEMMA FrameInv == ASSUME IInv, NEW e \in Ends, NEW i \in Slots, Frame(e, i) PROVE IInv'
<1> DEFINE s == sender[e][i]
           m == Msg("data", s.conn, s.peer, chan[e][i].id, 0)
<1>1. UNCHANGED <<chan, handles, creator, acceptor, receiver, control, count, linked, air>>
  BY DEF Frame, others
<1>2. Shape' /\ Table' BY <1>1, SameSlots DEF IInv
<1>3. Placed' BY <1>1, StillPlaced DEF IInv
<1>4. s \in [pc : {"idle", "ask", "frames"}, left : Nat, grant : Nat, conn : Conns, peer : Cids]
  BY SenderType
<1>5. m \in Message BY <1>4, SlotType DEF IInv, Chan, Msg, Message
<1>6. wire' \in [Ends -> Seq(Message)] BY <1>5, WriteType DEF IInv, Frame
<1>7. [s EXCEPT !.left = s.left - 1, !.grant = Minus(s.grant, 1)]
        \in [pc : {"idle", "ask", "frames"}, left : Nat, grant : Nat, conn : Conns, peer : Cids]
  <2>1. s.left - 1 \in Nat /\ Minus(s.grant, 1) \in Nat BY <1>4 DEF Frame, Minus
  <2> HIDE DEF s
  <2> QED BY <1>4, <2>1
<1>8. SetSender(e, i, [s EXCEPT !.left = s.left - 1, !.grant = Minus(s.grant, 1)]) BY DEF Frame
<1> HIDE DEF s
<1>9. Rest' BY <1>1, <1>6, <1>7, <1>8, SenderType DEF IInv, Rest
<1> QED BY <1>2, <1>3, <1>9 DEF IInv

LEMMA SendEndsInv == ASSUME IInv, NEW e \in Ends, NEW i \in Slots, SendEnds(e, i) PROVE IInv'
<1> DEFINE q == chan[e][i]
           n == sender[e][i].grant
           r == [q EXCEPT !.credits = q.credits + n]
<1>1. UNCHANGED <<handles, creator, acceptor, receiver, control, wire, linked, air>>
  BY DEF SendEnds, others
<1>2. count' \in [links : Conns, opens : Nat, sends : Nat, cancels : Nat]
  <2> DEFINE d == sender[e][i].pc = "frames"
                    /\ (sender[e][i].left = 0 \/ ~IsConnected(e, sender[e][i].conn))
  <2>1. d \in BOOLEAN OBVIOUS
  <2>2. Stops(d) BY DEF SendEnds
  <2> HIDE DEF d
  <2> QED BY <2>1, <2>2, CountType
<1>3. Rest' BY <1>1, <1>2, SenderType DEF IInv, Rest, SendEnds
<1>4. CASE chan' = chan
  <2>1. Shape' /\ Table' BY <1>1, <1>4, SameSlots DEF IInv
  <2>2. Placed' BY <1>1, StillPlaced DEF IInv
  <2> QED BY <1>3, <2>1, <2>2 DEF IInv
<1>5. CASE chan' = [chan EXCEPT ![e][i] = r]
  <2>1. q \in Chan /\ SlotOK(q, handles[e][i], receiver[e][i]) BY SlotType DEF IInv
  <2>2. n \in Nat BY SenderType
  <2> HIDE DEF q, n
  <2>3. q.credits + n \in Nat BY <2>1, <2>2 DEF Chan
  <2>4. r \in Chan /\ r.state = q.state /\ r.refs = q.refs /\ r.available = q.available
        /\ r.received = q.received
    BY <2>1, <2>3 DEF Chan
  <2> HIDE DEF r
  <2>5. SlotOK(r, handles[e][i], receiver[e][i]) BY <2>1, <2>4 DEF SlotOK
  <2> QED BY <1>1, <1>3, <1>5, <2>4, <2>5, ChanInv DEF others
<1>6. chan' = chan \/ chan' = [chan EXCEPT ![e][i] = r] BY DEF SendEnds
<1> QED BY <1>4, <1>5, <1>6

-----------------------------------------------------------------------------
(* receive. *)

(* A step of the future that receives on a slot.                           *)
LEMMA ReceiverInv ==
    ASSUME IInv, NEW e \in Ends, NEW i \in Slots, NEW r \in Chan, NEW v \in Listener,
           chan' = [chan EXCEPT ![e][i] = r], receiver' = [receiver EXCEPT ![e][i] = v],
           SlotOK(r, handles[e][i], v),
           acceptor[e].pc = "answer" /\ acceptor[e].slot = i => v.pc = "idle",
           UNCHANGED <<handles, creator, acceptor, control>>, Rest => Rest'
    PROVE  IInv'
<1>1. Shape' /\ Table' BY ReceiverStep DEF IInv
<1>2. receiver'[e][i] = v /\ \A f \in Ends, j \in Slots : f # e \/ j # i => receiver'[f][j] = receiver[f][j]
  <2>1. receiver \in [Ends -> [Slots -> Listener]] BY DEF IInv, Shape
  <2>2. receiver' = [receiver EXCEPT ![e][i] = v] OBVIOUS
  <2> QED BY ONLY <2>1, <2>2, e \in Ends, i \in Slots
<1>3. ASSUME NEW f \in Ends, acceptor'[f].pc = "answer"
      PROVE  /\ acceptor'[f].slot \in Slots
             /\ handles'[f][acceptor'[f].slot] = {"channel"}
             /\ receiver'[f][acceptor'[f].slot].pc = "idle"
  <2>1. acceptor[f].slot \in Slots /\ handles[f][acceptor[f].slot] = {"channel"}
        /\ receiver[f][acceptor[f].slot].pc = "idle"
    BY <1>3 DEF IInv, Placed
  <2>2. CASE f = e /\ acceptor[f].slot = i BY <1>2, <1>3, <2>1, <2>2
  <2>3. CASE ~(f = e /\ acceptor[f].slot = i) BY <1>2, <2>1, <2>3
  <2> QED BY <2>2, <2>3
<1>4. Placed' BY <1>3 DEF IInv, Placed
<1> QED BY <1>1, <1>4 DEF IInv

(* While a future receives on a slot, accept does not hold it.             *)
LEMMA Receiving ==
    ASSUME IInv, NEW e \in Ends, NEW i \in Slots, receiver[e][i].pc # "idle"
    PROVE  ~(acceptor[e].pc = "answer" /\ acceptor[e].slot = i)
BY DEF IInv, Placed

LEMMA DeafOK ==
    /\ Deaf \in Listener /\ Deaf.pc = "idle"
    /\ \A r, H, v : SlotOK(r, H, v) => SlotOK(r, H, Deaf)
BY DEF Deaf, Listener, SlotOK

LEMMA ReceiveInv == ASSUME IInv, NEW e \in Ends, NEW i \in Slots, Receive(e, i) PROVE IInv'
<1> DEFINE q == chan[e][i]
           r == [q EXCEPT !.inbound = q.inbound - 1]
<1>1. UNCHANGED <<handles, creator, acceptor, sender, control, wire, count, linked, air>>
  BY DEF Receive, others
<1>2. q \in Chan /\ SlotOK(q, handles[e][i], receiver[e][i]) /\ receiver[e][i] \in Listener
  BY SlotType DEF IInv
<1>3. handles[e][i] \cap {"channel", "reader"} # {} /\ q.inbound > 0
      /\ ~(acceptor[e].pc = "answer" /\ acceptor[e].slot = i)
  BY DEF Receive, InHand
<1>4. chan' = [chan EXCEPT ![e][i] = r] BY DEF Receive
<1>5. receiver' = receiver \/ receiver' = [receiver EXCEPT ![e][i] = [pc |-> "tell", n |-> q.received]]
  BY DEF Receive, ToGrant, SetReceiver
<1> HIDE DEF q
<1>6. q.inbound - 1 \in Nat /\ q.received \in Nat BY <1>2, <1>3 DEF Chan
<1>7. r \in Chan /\ r.state = q.state /\ r.refs = q.refs /\ r.available = q.available
      /\ r.received = q.received
  BY <1>2, <1>6 DEF Chan
<1> HIDE DEF r
<1>8. Rest => Rest' BY <1>1 DEF Rest
<1>9. CASE receiver' = receiver
  <2>1. SlotOK(r, handles[e][i], receiver[e][i]) BY <1>2, <1>7 DEF SlotOK
  <2> QED BY <1>1, <1>4, <1>7, <1>8, <1>9, <2>1, ChanInv DEF others
<1>10. CASE receiver' = [receiver EXCEPT ![e][i] = [pc |-> "tell", n |-> q.received]]
  <2> DEFINE v == [pc |-> "tell", n |-> q.received]
  <2>1. v \in Listener /\ v.n = q.received BY <1>6 DEF Listener
  <2>2. receiver' = [receiver EXCEPT ![e][i] = v] BY <1>10
  <2> HIDE DEF v
  <2>3. v.n <= r.received BY <1>6, <1>7, <2>1
  <2>4. SlotOK(r, handles[e][i], v) BY <1>2, <1>3, <1>7, <2>3 DEF SlotOK
  <2> QED BY <1>1, <1>3, <1>4, <1>7, <1>8, <2>1, <2>2, <2>4, ReceiverInv
<1> QED BY <1>5, <1>9, <1>10

LEMMA TellInv == ASSUME IInv, NEW e \in Ends, NEW i \in Slots, Tell(e, i) PROVE IInv'
<1> DEFINE q == chan[e][i]
           m == Msg("ind", q.conn, i, q.id, receiver[e][i].n)
           w == [receiver[e][i] EXCEPT !.pc = "told"]
<1>1. UNCHANGED <<chan, handles, creator, acceptor, sender, control, count, linked, air>>
  BY DEF Tell, others
<1>2. q \in Chan /\ SlotOK(q, handles[e][i], receiver[e][i]) /\ receiver[e][i] \in Listener
      /\ chan' = [chan EXCEPT ![e][i] = q]
  BY <1>1, SlotType DEF IInv
<1>3. m \in Message BY <1>2, CidNames DEF Chan, Listener, Msg, Message
<1>4. wire' \in [Ends -> Seq(Message)]
  <2>1. CASE wire' = wire BY <2>1 DEF IInv, Rest
  <2>2. CASE Write(e, m) BY <1>3, <2>2, WriteType DEF IInv
  <2> QED BY <2>1, <2>2 DEF Tell
<1>5. Rest => Rest' BY <1>1, <1>4 DEF Rest
<1>6. receiver[e][i].pc # "idle" BY DEF Tell
<1>7. receiver' = [receiver EXCEPT ![e][i] = w] \/ receiver' = [receiver EXCEPT ![e][i] = Deaf]
  BY DEF Tell, SetReceiver
<1>8. w \in Listener /\ w.n = receiver[e][i].n BY <1>2 DEF Listener
<1> HIDE DEF w, q
<1>9. SlotOK(q, handles[e][i], w) BY <1>2, <1>6, <1>8 DEF SlotOK
<1>10. SlotOK(q, handles[e][i], Deaf) BY <1>2, DeafOK
<1>11. ~(acceptor[e].pc = "answer" /\ acceptor[e].slot = i) BY <1>6, Receiving
<1>12. CASE receiver' = [receiver EXCEPT ![e][i] = w]
  BY <1>1, <1>2, <1>5, <1>8, <1>9, <1>11, <1>12, ReceiverInv
<1>13. CASE receiver' = [receiver EXCEPT ![e][i] = Deaf]
  BY <1>1, <1>2, <1>5, <1>10, <1>11, <1>13, DeafOK, ReceiverInv
<1> QED BY <1>7, <1>12, <1>13

LEMMA ConfirmGrantInv == ASSUME IInv, NEW e \in Ends, NEW i \in Slots, ConfirmGrant(e, i) PROVE IInv'
<1> DEFINE q == chan[e][i]
           n == receiver[e][i].n
           r == [q EXCEPT !.received = Minus(q.received, n), !.available = q.available + n]
<1>1. UNCHANGED <<handles, creator, acceptor, sender, control, wire, count, linked, air>>
  BY DEF ConfirmGrant, others
<1>2. q \in Chan /\ SlotOK(q, handles[e][i], receiver[e][i]) /\ receiver[e][i] \in Listener
      /\ (chan' = chan => chan' = [chan EXCEPT ![e][i] = q])
  BY SlotType DEF IInv
<1>3. receiver' = [receiver EXCEPT ![e][i] = Deaf] BY DEF ConfirmGrant, SetReceiver
<1>4. receiver[e][i].pc # "idle" BY DEF ConfirmGrant
<1>5. Rest => Rest' BY <1>1 DEF Rest
<1>6. ~(acceptor[e].pc = "answer" /\ acceptor[e].slot = i) BY <1>4, Receiving
<1>7. CASE q.state # "Connected"
  <2>1. chan' = [chan EXCEPT ![e][i] = q] BY <1>2, <1>7 DEF ConfirmGrant
  <2> QED BY <1>1, <1>2, <1>3, <1>5, <1>6, <2>1, DeafOK, ReceiverInv
<1>8. CASE q.state = "Connected"
  <2>1. chan' = [chan EXCEPT ![e][i] = r] BY <1>8 DEF ConfirmGrant
  <2>2. n \in Nat /\ n <= q.received BY <1>2, <1>4, <1>8 DEF SlotOK, Listener
  <2> HIDE DEF q, n
  <2>3. Minus(q.received, n) = q.received - n /\ Minus(q.received, n) \in Nat
        /\ q.available + n \in Nat /\ q.received \in Nat /\ q.available \in Nat
    BY <1>2, <2>2 DEF Chan, Minus
  <2>4. r \in Chan BY <1>2, <2>3 DEF Chan
  <2>5. r.state = q.state /\ r.refs = q.refs /\ r.available = q.available + n
        /\ r.received = q.received - n
    BY <1>2, <2>3 DEF Chan
  <2> HIDE DEF r
  <2>6. r.available + r.received = q.available + q.received BY <2>2, <2>3, <2>5
  <2>7. SlotOK(r, handles[e][i], Deaf) BY <1>2, <1>8, <2>5, <2>6, DeafOK DEF SlotOK
  <2> QED BY <1>1, <1>3, <1>5, <1>6, <2>1, <2>4, <2>7, DeafOK, ReceiverInv
<1> QED BY <1>7, <1>8

LEMMA CancelReceiveInv ==
    ASSUME IInv, NEW e \in Ends, NEW i \in Slots, CancelReceive(e, i) PROVE IInv'
<1> DEFINE q == chan[e][i]
           r == [q EXCEPT !.skew = q.skew + receiver[e][i].n]
<1>1. UNCHANGED <<handles, creator, acceptor, sender, control, wire, linked, air>>
  BY DEF CancelReceive, others
<1>2. q \in Chan /\ SlotOK(q, handles[e][i], receiver[e][i]) /\ receiver[e][i] \in Listener
      /\ (chan' = chan => chan' = [chan EXCEPT ![e][i] = q])
  BY SlotType DEF IInv
<1>3. receiver' = [receiver EXCEPT ![e][i] = Deaf] BY DEF CancelReceive, SetReceiver
<1>4. receiver[e][i].pc # "idle" BY DEF CancelReceive
<1>5. count' \in [links : Conns, opens : Nat, sends : Nat, cancels : Nat]
  BY CountType DEF CancelReceive
<1>6. Rest => Rest' BY <1>1, <1>5 DEF Rest
<1>7. ~(acceptor[e].pc = "answer" /\ acceptor[e].slot = i) BY <1>4, Receiving
<1>8. SlotOK(q, handles[e][i], Deaf) BY <1>2, DeafOK
<1>9. CASE chan' = chan
  BY <1>1, <1>2, <1>3, <1>6, <1>7, <1>8, <1>9, DeafOK, ReceiverInv
<1>10. CASE chan' = [chan EXCEPT ![e][i] = r]
  <2> DEFINE z == q.skew + receiver[e][i].n
  <2>1. z \in Int BY <1>2 DEF Chan, Listener
  <2>2. r = [q EXCEPT !.skew = z] OBVIOUS
  <2> HIDE DEF z, q
  <2>3. r \in Chan /\ r.state = q.state /\ r.refs = q.refs /\ r.available = q.available
        /\ r.received = q.received
    BY <1>2, <2>1, <2>2 DEF Chan
  <2> HIDE DEF r
  <2>4. SlotOK(r, handles[e][i], Deaf) BY <1>8, <2>3 DEF SlotOK
  <2> QED BY <1>1, <1>3, <1>6, <1>7, <1>10, <2>3, <2>4, DeafOK, ReceiverInv
<1>11. chan' = chan \/ chan' = [chan EXCEPT ![e][i] = r] BY DEF CancelReceive
<1> QED BY <1>9, <1>10, <1>11

-----------------------------------------------------------------------------
(* The control runner. *)

(* Where the runner does not touch a channel.                              *)
LEMMA ControlOnly ==
    ASSUME IInv, NEW e \in Ends, UNCHANGED <<chan, handles, creator, acceptor, sender, receiver, count, others>>,
           wire' \in [Ends -> Seq(Message)],
           NEW c \in [pc : {"idle", "send", "confirm"}, slot : Cids, kind : {"dreq", "drsp"},
                     conn : Conns, cid : Cids],
           c.slot \in Slots, control' = [control EXCEPT ![e] = c]
    PROVE  IInv'
<1>1. Shape' /\ Table' BY SameSlots DEF IInv
<1>2. Rest' BY DEF IInv, Rest, others
<1>3. control'[e] = c /\ \A f \in Ends : f # e => control'[f] = control[f] BY DEF IInv, Rest
<1>4. \A f \in Ends : control'[f].pc # "idle" => control'[f].slot \in Slots
  BY <1>3 DEF IInv, Placed
<1>5. Placed' BY <1>4 DEF IInv, Placed
<1> QED BY <1>1, <1>2, <1>5 DEF IInv

LEMMA TakeRequestInv == ASSUME IInv, NEW e \in Ends, TakeRequest(e) PROVE IInv'
<1> DEFINE i == First(Ending(e))
           peers == chan[e][i].state = "PeerDisconnecting"
           kind == IF peers THEN "drsp" ELSE "dreq"
           cid == IF peers THEN chan[e][i].cid ELSE chan[e][i].peer
           c == [pc |-> "send", slot |-> i, conn |-> chan[e][i].conn, kind |-> kind, cid |-> cid]
<1>1. i \in Slots BY FirstOf DEF TakeRequest, Ending
<1>2. i \in Cids /\ chan[e][i].conn \in Conns /\ cid \in Cids /\ kind \in {"dreq", "drsp"}
  BY <1>1, CidNames, SlotType DEF IInv, Chan
<1>3. UNCHANGED <<chan, handles, creator, acceptor, sender, receiver, wire, count, others>>
  BY DEF TakeRequest
<1>4. control' = [control EXCEPT ![e] = c] BY DEF TakeRequest
<1>5. wire' \in [Ends -> Seq(Message)] BY <1>3 DEF IInv, Rest
<1> HIDE DEF i, cid, kind
<1>6. c \in [pc : {"idle", "send", "confirm"}, slot : Cids, kind : {"dreq", "drsp"},
             conn : Conns, cid : Cids] /\ c.slot \in Slots
  BY <1>1, <1>2
<1> HIDE DEF c
<1> QED BY <1>3, <1>4, <1>5, <1>6, ControlOnly

LEMMA SendRequestInv == ASSUME IInv, NEW e \in Ends, SendRequest(e) PROVE IInv'
<1> DEFINE k == control[e]
           m == Msg(k.kind, k.conn, k.cid, 0, 0)
           c == [k EXCEPT !.pc = "confirm"]
<1>1. k \in [pc : {"idle", "send", "confirm"}, slot : Cids, kind : {"dreq", "drsp"},
             conn : Conns, cid : Cids] /\ k.slot \in Slots
  BY DEF IInv, Rest, Placed, SendRequest
<1>2. UNCHANGED <<chan, handles, creator, acceptor, sender, receiver, count, others>>
  BY DEF SendRequest
<1>3. wire' \in [Ends -> Seq(Message)]
  <2>1. m \in Message BY <1>1 DEF Msg, Message
  <2>2. CASE wire' = wire BY <2>2 DEF IInv, Rest
  <2>3. CASE Write(e, m) BY <2>1, <2>3, WriteType DEF IInv
  <2> QED BY <2>2, <2>3 DEF SendRequest
<1>4. control' = [control EXCEPT ![e] = c] BY DEF SendRequest
<1> HIDE DEF k
<1>5. c \in [pc : {"idle", "send", "confirm"}, slot : Cids, kind : {"dreq", "drsp"},
             conn : Conns, cid : Cids] /\ c.slot \in Slots
  BY <1>1
<1> HIDE DEF c
<1> QED BY <1>2, <1>3, <1>4, <1>5, ControlOnly

LEMMA ConfirmRequestInv == ASSUME IInv, NEW e \in Ends, ConfirmRequest(e) PROVE IInv'
<1> DEFINE i == control[e].slot
           r == [chan[e][i] EXCEPT !.state = "Disconnected"]
<1>1. i \in Slots BY DEF IInv, Placed, ConfirmRequest
<1>2. r \in Chan /\ SlotOK(r, handles[e][i], receiver[e][i]) BY <1>1, SlotType, EndedOK DEF IInv
<1>3. chan' = [chan EXCEPT ![e][i] = r] BY DEF ConfirmRequest
<1>4. UNCHANGED <<handles, creator, acceptor, sender, receiver, wire, count, others>>
      /\ control' = [control EXCEPT ![e] = NoRequest]
  BY DEF ConfirmRequest
<1>5. NoRequest \in [pc : {"idle", "send", "confirm"}, slot : Cids, kind : {"dreq", "drsp"},
                     conn : Conns, cid : Cids]
  BY CidNames DEF NoRequest
<1>6. Rest => Rest' BY <1>4, <1>5 DEF Rest, others
<1>7. control'[e] = NoRequest /\ \A f \in Ends : f # e => control'[f] = control[f]
  BY <1>4, <1>5 DEF IInv, Rest
<1> QED BY <1>1, <1>2, <1>3, <1>4, <1>6, <1>7, ChanInv

-----------------------------------------------------------------------------
LEMMA StepInv == IInv /\ [Next]_vars => IInv'
<1> SUFFICES ASSUME IInv, [Next]_vars PROVE IInv' OBVIOUS
<1>1. CASE LinkUp BY <1>1, LinkUpInv
<1>2. CASE LinkDown BY <1>2, LinkDownInv
<1>3. ASSUME NEW e \in Ends, Rx(e) PROVE IInv'
  BY <1>3, RxUpInv, RxDownInv, RxRequestInv, RxResponseInv, RxIndicationInv, RxDataInv,
     RxDisconnectRequestInv, RxDisconnectResponseInv
  DEF Rx
<1>4. ASSUME NEW e \in Ends, Open(e) PROVE IInv'
  BY <1>4, CreateInv, CreateAskInv, CreatedInv, CancelCreateInv, AcceptInv, AnswerInv, AcceptFailsInv
  DEF Open
<1>5. ASSUME NEW e \in Ends, NEW i \in Slots, Handle(e, i) PROVE IInv'
  BY <1>5, DropInv, SplitInv, MergeInv, ChannelRefInv, DisconnectInv DEF Handle
<1>6. ASSUME NEW e \in Ends, NEW i \in Slots, Data(e, i) PROVE IInv'
  BY <1>6, SendInv, GrantedInv, FrameInv, SendEndsInv, ReceiveInv, TellInv, ConfirmGrantInv,
     CancelReceiveInv
  DEF Data
<1>7. ASSUME NEW e \in Ends, Control(e) PROVE IInv'
  BY <1>7, TakeRequestInv, SendRequestInv, ConfirmRequestInv DEF Control
<1>8. CASE UNCHANGED vars
  <2>1. Shape' /\ Table' BY <1>8, SameSlots DEF IInv, vars, futures
  <2>2. Rest' BY <1>8 DEF IInv, Rest, vars, futures
  <2>3. Placed' BY <1>8, StillPlaced DEF IInv, vars, futures
  <2> QED BY <2>1, <2>2, <2>3 DEF IInv
<1> QED BY <1>1, <1>2, <1>3, <1>4, <1>5, <1>6, <1>7, <1>8 DEF Next

LEMMA Always == Spec => []IInv
BY InitInv, StepInv, PTL DEF Spec

(* Type correctness of both channel managers, their futures and the link.  *)
THEOREM TypeCorrect == Spec => []TypeOK
<1>1. IInv => TypeOK BY DEF IInv, Shape, Rest, TypeOK, Listener, Creator
<1> QED BY <1>1, Always, PTL

(* inc_ref and dec_ref (Clone, Drop, split, merge of l2cap.rs, alloc,      *)
(* accept and poll_created of channel_manager.rs) keep the refcount of     *)
(* every slot the number of handles of it.                                 *)
THEOREM RefsExact == Spec => []RefsAreHandles
<1>1. IInv => RefsAreHandles BY DEF IInv, Table, SlotOK, RefsAreHandles
<1> QED BY <1>1, Always, PTL

(* CreditFlowControl: under every policy confirm_received, process and     *)
(* confirm_granted neither make nor lose a credit of an open channel.      *)
THEOREM GrantsExact == Spec => []GrantsConserved
<1>1. IInv => GrantsConserved BY DEF IInv, Table, SlotOK, GrantsConserved
<1> QED BY <1>1, Always, PTL

-----------------------------------------------------------------------------
(* The credits in a queue: what one more message adds, and the first takes. *)

Share(m, k, id) == IF m.kind = k /\ m.id = id THEN Worth(m) ELSE 0

LEMMA ShareType ==
    ASSUME NEW m \in Message, NEW k, NEW id
    PROVE  Worth(m) \in Nat /\ Share(m, k, id) \in Nat
BY DEF Message, Worth, Share

LEMMA Segment ==
    ASSUME NEW n \in Nat, NEW x
    PROVE  IsFiniteSet({x} \X (1 .. n)) /\ Cardinality({x} \X (1 .. n)) = n
<1>1. 1 \in Int /\ n \in Int OBVIOUS
<1>2. IsFiniteSet(1 .. n) /\ Cardinality(1 .. n) = IF 1 > n THEN 0 ELSE n - 1 + 1
  BY <1>1, FS_Interval
<1>3. IsFiniteSet(1 .. n) /\ Cardinality(1 .. n) = n BY <1>2
<1>4. IsFiniteSet({x}) /\ Cardinality({x}) = 1 BY FS_Singleton
<1>5. IsFiniteSet({x} \X (1 .. n)) /\ Cardinality({x} \X (1 .. n)) = 1 * n
  BY <1>3, <1>4, FS_Product
<1> QED BY <1>5

LEMMA CreditsMember ==
    ASSUME NEW q \in Seq(Message), NEW k, NEW id, NEW t
    PROVE  t \in CreditsIn(q, k, id) <=>
             \E x \in 1 .. Len(q) : \E y \in 1 .. Share(q[x], k, id) : t = <<x, y>>
<1> DEFINE P == {y \in DOMAIN q : q[y].kind = k /\ q[y].id = id}
<1>0. DOMAIN q = 1 .. Len(q) /\ \A x \in 1 .. Len(q) : q[x] \in Message OBVIOUS
<1>1. ASSUME t \in CreditsIn(q, k, id)
      PROVE  \E x \in 1 .. Len(q) : \E y \in 1 .. Share(q[x], k, id) : t = <<x, y>>
  <2>1. PICK x \in P : t \in {x} \X (1 .. Worth(q[x])) BY <1>1 DEF CreditsIn
  <2>2. x \in 1 .. Len(q) /\ Share(q[x], k, id) = Worth(q[x]) BY <1>0 DEF Share
  <2>3. \E y \in 1 .. Worth(q[x]) : t = <<x, y>> BY <2>1
  <2> QED BY <2>2, <2>3
<1>2. ASSUME NEW x \in 1 .. Len(q), NEW y \in 1 .. Share(q[x], k, id), t = <<x, y>>
      PROVE  t \in CreditsIn(q, k, id)
  <2>1. x \in P /\ y \in 1 .. Worth(q[x]) BY <1>0 DEF Share
  <2>2. t \in {x} \X (1 .. Worth(q[x])) BY <1>2, <2>1
  <2> QED BY <2>1, <2>2 DEF CreditsIn
<1> QED BY <1>1, <1>2

LEMMA CreditsFinite ==
    ASSUME NEW q \in Seq(Message), NEW k, NEW id
    PROVE  IsFiniteSet(CreditsIn(q, k, id)) /\ Cardinality(CreditsIn(q, k, id)) \in Nat
<1> DEFINE P == {y \in DOMAIN q : q[y].kind = k /\ q[y].id = id}
           C == {{x} \X (1 .. Worth(q[x])) : x \in P}
<1>1. IsFiniteSet(1 .. Len(q)) BY FS_Interval
<1>2. P \subseteq 1 .. Len(q) OBVIOUS
<1>3. IsFiniteSet(P) BY <1>1, <1>2, FS_Subset
<1> DEFINE f == [x \in P |-> {x} \X (1 .. Worth(q[x]))]
<1>4. C = {f[x] : x \in P} OBVIOUS
<1>5. IsFiniteSet(C)
  <2> HIDE DEF P, C
  <2>1. f \in Surjection(P, C)
    <3>1. f \in [P -> C] BY <1>4
    <3>2. \A c \in C : \E x \in P : f[x] = c BY <1>4
    <3> HIDE DEF f
    <3> QED BY <3>1, <3>2 DEF Surjection
  <2> HIDE DEF f
  <2> QED BY <1>3, <2>1, FS_Surjection
<1>6. \A T \in C : IsFiniteSet(T)
  <2> SUFFICES ASSUME NEW x \in P PROVE IsFiniteSet({x} \X (1 .. Worth(q[x]))) OBVIOUS
  <2>1. q[x] \in Message OBVIOUS
  <2>2. Worth(q[x]) \in Nat BY <2>1, ShareType
  <2> QED BY <2>2, Segment
<1>7. IsFiniteSet(UNION C)
  <2> HIDE DEF C
  <2> QED BY <1>5, <1>6, FS_UNION
<1>8. CreditsIn(q, k, id) = UNION C BY DEF CreditsIn
<1> QED BY <1>7, <1>8, FS_CardinalityType

LEMMA CreditsAppend ==
    ASSUME NEW q \in Seq(Message), NEW m \in Message, NEW k, NEW id
    PROVE  Cardinality(CreditsIn(Append(q, m), k, id)) = Cardinality(CreditsIn(q, k, id)) + Share(m, k, id)
<1> DEFINE New == {Len(q) + 1} \X (1 .. Share(m, k, id))
           Old == CreditsIn(q, k, id)
           All == CreditsIn(Append(q, m), k, id)
<1>0. Len(q) \in Nat /\ Len(Append(q, m)) = Len(q) + 1 /\ Append(q, m) \in Seq(Message)
      /\ (\A i \in 1 .. Len(q) : Append(q, m)[i] = q[i]) /\ Append(q, m)[Len(q) + 1] = m
  OBVIOUS
<1>1. ASSUME NEW t \in All PROVE t \in Old \cup New
  <2> DEFINE r == Append(q, m)
  <2> HIDE DEF r
  <2>a. r \in Seq(Message) /\ t \in CreditsIn(r, k, id) BY <1>0, <1>1 DEF r
  <2>b0. PICK x \in 1 .. Len(r) : \E y \in 1 .. Share(r[x], k, id) : t = <<x, y>>
    BY <2>a, CreditsMember
  <2>b. PICK y \in 1 .. Share(r[x], k, id) : t = <<x, y>> BY <2>b0
  <2>1. x \in 1 .. Len(q) + 1 /\ y \in 1 .. Share(Append(q, m)[x], k, id) /\ t = <<x, y>>
    BY <1>0, <2>b DEF r
  <2>2. CASE x = Len(q) + 1 BY <1>0, <2>1, <2>2
  <2>3. CASE x # Len(q) + 1
    <3>1. x \in 1 .. Len(q) BY <1>0, <2>1, <2>3
    <3> QED BY <1>0, <2>1, <3>1, CreditsMember
  <2> QED BY <2>2, <2>3
<1>2. ASSUME NEW t \in Old PROVE t \in All
  <2>10. PICK x \in 1 .. Len(q) : \E y \in 1 .. Share(q[x], k, id) : t = <<x, y>>
    BY <1>2, CreditsMember
  <2>1. PICK y \in 1 .. Share(q[x], k, id) : t = <<x, y>> BY <2>10
  <2>2. x \in 1 .. Len(Append(q, m)) /\ Append(q, m)[x] = q[x] BY <1>0
  <2> QED BY <1>0, <2>1, <2>2, CreditsMember
<1>3. ASSUME NEW t \in New PROVE t \in All
  <2>1. PICK y \in 1 .. Share(m, k, id) : t = <<Len(q) + 1, y>> OBVIOUS
  <2>2. Len(q) + 1 \in 1 .. Len(Append(q, m)) /\ Append(q, m)[Len(q) + 1] = m BY <1>0
  <2> QED BY <1>0, <2>1, <2>2, CreditsMember
<1>4. All = Old \cup New BY <1>1, <1>2, <1>3
<1>5. Old \cap New = {}
  <2>1. ASSUME NEW t \in Old, t \in New PROVE FALSE
    <3>0. PICK x \in 1 .. Len(q) : \E y \in 1 .. Share(q[x], k, id) : t = <<x, y>>
      BY <2>1, CreditsMember
    <3>1. PICK y \in 1 .. Share(q[x], k, id) : t = <<x, y>> BY <3>0
    <3>2. x = Len(q) + 1 BY <2>1, <3>1
    <3> QED BY <1>0, <3>2
  <2> QED BY <2>1
<1>6. IsFiniteSet(Old) /\ Cardinality(Old) \in Nat BY CreditsFinite
<1>7. Share(m, k, id) \in Nat BY ShareType
<1>8. IsFiniteSet(New) /\ Cardinality(New) = Share(m, k, id) BY <1>7, Segment
<1> HIDE DEF Old, New, All
<1>9. Cardinality(Old \cup New) = Cardinality(Old) + Cardinality(New) - Cardinality(Old \cap New)
  BY <1>6, <1>8, FS_Union
<1>10. Cardinality(Old \cap New) = 0 BY <1>5, FS_EmptySet
<1>11. Cardinality(All) = Cardinality(Old) + Share(m, k, id) BY <1>4, <1>6, <1>7, <1>8, <1>9, <1>10
<1> QED BY <1>11 DEF All, Old

LEMMA CreditsTail ==
    ASSUME NEW q \in Seq(Message), q # <<>>, NEW k, NEW id
    PROVE  Cardinality(CreditsIn(q, k, id))
             = Cardinality(CreditsIn(Tail(q), k, id)) + Share(Head(q), k, id)
<1> DEFINE r == Tail(q)
           A == CreditsIn(r, k, id)
           F == {1} \X (1 .. Share(Head(q), k, id))
           B == CreditsIn(q, k, id) \ F
           g == [t \in A |-> <<t[1] + 1, t[2]>>]
<1>0. Len(q) \in Nat /\ Len(q) > 0 /\ Len(Tail(q)) = Len(q) - 1
      /\ Head(q) = q[1] /\ Head(q) \in Message /\ Tail(q) \in Seq(Message)
      /\ \A i \in 1 .. Len(Tail(q)) : Tail(q)[i] = q[i + 1]
  OBVIOUS
<1>a. Len(r) = Len(q) - 1 /\ r \in Seq(Message) /\ \A i \in 1 .. Len(r) : r[i] = q[i + 1] BY <1>0
<1> HIDE DEF r
<1>1. \A t \in A : <<t[1] + 1, t[2]>> \in B
  <2> SUFFICES ASSUME NEW t \in A PROVE <<t[1] + 1, t[2]>> \in B OBVIOUS
  <2>10. PICK x \in 1 .. Len(r) : \E y \in 1 .. Share(r[x], k, id) : t = <<x, y>>
    BY <1>0, <1>a, CreditsMember
  <2>1. PICK y \in 1 .. Share(r[x], k, id) : t = <<x, y>> BY <2>10
  <2>2. x + 1 \in 1 .. Len(q) /\ q[x + 1] = r[x] /\ x + 1 # 1 BY <1>0, <1>a
  <2>3. <<t[1] + 1, t[2]>> = <<x + 1, y>> BY <2>1
  <2>4. <<x + 1, y>> \in CreditsIn(q, k, id)
    <3>1. y \in 1 .. Share(q[x + 1], k, id) BY <2>2
    <3> QED BY <2>2, <3>1, CreditsMember
  <2>5. <<x + 1, y>> \notin F BY <2>2
  <2> QED BY <2>3, <2>4, <2>5
<1>2. \A u \in B : \E t \in A : <<t[1] + 1, t[2]>> = u
  <2> SUFFICES ASSUME NEW u \in B PROVE \E t \in A : <<t[1] + 1, t[2]>> = u OBVIOUS
  <2>10. PICK x \in 1 .. Len(q) : \E y \in 1 .. Share(q[x], k, id) : u = <<x, y>>
    BY CreditsMember
  <2>1. PICK y \in 1 .. Share(q[x], k, id) : u = <<x, y>> BY <2>10
  <2>2. x # 1 BY <1>0, <1>a, <2>1
  <2>3. x - 1 \in 1 .. Len(r) /\ (x - 1) + 1 = x BY <1>0, <1>a, <2>2
  <2>4. r[x - 1] = q[x] BY <1>0, <1>a, <2>3
  <2>5. <<x - 1, y>> \in A
    <3>1. y \in 1 .. Share(r[x - 1], k, id) BY <2>4
    <3> QED BY <1>0, <1>a, <2>3, <3>1, CreditsMember
  <2>6. <<<<x - 1, y>>[1] + 1, <<x - 1, y>>[2]>> = u BY <2>1, <2>3
  <2> QED BY <2>5, <2>6
<1>3. \A t, u \in A : <<t[1] + 1, t[2]>> = <<u[1] + 1, u[2]>> => t = u
  <2> SUFFICES ASSUME NEW t \in A, NEW u \in A, <<t[1] + 1, t[2]>> = <<u[1] + 1, u[2]>> PROVE t = u
    OBVIOUS
  <2>10. PICK x \in 1 .. Len(r) : \E y \in 1 .. Share(r[x], k, id) : t = <<x, y>>
    BY <1>0, <1>a, CreditsMember
  <2>1. PICK y \in 1 .. Share(r[x], k, id) : t = <<x, y>> BY <2>10
  <2>20. PICK v \in 1 .. Len(r) : \E w \in 1 .. Share(r[v], k, id) : u = <<v, w>>
    BY <1>0, <1>a, CreditsMember
  <2>2. PICK w \in 1 .. Share(r[v], k, id) : u = <<v, w>> BY <2>20
  <2>3. x + 1 = v + 1 /\ y = w BY <2>1, <2>2
  <2> QED BY <2>1, <2>2, <2>3
<1>4. g \in Bijection(A, B)
  <2>1. g \in [A -> B] BY <1>1
  <2>2. \A t \in A : g[t] = <<t[1] + 1, t[2]>> OBVIOUS
  <2> HIDE DEF A, B, g
  <2>3. \A u \in B : \E t \in A : g[t] = u BY <1>2, <2>2
  <2>4. \A t, u \in A : g[t] = g[u] => t = u
    <3> SUFFICES ASSUME NEW t \in A, NEW u \in A, g[t] = g[u] PROVE t = u OBVIOUS
    <3>1. <<t[1] + 1, t[2]>> = <<u[1] + 1, u[2]>> BY <2>2
    <3> QED BY <1>3, <3>1
  <2> QED BY <2>1, <2>3, <2>4 DEF Bijection, Injection, Surjection, IsInjective
<1>5. IsFiniteSet(A) /\ Cardinality(A) \in Nat BY <1>0, <1>a, CreditsFinite
<1>6. IsFiniteSet(B) /\ Cardinality(B) = Cardinality(A)
  <2> HIDE DEF A, B, g
  <2> QED BY <1>4, <1>5, FS_Bijection DEF ExistsBijection
<1>7. F \subseteq CreditsIn(q, k, id)
  <2> SUFFICES ASSUME NEW y \in 1 .. Share(Head(q), k, id) PROVE <<1, y>> \in CreditsIn(q, k, id) OBVIOUS
  <2>1. 1 \in 1 .. Len(q) /\ y \in 1 .. Share(q[1], k, id) BY <1>0, <1>a
  <2> QED BY <2>1, CreditsMember
<1>8. Share(Head(q), k, id) \in Nat BY <1>0, <1>a, ShareType
<1>9. IsFiniteSet(F) /\ Cardinality(F) = Share(Head(q), k, id) BY <1>8, Segment
<1>10. CreditsIn(q, k, id) = B \cup F /\ B \cap F = {} BY <1>7
<1> HIDE DEF A, B, F
<1>11. Cardinality(B \cup F) = Cardinality(B) + Cardinality(F) - Cardinality(B \cap F)
  BY <1>6, <1>9, FS_Union
<1>12. Cardinality(B \cap F) = 0 BY <1>10, FS_EmptySet
<1> QED BY <1>5, <1>6, <1>8, <1>9, <1>10, <1>11, <1>12 DEF A, r

LEMMA NoCredits ==
    ASSUME NEW q \in Seq(Message), NEW k, NEW id, \A x \in 1 .. Len(q) : ~(q[x].kind = k /\ q[x].id = id)
    PROVE  Cardinality(CreditsIn(q, k, id)) = 0
<1>1. CreditsIn(q, k, id) = {} BY DEF CreditsIn
<1> QED BY <1>1, FS_EmptySet

-----------------------------------------------------------------------------
(* What keeps the channels of both ends apart. *)

Signals    == {"req", "res", "ind", "data"}
Said       == {"res", "ind", "data"}
OpenStates == {"Connecting", "PeerConnecting", "Connected"}

In(q, K, x) == \E p \in 1 .. Len(q) : q[p].kind \in K /\ q[p].id = x

Answering(e, i) == acceptor[e].pc = "answer" /\ acceptor[e].slot = i

(* No connection and no channel before its number is drawn.                *)
Bounded ==
    /\ air <= count.links
    /\ \A e \in Ends : /\ linked[e].conn <= count.links
                       /\ creator[e].pc = "ask" => creator[e].id <= count.opens
                       /\ \A i \in Slots : /\ chan[e][i].id <= count.opens
                                           /\ chan[e][i].conn <= count.links
                       /\ \A p \in 1 .. Len(wire[e]) :
                            /\ wire[e][p].kind \in Signals => /\ wire[e][p].id <= count.opens
                                                              /\ wire[e][p].conn <= count.links
                            /\ wire[e][p].kind = "up" => wire[e][p].conn <= count.links

(* A channel has one slot at each end, and one connection: whoever names   *)
(* them names the same.                                                    *)
SlotAgrees(e, i, r, s, g, h) ==
    /\ r.id # 0 => g[r.id][e] = i
    /\ r.conn # None => h[r.id] = r.conn
    /\ r.state \in {"PeerConnecting", "Connected"} => g[r.id][Other(e)] = r.peer
    /\ s.pc # "idle" => h[r.id] = s.conn /\ g[r.id][Other(e)] = s.peer

SignalAgrees(e, m, g, h) ==
    m.kind \in Signals => /\ h[m.id] = m.conn
                          /\ g[m.id][IF m.kind = "data" THEN e ELSE Other(e)] = m.cid

Agree(g, h) ==
    \A e \in Ends :
        /\ creator[e].pc = "ask" => /\ g[creator[e].id][e] = creator[e].slot
                                    /\ h[creator[e].id] = creator[e].conn
        /\ \A i \in Slots :
             /\ SlotAgrees(e, i, chan[e][i], sender[e][i], g, h)
             /\ Answering(e, i) => h[chan[e][i].id] = acceptor[e].conn
        /\ \A p \in 1 .. Len(wire[e]) : SignalAgrees(e, wire[e][p], g, h)

Places == [Nat -> [Ends -> Cids]]
Links  == [Nat -> Conns]

Agreed == \E g \in Places, h \in Links : Agree(g, h)

(* More of a slot, its handles and the future that sends on it.            *)
MoreOK(i, r, H, s) ==
    /\ s.pc = "idle" => s = Quiet
    /\ s.pc = "ask" => s.grant = 0
    /\ s.pc = "frames" => s.grant = s.left
    /\ s.pc # "idle" => H \cap {"channel", "writer"} # {}
    /\ r.state \in OpenStates \/ H # {} => r.id # 0
    /\ r.state \in OpenStates => r.conn # None /\ r.cid = i
    /\ r.state = "Connecting" => r.available = Initial /\ r.skew = 0 /\ r.astray = 0

More ==
    \A e \in Ends, i \in Slots :
        /\ MoreOK(i, chan[e][i], handles[e][i], sender[e][i])
        /\ sender[e][i].pc # "idle" => ~Answering(e, i)

(* Before end o has answered the request of a channel nobody speaks of it; *)
(* before it has read the request it has no channel for it.                *)
Unanswered(o, x) ==
    /\ \A e \in Ends : ~In(wire[e], Said, x)
    /\ \A i \in Slots : chan[Other(o)][i].id = x =>
          /\ handles[Other(o)][i] = {}
          /\ chan[Other(o)][i].state \notin {"PeerConnecting", "Connected"}

Unasked(o, x) == Unanswered(o, x) /\ \A i \in Slots : chan[o][i].id # x

Asking ==
    \A c \in Ends : creator[c].pc = "ask" =>
        /\ creator[c].id # 0 /\ creator[c].conn # None
        /\ Unasked(Other(c), creator[c].id)
        /\ \A e \in Ends : ~In(wire[e], {"req"}, creator[c].id)
        /\ creator[Other(c)].pc = "ask" => creator[Other(c)].id # creator[c].id

Requested ==
    \A o \in Ends : \A p \in 1 .. Len(wire[o]) : wire[o][p].kind = "req" =>
        /\ wire[o][p].id # 0 /\ wire[o][p].conn # None /\ wire[o][p].n = Initial
        /\ Unasked(o, wire[o][p].id)
        /\ \A e \in Ends : \A q \in 1 .. Len(wire[e]) :
              wire[e][q].kind = "req" /\ wire[e][q].id = wire[o][p].id => e = o /\ q = p

Waiting ==
    \A o \in Ends, i \in Slots :
        chan[o][i].state = "PeerConnecting" \/ Answering(o, i) => Unanswered(o, chan[o][i].id)

(* While the end that asked waits, the other end's answer goes before all  *)
(* it says of the channel.                                                 *)
Opening ==
    \A c \in Ends, i \in Slots : chan[c][i].state = "Connecting" =>
        /\ ~In(wire[Other(c)], {"data", "ind"}, chan[c][i].id)
        /\ \A p \in 1 .. Len(wire[c]) :
              wire[c][p].kind \in {"data", "ind"} /\ wire[c][p].id = chan[c][i].id =>
                 \E q \in 1 .. p - 1 : wire[c][q].kind = "res" /\ wire[c][q].id = chan[c][i].id
        /\ \A j \in Slots : chan[Other(c)][j].id = chan[c][i].id =>
              /\ chan[Other(c)][j].state # "Connecting"
              /\ chan[Other(c)][j].state = "Connected" => handles[Other(c)][j] # {}
              /\ handles[Other(c)][j] # {} /\ ~Answering(Other(c), j) /\ air = chan[c][i].conn =>
                    In(wire[c], {"res"}, chan[c][i].id)

Answers ==
    \A e \in Ends : \A p \in 1 .. Len(wire[e]) : wire[e][p].kind = "res" => wire[e][p].n = Initial

Apart == Bounded /\ More /\ Asking /\ Requested /\ Waiting /\ Opening /\ Answers /\ Agreed

-----------------------------------------------------------------------------
(* A step that opens nothing and says nothing new of a channel. *)

SameSlot(q, H, s, r, K, t) ==
    /\ r.id = q.id /\ r.conn \in {q.conn, None}
    /\ r.state \in OpenStates =>
          r.state = q.state /\ r.conn = q.conn /\ r.cid = q.cid /\ r.peer = q.peer
    /\ K # {} => H # {} \/ q.state = "Connected"
    /\ r.state = "Connected" /\ H # {} => K # {}
    /\ t.pc # "idle" => \/ s.pc # "idle" /\ t.conn = s.conn /\ t.peer = s.peer
                        \/ q.state = "Connected" /\ t.conn = q.conn /\ t.peer = q.peer

Quieter ==
    /\ \A e \in Ends : /\ creator'[e].pc = "ask" => creator'[e] = creator[e]
                       /\ acceptor'[e].pc = "answer" => acceptor'[e] = acceptor[e]
    /\ \A e \in Ends, i \in Slots :
          /\ SameSlot(chan[e][i], handles[e][i], sender[e][i], chan'[e][i], handles'[e][i], sender'[e][i])
          /\ Answering(e, i) /\ ~Answering(e, i)' => handles'[e][i] = {} \/ acceptor[e].conn # air'

(* The wire as it was, but for d messages read of it, a part lost at its   *)
(* end and messages that are no signals.                                   *)
Dropped(e, d) ==
    \A p \in 1 .. Len(wire'[e]) : wire'[e][p].kind \in Signals =>
        \A q \in 1 .. p : q + d \in 1 .. Len(wire[e]) /\ wire'[e][q] = wire[e][q + d]

WireLess == \A e \in Ends : Dropped(e, 0) \/ Dropped(e, 1)

ResKept ==
    \A c \in Ends, i \in Slots : chan'[c][i].state = "Connecting" =>
        /\ Dropped(c, 0) \/ (Dropped(c, 1) /\ ~(wire[c][1].kind = "res" /\ wire[c][1].id = chan[c][i].id))
        /\ air' = chan[c][i].conn =>
              /\ air = air'
              /\ In(wire[c], {"res"}, chan[c][i].id) => In(wire'[c], {"res"}, chan[c][i].id)

LEMMA OtherEnd == \A e \in Ends : Other(e) \in Ends /\ Other(e) # e /\ Other(Other(e)) = e
BY DEF Ends, Other

LEMMA InLess ==
    ASSUME WireLess, NEW e \in Ends, NEW K \in SUBSET Signals, NEW x, In(wire'[e], K, x)
    PROVE  In(wire[e], K, x)
<1>1. PICK p \in 1 .. Len(wire'[e]) : wire'[e][p].kind \in K /\ wire'[e][p].id = x BY DEF In
<1>2. PICK d \in {0, 1} : Dropped(e, d) BY DEF WireLess
<1>3. p \in 1 .. p OBVIOUS
<1>4. p + d \in 1 .. Len(wire[e]) /\ wire'[e][p] = wire[e][p + d] BY <1>1, <1>2, <1>3 DEF Dropped
<1> QED BY <1>1, <1>4 DEF In

LEMMA QuietUnanswered ==
    ASSUME Quieter, WireLess, NEW o \in Ends, NEW x, Unanswered(o, x)
    PROVE  Unanswered(o, x)'
<1>1. \A e \in Ends : ~In(wire'[e], Said, x)
  <2>1. Said \in SUBSET Signals BY DEF Said, Signals
  <2> QED BY <2>1, InLess DEF Unanswered
<1>2. ASSUME NEW i \in Slots, chan'[Other(o)][i].id = x
      PROVE  /\ handles'[Other(o)][i] = {}
             /\ chan'[Other(o)][i].state \notin {"PeerConnecting", "Connected"}
  <2> DEFINE c == Other(o)
  <2>0. c \in Ends BY OtherEnd
  <2> HIDE DEF c
  <2>1. SameSlot(chan[c][i], handles[c][i], sender[c][i], chan'[c][i], handles'[c][i], sender'[c][i])
    BY <2>0 DEF Quieter
  <2>2. chan[c][i].id = x BY <1>2, <2>1 DEF SameSlot, c
  <2>3. handles[c][i] = {} /\ chan[c][i].state \notin {"PeerConnecting", "Connected"}
    BY <2>2 DEF Unanswered, c
  <2>4. handles'[c][i] = {} /\ chan'[c][i].state \notin {"PeerConnecting", "Connected"}
    BY <2>1, <2>3 DEF SameSlot, OpenStates
  <2> QED BY <2>4 DEF c
<1> QED BY <1>1, <1>2 DEF Unanswered

LEMMA QuietUnasked ==
    ASSUME Quieter, WireLess, NEW o \in Ends, NEW x, Unasked(o, x)
    PROVE  Unasked(o, x)'
<1>1. Unanswered(o, x)' BY QuietUnanswered DEF Unasked
<1>2. \A i \in Slots : chan'[o][i].id # x BY DEF Unasked, Quieter, SameSlot
<1> QED BY <1>1, <1>2 DEF Unasked

LEMMA QuietAsking ==
    ASSUME Quieter, WireLess, Asking
    PROVE  Asking'
<1> SUFFICES ASSUME NEW c \in Ends, creator'[c].pc = "ask"
             PROVE  /\ creator'[c].id # 0 /\ creator'[c].conn # None
                    /\ Unasked(Other(c), creator[c].id)' /\ creator'[c] = creator[c]
                    /\ \A e \in Ends : ~In(wire'[e], {"req"}, creator[c].id)
                    /\ creator'[Other(c)].pc = "ask" => creator'[Other(c)].id # creator[c].id
  BY DEF Asking
<1>0. Other(c) \in Ends BY OtherEnd
<1>1. creator'[c] = creator[c] BY DEF Quieter
<1>2. creator[c].id # 0 /\ creator[c].conn # None /\ Unasked(Other(c), creator[c].id)
      /\ (\A e \in Ends : ~In(wire[e], {"req"}, creator[c].id))
      /\ (creator[Other(c)].pc = "ask" => creator[Other(c)].id # creator[c].id)
  BY <1>1 DEF Asking
<1>3. \A e \in Ends : ~In(wire'[e], {"req"}, creator[c].id)
  <2>1. {"req"} \in SUBSET Signals BY DEF Signals
  <2> QED BY <1>2, <2>1, InLess
<1>4. creator'[Other(c)].pc = "ask" => creator'[Other(c)] = creator[Other(c)] BY <1>0 DEF Quieter
<1>5. \A x : Unasked(Other(c), x) => Unasked(Other(c), x)' BY <1>0, QuietUnasked
<1> QED BY <1>1, <1>2, <1>3, <1>4, <1>5

LEMMA QuietRequested ==
    ASSUME Quieter, WireLess, Requested
    PROVE  Requested'
<1> SUFFICES ASSUME NEW o \in Ends, NEW p \in 1 .. Len(wire'[o]), wire'[o][p].kind = "req"
             PROVE  /\ wire'[o][p].id # 0 /\ wire'[o][p].conn # None /\ wire'[o][p].n = Initial
                    /\ Unasked(o, wire[o][p].id)'
                    /\ \A e \in Ends : \A q \in 1 .. Len(wire'[e]) :
                          wire'[e][q].kind = "req" /\ wire'[e][q].id = wire'[o][p].id => e = o /\ q = p
  BY DEF Requested
<1>1. PICK d \in {0, 1} : Dropped(o, d) BY DEF WireLess
<1>2. p + d \in 1 .. Len(wire[o]) /\ wire'[o][p] = wire[o][p + d]
  <2>1. p \in 1 .. p OBVIOUS
  <2> QED BY <1>1, <2>1 DEF Dropped, Signals
<1> DEFINE m == wire[o][p + d]
<1>3. /\ m.id # 0 /\ m.conn # None /\ m.n = Initial /\ Unasked(o, m.id)
      /\ \A e \in Ends : \A q \in 1 .. Len(wire[e]) :
            wire[e][q].kind = "req" /\ wire[e][q].id = m.id => e = o /\ q = p + d
  BY <1>2 DEF Requested
<1>4. \A x : Unasked(o, x) => Unasked(o, x)' BY QuietUnasked
<1>5. ASSUME NEW e \in Ends, NEW q \in 1 .. Len(wire'[e]), wire'[e][q].kind = "req",
             wire'[e][q].id = m.id
      PROVE  e = o /\ q = p
  <2>1. PICK f \in {0, 1} : Dropped(e, f) /\ (e = o => f = d)
    BY <1>1 DEF WireLess
  <2>2. q \in 1 .. q OBVIOUS
  <2>3. q + f \in 1 .. Len(wire[e]) /\ wire'[e][q] = wire[e][q + f]
    BY <1>5, <2>1, <2>2 DEF Dropped, Signals
  <2>4. e = o /\ q + f = p + d BY <1>3, <1>5, <2>3
  <2> QED BY <2>1, <2>4
<1>6. \A x : x = m.id => Unasked(o, x)' BY <1>3, <1>4
<1>7. wire'[o][p] = m BY <1>2
<1> HIDE DEF m
<1>8. Unasked(o, wire[o][p].id)' BY <1>6, <1>7
<1> QED BY <1>3, <1>5, <1>7, <1>8

LEMMA QuietWaiting ==
    ASSUME Quieter, WireLess, Waiting
    PROVE  Waiting'
<1> SUFFICES ASSUME NEW o \in Ends, NEW i \in Slots,
                    chan'[o][i].state = "PeerConnecting" \/ Answering(o, i)'
             PROVE  Unanswered(o, chan[o][i].id)'
  BY DEF Waiting
<1>1. chan'[o][i].state = "PeerConnecting" => chan[o][i].state = "PeerConnecting"
      /\ chan'[o][i].id = chan[o][i].id
  BY DEF Quieter, SameSlot, OpenStates
<1>2. chan'[o][i].id = chan[o][i].id BY DEF Quieter, SameSlot
<1>3. Answering(o, i)' => Answering(o, i) BY DEF Quieter, Answering
<1>4. Unanswered(o, chan[o][i].id) BY <1>1, <1>3 DEF Waiting
<1>5. \A x : Unanswered(o, x) => Unanswered(o, x)' BY QuietUnanswered
<1>6. \A x : x = chan[o][i].id => Unanswered(o, x)' BY <1>4, <1>5
<1> QED BY <1>2, <1>6

LEMMA QuietAnswers ==
    ASSUME WireLess, Answers
    PROVE  Answers'
<1> SUFFICES ASSUME NEW o \in Ends, NEW p \in 1 .. Len(wire'[o]), wire'[o][p].kind = "res"
             PROVE  wire'[o][p].n = Initial
  BY DEF Answers
<1>1. PICK d \in {0, 1} : Dropped(o, d) BY DEF WireLess
<1>2. p + d \in 1 .. Len(wire[o]) /\ wire'[o][p] = wire[o][p + d]
  <2>1. p \in 1 .. p OBVIOUS
  <2> QED BY <1>1, <2>1 DEF Dropped, Signals
<1> QED BY <1>2 DEF Answers

LEMMA QuietOpening ==
    ASSUME Quieter, WireLess, ResKept, More, Agreed, Opening
    PROVE  Opening'
<1> SUFFICES ASSUME NEW c \in Ends, NEW i \in Slots, chan'[c][i].state = "Connecting"
             PROVE
        /\ ~In(wire'[Other(c)], {"data", "ind"}, chan'[c][i].id)
        /\ \A p \in 1 .. Len(wire'[c]) :
              wire'[c][p].kind \in {"data", "ind"} /\ wire'[c][p].id = chan'[c][i].id =>
                 \E q \in 1 .. p - 1 : wire'[c][q].kind = "res" /\ wire'[c][q].id = chan'[c][i].id
        /\ \A j \in Slots : chan'[Other(c)][j].id = chan'[c][i].id =>
              /\ chan'[Other(c)][j].state # "Connecting"
              /\ chan'[Other(c)][j].state = "Connected" => handles'[Other(c)][j] # {}
              /\ handles'[Other(c)][j] # {} /\ ~Answering(Other(c), j)' /\ air' = chan'[c][i].conn =>
                    In(wire'[c], {"res"}, chan'[c][i].id)
  BY DEF Opening
<1> DEFINE o == Other(c)
           x == chan[c][i].id
<1>0. o \in Ends BY OtherEnd
<1> HIDE DEF o
<1>1. chan[c][i].state = "Connecting" /\ chan'[c][i].id = x /\ chan'[c][i].conn = chan[c][i].conn
  BY DEF Quieter, SameSlot, OpenStates
<1>2. /\ ~In(wire[o], {"data", "ind"}, x)
      /\ \A p \in 1 .. Len(wire[c]) :
              wire[c][p].kind \in {"data", "ind"} /\ wire[c][p].id = x =>
                 \E q \in 1 .. p - 1 : wire[c][q].kind = "res" /\ wire[c][q].id = x
      /\ \A j \in Slots : chan[o][j].id = x =>
              /\ chan[o][j].state # "Connecting"
              /\ chan[o][j].state = "Connected" => handles[o][j] # {}
              /\ handles[o][j] # {} /\ ~Answering(o, j) /\ air = chan[c][i].conn => In(wire[c], {"res"}, x)
  BY <1>1 DEF Opening, o
<1>3. ~In(wire'[o], {"data", "ind"}, x)
  <2>1. {"data", "ind"} \in SUBSET Signals BY DEF Signals
  <2> QED BY <1>0, <1>2, <2>1, InLess
<1>4. ASSUME NEW p \in 1 .. Len(wire'[c]), wire'[c][p].kind \in {"data", "ind"}, wire'[c][p].id = x
      PROVE  \E q \in 1 .. p - 1 : wire'[c][q].kind = "res" /\ wire'[c][q].id = x
  <2>1. PICK d \in {0, 1} : Dropped(c, d) /\ (d = 1 => ~(wire[c][1].kind = "res" /\ wire[c][1].id = x))
    BY DEF ResKept
  <2>2. \A q \in 1 .. p : q + d \in 1 .. Len(wire[c]) /\ wire'[c][q] = wire[c][q + d]
    BY <1>4, <2>1 DEF Dropped, Signals
  <2>3. p + d \in 1 .. Len(wire[c]) /\ wire'[c][p] = wire[c][p + d]
    <3>1. p \in 1 .. p OBVIOUS
    <3> QED BY <2>2, <3>1
  <2>4. PICK q \in 1 .. p + d - 1 : wire[c][q].kind = "res" /\ wire[c][q].id = x
    BY <1>2, <1>4, <2>3
  <2>5. q # 1 \/ d = 0 BY <2>1, <2>4
  <2>6. q - d \in 1 .. p - 1 /\ (q - d) + d = q BY <2>4, <2>5
  <2>7. wire'[c][q - d] = wire[c][q] BY <2>2, <2>6
  <2> QED BY <2>4, <2>6, <2>7
<1>5. ASSUME NEW j \in Slots, chan'[o][j].id = x
      PROVE   /\ chan'[o][j].state # "Connecting"
              /\ chan'[o][j].state = "Connected" => handles'[o][j] # {}
              /\ handles'[o][j] # {} /\ ~Answering(o, j)' /\ air' = chan[c][i].conn => In(wire'[c], {"res"}, x)
  <2>1. SameSlot(chan[o][j], handles[o][j], sender[o][j], chan'[o][j], handles'[o][j], sender'[o][j])
        /\ (Answering(o, j) /\ ~Answering(o, j)' => handles'[o][j] = {} \/ acceptor[o].conn # air')
    BY <1>0 DEF Quieter
  <2>2. chan[o][j].id = x BY <1>5, <2>1 DEF SameSlot
  <2>3. chan'[o][j].state # "Connecting" BY <1>2, <2>1, <2>2 DEF SameSlot, OpenStates
  <2>4. air' = chan[c][i].conn => air = air' /\ (In(wire[c], {"res"}, x) => In(wire'[c], {"res"}, x))
    BY DEF ResKept
  <2>5. handles'[o][j] # {} => handles[o][j] # {} BY <1>2, <2>1, <2>2 DEF SameSlot
  <2>6. chan'[o][j].state = "Connected" => handles'[o][j] # {}
    BY <1>2, <2>1, <2>2 DEF SameSlot, OpenStates
  <2>7. Answering(o, j) => acceptor[o].conn = chan[c][i].conn
    <3>1. PICK g \in Places, h \in Links : Agree(g, h) BY DEF Agreed
    <3>2. Answering(o, j) => h[x] = acceptor[o].conn BY <1>0, <2>2, <3>1 DEF Agree
    <3>3. chan[c][i].conn # None BY <1>1 DEF More, MoreOK, OpenStates
    <3>4. h[x] = chan[c][i].conn BY <3>1, <3>3 DEF Agree, SlotAgrees
    <3> QED BY <3>2, <3>4
  <2> QED BY <1>2, <2>1, <2>2, <2>3, <2>4, <2>5, <2>6, <2>7
<1> QED BY <1>1, <1>3, <1>4, <1>5 DEF o

LEMMA QuietAgreed ==
    ASSUME Quieter, WireLess, More, Agreed
    PROVE  Agreed'
<1>1. PICK g \in Places, h \in Links : Agree(g, h) BY DEF Agreed
<1>2. ASSUME NEW e \in Ends
      PROVE  creator'[e].pc = "ask" => /\ g[creator'[e].id][e] = creator'[e].slot
                                       /\ h[creator'[e].id] = creator'[e].conn
  <2>1. creator'[e].pc = "ask" => creator'[e] = creator[e] BY DEF Quieter
  <2>2. creator[e].pc = "ask" => /\ g[creator[e].id][e] = creator[e].slot
                                 /\ h[creator[e].id] = creator[e].conn
    BY <1>1 DEF Agree
  <2> QED BY <2>1, <2>2
<1>3. ASSUME NEW e \in Ends, NEW i \in Slots
      PROVE  /\ SlotAgrees(e, i, chan'[e][i], sender'[e][i], g, h)
             /\ Answering(e, i)' => h[chan'[e][i].id] = acceptor'[e].conn
  <2>1. SameSlot(chan[e][i], handles[e][i], sender[e][i], chan'[e][i], handles'[e][i], sender'[e][i])
    BY DEF Quieter
  <2>2. SlotAgrees(e, i, chan[e][i], sender[e][i], g, h)
        /\ (Answering(e, i) => h[chan[e][i].id] = acceptor[e].conn)
    BY <1>1 DEF Agree
  <2>3. chan[e][i].state = "Connected" => chan[e][i].conn # None BY DEF More, MoreOK, OpenStates
  <2>4. SlotAgrees(e, i, chan'[e][i], sender'[e][i], g, h)
    BY <2>1, <2>2, <2>3 DEF SlotAgrees, SameSlot, OpenStates
  <2>5. Answering(e, i)' => Answering(e, i) /\ acceptor'[e] = acceptor[e] BY DEF Quieter, Answering
  <2> QED BY <2>1, <2>2, <2>4, <2>5 DEF SameSlot
<1>4. ASSUME NEW e \in Ends, NEW p \in 1 .. Len(wire'[e])
      PROVE  SignalAgrees(e, wire'[e][p], g, h)
  <2>1. CASE wire'[e][p].kind \in Signals
    <3>1. PICK d \in {0, 1} : Dropped(e, d) BY DEF WireLess
    <3>2. p \in 1 .. p OBVIOUS
    <3>3. p + d \in 1 .. Len(wire[e]) /\ wire'[e][p] = wire[e][p + d]
      BY <2>1, <3>1, <3>2 DEF Dropped
    <3>4. SignalAgrees(e, wire[e][p + d], g, h) BY <1>1, <3>3 DEF Agree
    <3> QED BY <3>3, <3>4
  <2>2. CASE wire'[e][p].kind \notin Signals BY <2>2 DEF SignalAgrees
  <2> QED BY <2>1, <2>2
<1>5. Agree(g, h)'
  BY <1>2, <1>3, <1>4 DEF Agree
<1> QED BY <1>5 DEF Agreed

(* The links there are, known to an end or on their way to it.             *)
LinksKept ==
    /\ count'.links >= count.links /\ count'.opens = count.opens
    /\ air' <= count'.links
    /\ \A e \in Ends :
          /\ linked'[e].conn <= count'.links
          /\ \A p \in 1 .. Len(wire'[e]) : wire'[e][p].kind = "up" => wire'[e][p].conn <= count'.links

LEMMA QuietBounded ==
    ASSUME IInv, IInv', Quieter, WireLess, LinksKept, Bounded
    PROVE  Bounded'
<1>0. count.links \in Nat /\ count'.links \in Nat /\ count.opens \in Nat
  BY ChannelsAssumption DEF IInv, Rest, Conns
<1>1. ASSUME NEW e \in Ends, creator'[e].pc = "ask"
      PROVE  creator'[e].id <= count'.opens
  BY <1>1 DEF Quieter, Bounded, LinksKept
<1>2. ASSUME NEW e \in Ends, NEW i \in Slots
      PROVE  chan'[e][i].id <= count'.opens /\ chan'[e][i].conn <= count'.links
  <2>1. chan'[e][i].id = chan[e][i].id /\ chan'[e][i].conn \in {chan[e][i].conn, None}
    BY DEF Quieter, SameSlot
  <2>2. chan[e][i].id <= count.opens /\ chan[e][i].conn <= count.links BY DEF Bounded
  <2>3. chan[e][i].conn \in Nat BY SlotType, ChannelsAssumption DEF IInv, Chan, Conns
  <2> QED BY <1>0, <2>1, <2>2, <2>3 DEF LinksKept, None
<1>3. ASSUME NEW e \in Ends, NEW p \in 1 .. Len(wire'[e]), wire'[e][p].kind \in Signals
      PROVE  wire'[e][p].id <= count'.opens /\ wire'[e][p].conn <= count'.links
  <2>1. PICK d \in {0, 1} : Dropped(e, d) BY DEF WireLess
  <2>2. p \in 1 .. p OBVIOUS
  <2>3. p + d \in 1 .. Len(wire[e]) /\ wire'[e][p] = wire[e][p + d]
    BY <1>3, <2>1, <2>2 DEF Dropped
  <2>4. wire[e][p + d].id <= count.opens /\ wire[e][p + d].conn <= count.links
    BY <1>3, <2>3 DEF Bounded
  <2>5. wire[e][p + d].conn \in Nat
    <3>1. wire[e] \in Seq(Message) BY DEF IInv, Rest
    <3>2. wire[e][p + d] \in Message BY <2>3, <3>1
    <3> QED BY <3>2, ChannelsAssumption DEF Message, Conns
  <2> QED BY <1>0, <2>3, <2>4, <2>5 DEF LinksKept
<1> QED BY <1>1, <1>2, <1>3 DEF Bounded, LinksKept

LEMMA Quietly ==
    ASSUME IInv, IInv', Apart, Quieter, WireLess, ResKept, LinksKept, More'
    PROVE  Apart'
BY QuietBounded, QuietAsking, QuietRequested, QuietWaiting, QuietOpening, QuietAnswers, QuietAgreed
DEF Apart

-----------------------------------------------------------------------------
(* The credits of the two directions of a channel. *)

Mine(r, s) == (IF r.state = "Connecting" THEN Initial ELSE r.credits) + s.grant - r.astray

Theirs(r, v) ==
    (IF r.state = "PeerConnecting" THEN Initial ELSE r.available)
        + (IF v.pc = "told" THEN v.n ELSE 0) + r.skew

OnAir(e, x) == Frames(Other(e), x) + Indicated(e, x)

Pair(e, i, j) ==
    /\ chan[e][i].state \in OpenStates /\ chan[Other(e)][j].state \in OpenStates
    /\ chan[Other(e)][j].id = chan[e][i].id /\ air = chan[e][i].conn /\ air = chan[Other(e)][j].conn

Balance ==
    \A e \in Ends : \A i, j \in Slots : Pair(e, i, j) =>
        Mine(chan[e][i], sender[e][i]) + OnAir(e, chan[e][i].id)
            = Theirs(chan[Other(e)][j], receiver[Other(e)][j])

SameMoney(q, s, v, r, t, w) ==
    r.state \in OpenStates => Mine(r, t) = Mine(q, s) /\ Theirs(r, w) = Theirs(q, v)

(* What a step does to a slot that keeps the channels apart and levelled.  *)
TurnOK(e, i) ==
    /\ SameSlot(chan[e][i], handles[e][i], sender[e][i], chan'[e][i], handles'[e][i], sender'[e][i])
    /\ MoreOK(i, chan'[e][i], handles'[e][i], sender'[e][i])
    /\ sender'[e][i].pc # "idle" => ~Answering(e, i)'
    /\ chan'[e][i].conn = air' =>
          SameMoney(chan[e][i], sender[e][i], receiver[e][i], chan'[e][i], sender'[e][i], receiver'[e][i])

FuturesKept ==
    \A e \in Ends :
        /\ creator'[e].pc = "ask" => creator'[e] = creator[e]
        /\ acceptor'[e].pc = "answer" => acceptor'[e] = acceptor[e]
        /\ \A i \in Slots : Answering(e, i) /\ ~Answering(e, i)' =>
              handles'[e][i] = {} \/ acceptor[e].conn # air'

AllTurn == FuturesKept /\ \A e \in Ends, i \in Slots : TurnOK(e, i)

LEMMA TurnsAreQuiet ==
    ASSUME AllTurn PROVE Quieter /\ More'
<1>1. Quieter BY DEF AllTurn, FuturesKept, TurnOK, Quieter
<1>2. More' BY DEF AllTurn, TurnOK, More
<1> QED BY <1>1, <1>2

LEMMA CarriedType ==
    ASSUME IInv, NEW e \in Ends, NEW x
    PROVE  Frames(e, x) \in Nat /\ Indicated(e, x) \in Nat /\ OnAir(e, x) \in Nat
<1>1. Other(e) \in Ends BY OtherEnd
<1>2. \A f \in Ends : Frames(f, x) \in Nat /\ Indicated(f, x) \in Nat
  BY CreditsFinite DEF IInv, Rest, Frames, Indicated
<1> QED BY <1>1, <1>2 DEF OnAir

(* The credits on their way are the same.                                  *)
LEMMA TurnBalance ==
    ASSUME AllTurn, Balance, \A e \in Ends : \A x : OnAir(e, x)' = OnAir(e, x),
           \A e \in Ends, i \in Slots : chan'[e][i].state \in OpenStates /\ air' = chan[e][i].conn => air' = air
    PROVE  Balance'
<1> SUFFICES ASSUME NEW e \in Ends, NEW i \in Slots, NEW j \in Slots, Pair(e, i, j)'
             PROVE  Mine(chan'[e][i], sender'[e][i]) + OnAir(e, chan[e][i].id)'
                       = Theirs(chan'[Other(e)][j], receiver'[Other(e)][j])
  BY DEF Balance
<1> DEFINE o == Other(e)
<1>0. o \in Ends BY OtherEnd
<1> HIDE DEF o
<1>1. chan'[e][i].state \in OpenStates /\ chan'[o][j].state \in OpenStates
      /\ chan'[o][j].id = chan'[e][i].id /\ air' = chan'[e][i].conn /\ air' = chan'[o][j].conn
  BY DEF Pair, o
<1>2. TurnOK(e, i) /\ TurnOK(o, j) BY <1>0 DEF AllTurn
<1>3. chan'[e][i].id = chan[e][i].id /\ chan'[e][i].conn = chan[e][i].conn
      /\ chan[e][i].state \in OpenStates
  BY <1>1, <1>2 DEF TurnOK, SameSlot
<1>4. chan'[o][j].id = chan[o][j].id /\ chan'[o][j].conn = chan[o][j].conn /\ chan[o][j].state \in OpenStates
  BY <1>1, <1>2 DEF TurnOK, SameSlot
<1>5. Pair(e, i, j) BY <1>1, <1>3, <1>4 DEF Pair, o
<1>6. Mine(chan'[e][i], sender'[e][i]) = Mine(chan[e][i], sender[e][i])
  BY <1>1, <1>2 DEF TurnOK, SameMoney
<1>7. Theirs(chan'[o][j], receiver'[o][j]) = Theirs(chan[o][j], receiver[o][j])
  BY <1>1, <1>2 DEF TurnOK, SameMoney
<1>8. \A x : x = chan[e][i].id => OnAir(e, x)' = OnAir(e, chan[e][i].id) OBVIOUS
<1>9. OnAir(e, chan[e][i].id)' = OnAir(e, chan[e][i].id) BY <1>3, <1>8
<1> QED BY <1>5, <1>6, <1>7, <1>9 DEF Balance, o

LEMMA StillTurn ==
    ASSUME More, NEW e \in Ends, NEW i \in Slots, Answering(e, i)' => Answering(e, i),
           chan'[e][i] = chan[e][i], handles'[e][i] = handles[e][i],
           sender'[e][i] = sender[e][i], receiver'[e][i] = receiver[e][i]
    PROVE  TurnOK(e, i)
<1>1. MoreOK(i, chan[e][i], handles[e][i], sender[e][i]) /\ (sender[e][i].pc # "idle" => ~Answering(e, i))
  BY DEF More
<1>2. SameSlot(chan[e][i], handles[e][i], sender[e][i], chan[e][i], handles[e][i], sender[e][i])
  BY DEF SameSlot
<1>3. SameMoney(chan[e][i], sender[e][i], receiver[e][i], chan[e][i], sender[e][i], receiver[e][i])
  BY DEF SameMoney
<1> QED BY <1>1, <1>2, <1>3 DEF TurnOK

LEMMA SameWire ==
    ASSUME UNCHANGED wire
    PROVE  WireLess /\ \A e \in Ends : Dropped(e, 0)
<1>1. \A e \in Ends : Dropped(e, 0)
  <2> SUFFICES ASSUME NEW e \in Ends, NEW p \in 1 .. Len(wire[e]), NEW q \in 1 .. p
               PROVE  q + 0 \in 1 .. Len(wire[e]) /\ wire[e][q] = wire[e][q + 0]
    BY DEF Dropped
  <2> QED OBVIOUS
<1> QED BY <1>1 DEF WireLess

(* A step within one end's host: the wire and the links are as they were.  *)
LEMMA Local ==
    ASSUME IInv, IInv', Apart, Balance, AllTurn, UNCHANGED <<wire, air, linked>>,
           count'.links = count.links, count'.opens = count.opens
    PROVE  Apart' /\ Balance'
<1>1. Quieter /\ More' BY TurnsAreQuiet
<1>2. WireLess /\ \A e \in Ends : Dropped(e, 0) BY SameWire
<1>3. ResKept BY <1>2 DEF ResKept
<1>4. LinksKept
  <2>1. count.links \in Nat BY ChannelsAssumption DEF IInv, Rest, Conns
  <2> QED BY <2>1 DEF LinksKept, Apart, Bounded
<1>5. Apart' BY <1>1, <1>2, <1>3, <1>4, Quietly
<1>6. \A e \in Ends : \A x : OnAir(e, x)' = OnAir(e, x) BY DEF OnAir, Frames, Indicated
<1>7. Balance' BY <1>6, TurnBalance
<1> QED BY <1>5, <1>7

(* No slot changes.                                                        *)
LEMMA LocalNone ==
    ASSUME IInv, IInv', Apart, Balance, UNCHANGED <<chan, handles, acceptor, sender, receiver, wire, air, linked>>,
           \A e \in Ends : creator'[e].pc = "ask" => creator'[e] = creator[e],
           count'.links = count.links, count'.opens = count.opens
    PROVE  Apart' /\ Balance'
<1>1. \A e \in Ends, i \in Slots : Answering(e, i)' <=> Answering(e, i) BY DEF Answering
<1>2. FuturesKept BY <1>1 DEF FuturesKept
<1>3. \A e \in Ends, i \in Slots : TurnOK(e, i) BY <1>1, StillTurn DEF Apart
<1> QED BY <1>2, <1>3, Local DEF AllTurn

(* One slot changes.                                                       *)
LEMMA LocalOne ==
    ASSUME IInv, IInv', Apart, Balance, UNCHANGED <<wire, air, linked>>,
           \A f \in Ends : creator'[f].pc = "ask" => creator'[f] = creator[f],
           count'.links = count.links, count'.opens = count.opens,
           NEW e \in Ends, NEW i \in Slots, TurnOK(e, i),
           chan' = chan \/ \E r : chan' = [chan EXCEPT ![e][i] = r],
           handles' = handles \/ \E H : handles' = [handles EXCEPT ![e][i] = H],
           sender' = sender \/ \E s : sender' = [sender EXCEPT ![e][i] = s],
           receiver' = receiver \/ \E v : receiver' = [receiver EXCEPT ![e][i] = v],
           \/ acceptor' = acceptor
           \/ /\ Answering(e, i) /\ acceptor' = [acceptor EXCEPT ![e] = Idle]
              /\ handles'[e][i] = {} \/ acceptor[e].conn # air
    PROVE  Apart' /\ Balance'
<1>1. \A f \in Ends, j \in Slots : f # e \/ j # i =>
         /\ chan'[f][j] = chan[f][j] /\ handles'[f][j] = handles[f][j]
         /\ sender'[f][j] = sender[f][j] /\ receiver'[f][j] = receiver[f][j]
  <2>1. /\ chan \in [Ends -> [Slots -> Chan]] /\ handles \in [Ends -> [Slots -> SUBSET Forms]]
        /\ receiver \in [Ends -> [Slots -> Listener]]
        /\ sender \in [Ends -> [Slots -> [pc : {"idle", "ask", "frames"}, left : Nat, grant : Nat,
                                          conn : Conns, peer : Cids]]]
    BY DEF IInv, Shape, Rest
  <2>2. \A f \in Ends, j \in Slots : f # e \/ j # i => chan'[f][j] = chan[f][j] BY <2>1
  <2>3. \A f \in Ends, j \in Slots : f # e \/ j # i => handles'[f][j] = handles[f][j] BY <2>1
  <2>4. \A f \in Ends, j \in Slots : f # e \/ j # i => sender'[f][j] = sender[f][j] BY <2>1
  <2>5. \A f \in Ends, j \in Slots : f # e \/ j # i => receiver'[f][j] = receiver[f][j] BY <2>1
  <2> QED BY <2>2, <2>3, <2>4, <2>5
<1>2. /\ \A f \in Ends : acceptor'[f].pc = "answer" => acceptor'[f] = acceptor[f]
      /\ \A f \in Ends, j \in Slots : Answering(f, j)' => Answering(f, j)
      /\ \A f \in Ends, j \in Slots : Answering(f, j) /\ ~Answering(f, j)' =>
            handles'[f][j] = {} \/ acceptor[f].conn # air'
  <2>1. CASE acceptor' = acceptor BY <2>1 DEF Answering
  <2>2. CASE /\ Answering(e, i) /\ acceptor' = [acceptor EXCEPT ![e] = Idle]
             /\ handles'[e][i] = {} \/ acceptor[e].conn # air
    <3>1. acceptor'[e].pc = "idle" /\ \A f \in Ends : f # e => acceptor'[f] = acceptor[f]
      BY <2>2, AcceptorEnds DEF IInv
    <3> QED BY <2>2, <3>1 DEF Answering
  <2> QED BY <2>1, <2>2
<1>3. FuturesKept BY <1>2 DEF FuturesKept
<1>4. ASSUME NEW f \in Ends, NEW j \in Slots PROVE TurnOK(f, j)
  <2>1. CASE f = e /\ j = i BY <2>1
  <2>2. CASE f # e \/ j # i BY <1>1, <1>2, <2>2, StillTurn DEF Apart
  <2> QED BY <2>1, <2>2
<1> QED BY <1>3, <1>4, Local DEF AllTurn

(* The record of a slot but for its state, its refcount and its queue.     *)
SameRecord(q, r) ==
    /\ r.id = q.id /\ r.conn = q.conn /\ r.cid = q.cid /\ r.peer = q.peer
    /\ r.credits = q.credits /\ r.available = q.available /\ r.skew = q.skew /\ r.astray = q.astray
    /\ r.state \in OpenStates => r.state = q.state

LEMMA RecordTurn ==
    ASSUME IInv, More, NEW e \in Ends, NEW i \in Slots, SameRecord(chan[e][i], chan'[e][i]),
           sender'[e][i] = sender[e][i],
           receiver'[e][i] = receiver[e][i] \/ (receiver'[e][i].pc # "told" /\ receiver[e][i].pc # "told"),
           chan'[e][i].state = "Connected" /\ handles[e][i] # {} => handles'[e][i] # {},
           handles'[e][i] # {} => handles[e][i] # {} \/ chan[e][i].state = "Connected",
           sender[e][i].pc # "idle" => /\ handles'[e][i] \cap {"channel", "writer"} # {}
                                       /\ ~Answering(e, i)'
    PROVE  TurnOK(e, i)
<1> DEFINE q == chan[e][i]
           r == chan'[e][i]
           s == sender[e][i]
<1>1. MoreOK(i, q, handles[e][i], s) BY DEF More
<1>2. SameSlot(q, handles[e][i], s, r, handles'[e][i], s) BY DEF SameSlot, SameRecord
<1>3. MoreOK(i, r, handles'[e][i], s) BY <1>1 DEF MoreOK, SameRecord, OpenStates
<1>4. SameMoney(q, s, receiver[e][i], r, s, receiver'[e][i]) BY DEF SameMoney, SameRecord, Mine, Theirs
<1> QED BY <1>2, <1>3, <1>4 DEF TurnOK

-----------------------------------------------------------------------------
(* The steps within a host. *)

LEMMA ReleasedRecord ==
    ASSUME NEW q \in Chan
    PROVE  SameRecord(q, Released(q)) /\ (q.refs = 1 => Released(q).state # "Connected")
           /\ Released(q).refs = q.refs - 1
BY DEF Released, SameRecord, Chan, OpenStates

LEMMA RefsRecord ==
    ASSUME NEW q \in Chan, NEW n
    PROVE  SameRecord(q, [q EXCEPT !.refs = n]) /\ [q EXCEPT !.refs = n].refs = n
BY DEF SameRecord, Chan

LEMMA EndedRecord ==
    ASSUME NEW q \in Chan, NEW st \in {"Disconnected", "PeerDisconnecting", "Disconnecting"}
    PROVE  SameRecord(q, [q EXCEPT !.state = st]) /\ [q EXCEPT !.state = st].state = st
BY DEF SameRecord, Chan, OpenStates

LEMMA RecordChain ==
    ASSUME NEW a, NEW b, NEW c, SameRecord(a, b), SameRecord(b, c)
    PROVE  SameRecord(a, c)
BY DEF SameRecord

(* The new value of a slot.                                                *)
LEMMA NewChan ==
    ASSUME IInv, NEW e \in Ends, NEW i \in Slots, NEW r, chan' = [chan EXCEPT ![e][i] = r]
    PROVE  chan'[e][i] = r
BY DEF IInv, Shape

LEMMA NewHandles ==
    ASSUME IInv, NEW e \in Ends, NEW i \in Slots, NEW H, handles' = [handles EXCEPT ![e][i] = H]
    PROVE  handles'[e][i] = H
BY DEF IInv, Shape

LEMMA NewSender ==
    ASSUME IInv, NEW e \in Ends, NEW i \in Slots, NEW s, sender' = [sender EXCEPT ![e][i] = s]
    PROVE  sender'[e][i] = s
BY DEF IInv, Rest

LEMMA NewReceiver ==
    ASSUME IInv, NEW e \in Ends, NEW i \in Slots, NEW v, receiver' = [receiver EXCEPT ![e][i] = v]
    PROVE  receiver'[e][i] = v
BY DEF IInv, Shape

(* Handles come, go and are exchanged.                                     *)
LEMMA HandlesTurn ==
    ASSUME IInv, IInv', Apart, Balance, NEW e \in Ends, NEW i \in Slots, NEW r, NEW H,
           chan' = [chan EXCEPT ![e][i] = r], handles' = [handles EXCEPT ![e][i] = H],
           UNCHANGED <<futures, wire, count, others>>,
           SameRecord(chan[e][i], r), handles[e][i] # {}, H = {} => r.state # "Connected",
           sender[e][i].pc # "idle" => H \cap {"channel", "writer"} # {}
    PROVE  Apart' /\ Balance'
<1>1. chan'[e][i] = r BY NewChan
<1>2. handles'[e][i] = H BY NewHandles
<1>3. UNCHANGED <<creator, acceptor, sender, receiver, wire, count, linked, air>>
  BY DEF futures, others
<1>4. Answering(e, i)' <=> Answering(e, i) BY <1>3 DEF Answering
<1>5. sender[e][i].pc # "idle" => ~Answering(e, i) BY DEF Apart, More
<1>6. TurnOK(e, i) BY <1>1, <1>2, <1>3, <1>4, <1>5, RecordTurn DEF Apart
<1> QED BY <1>3, <1>6, LocalOne

LEMMA DropMore ==
    ASSUME IInv, IInv', Apart, Balance, NEW e \in Ends, NEW i \in Slots, NEW f \in Forms, Drop(e, i, f)
    PROVE  Apart' /\ Balance'
<1> DEFINE q == chan[e][i]
           r == Released(q)
           H == handles[e][i] \ {f}
<1>1. q \in Chan /\ SlotOK(q, handles[e][i], receiver[e][i]) /\ handles[e][i] \in SUBSET Forms
  BY SlotType DEF IInv
<1>2. f \in handles[e][i] /\ (f \in {"channel", "writer"} => sender[e][i].pc = "idle")
  BY DEF Drop, InHand, StillSender, Quiet
<1>3. chan' = [chan EXCEPT ![e][i] = r] /\ handles' = [handles EXCEPT ![e][i] = H]
      /\ UNCHANGED <<futures, wire, count, others>>
  BY DEF Drop, SetChan
<1>4. H = {} => q.refs = 1
  <2>1. Cardinality(H) = Cardinality(handles[e][i]) - 1 /\ Cardinality(handles[e][i]) \in Nat
    BY <1>1, <1>2, Counting
  <2>2. H = {} => Cardinality(H) = 0 BY FS_EmptySet
  <2>3. q.refs = Cardinality(handles[e][i]) BY <1>1 DEF SlotOK
  <2> HIDE DEF H, q
  <2> QED BY <2>1, <2>2, <2>3
<1>5. SameRecord(q, r) /\ (H = {} => r.state # "Connected") BY <1>1, <1>4, ReleasedRecord
<1>6. sender[e][i].pc # "idle" => H \cap {"channel", "writer"} # {}
  BY <1>2 DEF Apart, More, MoreOK
<1>7. handles[e][i] # {} BY <1>2
<1> HIDE DEF H, r
<1> QED BY <1>3, <1>5, <1>6, <1>7, HandlesTurn

LEMMA SplitMore ==
    ASSUME IInv, IInv', Apart, Balance, NEW e \in Ends, NEW i \in Slots, Split(e, i)
    PROVE  Apart' /\ Balance'
<1> DEFINE q == chan[e][i]
           a == [q EXCEPT !.refs = q.refs + 2]
           r == Released(a)
           H == (handles[e][i] \ {"channel"}) \cup {"writer", "reader"}
<1>1. q \in Chan BY SlotType DEF IInv
<1>2. "channel" \in handles[e][i] /\ sender[e][i].pc = "idle" BY DEF Split, InHand, StillSender, Quiet
<1>3. chan' = [chan EXCEPT ![e][i] = r] /\ handles' = [handles EXCEPT ![e][i] = H]
      /\ UNCHANGED <<futures, wire, count, others>>
  BY DEF Split, SetChan
<1>4. SameRecord(q, a) BY <1>1, RefsRecord
<1>5. a \in Chan
  <2>1. q.refs + 2 \in Nat BY <1>1 DEF Chan
  <2> QED BY <1>1, <2>1 DEF Chan
<1>6. SameRecord(a, r) BY <1>5, ReleasedRecord
<1>7. SameRecord(q, r) BY <1>4, <1>6, RecordChain
<1>8. H # {} /\ handles[e][i] # {} BY <1>2
<1> HIDE DEF H, r
<1> QED BY <1>2, <1>3, <1>7, <1>8, HandlesTurn

LEMMA MergeMore ==
    ASSUME IInv, IInv', Apart, Balance, NEW e \in Ends, NEW i \in Slots, Merge(e, i)
    PROVE  Apart' /\ Balance'
<1> DEFINE q == chan[e][i]
           a == [q EXCEPT !.refs = q.refs + 1]
           b == Released(a)
           r == Released(b)
           H == (handles[e][i] \ {"writer", "reader"}) \cup {"channel"}
<1>1. q \in Chan /\ SlotOK(q, handles[e][i], receiver[e][i]) /\ handles[e][i] \in SUBSET Forms
  BY SlotType DEF IInv
<1>2. "writer" \in handles[e][i] /\ sender[e][i].pc = "idle" BY DEF Merge, StillSender, Quiet
<1>3. chan' = [chan EXCEPT ![e][i] = r] /\ handles' = [handles EXCEPT ![e][i] = H]
      /\ UNCHANGED <<futures, wire, count, others>>
  BY DEF Merge, SetChan
<1>4. SameRecord(q, a) /\ a.refs = q.refs + 1 BY <1>1, RefsRecord
<1>5. a \in Chan /\ a.refs > 0
  <2>1. q.refs + 1 \in Nat /\ q.refs + 1 > 0 BY <1>1 DEF Chan
  <2> QED BY <1>1, <1>4, <2>1 DEF Chan
<1>6. SameRecord(a, b) BY <1>5, ReleasedRecord
<1>7. b \in Chan
  <2> HIDE DEF a
  <2> QED BY <1>5, ReleasedOK
<1>8. SameRecord(b, r) BY <1>7, ReleasedRecord
<1>9. SameRecord(q, r)
  <2> HIDE DEF a, b, r
  <2>1. SameRecord(q, b) BY <1>4, <1>6, RecordChain
  <2> QED BY <2>1, <1>8, RecordChain
<1>10. H # {} /\ handles[e][i] # {} BY <1>2
<1> HIDE DEF H, r
<1> QED BY <1>2, <1>3, <1>9, <1>10, HandlesTurn

LEMMA ChannelRefMore ==
    ASSUME IInv, IInv', Apart, Balance, NEW e \in Ends, NEW i \in Slots, ChannelRef(e, i)
    PROVE  Apart' /\ Balance'
<1> DEFINE q == chan[e][i]
           r == [q EXCEPT !.refs = q.refs + 1]
           H == handles[e][i] \cup {"ref"}
<1>1. q \in Chan BY SlotType DEF IInv
<1>2. handles[e][i] # {} BY DEF ChannelRef, InHand
<1>3. chan' = [chan EXCEPT ![e][i] = r] /\ handles' = [handles EXCEPT ![e][i] = H]
      /\ UNCHANGED <<futures, wire, count, others>>
  BY DEF ChannelRef, SetChan
<1>4. SameRecord(q, r) BY <1>1, RefsRecord
<1>5. sender[e][i].pc # "idle" => H \cap {"channel", "writer"} # {} BY DEF Apart, More, MoreOK
<1>6. H # {} OBVIOUS
<1> HIDE DEF H, r
<1> QED BY <1>2, <1>3, <1>4, <1>5, <1>6, HandlesTurn

(* A slot whose channel is at an end.                                      *)
LEMMA EndedTurn ==
    ASSUME IInv, IInv', Apart, Balance, NEW e \in Ends, NEW i \in Slots,
           NEW st \in {"Disconnected", "PeerDisconnecting", "Disconnecting"},
           chan' = [chan EXCEPT ![e][i] = [chan[e][i] EXCEPT !.state = st]],
           UNCHANGED <<handles, creator, acceptor, sender, receiver, wire, count, others>>
    PROVE  Apart' /\ Balance'
<1> DEFINE r == [chan[e][i] EXCEPT !.state = st]
<1>1. chan[e][i] \in Chan BY SlotType DEF IInv
<1>2. SameRecord(chan[e][i], r) /\ r.state = st BY <1>1, EndedRecord
<1>3. chan' = [chan EXCEPT ![e][i] = r] OBVIOUS
<1> HIDE DEF r
<1>a. \A y : chan' = [chan EXCEPT ![e][i] = y] => chan'[e][i] = y BY NewChan
<1>4. chan'[e][i] = r BY <1>3, <1>a
<1>5. (Answering(e, i)' <=> Answering(e, i)) /\ UNCHANGED <<linked, air>> BY DEF Answering, others
<1>6. sender[e][i].pc # "idle" => /\ handles[e][i] \cap {"channel", "writer"} # {}
                                  /\ ~Answering(e, i)
  BY DEF Apart, More, MoreOK
<1>7. TurnOK(e, i) BY <1>2, <1>4, <1>5, <1>6, RecordTurn DEF Apart
<1> QED BY <1>3, <1>5, <1>7, LocalOne

LEMMA DisconnectMore ==
    ASSUME IInv, IInv', Apart, Balance, NEW e \in Ends, NEW i \in Slots, Disconnect(e, i)
    PROVE  Apart' /\ Balance'
<1>1. chan' = [chan EXCEPT ![e][i] = [chan[e][i] EXCEPT !.state = "Disconnecting"]] BY DEF Disconnect
<1>2. UNCHANGED <<handles, creator, acceptor, sender, receiver, wire, count, others>>
  BY DEF Disconnect, futures
<1> QED BY <1>1, <1>2, EndedTurn

LEMMA ConfirmRequestMore ==
    ASSUME IInv, IInv', Apart, Balance, NEW e \in Ends, ConfirmRequest(e)
    PROVE  Apart' /\ Balance'
<1> DEFINE i == control[e].slot
<1>0. i \in Slots BY DEF IInv, Placed, ConfirmRequest
<1>1. chan' = [chan EXCEPT ![e][i] = [chan[e][i] EXCEPT !.state = "Disconnected"]] BY DEF ConfirmRequest
<1>2. UNCHANGED <<handles, creator, acceptor, sender, receiver, wire, count, others>>
  BY DEF ConfirmRequest
<1> HIDE DEF i
<1> QED BY <1>0, <1>1, <1>2, EndedTurn

LEMMA TakeRequestMore ==
    ASSUME IInv, IInv', Apart, Balance, NEW e \in Ends, TakeRequest(e)
    PROVE  Apart' /\ Balance'
BY LocalNone DEF TakeRequest, others

LEMMA CancelCreateMore ==
    ASSUME IInv, IInv', Apart, Balance, NEW e \in Ends, CancelCreate(e)
    PROVE  Apart' /\ Balance'
<1>1. UNCHANGED <<chan, handles, acceptor, sender, receiver, wire, linked, air>>
  BY DEF CancelCreate, others
<1>2. \A f \in Ends : creator'[f].pc = "ask" => creator'[f] = creator[f]
  BY DEF CancelCreate, Done, IInv, Rest
<1>3. count'.links = count.links /\ count'.opens = count.opens
  BY DEF CancelCreate, Cancel, IInv, Rest
<1> QED BY <1>1, <1>2, <1>3, LocalNone

(* A channel is handed out, by create, or taken back from accept.          *)
LEMMA CreatedMore ==
    ASSUME IInv, IInv', Apart, Balance, NEW e \in Ends, Created(e)
    PROVE  Apart' /\ Balance'
<1> DEFINE i == creator[e].slot
           q == chan[e][i]
           r == [q EXCEPT !.refs = q.refs + 1]
<1>1. UNCHANGED <<acceptor, sender, receiver, wire, count, linked, air>> BY DEF Created, others
<1>2. i \in Slots BY DEF IInv, Placed, Created
<1>3. PICK pc \in {"idle", "panicked"} : creator' = [creator EXCEPT ![e] = [Done EXCEPT !.pc = pc]]
  BY DEF Created
<1>4. \A f \in Ends : creator'[f].pc = "ask" => creator'[f] = creator[f]
  BY <1>3 DEF Done, IInv, Rest
<1>5. CASE UNCHANGED <<chan, handles>> BY <1>1, <1>4, <1>5, LocalNone
<1>6. CASE /\ q.state = "Connected" /\ q.refs = 0 /\ SetChan(e, i, r)
           /\ handles' = [handles EXCEPT ![e][i] = {"channel"}]
  <2>1. q \in Chan /\ SlotOK(q, handles[e][i], receiver[e][i]) /\ handles[e][i] \in SUBSET Forms
    BY <1>2, SlotType DEF IInv
  <2>2. handles[e][i] = {} BY <1>6, <2>1, Counting DEF SlotOK
  <2>3. chan' = [chan EXCEPT ![e][i] = r] BY <1>6 DEF SetChan
  <2>4. SameRecord(q, r) BY <2>1, RefsRecord
  <2>5. sender[e][i].pc = "idle" BY <1>2, <2>2 DEF Apart, More, MoreOK
  <2>6. q.state = "Connected" /\ handles' = [handles EXCEPT ![e][i] = {"channel"}] BY <1>6
  <2> HIDE DEF r, i
  <2>7. chan'[e][i] = r BY <1>2, <2>3, NewChan
  <2>8. handles'[e][i] = {"channel"} BY <1>2, <2>6, NewHandles
  <2>9. TurnOK(e, i) BY <1>1, <1>2, <2>2, <2>4, <2>5, <2>6, <2>7, <2>8, RecordTurn DEF Apart
  <2> QED BY <1>1, <1>2, <1>4, <2>3, <2>6, <2>9, LocalOne
<1> QED BY <1>5, <1>6 DEF Created

LEMMA AcceptFailsMore ==
    ASSUME IInv, IInv', Apart, Balance, NEW e \in Ends, AcceptFails(e)
    PROVE  Apart' /\ Balance'
<1> DEFINE i == acceptor[e].slot
           q == chan[e][i]
           r == Released(q)
<1>1. UNCHANGED <<creator, sender, receiver, wire, linked, air>> BY DEF AcceptFails, others
<1>2. i \in Slots /\ handles[e][i] = {"channel"} /\ receiver[e][i].pc = "idle" /\ Answering(e, i)
  BY DEF IInv, Placed, AcceptFails, Answering
<1>3. q \in Chan /\ SlotOK(q, handles[e][i], receiver[e][i]) BY <1>2, SlotType DEF IInv
<1>4. q.refs = 1 BY <1>2, <1>3, FS_Singleton DEF SlotOK
<1>5. chan' = [chan EXCEPT ![e][i] = r] /\ handles' = [handles EXCEPT ![e][i] = {}]
      /\ acceptor' = [acceptor EXCEPT ![e] = Idle]
  BY DEF AcceptFails, SetChan
<1>6. count'.links = count.links /\ count'.opens = count.opens
  BY DEF AcceptFails, Stops, Cancel, IInv, Rest
<1>7. SameRecord(q, r) /\ r.state # "Connected" BY <1>3, <1>4, ReleasedRecord
<1>8. sender[e][i].pc = "idle" BY <1>2 DEF Apart, More
<1> HIDE DEF r, i
<1>9. chan'[e][i] = r BY <1>2, <1>5, NewChan
<1>10. handles'[e][i] = {} BY <1>2, <1>5, NewHandles
<1>11. TurnOK(e, i) BY <1>1, <1>2, <1>7, <1>8, <1>9, <1>10, RecordTurn DEF Apart
<1> QED BY <1>1, <1>2, <1>5, <1>6, <1>10, <1>11, LocalOne

-----------------------------------------------------------------------------
(* Credits that move within an end. *)

SameNames(q, r) ==
    r.id = q.id /\ r.conn = q.conn /\ r.cid = q.cid /\ r.peer = q.peer /\ r.state = q.state

LEMMA MoneyTurn ==
    ASSUME IInv, More, NEW e \in Ends, NEW i \in Slots, SameNames(chan[e][i], chan'[e][i]),
           chan[e][i].state = "Connected", handles'[e][i] = handles[e][i],
           Answering(e, i)' => Answering(e, i),
           Mine(chan'[e][i], sender'[e][i]) = Mine(chan[e][i], sender[e][i]),
           Theirs(chan'[e][i], receiver'[e][i]) = Theirs(chan[e][i], receiver[e][i]),
           LET s == sender[e][i]
               t == sender'[e][i] IN
           /\ t.pc = "idle" => t = Quiet
           /\ t.pc = "ask" => t.grant = 0
           /\ t.pc = "frames" => t.grant = t.left
           /\ t.pc # "idle" =>
                 /\ handles[e][i] \cap {"channel", "writer"} # {} /\ ~Answering(e, i)
                 /\ \/ s.pc # "idle" /\ t.conn = s.conn /\ t.peer = s.peer
                    \/ t.conn = chan[e][i].conn /\ t.peer = chan[e][i].peer
    PROVE  TurnOK(e, i)
<1> DEFINE q == chan[e][i]
           r == chan'[e][i]
           s == sender[e][i]
           t == sender'[e][i]
           H == handles[e][i]
<1>1. MoreOK(i, q, H, s) BY DEF More
<1>2. SameSlot(q, H, s, r, H, t) BY DEF SameSlot, SameNames
<1>3. MoreOK(i, r, H, t) BY <1>1 DEF MoreOK, SameNames, OpenStates
<1>4. SameMoney(q, s, receiver[e][i], r, t, receiver'[e][i]) BY DEF SameMoney
<1> QED BY <1>2, <1>3, <1>4 DEF TurnOK

(* While there is a handle of a channel, it is Connected or at its end.    *)
LEMMA Handed ==
    ASSUME IInv, NEW e \in Ends, NEW i \in Slots, handles[e][i] # {}, chan[e][i].state # "Connected"
    PROVE  chan[e][i].state \notin OpenStates
<1>1. SlotOK(chan[e][i], handles[e][i], receiver[e][i]) /\ handles[e][i] \in SUBSET Forms
  BY SlotType DEF IInv
<1>2. Cardinality(handles[e][i]) # 0 BY <1>1, Counting
<1> QED BY <1>1, <1>2 DEF SlotOK, OpenStates

(* A channel that is at its end, and so are its futures.                   *)
LEMMA OverTurn ==
    ASSUME IInv, More, NEW e \in Ends, NEW i \in Slots, chan'[e][i] = chan[e][i],
           chan[e][i].state # "Connected", handles[e][i] # {}, handles'[e][i] = handles[e][i],
           Answering(e, i)' => Answering(e, i),
           sender'[e][i] = sender[e][i] \/ sender'[e][i] = Quiet
    PROVE  TurnOK(e, i)
<1> DEFINE q == chan[e][i]
           s == sender[e][i]
           t == sender'[e][i]
           H == handles[e][i]
<1>1. MoreOK(i, q, H, s) /\ (s.pc # "idle" => ~Answering(e, i)) BY DEF More
<1>2. q.state \notin OpenStates BY Handed
<1>3. SameSlot(q, H, s, q, H, t) BY DEF SameSlot, Quiet
<1>4. MoreOK(i, q, H, t) BY <1>1 DEF MoreOK, Quiet
<1>5. SameMoney(q, s, receiver[e][i], q, t, receiver'[e][i]) BY <1>2 DEF SameMoney
<1> QED BY <1>1, <1>3, <1>4, <1>5 DEF TurnOK, Quiet

LEMMA SendMore ==
    ASSUME IInv, IInv', Apart, Balance, NEW e \in Ends, NEW i \in Slots, NEW n \in 1 .. MaxFrames,
           Send(e, i, n)
    PROVE  Apart' /\ Balance'
<1> DEFINE q == chan[e][i]
           t == [pc |-> "ask", left |-> n, grant |-> 0, conn |-> q.conn, peer |-> q.peer]
<1>1. UNCHANGED <<chan, handles, creator, acceptor, receiver, wire, linked, air>> BY DEF Send, others
<1>2. sender' = [sender EXCEPT ![e][i] = t] BY DEF Send, SetSender
<1>3. handles[e][i] \cap {"channel", "writer"} # {} /\ ~Answering(e, i) /\ sender[e][i] = Quiet
      /\ q.state = "Connected"
  BY DEF Send, InHand, StillSender, Answering
<1>4. count'.links = count.links /\ count'.opens = count.opens BY DEF Send, IInv, Rest
<1> HIDE DEF t
<1>5. sender'[e][i] = t BY <1>2, NewSender
<1>6. t.pc = "ask" /\ t.grant = 0 /\ t.conn = q.conn /\ t.peer = q.peer BY DEF t
<1>7. Answering(e, i)' => Answering(e, i) BY <1>1 DEF Answering
<1>8. Mine(q, t) = Mine(q, Quiet) BY <1>6 DEF Mine, Quiet
<1>9. SameNames(q, q) BY DEF SameNames
<1>10. TurnOK(e, i) BY <1>1, <1>3, <1>5, <1>6, <1>7, <1>8, <1>9, MoneyTurn DEF Apart
<1> QED BY <1>1, <1>2, <1>4, <1>10, LocalOne

LEMMA GrantedMore ==
    ASSUME IInv, IInv', Apart, Balance, NEW e \in Ends, NEW i \in Slots, Granted(e, i)
    PROVE  Apart' /\ Balance'
<1> DEFINE s == sender[e][i]
           n == s.left
           q == chan[e][i]
           r == [q EXCEPT !.credits = q.credits - n]
           t == [s EXCEPT !.pc = "frames", !.grant = n]
<1>1. UNCHANGED <<handles, creator, acceptor, receiver, wire, count, linked, air>> BY DEF Granted, others
<1>2. Answering(e, i)' => Answering(e, i) BY <1>1 DEF Answering
<1>3. s \in [pc : {"idle", "ask", "frames"}, left : Nat, grant : Nat, conn : Conns, peer : Cids]
  BY SenderType
<1>4. s.pc = "ask" /\ s.grant = 0 /\ handles[e][i] \cap {"channel", "writer"} # {} /\ ~Answering(e, i)
  BY DEF Granted, Apart, More, MoreOK
<1>5. CASE q.state = "Connected" /\ n <= q.credits /\ SetChan(e, i, r) /\ SetSender(e, i, t)
  <2>1. chan' = [chan EXCEPT ![e][i] = r] /\ sender' = [sender EXCEPT ![e][i] = t]
    BY <1>5 DEF SetChan, SetSender
  <2>2. q \in Chan BY SlotType DEF IInv
  <2>3. n \in Nat /\ q.credits - n \in Int BY <1>3, <2>2 DEF Chan
  <2>4. t.pc = "frames" /\ t.grant = n /\ t.left = n /\ t.conn = s.conn /\ t.peer = s.peer BY <1>3
  <2>5. SameNames(q, r) /\ r.credits = q.credits - n /\ r.astray = q.astray
        /\ r.available = q.available /\ r.skew = q.skew
    BY <2>2 DEF SameNames, Chan
  <2> HIDE DEF r, t
  <2>6. chan'[e][i] = r BY <2>1, NewChan
  <2>7. sender'[e][i] = t BY <2>1, NewSender
  <2>8. Mine(r, t) = Mine(q, s)
    BY <1>4, <1>5, <2>2, <2>3, <2>4, <2>5 DEF Mine, SameNames, Chan
  <2>9. Theirs(r, receiver[e][i]) = Theirs(q, receiver[e][i]) BY <1>5, <2>5 DEF Theirs, SameNames
  <2>10. TurnOK(e, i)
    BY <1>1, <1>2, <1>4, <1>5, <2>4, <2>5, <2>6, <2>7, <2>8, <2>9, MoneyTurn DEF Apart
  <2> QED BY <1>1, <2>1, <2>10, LocalOne
<1>6. CASE q.state # "Connected" /\ SetSender(e, i, Quiet) /\ chan' = chan
  <2>1. sender' = [sender EXCEPT ![e][i] = Quiet] BY <1>6 DEF SetSender
  <2>2. sender'[e][i] = Quiet BY <2>1, NewSender
  <2>3. handles[e][i] # {} BY <1>4
  <2>4. TurnOK(e, i) BY <1>1, <1>2, <1>6, <2>2, <2>3, OverTurn DEF Apart
  <2> QED BY <1>1, <1>6, <2>1, <2>4, LocalOne
<1> QED BY <1>5, <1>6 DEF Granted

LEMMA SendEndsMore ==
    ASSUME IInv, IInv', Apart, Balance, NEW e \in Ends, NEW i \in Slots, SendEnds(e, i)
    PROVE  Apart' /\ Balance'
<1> DEFINE s == sender[e][i]
           q == chan[e][i]
           r == [q EXCEPT !.credits = q.credits + s.grant]
<1>1. UNCHANGED <<handles, creator, acceptor, receiver, wire, linked, air>> BY DEF SendEnds, others
<1>2. Answering(e, i)' => Answering(e, i) BY <1>1 DEF Answering
<1>3. s \in [pc : {"idle", "ask", "frames"}, left : Nat, grant : Nat, conn : Conns, peer : Cids]
  BY SenderType
<1>4. handles[e][i] \cap {"channel", "writer"} # {} BY DEF SendEnds, Apart, More, MoreOK
<1>5. count'.links = count.links /\ count'.opens = count.opens
  BY DEF SendEnds, Stops, Cancel, IInv, Rest
<1>6. sender' = [sender EXCEPT ![e][i] = Quiet] BY DEF SendEnds, SetSender
<1>7. sender'[e][i] = Quiet BY <1>6, NewSender
<1>8. CASE q.state = "Connected"
  <2>1. chan' = [chan EXCEPT ![e][i] = r] BY <1>8 DEF SendEnds
  <2>2. q \in Chan BY SlotType DEF IInv
  <2>3. SameNames(q, r) /\ r.credits = q.credits + s.grant /\ r.astray = q.astray
        /\ r.available = q.available /\ r.skew = q.skew
    BY <2>2 DEF SameNames, Chan
  <2> HIDE DEF r
  <2>4. chan'[e][i] = r BY <2>1, NewChan
  <2>5. Mine(r, Quiet) = Mine(q, s)
    BY <1>3, <1>8, <2>2, <2>3 DEF Mine, SameNames, Quiet, Chan
  <2>6. Theirs(r, receiver[e][i]) = Theirs(q, receiver[e][i]) BY <1>8, <2>3 DEF Theirs, SameNames
  <2>7. Quiet.pc = "idle" BY DEF Quiet
  <2>8. TurnOK(e, i) BY <1>1, <1>2, <1>7, <1>8, <2>3, <2>4, <2>5, <2>6, <2>7, MoneyTurn DEF Apart
  <2> QED BY <1>1, <1>5, <1>6, <2>1, <2>8, LocalOne
<1>9. CASE q.state # "Connected"
  <2>1. chan' = chan BY <1>9 DEF SendEnds
  <2>2. handles[e][i] # {} BY <1>4
  <2>3. TurnOK(e, i) BY <1>1, <1>2, <1>7, <1>9, <2>1, <2>2, OverTurn DEF Apart
  <2> QED BY <1>1, <1>5, <1>6, <2>1, <2>3, LocalOne
<1> QED BY <1>8, <1>9

LEMMA ReceiveMore ==
    ASSUME IInv, IInv', Apart, Balance, NEW e \in Ends, NEW i \in Slots, Receive(e, i)
    PROVE  Apart' /\ Balance'
<1> DEFINE q == chan[e][i]
           r == [q EXCEPT !.inbound = q.inbound - 1]
           v == [pc |-> "tell", n |-> q.received]
<1>1. UNCHANGED <<handles, creator, acceptor, sender, wire, count, linked, air>> BY DEF Receive, others
<1>2. q \in Chan BY SlotType DEF IInv
<1>3. chan' = [chan EXCEPT ![e][i] = r] BY DEF Receive
<1>4. receiver' = receiver \/ receiver' = [receiver EXCEPT ![e][i] = v]
  BY DEF Receive, ToGrant, SetReceiver
<1>5. SameRecord(q, r) BY <1>2 DEF SameRecord, Chan
<1> HIDE DEF r, v
<1>6. chan'[e][i] = r BY <1>3, NewChan
<1>7. receiver[e][i].pc # "told" BY DEF Receive, StillReceiver, Deaf
<1>8. receiver'[e][i] = receiver[e][i] \/ receiver'[e][i].pc # "told"
  <2>1. CASE receiver' = [receiver EXCEPT ![e][i] = v]
    <3>1. receiver'[e][i] = v BY <2>1, NewReceiver
    <3> QED BY <3>1 DEF v
  <2> QED BY <1>4, <2>1
<1>9. (Answering(e, i)' <=> Answering(e, i)) BY <1>1 DEF Answering
<1>10. sender[e][i].pc # "idle" => handles[e][i] \cap {"channel", "writer"} # {} /\ ~Answering(e, i)
  BY DEF Apart, More, MoreOK
<1>11. TurnOK(e, i)
  BY <1>1, <1>5, <1>6, <1>7, <1>8, <1>9, <1>10, RecordTurn DEF Apart
<1> QED BY <1>1, <1>3, <1>4, <1>11, LocalOne

LEMMA ConfirmGrantMore ==
    ASSUME IInv, IInv', Apart, Balance, NEW e \in Ends, NEW i \in Slots, ConfirmGrant(e, i)
    PROVE  Apart' /\ Balance'
<1> DEFINE q == chan[e][i]
           n == receiver[e][i].n
           r == [q EXCEPT !.received = Minus(q.received, n), !.available = q.available + n]
<1>1. UNCHANGED <<handles, creator, acceptor, sender, wire, count, linked, air>>
  BY DEF ConfirmGrant, others
<1>2. Answering(e, i)' => Answering(e, i) BY <1>1 DEF Answering
<1>3. q \in Chan /\ SlotOK(q, handles[e][i], receiver[e][i]) /\ receiver[e][i] \in Listener
  BY SlotType DEF IInv
<1>4. receiver' = [receiver EXCEPT ![e][i] = Deaf] BY DEF ConfirmGrant, SetReceiver
<1>5. receiver'[e][i] = Deaf BY <1>4, NewReceiver
<1>6. receiver[e][i].pc = "told" /\ handles[e][i] # {} BY <1>3 DEF ConfirmGrant, SlotOK
<1>7. MoreOK(i, q, handles[e][i], sender[e][i]) /\ (sender[e][i].pc # "idle" => ~Answering(e, i))
  BY DEF Apart, More
<1>8. CASE q.state = "Connected"
  <2>1. chan' = [chan EXCEPT ![e][i] = r] BY <1>8 DEF ConfirmGrant
  <2>2. SameNames(q, r) /\ r.credits = q.credits /\ r.astray = q.astray
        /\ r.available = q.available + n /\ r.skew = q.skew
    BY <1>3 DEF SameNames, Chan
  <2> HIDE DEF r
  <2>3. chan'[e][i] = r BY <2>1, NewChan
  <2>4. Theirs(r, Deaf) = Theirs(q, receiver[e][i])
    BY <1>3, <1>6, <1>8, <2>2 DEF Theirs, SameNames, Deaf, Chan, Listener
  <2>5. Mine(r, sender[e][i]) = Mine(q, sender[e][i]) BY <1>8, <2>2 DEF Mine, SameNames
  <2>6. TurnOK(e, i)
    BY <1>1, <1>2, <1>5, <1>7, <1>8, <2>2, <2>3, <2>4, <2>5, MoneyTurn DEF Apart, MoreOK
  <2> QED BY <1>1, <1>4, <2>1, <2>6, LocalOne
<1>9. CASE q.state # "Connected"
  <2>1. chan' = chan BY <1>9 DEF ConfirmGrant
  <2>2. TurnOK(e, i) BY <1>1, <1>2, <1>6, <1>9, <2>1, OverTurn DEF Apart
  <2> QED BY <1>1, <1>4, <2>1, <2>2, LocalOne
<1> QED BY <1>8, <1>9

LEMMA CancelReceiveMore ==
    ASSUME IInv, IInv', Apart, Balance, NEW e \in Ends, NEW i \in Slots, CancelReceive(e, i)
    PROVE  Apart' /\ Balance'
<1> DEFINE q == chan[e][i]
           n == receiver[e][i].n
           r == [q EXCEPT !.skew = q.skew + n]
<1>1. UNCHANGED <<handles, creator, acceptor, sender, wire, linked, air>>
  BY DEF CancelReceive, others
<1>2. Answering(e, i)' <=> Answering(e, i) BY <1>1 DEF Answering
<1>3. q \in Chan /\ SlotOK(q, handles[e][i], receiver[e][i]) /\ receiver[e][i] \in Listener
  BY SlotType DEF IInv
<1>4. receiver' = [receiver EXCEPT ![e][i] = Deaf] BY DEF CancelReceive, SetReceiver
<1>5. receiver'[e][i] = Deaf BY <1>4, NewReceiver
<1>6. count'.links = count.links /\ count'.opens = count.opens
  BY DEF CancelReceive, Cancel, IInv, Rest
<1>7. MoreOK(i, q, handles[e][i], sender[e][i]) /\ (sender[e][i].pc # "idle" => ~Answering(e, i))
  BY DEF Apart, More
<1>8. CASE receiver[e][i].pc = "tell"
  <2>1. chan' = chan BY <1>8 DEF CancelReceive
  <2>2. SameRecord(q, q) BY DEF SameRecord
  <2>3. Deaf.pc # "told" BY DEF Deaf
  <2>4. TurnOK(e, i)
    BY <1>1, <1>2, <1>5, <1>7, <1>8, <2>1, <2>2, <2>3, RecordTurn DEF Apart, MoreOK
  <2> QED BY <1>1, <1>4, <1>6, <2>1, <2>4, LocalOne
<1>9. CASE receiver[e][i].pc = "told"
  <2>1. chan' = [chan EXCEPT ![e][i] = r] BY <1>9 DEF CancelReceive
  <2>2. SameNames(q, r) /\ r.credits = q.credits /\ r.astray = q.astray
        /\ r.available = q.available /\ r.skew = q.skew + n
    BY <1>3 DEF SameNames, Chan
  <2>3. handles[e][i] # {} BY <1>3, <1>9 DEF SlotOK
  <2> HIDE DEF r
  <2>4. chan'[e][i] = r BY <2>1, NewChan
  <2>5. Theirs(r, Deaf) = Theirs(q, receiver[e][i])
    <3> DEFINE a == IF q.state = "PeerConnecting" THEN Initial ELSE q.available
    <3>1. a \in Int /\ q.skew \in Int /\ n \in Int BY <1>3, ChannelsAssumption DEF Chan, Listener
    <3>2. Theirs(r, Deaf) = a + 0 + (q.skew + n) BY <2>2 DEF Theirs, SameNames, Deaf
    <3>3. Theirs(q, receiver[e][i]) = a + n + q.skew BY <1>9 DEF Theirs
    <3> HIDE DEF a, q, n
    <3> QED BY <3>1, <3>2, <3>3
  <2>6. Mine(r, sender[e][i]) = Mine(q, sender[e][i]) BY <2>2 DEF Mine, SameNames
  <2>7. CASE q.state = "Connected"
    <3>1. TurnOK(e, i)
      BY <1>1, <1>2, <1>5, <1>7, <2>2, <2>4, <2>5, <2>6, <2>7, MoneyTurn DEF Apart, MoreOK
    <3> QED BY <1>1, <1>4, <1>6, <2>1, <3>1, LocalOne
  <2>8. CASE q.state # "Connected"
    <3>1. q.state \notin OpenStates BY <2>3, <2>8, Handed
    <3>2. SameSlot(q, handles[e][i], sender[e][i], r, handles[e][i], sender[e][i])
      BY <2>2, <3>1 DEF SameSlot, SameNames, OpenStates
    <3>3. MoreOK(i, r, handles[e][i], sender[e][i]) BY <1>7, <2>2, <3>1 DEF MoreOK, SameNames, OpenStates
    <3>4. SameMoney(q, sender[e][i], receiver[e][i], r, sender[e][i], Deaf)
      BY <2>2, <3>1 DEF SameMoney, SameNames
    <3>5. TurnOK(e, i) BY <1>1, <1>2, <1>5, <1>7, <2>4, <3>2, <3>3, <3>4 DEF TurnOK
    <3> QED BY <1>1, <1>4, <1>6, <2>1, <3>5, LocalOne
  <2> QED BY <2>7, <2>8
<1> QED BY <1>8, <1>9 DEF CancelReceive

-----------------------------------------------------------------------------
(* What the RX runner reads. *)

LEMMA TailWire ==
    ASSUME IInv, NEW e \in Ends, NEW k, Received(e, k)
    PROVE  /\ WireLess /\ Dropped(e, 1) /\ Dropped(Other(e), 0)
           /\ wire[e] \in Seq(Message) /\ wire[e] # <<>> /\ wire'[e] = Tail(wire[e])
           /\ wire'[Other(e)] = wire[Other(e)] /\ Head(wire[e]) = wire[e][1]
           /\ Len(wire[e]) \in Nat /\ Len(wire[e]) > 0 /\ Len(wire'[e]) = Len(wire[e]) - 1
           /\ \A p \in 1 .. Len(wire'[e]) : wire'[e][p] = wire[e][p + 1]
<1>0. Other(e) \in Ends /\ Other(e) # e BY OtherEnd
<1>1. wire \in [Ends -> Seq(Message)] /\ wire' = [wire EXCEPT ![e] = Tail(wire[e])] /\ wire[e] # <<>>
  BY DEF IInv, Rest, Received
<1>2. wire'[e] = Tail(wire[e]) /\ wire'[Other(e)] = wire[Other(e)] /\ wire[e] \in Seq(Message)
  BY <1>0, <1>1
<1>3. Head(wire[e]) = wire[e][1] /\ Len(wire[e]) \in Nat /\ Len(wire[e]) > 0
      /\ Len(wire'[e]) = Len(wire[e]) - 1
      /\ \A p \in 1 .. Len(wire'[e]) : wire'[e][p] = wire[e][p + 1]
  BY <1>1, <1>2
<1>4. Dropped(e, 1)
  <2> SUFFICES ASSUME NEW p \in 1 .. Len(wire'[e]), NEW q \in 1 .. p
               PROVE  q + 1 \in 1 .. Len(wire[e]) /\ wire'[e][q] = wire[e][q + 1]
    BY DEF Dropped
  <2> QED BY <1>3
<1>5. Dropped(Other(e), 0)
  <2> SUFFICES ASSUME NEW p \in 1 .. Len(wire[Other(e)]), NEW q \in 1 .. p
               PROVE  q + 0 \in 1 .. Len(wire[Other(e)]) /\ wire[Other(e)][q] = wire[Other(e)][q + 0]
    BY <1>2 DEF Dropped
  <2> QED OBVIOUS
<1>6. WireLess
  <2>1. \A f \in Ends : f = e \/ f = Other(e) BY DEF Ends, Other
  <2> QED BY <1>4, <1>5, <2>1 DEF WireLess
<1> QED BY <1>1, <1>2, <1>3, <1>4, <1>5, <1>6

LEMMA TailCredits ==
    ASSUME IInv, IInv', NEW e \in Ends, NEW k, Received(e, k), NEW x
    PROVE  LET m == Head(wire[e]) IN
           /\ Share(m, "data", x) \in Nat /\ Share(m, "ind", x) \in Nat
           /\ OnAir(e, x) = OnAir(e, x)' + Share(m, "ind", x)
           /\ OnAir(Other(e), x) = OnAir(Other(e), x)' + Share(m, "data", x)
<1> DEFINE m == Head(wire[e])
           o == Other(e)
<1>0. o \in Ends /\ o # e /\ Other(o) = e BY OtherEnd
<1>1. wire[e] \in Seq(Message) /\ wire[e] # <<>> /\ wire'[e] = Tail(wire[e]) /\ wire'[o] = wire[o]
  BY TailWire
<1>2. Frames(e, x) = Frames(e, x)' + Share(m, "data", x) BY <1>1, CreditsTail DEF Frames
<1>3. Indicated(e, x) = Indicated(e, x)' + Share(m, "ind", x) BY <1>1, CreditsTail DEF Indicated
<1>4. Frames(o, x)' = Frames(o, x) /\ Indicated(o, x)' = Indicated(o, x)
  BY <1>1 DEF Frames, Indicated
<1>5. m \in Message BY <1>1
<1>6. Share(m, "data", x) \in Nat /\ Share(m, "ind", x) \in Nat BY <1>5, ShareType
<1>7. \A f \in Ends : Frames(f, x) \in Nat /\ Indicated(f, x) \in Nat BY CarriedType
<1>8. \A f \in Ends : Frames(f, x)' \in Nat /\ Indicated(f, x)' \in Nat
  BY CreditsFinite DEF IInv, Rest, Frames, Indicated
<1> HIDE DEF m
<1>9. OnAir(e, x) = Frames(o, x) + Indicated(e, x) /\ OnAir(e, x)' = Frames(o, x)' + Indicated(e, x)'
      /\ OnAir(o, x) = Frames(e, x) + Indicated(o, x) /\ OnAir(o, x)' = Frames(e, x)' + Indicated(o, x)'
  BY <1>0 DEF OnAir
<1> HIDE DEF o
<1>10. /\ OnAir(e, x) = OnAir(e, x)' + Share(m, "ind", x)
       /\ OnAir(o, x) = OnAir(o, x)' + Share(m, "data", x)
  BY <1>0, <1>2, <1>3, <1>4, <1>6, <1>7, <1>8, <1>9
<1> QED BY <1>6, <1>10 DEF m, o

(* What reading a message may do to a slot, but for opening it.            *)
Lessens(q, r) ==
    /\ r.id = q.id /\ r.conn \in {q.conn, None}
    /\ r.state \in OpenStates =>
          r.state = q.state /\ r.conn = q.conn /\ r.cid = q.cid /\ r.peer = q.peer
    /\ r.state = "Connecting" => r.available = q.available /\ r.skew = q.skew /\ r.astray = q.astray

LEMMA RxApart ==
    ASSUME IInv, IInv', Apart, NEW e \in Ends, NEW k, Received(e, k),
           chan'[Other(e)] = chan[Other(e)], \A i \in Slots : Lessens(chan[e][i], chan'[e][i]),
           \A f \in Ends : linked'[f].conn <= count.links,
           \A i \in Slots : chan'[e][i].state = "Connecting" =>
              ~(Head(wire[e]).kind = "res" /\ Head(wire[e]).id = chan[e][i].id)
    PROVE  Apart'
<1>1. UNCHANGED <<handles, creator, acceptor, sender, receiver, air, count>> BY DEF Received, futures
<1>2. \A f \in Ends : f = e \/ f = Other(e) BY DEF Ends, Other
<1>3. Other(e) \in Ends /\ Other(e) # e BY OtherEnd
<1>4. \A f \in Ends, i \in Slots : Answering(f, i)' <=> Answering(f, i) BY <1>1 DEF Answering
<1>5. \A i \in Slots : Lessens(chan[Other(e)][i], chan'[Other(e)][i]) BY DEF Lessens
<1>6. \A f \in Ends, i \in Slots : Lessens(chan[f][i], chan'[f][i]) BY <1>2, <1>5
<1>7. \A f \in Ends, i \in Slots :
        MoreOK(i, chan[f][i], handles[f][i], sender[f][i]) /\ (sender[f][i].pc # "idle" => ~Answering(f, i))
  BY DEF Apart, More
<1>8. ASSUME NEW f \in Ends, NEW i \in Slots
      PROVE  /\ SameSlot(chan[f][i], handles[f][i], sender[f][i], chan'[f][i], handles[f][i], sender[f][i])
             /\ MoreOK(i, chan'[f][i], handles[f][i], sender[f][i])
  BY <1>6, <1>7 DEF Lessens, SameSlot, MoreOK, OpenStates
<1>9. Quieter BY <1>1, <1>4, <1>8 DEF Quieter
<1>10. More' BY <1>1, <1>4, <1>7, <1>8 DEF More
<1>11. LinksKept
  <2>1. \A f \in Ends : \A p \in 1 .. Len(wire'[f]) : wire'[f][p].kind = "up" => wire'[f][p].conn <= count.links
    <3>1. \A f \in Ends : \A p \in 1 .. Len(wire[f]) : wire[f][p].kind = "up" => wire[f][p].conn <= count.links
      BY DEF Apart, Bounded
    <3>2. \A p \in 1 .. Len(wire'[e]) : p + 1 \in 1 .. Len(wire[e]) /\ wire'[e][p] = wire[e][p + 1]
      BY TailWire
    <3>3. wire'[Other(e)] = wire[Other(e)] BY TailWire
    <3> QED BY <1>2, <1>3, <3>1, <3>2, <3>3
  <2>2. count.links \in Nat BY ChannelsAssumption DEF IInv, Rest, Conns
  <2>3. air <= count.links BY DEF Apart, Bounded
  <2> QED BY <1>1, <2>1, <2>2, <2>3 DEF LinksKept
<1>12. ResKept
  <2> SUFFICES ASSUME NEW c \in Ends, NEW i \in Slots, chan'[c][i].state = "Connecting"
               PROVE
        /\ Dropped(c, 0) \/ (Dropped(c, 1) /\ ~(wire[c][1].kind = "res" /\ wire[c][1].id = chan[c][i].id))
        /\ air' = chan[c][i].conn =>
              /\ air = air'
              /\ In(wire[c], {"res"}, chan[c][i].id) => In(wire'[c], {"res"}, chan[c][i].id)
    BY DEF ResKept
  <2>1. CASE c = Other(e)
    <3>1. wire'[c] = wire[c] /\ Dropped(c, 0) BY <2>1, TailWire
    <3> QED BY <1>1, <3>1
  <2>2. CASE c = e
    <3>1. ~(wire[e][1].kind = "res" /\ wire[e][1].id = chan[e][i].id) BY <2>2, TailWire
    <3>2. Dropped(e, 1) BY TailWire
    <3>3. ASSUME In(wire[e], {"res"}, chan[e][i].id) PROVE In(wire'[e], {"res"}, chan[e][i].id)
      <4>1. PICK p \in 1 .. Len(wire[e]) : wire[e][p].kind \in {"res"} /\ wire[e][p].id = chan[e][i].id
        BY <3>3 DEF In
      <4>2. p # 1 BY <3>1, <4>1
      <4>3. p - 1 \in 1 .. Len(wire'[e]) /\ wire'[e][p - 1] = wire[e][p] BY <4>2, TailWire
      <4> QED BY <4>1, <4>3 DEF In
    <3> QED BY <1>1, <2>2, <3>1, <3>2, <3>3
  <2> QED BY <1>2, <2>1, <2>2
<1> QED BY <1>9, <1>10, <1>11, <1>12, TailWire, Quietly

LEMMA MoneyType ==
    ASSUME IInv, NEW e \in Ends, NEW i \in Slots
    PROVE  Mine(chan[e][i], sender[e][i]) \in Int /\ Theirs(chan[e][i], receiver[e][i]) \in Int
<1>1. chan[e][i] \in Chan /\ receiver[e][i] \in Listener BY SlotType DEF IInv
<1>2. sender[e][i].grant \in Nat BY SenderType
<1> QED BY <1>1, <1>2, ChannelsAssumption DEF Mine, Theirs, Chan, Listener

LEMMA RxBalance ==
    ASSUME IInv, IInv', Balance, NEW e \in Ends, NEW k, Received(e, k),
           chan'[Other(e)] = chan[Other(e)], \A i \in Slots : Lessens(chan[e][i], chan'[e][i]),
           \A i \in Slots : chan'[e][i].state \in OpenStates =>
              /\ Mine(chan'[e][i], sender[e][i])
                   = Mine(chan[e][i], sender[e][i]) + Share(Head(wire[e]), "ind", chan[e][i].id)
              /\ Theirs(chan'[e][i], receiver[e][i])
                   = Theirs(chan[e][i], receiver[e][i]) - Share(Head(wire[e]), "data", chan[e][i].id)
    PROVE  Balance'
<1> SUFFICES ASSUME NEW f \in Ends, NEW i \in Slots, NEW j \in Slots, Pair(f, i, j)'
             PROVE  Mine(chan'[f][i], sender'[f][i]) + OnAir(f, chan[f][i].id)'
                       = Theirs(chan'[Other(f)][j], receiver'[Other(f)][j])
  BY DEF Balance
<1>1. UNCHANGED <<handles, sender, receiver, air>> BY DEF Received, futures
<1>2. \A g \in Ends : g = e \/ g = Other(e) BY DEF Ends, Other
<1>3. Other(e) \in Ends /\ Other(e) # e /\ Other(Other(e)) = e /\ Other(f) \in Ends BY OtherEnd
<1>4. \A a \in Slots : Lessens(chan[Other(e)][a], chan'[Other(e)][a]) BY DEF Lessens
<1>5. Lessens(chan[f][i], chan'[f][i]) /\ Lessens(chan[Other(f)][j], chan'[Other(f)][j])
  BY <1>2, <1>3, <1>4
<1>6. chan'[f][i].state \in OpenStates /\ chan'[Other(f)][j].state \in OpenStates
      /\ chan'[Other(f)][j].id = chan'[f][i].id /\ air' = chan'[f][i].conn
  BY DEF Pair
<1>a. PICK x : x = chan[f][i].id OBVIOUS
<1>7. Pair(f, i, j) /\ chan'[f][i].id = x /\ chan[Other(f)][j].id = x
  BY <1>1, <1>5, <1>6, <1>a DEF Pair, Lessens
<1>8. Mine(chan[f][i], sender[f][i]) + OnAir(f, x) = Theirs(chan[Other(f)][j], receiver[Other(f)][j])
  BY <1>7, <1>a DEF Balance
<1> DEFINE m == Head(wire[e])
<1>9. \A y : y = x => OnAir(f, y)' = OnAir(f, x)' OBVIOUS
<1>10. OnAir(f, chan[f][i].id)' = OnAir(f, x)' BY <1>7, <1>9
<1>11. /\ Share(m, "data", x) \in Nat /\ Share(m, "ind", x) \in Nat
       /\ OnAir(e, x) = OnAir(e, x)' + Share(m, "ind", x)
       /\ OnAir(Other(e), x) = OnAir(Other(e), x)' + Share(m, "data", x)
  BY TailCredits
<1>12. \A g \in Ends : \A y : OnAir(g, y) \in Nat BY CarriedType
<1>13. \A g \in Ends : \A y : OnAir(g, y)' \in Nat
  <2>1. \A g \in Ends : \A y : Frames(g, y)' \in Nat /\ Indicated(g, y)' \in Nat
    BY CreditsFinite DEF IInv, Rest, Frames, Indicated
  <2>2. \A g \in Ends : Other(g) \in Ends BY OtherEnd
  <2> QED BY <2>1, <2>2 DEF OnAir
<1>14. Mine(chan[f][i], sender[f][i]) \in Int
       /\ Theirs(chan[Other(f)][j], receiver[Other(f)][j]) \in Int
  BY <1>3, MoneyType
<1>15. CASE f = e
  <2>1. Mine(chan'[f][i], sender'[f][i]) = Mine(chan[f][i], sender[f][i]) + Share(m, "ind", x)
    BY <1>1, <1>6, <1>15, <1>a
  <2>2. Theirs(chan'[Other(f)][j], receiver'[Other(f)][j]) = Theirs(chan[Other(f)][j], receiver[Other(f)][j])
    BY <1>1, <1>15
  <2> HIDE DEF m
  <2>3. OnAir(f, x)' \in Nat /\ OnAir(f, x) = OnAir(f, x)' + Share(m, "ind", x) BY <1>11, <1>13, <1>15
  <2> QED BY <1>8, <1>10, <1>11, <1>14, <2>1, <2>2, <2>3
<1>16. CASE f = Other(e)
  <2>1. Mine(chan'[f][i], sender'[f][i]) = Mine(chan[f][i], sender[f][i]) BY <1>1, <1>16
  <2>2. Theirs(chan'[Other(f)][j], receiver'[Other(f)][j])
          = Theirs(chan[Other(f)][j], receiver[Other(f)][j]) - Share(m, "data", x)
    BY <1>1, <1>3, <1>6, <1>7, <1>16
  <2> HIDE DEF m
  <2>3. OnAir(f, x)' \in Nat /\ OnAir(f, x) = OnAir(f, x)' + Share(m, "data", x) BY <1>11, <1>13, <1>16
  <2> QED BY <1>8, <1>10, <1>11, <1>14, <2>1, <2>2, <2>3
<1> QED BY <1>2, <1>15, <1>16

LEMMA LinkedLess ==
    ASSUME IInv, Apart
    PROVE  \A f \in Ends : linked[f].conn <= count.links
BY DEF Apart, Bounded

(* A packet that opens nothing and carries no credits.                     *)
LEMMA RxPlain ==
    ASSUME IInv, IInv', Apart, Balance, NEW e \in Ends, NEW k, Received(e, k), k \notin {"ind", "data"},
           chan'[Other(e)] = chan[Other(e)],
           \A i \in Slots : chan'[e][i] = chan[e][i] \/ SameRecord(chan[e][i], chan'[e][i])
                               \/ chan'[e][i] = Closed(chan[e][i]),
           \A f \in Ends : linked'[f].conn <= count.links,
           k = "res" => \A i \in Slots : ~(chan[e][i].state = "Connecting" /\ Head(wire[e]).id = chan[e][i].id)
    PROVE  Apart' /\ Balance'
<1>1. ASSUME NEW i \in Slots
      PROVE  /\ Lessens(chan[e][i], chan'[e][i])
             /\ chan'[e][i].state \in OpenStates =>
                  /\ chan[e][i].state = chan'[e][i].state
                  /\ Mine(chan'[e][i], sender[e][i]) = Mine(chan[e][i], sender[e][i])
                  /\ Theirs(chan'[e][i], receiver[e][i]) = Theirs(chan[e][i], receiver[e][i])
  <2>1. CASE chan'[e][i] = chan[e][i] BY <2>1 DEF Lessens
  <2>2. CASE SameRecord(chan[e][i], chan'[e][i])
    BY <2>2 DEF SameRecord, Lessens, Mine, Theirs, OpenStates
  <2>3. CASE chan'[e][i] = Closed(chan[e][i])
    <3>1. chan[e][i] \in Chan BY SlotType DEF IInv
    <3>2. Closed(chan[e][i]).state = "Disconnected" /\ Closed(chan[e][i]).id = chan[e][i].id
          /\ Closed(chan[e][i]).conn = None
      BY <3>1 DEF Closed, Chan
    <3> QED BY <2>3, <3>2 DEF Lessens, OpenStates
  <2> QED BY <2>1, <2>2, <2>3
<1>2. Head(wire[e]).kind = k BY DEF Received
<1>3. Apart' BY <1>1, <1>2, RxApart DEF OpenStates
<1>4. ASSUME NEW i \in Slots
      PROVE  chan'[e][i].state \in OpenStates =>
              /\ Mine(chan'[e][i], sender[e][i])
                   = Mine(chan[e][i], sender[e][i]) + Share(Head(wire[e]), "ind", chan[e][i].id)
              /\ Theirs(chan'[e][i], receiver[e][i])
                   = Theirs(chan[e][i], receiver[e][i]) - Share(Head(wire[e]), "data", chan[e][i].id)
  <2>1. Share(Head(wire[e]), "ind", chan[e][i].id) = 0 /\ Share(Head(wire[e]), "data", chan[e][i].id) = 0
    BY <1>2 DEF Share
  <2>2. Mine(chan[e][i], sender[e][i]) \in Int /\ Theirs(chan[e][i], receiver[e][i]) \in Int
    BY MoneyType
  <2> QED BY <1>1, <2>1, <2>2
<1>5. Balance' BY <1>1, <1>4, RxBalance
<1> QED BY <1>3, <1>5

(* All but one end's slots stay; all but one slot stays.                   *)
LEMMA OtherStays ==
    ASSUME IInv, NEW e \in Ends,
           \/ chan' = chan
           \/ \E c : chan' = [chan EXCEPT ![e] = c]
           \/ \E i \in Slots : \E r : chan' = [chan EXCEPT ![e][i] = r]
    PROVE  chan'[Other(e)] = chan[Other(e)]
BY OtherEnd DEF IInv, Shape

LEMMA OneStays ==
    ASSUME IInv, NEW e \in Ends, NEW i \in Slots, NEW r, chan' = [chan EXCEPT ![e][i] = r]
    PROVE  chan'[e][i] = r /\ \A j \in Slots : j # i => chan'[e][j] = chan[e][j]
BY DEF IInv, Shape

LEMMA RxUpMore ==
    ASSUME IInv, IInv', Apart, Balance, NEW e \in Ends, RxUp(e)
    PROVE  Apart' /\ Balance'
<1>1. Received(e, "up") /\ chan' = chan BY DEF RxUp
<1>2. Head(wire[e]).conn <= count.links
  <2>1. wire[e][1].kind = "up" /\ 1 \in 1 .. Len(wire[e]) /\ Head(wire[e]) = wire[e][1]
    BY <1>1, TailWire DEF Received
  <2> QED BY <2>1 DEF Apart, Bounded
<1>3. \A f \in Ends : linked'[f].conn <= count.links
  BY <1>2, LinkedLess DEF RxUp, IInv, Rest
<1> QED BY <1>1, <1>3, RxPlain

LEMMA RxDownMore ==
    ASSUME IInv, IInv', Apart, Balance, NEW e \in Ends, RxDown(e)
    PROVE  Apart' /\ Balance'
<1> DEFINE after(i) == IF chan[e][i].conn = Head(wire[e]).conn THEN Closed(chan[e][i]) ELSE chan[e][i]
           c == [i \in Slots |-> after(i)]
<1>1. Received(e, "down") /\ chan' = [chan EXCEPT ![e] = c] BY DEF RxDown
<1>2. \A i \in Slots : chan'[e][i] = chan[e][i] \/ chan'[e][i] = Closed(chan[e][i])
  BY <1>1 DEF IInv, Shape
<1>3. \A f \in Ends : linked'[f].conn <= count.links BY LinkedLess DEF RxDown, IInv, Rest
<1>4. chan'[Other(e)] = chan[Other(e)]
  <2> HIDE DEF c
  <2> QED BY <1>1, OtherStays
<1> QED BY <1>1, <1>2, <1>3, <1>4, RxPlain

LEMMA RxDisconnectRequestMore ==
    ASSUME IInv, IInv', Apart, Balance, NEW e \in Ends, RxDisconnectRequest(e)
    PROVE  Apart' /\ Balance'
<1> DEFINE S == {i \in Slots : chan[e][i].cid = Head(wire[e]).cid}
           i == First(S)
           r == [chan[e][i] EXCEPT !.state = "PeerDisconnecting"]
<1>1. Received(e, "dreq") /\ linked' = linked BY DEF RxDisconnectRequest
<1>2. \A f \in Ends : linked'[f].conn <= count.links BY <1>1, LinkedLess
<1>3. CASE S = {} BY <1>1, <1>2, <1>3, RxPlain DEF RxDisconnectRequest
<1>4. CASE S # {}
  <2>1. i \in Slots BY <1>4, FirstIn
  <2>2. chan' = [chan EXCEPT ![e][i] = r] BY <1>4 DEF RxDisconnectRequest
  <2>3. chan[e][i] \in Chan BY <2>1, SlotType DEF IInv
  <2>4. SameRecord(chan[e][i], r) BY <2>3, EndedRecord
  <2> HIDE DEF i, r
  <2>5. chan'[Other(e)] = chan[Other(e)] BY <2>1, <2>2, OtherStays
  <2>6. \A j \in Slots : chan'[e][j] = chan[e][j] \/ SameRecord(chan[e][j], chan'[e][j])
    BY <2>1, <2>2, <2>4, OneStays
  <2> QED BY <1>1, <1>2, <2>5, <2>6, RxPlain
<1> QED BY <1>3, <1>4

LEMMA RxDisconnectResponseMore ==
    ASSUME IInv, IInv', Apart, Balance, NEW e \in Ends, RxDisconnectResponse(e)
    PROVE  Apart' /\ Balance'
<1> DEFINE S == {i \in Slots : chan[e][i].state = "Disconnecting" /\ chan[e][i].cid = Head(wire[e]).cid}
           i == First(S)
           r == Closed(chan[e][i])
<1>1. Received(e, "drsp") /\ linked' = linked BY DEF RxDisconnectResponse
<1>2. \A f \in Ends : linked'[f].conn <= count.links BY <1>1, LinkedLess
<1>3. CASE S = {} BY <1>1, <1>2, <1>3, RxPlain DEF RxDisconnectResponse
<1>4. CASE S # {}
  <2>1. i \in Slots BY <1>4, FirstIn
  <2>2. chan' = [chan EXCEPT ![e][i] = r] BY <1>4 DEF RxDisconnectResponse, SetChan
  <2>3. r = Closed(chan[e][i]) OBVIOUS
  <2> HIDE DEF i, r
  <2>5. chan'[Other(e)] = chan[Other(e)] BY <2>1, <2>2, OtherStays
  <2>6. \A j \in Slots : chan'[e][j] = chan[e][j] \/ chan'[e][j] = Closed(chan[e][j])
    BY <2>1, <2>2, <2>3, OneStays
  <2> QED BY <1>1, <1>2, <2>5, <2>6, RxPlain
<1> QED BY <1>3, <1>4

(* The head of what end e reads, with the numbers all agree on.            *)
LEMMA HeadAgrees ==
    ASSUME IInv, Apart, NEW e \in Ends, NEW k \in Signals, Received(e, k), NEW i \in Slots,
           chan[e][i].state \in OpenStates, chan[e][i].id = Head(wire[e]).id
    PROVE  /\ chan[e][i].conn = Head(wire[e]).conn
           /\ k = "data" => Head(wire[e]).cid = i
           /\ k \in {"ind", "res"} /\ chan[e][i].state = "Connected" => chan[e][i].peer = Head(wire[e]).cid
<1> DEFINE m == Head(wire[e])
           q == chan[e][i]
<1>1. PICK g \in Places, h \in Links : Agree(g, h) BY DEF Apart, Agreed
<1>2. m = wire[e][1] /\ 1 \in 1 .. Len(wire[e]) /\ m.kind = k BY TailWire DEF Received
<1>3. SignalAgrees(e, m, g, h) BY <1>1, <1>2 DEF Agree
<1>4. SlotAgrees(e, i, q, sender[e][i], g, h) BY <1>1 DEF Agree
<1>5. q.id # 0 /\ q.conn # None BY DEF Apart, More, MoreOK
<1> HIDE DEF m
<1>6. q.conn = m.conn BY <1>2, <1>3, <1>4, <1>5 DEF SignalAgrees, SlotAgrees, m
<1>7. k = "data" => m.cid = i BY <1>2, <1>3, <1>4, <1>5 DEF SignalAgrees, SlotAgrees, m
<1>8. k \in {"ind", "res"} /\ q.state = "Connected" => q.peer = m.cid
  BY <1>2, <1>3, <1>4 DEF SignalAgrees, SlotAgrees, m
<1> QED BY <1>6, <1>7, <1>8 DEF m

(* A channel that end e hears of is open there as Connected, if at all.    *)
LEMMA HeadHeard ==
    ASSUME IInv, Apart, NEW e \in Ends, NEW k \in {"ind", "data"}, Received(e, k), NEW i \in Slots,
           chan[e][i].state \in OpenStates, chan[e][i].id = Head(wire[e]).id
    PROVE  chan[e][i].state = "Connected"
<1>1. Head(wire[e]) = wire[e][1] /\ 1 \in 1 .. Len(wire[e]) /\ Head(wire[e]).kind = k
  BY TailWire DEF Received
<1>2. chan[e][i].state # "PeerConnecting"
  <2>1. In(wire[e], Said, chan[e][i].id) BY <1>1 DEF In, Said
  <2> QED BY <2>1 DEF Apart, Waiting, Unanswered
<1>3. chan[e][i].state # "Connecting"
  <2> SUFFICES ASSUME chan[e][i].state = "Connecting" PROVE FALSE OBVIOUS
  <2>1. \A p \in 1 .. Len(wire[e]) :
              wire[e][p].kind \in {"data", "ind"} /\ wire[e][p].id = chan[e][i].id =>
                 \E q \in 1 .. p - 1 : wire[e][q].kind = "res" /\ wire[e][q].id = chan[e][i].id
    BY DEF Apart, Opening
  <2>2. \E q \in 1 .. 1 - 1 : wire[e][q].kind = "res" BY <1>1, <2>1
  <2> QED BY <2>2
<1> QED BY <1>2, <1>3 DEF OpenStates

LEMMA RxMoney ==
    ASSUME IInv, IInv', Apart, Balance, NEW e \in Ends, NEW k \in {"ind", "data"}, Received(e, k),
           linked' = linked, chan'[Other(e)] = chan[Other(e)],
           \A i \in Slots : Lessens(chan[e][i], chan'[e][i]),
           \A i \in Slots : chan'[e][i].state \in OpenStates =>
              /\ Mine(chan'[e][i], sender[e][i])
                   = Mine(chan[e][i], sender[e][i]) + Share(Head(wire[e]), "ind", chan[e][i].id)
              /\ Theirs(chan'[e][i], receiver[e][i])
                   = Theirs(chan[e][i], receiver[e][i]) - Share(Head(wire[e]), "data", chan[e][i].id)
    PROVE  Apart' /\ Balance'
<1>1. \A f \in Ends : linked'[f].conn <= count.links BY LinkedLess
<1>2. Head(wire[e]).kind # "res" BY DEF Received
<1>3. Apart' BY <1>1, <1>2, RxApart
<1>4. Balance' BY RxBalance
<1> QED BY <1>3, <1>4

LEMMA ShareOf ==
    ASSUME NEW m \in Message, NEW x
    PROVE  /\ m.kind = "data" => Share(m, "data", x) = (IF m.id = x THEN 1 ELSE 0) /\ Share(m, "ind", x) = 0
           /\ m.kind = "ind" => Share(m, "ind", x) = (IF m.id = x THEN m.n ELSE 0) /\ Share(m, "data", x) = 0
BY DEF Share, Worth

(* A slot that a frame is not for, and one whose frame is not looked at.   *)
LEMMA DataElsewhere ==
    ASSUME IInv, Apart, NEW e \in Ends, Received(e, "data"), NEW i \in Slots,
           chan[e][i].state \in OpenStates,
           \/ i # Head(wire[e]).cid
           \/ chan[e][i].state # "Connected" \/ chan[e][i].cid # i
    PROVE  Share(Head(wire[e]), "data", chan[e][i].id) = 0
<1>1. Head(wire[e]) \in Message /\ Head(wire[e]).kind = "data" BY ReadType DEF IInv, Received
<1>2. Head(wire[e]).id # chan[e][i].id
  <2> SUFFICES ASSUME chan[e][i].id = Head(wire[e]).id PROVE FALSE OBVIOUS
  <2>1. "data" \in Signals BY DEF Signals
  <2>2. Head(wire[e]).cid = i BY <2>1, HeadAgrees
  <2>3. chan[e][i].state = "Connected" BY HeadHeard
  <2>4. chan[e][i].cid = i BY DEF Apart, More, MoreOK
  <2> QED BY <2>2, <2>3, <2>4
<1> QED BY <1>1, <1>2, ShareOf

LEMMA RxDataMore ==
    ASSUME IInv, IInv', Apart, Balance, NEW e \in Ends, RxData(e)
    PROVE  Apart' /\ Balance'
<1> DEFINE m == Head(wire[e])
           i == m.cid
           q == chan[e][i]
           own == IF m.id = q.id THEN 1 ELSE 0
<1>1. Received(e, "data") /\ linked' = linked BY DEF RxData
<1>2. m \in Message /\ m.kind = "data" BY <1>1, ReadType DEF IInv, Received
<1>3. \A x : Share(m, "ind", x) = 0 BY <1>2, ShareOf
<1>4. \A j \in Slots : Mine(chan[e][j], sender[e][j]) \in Int /\ Theirs(chan[e][j], receiver[e][j]) \in Int
  BY MoneyType
<1>5. CASE i \notin Slots \/ q.state # "Connected" \/ q.cid # i
  <2>1. chan' = chan BY <1>5 DEF RxData
  <2>2. \A j \in Slots : Lessens(chan[e][j], chan'[e][j]) BY <2>1 DEF Lessens
  <2>3. ASSUME NEW j \in Slots, chan'[e][j].state \in OpenStates
        PROVE  Share(m, "data", chan[e][j].id) = 0
    <3>1. j # m.cid \/ chan[e][j].state # "Connected" \/ chan[e][j].cid # j BY <1>5
    <3> QED BY <1>1, <2>1, <2>3, <3>1, DataElsewhere
  <2> HIDE DEF m
  <2>4. \A j \in Slots : chan'[e][j].state \in OpenStates =>
              /\ Mine(chan'[e][j], sender[e][j])
                   = Mine(chan[e][j], sender[e][j]) + Share(m, "ind", chan[e][j].id)
              /\ Theirs(chan'[e][j], receiver[e][j])
                   = Theirs(chan[e][j], receiver[e][j]) - Share(m, "data", chan[e][j].id)
    BY <1>3, <1>4, <2>1, <2>3
  <2> QED BY <1>1, <2>1, <2>2, <2>4, RxMoney DEF m
<1>6. CASE ~(i \notin Slots \/ q.state # "Connected" \/ q.cid # i)
  <2>1. i \in Slots /\ q.state = "Connected" BY <1>6
  <2>2. q \in Chan /\ receiver[e][i] \in Listener BY <2>1, SlotType DEF IInv
  <2>3. own \in Int /\ Share(m, "data", q.id) = own BY <1>2, ShareOf
  <2>4. \E r : /\ chan' = [chan EXCEPT ![e][i] = r]
               /\ SameNames(q, r) /\ r.credits = q.credits /\ r.astray = q.astray
               /\ r.available + r.skew = q.available + q.skew - own
               /\ r.available \in Int /\ r.skew \in Int
    <3>1. CASE q.available = 0
      <4> DEFINE z == q.skew - own
                 r == [q EXCEPT !.skew = z]
      <4>1. chan' = [chan EXCEPT ![e][i] = r] BY <1>6, <3>1 DEF RxData, SetChan
      <4> HIDE DEF i, q, own
      <4>2. z \in Int /\ q.available \in Int /\ q.skew \in Int BY <2>2, <2>3 DEF Chan
      <4>3. SameNames(q, r) /\ r.credits = q.credits /\ r.astray = q.astray
            /\ r.available = q.available /\ r.skew = z
        BY <2>2 DEF Chan, SameNames
      <4> HIDE DEF r
      <4>4. r.available + r.skew = q.available + q.skew - own BY <2>3, <4>2, <4>3 DEF z
      <4> QED BY <4>1, <4>2, <4>3, <4>4
    <3>2. CASE q.available # 0
      <4>1. PICK whole \in BOOLEAN :
             chan' = [chan EXCEPT ![e][i] =
                          [q EXCEPT !.available = q.available - 1, !.received = q.received + 1,
                                    !.skew = q.skew + 1 - own,
                                    !.inbound = IF whole /\ q.inbound < QLen THEN q.inbound + 1
                                                ELSE q.inbound]]
        BY <1>6, <3>2 DEF RxData, SetChan
      <4> DEFINE n == IF whole /\ q.inbound < QLen THEN q.inbound + 1 ELSE q.inbound
                 z == q.skew + 1 - own
                 a == q.available - 1
                 r == [q EXCEPT !.available = a, !.received = q.received + 1, !.skew = z, !.inbound = n]
      <4> HIDE DEF i, q, own
      <4>2. z \in Int /\ a \in Int /\ q.available \in Int /\ q.skew \in Int BY <2>2, <2>3 DEF Chan
      <4>3. chan' = [chan EXCEPT ![e][i] = r] BY <4>1
      <4>4. SameNames(q, r) /\ r.credits = q.credits /\ r.astray = q.astray
            /\ r.available = a /\ r.skew = z
        BY <2>2 DEF Chan, SameNames
      <4> HIDE DEF r
      <4>5. r.available + r.skew = q.available + q.skew - own BY <2>3, <4>2, <4>4 DEF z, a
      <4> QED BY <4>2, <4>3, <4>4, <4>5
    <3> QED BY <3>1, <3>2
  <2>5. PICK r : /\ chan' = [chan EXCEPT ![e][i] = r]
                 /\ SameNames(q, r) /\ r.credits = q.credits /\ r.astray = q.astray
                 /\ r.available + r.skew = q.available + q.skew - own
                 /\ r.available \in Int /\ r.skew \in Int
    BY <2>4
  <2>6. \A j \in Slots : j # i => Share(m, "data", chan[e][j].id) = 0 \/ chan[e][j].state \notin OpenStates
    BY <1>1, DataElsewhere
  <2>7. q.available \in Int /\ q.skew \in Int BY <2>2 DEF Chan
  <2>8. Theirs(r, receiver[e][i]) = Theirs(q, receiver[e][i]) - own
    <3> DEFINE v == receiver[e][i]
               u == IF v.pc = "told" THEN v.n ELSE 0
    <3>1. u \in Int BY <2>2 DEF Listener
    <3>2. Theirs(r, v) = r.available + u + r.skew /\ Theirs(q, v) = q.available + u + q.skew
      BY <2>1, <2>5 DEF Theirs, SameNames
    <3> HIDE DEF u, v, q, own, m
    <3> QED BY <2>3, <2>5, <2>7, <3>1, <3>2 DEF v
  <2>9. Mine(r, sender[e][i]) = Mine(q, sender[e][i]) BY <2>5 DEF Mine, SameNames
  <2> HIDE DEF m, own
  <2>10. chan'[e][i] = r /\ \A j \in Slots : j # i => chan'[e][j] = chan[e][j] BY <2>1, <2>5, OneStays
  <2>11. \A j \in Slots : Lessens(chan[e][j], chan'[e][j])
    BY <2>1, <2>5, <2>10 DEF Lessens, SameNames, OpenStates
  <2>12. chan'[Other(e)] = chan[Other(e)] BY <2>1, <2>5, OtherStays
  <2>13. ASSUME NEW j \in Slots, chan'[e][j].state \in OpenStates
         PROVE /\ Mine(chan'[e][j], sender[e][j])
                   = Mine(chan[e][j], sender[e][j]) + Share(m, "ind", chan[e][j].id)
               /\ Theirs(chan'[e][j], receiver[e][j])
                   = Theirs(chan[e][j], receiver[e][j]) - Share(m, "data", chan[e][j].id)
    <3>1. CASE j = i BY <1>3, <1>4, <2>3, <2>8, <2>9, <2>10, <3>1
    <3>2. CASE j # i
      <4>1. chan'[e][j] = chan[e][j] /\ Share(m, "data", chan[e][j].id) = 0 BY <2>6, <2>10, <2>13, <3>2
      <4> QED BY <1>3, <1>4, <4>1
    <3> QED BY <3>1, <3>2
  <2> QED BY <1>1, <2>11, <2>12, <2>13, RxMoney DEF m
<1> QED BY <1>5, <1>6

LEMMA RxIndicationMore ==
    ASSUME IInv, IInv', Apart, Balance, NEW e \in Ends, RxIndication(e)
    PROVE  Apart' /\ Balance'
<1> DEFINE m == Head(wire[e])
           S == {i \in Slots : chan[e][i].state = "Connected" /\ chan[e][i].peer = m.cid
                                                              /\ chan[e][i].conn = m.conn}
           w == First(S)
           q == chan[e][w]
           z == IF q.id = m.id THEN q.astray ELSE q.astray + m.n
           taken == [q EXCEPT !.credits = q.credits + m.n, !.astray = z]
           c == [i \in Slots |-> IF i = w THEN taken ELSE Astray(chan[e][i], m)]
<1>1. Received(e, "ind") /\ linked' = linked BY DEF RxIndication
<1>2. m \in Message /\ m.kind = "ind" /\ m.n \in Nat BY <1>1, ReadType DEF IInv, Received, Message
<1>3. \A x : /\ Share(m, "data", x) = 0 /\ Share(m, "ind", x) = (IF m.id = x THEN m.n ELSE 0)
  BY <1>2, ShareOf
<1>4. \A j \in Slots : Mine(chan[e][j], sender[e][j]) \in Int /\ Theirs(chan[e][j], receiver[e][j]) \in Int
  BY MoneyType
<1>5. \A j \in Slots : chan[e][j].state \in OpenStates /\ chan[e][j].id = m.id => j \in S
  <2> SUFFICES ASSUME NEW j \in Slots, chan[e][j].state \in OpenStates, chan[e][j].id = m.id
               PROVE  j \in S
    OBVIOUS
  <2>1. "ind" \in Signals /\ "ind" \in {"ind", "data"} BY DEF Signals
  <2>2. chan[e][j].state = "Connected" BY <1>1, <2>1, HeadHeard
  <2>3. chan[e][j].conn = m.conn /\ chan[e][j].peer = m.cid BY <1>1, <2>1, <2>2, HeadAgrees
  <2> QED BY <2>2, <2>3
<1>6. CASE S = {}
  <2>1. chan' = chan BY <1>6 DEF RxIndication
  <2>2. \A j \in Slots : Lessens(chan[e][j], chan'[e][j]) BY <2>1 DEF Lessens
  <2>3. \A j \in Slots : chan'[e][j].state \in OpenStates => Share(m, "ind", chan[e][j].id) = 0
    BY <1>3, <1>5, <1>6, <2>1
  <2> HIDE DEF m, S
  <2>4. \A j \in Slots : chan'[e][j].state \in OpenStates =>
              /\ Mine(chan'[e][j], sender[e][j])
                   = Mine(chan[e][j], sender[e][j]) + Share(m, "ind", chan[e][j].id)
              /\ Theirs(chan'[e][j], receiver[e][j])
                   = Theirs(chan[e][j], receiver[e][j]) - Share(m, "data", chan[e][j].id)
    BY <1>3, <1>4, <2>1, <2>3
  <2> QED BY <1>1, <2>1, <2>2, <2>4, RxMoney DEF m
<1>7. CASE S # {}
  <2>1. w \in S BY <1>7, FirstIn
  <2>2. chan' = [chan EXCEPT ![e] = c] BY <1>7 DEF RxIndication
  <2>3. chan'[Other(e)] = chan[Other(e)]
    <3> HIDE DEF c
    <3> QED BY <2>2, OtherStays
  <2>4. chan'[e] = c
    <3> HIDE DEF c
    <3> QED BY <2>2 DEF IInv, Shape
  <2>5. w \in Slots /\ q.state = "Connected" /\ q \in Chan BY <2>1, SlotType DEF IInv
  <2>6. chan'[e][w] = taken BY <2>4, <2>5
  <2>7. \A j \in Slots : j # w => chan'[e][j] = Astray(chan[e][j], m) BY <2>4
  <2>8. SameNames(q, taken) /\ taken.credits = q.credits + m.n /\ taken.astray = z
        /\ taken.available = q.available /\ taken.skew = q.skew
    <3> HIDE DEF z, m, w
    <3> QED BY <2>5 DEF SameNames, Chan
  <2>9. Lessens(q, taken) BY <2>5, <2>8 DEF Lessens, SameNames
  <2>10. \A s, v : Theirs(taken, v) = Theirs(q, v)
    BY <2>5, <2>8 DEF Theirs, SameNames
  <2>11. Mine(taken, sender[e][w]) = Mine(q, sender[e][w]) + Share(m, "ind", q.id)
    <3>a. \A j \in Slots : sender[e][j].grant \in Int BY SenderType
    <3>b. \A r \in Chan : r.credits \in Int /\ r.astray \in Int BY DEF Chan
    <3>1. q.credits \in Int /\ q.astray \in Int /\ sender[e][w].grant \in Int BY <2>5, <3>a, <3>b
    <3>c. Share(m, "ind", q.id) = (IF m.id = q.id THEN m.n ELSE 0) BY <1>3
    <3>2. z = q.astray + m.n - Share(m, "ind", q.id)
      <4> DEFINE y == q.id
                 a == q.astray
                 n == m.n
                 x == m.id
      <4>1. z = (IF y = x THEN a ELSE a + n) /\ Share(m, "ind", q.id) = (IF x = y THEN n ELSE 0) BY <3>c
      <4>2. a \in Int /\ n \in Int BY <1>2, <3>1
      <4> HIDE DEF y, a, n, x, z
      <4>3. z = a + n - Share(m, "ind", q.id) BY <4>1, <4>2
      <4> QED BY <4>3 DEF a, n
    <3>3. Mine(taken, sender[e][w]) = q.credits + m.n + sender[e][w].grant - z
          /\ Mine(q, sender[e][w]) = q.credits + sender[e][w].grant - q.astray
      BY <2>5, <2>8 DEF Mine, SameNames
    <3>4. Share(m, "ind", q.id) \in Int BY <1>2, <1>3
    <3> HIDE DEF q, z, m, w
    <3> QED BY <1>2, <3>1, <3>2, <3>3, <3>4
  <2>12. ASSUME NEW j \in Slots, j # w
         PROVE  /\ Lessens(chan[e][j], chan'[e][j])
                /\ chan'[e][j].state \in OpenStates =>
                    /\ Mine(chan'[e][j], sender[e][j])
                        = Mine(chan[e][j], sender[e][j]) + Share(m, "ind", chan[e][j].id)
                    /\ \A v : Theirs(chan'[e][j], v) = Theirs(chan[e][j], v)
    <3> DEFINE p == chan[e][j]
               r == chan'[e][j]
               y == p.astray - m.n
    <3>1. p \in Chan BY SlotType DEF IInv
    <3>2. r = Astray(p, m) BY <2>7, <2>12
    <3>3. CASE p.id # m.id
      <4>1. r = p BY <3>2, <3>3 DEF Astray
      <4>2. Share(m, "ind", p.id) = 0 BY <1>3, <3>3
      <4> QED BY <1>4, <4>1, <4>2 DEF Lessens
    <3>4. CASE p.id = m.id
      <4>1. r = [p EXCEPT !.astray = y] BY <3>2, <3>4 DEF Astray
      <4>2. SameNames(p, r) /\ r.credits = p.credits /\ r.astray = y /\ r.available = p.available
            /\ r.skew = p.skew
        <5> HIDE DEF y, r
        <5> QED BY <3>1, <4>1 DEF SameNames, Chan
      <4>3. p.state \in OpenStates => p.state = "Connected" BY <1>5, <3>4
      <4>4. Lessens(p, r) BY <4>2, <4>3 DEF Lessens, SameNames, OpenStates
      <4>5. Share(m, "ind", p.id) = m.n BY <1>3, <3>4
      <4>6. p.credits \in Int /\ p.astray \in Int /\ sender[e][j].grant \in Int BY <3>1, SenderType DEF Chan
      <4>7. p.state = "Connected" => Mine(r, sender[e][j]) = Mine(p, sender[e][j]) + m.n
        <5> HIDE DEF m, p, r
        <5> QED BY <1>2, <4>2, <4>6 DEF Mine, SameNames
      <4>8. \A v : Theirs(r, v) = Theirs(p, v) BY <4>2 DEF Theirs, SameNames
      <4> QED BY <4>2, <4>3, <4>4, <4>5, <4>7, <4>8 DEF SameNames
    <3> QED BY <3>3, <3>4
  <2>13. \A j \in Slots : Lessens(chan[e][j], chan'[e][j]) BY <2>6, <2>9, <2>12
  <2>14. ASSUME NEW j \in Slots, chan'[e][j].state \in OpenStates
         PROVE /\ Mine(chan'[e][j], sender[e][j])
                   = Mine(chan[e][j], sender[e][j]) + Share(m, "ind", chan[e][j].id)
               /\ Theirs(chan'[e][j], receiver[e][j])
                   = Theirs(chan[e][j], receiver[e][j]) - Share(m, "data", chan[e][j].id)
    <3>1. Theirs(chan'[e][j], receiver[e][j]) = Theirs(chan[e][j], receiver[e][j])
      BY <2>6, <2>10, <2>12, <2>14
    <3>2. Mine(chan'[e][j], sender[e][j]) = Mine(chan[e][j], sender[e][j]) + Share(m, "ind", chan[e][j].id)
      BY <2>6, <2>11, <2>12, <2>14
    <3> HIDE DEF m
    <3> QED BY <1>3, <1>4, <3>1, <3>2
  <2> QED BY <1>1, <2>3, <2>13, <2>14, RxMoney
<1> QED BY <1>6, <1>7

-----------------------------------------------------------------------------
(* The radio. *)

LEMMA StillQuiet ==
    ASSUME More, UNCHANGED <<chan, handles, creator, acceptor, sender>>
    PROVE  Quieter /\ More'
<1>1. \A e \in Ends, i \in Slots : Answering(e, i)' <=> Answering(e, i) BY DEF Answering
<1>2. \A e \in Ends, i \in Slots :
        SameSlot(chan[e][i], handles[e][i], sender[e][i], chan[e][i], handles[e][i], sender[e][i])
  BY DEF SameSlot
<1>3. Quieter BY <1>1, <1>2 DEF Quieter
<1>4. More' BY <1>1 DEF More
<1> QED BY <1>3, <1>4

(* A link that no channel is on yet, or none.                              *)
LEMMA AnotherLink ==
    ASSUME IInv, IInv', Apart, UNCHANGED <<chan, handles, futures>>,
           \A e \in Ends : Dropped(e, 0), LinksKept,
           \A e \in Ends, i \in Slots : chan[e][i].state \in OpenStates => chan[e][i].conn # air'
    PROVE  Apart' /\ Balance'
<1>1. Quieter /\ More' BY StillQuiet DEF Apart, futures
<1>2. WireLess BY DEF WireLess
<1>3. ResKept BY DEF ResKept, OpenStates
<1>4. Apart' BY <1>1, <1>2, <1>3, Quietly
<1>5. Balance' BY DEF Balance, Pair
<1> QED BY <1>4, <1>5

LEMMA LinkUpMore == ASSUME IInv, IInv', Apart, Balance, LinkUp PROVE Apart' /\ Balance'
<1> DEFINE n == count.links + 1
           m == Msg("up", n, None, 0, 0)
<1>1. UNCHANGED <<chan, handles, futures, linked>> /\ air' = n /\ count' = [count EXCEPT !.links = n]
      /\ wire' = [e \in Ends |-> Append(wire[e], m)]
  BY DEF LinkUp
<1>2. count.links \in Nat BY ChannelsAssumption DEF IInv, Rest, Conns
<1>3. count'.links = n /\ count'.opens = count.opens BY <1>1 DEF IInv, Rest
<1>4. m.kind = "up" /\ m.conn = n BY DEF Msg
<1> HIDE DEF m
<1>5. \A e \in Ends : /\ Len(wire[e]) \in Nat /\ Len(wire'[e]) = Len(wire[e]) + 1
                      /\ \A p \in 1 .. Len(wire[e]) : wire'[e][p] = wire[e][p]
                      /\ wire'[e][Len(wire[e]) + 1] = m
  <2> SUFFICES ASSUME NEW e \in Ends
               PROVE  /\ Len(wire[e]) \in Nat /\ Len(wire'[e]) = Len(wire[e]) + 1
                      /\ \A p \in 1 .. Len(wire[e]) : wire'[e][p] = wire[e][p]
                      /\ wire'[e][Len(wire[e]) + 1] = m
    OBVIOUS
  <2>1. wire[e] \in Seq(Message) /\ wire'[e] = Append(wire[e], m) BY <1>1 DEF IInv, Rest
  <2> QED BY <2>1
<1>6. ASSUME NEW e \in Ends PROVE Dropped(e, 0)
  <2> SUFFICES ASSUME NEW p \in 1 .. Len(wire'[e]), wire'[e][p].kind \in Signals, NEW q \in 1 .. p
               PROVE  q + 0 \in 1 .. Len(wire[e]) /\ wire'[e][q] = wire[e][q + 0]
    BY DEF Dropped
  <2>1. p # Len(wire[e]) + 1 BY <1>4, <1>5 DEF Signals
  <2>2. p \in 1 .. Len(wire[e]) BY <1>5, <2>1
  <2>3. q \in 1 .. Len(wire[e]) BY <1>5, <2>2
  <2> QED BY <1>5, <2>3
<1>7. LinksKept
  <2>1. \A e \in Ends : linked'[e].conn <= count'.links
    <3>a. \A e \in Ends : linked[e].conn \in Conns BY DEF IInv, Rest
    <3>b. Conns \subseteq Nat BY ChannelsAssumption DEF Conns
    <3>1. \A e \in Ends : linked[e].conn <= count.links /\ linked[e].conn \in Nat
      BY <3>a, <3>b, LinkedLess
    <3> QED BY <1>1, <1>2, <1>3, <3>1
  <2>2. ASSUME NEW e \in Ends, NEW p \in 1 .. Len(wire'[e]), wire'[e][p].kind = "up"
        PROVE  wire'[e][p].conn <= count'.links
    <3>1. CASE p = Len(wire[e]) + 1 BY <1>2, <1>3, <1>4, <1>5, <3>1
    <3>2. CASE p # Len(wire[e]) + 1
      <4>1. p \in 1 .. Len(wire[e]) /\ wire'[e][p] = wire[e][p] BY <1>5, <3>2
      <4>2. wire[e][p].conn <= count.links BY <2>2, <4>1 DEF Apart, Bounded
      <4>3. wire[e][p].conn \in Nat
        <5>1. wire[e] \in Seq(Message) BY DEF IInv, Rest
        <5>2. wire[e][p] \in Message BY <4>1, <5>1
        <5> QED BY <5>2, ChannelsAssumption DEF Message, Conns
      <4> QED BY <1>2, <1>3, <4>1, <4>2, <4>3
    <3> QED BY <3>1, <3>2
  <2>3. air' <= count'.links BY <1>1, <1>2, <1>3
  <2> QED BY <1>2, <1>3, <2>1, <2>2, <2>3 DEF LinksKept
<1>8. \A e \in Ends, i \in Slots : chan[e][i].conn # air'
  <2>1. \A e \in Ends, i \in Slots : chan[e][i].conn <= count.links BY DEF Apart, Bounded
  <2> QED BY <1>1, <1>2, <2>1
<1> QED BY <1>1, <1>6, <1>7, <1>8, AnotherLink

LEMMA LinkDownMore == ASSUME IInv, IInv', Apart, Balance, LinkDown PROVE Apart' /\ Balance'
<1> DEFINE m == Msg("down", air, None, 0, 0)
<1>1. UNCHANGED <<chan, handles, futures, linked, count>> /\ air' = None BY DEF LinkDown
<1>2. PICK k1 \in 0 .. Len(wire[1]) : \E k2 \in 0 .. Len(wire[2]) :
        wire' = [e \in Ends |-> Append(SubSeq(wire[e], 1, IF e = 1 THEN k1 ELSE k2), m)]
  BY DEF LinkDown
<1>3. PICK k2 \in 0 .. Len(wire[2]) :
        wire' = [e \in Ends |-> Append(SubSeq(wire[e], 1, IF e = 1 THEN k1 ELSE k2), m)]
  BY <1>2
<1>4. m.kind = "down" BY DEF Msg
<1> HIDE DEF m
<1>5. ASSUME NEW e \in Ends
      PROVE  \E k \in 0 .. Len(wire[e]) :
                /\ Len(wire[e]) \in Nat /\ Len(wire'[e]) = k + 1
                /\ \A p \in 1 .. k : wire'[e][p] = wire[e][p]
                /\ wire'[e][k + 1] = m
  <2> DEFINE k == IF e = 1 THEN k1 ELSE k2
             s == SubSeq(wire[e], 1, k)
  <2>1. wire[e] \in Seq(Message) /\ k \in 0 .. Len(wire[e]) /\ wire'[e] = Append(s, m)
    BY <1>3 DEF IInv, Rest, Ends
  <2> HIDE DEF k
  <2>2. s \in Seq(Message) /\ Len(s) = k /\ \A p \in 1 .. k : s[p] = wire[e][p] BY <2>1
  <2> HIDE DEF s
  <2>3. Len(wire'[e]) = k + 1 /\ (\A p \in 1 .. k : wire'[e][p] = s[p]) /\ wire'[e][k + 1] = m
    BY <2>1, <2>2
  <2> QED BY <2>1, <2>2, <2>3
<1>6. ASSUME NEW e \in Ends PROVE Dropped(e, 0)
  <2> SUFFICES ASSUME NEW p \in 1 .. Len(wire'[e]), wire'[e][p].kind \in Signals, NEW q \in 1 .. p
               PROVE  q + 0 \in 1 .. Len(wire[e]) /\ wire'[e][q] = wire[e][q + 0]
    BY DEF Dropped
  <2>1. PICK k \in 0 .. Len(wire[e]) :
                /\ Len(wire[e]) \in Nat /\ Len(wire'[e]) = k + 1
                /\ \A x \in 1 .. k : wire'[e][x] = wire[e][x]
                /\ wire'[e][k + 1] = m
    BY <1>5
  <2>2. p # k + 1 BY <1>4, <2>1 DEF Signals
  <2>3. q \in 1 .. k BY <2>1, <2>2
  <2> QED BY <2>1, <2>3
<1>7. LinksKept
  <2>1. count.links \in Nat BY ChannelsAssumption DEF IInv, Rest, Conns
  <2>2. ASSUME NEW e \in Ends, NEW p \in 1 .. Len(wire'[e]), wire'[e][p].kind = "up"
        PROVE  wire'[e][p].conn <= count.links
    <3>1. PICK k \in 0 .. Len(wire[e]) :
                /\ Len(wire[e]) \in Nat /\ Len(wire'[e]) = k + 1
                /\ \A x \in 1 .. k : wire'[e][x] = wire[e][x]
                /\ wire'[e][k + 1] = m
      BY <1>5
    <3>2. p # k + 1 BY <1>4, <2>2, <3>1
    <3>3. p \in 1 .. k /\ p \in 1 .. Len(wire[e]) BY <3>1, <3>2
    <3> QED BY <2>2, <3>1, <3>3 DEF Apart, Bounded
  <2>3. \A e \in Ends : linked'[e].conn <= count.links BY <1>1, LinkedLess
  <2>4. air' <= count'.links BY <1>1, <2>1 DEF None
  <2> QED BY <1>1, <2>1, <2>2, <2>3, <2>4 DEF LinksKept
<1>8. \A e \in Ends, i \in Slots : chan[e][i].state \in OpenStates => chan[e][i].conn # air'
  BY <1>1 DEF Apart, More, MoreOK
<1> QED BY <1>1, <1>6, <1>7, <1>8, AnotherLink

-----------------------------------------------------------------------------
(* What an end writes. *)

LEMMA AppendWire ==
    ASSUME IInv, NEW e \in Ends, NEW m \in Message,
           wire' = [wire EXCEPT ![Other(e)] = Append(wire[Other(e)], m)]
    PROVE  LET o == Other(e) IN
           /\ wire'[e] = wire[e] /\ wire'[o] = Append(wire[o], m) /\ wire[o] \in Seq(Message)
           /\ Len(wire[o]) \in Nat /\ Len(wire'[o]) = Len(wire[o]) + 1
           /\ \A p \in 1 .. Len(wire[o]) : wire'[o][p] = wire[o][p]
           /\ wire'[o][Len(wire[o]) + 1] = m
<1> DEFINE o == Other(e)
<1>0. o \in Ends /\ o # e BY OtherEnd
<1>1. wire \in [Ends -> Seq(Message)] BY DEF IInv, Rest
<1> HIDE DEF o
<1>2. wire' = [wire EXCEPT ![o] = Append(wire[o], m)] BY DEF o
<1>3. wire'[e] = wire[e] /\ wire'[o] = Append(wire[o], m) /\ wire[o] \in Seq(Message)
  BY <1>0, <1>1, <1>2
<1>4. /\ Len(wire[o]) \in Nat /\ Len(wire'[o]) = Len(wire[o]) + 1
      /\ \A p \in 1 .. Len(wire[o]) : wire'[o][p] = wire[o][p]
      /\ wire'[o][Len(wire[o]) + 1] = m
  BY <1>3
<1> QED BY <1>3, <1>4 DEF o

LEMMA InAppend ==
    ASSUME IInv, NEW e \in Ends, NEW m \in Message,
           wire' = [wire EXCEPT ![Other(e)] = Append(wire[Other(e)], m)], NEW K, NEW x
    PROVE  /\ In(wire'[e], K, x) <=> In(wire[e], K, x)
           /\ In(wire'[Other(e)], K, x) <=> (In(wire[Other(e)], K, x) \/ (m.kind \in K /\ m.id = x))
<1> DEFINE o == Other(e)
<1>1. wire'[e] = wire[e]
      /\ Len(wire[o]) \in Nat /\ Len(wire'[o]) = Len(wire[o]) + 1
      /\ (\A p \in 1 .. Len(wire[o]) : wire'[o][p] = wire[o][p])
      /\ wire'[o][Len(wire[o]) + 1] = m
  BY AppendWire
<1> HIDE DEF o
<1>2. ASSUME In(wire'[o], K, x) PROVE In(wire[o], K, x) \/ (m.kind \in K /\ m.id = x)
  <2>1. PICK p \in 1 .. Len(wire'[o]) : wire'[o][p].kind \in K /\ wire'[o][p].id = x BY <1>2 DEF In
  <2>2. p \in 1 .. Len(wire[o]) \/ p = Len(wire[o]) + 1 BY <1>1
  <2> QED BY <1>1, <2>1, <2>2 DEF In
<1>3. ASSUME In(wire[o], K, x) PROVE In(wire'[o], K, x)
  <2>1. PICK p \in 1 .. Len(wire[o]) : wire[o][p].kind \in K /\ wire[o][p].id = x BY <1>3 DEF In
  <2>2. p \in 1 .. Len(wire'[o]) /\ wire'[o][p] = wire[o][p] BY <1>1
  <2> QED BY <2>1, <2>2 DEF In
<1>4. ASSUME m.kind \in K, m.id = x PROVE In(wire'[o], K, x)
  <2>1. Len(wire[o]) + 1 \in 1 .. Len(wire'[o]) BY <1>1
  <2> QED BY <1>1, <1>4, <2>1 DEF In
<1> QED BY <1>1, <1>2, <1>3, <1>4 DEF o

LEMMA AppendCredits ==
    ASSUME IInv, IInv', NEW e \in Ends, NEW m \in Message,
           wire' = [wire EXCEPT ![Other(e)] = Append(wire[Other(e)], m)], NEW x
    PROVE  /\ Share(m, "data", x) \in Nat /\ Share(m, "ind", x) \in Nat
           /\ OnAir(e, x) \in Nat /\ OnAir(Other(e), x) \in Nat
           /\ OnAir(e, x)' = OnAir(e, x) + Share(m, "data", x)
           /\ OnAir(Other(e), x)' = OnAir(Other(e), x) + Share(m, "ind", x)
<1> DEFINE o == Other(e)
<1>0. o \in Ends /\ o # e /\ Other(o) = e BY OtherEnd
<1>1. wire'[e] = wire[e] /\ wire'[o] = Append(wire[o], m) /\ wire[o] \in Seq(Message) BY AppendWire
<1>2. Frames(o, x)' = Frames(o, x) + Share(m, "data", x) BY <1>1, CreditsAppend DEF Frames
<1>3. Indicated(o, x)' = Indicated(o, x) + Share(m, "ind", x) BY <1>1, CreditsAppend DEF Indicated
<1>4. Frames(e, x)' = Frames(e, x) /\ Indicated(e, x)' = Indicated(e, x)
  BY <1>1 DEF Frames, Indicated
<1>5. Share(m, "data", x) \in Nat /\ Share(m, "ind", x) \in Nat BY ShareType
<1>6. \A f \in Ends : Frames(f, x) \in Nat /\ Indicated(f, x) \in Nat /\ OnAir(f, x) \in Nat BY CarriedType
<1>7. OnAir(e, x) = Frames(o, x) + Indicated(e, x) /\ OnAir(e, x)' = Frames(o, x)' + Indicated(e, x)'
      /\ OnAir(o, x) = Frames(e, x) + Indicated(o, x) /\ OnAir(o, x)' = Frames(e, x)' + Indicated(o, x)'
  BY <1>0 DEF OnAir
<1> HIDE DEF o
<1>8. /\ OnAir(e, x)' = OnAir(e, x) + Share(m, "data", x)
      /\ OnAir(o, x)' = OnAir(o, x) + Share(m, "ind", x)
  BY <1>0, <1>2, <1>3, <1>4, <1>5, <1>6, <1>7
<1> QED BY <1>0, <1>5, <1>6, <1>8 DEF o

(* A channel that one end has a handle of has been answered.               *)
LEMMA Spoken ==
    ASSUME IInv, Apart, NEW e \in Ends, NEW i \in Slots, handles[e][i] # {}
    PROVE  LET x == chan[e][i].id IN
           /\ x # 0
           /\ \A c \in Ends : creator[c].pc = "ask" => creator[c].id # x
           /\ \A f \in Ends : ~In(wire[f], {"req"}, x)
           /\ \A f \in Ends, j \in Slots :
                 (chan[f][j].state = "PeerConnecting" \/ Answering(f, j)) /\ chan[f][j].id = x
                    => f = e /\ j = i /\ Answering(e, i)
           /\ \A j \in Slots : chan[e][j].id = x => j = i
<1> DEFINE x == chan[e][i].id
<1>0. \A f \in Ends : (f = e \/ f = Other(e)) /\ Other(f) \in Ends /\ Other(Other(f)) = f
  BY OtherEnd DEF Ends, Other
<1>1. x # 0 BY DEF Apart, More, MoreOK
<1>2. \A f \in Ends : Unanswered(f, x) => f = e BY <1>0 DEF Unanswered
<1>3. \A f \in Ends : ~Unasked(f, x) BY <1>2 DEF Unasked
<1>4. \A j \in Slots : chan[e][j].id = x => j = i
  <2>1. PICK g \in Places, h \in Links : Agree(g, h) BY DEF Apart, Agreed
  <2>2. g[x][e] = i BY <1>1, <2>1 DEF Agree, SlotAgrees
  <2>3. \A j \in Slots : chan[e][j].id = x => g[x][e] = j BY <1>1, <2>1 DEF Agree, SlotAgrees
  <2> QED BY <2>2, <2>3
<1>5. ASSUME NEW c \in Ends, creator[c].pc = "ask" PROVE creator[c].id # x
  <2>1. Unasked(Other(c), creator[c].id) BY <1>5 DEF Apart, Asking
  <2> QED BY <1>0, <1>3, <2>1
<1>6. ASSUME NEW f \in Ends PROVE ~In(wire[f], {"req"}, x)
  <2> SUFFICES ASSUME NEW p \in 1 .. Len(wire[f]), wire[f][p].kind = "req", wire[f][p].id = x
               PROVE  FALSE
    BY DEF In
  <2>1. Unasked(f, wire[f][p].id) BY DEF Apart, Requested
  <2> QED BY <1>3, <2>1
<1>7. ASSUME NEW f \in Ends, NEW j \in Slots,
             chan[f][j].state = "PeerConnecting" \/ Answering(f, j), chan[f][j].id = x
      PROVE  f = e /\ j = i /\ Answering(e, i)
  <2>1. Unanswered(f, chan[f][j].id) BY <1>7 DEF Apart, Waiting
  <2>2. f = e /\ j = i BY <1>2, <1>4, <1>7, <2>1
  <2>3. chan[e][i].state # "PeerConnecting"
    <3>1. chan[e][i].state # "Connected" => chan[e][i].state \notin OpenStates BY Handed
    <3> QED BY <3>1 DEF OpenStates
  <2> QED BY <1>7, <2>2, <2>3
<1> QED BY <1>1, <1>4, <1>5, <1>6, <1>7

(* An end with a handle of a channel says something of it.                 *)
Meant(e, m) == \A g \in Places, h \in Links : Agree(g, h) => SignalAgrees(Other(e), m, g, h)

Saying(e, i, m) ==
    /\ Meant(e, m)
    /\ handles[e][i] # {} /\ m.id = chan[e][i].id /\ m.kind \in Said /\ m.conn = air
    /\ m.kind = "res" => m.n = Initial
    /\ \/ acceptor' = acceptor /\ ~Answering(e, i)
       \/ m.kind = "res" /\ Answering(e, i) /\ acceptor' = [acceptor EXCEPT ![e] = Idle]
    /\ wire' = [wire EXCEPT ![Other(e)] = Append(wire[Other(e)], m)]
    /\ UNCHANGED <<chan, handles, creator, linked, air, count>>

LEMMA SayingAnswers ==
    ASSUME IInv, NEW e \in Ends, NEW i \in Slots,
           \/ acceptor' = acceptor /\ ~Answering(e, i)
           \/ Answering(e, i) /\ acceptor' = [acceptor EXCEPT ![e] = Idle]
    PROVE  /\ ~Answering(e, i)'
           /\ \A f \in Ends, j \in Slots : Answering(f, j)' => Answering(f, j) /\ acceptor'[f] = acceptor[f]
           /\ \A f \in Ends, j \in Slots : Answering(f, j) /\ ~Answering(f, j)' => f = e /\ j = i
<1>1. CASE acceptor' = acceptor /\ ~Answering(e, i) BY <1>1 DEF Answering
<1>2. CASE Answering(e, i) /\ acceptor' = [acceptor EXCEPT ![e] = Idle]
  <2>1. acceptor'[e].pc = "idle" /\ \A f \in Ends : f # e => acceptor'[f] = acceptor[f]
    BY <1>2, AcceptorEnds DEF IInv
  <2> QED BY <1>2, <2>1 DEF Answering
<1> QED BY <1>1, <1>2

LEMMA SayingUnanswered ==
    ASSUME IInv, NEW e \in Ends, NEW i \in Slots, NEW m \in Message, Saying(e, i, m),
           NEW f \in Ends, NEW y, y # chan[e][i].id
    PROVE  /\ Unanswered(f, y) => Unanswered(f, y)'
           /\ Unasked(f, y) => Unasked(f, y)'
           /\ \A a \in Ends : \A K : In(wire'[a], K, y) <=> In(wire[a], K, y)
<1>1. \A a \in Ends : \A K : In(wire'[a], K, y) <=> In(wire[a], K, y)
  <2>1. \A a \in Ends : a = e \/ a = Other(e) BY DEF Ends, Other
  <2>2. m.id # y BY DEF Saying
  <2>3. wire' = [wire EXCEPT ![Other(e)] = Append(wire[Other(e)], m)] BY DEF Saying
  <2>4. \A K : /\ In(wire'[e], K, y) <=> In(wire[e], K, y)
               /\ In(wire'[Other(e)], K, y) <=> (In(wire[Other(e)], K, y) \/ (m.kind \in K /\ m.id = y))
    BY <2>3, InAppend
  <2> QED BY <2>1, <2>2, <2>4
<1>2. chan' = chan /\ handles' = handles BY DEF Saying
<1>3. Unanswered(f, y) => Unanswered(f, y)' BY <1>1, <1>2 DEF Unanswered
<1>4. Unasked(f, y) => Unasked(f, y)' BY <1>2, <1>3 DEF Unasked
<1> QED BY <1>1, <1>3, <1>4

LEMMA SayingAsking ==
    ASSUME IInv, Apart, NEW e \in Ends, NEW i \in Slots, NEW m \in Message, Saying(e, i, m)
    PROVE  Asking'
<1> SUFFICES ASSUME NEW c \in Ends, creator'[c].pc = "ask"
             PROVE  /\ creator'[c].id # 0 /\ creator'[c].conn # None
                    /\ Unasked(Other(c), creator[c].id)'
                    /\ \A f \in Ends : ~In(wire'[f], {"req"}, creator'[c].id)
                    /\ creator'[Other(c)].pc = "ask" => creator'[Other(c)].id # creator'[c].id
  BY DEF Asking
<1>0. Other(c) \in Ends BY OtherEnd
<1>1. creator' = creator /\ handles[e][i] # {} BY DEF Saying
<1>a. PICK y : y = creator[c].id OBVIOUS
<1>2. y # chan[e][i].id BY <1>1, <1>a, Spoken
<1>3. Unasked(Other(c), y) /\ \A f \in Ends : ~In(wire[f], {"req"}, y) BY <1>1, <1>a DEF Apart, Asking
<1>4. Unasked(Other(c), y)' BY <1>0, <1>2, <1>3, SayingUnanswered
<1>5. \A f \in Ends : ~In(wire'[f], {"req"}, y) BY <1>2, <1>3, SayingUnanswered
<1>6. y = creator'[c].id BY <1>1, <1>a
<1>7. Unasked(Other(c), creator[c].id)' BY <1>4, <1>6
<1> QED BY <1>1, <1>5, <1>6, <1>7 DEF Apart, Asking

LEMMA SayingRequested ==
    ASSUME IInv, Apart, NEW e \in Ends, NEW i \in Slots, NEW m \in Message, Saying(e, i, m)
    PROVE  Requested'
<1>0. wire' = [wire EXCEPT ![Other(e)] = Append(wire[Other(e)], m)] /\ m.kind # "req" /\ handles[e][i] # {}
  BY DEF Saying, Said
<1>1. ASSUME NEW f \in Ends, NEW p \in 1 .. Len(wire'[f]), wire'[f][p].kind = "req"
      PROVE  p \in 1 .. Len(wire[f]) /\ wire'[f][p] = wire[f][p]
  <2>1. f = e \/ f = Other(e) BY DEF Ends, Other
  <2>2. CASE f = e BY <1>0, <2>2, AppendWire
  <2>3. CASE f = Other(e)
    <3>1. p = Len(wire[f]) + 1 => wire'[f][p] = m BY <1>0, <2>3, AppendWire
    <3>2. p # Len(wire[f]) + 1 BY <1>0, <1>1, <3>1
    <3> QED BY <1>0, <2>3, <3>2, AppendWire
  <2> QED BY <2>1, <2>2, <2>3
<1> SUFFICES ASSUME NEW o \in Ends, NEW p \in 1 .. Len(wire'[o]), wire'[o][p].kind = "req"
             PROVE  /\ wire'[o][p].id # 0 /\ wire'[o][p].conn # None /\ wire'[o][p].n = Initial
                    /\ Unasked(o, wire[o][p].id)'
                    /\ \A f \in Ends : \A q \in 1 .. Len(wire'[f]) :
                          wire'[f][q].kind = "req" /\ wire'[f][q].id = wire'[o][p].id => f = o /\ q = p
  BY DEF Requested
<1>2. p \in 1 .. Len(wire[o]) /\ wire'[o][p] = wire[o][p] BY <1>1
<1>a. PICK y : y = wire[o][p].id OBVIOUS
<1>3. /\ y # 0 /\ wire[o][p].conn # None /\ wire[o][p].n = Initial
      /\ Unasked(o, y)
      /\ \A f \in Ends : \A q \in 1 .. Len(wire[f]) :
            wire[f][q].kind = "req" /\ wire[f][q].id = y => f = o /\ q = p
  BY <1>2, <1>a DEF Apart, Requested
<1>4. y # chan[e][i].id
  <2>1. In(wire[o], {"req"}, y) BY <1>2, <1>a DEF In
  <2>2. ~In(wire[o], {"req"}, chan[e][i].id) BY <1>0, Spoken
  <2> QED BY <2>1, <2>2
<1>5. Unasked(o, y)' BY <1>3, <1>4, SayingUnanswered
<1>6. y = wire'[o][p].id BY <1>2, <1>a
<1>7. Unasked(o, wire[o][p].id)' BY <1>5, <1>6
<1>8. \A f \in Ends : \A q \in 1 .. Len(wire'[f]) :
         wire'[f][q].kind = "req" /\ wire'[f][q].id = wire'[o][p].id => f = o /\ q = p
  BY <1>1, <1>3, <1>6
<1> QED BY <1>2, <1>3, <1>6, <1>7, <1>8

LEMMA SayingWaiting ==
    ASSUME IInv, Apart, NEW e \in Ends, NEW i \in Slots, NEW m \in Message, Saying(e, i, m)
    PROVE  Waiting'
<1> SUFFICES ASSUME NEW f \in Ends, NEW j \in Slots,
                    chan'[f][j].state = "PeerConnecting" \/ Answering(f, j)'
             PROVE  Unanswered(f, chan[f][j].id)'
  BY DEF Waiting
<1>1. chan' = chan /\ handles[e][i] # {} BY DEF Saying
<1>2. ~Answering(e, i)' /\ (Answering(f, j)' => Answering(f, j)) BY SayingAnswers DEF Saying
<1>a. PICK y : y = chan[f][j].id OBVIOUS
<1>3. Unanswered(f, y) BY <1>1, <1>2, <1>a DEF Apart, Waiting
<1>4. y # chan[e][i].id
  <2> SUFFICES ASSUME y = chan[e][i].id PROVE FALSE OBVIOUS
  <2>1. chan[f][j].state = "PeerConnecting" \/ Answering(f, j) BY <1>1, <1>2
  <2>a. \A b \in Ends, d \in Slots :
           (chan[b][d].state = "PeerConnecting" \/ Answering(b, d)) /\ chan[b][d].id = chan[e][i].id
                    => b = e /\ d = i /\ Answering(e, i)
    BY <1>1, Spoken
  <2>2. f = e /\ j = i BY <1>a, <2>1, <2>a
  <2>3. chan[e][i].state = "PeerConnecting" BY <1>1, <1>2, <2>2
  <2>4. chan[e][i].state # "Connected" => chan[e][i].state \notin OpenStates BY <1>1, Handed
  <2> QED BY <2>3, <2>4 DEF OpenStates
<1>5. Unanswered(f, y)' BY <1>3, <1>4, SayingUnanswered
<1>6. y = chan'[f][j].id BY <1>1, <1>a
<1> QED BY <1>5, <1>6

LEMMA SayingOpening ==
    ASSUME IInv, Apart, NEW e \in Ends, NEW i \in Slots, NEW m \in Message, Saying(e, i, m)
    PROVE  Opening'
<1> SUFFICES ASSUME NEW c \in Ends, NEW a \in Slots, chan'[c][a].state = "Connecting"
             PROVE
        /\ ~In(wire'[Other(c)], {"data", "ind"}, chan'[c][a].id)
        /\ \A p \in 1 .. Len(wire'[c]) :
              wire'[c][p].kind \in {"data", "ind"} /\ wire'[c][p].id = chan'[c][a].id =>
                 \E q \in 1 .. p - 1 : wire'[c][q].kind = "res" /\ wire'[c][q].id = chan'[c][a].id
        /\ \A j \in Slots : chan'[Other(c)][j].id = chan'[c][a].id =>
              /\ chan'[Other(c)][j].state # "Connecting"
              /\ chan'[Other(c)][j].state = "Connected" => handles'[Other(c)][j] # {}
              /\ handles'[Other(c)][j] # {} /\ ~Answering(Other(c), j)' /\ air' = chan'[c][a].conn =>
                    In(wire'[c], {"res"}, chan'[c][a].id)
  BY DEF Opening
<1>1. UNCHANGED <<chan, handles, air>> /\ handles[e][i] # {} /\ m.id = chan[e][i].id /\ m.conn = air
      /\ wire' = [wire EXCEPT ![Other(e)] = Append(wire[Other(e)], m)]
  BY DEF Saying
<1> DEFINE o == Other(c)
           x == chan[c][a].id
<1>0. o \in Ends /\ Other(o) = c /\ (e = c \/ e = o) /\ c # o BY OtherEnd DEF Ends, Other
<1> HIDE DEF o
<1>2. chan[c][a].state = "Connecting" /\ x # 0 /\ handles[c][a] = {}
  <2>1. chan[c][a].state = "Connecting" BY <1>1
  <2>2. chan[c][a].state \in OpenStates /\ chan[c][a].state # "Connected" BY <2>1 DEF OpenStates
  <2> QED BY <2>1, <2>2, Handed DEF Apart, More, MoreOK
<1>3. /\ ~In(wire[o], {"data", "ind"}, x)
      /\ \A p \in 1 .. Len(wire[c]) :
              wire[c][p].kind \in {"data", "ind"} /\ wire[c][p].id = x =>
                 \E q \in 1 .. p - 1 : wire[c][q].kind = "res" /\ wire[c][q].id = x
      /\ \A j \in Slots : chan[o][j].id = x =>
              /\ chan[o][j].state # "Connecting"
              /\ chan[o][j].state = "Connected" => handles[o][j] # {}
              /\ handles[o][j] # {} /\ ~Answering(o, j) /\ air = chan[c][a].conn => In(wire[c], {"res"}, x)
  BY <1>2 DEF Apart, Opening, o
<1>4. e = c => m.id # x
  <2> SUFFICES ASSUME e = c, m.id = x PROVE FALSE OBVIOUS
  <2>a. \A j \in Slots : chan[e][j].id = chan[e][i].id => j = i BY <1>1, Spoken
  <2>1. a = i BY <1>1, <2>a
  <2> QED BY <1>1, <1>2, <2>1
<1>8. m.id = x => air = chan[c][a].conn
  <2>1. PICK g \in Places, h \in Links : Agree(g, h) BY DEF Apart, Agreed
  <2>2. h[m.id] = m.conn BY <2>1 DEF Saying, Meant, SignalAgrees, Said, Signals
  <2>3. chan[c][a].conn # None BY <1>2 DEF Apart, More, MoreOK, OpenStates
  <2>4. h[x] = chan[c][a].conn BY <2>1, <2>3 DEF Agree, SlotAgrees
  <2> QED BY <1>1, <2>2, <2>4
<1>5. ~In(wire'[o], {"data", "ind"}, x)
  <2>1. CASE e = c
    <3>0. ASSUME NEW K, NEW y, In(wire'[Other(e)], K, y)
          PROVE  In(wire[Other(e)], K, y) \/ m.id = y
      <4>1. wire' = [wire EXCEPT ![Other(e)] = Append(wire[Other(e)], m)] BY <1>1
      <4>2. In(wire'[Other(e)], K, y) <=> (In(wire[Other(e)], K, y) \/ (m.kind \in K /\ m.id = y))
        BY <4>1, InAppend, Zenon
      <4> QED BY <3>0, <4>2
    <3>a. o = Other(e) BY <2>1 DEF o
    <3>1. In(wire'[o], {"data", "ind"}, x) => In(wire[o], {"data", "ind"}, x) \/ m.id = x
      BY <3>0, <3>a
    <3> QED BY <1>3, <1>4, <2>1, <3>1
  <2>2. CASE e = o
    <3>1. wire'[o] = wire[o] BY <1>1, <2>2, AppendWire
    <3> QED BY <1>3, <3>1
  <2> QED BY <1>0, <2>1, <2>2
<1>6. In(wire[c], {"res"}, x) => In(wire'[c], {"res"}, x)
  <2>1. CASE e = c
    <3>1. wire'[c] = wire[c] BY <1>1, <2>1, AppendWire
    <3> QED BY <3>1
  <2>2. CASE e = o
    <3>0. wire' = [wire EXCEPT ![Other(e)] = Append(wire[Other(e)], m)] BY <1>1
    <3>1. ASSUME NEW K, NEW y, In(wire[Other(e)], K, y) PROVE In(wire'[Other(e)], K, y)
      BY <3>0, <3>1, InAppend, Zenon
    <3> QED BY <1>0, <2>2, <3>1
  <2> QED BY <1>0, <2>1, <2>2
<1>7. ASSUME NEW p \in 1 .. Len(wire'[c]), wire'[c][p].kind \in {"data", "ind"}, wire'[c][p].id = x
      PROVE  \E q \in 1 .. p - 1 : wire'[c][q].kind = "res" /\ wire'[c][q].id = x
  <2>1. CASE e = c
    <3>1. wire'[c] = wire[c] BY <1>1, <2>1, AppendWire
    <3> QED BY <1>3, <1>7, <3>1
  <2>2. CASE e = o
    <3>0. /\ Len(wire[c]) \in Nat /\ Len(wire'[c]) = Len(wire[c]) + 1
          /\ \A q \in 1 .. Len(wire[c]) : wire'[c][q] = wire[c][q]
          /\ wire'[c][Len(wire[c]) + 1] = m
      <4>1. /\ Len(wire[Other(e)]) \in Nat /\ Len(wire'[Other(e)]) = Len(wire[Other(e)]) + 1
            /\ \A q \in 1 .. Len(wire[Other(e)]) : wire'[Other(e)][q] = wire[Other(e)][q]
            /\ wire'[Other(e)][Len(wire[Other(e)]) + 1] = m
        BY <1>1, AppendWire
      <4> QED BY <1>0, <2>2, <4>1
    <3>1. CASE p = Len(wire[c]) + 1
      <4>1. m.kind \in {"data", "ind"} /\ m.id = x BY <1>7, <3>0, <3>1
      <4>2. ~Answering(e, i) BY <4>1 DEF Saying
      <4>3. air = chan[c][a].conn BY <1>8, <4>1
      <4>4. chan[o][i].id = x /\ handles[o][i] # {} /\ ~Answering(o, i) BY <1>1, <2>2, <4>1, <4>2
      <4>5. In(wire[c], {"res"}, x) BY <1>3, <4>3, <4>4
      <4>6. PICK q \in 1 .. Len(wire[c]) : wire[c][q].kind \in {"res"} /\ wire[c][q].id = x BY <4>5 DEF In
      <4>7. q \in 1 .. p - 1 /\ wire'[c][q] = wire[c][q] BY <3>0, <3>1
      <4> QED BY <4>6, <4>7
    <3>2. CASE p # Len(wire[c]) + 1
      <4>1. p \in 1 .. Len(wire[c]) /\ wire'[c][p] = wire[c][p] BY <3>0, <3>2
      <4>2. PICK q \in 1 .. p - 1 : wire[c][q].kind = "res" /\ wire[c][q].id = x BY <1>3, <1>7, <4>1
      <4>3. wire'[c][q] = wire[c][q] BY <3>0, <4>1
      <4> QED BY <4>2, <4>3
    <3> QED BY <3>1, <3>2
  <2> QED BY <1>0, <2>1, <2>2
<1>9. ASSUME NEW j \in Slots, chan[o][j].id = x, handles[o][j] # {}, ~Answering(o, j)', air = chan[c][a].conn
      PROVE  In(wire'[c], {"res"}, x)
  <2>1. CASE ~Answering(o, j) BY <1>3, <1>6, <1>9, <2>1
  <2>2. CASE Answering(o, j)
    <3>1. o = e /\ j = i /\ m.kind = "res" BY <1>0, <1>9, <2>2, SayingAnswers DEF Saying
    <3>2. m.id = x BY <1>1, <1>9, <3>1
    <3>3. In(wire'[Other(e)], {"res"}, x) BY <1>1, <3>1, <3>2, InAppend
    <3> QED BY <1>0, <3>1, <3>3
  <2> QED BY <2>1, <2>2
<1>10. \A j \in Slots : chan'[o][j].id = x =>
              /\ chan'[o][j].state # "Connecting"
              /\ chan'[o][j].state = "Connected" => handles'[o][j] # {}
              /\ handles'[o][j] # {} /\ ~Answering(o, j)' /\ air' = chan'[c][a].conn => In(wire'[c], {"res"}, x)
  BY <1>1, <1>3, <1>9
<1> QED BY <1>1, <1>5, <1>7, <1>10 DEF o

LEMMA SayingBounded ==
    ASSUME IInv, IInv', Apart, NEW e \in Ends, NEW i \in Slots, NEW m \in Message, Saying(e, i, m)
    PROVE  Bounded'
<1>1. UNCHANGED <<chan, creator, linked, air, count>> /\ m.id = chan[e][i].id /\ m.kind \in Said /\ m.conn = air
      /\ wire' = [wire EXCEPT ![Other(e)] = Append(wire[Other(e)], m)]
  BY DEF Saying
<1>2. ASSUME NEW f \in Ends, NEW p \in 1 .. Len(wire'[f])
      PROVE  /\ wire'[f][p].kind \in Signals => /\ wire'[f][p].id <= count.opens
                                                /\ wire'[f][p].conn <= count.links
             /\ wire'[f][p].kind = "up" => wire'[f][p].conn <= count.links
  <2>1. CASE p \in 1 .. Len(wire[f]) /\ wire'[f][p] = wire[f][p] BY <2>1 DEF Apart, Bounded
  <2>2. CASE wire'[f][p] = m
    <3>1. m.kind # "up" BY <1>1 DEF Said
    <3>2. m.id <= count.opens /\ m.conn <= count.links BY <1>1 DEF Apart, Bounded
    <3> QED BY <2>2, <3>1, <3>2
  <2>3. (p \in 1 .. Len(wire[f]) /\ wire'[f][p] = wire[f][p]) \/ wire'[f][p] = m
    <3>1. f = e \/ f = Other(e) BY DEF Ends, Other
    <3>2. CASE f = e BY <1>1, <3>2, AppendWire
    <3>3. CASE f = Other(e) BY <1>1, <3>3, AppendWire
    <3> QED BY <3>1, <3>2, <3>3
  <2> QED BY <2>1, <2>2, <2>3
<1> QED BY <1>1, <1>2 DEF Apart, Bounded

LEMMA SayingAnswersTrue ==
    ASSUME IInv, Apart, NEW e \in Ends, NEW i \in Slots, NEW m \in Message, Saying(e, i, m)
    PROVE  Answers'
<1>1. (m.kind = "res" => m.n = Initial)
      /\ wire' = [wire EXCEPT ![Other(e)] = Append(wire[Other(e)], m)]
  BY DEF Saying
<1>2. ASSUME NEW f \in Ends, NEW p \in 1 .. Len(wire'[f]), wire'[f][p].kind = "res"
      PROVE  wire'[f][p].n = Initial
  <2>1. CASE p \in 1 .. Len(wire[f]) /\ wire'[f][p] = wire[f][p] BY <1>2, <2>1 DEF Apart, Answers
  <2>2. CASE wire'[f][p] = m BY <1>1, <1>2, <2>2
  <2>3. (p \in 1 .. Len(wire[f]) /\ wire'[f][p] = wire[f][p]) \/ wire'[f][p] = m
    <3>1. f = e \/ f = Other(e) BY DEF Ends, Other
    <3>2. CASE f = e BY <1>1, <3>2, AppendWire
    <3>3. CASE f = Other(e) BY <1>1, <3>3, AppendWire
    <3> QED BY <3>1, <3>2, <3>3
  <2> QED BY <2>1, <2>2, <2>3
<1> QED BY <1>2 DEF Answers

LEMMA SayingAgreed ==
    ASSUME IInv, Apart, NEW e \in Ends, NEW i \in Slots, NEW m \in Message, Saying(e, i, m),
           \A f \in Ends, j \in Slots : sender'[f][j].pc # "idle" =>
              /\ sender[f][j].pc # "idle"
              /\ sender'[f][j].conn = sender[f][j].conn /\ sender'[f][j].peer = sender[f][j].peer
    PROVE  Agreed'
<1>1. UNCHANGED <<chan, creator>> /\ Meant(e, m)
      /\ wire' = [wire EXCEPT ![Other(e)] = Append(wire[Other(e)], m)]
  BY DEF Saying
<1>2. PICK g \in Places, h \in Links : Agree(g, h) BY DEF Apart, Agreed
<1>3. ASSUME NEW f \in Ends
      PROVE  creator'[f].pc = "ask" => /\ g[creator'[f].id][f] = creator'[f].slot
                                       /\ h[creator'[f].id] = creator'[f].conn
  BY <1>1, <1>2 DEF Agree
<1>4. ASSUME NEW f \in Ends, NEW j \in Slots
      PROVE  /\ SlotAgrees(f, j, chan'[f][j], sender'[f][j], g, h)
             /\ Answering(f, j)' => h[chan'[f][j].id] = acceptor'[f].conn
  <2>1. SlotAgrees(f, j, chan[f][j], sender[f][j], g, h)
        /\ (Answering(f, j) => h[chan[f][j].id] = acceptor[f].conn)
    BY <1>2 DEF Agree
  <2>2. SlotAgrees(f, j, chan'[f][j], sender'[f][j], g, h) BY <1>1, <2>1 DEF SlotAgrees
  <2>3. Answering(f, j)' => Answering(f, j) /\ acceptor'[f] = acceptor[f]
    BY SayingAnswers DEF Saying
  <2> QED BY <1>1, <2>1, <2>2, <2>3
<1>5. ASSUME NEW f \in Ends, NEW p \in 1 .. Len(wire'[f])
      PROVE  SignalAgrees(f, wire'[f][p], g, h)
  <2>1. f = e \/ f = Other(e) BY DEF Ends, Other
  <2>2. \A q \in 1 .. Len(wire[f]) : SignalAgrees(f, wire[f][q], g, h) BY <1>2 DEF Agree
  <2>3. CASE f = e
    <3>1. wire'[f] = wire[f] BY <1>1, <2>3, AppendWire
    <3> QED BY <2>2, <3>1
  <2>4. CASE f = Other(e)
    <3>1. SignalAgrees(f, m, g, h) BY <1>1, <1>2, <2>4 DEF Meant
    <3>2. CASE p = Len(wire[f]) + 1
      <4>1. wire'[f][p] = m BY <1>1, <2>4, <3>2, AppendWire
      <4> QED BY <3>1, <4>1
    <3>3. CASE p # Len(wire[f]) + 1
      <4>1. p \in 1 .. Len(wire[f]) /\ wire'[f][p] = wire[f][p] BY <1>1, <2>4, <3>3, AppendWire
      <4> QED BY <2>2, <4>1
    <3> QED BY <3>2, <3>3
  <2> QED BY <2>1, <2>3, <2>4
<1>6. Agree(g, h)' BY <1>3, <1>4, <1>5 DEF Agree
<1> QED BY <1>6 DEF Agreed

LEMMA SayingApart ==
    ASSUME IInv, IInv', Apart, NEW e \in Ends, NEW i \in Slots, NEW m \in Message, Saying(e, i, m), More',
           \A f \in Ends, j \in Slots : sender'[f][j].pc # "idle" =>
              /\ sender[f][j].pc # "idle"
              /\ sender'[f][j].conn = sender[f][j].conn /\ sender'[f][j].peer = sender[f][j].peer
    PROVE  Apart'
<1>1. Bounded' /\ Asking' /\ Requested' BY SayingBounded, SayingAsking, SayingRequested
<1>2. Waiting' /\ Opening' BY SayingWaiting, SayingOpening
<1>3. Answers' /\ Agreed' BY SayingAnswersTrue, SayingAgreed
<1> QED BY <1>1, <1>2, <1>3 DEF Apart

LEMMA SayingBalance ==
    ASSUME IInv, IInv', Apart, Balance, NEW e \in Ends, NEW i \in Slots, NEW m \in Message, Saying(e, i, m),
           \A f \in Ends, j \in Slots : f # e \/ j # i =>
              sender'[f][j] = sender[f][j] /\ receiver'[f][j] = receiver[f][j],
           chan[e][i].state \in OpenStates =>
              /\ Mine(chan[e][i], sender'[e][i])
                    = Mine(chan[e][i], sender[e][i]) - Share(m, "data", chan[e][i].id)
              /\ Theirs(chan[e][i], receiver'[e][i])
                    = Theirs(chan[e][i], receiver[e][i]) + Share(m, "ind", chan[e][i].id)
    PROVE  Balance'
<1> DEFINE x == chan[e][i].id
<1>1. UNCHANGED <<chan, air>> /\ handles[e][i] # {} /\ m.id = x
      /\ wire' = [wire EXCEPT ![Other(e)] = Append(wire[Other(e)], m)]
  BY DEF Saying
<1> SUFFICES ASSUME NEW f \in Ends, NEW a \in Slots, NEW b \in Slots, Pair(f, a, b)'
             PROVE  Mine(chan'[f][a], sender'[f][a]) + OnAir(f, chan[f][a].id)'
                       = Theirs(chan'[Other(f)][b], receiver'[Other(f)][b])
  BY DEF Balance
<1> DEFINE o == Other(f)
<1>a. PICK y : y = chan[f][a].id OBVIOUS
<1>0. o \in Ends /\ Other(o) = f /\ f # o /\ (e = f \/ e = o) BY OtherEnd DEF Ends, Other
<1> HIDE DEF o
<1>2. Pair(f, a, b) BY <1>1 DEF Pair
<1>3. chan[f][a].state \in OpenStates /\ chan[o][b].state \in OpenStates /\ chan[o][b].id = y
  BY <1>2, <1>a DEF Pair, o
<1>4. Mine(chan[f][a], sender[f][a]) + OnAir(f, y) = Theirs(chan[o][b], receiver[o][b])
  BY <1>2, <1>a DEF Balance, o
<1>5. \A z : /\ Share(m, "data", z) \in Nat /\ Share(m, "ind", z) \in Nat
             /\ OnAir(e, z) \in Nat /\ OnAir(Other(e), z) \in Nat
             /\ OnAir(e, z)' = OnAir(e, z) + Share(m, "data", z)
             /\ OnAir(Other(e), z)' = OnAir(Other(e), z) + Share(m, "ind", z)
  BY <1>1, AppendCredits
<1>6. \A z : z # x => Share(m, "data", z) = 0 /\ Share(m, "ind", z) = 0 BY <1>1 DEF Share
<1>7. \A j \in Slots : chan[e][j].id = x => j = i BY <1>1, Spoken
<1>8. /\ Mine(chan[f][a], sender[f][a]) \in Int /\ Theirs(chan[o][b], receiver[o][b]) \in Int
  BY <1>0, MoneyType
<1>9. y = chan'[f][a].id BY <1>1, <1>a
<1>10. OnAir(f, chan[f][a].id)' = OnAir(f, y)' BY <1>9
<1>11. CASE e = f
  <2>1. receiver'[o][b] = receiver[o][b] BY <1>0, <1>11
  <2>2. Mine(chan[f][a], sender'[f][a]) = Mine(chan[f][a], sender[f][a]) - Share(m, "data", y)
    <3>1. CASE a = i BY <1>3, <1>a, <1>11, <3>1
    <3>2. CASE a # i
      <4>1. Share(m, "data", y) = 0 BY <1>6, <1>7, <1>a, <1>11, <3>2
      <4>2. sender'[f][a] = sender[f][a] BY <3>2
      <4> QED BY <1>8, <4>1, <4>2
    <3> QED BY <3>1, <3>2
  <2>3. OnAir(f, y)' = OnAir(f, y) + Share(m, "data", y) /\ OnAir(f, y) \in Nat /\ Share(m, "data", y) \in Nat
    BY <1>5, <1>11 DEF OnAir, Frames, Indicated
  <2> HIDE DEF x
  <2>4. Mine(chan[f][a], sender'[f][a]) + OnAir(f, y)' = Theirs(chan[o][b], receiver[o][b])
    BY <1>4, <1>8, <2>2, <2>3
  <2> QED BY <1>1, <1>10, <2>1, <2>4 DEF o
<1>12. CASE e = o
  <2>1. sender'[f][a] = sender[f][a] BY <1>0, <1>12
  <2>2. Theirs(chan[o][b], receiver'[o][b]) = Theirs(chan[o][b], receiver[o][b]) + Share(m, "ind", y)
    <3>1. CASE b = i BY <1>3, <1>12, <3>1
    <3>2. CASE b # i
      <4>1. Share(m, "ind", y) = 0 BY <1>3, <1>6, <1>7, <1>12, <3>2
      <4>2. receiver'[o][b] = receiver[o][b] BY <1>0, <3>2
      <4> QED BY <1>8, <4>1, <4>2
    <3> QED BY <3>1, <3>2
  <2>3. OnAir(f, y)' = OnAir(f, y) + Share(m, "ind", y) /\ OnAir(f, y) \in Nat /\ Share(m, "ind", y) \in Nat
    <3>1. f = Other(e) BY <1>0, <1>12
    <3> QED BY <1>5, <3>1 DEF OnAir, Frames, Indicated
  <2> HIDE DEF x
  <2>4. Mine(chan[f][a], sender[f][a]) + OnAir(f, y)' = Theirs(chan[o][b], receiver'[o][b])
    BY <1>4, <1>8, <2>2, <2>3
  <2> QED BY <1>1, <1>10, <2>1, <2>4 DEF o
<1> QED BY <1>0, <1>11, <1>12

(* Whoever has agreed on a slot's channel has agreed on its answer and its *)
(* indications.                                                            *)
LEMMA OwnMeant ==
    ASSUME IInv, Apart, NEW e \in Ends, NEW i \in Slots, handles[e][i] # {}, NEW m,
           m.id = chan[e][i].id,
           \/ m.kind \in {"res", "ind"} /\ m.cid = i
              /\ ((Answering(e, i) /\ m.conn = acceptor[e].conn) \/ (m.conn = chan[e][i].conn /\ m.conn # None))
           \/ m.kind = "data" /\ sender[e][i].pc # "idle" /\ m.conn = sender[e][i].conn /\ m.cid = sender[e][i].peer
    PROVE  Meant(e, m)
<1> SUFFICES ASSUME NEW g \in Places, NEW h \in Links, Agree(g, h) PROVE SignalAgrees(Other(e), m, g, h)
  BY DEF Meant
<1>1. chan[e][i].id # 0 BY DEF Apart, More, MoreOK
<1>2. SlotAgrees(e, i, chan[e][i], sender[e][i], g, h)
      /\ (Answering(e, i) => h[chan[e][i].id] = acceptor[e].conn)
  BY DEF Agree
<1>3. Other(Other(e)) = e BY OtherEnd
<1> QED BY <1>1, <1>2, <1>3 DEF SignalAgrees, SlotAgrees

LEMMA AnswerMore ==
    ASSUME IInv, IInv', Apart, Balance, NEW e \in Ends, Answer(e)
    PROVE  Apart' /\ Balance'
<1> DEFINE i == acceptor[e].slot
           m == Msg("res", acceptor[e].conn, i, chan[e][i].id, Initial)
<1>1. /\ UNCHANGED <<chan, handles, creator, sender, receiver, control, count, linked, air>>
      /\ acceptor' = [acceptor EXCEPT ![e] = Idle]
      /\ wire' = IF air = m.conn THEN [wire EXCEPT ![Other(e)] = Append(wire[Other(e)], m)] ELSE wire
  BY DEF Answer, Write, others
<1>2. i \in Slots /\ handles[e][i] = {"channel"} /\ receiver[e][i].pc = "idle" /\ Answering(e, i)
  BY DEF IInv, Placed, Answer, Answering
<1>3. m.kind = "res" /\ m.conn = acceptor[e].conn /\ m.cid = i /\ m.id = chan[e][i].id /\ m.n = Initial
  BY DEF Msg
<1>4. m \in Message
  <2>1. acceptor[e].conn \in Conns /\ i \in Cids BY <1>2, CidNames DEF IInv, Rest
  <2>2. chan[e][i].id \in Nat BY <1>2, SlotType DEF IInv, Chan
  <2> QED BY <2>1, <2>2, ChannelsAssumption DEF Msg, Message
<1>5. sender[e][i].pc = "idle" BY <1>2 DEF Apart, More
<1> HIDE DEF m, i
<1>6. CASE air = m.conn
  <2>1. Meant(e, m) BY <1>2, <1>3, OwnMeant
  <2>2. Saying(e, i, m) BY <1>1, <1>2, <1>3, <1>6, <2>1 DEF Saying, Said
  <2>3. \A f \in Ends, j \in Slots : Answering(f, j)' => Answering(f, j) BY <1>1, <1>2, SayingAnswers
  <2>4. More' BY <1>1, <2>3 DEF Apart, More
  <2>5. Apart' BY <1>1, <1>2, <1>4, <2>2, <2>4, SayingApart
  <2>6. Share(m, "data", chan[e][i].id) = 0 /\ Share(m, "ind", chan[e][i].id) = 0 BY <1>3 DEF Share
  <2>7. Mine(chan[e][i], sender[e][i]) \in Int /\ Theirs(chan[e][i], receiver[e][i]) \in Int
    BY <1>2, MoneyType
  <2>8. Balance' BY <1>1, <1>2, <1>4, <2>2, <2>6, <2>7, SayingBalance
  <2> QED BY <2>5, <2>8
<1>7. CASE air # m.conn
  <2>1. wire' = wire BY <1>1, <1>7
  <2>2. ~Answering(e, i)'
    <3>1. acceptor'[e].pc = "idle" BY <1>1, AcceptorEnds DEF IInv
    <3> QED BY <3>1 DEF Answering
  <2>3. TurnOK(e, i) BY <1>1, <1>2, <1>5, <2>2, StillTurn DEF Apart
  <2> QED BY <1>1, <1>2, <1>3, <1>7, <2>1, <2>3, LocalOne
<1> QED BY <1>6, <1>7

LEMMA FrameMore ==
    ASSUME IInv, IInv', Apart, Balance, NEW e \in Ends, NEW i \in Slots, Frame(e, i)
    PROVE  Apart' /\ Balance'
<1> DEFINE q == chan[e][i]
           s == sender[e][i]
           m == Msg("data", s.conn, s.peer, q.id, 0)
           t == [s EXCEPT !.left = s.left - 1, !.grant = Minus(s.grant, 1)]
<1>1. /\ UNCHANGED <<chan, handles, creator, acceptor, receiver, control, count, linked, air>>
      /\ sender' = [sender EXCEPT ![e][i] = t]
      /\ wire' = IF air = m.conn THEN [wire EXCEPT ![Other(e)] = Append(wire[Other(e)], m)] ELSE wire
  BY DEF Frame, Write, others, SetSender
<1>2. s \in [pc : {"idle", "ask", "frames"}, left : Nat, grant : Nat, conn : Conns, peer : Cids]
  BY SenderType
<1>3. s.pc = "frames" /\ s.left > 0 /\ s.grant = s.left /\ s.left \in Nat
      /\ handles[e][i] \cap {"channel", "writer"} # {} /\ ~Answering(e, i)
      /\ MoreOK(i, q, handles[e][i], s)
  BY <1>2 DEF Frame, Apart, More, MoreOK
<1>4. t.pc = "frames" /\ t.left = s.left - 1 /\ t.grant = s.grant - 1 /\ t.conn = s.conn /\ t.peer = s.peer
  <2>1. Minus(s.grant, 1) = s.grant - 1 BY <1>2, <1>3 DEF Minus
  <2> QED BY <1>2, <1>3, <2>1
<1>5. m.kind = "data" /\ m.conn = s.conn /\ m.cid = s.peer /\ m.id = q.id BY DEF Msg
<1>6. m \in Message
  <2>1. q.id \in Nat BY SlotType DEF IInv, Chan
  <2> QED BY <1>2, <2>1 DEF Msg, Message
<1> HIDE DEF m, t
<1>7. sender'[e][i] = t BY <1>1, NewSender
<1>8. Answering(e, i)' <=> Answering(e, i) BY <1>1 DEF Answering
<1>9. MoreOK(i, q, handles[e][i], t)
  <2>1. t.grant = t.left BY <1>3, <1>4
  <2> QED BY <1>3, <1>4, <2>1 DEF MoreOK
<1>10. \A f \in Ends, j \in Slots : f # e \/ j # i => sender'[f][j] = sender[f][j]
  <2>1. sender \in [Ends -> [Slots -> [pc : {"idle", "ask", "frames"}, left : Nat, grant : Nat,
                                          conn : Conns, peer : Cids]]]
    BY DEF IInv, Rest
  <2> QED BY <1>1, <2>1
<1>11. CASE air = m.conn
  <2>1. Meant(e, m) BY <1>3, <1>5, OwnMeant
  <2>2. handles[e][i] # {} BY <1>3
  <2>3. Saying(e, i, m) BY <1>1, <1>3, <1>5, <1>11, <2>1, <2>2 DEF Saying, Said
  <2>4. ASSUME NEW f \in Ends, NEW j \in Slots
        PROVE  /\ MoreOK(j, chan'[f][j], handles'[f][j], sender'[f][j])
               /\ sender'[f][j].pc # "idle" => ~Answering(f, j)'
               /\ sender'[f][j].pc # "idle" =>
                    /\ sender[f][j].pc # "idle"
                    /\ sender'[f][j].conn = sender[f][j].conn /\ sender'[f][j].peer = sender[f][j].peer
    <3>1. CASE f = e /\ j = i BY <1>1, <1>3, <1>4, <1>7, <1>8, <1>9, <3>1
    <3>2. CASE f # e \/ j # i
      <4>1. sender'[f][j] = sender[f][j] BY <1>10, <3>2
      <4>2. Answering(f, j)' <=> Answering(f, j) BY <1>1 DEF Answering
      <4> QED BY <1>1, <4>1, <4>2 DEF Apart, More
    <3> QED BY <3>1, <3>2
  <2>5. More' BY <2>4 DEF More
  <2>6. Apart' BY <1>6, <2>3, <2>4, <2>5, SayingApart
  <2>7. Share(m, "data", q.id) = 1 /\ Share(m, "ind", q.id) = 0 BY <1>5 DEF Share, Worth
  <2>8. q.state \in OpenStates => /\ Mine(q, t) = Mine(q, s) - 1
                                  /\ Theirs(q, receiver[e][i]) = Theirs(q, receiver[e][i]) + 0
    <3>1. Theirs(q, receiver[e][i]) \in Int BY MoneyType
    <3>2. q \in Chan /\ s.grant \in Nat BY <1>2, SlotType DEF IInv
    <3>3. Mine(q, t) = Mine(q, s) - 1
      <4> DEFINE a == IF q.state = "Connecting" THEN Initial ELSE q.credits
      <4>1. a \in Int /\ q.astray \in Int BY <3>2, ChannelsAssumption DEF Chan
      <4>2. Mine(q, t) = a + (s.grant - 1) - q.astray BY <1>4 DEF Mine
      <4>3. Mine(q, s) = a + s.grant - q.astray BY DEF Mine
      <4> HIDE DEF a, q, s
      <4> QED BY <3>2, <4>1, <4>2, <4>3
    <3> QED BY <3>1, <3>3
  <2>9. Balance' BY <1>1, <1>6, <1>7, <1>10, <2>3, <2>7, <2>8, SayingBalance
  <2> QED BY <2>6, <2>9
<1>12. CASE air # m.conn
  <2>1. wire' = wire BY <1>1, <1>12
  <2>2. q.conn = air => q.state \notin OpenStates
    <3> SUFFICES ASSUME q.conn = air, q.state \in OpenStates PROVE FALSE OBVIOUS
    <3>0. q.conn # None BY DEF Apart, More, MoreOK
    <3>1. PICK g \in Places, h \in Links : Agree(g, h) BY DEF Apart, Agreed
    <3>2. h[q.id] = q.conn /\ h[q.id] = s.conn BY <1>3, <3>0, <3>1 DEF Agree, SlotAgrees
    <3> QED BY <1>5, <1>12, <3>2
  <2>3. SameSlot(q, handles[e][i], s, q, handles[e][i], t) BY <1>3, <1>4 DEF SameSlot
  <2>4. TurnOK(e, i) BY <1>1, <1>3, <1>7, <1>8, <1>9, <2>2, <2>3 DEF TurnOK, SameMoney
  <2> QED BY <1>1, <2>1, <2>4, LocalOne
<1> QED BY <1>11, <1>12

LEMMA TellMore ==
    ASSUME IInv, IInv', Apart, Balance, NEW e \in Ends, NEW i \in Slots, Tell(e, i)
    PROVE  Apart' /\ Balance'
<1> DEFINE q == chan[e][i]
           v == receiver[e][i]
           m == Msg("ind", q.conn, i, q.id, v.n)
           w == [v EXCEPT !.pc = "told"]
<1>1. UNCHANGED <<chan, handles, creator, acceptor, sender, control, count, linked, air>>
  BY DEF Tell, others
<1>2. q \in Chan /\ SlotOK(q, handles[e][i], v) /\ v \in Listener BY SlotType DEF IInv
<1>3. v.pc = "tell" /\ handles[e][i] # {} /\ ~Answering(e, i)
  <2>1. v.pc = "tell" BY DEF Tell
  <2>2. ~(acceptor[e].pc = "answer" /\ acceptor[e].slot = i) BY <2>1, Receiving
  <2> QED BY <1>2, <2>1, <2>2 DEF SlotOK, Answering
<1>4. MoreOK(i, q, handles[e][i], sender[e][i]) BY DEF Apart, More
<1>5. Answering(e, i)' <=> Answering(e, i) BY <1>1 DEF Answering
<1>6. m.kind = "ind" /\ m.conn = q.conn /\ m.cid = i /\ m.id = q.id /\ m.n = v.n BY DEF Msg
<1>7. m \in Message BY <1>2, CidNames DEF Chan, Listener, Msg, Message
<1>8. w.pc = "told" /\ w.n = v.n BY <1>2 DEF Listener
<1>9. \/ /\ q.conn # None /\ receiver' = [receiver EXCEPT ![e][i] = w]
         /\ wire' = IF air = m.conn THEN [wire EXCEPT ![Other(e)] = Append(wire[Other(e)], m)] ELSE wire
      \/ receiver' = [receiver EXCEPT ![e][i] = Deaf] /\ wire' = wire
  BY DEF Tell, Write, SetReceiver
<1> HIDE DEF m, w
<1>10. CASE receiver' = [receiver EXCEPT ![e][i] = Deaf] /\ wire' = wire
  <2>1. receiver'[e][i] = Deaf BY <1>10, NewReceiver
  <2>2. SameRecord(q, q) BY DEF SameRecord
  <2>3. Deaf.pc # "told" BY DEF Deaf
  <2>4. TurnOK(e, i) BY <1>1, <1>3, <1>4, <1>5, <2>1, <2>2, <2>3, RecordTurn DEF Apart, MoreOK
  <2> QED BY <1>1, <1>10, <2>4, LocalOne
<1>11. CASE /\ q.conn # None /\ receiver' = [receiver EXCEPT ![e][i] = w]
            /\ air = m.conn /\ wire' = [wire EXCEPT ![Other(e)] = Append(wire[Other(e)], m)]
  <2>1. Meant(e, m) BY <1>3, <1>6, <1>11, OwnMeant
  <2>2. Saying(e, i, m) BY <1>1, <1>3, <1>6, <1>11, <2>1 DEF Saying, Said
  <2>3. receiver'[e][i] = w BY <1>11, NewReceiver
  <2>4. \A f \in Ends, j \in Slots : f # e \/ j # i => receiver'[f][j] = receiver[f][j]
    <3>1. receiver \in [Ends -> [Slots -> Listener]] BY DEF IInv, Shape
    <3> QED BY <1>11, <3>1
  <2>5. \A f \in Ends, j \in Slots : Answering(f, j)' <=> Answering(f, j) BY <1>1 DEF Answering
  <2>6. More' BY <1>1, <2>5 DEF Apart, More
  <2>7. Apart' BY <1>1, <1>7, <2>2, <2>6, SayingApart
  <2>8. Share(m, "data", q.id) = 0 /\ Share(m, "ind", q.id) = v.n BY <1>6 DEF Share, Worth
  <2>9. Mine(q, sender[e][i]) = Mine(q, sender[e][i]) - 0 BY MoneyType
  <2>10. Theirs(q, w) = Theirs(q, v) + v.n
    <3> DEFINE a == IF q.state = "PeerConnecting" THEN Initial ELSE q.available
    <3>1. a \in Int /\ q.skew \in Int /\ v.n \in Int BY <1>2, ChannelsAssumption DEF Chan, Listener
    <3>2. Theirs(q, w) = a + v.n + q.skew BY <1>8 DEF Theirs
    <3>3. Theirs(q, v) = a + 0 + q.skew BY <1>3 DEF Theirs
    <3> HIDE DEF a, q, v
    <3> QED BY <3>1, <3>2, <3>3
  <2>11. Balance' BY <1>1, <1>7, <2>2, <2>3, <2>4, <2>8, <2>9, <2>10, SayingBalance
  <2> QED BY <2>7, <2>11
<1>12. CASE receiver' = [receiver EXCEPT ![e][i] = w] /\ air # m.conn /\ wire' = wire
  <2>1. receiver'[e][i] = w BY <1>12, NewReceiver
  <2>2. SameSlot(q, handles[e][i], sender[e][i], q, handles[e][i], sender[e][i]) BY DEF SameSlot
  <2>3. sender[e][i].pc # "idle" => ~Answering(e, i) BY DEF Apart, More
  <2>4. TurnOK(e, i) BY <1>1, <1>4, <1>5, <1>6, <1>12, <2>1, <2>2, <2>3 DEF TurnOK
  <2> QED BY <1>1, <1>12, <2>4, LocalOne
<1> QED BY <1>9, <1>10, <1>11, <1>12

(* A message that is about no channel.                                     *)
LEMMA SendRequestMore ==
    ASSUME IInv, IInv', Apart, Balance, NEW e \in Ends, SendRequest(e)
    PROVE  Apart' /\ Balance'
<1> DEFINE k == control[e]
           m == Msg(k.kind, k.conn, k.cid, 0, 0)
<1>1. UNCHANGED <<chan, handles, creator, acceptor, sender, receiver, count, linked, air>>
  BY DEF SendRequest, others
<1>2. k \in [pc : {"idle", "send", "confirm"}, slot : Cids, kind : {"dreq", "drsp"},
             conn : Conns, cid : Cids]
  BY DEF IInv, Rest
<1>3. m \in Message /\ m.kind \in {"dreq", "drsp"} BY <1>2 DEF Msg, Message
<1>4. wire' = wire \/ wire' = [wire EXCEPT ![Other(e)] = Append(wire[Other(e)], m)]
  BY DEF SendRequest, Write
<1> HIDE DEF m
<1>a. wire' = [wire EXCEPT ![Other(e)] = Append(wire[Other(e)], m)] =>
        /\ Len(wire[Other(e)]) \in Nat /\ Len(wire'[Other(e)]) = Len(wire[Other(e)]) + 1
        /\ \A p \in 1 .. Len(wire[Other(e)]) : wire'[Other(e)][p] = wire[Other(e)][p]
        /\ wire'[Other(e)][Len(wire[Other(e)]) + 1] = m
  BY <1>3, AppendWire
<1>5. CASE wire' = wire BY <1>1, <1>5, LocalNone
<1>6. CASE wire' = [wire EXCEPT ![Other(e)] = Append(wire[Other(e)], m)]
  <2>1. ASSUME NEW f \in Ends PROVE Dropped(f, 0)
    <3>1. CASE f = e
      <4>1. wire'[f] = wire[f] BY <1>3, <1>6, <3>1, AppendWire
      <4> QED BY <4>1 DEF Dropped
    <3>2. CASE f = Other(e)
      <4>1. /\ Len(wire[f]) \in Nat /\ Len(wire'[f]) = Len(wire[f]) + 1
            /\ \A p \in 1 .. Len(wire[f]) : wire'[f][p] = wire[f][p]
            /\ wire'[f][Len(wire[f]) + 1] = m
        BY <1>a, <1>6, <3>2
      <4> SUFFICES ASSUME NEW p \in 1 .. Len(wire'[f]), wire'[f][p].kind \in Signals, NEW q \in 1 .. p
                   PROVE  q + 0 \in 1 .. Len(wire[f]) /\ wire'[f][q] = wire[f][q + 0]
        BY DEF Dropped
      <4>2. p # Len(wire[f]) + 1 BY <1>3, <4>1 DEF Signals
      <4>3. q \in 1 .. Len(wire[f]) BY <4>1, <4>2
      <4> QED BY <4>1, <4>3
    <3> QED BY <3>1, <3>2 DEF Ends, Other
  <2>2. WireLess BY <2>1 DEF WireLess
  <2>3. \A f \in Ends, i \in Slots : Answering(f, i)' <=> Answering(f, i) BY <1>1 DEF Answering
  <2>4. AllTurn BY <1>1, <2>3, StillTurn DEF AllTurn, FuturesKept, Apart
  <2>5. Quieter /\ More' BY <2>4, TurnsAreQuiet
  <2>6. ResKept
    <3>1. ASSUME NEW f \in Ends, NEW x, In(wire[f], {"res"}, x) PROVE In(wire'[f], {"res"}, x)
      <4>1. CASE f = e BY <1>3, <1>6, <3>1, <4>1, InAppend
      <4>2. CASE f = Other(e)
        <5>1. \A K, y : In(wire[Other(e)], K, y) => In(wire'[Other(e)], K, y) BY <1>3, <1>6, InAppend
        <5> QED BY <3>1, <4>2, <5>1
      <4> QED BY <4>1, <4>2 DEF Ends, Other
    <3> QED BY <1>1, <2>1, <3>1 DEF ResKept
  <2>7. LinksKept
    <3>2. ASSUME NEW f \in Ends, NEW p \in 1 .. Len(wire'[f]), wire'[f][p].kind = "up"
          PROVE  wire'[f][p].conn <= count.links
      <4>1. CASE f = e
        <5>1. wire'[f] = wire[f] BY <1>3, <1>6, <4>1, AppendWire
        <5> QED BY <3>2, <5>1 DEF Apart, Bounded
      <4>2. CASE f = Other(e)
        <5>1. /\ Len(wire[f]) \in Nat /\ Len(wire'[f]) = Len(wire[f]) + 1
              /\ \A x \in 1 .. Len(wire[f]) : wire'[f][x] = wire[f][x]
              /\ wire'[f][Len(wire[f]) + 1] = m
          BY <1>a, <1>6, <4>2
        <5>2. p # Len(wire[f]) + 1 BY <1>3, <3>2, <5>1
        <5>3. p \in 1 .. Len(wire[f]) /\ wire'[f][p] = wire[f][p] BY <5>1, <5>2
        <5> QED BY <3>2, <5>3 DEF Apart, Bounded
      <4> QED BY <4>1, <4>2 DEF Ends, Other
    <3>3. count.links \in Nat BY ChannelsAssumption DEF IInv, Rest, Conns
    <3> QED BY <1>1, <3>2, <3>3 DEF LinksKept, Apart, Bounded
  <2>8. Apart' BY <2>2, <2>5, <2>6, <2>7, Quietly
  <2>9. ASSUME NEW f \in Ends, NEW x PROVE OnAir(f, x)' = OnAir(f, x)
    <3>1. Share(m, "data", x) = 0 /\ Share(m, "ind", x) = 0 BY <1>3 DEF Share
    <3>2. /\ OnAir(e, x) \in Nat /\ OnAir(Other(e), x) \in Nat
          /\ OnAir(e, x)' = OnAir(e, x) + Share(m, "data", x)
          /\ OnAir(Other(e), x)' = OnAir(Other(e), x) + Share(m, "ind", x)
      BY <1>3, <1>6, AppendCredits
    <3>3. OnAir(e, x)' = OnAir(e, x) /\ OnAir(Other(e), x)' = OnAir(Other(e), x) BY <3>1, <3>2
    <3>4. f = e \/ f = Other(e) BY DEF Ends, Other
    <3> QED BY <3>3, <3>4 DEF OnAir, Frames, Indicated
  <2>10. Balance' BY <1>1, <2>4, <2>9, TurnBalance
  <2> QED BY <2>8, <2>10
<1> QED BY <1>4, <1>5, <1>6

-----------------------------------------------------------------------------
(* The request of a channel goes out. *)

Asked(e, m) ==
    /\ creator[e].pc = "ask" /\ m.kind = "req" /\ m.id = creator[e].id /\ m.conn = creator[e].conn
    /\ m.cid = creator[e].slot /\ m.n = Initial /\ m.conn = air
    /\ creator' = [creator EXCEPT ![e] = [creator[e] EXCEPT !.pc = "wait"]]
    /\ wire' = [wire EXCEPT ![Other(e)] = Append(wire[Other(e)], m)]
    /\ UNCHANGED <<chan, handles, acceptor, sender, receiver, linked, air, count>>

LEMMA AskedWire ==
    ASSUME IInv, NEW e \in Ends, NEW m \in Message, Asked(e, m)
    PROVE  /\ \A f \in Ends : \A p \in 1 .. Len(wire'[f]) :
                \/ p \in 1 .. Len(wire[f]) /\ wire'[f][p] = wire[f][p]
                \/ f = Other(e) /\ p = Len(wire[f]) + 1 /\ wire'[f][p] = m
           /\ \A f \in Ends : \A p \in 1 .. Len(wire[f]) : p \in 1 .. Len(wire'[f]) /\ wire'[f][p] = wire[f][p]
           /\ \A f \in Ends : f # e => creator'[f] = creator[f]
           /\ creator'[e].pc = "wait"
<1>1. wire' = [wire EXCEPT ![Other(e)] = Append(wire[Other(e)], m)] BY DEF Asked
<1>2. /\ Len(wire[Other(e)]) \in Nat /\ Len(wire'[Other(e)]) = Len(wire[Other(e)]) + 1
      /\ \A p \in 1 .. Len(wire[Other(e)]) : wire'[Other(e)][p] = wire[Other(e)][p]
      /\ wire'[Other(e)][Len(wire[Other(e)]) + 1] = m /\ wire'[e] = wire[e]
  BY <1>1, AppendWire
<1>3. \A f \in Ends : f = e \/ f = Other(e) BY DEF Ends, Other
<1>4. \A f \in Ends : \A p \in 1 .. Len(wire'[f]) :
                \/ p \in 1 .. Len(wire[f]) /\ wire'[f][p] = wire[f][p]
                \/ f = Other(e) /\ p = Len(wire[f]) + 1 /\ wire'[f][p] = m
  BY <1>2, <1>3
<1>5. \A f \in Ends : \A p \in 1 .. Len(wire[f]) : p \in 1 .. Len(wire'[f]) /\ wire'[f][p] = wire[f][p]
  BY <1>2, <1>3
<1>6. (\A f \in Ends : f # e => creator'[f] = creator[f]) /\ creator'[e].pc = "wait"
  <2>1. creator \in [Ends -> Creator] BY DEF IInv, Rest
  <2>2. creator' = [creator EXCEPT ![e] = [creator[e] EXCEPT !.pc = "wait"]] BY DEF Asked
  <2>3. creator[e] \in Creator BY <2>1
  <2> QED BY <2>1, <2>2, <2>3 DEF Creator
<1> QED BY <1>4, <1>5, <1>6

LEMMA AskedIn ==
    ASSUME IInv, NEW e \in Ends, NEW m \in Message, Asked(e, m), NEW f \in Ends, NEW K, NEW x
    PROVE  /\ In(wire[f], K, x) => In(wire'[f], K, x)
           /\ In(wire'[f], K, x) => In(wire[f], K, x) \/ ("req" \in K /\ x = creator[e].id)
<1>1. ASSUME In(wire[f], K, x) PROVE In(wire'[f], K, x)
  <2>1. PICK p \in 1 .. Len(wire[f]) : wire[f][p].kind \in K /\ wire[f][p].id = x BY <1>1 DEF In
  <2>2. p \in 1 .. Len(wire'[f]) /\ wire'[f][p] = wire[f][p] BY AskedWire
  <2> QED BY <2>1, <2>2 DEF In
<1>2. ASSUME In(wire'[f], K, x) PROVE In(wire[f], K, x) \/ ("req" \in K /\ x = creator[e].id)
  <2>1. PICK p \in 1 .. Len(wire'[f]) : wire'[f][p].kind \in K /\ wire'[f][p].id = x BY <1>2 DEF In
  <2>2. (p \in 1 .. Len(wire[f]) /\ wire'[f][p] = wire[f][p]) \/ wire'[f][p] = m BY AskedWire
  <2>3. m.kind = "req" /\ m.id = creator[e].id BY DEF Asked
  <2> QED BY <2>1, <2>2, <2>3 DEF In
<1> QED BY <1>1, <1>2

LEMMA AskedUnasked ==
    ASSUME IInv, NEW e \in Ends, NEW m \in Message, Asked(e, m), NEW f \in Ends, NEW x
    PROVE  /\ Unanswered(f, x) => Unanswered(f, x)'
           /\ Unasked(f, x) => Unasked(f, x)'
<1>1. chan' = chan /\ handles' = handles BY DEF Asked
<1>2. \A b \in Ends : In(wire'[b], Said, x) => In(wire[b], Said, x)
  <2>1. "req" \notin Said BY DEF Said
  <2> QED BY <2>1, AskedIn
<1>3. Unanswered(f, x) => Unanswered(f, x)' BY <1>1, <1>2 DEF Unanswered
<1> QED BY <1>1, <1>3 DEF Unasked

LEMMA AskedAsking ==
    ASSUME IInv, Apart, NEW e \in Ends, NEW m \in Message, Asked(e, m)
    PROVE  Asking'
<1> SUFFICES ASSUME NEW c \in Ends, creator'[c].pc = "ask"
             PROVE  /\ creator'[c].id # 0 /\ creator'[c].conn # None
                    /\ Unasked(Other(c), creator[c].id)'
                    /\ \A f \in Ends : ~In(wire'[f], {"req"}, creator'[c].id)
                    /\ creator'[Other(c)].pc = "ask" => creator'[Other(c)].id # creator'[c].id
  BY DEF Asking
<1>1. c # e /\ creator'[c] = creator[c] /\ creator'[e].pc = "wait" BY AskedWire
<1>2. Other(c) = e BY <1>1 DEF Ends, Other
<1>3. creator[e].pc = "ask" BY DEF Asked
<1>a. PICK y : y = creator[c].id OBVIOUS
<1>4. /\ creator[c].id # 0 /\ creator[c].conn # None /\ Unasked(Other(c), y)
      /\ \A f \in Ends : ~In(wire[f], {"req"}, y)
      /\ creator[e].id # y
  BY <1>1, <1>2, <1>3, <1>a DEF Apart, Asking
<1>5. Unasked(Other(c), y)' BY <1>2, <1>4, AskedUnasked
<1>6. \A f \in Ends : ~In(wire'[f], {"req"}, y) BY <1>4, AskedIn
<1>7. y = creator'[c].id BY <1>1, <1>a
<1>8. Unasked(Other(c), creator[c].id)' BY <1>5, <1>7
<1> QED BY <1>1, <1>2, <1>4, <1>6, <1>7, <1>8

LEMMA AskedRequested ==
    ASSUME IInv, Apart, NEW e \in Ends, NEW m \in Message, Asked(e, m)
    PROVE  Requested'
<1> SUFFICES ASSUME NEW o \in Ends, NEW p \in 1 .. Len(wire'[o]), wire'[o][p].kind = "req"
             PROVE  /\ wire'[o][p].id # 0 /\ wire'[o][p].conn # None /\ wire'[o][p].n = Initial
                    /\ Unasked(o, wire[o][p].id)'
                    /\ \A f \in Ends : \A q \in 1 .. Len(wire'[f]) :
                          wire'[f][q].kind = "req" /\ wire'[f][q].id = wire'[o][p].id => f = o /\ q = p
  BY DEF Requested
<1>a. PICK y : y = wire'[o][p].id OBVIOUS
<1>0. /\ creator[e].id # 0 /\ creator[e].conn # None /\ Unasked(Other(e), creator[e].id)
      /\ \A f \in Ends : ~In(wire[f], {"req"}, creator[e].id)
  BY DEF Asked, Apart, Asking
<1>1. /\ m.kind = "req" /\ m.id = creator[e].id /\ m.conn = creator[e].conn /\ m.n = Initial BY DEF Asked
<1>2. \A f \in Ends : \A q \in 1 .. Len(wire[f]) : wire[f][q].kind = "req" => wire[f][q].id # creator[e].id
  BY <1>0 DEF In
<1>3. \A f \in Ends : \A q \in 1 .. Len(wire'[f]) :
         \/ q \in 1 .. Len(wire[f]) /\ wire'[f][q] = wire[f][q]
         \/ f = Other(e) /\ q = Len(wire[f]) + 1 /\ wire'[f][q] = m
  BY AskedWire
<1>4. CASE p \in 1 .. Len(wire[o]) /\ wire'[o][p] = wire[o][p]
  <2>1. /\ y # 0 /\ wire[o][p].conn # None /\ wire[o][p].n = Initial /\ Unasked(o, y)
        /\ \A f \in Ends : \A q \in 1 .. Len(wire[f]) :
              wire[f][q].kind = "req" /\ wire[f][q].id = y => f = o /\ q = p
    BY <1>4, <1>a DEF Apart, Requested
  <2>2. Unasked(o, y)' BY <2>1, AskedUnasked
  <2>3. Unasked(o, wire[o][p].id)' BY <1>a, <2>2
  <2>4. y # creator[e].id BY <1>2, <1>4, <1>a
  <2>5. \A f \in Ends : \A q \in 1 .. Len(wire'[f]) :
              wire'[f][q].kind = "req" /\ wire'[f][q].id = y => f = o /\ q = p
    BY <1>1, <1>3, <2>1, <2>4
  <2> QED BY <1>4, <1>a, <2>1, <2>3, <2>5
<1>5. CASE o = Other(e) /\ p = Len(wire[o]) + 1 /\ wire'[o][p] = m
  <2>1. y = creator[e].id BY <1>1, <1>5, <1>a
  <2>2. Unasked(o, y)' BY <1>0, <1>5, <2>1, AskedUnasked
  <2>3. Unasked(o, wire[o][p].id)' BY <1>a, <2>2
  <2>4. \A f \in Ends : \A q \in 1 .. Len(wire'[f]) :
              wire'[f][q].kind = "req" /\ wire'[f][q].id = y => f = o /\ q = p
    <3> SUFFICES ASSUME NEW f \in Ends, NEW q \in 1 .. Len(wire'[f]), wire'[f][q].kind = "req", wire'[f][q].id = y
                 PROVE  f = o /\ q = p
      OBVIOUS
    <3>1. ~(q \in 1 .. Len(wire[f]) /\ wire'[f][q] = wire[f][q]) BY <1>2, <2>1
    <3>2. f = Other(e) /\ q = Len(wire[f]) + 1 BY <1>3, <3>1
    <3> QED BY <1>5, <3>2
  <2> QED BY <1>0, <1>1, <1>5, <1>a, <2>3, <2>4
<1> QED BY <1>3, <1>4, <1>5

LEMMA AskedWaiting ==
    ASSUME IInv, Apart, NEW e \in Ends, NEW m \in Message, Asked(e, m)
    PROVE  Waiting'
<1> SUFFICES ASSUME NEW f \in Ends, NEW j \in Slots,
                    chan'[f][j].state = "PeerConnecting" \/ Answering(f, j)'
             PROVE  Unanswered(f, chan[f][j].id)'
  BY DEF Waiting
<1>1. chan' = chan /\ (Answering(f, j)' <=> Answering(f, j)) BY DEF Asked, Answering
<1>a. PICK y : y = chan[f][j].id OBVIOUS
<1>2. Unanswered(f, y) BY <1>1, <1>a DEF Apart, Waiting
<1>3. Unanswered(f, y)' BY <1>2, AskedUnasked
<1>4. y = chan'[f][j].id BY <1>1, <1>a
<1> QED BY <1>3, <1>4

LEMMA AskedOpening ==
    ASSUME IInv, Apart, NEW e \in Ends, NEW m \in Message, Asked(e, m)
    PROVE  Opening'
<1> SUFFICES ASSUME NEW c \in Ends, NEW a \in Slots, chan'[c][a].state = "Connecting"
             PROVE
        /\ ~In(wire'[Other(c)], {"data", "ind"}, chan'[c][a].id)
        /\ \A p \in 1 .. Len(wire'[c]) :
              wire'[c][p].kind \in {"data", "ind"} /\ wire'[c][p].id = chan'[c][a].id =>
                 \E q \in 1 .. p - 1 : wire'[c][q].kind = "res" /\ wire'[c][q].id = chan'[c][a].id
        /\ \A j \in Slots : chan'[Other(c)][j].id = chan'[c][a].id =>
              /\ chan'[Other(c)][j].state # "Connecting"
              /\ chan'[Other(c)][j].state = "Connected" => handles'[Other(c)][j] # {}
              /\ handles'[Other(c)][j] # {} /\ ~Answering(Other(c), j)' /\ air' = chan'[c][a].conn =>
                    In(wire'[c], {"res"}, chan'[c][a].id)
  BY DEF Opening
<1> DEFINE o == Other(c)
           x == chan[c][a].id
<1>0. o \in Ends BY OtherEnd
<1> HIDE DEF o
<1>1. UNCHANGED <<chan, handles, air>> /\ \A j \in Slots : Answering(o, j)' <=> Answering(o, j)
  BY <1>0 DEF Asked, Answering
<1>2. /\ ~In(wire[o], {"data", "ind"}, x)
      /\ \A p \in 1 .. Len(wire[c]) :
              wire[c][p].kind \in {"data", "ind"} /\ wire[c][p].id = x =>
                 \E q \in 1 .. p - 1 : wire[c][q].kind = "res" /\ wire[c][q].id = x
      /\ \A j \in Slots : chan[o][j].id = x =>
              /\ chan[o][j].state # "Connecting"
              /\ chan[o][j].state = "Connected" => handles[o][j] # {}
              /\ handles[o][j] # {} /\ ~Answering(o, j) /\ air = chan[c][a].conn => In(wire[c], {"res"}, x)
  BY <1>1 DEF Apart, Opening, o
<1>3. ~In(wire'[o], {"data", "ind"}, x) BY <1>0, <1>2, AskedIn
<1>4. In(wire[c], {"res"}, x) => In(wire'[c], {"res"}, x) BY AskedIn
<1>5. ASSUME NEW p \in 1 .. Len(wire'[c]), wire'[c][p].kind \in {"data", "ind"}, wire'[c][p].id = x
      PROVE  \E q \in 1 .. p - 1 : wire'[c][q].kind = "res" /\ wire'[c][q].id = x
  <2>1. m.kind = "req" BY DEF Asked
  <2>2. p \in 1 .. Len(wire[c]) /\ wire'[c][p] = wire[c][p] BY <1>5, <2>1, AskedWire
  <2>3. PICK q \in 1 .. p - 1 : wire[c][q].kind = "res" /\ wire[c][q].id = x BY <1>2, <1>5, <2>2
  <2>4. q \in 1 .. Len(wire[c]) BY <2>2
  <2>5. wire'[c][q] = wire[c][q] BY <2>4, AskedWire
  <2> QED BY <2>3, <2>5
<1> QED BY <1>1, <1>2, <1>3, <1>4, <1>5 DEF o

LEMMA AskedRest ==
    ASSUME IInv, Apart, NEW e \in Ends, NEW m \in Message, Asked(e, m)
    PROVE  Bounded' /\ More' /\ Answers' /\ Agreed'
<1>0. /\ creator[e].pc = "ask" /\ m.kind = "req" /\ m.id = creator[e].id /\ m.conn = creator[e].conn
      /\ m.cid = creator[e].slot /\ m.conn = air
      /\ UNCHANGED <<chan, handles, acceptor, sender, receiver, linked, air, count>>
  BY DEF Asked
<1>1. \A f \in Ends, j \in Slots : Answering(f, j)' <=> Answering(f, j) BY <1>0 DEF Answering
<1>2. \A f \in Ends : \A q \in 1 .. Len(wire'[f]) :
         \/ q \in 1 .. Len(wire[f]) /\ wire'[f][q] = wire[f][q]
         \/ f = Other(e) /\ q = Len(wire[f]) + 1 /\ wire'[f][q] = m
  BY AskedWire
<1>3. (\A f \in Ends : f # e => creator'[f] = creator[f]) /\ creator'[e].pc = "wait" BY AskedWire
<1>4. More' BY <1>0, <1>1 DEF Apart, More
<1>5. Answers'
  <2>1. m.kind # "res" BY <1>0
  <2> QED BY <1>2, <2>1 DEF Apart, Answers
<1>6. Bounded'
  <2>1. m.id <= count.opens /\ m.conn <= count.links BY <1>0 DEF Apart, Bounded
  <2>2. ASSUME NEW f \in Ends, NEW p \in 1 .. Len(wire'[f])
        PROVE  /\ wire'[f][p].kind \in Signals => /\ wire'[f][p].id <= count.opens
                                                  /\ wire'[f][p].conn <= count.links
               /\ wire'[f][p].kind = "up" => wire'[f][p].conn <= count.links
    <3>1. CASE p \in 1 .. Len(wire[f]) /\ wire'[f][p] = wire[f][p] BY <3>1 DEF Apart, Bounded
    <3>2. CASE wire'[f][p] = m BY <1>0, <2>1, <3>2
    <3> QED BY <1>2, <3>1, <3>2
  <2>3. \A f \in Ends : creator'[f].pc = "ask" => creator'[f] = creator[f] BY <1>3
  <2> QED BY <1>0, <2>2, <2>3 DEF Apart, Bounded
<1>7. Agreed'
  <2>1. PICK g \in Places, h \in Links : Agree(g, h) BY DEF Apart, Agreed
  <2>2. g[m.id][e] = m.cid /\ h[m.id] = m.conn BY <1>0, <2>1 DEF Agree
  <2>3. \A f \in Ends : creator'[f].pc = "ask" => /\ g[creator'[f].id][f] = creator'[f].slot
                                                  /\ h[creator'[f].id] = creator'[f].conn
    BY <1>3, <2>1 DEF Agree
  <2>4. ASSUME NEW f \in Ends, NEW p \in 1 .. Len(wire'[f]) PROVE SignalAgrees(f, wire'[f][p], g, h)
    <3>1. CASE p \in 1 .. Len(wire[f]) /\ wire'[f][p] = wire[f][p] BY <2>1, <3>1 DEF Agree
    <3>2. CASE f = Other(e) /\ wire'[f][p] = m
      <4>1. Other(f) = e BY <3>2, OtherEnd
      <4> QED BY <1>0, <2>2, <3>2, <4>1 DEF SignalAgrees
    <3> QED BY <1>2, <3>1, <3>2
  <2>5. ASSUME NEW f \in Ends, NEW j \in Slots
        PROVE  /\ SlotAgrees(f, j, chan'[f][j], sender'[f][j], g, h)
               /\ Answering(f, j)' => h[chan'[f][j].id] = acceptor'[f].conn
    BY <1>0, <1>1, <2>1 DEF Agree
  <2>6. Agree(g, h)' BY <2>3, <2>4, <2>5 DEF Agree
  <2> QED BY <2>6 DEF Agreed
<1> QED BY <1>4, <1>5, <1>6, <1>7

LEMMA CreateAskMore ==
    ASSUME IInv, IInv', Apart, Balance, NEW e \in Ends, CreateAsk(e)
    PROVE  Apart' /\ Balance'
<1> DEFINE c == creator[e]
           m == Msg("req", c.conn, c.slot, c.id, Initial)
<1>1. UNCHANGED <<chan, handles, acceptor, sender, receiver, linked, air, count>> /\ c.pc = "ask"
  BY DEF CreateAsk, others
<1>2. c \in Creator BY DEF IInv, Rest
<1>3. m \in Message BY <1>2, ChannelsAssumption DEF Creator, Msg, Message
<1>4. m.kind = "req" /\ m.conn = c.conn /\ m.cid = c.slot /\ m.id = c.id /\ m.n = Initial BY DEF Msg
<1>5. \/ /\ wire' = IF air = m.conn THEN [wire EXCEPT ![Other(e)] = Append(wire[Other(e)], m)] ELSE wire
         /\ creator' = [creator EXCEPT ![e] = [creator[e] EXCEPT !.pc = "wait"]]
      \/ creator' = [creator EXCEPT ![e] = Done] /\ wire' = wire
  BY DEF CreateAsk, Write
<1> HIDE DEF m
<1>6. CASE wire' = wire
  <2>1. \A f \in Ends : creator'[f].pc = "ask" => creator'[f] = creator[f]
    <3>1. creator \in [Ends -> Creator] BY DEF IInv, Rest
    <3>2. PICK r : creator' = [creator EXCEPT ![e] = r] /\ r.pc # "ask"
      <4>1. [creator[e] EXCEPT !.pc = "wait"].pc # "ask" BY <1>2 DEF Creator
      <4>2. Done.pc # "ask" BY DEF Done
      <4> QED BY <1>5, <4>1, <4>2
    <3> QED BY <3>1, <3>2
  <2> QED BY <1>1, <1>6, <2>1, LocalNone
<1>7. CASE /\ air = m.conn /\ wire' = [wire EXCEPT ![Other(e)] = Append(wire[Other(e)], m)]
           /\ creator' = [creator EXCEPT ![e] = [creator[e] EXCEPT !.pc = "wait"]]
  <2>1. Asked(e, m) BY <1>1, <1>4, <1>7 DEF Asked
  <2>2. Apart' BY <1>3, <2>1, AskedAsking, AskedRequested, AskedWaiting, AskedOpening, AskedRest DEF Apart
  <2>3. ASSUME NEW f \in Ends, NEW x PROVE OnAir(f, x)' = OnAir(f, x)
    <3>1. Share(m, "data", x) = 0 /\ Share(m, "ind", x) = 0 BY <1>4 DEF Share
    <3>2. /\ OnAir(e, x) \in Nat /\ OnAir(Other(e), x) \in Nat
          /\ OnAir(e, x)' = OnAir(e, x) + Share(m, "data", x)
          /\ OnAir(Other(e), x)' = OnAir(Other(e), x) + Share(m, "ind", x)
      BY <1>3, <1>7, AppendCredits
    <3>3. OnAir(e, x)' = OnAir(e, x) /\ OnAir(Other(e), x)' = OnAir(Other(e), x) BY <3>1, <3>2
    <3>4. f = e \/ f = Other(e) BY DEF Ends, Other
    <3> QED BY <3>3, <3>4 DEF OnAir, Frames, Indicated
  <2>4. \A f \in Ends, i \in Slots : Answering(f, i)' <=> Answering(f, i) BY <1>1 DEF Answering
  <2>5. AllTurn
    <3>1. \A f \in Ends, i \in Slots : TurnOK(f, i) BY <1>1, <2>4, StillTurn DEF Apart
    <3>2. FuturesKept BY <1>1, <2>1, <2>4, <1>3, AskedWire DEF FuturesKept
    <3> QED BY <3>1, <3>2 DEF AllTurn
  <2>6. Balance' BY <1>1, <2>3, <2>5, TurnBalance
  <2> QED BY <2>2, <2>6
<1> QED BY <1>5, <1>6, <1>7

-----------------------------------------------------------------------------
(* One slot is opened; nothing else changes, but for what is read.         *)

Opened(e, i) ==
    /\ \A f \in Ends, j \in Slots : f # e \/ j # i =>
          chan'[f][j] = chan[f][j] /\ handles'[f][j] = handles[f][j]
    /\ chan'[e][i].id # 0 /\ sender[e][i] = Quiet /\ receiver[e][i].pc = "idle"
    /\ UNCHANGED <<sender, receiver, air, linked>>
    /\ \A f \in Ends, j \in Slots : f # e \/ j # i => (Answering(f, j)' <=> Answering(f, j))
    /\ WireLess
    /\ \A f \in Ends : \A p \in 1 .. Len(wire'[f]) :
          \E q \in 1 .. Len(wire[f]) : wire'[f][p] = wire[f][q]

LEMMA OpenWire ==
    ASSUME IInv, wire' = wire \/ \E e \in Ends : \E k : Received(e, k)
    PROVE  /\ WireLess
           /\ \A f \in Ends : \A p \in 1 .. Len(wire'[f]) :
                \E q \in 1 .. Len(wire[f]) : wire'[f][p] = wire[f][q]
<1>1. CASE wire' = wire BY <1>1, SameWire
<1>2. CASE \E e \in Ends : \E k : Received(e, k)
  <2>e. PICK e \in Ends : \E k : Received(e, k) BY <1>2
  <2>1. PICK k : Received(e, k) BY <2>e
  <2>2. \A f \in Ends : f = e \/ f = Other(e) BY DEF Ends, Other
  <2>3. \A p \in 1 .. Len(wire'[e]) : p + 1 \in 1 .. Len(wire[e]) /\ wire'[e][p] = wire[e][p + 1]
    BY <2>1, TailWire
  <2>4. wire'[Other(e)] = wire[Other(e)] /\ WireLess BY <2>1, TailWire
  <2>5. \A p \in 1 .. Len(wire'[e]) : \E q \in 1 .. Len(wire[e]) : wire'[e][p] = wire[e][q] BY <2>3
  <2> QED BY <2>2, <2>4, <2>5
<1> QED BY <1>1, <1>2

LEMMA OpenUnanswered ==
    ASSUME NEW e \in Ends, NEW i \in Slots, Opened(e, i), NEW f \in Ends, NEW y, Unanswered(f, y),
           f = e \/ chan'[e][i].id # y
    PROVE  Unanswered(f, y)'
<1>1. \A b \in Ends : ~In(wire'[b], Said, y)
  <2>1. Said \in SUBSET Signals BY DEF Said, Signals
  <2> QED BY <2>1, InLess DEF Unanswered, Opened
<1>2. ASSUME NEW j \in Slots, chan'[Other(f)][j].id = y
      PROVE  /\ handles'[Other(f)][j] = {}
             /\ chan'[Other(f)][j].state \notin {"PeerConnecting", "Connected"}
  <2>1. Other(f) \in Ends /\ (f = e => Other(f) # e) BY OtherEnd
  <2>2. Other(f) # e \/ j # i BY <1>2, <2>1
  <2>3. chan'[Other(f)][j] = chan[Other(f)][j] /\ handles'[Other(f)][j] = handles[Other(f)][j]
    BY <2>1, <2>2 DEF Opened
  <2> QED BY <1>2, <2>3 DEF Unanswered
<1> QED BY <1>1, <1>2 DEF Unanswered

LEMMA OpenUnasked ==
    ASSUME NEW e \in Ends, NEW i \in Slots, Opened(e, i), NEW f \in Ends, NEW y, Unasked(f, y),
           chan'[e][i].id # y
    PROVE  Unasked(f, y)'
<1>1. Unanswered(f, y)' BY OpenUnanswered DEF Unasked
<1>2. \A j \in Slots : chan'[f][j].id # y BY DEF Unasked, Opened
<1> QED BY <1>1, <1>2 DEF Unasked

LEMMA OpenBounded ==
    ASSUME IInv, IInv', Apart, NEW e \in Ends, NEW i \in Slots, Opened(e, i),
           count'.links = count.links, count'.opens >= count.opens,
           chan'[e][i].id <= count'.opens, chan'[e][i].conn <= count.links,
           \A f \in Ends : creator'[f].pc = "ask" => creator'[f].id <= count'.opens
    PROVE  Bounded'
<1>0. count.opens \in Nat /\ count'.opens \in Nat BY DEF IInv, Rest
<1>1. ASSUME NEW f \in Ends, NEW j \in Slots
      PROVE  chan'[f][j].id <= count'.opens /\ chan'[f][j].conn <= count.links
  <2>1. CASE f = e /\ j = i BY <2>1
  <2>2. CASE f # e \/ j # i
    <3>1. chan'[f][j] = chan[f][j] BY <2>2 DEF Opened
    <3>2. chan[f][j].id <= count.opens /\ chan[f][j].conn <= count.links BY DEF Apart, Bounded
    <3>3. chan[f][j].id \in Nat BY SlotType DEF IInv, Chan
    <3> QED BY <1>0, <3>1, <3>2, <3>3
  <2> QED BY <2>1, <2>2
<1>2. ASSUME NEW f \in Ends, NEW p \in 1 .. Len(wire'[f])
      PROVE  /\ wire'[f][p].kind \in Signals => /\ wire'[f][p].id <= count'.opens
                                                /\ wire'[f][p].conn <= count.links
             /\ wire'[f][p].kind = "up" => wire'[f][p].conn <= count.links
  <2>1. PICK q \in 1 .. Len(wire[f]) : wire'[f][p] = wire[f][q] BY DEF Opened
  <2>2. wire[f][q].id \in Nat
    <3>1. wire[f] \in Seq(Message) BY DEF IInv, Rest
    <3>2. wire[f][q] \in Message BY <3>1
    <3> QED BY <3>2 DEF Message
  <2>3. /\ wire[f][q].kind \in Signals => /\ wire[f][q].id <= count.opens
                                          /\ wire[f][q].conn <= count.links
        /\ wire[f][q].kind = "up" => wire[f][q].conn <= count.links
    BY DEF Apart, Bounded
  <2> QED BY <1>0, <2>1, <2>2, <2>3
<1>3. air <= count.links /\ \A f \in Ends : linked[f].conn <= count.links BY DEF Apart, Bounded
<1>4. air' = air /\ linked' = linked BY DEF Opened
<1> QED BY <1>1, <1>2, <1>3, <1>4 DEF Bounded

LEMMA OpenMore ==
    ASSUME IInv, Apart, NEW e \in Ends, NEW i \in Slots, Opened(e, i),
           MoreOK(i, chan'[e][i], handles'[e][i], Quiet)
    PROVE  More'
<1>1. sender' = sender /\ sender[e][i] = Quiet BY DEF Opened
<1>2. ASSUME NEW f \in Ends, NEW j \in Slots
      PROVE  /\ MoreOK(j, chan'[f][j], handles'[f][j], sender'[f][j])
             /\ sender'[f][j].pc # "idle" => ~Answering(f, j)'
  <2>1. CASE f = e /\ j = i BY <1>1, <2>1 DEF Quiet
  <2>2. CASE f # e \/ j # i
    <3>1. chan'[f][j] = chan[f][j] /\ handles'[f][j] = handles[f][j] /\ (Answering(f, j)' <=> Answering(f, j))
      BY <2>2 DEF Opened
    <3> QED BY <1>1, <3>1 DEF Apart, More
  <2> QED BY <2>1, <2>2
<1> QED BY <1>2 DEF More

LEMMA OpenBalance ==
    ASSUME IInv, Balance, NEW e \in Ends, NEW i \in Slots, Opened(e, i),
           \A f \in Ends : \A x : OnAir(f, x)' = OnAir(f, x),
           \A b \in Slots : Pair(e, i, b)' =>
              LET o == Other(e) IN
              /\ Mine(chan'[e][i], sender[e][i]) + OnAir(e, chan'[e][i].id)
                    = Theirs(chan[o][b], receiver[o][b])
              /\ Mine(chan[o][b], sender[o][b]) + OnAir(o, chan'[e][i].id)
                    = Theirs(chan'[e][i], receiver[e][i])
    PROVE  Balance'
<1> SUFFICES ASSUME NEW f \in Ends, NEW a \in Slots, NEW b \in Slots, Pair(f, a, b)'
             PROVE  Mine(chan'[f][a], sender'[f][a]) + OnAir(f, chan[f][a].id)'
                       = Theirs(chan'[Other(f)][b], receiver'[Other(f)][b])
  BY DEF Balance
<1>a. PICK x : x = chan'[f][a].id OBVIOUS
<1>1. /\ chan'[f][a].state \in OpenStates /\ chan'[Other(f)][b].state \in OpenStates
      /\ chan'[Other(f)][b].id = x /\ air' = chan'[f][a].conn /\ air' = chan'[Other(f)][b].conn
  BY <1>a DEF Pair
<1>2. UNCHANGED <<sender, receiver, air>> BY DEF Opened
<1>3. OnAir(f, chan[f][a].id)' = OnAir(f, x)
  <2>1. \A z : z = x => OnAir(f, z)' = OnAir(f, x) OBVIOUS
  <2> QED BY <1>a, <2>1
<1>4. Other(f) \in Ends /\ Other(f) # f /\ Other(Other(f)) = f BY OtherEnd
<1>5. CASE f = e /\ a = i
  <2>1. Pair(e, i, b)' BY <1>5
  <2>2. chan'[Other(e)][b] = chan[Other(e)][b] BY <1>4, <1>5 DEF Opened
  <2>3. Mine(chan'[e][i], sender[e][i]) + OnAir(e, chan'[e][i].id)
                    = Theirs(chan[Other(e)][b], receiver[Other(e)][b])
    BY <2>1
  <2> QED BY <1>2, <1>3, <1>5, <1>a, <2>2, <2>3
<1>6. CASE Other(f) = e /\ b = i
  <2>1. f = Other(e) BY <1>4, <1>6
  <2>2. Pair(e, i, a)' BY <1>1, <1>a, <1>6, <2>1 DEF Pair
  <2>3. chan'[f][a] = chan[f][a] BY <1>4, <1>6 DEF Opened
  <2>4. x = chan'[e][i].id BY <1>1, <1>6
  <2>5. Mine(chan[Other(e)][a], sender[Other(e)][a]) + OnAir(Other(e), chan'[e][i].id)
                    = Theirs(chan'[e][i], receiver[e][i])
    BY <2>2
  <2> QED BY <1>2, <1>3, <1>6, <2>1, <2>3, <2>4, <2>5
<1>7. CASE ~(f = e /\ a = i) /\ ~(Other(f) = e /\ b = i)
  <2>1. chan'[f][a] = chan[f][a] /\ chan'[Other(f)][b] = chan[Other(f)][b] BY <1>4, <1>7 DEF Opened
  <2>2. Pair(f, a, b) BY <1>1, <1>2, <1>a, <2>1 DEF Pair
  <2>3. Mine(chan[f][a], sender[f][a]) + OnAir(f, chan[f][a].id)
           = Theirs(chan[Other(f)][b], receiver[Other(f)][b])
    BY <2>2 DEF Balance
  <2> QED BY <1>2, <1>3, <1>a, <2>1, <2>3
<1> QED BY <1>5, <1>6, <1>7

LEMMA OpenAsking ==
    ASSUME IInv, Apart, NEW e \in Ends, NEW i \in Slots, Opened(e, i), creator' = creator,
           \A c \in Ends : creator[c].pc = "ask" => creator[c].id # chan'[e][i].id
    PROVE  Asking'
<1> SUFFICES ASSUME NEW c \in Ends, creator'[c].pc = "ask"
             PROVE  /\ creator'[c].id # 0 /\ creator'[c].conn # None
                    /\ Unasked(Other(c), creator[c].id)'
                    /\ \A f \in Ends : ~In(wire'[f], {"req"}, creator'[c].id)
                    /\ creator'[Other(c)].pc = "ask" => creator'[Other(c)].id # creator'[c].id
  BY DEF Asking
<1>a. PICK y : y = creator[c].id OBVIOUS
<1>1. /\ y # 0 /\ creator[c].conn # None /\ Unasked(Other(c), y)
      /\ \A f \in Ends : ~In(wire[f], {"req"}, y)
      /\ creator[Other(c)].pc = "ask" => creator[Other(c)].id # y
  BY <1>a DEF Apart, Asking
<1>2. Unasked(Other(c), y)' BY <1>1, <1>a, OtherEnd, OpenUnasked
<1>3. {"req"} \in SUBSET Signals BY DEF Signals
<1>4. \A f \in Ends : ~In(wire'[f], {"req"}, y) BY <1>1, <1>3, InLess DEF Opened
<1>5. y = creator'[c].id BY <1>a
<1>6. Unasked(Other(c), creator[c].id)' BY <1>2, <1>5
<1> QED BY <1>1, <1>4, <1>5, <1>6

LEMMA OpenRequested ==
    ASSUME IInv, Apart, NEW e \in Ends, NEW i \in Slots, Opened(e, i),
           \A o \in Ends : \A p \in 1 .. Len(wire'[o]) :
              wire'[o][p].kind = "req" => wire'[o][p].id # chan'[e][i].id
    PROVE  Requested'
<1> SUFFICES ASSUME NEW o \in Ends, NEW p \in 1 .. Len(wire'[o]), wire'[o][p].kind = "req"
             PROVE  /\ wire'[o][p].id # 0 /\ wire'[o][p].conn # None /\ wire'[o][p].n = Initial
                    /\ Unasked(o, wire[o][p].id)'
                    /\ \A f \in Ends : \A q \in 1 .. Len(wire'[f]) :
                          wire'[f][q].kind = "req" /\ wire'[f][q].id = wire'[o][p].id => f = o /\ q = p
  BY DEF Requested
<1>a. PICK y : y = wire'[o][p].id OBVIOUS
<1>0. WireLess BY DEF Opened
<1>1. PICK d \in {0, 1} : Dropped(o, d) BY <1>0 DEF WireLess
<1>2. p + d \in 1 .. Len(wire[o]) /\ wire'[o][p] = wire[o][p + d]
  <2>1. p \in 1 .. p OBVIOUS
  <2> QED BY <1>1, <2>1 DEF Dropped, Signals
<1> DEFINE m == wire[o][p + d]
<1>3. /\ m.id = y /\ m.id # 0 /\ m.conn # None /\ m.n = Initial /\ Unasked(o, y)
      /\ \A f \in Ends : \A q \in 1 .. Len(wire[f]) :
            wire[f][q].kind = "req" /\ wire[f][q].id = m.id => f = o /\ q = p + d
  BY <1>2, <1>a DEF Apart, Requested
<1>5. ASSUME NEW f \in Ends, NEW q \in 1 .. Len(wire'[f]), wire'[f][q].kind = "req",
             wire'[f][q].id = m.id
      PROVE  f = o /\ q = p
  <2>1. PICK c \in {0, 1} : Dropped(f, c) /\ (f = o => c = d)
    BY <1>0, <1>1 DEF WireLess
  <2>2. q \in 1 .. q OBVIOUS
  <2>3. q + c \in 1 .. Len(wire[f]) /\ wire'[f][q] = wire[f][q + c]
    BY <1>5, <2>1, <2>2 DEF Dropped, Signals
  <2>4. f = o /\ q + c = p + d BY <1>3, <1>5, <2>3
  <2> QED BY <2>1, <2>4
<1>6. y # chan'[e][i].id BY <1>a
<1>7. Unasked(o, y)' BY <1>3, <1>6, OpenUnasked
<1>8. Unasked(o, wire[o][p].id)' BY <1>7, <1>a
<1>9. wire'[o][p] = m BY <1>2
<1> HIDE DEF m
<1> QED BY <1>3, <1>5, <1>8, <1>9

LEMMA OpenWaiting ==
    ASSUME IInv, Apart, NEW e \in Ends, NEW i \in Slots, Opened(e, i),
           chan'[e][i].state = "PeerConnecting" \/ Answering(e, i)' =>
              \A y : y = chan'[e][i].id => Unanswered(e, y)',
           \A j \in Slots : chan[Other(e)][j].state = "PeerConnecting" \/ Answering(Other(e), j) =>
              chan[Other(e)][j].id # chan'[e][i].id
    PROVE  Waiting'
<1> SUFFICES ASSUME NEW f \in Ends, NEW j \in Slots,
                    chan'[f][j].state = "PeerConnecting" \/ Answering(f, j)'
             PROVE  Unanswered(f, chan[f][j].id)'
  BY DEF Waiting
<1>a. PICK y : y = chan'[f][j].id OBVIOUS
<1>1. CASE f = e /\ j = i
  <2>1. Unanswered(f, y)' BY <1>1, <1>a
  <2> QED BY <2>1, <1>a
<1>2. CASE f # e \/ j # i
  <2>1. chan'[f][j] = chan[f][j] /\ (Answering(f, j)' <=> Answering(f, j)) BY <1>2 DEF Opened
  <2>2. Unanswered(f, y) BY <1>a, <2>1 DEF Apart, Waiting
  <2>3. f = e \/ f = Other(e) BY DEF Ends, Other
  <2>4. f = e \/ chan'[e][i].id # y BY <1>a, <2>1, <2>3
  <2>5. Unanswered(f, y)' BY <2>2, <2>4, OpenUnanswered
  <2> QED BY <2>5, <1>a
<1> QED BY <1>1, <1>2

LEMMA OpenOpening ==
    ASSUME IInv, Apart, NEW e \in Ends, NEW i \in Slots, Opened(e, i), ResKept,
           chan'[e][i].state = "Connecting" => LET x == chan'[e][i].id IN
              /\ \A f \in Ends : ~In(wire'[f], {"data", "ind"}, x)
              /\ \A j \in Slots : chan[Other(e)][j].id # x,
           \A a \in Slots :
              chan[Other(e)][a].state = "Connecting" /\ chan[Other(e)][a].id = chan'[e][i].id =>
                 /\ chan'[e][i].state # "Connecting"
                 /\ chan'[e][i].state = "Connected" => handles'[e][i] # {}
                 /\ handles'[e][i] = {} \/ Answering(e, i)'
    PROVE  Opening'
<1> SUFFICES ASSUME NEW c \in Ends, NEW a \in Slots, chan'[c][a].state = "Connecting"
             PROVE
        /\ ~In(wire'[Other(c)], {"data", "ind"}, chan'[c][a].id)
        /\ \A p \in 1 .. Len(wire'[c]) :
              wire'[c][p].kind \in {"data", "ind"} /\ wire'[c][p].id = chan'[c][a].id =>
                 \E q \in 1 .. p - 1 : wire'[c][q].kind = "res" /\ wire'[c][q].id = chan'[c][a].id
        /\ \A j \in Slots : chan'[Other(c)][j].id = chan'[c][a].id =>
              /\ chan'[Other(c)][j].state # "Connecting"
              /\ chan'[Other(c)][j].state = "Connected" => handles'[Other(c)][j] # {}
              /\ handles'[Other(c)][j] # {} /\ ~Answering(Other(c), j)' /\ air' = chan'[c][a].conn =>
                    In(wire'[c], {"res"}, chan'[c][a].id)
  BY DEF Opening
<1> DEFINE o == Other(c)
           x == chan'[c][a].id
<1>0. o \in Ends /\ o # c /\ Other(o) = c BY OtherEnd
<1>b. \A f \in Ends : f = e \/ f = Other(e) BY DEF Ends, Other
<1> HIDE DEF o
<1>1. CASE c = e /\ a = i
  <2>1. /\ \A f \in Ends : ~In(wire'[f], {"data", "ind"}, x)
        /\ \A j \in Slots : chan[o][j].id # x
    BY <1>1 DEF o
  <2>2. \A j \in Slots : chan'[o][j] = chan[o][j] BY <1>0, <1>1 DEF Opened
  <2>3. \A p \in 1 .. Len(wire'[c]) : ~(wire'[c][p].kind \in {"data", "ind"} /\ wire'[c][p].id = x)
    BY <2>1 DEF In
  <2> HIDE DEF x
  <2>4. /\ ~In(wire'[o], {"data", "ind"}, x)
        /\ \A j \in Slots : chan'[o][j].id # x
    BY <1>0, <2>1, <2>2
  <2> QED BY <2>3, <2>4 DEF o, x
<1>2. CASE c # e \/ a # i
  <2>1. chan'[c][a] = chan[c][a] BY <1>2 DEF Opened
  <2>2. /\ ~In(wire[o], {"data", "ind"}, x)
        /\ \A p \in 1 .. Len(wire[c]) :
              wire[c][p].kind \in {"data", "ind"} /\ wire[c][p].id = x =>
                 \E q \in 1 .. p - 1 : wire[c][q].kind = "res" /\ wire[c][q].id = x
        /\ \A j \in Slots : chan[o][j].id = x =>
              /\ chan[o][j].state # "Connecting"
              /\ chan[o][j].state = "Connected" => handles[o][j] # {}
              /\ handles[o][j] # {} /\ ~Answering(o, j) /\ air = chan[c][a].conn => In(wire[c], {"res"}, x)
    BY <2>1 DEF Apart, Opening, o
  <2>3. ~In(wire'[o], {"data", "ind"}, x)
    <3>1. {"data", "ind"} \in SUBSET Signals BY DEF Signals
    <3> QED BY <1>0, <2>2, <3>1, InLess DEF Opened
  <2>4. ASSUME NEW p \in 1 .. Len(wire'[c]), wire'[c][p].kind \in {"data", "ind"}, wire'[c][p].id = x
        PROVE  \E q \in 1 .. p - 1 : wire'[c][q].kind = "res" /\ wire'[c][q].id = x
    <3>1. PICK d \in {0, 1} : Dropped(c, d) /\ (d = 1 => ~(wire[c][1].kind = "res" /\ wire[c][1].id = x))
      BY <2>1 DEF ResKept
    <3>2. \A q \in 1 .. p : q + d \in 1 .. Len(wire[c]) /\ wire'[c][q] = wire[c][q + d]
      BY <2>4, <3>1 DEF Dropped, Signals
    <3>3. p + d \in 1 .. Len(wire[c]) /\ wire'[c][p] = wire[c][p + d]
      <4>1. p \in 1 .. p OBVIOUS
      <4> QED BY <3>2, <4>1
    <3>4. PICK q \in 1 .. p + d - 1 : wire[c][q].kind = "res" /\ wire[c][q].id = x
      BY <2>2, <2>4, <3>3
    <3>5. q # 1 \/ d = 0 BY <3>1, <3>4
    <3>6. q - d \in 1 .. p - 1 /\ (q - d) + d = q BY <3>4, <3>5
    <3>7. wire'[c][q - d] = wire[c][q] BY <3>2, <3>6
    <3> QED BY <3>4, <3>6, <3>7
  <2>5. air' = chan[c][a].conn => air = air' /\ (In(wire[c], {"res"}, x) => In(wire'[c], {"res"}, x))
    BY <2>1 DEF ResKept
  <2>6. ASSUME NEW j \in Slots, chan'[o][j].id = x
        PROVE   /\ chan'[o][j].state # "Connecting"
                /\ chan'[o][j].state = "Connected" => handles'[o][j] # {}
                /\ handles'[o][j] # {} /\ ~Answering(o, j)' /\ air' = chan[c][a].conn => In(wire'[c], {"res"}, x)
    <3>1. CASE o = e /\ j = i
      <4>1. c = Other(e) BY <1>0, <1>b, <3>1
      <4>2. chan[Other(e)][a].state = "Connecting" /\ chan[Other(e)][a].id = chan'[e][i].id
        BY <2>1, <2>6, <3>1, <4>1
      <4> QED BY <3>1, <4>2
    <3>2. CASE o # e \/ j # i
      <4>1. chan'[o][j] = chan[o][j] /\ handles'[o][j] = handles[o][j] /\ (Answering(o, j)' <=> Answering(o, j))
        BY <1>0, <3>2 DEF Opened
      <4> QED BY <2>2, <2>5, <2>6, <4>1
    <3> QED BY <3>1, <3>2
  <2> QED BY <2>1, <2>3, <2>4, <2>6 DEF o
<1> QED BY <1>1, <1>2

(* The wire is the same, or its head was no answer.                        *)
LEMMA OpenRes ==
    ASSUME IInv, NEW e \in Ends, air' = air,
           \/ wire' = wire
           \/ \E k : /\ Received(e, k)
                     /\ \A a \in Slots : chan'[e][a].state = "Connecting" =>
                           ~(Head(wire[e]).kind = "res" /\ Head(wire[e]).id = chan[e][a].id)
    PROVE  ResKept
<1> SUFFICES ASSUME NEW c \in Ends, NEW a \in Slots, chan'[c][a].state = "Connecting"
             PROVE
        /\ Dropped(c, 0) \/ (Dropped(c, 1) /\ ~(wire[c][1].kind = "res" /\ wire[c][1].id = chan[c][a].id))
        /\ In(wire[c], {"res"}, chan[c][a].id) => In(wire'[c], {"res"}, chan[c][a].id)
  BY DEF ResKept
<1>1. CASE wire' = wire BY <1>1, SameWire
<1>2. ASSUME NEW k, Received(e, k),
             \A b \in Slots : chan'[e][b].state = "Connecting" =>
                           ~(Head(wire[e]).kind = "res" /\ Head(wire[e]).id = chan[e][b].id)
      PROVE
        /\ Dropped(c, 0) \/ (Dropped(c, 1) /\ ~(wire[c][1].kind = "res" /\ wire[c][1].id = chan[c][a].id))
        /\ In(wire[c], {"res"}, chan[c][a].id) => In(wire'[c], {"res"}, chan[c][a].id)
  <2>1. CASE c = Other(e)
    <3>1. wire'[c] = wire[c] /\ Dropped(c, 0) BY <1>2, <2>1, TailWire
    <3> QED BY <3>1
  <2>2. CASE c = e
    <3>1. ~(wire[e][1].kind = "res" /\ wire[e][1].id = chan[e][a].id) BY <1>2, <2>2, TailWire
    <3>2. Dropped(e, 1) BY <1>2, TailWire
    <3>3. ASSUME In(wire[e], {"res"}, chan[e][a].id) PROVE In(wire'[e], {"res"}, chan[e][a].id)
      <4>1. PICK p \in 1 .. Len(wire[e]) : wire[e][p].kind \in {"res"} /\ wire[e][p].id = chan[e][a].id
        BY <3>3 DEF In
      <4>2. p # 1 BY <3>1, <4>1
      <4>3. p - 1 \in 1 .. Len(wire'[e]) /\ wire'[e][p - 1] = wire[e][p] BY <1>2, <4>2, TailWire
      <4> QED BY <4>1, <4>3 DEF In
    <3> QED BY <2>2, <3>1, <3>2, <3>3
  <2>3. c = e \/ c = Other(e) BY DEF Ends, Other
  <2> QED BY <2>1, <2>2, <2>3
<1> QED BY <1>1, <1>2

LEMMA AllocatedMore ==
    ASSUME Shape, Table, NEW e \in Ends, Free(e) # {}, NEW l \in Conns, NEW id \in Nat,
           NEW st \in {"Connecting", "PeerConnecting"}
    PROVE  LET r == Allocated(e, l, st, id)
               i == First(Free(e)) IN
           r.conn = l /\ r.cid = i /\ r.id = id /\ r.skew = 0 /\ r.astray = 0
<1> DEFINE i == First(Free(e))
           q == chan[e][i]
<1>1. i \in Slots BY FirstOf DEF Free
<1>2. q \in Chan BY <1>1, SlotType
<1>6. Allocated(e, l, st, id) = [q EXCEPT !.state = st, !.conn = l, !.cid = i, !.id = id,
                                         !.inbound = 0, !.skew = 0, !.astray = 0]
  BY DEF Allocated
<1> HIDE DEF i, q
<1> QED BY <1>2, <1>6 DEF Chan, i

(* A slot that no handle has rests.                                        *)
LEMMA NoHandle ==
    ASSUME IInv, Apart, NEW e \in Ends, NEW i \in Slots, chan[e][i].refs = 0
    PROVE  handles[e][i] = {} /\ receiver[e][i].pc = "idle" /\ sender[e][i] = Quiet /\ ~Answering(e, i)
<1>1. SlotOK(chan[e][i], handles[e][i], receiver[e][i]) /\ handles[e][i] \in SUBSET Forms
  BY SlotType DEF IInv
<1>2. handles[e][i] = {} BY <1>1, Counting DEF SlotOK
<1>3. receiver[e][i].pc = "idle" BY <1>1, <1>2 DEF SlotOK
<1>4. sender[e][i] = Quiet BY <1>2 DEF Apart, More, MoreOK
<1>5. ~Answering(e, i) BY <1>2 DEF IInv, Placed, Answering
<1> QED BY <1>2, <1>3, <1>4, <1>5

-----------------------------------------------------------------------------
(* A slot that is allocated. *)

LEMMA CreateFacts ==
    ASSUME IInv, NEW e \in Ends, Create(e)
    PROVE  \E i \in Slots, r \in Chan, l \in Conns, x \in Nat :
              /\ l # None /\ l = linked[e].conn /\ x = count.opens + 1 /\ chan[e][i].refs = 0
              /\ r.state = "Connecting" /\ r.conn = l /\ r.cid = i /\ r.id = x /\ r.skew = 0
              /\ r.astray = 0 /\ r.available = Initial
              /\ chan' = [chan EXCEPT ![e][i] = r]
              /\ creator' = [creator EXCEPT ![e] = [pc |-> "ask", slot |-> i, conn |-> l, id |-> x]]
<1> DEFINE l == linked[e].conn
           x == count.opens + 1
           z == Allocated(e, l, "Connecting", x)
           r == [z EXCEPT !.available = Initial, !.received = 0]
           i == First(Free(e))
<1>1. l \in Conns /\ x \in Nat /\ l # None BY DEF IInv, Rest, Create
<1>2. i \in Slots /\ z \in Chan /\ z.state = "Connecting" /\ z.refs = 0
      /\ z.conn = l /\ z.cid = i /\ z.id = x /\ z.skew = 0 /\ z.astray = 0
  BY <1>1, AllocatedOK, AllocatedMore DEF IInv, Create
<1>3. chan[e][i].refs = 0
  <2>1. i \in Free(e) BY FirstOf DEF Create
  <2> QED BY <2>1 DEF Free
<1>4. chan' = [chan EXCEPT ![e][i] = r] BY DEF Create, SetChan
<1>5. creator' = [creator EXCEPT ![e] = [pc |-> "ask", slot |-> i, conn |-> l, id |-> x]]
  BY DEF Create
<1>6. l = linked[e].conn /\ x = count.opens + 1 OBVIOUS
<1> HIDE DEF z, i, l, x
<1>7. r \in Chan /\ r.state = "Connecting" /\ r.conn = l /\ r.cid = i /\ r.id = x /\ r.skew = 0
      /\ r.astray = 0 /\ r.available = Initial
  BY <1>2, ChannelsAssumption DEF Chan
<1> HIDE DEF r
<1> QED BY <1>1, <1>2, <1>3, <1>4, <1>5, <1>6, <1>7

LEMMA CreateMore ==
    ASSUME IInv, IInv', Apart, Balance, NEW e \in Ends, Create(e)
    PROVE  Apart' /\ Balance'
<1>2. PICK i \in Slots, r \in Chan, l \in Conns, x \in Nat :
              /\ l # None /\ l = linked[e].conn /\ x = count.opens + 1 /\ chan[e][i].refs = 0
              /\ r.state = "Connecting" /\ r.conn = l /\ r.cid = i /\ r.id = x /\ r.skew = 0
              /\ r.astray = 0 /\ r.available = Initial
              /\ chan' = [chan EXCEPT ![e][i] = r]
              /\ creator' = [creator EXCEPT ![e] = [pc |-> "ask", slot |-> i, conn |-> l, id |-> x]]
  BY CreateFacts
<1>1. count.opens \in Nat /\ count.links \in Nat BY ChannelsAssumption DEF IInv, Rest, Conns
<1>3. x \in Nat /\ x > 0 /\ l # None /\ chan[e][i].refs = 0 BY <1>1, <1>2
<1>4. chan' = [chan EXCEPT ![e][i] = r] BY <1>2
<1>5. creator' = [creator EXCEPT ![e] = [pc |-> "ask", slot |-> i, conn |-> l, id |-> x]] BY <1>2
<1>6. count'.links = count.links /\ count'.opens = x BY <1>2 DEF Create, IInv, Rest
<1>7. UNCHANGED <<handles, acceptor, sender, receiver, wire, linked, air>>
  BY DEF Create, others
<1>8. l <= count.links BY <1>2 DEF Apart, Bounded
<1>9. r.state = "Connecting" /\ r.conn = l /\ r.cid = i /\ r.id = x /\ r.skew = 0 /\ r.astray = 0
      /\ r.available = Initial
  BY <1>2
<1>10. handles[e][i] = {} /\ receiver[e][i].pc = "idle" /\ sender[e][i] = Quiet /\ ~Answering(e, i)
  BY <1>2, <1>3, NoHandle
<1>11. chan'[e][i] = r /\ \A f \in Ends, j \in Slots : f # e \/ j # i => chan'[f][j] = chan[f][j]
  BY <1>2, <1>4 DEF IInv, Shape
<1>12. /\ creator'[e] = [pc |-> "ask", slot |-> i, conn |-> l, id |-> x]
       /\ \A f \in Ends : f # e => creator'[f] = creator[f]
  BY <1>5 DEF IInv, Rest
<1>13. \A f \in Ends, j \in Slots : Answering(f, j)' <=> Answering(f, j) BY <1>7 DEF Answering
<1>14. x # 0 BY <1>3
<1>15. WireLess /\ ResKept BY <1>7, OpenRes, SameWire
<1>16. \A f \in Ends : \A p \in 1 .. Len(wire'[f]) :
          \E q \in 1 .. Len(wire[f]) : wire'[f][p] = wire[f][q]
  BY <1>7
<1>17. Opened(e, i) BY <1>7, <1>9, <1>10, <1>11, <1>13, <1>14, <1>15, <1>16 DEF Opened
(* The number is new.                                                      *)
<1>18. /\ \A f \in Ends, j \in Slots : chan[f][j].id < x
       /\ \A f \in Ends : creator[f].pc = "ask" => creator[f].id < x
       /\ \A f \in Ends : \A p \in 1 .. Len(wire[f]) : wire[f][p].kind \in Signals => wire[f][p].id < x
  <2>1. \A n \in Nat : n <= count.opens => n < x BY <1>1, <1>2
  <2>2. \A f \in Ends, j \in Slots : chan[f][j].id \in Nat BY SlotType DEF IInv, Chan
  <2>3. \A f \in Ends : creator[f].id \in Nat BY DEF IInv, Rest, Creator
  <2>4. \A f \in Ends : \A p \in 1 .. Len(wire[f]) : wire[f][p].id \in Nat
    <3> SUFFICES ASSUME NEW f \in Ends, NEW p \in 1 .. Len(wire[f]) PROVE wire[f][p].id \in Nat OBVIOUS
    <3>1. wire[f] \in Seq(Message) BY DEF IInv, Rest
    <3>2. wire[f][p] \in Message BY <3>1
    <3> QED BY <3>2 DEF Message
  <2> QED BY <2>1, <2>2, <2>3, <2>4 DEF Apart, Bounded
<1>19. \A f \in Ends, K \in SUBSET Signals : ~In(wire[f], K, x) BY <1>18 DEF In
<1>20. Bounded'
  <2>1. \A f \in Ends : creator'[f].pc = "ask" => creator'[f].id <= count'.opens
    <3> SUFFICES ASSUME NEW f \in Ends, creator'[f].pc = "ask" PROVE creator'[f].id <= x BY <1>6
    <3>1. CASE f = e BY <1>1, <1>12, <3>1
    <3>2. CASE f # e
      <4>1. creator[f].id \in Nat BY DEF IInv, Rest, Creator
      <4> QED BY <1>1, <1>12, <1>18, <3>2, <4>1
    <3> QED BY <3>1, <3>2
  <2>2. count'.opens >= count.opens /\ r.id <= count'.opens BY <1>1, <1>2, <1>6, <1>9
  <2> QED BY <1>2, <1>6, <1>8, <1>9, <1>11, <1>17, <2>1, <2>2, OpenBounded
<1>21. More'
  <2>1. MoreOK(i, chan'[e][i], handles'[e][i], Quiet) BY <1>1, <1>7, <1>9, <1>3, <1>10, <1>11, <1>14 DEF MoreOK, Quiet
  <2> QED BY <1>2, <1>17, <2>1, OpenMore
<1>22. Requested'
  <2>1. \A o \in Ends : \A p \in 1 .. Len(wire'[o]) : wire'[o][p].kind = "req" => wire'[o][p].id # chan'[e][i].id
    <3>1. "req" \in Signals BY DEF Signals
    <3> QED BY <1>1, <1>7, <1>9, <1>11, <1>18, <3>1
  <2> QED BY <1>2, <1>17, <2>1, OpenRequested
<1>23. Waiting'
  <2>1. chan'[e][i].state # "PeerConnecting" /\ ~Answering(e, i)' BY <1>2, <1>9, <1>10, <1>11, <1>13
  <2>2. \A j \in Slots : chan[Other(e)][j].id # chan'[e][i].id BY <1>1, <1>9, <1>11, <1>18, OtherEnd
  <2> QED BY <1>2, <1>17, <2>1, <2>2, OpenWaiting
<1>24. Opening'
  <2>1. \A j \in Slots : chan[Other(e)][j].id # chan'[e][i].id BY <1>1, <1>9, <1>11, <1>18, OtherEnd
  <2>2. \A f \in Ends : ~In(wire'[f], {"data", "ind"}, chan'[e][i].id)
    <3>1. {"data", "ind"} \in SUBSET Signals BY DEF Signals
    <3> QED BY <1>7, <1>9, <1>11, <1>19, <3>1
  <2> QED BY <1>2, <1>15, <1>17, <2>1, <2>2, OpenOpening
<1>25. Answers' BY <1>15, QuietAnswers DEF Apart
<1>26. Asking'
  <2> SUFFICES ASSUME NEW c \in Ends, creator'[c].pc = "ask"
               PROVE  /\ creator'[c].id # 0 /\ creator'[c].conn # None
                      /\ Unasked(Other(c), creator[c].id)'
                      /\ \A f \in Ends : ~In(wire'[f], {"req"}, creator'[c].id)
                      /\ creator'[Other(c)].pc = "ask" => creator'[Other(c)].id # creator'[c].id
    BY DEF Asking
  <2>a. PICK y : y = creator'[c].id OBVIOUS
  <2>0. Other(c) \in Ends /\ Other(c) # c BY OtherEnd
  <2>1. CASE c = e
    <3>1. y = x /\ creator'[c].conn = l BY <1>12, <2>1, <2>a
    <3>2. \A f \in Ends, K \in SUBSET Signals : ~In(wire'[f], K, y) BY <1>7, <1>19, <3>1
    <3>3. Said \in SUBSET Signals /\ {"req"} \in SUBSET Signals BY DEF Said, Signals
    <3>4. Other(Other(c)) = e BY <2>1, OtherEnd
    <3>5. \A j \in Slots : chan'[e][j].id = y => j = i BY <1>1, <1>11, <1>18, <3>1
    <3>6. handles'[e][i] = {} /\ chan'[e][i].state \notin {"PeerConnecting", "Connected"}
      BY <1>7, <1>9, <1>10, <1>11
    <3>7. Unanswered(Other(c), y)' BY <3>2, <3>3, <3>4, <3>5, <3>6 DEF Unanswered
    <3>8. \A j \in Slots : chan'[Other(c)][j].id # y
      BY <1>1, <1>11, <1>18, <2>0, <2>1, <3>1
    <3>9. Unasked(Other(c), y)' BY <3>7, <3>8 DEF Unasked
    <3>10. Unasked(Other(c), creator[c].id)' BY <2>a, <3>9
    <3>11. creator'[Other(c)].pc = "ask" => creator'[Other(c)].id # y
      BY <1>1, <1>12, <1>18, <2>0, <2>1, <3>1
    <3>12. y # 0 BY <1>14, <3>1
    <3> QED BY <1>3, <2>a, <3>1, <3>2, <3>3, <3>10, <3>11, <3>12
  <2>2. CASE c # e
    <3>1. creator'[c] = creator[c] /\ Other(c) = e BY <1>12, <2>2 DEF Ends, Other
    <3>2. /\ y # 0 /\ creator[c].conn # None /\ Unasked(Other(c), y)
          /\ \A f \in Ends : ~In(wire[f], {"req"}, y)
      BY <2>a, <3>1 DEF Apart, Asking
    <3>3. y # x BY <1>1, <1>18, <2>a, <3>1
    <3>4. Unasked(Other(c), y)' BY <1>2, <1>9, <1>11, <1>17, <2>0, <3>2, <3>3, OpenUnasked
    <3>5. Unasked(Other(c), creator[c].id)' BY <2>a, <3>4
    <3>6. creator'[Other(c)].id = x BY <1>12, <3>1
    <3> QED BY <1>7, <2>a, <3>1, <3>2, <3>3, <3>5, <3>6
  <2> QED BY <2>1, <2>2
<1>27. Agreed'
  <2>1. PICK g \in Places, h \in Links : Agree(g, h) BY DEF Apart, Agreed
  <2>g. PICK G : G = [y \in Nat |-> IF y = x THEN [f \in Ends |-> i] ELSE g[y]] OBVIOUS
  <2>h. PICK H : H = [y \in Nat |-> IF y = x THEN l ELSE h[y]] OBVIOUS
  <2>2. G \in Places
    <3>1. i \in Cids BY <1>2, CidNames
    <3>2. [f \in Ends |-> i] \in [Ends -> Cids] BY <3>1
    <3> QED BY <2>1, <2>g, <3>2 DEF Places
  <2>3. H \in Links BY <2>1, <2>h DEF Links
  <2>4. \A f \in Ends : G[x][f] = i /\ H[x] = l BY <2>g, <2>h
  <2>5. \A y \in Nat : y < x => G[y] = g[y] /\ H[y] = h[y] BY <2>g, <2>h
  <2>6. ASSUME NEW f \in Ends, creator'[f].pc = "ask"
        PROVE  G[creator'[f].id][f] = creator'[f].slot /\ H[creator'[f].id] = creator'[f].conn
    <3>1. CASE f = e BY <1>12, <2>4, <3>1
    <3>2. CASE f # e
      <4>1. creator'[f] = creator[f] /\ creator[f].id \in Nat /\ creator[f].id < x
        BY <1>12, <1>18, <2>6, <3>2 DEF IInv, Rest, Creator
      <4> QED BY <2>1, <2>5, <2>6, <4>1 DEF Agree
    <3> QED BY <3>1, <3>2
  <2>7. ASSUME NEW f \in Ends, NEW j \in Slots
        PROVE  /\ SlotAgrees(f, j, chan'[f][j], sender'[f][j], G, H)
               /\ Answering(f, j)' => H[chan'[f][j].id] = acceptor'[f].conn
    <3>1. CASE f = e /\ j = i
      <4>1. chan'[f][j] = r /\ sender'[f][j] = Quiet BY <1>7, <1>10, <1>11, <3>1
      <4>2. G[x][f] = j /\ H[x] = l BY <2>4, <3>1
      <4>3. SlotAgrees(f, j, r, Quiet, G, H) BY <1>9, <4>2 DEF SlotAgrees, Quiet
      <4>4. ~Answering(f, j)' BY <1>2, <1>10, <1>13, <3>1
      <4> QED BY <4>1, <4>3, <4>4
    <3>2. CASE f # e \/ j # i
      <4>1. chan'[f][j] = chan[f][j] BY <1>11, <3>2
      <4>2. chan[f][j].id \in Nat /\ chan[f][j].id < x BY <1>18, SlotType DEF IInv, Chan
      <4>3. G[chan[f][j].id] = g[chan[f][j].id] /\ H[chan[f][j].id] = h[chan[f][j].id] BY <2>5, <4>2
      <4>4. SlotAgrees(f, j, chan[f][j], sender[f][j], g, h) BY <2>1 DEF Agree
      <4>5. SlotAgrees(f, j, chan[f][j], sender[f][j], G, H) BY <4>3, <4>4 DEF SlotAgrees
      <4>6. Answering(f, j) => h[chan[f][j].id] = acceptor[f].conn BY <2>1 DEF Agree
      <4> QED BY <1>7, <1>13, <4>1, <4>3, <4>5, <4>6
    <3> QED BY <3>1, <3>2
  <2>8. ASSUME NEW f \in Ends, NEW p \in 1 .. Len(wire'[f])
        PROVE  SignalAgrees(f, wire'[f][p], G, H)
    <3>1. SignalAgrees(f, wire[f][p], g, h) BY <1>7, <2>1 DEF Agree
    <3>2. wire[f][p].id \in Nat
      <4>1. wire[f] \in Seq(Message) BY DEF IInv, Rest
      <4>2. wire[f][p] \in Message BY <1>7, <4>1
      <4> QED BY <4>2 DEF Message
    <3>3. wire[f][p].kind \in Signals => wire[f][p].id < x BY <1>7, <1>18
    <3>4. wire[f][p].kind \in Signals => G[wire[f][p].id] = g[wire[f][p].id] /\ H[wire[f][p].id] = h[wire[f][p].id]
      BY <2>5, <3>2, <3>3
    <3> QED BY <1>7, <3>1, <3>4 DEF SignalAgrees
  <2>9. Agree(G, H)' BY <2>6, <2>7, <2>8 DEF Agree
  <2> QED BY <2>2, <2>3, <2>9 DEF Agreed
<1>28. Balance'
  <2>1. \A b \in Slots : ~Pair(e, i, b)'
    <3> SUFFICES ASSUME NEW b \in Slots PROVE chan'[Other(e)][b].id # chan'[e][i].id BY DEF Pair
    <3> QED BY <1>1, <1>9, <1>11, <1>18, OtherEnd
  <2>2. \A f \in Ends : \A y : OnAir(f, y)' = OnAir(f, y) BY <1>7 DEF OnAir, Frames, Indicated
  <2> QED BY <1>2, <1>17, <2>1, <2>2, OpenBalance
<1> QED BY <1>20, <1>21, <1>22, <1>23, <1>24, <1>25, <1>26, <1>27, <1>28 DEF Apart

-----------------------------------------------------------------------------
(* A slot whose channel is handed over. *)

LEMMA AcceptFacts ==
    ASSUME IInv, NEW e \in Ends, Accept(e)
    PROVE  \E i \in Slots, r \in Chan :
              LET q == chan[e][i] IN
              /\ q.state = "PeerConnecting" /\ q.refs = 0 /\ acceptor[e].pc = "idle"
              /\ r.state = "Connected" /\ r.conn = q.conn /\ r.cid = q.cid /\ r.peer = q.peer
              /\ r.id = q.id /\ r.skew = q.skew /\ r.astray = q.astray /\ r.credits = q.credits
              /\ r.available = Initial
              /\ chan' = [chan EXCEPT ![e][i] = r]
              /\ handles' = [handles EXCEPT ![e][i] = handles[e][i] \cup {"channel"}]
              /\ acceptor' = [acceptor EXCEPT ![e] = [pc |-> "answer", slot |-> i, conn |-> q.conn]]
<1>1. PICK i \in Slots :
        /\ chan[e][i].state = "PeerConnecting"
        /\ chan' = [chan EXCEPT ![e][i] = [chan[e][i] EXCEPT !.state = "Connected", !.available = Initial,
                                            !.received = 0, !.refs = chan[e][i].refs + 1]]
        /\ handles' = [handles EXCEPT ![e][i] = handles[e][i] \cup {"channel"}]
        /\ acceptor' = [acceptor EXCEPT ![e] = [pc |-> "answer", slot |-> i, conn |-> chan[e][i].conn]]
  BY DEF Accept, SetChan
<1> DEFINE q == chan[e][i]
           n == q.refs + 1
           r == [q EXCEPT !.state = "Connected", !.available = Initial, !.received = 0, !.refs = n]
<1>2. q \in Chan /\ SlotOK(q, handles[e][i], receiver[e][i]) BY SlotType DEF IInv
<1>3. q.refs = 0 BY <1>1, <1>2 DEF SlotOK
<1>4. chan' = [chan EXCEPT ![e][i] = r] BY <1>1
<1>5. acceptor[e].pc = "idle" /\ q.state = "PeerConnecting" BY <1>1 DEF Accept
<1>6. n \in Nat BY <1>3
<1>7. acceptor' = [acceptor EXCEPT ![e] = [pc |-> "answer", slot |-> i, conn |-> q.conn]] BY <1>1
<1> HIDE DEF q, n
<1>8. r \in Chan BY <1>2, <1>6, StateNames, ChannelsAssumption DEF Chan
<1>9. r.state = "Connected" /\ r.conn = q.conn /\ r.cid = q.cid /\ r.peer = q.peer
      /\ r.id = q.id /\ r.skew = q.skew /\ r.astray = q.astray /\ r.credits = q.credits
      /\ r.available = Initial
  BY <1>2, <1>6, ChannelsAssumption DEF Chan
<1> HIDE DEF r
<1> QED BY <1>1, <1>3, <1>4, <1>5, <1>7, <1>8, <1>9 DEF q

LEMMA AcceptMore ==
    ASSUME IInv, IInv', Apart, Balance, NEW e \in Ends, Accept(e)
    PROVE  Apart' /\ Balance'
<1>1. PICK i \in Slots, r \in Chan :
              LET q == chan[e][i] IN
              /\ q.state = "PeerConnecting" /\ q.refs = 0 /\ acceptor[e].pc = "idle"
              /\ r.state = "Connected" /\ r.conn = q.conn /\ r.cid = q.cid /\ r.peer = q.peer
              /\ r.id = q.id /\ r.skew = q.skew /\ r.astray = q.astray /\ r.credits = q.credits
              /\ r.available = Initial
              /\ chan' = [chan EXCEPT ![e][i] = r]
              /\ handles' = [handles EXCEPT ![e][i] = handles[e][i] \cup {"channel"}]
              /\ acceptor' = [acceptor EXCEPT ![e] = [pc |-> "answer", slot |-> i, conn |-> q.conn]]
  BY AcceptFacts
<1>q. PICK q \in Chan : q = chan[e][i] BY SlotType DEF IInv
<1>2. UNCHANGED <<creator, sender, receiver, control, wire, count, linked, air>>
  BY DEF Accept, others
<1>3. handles[e][i] = {} /\ receiver[e][i].pc = "idle" /\ sender[e][i] = Quiet BY <1>1, NoHandle
<1>4. chan'[e][i] = r /\ \A f \in Ends, j \in Slots : f # e \/ j # i => chan'[f][j] = chan[f][j]
  BY <1>1 DEF IInv, Shape
<1>5. handles'[e][i] = {"channel"}
      /\ \A f \in Ends, j \in Slots : f # e \/ j # i => handles'[f][j] = handles[f][j]
  BY <1>1, <1>3 DEF IInv, Shape
<1>6. acceptor'[e] = [pc |-> "answer", slot |-> i, conn |-> q.conn]
      /\ \A f \in Ends : f # e => acceptor'[f] = acceptor[f]
  BY <1>1, <1>q DEF IInv, Rest
<1>7. Answering(e, i)' BY <1>6 DEF Answering
<1>8. \A f \in Ends, j \in Slots : f # e \/ j # i => (Answering(f, j)' <=> Answering(f, j))
  BY <1>1, <1>6 DEF Answering
<1>9. q.id # 0 /\ q.conn # None /\ q.cid = i BY <1>1, <1>q DEF Apart, More, MoreOK, OpenStates
<1>10. /\ q.state = "PeerConnecting" /\ r.state = "Connected" /\ r.conn = q.conn /\ r.cid = q.cid
       /\ r.peer = q.peer /\ r.id = q.id /\ r.skew = q.skew /\ r.astray = q.astray
       /\ r.credits = q.credits /\ r.available = Initial
  BY <1>1, <1>q
<1>11. WireLess /\ ResKept BY <1>2, OpenRes, SameWire
<1>12. \A f \in Ends : \A p \in 1 .. Len(wire'[f]) :
          \E z \in 1 .. Len(wire[f]) : wire'[f][p] = wire[f][z]
  BY <1>2
<1>13. Opened(e, i) BY <1>2, <1>3, <1>4, <1>5, <1>8, <1>9, <1>10, <1>11, <1>12 DEF Opened
<1> PICK x : x = q.id OBVIOUS
<1>14. Unanswered(e, x) BY <1>1, <1>q DEF Apart, Waiting
<1>15. \A y : Unanswered(Other(e), y) => y # x
  <2>1. Other(Other(e)) = e BY OtherEnd
  <2> QED BY <1>1, <1>q, <2>1 DEF Unanswered
<1>16. chan'[e][i].id = x BY <1>4, <1>10
<1>17. Bounded'
  <2>1. /\ chan'[e][i].id <= count.opens /\ chan'[e][i].conn <= count.links
        /\ \A f \in Ends : creator[f].pc = "ask" => creator[f].id <= count.opens
    BY <1>4, <1>10, <1>q DEF Apart, Bounded
  <2>2. count.opens \in Nat BY DEF IInv, Rest
  <2> QED BY <1>2, <1>13, <2>1, <2>2, OpenBounded
<1>18. More'
  <2>1. MoreOK(i, chan'[e][i], handles'[e][i], Quiet)
    BY <1>4, <1>5, <1>9, <1>10 DEF MoreOK, Quiet
  <2> QED BY <1>13, <2>1, OpenMore
<1>19. Asking'
  <2> SUFFICES ASSUME NEW c \in Ends, creator[c].pc = "ask" PROVE creator[c].id # x
    BY <1>2, <1>13, <1>16, OpenAsking
  <2>1. Unasked(Other(c), creator[c].id) BY DEF Apart, Asking
  <2>2. CASE c = e BY <1>15, <2>1, <2>2 DEF Unasked
  <2>3. CASE c # e
    <3>1. Other(c) = e BY <2>3 DEF Ends, Other
    <3> QED BY <1>q, <2>1, <3>1 DEF Unasked
  <2> QED BY <2>2, <2>3
<1>20. Requested'
  <2> SUFFICES ASSUME NEW o \in Ends, NEW p \in 1 .. Len(wire[o]), wire[o][p].kind = "req"
               PROVE wire[o][p].id # x
    BY <1>2, <1>13, <1>16, OpenRequested
  <2>1. Unasked(o, wire[o][p].id) BY DEF Apart, Requested
  <2>2. CASE o = e BY <1>q, <2>1, <2>2 DEF Unasked
  <2>3. CASE o # e
    <3>1. o = Other(e) BY <2>3 DEF Ends, Other
    <3> QED BY <1>15, <2>1, <3>1 DEF Unasked
  <2> QED BY <2>2, <2>3
<1>21. Waiting'
  <2>1. Unanswered(e, x)' BY <1>13, <1>14, OpenUnanswered
  <2>2. ASSUME NEW j \in Slots, chan[Other(e)][j].state = "PeerConnecting" \/ Answering(Other(e), j)
        PROVE  chan[Other(e)][j].id # x
    <3>1. Unanswered(Other(e), chan[Other(e)][j].id) BY <2>2, OtherEnd DEF Apart, Waiting
    <3> QED BY <1>15, <3>1
  <2> QED BY <1>13, <1>16, <2>1, <2>2, OpenWaiting
<1>22. Opening'
  <2>1. chan'[e][i].state = "Connected" /\ handles'[e][i] # {} /\ Answering(e, i)'
    BY <1>4, <1>5, <1>7, <1>10
  <2> QED BY <1>11, <1>13, <2>1, OpenOpening
<1>23. Answers' BY <1>11, QuietAnswers DEF Apart
<1>24. Agreed'
  <2>1. PICK g \in Places, h \in Links : Agree(g, h) BY DEF Apart, Agreed
  <2>2. ASSUME NEW f \in Ends, NEW j \in Slots
        PROVE  /\ SlotAgrees(f, j, chan'[f][j], sender'[f][j], g, h)
               /\ Answering(f, j)' => h[chan'[f][j].id] = acceptor'[f].conn
    <3>1. CASE f = e /\ j = i
      <4>1. SlotAgrees(e, i, q, Quiet, g, h) BY <1>3, <1>q, <2>1 DEF Agree
      <4>2. SlotAgrees(e, i, r, Quiet, g, h) BY <1>10, <4>1 DEF SlotAgrees, Quiet
      <4>3. h[r.id] = q.conn BY <1>9, <1>10, <4>1 DEF SlotAgrees
      <4> QED BY <1>2, <1>3, <1>4, <1>6, <3>1, <4>2, <4>3
    <3>2. CASE f # e \/ j # i
      <4>1. chan'[f][j] = chan[f][j] /\ (Answering(f, j)' <=> Answering(f, j)) BY <1>4, <1>8, <3>2
      <4>2. SlotAgrees(f, j, chan[f][j], sender[f][j], g, h)
            /\ (Answering(f, j) => h[chan[f][j].id] = acceptor[f].conn)
        BY <2>1 DEF Agree
      <4>3. f = e => ~Answering(f, j) BY <1>1 DEF Answering
      <4> QED BY <1>2, <1>6, <4>1, <4>2, <4>3
    <3> QED BY <3>1, <3>2
  <2>3. Agree(g, h)' BY <1>2, <2>1, <2>2 DEF Agree
  <2> QED BY <2>3 DEF Agreed
<1>25. Balance'
  <2>1. \A f \in Ends : \A y : OnAir(f, y)' = OnAir(f, y) BY <1>2 DEF OnAir, Frames, Indicated
  <2>2. ASSUME NEW b \in Slots, Pair(e, i, b)'
        PROVE LET o == Other(e) IN
              /\ Mine(chan'[e][i], sender[e][i]) + OnAir(e, chan'[e][i].id)
                    = Theirs(chan[o][b], receiver[o][b])
              /\ Mine(chan[o][b], sender[o][b]) + OnAir(o, chan'[e][i].id)
                    = Theirs(chan'[e][i], receiver[e][i])
    <3> DEFINE o == Other(e)
    <3>0. o \in Ends /\ o # e /\ Other(o) = e BY OtherEnd
    <3> HIDE DEF o
    <3>1. chan'[o][b] = chan[o][b] BY <1>4, <3>0
    <3>2. /\ chan[o][b].state \in OpenStates /\ chan[o][b].id = x /\ air = q.conn /\ air = chan[o][b].conn
      BY <1>2, <1>4, <1>10, <1>16, <2>2, <3>1 DEF Pair, o
    <3>3. Pair(e, i, b) /\ Pair(o, b, i) BY <1>10, <1>q, <3>0, <3>2 DEF Pair, o, OpenStates
    <3>4. Mine(q, sender[e][i]) + OnAir(e, x) = Theirs(chan[o][b], receiver[o][b])
      BY <1>q, <3>3 DEF Balance, o
    <3>5. Mine(chan[o][b], sender[o][b]) + OnAir(o, x) = Theirs(q, receiver[e][i])
      BY <1>q, <3>0, <3>2, <3>3 DEF Balance
    <3>6. Mine(r, sender[e][i]) = Mine(q, sender[e][i]) /\ Theirs(r, receiver[e][i]) = Theirs(q, receiver[e][i])
      BY <1>10 DEF Mine, Theirs
    <3> QED BY <1>4, <1>16, <3>4, <3>5, <3>6 DEF o
  <2> QED BY <1>13, <2>1, <2>2, OpenBalance
<1> QED BY <1>17, <1>18, <1>19, <1>20, <1>21, <1>22, <1>23, <1>24, <1>25 DEF Apart

(* A request or an answer carries no credits of its own kind.              *)
LEMMA NoneCarried ==
    ASSUME IInv, IInv', NEW e \in Ends, NEW k, Received(e, k), k \notin {"ind", "data"}
    PROVE  \A f \in Ends : \A y : OnAir(f, y)' = OnAir(f, y)
<1> SUFFICES ASSUME NEW f \in Ends, NEW y PROVE OnAir(f, y)' = OnAir(f, y) OBVIOUS
<1>1. Share(Head(wire[e]), "data", y) = 0 /\ Share(Head(wire[e]), "ind", y) = 0 BY DEF Share, Received
<1>2. OnAir(e, y) = OnAir(e, y)' + Share(Head(wire[e]), "ind", y)
      /\ OnAir(Other(e), y) = OnAir(Other(e), y)' + Share(Head(wire[e]), "data", y)
  BY TailCredits
<1>3. \A b \in Ends : OnAir(b, y)' \in Nat
  <2>1. \A b \in Ends : Frames(b, y)' \in Nat /\ Indicated(b, y)' \in Nat
    BY CreditsFinite DEF IInv, Rest, Frames, Indicated
  <2> QED BY <2>1, OtherEnd DEF OnAir
<1>4. Other(e) \in Ends BY OtherEnd
<1>5. OnAir(e, y)' \in Nat /\ OnAir(Other(e), y)' \in Nat BY <1>3, <1>4 DEF OnAir, Frames, Indicated
<1>6. OnAir(e, y)' = OnAir(e, y) /\ OnAir(Other(e), y)' = OnAir(Other(e), y) BY <1>1, <1>2, <1>5
<1>7. f = e \/ f = Other(e) BY DEF Ends, Other
<1> QED BY <1>6, <1>7 DEF OnAir, Frames, Indicated

-----------------------------------------------------------------------------
(* A slot whose request is answered. *)

LEMMA RxResponseFacts ==
    ASSUME IInv, NEW e \in Ends, RxResponse(e)
    PROVE  \/ /\ chan' = chan
              /\ \A i \in Slots : ~(chan[e][i].state = "Connecting" /\ chan[e][i].id = Head(wire[e]).id
                                       /\ chan[e][i].conn = Head(wire[e]).conn)
           \/ \E i \in Slots, r \in Chan :
              LET q == chan[e][i]
                  m == Head(wire[e]) IN
              /\ q.state = "Connecting" /\ q.refs = 0 /\ q.id = m.id /\ q.conn = m.conn
              /\ r.state = "Connected" /\ r.conn = q.conn /\ r.cid = q.cid /\ r.peer = m.cid
              /\ r.id = q.id /\ r.skew = q.skew /\ r.astray = q.astray /\ r.credits = m.n
              /\ r.available = q.available
              /\ chan' = [chan EXCEPT ![e][i] = r]
<1> DEFINE m == Head(wire[e])
           S == {i \in Slots : chan[e][i].state = "Connecting" /\ chan[e][i].id = m.id
                                                               /\ chan[e][i].conn = m.conn}
           i == First(S)
           q == chan[e][i]
           r == [q EXCEPT !.state = "Connected", !.peer = m.cid, !.credits = m.n]
<1>1. m.conn \in Conns /\ m.cid \in Cids /\ m.id \in Nat /\ m.n \in Nat
  BY HeadIs DEF RxResponse
<1>2. CASE S = {} BY <1>2 DEF RxResponse
<1>3. CASE S # {}
  <2>1. i \in Slots /\ q.state = "Connecting" /\ q.id = m.id /\ q.conn = m.conn BY <1>3, FirstIn
  <2>2. chan' = [chan EXCEPT ![e][i] = r] BY <1>3 DEF RxResponse, SetChan
  <2>3. q \in Chan /\ SlotOK(q, handles[e][i], receiver[e][i]) BY <2>1, SlotType DEF IInv
  <2>4. q.refs = 0 BY <2>1, <2>3 DEF SlotOK
  <2>a. m = Head(wire[e]) OBVIOUS
  <2>b. q = chan[e][i] OBVIOUS
  <2> HIDE DEF i, m, q
  <2>5. r \in Chan /\ r.state = "Connected" /\ r.conn = q.conn /\ r.cid = q.cid /\ r.peer = m.cid
        /\ r.id = q.id /\ r.skew = q.skew /\ r.astray = q.astray /\ r.credits = m.n
        /\ r.available = q.available
    BY <1>1, <2>3, StateNames DEF Chan
  <2> HIDE DEF r
  <2> QED BY <2>1, <2>2, <2>4, <2>5, <2>a, <2>b
<1> QED BY <1>2, <1>3

LEMMA RxResponseMore ==
    ASSUME IInv, IInv', Apart, Balance, NEW e \in Ends, RxResponse(e)
    PROVE  Apart' /\ Balance'
<1>0. Received(e, "res") /\ linked' = linked BY DEF RxResponse
<1>h. Head(wire[e]) = wire[e][1] /\ 1 \in 1 .. Len(wire[e]) /\ Head(wire[e]).kind = "res"
  BY <1>0, TailWire DEF Received
<1>m. PICK m \in Message : m = Head(wire[e])
  <2>1. Head(wire[e]) \in Message BY <1>0, ReadType DEF IInv, Received
  <2> QED BY <2>1
<1>n. m.n = Initial BY <1>h, <1>m DEF Apart, Answers
<1>1. CASE /\ chan' = chan
           /\ \A i \in Slots : ~(chan[e][i].state = "Connecting" /\ chan[e][i].id = Head(wire[e]).id
                                       /\ chan[e][i].conn = Head(wire[e]).conn)
  <2>1. \A i \in Slots : ~(chan[e][i].state = "Connecting" /\ Head(wire[e]).id = chan[e][i].id)
    <3>1. "res" \in Signals BY DEF Signals
    <3> QED BY <1>0, <1>1, <3>1, HeadAgrees DEF OpenStates
  <2>2. \A f \in Ends : linked'[f].conn <= count.links BY <1>0, LinkedLess
  <2> QED BY <1>0, <1>1, <2>1, <2>2, RxPlain
<1>2. ASSUME NEW i \in Slots, NEW r \in Chan,
              LET q == chan[e][i] IN
              /\ q.state = "Connecting" /\ q.refs = 0 /\ q.id = m.id /\ q.conn = m.conn
              /\ r.state = "Connected" /\ r.conn = q.conn /\ r.cid = q.cid /\ r.peer = m.cid
              /\ r.id = q.id /\ r.skew = q.skew /\ r.astray = q.astray /\ r.credits = m.n
              /\ r.available = q.available
              /\ chan' = [chan EXCEPT ![e][i] = r]
      PROVE  Apart' /\ Balance'
  <2>q. PICK q \in Chan : q = chan[e][i] BY SlotType DEF IInv
  <2>2. UNCHANGED <<handles, creator, acceptor, sender, receiver, control, count, linked, air>>
    BY <1>0 DEF Received, futures
  <2>3. handles[e][i] = {} /\ receiver[e][i].pc = "idle" /\ sender[e][i] = Quiet /\ ~Answering(e, i)
    BY <1>2, NoHandle
  <2>4. chan'[e][i] = r /\ \A f \in Ends, j \in Slots : f # e \/ j # i => chan'[f][j] = chan[f][j]
    BY <1>2 DEF IInv, Shape
  <2>8. \A f \in Ends, j \in Slots : Answering(f, j)' <=> Answering(f, j) BY <2>2 DEF Answering
  <2>9. q.id # 0 /\ q.conn # None /\ q.cid = i BY <1>2, <2>q DEF Apart, More, MoreOK, OpenStates
  <2>10. /\ q.state = "Connecting" /\ r.state = "Connected" /\ r.conn = q.conn /\ r.cid = q.cid
         /\ r.peer = m.cid /\ r.id = q.id /\ r.skew = q.skew /\ r.astray = q.astray
         /\ r.credits = Initial /\ r.available = q.available /\ q.id = m.id /\ q.conn = m.conn
    BY <1>2, <1>n, <2>q
  <2> PICK x : x = q.id OBVIOUS
  <2>16. chan'[e][i].id = x BY <2>4, <2>10
  <2>17. \A f \in Ends : \A y : Unanswered(f, y) => y # x
    <3>1. In(wire[e], Said, x) BY <1>h, <1>m, <2>10 DEF In, Said
    <3> QED BY <3>1 DEF Unanswered
  <2>a. PICK g \in Places, h \in Links : Agree(g, h) BY DEF Apart, Agreed
  <2>b. ASSUME NEW a \in Slots, chan[e][a].id = x PROVE a = i
    <3>1. g[x][e] = a BY <2>9, <2>a, <2>b DEF Agree, SlotAgrees
    <3>2. g[x][e] = i BY <2>9, <2>a, <2>q DEF Agree, SlotAgrees
    <3> QED BY <3>1, <3>2
  <2>11. WireLess BY <1>0, TailWire
  <2>12. ResKept
    <3>1. \A a \in Slots : chan'[e][a].state = "Connecting" =>
                           ~(Head(wire[e]).kind = "res" /\ Head(wire[e]).id = chan[e][a].id)
      BY <1>m, <2>4, <2>10, <2>b
    <3> QED BY <1>0, <2>2, <3>1, OpenRes
  <2>13. \A f \in Ends : \A p \in 1 .. Len(wire'[f]) :
            \E z \in 1 .. Len(wire[f]) : wire'[f][p] = wire[f][z]
    BY <1>0, OpenWire
  <2>14. Opened(e, i) BY <2>2, <2>3, <2>4, <2>8, <2>9, <2>10, <2>11, <2>13 DEF Opened
  <2>18. Bounded'
    <3>1. /\ chan'[e][i].id <= count.opens /\ chan'[e][i].conn <= count.links
          /\ \A f \in Ends : creator[f].pc = "ask" => creator[f].id <= count.opens
      BY <2>4, <2>10, <2>q DEF Apart, Bounded
    <3>2. count.opens \in Nat BY DEF IInv, Rest
    <3> QED BY <2>2, <2>14, <3>1, <3>2, OpenBounded
  <2>19. More'
    <3>1. MoreOK(i, chan'[e][i], handles'[e][i], Quiet)
      BY <2>2, <2>3, <2>4, <2>9, <2>10 DEF MoreOK, Quiet
    <3> QED BY <2>14, <3>1, OpenMore
  <2>20. Asking'
    <3> SUFFICES ASSUME NEW c \in Ends, creator[c].pc = "ask" PROVE creator[c].id # x
      BY <2>2, <2>14, <2>16, OpenAsking
    <3>1. Unasked(Other(c), creator[c].id) BY DEF Apart, Asking
    <3> QED BY <2>17, <3>1, OtherEnd DEF Unasked
  <2>21. Requested'
    <3> SUFFICES ASSUME NEW o \in Ends, NEW p \in 1 .. Len(wire'[o]), wire'[o][p].kind = "req"
                 PROVE wire'[o][p].id # x
      BY <2>14, <2>16, OpenRequested
    <3>1. PICK z \in 1 .. Len(wire[o]) : wire'[o][p] = wire[o][z] BY <2>13
    <3>2. Unasked(o, wire[o][z].id) BY <3>1 DEF Apart, Requested
    <3> QED BY <2>17, <3>1, <3>2 DEF Unasked
  <2>22. Waiting'
    <3>1. chan'[e][i].state # "PeerConnecting" /\ ~Answering(e, i)' BY <2>3, <2>4, <2>8, <2>10
    <3>2. ASSUME NEW j \in Slots, chan[Other(e)][j].state = "PeerConnecting" \/ Answering(Other(e), j)
          PROVE  chan[Other(e)][j].id # x
      <4>1. Unanswered(Other(e), chan[Other(e)][j].id) BY <3>2, OtherEnd DEF Apart, Waiting
      <4> QED BY <2>17, <4>1, OtherEnd
    <3> QED BY <2>14, <2>16, <3>1, <3>2, OpenWaiting
  <2>23. Opening'
    <3>1. \A a \in Slots : chan[Other(e)][a].id = x => chan[Other(e)][a].state # "Connecting"
      BY <2>10, <2>q DEF Apart, Opening
    <3>2. chan'[e][i].state # "Connecting" BY <2>4, <2>10
    <3> QED BY <2>12, <2>14, <2>16, <3>1, <3>2, OpenOpening
  <2>24. Answers' BY <2>11, QuietAnswers DEF Apart
  <2>25. Agreed'
    <3>1. ASSUME NEW f \in Ends, NEW j \in Slots
          PROVE  /\ SlotAgrees(f, j, chan'[f][j], sender'[f][j], g, h)
                 /\ Answering(f, j)' => h[chan'[f][j].id] = acceptor'[f].conn
      <4>1. CASE f = e /\ j = i
        <5>1. SlotAgrees(e, i, q, Quiet, g, h) BY <2>3, <2>a, <2>q DEF Agree
        <5>2. SignalAgrees(e, m, g, h) BY <1>h, <1>m, <2>a DEF Agree
        <5>3. m.kind = "res" /\ m.kind \in Signals BY <1>h, <1>m DEF Signals
        <5>4. g[x][Other(e)] = m.cid BY <2>10, <5>2, <5>3 DEF SignalAgrees
        <5>5. SlotAgrees(e, i, r, Quiet, g, h) BY <2>10, <5>1, <5>4 DEF SlotAgrees, Quiet
        <5> QED BY <2>2, <2>3, <2>4, <2>8, <4>1, <5>5
      <4>2. CASE f # e \/ j # i
        <5>1. chan'[f][j] = chan[f][j] /\ (Answering(f, j)' <=> Answering(f, j)) BY <2>4, <2>8, <4>2
        <5>2. SlotAgrees(f, j, chan[f][j], sender[f][j], g, h)
              /\ (Answering(f, j) => h[chan[f][j].id] = acceptor[f].conn)
          BY <2>a DEF Agree
        <5> QED BY <2>2, <5>1, <5>2
      <4> QED BY <4>1, <4>2
    <3>2. \A f \in Ends : \A p \in 1 .. Len(wire'[f]) : SignalAgrees(f, wire'[f][p], g, h)
      BY <2>13, <2>a DEF Agree
    <3>3. Agree(g, h)' BY <2>2, <2>a, <3>1, <3>2 DEF Agree
    <3> QED BY <3>3 DEF Agreed
  <2>26. Balance'
    <3>1. \A f \in Ends : \A y : OnAir(f, y)' = OnAir(f, y) BY <1>0, NoneCarried
    <3>2. ASSUME NEW b \in Slots, Pair(e, i, b)'
          PROVE LET o == Other(e) IN
                /\ Mine(chan'[e][i], sender[e][i]) + OnAir(e, chan'[e][i].id)
                      = Theirs(chan[o][b], receiver[o][b])
                /\ Mine(chan[o][b], sender[o][b]) + OnAir(o, chan'[e][i].id)
                      = Theirs(chan'[e][i], receiver[e][i])
      <4> DEFINE o == Other(e)
      <4>0. o \in Ends /\ o # e /\ Other(o) = e BY OtherEnd
      <4> HIDE DEF o
      <4>1. chan'[o][b] = chan[o][b] BY <2>4, <4>0
      <4>2. /\ chan[o][b].state \in OpenStates /\ chan[o][b].id = x /\ air = q.conn /\ air = chan[o][b].conn
        BY <2>2, <2>4, <2>10, <2>16, <3>2, <4>1 DEF Pair, o
      <4>3. Pair(e, i, b) /\ Pair(o, b, i) BY <2>10, <2>q, <4>0, <4>2 DEF Pair, o, OpenStates
      <4>4. Mine(q, sender[e][i]) + OnAir(e, x) = Theirs(chan[o][b], receiver[o][b])
        BY <2>q, <4>3 DEF Balance, o
      <4>5. Mine(chan[o][b], sender[o][b]) + OnAir(o, x) = Theirs(q, receiver[e][i])
        BY <2>q, <4>0, <4>2, <4>3 DEF Balance
      <4>6. Mine(r, sender[e][i]) = Mine(q, sender[e][i]) /\ Theirs(r, receiver[e][i]) = Theirs(q, receiver[e][i])
        BY <2>10 DEF Mine, Theirs
      <4> QED BY <2>4, <2>16, <4>4, <4>5, <4>6 DEF o
    <3> QED BY <2>14, <3>1, <3>2, OpenBalance
  <2> QED BY <2>18, <2>19, <2>20, <2>21, <2>22, <2>23, <2>24, <2>25, <2>26 DEF Apart
<1> QED BY <1>1, <1>2, <1>m, RxResponseFacts

-----------------------------------------------------------------------------
(* A slot for the peer's request. *)

LEMMA RxRequestFacts ==
    ASSUME IInv, NEW e \in Ends, RxRequest(e)
    PROVE  \/ chan' = chan
           \/ \E i \in Slots, r \in Chan :
              LET m == Head(wire[e]) IN
              /\ chan[e][i].refs = 0
              /\ r.state = "PeerConnecting" /\ r.conn = m.conn /\ r.cid = i /\ r.peer = m.cid
              /\ r.id = m.id /\ r.skew = 0 /\ r.astray = 0 /\ r.credits = m.n
              /\ chan' = [chan EXCEPT ![e][i] = r]
<1> DEFINE m == Head(wire[e])
           z == Allocated(e, m.conn, "PeerConnecting", m.id)
           r == [z EXCEPT !.peer = m.cid, !.credits = m.n]
           i == First(Free(e))
<1>1. m.conn \in Conns /\ m.cid \in Cids /\ m.id \in Nat /\ m.n \in Nat
  BY HeadIs DEF RxRequest
<1>2. CASE Free(e) = {} BY <1>2 DEF RxRequest
<1>3. CASE Free(e) # {}
  <2>1. i \in Slots /\ z \in Chan /\ z.state = "PeerConnecting" /\ z.conn = m.conn /\ z.cid = i
        /\ z.id = m.id /\ z.skew = 0 /\ z.astray = 0
    BY <1>1, <1>3, AllocatedOK, AllocatedMore DEF IInv
  <2>2. chan' = [chan EXCEPT ![e][i] = r] BY <1>3 DEF RxRequest, SetChan
  <2>3. chan[e][i].refs = 0
    <3>1. i \in Free(e) BY <1>3, FirstOf
    <3> QED BY <3>1 DEF Free
  <2>4. m = Head(wire[e]) OBVIOUS
  <2> HIDE DEF i, m, z
  <2>5. r \in Chan /\ r.state = "PeerConnecting" /\ r.conn = m.conn /\ r.cid = i /\ r.peer = m.cid
        /\ r.id = m.id /\ r.skew = 0 /\ r.astray = 0 /\ r.credits = m.n
    BY <1>1, <2>1 DEF Chan
  <2> HIDE DEF r
  <2> QED BY <2>1, <2>2, <2>3, <2>4, <2>5
<1> QED BY <1>2, <1>3

LEMMA RxRequestMore ==
    ASSUME IInv, IInv', Apart, Balance, NEW e \in Ends, RxRequest(e)
    PROVE  Apart' /\ Balance'
<1>0. Received(e, "req") /\ linked' = linked BY DEF RxRequest
<1>h. Head(wire[e]) = wire[e][1] /\ 1 \in 1 .. Len(wire[e]) /\ Head(wire[e]).kind = "req"
  BY <1>0, TailWire DEF Received
<1>m. PICK m \in Message : m = Head(wire[e])
  <2>1. Head(wire[e]) \in Message BY <1>0, ReadType DEF IInv, Received
  <2> QED BY <2>1
<1>1. CASE chan' = chan
  <2>2. \A f \in Ends : linked'[f].conn <= count.links BY <1>0, LinkedLess
  <2> QED BY <1>0, <1>1, <2>2, RxPlain
<1>2. ASSUME NEW i \in Slots, NEW r \in Chan,
              /\ chan[e][i].refs = 0
              /\ r.state = "PeerConnecting" /\ r.conn = m.conn /\ r.cid = i /\ r.peer = m.cid
              /\ r.id = m.id /\ r.skew = 0 /\ r.astray = 0 /\ r.credits = m.n
              /\ chan' = [chan EXCEPT ![e][i] = r]
      PROVE  Apart' /\ Balance'
  <2>2. UNCHANGED <<handles, creator, acceptor, sender, receiver, control, count, linked, air>>
    BY <1>0 DEF Received, futures
  <2>3. handles[e][i] = {} /\ receiver[e][i].pc = "idle" /\ sender[e][i] = Quiet /\ ~Answering(e, i)
    BY <1>2, NoHandle
  <2>4. chan'[e][i] = r /\ \A f \in Ends, j \in Slots : f # e \/ j # i => chan'[f][j] = chan[f][j]
    BY <1>2 DEF IInv, Shape
  <2>8. \A f \in Ends, j \in Slots : Answering(f, j)' <=> Answering(f, j) BY <2>2 DEF Answering
  <2> PICK x : x = m.id OBVIOUS
  <2>o. PICK o \in Ends : o = Other(e) /\ o # e /\ Other(o) = e BY OtherEnd
  <2>9. /\ x # 0 /\ m.conn # None /\ m.n = Initial /\ Unasked(e, x)
        /\ \A f \in Ends : \A p \in 1 .. Len(wire[f]) :
              wire[f][p].kind = "req" /\ wire[f][p].id = x => f = e /\ p = 1
    BY <1>h, <1>m DEF Apart, Requested
  <2>10. /\ r.state = "PeerConnecting" /\ r.conn = m.conn /\ r.cid = i /\ r.peer = m.cid
         /\ r.id = x /\ r.skew = 0 /\ r.astray = 0 /\ r.credits = Initial
    BY <1>2, <2>9
  <2>16. chan'[e][i].id = x BY <2>4, <2>10
(* What the peer has of the channel: a slot that waits for the answer.     *)
  <2>17. /\ \A f \in Ends : ~In(wire[f], Said, x)
         /\ \A j \in Slots : chan[e][j].id # x
         /\ \A j \in Slots : chan[o][j].id = x =>
               handles[o][j] = {} /\ chan[o][j].state \notin {"PeerConnecting", "Connected"}
    BY <2>9, <2>o DEF Unasked, Unanswered
  <2>18. \A j \in Slots : chan[o][j].id = x => ~Answering(o, j) /\ sender[o][j] = Quiet
    <3> SUFFICES ASSUME NEW j \in Slots, chan[o][j].id = x PROVE ~Answering(o, j) /\ sender[o][j] = Quiet
      OBVIOUS
    <3>1. handles[o][j] = {} BY <2>17
    <3>2. sender[o][j] = Quiet BY <3>1 DEF Apart, More, MoreOK
    <3>3. ~Answering(o, j) BY <3>1 DEF IInv, Placed, Answering
    <3> QED BY <3>2, <3>3
  <2>19. \A c \in Ends : creator[c].pc = "ask" => creator[c].id # x
    <3> SUFFICES ASSUME NEW c \in Ends, creator[c].pc = "ask", creator[c].id = x PROVE FALSE OBVIOUS
    <3>1. ~In(wire[e], {"req"}, x) BY DEF Apart, Asking
    <3> QED BY <1>h, <1>m, <3>1 DEF In
  <2>11. WireLess BY <1>0, TailWire
  <2>12. ResKept BY <1>0, <1>h, <2>2, OpenRes
  <2>13. \A f \in Ends : \A p \in 1 .. Len(wire'[f]) :
            \E z \in 1 .. Len(wire[f]) : wire'[f][p] = wire[f][z]
    BY <1>0, OpenWire
  <2>14. Opened(e, i) BY <2>2, <2>3, <2>4, <2>8, <2>9, <2>10, <2>11, <2>13 DEF Opened
  <2>20. Bounded'
    <3>1. m.id <= count.opens /\ m.conn <= count.links BY <1>h, <1>m DEF Apart, Bounded, Signals
    <3>2. \A f \in Ends : creator[f].pc = "ask" => creator[f].id <= count.opens
      BY DEF Apart, Bounded
    <3>3. count.opens \in Nat BY DEF IInv, Rest
    <3> QED BY <2>2, <2>4, <2>10, <2>14, <3>1, <3>2, <3>3, OpenBounded
  <2>21. More'
    <3>1. MoreOK(i, chan'[e][i], handles'[e][i], Quiet)
      BY <2>2, <2>3, <2>4, <2>9, <2>10 DEF MoreOK, Quiet
    <3> QED BY <2>14, <3>1, OpenMore
  <2>22. Asking' BY <2>2, <2>14, <2>16, <2>19, OpenAsking
  <2>23. Requested'
    <3> SUFFICES ASSUME NEW f \in Ends, NEW p \in 1 .. Len(wire'[f]), wire'[f][p].kind = "req"
                 PROVE wire'[f][p].id # x
      BY <2>14, <2>16, OpenRequested
    <3>1. CASE f = e
      <4>1. wire'[e][p] = wire[e][p + 1] /\ p + 1 \in 1 .. Len(wire[e]) /\ p + 1 # 1
        BY <1>0, <3>1, TailWire
      <4> QED BY <2>9, <3>1, <4>1
    <3>2. CASE f # e
      <4>1. wire'[f] = wire[f] BY <1>0, <2>o, <3>2, TailWire DEF Ends, Other
      <4> QED BY <2>9, <3>2, <4>1
    <3> QED BY <3>1, <3>2
  <2>24. Waiting'
    <3>1. Unanswered(e, x)' BY <2>9, <2>14, OpenUnanswered DEF Unasked
    <3>2. \A j \in Slots : chan[Other(e)][j].state = "PeerConnecting" \/ Answering(Other(e), j) =>
              chan[Other(e)][j].id # x
      BY <2>o, <2>17, <2>18
    <3> QED BY <2>14, <2>16, <3>1, <3>2, OpenWaiting
  <2>25. Opening'
    <3>1. chan'[e][i].state = "PeerConnecting" /\ handles'[e][i] = {} BY <2>2, <2>3, <2>4, <2>10
    <3> QED BY <2>12, <2>14, <3>1, OpenOpening
  <2>26. Answers' BY <2>11, QuietAnswers DEF Apart
  <2>27. Agreed'
    <3>a. PICK g \in Places, h \in Links : Agree(g, h) BY DEF Apart, Agreed
    <3>g. PICK G : G = [y \in Nat |-> [f \in Ends |-> IF y = x /\ f = e THEN i ELSE g[y][f]]] OBVIOUS
    <3>1. G \in Places
      <4>1. i \in Cids BY CidNames
      <4> QED BY <3>a, <3>g, <4>1 DEF Places
    <3>2. x \in Nat /\ G[x][e] = i BY <3>g DEF Message
    <3>3. \A y \in Nat, f \in Ends : y # x \/ f # e => G[y][f] = g[y][f] BY <3>g
    <3>4. ASSUME NEW f \in Ends, creator'[f].pc = "ask"
          PROVE  G[creator'[f].id][f] = creator'[f].slot /\ h[creator'[f].id] = creator'[f].conn
      <4>1. creator'[f] = creator[f] /\ creator[f].id \in Nat BY <2>2 DEF IInv, Rest, Creator
      <4>2. creator[f].id # x BY <2>19, <3>4, <4>1
      <4> QED BY <3>3, <3>4, <3>a, <4>1, <4>2 DEF Agree
    <3>5. ASSUME NEW f \in Ends, NEW j \in Slots
          PROVE  /\ SlotAgrees(f, j, chan'[f][j], sender'[f][j], G, h)
                 /\ Answering(f, j)' => h[chan'[f][j].id] = acceptor'[f].conn
      <4>1. CASE f = e /\ j = i
        <5>1. SignalAgrees(e, m, g, h) BY <1>h, <1>m, <3>a DEF Agree
        <5>2. m.kind = "req" /\ m.kind \in Signals BY <1>h, <1>m DEF Signals
        <5>3. g[x][o] = m.cid /\ h[x] = m.conn BY <2>o, <5>1, <5>2 DEF SignalAgrees
        <5>4. G[x][o] = m.cid BY <2>o, <3>2, <3>3, <5>3
        <5>5. SlotAgrees(e, i, r, Quiet, G, h) BY <2>10, <2>o, <3>2, <5>3, <5>4 DEF SlotAgrees, Quiet
        <5> QED BY <2>2, <2>3, <2>4, <2>8, <4>1, <5>5
      <4>2. CASE f # e \/ j # i
        <5>1. chan'[f][j] = chan[f][j] /\ (Answering(f, j)' <=> Answering(f, j)) BY <2>4, <2>8, <4>2
        <5>2. SlotAgrees(f, j, chan[f][j], sender[f][j], g, h)
              /\ (Answering(f, j) => h[chan[f][j].id] = acceptor[f].conn)
          BY <3>a DEF Agree
        <5>3. chan[f][j].id \in Nat BY SlotType DEF IInv, Chan
        <5>4. f = e \/ (f = o /\ Other(f) = e) BY <2>o DEF Ends, Other
        <5>5. Other(f) \in Ends BY OtherEnd
        <5>6. SlotAgrees(f, j, chan[f][j], sender[f][j], G, h)
          <6>1. CASE chan[f][j].id # x
            <7>1. G[chan[f][j].id][f] = g[chan[f][j].id][f]
                  /\ G[chan[f][j].id][Other(f)] = g[chan[f][j].id][Other(f)]
              BY <3>3, <5>3, <5>5, <6>1
            <7> QED BY <5>2, <7>1 DEF SlotAgrees
          <6>2. CASE chan[f][j].id = x
            <7>1. f = o BY <2>17, <5>4, <6>2
            <7>2. chan[f][j].state \notin {"PeerConnecting", "Connected"} /\ sender[f][j] = Quiet
              BY <2>17, <2>18, <6>2, <7>1
            <7>3. G[x][f] = g[x][f] BY <2>o, <3>2, <3>3, <7>1
            <7> QED BY <5>2, <6>2, <7>2, <7>3 DEF SlotAgrees, Quiet
          <6> QED BY <6>1, <6>2
        <5> QED BY <2>2, <5>1, <5>2, <5>6
      <4> QED BY <4>1, <4>2
    <3>6. ASSUME NEW f \in Ends, NEW p \in 1 .. Len(wire'[f]) PROVE SignalAgrees(f, wire'[f][p], G, h)
      <4>1. PICK z \in 1 .. Len(wire[f]) : /\ wire'[f][p] = wire[f][z] /\ (f = e => z # 1)
        <5>1. CASE f = e
          <6>1. wire'[e][p] = wire[e][p + 1] /\ p + 1 \in 1 .. Len(wire[e]) /\ p + 1 # 1
            BY <1>0, <5>1, TailWire
          <6> QED BY <5>1, <6>1
        <5>2. CASE f # e BY <2>13, <5>2
        <5> QED BY <5>1, <5>2
      <4>2. SignalAgrees(f, wire[f][z], g, h) BY <3>a DEF Agree
      <4>3. wire[f][z].id \in Nat
        <5>1. wire[f] \in Seq(Message) BY DEF IInv, Rest
        <5>2. wire[f][z] \in Message BY <5>1
        <5> QED BY <5>2 DEF Message
      <4>4. wire[f][z].kind \in Signals => wire[f][z].id # x
        <5>1. wire[f][z].kind \in Said => wire[f][z].id # x BY <2>17 DEF In
        <5>2. wire[f][z].kind = "req" => wire[f][z].id # x BY <2>9, <4>1
        <5> QED BY <5>1, <5>2 DEF Signals, Said
      <4>5. Other(f) \in Ends BY OtherEnd
      <4>6. wire[f][z].kind \in Signals => /\ G[wire[f][z].id][f] = g[wire[f][z].id][f]
                                           /\ G[wire[f][z].id][Other(f)] = g[wire[f][z].id][Other(f)]
        BY <3>3, <4>3, <4>4, <4>5
      <4> QED BY <4>1, <4>2, <4>6 DEF SignalAgrees
    <3>7. Agree(G, h)' BY <3>4, <3>5, <3>6 DEF Agree
    <3> QED BY <3>1, <3>7, <3>a DEF Agreed
  <2>28. Balance'
    <3>1. \A f \in Ends : \A y : OnAir(f, y)' = OnAir(f, y) BY <1>0, NoneCarried
    <3>2. OnAir(e, x) = 0 /\ OnAir(o, x) = 0
      <4>1. \A f \in Ends : wire[f] \in Seq(Message) BY DEF IInv, Rest
      <4>2. \A f \in Ends : \A p \in 1 .. Len(wire[f]) : wire[f][p].id = x => wire[f][p].kind \notin {"data", "ind"}
        BY <2>17 DEF In, Said
      <4>3. \A f \in Ends : Frames(f, x) = 0 /\ Indicated(f, x) = 0
        BY <4>1, <4>2, NoCredits DEF Frames, Indicated
      <4> QED BY <2>o, <4>3 DEF OnAir
    <3>3. ASSUME NEW b \in Slots, Pair(e, i, b)'
          PROVE /\ Mine(chan'[e][i], sender[e][i]) + OnAir(e, chan'[e][i].id)
                      = Theirs(chan[o][b], receiver[o][b])
                /\ Mine(chan[o][b], sender[o][b]) + OnAir(o, chan'[e][i].id)
                      = Theirs(chan'[e][i], receiver[e][i])
      <4>0. chan'[o][b] = chan[o][b] BY <2>4, <2>o
      <4>1. chan[o][b].state \in OpenStates /\ chan[o][b].id = x BY <2>16, <2>o, <3>3, <4>0 DEF Pair
      <4>2. chan[o][b].state = "Connecting" /\ sender[o][b] = Quiet BY <2>17, <2>18, <4>1 DEF OpenStates
      <4>3. chan[o][b].available = Initial /\ chan[o][b].skew = 0 /\ chan[o][b].astray = 0
        BY <4>2 DEF Apart, More, MoreOK
      <4>4. receiver[o][b].pc = "idle"
        <5>1. SlotOK(chan[o][b], handles[o][b], receiver[o][b]) BY SlotType DEF IInv
        <5>2. handles[o][b] = {} BY <2>17, <4>1
        <5> QED BY <5>1, <5>2 DEF SlotOK
      <4>5. Mine(r, Quiet) = Initial /\ Theirs(r, receiver[e][i]) = Initial
        BY <2>3, <2>10, ChannelsAssumption DEF Mine, Theirs, Quiet
      <4>6. Mine(chan[o][b], Quiet) = Initial /\ Theirs(chan[o][b], receiver[o][b]) = Initial
        BY <4>2, <4>3, <4>4, ChannelsAssumption DEF Mine, Theirs, Quiet
      <4> QED BY <2>3, <2>4, <2>16, <3>2, <4>2, <4>5, <4>6, ChannelsAssumption
    <3> QED BY <2>14, <2>o, <3>1, <3>3, OpenBalance
  <2> QED BY <2>20, <2>21, <2>22, <2>23, <2>24, <2>25, <2>26, <2>27, <2>28 DEF Apart
<1> QED BY <1>1, <1>2, <1>m, RxRequestFacts

-----------------------------------------------------------------------------
LEMMA InitMore == Init => Apart /\ Balance
<1> SUFFICES ASSUME Init PROVE Apart /\ Balance OBVIOUS
<1>1. \A e \in Ends, i \in Slots :
        /\ chan[e][i] = Fresh /\ handles[e][i] = {} /\ sender[e][i] = Quiet
        /\ ~Answering(e, i) /\ creator[e].pc = "idle" /\ linked[e].conn = None /\ wire[e] = <<>>
  BY DEF Init, Answering, Idle, Done
<1>2. \A e \in Ends : creator[e].pc = "idle" /\ linked[e].conn = None /\ Len(wire[e]) = 0
  BY DEF Init, Done
<1>3. air = 0 /\ count.links = 0 /\ count.opens = 0 BY DEF Init, None
<1>4. /\ Fresh.state = "Disconnected" /\ Fresh.id = 0 /\ Fresh.conn = None
      /\ Quiet.pc = "idle"
  BY DEF Fresh, Quiet
<1>5. Bounded BY <1>1, <1>2, <1>3, <1>4 DEF Bounded, None
<1>6. More BY <1>1, <1>4 DEF More, MoreOK, OpenStates
<1>7. Asking /\ Requested /\ Answers BY <1>2 DEF Asking, Requested, Answers
<1>8. Waiting /\ Opening BY <1>1, <1>4 DEF Waiting, Opening
<1>9. Agreed
  <2>g. PICK g : g = [y \in Nat |-> [f \in Ends |-> None]] OBVIOUS
  <2>h. PICK h : h = [y \in Nat |-> None] OBVIOUS
  <2>1. g \in Places /\ h \in Links BY <2>g, <2>h, CidNames DEF Places, Links
  <2>2. Agree(g, h) BY <1>1, <1>2, <1>4 DEF Agree, SlotAgrees
  <2> QED BY <2>1, <2>2 DEF Agreed
<1>10. Balance BY <1>1, <1>4 DEF Balance, Pair, OpenStates
<1> QED BY <1>5, <1>6, <1>7, <1>8, <1>9, <1>10 DEF Apart

LEMMA StepMore == IInv /\ IInv' /\ Apart /\ Balance /\ [Next]_vars => Apart' /\ Balance'
<1> SUFFICES ASSUME IInv, IInv', Apart, Balance, [Next]_vars PROVE Apart' /\ Balance' OBVIOUS
<1>1. CASE LinkUp BY <1>1, LinkUpMore
<1>2. CASE LinkDown BY <1>2, LinkDownMore
<1>3. ASSUME NEW e \in Ends, Rx(e) PROVE Apart' /\ Balance'
  BY <1>3, RxUpMore, RxDownMore, RxRequestMore, RxResponseMore, RxIndicationMore, RxDataMore,
     RxDisconnectRequestMore, RxDisconnectResponseMore
  DEF Rx
<1>4. ASSUME NEW e \in Ends, Open(e) PROVE Apart' /\ Balance'
  BY <1>4, CreateMore, CreateAskMore, CreatedMore, CancelCreateMore, AcceptMore, AnswerMore,
     AcceptFailsMore
  DEF Open
<1>5. ASSUME NEW e \in Ends, NEW i \in Slots, Handle(e, i) PROVE Apart' /\ Balance'
  BY <1>5, DropMore, SplitMore, MergeMore, ChannelRefMore, DisconnectMore DEF Handle
<1>6. ASSUME NEW e \in Ends, NEW i \in Slots, Data(e, i) PROVE Apart' /\ Balance'
  BY <1>6, SendMore, GrantedMore, FrameMore, SendEndsMore, ReceiveMore, TellMore, ConfirmGrantMore,
     CancelReceiveMore
  DEF Data
<1>7. ASSUME NEW e \in Ends, Control(e) PROVE Apart' /\ Balance'
  BY <1>7, TakeRequestMore, SendRequestMore, ConfirmRequestMore DEF Control
<1>8. CASE UNCHANGED vars BY <1>8, LocalNone DEF vars, futures
<1> QED BY <1>1, <1>2, <1>3, <1>4, <1>5, <1>6, <1>7, <1>8 DEF Next

LEMMA AlwaysMore == Spec => [](IInv /\ Apart /\ Balance)
<1>1. Init => IInv /\ Apart /\ Balance BY InitInv, InitMore
<1>2. IInv /\ Apart /\ Balance /\ [Next]_vars => (IInv /\ Apart /\ Balance)'
  BY StepInv, StepMore
<1> QED BY <1>1, <1>2, PTL DEF Spec

(* The two ends of a link agree about the credits of every open channel:   *)
(* CreditFlowControl and CreditGrant (channel_manager.rs) lose none and    *)
(* make none, in whatever order requests, answers, frames and indications  *)
(* are read, futures dropped and slots used again, but for what skew and   *)
(* astray count.                                                           *)
THEOREM CreditsExact == Spec => []CreditsConserved
<1>1. IInv /\ Apart /\ Balance => CreditsConserved
  <2> SUFFICES ASSUME IInv, Apart, Balance, NEW e \in Ends, NEW i \in Slots, NEW j \in Slots,
                      chan[e][i].state = "Connected", chan[Other(e)][j].state = "Connected",
                      chan[e][i].id = chan[Other(e)][j].id, air = chan[e][i].conn
               PROVE  chan[e][i].credits + sender[e][i].grant + Frames(Other(e), chan[e][i].id)
                         + Indicated(e, chan[e][i].id)
                        = chan[Other(e)][j].available + Unconfirmed(Other(e), j)
                             + chan[Other(e)][j].skew + chan[e][i].astray
    BY DEF CreditsConserved
  <2> DEFINE o == Other(e)
             x == chan[e][i].id
             s == chan[e][i]
             r == chan[o][j]
  <2>0. o \in Ends BY OtherEnd
  <2> HIDE DEF o
  <2>1. s \in Chan /\ r \in Chan /\ receiver[o][j] \in Listener BY <2>0, SlotType DEF IInv
  <2>2. sender[e][i].grant \in Nat BY SenderType
  <2>3. Frames(o, x) \in Nat /\ Indicated(e, x) \in Nat BY <2>0, CarriedType
  <2>4. air = r.conn
    <3>1. PICK g \in Places, h \in Links : Agree(g, h) BY DEF Apart, Agreed
    <3>2. s.conn # None /\ r.conn # None BY <2>0 DEF Apart, More, MoreOK, OpenStates, o
    <3>3. h[x] = s.conn BY <3>1, <3>2 DEF Agree, SlotAgrees
    <3>4. h[r.id] = r.conn BY <2>0, <3>1, <3>2 DEF Agree, SlotAgrees
    <3> QED BY <3>3, <3>4 DEF o
  <2>5. Pair(e, i, j) BY <2>4 DEF Pair, OpenStates, o
  <2>6. Mine(s, sender[e][i]) + OnAir(e, x) = Theirs(r, receiver[o][j]) BY <2>5 DEF Balance, o
  <2>7. Mine(s, sender[e][i]) = s.credits + sender[e][i].grant - s.astray BY DEF Mine
  <2>8. Theirs(r, receiver[o][j]) = r.available + Unconfirmed(o, j) + r.skew
    BY DEF Theirs, Unconfirmed, o
  <2>9. OnAir(e, x) = Frames(o, x) + Indicated(e, x) BY DEF OnAir, o
  <2>10. Unconfirmed(o, j) \in Nat BY <2>1 DEF Unconfirmed, Listener
  <2>11. s.credits \in Nat /\ s.astray \in Int /\ r.available \in Nat /\ r.skew \in Int BY <2>1 DEF Chan
  <2> HIDE DEF s, r, x
  <2>12. s.credits + sender[e][i].grant - s.astray + (Frames(o, x) + Indicated(e, x))
           = r.available + Unconfirmed(o, j) + r.skew
    BY <2>6, <2>7, <2>8, <2>9
  <2>13. s.credits + sender[e][i].grant + Frames(o, x) + Indicated(e, x)
           = r.available + Unconfirmed(o, j) + r.skew + s.astray
    BY <2>2, <2>3, <2>10, <2>11, <2>12
  <2> QED BY <2>13 DEF o, s, r, x
<1> QED BY <1>1, AlwaysMore, PTL
=============================================================================
