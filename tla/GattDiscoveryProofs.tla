-------------------------- MODULE GattDiscoveryProofs --------------------------
(***************************************************************************)
(* What TLAPS proves of GattDiscovery, for every table, MTU and capacity.  *)
(***************************************************************************)
EXTENDS GattDiscovery, FiniteSetTheorems, WellFoundedInduction, TLAPS

Srv == OfKind(table, "service")
Dcl == OfKind(table, "declaration")
Val == OfKind(table, "value")

Requests ==
    {r \in [kind : ReqKinds, start : Nat, stop : Nat, uuid : Uuids] :
        r.kind \in {"read", "blob"} => r.stop \in Val}

Responses ==
    {a \in [kind : ReqKinds \cup {"error"}, code : Codes, handles : SUBSET (DOMAIN table), n : Nat] :
        /\ a.kind = "error" <=> a.code # "none"
        /\ a.kind \in {"groups", "of_uuid", "declarations", "information"} => a.handles # {}
        /\ a.kind \in {"groups", "of_uuid"} => a.handles \subseteq Srv
        /\ a.kind = "declarations" => a.handles \subseteq Dcl}

Current == [kind |-> phase, start |-> start, stop |-> stop, uuid |-> call.uuid]

Fixed == table \in Tables /\ mtu \in Mtus

PipeShape ==
    /\ asked \in BOOLEAN /\ late \in Nat
    /\ reqs \in Seq(Requests) /\ rsps \in Seq(Responses)

Shape ==
    /\ known \subseteq Srv
    /\ call \in [op : Ops, service : Nat, uuid : Uuids, value : Nat, dest : Nat]
    /\ call.service \in known \cup {0}
    /\ phase \in ReqKinds \cup {"none"} /\ start \in Nat /\ stop \in Nat
    /\ got \subseteq DOMAIN table /\ cccds \subseteq (DOMAIN table) \X (DOMAIN table)
    /\ hit \in (DOMAIN table) \cup {0} /\ props \in (DOMAIN table) \cup {0}
    /\ clean \in BOOLEAN /\ out.status \in Statuses

(* What each call asks for, and keeps.                                     *)
CallOK ==
    /\ call.op = "none" => phase = "none" /\ ~ asked /\ got = {} /\ cccds = {} /\ hit = 0
    /\ call.op = "services" => phase = "groups" /\ stop = Top
    /\ call.op = "by_uuid" => phase = "of_uuid" /\ stop = Top
    /\ call.op \in {"characteristics", "characteristic"} =>
          /\ phase \in {"declarations", "information"} /\ call.service \in known
          /\ got \subseteq Dcl /\ hit \in Dcl \cup {0}
          /\ phase = "information" => hit \in Dcl
    /\ call.op = "long_read" =>
          /\ phase \in {"read", "blob"} /\ stop = call.value /\ call.value \in Val
          /\ start <= call.dest

(* The responses a call takes come one for one with its requests, after    *)
(* the late ones.                                                          *)
PipeOK ==
    /\ late <= Pipe
    /\ Pipe <= late + (IF asked THEN 1 ELSE 0)
    /\ asked /\ Pipe = late + 1 =>
          IF reqs # <<>> THEN reqs[Len(reqs)] = Current ELSE rsps[Len(rsps)] \in Answers(Current)

WithUuid(S, u) == {h \in S : table[h].uuid = u}
Below(S, n)    == {h \in S : h < n}
Pairs(S)       == {<<d, d + 2>> : d \in {x \in S : table[x].notify}}

(* The characteristics that characteristic_by_uuid() may be about, and how *)
(* far it has come: no such declaration is below the range it asks for, or *)
(* hit is the first, and its CCCD is in the range.                         *)
Those(c) == WithUuid(InService("declaration", c.service), c.uuid)

FirstOf(S, d) == d \in S /\ \A x \in S : d <= x

Sought ==
    /\ cccds = {}
    /\ phase = "declarations" => stop = ServiceStop(call.service) /\ call.service <= start
    /\ hit = 0 => phase = "declarations" /\ \A d \in Those(call) : start <= d
    /\ hit # 0 => FirstOf(Those(call), hit) /\ table[hit].notify
    /\ hit # 0 /\ phase = "declarations" => start = hit + 2
    /\ phase = "information" => hit + 1 <= start /\ start <= hit + 2 /\ hit + 2 <= stop

(* How far a call has come that has taken its own responses only.          *)
SearchOK ==
    clean =>
    /\ call.op = "characteristic" => Sought
    /\ call.op = "services" => got = Below(Srv, start) /\ 1 <= start /\ start <= Top
    /\ call.op = "by_uuid" => got = Below(WithUuid(Srv, call.uuid), start) /\ 1 <= start /\ start <= Top
    /\ call.op = "characteristics" /\ phase = "declarations" =>
          /\ got = Below(InService("declaration", call.service), start)
          /\ 1 <= start /\ call.service <= start /\ start <= stop
          /\ stop = ServiceStop(call.service)
    /\ call.op = "characteristics" /\ phase = "information" =>
          /\ got = InService("declaration", call.service)
          /\ hit \in got /\ table[hit].notify /\ start = hit + 2 /\ start <= stop
          /\ cccds = Pairs(Below(got, hit))
    /\ call.op = "long_read" =>
          /\ phase = "read" => start = 0
          /\ start <= table[call.value].len

RightOne(c, status, found, pairs) ==
    /\ status \in {"ok", "not_found", "invalid_handle", "out_of_memory", "dropped"}
    /\ status = "ok" =>
          \E d \in Those(c) : FirstOf(Those(c), d) /\ found = {d} /\ pairs = Pairs({d})
    /\ status \in {"not_found", "invalid_handle"} => Those(c) = {}

(* What a call that has taken its own responses only may return.           *)
Right(c, status, found, pairs, n) ==
    /\ c.op = "services" /\ status = "ok" => found = Srv
    /\ c.op = "by_uuid" /\ status = "ok" => found = WithUuid(Srv, c.uuid)
    /\ c.op \in {"services", "by_uuid"} =>
          /\ status \in {"ok", "insufficient_space", "out_of_memory", "dropped"}
          /\ status = "insufficient_space" => Cardinality(Srv) > MaxServices
    /\ c.op = "characteristics" =>
          /\ status \in {"ok", "insufficient_space", "out_of_memory", "dropped"}
          /\ status = "ok" => found = InService("declaration", c.service) /\ pairs = Pairs(found)
    /\ c.op = "long_read" =>
          /\ status \in {"ok", "out_of_memory", "dropped"}
          /\ status = "ok" => n = Least(table[c.value].len, c.dest)
    /\ c.op = "characteristic" => RightOne(c, status, found, pairs)

Results == out.clean => Right(out.call, out.status, out.got, out.cccds, out.n)

IInv == Fixed /\ PipeShape /\ Shape /\ CallOK /\ PipeOK /\ SearchOK /\ Results

-----------------------------------------------------------------------------
(* Sets of handles.                                                        *)

(* A set of naturals that is not empty has a least element.                *)
LEMMA FirstIs ==
    ASSUME NEW S, S \subseteq Nat, S # {}
    PROVE  First(S) \in S /\ \A y \in S : First(S) <= y
<1> DEFINE R == OpToRel(<, Nat)
<1>1. PICK x \in S : \A y \in S : ~ (<<y, x>> \in R)
  <2>1. IsWellFoundedOn(R, Nat) BY NatLessThanWellFounded
  <2> HIDE DEF R
  <2> QED BY <2>1, WFMin, Zenon
<1>2. \A y \in S : ~ (y < x) BY <1>1 DEF OpToRel
<1>3. \A y \in S : x <= y BY <1>2
<1> QED BY <1>3 DEF First

(* ... and one that is bounded has a greatest.                             *)
LEMMA FinalIs ==
    ASSUME NEW S, S \subseteq Nat, S # {}, NEW n \in Nat, \A y \in S : y <= n
    PROVE  Final(S) \in S /\ \A y \in S : y <= Final(S)
<1> DEFINE B == {u \in Nat : \A y \in S : y <= u}
<1>1. B \subseteq Nat /\ B # {} OBVIOUS
<1> DEFINE m == First(B)
<1>2. m \in B /\ \A u \in B : m <= u BY <1>1, FirstIs
<1> HIDE DEF m
<1>3. m \in S
  <2>1. SUFFICES ASSUME m \notin S PROVE FALSE OBVIOUS
  <2>2. ASSUME NEW y \in S PROVE y <= m - 1
    <3>1. y \in Nat /\ m \in Nat /\ y <= m /\ y # m BY <1>2, <2>1, <2>2
    <3> QED BY <3>1
  <2>3. m - 1 \in Nat
    <3>1. PICK y \in S : TRUE OBVIOUS
    <3>2. y \in Nat /\ m \in Nat /\ y <= m - 1 BY <1>2, <2>2
    <3> QED BY <3>2
  <2> QED BY <1>2, <2>2, <2>3
<1>4. m \in S /\ \A y \in S : y <= m BY <1>2, <1>3
<1> QED BY <1>4 DEF Final

(* Every set of handles is a finite set of naturals.                       *)
LEMMA Handles ==
    ASSUME table \in Tables
    PROVE  /\ table \in Seq(Attribute) /\ Len(table) \in Nat /\ Len(table) < Top
           /\ DOMAIN table = 1 .. Len(table)
           /\ \A S : S \subseteq DOMAIN table => S \subseteq Nat /\ IsFiniteSet(S)
           /\ \A h \in DOMAIN table : table[h] \in Attribute
<1>1. table \in Seq(Attribute) /\ Len(table) < Top BY TablesAssumption DEF TableOK
<1>2. Len(table) \in Nat /\ DOMAIN table = 1 .. Len(table) BY <1>1
<1>3. IsFiniteSet(1 .. Len(table)) BY <1>2, FS_Interval
<1>4. ASSUME NEW S, S \subseteq DOMAIN table PROVE S \subseteq Nat /\ IsFiniteSet(S)
  BY <1>2, <1>3, <1>4, FS_Subset
<1> QED BY <1>1, <1>2, <1>4

LEMMA Ends ==
    ASSUME table \in Tables, NEW S, S \subseteq DOMAIN table, S # {}
    PROVE  /\ First(S) \in S /\ \A y \in S : First(S) <= y
           /\ Final(S) \in S /\ \A y \in S : y <= Final(S)
<1>1. S \subseteq Nat /\ Len(table) \in Nat /\ \A y \in S : y <= Len(table) BY Handles
<1> QED BY <1>1, FirstIs, FinalIs

(* The groups of services do not overlap, and each declaration is in one.  *)
LEMMA ServiceGroups ==
    ASSUME table \in Tables
    PROVE  /\ \A s \in Srv : ServiceStop(s) \in Nat /\ s <= ServiceStop(s) /\ ServiceStop(s) <= Len(table)
           /\ \A s, r \in Srv : s < r => ServiceStop(s) < r
           /\ \A d \in Dcl : /\ d + 1 \in Val
                             /\ table[d].notify => d + 2 \in OfKind(table, "cccd")
           /\ \A d \in Dcl : \E s \in Srv :
                 s < d /\ (IF table[d].notify THEN d + 2 ELSE d + 1) <= ServiceStop(s)
<1>1. TableOK(table) BY TablesAssumption
<1>2. \A h \in DOMAIN table : table[h].last \in Nat BY Handles DEF Attribute
<1> QED BY <1>1, <1>2 DEF TableOK, Srv, Dcl, Val, ServiceStop, OfKind

(* A declaration of a service has its value, and its CCCD, in the service. *)
LEMMA Inside ==
    ASSUME table \in Tables, NEW s \in Srv, NEW d \in InService("declaration", s)
    PROVE  /\ d \in Dcl /\ d + 1 <= ServiceStop(s)
           /\ table[d].notify => d + 2 <= ServiceStop(s)
<1>1. d \in Dcl /\ s < d /\ d <= ServiceStop(s) BY DEF InService, Dcl
<1>2. PICK r \in Srv : r < d /\ (IF table[d].notify THEN d + 2 ELSE d + 1) <= ServiceStop(r)
  BY <1>1, ServiceGroups
<1>3. s \in Nat /\ r \in Nat /\ d \in Nat BY <1>1, Handles DEF Srv, Dcl, OfKind
<1>4. r = s
  <2>1. ~ (r < s) BY <1>1, <1>2, <1>3, ServiceGroups
  <2>2. ~ (s < r) BY <1>1, <1>2, <1>3, ServiceGroups
  <2> QED BY <2>1, <2>2, <1>3
<1>5. table[d].notify \in BOOLEAN BY <1>1, Handles DEF Dcl, OfKind, Attribute
<1> QED BY <1>1, <1>2, <1>3, <1>4, <1>5, ServiceGroups

(* A list in a response is the first handles of those asked for.           *)
LEMMA FewerBefore ==
    ASSUME table \in Tables, NEW S, S \subseteq DOMAIN table, NEW x \in S, NEW h \in S, x < h
    PROVE  /\ Cardinality(Before(S, x)) \in Nat /\ Cardinality(Before(S, h)) \in Nat
           /\ Cardinality(Before(S, x)) <= Cardinality(Before(S, h))
           /\ Before(S, x) \subseteq Before(S, h)
<1>1. S \subseteq Nat BY Handles
<1>2. Before(S, x) \subseteq Before(S, h) BY <1>1 DEF Before
<1>3. Before(S, h) \subseteq DOMAIN table BY DEF Before
<1>4. IsFiniteSet(Before(S, h)) /\ IsFiniteSet(Before(S, x)) BY <1>2, <1>3, Handles
<1> QED BY <1>2, <1>4, FS_Subset, FS_CardinalityType

InitialIn(E, S) == E \subseteq S /\ \A x \in S, h \in E : x < h => x \in E

LEMMA GroupsInitial ==
    ASSUME table \in Tables, mtu \in Mtus, NEW r
    PROVE  InitialIn(Groups(r), InRange("service", r))
<1> DEFINE S == InRange("service", r)
<1>1. S \subseteq DOMAIN table BY DEF InRange, OfKind
<1>2. ASSUME NEW x \in S, NEW h \in Groups(r), x < h PROVE x \in Groups(r)
  <2>1. h \in S /\ \A y \in Before(S, h) : Width(table[y].uuid) = Width(table[h].uuid)
    BY DEF Groups
  <2>2. /\ Cardinality(Before(S, x)) \in Nat /\ Cardinality(Before(S, h)) \in Nat
        /\ Cardinality(Before(S, x)) <= Cardinality(Before(S, h))
        /\ Before(S, x) \subseteq Before(S, h)
    BY <1>1, <1>2, <2>1, FewerBefore
  <2>3. x \in Before(S, h) BY <1>2 DEF Before
  <2>4. Width(table[x].uuid) = Width(table[h].uuid) BY <2>1, <2>3
  <2>5. \A y \in Before(S, x) : Width(table[y].uuid) = Width(table[x].uuid) BY <2>1, <2>2, <2>4
  <2>6. 2 + Cardinality(Before(S, h)) * (4 + Width(table[h].uuid)) <= mtu - 4 - Width(table[h].uuid)
    BY DEF Groups
  <2>7. 2 + Cardinality(Before(S, x)) * (4 + Width(table[x].uuid)) <= mtu - 4 - Width(table[x].uuid)
    <3>1. mtu \in Nat BY SizesAssumption
    <3>2. Width(table[x].uuid) \in {2, 16} BY DEF Width
    <3> DEFINE k == Cardinality(Before(S, x)) n == Cardinality(Before(S, h)) w == Width(table[x].uuid)
    <3>3. 2 + n * (4 + w) <= mtu - 4 - w BY <2>4, <2>6
    <3>4. k \in Nat /\ n \in Nat /\ k <= n /\ w \in {2, 16} BY <2>2, <3>2
    <3> HIDE DEF k, n, w
    <3>5. 2 + k * (4 + w) <= mtu - 4 - w BY <3>1, <3>3, <3>4
    <3> QED BY <3>5 DEF k, w
  <2> QED BY <2>5, <2>7 DEF Groups
<1> QED BY <1>2 DEF InitialIn, Groups

LEMMA OfUuidInitial ==
    ASSUME table \in Tables, mtu \in Mtus, NEW r
    PROVE  InitialIn(OfUuid(r), WithUuid(InRange("service", r), r.uuid))
<1> DEFINE S == WithUuid(InRange("service", r), r.uuid)
<1>1. S \subseteq DOMAIN table BY DEF InRange, OfKind, WithUuid
<1>2. ASSUME NEW x \in S, NEW h \in OfUuid(r), x < h PROVE x \in OfUuid(r)
  <2>1. h \in S BY DEF OfUuid, WithUuid
  <2>2. /\ Cardinality(Before(S, x)) \in Nat /\ Cardinality(Before(S, h)) \in Nat
        /\ Cardinality(Before(S, x)) <= Cardinality(Before(S, h))
    BY <1>1, <1>2, <2>1, FewerBefore
  <2>3. 4 + Width(r.uuid) <= mtu - 1 - 4 * Cardinality(Before(S, h)) BY DEF OfUuid, WithUuid
  <2>4. mtu \in Nat /\ Width(r.uuid) \in {2, 16} BY SizesAssumption DEF Width
  <2>5. 4 + Width(r.uuid) <= mtu - 1 - 4 * Cardinality(Before(S, x)) BY <2>2, <2>3, <2>4
  <2> QED BY <2>5 DEF OfUuid, WithUuid
<1> QED BY <1>2 DEF InitialIn, OfUuid, WithUuid

LEMMA DeclarationsInitial ==
    ASSUME table \in Tables, mtu \in Mtus, NEW r
    PROVE  InitialIn(Declarations(r), InRange("declaration", r))
<1> DEFINE S == InRange("declaration", r)
<1>1. S \subseteq DOMAIN table BY DEF InRange, OfKind
<1>2. ASSUME NEW x \in S, NEW h \in Declarations(r), x < h PROVE x \in Declarations(r)
  <2>1. h \in S /\ \A y \in Before(S, h) : Width(table[y].uuid) = Width(table[h].uuid)
    BY DEF Declarations
  <2>2. /\ Cardinality(Before(S, x)) \in Nat /\ Cardinality(Before(S, h)) \in Nat
        /\ Cardinality(Before(S, x)) <= Cardinality(Before(S, h))
        /\ Before(S, x) \subseteq Before(S, h)
    BY <1>1, <1>2, <2>1, FewerBefore
  <2>3. x \in Before(S, h) BY <1>2 DEF Before
  <2>4. Width(table[x].uuid) = Width(table[h].uuid) BY <2>1, <2>3
  <2>5. \A y \in Before(S, x) : Width(table[y].uuid) = Width(table[x].uuid) BY <2>1, <2>2, <2>4
  <2>6. 2 + Cardinality(Before(S, h)) * (5 + Width(table[h].uuid)) <= mtu - 5 - Width(table[h].uuid)
    BY DEF Declarations
  <2>7. 2 + Cardinality(Before(S, x)) * (5 + Width(table[x].uuid)) <= mtu - 5 - Width(table[x].uuid)
    <3>1. mtu \in Nat BY SizesAssumption
    <3>2. Width(table[x].uuid) \in {2, 16} BY DEF Width
    <3> DEFINE k == Cardinality(Before(S, x)) n == Cardinality(Before(S, h)) w == Width(table[x].uuid)
    <3>3. 2 + n * (5 + w) <= mtu - 5 - w BY <2>4, <2>6
    <3>4. k \in Nat /\ n \in Nat /\ k <= n /\ w \in {2, 16} BY <2>2, <3>2
    <3> HIDE DEF k, n, w
    <3>5. 2 + k * (5 + w) <= mtu - 5 - w BY <3>1, <3>3, <3>4
    <3> QED BY <3>5 DEF k, w
  <2> QED BY <2>5, <2>7 DEF Declarations
<1> QED BY <1>2 DEF InitialIn, Declarations

-----------------------------------------------------------------------------
(* The pipe.                                                               *)

LEMMA AnswersTyped ==
    ASSUME Fixed, NEW r \in Requests
    PROVE  Answers(r) \subseteq Responses
<1>0. table \in Tables /\ mtu \in Nat /\ mtu >= 23 BY SizesAssumption DEF Fixed
<1>1. r.start \in Nat /\ r.stop \in Nat /\ r.kind \in ReqKinds BY DEF Requests
<1>2. CASE r.kind \in {"read", "blob"}
  <2>1. r.stop \in DOMAIN table BY <1>2 DEF Requests, Val, OfKind
  <2>2. table[r.stop].len \in Nat BY <1>0, <2>1, Handles DEF Attribute
  <2>3. r.start <= table[r.stop].len => Least(table[r.stop].len - r.start, mtu - 1) \in Nat
    BY <1>0, <1>1, <2>2 DEF Least
  <2> QED BY <1>1, <1>2, <2>2, <2>3 DEF Answers, Response, Error, Responses, Codes
<1>3. CASE r.kind \notin {"read", "blob"}
  <2>1. Groups(r) \subseteq Srv /\ OfUuid(r) \subseteq Srv /\ Declarations(r) \subseteq Dcl
        /\ Information(r) \subseteq DOMAIN table
    BY DEF Groups, OfUuid, Declarations, Information, InRange, Srv, Dcl
  <2>2. Srv \subseteq DOMAIN table /\ Dcl \subseteq DOMAIN table BY DEF Srv, Dcl, OfKind
  <2>3. /\ Listed(r) \subseteq DOMAIN table
        /\ r.kind \in {"groups", "of_uuid"} => Listed(r) \subseteq Srv
        /\ r.kind = "declarations" => Listed(r) \subseteq Dcl
    BY <1>1, <1>3, <2>1, <2>2 DEF Listed, ReqKinds
  <2>4. ASSUME NEW a \in Answers(r) PROVE a \in Responses
    <3>1. \/ a = Error("invalid_handle") \/ a = Error("not_found")
          \/ a = Response(r.kind, Listed(r), 0) /\ Listed(r) # {}
      BY <1>3, <2>4 DEF Answers
    <3>2. Error("invalid_handle") \in Responses /\ Error("not_found") \in Responses
      BY DEF Error, Responses, Codes
    <3>3. Listed(r) # {} => Response(r.kind, Listed(r), 0) \in Responses
      BY <1>1, <2>3 DEF Response, Responses, Codes, ReqKinds
    <3> QED BY <3>1, <3>2, <3>3
  <2> QED BY <2>4
<1> QED BY <1>2, <1>3

(* The response a call takes when nothing in the pipe is late is to its    *)
(* own request.                                                            *)
LEMMA TakesOwn ==
    ASSUME PipeShape, PipeOK, asked, rsps # <<>>, late = 0
    PROVE  Head(rsps) \in Answers(Current)
<1>1. Len(reqs) \in Nat /\ Len(rsps) \in Nat /\ Len(rsps) >= 1 BY DEF PipeShape
<1>2. Len(rsps) = 1 /\ Len(reqs) = 0 BY <1>1 DEF PipeOK, Pipe
<1>3. reqs = <<>> BY <1>2 DEF PipeShape
<1>4. rsps[Len(rsps)] \in Answers(Current) BY <1>1, <1>2, <1>3 DEF PipeOK, Pipe
<1> QED BY <1>2, <1>4 DEF PipeShape

LEMMA TakePipe ==
    ASSUME PipeShape, PipeOK, Fixed, rsps # <<>>, rsps' = Tail(rsps), asked' = FALSE,
           late' = Pipe - 1, UNCHANGED <<fixed, reqs>>
    PROVE  PipeShape' /\ PipeOK' /\ Fixed'
<1>1. Len(reqs) \in Nat /\ Len(rsps) \in Nat /\ Len(rsps) >= 1 BY DEF PipeShape
<1>2. rsps' \in Seq(Responses) /\ Len(rsps') = Len(rsps) - 1 BY <1>1 DEF PipeShape
<1>3. Pipe' = Pipe - 1 /\ Pipe' \in Nat BY <1>1, <1>2 DEF Pipe
<1>4. Responses' = Responses /\ Requests' = Requests
  BY DEF Responses, Requests, Srv, Dcl, Val, OfKind, fixed
<1>5. late' \in Nat /\ late' = Pipe' BY <1>3
<1>6. PipeShape' BY <1>2, <1>4, <1>5 DEF PipeShape
<1>7. PipeOK' BY <1>3, <1>5 DEF PipeOK
<1> QED BY <1>6, <1>7 DEF Fixed, fixed

LEMMA SameTable ==
    ASSUME UNCHANGED fixed
    PROVE  /\ Srv' = Srv /\ Dcl' = Dcl /\ Val' = Val /\ Responses' = Responses /\ Requests' = Requests
           /\ table' = table /\ mtu' = mtu
           /\ \A S, u : WithUuid(S, u)' = WithUuid(S, u)
           /\ \A k, x : InService(k, x)' = InService(k, x)
           /\ \A S : Pairs(S)' = Pairs(S)
           /\ \A x : ServiceStop(x)' = ServiceStop(x)
BY DEF Responses, Requests, Srv, Dcl, Val, OfKind, fixed, WithUuid, InService, Pairs, ServiceStop

LEMMA SameThose ==
    ASSUME UNCHANGED fixed
    PROVE  \A c : Those(c)' = Those(c)
BY SameTable DEF Those

LEMMA SameRightOne ==
    ASSUME UNCHANGED fixed
    PROVE  \A c, status, found, pairs :
              RightOne(c, status, found, pairs) => RightOne(c, status, found, pairs)'
BY SameTable, SameThose DEF RightOne, FirstOf

LEMMA SameSought ==
    ASSUME UNCHANGED <<fixed, call, search>>, Sought
    PROVE  Sought'
<1>1. table' = table BY DEF fixed
<1>2. Those(call)' = Those(call) /\ ServiceStop(call.service)' = ServiceStop(call.service)
  <2>1. call' = call OBVIOUS
  <2>2. Those(call)' = Those(call) BY <1>1, <2>1 DEF Those, WithUuid, InService, OfKind, ServiceStop
  <2> QED BY <1>1, <2>1, <2>2 DEF ServiceStop
<1> QED BY <1>1, <1>2 DEF Sought, search, FirstOf

-----------------------------------------------------------------------------
(* A call returns.                                                         *)

LEMMA ReturnsInv ==
    ASSUME Fixed, Shape, NEW status \in Statuses, NEW found, NEW pairs, NEW owner, NEW n,
           Returns(status, found, pairs, owner, n),
           asked' = FALSE, UNCHANGED fixed, known \subseteq known', known' \subseteq Srv,
           Clean => Right(call, status, found, pairs, n)
    PROVE  Shape' /\ CallOK' /\ SearchOK' /\ Results'
<1>1. /\ call' = NoCall /\ phase' = "none" /\ start' = 0 /\ stop' = 0 /\ got' = {} /\ cccds' = {}
      /\ hit' = 0 /\ props' = 0 /\ clean' = TRUE
      /\ out'.status = status /\ out'.call = call /\ out'.got = found /\ out'.cccds = pairs
      /\ out'.n = n /\ out'.clean = Clean
  BY DEF Returns, Reset
<1>2. NoCall \in [op : Ops, service : Nat, uuid : Uuids, value : Nat, dest : Nat]
  <2>1. call.uuid \in Uuids BY DEF Shape
  <2>2. NoUuid \in Uuids BY <2>1 DEF NoUuid
  <2> QED BY <2>2 DEF NoCall, Ops
<1>3. Shape' BY <1>1, <1>2, SameTable DEF Shape, NoCall
<1>4. CallOK' BY <1>1 DEF CallOK, NoCall
<1>5. SearchOK' BY <1>1 DEF SearchOK, NoCall
<1>6. out'.clean => Right(call, status, found, pairs, n) BY <1>1
<1>7. Results' BY <1>1, <1>6, SameTable, SameRightOne DEF Results, Right
<1> QED BY <1>3, <1>4, <1>5, <1>7

LEMMA FailsInv ==
    ASSUME Fixed, Shape, NEW status \in Statuses, Fails(status),
           asked' = FALSE, UNCHANGED fixed, known \subseteq known', known' \subseteq Srv,
           Clean => Right(call, status, {}, {}, 0)
    PROVE  Shape' /\ CallOK' /\ SearchOK' /\ Results'
BY ReturnsInv DEF Fails

(* A search goes on: its result is not there yet.                          *)
LEMMA SameResults ==
    ASSUME Results, UNCHANGED <<fixed, out>>
    PROVE  Results'
BY SameTable, SameRightOne DEF Results, Right

-----------------------------------------------------------------------------
(* Steps that take no response.                                            *)

LEMMA RightNothing == \A c : c.op = "none" => Right(c, "ok", {}, {}, 0)
BY DEF Right

LEMMA InitInv ==
    ASSUME Init
    PROVE  IInv
<1>1. NoUuid \in Uuids BY SizesAssumption DEF NoUuid
<1>2. NoCall \in [op : Ops, service : Nat, uuid : Uuids, value : Nat, dest : Nat]
  BY <1>1 DEF NoCall, Ops
<1>3. Fixed /\ PipeShape /\ Shape
  <2>1. Fixed BY DEF Init, Fixed
  <2>2. asked = FALSE /\ late = 0 /\ reqs = <<>> /\ rsps = <<>> BY DEF Init
  <2>6. <<>> \in Seq(Requests) /\ <<>> \in Seq(Responses) OBVIOUS
  <2>7. PipeShape BY <2>2, <2>6 DEF PipeShape
  <2>3. call \in [op : Ops, service : Nat, uuid : Uuids, value : Nat, dest : Nat] /\ call.service = 0
    BY <1>2 DEF Init, NoCall
  <2>4. out.status = "ok" BY DEF Init, NoOut
  <2>5. Shape BY <2>3, <2>4 DEF Init, Shape, Statuses
  <2> QED BY <2>1, <2>7, <2>5
<1>4. CallOK /\ SearchOK BY DEF Init, CallOK, SearchOK, NoCall
<1>5. PipeOK BY DEF Init, PipeOK, Pipe
<1>6. Results BY RightNothing DEF Init, Results, NoOut, NoCall
<1> QED BY <1>3, <1>4, <1>5, <1>6 DEF IInv

(* A call begins.                                                          *)
LEMMA BeginInv ==
    ASSUME IInv, NEW c \in [op : Ops, service : Nat, uuid : Uuids, value : Nat, dest : Nat],
           NEW p \in ReqKinds, NEW from \in Nat, NEW to \in Nat, Begin(c, p, from, to),
           c.service \in known \cup {0}, CallOK', SearchOK'
    PROVE  IInv'
<1>1. /\ call' = c /\ phase' = p /\ start' = from /\ stop' = to /\ out' = NoOut
      /\ UNCHANGED <<fixed, known, got, cccds, hit, props, asked, late, clean, reqs, rsps>>
      /\ call.op = "none"
  BY DEF Begin
<1>2. Fixed' BY <1>1 DEF IInv, Fixed, fixed
<1>3. PipeShape' BY <1>1, SameTable DEF IInv, PipeShape
<1>4. Shape' BY <1>1, SameTable DEF IInv, Shape, NoOut, Statuses, fixed
<1>5. PipeOK'
  <2>1. ~ asked BY <1>1 DEF IInv, CallOK
  <2> QED BY <1>1, <2>1 DEF IInv, PipeOK, Pipe
<1>6. Results' BY <1>1, RightNothing, SameTable DEF Results, NoOut, NoCall, Right
<1> QED BY <1>2, <1>3, <1>4, <1>5, <1>6 DEF IInv

LEMMA Calls ==
    ASSUME IInv
    PROVE  /\ NoCall \in [op : Ops, service : Nat, uuid : Uuids, value : Nat, dest : Nat]
           /\ NoCall.op = "none" /\ NoCall.service = 0 /\ NoCall.value = 0 /\ NoCall.dest = 0
           /\ got \subseteq DOMAIN table
<1>1. call.uuid \in Uuids BY DEF IInv, Shape
<1>2. NoUuid \in Uuids BY <1>1 DEF NoUuid
<1> QED BY <1>2 DEF NoCall, Ops, IInv, Shape

LEMMA CallInv ==
    ASSUME IInv, NEW s, NEW u \in Uuids, NEW h, NEW n,
           \/ Services \/ ServicesByUuid(u)
           \/ s \in known /\ Characteristics(s)
           \/ s \in known /\ CharacteristicByUuid(s, u)
           \/ h \in Val /\ n \in DestLens /\ ReadCharacteristicLong(h, n)
    PROVE  IInv'
<1> DEFINE C == [op : Ops, service : Nat, uuid : Uuids, value : Nat, dest : Nat]
<1>1. /\ NoCall \in C /\ NoCall.op = "none" /\ NoCall.service = 0 /\ NoCall.value = 0 /\ NoCall.dest = 0
  BY Calls
<1>2. ASSUME s \in known
      PROVE  /\ s \in Srv /\ ServiceStop(s) \in Nat /\ s \in Nat /\ s <= ServiceStop(s)
             /\ 1 <= s /\ s \in DOMAIN table
  <2>1. s \in Srv BY <1>2 DEF IInv, Shape
  <2> QED BY <2>1, Handles, ServiceGroups DEF IInv, Fixed, Srv, OfKind
<1>3. ASSUME h \in Val, n \in DestLens PROVE h \in Nat /\ n \in Nat /\ table[h].len \in Nat
  BY <1>3, Handles, SizesAssumption DEF IInv, Fixed, Val, OfKind, Attribute
<1>4. Top \in Nat /\ 1 \in Nat /\ 0 \in Nat /\ 1 <= Top BY DEF Top
<1>5. \A x \in DOMAIN table : x \in Nat /\ 1 <= x BY Handles DEF IInv, Fixed
<1>6. CASE Services
  <2> DEFINE c == [NoCall EXCEPT !.op = "services"]
  <2>1. c \in C /\ c.op = "services" /\ c.service = 0 BY <1>1 DEF Ops
  <2>2. Begin(c, "groups", 1, Top) BY <1>6 DEF Services
  <2> HIDE DEF c
  <2>3. /\ call' = c /\ phase' = "groups" /\ start' = 1 /\ stop' = Top /\ got' = {} /\ UNCHANGED fixed
    BY <2>2 DEF Begin, IInv, CallOK
  <2>4. CallOK' BY <2>1, <2>3 DEF CallOK
  <2>5. Below(Srv, 1) = {} BY <1>5 DEF Below, Srv, OfKind
  <2>6. SearchOK' BY <2>1, <2>3, <2>5, <1>4, SameTable DEF SearchOK, Below
  <2>7. "groups" \in ReqKinds /\ c.service \in known \cup {0} BY <2>1 DEF ReqKinds
  <2> QED BY <1>4, <2>1, <2>2, <2>4, <2>6, <2>7, BeginInv
<1>7. CASE ServicesByUuid(u)
  <2> DEFINE c == [NoCall EXCEPT !.op = "by_uuid", !.uuid = u]
  <2>1. c \in C /\ c.op = "by_uuid" /\ c.service = 0 BY <1>1 DEF Ops
  <2>2. Begin(c, "of_uuid", 1, Top) BY <1>7 DEF ServicesByUuid
  <2> HIDE DEF c
  <2>3. /\ call' = c /\ phase' = "of_uuid" /\ start' = 1 /\ stop' = Top /\ got' = {} /\ UNCHANGED fixed
    BY <2>2 DEF Begin, IInv, CallOK
  <2>4. CallOK' BY <2>1, <2>3 DEF CallOK
  <2>5. Below(WithUuid(Srv, c.uuid), 1) = {} BY <1>5 DEF Below, Srv, OfKind, WithUuid
  <2>6. SearchOK' BY <2>1, <2>3, <2>5, <1>4, SameTable DEF SearchOK, Below
  <2>7. "of_uuid" \in ReqKinds /\ c.service \in known \cup {0} BY <2>1 DEF ReqKinds
  <2> QED BY <1>4, <2>1, <2>2, <2>4, <2>6, <2>7, BeginInv
<1>8. CASE s \in known /\ Characteristics(s)
  <2> DEFINE c == [NoCall EXCEPT !.op = "characteristics", !.service = s]
  <2>1. c \in C /\ c.op = "characteristics" /\ c.service = s BY <1>1, <1>2, <1>8 DEF Ops
  <2>2. Begin(c, "declarations", s, ServiceStop(s)) BY <1>8 DEF Characteristics
  <2> HIDE DEF c
  <2>3. /\ call' = c /\ phase' = "declarations" /\ start' = s /\ stop' = ServiceStop(s)
        /\ got' = {} /\ hit' = 0 /\ known' = known /\ UNCHANGED fixed
    BY <2>2 DEF Begin, IInv, CallOK
  <2>4. CallOK' BY <1>8, <2>1, <2>3, SameTable DEF CallOK
  <2>5. Below(InService("declaration", s), s) = {} BY <1>2, <1>8, <1>5 DEF Below, InService, OfKind
  <2>6. SearchOK' BY <2>1, <2>3, <2>5, <1>2, <1>8, SameTable DEF SearchOK, Below
  <2>7. "declarations" \in ReqKinds /\ c.service \in known \cup {0} BY <1>8, <2>1 DEF ReqKinds
  <2> QED BY <1>2, <1>8, <2>1, <2>2, <2>4, <2>6, <2>7, BeginInv
<1>9. CASE s \in known /\ CharacteristicByUuid(s, u)
  <2> DEFINE c == [NoCall EXCEPT !.op = "characteristic", !.service = s, !.uuid = u]
  <2>1. c \in C /\ c.op = "characteristic" /\ c.service = s BY <1>1, <1>2, <1>9 DEF Ops
  <2>2. Begin(c, "declarations", s, ServiceStop(s)) BY <1>9 DEF CharacteristicByUuid
  <2> HIDE DEF c
  <2>3. /\ call' = c /\ phase' = "declarations" /\ start' = s /\ stop' = ServiceStop(s)
        /\ got' = {} /\ hit' = 0 /\ known' = known /\ UNCHANGED fixed
    BY <2>2 DEF Begin, IInv, CallOK
  <2>4. CallOK' BY <1>9, <2>1, <2>3, SameTable DEF CallOK
  <2>5. SearchOK'
    <3>1. cccds' = {} BY <2>2 DEF Begin, IInv, CallOK
    <3>2. \A d \in Those(c) : s <= d BY <1>2, <1>5, <1>9, <2>1 DEF Those, WithUuid, InService, OfKind
    <3>3. Those(call)' = Those(c) BY <2>3, SameThose
    <3>4. Sought' BY <1>2, <1>9, <2>1, <2>3, <3>1, <3>2, <3>3, SameTable DEF Sought
    <3> QED BY <2>1, <2>3, <3>4 DEF SearchOK
  <2>6. "declarations" \in ReqKinds /\ c.service \in known \cup {0} BY <1>9, <2>1 DEF ReqKinds
  <2> QED BY <1>2, <1>9, <2>1, <2>2, <2>4, <2>5, <2>6, BeginInv
<1>10. CASE h \in Val /\ n \in DestLens /\ ReadCharacteristicLong(h, n)
  <2> DEFINE c == [NoCall EXCEPT !.op = "long_read", !.value = h, !.dest = n]
  <2>1. c \in C /\ c.op = "long_read" /\ c.service = 0 /\ c.value = h /\ c.dest = n
    BY <1>1, <1>3, <1>10 DEF Ops
  <2>2. Begin(c, "read", 0, h) BY <1>10 DEF ReadCharacteristicLong
  <2> HIDE DEF c
  <2>3. /\ call' = c /\ phase' = "read" /\ start' = 0 /\ stop' = h /\ UNCHANGED fixed
    BY <2>2 DEF Begin
  <2>4. CallOK' BY <1>3, <1>10, <2>1, <2>3, SameTable DEF CallOK
  <2>5. SearchOK' BY <1>3, <1>10, <2>1, <2>3, SameTable DEF SearchOK
  <2>6. "read" \in ReqKinds /\ c.service \in known \cup {0} BY <2>1 DEF ReqKinds
  <2> QED BY <1>3, <1>10, <1>4, <2>1, <2>2, <2>4, <2>5, <2>6, BeginInv
<1> QED BY <1>6, <1>7, <1>8, <1>9, <1>10

LEMMA SendInv ==
    ASSUME IInv, Send
    PROVE  IInv'
<1>1. /\ call.op # "none" /\ ~ asked /\ asked' = TRUE /\ reqs' = Append(reqs, Current)
      /\ UNCHANGED <<fixed, known, call, search, late, clean, rsps, out>>
  BY DEF Send, Current
<1>2. Current \in Requests
  <2>1. phase \in ReqKinds BY <1>1 DEF IInv, Shape, CallOK, Ops
  <2>2. phase \in {"read", "blob"} => stop \in Val BY <1>1 DEF IInv, Shape, CallOK, Ops
  <2> QED BY <2>1, <2>2 DEF IInv, Shape, Requests, Current
<1>3. /\ reqs' \in Seq(Requests) /\ Len(reqs') = Len(reqs) + 1 /\ reqs'[Len(reqs')] = Current
      /\ reqs' # <<>> /\ Len(reqs) \in Nat /\ Len(rsps) \in Nat
  BY <1>1, <1>2 DEF IInv, PipeShape
<1>4. Fixed' /\ PipeShape' BY <1>1, <1>3, SameTable DEF IInv, PipeShape, Fixed
<1>5. Shape' /\ CallOK' BY <1>1, SameTable DEF IInv, Shape, CallOK, search, fixed
<1>6. Current' = Current BY <1>1 DEF Current, search
<1>7. Pipe' = Pipe + 1 /\ Pipe \in Nat BY <1>1, <1>3 DEF Pipe
<1>8. late' = late /\ late \in Nat /\ late <= Pipe /\ Pipe <= late
  BY <1>1 DEF IInv, PipeOK, PipeShape
<1>9. PipeOK' BY <1>1, <1>3, <1>6, <1>7, <1>8 DEF PipeOK
<1>10. SearchOK' /\ Results'
  BY <1>1, SameTable, SameSought, SameResults DEF IInv, SearchOK, search, Below
<1> QED BY <1>4, <1>5, <1>9, <1>10 DEF IInv

LEMMA NoPacketInv ==
    ASSUME IInv, NoPacket
    PROVE  IInv'
<1>1. /\ ~ asked /\ Fails("out_of_memory") /\ UNCHANGED <<fixed, known, asked, late, reqs, rsps>>
      /\ call.op # "none"
  BY DEF NoPacket
<1>2. Right(call, "out_of_memory", {}, {}, 0) BY DEF Right, RightOne
<1>3. Shape' /\ CallOK' /\ SearchOK' /\ Results'
  BY <1>1, <1>2, FailsInv DEF IInv, Shape, Statuses, PipeShape
<1>4. Fixed' /\ PipeShape' BY <1>1, SameTable DEF IInv, Fixed, PipeShape
<1>5. PipeOK' BY <1>1 DEF IInv, PipeOK, Pipe
<1> QED BY <1>3, <1>4, <1>5 DEF IInv

LEMMA DroppedInv ==
    ASSUME IInv, Dropped
    PROVE  IInv'
<1>1. /\ asked /\ Fails("dropped") /\ asked' = FALSE /\ late' = Pipe
      /\ UNCHANGED <<fixed, known, reqs, rsps>>
  BY DEF Dropped
<1>2. Right(call, "dropped", {}, {}, 0) BY DEF Right, RightOne
<1>3. Shape' /\ CallOK' /\ SearchOK' /\ Results'
  BY <1>1, <1>2, FailsInv DEF IInv, Shape, Statuses
<1>4. Pipe \in Nat /\ Pipe' = Pipe BY <1>1 DEF IInv, PipeShape, Pipe
<1>5. Fixed' /\ PipeShape' BY <1>1, <1>4, SameTable DEF IInv, Fixed, PipeShape
<1>6. PipeOK' BY <1>1, <1>4 DEF PipeOK
<1> QED BY <1>3, <1>5, <1>6 DEF IInv

(* The empty sequence, and the ends of another.                            *)
LEMMA EmptySequence ==
    ASSUME NEW S, NEW q \in Seq(S)
    PROVE  q = <<>> <=> Len(q) = 0
OBVIOUS

LEMMA WiderSequence ==
    ASSUME NEW S, NEW T, S \subseteq T, NEW q \in Seq(S)
    PROVE  q \in Seq(T)
OBVIOUS

LEMMA HeadTail ==
    ASSUME NEW S, NEW q \in Seq(S), q # <<>>
    PROVE  /\ Head(q) \in S /\ Head(q) = q[1] /\ Tail(q) \in Seq(S)
           /\ Len(q) \in Nat /\ Len(q) >= 1 /\ Len(Tail(q)) = Len(q) - 1
           /\ \A i \in 1 .. Len(Tail(q)) : Tail(q)[i] = q[i + 1]
OBVIOUS

(* Its answers to a request are of the table and the MTU only.             *)
LEMMA SameAnswers ==
    ASSUME UNCHANGED <<fixed, Current>>
    PROVE  Answers(Current)' = Answers(Current)
<1>1. table' = table /\ mtu' = mtu /\ Current' = Current BY DEF fixed
<1>2. \A k : OfKind(table, k)' = OfKind(table, k) BY <1>1 DEF OfKind
<1>3. Listed(Current)' = Listed(Current)
  BY <1>1, <1>2 DEF Listed, Groups, OfUuid, Declarations, Information, InRange, TypeWidth, OfKind
<1>4. InformationFits(Listed(Current))' = InformationFits(Listed(Current))
  BY <1>1, <1>3 DEF InformationFits, TypeWidth
<1> QED BY <1>1, <1>3, <1>4 DEF Answers

LEMMA ServeInv ==
    ASSUME IInv, Serve
    PROVE  IInv'
<1>1. /\ reqs # <<>> /\ reqs' = Tail(reqs)
      /\ UNCHANGED <<fixed, known, call, search, asked, clean, out>>
  BY DEF Serve
<1>2. /\ Head(reqs) \in Requests /\ reqs' \in Seq(Requests) /\ Len(reqs) \in Nat /\ Len(reqs) >= 1
      /\ Len(reqs') = Len(reqs) - 1 /\ Len(rsps) \in Nat
      /\ reqs' # <<>> => reqs'[Len(reqs')] = reqs[Len(reqs)]
      /\ reqs' = <<>> => Head(reqs) = reqs[Len(reqs)]
      /\ reqs' # <<>> <=> Len(reqs) > 1
  <2>1. reqs \in Seq(Requests) /\ rsps \in Seq(Responses) BY DEF IInv, PipeShape
  <2>2. /\ Head(reqs) \in Requests /\ Head(reqs) = reqs[1] /\ Tail(reqs) \in Seq(Requests)
        /\ Len(reqs) \in Nat /\ Len(reqs) >= 1 /\ Len(rsps) \in Nat
        /\ Len(Tail(reqs)) = Len(reqs) - 1
        /\ \A i \in 1 .. Len(Tail(reqs)) : Tail(reqs)[i] = reqs[i + 1]
    BY <1>1, <2>1, HeadTail
  <2>3. reqs' # <<>> <=> Len(reqs) > 1 BY <1>1, <2>2, EmptySequence
  <2>4. reqs' # <<>> => reqs'[Len(reqs')] = reqs[Len(reqs)] BY <1>1, <2>2, <2>3
  <2>5. reqs' = <<>> => Head(reqs) = reqs[Len(reqs)] BY <2>2, <2>3
  <2> QED BY <1>1, <2>2, <2>3, <2>4, <2>5
<1>3. /\ late \in Nat /\ late <= Pipe /\ Pipe <= late + (IF asked THEN 1 ELSE 0)
      /\ asked /\ Pipe = late + 1 => reqs[Len(reqs)] = Current
      /\ asked \in BOOLEAN
  BY <1>1 DEF IInv, PipeOK, PipeShape
<1>4. Current' = Current BY <1>1 DEF Current, search
<1>5. Shape' /\ CallOK' BY <1>1, SameTable DEF IInv, Shape, CallOK, search, fixed
<1>6. SearchOK' /\ Results'
  BY <1>1, SameTable, SameSought, SameResults DEF IInv, SearchOK, search, Below
<1>7. Fixed' BY <1>1, SameTable DEF IInv, Fixed
<1>8. PipeShape' /\ PipeOK'
  <2>1. CASE \E a \in Answers(Head(reqs)) : rsps' = Append(rsps, a) /\ late' = late
    <3>1. PICK a \in Answers(Head(reqs)) : rsps' = Append(rsps, a) /\ late' = late BY <2>1
    <3>2. a \in Responses BY <1>2, AnswersTyped DEF IInv
    <3>3. /\ rsps' \in Seq(Responses) /\ Len(rsps') = Len(rsps) + 1 /\ rsps'[Len(rsps')] = a
      BY <3>1, <3>2, <1>2 DEF IInv, PipeShape
    <3>4. Pipe' = Pipe BY <3>3, <1>2 DEF Pipe
    <3>5. PipeShape' BY <1>1, <1>2, <1>3, <3>1, <3>3, SameTable DEF PipeShape
    <3>6. Answers(Current)' = Answers(Current) BY <1>1, <1>4, SameAnswers
    <3>7. asked /\ Pipe = late + 1 /\ reqs' = <<>> => a \in Answers(Current) BY <1>2, <1>3
    <3> QED BY <1>1, <1>2, <1>3, <1>4, <3>1, <3>3, <3>4, <3>5, <3>6, <3>7 DEF PipeOK
  <2>2. CASE rsps' = rsps /\ late' = IF Len(rsps) < late THEN late - 1 ELSE late
    <3>1. Pipe' = Pipe - 1 /\ Pipe = Len(reqs) + Len(rsps) BY <1>2, <2>2 DEF Pipe
    <3>2. late' \in Nat BY <1>2, <1>3, <2>2
    <3>3. PipeShape' BY <1>1, <1>2, <1>3, <2>2, <3>2, SameTable DEF PipeShape, IInv
    <3>4. late' <= Pipe' /\ Pipe' <= late' + (IF asked THEN 1 ELSE 0) BY <1>2, <1>3, <2>2, <3>1
    <3>5. asked /\ Pipe' = late' + 1 => Len(rsps) < late /\ Pipe = late + 1
      BY <1>2, <1>3, <2>2, <3>1
    <3>6. asked /\ Pipe' = late' + 1 => Len(reqs) > 1 BY <1>2, <1>3, <3>1, <3>5
    <3> QED BY <1>1, <1>2, <1>3, <1>4, <3>3, <3>4, <3>5, <3>6 DEF PipeOK
  <2>3. \/ \E a \in Answers(Head(reqs)) : rsps' = Append(rsps, a) /\ late' = late
        \/ rsps' = rsps /\ late' = IF Len(rsps) < late THEN late - 1 ELSE late
    BY DEF Serve
  <2> QED BY <2>1, <2>2, <2>3
<1> QED BY <1>5, <1>6, <1>7, <1>8 DEF IInv

-----------------------------------------------------------------------------
(* What the responses to a request's own list say.                         *)

LEMMA OwnList ==
    ASSUME Fixed, NEW r \in Requests, r.kind \notin {"read", "blob"}, NEW a \in Answers(r)
    PROVE  /\ a.kind \in {"error", r.kind}
           /\ a.kind = r.kind => a.handles = Listed(r) /\ r.start <= r.stop
           /\ a.kind = "error" => a.code \in {"invalid_handle", "not_found"}
           /\ a.kind = "error" /\ a.code = "invalid_handle" => r.start > r.stop
           /\ a.kind = "error" /\ a.code = "not_found" => Listed(r) = {}
<1>1. r.start \in Nat /\ r.stop \in Nat /\ r.kind \in ReqKinds BY DEF Requests
<1>2. \/ a = Error("invalid_handle") /\ r.start > r.stop
      \/ a = Error("not_found") /\ Listed(r) = {}
      \/ a = Response(r.kind, Listed(r), 0) /\ r.start <= r.stop
  BY <1>1 DEF Answers
<1> QED BY <1>1, <1>2 DEF Response, Error, ReqKinds

LEMMA OwnRead ==
    ASSUME Fixed, NEW r \in Requests, r.kind \in {"read", "blob"}, NEW a \in Answers(r),
           r.start <= table[r.stop].len
    PROVE  a.kind = r.kind /\ a.n = Least(table[r.stop].len - r.start, mtu - 1)
<1>1. table[r.stop].len \in Nat /\ r.start \in Nat
  BY Handles DEF Requests, Val, OfKind, Attribute, Fixed
<1>2. a = Response(r.kind, {}, Least(table[r.stop].len - r.start, mtu - 1)) BY <1>1 DEF Answers
<1> QED BY <1>2 DEF Response

(* The MTU has room for one entry of each list: none is empty that has     *)
(* something to list.                                                      *)
LEMMA FirstListed ==
    ASSUME Fixed, NEW S, S \subseteq DOMAIN table, S # {}
    PROVE  First(S) \in S /\ Before(S, First(S)) = {}
<1>1. First(S) \in S /\ \A y \in S : First(S) <= y BY Ends DEF Fixed
<1>2. S \subseteq Nat BY Handles DEF Fixed
<1> QED BY <1>1, <1>2 DEF Before

LEMMA NothingListed ==
    ASSUME Fixed, NEW r
    PROVE  /\ Groups(r) = {} => InRange("service", r) = {}
           /\ OfUuid(r) = {} => WithUuid(InRange("service", r), r.uuid) = {}
           /\ Declarations(r) = {} => InRange("declaration", r) = {}
<1>1. mtu \in Nat /\ mtu >= 23 BY SizesAssumption DEF Fixed
<1>2. Cardinality({}) = 0 BY FS_EmptySet
<1>3. \A u : Width(u) \in {2, 16} BY DEF Width
<1>4. ASSUME InRange("service", r) # {} PROVE Groups(r) # {}
  <2> DEFINE S == InRange("service", r) h == First(S)
  <2>1. S \subseteq DOMAIN table BY DEF InRange, OfKind
  <2>2. h \in S /\ Before(S, h) = {} BY <1>4, <2>1, FirstListed
  <2> DEFINE w == Width(table[h].uuid)
  <2>3. w \in {2, 16} BY <1>3
  <2>4. 2 + Cardinality(Before(S, h)) * (4 + w) <= mtu - 4 - w
    <3> HIDE DEF w
    <3> QED BY <1>1, <1>2, <2>2, <2>3
  <2>5. h \in Groups(r) BY <2>2, <2>4 DEF Groups
  <2> QED BY <2>5
<1>5. ASSUME WithUuid(InRange("service", r), r.uuid) # {} PROVE OfUuid(r) # {}
  <2> DEFINE S == WithUuid(InRange("service", r), r.uuid) h == First(S)
  <2>1. S \subseteq DOMAIN table BY DEF InRange, OfKind, WithUuid
  <2>2. h \in S /\ Before(S, h) = {} BY <1>5, <2>1, FirstListed
  <2> DEFINE w == Width(r.uuid)
  <2>3. w \in {2, 16} BY <1>3
  <2>4. 4 + w <= mtu - 1 - 4 * Cardinality(Before(S, h))
    <3> HIDE DEF w
    <3> QED BY <1>1, <1>2, <2>2, <2>3
  <2>5. h \in OfUuid(r) BY <2>2, <2>4 DEF OfUuid, WithUuid
  <2> QED BY <2>5
<1>6. ASSUME InRange("declaration", r) # {} PROVE Declarations(r) # {}
  <2> DEFINE S == InRange("declaration", r) h == First(S)
  <2>1. S \subseteq DOMAIN table BY DEF InRange, OfKind
  <2>2. h \in S /\ Before(S, h) = {} BY <1>6, <2>1, FirstListed
  <2> DEFINE w == Width(table[h].uuid)
  <2>3. w \in {2, 16} BY <1>3
  <2>4. 2 + Cardinality(Before(S, h)) * (5 + w) <= mtu - 5 - w
    <3> HIDE DEF w
    <3> QED BY <1>1, <1>2, <2>2, <2>3
  <2>5. h \in Declarations(r) BY <2>2, <2>4 DEF Declarations
  <2> QED BY <2>5
<1> QED BY <1>4, <1>5, <1>6

(* A list from n on, added to what is below n, is what is below its end.   *)
LEMMA Joined ==
    ASSUME Fixed, NEW S, S \subseteq DOMAIN table, NEW n \in Nat, NEW E, E # {},
           InitialIn(E, {h \in S : n <= h})
    PROVE  /\ Final(E) \in E /\ Final(E) \in Nat /\ Final(E) \in S
           /\ Below(S, n) \cup E = Below(S, Final(E) + 1)
<1>1. S \subseteq Nat BY Handles DEF Fixed
<1>2. E \subseteq S /\ \A h \in E : n <= h BY DEF InitialIn
<1>3. Final(E) \in E /\ \A y \in E : y <= Final(E) BY <1>2, Ends DEF Fixed
<1>4. Final(E) \in Nat /\ n <= Final(E) BY <1>1, <1>2, <1>3
<1>5. ASSUME NEW x \in S PROVE (x \in Below(S, n) \/ x \in E) <=> x < Final(E) + 1
  <2>1. x \in Nat BY <1>1
  <2>2. CASE x < n BY <1>2, <1>4, <2>1, <2>2 DEF Below
  <2>3. CASE n <= x /\ x < Final(E) BY <1>3, <1>4, <2>1, <2>3 DEF InitialIn, Below
  <2>4. CASE x = Final(E) BY <1>3, <1>4, <2>4 DEF Below
  <2>5. CASE x > Final(E) BY <1>3, <1>4, <2>1, <2>5 DEF Below
  <2> QED BY <1>4, <2>1, <2>2, <2>3, <2>4, <2>5
<1> QED BY <1>2, <1>3, <1>4, <1>5 DEF Below

-----------------------------------------------------------------------------
(* Responses that list services.                                           *)

Held == Shape /\ CallOK /\ SearchOK /\ Results

(* The services listed from start on.                                      *)
LEMMA ServicesFrom ==
    ASSUME Fixed, Shape, NEW U, U \subseteq Srv, stop = Top
    PROVE  {h \in U : start <= h /\ h <= stop} = {h \in U : start <= h}
<1>1. U \subseteq 1 .. Len(table) /\ Len(table) \in Nat /\ Len(table) < Top
  BY Handles DEF Fixed, Srv, OfKind
<1>2. \A h \in U : h \in Nat /\ h <= Top BY <1>1 DEF Top
<1> QED BY <1>2

LEMMA CurrentIs ==
    ASSUME Shape, CallOK, call.op # "none"
    PROVE  /\ Current \in Requests
           /\ Current.kind = phase /\ Current.start = start /\ Current.stop = stop
           /\ Current.uuid = call.uuid
<1>1. phase \in ReqKinds BY DEF Shape, CallOK, Ops
<1>2. phase \in {"read", "blob"} => stop \in Val BY DEF Shape, CallOK, Ops
<1> QED BY <1>1, <1>2 DEF Shape, Requests, Current

(* What a call has found once a list of services is over.                  *)
LEMMA ServicesOver ==
    ASSUME Fixed, Held, call.op \in {"services", "by_uuid"}, clean, Listed(Current) = {}
    PROVE  /\ call.op = "services" => got = Srv
           /\ call.op = "by_uuid" => got = WithUuid(Srv, call.uuid)
<1>1. \A h \in Srv : h \in Nat BY Handles DEF Fixed, Srv, OfKind
<1>2. start \in Nat /\ stop = Top BY DEF Held, Shape, CallOK
<1>3. /\ Current.kind = phase /\ Current.start = start /\ Current.stop = stop
      /\ Current.uuid = call.uuid
  BY CurrentIs DEF Held
<1>4. CASE call.op = "services"
  <2>1. phase = "groups" /\ got = Below(Srv, start) BY <1>4 DEF Held, CallOK, SearchOK
  <2>2. InRange("service", Current) = {}
    <3>1. Groups(Current) = {} BY <1>3, <2>1 DEF Listed
    <3> QED BY <3>1, NothingListed
  <2>3. {h \in Srv : start <= h /\ h <= stop} = {} BY <1>3, <2>2 DEF InRange, Srv
  <2>4. {h \in Srv : start <= h} = {} BY <1>2, <2>3, ServicesFrom DEF Held
  <2> QED BY <1>1, <1>2, <1>4, <2>1, <2>4 DEF Below
<1>5. CASE call.op = "by_uuid"
  <2> DEFINE U == WithUuid(Srv, call.uuid)
  <2>1. phase = "of_uuid" /\ got = Below(U, start) BY <1>5 DEF Held, CallOK, SearchOK
  <2>2. WithUuid(InRange("service", Current), call.uuid) = {}
    <3>1. OfUuid(Current) = {} BY <1>3, <2>1 DEF Listed
    <3> QED BY <1>3, <3>1, NothingListed
  <2>3. {h \in U : start <= h /\ h <= stop} = {} BY <1>3, <2>2 DEF InRange, Srv, WithUuid
  <2>4. U \subseteq Srv BY DEF WithUuid
  <2>5. {h \in U : start <= h} = {} BY <1>2, <2>3, <2>4, ServicesFrom DEF Held
  <2> QED BY <1>1, <1>2, <1>5, <2>1, <2>4, <2>5 DEF Below
<1> QED BY <1>4, <1>5

(* After a service, the next one is past the end of its group.             *)
LEMMA PastGroup ==
    ASSUME Fixed, NEW U, U \subseteq Srv, NEW s \in Srv
    PROVE  Below(U, s + 1) = Below(U, ServiceStop(s) + 1)
<1>1. s \in Nat /\ \A h \in U : h \in Nat BY Handles DEF Fixed, Srv, OfKind
<1>2. ServiceStop(s) \in Nat /\ s <= ServiceStop(s) BY ServiceGroups DEF Fixed
<1>3. \A h \in U : s < h => ServiceStop(s) < h BY ServiceGroups DEF Fixed
<1>4. \A h \in U : h < s + 1 <=> h < ServiceStop(s) + 1
  <2> DEFINE e == ServiceStop(s)
  <2>1. e \in Nat /\ s <= e /\ \A h \in U : s < h => e < h BY <1>2, <1>3
  <2> HIDE DEF e
  <2>2. \A h \in U : h < s + 1 <=> h < e + 1 BY <1>1, <2>1
  <2> QED BY <2>2 DEF e
<1> QED BY <1>4 DEF Below

(* What a response adds to the services found.                             *)
LEMMA ServicesJoin ==
    ASSUME Fixed, Held, call.op \in {"services", "by_uuid"}, clean,
           NEW a \in Answers(Current), a.kind = phase
    PROVE  LET U == IF call.op = "services" THEN Srv ELSE WithUuid(Srv, call.uuid)
           IN got \cup a.handles = Below(U, ServiceStop(Final(a.handles)) + 1)
<1> DEFINE U == IF call.op = "services" THEN Srv ELSE WithUuid(Srv, call.uuid)
<1>1. start \in Nat /\ stop = Top BY DEF Held, Shape, CallOK
<1>2. /\ Current.kind = phase /\ Current.start = start /\ Current.stop = stop
      /\ Current.uuid = call.uuid /\ Current \in Requests
  BY CurrentIs DEF Held
<1>3. U \subseteq Srv /\ U \subseteq DOMAIN table BY DEF WithUuid, Srv, OfKind
<1>4. phase \in {"groups", "of_uuid"} BY DEF Held, CallOK
<1>5. a.handles = Listed(Current)
  BY <1>2, <1>4, OwnList
<1>6. InitialIn(a.handles, {h \in U : start <= h /\ h <= stop})
  <2>1. CASE call.op = "services"
    <3>1. a.handles = Groups(Current) BY <1>2, <1>5, <2>1 DEF Listed, Held, CallOK
    <3>2. InRange("service", Current) = {h \in U : start <= h /\ h <= stop}
      BY <1>2, <2>1 DEF InRange, Srv
    <3> QED BY <3>1, <3>2, GroupsInitial DEF Fixed
  <2>2. CASE call.op = "by_uuid"
    <3>1. a.handles = OfUuid(Current) BY <1>2, <1>5, <2>2 DEF Listed, Held, CallOK
    <3>2. WithUuid(InRange("service", Current), Current.uuid) = {h \in U : start <= h /\ h <= stop}
      BY <1>2, <2>2 DEF InRange, Srv, WithUuid
    <3> QED BY <3>1, <3>2, OfUuidInitial DEF Fixed
  <2> QED BY <2>1, <2>2
<1>7. InitialIn(a.handles, {h \in U : start <= h}) BY <1>1, <1>3, <1>6, ServicesFrom DEF Held
<1>8. a.handles # {}
  <2>1. a \in Responses BY <1>2, AnswersTyped
  <2> QED BY <1>4, <2>1 DEF Responses
<1>9. got = Below(U, start) BY DEF Held, SearchOK
<1> HIDE DEF U
<1>10. Final(a.handles) \in U /\ got \cup a.handles = Below(U, Final(a.handles) + 1)
  BY <1>1, <1>3, <1>7, <1>8, <1>9, Joined
<1>11. Below(U, Final(a.handles) + 1) = Below(U, ServiceStop(Final(a.handles)) + 1)
  BY <1>3, <1>10, PastGroup
<1> QED BY <1>10, <1>11 DEF U

LEMMA ServicesTakenInv ==
    ASSUME Fixed, Held, NEW a \in Responses, Clean => a \in Answers(Current),
           a.kind = phase, phase \in {"groups", "of_uuid"}, ServicesTaken(a),
           asked' = FALSE, UNCHANGED fixed, call.op # "none"
    PROVE  Held'
<1>1. call.op \in {"services", "by_uuid"} /\ stop = Top
  BY DEF Held, Shape, CallOK, Ops
<1>2. a.handles \subseteq Srv /\ a.handles # {} /\ a.handles \subseteq DOMAIN table
  BY DEF Responses, Srv, OfKind
<1> DEFINE kept == {h \in a.handles : Cardinality(known \cup {x \in a.handles : x <= h}) <= MaxServices}
<1>3. kept \subseteq a.handles /\ known' = known \cup kept BY DEF ServicesTaken
<1>4. known \subseteq known' /\ known' \subseteq Srv /\ known \subseteq Srv BY <1>2, <1>3 DEF Held, Shape
<1>5. CASE kept # a.handles
  <2>1. Fails("insufficient_space") BY <1>5 DEF ServicesTaken
  <2>2. Cardinality(Srv) > MaxServices
    <3>1. PICK h \in a.handles : ~ (Cardinality(known \cup {x \in a.handles : x <= h}) <= MaxServices)
      BY <1>5
    <3> DEFINE K == known \cup {x \in a.handles : x <= h}
    <3>2. K \subseteq Srv /\ Srv \subseteq DOMAIN table BY <1>2, <1>4 DEF Srv, OfKind
    <3>3. IsFiniteSet(Srv) BY <3>2, Handles DEF Fixed
    <3>4. Cardinality(K) <= Cardinality(Srv) /\ Cardinality(K) \in Nat /\ Cardinality(Srv) \in Nat
      BY <3>2, <3>3, FS_Subset, FS_CardinalityType
    <3>5. MaxServices \in Nat /\ ~ (Cardinality(K) <= MaxServices) BY <3>1, SizesAssumption
    <3> HIDE DEF K
    <3> QED BY <3>4, <3>5
  <2>3. Right(call, "insufficient_space", {}, {}, 0) BY <1>1, <2>2 DEF Right
  <2>4. "insufficient_space" \in Statuses BY DEF Statuses
  <2> QED BY <1>4, <2>1, <2>3, <2>4, FailsInv DEF Held
<1>6. CASE kept = a.handles
  <2> DEFINE e == Final(a.handles)
  <2>1. /\ got' = got \cup a.handles /\ Keeps(phase, ServiceStop(e) + 1, stop)
        /\ cccds' = cccds /\ hit' = hit /\ props' = props
    BY <1>6 DEF ServicesTaken
  <2>2. /\ phase' = phase /\ start' = ServiceStop(e) + 1 /\ stop' = stop /\ clean' = Clean
        /\ call' = call /\ out' = out
    BY <2>1 DEF Keeps
  <2>3. e \in Srv BY <1>2, Ends DEF Fixed
  <2> HIDE DEF e
  <2>4. ServiceStop(e) \in Nat /\ ServiceStop(e) < Top
    BY <2>3, ServiceGroups, Handles DEF Fixed, Top
  <2>5. start' \in Nat /\ 1 <= start' /\ start' <= Top BY <2>2, <2>4 DEF Top
  <2>6. Shape'
    <3>1. clean' \in BOOLEAN BY <2>2 DEF Clean, Held, Shape
    <3>2. got' \subseteq DOMAIN table BY <1>2, <2>1 DEF Held, Shape
    <3> QED BY <1>4, <2>1, <2>2, <2>5, <3>1, <3>2, SameTable DEF Held, Shape
  <2>7. CallOK' BY <1>1, <2>1, <2>2, SameTable DEF Held, CallOK
  <2>8. SearchOK'
    <3>1. Clean => /\ call.op = "services" => got' = Below(Srv, start')
                   /\ call.op = "by_uuid" => got' = Below(WithUuid(Srv, call.uuid), start')
      BY <1>1, <2>1, <2>2, ServicesJoin DEF Clean, e
    <3> QED BY <1>1, <2>2, <2>5, <3>1, SameTable DEF SearchOK, Below
  <2>9. Results' BY <2>2, SameResults DEF Held
  <2> QED BY <2>6, <2>7, <2>8, <2>9 DEF Held
<1> QED BY <1>5, <1>6

-----------------------------------------------------------------------------
(* Responses to characteristics().                                         *)

(* What keeps the search for characteristics within its service.           *)
LEMMA DeclarationsFrom ==
    ASSUME Fixed, Held, call.op = "characteristics", phase = "declarations", clean
    PROVE  /\ {h \in Dcl : start <= h /\ h <= stop}
                = {h \in InService("declaration", call.service) : start <= h}
           /\ InService("declaration", call.service) \subseteq DOMAIN table
           /\ call.service \in Srv /\ start \in Nat /\ stop = ServiceStop(call.service)
<1>1. /\ 1 <= start /\ call.service <= start /\ start <= stop /\ stop = ServiceStop(call.service)
      /\ call.service \in Srv /\ start \in Nat
  BY DEF Held, SearchOK, CallOK, Shape
<1>2. Dcl \subseteq DOMAIN table /\ call.service \in DOMAIN table BY <1>1 DEF Dcl, Srv, OfKind
<1>3. call.service \notin Dcl BY <1>1 DEF Dcl, Srv, OfKind
<1>4. call.service \in Nat /\ \A h \in Dcl : h \in Nat BY <1>2, Handles DEF Fixed
<1>5. \A h \in Dcl : (start <= h /\ h <= stop) <=> (call.service < h /\ h <= stop /\ start <= h)
  BY <1>1, <1>3, <1>4
<1> QED BY <1>1, <1>2, <1>5 DEF InService, Dcl

(* characteristics() has every declaration of its service once a list of   *)
(* them is over ...                                                        *)
LEMMA DeclarationsOver ==
    ASSUME Fixed, Held, call.op = "characteristics", phase = "declarations", clean,
           Listed(Current) = {}
    PROVE  got = InService("declaration", call.service)
<1>1. /\ Current.kind = phase /\ Current.start = start /\ Current.stop = stop
  BY CurrentIs DEF Held
<1>2. Declarations(Current) = {} BY <1>1 DEF Listed
<1>3. InRange("declaration", Current) = {} BY <1>2, NothingListed
<1>4. {h \in Dcl : start <= h /\ h <= stop} = {} BY <1>1, <1>3 DEF InRange, Dcl
<1>5. {h \in InService("declaration", call.service) : start <= h} = {} /\ start \in Nat
      /\ InService("declaration", call.service) \subseteq DOMAIN table
  BY <1>4, DeclarationsFrom
<1>6. \A h \in InService("declaration", call.service) : h \in Nat BY <1>5, Handles DEF Fixed
<1>7. got = Below(InService("declaration", call.service), start) BY DEF Held, SearchOK
<1> QED BY <1>5, <1>6, <1>7 DEF Below

(* ... and before that, those up to the last one listed.                   *)
LEMMA DeclarationsJoin ==
    ASSUME Fixed, Held, call.op = "characteristics", phase = "declarations", clean,
           NEW a \in Answers(Current), a.kind = phase
    PROVE  LET D == InService("declaration", call.service) e == Final(a.handles)
           IN /\ got \cup a.handles = Below(D, e + 1)
              /\ e \in D /\ e \in Nat /\ start <= e
<1> DEFINE D == InService("declaration", call.service) e == Final(a.handles)
<1>1. /\ Current.kind = phase /\ Current.start = start /\ Current.stop = stop
      /\ Current \in Requests
  BY CurrentIs DEF Held
<1>2. a.handles = Declarations(Current)
  BY <1>1, OwnList DEF Listed
<1>3. InRange("declaration", Current) = {h \in Dcl : start <= h /\ h <= stop}
  BY <1>1 DEF InRange, Dcl
<1>4. D \subseteq DOMAIN table /\ start \in Nat BY DeclarationsFrom
<1>5. InitialIn(a.handles, {h \in D : start <= h})
  BY <1>2, <1>3, DeclarationsFrom, DeclarationsInitial DEF Fixed
<1>6. a.handles # {}
  <2>1. a \in Responses BY <1>1, AnswersTyped
  <2> QED BY <2>1 DEF Responses
<1>7. got = Below(D, start) BY DEF Held, SearchOK
<1>8. e \in a.handles /\ e \in Nat /\ e \in D /\ Below(D, start) \cup a.handles = Below(D, e + 1)
  <2>1. D \subseteq DOMAIN table /\ start \in Nat /\ InitialIn(a.handles, {h \in D : start <= h})
    BY <1>4, <1>5
  <2> DEFINE E == a.handles n == start
  <2>2. D \subseteq DOMAIN table /\ n \in Nat /\ E # {} /\ InitialIn(E, {h \in D : n <= h})
    BY <1>6, <2>1
  <2> HIDE DEF D, e, E, n
  <2>3. /\ Final(E) \in E /\ Final(E) \in Nat /\ Final(E) \in D
        /\ Below(D, n) \cup E = Below(D, Final(E) + 1)
    BY <2>2, Joined
  <2> QED BY <2>3 DEF e, E, n
<1>9. start <= e BY <1>5, <1>8 DEF InitialIn
<1> QED BY <1>7, <1>8, <1>9

LEMMA CharacteristicsTakenInv ==
    ASSUME Fixed, Held, NEW a \in Responses, Clean => a \in Answers(Current),
           a.kind = phase, phase = "declarations", call.op = "characteristics",
           CharacteristicsTaken(a), asked' = FALSE, known' = known, UNCHANGED fixed
    PROVE  Held'
<1>1. a.handles \subseteq Dcl /\ a.handles # {} /\ a.handles \subseteq DOMAIN table
  BY DEF Responses, Dcl, OfKind
<1>2. known \subseteq known' /\ known' \subseteq Srv BY DEF Held, Shape
<1>3. CASE Cardinality(got \cup a.handles) > MaxCharacteristics
  <2>1. Fails("insufficient_space") BY <1>3 DEF CharacteristicsTaken
  <2>2. Right(call, "insufficient_space", {}, {}, 0) BY DEF Right
  <2>3. "insufficient_space" \in Statuses BY DEF Statuses
  <2> QED BY <1>2, <2>1, <2>2, <2>3, FailsInv DEF Held
<1>4. CASE ~ (Cardinality(got \cup a.handles) > MaxCharacteristics)
  <2> DEFINE e == Final(a.handles)
  <2>1. /\ got' = got \cup a.handles /\ Keeps(phase, e + 1, stop)
        /\ cccds' = cccds /\ hit' = hit /\ props' = props
    BY <1>4 DEF CharacteristicsTaken
  <2>2. /\ phase' = phase /\ start' = e + 1 /\ stop' = stop /\ clean' = Clean
        /\ call' = call /\ out' = out
    BY <2>1 DEF Keeps
  <2>3. e \in Nat
    <3>1. e \in a.handles BY <1>1, Ends DEF Fixed
    <3> QED BY <1>1, <3>1, Handles DEF Fixed
  <2>4. Shape'
    <3>1. clean' \in BOOLEAN BY <2>2 DEF Clean, Held, Shape
    <3>2. got' \subseteq DOMAIN table BY <1>1, <2>1 DEF Held, Shape
    <3>3. start' \in Nat BY <2>2, <2>3
    <3> QED BY <2>1, <2>2, <3>1, <3>2, <3>3, SameTable DEF Held, Shape
  <2>5. CallOK' BY <1>1, <2>1, <2>2, SameTable DEF Held, CallOK
  <2>6. SearchOK'
    <3>1. ASSUME Clean
          PROVE  /\ got' = Below(InService("declaration", call.service), start')
                 /\ 1 <= start' /\ call.service <= start' /\ start' <= stop
                 /\ stop = ServiceStop(call.service)
      <4>1. clean /\ a \in Answers(Current) BY <3>1 DEF Clean
      <4>2. /\ got \cup a.handles = Below(InService("declaration", call.service), e + 1)
            /\ e \in InService("declaration", call.service) /\ start <= e
        BY <4>1, DeclarationsJoin
      <4>3. /\ 1 <= start /\ call.service <= start /\ start \in Nat
            /\ stop = ServiceStop(call.service) /\ call.service \in Srv
        BY <4>1 DEF Held, SearchOK, Shape, CallOK
      <4>4. e + 1 <= stop BY <4>2, <4>3, Inside DEF Fixed
      <4>5. call.service \in Nat BY DEF Held, Shape
      <4> HIDE DEF e
      <4> QED BY <2>1, <2>2, <2>3, <4>2, <4>3, <4>4, <4>5
    <3> QED BY <2>2, <3>1, SameTable DEF SearchOK, Below
  <2>7. Results' BY <2>2, SameResults DEF Held
  <2> QED BY <2>4, <2>5, <2>6, <2>7 DEF Held
<1> QED BY <1>3, <1>4

(* A characteristic that notifies has its CCCD before the next one.        *)
LEMMA WantingAll ==
    ASSUME Fixed, NEW s \in Srv, call.service = s, got = InService("declaration", s),
           NEW x \in got, table[x].notify
    PROVE  x + 2 <= CccdStop(x)
<1>1. got \subseteq Dcl /\ Dcl \subseteq DOMAIN table BY DEF InService, Dcl, OfKind
<1>2. x \in Nat /\ \A y \in got : y \in Nat BY <1>1, Handles DEF Fixed
<1>3. x + 2 <= ServiceStop(s) BY Inside DEF Fixed
<1> DEFINE later == {y \in got : y > x}
<1>4. CASE later = {} BY <1>3, <1>4 DEF CccdStop
<1>5. CASE later # {}
  <2>1. First(later) \in later BY <1>1, <1>5, Ends DEF Fixed
  <2> DEFINE y == First(later)
  <2>2. y \in Dcl /\ y > x /\ y \in Nat BY <1>1, <1>2, <2>1
  <2>3. x + 1 \in Val /\ x + 2 \in OfKind(table, "cccd") BY <1>1, ServiceGroups DEF Fixed
  <2>4. y # x + 1 /\ y # x + 2 BY <2>2, <2>3 DEF Dcl, Val, OfKind
  <2>5. x + 2 <= y - 1
    <3> HIDE DEF y
    <3> QED BY <1>2, <2>2, <2>4
  <2> QED BY <1>5, <2>5 DEF CccdStop
<1> QED BY <1>4, <1>5

LEMMA NextCccdInv ==
    ASSUME Fixed, Held, call.op = "characteristics", NEW d \in Dcl \cup {0}, NEW pairs,
           pairs \subseteq (DOMAIN table) \X (DOMAIN table),
           Clean => /\ got = InService("declaration", call.service)
                    /\ pairs = Pairs({x \in got : x <= d}),
           NextCccd(d, pairs), asked' = FALSE, known' = known, UNCHANGED fixed
    PROVE  Held'
<1>1. call.service \in Srv /\ got \subseteq Dcl /\ Dcl \subseteq DOMAIN table
  BY DEF Held, Shape, CallOK, Dcl, OfKind
<1>2. d \in Nat /\ \A y \in got : y \in Nat /\ 1 <= y BY <1>1, Handles DEF Fixed
<1>3. known \subseteq known' /\ known' \subseteq Srv BY DEF Held, Shape
<1>4. ASSUME Clean, NEW x \in got, table[x].notify, x > d PROVE x \in Wanting(d)
  BY <1>1, <1>4, WantingAll DEF Wanting
<1>5. CASE Wanting(d) = {}
  <2>1. Returns("ok", got, pairs, 0, 0) BY <1>5 DEF NextCccd
  <2>2. Clean => pairs = Pairs(got) BY <1>2, <1>4, <1>5 DEF Pairs
  <2>3. Clean => Right(call, "ok", got, pairs, 0) BY <2>2 DEF Right
  <2>4. "ok" \in Statuses BY DEF Statuses
  <2> QED BY <1>3, <2>1, <2>3, <2>4, ReturnsInv DEF Held
<1>6. CASE Wanting(d) # {}
  <2> DEFINE x == First(Wanting(d))
  <2>1. /\ hit' = x /\ cccds' = pairs /\ got' = got /\ props' = props
        /\ Keeps("information", x + 2, CccdStop(x))
    BY <1>6 DEF NextCccd
  <2>2. /\ phase' = "information" /\ start' = x + 2 /\ stop' = CccdStop(x) /\ clean' = Clean
        /\ call' = call /\ out' = out
    BY <2>1 DEF Keeps
  <2>3. x \in Wanting(d) /\ \A y \in Wanting(d) : x <= y
    <3>1. Wanting(d) \subseteq DOMAIN table BY <1>1 DEF Wanting
    <3> QED BY <1>6, <3>1, Ends DEF Fixed
  <2> HIDE DEF x
  <2>4. x \in got /\ x > d /\ table[x].notify /\ x + 2 <= CccdStop(x) /\ x \in Nat
    BY <1>2, <2>3 DEF Wanting
  <2>5. CccdStop(x) \in Nat
    <3> DEFINE later == {y \in got : y > x}
    <3>1. CASE later = {} BY <1>1, <3>1, ServiceGroups DEF CccdStop, Fixed
    <3>2. CASE later # {}
      <4>1. First(later) \in later BY <1>1, <3>2, Ends DEF Fixed
      <4>2. First(later) \in Nat /\ 1 <= First(later) BY <1>2, <4>1
      <4>3. First(later) - 1 \in Nat
        <5> HIDE DEF later
        <5> QED BY <4>2
      <4> QED BY <3>2, <4>3 DEF CccdStop
    <3> QED BY <3>1, <3>2
  <2>6. Shape'
    <3>1. clean' \in BOOLEAN BY <2>2 DEF Clean, Held, Shape
    <3>2. x + 2 \in Nat /\ x \in DOMAIN table BY <1>1, <2>4
    <3> QED BY <2>1, <2>2, <2>5, <3>1, <3>2, SameTable DEF Held, Shape, ReqKinds
  <2>7. CallOK' BY <1>1, <2>1, <2>2, <2>4, SameTable DEF Held, CallOK
  <2>8. SearchOK'
    <3>1. ASSUME Clean PROVE pairs = Pairs(Below(got, x))
      <4>1. \A y \in got : table[y].notify => (y <= d <=> y < x)
        <5>1. ASSUME NEW y \in got, table[y].notify, y > d PROVE x <= y
          BY <1>4, <2>3, <3>1, <5>1
        <5> QED BY <1>2, <2>4, <5>1
      <4> QED BY <3>1, <4>1 DEF Pairs, Below
    <3> QED BY <1>1, <2>1, <2>2, <2>4, <3>1, SameTable DEF SearchOK, Below
  <2>9. Results' BY <2>2, SameResults DEF Held
  <2> QED BY <2>6, <2>7, <2>8, <2>9 DEF Held
<1> QED BY <1>5, <1>6

(* The CCCD of a characteristic that notifies is the first attribute that  *)
(* the search for it asks about.                                           *)
LEMMA OwnCccd ==
    ASSUME Fixed, Held, call.op = "characteristics", phase = "information", clean,
           NEW a \in Answers(Current)
    PROVE  /\ a.kind = "information"
           /\ First({h \in a.handles : table[h].kind = "cccd"}) = hit + 2
           /\ {h \in a.handles : table[h].kind = "cccd"} # {}
           /\ got = InService("declaration", call.service)
           /\ cccds \cup {<<hit, hit + 2>>} = Pairs({x \in got : x <= hit})
<1>1. /\ got = InService("declaration", call.service)
      /\ hit \in got /\ table[hit].notify /\ start = hit + 2 /\ start <= stop
      /\ cccds = Pairs(Below(got, hit)) /\ got \subseteq Dcl
  BY DEF Held, SearchOK, CallOK
<1>2. /\ Current.kind = "information" /\ Current.start = start /\ Current.stop = stop
      /\ Current \in Requests
  BY CurrentIs DEF Held
<1>3. start \in OfKind(table, "cccd") /\ \A x \in got : x \in Nat
  <2>1. hit \in Dcl /\ Dcl \subseteq DOMAIN table BY <1>1 DEF Dcl, OfKind
  <2> QED BY <1>1, <2>1, ServiceGroups, Handles DEF Fixed
<1>4. start \in Information(Current)
  <2> DEFINE S == {h \in DOMAIN table : Current.start <= h /\ h <= Current.stop}
  <2>1. S \subseteq Nat /\ start \in Nat BY <1>1, <1>3, Handles DEF Fixed
  <2>2. start \in S BY <1>1, <1>2, <1>3, <2>1 DEF OfKind
  <2>3. Before(S, start) = {} BY <1>2, <2>1 DEF Before
  <2> QED BY <2>2, <2>3 DEF Information
<1>5. a.kind = "information" /\ a.handles = Information(Current)
  <2>1. start \in Nat /\ stop \in Nat BY DEF Held, Shape
  <2>2. Listed(Current) = Information(Current) BY <1>2 DEF Listed
  <2> QED BY <1>1, <1>2, <1>4, <2>1, <2>2, OwnList
<1> DEFINE found == {h \in a.handles : table[h].kind = "cccd"}
<1>6. start \in found /\ \A h \in found : start <= h
  <2>1. \A h \in a.handles : start <= h BY <1>2, <1>5 DEF Information
  <2> QED BY <1>3, <1>4, <1>5, <2>1 DEF OfKind
<1>7. First(found) = start
  <2>1. found \subseteq DOMAIN table /\ found \subseteq Nat
    BY <1>5, Handles DEF Information, Fixed
  <2>2. First(found) \in found /\ \A y \in found : First(found) <= y
    <3> HIDE DEF found
    <3> QED BY <1>6, <2>1, Ends DEF Fixed
  <2> DEFINE f == First(found)
  <2>3. f \in Nat /\ start \in Nat /\ f <= start /\ start <= f BY <1>6, <2>1, <2>2
  <2> HIDE DEF f
  <2>4. f = start BY <2>3
  <2> QED BY <2>4 DEF f
<1>8. Pairs({x \in got : x <= hit}) = Pairs(Below(got, hit)) \cup {<<hit, hit + 2>>}
  <2>1. \A x \in got : x <= hit <=> (x < hit \/ x = hit) BY <1>1, <1>3
  <2> QED BY <1>1, <2>1 DEF Pairs, Below
<1> QED BY <1>1, <1>5, <1>6, <1>7, <1>8

-----------------------------------------------------------------------------
(* Responses to characteristic_by_uuid().                                  *)

LEMMA FirstUnique ==
    ASSUME table \in Tables, NEW S, S \subseteq DOMAIN table, NEW m \in S, \A y \in S : m <= y
    PROVE  First(S) = m
<1>1. First(S) \in S /\ \A y \in S : First(S) <= y BY Ends
<1>2. S \subseteq Nat BY Handles
<1> DEFINE f == First(S)
<1>3. f \in Nat /\ m \in Nat /\ f <= m /\ m <= f BY <1>1, <1>2
<1> HIDE DEF f
<1>4. f = m BY <1>3
<1> QED BY <1>4 DEF f

(* The phase of the call in progress.                                      *)
LEMMA Phases ==
    ASSUME Held, call.op # "none"
    PROVE  /\ call.op \in {"services", "by_uuid", "characteristics", "characteristic", "long_read"}
           /\ call.op = "services" => phase = "groups"
           /\ call.op = "by_uuid" => phase = "of_uuid"
           /\ call.op \in {"characteristics", "characteristic"} =>
                 phase \in {"declarations", "information"}
           /\ call.op = "long_read" => phase \in {"read", "blob"}
BY DEF Held, Shape, CallOK, Ops

(* What it asks for stays in its service, and a notifying characteristic   *)
(* has its CCCD there.                                                     *)
LEMMA OneFrom ==
    ASSUME Fixed, Held, call.op = "characteristic", clean
    PROVE  LET D == InService("declaration", call.service) IN
           /\ Sought /\ call.service \in Srv /\ call.service \in Nat
           /\ D \subseteq DOMAIN table /\ D \subseteq Nat /\ D \subseteq Dcl
           /\ start \in Nat /\ stop \in Nat /\ Those(call) \subseteq D
           /\ Those(call) = WithUuid(D, call.uuid)
           /\ phase = "declarations" =>
                 {h \in Dcl : start <= h /\ h <= stop} = {h \in D : start <= h}
           /\ hit # 0 => /\ hit \in D /\ hit + 1 \in Val /\ hit + 2 \in OfKind(table, "cccd")
                         /\ hit + 2 <= ServiceStop(call.service) /\ hit + 2 \in DOMAIN table
                         /\ hit + 1 \in DOMAIN table /\ hit \in Nat
<1> DEFINE D == InService("declaration", call.service)
<1>1. Sought /\ call.service \in Srv /\ start \in Nat /\ stop \in Nat
  BY Phases DEF Held, SearchOK, CallOK, Shape
<1>2. D \subseteq DOMAIN table /\ D \subseteq Dcl /\ call.service \in DOMAIN table
  BY <1>1 DEF InService, Dcl, Srv, OfKind
<1>3. D \subseteq Nat /\ call.service \in Nat BY <1>2, Handles DEF Fixed
<1>4. Those(call) \subseteq D /\ Those(call) = WithUuid(D, call.uuid) BY DEF Those, WithUuid
<1>5. ASSUME phase = "declarations"
      PROVE  {h \in Dcl : start <= h /\ h <= stop} = {h \in D : start <= h}
  <2>1. stop = ServiceStop(call.service) /\ call.service <= start BY <1>1, <1>5 DEF Sought
  <2>2. call.service \notin Dcl BY <1>1 DEF Dcl, Srv, OfKind
  <2>3. \A h \in Dcl : h \in Nat
    <3>1. Dcl \subseteq DOMAIN table BY DEF Dcl, OfKind
    <3> QED BY <3>1, Handles DEF Fixed
  <2>4. \A h \in Dcl : (start <= h /\ h <= stop) <=> (call.service < h /\ h <= stop /\ start <= h)
    BY <1>1, <1>3, <2>1, <2>2, <2>3
  <2> QED BY <2>1, <2>4 DEF InService, Dcl
<1>6. ASSUME hit # 0
      PROVE  /\ hit \in D /\ hit + 1 \in Val /\ hit + 2 \in OfKind(table, "cccd")
             /\ hit + 2 <= ServiceStop(call.service) /\ hit + 2 \in DOMAIN table
             /\ hit + 1 \in DOMAIN table /\ hit \in Nat
  <2>1. hit \in D /\ table[hit].notify BY <1>1, <1>4, <1>6 DEF Sought, FirstOf
  <2>2. hit \in Dcl /\ hit \in Nat BY <1>2, <1>3, <2>1
  <2>3. hit + 1 \in Val /\ hit + 2 \in OfKind(table, "cccd") BY <2>1, <2>2, ServiceGroups DEF Fixed
  <2>4. hit + 2 <= ServiceStop(call.service) BY <1>1, <2>1, Inside DEF Fixed
  <2> QED BY <2>1, <2>2, <2>3, <2>4 DEF Val, OfKind
<1> QED BY <1>1, <1>2, <1>3, <1>4, <1>5, <1>6

LEMMA OwnDeclarations ==
    ASSUME Fixed, Held, call.op = "characteristic", phase = "declarations", clean,
           NEW a \in Answers(Current)
    PROVE  /\ a.kind \in {"error", phase}
           /\ a.kind = phase =>
                 InitialIn(a.handles, {h \in InService("declaration", call.service) : start <= h})
           /\ a.kind = "error" => a.code \in {"not_found", "invalid_handle"}
           /\ a.kind = "error" /\ hit # 0 => a.code = "not_found"
           /\ a.kind = "error" /\ hit = 0 => Those(call) = {}
<1> DEFINE D == InService("declaration", call.service)
<1>1. /\ Current.kind = phase /\ Current.start = start /\ Current.stop = stop
      /\ Current \in Requests
  BY CurrentIs DEF Held
<1>2. /\ Sought /\ Those(call) \subseteq D /\ D \subseteq Nat /\ D \subseteq DOMAIN table
      /\ start \in Nat /\ stop \in Nat
      /\ {h \in Dcl : start <= h /\ h <= stop} = {h \in D : start <= h}
  BY OneFrom
<1>3. InRange("declaration", Current) = {h \in Dcl : start <= h /\ h <= stop}
  BY <1>1 DEF InRange, Dcl
<1>4. Listed(Current) = Declarations(Current) BY <1>1 DEF Listed
<1>5. /\ a.kind \in {"error", phase}
      /\ a.kind = phase => a.handles = Declarations(Current)
      /\ a.kind = "error" => a.code \in {"not_found", "invalid_handle"}
      /\ a.kind = "error" /\ a.code = "invalid_handle" => start > stop
      /\ a.kind = "error" /\ a.code = "not_found" => Declarations(Current) = {}
  BY <1>1, <1>4, OwnList
<1>6. a.kind = phase => InitialIn(a.handles, {h \in D : start <= h})
  BY <1>2, <1>3, <1>5, DeclarationsInitial DEF Fixed
<1>7. a.kind = "error" /\ hit # 0 => a.code = "not_found"
  <2> SUFFICES ASSUME a.kind = "error", hit # 0, a.code = "invalid_handle" PROVE FALSE BY <1>5
  <2>1. start = hit + 2 /\ stop = ServiceStop(call.service) BY <1>2 DEF Sought
  <2>2. hit + 2 <= ServiceStop(call.service) BY OneFrom
  <2> QED BY <1>2, <1>5, <2>1, <2>2
<1>8. a.kind = "error" /\ hit = 0 => Those(call) = {}
  <2> SUFFICES ASSUME a.kind = "error", hit = 0, NEW d \in Those(call) PROVE FALSE OBVIOUS
  <2>1. start <= d /\ d \in D /\ d \in Nat BY <1>2 DEF Sought
  <2>2. d \in {h \in Dcl : start <= h /\ h <= stop} BY <1>2, <2>1
  <2>3. start <= stop BY <1>2, <2>1, <2>2
  <2>4. a.code = "not_found" BY <1>2, <1>5, <2>3
  <2>5. InRange("declaration", Current) = {} BY <1>5, <2>4, NothingListed
  <2> QED BY <1>3, <2>2, <2>5
<1> QED BY <1>5, <1>6, <1>7, <1>8

(* Those it looks for are past a list that has none of them, and the first *)
(* of a list that has some is the first of all.                            *)
LEMMA FirstMatch ==
    ASSUME Fixed, Held, call.op = "characteristic", phase = "declarations", clean, hit = 0,
           NEW a \in Answers(Current), a.kind = phase, a.handles # {}
    PROVE  LET match == {h \in a.handles : table[h].uuid = call.uuid} IN
           /\ match = {} => /\ \A x \in Those(call) : Final(a.handles) + 2 <= x
                            /\ call.service <= Final(a.handles) + 2
           /\ match # {} => FirstOf(Those(call), First(match))
<1> DEFINE D     == InService("declaration", call.service)
           match == {h \in a.handles : table[h].uuid = call.uuid}
           last  == Final(a.handles)
           T     == Those(call)
<1>1. /\ Sought /\ D \subseteq Nat /\ D \subseteq DOMAIN table /\ D \subseteq Dcl
      /\ T \subseteq D /\ T = WithUuid(D, call.uuid) /\ call.service \in Nat /\ start \in Nat
  BY OneFrom
<1>2. InitialIn(a.handles, {h \in D : start <= h}) BY OwnDeclarations
<1>3. a.handles \subseteq D /\ \A h \in a.handles : start <= h BY <1>2 DEF InitialIn
<1>4. \A x \in T : start <= x /\ x \in D /\ x \in Nat /\ table[x].uuid = call.uuid
  BY <1>1 DEF Sought, WithUuid
<1>5. call.service <= start BY <1>1 DEF Sought
<1>6. last \in a.handles /\ \A y \in a.handles : y <= last
  <2>1. a.handles \subseteq DOMAIN table BY <1>1, <1>3
  <2> QED BY <2>1, Ends DEF Fixed
<1> HIDE DEF D, T, last
<1>7. last \in Nat /\ last + 1 \in Val /\ start <= last
  <2>1. last \in Dcl /\ last \in Nat /\ start <= last BY <1>1, <1>3, <1>6
  <2> QED BY <2>1, ServiceGroups DEF Fixed
<1>8. ASSUME NEW x \in T, NEW h \in a.handles, x <= h PROVE x \in match
  <2>1. h \in Nat /\ x \in Nat /\ x <= h BY <1>1, <1>3, <1>4, <1>8
  <2>2. x = h \/ x < h BY <2>1
  <2>3. x \in {y \in D : start <= y} BY <1>4
  <2>4. x \in a.handles BY <1>2, <1>8, <2>2, <2>3 DEF InitialIn
  <2> QED BY <1>4, <2>4
<1>9. ASSUME match = {} PROVE (\A x \in T : last + 2 <= x) /\ call.service <= last + 2
  <2>1. ASSUME NEW x \in T PROVE last + 2 <= x
    <3>1. x \in Nat /\ ~ (x <= last) BY <1>4, <1>6, <1>8, <1>9, <2>1
    <3>2. x # last + 1
      <4>1. x \in Dcl BY <1>1, <2>1
      <4> QED BY <1>7, <4>1 DEF Dcl, Val, OfKind
    <3> QED BY <1>7, <3>1, <3>2
  <2> QED BY <1>1, <1>5, <1>7, <2>1
<1>10. ASSUME match # {} PROVE FirstOf(T, First(match))
  <2> DEFINE d == First(match)
  <2>1. match \subseteq DOMAIN table BY <1>1, <1>3
  <2>2. d \in match /\ \A y \in match : d <= y
    <3> HIDE DEF match
    <3> QED BY <1>10, <2>1, Ends DEF Fixed
  <2> HIDE DEF d
  <2>3. d \in a.handles /\ d \in D /\ d \in Nat /\ d \in T
    <3>1. d \in a.handles /\ table[d].uuid = call.uuid BY <2>2
    <3> QED BY <1>1, <1>3, <3>1 DEF WithUuid
  <2>4. ASSUME NEW x \in T PROVE d <= x
    <3>1. x \in Nat BY <1>4
    <3>2. x <= d => x \in match BY <1>8, <2>3
    <3>3. x <= d => d <= x BY <2>2, <3>2
    <3> QED BY <2>3, <3>1, <3>3
  <2>5. FirstOf(T, d) BY <2>3, <2>4 DEF FirstOf
  <2> QED BY <2>5 DEF d
<1>11. /\ match = {} => (\A x \in T : last + 2 <= x) /\ call.service <= last + 2
       /\ match # {} => FirstOf(T, First(match))
  BY <1>9, <1>10
<1> QED BY <1>11 DEF T, last

(* The search for the CCCD asks about the value too, whose type may be of  *)
(* the same width or not.                                                  *)
LEMMA OwnInformation ==
    ASSUME Fixed, Held, call.op = "characteristic", phase = "information", clean,
           NEW a \in Answers(Current)
    PROVE  LET found == {h \in a.handles : table[h].kind = "cccd"} IN
           /\ a.kind = "information"
           /\ found # {} => First(found) = hit + 2
           /\ found = {} => start = hit + 1 /\ Final(a.handles) = hit + 1
<1> DEFINE found == {h \in a.handles : table[h].kind = "cccd"}
           S == {h \in DOMAIN table : start <= h /\ h <= stop}
<1>1. /\ Current.kind = "information" /\ Current.start = start /\ Current.stop = stop
      /\ Current \in Requests
  BY CurrentIs DEF Held
<1>2. Sought /\ start \in Nat /\ stop \in Nat BY OneFrom
<1>3. hit # 0 /\ hit + 1 <= start /\ start <= hit + 2 /\ hit + 2 <= stop BY <1>2 DEF Sought
<1>4. /\ hit + 1 \in Val /\ hit + 2 \in OfKind(table, "cccd") /\ hit \in Nat
      /\ hit + 1 \in DOMAIN table /\ hit + 2 \in DOMAIN table
  BY <1>3, OneFrom
<1>5. start = hit + 1 \/ start = hit + 2 BY <1>2, <1>3, <1>4
<1>6. /\ S \subseteq DOMAIN table /\ S \subseteq Nat /\ start \in S /\ hit + 2 \in S
  <2>1. S \subseteq DOMAIN table OBVIOUS
  <2>2. S \subseteq Nat BY <2>1, Handles DEF Fixed
  <2>3. start \in DOMAIN table /\ start <= stop BY <1>2, <1>3, <1>4, <1>5
  <2> QED BY <1>2, <1>3, <1>4, <2>1, <2>2, <2>3
<1>7. Information(Current) = {h \in S : \A x \in Before(S, h) : TypeWidth(x) = TypeWidth(h)}
  BY <1>1 DEF Information
<1> HIDE DEF S
<1>8. Before(S, start) = {} /\ start \in Information(Current)
  <2>1. \A x \in S : start <= x BY DEF S
  <2>2. Before(S, start) = {} BY <1>2, <1>6, <2>1 DEF Before
  <2> QED BY <1>6, <1>7, <2>2
<1>9. a.kind = "information" /\ a.handles = Information(Current)
  <2>1. Listed(Current) = Information(Current) BY <1>1 DEF Listed
  <2>2. start <= stop BY <1>2, <1>3, <1>4, <1>5
  <2> QED BY <1>1, <1>2, <1>8, <2>1, <2>2, OwnList
<1>10. found \subseteq DOMAIN table /\ \A h \in found : h \in Nat /\ start <= h /\ h # hit + 1
  <2>1. \A h \in a.handles : h \in DOMAIN table /\ h \in Nat /\ start <= h BY <1>6, <1>7, <1>9 DEF S
  <2>2. \A h \in found : h # hit + 1 BY <1>4 DEF Val, OfKind
  <2> QED BY <2>1, <2>2
<1>11. \A h \in found : hit + 2 <= h BY <1>2, <1>3, <1>4, <1>10
<1>12. CASE hit + 2 \in a.handles
  <2>1. hit + 2 \in found BY <1>4, <1>12 DEF OfKind
  <2>2. First(found) = hit + 2
    <3> HIDE DEF found
    <3> QED BY <1>10, <1>11, <2>1, FirstUnique DEF Fixed
  <2> QED BY <1>9, <2>1, <2>2
<1>13. CASE hit + 2 \notin a.handles
  <2>1. start = hit + 1 BY <1>5, <1>8, <1>9, <1>13
  <2>2. ASSUME NEW h \in a.handles PROVE h = hit + 1
    <3>1. h \in S /\ h \in Nat /\ start <= h /\ h # hit + 2 BY <1>6, <1>7, <1>9, <1>13, <2>2 DEF S
    <3>2. SUFFICES ASSUME h > hit + 2 PROVE FALSE BY <1>4, <2>1, <3>1
    <3>3. \A x \in Before(S, h) : TypeWidth(x) = TypeWidth(h) BY <1>7, <1>9, <2>2
    <3>4. hit + 2 \in Before(S, h) BY <1>4, <1>6, <3>1, <3>2 DEF Before
    <3>5. Before(S, hit + 2) \subseteq Before(S, h) BY <1>4, <1>6, <3>1, <3>2 DEF Before
    <3>6. \A x \in Before(S, hit + 2) : TypeWidth(x) = TypeWidth(hit + 2) BY <3>3, <3>4, <3>5
    <3>7. hit + 2 \in Information(Current) BY <1>6, <1>7, <3>6
    <3> QED BY <1>9, <1>13, <3>7
  <2>3. a.handles = {hit + 1} BY <1>8, <1>9, <2>1, <2>2
  <2>4. found = {} BY <1>4, <2>3 DEF Val, OfKind
  <2>5. Final(a.handles) = hit + 1
    <3>1. Final({hit + 1}) = hit + 1
      <4>1. {hit + 1} \subseteq DOMAIN table BY <1>4
      <4> QED BY <4>1, Ends DEF Fixed
    <3> QED BY <2>3, <3>1
  <2> QED BY <1>9, <2>1, <2>4, <2>5
<1> QED BY <1>12, <1>13

(* characteristic_by_uuid() goes on.                                       *)
LEMMA GoesOn ==
    ASSUME Fixed, Held, call.op = "characteristic", NEW p \in {"declarations", "information"},
           NEW from \in Nat, NEW to \in Nat, Keeps(p, from, to), got' = got, cccds' = cccds,
           Clean => Sought',
           hit' \in Dcl \cup {0}, p = "information" => hit' \in Dcl,
           props' \in (DOMAIN table) \cup {0}, asked' = FALSE, known' = known, UNCHANGED fixed
    PROVE  Held'
<1>1. phase' = p /\ start' = from /\ stop' = to /\ clean' = Clean /\ call' = call /\ out' = out
  BY DEF Keeps
<1>2. Shape'
  <2>1. clean' \in BOOLEAN BY <1>1 DEF Clean, Held, Shape
  <2>2. hit' \in (DOMAIN table) \cup {0} BY DEF Dcl, OfKind
  <2> QED BY <1>1, <2>1, <2>2, SameTable DEF Held, Shape, ReqKinds
<1>3. CallOK' BY <1>1, SameTable DEF Held, CallOK
<1>4. SearchOK' BY <1>1 DEF SearchOK
<1>5. Results' BY <1>1, SameResults DEF Held
<1> QED BY <1>2, <1>3, <1>4, <1>5 DEF Held

LEMMA RightIfOne ==
    ASSUME NEW status, NEW found, NEW pairs, NEW n, call.op = "characteristic",
           RightOne(call, status, found, pairs)
    PROVE  Right(call, status, found, pairs, n)
BY DEF Right

LEMMA CharacteristicReturns ==
    ASSUME Fixed, Held, call.op = "characteristic", NEW status \in Statuses, NEW found, NEW pairs,
           NEW owner, NEW n, Returns(status, found, pairs, owner, n),
           Clean => RightOne(call, status, found, pairs),
           asked' = FALSE, known' = known, UNCHANGED fixed
    PROVE  Held'
<1>1. known \subseteq known' /\ known' \subseteq Srv BY DEF Held, Shape
<1>2. Clean => Right(call, status, found, pairs, n) BY RightIfOne
<1> QED BY <1>1, <1>2, ReturnsInv DEF Held

(* A call fails; characteristic_by_uuid() may, of its own responses, when  *)
(* there is nothing to find.                                               *)
LEMMA ErrorInv ==
    ASSUME Fixed, Held, NEW status \in Statuses, Fails(status), call.op # "none",
           Clean => call.op = "characteristic" /\ RightOne(call, status, {}, {}),
           asked' = FALSE, known' = known, UNCHANGED fixed
    PROVE  Held'
<1>1. known \subseteq known' /\ known' \subseteq Srv BY DEF Held, Shape
<1>2. Clean => Right(call, status, {}, {}, 0) BY RightIfOne
<1> QED BY <1>1, <1>2, FailsInv DEF Held

(* It begins to look for the CCCD of x, in a range that holds it.          *)
LEMMA SearchFromInv ==
    ASSUME Fixed, Held, call.op = "characteristic", NEW x \in Dcl, NEW n \in Dcl, NEW to \in Nat,
           SearchFrom(x, n, to),
           Clean => FirstOf(Those(call), x) /\ table[x].notify /\ x + 2 <= to,
           asked' = FALSE, known' = known, UNCHANGED fixed
    PROVE  Held'
<1>1. x \in Nat /\ x # 0 /\ n \in DOMAIN table
  <2>1. x \in DOMAIN table /\ n \in DOMAIN table BY DEF Dcl, OfKind
  <2> QED BY <2>1, Handles DEF Fixed
<1>2. CASE x + 1 > to
  <2>1. Fails("not_found") BY <1>2 DEF SearchFrom
  <2>2. ~ Clean
    <3> SUFFICES ASSUME x + 2 <= to PROVE FALSE OBVIOUS
    <3> QED BY <1>1, <1>2
  <2>3. "not_found" \in Statuses BY DEF Statuses
  <2> QED BY <2>1, <2>2, <2>3, ErrorInv
<1>3. CASE ~ (x + 1 > to)
  <2>1. /\ hit' = x /\ props' = n /\ Keeps("information", x + 1, to)
        /\ got' = got /\ cccds' = cccds
    BY <1>3 DEF SearchFrom
  <2>2. phase' = "information" /\ start' = x + 1 /\ stop' = to /\ call' = call
    BY <2>1 DEF Keeps
  <2>3. ASSUME Clean PROVE Sought'
    <3>1. cccds = {} BY <2>3 DEF Held, SearchOK, Sought, Clean
    <3>2. Those(call)' = Those(call) /\ table' = table BY <2>2, SameThose DEF fixed
    <3>3. x + 1 <= x + 1 /\ x + 1 <= x + 2 BY <1>1
    <3> QED BY <1>1, <2>1, <2>2, <2>3, <3>1, <3>2, <3>3 DEF Sought, FirstOf
  <2>4. x + 1 \in Nat BY <1>1
  <2> QED BY <1>1, <2>1, <2>3, <2>4, GoesOn
<1> QED BY <1>2, <1>3

LEMMA CharacteristicTakenInv ==
    ASSUME Fixed, Held, NEW a \in Responses, Clean => a \in Answers(Current),
           a.kind = phase, phase = "declarations",
           call.op = "characteristic", CharacteristicTaken(a),
           asked' = FALSE, known' = known, UNCHANGED fixed
    PROVE  Held'
<1> DEFINE first == First(a.handles)
           match == {h \in a.handles : table[h].uuid = call.uuid}
           d     == First(match)
           after == {h \in a.handles : h > d}
<1>1. a.handles \subseteq Dcl /\ a.handles # {} /\ Dcl \subseteq DOMAIN table
  BY DEF Responses, Dcl, OfKind
<1>2. hit \in Dcl \cup {0} /\ stop \in Nat /\ props \in (DOMAIN table) \cup {0}
  BY DEF Held, Shape, CallOK
<1>3. \A S : S \subseteq a.handles /\ S # {} => First(S) \in S /\ Final(S) \in S
  BY <1>1, Ends DEF Fixed
<1>4. \A h \in Dcl : h \in Nat BY <1>1, Handles DEF Fixed
<1>5. match \subseteq a.handles /\ after \subseteq a.handles OBVIOUS
<1>6. match # {} => d \in Dcl BY <1>1, <1>3, <1>5
<1>7. after # {} => First(after) \in Dcl /\ First(after) > d
  <2> SUFFICES ASSUME after # {} PROVE First(after) \in Dcl /\ First(after) > d OBVIOUS
  <2>1. First(after) \in after BY <1>3, <1>5
  <2>2. \A h \in after : h \in Dcl /\ h > d BY <1>1
  <2> HIDE DEF after, d
  <2> QED BY <2>1, <2>2
<1>8. first \in Dcl /\ Final(a.handles) \in Dcl BY <1>1, <1>3
<1>9. Clean => clean /\ a \in Answers(Current) BY DEF Clean
<1>10. \/ hit # 0 /\ SearchFrom(hit, first, first + 1)
       \/ /\ hit = 0 /\ match = {}
          /\ Keeps(phase, Final(a.handles) + 2, stop)
          /\ UNCHANGED <<got, cccds, hit, props>>
       \/ /\ hit = 0 /\ match # {} /\ ~ table[d].notify
          /\ Returns("ok", {d}, {}, d, 0)
       \/ /\ hit = 0 /\ match # {} /\ table[d].notify /\ after # {}
          /\ SearchFrom(d, First(after), First(after) + 1)
       \/ /\ hit = 0 /\ match # {} /\ table[d].notify /\ after = {}
          /\ hit' = d /\ Keeps(phase, d + 2, stop)
          /\ UNCHANGED <<got, cccds, props>>
  BY DEF CharacteristicTaken
<1>16. ASSUME Clean, hit = 0
       PROVE  /\ match = {} => /\ \A x \in Those(call) : Final(a.handles) + 2 <= x
                               /\ call.service <= Final(a.handles) + 2
              /\ match # {} => FirstOf(Those(call), d)
  BY <1>1, <1>9, <1>16, FirstMatch
<1>17. ASSUME Clean
       PROVE  /\ cccds = {} /\ stop = ServiceStop(call.service) /\ call.service <= start
              /\ hit # 0 => /\ FirstOf(Those(call), hit) /\ table[hit].notify /\ start = hit + 2
                            /\ start <= first
              /\ start \in Nat /\ call.service \in Nat
  <2>1. Sought /\ start \in Nat /\ call.service \in Nat BY <1>9, <1>17, OneFrom
  <2>2. InitialIn(a.handles, {h \in InService("declaration", call.service) : start <= h})
    BY <1>9, <1>17, OwnDeclarations
  <2>3. first \in a.handles BY <1>1, <1>3
  <2>4. start <= first BY <2>2, <2>3 DEF InitialIn
  <2> QED BY <2>1, <2>4 DEF Sought
<1> HIDE DEF first, match, d, after
<1>11. CASE hit # 0 /\ SearchFrom(hit, first, first + 1)
  <2>1. first \in Nat /\ first + 1 \in Nat /\ hit \in Dcl /\ hit \in Nat BY <1>2, <1>4, <1>8, <1>11
  <2>2. Clean => FirstOf(Those(call), hit) /\ table[hit].notify /\ hit + 2 <= first + 1
    BY <1>11, <1>17, <2>1
  <2> QED BY <1>8, <1>11, <2>1, <2>2, SearchFromInv
<1>12. CASE /\ hit = 0 /\ match = {}
            /\ Keeps(phase, Final(a.handles) + 2, stop)
            /\ UNCHANGED <<got, cccds, hit, props>>
  <2>1. Final(a.handles) + 2 \in Nat BY <1>4, <1>8
  <2>2. phase' = phase /\ start' = Final(a.handles) + 2 /\ stop' = stop /\ call' = call
    BY <1>12 DEF Keeps
  <2>3. Those(call)' = Those(call) /\ ServiceStop(call.service)' = ServiceStop(call.service)
    BY <2>2, SameThose, SameTable
  <2>4. ASSUME Clean PROVE Sought'
    BY <1>12, <1>16, <1>17, <2>2, <2>3, <2>4 DEF Sought
  <2> QED BY <1>2, <1>12, <2>1, <2>4, GoesOn
<1>13. CASE /\ hit = 0 /\ match # {} /\ ~ table[d].notify
            /\ Returns("ok", {d}, {}, d, 0)
  <2>1. Pairs({d}) = {} BY <1>13 DEF Pairs
  <2>2. Clean => RightOne(call, "ok", {d}, {}) BY <1>13, <1>16, <2>1 DEF RightOne, FirstOf
  <2>3. "ok" \in Statuses BY DEF Statuses
  <2> QED BY <1>13, <2>2, <2>3, CharacteristicReturns
<1>14. CASE /\ hit = 0 /\ match # {} /\ table[d].notify /\ after # {}
            /\ SearchFrom(d, First(after), First(after) + 1)
  <2> DEFINE n == First(after)
  <2>1. n \in Dcl /\ n > d /\ d \in Dcl BY <1>6, <1>7, <1>14
  <2> HIDE DEF n
  <2>2. n \in Nat /\ d \in Nat /\ n + 1 \in Nat /\ d + 2 <= n + 1 BY <1>4, <2>1
  <2>3. Clean => FirstOf(Those(call), d) /\ table[d].notify /\ d + 2 <= n + 1
    BY <1>14, <1>16, <2>2
  <2>4. SearchFrom(d, n, n + 1) BY <1>14 DEF n
  <2> QED BY <2>1, <2>2, <2>3, <2>4, SearchFromInv
<1>15. CASE /\ hit = 0 /\ match # {} /\ table[d].notify /\ after = {}
            /\ hit' = d /\ Keeps(phase, d + 2, stop)
            /\ UNCHANGED <<got, cccds, props>>
  <2>1. d \in Dcl /\ d \in Nat /\ d + 2 \in Nat /\ d # 0
    <3>1. d \in Dcl /\ d \in DOMAIN table BY <1>1, <1>6, <1>15
    <3> QED BY <1>4, <3>1, Handles DEF Fixed
  <2>2. phase' = phase /\ start' = d + 2 /\ stop' = stop /\ call' = call
    BY <1>15 DEF Keeps
  <2>3. Those(call)' = Those(call) /\ ServiceStop(call.service)' = ServiceStop(call.service)
        /\ table' = table
    BY <2>2, SameThose, SameTable
  <2>4. ASSUME Clean PROVE Sought'
    <3>1. FirstOf(Those(call), d) BY <1>15, <1>16, <2>4
    <3>2. d \in InService("declaration", call.service) BY <3>1 DEF FirstOf, Those, WithUuid
    <3>3. call.service <= d + 2
      <4>1. call.service < d BY <3>2 DEF InService
      <4> QED BY <1>17, <2>1, <2>4, <4>1
    <3> QED BY <1>15, <1>17, <2>1, <2>2, <2>3, <2>4, <3>1, <3>3 DEF Sought, FirstOf
  <2> QED BY <1>2, <1>15, <2>1, <2>4, GoesOn
<1> QED BY <1>10, <1>11, <1>12, <1>13, <1>14, <1>15

LEMMA InformationTakenInv ==
    ASSUME Fixed, Held, NEW a \in Responses, Clean => a \in Answers(Current),
           a.kind = phase, phase = "information", InformationTaken(a),
           asked' = FALSE, known' = known, UNCHANGED fixed
    PROVE  Held'
<1> DEFINE found == {h \in a.handles : table[h].kind = "cccd"}
           pair  == cccds \cup {<<hit, First(found)>>}
<1>1. call.op \in {"characteristics", "characteristic"} /\ hit \in Dcl /\ stop \in Nat
  BY DEF Held, Shape, CallOK, Ops
<1>2. a.handles # {} /\ a.handles \subseteq DOMAIN table /\ Dcl \subseteq DOMAIN table
  BY DEF Responses, Dcl, OfKind
<1>3. cccds \subseteq (DOMAIN table) \X (DOMAIN table) /\ props \in (DOMAIN table) \cup {0}
  BY DEF Held, Shape
<1>4. Final(a.handles) + 1 \in Nat
  <2>1. Final(a.handles) \in a.handles BY <1>2, Ends DEF Fixed
  <2> QED BY <1>2, <2>1, Handles DEF Fixed
<1>5. found # {} => First(found) \in DOMAIN table
  <2>1. found \subseteq DOMAIN table BY <1>2
  <2> HIDE DEF found
  <2> QED BY <2>1, Ends DEF Fixed
<1>6. found # {} => pair \subseteq (DOMAIN table) \X (DOMAIN table)
  <2> DEFINE f == First(found)
  <2>1. hit \in DOMAIN table BY <1>1, <1>2
  <2>2. found # {} => f \in DOMAIN table BY <1>5
  <2> HIDE DEF f, found
  <2>3. found # {} => cccds \cup {<<hit, f>>} \subseteq (DOMAIN table) \X (DOMAIN table)
    BY <1>3, <2>1, <2>2
  <2> QED BY <2>3 DEF f
<1>7. Clean /\ call.op = "characteristics" =>
         /\ found # {}
         /\ got = InService("declaration", call.service) /\ pair = Pairs({x \in got : x <= hit})
  BY OwnCccd DEF Clean
<1>8. \/ found # {} /\ call.op = "characteristics" /\ NextCccd(hit, pair)
      \/ found # {} /\ call.op # "characteristics" /\ Returns("ok", {hit}, pair, props, 0)
      \/ /\ found = {} /\ Final(a.handles) < stop
         /\ Keeps(phase, Final(a.handles) + 1, stop)
         /\ UNCHANGED <<got, cccds, hit, props>>
      \/ found = {} /\ call.op = "characteristics" /\ NextCccd(hit, cccds)
      \/ /\ found = {} /\ Final(a.handles) >= stop
         /\ call.op # "characteristics" /\ Fails("not_found")
  BY DEF InformationTaken
<1>14. ASSUME Clean, call.op = "characteristic"
       PROVE  /\ found # {} => First(found) = hit + 2 /\ pair = {<<hit, hit + 2>>}
              /\ found = {} => start = hit + 1 /\ Final(a.handles) = hit + 1
  <2>1. clean /\ a \in Answers(Current) BY <1>14 DEF Clean
  <2>2. /\ found # {} => First(found) = hit + 2
        /\ found = {} => start = hit + 1 /\ Final(a.handles) = hit + 1
    BY <1>14, <2>1, OwnInformation
  <2>3. cccds = {} BY <1>14, <2>1, OneFrom DEF Sought
  <2> QED BY <2>2, <2>3
<1>15. ASSUME Clean, call.op = "characteristic"
       PROVE  /\ FirstOf(Those(call), hit) /\ table[hit].notify /\ hit # 0 /\ hit \in Nat
              /\ hit + 2 <= stop /\ cccds = {}
  <2>1. clean BY <1>15 DEF Clean
  <2>2. Sought BY <1>15, <2>1, OneFrom
  <2>3. hit # 0 BY <2>2 DEF Sought
  <2>4. hit \in Nat BY <1>15, <2>1, <2>3, OneFrom
  <2> QED BY <2>2, <2>3, <2>4 DEF Sought
<1> HIDE DEF found, pair
<1>9. CASE found # {} /\ call.op = "characteristics" /\ NextCccd(hit, pair)
  BY <1>1, <1>6, <1>7, <1>9, NextCccdInv
<1>10. CASE found # {} /\ call.op # "characteristics" /\ Returns("ok", {hit}, pair, props, 0)
  <2>1. call.op = "characteristic" /\ "ok" \in Statuses BY <1>1, <1>10 DEF Statuses
  <2>2. ASSUME Clean PROVE RightOne(call, "ok", {hit}, pair)
    <3>1. pair = Pairs({hit}) BY <1>10, <1>14, <1>15, <2>1, <2>2 DEF Pairs
    <3> QED BY <1>15, <2>1, <2>2, <3>1 DEF RightOne, FirstOf
  <2> QED BY <1>10, <2>1, <2>2, CharacteristicReturns
<1>11. CASE /\ found = {} /\ Final(a.handles) < stop
            /\ Keeps(phase, Final(a.handles) + 1, stop)
            /\ UNCHANGED <<got, cccds, hit, props>>
  <2>1. CASE call.op = "characteristic"
    <3>1. phase' = phase /\ start' = Final(a.handles) + 1 /\ stop' = stop /\ call' = call
      BY <1>11 DEF Keeps
    <3>2. Those(call)' = Those(call) /\ table' = table BY <3>1, SameThose DEF fixed
    <3>3. ASSUME Clean PROVE Sought'
      <4>1. start' = hit + 2 /\ hit + 1 <= start' /\ start' <= hit + 2
        BY <1>11, <1>14, <1>15, <2>1, <3>1, <3>3
      <4> QED BY <1>11, <1>15, <2>1, <3>1, <3>2, <3>3, <4>1 DEF Sought, FirstOf
    <3> QED BY <1>1, <1>3, <1>4, <1>11, <2>1, <3>3, GoesOn
  <2>2. CASE call.op = "characteristics"
    <3>1. /\ phase' = phase /\ start' = Final(a.handles) + 1 /\ stop' = stop /\ clean' = Clean
          /\ call' = call /\ out' = out
      BY <1>11 DEF Keeps
    <3>2. clean' = FALSE BY <1>7, <1>11, <2>2, <3>1 DEF Clean, Held, Shape
    <3>3. Shape' BY <1>4, <1>11, <3>1, <3>2, SameTable DEF Held, Shape
    <3>4. CallOK' BY <1>11, <3>1, SameTable DEF Held, CallOK
    <3>5. SearchOK' BY <3>2 DEF SearchOK
    <3>6. Results' BY <3>1, SameResults DEF Held
    <3> QED BY <3>3, <3>4, <3>5, <3>6 DEF Held
  <2> QED BY <1>1, <2>1, <2>2
<1>12. CASE found = {} /\ call.op = "characteristics" /\ NextCccd(hit, cccds)
  BY <1>1, <1>3, <1>7, <1>12, NextCccdInv
<1>13. CASE /\ found = {} /\ Final(a.handles) >= stop
            /\ call.op # "characteristics" /\ Fails("not_found")
  <2>1. call.op = "characteristic" /\ "not_found" \in Statuses BY <1>1, <1>13 DEF Statuses
  <2>2. ~ Clean
    <3> SUFFICES ASSUME Clean PROVE FALSE OBVIOUS
    <3>1. hit + 1 >= stop /\ hit + 2 <= stop /\ hit \in Nat BY <1>13, <1>14, <1>15, <2>1
    <3> QED BY <1>1, <3>1
  <2> QED BY <1>13, <2>1, <2>2, ErrorInv
<1> QED BY <1>8, <1>9, <1>10, <1>11, <1>12, <1>13

-----------------------------------------------------------------------------
(* Responses to a long read.                                               *)

LEMMA ReadStep ==
    ASSUME Fixed, Held, call.op = "long_read", NEW n \in Nat, n <= call.dest,
           Keeps("blob", n, stop), Clean => n <= table[call.value].len,
           UNCHANGED <<got, cccds, hit, props>>,
           asked' = FALSE, known' = known, UNCHANGED fixed
    PROVE  Held'
<1>1. phase' = "blob" /\ start' = n /\ stop' = stop /\ clean' = Clean /\ call' = call /\ out' = out
  BY DEF Keeps
<1>2. Shape'
  <2>1. clean' \in BOOLEAN BY <1>1 DEF Clean, Held, Shape
  <2> QED BY <1>1, <2>1, SameTable DEF Held, Shape, ReqKinds
<1>3. CallOK' BY <1>1, SameTable DEF Held, CallOK
<1>4. SearchOK' BY <1>1, SameTable DEF SearchOK
<1>5. Results' BY <1>1, SameResults DEF Held
<1> QED BY <1>2, <1>3, <1>4, <1>5 DEF Held

LEMMA ReadReturns ==
    ASSUME Fixed, Held, call.op = "long_read", NEW n,
           Clean => n = Least(table[call.value].len, call.dest),
           Returns("ok", {}, {}, 0, n), asked' = FALSE, known' = known, UNCHANGED fixed
    PROVE  Held'
<1>1. known \subseteq known' /\ known' \subseteq Srv BY DEF Held, Shape
<1>2. Clean => Right(call, "ok", {}, {}, n) BY DEF Right
<1>3. "ok" \in Statuses BY DEF Statuses
<1> QED BY <1>1, <1>2, <1>3, ReturnsInv DEF Held

(* A response to a read has what the value has from there on, or the MTU.  *)
LEMMA OwnValue ==
    ASSUME Fixed, Held, call.op = "long_read", clean, NEW a \in Answers(Current)
    PROVE  /\ a.kind = phase /\ a.n = Least(table[call.value].len - start, mtu - 1)
           /\ start <= table[call.value].len
           /\ phase = "read" => start = 0
<1>1. /\ phase \in {"read", "blob"} /\ stop = call.value
      /\ start <= table[call.value].len /\ (phase = "read" => start = 0)
  BY DEF Held, CallOK, SearchOK
<1>2. /\ Current \in Requests
      /\ Current.kind = phase /\ Current.start = start /\ Current.stop = stop
  BY CurrentIs DEF Held
<1> QED BY <1>1, <1>2, OwnRead

LEMMA Lengths ==
    ASSUME Fixed, Held, call.op = "long_read"
    PROVE  /\ table[call.value].len \in Nat /\ call.dest \in Nat /\ start \in Nat
           /\ start <= call.dest /\ mtu \in Nat /\ mtu >= 23
           /\ phase \in {"read", "blob"} /\ stop = call.value
<1>1. call.value \in Val /\ call.dest \in Nat /\ start \in Nat /\ start <= call.dest
      /\ phase \in {"read", "blob"} /\ stop = call.value
  BY DEF Held, Shape, CallOK
<1>2. table[call.value].len \in Nat BY <1>1, Handles DEF Val, OfKind, Attribute, Fixed
<1>3. mtu \in Nat /\ mtu >= 23 BY SizesAssumption DEF Fixed
<1> QED BY <1>1, <1>2, <1>3

LEMMA ReadTakenInv ==
    ASSUME Fixed, Held, NEW a \in Responses, Clean => a \in Answers(Current),
           call.op = "long_read", phase = "read", ReadTaken(a),
           asked' = FALSE, known' = known, UNCHANGED fixed
    PROVE  Held'
<1> DEFINE n == Least(a.n, call.dest) l == table[call.value].len dest == call.dest
<1>1. l \in Nat /\ dest \in Nat /\ mtu \in Nat /\ mtu >= 23 BY Lengths
<1>2. a.n \in Nat BY DEF Responses
<1>3. Clean => a.n = Least(l, mtu - 1)
  <2>1. Clean => a.n = Least(l - 0, mtu - 1) BY OwnValue DEF Clean
  <2> HIDE DEF l
  <2> QED BY <1>1, <2>1
<1>4. \/ n # mtu - 1 /\ Returns("ok", {}, {}, 0, n)
      \/ n = mtu - 1 /\ Keeps("blob", n, stop) /\ UNCHANGED <<got, cccds, hit, props>>
  BY DEF ReadTaken
<1>5. n \in Nat /\ n <= dest BY <1>1, <1>2 DEF Least
<1>6. Clean /\ n # mtu - 1 => n = Least(l, dest)
  <2> HIDE DEF l
  <2>1. ASSUME Clean, n # mtu - 1 PROVE n = Least(l, dest)
    <3>1. CASE l <= mtu - 1 BY <1>1, <1>3, <2>1, <3>1 DEF Least
    <3>2. CASE l > mtu - 1 BY <1>1, <1>3, <2>1, <3>2 DEF Least
    <3> QED BY <1>1, <3>1, <3>2
  <2> QED BY <2>1
<1>7. Clean /\ n = mtu - 1 => n <= l
  <2> HIDE DEF l
  <2> QED BY <1>1, <1>2, <1>3 DEF Least
<1> HIDE DEF n
<1> QED BY <1>4, <1>5, <1>6, <1>7, ReadReturns, ReadStep

LEMMA BlobTakenInv ==
    ASSUME Fixed, Held, NEW a \in Responses, Clean => a \in Answers(Current),
           call.op = "long_read", phase = "blob", BlobTaken(a),
           asked' = FALSE, known' = known, UNCHANGED fixed
    PROVE  Held'
<1> DEFINE n == Least(a.n, call.dest - start) l == table[call.value].len dest == call.dest
<1>1. /\ l \in Nat /\ dest \in Nat /\ mtu \in Nat /\ mtu >= 23 /\ start \in Nat /\ start <= dest
  BY Lengths
<1>2. a.n \in Nat BY DEF Responses
<1>3. Clean => a.n = Least(l - start, mtu - 1) /\ start <= l BY OwnValue DEF Clean
<1>4. \/ (a.n < mtu - 1 \/ n < a.n) /\ Returns("ok", {}, {}, 0, start + n)
      \/ ~ (a.n < mtu - 1 \/ n < a.n)
         /\ Keeps("blob", start + n, stop) /\ UNCHANGED <<got, cccds, hit, props>>
  BY DEF BlobTaken
<1>5. n \in Nat /\ start + n \in Nat /\ start + n <= dest BY <1>1, <1>2 DEF Least
<1>6. Clean /\ (a.n < mtu - 1 \/ n < a.n) => start + n = Least(l, dest)
  <2> HIDE DEF l, dest
  <2> QED BY <1>1, <1>2, <1>3 DEF Least, dest
<1>7. Clean /\ ~ (a.n < mtu - 1 \/ n < a.n) => start + n <= l
  <2> HIDE DEF l
  <2> QED BY <1>1, <1>2, <1>3 DEF Least
<1> HIDE DEF n
<1> QED BY <1>4, <1>5, <1>6, <1>7, ReadReturns, ReadStep

-----------------------------------------------------------------------------
(* Errors, and responses of another kind.                                  *)

(* A call that takes its own responses meets one error: its list is over.  *)
LEMMA OwnError ==
    ASSUME Fixed, Held, call.op \notin {"none", "characteristic"}, clean, NEW a \in Answers(Current)
    PROVE  /\ a.kind \in {"error", phase}
           /\ a.kind = "error" => EndOfList(a) /\ Listed(Current) = {}
<1>1. /\ Current \in Requests
      /\ Current.kind = phase /\ Current.start = start /\ Current.stop = stop
  BY CurrentIs DEF Held
<1>2. CASE call.op = "long_read" BY <1>2, OwnValue, Phases
<1>3. CASE call.op = "characteristics" /\ phase = "information"
  BY <1>3, OwnCccd
<1>4. CASE phase \in {"groups", "of_uuid", "declarations"}
  <2>1. start <= stop BY <1>4, Phases DEF Held, SearchOK, CallOK
  <2>2. start \in Nat /\ stop \in Nat BY DEF Held, Shape
  <2>3. a.kind \in {"error", phase} BY <1>1, <1>4, OwnList
  <2>4. a.kind = "error" => a.code = "not_found" /\ Listed(Current) = {}
    BY <1>1, <1>4, <2>1, <2>2, OwnList
  <2> QED BY <1>4, <2>3, <2>4 DEF EndOfList
<1> QED BY <1>2, <1>3, <1>4, Phases

LEMMA ListOverInv ==
    ASSUME Fixed, Held, NEW a \in Responses, Clean => a \in Answers(Current),
           a.kind = "error", EndOfList(a), ListOver, call.op # "none",
           asked' = FALSE, known' = known, UNCHANGED fixed
    PROVE  Held'
<1>1. Clean /\ call.op # "characteristic" => clean /\ Listed(Current) = {}
  BY OwnError DEF Clean
<1>2. known \subseteq known' /\ known' \subseteq Srv BY DEF Held, Shape
<1>3. phase \in {"groups", "of_uuid", "declarations"} BY DEF EndOfList
<1>4. "ok" \in Statuses /\ "not_found" \in Statuses BY DEF Statuses
<1>5. CASE call.op \in {"services", "by_uuid"} /\ Returns("ok", got, {}, 0, 0)
  <2>1. Clean => /\ call.op = "services" => got = Srv
                 /\ call.op = "by_uuid" => got = WithUuid(Srv, call.uuid)
    BY <1>1, <1>5, ServicesOver
  <2>2. Clean => Right(call, "ok", got, {}, 0) BY <1>5, <2>1 DEF Right
  <2> QED BY <1>2, <1>4, <1>5, <2>2, ReturnsInv DEF Held
<1>6. CASE call.op = "characteristics" /\ NextCccd(0, {})
  <2>1. phase = "declarations" BY <1>3, <1>6, Phases
  <2>2. Clean => got = InService("declaration", call.service)
    BY <1>1, <1>6, <2>1, DeclarationsOver
  <2>3. Pairs({x \in got : x <= 0}) = {}
    <3>1. \A x \in got : x \in Nat /\ 1 <= x
      <4>1. got \subseteq DOMAIN table BY DEF Held, Shape
      <4> QED BY <4>1, Handles DEF Fixed
    <3>2. {x \in got : x <= 0} = {} BY <3>1
    <3> QED BY <3>2 DEF Pairs
  <2> QED BY <1>6, <2>2, <2>3, NextCccdInv
<1>7. CASE call.op = "characteristic" /\ hit # 0
           /\ SearchFrom(hit, hit, ServiceStop(call.service))
  <2>1. hit \in Dcl /\ call.service \in Srv
    BY <1>7 DEF Held, CallOK, Shape
  <2>2. ServiceStop(call.service) \in Nat BY <2>1, ServiceGroups DEF Fixed
  <2>3. ASSUME Clean
        PROVE  /\ FirstOf(Those(call), hit) /\ table[hit].notify
               /\ hit + 2 <= ServiceStop(call.service)
    <3>1. clean BY <2>3 DEF Clean
    <3>2. Sought /\ hit + 2 <= ServiceStop(call.service) BY <1>7, <3>1, OneFrom
    <3> QED BY <1>7, <3>2 DEF Sought
  <2> QED BY <1>7, <2>1, <2>2, <2>3, SearchFromInv
<1>8. CASE call.op = "characteristic" /\ hit = 0 /\ Fails("not_found")
  <2>1. ASSUME Clean PROVE RightOne(call, "not_found", {}, {})
    <3>1. phase = "declarations" BY <1>3, <1>8, Phases
    <3>2. Those(call) = {} BY <1>8, <2>1, <3>1, OwnDeclarations DEF Clean
    <3> QED BY <3>2 DEF RightOne
  <2> QED BY <1>4, <1>8, <2>1, ErrorInv
<1> QED BY <1>5, <1>6, <1>7, <1>8 DEF ListOver

LEMMA TakenInv ==
    ASSUME Fixed, Held, NEW a \in Responses, Clean => a \in Answers(Current),
           Taken(a), call.op # "none", asked' = FALSE, known' = known, UNCHANGED fixed
    PROVE  Held'
<1>1. \A c \in Codes \ {"none"} : c \in Statuses BY DEF Codes, Statuses
<1>2. a.code \in Codes /\ (a.kind = "error" <=> a.code # "none") BY DEF Responses
<1>3. Clean /\ call.op # "characteristic" =>
         /\ a.kind \in {"error", phase}
         /\ a.kind = "error" => EndOfList(a)
  BY OwnError DEF Clean
<1>13. ASSUME Clean, call.op = "characteristic"
       PROVE  /\ a.kind \in {"error", phase}
              /\ a.kind = "error" /\ ~ EndOfList(a) =>
                    a.code = "invalid_handle" /\ Those(call) = {}
  <2>1. clean /\ a \in Answers(Current) BY <1>13 DEF Clean
  <2>2. CASE phase = "information" BY <1>13, <2>1, <2>2, OwnInformation
  <2>3. CASE phase = "declarations"
    BY <1>13, <2>1, <2>3, OwnDeclarations DEF EndOfList
  <2> QED BY <1>13, <2>2, <2>3, Phases
<1>4. CASE EndOfList(a) /\ ListOver
  <2>1. a.kind = "error" BY <1>2, <1>4 DEF EndOfList
  <2> QED BY <1>4, <2>1, ListOverInv
<1>5. CASE EndOfValue(a) /\ Returns("ok", {}, {}, 0, start)
  <2>1. a.kind = "error" /\ phase = "blob" /\ call.op = "long_read" /\ ~ EndOfList(a)
    BY <1>2, <1>5, Phases DEF EndOfValue, EndOfList
  <2>2. ~ Clean BY <1>3, <2>1
  <2> QED BY <1>5, <2>1, <2>2, ReadReturns
<1>6. CASE a.kind = "error" /\ ~ EndOfList(a) /\ ~ EndOfValue(a) /\ Fails(a.code)
  <2>1. a.code \in Statuses BY <1>1, <1>2, <1>6
  <2>2. ASSUME Clean
        PROVE  call.op = "characteristic" /\ RightOne(call, a.code, {}, {})
    <3>1. call.op = "characteristic" BY <1>3, <1>6, <2>2
    <3>2. a.code = "invalid_handle" /\ Those(call) = {} BY <1>6, <1>13, <2>2, <3>1
    <3> QED BY <3>1, <3>2 DEF RightOne
  <2> QED BY <1>6, <2>1, <2>2, ErrorInv
<1>7. CASE a.kind \notin {"error", phase} /\ Fails("unexpected")
  <2>1. "unexpected" \in Statuses BY DEF Statuses
  <2>2. ~ Clean BY <1>3, <1>7, <1>13
  <2> QED BY <1>7, <2>1, <2>2, ErrorInv
<1>8. CASE a.kind = phase /\ phase = "declarations" /\ call.op = "characteristics"
           /\ CharacteristicsTaken(a)
  BY <1>8, CharacteristicsTakenInv
<1>9. CASE a.kind = phase /\ phase = "declarations" /\ call.op = "characteristic"
           /\ CharacteristicTaken(a)
  BY <1>9, CharacteristicTakenInv
<1>10. CASE a.kind = phase /\ phase = "information" /\ InformationTaken(a)
  BY <1>10, InformationTakenInv
<1>11. CASE a.kind = phase /\ phase = "read" /\ ReadTaken(a)
  <2>1. call.op = "long_read" BY <1>11, Phases
  <2> QED BY <1>11, <2>1, ReadTakenInv
<1>12. CASE a.kind = phase /\ phase = "blob" /\ BlobTaken(a)
  <2>1. call.op = "long_read" BY <1>12, Phases
  <2> QED BY <1>12, <2>1, BlobTakenInv
<1> QED BY <1>4, <1>5, <1>6, <1>7, <1>8, <1>9, <1>10, <1>11, <1>12 DEF Taken

LEMMA TakeInv ==
    ASSUME IInv, Take
    PROVE  IInv'
<1>1. /\ call.op # "none" /\ asked /\ rsps # <<>>
      /\ rsps' = Tail(rsps) /\ asked' = FALSE /\ late' = Pipe - 1
      /\ UNCHANGED <<fixed, reqs>>
  BY DEF Take
<1>2. Fixed /\ Held BY DEF IInv, Held
<1>3. PipeShape' /\ PipeOK' /\ Fixed' BY <1>1, <1>2, TakePipe DEF IInv
<1>4. Head(rsps) \in Responses BY <1>1, HeadTail DEF IInv, PipeShape
<1>5. Clean => Head(rsps) \in Answers(Current) BY <1>1, TakesOwn DEF IInv, Clean
<1> DEFINE a == Head(rsps)
<1>6. \/ a.kind = phase /\ phase \in {"groups", "of_uuid"} /\ ServicesTaken(a)
      \/ known' = known /\ Taken(a)
  BY DEF Take
<1>7. Held'
  <2> HIDE DEF a
  <2>1. a \in Responses /\ (Clean => a \in Answers(Current)) BY <1>4, <1>5 DEF a
  <2>2. asked' = FALSE /\ UNCHANGED fixed /\ call.op # "none" BY <1>1
  <2>3. CASE a.kind = phase /\ phase \in {"groups", "of_uuid"} /\ ServicesTaken(a)
    BY <1>2, <2>1, <2>2, <2>3, ServicesTakenInv
  <2>4. CASE known' = known /\ Taken(a)
    BY <1>2, <2>1, <2>2, <2>4, TakenInv
  <2> QED BY <1>6, <2>3, <2>4
<1> QED BY <1>3, <1>7 DEF IInv, Held

LEMMA StutterInv ==
    ASSUME IInv, UNCHANGED vars
    PROVE  IInv'
<1>1. UNCHANGED fixed /\ Current' = Current BY DEF vars, fixed, Current
<1>2. Fixed' /\ PipeShape' BY <1>1, SameTable DEF IInv, vars, Fixed, PipeShape
<1>3. Shape' /\ CallOK' BY <1>1, SameTable DEF IInv, vars, Shape, CallOK
<1>4. Answers(Current)' = Answers(Current) BY <1>1, SameAnswers
<1>5. PipeOK' BY <1>1, <1>4 DEF IInv, vars, PipeOK, Pipe
<1>6. SearchOK' /\ Results'
  BY <1>1, SameTable, SameSought, SameResults DEF IInv, vars, search, SearchOK, Below
<1> QED BY <1>2, <1>3, <1>5, <1>6 DEF IInv

LEMMA StepInv ==
    ASSUME IInv, [Next]_vars
    PROVE  IInv'
<1>1. CASE Services
  <2>1. NoUuid \in Uuids BY SizesAssumption DEF NoUuid
  <2> QED BY <1>1, <2>1, CallInv
<1>2. CASE \E u \in Uuids : ServicesByUuid(u) BY <1>2, CallInv
<1>3. ASSUME NEW s \in known, Characteristics(s) PROVE IInv'
  <2>1. NoUuid \in Uuids BY SizesAssumption DEF NoUuid
  <2> QED BY <1>3, <2>1, CallInv
<1>4. ASSUME NEW s \in known, NEW u \in Uuids, CharacteristicByUuid(s, u) PROVE IInv'
  BY <1>4, CallInv
<1>5. ASSUME NEW s \in known, NEW h \in InService("value", s), NEW n \in DestLens,
             ReadCharacteristicLong(h, n)
      PROVE  IInv'
  <2>1. NoUuid \in Uuids BY SizesAssumption DEF NoUuid
  <2>2. h \in Val BY DEF InService, Val
  <2> QED BY <1>5, <2>1, <2>2, CallInv
<1>6. CASE Send \/ NoPacket \/ Dropped \/ Take \/ Serve
  BY <1>6, SendInv, NoPacketInv, DroppedInv, TakeInv, ServeInv
<1>7. CASE UNCHANGED vars BY <1>7, StutterInv
<1> QED BY <1>1, <1>2, <1>3, <1>4, <1>5, <1>6, <1>7 DEF Next

-----------------------------------------------------------------------------
(* The invariant, and what it says of every behaviour.                     *)

(* Every reachable state has it: what a call has found so far is what the  *)
(* table has below the range it asks for next.                             *)
THEOREM Invariant == Spec => []IInv
<1>1. Init => IInv BY InitInv
<1>2. IInv /\ [Next]_vars => IInv' BY StepInv
<1> QED BY <1>1, <1>2, PTL DEF Spec

(* The variables keep their types, whatever a call takes for its response. *)
THEOREM TypeCorrect == Spec => []TypeOK
<1>1. IInv => TypeOK
  <2> SUFFICES ASSUME IInv PROVE TypeOK OBVIOUS
  <2>1. /\ table \in Tables /\ mtu \in Mtus /\ known \subseteq OfKind(table, "service")
    BY DEF IInv, Fixed, Shape, Srv
  <2>2. phase = "none" <=> call.op = "none"
    <3>1. call.op \in Ops BY DEF IInv, Shape
    <3> QED BY <3>1 DEF IInv, CallOK, Ops
  <2>3. late \in 0 .. Pipe
    <3>1. late \in Nat /\ Pipe \in Nat BY DEF IInv, PipeShape, Pipe
    <3> QED BY <3>1 DEF IInv, PipeOK
  <2>4. reqs \in Seq([kind : ReqKinds, start : Nat, stop : Nat, uuid : Uuids])
    <3>1. Requests \subseteq [kind : ReqKinds, start : Nat, stop : Nat, uuid : Uuids]
      BY DEF Requests
    <3> QED BY <3>1, WiderSequence DEF IInv, PipeShape
  <2>5. rsps \in Seq([kind : ReqKinds \cup {"error"}, code : Codes,
                      handles : SUBSET (DOMAIN table), n : Nat])
    <3>1. Responses \subseteq [kind : ReqKinds \cup {"error"}, code : Codes,
                               handles : SUBSET (DOMAIN table), n : Nat]
      BY DEF Responses
    <3> QED BY <3>1, WiderSequence DEF IInv, PipeShape
  <2> QED BY <2>1, <2>2, <2>3, <2>4, <2>5 DEF TypeOK, IInv, Shape, PipeShape
<1> QED BY <1>1, Invariant, PTL

(* services() and services_by_uuid() find every service there is to find.  *)
THEOREM AllServices == Spec => []ServicesExact
<1>1. IInv => ServicesExact
  BY DEF IInv, Results, Right, ServicesExact, Srv, WithUuid
<1> QED BY <1>1, Invariant, PTL

(* characteristics() finds every characteristic of its service, and each   *)
(* one's own CCCD.                                                         *)
THEOREM AllCharacteristics == Spec => []CharacteristicsExact
<1>1. IInv => CharacteristicsExact
  BY DEF IInv, Results, Right, CharacteristicsExact, Pairs
<1> QED BY <1>1, Invariant, PTL

(* characteristic_by_uuid() finds the first characteristic of its service  *)
(* with the UUID, and its CCCD, and fails only when there is none.         *)
THEOREM OneCharacteristic == Spec => []CharacteristicExact
<1>1. IInv => CharacteristicExact
  <2> SUFFICES ASSUME IInv, out.clean, out.call.op = "characteristic"
               PROVE  CharacteristicExact
    BY DEF CharacteristicExact
  <2> DEFINE those == Those(out.call)
  <2>1. RightOne(out.call, out.status, out.got, out.cccds) BY DEF IInv, Results, Right
  <2>2. those = {d \in InService("declaration", out.call.service) : table[d].uuid = out.call.uuid}
    BY DEF Those, WithUuid
  <2>3. those \subseteq DOMAIN table BY <2>2 DEF InService, OfKind
  <2>4. ASSUME out.status = "ok"
        PROVE  /\ those # {} /\ out.got = {First(those)}
               /\ out.cccds = {<<d, d + 2>> : d \in {x \in out.got : table[x].notify}}
    <3>1. PICK d \in those : FirstOf(those, d) /\ out.got = {d} /\ out.cccds = Pairs({d})
      BY <2>1, <2>4 DEF RightOne
    <3>2. d \in those /\ \A x \in those : d <= x BY <3>1 DEF FirstOf
    <3>3. First(those) = d
      <4> HIDE DEF those
      <4> QED BY <2>3, <3>2, FirstUnique DEF IInv, Fixed
    <3> QED BY <3>1, <3>2, <3>3 DEF Pairs
  <2>5. /\ out.status \in {"ok", "not_found", "invalid_handle", "out_of_memory", "dropped"}
        /\ out.status \in {"not_found", "invalid_handle"} => those = {}
    BY <2>1 DEF RightOne
  <2> HIDE DEF those
  <2> QED BY <2>2, <2>4, <2>5 DEF CharacteristicExact
<1> QED BY <1>1, Invariant, PTL

(* A long read returns the value, or what its buffer holds of it.          *)
THEOREM WholeValues == Spec => []LongReadExact
<1>1. IInv => LongReadExact
  BY DEF IInv, Results, Right, LongReadExact
<1> QED BY <1>1, Invariant, PTL

=============================================================================
