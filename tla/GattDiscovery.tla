----------------------------- MODULE GattDiscovery -----------------------------
(***************************************************************************)
(* trouble-host: GattClient (gatt.rs) against an AttributeServer           *)
(* (attribute_server.rs) whose table AttributeTable's builders made        *)
(* (attribute.rs).  One client makes one call at a time: the discovery of  *)
(* services, characteristics and CCCDs, and the long read.  A call is a    *)
(* loop of request and response; its caller may drop its future between    *)
(* the two, and the response comes all the same.                           *)
(*                                                                         *)
(* A response that lists attributes is the set of their handles: the rest  *)
(* of an entry is in the table, which does not change.  MTU exchange is    *)
(* done; requests and responses stay in order, as the link keeps them.     *)
(* The lists a call collects are sets: of one that took the response to    *)
(* another call the code may hold an entry twice, and out of order.        *)
(***************************************************************************)
EXTENDS Integers, Sequences, FiniteSets

CONSTANTS
    Uuids, WideUuids,   \* UUIDs in use; those of 128 bits
    Tables,             \* tables of attributes a server may have
    Mtus,               \* ATT MTUs, 23 at least
    DestLens,           \* lengths of the buffers given to a long read
    MaxServices,        \* MAX_SERVICES of the client
    MaxCharacteristics, \* N of characteristics()
    MaxPipe             \* bound: requests and responses left behind by dropped calls, and one

Top == 65535            \* u16::MAX

ASSUME SizesAssumption ==
    /\ Uuids # {} /\ WideUuids \subseteq Uuids
    /\ \A m \in Mtus : m \in Nat /\ m >= 23
    /\ DestLens \subseteq Nat
    /\ MaxServices \in Nat /\ MaxCharacteristics \in Nat /\ MaxPipe \in Nat \ {0}

-----------------------------------------------------------------------------
(* Tables.  An attribute's handle is its place.                            *)

First(S) == CHOOSE x \in S : \A y \in S : x <= y
Final(S) == CHOOSE x \in S : \A y \in S : y <= x

Kinds == {"service", "declaration", "value", "cccd", "descriptor"}

Attribute == [kind : Kinds, uuid : Uuids, notify : BOOLEAN, last : Nat, len : Nat]

OfKind(t, k) == {h \in DOMAIN t : t[h].kind = k}

(* What the builders guarantee of a table.                                 *)
TableOK(t) ==
    /\ t \in Seq(Attribute) /\ Len(t) < Top
    /\ \A s \in OfKind(t, "service") :
          /\ s <= t[s].last /\ t[s].last <= Len(t)
          /\ \A r \in OfKind(t, "service") : s < r => t[s].last < r
    /\ \A d \in OfKind(t, "declaration") :
          /\ d + 1 \in OfKind(t, "value") /\ t[d + 1].uuid = t[d].uuid
          /\ t[d].notify => d + 2 \in OfKind(t, "cccd")
          /\ \E s \in OfKind(t, "service") :
                s < d /\ (IF t[d].notify THEN d + 2 ELSE d + 1) <= t[s].last

ASSUME TablesAssumption == \A t \in Tables : TableOK(t)

VARIABLES
    table, mtu,     \* the server's, fixed
    known,          \* handles of known_services
    call,           \* the call in progress: its operation and arguments
    phase,          \* what its next request is for
    start, stop,    \* the range it asks for; start is the offset of a blob read
    got,            \* handles in its result: services or declarations
    cccds,          \* <<declaration, CCCD>> found
    hit, props,     \* declaration whose CCCD is looked for, and whose props go with it
    asked,          \* its request has been sent
    late,           \* ghost: of the pipe's first, how many are not for its last request
    clean,          \* ghost: it has taken no response but to its own request
    reqs, rsps,     \* requests at the server, responses with the client
    out             \* history: how the last call ended, until the next begins

vars == <<table, mtu, known, call, phase, start, stop, got, cccds, hit, props,
          asked, late, clean, reqs, rsps, out>>
search == <<phase, start, stop, got, cccds, hit, props>>
fixed  == <<table, mtu>>

NoUuid == CHOOSE u \in Uuids : TRUE

NoCall == [op |-> "none", service |-> 0, uuid |-> NoUuid, value |-> 0, dest |-> 0]

Pipe == Len(reqs) + Len(rsps)

NoOut  == [call |-> NoCall, status |-> "ok", got |-> {}, cccds |-> {}, props |-> 0,
           n |-> 0, clean |-> TRUE]

Ops == {"none", "services", "by_uuid", "characteristics", "characteristic", "long_read"}
ReqKinds == {"groups", "of_uuid", "declarations", "information", "read", "blob"}
Codes == {"none", "not_found", "invalid_handle", "invalid_offset"}

ServiceStop(s) == table[s].last

InService(k, s) == {h \in OfKind(table, k) : s < h /\ h <= ServiceStop(s)}

-----------------------------------------------------------------------------
(* The server.  Entries of a response have one length, and as many as the  *)
(* MTU has room for: Few(S, k) is the first k of S, OfWidth the first run   *)
(* of one width.                                                           *)

Width(u) == IF u \in WideUuids THEN 16 ELSE 2

(* width of an attribute's type, and of the UUID in its value              *)
TypeWidth(h) == IF table[h].kind \in {"value", "descriptor"} THEN Width(table[h].uuid) ELSE 2

Before(S, h) == {x \in S : x < h}

Response(k, S, n) == [kind |-> k, code |-> "none", handles |-> S, n |-> n]
Error(c) == [kind |-> "error", code |-> c, handles |-> {}, n |-> 0]

InRange(k, r) == {h \in OfKind(table, k) : r.start <= h /\ h <= r.stop}

(* entries of 4 or 5 octets and a UUID, while there is room for the next   *)
Groups(r) ==
    LET S == InRange("service", r) IN
    {h \in S : /\ \A x \in Before(S, h) : Width(table[x].uuid) = Width(table[h].uuid)
               /\ 2 + Cardinality(Before(S, h)) * (4 + Width(table[h].uuid))
                    <= mtu - 4 - Width(table[h].uuid)}

OfUuid(r) ==
    LET S == {h \in InRange("service", r) : table[h].uuid = r.uuid} IN
    {h \in S : 4 + Width(r.uuid) <= mtu - 1 - 4 * Cardinality(Before(S, h))}

Declarations(r) ==
    LET S == InRange("declaration", r) IN
    {h \in S : /\ \A x \in Before(S, h) : Width(table[x].uuid) = Width(table[h].uuid)
               /\ 2 + Cardinality(Before(S, h)) * (5 + Width(table[h].uuid))
                    <= mtu - 5 - Width(table[h].uuid)}

(* ... but handle_find_information lists the whole run of one width        *)
Information(r) ==
    LET S == {h \in DOMAIN table : r.start <= h /\ h <= r.stop} IN
    {h \in S : \A x \in Before(S, h) : TypeWidth(x) = TypeWidth(h)}

InformationFits(S) == \A h \in S : 2 + Cardinality(S) * (2 + TypeWidth(h)) <= mtu

Listed(r) ==
    CASE r.kind = "groups"       -> Groups(r)
      [] r.kind = "of_uuid"      -> OfUuid(r)
      [] r.kind = "declarations" -> Declarations(r)
      [] r.kind = "information"  -> Information(r)

Least(a, b) == IF a <= b THEN a ELSE b

(* AttributeServer::process.  A response that does not fit is an error of  *)
(* accept(), and nothing is sent.                                          *)
Answers(r) ==
    IF r.kind \in {"read", "blob"}
    THEN IF r.start > table[r.stop].len THEN {Error("invalid_offset")}
         ELSE {Response(r.kind, {}, Least(table[r.stop].len - r.start, mtu - 1))}
    ELSE IF r.start > r.stop THEN {Error("invalid_handle")}
    ELSE IF Listed(r) = {} THEN {Error("not_found")}
    ELSE IF r.kind = "information" /\ ~ InformationFits(Listed(r)) THEN {}
    ELSE {Response(r.kind, Listed(r), 0)}

Serve ==
    /\ reqs # <<>>
    /\ reqs' = Tail(reqs)
    /\ \/ /\ \E a \in Answers(Head(reqs)) : rsps' = Append(rsps, a)
          /\ late' = late
       \/ /\ Answers(Head(reqs)) = {}
          /\ rsps' = rsps
          /\ late' = IF Len(rsps) < late THEN late - 1 ELSE late
    /\ UNCHANGED <<fixed, known, call, search, asked, clean, out>>

-----------------------------------------------------------------------------
(* The client.                                                             *)

Statuses == {"ok", "not_found", "invalid_handle", "invalid_offset", "insufficient_space", "unexpected",
             "out_of_memory", "dropped"}

Reset == /\ phase' = "none" /\ start' = 0 /\ stop' = 0 /\ got' = {} /\ cccds' = {}
         /\ hit' = 0 /\ props' = 0

Clean == clean /\ late = 0

Returns(status, found, pairs, owner, n) ==
    /\ call' = NoCall /\ Reset /\ clean' = TRUE
    /\ out' = [call |-> call, status |-> status, got |-> found, cccds |-> pairs,
               props |-> owner, n |-> n, clean |-> Clean]

Fails(status) == Returns(status, {}, {}, 0, 0)

Begin(c, p, from, to) ==
    /\ call.op = "none"
    /\ call' = c /\ phase' = p /\ start' = from /\ stop' = to /\ out' = NoOut
    /\ UNCHANGED <<fixed, known, got, cccds, hit, props, asked, late, clean, reqs, rsps>>

Services == Begin([NoCall EXCEPT !.op = "services"], "groups", 1, Top)

ServicesByUuid(u) == Begin([NoCall EXCEPT !.op = "by_uuid", !.uuid = u], "of_uuid", 1, Top)

Characteristics(s) ==
    Begin([NoCall EXCEPT !.op = "characteristics", !.service = s], "declarations", s, ServiceStop(s))

CharacteristicByUuid(s, u) ==
    Begin([NoCall EXCEPT !.op = "characteristic", !.service = s, !.uuid = u],
          "declarations", s, ServiceStop(s))

(* stop keeps the handle that is read, start the octets read so far        *)
ReadCharacteristicLong(h, n) ==
    Begin([NoCall EXCEPT !.op = "long_read", !.value = h, !.dest = n], "read", 0, h)

(* send_att_data, and its failure: P::allocate() finds no packet           *)
Send ==
    /\ call.op # "none" /\ ~ asked
    /\ reqs' = Append(reqs, [kind |-> phase, start |-> start, stop |-> stop, uuid |-> call.uuid])
    /\ asked' = TRUE
    /\ UNCHANGED <<fixed, known, call, search, late, clean, rsps, out>>

NoPacket ==
    /\ call.op # "none" /\ ~ asked
    /\ Fails("out_of_memory")
    /\ UNCHANGED <<fixed, known, asked, late, reqs, rsps>>

(* The caller drops the future of its call: a timeout, or a select.        *)
Dropped ==
    /\ call.op # "none" /\ asked
    /\ Pipe < MaxPipe
    /\ Fails("dropped") /\ asked' = FALSE /\ late' = Pipe
    /\ UNCHANGED <<fixed, known, reqs, rsps>>

(* What a response means to the call that takes it: Keeps is the rest of   *)
(* the search, after this response and before the next request.            *)
Keeps(p, from, to) ==
    /\ phase' = p /\ start' = from /\ stop' = to /\ clean' = Clean
    /\ UNCHANGED <<call, out>>

\* Mutant: the next range starts two handles after the last group
ServicesTakenSkips(a) ==
    /\ known' = known \cup a.handles /\ got' = got \cup a.handles
    /\ Keeps(phase, ServiceStop(Final(a.handles)) + 2, stop)
    /\ UNCHANGED <<cccds, hit, props>>

(* services, services_by_uuid: entries are kept while the lists have room  *)
ServicesTaken(a) ==
    LET kept == {h \in a.handles : Cardinality(known \cup {x \in a.handles : x <= h}) <= MaxServices}
    IN /\ known' = known \cup kept
       /\ IF kept # a.handles THEN Fails("insufficient_space")
          ELSE /\ got' = got \cup a.handles
               /\ Keeps(phase, ServiceStop(Final(a.handles)) + 1, stop)
               /\ UNCHANGED <<cccds, hit, props>>

(* The search for the CCCD of declaration d of characteristics(): from the *)
(* handle after its value to the one before the next declaration.          *)
CccdStop(d) ==
    LET later == {x \in got : x > d} IN
    IF later = {} THEN ServiceStop(call.service) ELSE First(later) - 1

Wanting(d) == {x \in got : x > d /\ table[x].notify /\ x + 2 <= CccdStop(x)}

NextCccd(d, pairs) ==
    IF Wanting(d) = {} THEN Returns("ok", got, pairs, 0, 0)
    ELSE LET x == First(Wanting(d)) IN
         /\ hit' = x /\ cccds' = pairs
         /\ Keeps("information", x + 2, CccdStop(x))
         /\ UNCHANGED <<got, props>>

\* Mutant: the next range starts after a CCCD that need not be there
CharacteristicsTakenSkips(a) ==
    /\ got' = got \cup a.handles
    /\ Keeps(phase, Final(a.handles) + 3, stop)
    /\ UNCHANGED <<cccds, hit, props>>

\* Mutant: the next range starts with the last declaration again
CharacteristicsTakenAgain(a) ==
    /\ got' = got \cup a.handles
    /\ Keeps(phase, Final(a.handles), stop)
    /\ UNCHANGED <<cccds, hit, props>>

CharacteristicsTaken(a) ==
    IF Cardinality(got \cup a.handles) > MaxCharacteristics THEN Fails("insufficient_space")
    ELSE /\ got' = got \cup a.handles
         /\ Keeps(phase, Final(a.handles) + 1, stop)
         /\ UNCHANGED <<cccds, hit, props>>

(* characteristic_by_uuid: d is the declaration that was asked for, and n  *)
(* the one whose props are returned with it.  The CCCD is looked for from  *)
(* the value of d on.                                                      *)
SearchFrom(d, n, to) ==
    IF d + 1 > to THEN Fails("not_found")
    ELSE /\ hit' = d /\ props' = n
         /\ Keeps("information", d + 1, to)
         /\ UNCHANGED <<got, cccds>>

\* Mutant: a characteristic that notifies is returned as one that does not
CharacteristicTakenForgets(a) ==
    LET match == {h \in a.handles : table[h].uuid = call.uuid}
        d     == First(match)
    IN  \/ /\ match = {}
           /\ Keeps(phase, Final(a.handles) + 2, stop)
           /\ UNCHANGED <<got, cccds, hit, props>>
        \/ /\ match # {} /\ Returns("ok", {d}, {}, d, 0)

CharacteristicTaken(a) ==
    LET first == First(a.handles)
        match == {h \in a.handles : table[h].uuid = call.uuid}
        d     == First(match)
        after == {h \in a.handles : h > d}
    IN  \/ hit # 0 /\ SearchFrom(hit, first, first + 1)
        \/ /\ hit = 0 /\ match = {}
           /\ Keeps(phase, Final(a.handles) + 2, stop)
           /\ UNCHANGED <<got, cccds, hit, props>>
        \/ /\ hit = 0 /\ match # {} /\ ~ table[d].notify
           /\ Returns("ok", {d}, {}, d, 0)
        \/ /\ hit = 0 /\ match # {} /\ table[d].notify /\ after # {}
           /\ SearchFrom(d, First(after), First(after) + 1)
        \/ /\ hit = 0 /\ match # {} /\ table[d].notify /\ after = {}
           /\ hit' = d /\ Keeps(phase, d + 2, stop)
           /\ UNCHANGED <<got, cccds, props>>

(* get_characteristic_cccd, for either call                                *)
InformationTaken(a) ==
    LET found == {h \in a.handles : table[h].kind = "cccd"}
        pair  == cccds \cup {<<hit, First(found)>>}
        many  == call.op = "characteristics"
    IN  \/ found # {} /\ many /\ NextCccd(hit, pair)
        \/ found # {} /\ ~ many /\ Returns("ok", {hit}, pair, props, 0)
        \/ /\ found = {} /\ Final(a.handles) < stop
           /\ Keeps(phase, Final(a.handles) + 1, stop)
           /\ UNCHANGED <<got, cccds, hit, props>>
        \/ /\ found = {} /\ Final(a.handles) >= stop
           /\ IF many THEN NextCccd(hit, cccds) ELSE Fails("not_found")

\* Mutant: a full first response holds one octet more
ReadTakenFull(a) ==
    LET n == Least(a.n, call.dest) IN
    IF n # mtu THEN Returns("ok", {}, {}, 0, n)
    ELSE Keeps("blob", n, stop) /\ UNCHANGED <<got, cccds, hit, props>>

(* read_characteristic_long: the first read, and the blobs while full      *)
ReadTaken(a) ==
    LET n == Least(a.n, call.dest) IN
    IF n # mtu - 1 THEN Returns("ok", {}, {}, 0, n)
    ELSE Keeps("blob", n, stop) /\ UNCHANGED <<got, cccds, hit, props>>

BlobTaken(a) ==
    LET n == Least(a.n, call.dest - start) IN
    IF a.n < mtu - 1 \/ n < a.n THEN Returns("ok", {}, {}, 0, start + n)
    ELSE Keeps(phase, start + n, stop) /\ UNCHANGED <<got, cccds, hit, props>>

(* The error that ends a list: nothing more in the range                   *)
ListOver ==
    \/ call.op \in {"services", "by_uuid"} /\ Returns("ok", got, {}, 0, 0)
    \/ call.op = "characteristics" /\ NextCccd(0, {})
    \/ call.op = "characteristic" /\ hit # 0 /\ SearchFrom(hit, hit, ServiceStop(call.service))
    \/ call.op = "characteristic" /\ hit = 0 /\ Fails("not_found")

EndOfList(a)  == a.code = "not_found" /\ phase \in {"groups", "of_uuid", "declarations"}
EndOfValue(a) == a.code = "invalid_offset" /\ phase = "blob"

Taken(a) ==
    \/ EndOfList(a) /\ ListOver
    \/ EndOfValue(a) /\ Returns("ok", {}, {}, 0, start)
    \/ a.kind = "error" /\ ~ EndOfList(a) /\ ~ EndOfValue(a) /\ Fails(a.code)
    \/ a.kind \notin {"error", phase} /\ Fails("unexpected")
    \/ a.kind = phase /\ phase = "declarations" /\ call.op = "characteristics" /\ CharacteristicsTaken(a)
    \/ a.kind = phase /\ phase = "declarations" /\ call.op = "characteristic" /\ CharacteristicTaken(a)
    \/ a.kind = phase /\ phase = "information" /\ InformationTaken(a)
    \/ a.kind = phase /\ phase = "read" /\ ReadTaken(a)
    \/ a.kind = phase /\ phase = "blob" /\ BlobTaken(a)

(* request() receives from response_channel whatever is first              *)
Take ==
    /\ call.op # "none" /\ asked /\ rsps # <<>>
    /\ rsps' = Tail(rsps) /\ asked' = FALSE /\ late' = Pipe - 1
    /\ LET a == Head(rsps) IN
       \/ a.kind = phase /\ phase \in {"groups", "of_uuid"} /\ ServicesTaken(a)
       \/ known' = known /\ Taken(a)
    /\ UNCHANGED <<fixed, reqs>>

-----------------------------------------------------------------------------
Init ==
    /\ table \in Tables /\ mtu \in Mtus
    /\ known = {} /\ call = NoCall
    /\ phase = "none" /\ start = 0 /\ stop = 0 /\ got = {} /\ cccds = {} /\ hit = 0 /\ props = 0
    /\ asked = FALSE /\ late = 0 /\ clean = TRUE /\ reqs = <<>> /\ rsps = <<>>
    /\ out = NoOut

(* Calls take the services and the characteristics that calls returned.    *)
Next ==
    \/ Services
    \/ \E u \in Uuids : ServicesByUuid(u)
    \/ \E s \in known :
          \/ Characteristics(s)
          \/ \E u \in Uuids : CharacteristicByUuid(s, u)
          \/ \E h \in InService("value", s), n \in DestLens : ReadCharacteristicLong(h, n)
    \/ Send \/ NoPacket \/ Dropped \/ Take \/ Serve

Spec == Init /\ [][Next]_vars

FairSpec == Spec /\ WF_vars(Send) /\ WF_vars(Take) /\ WF_vars(Serve)

-----------------------------------------------------------------------------
(* Properties.                                                             *)

(* The type of every variable; what is in progress is one of the calls.    *)
TypeOK ==
    /\ table \in Tables /\ mtu \in Mtus
    /\ known \subseteq OfKind(table, "service")
    /\ call \in [op : Ops, service : Nat, uuid : Uuids, value : Nat, dest : Nat]
    /\ call.service \in known \cup {0}
    /\ phase \in ReqKinds \cup {"none"} /\ (phase = "none") = (call.op = "none")
    /\ start \in Nat /\ stop \in Nat
    /\ got \subseteq DOMAIN table /\ cccds \subseteq (DOMAIN table) \X (DOMAIN table)
    /\ hit \in (DOMAIN table) \cup {0} /\ props \in (DOMAIN table) \cup {0}
    /\ asked \in BOOLEAN /\ late \in 0 .. Pipe /\ clean \in BOOLEAN
    /\ reqs \in Seq([kind : ReqKinds, start : Nat, stop : Nat, uuid : Uuids])
    /\ rsps \in Seq([kind : ReqKinds \cup {"error"}, code : Codes,
                     handles : SUBSET (DOMAIN table), n : Nat])
    /\ out.status \in Statuses

(* services() returns the primary services of the table, all of them,      *)
(* whatever the MTU splits them into, unless they are more than its list   *)
(* holds; services_by_uuid() those with the UUID.                          *)
ServicesExact ==
    out.clean => 
    /\ out.call.op = "services" /\ out.status = "ok" => out.got = OfKind(table, "service")
    /\ out.call.op = "by_uuid" /\ out.status = "ok" =>
          out.got = {h \in OfKind(table, "service") : table[h].uuid = out.call.uuid}
    /\ out.call.op \in {"services", "by_uuid"} =>
          /\ out.status \in {"ok", "insufficient_space", "out_of_memory", "dropped"}
          /\ out.status = "insufficient_space" =>
                Cardinality(OfKind(table, "service")) > MaxServices

(* characteristics() returns the declarations of its service, each one     *)
(* that notifies with its own CCCD.                                        *)
CharacteristicsExact ==
    out.clean /\ out.call.op = "characteristics" =>
    /\ out.status \in {"ok", "insufficient_space", "out_of_memory", "dropped"}
    /\ out.status = "ok" =>
          /\ out.got = InService("declaration", out.call.service)
          /\ out.cccds = {<<d, d + 2>> : d \in {x \in out.got : table[x].notify}}

(* characteristic_by_uuid() returns the first characteristic of its        *)
(* service with the UUID, with its CCCD, and fails if there is none.       *)
CharacteristicExact ==
    out.clean /\ out.call.op = "characteristic" =>
    LET those == {d \in InService("declaration", out.call.service) : table[d].uuid = out.call.uuid}
    IN /\ out.status \in {"ok", "not_found", "invalid_handle", "out_of_memory", "dropped"}
       /\ out.status = "ok" =>
             /\ those # {} /\ out.got = {First(those)}
             /\ out.cccds = {<<d, d + 2>> : d \in {x \in out.got : table[x].notify}}
       /\ out.status \in {"not_found", "invalid_handle"} => those = {}

(* A long read returns the value, or as much of it as its buffer holds,    *)
(* wherever the value and the buffer end within a response.                *)
LongReadExact ==
    out.clean /\ out.call.op = "long_read" =>
    /\ out.status \in {"ok", "out_of_memory", "dropped"}
    /\ out.status = "ok" => out.n = Least(table[out.call.value].len, out.call.dest)

(* Every call returns: no search goes round in circles or waits for ever.  *)
CallsReturn == call.op # "none" ~> call.op = "none"
=============================================================================
