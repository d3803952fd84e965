--------------------------- MODULE PairingProofs ---------------------------
(* What the pairing of Pairing.tla guarantees for every pair of devices,    *)
(* every passkey and every number of rounds, links and faults: the level a  *)
(* connection shows is that of the key its link is encrypted with, a key    *)
(* that proves a user's presence was earned by both users, the two ends of  *)
(* a finished pairing hold the same key, a key that is no bond goes with    *)
(* its link, and no wait of a healthy pairing is without a cause.           *)
(* A run of a handler is first summarised, once for each end (CentralRun,   *)
(* PeripheralRun); the invariant is then carried through these summaries    *)
(* and the steps of the runners, the controllers and the link.  For the     *)
(* waits the same is done with what a run does for the other end            *)
(* (CentralMove, PeripheralMove, AnswerMove).  PairingInvariant.tla defines *)
(* what the proofs speak of.                                                *)
EXTENDS PairingInvariant, TLAPS

----------------------------------------------------------------------------
(* Appending and taking, for what a queue holds. *)
LEMMA ElemsOfAppend ==
  ASSUME NEW S, NEW q \in Seq(S), NEW a \in S
  PROVE /\ Append(q, a) \in Seq(S)
        /\ Elems(Append(q, a)) = Elems(q) \cup {a}
<1> DEFINE z == Append(q, a)
<1>1. /\ z \in Seq(S)
      /\ DOMAIN q = 1..Len(q) /\ Len(q) \in Nat
      /\ DOMAIN z = 1..(Len(q) + 1)
      /\ \A i \in 1..Len(q) : z[i] = q[i]
      /\ z[Len(q) + 1] = a
  OBVIOUS
<1> HIDE DEF z
<1>2. DOMAIN z = DOMAIN q \cup {Len(q) + 1} BY <1>1
<1>3. Elems(z) = Elems(q) \cup {a} BY <1>1, <1>2 DEF Elems
<1> QED BY <1>1, <1>3 DEF z

LEMMA ElemsOfTail ==
  ASSUME NEW S, NEW q \in Seq(S), q # <<>>
  PROVE /\ Tail(q) \in Seq(S)
        /\ Head(q) \in S
        /\ Head(q) \in Elems(q)
        /\ Elems(Tail(q)) \subseteq Elems(q)
<1> DEFINE z == Tail(q)
<1>1. /\ z \in Seq(S) /\ Head(q) = q[1] /\ Head(q) \in S
      /\ DOMAIN q = 1..Len(q) /\ Len(q) \in Nat /\ Len(q) > 0
      /\ DOMAIN z = 1..(Len(q) - 1)
      /\ \A i \in 1..(Len(q) - 1) : z[i] = q[i + 1]
  OBVIOUS
<1> HIDE DEF z
<1>2. \A i \in DOMAIN z : i + 1 \in DOMAIN q /\ z[i] = q[i + 1] BY <1>1
<1>3. 1 \in DOMAIN q BY <1>1
<1>4. Elems(z) \subseteq Elems(q) BY <1>2 DEF Elems
<1> QED BY <1>1, <1>3, <1>4 DEF Elems, z

LEMMA ElemsOfBoth ==
  ASSUME NEW S, NEW q \in Seq(S), NEW r \in Seq(S)
  PROVE /\ q \o r \in Seq(S)
        /\ Elems(q \o r) \subseteq Elems(q) \cup Elems(r)
<1> DEFINE z == q \o r
<1>1. /\ z \in Seq(S)
      /\ DOMAIN q = 1..Len(q) /\ Len(q) \in Nat
      /\ DOMAIN r = 1..Len(r) /\ Len(r) \in Nat
      /\ DOMAIN z = 1..(Len(q) + Len(r))
      /\ \A i \in 1..(Len(q) + Len(r)) :
           z[i] = IF i <= Len(q) THEN q[i] ELSE r[i - Len(q)]
  OBVIOUS
<1> HIDE DEF z
<1>2. ASSUME NEW i \in DOMAIN z PROVE z[i] \in Elems(q) \cup Elems(r)
  <2>1. CASE i <= Len(q)
    <3>1. i \in DOMAIN q /\ z[i] = q[i] BY <1>1, <1>2, <2>1
    <3> QED BY <3>1 DEF Elems
  <2>2. CASE ~(i <= Len(q))
    <3>1. (i - Len(q)) \in DOMAIN r /\ z[i] = r[i - Len(q)]
      BY <1>1, <1>2, <2>2
    <3> QED BY <3>1 DEF Elems
  <2> QED BY <2>1, <2>2
<1>3. Elems(z) \subseteq Elems(q) \cup Elems(r) BY <1>2 DEF Elems
<1> QED BY <1>1, <1>3 DEF z

LEMMA ElemsOfNone == Elems(<<>>) = {} /\ Encrypts(<<>>) = {}
  BY DEF Elems, Encrypts

(* Appending and taking, for where the encryptions are. *)
LEMMA EncryptsOfAppend ==
  ASSUME NEW q \in Seq(Queued), NEW a \in Queued
  PROVE Encrypts(Append(q, a)) =
          Encrypts(q) \cup IF a = "encrypt" THEN {Len(q) + 1} ELSE {}
<1> DEFINE z == Append(q, a)
<1>1. /\ DOMAIN q = 1..Len(q) /\ Len(q) \in Nat
      /\ DOMAIN z = 1..(Len(q) + 1)
      /\ \A i \in 1..Len(q) : z[i] = q[i]
      /\ z[Len(q) + 1] = a
  OBVIOUS
<1> HIDE DEF z
<1>2. DOMAIN z = DOMAIN q \cup {Len(q) + 1} BY <1>1
<1>3. Encrypts(z) = Encrypts(q) \cup IF a = "encrypt" THEN {Len(q) + 1} ELSE {}
  BY <1>1, <1>2 DEF Encrypts
<1> QED BY <1>3 DEF z

LEMMA EncryptsOfTail ==
  ASSUME NEW q \in Seq(Queued), q # <<>>,
         \A i, j \in Encrypts(q) : i = j
  PROVE /\ \A i, j \in Encrypts(Tail(q)) : i = j
        /\ Encrypts(q) = {} => Encrypts(Tail(q)) = {}
        /\ Head(q) = "encrypt" => Encrypts(q) # {} /\ Encrypts(Tail(q)) = {}
<1> DEFINE z == Tail(q)
<1>1. /\ Head(q) = q[1]
      /\ DOMAIN q = 1..Len(q) /\ Len(q) \in Nat /\ Len(q) > 0
      /\ DOMAIN z = 1..(Len(q) - 1)
      /\ \A i \in 1..(Len(q) - 1) : z[i] = q[i + 1]
  OBVIOUS
<1> HIDE DEF z
<1>2. \A i \in Encrypts(z) : i \in Nat /\ i # 0 /\ i + 1 \in Encrypts(q)
  BY <1>1 DEF Encrypts
<1>3. Head(q) = "encrypt" => 1 \in Encrypts(q) BY <1>1 DEF Encrypts
<1>4. \A i, j \in Encrypts(z) : i = j
  <2> SUFFICES ASSUME NEW i \in Encrypts(z), NEW j \in Encrypts(z) PROVE i = j
    OBVIOUS
  <2>1. i + 1 = j + 1 BY <1>2
  <2> QED BY <2>1, <1>2
<1>5. Encrypts(q) = {} => Encrypts(z) = {} BY <1>2
<1>6. Head(q) = "encrypt" => Encrypts(z) = {}
  <2> SUFFICES ASSUME Head(q) = "encrypt", NEW i \in Encrypts(z) PROVE FALSE
    OBVIOUS
  <2>1. i + 1 = 1 BY <1>2, <1>3
  <2> QED BY <2>1, <1>2
<1> QED BY <1>3, <1>4, <1>5, <1>6 DEF z

----------------------------------------------------------------------------
(* What each effect of a handler does. *)

LEMMA TimerDoes ==
  ASSUME NEW x \in Handler
  PROVE LET y == Timer(x)
        IN /\ y \in Handler
           /\ y.s = x.s /\ y.out = x.out /\ y.app = x.app /\ y.key = x.key
           /\ y.ok = x.ok /\ y.seen = x.seen
           /\ Encrypts(y.ev) = Encrypts(x.ev)
           /\ Ltks(y.ev) \subseteq Ltks(x.ev)
<1>1. x.ev \in Seq(Queued) /\ "timer" \in Queued BY DEF Handler, Queued
<1>2. /\ Append(x.ev, "timer") \in Seq(Queued)
      /\ Encrypts(Append(x.ev, "timer")) = Encrypts(x.ev)
      /\ Ltks(Append(x.ev, "timer")) = Ltks(x.ev)
  <2>1. /\ Append(x.ev, "timer") \in Seq(Queued)
        /\ Elems(Append(x.ev, "timer")) = Elems(x.ev) \cup {"timer"}
    BY <1>1, ElemsOfAppend
  <2>2. Encrypts(Append(x.ev, "timer")) = Encrypts(x.ev)
    BY <1>1, EncryptsOfAppend
  <2>3. Ltks(Append(x.ev, "timer")) = Ltks(x.ev) BY <2>1 DEF Ltks
  <2> QED BY <2>1, <2>2, <2>3
<1>3. CASE x.ok /\ Len(x.ev) < SmCap
  <2> DEFINE z == [x EXCEPT !.ev = Append(x.ev, "timer")]
  <2>1. Timer(x) = z BY <1>3 DEF Timer
  <2>2. z \in Handler BY <1>2 DEF Handler
  <2> QED BY <2>1, <2>2, <1>2 DEF Handler
<1>4. CASE ~(x.ok /\ Len(x.ev) < SmCap) BY <1>4 DEF Timer
<1> QED BY <1>3, <1>4

LEMMA SendDoes ==
  ASSUME NEW x \in Handler, NEW k, NEW v, [k |-> k, v |-> v] \in Message
  PROVE LET y == Send(x, k, v)
        IN /\ y \in Handler
           /\ y.s = x.s /\ y.app = x.app /\ y.key = x.key /\ y.seen = x.seen
           /\ Encrypts(y.ev) = Encrypts(x.ev)
           /\ Ltks(y.ev) \subseteq Ltks(x.ev)
           /\ y.ok => x.ok
           /\ y.ok => Elems(y.out) = Elems(x.out) \cup {[k |-> k, v |-> v]}
           /\ ~y.ok => y.out = x.out
<1>1. CASE ~x.ok BY <1>1 DEF Send, Handler
<1>2. CASE x.ok /\ x.room = 0 BY <1>2 DEF Send, Fail, Handler
<1>3. CASE x.ok /\ x.room # 0
  <2> DEFINE m == [k |-> k, v |-> v]
             o == Append(x.out, m)
             r == x.room - 1
             z == [x EXCEPT !.out = o, !.room = r]
  <2>1. x.out \in Seq(Message) /\ x.room \in Nat BY DEF Handler
  <2>2. r \in Nat BY <2>1, <1>3
  <2>3. o \in Seq(Message) /\ Elems(o) = Elems(x.out) \cup {m}
    BY <2>1, ElemsOfAppend
  <2>4. Send(x, k, v) = Timer(z) BY <1>3 DEF Send
  <2> HIDE DEF m, o, r
  <2>5. z \in Handler BY <2>2, <2>3 DEF Handler
  <2>6. /\ z.s = x.s /\ z.out = o /\ z.app = x.app /\ z.key = x.key
        /\ z.ok = x.ok /\ z.seen = x.seen /\ z.ev = x.ev
    BY DEF Handler
  <2> HIDE DEF z
  <2> QED BY <2>3, <2>4, <2>5, <2>6, TimerDoes, <1>3 DEF m
<1> QED BY <1>1, <1>2, <1>3 DEF Handler

LEMMA TellDoes ==
  ASSUME NEW x \in Handler, NEW n \in News
  PROVE LET y == Tell(x, n)
        IN /\ y \in Handler
           /\ y.s = x.s /\ y.out = x.out /\ y.key = x.key /\ y.seen = x.seen
           /\ Encrypts(y.ev) = Encrypts(x.ev)
           /\ Ltks(y.ev) \subseteq Ltks(x.ev)
           /\ y.ok => x.ok
           /\ Elems(y.app) \subseteq Elems(x.app) \cup {n}
<1>1. CASE ~x.ok BY <1>1 DEF Tell
<1>2. CASE x.ok /\ Len(x.app) >= EventCap BY <1>2 DEF Tell, Fail, Handler
<1>3. CASE x.ok /\ ~(Len(x.app) >= EventCap)
  <2> DEFINE o == Append(x.app, n)
             z == [x EXCEPT !.app = o]
  <2>1. x.app \in Seq(News) BY DEF Handler
  <2>2. o \in Seq(News) /\ Elems(o) = Elems(x.app) \cup {n}
    BY <2>1, ElemsOfAppend
  <2>3. Tell(x, n) \in {z, Timer(z)} BY <1>3 DEF Tell
  <2> HIDE DEF o
  <2>4. z \in Handler BY <2>2 DEF Handler
  <2>5. /\ z.s = x.s /\ z.out = x.out /\ z.app = o /\ z.key = x.key
        /\ z.ok = x.ok /\ z.seen = x.seen /\ z.ev = x.ev
    BY DEF Handler
  <2> HIDE DEF z
  <2> QED BY <2>2, <2>3, <2>4, <2>5, TimerDoes, <1>3
<1> QED BY <1>1, <1>2, <1>3 DEF Handler

LEMMA KeepDoes ==
  ASSUME NEW x \in Handler, NEW e, NEW k \in Keys
  PROVE LET y == Keep(e, x, k)
        IN /\ y \in Handler
           /\ y.s = x.s /\ y.out = x.out /\ y.app = x.app /\ y.ev = x.ev
           /\ y.seen = x.seen
           /\ y.ok => x.ok /\ y.key = k
           /\ ~y.ok => y.key = x.key
<1>1. CASE ~x.ok BY <1>1 DEF Keep
<1>2. CASE x.ok /\ x.key = NoKey /\ e \in start.crowded
  BY <1>2 DEF Keep, Fail, Handler
<1>3. CASE x.ok /\ ~(x.key = NoKey /\ e \in start.crowded)
  <2>1. Keep(e, x, k) = [x EXCEPT !.key = k] BY <1>3 DEF Keep
  <2> QED BY <2>1, <1>3 DEF Handler
<1> QED BY <1>1, <1>2, <1>3 DEF Handler

LEMMA EncryptDoes ==
  ASSUME NEW x \in Handler
  PROVE LET y == Encrypt(x)
        IN /\ y \in Handler
           /\ y.out = x.out /\ y.app = x.app /\ y.key = x.key
           /\ y.seen = x.seen
           /\ y.ok => x.ok
           /\ ~y.ok => y.s = x.s /\ y.ev = x.ev
           /\ y.ok => /\ y.s = [x.s EXCEPT !.bond = x.key]
                      /\ y.ev = Append(x.ev, "encrypt")
           /\ Ltks(y.ev) \subseteq Ltks(x.ev)
<1>1. CASE ~x.ok BY <1>1 DEF Encrypt
<1>2. CASE x.ok /\ Len(x.ev) >= SmCap BY <1>2 DEF Encrypt, Fail, Handler
<1>3. CASE x.ok /\ ~(Len(x.ev) >= SmCap)
  <2> DEFINE o == Append(x.ev, "encrypt")
             t == [x.s EXCEPT !.bond = x.key]
             z == [x EXCEPT !.ev = o, !.s = t]
  <2>1. x.ev \in Seq(Queued) /\ x.s \in Machine /\ x.key \in Keys
        /\ "encrypt" \in Queued
    BY DEF Handler, Queued
  <2>2. o \in Seq(Queued) /\ Ltks(o) = Ltks(x.ev)
    BY <2>1, ElemsOfAppend DEF Ltks
  <2>3. t \in Machine BY <2>1 DEF Machine
  <2>4. Encrypt(x) = z BY <1>3 DEF Encrypt
  <2> HIDE DEF o, t
  <2>5. z \in Handler BY <2>2, <2>3 DEF Handler
  <2>6. /\ z.s = t /\ z.out = x.out /\ z.app = x.app /\ z.key = x.key
        /\ z.ok = x.ok /\ z.seen = x.seen /\ z.ev = o
    BY DEF Handler
  <2> HIDE DEF z
  <2> QED BY <2>2, <2>4, <2>5, <2>6, <1>3 DEF o, t
<1> QED BY <1>1, <1>2, <1>3 DEF Handler

LEMMA FailDoes ==
  ASSUME NEW x \in Handler
  PROVE \A y \in {Fail(x), Refuse(x)} :
           /\ y \in Handler
           /\ y.s = x.s /\ y.out = x.out /\ y.app = x.app /\ y.key = x.key
           /\ y.ev = x.ev /\ y.seen = x.seen
           /\ ~y.ok
  BY DEF Fail, Refuse, Handler

LEMMA CheckDoes ==
  ASSUME NEW x \in Handler, NEW good
  PROVE LET y == Check(x, good)
        IN /\ y \in Handler
           /\ y.s = x.s /\ y.out = x.out /\ y.app = x.app /\ y.key = x.key
           /\ y.ev = x.ev /\ y.seen = x.seen
           /\ y.ok => x.ok /\ good
<1>1. CASE x.ok /\ ~good BY <1>1, FailDoes DEF Check
<1>2. CASE ~(x.ok /\ ~good) BY <1>2 DEF Check
<1> QED BY <1>1, <1>2

(* Any change of the machine alone. *)
LEMMA PutDoes ==
  ASSUME NEW x \in Handler, NEW t \in Machine
  PROVE LET y == [x EXCEPT !.s = t]
        IN /\ y \in Handler
           /\ y.s = t
           /\ y.out = x.out /\ y.app = x.app /\ y.key = x.key
           /\ y.ev = x.ev /\ y.seen = x.seen /\ y.ok = x.ok
  BY DEF Handler

LEMMA ReportDoes ==
  ASSUME NEW x \in Handler
  PROVE LET y == Report(x)
        IN /\ y \in Handler
           /\ y.s = x.s /\ y.app = x.app /\ y.key = x.key /\ y.ev = x.ev
           /\ y.seen = x.seen /\ y.ok = x.ok
           /\ Elems(y.out) \subseteq
                Elems(x.out) \cup {[k |-> "failed", v |-> <<>>]}
<1>1. CASE x.room = 0 BY <1>1 DEF Report
<1>2. CASE x.room # 0
  <2> DEFINE m == [k |-> "failed", v |-> <<>>]
             o == Append(x.out, m)
             z == [x EXCEPT !.out = o]
  <2>1. x.out \in Seq(Message) /\ m \in Message
    BY DEF Handler, Message, BareMsgs, Nothing
  <2>2. o \in Seq(Message) /\ Elems(o) = Elems(x.out) \cup {m}
    BY <2>1, ElemsOfAppend
  <2>3. Report(x) = z BY <1>2 DEF Report
  <2> HIDE DEF m, o
  <2>4. z \in Handler BY <2>2 DEF Handler
  <2>5. /\ z.s = x.s /\ z.out = o /\ z.app = x.app /\ z.key = x.key
        /\ z.ev = x.ev /\ z.seen = x.seen /\ z.ok = x.ok
    BY DEF Handler
  <2> HIDE DEF z
  <2> QED BY <2>2, <2>3, <2>4, <2>5 DEF m
<1> QED BY <1>1, <1>2

----------------------------------------------------------------------------
(* Chains of effects. *)
LEMMA ChainMore ==
  ASSUME NEW x, NEW y, NEW M, NEW N, NEW A, NEW B,
         Chain(x, y, M, A), M \subseteq N, A \subseteq B
  PROVE Chain(x, y, N, B)
  BY DEF Chain

LEMMA PutChain ==
  ASSUME NEW x \in Handler, NEW t \in Machine
  PROVE LET y == [x EXCEPT !.s = t]
        IN Chain(x, y, {}, {}) /\ y.s = t /\ y.seen = x.seen /\ y.ok = x.ok
<1> DEFINE y == [x EXCEPT !.s = t]
<1>1. /\ y \in Handler
      /\ y.s = t
      /\ y.out = x.out /\ y.app = x.app /\ y.key = x.key
      /\ y.ev = x.ev /\ y.seen = x.seen /\ y.ok = x.ok
  BY PutDoes
<1> HIDE DEF y
<1>2. Chain(x, y, {}, {}) BY <1>1 DEF Chain
<1> QED BY <1>1, <1>2 DEF y

LEMMA PlainKinds ==
  /\ [k |-> "public_key", v |-> <<>>] \in Plain
  /\ [k |-> "security", v |-> <<>>] \in Plain
  /\ [k |-> "failed", v |-> <<>>] \in Plain
  /\ \A n, k, r \in Nat : [k |-> "confirm", v |-> <<n, Bit(k, r)>>] \in Plain
  /\ \A n \in Nat : [k |-> "random", v |-> <<n>>] \in Plain
<1>1. /\ [k |-> "public_key", v |-> <<>>] \in BareMsgs
      /\ [k |-> "security", v |-> <<>>] \in BareMsgs
      /\ [k |-> "failed", v |-> <<>>] \in BareMsgs
  BY DEF BareMsgs, Nothing
<1>2. ASSUME NEW n \in Nat, NEW k \in Nat, NEW r \in Nat
      PROVE [k |-> "confirm", v |-> <<n, Bit(k, r)>>] \in ConfirmMsgs
  <2>1. <<n, Bit(k, r)>> \in Commitments BY DEF Commitments
  <2> QED BY <2>1 DEF ConfirmMsgs
<1>3. ASSUME NEW n \in Nat
      PROVE [k |-> "random", v |-> <<n>>] \in RandomMsgs
  BY DEF RandomMsgs, Nonces
<1> QED BY <1>1, <1>2, <1>3 DEF Plain, Message

LEMMA SendPlain ==
  ASSUME NEW x \in Handler, NEW k, NEW v, [k |-> k, v |-> v] \in Plain
  PROVE LET y == Send(x, k, v)
        IN Chain(x, y, Plain, {}) /\ y.s = x.s /\ y.seen = x.seen
<1>1. [k |-> k, v |-> v] \in Message BY DEF Plain
<1> QED BY <1>1, SendDoes DEF Chain

LEMMA TellChain ==
  ASSUME NEW x \in Handler, NEW n \in News
  PROVE LET y == Tell(x, n)
        IN Chain(x, y, {}, {n}) /\ y.s = x.s /\ y.seen = x.seen
  BY TellDoes DEF Chain

LEMMA CheckChain ==
  ASSUME NEW x \in Handler, NEW good
  PROVE LET y == Check(x, good)
        IN /\ Chain(x, y, {}, {}) /\ y.s = x.s /\ y.seen = x.seen
           /\ y.ok => good
<1>1. LET y == Check(x, good)
      IN /\ y \in Handler
         /\ y.s = x.s /\ y.out = x.out /\ y.app = x.app /\ y.key = x.key
         /\ y.ev = x.ev /\ y.seen = x.seen
         /\ y.ok => x.ok /\ good
  BY CheckDoes
<1> DEFINE y == Check(x, good)
<1>2. /\ y \in Handler
      /\ y.s = x.s /\ y.out = x.out /\ y.app = x.app /\ y.key = x.key
      /\ y.ev = x.ev /\ y.seen = x.seen
      /\ y.ok => x.ok /\ good
  BY <1>1
<1> HIDE DEF y
<1>3. Chain(x, y, {}, {}) BY <1>2 DEF Chain
<1> QED BY <1>2, <1>3 DEF y

LEMMA GoChain ==
  ASSUME NEW x \in Handler, NEW step \in Steps
  PROVE LET y == Go(x, step)
        IN /\ Chain(x, y, {}, {}) /\ y.seen = x.seen /\ y.ok = x.ok
           /\ ~y.ok => y.s = x.s
           /\ y.ok => y.s = [x.s EXCEPT !.step = step]
<1> DEFINE t == [x.s EXCEPT !.step = step]
<1>1. t \in Machine BY DEF Handler, Machine
<1>2. CASE ~x.ok BY <1>2 DEF Go, Chain
<1>3. CASE x.ok
  <2>1. Go(x, step) = [x EXCEPT !.s = t] BY <1>3 DEF Go
  <2> HIDE DEF t
  <2>2. LET y == [x EXCEPT !.s = t]
        IN Chain(x, y, {}, {}) /\ y.s = t /\ y.seen = x.seen /\ y.ok = x.ok
    BY <1>1, PutChain
  <2> QED BY <2>1, <2>2, <1>3 DEF t
<1> QED BY <1>2, <1>3

LEMMA GoRoundChain ==
  ASSUME NEW x \in Handler, NEW step \in Steps, NEW r \in Nat
  PROVE LET y == GoRound(x, step, r)
        IN /\ Chain(x, y, {}, {}) /\ y.seen = x.seen /\ y.ok = x.ok
           /\ ~y.ok => y.s = x.s
           /\ y.ok => y.s = [x.s EXCEPT !.step = step, !.round = r]
<1> DEFINE t == [x.s EXCEPT !.step = step, !.round = r]
<1>1. t \in Machine BY DEF Handler, Machine
<1>2. CASE ~x.ok BY <1>2 DEF GoRound, Chain
<1>3. CASE x.ok
  <2>1. GoRound(x, step, r) = [x EXCEPT !.s = t] BY <1>3 DEF GoRound
  <2> HIDE DEF t
  <2>2. LET y == [x EXCEPT !.s = t]
        IN Chain(x, y, {}, {}) /\ y.s = t /\ y.seen = x.seen /\ y.ok = x.ok
    BY <1>1, PutChain
  <2> QED BY <2>1, <2>2, <1>3 DEF t
<1> QED BY <1>2, <1>3

LEMMA FailChain ==
  ASSUME NEW x \in Handler
  PROVE \A y \in {Fail(x), Refuse(x)} :
          Chain(x, y, {}, {}) /\ y.s = x.s /\ y.seen = x.seen /\ ~y.ok
<1>1. ASSUME NEW y \in Handler, y.out = x.out, y.app = x.app, y.key = x.key,
             y.ev = x.ev, ~y.ok
      PROVE Chain(x, y, {}, {})
  BY <1>1 DEF Chain
<1> QED BY <1>1, FailDoes

LEMMA SendConfirmChain ==
  ASSUME NEW x \in Handler, NEW r \in Nat
  PROVE LET y == SendConfirm(x, r)
        IN /\ Chain(x, y, Plain, {}) /\ y.seen = x.seen
           /\ y.s = [x.s EXCEPT !.nonce = x.s.nonce + 1]
<1> DEFINE n == x.s.nonce + 1
           t == [x.s EXCEPT !.nonce = n]
           z == [x EXCEPT !.s = t]
           v == <<n, Bit(x.s.secret, r)>>
<1>1. x.s \in Machine BY DEF Handler
<1>2. n \in Nat /\ x.s.secret \in Nat BY <1>1 DEF Machine
<1>3. [k |-> "confirm", v |-> v] \in Plain BY <1>2, PlainKinds
<1> HIDE DEF n
<1>4. t \in Machine BY <1>1, <1>2 DEF Machine
<1>5. t.nonce = n /\ t.secret = x.s.secret BY <1>1 DEF Machine
<1> HIDE DEF t
<1>6. Chain(x, z, {}, {}) /\ z.s = t /\ z.seen = x.seen BY <1>4, PutChain
<1>7. Draw(x) = z BY DEF Draw, z, t, n
<1> HIDE DEF z
<1>8. SendConfirm(x, r) = Send(z, "confirm", v)
  BY <1>5, <1>6, <1>7 DEF SendConfirm
<1> HIDE DEF v
<1>9. z \in Handler BY <1>6 DEF Chain
<1>10. LET y == Send(z, "confirm", v)
       IN Chain(z, y, Plain, {}) /\ y.s = z.s /\ y.seen = z.seen
  BY <1>3, <1>9, SendPlain
<1> DEFINE y == Send(z, "confirm", v)
<1>11. Chain(z, y, Plain, {}) /\ y.s = z.s /\ y.seen = z.seen BY <1>10
<1> HIDE DEF y
<1>12. Chain(x, y, Plain, {}) BY <1>6, <1>11 DEF Chain
<1> QED BY <1>6, <1>8, <1>11, <1>12 DEF y, t, n

LEMMA SendRandomChain ==
  ASSUME NEW x \in Handler
  PROVE LET y == SendRandom(x)
        IN Chain(x, y, Plain, {}) /\ y.seen = x.seen /\ y.s = x.s
<1>1. x.s.nonce \in Nat BY DEF Handler, Machine
<1>2. [k |-> "random", v |-> <<x.s.nonce>>] \in Plain BY <1>1, PlainKinds
<1> QED BY <1>2, SendPlain DEF SendRandom

LEMMA SendCheckChain ==
  ASSUME NEW x \in Handler
  PROVE LET y == SendCheck(x)
        IN /\ Chain(x, y, {CheckMsg(x.s)}, {}) /\ y.seen = x.seen /\ y.s = x.s
           /\ ~y.ok => y.out = x.out
<1>1. x.s \in Machine BY DEF Handler
<1>2. Proof(x.s) \in Checks BY <1>1 DEF Machine, Checks, Proof
<1>3. [k |-> "dhkey", v |-> Proof(x.s)] \in Message
  BY <1>2 DEF Message, CheckMsgs
<1>4. LET y == Send(x, "dhkey", Proof(x.s))
      IN /\ y \in Handler
         /\ y.s = x.s /\ y.app = x.app /\ y.key = x.key /\ y.seen = x.seen
         /\ Encrypts(y.ev) = Encrypts(x.ev)
         /\ Ltks(y.ev) \subseteq Ltks(x.ev)
         /\ y.ok => x.ok
         /\ y.ok => Elems(y.out) =
                      Elems(x.out) \cup {[k |-> "dhkey", v |-> Proof(x.s)]}
         /\ ~y.ok => y.out = x.out
  BY <1>3, SendDoes
<1>5. SendCheck(x) = Send(x, "dhkey", Proof(x.s)) BY DEF SendCheck, Proof
<1> QED BY <1>4, <1>5 DEF Chain, CheckMsg

LEMMA SetSecretChain ==
  ASSUME NEW x \in Handler, NEW k \in Nat
  PROVE LET y == SetSecret(x, k)
        IN /\ Chain(x, y, {}, {}) /\ y.seen = k + 1 /\ y.ok = x.ok
           /\ y.s = [x.s EXCEPT !.secret = k]
<1> DEFINE t == [x.s EXCEPT !.secret = k]
           n == k + 1
           y == [x EXCEPT !.s = t, !.seen = n]
<1>1. t \in Machine BY DEF Handler, Machine
<1>2. n \in Nat OBVIOUS
<1>3. SetSecret(x, k) = [x EXCEPT !.s = t, !.seen = n] BY DEF SetSecret
<1> HIDE DEF t, n
<1>4. y \in Handler BY <1>1, <1>2 DEF Handler
<1>5. /\ y.s = t /\ y.seen = n /\ y.ok = x.ok /\ y.key = x.key /\ y.ev = x.ev
      /\ y.out = x.out /\ y.app = x.app
  BY DEF Handler
<1> HIDE DEF y
<1>6. Chain(x, y, {}, {}) BY <1>4, <1>5 DEF Chain
<1> QED BY <1>3, <1>5, <1>6 DEF y, t, n

----------------------------------------------------------------------------
(* The runs of the central's machine. *)
LEMMA MethodKinds ==
  /\ Method \in {"just_works", "numeric", "central", "peripheral", "both"}
  /\ Passkey <=> Method \notin {"just_works", "numeric"}
<1>1. Method \in {"just_works", "numeric", "central", "peripheral", "both"}
  BY DEF Method
<1> QED BY <1>1 DEF Passkey

LEMMA NotesHave ==
  /\ News \ {"confirm"} \subseteq Notes /\ Notes \subseteq News
  /\ {"display", "input", "complete", "failed"} \subseteq Notes
  /\ Method = "numeric" => "confirm" \in Notes
  BY DEF Notes, News

LEMMA NewKeyType ==
  ASSUME NEW s \in Machine, NEW e, link \in Nat
  PROVE NewKey(e, s) \in Keys /\ NewKey(e, s) # NoKey
<1>1. Level \in Levels /\ Level # "none" BY DEF Level, Levels
<1>2. WantBonding(s) \in BOOLEAN BY DEF WantBonding, Machine
<1>3. s.nonce \in Nat /\ s.peernonce \in Nat BY DEF Machine
<1>4. NewKey(e, s) \in Keys BY <1>1, <1>2, <1>3 DEF NewKey, Keys
<1>5. NewKey(e, s).level = Level /\ NoKey.level = "none" BY DEF NewKey, NoKey
<1> QED BY <1>1, <1>4, <1>5

(* Runs of the central that make no key and start no encryption.            *)
LEMMA CentralProves ==
  ASSUME NEW x, NEW y, NEW t, CentralBegins(x),
         Chain(x, y, Plain \cup {CheckMsg(t)}, Notes),
         y.s.bond = x.s.bond, y.s.own = x.s.own,
         x.s.step \in CentralEarly \ {"idle", "dhkey_eb"},
         y.s.step \in CentralEarly \ {"idle"},
         y.s.step \in CentralKnows =>
           /\ x.s.step = "response" => HeardFlag("central", "response", y.s.peer)
           /\ x.s.step # "response" => y.s.peer = x.s.peer,
         y.s.step = "response" \/ x.s.step \in CentralKnows \/ x.s.step = "response",
         Fits(y.s.step),
         Passkey /\ y.s.step \in CentralTold =>
           IF x.s.step \in CentralTold
           THEN y.s.secret = x.s.secret /\ y.seen = x.seen
           ELSE y.seen = y.s.secret + 1,
         Method = "numeric" /\ y.s.step = "dhkey_eb"
           => x.s.step \in {"dhkey_eb", "result"}
  PROVE CentralRun(x, y)
<1>1. Elems(x.out) = {} BY ElemsOfNone DEF CentralBegins
<1>2. \A m \in Elems(y.out) : m.k \notin {"request", "response"}
  BY <1>1 DEF Chain, Plain, CheckMsg
<1> QED BY <1>2 DEF CentralRun, CentralEarly, CentralLate, CentralKnows, Encrypting, Chain

LEMMA CentralQuiet ==
  ASSUME NEW x, NEW y, CentralBegins(x),
         Chain(x, y, Plain, Notes),
         y.s.bond = x.s.bond, y.s.own = x.s.own,
         x.s.step \in CentralEarly \ {"idle", "dhkey_eb"},
         y.s.step \in CentralEarly \ {"idle"},
         y.s.step \in CentralKnows =>
           /\ x.s.step = "response" => HeardFlag("central", "response", y.s.peer)
           /\ x.s.step # "response" => y.s.peer = x.s.peer,
         y.s.step = "response" \/ x.s.step \in CentralKnows \/ x.s.step = "response",
         Fits(y.s.step),
         Passkey /\ y.s.step \in CentralTold =>
           IF x.s.step \in CentralTold
           THEN y.s.secret = x.s.secret /\ y.seen = x.seen
           ELSE y.seen = y.s.secret + 1,
         Method = "numeric" /\ y.s.step = "dhkey_eb"
           => x.s.step \in {"dhkey_eb", "result"}
  PROVE CentralRun(x, y)
<1>1. Chain(x, y, Plain \cup {CheckMsg(x.s)}, Notes) BY ChainMore
<1> QED BY <1>1, CentralProves

(* A command or an event that changes nothing. *)
LEMMA CentralStays ==
  ASSUME NEW x, NEW y, CentralBegins(x),
         Chain(x, y, {}, Notes), y.s = x.s, y.seen = x.seen,
         x.s.step = "idle" => ~y.ok
  PROVE CentralRun(x, y)
<1>1. Elems(x.out) = {} BY ElemsOfNone DEF CentralBegins
<1>2. Elems(y.out) = {} BY <1>1 DEF Chain
<1> QED BY <1>1, <1>2 DEF CentralRun, CentralEarly, CentralLate, CentralKnows,
                     CentralTold, Encrypting, Chain, CentralBegins

LEMMA MessageKinds ==
  ASSUME NEW m \in Message
  PROVE /\ m.k = "confirm" => m.v \in Commitments
        /\ m.k = "random" => m.v[1] \in Nat
        /\ m.k = "dhkey" => m.v \in Checks
        /\ m.k \in {"request", "response"} => m.v \in Flagged
<1>1. CASE m \in FlagMsgs BY <1>1 DEF FlagMsgs
<1>2. CASE m \in BareMsgs BY <1>2 DEF BareMsgs
<1>3. CASE m \in ConfirmMsgs BY <1>3 DEF ConfirmMsgs
<1>4. CASE m \in RandomMsgs BY <1>4 DEF RandomMsgs, Nonces
<1>5. CASE m \in CheckMsgs BY <1>5 DEF CheckMsgs
<1> QED BY <1>1, <1>2, <1>3, <1>4, <1>5 DEF Message

LEMMA DrawChain ==
  ASSUME NEW x \in Handler
  PROVE LET y == Draw(x)
        IN /\ Chain(x, y, {}, {}) /\ y.seen = x.seen /\ y.ok = x.ok
           /\ y.s = [x.s EXCEPT !.nonce = x.s.nonce + 1]
<1> DEFINE n == x.s.nonce + 1
           t == [x.s EXCEPT !.nonce = n]
<1>1. x.s \in Machine BY DEF Handler
<1>2. n \in Nat BY <1>1 DEF Machine
<1> HIDE DEF n
<1>3. t \in Machine BY <1>1, <1>2 DEF Machine
<1> HIDE DEF t
<1>4. LET y == [x EXCEPT !.s = t]
      IN Chain(x, y, {}, {}) /\ y.s = t /\ y.seen = x.seen /\ y.ok = x.ok
  BY <1>3, PutChain
<1>5. Draw(x) = [x EXCEPT !.s = t] BY DEF Draw, t, n
<1> QED BY <1>4, <1>5 DEF t, n

(* Changes of the machine that leave the key, the flags and the secret.     *)
LEMMA Stepped ==
  ASSUME NEW s \in Machine, NEW step \in Steps, NEW r \in Nat
  PROVE /\ [s EXCEPT !.step = step] \in Machine
        /\ [s EXCEPT !.step = step].step = step
        /\ [s EXCEPT !.step = step, !.round = r] \in Machine
        /\ [s EXCEPT !.step = step, !.round = r].step = step
        /\ \A t \in {[s EXCEPT !.step = step],
                     [s EXCEPT !.step = step, !.round = r]} :
             /\ t.bond = s.bond /\ t.own = s.own /\ t.peer = s.peer
             /\ t.secret = s.secret /\ t.nonce = s.nonce
             /\ t.peernonce = s.peernonce /\ t.held = s.held
             /\ t.confirm = s.confirm
  BY DEF Machine

LEMMA Drawn ==
  ASSUME NEW s \in Machine
  PROVE LET t == [s EXCEPT !.nonce = s.nonce + 1]
        IN /\ t.step = s.step /\ t.bond = s.bond /\ t.own = s.own
           /\ t.peer = s.peer /\ t.secret = s.secret /\ t.held = s.held
           /\ t.peernonce = s.peernonce /\ t.confirm = s.confirm
           /\ t.round = s.round
  BY DEF Machine

LEMMA InitiateRuns ==
  ASSUME NEW x, CentralBegins(x), x.s.step = "idle"
  PROVE LET y == Initiate(x)
        IN /\ CentralRun(x, y)
           /\ y.ok \/ (y.out = <<>> /\ y.s = x.s /\ y.seen = x.seen)
<1>1. x \in Handler /\ x.ok /\ x.out = <<>> /\ x.s \in Machine
      /\ x.key \in Keys /\ x.s.own \in BOOLEAN /\ x.ev \in Seq(Queued)
  BY DEF CentralBegins, Handler, Machine
<1>2. CASE x.key # NoKey
  <2> DEFINE z == Encrypt(x)
             y == Go(z, "bonded_link")
  <2>1. Initiate(x) = y BY <1>2 DEF Initiate
  <2>2. /\ z \in Handler
        /\ z.out = x.out /\ z.app = x.app /\ z.key = x.key
        /\ z.seen = x.seen
        /\ z.ok => x.ok
        /\ ~z.ok => z.s = x.s /\ z.ev = x.ev
        /\ z.ok => /\ z.s = [x.s EXCEPT !.bond = x.key]
                   /\ z.ev = Append(x.ev, "encrypt")
        /\ Ltks(z.ev) \subseteq Ltks(x.ev)
    BY <1>1, EncryptDoes
  <2> HIDE DEF z
  <2>3. /\ Chain(z, y, {}, {}) /\ y.seen = z.seen /\ y.ok = z.ok
        /\ ~y.ok => y.s = z.s
        /\ y.ok => y.s = [z.s EXCEPT !.step = "bonded_link"]
    BY <2>2, GoChain DEF Steps
  <2> HIDE DEF y
  <2>4. Elems(y.out) = {} BY <1>1, <2>2, <2>3, ElemsOfNone DEF Chain
  <2>5. /\ y \in Handler /\ y.key = x.key /\ y.seen = x.seen
        /\ Elems(y.app) \subseteq Elems(x.app)
        /\ Encrypts(y.ev) = Encrypts(z.ev)
        /\ Ltks(y.ev) \subseteq Ltks(x.ev)
    BY <2>2, <2>3 DEF Chain
  <2>6. CASE ~y.ok
    <3>1. y.s = x.s /\ Encrypts(y.ev) = Encrypts(x.ev)
      BY <2>6, <2>2, <2>3, <2>5
    <3>2. Chain(x, y, {}, Notes) BY <2>4, <2>5, <2>6, <3>1 DEF Chain
    <3>3. CentralRun(x, y) BY <3>1, <3>2, <2>5, <2>6, CentralStays
    <3>4. y.out = <<>>
      <4>1. y = z BY <2>6, <2>3 DEF y, Go
      <4> QED BY <4>1, <2>2, <1>1
    <3> QED BY <3>1, <3>3, <3>4, <2>1, <2>5
  <2>7. CASE y.ok
    <3>1. Encrypts(z.ev) = Encrypts(x.ev) \cup {Len(x.ev) + 1}
      BY <1>1, <2>2, <2>3, <2>7, EncryptsOfAppend DEF Queued
    <3>2. y.s = [[x.s EXCEPT !.bond = x.key] EXCEPT !.step = "bonded_link"]
      BY <2>2, <2>3, <2>7
    <3>3. /\ y.s.step = "bonded_link" /\ y.s.bond = x.key
          /\ y.s.own = x.s.own
      BY <3>2, <1>1 DEF Machine
    <3>4. CentralRun(x, y)
      BY <1>1, <1>2, <2>4, <2>5, <2>7, <3>1, <3>3, NotesHave
      DEF CentralRun, CentralBegins, CentralEarly, CentralLate, CentralKnows,
          CentralTold, Encrypting, Fits
    <3> QED BY <3>4, <2>1, <2>7
  <2> QED BY <2>6, <2>7
<1>3. CASE x.key = NoKey
  <2> DEFINE v == <<Flag(x.s.own)>>
             z == Send(x, "request", v)
             y == Go(z, "response")
  <2>1. Initiate(x) = y BY <1>3 DEF Initiate
  <2>2. [k |-> "request", v |-> v] \in Message
    BY <1>1 DEF Message, FlagMsgs, Flagged, Flag
  <2>3. /\ z \in Handler
        /\ z.s = x.s /\ z.app = x.app /\ z.key = x.key /\ z.seen = x.seen
        /\ Encrypts(z.ev) = Encrypts(x.ev)
        /\ Ltks(z.ev) \subseteq Ltks(x.ev)
        /\ z.ok => x.ok
        /\ z.ok => Elems(z.out) = Elems(x.out) \cup {[k |-> "request", v |-> v]}
        /\ ~z.ok => z.out = x.out
    BY <1>1, <2>2, SendDoes
  <2> HIDE DEF z
  <2>4. /\ Chain(z, y, {}, {}) /\ y.seen = z.seen /\ y.ok = z.ok
        /\ ~y.ok => y.s = z.s
        /\ y.ok => y.s = [z.s EXCEPT !.step = "response"]
    BY <2>3, GoChain DEF Steps
  <2>5. ~y.ok => y = z BY <2>4 DEF Go
  <2> HIDE DEF y
  <2>6. CASE ~y.ok
    <3>1. y.s = x.s /\ y.out = <<>> /\ y.seen = x.seen
      BY <2>6, <2>3, <2>4, <2>5, <1>1
    <3>2. Chain(x, y, {}, Notes) BY <2>6, <2>3, <2>5, <1>1 DEF Chain
    <3>3. CentralRun(x, y) BY <3>1, <3>2, <2>6, CentralStays
    <3> QED BY <3>1, <3>3, <2>1
  <2>7. CASE y.ok
    <3>1. /\ y.s.step = "response" /\ y.s.bond = x.s.bond
          /\ y.s.own = x.s.own
      BY <2>3, <2>4, <2>7, <1>1 DEF Machine
    <3>2. \A m \in Elems(y.out) : m.k = "request" /\ m.v = v
      BY <1>1, <2>3, <2>4, <2>7, ElemsOfNone DEF Chain
    <3>3. CentralRun(x, y)
      BY <1>1, <1>3, <2>3, <2>4, <3>1, <3>2, NotesHave
      DEF CentralRun, CentralBegins, CentralEarly, CentralLate, CentralKnows,
          CentralTold, Encrypting, Fits, Chain
    <3> QED BY <3>3, <2>1, <2>7
  <2> QED BY <2>6, <2>7
<1> QED BY <1>2, <1>3

(* The commands of the central, one by one. *)
LEMMA ResponseRuns ==
  ASSUME NEW x, CentralBegins(x), x.s.step = "response",
         NEW m \in Message, m \in Elems(wire["central"]), m.k = "response"
  PROVE LET z == [x EXCEPT !.s.peer = m.v = <<1>>]
            y == Go(Send(z, "public_key", <<>>), "public_key")
        IN CentralRun(x, y)
<1> DEFINE b == (m.v = <<1>>)
           t == [x.s EXCEPT !.peer = b]
           z == [x EXCEPT !.s.peer = m.v = <<1>>]
           u == Send(z, "public_key", <<>>)
           y == Go(u, "public_key")
<1>1. x \in Handler /\ x.s \in Machine BY DEF CentralBegins, Handler
<1>2. b \in BOOLEAN OBVIOUS
<1> HIDE DEF b
<1>3. /\ t \in Machine /\ t.peer = b /\ t.bond = x.s.bond /\ t.own = x.s.own
      /\ t.step = x.s.step /\ t.secret = x.s.secret
  BY <1>1, <1>2 DEF Machine
<1> HIDE DEF t
<1>4. LET q == [x EXCEPT !.s = t]
      IN Chain(x, q, {}, {}) /\ q.s = t /\ q.seen = x.seen /\ q.ok = x.ok
  BY <1>1, <1>3, PutChain
<1>5. z = [x EXCEPT !.s = t] BY DEF t, b
<1>6. Chain(x, z, {}, {}) /\ z.s = t /\ z.seen = x.seen BY <1>4, <1>5
<1> HIDE DEF z
<1>7. z \in Handler BY <1>6 DEF Chain
<1>8. Chain(z, u, Plain, {}) /\ u.s = z.s /\ u.seen = z.seen
  BY <1>7, SendPlain, PlainKinds
<1> HIDE DEF u
<1>9. /\ Chain(u, y, {}, {}) /\ y.seen = u.seen /\ y.ok = u.ok
      /\ ~y.ok => y.s = u.s
      /\ y.ok => y.s = [u.s EXCEPT !.step = "public_key"]
  BY <1>8, GoChain DEF Chain, Steps
<1> HIDE DEF y
<1>10. Chain(x, y, Plain, Notes) BY <1>6, <1>8, <1>9 DEF Chain
<1>11. /\ y.s.bond = x.s.bond /\ y.s.own = x.s.own /\ y.s.peer = b
       /\ y.s.step \in {"response", "public_key"}
  BY <1>3, <1>6, <1>8, <1>9 DEF Machine
<1>12. HeardFlag("central", "response", b) BY DEF HeardFlag, b
<1>13. Fits(y.s.step) BY <1>11 DEF Fits
<1>14. CentralRun(x, y)
  BY <1>10, <1>11, <1>12, <1>13, CentralQuiet
  DEF CentralEarly, CentralKnows, CentralTold
<1> QED BY <1>14 DEF y, u, z

LEMMA PublicKeyRuns ==
  ASSUME NEW x, CentralBegins(x), x.s.step = "public_key",
         NEW shown \in Nat
  PROVE /\ ~Passkey => CentralRun(x, Go(x, "numeric_confirm"))
        /\ Passkey => CentralRun(x, Go(Tell(x, "input"), "input"))
        /\ Passkey =>
             CentralRun(x, GoRound(SendConfirm(SetSecret(Tell(x, "display"),
                                                         shown), 0),
                                   "confirm", 0))
<1>1. x \in Handler /\ x.s \in Machine BY DEF CentralBegins, Handler
<1>2. ASSUME ~Passkey PROVE CentralRun(x, Go(x, "numeric_confirm"))
  <2> DEFINE y == Go(x, "numeric_confirm")
  <2>1. /\ Chain(x, y, {}, {}) /\ y.seen = x.seen /\ y.ok = x.ok
        /\ ~y.ok => y.s = x.s
        /\ y.ok => y.s = [x.s EXCEPT !.step = "numeric_confirm"]
    BY <1>1, GoChain DEF Steps
  <2> HIDE DEF y
  <2>2. Chain(x, y, Plain, Notes) BY <2>1 DEF Chain
  <2>3. /\ y.s.bond = x.s.bond /\ y.s.own = x.s.own /\ y.s.peer = x.s.peer
        /\ y.s.step \in {"public_key", "numeric_confirm"}
    BY <1>1, <2>1 DEF Machine
  <2>4. Fits(y.s.step) BY <1>2, <2>3 DEF Fits
  <2>5. CentralRun(x, y)
    BY <2>2, <2>3, <2>4, CentralQuiet DEF CentralEarly, CentralKnows, CentralTold
  <2> QED BY <2>5 DEF y
<1>3. ASSUME Passkey PROVE CentralRun(x, Go(Tell(x, "input"), "input"))
  <2> DEFINE u == Tell(x, "input")
             y == Go(u, "input")
  <2>1. Chain(x, u, {}, {"input"}) /\ u.s = x.s /\ u.seen = x.seen
    BY <1>1, TellChain DEF News
  <2> HIDE DEF u
  <2>2. /\ Chain(u, y, {}, {}) /\ y.seen = u.seen /\ y.ok = u.ok
        /\ ~y.ok => y.s = u.s
        /\ y.ok => y.s = [u.s EXCEPT !.step = "input"]
    BY <2>1, GoChain DEF Chain, Steps
  <2> HIDE DEF y
  <2>3. Chain(x, y, Plain, Notes) BY <2>1, <2>2, NotesHave DEF Chain
  <2>4. /\ y.s.bond = x.s.bond /\ y.s.own = x.s.own /\ y.s.peer = x.s.peer
        /\ y.s.step \in {"public_key", "input"}
    BY <1>1, <2>1, <2>2 DEF Machine
  <2>5. Fits(y.s.step) BY <1>3, <2>4 DEF Fits
  <2>6. CentralRun(x, y)
    BY <2>3, <2>4, <2>5, CentralQuiet DEF CentralEarly, CentralKnows, CentralTold
  <2> QED BY <2>6 DEF y, u
<1>4. ASSUME Passkey
      PROVE CentralRun(x, GoRound(SendConfirm(SetSecret(Tell(x, "display"),
                                                        shown), 0),
                                  "confirm", 0))
  <2> DEFINE u == Tell(x, "display")
             w == SetSecret(u, shown)
             z == SendConfirm(w, 0)
             y == GoRound(z, "confirm", 0)
  <2>1. Chain(x, u, {}, {"display"}) /\ u.s = x.s
    BY <1>1, TellChain DEF News
  <2> HIDE DEF u
  <2>2. /\ Chain(u, w, {}, {}) /\ w.seen = shown + 1
        /\ w.s = [u.s EXCEPT !.secret = shown]
    <3>1. u \in Handler BY <2>1 DEF Chain
    <3> QED BY <3>1, SetSecretChain
  <2> HIDE DEF w
  <2>3. /\ Chain(w, z, Plain, {}) /\ z.seen = w.seen
        /\ z.s = [w.s EXCEPT !.nonce = w.s.nonce + 1]
    BY <2>2, SendConfirmChain DEF Chain
  <2> HIDE DEF z
  <2>4. /\ Chain(z, y, {}, {}) /\ y.seen = z.seen /\ y.ok = z.ok
        /\ ~y.ok => y.s = z.s
        /\ y.ok => y.s = [z.s EXCEPT !.step = "confirm", !.round = 0]
    <3>1. z \in Handler BY <2>3 DEF Chain
    <3>2. "confirm" \in Steps /\ 0 \in Nat BY DEF Steps
    <3> QED BY <3>1, <3>2, GoRoundChain
  <2> HIDE DEF y
  <2>5. Chain(x, y, Plain, Notes) BY <2>1, <2>2, <2>3, <2>4, NotesHave DEF Chain
  <2>6. /\ z.s.bond = x.s.bond /\ z.s.own = x.s.own /\ z.s.peer = x.s.peer
        /\ z.s.step = "public_key" /\ z.s.secret = shown /\ z.s \in Machine
    <3>1. /\ w.s \in Machine /\ w.s.bond = x.s.bond /\ w.s.own = x.s.own
          /\ w.s.peer = x.s.peer /\ w.s.step = "public_key"
          /\ w.s.secret = shown
      BY <1>1, <2>1, <2>2 DEF Machine
    <3>2. z.s \in Machine BY <2>3 DEF Chain, Handler
    <3> QED BY <3>1, <3>2, <2>3, Drawn
  <2>7. /\ y.s.bond = x.s.bond /\ y.s.own = x.s.own /\ y.s.peer = x.s.peer
        /\ y.s.step \in {"public_key", "confirm"} /\ y.s.secret = shown
    BY <2>4, <2>6 DEF Machine
  <2>8. Fits(y.s.step) BY <1>4, <2>7 DEF Fits
  <2>9. y.seen = y.s.secret + 1 BY <2>2, <2>3, <2>4, <2>7
  <2>10. CentralRun(x, y)
    BY <2>5, <2>7, <2>8, <2>9, CentralQuiet
    DEF CentralEarly, CentralKnows, CentralTold
  <2> QED BY <2>10 DEF y, z, w, u
<1> QED BY <1>2, <1>3, <1>4

LEMMA CentralConfirmRuns ==
  ASSUME NEW x, CentralBegins(x), NEW v \in Commitments
  PROVE /\ x.s.step = "numeric_confirm" =>
             CentralRun(x, Go(SendRandom(Draw([x EXCEPT !.s.confirm = v])),
                              "numeric_random"))
        /\ x.s.step = "confirm" =>
             CentralRun(x, Go(SendRandom([x EXCEPT !.s.confirm = v]), "random"))
        /\ x.s.step = "input" => CentralRun(x, [x EXCEPT !.s.held = v])
<1> DEFINE t == [x.s EXCEPT !.confirm = v]
           z == [x EXCEPT !.s = t]
<1>1. x \in Handler /\ x.s \in Machine BY DEF CentralBegins, Handler
<1>2. \E w : w \in Checks
  <2>1. <<0, 0, 0>> \in Checks BY DEF Checks
  <2> QED BY <2>1
<1>3. /\ t \in Machine
      /\ t.step = x.s.step /\ t.bond = x.s.bond /\ t.own = x.s.own
      /\ t.peer = x.s.peer /\ t.secret = x.s.secret
  BY <1>1 DEF Machine
<1> HIDE DEF t
<1>4. Chain(x, z, {}, {}) /\ z.s = t /\ z.seen = x.seen
  BY <1>1, <1>3, PutChain
<1>5. [x EXCEPT !.s.confirm = v] = z BY DEF t, z
<1> HIDE DEF z
<1>6. z \in Handler BY <1>4 DEF Chain
<1>7. ASSUME x.s.step = "numeric_confirm"
      PROVE CentralRun(x, Go(SendRandom(Draw(z)), "numeric_random"))
  <2> DEFINE w == Draw(z)
             u == SendRandom(w)
             y == Go(u, "numeric_random")
  <2>1. /\ Chain(z, w, {}, {}) /\ w.seen = z.seen
        /\ w.s = [z.s EXCEPT !.nonce = z.s.nonce + 1]
    BY <1>6, DrawChain
  <2>2. /\ w.s.step = x.s.step /\ w.s.bond = x.s.bond /\ w.s.own = x.s.own
        /\ w.s.peer = x.s.peer /\ w \in Handler
    BY <2>1, <1>3, <1>4, Drawn DEF Chain
  <2> HIDE DEF w
  <2>3. Chain(w, u, Plain, {}) /\ u.seen = w.seen /\ u.s = w.s
    BY <2>2, SendRandomChain
  <2> HIDE DEF u
  <2>4. u \in Handler /\ u.s \in Machine BY <2>3 DEF Chain, Handler
  <2>5. /\ Chain(u, y, {}, {}) /\ y.seen = u.seen /\ y.ok = u.ok
        /\ ~y.ok => y.s = u.s
        /\ y.ok => y.s = [u.s EXCEPT !.step = "numeric_random"]
    BY <2>4, GoChain DEF Steps
  <2> HIDE DEF y
  <2>6. Chain(x, y, Plain, Notes) BY <1>4, <2>1, <2>3, <2>5 DEF Chain
  <2>7. /\ y.s.bond = x.s.bond /\ y.s.own = x.s.own /\ y.s.peer = x.s.peer
        /\ y.s.step \in {"numeric_confirm", "numeric_random"}
    BY <1>7, <2>2, <2>3, <2>4, <2>5 DEF Machine
  <2>8. Fits(y.s.step) BY <1>7, <2>7 DEF Fits, CentralBegins
  <2>9. CentralRun(x, y)
    BY <1>7, <2>6, <2>7, <2>8, CentralQuiet DEF CentralEarly, CentralKnows, CentralTold
  <2> QED BY <2>9 DEF y, u, w
<1>8. ASSUME x.s.step = "confirm"
      PROVE CentralRun(x, Go(SendRandom(z), "random"))
  <2> DEFINE u == SendRandom(z)
             y == Go(u, "random")
  <2>1. Chain(z, u, Plain, {}) /\ u.seen = z.seen /\ u.s = z.s
    BY <1>6, SendRandomChain
  <2> HIDE DEF u
  <2>2. u \in Handler /\ u.s \in Machine BY <2>1 DEF Chain, Handler
  <2>3. /\ Chain(u, y, {}, {}) /\ y.seen = u.seen /\ y.ok = u.ok
        /\ ~y.ok => y.s = u.s
        /\ y.ok => y.s = [u.s EXCEPT !.step = "random"]
    BY <2>2, GoChain DEF Steps
  <2> HIDE DEF y
  <2>4. Chain(x, y, Plain, Notes) BY <1>4, <2>1, <2>3 DEF Chain
  <2>5. /\ y.s.bond = x.s.bond /\ y.s.own = x.s.own /\ y.s.peer = x.s.peer
        /\ y.s.step \in {"confirm", "random"} /\ y.s.secret = x.s.secret
        /\ y.seen = x.seen
    BY <1>3, <1>4, <1>8, <2>1, <2>2, <2>3 DEF Machine
  <2>6. Fits(y.s.step) BY <1>8, <2>5 DEF Fits, CentralBegins
  <2>7. CentralRun(x, y)
    BY <1>8, <2>4, <2>5, <2>6, CentralQuiet DEF CentralEarly, CentralKnows, CentralTold
  <2> QED BY <2>7 DEF y, u
<1>9. ASSUME x.s.step = "input"
      PROVE CentralRun(x, [x EXCEPT !.s.held = v])
  <2> DEFINE s == [x.s EXCEPT !.held = v]
             y == [x EXCEPT !.s = s]
  <2>1. /\ s \in Machine
        /\ s.step = x.s.step /\ s.bond = x.s.bond /\ s.own = x.s.own
        /\ s.peer = x.s.peer
    BY <1>1 DEF Machine
  <2>2. [x EXCEPT !.s.held = v] = y OBVIOUS
  <2> HIDE DEF s
  <2>3. Chain(x, y, {}, {}) /\ y.s = s /\ y.seen = x.seen
    BY <1>1, <2>1, PutChain
  <2> HIDE DEF y
  <2>4. Chain(x, y, Plain, Notes) BY <2>3 DEF Chain
  <2>5. Fits(y.s.step) BY <2>1, <2>3 DEF CentralBegins
  <2>6. CentralRun(x, y)
    BY <1>9, <2>1, <2>3, <2>4, <2>5, CentralQuiet
    DEF CentralEarly, CentralKnows, CentralTold
  <2> QED BY <2>2, <2>6
<1> QED BY <1>5, <1>7, <1>8, <1>9

LEMMA CentralRandomRuns ==
  ASSUME NEW x, CentralBegins(x), NEW v, v[1] \in Nat
  PROVE /\ x.s.step = "random" => CentralRun(x, CentralRandom(x, v))
        /\ x.s.step = "numeric_random" => CentralRun(x, CentralNumeric(x, v))
<1>1. x \in Handler /\ x.s \in Machine BY DEF CentralBegins, Handler
<1>2. ASSUME NEW g
      PROVE LET y == [Check(x, g) EXCEPT !.s.peernonce = v[1]]
            IN /\ Chain(x, y, {}, {}) /\ y.seen = x.seen
               /\ y.s.step = x.s.step /\ y.s.bond = x.s.bond
               /\ y.s.own = x.s.own /\ y.s.peer = x.s.peer
               /\ y.s.secret = x.s.secret /\ y.s.round = x.s.round
  <2> DEFINE u == Check(x, g)
             n == v[1]
             t == [u.s EXCEPT !.peernonce = n]
             y == [u EXCEPT !.s = t]
  <2>1. Chain(x, u, {}, {}) /\ u.s = x.s /\ u.seen = x.seen
    BY <1>1, CheckChain
  <2> HIDE DEF u
  <2>2. u \in Handler /\ u.s \in Machine BY <2>1 DEF Chain, Handler
  <2>3. n \in Nat OBVIOUS
  <2> HIDE DEF n
  <2>4. /\ t \in Machine
        /\ t.step = x.s.step /\ t.bond = x.s.bond /\ t.own = x.s.own
        /\ t.peer = x.s.peer /\ t.secret = x.s.secret /\ t.round = x.s.round
    BY <2>1, <2>2, <2>3 DEF Machine
  <2> HIDE DEF t
  <2>5. Chain(u, y, {}, {}) /\ y.s = t /\ y.seen = u.seen
    BY <2>2, <2>4, PutChain
  <2>6. [Check(x, g) EXCEPT !.s.peernonce = v[1]] = y BY DEF u, t, n
  <2> HIDE DEF y
  <2> QED BY <2>1, <2>4, <2>5, <2>6 DEF Chain
<1>3. ASSUME x.s.step = "random" PROVE CentralRun(x, CentralRandom(x, v))
  <2> DEFINE r == x.s.round
             z == [Check(x, x.s.confirm = <<v[1], Bit(x.s.secret, r)>>)
                     EXCEPT !.s.peernonce = v[1]]
  <2>0. r \in Nat BY <1>1 DEF Machine
  <2>1. /\ Chain(x, z, {}, {}) /\ z.seen = x.seen
        /\ z.s.step = x.s.step /\ z.s.bond = x.s.bond
        /\ z.s.own = x.s.own /\ z.s.peer = x.s.peer
        /\ z.s.secret = x.s.secret
    BY <1>2
  <2>2. CentralRandom(x, v) =
          IF r = Rounds - 1 THEN Go(SendCheck(z), "dhkey_eb")
          ELSE GoRound(SendConfirm(z, r + 1), "confirm", r + 1)
    BY DEF CentralRandom
  <2> HIDE DEF z, r
  <2>3. z \in Handler /\ z.s \in Machine BY <2>1 DEF Chain, Handler
  <2>4. Passkey BY <1>3 DEF CentralBegins, Fits
  <2>5. CentralRun(x, Go(SendCheck(z), "dhkey_eb"))
    <3> DEFINE u == SendCheck(z)
               y == Go(u, "dhkey_eb")
    <3>1. /\ Chain(z, u, {CheckMsg(z.s)}, {}) /\ u.seen = z.seen /\ u.s = z.s
      BY <2>3, SendCheckChain
    <3> HIDE DEF u
    <3>2. u \in Handler /\ u.s \in Machine BY <3>1 DEF Chain, Handler
    <3>3. /\ Chain(u, y, {}, {}) /\ y.seen = u.seen /\ y.ok = u.ok
          /\ ~y.ok => y.s = u.s
          /\ y.ok => y.s = [u.s EXCEPT !.step = "dhkey_eb"]
      BY <3>2, GoChain DEF Steps
    <3> HIDE DEF y
    <3>4. Chain(x, y, Plain \cup {CheckMsg(z.s)}, Notes)
      BY <2>1, <3>1, <3>3 DEF Chain
    <3>5. /\ y.s.bond = x.s.bond /\ y.s.own = x.s.own /\ y.s.peer = x.s.peer
          /\ y.s.step \in {"random", "dhkey_eb"} /\ y.s.secret = x.s.secret
          /\ y.seen = x.seen
      BY <1>3, <2>1, <3>1, <3>2, <3>3 DEF Machine
    <3>6. Fits(y.s.step) BY <2>4, <3>5 DEF Fits
    <3>7. CentralRun(x, y)
      BY <1>3, <2>4, <3>4, <3>5, <3>6, CentralProves, MethodKinds
      DEF CentralEarly, CentralKnows, CentralTold
    <3> QED BY <3>7 DEF y, u
  <2>6. CentralRun(x, GoRound(SendConfirm(z, r + 1), "confirm", r + 1))
    <3> DEFINE n == r + 1
               u == SendConfirm(z, n)
               y == GoRound(u, "confirm", n)
    <3>0. n \in Nat BY <2>0
    <3> HIDE DEF n
    <3>1. /\ Chain(z, u, Plain, {}) /\ u.seen = z.seen
          /\ u.s = [z.s EXCEPT !.nonce = z.s.nonce + 1]
      BY <2>3, <3>0, SendConfirmChain
    <3>2. u \in Handler /\ u.s \in Machine BY <3>1 DEF Chain, Handler
    <3>3. /\ u.s.step = "random" /\ u.s.bond = x.s.bond /\ u.s.own = x.s.own
          /\ u.s.peer = x.s.peer /\ u.s.secret = x.s.secret
      BY <1>3, <2>1, <2>3, <3>1, Drawn
    <3> HIDE DEF u
    <3>4. /\ Chain(u, y, {}, {}) /\ y.seen = u.seen /\ y.ok = u.ok
          /\ ~y.ok => y.s = u.s
          /\ y.ok => y.s = [u.s EXCEPT !.step = "confirm", !.round = n]
      <4>1. "confirm" \in Steps BY DEF Steps
      <4>2. u \in Handler BY <3>2
      <4>3. LET w == GoRound(u, "confirm", n)
            IN /\ Chain(u, w, {}, {}) /\ w.seen = u.seen /\ w.ok = u.ok
               /\ ~w.ok => w.s = u.s
               /\ w.ok => w.s = [u.s EXCEPT !.step = "confirm", !.round = n]
        BY ONLY <3>0, <4>2, <4>1, GoRoundChain
      <4> QED BY <4>3
    <3> HIDE DEF y
    <3>5. Chain(x, y, Plain, Notes) BY <2>1, <3>1, <3>4 DEF Chain
    <3>6. /\ y.s.bond = x.s.bond /\ y.s.own = x.s.own /\ y.s.peer = x.s.peer
          /\ y.s.step \in {"random", "confirm"} /\ y.s.secret = x.s.secret
          /\ y.seen = x.seen
      BY <2>1, <3>1, <3>2, <3>3, <3>4 DEF Machine
    <3>7. Fits(y.s.step) BY <2>4, <3>6 DEF Fits
    <3>8. CentralRun(x, y)
      BY <1>3, <2>4, <3>5, <3>6, <3>7, CentralQuiet
      DEF CentralEarly, CentralKnows, CentralTold
    <3> QED BY <3>8 DEF y, u, n
  <2> QED BY <2>2, <2>5, <2>6
<1>4. ASSUME x.s.step = "numeric_random" PROVE CentralRun(x, CentralNumeric(x, v))
  <2> DEFINE z == [Check(x, x.s.confirm = <<v[1], 0>>)
                     EXCEPT !.s.peernonce = v[1]]
  <2>1. /\ Chain(x, z, {}, {}) /\ z.seen = x.seen
        /\ z.s.step = x.s.step /\ z.s.bond = x.s.bond
        /\ z.s.own = x.s.own /\ z.s.peer = x.s.peer
    BY <1>2
  <2>2. CentralNumeric(x, v) =
          IF Method = "just_works" THEN Go(SendCheck(z), "dhkey_eb")
          ELSE Go(Tell(z, "confirm"), "result")
    BY DEF CentralNumeric
  <2> HIDE DEF z
  <2>3. z \in Handler /\ z.s \in Machine BY <2>1 DEF Chain, Handler
  <2>4. ~Passkey BY <1>4 DEF CentralBegins, Fits
  <2>5. ASSUME Method = "just_works"
        PROVE CentralRun(x, Go(SendCheck(z), "dhkey_eb"))
    <3> DEFINE u == SendCheck(z)
               y == Go(u, "dhkey_eb")
    <3>1. /\ Chain(z, u, {CheckMsg(z.s)}, {}) /\ u.seen = z.seen /\ u.s = z.s
      BY <2>3, SendCheckChain
    <3> HIDE DEF u
    <3>2. u \in Handler /\ u.s \in Machine BY <3>1 DEF Chain, Handler
    <3>3. /\ Chain(u, y, {}, {}) /\ y.seen = u.seen /\ y.ok = u.ok
          /\ ~y.ok => y.s = u.s
          /\ y.ok => y.s = [u.s EXCEPT !.step = "dhkey_eb"]
      BY <3>2, GoChain DEF Steps
    <3> HIDE DEF y
    <3>4. Chain(x, y, Plain \cup {CheckMsg(z.s)}, Notes)
      BY <2>1, <3>1, <3>3 DEF Chain
    <3>5. /\ y.s.bond = x.s.bond /\ y.s.own = x.s.own /\ y.s.peer = x.s.peer
          /\ y.s.step \in {"numeric_random", "dhkey_eb"}
      BY <1>4, <2>1, <3>1, <3>2, <3>3 DEF Machine
    <3>6. Fits(y.s.step) BY <2>4, <3>5 DEF Fits
    <3>7. CentralRun(x, y)
      BY <1>4, <2>4, <2>5, <3>4, <3>5, <3>6, CentralProves
      DEF CentralEarly, CentralKnows, CentralTold
    <3> QED BY <3>7 DEF y, u
  <2>6. ASSUME Method # "just_works"
        PROVE CentralRun(x, Go(Tell(z, "confirm"), "result"))
    <3> DEFINE u == Tell(z, "confirm")
               y == Go(u, "result")
    <3>0. Method = "numeric" BY <2>4, <2>6, MethodKinds
    <3>1. Chain(z, u, {}, {"confirm"}) /\ u.seen = z.seen /\ u.s = z.s
      BY <2>3, TellChain DEF News
    <3> HIDE DEF u
    <3>2. u \in Handler /\ u.s \in Machine BY <3>1 DEF Chain, Handler
    <3>3. /\ Chain(u, y, {}, {}) /\ y.seen = u.seen /\ y.ok = u.ok
          /\ ~y.ok => y.s = u.s
          /\ y.ok => y.s = [u.s EXCEPT !.step = "result"]
      BY <3>2, GoChain DEF Steps
    <3> HIDE DEF y
    <3>4. Chain(x, y, Plain, Notes)
      BY <2>1, <3>0, <3>1, <3>3, NotesHave DEF Chain
    <3>5. /\ y.s.bond = x.s.bond /\ y.s.own = x.s.own /\ y.s.peer = x.s.peer
          /\ y.s.step \in {"numeric_random", "result"}
      BY <1>4, <2>1, <3>1, <3>2, <3>3 DEF Machine
    <3>6. Fits(y.s.step) BY <2>4, <3>0, <3>5 DEF Fits
    <3>7. CentralRun(x, y)
      BY <1>4, <2>4, <3>4, <3>5, <3>6, CentralQuiet
      DEF CentralEarly, CentralKnows, CentralTold
    <3> QED BY <3>7 DEF y, u
  <2> QED BY <2>2, <2>5, <2>6
<1> QED BY <1>3, <1>4

LEMMA CentralCheckRuns ==
  ASSUME NEW x, CentralBegins(x), x.s.step = "dhkey_eb", link \in Nat,
         NEW m \in Message, m \in Elems(wire["central"]), m.k = "dhkey"
  PROVE CentralRun(x, Go(Encrypt(Keep("central", Check(x, CheckMatches(x, m.v)),
                                      NewKey("central", x.s))),
                         "link_encrypted"))
<1> DEFINE k == NewKey("central", x.s)
           g == CheckMatches(x, m.v)
           u == Check(x, g)
           w == Keep("central", u, k)
           z == Encrypt(w)
           y == Go(z, "link_encrypted")
<1>1. x \in Handler /\ x.ok /\ x.s \in Machine /\ x.key \in Keys
      /\ Elems(x.out) = {} /\ x.ev \in Seq(Queued)
  BY ElemsOfNone DEF CentralBegins, Handler
<1>2. k \in Keys /\ k # NoKey BY <1>1, NewKeyType
<1>3. g => HeardCheck(x.s) BY DEF CheckMatches, HeardCheck
<1> HIDE DEF k, g
<1>4. /\ u \in Handler
      /\ u.s = x.s /\ u.out = x.out /\ u.app = x.app /\ u.key = x.key
      /\ u.ev = x.ev /\ u.seen = x.seen
      /\ u.ok => x.ok /\ g
  BY <1>1, CheckDoes
<1> HIDE DEF u
<1>5. /\ w \in Handler
      /\ w.s = u.s /\ w.out = u.out /\ w.app = u.app /\ w.ev = u.ev
      /\ w.seen = u.seen
      /\ w.ok => u.ok /\ w.key = k
      /\ ~w.ok => w.key = u.key
  BY <1>2, <1>4, KeepDoes
<1> HIDE DEF w
<1>6. /\ z \in Handler
      /\ z.out = w.out /\ z.app = w.app /\ z.key = w.key
      /\ z.seen = w.seen
      /\ z.ok => w.ok
      /\ ~z.ok => z.s = w.s /\ z.ev = w.ev
      /\ z.ok => /\ z.s = [w.s EXCEPT !.bond = w.key]
                 /\ z.ev = Append(w.ev, "encrypt")
      /\ Ltks(z.ev) \subseteq Ltks(w.ev)
  BY <1>5, EncryptDoes
<1> HIDE DEF z
<1>7. /\ Chain(z, y, {}, {}) /\ y.seen = z.seen /\ y.ok = z.ok
      /\ ~y.ok => y.s = z.s
      /\ y.ok => y.s = [z.s EXCEPT !.step = "link_encrypted"]
  BY <1>6, GoChain DEF Steps
<1> HIDE DEF y
<1>8. /\ y \in Handler /\ y.key = w.key /\ y.seen = x.seen
      /\ Elems(y.out) = {} /\ Elems(y.app) \subseteq Elems(x.app)
      /\ Encrypts(y.ev) = Encrypts(z.ev)
      /\ Ltks(y.ev) \subseteq Ltks(x.ev)
  BY <1>1, <1>4, <1>5, <1>6, <1>7 DEF Chain
<1>9. y.key = x.key \/ (y.key = k /\ g)
  BY <1>4, <1>5, <1>8
<1>10. CASE ~y.ok
  <2>1. y.s = x.s /\ Encrypts(y.ev) = Encrypts(x.ev)
    BY <1>10, <1>4, <1>5, <1>6, <1>7, <1>8
  <2>2. CentralRun(x, y)
    BY <1>3, <1>8, <1>9, <1>10, <2>1
    DEF CentralRun, CentralBegins, CentralEarly, CentralLate, CentralKnows,
        CentralTold, Encrypting, Fits, k
  <2> QED BY <2>2 DEF y, z, w, u, g, k
<1>11. CASE y.ok
  <2>1. Encrypts(y.ev) = Encrypts(x.ev) \cup {Len(x.ev) + 1}
    <3>1. z.ev = Append(x.ev, "encrypt") BY <1>11, <1>4, <1>5, <1>6, <1>7
    <3>2. Encrypts(z.ev) = Encrypts(x.ev) \cup {Len(x.ev) + 1}
      BY <3>1, <1>1, EncryptsOfAppend DEF Queued
    <3> QED BY <3>2, <1>8
  <2>2. y.key = k /\ g /\ w.key = k BY <1>11, <1>4, <1>5, <1>6, <1>7, <1>8
  <2>3. y.s = [[x.s EXCEPT !.bond = k] EXCEPT !.step = "link_encrypted"]
    <3>1. z.ok /\ w.s = x.s BY <1>11, <1>4, <1>5, <1>7
    <3>2. z.s = [x.s EXCEPT !.bond = k] BY <3>1, <1>6, <2>2
    <3> QED BY <3>2, <1>7, <1>11
  <2>4. /\ y.s.step = "link_encrypted" /\ y.s.bond = k /\ y.s.own = x.s.own
    BY <2>3, <1>1 DEF Machine
  <2>5. CentralRun(x, y)
    BY <1>2, <1>3, <1>8, <1>11, <2>1, <2>2, <2>4, NotesHave
    DEF CentralRun, CentralBegins, CentralEarly, CentralLate, CentralKnows,
        CentralTold, Encrypting, Fits, k
  <2> QED BY <2>5 DEF y, z, w, u, g, k
<1> QED BY <1>10, <1>11

(* A command of the central.  An idle machine takes its own flag with it.   *)
LEMMA CentralCommandRuns ==
  ASSUME NEW x, CentralBegins(x), link \in Nat,
         NEW m \in Message, m \in Elems(wire["central"]),
         NEW b \in BOOLEAN, NEW shown \in Nat
  PROVE LET y == CentralCommand(x, m.k, m.v, b, shown)
            z == [x EXCEPT !.s.own = b]
        IN /\ \/ CentralRun(x, y)
              \/ x.s.step = "idle" /\ CentralBegins(z) /\ CentralRun(z, y)
           /\ x.s.step = "result" => ~y.ok
<1> DEFINE y == CentralCommand(x, m.k, m.v, b, shown)
           z == [x EXCEPT !.s.own = b]
<1>1. x \in Handler /\ x.s \in Machine /\ x.ok BY DEF CentralBegins, Handler
<1>2. m.k = "confirm" => m.v \in Commitments BY MessageKinds
<1>3. m.k = "random" => m.v[1] \in Nat BY MessageKinds
<1>4. CASE x.s.step = "idle" /\ m.k = "security"
  <2>1. y = Initiate(z) BY <1>4 DEF CentralCommand
  <2> DEFINE t == [x.s EXCEPT !.own = b]
  <2>2. t \in Machine /\ t.step = "idle" /\ t.bond = x.s.bond
    BY <1>1, <1>4 DEF Machine
  <2>3. z = [x EXCEPT !.s = t] OBVIOUS
  <2> HIDE DEF t
  <2>7. LET w == [x EXCEPT !.s = t]
        IN w \in Handler /\ w.s = t /\ w.out = x.out /\ w.ok = x.ok
    BY <1>1, <2>2, PutDoes
  <2>4. /\ z \in Handler /\ z.s = t /\ z.out = x.out /\ z.ok = x.ok
    BY <2>3, <2>7
  <2> HIDE DEF z
  <2>5. CentralBegins(z)
    BY <1>4, <2>2, <2>4 DEF CentralBegins
  <2>6. CentralRun(z, Initiate(z)) BY <2>2, <2>4, <2>5, InitiateRuns
  <2> QED BY <1>4, <2>1, <2>5, <2>6 DEF z
<1>5. CASE x.s.step = "response" /\ m.k = "security"
  <2>1. y = x BY <1>5 DEF CentralCommand
  <2>2. Chain(x, x, {}, Notes) BY <1>1 DEF Chain
  <2>3. CentralRun(x, x) BY <1>5, <2>2, CentralStays
  <2> QED BY <1>5, <2>1, <2>3
<1>6. CASE x.s.step = "response" /\ m.k = "response"
  <2>1. y = Go(Send([x EXCEPT !.s.peer = m.v = <<1>>], "public_key", <<>>),
               "public_key")
    BY <1>6 DEF CentralCommand
  <2>2. CentralRun(x, y) BY <1>6, <2>1, ResponseRuns
  <2> QED BY <1>6, <2>2
<1>7. CASE x.s.step = "public_key" /\ m.k = "public_key"
  <2>1. y = IF ~Passkey THEN Go(x, "numeric_confirm")
            ELSE IF Displays("central")
            THEN GoRound(SendConfirm(SetSecret(Tell(x, "display"), shown), 0),
                         "confirm", 0)
            ELSE Go(Tell(x, "input"), "input")
    BY <1>7 DEF CentralCommand
  <2>2. CentralRun(x, y) BY <1>7, <2>1, PublicKeyRuns
  <2> QED BY <1>7, <2>2
<1>8. CASE x.s.step = "numeric_confirm" /\ m.k = "confirm"
  <2>1. y = Go(SendRandom(Draw([x EXCEPT !.s.confirm = m.v])), "numeric_random")
    BY <1>8 DEF CentralCommand
  <2>2. CentralRun(x, y) BY <1>2, <1>8, <2>1, CentralConfirmRuns
  <2> QED BY <1>8, <2>2
<1>9. CASE x.s.step = "numeric_random" /\ m.k = "random"
  <2>1. y = CentralNumeric(x, m.v) BY <1>9 DEF CentralCommand
  <2>2. CentralRun(x, y) BY <1>3, <1>9, <2>1, CentralRandomRuns
  <2> QED BY <1>9, <2>2
<1>10. CASE x.s.step = "input" /\ m.k = "confirm"
  <2>1. y = [x EXCEPT !.s.held = m.v] BY <1>10 DEF CentralCommand
  <2>2. CentralRun(x, y) BY <1>2, <1>10, <2>1, CentralConfirmRuns
  <2> QED BY <1>10, <2>2
<1>11. CASE x.s.step = "confirm" /\ m.k = "confirm"
  <2>1. y = Go(SendRandom([x EXCEPT !.s.confirm = m.v]), "random")
    BY <1>11 DEF CentralCommand
  <2>2. CentralRun(x, y) BY <1>2, <1>11, <2>1, CentralConfirmRuns
  <2> QED BY <1>11, <2>2
<1>12. CASE x.s.step = "random" /\ m.k = "random"
  <2>1. y = CentralRandom(x, m.v) BY <1>12 DEF CentralCommand
  <2>2. CentralRun(x, y) BY <1>3, <1>12, <2>1, CentralRandomRuns
  <2> QED BY <1>12, <2>2
<1>13. CASE x.s.step = "dhkey_eb" /\ m.k = "dhkey"
  <2>1. y = Go(Encrypt(Keep("central", Check(x, CheckMatches(x, m.v)),
                            NewKey("central", x.s))), "link_encrypted")
    BY <1>13 DEF CentralCommand
  <2>2. CentralRun(x, y) BY <1>13, <2>1, CentralCheckRuns
  <2> QED BY <1>13, <2>2
<1>14. CASE y = Refuse(x)
  <2>1. Chain(x, y, {}, {}) /\ y.s = x.s /\ y.seen = x.seen /\ ~y.ok
    BY <1>1, <1>14, FailChain
  <2>2. Chain(x, y, {}, Notes) BY <2>1 DEF Chain
  <2>3. CentralRun(x, y) BY <2>1, <2>2, CentralStays
  <2> QED BY <2>1, <2>3
<1>15. \/ x.s.step = "idle" /\ m.k = "security"
       \/ x.s.step = "response" /\ m.k = "security"
       \/ x.s.step = "response" /\ m.k = "response"
       \/ x.s.step = "public_key" /\ m.k = "public_key"
       \/ x.s.step = "numeric_confirm" /\ m.k = "confirm"
       \/ x.s.step = "numeric_random" /\ m.k = "random"
       \/ x.s.step = "input" /\ m.k = "confirm"
       \/ x.s.step = "confirm" /\ m.k = "confirm"
       \/ x.s.step = "random" /\ m.k = "random"
       \/ x.s.step = "dhkey_eb" /\ m.k = "dhkey"
       \/ y = Refuse(x)
  BY DEF CentralCommand
<1> HIDE DEF y, z
<1> QED
  BY <1>4, <1>5, <1>6, <1>7, <1>8, <1>9, <1>10, <1>11, <1>12, <1>13, <1>14,
     <1>15
  DEF y, z

(* The events of the central. *)
LEMMA ErrsDoes ==
  ASSUME NEW x \in Handler
  PROVE LET y == Errs(x)
        IN /\ Chain(x, y, {}, Notes) /\ y.seen = x.seen /\ ~y.ok
           /\ y.s = [x.s EXCEPT !.step = "error"]
<1> DEFINE t == [x.s EXCEPT !.step = "error"]
           z == [x EXCEPT !.s = t]
           u == Tell(z, "failed")
<1>1. t \in Machine BY DEF Handler, Machine, Steps
<1> HIDE DEF t
<1>2. Chain(x, z, {}, {}) /\ z.s = t /\ z.seen = x.seen BY <1>1, PutChain
<1>3. Errs(x) = Fail(u) BY DEF Errs, u, z, t
<1> HIDE DEF z
<1>4. Chain(z, u, {}, {"failed"}) /\ u.s = z.s /\ u.seen = z.seen
  <2>1. z \in Handler /\ "failed" \in News BY <1>2 DEF Chain, News
  <2> QED BY <2>1, TellChain
<1> HIDE DEF u
<1>5. Chain(u, Fail(u), {}, {}) /\ Fail(u).s = u.s /\ Fail(u).seen = u.seen
      /\ ~Fail(u).ok
  <2>1. u \in Handler BY <1>4 DEF Chain
  <2> QED BY <2>1, FailChain
<1>6. Chain(x, Fail(u), {}, Notes) BY <1>2, <1>4, <1>5, NotesHave DEF Chain
<1> QED BY <1>2, <1>3, <1>4, <1>5, <1>6 DEF t

LEMMA CompletesDoes ==
  ASSUME NEW x \in Handler
  PROVE LET y == Completes(x)
        IN /\ Chain(x, y, {}, Notes) /\ y.seen = x.seen
           /\ x.ok => y.s = [x.s EXCEPT !.step = "success"]
           /\ ~x.ok => y.s = x.s /\ ~y.ok
<1> DEFINE u == Go(x, "success")
           w == Tell(u, "complete")
<1>1. /\ Chain(x, u, {}, {}) /\ u.seen = x.seen /\ u.ok = x.ok
      /\ ~u.ok => u.s = x.s
      /\ u.ok => u.s = [x.s EXCEPT !.step = "success"]
  BY GoChain DEF Steps
<1>2. Completes(x) \in {u, w} BY DEF Completes
<1> HIDE DEF u
<1>3. u \in Handler /\ "complete" \in News BY <1>1 DEF Chain, News
<1>4. Chain(u, w, {}, {"complete"}) /\ w.s = u.s /\ w.seen = u.seen
  BY <1>3, TellChain
<1> HIDE DEF w
<1>5. Chain(x, u, {}, Notes) /\ Chain(x, w, {}, Notes)
  BY <1>1, <1>4, NotesHave DEF Chain
<1>6. CASE Completes(x) = u BY <1>1, <1>5, <1>6
<1>7. CASE Completes(x) = w
  <2>1. w.ok => u.ok BY <1>4 DEF Chain
  <2> QED BY <1>1, <1>4, <1>5, <1>7, <2>1
<1> QED BY <1>2, <1>6, <1>7

(* Runs of the central that end in its error. *)
LEMMA CentralFails ==
  ASSUME NEW x, NEW y, CentralBegins(x),
         y \in Handler, y.s.step = "error",
         y.s.bond = x.s.bond, y.s.own = x.s.own,
         Encrypts(y.ev) = Encrypts(x.ev), Ltks(y.ev) \subseteq Ltks(x.ev),
         \/ y.key = x.key
         \/ y.key = NewKey("central", x.s) /\ x.s.step = "dhkey_eb"
            /\ ~y.ok /\ HeardCheck(x.s),
         \A m \in Elems(y.out) :
           /\ m.k # "failed" => /\ x.s.step \in CentralEarly \ {"idle"}
                                /\ y.key = x.key
           /\ m.k # "request",
         x.s.step \in CentralLate \cup {"dhkey_eb"} => y.seen = x.seen,
         Elems(y.app) \subseteq Elems(x.app) \cup Notes
  PROVE CentralRun(x, y)
  BY DEF CentralRun, CentralBegins, CentralEarly, CentralLate, CentralKnows,
         CentralTold, Encrypting, Fits

LEMMA CentralKeyRuns ==
  ASSUME NEW x, CentralBegins(x), x.s.step = "input", NEW k \in Nat
  PROVE CentralRun(x, CentralEvent(x, "key", k))
<1> DEFINE w == SetSecret(x, k)
           z == SendConfirm(w, 0)
           q == [z EXCEPT !.s.confirm = x.s.held]
           u == SendRandom(q)
           y1 == GoRound(z, "confirm", 0)
           y2 == GoRound(u, "random", 0)
<1>1. x \in Handler /\ x.s \in Machine BY DEF CentralBegins, Handler
<1>2. CentralEvent(x, "key", k) = IF x.s.held = <<>> THEN y1 ELSE y2
  BY DEF CentralEvent
<1>3. Passkey BY DEF CentralBegins, Fits
<1>4. /\ Chain(x, w, {}, {}) /\ w.seen = k + 1
      /\ w.s = [x.s EXCEPT !.secret = k]
  BY <1>1, SetSecretChain
<1> HIDE DEF w
<1>5. /\ w \in Handler /\ w.s \in Machine
      /\ w.s.step = "input" /\ w.s.secret = k /\ w.s.bond = x.s.bond
      /\ w.s.own = x.s.own /\ w.s.peer = x.s.peer
  <2>1. w \in Handler BY <1>4 DEF Chain
  <2> QED BY <2>1, <1>1, <1>4 DEF Machine, Handler
<1>6. /\ Chain(w, z, Plain, {}) /\ z.seen = w.seen
      /\ z.s = [w.s EXCEPT !.nonce = w.s.nonce + 1]
  BY <1>5, SendConfirmChain
<1>7. /\ z.s.step = "input" /\ z.s.secret = k /\ z.s.bond = x.s.bond
      /\ z.s.own = x.s.own /\ z.s.peer = x.s.peer
  BY <1>5, <1>6, Drawn
<1> HIDE DEF z
<1>8. z \in Handler /\ z.s \in Machine BY <1>6 DEF Chain, Handler
<1>9. CentralRun(x, y1)
  <2>1. "confirm" \in Steps /\ 0 \in Nat BY DEF Steps
  <2>2. /\ Chain(z, y1, {}, {}) /\ y1.seen = z.seen /\ y1.ok = z.ok
        /\ ~y1.ok => y1.s = z.s
        /\ y1.ok => y1.s = [z.s EXCEPT !.step = "confirm", !.round = 0]
    BY <1>8, <2>1, GoRoundChain
  <2> HIDE DEF y1
  <2>3. Chain(x, y1, Plain, Notes) BY <1>4, <1>6, <2>2 DEF Chain
  <2>4. /\ y1.s.bond = x.s.bond /\ y1.s.own = x.s.own /\ y1.s.peer = x.s.peer
        /\ y1.s.step \in {"input", "confirm"} /\ y1.s.secret = k
        /\ y1.seen = k + 1
    BY <1>4, <1>6, <1>7, <1>8, <2>2 DEF Machine
  <2>5. Fits(y1.s.step) BY <1>3, <2>4 DEF Fits
  <2> QED
    BY <2>3, <2>4, <2>5, CentralQuiet DEF CentralEarly, CentralKnows, CentralTold
<1>10. CentralRun(x, y2)
  <2> DEFINE t == [z.s EXCEPT !.confirm = x.s.held]
  <2>1. /\ t \in Machine
        /\ t.step = "input" /\ t.secret = k /\ t.bond = x.s.bond
        /\ t.own = x.s.own /\ t.peer = x.s.peer
    BY <1>1, <1>7, <1>8 DEF Machine
  <2>2. q = [z EXCEPT !.s = t] OBVIOUS
  <2> HIDE DEF t, q
  <2>3. LET a == [z EXCEPT !.s = t]
        IN Chain(z, a, {}, {}) /\ a.s = t /\ a.seen = z.seen /\ a.ok = z.ok
    BY <1>8, <2>1, PutChain
  <2>4. Chain(z, q, {}, {}) /\ q.s = t /\ q.seen = z.seen BY <2>2, <2>3
  <2>5. q \in Handler BY <2>4 DEF Chain
  <2>6. Chain(q, u, Plain, {}) /\ u.seen = q.seen /\ u.s = q.s
    BY <2>5, SendRandomChain
  <2> HIDE DEF u
  <2>7. u \in Handler BY <2>6 DEF Chain
  <2>8. "random" \in Steps /\ 0 \in Nat BY DEF Steps
  <2>9. /\ Chain(u, y2, {}, {}) /\ y2.seen = u.seen /\ y2.ok = u.ok
        /\ ~y2.ok => y2.s = u.s
        /\ y2.ok => y2.s = [u.s EXCEPT !.step = "random", !.round = 0]
    BY <2>7, <2>8, GoRoundChain
  <2> HIDE DEF y2
  <2>10. Chain(x, y2, Plain, Notes) BY <1>4, <1>6, <2>4, <2>6, <2>9 DEF Chain
  <2>11. /\ y2.s.bond = x.s.bond /\ y2.s.own = x.s.own /\ y2.s.peer = x.s.peer
         /\ y2.s.step \in {"input", "random"} /\ y2.s.secret = k
         /\ y2.seen = k + 1
    <3>1. u.s = t /\ u.seen = k + 1 BY <1>4, <1>6, <2>4, <2>6
    <3>2. y2.s \in {t, [t EXCEPT !.step = "random", !.round = 0]}
          /\ y2.seen = k + 1
      BY <2>9, <3>1
    <3>3. LET a == [t EXCEPT !.step = "random", !.round = 0]
          IN /\ a.bond = x.s.bond /\ a.own = x.s.own /\ a.peer = x.s.peer
             /\ a.step = "random" /\ a.secret = k
      BY <2>1 DEF Machine
    <3> QED BY <2>1, <3>2, <3>3
  <2>12. Fits(y2.s.step) BY <1>3, <2>11 DEF Fits
  <2> QED
    BY <2>10, <2>11, <2>12, CentralQuiet DEF CentralEarly, CentralKnows, CentralTold
<1> HIDE DEF y1, y2
<1> QED BY <1>2, <1>9, <1>10

LEMMA CentralEventRuns ==
  ASSUME NEW x, CentralBegins(x), x.s.step # "idle",
         NEW k \in Nat, NEW event \in {"yes", "no", "key", "encrypted"}
  PROVE CentralRun(x, CentralEvent(x, event, k))
<1> DEFINE y == CentralEvent(x, event, k)
<1>1. x \in Handler /\ x.s \in Machine /\ x.ok /\ Elems(x.out) = {}
  BY ElemsOfNone DEF CentralBegins, Handler
<1>2. CASE event = "encrypted" /\ x.s.step \in {"link_encrypted", "bonded_link"}
  <2>1. y = Completes(x) BY <1>2 DEF CentralEvent
  <2>2. /\ Chain(x, y, {}, Notes) /\ y.seen = x.seen
        /\ y.s = [x.s EXCEPT !.step = "success"]
    BY <1>1, <2>1, CompletesDoes
  <2> HIDE DEF y
  <2>3. y.s.step = "success" /\ y.s.bond = x.s.bond /\ y.s.own = x.s.own
    BY <1>1, <2>2 DEF Machine
  <2>4. CentralRun(x, y)
    BY <1>1, <1>2, <2>2, <2>3
    DEF CentralRun, CentralEarly, CentralLate, CentralKnows, CentralTold,
        Encrypting, Fits, Chain
  <2> QED BY <2>4 DEF y
<1>3. CASE event = "yes" /\ x.s.step = "result"
  <2> DEFINE u == SendCheck(x)
             z == Go(u, "dhkey_eb")
  <2>1. y = z BY <1>3 DEF CentralEvent
  <2>2. /\ Chain(x, u, {CheckMsg(x.s)}, {}) /\ u.seen = x.seen /\ u.s = x.s
    BY <1>1, SendCheckChain
  <2> HIDE DEF u
  <2>3. u \in Handler BY <2>2 DEF Chain
  <2>4. /\ Chain(u, z, {}, {}) /\ z.seen = u.seen /\ z.ok = u.ok
        /\ ~z.ok => z.s = u.s
        /\ z.ok => z.s = [u.s EXCEPT !.step = "dhkey_eb"]
    BY <2>3, GoChain DEF Steps
  <2> HIDE DEF z
  <2>5. Chain(x, z, Plain \cup {CheckMsg(x.s)}, Notes) BY <2>2, <2>4 DEF Chain
  <2>6. /\ z.s.bond = x.s.bond /\ z.s.own = x.s.own /\ z.s.peer = x.s.peer
        /\ z.s.step \in {"result", "dhkey_eb"}
    BY <1>1, <1>3, <2>2, <2>4 DEF Machine
  <2>7. Fits(z.s.step) /\ ~Passkey
    BY <1>3, <2>6, MethodKinds DEF Fits, CentralBegins
  <2>8. CentralRun(x, z)
    BY <1>3, <2>5, <2>6, <2>7, CentralProves
    DEF CentralEarly, CentralKnows, CentralTold
  <2> QED BY <2>1, <2>8
<1>4. CASE y = Errs(x)
  <2>1. /\ Chain(x, y, {}, Notes) /\ y.seen = x.seen /\ ~y.ok
        /\ y.s = [x.s EXCEPT !.step = "error"]
    BY <1>1, <1>4, ErrsDoes
  <2> HIDE DEF y
  <2>2. y.s.step = "error" /\ y.s.bond = x.s.bond /\ y.s.own = x.s.own
    BY <1>1, <2>1 DEF Machine
  <2>3. CentralRun(x, y) BY <1>1, <2>1, <2>2, CentralFails DEF Chain
  <2> QED BY <2>3 DEF y
<1>5. CASE event = "key" /\ x.s.step = "input" BY <1>5, CentralKeyRuns
<1>6. CASE y = x
  <2>1. Chain(x, x, {}, Notes) BY <1>1 DEF Chain
  <2>2. CentralRun(x, x) BY <2>1, CentralStays
  <2> QED BY <1>6, <2>2
<1>7. \/ event = "encrypted" /\ x.s.step \in {"link_encrypted", "bonded_link"}
      \/ event = "yes" /\ x.s.step = "result"
      \/ event = "key" /\ x.s.step = "input"
      \/ y = x \/ y = Errs(x)
  BY DEF CentralEvent
<1> HIDE DEF y
<1> QED BY <1>2, <1>3, <1>4, <1>5, <1>6, <1>7 DEF y

LEMMA CentralTimer ==
  ASSUME NEW x, NEW y, CentralRun(x, y), y.ok
  PROVE CentralRun(x, Timer(y))
<1> DEFINE z == Timer(y)
<1>1. y \in Handler BY DEF CentralRun
<1>2. /\ z \in Handler
      /\ z.s = y.s /\ z.out = y.out /\ z.app = y.app /\ z.key = y.key
      /\ z.ok = y.ok /\ z.seen = y.seen
      /\ Encrypts(z.ev) = Encrypts(y.ev)
      /\ Ltks(z.ev) \subseteq Ltks(y.ev)
  BY <1>1, TimerDoes
<1> HIDE DEF z
<1>a. x.s.step \in CentralLate \cup {"dhkey_eb"} =>
        z.seen = x.seen \/ (Method = "numeric" /\ z.seen = 1)
  BY <1>2 DEF CentralRun
<1>3. CentralRun(x, z) BY <1>2, <1>a DEF CentralRun
<1> QED BY <1>3 DEF z

LEMMA CentralReport ==
  ASSUME NEW x, NEW y, CentralRun(x, y)
  PROVE CentralRun(x, Report(y))
<1> DEFINE z == Report(y)
<1>1. y \in Handler BY DEF CentralRun
<1>2. /\ z \in Handler
      /\ z.s = y.s /\ z.app = y.app /\ z.key = y.key /\ z.ev = y.ev
      /\ z.seen = y.seen /\ z.ok = y.ok
      /\ Elems(z.out) \subseteq Elems(y.out) \cup {[k |-> "failed", v |-> <<>>]}
  BY <1>1, ReportDoes
<1> HIDE DEF z
<1>3. \A m \in Elems(z.out) : m \in Elems(y.out) \/ m.k = "failed" BY <1>2
<1>4. \A m \in Elems(z.out) :
          /\ m.k # "failed" =>
               /\ x.s.step \in CentralEarly
               /\ z.key = x.key
               /\ z.s.step \notin Encrypting
               /\ x.s.step = "idle" =>
                    z.ok /\ z.s.step = "response" /\ x.key = NoKey
          /\ m.k = "request" => x.s.step = "idle" /\ m.v = <<Flag(z.s.own)>>
  <2> SUFFICES ASSUME NEW m \in Elems(z.out), m.k # "failed"
               PROVE /\ x.s.step \in CentralEarly
                     /\ z.key = x.key
                     /\ z.s.step \notin Encrypting
                     /\ x.s.step = "idle" =>
                          z.ok /\ z.s.step = "response" /\ x.key = NoKey
                     /\ m.k = "request" =>
                          x.s.step = "idle" /\ m.v = <<Flag(z.s.own)>>
    OBVIOUS
  <2>1. m \in Elems(y.out) BY <1>3
  <2> QED BY <1>2, <2>1 DEF CentralRun
<1>a. x.s.step \in CentralLate \cup {"dhkey_eb"} =>
        z.seen = x.seen \/ (Method = "numeric" /\ z.seen = 1)
  <2>1. x.s.step \in CentralLate \cup {"dhkey_eb"} =>
          y.seen = x.seen \/ (Method = "numeric" /\ y.seen = 1)
    BY DEF CentralRun
  <2>2. z.seen = y.seen BY <1>2
  <2> QED BY <2>1, <2>2
<1>b. y.s.step \in CentralTold /\ Passkey =>
        IF x.s.step \in CentralTold
        THEN z.s.secret = x.s.secret /\ z.seen = x.seen
        ELSE z.seen = z.s.secret + 1
  BY <1>2 DEF CentralRun
<1>c. IF z.s.step \in Encrypting /\ z.s.step # x.s.step
      THEN /\ x.s.step \in CentralEarly /\ z.ok
           /\ z.s.bond = z.key /\ z.key # NoKey
           /\ \E i : Encrypts(z.ev) = Encrypts(x.ev) \cup {i}
      ELSE z.s.bond = x.s.bond /\ Encrypts(z.ev) = Encrypts(x.ev)
  BY <1>2 DEF CentralRun
<1>d. LET old == x.s.step
          new == z.s.step
      IN /\ new \in CentralEarly \cup CentralLate
         /\ new = "idle" => old = "idle" /\ ~z.ok
         /\ new \in CentralEarly => old \in CentralEarly
         /\ new = "success" => old \in Encrypting \cup {"success"}
         /\ z.s.own = x.s.own
         /\ new \in CentralKnows =>
              /\ old \in CentralKnows \cup {"response"}
              /\ IF old = "response"
                 THEN HeardFlag("central", "response", z.s.peer)
                 ELSE z.s.peer = x.s.peer
  BY <1>2 DEF CentralRun
<1>e. LET old == x.s.step
          new == z.s.step
      IN /\ \/ z.key = x.key
            \/ /\ z.key = NewKey("central", x.s)
               /\ old = "dhkey_eb"
               /\ new = "link_encrypted" \/ ~z.ok
               /\ HeardCheck(x.s)
         /\ Ltks(z.ev) \subseteq Ltks(x.ev)
         /\ Fits(new)
         /\ Method = "numeric" /\ new = "dhkey_eb" => old \in {"dhkey_eb", "result"}
         /\ old = "idle" /\ new = "response" => x.key = NoKey
         /\ Elems(z.app) \subseteq Elems(x.app) \cup Notes
  BY <1>2 DEF CentralRun
<1>5. CentralRun(x, z)
  BY ONLY <1>2, <1>4, <1>a, <1>b, <1>c, <1>d, <1>e DEF CentralRun
<1> QED BY <1>5 DEF z

LEMMA CentralBreaks ==
  ASSUME NEW x, NEW y, CentralBegins(x), CentralRun(x, y), ~y.ok
  PROVE CentralEnd(x, Report([y EXCEPT !.s.step = "error"]))
<1> DEFINE t == [y.s EXCEPT !.step = "error"]
           w == [y EXCEPT !.s = t]
<1>1. y \in Handler /\ y.s \in Machine BY DEF CentralRun, Handler
<1>2. t \in Machine /\ t.step = "error" /\ t.bond = y.s.bond /\ t.own = y.s.own
  BY <1>1 DEF Machine, Steps
<1>3. w = [y EXCEPT !.s.step = "error"] OBVIOUS
<1> HIDE DEF t
<1>4. /\ w \in Handler
      /\ w.s = t
      /\ w.out = y.out /\ w.app = y.app /\ w.key = y.key
      /\ w.ev = y.ev /\ w.seen = y.seen /\ w.ok = y.ok
  BY <1>1, <1>2, PutDoes
<1> HIDE DEF w
<1>5. /\ w.s.bond = x.s.bond /\ Encrypts(w.ev) = Encrypts(x.ev)
      /\ w.s.own = x.s.own /\ Ltks(w.ev) \subseteq Ltks(x.ev)
  BY <1>2, <1>4 DEF CentralRun
<1>6. CentralRun(x, w)
  <2>1. \/ w.key = x.key
        \/ w.key = NewKey("central", x.s) /\ x.s.step = "dhkey_eb"
           /\ ~w.ok /\ HeardCheck(x.s)
    BY <1>4 DEF CentralRun
  <2>2. \A m \in Elems(w.out) :
          /\ m.k # "failed" => /\ x.s.step \in CentralEarly \ {"idle"}
                               /\ w.key = x.key
          /\ m.k # "request"
    BY <1>4 DEF CentralRun
  <2>3. CASE x.s.step \in CentralLate \cup {"dhkey_eb"} /\ w.seen # x.seen
    <3>1. Method = "numeric" /\ w.seen = 1 BY <1>4, <2>3 DEF CentralRun
    <3> QED
      BY <1>2, <1>4, <1>5, <2>1, <2>2, <2>3, <3>1
      DEF CentralRun, CentralBegins, CentralEarly, CentralLate, CentralKnows,
          CentralTold, Encrypting, Fits
  <2>4. CASE ~(x.s.step \in CentralLate \cup {"dhkey_eb"} /\ w.seen # x.seen)
    <3>1. Elems(w.app) \subseteq Elems(x.app) \cup Notes
      BY <1>4 DEF CentralRun
    <3> QED BY <1>2, <1>4, <1>5, <2>1, <2>2, <2>4, <3>1, CentralFails
  <2> QED BY <2>3, <2>4
<1>7. CentralRun(x, Report(w)) BY <1>6, CentralReport
<1>8. Report(w).s = w.s BY <1>4, ReportDoes
<1> QED BY <1>2, <1>3, <1>4, <1>7, <1>8 DEF CentralEnd

LEMMA CentralCommandEnds ==
  ASSUME NEW x, CentralBegins(x), link \in Nat,
         NEW m \in Message, m \in Elems(wire["central"]),
         NEW b \in BOOLEAN, NEW shown \in Nat
  PROVE LET y == CentralCommand(x, m.k, m.v, b, shown)
            z == [x EXCEPT !.s.own = b]
            r == IF y.ok THEN Timer(y) ELSE Report([y EXCEPT !.s.step = "error"])
        IN \/ CentralEnd(x, r)
           \/ x.s.step = "idle" /\ CentralBegins(z) /\ CentralEnd(z, r)
<1> DEFINE y == CentralCommand(x, m.k, m.v, b, shown)
           z == [x EXCEPT !.s.own = b]
           r == IF y.ok THEN Timer(y) ELSE Report([y EXCEPT !.s.step = "error"])
<1>1. /\ \/ CentralRun(x, y)
         \/ x.s.step = "idle" /\ CentralBegins(z) /\ CentralRun(z, y)
      /\ x.s.step = "result" => ~y.ok
  BY CentralCommandRuns
<1>2. ASSUME NEW q, CentralBegins(q), CentralRun(q, y),
             q.s.step = "result" => ~y.ok
      PROVE CentralEnd(q, r)
  <2> HIDE DEF y
  <2>1. CASE ~y.ok BY <1>2, <2>1, CentralBreaks
  <2>2. CASE y.ok
    <3>1. CentralRun(q, Timer(y)) BY <1>2, <2>2, CentralTimer
    <3>2. Timer(y).s = y.s /\ Timer(y).key = y.key /\ r = Timer(y)
      BY <1>2, <2>2, TimerDoes DEF CentralRun
    <3>3. /\ y.s.step # "idle"
          /\ y.key = q.key \/ y.s.step = "link_encrypted"
          /\ Method = "numeric" /\ y.s.step = "dhkey_eb" => q.s.step = "dhkey_eb"
      BY <1>2, <2>2 DEF CentralRun
    <3> QED BY <3>1, <3>2, <3>3 DEF CentralEnd
  <2> QED BY <2>1, <2>2
<1>3. x.s.step = "idle" /\ CentralBegins(z) => z.s.step # "result"
  BY DEF CentralBegins, Handler, Machine
<1> HIDE DEF y, z, r
<1>4. CASE CentralRun(x, y) BY <1>1, <1>2, <1>4 DEF y, z, r
<1>5. CASE x.s.step = "idle" /\ CentralBegins(z) /\ CentralRun(z, y)
  BY <1>2, <1>3, <1>5 DEF y, z, r
<1> QED BY <1>1, <1>4, <1>5

LEMMA CentralEventFacts ==
  ASSUME NEW x, CentralBegins(x), x.s.step # "idle",
         NEW k \in Nat, NEW event \in {"yes", "no", "key", "encrypted"}
  PROVE LET y == CentralEvent(x, event, k)
        IN /\ CentralRun(x, y)
           /\ y.key = x.key
           /\ event # "yes" /\ x.s.step = "result" => y.s.step = "error"
<1> DEFINE y == CentralEvent(x, event, k)
<1>1. x \in Handler /\ x.s \in Machine BY DEF CentralBegins, Handler
<1>2. CentralRun(x, y) BY CentralEventRuns
<1>3. Errs(x).key = x.key /\ Errs(x).s.step = "error"
  BY <1>1, ErrsDoes DEF Chain, Machine
<1>4. x.s.step = "dhkey_eb" => y \in {x, Errs(x)} BY DEF CentralEvent
<1>5. event # "yes" /\ x.s.step = "result" => y = Errs(x) BY DEF CentralEvent
<1> HIDE DEF y
<1>6. y.key = x.key BY <1>2, <1>3, <1>4 DEF CentralRun
<1> QED BY <1>2, <1>3, <1>5, <1>6 DEF y

LEMMA CentralAnswerEnds ==
  ASSUME NEW x, CentralBegins(x), x.s.step # "idle",
         NEW k \in Nat, NEW event \in {"yes", "no", "key"},
         event = "yes" => Method = "numeric"
  PROVE LET y == CentralEvent(x, event, k)
            q == IF y.ok THEN Timer(y) ELSE Report(y)
            r == IF event = "yes" THEN [q EXCEPT !.seen = 1] ELSE q
        IN CentralEnd(x, r)
<1> DEFINE y == CentralEvent(x, event, k)
           q == IF y.ok THEN Timer(y) ELSE Report(y)
           r == IF event = "yes" THEN [q EXCEPT !.seen = 1] ELSE q
<1>1. /\ CentralRun(x, y)
      /\ y.key = x.key
      /\ event # "yes" /\ x.s.step = "result" => y.s.step = "error"
  BY CentralEventFacts
<1> HIDE DEF y
<1>2. y \in Handler BY <1>1 DEF CentralRun
<1>3. CentralRun(x, q) BY <1>1, CentralTimer, CentralReport
<1>4. q.s = y.s /\ q.key = y.key /\ q \in Handler
  BY <1>2, TimerDoes, ReportDoes
<1> HIDE DEF q
<1>5. y.s.step # "idle" BY <1>1 DEF CentralRun
<1>6. Method = "numeric" /\ y.s.step = "dhkey_eb"
        => x.s.step = "dhkey_eb" \/ event = "yes"
  BY <1>1 DEF CentralRun
<1>7. CASE event # "yes"
  BY <1>1, <1>3, <1>4, <1>5, <1>6, <1>7 DEF CentralEnd, y, q
<1>8. CASE event = "yes"
  <2>1. r = [q EXCEPT !.seen = 1] BY <1>8
  <2>2. Method = "numeric" /\ ~Passkey BY <1>8, MethodKinds
  <2>3. /\ r \in Handler /\ r.s = q.s /\ r.out = q.out /\ r.app = q.app
        /\ r.key = q.key /\ r.ev = q.ev /\ r.ok = q.ok /\ r.seen = 1
    BY <1>4, <2>1 DEF Handler
  <2> HIDE DEF r
  <2>4. CentralRun(x, r) BY <1>3, <2>2, <2>3 DEF CentralRun
  <2> QED BY <1>1, <1>4, <1>5, <2>3, <2>4 DEF CentralEnd, r, q, y
<1> QED BY <1>7, <1>8

LEMMA CentralEncryptedEnds ==
  ASSUME NEW x, CentralBegins(x), x.s.step # "idle"
  PROVE LET y == CentralEvent(x, "encrypted", 0)
            r == IF y.ok THEN y ELSE Report(y)
        IN /\ CentralEnd(x, r)
           /\ r.ok /\ r.s.step = "success" => x.s.step \in Encrypting
<1> DEFINE y == CentralEvent(x, "encrypted", 0)
           r == IF y.ok THEN y ELSE Report(y)
<1>1. /\ CentralRun(x, y)
      /\ y.key = x.key
      /\ x.s.step = "result" => y.s.step = "error"
  BY CentralEventFacts
<1>2. x \in Handler BY DEF CentralBegins
<1>3. y.ok => x.s.step \in Encrypting
  <2>1. ~Errs(x).ok BY <1>2, ErrsDoes
  <2> QED BY <2>1 DEF CentralEvent, Encrypting
<1> HIDE DEF y
<1>4. CentralRun(x, r) BY <1>1, CentralReport
<1>5. r.s = y.s /\ r.key = y.key /\ r.ok = y.ok BY <1>1, ReportDoes DEF CentralRun
<1>6. y.s.step # "idle" BY <1>1 DEF CentralRun
<1>7. Method = "numeric" /\ y.s.step = "dhkey_eb" => x.s.step = "dhkey_eb"
  BY <1>1 DEF CentralRun
<1> HIDE DEF r
<1>8. CentralEnd(x, r) BY <1>1, <1>4, <1>5, <1>6, <1>7 DEF CentralEnd
<1> QED BY <1>3, <1>5, <1>8 DEF r, y

LEMMA CentralRequestEnds ==
  ASSUME NEW x, CentralBegins(x), x.s.step = "idle"
  PROVE LET y == Initiate(x)
        IN /\ y.ok => CentralEnd(x, y)
           /\ ~y.ok => /\ CentralRun(x, y) /\ y.out = <<>>
                       /\ y.s = x.s /\ y.seen = x.seen
<1> DEFINE y == Initiate(x)
<1>1. /\ CentralRun(x, y)
      /\ y.ok \/ (y.out = <<>> /\ y.s = x.s /\ y.seen = x.seen)
  BY InitiateRuns
<1> HIDE DEF y
<1>2. y.ok => CentralEnd(x, y) BY <1>1 DEF CentralEnd, CentralRun
<1> QED BY <1>1, <1>2 DEF y

----------------------------------------------------------------------------
(* Runs of the peripheral on its way to its check.                          *)
LEMMA PeripheralQuiet ==
  ASSUME NEW x, NEW y, PeripheralBegins(x),
         Chain(x, y, Plain, Notes),
         y.s.bond = x.s.bond, y.s.own = x.s.own, y.s.peer = x.s.peer,
         x.s.step \in Mid, y.s.step \in Mid,
         x.s.step \in {"result", "dhkey_ea"} =>
           /\ SameSecrets(x.s, y.s)
           /\ y.seen = x.seen
           /\ HasSent(x.s) => HasSent(y.s),
         Fits(y.s.step),
         Passkey /\ y.s.step \in PeripheralTold =>
           IF x.s.step \in PeripheralTold
           THEN y.s.secret = x.s.secret /\ y.seen = x.seen
           ELSE y.seen = y.s.secret + 1,
         Method = "numeric" /\ y.s.step = "dhkey_ea"
           => x.s.step \in {"dhkey_ea", "result"}
  PROVE PeripheralRun(x, y)
<1>1. Elems(x.out) = {} BY ElemsOfNone DEF PeripheralBegins
<1>2. \A m \in Elems(y.out) : m.k \notin {"request", "response", "dhkey"}
  BY <1>1 DEF Chain, Plain
<1> QED BY <1>2 DEF PeripheralRun, Mid, Closing, Frozen, HasSent, Chain

(* Runs that change nothing of the machine, or only end it in its error.    *)
LEMMA PeripheralStays ==
  ASSUME NEW x, NEW y, PeripheralBegins(x),
         Chain(x, y, Plain, Notes), y.seen = x.seen,
         \/ y.s = x.s
         \/ y.s = [x.s EXCEPT !.step = "error"]
  PROVE PeripheralRun(x, y)
<1>1. Elems(x.out) = {} /\ x.s \in Machine
  BY ElemsOfNone DEF PeripheralBegins, Handler
<1>2. \A m \in Elems(y.out) : m.k \notin {"request", "response", "dhkey"}
  BY <1>1 DEF Chain, Plain
<1>3. CASE y.s = x.s
  BY <1>2, <1>3 DEF PeripheralRun, PeripheralBegins, Mid, Closing, Frozen,
     HasSent, SameSecrets, PeripheralTold, Chain
<1>4. CASE y.s = [x.s EXCEPT !.step = "error"]
  <2>1. /\ y.s.step = "error" /\ y.s.bond = x.s.bond
        /\ SameSecrets(x.s, y.s)
    BY <1>1, <1>4 DEF Machine, SameSecrets
  <2> QED BY <1>2, <2>1 DEF PeripheralRun, PeripheralBegins, Mid, Closing,
       Frozen, HasSent, SameSecrets, PeripheralTold, Chain, Fits
<1> QED BY <1>3, <1>4

(* The commands of the peripheral, one by one. *)
LEMMA RequestRuns ==
  ASSUME NEW x, PeripheralBegins(x), x.s.step = "pairing_request",
         NEW m \in Message, m \in Elems(wire["peripheral"]), m.k = "request",
         NEW b \in BOOLEAN
  PROVE LET z == [x EXCEPT !.s = [@ EXCEPT !.own = b, !.peer = m.v = <<1>>]]
            y == Go(Send(z, "response", <<Flag(b)>>), "public_key")
        IN /\ PeripheralRun(x, y)
           /\ y.s.step = IF y.ok THEN "public_key" ELSE "pairing_request"
<1> DEFINE f == (m.v = <<1>>)
           t == [x.s EXCEPT !.own = b, !.peer = f]
           z == [x EXCEPT !.s = [@ EXCEPT !.own = b, !.peer = m.v = <<1>>]]
           v == <<Flag(b)>>
           u == Send(z, "response", v)
           y == Go(u, "public_key")
<1>1. x \in Handler /\ x.s \in Machine /\ Elems(x.out) = {}
  BY ElemsOfNone DEF PeripheralBegins, Handler
<1>2. f \in BOOLEAN OBVIOUS
<1> HIDE DEF f
<1>3. /\ t \in Machine /\ t.peer = f /\ t.own = b /\ t.bond = x.s.bond
      /\ t.step = x.s.step
  BY <1>1, <1>2 DEF Machine
<1>4. z = [x EXCEPT !.s = t] BY DEF f
<1> HIDE DEF t, z
<1>5. LET q == [x EXCEPT !.s = t]
      IN Chain(x, q, {}, {}) /\ q.s = t /\ q.seen = x.seen /\ q.ok = x.ok
  BY <1>1, <1>3, PutChain
<1>6. Chain(x, z, {}, {}) /\ z.s = t BY <1>4, <1>5
<1>7. z \in Handler BY <1>6 DEF Chain
<1>8. [k |-> "response", v |-> v] \in Message
  BY DEF Message, FlagMsgs, Flagged, Flag
<1> HIDE DEF v
<1>9. /\ u \in Handler
      /\ u.s = z.s /\ u.app = z.app /\ u.key = z.key /\ u.seen = z.seen
      /\ Encrypts(u.ev) = Encrypts(z.ev)
      /\ Ltks(u.ev) \subseteq Ltks(z.ev)
      /\ u.ok => z.ok
      /\ u.ok => Elems(u.out) = Elems(z.out) \cup {[k |-> "response", v |-> v]}
      /\ ~u.ok => u.out = z.out
  BY <1>7, <1>8, SendDoes
<1> HIDE DEF u
<1>10. /\ Chain(u, y, {}, {}) /\ y.seen = u.seen /\ y.ok = u.ok
       /\ ~y.ok => y.s = u.s
       /\ y.ok => y.s = [u.s EXCEPT !.step = "public_key"]
  BY <1>9, GoChain DEF Steps
<1> HIDE DEF y
<1>11. /\ y.s.bond = x.s.bond /\ y.s.own = b /\ y.s.peer = f
       /\ y.s.step = IF y.ok THEN "public_key" ELSE "pairing_request"
  BY <1>1, <1>3, <1>6, <1>9, <1>10 DEF PeripheralBegins, Machine
<1>12. /\ y \in Handler /\ y.key = x.key
       /\ Elems(y.app) \subseteq Elems(x.app)
       /\ \A q \in Elems(y.out) : q = [k |-> "response", v |-> v] /\ y.ok
  BY <1>1, <1>6, <1>9, <1>10 DEF Chain
<1>13. \A q \in Elems(y.out) : q.k = "response" /\ q.v = <<Flag(y.s.own)>> /\ y.ok
  BY <1>11, <1>12 DEF v
<1>14. HeardFlag("peripheral", "request", f) BY DEF HeardFlag, f
<1>15. PeripheralRun(x, y)
  BY <1>11, <1>12, <1>13, <1>14, NotesHave
  DEF PeripheralRun, PeripheralBegins, Mid, Closing, Frozen, HasSent,
      PeripheralTold, Fits
<1> QED BY <1>11, <1>15 DEF y, u, v, z

LEMMA PeripheralKeyRuns ==
  ASSUME NEW x, PeripheralBegins(x), x.s.step = "public_key",
         NEW shown \in Nat
  PROVE LET z == Send(x, "public_key", <<>>)
        IN /\ Passkey =>
                /\ PeripheralRun(x, GoRound(SetSecret(Tell(z, "display"), shown),
                                            "confirm", 0))
                /\ PeripheralRun(x, Go(Tell(z, "input"), "input"))
           /\ ~Passkey =>
                PeripheralRun(x, Go(SendConfirm(z, 0), "numeric_random"))
<1> DEFINE z == Send(x, "public_key", <<>>)
<1>1. x \in Handler /\ x.s \in Machine BY DEF PeripheralBegins, Handler
<1>2. Chain(x, z, Plain, {}) /\ z.s = x.s /\ z.seen = x.seen
  BY <1>1, SendPlain, PlainKinds
<1> HIDE DEF z
<1>3. z \in Handler BY <1>2 DEF Chain
<1>4. ASSUME Passkey
      PROVE PeripheralRun(x, GoRound(SetSecret(Tell(z, "display"), shown),
                                     "confirm", 0))
  <2> DEFINE u == Tell(z, "display")
             w == SetSecret(u, shown)
             y == GoRound(w, "confirm", 0)
  <2>1. Chain(z, u, {}, {"display"}) /\ u.s = z.s
    BY <1>3, TellChain DEF News
  <2> HIDE DEF u
  <2>2. u \in Handler BY <2>1 DEF Chain
  <2>3. /\ Chain(u, w, {}, {}) /\ w.seen = shown + 1
        /\ w.s = [u.s EXCEPT !.secret = shown]
    BY <2>2, SetSecretChain
  <2> HIDE DEF w
  <2>4. w \in Handler BY <2>3 DEF Chain
  <2>5. /\ w.s.bond = x.s.bond /\ w.s.own = x.s.own /\ w.s.peer = x.s.peer
        /\ w.s.step = "public_key" /\ w.s.secret = shown /\ w.s \in Machine
    <3>1. w.s = [x.s EXCEPT !.secret = shown] BY <1>2, <2>1, <2>3
    <3>2. w.s \in Machine BY <2>4 DEF Handler
    <3> QED BY <1>1, <3>1, <3>2 DEF Machine
  <2>6. "confirm" \in Steps /\ 0 \in Nat BY DEF Steps
  <2>7. /\ Chain(w, y, {}, {}) /\ y.seen = w.seen /\ y.ok = w.ok
        /\ ~y.ok => y.s = w.s
        /\ y.ok => y.s = [w.s EXCEPT !.step = "confirm", !.round = 0]
    BY <2>4, <2>6, GoRoundChain
  <2> HIDE DEF y
  <2>8. Chain(x, y, Plain, Notes)
    BY <1>2, <2>1, <2>3, <2>7, NotesHave DEF Chain
  <2>9. /\ y.s.bond = x.s.bond /\ y.s.own = x.s.own /\ y.s.peer = x.s.peer
        /\ y.s.step \in {"public_key", "confirm"} /\ y.s.secret = shown
        /\ y.seen = shown + 1
    BY <2>3, <2>5, <2>7 DEF Machine
  <2>10. Fits(y.s.step) BY <1>4, <2>9 DEF Fits
  <2>11. PeripheralRun(x, y)
    BY <2>8, <2>9, <2>10, PeripheralQuiet DEF Mid, PeripheralTold
  <2> QED BY <2>11 DEF y, w, u
<1>5. ASSUME Passkey PROVE PeripheralRun(x, Go(Tell(z, "input"), "input"))
  <2> DEFINE u == Tell(z, "input")
             y == Go(u, "input")
  <2>1. Chain(z, u, {}, {"input"}) /\ u.s = z.s /\ u.seen = z.seen
    BY <1>3, TellChain DEF News
  <2> HIDE DEF u
  <2>2. u \in Handler BY <2>1 DEF Chain
  <2>3. /\ Chain(u, y, {}, {}) /\ y.seen = u.seen /\ y.ok = u.ok
        /\ ~y.ok => y.s = u.s
        /\ y.ok => y.s = [u.s EXCEPT !.step = "input"]
    BY <2>2, GoChain DEF Steps
  <2> HIDE DEF y
  <2>4. Chain(x, y, Plain, Notes) BY <1>2, <2>1, <2>3, NotesHave DEF Chain
  <2>5. /\ y.s.bond = x.s.bond /\ y.s.own = x.s.own /\ y.s.peer = x.s.peer
        /\ y.s.step \in {"public_key", "input"}
    BY <1>1, <1>2, <2>1, <2>3 DEF Machine
  <2>6. Fits(y.s.step) BY <1>5, <2>5 DEF Fits
  <2>7. PeripheralRun(x, y)
    BY <2>4, <2>5, <2>6, PeripheralQuiet DEF Mid, PeripheralTold
  <2> QED BY <2>7 DEF y, u
<1>6. ASSUME ~Passkey
      PROVE PeripheralRun(x, Go(SendConfirm(z, 0), "numeric_random"))
  <2> DEFINE u == SendConfirm(z, 0)
             y == Go(u, "numeric_random")
  <2>1. /\ Chain(z, u, Plain, {}) /\ u.seen = z.seen
        /\ u.s = [z.s EXCEPT !.nonce = z.s.nonce + 1]
    BY <1>3, SendConfirmChain
  <2>2. /\ u.s.step = "public_key" /\ u.s.bond = x.s.bond
        /\ u.s.own = x.s.own /\ u.s.peer = x.s.peer
    <3>1. u.s = [x.s EXCEPT !.nonce = x.s.nonce + 1] BY <1>2, <2>1
    <3> QED BY <1>1, <3>1, Drawn
  <2> HIDE DEF u
  <2>3. u \in Handler /\ u.s \in Machine BY <2>1 DEF Chain, Handler
  <2>4. /\ Chain(u, y, {}, {}) /\ y.seen = u.seen /\ y.ok = u.ok
        /\ ~y.ok => y.s = u.s
        /\ y.ok => y.s = [u.s EXCEPT !.step = "numeric_random"]
    BY <2>3, GoChain DEF Steps
  <2> HIDE DEF y
  <2>5. Chain(x, y, Plain, Notes) BY <1>2, <2>1, <2>4 DEF Chain
  <2>6. /\ y.s.bond = x.s.bond /\ y.s.own = x.s.own /\ y.s.peer = x.s.peer
        /\ y.s.step \in {"public_key", "numeric_random"}
    BY <2>2, <2>3, <2>4 DEF Machine
  <2>7. Fits(y.s.step) BY <1>6, <2>6 DEF Fits
  <2>8. PeripheralRun(x, y)
    BY <2>5, <2>6, <2>7, PeripheralQuiet DEF Mid, PeripheralTold
  <2> QED BY <2>8 DEF y, u
<1> QED BY <1>4, <1>5, <1>6 DEF z

LEMMA HoldsRuns ==
  ASSUME NEW x, PeripheralBegins(x), NEW v \in Commitments \cup Checks,
         x.s.step = "input" \/ (x.s.step = "result" /\ x.s.held = <<>>)
  PROVE PeripheralRun(x, [x EXCEPT !.s.held = v])
<1> DEFINE t == [x.s EXCEPT !.held = v]
           y == [x EXCEPT !.s = t]
<1>1. x \in Handler /\ x.s \in Machine BY DEF PeripheralBegins, Handler
<1>2. /\ t \in Machine
      /\ t.step = x.s.step /\ t.bond = x.s.bond
      /\ SameSecrets(x.s, t)
  BY <1>1 DEF Machine, SameSecrets
<1> HIDE DEF t
<1>3. Chain(x, y, {}, {}) /\ y.s = t /\ y.seen = x.seen BY <1>1, <1>2, PutChain
<1>4. [x EXCEPT !.s.held = v] = y BY DEF t
<1> HIDE DEF y
<1>5. Chain(x, y, Plain, Notes) BY <1>3 DEF Chain
<1>6. Fits(y.s.step) BY <1>2, <1>3 DEF PeripheralBegins
<1>7. PeripheralRun(x, y)
  BY <1>2, <1>3, <1>5, <1>6, PeripheralQuiet, MethodKinds
  DEF Mid, PeripheralTold, HasSent, Closing, SameSecrets, Fits
<1> QED BY <1>4, <1>7

LEMMA PeripheralConfirmRuns ==
  ASSUME NEW x, NEW z, PeripheralBegins(x), NEW v \in Commitments \cup Checks,
         NEW r \in Nat, Passkey,
         Chain(x, z, {}, {}), z.s.bond = x.s.bond, z.s.own = x.s.own,
         z.s.peer = x.s.peer, z.s.step = x.s.step,
         \/ x.s.step = "confirm" /\ z.s.secret = x.s.secret /\ z.seen = x.seen
         \/ x.s.step = "input" /\ z.seen = z.s.secret + 1
  PROVE PeripheralRun(x, HandleConfirm(z, v, r))
<1> DEFINE t == [z.s EXCEPT !.confirm = v]
           w == [z EXCEPT !.s = t]
           u == SendConfirm(w, r)
           y == GoRound(u, "random", r)
<1>1. z \in Handler /\ z.s \in Machine BY DEF Chain, Handler
<1>2. /\ t \in Machine
      /\ t.step = x.s.step /\ t.bond = x.s.bond /\ t.own = x.s.own
      /\ t.peer = x.s.peer /\ t.secret = z.s.secret
  BY <1>1 DEF Machine
<1>3. HandleConfirm(z, v, r) = y BY DEF HandleConfirm
<1> HIDE DEF t
<1>4. LET q == [z EXCEPT !.s = t]
      IN Chain(z, q, {}, {}) /\ q.s = t /\ q.seen = z.seen /\ q.ok = z.ok
  BY <1>1, <1>2, PutChain
<1>5. Chain(z, w, {}, {}) /\ w.s = t /\ w.seen = z.seen BY <1>4
<1> HIDE DEF w
<1>6. w \in Handler BY <1>5 DEF Chain
<1>7. /\ Chain(w, u, Plain, {}) /\ u.seen = w.seen
      /\ u.s = [w.s EXCEPT !.nonce = w.s.nonce + 1]
  BY <1>6, SendConfirmChain
<1>8. /\ u.s.step = x.s.step /\ u.s.bond = x.s.bond
      /\ u.s.own = x.s.own /\ u.s.peer = x.s.peer
      /\ u.s.secret = z.s.secret
  BY <1>2, <1>5, <1>7, Drawn
<1> HIDE DEF u
<1>9. u \in Handler /\ u.s \in Machine BY <1>7 DEF Chain, Handler
<1>10. "random" \in Steps BY DEF Steps
<1>11. LET q == GoRound(u, "random", r)
       IN /\ Chain(u, q, {}, {}) /\ q.seen = u.seen /\ q.ok = u.ok
          /\ ~q.ok => q.s = u.s
          /\ q.ok => q.s = [u.s EXCEPT !.step = "random", !.round = r]
  BY <1>9, <1>10, GoRoundChain
<1>12. /\ Chain(u, y, {}, {}) /\ y.seen = u.seen /\ y.ok = u.ok
       /\ ~y.ok => y.s = u.s
       /\ y.ok => y.s = [u.s EXCEPT !.step = "random", !.round = r]
  BY <1>11
<1> HIDE DEF y
<1>13. Chain(x, y, Plain, Notes) BY <1>5, <1>7, <1>12 DEF Chain
<1>14. /\ y.s.bond = x.s.bond /\ y.s.own = x.s.own /\ y.s.peer = x.s.peer
       /\ y.s.step \in {x.s.step, "random"} /\ y.s.secret = z.s.secret
       /\ y.seen = z.seen
  BY <1>5, <1>7, <1>8, <1>9, <1>12 DEF Machine
<1>15. Fits(y.s.step) BY <1>14 DEF Fits
<1>16. PeripheralRun(x, y)
  BY <1>13, <1>14, <1>15, PeripheralQuiet, MethodKinds DEF Mid, PeripheralTold
<1> QED BY <1>3, <1>16

(* The other end's nonce is noted and answered with the own.                *)
LEMMA NonceNoted ==
  ASSUME NEW x, PeripheralBegins(x), NEW n \in Nat, NEW good
  PROVE LET z == [x EXCEPT !.s.peernonce = n]
            a == SendRandom(Check(z, good))
            b == SendRandom(z)
        IN /\ Chain(x, a, Plain, {}) /\ Chain(x, b, Plain, {})
           /\ a.seen = x.seen /\ b.seen = x.seen /\ b.s = a.s
           /\ a.s \in Machine
           /\ a.s.step = x.s.step /\ a.s.bond = x.s.bond /\ a.s.own = x.s.own
           /\ a.s.peer = x.s.peer /\ a.s.secret = x.s.secret
<1> DEFINE t == [x.s EXCEPT !.peernonce = n]
           z == [x EXCEPT !.s = t]
           u == Check(z, good)
           a == SendRandom(u)
           b == SendRandom(z)
<1>1. x \in Handler /\ x.s \in Machine BY DEF PeripheralBegins, Handler
<1>2. /\ t \in Machine
      /\ t.step = x.s.step /\ t.bond = x.s.bond /\ t.own = x.s.own
      /\ t.peer = x.s.peer /\ t.secret = x.s.secret
  BY <1>1 DEF Machine
<1>3. [x EXCEPT !.s.peernonce = n] = z OBVIOUS
<1> HIDE DEF t
<1>4. Chain(x, z, {}, {}) /\ z.s = t /\ z.seen = x.seen BY <1>1, <1>2, PutChain
<1> HIDE DEF z
<1>5. z \in Handler BY <1>4 DEF Chain
<1>6. Chain(z, u, {}, {}) /\ u.s = z.s /\ u.seen = z.seen BY <1>5, CheckChain
<1> HIDE DEF u
<1>7. u \in Handler BY <1>6 DEF Chain
<1>8. Chain(u, a, Plain, {}) /\ a.seen = u.seen /\ a.s = u.s
  BY <1>7, SendRandomChain
<1>9. Chain(z, b, Plain, {}) /\ b.seen = z.seen /\ b.s = z.s
  BY <1>5, SendRandomChain
<1> HIDE DEF a, b
<1>10. Chain(x, a, Plain, {}) /\ Chain(x, b, Plain, {})
  BY <1>4, <1>6, <1>8, <1>9 DEF Chain
<1>11. a.s = t /\ b.s = t BY <1>4, <1>6, <1>8, <1>9
<1> QED BY <1>2, <1>3, <1>4, <1>6, <1>8, <1>9, <1>10, <1>11 DEF a, b, u

LEMMA PeripheralRandomRuns ==
  ASSUME NEW x, PeripheralBegins(x), NEW v, v[1] \in Nat
  PROVE /\ x.s.step = "random" => PeripheralRun(x, PeripheralRandom(x, v))
        /\ x.s.step = "numeric_random" =>
             PeripheralRun(x, PeripheralNumeric(x, v))
<1> DEFINE n == v[1]
           good == (x.s.confirm = <<v[1], Bit(x.s.secret, x.s.round)>>)
           z == [x EXCEPT !.s.peernonce = n]
           a == SendRandom(Check(z, good))
           b == SendRandom(z)
<1>1. x \in Handler /\ x.s \in Machine BY DEF PeripheralBegins, Handler
<1>2. /\ Chain(x, a, Plain, {}) /\ Chain(x, b, Plain, {})
      /\ a.seen = x.seen /\ b.seen = x.seen /\ b.s = a.s
      /\ a.s \in Machine
      /\ a.s.step = x.s.step /\ a.s.bond = x.s.bond /\ a.s.own = x.s.own
      /\ a.s.peer = x.s.peer /\ a.s.secret = x.s.secret
  <2> HIDE DEF good
  <2> QED BY NonceNoted
<1>3. a \in Handler /\ b \in Handler BY <1>2 DEF Chain
<1>4. ASSUME x.s.step = "random" PROVE PeripheralRun(x, PeripheralRandom(x, v))
  <2> DEFINE r == x.s.round
             y1 == Go(a, "dhkey_ea")
             y2 == GoRound(a, "confirm", r + 1)
  <2>1. PeripheralRandom(x, v) = IF r = Rounds - 1 THEN y1 ELSE y2
    BY DEF PeripheralRandom
  <2>2. Passkey BY <1>4 DEF PeripheralBegins, Fits
  <2>3. r + 1 \in Nat BY <1>1 DEF Machine
  <2> HIDE DEF a, r
  <2>4. PeripheralRun(x, y1)
    <3>1. /\ Chain(a, y1, {}, {}) /\ y1.seen = a.seen /\ y1.ok = a.ok
          /\ ~y1.ok => y1.s = a.s
          /\ y1.ok => y1.s = [a.s EXCEPT !.step = "dhkey_ea"]
      BY <1>3, GoChain DEF Steps
    <3> HIDE DEF y1
    <3>2. Chain(x, y1, Plain, Notes) BY <1>2, <3>1 DEF Chain
    <3>3. /\ y1.s.bond = x.s.bond /\ y1.s.own = x.s.own /\ y1.s.peer = x.s.peer
          /\ y1.s.step \in {"random", "dhkey_ea"} /\ y1.s.secret = x.s.secret
          /\ y1.seen = x.seen
      BY <1>2, <1>4, <3>1 DEF Machine
    <3>4. Fits(y1.s.step) BY <2>2, <3>3 DEF Fits
    <3> QED BY <1>4, <2>2, <3>2, <3>3, <3>4, PeripheralQuiet, MethodKinds
            DEF Mid, PeripheralTold
  <2>5. PeripheralRun(x, y2)
    <3>1. "confirm" \in Steps BY DEF Steps
    <3> DEFINE q == r + 1
    <3>0. q \in Nat BY <2>3
    <3> HIDE DEF q
    <3>2. LET w == GoRound(a, "confirm", q)
          IN /\ Chain(a, w, {}, {}) /\ w.seen = a.seen /\ w.ok = a.ok
             /\ ~w.ok => w.s = a.s
             /\ w.ok => w.s = [a.s EXCEPT !.step = "confirm", !.round = q]
      <4>1. a \in Handler BY <1>3
      <4> QED BY ONLY <3>0, <3>1, <4>1, GoRoundChain
    <3>3. /\ Chain(a, y2, {}, {}) /\ y2.seen = a.seen /\ y2.ok = a.ok
          /\ ~y2.ok => y2.s = a.s
          /\ y2.ok => y2.s = [a.s EXCEPT !.step = "confirm", !.round = q]
      BY <3>2 DEF q
    <3> HIDE DEF y2
    <3>4. Chain(x, y2, Plain, Notes) BY <1>2, <3>3 DEF Chain
    <3>5. /\ y2.s.bond = x.s.bond /\ y2.s.own = x.s.own /\ y2.s.peer = x.s.peer
          /\ y2.s.step \in {"random", "confirm"} /\ y2.s.secret = x.s.secret
          /\ y2.seen = x.seen
      BY <1>2, <1>4, <3>3 DEF Machine
    <3>6. Fits(y2.s.step) BY <2>2, <3>5 DEF Fits
    <3> QED BY <1>4, <2>2, <3>4, <3>5, <3>6, PeripheralQuiet, MethodKinds
            DEF Mid, PeripheralTold
  <2> HIDE DEF y1, y2
  <2> QED BY <2>1, <2>4, <2>5
<1>5. ASSUME x.s.step = "numeric_random"
      PROVE PeripheralRun(x, PeripheralNumeric(x, v))
  <2> DEFINE u == Tell(b, "confirm")
             y1 == Go(b, "dhkey_ea")
             y2 == Go(u, "result")
  <2>1. PeripheralNumeric(x, v) = IF Method = "just_works" THEN y1 ELSE y2
    BY DEF PeripheralNumeric
  <2>2. ~Passkey BY <1>5 DEF PeripheralBegins, Fits
  <2> HIDE DEF a, b
  <2>3. ASSUME Method = "just_works" PROVE PeripheralRun(x, y1)
    <3>1. /\ Chain(b, y1, {}, {}) /\ y1.seen = b.seen /\ y1.ok = b.ok
          /\ ~y1.ok => y1.s = b.s
          /\ y1.ok => y1.s = [b.s EXCEPT !.step = "dhkey_ea"]
      BY <1>3, GoChain DEF Steps
    <3> HIDE DEF y1
    <3>2. Chain(x, y1, Plain, Notes) BY <1>2, <3>1 DEF Chain
    <3>3. /\ y1.s.bond = x.s.bond /\ y1.s.own = x.s.own /\ y1.s.peer = x.s.peer
          /\ y1.s.step \in {"numeric_random", "dhkey_ea"}
      BY <1>2, <1>5, <3>1 DEF Machine
    <3>4. Fits(y1.s.step) BY <2>2, <3>3 DEF Fits
    <3> QED BY <1>5, <2>2, <2>3, <3>2, <3>3, <3>4, PeripheralQuiet
            DEF Mid, PeripheralTold
  <2>4. ASSUME Method # "just_works" PROVE PeripheralRun(x, y2)
    <3>1. Method = "numeric" BY <2>2, <2>4, MethodKinds
    <3>2. Chain(b, u, {}, {"confirm"}) /\ u.s = b.s /\ u.seen = b.seen
      BY <1>3, TellChain DEF News
    <3> HIDE DEF u
    <3>3. u \in Handler BY <3>2 DEF Chain
    <3>4. /\ Chain(u, y2, {}, {}) /\ y2.seen = u.seen /\ y2.ok = u.ok
          /\ ~y2.ok => y2.s = u.s
          /\ y2.ok => y2.s = [u.s EXCEPT !.step = "result"]
      BY <3>3, GoChain DEF Steps
    <3> HIDE DEF y2
    <3>5. Chain(x, y2, Plain, Notes) BY <1>2, <3>1, <3>2, <3>4, NotesHave DEF Chain
    <3>6. /\ y2.s.bond = x.s.bond /\ y2.s.own = x.s.own /\ y2.s.peer = x.s.peer
          /\ y2.s.step \in {"numeric_random", "result"}
      BY <1>2, <1>5, <3>2, <3>4 DEF Machine
    <3>7. Fits(y2.s.step) BY <2>2, <3>1, <3>6 DEF Fits
    <3> QED BY <1>5, <2>2, <3>5, <3>6, <3>7, PeripheralQuiet
            DEF Mid, PeripheralTold
  <2> HIDE DEF y1, y2
  <2> QED BY <2>1, <2>3, <2>4
<1> QED BY <1>4, <1>5

(* The check of the central, when it comes and the user has answered. *)
LEMMA HandleCheckRuns ==
  ASSUME NEW x, PeripheralBegins(x), link \in Nat, NEW v,
         x.s.step = "dhkey_ea" \/ (x.s.step = "result" /\ x.s.held # <<>>)
  PROVE LET y == HandleCheck(x, v)
        IN /\ PeripheralRun(x, y)
           /\ y.ok => y.s.step = "link_encrypted"
           /\ y.seen = x.seen
<1> DEFINE k == NewKey("peripheral", x.s)
           g == CheckMatches(x, v)
           a == Check(x, g)
           u == SendCheck(a)
           w == Keep("peripheral", u, k)
           z == Encrypt(w)
           y == Go(z, "link_encrypted")
<1>1. x \in Handler /\ x.ok /\ x.s \in Machine /\ x.key \in Keys
      /\ Elems(x.out) = {} /\ x.ev \in Seq(Queued)
  BY ElemsOfNone DEF PeripheralBegins, Handler
<1>2. k \in Keys /\ k # NoKey BY <1>1, NewKeyType
<1>3. HandleCheck(x, v) = y BY DEF HandleCheck
<1> HIDE DEF k, g
<1>4. Chain(x, a, {}, {}) /\ a.s = x.s /\ a.seen = x.seen BY <1>1, CheckChain
<1> HIDE DEF a
<1>5. a \in Handler BY <1>4 DEF Chain
<1>6. Chain(a, u, {CheckMsg(a.s)}, {}) /\ u.seen = a.seen /\ u.s = a.s
  BY <1>5, SendCheckChain
<1> HIDE DEF u
<1>7. u \in Handler BY <1>6 DEF Chain
<1>8. /\ w \in Handler
      /\ w.s = u.s /\ w.out = u.out /\ w.app = u.app /\ w.ev = u.ev
      /\ w.seen = u.seen
      /\ w.ok => u.ok /\ w.key = k
      /\ ~w.ok => w.key = u.key
  BY <1>2, <1>7, KeepDoes
<1> HIDE DEF w
<1>9. /\ z \in Handler
      /\ z.out = w.out /\ z.app = w.app /\ z.key = w.key
      /\ z.seen = w.seen
      /\ z.ok => w.ok
      /\ ~z.ok => z.s = w.s /\ z.ev = w.ev
      /\ z.ok => /\ z.s = [w.s EXCEPT !.bond = w.key]
                 /\ z.ev = Append(w.ev, "encrypt")
  BY <1>8, EncryptDoes
<1> HIDE DEF z
<1>10. /\ Chain(z, y, {}, {}) /\ y.seen = z.seen /\ y.ok = z.ok
       /\ ~y.ok => y.s = z.s
       /\ y.ok => y.s = [z.s EXCEPT !.step = "link_encrypted"]
  BY <1>9, GoChain DEF Steps
<1> HIDE DEF y
<1>11. /\ y \in Handler /\ y.seen = x.seen
       /\ Elems(y.out) \subseteq {CheckMsg(x.s)}
       /\ Elems(y.app) \subseteq Elems(x.app) \cup Notes
       /\ y.key \in {x.key, k}
  BY <1>1, <1>4, <1>6, <1>8, <1>9, <1>10 DEF Chain
<1>12. \A m \in Elems(y.out) : m.k = "dhkey" /\ m.v = Proof(x.s)
  BY <1>11 DEF CheckMsg
<1>13. CASE ~y.ok
  <2>1. y.s = x.s BY <1>13, <1>4, <1>6, <1>8, <1>9, <1>10
  <2>2. PeripheralRun(x, y)
    BY <1>11, <1>12, <1>13, <2>1
    DEF PeripheralRun, PeripheralBegins, Mid, Closing, Frozen, HasSent,
        SameSecrets, PeripheralTold, Fits, k
  <2> QED BY <1>3, <1>11, <1>13, <2>2
<1>14. CASE y.ok
  <2>1. y.key = k /\ y.s = [[x.s EXCEPT !.bond = k] EXCEPT !.step = "link_encrypted"]
    <3>1. z.ok /\ w.ok /\ w.s = x.s /\ w.key = k
      BY <1>14, <1>4, <1>6, <1>8, <1>9, <1>10
    <3>2. y.key = k BY <3>1, <1>9, <1>10 DEF Chain
    <3> QED BY <3>1, <3>2, <1>9, <1>10, <1>14
  <2>2. /\ y.s.step = "link_encrypted" /\ y.s.bond = k /\ SameSecrets(x.s, y.s)
    BY <1>1, <2>1 DEF Machine, SameSecrets
  <2>3. PeripheralRun(x, y)
    BY <1>11, <1>12, <1>14, <2>1, <2>2
    DEF PeripheralRun, PeripheralBegins, Mid, Closing, Frozen, HasSent,
        SameSecrets, PeripheralTold, Fits, k
  <2> QED BY <1>3, <1>11, <2>2, <2>3
<1> QED BY <1>13, <1>14

(* The user's yes. *)
LEMMA AcceptRuns ==
  ASSUME NEW x, PeripheralBegins(x), link \in Nat, x.s.step = "result"
  PROVE PeripheralRun(x, Accept(x))
<1>1. x \in Handler /\ x.s \in Machine BY DEF PeripheralBegins, Handler
<1>2. CASE x.s.held # <<>>
  <2>1. Accept(x) = HandleCheck(x, x.s.held) BY <1>2 DEF Accept
  <2> QED BY <1>2, <2>1, HandleCheckRuns
<1>3. CASE x.s.held = <<>>
  <2> DEFINE y == Go(x, "dhkey_ea")
  <2>1. Accept(x) = y BY <1>3 DEF Accept
  <2>2. /\ Chain(x, y, {}, {}) /\ y.seen = x.seen /\ y.ok = x.ok
        /\ ~y.ok => y.s = x.s
        /\ y.ok => y.s = [x.s EXCEPT !.step = "dhkey_ea"]
    BY <1>1, GoChain DEF Steps
  <2> HIDE DEF y
  <2>3. Chain(x, y, Plain, Notes) BY <2>2 DEF Chain
  <2>4. /\ y.s.bond = x.s.bond /\ y.s.step \in {"result", "dhkey_ea"}
        /\ SameSecrets(x.s, y.s)
    BY <1>1, <2>2 DEF Machine, SameSecrets
  <2>5. Fits(y.s.step) /\ Method = "numeric" /\ ~Passkey
    BY <2>4, MethodKinds DEF Fits, PeripheralBegins
  <2>6. ~HasSent(x.s) BY <1>3 DEF HasSent, Closing
  <2>7. PeripheralRun(x, y)
    BY <2>2, <2>3, <2>4, <2>5, <2>6, PeripheralQuiet DEF Mid, SameSecrets
  <2> QED BY <2>1, <2>7
<1> QED BY <1>2, <1>3

(* A command of the peripheral; before the user has answered it only holds  *)
(* what it gets.                                                            *)
LEMMA PeripheralCommandRuns ==
  ASSUME NEW x, PeripheralBegins(x), link \in Nat,
         NEW m \in Message, m \in Elems(wire["peripheral"]),
         NEW b \in BOOLEAN, NEW shown \in Nat
  PROVE LET y == PeripheralCommand(x, m.k, m.v, b, shown)
        IN /\ PeripheralRun(x, y)
           /\ x.s.step = "result" =>
                /\ y.s.step = "result" /\ y.key = x.key
                /\ \A q \in Elems(y.out) : q.k # "dhkey"
           /\ y.ok => y.s.step # "pairing_request"
           /\ x.s.step = "pairing_request" => y.s.step # "success"
<1> DEFINE y == PeripheralCommand(x, m.k, m.v, b, shown)
           at(step, command) == x.s.step = step /\ m.k = command
<1>1. x \in Handler /\ x.s \in Machine /\ x.s.round \in Nat /\ Elems(x.out) = {}
  BY ElemsOfNone DEF PeripheralBegins, Handler, Machine
<1>2. CASE at("pairing_request", "request")
  <2> DEFINE z == [x EXCEPT !.s = [@ EXCEPT !.own = b, !.peer = m.v = <<1>>]]
             u == Send(z, "response", <<Flag(b)>>)
             w == Go(u, "public_key")
  <2>1. y = w BY <1>2 DEF PeripheralCommand
  <2>2. /\ PeripheralRun(x, w)
        /\ w.s.step = IF w.ok THEN "public_key" ELSE "pairing_request"
    BY <1>2, RequestRuns
  <2> HIDE DEF w
  <2> QED BY <1>2, <2>1, <2>2
<1>3. CASE at("public_key", "public_key")
  <2> DEFINE z == Send(x, "public_key", <<>>)
  <2>1. Displays("peripheral") => Passkey BY DEF Displays, Passkey
  <2>2. PeripheralRun(x, y)
    <3>1. y = IF Displays("peripheral")
              THEN GoRound(SetSecret(Tell(z, "display"), shown), "confirm", 0)
              ELSE IF Passkey THEN Go(Tell(z, "input"), "input")
              ELSE Go(SendConfirm(z, 0), "numeric_random")
      BY <1>3 DEF PeripheralCommand
    <3>2. /\ Passkey =>
                /\ PeripheralRun(x, GoRound(SetSecret(Tell(z, "display"), shown),
                                            "confirm", 0))
                /\ PeripheralRun(x, Go(Tell(z, "input"), "input"))
          /\ ~Passkey =>
                PeripheralRun(x, Go(SendConfirm(z, 0), "numeric_random"))
      BY <1>3, PeripheralKeyRuns
    <3> HIDE DEF y, z
    <3> QED BY <2>1, <3>1, <3>2
  <2> QED BY <1>3, <2>2 DEF PeripheralRun
<1>4. CASE at("numeric_random", "random") \/ at("random", "random")
  <2>1. y = IF x.s.step = "random" THEN PeripheralRandom(x, m.v)
            ELSE PeripheralNumeric(x, m.v)
    BY <1>4 DEF PeripheralCommand
  <2>2. m.v[1] \in Nat BY <1>4, MessageKinds
  <2>3. PeripheralRun(x, y) BY <1>4, <2>1, <2>2, PeripheralRandomRuns
  <2> QED BY <1>4, <2>3 DEF PeripheralRun
<1>5. CASE at("result", "dhkey") /\ x.s.held = <<>>
  <2> DEFINE v == m.v
             t == [x.s EXCEPT !.held = v]
  <2>1. y = [x EXCEPT !.s.held = v] BY <1>5 DEF PeripheralCommand
  <2>2. v \in Commitments \cup Checks BY <1>5, MessageKinds
  <2> HIDE DEF v
  <2>3. PeripheralRun(x, y) BY <1>5, <2>1, <2>2, HoldsRuns
  <2>4. /\ t \in Machine /\ t.step = "result" BY <1>1, <1>5, <2>2 DEF Machine
  <2>5. y = [x EXCEPT !.s = t] BY <2>1
  <2> HIDE DEF t
  <2>6. y.s = t /\ y.out = x.out /\ y.key = x.key BY <1>1, <2>4, <2>5, PutDoes
  <2> QED BY <1>1, <2>3, <2>4, <2>6
<1>6. CASE at("input", "confirm")
  <2> DEFINE v == m.v
  <2>1. y = [x EXCEPT !.s.held = v] BY <1>6 DEF PeripheralCommand
  <2>2. v \in Commitments \cup Checks BY <1>6, MessageKinds
  <2> HIDE DEF v
  <2>3. PeripheralRun(x, y) BY <1>6, <2>1, <2>2, HoldsRuns
  <2> QED BY <1>6, <2>3 DEF PeripheralRun
<1>7. CASE at("confirm", "confirm")
  <2>1. y = HandleConfirm(x, m.v, x.s.round) BY <1>7 DEF PeripheralCommand
  <2>2. m.v \in Commitments \cup Checks BY <1>7, MessageKinds
  <2>3. Passkey BY <1>7 DEF PeripheralBegins, Fits
  <2>4. Chain(x, x, {}, {}) BY <1>1 DEF Chain
  <2>5. PeripheralRun(x, y)
    BY <1>1, <1>7, <2>1, <2>2, <2>3, <2>4, PeripheralConfirmRuns
  <2> QED BY <1>7, <2>5 DEF PeripheralRun
<1>8. CASE at("dhkey_ea", "dhkey")
  <2>1. y = HandleCheck(x, m.v) BY <1>8 DEF PeripheralCommand
  <2>2. PeripheralRun(x, y) BY <1>8, <2>1, HandleCheckRuns
  <2> QED BY <1>8, <2>2 DEF PeripheralRun
<1>9. CASE y = Refuse(x)
  <2>1. Chain(x, y, {}, {}) /\ y.s = x.s /\ y.seen = x.seen /\ ~y.ok
        /\ y.key = x.key /\ y.out = x.out
    BY <1>1, <1>9, FailChain, FailDoes
  <2>2. Chain(x, y, Plain, Notes) BY <2>1 DEF Chain
  <2>3. PeripheralRun(x, y) BY <2>1, <2>2, PeripheralStays
  <2> QED BY <1>1, <2>1, <2>3
<1>10. \/ at("pairing_request", "request")
       \/ at("public_key", "public_key")
       \/ at("numeric_random", "random") \/ at("random", "random")
       \/ at("result", "dhkey") /\ x.s.held = <<>>
       \/ at("input", "confirm")
       \/ at("confirm", "confirm")
       \/ at("dhkey_ea", "dhkey")
       \/ y = Refuse(x)
  BY DEF PeripheralCommand
<1> HIDE DEF y, at
<1> QED BY <1>2, <1>3, <1>4, <1>5, <1>6, <1>7, <1>8, <1>9, <1>10 DEF y

(* The events of the peripheral. *)
LEMMA PeripheralEncryptedRuns ==
  ASSUME NEW x, PeripheralBegins(x),
         x.s.step \in {"link_encrypted", "pairing_request"}
  PROVE LET y == PeripheralEvent(x, "encrypted", 0)
        IN PeripheralRun(x, y) /\ y.seen = x.seen /\ y.key = x.key
<1>1. x \in Handler /\ x.s \in Machine /\ x.ok /\ Elems(x.out) = {}
  BY ElemsOfNone DEF PeripheralBegins, Handler
<1> DEFINE z == IF x.s.step = "link_encrypted" \/ x.key = NoKey THEN x
                ELSE Encrypt(x)
           y == Completes(z)
<1>2. PeripheralEvent(x, "encrypted", 0) = y BY DEF PeripheralEvent
<1>3. /\ z \in Handler /\ z.out = x.out /\ z.app = x.app /\ z.key = x.key
      /\ z.seen = x.seen
      /\ ~z.ok => z.s = x.s
      /\ z.ok => z.s = x.s \/ (x.s.step = "pairing_request"
                               /\ z.s = [x.s EXCEPT !.bond = x.key])
      /\ z.ok /\ z.s = x.s =>
           x.s.step = "link_encrypted" \/ x.key = NoKey \/ x.s.bond = x.key
  <2>1. CASE x.s.step = "link_encrypted" \/ x.key = NoKey BY <1>1, <2>1
  <2>2. CASE ~(x.s.step = "link_encrypted" \/ x.key = NoKey)
    <3>1. z = Encrypt(x) BY <2>2
    <3>2. x.s.step = "pairing_request" BY <2>2
    <3>3. [x.s EXCEPT !.bond = x.key] = x.s => x.s.bond = x.key
      BY <1>1 DEF Machine
    <3> QED BY <1>1, <3>1, <3>2, <3>3, EncryptDoes
  <2> QED BY <2>1, <2>2
<1> HIDE DEF z
<1>4. /\ Chain(z, y, {}, Notes) /\ y.seen = z.seen
      /\ z.ok => y.s = [z.s EXCEPT !.step = "success"]
      /\ ~z.ok => y.s = z.s /\ ~y.ok
  BY <1>3, CompletesDoes
<1> HIDE DEF y
<1>5. /\ y \in Handler /\ y.key = x.key /\ y.seen = x.seen
      /\ Elems(y.out) = {}
      /\ Elems(y.app) \subseteq Elems(x.app) \cup Notes
  BY <1>1, <1>3, <1>4 DEF Chain
<1>6. CASE ~z.ok
  <2>1. y.s = x.s BY <1>3, <1>4, <1>6
  <2>2. PeripheralRun(x, y)
    BY <1>5, <2>1 DEF PeripheralRun, PeripheralBegins, Mid, Closing, Frozen,
       HasSent, SameSecrets, PeripheralTold
  <2> QED BY <1>2, <1>5, <2>2
<1>7. CASE z.ok
  <2>1. /\ y.s.step = "success" /\ SameSecrets(x.s, y.s)
        /\ y.s.bond = z.s.bond
        /\ z.s.bond \in {x.s.bond, x.key}
        /\ x.s.step = "link_encrypted" => z.s.bond = x.s.bond
        /\ x.s.step = "pairing_request" => z.s.bond = x.key
    <3>1. z.s \in Machine BY <1>3 DEF Handler
    <3>2. y.s = [z.s EXCEPT !.step = "success"] BY <1>4, <1>7
    <3>3. y.s.step = "success" /\ y.s.bond = z.s.bond /\ SameSecrets(z.s, y.s)
      BY <3>1, <3>2 DEF Machine, SameSecrets
    <3>4. SameSecrets(x.s, z.s) /\ z.s.bond \in {x.s.bond, x.key}
      BY <1>1, <1>3, <1>7 DEF Machine, SameSecrets
    <3>5. x.s.step = "link_encrypted" => z.s = x.s
      BY <1>3, <1>7
    <3>6. x.s.step = "pairing_request" => z.s.bond = x.key
      <4>1. x.s.step = "pairing_request" => x.s.bond = NoKey
        BY DEF PeripheralBegins
      <4>2. [x.s EXCEPT !.bond = x.key].bond = x.key BY <1>1 DEF Machine
      <4> QED BY <4>1, <4>2, <1>3, <1>7
    <3> QED BY <3>3, <3>4, <3>5, <3>6 DEF SameSecrets
  <2>2. PeripheralRun(x, y)
    BY <1>5, <2>1 DEF PeripheralRun, PeripheralBegins, Mid, Closing, Frozen,
       HasSent, SameSecrets, PeripheralTold, Fits
  <2> QED BY <1>2, <1>5, <2>2
<1> QED BY <1>6, <1>7

LEMMA PeripheralKeyedRuns ==
  ASSUME NEW x, PeripheralBegins(x), x.s.step = "input", NEW k \in Nat
  PROVE LET y == PeripheralEvent(x, "key", k)
        IN PeripheralRun(x, y)
<1> DEFINE w == SetSecret(x, k)
           y1 == GoRound(w, "confirm", 0)
           y2 == HandleConfirm(w, x.s.held, 0)
<1>1. x \in Handler /\ x.s \in Machine BY DEF PeripheralBegins, Handler
<1>2. PeripheralEvent(x, "key", k) = IF x.s.held = <<>> THEN y1 ELSE y2
  BY DEF PeripheralEvent
<1>3. Passkey BY DEF PeripheralBegins, Fits
<1>4. /\ Chain(x, w, {}, {}) /\ w.seen = k + 1
      /\ w.s = [x.s EXCEPT !.secret = k]
  BY <1>1, SetSecretChain
<1> HIDE DEF w
<1>5. w \in Handler BY <1>4 DEF Chain
<1>6. /\ w.s \in Machine
      /\ w.s.step = "input" /\ w.s.secret = k /\ w.s.bond = x.s.bond
      /\ w.s.own = x.s.own /\ w.s.peer = x.s.peer
  <2>1. w.s \in Machine BY <1>5 DEF Handler
  <2> QED BY <2>1, <1>1, <1>4 DEF Machine
<1>7. x.s.held = <<>> => PeripheralRun(x, y1)
  <2>1. "confirm" \in Steps /\ 0 \in Nat BY DEF Steps
  <2>2. /\ Chain(w, y1, {}, {}) /\ y1.seen = w.seen /\ y1.ok = w.ok
        /\ ~y1.ok => y1.s = w.s
        /\ y1.ok => y1.s = [w.s EXCEPT !.step = "confirm", !.round = 0]
    BY <1>5, <2>1, GoRoundChain
  <2> HIDE DEF y1
  <2>3. Chain(x, y1, Plain, Notes) BY <1>4, <2>2 DEF Chain
  <2>4. /\ y1.s.bond = x.s.bond /\ y1.s.own = x.s.own /\ y1.s.peer = x.s.peer
        /\ y1.s.step \in {"input", "confirm"} /\ y1.s.secret = k
        /\ y1.seen = k + 1
    BY <1>4, <1>6, <2>2 DEF Machine
  <2>5. Fits(y1.s.step) BY <1>3, <2>4 DEF Fits
  <2> QED BY <2>3, <2>4, <2>5, PeripheralQuiet DEF Mid, PeripheralTold
<1>8. x.s.held # <<>> => PeripheralRun(x, y2)
  <2> SUFFICES ASSUME x.s.held # <<>> PROVE PeripheralRun(x, y2) OBVIOUS
  <2> DEFINE v == x.s.held
  <2>1. v \in Commitments \cup Checks BY <1>1 DEF Machine, Nothing
  <2> HIDE DEF v
  <2>2. 0 \in Nat /\ w.seen = w.s.secret + 1 /\ w.s.step = x.s.step
    BY <1>4, <1>6
  <2>3. PeripheralRun(x, HandleConfirm(w, v, 0))
    BY <1>3, <1>4, <1>6, <2>1, <2>2, PeripheralConfirmRuns
  <2> QED BY <2>3 DEF v
<1> HIDE DEF y1, y2
<1> QED BY <1>2, <1>7, <1>8

LEMMA PeripheralEventRuns ==
  ASSUME NEW x, PeripheralBegins(x), link \in Nat,
         NEW k \in Nat, NEW event \in {"yes", "no", "key", "encrypted"},
         event = "encrypted" => k = 0
  PROVE LET y == PeripheralEvent(x, event, k)
        IN /\ PeripheralRun(x, y)
           /\ event = "yes" /\ x.s.step = "result" => y = Accept(x)
           /\ ~(event = "yes" /\ x.s.step = "result")
                /\ x.s.step \in {"result", "dhkey_ea"} =>
                /\ y.key = x.key
                /\ y.out = <<>>
                /\ y.s.step \in {x.s.step, "error"}
           /\ event # "encrypted" /\ x.s.step = "pairing_request"
                => y.s.step \in {"pairing_request", "error"}
<1> DEFINE y == PeripheralEvent(x, event, k)
<1>1. x \in Handler /\ x.s \in Machine /\ x.out = <<>>
  BY DEF PeripheralBegins, Handler
<1>2. CASE event = "encrypted" /\ x.s.step \in {"link_encrypted", "pairing_request"}
  BY <1>2, PeripheralEncryptedRuns
<1>3. CASE event = "yes" /\ x.s.step = "result"
  <2>1. y = Accept(x) BY <1>3 DEF PeripheralEvent
  <2> QED BY <1>3, <2>1, AcceptRuns
<1>4. CASE event = "key" /\ x.s.step = "input"
  BY <1>4, PeripheralKeyedRuns
<1>5. CASE ~(event = "yes" /\ x.s.step = "result") /\ y = x
  <2>1. Chain(x, x, Plain, Notes) BY <1>1 DEF Chain
  <2>2. PeripheralRun(x, x) BY <2>1, PeripheralStays
  <2> QED BY <1>1, <1>5, <2>2
<1>6. CASE ~(event = "yes" /\ x.s.step = "result") /\ y = Errs(x)
  <2>1. /\ Chain(x, y, {}, Notes) /\ y.seen = x.seen /\ ~y.ok
        /\ y.s = [x.s EXCEPT !.step = "error"]
    BY <1>1, <1>6, ErrsDoes
  <2>2. Errs(x).out = x.out
    <3> DEFINE t == [x.s EXCEPT !.step = "error"]
               z == [x EXCEPT !.s = t]
    <3>1. Errs(x) = Fail(Tell(z, "failed")) BY DEF Errs
    <3>2. t \in Machine BY <1>1 DEF Machine, Steps
    <3> HIDE DEF t
    <3>3. z \in Handler /\ z.out = x.out BY <1>1, <3>2, PutDoes
    <3> HIDE DEF z
    <3>4. Tell(z, "failed") \in Handler /\ Tell(z, "failed").out = z.out
      BY <3>3, TellDoes DEF News
    <3> QED BY <3>1, <3>3, <3>4, FailDoes
  <2> HIDE DEF y
  <2>3. Chain(x, y, Plain, Notes) BY <2>1 DEF Chain
  <2>4. PeripheralRun(x, y) BY <2>1, <2>3, PeripheralStays
  <2>5. y.s.step = "error" BY <1>1, <2>1 DEF Machine
  <2>6. y.key = x.key /\ y.out = <<>> BY <1>1, <1>6, <2>1, <2>2 DEF Chain
  <2> QED BY <1>6, <2>4, <2>5, <2>6 DEF y
<1>7. \/ event = "encrypted" /\ x.s.step \in {"link_encrypted", "pairing_request"}
      \/ event = "yes" /\ x.s.step = "result"
      \/ event = "key" /\ x.s.step = "input"
      \/ ~(event = "yes" /\ x.s.step = "result") /\ y = x
      \/ ~(event = "yes" /\ x.s.step = "result") /\ y = Errs(x)
  BY DEF PeripheralEvent
<1> HIDE DEF y
<1> QED BY <1>2, <1>3, <1>4, <1>5, <1>6, <1>7 DEF y

LEMMA PeripheralTimer ==
  ASSUME NEW x, NEW y, PeripheralRun(x, y)
  PROVE PeripheralRun(x, Timer(y)) /\ Timer(y).s = y.s /\ Timer(y).ok = y.ok
        /\ Timer(y).key = y.key /\ Timer(y).out = y.out /\ Timer(y) \in Handler
        /\ Timer(y).seen = y.seen
<1> DEFINE z == Timer(y)
<1>1. y \in Handler BY DEF PeripheralRun
<1>2. /\ z \in Handler
      /\ z.s = y.s /\ z.out = y.out /\ z.app = y.app /\ z.key = y.key
      /\ z.ok = y.ok /\ z.seen = y.seen
  BY <1>1, TimerDoes
<1> HIDE DEF z
<1>3. PeripheralRun(x, z) BY <1>2 DEF PeripheralRun
<1> QED BY <1>2, <1>3 DEF z

LEMMA PeripheralReport ==
  ASSUME NEW x, NEW y, PeripheralRun(x, y)
  PROVE /\ PeripheralRun(x, Report(y)) /\ Report(y).s = y.s
        /\ Report(y).key = y.key /\ Report(y) \in Handler
        /\ Report(y).seen = y.seen
        /\ Proves(Report(y)) => Proves(y)
<1> DEFINE z == Report(y)
<1>1. y \in Handler BY DEF PeripheralRun
<1>2. /\ z \in Handler
      /\ z.s = y.s /\ z.app = y.app /\ z.key = y.key /\ z.ev = y.ev
      /\ z.seen = y.seen /\ z.ok = y.ok
      /\ Elems(z.out) \subseteq Elems(y.out) \cup {[k |-> "failed", v |-> <<>>]}
  BY <1>1, ReportDoes
<1> HIDE DEF z
<1>3. \A m \in Elems(z.out) : m \in Elems(y.out) \/ m.k = "failed" BY <1>2
<1>4. \A m \in Elems(z.out) : m.k \in {"response", "dhkey"} => m \in Elems(y.out)
  BY <1>3
<1>5. \A m \in Elems(z.out) :
          /\ m.k = "response" => /\ x.s.step = "pairing_request"
                                 /\ z.s.step = "public_key" /\ z.ok
                                 /\ m.v = <<Flag(z.s.own)>>
          /\ m.k = "dhkey" => /\ x.s.step \in {"result", "dhkey_ea"}
                              /\ m.v = Proof(x.s)
                              /\ HasSent(z.s) \/ (~z.ok /\ z.s.step = "dhkey_ea")
  BY <1>2, <1>4 DEF PeripheralRun
<1>6. PeripheralRun(x, z) BY <1>2, <1>5 DEF PeripheralRun
<1>7. Proves(z) => Proves(y) BY <1>4 DEF Proves
<1> QED BY <1>2, <1>6, <1>7 DEF z

LEMMA PeripheralBreaks ==
  ASSUME NEW x, NEW y, PeripheralBegins(x), PeripheralRun(x, y),
         ~y.ok, x.s.step = "result" => ~Proves(y)
  PROVE PeripheralEnd(x, Report([y EXCEPT !.s.step = "error"]))
<1> DEFINE t == [y.s EXCEPT !.step = "error"]
           w == [y EXCEPT !.s = t]
<1>1. y \in Handler /\ y.s \in Machine /\ x.s \in Machine
  BY DEF PeripheralRun, PeripheralBegins, Handler
<1>2. t \in Machine /\ t.step = "error" /\ t.bond = y.s.bond
      /\ SameSecrets(y.s, t)
  BY <1>1 DEF Machine, Steps, SameSecrets
<1>3. w = [y EXCEPT !.s.step = "error"] OBVIOUS
<1> HIDE DEF t
<1>4. /\ w \in Handler
      /\ w.s = t
      /\ w.out = y.out /\ w.app = y.app /\ w.key = y.key
      /\ w.ev = y.ev /\ w.seen = y.seen /\ w.ok = y.ok
  BY <1>1, <1>2, PutDoes
<1> HIDE DEF w
<1>5. HasSent(w.s) BY <1>2, <1>4 DEF HasSent, Closing
<1>6. \A m \in Elems(w.out) :
          /\ m.k # "response"
          /\ m.k = "dhkey" => x.s.step \in {"result", "dhkey_ea"} /\ m.v = Proof(x.s)
  BY <1>4 DEF PeripheralRun
<1>7. x.s.step = "error" => w.s.bond = x.s.bond
  BY <1>2, <1>4 DEF PeripheralRun, Closing, Mid, HasSent
<1>8. /\ w.s.bond \in {x.s.bond, w.key}
      /\ x.s.step \in Frozen => SameSecrets(x.s, w.s)
      /\ x.s.step # "pairing_request" =>
           w.s.own = x.s.own /\ w.s.peer = x.s.peer
  BY <1>2, <1>4 DEF PeripheralRun, SameSecrets
<1>9. PeripheralRun(x, w)
  <2>1. \/ w.key = x.key
        \/ w.key = NewKey("peripheral", x.s) /\ x.s.step \in {"result", "dhkey_ea"}
    BY <1>4 DEF PeripheralRun
  <2>2. x.s.step \in Frozen =>
          w.seen = x.seen \/ (Method = "numeric" /\ w.seen = 1)
    BY <1>4 DEF PeripheralRun
  <2>3. Elems(w.app) \subseteq Elems(x.app) \cup Notes
    BY <1>4 DEF PeripheralRun
  <2> QED
    BY <1>2, <1>4, <1>5, <1>6, <1>7, <1>8, <2>1, <2>2, <2>3
    DEF PeripheralRun, Mid, Closing, PeripheralTold, Fits
<1>10. /\ PeripheralRun(x, Report(w)) /\ Report(w).s = w.s
       /\ Proves(Report(w)) => Proves(w)
  BY <1>9, PeripheralReport
<1>11. Proves(w) => x.s.step = "dhkey_ea"
  BY <1>4, <1>6 DEF Proves
<1> QED BY <1>2, <1>3, <1>4, <1>5, <1>10, <1>11 DEF PeripheralEnd

LEMMA PeripheralCommandEnds ==
  ASSUME NEW x, PeripheralBegins(x), link \in Nat,
         NEW m \in Message, m \in Elems(wire["peripheral"]),
         NEW b \in BOOLEAN, NEW shown \in Nat
  PROVE LET y == PeripheralCommand(x, m.k, m.v, b, shown)
            r == IF y.ok THEN Timer(y) ELSE Report([y EXCEPT !.s.step = "error"])
        IN /\ PeripheralEnd(x, r)
           /\ x.s.step = "pairing_request" => r.s.step # "success"
<1> DEFINE y == PeripheralCommand(x, m.k, m.v, b, shown)
           r == IF y.ok THEN Timer(y) ELSE Report([y EXCEPT !.s.step = "error"])
<1>1. /\ PeripheralRun(x, y)
      /\ x.s.step = "result" =>
           /\ y.s.step = "result" /\ y.key = x.key
           /\ \A q \in Elems(y.out) : q.k # "dhkey"
      /\ x.s.step = "pairing_request" => y.s.step # "success"
  BY PeripheralCommandRuns
<1> HIDE DEF y
<1>2. x.s.step = "result" => ~Proves(y) BY <1>1 DEF Proves
<1>3. CASE ~y.ok
  <2>1. PeripheralEnd(x, r) BY <1>1, <1>2, <1>3, PeripheralBreaks
  <2>2. r.s.step = "error"
    <3> DEFINE t == [y.s EXCEPT !.step = "error"]
               w == [y EXCEPT !.s = t]
    <3>1. y \in Handler /\ y.s \in Machine BY <1>1 DEF PeripheralRun, Handler
    <3>2. t \in Machine /\ t.step = "error" BY <3>1 DEF Machine, Steps
    <3>3. r = Report(w) BY <1>3
    <3> HIDE DEF t
    <3>4. w \in Handler /\ w.s = t BY <3>1, <3>2, PutDoes
    <3> HIDE DEF w
    <3>5. Report(w).s = w.s BY <3>4, ReportDoes
    <3> QED BY <3>2, <3>3, <3>4, <3>5
  <2> QED BY <2>1, <2>2 DEF y
<1>4. CASE y.ok
  <2> DEFINE z == Timer(y)
  <2>1. PeripheralRun(x, z) /\ z.s = y.s /\ z.ok = y.ok
        /\ z.key = y.key /\ z.out = y.out /\ r = z
    BY <1>1, <1>4, PeripheralTimer
  <2> HIDE DEF z
  <2>2. Proves(z) => HasSent(z.s) /\ x.s.step = "dhkey_ea"
    BY <1>1, <1>2, <1>4, <2>1 DEF PeripheralRun, Proves
  <2>3. z.key # x.key => HasSent(z.s) BY <1>4, <2>1 DEF PeripheralRun
  <2>4. Method = "numeric" /\ z.s.step = "dhkey_ea" => x.s.step = "dhkey_ea"
    BY <1>1, <2>1 DEF PeripheralRun
  <2> QED BY <1>1, <1>4, <2>1, <2>2, <2>3, <2>4 DEF PeripheralEnd, y
<1> QED BY <1>3, <1>4

LEMMA PeripheralAnswerEnds ==
  ASSUME NEW x, PeripheralBegins(x), link \in Nat,
         NEW k \in Nat, NEW event \in {"yes", "no", "key"},
         event = "yes" => Method = "numeric"
  PROVE LET y == PeripheralEvent(x, event, k)
            q == IF y.ok THEN Timer(y) ELSE Report(y)
            r == IF event = "yes" THEN [q EXCEPT !.seen = 1] ELSE q
        IN /\ PeripheralEnd(x, r)
           /\ x.s.step = "pairing_request" => r.s.step # "success"
<1> DEFINE y == PeripheralEvent(x, event, k)
           q == IF y.ok THEN Timer(y) ELSE Report(y)
           r == IF event = "yes" THEN [q EXCEPT !.seen = 1] ELSE q
<1>1. /\ PeripheralRun(x, y)
      /\ event = "yes" /\ x.s.step = "result" => y = Accept(x)
      /\ ~(event = "yes" /\ x.s.step = "result")
                /\ x.s.step \in {"result", "dhkey_ea"} =>
                /\ y.key = x.key
                /\ y.out = <<>>
                /\ y.s.step \in {x.s.step, "error"}
      /\ x.s.step = "pairing_request"
                => y.s.step \in {"pairing_request", "error"}
  BY PeripheralEventRuns
<1> HIDE DEF y
<1>2. PeripheralRun(x, q) /\ q.s = y.s /\ q.key = y.key /\ q \in Handler
      /\ q.seen = y.seen /\ (Proves(q) => Proves(y))
  <2>1. CASE y.ok
    <3>1. q = Timer(y) BY <2>1
    <3> QED BY <1>1, <3>1, PeripheralTimer DEF Proves
  <2>2. CASE ~y.ok
    <3>1. q = Report(y) BY <2>2
    <3> QED BY <1>1, <3>1, PeripheralReport
  <2> QED BY <2>1, <2>2
<1> HIDE DEF q
<1>3. Proves(y) \/ y.key # x.key => HasSent(y.s) /\ event = "yes"
  <2>1. y.out = <<>> => ~Proves(y) BY ElemsOfNone DEF Proves
  <2>2. Proves(y) \/ y.key # x.key => x.s.step \in {"result", "dhkey_ea"}
    BY <1>1 DEF PeripheralRun, Proves
  <2>3. Proves(y) \/ y.key # x.key => event = "yes" /\ x.s.step = "result"
    BY <1>1, <2>1, <2>2
  <2>4. ASSUME Proves(y) \/ y.key # x.key, x.s.step = "result", event = "yes"
        PROVE HasSent(y.s)
    <3>1. HasSent(y.s) \/ (~y.ok /\ y.s.step = "dhkey_ea")
      BY <1>1, <2>4 DEF PeripheralRun, Proves
    <3>2. CASE x.s.held # <<>>
      BY <1>1, <2>4, <3>2 DEF PeripheralRun, HasSent
    <3>3. CASE x.s.held = <<>>
      <4>1. y = Go(x, "dhkey_ea") BY <1>1, <2>4, <3>3 DEF Accept
      <4>2. y.ok BY <4>1, GoChain DEF PeripheralBegins, Steps
      <4> QED BY <3>1, <4>2
    <3> QED BY <3>2, <3>3
  <2> QED BY <2>3, <2>4
<1>4. Method = "numeric" /\ y.s.step = "dhkey_ea"
        => x.s.step = "dhkey_ea" \/ event = "yes"
  <2>1. Method = "numeric" /\ y.s.step = "dhkey_ea" =>
          x.s.step \in {"result", "dhkey_ea"}
    BY <1>1 DEF PeripheralRun
  <2> QED BY <1>1, <2>1
<1>5. CASE event # "yes"
  <2>1. r = q BY <1>5
  <2> QED BY <1>1, <1>2, <1>3, <1>4, <1>5, <2>1 DEF PeripheralEnd, q, y
<1>6. CASE event = "yes"
  <2>1. r = [q EXCEPT !.seen = 1] BY <1>6
  <2>2. Method = "numeric" /\ ~Passkey BY <1>6, MethodKinds
  <2>3. /\ r \in Handler /\ r.s = q.s /\ r.out = q.out /\ r.app = q.app
        /\ r.key = q.key /\ r.ev = q.ev /\ r.ok = q.ok /\ r.seen = 1
    BY <1>2, <2>1 DEF Handler
  <2> HIDE DEF r
  <2>4. PeripheralRun(x, r) BY <1>2, <2>2, <2>3 DEF PeripheralRun
  <2>5. Proves(r) => Proves(y) BY <1>2, <2>3 DEF Proves
  <2> QED BY <1>1, <1>2, <1>3, <1>4, <2>3, <2>4, <2>5 DEF PeripheralEnd, r, q, y
<1> QED BY <1>5, <1>6

LEMMA PeripheralEncryptedEnds ==
  ASSUME NEW x, PeripheralBegins(x), link \in Nat
  PROVE LET y == PeripheralEvent(x, "encrypted", 0)
            r == IF y.ok THEN y ELSE Report(y)
        IN PeripheralEnd(x, r)
<1> DEFINE y == PeripheralEvent(x, "encrypted", 0)
           r == IF y.ok THEN y ELSE Report(y)
<1>1. /\ PeripheralRun(x, y)
      /\ x.s.step \in {"result", "dhkey_ea"} =>
           /\ y.key = x.key
           /\ y.out = <<>>
           /\ y.s.step \in {x.s.step, "error"}
  BY PeripheralEventRuns
<1> HIDE DEF y
<1>2. PeripheralRun(x, r) /\ r.s = y.s /\ r.key = y.key
      /\ (Proves(r) => Proves(y))
  BY <1>1, PeripheralReport DEF Proves
<1> HIDE DEF r
<1>3. ~Proves(y) /\ y.key = x.key
  <2>1. y.out = <<>> => ~Proves(y) BY ElemsOfNone DEF Proves
  <2>2. Proves(y) \/ y.key # x.key => x.s.step \in {"result", "dhkey_ea"}
    BY <1>1 DEF PeripheralRun, Proves
  <2> QED BY <1>1, <2>1, <2>2
<1>4. Method = "numeric" /\ y.s.step = "dhkey_ea" => x.s.step = "dhkey_ea"
  BY <1>1 DEF PeripheralRun
<1>5. PeripheralEnd(x, r) BY <1>2, <1>3, <1>4 DEF PeripheralEnd
<1> QED BY <1>5 DEF r, y

LEMMA PeripheralRequestEnds ==
  ASSUME NEW x, PeripheralBegins(x), x.s.step = "pairing_request"
  PROVE LET y == Send(x, "security", <<>>)
        IN /\ PeripheralEnd(x, y) /\ y.s = x.s /\ y.seen = x.seen
           /\ y.key = x.key
           /\ ~y.ok => y.out = <<>>
<1> DEFINE y == Send(x, "security", <<>>)
<1>1. x \in Handler /\ x.out = <<>> /\ Elems(x.out) = {}
  BY ElemsOfNone DEF PeripheralBegins
<1>2. [k |-> "security", v |-> <<>>] \in Plain BY PlainKinds
<1>3. Chain(x, y, Plain, {}) /\ y.s = x.s /\ y.seen = x.seen
  BY <1>1, <1>2, SendPlain
<1>4. ~y.ok => y.out = <<>>
  <2>1. [k |-> "security", v |-> <<>>] \in Message BY <1>2 DEF Plain
  <2> QED BY <1>1, <2>1, SendDoes
<1> HIDE DEF y
<1>5. Chain(x, y, Plain, Notes) /\ y.key = x.key BY <1>3 DEF Chain
<1>6. PeripheralRun(x, y) BY <1>3, <1>5, PeripheralStays
<1>7. ~Proves(y) BY <1>1, <1>3 DEF Proves, Chain, Plain
<1>8. PeripheralEnd(x, y) BY <1>3, <1>5, <1>6, <1>7 DEF PeripheralEnd
<1> QED BY <1>3, <1>4, <1>5, <1>8 DEF y

----------------------------------------------------------------------------
(* What a handler takes up and what it leaves. *)
LEMMA Beginning ==
  ASSUME TypeOK, NEW e \in Ends, NEW s \in Machine, NEW room \in Rooms
  PROVE LET x == Begin(e, s, room)
        IN /\ x \in Handler
           /\ x.s = s /\ x.out = <<>> /\ x.ok
           /\ x.key = bonds[e] /\ x.ev = events[e] /\ x.app = app[e]
           /\ x.seen = answer[e]
<1>1. /\ bonds[e] \in Keys /\ events[e] \in Seq(Queued)
      /\ app[e] \in Seq(News) /\ answer[e] \in Nat
  BY DEF TypeOK
<1>2. room \in Nat BY DEF Rooms, Plenty
<1>3. <<>> \in Seq(Message) OBVIOUS
<1> QED BY <1>1, <1>2, <1>3 DEF Begin, Handler

LEMMA Doing ==
  ASSUME TypeOK, NEW e \in Ends, NEW y \in Handler,
         NEW inbox \in Seq(Message), Done(e, y, inbox)
  PROVE /\ sm' \in [Ends -> Machine] /\ bonds' \in [Ends -> Keys]
        /\ events' \in [Ends -> Seq(Queued)] /\ app' \in [Ends -> Seq(News)]
        /\ answer' \in [Ends -> Nat] /\ wire' \in [Ends -> Seq(Message)]
        /\ sm' = [sm EXCEPT ![e] = y.s]
        /\ sm'[e] = y.s /\ sm'[Other(e)] = sm[Other(e)]
        /\ bonds'[e] = y.key /\ bonds'[Other(e)] = bonds[Other(e)]
        /\ events'[e] = y.ev /\ events'[Other(e)] = events[Other(e)]
        /\ app'[e] = y.app /\ app'[Other(e)] = app[Other(e)]
        /\ answer'[e] = y.seen /\ answer'[Other(e)] = answer[Other(e)]
        /\ wire'[e] = inbox
        /\ Elems(wire'[Other(e)]) \subseteq Elems(wire[Other(e)]) \cup Elems(y.out)
        /\ ~air \/ y.out = <<>> => wire'[Other(e)] = wire[Other(e)]
<1>1. /\ y.s \in Machine /\ y.key \in Keys /\ y.ev \in Seq(Queued)
      /\ y.app \in Seq(News) /\ y.seen \in Nat /\ y.out \in Seq(Message)
  BY DEF Handler
<1>2. Other(e) \in Ends /\ Other(e) # e BY DEF Ends, Other
<1>3. sm' \in [Ends -> Machine] /\ sm'[e] = y.s /\ sm'[Other(e)] = sm[Other(e)]
  BY <1>1, <1>2 DEF Done, TypeOK
<1>4. /\ bonds' \in [Ends -> Keys]
      /\ bonds'[e] = y.key /\ bonds'[Other(e)] = bonds[Other(e)]
  BY <1>1, <1>2 DEF Done, TypeOK
<1>5. /\ events' \in [Ends -> Seq(Queued)]
      /\ events'[e] = y.ev /\ events'[Other(e)] = events[Other(e)]
  BY <1>1, <1>2 DEF Done, TypeOK
<1>6. /\ app' \in [Ends -> Seq(News)]
      /\ app'[e] = y.app /\ app'[Other(e)] = app[Other(e)]
  BY <1>1, <1>2 DEF Done, TypeOK
<1>7. /\ answer' \in [Ends -> Nat]
      /\ answer'[e] = y.seen /\ answer'[Other(e)] = answer[Other(e)]
  BY <1>1, <1>2 DEF Done, TypeOK
<1>8. \A f \in Ends : wire[f] \in Seq(Message) BY DEF TypeOK
<1>9. /\ \A f \in Ends : wire[f] \o y.out \in Seq(Message)
      /\ Elems(wire[Other(e)] \o y.out) \subseteq
           Elems(wire[Other(e)]) \cup Elems(y.out)
  BY <1>1, <1>2, <1>8, ElemsOfBoth
<1>10. wire' = [f \in Ends |->
                 IF f = e THEN inbox
                 ELSE IF air THEN wire[f] \o y.out ELSE wire[f]]
  BY DEF Done
<1>11. wire' \in [Ends -> Seq(Message)] BY <1>8, <1>9, <1>10
<1>12. /\ wire'[e] = inbox
       /\ wire'[Other(e)] = IF air THEN wire[Other(e)] \o y.out
                            ELSE wire[Other(e)]
  BY <1>2, <1>10
<1>13. y.out = <<>> => wire[Other(e)] \o y.out = wire[Other(e)]
  BY <1>2, <1>8
<1>14. sm' = [sm EXCEPT ![e] = y.s] BY DEF Done
<1> QED BY <1>3, <1>4, <1>5, <1>6, <1>7, <1>9, <1>11, <1>12, <1>13, <1>14

(* A machine as it is kept, or as the first command makes it.               *)
LEMMA FreshType ==
  ASSUME NEW e \in Ends, NEW b \in BOOLEAN
  PROVE LET s == [Fresh(e) EXCEPT !.own = b]
        IN /\ {None, Fresh(e), s} \subseteq Machine
           /\ s.step = Fresh(e).step /\ s.bond = NoKey
           /\ Fresh(e).bond = NoKey /\ None.step = "absent" /\ None.bond = NoKey
           /\ Fresh(e).step = IF e = "central" THEN "idle"
                              ELSE "pairing_request"
<1> DEFINE step == IF e = "central" THEN "idle" ELSE "pairing_request"
<1>1. NoKey \in Keys BY DEF NoKey, Keys, Levels
<1>2. None \in Machine /\ None.step = "absent" /\ None.bond = NoKey
  BY <1>1 DEF None, Machine, Steps, Nothing
<1>3. step \in Steps BY DEF Steps
<1>4. Fresh(e) = [None EXCEPT !.step = step] BY DEF Fresh
<1> HIDE DEF step
<1>5. /\ Fresh(e) \in Machine /\ Fresh(e).step = step /\ Fresh(e).bond = NoKey
  BY <1>2, <1>3, <1>4 DEF Machine
<1>6. LET s == [Fresh(e) EXCEPT !.own = b]
      IN s \in Machine /\ s.step = step /\ s.bond = NoKey
  BY <1>5 DEF Machine
<1> QED BY <1>2, <1>5, <1>6 DEF step

LEMMA CentralReady ==
  ASSUME TypeOK, StepsOK, Unsettled, Asked, NEW room \in Rooms,
         NEW s \in Machine,
         IF Absent("central") THEN s.step = "idle" /\ s.bond = NoKey
         ELSE s = sm["central"]
  PROVE CentralBegins(Begin("central", s, room))
<1> DEFINE x == Begin("central", s, room)
<1>1. /\ x \in Handler /\ x.s = s /\ x.out = <<>> /\ x.ok
  BY Beginning DEF Ends
<1> HIDE DEF x
<1>2. CASE Absent("central")
  BY <1>1, <1>2 DEF CentralBegins, CentralEarly, Fits, x
<1>3. CASE ~Absent("central")
  <2>1. /\ s.step \in Later \cup CentralLate /\ Fits(s.step)
    BY <1>3 DEF StepsOK, Absent, Asked, Ends
  <2>2. s.step # "idle" BY <2>1 DEF Later, CentralEarly, CentralLate
  <2> QED BY <1>1, <2>1, <2>2 DEF CentralBegins, Later, x
<1> QED BY <1>2, <1>3

LEMMA PeripheralReady ==
  ASSUME TypeOK, StepsOK, Unasked, Asked, NEW room \in Rooms,
         NEW s \in Machine,
         IF Absent("peripheral") THEN s.step = "pairing_request" /\ s.bond = NoKey
         ELSE s = sm["peripheral"]
  PROVE PeripheralBegins(Begin("peripheral", s, room))
<1> DEFINE x == Begin("peripheral", s, room)
<1>1. /\ x \in Handler /\ x.s = s /\ x.out = <<>> /\ x.ok
  BY Beginning DEF Ends
<1> HIDE DEF x
<1>2. CASE Absent("peripheral")
  BY <1>1, <1>2 DEF PeripheralBegins, Fits, x
<1>3. CASE ~Absent("peripheral")
  <2>1. /\ s.step \in {"pairing_request"} \cup Mid \cup Closing
        /\ Fits(s.step)
        /\ s.step = "pairing_request" => s.bond = NoKey
    BY <1>3 DEF StepsOK, Absent, Asked, Ends, Unasked
  <2> QED BY <1>1, <2>1 DEF PeripheralBegins, x
<1> QED BY <1>2, <1>3

(* The queue of the central's manager. *)
LEMMA FewerSame ==
  ASSUME Once
  PROVE Fewer(events["central"], events["central"])
  BY DEF Once, Fewer

LEMMA TakenFewer ==
  ASSUME TypeOK, Once, NEW e \in Ends, events[e] # <<>>, Taken(e)
  PROVE /\ events' \in [Ends -> Seq(Queued)]
        /\ Fewer(events["central"], events'["central"])
        /\ e = "peripheral" => events'["central"] = events["central"]
        /\ e = "central" => events'["central"] = Tail(events["central"])
<1>1. events[e] \in Seq(Queued) /\ events \in [Ends -> Seq(Queued)]
  BY DEF TypeOK
<1>2. Tail(events[e]) \in Seq(Queued)
      /\ Elems(Tail(events[e])) \subseteq Elems(events[e])
  BY <1>1, ElemsOfTail
<1>3. events' = [events EXCEPT ![e] = Tail(events[e])] BY DEF Taken
<1>4. events' \in [Ends -> Seq(Queued)] BY <1>1, <1>2, <1>3
<1>5. CASE e = "central"
  <2>1. \A i, j \in Encrypts(events[e]) : i = j BY <1>5 DEF Once
  <2>2. /\ \A i, j \in Encrypts(Tail(events[e])) : i = j
        /\ Encrypts(events[e]) = {} => Encrypts(Tail(events[e])) = {}
    BY <1>1, <2>1, EncryptsOfTail
  <2>3. events'["central"] = Tail(events[e]) BY <1>1, <1>3, <1>5
  <2> QED BY <1>2, <1>4, <1>5, <2>2, <2>3 DEF Fewer, Ltks
<1>6. CASE e = "peripheral"
  <2>1. events'["central"] = events["central"] BY <1>1, <1>3, <1>6 DEF Ends
  <2> QED BY <1>4, <1>6, <2>1, FewerSame
<1> QED BY <1>5, <1>6 DEF Ends

LEMMA StepRead ==
  ASSUME IInv, NEW e \in Ends, Read(e)
  PROVE TypeOK' /\ Class
<1>1. TypeOK /\ Once /\ Asked BY DEF IInv
<1>2. /\ app[e] \in Seq(News) /\ app[e] # <<>> BY <1>1 DEF TypeOK, Read
<1>3. /\ Tail(app[e]) \in Seq(News) /\ Head(app[e]) \in Elems(app[e])
      /\ Elems(Tail(app[e])) \subseteq Elems(app[e])
  BY <1>2, ElemsOfTail
<1>4. /\ app' \in [Ends -> Seq(News)]
      /\ app'[e] = Tail(app[e])
      /\ \A f \in Ends : f # e => app'[f] = app[f]
  BY <1>1, <1>3 DEF TypeOK, Read
<1>5. /\ prompt' \in [Ends -> {"none", "confirm", "input"}]
      /\ prompt'[e] \in {Head(app[e]), "none", prompt[e]}
      /\ \A f \in Ends : f # e => prompt'[f] = prompt[f]
  BY <1>1 DEF TypeOK, Read
<1>6. \A f \in Ends : Elems(app'[f]) \cup {prompt'[f]}
                        \subseteq Elems(app[f]) \cup {prompt[f], "none"} \cup Notes
  BY <1>3, <1>4, <1>5
<1>7. UNCHANGED <<start, sm, link, cipher, slot, air, bonds, wire, answer,
                  level, proc, due, events, bondable, dead, faults, late>>
  BY DEF Read, lower, fixed
<1>8. TypeOK' BY <1>1, <1>4, <1>5, <1>7 DEF TypeOK
<1>9. Shrinks BY <1>1, <1>6, <1>7, FewerSame DEF Shrinks
<1> QED BY <1>8, <1>9 DEF Class

LEMMA StepRemoveBond ==
  ASSUME IInv, NEW e \in Ends, RemoveBond(e)
  PROVE TypeOK' /\ Class
<1>1. TypeOK /\ Once BY DEF IInv
<1>2. NoKey \in Keys BY DEF NoKey, Keys, Levels
<1>3. /\ bonds' \in [Ends -> Keys]
      /\ \A f \in Ends : bonds'[f] \in {bonds[f], NoKey}
  BY <1>1, <1>2 DEF TypeOK, RemoveBond
<1>4. UNCHANGED <<start, sm, link, cipher, slot, air, wire, answer, app,
                  prompt, level, proc, due, events, bondable, dead, late>>
  BY DEF RemoveBond, lower, fixed, users
<1>5. faults' \in Nat BY <1>1 DEF TypeOK, RemoveBond
<1>6. TypeOK' BY <1>1, <1>3, <1>4, <1>5 DEF TypeOK
<1>7. Shrinks BY <1>1, <1>3, <1>4, FewerSame DEF Shrinks
<1> QED BY <1>6, <1>7 DEF Class

LEMMA StepLose ==
  ASSUME IInv, Lose \/ \E e \in Ends : Hangup(e)
  PROVE TypeOK' /\ Class
<1>1. TypeOK /\ Once BY DEF IInv
<1>2. UNCHANGED <<start, sm, link, cipher, slot, wire, answer, app, bonds,
                  prompt, level, proc, due, events, bondable, dead, late>>
  BY DEF Lose, Hangup, fixed, users, hosts
<1>3. faults' \in Nat /\ air' = FALSE BY <1>1 DEF TypeOK, Lose, Hangup
<1>4. TypeOK' BY <1>1, <1>2, <1>3 DEF TypeOK
<1>5. Shrinks BY <1>1, <1>2, <1>3, FewerSame DEF Shrinks
<1> QED BY <1>4, <1>5 DEF Class

LEMMA StepLtkRequest ==
  ASSUME IInv, LtkRequest
  PROVE TypeOK' /\ Class
<1>1. TypeOK /\ Once BY DEF IInv
<1>2. UNCHANGED <<start, sm, link, cipher, slot, air, wire, answer, app, bonds,
                  prompt, level, due, bondable, faults, late>>
  BY DEF LtkRequest, fixed, users
<1>3. proc \in [stage : {"idle", "request", "reply"}, key : Keys]
      /\ proc.stage = "request" /\ proc' = [proc EXCEPT !.stage = "reply"]
  BY <1>1 DEF TypeOK, LtkRequest
<1>4. /\ proc' \in [stage : {"idle", "request", "reply"}, key : Keys]
      /\ proc'.stage = "reply" /\ proc'.key = proc.key
  BY <1>3
<1>5. /\ events' \in [Ends -> Seq(Queued)]
      /\ events'["central"] = events["central"]
      /\ dead' \in [Ends -> BOOLEAN]
  <2>1. events["peripheral"] \in Seq(Queued) /\ "ltk" \in Queued
    BY <1>1 DEF TypeOK, Ends, Queued
  <2>2. Append(events["peripheral"], "ltk") \in Seq(Queued) BY <2>1
  <2> DEFINE q == Append(events["peripheral"], "ltk")
  <2>3. /\ events \in [Ends -> Seq(Queued)] /\ dead \in [Ends -> BOOLEAN]
        /\ {"central", "peripheral"} \subseteq Ends
    BY <1>1 DEF TypeOK, Ends
  <2>4. \/ events' = [events EXCEPT !["peripheral"] = q] /\ dead' = dead
        \/ events' = events /\ dead' = [dead EXCEPT !["peripheral"] = TRUE]
    BY DEF LtkRequest
  <2> HIDE DEF q
  <2>5. q \in Seq(Queued) BY <2>2 DEF q
  <2> QED BY <2>3, <2>4, <2>5
<1>6. TypeOK' BY <1>1, <1>2, <1>4, <1>5 DEF TypeOK
<1>7. Fewer(events["central"], events'["central"]) BY <1>1, <1>5, FewerSame
<1>8. Shrinks BY <1>2, <1>3, <1>4, <1>7 DEF Shrinks
<1> QED BY <1>6, <1>8 DEF Class

LEMMA StepConnect ==
  ASSUME IInv, Connect
  PROVE TypeOK' /\ Class
<1>1. TypeOK BY DEF IInv
<1>2. UNCHANGED <<start, sm, level, bonds, events, app, wire, dead, faults, late>>
  BY DEF Connect, fixed
<1>3. Idle \in [stage : {"idle", "request", "reply"}, key : Keys] /\ NoKey \in Keys
  BY DEF Idle, NoKey, Keys, Levels
<1>4. /\ air' \in BOOLEAN /\ link' \in Nat
      /\ slot' \in [Ends -> {"up", "closing", "down"}]
      /\ proc' = Idle /\ cipher' = NoKey /\ due' \in SUBSET Ends
      /\ answer' \in [Ends -> Nat]
      /\ prompt' \in [Ends -> {"none", "confirm", "input"}]
      /\ bondable' \in [Ends -> BOOLEAN]
  BY <1>1 DEF Connect, TypeOK
<1>5. TypeOK' BY <1>1, <1>2, <1>3, <1>4 DEF TypeOK
<1> QED BY <1>5 DEF Class

(* What an end forgets. *)
LEMMA ForgetTypes ==
  ASSUME TypeOK, NEW e \in Ends, Forget(e)
  PROVE /\ sm' \in [Ends -> Machine] /\ level' \in [Ends -> Levels]
        /\ bondable' \in [Ends -> BOOLEAN] /\ bonds' \in [Ends -> Keys]
        /\ slot' \in [Ends -> {"up", "closing", "down"}]
        /\ app' \in [Ends -> Seq(News)] /\ wire' \in [Ends -> Seq(Message)]
<1>1. None \in Machine BY FreshType
<1>2. NoKey \in Keys /\ "none" \in Levels BY DEF NoKey, Keys, Levels
<1>3. app[e] \in Seq(News) /\ "disconnected" \in News BY DEF TypeOK, News
<1>4. Append(app[e], "disconnected") \in Seq(News) BY <1>3
<1>5. sm' \in [Ends -> Machine] BY <1>1 DEF TypeOK, Forget
<1>6. level' \in [Ends -> Levels] BY <1>2 DEF TypeOK, Forget
<1>7. bondable' \in [Ends -> BOOLEAN] BY DEF TypeOK, Forget
<1>8. bonds' \in [Ends -> Keys] BY <1>2 DEF TypeOK, Forget
<1>9. slot' \in [Ends -> {"up", "closing", "down"}] BY DEF TypeOK, Forget
<1>10. app' \in [Ends -> Seq(News)]
  <2>1. app' = [app EXCEPT ![e] = IF Len(app[e]) < EventCap
                                  THEN Append(app[e], "disconnected")
                                  ELSE app[e]]
    BY DEF Forget
  <2>2. app \in [Ends -> Seq(News)] BY DEF TypeOK
  <2> QED BY <2>1, <2>2, <1>3, <1>4
<1>11. wire' \in [Ends -> Seq(Message)] BY DEF TypeOK, Forget
<1> QED BY <1>5, <1>6, <1>7, <1>8, <1>9, <1>10, <1>11

LEMMA StepDisconnected ==
  ASSUME IInv, NEW e \in Ends, Disconnected(e)
  PROVE TypeOK' /\ Class
<1>1. TypeOK /\ Once BY DEF IInv
<1>2. Forget(e) /\ ~air /\ air' = air
  BY DEF Disconnected
<1>3. UNCHANGED <<events, prompt, answer, dead, link, proc, cipher, due, start,
                  faults, late>>
  BY DEF Disconnected, users, fixed
<1>4. TypeOK' BY <1>1, <1>2, <1>3, ForgetTypes DEF TypeOK
<1>5. Fewer(events["central"], events'["central"]) BY <1>1, <1>3, FewerSame
<1>6. Forgets(e) BY <1>2, <1>3, <1>5 DEF Forgets
<1> QED BY <1>4, <1>6 DEF Class

LEMMA StepControl ==
  ASSUME IInv, NEW e \in Ends, Control(e)
  PROVE TypeOK' /\ Class
<1>1. TypeOK /\ Once /\ NoLtk BY DEF IInv
<1>2. events[e] # <<>> /\ Taken(e) /\ UNCHANGED <<start, faults, late>>
  BY DEF Control, fixed
<1>3. /\ events' \in [Ends -> Seq(Queued)]
      /\ Fewer(events["central"], events'["central"])
      /\ e = "peripheral" => events'["central"] = events["central"]
      /\ e = "central" => events'["central"] = Tail(events["central"])
  BY <1>1, <1>2, TakenFewer
<1>4. events[e] \in Seq(Queued) BY <1>1 DEF TypeOK
<1>5. Idle \in [stage : {"idle", "request", "reply"}, key : Keys] /\ NoKey \in Keys
  BY DEF Idle, NoKey, Keys, Levels
<1>6. ASSUME Refused(e) PROVE TypeOK' /\ Class
  <2>1. UNCHANGED <<sm, level, bonds, app, bondable, prompt, answer, wire, slot,
                    air, link, proc, cipher, due>>
    BY <1>6 DEF Refused, users
  <2>2. dead' \in [Ends -> BOOLEAN] BY <1>1, <1>6 DEF Refused, TypeOK
  <2>3. TypeOK' BY <1>1, <1>2, <1>3, <2>1, <2>2 DEF TypeOK
  <2>4. Shrinks BY <1>2, <1>3, <2>1 DEF Shrinks
  <2> QED BY <2>3, <2>4 DEF Class
<1>7. ASSUME UNCHANGED <<sm, level, bonds, app, bondable, users, wire, lower>>
      PROVE TypeOK' /\ Class
  <2>1. UNCHANGED <<sm, level, bonds, app, bondable, prompt, answer, wire, slot,
                    dead, air, link, proc, cipher, due>>
    BY <1>7 DEF lower, users
  <2>2. TypeOK' BY <1>1, <1>2, <1>3, <2>1 DEF TypeOK
  <2>3. Shrinks BY <1>2, <1>3, <2>1 DEF Shrinks
  <2> QED BY <2>2, <2>3 DEF Class
<1>8. CASE Head(events[e]) = "encrypt" /\ EnableEncryption(e)
  <2>1. CASE e = "peripheral" \/ bonds[e] = NoKey
    BY <1>7, <1>8, <2>1 DEF EnableEncryption
  <2>2. CASE ~(e = "peripheral" \/ bonds[e] = NoKey) /\ (~air \/ proc # Idle)
    BY <1>6, <1>8, <2>2 DEF EnableEncryption
  <2>3. CASE ~(e = "peripheral" \/ bonds[e] = NoKey) /\ ~(~air \/ proc # Idle)
    <3>1. e = "central" /\ bonds[e] # NoKey /\ air BY <2>3 DEF Ends
    <3>2. /\ proc' = [stage |-> "request", key |-> bonds[e]]
          /\ UNCHANGED <<sm, level, bonds, app, bondable, prompt, answer, wire,
                         slot, dead, air, link, cipher, due>>
      BY <1>8, <2>3 DEF EnableEncryption, users
    <3>3. \A i, j \in Encrypts(events[e]) : i = j BY <1>1, <3>1 DEF Once
    <3>4. Encrypts(events[e]) # {} /\ Encrypts(Tail(events[e])) = {}
      BY <1>2, <1>4, <1>8, <3>3, EncryptsOfTail
    <3>5. Ltks(events'["central"]) \subseteq Ltks(events["central"])
      BY <1>3 DEF Fewer
    <3>6. Enables BY <1>2, <1>3, <3>1, <3>2, <3>4, <3>5 DEF Enables
    <3>7. proc' \in [stage : {"idle", "request", "reply"}, key : Keys]
      BY <1>1, <3>2 DEF TypeOK
    <3>8. TypeOK' BY <1>1, <1>2, <1>3, <3>2, <3>7 DEF TypeOK
    <3> QED BY <3>6, <3>8 DEF Class
  <2> QED BY <2>1, <2>2, <2>3
<1>9. CASE Head(events[e]) = "ltk" /\ SendLongTermKey(e)
  <2>1. e = "peripheral"
    <3>1. "ltk" \in Elems(events[e]) BY <1>2, <1>4, <1>9, ElemsOfTail
    <3> QED BY <1>1, <3>1 DEF NoLtk, Ltks, Ends
  <2>2. CASE ~air \/ proc.stage # "reply"
    BY <1>6, <1>9, <2>2 DEF SendLongTermKey
  <2>3. CASE ~(~air \/ proc.stage # "reply") /\ bonds[e] = NoKey
    <3>1. Forget(e) /\ air' = FALSE /\ air' \in BOOLEAN
      BY <1>9, <2>3 DEF SendLongTermKey
    <3>2. UNCHANGED <<prompt, answer, dead, link, proc, cipher, due>>
      BY <1>9, <2>3 DEF SendLongTermKey, users
    <3>3. TypeOK' BY <1>1, <1>2, <1>3, <3>1, <3>2, ForgetTypes DEF TypeOK
    <3>4. Forgets(e) BY <1>2, <1>3, <3>1, <3>2 DEF Forgets
    <3> QED BY <3>3, <3>4 DEF Class
  <2>4. CASE ~(~air \/ proc.stage # "reply") /\ bonds[e] # NoKey
    <3>1. /\ proc' = Idle
          /\ UNCHANGED <<sm, level, bonds, app, bondable, prompt, answer, wire,
                         slot, dead, link>>
      BY <1>9, <2>4 DEF SendLongTermKey, users
    <3>2. CASE Ltk(bonds[e]) = Ltk(proc.key)
      <4>1. /\ cipher' = proc.key /\ air' = air
            /\ due' \in {Ends, due}
        BY <1>9, <2>4, <3>2 DEF SendLongTermKey
      <4>2. proc.key \in Keys /\ due' \in SUBSET Ends BY <1>1, <4>1 DEF TypeOK
      <4>3. TypeOK' BY <1>1, <1>2, <1>3, <1>5, <3>1, <4>1, <4>2 DEF TypeOK
      <4>4. Ciphers BY <1>2, <1>3, <2>1, <2>4, <3>1, <3>2, <4>1 DEF Ciphers
      <4> QED BY <4>3, <4>4 DEF Class
    <3>3. CASE Ltk(bonds[e]) # Ltk(proc.key)
      <4>1. air' = FALSE /\ UNCHANGED <<cipher, due>>
        BY <1>9, <2>4, <3>3 DEF SendLongTermKey
      <4>2. TypeOK' BY <1>1, <1>2, <1>3, <1>5, <3>1, <4>1 DEF TypeOK
      <4>3. Shrinks BY <1>2, <1>3, <3>1, <4>1 DEF Shrinks
      <4> QED BY <4>2, <4>3 DEF Class
    <3> QED BY <3>2, <3>3
  <2> QED BY <2>2, <2>3, <2>4
<1>10. CASE Head(events[e]) \notin {"encrypt", "ltk"}
  BY <1>7, <1>10 DEF Control
<1> QED BY <1>8, <1>9, <1>10 DEF Control

(* A handler's effects, and the rest of the step.                           *)
LEMMA HostDone ==
  ASSUME TypeOK, NEW e \in Ends, NEW s \in Machine, NEW room \in Rooms,
         NEW y \in Handler, NEW inbox \in Seq(Message),
         Done(e, y, inbox), Elems(inbox) \subseteq Elems(wire[e]),
         IF Absent(e) THEN s.step = Fresh(e).step /\ s.bond = NoKey
         ELSE s = sm[e],
         slot[e] # "down", slot'[e] # "down",
         slot'[Other(e)] = slot[Other(e)],
         prompt'[e] \in {prompt[e], "none"},
         prompt'[Other(e)] = prompt[Other(e)],
         UNCHANGED <<start, air, link, proc, cipher>>, due' \subseteq due,
         \/ level' = level
         \/ e \in due /\ level' = [level EXCEPT ![e] = SecurityLevel(y.s)]
  PROVE Host(e, Begin(e, s, room), y)
<1> DEFINE x == Begin(e, s, room)
<1>1. /\ x.s = s /\ x.key = bonds[e] /\ x.ev = events[e] /\ x.app = app[e]
      /\ x.seen = answer[e]
  BY Beginning
<1> HIDE DEF x
<1>2. /\ TypeOK /\ e \in Ends /\ y \in Handler /\ inbox \in Seq(Message)
      /\ Done(e, y, inbox)
  OBVIOUS
<1>3. sm'[e] = y.s /\ sm'[Other(e)] = sm[Other(e)] BY ONLY <1>2, Doing
<1>4. bonds'[e] = y.key /\ bonds'[Other(e)] = bonds[Other(e)]
  BY ONLY <1>2, Doing
<1>5. events'[e] = y.ev /\ events'[Other(e)] = events[Other(e)]
  BY ONLY <1>2, Doing
<1>6. app'[e] = y.app /\ app'[Other(e)] = app[Other(e)] BY ONLY <1>2, Doing
<1>7. answer'[e] = y.seen /\ answer'[Other(e)] = answer[Other(e)]
  BY ONLY <1>2, Doing
<1>8. wire'[e] = inbox
  BY ONLY <1>2, Doing
<1>9. Elems(wire'[Other(e)]) \subseteq Elems(wire[Other(e)]) \cup Elems(y.out)
  BY ONLY <1>2, Doing
<1>10. ~air => wire'[Other(e)] = wire[Other(e)]
  BY ONLY <1>2, Doing
<1>11. Host(e, x, y)
  BY <1>1, <1>3, <1>4, <1>5, <1>6, <1>7, <1>8, <1>9, <1>10 DEF Host
<1> QED BY <1>11 DEF x

(* What every handler keeps the type of, whatever the rest of its step. *)
LEMMA TypeDone ==
  ASSUME TypeOK, NEW e \in Ends, NEW y \in Handler,
         NEW inbox \in Seq(Message), Done(e, y, inbox),
         UNCHANGED <<start, bondable, air, link, proc, cipher, late>>,
         level' \in [Ends -> Levels],
         prompt' \in [Ends -> {"none", "confirm", "input"}],
         slot' \in [Ends -> {"up", "closing", "down"}],
         dead' \in [Ends -> BOOLEAN], due' \subseteq due, faults' \in Nat
  PROVE TypeOK'
<1>1. /\ sm' \in [Ends -> Machine] /\ bonds' \in [Ends -> Keys]
      /\ events' \in [Ends -> Seq(Queued)] /\ app' \in [Ends -> Seq(News)]
      /\ answer' \in [Ends -> Nat] /\ wire' \in [Ends -> Seq(Message)]
  BY Doing
<1>2. due' \in SUBSET Ends BY DEF TypeOK
<1> QED BY <1>1, <1>2 DEF TypeOK

LEMMA StarvedType ==
  ASSUME TypeOK, NEW room, Starved(room)
  PROVE faults' \in Nat
  BY DEF TypeOK, Starved

LEMMA StepEncryptionChange ==
  ASSUME IInv, NEW e \in Ends, EncryptionChange(e)
  PROVE TypeOK' /\ Class
<1>1. /\ TypeOK /\ StepsOK /\ Left /\ Once /\ Unsettled /\ Unasked /\ Asked
      /\ link \in Nat
  BY DEF IInv, TypeOK
<1>2. /\ e \in due /\ due' \subseteq due
      /\ UNCHANGED <<start, slot, air, link, proc, cipher, late>>
  BY DEF EncryptionChange, fixed
<1>3. CASE /\ slot[e] # "up"
           /\ dead' = [dead EXCEPT ![e] = TRUE]
           /\ UNCHANGED <<hosts, users, wire, faults>>
  <2>1. UNCHANGED <<sm, level, bonds, events, app, bondable, prompt, answer,
                    wire, faults>>
    BY <1>3 DEF hosts, users
  <2>2. dead' \in [Ends -> BOOLEAN] /\ due' \in SUBSET Ends
    BY <1>1, <1>2, <1>3 DEF TypeOK
  <2>3. TypeOK' BY <1>1, <1>2, <2>1, <2>2 DEF TypeOK
  <2>4. Shrinks BY <1>1, <1>2, <2>1, FewerSame DEF Shrinks
  <2> QED BY <2>3, <2>4 DEF Class
<1>4. CASE /\ slot[e] = "up"
           /\ sm[e].step = "absent"
           /\ level' = [level EXCEPT ![e] = bonds[e].level]
           /\ UNCHANGED <<sm, bonds, events, app, bondable, users, wire, dead,
                          faults>>
  <2>1. UNCHANGED <<sm, bonds, events, app, bondable, prompt, answer,
                    wire, dead, faults>>
    BY <1>4 DEF users
  <2>2. bonds[e].level \in Levels BY <1>1 DEF TypeOK, Keys
  <2>3. level' \in [Ends -> Levels] /\ due' \in SUBSET Ends
    BY <1>1, <1>2, <1>4, <2>2 DEF TypeOK
  <2>4. TypeOK' BY <1>1, <1>2, <2>1, <2>3 DEF TypeOK
  <2>5. \E f \in due : /\ Absent(f) /\ slot[f] = "up"
                       /\ level' = [level EXCEPT ![f] = bonds[f].level]
    BY <1>2, <1>4 DEF Absent
  <2>6. Shrinks BY <1>1, <1>2, <2>1, <2>5, FewerSame DEF Shrinks
  <2> QED BY <2>4, <2>6 DEF Class
<1>5. ASSUME slot[e] = "up", sm[e].step # "absent", NEW room \in Rooms,
             LET x == HandleEvent(e, Begin(e, sm[e], room), "encrypted", 0)
                 y == IF x.ok THEN x ELSE Report(x)
             IN /\ Done(e, y, wire[e])
                /\ level' = [level EXCEPT ![e] =
                               IF y.ok THEN SecurityLevel(y.s) ELSE @]
                /\ dead' = [dead EXCEPT ![e] = ~y.ok]
                /\ Starved(room)
                /\ UNCHANGED <<bondable, prompt>>
      PROVE TypeOK' /\ Class
  <2> DEFINE b == Begin(e, sm[e], room)
             x == HandleEvent(e, b, "encrypted", 0)
             y == IF x.ok THEN x ELSE Report(x)
  <2>1. ~Absent(e) /\ sm[e] \in Machine /\ wire[e] \in Seq(Message)
    BY <1>1, <1>5 DEF Absent, TypeOK
  <2>2. b.s = sm[e] BY <2>1, <1>1, Beginning
  <2>3. e = "central" => /\ CentralBegins(b) /\ CentralEnd(b, y)
    <3> SUFFICES ASSUME e = "central" PROVE CentralBegins(b) /\ CentralEnd(b, y)
      OBVIOUS
    <3>1. CentralBegins(b) BY <1>1, <2>1, CentralReady
    <3>2. b.s.step # "idle"
      BY <1>1, <2>1, <2>2 DEF StepsOK, Absent, Later, CentralEarly, CentralLate
    <3>3. x = CentralEvent(b, "encrypted", 0) BY DEF HandleEvent
    <3> HIDE DEF b
    <3>4. CentralEnd(b, y) BY <3>1, <3>2, <3>3, CentralEncryptedEnds
    <3> QED BY <3>1, <3>4 DEF b
  <2>4. e = "peripheral" => /\ PeripheralBegins(b) /\ PeripheralEnd(b, y)
    <3> SUFFICES ASSUME e = "peripheral"
                 PROVE PeripheralBegins(b) /\ PeripheralEnd(b, y)
      OBVIOUS
    <3>1. PeripheralBegins(b) BY <1>1, <2>1, PeripheralReady
    <3>2. x = PeripheralEvent(b, "encrypted", 0) BY DEF HandleEvent
    <3> HIDE DEF b
    <3>3. PeripheralEnd(b, y) BY <1>1, <3>1, <3>2, PeripheralEncryptedEnds
    <3> QED BY <3>1, <3>3 DEF b
  <2>5. y \in Handler
    BY <2>3, <2>4 DEF CentralEnd, CentralRun, PeripheralEnd, PeripheralRun, Ends
  <2>6. /\ Done(e, y, wire[e])
        /\ level' = [level EXCEPT ![e] = IF y.ok THEN SecurityLevel(y.s) ELSE @]
        /\ dead' = [dead EXCEPT ![e] = ~y.ok]
        /\ Starved(room)
        /\ UNCHANGED <<bondable, prompt>>
    BY <1>5
  <2> HIDE DEF y, x
  <2>7. y.ok \in BOOLEAN /\ SecurityLevel(y.s) \in Levels
    BY <2>5 DEF Handler, SecurityLevel, Machine, Keys, Levels
  <2>8. /\ level' \in [Ends -> Levels] /\ dead' \in [Ends -> BOOLEAN]
        /\ faults' \in Nat
        /\ prompt' \in [Ends -> {"none", "confirm", "input"}]
        /\ slot' \in [Ends -> {"up", "closing", "down"}]
    BY <1>1, <1>2, <2>6, <2>7, StarvedType DEF TypeOK
  <2>9. TypeOK' BY <1>1, <1>2, <2>1, <2>5, <2>6, <2>8, TypeDone
  <2>10. level' = level \/ level' = [level EXCEPT ![e] = SecurityLevel(y.s)]
    <3>1. level \in [Ends -> Levels] BY <1>1 DEF TypeOK
    <3> QED BY <2>6, <3>1
  <2>11. Host(e, b, y)
    BY <1>1, <1>2, <1>5, <2>1, <2>5, <2>6, <2>10, HostDone
  <2> HIDE DEF b
  <2>12. CentralHost \/ PeripheralHost
    BY <1>2, <2>3, <2>4, <2>11 DEF CentralHost, PeripheralHost, Ends
  <2> QED BY <2>9, <2>12 DEF Class
<1>6. CASE /\ slot[e] = "up"
           /\ sm[e].step # "absent"
           /\ \E room \in Rooms :
             LET x == HandleEvent(e, Begin(e, sm[e], room), "encrypted", 0)
                 y == IF x.ok THEN x ELSE Report(x)
             IN /\ Done(e, y, wire[e])
                /\ level' = [level EXCEPT ![e] =
                               IF y.ok THEN SecurityLevel(y.s) ELSE @]
                /\ dead' = [dead EXCEPT ![e] = ~y.ok]
                /\ Starved(room)
                /\ UNCHANGED <<bondable, prompt>>
  BY <1>5, <1>6
<1> QED BY <1>3, <1>4, <1>6 DEF EncryptionChange

LEMMA HandlerPut ==
  ASSUME NEW a, NEW b, NEW c, NEW d, NEW f, NEW g, NEW h, NEW i, NEW j, NEW t
  PROVE [[s |-> a, out |-> b, ev |-> c, app |-> d, key |-> f, room |-> g,
          ok |-> h, bad |-> i, seen |-> j] EXCEPT !.s = t]
        = [s |-> t, out |-> b, ev |-> c, app |-> d, key |-> f, room |-> g,
           ok |-> h, bad |-> i, seen |-> j]
  OBVIOUS

LEMMA BeginPut ==
  ASSUME NEW e, NEW s, NEW room, NEW t
  PROVE [Begin(e, s, room) EXCEPT !.s = t] = Begin(e, t, room)
<1> DEFINE b == <<>>
           c == events[e]
           d == app[e]
           f == bonds[e]
           h == TRUE
           i == FALSE
           j == answer[e]
<1>1. /\ Begin(e, s, room) = [s |-> s, out |-> b, ev |-> c, app |-> d,
                              key |-> f, room |-> room, ok |-> h, bad |-> i,
                              seen |-> j]
      /\ Begin(e, t, room) = [s |-> t, out |-> b, ev |-> c, app |-> d,
                              key |-> f, room |-> room, ok |-> h, bad |-> i,
                              seen |-> j]
  BY DEF Begin
<1> HIDE DEF b, c, d, f, h, i, j
<1> QED BY <1>1, HandlerPut

LEMMA StepDeliver ==
  ASSUME IInv, NEW e \in Ends, Deliver(e)
  PROVE TypeOK' /\ Class
<1>1. /\ TypeOK /\ StepsOK /\ Left /\ Once /\ Unsettled /\ Unasked /\ Asked
      /\ link \in Nat
  BY DEF IInv, TypeOK
<1>2. /\ slot[e] # "down" /\ wire[e] # <<>> /\ UNCHANGED <<start, late>>
  BY DEF Deliver, fixed
<1>3. wire[e] \in Seq(Message) BY <1>1 DEF TypeOK
<1>4. /\ Tail(wire[e]) \in Seq(Message) /\ Head(wire[e]) \in Message
      /\ Head(wire[e]) \in Elems(wire[e])
      /\ Elems(Tail(wire[e])) \subseteq Elems(wire[e])
  BY <1>2, <1>3, ElemsOfTail
<1>5. CASE slot[e] = "closing"
  <2>1. /\ wire' = [wire EXCEPT ![e] = Tail(@)]
        /\ UNCHANGED <<hosts, users, lower, faults>>
    BY <1>5 DEF Deliver
  <2>2. UNCHANGED <<sm, level, bonds, events, app, bondable, prompt, answer,
                    slot, dead, air, link, proc, cipher, due, faults>>
    BY <2>1 DEF hosts, users, lower
  <2>3. /\ wire' \in [Ends -> Seq(Message)]
        /\ \A f \in Ends : Elems(wire'[f]) \subseteq Elems(wire[f])
    BY <1>1, <1>4, <2>1 DEF TypeOK
  <2>4. TypeOK' BY <1>1, <1>2, <2>2, <2>3 DEF TypeOK
  <2>5. Shrinks BY <1>1, <1>2, <2>2, <2>3, FewerSame DEF Shrinks
  <2> QED BY <2>4, <2>5 DEF Class
<1>6. ASSUME slot[e] # "closing", NEW room \in Rooms, NEW shown \in Passkeys,
             LET s == IF sm[e].step = "absent" THEN Fresh(e) ELSE sm[e]
                 x == Command(e, Begin(e, s, room), Head(wire[e]), shown)
                 y == IF x.ok THEN Timer(x)
                      ELSE Report([x EXCEPT !.s.step = "error"])
             IN /\ Done(e, y, Tail(wire[e]))
                /\ slot' = [slot EXCEPT ![e] = IF x.bad THEN "closing" ELSE @]
                /\ Starved(room)
                /\ UNCHANGED <<level, bondable, prompt, dead, air, link, proc,
                               cipher, due>>
      PROVE TypeOK' /\ Class
  <2> DEFINE m == Head(wire[e])
             s == IF sm[e].step = "absent" THEN Fresh(e) ELSE sm[e]
             b == Begin(e, s, room)
             x == Command(e, b, m, shown)
             y == IF x.ok THEN Timer(x)
                  ELSE Report([x EXCEPT !.s.step = "error"])
  <2>1. /\ s \in Machine /\ shown \in Nat /\ bondable[e] \in BOOLEAN
        /\ sm[e] \in Machine
    BY <1>1, FreshType, ValuesAssumption DEF TypeOK
  <2>2. IF Absent(e) THEN s.step = Fresh(e).step /\ s.bond = NoKey
        ELSE s = sm[e]
    BY FreshType DEF Absent
  <2>3. /\ Done(e, y, Tail(wire[e]))
        /\ slot' = [slot EXCEPT ![e] = IF x.bad THEN "closing" ELSE @]
        /\ Starved(room)
        /\ UNCHANGED <<level, bondable, prompt, dead, air, link, proc,
                       cipher, due>>
    BY <1>6
  <2> HIDE DEF s
  <2>4. e = "central" => 
          \E t \in Machine :
             /\ IF Absent(e) THEN t.step = "idle" /\ t.bond = NoKey
                ELSE t = sm[e]
             /\ CentralBegins(Begin(e, t, room))
             /\ CentralEnd(Begin(e, t, room), y)
    <3> SUFFICES ASSUME e = "central"
                 PROVE \E t \in Machine :
                         /\ IF Absent(e) THEN t.step = "idle" /\ t.bond = NoKey
                            ELSE t = sm[e]
                         /\ CentralBegins(Begin(e, t, room))
                         /\ CentralEnd(Begin(e, t, room), y)
      OBVIOUS
    <3>1. IF Absent(e) THEN s.step = "idle" /\ s.bond = NoKey ELSE s = sm[e]
      BY <2>2, FreshType
    <3>2. CentralBegins(b) BY <1>1, <2>1, <3>1, CentralReady
    <3>3. x = CentralCommand(b, m.k, m.v, bondable[e], shown) BY DEF Command
    <3>4. b.s = s BY <1>1, <2>1, Beginning
    <3> DEFINE z == [b EXCEPT !.s.own = bondable[e]]
               t == [s EXCEPT !.own = bondable[e]]
    <3>5. z = Begin(e, t, room)
      <4>1. z = [b EXCEPT !.s = [s EXCEPT !.own = bondable[e]]]
        <5> HIDE DEF b
        <5> QED BY <3>4
      <4>2. z = [b EXCEPT !.s = t] BY <4>1
      <4> HIDE DEF t, z
      <4> QED BY <4>2, BeginPut
    <3>6. m \in Message /\ m \in Elems(wire["central"]) BY <1>4
    <3>7. \/ CentralEnd(b, y)
          \/ b.s.step = "idle" /\ CentralBegins(z) /\ CentralEnd(z, y)
      <4> HIDE DEF b, m
      <4> QED BY <1>1, <2>1, <3>2, <3>3, <3>6, CentralCommandEnds
    <3>8. CASE CentralEnd(b, y) BY <2>1, <3>1, <3>2, <3>8
    <3>9. CASE b.s.step = "idle" /\ CentralBegins(z) /\ CentralEnd(z, y)
      <4>1. t \in Machine /\ t.step = s.step /\ t.bond = s.bond
        BY <2>1 DEF Machine
      <4>2. Absent(e)
        <5>1. sm[e].step # "idle"
          BY <1>1 DEF StepsOK, Later, CentralEarly, CentralLate
        <5> QED BY <3>1, <3>4, <3>9, <5>1
      <4> HIDE DEF t, z, y
      <4> QED BY <3>1, <3>5, <3>9, <4>1, <4>2
    <3> QED BY <3>7, <3>8, <3>9
  <2>5. e = "peripheral" => /\ PeripheralBegins(b) /\ PeripheralEnd(b, y)
                            /\ b.s.step = "pairing_request" => y.s.step # "success"
    <3> SUFFICES ASSUME e = "peripheral"
                 PROVE /\ PeripheralBegins(b) /\ PeripheralEnd(b, y)
                       /\ b.s.step = "pairing_request" => y.s.step # "success"
      OBVIOUS
    <3>1. IF Absent(e) THEN s.step = "pairing_request" /\ s.bond = NoKey
          ELSE s = sm[e]
      BY <2>2, FreshType
    <3>2. PeripheralBegins(b) BY <1>1, <2>1, <3>1, PeripheralReady
    <3>3. x = PeripheralCommand(b, m.k, m.v, bondable[e], shown) BY DEF Command
    <3>4. m \in Message /\ m \in Elems(wire["peripheral"]) BY <1>4
    <3> HIDE DEF b, m
    <3> QED BY <1>1, <2>1, <3>2, <3>3, <3>4, PeripheralCommandEnds
  <2>6. y \in Handler
    <3> HIDE DEF y
    <3> QED BY <2>4, <2>5
        DEF CentralEnd, CentralRun, PeripheralEnd, PeripheralRun, Ends
  <2> HIDE DEF y, x, b, m
  <2>7. /\ faults' \in Nat /\ dead' \in [Ends -> BOOLEAN]
        /\ level' \in [Ends -> Levels]
        /\ prompt' \in [Ends -> {"none", "confirm", "input"}]
        /\ slot' \in [Ends -> {"up", "closing", "down"}]
        /\ slot'[e] # "down" /\ slot'[Other(e)] = slot[Other(e)]
    <3>1. slot \in [Ends -> {"up", "closing", "down"}] BY <1>1 DEF TypeOK
    <3>2. Other(e) \in Ends /\ Other(e) # e BY DEF Ends, Other
    <3>3. /\ slot' \in [Ends -> {"up", "closing", "down"}]
          /\ slot'[e] # "down" /\ slot'[Other(e)] = slot[Other(e)]
      BY <1>2, <2>3, <3>1, <3>2
    <3> QED BY <1>1, <2>3, <3>3, StarvedType DEF TypeOK
  <2>8. TypeOK' BY <1>1, <1>2, <1>4, <2>3, <2>6, <2>7, TypeDone
  <2>9. ASSUME NEW t \in Machine,
               IF Absent(e) THEN t.step = Fresh(e).step /\ t.bond = NoKey
               ELSE t = sm[e]
        PROVE Host(e, Begin(e, t, room), y)
    BY <1>1, <1>2, <1>4, <2>3, <2>6, <2>7, <2>9, HostDone
  <2>10. CASE e = "central"
    <3>1. PICK t \in Machine :
             /\ IF Absent(e) THEN t.step = "idle" /\ t.bond = NoKey
                ELSE t = sm[e]
             /\ CentralBegins(Begin(e, t, room))
             /\ CentralEnd(Begin(e, t, room), y)
      BY <2>4, <2>10
    <3>2. Fresh(e).step = "idle" BY <2>10, FreshType
    <3>3. Host(e, Begin(e, t, room), y) BY <2>9, <3>1, <3>2
    <3>4. CentralHost BY <2>10, <3>1, <3>3 DEF CentralHost
    <3> QED BY <2>8, <3>4 DEF Class
  <2>11. CASE e = "peripheral"
    <3>1. Host(e, b, y) BY <2>1, <2>2, <2>9 DEF b
    <3>2. PeripheralHost BY <2>5, <2>11, <3>1 DEF PeripheralHost
    <3> QED BY <2>8, <3>2 DEF Class
  <2> QED BY <2>10, <2>11 DEF Ends
<1> QED BY <1>5, <1>6 DEF Deliver

(* The answer of a user whose pairing is gone. *)
LEMMA StepAnsweredLate ==
  ASSUME IInv, NEW e \in Ends, NEW k \in Nat, NEW room \in Rooms,
         NEW event \in {"yes", "no", "key"},
         event = "yes" => Method = "numeric",
         Absent(e),
         LET y == Begin(e, sm[e], room)
         IN Done(e, IF event = "yes" THEN [y EXCEPT !.seen = 1] ELSE y, wire[e]),
         prompt' \in [Ends -> {"none", "confirm", "input"}],
         prompt'[e] \in {prompt[e], "none"},
         prompt'[Other(e)] = prompt[Other(e)],
         faults' \in Nat,
         UNCHANGED <<level, bondable, lower, fixed, late>>
  PROVE TypeOK' /\ Class
<1> DEFINE b == Begin(e, sm[e], room)
           y == IF event = "yes" THEN [b EXCEPT !.seen = 1] ELSE b
<1>1. TypeOK /\ Once BY DEF IInv
<1>2. UNCHANGED <<start, level, bondable, slot, dead, air, link, proc, cipher,
                  due, late>>
  BY DEF lower, fixed
<1>3. sm[e] \in Machine /\ wire[e] \in Seq(Message) BY <1>1 DEF TypeOK
<1>4. /\ b \in Handler /\ b.s = sm[e] /\ b.out = <<>> /\ b.key = bonds[e]
      /\ b.ev = events[e] /\ b.app = app[e] /\ b.seen = answer[e]
  BY <1>1, <1>3, Beginning
<1> HIDE DEF b
<1>5. /\ y \in Handler /\ y.s = sm[e] /\ y.out = <<>> /\ y.key = bonds[e]
      /\ y.ev = events[e] /\ y.app = app[e]
      /\ y.seen = answer[e] \/ (Method = "numeric" /\ y.seen = 1)
  <2>1. CASE event = "yes"
    <3> DEFINE z == [b EXCEPT !.seen = 1]
    <3>1. /\ z \in Handler /\ z.s = b.s /\ z.out = b.out /\ z.key = b.key
          /\ z.ev = b.ev /\ z.app = b.app /\ z.seen = 1
      BY <1>4 DEF Handler
    <3>2. y = z BY <2>1
    <3> HIDE DEF z, y
    <3> QED BY <1>4, <2>1, <3>1, <3>2
  <2>2. CASE event # "yes" BY <1>4, <2>2
  <2> QED BY <2>1, <2>2
<1>6. Done(e, y, wire[e]) BY DEF b
<1> HIDE DEF y
<1>7. /\ TypeOK /\ e \in Ends /\ y \in Handler /\ wire[e] \in Seq(Message)
      /\ Done(e, y, wire[e])
  BY <1>1, <1>3, <1>5, <1>6
<1>8. /\ sm' = [sm EXCEPT ![e] = y.s]
      /\ bonds'[e] = y.key /\ bonds'[Other(e)] = bonds[Other(e)]
  BY ONLY <1>7, Doing
<1>9. /\ events'[e] = y.ev /\ events'[Other(e)] = events[Other(e)]
      /\ app'[e] = y.app /\ app'[Other(e)] = app[Other(e)]
  BY ONLY <1>7, Doing
<1>10. answer'[e] = y.seen /\ answer'[Other(e)] = answer[Other(e)]
  BY ONLY <1>7, Doing
<1>11. wire'[e] = wire[e] BY ONLY <1>7, Doing
<1>12. y.out = <<>> => wire'[Other(e)] = wire[Other(e)] BY ONLY <1>7, Doing
<1>13. sm' = sm BY <1>1, <1>5, <1>8 DEF TypeOK
<1>14. \A f \in Ends : f = e \/ f = Other(e) BY DEF Ends, Other
<1>15. /\ events'["central"] = events["central"]
       /\ \A f \in Ends :
            /\ bonds'[f] = bonds[f] /\ wire'[f] = wire[f]
            /\ app'[f] = app[f] /\ prompt'[f] \in {prompt[f], "none"}
            /\ answer'[f] = answer[f] \/ (Method = "numeric" /\ answer'[f] = 1)
  BY <1>5, <1>8, <1>9, <1>10, <1>11, <1>12, <1>14 DEF Ends
<1>16. Fewer(events["central"], events'["central"]) BY <1>1, <1>15, FewerSame
<1>17. Shrinks BY <1>2, <1>13, <1>15, <1>16 DEF Shrinks
<1>18. TypeOK'
  <2>1. /\ level' \in [Ends -> Levels] /\ dead' \in [Ends -> BOOLEAN]
        /\ slot' \in [Ends -> {"up", "closing", "down"}] /\ due' \subseteq due
    BY <1>1, <1>2 DEF TypeOK
  <2> QED BY <1>2, <1>7, <2>1, TypeDone
<1> QED BY <1>17, <1>18 DEF Class

(* The answer of a user to a pairing that goes on. *)
LEMMA StepAnsweredNow ==
  ASSUME IInv, NEW e \in Ends, NEW k \in Nat, NEW room \in Rooms,
         NEW event \in {"yes", "no", "key"},
         event = "yes" => Method = "numeric",
         ~Absent(e), slot[e] # "down",
         LET x == HandleEvent(e, Begin(e, sm[e], room), event, k)
             y == IF x.ok THEN Timer(x) ELSE Report(x)
         IN Done(e, IF event = "yes" THEN [y EXCEPT !.seen = 1] ELSE y, wire[e]),
         prompt' \in [Ends -> {"none", "confirm", "input"}],
         prompt'[e] \in {prompt[e], "none"},
         prompt'[Other(e)] = prompt[Other(e)],
         faults' \in Nat,
         UNCHANGED <<level, bondable, lower, fixed, late>>
  PROVE TypeOK' /\ Class
<1> DEFINE b == Begin(e, sm[e], room)
           x == HandleEvent(e, b, event, k)
           q == IF x.ok THEN Timer(x) ELSE Report(x)
           y == IF event = "yes" THEN [q EXCEPT !.seen = 1] ELSE q
<1>1. /\ TypeOK /\ StepsOK /\ Unsettled /\ Unasked /\ Asked /\ link \in Nat
  BY DEF IInv, TypeOK
<1>2. UNCHANGED <<start, level, bondable, slot, dead, air, link, proc, cipher,
                  due, late>>
  BY DEF lower, fixed
<1>3. sm[e] \in Machine /\ wire[e] \in Seq(Message) BY <1>1 DEF TypeOK
<1>4. b.s = sm[e] BY <1>1, <1>3, Beginning
<1>5. e = "central" => CentralBegins(b) /\ CentralEnd(b, y)
  <2> SUFFICES ASSUME e = "central" PROVE CentralBegins(b) /\ CentralEnd(b, y)
    OBVIOUS
  <2>1. CentralBegins(b) BY <1>1, <1>3, CentralReady
  <2>2. b.s.step # "idle"
    BY <1>1, <1>4 DEF StepsOK, Absent, Later, CentralEarly, CentralLate
  <2>3. x = CentralEvent(b, event, k) BY DEF HandleEvent
  <2>4. event = "yes" => Method = "numeric" OBVIOUS
  <2> HIDE DEF b
  <2>5. LET u == CentralEvent(b, event, k)
            v == IF u.ok THEN Timer(u) ELSE Report(u)
            w == IF event = "yes" THEN [v EXCEPT !.seen = 1] ELSE v
        IN CentralEnd(b, w)
    <3> HIDE DEF x, y, q
    <3>1. event \in {"yes", "no", "key"} /\ k \in Nat OBVIOUS
    <3> QED BY ONLY <2>1, <2>2, <2>4, <3>1, CentralAnswerEnds
  <2>6. CentralEnd(b, y)
    <3> HIDE DEF x
    <3> QED BY ONLY <2>3, <2>5 DEF y, q
  <2> QED BY <2>1, <2>6
<1>6. e = "peripheral" => /\ PeripheralBegins(b) /\ PeripheralEnd(b, y)
                          /\ b.s.step = "pairing_request" => y.s.step # "success"
  <2> SUFFICES ASSUME e = "peripheral"
               PROVE /\ PeripheralBegins(b) /\ PeripheralEnd(b, y)
                     /\ b.s.step = "pairing_request" => y.s.step # "success"
    OBVIOUS
  <2>1. PeripheralBegins(b) BY <1>1, <1>3, PeripheralReady
  <2>2. x = PeripheralEvent(b, event, k) BY DEF HandleEvent
  <2>3. event = "yes" => Method = "numeric" OBVIOUS
  <2> HIDE DEF b
  <2>4. LET u == PeripheralEvent(b, event, k)
            v == IF u.ok THEN Timer(u) ELSE Report(u)
            w == IF event = "yes" THEN [v EXCEPT !.seen = 1] ELSE v
        IN /\ PeripheralEnd(b, w)
           /\ b.s.step = "pairing_request" => w.s.step # "success"
    <3> HIDE DEF x, y, q
    <3>1. event \in {"yes", "no", "key"} /\ k \in Nat /\ link \in Nat BY <1>1
    <3> QED BY ONLY <2>1, <2>3, <3>1, PeripheralAnswerEnds
  <2>5. /\ PeripheralEnd(b, y)
        /\ b.s.step = "pairing_request" => y.s.step # "success"
    <3> HIDE DEF x
    <3> QED BY ONLY <2>2, <2>4 DEF y, q
  <2> QED BY <2>1, <2>5
<1>7. Done(e, y, wire[e]) OBVIOUS
<1>8. y \in Handler
  <2> HIDE DEF y
  <2> QED BY <1>5, <1>6
      DEF CentralEnd, CentralRun, PeripheralEnd, PeripheralRun, Ends
<1> HIDE DEF y, q, x
<1>9. TypeOK'
  <2>1. /\ level' \in [Ends -> Levels] /\ dead' \in [Ends -> BOOLEAN]
        /\ slot' \in [Ends -> {"up", "closing", "down"}] /\ due' \subseteq due
    BY <1>1, <1>2 DEF TypeOK
  <2> QED BY <1>1, <1>2, <1>3, <1>7, <1>8, <2>1, TypeDone
<1>10. Host(e, b, y)
  BY <1>1, <1>2, <1>3, <1>7, <1>8, HostDone
<1> HIDE DEF b
<1>11. CentralHost \/ PeripheralHost
  BY <1>5, <1>6, <1>10 DEF CentralHost, PeripheralHost, Ends
<1> QED BY <1>9, <1>11 DEF Class

LEMMA StepAnswered ==
  ASSUME IInv, NEW e \in Ends, Confirm(e) \/ Cancel(e) \/ Type(e)
  PROVE TypeOK' /\ Class
<1>1. /\ TypeOK /\ Asked /\ slot[e] # "down"
      /\ UNCHANGED <<level, bondable, lower, fixed, late>>
  BY DEF IInv, Confirm, Cancel, Type, Live, Answered
<1>2. PICK event \in {"yes", "no", "key"}, k \in Nat :
        /\ Answered(e, event, k)
        /\ event = "yes" => prompt[e] = "confirm"
  <2>1. CASE Confirm(e)
    <3>1. Answered(e, "yes", 0) /\ prompt[e] = "confirm" BY <2>1 DEF Confirm
    <3> QED BY <3>1
  <2>2. CASE Cancel(e)
    <3>1. Answered(e, "no", 0) BY <2>2 DEF Cancel
    <3> QED BY <3>1
  <2>3. CASE Type(e)
    <3>1. PICK k \in Typed : Answered(e, "key", k) BY <2>3 DEF Type
    <3>2. k \in Nat BY ValuesAssumption
    <3> QED BY <3>1, <3>2
  <2> QED BY <2>1, <2>2, <2>3
<1>3. event = "yes" => Method = "numeric" BY <1>1, <1>2 DEF Asked
<1>4. PICK room \in Rooms :
        LET x == HandleEvent(e, Begin(e, sm[e], room), event, k)
            y == IF sm[e].step = "absent" THEN Begin(e, sm[e], room)
                 ELSE IF x.ok THEN Timer(x) ELSE Report(x)
            again == ~y.ok /\ y.s.step # "error" /\ faults < MaxFaults
        IN /\ Done(e, IF event = "yes" THEN [y EXCEPT !.seen = 1] ELSE y, wire[e])
           /\ prompt' = [prompt EXCEPT ![e] = IF again THEN @ ELSE "none"]
           /\ IF event = "no" \/ again THEN faults' = faults + 1
              ELSE Starved(room)
  BY <1>2 DEF Answered
<1>5. /\ prompt' \in {prompt, [prompt EXCEPT ![e] = "none"]}
      /\ faults' = faults + 1 \/ Starved(room)
  <2>1. prompt = [prompt EXCEPT ![e] = prompt[e]] BY <1>1 DEF TypeOK
  <2> QED BY <1>4, <2>1
<1>6. /\ prompt' \in [Ends -> {"none", "confirm", "input"}]
      /\ prompt'[e] \in {prompt[e], "none"}
      /\ prompt'[Other(e)] = prompt[Other(e)]
      /\ faults' \in Nat
  <2>1. prompt \in [Ends -> {"none", "confirm", "input"}] /\ faults \in Nat
    BY <1>1 DEF TypeOK
  <2>2. Other(e) \in Ends /\ Other(e) # e BY DEF Ends, Other
  <2>3. faults' \in Nat BY <1>1, <1>5, <2>1, StarvedType
  <2> QED BY <1>5, <2>1, <2>2, <2>3
<1>7. CASE Absent(e)
  <2>1. LET y == Begin(e, sm[e], room)
        IN Done(e, IF event = "yes" THEN [y EXCEPT !.seen = 1] ELSE y, wire[e])
    BY <1>4, <1>7 DEF Absent
  <2> QED BY <1>1, <1>3, <1>6, <1>7, <2>1, StepAnsweredLate
<1>8. CASE ~Absent(e)
  <2>1. LET x == HandleEvent(e, Begin(e, sm[e], room), event, k)
            y == IF x.ok THEN Timer(x) ELSE Report(x)
        IN Done(e, IF event = "yes" THEN [y EXCEPT !.seen = 1] ELSE y, wire[e])
    BY <1>4, <1>8 DEF Absent
  <2> QED BY <1>1, <1>3, <1>6, <1>8, <2>1, StepAnsweredNow
<1> QED BY <1>7, <1>8

(* A request that fails leaves everything as it was. *)
LEMMA StepRequestFailed ==
  ASSUME IInv, NEW e \in Ends, NEW x, NEW y \in Handler,
         Absent(e), slot[e] # "down",
         x.key = bonds[e], x.ev = events[e], x.app = app[e], x.seen = answer[e],
         y.out = <<>>, y.key = x.key, y.seen = x.seen,
         Encrypts(y.ev) = Encrypts(x.ev),
         e = "central" => Ltks(y.ev) \subseteq Ltks(x.ev),
         Elems(y.app) \subseteq Elems(x.app) \cup Notes,
         Done(e, [y EXCEPT !.s = None], wire[e]),
         faults' \in Nat,
         UNCHANGED <<level, bondable, prompt, lower, fixed, late>>
  PROVE TypeOK' /\ Class
<1> DEFINE z == [y EXCEPT !.s = None]
<1>1. TypeOK /\ Once /\ Left BY DEF IInv
<1>2. UNCHANGED <<start, level, bondable, slot, dead, air, link, proc, cipher,
                  due, late, prompt>>
  BY DEF lower, fixed
<1>3. wire[e] \in Seq(Message) /\ None \in Machine BY <1>1, FreshType DEF TypeOK
<1>4. sm[e] = None BY <1>1 DEF Left
<1>5. /\ z \in Handler /\ z.s = None /\ z.out = <<>> /\ z.key = bonds[e]
      /\ z.ev = y.ev /\ z.app = y.app /\ z.seen = answer[e]
  BY <1>3, PutDoes
<1>6. Done(e, z, wire[e]) OBVIOUS
<1> HIDE DEF z
<1>7. /\ TypeOK /\ e \in Ends /\ z \in Handler /\ wire[e] \in Seq(Message)
      /\ Done(e, z, wire[e])
  BY <1>1, <1>3, <1>5, <1>6
<1>8. /\ sm' = [sm EXCEPT ![e] = z.s]
      /\ bonds'[e] = z.key /\ bonds'[Other(e)] = bonds[Other(e)]
  BY ONLY <1>7, Doing
<1>9. /\ events'[e] = z.ev /\ events'[Other(e)] = events[Other(e)]
      /\ app'[e] = z.app /\ app'[Other(e)] = app[Other(e)]
  BY ONLY <1>7, Doing
<1>10. answer'[e] = z.seen /\ answer'[Other(e)] = answer[Other(e)]
  BY ONLY <1>7, Doing
<1>11. wire'[e] = wire[e] BY ONLY <1>7, Doing
<1>12. z.out = <<>> => wire'[Other(e)] = wire[Other(e)] BY ONLY <1>7, Doing
<1>13. sm' = sm BY <1>1, <1>4, <1>5, <1>8 DEF TypeOK
<1>14. \A f \in Ends : f = e \/ f = Other(e) BY DEF Ends, Other
<1>15. \A f \in Ends :
            /\ bonds'[f] = bonds[f] /\ wire'[f] = wire[f]
            /\ Elems(app'[f]) \subseteq Elems(app[f]) \cup Notes
            /\ prompt'[f] = prompt[f] /\ answer'[f] = answer[f]
  BY <1>2, <1>5, <1>8, <1>9, <1>10, <1>11, <1>12, <1>14
<1>16. Fewer(events["central"], events'["central"])
  <2>1. CASE e = "central"
    <3>1. Encrypts(events'[e]) = Encrypts(events[e])
          /\ Ltks(events'[e]) \subseteq Ltks(events[e])
      BY <1>5, <1>9, <2>1
    <3> QED BY <1>1, <2>1, <3>1 DEF Once, Fewer
  <2>2. CASE e = "peripheral"
    <3>1. events'["central"] = events["central"] BY <1>9, <2>2 DEF Other
    <3> QED BY <1>1, <3>1, FewerSame
  <2> QED BY <2>1, <2>2 DEF Ends
<1>17. Shrinks BY <1>2, <1>13, <1>15, <1>16 DEF Shrinks
<1>18. TypeOK'
  <2>1. /\ level' \in [Ends -> Levels] /\ dead' \in [Ends -> BOOLEAN]
        /\ slot' \in [Ends -> {"up", "closing", "down"}] /\ due' \subseteq due
        /\ prompt' \in [Ends -> {"none", "confirm", "input"}]
    BY <1>1, <1>2 DEF TypeOK
  <2> QED BY <1>2, <1>7, <2>1, TypeDone
<1> QED BY <1>17, <1>18 DEF Class

LEMMA StepRequestSecurity ==
  ASSUME IInv, NEW e \in Ends, RequestSecurity(e)
  PROVE TypeOK' /\ Class
<1>1. /\ TypeOK /\ StepsOK /\ Unsettled /\ Unasked /\ Asked
      /\ Absent(e) /\ slot[e] # "down"
      /\ UNCHANGED <<level, bondable, prompt, lower, fixed, late>>
  BY DEF IInv, RequestSecurity, Absent, Live
<1>2. UNCHANGED <<start, level, bondable, slot, dead, air, link, proc, cipher,
                  due, late, prompt>>
  BY <1>1 DEF lower, fixed
<1> DEFINE s == [Fresh(e) EXCEPT !.own = bondable[e]]
<1>3. PICK room \in Rooms :
       LET x == Begin(e, s, room)
           y == IF e = "central" THEN Initiate(x)
                ELSE Send(x, "security", <<>>)
       IN /\ Done(e, IF y.ok THEN y ELSE [y EXCEPT !.s = None], wire[e])
          /\ Starved(room)
  BY DEF RequestSecurity
<1>4. bondable[e] \in BOOLEAN /\ wire[e] \in Seq(Message) BY <1>1 DEF TypeOK
<1>5. s \in Machine /\ s.step = Fresh(e).step /\ s.bond = NoKey
  BY <1>4, FreshType
<1> HIDE DEF s
<1>6. faults' \in Nat BY <1>1, <1>3, StarvedType
<1> DEFINE x == Begin(e, s, room)
           y == IF e = "central" THEN Initiate(x) ELSE Send(x, "security", <<>>)
<1>7. /\ Done(e, IF y.ok THEN y ELSE [y EXCEPT !.s = None], wire[e])
      /\ x.s = s /\ x.key = bonds[e] /\ x.ev = events[e] /\ x.app = app[e]
      /\ x.seen = answer[e]
  BY <1>1, <1>3, <1>5, Beginning
<1>8. e = "central" =>
        /\ CentralBegins(x)
        /\ y.ok => CentralEnd(x, y)
        /\ ~y.ok => /\ CentralRun(x, y) /\ y.out = <<>>
                    /\ y.s = x.s /\ y.seen = x.seen
        /\ x.s.step = "idle"
  <2> SUFFICES ASSUME e = "central"
               PROVE /\ CentralBegins(x)
                     /\ y.ok => CentralEnd(x, y)
                     /\ ~y.ok => /\ CentralRun(x, y) /\ y.out = <<>>
                                 /\ y.s = x.s /\ y.seen = x.seen
                     /\ x.s.step = "idle"
    OBVIOUS
  <2>1. s.step = "idle" BY <1>5, FreshType
  <2>2. CentralBegins(x) BY <1>1, <1>5, <2>1, CentralReady
  <2>3. x.s.step = "idle" /\ y = Initiate(x) BY <1>7, <2>1
  <2> HIDE DEF x, y
  <2> QED BY <2>2, <2>3, CentralRequestEnds
<1>9. e = "peripheral" =>
        /\ PeripheralBegins(x)
        /\ PeripheralEnd(x, y) /\ y.s = x.s /\ y.seen = x.seen /\ y.key = x.key
        /\ ~y.ok => y.out = <<>>
        /\ x.s.step = "pairing_request"
        /\ Encrypts(y.ev) = Encrypts(x.ev)
  <2> SUFFICES ASSUME e = "peripheral"
               PROVE /\ PeripheralBegins(x)
                     /\ PeripheralEnd(x, y) /\ y.s = x.s /\ y.seen = x.seen
                     /\ y.key = x.key
                     /\ ~y.ok => y.out = <<>>
                     /\ x.s.step = "pairing_request"
                     /\ Encrypts(y.ev) = Encrypts(x.ev)
    OBVIOUS
  <2>1. s.step = "pairing_request" BY <1>5, FreshType
  <2>2. PeripheralBegins(x) BY <1>1, <1>5, <2>1, PeripheralReady
  <2>3. x.s.step = "pairing_request" /\ y = Send(x, "security", <<>>)
    BY <1>7, <2>1
  <2> HIDE DEF x, y
  <2>4. [k |-> "security", v |-> <<>>] \in Message
    BY DEF Message, BareMsgs, Nothing
  <2>5. Encrypts(y.ev) = Encrypts(x.ev)
    BY <2>2, <2>3, <2>4, SendDoes DEF PeripheralBegins
  <2> QED BY <2>2, <2>3, <2>5, PeripheralRequestEnds
<1> HIDE DEF x, y
<1>10. y \in Handler
  BY <1>8, <1>9 DEF CentralEnd, CentralRun, PeripheralEnd, PeripheralRun, Ends
<1>11. CASE y.ok
  <2>1. Done(e, y, wire[e]) BY <1>7, <1>11
  <2>2. TypeOK'
    <3>1. /\ level' \in [Ends -> Levels] /\ dead' \in [Ends -> BOOLEAN]
          /\ slot' \in [Ends -> {"up", "closing", "down"}] /\ due' \subseteq due
          /\ prompt' \in [Ends -> {"none", "confirm", "input"}]
      BY <1>1, <1>2 DEF TypeOK
    <3> QED BY <1>1, <1>2, <1>4, <1>6, <1>10, <2>1, <3>1, TypeDone
  <2>3. Host(e, x, y)
    BY <1>1, <1>2, <1>4, <1>5, <1>10, <2>1, HostDone DEF x
  <2>4. CentralHost \/ PeripheralHost
    <3>1. CASE e = "central" BY <1>8, <1>11, <2>3, <3>1 DEF CentralHost
    <3>2. CASE e = "peripheral"
      <4>1. x.s.step = "pairing_request" /\ y.s.step = "success"
              => "peripheral" \in due
        BY <1>9, <3>2
      <4> QED BY <1>9, <2>3, <3>2, <4>1 DEF PeripheralHost
    <3> QED BY <3>1, <3>2 DEF Ends
  <2> QED BY <2>2, <2>4 DEF Class
<1>12. CASE ~y.ok
  <2>1. Done(e, [y EXCEPT !.s = None], wire[e]) BY <1>7, <1>12
  <2>2. /\ y.out = <<>> /\ y.key = x.key /\ y.seen = x.seen
        /\ Encrypts(y.ev) = Encrypts(x.ev)
        /\ e = "central" => Ltks(y.ev) \subseteq Ltks(x.ev)
        /\ Elems(y.app) \subseteq Elems(x.app) \cup Notes
    <3>1. CASE e = "central"
      BY <1>8, <1>12, <3>1 DEF CentralRun
    <3>2. CASE e = "peripheral"
      BY <1>9, <1>12, <3>2 DEF PeripheralEnd, PeripheralRun
    <3> QED BY <3>1, <3>2 DEF Ends
  <2> QED BY <1>1, <1>6, <1>7, <1>10, <2>1, <2>2, StepRequestFailed
<1> QED BY <1>11, <1>12

LEMMA StepTimeout ==
  ASSUME IInv, NEW e \in Ends, Timeout(e)
  PROVE TypeOK' /\ Class
<1> DEFINE t == [sm[e] EXCEPT !.step = "error"]
           x == Begin(e, sm[e], Plenty)
           y == [x EXCEPT !.s = t]
<1>1. /\ TypeOK /\ StepsOK /\ Left /\ Unsettled /\ Unasked /\ Asked
  BY DEF IInv
<1>2. /\ sm[e].step \notin {"absent", "success", "error", "idle"}
      /\ sm' = [sm EXCEPT ![e] = t] /\ late' = TRUE
      /\ UNCHANGED <<start, level, bonds, events, app, bondable, prompt, answer,
                     wire, slot, dead, air, link, proc, cipher, due, faults>>
  BY DEF Timeout, Waiting, Ended, users, lower, fixed
<1>3. sm[e] \in Machine /\ sm \in [Ends -> Machine] /\ ~Absent(e)
  BY <1>1, <1>2 DEF TypeOK, Absent
<1>4. /\ t \in Machine /\ t.step = "error" /\ t.bond = sm[e].bond
      /\ t.own = sm[e].own /\ Plenty \in Rooms
  BY <1>3 DEF Machine, Steps, Rooms
<1>5. slot[e] # "down"
  <2>1. slot[e] = "down" => sm[e] = None BY <1>1 DEF Left
  <2> QED BY <1>2, <2>1, FreshType
<1>6. /\ x \in Handler
      /\ x.s = sm[e] /\ x.out = <<>> /\ x.ok
      /\ x.key = bonds[e] /\ x.ev = events[e] /\ x.app = app[e]
      /\ x.seen = answer[e]
  BY <1>1, <1>3, <1>4, Beginning
<1>7. e = "central" => CentralBegins(x) BY <1>1, <1>3, <1>4, CentralReady
<1>8. e = "peripheral" => PeripheralBegins(x)
  BY <1>1, <1>3, <1>4, PeripheralReady
<1> HIDE DEF x
<1>9. /\ y \in Handler
      /\ y.s = t /\ y.out = x.out /\ y.app = x.app /\ y.key = x.key
      /\ y.ev = x.ev /\ y.seen = x.seen /\ y.ok = x.ok
  BY <1>4, <1>6, PutDoes
<1>10. y.s = [x.s EXCEPT !.step = "error"] BY <1>6, <1>9
<1>11. Elems(y.out) = {} BY <1>6, <1>9, ElemsOfNone
<1> HIDE DEF y, t
<1>12. Other(e) \in Ends /\ Other(e) # e BY DEF Ends, Other
<1>13. sm'[e] = y.s /\ sm'[Other(e)] = sm[Other(e)] /\ sm' \in [Ends -> Machine]
  BY <1>2, <1>3, <1>4, <1>9, <1>12
<1>14. Host(e, x, y)
  BY <1>2, <1>3, <1>5, <1>6, <1>9, <1>13 DEF Host
<1>15. e = "central" => CentralEnd(x, y)
  <2> SUFFICES ASSUME e = "central" PROVE CentralEnd(x, y) OBVIOUS
  <2>1. y.s.step = "error" /\ y.s.bond = x.s.bond /\ y.s.own = x.s.own
    BY <1>4, <1>6, <1>9
  <2>2. Encrypts(y.ev) = Encrypts(x.ev) /\ Ltks(y.ev) \subseteq Ltks(x.ev)
        /\ Elems(y.app) \subseteq Elems(x.app) \cup Notes
    BY <1>9
  <2>3. CentralRun(x, y) BY <1>7, <1>9, <1>11, <2>1, <2>2, CentralFails
  <2> QED BY <1>9, <2>1, <2>3 DEF CentralEnd
<1>16. e = "peripheral" => PeripheralEnd(x, y)
  <2> SUFFICES ASSUME e = "peripheral" PROVE PeripheralEnd(x, y) OBVIOUS
  <2>1. Chain(x, y, Plain, Notes) BY <1>9 DEF Chain
  <2>2. PeripheralRun(x, y) BY <1>8, <1>9, <1>10, <2>1, PeripheralStays
  <2>3. y.s.step = "error" BY <1>4, <1>9
  <2> QED BY <1>9, <2>2, <2>3, <1>11 DEF PeripheralEnd, Proves
<1>17. TypeOK' BY <1>1, <1>2, <1>13 DEF TypeOK
<1>18. CentralHost \/ PeripheralHost
  <2>1. CASE e = "central" BY <1>7, <1>14, <1>15, <2>1 DEF CentralHost
  <2>2. CASE e = "peripheral"
    <3>1. y.s.step # "success" BY <1>4, <1>9
    <3> QED BY <1>8, <1>14, <1>16, <2>2, <3>1 DEF PeripheralHost
  <2> QED BY <2>1, <2>2 DEF Ends
<1> QED BY <1>17, <1>18 DEF Class

(* Every step is of one of the classes. *)
LEMMA StepClass ==
  ASSUME IInv, Next
  PROVE TypeOK' /\ Class
<1>1. ASSUME NEW e \in Ends,
             \/ RequestSecurity(e) \/ Read(e)
             \/ Confirm(e) \/ Cancel(e) \/ Type(e) \/ RemoveBond(e)
             \/ Deliver(e) \/ EncryptionChange(e) \/ Disconnected(e)
             \/ Control(e) \/ Timeout(e) \/ Hangup(e)
      PROVE TypeOK' /\ Class
  BY <1>1, StepRequestSecurity, StepRead, StepAnswered, StepRemoveBond,
     StepDeliver, StepEncryptionChange, StepDisconnected, StepControl,
     StepTimeout, StepLose
<1> QED BY <1>1, StepLtkRequest, StepLose, StepConnect DEF Next

----------------------------------------------------------------------------
(* The invariant is kept, class by class.                                   *)
LEMMA MethodKept ==
  ASSUME UNCHANGED start
  PROVE Method' = Method /\ (Passkey' <=> Passkey) /\ Level' = Level
<1>1. Method' = Method BY DEF Method
<1> QED BY <1>1 DEF Passkey, Level

(* Keys of one value for the controller are of one level. *)
LEMMA SameLevel ==
  ASSUME NEW j, NEW k, KeyOK(j), KeyOK(k), j # NoKey, k # NoKey,
         Ltk(j) = Ltk(k)
  PROVE j.level = k.level
<1>1. j.link = k.link BY DEF Ltk
<1> QED BY <1>1 DEF KeyOK

LEMMA NoKeyFields ==
  NoKey.link = 0 /\ NoKey.level = "none" /\ NoKey.bonded = FALSE
  BY DEF NoKey

LEMMA LinkUp ==
  ASSUME Left, TypeOK, NEW e \in Ends, slot[e] # "down"
  PROVE link \in Nat /\ link > 0
  BY DEF Left, TypeOK

LEMMA ByShrinks ==
  ASSUME IInv, TypeOK', Shrinks
  PROVE IInv'
<1>1. TypeOK /\ StepsOK /\ Left /\ KeysOK /\ Once /\ Unsettled /\ Settled
  BY DEF IInv
<1>2. Unasked /\ BothBegun /\ SameLtk /\ Finishing /\ Resumed /\ Shared
  BY DEF IInv
<1>3. ChecksOK /\ FlagsOK /\ Asked /\ LevelOK /\ NoLtk BY DEF IInv
<1>4. /\ UNCHANGED <<start, sm, link, cipher, slot>>
      /\ air' => air
      /\ \A e \in Ends :
           /\ bonds'[e] \in {bonds[e], NoKey}
           /\ Elems(wire'[e]) \subseteq Elems(wire[e])
           /\ answer'[e] = answer[e] \/ (Method = "numeric" /\ answer'[e] = 1)
      /\ due' \subseteq due
  BY DEF Shrinks
<1>5. Method' = Method /\ (Passkey' <=> Passkey) /\ Level' = Level
  BY <1>4, MethodKept
<1>6. {"central", "peripheral"} = Ends BY DEF Ends
<1>7. \A e \in Ends : (Absent(e)' <=> Absent(e)) /\ (Unmet(e)' <=> Unmet(e))
                      /\ (Met(e)' <=> Met(e))
  BY <1>4 DEF Absent, Unmet, Met
<1>8. StepsOK' BY <1>1, <1>4 DEF StepsOK
<1>9. \A e \in Ends : slot[e] = "down" => level'[e] = level[e]
  <2>1. CASE level' = level BY <2>1
  <2>2. ASSUME NEW f \in due, slot[f] = "up",
               level' = [level EXCEPT ![f] = bonds[f].level]
        PROVE \A e \in Ends : slot[e] = "down" => level'[e] = level[e]
    BY <2>2, <1>1 DEF TypeOK
  <2> QED BY <2>1, <2>2 DEF Shrinks
<1>10. Left' BY <1>1, <1>4, <1>7, <1>9 DEF Left, Absent
<1>11. proc'.key \in {proc.key, NoKey}
       /\ (proc = Idle => proc' = Idle)
       /\ (proc'.stage # "idle" => proc.stage # "idle" /\ proc'.key = proc.key)
       /\ (proc'.stage = "idle" => proc' \in {proc, Idle})
  BY DEF Shrinks, Idle
<1>12. KeysOK'
  <2>1. NoKey = NoKey' OBVIOUS
  <2> QED BY <1>1, <1>4, <1>5, <1>11 DEF KeysOK, KeyOK
<1>13. Fewer(events["central"], events'["central"]) BY DEF Shrinks
<1>14. Once' BY <1>1, <1>4, <1>11, <1>13 DEF Once, Fewer
<1>15. Unsettled'
  <2>1. slot["central"] # "down" => link > 0 BY <1>1, <1>6 DEF Left
  <2>2. bonds'["central"] \in {bonds["central"], NoKey} BY <1>4, <1>6
  <2> QED BY <1>1, <1>4, <1>7, <1>6, <1>11, <1>13, <2>1, <2>2, NoKeyFields
      DEF Unsettled, Fewer, TypeOK
<1>16. Settled' BY <1>1, <1>4, <1>6, <1>11, <1>13 DEF Settled, Fewer
<1>17. Unasked'
  <2>1. slot["peripheral"] # "down" => link > 0 BY <1>1, <1>6 DEF Left
  <2>2. bonds'["peripheral"] \in {bonds["peripheral"], NoKey} BY <1>4, <1>6
  <2> QED BY <1>1, <1>2, <1>4, <2>1, <2>2, NoKeyFields DEF Unasked, TypeOK
<1>18. Begun' => Begun BY <1>4, <1>6 DEF Begun
<1>19. \A k \in CentralKeys' : k \in CentralKeys \/ k = NoKey
  BY <1>4, <1>6, <1>11 DEF CentralKeys
<1>20. BothBegun' BY <1>2, <1>4, <1>6, <1>7, <1>18, <1>19 DEF BothBegun
<1>21. SameLtk' BY <1>2, <1>4, <1>6 DEF SameLtk
<1>22. Finishing' BY <1>2, <1>4, <1>5 DEF Finishing, OwnKey, NewKey
<1>23. Resumed' BY <1>2, <1>4 DEF Resumed
<1>24. ASSUME NEW k, Agreed(k) PROVE Agreed(k)'
  <2>1. \A s : Committed(s)' <=> Committed(s)
    BY <1>4, <1>5 DEF Committed, OwnKey, NewKey
  <2> QED BY <1>24, <1>4, <1>5, <1>6, <1>7, <2>1, MethodKinds DEF Agreed
<1>25. Shared' BY <1>2, <1>4, <1>19, <1>24, NoKeyFields DEF Shared
<1>26. ASSUME NEW v, Proved(v) PROVE Proved(v)'
  <2>1. \A s : Committed(s)' <=> Committed(s)
    BY <1>4, <1>5 DEF Committed, OwnKey, NewKey
  <2> QED BY <1>26, <1>4, <1>5, <1>6, <1>7, <2>1, MethodKinds DEF Proved
<1>27. ChecksOK' BY <1>3, <1>4, <1>6, <1>26 DEF ChecksOK
<1>28. FlagsOK' BY <1>3, <1>4, <1>6, <1>7 DEF FlagsOK
<1>29. Asked'
  <2> SUFFICES ASSUME NEW e \in Ends
      PROVE /\ Fits(sm[e].step)'
            /\ "confirm" \in Elems(app'[e]) \cup {prompt'[e]} => Method' = "numeric"
            /\ Passkey' /\ sm'[e].step \in Told(e)' => answer'[e] = sm'[e].secret + 1
            /\ Method' = "numeric" /\ sm'[e].step \in Proving => answer'[e] = 1
    BY DEF Asked
  <2>1. Told(e)' = Told(e) BY DEF Told
  <2>2. Fits(sm[e].step)' BY <1>3, <1>4, <1>5 DEF Asked, Fits
  <2>3. Elems(app'[e]) \cup {prompt'[e]}
            \subseteq Elems(app[e]) \cup {prompt[e], "none"} \cup Notes
    BY DEF Shrinks
  <2>4. "confirm" \in Elems(app'[e]) \cup {prompt'[e]} => Method' = "numeric"
    BY <1>3, <1>5, <2>3 DEF Asked, Notes
  <2> QED BY <1>3, <1>4, <1>5, <2>1, <2>2, <2>4, MethodKinds DEF Asked
<1>30. LevelOK'
  <2>1. CASE level' = level BY <1>3, <1>4, <2>1 DEF LevelOK
  <2>2. ASSUME NEW f \in due, Absent(f), slot[f] = "up",
               level' = [level EXCEPT ![f] = bonds[f].level]
        PROVE LevelOK'
    <3>1. f \in Ends BY <1>1 DEF TypeOK
    <3>2. cipher # NoKey BY <1>1, <2>2 DEF Once
    <3>3. f = "peripheral"
      BY <1>1, <2>2, <3>1, <3>2 DEF Unsettled, Absent, Ends
    <3>4. bonds[f].level # "none" => bonds[f].level = cipher.level
      <4>1. bonds[f] # NoKey => Ltk(bonds[f]) = Ltk(cipher)
        BY <1>2, <2>2, <3>3 DEF SameLtk
      <4>2. KeyOK(bonds[f]) /\ KeyOK(cipher) BY <1>1, <3>1 DEF KeysOK
      <4> QED BY <3>2, <4>1, <4>2, SameLevel, NoKeyFields
    <3>5. \A e \in Ends : level'[e] = IF e = f THEN bonds[f].level ELSE level[e]
      BY <1>1, <2>2 DEF TypeOK
    <3> QED BY <1>3, <1>4, <3>2, <3>4, <3>5 DEF LevelOK
  <2> QED BY <2>1, <2>2 DEF Shrinks
<1>31. NoLtk' BY <1>3, <1>13 DEF NoLtk, Fewer
<1>32. /\ Unasked' /\ BothBegun' /\ SameLtk' /\ Finishing' /\ Resumed' /\ Shared'
       /\ ChecksOK' /\ FlagsOK' /\ Asked' /\ LevelOK' /\ NoLtk'
  BY <1>17, <1>20, <1>21, <1>22, <1>23, <1>25, <1>27, <1>28, <1>29, <1>30, <1>31
<1> QED BY <1>8, <1>10, <1>12, <1>14, <1>15, <1>16, <1>32 DEF IInv

LEMMA ByForgets ==
  ASSUME IInv, TypeOK', NEW e \in Ends, Forgets(e)
  PROVE IInv'
<1>1. TypeOK /\ StepsOK /\ Left /\ KeysOK /\ Once /\ Unsettled /\ Settled
  BY DEF IInv
<1>2. Unasked /\ BothBegun /\ SameLtk /\ Finishing /\ Resumed /\ Shared
  BY DEF IInv
<1>3. ChecksOK /\ FlagsOK /\ Asked /\ LevelOK /\ NoLtk BY DEF IInv
<1>4. /\ UNCHANGED <<start, link, proc, cipher, due, prompt, answer>> /\ ~air'
      /\ Fewer(events["central"], events'["central"])
  BY DEF Forgets
<1>5. Method' = Method /\ (Passkey' <=> Passkey) /\ Level' = Level
  BY <1>4, MethodKept
<1>6. {"central", "peripheral"} = Ends BY DEF Ends
<1>7. \A f \in Ends :
        /\ sm'[f] = IF f = e THEN None ELSE sm[f]
        /\ slot'[f] = IF f = e THEN "down" ELSE slot[f]
        /\ level'[f] = IF f = e THEN "none" ELSE level[f]
        /\ bonds'[f] = IF f = e /\ ~bonds[f].bonded THEN NoKey ELSE bonds[f]
  BY <1>1 DEF Forgets, Forget, TypeOK
<1>8. /\ wire'[e] = <<>>
      /\ \A f \in Ends : f # e => wire'[f] = wire[f] /\ app'[f] = app[f]
      /\ Elems(app'[e]) \subseteq Elems(app[e]) \cup {"disconnected"}
  <2>1. app[e] \in Seq(News) /\ "disconnected" \in News
    BY <1>1 DEF TypeOK, News
  <2>2. Elems(Append(app[e], "disconnected")) = Elems(app[e]) \cup {"disconnected"}
    BY <2>1, ElemsOfAppend
  <2>3. app'[e] \in {app[e], Append(app[e], "disconnected")}
    BY <1>1 DEF Forgets, Forget, TypeOK
  <2>4. \A f \in Ends : f # e => wire'[f] = wire[f] /\ app'[f] = app[f]
    BY <1>1 DEF Forgets, Forget, TypeOK
  <2>5. wire'[e] = <<>> BY <1>1 DEF Forgets, Forget, TypeOK
  <2> QED BY <2>2, <2>3, <2>4, <2>5
<1>9. \A f \in Ends : Elems(wire'[f]) = IF f = e THEN {} ELSE Elems(wire[f])
  BY <1>8, ElemsOfNone
<1>10. None.step = "absent" /\ None.bond = NoKey BY FreshType
<1>11. StepsOK' BY <1>1, <1>6, <1>7, <1>10 DEF StepsOK
<1>12. Left' BY <1>1, <1>4, <1>7, <1>9, NoKeyFields DEF Left, Absent
<1>13. KeysOK'
  <2>1. \A k : KeyOK(k) => KeyOK(k)' BY <1>4, <1>5 DEF KeyOK
  <2>2. \A f \in Ends : /\ KeyOK(bonds'[f]) \/ bonds'[f] = NoKey
                        /\ KeyOK(sm'[f].bond) \/ sm'[f].bond = NoKey
    BY <1>1, <1>7, <1>10 DEF KeysOK
  <2>3. KeyOK(NoKey) BY DEF KeyOK
  <2>4. \A f \in Ends : KeyOK(bonds[f])' /\ KeyOK(sm[f].bond)'
    BY <2>2, <2>3, <1>4, <1>5 DEF KeyOK
  <2>5. KeyOK(proc.key)' /\ KeyOK(cipher)'
    BY <1>1, <1>4, <1>5 DEF KeyOK, KeysOK
  <2> QED BY <2>4, <2>5 DEF KeysOK
<1>14. Once' BY <1>1, <1>4 DEF Once, Fewer
<1>15. Unsettled'
  BY <1>1, <1>4, <1>6, <1>7, <1>10, NoKeyFields DEF Unsettled, Fewer, Absent
<1>16. Settled' BY <1>1, <1>4, <1>6, <1>7, <1>10 DEF Settled, Fewer, CentralLate
<1>17. Unasked' BY <1>1, <1>2, <1>4, <1>6, <1>7, <1>10 DEF Unasked
<1>18. Begun' => Begun /\ e # "peripheral"
  BY <1>4, <1>6, <1>7, <1>9, <1>10 DEF Begun, Mid
<1>19. \A k \in CentralKeys' : k \in CentralKeys \/ k = NoKey
  BY <1>4, <1>6, <1>7, <1>10 DEF CentralKeys
<1>20. BothBegun'
  <2>1. ~Unmet("central") => ~Unmet("central")'
    BY <1>6, <1>7 DEF Unmet, Absent
  <2> QED BY <1>2, <1>4, <1>18, <1>19, <2>1 DEF BothBegun
<1>21. SameLtk' BY <1>2, <1>4, <1>6, <1>7 DEF SameLtk
<1>22. Finishing'
  BY <1>2, <1>4, <1>5, <1>6, <1>7, <1>10 DEF Finishing, OwnKey, NewKey
<1>23. Resumed' BY <1>2, <1>4, <1>6, <1>7, <1>10 DEF Resumed
<1>24. \A s : Committed(s)' <=> Committed(s)
  BY <1>4, <1>5 DEF Committed, OwnKey, NewKey
<1>25. /\ Unmet("peripheral")' => Unmet("peripheral")
       /\ Unmet("central")' => Unmet("central")
       /\ ~Absent("peripheral")' => e # "peripheral" /\ ~Absent("peripheral")
       /\ ~Absent("central")' => e # "central" /\ ~Absent("central")
  BY <1>6, <1>7, <1>10 DEF Unmet, Absent
<1>26. ASSUME NEW k, Agreed(k) PROVE Agreed(k)'
  <2>1. e # "peripheral" => sm'["peripheral"] = sm["peripheral"]
    BY <1>6, <1>7
  <2> QED BY <1>26, <1>4, <1>5, <1>24, <1>25, <2>1 DEF Agreed
<1>27. Shared' BY <1>2, <1>4, <1>19, <1>26, NoKeyFields DEF Shared
<1>28. ASSUME NEW v, Proved(v) PROVE Proved(v)'
  <2>1. /\ e # "peripheral" => sm'["peripheral"] = sm["peripheral"]
        /\ e # "central" => sm'["central"] = sm["central"]
    BY <1>6, <1>7
  <2> QED BY <1>28, <1>4, <1>5, <1>24, <1>25, <2>1 DEF Proved
<1>29. ChecksOK' BY <1>3, <1>6, <1>9, <1>28 DEF ChecksOK
<1>30. FlagsOK'
  <2>1. /\ e # "peripheral" => sm'["peripheral"] = sm["peripheral"]
        /\ e # "central" => sm'["central"] = sm["central"]
        /\ e = "central" => sm'["central"].step = "absent"
        /\ e = "peripheral" => sm'["peripheral"].step = "absent"
    BY <1>6, <1>7, <1>10
  <2>2. /\ Elems(wire'["central"]) \subseteq Elems(wire["central"])
        /\ Elems(wire'["peripheral"]) \subseteq Elems(wire["peripheral"])
    BY <1>6, <1>9
  <2>3. Met("peripheral") => Met("peripheral")'
    BY <1>25, <2>1 DEF Met
  <2>4. "absent" \notin CentralKnows \cup Mid \cup {"link_encrypted"}
    BY DEF CentralKnows, CentralEarly, Mid
  <2> QED BY <1>3, <1>25, <2>1, <2>2, <2>3, <2>4 DEF FlagsOK
<1>31. Asked'
  <2> SUFFICES ASSUME NEW f \in Ends
      PROVE /\ Fits(sm[f].step)'
            /\ "confirm" \in Elems(app'[f]) \cup {prompt'[f]} => Method' = "numeric"
            /\ Passkey' /\ sm'[f].step \in Told(f)' => answer'[f] = sm'[f].secret + 1
            /\ Method' = "numeric" /\ sm'[f].step \in Proving => answer'[f] = 1
    BY DEF Asked
  <2>1. Told(f)' = Told(f) /\ "absent" \notin Told(f) \cup Proving
    BY DEF Told, CentralTold, PeripheralTold, Proving
  <2>2. Fits(sm[f].step)' BY <1>3, <1>5, <1>7, <1>10 DEF Asked, Fits
  <2>3. "confirm" \in Elems(app'[f]) \cup {prompt'[f]} => Method' = "numeric"
    BY <1>3, <1>4, <1>5, <1>8 DEF Asked
  <2> QED BY <1>3, <1>4, <1>5, <1>7, <1>10, <2>1, <2>2, <2>3 DEF Asked
<1>32. LevelOK' BY <1>3, <1>4, <1>7 DEF LevelOK
<1>33. NoLtk' BY <1>3, <1>4 DEF NoLtk, Fewer
<1>34. /\ Unasked' /\ BothBegun' /\ SameLtk' /\ Finishing' /\ Resumed' /\ Shared'
       /\ ChecksOK' /\ FlagsOK' /\ Asked' /\ LevelOK' /\ NoLtk'
  BY <1>17, <1>20, <1>21, <1>22, <1>23, <1>27, <1>29, <1>30, <1>31, <1>32, <1>33
<1> QED BY <1>11, <1>12, <1>13, <1>14, <1>15, <1>16, <1>34 DEF IInv

(* What only changes the keys the controllers use leaves most of it.        *)
LEMMA ByControllers ==
  ASSUME IInv, TypeOK', air,
         UNCHANGED <<start, sm, level, bonds, app, prompt, answer, wire, slot,
                     air, link>>,
         {proc'.key, cipher'} \subseteq CentralKeys,
         Ltks(events'["central"]) \subseteq Ltks(events["central"])
  PROVE /\ StepsOK' /\ Left' /\ KeysOK' /\ Unasked' /\ BothBegun' /\ Finishing'
        /\ Shared' /\ ChecksOK' /\ FlagsOK' /\ Asked' /\ NoLtk'
        /\ slot["central"] # "down"
<1>1. TypeOK /\ StepsOK /\ Left /\ KeysOK /\ Unasked /\ BothBegun /\ Finishing
  BY DEF IInv
<1>2. Shared /\ ChecksOK /\ FlagsOK /\ Asked /\ NoLtk BY DEF IInv
<1>3. Method' = Method /\ (Passkey' <=> Passkey) /\ Level' = Level
  BY MethodKept
<1>4. \A e \in Ends : (Absent(e)' <=> Absent(e)) /\ (Unmet(e)' <=> Unmet(e))
                      /\ (Met(e)' <=> Met(e))
  BY DEF Absent, Unmet, Met
<1>5. Left' BY <1>1, <1>4 DEF Left
<1>6. StepsOK' BY <1>1 DEF StepsOK
<1>7. \A k \in CentralKeys' : k \in CentralKeys BY DEF CentralKeys
<1>8. KeysOK'
  <2>1. \A k \in CentralKeys : KeyOK(k) BY <1>1 DEF KeysOK, CentralKeys, Ends
  <2>2. KeyOK(proc.key)' /\ KeyOK(cipher)' BY <1>3, <2>1 DEF KeyOK
  <2> QED BY <1>1, <1>3, <2>2 DEF KeysOK, KeyOK
<1>9. Unasked' BY <1>1 DEF Unasked
<1>10. Begun' <=> Begun BY DEF Begun
<1>11. BothBegun' BY <1>1, <1>4, <1>7, <1>10 DEF BothBegun, Ends
<1>12. Finishing' BY <1>1, <1>3 DEF Finishing, OwnKey, NewKey
<1>13. \A s : Committed(s)' <=> Committed(s)
  BY <1>3 DEF Committed, OwnKey, NewKey
<1>14. \A k : Agreed(k) => Agreed(k)'
  BY <1>3, <1>4, <1>13 DEF Agreed, Ends
<1>15. Shared' BY <1>2, <1>7, <1>14 DEF Shared
<1>16. \A v : Proved(v) => Proved(v)'
  BY <1>3, <1>4, <1>13 DEF Proved, Ends
<1>17. ChecksOK' BY <1>2, <1>16 DEF ChecksOK
<1>18. FlagsOK' BY <1>2, <1>4 DEF FlagsOK, Ends
<1>19. Asked'
  <2>1. \A e \in Ends : Told(e)' = Told(e) BY DEF Told
  <2>2. \A e \in Ends : Fits(sm[e].step)' <=> Fits(sm[e].step)
    BY <1>3 DEF Fits
  <2> QED BY <1>2, <1>3, <2>1, <2>2 DEF Asked
<1>20. NoLtk' BY <1>2 DEF NoLtk
<1>21. slot["central"] # "down" BY <1>1 DEF Left, Ends
<1> QED BY <1>5, <1>6, <1>8, <1>9, <1>11, <1>12, <1>15, <1>17, <1>18, <1>19,
           <1>20, <1>21

LEMMA ByEnables ==
  ASSUME IInv, TypeOK', Enables
  PROVE IInv'
<1>1. TypeOK /\ KeysOK /\ Once /\ Unsettled /\ Settled /\ SameLtk /\ Resumed
      /\ LevelOK /\ StepsOK
  BY DEF IInv
<1>2. /\ air
      /\ Encrypts(events["central"]) # {} /\ Encrypts(events'["central"]) = {}
      /\ bonds["central"] # NoKey
      /\ proc' = [stage |-> "request", key |-> bonds["central"]]
      /\ UNCHANGED <<start, sm, level, bonds, app, prompt, answer, wire, slot,
                     air, link, cipher, due>>
      /\ Ltks(events'["central"]) \subseteq Ltks(events["central"])
  BY DEF Enables
<1>3. proc'.stage = "request" /\ proc'.key = bonds["central"] BY <1>2
<1>4. {proc'.key, cipher'} \subseteq CentralKeys
  BY <1>2, <1>3 DEF CentralKeys
<1>5. /\ StepsOK' /\ Left' /\ KeysOK' /\ Unasked' /\ BothBegun' /\ Finishing'
      /\ Shared' /\ ChecksOK' /\ FlagsOK' /\ Asked' /\ NoLtk'
      /\ slot["central"] # "down"
  BY <1>2, <1>4, ByControllers
<1>6. cipher = NoKey /\ due = {} BY <1>1, <1>2 DEF Once
<1>7. sm["central"].step \in CentralLate
  BY <1>1, <1>2, <1>5 DEF Unsettled, StepsOK
<1>8. Once' BY <1>2, <1>3, <1>6 DEF Once
<1>9. Unsettled'
  BY <1>1, <1>2, <1>7 DEF Unsettled, Later, CentralEarly, CentralLate
<1>10. Settled' BY <1>1, <1>2, <1>3, <1>6 DEF Settled
<1>11. SameLtk' BY <1>2, <1>6 DEF SameLtk
<1>12. Resumed' BY <1>1, <1>2 DEF Resumed
<1>13. LevelOK' BY <1>1, <1>2 DEF LevelOK
<1> QED BY <1>5, <1>8, <1>9, <1>10, <1>11, <1>12, <1>13 DEF IInv

LEMMA ByCiphers ==
  ASSUME IInv, TypeOK', Ciphers
  PROVE IInv'
<1>1. TypeOK /\ KeysOK /\ Once /\ Unsettled /\ Settled /\ SameLtk /\ Resumed
      /\ LevelOK /\ StepsOK
  BY DEF IInv
<1>2. /\ air /\ proc.stage = "reply"
      /\ Ltk(bonds["peripheral"]) = Ltk(proc.key)
      /\ proc' = Idle /\ cipher' = proc.key
      /\ events'["central"] = events["central"]
      /\ UNCHANGED <<start, sm, level, bonds, app, prompt, answer, wire, slot,
                     air, link>>
  BY DEF Ciphers
<1>3. proc'.stage = "idle" /\ proc'.key = NoKey BY <1>2 DEF Idle
<1>4. proc.key # NoKey /\ cipher = NoKey BY <1>1, <1>2 DEF Once
<1>5. {proc'.key, cipher'} \subseteq CentralKeys
  BY <1>2, <1>3, <1>4 DEF CentralKeys
<1>6. /\ StepsOK' /\ Left' /\ KeysOK' /\ Unasked' /\ BothBegun' /\ Finishing'
      /\ Shared' /\ ChecksOK' /\ FlagsOK' /\ Asked' /\ NoLtk'
      /\ slot["central"] # "down"
  BY <1>2, <1>5, ByControllers
<1>7. proc # Idle BY <1>2 DEF Idle
<1>8. Encrypts(events["central"]) = {} BY <1>1, <1>7 DEF Once
<1>9. sm["central"].step \in CentralLate
  BY <1>1, <1>6, <1>7 DEF Unsettled, StepsOK
<1>10. Once' BY <1>2, <1>3, <1>4, <1>8 DEF Once
<1>11. Unsettled'
  BY <1>1, <1>2, <1>9 DEF Unsettled, Later, CentralEarly, CentralLate
<1>12. Settled' BY <1>1, <1>2, <1>3, <1>8 DEF Settled
<1>13. SameLtk' BY <1>2 DEF SameLtk
<1>14. Resumed' BY <1>1, <1>2, <1>4 DEF Resumed
<1>15. LevelOK' BY <1>1, <1>2, <1>4 DEF LevelOK
<1> QED BY <1>6, <1>10, <1>11, <1>12, <1>13, <1>14, <1>15 DEF IInv

LEMMA ByConnect ==
  ASSUME IInv, TypeOK', Connect
  PROVE IInv'
<1>1. TypeOK /\ Left /\ KeysOK /\ LevelOK /\ NoLtk
  BY DEF IInv
<1>2. /\ link' = link + 1
      /\ proc' = Idle /\ cipher' = NoKey /\ due' = {}
      /\ UNCHANGED <<start, sm, level, bonds, events, app, wire>>
      /\ \A e \in Ends : /\ slot[e] = "down" /\ app[e] = <<>> /\ events[e] = <<>>
                         /\ slot'[e] = "up" /\ prompt'[e] = "none"
                         /\ answer'[e] = 0
  BY DEF Connect, fixed
<1>3. Method' = Method /\ (Passkey' <=> Passkey) /\ Level' = Level
  BY <1>2, MethodKept
<1>4. /\ {"central", "peripheral"} = Ends
      /\ link \in Nat /\ link' > 0 /\ link' \in Nat
  BY <1>1, <1>2 DEF Ends, TypeOK
<1>5. None.step = "absent" /\ None.bond = NoKey
  <2>1. "central" \in Ends /\ TRUE \in BOOLEAN BY DEF Ends
  <2> QED BY <2>1, FreshType
<1>6. \A e \in Ends :
        /\ sm'[e] = None /\ sm'[e].step = "absent" /\ sm'[e].bond = NoKey
        /\ Elems(wire'[e]) = {} /\ level'[e] = "none"
        /\ bonds'[e] = bonds[e] /\ (bonds[e] = NoKey \/ bonds[e].bonded)
  BY <1>1, <1>2, <1>5 DEF Left
<1>7. \A e \in Ends : bonds'[e].link # link' /\ KeyOK(bonds[e])'
  <2> SUFFICES ASSUME NEW e \in Ends
               PROVE bonds'[e].link # link' /\ KeyOK(bonds[e])'
    OBVIOUS
  <2>1. KeyOK(bonds[e]) /\ bonds'[e] = bonds[e] /\ bonds[e] \in Keys
        /\ (bonds[e] = NoKey \/ bonds[e].bonded)
    BY <1>1, <1>6 DEF KeysOK, TypeOK
  <2>2. bonds[e].link \in Nat /\ bonds[e].link <= link
    BY <1>4, <2>1, NoKeyFields DEF KeyOK, Keys
  <2> QED BY <1>2, <1>3, <1>4, <2>1, <2>2 DEF KeyOK
<1>8. proc'.key = NoKey /\ proc'.stage = "idle" BY <1>2 DEF Idle
<1>9. Encrypts(events'["central"]) = {} BY <1>2, <1>4, ElemsOfNone
<1>10. StepsOK' BY <1>4, <1>6 DEF StepsOK
<1>11. Left' BY <1>2, <1>4, <1>6 DEF Left, Absent
<1>12. KeysOK' BY <1>2, <1>6, <1>7, <1>8 DEF KeysOK, KeyOK
<1>13. Once' BY <1>2, <1>8, <1>9 DEF Once
<1>14. Unsettled' BY <1>2, <1>4, <1>6, <1>7, <1>9 DEF Unsettled, Absent
<1>15. Settled' BY <1>4, <1>6 DEF Settled, CentralLate
<1>16. Unasked' BY <1>4, <1>6, <1>7 DEF Unasked
<1>17. ~Begun' BY <1>4, <1>6 DEF Begun, Mid
<1>18. BothBegun' BY <1>17 DEF BothBegun
<1>19. SameLtk' BY <1>2 DEF SameLtk
<1>20. Finishing' /\ Resumed' BY <1>4, <1>6 DEF Finishing, Resumed
<1>21. \A k \in CentralKeys' : k.link # link'
  BY <1>2, <1>4, <1>6, <1>7, <1>8, NoKeyFields DEF CentralKeys
<1>22. Shared' BY <1>21 DEF Shared
<1>23. ChecksOK' BY <1>4, <1>6 DEF ChecksOK
<1>24. FlagsOK'
  BY <1>4, <1>6 DEF FlagsOK, Mid, CentralKnows, CentralEarly
<1>25. Asked'
  BY <1>2, <1>6, ElemsOfNone
  DEF Asked, Fits, Told, CentralTold, PeripheralTold, Proving
<1>26. LevelOK' BY <1>6 DEF LevelOK
<1>27. NoLtk' BY <1>1, <1>2 DEF NoLtk
<1> QED BY <1>10, <1>11, <1>12, <1>13, <1>14, <1>15, <1>16, <1>18, <1>19, <1>20,
           <1>22, <1>23, <1>24, <1>25, <1>26, <1>27 DEF IInv

(* A handler of the central. *)
LEMMA ByCentral ==
  ASSUME IInv, TypeOK', NEW x, NEW y,
         Host("central", x, y), CentralBegins(x), CentralEnd(x, y)
  PROVE IInv'
<1>1. TypeOK /\ StepsOK /\ Left /\ KeysOK /\ Once /\ Unsettled /\ Settled
  BY DEF IInv
<1>2. Unasked /\ BothBegun /\ SameLtk /\ Finishing /\ Resumed /\ Shared
  BY DEF IInv
<1>3. ChecksOK /\ FlagsOK /\ Asked /\ LevelOK /\ NoLtk BY DEF IInv
<1>4. /\ slot["central"] # "down" /\ slot'["central"] # "down"
      /\ slot'["peripheral"] = slot["peripheral"]
      /\ x.key = bonds["central"] /\ x.ev = events["central"]
      /\ x.app = app["central"] /\ x.seen = answer["central"]
      /\ IF Absent("central") THEN x.s.step = "idle" /\ x.s.bond = NoKey
         ELSE x.s = sm["central"]
  <2>1. TRUE \in BOOLEAN /\ "central" \in Ends BY DEF Ends
  <2>2. Fresh("central").step = "idle" BY <2>1, FreshType
  <2> QED BY <2>2 DEF Host, Other
<1>5. /\ sm'["central"] = y.s /\ sm'["peripheral"] = sm["peripheral"]
      /\ bonds'["central"] = y.key /\ bonds'["peripheral"] = bonds["peripheral"]
      /\ events'["central"] = y.ev
      /\ app'["central"] = y.app /\ app'["peripheral"] = app["peripheral"]
      /\ answer'["central"] = y.seen
      /\ answer'["peripheral"] = answer["peripheral"]
      /\ prompt'["central"] \in {prompt["central"], "none"}
      /\ prompt'["peripheral"] = prompt["peripheral"]
      /\ Elems(wire'["central"]) \subseteq Elems(wire["central"])
      /\ Elems(wire'["peripheral"]) \subseteq
           Elems(wire["peripheral"]) \cup Elems(y.out)
      /\ ~air => Elems(wire'["peripheral"]) = Elems(wire["peripheral"])
  BY DEF Host, Other
<1>6. /\ UNCHANGED <<start, air, link, proc, cipher>> /\ due' \subseteq due
      /\ \/ level' = level
         \/ "central" \in due
            /\ level' = [level EXCEPT !["central"] = SecurityLevel(y.s)]
  BY DEF Host
<1>7. /\ Method' = Method /\ (Passkey' <=> Passkey) /\ Level' = Level
      /\ link \in Nat /\ link > 0 /\ Ends = {"central", "peripheral"}
  BY <1>1, <1>4, <1>6, MethodKept, LinkUp DEF Ends
<1>8. CentralRun(x, y) BY DEF CentralEnd
<1>9. /\ y.s.step \in Later \cup CentralLate /\ y.s.step # "absent"
      /\ x.s.step \in CentralEarly \cup CentralLate
  BY <1>8 DEF CentralEnd, CentralRun, CentralBegins, Later, CentralEarly,
     CentralLate
<1>10. x.s.step \in CentralEarly =>
         /\ sm["central"].step \in {"absent"} \cup Later
         /\ x.s.bond = NoKey
         /\ Encrypts(events["central"]) = {}
         /\ proc = Idle /\ cipher = NoKey
         /\ bonds["central"].link # link
         /\ x.s.step # "idle" => x.key = NoKey
  <2> SUFFICES ASSUME x.s.step \in CentralEarly
               PROVE /\ sm["central"].step \in {"absent"} \cup Later
                     /\ x.s.bond = NoKey
                     /\ Encrypts(events["central"]) = {}
                     /\ proc = Idle /\ cipher = NoKey
                     /\ bonds["central"].link # link
                     /\ x.s.step # "idle" => x.key = NoKey
    OBVIOUS
  <2>1. sm["central"].step \in {"absent"} \cup Later
    BY <1>1, <1>4 DEF Absent, StepsOK, Later, CentralEarly, CentralLate
  <2> QED BY <1>1, <1>4, <2>1 DEF Unsettled, Absent
<1>11. x.s.step # "idle" => ~Absent("central") /\ x.s = sm["central"]
  BY <1>4
<1>12. /\ Idle.key = NoKey /\ Idle.stage = "idle"
  BY DEF Idle
<1>13. x.s.step \in CentralLate =>
         y.s.step \in CentralLate /\ y.key = x.key /\ y.s.bond = x.s.bond
         /\ Encrypts(y.ev) = Encrypts(x.ev)
  BY <1>8, <1>9 DEF CentralRun, Later, CentralEarly, CentralLate
<1>14. y.key = x.key
       \/ /\ y.key = NewKey("central", x.s) /\ x.s.step = "dhkey_eb"
          /\ HeardCheck(x.s)
  BY <1>8 DEF CentralRun
<1>15. y.s.bond \in {x.s.bond, y.key} BY <1>8 DEF CentralRun
<1>16. ~Unmet("central")' /\ ~Absent("central")'
  BY <1>5, <1>9 DEF Unmet, Absent
<1>17. /\ (Absent("peripheral")' <=> Absent("peripheral"))
       /\ (Unmet("peripheral")' <=> Unmet("peripheral"))
       /\ (Met("peripheral")' <=> Met("peripheral"))
  BY <1>4, <1>5 DEF Absent, Unmet, Met
<1>18. StepsOK' BY <1>1, <1>5, <1>9 DEF StepsOK
<1>19. Left'
  <2>1. level'["peripheral"] = level["peripheral"]
    BY <1>1, <1>6, <1>7 DEF TypeOK
  <2>2. slot["peripheral"] = "down" => ~air BY <1>1, <1>7 DEF Left
  <2>3. Absent("peripheral") => sm["peripheral"] = None BY <1>1, <1>7 DEF Left
  <2>4. slot["peripheral"] = "down" =>
           /\ ~air' /\ Elems(wire'["peripheral"]) = {}
           /\ sm'["peripheral"] = None /\ level'["peripheral"] = "none"
           /\ bonds'["peripheral"] = NoKey \/ bonds'["peripheral"].bonded
    BY <1>1, <1>5, <1>6, <1>7, <2>1, <2>2 DEF Left
  <2>5. \A e \in Ends : Absent(e)' => sm'[e] = None
    BY <1>5, <1>7, <1>16, <1>17, <2>3
  <2>6. \A e \in Ends : slot'[e] = "down" => e = "peripheral"
                                             /\ slot["peripheral"] = "down"
    BY <1>4, <1>7
  <2>7. \A e \in Ends : slot'[e] # "down" => link' > 0 BY <1>6, <1>7
  <2> QED BY <2>4, <2>5, <2>6, <2>7 DEF Left
<1>20. KeysOK'
  <2>1. KeyOK(NewKey("central", x.s)) BY <1>7 DEF KeyOK, NewKey
  <2>2. KeyOK(x.key) /\ KeyOK(x.s.bond)
    BY <1>1, <1>4, <1>7 DEF KeysOK, KeyOK
  <2>3. KeyOK(y.key) /\ KeyOK(y.s.bond) BY <1>14, <1>15, <2>1, <2>2
  <2>4. \A e \in Ends : KeyOK(bonds'[e]) /\ KeyOK(sm'[e].bond)
    BY <1>1, <1>5, <1>7, <2>3 DEF KeysOK
  <2>5. KeyOK(proc.key) /\ KeyOK(cipher) BY <1>1 DEF KeysOK
  <2> QED BY <1>6, <1>7, <2>4, <2>5 DEF KeysOK, KeyOK
<1>21. Once'
  <2>1. CASE x.s.step \in CentralEarly
    <3>1. Encrypts(y.ev) = {} \/ \E i : Encrypts(y.ev) = {i}
      BY <1>4, <1>8, <1>10, <2>1 DEF CentralRun
    <3> QED BY <1>1, <1>5, <1>6, <1>10, <2>1, <3>1 DEF Once
  <2>2. CASE x.s.step \in CentralLate
    BY <1>1, <1>4, <1>5, <1>6, <1>13, <2>2 DEF Once
  <2> QED BY <1>9, <2>1, <2>2
<1>22. Unsettled'
  <2> SUFFICES ASSUME y.s.step \in Later
               PROVE /\ y.s.bond = NoKey /\ Encrypts(y.ev) = {}
                     /\ proc = Idle /\ cipher = NoKey /\ y.key = NoKey
    BY <1>5, <1>6, <1>7, <1>9, NoKeyFields DEF Unsettled
  <2>1. x.s.step \in CentralEarly
    BY <1>8 DEF CentralRun, Later, CentralEarly, CentralLate
  <2>2. y.key = x.key
    BY DEF CentralEnd, Later, CentralEarly
  <2>3. y.s.bond = x.s.bond /\ Encrypts(y.ev) = Encrypts(x.ev)
    BY <1>8 DEF CentralRun, Later, CentralEarly, Encrypting
  <2>4. x.s.step = "idle" => y.s.step = "response"
    BY <1>8 DEF CentralRun, Later, CentralEarly, CentralKnows
  <2>5. x.key = NoKey
    BY <1>8, <1>10, <2>1, <2>4 DEF CentralRun
  <2> QED BY <1>4, <1>10, <2>1, <2>2, <2>3, <2>5
<1>23. Settled'
  <2> SUFFICES ASSUME y.s.step \in CentralLate
               PROVE /\ proc.key \in {NoKey, y.s.bond}
                     /\ cipher \in {NoKey, y.s.bond}
                     /\ Encrypts(y.ev) # {} => y.key \in {NoKey, y.s.bond}
    BY <1>5, <1>6 DEF Settled
  <2>1. CASE x.s.step \in CentralEarly
    BY <1>4, <1>8, <1>10, <1>12, <2>1 DEF CentralRun
  <2>2. CASE x.s.step \in CentralLate
    <3>1. x.s = sm["central"]
      BY <1>11, <2>2 DEF CentralLate
    <3> QED BY <1>1, <1>4, <1>13, <2>2, <3>1 DEF Settled
  <2> QED BY <1>9, <2>1, <2>2
<1>24. Unasked' BY <1>2, <1>4, <1>5, <1>6 DEF Unasked
<1>25. BothBegun'
  <2>1. CASE Begun
    <3>1. ~Absent("central") BY <1>2, <1>4, <2>1 DEF BothBegun, Unmet
    <3>2. \A k \in CentralKeys : k = NoKey \/ k.link = link
      BY <1>2, <2>1 DEF BothBegun
    <3>3. x.key \in CentralKeys /\ x.s.bond \in CentralKeys
      BY <1>4, <3>1 DEF CentralKeys
    <3>4. NewKey("central", x.s).link = link BY DEF NewKey
    <3>5. \A k \in {y.key, y.s.bond, proc.key, cipher} : k = NoKey \/ k.link = link
      BY <1>14, <1>15, <3>2, <3>3, <3>4 DEF CentralKeys
    <3>6. CentralKeys' = {y.key, y.s.bond, proc.key, cipher}
      BY <1>5, <1>6 DEF CentralKeys
    <3> QED BY <1>6, <1>16, <3>5, <3>6 DEF BothBegun
  <2>2. CASE ~Begun
    <3> SUFFICES ASSUME Begun' PROVE BothBegun' BY DEF BothBegun
    <3>1. PICK m \in Elems(y.out) : m.k # "failed"
      BY <1>5, <1>6, <2>2 DEF Begun
    <3>2. /\ x.s.step \in CentralEarly /\ y.key = x.key
          /\ y.s.step \notin Encrypting
          /\ x.s.step = "idle" => x.key = NoKey
      BY <1>8, <3>1 DEF CentralRun
    <3>3. y.s.bond = NoKey /\ y.key = NoKey
      BY <1>8, <1>10, <3>2 DEF CentralRun
    <3>4. CentralKeys' = {NoKey}
      BY <1>5, <1>6, <1>10, <1>12, <3>2, <3>3 DEF CentralKeys
    <3> QED BY <1>16, <3>4 DEF BothBegun
  <2> QED BY <2>1, <2>2
<1>26. SameLtk' BY <1>2, <1>5, <1>6 DEF SameLtk
<1>27. Finishing' BY <1>2, <1>5, <1>6, <1>7 DEF Finishing, OwnKey, NewKey
<1>28. Resumed' BY <1>2, <1>5, <1>6 DEF Resumed
<1>29. \A s : Committed(s)' <=> Committed(s)
  BY <1>6, <1>7 DEF Committed, OwnKey, NewKey
<1>30. Shared'
  <2>1. ASSUME NEW k \in CentralKeys, k.link = link PROVE Agreed(k)'
    <3>1. Agreed(k) BY <1>2, <1>7, <2>1 DEF Shared
    <3>2. x.s.step \in CentralLate
      <4> SUFFICES ASSUME x.s.step \in CentralEarly PROVE FALSE BY <1>9
      <4>1. sm["central"].bond = NoKey BY <1>1, <1>10 DEF Unsettled
      <4> QED BY <1>7, <1>10, <1>12, <2>1, <4>1, NoKeyFields DEF CentralKeys
    <3>3. y.seen = x.seen \/ (Method = "numeric" /\ y.seen = 1)
      BY <1>8, <3>2 DEF CentralRun
    <3> QED BY <1>4, <1>5, <1>7, <1>17, <1>29, <3>1, <3>3, MethodKinds DEF Agreed
  <2>2. ASSUME y.key = NewKey("central", x.s), x.s.step = "dhkey_eb",
               HeardCheck(x.s)
        PROVE Agreed(y.key)'
    <3>1. PICK m \in Elems(wire["central"]) :
            m.k = "dhkey" /\ m.v = <<x.s.peernonce, x.s.nonce, x.s.secret>>
      BY <2>2 DEF HeardCheck
    <3>2. Proved(m.v) BY <1>3, <3>1 DEF ChecksOK
    <3>3. x.s = sm["central"] /\ ~Absent("central") BY <1>11, <2>2
    <3>4. y.seen = x.seen \/ (Method = "numeric" /\ y.seen = 1)
      BY <1>8, <2>2 DEF CentralRun
    <3>5. Method = "numeric" => answer["central"] = 1
      BY <1>3, <1>7, <2>2, <3>3 DEF Asked, Proving
    <3>6. Passkey => answer["central"] = x.s.secret + 1
      BY <1>3, <1>7, <2>2, <3>3 DEF Asked, Told, CentralTold
    <3>7. x.s.secret \in Nat
      BY DEF CentralBegins, Handler, Machine
    <3>8. m.v[3] = x.s.secret BY <3>1
    <3>9. Method' = "numeric" => answer'["central"] = 1 /\ answer'["peripheral"] = 1
      BY <1>4, <1>5, <1>7, <3>2, <3>4, <3>5 DEF Proved
    <3>10. Passkey' => /\ answer'["central"] = answer'["peripheral"]
                       /\ answer'["central"] # 0
      BY <1>4, <1>5, <1>7, <3>2, <3>4, <3>6, <3>7, <3>8, MethodKinds DEF Proved
    <3>11. ~Unmet("peripheral")' BY <1>17, <3>2 DEF Proved
    <3>12. ASSUME ~Absent("peripheral")
           PROVE /\ y.key.c = sm["peripheral"].peernonce
                 /\ y.key.p = sm["peripheral"].nonce
                 /\ y.key.bonded = WantBonding(sm["peripheral"])
                 /\ Committed(sm["peripheral"])
      <4>1. /\ m.v = Proof(sm["peripheral"])
            /\ Committed(sm["peripheral"])
            /\ sm["peripheral"].peer = x.s.own
        BY <3>2, <3>3, <3>12 DEF Proved
      <4>2. x.s.peer = sm["peripheral"].own
        BY <1>3, <2>2, <3>3, <3>12 DEF FlagsOK, CentralKnows, CentralEarly
      <4>3. /\ x.s.peernonce = sm["peripheral"].nonce
            /\ x.s.nonce = sm["peripheral"].peernonce
        BY <3>1, <4>1 DEF Proof
      <4>4. /\ y.key.c = x.s.nonce /\ y.key.p = x.s.peernonce
            /\ y.key.bonded = WantBonding(x.s)
        BY <2>2 DEF NewKey
      <4>5. WantBonding(x.s) = WantBonding(sm["peripheral"])
        <5>1. /\ x.s.own \in BOOLEAN /\ x.s.peer \in BOOLEAN
          BY DEF CentralBegins, Handler, Machine
        <5> QED BY <4>1, <4>2, <5>1 DEF WantBonding
      <4> QED BY <4>1, <4>3, <4>4, <4>5
    <3> QED
      BY <1>5, <1>17, <1>29, <3>9, <3>10, <3>11, <3>12 DEF Agreed, WantBonding
  <2>3. \A k \in CentralKeys' : k \in CentralKeys \/ k = NoKey \/ k = y.key
    BY <1>4, <1>5, <1>6, <1>15 DEF CentralKeys
  <2>4. x.key \in CentralKeys BY <1>4 DEF CentralKeys
  <2> SUFFICES ASSUME NEW k \in CentralKeys', k.link = link
               PROVE Agreed(k)'
    BY <1>6 DEF Shared
  <2>5. k # NoKey BY <1>7, NoKeyFields
  <2>6. CASE k \in CentralKeys BY <2>1, <2>6
  <2>7. CASE k = y.key /\ y.key # x.key BY <1>14, <2>2, <2>7
  <2> QED BY <2>3, <2>4, <2>5, <2>6, <2>7
<1>31. ChecksOK'
  <2>1. ASSUME NEW v, Proved(v) PROVE Proved(v)'
    <3>1. ~Unmet("central") /\ ~Absent("central")
      BY <1>4, <2>1 DEF Proved, Unmet
    <3>2. y.s.own = sm["central"].own
      BY <1>4, <1>8, <3>1 DEF CentralRun
    <3> QED BY <2>1, <1>5, <1>7, <1>16, <1>17, <1>29, <3>1, <3>2 DEF Proved
  <2> QED BY <1>3, <1>5, <2>1 DEF ChecksOK
<1>32. FlagsOK'
  <2>1. Begun => ~Absent("central") /\ y.s.own = sm["central"].own
    BY <1>2, <1>4, <1>8 DEF BothBegun, Unmet, CentralRun
  <2>2. ASSUME NEW m \in Elems(wire'["peripheral"]), m.k = "request"
        PROVE m.v = <<Flag(y.s.own)>>
    <3>1. CASE m \in Elems(y.out) BY <1>8, <2>2, <3>1 DEF CentralRun
    <3>2. CASE m \in Elems(wire["peripheral"])
      <4>1. Begun BY <2>2, <3>2 DEF Begun
      <4> QED BY <1>3, <2>1, <2>2, <3>2, <4>1 DEF FlagsOK
    <3> QED BY <1>5, <3>1, <3>2
  <2>3. sm["peripheral"].step \in Mid \cup {"link_encrypted"}
          => sm["peripheral"].peer = y.s.own
    <3>1. sm["peripheral"].step \in Mid \cup {"link_encrypted"} => Begun
      BY DEF Begun
    <3> QED BY <1>3, <2>1, <3>1 DEF FlagsOK
  <2>4. ASSUME y.s.step \in CentralKnows
        PROVE /\ Met("peripheral")
              /\ ~Absent("peripheral") => y.s.peer = sm["peripheral"].own
    <3>1. /\ x.s.step \in CentralKnows \cup {"response"}
          /\ IF x.s.step = "response"
             THEN HeardFlag("central", "response", y.s.peer)
             ELSE y.s.peer = x.s.peer
      BY <1>8, <2>4 DEF CentralRun
    <3>2. x.s = sm["central"] /\ ~Absent("central")
      BY <1>11, <3>1 DEF CentralKnows, CentralEarly
    <3>3. CASE x.s.step = "response"
      <4>1. PICK m \in Elems(wire["central"]) :
              m.k = "response" /\ y.s.peer = (m.v = <<1>>)
        BY <3>1, <3>3 DEF HeardFlag
      <4>2. /\ Met("peripheral")
            /\ ~Absent("peripheral") => m.v = <<Flag(sm["peripheral"].own)>>
        BY <1>3, <4>1 DEF FlagsOK
      <4>3. sm["peripheral"].own \in BOOLEAN
        BY <1>1, <1>7 DEF TypeOK, Machine
      <4>4. sm["peripheral"].own = (<<Flag(sm["peripheral"].own)>> = <<1>>)
        BY <4>3 DEF Flag
      <4> QED BY <4>1, <4>2, <4>4
    <3>4. CASE x.s.step # "response"
      BY <1>3, <3>1, <3>2, <3>4 DEF FlagsOK
    <3> QED BY <3>3, <3>4
  <2> QED BY <1>3, <1>5, <1>16, <1>17, <2>2, <2>3, <2>4 DEF FlagsOK
<1>33. Asked'
  <2>1. /\ Fits(sm["central"].step)' /\ Fits(sm["peripheral"].step)'
    <3>1. Fits(y.s.step) BY <1>8 DEF CentralRun
    <3>2. Fits(sm["peripheral"].step) BY <1>3, <1>7 DEF Asked
    <3> QED BY <1>5, <1>7, <3>1, <3>2 DEF Fits
  <2>2. "confirm" \in Elems(y.app) \cup {prompt'["central"]} => Method = "numeric"
    <3>1. Elems(y.app) \subseteq Elems(x.app) \cup Notes BY <1>8 DEF CentralRun
    <3> QED BY <1>3, <1>4, <1>5, <1>7, <3>1 DEF Asked, Notes
  <2>3. Passkey /\ y.s.step \in CentralTold => y.seen = y.s.secret + 1
    <3> SUFFICES ASSUME Passkey, y.s.step \in CentralTold
                 PROVE y.seen = y.s.secret + 1
      OBVIOUS
    <3>1. IF x.s.step \in CentralTold
          THEN y.s.secret = x.s.secret /\ y.seen = x.seen
          ELSE y.seen = y.s.secret + 1
      BY <1>8 DEF CentralRun
    <3>2. x.s.step \in CentralTold => x.seen = x.s.secret + 1
      BY <1>3, <1>4, <1>7, <1>11 DEF Asked, Told, CentralTold
    <3> QED BY <3>1, <3>2
  <2>4. Method = "numeric" /\ y.s.step \in Proving => y.seen = 1
    <3> SUFFICES ASSUME Method = "numeric", y.s.step \in Proving
                 PROVE y.seen = 1
      OBVIOUS
    <3>1. y.s.step = "dhkey_eb"
      BY <1>9 DEF Proving, Later, CentralEarly, CentralLate
    <3>2. x.s.step = "dhkey_eb" \/ y.seen = 1 BY <3>1 DEF CentralEnd
    <3>3. x.s.step = "dhkey_eb" => x.seen = 1
      BY <1>3, <1>4, <1>7, <1>11 DEF Asked, Proving
    <3>4. x.s.step = "dhkey_eb" => y.seen = x.seen \/ y.seen = 1
      BY <1>8 DEF CentralRun
    <3> QED BY <3>2, <3>3, <3>4
  <2>5. Told("central")' = CentralTold /\ Told("peripheral")' = PeripheralTold
        /\ Told("central") = CentralTold /\ Told("peripheral") = PeripheralTold
    BY DEF Told
  <2>6. /\ "confirm" \in Elems(app'["peripheral"]) \cup {prompt'["peripheral"]}
             => Method = "numeric"
        /\ Passkey /\ sm'["peripheral"].step \in PeripheralTold
             => answer'["peripheral"] = sm'["peripheral"].secret + 1
        /\ Method = "numeric" /\ sm'["peripheral"].step \in Proving
             => answer'["peripheral"] = 1
    BY <1>3, <1>5, <1>7, <2>5 DEF Asked
  <2> QED BY <1>5, <1>7, <2>1, <2>2, <2>3, <2>4, <2>5, <2>6 DEF Asked
<1>34. LevelOK'
  <2>1. CASE level' = level BY <1>3, <1>6, <2>1 DEF LevelOK
  <2>2. CASE "central" \in due
             /\ level' = [level EXCEPT !["central"] = SecurityLevel(y.s)]
    <3>1. cipher # NoKey BY <1>1, <2>2 DEF Once
    <3>2. \A e \in Ends : level'[e] = IF e = "central" THEN SecurityLevel(y.s)
                                      ELSE level[e]
      BY <1>1, <2>2 DEF TypeOK
    <3>3. y.s.step = "success" => y.s.bond = cipher
      <4> SUFFICES ASSUME y.s.step = "success" PROVE y.s.bond = cipher OBVIOUS
      <4>1. x.s.step \in CentralLate
        BY <1>8 DEF CentralRun, Encrypting, CentralLate
      <4>2. x.s = sm["central"] BY <1>11, <4>1 DEF CentralLate
      <4> QED BY <1>1, <1>13, <3>1, <4>1, <4>2 DEF Settled
    <3> QED BY <1>3, <1>6, <3>1, <3>2, <3>3 DEF LevelOK, SecurityLevel
  <2> QED BY <1>6, <2>1, <2>2
<1>35. NoLtk' BY <1>3, <1>4, <1>5, <1>8 DEF NoLtk, CentralRun
<1>36. /\ Unasked' /\ BothBegun' /\ SameLtk' /\ Finishing' /\ Resumed' /\ Shared'
       /\ ChecksOK' /\ FlagsOK' /\ Asked' /\ LevelOK' /\ NoLtk'
  BY <1>24, <1>25, <1>26, <1>27, <1>28, <1>30, <1>31, <1>32, <1>33, <1>34, <1>35
<1> QED BY <1>18, <1>19, <1>20, <1>21, <1>22, <1>23, <1>36 DEF IInv

(* The keys of the peripheral that differ in nothing it has proved. *)
LEMMA SameOwnKey ==
  ASSUME NEW s, NEW t, SameSecrets(s, t)
  PROVE /\ OwnKey(t) = OwnKey(s) /\ Proof(t) = Proof(s)
        /\ WantBonding(t) = WantBonding(s)
<1>1. WantBonding(t) = WantBonding(s) BY DEF SameSecrets, WantBonding
<1> QED BY <1>1 DEF SameSecrets, OwnKey, NewKey, Proof

(* A handler of the peripheral. *)
LEMMA ByPeripheral ==
  ASSUME IInv, TypeOK', NEW x, NEW y,
         Host("peripheral", x, y), PeripheralBegins(x), PeripheralEnd(x, y),
         x.s.step = "pairing_request" /\ y.s.step = "success"
           => "peripheral" \in due
  PROVE IInv'
<1>1. TypeOK /\ StepsOK /\ Left /\ KeysOK /\ Once /\ Unsettled /\ Settled
  BY DEF IInv
<1>2. Unasked /\ BothBegun /\ SameLtk /\ Finishing /\ Resumed /\ Shared
  BY DEF IInv
<1>3. ChecksOK /\ FlagsOK /\ Asked /\ LevelOK /\ NoLtk BY DEF IInv
<1>4. /\ slot["peripheral"] # "down" /\ slot'["peripheral"] # "down"
      /\ slot'["central"] = slot["central"]
      /\ x.key = bonds["peripheral"] /\ x.app = app["peripheral"]
      /\ x.seen = answer["peripheral"]
      /\ IF Absent("peripheral")
         THEN x.s.step = "pairing_request" /\ x.s.bond = NoKey
         ELSE x.s = sm["peripheral"]
  <2>1. TRUE \in BOOLEAN /\ "peripheral" \in Ends BY DEF Ends
  <2>2. Fresh("peripheral").step = "pairing_request" BY <2>1, FreshType
  <2> QED BY <2>2 DEF Host, Other
<1>5. /\ sm'["peripheral"] = y.s /\ sm'["central"] = sm["central"]
      /\ bonds'["peripheral"] = y.key /\ bonds'["central"] = bonds["central"]
      /\ events'["central"] = events["central"]
      /\ app'["peripheral"] = y.app /\ app'["central"] = app["central"]
      /\ answer'["peripheral"] = y.seen
      /\ answer'["central"] = answer["central"]
      /\ prompt'["peripheral"] \in {prompt["peripheral"], "none"}
      /\ prompt'["central"] = prompt["central"]
      /\ Elems(wire'["peripheral"]) \subseteq Elems(wire["peripheral"])
      /\ Elems(wire'["central"]) \subseteq
           Elems(wire["central"]) \cup Elems(y.out)
      /\ ~air => Elems(wire'["central"]) = Elems(wire["central"])
  BY DEF Host, Other
<1>6. /\ UNCHANGED <<start, air, link, proc, cipher>> /\ due' \subseteq due
      /\ \/ level' = level
         \/ "peripheral" \in due
            /\ level' = [level EXCEPT !["peripheral"] = SecurityLevel(y.s)]
  BY DEF Host
<1>7. /\ Method' = Method /\ (Passkey' <=> Passkey) /\ Level' = Level
      /\ link \in Nat /\ link > 0 /\ Ends = {"central", "peripheral"}
  BY <1>1, <1>4, <1>6, MethodKept, LinkUp DEF Ends
<1>8. PeripheralRun(x, y) BY DEF PeripheralEnd
<1>9. /\ y.s.step \in {"pairing_request"} \cup Mid \cup Closing
      /\ x.s.step \in {"pairing_request"} \cup Mid \cup Closing
      /\ y.s.step # "absent"
  BY <1>8 DEF PeripheralRun, PeripheralBegins, Mid, Closing
<1>10. x.s.step # "pairing_request" => ~Absent("peripheral")
                                       /\ x.s = sm["peripheral"]
  BY <1>4
<1>11. x.s.step = "pairing_request" =>
         /\ sm["peripheral"].step \in {"absent", "pairing_request"}
         /\ bonds["peripheral"].link # link
  BY <1>2, <1>4 DEF Unasked, Absent
<1>12. x.s.step = "pairing_request" => x.s.bond = NoKey
  BY DEF PeripheralBegins
<1>13. x.s.step \in Frozen => SameSecrets(x.s, y.s)
  BY <1>8 DEF PeripheralRun
<1>14. y.key = x.key
       \/ /\ y.key = OwnKey(x.s) /\ x.s.step \in {"result", "dhkey_ea"}
  BY <1>8 DEF PeripheralRun, OwnKey
<1>15. y.s.bond \in {x.s.bond, y.key} BY <1>8 DEF PeripheralRun
<1>16. ~Unmet("peripheral")' /\ ~Absent("peripheral")'
  BY <1>5, <1>9 DEF Unmet, Absent
<1>17. /\ (Absent("central")' <=> Absent("central"))
       /\ (Unmet("central")' <=> Unmet("central"))
  BY <1>4, <1>5 DEF Absent, Unmet
<1>18. StepsOK' BY <1>1, <1>5, <1>9 DEF StepsOK
<1>19. Left'
  <2>1. level'["central"] = level["central"]
    BY <1>1, <1>6, <1>7 DEF TypeOK
  <2>2. slot["central"] = "down" => ~air BY <1>1, <1>7 DEF Left
  <2>3. Absent("central") => sm["central"] = None BY <1>1, <1>7 DEF Left
  <2>4. slot["central"] = "down" =>
           /\ ~air' /\ Elems(wire'["central"]) = {}
           /\ sm'["central"] = None /\ level'["central"] = "none"
           /\ bonds'["central"] = NoKey \/ bonds'["central"].bonded
    BY <1>1, <1>5, <1>6, <1>7, <2>1, <2>2 DEF Left
  <2>5. \A e \in Ends : Absent(e)' => sm'[e] = None
    BY <1>5, <1>7, <1>16, <1>17, <2>3
  <2>6. \A e \in Ends : slot'[e] = "down" => e = "central"
                                             /\ slot["central"] = "down"
    BY <1>4, <1>7
  <2>7. \A e \in Ends : slot'[e] # "down" => link' > 0 BY <1>6, <1>7
  <2> QED BY <2>4, <2>5, <2>6, <2>7 DEF Left
<1>20. KeysOK'
  <2>1. KeyOK(OwnKey(x.s)) BY <1>7 DEF KeyOK, OwnKey, NewKey
  <2>2. KeyOK(x.key) /\ KeyOK(x.s.bond)
    BY <1>1, <1>4, <1>7 DEF KeysOK, KeyOK
  <2>3. KeyOK(y.key) /\ KeyOK(y.s.bond) BY <1>14, <1>15, <2>1, <2>2
  <2>4. \A e \in Ends : KeyOK(bonds'[e]) /\ KeyOK(sm'[e].bond)
    BY <1>1, <1>5, <1>7, <2>3 DEF KeysOK
  <2>5. KeyOK(proc.key) /\ KeyOK(cipher) BY <1>1 DEF KeysOK
  <2> QED BY <1>6, <1>7, <2>4, <2>5 DEF KeysOK, KeyOK
<1>21. Once' BY <1>1, <1>5, <1>6 DEF Once
<1>22. Unsettled' BY <1>1, <1>4, <1>5, <1>6, <1>17 DEF Unsettled
<1>23. Settled' BY <1>1, <1>5, <1>6 DEF Settled
<1>24. Unasked'
  <2> SUFFICES ASSUME y.s.step = "pairing_request"
               PROVE y.s.bond = NoKey /\ y.key.link # link
    BY <1>5, <1>6, <1>9 DEF Unasked
  <2>1. x.s.step = "pairing_request" /\ y.s.bond = x.s.bond
    BY <1>8 DEF PeripheralRun
  <2> QED BY <1>4, <1>11, <1>12, <1>14, <2>1
<1>25. Begun' => Begun
  <2>1. CentralKeys' = CentralKeys BY <1>5, <1>6 DEF CentralKeys
  <2>2. CASE y.s.step \in Mid
    <3>1. CASE x.s.step \in Mid
      BY <1>10, <3>1 DEF Begun, Mid
    <3>2. CASE x.s.step = "pairing_request"
      <4>1. PICK m \in Elems(wire["peripheral"]) : m.k = "request"
        BY <1>8, <2>2, <3>2 DEF PeripheralRun, HeardFlag
      <4> QED BY <4>1 DEF Begun
    <3> QED BY <1>8, <2>2, <3>1, <3>2 DEF PeripheralRun
  <2>3. CASE y.s.step = "link_encrypted"
    <3>1. x.s.step \in {"link_encrypted", "result", "dhkey_ea"}
      BY <1>8, <2>3 DEF PeripheralRun
    <3> QED BY <1>10, <3>1 DEF Begun, Mid
  <2>4. CASE y.s.step = "success" /\ y.s.bond.link = link
    <3>1. \/ x.s.step \in {"link_encrypted", "success"} /\ y.s.bond = x.s.bond
          \/ x.s.step = "pairing_request" /\ y.s.bond = x.key
      BY <1>8, <2>4 DEF PeripheralRun
    <3> QED BY <1>4, <1>10, <1>11, <2>4, <3>1 DEF Begun
  <2>5. CASE \E m \in Elems(wire'["peripheral"]) : m.k # "failed"
    BY <1>5, <2>5 DEF Begun
  <2> QED BY <1>5, <1>6, <2>2, <2>3, <2>4, <2>5 DEF Begun
<1>26. BothBegun'
  <2>1. CentralKeys' = CentralKeys BY <1>5, <1>6 DEF CentralKeys
  <2> QED BY <1>2, <1>6, <1>17, <1>25, <2>1 DEF BothBegun
<1>27. SameLtk'
  <2> SUFFICES ASSUME "peripheral" \in due
               PROVE y.key = NoKey \/ Ltk(y.key) = Ltk(cipher)
    BY <1>5, <1>6 DEF SameLtk
  <2>1. CASE y.key = x.key BY <1>2, <1>4, <2>1 DEF SameLtk
  <2>2. CASE y.key = OwnKey(x.s) /\ x.s.step \in {"result", "dhkey_ea"}
    <3>1. Begun BY <1>10, <2>2 DEF Begun, Mid
    <3>2. cipher \in CentralKeys /\ cipher # NoKey
      BY <1>1 DEF CentralKeys, Once
    <3>3. cipher.link = link BY <1>2, <3>1, <3>2 DEF BothBegun
    <3>4. Agreed(cipher) BY <1>2, <1>7, <3>2, <3>3 DEF Shared
    <3>5. /\ x.s = sm["peripheral"] /\ ~Absent("peripheral")
      BY <1>10, <2>2
    <3>6. cipher.c = x.s.peernonce /\ cipher.p = x.s.nonce
      BY <3>4, <3>5 DEF Agreed
    <3> QED BY <2>2, <3>3, <3>6 DEF OwnKey, NewKey, Ltk
  <2> QED BY <1>14, <2>1, <2>2
<1>28. y.s.step = "link_encrypted" => y.s.bond = OwnKey(y.s)
  <2> SUFFICES ASSUME y.s.step = "link_encrypted"
               PROVE y.s.bond = OwnKey(y.s)
    OBVIOUS
  <2>1. CASE x.s.step = "link_encrypted"
    <3>1. y.s.bond = x.s.bond BY <1>8, <2>1 DEF PeripheralRun, Closing
    <3>2. x.s.bond = OwnKey(x.s) BY <1>2, <1>10, <2>1 DEF Finishing
    <3>3. SameSecrets(x.s, y.s) BY <1>13, <2>1 DEF Frozen, Closing
    <3> QED BY <3>1, <3>2, <3>3, SameOwnKey
  <2>2. CASE x.s.step # "link_encrypted"
    <3>1. y.s.bond = OwnKey(x.s) /\ x.s.step \in {"result", "dhkey_ea"}
      BY <1>8, <2>2 DEF PeripheralRun, OwnKey
    <3>2. SameSecrets(x.s, y.s) BY <1>13, <3>1 DEF Frozen
    <3> QED BY <3>1, <3>2, SameOwnKey
  <2> QED BY <2>1, <2>2
<1>30. Finishing'
  BY <1>5, <1>6, <1>7, <1>28 DEF Finishing, OwnKey, NewKey
<1>31. Resumed'
  <2> SUFFICES ASSUME y.s.step = "success", y.s.bond # NoKey,
                      y.s.bond.link # link
               PROVE cipher # NoKey /\ Ltk(y.s.bond) = Ltk(cipher)
    BY <1>5, <1>6 DEF Resumed
  <2>1. \/ x.s.step \in {"link_encrypted", "success"} /\ y.s.bond = x.s.bond
        \/ x.s.step = "pairing_request" /\ y.s.bond = x.key
    BY <1>8 DEF PeripheralRun
  <2>2. CASE x.s.step = "link_encrypted" /\ y.s.bond = x.s.bond
    <3>1. x.s.bond = OwnKey(x.s) BY <1>2, <1>10, <2>2 DEF Finishing
    <3> QED BY <2>2, <3>1 DEF OwnKey, NewKey
  <2>3. CASE x.s.step = "success" /\ y.s.bond = x.s.bond
    BY <1>2, <1>10, <2>3 DEF Resumed
  <2>4. CASE x.s.step = "pairing_request" /\ y.s.bond = x.key
    BY <1>1, <1>2, <1>4, <2>4 DEF SameLtk, Once
  <2> QED BY <2>1, <2>2, <2>3, <2>4
<1>32. \A s : Committed(s)' <=> Committed(s)
  BY <1>6, <1>7 DEF Committed, OwnKey, NewKey
<1>33. ASSUME ~Absent("peripheral"), Committed(sm["peripheral"])
       PROVE /\ Committed(y.s) /\ x.s = sm["peripheral"]
             /\ x.s.step \in Frozen
             /\ SameSecrets(sm["peripheral"], y.s)
  <2>1. x.s = sm["peripheral"] BY <1>4, <1>33
  <2>2. HasSent(x.s) BY <1>33, <2>1 DEF Committed
  <2>3. x.s.step \in Frozen BY <2>2 DEF HasSent, Frozen
  <2>4. SameSecrets(x.s, y.s) BY <1>13, <2>3
  <2>5. HasSent(y.s) BY <1>8, <2>2 DEF PeripheralRun
  <2>6. y.s.step = "success" => y.s.bond = OwnKey(y.s)
    <3> SUFFICES ASSUME y.s.step = "success" PROVE y.s.bond = OwnKey(y.s)
      OBVIOUS
    <3>1. x.s.step \in {"link_encrypted", "success"} /\ y.s.bond = x.s.bond
      BY <1>8, <2>3 DEF PeripheralRun, Frozen, Closing
    <3>2. x.s.bond = OwnKey(x.s) BY <1>33, <2>1, <3>1 DEF Committed
    <3> QED BY <2>4, <3>1, <3>2, SameOwnKey
  <2> QED BY <1>28, <2>1, <2>3, <2>4, <2>5, <2>6 DEF Committed
<1>34. ASSUME NEW k \in CentralKeys, k.link = link PROVE Agreed(k)'
  <2>1. Agreed(k) BY <1>2, <1>7, <1>34 DEF Shared
  <2>2. ~Absent("peripheral") BY <1>4, <2>1 DEF Agreed, Unmet
  <2>3. /\ k.c = sm["peripheral"].peernonce
        /\ k.p = sm["peripheral"].nonce
        /\ k.bonded = WantBonding(sm["peripheral"])
        /\ Committed(sm["peripheral"])
    BY <2>1, <2>2 DEF Agreed
  <2>4. /\ Committed(y.s) /\ x.s.step \in Frozen
        /\ SameSecrets(sm["peripheral"], y.s)
    BY <1>33, <2>2, <2>3
  <2>5. WantBonding(y.s) = WantBonding(sm["peripheral"])
    BY <2>4, SameOwnKey
  <2>6. y.seen = x.seen \/ (Method = "numeric" /\ y.seen = 1)
    BY <1>8, <2>4 DEF PeripheralRun
  <2>7. /\ Method = "numeric" => answer'["central"] = 1 /\ y.seen = 1
        /\ Passkey => answer'["central"] = y.seen /\ answer'["central"] # 0
    BY <1>4, <1>5, <2>1, <2>6, MethodKinds DEF Agreed
  <2>8. /\ k.c = y.s.peernonce /\ k.p = y.s.nonce
        /\ k.bonded = WantBonding(y.s)
    BY <2>3, <2>4, <2>5 DEF SameSecrets
  <2> QED BY <1>5, <1>7, <1>16, <1>32, <2>4, <2>7, <2>8 DEF Agreed, WantBonding
<1>35. Shared'
  <2>1. CentralKeys' = CentralKeys BY <1>5, <1>6 DEF CentralKeys
  <2> QED BY <1>6, <1>34, <2>1 DEF Shared
<1>36. ChecksOK'
  <2>1. ASSUME NEW v, Proved(v) PROVE Proved(v)'
    <3>1. ~Absent("peripheral") BY <1>4, <2>1 DEF Proved, Unmet
    <3>2. /\ v = Proof(sm["peripheral"]) /\ Committed(sm["peripheral"])
          /\ ~Absent("central") => sm["peripheral"].peer = sm["central"].own
      BY <2>1, <3>1 DEF Proved
    <3>3. /\ Committed(y.s) /\ x.s.step \in Frozen
          /\ SameSecrets(sm["peripheral"], y.s)
      BY <1>33, <3>1, <3>2
    <3>4. Proof(y.s) = v /\ y.s.peer = sm["peripheral"].peer
      BY <3>2, <3>3, SameOwnKey DEF SameSecrets
    <3>5. y.seen = x.seen \/ (Method = "numeric" /\ y.seen = 1)
      BY <1>8, <3>3 DEF PeripheralRun
    <3>6. /\ Method = "numeric" => y.seen = 1
          /\ Passkey => y.seen = v[3] + 1
      BY <1>4, <2>1, <3>5, MethodKinds DEF Proved
    <3>7. ~Unmet("central") BY <2>1 DEF Proved
    <3> QED BY <1>5, <1>7, <1>16, <1>17, <1>32, <3>2, <3>3, <3>4, <3>6, <3>7
            DEF Proved
  <2>2. ASSUME NEW m \in Elems(y.out), m.k = "dhkey" PROVE Proved(m.v)'
    <3>1. /\ x.s.step \in {"result", "dhkey_ea"}
          /\ m.v = Proof(x.s)
      BY <1>8, <2>2 DEF PeripheralRun
    <3>2. Proves(y) BY <2>2 DEF Proves
    <3>3. HasSent(y.s) BY <3>2 DEF PeripheralEnd
    <3>4. /\ x.s = sm["peripheral"] /\ SameSecrets(x.s, y.s)
      BY <1>10, <1>13, <3>1 DEF Frozen
    <3>5. Proof(y.s) = m.v /\ y.s.peer = x.s.peer
      BY <3>1, <3>4, SameOwnKey DEF SameSecrets
    <3>6. y.s.step # "success" BY <1>8, <3>1 DEF PeripheralRun
    <3>7. Committed(y.s) BY <1>28, <3>3, <3>6 DEF Committed
    <3>8. Begun BY <3>1, <3>4 DEF Begun, Mid
    <3>9. ~Unmet("central") BY <1>2, <3>8 DEF BothBegun
    <3>10. ~Absent("central") => y.s.peer = sm["central"].own
      BY <1>3, <3>1, <3>4, <3>5 DEF FlagsOK, Mid
    <3>11. y.seen = x.seen \/ (Method = "numeric" /\ y.seen = 1)
      BY <1>8, <3>1 DEF PeripheralRun, Frozen
    <3>12. Method = "numeric" => y.seen = 1
      <4>1. Method = "numeric" => x.s.step = "dhkey_ea" \/ y.seen = 1
        BY <3>2 DEF PeripheralEnd
      <4>2. Method = "numeric" /\ x.s.step = "dhkey_ea" => x.seen = 1
        BY <1>3, <1>4, <1>7, <3>4 DEF Asked, Proving
      <4> QED BY <3>11, <4>1, <4>2
    <3>13. Passkey => y.seen = m.v[3] + 1
      <4> SUFFICES ASSUME Passkey PROVE y.seen = m.v[3] + 1 OBVIOUS
      <4>1. x.s.step = "dhkey_ea"
        BY <3>1, MethodKinds DEF PeripheralBegins, Fits
      <4>2. x.seen = x.s.secret + 1
        BY <1>3, <1>4, <1>7, <3>4, <4>1 DEF Asked, Told, PeripheralTold
      <4>3. m.v[3] = x.s.secret BY <3>1 DEF Proof
      <4> QED BY <3>11, <4>2, <4>3, MethodKinds
    <3> QED BY <1>5, <1>7, <1>16, <1>17, <1>32, <3>5, <3>7, <3>9, <3>10, <3>12,
               <3>13 DEF Proved
  <2> QED BY <1>3, <1>5, <2>1, <2>2 DEF ChecksOK
<1>37. FlagsOK'
  <2>1. y.s.step \in Mid \cup {"link_encrypted"} /\ ~Absent("central")
          => y.s.peer = sm["central"].own
    <3> SUFFICES ASSUME y.s.step \in Mid \cup {"link_encrypted"},
                        ~Absent("central")
                 PROVE y.s.peer = sm["central"].own
      OBVIOUS
    <3>1. CASE x.s.step = "pairing_request"
      <4>1. y.s.step \in Mid BY <1>8, <3>1 DEF PeripheralRun, Closing, Mid
      <4>2. PICK m \in Elems(wire["peripheral"]) :
              m.k = "request" /\ y.s.peer = (m.v = <<1>>)
        BY <1>8, <3>1, <4>1 DEF PeripheralRun, HeardFlag
      <4>3. m.v = <<Flag(sm["central"].own)>> BY <1>3, <4>2 DEF FlagsOK
      <4>4. sm["central"].own \in BOOLEAN BY <1>1, <1>7 DEF TypeOK, Machine
      <4>5. sm["central"].own = (<<Flag(sm["central"].own)>> = <<1>>)
        BY <4>4 DEF Flag
      <4> QED BY <4>2, <4>3, <4>5
    <3>2. CASE x.s.step # "pairing_request"
      <4>1. x.s.step \in Mid \cup {"link_encrypted"}
        BY <1>8, <1>9, <3>2 DEF PeripheralRun, Mid, Closing
      <4>2. y.s.peer = x.s.peer /\ x.s = sm["peripheral"]
        BY <1>8, <1>10, <3>2 DEF PeripheralRun
      <4> QED BY <1>3, <4>1, <4>2 DEF FlagsOK
    <3> QED BY <3>1, <3>2
  <2>2. Met("peripheral") =>
          /\ ~Absent("peripheral") /\ y.s.own = sm["peripheral"].own
          /\ y.s.step # "pairing_request"
    <3> SUFFICES ASSUME Met("peripheral")
                 PROVE /\ ~Absent("peripheral")
                       /\ y.s.own = sm["peripheral"].own
                       /\ y.s.step # "pairing_request"
      OBVIOUS
    <3>1. ~Absent("peripheral") /\ x.s = sm["peripheral"]
          /\ x.s.step # "pairing_request"
      BY <1>4 DEF Met, Unmet
    <3> QED BY <1>8, <3>1 DEF PeripheralRun
  <2>3. Met("peripheral") => Met("peripheral")'
    BY <1>5, <1>16, <2>2 DEF Met
  <2>4. ASSUME NEW m \in Elems(wire'["central"]), m.k = "response"
        PROVE Met("peripheral")' /\ m.v = <<Flag(y.s.own)>>
    <3>1. CASE m \in Elems(wire["central"])
      BY <1>3, <2>2, <2>3, <2>4, <3>1 DEF FlagsOK
    <3>2. CASE m \in Elems(y.out)
      <4>1. y.s.step = "public_key" /\ m.v = <<Flag(y.s.own)>>
        BY <1>8, <2>4, <3>2 DEF PeripheralRun
      <4> QED BY <1>5, <1>16, <4>1 DEF Met
    <3> QED BY <1>5, <3>1, <3>2
  <2>5. sm["central"].step \in CentralKnows =>
          Met("peripheral")' /\ sm["central"].peer = y.s.own
    BY <1>3, <2>2, <2>3 DEF FlagsOK
  <2>6. \A m \in Elems(wire'["peripheral"]) :
          m.k = "request" /\ ~Absent("central")
            => m.v = <<Flag(sm["central"].own)>>
    BY <1>3, <1>5 DEF FlagsOK
  <2> QED BY <1>5, <1>17, <2>1, <2>4, <2>5, <2>6 DEF FlagsOK
<1>38. Asked'
  <2>1. /\ Fits(sm["central"].step)' /\ Fits(sm["peripheral"].step)'
    <3>1. Fits(y.s.step) BY <1>8 DEF PeripheralRun
    <3>2. Fits(sm["central"].step) BY <1>3, <1>7 DEF Asked
    <3> QED BY <1>5, <1>7, <3>1, <3>2 DEF Fits
  <2>2. "confirm" \in Elems(y.app) \cup {prompt'["peripheral"]}
          => Method = "numeric"
    <3>1. Elems(y.app) \subseteq Elems(x.app) \cup Notes
      BY <1>8 DEF PeripheralRun
    <3> QED BY <1>3, <1>4, <1>5, <1>7, <3>1 DEF Asked, Notes
  <2>3. Passkey /\ y.s.step \in PeripheralTold => y.seen = y.s.secret + 1
    <3> SUFFICES ASSUME Passkey, y.s.step \in PeripheralTold
                 PROVE y.seen = y.s.secret + 1
      OBVIOUS
    <3>1. IF x.s.step \in PeripheralTold
          THEN y.s.secret = x.s.secret /\ y.seen = x.seen
          ELSE y.seen = y.s.secret + 1
      BY <1>8 DEF PeripheralRun
    <3>2. x.s.step \in PeripheralTold => x.seen = x.s.secret + 1
      BY <1>3, <1>4, <1>7, <1>10 DEF Asked, Told, PeripheralTold
    <3> QED BY <3>1, <3>2
  <2>4. Method = "numeric" /\ y.s.step \in Proving => y.seen = 1
    <3> SUFFICES ASSUME Method = "numeric", y.s.step \in Proving
                 PROVE y.seen = 1
      OBVIOUS
    <3>1. y.s.step = "dhkey_ea"
      BY <1>9 DEF Proving, Mid, Closing
    <3>2. x.s.step = "dhkey_ea" \/ y.seen = 1 BY <3>1 DEF PeripheralEnd
    <3>3. x.s.step = "dhkey_ea" => x.seen = 1
      BY <1>3, <1>4, <1>7, <1>10 DEF Asked, Proving
    <3>4. x.s.step = "dhkey_ea" => y.seen = x.seen \/ y.seen = 1
      BY <1>8 DEF PeripheralRun, Frozen
    <3> QED BY <3>2, <3>3, <3>4
  <2>5. Told("central")' = CentralTold /\ Told("peripheral")' = PeripheralTold
        /\ Told("central") = CentralTold /\ Told("peripheral") = PeripheralTold
    BY DEF Told
  <2>6. /\ "confirm" \in Elems(app'["central"]) \cup {prompt'["central"]}
             => Method = "numeric"
        /\ Passkey /\ sm'["central"].step \in CentralTold
             => answer'["central"] = sm'["central"].secret + 1
        /\ Method = "numeric" /\ sm'["central"].step \in Proving
             => answer'["central"] = 1
    BY <1>3, <1>5, <1>7, <2>5 DEF Asked
  <2> QED BY <1>5, <1>7, <2>1, <2>2, <2>3, <2>4, <2>5, <2>6 DEF Asked
<1>39. LevelOK'
  <2>1. CASE level' = level BY <1>3, <1>6, <2>1 DEF LevelOK
  <2>2. CASE "peripheral" \in due
             /\ level' = [level EXCEPT !["peripheral"] = SecurityLevel(y.s)]
    <3>1. cipher # NoKey BY <1>1, <2>2 DEF Once
    <3>2. \A e \in Ends : level'[e] = IF e = "peripheral"
                                      THEN SecurityLevel(y.s) ELSE level[e]
      BY <1>1, <2>2 DEF TypeOK
    <3>3. y.s.step = "success" => y.s.bond = NoKey \/ y.s.bond.level = cipher.level
      <4> SUFFICES ASSUME y.s.step = "success", y.s.bond # NoKey
                   PROVE y.s.bond.level = cipher.level
        OBVIOUS
      <4>1. KeyOK(y.s.bond)' /\ KeyOK(cipher)'
        BY <1>5, <1>6, <1>7, <1>20 DEF KeysOK
      <4>2. KeyOK(y.s.bond) /\ KeyOK(cipher)
        BY <1>6, <1>7, <4>1 DEF KeyOK
      <4>3. CASE y.s.bond.link = link
        <5>1. Begun' BY <1>5, <1>6, <4>3 DEF Begun
        <5>2. cipher.link = link
          BY <1>6, <1>26, <3>1, <5>1 DEF BothBegun, CentralKeys
        <5> QED BY <1>7, <3>1, <4>2, <4>3, <5>2 DEF KeyOK
      <4>4. CASE y.s.bond.link # link
        <5>1. Ltk(y.s.bond) = Ltk(cipher)
          BY <1>5, <1>6, <1>31, <4>4 DEF Resumed
        <5> QED BY <3>1, <4>2, <5>1, SameLevel
      <4> QED BY <4>3, <4>4
    <3> QED BY <1>3, <1>6, <3>1, <3>2, <3>3, NoKeyFields DEF LevelOK, SecurityLevel
  <2> QED BY <1>6, <2>1, <2>2
<1>40. NoLtk' BY <1>3, <1>5 DEF NoLtk
<1>41. /\ Unasked' /\ BothBegun' /\ SameLtk' /\ Finishing' /\ Resumed' /\ Shared'
       /\ ChecksOK' /\ FlagsOK' /\ Asked' /\ LevelOK' /\ NoLtk'
  BY <1>24, <1>26, <1>27, <1>30, <1>31, <1>35, <1>36, <1>37, <1>38, <1>39, <1>40
<1> QED BY <1>18, <1>19, <1>20, <1>21, <1>22, <1>23, <1>41 DEF IInv

----------------------------------------------------------------------------
(* The invariant holds at first, and every step keeps it. *)
LEMMA ByClass ==
  ASSUME IInv, TypeOK', Class
  PROVE IInv'
<1>1. CASE CentralHost
  <2>1. PICK x, y : Host("central", x, y) /\ CentralBegins(x) /\ CentralEnd(x, y)
    BY <1>1 DEF CentralHost
  <2> QED BY <2>1, ByCentral
<1>2. CASE PeripheralHost
  <2>1. PICK x, y :
          /\ Host("peripheral", x, y) /\ PeripheralBegins(x) /\ PeripheralEnd(x, y)
          /\ x.s.step = "pairing_request" /\ y.s.step = "success"
               => "peripheral" \in due
    BY <1>2 DEF PeripheralHost
  <2> QED BY <2>1, ByPeripheral
<1>3. CASE \E e \in Ends : Forgets(e)
  <2>1. PICK e \in Ends : Forgets(e) BY <1>3
  <2> QED BY <2>1, ByForgets
<1> QED
  BY <1>1, <1>2, <1>3, ByShrinks, ByEnables, ByCiphers, ByConnect DEF Class

LEMMA InitTypes ==
  ASSUME Init
  PROVE TypeOK /\ KeysOK
<1>1. \A e \in Ends : bonds[e] = NoKey \/ bonds[e] = OldBond(e)
  BY DEF Init
<1>2. NoKey \in Keys /\ KeyOK(NoKey) /\ Idle.key = NoKey
  BY DEF NoKey, Keys, Levels, KeyOK, Idle
<1>3. ASSUME NEW e \in Ends
      PROVE OldBond(e) \in Keys /\ KeyOK(OldBond(e))
  <2> DEFINE c == IF e \in start.renewed THEN 1 ELSE 0
             b == TRUE
             k == [link |-> 0, c |-> c, p |-> 0, level |-> "auth", bonded |-> b]
  <2>1. c \in Nat /\ b \in BOOLEAN /\ b OBVIOUS
  <2>2. OldBond(e) = [NoKey EXCEPT !.c = c, !.level = "auth", !.bonded = b]
    BY DEF OldBond
  <2> HIDE DEF c, b
  <2>3. OldBond(e) = k BY <2>2 DEF NoKey
  <2> QED BY <2>1, <2>3 DEF Keys, Levels, KeyOK
<1>4. None \in Machine /\ None.bond = NoKey
  BY <1>2 DEF None, Machine, Steps, Nothing
<1>5. KeysOK BY <1>1, <1>2, <1>3, <1>4 DEF Init, KeysOK
<1>6. bonds \in [Ends -> Keys] BY <1>2, <1>3 DEF Init
<1>7. sm \in [Ends -> Machine] BY <1>4 DEF Init
<1>8. /\ bondable \in [Ends -> BOOLEAN]
      /\ level \in [Ends -> Levels]
      /\ prompt \in [Ends -> {"none", "confirm", "input"}]
      /\ answer \in [Ends -> Nat]
      /\ slot \in [Ends -> {"up", "closing", "down"}]
      /\ dead \in [Ends -> BOOLEAN]
  BY DEF Init, Levels
<1>9. <<>> \in Seq(Queued) /\ <<>> \in Seq(News) /\ <<>> \in Seq(Message)
  OBVIOUS
<1>10. /\ events \in [Ends -> Seq(Queued)]
       /\ app \in [Ends -> Seq(News)]
       /\ wire \in [Ends -> Seq(Message)]
  BY <1>9 DEF Init
<1>11. proc \in [stage : {"idle", "request", "reply"}, key : Keys]
  BY <1>2 DEF Init, Idle
<1> QED BY <1>2, <1>5, <1>6, <1>7, <1>8, <1>10, <1>11 DEF Init, TypeOK

LEMMA InitOK == Init => IInv
<1> SUFFICES ASSUME Init PROVE IInv OBVIOUS
<1>1. TypeOK /\ KeysOK BY InitTypes
<1>2. \A e \in Ends : /\ Elems(wire[e]) = {} /\ Encrypts(events[e]) = {}
                      /\ Elems(app[e]) = {} /\ Elems(events[e]) = {}
                      /\ sm[e] = None /\ slot[e] = "down" /\ level[e] = "none"
                      /\ prompt[e] = "none"
  BY ElemsOfNone DEF Init
<1>3. None.step = "absent" /\ None.bond = NoKey BY DEF None
<1>4. \A e \in Ends : bonds[e] = NoKey \/ bonds[e].bonded
  <2>1. \A e \in Ends : bonds[e] = NoKey \/ bonds[e] = OldBond(e)
    BY DEF Init
  <2>2. \A e \in Ends : OldBond(e).bonded BY DEF OldBond, NoKey
  <2> QED BY <2>1, <2>2
<1>5. /\ proc = Idle /\ cipher = NoKey /\ due = {} /\ ~air
      /\ Idle.stage = "idle" /\ Idle.key = NoKey
      /\ Ends = {"central", "peripheral"}
  BY DEF Init, Idle, Ends
<1>6. /\ sm["central"].step = "absent" /\ sm["peripheral"].step = "absent"
      /\ sm["central"].bond = NoKey /\ sm["peripheral"].bond = NoKey
      /\ \A e \in Ends : Absent(e) /\ ~Unmet(e)
  BY <1>2, <1>3, <1>5 DEF Absent, Unmet
<1>7. ~Begun BY <1>2, <1>5, <1>6 DEF Begun, Mid
<1>8. StepsOK /\ Left BY <1>2, <1>3, <1>4, <1>5, <1>6 DEF StepsOK, Left
<1>9. Once /\ Unsettled /\ Settled /\ Unasked
  BY <1>2, <1>5, <1>6 DEF Once, Unsettled, Settled, Unasked, CentralLate
<1>10. BothBegun /\ SameLtk /\ Finishing /\ Resumed
  BY <1>5, <1>6, <1>7 DEF BothBegun, SameLtk, Finishing, Resumed
<1>11. Shared BY DEF Init, Shared
<1>12. ChecksOK /\ FlagsOK
  BY <1>2, <1>5, <1>6 DEF ChecksOK, FlagsOK, CentralKnows, CentralEarly, Mid
<1>13. Asked
  <2>1. Fits("absent") BY DEF Fits
  <2> QED BY <1>2, <1>3, <1>5, <2>1
       DEF Asked, Told, CentralTold, PeripheralTold, Proving
<1>14. LevelOK /\ NoLtk BY <1>2, <1>5 DEF LevelOK, NoLtk, Ltks
<1> QED BY <1>1, <1>8, <1>9, <1>10, <1>11, <1>12, <1>13, <1>14 DEF IInv

LEMMA Stutters ==
  ASSUME IInv, UNCHANGED vars
  PROVE IInv'
<1>1. UNCHANGED <<sm, level, bonds, events, app, bondable, prompt, answer, wire,
                  slot, dead, air, link, proc, cipher, due, start, faults, late>>
  BY DEF vars, hosts, users, lower, fixed
<1>2. Shrinks BY <1>1 DEF Shrinks, Fewer, IInv, Once
<1>3. TypeOK' BY <1>1 DEF IInv, TypeOK
<1> QED BY <1>2, <1>3, ByShrinks

LEMMA Inductive == IInv /\ [Next]_vars => IInv'
<1> SUFFICES ASSUME IInv, [Next]_vars PROVE IInv' OBVIOUS
<1>1. CASE Next
  <2>1. TypeOK' /\ Class BY <1>1, StepClass
  <2> QED BY <2>1, ByClass
<1>2. CASE UNCHANGED vars BY <1>2, Stutters
<1> QED BY <1>1, <1>2

----------------------------------------------------------------------------
(* Invariant: every state of a pairing, with any capabilities, passkeys and *)
(* bonds to start from and through any links, losses and retries, satisfies *)
(* IInv.                                                                    *)
THEOREM Invariant == Spec => []IInv
<1>1. Init => IInv BY InitOK
<1>2. IInv /\ [Next]_vars => IInv' BY Inductive
<1> QED BY <1>1, <1>2, PTL DEF Spec

(* LevelsAreTrue: the level a connection shows is that of the key the link is *)
(* encrypted with, however late the machine or the application looks at it. *)
THEOREM LevelsAreTrue == Spec => []LevelOfTheKey
<1>1. IInv => LevelOfTheKey BY DEF IInv, LevelOK, LevelOfTheKey
<1> QED BY <1>1, Invariant, PTL

(* AuthHasAUser: no pairing shows a key of its own link as authenticated    *)
(* unless the users of both ends saw, typed or confirmed the same thing.    *)
THEOREM AuthHasAUser == Spec => []AuthIsEarned
<1>1. IInv => AuthIsEarned
  <2> SUFFICES ASSUME IInv, NEW e \in Ends, level[e] = "auth", cipher.link = link
               PROVE answer["central"] = answer["peripheral"] /\ answer[e] # 0
    BY DEF AuthIsEarned
  <2>1. TypeOK /\ Left /\ KeysOK /\ Shared /\ LevelOK BY DEF IInv
  <2>2. cipher # NoKey /\ cipher.level = "auth" BY <2>1 DEF LevelOK
  <2>3. link \in Nat /\ link > 0 BY <2>1, LinkUp DEF Left
  <2>4. Level = "auth" BY <2>1, <2>2, <2>3 DEF KeysOK, KeyOK
  <2>5. Method = "numeric" \/ Passkey BY <2>4, MethodKinds DEF Level
  <2>6. Agreed(cipher) BY <2>1, <2>3 DEF Shared, CentralKeys
  <2>7. e = "central" \/ e = "peripheral" BY DEF Ends
  <2> QED BY <2>5, <2>6, <2>7 DEF Agreed
<1> QED BY <1>1, Invariant, PTL

(* OneKey: two ends whose pairing succeeded hold the same key, of the same  *)
(* level, and the same notion of whether it is a bond.                      *)
THEOREM OneKey == Spec => []BothShareTheKey
<1>1. IInv => BothShareTheKey
  <2> SUFFICES ASSUME IInv, \A e \in Ends : sm[e].step = "success"
                                            /\ sm[e].bond # NoKey
               PROVE sm["central"].bond = sm["peripheral"].bond
    BY DEF BothShareTheKey
  <2> DEFINE j == sm["central"].bond
             k == sm["peripheral"].bond
  <2>1. TypeOK /\ Left /\ KeysOK /\ Shared /\ BothBegun /\ Resumed /\ Settled
    BY DEF IInv
  <2>2. /\ sm["central"].step = "success" /\ j # NoKey
        /\ sm["peripheral"].step = "success" /\ k # NoKey
        /\ j \in Keys /\ k \in Keys
    BY <2>1 DEF Ends, TypeOK, Machine
  <2>3. KeyOK(j) /\ KeyOK(k) BY <2>1 DEF KeysOK, Ends
  <2>4. link \in Nat /\ link > 0
    <3>1. slot["peripheral"] # "down" BY <2>1, <2>2 DEF Left, Ends, None
    <3> QED BY <2>1, <3>1, LinkUp DEF Ends
  <2>5. /\ j = [link |-> j.link, c |-> j.c, p |-> j.p, level |-> j.level,
                bonded |-> j.bonded]
        /\ k = [link |-> k.link, c |-> k.c, p |-> k.p, level |-> k.level,
                bonded |-> k.bonded]
    BY <2>2 DEF Keys
  <2>6. /\ j.link = k.link /\ j.c = k.c /\ j.p = k.p /\ j.level = k.level
        /\ j.bonded = k.bonded
    <3>1. CASE k.link = link
      <4>1. Begun BY <2>2, <3>1 DEF Begun
      <4>2. j \in CentralKeys BY DEF CentralKeys
      <4>3. j.link = link BY <2>1, <2>2, <4>1, <4>2 DEF BothBegun
      <4>4. Agreed(j) BY <2>1, <2>4, <4>2, <4>3 DEF Shared
      <4>5. /\ j.c = sm["peripheral"].peernonce /\ j.p = sm["peripheral"].nonce
            /\ j.bonded = WantBonding(sm["peripheral"])
            /\ k = OwnKey(sm["peripheral"])
        BY <2>2, <4>4 DEF Agreed, Absent, Committed
      <4>6. j.level = Level /\ k.level = Level
        BY <2>3, <2>2, <2>4, <3>1, <4>3 DEF KeyOK, NoKey
      <4> QED BY <3>1, <4>3, <4>5, <4>6 DEF OwnKey, NewKey
    <3>2. CASE k.link # link
      <4>1. cipher # NoKey /\ Ltk(k) = Ltk(cipher)
        BY <2>1, <2>2, <3>2 DEF Resumed
      <4>2. cipher = j BY <2>1, <2>2, <4>1 DEF Settled, CentralLate
      <4>3. j.link = k.link /\ j.c = k.c /\ j.p = k.p
        BY <4>1, <4>2 DEF Ltk
      <4>4. j.level = k.level BY <2>2, <2>3, <4>1, <4>2, SameLevel
      <4>5. j.bonded /\ k.bonded BY <2>2, <2>3, <3>2, <4>3 DEF KeyOK
      <4>6. j.bonded = k.bonded BY <2>2, <4>5 DEF Keys
      <4> QED BY <4>3, <4>4, <4>6
    <3> QED BY <3>1, <3>2
  <2> HIDE DEF j, k
  <2>7. j = k BY <2>5, <2>6
  <2> QED BY <2>7 DEF j, k
<1> QED BY <1>1, Invariant, PTL

(* KeysLeave: a key that is no bond is of the link its end still has.       *)
THEOREM KeysLeave == Spec => []KeysLeaveWithTheLink
<1>1. IInv => KeysLeaveWithTheLink
  <2> SUFFICES ASSUME IInv, NEW e \in Ends, bonds[e] # NoKey, ~bonds[e].bonded
               PROVE slot[e] # "down" /\ bonds[e].link = link
    BY DEF KeysLeaveWithTheLink
  <2> QED BY DEF IInv, Left, KeysOK, KeyOK
<1> QED BY <1>1, Invariant, PTL

----------------------------------------------------------------------------
(* What a run of effects says, and to whom. *)

(* First one run of effects, then another. *)
LEMMA MovesBoth ==
  ASSUME NEW x \in Handler, NEW y, NEW z, NEW n \in Nat, NEW o \in Nat,
         NEW k, NEW l, NEW A, NEW B,
         Moves(x, y, n, k, A), Moves(y, z, o, l, B)
  PROVE Moves(x, z, n + o, IF l = "none" THEN k ELSE l, A \cup B)
<1>1. y \in Handler /\ z \in Handler BY DEF Moves
<1>2. x.room \in Nat /\ y.room \in Nat /\ z.room \in Nat
  BY <1>1 DEF Handler
<1>3. x.room <= z.room + (n + o)
  <2>1. x.room <= y.room + n /\ y.room <= z.room + o BY DEF Moves
  <2> QED BY <1>2, <2>1
<1>4. Elems(x.app) \subseteq Elems(z.app)
  /\ Elems(z.app) \subseteq Elems(x.app) \cup (A \cup B)
  BY DEF Moves
<1>5. z.ok => /\ x.ok
              /\ A \cup B \subseteq Elems(z.app)
              /\ l = "none" => z.out = y.out
              /\ l # "none" => LastKind(z.out) = l
              /\ k = "none" => y.out = x.out
              /\ k # "none" => LastKind(y.out) = k
  BY DEF Moves
<1> QED BY <1>1, <1>3, <1>4, <1>5 DEF Moves

LEMMA LastOfAppend ==
  ASSUME NEW q \in Seq(Message), NEW m \in Message
  PROVE LastKind(Append(q, m)) = m.k
<1> DEFINE z == Append(q, m)
<1>1. Len(z) = Len(q) + 1 /\ z[Len(q) + 1] = m /\ z # <<>> OBVIOUS
<1> HIDE DEF z
<1>2. LastKind(z) = m.k BY <1>1 DEF LastKind
<1> QED BY <1>2 DEF z

LEMMA StillMoves ==
  ASSUME NEW x \in Handler, NEW y, Still(x, y)
  PROVE Moves(x, y, 0, "none", {})
<1>1. x.room \in Nat /\ y.room = x.room BY DEF Handler, Still
<1>2. x.room <= y.room + 0 BY <1>1
<1> QED BY <1>2 DEF Still, Moves

LEMMA TimerMoves ==
  ASSUME NEW x \in Handler
  PROVE Moves(x, Timer(x), 0, "none", {}) /\ Timer(x).s = x.s
        /\ Timer(x).ok = x.ok /\ Timer(x).key = x.key
<1> DEFINE y == Timer(x)
<1>1. /\ y \in Handler /\ y.s = x.s /\ y.out = x.out /\ y.app = x.app
      /\ y.ok = x.ok /\ y.key = x.key
  BY TimerDoes
<1>2. y.room = x.room BY DEF Timer, Handler
<1> HIDE DEF y
<1>3. Still(x, y) BY <1>1, <1>2 DEF Still
<1> QED BY <1>1, <1>3, StillMoves DEF y

LEMMA SendMoves ==
  ASSUME NEW x \in Handler, NEW k, NEW v, [k |-> k, v |-> v] \in Message
  PROVE Moves(x, Send(x, k, v), 1, k, {}) /\ Send(x, k, v).s = x.s
<1> DEFINE m == [k |-> k, v |-> v]
           y == Send(x, k, v)
           o == Append(x.out, m)
           r == x.room - 1
           z == [x EXCEPT !.out = o, !.room = r]
<1>0. x.room \in Nat /\ x.out \in Seq(Message) /\ m \in Message
  BY DEF Handler
<1>k. m.k = k /\ m \in Message => k # "none"
  BY DEF Message, FlagMsgs, BareMsgs, ConfirmMsgs, RandomMsgs, CheckMsgs
<1>1. y \in Handler /\ y.s = x.s /\ y.app = x.app /\ (y.ok => x.ok)
  BY SendDoes
<1>2. CASE ~(x.ok /\ x.room # 0)
  <2>1. ~y.ok /\ y.room = x.room BY <1>2 DEF Send, Fail, Handler
  <2> HIDE DEF y
  <2>2. x.room <= y.room + 1 BY <1>0, <2>1
  <2>3. Moves(x, y, 1, k, {}) BY <1>1, <2>1, <2>2 DEF Moves
  <2> QED BY <1>1, <2>3 DEF y
<1>3. CASE x.ok /\ x.room # 0
  <2>1. y = Timer(z) BY <1>3 DEF Send
  <2>2. o \in Seq(Message) /\ LastKind(o) = m.k BY <1>0, LastOfAppend
  <2>3. r \in Nat /\ x.room = r + 1 BY <1>0, <1>3
  <2> HIDE DEF o, r
  <2>4. z \in Handler /\ z.out = o /\ z.room = r
    BY <2>2, <2>3 DEF Handler
  <2> HIDE DEF z
  <2>5. Moves(z, Timer(z), 0, "none", {}) BY <2>4, TimerMoves
  <2>6. Timer(z).out = z.out /\ Timer(z).room \in Nat
    BY <2>4, TimerDoes DEF Handler
  <2> HIDE DEF y, m
  <2>7. x.room <= y.room + 1
    <3>1. z.room <= y.room + 0 /\ y.room \in Nat BY <2>1, <2>5, <2>6 DEF Moves
    <3> QED BY <2>3, <2>4, <3>1
  <2>8. LastKind(y.out) = k
    BY <2>1, <2>2, <2>4, <2>6 DEF m
  <2>9. Moves(x, y, 1, k, {}) BY <1>0, <1>1, <1>k, <2>7, <2>8 DEF Moves, m
  <2> QED BY <1>1, <2>9 DEF y
<1> QED BY <1>2, <1>3

LEMMA PutMoves ==
  ASSUME NEW x \in Handler, NEW t \in Machine
  PROVE Moves(x, [x EXCEPT !.s = t], 0, "none", {})
<1> DEFINE y == [x EXCEPT !.s = t]
<1>1. y \in Handler BY PutDoes
<1>2. y.out = x.out /\ y.app = x.app /\ y.room = x.room /\ y.ok = x.ok
  BY DEF Handler
<1> HIDE DEF y
<1>3. Still(x, y) BY <1>1, <1>2 DEF Still
<1> QED BY <1>3, StillMoves DEF y

LEMMA GoMoves ==
  ASSUME NEW x \in Handler, NEW step \in Steps
  PROVE /\ Moves(x, Go(x, step), 0, "none", {})
        /\ Go(x, step).ok = x.ok
        /\ x.ok => /\ Go(x, step).s.step = step
                   /\ Go(x, step).s.held = x.s.held
<1> DEFINE y == Go(x, step)
<1>1. y \in Handler /\ y.ok = x.ok /\ (y.ok => y.s = [x.s EXCEPT !.step = step])
  BY GoChain DEF Chain
<1>2. y.out = x.out /\ y.app = x.app /\ y.room = x.room
  BY DEF Go, Handler
<1> HIDE DEF y
<1>3. Still(x, y) BY <1>1, <1>2 DEF Still
<1>4. x.s \in Machine BY DEF Handler
<1>5. x.ok => y.s.step = step /\ y.s.held = x.s.held
  BY <1>1, <1>4 DEF Machine
<1> QED BY <1>1, <1>3, <1>5, StillMoves DEF y

LEMMA GoRoundMoves ==
  ASSUME NEW x \in Handler, NEW step \in Steps, NEW r \in Nat
  PROVE /\ Moves(x, GoRound(x, step, r), 0, "none", {})
        /\ GoRound(x, step, r).ok = x.ok
        /\ x.ok => GoRound(x, step, r).s.step = step
<1> DEFINE y == GoRound(x, step, r)
           t == [x.s EXCEPT !.step = step, !.round = r]
<1>1. /\ Chain(x, y, {}, {}) /\ y.seen = x.seen /\ y.ok = x.ok
      /\ ~y.ok => y.s = x.s
      /\ y.ok => y.s = t
  BY GoRoundChain
<1>2. y.out = x.out /\ y.app = x.app /\ y.room = x.room
  BY DEF GoRound, Handler
<1>4. x.s \in Machine BY DEF Handler
<1>5. t.step = step BY <1>4, Stepped
<1> HIDE DEF y, t
<1>3. Still(x, y) BY <1>1, <1>2 DEF Still, Chain
<1>6. x.ok => y.s.step = step BY <1>1, <1>5
<1> QED BY <1>1, <1>3, <1>6, StillMoves DEF y

LEMMA CheckMoves ==
  ASSUME NEW x \in Handler, NEW good
  PROVE Moves(x, Check(x, good), 0, "none", {}) /\ Check(x, good).s = x.s
<1> DEFINE y == Check(x, good)
<1>1. y \in Handler /\ y.s = x.s /\ (y.ok => x.ok)
  BY CheckDoes
<1>2. y.out = x.out /\ y.app = x.app /\ y.room = x.room
  BY DEF Check, Fail, Handler
<1> HIDE DEF y
<1>3. Still(x, y) BY <1>1, <1>2 DEF Still
<1> QED BY <1>1, <1>3, StillMoves DEF y

LEMMA KeepMoves ==
  ASSUME NEW x \in Handler, NEW e, NEW k \in Keys
  PROVE Moves(x, Keep(e, x, k), 0, "none", {}) /\ Keep(e, x, k).s = x.s
<1> DEFINE y == Keep(e, x, k)
<1>1. y \in Handler /\ y.s = x.s /\ (y.ok => x.ok)
  BY KeepDoes
<1>2. y.out = x.out /\ y.app = x.app /\ y.room = x.room
  BY DEF Keep, Fail, Handler
<1> HIDE DEF y
<1>3. Still(x, y) BY <1>1, <1>2 DEF Still
<1> QED BY <1>1, <1>3, StillMoves DEF y

LEMMA EncryptMoves ==
  ASSUME NEW x \in Handler
  PROVE Moves(x, Encrypt(x), 0, "none", {})
<1> DEFINE y == Encrypt(x)
<1>1. y \in Handler /\ (y.ok => x.ok) BY EncryptDoes
<1>2. y.out = x.out /\ y.app = x.app /\ y.room = x.room
  BY DEF Encrypt, Fail, Handler
<1> HIDE DEF y
<1>3. Still(x, y) BY <1>1, <1>2 DEF Still
<1> QED BY <1>3, StillMoves DEF y

LEMMA DrawMoves ==
  ASSUME NEW x \in Handler
  PROVE Moves(x, Draw(x), 0, "none", {})
<1> DEFINE y == Draw(x)
<1>1. y \in Handler /\ y.ok = x.ok BY DrawChain DEF Chain
<1>2. y.out = x.out /\ y.app = x.app /\ y.room = x.room
  BY DEF Draw, Handler
<1> HIDE DEF y
<1>3. Still(x, y) BY <1>1, <1>2 DEF Still
<1> QED BY <1>3, StillMoves DEF y

LEMMA SetSecretMoves ==
  ASSUME NEW x \in Handler, NEW k \in Nat
  PROVE Moves(x, SetSecret(x, k), 0, "none", {})
<1> DEFINE y == SetSecret(x, k)
<1>1. y \in Handler /\ y.ok = x.ok BY SetSecretChain DEF Chain
<1>2. y.out = x.out /\ y.app = x.app /\ y.room = x.room
  BY DEF SetSecret, Handler
<1> HIDE DEF y
<1>3. Still(x, y) BY <1>1, <1>2 DEF Still
<1> QED BY <1>3, StillMoves DEF y

LEMMA FailMoves ==
  ASSUME NEW x \in Handler
  PROVE \A y \in {Fail(x), Refuse(x)} : ~y.ok /\ Moves(x, y, 0, "none", {})
<1> SUFFICES ASSUME NEW y \in {Fail(x), Refuse(x)}
             PROVE ~y.ok /\ Moves(x, y, 0, "none", {})
  OBVIOUS
<1>1. y \in Handler /\ ~y.ok BY FailDoes
<1>2. y.out = x.out /\ y.app = x.app /\ y.room = x.room
  BY DEF Fail, Refuse, Handler
<1>3. Still(x, y) BY <1>1, <1>2 DEF Still
<1> QED BY <1>1, <1>3, StillMoves

LEMMA TellMoves ==
  ASSUME NEW x \in Handler, NEW n \in News
  PROVE Moves(x, Tell(x, n), 0, "none", {n}) /\ Tell(x, n).s = x.s
<1> DEFINE y == Tell(x, n)
           o == Append(x.app, n)
           z == [x EXCEPT !.app = o]
<1>0. x.room \in Nat /\ x.app \in Seq(News) BY DEF Handler
<1>1. /\ y \in Handler /\ y.s = x.s /\ y.out = x.out /\ (y.ok => x.ok)
      /\ Elems(y.app) \subseteq Elems(x.app) \cup {n}
  BY TellDoes
<1>2. CASE ~x.ok \/ Len(x.app) >= EventCap
  <2>1. ~y.ok /\ y.app = x.app /\ y.room = x.room
    BY <1>2 DEF Tell, Fail, Handler
  <2> HIDE DEF y
  <2>2. x.room <= y.room + 0 BY <1>0, <2>1
  <2>3. Moves(x, y, 0, "none", {n}) BY <1>1, <2>1, <2>2 DEF Moves
  <2> QED BY <1>1, <2>3 DEF y
<1>3. CASE ~(~x.ok \/ Len(x.app) >= EventCap)
  <2>1. y = Timer(z) \/ y = z BY <1>3 DEF Tell
  <2>2. o \in Seq(News) /\ Elems(o) = Elems(x.app) \cup {n}
    BY <1>0, ElemsOfAppend
  <2> HIDE DEF o
  <2>3. z \in Handler /\ z.app = o /\ z.room = x.room BY <2>2 DEF Handler
  <2> HIDE DEF z
  <2>4. Timer(z).app = z.app /\ Timer(z).room = z.room
    BY <2>3, TimerDoes DEF Timer, Handler
  <2> HIDE DEF y
  <2>5. y.app = o /\ y.room = x.room BY <2>1, <2>3, <2>4
  <2>6. x.room <= y.room + 0 BY <1>0, <2>5
  <2>7. Moves(x, y, 0, "none", {n}) BY <1>1, <2>2, <2>5, <2>6 DEF Moves
  <2> QED BY <1>1, <2>7 DEF y
<1> QED BY <1>2, <1>3

LEMMA SendConfirmMoves ==
  ASSUME NEW x \in Handler, NEW r \in Nat
  PROVE Moves(x, SendConfirm(x, r), 1, "confirm", {})
<1> DEFINE z == Draw(x)
           v == <<z.s.nonce, Bit(z.s.secret, r)>>
           y == Send(z, "confirm", v)
<1>1. z \in Handler /\ Moves(x, z, 0, "none", {}) BY DrawMoves DEF Moves
<1>2. SendConfirm(x, r) = y BY DEF SendConfirm
<1> HIDE DEF z
<1>3. z.s.nonce \in Nat /\ z.s.secret \in Nat BY <1>1 DEF Handler, Machine
<1>4. [k |-> "confirm", v |-> v] \in Message BY <1>3, PlainKinds DEF Plain
<1> HIDE DEF v
<1>5. Moves(z, y, 1, "confirm", {}) BY <1>1, <1>4, SendMoves
<1> HIDE DEF y
<1>6. Moves(x, y, 0 + 1, IF "confirm" = "none" THEN "none" ELSE "confirm", {} \cup {})
  BY <1>1, <1>5, MovesBoth
<1> QED BY <1>2, <1>6

LEMMA SendRandomMoves ==
  ASSUME NEW x \in Handler
  PROVE Moves(x, SendRandom(x), 1, "random", {}) /\ SendRandom(x).s = x.s
<1>1. x.s.nonce \in Nat BY DEF Handler, Machine
<1>2. [k |-> "random", v |-> <<x.s.nonce>>] \in Message
  BY <1>1, PlainKinds DEF Plain
<1> QED BY <1>2, SendMoves DEF SendRandom

LEMMA SendCheckMoves ==
  ASSUME NEW x \in Handler
  PROVE Moves(x, SendCheck(x), 1, "dhkey", {}) /\ SendCheck(x).s = x.s
<1>1. x.s \in Machine BY DEF Handler
<1> DEFINE v == <<x.s.nonce, x.s.peernonce, x.s.secret>>
<1>2. v \in Checks BY <1>1 DEF Machine, Checks
<1>3. [k |-> "dhkey", v |-> v] \in Message BY <1>2 DEF Message, CheckMsgs
<1>4. SendCheck(x) = Send(x, "dhkey", v) BY DEF SendCheck
<1> HIDE DEF v
<1> QED BY <1>3, <1>4, SendMoves

(* The same with an effect that sends and tells nothing after or before. *)
LEMMA MovesThen ==
  ASSUME NEW x \in Handler, NEW y, NEW z, NEW n \in Nat, NEW k, NEW A,
         Moves(x, y, n, k, A), Moves(y, z, 0, "none", {})
  PROVE Moves(x, z, n, k, A)
<1>1. Moves(x, z, n + 0, IF "none" = "none" THEN k ELSE "none", A \cup {})
  BY MovesBoth
<1>2. n + 0 = n /\ A \cup {} = A OBVIOUS
<1> QED BY <1>1, <1>2

LEMMA MovesFirst ==
  ASSUME NEW x \in Handler, NEW y, NEW z, NEW n \in Nat, NEW k, NEW A,
         Moves(x, y, 0, "none", {}), Moves(y, z, n, k, A)
  PROVE Moves(x, z, n, k, A)
<1>1. Moves(x, z, 0 + n, IF k = "none" THEN "none" ELSE k, {} \cup A)
  BY MovesBoth
<1>2. 0 + n = n /\ {} \cup A = A OBVIOUS
<1>3. (IF k = "none" THEN "none" ELSE k) = k OBVIOUS
<1> QED BY <1>1, <1>2, <1>3

LEMMA MovesMore ==
  ASSUME NEW x \in Handler, NEW y, NEW n \in 0..2, NEW k, NEW A,
         Moves(x, y, n, k, A)
  PROVE Moves(x, y, 2, k, A)
<1>1. x.room \in Nat /\ y.room \in Nat /\ x.room <= y.room + n
  BY DEF Moves, Handler
<1>2. x.room <= y.room + 2 BY <1>1
<1> QED BY <1>2 DEF Moves

(* A message and then a move to the next step. *)
LEMMA SendsAndGoes ==
  ASSUME NEW x \in Handler, NEW y, NEW n \in 0..2, NEW k, NEW A,
         Moves(x, y, n, k, A), NEW step \in Steps
  PROVE /\ Moves(x, Go(y, step), 2, k, A)
        /\ Go(y, step).ok => Go(y, step).s.step = step
<1>1. y \in Handler /\ n \in Nat BY DEF Moves
<1>2. Moves(x, Go(y, step), n, k, A) BY <1>1, GoMoves, MovesThen
<1>3. Go(y, step).ok => Go(y, step).s.step = step BY <1>1, GoMoves
<1> QED BY <1>2, <1>3, MovesMore

LEMMA SendsAndRounds ==
  ASSUME NEW x \in Handler, NEW y, NEW n \in 0..2, NEW k, NEW A,
         Moves(x, y, n, k, A), NEW step \in Steps, NEW r \in Nat
  PROVE /\ Moves(x, GoRound(y, step, r), 2, k, A)
        /\ GoRound(y, step, r).ok => GoRound(y, step, r).s.step = step
<1>1. y \in Handler /\ n \in Nat BY DEF Moves
<1>2. Moves(x, GoRound(y, step, r), n, k, A) BY <1>1, GoRoundMoves, MovesThen
<1>3. GoRound(y, step, r).ok => GoRound(y, step, r).s.step = step
  BY <1>1, GoRoundMoves
<1> QED BY <1>2, <1>3, MovesMore

----------------------------------------------------------------------------
(* What commands and answers do for the other end. *)
LEMMA CentralSends ==
  ASSUME NEW x, NEW y, NEW c, NEW k, NEW said \in {{}, {"display"}}, NEW step,
         Moves(x, y, 2, k, said), k # "none",
         y.ok => y.s.step = step, step \notin AsksUser,
         step = "response" => k = "request"
  PROVE CentralMove(x, y, c)
<1>1. said \subseteq Hints /\ "input" \notin said BY DEF Hints, News
<1> QED BY <1>1 DEF CentralMove

LEMMA CentralSilent ==
  ASSUME NEW x, NEW y, NEW c, NEW said, NEW step,
         Moves(x, y, 2, "none", said), said \subseteq Hints,
         "input" \in said => Passkey,
         y.ok => y.s.step = step,
         Silences(x, y, c, said, step)
  PROVE CentralMove(x, y, c)
  BY DEF CentralMove

LEMMA CentralInitiates ==
  ASSUME NEW x \in Handler, x.s.step = "idle", NEW z, NEW c,
         Moves(x, z, 0, "none", {}), z.s.own \in BOOLEAN
  PROVE CentralMove(x, Initiate(z), c)
<1>1. z \in Handler BY DEF Moves
<1>2. CASE z.key # NoKey
  <2> DEFINE u == Encrypt(z)
             y == Go(u, "bonded_link")
  <2>1. Moves(z, u, 0, "none", {}) BY <1>1, EncryptMoves
  <2>2. Initiate(z) = y BY <1>2 DEF Initiate
  <2>3. "bonded_link" \in Steps BY DEF Steps
  <2> HIDE DEF u
  <2>4. Moves(x, u, 0, "none", {}) BY <2>1, MovesFirst
  <2>5. Moves(x, y, 2, "none", {}) /\ (y.ok => y.s.step = "bonded_link")
    BY <2>3, <2>4, SendsAndGoes
  <2> HIDE DEF y
  <2> DEFINE said == {}
  <2>7. said \subseteq Hints /\ ("input" \in said => Passkey) OBVIOUS
  <2>8. Silences(x, y, c, said, "bonded_link") BY DEF Silences, Encrypting
  <2>9. Moves(x, y, 2, "none", said) BY <2>5
  <2> HIDE DEF said
  <2>6. CentralMove(x, y, c) BY <2>5, <2>7, <2>8, <2>9, CentralSilent
  <2> QED BY <2>2, <2>6
<1>3. CASE z.key = NoKey
  <2> DEFINE v == <<Flag(z.s.own)>>
             u == Send(z, "request", v)
             y == Go(u, "response")
  <2>1. [k |-> "request", v |-> v] \in Message
    BY DEF Message, FlagMsgs, Flagged, Flag
  <2>2. Initiate(z) = y BY <1>3 DEF Initiate
  <2>3. "response" \in Steps BY DEF Steps
  <2> HIDE DEF v
  <2>4. Moves(z, u, 1, "request", {}) BY <1>1, <2>1, SendMoves
  <2> HIDE DEF u
  <2>5. Moves(x, u, 1, "request", {}) BY <2>4, MovesFirst
  <2>6. Moves(x, y, 2, "request", {}) /\ (y.ok => y.s.step = "response")
    BY <2>3, <2>5, SendsAndGoes
  <2> HIDE DEF y
  <2>7. CentralMove(x, y, c) BY <2>6, CentralSends DEF AsksUser
  <2> QED BY <2>2, <2>7
<1> QED BY <1>2, <1>3

LEMMA CentralKeyMoves ==
  ASSUME NEW x, CentralBegins(x), x.s.step = "public_key", Passkey,
         NEW shown \in Nat, NEW v, NEW b
  PROVE CentralMove(x, CentralCommand(x, "public_key", v, b, shown), "public_key")
<1>1. x \in Handler BY DEF CentralBegins
<1>2. {"display", "input"} \subseteq News /\ {"confirm", "input"} \subseteq Steps
  BY DEF News, Steps
<1>3. CASE Displays("central")
  <2> DEFINE a == Tell(x, "display")
             d == SetSecret(a, shown)
             u == SendConfirm(d, 0)
             y == GoRound(u, "confirm", 0)
  <2>1. CentralCommand(x, "public_key", v, b, shown) = y
    BY <1>3 DEF CentralCommand
  <2>2. Moves(x, a, 0, "none", {"display"}) BY <1>1, <1>2, TellMoves
  <2> HIDE DEF a
  <2>3. a \in Handler BY <2>2 DEF Moves
  <2>4. Moves(a, d, 0, "none", {}) BY <2>3, SetSecretMoves
  <2> HIDE DEF d
  <2>5. d \in Handler BY <2>4 DEF Moves
  <2>6. Moves(d, u, 1, "confirm", {}) BY <2>5, SendConfirmMoves
  <2> HIDE DEF u
  <2>7. Moves(x, d, 0, "none", {"display"}) BY <1>1, <2>2, <2>4, MovesThen
  <2>8. Moves(x, u, 0 + 1, IF "confirm" = "none" THEN "none" ELSE "confirm",
              {"display"} \cup {})
    BY <1>1, <2>6, <2>7, MovesBoth
  <2>9. Moves(x, u, 1, "confirm", {"display"}) BY <2>8
  <2>10. Moves(x, y, 2, "confirm", {"display"}) /\ (y.ok => y.s.step = "confirm")
    BY <1>1, <1>2, <2>9, SendsAndRounds
  <2> HIDE DEF y
  <2>11. CentralMove(x, y, "public_key") BY <2>10, CentralSends DEF AsksUser
  <2> QED BY <2>1, <2>11
<1>4. CASE ~Displays("central")
  <2> DEFINE a == Tell(x, "input")
             y == Go(a, "input")
             said == {"input"}
  <2>1. CentralCommand(x, "public_key", v, b, shown) = y
    BY <1>4 DEF CentralCommand
  <2>2. Moves(x, a, 0, "none", {"input"}) BY <1>1, <1>2, TellMoves
  <2> HIDE DEF a
  <2>3. Moves(x, y, 2, "none", said) /\ (y.ok => y.s.step = "input")
    BY <1>1, <1>2, <2>2, SendsAndGoes
  <2>4. said \subseteq Hints /\ ("input" \in said => Passkey)
    BY DEF Hints, News
  <2>5. Silences(x, y, "public_key", said, "input") BY DEF Silences
  <2> HIDE DEF y, said
  <2>6. CentralMove(x, y, "public_key") BY <2>3, <2>4, <2>5, CentralSilent
  <2> QED BY <2>1, <2>6
<1> QED BY <1>3, <1>4

LEMMA CentralConfirmMoves ==
  ASSUME NEW x, CentralBegins(x), NEW v \in Commitments
  PROVE /\ CentralMove(x, Go(SendRandom(Draw([x EXCEPT !.s.confirm = v])),
                             "numeric_random"), "confirm")
        /\ CentralMove(x, Go(SendRandom([x EXCEPT !.s.confirm = v]), "random"),
                       "confirm")
        /\ x.s.step = "input" => CentralMove(x, [x EXCEPT !.s.held = v], "confirm")
<1> DEFINE t == [x.s EXCEPT !.confirm = v]
           z == [x EXCEPT !.s = t]
           a == Draw(z)
           d == SendRandom(a)
           e == SendRandom(z)
           y1 == Go(d, "numeric_random")
           y2 == Go(e, "random")
<1>1. x \in Handler /\ x.s \in Machine BY DEF CentralBegins, Handler
<1>2. t \in Machine BY <1>1 DEF Machine
<1>3. [x EXCEPT !.s.confirm = v] = z OBVIOUS
<1> HIDE DEF t
<1>4. Moves(x, z, 0, "none", {}) /\ z \in Handler
  BY <1>1, <1>2, PutMoves DEF Moves
<1> HIDE DEF z
<1>5. Moves(z, a, 0, "none", {}) /\ a \in Handler BY <1>4, DrawMoves DEF Moves
<1> HIDE DEF a
<1>6. Moves(a, d, 1, "random", {}) /\ Moves(z, e, 1, "random", {})
  BY <1>4, <1>5, SendRandomMoves
<1> HIDE DEF d, e
<1>7. Moves(x, a, 0, "none", {}) BY <1>1, <1>4, <1>5, MovesFirst
<1>8. Moves(x, d, 1, "random", {}) /\ Moves(x, e, 1, "random", {})
  BY <1>1, <1>4, <1>6, <1>7, MovesFirst
<1>9. {"numeric_random", "random"} \subseteq Steps BY DEF Steps
<1>10. Moves(x, y1, 2, "random", {}) /\ (y1.ok => y1.s.step = "numeric_random")
  BY <1>1, <1>8, <1>9, SendsAndGoes
<1>13. Moves(x, y2, 2, "random", {}) /\ (y2.ok => y2.s.step = "random")
  BY <1>1, <1>8, <1>9, SendsAndGoes
<1>11. ASSUME x.s.step = "input"
       PROVE CentralMove(x, [x EXCEPT !.s.held = v], "confirm")
  <2> DEFINE w == [x.s EXCEPT !.held = v]
             y == [x EXCEPT !.s = w]
             said == {}
  <2>1. w \in Machine /\ w.step = "input" BY <1>1, <1>11 DEF Machine
  <2>2. [x EXCEPT !.s.held = v] = y OBVIOUS
  <2> HIDE DEF w
  <2>3. Moves(x, y, 0, "none", {}) /\ y.s = w
    BY <1>1, <2>1, PutMoves DEF Handler
  <2> HIDE DEF y
  <2>4. Moves(x, y, 2, "none", said) BY <1>1, <2>3, MovesMore
  <2>5. said \subseteq Hints /\ ("input" \in said => Passkey) OBVIOUS
  <2>6. Silences(x, y, "confirm", said, "input") BY <1>11 DEF Silences
  <2> HIDE DEF said
  <2>7. CentralMove(x, y, "confirm") BY <2>1, <2>3, <2>4, <2>5, <2>6, CentralSilent
  <2> QED BY <2>2, <2>7
<1> HIDE DEF y1, y2
<1>12. CentralMove(x, y1, "confirm") /\ CentralMove(x, y2, "confirm")
  BY <1>10, <1>13, CentralSends DEF AsksUser
<1> QED BY <1>3, <1>11, <1>12 DEF y1, y2, d, e, a

LEMMA NonceMoves ==
  ASSUME NEW x \in Handler, NEW n \in Nat, NEW g
  PROVE /\ Moves(x, [Check(x, g) EXCEPT !.s.peernonce = n], 0, "none", {})
        /\ Moves(x, [x EXCEPT !.s.peernonce = n], 0, "none", {})
<1> DEFINE u == Check(x, g)
           t == [x.s EXCEPT !.peernonce = n]
           y == [u EXCEPT !.s = t]
           z == [x EXCEPT !.s = t]
<1>1. x.s \in Machine BY DEF Handler
<1>2. t \in Machine BY <1>1 DEF Machine
<1>3. Moves(x, u, 0, "none", {}) /\ u.s = x.s /\ u \in Handler
  BY CheckMoves DEF Moves
<1> HIDE DEF u
<1>4. [u EXCEPT !.s.peernonce = n] = y BY <1>3
<1>5. [x EXCEPT !.s.peernonce = n] = z OBVIOUS
<1> HIDE DEF t
<1>6. Moves(u, y, 0, "none", {}) /\ Moves(x, z, 0, "none", {})
  BY <1>2, <1>3, PutMoves
<1> HIDE DEF y, z
<1>7. Moves(x, y, 0, "none", {}) BY <1>3, <1>6, MovesFirst
<1> QED BY <1>4, <1>5, <1>6, <1>7 DEF u

LEMMA CentralRandomMoves ==
  ASSUME NEW x, CentralBegins(x), NEW v, v[1] \in Nat
  PROVE /\ CentralMove(x, CentralRandom(x, v), "random")
        /\ CentralMove(x, CentralNumeric(x, v), "random")
<1>1. x \in Handler BY DEF CentralBegins
<1>2. {"dhkey_eb", "confirm", "result"} \subseteq Steps /\ "confirm" \in News
  BY DEF Steps, News
<1>3. ASSUME NEW g
      PROVE LET y == [Check(x, g) EXCEPT !.s.peernonce = v[1]]
            IN y \in Handler /\ Moves(x, y, 0, "none", {})
  <2> DEFINE n == v[1]
             y == [Check(x, g) EXCEPT !.s.peernonce = n]
  <2>1. n \in Nat OBVIOUS
  <2> HIDE DEF n
  <2>2. Moves(x, y, 0, "none", {}) BY <1>1, <2>1, NonceMoves
  <2> HIDE DEF y
  <2>3. y \in Handler BY <2>2 DEF Moves
  <2> QED BY <2>2, <2>3 DEF y, n
<1>4. ASSUME NEW z \in Handler, Moves(x, z, 0, "none", {})
      PROVE CentralMove(x, Go(SendCheck(z), "dhkey_eb"), "random")
  <2> DEFINE u == SendCheck(z)
             y == Go(u, "dhkey_eb")
  <2>1. Moves(z, u, 1, "dhkey", {}) BY SendCheckMoves
  <2> HIDE DEF u
  <2>2. Moves(x, u, 1, "dhkey", {}) BY <1>1, <1>4, <2>1, MovesFirst
  <2>3. Moves(x, y, 2, "dhkey", {}) /\ (y.ok => y.s.step = "dhkey_eb")
    BY <1>1, <1>2, <2>2, SendsAndGoes
  <2> HIDE DEF y
  <2>4. CentralMove(x, y, "random") BY <2>3, CentralSends DEF AsksUser
  <2> QED BY <2>4 DEF y, u
<1>5. CentralMove(x, CentralRandom(x, v), "random")
  <2> DEFINE r == x.s.round
             z == [Check(x, x.s.confirm = <<v[1], Bit(x.s.secret, r)>>)
                    EXCEPT !.s.peernonce = v[1]]
             u == SendConfirm(z, r + 1)
             y == GoRound(u, "confirm", r + 1)
  <2>1. z \in Handler /\ Moves(x, z, 0, "none", {}) BY <1>3
  <2>2. r + 1 \in Nat BY <1>1 DEF Handler, Machine
  <2>3. CentralRandom(x, v) = IF r = Rounds - 1 THEN Go(SendCheck(z), "dhkey_eb")
                              ELSE y
    BY DEF CentralRandom
  <2> HIDE DEF z, r
  <2>4. Moves(z, u, 1, "confirm", {}) BY <2>1, <2>2, SendConfirmMoves
  <2> HIDE DEF u
  <2>5. Moves(x, u, 1, "confirm", {}) BY <1>1, <2>1, <2>4, MovesFirst
  <2>6. Moves(x, y, 2, "confirm", {}) /\ (y.ok => y.s.step = "confirm")
    BY <1>1, <1>2, <2>2, <2>5, SendsAndRounds
  <2> HIDE DEF y
  <2>7. CentralMove(x, y, "random") BY <2>6, CentralSends DEF AsksUser
  <2> QED BY <1>4, <2>1, <2>3, <2>7
<1>6. CentralMove(x, CentralNumeric(x, v), "random")
  <2> DEFINE z == [Check(x, x.s.confirm = <<v[1], 0>>) EXCEPT !.s.peernonce = v[1]]
             u == Tell(z, "confirm")
             y == Go(u, "result")
             said == {"confirm"}
  <2>1. z \in Handler /\ Moves(x, z, 0, "none", {}) BY <1>3
  <2>3. CentralNumeric(x, v) = IF Method = "just_works"
                               THEN Go(SendCheck(z), "dhkey_eb") ELSE y
    BY DEF CentralNumeric
  <2> HIDE DEF z
  <2>4. Moves(z, u, 0, "none", said) BY <1>2, <2>1, TellMoves
  <2> HIDE DEF u
  <2>5. Moves(x, u, 0, "none", said) BY <1>1, <2>1, <2>4, MovesFirst
  <2>6. Moves(x, y, 2, "none", said) /\ (y.ok => y.s.step = "result")
    BY <1>1, <1>2, <2>5, SendsAndGoes
  <2>8. said \subseteq Hints /\ ("input" \in said => Passkey) BY DEF Hints, News
  <2>9. Silences(x, y, "random", said, "result") BY DEF Silences
  <2> HIDE DEF y, said
  <2>7. CentralMove(x, y, "random") BY <2>6, <2>8, <2>9, CentralSilent
  <2> QED BY <1>4, <2>1, <2>3, <2>7
<1> QED BY <1>5, <1>6

LEMMA CentralCheckMoves ==
  ASSUME NEW x, CentralBegins(x), link \in Nat, NEW v
  PROVE CentralMove(x, Go(Encrypt(Keep("central", Check(x, CheckMatches(x, v)),
                                       NewKey("central", x.s))),
                          "link_encrypted"), "dhkey")
<1> DEFINE g == CheckMatches(x, v)
           k == NewKey("central", x.s)
           a == Check(x, g)
           d == Keep("central", a, k)
           u == Encrypt(d)
           y == Go(u, "link_encrypted")
           said == {}
<1>1. x \in Handler /\ x.s \in Machine BY DEF CentralBegins, Handler
<1>2. k \in Keys BY <1>1, NewKeyType
<1> HIDE DEF g, k
<1>3. Moves(x, a, 0, "none", {}) /\ a \in Handler BY <1>1, CheckMoves DEF Moves
<1> HIDE DEF a
<1>4. Moves(a, d, 0, "none", {}) /\ d \in Handler
  BY <1>2, <1>3, KeepMoves DEF Moves
<1> HIDE DEF d
<1>5. Moves(d, u, 0, "none", {}) BY <1>4, EncryptMoves
<1> HIDE DEF u
<1>6. Moves(x, d, 0, "none", {}) BY <1>1, <1>3, <1>4, MovesFirst
<1>7. Moves(x, u, 0, "none", {}) BY <1>1, <1>5, <1>6, MovesFirst
<1>8. "link_encrypted" \in Steps BY DEF Steps
<1>9. Moves(x, y, 2, "none", said) /\ (y.ok => y.s.step = "link_encrypted")
  BY <1>1, <1>7, <1>8, SendsAndGoes
<1>10. said \subseteq Hints /\ ("input" \in said => Passkey) OBVIOUS
<1>11. Silences(x, y, "dhkey", said, "link_encrypted") BY DEF Silences, Encrypting
<1> HIDE DEF y, said
<1>12. CentralMove(x, y, "dhkey") BY <1>9, <1>10, <1>11, CentralSilent
<1> QED BY <1>12 DEF y, u, d, a, g, k

LEMMA CentralBreaksOff ==
  ASSUME NEW x \in Handler, NEW y, NEW c, Moves(x, y, 0, "none", {}), ~y.ok
  PROVE CentralMove(x, y, c)
<1> DEFINE said == {}
<1>1. said \subseteq Hints /\ ("input" \in said => Passkey) OBVIOUS
<1>2. Moves(x, y, 2, "none", said) BY MovesMore
<1> HIDE DEF said
<1> QED BY <1>1, <1>2 DEF CentralMove

LEMMA CentralCommandMoves ==
  ASSUME NEW x, CentralBegins(x), link \in Nat,
         NEW m \in Message, NEW b \in BOOLEAN, NEW shown \in Nat
  PROVE LET y == CentralCommand(x, m.k, m.v, b, shown)
        IN /\ CentralMove(x, y, m.k)
           /\ m.k = "failed" => ~y.ok
<1> DEFINE y == CentralCommand(x, m.k, m.v, b, shown)
           z == [x EXCEPT !.s.own = b]
<1>1. x \in Handler /\ x.s \in Machine /\ x.ok BY DEF CentralBegins, Handler
<1>2. m.k = "confirm" => m.v \in Commitments BY MessageKinds
<1>3. m.k = "random" => m.v[1] \in Nat BY MessageKinds
<1>4. ASSUME x.s.step = "idle" /\ m.k = "security"
      PROVE CentralMove(x, y, m.k)
  <2>1. y = Initiate(z) BY <1>4 DEF CentralCommand
  <2> DEFINE t == [x.s EXCEPT !.own = b]
             w == [x EXCEPT !.s = t]
  <2>2. t \in Machine /\ t.own = b BY <1>1 DEF Machine
  <2>3. z = w OBVIOUS
  <2> HIDE DEF t
  <2>4. Moves(x, w, 0, "none", {}) /\ w.s = t
    BY <1>1, <2>2, PutMoves DEF Handler
  <2> HIDE DEF w, z
  <2>5. CentralMove(x, Initiate(w), m.k)
    BY <1>1, <1>4, <2>2, <2>4, CentralInitiates
  <2> QED BY <1>4, <2>1, <2>3, <2>5
<1>5. ASSUME x.s.step = "response" /\ m.k = "security"
      PROVE CentralMove(x, y, m.k)
  <2> DEFINE said == {}
  <2>1. y = x BY <1>5 DEF CentralCommand
  <2>2. Still(x, x) BY <1>1 DEF Still
  <2>3. Moves(x, x, 0, "none", {}) BY <1>1, <2>2, StillMoves
  <2>4. Moves(x, x, 2, "none", said) BY <1>1, <2>3, MovesMore
  <2>5. said \subseteq Hints /\ ("input" \in said => Passkey) OBVIOUS
  <2>6. Silences(x, x, m.k, said, "response") BY <1>5 DEF Silences
  <2> HIDE DEF said, y
  <2>7. CentralMove(x, x, m.k) BY <1>5, <2>4, <2>5, <2>6, CentralSilent
  <2> QED BY <1>5, <2>1, <2>7
<1>6. ASSUME x.s.step = "response" /\ m.k = "response"
      PROVE CentralMove(x, y, m.k)
  <2> DEFINE p == m.v = <<1>>
             t == [x.s EXCEPT !.peer = p]
             w == [x EXCEPT !.s = t]
             u == Send(w, "public_key", <<>>)
             q == Go(u, "public_key")
  <2>1. y = Go(Send([x EXCEPT !.s.peer = m.v = <<1>>], "public_key", <<>>),
               "public_key")
    BY <1>6 DEF CentralCommand
  <2>2. [x EXCEPT !.s.peer = m.v = <<1>>] = w OBVIOUS
  <2> HIDE DEF p
  <2>3. p \in BOOLEAN BY DEF p
  <2>4. t \in Machine BY <1>1, <2>3 DEF Machine
  <2> HIDE DEF t
  <2>5. Moves(x, w, 0, "none", {}) /\ w \in Handler
    BY <1>1, <2>4, PutMoves DEF Moves
  <2> HIDE DEF w
  <2>6. [k |-> "public_key", v |-> <<>>] \in Message BY PlainKinds DEF Plain
  <2>7. Moves(w, u, 1, "public_key", {}) BY <2>5, <2>6, SendMoves
  <2> HIDE DEF u
  <2>8. Moves(x, u, 1, "public_key", {}) BY <1>1, <2>5, <2>7, MovesFirst
  <2>9. "public_key" \in Steps BY DEF Steps
  <2>10. Moves(x, q, 2, "public_key", {}) /\ (q.ok => q.s.step = "public_key")
    BY <1>1, <2>8, <2>9, SendsAndGoes
  <2> HIDE DEF y, q
  <2>11. CentralMove(x, q, m.k) BY <2>10, CentralSends DEF AsksUser
  <2> QED BY <1>6, <2>1, <2>2, <2>11 DEF q, u
<1>7. ASSUME x.s.step = "public_key" /\ m.k = "public_key"
      PROVE CentralMove(x, y, m.k)
  <2>1. CASE Passkey
    <3>1. y = CentralCommand(x, "public_key", m.v, b, shown) BY <1>7
    <3> QED BY <1>7, <2>1, <3>1, CentralKeyMoves
  <2>2. CASE ~Passkey
    <3> DEFINE q == Go(x, "numeric_confirm")
               said == {}
    <3>1. y = q BY <1>7, <2>2 DEF CentralCommand
    <3>2. Still(x, x) BY <1>1 DEF Still
    <3>3. Moves(x, x, 0, "none", said) BY <1>1, <3>2, StillMoves
    <3>4. "numeric_confirm" \in Steps BY DEF Steps
    <3>5. Moves(x, q, 2, "none", said) /\ (q.ok => q.s.step = "numeric_confirm")
      BY <1>1, <3>3, <3>4, SendsAndGoes
    <3>6. said \subseteq Hints /\ ("input" \in said => Passkey) OBVIOUS
    <3>7. Silences(x, q, m.k, said, "numeric_confirm")
      BY <1>7, <2>2 DEF Silences
    <3> HIDE DEF said, y, q
    <3>8. CentralMove(x, q, m.k) BY <3>5, <3>6, <3>7, CentralSilent
    <3> QED BY <1>7, <3>1, <3>8
  <2> QED BY <2>1, <2>2
<1>8. ASSUME x.s.step = "numeric_confirm" /\ m.k = "confirm"
      PROVE CentralMove(x, y, m.k)
  <2>1. y = Go(SendRandom(Draw([x EXCEPT !.s.confirm = m.v])), "numeric_random")
    BY <1>8 DEF CentralCommand
  <2>2. CentralMove(x, y, m.k) BY <1>2, <1>8, <2>1, CentralConfirmMoves
  <2> QED BY <1>8, <2>2
<1>9. ASSUME x.s.step = "numeric_random" /\ m.k = "random"
      PROVE CentralMove(x, y, m.k)
  <2>1. y = CentralNumeric(x, m.v) BY <1>9 DEF CentralCommand
  <2>2. CentralMove(x, y, m.k) BY <1>3, <1>9, <2>1, CentralRandomMoves
  <2> QED BY <1>9, <2>2
<1>10. ASSUME x.s.step = "input" /\ m.k = "confirm"
      PROVE CentralMove(x, y, m.k)
  <2>1. y = [x EXCEPT !.s.held = m.v] BY <1>10 DEF CentralCommand
  <2>2. CentralMove(x, y, m.k) BY <1>2, <1>10, <2>1, CentralConfirmMoves
  <2> QED BY <1>10, <2>2
<1>11. ASSUME x.s.step = "confirm" /\ m.k = "confirm"
      PROVE CentralMove(x, y, m.k)
  <2>1. y = Go(SendRandom([x EXCEPT !.s.confirm = m.v]), "random")
    BY <1>11 DEF CentralCommand
  <2>2. CentralMove(x, y, m.k) BY <1>2, <1>11, <2>1, CentralConfirmMoves
  <2> QED BY <1>11, <2>2
<1>12. ASSUME x.s.step = "random" /\ m.k = "random"
      PROVE CentralMove(x, y, m.k)
  <2>1. y = CentralRandom(x, m.v) BY <1>12 DEF CentralCommand
  <2>2. CentralMove(x, y, m.k) BY <1>3, <1>12, <2>1, CentralRandomMoves
  <2> QED BY <1>12, <2>2
<1>13. ASSUME x.s.step = "dhkey_eb" /\ m.k = "dhkey"
      PROVE CentralMove(x, y, m.k)
  <2>1. y = Go(Encrypt(Keep("central", Check(x, CheckMatches(x, m.v)),
                            NewKey("central", x.s))), "link_encrypted")
    BY <1>13 DEF CentralCommand
  <2>2. CentralMove(x, y, m.k) BY <1>13, <2>1, CentralCheckMoves
  <2> QED BY <1>13, <2>2
<1>14. ASSUME y = Refuse(x)
      PROVE CentralMove(x, y, m.k)
  <2>1. ~y.ok /\ Moves(x, y, 0, "none", {})
    <3> HIDE DEF y
    <3> QED BY <1>1, <1>14, FailMoves
  <2> HIDE DEF y
  <2> QED BY <1>1, <2>1, CentralBreaksOff
<1>15. \/ x.s.step = "idle" /\ m.k = "security"
       \/ x.s.step = "response" /\ m.k = "security"
       \/ x.s.step = "response" /\ m.k = "response"
       \/ x.s.step = "public_key" /\ m.k = "public_key"
       \/ x.s.step = "numeric_confirm" /\ m.k = "confirm"
       \/ x.s.step = "numeric_random" /\ m.k = "random"
       \/ x.s.step = "input" /\ m.k = "confirm"
       \/ x.s.step = "confirm" /\ m.k = "confirm"
       \/ x.s.step = "random" /\ m.k = "random"
       \/ x.s.step = "dhkey_eb" /\ m.k = "dhkey"
       \/ y = Refuse(x)
  BY DEF CentralCommand
<1> HIDE DEF y, z
<1>16. CentralMove(x, y, m.k)
  BY <1>4, <1>5, <1>6, <1>7, <1>8, <1>9, <1>10, <1>11, <1>12, <1>13, <1>14,
     <1>15
<1>17. m.k = "failed" => ~y.ok
  BY <1>1, <1>15, FailDoes
<1> QED BY <1>16, <1>17 DEF y

LEMMA AnswerSends ==
  ASSUME NEW e, NEW x, NEW y, NEW event, NEW k, NEW step,
         Moves(x, y, 2, k, {}), k \notin {"none", "public_key"},
         y.ok => y.s.step = step,
         step \notin {"result", "input", "response"}
  PROVE AnswerMove(e, x, y, event)
<1> DEFINE said == {}
<1>1. said \subseteq {"failed"} /\ Moves(x, y, 2, k, said) OBVIOUS
<1> HIDE DEF said
<1> QED BY <1>1 DEF AnswerMove

LEMMA AnswerSilent ==
  ASSUME NEW e, NEW x, NEW y, NEW event,
         Moves(x, y, 2, "none", {}), y.ok => Unasks(e, x, y, event)
  PROVE AnswerMove(e, x, y, event)
<1> DEFINE said == {}
<1>1. said \subseteq {"failed"} /\ Moves(x, y, 2, "none", said) OBVIOUS
<1> HIDE DEF said
<1> QED BY <1>1 DEF AnswerMove

LEMMA ErrsMoves ==
  ASSUME NEW x \in Handler
  PROVE Moves(x, Errs(x), 0, "none", {"failed"}) /\ ~Errs(x).ok
<1> DEFINE t == [x.s EXCEPT !.step = "error"]
           z == [x EXCEPT !.s = t]
           u == Tell(z, "failed")
           y == Fail(u)
<1>1. x.s \in Machine /\ "error" \in Steps /\ "failed" \in News
  BY DEF Handler, Steps, News
<1>2. t \in Machine BY <1>1 DEF Machine
<1>3. [x EXCEPT !.s.step = "error"] = z OBVIOUS
<1> HIDE DEF t
<1>4. Moves(x, z, 0, "none", {}) /\ z \in Handler
  BY <1>2, PutMoves DEF Moves
<1> HIDE DEF z
<1>5. Moves(z, u, 0, "none", {"failed"}) /\ u \in Handler
  BY <1>1, <1>4, TellMoves DEF Moves
<1> HIDE DEF u
<1>6. Moves(x, u, 0, "none", {"failed"}) BY <1>4, <1>5, MovesFirst
<1>7. Moves(u, y, 0, "none", {}) /\ ~y.ok BY <1>5, FailMoves
<1> HIDE DEF y
<1>8. Moves(x, y, 0, "none", {"failed"}) BY <1>6, <1>7, MovesThen
<1> QED BY <1>3, <1>7, <1>8 DEF Errs, y, u

LEMMA AnswerErrs ==
  ASSUME NEW e, NEW x \in Handler, NEW event
  PROVE AnswerMove(e, x, Errs(x), event)
<1> DEFINE y == Errs(x)
           said == {"failed"}
<1>1. Moves(x, y, 0, "none", said) /\ ~y.ok BY ErrsMoves
<1> HIDE DEF y
<1>2. Moves(x, y, 2, "none", said) BY <1>1, MovesMore
<1>3. said \subseteq {"failed"} OBVIOUS
<1> HIDE DEF said
<1>4. AnswerMove(e, x, y, event) BY <1>1, <1>2, <1>3 DEF AnswerMove
<1> QED BY <1>4 DEF y

LEMMA AnswerKeeps ==
  ASSUME NEW e, NEW x \in Handler, NEW event,
         \/ event = "yes" /\ x.s.step # "result"
         \/ event = "key" /\ x.s.step # "input"
  PROVE AnswerMove(e, x, x, event)
<1>1. Moves(x, x, 0, "none", {}) BY StillMoves DEF Still
<1>2. Moves(x, x, 2, "none", {}) BY <1>1, MovesMore
<1>3. Unasks(e, x, x, event) BY DEF Unasks
<1> QED BY <1>2, <1>3, AnswerSilent

(* Messages that end a move, and end in a step that asks nobody.            *)
LEMMA CentralEventMoves ==
  ASSUME NEW x, CentralBegins(x), NEW k \in Nat, NEW event \in {"yes", "key"}
  PROVE AnswerMove("central", x, CentralEvent(x, event, k), event)
<1> DEFINE y == CentralEvent(x, event, k)
<1>1. x \in Handler /\ x.s \in Machine BY DEF CentralBegins, Handler
<1>0. {"dhkey_eb", "confirm", "random"} \subseteq Steps BY DEF Steps
<1>2. ASSUME event = "yes", x.s.step = "result"
      PROVE AnswerMove("central", x, y, event)
  <2> DEFINE u == SendCheck(x)
             q == Go(u, "dhkey_eb")
  <2>1. y = q BY <1>2 DEF CentralEvent
  <2>2. Moves(x, u, 1, "dhkey", {}) BY <1>1, SendCheckMoves
  <2> HIDE DEF u
  <2>3. Moves(x, q, 2, "dhkey", {}) /\ (q.ok => q.s.step = "dhkey_eb")
    BY <1>0, <1>1, <2>2, SendsAndGoes
  <2> HIDE DEF q, y
  <2>4. AnswerMove("central", x, q, event) BY <2>3, AnswerSends
  <2> QED BY <2>1, <2>4
<1>3. ASSUME event = "key", x.s.step = "input"
      PROVE AnswerMove("central", x, y, event)
  <2> DEFINE d == SetSecret(x, k)
             u == SendConfirm(d, 0)
             t == [u.s EXCEPT !.confirm = x.s.held]
             w == [u EXCEPT !.s = t]
             r == SendRandom(w)
             y1 == GoRound(u, "confirm", 0)
             y2 == GoRound(r, "random", 0)
  <2>1. y = IF x.s.held = <<>> THEN y1
            ELSE GoRound(SendRandom([u EXCEPT !.s.confirm = x.s.held]), "random", 0)
    BY <1>3 DEF CentralEvent
  <2>2. Moves(x, d, 0, "none", {}) /\ d \in Handler
    BY <1>1, SetSecretMoves DEF Moves
  <2> HIDE DEF d
  <2>3. Moves(d, u, 1, "confirm", {}) /\ u \in Handler
    BY <2>2, SendConfirmMoves DEF Moves
  <2> HIDE DEF u
  <2>4. Moves(x, u, 1, "confirm", {}) BY <1>1, <2>2, <2>3, MovesFirst
  <2>5. t \in Machine
    <3>1. u.s \in Machine BY <2>3 DEF Handler
    <3> QED BY <1>1, <3>1 DEF Machine
  <2>6. [u EXCEPT !.s.confirm = x.s.held] = w OBVIOUS
  <2> HIDE DEF t
  <2>7. Moves(u, w, 0, "none", {}) /\ w \in Handler
    BY <2>3, <2>5, PutMoves DEF Moves
  <2> HIDE DEF w
  <2>8. Moves(w, r, 1, "random", {}) BY <2>7, SendRandomMoves
  <2> HIDE DEF r
  <2>9. Moves(x, w, 1, "confirm", {}) BY <1>1, <2>4, <2>7, MovesThen
  <2>10. Moves(x, r, 1 + 1, IF "random" = "none" THEN "confirm" ELSE "random",
               {} \cup {})
    BY <1>1, <2>8, <2>9, MovesBoth
  <2>11. Moves(x, r, 2, "random", {}) BY <2>10
  <2>12. Moves(x, y1, 2, "confirm", {}) /\ (y1.ok => y1.s.step = "confirm")
    BY <1>0, <1>1, <2>4, SendsAndRounds
  <2>13. Moves(x, y2, 2, "random", {}) /\ (y2.ok => y2.s.step = "random")
    BY <1>0, <1>1, <2>11, SendsAndRounds
  <2>16. y = IF x.s.held = <<>> THEN y1 ELSE y2 BY <2>1, <2>6 DEF y2, r
  <2> HIDE DEF y, y1, y2
  <2>14. AnswerMove("central", x, y1, event) BY <2>12, AnswerSends
  <2>15. AnswerMove("central", x, y2, event) BY <2>13, AnswerSends
  <2> QED BY <2>14, <2>15, <2>16
<1>4. \/ event = "yes" /\ x.s.step = "result"
      \/ event = "key" /\ x.s.step = "input"
      \/ event = "yes" /\ x.s.step # "result" /\ y = x
      \/ y = Errs(x)
  BY DEF CentralEvent
<1> HIDE DEF y
<1>5. AnswerMove("central", x, y, event)
  BY <1>1, <1>2, <1>3, <1>4, AnswerErrs, AnswerKeeps
<1> QED BY <1>5 DEF y

LEMMA HandleCheckMoves ==
  ASSUME NEW x \in Handler, link \in Nat, NEW v
  PROVE /\ Moves(x, HandleCheck(x, v), 2, "dhkey", {})
        /\ HandleCheck(x, v).ok => HandleCheck(x, v).s.step = "link_encrypted"
<1> DEFINE g == CheckMatches(x, v)
           k == NewKey("peripheral", x.s)
           a == Check(x, g)
           c == SendCheck(a)
           d == Keep("peripheral", c, k)
           u == Encrypt(d)
           y == Go(u, "link_encrypted")
<1>1. x.s \in Machine BY DEF Handler
<1>2. k \in Keys BY <1>1, NewKeyType
<1> HIDE DEF g, k
<1>3. Moves(x, a, 0, "none", {}) /\ a \in Handler BY CheckMoves DEF Moves
<1> HIDE DEF a
<1>4. Moves(a, c, 1, "dhkey", {}) /\ c \in Handler
  BY <1>3, SendCheckMoves DEF Moves
<1> HIDE DEF c
<1>5. Moves(c, d, 0, "none", {}) /\ d \in Handler
  BY <1>2, <1>4, KeepMoves DEF Moves
<1> HIDE DEF d
<1>6. Moves(d, u, 0, "none", {}) BY <1>5, EncryptMoves
<1> HIDE DEF u
<1>7. Moves(x, c, 1, "dhkey", {}) BY <1>3, <1>4, MovesFirst
<1>8. Moves(x, d, 1, "dhkey", {}) BY <1>5, <1>7, MovesThen
<1>9. Moves(x, u, 1, "dhkey", {}) BY <1>6, <1>8, MovesThen
<1>10. "link_encrypted" \in Steps BY DEF Steps
<1>11. Moves(x, y, 2, "dhkey", {}) /\ (y.ok => y.s.step = "link_encrypted")
  BY <1>9, <1>10, SendsAndGoes
<1>12. HandleCheck(x, v) = y BY DEF HandleCheck, y, u, d, c, a, g, k
<1> HIDE DEF y
<1> QED BY <1>11, <1>12

LEMMA HandleConfirmMoves ==
  ASSUME NEW x \in Handler, NEW v \in Nothing \cup Commitments \cup Checks,
         NEW r \in Nat
  PROVE /\ Moves(x, HandleConfirm(x, v, r), 2, "confirm", {})
        /\ HandleConfirm(x, v, r).ok => HandleConfirm(x, v, r).s.step = "random"
<1> DEFINE t == [x.s EXCEPT !.confirm = v]
           z == [x EXCEPT !.s = t]
           u == SendConfirm(z, r)
           y == GoRound(u, "random", r)
<1>1. x.s \in Machine BY DEF Handler
<1>2. t \in Machine BY <1>1 DEF Machine
<1>3. [x EXCEPT !.s.confirm = v] = z OBVIOUS
<1> HIDE DEF t
<1>4. Moves(x, z, 0, "none", {}) /\ z \in Handler
  BY <1>2, PutMoves DEF Moves
<1> HIDE DEF z
<1>5. Moves(z, u, 1, "confirm", {}) BY <1>4, SendConfirmMoves
<1> HIDE DEF u
<1>6. Moves(x, u, 1, "confirm", {}) BY <1>4, <1>5, MovesFirst
<1>7. "random" \in Steps BY DEF Steps
<1>8. Moves(x, y, 2, "confirm", {}) /\ (y.ok => y.s.step = "random")
  BY <1>6, <1>7, SendsAndRounds
<1>9. HandleConfirm(x, v, r) = y BY <1>3 DEF HandleConfirm, y, u
<1> HIDE DEF y
<1> QED BY <1>8, <1>9

LEMMA PeripheralSends ==
  ASSUME NEW x, NEW y, NEW c, NEW k,
         NEW said, said \subseteq Hints, NEW step,
         Moves(x, y, 2, k, said), k # "none",
         y.ok => y.s.step = step,
         "input" \in said => Passkey,
         c = "request" => k = "response",
         k = "public_key" => Passkey,
         step = "result" => "confirm" \in said,
         step = "input" => "input" \in said
  PROVE PeripheralMove(x, y, c)
  BY DEF PeripheralMove

LEMMA PeripheralKeyMoves ==
  ASSUME NEW x, PeripheralBegins(x), x.s.step = "public_key",
         NEW shown \in Nat, NEW v, NEW b
  PROVE PeripheralMove(x, PeripheralCommand(x, "public_key", v, b, shown),
                       "public_key")
<1> DEFINE z == Send(x, "public_key", <<>>)
           y == PeripheralCommand(x, "public_key", v, b, shown)
<1>1. x \in Handler BY DEF PeripheralBegins
<1>2. {"display", "input"} \subseteq News
      /\ {"confirm", "input", "numeric_random"} \subseteq Steps
  BY DEF News, Steps
<1>3. [k |-> "public_key", v |-> <<>>] \in Message BY PlainKinds DEF Plain
<1>4. Moves(x, z, 1, "public_key", {}) /\ z \in Handler
  BY <1>1, <1>3, SendMoves DEF Moves
<1>5. y = IF Displays("peripheral")
          THEN GoRound(SetSecret(Tell(z, "display"), shown), "confirm", 0)
          ELSE IF Passkey THEN Go(Tell(z, "input"), "input")
          ELSE Go(SendConfirm(z, 0), "numeric_random")
  BY DEF PeripheralCommand
<1>6. Displays("peripheral") => Passkey BY DEF Displays, Passkey
<1> HIDE DEF z, y
<1>7. ASSUME NEW n \in News, NEW a, a = Tell(z, n)
      PROVE Moves(x, a, 1, "public_key", {n}) /\ a \in Handler
  <2>1. Moves(z, a, 0, "none", {n}) /\ a \in Handler
    BY <1>4, <1>7, TellMoves DEF Moves
  <2> DEFINE said == {n}
  <2>2. Moves(z, a, 0, "none", said) BY <2>1
  <2> HIDE DEF said
  <2>3. Moves(x, a, 1 + 0, IF "none" = "none" THEN "public_key" ELSE "none",
              {} \cup said)
    BY <1>1, <1>4, <2>2, MovesBoth
  <2>4. {} \cup said = said /\ 1 + 0 = 1 OBVIOUS
  <2> QED BY <2>1, <2>3, <2>4 DEF said
<1>8. ASSUME Displays("peripheral") PROVE PeripheralMove(x, y, "public_key")
  <2> DEFINE a == Tell(z, "display")
             d == SetSecret(a, shown)
             q == GoRound(d, "confirm", 0)
  <2>1. y = q BY <1>5, <1>8
  <2>2. Moves(x, a, 1, "public_key", {"display"}) /\ a \in Handler
    BY <1>2, <1>7
  <2> HIDE DEF a
  <2>3. Moves(a, d, 0, "none", {}) BY <2>2, SetSecretMoves
  <2> HIDE DEF d
  <2>4. Moves(x, d, 1, "public_key", {"display"})
    BY <1>1, <2>2, <2>3, MovesThen
  <2>5. Moves(x, q, 2, "public_key", {"display"}) /\ (q.ok => q.s.step = "confirm")
    BY <1>1, <1>2, <2>4, SendsAndRounds
  <2> HIDE DEF q
  <2>7. {"display"} \subseteq Hints BY DEF Hints, News
  <2>6. PeripheralMove(x, q, "public_key")
    BY <1>6, <1>8, <2>5, <2>7, PeripheralSends
  <2> QED BY <2>1, <2>6
<1>9. ASSUME ~Displays("peripheral"), Passkey
      PROVE PeripheralMove(x, y, "public_key")
  <2> DEFINE a == Tell(z, "input")
             q == Go(a, "input")
  <2>1. y = q BY <1>5, <1>9
  <2>2. Moves(x, a, 1, "public_key", {"input"}) BY <1>2, <1>7
  <2> HIDE DEF a
  <2>3. Moves(x, q, 2, "public_key", {"input"}) /\ (q.ok => q.s.step = "input")
    BY <1>1, <1>2, <2>2, SendsAndGoes
  <2> HIDE DEF q
  <2>5. {"input"} \subseteq Hints BY DEF Hints, News
  <2>4. PeripheralMove(x, q, "public_key") BY <1>9, <2>3, <2>5, PeripheralSends
  <2> QED BY <2>1, <2>4
<1>10. ASSUME ~Passkey PROVE PeripheralMove(x, y, "public_key")
  <2> DEFINE a == SendConfirm(z, 0)
             q == Go(a, "numeric_random")
  <2>1. y = q BY <1>5, <1>6, <1>10
  <2>2. Moves(z, a, 1, "confirm", {}) BY <1>4, SendConfirmMoves
  <2> HIDE DEF a
  <2>3. Moves(x, a, 1 + 1, IF "confirm" = "none" THEN "public_key" ELSE "confirm",
              {} \cup {})
    BY <1>1, <1>4, <2>2, MovesBoth
  <2>4. Moves(x, a, 2, "confirm", {}) BY <2>3
  <2>5. Moves(x, q, 2, "confirm", {}) /\ (q.ok => q.s.step = "numeric_random")
    BY <1>1, <1>2, <2>4, SendsAndGoes
  <2> DEFINE said == {}
  <2>7. said \subseteq Hints OBVIOUS
  <2>8. Moves(x, q, 2, "confirm", said) /\ "input" \notin said BY <2>5
  <2> HIDE DEF q, said
  <2>6. PeripheralMove(x, q, "public_key") BY <2>5, <2>7, <2>8, PeripheralSends
  <2> QED BY <2>1, <2>6
<1> QED BY <1>8, <1>9, <1>10 DEF y

LEMMA PeripheralRandomMoves ==
  ASSUME NEW x, PeripheralBegins(x), NEW v, v[1] \in Nat
  PROVE /\ PeripheralMove(x, PeripheralRandom(x, v), "random")
        /\ PeripheralMove(x, PeripheralNumeric(x, v), "random")
<1>1. x \in Handler /\ x.s \in Machine BY DEF PeripheralBegins, Handler
<1>2. /\ {"dhkey_ea", "confirm", "result"} \subseteq Steps /\ "confirm" \in News
      /\ x.s.round + 1 \in Nat
  BY <1>1 DEF Steps, News, Machine
<1> DEFINE n == v[1]
           g == (x.s.confirm = <<v[1], Bit(x.s.secret, x.s.round)>>)
           t == [x.s EXCEPT !.peernonce = n]
           z == [x EXCEPT !.s = t]
           a == Check(z, g)
           d == SendRandom(a)
           e == SendRandom(z)
<1>3. [x EXCEPT !.s.peernonce = v[1]] = z OBVIOUS
<1>4. n \in Nat OBVIOUS
<1>5. PeripheralRandom(x, v) =
        IF x.s.round = Rounds - 1 THEN Go(d, "dhkey_ea")
        ELSE GoRound(d, "confirm", x.s.round + 1)
  BY <1>3 DEF PeripheralRandom
<1>6. PeripheralNumeric(x, v) =
        IF Method = "just_works" THEN Go(e, "dhkey_ea")
        ELSE Go(Tell(e, "confirm"), "result")
  BY <1>3 DEF PeripheralNumeric
<1> HIDE DEF n, g
<1>7. t \in Machine BY <1>1, <1>4 DEF Machine
<1> HIDE DEF t
<1>8. Moves(x, z, 0, "none", {}) /\ z \in Handler
  BY <1>1, <1>7, PutMoves DEF Moves
<1> HIDE DEF z
<1>9. Moves(z, a, 0, "none", {}) /\ a \in Handler BY <1>8, CheckMoves DEF Moves
<1> HIDE DEF a
<1>10. /\ Moves(a, d, 1, "random", {}) /\ Moves(z, e, 1, "random", {})
       /\ e \in Handler
  BY <1>8, <1>9, SendRandomMoves DEF Moves
<1> HIDE DEF d, e
<1>11. Moves(x, a, 0, "none", {}) BY <1>1, <1>8, <1>9, MovesFirst
<1>12. Moves(x, d, 1, "random", {}) /\ Moves(x, e, 1, "random", {})
  BY <1>1, <1>8, <1>10, <1>11, MovesFirst
<1> DEFINE said == {}
<1>13. said \subseteq Hints /\ "input" \notin said OBVIOUS
<1>14. Moves(x, d, 1, "random", said) /\ Moves(x, e, 1, "random", said)
  BY <1>12
<1> HIDE DEF said
<1>15. ASSUME NEW w, Moves(x, w, 1, "random", said)
       PROVE PeripheralMove(x, Go(w, "dhkey_ea"), "random")
  <2> DEFINE q == Go(w, "dhkey_ea")
  <2>1. Moves(x, q, 2, "random", said) /\ (q.ok => q.s.step = "dhkey_ea")
    BY <1>1, <1>2, <1>15, SendsAndGoes
  <2> HIDE DEF q
  <2>2. PeripheralMove(x, q, "random") BY <1>13, <2>1, PeripheralSends
  <2> QED BY <2>2 DEF q
<1>16. PeripheralMove(x, GoRound(d, "confirm", x.s.round + 1), "random")
  <2> DEFINE q == GoRound(d, "confirm", x.s.round + 1)
  <2>1. Moves(x, q, 2, "random", said) /\ (q.ok => q.s.step = "confirm")
    BY <1>1, <1>2, <1>14, SendsAndRounds
  <2> HIDE DEF q
  <2>2. PeripheralMove(x, q, "random") BY <1>13, <2>1, PeripheralSends
  <2> QED BY <2>2 DEF q
<1>17. PeripheralMove(x, Go(Tell(e, "confirm"), "result"), "random")
  <2> DEFINE u == Tell(e, "confirm")
             q == Go(u, "result")
             told == {"confirm"}
  <2>1. Moves(e, u, 0, "none", told) BY <1>2, <1>10, TellMoves
  <2> HIDE DEF u
  <2>2. told \subseteq Hints /\ "input" \notin told /\ "confirm" \in told
    BY DEF Hints, News
  <2> HIDE DEF told
  <2>3. Moves(x, u, 1 + 0, IF "none" = "none" THEN "random" ELSE "none",
              {} \cup told)
    BY <1>1, <1>12, <2>1, MovesBoth
  <2>4. Moves(x, u, 1, "random", told)
    <3>1. 1 + 0 = 1 /\ {} \cup told = told OBVIOUS
    <3> QED BY <2>3, <3>1
  <2>5. Moves(x, q, 2, "random", told) /\ (q.ok => q.s.step = "result")
    BY <1>1, <1>2, <2>4, SendsAndGoes
  <2> HIDE DEF q
  <2>6. PeripheralMove(x, q, "random") BY <2>2, <2>5, PeripheralSends
  <2> QED BY <2>6 DEF q, u
<1> QED BY <1>5, <1>6, <1>14, <1>15, <1>16, <1>17

LEMMA HoldsMoves ==
  ASSUME NEW x, PeripheralBegins(x), NEW v \in Commitments \cup Checks,
         x.s.step \in AsksUser, NEW c, c # "request"
  PROVE PeripheralMove(x, [x EXCEPT !.s.held = v], c)
<1> DEFINE t == [x.s EXCEPT !.held = v]
           y == [x EXCEPT !.s = t]
           said == {}
<1>1. x \in Handler /\ x.s \in Machine BY DEF PeripheralBegins, Handler
<1>2. t \in Machine /\ t.step = x.s.step /\ t.held = v BY <1>1 DEF Machine
<1>3. [x EXCEPT !.s.held = v] = y OBVIOUS
<1>4. v # <<>>
  <2>1. CASE v \in Checks
    <3>1. PICK i \in Nat, j \in Nat, k \in Nat : v = <<i, j, k>>
      BY <2>1 DEF Checks
    <3> QED BY <3>1
  <2>2. CASE v \in Commitments
    <3>1. PICK n \in Nat, k \in Nat, r \in Nat : v = <<n, Bit(k, r)>>
      BY <2>2 DEF Commitments
    <3> QED BY <3>1
  <2> QED BY <2>1, <2>2
<1> HIDE DEF t
<1>5. Moves(x, y, 0, "none", {}) /\ y.s = t
  BY <1>1, <1>2, PutMoves DEF Handler
<1> HIDE DEF y
<1>6. Moves(x, y, 2, "none", said) BY <1>1, <1>5, MovesMore
<1>7. said \subseteq Hints /\ "input" \notin said OBVIOUS
<1> HIDE DEF said
<1>8. PeripheralMove(x, y, c)
  BY <1>2, <1>4, <1>5, <1>6, <1>7 DEF PeripheralMove
<1> QED BY <1>3, <1>8

LEMMA PeripheralCommandMoves ==
  ASSUME NEW x, PeripheralBegins(x), link \in Nat,
         NEW m \in Message, NEW b \in BOOLEAN, NEW shown \in Nat
  PROVE LET y == PeripheralCommand(x, m.k, m.v, b, shown)
        IN /\ PeripheralMove(x, y, m.k)
           /\ m.k = "failed" => ~y.ok
<1> DEFINE y == PeripheralCommand(x, m.k, m.v, b, shown)
           at(step, command) == x.s.step = step /\ m.k = command
           said == {}
<1>1. x \in Handler /\ x.s \in Machine /\ x.s.round \in Nat
  BY DEF PeripheralBegins, Handler, Machine
<1>0. said \subseteq Hints /\ "input" \notin said OBVIOUS
<1>2. ASSUME at("pairing_request", "request") PROVE PeripheralMove(x, y, m.k)
  <2> DEFINE p == m.v = <<1>>
             t == [x.s EXCEPT !.own = b, !.peer = p]
             w == [x EXCEPT !.s = t]
             u == Send(w, "response", <<Flag(b)>>)
             q == Go(u, "public_key")
  <2>1. y = Go(Send([x EXCEPT !.s = [@ EXCEPT !.own = b, !.peer = m.v = <<1>>]],
                    "response", <<Flag(b)>>), "public_key")
    BY <1>2 DEF PeripheralCommand
  <2>2. [x EXCEPT !.s = [@ EXCEPT !.own = b, !.peer = m.v = <<1>>]] = w OBVIOUS
  <2> HIDE DEF p
  <2>3. p \in BOOLEAN BY DEF p
  <2>4. t \in Machine BY <1>1, <2>3 DEF Machine
  <2> HIDE DEF t
  <2>5. Moves(x, w, 0, "none", {}) /\ w \in Handler
    BY <1>1, <2>4, PutMoves DEF Moves
  <2> HIDE DEF w
  <2>6. [k |-> "response", v |-> <<Flag(b)>>] \in Message
    BY DEF Message, FlagMsgs, Flagged, Flag
  <2>7. Moves(w, u, 1, "response", {}) BY <2>5, <2>6, SendMoves
  <2> HIDE DEF u
  <2>8. Moves(x, u, 1, "response", {}) BY <1>1, <2>5, <2>7, MovesFirst
  <2>9. "public_key" \in Steps BY DEF Steps
  <2>10. Moves(x, q, 2, "response", said) /\ (q.ok => q.s.step = "public_key")
    BY <1>1, <2>8, <2>9, SendsAndGoes
  <2> HIDE DEF y, q, said
  <2>11. PeripheralMove(x, q, m.k) BY <1>0, <2>10, PeripheralSends
  <2> QED BY <1>2, <2>1, <2>2, <2>11 DEF q, u
<1>3. ASSUME at("public_key", "public_key") PROVE PeripheralMove(x, y, m.k)
  <2>1. y = PeripheralCommand(x, "public_key", m.v, b, shown) BY <1>3
  <2> QED BY <1>3, <2>1, PeripheralKeyMoves
<1>4. ASSUME at("numeric_random", "random") \/ at("random", "random")
      PROVE PeripheralMove(x, y, m.k)
  <2>1. y = IF x.s.step = "random" THEN PeripheralRandom(x, m.v)
            ELSE PeripheralNumeric(x, m.v)
    BY <1>4 DEF PeripheralCommand
  <2>2. m.v[1] \in Nat BY <1>4, MessageKinds
  <2> QED BY <1>4, <2>1, <2>2, PeripheralRandomMoves
<1>5. ASSUME (at("result", "dhkey") /\ x.s.held = <<>>) \/ at("input", "confirm")
      PROVE PeripheralMove(x, y, m.k)
  <2> DEFINE v == m.v
  <2>1. y = [x EXCEPT !.s.held = v] BY <1>5 DEF PeripheralCommand
  <2>2. v \in Commitments \cup Checks BY <1>5, MessageKinds
  <2> HIDE DEF v
  <2>3. x.s.step \in AsksUser /\ m.k # "request" BY <1>5 DEF AsksUser
  <2> QED BY <2>1, <2>2, <2>3, HoldsMoves
<1>7. ASSUME at("confirm", "confirm") PROVE PeripheralMove(x, y, m.k)
  <2> DEFINE v == m.v
             q == HandleConfirm(x, v, x.s.round)
  <2>1. y = q BY <1>7 DEF PeripheralCommand
  <2>2. v \in Nothing \cup Commitments \cup Checks BY <1>7, MessageKinds
  <2> HIDE DEF v
  <2>3. Moves(x, q, 2, "confirm", said) /\ (q.ok => q.s.step = "random")
    BY <1>1, <2>2, HandleConfirmMoves
  <2> HIDE DEF q, y, said
  <2>4. PeripheralMove(x, q, m.k) BY <1>0, <1>7, <2>3, PeripheralSends
  <2> QED BY <2>1, <2>4
<1>8. ASSUME at("dhkey_ea", "dhkey") PROVE PeripheralMove(x, y, m.k)
  <2> DEFINE q == HandleCheck(x, m.v)
  <2>1. y = q BY <1>8 DEF PeripheralCommand
  <2>3. Moves(x, q, 2, "dhkey", said) /\ (q.ok => q.s.step = "link_encrypted")
    BY <1>1, HandleCheckMoves
  <2> HIDE DEF q, y, said
  <2>4. PeripheralMove(x, q, m.k) BY <1>0, <1>8, <2>3, PeripheralSends
  <2> QED BY <2>1, <2>4
<1>9. ASSUME y = Refuse(x) PROVE PeripheralMove(x, y, m.k)
  <2>1. ~y.ok /\ Moves(x, y, 0, "none", {})
    <3> HIDE DEF y
    <3> QED BY <1>1, <1>9, FailMoves
  <2> HIDE DEF y
  <2>2. Moves(x, y, 2, "none", said) BY <1>1, <2>1, MovesMore
  <2> HIDE DEF said
  <2> QED BY <1>0, <2>1, <2>2 DEF PeripheralMove
<1>10. \/ at("pairing_request", "request")
       \/ at("public_key", "public_key")
       \/ at("numeric_random", "random") \/ at("random", "random")
       \/ at("result", "dhkey") /\ x.s.held = <<>>
       \/ at("input", "confirm")
       \/ at("confirm", "confirm")
       \/ at("dhkey_ea", "dhkey")
       \/ y = Refuse(x)
  BY DEF PeripheralCommand
<1>11. PeripheralMove(x, y, m.k)
  <2> HIDE DEF y, at
  <2> QED BY <1>2, <1>3, <1>4, <1>5, <1>7, <1>8, <1>9, <1>10
<1>12. m.k = "failed" => ~y.ok
  <2> HIDE DEF y
  <2> QED BY <1>1, <1>10, FailDoes
<1> QED BY <1>11, <1>12

LEMMA PeripheralEventMoves ==
  ASSUME NEW x, PeripheralBegins(x), link \in Nat, NEW k \in Nat,
         NEW event \in {"yes", "key"}
  PROVE AnswerMove("peripheral", x, PeripheralEvent(x, event, k), event)
<1> DEFINE y == PeripheralEvent(x, event, k)
<1>1. x \in Handler /\ x.s \in Machine BY DEF PeripheralBegins, Handler
<1>0. {"dhkey_ea", "confirm"} \subseteq Steps BY DEF Steps
<1>2. ASSUME event = "yes", x.s.step = "result"
      PROVE AnswerMove("peripheral", x, y, event)
  <2> DEFINE q == Go(x, "dhkey_ea")
             u == HandleCheck(x, x.s.held)
  <2>1. y = IF x.s.held = <<>> THEN q ELSE u BY <1>2 DEF PeripheralEvent, Accept
  <2>2. Still(x, x) BY <1>1 DEF Still
  <2>3. Moves(x, x, 0, "none", {}) BY <1>1, <2>2, StillMoves
  <2>4. Moves(x, q, 2, "none", {}) /\ (q.ok => q.s.step = "dhkey_ea")
    BY <1>0, <1>1, <2>3, SendsAndGoes
  <2>5. Moves(x, u, 2, "dhkey", {}) /\ (u.ok => u.s.step = "link_encrypted")
    BY <1>1, HandleCheckMoves
  <2> HIDE DEF q, u, y
  <2>6. x.s.held = <<>> => AnswerMove("peripheral", x, q, event)
    <3> SUFFICES ASSUME x.s.held = <<>>
                 PROVE AnswerMove("peripheral", x, q, event)
      OBVIOUS
    <3>1. q.ok => Unasks("peripheral", x, q, event)
      BY <1>2, <2>4 DEF Unasks, AsksUser
    <3> QED BY <2>4, <3>1, AnswerSilent
  <2>7. AnswerMove("peripheral", x, u, event) BY <2>5, AnswerSends
  <2> QED BY <2>1, <2>6, <2>7
<1>3. ASSUME event = "key", x.s.step = "input"
      PROVE AnswerMove("peripheral", x, y, event)
  <2> DEFINE d == SetSecret(x, k)
             h == x.s.held
             q == GoRound(d, "confirm", 0)
             u == HandleConfirm(d, h, 0)
  <2>1. y = IF h = <<>> THEN q ELSE u BY <1>3 DEF PeripheralEvent
  <2>2. Moves(x, d, 0, "none", {}) /\ d \in Handler
    BY <1>1, SetSecretMoves DEF Moves
  <2>3. h \in Nothing \cup Commitments \cup Checks BY <1>1 DEF Machine
  <2> HIDE DEF d
  <2>4. Moves(x, q, 2, "none", {}) /\ (q.ok => q.s.step = "confirm")
    BY <1>0, <1>1, <2>2, SendsAndRounds
  <2> HIDE DEF h
  <2>5. Moves(d, u, 2, "confirm", {}) /\ (u.ok => u.s.step = "random")
    BY <2>2, <2>3, HandleConfirmMoves
  <2> HIDE DEF q, u, y
  <2>6. Moves(x, u, 2, "confirm", {}) BY <1>1, <2>2, <2>5, MovesFirst
  <2>7. h = <<>> => AnswerMove("peripheral", x, q, event)
    <3> SUFFICES ASSUME h = <<>> PROVE AnswerMove("peripheral", x, q, event)
      OBVIOUS
    <3>1. q.ok => Unasks("peripheral", x, q, event)
      BY <1>3, <2>4 DEF Unasks, AsksUser, h
    <3> QED BY <2>4, <3>1, AnswerSilent
  <2>8. AnswerMove("peripheral", x, u, event) BY <2>5, <2>6, AnswerSends
  <2> QED BY <2>1, <2>7, <2>8
<1>4. \/ event = "yes" /\ x.s.step = "result"
      \/ event = "key" /\ x.s.step = "input"
      \/ event = "yes" /\ x.s.step # "result" /\ y = x
      \/ event = "key" /\ x.s.step # "input" /\ y = x
  BY DEF PeripheralEvent
<1> HIDE DEF y
<1>5. AnswerMove("peripheral", x, y, event)
  BY <1>1, <1>2, <1>3, <1>4, AnswerKeeps
<1> QED BY <1>5 DEF y

(* The end of an encryption start is the end of the pairing. *)
LEMMA CompletesMoves ==
  ASSUME NEW x \in Handler, Completes(x).ok
  PROVE LET y == Completes(x)
        IN /\ y.s.step = "success" /\ y.out = x.out
           /\ Elems(x.app) \subseteq Elems(y.app)
           /\ Elems(y.app) \subseteq Elems(x.app) \cup {"complete"}
<1> DEFINE z == Go(x, "success")
           y == Tell(z, "complete")
<1>1. "success" \in Steps /\ "complete" \in News BY DEF Steps, News
<1>2. Completes(x) = IF x.s.bond = NoKey THEN z ELSE y BY DEF Completes
<1>3. /\ Moves(x, z, 0, "none", {}) /\ z \in Handler /\ z.ok = x.ok
      /\ x.ok => z.s.step = "success"
  BY <1>1, GoMoves DEF Moves
<1> HIDE DEF z
<1>4. Moves(z, y, 0, "none", {"complete"}) /\ y.s = z.s
  BY <1>1, <1>3, TellMoves
<1> HIDE DEF y
<1>5. CASE x.s.bond = NoKey BY <1>2, <1>3, <1>5 DEF Moves
<1>6. CASE x.s.bond # NoKey
  <2>1. y.ok BY <1>2, <1>6
  <2>2. z.ok /\ y.out = z.out /\ z.out = x.out /\ x.ok
    BY <1>3, <1>4, <2>1 DEF Moves
  <2>3. /\ Elems(x.app) \subseteq Elems(z.app) /\ Elems(z.app) \subseteq Elems(y.app)
        /\ Elems(z.app) \subseteq Elems(x.app)
        /\ Elems(y.app) \subseteq Elems(z.app) \cup {"complete"}
    BY <1>3, <1>4 DEF Moves
  <2> QED BY <1>2, <1>3, <1>4, <1>6, <2>2, <2>3
<1> QED BY <1>5, <1>6

LEMMA EncryptedMoves ==
  ASSUME NEW e \in Ends, NEW x \in Handler, NEW k,
         HandleEvent(e, x, "encrypted", k).ok
  PROVE LET y == HandleEvent(e, x, "encrypted", k)
        IN /\ y.s.step = "success" /\ y.out = x.out
           /\ Elems(x.app) \subseteq Elems(y.app)
           /\ Elems(y.app) \subseteq Elems(x.app) \cup {"complete"}
<1> DEFINE y == HandleEvent(e, x, "encrypted", k)
           w == Encrypt(x)
<1>1. y \in {Completes(x), Completes(w), Errs(x)}
  BY DEF HandleEvent, CentralEvent, PeripheralEvent
<1>2. y # Errs(x) BY ErrsMoves
<1>3. w \in Handler /\ w.out = x.out /\ w.app = x.app BY EncryptDoes
<1> HIDE DEF w
<1>4. CASE y = Completes(x) BY <1>4, CompletesMoves
<1>5. CASE y = Completes(w) BY <1>3, <1>5, CompletesMoves
<1> QED BY <1>1, <1>2, <1>4, <1>5

(* The last message of a queue.                                             *)
LEMMA LastOfTail ==
  ASSUME NEW q \in Seq(Message), q # <<>>
  PROVE /\ Tail(q) # <<>> => LastKind(Tail(q)) = LastKind(q)
        /\ LastKind(q) # Head(q).k => Tail(q) # <<>>
        /\ \A m \in Elems(q) : m = Head(q) \/ m \in Elems(Tail(q))
<1> DEFINE z == Tail(q)
<1>1. /\ DOMAIN q = 1..Len(q) /\ Len(q) \in Nat /\ Len(q) > 0
      /\ z \in Seq(Message) /\ Len(z) = Len(q) - 1
      /\ DOMAIN z = 1..(Len(q) - 1)
      /\ \A i \in 1..(Len(q) - 1) : z[i] = q[i + 1]
      /\ Head(q) = q[1]
  OBVIOUS
<1> HIDE DEF z
<1>5. Len(z) = 0 <=> z = <<>> BY <1>1
<1>2. ASSUME z # <<>> PROVE LastKind(z) = LastKind(q)
  <2>1. Len(q) - 1 > 0 /\ Len(z) \in Nat BY <1>1, <1>2, <1>5
  <2>2. z[Len(z)] = q[Len(q)] BY <1>1, <2>1
  <2> QED BY <1>2, <2>2 DEF LastKind
<1>3. ASSUME LastKind(q) # Head(q).k PROVE z # <<>>
  <2>1. Len(q) # 1 BY <1>1, <1>3 DEF LastKind
  <2>2. Len(z) # 0 BY <1>1, <2>1
  <2> QED BY <1>5, <2>2
<1>4. ASSUME NEW m \in Elems(q) PROVE m = Head(q) \/ m \in Elems(z)
  <2>1. PICK i \in 1..Len(q) : m = q[i] BY <1>1 DEF Elems
  <2>2. CASE i = 1 BY <1>1, <2>1, <2>2
  <2>3. CASE i # 1
    <3>1. i - 1 \in 1..(Len(q) - 1) BY <1>1, <2>3
    <3>2. z[i - 1] = m BY <1>1, <2>1, <3>1
    <3> QED BY <1>1, <3>1, <3>2 DEF Elems
  <2> QED BY <2>2, <2>3
<1> QED BY <1>2, <1>3, <1>4 DEF z

LEMMA LastOfBoth ==
  ASSUME NEW q \in Seq(Message), NEW r \in Seq(Message)
  PROVE /\ r = <<>> => q \o r = q
        /\ r # <<>> => LastKind(q \o r) = LastKind(r) /\ q \o r # <<>>
        /\ r # <<>> => \E m \in Elems(q \o r) : m.k = LastKind(r)
        /\ Elems(q) \subseteq Elems(q \o r)
<1> DEFINE z == q \o r
<1>1. /\ DOMAIN q = 1..Len(q) /\ Len(q) \in Nat
      /\ DOMAIN r = 1..Len(r) /\ Len(r) \in Nat
      /\ z \in Seq(Message) /\ Len(z) = Len(q) + Len(r)
      /\ DOMAIN z = 1..(Len(q) + Len(r))
      /\ \A i \in 1..(Len(q) + Len(r)) :
           z[i] = IF i <= Len(q) THEN q[i] ELSE r[i - Len(q)]
  OBVIOUS
<1>2. r = <<>> => z = q OBVIOUS
<1>3. r # <<>> => Len(r) > 0 OBVIOUS
<1> HIDE DEF z
<1>4. Len(z) > 0 => z # <<>>
  <2> SUFFICES ASSUME z = <<>> PROVE Len(z) = 0 OBVIOUS
  <2> QED OBVIOUS
<1>5. ASSUME r # <<>>
      PROVE /\ LastKind(z) = LastKind(r) /\ z # <<>>
            /\ \E m \in Elems(z) : m.k = LastKind(r)
  <2>1. Len(r) > 0 /\ Len(z) \in DOMAIN z /\ Len(z) > 0 BY <1>1, <1>3, <1>5
  <2>2. z[Len(z)] = r[Len(r)] BY <1>1, <2>1
  <2>3. LastKind(z) = z[Len(z)].k /\ LastKind(r) = r[Len(r)].k /\ z # <<>>
    BY <1>4, <1>5, <2>1 DEF LastKind
  <2>4. z[Len(z)] \in Elems(z) BY <2>1 DEF Elems
  <2> QED BY <2>2, <2>3, <2>4
<1>6. Elems(q) \subseteq Elems(z)
  <2> SUFFICES ASSUME NEW i \in DOMAIN q PROVE q[i] \in Elems(z)
    BY DEF Elems
  <2>1. i \in DOMAIN z /\ z[i] = q[i] BY <1>1
  <2> QED BY <2>1 DEF Elems
<1> QED BY <1>2, <1>5, <1>6 DEF z

LEMMA EncryptsStay ==
  ASSUME NEW q \in Seq(Queued), q # <<>>, Head(q) # "encrypt",
         Encrypts(q) # {}
  PROVE Encrypts(Tail(q)) # {}
<1> DEFINE z == Tail(q)
<1>1. /\ DOMAIN q = 1..Len(q) /\ Len(q) \in Nat /\ Len(q) > 0
      /\ DOMAIN z = 1..(Len(q) - 1)
      /\ \A i \in 1..(Len(q) - 1) : z[i] = q[i + 1]
      /\ Head(q) = q[1]
  OBVIOUS
<1> HIDE DEF z
<1>2. PICK i \in DOMAIN q : q[i] = "encrypt" BY DEF Encrypts
<1>3. i # 1 BY <1>1, <1>2
<1>4. i - 1 \in DOMAIN z /\ z[i - 1] = "encrypt" BY <1>1, <1>2, <1>3
<1> QED BY <1>4 DEF Encrypts, z

----------------------------------------------------------------------------
(* A healthy pairing keeps going. *)
LEMMA RunSettles ==
  ASSUME NEW x \in Handler, NEW y, CentralRun(x, y), link \in Nat
  PROVE Settles(x, y)
<1>1. NewKey("central", x.s) # NoKey
  <2>1. x.s \in Machine BY DEF Handler
  <2> QED BY <2>1, NewKeyType DEF Ends
<1>2. y.key = x.key \/ y.key # NoKey BY <1>1 DEF CentralRun
<1>3. IF y.s.step \in Encrypting /\ y.s.step # x.s.step
      THEN Encrypts(y.ev) # {} /\ y.key # NoKey
      ELSE Encrypts(y.ev) = Encrypts(x.ev)
  <2>1. CASE y.s.step \in Encrypting /\ y.s.step # x.s.step
    <3>1. PICK i : Encrypts(y.ev) = Encrypts(x.ev) \cup {i} /\ y.key # NoKey
      BY <2>1 DEF CentralRun
    <3> QED BY <2>1, <3>1
  <2>2. CASE ~(y.s.step \in Encrypting /\ y.s.step # x.s.step)
    BY <2>2 DEF CentralRun
  <2> QED BY <2>1, <2>2
<1> QED BY <1>2, <1>3 DEF Settles

(* A failure is reported, unless the pool is empty.                         *)
LEMMA ReportSends ==
  ASSUME NEW x \in Handler, x.room # 0
  PROVE \E m \in Elems(Report(x).out) : m.k = "failed"
<1> DEFINE m == [k |-> "failed", v |-> <<>>]
           o == Append(x.out, m)
           z == [x EXCEPT !.out = o]
<1>1. x.out \in Seq(Message) /\ m \in Message
  BY DEF Handler, Message, BareMsgs, Nothing
<1>2. Elems(o) = Elems(x.out) \cup {m} BY <1>1, ElemsOfAppend
<1>3. Report(x) = z BY DEF Report
<1>4. m.k = "failed" OBVIOUS
<1> HIDE DEF m, o
<1>5. z.out = o BY DEF Handler
<1> QED BY <1>2, <1>3, <1>4, <1>5

(* A step that is no fault finds the pool full.                             *)
LEMMA FullPool ==
  ASSUME TypeOK, NEW room \in Rooms, Starved(room), faults' = 0
  PROVE room = 3 /\ faults = 0
<1>1. faults \in Nat BY DEF TypeOK
<1> QED BY <1>1 DEF Starved, Plenty

LEMMA QuietMoves ==
  ASSUME NEW x \in Handler, NEW y, NEW z, Quietly(y, z), NEW c, NEW e
  PROVE /\ CentralMove(x, y, c) => CentralMove(x, z, c)
        /\ PeripheralMove(x, y, c) => PeripheralMove(x, z, c)
        /\ AnswerMove(e, x, y, c) => AnswerMove(e, x, z, c)
<1>1. ASSUME NEW k, NEW said, Moves(x, y, 2, k, said)
      PROVE Moves(x, z, 2, k, said)
  BY <1>1, MovesThen DEF Quietly
<1>2. ASSUME CentralMove(x, y, c) PROVE CentralMove(x, z, c)
  <2>1. PICK k, said :
          /\ Moves(x, y, 2, k, said)
          /\ said \subseteq Hints /\ ("input" \in said => Passkey)
          /\ y.ok => IF k = "none" THEN Silences(x, y, c, said, y.s.step)
                     ELSE /\ y.s.step \notin AsksUser
                          /\ y.s.step = "response" => k = "request"
    BY <1>2 DEF CentralMove
  <2>2. Moves(x, z, 2, k, said) BY <1>1, <2>1
  <2>3. Silences(x, y, c, said, y.s.step) => Silences(x, z, c, said, z.s.step)
    BY DEF Silences, Quietly
  <2>4. z.ok => IF k = "none" THEN Silences(x, z, c, said, z.s.step)
                ELSE /\ z.s.step \notin AsksUser
                     /\ z.s.step = "response" => k = "request"
    BY <2>1, <2>3 DEF Quietly
  <2> QED BY <2>1, <2>2, <2>4 DEF CentralMove
<1>3. ASSUME PeripheralMove(x, y, c) PROVE PeripheralMove(x, z, c)
  <2>1. PICK k, said :
          /\ Moves(x, y, 2, k, said)
          /\ said \subseteq Hints /\ ("input" \in said => Passkey)
          /\ y.ok =>
               /\ k = "none" => y.s.step \in AsksUser /\ y.s.held # <<>>
               /\ c = "request" => k = "response"
               /\ k = "public_key" => Passkey
               /\ y.s.step = "result" => x.s.step = "result" \/ "confirm" \in said
               /\ y.s.step = "input" => x.s.step = "input" \/ "input" \in said
    BY <1>3 DEF PeripheralMove
  <2>2. Moves(x, z, 2, k, said) BY <1>1, <2>1
  <2>3. z.s = y.s /\ z.ok = y.ok BY DEF Quietly
  <2> QED BY <2>1, <2>2, <2>3 DEF PeripheralMove
<1>4. ASSUME AnswerMove(e, x, y, c) PROVE AnswerMove(e, x, z, c)
  <2>1. PICK k, said :
          /\ Moves(x, y, 2, k, said)
          /\ said \subseteq {"failed"} /\ k # "public_key"
          /\ y.ok => IF k = "none" THEN Unasks(e, x, y, c)
                     ELSE y.s.step \notin {"result", "input", "response"}
    BY <1>4 DEF AnswerMove
  <2>2. Moves(x, z, 2, k, said) BY <1>1, <2>1
  <2>3. z.s = y.s /\ z.ok = y.ok BY DEF Quietly
  <2>4. Unasks(e, x, y, c) => Unasks(e, x, z, c) BY <2>3 DEF Unasks
  <2> QED BY <2>1, <2>2, <2>3, <2>4 DEF AnswerMove
<1> QED BY <1>2, <1>3, <1>4

(* Where a handler of the central goes on, so does the pairing: by what the *)
(* central has sent, asked or started.                                      *)
LEMMA CentralGoes ==
  ASSUME IInv, IInv', Healthy, Going, NEW x, NEW y, NEW c, NEW inbox,
         Acts("central", x, y, inbox), prompt' = prompt,
         CentralMove(x, y, c), Settles(x, y), x.s.step \in CentralEarly,
         IF Absent("central") THEN x.s.step = "idle" ELSE x.s = sm["central"],
         \/ c = "asked" /\ inbox = wire["central"]
         \/ /\ wire["central"] # <<>> /\ c = Head(wire["central"]).k
            /\ inbox = Tail(wire["central"])
  PROVE Going'
<1> DEFINE e == "central"
           f == "peripheral"
<1>1. /\ wire[e] \in Seq(Message) /\ wire[f] \in Seq(Message)
      /\ cipher = NoKey /\ cipher' = NoKey
      /\ y.out \in Seq(Message) /\ f = Other(e) /\ e \in Ends /\ f \in Ends
  <2>1. TypeOK /\ StepsOK /\ Unsettled /\ slot[e] # "down"
    BY DEF IInv, Healthy, Ends
  <2>2. sm[e].step \in {"absent"} \cup Later
    <3>1. CASE Absent(e) BY <3>1 DEF Absent
    <3>2. CASE ~Absent(e)
      BY <2>1, <3>2 DEF StepsOK, Later, CentralEarly, CentralLate, Absent
    <3> QED BY <3>1, <3>2
  <2>3. cipher = NoKey BY <2>1, <2>2 DEF Unsettled
  <2>4. cipher' = NoKey /\ y.out \in Seq(Message)
    BY <2>3 DEF Acts, Handler
  <2> QED BY <2>1, <2>3, <2>4 DEF TypeOK, Ends, Other
<1>2. /\ sm'[e] = y.s /\ sm'[f] = sm[f]
      /\ bonds'[e] = y.key /\ events'[e] = y.ev
      /\ app'[e] = y.app /\ app'[f] = app[f]
      /\ wire'[e] = inbox /\ wire'[f] = wire[f] \o y.out
      /\ UNCHANGED <<start, proc, cipher, due>>
      /\ x.out = <<>> /\ x.key = bonds[e] /\ x.ev = events[e] /\ x.app = app[e]
      /\ y.ok
  BY <1>1 DEF Acts
<1>3. Passkey' <=> Passkey BY <1>2, MethodKept
<1>4. PICK k, said :
        /\ Moves(x, y, 2, k, said)
        /\ said \subseteq Hints /\ ("input" \in said => Passkey)
        /\ y.ok => IF k = "none" THEN Silences(x, y, c, said, y.s.step)
                   ELSE /\ y.s.step \notin AsksUser
                        /\ y.s.step = "response" => k = "request"
  BY DEF CentralMove
<1>5. /\ Elems(app[e]) \subseteq Elems(app'[e])
      /\ Elems(app'[e]) \subseteq Elems(app[e]) \cup said
      /\ said \subseteq Elems(app'[e])
      /\ IF k = "none" THEN y.out = <<>> ELSE LastKind(y.out) = k
  BY <1>2, <1>4 DEF Moves
<1>6. EncryptionComes'
  <2>1. x.s.step \notin Encrypting
    BY DEF CentralEarly, Encrypting
  <2>2. y.s.step \in Encrypting => Encrypts(y.ev) # {}
    BY <2>1 DEF Settles
  <2>3. Encrypts(y.ev) # {} => y.key # NoKey
    BY <1>2 DEF Settles, Going, EncryptionComes
  <2> QED BY <1>2, <2>2, <2>3 DEF EncryptionComes, Starting
<1>7. CheckComes' BY <1>1 DEF CheckComes
<1>8. /\ inbox # <<>> => LastKind(inbox) = LastKind(wire[e])
      /\ c # "asked" /\ LastKind(wire[e]) # c => inbox # <<>>
      /\ \A m \in Elems(wire[e]) : m.k = c \/ m \in Elems(inbox)
  <2>1. CASE c = "asked" /\ inbox = wire[e] BY <2>1
  <2>2. CASE /\ wire[e] # <<>> /\ c = Head(wire[e]).k
             /\ inbox = Tail(wire[e])
    BY <1>1, <2>2, LastOfTail
  <2> QED BY <2>1, <2>2
<1>9. ConfirmFollows'
  BY <1>2, <1>3, <1>8 DEF ConfirmFollows, LastKind, Going
<1>10. /\ wire'[f] = <<>> => y.out = <<>>
       /\ y.out # <<>> => \E m \in Elems(wire'[f]) : m.k = LastKind(y.out)
       /\ Elems(wire[f]) \subseteq Elems(wire'[f])
  <2> DEFINE z == wire[f] \o y.out
             o == y.out
  <2>1. /\ o # <<>> => LastKind(z) = LastKind(o) /\ z # <<>>
        /\ o # <<>> => \E m \in Elems(z) : m.k = LastKind(o)
        /\ Elems(wire[f]) \subseteq Elems(z)
    BY <1>1, LastOfBoth
  <2>2. wire'[f] = z BY <1>2
  <2> HIDE DEF z
  <2> QED BY <2>1, <2>2
<1>11. Fits(y.s.step) /\ Fits(sm[f].step)
  <2>1. Asked /\ Asked' BY DEF IInv
  <2>2. Fits(sm[e].step)' /\ Fits(sm[f].step) BY <1>1, <2>1 DEF Asked
  <2>3. Method' = Method /\ (Passkey' <=> Passkey) BY <1>2, MethodKept
  <2> QED BY <1>2, <2>2, <2>3 DEF Fits
<1>12. UserIsAsked'
  <2>1. UserIsAsked BY DEF Going
  <2>2. y.s.step = "result" => "confirm" \in said
    BY <1>2, <1>4 DEF Silences, AsksUser, Encrypting
  <2>3. y.s.step = "input" => x.s.step = "input" \/ "input" \in said
    BY <1>2, <1>4 DEF Silences, AsksUser, Encrypting
  <2>4. x.s.step = "input" => "input" \in Unread(e)
    BY <1>1, <2>1 DEF UserIsAsked
  <2>5. "disconnected" \notin said BY <1>4 DEF Hints
  <2> DEFINE U == Elems(app'[e]) \cup {prompt[e]}
  <2>6. /\ Unread(e) \subseteq U /\ U \subseteq Unread(e) \cup said
        /\ said \subseteq U
    BY <1>5 DEF Unread
  <2>7. /\ y.s.step = "result" => "confirm" \in U
        /\ y.s.step = "input" => "input" \in U
        /\ "input" \in U => Passkey
        /\ "disconnected" \notin Elems(app'[e])
    BY <1>1, <1>4, <1>5, <2>1, <2>2, <2>3, <2>4, <2>5, <2>6 DEF UserIsAsked
  <2>8. Unread(e)' = U /\ Unread(f)' = Unread(f) BY <1>2 DEF Unread
  <2> HIDE DEF U
  <2>9. \A g \in Ends : g = e \/ g = f BY DEF Ends
  <2>10. /\ (sm[f].step = "result" => "confirm" \in Unread(f))
         /\ (sm[f].step = "input" => "input" \in Unread(f))
         /\ ("input" \in Unread(f) => Passkey)
         /\ "disconnected" \notin Elems(app[f])
    BY <1>1, <2>1 DEF UserIsAsked
  <2> HIDE DEF e, f
  <2> QED BY <1>2, <1>3, <2>7, <2>8, <2>9, <2>10 DEF UserIsAsked
<1>13. CASE k # "none"
  <2>1. y.out # <<>> /\ LastKind(y.out) = k BY <1>5, <1>13 DEF LastKind
  <2>2. Flying' BY <1>10, <2>1 DEF Flying
  <2>3. ResponseComes'
    <3>1. y.s.step = "response" => k = "request" BY <1>2, <1>4, <1>13
    <3> QED BY <1>2, <1>10, <2>1, <3>1 DEF ResponseComes, Carried
  <2>4. WaitComes' /\ AskedAlike' BY <2>2 DEF WaitComes, AskedAlike, Coming
  <2> QED BY <1>6, <1>7, <1>9, <1>12, <2>3, <2>4 DEF Going
<1>14. CASE k = "none"
  <2> DEFINE step == y.s.step
  <2>1. Silences(x, y, c, said, step) /\ y.out = <<>>
    BY <1>2, <1>4, <1>5, <1>14
  <2>2. wire'[f] = wire[f]
    <3>1. wire[f] \o <<>> = wire[f] BY <1>1
    <3> QED BY <1>2, <2>1, <3>1
  <2>3. sm'[e].step = step BY <1>2
  <2> HIDE DEF step, e, f
  <2>4. ASSUME c = "security", y.s = x.s, step = "response"
        PROVE ResponseComes' /\ WaitComes' /\ AskedAlike'
    <3>1. sm[e].step = "response" BY <2>4 DEF step, e
    <3>2. Carried(f, "request") \/ Carried(e, "response")
      BY <3>1 DEF Going, ResponseComes, e, f
    <3>3. Carried(f, "request")' \/ Carried(e, "response")'
      BY <1>2, <1>8, <2>2, <2>4, <3>2 DEF Carried
    <3>4. Flying'
      BY <3>3, ElemsOfNone DEF Carried, Flying, e, f
    <3> QED BY <3>3, <3>4
         DEF ResponseComes, WaitComes, AskedAlike, Coming, e, f
  <2>5. ASSUME c = "public_key", ~Passkey, step = "numeric_confirm"
        PROVE ResponseComes' /\ WaitComes' /\ AskedAlike'
    <3>1. inbox # <<>> BY <1>8, <2>5 DEF Going, ConfirmFollows, e
    <3>2. Flying' BY <1>2, <3>1 DEF Flying, e
    <3> QED BY <2>3, <2>5, <3>2
         DEF ResponseComes, WaitComes, AskedAlike, Coming, e
  <2>6. ASSUME step \in AsksUser
        PROVE ResponseComes' /\ WaitComes' /\ AskedAlike'
    <3>1. Asking(f)' => sm'[f].step = step
      <4>1. step = "input" => Passkey BY <1>11 DEF Fits, step
      <4>2. step = "result" => ~Passkey
        BY <1>11, MethodKinds DEF Fits, step
      <4>3. sm[f].step = "input" => Passkey BY <1>11 DEF Fits
      <4>4. sm[f].step = "result" => ~Passkey
        BY <1>11, MethodKinds DEF Fits
      <4> QED BY <1>2, <2>6, <4>1, <4>2, <4>3, <4>4 DEF Asking, AsksUser
    <3>2. Asking(e)' BY <2>3, <2>6 DEF Asking
    <3> QED BY <2>3, <2>6, <3>1, <3>2
         DEF ResponseComes, WaitComes, AskedAlike, Coming, AsksUser, e, f
  <2>7. ASSUME step \in Encrypting, c = "dhkey" \/ x.s.step = "idle"
        PROVE ResponseComes' /\ WaitComes' /\ AskedAlike'
    <3>1. Starting' \/ due' # {}
      BY <1>6, <2>3, <2>7 DEF EncryptionComes, e
    <3>2. sm[f].step \in AsksUser => sm[f].held # <<>>
      <4> SUFFICES ASSUME sm[f].step \in AsksUser PROVE sm[f].held # <<>>
        OBVIOUS
      <4>1. /\ ChecksOK /\ BothBegun /\ ~Absent(f) /\ Begun
            /\ slot[e] # "down"
        BY <1>1 DEF IInv, Absent, AsksUser, Begun, Mid, Healthy, f
      <4>2. x.s.step # "idle"
        <5>1. ~Absent(e) BY <4>1 DEF BothBegun, Unmet, e
        <5>2. x.s = sm[e] /\ StepsOK BY <5>1 DEF IInv, e
        <5> QED BY <5>2 DEF StepsOK, Later, CentralEarly, CentralLate, Absent, e
      <4>3. \E m \in Elems(wire[e]) : m.k = "dhkey"
        <5>1. wire[e] # <<>> /\ Head(wire[e]).k = "dhkey"
          BY <2>7, <4>2 DEF e
        <5> QED BY <1>1, <5>1, ElemsOfTail
      <4>4. PICK m \in Elems(wire[e]) : Proved(m.v)
        BY <4>1, <4>3 DEF ChecksOK, e
      <4>5. HasSent(sm[f]) BY <4>1, <4>4 DEF Proved, Committed, f
      <4> QED BY <4>5 DEF HasSent, AsksUser, Closing
    <3>3. ~(Asking(f)' /\ sm'[f].held = <<>>)
      BY <1>2, <3>2 DEF Asking
    <3> QED BY <2>3, <2>7, <3>1, <3>3
         DEF ResponseComes, WaitComes, AskedAlike, Coming, Encrypting, e, f
  <2>8. ResponseComes' /\ WaitComes' /\ AskedAlike'
    BY <2>1, <2>4, <2>5, <2>6, <2>7 DEF Silences, AsksUser
  <2> QED BY <1>6, <1>7, <1>9, <1>12, <2>8 DEF Going
<1> QED BY <1>13, <1>14

(* The same of the peripheral: it answers, or keeps what the central sent   *)
(* for when its user has answered.                                          *)
LEMMA PeripheralGoes ==
  ASSUME TypeOK, Going, NEW x, NEW y, NEW c, NEW inbox,
         Acts("peripheral", x, y, inbox), prompt' = prompt,
         PeripheralMove(x, y, c),
         IF Absent("peripheral") THEN x.s.step = "pairing_request"
         ELSE x.s = sm["peripheral"],
         \/ c = "asked" /\ inbox = wire["peripheral"]
         \/ /\ wire["peripheral"] # <<>> /\ c = Head(wire["peripheral"]).k
            /\ inbox = Tail(wire["peripheral"])
  PROVE Going'
<1> DEFINE e == "peripheral"
           f == "central"
<1>1. /\ wire[e] \in Seq(Message) /\ wire[f] \in Seq(Message)
      /\ y.out \in Seq(Message) /\ f = Other(e) /\ e \in Ends /\ f \in Ends
      /\ \A g \in Ends : g = e \/ g = f
  BY DEF TypeOK, Ends, Other, Acts, Handler
<1>2. /\ sm'[e] = y.s /\ sm'[f] = sm[f]
      /\ bonds'[f] = bonds[f] /\ events'[f] = events[f]
      /\ app'[e] = y.app /\ app'[f] = app[f]
      /\ wire'[e] = inbox /\ wire'[f] = wire[f] \o y.out
      /\ UNCHANGED <<start, proc, cipher, due>>
      /\ x.out = <<>> /\ x.app = app[e] /\ y.ok
  BY <1>1 DEF Acts
<1>3. Passkey' <=> Passkey BY <1>2, MethodKept
<1>4. PICK k, said :
        /\ Moves(x, y, 2, k, said)
        /\ said \subseteq Hints /\ ("input" \in said => Passkey)
        /\ y.ok =>
             /\ k = "none" => y.s.step \in AsksUser /\ y.s.held # <<>>
             /\ c = "request" => k = "response"
             /\ k = "public_key" => Passkey
             /\ y.s.step = "result" => x.s.step = "result" \/ "confirm" \in said
             /\ y.s.step = "input" => x.s.step = "input" \/ "input" \in said
  BY DEF PeripheralMove
<1>5. /\ Elems(app[e]) \subseteq Elems(app'[e])
      /\ Elems(app'[e]) \subseteq Elems(app[e]) \cup said
      /\ said \subseteq Elems(app'[e])
      /\ IF k = "none" THEN y.out = <<>> ELSE LastKind(y.out) = k
  BY <1>2, <1>4 DEF Moves
<1>6. EncryptionComes'
  BY <1>2 DEF EncryptionComes, Starting, Going
<1>7. \A m \in Elems(wire[e]) : m.k = c \/ m \in Elems(inbox)
  <2>1. CASE c = "asked" /\ inbox = wire[e] BY <2>1
  <2>2. CASE /\ wire[e] # <<>> /\ c = Head(wire[e]).k
             /\ inbox = Tail(wire[e])
    BY <1>1, <2>2, LastOfTail
  <2> QED BY <2>1, <2>2
<1>8. /\ y.out = <<>> => wire'[f] = wire[f]
      /\ y.out # <<>> => LastKind(wire'[f]) = LastKind(y.out)
      /\ y.out # <<>> => wire'[f] # <<>>
      /\ y.out # <<>> => \E m \in Elems(wire'[f]) : m.k = LastKind(y.out)
      /\ Elems(wire[f]) \subseteq Elems(wire'[f])
  <2> DEFINE z == wire[f] \o y.out
             o == y.out
  <2>1. /\ o = <<>> => z = wire[f]
        /\ o # <<>> => LastKind(z) = LastKind(o) /\ z # <<>>
        /\ o # <<>> => \E m \in Elems(z) : m.k = LastKind(o)
        /\ Elems(wire[f]) \subseteq Elems(z)
    BY <1>1, LastOfBoth
  <2>2. wire'[f] = z BY <1>2
  <2> HIDE DEF z
  <2> QED BY <2>1, <2>2
<1>9. ConfirmFollows'
  <2>1. k = "public_key" => Passkey BY <1>2, <1>4
  <2>2. y.out = <<>> \/ LastKind(y.out) = k BY <1>5
  <2> QED BY <1>3, <1>8, <2>1, <2>2 DEF ConfirmFollows, Going
<1>10. ResponseComes'
  <2>1. c = "request" => y.out # <<>> /\ LastKind(y.out) = "response"
    BY <1>2, <1>4, <1>5 DEF LastKind
  <2> HIDE DEF e, f
  <2>2. Carried(e, "request") =>
          Carried(e, "request")' \/ Carried(f, "response")'
    BY <1>2, <1>7, <1>8, <2>1 DEF Carried
  <2>3. Carried(f, "response") => Carried(f, "response")'
    BY <1>8 DEF Carried
  <2> QED BY <1>2, <2>2, <2>3 DEF ResponseComes, Going, e, f
<1>12. UserIsAsked'
  <2>1. UserIsAsked BY DEF Going
  <2>2. y.s.step = "result" => sm[e].step = "result" \/ "confirm" \in said
    BY <1>2, <1>4
  <2>3. y.s.step = "input" => sm[e].step = "input" \/ "input" \in said
    BY <1>2, <1>4
  <2>5. "disconnected" \notin said BY <1>4 DEF Hints
  <2> DEFINE U == Elems(app'[e]) \cup {prompt[e]}
  <2>6. /\ Unread(e) \subseteq U /\ U \subseteq Unread(e) \cup said
        /\ said \subseteq U
    BY <1>5 DEF Unread
  <2>7. /\ y.s.step = "result" => "confirm" \in U
        /\ y.s.step = "input" => "input" \in U
        /\ "input" \in U => Passkey
        /\ "disconnected" \notin Elems(app'[e])
    BY <1>1, <1>4, <1>5, <2>1, <2>2, <2>3, <2>5, <2>6 DEF UserIsAsked
  <2>8. Unread(e)' = U /\ Unread(f)' = Unread(f) BY <1>2 DEF Unread
  <2> HIDE DEF U
  <2>10. /\ (sm[f].step = "result" => "confirm" \in Unread(f))
         /\ (sm[f].step = "input" => "input" \in Unread(f))
         /\ ("input" \in Unread(f) => Passkey)
         /\ "disconnected" \notin Elems(app[f])
    BY <1>1, <2>1 DEF UserIsAsked
  <2> HIDE DEF e, f
  <2> QED BY <1>1, <1>2, <1>3, <2>7, <2>8, <2>10 DEF UserIsAsked
<1>13. \/ Flying'
       \/ y.s.step \in AsksUser /\ y.s.held # <<>>
  <2>1. k # "none" => y.out # <<>> BY <1>5 DEF LastKind
  <2> QED BY <1>2, <1>4, <1>8, <2>1 DEF Flying
<1>14. WaitComes' /\ AskedAlike' /\ CheckComes'
  BY <1>2, <1>13 DEF WaitComes, AskedAlike, CheckComes, Coming, Asking
<1> QED BY <1>6, <1>9, <1>10, <1>12, <1>14 DEF Going

(* The answer of a user takes the question away; a machine that still waits *)
(* for one has another.                                                     *)
LEMMA AnswerAsked ==
  ASSUME TypeOK, UserIsAsked, NEW e \in Ends, NEW x, NEW y,
         NEW event \in {"yes", "key"}, Acts(e, x, y, wire[e]), x.s = sm[e],
         AnswerMove(e, x, y, event),
         prompt[e] = (IF event = "yes" THEN "confirm" ELSE "input"),
         prompt'[e] = "none"
  PROVE UserIsAsked'
<1> DEFINE f == Other(e)
<1>1. f \in Ends /\ (\A g \in Ends : g = e \/ g = f) BY DEF Ends, Other
<1>2. /\ sm'[e] = y.s /\ sm'[f] = sm[f]
      /\ app'[e] = y.app /\ app'[f] = app[f] /\ prompt'[f] = prompt[f]
      /\ UNCHANGED start /\ x.app = app[e] /\ y.ok
  BY DEF Acts
<1>3. Passkey' <=> Passkey BY <1>2, MethodKept
<1>4. PICK k, said :
        /\ Moves(x, y, 2, k, said)
        /\ said \subseteq {"failed"} /\ k # "public_key"
        /\ y.ok => IF k = "none" THEN Unasks(e, x, y, event)
                   ELSE y.s.step \notin {"result", "input", "response"}
  BY DEF AnswerMove
<1>5. /\ Elems(app[e]) \subseteq Elems(app'[e])
      /\ Elems(app'[e]) \subseteq Elems(app[e]) \cup {"failed"}
  BY <1>2, <1>4 DEF Moves
<1>6. y.s.step \in AsksUser =>
        /\ y.s = sm[e]
        /\ event = "yes" => y.s.step = "input"
        /\ event = "key" => y.s.step = "result"
  BY <1>2, <1>4 DEF Unasks, AsksUser
<1> DEFINE U == Elems(app'[e]) \cup {"none"}
<1>7. /\ y.s.step = "result" => "confirm" \in U
      /\ y.s.step = "input" => "input" \in U
  <2>1. ASSUME y.s.step = "result" PROVE "confirm" \in U
    <3>1. sm[e].step = "result" /\ prompt[e] = "input"
      BY <1>6, <2>1 DEF AsksUser
    <3>2. "confirm" \in Elems(app[e]) BY <3>1 DEF UserIsAsked, Unread
    <3> QED BY <1>5, <3>2
  <2>2. ASSUME y.s.step = "input" PROVE "input" \in U
    <3>1. sm[e].step = "input" /\ prompt[e] = "confirm"
      BY <1>6, <2>2 DEF AsksUser
    <3>2. "input" \in Elems(app[e]) BY <3>1 DEF UserIsAsked, Unread
    <3> QED BY <1>5, <3>2
  <2> QED BY <2>1, <2>2
<1>8. /\ "input" \in U => Passkey
      /\ "disconnected" \notin Elems(app'[e])
  BY <1>5 DEF UserIsAsked, Unread
<1>9. Unread(e)' = U /\ Unread(f)' = Unread(f) BY <1>2 DEF Unread
<1> HIDE DEF U
<1>10. /\ (sm[f].step = "result" => "confirm" \in Unread(f))
       /\ (sm[f].step = "input" => "input" \in Unread(f))
       /\ ("input" \in Unread(f) => Passkey)
       /\ "disconnected" \notin Elems(app[f])
  BY <1>1 DEF UserIsAsked
<1> HIDE DEF f
<1> QED BY <1>1, <1>2, <1>3, <1>7, <1>8, <1>9, <1>10 DEF UserIsAsked

LEMMA CentralAnswers ==
  ASSUME TypeOK, Going, NEW x, NEW y,
         NEW event \in {"yes", "key"}, Settles(x, y), x.s = sm["central"],
         Acts("central", x, y, wire["central"]), UserIsAsked',
         AnswerMove("central", x, y, event)
  PROVE Going'
<1> DEFINE e == "central"
           f == "peripheral"
<1>1. /\ wire[e] \in Seq(Message) /\ wire[f] \in Seq(Message)
      /\ y.out \in Seq(Message) /\ f = Other(e)
  BY DEF TypeOK, Ends, Other, Acts, Handler
<1>2. /\ sm'[e] = y.s /\ sm'[f] = sm[f]
      /\ bonds'[e] = y.key /\ events'[e] = y.ev
      /\ wire'[e] = wire[e] /\ wire'[f] = wire[f] \o y.out
      /\ UNCHANGED <<start, proc, cipher, due>>
      /\ x.out = <<>> /\ x.key = bonds[e] /\ x.ev = events[e] /\ y.ok
  BY <1>1 DEF Acts
<1>3. Passkey' <=> Passkey BY <1>2, MethodKept
<1>4. PICK k, said :
        /\ Moves(x, y, 2, k, said)
        /\ said \subseteq {"failed"} /\ k # "public_key"
        /\ y.ok => IF k = "none" THEN Unasks(e, x, y, event)
                   ELSE y.s.step \notin {"result", "input", "response"}
  BY DEF AnswerMove
<1>5. IF k = "none" THEN y.out = <<>> ELSE LastKind(y.out) = k
  BY <1>2, <1>4 DEF Moves
<1>6. EncryptionComes'
  BY <1>2 DEF Settles, Going, EncryptionComes, Starting
<1>7. ConfirmFollows' BY <1>2, <1>3 DEF ConfirmFollows, Going
<1>8. CASE k # "none"
  <2>1. y.out # <<>> BY <1>5, <1>8 DEF LastKind
  <2>2. wire'[f] # <<>> BY <1>1, <1>2, <2>1, LastOfBoth
  <2>3. Flying' BY <2>2 DEF Flying
  <2>4. sm'[e].step # "response" BY <1>2, <1>4, <1>8
  <2> QED BY <1>6, <1>7, <2>3, <2>4 DEF Going, WaitComes, ResponseComes,
          AskedAlike, CheckComes, Coming
<1>9. CASE k = "none"
  <2>1. y.s = x.s BY <1>2, <1>4, <1>9 DEF Unasks
  <2>2. wire'[f] = wire[f]
    <3>1. wire[f] \o <<>> = wire[f] BY <1>1
    <3> QED BY <1>2, <1>5, <1>9, <3>1
  <2>3. Encrypts(y.ev) = Encrypts(x.ev) BY <2>1 DEF Settles
  <2>4. Flying' = Flying /\ (Starting' <=> Starting)
    BY <1>2, <2>2, <2>3 DEF Flying, Starting
  <2>5. WaitComes' /\ AskedAlike' /\ CheckComes'
    BY <1>2, <2>1, <2>4 DEF Going, WaitComes, AskedAlike, CheckComes, Coming,
       Asking, Waiting
  <2>6. ResponseComes'
    BY <1>2, <2>1, <2>2 DEF Going, ResponseComes, Carried
  <2> QED BY <1>6, <1>7, <2>5, <2>6 DEF Going
<1> QED BY <1>8, <1>9

LEMMA PeripheralAnswers ==
  ASSUME IInv, Healthy, Going, NEW x, NEW y,
         NEW event \in {"yes", "key"}, x.s = sm["peripheral"],
         Acts("peripheral", x, y, wire["peripheral"]), UserIsAsked',
         AnswerMove("peripheral", x, y, event)
  PROVE Going'
<1> DEFINE e == "peripheral"
           f == "central"
<1>1. /\ wire[e] \in Seq(Message) /\ wire[f] \in Seq(Message)
      /\ y.out \in Seq(Message) /\ f = Other(e)
  BY DEF IInv, TypeOK, Ends, Other, Acts, Handler
<1>2. /\ sm'[e] = y.s /\ sm'[f] = sm[f]
      /\ bonds'[f] = bonds[f] /\ events'[f] = events[f]
      /\ wire'[e] = wire[e] /\ wire'[f] = wire[f] \o y.out
      /\ UNCHANGED <<start, proc, cipher, due>>
      /\ x.out = <<>> /\ y.ok
  BY <1>1 DEF Acts
<1>3. Passkey' <=> Passkey BY <1>2, MethodKept
<1>4. PICK k, said :
        /\ Moves(x, y, 2, k, said)
        /\ said \subseteq {"failed"} /\ k # "public_key"
        /\ y.ok => IF k = "none" THEN Unasks(e, x, y, event)
                   ELSE y.s.step \notin {"result", "input", "response"}
  BY DEF AnswerMove
<1>5. IF k = "none" THEN y.out = <<>> ELSE LastKind(y.out) = k
  BY <1>2, <1>4 DEF Moves
<1>6. EncryptionComes'
  BY <1>2 DEF Going, EncryptionComes, Starting
<1>7. CASE k # "none"
  <2>1. y.out # <<>> BY <1>5, <1>7 DEF LastKind
  <2> DEFINE z == wire[f] \o y.out
  <2>2. /\ z # <<>> /\ LastKind(z) = k
        /\ Elems(wire[f]) \subseteq Elems(z)
    BY <1>1, <1>5, <1>7, <2>1, LastOfBoth
  <2>3. wire'[f] = z BY <1>2
  <2> HIDE DEF z
  <2>4. Flying' BY <2>2, <2>3 DEF Flying
  <2>5. ConfirmFollows' BY <1>4, <2>2, <2>3 DEF ConfirmFollows
  <2>6. ResponseComes'
    BY <1>2, <2>2, <2>3 DEF Going, ResponseComes, Carried
  <2> QED BY <1>6, <2>4, <2>5, <2>6 DEF Going, WaitComes,
          AskedAlike, CheckComes, Coming
<1>8. CASE k = "none"
  <2>2. wire'[f] = wire[f]
    <3>1. wire[f] \o <<>> = wire[f] BY <1>1
    <3> QED BY <1>2, <1>5, <1>8, <3>1
  <2>3. Flying' = Flying /\ (Starting' <=> Starting)
    BY <1>2, <2>2 DEF Flying, Starting
  <2>4. ConfirmFollows' /\ ResponseComes'
    BY <1>2, <1>3, <2>2
       DEF Going, ConfirmFollows, ResponseComes, Carried
  <2>5. WaitComes' /\ AskedAlike' /\ CheckComes'
    <3>1. CASE y.s = x.s
      BY <1>2, <2>3, <3>1 DEF Going, WaitComes, AskedAlike, CheckComes, Coming,
         Asking, Waiting
    <3>2. CASE /\ sm[e].step \in AsksUser /\ sm[e].held = <<>>
               /\ y.s.step \notin AsksUser
      <4>1. sm[f].step \in AsksUser \/ Flying
        BY <3>2 DEF Going, AskedAlike, Asking
      <4>2. sm[f].step \in AsksUser => cipher = NoKey
        BY DEF IInv, Unsettled, Later, CentralEarly, AsksUser, Healthy, Ends
      <4> QED BY <1>2, <2>3, <3>2, <4>1, <4>2
           DEF WaitComes, AskedAlike, CheckComes, Coming, Asking
    <3> QED BY <1>2, <1>4, <1>8, <3>1, <3>2 DEF Unasks
  <2> QED BY <1>6, <2>4, <2>5 DEF Going
<1> QED BY <1>7, <1>8

----------------------------------------------------------------------------
(* No step leaves a healthy pairing with nothing to wait for.               *)
LEMMA WasHealthy ==
  ASSUME Healthy', faults = 0, late' = late, air' = air,
         \A e \in Ends : /\ slot[e] = "up"
                         /\ dead[e] => dead'[e]
                         /\ Carried(e, "failed") => Carried(e, "failed")'
  PROVE Healthy
  BY DEF Healthy

LEMMA ElemsSplit ==
  ASSUME NEW S, NEW q \in Seq(S), q # <<>>
  PROVE Elems(q) = {Head(q)} \cup Elems(Tail(q))
<1> DEFINE z == Tail(q)
<1>1. /\ DOMAIN q = 1..Len(q) /\ Len(q) \in Nat /\ Len(q) > 0
      /\ DOMAIN z = 1..(Len(q) - 1)
      /\ \A i \in 1..(Len(q) - 1) : z[i] = q[i + 1]
      /\ Head(q) = q[1]
  OBVIOUS
<1> HIDE DEF z
<1>2. ASSUME NEW i \in DOMAIN q PROVE q[i] \in {Head(q)} \cup Elems(z)
  <2>1. CASE i = 1 BY <1>1, <2>1
  <2>2. CASE i # 1
    <3>1. i - 1 \in DOMAIN z /\ z[i - 1] = q[i] BY <1>1, <2>2
    <3> QED BY <3>1 DEF Elems
  <2> QED BY <2>1, <2>2
<1>3. ASSUME NEW i \in DOMAIN z PROVE z[i] \in Elems(q)
  <2>1. i + 1 \in DOMAIN q /\ z[i] = q[i + 1] BY <1>1
  <2> QED BY <2>1 DEF Elems
<1>4. Head(q) \in Elems(q)
  <2>1. 1 \in DOMAIN q BY <1>1
  <2> QED BY <1>1, <2>1 DEF Elems
<1> QED BY <1>2, <1>3, <1>4 DEF Elems, z

LEMMA ReadGoes ==
  ASSUME IInv, Alive, NEW e \in Ends, Read(e), Healthy'
  PROVE Going'
<1> DEFINE h == Head(app[e])
           t == Tail(app[e])
           f == Other(e)
<1>0. UNCHANGED <<sm, level, bonds, events, wire, start, slot, dead, air, link,
                  proc, cipher, due, faults, late>>
  BY DEF Read, lower, fixed
<1>1. /\ TypeOK /\ Asked /\ f \in Ends /\ f # e
      /\ (\A g \in Ends : g = e \/ g = f)
  BY DEF IInv, Ends, Other
<1>2. Healthy BY <1>0 DEF Healthy, Carried
<1>3. Going BY <1>2 DEF Alive
<1>4. Elems(app[e]) = {h} \cup Elems(t) BY <1>1, ElemsSplit DEF TypeOK, Read
<1>5. /\ app'[e] = t /\ app'[f] = app[f] /\ prompt'[f] = prompt[f]
      /\ prompt'[e] = IF h \in {"confirm", "input"} THEN h
                      ELSE IF h = "disconnected" THEN "none" ELSE prompt[e]
  BY <1>1 DEF TypeOK, Read
<1>6. /\ (sm[e].step = "result" => "confirm" \in Unread(e))
      /\ (sm[e].step = "input" => "input" \in Unread(e))
      /\ ("input" \in Unread(e) => Passkey)
      /\ "disconnected" \notin Elems(app[e])
      /\ ("confirm" \in Unread(e) => ~Passkey)
  BY <1>1, <1>3, MethodKinds DEF Going, UserIsAsked, Asked, Unread
<1>7. /\ (sm[f].step = "result" => "confirm" \in Unread(f))
      /\ (sm[f].step = "input" => "input" \in Unread(f))
      /\ ("input" \in Unread(f) => Passkey)
      /\ "disconnected" \notin Elems(app[f])
  BY <1>1, <1>3 DEF Going, UserIsAsked
<1> HIDE DEF h, t, f
<1> DEFINE U == Elems(t) \cup {prompt'[e]}
<1>8. /\ U \subseteq Unread(e)
      /\ "confirm" \in Unread(e) => "confirm" \in U
      /\ "input" \in Unread(e) => "input" \in U
  BY <1>4, <1>5, <1>6 DEF Unread
<1>9. Unread(e)' = U /\ Unread(f)' = Unread(f) BY <1>5 DEF Unread
<1> HIDE DEF U
<1>10. Passkey' <=> Passkey BY <1>0, MethodKept
<1>11. UserIsAsked'
  BY <1>0, <1>1, <1>4, <1>5, <1>6, <1>7, <1>8, <1>9, <1>10 DEF UserIsAsked
<1>12. /\ WaitComes' /\ ConfirmFollows' /\ ResponseComes' /\ AskedAlike'
       /\ EncryptionComes' /\ CheckComes'
  BY <1>0, <1>3, <1>10
     DEF Going, WaitComes, ConfirmFollows, ResponseComes, AskedAlike,
         EncryptionComes, CheckComes, Coming, Flying, Starting, Asking, Carried,
         Waiting
<1> QED BY <1>11, <1>12 DEF Going

LEMMA LtkRequestGoes ==
  ASSUME IInv, Alive, LtkRequest, Healthy'
  PROVE Going'
<1>0. UNCHANGED <<sm, bonds, app, prompt, wire, start, slot, air, cipher, due,
                  faults, late>>
  BY DEF LtkRequest, users, fixed
<1>1. TypeOK BY DEF IInv
<1>2. UNCHANGED dead /\ events'["central"] = events["central"]
  BY <1>1 DEF LtkRequest, Healthy, Ends, TypeOK
<1>3. Going BY <1>0, <1>2 DEF Healthy, Carried, Alive
<1>4. proc # Idle /\ proc' # Idle
  <2>1. proc.stage = "request" /\ proc'.stage = "reply"
    BY <1>1 DEF LtkRequest, TypeOK
  <2> QED BY <2>1 DEF Idle
<1>5. Passkey' <=> Passkey BY <1>0, MethodKept
<1>6. UserIsAsked'
  BY <1>0, <1>3, <1>5 DEF Going, UserIsAsked, Unread
<1> QED
  BY <1>0, <1>2, <1>3, <1>4, <1>5, <1>6
     DEF Going, WaitComes, ConfirmFollows, ResponseComes, AskedAlike,
         EncryptionComes, CheckComes, Coming, Flying, Starting, Asking, Carried,
         Waiting

LEMMA ConnectGoes ==
  ASSUME IInv, Connect
  PROVE Going'
<1>1. TypeOK /\ Left BY DEF IInv
<1>2. \A e \in Ends : /\ sm[e] = None /\ Elems(wire[e]) = {}
                      /\ app[e] = <<>> /\ events[e] = <<>>
  BY <1>1 DEF Connect, Left
<1>3. /\ UNCHANGED <<sm, events, app, wire>>
      /\ cipher' = NoKey /\ prompt' = [e \in Ends |-> "none"]
  BY DEF Connect
<1>4. \A e \in Ends : /\ sm'[e].step = "absent" /\ Elems(wire'[e]) = {}
                      /\ Unread(e)' = {"none"} /\ Elems(app'[e]) = {}
                      /\ Encrypts(events'[e]) = {}
  BY <1>2, <1>3, ElemsOfNone DEF None, Unread
<1>5. LastKind(wire'["central"]) = "none"
  <2>1. wire["central"] \in Seq(Message) BY <1>1 DEF TypeOK, Ends
  <2>2. wire["central"] # <<>> => Head(wire["central"]) \in Elems(wire["central"])
    BY <2>1, ElemsOfTail
  <2> QED BY <1>2, <1>3, <2>2 DEF LastKind, Ends
<1> QED
  BY <1>3, <1>4, <1>5
     DEF Going, WaitComes, UserIsAsked, ConfirmFollows, ResponseComes,
         AskedAlike, EncryptionComes, CheckComes, Asking, Waiting, Ended,
         AsksUser, Encrypting, Ends

(* A step of the control runner or of the controllers that goes on with the *)
(* start of the encryption, where there is one.                             *)
LEMMA StartGoes ==
  ASSUME Going, UNCHANGED <<start, sm, app, prompt, wire>>,
         Starting => Starting' \/ "central" \in due',
         due \subseteq due',
         Encrypts(events'["central"]) # {} => bonds'["central"] # NoKey,
         cipher' # NoKey /\ "peripheral" \notin due' => cipher # NoKey
  PROVE Going'
<1>1. Passkey' <=> Passkey BY MethodKept
<1>2. UserIsAsked'
  BY <1>1 DEF Going, UserIsAsked, Unread
<1>3. ConfirmFollows' /\ ResponseComes' /\ AskedAlike'
  BY <1>1 DEF Going, ConfirmFollows, ResponseComes, AskedAlike, Carried, Asking,
     Flying
<1>4. EncryptionComes' BY DEF Going, EncryptionComes
<1>5. CheckComes' BY DEF Going, CheckComes, Waiting, Asking, Flying
<1>6. Coming => Coming' BY DEF Coming, Flying, Asking
<1>7. WaitComes' BY <1>6 DEF Going, WaitComes, Waiting
<1> QED BY <1>2, <1>3, <1>4, <1>5, <1>7 DEF Going

LEMMA ControlGoes ==
  ASSUME IInv, Alive, NEW e \in Ends, Control(e), Healthy'
  PROVE Going'
<1>1. TypeOK /\ Once /\ NoLtk BY DEF IInv
<1>2. /\ events[e] # <<>> /\ Taken(e) /\ ~dead[e]
      /\ UNCHANGED <<start, faults, late>>
  BY DEF Control, fixed
<1>3. /\ e = "peripheral" => events'["central"] = events["central"]
      /\ e = "central" => events'["central"] = Tail(events["central"])
      /\ Fewer(events["central"], events'["central"])
  BY <1>1, <1>2, TakenFewer
<1>4. events[e] \in Seq(Queued) /\ dead \in [Ends -> BOOLEAN] BY <1>1 DEF TypeOK
<1>5. ~Refused(e)
  <2> SUFFICES ASSUME Refused(e) PROVE FALSE OBVIOUS
  <2>1. dead'[e] BY <1>4 DEF Refused
  <2> QED BY <2>1 DEF Healthy
<1>6. ASSUME UNCHANGED <<sm, level, bonds, app, bondable, users, wire, lower>>,
             Starting => Starting'
      PROVE Going'
  <2>1. UNCHANGED <<sm, level, bonds, app, bondable, prompt, wire, slot,
                    dead, air, link, proc, cipher, due>>
    BY <1>6 DEF lower, users
  <2>2. Healthy BY <1>2, <2>1 DEF Healthy, Carried
  <2>3. Going BY <2>2 DEF Alive
  <2>4. Encrypts(events'["central"]) # {} => bonds'["central"] # NoKey
    BY <1>3, <2>1, <2>3 DEF Fewer, Going, EncryptionComes
  <2> QED BY <1>2, <1>6, <2>1, <2>3, <2>4, StartGoes
<1>7. CASE Head(events[e]) = "encrypt" /\ EnableEncryption(e)
  <2>1. CASE e = "peripheral"
    <3>1. UNCHANGED <<sm, level, bonds, app, bondable, users, wire, lower>>
      BY <1>7, <2>1 DEF EnableEncryption
    <3>2. Starting => Starting' BY <1>3, <2>1, <3>1 DEF Starting, lower
    <3> QED BY <1>6, <3>1, <3>2
  <2>2. CASE e = "central"
    <3>1. Encrypts(events[e]) # {}
      BY <1>2, <1>4, <1>7, ElemsOfTail DEF Elems, Encrypts
    <3>2. \/ bonds[e] = NoKey
          \/ /\ proc' = [stage |-> "request", key |-> bonds[e]]
             /\ UNCHANGED <<sm, level, bonds, app, bondable, users, wire, slot,
                            dead, air, link, cipher, due>>
      BY <1>5, <1>7, <2>2 DEF EnableEncryption
    <3>3. UNCHANGED <<sm, bonds, app, prompt, wire, slot, dead, air, cipher,
                      due>>
      BY <1>5, <1>7 DEF EnableEncryption, users, lower
    <3>4. Healthy BY <1>2, <3>3 DEF Healthy, Carried
    <3>5. Going BY <3>4 DEF Alive
    <3>6. bonds[e] # NoKey
      BY <2>2, <3>1, <3>5 DEF Going, EncryptionComes
    <3>7. proc'.stage = "request" BY <3>2, <3>6
    <3>8. Starting' BY <3>7 DEF Starting, Idle
    <3>9. bonds'["central"] # NoKey BY <2>2, <3>3, <3>6
    <3> QED BY <1>2, <3>3, <3>5, <3>8, <3>9, StartGoes
  <2> QED BY <2>1, <2>2 DEF Ends
<1>8. CASE Head(events[e]) = "ltk" /\ SendLongTermKey(e)
  <2>1. e = "peripheral"
    <3>1. "ltk" \in Elems(events[e]) BY <1>2, <1>4, <1>8, ElemsOfTail
    <3> QED BY <1>1, <3>1 DEF NoLtk, Ltks, Ends
  <2>2. air' BY DEF Healthy
  <2>3. /\ air /\ proc.stage = "reply"
        /\ UNCHANGED <<sm, bonds, app, prompt, wire, slot, dead>>
        /\ cipher' = proc.key
        /\ due' = IF cipher = NoKey THEN Ends ELSE due
    BY <1>5, <1>8, <2>2 DEF SendLongTermKey, users
  <2>4. cipher = NoKey /\ due' = Ends BY <1>1, <2>3 DEF Once
  <2>5. Healthy BY <1>2, <2>2, <2>3 DEF Healthy, Carried
  <2>6. Going BY <2>5 DEF Alive
  <2>7. Encrypts(events'["central"]) # {} => bonds'["central"] # NoKey
    BY <1>3, <2>1, <2>3, <2>6 DEF Going, EncryptionComes
  <2>8. due \subseteq due' /\ "central" \in due' /\ "peripheral" \in due'
    BY <1>1, <2>4 DEF TypeOK, Ends
  <2> QED BY <1>2, <2>3, <2>6, <2>7, <2>8, StartGoes
<1>9. CASE /\ Head(events[e]) \notin {"encrypt", "ltk"}
           /\ UNCHANGED <<sm, level, bonds, app, bondable, users, wire, lower>>
  <2>1. Starting => Starting'
    <3>1. UNCHANGED proc BY <1>9 DEF lower
    <3>2. e = "central" /\ Encrypts(events[e]) # {} =>
            Encrypts(Tail(events[e])) # {}
      BY <1>2, <1>4, <1>9, EncryptsStay
    <3> QED BY <1>3, <3>1, <3>2 DEF Starting, Ends
  <2> QED BY <1>6, <1>9, <2>1
<1> QED BY <1>7, <1>8, <1>9 DEF Control

(* An end learns that the link is encrypted: the central that waits for it  *)
(* still has its own report to come, and the peripheral a message.          *)
LEMMA ReportedGoes ==
  ASSUME IInv, IInv', Healthy, Going, NEW e \in due, due' = due \ {e},
         UNCHANGED <<start, proc, cipher, wire, prompt>>,
         sm'[Other(e)] = sm[Other(e)],
         (sm'[e] = sm[e] /\ Absent(e)) \/ sm'[e].step = "success",
         app'[Other(e)] = app[Other(e)],
         Elems(app[e]) \subseteq Elems(app'[e]),
         Elems(app'[e]) \subseteq Elems(app[e]) \cup {"complete"}
  PROVE Going'
<1> DEFINE c == "central"
           p == "peripheral"
           f == Other(e)
<1>1. /\ TypeOK /\ StepsOK /\ Once /\ Once' /\ Unsettled /\ e \in Ends
      /\ f \in Ends /\ (\A g \in Ends : g = e \/ g = f)
  BY DEF IInv, TypeOK, Ends, Other
<1>2. cipher # NoKey /\ ~Starting /\ ~Starting'
  BY <1>1 DEF Once, Starting
<1>3. sm[c].step \in CentralLate
  BY <1>1, <1>2 DEF StepsOK, Unsettled, Healthy, Ends
<1>4. Passkey' <=> Passkey BY MethodKept
<1>5. UserIsAsked'
  <2>1. /\ (sm[f].step = "result" => "confirm" \in Unread(f))
        /\ (sm[f].step = "input" => "input" \in Unread(f))
        /\ ("input" \in Unread(f) => Passkey)
        /\ "disconnected" \notin Elems(app[f])
        /\ ("input" \in Unread(e) => Passkey)
        /\ "disconnected" \notin Elems(app[e])
    BY <1>1 DEF Going, UserIsAsked
  <2>2. /\ sm'[e].step \notin AsksUser
        /\ Unread(e)' \subseteq Unread(e) \cup {"complete"}
        /\ Unread(f)' = Unread(f)
        /\ sm'[f] = sm[f] /\ app'[f] = app[f]
    BY DEF Absent, AsksUser, Unread
  <2> HIDE DEF f
  <2> QED BY <1>1, <1>4, <2>1, <2>2 DEF UserIsAsked, AsksUser
<1>6. CASE e = c
  <2>1. f = p BY <1>6 DEF Other
  <2>2. sm'[c].step = "success"
    BY <1>3, <1>6 DEF Absent, CentralLate
  <2>3. /\ sm'[p] = sm[p] /\ (p \in due' <=> p \in due)
    BY <1>6, <2>1
  <2>4. CheckComes'
    BY <2>3 DEF Going, CheckComes, Waiting, Asking, Flying
  <2>5. WaitComes'
    <3> SUFFICES ASSUME Waiting(p)' PROVE Coming'
      BY <2>2 DEF WaitComes, Waiting, Ended
    <3>1. CASE p \in due BY <2>3, <3>1 DEF Coming
    <3>2. CASE p \notin due
      BY <1>2, <2>3, <2>4, <3>2 DEF CheckComes, Coming
    <3> QED BY <3>1, <3>2
  <2>6. AskedAlike'
    BY <1>3, <2>2, <2>3 DEF Going, AskedAlike, Asking, AsksUser, CentralLate,
       Flying
  <2> QED BY <1>2, <1>4, <1>5, <2>2, <2>4, <2>5, <2>6
      DEF Going, ConfirmFollows, ResponseComes, EncryptionComes, Starting,
          Encrypting
<1>7. CASE e = p
  <2>1. f = c BY <1>7 DEF Other
  <2>2. sm'[p].step \in {"absent", "success"} /\ sm'[c] = sm[c]
    BY <1>7, <2>1 DEF Absent
  <2>3. sm[c].step \in Encrypting => c \in due'
    BY <1>2, <1>7 DEF Going, EncryptionComes
  <2>4. Waiting(c) => sm[c].step \in Encrypting
    BY <1>3 DEF Waiting, Ended, CentralLate, Encrypting
  <2>5. WaitComes' /\ EncryptionComes'
    BY <1>2, <2>2, <2>3, <2>4
       DEF WaitComes, EncryptionComes, Waiting, Ended, Coming, Starting
  <2>6. AskedAlike' /\ CheckComes'
    BY <2>2 DEF AskedAlike, CheckComes, Asking, AsksUser, Waiting, Ended
  <2> QED BY <1>3, <1>4, <1>5, <2>2, <2>5, <2>6
      DEF Going, ConfirmFollows, ResponseComes, CentralLate
<1> QED BY <1>1, <1>6, <1>7 DEF Ends

LEMMA EncryptedType ==
  ASSUME NEW e \in Ends, NEW x \in Handler, NEW k
  PROVE HandleEvent(e, x, "encrypted", k) \in Handler
<1> DEFINE y == HandleEvent(e, x, "encrypted", k)
           w == Encrypt(x)
<1>1. y \in {Completes(x), Completes(w), Errs(x)}
  BY DEF HandleEvent, CentralEvent, PeripheralEvent
<1>2. w \in Handler BY EncryptDoes
<1> HIDE DEF w, y
<1>3. Completes(x) \in Handler /\ Completes(w) \in Handler
  BY <1>2, CompletesDoes DEF Chain
<1>4. Errs(x) \in Handler BY ErrsDoes DEF Chain
<1> QED BY <1>1, <1>3, <1>4 DEF y

LEMMA EncryptionChangeGoes ==
  ASSUME IInv, IInv', Alive, NEW e \in Ends, EncryptionChange(e), Healthy'
  PROVE Going'
<1>1. /\ TypeOK /\ e \in due /\ due' = due \ {e} /\ ~dead[e]
      /\ UNCHANGED <<start, slot, air, link, proc, cipher, late>>
  BY DEF EncryptionChange, fixed, IInv
<1>2. slot[e] = "up" /\ ~dead'[e] BY <1>1 DEF Healthy
<1>3. dead \in [Ends -> BOOLEAN] BY <1>1 DEF TypeOK
<1>4. CASE /\ sm[e].step = "absent"
           /\ UNCHANGED <<sm, bonds, events, app, bondable, users, wire, dead,
                          faults>>
  <2>1. UNCHANGED <<sm, app, prompt, wire, dead, faults>> BY <1>4 DEF users
  <2>2. Healthy BY <1>1, <2>1 DEF Healthy, Carried
  <2>3. Going BY <2>2 DEF Alive
  <2> QED BY <1>1, <1>4, <2>1, <2>2, <2>3, ReportedGoes DEF Absent
<1>5. ASSUME NEW room \in Rooms,
             LET x == HandleEvent(e, Begin(e, sm[e], room), "encrypted", 0)
                 y == IF x.ok THEN x ELSE Report(x)
             IN /\ Done(e, y, wire[e])
                /\ level' = [level EXCEPT ![e] =
                               IF y.ok THEN SecurityLevel(y.s) ELSE @]
                /\ dead' = [dead EXCEPT ![e] = ~y.ok]
                /\ Starved(room)
                /\ UNCHANGED <<bondable, prompt>>
      PROVE Going'
  <2> DEFINE b == Begin(e, sm[e], room)
             x == HandleEvent(e, b, "encrypted", 0)
             y == IF x.ok THEN x ELSE Report(x)
  <2>1. sm[e] \in Machine /\ wire[e] \in Seq(Message) BY <1>1 DEF TypeOK
  <2>2. /\ b \in Handler /\ b.out = <<>> /\ b.app = app[e]
    BY <1>1, <2>1, Beginning
  <2>3. /\ Done(e, y, wire[e]) /\ dead' = [dead EXCEPT ![e] = ~y.ok]
        /\ Starved(room) /\ UNCHANGED prompt
    BY <1>5
  <2> HIDE DEF b
  <2>4. x \in Handler BY <2>2, EncryptedType
  <2>5. x.ok => /\ x.s.step = "success" /\ x.out = b.out
                /\ Elems(b.app) \subseteq Elems(x.app)
                /\ Elems(x.app) \subseteq Elems(b.app) \cup {"complete"}
    BY <2>2, EncryptedMoves
  <2> HIDE DEF x
  <2>6. Report(x).ok = x.ok BY <2>4, ReportDoes
  <2>7. x.ok BY <1>2, <1>3, <2>3, <2>6
  <2>8. Done(e, x, wire[e]) BY <2>3, <2>7
  <2>9. UNCHANGED dead BY <1>1, <1>3, <2>3, <2>7
  <2>10. /\ sm'[e] = x.s /\ sm'[Other(e)] = sm[Other(e)]
         /\ app'[e] = x.app /\ app'[Other(e)] = app[Other(e)]
         /\ wire' \in [Ends -> Seq(Message)]
         /\ wire'[e] = wire[e] /\ wire'[Other(e)] = wire[Other(e)]
    BY <1>1, <2>1, <2>2, <2>4, <2>5, <2>7, <2>8, Doing
  <2>11. wire' = wire
    <3>1. \A g \in Ends : g = e \/ g = Other(e) BY DEF Ends, Other
    <3>2. \A g \in Ends : wire'[g] = wire[g] BY <2>10, <3>1
    <3>3. wire \in [Ends -> Seq(Message)] BY <1>1 DEF TypeOK
    <3> QED BY <2>10, <3>2, <3>3
  <2>12. faults' = 0 BY DEF Healthy
  <2>13. faults = 0 BY <1>1, <2>3, <2>12, FullPool
  <2>14. Healthy BY <1>1, <2>9, <2>11, <2>13 DEF Healthy, Carried
  <2>15. Going BY <2>14 DEF Alive
  <2> QED BY <1>1, <2>2, <2>3, <2>5, <2>7, <2>10, <2>11, <2>14, <2>15,
          ReportedGoes
<1> QED BY <1>2, <1>4, <1>5 DEF EncryptionChange

LEMMA ActsDone ==
  ASSUME TypeOK, air, NEW e \in Ends, NEW s \in Machine, NEW room \in Rooms,
         NEW y \in Handler, y.ok, NEW inbox \in Seq(Message), Done(e, y, inbox),
         prompt'[Other(e)] = prompt[Other(e)],
         UNCHANGED <<start, proc, cipher, due>>
  PROVE Acts(e, Begin(e, s, room), y, inbox)
<1> DEFINE x == Begin(e, s, room)
           f == Other(e)
<1>1. /\ x \in Handler /\ x.out = <<>> /\ x.key = bonds[e] /\ x.ev = events[e]
      /\ x.app = app[e]
  BY Beginning
<1>2. f \in Ends /\ f # e BY DEF Ends, Other
<1>3. wire'[f] = wire[f] \o y.out BY <1>2 DEF Done
<1>4. /\ sm'[e] = y.s /\ sm'[f] = sm[f]
      /\ bonds'[e] = y.key /\ bonds'[f] = bonds[f]
      /\ events'[e] = y.ev /\ events'[f] = events[f]
      /\ app'[e] = y.app /\ app'[f] = app[f]
      /\ wire'[e] = inbox
  BY Doing
<1> HIDE DEF x
<1>5. Acts(e, x, y, inbox) BY <1>1, <1>3, <1>4 DEF Acts
<1> QED BY <1>5 DEF x

(* A handler whose report would be on its way has not failed.               *)
LEMMA NoReport ==
  ASSUME TypeOK, Healthy', air, NEW e \in Ends, NEW x \in Handler, x.room # 0,
         NEW y \in Handler, y.out = Report(x).out, NEW inbox, Done(e, y, inbox)
  PROVE FALSE
<1> DEFINE f == Other(e)
<1>1. f \in Ends /\ f # e /\ wire[f] \in Seq(Message) BY DEF Ends, Other, TypeOK
<1>2. y.out \in Seq(Message) BY DEF Handler
<1>3. wire'[f] = wire[f] \o y.out BY <1>1 DEF Done
<1>4. PICK m \in Elems(y.out) : m.k = "failed" BY ReportSends
<1>5. m \in Elems(wire'[f])
  <2>1. PICK i \in DOMAIN y.out : m = y.out[i] BY <1>4 DEF Elems
  <2> DEFINE q == wire[f]
             r == y.out
             z == q \o r
  <2>0. q \in Seq(Message) /\ r \in Seq(Message) BY <1>1, <1>2
  <2> HIDE DEF q, r
  <2>2. /\ DOMAIN z = 1..(Len(q) + Len(r)) /\ DOMAIN r = 1..Len(r)
        /\ Len(q) \in Nat /\ Len(r) \in Nat
        /\ \A j \in 1..(Len(q) + Len(r)) :
             z[j] = IF j <= Len(q) THEN q[j] ELSE r[j - Len(q)]
    BY <2>0
  <2> HIDE DEF z
  <2>3. Len(q) + i \in DOMAIN z /\ z[Len(q) + i] = m
    <3>1. i \in 1..Len(r) /\ r[i] = m BY <2>1, <2>2 DEF r
    <3>2. Len(q) + i \in 1..(Len(q) + Len(r)) /\ ~(Len(q) + i <= Len(q))
          /\ (Len(q) + i) - Len(q) = i
      BY <2>2, <3>1
    <3> QED BY <2>2, <3>1, <3>2
  <2> QED BY <1>3, <2>3 DEF Elems, z, q, r
<1>6. Carried(f, "failed")' BY <1>4, <1>5 DEF Carried
<1> QED BY <1>1, <1>6 DEF Healthy

LEMMA KeepsReports ==
  ASSUME TypeOK, NEW e \in Ends, NEW x, NEW y, NEW inbox, Acts(e, x, y, inbox)
  PROVE Carried(Other(e), "failed") => Carried(Other(e), "failed")'
<1> DEFINE f == Other(e)
           z == wire[f] \o y.out
<1>1. wire[f] \in Seq(Message) /\ y.out \in Seq(Message)
  BY DEF Ends, Other, TypeOK, Acts, Handler
<1>2. Elems(wire[f]) \subseteq Elems(z) BY <1>1, LastOfBoth
<1>3. wire'[f] = z BY DEF Acts
<1> HIDE DEF z, f
<1>4. Carried(f, "failed") => Carried(f, "failed")' BY <1>2, <1>3 DEF Carried
<1> QED BY <1>4 DEF f

(* The handler of an answer, by end. *)
LEMMA AnswerRuns ==
  ASSUME IInv, NEW e \in Ends, ~Absent(e), NEW room \in Rooms,
         NEW event \in {"yes", "key"}, NEW k \in Nat
  PROVE LET b == Begin(e, sm[e], room)
            x == HandleEvent(e, b, event, k)
        IN /\ x \in Handler
           /\ AnswerMove(e, b, x, event)
           /\ x.ok /\ e = "central" => Settles(b, Timer(x))
<1> DEFINE b == Begin(e, sm[e], room)
           x == HandleEvent(e, b, event, k)
<1>1. /\ TypeOK /\ StepsOK /\ Unsettled /\ Unasked /\ Asked /\ link \in Nat
      /\ sm[e] \in Machine
  BY DEF IInv, TypeOK
<1>2. b.s = sm[e] /\ b \in Handler BY <1>1, Beginning
<1>3. ASSUME e = "central"
      PROVE /\ x \in Handler
            /\ AnswerMove(e, b, x, event)
            /\ x.ok => Settles(b, Timer(x))
  <2>1. CentralBegins(b) BY <1>1, <1>3, CentralReady
  <2>2. b.s.step # "idle"
    BY <1>1, <1>2, <1>3 DEF StepsOK, Absent, Later, CentralEarly, CentralLate
  <2>3. x = CentralEvent(b, event, k) BY <1>3 DEF HandleEvent
  <2> HIDE DEF b
  <2>4. CentralRun(b, x) BY <2>1, <2>2, <2>3, CentralEventFacts
  <2>5. AnswerMove(e, b, x, event) BY <1>3, <2>1, <2>3, CentralEventMoves
  <2> HIDE DEF x
  <2>6. x \in Handler BY <2>4 DEF CentralRun
  <2>7. x.ok => CentralRun(b, Timer(x)) BY <2>4, CentralTimer
  <2> QED BY <1>1, <1>2, <2>5, <2>6, <2>7, RunSettles
<1>4. ASSUME e = "peripheral"
      PROVE x \in Handler /\ AnswerMove(e, b, x, event)
  <2>1. PeripheralBegins(b) BY <1>1, <1>4, PeripheralReady
  <2>2. x = PeripheralEvent(b, event, k) BY <1>4 DEF HandleEvent
  <2> HIDE DEF b
  <2>3. AnswerMove(e, b, x, event) BY <1>1, <1>4, <2>1, <2>2, PeripheralEventMoves
  <2> HIDE DEF x
  <2>4. x \in Handler BY <2>3 DEF AnswerMove, Moves
  <2> QED BY <2>3, <2>4
<1> HIDE DEF x, b
<1>5. /\ x \in Handler
      /\ AnswerMove(e, b, x, event)
      /\ x.ok /\ e = "central" => Settles(b, Timer(x))
  BY <1>3, <1>4 DEF Ends
<1> QED BY <1>5 DEF x, b

LEMMA AnsweredGoes ==
  ASSUME IInv, Alive, Healthy', NEW e \in Ends, NEW event \in {"yes", "key"},
         NEW k \in Nat, Live(e),
         prompt[e] = (IF event = "yes" THEN "confirm" ELSE "input"),
         Answered(e, event, k)
  PROVE Going'
<1>1. /\ TypeOK /\ sm[e] \in Machine /\ wire[e] \in Seq(Message) /\ faults \in Nat
      /\ prompt \in [Ends -> {"none", "confirm", "input"}]
  BY DEF IInv, TypeOK
<1>2. UNCHANGED <<level, bondable, start, slot, dead, air, link, proc, cipher,
                  due, late>>
  BY DEF Answered, lower, fixed
<1>3. air /\ slot[e] = "up" /\ faults' = 0 BY <1>2 DEF Healthy, Live
<1>4. PICK room \in Rooms :
        LET x == HandleEvent(e, Begin(e, sm[e], room), event, k)
            y == IF sm[e].step = "absent" THEN Begin(e, sm[e], room)
                 ELSE IF x.ok THEN Timer(x) ELSE Report(x)
            again == ~y.ok /\ y.s.step # "error" /\ faults < MaxFaults
        IN /\ Done(e, IF event = "yes" THEN [y EXCEPT !.seen = 1] ELSE y, wire[e])
           /\ prompt' = [prompt EXCEPT ![e] = IF again THEN @ ELSE "none"]
           /\ IF event = "no" \/ again THEN faults' = faults + 1
              ELSE Starved(room)
  BY DEF Answered
<1> DEFINE b == Begin(e, sm[e], room)
           x == HandleEvent(e, b, event, k)
           y == IF sm[e].step = "absent" THEN b
                ELSE IF x.ok THEN Timer(x) ELSE Report(x)
           again == ~y.ok /\ y.s.step # "error" /\ faults < MaxFaults
           r == IF event = "yes" THEN [y EXCEPT !.seen = 1] ELSE y
<1>5. /\ Done(e, r, wire[e])
      /\ prompt' = [prompt EXCEPT ![e] = IF again THEN @ ELSE "none"]
      /\ IF again THEN faults' = faults + 1 ELSE Starved(room)
  BY <1>4
<1> HIDE DEF again
<1>6. ~again /\ Starved(room) BY <1>1, <1>3, <1>5
<1>7. room = 3 /\ faults = 0 BY <1>1, <1>3, <1>6, FullPool
<1>8. prompt' = [prompt EXCEPT ![e] = "none"] BY <1>5, <1>6
<1>9. /\ b \in Handler /\ b.s = sm[e] /\ b.ok /\ b.room = room
  <2>1. b.room = room BY DEF Begin
  <2> HIDE DEF b
  <2> QED BY <1>1, <2>1, Beginning DEF b
<1>10. ASSUME ~Absent(e)
       PROVE /\ x \in Handler /\ AnswerMove(e, b, x, event)
             /\ x.ok /\ e = "central" => Settles(b, Timer(x))
  BY <1>10, AnswerRuns
<1>11. Absent(e) <=> sm[e].step = "absent" BY DEF Absent
<1> HIDE DEF x, b
<1>12. y \in Handler
  BY <1>9, <1>10, <1>11, TimerDoes, ReportDoes
<1>13. y.ok
  <2> SUFFICES ASSUME ~y.ok PROVE FALSE OBVIOUS
  <2>1. ~Absent(e) /\ ~x.ok
    BY <1>9, <1>10, <1>11, TimerDoes, ReportDoes
  <2>2. y = Report(x) BY <1>11, <2>1
  <2>3. x \in Handler /\ x.room \in Nat BY <1>10, <2>1 DEF Handler
  <2>4. x.room # 0
    <3>1. PICK n, said : Moves(b, x, 2, n, said)
      BY <1>10, <2>1 DEF AnswerMove
    <3>2. 3 <= x.room + 2 BY <1>7, <1>9, <3>1 DEF Moves
    <3> QED BY <2>3, <3>2
  <2>5. r \in Handler /\ r.out = Report(x).out
    <3> HIDE DEF y
    <3>1. [y EXCEPT !.seen = 1] \in Handler /\ [y EXCEPT !.seen = 1].out = y.out
      BY <1>12 DEF Handler
    <3> QED BY <1>12, <2>2, <3>1
  <2> HIDE DEF r
  <2> QED BY <1>1, <1>3, <1>5, <2>3, <2>4, <2>5, NoReport
<1>14. AnswerMove(e, b, r, event) /\ (e = "central" => Settles(b, r))
       /\ r \in Handler /\ r.ok
  <2>1. AnswerMove(e, b, y, event) /\ (e = "central" => Settles(b, y))
    <3>1. CASE Absent(e)
      <4>1. y = b BY <1>11, <3>1
      <4>2. b.s.step = "absent" BY <1>9, <3>1 DEF Absent
      <4>3. AnswerMove(e, b, b, event) BY <1>9, <4>2, AnswerKeeps
      <4> QED BY <4>1, <4>3 DEF Settles
    <3>2. CASE ~Absent(e)
      <4>1. x.ok /\ y = Timer(x)
        BY <1>10, <1>11, <1>13, <3>2, ReportDoes
      <4>2. Quietly(x, Timer(x)) BY <1>10, <3>2, TimerMoves DEF Quietly
      <4>3. AnswerMove(e, b, Timer(x), event)
        BY <1>9, <1>10, <3>2, <4>2, QuietMoves
      <4> QED BY <1>10, <3>2, <4>1, <4>3
    <3> QED BY <3>1, <3>2
  <2> HIDE DEF y
  <2> DEFINE z == [y EXCEPT !.seen = 1]
  <2>2. /\ z \in Handler /\ z.out = y.out /\ z.app = y.app /\ z.room = y.room
        /\ z.s = y.s /\ z.ok = y.ok /\ z.ev = y.ev /\ z.key = y.key
    BY <1>12 DEF Handler
  <2>3. r \in {y, z} OBVIOUS
  <2> HIDE DEF z, r
  <2>4. Still(y, z) BY <2>2 DEF Still
  <2>5. Quietly(y, z) BY <1>12, <2>2, <2>4, StillMoves DEF Quietly
  <2>6. AnswerMove(e, b, z, event) BY <1>9, <2>1, <2>5, QuietMoves
  <2>7. Settles(b, y) => Settles(b, z) BY <2>2 DEF Settles
  <2> QED BY <1>12, <1>13, <2>1, <2>2, <2>3, <2>6, <2>7
<1>15. prompt'[e] = "none" /\ prompt'[Other(e)] = prompt[Other(e)]
  BY <1>1, <1>8 DEF Ends, Other
<1> HIDE DEF r
<1>16. Acts(e, b, r, wire[e])
  BY <1>1, <1>2, <1>3, <1>5, <1>14, <1>15, ActsDone DEF b
<1>17. Healthy
  <2>1. Carried(Other(e), "failed") => Carried(Other(e), "failed")'
    BY <1>1, <1>16, KeepsReports
  <2>2. Carried(e, "failed") => Carried(e, "failed")'
    BY <1>16 DEF Acts, Carried
  <2>3. \A g \in Ends : g = e \/ g = Other(e) BY DEF Ends, Other
  <2>4. \A g \in Ends : slot[g] = "up" BY <1>2 DEF Healthy
  <2> QED BY <1>2, <1>7, <2>1, <2>2, <2>3, <2>4, WasHealthy
<1>18. Going BY <1>17 DEF Alive
<1>19. UserIsAsked'
  BY <1>1, <1>9, <1>14, <1>15, <1>16, <1>18, AnswerAsked DEF Going
<1>20. CASE e = "central"
  BY <1>1, <1>9, <1>14, <1>16, <1>18, <1>19, <1>20, CentralAnswers
<1>21. CASE e = "peripheral"
  BY <1>9, <1>14, <1>16, <1>17, <1>18, <1>19, <1>21, PeripheralAnswers
<1> QED BY <1>20, <1>21 DEF Ends

(* A request of security that fails tells nobody. *)
LEMMA InitiateFails ==
  ASSUME NEW x \in Handler, ~Initiate(x).ok
  PROVE Initiate(x).app = x.app
<1>0. {"bonded_link", "response"} \subseteq Steps BY DEF Steps
<1>1. CASE x.key # NoKey
  <2> DEFINE z == Encrypt(x)
             y == Go(z, "bonded_link")
  <2>1. z \in Handler /\ z.app = x.app BY EncryptDoes
  <2>2. Initiate(x) = y BY <1>1 DEF Initiate
  <2> HIDE DEF z
  <2>3. Moves(z, y, 0, "none", {}) /\ y.ok = z.ok BY <1>0, <2>1, GoMoves
  <2>4. y = z BY <2>2, <2>3 DEF Go
  <2> QED BY <2>1, <2>2, <2>4
<1>2. CASE x.key = NoKey
  <2> DEFINE v == <<Flag(x.s.own)>>
             z == Send(x, "request", v)
             y == Go(z, "response")
  <2>1. [k |-> "request", v |-> v] \in Message
    BY DEF Message, FlagMsgs, Flagged, Flag
  <2>2. Initiate(x) = y BY <1>2 DEF Initiate
  <2> HIDE DEF v
  <2>3. z \in Handler /\ z.app = x.app BY <2>1, SendDoes
  <2> HIDE DEF z
  <2>4. y.ok = z.ok BY <1>0, <2>3, GoMoves
  <2>5. y = z BY <2>2, <2>4 DEF Go
  <2> QED BY <2>2, <2>3, <2>5
<1> QED BY <1>1, <1>2

LEMMA SecurityRuns ==
  ASSUME IInv, NEW e \in Ends, Absent(e), NEW room \in Rooms,
         NEW s \in Machine, s.step = Fresh(e).step, s.bond = NoKey,
         NEW x, x = Begin(e, s, room), NEW y, y = Request(e, x)
  PROVE /\ y \in Handler
        /\ ~y.ok => /\ y.out = <<>> /\ y.app = x.app /\ y.key = x.key
                    /\ Encrypts(y.ev) = Encrypts(x.ev)
        /\ e = "central" => CentralMove(x, y, "asked") /\ Settles(x, y)
        /\ e = "peripheral" => PeripheralMove(x, y, "asked")
<1>1. /\ TypeOK /\ StepsOK /\ Unsettled /\ Asked /\ link \in Nat
  BY DEF IInv, TypeOK
<1>2. x \in Handler /\ x.s = s /\ x.out = <<>> BY <1>1, Beginning
<1>3. ASSUME e = "central"
      PROVE /\ y \in Handler
            /\ ~y.ok => /\ y.out = <<>> /\ y.app = x.app /\ y.key = x.key
                        /\ Encrypts(y.ev) = Encrypts(x.ev)
            /\ CentralMove(x, y, "asked") /\ Settles(x, y)
  <2>1. s.step = "idle" BY <1>3, FreshType
  <2>2. CentralBegins(x) BY <1>1, <1>3, <2>1, CentralReady
  <2>3. y = Initiate(x) BY <1>3 DEF Request
  <2>4. /\ CentralRun(x, y)
        /\ y.ok \/ (y.out = <<>> /\ y.s = x.s /\ y.seen = x.seen)
    BY <1>2, <2>1, <2>2, <2>3, InitiateRuns
  <2>5. ~y.ok => y.app = x.app BY <1>2, <2>3, InitiateFails
  <2>6. ~y.ok => y.key = x.key /\ Encrypts(y.ev) = Encrypts(x.ev)
    BY <1>2, <2>1, <2>4 DEF CentralRun
  <2>7. Still(x, x) BY <1>2 DEF Still
  <2>8. Moves(x, x, 0, "none", {}) BY <1>2, <2>7, StillMoves
  <2>9. x.s.own \in BOOLEAN BY <1>2 DEF Machine
  <2>10. CentralMove(x, y, "asked")
    BY <1>2, <2>1, <2>3, <2>8, <2>9, CentralInitiates
  <2>11. y \in Handler BY <2>4 DEF CentralRun
  <2>12. Settles(x, y) BY <1>1, <1>2, <2>4, RunSettles
  <2> QED BY <2>4, <2>5, <2>6, <2>10, <2>11, <2>12
<1>4. ASSUME e = "peripheral"
      PROVE /\ y \in Handler
            /\ ~y.ok => /\ y.out = <<>> /\ y.app = x.app /\ y.key = x.key
                        /\ Encrypts(y.ev) = Encrypts(x.ev)
            /\ PeripheralMove(x, y, "asked")
  <2>1. s.step = "pairing_request" BY <1>4, FreshType
  <2>2. y = Send(x, "security", <<>>) BY <1>4 DEF Request
  <2>3. [k |-> "security", v |-> <<>>] \in Message
    BY DEF Message, BareMsgs, Nothing
  <2>4. /\ y \in Handler
        /\ ~y.ok => /\ y.out = <<>> /\ y.app = x.app /\ y.key = x.key
                    /\ Encrypts(y.ev) = Encrypts(x.ev)
    BY <1>2, <2>2, <2>3, SendDoes
  <2> DEFINE said == {}
  <2>5. said \subseteq Hints /\ "input" \notin said OBVIOUS
  <2>6. Moves(x, y, 1, "security", said) /\ y.s = x.s
    BY <1>2, <2>2, <2>3, SendMoves
  <2> HIDE DEF said
  <2>7. Moves(x, y, 2, "security", said) BY <1>2, <2>6, MovesMore
  <2>8. PeripheralMove(x, y, "asked")
    BY <1>2, <2>1, <2>5, <2>6, <2>7, PeripheralSends
  <2> QED BY <2>4, <2>8
<1>5. e = "central" \/ e = "peripheral" BY DEF Ends
<1>6. "central" # "peripheral" OBVIOUS
<1>7. y \in Handler BY <1>3, <1>4, <1>5
<1>8. ~y.ok => /\ y.out = <<>> /\ y.app = x.app /\ y.key = x.key
              /\ Encrypts(y.ev) = Encrypts(x.ev)
  BY <1>3, <1>4, <1>5
<1>9. e = "central" => CentralMove(x, y, "asked") /\ Settles(x, y)
  BY <1>3
<1>10. e = "peripheral" => PeripheralMove(x, y, "asked") BY <1>4
<1> QED BY <1>7, <1>8, <1>9, <1>10

LEMMA RequestSecurityGoes ==
  ASSUME IInv, IInv', Alive, Healthy', NEW e \in Ends, RequestSecurity(e)
  PROVE Going'
<1>1. /\ TypeOK /\ Left /\ Absent(e) /\ sm[e] = None
      /\ bondable[e] \in BOOLEAN /\ wire[e] \in Seq(Message)
  BY DEF IInv, RequestSecurity, Absent, TypeOK, Left
<1>2. UNCHANGED <<start, level, bondable, slot, dead, air, link, proc, cipher,
                  due, late, prompt>>
  BY DEF RequestSecurity, lower, fixed
<1> DEFINE s == [Fresh(e) EXCEPT !.own = bondable[e]]
<1>3. PICK room \in Rooms :
       LET x == Begin(e, s, room)
           y == Request(e, x)
       IN /\ Done(e, IF y.ok THEN y ELSE [y EXCEPT !.s = None], wire[e])
          /\ Starved(room)
  BY DEF RequestSecurity, Request
<1>4. s \in Machine /\ s.step = Fresh(e).step /\ s.bond = NoKey
  BY <1>1, FreshType
<1> HIDE DEF s
<1> DEFINE x == Begin(e, s, room)
           y == Request(e, x)
           z == [y EXCEPT !.s = None]
<1>5. Done(e, IF y.ok THEN y ELSE z, wire[e]) /\ Starved(room)
  BY <1>3
<1>6. x.s = s /\ x.key = bonds[e] /\ x.ev = events[e] /\ x.app = app[e]
  BY <1>1, <1>4, Beginning
<1>7. /\ y \in Handler
      /\ ~y.ok => /\ y.out = <<>> /\ y.app = x.app /\ y.key = x.key
                  /\ Encrypts(y.ev) = Encrypts(x.ev)
      /\ e = "central" => CentralMove(x, y, "asked") /\ Settles(x, y)
      /\ e = "peripheral" => PeripheralMove(x, y, "asked")
  BY <1>1, <1>4, SecurityRuns
<1> HIDE DEF y
<1>8. /\ z \in Handler /\ z.s = None /\ z.out = y.out /\ z.key = y.key
      /\ z.ev = y.ev /\ z.app = y.app
  BY <1>7, FreshType, PutDoes
<1> HIDE DEF z, x
<1>9. faults' = 0 /\ air /\ faults = 0
  <2>1. faults' = 0 /\ air BY <1>2 DEF Healthy
  <2> QED BY <1>1, <1>5, <2>1, FullPool
<1>10. \A g \in Ends : slot[g] = "up" /\ (dead[g] => dead'[g])
  BY <1>2 DEF Healthy
<1>11. \A g \in Ends : g = e \/ g = Other(e) BY DEF Ends, Other
<1>12. CASE y.ok
  <2>1. Acts(e, x, y, wire[e])
    BY <1>1, <1>2, <1>4, <1>5, <1>7, <1>9, <1>12, ActsDone DEF x
  <2>2. Healthy
    <3>1. Carried(Other(e), "failed") => Carried(Other(e), "failed")'
      BY <1>1, <2>1, KeepsReports
    <3>2. Carried(e, "failed") => Carried(e, "failed")'
      BY <2>1 DEF Acts, Carried
    <3> QED BY <1>2, <1>9, <1>10, <1>11, <3>1, <3>2, WasHealthy
  <2>3. Going BY <2>2 DEF Alive
  <2>4. CASE e = "central"
    <3>1. x.s.step = "idle" BY <1>4, <1>6, <2>4, FreshType
    <3>2. x.s.step \in CentralEarly BY <3>1 DEF CentralEarly
    <3> DEFINE c == "asked"
               inbox == wire["central"]
    <3>3. Acts("central", x, y, inbox) /\ CentralMove(x, y, c) /\ Settles(x, y)
      BY <1>7, <2>1, <2>4
    <3>4. c = "asked" /\ inbox = wire["central"] OBVIOUS
    <3> HIDE DEF c, inbox
    <3> QED BY <1>1, <1>2, <2>2, <2>3, <2>4, <3>1, <3>2, <3>3, <3>4, CentralGoes
  <2>5. CASE e = "peripheral"
    <3>1. x.s.step = "pairing_request" BY <1>4, <1>6, <2>5, FreshType
    <3> DEFINE c == "asked"
               inbox == wire["peripheral"]
    <3>3. Acts("peripheral", x, y, inbox) /\ PeripheralMove(x, y, c)
      BY <1>7, <2>1, <2>5
    <3>4. c = "asked" /\ inbox = wire["peripheral"] OBVIOUS
    <3> HIDE DEF c, inbox
    <3> QED BY <1>1, <1>2, <2>3, <2>5, <3>1, <3>3, <3>4, PeripheralGoes
  <2> QED BY <2>4, <2>5 DEF Ends
<1>13. CASE ~y.ok
  <2>1. Done(e, z, wire[e]) BY <1>5, <1>13
  <2>2. /\ sm'[e] = z.s /\ sm'[Other(e)] = sm[Other(e)]
        /\ bonds'[e] = z.key /\ bonds'[Other(e)] = bonds[Other(e)]
        /\ events'[e] = z.ev /\ events'[Other(e)] = events[Other(e)]
        /\ app'[e] = z.app /\ app'[Other(e)] = app[Other(e)]
        /\ wire'[e] = wire[e]
        /\ z.out = <<>> => wire'[Other(e)] = wire[Other(e)]
        /\ sm' \in [Ends -> Machine] /\ app' \in [Ends -> Seq(News)]
        /\ wire' \in [Ends -> Seq(Message)]
    BY <1>1, <1>8, <2>1, Doing
  <2>3. \A g \in Ends : /\ sm'[g] = sm[g] /\ app'[g] = app[g]
                        /\ wire'[g] = wire[g] /\ bonds'[g] = bonds[g]
                        /\ Encrypts(events'[g]) = Encrypts(events[g])
    BY <1>1, <1>6, <1>7, <1>8, <1>11, <1>13, <2>2
  <2>4. sm' = sm /\ app' = app /\ wire' = wire
    <3>1. /\ sm \in [Ends -> Machine] /\ app \in [Ends -> Seq(News)]
          /\ wire \in [Ends -> Seq(Message)]
      BY <1>1 DEF TypeOK
    <3> QED BY <2>2, <2>3, <3>1
  <2>5. Healthy BY <1>2, <1>9, <1>10, <2>4, WasHealthy DEF Carried
  <2>6. Going BY <2>5 DEF Alive
  <2>7. Starting => Starting' BY <1>2, <2>3 DEF Starting, Ends
  <2>8. Encrypts(events'["central"]) # {} => bonds'["central"] # NoKey
    BY <2>3, <2>6 DEF Going, EncryptionComes, Ends
  <2> QED BY <1>2, <2>4, <2>6, <2>7, <2>8, StartGoes
<1> QED BY <1>12, <1>13

(* A central that has its encryption started refuses every command. *)
LEMMA LateRefuses ==
  ASSUME NEW x, x.s.step \in CentralLate, NEW k, NEW v, NEW b, NEW shown,
         x \in Handler
  PROVE ~CentralCommand(x, k, v, b, shown).ok
<1>1. x.s.step \notin CentralEarly BY DEF CentralEarly, CentralLate
<1>2. CentralCommand(x, k, v, b, shown) = Refuse(x)
  BY <1>1 DEF CentralCommand, CentralEarly
<1>3. ~Refuse(x).ok BY DEF Refuse, Handler
<1> QED BY <1>2, <1>3

(* The handler of a command, by end. *)
LEMMA MessageRuns ==
  ASSUME IInv, NEW e \in Ends, NEW room \in Rooms, NEW s \in Machine,
         IF Absent(e) THEN s.step = Fresh(e).step /\ s.bond = NoKey
         ELSE s = sm[e],
         NEW m \in Message, m \in Elems(wire[e]), NEW shown \in Nat,
         NEW b, b = Begin(e, s, room), NEW x, x = Command(e, b, m, shown)
  PROVE /\ x \in Handler
        /\ \E n, said : Moves(b, x, 2, n, said)
        /\ m.k = "failed" => ~x.ok
        /\ e = "central" =>
             /\ CentralMove(b, x, m.k)
             /\ x.ok => Settles(b, Timer(x)) /\ b.s.step \in CentralEarly
        /\ e = "peripheral" => PeripheralMove(b, x, m.k)
<1>1. /\ TypeOK /\ StepsOK /\ Unsettled /\ Unasked /\ Asked /\ link \in Nat
      /\ bondable[e] \in BOOLEAN
  BY DEF IInv, TypeOK
<1>2. b \in Handler /\ b.s = s BY <1>1, Beginning
<1>3. ASSUME e = "central"
      PROVE /\ CentralMove(b, x, m.k)
            /\ m.k = "failed" => ~x.ok
            /\ x.ok => Settles(b, Timer(x)) /\ b.s.step \in CentralEarly
  <2>1. IF Absent(e) THEN s.step = "idle" /\ s.bond = NoKey ELSE s = sm[e]
    BY <1>3, FreshType
  <2>2. CentralBegins(b) BY <1>1, <1>3, <2>1, CentralReady
  <2> DEFINE own == bondable[e]
             z == [b EXCEPT !.s.own = own]
  <2>3. x = CentralCommand(b, m.k, m.v, own, shown) BY <1>3 DEF Command
  <2>4. own \in BOOLEAN BY <1>1
  <2> HIDE DEF own
  <2>5. CentralMove(b, x, m.k) /\ (m.k = "failed" => ~x.ok)
    BY <1>1, <2>2, <2>3, <2>4, CentralCommandMoves
  <2>6. CentralRun(b, x) \/ (CentralBegins(z) /\ CentralRun(z, x))
    BY <1>1, <1>3, <2>2, <2>3, <2>4, CentralCommandRuns
  <2>7. z.s.step = b.s.step /\ z.ev = b.ev /\ z.key = b.key
    <3> DEFINE t == [b.s EXCEPT !.own = own]
    <3>1. t.step = b.s.step BY <1>2 DEF Machine
    <3>2. z = [b EXCEPT !.s = t] OBVIOUS
    <3> HIDE DEF t, z
    <3> QED BY <1>2, <3>1, <3>2 DEF Handler
  <2> HIDE DEF z
  <2>8. ASSUME x.ok PROVE Settles(b, Timer(x))
    <3>1. CASE CentralRun(b, x)
      BY <1>1, <1>2, <2>8, <3>1, CentralTimer, RunSettles
    <3>2. CASE CentralBegins(z) /\ CentralRun(z, x)
      <4>1. z \in Handler BY <3>2 DEF CentralBegins
      <4>2. Settles(z, Timer(x))
        BY <1>1, <2>8, <3>2, <4>1, CentralTimer, RunSettles
      <4> QED BY <2>7, <4>2 DEF Settles
    <3> QED BY <2>6, <3>1, <3>2
  <2>9. x.ok => b.s.step \in CentralEarly
    BY <1>2, <2>2, <2>3, LateRefuses DEF CentralBegins
  <2> QED BY <2>5, <2>8, <2>9
<1>4. ASSUME e = "peripheral"
      PROVE PeripheralMove(b, x, m.k) /\ (m.k = "failed" => ~x.ok)
  <2>1. IF Absent(e) THEN s.step = "pairing_request" /\ s.bond = NoKey
        ELSE s = sm[e]
    BY <1>4, FreshType
  <2>2. PeripheralBegins(b) BY <1>1, <1>4, <2>1, PeripheralReady
  <2>3. x = PeripheralCommand(b, m.k, m.v, bondable[e], shown)
    BY <1>4 DEF Command
  <2> QED BY <1>1, <2>2, <2>3, PeripheralCommandMoves
<1>5. \E n, said : Moves(b, x, 2, n, said)
  BY <1>3, <1>4 DEF Ends, CentralMove, PeripheralMove
<1>6. x \in Handler BY <1>5 DEF Moves
<1> QED BY <1>3, <1>4, <1>5, <1>6 DEF Ends

LEMMA DeliverGoes ==
  ASSUME IInv, IInv', Alive, Healthy', NEW e \in Ends, Deliver(e)
  PROVE Going'
<1>1. /\ TypeOK /\ wire[e] \in Seq(Message) /\ wire[e] # <<>>
      /\ sm[e] \in Machine /\ slot \in [Ends -> {"up", "closing", "down"}]
      /\ late' = late
  BY DEF IInv, TypeOK, Deliver, fixed
<1> DEFINE m == Head(wire[e])
           inbox == Tail(wire[e])
<1>2. /\ inbox \in Seq(Message) /\ m \in Message /\ m \in Elems(wire[e])
      /\ Elems(wire[e]) = {m} \cup Elems(inbox)
  BY <1>1, ElemsOfTail, ElemsSplit
<1>3. \A g \in Ends : g = e \/ g = Other(e) BY DEF Ends, Other
<1>4. slot[e] # "closing"
  <2>1. CASE slot[e] = "closing"
    <3>1. slot' = slot BY <2>1 DEF Deliver, lower
    <3> QED BY <2>1, <3>1 DEF Healthy
  <2> QED BY <2>1
<1>5. PICK room \in Rooms, shown \in Passkeys :
        LET s == IF sm[e].step = "absent" THEN Fresh(e) ELSE sm[e]
            x == Command(e, Begin(e, s, room), m, shown)
            y == IF x.ok THEN Timer(x)
                 ELSE Report([x EXCEPT !.s.step = "error"])
        IN /\ Done(e, y, inbox)
           /\ slot' = [slot EXCEPT ![e] = IF x.bad THEN "closing" ELSE @]
           /\ Starved(room)
           /\ UNCHANGED <<level, bondable, prompt, dead, air, link, proc,
                          cipher, due>>
  BY <1>4 DEF Deliver
<1> DEFINE s == IF sm[e].step = "absent" THEN Fresh(e) ELSE sm[e]
           b == Begin(e, s, room)
           x == Command(e, b, m, shown)
           w == [x EXCEPT !.s.step = "error"]
           y == IF x.ok THEN Timer(x) ELSE Report(w)
<1>6. /\ Done(e, y, inbox)
      /\ slot' = [slot EXCEPT ![e] = IF x.bad THEN "closing" ELSE @]
      /\ Starved(room)
      /\ UNCHANGED <<level, bondable, prompt, dead, air, link, proc,
                     cipher, due>>
  BY <1>5
<1>7. UNCHANGED start BY DEF Deliver, fixed
<1> HIDE DEF m, inbox
<1>8. s \in Machine /\ shown \in Nat
  BY <1>1, FreshType, ValuesAssumption
<1>9. IF Absent(e) THEN s.step = Fresh(e).step /\ s.bond = NoKey ELSE s = sm[e]
  BY FreshType DEF Absent
<1> HIDE DEF s
<1>10. b \in Handler /\ b.s = s /\ b.room = room
  <2>1. b.room = room BY DEF Begin
  <2> HIDE DEF b
  <2> QED BY <1>1, <1>8, <2>1, Beginning DEF b
<1>11. /\ x \in Handler
       /\ \E n, said : Moves(b, x, 2, n, said)
       /\ m.k = "failed" => ~x.ok
       /\ e = "central" =>
            /\ CentralMove(b, x, m.k)
            /\ x.ok => Settles(b, Timer(x)) /\ b.s.step \in CentralEarly
       /\ e = "peripheral" => PeripheralMove(b, x, m.k)
  <2> HIDE DEF x, b
  <2> QED BY <1>2, <1>8, <1>9, MessageRuns DEF x, b
<1> HIDE DEF x, b
<1>12. faults' = 0 /\ air BY <1>6 DEF Healthy
<1>13. room = 3 /\ faults = 0 BY <1>1, <1>6, <1>12, FullPool
<1>14. w \in Handler /\ w.room = x.room
  <2> DEFINE t == [x.s EXCEPT !.step = "error"]
  <2>1. t \in Machine BY <1>11 DEF Handler, Machine, Steps
  <2>2. w = [x EXCEPT !.s = t] OBVIOUS
  <2> HIDE DEF t, w
  <2> QED BY <1>11, <2>1, <2>2 DEF Handler
<1> HIDE DEF w
<1>15. y \in Handler BY <1>11, <1>14, TimerDoes, ReportDoes
<1>16. x.ok
  <2> SUFFICES ASSUME ~x.ok PROVE FALSE OBVIOUS
  <2>1. y = Report(w) OBVIOUS
  <2>2. w.room # 0
    <3>1. PICK n, said : Moves(b, x, 2, n, said) BY <1>11
    <3>2. 3 <= x.room + 2 /\ x.room \in Nat
      BY <1>10, <1>11, <1>13, <3>1 DEF Moves, Handler
    <3> QED BY <1>14, <3>2
  <2> HIDE DEF y
  <2> QED BY <1>1, <1>6, <1>12, <1>14, <1>15, <2>1, <2>2, NoReport
<1>17. y = Timer(x) /\ y.ok BY <1>11, <1>16, TimerDoes
<1>18. Quietly(x, y) BY <1>11, <1>17, TimerMoves DEF Quietly
<1> HIDE DEF y
<1>19. Acts(e, b, y, inbox)
  BY <1>1, <1>2, <1>6, <1>7, <1>8, <1>12, <1>15, <1>17, ActsDone DEF b
<1>20. Healthy
  <2>1. Carried(Other(e), "failed") => Carried(Other(e), "failed")'
    BY <1>1, <1>19, KeepsReports
  <2>2. Carried(e, "failed") => Carried(e, "failed")'
    BY <1>2, <1>11, <1>16, <1>19 DEF Acts, Carried
  <2>3. slot'[Other(e)] = slot[Other(e)] /\ Other(e) \in Ends
    BY <1>1, <1>6 DEF Ends, Other
  <2>4. \A g \in Ends : slot'[g] = "up" BY DEF Healthy
  <2>5. slot[e] = "up"
    <3>1. slot'[e] \in {"closing", slot[e]} BY <1>1, <1>6
    <3> QED BY <2>4, <3>1
  <2>6. \A g \in Ends : slot[g] = "up" BY <1>3, <2>3, <2>4, <2>5
  <2> QED BY <1>1, <1>3, <1>6, <1>13, <2>1, <2>2, <2>6, WasHealthy
<1>21. Going BY <1>20 DEF Alive
<1> DEFINE c == m.k
<1>22. c = Head(wire[e]).k /\ inbox = Tail(wire[e]) BY DEF m, inbox
<1>23. /\ e = "central" => CentralMove(b, y, c) /\ Settles(b, y)
                           /\ b.s.step \in CentralEarly
       /\ e = "peripheral" => PeripheralMove(b, y, c)
  BY <1>10, <1>11, <1>16, <1>17, <1>18, QuietMoves
<1> HIDE DEF c
<1>24. CASE e = "central"
  <2>1. IF Absent("central") THEN b.s.step = "idle" ELSE b.s = sm["central"]
    BY <1>9, <1>10, <1>24, FreshType
  <2> QED BY <1>1, <1>6, <1>19, <1>20, <1>21, <1>22, <1>23, <1>24, <2>1,
             CentralGoes
<1>25. CASE e = "peripheral"
  <2>1. IF Absent("peripheral") THEN b.s.step = "pairing_request"
        ELSE b.s = sm["peripheral"]
    BY <1>9, <1>10, <1>25, FreshType
  <2> QED BY <1>1, <1>6, <1>19, <1>21, <1>22, <1>23, <1>25, <2>1,
             PeripheralGoes
<1> QED BY <1>24, <1>25 DEF Ends

(* Each step keeps a healthy pairing going, or is one of those after which  *)
(* it is not healthy.                                                       *)
LEMMA StaysAlive ==
  ASSUME IInv, IInv', Alive, [Next]_vars
  PROVE Alive'
<1> SUFFICES ASSUME Healthy' PROVE Going' BY DEF Alive
<1>1. /\ faults' = 0 /\ ~late' /\ air' /\ faults \in Nat
      /\ slot \in [Ends -> {"up", "closing", "down"}]
      /\ \A e \in Ends : slot'[e] = "up" /\ ~dead'[e]
  BY DEF Healthy, IInv, TypeOK
<1>2. faults' # faults + 1 BY <1>1
<1>3. ASSUME NEW e \in Ends, Confirm(e) PROVE Going'
  <2> DEFINE event == "yes"
             asked == IF event = "yes" THEN "confirm" ELSE "input"
  <2>1. /\ Live(e) /\ prompt[e] = asked /\ Answered(e, event, 0)
        /\ event \in {"yes", "key"}
    BY <1>3 DEF Confirm
  <2> HIDE DEF event
  <2> QED BY <2>1, AnsweredGoes
<1>4. ASSUME NEW e \in Ends, Type(e) PROVE Going'
  <2> DEFINE event == "key"
             asked == IF event = "yes" THEN "confirm" ELSE "input"
  <2>1. PICK k \in Typed : Answered(e, event, k) BY <1>4 DEF Type
  <2>2. /\ Live(e) /\ prompt[e] = asked /\ event \in {"yes", "key"}
        /\ k \in Nat
    BY <1>4, ValuesAssumption DEF Type
  <2> HIDE DEF event
  <2> QED BY <2>1, <2>2, AnsweredGoes
<1>5. ASSUME NEW e \in Ends, Cancel(e) PROVE FALSE
  BY <1>2, <1>5 DEF Cancel, Answered
<1>6. ASSUME NEW e \in Ends, RemoveBond(e) PROVE FALSE
  BY <1>2, <1>6 DEF RemoveBond
<1>7. ASSUME NEW e \in Ends, Disconnected(e) PROVE FALSE
  BY <1>1, <1>7 DEF Disconnected, Forget
<1>8. ASSUME NEW e \in Ends, Timeout(e) PROVE FALSE
  BY <1>1, <1>8 DEF Timeout
<1>9. ASSUME NEW e \in Ends, Hangup(e) PROVE FALSE
  BY <1>1, <1>9 DEF Hangup
<1>10. ASSUME Lose PROVE FALSE BY <1>1, <1>10 DEF Lose
<1>11. CASE Next
  <2>1. CASE LtkRequest BY <2>1, LtkRequestGoes
  <2>2. CASE Lose BY <1>10, <2>2
  <2>3. CASE Connect BY <2>3, ConnectGoes
  <2>4. ASSUME NEW e \in Ends,
               \/ RequestSecurity(e) \/ Read(e)
               \/ Confirm(e) \/ Cancel(e) \/ Type(e) \/ RemoveBond(e)
               \/ Deliver(e) \/ EncryptionChange(e) \/ Disconnected(e)
               \/ Control(e) \/ Timeout(e) \/ Hangup(e)
        PROVE Going'
    <3>1. CASE RequestSecurity(e) BY <3>1, RequestSecurityGoes
    <3>2. CASE Read(e) BY <3>2, ReadGoes
    <3>3. CASE Deliver(e) BY <3>3, DeliverGoes
    <3>4. CASE EncryptionChange(e) BY <3>4, EncryptionChangeGoes
    <3>5. CASE Control(e) BY <3>5, ControlGoes
    <3> QED BY <1>3, <1>4, <1>5, <1>6, <1>7, <1>8, <1>9, <2>4,
               <3>1, <3>2, <3>3, <3>4, <3>5
  <2> QED BY <1>11, <2>1, <2>2, <2>3, <2>4 DEF Next
<1>12. CASE UNCHANGED vars
  <2>1. UNCHANGED <<sm, bonds, events, app, prompt, wire, slot, dead, air,
                    proc, cipher, due, start, faults, late>>
    BY <1>12 DEF vars, hosts, users, lower, fixed
  <2>2. Healthy BY <2>1 DEF Healthy, Carried
  <2>3. Going BY <2>2 DEF Alive
  <2>4. Starting => Starting' BY <2>1 DEF Starting
  <2>5. Encrypts(events'["central"]) # {} => bonds'["central"] # NoKey
    BY <2>1, <2>3 DEF Going, EncryptionComes
  <2> QED BY <2>1, <2>3, <2>4, <2>5, StartGoes
<1> QED BY <1>11, <1>12

(* While a healthy pairing keeps going, none of its waits is without cause. *)
LEMMA GoingHasCause == IInv /\ Alive => WaitHasACause
<1> SUFFICES ASSUME IInv, Alive, NEW e \in Ends, Waiting(e), faults = 0, ~late,
                    air, proc = Idle, \A g \in Ends : ~Pending(g)
             PROVE FALSE
  BY DEF WaitHasACause
<1>1. \A g \in Ends : /\ wire[g] = <<>> /\ events[g] = <<>> /\ app[g] = <<>>
                      /\ prompt[g] = "none" /\ slot[g] = "up" /\ ~dead[g]
                      /\ g \notin due
  BY DEF Pending
<1>2. Elems(<<>>) = {} BY ElemsOfNone
<1>3. Healthy BY <1>1, <1>2 DEF Healthy, Carried
<1>4. Going BY <1>3 DEF Alive
<1>5. Coming BY <1>4 DEF Going, WaitComes, Ends
<1>6. ~Flying BY <1>1 DEF Flying, Ends
<1>7. ~Starting
  <2>1. Encrypts(<<>>) = {} BY ElemsOfNone
  <2> QED BY <1>1, <2>1 DEF Starting, Ends
<1>8. due = {} BY <1>1 DEF IInv, TypeOK
<1>9. \A g \in Ends : ~Asking(g)
  <2> SUFFICES ASSUME NEW g \in Ends, Asking(g) PROVE FALSE OBVIOUS
  <2>1. Unread(g) = {"none"} BY <1>1, <1>2 DEF Unread
  <2>2. "confirm" \in Unread(g) \/ "input" \in Unread(g)
    BY <1>4 DEF Going, UserIsAsked, Asking, AsksUser
  <2> QED BY <2>1, <2>2
<1> QED BY <1>5, <1>6, <1>7, <1>8, <1>9 DEF Coming, Ends

(* WaitsEnd: a pairing with no fault and no deadline behind it never stands  *)
(* still: while a machine waits, a message, an event, a question to a user,  *)
(* the start of the encryption or the report of it is on its way.            *)
THEOREM WaitsEnd == Spec => []WaitHasACause
<1>1. Init => Alive
  <2> SUFFICES ASSUME Init, Healthy PROVE FALSE BY DEF Alive
  <2> QED BY DEF Init, Healthy
<1>2. Init => IInv BY InitOK
<1>3. IInv /\ [Next]_vars => IInv' BY Inductive
<1>4. IInv /\ IInv' /\ Alive /\ [Next]_vars => Alive' BY StaysAlive
<1>5. IInv /\ Alive => WaitHasACause BY GoingHasCause
<1> QED BY <1>1, <1>2, <1>3, <1>4, <1>5, PTL DEF Spec
=============================================================================
