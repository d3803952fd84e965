-------------------------- MODULE PairingInvariant --------------------------
(* Why the pairing of Pairing.tla keeps its promises: the types of its      *)
(* state, the inductive invariant IInv behind the four that concern keys    *)
(* and levels, and Alive, which says what a healthy pairing is waiting for. *)
(* Both speak of handlers through summaries of them: CentralRun and         *)
(* PeripheralRun for what a run of a machine may change, CentralMove,       *)
(* PeripheralMove and AnswerMove for what it does for the other end, and    *)
(* Class for what the steps of the specification come to.  The proofs are   *)
(* in PairingProofs.tla.                                                    *)
EXTENDS Pairing, Integers

----------------------------------------------------------------------------
(* The types. *)
Steps == {"absent", "idle", "response", "public_key", "numeric_confirm",
          "numeric_random", "result", "input", "confirm", "random",
          "dhkey_eb", "dhkey_ea", "link_encrypted", "bonded_link",
          "pairing_request", "success", "error"}
Levels == {"none", "encrypted", "auth"}
Queued == {"timer", "encrypt", "ltk"}
News == {"display", "input", "confirm", "complete", "failed", "disconnected"}

Keys == [link : Nat, c : Nat, p : Nat, level : Levels, bonded : BOOLEAN]
Commitments == {<<n, Bit(k, r)>> : n \in Nat, k \in Nat, r \in Nat}
Checks == Nat \X Nat \X Nat
Nonces == {<<n>> : n \in Nat}
Flagged == {<<0>>, <<1>>}
Nothing == {<<>>}

FlagMsgs == [k : {"request", "response"}, v : Flagged]
BareMsgs == [k : {"public_key", "security", "failed"}, v : Nothing]
ConfirmMsgs == [k : {"confirm"}, v : Commitments]
RandomMsgs == [k : {"random"}, v : Nonces]
CheckMsgs == [k : {"dhkey"}, v : Checks]
Message == FlagMsgs \cup BareMsgs \cup ConfirmMsgs \cup RandomMsgs \cup CheckMsgs

Machine == [step : Steps, round : Nat, held : Nothing \cup Commitments \cup Checks,
            own : BOOLEAN, peer : BOOLEAN, secret : Nat, nonce : Nat,
            peernonce : Nat, confirm : Nothing \cup Commitments \cup Checks,
            bond : Keys]
Handler == [s : Machine, out : Seq(Message), ev : Seq(Queued),
            app : Seq(News), key : Keys, room : Nat, ok : BOOLEAN,
            bad : BOOLEAN, seen : Nat]

TypeOK ==
  /\ start \in Starts
  /\ bondable \in [Ends -> BOOLEAN]
  /\ sm \in [Ends -> Machine]
  /\ level \in [Ends -> Levels]
  /\ bonds \in [Ends -> Keys]
  /\ events \in [Ends -> Seq(Queued)]
  /\ app \in [Ends -> Seq(News)]
  /\ prompt \in [Ends -> {"none", "confirm", "input"}]
  /\ answer \in [Ends -> Nat]
  /\ wire \in [Ends -> Seq(Message)]
  /\ slot \in [Ends -> {"up", "closing", "down"}]
  /\ dead \in [Ends -> BOOLEAN]
  /\ air \in BOOLEAN
  /\ link \in Nat
  /\ proc \in [stage : {"idle", "request", "reply"}, key : Keys]
  /\ cipher \in Keys
  /\ due \in SUBSET Ends
  /\ faults \in Nat
  /\ late \in BOOLEAN

----------------------------------------------------------------------------
(* What a queue holds, where it holds an "encrypt", whether an "ltk".      *)
Elems(q) == {q[i] : i \in DOMAIN q}
Encrypts(q) == {i \in DOMAIN q : q[i] = "encrypt"}
Ltks(q) == Elems(q) \cap {"ltk"}

----------------------------------------------------------------------------
(* Chains of effects that leave the key and the encryptions as they are:    *)
(* what they may send and what they may tell the application.               *)
Chain(x, y, M, A) ==
  /\ y \in Handler
  /\ y.key = x.key
  /\ Encrypts(y.ev) = Encrypts(x.ev)
  /\ Ltks(y.ev) \subseteq Ltks(x.ev)
  /\ Elems(y.out) \subseteq Elems(x.out) \cup M
  /\ Elems(y.app) \subseteq Elems(x.app) \cup A
  /\ y.ok => x.ok

(* Messages that say nothing of a flag and prove nothing. *)
Plain == {m \in Message : m.k \notin {"request", "response", "dhkey"}}
(* What the application may be told; a confirmation only to compare. *)
Notes == IF Method = "numeric" THEN News ELSE News \ {"confirm"}

(* The check value proves the two nonces and the secret. *)
Proof(s) == <<s.nonce, s.peernonce, s.secret>>
CheckMsg(s) == [k |-> "dhkey", v |-> Proof(s)]

----------------------------------------------------------------------------
(* A run of the central's machine.                                          *)

(* The central before it has a key, and after: it stays there.              *)
CentralEarly == {"idle", "response", "public_key", "numeric_confirm",
                 "numeric_random", "result", "input", "confirm", "random",
                 "dhkey_eb"}
CentralLate == {"link_encrypted", "bonded_link", "success", "error"}
(* The central knows the flag of the other end.                             *)
CentralKnows == CentralEarly \ {"idle", "response"}
Encrypting == {"link_encrypted", "bonded_link"}
CentralTold == {"confirm", "random", "dhkey_eb"}

(* The step belongs to the pairing's method.                                *)
Fits(step) == /\ step \in {"input", "confirm", "random"} => Passkey
              /\ step \in {"numeric_confirm", "numeric_random"} => ~Passkey
              /\ step = "result" => Method = "numeric"

(* What came in the other end's messages, of those that are on their way.   *)
HeardFlag(e, k, b) ==
  \E m \in Elems(wire[e]) : m.k = k /\ b = (m.v = <<1>>)
HeardCheck(s) ==
  \E m \in Elems(wire["central"]) :
    m.k = "dhkey" /\ m.v = <<s.peernonce, s.nonce, s.secret>>

CentralRun(x, y) ==
  LET old == x.s.step
      new == y.s.step
  IN /\ y \in Handler
     /\ new \in CentralEarly \cup CentralLate
     /\ new = "idle" => old = "idle" /\ ~y.ok
     /\ new \in CentralEarly => old \in CentralEarly
     /\ new = "success" => old \in Encrypting \cup {"success"}
     /\ y.s.own = x.s.own
     /\ new \in CentralKnows =>
          /\ old \in CentralKnows \cup {"response"}
          /\ IF old = "response" THEN HeardFlag("central", "response", y.s.peer)
             ELSE y.s.peer = x.s.peer
     /\ \/ y.key = x.key
        \/ /\ y.key = NewKey("central", x.s)
           /\ old = "dhkey_eb"
           /\ new = "link_encrypted" \/ ~y.ok
           /\ HeardCheck(x.s)
     /\ IF new \in Encrypting /\ new # old
        THEN /\ old \in CentralEarly /\ y.ok
             /\ y.s.bond = y.key /\ y.key # NoKey
             /\ \E i : Encrypts(y.ev) = Encrypts(x.ev) \cup {i}
        ELSE y.s.bond = x.s.bond /\ Encrypts(y.ev) = Encrypts(x.ev)
     /\ Ltks(y.ev) \subseteq Ltks(x.ev)
     /\ \A m \in Elems(y.out) :
          /\ m.k # "failed" =>
               /\ old \in CentralEarly
               /\ y.key = x.key
               /\ new \notin Encrypting
               /\ old = "idle" => y.ok /\ new = "response" /\ x.key = NoKey
          /\ m.k = "request" => old = "idle" /\ m.v = <<Flag(y.s.own)>>
     /\ Fits(new)
     /\ Passkey /\ new \in CentralTold =>
          IF old \in CentralTold
          THEN y.s.secret = x.s.secret /\ y.seen = x.seen
          ELSE y.seen = y.s.secret + 1
     /\ Method = "numeric" /\ new = "dhkey_eb" => old \in {"dhkey_eb", "result"}
     /\ old = "idle" /\ new = "response" => x.key = NoKey
     /\ old \in CentralLate \cup {"dhkey_eb"} =>
          y.seen = x.seen \/ (Method = "numeric" /\ y.seen = 1)
     /\ Elems(y.app) \subseteq Elems(x.app) \cup Notes

(* A machine as a handler finds it.                                         *)
CentralBegins(x) ==
  /\ x \in Handler
  /\ x.ok
  /\ x.out = <<>>
  /\ x.s.step \in CentralEarly \cup CentralLate
  /\ x.s.step = "idle" => x.s.bond = NoKey
  /\ Fits(x.s.step)

(* What a run of the central leaves behind once its handler is done with    *)
(* it: it is not idle, a key it has made shows in its step, and a user who  *)
(* compared has been heard.                                                 *)
CentralEnd(x, y) ==
  /\ CentralRun(x, y)
  /\ y.s.step # "idle"
  /\ y.key = x.key \/ y.s.step \in {"link_encrypted", "error"}
  /\ Method = "numeric" /\ y.s.step = "dhkey_eb"
       => x.s.step = "dhkey_eb" \/ y.seen = 1

----------------------------------------------------------------------------
(* A run of the peripheral's machine.                                       *)
Mid == {"public_key", "numeric_random", "result", "input", "confirm",
        "random", "dhkey_ea"}
Closing == {"link_encrypted", "success", "error"}
PeripheralTold == {"confirm", "random", "dhkey_ea"}
(* From these steps on the nonces, the secret and the flags stay. *)
Frozen == {"result", "dhkey_ea"} \cup Closing

(* The peripheral has sent its check, or will never send one. *)
HasSent(s) == s.step \in Closing \/ (s.step = "result" /\ s.held # <<>>)

SameSecrets(s, t) ==
  /\ t.nonce = s.nonce /\ t.peernonce = s.peernonce /\ t.secret = s.secret
  /\ t.own = s.own /\ t.peer = s.peer

PeripheralRun(x, y) ==
  LET old == x.s.step
      new == y.s.step
  IN /\ y \in Handler
     /\ new \in {"pairing_request"} \cup Mid \cup Closing
     /\ new = "pairing_request" => old = "pairing_request" /\ y.s.bond = x.s.bond
     /\ new \in Mid => old \in Mid \cup {"pairing_request"}
     /\ HasSent(x.s) => HasSent(y.s)
     /\ old \in Frozen => SameSecrets(x.s, y.s)
     /\ IF old = "pairing_request"
        THEN new \in Mid => HeardFlag("peripheral", "request", y.s.peer)
        ELSE y.s.own = x.s.own /\ y.s.peer = x.s.peer
     /\ \/ y.key = x.key
        \/ /\ y.key = NewKey("peripheral", x.s)
           /\ old \in {"result", "dhkey_ea"}
           /\ HasSent(y.s) \/ (~y.ok /\ new = "dhkey_ea")
     /\ y.s.bond \in {x.s.bond, y.key}
     /\ new = "link_encrypted" /\ old # new
          => y.s.bond = NewKey("peripheral", x.s) /\ old \in {"result", "dhkey_ea"}
     /\ new = old /\ new \in Closing => y.s.bond = x.s.bond
     /\ new = "success" =>
          \/ old \in {"link_encrypted", "success"} /\ y.s.bond = x.s.bond
          \/ old = "pairing_request" /\ y.s.bond = x.key
     /\ \A m \in Elems(y.out) :
          /\ m.k = "response" => /\ old = "pairing_request"
                                 /\ new = "public_key" /\ y.ok
                                 /\ m.v = <<Flag(y.s.own)>>
          /\ m.k = "dhkey" => /\ old \in {"result", "dhkey_ea"}
                              /\ m.v = Proof(x.s)
                              /\ HasSent(y.s) \/ (~y.ok /\ new = "dhkey_ea")
     /\ Fits(new)
     /\ Passkey /\ new \in PeripheralTold =>
          IF old \in PeripheralTold
          THEN y.s.secret = x.s.secret /\ y.seen = x.seen
          ELSE y.seen = y.s.secret + 1
     /\ Method = "numeric" /\ new = "dhkey_ea" => old \in {"dhkey_ea", "result"}
     /\ old \in Frozen => \/ y.seen = x.seen
                          \/ Method = "numeric" /\ y.seen = 1
     /\ Elems(y.app) \subseteq Elems(x.app) \cup Notes

PeripheralBegins(x) ==
  /\ x \in Handler
  /\ x.ok
  /\ x.out = <<>>
  /\ x.s.step \in {"pairing_request"} \cup Mid \cup Closing
  /\ x.s.step = "pairing_request" => x.s.bond = NoKey
  /\ Fits(x.s.step)

(* What a run of the peripheral leaves behind: once it has proved what it   *)
(* knows, or made the key, it stays with that; and its user has been heard. *)
Proves(y) == \E m \in Elems(y.out) : m.k = "dhkey"

PeripheralEnd(x, y) ==
  /\ PeripheralRun(x, y)
  /\ Proves(y) \/ y.key # x.key => HasSent(y.s)
  /\ Method = "numeric" /\ (Proves(y) \/ y.s.step = "dhkey_ea")
       => x.s.step = "dhkey_ea" \/ y.seen = 1

----------------------------------------------------------------------------
(* The invariant.  Conjunct by conjunct: what an end without a link has     *)
(* left; that every key is an old bond or of the link and level of this     *)
(* pairing; that the central asks for one encryption at most, and only      *)
(* after it has settled on a key; that what the peripheral has begun the    *)
(* central has begun before; that a key of the central, and a check on its  *)
(* way to it, agree with what the peripheral has, and with its user; and    *)
(* that the two flags have been exchanged.                                  *)
Absent(e) == sm[e].step = "absent"
(* An end that has the link but no machine yet.                             *)
Unmet(e) == slot[e] # "down" /\ Absent(e)
Later == CentralEarly \ {"idle"}
StepsOK ==
  /\ sm["central"].step \in {"absent"} \cup Later \cup CentralLate
  /\ sm["peripheral"].step \in {"absent", "pairing_request"} \cup Mid \cup Closing

Left ==
  \A e \in Ends :
    /\ slot[e] = "down" => /\ ~air
                           /\ Elems(wire[e]) = {}
                           /\ sm[e] = None
                           /\ level[e] = "none"
                           /\ bonds[e] = NoKey \/ bonds[e].bonded
    /\ Absent(e) => sm[e] = None
    /\ slot[e] # "down" => link > 0

KeyOK(k) ==
  \/ k = NoKey
  \/ k.link = 0 /\ k.level = "auth" /\ k.bonded
  \/ /\ k.link \in 1..link
     /\ k.level = Level
     /\ k.bonded \/ k.link = link
KeysOK ==
  /\ \A e \in Ends : KeyOK(bonds[e]) /\ KeyOK(sm[e].bond)
  /\ KeyOK(proc.key)
  /\ KeyOK(cipher)

(* One encryption of a link.                                                *)
Once ==
  /\ \A i, j \in Encrypts(events["central"]) : i = j
  /\ Encrypts(events["central"]) # {} => proc = Idle /\ cipher = NoKey
  /\ proc.stage # "idle" => cipher = NoKey /\ proc.key # NoKey
  /\ proc.stage = "idle" => proc = Idle
  /\ due # {} => cipher # NoKey

(* The central before it has settled on a key, and after.                   *)
Unsettled ==
  sm["central"].step \in {"absent"} \cup Later =>
    /\ sm["central"].bond = NoKey
    /\ slot["central"] # "down" =>
         /\ Encrypts(events["central"]) = {}
         /\ proc = Idle /\ cipher = NoKey
         /\ bonds["central"].link # link
    /\ ~Absent("central") => bonds["central"] = NoKey
Settled ==
  sm["central"].step \in CentralLate =>
    /\ proc.key \in {NoKey, sm["central"].bond}
    /\ cipher \in {NoKey, sm["central"].bond}
    /\ Encrypts(events["central"]) # {} =>
         bonds["central"] \in {NoKey, sm["central"].bond}

(* The peripheral before its pairing begins.                                *)
Unasked ==
  sm["peripheral"].step \in {"absent", "pairing_request"} =>
    /\ sm["peripheral"].bond = NoKey
    /\ slot["peripheral"] # "down" => bonds["peripheral"].link # link

CentralKeys == {bonds["central"], sm["central"].bond, proc.key, cipher}
Begun ==
  \/ sm["peripheral"].step \in Mid \cup {"link_encrypted"}
  \/ sm["peripheral"].step = "success" /\ sm["peripheral"].bond.link = link
  \/ \E m \in Elems(wire["peripheral"]) : m.k # "failed"
BothBegun ==
  Begun => /\ ~Unmet("central")
           /\ \A k \in CentralKeys : k = NoKey \/ k.link = link

(* What the peripheral will answer when its controller asks or tells.       *)
SameLtk ==
  "peripheral" \in due =>
    bonds["peripheral"] = NoKey \/ Ltk(bonds["peripheral"]) = Ltk(cipher)
OwnKey(s) == NewKey("peripheral", s)
Finishing ==
  sm["peripheral"].step = "link_encrypted" =>
    sm["peripheral"].bond = OwnKey(sm["peripheral"])
Resumed ==
  /\ sm["peripheral"].step = "success"
  /\ sm["peripheral"].bond # NoKey
  /\ sm["peripheral"].bond.link # link
  => cipher # NoKey /\ Ltk(sm["peripheral"].bond) = Ltk(cipher)

(* The peripheral that has the key it proves.                               *)
Committed(s) ==
  /\ HasSent(s)
  /\ s.step \in {"link_encrypted", "success"} => s.bond = OwnKey(s)
Agreed(k) ==
  /\ Method = "numeric" => answer["central"] = 1 /\ answer["peripheral"] = 1
  /\ Passkey => /\ answer["central"] = answer["peripheral"]
                /\ answer["central"] # 0
  /\ ~Unmet("peripheral")
  /\ ~Absent("peripheral") =>
       /\ k.c = sm["peripheral"].peernonce
       /\ k.p = sm["peripheral"].nonce
       /\ k.bonded = WantBonding(sm["peripheral"])
       /\ Committed(sm["peripheral"])
Shared == \A k \in CentralKeys : k.link = link /\ link > 0 => Agreed(k)

Proved(v) ==
  /\ Method = "numeric" => answer["peripheral"] = 1
  /\ Passkey => answer["peripheral"] = v[3] + 1
  /\ ~Unmet("peripheral") /\ ~Unmet("central")
  /\ ~Absent("peripheral") =>
       /\ v = Proof(sm["peripheral"])
       /\ Committed(sm["peripheral"])
       /\ ~Absent("central") => sm["peripheral"].peer = sm["central"].own
ChecksOK == \A m \in Elems(wire["central"]) : m.k = "dhkey" => Proved(m.v)

Met(e) == ~Unmet(e) /\ sm[e].step # "pairing_request"
FlagsOK ==
  /\ \A m \in Elems(wire["peripheral"]) :
       m.k = "request" /\ ~Absent("central")
         => m.v = <<Flag(sm["central"].own)>>
  /\ sm["peripheral"].step \in Mid \cup {"link_encrypted"} /\ ~Absent("central")
       => sm["peripheral"].peer = sm["central"].own
  /\ \A m \in Elems(wire["central"]) :
       m.k = "response" =>
         /\ Met("peripheral")
         /\ ~Absent("peripheral") => m.v = <<Flag(sm["peripheral"].own)>>
  /\ sm["central"].step \in CentralKnows =>
         /\ Met("peripheral")
         /\ ~Absent("peripheral") => sm["central"].peer = sm["peripheral"].own

Told(e) == IF e = "central" THEN CentralTold ELSE PeripheralTold
Proving == {"dhkey_ea", "dhkey_eb"}
Asked ==
  \A e \in Ends :
    /\ Fits(sm[e].step)
    /\ "confirm" \in Elems(app[e]) \cup {prompt[e]} => Method = "numeric"
    /\ Passkey /\ sm[e].step \in Told(e) => answer[e] = sm[e].secret + 1
    /\ Method = "numeric" /\ sm[e].step \in Proving => answer[e] = 1

LevelOK ==
  \A e \in Ends : level[e] # "none" => cipher # NoKey /\ level[e] = cipher.level

(* Only the peripheral is asked for its key. *)
NoLtk == Ltks(events["central"]) = {}

IInv ==
  /\ TypeOK
  /\ StepsOK
  /\ Left
  /\ KeysOK
  /\ Once
  /\ Unsettled
  /\ Settled
  /\ Unasked
  /\ BothBegun
  /\ SameLtk
  /\ Finishing
  /\ Resumed
  /\ Shared
  /\ ChecksOK
  /\ FlagsOK
  /\ Asked
  /\ LevelOK
  /\ NoLtk

----------------------------------------------------------------------------
(* What the steps of the specification come to.                             *)

(* A handler of end e that found x and left y.                              *)
Host(e, x, y) ==
  /\ slot[e] # "down" /\ slot'[e] # "down"
  /\ slot'[Other(e)] = slot[Other(e)]
  /\ x.key = bonds[e] /\ x.ev = events[e] /\ x.app = app[e]
  /\ x.seen = answer[e]
  /\ IF Absent(e) THEN x.s.step = Fresh(e).step /\ x.s.bond = NoKey
     ELSE x.s = sm[e]
  /\ sm'[e] = y.s /\ sm'[Other(e)] = sm[Other(e)]
  /\ bonds'[e] = y.key /\ bonds'[Other(e)] = bonds[Other(e)]
  /\ events'[e] = y.ev /\ events'[Other(e)] = events[Other(e)]
  /\ app'[e] = y.app /\ app'[Other(e)] = app[Other(e)]
  /\ answer'[e] = y.seen /\ answer'[Other(e)] = answer[Other(e)]
  /\ prompt'[e] \in {prompt[e], "none"} /\ prompt'[Other(e)] = prompt[Other(e)]
  /\ Elems(wire'[e]) \subseteq Elems(wire[e])
  /\ Elems(wire'[Other(e)]) \subseteq Elems(wire[Other(e)]) \cup Elems(y.out)
  /\ ~air => Elems(wire'[Other(e)]) = Elems(wire[Other(e)])
  /\ UNCHANGED <<start, air, link, proc, cipher>>
  /\ due' \subseteq due
  /\ \/ level' = level
     \/ e \in due /\ level' = [level EXCEPT ![e] = SecurityLevel(y.s)]

CentralHost ==
  \E x, y : /\ Host("central", x, y)
            /\ CentralBegins(x)
            /\ CentralEnd(x, y)
PeripheralHost ==
  \E x, y : /\ Host("peripheral", x, y)
            /\ PeripheralBegins(x)
            /\ PeripheralEnd(x, y)
            /\ x.s.step = "pairing_request" /\ y.s.step = "success"
                 => "peripheral" \in due

(* Of one queue of the central's manager to the next. *)
Fewer(q, r) ==
  /\ \A i, j \in Encrypts(r) : i = j
  /\ Encrypts(q) = {} => Encrypts(r) = {}
  /\ Ltks(r) \subseteq Ltks(q)

(* A step that takes something away, and adds nothing to what was agreed.   *)
Shrinks ==
  /\ UNCHANGED <<start, sm, link, cipher, slot>>
  /\ air' => air
  /\ \A e \in Ends :
       /\ bonds'[e] \in {bonds[e], NoKey}
       /\ Elems(wire'[e]) \subseteq Elems(wire[e])
       /\ Elems(app'[e]) \cup {prompt'[e]}
            \subseteq Elems(app[e]) \cup {prompt[e], "none"} \cup Notes
       /\ answer'[e] = answer[e] \/ (Method = "numeric" /\ answer'[e] = 1)
  /\ \/ level' = level
     \/ \E e \in due : /\ Absent(e) /\ slot[e] = "up"
                       /\ level' = [level EXCEPT ![e] = bonds[e].level]
  /\ \/ proc' \in {proc, Idle}
     \/ /\ proc.stage # "idle" /\ proc'.stage # "idle"
        /\ proc'.key = proc.key
  /\ Fewer(events["central"], events'["central"])
  /\ due' \subseteq due

(* End e learns that its link is down. *)
Forgets(e) ==
  /\ Forget(e)
  /\ ~air'
  /\ Fewer(events["central"], events'["central"])
  /\ UNCHANGED <<start, link, proc, cipher, due, prompt, answer>>

(* The central's controller starts the encryption. *)
Enables ==
  /\ air
  /\ Encrypts(events["central"]) # {} /\ Encrypts(events'["central"]) = {}
  /\ Ltks(events'["central"]) \subseteq Ltks(events["central"])
  /\ bonds["central"] # NoKey
  /\ proc' = [stage |-> "request", key |-> bonds["central"]]
  /\ UNCHANGED <<start, sm, level, bonds, app, prompt, answer, wire, slot, air,
                 link, cipher, due>>

(* The two controllers encrypt the link. *)
Ciphers ==
  /\ air
  /\ proc.stage = "reply"
  /\ bonds["peripheral"] # NoKey
  /\ Ltk(bonds["peripheral"]) = Ltk(proc.key)
  /\ proc' = Idle
  /\ cipher' = proc.key
  /\ events'["central"] = events["central"]
  /\ UNCHANGED <<start, sm, level, bonds, app, prompt, answer, wire, slot, air,
                 link>>

Class ==
  \/ CentralHost \/ PeripheralHost \/ Shrinks \/ Enables \/ Ciphers \/ Connect
  \/ \E e \in Ends : Forgets(e)

----------------------------------------------------------------------------
(* Why a wait ends.  A run of a handler once more, for what keeps the       *)
(* pairing going: the kind of the message it sent last, if any; what it     *)
(* told the application; and how many packets it may have used.             *)
LastKind(q) == IF q = <<>> THEN "none" ELSE q[Len(q)].k

Moves(x, y, n, k, said) ==
  /\ y \in Handler
  /\ x.room <= y.room + n
  /\ Elems(x.app) \subseteq Elems(y.app)
  /\ Elems(y.app) \subseteq Elems(x.app) \cup said
  /\ y.ok => /\ x.ok
             /\ said \subseteq Elems(y.app)
             /\ IF k = "none" THEN y.out = x.out ELSE LastKind(y.out) = k

(* An effect on nothing but the machine, the timer or the key. *)
Still(x, y) ==
  y \in Handler /\ y.out = x.out /\ y.app = x.app /\ y.room = x.room
  /\ (y.ok => x.ok)

(* What a command does for the other end.                                   *)
AsksUser == {"result", "input"}
Hints == News \ {"disconnected"}

(* The central sends nothing: it had asked already, the key of the other    *)
(* end is followed by a confirm value, the user is asked, or the link is to *)
(* be encrypted.                                                            *)
Silences(x, y, c, said, step) ==
  \/ c = "security" /\ y.s = x.s /\ step = "response"
  \/ c = "public_key" /\ ~Passkey /\ step = "numeric_confirm"
  \/ step = "input" /\ (x.s.step = "input" \/ "input" \in said)
  \/ step = "result" /\ "confirm" \in said
  \/ step \in Encrypting /\ (c = "dhkey" \/ x.s.step = "idle")

CentralMove(x, y, c) ==
  \E k, said :
    /\ Moves(x, y, 2, k, said)
    /\ said \subseteq Hints /\ ("input" \in said => Passkey)
    /\ y.ok =>
         IF k = "none" THEN Silences(x, y, c, said, y.s.step)
         ELSE /\ y.s.step \notin AsksUser
              /\ y.s.step = "response" => k = "request"

(* What a user's answer does for the other end: a message, or nothing where *)
(* it was not asked for, or the peripheral goes on to wait for the central. *)
Unasks(e, x, y, event) ==
  \/ y.s = x.s /\ \/ event = "yes" /\ x.s.step # "result"
                  \/ event = "key" /\ x.s.step # "input"
  \/ /\ e = "peripheral" /\ x.s.step \in AsksUser /\ x.s.held = <<>>
     /\ y.s.step \notin AsksUser

AnswerMove(e, x, y, event) ==
  \E k, said :
    /\ Moves(x, y, 2, k, said)
    /\ said \subseteq {"failed"} /\ k # "public_key"
    /\ y.ok => IF k = "none" THEN Unasks(e, x, y, event)
               ELSE y.s.step \notin {"result", "input", "response"}

PeripheralMove(x, y, c) ==
  \E k, said :
    /\ Moves(x, y, 2, k, said)
    /\ said \subseteq Hints /\ ("input" \in said => Passkey)
    /\ y.ok =>
         /\ k = "none" => y.s.step \in AsksUser /\ y.s.held # <<>>
         /\ c = "request" => k = "response"
         /\ k = "public_key" => Passkey
         /\ y.s.step = "result" => x.s.step = "result" \/ "confirm" \in said
         /\ y.s.step = "input" => x.s.step = "input" \/ "input" \in said

----------------------------------------------------------------------------
(* What a wait waits for.  A pairing is healthy that has had no fault, no   *)
(* deadline, no error and no loss of its link.  There is always something   *)
(* under way then: a message, a question to a user, the start of the        *)
(* encryption, or its report; and each wait has its own.                    *)
Carried(e, k) == \E m \in Elems(wire[e]) : m.k = k
Healthy ==
  /\ faults = 0 /\ ~late /\ air
  /\ \A e \in Ends : slot[e] = "up" /\ ~dead[e] /\ ~Carried(e, "failed")

Asking(e) == sm[e].step \in AsksUser
Unread(e) == Elems(app[e]) \cup {prompt[e]}
Flying == wire["central"] # <<>> \/ wire["peripheral"] # <<>>
Starting == Encrypts(events["central"]) # {} \/ proc # Idle
Coming == \/ Flying \/ Starting \/ due # {}
          \/ Asking("central") \/ Asking("peripheral")

WaitComes == Waiting("central") \/ Waiting("peripheral") => Coming
(* A user is asked, or is about to be, where a machine waits for one.       *)
UserIsAsked ==
  \A e \in Ends :
    /\ sm[e].step = "result" => "confirm" \in Unread(e)
    /\ sm[e].step = "input" => "input" \in Unread(e)
    /\ "input" \in Unread(e) => Passkey
    /\ "disconnected" \notin Elems(app[e])
(* Without a passkey the key of the peripheral is followed by its confirm.  *)
ConfirmFollows == ~Passkey => LastKind(wire["central"]) # "public_key"
ResponseComes ==
  sm["central"].step = "response"
    => Carried("peripheral", "request") \/ Carried("central", "response")
(* The peripheral's user is the only one to be waited for while the central *)
(* has not come as far.                                                     *)
AskedAlike ==
  Asking("peripheral") /\ sm["peripheral"].held = <<>>
    => sm["central"].step = sm["peripheral"].step \/ Flying
EncryptionComes ==
  /\ sm["central"].step \in Encrypting => Starting \/ "central" \in due
  /\ Encrypts(events["central"]) # {} => bonds["central"] # NoKey
CheckComes ==
  cipher # NoKey /\ "peripheral" \notin due /\ Waiting("peripheral")
    => Asking("peripheral") \/ Flying

Going ==
  /\ WaitComes
  /\ UserIsAsked
  /\ ConfirmFollows
  /\ ResponseComes
  /\ AskedAlike
  /\ EncryptionComes
  /\ CheckComes
Alive == Healthy => Going

----------------------------------------------------------------------------
(* A handler of end e that found x, goes on, and leaves y.                  *)
Acts(e, x, y, inbox) ==
  /\ x \in Handler /\ y \in Handler /\ y.ok
  /\ x.out = <<>> /\ x.key = bonds[e] /\ x.ev = events[e] /\ x.app = app[e]
  /\ sm'[e] = y.s /\ sm'[Other(e)] = sm[Other(e)]
  /\ bonds'[e] = y.key /\ bonds'[Other(e)] = bonds[Other(e)]
  /\ events'[e] = y.ev /\ events'[Other(e)] = events[Other(e)]
  /\ app'[e] = y.app /\ app'[Other(e)] = app[Other(e)]
  /\ prompt'[Other(e)] = prompt[Other(e)]
  /\ wire'[e] = inbox /\ wire'[Other(e)] = wire[Other(e)] \o y.out
  /\ UNCHANGED <<start, proc, cipher, due>>

(* What a handler of the central does to the start of the encryption.       *)
Settles(x, y) ==
  /\ IF y.s.step \in Encrypting /\ y.s.step # x.s.step
     THEN Encrypts(y.ev) # {} /\ y.key # NoKey
     ELSE Encrypts(y.ev) = Encrypts(x.ev)
  /\ x.key # NoKey => y.key # NoKey

(* A move and then the timer, or another effect that nobody is told of.     *)
Quietly(y, z) == Moves(y, z, 0, "none", {}) /\ z.s = y.s /\ z.ok = y.ok

(* The handler of a request, by end. *)
Request(e, x) == IF e = "central" THEN Initiate(x)
                 ELSE Send(x, "security", <<>>)
=============================================================================
