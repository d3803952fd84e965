------------------------------ MODULE Pairing ------------------------------
(* LE Secure Connections pairing between a central and a peripheral that    *)
(* both run the security manager of trouble-host (security_manager/): the   *)
(* two state machines of pairing/central.rs and pairing/peripheral.rs, the  *)
(* manager's event queue, its keys, and the two runners that call it.       *)
(* The RX runner handles a command or an HCI event to its end before the    *)
(* next one (Deliver, LtkRequest, EncryptionChange); the control runner     *)
(* takes one manager event at a time (Control) or meets the deadline        *)
(* (Timeout); the application requests, confirms, cancels and types in      *)
(* between.  A handler is a chain of effects, and the first that fails      *)
(* leaves the earlier ones done.                                            *)
(* Cryptography is by what it tells apart: a nonce is the number of times   *)
(* its end has drawn one on this link, a confirm value is the nonce and the *)
(* bit it commits to, a check value is the two nonces and the secret, and   *)
(* a key is the link and the two nonces it was made of.                     *)
EXTENDS Naturals, Sequences

CONSTANTS Starts,     \* what the two devices are and keep when they first meet
          Passkeys,   \* what a device may display (0..999999 in the code)
          Typed,      \* what a user may type (a u32 in the code)
          Rounds,     \* rounds of passkey entry, one bit each (20 in the code)
          SmCap,      \* the manager's event queue (2 in the code)
          EventCap,   \* a connection's event queue
          MaxLinks,   \* bound: connections of one behaviour
          MaxFaults   \* bound: starved sends, losses, cancels, forgotten bonds

Ends == {"central", "peripheral"}
Other(e) == IF e = "central" THEN "peripheral" ELSE "central"
Capabilities == {"DisplayOnly", "DisplayYesNo", "KeyboardOnly",
                 "NoInputNoOutput", "KeyboardDisplay"}

(* Of a start: the IoCapabilities of the two, the ends that have kept the   *)
(* bond of an earlier day and those that hold a newer one, the ends whose   *)
(* key table is full of others, and the ends whose application makes its    *)
(* connections bondable.                                                    *)
ASSUME StartsAssumption ==
  \A s \in Starts : /\ {s.central, s.peripheral} \subseteq Capabilities
                    /\ s.bonded \subseteq Ends
                    /\ s.renewed \subseteq s.bonded
                    /\ s.crowded \subseteq Ends
                    /\ s.bondable \subseteq Ends
ASSUME RoundsAssumption == Rounds \in Nat \ {0}
ASSUME QueuesAssumption == SmCap \in Nat \ {0} /\ EventCap \in Nat \ {0}
ASSUME ValuesAssumption == Passkeys \subseteq Nat /\ Typed \subseteq Nat

VARIABLES start,     \* the start of this behaviour
          bondable,  \* ConnectionStorage::bondable
          sm,        \* pairing_sm of each end; step "absent" for None
          level,     \* ConnectionStorage::security_level
          bonds,     \* the key each end keeps for the other, or NoKey
          events,    \* SecurityManager::events of each end
          app,       \* ConnectionStorage::events, not yet read
          prompt,    \* what an application has asked its user
          answer,    \* what the user saw, typed or confirmed on this link
          wire,      \* commands on their way to an end
          slot,      \* ConnectionState: "up", "closing" or "down"
          dead,      \* the end's runner has returned an error
          air,       \* the controllers' link
          link,      \* how many links there have been
          proc,      \* the controllers' encryption start: stage and key
          cipher,    \* the key that encrypts the link, or NoKey
          due,       \* ends whose EncryptionChange event is not handled yet
          faults,    \* faults so far
          late       \* a pairing has been given up by its deadline

hosts == <<sm, level, bonds, events, app, bondable>>
users == <<prompt, answer>>
lower == <<slot, dead, air, link, proc, cipher, due>>
fixed == <<start>>
vars == <<hosts, users, wire, lower, fixed, faults, late>>

NoKey == [link |-> 0, c |-> 0, p |-> 0, level |-> "none", bonded |-> FALSE]
(* The bond of an earlier day; of a later one where a device has gone back  *)
(* to what it had saved before.                                             *)
OldBond(e) == [NoKey EXCEPT !.c = IF e \in start.renewed THEN 1 ELSE 0,
                            !.level = "auth", !.bonded = TRUE]
Ltk(k) == <<k.link, k.c, k.p>>
Idle == [stage |-> "idle", key |-> NoKey]
None == [step |-> "absent", round |-> 0, held |-> <<>>, own |-> FALSE,
         peer |-> FALSE, secret |-> 0, nonce |-> 0, peernonce |-> 0,
         confirm |-> <<>>, bond |-> NoKey]
Fresh(e) == [None EXCEPT !.step = IF e = "central" THEN "idle"
                                  ELSE "pairing_request"]

----------------------------------------------------------------------------
(* Choosing the method: choose_pairing_method, both asking for man in the   *)
(* middle protection, as AuthReq::new always does, and no out-of-band data. *)
Silent == "NoInputNoOutput"
Inputs == {"KeyboardOnly", "KeyboardDisplay"}
Compares == {"DisplayYesNo", "KeyboardDisplay"}

Method == LET c == start.central
              p == start.peripheral
          IN CASE c = Silent \/ p = Silent -> "just_works"
               [] c \in Compares /\ p \in Compares -> "numeric"
               [] c \in Inputs /\ p = "KeyboardOnly" ->
                    IF c = "KeyboardDisplay" THEN "central" ELSE "both"
               [] c = "KeyboardOnly" -> "peripheral"
               [] c = "KeyboardDisplay" -> "peripheral"
               [] p \in Inputs -> "central"
               [] OTHER -> "just_works"

Displays(e) == Method = e
Passkey == Method \in {"central", "peripheral", "both"}
Level == IF Method = "just_works" THEN "encrypted" ELSE "auth"

----------------------------------------------------------------------------
(* A handler in progress: the machine, what it has sent, its queues, its    *)
(* key, how many packets the pool still gives, whether it is still going    *)
(* (ok), and whether the error it ended with is InvalidState (bad).         *)
Begin(e, s, room) == [s |-> s, out |-> <<>>, ev |-> events[e], app |-> app[e],
                      key |-> bonds[e], room |-> room, ok |-> TRUE,
                      bad |-> FALSE, seen |-> answer[e]]

Fail(x) == [x EXCEPT !.ok = FALSE]
Refuse(x) == [x EXCEPT !.ok = FALSE, !.bad = TRUE]
Check(x, good) == IF x.ok /\ ~good THEN Fail(x) ELSE x

(* try_send: the queue drops what it has no room for. *)
Timer(x) == IF x.ok /\ Len(x.ev) < SmCap
            THEN [x EXCEPT !.ev = Append(@, "timer")] ELSE x

(* PairingOps::try_send_packet, which also asks for a new deadline. *)
Send(x, k, v) ==
  IF ~x.ok THEN x
  ELSE IF x.room = 0 THEN Fail(x)
  ELSE Timer([x EXCEPT !.out = Append(@, [k |-> k, v |-> v]), !.room = @ - 1])

(* try_send_connection_event; the outcomes also ask for a new deadline. *)
Tell(x, event) ==
  IF ~x.ok THEN x
  ELSE IF Len(x.app) >= EventCap THEN Fail(x)
  ELSE LET y == [x EXCEPT !.app = Append(@, event)]
       IN IF event \in {"complete", "failed"} THEN Timer(y) ELSE y

(* try_enable_encryption and try_enable_bonded_encryption: the key is kept, *)
(* if the table has room, before the event is queued.                       *)
Keep(e, x, k) ==
  IF ~x.ok THEN x
  ELSE IF x.key = NoKey /\ e \in start.crowded THEN Fail(x)
  ELSE [x EXCEPT !.key = k]

Encrypt(x) ==
  IF ~x.ok THEN x
  ELSE IF Len(x.ev) >= SmCap THEN Fail(x)
  ELSE [x EXCEPT !.ev = Append(@, "encrypt"), !.s.bond = x.key]

Go(x, step) == IF x.ok THEN [x EXCEPT !.s.step = step] ELSE x
GoRound(x, step, r) ==
  IF x.ok THEN [x EXCEPT !.s = [@ EXCEPT !.step = step, !.round = r]] ELSE x

(* handle_security_error: a PairingFailed command, sent without PairingOps. *)
Report(x) == IF x.room = 0 THEN x
             ELSE [x EXCEPT !.out = Append(@, [k |-> "failed", v |-> <<>>])]

----------------------------------------------------------------------------
(* What the two machines share. *)
Bit(secret, r) == (secret \div 2^r) % 2
Flag(b) == IF b THEN 1 ELSE 0
Draw(x) == [x EXCEPT !.s.nonce = @ + 1]
SendConfirm(x, r) ==
  LET y == Draw(x) IN Send(y, "confirm", <<y.s.nonce, Bit(y.s.secret, r)>>)
SendRandom(x) == Send(x, "random", <<x.s.nonce>>)
SendCheck(x) ==
  Send(x, "dhkey", <<x.s.nonce, x.s.peernonce, x.s.secret>>)
\* Mutant: the check leaves the passkey out
CheckMatchesNonces(x, v) == v[1] = x.s.peernonce /\ v[2] = x.s.nonce

CheckMatches(x, v) == v = <<x.s.peernonce, x.s.nonce, x.s.secret>>
SetSecret(x, k) == [x EXCEPT !.s.secret = k, !.seen = k + 1]
\* Mutant: each end goes by its own flag
WantBondingOwn(s) == s.own

WantBonding(s) == s.own /\ s.peer

NewKey(e, s) == [link |-> link,
                 c |-> IF e = "central" THEN s.nonce ELSE s.peernonce,
                 p |-> IF e = "central" THEN s.peernonce ELSE s.nonce,
                 level |-> Level, bonded |-> WantBonding(s)]

----------------------------------------------------------------------------
(* pairing/central.rs *)

(* Pairing::initiate, and the answer of an idle machine to a request. *)
Initiate(x) ==
  IF x.key # NoKey THEN Go(Encrypt(x), "bonded_link")
  ELSE Go(Send(x, "request", <<Flag(x.s.own)>>), "response")

CentralRandom(x, v) ==
  LET r == x.s.round
      y == [Check(x, x.s.confirm = <<v[1], Bit(x.s.secret, r)>>)
              EXCEPT !.s.peernonce = v[1]]
  IN IF r = Rounds - 1 THEN Go(SendCheck(y), "dhkey_eb")
     ELSE GoRound(SendConfirm(y, r + 1), "confirm", r + 1)

CentralNumeric(x, v) ==
  LET y == [Check(x, x.s.confirm = <<v[1], 0>>) EXCEPT !.s.peernonce = v[1]]
  IN IF Method = "just_works" THEN Go(SendCheck(y), "dhkey_eb")
     ELSE Go(Tell(y, "confirm"), "result")

(* handle_impl: command k with payload v. *)
CentralCommand(x, k, v, b, shown) ==
  LET at(step, command) == x.s.step = step /\ k = command
  IN CASE at("idle", "security") -> Initiate([x EXCEPT !.s.own = b])
       [] at("response", "security") -> x
       [] at("response", "response") ->
            Go(Send([x EXCEPT !.s.peer = v = <<1>>], "public_key", <<>>),
               "public_key")
       [] at("public_key", "public_key") /\ ~Passkey ->
            Go(x, "numeric_confirm")
       [] at("public_key", "public_key") /\ Passkey ->
            IF Displays("central")
            THEN GoRound(SendConfirm(SetSecret(Tell(x, "display"), shown), 0),
                         "confirm", 0)
            ELSE Go(Tell(x, "input"), "input")
       [] at("numeric_confirm", "confirm") ->
            Go(SendRandom(Draw([x EXCEPT !.s.confirm = v])), "numeric_random")
       [] at("numeric_random", "random") -> CentralNumeric(x, v)
       [] at("input", "confirm") -> [x EXCEPT !.s.held = v]
       [] at("confirm", "confirm") ->
            Go(SendRandom([x EXCEPT !.s.confirm = v]), "random")
       [] at("random", "random") -> CentralRandom(x, v)
       [] at("dhkey_eb", "dhkey") ->
            Go(Encrypt(Keep("central", Check(x, CheckMatches(x, v)),
                            NewKey("central", x.s))),
               "link_encrypted")
       [] OTHER -> Refuse(x)

(* handle_event: what the user answered, or "encrypted".  A failing effect  *)
(* leaves the machine at its step; an outcome of Error is told to the       *)
(* application.                                                             *)
Errs(x) == Fail(Tell([x EXCEPT !.s.step = "error"], "failed"))
Completes(x) ==
  LET y == Go(x, "success")
  IN IF x.s.bond = NoKey THEN y ELSE Tell(y, "complete")

CentralEvent(x, event, k) ==
  CASE event = "encrypted" /\ x.s.step \in {"link_encrypted", "bonded_link"} ->
         Completes(x)
    [] event = "yes" /\ x.s.step = "result" -> Go(SendCheck(x), "dhkey_eb")
    [] event = "no" /\ x.s.step = "result" -> Errs(x)
    [] event = "key" /\ x.s.step = "input" ->
         LET y == SendConfirm(SetSecret(x, k), 0)
         IN IF x.s.held = <<>> THEN GoRound(y, "confirm", 0)
            ELSE GoRound(SendRandom([y EXCEPT !.s.confirm = x.s.held]),
                         "random", 0)
    [] event \in {"yes", "no"} /\ x.s.step # "result" -> x
    [] OTHER -> Errs(x)

----------------------------------------------------------------------------
(* pairing/peripheral.rs *)
HandleCheck(x, v) ==
  Go(Encrypt(Keep("peripheral", SendCheck(Check(x, CheckMatches(x, v))),
                  NewKey("peripheral", x.s))),
     "link_encrypted")

\* Mutant: a check that came before the user's answer is forgotten
AcceptForgets(x) == Go(x, "dhkey_ea")

(* The user's yes, before or after the check of the central has come. *)
Accept(x) ==
  IF x.s.held = <<>> THEN Go(x, "dhkey_ea") ELSE HandleCheck(x, x.s.held)

HandleConfirm(x, v, r) ==
  GoRound(SendConfirm([x EXCEPT !.s.confirm = v], r), "random", r)

PeripheralRandom(x, v) ==
  LET r == x.s.round
      y == SendRandom(Check([x EXCEPT !.s.peernonce = v[1]],
                            x.s.confirm = <<v[1], Bit(x.s.secret, r)>>))
  IN IF r = Rounds - 1 THEN Go(y, "dhkey_ea")
     ELSE GoRound(y, "confirm", r + 1)

PeripheralNumeric(x, v) ==
  LET y == SendRandom([x EXCEPT !.s.peernonce = v[1]])
  IN IF Method = "just_works" THEN Go(y, "dhkey_ea")
     ELSE Go(Tell(y, "confirm"), "result")

(* handle_impl; identity keys are never offered by this central.  A command *)
(* makes the step of the machine the last thing it changes.                 *)
PeripheralCommand(x, k, v, b, shown) ==
  LET at(step, command) == x.s.step = step /\ k = command
  IN CASE at("pairing_request", "request") ->
            Go(Send([x EXCEPT !.s = [@ EXCEPT !.own = b, !.peer = v = <<1>>]],
                    "response", <<Flag(b)>>), "public_key")
       [] at("public_key", "public_key") ->
            LET y == Send(x, "public_key", <<>>)
            IN IF Displays("peripheral")
               THEN GoRound(SetSecret(Tell(y, "display"), shown), "confirm", 0)
               ELSE IF Passkey THEN Go(Tell(y, "input"), "input")
               ELSE Go(SendConfirm(y, 0), "numeric_random")
       [] at("numeric_random", "random") -> PeripheralNumeric(x, v)
       [] at("result", "dhkey") /\ x.s.held = <<>> -> [x EXCEPT !.s.held = v]
       [] at("input", "confirm") -> [x EXCEPT !.s.held = v]
       [] at("confirm", "confirm") -> HandleConfirm(x, v, x.s.round)
       [] at("random", "random") -> PeripheralRandom(x, v)
       [] at("dhkey_ea", "dhkey") -> HandleCheck(x, v)
       [] OTHER -> Refuse(x)

PeripheralEvent(x, event, k) ==
  CASE event = "encrypted" /\ x.s.step = "link_encrypted" -> Completes(x)
    [] event = "encrypted" /\ x.s.step = "pairing_request" ->
         Completes(IF x.key = NoKey THEN x ELSE Encrypt(x))
    [] event = "yes" /\ x.s.step = "result" ->
         Accept(x)
    [] event = "no" /\ x.s.step = "result" -> Errs(x)
    [] event = "key" /\ x.s.step = "input" ->
         LET y == SetSecret(x, k)
         IN IF x.s.held = <<>> THEN GoRound(y, "confirm", 0)
            ELSE HandleConfirm(y, x.s.held, 0)
    [] event \in {"yes", "no", "key"}
         /\ ~(x.s.step = "result" /\ event # "key")
         /\ ~(x.s.step = "input" /\ event = "key") -> x
    [] OTHER -> Errs(x)

----------------------------------------------------------------------------
(* The calls of the security manager. *)
Command(e, x, m, shown) ==
  IF e = "central" THEN CentralCommand(x, m.k, m.v, bondable[e], shown)
  ELSE PeripheralCommand(x, m.k, m.v, bondable[e], shown)

HandleEvent(e, x, event, k) ==
  IF e = "central" THEN CentralEvent(x, event, k) ELSE PeripheralEvent(x, event, k)

(* Pairing::security_level *)
SecurityLevel(s) == IF s.step = "success" THEN s.bond.level ELSE "none"

(* The handler's effects take hold; what is sent on a lost link is lost. *)
Done(e, x, inbox) ==
  /\ sm' = [sm EXCEPT ![e] = x.s]
  /\ events' = [events EXCEPT ![e] = x.ev]
  /\ app' = [app EXCEPT ![e] = x.app]
  /\ bonds' = [bonds EXCEPT ![e] = x.key]
  /\ answer' = [answer EXCEPT ![e] = x.seen]
  /\ wire' = [f \in Ends |->
                IF f = e THEN inbox
                ELSE IF air THEN wire[f] \o x.out ELSE wire[f]]

(* The packets the pool still gives to one handler. *)
Plenty == 3
Starved(room) == faults' = IF room = Plenty THEN faults ELSE faults + 1
Rooms == IF faults < MaxFaults THEN {0, 1, Plenty} ELSE {Plenty}

\* Mutant: the level stays
ForgetNoLevel(e) ==
  /\ sm' = [sm EXCEPT ![e] = None]
  /\ level' = level
  /\ bondable' = [bondable EXCEPT ![e] = FALSE]
  /\ bonds' = [bonds EXCEPT ![e] = IF @.bonded THEN @ ELSE NoKey]
  /\ slot' = [slot EXCEPT ![e] = "down"]
  /\ app' = [app EXCEPT ![e] = IF Len(@) < EventCap
                               THEN Append(@, "disconnected") ELSE @]
  /\ wire' = [wire EXCEPT ![e] = <<>>]

\* Mutant: keys that are no bonds stay
ForgetNoKey(e) ==
  /\ sm' = [sm EXCEPT ![e] = None]
  /\ level' = [level EXCEPT ![e] = "none"]
  /\ bondable' = [bondable EXCEPT ![e] = FALSE]
  /\ bonds' = bonds
  /\ slot' = [slot EXCEPT ![e] = "down"]
  /\ app' = [app EXCEPT ![e] = IF Len(@) < EventCap
                               THEN Append(@, "disconnected") ELSE @]
  /\ wire' = [wire EXCEPT ![e] = <<>>]

(* ConnectionManager::disconnected and SecurityManager::disconnect. *)
Forget(e) ==
  /\ sm' = [sm EXCEPT ![e] = None]
  /\ level' = [level EXCEPT ![e] = "none"]
  /\ bondable' = [bondable EXCEPT ![e] = FALSE]
  /\ bonds' = [bonds EXCEPT ![e] = IF @.bonded THEN @ ELSE NoKey]
  /\ slot' = [slot EXCEPT ![e] = "down"]
  /\ app' = [app EXCEPT ![e] = IF Len(@) < EventCap
                               THEN Append(@, "disconnected") ELSE @]
  /\ wire' = [wire EXCEPT ![e] = <<>>]

----------------------------------------------------------------------------
(* The application and its user. *)
Live(e) == slot[e] = "up" /\ ~dead[e]

(* request_security and SecurityManager::initiate: an error leaves no sm. *)
RequestSecurity(e) ==
  /\ Live(e)
  /\ level[e] = "none"
  /\ sm[e].step = "absent"
  /\ \E room \in Rooms :
       LET s == [Fresh(e) EXCEPT !.own = bondable[e]]
           x == Begin(e, s, room)
           y == IF e = "central" THEN Initiate(x)
                ELSE Send(x, "security", <<>>)
       IN /\ Done(e, IF y.ok THEN y ELSE [y EXCEPT !.s = None], wire[e])
          /\ Starved(room)
  /\ UNCHANGED <<level, bondable, prompt, lower, fixed, late>>

(* The application reads its next event, and asks its user what it must. *)
Read(e) ==
  /\ app[e] # <<>>
  /\ app' = [app EXCEPT ![e] = Tail(@)]
  /\ prompt' = [prompt EXCEPT ![e] =
                  IF Head(app[e]) \in {"confirm", "input"} THEN Head(app[e])
                  ELSE IF Head(app[e]) = "disconnected" THEN "none" ELSE @]
  /\ UNCHANGED <<sm, level, bonds, events, bondable, answer, wire, lower,
                 fixed, faults, late>>

(* pass_key_confirm and pass_key_input of the connection.  A call that      *)
(* fails may be made again: the prompt stays, at the price of a fault.      *)
Answered(e, event, k) ==
  \E room \in Rooms :
    LET x == HandleEvent(e, Begin(e, sm[e], room), event, k)
        y == IF sm[e].step = "absent" THEN Begin(e, sm[e], room)
             ELSE IF x.ok THEN Timer(x) ELSE Report(x)
        again == ~y.ok /\ y.s.step # "error" /\ faults < MaxFaults
    IN /\ Done(e, IF event = "yes" THEN [y EXCEPT !.seen = 1] ELSE y, wire[e])
       /\ prompt' = [prompt EXCEPT ![e] = IF again THEN @ ELSE "none"]
       /\ IF event = "no" \/ again THEN faults' = faults + 1
          ELSE Starved(room)
       /\ UNCHANGED <<level, bondable, lower, fixed, late>>

Confirm(e) == Live(e) /\ prompt[e] = "confirm" /\ Answered(e, "yes", 0)
Cancel(e) == /\ faults < MaxFaults
             /\ Live(e)
             /\ prompt[e] = "confirm"
             /\ Answered(e, "no", 0)
Type(e) == /\ Live(e)
           /\ prompt[e] = "input"
           /\ \E k \in Typed : Answered(e, "key", k)

(* remove_bond_information, whenever the application calls it. *)
RemoveBond(e) ==
  /\ faults < MaxFaults
  /\ bonds[e] # NoKey
  /\ bonds' = [bonds EXCEPT ![e] = NoKey]
  /\ faults' = faults + 1
  /\ UNCHANGED <<sm, level, events, app, bondable, users, wire, lower, fixed,
                 late>>

----------------------------------------------------------------------------
(* The RX runner. *)

(* handle_acl, handle_security_channel and handle_l2cap_command.  An error  *)
(* ends the pairing; InvalidState has the link taken down as well.  The     *)
(* controllers carry no data from the key request to the change it brings.  *)
Deliver(e) ==
  /\ ~dead[e]
  /\ proc.stage # "reply" /\ e \notin due
  /\ slot[e] # "down"
  /\ wire[e] # <<>>
  /\ IF slot[e] = "closing"
     THEN /\ wire' = [wire EXCEPT ![e] = Tail(@)]
          /\ UNCHANGED <<hosts, users, lower, faults>>
     ELSE \E room \in Rooms, shown \in Passkeys :
            LET s == IF sm[e].step = "absent" THEN Fresh(e) ELSE sm[e]
                x == Command(e, Begin(e, s, room), Head(wire[e]), shown)
                y == IF x.ok THEN Timer(x)
                     ELSE Report([x EXCEPT !.s.step = "error"])
            IN /\ Done(e, y, Tail(wire[e]))
               /\ slot' = [slot EXCEPT ![e] = IF x.bad THEN "closing" ELSE @]
               /\ Starved(room)
               /\ UNCHANGED <<level, bondable, prompt, dead, air, link, proc,
                              cipher, due>>
  /\ UNCHANGED <<fixed, late>>

(* The LongTermKeyRequest of the peripheral's controller: an event that     *)
(* finds the manager's queue full ends the runner.                          *)
LtkRequest ==
  LET e == "peripheral" IN
  /\ ~dead[e]
  /\ air
  /\ proc.stage = "request"
  /\ IF Len(events[e]) < SmCap
     THEN /\ events' = [events EXCEPT ![e] = Append(@, "ltk")]
          /\ UNCHANGED dead
     ELSE /\ dead' = [dead EXCEPT ![e] = TRUE]
          /\ UNCHANGED events
  /\ proc' = [proc EXCEPT !.stage = "reply"]
  /\ UNCHANGED <<sm, level, bonds, app, bondable, users, wire, slot, air, link,
                 cipher, due, fixed, faults, late>>

(* EncryptionChange: with a machine it is the machine's event, without one  *)
(* the level is that of the bond.  Any error ends the runner.               *)
EncryptionChange(e) ==
  /\ e \in due
  /\ ~dead[e]
  /\ due' = due \ {e}
  /\ \/ /\ slot[e] # "up"
        /\ dead' = [dead EXCEPT ![e] = TRUE]
        /\ UNCHANGED <<hosts, users, wire, faults>>
     \/ /\ slot[e] = "up"
        /\ sm[e].step = "absent"
        /\ level' = [level EXCEPT ![e] = bonds[e].level]
        /\ UNCHANGED <<sm, bonds, events, app, bondable, users, wire, dead,
                       faults>>
     \/ /\ slot[e] = "up"
        /\ sm[e].step # "absent"
        /\ \E room \in Rooms :
             LET x == HandleEvent(e, Begin(e, sm[e], room), "encrypted", 0)
                 y == IF x.ok THEN x ELSE Report(x)
             IN /\ Done(e, y, wire[e])
                /\ level' = [level EXCEPT ![e] =
                               IF y.ok THEN SecurityLevel(y.s) ELSE @]
                /\ dead' = [dead EXCEPT ![e] = ~y.ok]
                /\ Starved(room)
                /\ UNCHANGED <<bondable, prompt>>
  /\ UNCHANGED <<slot, air, link, proc, cipher, fixed, late>>

(* DisconnectionComplete, after what the controller had already reported. *)
Disconnected(e) ==
  /\ ~dead[e]
  /\ ~air
  /\ slot[e] # "down"
  /\ e \notin due
  /\ Forget(e)
  /\ UNCHANGED <<events, users, dead, air, link, proc, cipher, due, fixed,
                 faults, late>>

----------------------------------------------------------------------------
(* The control runner: handle_security_event. *)
Taken(e) == events' = [events EXCEPT ![e] = Tail(@)]

(* A command the controller refuses ends the runner. *)
Refused(e) ==
  /\ dead' = [dead EXCEPT ![e] = TRUE]
  /\ UNCHANGED <<sm, level, bonds, app, bondable, users, wire, slot, air, link,
                 proc, cipher, due>>

(* LeEnableEncryption, by the central, with the key it has at this moment. *)
EnableEncryption(e) ==
  IF e = "peripheral" \/ bonds[e] = NoKey
  THEN UNCHANGED <<sm, level, bonds, app, bondable, users, wire, lower>>
  ELSE IF ~air \/ proc # Idle THEN Refused(e)
  ELSE /\ proc' = [stage |-> "request", key |-> bonds[e]]
       /\ UNCHANGED <<sm, level, bonds, app, bondable, users, wire, slot, dead,
                      air, link, cipher, due>>

(* LeLongTermKeyRequestReply, or a disconnect when there is no key.  The    *)
(* controllers lose the link when their keys differ; of a link that was     *)
(* encrypted already they report a key refresh, which nobody listens to.    *)
SendLongTermKey(e) ==
  IF ~air \/ proc.stage # "reply" THEN Refused(e)
  ELSE IF bonds[e] = NoKey
  THEN /\ Forget(e)
       /\ air' = FALSE
       /\ UNCHANGED <<users, dead, link, proc, cipher, due>>
  ELSE /\ proc' = Idle
       /\ IF Ltk(bonds[e]) = Ltk(proc.key)
          THEN /\ cipher' = proc.key
               /\ due' = IF cipher = NoKey THEN Ends ELSE due
               /\ UNCHANGED air
          ELSE air' = FALSE /\ UNCHANGED <<cipher, due>>
       /\ UNCHANGED <<sm, level, bonds, app, bondable, users, wire, slot, dead,
                      link>>

Control(e) ==
  /\ ~dead[e]
  /\ events[e] # <<>>
  /\ Taken(e)
  /\ CASE Head(events[e]) = "encrypt" -> EnableEncryption(e)
       [] Head(events[e]) = "ltk" -> SendLongTermKey(e)
       [] OTHER -> UNCHANGED <<sm, level, bonds, app, bondable, users, wire,
                               lower>>
  /\ UNCHANGED <<fixed, faults, late>>

(* mark_timeout, when the deadline passes and no event is queued. *)
Ended == {"absent", "success", "error"}
Waiting(e) == sm[e].step \notin Ended

Timeout(e) ==
  /\ ~dead[e]
  /\ events[e] = <<>>
  /\ Waiting(e)
  /\ sm[e].step # "idle"
  /\ sm' = [sm EXCEPT ![e].step = "error"]
  /\ late' = TRUE
  /\ UNCHANGED <<level, bonds, events, app, bondable, users, wire, lower,
                 fixed, faults>>

(* The disconnect that InvalidState asked for. *)
Hangup(e) ==
  /\ ~dead[e]
  /\ slot[e] = "closing"
  /\ air
  /\ air' = FALSE
  /\ UNCHANGED <<hosts, users, wire, slot, dead, link, proc, cipher, due,
                 fixed, faults, late>>

----------------------------------------------------------------------------
(* The link. *)
Lose ==
  /\ faults < MaxFaults
  /\ air
  /\ air' = FALSE
  /\ faults' = faults + 1
  /\ UNCHANGED <<hosts, users, wire, slot, dead, link, proc, cipher, due,
                 fixed, late>>

(* Both ends accept the link; the application sets bondable before it does  *)
(* anything else with the connection.  A link takes so long to make that    *)
(* the events and news of the last one have been taken by then.             *)
Connect ==
  /\ ~air
  /\ due = {}
  /\ link < MaxLinks
  /\ \A e \in Ends : /\ slot[e] = "down" /\ ~dead[e]
                    /\ app[e] = <<>> /\ events[e] = <<>>
  /\ air' = TRUE
  /\ link' = link + 1
  /\ slot' = [e \in Ends |-> "up"]
  /\ proc' = Idle
  /\ cipher' = NoKey
  /\ due' = {}
  /\ answer' = [e \in Ends |-> 0]
  /\ prompt' = [e \in Ends |-> "none"]
  /\ bondable' = [e \in Ends |-> e \in start.bondable]
  /\ UNCHANGED <<sm, level, bonds, events, app, wire, dead, fixed, faults, late>>

----------------------------------------------------------------------------
Init ==
  /\ start \in Starts
  /\ bonds = [e \in Ends |-> IF e \in start.bonded THEN OldBond(e) ELSE NoKey]
  /\ bondable = [e \in Ends |-> FALSE]
  /\ sm = [e \in Ends |-> None]
  /\ level = [e \in Ends |-> "none"]
  /\ events = [e \in Ends |-> <<>>]
  /\ app = [e \in Ends |-> <<>>]
  /\ prompt = [e \in Ends |-> "none"]
  /\ answer = [e \in Ends |-> 0]
  /\ wire = [e \in Ends |-> <<>>]
  /\ slot = [e \in Ends |-> "down"]
  /\ dead = [e \in Ends |-> FALSE]
  /\ air = FALSE
  /\ link = 0
  /\ proc = Idle
  /\ cipher = NoKey
  /\ due = {}
  /\ faults = 0
  /\ late = FALSE

Next ==
  \/ \E e \in Ends :
       \/ RequestSecurity(e) \/ Read(e)
       \/ Confirm(e) \/ Cancel(e) \/ Type(e) \/ RemoveBond(e)
       \/ Deliver(e) \/ EncryptionChange(e) \/ Disconnected(e)
       \/ Control(e) \/ Timeout(e) \/ Hangup(e)
  \/ LtkRequest
  \/ Lose
  \/ Connect

Spec == Init /\ [][Next]_vars

----------------------------------------------------------------------------
(* What pairing promises.                                                   *)

(* LevelOfTheKey: the security level a connection shows is "none" or that   *)
(* of the very key its link is encrypted with, whatever the pairing machine *)
(* and the key table have gone through meanwhile.                           *)
LevelOfTheKey == \A e \in Ends : level[e] \in {"none", cipher.level}

(* AuthIsEarned: a connection is shown as authenticated by a key of its own *)
(* link only if the two users saw, typed or confirmed the same thing on it: *)
(* the rounds compare so many bits, the check values the whole passkey.     *)
AuthIsEarned ==
  \A e \in Ends :
    level[e] = "auth" /\ cipher.link = link
      => answer["central"] = answer["peripheral"] /\ answer[e] # 0

(* BothShareTheKey: when the pairing has succeeded at both ends, what they  *)
(* tell their applications is the same: key, level, and whether it is a     *)
(* bond (an end whose bond was removed meanwhile has nothing to tell).      *)
BothShareTheKey ==
  (\A e \in Ends : sm[e].step = "success" /\ sm[e].bond # NoKey)
    => sm["central"].bond = sm["peripheral"].bond

(* KeysLeaveWithTheLink: a key that is not a bond is of the current link,   *)
(* and goes when its end learns that the link is down.                      *)
KeysLeaveWithTheLink ==
  \A e \in Ends : bonds[e] # NoKey /\ ~bonds[e].bonded
                  => slot[e] # "down" /\ bonds[e].link = link

(* WaitHasACause: without a fault, a timeout or a stopped runner, an end    *)
(* waits only while something is still on its way to one of the two: the    *)
(* 30 s deadline is never what ends a pairing that both sides carry out.    *)
Pending(e) ==
  wire[e] # <<>> \/ events[e] # <<>> \/ app[e] # <<>> \/ prompt[e] # "none"
  \/ slot[e] # "up" \/ dead[e] \/ e \in due

WaitHasACause ==
  (\E e \in Ends : Waiting(e)) /\ faults = 0 /\ ~late
    => ~air \/ proc # Idle \/ \E e \in Ends : Pending(e)
=============================================================================
