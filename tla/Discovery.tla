------------------------------ MODULE Discovery ------------------------------
(***************************************************************************)
(* How a central finds its peripheral: the two scan loops of btleplus's    *)
(* adapter (discover collects until its deadline, find stops at the first  *)
(* match), the ScanFilter and the Selector they are given, and what        *)
(* apps/ble/central makes of the list: a ranking whose entries must all    *)
(* decode as this product.                                                 *)
(*                                                                         *)
(* Time is counted in the seconds of a scan interval from the moment the   *)
(* timeout starts to run. Tick may come between any two steps, so a task   *)
(* may be polled late: nothing here assumes that a timer is punctual.      *)
(***************************************************************************)
EXTENDS Integers, Sequences, TLC

CONSTANTS
    Advert,           \* the advertisements devices in range send
    NoAdvert,
    Filter,           \* the ScanFilter
    Preferences,      \* the Selector: its soft preferences, in priority order
    SelectorFilters,  \* and its hard filters
    Decodable,        \* manufacturer data that decodes as a product payload
    Timeout,          \* SCAN_TIMEOUT or the caller's
    MaxHeard          \* bound: advertisements the stream delivers in one scan

(* An advertisement is the snapshot of properties taken of it. Optional    *)
(* manufacturer data is a set of at most one element, a missing signal     *)
(* strength MissingRssi. A pattern stands for the set of names (ids) it    *)
(* is a prefix of, a predicate for the set of what it accepts.             *)
MissingRssi == -32768     \* i16::MIN

ASSUME AdvertAssumption ==
    /\ NoAdvert \notin Advert
    /\ \A a \in Advert : a.id \in Int /\ a.rssi \in Int /\ a.connectable \in BOOLEAN
ASSUME PreferenceAssumption ==
    /\ Len(Preferences) \in Nat /\ DOMAIN Preferences = 1 .. Len(Preferences)
    /\ \A i \in DOMAIN Preferences :
          Preferences[i].kind \in {"connectable", "signal", "id", "name", "manufacturer"}
ASSUME TimeAssumption ==
    /\ Timeout \in Nat \ {0}
    /\ Filter.interval \in Nat
    /\ MaxHeard \in Nat

-----------------------------------------------------------------------------
(* ScanFilter *)

NameMatches(a)    == \E p \in Filter.names : a.name \in p
AddressMatches(a) == \E p \in Filter.addrs : a.id \in p

MatchesNameOrAddress(a) ==
    \/ Filter.names = {} /\ Filter.addrs = {}
    \/ NameMatches(a)
    \/ AddressMatches(a)

MatchesManufacturer(a) ==
    /\ Filter.companies # {} => \E d \in a.data : d.company \in Filter.companies
    /\ \A p \in Filter.dataPredicates : \E d \in a.data : d \in p

Matches(a) ==
    /\ MatchesNameOrAddress(a)
    /\ MatchesManufacturer(a)
    /\ \A p \in Filter.predicates : a \in p

Pause == IF Filter.interval = 0 THEN 1 ELSE Filter.interval

-----------------------------------------------------------------------------
(* Selector. Every preference grades a device; the higher grade wins.      *)

Truth(b) == IF b THEN 1 ELSE 0

Grade(p, a) ==
    CASE p.kind = "connectable"  -> Truth(a.connectable)
      [] p.kind = "signal"       -> a.rssi
      [] p.kind = "id"           -> Truth(a.id = p.id)
      [] p.kind = "name"         -> Truth(a.name = p.name)
      [] p.kind = "manufacturer" -> Truth(\E d \in a.data : d \in p.accepts)

Beats(a, b, i) == Grade(Preferences[i], a) > Grade(Preferences[i], b)
Ties(a, b, i)  == Grade(Preferences[i], a) = Grade(Preferences[i], b)

(* compare returns Less: the first preference that tells a and b apart     *)
(* decides, the order of the device ids when none does.                    *)
Precedes(a, b) ==
    \/ \E i \in DOMAIN Preferences :
          Beats(a, b, i) /\ \A j \in 1 .. i - 1 : Ties(a, b, j)
    \/ (\A i \in DOMAIN Preferences : Ties(a, b, i)) /\ a.id < b.id

Survives(a) == \A p \in SelectorFilters : a \in p

Ranked(list) == SortSeq(SelectSeq(list, Survives), Precedes)

(* What discover_product_candidates_with_timeout returns for a list that   *)
(* discover collected: one entry that does not decode spoils all of them.  *)
Outcome(list) ==
    IF Ranked(list) = <<>> THEN "SelectionFailed"
    ELSE IF \A i \in DOMAIN Ranked(list) : Ranked(list)[i].data \cap Decodable # {}
         THEN "ok" ELSE "Undecodable"

-----------------------------------------------------------------------------
VARIABLES
    op,      \* which of the two calls runs, or ran last
    pc,      \* where it is: idle, scan, sleep, next, open, done
    now,     \* time since its timeout started to run
    wake,    \* when its sleep ends
    heard,   \* all the stream has delivered since the scan started
    taken,   \* how many of them the loop has taken from the stream
    ended,   \* the stream has ended
    seen,    \* seen_ids
    item,    \* the advertisement whose device is being opened
    found,   \* the peripherals collected
    answer   \* what the call returned

vars == <<op, pc, now, wake, heard, taken, ended, seen, item, found, answer>>

Horizon == Timeout + Pause     \* bound: later times are all alike

Answers == {"none", "ok", "ScanFailed", "SelectionFailed", "Undecodable", "NotFound", "Timeout"}

Init ==
    /\ op = "discover" /\ pc = "idle" /\ now = 0 /\ wake = 0
    /\ heard = <<>> /\ taken = 0 /\ ended = FALSE
    /\ seen = {} /\ item = NoAdvert /\ found = <<>> /\ answer = "none"

Earlier(s, t) == IF s < t THEN s ELSE t

\* Mutant: the list outlives the call.
CallKeepsFound(o) ==
    /\ pc \in {"idle", "done"}
    /\ op' = o /\ pc' = "scan" /\ now' = 0 /\ wake' = 0
    /\ heard' = <<>> /\ taken' = 0 /\ ended' = FALSE
    /\ seen' = {} /\ item' = NoAdvert /\ UNCHANGED found /\ answer' = "none"

Call(o) ==
    /\ pc \in {"idle", "done"}
    /\ op' = o /\ pc' = "scan" /\ now' = 0 /\ wake' = 0
    /\ heard' = <<>> /\ taken' = 0 /\ ended' = FALSE
    /\ seen' = {} /\ item' = NoAdvert /\ found' = <<>> /\ answer' = "none"

(* The loop goes round with list collected: discover looks at its deadline *)
(* and cuts its pause to it; find sleeps, and is given up in the same poll *)
(* when its timeout has passed.                                            *)
Repeat(list) ==
    \/ /\ now < Timeout
       /\ pc' = "sleep"
       /\ wake' = IF op = "discover" THEN Earlier(now + Pause, Timeout) ELSE now + Pause
       /\ UNCHANGED answer
    \/ /\ now >= Timeout
       /\ pc' = "done"
       /\ answer' = IF op = "discover" THEN Outcome(list) ELSE "Timeout"
       /\ UNCHANGED wake

(* The stack answers the request to scan. discover's deadline counts from  *)
(* here, find's timeout has run since the call.                            *)
ScanStarts ==
    /\ pc = "scan"
    /\ pc' = "sleep"
    /\ IF op = "discover"
       THEN now' = 0 /\ wake' = Earlier(Pause, Timeout)
       ELSE wake' = now + Pause /\ UNCHANGED now
    /\ UNCHANGED <<op, heard, taken, ended, seen, item, found, answer>>

ScanFails ==
    /\ pc = "scan"
    /\ pc' = "done"
    /\ answer' = IF op = "discover" THEN "ScanFailed" ELSE "NotFound"
    /\ UNCHANGED <<op, now, wake, heard, taken, ended, seen, item, found>>

WakeUp ==
    /\ pc = "sleep" /\ now >= wake
    /\ IF op = "discover" /\ now >= Timeout
       THEN pc' = "done" /\ answer' = Outcome(found)
       ELSE pc' = "next" /\ UNCHANGED answer
    /\ UNCHANGED <<op, now, wake, heard, taken, ended, seen, item, found>>

\* Mutant: seen_ids is not consulted.
ShouldCollectAgain(a) == Matches(a)

ShouldCollect(a) == Matches(a) /\ a.id \notin seen

(* The loop takes one advertisement from the stream.                       *)
Wanted(a) == IF op = "discover" THEN ShouldCollect(a) ELSE Matches(a)

Take ==
    /\ pc = "next" /\ taken < Len(heard)
    /\ taken' = taken + 1
    /\ LET a == heard[taken + 1] IN
       \/ /\ Wanted(a)
          /\ pc' = "open" /\ item' = a
          /\ seen' = IF op = "discover" THEN seen \cup {a.id} ELSE seen
          /\ UNCHANGED <<wake, answer>>
       \/ ~Wanted(a) /\ Repeat(found) /\ UNCHANGED <<seen, item>>
    /\ UNCHANGED <<op, now, heard, ended, found>>

StreamOver == taken = Len(heard) /\ ended
StreamDry  == taken = Len(heard) /\ ~ended

(* The stream has ended: discover breaks, find goes on polling it.         *)
TakeEnd ==
    /\ pc = "next" /\ StreamOver
    /\ \/ op = "discover" /\ pc' = "done" /\ answer' = Outcome(found) /\ UNCHANGED wake
       \/ op = "find" /\ Repeat(found)
    /\ UNCHANGED <<op, now, heard, taken, ended, seen, item, found>>

\* Mutant: find's timeout covers the stream but not what is asked of the stack.
ExpireStreamOnly ==
    /\ now >= Timeout
    /\ (pc = "next" /\ StreamDry) \/ (op = "find" /\ pc = "sleep" /\ now < wake)
    /\ pc' = "done" /\ item' = NoAdvert
    /\ answer' = IF op = "discover" THEN Outcome(found) ELSE "Timeout"
    /\ UNCHANGED <<op, now, wake, heard, taken, ended, seen, found>>

(* The timeout around the stream (discover) or around everything (find)    *)
(* ends a wait.                                                            *)
Expire ==
    /\ now >= Timeout
    /\ \/ pc = "next" /\ StreamDry
       \/ op = "find" /\ (pc \in {"scan", "open"} \/ (pc = "sleep" /\ now < wake))
    /\ pc' = "done" /\ item' = NoAdvert
    /\ answer' = IF op = "discover" THEN Outcome(found) ELSE "Timeout"
    /\ UNCHANGED <<op, now, wake, heard, taken, ended, seen, found>>

OpenSucceeds ==
    /\ pc = "open"
    /\ found' = Append(found, item) /\ item' = NoAdvert
    /\ \/ op = "discover" /\ Repeat(found')
       \/ op = "find" /\ pc' = "done" /\ answer' = "ok" /\ UNCHANGED wake
    /\ UNCHANGED <<op, now, heard, taken, ended, seen>>

OpenFails ==
    /\ pc = "open"
    /\ item' = NoAdvert
    /\ \/ op = "discover" /\ Repeat(found)
       \/ op = "find" /\ pc' = "done" /\ answer' = "NotFound" /\ UNCHANGED wake
    /\ UNCHANGED <<op, now, heard, taken, ended, seen, found>>

(* The stack and the air. *)
Hear(a) ==
    /\ pc \in {"sleep", "next", "open"} /\ ~ended /\ Len(heard) < MaxHeard
    /\ heard' = Append(heard, a)
    /\ UNCHANGED <<op, pc, now, wake, taken, ended, seen, item, found, answer>>

StreamEnds ==
    /\ pc \in {"sleep", "next", "open"} /\ ~ended
    /\ ended' = TRUE
    /\ UNCHANGED <<op, pc, now, wake, heard, taken, seen, item, found, answer>>

Tick ==
    /\ pc \notin {"idle", "done"} /\ now < Horizon
    /\ now' = now + 1
    /\ UNCHANGED <<op, pc, wake, heard, taken, ended, seen, item, found, answer>>

Loop    == WakeUp \/ Take \/ TakeEnd \/ Expire
Replies == ScanStarts \/ ScanFails \/ OpenSucceeds \/ OpenFails
Next ==
    \/ \E o \in {"discover", "find"} : Call(o)
    \/ Loop \/ Replies \/ Tick \/ StreamEnds
    \/ \E a \in Advert : Hear(a)

Spec == Init /\ [][Next]_vars

(* The runtime polls a task that is ready and time passes. That the stack  *)
(* answers is assumed for discover only: it awaits the scan and every      *)
(* open_device outside its timeout, find awaits them inside.               *)
Fairness == WF_vars(Loop) /\ WF_vars(Tick) /\ WF_vars(op = "discover" /\ Replies)
FairSpec == Spec /\ Fairness

-----------------------------------------------------------------------------
(* Properties *)

TypeOK ==
    /\ op \in {"discover", "find"}
    /\ pc \in {"idle", "scan", "sleep", "next", "open", "done"}
    /\ now \in 0 .. Horizon
    /\ wake \in Nat /\ (op = "discover" => wake <= Timeout)
    /\ heard \in Seq(Advert) /\ taken \in 0 .. Len(heard) /\ Len(heard) <= MaxHeard
    /\ ended \in BOOLEAN
    /\ seen \subseteq {a.id : a \in Advert}
    /\ found \in Seq(Advert)
    /\ item \in IF pc = "open" THEN Advert ELSE {NoAdvert}
    /\ answer \in IF pc = "done" THEN Answers \ {"none"} ELSE {"none"}

(* Every device is listed once, and with the first of its advertisements   *)
(* the loop saw that passes the filter: the snapshot the ranking compares  *)
(* is never mixed up with a later one (should_collect_discovered_properties). *)
FirstSighting(a) ==
    \E i \in 1 .. taken :
        /\ heard[i] = a
        /\ Matches(a)
        /\ \A j \in 1 .. i - 1 : heard[j].id = a.id => ~Matches(heard[j])
ListsFirstSightings ==
    /\ \A k \in DOMAIN found : FirstSighting(found[k])
    /\ \A k, l \in DOMAIN found : k # l => found[k].id # found[l].id

(* find returns the first device heard that matches, or none: it never     *)
(* passes over one (scan_for_target).                                      *)
FindIsFirst ==
    op = "find" /\ answer = "ok" =>
        /\ found = <<heard[taken]>>
        /\ \A i \in 1 .. taken - 1 : ~Matches(heard[i])

(* Every call returns, however long the stream goes on, whether or not it  *)
(* ends: discover if the stack answers its requests, find even if not.     *)
CallReturns == (pc = "scan") ~> (pc = "done")

(* Both loops keep the promise their callers rely on. *)
Promise == INSTANCE ScanPromise WITH
    Matching <- {a \in Advert : Matches(a)},
    calling  <- pc \notin {"idle", "done"},
    heard    <- {heard[i] : i \in DOMAIN heard},
    listed   <- {found[k] : k \in DOMAIN found}
PromiseKept == Promise!Spec
=============================================================================
