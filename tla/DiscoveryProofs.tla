---------------------------- MODULE DiscoveryProofs ----------------------------
(***************************************************************************)
(* Proofs about Discovery, for every filter, selector, timeout and bound.  *)
(***************************************************************************)
EXTENDS Discovery, WellFoundedInduction, TLAPS

-----------------------------------------------------------------------------
(* The ranking *)

LEMMA GradeIsInt ==
    ASSUME NEW a \in Advert, NEW i \in DOMAIN Preferences
    PROVE  Grade(Preferences[i], a) \in Int
<1>1. CASE Preferences[i].kind = "connectable" BY <1>1 DEF Grade, Truth
<1>2. CASE Preferences[i].kind = "signal" BY <1>2, AdvertAssumption DEF Grade
<1>3. CASE Preferences[i].kind = "id" BY <1>3 DEF Grade, Truth
<1>4. CASE Preferences[i].kind = "name" BY <1>4 DEF Grade, Truth
<1>5. CASE Preferences[i].kind = "manufacturer" BY <1>5 DEF Grade, Truth
<1> QED BY <1>1, <1>2, <1>3, <1>4, <1>5, PreferenceAssumption

LEMMA LeastElement ==
    ASSUME NEW T, T \subseteq Nat, T # {}
    PROVE  \E x \in T : \A y \in T : x <= y
<1> DEFINE R == OpToRel(<, Nat)
<1>1. PICK x \in T : \A y \in T : ~ (<<y, x>> \in R)
  <2>1. IsWellFoundedOn(R, Nat) BY NatLessThanWellFounded
  <2> HIDE DEF R
  <2> QED BY <2>1, WFMin, Zenon
<1>2. \A y \in T : ~ (y < x) BY <1>1 DEF OpToRel
<1> QED BY <1>2

(* The selector's comparison is a strict total order on devices with       *)
(* different ids, whatever its preferences: no device precedes itself, two *)
(* never precede each other, and of two different ids one precedes.        *)
THEOREM PrecedesIsStrict ==
    ASSUME NEW a \in Advert, NEW b \in Advert
    PROVE  /\ ~(Precedes(a, b) /\ Precedes(b, a))
           /\ a.id # b.id => Precedes(a, b) \/ Precedes(b, a)
<1> DEFINE g(x, i) == Grade(Preferences[i], x)
<1>1. \A i \in DOMAIN Preferences : g(a, i) \in Int /\ g(b, i) \in Int BY GradeIsInt
<1>2. /\ Len(Preferences) \in Nat /\ DOMAIN Preferences = 1 .. Len(Preferences)
      /\ a.id \in Int /\ b.id \in Int
  BY PreferenceAssumption, AdvertAssumption
<1>3. ~(Precedes(a, b) /\ Precedes(b, a))
  BY <1>1, <1>2 DEF Precedes, Beats, Ties
<1>4. ASSUME a.id # b.id PROVE Precedes(a, b) \/ Precedes(b, a)
  <2> DEFINE T == {i \in DOMAIN Preferences : ~Ties(a, b, i)}
  <2>1. CASE T = {} BY <2>1, <1>1, <1>2, <1>4 DEF Precedes, Ties
  <2>2. CASE T # {}
    <3>0. T \subseteq Nat BY <1>2
    <3>1. PICK i \in T : \A j \in T : i <= j
      <4> HIDE DEF T
      <4> QED BY <2>2, <3>0, LeastElement
    <3>2. \A j \in 1 .. i - 1 : Ties(a, b, j) /\ Ties(b, a, j) BY <3>1, <1>2 DEF Ties
    <3>3. Beats(a, b, i) \/ Beats(b, a, i) BY <3>1, <1>1 DEF Beats, Ties
    <3> QED BY <3>1, <3>2, <3>3 DEF Precedes
  <2> QED BY <2>1, <2>2
<1> QED BY <1>3, <1>4

(* ... and it is transitive, so the order of the list does not depend on   *)
(* the order in which devices were heard.                                  *)
THEOREM PrecedesIsTransitive ==
    ASSUME NEW a \in Advert, NEW b \in Advert, NEW c \in Advert,
           Precedes(a, b), Precedes(b, c)
    PROVE  Precedes(a, c)
<1>1. \A i \in DOMAIN Preferences : /\ Grade(Preferences[i], a) \in Int
                                    /\ Grade(Preferences[i], b) \in Int
                                    /\ Grade(Preferences[i], c) \in Int
  BY GradeIsInt
<1>2. /\ Len(Preferences) \in Nat /\ DOMAIN Preferences = 1 .. Len(Preferences)
      /\ a.id \in Int /\ b.id \in Int /\ c.id \in Int
  BY PreferenceAssumption, AdvertAssumption
<1>3. CASE \E i \in DOMAIN Preferences : Beats(a, b, i) /\ \A j \in 1 .. i - 1 : Ties(a, b, j)
  <2>1. PICK i \in DOMAIN Preferences : Beats(a, b, i) /\ \A j \in 1 .. i - 1 : Ties(a, b, j)
    BY <1>3
  <2>2. CASE \E k \in DOMAIN Preferences : Beats(b, c, k) /\ \A j \in 1 .. k - 1 : Ties(b, c, j)
    <3>1. PICK k \in DOMAIN Preferences : Beats(b, c, k) /\ \A j \in 1 .. k - 1 : Ties(b, c, j)
      BY <2>2
    <3>2. CASE i <= k
      <4>1. Beats(a, c, i) BY <2>1, <3>1, <3>2, <1>1, <1>2 DEF Beats, Ties
      <4>2. \A j \in 1 .. i - 1 : Ties(a, c, j) BY <2>1, <3>1, <3>2, <1>2 DEF Ties
      <4> QED BY <4>1, <4>2 DEF Precedes
    <3>3. CASE k < i
      <4>1. Beats(a, c, k) BY <2>1, <3>1, <3>3, <1>1, <1>2 DEF Beats, Ties
      <4>2. \A j \in 1 .. k - 1 : Ties(a, c, j) BY <2>1, <3>1, <3>3, <1>2 DEF Ties
      <4> QED BY <4>1, <4>2 DEF Precedes
    <3> QED BY <3>2, <3>3, <1>2
  <2>3. CASE \A k \in DOMAIN Preferences : Ties(b, c, k)
    <3>1. Beats(a, c, i) BY <2>1, <2>3, <1>1 DEF Beats, Ties
    <3>2. \A j \in 1 .. i - 1 : Ties(a, c, j) BY <2>1, <2>3, <1>2 DEF Ties
    <3> QED BY <3>1, <3>2 DEF Precedes
  <2> QED BY <2>2, <2>3 DEF Precedes
<1>4. CASE (\A i \in DOMAIN Preferences : Ties(a, b, i)) /\ a.id < b.id
  <2>1. CASE \E k \in DOMAIN Preferences : Beats(b, c, k) /\ \A j \in 1 .. k - 1 : Ties(b, c, j)
    <3>1. PICK k \in DOMAIN Preferences : Beats(b, c, k) /\ \A j \in 1 .. k - 1 : Ties(b, c, j)
      BY <2>1
    <3>2. Beats(a, c, k) BY <3>1, <1>4, <1>1 DEF Beats, Ties
    <3>3. \A j \in 1 .. k - 1 : Ties(a, c, j) BY <3>1, <1>4, <1>2 DEF Ties
    <3> QED BY <3>2, <3>3 DEF Precedes
  <2>2. CASE (\A k \in DOMAIN Preferences : Ties(b, c, k)) /\ b.id < c.id
    BY <2>2, <1>4, <1>2 DEF Precedes, Ties
  <2> QED BY <2>1, <2>2 DEF Precedes
<1> QED BY <1>3, <1>4 DEF Precedes

-----------------------------------------------------------------------------
(* The inductive invariant *)

(* What the loop knows of the devices it has taken. For discover: those    *)
(* that match are in seen_ids, and every listed device is. For find: none  *)
(* matched, or it would have stopped.                                      *)
Collected ==
    op = "discover" =>
        /\ \A i \in 1 .. taken : Matches(heard[i]) => heard[i].id \in seen
        /\ \A k \in 1 .. Len(found) : found[k].id \in seen
PassedOver ==
    op = "find" /\ pc # "done" =>
        /\ found = <<>>
        /\ \A i \in 1 .. (IF pc = "open" THEN taken - 1 ELSE taken) : ~Matches(heard[i])

(* The device being opened is the one just taken, for the first time.      *)
Opening ==
    pc = "open" =>
        /\ taken > 0 /\ item = heard[taken] /\ Matches(item)
        /\ \A j \in 1 .. taken - 1 : heard[j].id = item.id => ~Matches(heard[j])
        /\ \A k \in 1 .. Len(found) : found[k].id # item.id

Fresh == pc \in {"idle", "scan"} => taken = 0 /\ heard = <<>> /\ found = <<>>

IndInv ==
    TypeOK /\ ListsFirstSightings /\ FindIsFirst /\ Collected /\ PassedOver /\ Opening /\ Fresh

LEMMA InitHolds == Init => IndInv
<1> SUFFICES ASSUME Init PROVE IndInv OBVIOUS
<1> USE DEF Init
<1>0. ended \in BOOLEAN BY Zenon
<1>1. TypeOK
  <2>1. now \in 0 .. Horizon /\ wake \in Nat /\ wake <= Timeout BY TimeAssumption DEF Horizon, Pause
  <2>2. heard \in Seq(Advert) /\ found \in Seq(Advert) /\ taken \in 0 .. Len(heard) /\ Len(heard) <= MaxHeard
    BY TimeAssumption
  <2> QED BY <1>0, <2>1, <2>2 DEF TypeOK
<1>2. ListsFirstSightings /\ FindIsFirst /\ Collected /\ PassedOver /\ Opening /\ Fresh
  BY DEF ListsFirstSightings, FindIsFirst, Collected, PassedOver, Opening, Fresh
<1> QED BY <1>1, <1>2 DEF IndInv

LEMMA OutcomeIsAnswer == \A list : Outcome(list) \in Answers \ {"none"}
BY DEF Outcome, Answers

LEMMA TypeStep == TypeOK /\ [Next]_vars => TypeOK'
<1> SUFFICES ASSUME TypeOK, [Next]_vars PROVE TypeOK' OBVIOUS
<1> USE TimeAssumption DEF TypeOK
<1>1. Pause \in Nat /\ Horizon \in Nat /\ Timeout <= Horizon BY DEF Pause, Horizon
<1>2. CASE \E o \in {"discover", "find"} : Call(o)
  <2>1. PICK o \in {"discover", "find"} : Call(o) BY <1>2
  <2>2. ended' \in BOOLEAN BY <2>1, Zenon DEF Call
  <2>3. now' \in 0 .. Horizon /\ wake' \in Nat /\ wake' <= Timeout BY <2>1, <1>1 DEF Call
  <2>4. heard' \in Seq(Advert) /\ found' \in Seq(Advert) /\ taken' \in 0 .. Len(heard') /\ Len(heard') <= MaxHeard
    BY <2>1 DEF Call
  <2> QED BY <2>1, <2>2, <2>3, <2>4 DEF Call
<1>3. CASE Loop
  <2>1. CASE WakeUp BY <2>1, <1>1, OutcomeIsAnswer DEF WakeUp
  <2>2. CASE Take BY <2>2, <1>1, OutcomeIsAnswer DEF Take, Repeat, Earlier, Answers
  <2>3. CASE TakeEnd BY <2>3, <1>1, OutcomeIsAnswer DEF TakeEnd, Repeat, Earlier, Answers
  <2>4. CASE Expire BY <2>4, <1>1, OutcomeIsAnswer DEF Expire, Answers
  <2> QED BY <1>3, <2>1, <2>2, <2>3, <2>4 DEF Loop
<1>4. CASE Replies
  <2>1. CASE ScanStarts BY <2>1, <1>1 DEF ScanStarts, Earlier
  <2>2. CASE ScanFails BY <2>2, <1>1 DEF ScanFails, Answers
  <2>3. CASE OpenSucceeds BY <2>3, <1>1, OutcomeIsAnswer DEF OpenSucceeds, Repeat, Earlier, Answers
  <2>4. CASE OpenFails BY <2>4, <1>1, OutcomeIsAnswer DEF OpenFails, Repeat, Earlier, Answers
  <2> QED BY <1>4, <2>1, <2>2, <2>3, <2>4 DEF Replies
<1>5. CASE Tick BY <1>5, <1>1 DEF Tick
<1>6. CASE StreamEnds BY <1>6 DEF StreamEnds
<1>7. CASE \E a \in Advert : Hear(a) BY <1>7, <1>1 DEF Hear
<1>8. CASE UNCHANGED vars BY <1>8, <1>1 DEF vars
<1> QED BY <1>2, <1>3, <1>4, <1>5, <1>6, <1>7, <1>8 DEF Next

Sightings == ListsFirstSightings /\ FindIsFirst /\ Collected /\ PassedOver /\ Opening /\ Fresh

(* A step that takes nothing from the stream and lists nothing.            *)
LEMMA QuietStep ==
    ASSUME TypeOK, TypeOK', Sightings,
           UNCHANGED <<op, heard, taken, seen, found>>,
           \/ UNCHANGED <<pc, item, answer>>
           \/ /\ pc' \notin {"idle", "scan", "open"}
              /\ op = "find" => answer' # "ok" /\ (pc = "open" => pc' = "done")
              /\ pc = "done" => pc' = "done"
    PROVE  Sightings'
<1> USE DEF Sightings
<1>1. ListsFirstSightings' BY DEF ListsFirstSightings, FirstSighting
<1>2. FindIsFirst' BY DEF FindIsFirst, TypeOK
<1>3. Collected' BY DEF Collected
<1>4. PassedOver' BY DEF PassedOver
<1>5. Opening' BY DEF Opening
<1>6. Fresh' BY DEF Fresh
<1> QED BY <1>1, <1>2, <1>3, <1>4, <1>5, <1>6

LEMMA CallStep == ASSUME TypeOK, NEW o, Call(o) PROVE Sightings'
<1> USE DEF Call
<1>1. ListsFirstSightings' BY DEF ListsFirstSightings
<1>2. FindIsFirst' /\ Collected' /\ PassedOver' BY DEF FindIsFirst, Collected, PassedOver
<1>3. Opening' /\ Fresh' BY DEF Opening, Fresh
<1> QED BY <1>1, <1>2, <1>3 DEF Sightings

LEMMA HearStep == ASSUME TypeOK, Sightings, NEW a \in Advert, Hear(a) PROVE Sightings'
<1> USE DEF Sightings
<1>0. /\ UNCHANGED <<op, pc, taken, seen, item, found, answer>>
      /\ pc \in {"sleep", "next", "open"} /\ answer = "none"
      /\ taken \in Nat /\ taken <= Len(heard) /\ heard' = Append(heard, a) /\ heard \in Seq(Advert)
  BY DEF Hear, TypeOK
<1>1. \A i \in 1 .. taken : heard'[i] = heard[i] BY <1>0
<1> HIDE DEF Hear
<1>2. ListsFirstSightings' BY <1>0, <1>1 DEF ListsFirstSightings, FirstSighting
<1>3. FindIsFirst' BY <1>0 DEF FindIsFirst
<1>4. Collected' BY <1>0, <1>1 DEF Collected
<1>5. PassedOver' BY <1>0, <1>1 DEF PassedOver
<1>6. Opening' BY <1>0, <1>1 DEF Opening
<1>7. Fresh' BY <1>0 DEF Fresh
<1> QED BY <1>2, <1>3, <1>4, <1>5, <1>6, <1>7

LEMMA TakeStep == ASSUME TypeOK, TypeOK', Sightings, Take PROVE Sightings'
<1> USE DEF Sightings
<1> DEFINE a == heard[taken + 1]
<1>0. /\ UNCHANGED <<op, heard, found>> /\ pc = "next" /\ taken' = taken + 1
      /\ taken \in Nat /\ taken' <= Len(heard) /\ heard \in Seq(Advert) /\ found \in Seq(Advert)
      /\ pc' \in {"open", "sleep", "done"}
  BY DEF Take, Repeat, TypeOK
<1>1. ListsFirstSightings' BY <1>0 DEF ListsFirstSightings, FirstSighting
<1>2. FindIsFirst'
  <2>1. op = "find" => answer' # "ok" BY <1>0 DEF Take, Repeat, TypeOK
  <2> QED BY <2>1, <1>0 DEF FindIsFirst
<1>3. Collected'
  <2> SUFFICES ASSUME op = "discover" PROVE Collected' BY <1>0 DEF Collected
  <2>1. seen' = seen \/ seen' = seen \cup {a.id} BY DEF Take
  <2>2. Matches(a) => a.id \in seen' BY DEF Take, Wanted, ShouldCollect
  <2>3. seen \subseteq seen' BY <2>1
  <2> QED BY <2>2, <2>3, <1>0 DEF Collected
<1>4. PassedOver'
  <2> SUFFICES ASSUME op = "find", pc' # "done" PROVE PassedOver' BY <1>0 DEF PassedOver
  <2>1. pc' # "open" => ~Matches(a) BY DEF Take, Wanted
  <2>2. found = <<>> /\ \A i \in 1 .. taken : ~Matches(heard[i]) BY <1>0 DEF PassedOver
  <2> QED BY <2>1, <2>2, <1>0 DEF PassedOver
<1>5. Opening'
  <2> SUFFICES ASSUME pc' = "open" PROVE Opening' BY DEF Opening
  <2>1. Wanted(a) /\ item' = a BY DEF Take, Repeat
  <2>2. CASE op = "discover"
    <3>1. Matches(a) /\ a.id \notin seen BY <2>1, <2>2 DEF Wanted, ShouldCollect
    <3> QED BY <3>1, <2>1, <2>2, <1>0 DEF Opening, Collected
  <2>3. CASE op = "find"
    <3>1. Matches(a) BY <2>1, <2>3 DEF Wanted
    <3> QED BY <3>1, <2>1, <2>3, <1>0 DEF Opening, PassedOver
  <2> QED BY <2>2, <2>3 DEF TypeOK
<1>6. Fresh' BY <1>0 DEF Fresh
<1> QED BY <1>1, <1>2, <1>3, <1>4, <1>5, <1>6

LEMMA OpenStep == ASSUME TypeOK, TypeOK', Sightings, OpenSucceeds PROVE Sightings'
<1> USE DEF Sightings
<1>0. /\ UNCHANGED <<op, heard, taken, seen>> /\ pc = "open" /\ pc' \in {"sleep", "done"}
      /\ found \in Seq(Advert) /\ item \in Advert /\ found' = Append(found, item)
      /\ op = "find" => pc' = "done"
      /\ op \in {"find", "discover"} /\ taken \in Nat /\ taken <= Len(heard) /\ heard \in Seq(Advert)
  BY DEF OpenSucceeds, Repeat, TypeOK
<1>1. /\ Len(found') = Len(found) + 1 /\ found'[Len(found')] = item
      /\ \A k \in 1 .. Len(found) : found'[k] = found[k]
      /\ DOMAIN found' = 1 .. Len(found) + 1 /\ DOMAIN found = 1 .. Len(found) /\ Len(found) \in Nat
  BY <1>0
<1>2. ListsFirstSightings'
  <2>1. FirstSighting(item) BY <1>0 DEF Opening, FirstSighting
  <2>2. \A k \in 1 .. Len(found) : FirstSighting(found[k]) BY <1>1 DEF ListsFirstSightings
  <2>3. \A x : FirstSighting(x)' <=> FirstSighting(x) BY <1>0 DEF FirstSighting
  <2>4. \A k \in DOMAIN found' : FirstSighting(found'[k]) BY <1>1, <2>1, <2>2
  <2>5. \A k, l \in DOMAIN found' : k # l => found'[k].id # found'[l].id
    BY <1>0, <1>1 DEF Opening, ListsFirstSightings
  <2>6. (\A k \in DOMAIN found : FirstSighting(found[k]))' BY <2>4, <1>0 DEF FirstSighting
  <2> QED BY <2>5, <2>6 DEF ListsFirstSightings
<1>3. FindIsFirst'
  <2>1. op = "find" => found = <<>> /\ \A i \in 1 .. taken - 1 : ~Matches(heard[i])
    BY <1>0 DEF PassedOver
  <2> QED BY <2>1, <1>0 DEF FindIsFirst, Opening
<1>4. Collected'
  <2>1. op = "discover" => item.id \in seen BY <1>0 DEF Collected, Opening
  <2> QED BY <2>1, <1>0, <1>1 DEF Collected
<1>5. PassedOver' /\ Opening' /\ Fresh' BY <1>0 DEF PassedOver, Opening, Fresh
<1> QED BY <1>2, <1>3, <1>4, <1>5

LEMMA Step == IndInv /\ [Next]_vars => IndInv'
<1> SUFFICES ASSUME TypeOK, Sightings, [Next]_vars PROVE IndInv' BY DEF IndInv, Sightings
<1>1. TypeOK' BY TypeStep
<1>2. Sightings'
  <2>1. CASE \E o \in {"discover", "find"} : Call(o) BY <2>1, CallStep
  <2>2. CASE WakeUp BY <2>2, <1>1, QuietStep, OutcomeIsAnswer DEF WakeUp, TypeOK
  <2>3. CASE Take BY <2>3, <1>1, TakeStep
  <2>4. CASE TakeEnd BY <2>4, <1>1, QuietStep DEF TakeEnd, Repeat, TypeOK
  <2>5. CASE Expire BY <2>5, <1>1, QuietStep DEF Expire, TypeOK
  <2>6. CASE ScanStarts BY <2>6, <1>1, QuietStep DEF ScanStarts, TypeOK
  <2>7. CASE ScanFails BY <2>7, <1>1, QuietStep DEF ScanFails, TypeOK
  <2>8. CASE OpenSucceeds BY <2>8, <1>1, OpenStep
  <2>9. CASE OpenFails BY <2>9, <1>1, QuietStep DEF OpenFails, Repeat, TypeOK
  <2>10. CASE Tick BY <2>10, <1>1, QuietStep DEF Tick
  <2>11. CASE StreamEnds BY <2>11, <1>1, QuietStep DEF StreamEnds
  <2>12. CASE \E a \in Advert : Hear(a) BY <2>12, HearStep
  <2>13. CASE UNCHANGED vars BY <2>13, <1>1, QuietStep DEF vars
  <2> QED BY <2>1, <2>2, <2>3, <2>4, <2>5, <2>6, <2>7, <2>8, <2>9, <2>10, <2>11, <2>12, <2>13
       DEF Next, Loop, Replies
<1> QED BY <1>1, <1>2 DEF IndInv, Sightings

THEOREM Inductive == Spec => []IndInv
BY InitHolds, Step, PTL DEF Spec

(* The types of the state, and that a pause never outlasts the deadline.   *)
THEOREM TypesHold == Spec => []TypeOK
<1>1. IndInv => TypeOK BY DEF IndInv
<1> QED BY Inductive, <1>1, PTL

(* No device is listed twice or with a later advertisement than its first  *)
(* matching one, in every scan, for every filter.                          *)
THEOREM SightingsHold == Spec => []ListsFirstSightings
<1>1. IndInv => ListsFirstSightings BY DEF IndInv
<1> QED BY Inductive, <1>1, PTL

(* What find returns is the first match that was heard.                    *)
THEOREM FindHolds == Spec => []FindIsFirst
<1>1. IndInv => FindIsFirst BY DEF IndInv
<1> QED BY Inductive, <1>1, PTL

-----------------------------------------------------------------------------
(* The refinement *)

Calling   == pc \notin {"idle", "done"}
HeardSet  == {heard[i] : i \in DOMAIN heard}
ListedSet == {found[k] : k \in DOMAIN found}
Matching  == {a \in Advert : Matches(a)}

LEMMA AppendRange ==
    ASSUME NEW S, NEW s \in Seq(S), NEW x \in S
    PROVE  LET t == Append(s, x)
           IN  {t[i] : i \in DOMAIN t} = {s[i] : i \in DOMAIN s} \cup {x}
<1> DEFINE t == Append(s, x)
<1>1. /\ DOMAIN t = 1 .. Len(s) + 1 /\ DOMAIN s = 1 .. Len(s) /\ Len(s) \in Nat
      /\ t[Len(s) + 1] = x /\ \A i \in 1 .. Len(s) : t[i] = s[i]
  OBVIOUS
<1> HIDE DEF t
<1>2. {t[i] : i \in DOMAIN t} = {s[i] : i \in DOMAIN s} \cup {x} BY <1>1
<1> QED BY <1>2 DEF t

\* A step that leaves the stream and the list alone is one of the promise's returns, or none of its steps.
LEMMA QuietPromise ==
    ASSUME UNCHANGED <<heard, found>>, Calling' => Calling
    PROVE  [Promise!Next]_(Promise!vars)
<1>1. UNCHANGED <<HeardSet, ListedSet>> BY DEF HeardSet, ListedSet
<1>2. CASE Calling /\ ~Calling'
  BY <1>1, <1>2 DEF Promise!Next, Promise!Return, Calling, HeardSet, ListedSet
<1>3. CASE Calling = Calling' BY <1>1, <1>3 DEF Promise!vars, Calling, HeardSet, ListedSet
<1> QED BY <1>2, <1>3 DEF Calling

LEMMA StepKeepsPromise == IndInv /\ IndInv' /\ [Next]_vars => [Promise!Next]_(Promise!vars)
<1> SUFFICES ASSUME IndInv, IndInv', [Next]_vars PROVE [Promise!Next]_(Promise!vars) OBVIOUS
<1>0. TypeOK /\ TypeOK' BY DEF IndInv
<1>1. CASE \E o \in {"discover", "find"} : Call(o)
  <2>1. ~Calling /\ Calling' /\ HeardSet' = {} /\ ListedSet' = {}
    BY <1>1 DEF Call, Calling, HeardSet, ListedSet
  <2> QED BY <2>1 DEF Promise!Next, Promise!Begin, Calling, HeardSet, ListedSet
<1>2. CASE \E a \in Advert : Hear(a)
  <2>1. PICK a \in Advert : Hear(a) BY <1>2
  <2>2. Calling /\ Calling' /\ UNCHANGED found BY <2>1 DEF Hear, Calling
  <2>3. HeardSet' = HeardSet \cup {a}
    <3>1. heard' = Append(heard, a) BY <2>1 DEF Hear
    <3>2. heard \in Seq(Advert) BY <1>0 DEF TypeOK
    <3>3. a \in Advert BY <2>1
    <3> QED BY ONLY <3>1, <3>2, <3>3, AppendRange DEF HeardSet
  <2>4. ListedSet' = ListedSet BY <2>2 DEF ListedSet
  <2> QED BY <2>2, <2>3, <2>4 DEF Promise!Next, Promise!Hear, Calling, HeardSet, ListedSet
<1>3. CASE OpenSucceeds
  <2>1. Calling /\ UNCHANGED heard /\ found' = Append(found, item) /\ item \in Advert
    BY <1>3, <1>0 DEF OpenSucceeds, Calling, TypeOK
  <2>2. HeardSet' = HeardSet BY <2>1 DEF HeardSet
  <2>3. ListedSet' = ListedSet \cup {item}
    <3>1. found' = Append(found, item) /\ item \in Advert BY <2>1
    <3>2. found \in Seq(Advert) BY <1>0 DEF TypeOK
    <3> QED BY ONLY <3>1, <3>2, AppendRange DEF ListedSet
  <2>4. item \in HeardSet \cap Matching
    BY <1>3, <1>0, <2>1 DEF IndInv, Opening, OpenSucceeds, TypeOK, HeardSet, Matching
  <2>5. \A b \in ListedSet : b.id # item.id
    BY <1>3, <1>0 DEF IndInv, Opening, OpenSucceeds, TypeOK, ListedSet
  <2>6. Calling' \in BOOLEAN BY DEF Calling
  <2> QED BY <2>1, <2>2, <2>3, <2>4, <2>5, <2>6
       DEF Promise!Next, Promise!List, Promise!Lists, Calling, HeardSet, ListedSet, Matching
<1>4. CASE WakeUp \/ TakeEnd \/ Expire
  BY <1>4, QuietPromise DEF WakeUp, TakeEnd, Expire, Repeat, Calling
<1>5. CASE Take BY <1>5, QuietPromise DEF Take, Repeat, Calling
<1>6. CASE ScanStarts \/ ScanFails \/ OpenFails
  BY <1>6, QuietPromise DEF ScanStarts, ScanFails, OpenFails, Repeat, Calling
<1>7. CASE Tick \/ StreamEnds \/ UNCHANGED vars
  BY <1>7, QuietPromise DEF Tick, StreamEnds, vars, Calling
<1> QED BY <1>1, <1>2, <1>3, <1>4, <1>5, <1>6, <1>7 DEF Next, Loop, Replies

(* Both scan loops implement what their callers rely on: during a call     *)
(* devices are listed once each, for a matching advertisement heard in     *)
(* this call, and nothing is listed outside a call.                        *)
THEOREM PromiseHolds == Spec => PromiseKept
<1>1. Init => Promise!Init
  BY DEF Init, Promise!Init
<1> QED BY <1>1, Inductive, StepKeepsPromise, PTL DEF Spec, PromiseKept, Promise!Spec
=============================================================================
