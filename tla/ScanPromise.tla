----------------------------- MODULE ScanPromise -----------------------------
(***************************************************************************)
(* What a caller of discover or find relies on, without loops or timers:   *)
(* between the call and its return, devices are listed one by one, each    *)
(* once, each for an advertisement heard during this call that passes the  *)
(* filter, and nothing changes after the return.                           *)
(***************************************************************************)
CONSTANTS Advert, Matching

VARIABLES calling, heard, listed
vars == <<calling, heard, listed>>

Init == calling = FALSE /\ heard = {} /\ listed = {}

Begin == ~calling /\ calling' = TRUE /\ heard' = {} /\ listed' = {}

Hear == calling /\ (\E a \in Advert : heard' = heard \cup {a}) /\ UNCHANGED <<calling, listed>>

Lists(a) ==
    /\ a \in heard \cap Matching
    /\ \A b \in listed : b.id # a.id
    /\ listed' = listed \cup {a}

(* Listing a device may be the last thing a call does, returning is        *)
(* possible without.                                                       *)
List   == calling /\ (\E a \in Advert : Lists(a)) /\ calling' \in BOOLEAN /\ UNCHANGED heard
Return == calling /\ calling' = FALSE /\ UNCHANGED <<heard, listed>>

Next == Begin \/ Hear \/ List \/ Return
Spec == Init /\ [][Next]_vars
=============================================================================
