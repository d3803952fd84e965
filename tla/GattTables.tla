------------------------------ MODULE GattTables ------------------------------
(***************************************************************************)
(* trouble-host: the attributes AttributeTable's builders push             *)
(* (attribute.rs), from a layout: services, each with characteristics,     *)
(* each with descriptors.  A service's group ends where the next begins.   *)
(***************************************************************************)
EXTENDS Integers, Sequences
LOCAL INSTANCE SequencesExt
LOCAL INSTANCE FiniteSetsExt

Attr(k, u, b, n) == [kind |-> k, uuid |-> u, notify |-> b, last |-> 0, len |-> n]

(* add_characteristic_internal and the descriptors added to it             *)
CharacteristicAttrs(c) ==
    <<Attr("declaration", c.uuid, c.notify, 0), Attr("value", c.uuid, c.notify, c.len)>>
    \o (IF c.notify THEN <<Attr("cccd", c.uuid, FALSE, 2)>> ELSE <<>>)
    \o [i \in DOMAIN c.descriptors |-> Attr("descriptor", c.descriptors[i], FALSE, 1)]

ServiceAttrs(s) ==
    <<Attr("service", s.uuid, FALSE, 0)>>
    \o FlattenSeq([i \in DOMAIN s.chars |-> CharacteristicAttrs(s.chars[i])])

(* last_handle_in_group is set as the builder of the service is dropped    *)
Built(layout) ==
    LET parts == [i \in DOMAIN layout |-> ServiceAttrs(layout[i])]
        all   == FlattenSeq(parts)
        next(h) == {j \in h + 1 .. Len(all) : all[j].kind = "service"}
    IN [h \in DOMAIN all |->
          IF all[h].kind = "service"
          THEN [all[h] EXCEPT !.last = IF next(h) = {} THEN Len(all) ELSE Min(next(h)) - 1]
          ELSE all[h]]
=============================================================================
