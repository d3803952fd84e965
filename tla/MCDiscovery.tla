------------------------------ MODULE MCDiscovery ------------------------------
(* Instances of Discovery for TLC: what is on the air, and the filters. *)
EXTENDS Discovery

Development == 65535     \* DEVELOPMENT_COMPANY_ID

\* Manufacturer data: the product's, a payload of the wrong length, another product's.
Ours   == [company |-> Development, len |-> 7, product |-> "espcx"]
Short  == [company |-> Development, len |-> 3, product |-> "espcx"]
Theirs == [company |-> Development, len |-> 7, product |-> "other"]

WellFormed == {d \in {Ours, Short, Theirs} : d.company = Development /\ d.len = 7}
Product    == {d \in WellFormed : d.product = "espcx"}

Ad(i, n, d, c, r) == [id |-> i, name |-> n, data |-> d, connectable |-> c, rssi |-> r]

\* Two devices of the product that tie, one of them heard again louder or without a name
\* and data; one that cannot be connected to, also without a name; strangers with our name.
Air == {
    Ad(1, "hello", {Ours}, TRUE, -60), Ad(1, "hello", {Ours}, TRUE, -40), Ad(1, "none", {}, TRUE, -60),
    Ad(2, "hello", {Ours}, TRUE, -60), Ad(2, "other", {Ours}, TRUE, -60),
    Ad(3, "none", {Ours}, FALSE, MissingRssi), Ad(4, "hello", {Ours}, FALSE, -50),
    Ad(5, "hello", {Short}, TRUE, -40), Ad(6, "hello", {Theirs}, TRUE, -40)}

\* The filter of build_product_scan_filter, with address patterns and an interval added.
ProductFilter == [names |-> {{"hello"}}, addrs |-> {{1, 3}}, companies |-> {Development},
                  dataPredicates |-> {Product}, predicates |-> {}, interval |-> 2]

\* The selector of build_product_selector, with the other preferences and a hard filter after it.
ProductPreferences == <<[kind |-> "connectable"], [kind |-> "signal"],
                        [kind |-> "manufacturer", accepts |-> {Ours}],
                        [kind |-> "name", name |-> "hello"], [kind |-> "id", id |-> 7]>>
HardFilters == {{a \in Air : a.id # 3}}
=============================================================================
