------------------------------ MODULE AttrTable ------------------------------
(***************************************************************************)
(* trouble-host, attribute.rs: the attribute table, its builders and its   *)
(* values.  A table is a sequence of attributes and a handle the index in  *)
(* it.  A UUID is the sequence of its bytes, two or sixteen; a value is    *)
(* its length.                                                             *)
(***************************************************************************)
EXTENDS Integers, Sequences

CONSTANT TableSize     \* MAX, the attributes a table has room for

PrimaryService == <<0, 40>>   SecondaryService == <<1, 40>>   Include == <<2, 40>>
Declaration    == <<3, 40>>   Configuration    == <<2, 41>>

Levels == {"Allowed", "EncryptionRequired", "AuthenticationRequired", "NotAllowed"}

ReadOnly == [read |-> "Allowed", write |-> "NotAllowed"]

(***************************************************************************)
(* An attribute: cap is the room of its value, vary whether a write sets   *)
(* the length, of the service an include is about, last the end of the     *)
(* group of a service, as the service or an include of it knows it.        *)
(***************************************************************************)
Attribute(kind, type, len, perm) ==
    [kind |-> kind, type |-> type, len |-> len, cap |-> 0, vary |-> FALSE, perm |-> perm,
     of |-> 0, last |-> 0]

Stored(type, len, cap, vary, perm) ==
    [Attribute("data", type, len, perm) EXCEPT !.cap = cap, !.vary = vary]

(* Data and SmallData: a value of fixed size, and one of at most cap bytes *)
SmallRoom == 8

Capacity(len) == IF len <= SmallRoom THEN SmallRoom ELSE len

(***************************************************************************)
(* The properties of a characteristic                                      *)
(***************************************************************************)
Bit(byte, b) == (byte \div b) % 2 = 1

HasCccd(props) == Bit(props, 16) \/ Bit(props, 32)

DefaultPermissions(props) ==
    [read  |-> IF Bit(props, 2) THEN "Allowed" ELSE "NotAllowed",
     write |-> IF Bit(props, 4) \/ Bit(props, 8) \/ Bit(props, 64) THEN "Allowed" ELSE "NotAllowed"]

(***************************************************************************)
(* The builders                                                            *)
(***************************************************************************)
AddService(table, primary, uuid) ==
    Append(table, Attribute("service", IF primary THEN PrimaryService ELSE SecondaryService,
                            Len(uuid), ReadOnly))

Cccd == Attribute("cccd", Configuration, 2, [read |-> "Allowed", write |-> "Allowed"])

AddCharacteristic(table, props, value) ==
    table \o <<Attribute("declaration", Declaration, 3 + Len(value.type), ReadOnly), value>>
          \o (IF HasCccd(props) THEN <<Cccd>> ELSE <<>>)

AddReadOnly(table, uuid, len) ==
    AddCharacteristic(table, 2, Attribute("readonly", uuid, len, DefaultPermissions(2)))

(* read_permission and write_permission of the value at handle h           *)
SetPermissions(table, h, read, write) ==
    [table EXCEPT ![h].perm = [read  |-> IF read \in Levels THEN read ELSE @.read,
                               write |-> IF write \in Levels THEN write ELSE @.write]]

(* A descriptor comes after what its characteristic has so far.            *)
AddDescriptor(table, value) == Append(table, value)

Includable(table, h) == h \in DOMAIN table /\ table[h].kind = "service"

(* Only a service of a 16-bit UUID is included with its UUID               *)
AddIncluded(table, h) ==
    Append(table, [Attribute("include", Include, IF table[h].len = 2 THEN 6 ELSE 4, ReadOnly)
                      EXCEPT !.of = h, !.last = table[h].last])

(* ServiceBuilder::drop                                                    *)
Closed(table, h) == [table EXCEPT ![h].last = Len(table)]

(***************************************************************************)
(* Values                                                                  *)
(***************************************************************************)
Readable(table, h) == h \in DOMAIN table

Writable(table, h, n) ==
    /\ h \in DOMAIN table
    /\ \/ table[h].kind = "data" /\ n <= table[h].cap
       \/ table[h].kind = "cccd" /\ n > 0

Write(table, h, n) ==
    IF table[h].kind = "data" /\ table[h].vary THEN [table EXCEPT ![h].len = n] ELSE table
=============================================================================
