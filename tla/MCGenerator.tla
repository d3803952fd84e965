----------------------------- MODULE MCGenerator -----------------------------
(* An instance of Generator for TLC: a small template.yaml with a case of  *)
(* each kind its options have, and the files that can be made of a few     *)
(* directives.                                                             *)
EXTENDS Generator

Opt(name, group, requires, cat) ==
    [name |-> name, group |-> group, requires |-> requires, chips |-> {}, cat |-> cat]
Needs(key)  == [key |-> key, on |-> TRUE]
Bars(key) == [key |-> key, on |-> FALSE]

\* Radio is for one chip only; either BLE library needs it, one needs embassy too; log and
\* defmt exclude each other, log is barred by probe-rs, and a test needs one of the two.
MCTemplate == <<
    Opt("", "module", {}, "module"),
    [name |-> "radio", group |-> "", requires |-> {}, chips |-> {"c6"}, cat |-> "top"],
    Opt("bleps", "ble-lib", {Needs("radio")}, "top"),
    Opt("trouble", "ble-lib", {Needs("radio"), Needs("embassy")}, "top"),
    Opt("", "toolchain", {}, "toolchain"),
    Opt("embassy", "", {}, "top"),
    Opt("probe-rs", "", {}, "top"),
    Opt("defmt", "log-frontend", {}, "probe"),
    Opt("log", "log-frontend", {Bars("probe-rs")}, "flash"),
    Opt("defmt", "log-frontend", {}, "flash"),
    Opt("test", "", {Needs("log-frontend")}, "flash") >>

MCCatRequires == [c \in {"module", "toolchain", "probe", "flash"} |->
                    CASE c = "probe" -> {Needs("probe-rs")}
                      [] c = "flash" -> {Bars("probe-rs")}
                      [] OTHER -> {}]
MCModules == [c \in {"c6", "s3"} |-> IF c = "c6" THEN <<"mini">> ELSE <<"wroom", "wroom-2">>]
MCToolLists == {<< >>, <<"esp">>, <<"stable">>, <<"esp", "stable">>, <<"stable", "esp">>}

Once(names)  == [n \in names |-> 1]
MCCommandLines == {Once({}), Once({"log", "test"}), Once({"trouble"}),
                   Once({"defmt", "unknown"}), [n \in {"embassy"} |-> 2],
                   Once({"defmt", "log"}), Once({"log", "probe-rs"})}

\* Blocks with every kind of branch, nested in a branch that is written and in one that is
\* not; and every well-formed body with text of at most three lines.
Lines == {If("defmt", TRUE), If("embassy", FALSE), ElIf("probe-rs", TRUE), Else, EndIf, Text,
          Replace}
Short == UNION {{b \in [1 .. n -> Lines] : WellFormed(b) /\ Text \in Range(b)} : n \in 1 .. 3}
Bodies == {<<If("defmt", TRUE), Text, ElIf("probe-rs", TRUE), Text, ElIf("embassy", FALSE), Text,
             Else, Text, EndIf, Text>>,
           <<If("defmt", TRUE), If("embassy", FALSE), Text, Else, Text, EndIf, Text, Else,
             If("probe-rs", TRUE), Text, Else, Text, EndIf, EndIf>>,
           <<Text, If("toolchain-selected", TRUE), Replace, Text, EndIf,
             If("module-selected", TRUE), Replace, Text, EndIf, Text>>,
           <<If("embassy", TRUE), Text, ElIf("log-frontend", TRUE), If("log", TRUE), Text,
             ElIf("defmt", TRUE), Text, Else, Text, EndIf, Text, EndIf>>}
MCFiles == {[head |-> If("", FALSE), lines |-> b] : b \in Bodies \cup Short}
    \cup {[head |-> If("embassy", b), lines |-> <<Text>>] : b \in BOOLEAN}
=============================================================================
