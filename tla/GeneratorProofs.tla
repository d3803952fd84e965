--------------------------- MODULE GeneratorProofs ---------------------------
(***************************************************************************)
(* What TLAPS proves of Generator, for every template, command line and    *)
(* list of toolchains that its assumptions allow.                          *)
(***************************************************************************)
EXTENDS Generator, FiniteSetTheorems, WellFoundedInduction, TLAPS

-----------------------------------------------------------------------------
(* The inductive invariant. *)

Phases == {"args", "tui", "invalid", "generate", "quit", "panicked", "done"}

Fixed ==
    /\ chip \in Chips /\ headless \in BOOLEAN /\ cli \in CommandLines
    /\ cliTool \in ToolNames \cup {NoTool}
    /\ phase \in Phases
    /\ drawn \in BOOLEAN /\ loading \in BOOLEAN /\ populated \in BOOLEAN
    /\ scan \in [st : {"none", "running", "ok", "err"}, list : ToolLists \cup {<< >>}]

(* The table and the tree are as main made them, or have the toolchains.   *)
Fresh == flat = Base(chip) /\ menu = Base(chip)
Grown == /\ populated /\ scan.list # << >>
         /\ flat = Base(chip) \o Pushed(Base(chip), scan.list)
         /\ menu = Rewrite(Base(chip), "toolchain", scan.list)
Tables == /\ template = menu
          /\ Fresh \/ Grown
          /\ populated /\ scan.list # << >> => Grown

(* The menu of toolchains is open only once the scan has been looked at;   *)
(* before that, and when it has found toolchains, the placeholder is not   *)
(* selected.                                                               *)
Scanning == /\ populated => scan.st # "running"
            /\ ~populated /\ scan.list # << >> => scan.st = "ok"
            /\ drawn /\ ~loading => populated
            /\ ~populated \/ scan.list # << >> =>
                 \A s \in Selected : s <= Len(Base(chip)) => Base(chip)[s].cat # "toolchain"

Selection == /\ selected \in [1 .. Len(flat) -> Nat]
             /\ \A s \in Selected : s = First(flat, flat[s].name)
             /\ Consistent(flat, Selected)

(* What generation starts from. *)
Generable ==
    \A n \in chosen :
       /\ Positions(template, n) # {}
       /\ Found(n).group = "toolchain" /\ scan.list # << >> => n \in Range(scan.list)

IInv ==
    /\ Fixed
    /\ phase = "args" => ~drawn /\ ~loading /\ ~populated /\ scan.list = << >>
    /\ phase = "tui" => Tables /\ Scanning /\ Selection /\ ~headless
    /\ phase = "generate" /\ ~headless => Generable
    /\ SavedIsGenerated

-----------------------------------------------------------------------------
(* Tables. *)

(* Two sequences, one after the other.                                     *)
LEMMA Concatenated ==
    ASSUME NEW S, NEW a \in Seq(S), NEW b \in Seq(S)
    PROVE  /\ a \o b \in Seq(S) /\ Len(a \o b) = Len(a) + Len(b)
           /\ Len(a) \in Nat /\ Len(b) \in Nat
           /\ \A q \in 1 .. Len(a) : (a \o b)[q] = a[q]
           /\ \A q \in Len(a) + 1 .. Len(a) + Len(b) : (a \o b)[q] = b[q - Len(a)]
OBVIOUS

(* A name that occurs in a table has a first position.                     *)
LEMMA FirstOf ==
    ASSUME NEW t, Len(t) \in Nat, NEW n, Positions(t, n) # {}
    PROVE  /\ First(t, n) \in Positions(t, n)
           /\ \A j \in Positions(t, n) : First(t, n) <= j
<1> DEFINE R == OpToRel(<, Nat)
           S == Positions(t, n)
<1>0. S \subseteq Nat /\ S # {} BY DEF Positions
<1>1. PICK x \in S : \A y \in S : ~ (<<y, x>> \in R)
  <2>1. IsWellFoundedOn(R, Nat) BY NatLessThanWellFounded
  <2> HIDE DEF R, S
  <2> QED BY <1>0, <2>1, WFMin, Zenon
<1>2. \A y \in S : ~ (y < x) BY <1>0, <1>1 DEF OpToRel
<1>3. \A y \in S : x <= y BY <1>0, <1>2
<1> QED BY <1>3 DEF First

(* The first position of a name is the first position of its own name.     *)
LEMMA FirstIsFirst ==
    ASSUME NEW t, Len(t) \in Nat, NEW n, Positions(t, n) # {}
    PROVE  /\ First(t, n) \in 1 .. Len(t) /\ t[First(t, n)].name = n
           /\ First(t, n) = First(t, t[First(t, n)].name)
BY FirstOf DEF Positions

(* What is pushed on a table for the toolchains found.                     *)
LEMMA PushedIs ==
    ASSUME NEW c \in Chips, NEW l \in ToolLists
    PROVE  LET u == Pushed(Base(c), l)
           IN /\ u \in Seq(Option)
              /\ \A k \in 1 .. Len(u) : /\ k \in 1 .. Len(l)
                                        /\ u[k].name = l[k] /\ u[k].group = "toolchain"
<1> DEFINE b == Base(c)
<1>1. b \in Seq(Option) /\ l \in Seq(STRING) BY TableAssumption
<1> HIDE DEF b
<1>2. CASE ~ \E p \in 1 .. Len(b) : b[p].cat = "toolchain"
  <2>1. Pushed(b, l) = << >> BY <1>2 DEF Pushed
  <2> QED BY <2>1 DEF b
<1>3. CASE \E p \in 1 .. Len(b) : b[p].cat = "toolchain"
  <2> DEFINE p == CHOOSE q \in 1 .. Len(b) : b[q].cat = "toolchain"
  <2>1. p \in 1 .. Len(b) BY <1>3
  <2>2. Pushed(b, l) = Copies(b[p], l, "toolchain") BY <1>3 DEF Pushed
  <2> HIDE DEF p
  <2>3. b[p] \in Option BY <1>1, <2>1
  <2>4. Len(l) \in Nat /\ \A k \in 1 .. Len(l) : l[k] \in STRING BY <1>1
  <2>5. \A k \in 1 .. Len(l) : Instantiate(b[p], l[k], "toolchain") \in Option
    <3>1. /\ b[p].requires \in SUBSET Requirements /\ b[p].chips \in SUBSET Chips
          /\ b[p].cat \in Cats \cup {Top}
      BY <2>3 DEF Option
    <3>2. "toolchain" \in Groups BY Zenon DEF Groups
    <3> HIDE DEF b
    <3>3. SUFFICES ASSUME NEW k \in 1 .. Len(l)
                   PROVE  Instantiate(b[p], l[k], "toolchain") \in Option
      OBVIOUS
    <3>4. l[k] \in STRING BY <2>4
    <3> QED BY <3>1, <3>2, <3>4, Zenon DEF Instantiate, Option
  <2> DEFINE u == Copies(b[p], l, "toolchain")
  <2>6. u \in [1 .. Len(l) -> Option] BY <2>5 DEF Copies
  <2>7. u \in Seq(Option) /\ Len(u) = Len(l) BY <2>4, <2>6
  <2>8. \A k \in 1 .. Len(l) : u[k].name = l[k] /\ u[k].group = "toolchain"
    BY DEF Copies, Instantiate
  <2> QED BY <2>2, <2>7, <2>8 DEF b
<1> QED BY <1>2, <1>3

(* A table the interface works with is a sequence of options that is sound. *)
LEMMA TableIsSound ==
    ASSUME NEW c \in Chips, NEW t,
           \/ t = Base(c)
           \/ \E l \in ToolLists : t = Base(c) \o Pushed(Base(c), l)
    PROVE  t \in Seq(Option) /\ SoundTable(t)
<1>1. Base(c) \in Seq(Option) /\ SoundTable(Base(c)) BY TableAssumption
<1>2. CASE t = Base(c) BY <1>1, <1>2
<1>3. ASSUME NEW l \in ToolLists, t = Base(c) \o Pushed(Base(c), l)
      PROVE  t \in Seq(Option) /\ SoundTable(t)
  <2>1. Pushed(Base(c), l) \in Seq(Option) BY PushedIs
  <2> QED BY <1>1, <1>3, <2>1, TableAssumption
<1> QED BY <1>2, <1>3

(* The tree rewritten holds what the tree held but for the placeholder, and *)
(* what is pushed on the table.                                            *)
LEMMA RewriteIs ==
    ASSUME NEW c \in Chips, NEW l \in ToolLists
    PROVE  LET b == Base(c)
               u == Pushed(Base(c), l)
               m == Rewrite(Base(c), "toolchain", l)
           IN /\ Len(m) \in Nat
              /\ \A q \in 1 .. Len(m) : \/ \E j \in 1 .. Len(b) : m[q] = b[j] /\ b[j].cat # "toolchain"
                                        \/ \E k \in 1 .. Len(u) : m[q] = u[k]
              /\ \A j \in 1 .. Len(b) : b[j].cat # "toolchain" => \E q \in 1 .. Len(m) : m[q] = b[j]
              /\ \A k \in 1 .. Len(u) : \E q \in 1 .. Len(m) : m[q] = u[k]
<1> DEFINE b == Base(c)
           u == Pushed(Base(c), l)
           m == Rewrite(Base(c), "toolchain", l)
<1>1. b \in Seq(Option) /\ l \in Seq(STRING) /\ u \in Seq(Option) BY TableAssumption, PushedIs
<1>2. \A i, j \in 1 .. Len(b) : b[i].cat = "toolchain" /\ b[j].cat = "toolchain" => i = j
  BY PlaceholderAssumption
<1>3. CASE ~ \E p \in 1 .. Len(b) : b[p].cat = "toolchain"
  <2>1. u = << >> /\ m = b BY <1>3 DEF Pushed, Rewrite
  <2> HIDE DEF b, u, m
  <2>2. Len(u) = 0 /\ Len(m) \in Nat BY <1>1, <2>1
  <2> QED BY <1>1, <1>3, <2>1, <2>2 DEF b, u, m
<1>4. CASE \E p \in 1 .. Len(b) : b[p].cat = "toolchain"
  <2> DEFINE p == CHOOSE q \in 1 .. Len(b) : b[q].cat = "toolchain"
             x == SubSeq(b, 1, p - 1)
             y == SubSeq(b, p + 1, Len(b))
  <2>1. p \in 1 .. Len(b) /\ b[p].cat = "toolchain" BY <1>4
  <2>2. u = Copies(b[p], l, "toolchain") BY <1>4 DEF Pushed
  <2>3. m = x \o u \o y BY <1>4, <2>2 DEF Rewrite
  <2> HIDE DEF p, b, u, m
  <2>4. x \in Seq(Option) /\ Len(x) = p - 1 /\ \A j \in 1 .. p - 1 : x[j] = b[j]
    BY <1>1, <2>1
  <2>5. y \in Seq(Option) /\ Len(y) = Len(b) - p /\ \A j \in 1 .. Len(b) - p : y[j] = b[j + p]
    BY <1>1, <2>1
  <2> HIDE DEF x, y
  <2>6. Len(x) \in Nat /\ Len(u) \in Nat /\ Len(y) \in Nat /\ Len(b) \in Nat BY <1>1, <2>4, <2>5
  <2> DEFINE z == x \o u
  <2>z. /\ z \in Seq(Option) /\ Len(z) = Len(x) + Len(u)
        /\ \A q \in 1 .. Len(x) : z[q] = x[q]
        /\ \A q \in Len(x) + 1 .. Len(x) + Len(u) : z[q] = u[q - Len(x)]
    BY <1>1, <2>4, Concatenated
  <2>m. m = z \o y BY <2>3
  <2> HIDE DEF z
  <2>c. /\ Len(m) = Len(z) + Len(y)
        /\ \A q \in 1 .. Len(z) : m[q] = z[q]
        /\ \A q \in Len(z) + 1 .. Len(z) + Len(y) : m[q] = y[q - Len(z)]
    <3>1. z \in Seq(Option) /\ y \in Seq(Option) BY <2>z, <2>5
    <3> QED BY ONLY <2>m, <3>1, Concatenated
  <2>7. Len(m) = Len(x) + Len(u) + Len(y) BY <2>c, <2>z
  <2>8. /\ \A q \in 1 .. Len(x) : m[q] = x[q]
        /\ \A q \in Len(x) + 1 .. Len(x) + Len(u) : m[q] = u[q - Len(x)]
        /\ \A q \in Len(x) + Len(u) + 1 .. Len(m) : m[q] = y[q - (Len(x) + Len(u))]
    BY <2>c, <2>z, <2>6
  <2>9. Len(m) \in Nat BY <2>6, <2>7
  <2>10. \A q \in 1 .. Len(m) : \/ \E j \in 1 .. Len(b) : m[q] = b[j] /\ b[j].cat # "toolchain"
                                \/ \E k \in 1 .. Len(u) : m[q] = u[k]
    <3>1. SUFFICES ASSUME NEW q \in 1 .. Len(m)
                   PROVE  \/ \E j \in 1 .. Len(b) : m[q] = b[j] /\ b[j].cat # "toolchain"
                          \/ \E k \in 1 .. Len(u) : m[q] = u[k]
      OBVIOUS
    <3>2. CASE q <= Len(x)
      <4>1. q \in 1 .. Len(b) /\ q # p /\ m[q] = b[q] BY <2>1, <2>4, <2>6, <2>8, <3>2
      <4> QED BY <1>2, <2>1, <4>1
    <3>3. CASE Len(x) < q /\ q <= Len(x) + Len(u)
      <4>1. q - Len(x) \in 1 .. Len(u) /\ m[q] = u[q - Len(x)] BY <2>6, <2>8, <3>3
      <4> QED BY <4>1
    <3>4. CASE Len(x) + Len(u) < q
      <4> DEFINE j == q - (Len(x) + Len(u))
      <4>1. j \in 1 .. Len(b) - p /\ m[q] = y[j] BY <2>5, <2>6, <2>7, <2>8, <3>4
      <4> HIDE DEF j
      <4>2. m[q] = b[j + p] BY <2>5, <4>1
      <4>3. j + p \in 1 .. Len(b) /\ j + p # p BY <2>1, <2>6, <4>1
      <4> QED BY <1>2, <2>1, <4>2, <4>3
    <3> QED BY <2>6, <3>2, <3>3, <3>4
  <2>11. \A j \in 1 .. Len(b) : b[j].cat # "toolchain" => \E q \in 1 .. Len(m) : m[q] = b[j]
    <3>1. SUFFICES ASSUME NEW j \in 1 .. Len(b), b[j].cat # "toolchain"
                   PROVE  \E q \in 1 .. Len(m) : m[q] = b[j]
      OBVIOUS
    <3>2. CASE j < p
      <4>1. j \in 1 .. Len(m) /\ m[j] = b[j] BY <2>1, <2>4, <2>5, <2>6, <2>7, <2>8, <3>2
      <4> QED BY <4>1
    <3>3. CASE p < j
      <4> DEFINE q == j - p + Len(x) + Len(u)
      <4>1. q \in 1 .. Len(m) /\ q > Len(x) + Len(u) /\ q - (Len(x) + Len(u)) = j - p
        BY <2>1, <2>5, <2>6, <2>7, <3>3
      <4> HIDE DEF q
      <4>2. m[q] = y[j - p]
        <5>1. q \in Len(x) + Len(u) + 1 .. Len(m) BY <2>6, <2>9, <4>1
        <5> QED BY <2>8, <4>1, <5>1
      <4>3. j - p \in 1 .. Len(b) - p /\ (j - p) + p = j BY <2>1, <2>6, <3>3
      <4>4. m[q] = b[j] BY <2>5, <4>2, <4>3
      <4> QED BY <4>1, <4>4
    <3> QED BY <2>1, <3>1, <3>2, <3>3
  <2>12. \A k \in 1 .. Len(u) : \E q \in 1 .. Len(m) : m[q] = u[k]
    <3>1. SUFFICES ASSUME NEW k \in 1 .. Len(u) PROVE \E q \in 1 .. Len(m) : m[q] = u[k]
      OBVIOUS
    <3> DEFINE q == k + Len(x)
    <3>2. q \in 1 .. Len(m) /\ q > Len(x) /\ q <= Len(x) + Len(u) /\ q - Len(x) = k
      BY <2>6, <2>7
    <3>3. m[q] = u[k] BY <2>6, <2>8, <3>2
    <3> QED BY <3>2, <3>3
  <2> QED BY <2>9, <2>10, <2>11, <2>12 DEF b, u, m
<1> QED BY <1>3, <1>4

-----------------------------------------------------------------------------
(* Selections. *)

LEMMA RequirementIs ==
    ASSUME NEW t \in Seq(Option), NEW i \in 1 .. Len(t), NEW r \in t[i].requires
    PROVE  r.on \in BOOLEAN /\ r = [key |-> r.key, on |-> r.on]
<1>1. t[i] \in Option OBVIOUS
<1>2. r \in Requirements BY <1>1 DEF Option
<1> QED BY <1>2 DEF Requirements

(* What a requirement of an option of the table means to the code.         *)
LEMMA MetIs ==
    ASSUME NEW t \in Seq(Option), SoundTable(t), NEW sel \in SUBSET (1 .. Len(t)),
           NEW i \in 1 .. Len(t), NEW r \in t[i].requires, RequirementMet(t, sel, r)
    PROVE  Holds(t, sel, r)
<1>1. r.on \in BOOLEAN BY RequirementIs
<1>2. CASE r.on
  <2>1. IsSelected(t, sel, r.key) \/ IsGroupSelected(t, sel, r.key)
    BY <1>2, <1>1, Zenon DEF RequirementMet
  <2> QED BY <2>1, <1>2 DEF Holds, IsSelected, IsGroupSelected
<1>3. CASE ~r.on
  <2>1. ~GroupExists(t, r.key) BY <1>3 DEF SoundTable
  <2>2. ~IsSelected(t, sel, r.key)
    BY <2>1, <1>3, <1>1, Zenon DEF RequirementMet
  <2>3. \A x \in sel : t[x].group # r.key BY <2>1 DEF GroupExists
  <2>4. \A x \in sel : t[x].name # r.key BY <2>2 DEF IsSelected
  <2> QED BY <2>3, <2>4, <1>3 DEF Holds
<1> QED BY <1>2, <1>3

(* Selecting an option that is active, in place of those of its group that *)
(* nothing requires, keeps a selection consistent.                         *)
LEMMA SelectKeeps ==
    ASSUME NEW t \in Seq(Option), SoundTable(t), NEW sel \in SUBSET (1 .. Len(t)),
           Consistent(t, sel), NEW i \in 1 .. Len(t),
           IsOptionActive(t, sel, t[i]), CanDeselectGroup(t, sel, t[i].group)
    PROVE  Consistent(t, (sel \ OfGroup(t, sel, t[i].group)) \cup {i})
<1> DEFINE out == OfGroup(t, sel, t[i].group)
           now == (sel \ out) \cup {i}
<1>1. /\ \A x \in out : x \in sel /\ t[x].group = t[i].group /\ t[i].group # NoName
      /\ \A x \in sel \ out : t[x].group = t[i].group => t[i].group = NoName
  BY DEF OfGroup
<1>2. \A x \in out : \A s \in sel : \A r \in t[s].requires : r.on => r.key # t[x].name
  BY <1>1 DEF CanDeselectGroup, CanBeDisabled
<1>3. \A s, u \in now : t[s].group # NoName /\ t[s].group = t[u].group => s = u
  BY <1>1 DEF Consistent
<1>4. ASSUME NEW s \in now, NEW r \in t[s].requires PROVE Holds(t, now, r)
  <2>1. s \in 1 .. Len(t) /\ r.on \in BOOLEAN /\ r = [key |-> r.key, on |-> r.on]
    BY RequirementIs
  <2>2. Holds(t, sel, r)
    <3>1. CASE s \in sel BY <3>1 DEF Consistent
    <3>2. CASE s = i
      <4>1. RequirementMet(t, sel, r) BY <3>2 DEF IsOptionActive, RequirementsMet
      <4> QED BY <4>1, <2>1, MetIs
    <3> QED BY <3>1, <3>2
  <2>3. CASE r.on
    <3>1. PICK x \in sel : t[x].name = r.key \/ t[x].group = r.key
      BY <2>2, <2>3 DEF Holds
    <3>2. \E y \in now : t[y].name = r.key \/ t[y].group = r.key
      <4>1. CASE x \notin out BY <3>1, <4>1
      <4>2. CASE x \in out
        <5>1. t[x].name # r.key
          <6>1. CASE s \in sel BY <6>1, <4>2, <1>2, <2>3
          <6>2. CASE s = i
            <7>1. t[x].name = r.key /\ t[x].group = t[i].group => t[i].group = NoName
              BY <6>2, <2>3 DEF SoundTable
            <7> QED BY <7>1, <1>1, <4>2
          <6> QED BY <6>1, <6>2
        <5>2. t[i].group = r.key BY <5>1, <3>1, <1>1, <4>2
        <5> QED BY <5>2
      <4> QED BY <4>1, <4>2
    <3> HIDE DEF now
    <3> QED BY <3>2, <2>3 DEF Holds
  <2>4. CASE ~r.on
    <3>1. \A x \in sel : t[x].name # r.key /\ t[x].group # r.key
      BY <2>2, <2>4 DEF Holds
    <3>2. r.key # t[s].name /\ ~GroupExists(t, r.key) BY <2>1, <2>4 DEF SoundTable
    <3>3. t[i].group # r.key BY <3>2 DEF GroupExists
    <3>4. t[i].name # r.key
      <4>1. CASE s = i BY <4>1, <3>2
      <4>2. CASE s \in sel
        <5>1. [key |-> t[i].name, on |-> FALSE] \notin t[s].requires
          BY <4>2 DEF IsOptionActive
        <5>2. r = [key |-> r.key, on |-> FALSE] BY <2>1, <2>4
        <5> QED BY <5>1, <5>2
      <4> QED BY <4>1, <4>2
    <3>5. \A x \in now : t[x].name # r.key /\ t[x].group # r.key BY <3>1, <3>3, <3>4
    <3> HIDE DEF now
    <3> QED BY <3>5, <2>4 DEF Holds
  <2> QED BY <2>1, <2>3, <2>4
<1> HIDE DEF now
<1>5. Consistent(t, now) BY <1>3, <1>4 DEF Consistent
<1> QED BY <1>5 DEF now, out

(* Deselecting an option that nothing requires keeps it consistent.        *)
LEMMA DeselectKeeps ==
    ASSUME NEW t \in Seq(Option), NEW sel \in SUBSET (1 .. Len(t)), Consistent(t, sel),
           NEW i \in sel, CanBeDisabled(t, sel, i, FALSE)
    PROVE  Consistent(t, sel \ {i})
<1>1. ASSUME NEW s \in sel \ {i}, NEW r \in t[s].requires PROVE Holds(t, sel \ {i}, r)
  <2>1. r.on \in BOOLEAN BY RequirementIs
  <2>2. Holds(t, sel, r) BY DEF Consistent
  <2>3. r.on => r.key # t[i].name /\ r.key # t[i].group BY DEF CanBeDisabled
  <2> QED BY <2>1, <2>2, <2>3 DEF Holds
<1> QED BY <1>1 DEF Consistent

(* A selection that process_options accepts is consistent.                 *)
LEMMA CheckedIsConsistent ==
    ASSUME NEW t \in Seq(Option), SoundTable(t), NEW sel \in SUBSET (1 .. Len(t)),
           \A i \in 1 .. Len(t) : Compatible(t[i], chip),
           \A s \in sel : s = First(t, t[s].name),
           ProcessOptions(t, sel)
    PROVE  Consistent(t, sel)
<1>1. sel \subseteq Named(t, sel) BY DEF Named, IsSelected
<1>2. ASSUME NEW s \in sel, NEW r \in t[s].requires PROVE Holds(t, sel, r)
  <2>1. IsOptionActive(t, sel, t[s]) BY <1>1 DEF ProcessOptions
  <2>2. RequirementMet(t, sel, r) BY <2>1 DEF IsOptionActive, RequirementsMet
  <2> QED BY <2>2, MetIs
<1>3. \A s, u \in sel : t[s].group # NoName /\ t[s].group = t[u].group => s = u
  <2>1. SUFFICES ASSUME NEW s \in sel, NEW u \in sel, t[s].group # NoName,
                        t[s].group = t[u].group
                 PROVE  s = u
    OBVIOUS
  <2>2. t[s].name = t[u].name BY <1>1, <2>1 DEF ProcessOptions
  <2> QED BY <2>2
<1> QED BY <1>2, <1>3 DEF Consistent

(* Options that a table gains at its end change nothing.                   *)
LEMMA GrowKeeps ==
    ASSUME NEW b \in Seq(Option), NEW u \in Seq(Option), NEW sel \in SUBSET (1 .. Len(b)),
           Consistent(b, sel)
    PROVE  Consistent(b \o u, sel)
<1>1. \A s \in sel : (b \o u)[s] = b[s] BY Concatenated
<1>2. ASSUME NEW s \in sel, NEW r \in b[s].requires PROVE Holds(b \o u, sel, r)
  <2>1. r.on \in BOOLEAN BY RequirementIs
  <2>2. Holds(b, sel, r) BY DEF Consistent
  <2> QED BY <2>2, <1>1 DEF Holds
<1> QED BY <1>1, <1>2 DEF Consistent

-----------------------------------------------------------------------------
(* The interface's tables. *)

LEMMA BaseIs ==
    ASSUME Fixed
    PROVE  /\ Base(chip) \in Seq(Option) /\ Len(Base(chip)) \in Nat
           /\ \A i \in 1 .. Len(Base(chip)) : Compatible(Base(chip)[i], chip)
           /\ scan.list \in ToolLists \cup {<< >>}
BY TableAssumption DEF Fixed

(* Every item of the menu is an option of the table.                       *)
LEMMA InterfaceIs ==
    ASSUME Fixed, Tables
    PROVE  /\ flat \in Seq(Option) /\ Len(flat) \in Nat /\ SoundTable(flat)
           /\ Len(menu) \in Nat
           /\ \A q \in 1 .. Len(menu) : \E i \in 1 .. Len(flat) : flat[i] = menu[q]
<1> DEFINE b == Base(chip)
           u == Pushed(Base(chip), scan.list)
<1>1. chip \in Chips /\ b \in Seq(Option) /\ Len(b) \in Nat BY BaseIs DEF Fixed
<1>2. CASE Fresh
  <2>1. flat = b /\ menu = b BY <1>2 DEF Fresh
  <2>2. SoundTable(b) BY <1>1, TableIsSound
  <2> HIDE DEF b
  <2> QED BY <1>1, <2>1, <2>2
<1>3. CASE Grown
  <2>1. /\ scan.list \in ToolLists /\ flat = b \o u
        /\ menu = Rewrite(b, "toolchain", scan.list)
    BY <1>3, BaseIs DEF Grown
  <2>2. flat \in Seq(Option) /\ SoundTable(flat) BY <1>1, <2>1, TableIsSound
  <2>3. u \in Seq(Option) BY <1>1, <2>1, PushedIs
  <2>4. /\ Len(menu) \in Nat
        /\ \A q \in 1 .. Len(menu) : \/ \E j \in 1 .. Len(b) : menu[q] = b[j]
                                     \/ \E k \in 1 .. Len(u) : menu[q] = u[k]
    BY <1>1, <2>1, RewriteIs
  <2> HIDE DEF b, u
  <2>5. /\ Len(flat) = Len(b) + Len(u) /\ Len(b) \in Nat /\ Len(u) \in Nat
        /\ \A q \in 1 .. Len(b) : flat[q] = b[q]
        /\ \A q \in Len(b) + 1 .. Len(b) + Len(u) : flat[q] = u[q - Len(b)]
    BY ONLY <1>1, <2>1, <2>3, Concatenated
  <2>6. \A k \in 1 .. Len(u) : k + Len(b) \in 1 .. Len(flat) /\ flat[k + Len(b)] = u[k]
    BY <2>5
  <2>7. \A j \in 1 .. Len(b) : j \in 1 .. Len(flat) /\ flat[j] = b[j] BY <2>5
  <2>8. Len(flat) \in Nat BY <2>5
  <2>9. \A q \in 1 .. Len(menu) : \E i \in 1 .. Len(flat) : flat[i] = menu[q]
    <3>1. SUFFICES ASSUME NEW q \in 1 .. Len(menu) PROVE \E i \in 1 .. Len(flat) : flat[i] = menu[q]
      OBVIOUS
    <3>2. CASE \E j \in 1 .. Len(b) : menu[q] = b[j] BY <3>2, <2>7
    <3>3. CASE \E k \in 1 .. Len(u) : menu[q] = u[k] BY <3>3, <2>6
    <3> QED BY <3>1, <3>2, <3>3, <2>4
  <2> QED BY <2>2, <2>4, <2>8, <2>9
<1> QED BY <1>2, <1>3 DEF Tables

-----------------------------------------------------------------------------
(* The steps. *)

LEMMA InitOK == Init => IInv
<1> SUFFICES ASSUME Init PROVE IInv OBVIOUS
<1>1. Fixed BY DEF Init, Fixed, Phases
<1> QED BY <1>1 DEF Init, IInv, SavedIsGenerated

(* What the command line selects, the toolchain it names being of no table. *)
LEMMA StartSelects ==
    ASSUME Fixed
    PROVE  LET b == Base(chip)
               n == FromNames(b, cli)
           IN /\ FromNames(b, InitialSelected) = n
              /\ n \in [1 .. Len(b) -> Nat]
              /\ \A i \in 1 .. Len(b) :
                    n[i] > 0 => i = First(b, b[i].name) /\ b[i].cat # "toolchain"
<1> DEFINE b == Base(chip)
           n == FromNames(b, cli)
<1>1. chip \in Chips /\ cli \in CommandLines /\ cli \in [DOMAIN cli -> Nat]
      /\ cliTool \in ToolNames \cup {NoTool}
  BY CommandAssumption DEF Fixed
<1>2. \A i \in 1 .. Len(b) : b[i].name \notin ToolNames BY <1>1, NamesAssumption
<1>3. \A i \in 1 .. Len(b) : b[i].cat = "toolchain" => b[i].name \notin DOMAIN cli
  BY <1>1, PlaceholderAssumption
<1> HIDE DEF b
<1>4. n \in [1 .. Len(b) -> Nat] BY <1>1 DEF FromNames
<1>5. \A i \in 1 .. Len(b) : n[i] > 0 => i = First(b, b[i].name) /\ b[i].cat # "toolchain"
  BY <1>3 DEF FromNames
<1>6. FromNames(b, InitialSelected) = n
  <2>1. CASE cliTool = NoTool BY <2>1 DEF InitialSelected
  <2>2. CASE cliTool # NoTool
    <3> DEFINE all == [k \in DOMAIN cli \cup {cliTool} |->
            (IF k \in DOMAIN cli THEN cli[k] ELSE 0) + (IF k = cliTool THEN 1 ELSE 0)]
    <3>1. InitialSelected = all BY <2>2 DEF InitialSelected
    <3>2. \A i \in 1 .. Len(b) : b[i].name # cliTool BY <1>1, <1>2, <2>2
    <3>3. \A i \in 1 .. Len(b) :
             /\ b[i].name \in DOMAIN all <=> b[i].name \in DOMAIN cli
             /\ b[i].name \in DOMAIN cli => all[b[i].name] = cli[b[i].name]
      BY <1>1, <3>2
    <3> HIDE DEF all
    <3>4. FromNames(b, all) = FromNames(b, cli) BY <3>3 DEF FromNames
    <3> QED BY <3>1, <3>4
  <2> QED BY <2>1, <2>2
<1> QED BY <1>4, <1>5, <1>6 DEF b

LEMMA StartOK == IInv /\ Start => IInv'
<1> SUFFICES ASSUME IInv, Start PROVE IInv' OBVIOUS
<1> DEFINE b == Base(chip)
           n == FromNames(b, cli)
<1>1. phase = "args" BY DEF Start
<1>2. Fixed /\ ~drawn /\ ~loading /\ ~populated /\ scan.list = << >>
  BY <1>1 DEF IInv
<1>3. /\ flat' = b /\ menu' = b /\ template' = b
      /\ selected' = FromNames(b, InitialSelected)
      /\ phase' \in {"invalid", "generate", "tui"}
      /\ phase' = "tui" => ~headless /\ ProcessOptions(b, {i \in 1 .. Len(b) : n[i] > 0})
      /\ phase' = "generate" => headless
      /\ scan' = scan \/ scan' = [scan EXCEPT !.st = "running"]
      /\ UNCHANGED <<chip, headless, cli, cliTool, drawn, loading, populated>>
  BY DEF Start, argVars
<1>4. /\ selected' = n /\ n \in [1 .. Len(b) -> Nat]
      /\ \A i \in 1 .. Len(b) : n[i] > 0 => i = First(b, b[i].name) /\ b[i].cat # "toolchain"
  BY <1>2, <1>3, StartSelects
<1>5. chip \in Chips /\ b \in Seq(Option) /\ Len(b) \in Nat /\ SoundTable(b)
      /\ \A i \in 1 .. Len(b) : Compatible(b[i], chip)
  BY <1>2, BaseIs, TableIsSound DEF Fixed
<1>6. scan'.list = << >> /\ scan' \in [st : {"none", "running", "ok", "err"}, list : ToolLists \cup {<< >>}]
  BY <1>2, <1>3 DEF Fixed
<1>7. Fixed'
  BY <1>2, <1>3, <1>6 DEF Fixed, Phases
<1>8. ASSUME phase' = "tui" PROVE Tables' /\ Scanning' /\ Selection' /\ ~headless'
  <2>1. Tables' BY <1>2, <1>3 DEF Tables, Fresh
  <2> DEFINE sel == {i \in 1 .. Len(b) : n[i] > 0}
  <2>2. Consistent(b, sel)
    <3>1. ProcessOptions(b, sel) BY <1>3, <1>8
    <3>2. sel \in SUBSET (1 .. Len(b)) /\ \A s \in sel : s = First(b, b[s].name) BY <1>4
    <3> HIDE DEF b, sel
    <3> QED BY ONLY <1>5, <3>1, <3>2, CheckedIsConsistent
  <2> HIDE DEF n, b
  <2>3. Selected' = sel BY <1>3, <1>4 DEF Selected
  <2>4. Scanning' BY <1>2, <1>3, <1>4, <1>6, <2>3 DEF Scanning, b
  <2>5. \A s \in sel : s = First(b, b[s].name) BY <1>4
  <2>6. Selection' BY <1>3, <1>4, <2>2, <2>3, <2>5 DEF Selection
  <2> QED BY <1>3, <1>8, <2>1, <2>4, <2>6
<1> QED BY <1>1, <1>3, <1>7, <1>8 DEF IInv, SavedIsGenerated

(* Until the scan has been looked at the tables are as they were made.     *)
LEMMA ScanOK == IInv /\ (ScanEnds \/ ScanDies) => IInv'
<1> SUFFICES ASSUME IInv, ScanEnds \/ ScanDies PROVE IInv' OBVIOUS
<1>1. /\ phase = "tui" /\ scan.st = "running"
      /\ scan' \in [st : {"none", "running", "ok", "err"}, list : ToolLists \cup {<< >>}]
      /\ scan'.list # << >> => scan'.st = "ok"
      /\ scan'.st # "running"
      /\ UNCHANGED <<argVars, phase, tableVars, selected, at, confirm, drawn, loading,
                     populated, chosen, project>>
  BY DEF ScanEnds, ScanDies
<1>2. Fixed /\ Tables /\ Scanning /\ Selection /\ ~headless /\ ~populated /\ Fresh
  BY <1>1 DEF IInv, Scanning, Tables, Grown
<1>3. Fixed' BY <1>1, <1>2 DEF Fixed, argVars
<1>4. Tables' BY <1>1, <1>2 DEF Tables, Fresh, argVars, tableVars
<1>5. Selected' = Selected BY <1>1 DEF Selected, tableVars
<1>6. Scanning' BY <1>1, <1>2, <1>5 DEF Scanning, argVars, tableVars
<1>7. Selection' BY <1>1, <1>2, <1>5 DEF Selection, tableVars
<1> QED BY <1>1, <1>2, <1>3, <1>4, <1>6, <1>7 DEF IInv, SavedIsGenerated, argVars

(* A table that grows at its end keeps the first position of a name.       *)
LEMMA GrowFirst ==
    ASSUME NEW b \in Seq(Option), NEW u \in Seq(Option), NEW s \in 1 .. Len(b),
           s = First(b, b[s].name)
    PROVE  s = First(b \o u, (b \o u)[s].name)
<1> DEFINE t == b \o u
           name == b[s].name
<1>1. /\ Len(t) = Len(b) + Len(u) /\ Len(b) \in Nat /\ Len(u) \in Nat
      /\ \A q \in 1 .. Len(b) : t[q] = b[q]
  BY Concatenated
<1> HIDE DEF t
<1>2. t[s].name = name /\ s \in Positions(t, name) /\ s \in Positions(b, name)
  BY <1>1 DEF Positions
<1>3. \A j \in Positions(b, name) : s <= j
  <2> HIDE DEF name
  <2> QED BY <1>1, <1>2, FirstOf DEF name
<1>4. /\ First(t, name) \in Positions(t, name)
      /\ First(t, name) <= s
  <2>1. Len(t) \in Nat BY <1>1
  <2> HIDE DEF name
  <2> QED BY <1>2, <2>1, FirstOf
<1> DEFINE f == First(t, name)
<1>5. f \in 1 .. Len(t) /\ t[f].name = name BY <1>4 DEF Positions
<1> HIDE DEF f
<1>6. f \in 1 .. Len(b) /\ b[f].name = name BY <1>1, <1>4, <1>5 DEF f
<1>7. s <= f BY <1>3, <1>6 DEF Positions
<1>8. f = s BY <1>4, <1>6, <1>7 DEF f
<1> QED BY <1>2, <1>8 DEF t, f

(* The turn of the loop that takes the toolchains over.                    *)
LEMMA TakeOver ==
    ASSUME IInv, Frame, scan.st = "ok", ~populated, scan.list # << >>
    PROVE  /\ Tables' /\ Scanning' /\ Selection'
           /\ SelectedNames' = SelectedNames
<1> DEFINE b == Base(chip)
           u == Pushed(Base(chip), scan.list)
<1>1. /\ Fixed /\ Tables /\ Scanning /\ Selection /\ Fresh
      /\ flat = b /\ menu = b /\ template = b
  BY DEF Frame, IInv, Tables, Grown, Fresh
<1>2. /\ flat' = b \o u
      /\ menu' = Rewrite(b, "toolchain", scan.list)
      /\ template' = menu'
      /\ populated' /\ loading' = FALSE /\ UNCHANGED <<scan, chip>>
      /\ selected' = [i \in 1 .. Len(flat') |-> IF i \in DOMAIN selected THEN selected[i] ELSE 0]
  BY <1>1 DEF Frame, PopulateToolchains, argVars
<1>3. b \in Seq(Option) /\ u \in Seq(Option) /\ scan.list \in ToolLists
  BY <1>1, BaseIs, PushedIs DEF Fixed
<1>4. Tables' BY <1>2 DEF Tables, Grown
<1> HIDE DEF b, u
<1>5. /\ Len(b \o u) = Len(b) + Len(u) /\ Len(b) \in Nat /\ Len(u) \in Nat
      /\ \A q \in 1 .. Len(b) : (b \o u)[q] = b[q]
  BY ONLY <1>3, Concatenated
<1>6. selected \in [1 .. Len(b) -> Nat] /\ Selected \in SUBSET (1 .. Len(b))
  BY <1>1 DEF Selection, Selected
<1>7. selected' \in [1 .. Len(flat') -> Nat] /\ Selected' = Selected
  <2>1. 1 .. Len(b) \subseteq 1 .. Len(flat') BY <1>2, <1>5
  <2>2. \A i \in 1 .. Len(b) : selected'[i] = selected[i] BY <1>2, <1>6, <2>1
  <2>3. \A i \in 1 .. Len(flat') : i \notin 1 .. Len(b) => selected'[i] = 0
    BY <1>2, <1>6
  <2> QED BY <1>1, <1>2, <1>6, <2>1, <2>2, <2>3 DEF Selected
<1>8. Scanning' BY <1>1, <1>2, <1>7 DEF Scanning, b
<1>9. \A s \in Selected : s = First(flat', flat'[s].name)
  BY <1>1, <1>2, <1>3, <1>6, GrowFirst DEF Selection
<1>10. Consistent(flat', Selected)
  <2>1. Consistent(b, Selected) BY <1>1 DEF Selection
  <2> QED BY <1>2, <1>3, <1>6, <2>1, GrowKeeps
<1>11. Selection' BY <1>7, <1>9, <1>10 DEF Selection
<1>12. SelectedNames' = SelectedNames
  BY <1>1, <1>2, <1>5, <1>6, <1>7 DEF SelectedNames
<1> QED BY <1>4, <1>8, <1>11, <1>12

LEMMA FrameOK == IInv /\ Frame => IInv'
<1> SUFFICES ASSUME IInv, Frame PROVE IInv' OBVIOUS
<1>1. /\ phase = "tui" /\ drawn' = TRUE /\ loading' = (scan.st = "running")
      /\ populated' = (populated \/ scan.st # "running")
      /\ UNCHANGED <<argVars, phase, at, confirm, scan, chosen, project>>
  BY DEF Frame
<1>2. Fixed /\ Tables /\ Scanning /\ Selection /\ ~headless BY <1>1 DEF IInv
<1>3. Fixed' BY <1>1, <1>2 DEF Fixed, argVars
<1>4. Tables' /\ Scanning' /\ Selection'
  <2>1. CASE scan.st = "ok" /\ ~populated /\ scan.list # << >> BY <2>1, TakeOver
  <2>2. CASE ~(scan.st = "ok" /\ ~populated /\ scan.list # << >>)
    <3>1. UNCHANGED <<flat, menu, template>>
      BY <2>2 DEF Frame, PopulateToolchains, tableVars
    <3>2. selected' = selected
      <4>1. selected \in [1 .. Len(flat) -> Nat] BY <1>2 DEF Selection
      <4> QED BY <3>1, <4>1 DEF Frame
    <3>3. Selected' = Selected BY <3>1, <3>2 DEF Selected
    <3>4. populated \/ scan.st = "running" \/ scan.list = << >>
      BY <1>2, <2>2 DEF Scanning
    <3>5. Tables' BY <1>1, <1>2, <3>1, <3>4 DEF Tables, Fresh, Grown, argVars, Scanning
    <3>6. Scanning' BY <1>1, <1>2, <3>1, <3>3, <3>4 DEF Scanning, argVars
    <3>7. Selection' BY <1>2, <3>1, <3>2, <3>3 DEF Selection
    <3> QED BY <3>5, <3>6, <3>7
  <2> QED BY <2>1, <2>2
<1> QED BY <1>1, <1>2, <1>3, <1>4 DEF IInv, SavedIsGenerated, argVars

(* What a toggle does to the positions selected.                           *)
LEMMA ToggleSelects ==
    ASSUME IInv, NEW i \in 1 .. Len(menu), Toggle(i), selected' # selected
    PROVE  \/ /\ selected' \in [1 .. Len(flat) -> Nat]
              /\ \E s \in Selected : /\ CanBeDisabled(flat, Selected, s, FALSE)
                                     /\ \/ Selected' = Selected \ {s}
                                        \/ Selected' = Selected
           \/ LET k == First(flat, menu[i].name)
              IN /\ selected' \in [1 .. Len(flat) -> Nat]
                 /\ k \in 1 .. Len(flat) /\ flat[k].name = menu[i].name
                 /\ k = First(flat, flat[k].name)
                 /\ IsOptionActive(flat, Selected, flat[k])
                 /\ CanDeselectGroup(flat, Selected, flat[k].group)
                 /\ Selected' = (Selected \ OfGroup(flat, Selected, flat[k].group)) \cup {k}
<1> DEFINE name == menu[i].name
           k == First(flat, name)
<1>1. phase = "tui" /\ UNCHANGED flat BY DEF Toggle, Key, tableVars
<1>2. Fixed /\ Tables /\ Selection BY <1>1 DEF IInv
<1>3. /\ selected \in [1 .. Len(flat) -> Nat]
      /\ \A s \in Selected : s = First(flat, flat[s].name)
      /\ \A s \in 1 .. Len(flat) : s \in Selected <=> selected[s] > 0
      /\ Selected \subseteq 1 .. Len(flat)
  BY <1>2 DEF Selection, Selected
<1>4. k \in 1 .. Len(flat) /\ flat[k].name = name /\ k = First(flat, flat[k].name)
  <2>1. Len(flat) \in Nat /\ \E j \in 1 .. Len(flat) : flat[j] = menu[i] BY <1>2, InterfaceIs
  <2>2. Positions(flat, name) # {} BY <2>1 DEF Positions
  <2> HIDE DEF name
  <2> QED BY <2>1, <2>2, FirstIsFirst
<1>5. \/ /\ CanBeDisabled(flat, Selected, k, FALSE)
         /\ \E s \in Selected : flat[s].name = name /\ selected' = [selected EXCEPT ![s] = @ - 1]
      \/ SelectIdx(k)
  BY DEF Toggle
<1> HIDE DEF name, k
<1>6. CASE /\ CanBeDisabled(flat, Selected, k, FALSE)
           /\ \E s \in Selected : flat[s].name = name /\ selected' = [selected EXCEPT ![s] = @ - 1]
  <2>1. PICK s \in Selected : flat[s].name = name /\ selected' = [selected EXCEPT ![s] = @ - 1]
    BY <1>6
  <2>2. s = k BY <1>3, <2>1 DEF k
  <2>3. s \in 1 .. Len(flat) /\ selected[s] \in Nat /\ selected[s] > 0 BY <1>3
  <2>4. selected' \in [1 .. Len(flat) -> Nat] /\ selected'[s] = selected[s] - 1
        /\ \A j \in 1 .. Len(flat) : j # s => selected'[j] = selected[j]
    BY <1>3, <2>1, <2>3
  <2>5. Selected' = Selected \ {s} \/ Selected' = Selected
    <3>1. Selected' = {j \in 1 .. Len(flat) : selected'[j] > 0} BY <1>1 DEF Selected
    <3>2. CASE selected'[s] > 0
      <4> QED BY <1>3, <2>3, <2>4, <3>1, <3>2 DEF Selected
    <3>3. CASE ~(selected'[s] > 0)
      <4> QED BY <1>3, <2>3, <2>4, <3>1, <3>3 DEF Selected
    <3> QED BY <3>2, <3>3
  <2> QED BY <1>6, <2>2, <2>4, <2>5
<1>7. CASE SelectIdx(k)
  <2> DEFINE out == OfGroup(flat, Selected, flat[k].group)
             kept == [j \in DOMAIN selected |-> IF j \in out THEN 0 ELSE selected[j]]
  <2>1. /\ IsOptionActive(flat, Selected, flat[k])
        /\ CanDeselectGroup(flat, Selected, flat[k].group)
        /\ selected' = [j \in DOMAIN selected |->
                          IF j = k THEN (IF j \in out THEN 0 ELSE selected[j]) + 1
                                   ELSE (IF j \in out THEN 0 ELSE selected[j])]
    BY <1>7 DEF SelectIdx
  <2> HIDE DEF out
  <2>2. selected' \in [1 .. Len(flat) -> Nat] BY <1>3, <2>1
  <2>3. \A j \in 1 .. Len(flat) : selected'[j] > 0 <=> j = k \/ j \in Selected \ out
    BY <1>3, <2>1
  <2>4. Selected' = (Selected \ out) \cup {k} BY <1>1, <1>3, <1>4, <2>3 DEF Selected
  <2> QED BY <1>4, <2>1, <2>2, <2>4 DEF out, k, name
<1> QED BY <1>5, <1>6, <1>7

(* The menu of toolchains does not offer the placeholder once the project  *)
(* could name it.                                                          *)
LEMMA NoPlaceholder ==
    ASSUME IInv, NEW i \in 1 .. Len(menu), Toggle(i), ~populated \/ scan.list # << >>,
           NEW k \in 1 .. Len(flat), flat[k].name = menu[i].name, k <= Len(Base(chip))
    PROVE  Base(chip)[k].cat # "toolchain"
<1> DEFINE b == Base(chip)
           u == Pushed(Base(chip), scan.list)
<1>1. /\ phase = "tui" /\ drawn /\ menu[i].cat = at /\ ~(loading /\ at = "toolchain")
  BY DEF Toggle, Key
<1>2. Fixed /\ Tables /\ Scanning BY <1>1 DEF IInv
<1>3. /\ chip \in Chips /\ b \in Seq(Option) /\ Len(b) \in Nat
      /\ scan.list \in ToolLists \cup {<< >>}
  BY <1>2, BaseIs DEF Fixed
<1>4. \A p, j \in 1 .. Len(b) : b[p].cat = "toolchain" /\ b[j].name = b[p].name => p = j
  BY <1>3, PlaceholderAssumption
<1>5. \A p \in 1 .. Len(b) : b[p].name \notin ToolNames BY <1>3, NamesAssumption
<1> SUFFICES ASSUME b[k].cat = "toolchain" PROVE FALSE OBVIOUS
<1>6. CASE ~populated
  <2>1. at # "toolchain" BY <1>1, <1>2, <1>6 DEF Scanning
  <2>2. flat = b /\ menu = b BY <1>2, <1>6 DEF Tables, Grown, Fresh
  <2> HIDE DEF b
  <2>3. i = k BY <1>4, <2>2
  <2> QED BY <1>1, <2>1, <2>2, <2>3
<1>7. CASE populated /\ scan.list # << >>
  <2>1. /\ scan.list \in ToolLists
        /\ flat = b \o u /\ menu = Rewrite(b, "toolchain", scan.list)
    BY <1>2, <1>3, <1>7 DEF Tables, Grown
  <2>2. /\ u \in Seq(Option)
        /\ \A j \in 1 .. Len(u) : j \in 1 .. Len(scan.list) /\ u[j].name = scan.list[j]
    BY <1>3, <2>1, PushedIs
  <2>3. \/ \E j \in 1 .. Len(b) : menu[i] = b[j] /\ b[j].cat # "toolchain"
        \/ \E j \in 1 .. Len(u) : menu[i] = u[j]
    BY <1>3, <2>1, RewriteIs
  <2> HIDE DEF b, u
  <2>4. k \in 1 .. Len(b) /\ flat[k] = b[k]
    <3>1. k \in 1 .. Len(b) BY <1>3 DEF b
    <3> QED BY ONLY <1>3, <2>1, <2>2, <3>1, Concatenated
  <2>5. CASE \E j \in 1 .. Len(b) : menu[i] = b[j] /\ b[j].cat # "toolchain"
    BY <1>4, <2>4, <2>5
  <2>6. CASE \E j \in 1 .. Len(u) : menu[i] = u[j]
    <3>1. PICK j \in 1 .. Len(u) : menu[i] = u[j] BY <2>6
    <3>2. menu[i].name \in Range(scan.list) BY <2>2, <3>1 DEF Range
    <3>3. menu[i].name \in ToolNames BY <2>1, <3>2 DEF ToolNames
    <3> QED BY <1>5, <2>4, <3>3
  <2> QED BY <2>3, <2>5, <2>6
<1> QED BY <1>6, <1>7

LEMMA ToggleOK == ASSUME IInv, NEW i \in 1 .. Len(menu), Toggle(i) PROVE IInv'
<1>1. /\ phase = "tui" /\ drawn' = FALSE
      /\ UNCHANGED <<argVars, phase, tableVars, at, confirm, scanVars, chosen, project>>
  BY DEF Toggle, Key
<1>2. Fixed /\ Tables /\ Scanning /\ Selection /\ ~headless BY <1>1 DEF IInv
<1>3. flat \in Seq(Option) /\ SoundTable(flat) /\ Selected \in SUBSET (1 .. Len(flat))
      /\ Consistent(flat, Selected)
  BY <1>2, InterfaceIs DEF Selection, Selected
<1>4. /\ Selection'
      /\ \A s \in Selected' : s \in Selected \/ (s \in 1 .. Len(flat) /\ flat[s].name = menu[i].name)
  <2>1. CASE selected' = selected
    <3>1. Selected' = Selected BY <1>1, <2>1 DEF Selected, tableVars
    <3> QED BY <1>1, <1>2, <2>1, <3>1 DEF Selection, tableVars
  <2>2. CASE /\ selected' \in [1 .. Len(flat) -> Nat]
             /\ \E s \in Selected : /\ CanBeDisabled(flat, Selected, s, FALSE)
                                    /\ \/ Selected' = Selected \ {s}
                                       \/ Selected' = Selected
    <3>1. PICK s \in Selected : /\ CanBeDisabled(flat, Selected, s, FALSE)
                                /\ \/ Selected' = Selected \ {s}
                                   \/ Selected' = Selected
      BY <2>2
    <3>2. Consistent(flat, Selected \ {s}) BY <1>3, <3>1, DeselectKeeps
    <3>3. Consistent(flat, Selected') /\ Selected' \subseteq Selected BY <1>3, <3>1, <3>2
    <3> QED BY <1>1, <1>2, <2>2, <3>3 DEF Selection, tableVars
  <2> DEFINE k == First(flat, menu[i].name)
  <2>3. CASE /\ selected' \in [1 .. Len(flat) -> Nat]
             /\ k \in 1 .. Len(flat) /\ flat[k].name = menu[i].name
             /\ k = First(flat, flat[k].name)
             /\ IsOptionActive(flat, Selected, flat[k])
             /\ CanDeselectGroup(flat, Selected, flat[k].group)
             /\ Selected' = (Selected \ OfGroup(flat, Selected, flat[k].group)) \cup {k}
    <3> HIDE DEF k
    <3>1. Consistent(flat, Selected') BY <1>3, <2>3, SelectKeeps
    <3>2. \A s \in Selected' : s = First(flat, flat[s].name) BY <1>2, <2>3 DEF Selection
    <3> QED BY <1>1, <2>3, <3>1, <3>2 DEF Selection, tableVars
  <2> HIDE DEF k
  <2> QED BY <2>1, <2>2, <2>3, ToggleSelects DEF k
<1>5. Fixed' BY <1>1, <1>2 DEF Fixed, argVars, scanVars
<1>6. Tables' BY <1>1, <1>2 DEF Tables, Fresh, Grown, argVars, tableVars, scanVars
<1>7. \A s \in Selected' : (~populated \/ scan.list # << >>) /\ s <= Len(Base(chip))
                             => Base(chip)[s].cat # "toolchain"
  BY <1>2, <1>4, NoPlaceholder DEF Scanning
<1>8. Scanning' BY <1>1, <1>2, <1>7 DEF Scanning, argVars, scanVars
<1> QED BY <1>1, <1>2, <1>4, <1>5, <1>6, <1>8 DEF IInv, SavedIsGenerated, argVars

LEMMA QuietOK ==
    ASSUME IInv, NoKey \/ (\E c \in Cats : EnterGroup(c)) \/ Up \/ AskToQuit \/ AnswerToQuit
    PROVE  IInv'
<1>1. /\ phase = "tui" /\ phase' \in {"tui", "quit"} /\ drawn' \in BOOLEAN
      /\ drawn' => drawn
      /\ UNCHANGED <<argVars, tableVars, selected, scanVars, chosen, project>>
  <2>1. CASE NoKey BY <2>1 DEF NoKey
  <2>2. CASE \E c \in Cats : EnterGroup(c) BY <2>2 DEF EnterGroup, Key
  <2>3. CASE Up BY <2>3 DEF Up, Key
  <2>4. CASE AskToQuit BY <2>4 DEF AskToQuit, Key
  <2>5. CASE AnswerToQuit BY <2>5 DEF AnswerToQuit
  <2> QED BY <2>1, <2>2, <2>3, <2>4, <2>5
<1>2. Fixed /\ Tables /\ Scanning /\ Selection /\ ~headless BY <1>1 DEF IInv
<1>3. Fixed' BY <1>1, <1>2 DEF Fixed, Phases, argVars, scanVars
<1>4. Tables' BY <1>1, <1>2 DEF Tables, Fresh, Grown, argVars, tableVars, scanVars
<1>5. Selected' = Selected BY <1>1 DEF Selected, tableVars
<1>6. Scanning' BY <1>1, <1>2, <1>5 DEF Scanning, argVars, scanVars
<1>7. Selection' BY <1>1, <1>2, <1>5 DEF Selection, tableVars
<1> QED BY <1>1, <1>2, <1>3, <1>4, <1>6, <1>7 DEF IInv, SavedIsGenerated, argVars

(* What is selected is in main's tree, and is no placeholder once there    *)
(* are toolchains.                                                         *)
LEMMA SelectedGenerable ==
    ASSUME IInv, phase = "tui", NEW s \in Selected
    PROVE  LET n == flat[s].name
           IN /\ Positions(template, n) # {}
              /\ Found(n).group = "toolchain" /\ scan.list # << >> => n \in Range(scan.list)
<1> DEFINE b == Base(chip)
           u == Pushed(Base(chip), scan.list)
           n == flat[s].name
<1>1. Fixed /\ Tables /\ Scanning /\ Selection BY DEF IInv
<1>2. /\ chip \in Chips /\ b \in Seq(Option) /\ Len(b) \in Nat
      /\ scan.list \in ToolLists \cup {<< >>} /\ s \in 1 .. Len(flat)
  BY <1>1, BaseIs DEF Fixed, Selected
<1>3. /\ \A p, j \in 1 .. Len(b) : b[p].cat = "toolchain" /\ b[j].name = b[p].name => p = j
      /\ \A p \in 1 .. Len(b) : b[p].group = "toolchain" => b[p].cat = "toolchain"
  BY <1>2, PlaceholderAssumption
<1>4. ~populated \/ scan.list # << >> => (s <= Len(b) => b[s].cat # "toolchain")
  BY <1>1 DEF Scanning
<1>5. CASE ~Grown
  <2>1. flat = b /\ template = b /\ (scan.list # << >> => ~populated)
    BY <1>1, <1>5 DEF Tables, Fresh
  <2> HIDE DEF b, n
  <2>2. s \in Positions(template, n) BY <1>2, <2>1 DEF Positions, n
  <2>3. First(template, n) \in 1 .. Len(b) /\ Found(n).name = n /\ Found(n) = b[First(template, n)]
    BY <1>2, <2>1, <2>2, FirstIsFirst DEF Found
  <2> DEFINE f == First(template, n)
  <2> HIDE DEF f
  <2>4. ASSUME Found(n).group = "toolchain", scan.list # << >> PROVE FALSE
    <3>1. f \in 1 .. Len(b) /\ b[f].cat = "toolchain" /\ b[f].name = n
      BY <1>3, <2>3, <2>4 DEF f
    <3>2. b[s].name = n /\ s \in 1 .. Len(b) BY <1>2, <2>1 DEF n
    <3>3. f = s BY <1>3, <3>1, <3>2
    <3> QED BY <1>4, <2>1, <2>4, <3>1, <3>2, <3>3, <1>2
  <2> QED BY <2>2, <2>4 DEF n
<1>6. CASE Grown
  <2>1. /\ scan.list \in ToolLists /\ scan.list # << >>
        /\ flat = b \o u /\ template = Rewrite(b, "toolchain", scan.list)
    BY <1>1, <1>2, <1>6 DEF Grown, Tables
  <2>2. /\ u \in Seq(Option)
        /\ \A j \in 1 .. Len(u) : j \in 1 .. Len(scan.list) /\ u[j].name = scan.list[j]
    BY <1>2, <2>1, PushedIs
  <2>3. /\ Len(template) \in Nat
        /\ \A q \in 1 .. Len(template) :
              \/ \E j \in 1 .. Len(b) : template[q] = b[j] /\ b[j].cat # "toolchain"
              \/ \E k \in 1 .. Len(u) : template[q] = u[k]
        /\ \A j \in 1 .. Len(b) : b[j].cat # "toolchain" => \E q \in 1 .. Len(template) : template[q] = b[j]
        /\ \A k \in 1 .. Len(u) : \E q \in 1 .. Len(template) : template[q] = u[k]
    BY <1>2, <2>1, RewriteIs
  <2> HIDE DEF b, u, n
  <2>4. /\ Len(flat) = Len(b) + Len(u) /\ Len(u) \in Nat
        /\ \A q \in 1 .. Len(b) : flat[q] = b[q]
        /\ \A q \in Len(b) + 1 .. Len(b) + Len(u) : flat[q] = u[q - Len(b)]
    BY ONLY <1>2, <2>1, <2>2, Concatenated
  <2>5. \E q \in 1 .. Len(template) : template[q] = flat[s]
    <3>1. CASE s <= Len(b)
      <4>1. s \in 1 .. Len(b) /\ flat[s] = b[s] BY <1>2, <2>4, <3>1
      <4> QED BY <1>4, <2>1, <2>3, <3>1, <4>1
    <3>2. CASE ~(s <= Len(b))
      <4>1. s - Len(b) \in 1 .. Len(u) /\ flat[s] = u[s - Len(b)] BY <1>2, <2>4, <3>2
      <4> QED BY <2>3, <4>1
    <3> QED BY <3>1, <3>2
  <2>6. Positions(template, n) # {} BY <2>5 DEF Positions, n
  <2>7. First(template, n) \in 1 .. Len(template) /\ Found(n).name = n
    BY <2>3, <2>6, FirstIsFirst DEF Found
  <2>8. ASSUME Found(n).group = "toolchain" PROVE n \in Range(scan.list)
    <3>1. \/ \E j \in 1 .. Len(b) : Found(n) = b[j] /\ b[j].cat # "toolchain"
          \/ \E k \in 1 .. Len(u) : Found(n) = u[k]
      BY <2>3, <2>7 DEF Found
    <3>2. PICK k \in 1 .. Len(u) : Found(n) = u[k] BY <1>3, <2>8, <3>1
    <3>3. n = scan.list[k] /\ k \in 1 .. Len(scan.list) BY <2>2, <2>7, <3>2
    <3> QED BY <3>3 DEF Range
  <2> QED BY <2>6, <2>8 DEF n
<1> QED BY <1>5, <1>6

LEMMA SaveOK == IInv /\ Save => IInv'
<1> SUFFICES ASSUME IInv, Save PROVE IInv' OBVIOUS
<1>1. /\ phase = "tui" /\ phase' = "generate" /\ drawn' = FALSE
      /\ chosen' = {flat[s].name : s \in Selected}
      /\ UNCHANGED <<chip, headless, cli, cliTool, template, loading, populated, scan>>
  BY DEF Save, Key, argVars, tableVars, scanVars
<1>2. Fixed' BY <1>1 DEF IInv, Fixed, Phases
<1>3. ASSUME NEW n \in chosen'
      PROVE  /\ Positions(template, n) # {}
             /\ Found(n).group = "toolchain" /\ scan.list # << >> => n \in Range(scan.list)
  <2>1. PICK s \in Selected : n = flat[s].name BY <1>1, <1>3
  <2> QED BY <1>1, <2>1, SelectedGenerable
<1>4. Generable' BY <1>1, <1>3 DEF Generable, Found
<1> QED BY <1>1, <1>2, <1>4 DEF IInv, SavedIsGenerated

LEMMA GenerateOK == IInv /\ Generate => IInv'
<1> SUFFICES ASSUME IInv, Generate PROVE IInv' OBVIOUS
<1>1. /\ phase = "generate" /\ phase' \in {"panicked", "done"}
      /\ UNCHANGED <<chip, headless, cli, cliTool, drawn, loading, populated, scan>>
  BY DEF Generate, argVars, scanVars
<1>2. Fixed' BY <1>1 DEF IInv, Fixed, Phases
<1>3. ASSUME ~headless
      PROVE  /\ phase' # "panicked"
             /\ scan.list # << >> => project'.tool \in Range(scan.list) \cup {NoTool}
  <2>1. Generable BY <1>1, <1>3 DEF IInv
  <2>2. phase' = "done" BY <2>1 DEF Generate, Generable
  <2>3. project'.tool \in OneOf(ChosenOf("toolchain"), NoTool)
    <3>1. PICK tool \in OneOf(ChosenOf("toolchain"), NoTool),
               module \in OneOf(ChosenOf("module"), NoName) :
            project' = [tool  |-> tool,
                        opts  |-> Options(tool, module),
                        files |-> [f \in Files |-> ProcessFile(f, Options(tool, module))]]
      BY <1>3, <2>1 DEF Generate, Generable
    <3> QED BY <3>1
  <2>4. scan.list # << >> => ChosenOf("toolchain") \subseteq Range(scan.list)
    BY <2>1 DEF Generable, ChosenOf
  <2> QED BY <2>2, <2>3, <2>4 DEF OneOf
<1>4. SavedIsGenerated' BY <1>1, <1>3 DEF SavedIsGenerated
<1> QED BY <1>1, <1>2, <1>4 DEF IInv

LEMMA NextOK == IInv /\ [Next]_vars => IInv'
<1> SUFFICES ASSUME IInv, [Next]_vars PROVE IInv' OBVIOUS
<1>1. CASE Start BY <1>1, StartOK
<1>2. CASE ScanEnds \/ ScanDies BY <1>2, ScanOK
<1>3. CASE Frame BY <1>3, FrameOK
<1>4. CASE \E i \in 1 .. Len(menu) : Toggle(i) BY <1>4, ToggleOK
<1>5. CASE NoKey \/ (\E c \in Cats : EnterGroup(c)) \/ Up \/ AskToQuit \/ AnswerToQuit
  BY <1>5, QuietOK
<1>6. CASE Save BY <1>6, SaveOK
<1>7. CASE Generate BY <1>7, GenerateOK
<1>8. CASE UNCHANGED vars
  <2>1. Selected' = Selected BY <1>8 DEF Selected, vars, tableVars
  <2> QED BY <1>8, <2>1
       DEF vars, argVars, tableVars, scanVars, IInv, Fixed, Tables, Fresh, Grown, Scanning,
           Selection, Generable, Found, SavedIsGenerated
<1> QED BY <1>1, <1>2, <1>3, <1>4, <1>5, <1>6, <1>7, <1>8 DEF Next

-----------------------------------------------------------------------------
(* process_file. *)

LEMMA LeastElement ==
    ASSUME NEW T, T \subseteq Nat, T # {}
    PROVE  \E x \in T : \A y \in T : x <= y
<1> DEFINE R == OpToRel(<, Nat)
<1>1. PICK x \in T : \A y \in T : ~ (<<y, x>> \in R)
  <2>1. IsWellFoundedOn(R, Nat) BY NatLessThanWellFounded
  <2> HIDE DEF R
  <2> QED BY <2>1, WFMin, Zenon
<1>2. \A y \in T : ~ (y < x) BY <1>1 DEF OpToRel
<1> QED BY <1>2

(***************************************************************************)
(* The depth of a line, line by line.                                      *)
(***************************************************************************)
Counted(file, c, k) == {i \in 1 .. k : file[i].kind = c}

LEMMA CountStep ==
    ASSUME NEW file, NEW c, NEW k \in Nat
    PROVE  /\ Cardinality(Counted(file, c, k)) \in Nat
           /\ Cardinality(Counted(file, c, k + 1)) =
                 Cardinality(Counted(file, c, k)) + (IF file[k + 1].kind = c THEN 1 ELSE 0)
<1>1. IsFiniteSet(Counted(file, c, k))
  <2>1. IsFiniteSet(1 .. k) BY FS_Interval
  <2>2. Counted(file, c, k) \subseteq 1 .. k BY DEF Counted
  <2> QED BY <2>1, <2>2, FS_Subset
<1>2. Cardinality(Counted(file, c, k)) \in Nat BY <1>1, FS_CardinalityType
<1>3. CASE file[k + 1].kind = c
  <2>1. Counted(file, c, k + 1) = Counted(file, c, k) \cup {k + 1} BY <1>3 DEF Counted
  <2>2. k + 1 \notin Counted(file, c, k) BY DEF Counted
  <2>3. Cardinality(Counted(file, c, k) \cup {k + 1}) = Cardinality(Counted(file, c, k)) + 1
    BY <1>1, <2>2, FS_AddElement
  <2> QED BY <1>2, <1>3, <2>1, <2>3
<1>4. CASE file[k + 1].kind # c
  <2>1. Counted(file, c, k + 1) = Counted(file, c, k) BY <1>4 DEF Counted
  <2> QED BY <1>2, <1>4, <2>1
<1> QED BY <1>3, <1>4

LEMMA DepthAtStart == ASSUME NEW file PROVE Depth(file, 0) = 0
<1>1. \A c : {i \in 1 .. 0 : file[i].kind = c} = {} OBVIOUS
<1> QED BY <1>1, FS_EmptySet DEF Depth

LEMMA DepthStep ==
    ASSUME NEW file, NEW k \in Nat
    PROVE  /\ Depth(file, k) \in Int
           /\ file[k + 1].kind = "if" => Depth(file, k + 1) = Depth(file, k) + 1
           /\ file[k + 1].kind = "endif" => Depth(file, k + 1) = Depth(file, k) - 1
           /\ file[k + 1].kind \notin {"if", "endif"} => Depth(file, k + 1) = Depth(file, k)
<1> DEFINE n(c, j) == Cardinality(Counted(file, c, j))
<1>1. \A j \in Nat : Depth(file, j) = n("if", j) - n("endif", j) BY DEF Depth, Counted
<1>2. n("if", k) \in Nat /\ n("if", k + 1) = n("if", k) + (IF file[k + 1].kind = "if" THEN 1 ELSE 0)
  BY CountStep
<1>3. n("endif", k) \in Nat /\ n("endif", k + 1) = n("endif", k) + (IF file[k + 1].kind = "endif" THEN 1 ELSE 0)
  BY CountStep
<1> HIDE DEF n
<1> QED BY <1>1, <1>2, <1>3

(***************************************************************************)
(* The blocks that are open after line k, and the heads of their branches. *)
(***************************************************************************)
Opens(file, i, k) ==
    /\ i \in 1 .. k /\ file[i].kind = "if"
    /\ \A j \in i .. k : Depth(file, j) >= Depth(file, i)

LEMMA OpensStep ==
    ASSUME NEW file, NEW k \in Nat, NEW i \in 1 .. k
    PROVE  Opens(file, i, k + 1) <=> Opens(file, i, k) /\ Depth(file, k + 1) >= Depth(file, i)
<1>1. i .. k + 1 = (i .. k) \cup {k + 1} OBVIOUS
<1> QED BY <1>1 DEF Opens

LEMMA OpensNow ==
    ASSUME NEW file, NEW k \in Nat, file[k + 1].kind = "if"
    PROVE  Opens(file, k + 1, k + 1)
<1>1. Depth(file, k + 1) \in Int BY DepthStep
<1>2. (k + 1) .. (k + 1) = {k + 1} OBVIOUS
<1> QED BY <1>1, <1>2 DEF Opens

LEMMA DepthInt == ASSUME NEW file, NEW k \in Nat PROVE Depth(file, k) \in Int
BY DepthStep

LEMMA OneOpens ==
    ASSUME NEW file, NEW k \in Nat, NEW i, NEW j, Opens(file, i, k), Opens(file, j, k),
           Depth(file, i) = Depth(file, j)
    PROVE  i = j
<1>1. \A a, b : Opens(file, a, k) /\ Opens(file, b, k) /\ Depth(file, a) = Depth(file, b) => ~ (a < b)
  <2> SUFFICES ASSUME NEW a, NEW b, Opens(file, a, k), Opens(file, b, k),
                      Depth(file, a) = Depth(file, b), a < b
               PROVE  FALSE
    OBVIOUS
  <2>1. a \in 1 .. k /\ b \in 1 .. k /\ file[b].kind = "if" BY DEF Opens
  <2>2. b - 1 \in Nat /\ b - 1 \in a .. k BY <2>1
  <2>3. Depth(file, b) = Depth(file, b - 1) + 1 /\ Depth(file, b - 1) \in Int
    <3> DEFINE c == b - 1
    <3>1. c \in Nat /\ b = c + 1 BY <2>1
    <3> HIDE DEF c
    <3>2. Depth(file, b) = Depth(file, c) + 1 /\ Depth(file, c) \in Int BY <2>1, <3>1, DepthStep
    <3> QED BY <3>2 DEF c
  <2>4. Depth(file, b - 1) >= Depth(file, a) BY <2>2 DEF Opens
  <2> QED BY <2>3, <2>4
<1>2. i \in 1 .. k /\ j \in 1 .. k BY DEF Opens
<1> QED BY <1>1, <1>2

LEMMA HeadsStep ==
    ASSUME NEW file, NEW k \in Nat, NEW i \in 1 .. k
    PROVE  Heads(file, i, k + 1) =
             IF file[k + 1].kind \in {"elif", "else"} /\ Depth(file, k + 1) = Depth(file, i)
               THEN Heads(file, i, k) \cup {k + 1} ELSE Heads(file, i, k)
<1>1. i .. k + 1 = (i .. k) \cup {k + 1} /\ k + 1 # i OBVIOUS
<1> QED BY <1>1 DEF Heads

LEMMA HeadsNow ==
    ASSUME NEW file, NEW k \in Nat, file[k].kind = "if"
    PROVE  Heads(file, k, k) = {k}
<1>1. k .. k = {k} OBVIOUS
<1> QED BY <1>1 DEF Heads

(***************************************************************************)
(* What the entry of a block on the stack tells                            *)
(***************************************************************************)
TrueHead(file, opts, h) == file[h].kind = "else" \/ Evaluate(file[h], opts)

Tells(file, opts, i, k, b) ==
    \E m \in Heads(file, i, k) :
       LET others == Heads(file, i, k) \ {m}
       IN /\ \A g \in Heads(file, i, k) : g <= m
          /\ b.any <=> \E h \in others : TrueHead(file, opts, h)
          /\ IncludeLine(b) <=> TrueHead(file, opts, m) /\ \A h \in others : ~TrueHead(file, opts, h)
          /\ file[m].kind # "else" => (b.current <=> TrueHead(file, opts, m) /\ ~b.any)

LEMMA TellsLive ==
    ASSUME NEW file, NEW opts, NEW k \in Nat, NEW i \in 1 .. k, NEW b, Tells(file, opts, i, k, b)
    PROVE  IncludeLine(b) <=> InLiveBranch(file, i, k, opts)
<1>1. PICK m \in Heads(file, i, k) :
         LET others == Heads(file, i, k) \ {m}
         IN /\ \A g \in Heads(file, i, k) : g <= m
            /\ IncludeLine(b) <=> TrueHead(file, opts, m) /\ \A h \in others : ~TrueHead(file, opts, h)
  BY DEF Tells
<1> DEFINE heads == Heads(file, i, k)
           mine  == CHOOSE h \in heads : \A g \in heads : g <= h
<1>2. heads \subseteq Nat BY DEF Heads
<1>3. mine \in heads /\ \A g \in heads : g <= mine BY <1>1
<1>4. mine = m
  <2>1. mine <= m /\ m <= mine BY <1>1, <1>3
  <2>2. mine \in Nat /\ m \in Nat BY <1>1, <1>2, <1>3
  <2> HIDE DEF mine, heads
  <2> QED BY <2>1, <2>2
<1>5. InLiveBranch(file, i, k, opts) <=>
        TrueHead(file, opts, mine) /\ \A h \in heads \ {mine} : ~TrueHead(file, opts, h)
  BY DEF InLiveBranch, TrueHead
<1> HIDE DEF mine
<1> QED BY <1>1, <1>4, <1>5

-----------------------------------------------------------------------------
(***************************************************************************)
(* The stack after line k: an entry for each block that is open, which     *)
(* tells of it as long as every block around it is in a live branch.       *)
(***************************************************************************)
FileOK(file) == file \in Seq(Line) /\ WellFormed(file)

Entries == [current : BOOLEAN, any : BOOLEAN]

Live(stack, n) == \A m \in 1 .. n : IncludeLine(stack[m])

StackOK(file, opts, k, stack) ==
    /\ stack \in Seq(Entries)
    /\ Len(stack) = Depth(file, k) + 1
    /\ IncludeLine(stack[1])
    /\ \A n \in 1 .. Depth(file, k) : \E i : Opens(file, i, k) /\ Depth(file, i) = n
    /\ \A i : Opens(file, i, k) /\ Live(stack, Depth(file, i)) =>
                 Tells(file, opts, i, k, stack[Depth(file, i) + 1])

LEMMA DepthNat ==
    ASSUME NEW file, FileOK(file), NEW k \in 0 .. Len(file)
    PROVE  Depth(file, k) \in Nat
<1>1. Len(file) \in Nat BY DEF FileOK
<1>2. Depth(file, k) \in Int BY <1>1, DepthInt
<1>3. Depth(file, k) >= 0 BY <1>1, DepthAtStart DEF FileOK, WellFormed
<1> QED BY <1>2, <1>3

LEMMA OpensDeep ==
    ASSUME NEW file, FileOK(file), NEW k \in 0 .. Len(file), NEW i, Opens(file, i, k)
    PROVE  i \in 1 .. k /\ Depth(file, i) \in 1 .. Depth(file, k)
<1>1. Len(file) \in Nat BY DEF FileOK
<1>2. i \in 1 .. k /\ file[i].kind = "if" BY DEF Opens
<1> DEFINE c == i - 1
<1>3. c \in Nat /\ i = c + 1 /\ c \in 0 .. Len(file) BY <1>1, <1>2
<1> HIDE DEF c
<1>4. Depth(file, i) = Depth(file, c) + 1 BY <1>2, <1>3, DepthStep
<1>5. Depth(file, c) \in Nat BY <1>3, DepthNat
<1>6. Depth(file, k) \in Nat /\ Depth(file, k) >= Depth(file, i)
  <2>1. k \in i .. k BY <1>1, <1>2
  <2> QED BY <2>1, DepthNat DEF Opens
<1> QED BY <1>2, <1>4, <1>5, <1>6

LEMMA LiveSame ==
    ASSUME NEW s, NEW t, NEW n \in Nat, \A m \in 1 .. n : s[m] = t[m]
    PROVE  Live(s, n) <=> Live(t, n)
BY DEF Live

(* The heads of a block whose depth is not that of the line are what they  *)
(* were, and so is what its entry tells.                                   *)
LEMMA TellsStep ==
    ASSUME NEW file, NEW opts, NEW k \in Nat, NEW i \in 1 .. k, NEW b, Tells(file, opts, i, k, b),
           file[k + 1].kind \notin {"elif", "else"} \/ Depth(file, k + 1) # Depth(file, i)
    PROVE  Tells(file, opts, i, k + 1, b)
<1>1. Heads(file, i, k + 1) = Heads(file, i, k) BY HeadsStep
<1> QED BY <1>1 DEF Tells

(* Text, REPLACE                                                           *)
LEMMA StackStays ==
    ASSUME NEW file, FileOK(file), NEW opts, NEW k \in Nat, k + 1 <= Len(file), NEW stack,
           StackOK(file, opts, k, stack), file[k + 1].kind \in {"text", "replace"}
    PROVE  StackOK(file, opts, k + 1, stack)
<1>1. Depth(file, k + 1) = Depth(file, k) BY DepthStep
<1>2. \A i : Opens(file, i, k + 1) <=> Opens(file, i, k)
  <2> TAKE i
  <2>1. ASSUME Opens(file, i, k + 1) PROVE i \in 1 .. k BY <2>1 DEF Opens
  <2>2. ASSUME Opens(file, i, k) PROVE i \in 1 .. k /\ Depth(file, k + 1) >= Depth(file, i)
    BY <2>2, <1>1 DEF Opens
  <2> QED BY <2>1, <2>2, OpensStep
<1>3. \A i, b : Opens(file, i, k) /\ Tells(file, opts, i, k, b) => Tells(file, opts, i, k + 1, b)
  BY TellsStep DEF Opens
<1> QED BY <1>1, <1>2, <1>3 DEF StackOK

(* IF                                                                      *)
LEMMA StackPushed ==
    ASSUME NEW file, FileOK(file), NEW opts, NEW k \in Nat, k + 1 <= Len(file), NEW stack,
           StackOK(file, opts, k, stack), file[k + 1].kind = "if"
    PROVE  StackOK(file, opts, k + 1,
                   Append(stack, NewIf(IncludeLine(Last(stack)) /\ Evaluate(file[k + 1], opts))))
<1> DEFINE b  == NewIf(IncludeLine(Last(stack)) /\ Evaluate(file[k + 1], opts))
           st == Append(stack, b)
           d  == Depth(file, k)
<1>1. Depth(file, k + 1) = d + 1 /\ d \in Nat
  <2>1. k \in 0 .. Len(file) BY DEF FileOK
  <2> QED BY <2>1, DepthStep, DepthNat
<1>2. b = [current |-> IncludeLine(Last(stack)) /\ Evaluate(file[k + 1], opts), any |-> FALSE]
  BY DEF NewIf
<1>3. stack \in Seq(Entries) /\ Len(stack) = d + 1 BY DEF StackOK
<1>4. b \in Entries
  <2>1. IncludeLine(Last(stack)) \in BOOLEAN BY DEF IncludeLine
  <2>2. Evaluate(file[k + 1], opts) \in BOOLEAN BY DEF Evaluate
  <2>3. \A x, y \in BOOLEAN : [current |-> x /\ y, any |-> FALSE] \in Entries BY DEF Entries
  <2> HIDE DEF b
  <2> QED BY <1>2, <2>1, <2>2, <2>3, Zenon
<1> HIDE DEF b
<1>5. /\ st \in Seq(Entries) /\ Len(st) = d + 2 /\ st[d + 2] = b
      /\ \A m \in 1 .. d + 1 : st[m] = stack[m]
  BY <1>1, <1>3, <1>4
<1> HIDE DEF st
<1>6. Opens(file, k + 1, k + 1) BY OpensNow
<1>7. \A i : Opens(file, i, k) => Opens(file, i, k + 1) /\ Depth(file, i) \in 1 .. d
  <2> TAKE i
  <2> SUFFICES ASSUME Opens(file, i, k) PROVE Opens(file, i, k + 1) /\ Depth(file, i) \in 1 .. d
    OBVIOUS
  <2>1. k \in 0 .. Len(file) BY DEF FileOK
  <2>2. i \in 1 .. k /\ Depth(file, i) \in 1 .. d BY <2>1, OpensDeep
  <2> QED BY <2>2, <1>1, OpensStep
<1>8. \A i : Opens(file, i, k + 1) => i = k + 1 \/ Opens(file, i, k)
  <2> TAKE i
  <2> SUFFICES ASSUME Opens(file, i, k + 1), i # k + 1 PROVE Opens(file, i, k) OBVIOUS
  <2>1. i \in 1 .. k BY DEF Opens
  <2> QED BY <2>1, OpensStep
<1>9. IncludeLine(st[1]) BY <1>1, <1>5 DEF StackOK
<1>10. ASSUME NEW n \in 1 .. Depth(file, k + 1)
       PROVE  \E i : Opens(file, i, k + 1) /\ Depth(file, i) = n
  <2>1. CASE n = d + 1 BY <2>1, <1>1, <1>6
  <2>2. CASE n \in 1 .. d BY <2>2, <1>7 DEF StackOK
  <2> QED BY <2>1, <2>2, <1>1
<1>11. ASSUME NEW i, Opens(file, i, k + 1), Live(st, Depth(file, i))
       PROVE  Tells(file, opts, i, k + 1, st[Depth(file, i) + 1])
  <2>1. CASE i = k + 1
    <3>1. Heads(file, i, k + 1) = {k + 1} BY <2>1, HeadsNow
    <3>2. st[d + 1] = Last(stack) BY <1>1, <1>3, <1>5 DEF Last
    <3>3. IncludeLine(Last(stack)) BY <1>1, <1>11, <2>1, <3>2 DEF Live
    <3>4. b.current = Evaluate(file[k + 1], opts) /\ b.any = FALSE
      <4>1. Evaluate(file[k + 1], opts) \in BOOLEAN BY DEF Evaluate
      <4> QED BY <1>2, <3>3, <4>1
    <3>5. TrueHead(file, opts, k + 1) <=> Evaluate(file[k + 1], opts) BY DEF TrueHead
    <3>6. {k + 1} \ {k + 1} = {} OBVIOUS
    <3>7. Tells(file, opts, i, k + 1, b)
      BY <3>1, <3>4, <3>5, <3>6 DEF Tells, IncludeLine
    <3> QED BY <1>1, <1>5, <2>1, <3>7
  <2>2. CASE Opens(file, i, k)
    <3>1. i \in 1 .. k /\ Depth(file, i) \in 1 .. d BY <2>2, <1>7 DEF Opens
    <3>2. Live(stack, Depth(file, i)) BY <1>1, <1>5, <1>11, <3>1, LiveSame DEF Live
    <3>3. st[Depth(file, i) + 1] = stack[Depth(file, i) + 1] BY <1>1, <1>5, <3>1
    <3>4. Tells(file, opts, i, k, stack[Depth(file, i) + 1]) BY <2>2, <3>2 DEF StackOK
    <3> QED BY <3>1, <3>3, <3>4, TellsStep
  <2> QED BY <2>1, <2>2, <1>8, <1>11
<1>12. StackOK(file, opts, k + 1, st)
  BY <1>1, <1>5, <1>9, <1>10, <1>11 DEF StackOK
<1> QED BY <1>12 DEF st, b

(* ENDIF                                                                   *)
LEMMA StackPopped ==
    ASSUME NEW file, FileOK(file), NEW opts, NEW k \in Nat, k + 1 <= Len(file), NEW stack,
           StackOK(file, opts, k, stack), file[k + 1].kind = "endif"
    PROVE  StackOK(file, opts, k + 1, Pop(stack))
<1> DEFINE st == Pop(stack)
           d  == Depth(file, k)
<1>1. Depth(file, k + 1) = d - 1 /\ d \in Nat /\ d - 1 \in Nat
  <2>1. k \in 0 .. Len(file) /\ k + 1 \in 0 .. Len(file) BY DEF FileOK
  <2>2. Depth(file, k + 1) \in Nat BY <2>1, DepthNat
  <2> QED BY <2>1, <2>2, DepthStep, DepthNat
<1>2. stack \in Seq(Entries) /\ Len(stack) = d + 1 BY DEF StackOK
<1>3. /\ st \in Seq(Entries) /\ Len(st) = d
      /\ \A m \in 1 .. d : st[m] = stack[m]
  BY <1>1, <1>2 DEF Pop
<1> HIDE DEF st
<1>4. \A i : Opens(file, i, k + 1) => Opens(file, i, k) /\ Depth(file, i) \in 1 .. d - 1
  <2> TAKE i
  <2> SUFFICES ASSUME Opens(file, i, k + 1)
               PROVE  Opens(file, i, k) /\ Depth(file, i) \in 1 .. d - 1
    OBVIOUS
  <2>1. k + 1 \in 0 .. Len(file) BY DEF FileOK
  <2>2. i \in 1 .. k + 1 /\ Depth(file, i) \in 1 .. d - 1 BY <2>1, <1>1, OpensDeep
  <2>3. file[i].kind = "if" BY DEF Opens
  <2>4. i \in 1 .. k BY <2>2, <2>3
  <2> QED BY <2>2, <2>4, OpensStep
<1>5. IncludeLine(st[1]) BY <1>1, <1>3 DEF StackOK
<1>6. ASSUME NEW n \in 1 .. Depth(file, k + 1)
      PROVE  \E i : Opens(file, i, k + 1) /\ Depth(file, i) = n
  <2>1. n \in 1 .. d BY <1>1
  <2>2. PICK i : Opens(file, i, k) /\ Depth(file, i) = n BY <2>1 DEF StackOK
  <2>3. i \in 1 .. k BY <2>2 DEF Opens
  <2> QED BY <1>1, <2>2, <2>3, OpensStep
<1>7. ASSUME NEW i, Opens(file, i, k + 1), Live(st, Depth(file, i))
      PROVE  Tells(file, opts, i, k + 1, st[Depth(file, i) + 1])
  <2>1. i \in 1 .. k /\ Depth(file, i) \in 1 .. d - 1 /\ Opens(file, i, k)
    BY <1>4, <1>7 DEF Opens
  <2>2. Live(stack, Depth(file, i)) BY <1>1, <1>3, <1>7, <2>1 DEF Live
  <2>3. st[Depth(file, i) + 1] = stack[Depth(file, i) + 1] BY <1>1, <1>3, <2>1
  <2>4. Tells(file, opts, i, k, stack[Depth(file, i) + 1]) BY <2>1, <2>2 DEF StackOK
  <2> QED BY <2>1, <2>3, <2>4, TellsStep
<1> QED BY <1>1, <1>3, <1>5, <1>6, <1>7 DEF StackOK, st

(* ELIF, ELSE: the block is the innermost, and its last branch no ELSE     *)
Turned(b, line, opts) ==
    IF line.kind = "else" THEN IntoElse(b)
    ELSE IntoElseIf(b, ~b.current /\ ~b.any /\ Evaluate(line, opts))

LEMMA TurnedTells ==
    ASSUME NEW file, NEW opts, NEW k \in Nat, NEW i \in 1 .. k, NEW b \in Entries,
           Tells(file, opts, i, k, b), file[k + 1].kind \in {"elif", "else"},
           Depth(file, k + 1) = Depth(file, i), \A h \in Heads(file, i, k) : file[h].kind # "else"
    PROVE  Tells(file, opts, i, k + 1, Turned(b, file[k + 1], opts))
<1> DEFINE c     == Turned(b, file[k + 1], opts)
           heads == Heads(file, i, k)
           new   == Heads(file, i, k + 1)
           T(h)  == TrueHead(file, opts, h)
<1>1. new = heads \cup {k + 1} BY HeadsStep
<1>2. \A h \in heads : h \in 1 .. k BY DEF Heads
<1>3. new \ {k + 1} = heads /\ k + 1 \in new /\ \A g \in new : g <= k + 1 BY <1>1, <1>2
<1>4. PICK m \in heads :
         /\ b.any <=> \E h \in heads \ {m} : T(h)
         /\ IncludeLine(b) <=> T(m) /\ \A h \in heads \ {m} : ~T(h)
         /\ b.current <=> T(m) /\ ~b.any
  BY DEF Tells
<1>5. (b.any \/ b.current) <=> \E h \in heads : T(h)
  <2> HIDE DEF T, heads
  <2>1. (\E h \in heads : T(h)) <=> T(m) \/ \E h \in heads \ {m} : T(h) BY <1>4
  <2> QED BY <1>4, <2>1, Zenon
<1>6. b.any \in BOOLEAN /\ b.current \in BOOLEAN BY DEF Entries
<1>7. Evaluate(file[k + 1], opts) \in BOOLEAN BY DEF Evaluate
<1>8. CASE file[k + 1].kind = "else"
  <2>1. T(k + 1) BY <1>8 DEF TrueHead
  <2>2. c = [current |-> ~b.any, any |-> b.any \/ b.current] BY <1>8 DEF Turned, IntoElse
  <2>3. c.any <=> \E h \in heads : T(h) BY <1>5, <1>6, <2>2
  <2>4. IncludeLine(c) <=> \A h \in heads : ~T(h)
    <3>1. c.current = ~b.any /\ c.any = (b.any \/ b.current) BY <1>6, <2>2
    <3>2. IncludeLine(c) <=> ~(b.any \/ b.current) BY <1>6, <3>1 DEF IncludeLine
    <3> HIDE DEF c, T, heads
    <3> QED BY <1>5, <3>2, Zenon
  <2> HIDE DEF c, T, new, heads
  <2>5. /\ \A g \in new : g <= k + 1
        /\ c.any <=> \E h \in new \ {k + 1} : T(h)
        /\ IncludeLine(c) <=> T(k + 1) /\ \A h \in new \ {k + 1} : ~T(h)
    BY <1>3, <2>1, <2>3, <2>4
  <2> QED BY <1>3, <1>8, <2>5 DEF Tells, c, T, new
<1>9. CASE file[k + 1].kind = "elif"
  <2>1. T(k + 1) <=> Evaluate(file[k + 1], opts) BY <1>9 DEF TrueHead
  <2>2. c = [current |-> ~b.current /\ ~b.any /\ Evaluate(file[k + 1], opts),
             any |-> b.any \/ b.current]
    BY <1>9 DEF Turned, IntoElseIf
  <2>3. c.any <=> \E h \in heads : T(h) BY <1>5, <1>6, <2>2
  <2>4. c.current <=> T(k + 1) /\ ~c.any
    <3>1. /\ c.current = (~b.current /\ ~b.any /\ Evaluate(file[k + 1], opts))
          /\ c.any = (b.any \/ b.current)
      BY <2>2
    <3> HIDE DEF c, T
    <3> QED BY <2>1, <3>1, Zenon
  <2>5. IncludeLine(c) <=> T(k + 1) /\ \A h \in heads : ~T(h)
    BY <2>3, <2>4 DEF IncludeLine
  <2> HIDE DEF c, T, new, heads
  <2>6. /\ \A g \in new : g <= k + 1
        /\ c.any <=> \E h \in new \ {k + 1} : T(h)
        /\ IncludeLine(c) <=> T(k + 1) /\ \A h \in new \ {k + 1} : ~T(h)
        /\ c.current <=> T(k + 1) /\ ~c.any
    BY <1>3, <2>3, <2>4, <2>5
  <2> QED BY <1>3, <2>6 DEF Tells, c, T, new
<1> QED BY <1>8, <1>9

LEMMA StackTurned ==
    ASSUME NEW file, FileOK(file), NEW opts, NEW k \in Nat, k + 1 <= Len(file), NEW stack,
           StackOK(file, opts, k, stack), file[k + 1].kind \in {"elif", "else"}
    PROVE  StackOK(file, opts, k + 1,
                   Append(Pop(stack), Turned(Last(stack), file[k + 1], opts)))
<1> DEFINE b  == Last(stack)
           c  == Turned(b, file[k + 1], opts)
           st == Append(Pop(stack), c)
           d  == Depth(file, k)
<1>1. Depth(file, k + 1) = d /\ d \in Nat
  <2>1. k \in 0 .. Len(file) BY DEF FileOK
  <2> QED BY <2>1, DepthStep, DepthNat
<1>2. PICK top : /\ BlockOpen(file, top, k + 1) /\ Depth(file, top) = d
                 /\ \A h \in Heads(file, top, k + 1) \ {k + 1} : file[h].kind # "else"
                 /\ top \in 1 .. k
  <2>1. k + 1 \in 1 .. Len(file) BY DEF FileOK
  <2>2. \E i \in 1 .. (k + 1) - 1 :
            /\ BlockOpen(file, i, k + 1) /\ Depth(file, i) = Depth(file, k + 1)
            /\ \A h \in Heads(file, i, k + 1) \ {k + 1} : file[h].kind # "else"
    BY <2>1 DEF FileOK, WellFormed
  <2>3. (k + 1) - 1 = k OBVIOUS
  <2> QED BY <1>1, <2>2, <2>3
<1>3. Opens(file, top, k + 1) /\ Opens(file, top, k)
  <2>1. Opens(file, top, k + 1) BY <1>2 DEF BlockOpen, Opens
  <2> QED BY <1>2, <2>1, OpensStep
<1>4. d >= 1
  <2>1. k \in 0 .. Len(file) BY DEF FileOK
  <2> QED BY <1>1, <1>2, <1>3, <2>1, OpensDeep
<1>5. stack \in Seq(Entries) /\ Len(stack) = d + 1 BY DEF StackOK
<1>6. b \in Entries /\ b = stack[d + 1] BY <1>1, <1>5 DEF Last
<1>7. c \in Entries
  <2>1. Evaluate(file[k + 1], opts) \in BOOLEAN BY DEF Evaluate
  <2>2. b.any \in BOOLEAN /\ b.current \in BOOLEAN BY <1>6 DEF Entries
  <2>3. \A x, y \in BOOLEAN : [current |-> x, any |-> y] \in Entries BY DEF Entries
  <2> HIDE DEF b
  <2>4. IntoElse(b) \in Entries BY <2>2, <2>3 DEF IntoElse
  <2>5. IntoElseIf(b, ~b.current /\ ~b.any /\ Evaluate(file[k + 1], opts)) \in Entries
    <3> DEFINE v == ~b.current /\ ~b.any /\ Evaluate(file[k + 1], opts)
    <3>1. v \in BOOLEAN OBVIOUS
    <3> HIDE DEF v
    <3>2. IntoElseIf(b, v) \in Entries BY <2>2, <2>3, <3>1 DEF IntoElseIf
    <3> QED BY <3>2 DEF v
  <2> QED BY <2>4, <2>5 DEF Turned
<1> HIDE DEF b, c
<1>8. /\ st \in Seq(Entries) /\ Len(st) = d + 1 /\ st[d + 1] = c
      /\ \A m \in 1 .. d : st[m] = stack[m]
  <2>1. /\ Pop(stack) \in Seq(Entries) /\ Len(Pop(stack)) = d
        /\ \A m \in 1 .. d : Pop(stack)[m] = stack[m]
    BY <1>1, <1>5 DEF Pop
  <2> QED BY <1>1, <1>7, <2>1
<1> HIDE DEF st
<1>9. \A i : Opens(file, i, k + 1) <=> Opens(file, i, k)
  <2> TAKE i
  <2>1. ASSUME Opens(file, i, k + 1) PROVE i \in 1 .. k BY <2>1 DEF Opens
  <2>2. ASSUME Opens(file, i, k) PROVE i \in 1 .. k /\ Depth(file, k + 1) >= Depth(file, i)
    BY <2>2, <1>1 DEF Opens
  <2> QED BY <2>1, <2>2, OpensStep
<1>10. IncludeLine(st[1]) BY <1>4, <1>1, <1>8 DEF StackOK
<1>11. ASSUME NEW n \in 1 .. Depth(file, k + 1)
       PROVE  \E i : Opens(file, i, k + 1) /\ Depth(file, i) = n
  BY <1>1, <1>9 DEF StackOK
<1>12. ASSUME NEW i, Opens(file, i, k + 1), Live(st, Depth(file, i))
       PROVE  Tells(file, opts, i, k + 1, st[Depth(file, i) + 1])
  <2>1. i \in 1 .. k /\ Depth(file, i) \in 1 .. d /\ Opens(file, i, k)
    <3>1. k \in 0 .. Len(file) BY DEF FileOK
    <3> QED BY <1>9, <1>12, <3>1, OpensDeep
  <2>2. Live(stack, Depth(file, i)) BY <1>1, <1>8, <1>12, <2>1 DEF Live
  <2>3. Tells(file, opts, i, k, stack[Depth(file, i) + 1]) BY <2>1, <2>2 DEF StackOK
  <2>4. CASE Depth(file, i) = d
    <3>1. i = top BY <1>2, <1>3, <2>1, <2>4, OneOpens
    <3>2. \A h \in Heads(file, i, k) : file[h].kind # "else"
      <4>1. Heads(file, i, k) \subseteq Heads(file, i, k + 1) \ {k + 1}
        <5>1. Heads(file, i, k) \subseteq Heads(file, i, k + 1) BY <2>1, HeadsStep
        <5>2. k + 1 \notin Heads(file, i, k) BY DEF Heads
        <5> QED BY <5>1, <5>2
      <4> QED BY <1>2, <3>1, <4>1
    <3>3. Tells(file, opts, i, k, b) BY <1>6, <2>3, <2>4
    <3>4. Depth(file, k + 1) = Depth(file, i) BY <1>1, <2>4
    <3>5. Tells(file, opts, i, k + 1, c) BY <1>6, <2>1, <3>2, <3>3, <3>4, TurnedTells DEF c
    <3> QED BY <1>8, <2>4, <3>5
  <2>5. CASE Depth(file, i) # d
    <3>1. st[Depth(file, i) + 1] = stack[Depth(file, i) + 1]
      <4>1. Depth(file, i) + 1 \in 1 .. d BY <1>1, <2>1, <2>5
      <4> QED BY <1>8, <4>1
    <3>2. Depth(file, k + 1) # Depth(file, i) BY <1>1, <2>5
    <3> QED BY <2>1, <2>3, <3>1, <3>2, TellsStep
  <2> QED BY <2>4, <2>5
<1> QED BY <1>1, <1>8, <1>10, <1>11, <1>12 DEF StackOK, st, c, b

-----------------------------------------------------------------------------
(***************************************************************************)
(* The file read line by line: the lines written so far are those of which *)
(* every block is in a live branch, in order.                              *)
(***************************************************************************)
Wanted(file, opts, k) ==
    /\ file[k].kind = "text"
    /\ \A i : i \in 1 .. Len(file) /\ BlockOpen(file, i, k) => InLiveBranch(file, i, k, opts)

ReadOK(file, opts, k, s) ==
    /\ s = [include |-> s.include, replace |-> s.replace, res |-> s.res]
    /\ StackOK(file, opts, k, s.include)
    /\ s.replace \in Nat /\ s.res \in Seq([line : Nat, by : Nat])
    /\ {s.res[n].line : n \in DOMAIN s.res} = {j \in 1 .. k : Wanted(file, opts, j)}
    /\ \A n \in 2 .. Len(s.res) : s.res[n - 1].line < s.res[n].line

(* A line of text is written when every entry of the stack says so.        *)
LEMMA LiveWanted ==
    ASSUME NEW file, FileOK(file), NEW opts, NEW k \in Nat, k + 1 <= Len(file), NEW stack,
           StackOK(file, opts, k + 1, stack), file[k + 1].kind = "text"
    PROVE  (\A n \in 1 .. Len(stack) : IncludeLine(stack[n])) <=> Wanted(file, opts, k + 1)
<1> DEFINE d == Depth(file, k + 1)
<1>1. k + 1 \in 0 .. Len(file) /\ Len(file) \in Nat BY DEF FileOK
<1>2. d \in Nat /\ Len(stack) = d + 1 BY <1>1, DepthNat DEF StackOK
<1>3. \A i : Opens(file, i, k + 1) <=> i \in 1 .. Len(file) /\ BlockOpen(file, i, k + 1)
  <2> TAKE i
  <2>1. ASSUME Opens(file, i, k + 1) PROVE i \in 1 .. Len(file) /\ BlockOpen(file, i, k + 1)
    <3>1. i \in 1 .. k + 1 /\ file[i].kind = "if" BY <2>1 DEF Opens
    <3>2. i # k + 1 BY <3>1
    <3>3. i < k + 1 /\ i \in 1 .. Len(file) BY <1>1, <3>1, <3>2
    <3> QED BY <2>1, <3>1, <3>3 DEF Opens, BlockOpen
  <2>2. ASSUME i \in 1 .. Len(file), BlockOpen(file, i, k + 1) PROVE Opens(file, i, k + 1)
    BY <2>2 DEF Opens, BlockOpen
  <2> QED BY <2>1, <2>2
<1>4. \A i : Opens(file, i, k + 1) =>
         /\ i \in 1 .. k + 1 /\ Depth(file, i) \in 1 .. d
         /\ Live(stack, Depth(file, i)) =>
               (IncludeLine(stack[Depth(file, i) + 1]) <=> InLiveBranch(file, i, k + 1, opts))
  <2> TAKE i
  <2> SUFFICES ASSUME Opens(file, i, k + 1)
               PROVE  /\ i \in 1 .. k + 1 /\ Depth(file, i) \in 1 .. d
                      /\ Live(stack, Depth(file, i)) =>
                           (IncludeLine(stack[Depth(file, i) + 1])
                              <=> InLiveBranch(file, i, k + 1, opts))
    OBVIOUS
  <2>1. i \in 1 .. k + 1 /\ Depth(file, i) \in 1 .. d BY <1>1, OpensDeep
  <2>2. ASSUME Live(stack, Depth(file, i))
        PROVE  Tells(file, opts, i, k + 1, stack[Depth(file, i) + 1])
    BY <2>2 DEF StackOK
  <2>3. k + 1 \in Nat OBVIOUS
  <2> QED BY <2>1, <2>2, <2>3, TellsLive
<1>5. ASSUME \A n \in 1 .. Len(stack) : IncludeLine(stack[n]) PROVE Wanted(file, opts, k + 1)
  <2> SUFFICES ASSUME NEW i, Opens(file, i, k + 1) PROVE InLiveBranch(file, i, k + 1, opts)
    BY <1>3 DEF Wanted
  <2>1. Depth(file, i) \in 1 .. d BY <1>4
  <2>2. Live(stack, Depth(file, i)) BY <1>2, <1>5, <2>1 DEF Live
  <2>3. Depth(file, i) + 1 \in 1 .. Len(stack) BY <1>2, <2>1
  <2> QED BY <1>4, <1>5, <2>2, <2>3
<1>6. ASSUME Wanted(file, opts, k + 1) PROVE \A n \in 1 .. Len(stack) : IncludeLine(stack[n])
  <2> DEFINE Dead == {n \in 1 .. Len(stack) : ~IncludeLine(stack[n])}
  <2> SUFFICES ASSUME Dead # {} PROVE FALSE OBVIOUS
  <2>1. PICK n \in Dead : \A m \in Dead : n <= m
    <3>1. Dead \subseteq Nat OBVIOUS
    <3> HIDE DEF Dead
    <3> QED BY <3>1, LeastElement
  <2>2. n # 1 BY <2>1 DEF StackOK
  <2>3. n - 1 \in 1 .. d BY <1>2, <2>1, <2>2
  <2>4. Live(stack, n - 1)
    <3> SUFFICES ASSUME NEW m \in 1 .. n - 1 PROVE IncludeLine(stack[m]) BY DEF Live
    <3>1. m \in 1 .. Len(stack) /\ m < n BY <1>2, <2>1, <2>3
    <3>2. m \notin Dead BY <1>2, <2>1, <2>3, <3>1
    <3> QED BY <3>1, <3>2
  <2>5. PICK i : Opens(file, i, k + 1) /\ Depth(file, i) = n - 1 BY <2>3 DEF StackOK
  <2>6. InLiveBranch(file, i, k + 1, opts) BY <1>3, <1>6, <2>5 DEF Wanted
  <2>7. (n - 1) + 1 = n BY <1>2, <2>1
  <2>8. IncludeLine(stack[n])
    <3>1. IncludeLine(stack[Depth(file, i) + 1]) <=> InLiveBranch(file, i, k + 1, opts)
      BY <1>4, <2>4, <2>5
    <3> QED BY <2>5, <2>6, <2>7, <3>1
  <2> QED BY <2>1, <2>8
<1> QED BY <1>5, <1>6

LEMMA WantedStep ==
    ASSUME NEW file, NEW opts, NEW k \in Nat
    PROVE  {j \in 1 .. k + 1 : Wanted(file, opts, j)} =
             IF Wanted(file, opts, k + 1) THEN {j \in 1 .. k : Wanted(file, opts, j)} \cup {k + 1}
                                         ELSE {j \in 1 .. k : Wanted(file, opts, j)}
<1>1. 1 .. k + 1 = (1 .. k) \cup {k + 1} OBVIOUS
<1> QED BY <1>1

(* Nothing written, no text                                                *)
LEMMA ReadOther ==
    ASSUME NEW file, FileOK(file), NEW opts, NEW k \in Nat, k + 1 <= Len(file), NEW s, NEW t,
           ReadOK(file, opts, k, s), t = [include |-> t.include, replace |-> t.replace, res |-> t.res],
           t.replace \in Nat, t.res = s.res, StackOK(file, opts, k + 1, t.include), ~Wanted(file, opts, k + 1)
    PROVE  ReadOK(file, opts, k + 1, t)
BY WantedStep DEF ReadOK

LEMMA ReadText ==
    ASSUME NEW file, FileOK(file), NEW opts, NEW k \in Nat, k + 1 <= Len(file), NEW s, NEW t,
           ReadOK(file, opts, k, s), Wanted(file, opts, k + 1), StackOK(file, opts, k + 1, s.include),
           t = [include |-> s.include, replace |-> 0,
                res |-> Append(s.res, [line |-> k + 1, by |-> s.replace])]
    PROVE  ReadOK(file, opts, k + 1, t)
<1> DEFINE new == [line |-> k + 1, by |-> s.replace]
           n   == Len(s.res)
           L   == {j \in 1 .. k : Wanted(file, opts, j)}
<1>1. s.res \in Seq([line : Nat, by : Nat]) /\ n \in Nat /\ DOMAIN s.res = 1 .. n BY DEF ReadOK
<1>2. new \in [line : Nat, by : Nat] BY DEF ReadOK
<1>4. t.res = Append(s.res, new) OBVIOUS
<1> HIDE DEF new
<1>5. /\ t.res \in Seq([line : Nat, by : Nat])
      /\ Len(t.res) = n + 1 /\ DOMAIN t.res = 1 .. n + 1
      /\ \A i \in 1 .. n : t.res[i] = s.res[i]
      /\ t.res[n + 1] = new
  BY <1>1, <1>2, <1>4
<1>6. new.line = k + 1 /\ new.by = s.replace BY DEF new
<1>7. {s.res[i].line : i \in 1 .. n} = L BY <1>1 DEF ReadOK
<1>8. {t.res[i].line : i \in 1 .. n + 1} = L \cup {k + 1}
  <2>1. 1 .. n + 1 = (1 .. n) \cup {n + 1} BY <1>1
  <2> HIDE DEF L
  <2> QED BY <1>5, <1>6, <1>7, <2>1
<1>10. \A i \in 2 .. n + 1 : t.res[i - 1].line < t.res[i].line
  <2> TAKE i \in 2 .. n + 1
  <2>1. CASE i = n + 1
    <3>1. n \in 1 .. n /\ i - 1 = n BY <1>1, <2>1
    <3>2. s.res[n].line \in L BY <1>7, <3>1
    <3>3. s.res[n].line \in 1 .. k BY <3>2
    <3>4. t.res[n].line \in 1 .. k /\ t.res[n + 1].line = k + 1 BY <1>5, <1>6, <3>1, <3>3
    <3>5. t.res[n].line < t.res[n + 1].line BY <3>4
    <3> QED BY <2>1, <3>1, <3>5
  <2>2. CASE i # n + 1
    <3>1. i \in 2 .. n /\ i \in 1 .. n /\ i - 1 \in 1 .. n BY <1>1, <2>2
    <3> QED BY <1>5, <3>1 DEF ReadOK
  <2> QED BY <2>1, <2>2
<1>11. {j \in 1 .. k + 1 : Wanted(file, opts, j)} = L \cup {k + 1} BY WantedStep
<1> HIDE DEF L
<1>13. {t.res[i].line : i \in DOMAIN t.res} = {j \in 1 .. k + 1 : Wanted(file, opts, j)}
  BY <1>5, <1>8, <1>11
<1>14. \A i \in 2 .. Len(t.res) : t.res[i - 1].line < t.res[i].line BY <1>5, <1>10
<1>15. t = [include |-> t.include, replace |-> t.replace, res |-> t.res] /\ t.include = s.include
      /\ t.replace \in Nat
  OBVIOUS
<1> QED BY <1>5, <1>13, <1>14, <1>15 DEF ReadOK

LEMMA LineRead ==
    ASSUME NEW file, FileOK(file), NEW opts, NEW k \in Nat, k + 1 <= Len(file), NEW s,
           ReadOK(file, opts, k, s)
    PROVE  ReadOK(file, opts, k + 1, ReadLine(s, file, k + 1, opts))
<1> DEFINE line == file[k + 1]
           t    == ReadLine(s, file, k + 1, opts)
           top  == Last(s.include)
<1> SUFFICES ReadOK(file, opts, k + 1, t) OBVIOUS
<1>1. line.kind \in LineKinds
  <2>1. k + 1 \in 1 .. Len(file) BY DEF FileOK
  <2>2. line \in Line BY <2>1 DEF FileOK
  <2> QED BY <2>2 DEF Line
<1>2. s = [include |-> s.include, replace |-> s.replace, res |-> s.res] /\ StackOK(file, opts, k, s.include)
      /\ s.replace \in Nat
  BY DEF ReadOK
<1>3. CASE line.kind = "replace"
  <2>1. t = [s EXCEPT !.replace = k + 1] BY <1>3 DEF ReadLine
  <2>2. t = [include |-> s.include, replace |-> k + 1, res |-> s.res] BY <1>2, <2>1
  <2>3. StackOK(file, opts, k + 1, s.include) BY <1>2, <1>3, StackStays
  <2>4. ~Wanted(file, opts, k + 1) BY <1>3 DEF Wanted
  <2> HIDE DEF t
  <2>5. t.include = s.include /\ t.res = s.res /\ t.replace \in Nat BY <1>2, <2>2
  <2> QED BY <2>2, <2>3, <2>4, <2>5, ReadOther
<1>4. CASE line.kind = "if"
  <2> DEFINE st == Append(s.include, NewIf(IncludeLine(top) /\ Evaluate(line, opts)))
  <2>1. t = [s EXCEPT !.include = st] BY <1>4 DEF ReadLine
  <2>2. t = [include |-> st, replace |-> s.replace, res |-> s.res]
    <3> HIDE DEF st, t
    <3> QED BY <1>2, <2>1
  <2>3. StackOK(file, opts, k + 1, st) BY <1>2, <1>4, StackPushed
  <2>4. ~Wanted(file, opts, k + 1) BY <1>4 DEF Wanted
  <2> HIDE DEF t, st
  <2>5. t.include = st /\ t.res = s.res /\ t.replace \in Nat BY <1>2, <2>2
  <2> QED BY <2>2, <2>3, <2>4, <2>5, ReadOther
<1>5. CASE line.kind \in {"elif", "else"}
  <2> DEFINE st == Append(Pop(s.include), Turned(top, line, opts))
  <2>1. t = [s EXCEPT !.include = st] BY <1>5 DEF ReadLine, Turned
  <2>2. t = [include |-> st, replace |-> s.replace, res |-> s.res]
    <3> HIDE DEF st, t
    <3> QED BY <1>2, <2>1
  <2>3. StackOK(file, opts, k + 1, st) BY <1>2, <1>5, StackTurned
  <2>4. ~Wanted(file, opts, k + 1) BY <1>5 DEF Wanted
  <2> HIDE DEF t, st
  <2>5. t.include = st /\ t.res = s.res /\ t.replace \in Nat BY <1>2, <2>2
  <2> QED BY <2>2, <2>3, <2>4, <2>5, ReadOther
<1>6. CASE line.kind = "endif"
  <2> DEFINE st == Pop(s.include)
  <2>1. t = [s EXCEPT !.include = st] BY <1>6 DEF ReadLine
  <2>2. t = [include |-> st, replace |-> s.replace, res |-> s.res]
    <3> HIDE DEF st, t
    <3> QED BY <1>2, <2>1
  <2>3. StackOK(file, opts, k + 1, st) BY <1>2, <1>6, StackPopped
  <2>4. ~Wanted(file, opts, k + 1) BY <1>6 DEF Wanted
  <2> HIDE DEF t, st
  <2>5. t.include = st /\ t.res = s.res /\ t.replace \in Nat BY <1>2, <2>2
  <2> QED BY <2>2, <2>3, <2>4, <2>5, ReadOther
<1>7. CASE line.kind = "text"
  <2>1. StackOK(file, opts, k + 1, s.include) BY <1>2, <1>7, StackStays
  <2>2. (\A n \in 1 .. Len(s.include) : IncludeLine(s.include[n])) <=> Wanted(file, opts, k + 1)
    BY <1>7, <2>1, LiveWanted
  <2>3. t = IF \A n \in 1 .. Len(s.include) : IncludeLine(s.include[n])
              THEN [include |-> s.include, replace |-> 0,
                    res |-> Append(s.res, [line |-> k + 1, by |-> s.replace])]
              ELSE s
    BY <1>7 DEF ReadLine
  <2> HIDE DEF t
  <2>4. CASE Wanted(file, opts, k + 1) BY <1>2, <2>1, <2>2, <2>3, <2>4, ReadText
  <2>5. CASE ~Wanted(file, opts, k + 1) BY <1>2, <2>1, <2>2, <2>3, <2>5, ReadOther
  <2> QED BY <2>4, <2>5
<1> QED BY <1>1, <1>3, <1>4, <1>5, <1>6, <1>7 DEF LineKinds

(* The reading of process_file: the first k lines read, k = 0 .. n         *)
AtStart == [include |-> <<Root>>, replace |-> 0, res |-> <<>>]

IsReading(f, file, opts, n) ==
    f = [k \in 0 .. n |-> IF k = 0 THEN AtStart ELSE ReadLine(f[k - 1], file, k, opts)]

LEMMA ReadingExists ==
    ASSUME NEW file, NEW opts, NEW n \in Nat
    PROVE  \E f : IsReading(f, file, opts, n)
<1> DEFINE T == {k \in Nat : ~ \E f : IsReading(f, file, opts, k)}
<1> SUFFICES ASSUME T # {} PROVE FALSE OBVIOUS
<1>1. PICK k \in T : \A y \in T : k <= y
  <2>1. T \subseteq Nat OBVIOUS
  <2> HIDE DEF T
  <2> QED BY <2>1, LeastElement
<1>2. CASE k = 0
  <2> DEFINE f == [i \in 0 .. 0 |-> AtStart]
  <2>1. IsReading(f, file, opts, 0) BY DEF IsReading
  <2> QED BY <1>1, <1>2, <2>1
<1>3. CASE k # 0
  <2>1. k - 1 \in Nat /\ k - 1 \notin T BY <1>1, <1>3
  <2>2. PICK f : IsReading(f, file, opts, k - 1) BY <2>1
  <2> DEFINE g == [i \in 0 .. k |-> IF i = k THEN ReadLine(f[k - 1], file, k, opts) ELSE f[i]]
  <2>3. \A i \in 0 .. k : g[i] = IF i = 0 THEN AtStart ELSE ReadLine(g[i - 1], file, i, opts)
    <3> TAKE i \in 0 .. k
    <3>0. \A j \in 0 .. k - 1 :
             f[j] = IF j = 0 THEN AtStart ELSE ReadLine(f[j - 1], file, j, opts)
      BY <2>2 DEF IsReading
    <3>1. CASE i = k BY <3>1, <1>3, <2>1
    <3>2. CASE i # k
      <4>1. i \in 0 .. k - 1 /\ g[i] = f[i] BY <3>2
      <4>2. CASE i = 0 BY <4>1, <4>2, <3>0
      <4>3. CASE i # 0
        <5>1. g[i - 1] = f[i - 1] BY <4>1, <4>3
        <5> QED BY <4>1, <4>3, <5>1, <3>0
      <4> QED BY <4>2, <4>3
    <3> QED BY <3>1, <3>2
  <2>4. IsReading(g, file, opts, k) BY <2>3 DEF IsReading
  <2> QED BY <1>1, <2>4
<1> QED BY <1>2, <1>3

LEMMA AtStartOK ==
    ASSUME NEW file, NEW opts
    PROVE  ReadOK(file, opts, 0, AtStart)
<1>1. Root \in Entries /\ IncludeLine(Root) BY DEF Root, Entries, IncludeLine
<1>2. <<Root>> \in Seq(Entries) /\ Len(<<Root>>) = 1 /\ <<Root>>[1] = Root BY <1>1
<1>3. \A i : ~Opens(file, i, 0) BY DEF Opens
<1>4. StackOK(file, opts, 0, <<Root>>) BY <1>1, <1>2, <1>3, DepthAtStart DEF StackOK
<1>5. <<>> \in Seq([line : Nat, by : Nat]) /\ DOMAIN <<>> = {} /\ Len(<<>>) = 0 OBVIOUS
<1>6. {j \in 1 .. 0 : Wanted(file, opts, j)} = {} OBVIOUS
<1> QED BY <1>4, <1>5, <1>6 DEF ReadOK, AtStart

LEMMA ReadingOK ==
    ASSUME NEW file, FileOK(file), NEW opts, NEW f, IsReading(f, file, opts, Len(file))
    PROVE  ReadOK(file, opts, Len(file), f[Len(file)])
<1> DEFINE n == Len(file)
           T == {k \in 0 .. n : ~ReadOK(file, opts, k, f[k])}
<1>1. n \in Nat BY DEF FileOK
<1>2. \A k \in 0 .. n : f[k] = IF k = 0 THEN AtStart ELSE ReadLine(f[k - 1], file, k, opts)
  BY DEF IsReading
<1> SUFFICES ASSUME n \in T PROVE FALSE BY <1>1
<1>3. PICK k \in T : \A y \in T : k <= y
  <2>1. T \subseteq Nat OBVIOUS
  <2> HIDE DEF T
  <2> QED BY <2>1, LeastElement
<1>4. k # 0 BY <1>1, <1>2, <1>3, AtStartOK
<1> DEFINE j == k - 1
<1>5. j \in 0 .. n /\ j \notin T /\ k = j + 1 /\ j \in Nat /\ j + 1 <= n BY <1>1, <1>3, <1>4
<1>6. f[k] = ReadLine(f[j], file, j + 1, opts) BY <1>2, <1>3, <1>4, <1>5
<1>7. ReadOK(file, opts, j, f[j]) BY <1>5
<1> HIDE DEF j
<1>8. ReadOK(file, opts, k, f[k]) BY <1>5, <1>6, <1>7, LineRead
<1> QED BY <1>3, <1>8

(* The lines process_file writes, of a template file that is well formed,  *)
(* are those that the directives promise, in order.                        *)
LEMMA ProcessedAsPromised ==
    ASSUME NEW f, f.lines \in Seq(Line), WellFormed(f.lines), NEW opts
    PROVE  /\ {ProcessFile(f, opts)[k].line : k \in DOMAIN ProcessFile(f, opts)} = LinesPromised(f, opts)
           /\ \A k \in 2 .. Len(ProcessFile(f, opts)) :
                 ProcessFile(f, opts)[k - 1].line < ProcessFile(f, opts)[k].line
<1> DEFINE w == ProcessFile(f, opts)
<1>1. CASE ~Evaluate(f.head, opts)
  <2>1. w = <<[line |-> 0, by |-> 0]>> BY <1>1 DEF ProcessFile, NotIncluded
  <2>2. LinesPromised(f, opts) = {0} BY <1>1 DEF LinesPromised
  <2>3. DOMAIN w = {1} /\ Len(w) = 1 /\ w[1].line = 0 BY <2>1
  <2> HIDE DEF w
  <2>4. {w[k].line : k \in DOMAIN w} = {0} BY <2>3
  <2> QED BY <2>2, <2>3, <2>4 DEF w
<1>2. CASE Evaluate(f.head, opts)
  <2> DEFINE file == f.lines
             n    == Len(file)
             r    == CHOOSE r : IsReading(r, file, opts, n)
  <2>1. n \in Nat /\ FileOK(file) BY DEF FileOK
  <2>2. IsReading(r, file, opts, n) BY <2>1, ReadingExists
  <2>3. w = r[n].res BY <1>2 DEF ProcessFile, IsReading, AtStart
  <2> HIDE DEF r
  <2>4. ReadOK(file, opts, n, r[n]) BY <2>1, <2>2, ReadingOK
  <2>5. LinesPromised(f, opts) = {j \in 1 .. n : Wanted(file, opts, j)}
    BY <1>2 DEF LinesPromised, Wanted
  <2> HIDE DEF w
  <2>6. /\ {w[k].line : k \in DOMAIN w} = {j \in 1 .. n : Wanted(file, opts, j)}
        /\ \A k \in 2 .. Len(w) : w[k - 1].line < w[k].line
    BY <2>3, <2>4 DEF ReadOK
  <2> QED BY <2>5, <2>6 DEF w
<1> QED BY <1>1, <1>2

-----------------------------------------------------------------------------
(* The files of the project: each is what process_file makes of it.        *)
FilesInv == phase = "done" => project.files = [f \in Files |-> ProcessFile(f, project.opts)]

LEMMA GenerateFiles == Generate => FilesInv'
<1> SUFFICES ASSUME Generate, phase' = "done" PROVE FilesInv' BY DEF FilesInv
<1>1. \E tool, opts : project' = [tool  |-> tool, opts |-> opts,
                                 files |-> [f \in Files |-> ProcessFile(f, opts)]]
  BY DEF Generate
<1> QED BY <1>1 DEF FilesInv

LEMMA FilesStay == FilesInv /\ [Next]_vars => FilesInv'
<1> SUFFICES ASSUME FilesInv, [Next]_vars PROVE FilesInv' OBVIOUS
<1>1. CASE Generate BY <1>1, GenerateFiles
<1>2. CASE ~Generate
  <2>1. project' = project /\ (phase' = "done" => phase = "done")
    BY <1>2 DEF Next, Start, ScanEnds, ScanDies, Frame, NoKey, Toggle, EnterGroup, Up, AskToQuit,
                AnswerToQuit, Save, Key, vars
  <2> QED BY <2>1 DEF FilesInv
<1> QED BY <1>1, <1>2

-----------------------------------------------------------------------------
(* The theorems. *)

(* The tables are those main made or those with the toolchains, and what   *)
(* is selected is found first in them and is consistent.                   *)
THEOREM Invariant == Spec => []IInv
<1>1. Init => IInv BY InitOK
<1>2. IInv /\ [Next]_vars => IInv' BY NextOK
<1> QED BY <1>1, <1>2, PTL DEF Spec

(* Whatever is selected and deselected, in whatever order, by whoever: an  *)
(* option selected has what it requires and is alone in its group (the     *)
(* rules of config.rs, toggle_current and process_options).                *)
THEOREM AlwaysConsistent == Spec => []SelectionConsistent
<1>1. IInv => SelectionConsistent BY DEF IInv, Selection, SelectionConsistent
<1> QED BY <1>1, Invariant, PTL

(* What the interface saves, main can generate from its own tree, and the  *)
(* toolchain of the project is one the scan found, or none.                *)
THEOREM AlwaysGenerated == Spec => []SavedIsGenerated
<1>1. IInv => SavedIsGenerated BY DEF IInv
<1> QED BY <1>1, Invariant, PTL

(* The toolchains that arrive (populate_toolchain_category_from_list) do   *)
(* not change what is selected.                                            *)
THEOREM SelectionKept == Spec => ScanKeepsSelection
<1>1. IInv /\ [Next]_vars => [phase = "tui" /\ flat' # flat => SelectedNames' = SelectedNames]_vars
  <2> SUFFICES ASSUME IInv, Next, phase = "tui", flat' # flat
               PROVE  SelectedNames' = SelectedNames
    OBVIOUS
  <2>1. Frame
    BY DEF Next, Start, ScanEnds, ScanDies, NoKey, Toggle, EnterGroup, Up, AskToQuit,
           AnswerToQuit, Save, Generate, Key, tableVars
  <2>2. scan.st = "ok" /\ ~populated /\ scan.list # << >>
    BY <2>1 DEF Frame, PopulateToolchains, tableVars
  <2> QED BY <2>1, <2>2, TakeOver
<1> QED BY <1>1, Invariant, PTL DEF Spec, ScanKeepsSelection

(* process_file writes of every template file, for every set of options,   *)
(* exactly the lines that each block around them admits, once and in order.*)
THEOREM FilesAsPromised == Spec => []FilesFollowConditions
<1>1. Init => FilesInv BY DEF Init, FilesInv
<1>2. FilesInv /\ [Next]_vars => FilesInv' BY FilesStay
<1>3. FilesInv => FilesFollowConditions
  <2> SUFFICES ASSUME FilesInv, phase = "done", NEW f \in Files
               PROVE  LET written == project.files[f]
                      IN /\ {written[k].line : k \in DOMAIN written} = LinesPromised(f, project.opts)
                         /\ \A k \in 2 .. Len(written) : written[k - 1].line < written[k].line
    BY DEF FilesFollowConditions
  <2>1. project.files[f] = ProcessFile(f, project.opts) BY DEF FilesInv
  <2>2. f.lines \in Seq(Line) /\ WellFormed(f.lines) BY FilesAssumption
  <2> QED BY <2>1, <2>2, ProcessedAsPromised
<1> QED BY <1>1, <1>2, <1>3, PTL DEF Spec
=============================================================================
