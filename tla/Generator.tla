------------------------------ MODULE Generator ------------------------------
(***************************************************************************)
(* esp-generate (contrib/esp-generate): the tool that writes a project     *)
(* from a template and the options chosen for it.  The options come from   *)
(* the command line, checked by process_options, and are then changed in a *)
(* terminal interface, one key at a time, under the rules of config.rs: an *)
(* option may require others, or groups of others, to be selected or not,  *)
(* and at most one option of a group is.  Meanwhile a thread scans the     *)
(* installed toolchains; when it is done the menu and two tables of        *)
(* options are rewritten under the user's hands.                           *)
(*                                                                         *)
(* The options selected are positions in the table flat_options; their     *)
(* order matters to nothing but the wording of a line in the project, so   *)
(* selected says how many times each position occurs in the code's vector. *)
(* The cursor is not modelled: a frame is drawn, and clamps it, before     *)
(* every key, so a key acts on some item of the level last drawn.          *)
(***************************************************************************)
EXTENDS Preprocess, Functions

CONSTANTS
    Chips,        \* the chips
    Xtensa,       \* those whose target is an Xtensa one
    Template,     \* the options of template.yaml, in the order flatten_options gives
    CatRequires,  \* the requirements of each category
    Modules,      \* the modules of each chip, a sequence of names
    Reserved,     \* the modules with GPIOs to reserve
    ToolLists,    \* the orders in which rustup may list toolchains
    Generic,      \* the stable, beta and nightly toolchains
    CommandLines, \* how many times -o names each option
    Files,        \* the files of the template
    Top,          \* the top level of the menu, no category
    NoTool        \* no toolchain given or selected

Cats      == DOMAIN CatRequires
Names     == {o.name : o \in Range(Template)}
ModNames  == UNION {Range(Modules[c]) : c \in Chips}
ToolNames == UNION {Range(l) : l \in ToolLists}
NoName    == ""     \* the name of the toolchain placeholder, and no group

-----------------------------------------------------------------------------
(* The template and its categories. *)

(* remove_incompatible_chip_options; a category left empty has no items.   *)
Compatible(o, chip) == o.chips = {} \/ chip \in o.chips
ForChip(chip) == SelectSeq(Template, LAMBDA o : Compatible(o, chip))

(* The placeholder, copied for one module or toolchain. *)
Instantiate(o, name, group) ==
    [name |-> name, group |-> group, requires |-> o.requires, chips |-> o.chips, cat |-> o.cat]
Copies(o, names, group) == [k \in 1 .. Len(names) |-> Instantiate(o, names[k], group)]

(* populate_module_category and populate_toolchain_category_from_list: the *)
(* one option of the category, the placeholder, makes way for its copies.  *)
Rewrite(options, cat, names) ==
    IF \E p \in 1 .. Len(options) : options[p].cat = cat
    THEN LET p == CHOOSE q \in 1 .. Len(options) : options[q].cat = cat
         IN SubSeq(options, 1, p - 1) \o Copies(options[p], names, cat)
              \o SubSeq(options, p + 1, Len(options))
    ELSE options

(* The table of a chip, as main makes it before anything is selected.      *)
Base(chip) == Rewrite(ForChip(chip), "module", Modules[chip])

(* What the rewriting of the toolchain category pushes on flat_options.    *)
Pushed(options, names) ==
    IF \E p \in 1 .. Len(options) : options[p].cat = "toolchain"
    THEN Copies(options[CHOOSE q \in 1 .. Len(options) : options[q].cat = "toolchain"],
                names, "toolchain")
    ELSE << >>

Positions(options, name) == {i \in 1 .. Len(options) : options[i].name = name}
First(options, name) ==
    CHOOSE i \in Positions(options, name) : \A j \in Positions(options, name) : i <= j

-----------------------------------------------------------------------------
VARIABLES
    chip, headless, cli, cliTool,   \* the arguments
    phase,      \* "args", "tui", "generate", and how it ends
    flat,       \* the interface's flat_options
    menu,       \* its tree of options, flattened
    template,   \* main's own tree, flattened
    selected,   \* position in flat -> how often it is selected
    at,         \* the category shown
    confirm,    \* confirm_quit
    drawn,      \* a frame has been drawn and its key is awaited
    loading,    \* toolchains_loading
    populated,  \* toolchains_populated
    scan,       \* the scan thread and its result
    chosen,     \* the names that generation starts from
    project     \* what has been generated

vars == <<chip, headless, cli, cliTool, phase, flat, menu, template, selected, at, confirm,
          drawn, loading, populated, scan, chosen, project>>
argVars == <<chip, headless, cli, cliTool>>
tableVars == <<flat, menu, template>>
scanVars == <<loading, populated, scan>>

-----------------------------------------------------------------------------
(* config.rs: the options selected (sel, positions in the table t) and what *)
(* they allow.                                                             *)

Selected == {i \in 1 .. Len(flat) : selected[i] > 0}

IsSelected(t, sel, name) == \E s \in sel : t[s].name = name
IsGroupSelected(t, sel, group) == \E s \in sel : t[s].group = group
GroupExists(t, group) == \E i \in 1 .. Len(t) : t[i].group = group

RequirementMet(t, sel, r) ==
    \/ IsSelected(t, sel, r.key) = r.on
    \/ GroupExists(t, r.key) /\ IsGroupSelected(t, sel, r.key) = r.on
RequirementsMet(t, sel, requires) == \A r \in requires : RequirementMet(t, sel, r)

\* A plausible slip: what the options already selected exclude is forgotten.
IsOptionActive_NotExcluded(t, sel, o) ==
    Compatible(o, chip) /\ RequirementsMet(t, sel, o.requires)
IsOptionActive(t, sel, o) ==
    /\ Compatible(o, chip)
    /\ RequirementsMet(t, sel, o.requires)
    /\ \A s \in sel : [key |-> o.name, on |-> FALSE] \notin t[s].requires

(* No option selected requires option i, nor, unless another of its group  *)
(* is to replace it, the group.                                            *)
CanBeDisabled(t, sel, i, allowDeselectingGroup) ==
    \A s \in sel : \A r \in t[s].requires :
       r.on => /\ r.key # t[i].name
               /\ r.key = t[i].group => allowDeselectingGroup

(* deselect_group: what of the group is selected, and may it go?           *)
OfGroup(t, sel, group) == IF group = NoName THEN {} ELSE {s \in sel : t[s].group = group}
CanDeselectGroup(t, sel, group) ==
    \A s \in OfGroup(t, sel, group) : CanBeDisabled(t, sel, s, TRUE)

(* select_idx. *)
SelectIdx(i) ==
    IF /\ IsOptionActive(flat, Selected, flat[i])
       /\ CanDeselectGroup(flat, Selected, flat[i].group)
    THEN selected' = [j \in DOMAIN selected |->
                        LET kept == IF j \in OfGroup(flat, Selected, flat[i].group)
                                      THEN 0 ELSE selected[j]
                        IN IF j = i THEN kept + 1 ELSE kept]
    ELSE UNCHANGED selected

-----------------------------------------------------------------------------
(* main.rs, process_options: the command line must select what the         *)
(* interface would have let the user select.  Names of no option are       *)
(* dropped before they are looked at.                                      *)

(* The vector collected from the names on the command line. *)
FromNames(t, count) ==
    [i \in 1 .. Len(t) |->
        IF i = First(t, t[i].name) /\ t[i].name \in DOMAIN count THEN count[t[i].name] ELSE 0]

(* Every option of a selected name that the chip has. *)
Named(t, sel) == {i \in 1 .. Len(t) : Compatible(t[i], chip) /\ IsSelected(t, sel, t[i].name)}

ProcessOptions(t, sel) ==
    /\ \A s \in sel : \E i \in Named(t, sel) : t[i].name = t[s].name
    /\ \A i \in Named(t, sel) : IsOptionActive(t, sel, t[i])
    /\ \A i, j \in Named(t, sel) :
          t[i].group # NoName /\ t[i].group = t[j].group => t[i].name = t[j].name

(* initial_selected: the options named, and the toolchain when one is.     *)
InitialSelected ==
    IF cliTool = NoTool THEN cli
    ELSE [n \in DOMAIN cli \cup {cliTool} |->
            (IF n \in DOMAIN cli THEN cli[n] ELSE 0) + (IF n = cliTool THEN 1 ELSE 0)]

(* main, up to the loop or, without the interface, to the generation.      *)
Start ==
    /\ phase = "args"
    /\ LET base == Base(chip)
           sel  == FromNames(base, cli)
       IN /\ flat' = base /\ menu' = base /\ template' = base
          /\ selected' = FromNames(base, InitialSelected)
          /\ phase' = IF ~ProcessOptions(base, {i \in 1 .. Len(base) : sel[i] > 0})
                        THEN "invalid"
                        ELSE IF headless THEN "generate" ELSE "tui"
          /\ chosen' = IF headless
                         THEN {n \in DOMAIN InitialSelected : InitialSelected[n] > 0}
                         ELSE {}
    /\ scan' = IF headless THEN scan ELSE [scan EXCEPT !.st = "running"]
    /\ UNCHANGED <<argVars, at, confirm, drawn, loading, populated, project>>

-----------------------------------------------------------------------------
(* toolchain.rs. *)

(* find_toolchains: which lists it may return, and when it fails.          *)
Hidden == IF chip \in Xtensa THEN Generic ELSE {}
ScanFails(list) == cliTool # NoTool /\ cliTool \notin Range(list)
ScanEnds ==
    /\ phase = "tui" /\ scan.st = "running"
    /\ \E list \in ToolLists :
          /\ Range(list) \cap Hidden = {}
          /\ cliTool \in Range(list) => list[1] = cliTool
          /\ scan' = IF ScanFails(list) THEN [st |-> "err", list |-> << >>]
                                        ELSE [st |-> "ok", list |-> list]
    /\ UNCHANGED <<argVars, phase, tableVars, selected, at, confirm, drawn, loading,
                   populated, chosen, project>>

(* The scan thread dies without an answer. *)
ScanDies ==
    /\ phase = "tui" /\ scan.st = "running"
    /\ scan' = [st |-> "ok", list |-> << >>]
    /\ UNCHANGED <<argVars, phase, tableVars, selected, at, confirm, drawn, loading,
                   populated, chosen, project>>

\* A plausible slip: main's own tree is left with the placeholder.
PopulateToolchains_MenuOnly(list) ==
    IF list = << >> THEN UNCHANGED tableVars
    ELSE /\ flat' = flat \o Pushed(menu, list)
         /\ menu' = Rewrite(menu, "toolchain", list)
         /\ UNCHANGED template
\* A plausible slip: the table is flattened again from the rewritten tree.
PopulateToolchains_Flattened(list) ==
    IF list = << >> THEN UNCHANGED tableVars
    ELSE /\ flat' = Rewrite(menu, "toolchain", list)
         /\ menu' = Rewrite(menu, "toolchain", list)
         /\ template' = Rewrite(template, "toolchain", list)
(* populate_toolchain_category_from_list, for main's tree and for the      *)
(* interface's tree and table.                                             *)
PopulateToolchains(list) ==
    IF list = << >> THEN UNCHANGED tableVars
    ELSE /\ flat' = flat \o Pushed(menu, list)
         /\ menu' = Rewrite(menu, "toolchain", list)
         /\ template' = Rewrite(template, "toolchain", list)

(* The start of a turn of main's loop: the scan is polled, a frame drawn.  *)
Frame ==
    /\ phase = "tui" /\ ~drawn
    /\ drawn' = TRUE
    /\ loading' = (scan.st = "running")
    /\ populated' = (populated \/ scan.st # "running")
    /\ IF scan.st = "ok" /\ ~populated THEN PopulateToolchains(scan.list)
                                       ELSE UNCHANGED tableVars
    /\ selected' = [i \in 1 .. Len(flat') |-> IF i \in DOMAIN selected THEN selected[i] ELSE 0]
    /\ UNCHANGED <<argVars, phase, at, confirm, scan, chosen, project>>

-----------------------------------------------------------------------------
(* tui.rs: the keys. *)

(* is_active, for a category, and current_level_is_active.                 *)
CategoryIsActive(c) ==
    /\ RequirementsMet(flat, Selected, CatRequires[c])
    /\ \E i \in 1 .. Len(menu) : menu[i].cat = c /\ IsOptionActive(flat, Selected, menu[i])
LevelIsActive == at = Top \/ CategoryIsActive(at)

(* A turn of the loop that ends without a key, or with one that only moves *)
(* the cursor.                                                             *)
NoKey ==
    /\ phase = "tui" /\ drawn
    /\ drawn' = FALSE
    /\ UNCHANGED <<argVars, phase, tableVars, selected, at, confirm, scanVars, chosen, project>>

Key == phase = "tui" /\ drawn /\ ~confirm /\ drawn' = FALSE

(* Enter on an option: toggle_current.  swap_remove takes one occurrence   *)
(* of a position away.                                                     *)
Toggle(i) ==
    /\ Key
    /\ menu[i].cat = at
    /\ ~(loading /\ at = "toolchain")
    /\ LET name == menu[i].name
       IN IF ~LevelIsActive \/ ~IsOptionActive(flat, Selected, menu[i])
            THEN UNCHANGED selected
          ELSE IF IsSelected(flat, Selected, name)
            THEN IF CanBeDisabled(flat, Selected, First(flat, name), FALSE)
                   THEN \E s \in Selected :
                          /\ flat[s].name = name
                          /\ selected' = [selected EXCEPT ![s] = @ - 1]
                   ELSE UNCHANGED selected
          ELSE SelectIdx(First(flat, name))
    /\ UNCHANGED <<argVars, phase, tableVars, at, confirm, scanVars, chosen, project>>

(* Enter on a category; Left and Escape in one. *)
EnterGroup(c) ==
    /\ Key /\ at = Top
    /\ \E i \in 1 .. Len(menu) : menu[i].cat = c
    /\ at' = c
    /\ UNCHANGED <<argVars, phase, tableVars, selected, confirm, scanVars, chosen, project>>
Up ==
    /\ Key /\ at # Top
    /\ at' = Top
    /\ UNCHANGED <<argVars, phase, tableVars, selected, confirm, scanVars, chosen, project>>

(* q, or Escape at the top; then y quits and any other key does not.       *)
AskToQuit ==
    /\ Key
    /\ confirm' = TRUE
    /\ UNCHANGED <<argVars, phase, tableVars, selected, at, scanVars, chosen, project>>
AnswerToQuit ==
    /\ phase = "tui" /\ drawn /\ confirm
    /\ drawn' = FALSE
    /\ \/ phase' = "quit" /\ UNCHANGED confirm
       \/ confirm' = FALSE /\ UNCHANGED phase
    /\ UNCHANGED <<argVars, tableVars, selected, at, scanVars, chosen, project>>

(* s: selected_options. *)
Save ==
    /\ Key
    /\ phase' = "generate"
    /\ chosen' = {flat[s].name : s \in Selected}
    /\ UNCHANGED <<argVars, tableVars, selected, at, confirm, scanVars, project>>

-----------------------------------------------------------------------------
(* main, after the interface: every name chosen is looked up in the tree   *)
(* of main (unwrap: a name it lacks ends the program), and the files are   *)
(* written.                                                                *)

Found(n) == template[First(template, n)]
ChosenOf(group) == {n \in chosen : Positions(template, n) # {} /\ Found(n).group = group}
OneOf(names, none) == IF names = {} THEN {none} ELSE names

Options(tool, module) ==
         chosen \cup {Found(n).group : n \in chosen}
    \cup {chip, IF chip \in Xtensa THEN "xtensa" ELSE "riscv"}
    \cup (IF tool # NoTool THEN {"toolchain-selected"} ELSE {})
    \cup (IF module \in Reserved THEN {"module-selected"} ELSE {})

Generate ==
    /\ phase = "generate"
    /\ IF \E n \in chosen : Positions(template, n) = {}
         THEN phase' = "panicked" /\ UNCHANGED project
         ELSE /\ phase' = "done"
              /\ \E tool \in (IF headless THEN {cliTool} ELSE OneOf(ChosenOf("toolchain"), NoTool)),
                    module \in OneOf(ChosenOf("module"), NoName) :
                   project' = [tool  |-> tool,
                               opts  |-> Options(tool, module),
                               files |-> [f \in Files |-> ProcessFile(f, Options(tool, module))]]
    /\ UNCHANGED <<argVars, tableVars, selected, at, confirm, drawn, scanVars, chosen>>

-----------------------------------------------------------------------------
NoProject == [tool |-> NoTool, opts |-> {}, files |-> [f \in Files |-> NotIncluded]]

Init ==
    /\ chip \in Chips
    /\ headless \in BOOLEAN
    /\ cli \in CommandLines
    /\ cliTool \in ToolNames \cup {NoTool}
    /\ phase = "args"
    /\ flat = << >> /\ menu = << >> /\ template = << >>
    /\ selected = << >>
    /\ at = Top /\ confirm = FALSE /\ drawn = FALSE
    /\ loading = FALSE /\ populated = FALSE
    /\ scan = [st |-> "none", list |-> << >>]
    /\ chosen = {}
    /\ project = NoProject

Next ==
    \/ Start \/ ScanEnds \/ ScanDies \/ Frame \/ NoKey
    \/ \E i \in 1 .. Len(menu) : Toggle(i)
    \/ \E c \in Cats : EnterGroup(c)
    \/ Up \/ AskToQuit \/ AnswerToQuit \/ Save \/ Generate

Spec == Init /\ [][Next]_vars

-----------------------------------------------------------------------------
(* The constants are as template.yaml, the modules and the command line    *)
(* make them, and as the comments of config.rs and main.rs ask.            *)

Requirements == [key : STRING, on : BOOLEAN]
Groups == {o.group : o \in Range(Template)} \cup {"module", "toolchain"}
Option == [name : STRING, group : Groups, requires : SUBSET Requirements,
           chips : SUBSET Chips, cat : Cats \cup {Top}]

(* No option requires another of its own group, which selecting it would   *)
(* take away, or excludes itself; and none excludes a group, which         *)
(* RequirementMet does not see to.                                         *)
SoundTable(t) ==
    \A i \in 1 .. Len(t) : \A r \in t[i].requires :
       IF r.on
         THEN \A j \in 1 .. Len(t) :
                t[j].name = r.key /\ t[j].group = t[i].group => t[i].group = NoName
         ELSE r.key # t[i].name /\ ~GroupExists(t, r.key)

ASSUME TableAssumption ==
    /\ ToolLists \subseteq Seq(STRING)
    /\ \A c \in Chips :
          /\ Base(c) \in Seq(Option)
          /\ \A i \in 1 .. Len(Base(c)) : Compatible(Base(c)[i], c)
          /\ SoundTable(Base(c))
          /\ \A l \in ToolLists : SoundTable(Base(c) \o Pushed(Base(c), l))

(* The toolchain category has one option, the placeholder; nothing else    *)
(* has its name or is in the group of toolchains.                          *)
ASSUME PlaceholderAssumption ==
    \A c \in Chips : \A i, j \in 1 .. Len(Base(c)) :
       /\ Base(c)[i].group = "toolchain" => Base(c)[i].cat = "toolchain"
       /\ Base(c)[i].cat = "toolchain" =>
             /\ Base(c)[j].cat = "toolchain" \/ Base(c)[j].name = Base(c)[i].name => i = j
             /\ \A line \in CommandLines : Base(c)[i].name \notin DOMAIN line

(* No toolchain has the name of an option: -o and --toolchain share one    *)
(* list of names.                                                          *)
ASSUME NamesAssumption ==
    /\ NoTool \notin ToolNames
    /\ \A c \in Chips : \A i \in 1 .. Len(Base(c)) : Base(c)[i].name \notin ToolNames

(* The template's files are well formed, as those of the crate are:        *)
(* process_file unwraps or stops at a block that is not.                   *)
ASSUME FilesAssumption == \A f \in Files : f.lines \in Seq(Line) /\ WellFormed(f.lines)

ASSUME CommandAssumption == \A line \in CommandLines : line \in [DOMAIN line -> Nat]

(* A requirement as its documentation has it: an option of the name, or of *)
(* the group, is selected, or none is.                                     *)
Holds(t, sel, r) ==
    IF r.on THEN \E s \in sel : t[s].name = r.key \/ t[s].group = r.key
            ELSE \A s \in sel : t[s].name # r.key /\ t[s].group # r.key

Consistent(t, sel) ==
    /\ \A s \in sel : \A r \in t[s].requires : Holds(t, sel, r)
    /\ \A s, u \in sel : t[s].group # NoName /\ t[s].group = t[u].group => s = u

(* However the user and the command line select and deselect, every option *)
(* selected has what it requires, and no group has two.                    *)
SelectionConsistent == phase = "tui" => Consistent(flat, Selected)

SelectedNames == {flat[s].name : s \in Selected}

(* The toolchains that arrive while the user selects change what can be    *)
(* selected and nothing of what is: positions still mean what they meant.  *)
ScanKeepsSelection ==
    [][phase = "tui" /\ flat' # flat => SelectedNames' = SelectedNames]_vars

(* What is saved in the interface can be generated: main finds every name  *)
(* in a tree of its own; and once toolchains have been found, the project  *)
(* names one of them or none.                                              *)
SavedIsGenerated ==
    ~headless =>
       /\ phase # "panicked"
       /\ phase = "done" /\ scan.list # << >> => project.tool \in Range(scan.list) \cup {NoTool}

(* A line of the template is written exactly when every block around it is *)
(* in the branch that the options choose, once and in order.               *)
FilesFollowConditions ==
    phase = "done" =>
       \A f \in Files :
          LET written == project.files[f]
          IN /\ {written[k].line : k \in DOMAIN written} = LinesPromised(f, project.opts)
             /\ \A k \in 2 .. Len(written) : written[k - 1].line < written[k].line
=============================================================================
