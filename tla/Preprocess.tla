------------------------------ MODULE Preprocess ------------------------------
(***************************************************************************)
(* process_file of contrib/esp-generate/src/main.rs: how a template file   *)
(* becomes a file of the generated project.  The file is read line by line *)
(* with a stack of the conditional blocks that are open; a line is written *)
(* when every block of the stack says so, and the REPLACE directive that   *)
(* waits is applied to it.  Conditions look at the options selected; the   *)
(* text of a line is its number.                                           *)
(***************************************************************************)
EXTENDS Naturals, Sequences, FiniteSets

(* A line of a template file.  A condition is an option that must, or must *)
(* not, be among the selected ones.                                        *)
If(k, b)   == [kind |-> "if", key |-> k, on |-> b]
ElIf(k, b) == [kind |-> "elif", key |-> k, on |-> b]
Else       == [kind |-> "else", key |-> "", on |-> TRUE]
EndIf      == [kind |-> "endif", key |-> "", on |-> TRUE]
Replace    == [kind |-> "replace", key |-> "", on |-> TRUE]
Text       == [kind |-> "text", key |-> "", on |-> TRUE]

LineKinds == {"if", "elif", "else", "endif", "replace", "text"}
Line == [kind : LineKinds, key : STRING, on : BOOLEAN]

Evaluate(line, opts) == (line.key \in opts) = line.on

-----------------------------------------------------------------------------
(* BlockKind: whether the branch being read is to be included, and whether *)
(* an earlier branch of the block was.                                     *)

Root == [current |-> TRUE, any |-> FALSE]
NewIf(current) == [current |-> current, any |-> FALSE]
IntoElseIf(b, condition) == [current |-> condition, any |-> b.any \/ b.current]
\* A plausible slip: ELSE forgets the branch it ends.
IntoElse_Forgets(b) == [current |-> ~b.any, any |-> b.any]
IntoElse(b) == [current |-> ~b.any, any |-> b.any \/ b.current]
IncludeLine(b) == b.current /\ ~b.any

Last(stack) == stack[Len(stack)]
Pop(stack) == SubSeq(stack, 1, Len(stack) - 1)

(* One line read: the blocks open, the REPLACE that waits (0 for none) and *)
(* the lines written, each with the REPLACE applied to it.                 *)
ReadLine(s, file, k, opts) ==
    LET line == file[k]
        top  == Last(s.include)
    IN CASE line.kind = "replace" -> [s EXCEPT !.replace = k]
         [] line.kind = "if" ->
              [s EXCEPT !.include =
                  Append(@, NewIf(IncludeLine(top) /\ Evaluate(line, opts)))]
         [] line.kind = "elif" ->
              [s EXCEPT !.include =
                  Append(Pop(@), IntoElseIf(top, ~top.current /\ ~top.any
                                                 /\ Evaluate(line, opts)))]
         [] line.kind = "else" -> [s EXCEPT !.include = Append(Pop(@), IntoElse(top))]
         [] line.kind = "endif" -> [s EXCEPT !.include = Pop(@)]
         [] line.kind = "text" ->
              IF \A i \in 1 .. Len(s.include) : IncludeLine(s.include[i])
                THEN [include |-> s.include, replace |-> 0,
                      res |-> Append(s.res, [line |-> k, by |-> s.replace])]
                ELSE s

(* The lines written, or NotIncluded when the INCLUDEFILE condition of the *)
(* file's head is false.                                                   *)
NotIncluded == <<[line |-> 0, by |-> 0]>>
ProcessFile(f, opts) ==
    LET read[k \in 0 .. Len(f.lines)] ==
            IF k = 0 THEN [include |-> <<Root>>, replace |-> 0, res |-> <<>>]
                     ELSE ReadLine(read[k - 1], f.lines, k, opts)
    IN IF Evaluate(f.head, opts) THEN read[Len(f.lines)].res ELSE NotIncluded

-----------------------------------------------------------------------------
(* What the directives promise, said without a stack. *)

(* How many blocks are open after line k. *)
Depth(file, k) == Cardinality({i \in 1 .. k : file[i].kind = "if"})
                    - Cardinality({i \in 1 .. k : file[i].kind = "endif"})

(* The heads of the branches of the block that line i opens, up to line k, *)
(* when that block is still open there.                                    *)
BlockOpen(file, i, k) ==
    /\ i < k /\ file[i].kind = "if"
    /\ \A j \in i .. k : Depth(file, j) >= Depth(file, i)
Heads(file, i, k) ==
    {h \in i .. k : /\ file[h].kind \in {"if", "elif", "else"}
                    /\ Depth(file, h) = Depth(file, i)
                    /\ h # i => file[h].kind # "if"}

(* Line k is in the first branch of block i whose condition holds. *)
InLiveBranch(file, i, k, opts) ==
    LET heads == Heads(file, i, k)
        mine  == CHOOSE h \in heads : \A g \in heads : g <= h
        True(h) == file[h].kind = "else" \/ Evaluate(file[h], opts)
    IN True(mine) /\ \A h \in heads \ {mine} : ~True(h)

LinesPromised(f, opts) ==
    IF ~Evaluate(f.head, opts) THEN {0}
    ELSE {k \in 1 .. Len(f.lines) :
             /\ f.lines[k].kind = "text"
             /\ \A i \in 1 .. Len(f.lines) :
                   BlockOpen(f.lines, i, k) => InLiveBranch(f.lines, i, k, opts)}

(* Blocks that are opened, branched and closed in order: IF, ELIF any      *)
(* number of times, ELSE at most once and last, ENDIF.                     *)
WellFormed(file) ==
    /\ \A k \in 1 .. Len(file) : Depth(file, k) >= 0
    /\ Depth(file, Len(file)) = 0
    /\ \A k \in 1 .. Len(file) : file[k].kind \in {"elif", "else"} =>
         \E i \in 1 .. k - 1 :
            /\ BlockOpen(file, i, k) /\ Depth(file, i) = Depth(file, k)
            /\ \A h \in Heads(file, i, k) \ {k} : file[h].kind # "else"
=============================================================================
