----------------------------- MODULE MCCompiler -----------------------------
(***************************************************************************)
(* The compiler on small programs: the matching of patterns, from diagrams *)
(* to signals, from signals to samples, and from loops to tasks.  part     *)
(* says which of them a behaviour is of; the variables of the others stay  *)
(* put.  The graph of loops is that of LoopGraph, every graph of them.     *)
(***************************************************************************)
EXTENDS LoopGraph

VARIABLES part,
          prog, phase, types, recType, cached, mxd, slider, konst, slow, vec,
          IOTA, perm, table, cur, latched, past, content, left, blocks, inits,
          address, rules, merged, start, checked, shadowed, s, E, args,
          outcome, applied,
          box, stage, boxType, lsig, L1

signalVars == <<prog, phase, types, recType, cached, mxd, slider, konst, slow,
                vec, IOTA, perm, table, cur, latched, past, content, left, blocks, inits>>
matcherVars == <<address, rules, merged, start, checked, shadowed, s, E, args,
                 outcome, applied>>
diagramVars == <<box, stage, boxType, lsig, L1>>
vars == <<part, graphVars, signalVars, matcherVars, diagramVars>>

-----------------------------------------------------------------------------
Sig(op, a, b, c) == [op |-> op, a |-> a, b |-> b, c |-> c]
Number(n) == Sig("int", n, 0, 0)
FConst(n) == Sig("fconst", n, 0, 0)
Input == Sig("input", 0, 0, 0)
Slider(lo, hi) == Sig("slider", lo, hi, 0)
Rec == Sig("rec", 0, 0, 0)
Bin(op, a, b) == Sig(op, a, b, 0)
Delay(a, b) == Sig("delay", a, b, 0)
Prefix(a, b) == Sig("prefix", a, b, 0)
RWTable(r, w, d) == Sig("rwtable", r, w, d)
Program(sigs, body) == [sigs |-> sigs, body |-> body]

Used(p) == \A n \in 1 .. Len(p.sigs) - 1 : \E u \in DOMAIN p.sigs :
             /\ p.sigs[u].op \notin {"int", "fconst", "slider"}
             /\ n \in {p.sigs[u].a, p.sigs[u].b, p.sigs[u].c}

\* A recursive signal, bounded and used as a delay.
Recursive ==
    {Program(<<Number(1), src, Rec, Delay(3, 1), Bin(o1[1], x, y),
               Number(o1[2]), Bin(o2, 5, 6), Delay(z, 7)>>, 7) :
       src \in {Input, Slider(0, 3)}, o1 \in {<<"+", 3>>, <<"-", 2>>},
       x \in {2, 4}, y \in {1, 2, 4}, o2 \in {"&", "%", "min", "max", ">"},
       z \in {2, 4}}
    \cup
    {Program(<<Number(1), src, Rec, Delay(3, 1), Bin("*", x, y), Number(3),
               Bin(o2, 5, 6), Delay(z, 7)>>, 7) :
       src \in {Input, Slider(0, 3)}, x \in {2, 4}, y \in {2, 4},
       o2 \in {"&", "%"}, z \in {2, 4}}

\* Signals of the three variabilities, delays of them, and a prefix.
Plain ==
    {Program(<<Number(c), FConst(2), Bin("&", 2, 1), Slider(0, 2), Input,
               Bin(o, 3, 4), Delay(x, d), Bin("+", 5, 6), Bin("+", 7, 8)>>, 0) :
       c \in {1, 3}, o \in {"+", "max"}, x \in 3 .. 6,
       d \in {1, 3, 4, 6}}
    \cup
    {Program(<<Number(1), Input, Prefix(1, 2), Slider(0, hi), Delay(x, 4),
               Bin("+", 3, 5)>>, 0) : hi \in {1, 3}, x \in {2, 3}}

\* A table that is written and read at each sample, and one that is read
\* with the slider.
Tables == {Program(<<Number(1), Input, Bin("&", 2, 1), Slider(0, 1), Delay(2, 1),
                     Bin("+", 4, 5), RWTable(3, w, 6)>>, 0) : w \in {1, 3, 4}}
SlowTables == {Program(<<Slider(0, 1), Input, Number(1), Bin("&", 2, 3),
                         RWTable(1, 4, 2)>>, 0)}

Signal == INSTANCE Signals WITH
    Huge <- 1000, Programs <- {p \in Recursive \cup Plain \cup Tables : Used(p)},
    Samples <- {-1, 2}, MaxCopyDelay <- 3, TableSize <- 2, BlockSize <- 2,
    MaxBlocks <- 2, MaxInits <- 2

\* The same with the tables read at the pace of the slider.
Slow == INSTANCE Signals WITH
    Huge <- 1000, Programs <- SlowTables,
    Samples <- {-1, 2}, MaxCopyDelay <- 3, TableSize <- 2, BlockSize <- 2,
    MaxBlocks <- 2, MaxInits <- 2

-----------------------------------------------------------------------------
Term(n, br) == [n |-> n, br |-> br]
Zero == Term("0", <<>>)
One == Term("1", <<>>)
Two == Term("2", <<>>)
X == Term("x", <<>>)
Y == Term("y", <<>>)
Par(a, b) == Term("par", <<a, b>>)
OnePlusOne == Term("seq", <<Par(One, One), Term("+", <<>>)>>)
Orders == {[n \in {"0", "1", "2", "par", "seq"} |->
              CASE n = "0" -> 0 [] n = "1" -> i [] n = "2" -> 3 - i [] OTHER -> 4] : i \in {1, 2}}

\* Rules of two parameters, general and specific ones in any order, with
\* variables that are repeated in one parameter or across the two.
LeftSides == {<<X, q>> : q \in {X, Y, One, Two}}
             \cup {<<p, q>> : p \in {Zero, Par(X, X)}, q \in {Y, One, Two}}
             \cup {<<Par(X, One), q>> : q \in {X, Y, One, Two}}
             \cup {<<Par(X, Par(X, Y)), Two>>}

Matcher == INSTANCE PatternMatcher WITH
    Ids <- {"x", "y"}, Numbers <- {"0", "1", "2"}, Addresses <- Orders,
    NumericValue <- [t \in {OnePlusOne} |-> Two],
    RuleLists <- [1 .. 3 -> LeftSides],
    Arguments <- <<{Zero, One, Par(Zero, Zero), Par(Zero, OnePlusOne), Par(Zero, One),
                    Par(Zero, Par(One, Zero)), Par(One, Par(One, Zero))},
                   {Zero, One, OnePlusOne}>>

-----------------------------------------------------------------------------
Box(op, n, br) == [op |-> op, n |-> n, br |-> br]
Atoms == {Box(op, 0, <<>>) : op \in {"wire", "cut", "prim1", "prim2"}}
         \cup {Box("int", 3, <<>>), Box("slot", 1, <<>>)}
Compositions(A, B) == {Box(op, 0, <<a, b>>) : op \in {"seq", "par", "split", "merge", "rec"},
                                              a \in A, b \in B}
Lambda(b) == Box("symbolic", 1, <<b>>)
Typing == INSTANCE Diagrams WITH Boxes <- {}, Duration <- 1

\* Every composition of two atoms, those of two such that have a type, and
\* recursions of these.  The slot is that of an abstraction around them, which
\* is given an input or, in a recursion, what comes back.
Pairs == Compositions(Atoms, Atoms)
TypedPairs == {b \in Pairs : Typing!infereBoxType(b).ok}
Fours == {b \in Compositions(TypedPairs, TypedPairs) : Typing!infereBoxType(b).ok}
Deep == {b \in {Box("rec", 0, <<Lambda(a), Box(op, 0, <<>>)>>) :
                   a \in {f \in TypedPairs \cup Fours : f.op = "rec"},
                   op \in {"wire", "prim1"}} : Typing!infereBoxType(b).ok}
Diags == {Lambda(b) : b \in Pairs \cup Fours} \cup Deep

Diagram == INSTANCE Diagrams WITH Boxes <- Diags, Duration <- 3

ASSUME Diagram!DiagramsAssumption
ASSUME Matcher!PatternMatcherAssumption
ASSUME Signal!SignalsAssumption /\ Slow!SignalsAssumption

GraphStill == /\ deps = [l \in Loop |-> IF l = Root THEN Loop \ {Root} ELSE {}]
              /\ hasCode = Loop /\ ~ gGroupTaskSwitch

MatcherStill == /\ address = <<>> /\ rules = <<>> /\ merged = 0 /\ start = 0
                /\ checked = 0 /\ shadowed = {} /\ s = 0 /\ E = <<>>
                /\ args = <<>> /\ outcome = "none" /\ applied = 0

DiagramStill == box = 0 /\ stage = "done" /\ boxType = 0 /\ lsig = <<>> /\ L1 = <<>>

Init == /\ part \in {"graph", "signals", "slow", "patterns", "diagrams"}
        /\ GraphInit
        /\ part # "graph" => GraphStill
        /\ IF part = "signals" THEN Signal!Init ELSE Slow!Init
        /\ IF part = "patterns" THEN Matcher!Init ELSE MatcherStill
        /\ IF part = "diagrams" THEN Diagram!Init ELSE DiagramStill

Next == \/ part = "graph" /\ GraphNext /\ UNCHANGED <<part, signalVars, matcherVars, diagramVars>>
        \/ part = "signals" /\ Signal!Next /\ UNCHANGED <<part, graphVars, matcherVars, diagramVars>>
        \/ part = "slow" /\ Slow!Next /\ UNCHANGED <<part, graphVars, matcherVars, diagramVars>>
        \/ part = "patterns" /\ Matcher!Next /\ UNCHANGED <<part, graphVars, signalVars, diagramVars>>
        \/ /\ part = "diagrams" /\ Diagram!Next
           /\ UNCHANGED <<part, graphVars, signalVars, matcherVars>>

\* The compiler is sequential code: it runs to its end.
Spec == /\ Init /\ [][Next]_vars
        /\ WF_vars(part = "graph" /\ Process /\ UNCHANGED <<part, signalVars, matcherVars, diagramVars>>)
        /\ WF_vars(/\ part = "signals" /\ (Signal!Iterate \/ Signal!TypeAll)
                   /\ UNCHANGED <<part, graphVars, matcherVars, diagramVars>>)

-----------------------------------------------------------------------------
(* The walks over the graph of loops and the search for the types of       *)
(* recursive signals end (sortGraph, typeAnnotation).                      *)
Terminates == <>(/\ part = "graph" => pc = "done"
                 /\ part = "signals" => phase \notin {"typing", "typed"})

(* The generated code computes what the signals mean, sample after sample, *)
(* whenever the slider moves and across initialisations                    *)
(* (InstructionsCompiler).                                                 *)
CompiledIsMeaning == part = "signals" => Signal!CompiledIsMeaning

(* The same for a table that is written at each sample and read with a     *)
(* slider, whose reads are as frequent as its writes by the type that      *)
(* infereWriteTableType builds (makeTableType).                            *)
SlowReadIsMeaning == part = "slow" => Slow!CompiledIsMeaning

(* The values of a signal are in the interval inferred for it, which sets  *)
(* the length of its delay line (interval.hh, infereSigType).              *)
ValuesAdmitted == part = "signals" => Signal!ValuesAdmitted

(* The signals a diagram is turned into have the values it computes        *)
(* (realPropagate, deBruijn2Sym).                                          *)
SignalsMeanDiagram == part = "diagrams" => Diagram!SignalsMeanDiagram

(* The rule a case expression applies matches the arguments, with the      *)
(* values they give its variables, and is not one reported as shadowed     *)
(* (make_pattern_matcher, apply_pattern_matcher).                          *)
AppliedMatches == part = "patterns" => Matcher!AppliedMatches

(* It is the first rule that matches, as long as the automaton of the      *)
(* rules lost no transition in a merge (merge_state).                      *)
FirstAppliedIfWhole == part = "patterns" => Matcher!FirstAppliedIfWhole

(* It is the first rule that matches (merge_state).                        *)
FirstApplied == part = "patterns" => Matcher!FirstApplied
=============================================================================
