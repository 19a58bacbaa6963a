------------------------------ MODULE Diagrams ------------------------------
(***************************************************************************)
(* From block diagrams to signals: the numbers of inputs and outputs       *)
(* (boxes/boxtype.cpp), the propagation of signals through a diagram       *)
(* (propagate/propagate.cpp), with recursive groups in de Bruijn notation, *)
(* and the translation of the groups to symbols (tlib/recursive-tree.cpp). *)
(*                                                                         *)
(* Diagrams and signals are terms: an operator, a number and the branches. *)
(*   diagrams  int, wire, cut, prim1 (mem), prim2 (-), slot, symbolic, and *)
(*             the compositions seq, par, split, merge and rec             *)
(*   signals   int, input, add, sub, delay1, proj, ref (a level of         *)
(*             de Bruijn), rec (a group) and symrec (a group with a name)  *)
(***************************************************************************)
EXTENDS Integers, Sequences, SequencesExt, FiniteSetsExt, TLC

CONSTANTS Boxes,       \* diagrams that are compiled
          Duration     \* samples over which signals are compared

VARIABLES box, stage, boxType, lsig, L1

vars == <<box, stage, boxType, lsig, L1>>

DiagramsAssumption == Duration \in Nat \ {0}

Tree(op, n, br) == [op |-> op, n |-> n, br |-> br]

-----------------------------------------------------------------------------
(* Numbers of inputs and outputs; ok is FALSE when the code throws.        *)
Type(i, o) == [ok |-> TRUE, i |-> i, o |-> o]
NoType == [ok |-> FALSE, i |-> 0, o |-> 0]

(* The composition of two diagrams with types t and u.                     *)
Compose(op, t, u) ==
    CASE op = "seq" -> IF t.o = u.i THEN Type(t.i, u.o) ELSE NoType
      [] op = "par" -> Type(t.i + u.i, t.o + u.o)
      [] op = "split" -> IF t.o # 0 /\ u.i # 0 /\ u.i % t.o = 0
                         THEN Type(t.i, u.o) ELSE NoType
      [] op = "merge" -> IF t.o # 0 /\ u.i # 0 /\ t.o % u.i = 0
                         THEN Type(t.i, u.o) ELSE NoType
      [] op = "rec" -> IF u.i <= t.o /\ u.o <= t.i
                       THEN Type(t.i - u.o, t.o) ELSE NoType

RECURSIVE infereBoxType(_)
infereBoxType(b) ==
    CASE b.op \in {"int", "slot"} -> Type(0, 1)
      [] b.op \in {"wire", "prim1"} -> Type(1, 1)
      [] b.op = "cut" -> Type(1, 0)
      [] b.op = "prim2" -> Type(2, 1)
      [] b.op = "symbolic" -> LET t == infereBoxType(b.br[1])
                              IN IF t.ok THEN [t EXCEPT !.i = @ + 1] ELSE NoType
      [] OTHER -> LET t == infereBoxType(b.br[1])
                      u == infereBoxType(b.br[2])
                  IN IF t.ok /\ u.ok THEN Compose(b.op, t, u) ELSE NoType

-----------------------------------------------------------------------------
(* Terms with de Bruijn references.                                        *)
RECURSIVE aperture(_)
aperture(t) ==
    LET below == Max({aperture(t.br[i]) : i \in DOMAIN t.br} \cup {0})
    IN CASE t.op = "ref" -> t.n
         [] t.op = "rec" -> below - 1
         [] t.op = "symrec" -> 0
         [] OTHER -> below

isClosed(t) == aperture(t) <= 0

RECURSIVE liftn(_, _)
liftn(t, threshold) ==
    IF isClosed(t) THEN t
    ELSE CASE t.op = "ref" -> IF t.n < threshold THEN t ELSE [t EXCEPT !.n = @ + 1]
           [] t.op = "rec" -> [t EXCEPT !.br = [i \in DOMAIN @ |-> liftn(@[i], threshold + 1)]]
           [] OTHER -> [t EXCEPT !.br = [i \in DOMAIN @ |-> liftn(@[i], threshold)]]

lift_Same(t) == t
lift(t) == liftn(t, 1)

RECURSIVE substitute(_, _, _)
substitute(t, level, id) ==
    IF aperture(t) < level THEN t
    ELSE CASE t.op = "ref" -> IF t.n = level THEN id ELSE t
           [] t.op = "rec" -> [t EXCEPT !.br = [i \in DOMAIN @ |-> substitute(@[i], level + 1, id)]]
           [] OTHER -> [t EXCEPT !.br = [i \in DOMAIN @ |-> substitute(@[i], level, id)]]

(* The name of a group is unique and remembered with the group, so that    *)
(* the group itself can stand for it.                                      *)
symrec(group) == Tree("symrec", 0, <<group>>)

RECURSIVE deBruijn2Sym(_)
deBruijn2Sym(t) ==
    IF t.op \in {"rec", "symrec"} THEN (IF t.op = "rec" THEN symrec(t) ELSE t)
    ELSE [t EXCEPT !.br = [i \in DOMAIN @ |-> deBruijn2Sym(@[i])]]

(* The definition of a name: the i-th signal of its group.                 *)
RECDEF(id, i) ==
    deBruijn2Sym(substitute(id.br[1].br[i], 1, id))

-----------------------------------------------------------------------------
(* Propagation.  slotenv gives the signals of the slots.                   *)
mix(l, nbus) ==
    [b \in 1 .. nbus |->
       LET lines == [k \in 1 .. Len(l) \div nbus |-> l[b + (k - 1) * nbus]]
           Add(t, x) == Tree("add", 0, <<t, x>>)
       IN FoldLeft(Add, lines[1], Tail(lines))]

split(l, nbus) == [b \in 1 .. nbus |-> l[((b - 1) % Len(l)) + 1]]

makeMemSigProjList(t, n) ==
    [i \in 1 .. n |-> Tree("delay1", 0, <<Tree("proj", i, <<t>>)>>)]
makeSigProjList(t, n) == [i \in 1 .. n |-> Tree("proj", i, <<t>>)]
makeSigInputList(n) == [i \in 1 .. n |-> Tree("input", i, <<>>)]
listLift(l) == [i \in DOMAIN l |-> lift(l[i])]

PropagateAtom(slotenv, b, l) ==
    CASE b.op = "int" -> <<Tree("int", b.n, <<>>)>>
      [] b.op = "cut" -> <<>>
      [] b.op = "wire" -> l
      [] b.op = "slot" -> <<slotenv[b.n]>>
      [] b.op = "prim1" -> <<Tree("delay1", 0, l)>>
      [] b.op = "prim2" -> <<Tree("sub", 0, l)>>

RECURSIVE propagate(_, _, _)
propagate(slotenv, b, l) ==
    CASE b.br = <<>> -> PropagateAtom(slotenv, b, l)
      [] b.op = "symbolic" -> propagate((b.n :> l[1]) @@ slotenv, b.br[1], Tail(l))
      [] b.op = "seq" -> propagate(slotenv, b.br[2], propagate(slotenv, b.br[1], l))
      [] b.op = "par" ->
           LET in1 == infereBoxType(b.br[1]).i
               in2 == infereBoxType(b.br[2]).i
           IN propagate(slotenv, b.br[1], SubSeq(l, 1, in1))
              \o propagate(slotenv, b.br[2], SubSeq(l, in1 + 1, in1 + in2))
      [] b.op = "split" ->
           propagate(slotenv, b.br[2],
                     split(propagate(slotenv, b.br[1], l), infereBoxType(b.br[2]).i))
      [] b.op = "merge" ->
           propagate(slotenv, b.br[2],
                     mix(propagate(slotenv, b.br[1], l), infereBoxType(b.br[2]).i))
      [] b.op = "rec" ->
           LET slotenv2 == [x \in DOMAIN slotenv |-> lift(slotenv[x])]
               l0 == makeMemSigProjList(Tree("ref", 1, <<>>), infereBoxType(b.br[2]).i)
               l1 == propagate(slotenv2, b.br[2], l0)
               l2 == propagate(slotenv2, b.br[1], l1 \o listLift(l))
           IN makeSigProjList(Tree("rec", 0, l2), infereBoxType(b.br[1]).o)

-----------------------------------------------------------------------------
Init == /\ box \in Boxes
        /\ stage = "type" /\ boxType = NoType /\ lsig = <<>> /\ L1 = <<>>

GetBoxType == /\ stage = "type"
              /\ boxType' = infereBoxType(box)
              /\ stage' = IF boxType'.ok THEN "propagate" ELSE "refused"
              /\ UNCHANGED <<box, lsig, L1>>

BoxPropagateSig == /\ stage = "propagate"
                   /\ lsig' = propagate(<<>>, box, makeSigInputList(boxType.i))
                   /\ stage' = "symbols"
                   /\ UNCHANGED <<box, boxType, L1>>

PrepareSym == /\ stage = "symbols"
              /\ L1' = [i \in DOMAIN lsig |-> deBruijn2Sym(lsig[i])]
              /\ stage' = "done"
              /\ UNCHANGED <<box, boxType, lsig>>

Next == GetBoxType \/ BoxPropagateSig \/ PrepareSym

-----------------------------------------------------------------------------
(* What a diagram means, apart from signals: streams go in, streams come   *)
(* out, and a recursion is what is left after as many rounds as there are  *)
(* samples, since each round goes through a delay of one.                  *)
Time == 0 .. Duration - 1
In(i) == [t \in Time |-> 5 ^ i * (t + 1)]
Mem(x) == [t \in Time |-> IF t = 0 THEN 0 ELSE x[t - 1]]
Silence(n) == [i \in 1 .. n |-> [t \in Time |-> 0]]
Plus(x, y) == [t \in Time |-> x[t] + y[t]]

RECURSIVE Run(_, _, _)
RECURSIVE Rounds(_, _, _, _)
Run(slots, b, l) ==
    CASE b.op = "int" -> <<[t \in Time |-> b.n]>>
      [] b.op = "cut" -> <<>>
      [] b.op = "wire" -> l
      [] b.op = "slot" -> <<slots[b.n]>>
      [] b.op = "symbolic" -> Run((b.n :> l[1]) @@ slots, b.br[1], Tail(l))
      [] b.op = "prim1" -> <<Mem(l[1])>>
      [] b.op = "prim2" -> <<[t \in Time |-> l[1][t] - l[2][t]]>>
      [] b.op = "seq" -> Run(slots, b.br[2], Run(slots, b.br[1], l))
      [] b.op = "par" ->
           LET n == infereBoxType(b.br[1]).i
           IN Run(slots, b.br[1], SubSeq(l, 1, n)) \o Run(slots, b.br[2], SubSeq(l, n + 1, Len(l)))
      [] b.op = "split" ->
           LET x == Run(slots, b.br[1], l)
           IN Run(slots, b.br[2], [k \in 1 .. infereBoxType(b.br[2]).i |-> x[((k - 1) % Len(x)) + 1]])
      [] b.op = "merge" ->
           LET x == Run(slots, b.br[1], l)
               n == infereBoxType(b.br[2]).i
               On(k) == SelectSeq([j \in DOMAIN x |-> <<j, x[j]>>], LAMBDA p : (p[1] - k) % n = 0)
               AddOn(y, p) == Plus(y, p[2])
           IN Run(slots, b.br[2], [k \in 1 .. n |-> FoldLeft(AddOn, Silence(1)[1], On(k))])
      [] b.op = "rec" -> Rounds(Duration, slots, b, l)

Rounds(n, slots, b, l) ==
    IF n = 0 THEN Silence(infereBoxType(b.br[1]).o)
    ELSE LET out == Rounds(n - 1, slots, b, l)
             back == Run(slots, b.br[2], [i \in 1 .. infereBoxType(b.br[2]).i |-> Mem(out[i])])
         IN Run(slots, b.br[1], back \o l)

(* The value of a signal at a time.                                        *)
RECURSIVE At(_, _)
At(x, t) ==
    CASE x.op = "int" -> x.n
      [] x.op = "input" -> In(x.n)[t]
      [] x.op = "add" -> At(x.br[1], t) + At(x.br[2], t)
      [] x.op = "sub" -> At(x.br[1], t) - At(x.br[2], t)
      [] x.op = "delay1" -> IF t = 0 THEN 0 ELSE At(x.br[1], t - 1)
      [] x.op = "proj" -> At(RECDEF(x.br[1], x.n), t)

(* The signals of a diagram are as many as its type says, no reference is  *)
(* left open, and after the translation to symbols they have the values    *)
(* the diagram computes, recursions inside recursions and slots used       *)
(* inside them included (realPropagate, deBruijn2Sym).                     *)
SignalsMeanDiagram ==
    stage = "done" =>
      /\ Len(lsig) = boxType.o
      /\ \A i \in DOMAIN lsig : isClosed(lsig[i])
      /\ [i \in DOMAIN L1 |-> [t \in Time |-> At(L1[i], t)]]
           = Run(<<>>, box, [i \in 1 .. boxType.i |-> In(i)])
=============================================================================
