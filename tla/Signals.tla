------------------------------ MODULE Signals ------------------------------
(***************************************************************************)
(* From signals to samples: the type inference of                          *)
(* compiler/signals/sigtyperules.cpp, the sharing and the delays of        *)
(* generator/occurences.cpp, and the code that                             *)
(* generator/instructions_compiler.cpp generates for them, run beside the  *)
(* meaning of the signals.                                                 *)
(*                                                                         *)
(* A program is a sequence of signals, each after those it is made of but  *)
(* for the projection "rec" of a recursive group of one definition, whose  *)
(* body is the signal prog.body; the last signal is the output.  Numbers   *)
(* are integers, and a type is what decides where a value is computed and  *)
(* how long its delay line is: a variability and an interval.              *)
(***************************************************************************)
EXTENDS Integers, Sequences, FiniteSets, FiniteSetsExt, Intervals

CONSTANTS
    Programs,      \* programs the compiler is given
    Samples,       \* values of the input signal
    MaxCopyDelay,  \* gMaxCopyDelay: longer delays use a ring buffer
    TableSize,     \* cells of a table
    BlockSize,     \* samples per call of compute
    MaxBlocks,     \* bound: calls of compute
    MaxInits       \* bound: calls of instanceInit

kKonst == 0
kBlock == 1
kSamp == 3

BinOps == {"+", "-", "*", "%", "&", ">", "min", "max"}

\* Assumed of the constants: operands come first, numbers aside, and what is
\* delayed in a body is a part of it.
SignalsAssumption ==
    /\ IntervalAssumption
    /\ {MaxCopyDelay, TableSize, BlockSize} \subseteq Nat \ {0}
    /\ {MaxBlocks, MaxInits} \subseteq Nat
    /\ \A p \in Programs : \A n \in DOMAIN p.sigs :
         p.sigs[n].op \in BinOps \cup {"delay", "prefix", "rwtable"} =>
           {p.sigs[n].a, p.sigs[n].b} \subseteq 1 .. n - 1

VARIABLES
    prog, phase,
    types,              \* types of the signals, once the program is typed
    recType,            \* vtype of typeAnnotation
    cached, mxd,        \* signals with a variable, lengths of delays
    slider,             \* the zone of the slider
    konst, slow,        \* compiled: variables of init and of the block
    vec, IOTA,          \* compiled: delay lines and the index of the rings
    perm, table,        \* compiled: memories of prefixes, tables
    cur,                \* compiled: the values of the last sample
    latched,            \* reference: slider at the start of the block
    past, content,      \* reference: all values so far, tables
    left, blocks, inits \* samples left in the block, counters

vars == <<prog, phase, types, recType, cached, mxd, slider, konst, slow, vec,
          IOTA, perm, table, cur, latched, past, content, left, blocks, inits>>
annotations == <<types, recType, cached, mxd>>
compiled == <<konst, slow, vec, IOTA, perm, table, cur>>
reference == <<latched, past, content>>

sigs == prog.sigs
Sigs == DOMAIN prog.sigs
Cells == 0 .. TableSize - 1

-----------------------------------------------------------------------------
(* Types.                                                                  *)

TREC == [var |-> kSamp, int |-> interval]

arithmetic(op, x, y) ==
    CASE op = "+" -> Add(x, y)
      [] op = "-" -> Sub(x, y)
      [] op = "*" -> Mul(x, y)
      [] op = "%" -> Rem(x, y)
      [] op = "&" -> And(x, y)
      [] op = ">" -> Compare(x, y)
      [] op = "min" -> MinOf(x, y)
      [] op = "max" -> MaxOf(x, y)

\* Mutant: a delayed signal is taken for one that was never 0.
delayTypeNoZero(t) == [var |-> kSamp, int |-> t.int]

\* A delay starts with zeros.
delayType(t) == [var |-> kSamp, int |-> reunion(t.int, point(0))]

\* The type of a read of a written table.  infereWriteTableType promotes the
\* variability of the table, but makeTableType makes one of the content
\* alone, here a constant 0: neither how often the table is written nor the
\* values written count.
infereReadTableType(ri) == [var |-> High(kKonst, ri.var), int |-> point(0)]

\* infereSigType, for the operands' types t and the hypothesis on the group.
infereSigType(s, t, hyp) ==
    CASE s.op = "int" -> [var |-> kKonst, int |-> point(s.a)]
      [] s.op = "fconst" -> [var |-> kKonst, int |-> interval]
      [] s.op = "input" -> [var |-> kSamp, int |-> interval]
      [] s.op = "slider" -> [var |-> kBlock, int |-> between(s.a, s.b)]
      [] s.op = "rec" -> hyp
      [] s.op = "delay" -> delayType(t[s.a])
      [] s.op = "prefix" ->
           [var |-> kSamp, int |-> reunion(t[s.a].int, t[s.b].int)]
      [] s.op = "rwtable" -> infereReadTableType(t[s.a])
      [] s.op \in BinOps ->
           [var |-> High(t[s.a].var, t[s.b].var),
            int |-> arithmetic(s.op, t[s.a].int, t[s.b].int)]

T(hyp) ==
    LET t[n \in Sigs] == infereSigType(sigs[n], t, hyp) IN t

\* The delays infereSigType throws an error for, in the first k signals, and
\* those whose bound incOcc asserts not to be one.
BadDelay(t, k) ==
    \E n \in 1 .. k : /\ sigs[n].op = "delay"
                      /\ LET i == t[sigs[n].b].int IN ~ i.valid \/ i.lo < 0
Unbounded(t) ==
    \E n \in Sigs : sigs[n].op = "delay" /\ Infinite(t[sigs[n].b].int.hi)

-----------------------------------------------------------------------------
(* Sharing and delays.                                                     *)

Operands(s) ==
    CASE s.op \in {"int", "fconst", "input", "slider", "rec"} -> {}
      [] s.op = "rwtable" -> {<<s.a, 1>>, <<s.b, 2>>, <<s.c, 3>>}
      [] OTHER -> {<<s.a, 1>>, <<s.b, 2>>}

\* The occurrences of signal n, as the signal it occurs in and the place.
Occurs(n) == {<<u, k>> \in Sigs \X (1 .. 3) : <<n, k>> \in Operands(sigs[u])}

\* Mutant: a slow signal in a fast context is not cached.
SharedNotTime(t, n) == Cardinality(Occurs(n)) > 1

\* Sharing counts above 1: more than one occurrence, or one in an expression
\* that varies faster (the output varies at each sample).
Shared(t, n) ==
    \/ Cardinality(Occurs(n)) > 1
    \/ \E o \in Occurs(n) : t[n].var < t[o[1]].var
    \/ n = Len(sigs) /\ t[n].var < kSamp

\* Constants, delays, prefixes and projections are never cached.
Cached(t, n) ==
    /\ sigs[n].op \notin {"int", "fconst", "delay", "prefix", "rec"}
    /\ Shared(t, n)

\* fMaxDelay, the longest delay of n, a prefix counting as one.
MaxDelay(t, n) ==
    Max({0} \cup {t[sigs[d].b].int.hi :
                    d \in {d \in Sigs : sigs[d].op = "delay" /\ sigs[d].a = n}}
            \cup {1 : d \in {d \in Sigs : sigs[d].op = "prefix"
                                            /\ sigs[d].b = n}})

pow2limit(n) ==
    2 ^ (CHOOSE k \in 1 .. 31 : 2 ^ k >= n /\ \A j \in 1 .. k - 1 : 2 ^ j < n)

LineSize(d) == IF d < MaxCopyDelay THEN d + 1 ELSE pow2limit(d + 1)

-----------------------------------------------------------------------------
(* Values.                                                                 *)

\* The conjunction of the bits of two ints of Width bits.
Width == 6
BitAnd(x, y) ==
    LET Bit(v, k) == (v \div 2 ^ k) % 2
        Sign == IF x < 0 /\ y < 0 THEN 2 ^ Width ELSE 0
    IN  MapThenSumSet(LAMBDA k : Bit(x, k) * Bit(y, k) * 2 ^ k, 0 .. Width - 1)
          - Sign

\* The remainder of C, which has the sign of x.
CRem(x, y) == IF x >= 0 THEN x % y ELSE -((-x) % y)

BinOp(op, x, y) ==
    CASE op = "+" -> x + y
      [] op = "-" -> x - y
      [] op = "*" -> x * y
      [] op = "%" -> CRem(x, y)
      [] op = "&" -> BitAnd(x, y)
      [] op = ">" -> IF x > y THEN 1 ELSE 0
      [] op = "min" -> Low(x, y)
      [] op = "max" -> High(x, y)

\* What a read outside an array gives.
Outside == Huge

\* generateFixDelay: signal n, whose value is now, delayed by d.  The line
\* was written before it is read, so cell 0 of an array and cell IOTA of a
\* ring hold the value of this sample.
FixDelay(n, d, now) ==
    IF mxd[n] = 0 THEN now
    ELSE IF mxd[n] < MaxCopyDelay
    THEN IF d = 0 THEN now ELSE IF d \in 1 .. mxd[n] THEN vec[n][d] ELSE Outside
    ELSE LET k == (IOTA - d) % LineSize(mxd[n])
         IN  IF k = IOTA % LineSize(mxd[n]) THEN now ELSE vec[n][k]

\* generateRDTbl after the write of generateWRTbl, which is done at every
\* sample; fast says whether this is code of the sample.
ReadTable(n, v, fast) ==
    LET s == sigs[n]
        t == IF fast THEN [table[n] EXCEPT ![v[s.b]] = v[s.c]] ELSE table[n]
    IN  t[v[s.a]]

(***************************************************************************)
(* The values the code computes at one level: k and b are the variables of *)
(* init and of the block that exist by then, in is the input, z the zone   *)
(* of the slider.                                                          *)
(***************************************************************************)
Code(level, k, b, in, z) ==
    LET v[n \in Sigs] ==
          LET s == sigs[n]
          IN  CASE n \in cached /\ types[n].var = kKonst /\ level > kKonst -> k[n]
                [] n \in cached /\ types[n].var = kBlock /\ level > kBlock -> b[n]
                [] types[n].var > level -> 0
                [] OTHER ->
                     CASE s.op \in {"int", "fconst"} -> s.a
                       [] s.op = "input" -> in
                       [] s.op = "slider" -> z
                       [] s.op = "rec" -> 0
                       [] s.op = "delay" -> FixDelay(s.a, v[s.b], v[s.a])
                       [] s.op = "prefix" -> perm[n]
                       [] s.op = "rwtable" -> ReadTable(n, v, level = kSamp)
                       [] s.op \in BinOps -> BinOp(s.op, v[s.a], v[s.b])
    IN  v

\* What is stored for signal n: a projection is its definition.
Stored(v, n) == IF sigs[n].op = "rec" THEN v[prog.body] ELSE v[n]

\* generateDelayLine: the write, and after the sample the shift of an array.
DelayLine(v, n) ==
    IF mxd[n] = 0 THEN vec[n]
    ELSE IF mxd[n] < MaxCopyDelay
    THEN [k \in DOMAIN vec[n] |->
            IF k <= 1 THEN Stored(v, n) ELSE vec[n][k - 1]]
    ELSE [vec[n] EXCEPT ![IOTA % LineSize(mxd[n])] = Stored(v, n)]

(***************************************************************************)
(* The meaning of the signals: the value of each at the next sample.       *)
(***************************************************************************)
Before(n, d) == IF d > Len(past) THEN 0 ELSE past[Len(past) + 1 - d][n]

Meaning(in) ==
    LET v[n \in Sigs] ==
          LET s == sigs[n]
          IN  CASE s.op \in {"int", "fconst"} -> s.a
                [] s.op = "input" -> in
                [] s.op = "slider" -> latched
                [] s.op = "rec" -> 0
                [] s.op = "delay" -> IF v[s.b] = 0 THEN v[s.a]
                                     ELSE Before(s.a, v[s.b])
                [] s.op = "prefix" -> IF past = << >> THEN v[s.a]
                                      ELSE Before(s.b, 1)
                [] s.op = "rwtable" ->
                     [content[n] EXCEPT ![v[s.b]] = v[s.c]][v[s.a]]
                [] s.op \in BinOps -> BinOp(s.op, v[s.a], v[s.b])
    IN  [n \in Sigs |-> Stored(v, n)]

Tables == [n \in {n \in Sigs : sigs[n].op = "rwtable"} |-> [c \in Cells |-> 0]]
Written(t, v) ==
    [n \in DOMAIN t |-> [t[n] EXCEPT ![v[sigs[n].b]] = v[sigs[n].c]]]

-----------------------------------------------------------------------------
Init ==
    /\ prog \in Programs
    /\ phase = "typing"
    /\ types = << >> /\ recType = TREC /\ cached = {} /\ mxd = << >>
    /\ slider = 0
    /\ konst = << >> /\ slow = << >> /\ vec = << >> /\ IOTA = 0
    /\ perm = << >> /\ table = << >> /\ cur = << >>
    /\ latched = 0 /\ past = << >> /\ content = << >>
    /\ left = 0 /\ blocks = 0 /\ inits = 0

\* Mutant: an interval without bounds is not equal to itself.
FixpointValid(old, new) == new = old /\ new.int.valid

\* finished: the hypothesis is what comes out of it.
Fixpoint(old, new) == new = old

(* typeAnnotation: one round of the loop that types the recursive groups.  *)
Iterate ==
    /\ phase = "typing"
    /\ prog.body # 0
    /\ LET t == T(recType)
       IN  IF BadDelay(t, prog.body)
           THEN phase' = "error" /\ UNCHANGED recType
           ELSE /\ recType' = t[prog.body]
                /\ phase' = IF Fixpoint(recType, t[prog.body])
                            THEN "typed" ELSE "typing"
    /\ UNCHANGED <<prog, types, cached, mxd, slider, compiled, reference, left,
                   blocks, inits>>

(* typeAnnotation: the full term, with the types of the groups; then the   *)
(* occurrences, whose assertion ends the compiler.                         *)
TypeAll ==
    /\ phase = (IF prog.body = 0 THEN "typing" ELSE "typed")
    /\ LET t == T(recType)
       IN  /\ types' = t
           /\ IF BadDelay(t, Len(sigs)) \/ Unbounded(t)
              THEN phase' = "error" /\ UNCHANGED <<cached, mxd>>
              ELSE /\ phase' = "compiled"
                   /\ cached' = {n \in Sigs : Cached(t, n)}
                   /\ mxd' = [n \in Sigs |-> MaxDelay(t, n)]
    /\ UNCHANGED <<prog, recType, slider, compiled, reference, left, blocks,
                   inits>>

(* instanceInit: the code pushInitMethod gathered, in its order.           *)
InstanceInit ==
    /\ phase \in {"compiled", "ready"}
    /\ inits < MaxInits
    /\ LET v == Code(kKonst, << >>, << >>, 0, 0)
       IN  /\ konst' = v
           /\ perm' = [n \in {n \in Sigs : sigs[n].op = "prefix"} |->
                         v[sigs[n].a]]
    /\ slow' = << >>
    /\ vec' = [n \in Sigs |-> [k \in 0 .. LineSize(mxd[n]) - 1 |-> 0]]
    /\ IOTA' = 0
    /\ table' = Tables
    /\ slider' = 0
    /\ cur' = << >> /\ past' = << >> /\ content' = Tables
    /\ phase' = "ready"
    /\ inits' = inits + 1
    /\ UNCHANGED <<prog, annotations, latched, left, blocks>>

(* An interface moves the slider, also while a block is computed.          *)
MoveSlider ==
    /\ phase \in {"ready", "block"}
    /\ \E n \in Sigs : /\ sigs[n].op = "slider"
                       /\ slider' \in sigs[n].a .. sigs[n].b
    /\ slider' # slider
    /\ UNCHANGED <<prog, phase, annotations, compiled, reference, left, blocks,
                   inits>>

(* compute: the code of the block.                                         *)
StartBlock ==
    /\ phase = "ready"
    /\ blocks < MaxBlocks
    /\ slow' = Code(kBlock, konst, << >>, 0, slider)
    /\ latched' = slider
    /\ left' = BlockSize
    /\ phase' = "block"
    /\ blocks' = blocks + 1
    /\ UNCHANGED <<prog, annotations, slider, konst, vec, IOTA, perm, table, cur,
                   past, content, inits>>

(* compute: the code of one sample, with what comes after it, and the end  *)
(* of the block.                                                           *)
Sample ==
    /\ phase = "block"
    /\ \E in \in Samples :
         LET v == Code(kSamp, konst, slow, in, slider)
             m == Meaning(in)
         IN  /\ cur' = [n \in Sigs |-> Stored(v, n)]
             /\ vec' = [n \in Sigs |-> DelayLine(v, n)]
             /\ perm' = [n \in DOMAIN perm |-> v[sigs[n].b]]
             /\ table' = Written(table, v)
             /\ past' = Append(past, m)
             /\ content' = Written(content, m)
    /\ IOTA' = IOTA + 1
    /\ left' = left - 1
    /\ phase' = IF left = 1 THEN "ready" ELSE "block"
    /\ UNCHANGED <<prog, annotations, slider, konst, slow, latched, blocks, inits>>

Next == Iterate \/ TypeAll \/ InstanceInit \/ MoveSlider \/ StartBlock \/ Sample

Spec == Init /\ [][Next]_vars

\* The compiler is sequential code: it runs to its end.
FairSpec == Spec /\ WF_vars(Iterate \/ TypeAll)

-----------------------------------------------------------------------------
Types == [var : {kKonst, kBlock, kSamp},
          int : [valid : BOOLEAN, lo : Int, hi : Int]]

(* The types of the state, and the sizes of the delay lines.               *)
TypeOK ==
    /\ phase \in {"typing", "typed", "compiled", "ready", "block", "error"}
    /\ recType \in Types
    /\ phase \in {"compiled", "ready", "block"} => types \in [Sigs -> Types]
    /\ phase \in {"ready", "block"} =>
         \A n \in Sigs : DOMAIN vec[n] = 0 .. LineSize(mxd[n]) - 1
    /\ slider \in Int
    /\ left \in 0 .. BlockSize
    /\ blocks \in 0 .. MaxBlocks /\ inits \in 0 .. MaxInits

(* The output the generated code computes, from variables of init, of the  *)
(* block and of the sample, arrays that are shifted and rings, is what the *)
(* signal means, sample after sample, whenever the slider moves and across *)
(* initialisations.                                                        *)
CompiledIsMeaning ==
    cur # << >> => cur[Len(sigs)] = past[Len(past)][Len(sigs)]

(* The values of a signal are in the interval inferred for it, on which    *)
(* the length of its delay line rests; reads of written tables aside.      *)
ValuesAdmitted ==
    cur # << >> =>
      \A n \in Sigs : sigs[n].op # "rwtable" =>
        Admits(types[n].int, past[Len(past)][n])

(* The search for the types of recursive groups ends ("find least          *)
(* fixpoint", typeAnnotation).                                             *)
TypingEnds == <>(phase \notin {"typing", "typed"})
=============================================================================
