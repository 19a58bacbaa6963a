--------------------------- MODULE PatternMatcher ---------------------------
(***************************************************************************)
(* The pattern matcher of case expressions                                 *)
(* (compiler/patternmatcher/patternmatcher.cpp): the left sides of the     *)
(* rules are merged one after the other into a tree automaton, which is    *)
(* then applied to the arguments one at a time, and gives the first rule   *)
(* that matches with the values of its variables.                          *)
(*                                                                         *)
(* A term is a node and its branches, as in tlib.  A pattern is a term     *)
(* with leaves in Ids (boxPatternVar).  The automaton is a tree: copies of *)
(* states are deep in the code, so a state is a value here, and a state    *)
(* number is the state itself.                                             *)
(***************************************************************************)
EXTENDS Integers, Sequences, SequencesExt, FiniteSetsExt, TLC

CONSTANTS Ids,           \* pattern variables
          RuleLists,     \* lists of left sides, all with as many patterns
          Arguments,     \* Arguments[i]: terms the i-th parameter may be given
          NumericValue,  \* the terms isBoxNumeric simplifies, with their number
          Numbers,       \* nodes of boxInt and boxReal
          Addresses      \* orders the nodes may have in memory

VARIABLES address,       \* where each node is allocated
          rules,         \* the left sides, in the order of the source
          merged,        \* rules merged so far
          start,         \* initial state of the automaton
          checked,       \* rules whose shadowing was checked
          shadowed,      \* rules warned about
          s,             \* state reached
          E,             \* environment of each rule
          args,          \* arguments given so far
          outcome,       \* "none", "applied", "failed", "undefined" or "nostate"
          applied        \* rule of the closure returned

vars == <<address, rules, merged, start, checked, shadowed, s, E, args,
          outcome, applied>>

PatternMatcherAssumption ==
    /\ RuleLists # {}
    /\ \A R \in RuleLists : \A q \in DOMAIN R : Len(R[q]) = Len(Arguments)

Tree(n, br) == [n |-> n, br |-> br]
Leaf(n) == Tree(n, <<>>)
Var == "var"    \* the symbol of a transition on a variable
NoId == "none"  \* no variable in a rule marker

Rule(q, id, p) == [r |-> q, id |-> id, p |-> p]
Trans(sym, arity, state) == [sym |-> sym, arity |-> arity, state |-> state]

(* whole is a history: no transition was left out when another state was   *)
(* merged into this one.                                                   *)
State(ru, trans) == [rules |-> ru, trans |-> trans, whole |-> TRUE]
EmptyState == State(<<>>, <<>>)
IsVar(t) == t.sym = Var

-----------------------------------------------------------------------------
(* Subterm at a path.                                                      *)
RECURSIVE subtree(_, _)
subtree(X, p) == IF p = <<>> \/ X.br = <<>> THEN X
                 ELSE subtree(X.br[Head(p)], Tail(p))

simplifyPattern(X) == IF X \in DOMAIN NumericValue THEN NumericValue[X] ELSE X

(* The trie of the patterns still to be read, each with its path.          *)
RECURSIVE make_state(_, _)
make_state(q, todo) ==
    IF todo = <<>> THEN State(<<Rule(q, NoId, <<>>)>>, <<>>)
    ELSE LET x == todo[1].x
             p == todo[1].p
         IN IF x.n \in Ids
            THEN State(<<Rule(q, x.n, p)>>,
                       <<Trans(Var, 0, make_state(q, Tail(todo)))>>)
            ELSE LET below == [i \in DOMAIN x.br |-> [x |-> x.br[i], p |-> Append(p, i)]]
                 IN State(<<Rule(q, NoId, <<>>)>>,
                          <<Trans(x.n, Len(x.br), make_state(q, below \o Tail(todo)))>>)

(* A state behind n transitions on variables.                              *)
RECURSIVE make_var_state(_, _)
make_var_state(n, state) ==
    IF n = 0 THEN state
    ELSE State([i \in DOMAIN state.rules |-> Rule(state.rules[i].r, NoId, <<>>)],
               <<Trans(Var, 0, make_var_state(n - 1, state))>>)

InsertRule(R, ru) == SelectSeq(R, LAMBDA q : q.r <= ru.r) \o <<ru>>
                     \o SelectSeq(R, LAMBDA q : q.r > ru.r)

merge_rules_Appended(rules1, rules2) == rules1 \o rules2
merge_rules(rules1, rules2) == FoldLeft(InsertRule, rules1, rules2)

RECURSIVE merge_state(_, _)

(* A transition on a variable is followed by every symbol.                 *)
merge_trans_var(trans, state) ==
    LET all == IF IsVar(trans[1]) THEN trans
               ELSE <<Trans(Var, 0, EmptyState)>> \o trans
    IN [i \in DOMAIN all |->
          [all[i] EXCEPT !.state = merge_state(@, make_var_state(all[i].arity, state))]]

(* A transition on a constant or an operator: constants and operators are  *)
(* sorted by address, each kind among its own.  A new one also gets what   *)
(* the transition on a variable leads to.                                  *)
merge_trans_sym(trans, t) ==
    LET first == IF IsVar(trans[1]) THEN 2 ELSE 1
        stop == {i \in first .. Len(trans) :
                   /\ trans[i].arity = t.arity
                   /\ address[t.sym] <= address[trans[i].sym]}
        at == Min(stop \cup {Len(trans) + 1})
    IN IF at \in stop /\ trans[at].sym = t.sym
       THEN [trans EXCEPT ![at].state = merge_state(@, t.state)]
       ELSE InsertAt(trans, at,
              IF first = 1 THEN t
              ELSE [t EXCEPT !.state = merge_state(@, make_var_state(t.arity, trans[1].state))])

(* Only the first transition of trans2 is merged.                          *)
merge_trans(trans1, trans2) ==
    CASE trans2 = <<>> -> trans1
      [] trans2 # <<>> /\ trans1 = <<>> -> trans2
      [] trans2 # <<>> /\ trans1 # <<>> /\ IsVar(trans2[1]) ->
           merge_trans_var(trans1, trans2[1].state)
      [] OTHER -> merge_trans_sym(trans1, trans2[1])

merge_state(state1, state2) ==
    [rules |-> merge_rules(state1.rules, state2.rules),
     trans |-> merge_trans(state1.trans, state2.trans),
     whole |-> /\ state1.whole /\ state2.whole
               /\ Len(state2.trans) > 1 => state1.trans = <<>>]

-----------------------------------------------------------------------------
(* The way of the terms through the automaton, with the rule markers met.  *)
match_num(state) == \E i \in DOMAIN state.trans : state.trans[i].sym \in Numbers

RECURSIVE Walk(_, _, _)
Walk(state, todo, subst) ==
    IF todo = <<>> THEN [found |-> TRUE, s |-> state, subst |-> subst]
    ELSE LET X == IF match_num(state) THEN simplifyPattern(todo[1]) ELSE todo[1]
             hits == {i \in DOMAIN state.trans :
                        /\ state.trans[i].sym = X.n
                        /\ state.trans[i].arity = Len(X.br)}
             met == subst \o SelectSeq(state.rules, LAMBDA ru : ru.id # NoId)
         IN CASE hits # {} ->
                   Walk(state.trans[Min(hits)].state, X.br \o Tail(todo), met)
              [] hits = {} /\ IsVar(state.trans[1]) ->
                   Walk(state.trans[1].state, Tail(todo), met)
              [] OTHER -> [found |-> FALSE, s |-> EmptyState, subst |-> <<>>]

(* One variable of a rule.  searchIdDef goes up from the environment to    *)
(* the barrier, and a boxError has nothing above it.                       *)
EmptyEnv == [fate |-> "viable", def |-> [i \in {} |-> Leaf(NoId)]]
BindLinear(X, env, ru) ==
    [env EXCEPT !.def = @ @@ (ru.id :> subtree(X, ru.p))]
Bind(X, env, ru) ==
    LET Z1 == subtree(X, ru.p) IN
    CASE env.fate # "viable" -> [env EXCEPT !.fate = "undefined"]
      [] env.fate = "viable" /\ ru.id \notin DOMAIN env.def ->
           [env EXCEPT !.def = @ @@ (ru.id :> Z1)]
      [] env.fate = "viable" /\ ru.id \in DOMAIN env.def ->
           IF env.def[ru.id] = Z1 THEN env ELSE [env EXCEPT !.fate = "error"]

final(state) == state.trans = <<>>

(* The state reached, the environments, and the rule whose right side is   *)
(* returned (0 when there is none yet).                                    *)
apply_pattern_matcher(state, X, env) ==
    LET w == Walk(state, <<X>>, <<>>)
        active == {w.s.rules[i].r : i \in DOMAIN w.s.rules}
        BindX(e, ru) == Bind(X, e, ru)
        env2 == [q \in DOMAIN env |->
                   IF q \in active /\ env[q].fate = "viable"
                   THEN FoldLeft(BindX, env[q], SelectSeq(w.subst, LAMBDA ru : ru.r = q))
                   ELSE env[q]]
        viable == SelectSeq(w.s.rules, LAMBDA ru : env2[ru.r].fate = "viable")
        rule == IF w.found /\ final(w.s) /\ viable # <<>> THEN viable[1].r ELSE 0
    IN [s |-> w.s, E |-> env2, rule |-> rule,
        found |-> w.found /\ (final(w.s) => rule # 0),
        undefined |-> \E q \in DOMAIN env2 : env2[q].fate = "undefined"]

(* Several arguments in a row.                                             *)
ApplyAll(Xs) ==
    LET Step(a, X) == IF a.found /\ ~ a.undefined
                      THEN apply_pattern_matcher(a.s, X, a.E) ELSE a
    IN FoldLeft(Step, [s |-> start, E |-> [q \in DOMAIN rules |-> EmptyEnv], rule |-> 0,
                       found |-> TRUE, undefined |-> FALSE], Xs)

-----------------------------------------------------------------------------
Init == /\ address \in Addresses
        /\ rules \in RuleLists
        /\ merged = 0 /\ start = EmptyState
        /\ checked = 0 /\ shadowed = {}
        /\ s = EmptyState /\ E = [q \in DOMAIN rules |-> EmptyEnv]
        /\ args = <<>> /\ outcome = "none" /\ applied = 0

MergeRule ==
    LET q == merged + 1
        todo == [i \in DOMAIN rules[q] |-> [x |-> rules[q][i], p |-> <<>>]]
    IN /\ merged < Len(rules)
       /\ merged' = q
       /\ start' = merge_state(start, make_state(q, todo))
       /\ s' = start'
       /\ UNCHANGED <<address, rules, checked, shadowed, E, args, outcome, applied>>

(* The left side of a rule, given to the automaton as the arguments.  When *)
(* it is refused the code goes on with the state of number -1.             *)
CheckShadowed ==
    LET q == checked + 1
        a == ApplyAll(rules[q])
        before == {x \in {a.s.rules[i].r : i \in DOMAIN a.s.rules} :
                     x < q /\ a.E[x].fate = "viable"}
    IN /\ merged = Len(rules) /\ checked < Len(rules) /\ outcome = "none"
       /\ checked' = q
       /\ outcome' = CASE a.undefined -> "undefined"
                       [] ~ a.undefined /\ ~ a.found -> "nostate"
                       [] OTHER -> "none"
       /\ shadowed' = IF final(a.s) /\ before # {} THEN shadowed \cup {q} ELSE shadowed
       /\ UNCHANGED <<address, rules, merged, start, s, E, args, applied>>

(* One more argument (applyList).                                          *)
Apply(X) ==
    LET a == apply_pattern_matcher(s, X, E)
    IN /\ checked = Len(rules) /\ outcome = "none"
       /\ args' = Append(args, X)
       /\ s' = a.s /\ E' = a.E /\ applied' = a.rule
       /\ outcome' = CASE a.undefined -> "undefined"
                       [] ~ a.undefined /\ ~ a.found -> "failed"
                       [] ~ a.undefined /\ a.found /\ a.rule # 0 -> "applied"
                       [] OTHER -> "none"
       /\ UNCHANGED <<address, rules, merged, start, checked, shadowed>>

Next == \/ MergeRule
        \/ CheckShadowed
        \/ \E X \in Arguments[Min({Len(args) + 1, Len(Arguments)})] : Apply(X)

-----------------------------------------------------------------------------
(* What a rule means, apart from the automaton: a number is compared with  *)
(* the value of the term, an operator with its own, and a variable stands  *)
(* for equal terms wherever it is.                                         *)
RECURSIVE Fits(_, _)
Fits(p, X) == CASE p.n \in Ids -> TRUE
                [] p.n \notin Ids /\ p.br = <<>> ->
                     IF p.n \in Numbers THEN simplifyPattern(X) = p ELSE X = p
                [] OTHER -> X.n = p.n /\ \A i \in DOMAIN p.br : Fits(p.br[i], X.br[i])

RECURSIVE Values(_, _)
Values(p, X) == IF p.n \in Ids THEN {<<p.n, X>>}
                ELSE UNION {Values(p.br[i], X.br[i]) : i \in DOMAIN p.br}

RuleFits(q) == \A i \in DOMAIN args : Fits(rules[q][i], args[i])
RuleValues(q) == UNION {Values(rules[q][i], args[i]) : i \in DOMAIN args}
Matches(q) == /\ RuleFits(q)
              /\ \A v, w \in RuleValues(q) : v[1] = w[1] => v[2] = w[2]

RECURSIVE Whole(_)
Whole(state) == /\ state.whole
                /\ \A i \in DOMAIN state.trans : Whole(state.trans[i].state)

(* The rule applied is one that matches the arguments, with the values its *)
(* variables have in them, and is not one that make_pattern_matcher warned *)
(* about as shadowed; a term that fits no rule is refused, and the left    *)
(* side of a rule never is (make_pattern_matcher, apply_pattern_matcher).  *)
AppliedMatches ==
    /\ outcome # "nostate"
    /\ outcome = "applied" =>
         /\ Matches(applied) /\ applied \notin shadowed
         /\ RuleValues(applied) = {<<i, E[applied].def[i]>> : i \in DOMAIN E[applied].def}
    /\ (outcome = "none" /\ args # <<>>) => \E q \in DOMAIN rules : RuleFits(q)

(* No rule before the one applied matches, and when the match fails none   *)
(* does.                                                                   *)
FirstApplied ==
    /\ outcome = "applied" => \A q \in 1 .. applied - 1 : ~ Matches(q)
    /\ outcome = "failed" => \A q \in DOMAIN rules : ~ Matches(q)

(* The same for the automata that lost nothing in a merge, which assumes   *)
(* that what it merges has one transition in each state (merge_state).     *)
FirstAppliedIfWhole == Whole(start) => FirstApplied
=============================================================================
