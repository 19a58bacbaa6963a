------------------------ MODULE MCInterfaces_proofs ------------------------
(***************************************************************************)
(* Proofs about the instances of MCInterfaces: the zones a user moves, the *)
(* destination of the OSC stream and the answers of the root, and the      *)
(* search for ports.                                                       *)
(***************************************************************************)
EXTENDS MCInterfaces, Sequences, SequenceTheorems, FiniteSets, FiniteSetTheorems, TLAPS

-----------------------------------------------------------------------------
(***************************************************************************)
(* Zones moved by the user, for any number of zones and items, any range   *)
(* and any resolution of the widgets                                       *)
(***************************************************************************)
\* The calls of a thread, when one returns and when one is made.
LEMMA StackSteps ==
  ASSUME NEW C, NEW s \in Seq(C), s # <<>>
  PROVE  /\ Len(s) \in Nat \ {0} /\ s[Len(s)] \in C
         /\ SubSeq(s, 1, Len(s) - 1) \in Seq(C)
         /\ Len(SubSeq(s, 1, Len(s) - 1)) = Len(s) - 1
         /\ \A k \in 1..(Len(s) - 1) : SubSeq(s, 1, Len(s) - 1)[k] = s[k]
<1>1. Len(s) \in Nat \ {0} /\ \A k \in 1..Len(s) : s[k] \in C
  BY EmptySeq, ElementOfSeq
<1> DEFINE n == Len(s) - 1
           t == SubSeq(s, 1, n)
<1>2. n \in Nat /\ n + 1 = Len(s)
  BY <1>1
<1> HIDE DEF n
<1>3. 1 \in Int /\ n \in Int /\ \A k \in 1..n : s[k] \in C
  BY <1>1, <1>2
<1>4. /\ t \in Seq(C) /\ Len(t) = IF 1 <= n THEN n - 1 + 1 ELSE 0
      /\ \A k \in 1..(n - 1 + 1) : t[k] = s[1 + k - 1]
  BY <1>3, SubSeqProperties
<1> HIDE DEF t
<1>5. Len(t) = n
  BY <1>2, <1>4
<1>6. ASSUME NEW k \in 1..n PROVE t[k] = s[k]
  <2>1. k \in 1..(n - 1 + 1) /\ 1 + k - 1 = k
    BY <1>2
  <2> QED
    BY <1>4, <2>1
<1>7. Len(s) \in 1..Len(s)
  BY <1>1
<1> QED
  BY <1>1, <1>4, <1>5, <1>6, <1>7 DEF t, n

\* A widget is put at a position, and at the value itself when that is one.
LEMMA WidgetPositions ==
  ASSUME User!ZonesAssumption, NEW x \in User!Values
  PROVE  /\ User!WidgetValue(x) \in User!Positions
         /\ x \in User!Positions => User!WidgetValue(x) = x
         /\ User!Positions \subseteq User!Values
<1>1. /\ Lo \in Nat /\ Hi \in Nat /\ Lo <= Hi /\ Hi <= MaxValue /\ MaxValue \in Nat
      /\ Unit \in Nat \ {0} /\ x \in Nat
  BY DEF User!ZonesAssumption, User!Values
<1>2. User!clip(x) \in Lo..Hi /\ (x \in Lo..Hi => User!clip(x) = x)
  BY <1>1 DEF User!clip
<1> DEFINE d == User!clip(x) - Lo
           q == d \div Unit
<1>3. d \in Nat /\ d <= Hi - Lo
  BY <1>1, <1>2
<1>4. ASSUME NEW a \in Nat, NEW u \in Nat \ {0}
      PROVE  /\ a \div u \in Nat /\ (a \div u) * u \in Nat /\ (a \div u) * u <= a
             /\ ((a \div u) * u) % u = 0
             /\ a % u = 0 => (a \div u) * u = a
    <2>1. a \div u \in Nat /\ a % u \in 0..(u - 1) /\ a = u * (a \div u) + (a % u)
      OBVIOUS
    <2>2. \A b \in Nat : b * u = u * b /\ b * u \in Nat /\ (b * u) % u = 0
      OBVIOUS
    <2> DEFINE b == a \div u
               m == a % u
               p == b * u
    <2>3. /\ b \in Nat /\ m \in 0..(u - 1) /\ a = p + m /\ p \in Nat /\ p % u = 0
      BY <2>1, <2>2
    <2> HIDE DEF b, m, p
    <2>4. b \in Nat /\ p \in Nat /\ p <= a /\ p % u = 0 /\ (m = 0 => p = a)
      BY <2>3
    <2> QED
      BY <2>4 DEF b, m, p
<1>5. /\ q * Unit \in Nat /\ q * Unit <= d /\ (q * Unit) % Unit = 0
      /\ d % Unit = 0 => q * Unit = d
  BY <1>1, <1>3, <1>4
<1>6. User!WidgetValue(x) = Lo + q * Unit
  BY DEF User!WidgetValue
<1> QED
  BY <1>1, <1>2, <1>3, <1>5, <1>6 DEF User!Positions, User!Values

\* A pass visits zones of the two interfaces.
LEMMA PassZones ==
  ASSUME User!ZonesAssumption
  PROVE  User!AllZones \in Seq({1, 2} \X User!Zones)
<1>1. NZones \in Nat \ {0}
  BY DEF User!ZonesAssumption
<1>2. ASSUME NEW k \in 1..(2 * NZones)
      PROVE  /\ ((k - 1) \div NZones) + 1 \in {1, 2}
             /\ ((k - 1) % NZones) + 1 \in 1..NZones
  BY <1>1
<1>3. 2 * NZones \in Nat
  BY <1>1
<1> QED
  BY <1>2, <1>3 DEF User!AllZones, User!Zones
\* What a call carries, and the calls that are made.
LEMMA CallKinds ==
  ASSUME NEW c \in User!Calls
  PROVE  /\ c.op = "pass" => c.todo \in Seq({1, 2} \X User!Zones)
         /\ c.op = "read" => c.gui \in {1, 2} /\ c.zone \in User!Zones
         /\ c.op = "scan" => c.v \in User!Values /\ c.todo \in SUBSET User!Items
         /\ c.op = "sent" => c.item \in User!Items
         /\ c.op \in {"modify", "store"} => c.item \in User!Items /\ c.v \in User!Values
BY DEF User!Calls

\* What the calls that a pass, a scan and an update make carry.
LEMMA NewCalls ==
  /\ \A t \in Seq({1, 2} \X User!Zones) : [op |-> "pass", todo |-> t] \in User!Calls
  /\ \A g \in {1, 2}, z \in User!Zones :
        [op |-> "read", gui |-> g, zone |-> z] \in User!Calls
  /\ \A x \in User!Values, S \in SUBSET User!Items :
        [op |-> "scan", v |-> x, todo |-> S] \in User!Calls
  /\ \A i \in User!Items : [op |-> "sent", item |-> i] \in User!Calls
  /\ \A o \in {"modify", "store"}, i \in User!Items, x \in User!Values :
        [op |-> o, item |-> i, v |-> x] \in User!Calls
BY DEF User!Calls

\* The thread after a return, after a call in the place of the current one, and after
\* a call made by one that goes on.
LEMMA StackKept ==
  ASSUME stack \in Seq(User!Calls), ~User!Idle,
         \A k \in 1..(Len(stack) - 1) : stack[k].op \in {"pass", "scan"}
  PROVE  /\ User!Top \in User!Calls
         /\ stack' = User!Pop =>
              /\ stack' \in Seq(User!Calls)
              /\ \A k \in 1..(Len(stack') - 1) : stack'[k].op \in {"pass", "scan"}
              /\ \A z : ~User!Modifying(z)'
              /\ User!Idle' \/ User!Top'.op \in {"pass", "scan"}
         /\ \A c \in User!Calls : stack' = Append(User!Pop, c) =>
              /\ stack' \in Seq(User!Calls) /\ User!Top' = c /\ ~User!Idle'
              /\ \A k \in 1..(Len(stack') - 1) : stack'[k].op \in {"pass", "scan"}
         /\ \A b, c \in User!Calls :
              b.op \in {"pass", "scan"} /\ stack' = Append(Append(User!Pop, b), c) =>
                /\ stack' \in Seq(User!Calls) /\ User!Top' = c /\ ~User!Idle'
                /\ \A k \in 1..(Len(stack') - 1) : stack'[k].op \in {"pass", "scan"}
<1> DEFINE s == User!Pop
<1>1. /\ Len(stack) \in Nat \ {0} /\ stack[Len(stack)] \in User!Calls
      /\ s \in Seq(User!Calls) /\ Len(s) = Len(stack) - 1
      /\ \A k \in 1..(Len(stack) - 1) : s[k] = stack[k]
  BY StackSteps DEF User!Idle, User!Pop
<1>2. s \in Seq(User!Calls) /\ Len(s) \in Nat /\ \A k \in 1..Len(s) : s[k].op \in {"pass", "scan"}
  BY <1>1
<1>3. User!Top \in User!Calls
  BY <1>1 DEF User!Top
<1> HIDE DEF s
<1>4. ASSUME stack' = s
      PROVE  /\ \A k \in 1..(Len(stack') - 1) : stack'[k].op \in {"pass", "scan"}
             /\ \A z : ~User!Modifying(z)'
             /\ User!Idle' \/ User!Top'.op \in {"pass", "scan"}
  <2>1. \A k \in 1..(Len(stack') - 1) : k \in 1..Len(s)
    BY <1>2, <1>4
  <2>2. stack' # <<>> => Len(s) \in 1..Len(s)
    BY <1>2, <1>4, EmptySeq
  <2>3. stack' # <<>> => User!Top'.op \in {"pass", "scan"}
    BY <1>2, <1>4, <2>2 DEF User!Top
  <2> QED
    BY <1>2, <1>4, <2>1, <2>3 DEF User!Modifying, User!Idle
<1>5. ASSUME NEW t \in Seq(User!Calls), NEW c \in User!Calls, stack' = Append(t, c),
             Len(t) \in Nat, \A k \in 1..Len(t) : t[k].op \in {"pass", "scan"}
      PROVE  /\ stack' \in Seq(User!Calls) /\ User!Top' = c /\ ~User!Idle'
             /\ \A k \in 1..(Len(stack') - 1) : stack'[k].op \in {"pass", "scan"}
  <2>1. /\ stack' \in Seq(User!Calls) /\ stack' # <<>> /\ Len(stack') = Len(t) + 1
        /\ \A k \in 1..Len(t) : stack'[k] = t[k]
        /\ stack'[Len(t) + 1] = c
    BY <1>5, AppendProperties
  <2>2. Len(stack') - 1 = Len(t)
    BY <1>5, <2>1
  <2> QED
    BY <1>5, <2>1, <2>2 DEF User!Top, User!Idle
<1>6. ASSUME NEW b \in User!Calls, NEW c \in User!Calls, b.op \in {"pass", "scan"},
             stack' = Append(Append(s, b), c)
      PROVE  /\ stack' \in Seq(User!Calls) /\ User!Top' = c /\ ~User!Idle'
             /\ \A k \in 1..(Len(stack') - 1) : stack'[k].op \in {"pass", "scan"}
  <2> DEFINE t == Append(s, b)
  <2>1. /\ t \in Seq(User!Calls) /\ Len(t) = Len(s) + 1
        /\ \A k \in 1..Len(s) : t[k] = s[k]
        /\ t[Len(s) + 1] = b
    BY <1>2, AppendProperties
  <2>2. stack' = Append(t, c)
    BY <1>6
  <2> HIDE DEF t
  <2>3. Len(t) \in Nat /\ \A k \in 1..Len(t) : k \in 1..Len(s) \/ k = Len(s) + 1
    BY <1>2, <2>1
  <2>4. \A k \in 1..Len(t) : t[k].op \in {"pass", "scan"}
    BY <1>2, <1>6, <2>1, <2>3
  <2> QED
    BY <1>5, <2>1, <2>2, <2>3, <2>4
<1> QED
  BY <1>2, <1>3, <1>4, <1>5, <1>6 DEF s

\* A value asked for is that of its zone, or carried by the call that will store it.
Carried == \A z \in User!Zones : asked[z] # User!Unset =>
              /\ asked[z] \in User!Positions
              /\ asked[z] = IF User!Modifying(z) THEN User!Top.v ELSE zone[z]
Below == \A k \in 1..(Len(stack) - 1) : stack[k].op \in {"pass", "scan"}

\* A step between two calls that store nothing.
LEMMA CarriedQuietly ==
  ASSUME Carried, UNCHANGED <<zone, asked>>,
         \A z : ~User!Modifying(z), \A z : ~User!Modifying(z)'
  PROVE  Carried'
BY DEF Carried

\* A call that stores nothing, once it is the current one.
LEMMA OtherCall ==
  ASSUME User!Top'.op \notin {"modify", "store"}
  PROVE  \A z : ~User!Modifying(z)'
BY DEF User!Modifying

\* An item whose cache is ahead of what it shows is the one the current call is about.
Told ==
    /\ User!Call("modify") =>
         /\ User!Kind(User!Top.item) = "widget" /\ User!Top.v \in User!Positions
         /\ shown[User!Top.item] = User!Top.v
    /\ User!Call("sent") => /\ User!Kind(User!Top.item) = "node"
                            /\ shown[User!Top.item] = zone[User!Top.item[1]]
    /\ \A i \in User!Items : fCache[i] # User!Unset =>
         \/ User!Shows(i, fCache[i])
         \/ (User!Call("modify") \/ User!Call("sent")) /\ User!Top.item = i

\* Between two calls that are about no item, what is shown is what was cached.
LEMMA ToldBetween ==
  ASSUME Told, User!Idle \/ User!Top.op \notin {"modify", "sent"}
  PROVE  \A i \in User!Items : fCache[i] # User!Unset => User!Shows(i, fCache[i])
BY DEF Told, User!Call

\* What is shown after a step, when the call that is current then is about no item.
LEMMA ToldNext ==
  ASSUME User!Idle' \/ User!Top'.op \notin {"modify", "sent"},
         \A i \in User!Items : fCache'[i] # User!Unset => User!Shows(i, fCache[i])'
  PROVE  Told'
BY DEF Told, User!Call

\* A step that neither caches nor shows a value, between two such calls.
LEMMA ToldQuietly ==
  ASSUME Told, UNCHANGED <<fCache, shown>>,
         User!Idle \/ User!Top.op \notin {"modify", "sent"},
         User!Idle' \/ User!Top'.op \notin {"modify", "sent"}
  PROVE  Told'
BY ToldBetween, ToldNext DEF User!Shows

\* The inductive invariant, when no OSC client writes the zones: a call of modifyZone
\* carries the value asked for, which is a position of the widgets (reflectZone,
\* modifyZone, updateZone).
THEOREM UserInvariance ==
  ASSUME User!ZonesAssumption
  PROVE  User!Spec => []User!Inv
<1> USE DEF User!Unset
<1>0. /\ NZones \in Nat \ {0} /\ {Widgets, Displays, Nodes} \subseteq Nat
      /\ MaxMoves \in Nat /\ Lo \in User!Values /\ User!Positions \subseteq User!Values
      /\ 0 \in Nat
  BY WidgetPositions DEF User!ZonesAssumption, User!Values
<1>i. User!Inv <=> User!TypeOK /\ Below /\ Carried /\ Told
  BY DEF User!Inv, Below, Carried, Told
<1>j. User!Inv' <=> User!TypeOK' /\ Below' /\ Carried' /\ Told'
  BY DEF User!Inv, Below, Carried, Told
<1>t. User!TypeOK <=>
        /\ zone \in [User!Zones -> User!Values] /\ asked \in [User!Zones -> User!Values \cup {-1}]
        /\ fCache \in [User!Items -> User!Values \cup {-1}]
        /\ shown \in [User!Items -> User!Values \cup {-1}]
        /\ stack \in Seq(User!Calls) /\ moves \in 0..MaxMoves /\ stores \in 0..0
  BY DEF User!TypeOK
<1>u. User!TypeOK' <=>
        /\ zone' \in [User!Zones -> User!Values] /\ asked' \in [User!Zones -> User!Values \cup {-1}]
        /\ fCache' \in [User!Items -> User!Values \cup {-1}]
        /\ shown' \in [User!Items -> User!Values \cup {-1}]
        /\ stack' \in Seq(User!Calls) /\ moves' \in 0..MaxMoves /\ stores' \in 0..0
  BY DEF User!TypeOK
<1>1. User!Init => User!Inv
  <2> SUFFICES ASSUME User!Init PROVE User!Inv
    OBVIOUS
  <2>1. stack = <<>> /\ stack \in Seq(User!Calls) /\ Len(stack) = 0
    BY EmptySeq DEF User!Init
  <2>2. User!TypeOK
    BY <1>0, <1>t, <2>1 DEF User!Init
  <2> QED
    BY <1>i, <2>1, <2>2 DEF User!Init, Below, Carried, Told, User!Call, User!Idle
<1>2. ASSUME User!Inv, [User!Next]_(User!vars) PROVE User!Inv'
  <2>0. /\ Below /\ Carried /\ Told
        /\ zone \in [User!Zones -> User!Values] /\ asked \in [User!Zones -> User!Values \cup {-1}]
        /\ fCache \in [User!Items -> User!Values \cup {-1}]
        /\ shown \in [User!Items -> User!Values \cup {-1}]
        /\ stack \in Seq(User!Calls) /\ moves \in 0..MaxMoves /\ stores \in 0..0
    BY <1>2, <1>i, <1>t
  <2>k. ~User!Idle =>
         /\ User!Top \in User!Calls
         /\ stack' = User!Pop =>
              /\ stack' \in Seq(User!Calls) /\ Below' /\ \A z : ~User!Modifying(z)'
              /\ User!Idle' \/ User!Top'.op \in {"pass", "scan"}
         /\ \A c \in User!Calls : stack' = Append(User!Pop, c) =>
              stack' \in Seq(User!Calls) /\ User!Top' = c /\ ~User!Idle' /\ Below'
         /\ \A b, c \in User!Calls :
              b.op \in {"pass", "scan"} /\ stack' = Append(Append(User!Pop, b), c) =>
                stack' \in Seq(User!Calls) /\ User!Top' = c /\ ~User!Idle' /\ Below'
    BY <2>0, StackKept DEF Below
  <2>q. ASSUME User!Top.op \notin {"modify", "store"} \/ User!Idle
        PROVE  \A z : ~User!Modifying(z)
    BY <2>q DEF User!Modifying
  <2>1. CASE User!updateAllGuis
    <3>1. [op |-> "pass", todo |-> User!AllZones] \in User!Calls
      BY PassZones, NewCalls
    <3>2. User!Idle /\ UNCHANGED <<zone, fCache, shown, asked, moves, stores>>
      BY <2>1 DEF User!updateAllGuis
    <3>3. /\ stack' = <<[op |-> "pass", todo |-> User!AllZones]>>
          /\ stack' \in Seq(User!Calls) /\ Len(stack') = 1
          /\ stack'[1].op = "pass"
      BY <2>1, <3>1 DEF User!updateAllGuis
    <3>4. Below' /\ User!Top'.op = "pass"
      BY <3>3 DEF Below, User!Top
    <3>5. Carried'
      BY <2>0, <2>q, <3>2, <3>4, OtherCall, CarriedQuietly
    <3>6. Told'
      BY <2>0, <3>2, <3>4, ToldQuietly
    <3> QED
      BY <1>j, <1>u, <2>0, <3>2, <3>3, <3>4, <3>5, <3>6
  <2>2. CASE User!NextZone
    <3>1. /\ ~User!Idle /\ User!Top.op = "pass"
          /\ UNCHANGED <<zone, fCache, shown, asked, moves, stores>>
      BY <2>2 DEF User!NextZone, User!Call
    <3>2. User!Top.todo \in Seq({1, 2} \X User!Zones)
      BY <2>k, <3>1, CallKinds
    <3>3. /\ stack' \in Seq(User!Calls) /\ Below'
          /\ \A z : ~User!Modifying(z)'
          /\ User!Idle' \/ User!Top'.op \notin {"modify", "sent"}
      <4>1. CASE User!Top.todo = <<>>
        BY <2>2, <2>k, <3>1, <4>1 DEF User!NextZone
      <4>2. CASE User!Top.todo # <<>>
        <5> DEFINE b == [op |-> "pass", todo |-> Tail(User!Top.todo)]
                   c == [op |-> "read", gui |-> Head(User!Top.todo)[1],
                         zone |-> Head(User!Top.todo)[2]]
        <5>1. /\ Head(User!Top.todo) \in {1, 2} \X User!Zones
              /\ Tail(User!Top.todo) \in Seq({1, 2} \X User!Zones)
          BY <3>2, <4>2, HeadTailProperties
        <5>2. b \in User!Calls /\ c \in User!Calls /\ b.op = "pass" /\ c.op = "read"
          BY <5>1, NewCalls
        <5>3. stack' = Append(Append(User!Pop, b), c)
          BY <2>2, <4>2 DEF User!NextZone
        <5> HIDE DEF b, c
        <5> QED
          BY <2>k, <3>1, <5>2, <5>3, OtherCall
      <4> QED
        BY <4>1, <4>2
    <3>4. Carried'
      BY <2>0, <2>q, <3>1, <3>3, CarriedQuietly
    <3>5. Told'
      BY <2>0, <3>1, <3>3, ToldQuietly
    <3> QED
      BY <1>j, <1>u, <2>0, <3>1, <3>3, <3>4, <3>5
  <2>3. CASE User!updateZone
    <3> DEFINE c == [op |-> "scan", v |-> zone[User!Top.zone],
                     todo |-> User!clist(User!Top.gui, User!Top.zone)]
    <3>1. /\ ~User!Idle /\ User!Top.op = "read" /\ stack' = Append(User!Pop, c)
          /\ UNCHANGED <<zone, fCache, shown, asked, moves, stores>>
      BY <2>3 DEF User!updateZone, User!Call
    <3>2. c \in User!Calls /\ c.op = "scan"
      BY <2>0, <2>k, <3>1, CallKinds, NewCalls DEF User!clist
    <3> HIDE DEF c
    <3>3. stack' \in Seq(User!Calls) /\ Below' /\ \A z : ~User!Modifying(z)'
      BY <2>k, <3>1, <3>2, OtherCall
    <3>4. Carried'
      BY <2>0, <2>q, <3>1, <3>3, CarriedQuietly
    <3>5. Told'
      BY <2>0, <2>k, <3>1, <3>2, ToldQuietly
    <3> QED
      BY <1>j, <1>u, <2>0, <3>1, <3>3, <3>4, <3>5
  <2>4. CASE User!ScanEnd
    <3>1. /\ ~User!Idle /\ User!Top.op = "scan" /\ stack' = User!Pop
          /\ UNCHANGED <<zone, fCache, shown, asked, moves, stores>>
      BY <2>4 DEF User!ScanEnd, User!Call
    <3>2. Carried'
      BY <2>0, <2>k, <2>q, <3>1, CarriedQuietly
    <3>3. Told'
      BY <2>0, <2>k, <3>1, ToldQuietly
    <3> QED
      BY <1>j, <1>u, <2>0, <2>k, <3>1, <3>2, <3>3
  <2>r. ASSUME NEW i \in User!NextStale, User!Call("scan")
        PROVE  LET c == [op |-> "scan", v |-> User!Top.v,
                         todo |-> {j \in User!Top.todo : j[2] > i[2]}]
               IN  /\ i \in User!Items /\ i[1] \in User!Zones /\ c \in User!Calls /\ c.op = "scan"
                   /\ User!RestOf(i) = Append(User!Pop, c)
    <3>1. User!Top.v \in User!Values /\ User!Top.todo \in SUBSET User!Items
      BY <2>k, <2>r, CallKinds DEF User!Call
    <3>2. i \in User!Items
      BY <3>1 DEF User!NextStale, User!Stale
    <3>3. i[1] \in User!Zones
      BY <3>2 DEF User!Items
    <3> QED
      BY <3>1, <3>2, <3>3, NewCalls DEF User!RestOf
  <2>5. CASE User!reflectWidget
    <3>1. /\ ~User!Idle /\ User!Top.op = "scan" /\ User!Call("scan")
          /\ UNCHANGED <<zone, asked, moves, stores>>
      BY <2>5 DEF User!reflectWidget, User!Call
    <3>2. PICK i \in User!NextStale :
            LET v == zone[i[1]]
                w == User!WidgetValue(v) IN
            /\ User!Kind(i) = "widget"
            /\ fCache' = [fCache EXCEPT ![i] = v]
            /\ shown' = [shown EXCEPT ![i] = w]
            /\ stack' = IF w = shown[i] THEN User!RestOf(i)
                        ELSE Append(User!RestOf(i), [op |-> "modify", item |-> i, v |-> w])
      BY <2>5 DEF User!reflectWidget
    <3> DEFINE b == [op |-> "scan", v |-> User!Top.v,
                     todo |-> {j \in User!Top.todo : j[2] > i[2]}]
               x == zone[i[1]]
               w == User!WidgetValue(x)
               c == [op |-> "modify", item |-> i, v |-> w]
    <3>3. /\ i \in User!Items /\ i[1] \in User!Zones /\ b \in User!Calls /\ b.op = "scan"
          /\ User!RestOf(i) = Append(User!Pop, b)
      BY <2>r, <3>1
    <3>4. x \in User!Values
      BY <2>0, <3>3
    <3>5. w \in User!Positions /\ w \in User!Values /\ (x \in User!Positions => w = x)
      BY <1>0, <3>4, WidgetPositions
    <3>6. c \in User!Calls /\ c.op = "modify" /\ c.v = w /\ c.item[1] = i[1]
      BY <3>3, <3>5, NewCalls
    <3>7. /\ fCache' \in [User!Items -> User!Values \cup {-1}]
          /\ shown' \in [User!Items -> User!Values \cup {-1}]
      BY <2>0, <3>2, <3>3, <3>4, <3>5
    <3>s. \A j \in User!Items : fCache'[j] # -1 => User!Shows(j, fCache[j])'
      <4>1. ASSUME NEW j \in User!Items, fCache'[j] # -1 PROVE User!Shows(j, fCache[j])'
        <5>1. CASE j = i
          <6>1. User!Kind(i) = "widget" /\ fCache'[j] = x /\ shown'[j] = w
            BY <2>0, <3>2, <3>3, <5>1
          <6> QED
            BY <5>1, <6>1 DEF User!Shows
        <5>2. CASE j # i
          <6>1. fCache'[j] = fCache[j] /\ shown'[j] = shown[j]
            BY <2>0, <3>2, <3>3, <5>2
          <6>2. User!Shows(j, fCache[j])
            BY <2>0, <3>1, <4>1, <6>1, ToldBetween
          <6> QED
            BY <6>1, <6>2 DEF User!Shows
        <5> QED
          BY <5>1, <5>2
      <4> QED
        BY <4>1
    <3>8. CASE w = shown[i]
      <4>1. stack' = Append(User!Pop, b)
        BY <3>2, <3>3, <3>8
      <4> HIDE DEF b
      <4>2. stack' \in Seq(User!Calls) /\ Below' /\ \A z : ~User!Modifying(z)'
        BY <2>k, <3>1, <3>3, <4>1, OtherCall
      <4>3. Carried'
        BY <2>0, <2>q, <3>1, <4>2, CarriedQuietly
      <4>4. User!Top'.op = "scan"
        BY <2>k, <3>1, <3>3, <4>1
      <4>5. Told'
        BY <3>s, <4>4, ToldNext
      <4> QED
        BY <1>j, <1>u, <2>0, <3>1, <3>7, <4>2, <4>3, <4>5
    <3>9. CASE w # shown[i]
      <4>1. stack' = Append(Append(User!Pop, b), c)
        BY <3>2, <3>3, <3>9
      <4> HIDE DEF b, c
      <4>2. stack' \in Seq(User!Calls) /\ Below' /\ User!Top' = c /\ ~User!Idle'
        BY <2>k, <3>1, <3>3, <3>6, <4>1
      <4>3. ASSUME NEW z \in User!Zones, asked[z] # -1
            PROVE  /\ asked'[z] \in User!Positions
                   /\ asked'[z] = IF User!Modifying(z)' THEN User!Top'.v ELSE zone'[z]
        <5>1. asked[z] \in User!Positions /\ asked[z] = zone[z]
          BY <2>0, <2>q, <3>1, <4>3 DEF Carried
        <5>2. User!Modifying(z)' <=> i[1] = z
          BY <3>6, <4>2 DEF User!Modifying
        <5> QED
          BY <3>1, <3>5, <3>6, <4>2, <5>1, <5>2
      <4>4. Carried'
        BY <3>1, <4>3 DEF Carried
      <4>5. User!Top'.item = i /\ User!Top'.v = w /\ User!Top'.op = "modify"
        BY <4>2 DEF c
      <4>6. User!Kind(i) = "widget" /\ shown'[i] = w
        BY <2>0, <3>2, <3>3
      <4>7. Told'
        BY <3>5, <3>s, <4>5, <4>6 DEF Told, User!Call, User!Shows
      <4> QED
        BY <1>j, <1>u, <2>0, <3>1, <3>7, <4>2, <4>4, <4>7
    <3> QED
      BY <3>8, <3>9
  <2>6. CASE User!reflectDisplay
    <3>1. /\ ~User!Idle /\ User!Top.op = "scan" /\ User!Call("scan")
          /\ UNCHANGED <<zone, asked, moves, stores>>
      BY <2>6 DEF User!reflectDisplay, User!Call
    <3>2. PICK i \in User!NextStale :
            /\ User!Kind(i) = "display"
            /\ fCache' = [fCache EXCEPT ![i] = zone[i[1]]]
            /\ shown' = [shown EXCEPT ![i] = zone[i[1]]]
            /\ stack' = User!RestOf(i)
      BY <2>6 DEF User!reflectDisplay
    <3> DEFINE b == [op |-> "scan", v |-> User!Top.v,
                     todo |-> {j \in User!Top.todo : j[2] > i[2]}]
    <3>3. /\ i \in User!Items /\ i[1] \in User!Zones /\ b \in User!Calls /\ b.op = "scan"
          /\ stack' = Append(User!Pop, b)
      BY <2>r, <3>1, <3>2
    <3>4. /\ fCache' \in [User!Items -> User!Values \cup {-1}]
          /\ shown' \in [User!Items -> User!Values \cup {-1}]
      BY <2>0, <3>2, <3>3
    <3> HIDE DEF b
    <3>5. stack' \in Seq(User!Calls) /\ Below' /\ \A z : ~User!Modifying(z)'
      BY <2>k, <3>1, <3>3, OtherCall
    <3>6. Carried'
      BY <2>0, <2>q, <3>1, <3>5, CarriedQuietly
    <3>7. User!Top'.op = "scan"
      BY <2>k, <3>1, <3>3
    <3>8. ASSUME NEW j \in User!Items, fCache'[j] # -1 PROVE User!Shows(j, fCache[j])'
      <4>1. CASE j = i
        BY <2>0, <3>2, <3>3, <4>1 DEF User!Shows
      <4>2. CASE j # i
        <5>1. fCache'[j] = fCache[j] /\ shown'[j] = shown[j]
          BY <2>0, <3>2, <3>3, <4>2
        <5> QED
          BY <2>0, <3>1, <3>8, <5>1, ToldBetween DEF User!Shows
      <4> QED
        BY <4>1, <4>2
    <3>9. Told'
      BY <3>7, <3>8, ToldNext
    <3> QED
      BY <1>j, <1>u, <2>0, <3>1, <3>4, <3>5, <3>6, <3>9
  <2>7. CASE User!sendOSC
    <3>1. /\ ~User!Idle /\ User!Top.op = "scan" /\ User!Call("scan")
          /\ UNCHANGED <<zone, fCache, asked, moves, stores>>
      BY <2>7 DEF User!sendOSC, User!Call
    <3>2. PICK i \in User!NextStale :
            /\ User!Kind(i) = "node"
            /\ shown' = [shown EXCEPT ![i] = zone[i[1]]]
            /\ stack' = Append(User!RestOf(i), [op |-> "sent", item |-> i])
      BY <2>7 DEF User!sendOSC
    <3> DEFINE b == [op |-> "scan", v |-> User!Top.v,
                     todo |-> {j \in User!Top.todo : j[2] > i[2]}]
               c == [op |-> "sent", item |-> i]
    <3>3. /\ i \in User!Items /\ i[1] \in User!Zones /\ b \in User!Calls /\ b.op = "scan"
          /\ stack' = Append(Append(User!Pop, b), c)
      BY <2>r, <3>1, <3>2
    <3>4. c \in User!Calls /\ c.op = "sent"
      BY <3>3, NewCalls
    <3>5. shown' \in [User!Items -> User!Values \cup {-1}]
      BY <2>0, <3>2, <3>3
    <3> HIDE DEF b, c
    <3>6. stack' \in Seq(User!Calls) /\ Below' /\ \A z : ~User!Modifying(z)'
      BY <2>k, <3>1, <3>3, <3>4, OtherCall
    <3>i. ~User!Idle'
      BY <2>k, <3>1, <3>3, <3>4
    <3>7. Carried'
      BY <2>0, <2>q, <3>1, <3>6, CarriedQuietly
    <3>8. User!Top' = c /\ c.item = i
      BY <2>k, <3>1, <3>3, <3>4 DEF c
    <3>9. shown'[i] = zone'[i[1]] /\ \A j \in User!Items : j # i => shown'[j] = shown[j]
      BY <2>0, <3>1, <3>2, <3>3
    <3>10. \A j \in User!Items : fCache'[j] # -1 => j = i \/ User!Shows(j, fCache[j])'
      BY <2>0, <3>1, <3>9, ToldBetween DEF User!Shows
    <3>11. Told'
      BY <3>2, <3>4, <3>6, <3>8, <3>9, <3>10, <3>i DEF Told, User!Call
    <3> QED
      BY <1>j, <1>u, <2>0, <3>1, <3>5, <3>6, <3>7, <3>11
  <2>8. CASE User!cacheSent
    <3>1. /\ ~User!Idle /\ User!Top.op = "sent" /\ stack' = User!Pop
          /\ fCache' = [fCache EXCEPT ![User!Top.item] = zone[User!Top.item[1]]]
          /\ UNCHANGED <<zone, shown, asked, moves, stores>>
      BY <2>8 DEF User!cacheSent, User!Call
    <3>2. User!Top.item \in User!Items /\ User!Top.item[1] \in User!Zones
      BY <2>k, <3>1, CallKinds DEF User!Items
    <3>3. fCache' \in [User!Items -> User!Values \cup {-1}]
      BY <2>0, <3>1, <3>2
    <3>4. Carried'
      BY <2>0, <2>k, <2>q, <3>1, CarriedQuietly
    <3>5. /\ User!Kind(User!Top.item) = "node"
          /\ shown[User!Top.item] = zone[User!Top.item[1]]
          /\ \A j \in User!Items : fCache[j] # -1 => User!Shows(j, fCache[j]) \/ User!Top.item = j
      BY <2>0, <3>1 DEF Told, User!Call
    <3>6. ASSUME NEW j \in User!Items, fCache'[j] # -1 PROVE User!Shows(j, fCache[j])'
      <4>1. CASE j = User!Top.item
        <5>1. fCache'[j] = zone[j[1]] /\ shown'[j] = zone[j[1]] /\ User!Kind(j) = "node"
          BY <2>0, <3>1, <3>5, <4>1
        <5> QED
          BY <5>1 DEF User!Shows
      <4>2. CASE j # User!Top.item
        BY <2>0, <3>1, <3>2, <3>5, <3>6, <4>2 DEF User!Shows
      <4> QED
        BY <4>1, <4>2
    <3>7. Told'
      BY <2>k, <3>1, <3>6, ToldNext
    <3> QED
      BY <1>j, <1>u, <2>0, <2>k, <3>1, <3>3, <3>4, <3>7
  <2>9. CASE User!modifyZone
    <3> DEFINE i == User!Top.item
               x == User!Top.v
               c == [op |-> "store", item |-> i, v |-> x]
    <3>1. /\ ~User!Idle /\ User!Top.op = "modify"
          /\ fCache' = [fCache EXCEPT ![i] = x]
          /\ stack' = IF zone[i[1]] = x THEN User!Pop ELSE Append(User!Pop, c)
          /\ UNCHANGED <<zone, shown, asked, moves, stores>>
      BY <2>9 DEF User!modifyZone, User!Call
    <3>2. i \in User!Items /\ i[1] \in User!Zones /\ x \in User!Values
      BY <2>k, <3>1, CallKinds DEF User!Items
    <3>3. fCache' \in [User!Items -> User!Values \cup {-1}]
      BY <2>0, <3>1, <3>2
    <3>4. \A z : User!Modifying(z) <=> i[1] = z
      BY <3>1 DEF User!Modifying
    <3>7. User!Kind(i) = "widget" /\ x \in User!Positions /\ shown[i] = x
      BY <2>0, <3>1 DEF Told, User!Call
    <3>8. User!WidgetValue(x) = x
      BY <3>2, <3>7, WidgetPositions
    <3>9. \A j \in User!Items : fCache'[j] # -1 => User!Shows(j, fCache[j])'
      <4>1. ASSUME NEW j \in User!Items, fCache'[j] # -1 PROVE User!Shows(j, fCache[j])'
        <5>1. CASE j = i
          <6>1. fCache'[j] = x /\ shown'[j] = x
            BY <2>0, <3>1, <3>2, <3>7, <5>1
          <6> QED
            BY <3>7, <3>8, <5>1, <6>1 DEF User!Shows
        <5>2. CASE j # i
          <6>1. fCache'[j] = fCache[j] /\ shown'[j] = shown[j]
            BY <2>0, <3>1, <3>2, <5>2
          <6>2. User!Shows(j, fCache[j])
            BY <2>0, <3>1, <4>1, <5>2, <6>1 DEF Told, User!Call
          <6> QED
            BY <6>1, <6>2 DEF User!Shows
        <5> QED
          BY <5>1, <5>2
      <4> QED
        BY <4>1
    <3>5. CASE zone[i[1]] = x
      <4>1. stack' \in Seq(User!Calls) /\ Below' /\ \A z : ~User!Modifying(z)'
        BY <2>k, <3>1, <3>5
      <4>2. Carried'
        BY <2>0, <3>1, <3>4, <3>5, <4>1 DEF Carried
      <4>3. Told'
        BY <2>k, <3>1, <3>5, <3>9, ToldNext
      <4> QED
        BY <1>j, <1>u, <2>0, <3>1, <3>3, <4>1, <4>2, <4>3
    <3>6. CASE zone[i[1]] # x
      <4>1. c \in User!Calls /\ c.op = "store" /\ c.item = i /\ c.v = x
        BY <3>2, NewCalls
      <4>2. stack' = Append(User!Pop, c)
        BY <3>1, <3>6
      <4> HIDE DEF c
      <4>3. stack' \in Seq(User!Calls) /\ Below' /\ User!Top' = c /\ ~User!Idle'
        BY <2>k, <3>1, <4>1, <4>2
      <4>4. \A z : User!Modifying(z)' <=> i[1] = z
        BY <4>1, <4>3 DEF User!Modifying
      <4>5. Carried'
        BY <2>0, <3>1, <3>4, <4>1, <4>3, <4>4 DEF Carried
      <4>6. Told'
        BY <3>9, <4>1, <4>3, ToldNext
      <4> QED
        BY <1>j, <1>u, <2>0, <3>1, <3>3, <4>3, <4>5, <4>6
    <3> QED
      BY <3>5, <3>6
  <2>10. CASE User!modifyStore
    <3> DEFINE i == User!Top.item
               x == User!Top.v
               c == [op |-> "read", gui |-> User!Gui(i), zone |-> i[1]]
    <3>1. /\ ~User!Idle /\ User!Top.op = "store"
          /\ zone' = [zone EXCEPT ![i[1]] = x]
          /\ stack' = Append(User!Pop, c)
          /\ UNCHANGED <<fCache, shown, asked, moves, stores>>
      BY <2>10 DEF User!modifyStore, User!Call
    <3>2. i \in User!Items /\ i[1] \in User!Zones /\ x \in User!Values
      BY <2>k, <3>1, CallKinds DEF User!Items
    <3>3. c \in User!Calls /\ c.op = "read"
      BY <3>2, NewCalls DEF User!Gui
    <3>4. \A z : User!Modifying(z) <=> i[1] = z
      BY <3>1 DEF User!Modifying
    <3> HIDE DEF c
    <3>5. stack' \in Seq(User!Calls) /\ Below' /\ \A z : ~User!Modifying(z)'
      BY <2>k, <3>1, <3>3, OtherCall
    <3>6. zone' \in [User!Zones -> User!Values]
      BY <2>0, <3>1, <3>2
    <3>7. Carried'
      BY <2>0, <3>1, <3>2, <3>4, <3>5 DEF Carried
    <3>8. Told'
      BY <2>0, <2>k, <3>1, <3>3, ToldQuietly
    <3> QED
      BY <1>j, <1>u, <2>0, <3>1, <3>5, <3>6, <3>7, <3>8
  <2>11. ASSUME NEW i \in User!Items, NEW x \in User!Values, User!Move(i, x) PROVE User!Inv'
    <3> DEFINE c == [op |-> "modify", item |-> i, v |-> x]
    <3>1. /\ User!Idle /\ moves < MaxMoves /\ User!Kind(i) = "widget" /\ x \in User!Positions
          /\ shown' = [shown EXCEPT ![i] = x] /\ asked' = [asked EXCEPT ![i[1]] = x]
          /\ stack' = <<c>> /\ moves' = moves + 1
          /\ UNCHANGED <<zone, fCache, stores>>
      BY <2>11 DEF User!Move
    <3>2. c \in User!Calls /\ c.op = "modify" /\ c.item = i /\ c.v = x
      BY NewCalls
    <3>3. i[1] \in User!Zones
      BY DEF User!Items
    <3> HIDE DEF c
    <3>4. stack' \in Seq(User!Calls) /\ Len(stack') = 1 /\ stack'[1] = c /\ stack' # <<>>
      BY <3>1, <3>2
    <3>5. Below' /\ User!Top' = c /\ ~User!Idle'
      BY <3>4 DEF Below, User!Top, User!Idle
    <3>6. /\ \A z : User!Modifying(z)' <=> i[1] = z
          /\ \A z : ~User!Modifying(z)
      BY <2>q, <3>1, <3>2, <3>5 DEF User!Modifying
    <3>7. Carried'
      BY <2>0, <3>1, <3>2, <3>3, <3>5, <3>6 DEF Carried
    <3>8. /\ shown' \in [User!Items -> User!Values \cup {-1}]
          /\ asked' \in [User!Zones -> User!Values \cup {-1}]
          /\ moves' \in 0..MaxMoves
      BY <1>0, <2>0, <3>1, <3>3
    <3>9. shown'[i] = x /\ \A j \in User!Items : j # i => shown'[j] = shown[j]
      BY <2>0, <3>1
    <3>10. \A j \in User!Items : fCache'[j] # -1 => j = i \/ User!Shows(j, fCache[j])'
      BY <2>0, <3>1, <3>9, ToldBetween DEF User!Shows
    <3>11. Told'
      BY <3>1, <3>2, <3>5, <3>9, <3>10 DEF Told, User!Call
    <3> QED
      BY <1>j, <1>u, <2>0, <3>1, <3>4, <3>5, <3>7, <3>8, <3>11
  <2>12. ASSUME NEW z \in User!Zones, NEW x \in User!Values, User!accept(z, x) PROVE FALSE
    BY <2>0, <2>12 DEF User!accept
  <2>13. CASE UNCHANGED User!vars
    <3>1. UNCHANGED <<zone, fCache, shown, stack, asked, moves, stores>>
      BY <2>13 DEF User!vars
    <3>2. Below' /\ Carried'
      BY <2>0, <3>1 DEF Below, Carried, User!Modifying, User!Idle, User!Top
    <3>3. Told'
      BY <2>0, <3>1 DEF Told, User!Shows, User!Call, User!Idle, User!Top
    <3> QED
      BY <1>j, <1>u, <2>0, <3>1, <3>2, <3>3
  <2> QED
    BY <1>2, <2>1, <2>2, <2>3, <2>4, <2>5, <2>6, <2>7, <2>8, <2>9, <2>10, <2>11, <2>12, <2>13
       DEF User!Next, User!UIThread
<1> QED
  BY <1>1, <1>2, PTL DEF User!Spec

\* A behaviour whose part is "user" is one of the zones a user moves.
LEMMA UserBehaviour == Spec => ([](part = "user") /\ User!Spec) \/ []~(part = "user")
<1>1. Init /\ part = "user" => User!Init
  BY DEF Init
<1>2. part = "user" /\ [Next]_vars => (part = "user")' /\ [User!Next]_(User!vars)
  BY DEF Next, Alone, vars, guiVars, User!vars
<1>3. ~(part = "user") /\ [Next]_vars => ~(part = "user")'
  BY DEF Next, Alone, vars
<1> QED
  BY <1>1, <1>2, <1>3, PTL DEF Spec, User!Spec

\* A zone holds the value last asked for, and an item that believes it is up to date
\* shows what it has cached: reflecting zones in widgets, whose handlers write zones,
\* replaces no value (updateAllGuis, reflectZone, modifyZone).
THEOREM AskedIsKeptHolds == Spec => []AskedIsKept
<1>1. User!Spec => []User!Inv
  BY UserAssumption, UserInvariance
<1>2. User!Inv => User!AskedIsKept /\ User!CacheIsShown
  BY DEF User!Inv, User!AskedIsKept, User!CacheIsShown, User!Modifying, User!Call
<1>3. ~(part = "user") \/ User!Inv => AskedIsKept
  BY <1>2 DEF AskedIsKept
<1> QED
  BY <1>1, <1>3, UserBehaviour, PTL

-----------------------------------------------------------------------------
(***************************************************************************)
(* The OSC root, for any number of nodes and hosts, any options of the     *)
(* applications and any number of messages                                 *)
(***************************************************************************)
\* The steps of a request for one value, and of one for the attributes: what they are,
\* and that they are steps.
LEMMA ThreeSteps ==
  ASSUME NEW h, NEW e
  PROVE  LET q == Osc!To(h, <<e>>) IN
         /\ Len(q) = 3 /\ q[1] = [op |-> "redirect", host |-> h] /\ q[2] = e
         /\ q[3] = [op |-> "restore"]
<1> DEFINE a == [op |-> "redirect", host |-> h]
           z == [op |-> "restore"]
<1> HIDE DEF a, z
<1>1. LET q == <<a>> \o <<e>> \o <<z>> IN Len(q) = 3 /\ q[1] = a /\ q[2] = e /\ q[3] = z
  OBVIOUS
<1> QED
  BY <1>1 DEF Osc!To, a, z

\* The steps of a request for the attributes of the root.
LEMMA AttributeSteps ==
  ASSUME NEW h
  PROVE  LET q == Osc!attributesGet(h) IN
         /\ Len(q) = 7 /\ q[1] = [op |-> "redirect", host |-> h]
         /\ q[2] = Osc!Emit(Osc!Root, "xmit") /\ q[3] = Osc!Emit(Osc!Root, "desthost")
         /\ q[4] = Osc!Emit(Osc!Root, "outport") /\ q[5] = Osc!Emit(Osc!Root, "errport")
         /\ q[6] = Osc!Emit(Osc!Alias, "alias") /\ q[7] = [op |-> "restore"]
<1> DEFINE a  == [op |-> "redirect", host |-> h]
           z  == [op |-> "restore"]
           e1 == Osc!Emit(Osc!Root, "xmit")
           e2 == Osc!Emit(Osc!Root, "desthost")
           e3 == Osc!Emit(Osc!Root, "outport")
           e4 == Osc!Emit(Osc!Root, "errport")
           e5 == Osc!Emit(Osc!Alias, "alias")
<1> HIDE DEF a, z, e1, e2, e3, e4, e5
<1>1. LET q == <<a>> \o <<e1, e2, e3, e4, e5>> \o <<z>> IN
      /\ Len(q) = 7 /\ q[1] = a /\ q[2] = e1 /\ q[3] = e2 /\ q[4] = e3 /\ q[5] = e4
      /\ q[6] = e5 /\ q[7] = z
  OBVIOUS
<1> QED
  BY <1>1 DEF Osc!attributesGet, Osc!To, a, z, e1, e2, e3, e4, e5

\* A request for one value is a list of steps.
LEMMA ValueSteps ==
  ASSUME NEW S, NEW h, NEW e \in S,
         [op |-> "redirect", host |-> h] \in S, [op |-> "restore"] \in S
  PROVE  Osc!To(h, <<e>>) \in Seq(S)
<1> DEFINE a == [op |-> "redirect", host |-> h]
           z == [op |-> "restore"]
<1>1. a \in S /\ z \in S
  OBVIOUS
<1> HIDE DEF a, z
<1>2. <<a>> \o <<e>> \o <<z>> \in Seq(S)
  BY <1>1
<1> QED
  BY <1>2 DEF Osc!To, a, z

\* So is a request for the attributes.
LEMMA AnswerSteps ==
  ASSUME NEW S, NEW h, NEW e1 \in S, NEW e2 \in S, NEW e3 \in S, NEW e4 \in S, NEW e5 \in S,
         [op |-> "redirect", host |-> h] \in S, [op |-> "restore"] \in S
  PROVE  Osc!To(h, <<e1, e2, e3, e4, e5>>) \in Seq(S)
<1> DEFINE a == [op |-> "redirect", host |-> h]
           z == [op |-> "restore"]
<1>1. a \in S /\ z \in S
  OBVIOUS
<1> HIDE DEF a, z
<1>2. <<a>> \o <<e1, e2, e3, e4, e5>> \o <<z>> \in Seq(S)
  BY <1>1
<1> QED
  BY <1>2 DEF Osc!To, a, z

\* Every place of the steps of the nodes is one of the three of a node.
LEMMA NodePlaces ==
  ASSUME Osc!OSCAssumption, NEW h
  PROVE  /\ NParams \in Nat \ {0}
         /\ Len(Osc!subnodesGet(h)) = 3 * NParams
         /\ DOMAIN Osc!subnodesGet(h) = 1..(3 * NParams)
         /\ \A k \in 1..(3 * NParams) : \E b \in 1..NParams, r \in 1..3 : k = 3 * (b - 1) + r
         /\ \A b \in 1..NParams, r \in 1..3 :
              /\ 3 * (b - 1) + r \in 1..(3 * NParams)
              /\ Osc!subnodesGet(h)[3 * (b - 1) + r] = Osc!nodeGet(b, h)[r]
<1>1. NParams \in Nat \ {0}
  BY DEF Osc!OSCAssumption
<1>2. ASSUME NEW k \in 1..(3 * NParams)
      PROVE  LET b == ((k - 1) \div 3) + 1
                 r == ((k - 1) % 3) + 1
             IN b \in 1..NParams /\ r \in 1..3 /\ k = 3 * (b - 1) + r
  BY <1>1
<1>3. ASSUME NEW b \in 1..NParams, NEW r \in 1..3
      PROVE  LET k == 3 * (b - 1) + r
             IN k \in 1..(3 * NParams) /\ ((k - 1) \div 3) + 1 = b /\ ((k - 1) % 3) + 1 = r
  BY <1>1
<1>4. DOMAIN Osc!subnodesGet(h) = 1..(3 * NParams)
  BY DEF Osc!subnodesGet
<1>5. Len(Osc!subnodesGet(h)) = 3 * NParams
  BY <1>1 DEF Osc!subnodesGet
<1>6. ASSUME NEW b \in 1..NParams, NEW r \in 1..3
      PROVE  Osc!subnodesGet(h)[3 * (b - 1) + r] = Osc!nodeGet(b, h)[r]
  BY <1>3 DEF Osc!subnodesGet
<1>7. ASSUME NEW k \in 1..(3 * NParams)
      PROVE  \E b \in 1..NParams, r \in 1..3 : k = 3 * (b - 1) + r
  BY <1>2
<1>8. ASSUME NEW b \in 1..NParams, NEW r \in 1..3
      PROVE  3 * (b - 1) + r \in 1..(3 * NParams)
  BY <1>3
<1> QED
  BY <1>1, <1>4, <1>5, <1>6, <1>7, <1>8

\* A request of n packets: the destination is replaced at step i, and put back after the
\* packets are sent.
Block(q, i, n) == /\ q[i].op = "redirect" /\ q[i + n + 1].op = "restore"
                  /\ \A j \in (i + 1)..(i + n) : q[j].op = "emit"

\* The destination is away from its place inside of a block, and only there.
LEMMA BlockAway ==
  ASSUME NEW q, NEW i \in Nat \ {0}, NEW n \in Nat, Block(q, i, n)
  PROVE  /\ \A k \in i..(i + n) : Osc!Away(q, k)
         /\ ~Osc!Away(q, i + n + 1)
<1>1. ASSUME NEW k \in i..(i + n) PROVE Osc!Away(q, k)
  <2>1. i \in 1..k /\ \A j \in (i + 1)..k : q[j].op = "emit"
    BY DEF Block
  <2>2. \A j \in (i + 1)..k : q[j].op # "restore"
    BY <2>1
  <2> QED
    BY <2>1, <2>2 DEF Osc!Away, Block
<1>2. ASSUME NEW j \in 1..(i + n + 1), q[j].op = "redirect",
             \A l \in (j + 1)..(i + n + 1) : q[l].op # "restore"
      PROVE  FALSE
  <2>1. j # i + n + 1
    BY <1>2 DEF Block
  <2>2. i + n + 1 \in (j + 1)..(i + n + 1)
    BY <2>1
  <2> QED
    BY <1>2, <2>2 DEF Block
<1> QED
  BY <1>1, <1>2 DEF Osc!Away

\* What is put back stays so before the first step.
LEMMA NotAway ==
  ASSUME NEW q, NEW k \in Nat, k = 0 \/ q[k].op = "restore"
  PROVE  ~Osc!Away(q, k)
<1> SUFFICES ASSUME NEW i \in 1..k, q[i].op = "redirect",
                    \A j \in (i + 1)..k : q[j].op # "restore"
             PROVE  FALSE
  BY DEF Osc!Away
<1>1. i # k
  OBVIOUS
<1>2. k \in (i + 1)..k
  BY <1>1
<1> QED
  BY <1>2

\* A step that neither replaces nor puts back leaves the destination where it is.
LEMMA AwayStep ==
  ASSUME NEW q, NEW k \in Nat
  PROVE  /\ q[k + 1].op = "redirect" => Osc!Away(q, k + 1)
         /\ q[k + 1].op = "restore" => ~Osc!Away(q, k + 1)
         /\ q[k + 1].op \notin {"redirect", "restore"} =>
              (Osc!Away(q, k + 1) <=> Osc!Away(q, k))
<1>1. ASSUME q[k + 1].op = "redirect" PROVE Osc!Away(q, k + 1)
  <2>1. k + 1 \in 1..(k + 1) /\ \A j \in (k + 1 + 1)..(k + 1) : q[j].op # "restore"
    OBVIOUS
  <2> QED
    BY <1>1, <2>1 DEF Osc!Away
<1>2. q[k + 1].op = "restore" => ~Osc!Away(q, k + 1)
  BY NotAway
<1>3. ASSUME q[k + 1].op \notin {"redirect", "restore"}, Osc!Away(q, k)
      PROVE  Osc!Away(q, k + 1)
  <2>1. PICK i \in 1..k : q[i].op = "redirect" /\ \A j \in (i + 1)..k : q[j].op # "restore"
    BY <1>3 DEF Osc!Away
  <2>2. i \in 1..(k + 1) /\ \A j \in (i + 1)..(k + 1) : j = k + 1 \/ j \in (i + 1)..k
    OBVIOUS
  <2>3. \A j \in (i + 1)..(k + 1) : q[j].op # "restore"
    BY <1>3, <2>1, <2>2
  <2> QED
    BY <2>1, <2>2, <2>3 DEF Osc!Away
<1>4. ASSUME q[k + 1].op \notin {"redirect", "restore"}, Osc!Away(q, k + 1)
      PROVE  Osc!Away(q, k)
  <2>1. PICK i \in 1..(k + 1) : /\ q[i].op = "redirect"
                                /\ \A j \in (i + 1)..(k + 1) : q[j].op # "restore"
    BY <1>4 DEF Osc!Away
  <2>2. i # k + 1
    BY <1>4, <2>1
  <2>3. i \in 1..k /\ \A j \in (i + 1)..k : j \in (i + 1)..(k + 1)
    BY <2>2
  <2> QED
    BY <2>1, <2>3 DEF Osc!Away
<1> QED
  BY <1>1, <1>2, <1>3, <1>4

\* The steps of a request for the root: the attributes and the alias, then the nodes.
LEMMA RootSteps ==
  ASSUME Osc!OSCAssumption, NEW h \in Osc!Hosts
  PROVE  LET q == Osc!rootGet(h) IN
         /\ q \in Seq(Osc!Steps) /\ NParams \in Nat \ {0} /\ Len(q) = 7 + 3 * NParams
         /\ \A k \in 1..7 : q[k] = Osc!attributesGet(h)[k]
         /\ \A b \in 1..NParams, r \in 1..3 : q[3 * b + 4 + r] = Osc!nodeGet(b, h)[r]
         /\ \A k \in 1..Len(q) :
              k \in 1..7 \/ \E b \in 1..NParams, r \in 1..3 : k = 3 * b + 4 + r
<1> DEFINE A == Osc!attributesGet(h)
           N == Osc!subnodesGet(h)
           q == Osc!rootGet(h)
<1>1. [op |-> "redirect", host |-> h] \in Osc!Steps /\ [op |-> "restore"] \in Osc!Steps
  BY DEF Osc!Steps
<1>2. ASSUME NEW w \in Osc!Attributes \cup {"hello", "alias"}, NEW d \in {Osc!Root, Osc!Alias}
      PROVE  Osc!Emit(d, w) \in Osc!Steps
  <2>1. Osc!Emit(d, w) \in [op : {"emit"}, addr : {Osc!Root, Osc!Alias},
                            what : Osc!Attributes \cup {"hello", "alias"}]
    BY DEF Osc!Emit
  <2> QED
    BY <2>1 DEF Osc!Steps
<1>3. ASSUME NEW p \in Osc!Params PROVE Osc!Emit(p, "value") \in Osc!Steps
  <2>1. Osc!Emit(p, "value") \in [op : {"emit"}, addr : Osc!Params, what : {"value"}]
    BY DEF Osc!Emit
  <2> QED
    BY <2>1 DEF Osc!Steps
<1>4. A \in Seq(Osc!Steps)
  <2> DEFINE S == Osc!Steps
  <2>1. /\ Osc!Emit(Osc!Root, "xmit") \in S /\ Osc!Emit(Osc!Root, "desthost") \in S
        /\ Osc!Emit(Osc!Root, "outport") \in S /\ Osc!Emit(Osc!Root, "errport") \in S
        /\ Osc!Emit(Osc!Alias, "alias") \in S
    BY <1>2 DEF Osc!Attributes
  <2> HIDE DEF S
  <2>2. [op |-> "redirect", host |-> h] \in S /\ [op |-> "restore"] \in S
    BY <1>1 DEF S
  <2>3. A \in Seq(S)
    BY <2>1, <2>2, AnswerSteps DEF Osc!attributesGet
  <2> QED
    BY <2>3 DEF S
<1>5. Len(A) = 7
  BY AttributeSteps
<1>6. ASSUME NEW p \in Osc!Params
      PROVE  Osc!nodeGet(p, h) \in Seq(Osc!Steps) /\ Len(Osc!nodeGet(p, h)) = 3
  <2> DEFINE e == Osc!Emit(p, "value")
             S == Osc!Steps
  <2>1. e \in S
    BY <1>3
  <2>2. [op |-> "redirect", host |-> h] \in S /\ [op |-> "restore"] \in S
    BY <1>1
  <2>3. Osc!nodeGet(p, h) = Osc!To(h, <<e>>)
    BY DEF Osc!nodeGet
  <2> HIDE DEF e, S
  <2>4. Osc!To(h, <<e>>) \in Seq(S)
    BY <2>1, <2>2, ValueSteps
  <2>5. Len(Osc!To(h, <<e>>)) = 3
    BY ThreeSteps
  <2> QED
    BY <2>3, <2>4, <2>5 DEF S
<1>7. /\ NParams \in Nat \ {0} /\ Len(N) = 3 * NParams /\ DOMAIN N = 1..(3 * NParams)
      /\ \A k \in 1..(3 * NParams) : \E b \in 1..NParams, r \in 1..3 : k = 3 * (b - 1) + r
      /\ \A b \in 1..NParams, r \in 1..3 :
           /\ 3 * (b - 1) + r \in 1..(3 * NParams)
           /\ N[3 * (b - 1) + r] = Osc!nodeGet(b, h)[r]
  BY NodePlaces
<1>8. ASSUME NEW b \in 1..NParams, NEW r \in 1..3 PROVE Osc!nodeGet(b, h)[r] \in Osc!Steps
  <2>1. Osc!nodeGet(b, h) \in Seq(Osc!Steps) /\ r \in 1..Len(Osc!nodeGet(b, h))
    BY <1>6 DEF Osc!Params
  <2> QED
    BY <2>1, ElementOfSeq
<1>9. \A k \in 1..(3 * NParams) : N[k] \in Osc!Steps
  <2> TAKE k \in 1..(3 * NParams)
  <2>1. PICK b \in 1..NParams, r \in 1..3 : k = 3 * (b - 1) + r
    BY <1>7
  <2> QED
    BY <1>7, <1>8, <2>1
<1> DEFINE n == 3 * NParams
<1>10. n \in Nat
  BY <1>7
<1>11. N \in [1..n -> Osc!Steps]
  BY <1>9 DEF Osc!subnodesGet
<1> HIDE DEF N, A
<1>12. N \in Seq(Osc!Steps)
  BY <1>10, <1>11
<1>13. q = A \o N
  BY DEF Osc!rootGet, A, N
<1> HIDE DEF q
<1>14. /\ q \in Seq(Osc!Steps) /\ Len(q) = 7 + n
       /\ \A k \in 1..(7 + n) : q[k] = IF k <= 7 THEN A[k] ELSE N[k - 7]
  <2>1. Len(N) = n
    BY <1>7
  <2> HIDE DEF n
  <2> DEFINE S == Osc!Steps
  <2>2. A \in Seq(S) /\ N \in Seq(S)
    BY <1>4, <1>12
  <2> HIDE DEF S
  <2>3. /\ A \o N \in Seq(S) /\ Len(A \o N) = Len(A) + Len(N)
        /\ \A k \in 1..(Len(A) + Len(N)) :
             (A \o N)[k] = IF k <= Len(A) THEN A[k] ELSE N[k - Len(A)]
    BY <2>2, ConcatProperties
  <2> QED
    BY <1>5, <1>13, <2>1, <2>3 DEF S
<1>15. \A k \in 1..7 : q[k] = A[k]
  BY <1>10, <1>14
<1>16. ASSUME NEW b \in 1..NParams, NEW r \in 1..3
       PROVE  q[3 * b + 4 + r] = Osc!nodeGet(b, h)[r]
  <2>1. /\ 3 * b + 4 + r \in 1..(7 + n) /\ ~(3 * b + 4 + r <= 7)
        /\ (3 * b + 4 + r) - 7 = 3 * (b - 1) + r
    BY <1>7
  <2> QED
    BY <1>7, <1>14, <2>1
<1>17. ASSUME NEW k \in 1..Len(q), k \notin 1..7
       PROVE  \E b \in 1..NParams, r \in 1..3 : k = 3 * b + 4 + r
  <2>1. k - 7 \in 1..(3 * NParams)
    BY <1>10, <1>14, <1>17
  <2>2. PICK b \in 1..NParams, r \in 1..3 : k - 7 = 3 * (b - 1) + r
    BY <1>7, <2>1
  <2>3. k = 3 * b + 4 + r
    BY <1>7, <2>2
  <2> QED
    BY <2>3
<1> QED
  BY <1>7, <1>14, <1>15, <1>16, <1>17 DEF q, n, A

\* A handler of one step that neither redirects nor sends is balanced.
LEMMA SetBalanced ==
  ASSUME NEW q, Len(q) = 1, q[1].op \notin {"redirect", "restore", "emit", "dead"}
  PROVE  Osc!Balanced(q)
<1>1. \A k \in 1..Len(q) : k = 1
  OBVIOUS
<1>2. ~Osc!Away(q, 1)
  <2>1. \A i \in 1..1 : i = 1
    OBVIOUS
  <2> QED
    BY <2>1 DEF Osc!Away
<1> QED
  BY <1>1, <1>2 DEF Osc!Balanced

\* A request for one value is one block.
LEMMA ValueBalanced ==
  ASSUME NEW h, NEW e, e.op = "emit"
  PROVE  Osc!Balanced(Osc!To(h, <<e>>))
<1> DEFINE q == Osc!To(h, <<e>>)
<1>1. Len(q) = 3 /\ q[1].op = "redirect" /\ q[2].op = "emit" /\ q[3].op = "restore"
  <2>1. /\ Len(q) = 3 /\ q[1] = [op |-> "redirect", host |-> h] /\ q[2] = e
        /\ q[3] = [op |-> "restore"]
    BY ThreeSteps
  <2> QED
    BY <2>1
<1> HIDE DEF q
<1>2. Block(q, 1, 1)
  BY <1>1 DEF Block
<1>3. (\A k \in 1..(1 + 1) : Osc!Away(q, k)) /\ ~Osc!Away(q, 1 + 1 + 1)
  BY <1>2, BlockAway
<1>4. Osc!Away(q, 1) /\ Osc!Away(q, 2) /\ ~Osc!Away(q, 3)
  BY <1>3
<1>5. ~Osc!Away(q, 0)
  BY NotAway
<1>6. ASSUME NEW k \in 1..Len(q)
      PROVE  /\ q[k].op = "redirect" => ~Osc!Away(q, k - 1) /\ q[k].host = q[1].host
             /\ q[k].op \in {"restore", "emit"} => Osc!Away(q, k - 1)
             /\ q[k].op \in {"redirect", "restore", "emit"}
  <2>1. CASE k = 1
    BY <1>1, <1>5, <2>1
  <2>2. CASE k = 2
    BY <1>1, <1>4, <2>2
  <2>3. CASE k = 3
    BY <1>1, <1>4, <2>3
  <2> QED
    BY <1>1, <2>1, <2>2, <2>3
<1> QED
  BY <1>1, <1>4, <1>6 DEF Osc!Balanced, q

\* A request for the root is a block for the attributes and one for each node.
LEMMA RootBalanced ==
  ASSUME Osc!OSCAssumption, NEW h \in Osc!Hosts
  PROVE  Osc!Balanced(Osc!rootGet(h))
<1> DEFINE q == Osc!rootGet(h)
           n == 7 + 3 * NParams
<1>1. /\ NParams \in Nat \ {0} /\ Len(q) = n
      /\ \A k \in 1..7 : q[k] = Osc!attributesGet(h)[k]
      /\ \A b \in 1..NParams, r \in 1..3 : q[3 * b + 4 + r] = Osc!nodeGet(b, h)[r]
      /\ \A k \in 1..Len(q) :
           k \in 1..7 \/ \E b \in 1..NParams, r \in 1..3 : k = 3 * b + 4 + r
  BY RootSteps
<1> HIDE DEF q
<1>2. /\ q[1] = [op |-> "redirect", host |-> h]
      /\ q[2].op = "emit" /\ q[3].op = "emit" /\ q[4].op = "emit" /\ q[5].op = "emit"
      /\ q[6].op = "emit" /\ q[7].op = "restore"
  BY <1>1, AttributeSteps DEF Osc!Emit
<1>3. ASSUME NEW b \in 1..NParams
      PROVE  /\ q[3 * b + 5] = [op |-> "redirect", host |-> h] /\ q[3 * b + 6].op = "emit"
             /\ q[3 * b + 7].op = "restore"
  <2>1. /\ Osc!nodeGet(b, h)[1] = [op |-> "redirect", host |-> h]
        /\ Osc!nodeGet(b, h)[2] = Osc!Emit(b, "value")
        /\ Osc!nodeGet(b, h)[3] = [op |-> "restore"]
    BY ThreeSteps DEF Osc!nodeGet
  <2>2. /\ q[3 * b + 4 + 1] = Osc!nodeGet(b, h)[1] /\ q[3 * b + 4 + 2] = Osc!nodeGet(b, h)[2]
        /\ q[3 * b + 4 + 3] = Osc!nodeGet(b, h)[3]
    <3>1. \A r \in 1..3 : q[3 * b + 4 + r] = Osc!nodeGet(b, h)[r]
      BY <1>1, <1>3, Zenon
    <3>2. 1 \in 1..3 /\ 2 \in 1..3 /\ 3 \in 1..3
      OBVIOUS
    <3> QED
      BY <3>1, <3>2, Zenon
  <2>3. 3 * b + 4 + 1 = 3 * b + 5 /\ 3 * b + 4 + 2 = 3 * b + 6 /\ 3 * b + 4 + 3 = 3 * b + 7
    BY <1>1
  <2> QED
    BY <2>1, <2>2, <2>3 DEF Osc!Emit
<1>4. (\A k \in 1..6 : Osc!Away(q, k)) /\ ~Osc!Away(q, 7)
  <2>1. \A j \in (1 + 1)..(1 + 5) : q[j].op = "emit"
    BY <1>2
  <2>2. Block(q, 1, 5)
    BY <1>2, <2>1 DEF Block
  <2>3. (\A k \in 1..(1 + 5) : Osc!Away(q, k)) /\ ~Osc!Away(q, 1 + 5 + 1)
    BY <2>2, BlockAway
  <2> QED
    BY <2>3
<1>5. ASSUME NEW b \in 1..NParams
      PROVE  /\ Osc!Away(q, 3 * b + 5) /\ Osc!Away(q, 3 * b + 6) /\ ~Osc!Away(q, 3 * b + 7)
             /\ ~Osc!Away(q, 3 * b + 4)
  <2> DEFINE i == 3 * b + 5
  <2>1. /\ i \in Nat \ {0} /\ i + 1 = 3 * b + 6 /\ i + 1 + 1 = 3 * b + 7 /\ i - 1 = 3 * b + 4
        /\ i - 1 \in Nat
    BY <1>1
  <2>2. q[i].op = "redirect" /\ q[i + 1].op = "emit" /\ q[i + 1 + 1].op = "restore"
    BY <1>3, <2>1
  <2>3. q[i - 1].op = "restore"
    <3>1. CASE b = 1
      BY <1>2, <2>1, <3>1
    <3>2. CASE b # 1
      <4>1. b - 1 \in 1..NParams /\ 3 * (b - 1) + 7 = 3 * b + 4
        BY <1>1, <3>2
      <4>2. q[3 * (b - 1) + 7].op = "restore"
        BY <1>3, <4>1
      <4> QED
        BY <2>1, <4>1, <4>2
    <3> QED
      BY <3>1, <3>2
  <2> HIDE DEF i
  <2>4. Block(q, i, 1)
    BY <2>1, <2>2 DEF Block
  <2>5. (\A k \in i..(i + 1) : Osc!Away(q, k)) /\ ~Osc!Away(q, i + 1 + 1)
    BY <2>1, <2>4, BlockAway
  <2>6. Osc!Away(q, i) /\ Osc!Away(q, i + 1)
    BY <2>1, <2>5
  <2>7. ~Osc!Away(q, i - 1)
    BY <2>1, <2>3, NotAway
  <2> QED
    BY <2>1, <2>5, <2>6, <2>7 DEF i
<1>6. ASSUME NEW k \in 1..Len(q)
      PROVE  /\ q[k].op = "redirect" => ~Osc!Away(q, k - 1) /\ q[k].host = q[1].host
             /\ q[k].op \in {"restore", "emit"} => Osc!Away(q, k - 1)
             /\ q[k].op \in {"redirect", "restore", "emit"}
  <2>1. CASE k = 1
    <3>1. ~Osc!Away(q, 0)
      BY NotAway
    <3> QED
      BY <1>2, <2>1, <3>1
  <2>2. CASE k \in 2..7
    <3>1. k - 1 \in 1..6 /\ q[k].op \in {"restore", "emit"}
      BY <1>2, <2>2
    <3> QED
      BY <1>4, <3>1
  <2>3. ASSUME NEW b \in 1..NParams, NEW r \in 1..3, k = 3 * b + 4 + r
        PROVE  /\ q[k].op = "redirect" => ~Osc!Away(q, k - 1) /\ q[k].host = q[1].host
               /\ q[k].op \in {"restore", "emit"} => Osc!Away(q, k - 1)
               /\ q[k].op \in {"redirect", "restore", "emit"}
    <3>1. CASE r = 1
      <4>1. k = 3 * b + 5 /\ k - 1 = 3 * b + 4
        BY <1>1, <2>3, <3>1
      <4> QED
        BY <1>2, <1>3, <1>5, <4>1
    <3>2. CASE r = 2
      <4>1. k = 3 * b + 6 /\ k - 1 = 3 * b + 5
        BY <1>1, <2>3, <3>2
      <4> QED
        BY <1>3, <1>5, <4>1
    <3>3. CASE r = 3
      <4>1. k = 3 * b + 7 /\ k - 1 = 3 * b + 6
        BY <1>1, <2>3, <3>3
      <4> QED
        BY <1>3, <1>5, <4>1
    <3> QED
      BY <3>1, <3>2, <3>3
  <2>4. k \in 1..7 => k = 1 \/ k \in 2..7
    OBVIOUS
  <2>5. k \in 1..7 \/ \E b \in 1..NParams, r \in 1..3 : k = 3 * b + 4 + r
    BY <1>1
  <2> QED
    BY <2>1, <2>2, <2>3, <2>4, <2>5
<1>7. ~Osc!Away(q, Len(q))
  <2>1. NParams \in 1..NParams /\ 3 * NParams + 7 = Len(q)
    BY <1>1
  <2> QED
    BY <1>5, <2>1
<1> QED
  BY <1>6, <1>7 DEF Osc!Balanced, q

\* What a message carries, by its kind.
LEMMA MessageFields ==
  ASSUME NEW m \in Osc!Messages
  PROVE  /\ m.src \in Osc!Hosts /\ m.kind \in Osc!AllKinds
         /\ m.kind = "get" => m.addr \in {Osc!Root} \cup Osc!Params
         /\ m.kind = "attr" => m.what \in Osc!Attributes
         /\ m.kind = "value" => m.addr \in Osc!Params /\ m.v \in {0, 1}
         /\ m.kind = "alias" => m.v \in {0, 1}
         /\ m.kind = "desthost" => m.host \in Osc!Hosts
         /\ m.kind \in {"outport", "errport"} => m.n \in Osc!Ports
         /\ m.kind = "setxmit" => m.n \in {0, 1}
  BY DEF Osc!Messages, Osc!AllKinds, Osc!Answered

\* A message that sets something has one step, and only a desthost message sets the
\* destination.
LEMMA SetHandler ==
  ASSUME Osc!OSCAssumption, NEW m \in Osc!Messages, m.kind \notin Osc!Answered
  PROVE  /\ Osc!Handler(m) \in Seq(Osc!Steps) /\ Len(Osc!Handler(m)) = 1
         /\ Osc!Handler(m)[1].op \in {"store", "dest", "port", "err", "xmit"}
         /\ Osc!Handler(m)[1].op = "dest" => m.kind = "desthost"
<1>1. 1 \in Osc!Params
  BY DEF Osc!OSCAssumption, Osc!Params
<1>2. \A x : <<x>>[1] = x /\ Len(<<x>>) = 1
  OBVIOUS
<1>3. \A x \in Osc!Steps : <<x>> \in Seq(Osc!Steps)
  OBVIOUS
<1>4. CASE m.kind = "value"
  <2>1. Osc!Handler(m) = <<[op |-> "store", param |-> m.addr, v |-> m.v]>>
    BY <1>4 DEF Osc!Handler
  <2>2. [op |-> "store", param |-> m.addr, v |-> m.v] \in Osc!Steps
    BY <1>4, MessageFields DEF Osc!Steps
  <2> QED
    BY <1>2, <1>3, <2>1, <2>2
<1>5. CASE m.kind = "alias"
  <2>1. Osc!Handler(m) = <<[op |-> "store", param |-> 1, v |-> Osc!scale(m.v)]>>
    BY <1>5 DEF Osc!Handler
  <2>2. Osc!scale(m.v) \in {0, 1}
    BY <1>5, MessageFields DEF Osc!scale
  <2>3. [op |-> "store", param |-> 1, v |-> Osc!scale(m.v)] \in Osc!Steps
    BY <1>1, <2>2 DEF Osc!Steps
  <2> QED
    BY <1>2, <1>3, <2>1, <2>3
<1>6. CASE m.kind = "desthost"
  <2>1. Osc!Handler(m) = <<[op |-> "dest", host |-> m.host]>>
    BY <1>6 DEF Osc!Handler
  <2>2. [op |-> "dest", host |-> m.host] \in Osc!Steps
    BY <1>6, MessageFields DEF Osc!Steps
  <2> QED
    BY <1>2, <1>3, <1>6, <2>1, <2>2
<1>7. CASE m.kind = "outport"
  <2>1. Osc!Handler(m) = <<[op |-> "port", n |-> m.n]>>
    BY <1>7 DEF Osc!Handler
  <2>2. [op |-> "port", n |-> m.n] \in Osc!Steps
    BY <1>7, MessageFields DEF Osc!Steps
  <2> QED
    BY <1>2, <1>3, <2>1, <2>2
<1>8. CASE m.kind = "errport"
  <2>1. Osc!Handler(m) = <<[op |-> "err", n |-> m.n]>>
    BY <1>8 DEF Osc!Handler
  <2>2. [op |-> "err", n |-> m.n] \in Osc!Steps
    BY <1>8, MessageFields DEF Osc!Steps
  <2> QED
    BY <1>2, <1>3, <2>1, <2>2
<1>9. CASE m.kind = "setxmit"
  <2>1. Osc!Handler(m) = <<[op |-> "xmit", n |-> m.n]>>
    BY <1>9 DEF Osc!Handler
  <2>2. [op |-> "xmit", n |-> m.n] \in Osc!Steps
    BY <1>9, MessageFields DEF Osc!Steps
  <2> QED
    BY <1>2, <1>3, <2>1, <2>2
<1> QED
  BY <1>4, <1>5, <1>6, <1>7, <1>8, <1>9, MessageFields DEF Osc!AllKinds, Osc!Answered

\* What a message asks for is sent in one block: the greeting, an attribute or the value
\* of a node.
Single(m) == CASE m.kind = "hello" -> Osc!Emit(Osc!Root, "hello")
               [] m.kind = "attr"  -> Osc!Emit(Osc!Root, m.what)
               [] m.kind = "get"   -> Osc!Emit(m.addr, "value")
ForRoot(m) == m.kind = "get" /\ m.addr = Osc!Root

\* The handler of a message that is answered: the answer of the root, or one block.
LEMMA AnswerHandler ==
  ASSUME NEW m \in Osc!Messages, m.kind \in Osc!Answered
  PROVE  IF ForRoot(m) THEN Osc!Handler(m) = Osc!rootGet(m.src)
         ELSE /\ Osc!Handler(m) = Osc!To(m.src, <<Single(m)>>)
              /\ Single(m) \in Osc!Steps /\ Single(m).op = "emit"
<1>1. CASE m.kind = "hello"
  <2>1. Osc!Handler(m) = Osc!To(m.src, <<Osc!Emit(Osc!Root, "hello")>>)
    BY <1>1 DEF Osc!Handler
  <2>2. Single(m) = Osc!Emit(Osc!Root, "hello") /\ ~ForRoot(m)
    BY <1>1 DEF Single, ForRoot
  <2> QED
    BY <2>1, <2>2 DEF Osc!Emit, Osc!Steps
<1>2. CASE m.kind = "attr"
  <2>1. Osc!Handler(m) = Osc!To(m.src, <<Osc!Emit(Osc!Root, m.what)>>)
    BY <1>2 DEF Osc!Handler
  <2>2. Single(m) = Osc!Emit(Osc!Root, m.what) /\ ~ForRoot(m)
    BY <1>2 DEF Single, ForRoot
  <2> QED
    BY <1>2, <2>1, <2>2, MessageFields DEF Osc!Emit, Osc!Steps
<1>3. CASE m.kind = "get" /\ m.addr # Osc!Root
  <2>1. Osc!Handler(m) = Osc!To(m.src, <<Osc!Emit(m.addr, "value")>>)
    BY <1>3 DEF Osc!Handler, Osc!nodeGet
  <2>2. Single(m) = Osc!Emit(m.addr, "value") /\ ~ForRoot(m)
    BY <1>3 DEF Single, ForRoot
  <2> QED
    BY <1>3, <2>1, <2>2, MessageFields DEF Osc!Emit, Osc!Steps
<1>4. CASE ForRoot(m)
  BY <1>4 DEF ForRoot, Osc!Handler
<1> QED
  BY <1>1, <1>2, <1>3, <1>4 DEF Osc!Answered, ForRoot

\* The handler of a message is a balanced list of steps; only messages that are answered
\* replace the destination or send, and only a desthost message sets the destination.
LEMMA HandlerBalanced ==
  ASSUME Osc!OSCAssumption, NEW m \in Osc!Messages
  PROVE  /\ Osc!Handler(m) \in Seq(Osc!Steps) /\ Len(Osc!Handler(m)) \in Nat \ {0}
         /\ Osc!Balanced(Osc!Handler(m))
         /\ \A k \in 1..Len(Osc!Handler(m)) :
              Osc!Handler(m)[k].op = "dest" => m.kind = "desthost"
<1> DEFINE q == Osc!Handler(m)
<1>1. CASE m.kind \notin Osc!Answered
  <2>1. /\ q \in Seq(Osc!Steps) /\ Len(q) = 1
        /\ q[1].op \in {"store", "dest", "port", "err", "xmit"}
        /\ q[1].op = "dest" => m.kind = "desthost"
    BY <1>1, SetHandler
  <2> HIDE DEF q
  <2>2. Osc!Balanced(q)
    BY <2>1, SetBalanced
  <2>3. \A k \in 1..Len(q) : k = 1
    BY <2>1
  <2> QED
    BY <2>1, <2>2, <2>3 DEF q
<1>2. CASE m.kind \in Osc!Answered
  <2>1. m.src \in Osc!Hosts
    BY MessageFields
  <2>2. CASE ForRoot(m)
    <3>1. q = Osc!rootGet(m.src)
      BY <1>2, <2>2, AnswerHandler
    <3>2. q \in Seq(Osc!Steps) /\ Len(q) \in Nat \ {0} /\ Len(q) # 1
      <4>1. /\ Osc!rootGet(m.src) \in Seq(Osc!Steps) /\ NParams \in Nat \ {0}
            /\ Len(Osc!rootGet(m.src)) = 7 + 3 * NParams
        BY <2>1, RootSteps
      <4> QED
        BY <3>1, <4>1
    <3>3. Osc!Balanced(q)
      BY <2>1, <3>1, RootBalanced
    <3> HIDE DEF q
    <3>4. \A k \in 1..Len(q) : q[k].op # "dest"
      BY <3>2, <3>3 DEF Osc!Balanced
    <3> QED
      BY <3>2, <3>3, <3>4 DEF q
  <2>3. CASE ~ForRoot(m)
    <3> DEFINE e == Single(m)
               S == Osc!Steps
    <3>1. q = Osc!To(m.src, <<e>>) /\ e \in S /\ e.op = "emit"
      BY <1>2, <2>3, AnswerHandler
    <3>2. [op |-> "redirect", host |-> m.src] \in S /\ [op |-> "restore"] \in S
      BY <2>1 DEF Osc!Steps
    <3> HIDE DEF e, S
    <3>3. Osc!To(m.src, <<e>>) \in Seq(S)
      BY <3>1, <3>2, ValueSteps
    <3>4. Len(Osc!To(m.src, <<e>>)) = 3
      BY ThreeSteps
    <3>5. Osc!Balanced(Osc!To(m.src, <<e>>))
      BY <3>1, ValueBalanced
    <3> QED
      BY <1>2, <3>1, <3>3, <3>4, <3>5 DEF S, Osc!Balanced
  <2> QED
    BY <2>2, <2>3
<1> QED
  BY <1>1, <1>2

\* The packet of a step that sends.
Sends(h, s, d) == Osc!Packet(h, s.addr, s.what, Osc!Value(s.addr, s.what, d))

\* The packets of an answer are typed, and each is whole.
LEMMA SentPackets ==
  ASSUME Osc!TypeOK, NEW h \in Osc!Hosts, NEW s \in Osc!Steps, s.op = "emit",
         NEW d \in Osc!Hosts
  PROVE  /\ Sends(h, s, d) \in Osc!Packets /\ Osc!Whole(Sends(h, s, d))
         /\ s.addr \in Osc!Addresses
         /\ s.what \in Osc!Attributes \cup {"hello", "alias", "value"}
         /\ Osc!Argument(s.addr, s.what) \in Nat
<1>1. \/ s.addr \in {Osc!Root, Osc!Alias} /\ s.what \in Osc!Attributes \cup {"hello", "alias"}
      \/ s.addr \in Osc!Params /\ s.what = "value"
  BY DEF Osc!Steps
<1>2. /\ savedip \in Osc!Hosts /\ fPort \in Osc!Ports /\ errPort \in Osc!Ports
      /\ gXmit \in {0, 1} /\ oscZone \in [Osc!Params -> {0, 1}]
  BY DEF Osc!TypeOK
<1>3. Osc!Argument(s.addr, s.what) \in Nat
  <2>1. Osc!Hosts \subseteq Nat /\ Osc!Ports \subseteq Nat
    BY DEF Osc!Hosts, Osc!Ports
  <2>2. CASE s.what = "value"
    <3>1. s.addr \in Osc!Params
      BY <1>1, <2>2 DEF Osc!Attributes
    <3> QED
      BY <1>2, <2>2, <3>1 DEF Osc!Argument
  <2>3. CASE s.what # "value"
    BY <1>1, <1>2, <2>1, <2>3 DEF Osc!Argument, Osc!Attributes
  <2> QED
    BY <2>2, <2>3
<1> DEFINE n == Osc!Value(s.addr, s.what, d)
           a == [addr |-> s.addr, what |-> s.what, n |-> n]
<1>4. n \in Nat
  BY <1>3 DEF Osc!Value, Osc!Hosts
<1> HIDE DEF n
<1>5. s.addr \in Osc!Addresses /\ s.what \in Osc!Attributes \cup {"hello", "alias", "value"}
  BY <1>1 DEF Osc!Addresses
<1>6. a \in Osc!Arguments /\ a.addr = s.addr
  BY <1>4, <1>5 DEF Osc!Arguments
<1> HIDE DEF a
<1>7. <<a>> \in Seq(Osc!Arguments) /\ Len(<<a>>) = 1 /\ <<a>>[1] = a
  BY <1>6
<1>8. Sends(h, s, d) = [to |-> h, addr |-> s.addr, args |-> <<a>>]
  BY DEF Sends, Osc!Packet, n, a
<1> QED
  BY <1>3, <1>5, <1>6, <1>7, <1>8 DEF Osc!Packets, Osc!Whole

\* SendsAnswer when the destination asked for is d.
Sent(q, e, d) ==
  /\ \A j \in 1..Len(e) :
       /\ Osc!Place(j) <= Len(q) /\ q[Osc!Place(j)].op = "emit"
       /\ e[j] = Sends(q[1].host, q[Osc!Place(j)], d)
  /\ \A k \in 1..Len(q) : q[k].op = "emit" => \E j \in 1..Len(e) : k = Osc!Place(j)

\* The attributes, the alias and the nodes: the answer to a request for the root.
LEMMA RootAnswer ==
  ASSUME Osc!OSCAssumption, Osc!TypeOK, NEW m \in Osc!Messages, NEW d \in Osc!Hosts,
         ForRoot(m)
  PROVE  LET q == Osc!rootGet(m.src)
             e == Osc!Answer(m, d)
         IN Sent(q, e, d) /\ e \in Seq(Osc!Packets)
<1> DEFINE h == m.src
           q == Osc!rootGet(h)
           e == Osc!Answer(m, d)
           s1 == Osc!Emit(Osc!Root, "xmit")
           s2 == Osc!Emit(Osc!Root, "desthost")
           s3 == Osc!Emit(Osc!Root, "outport")
           s4 == Osc!Emit(Osc!Root, "errport")
           s5 == Osc!Emit(Osc!Alias, "alias")
           P == Osc!Packets
           f1 == Sends(h, s1, d)
           f2 == Sends(h, s2, d)
           f3 == Sends(h, s3, d)
           f4 == Sends(h, s4, d)
           f5 == Sends(h, s5, d)
           F == [p \in Osc!Params |-> Sends(h, Osc!Emit(p, "value"), d)]
<1>1. e = <<f1, f2, f3, f4, f5>> \o F
  <2>1. e = <<Osc!Packet(h, Osc!Root, "xmit", Osc!Value(Osc!Root, "xmit", d)),
              Osc!Packet(h, Osc!Root, "desthost", Osc!Value(Osc!Root, "desthost", d)),
              Osc!Packet(h, Osc!Root, "outport", Osc!Value(Osc!Root, "outport", d)),
              Osc!Packet(h, Osc!Root, "errport", Osc!Value(Osc!Root, "errport", d)),
              Osc!Packet(h, Osc!Alias, "alias", Osc!Value(Osc!Alias, "alias", d))>>
            \o [p \in Osc!Params |-> Osc!Packet(h, p, "value", Osc!Value(p, "value", d))]
    BY DEF ForRoot, Osc!Answer
  <2> QED
    BY <2>1 DEF Sends, Osc!Emit
<1>2. h \in Osc!Hosts
  BY MessageFields
<1>3. /\ NParams \in Nat \ {0} /\ Len(q) = 7 + 3 * NParams
      /\ \A k \in 1..7 : q[k] = Osc!attributesGet(h)[k]
      /\ \A b \in 1..NParams, r \in 1..3 : q[3 * b + 4 + r] = Osc!nodeGet(b, h)[r]
      /\ \A k \in 1..Len(q) :
           k \in 1..7 \/ \E b \in 1..NParams, r \in 1..3 : k = 3 * b + 4 + r
  BY <1>2, RootSteps
<1>4. /\ q[1] = [op |-> "redirect", host |-> h] /\ q[2] = s1 /\ q[3] = s2 /\ q[4] = s3
      /\ q[5] = s4 /\ q[6] = s5 /\ q[7] = [op |-> "restore"]
  BY <1>3, AttributeSteps
<1>5. ASSUME NEW b \in 1..NParams
      PROVE  /\ q[3 * b + 5].op = "redirect" /\ q[3 * b + 6] = Osc!Emit(b, "value")
             /\ q[3 * b + 7].op = "restore"
  <2>1. /\ Osc!nodeGet(b, h)[1] = [op |-> "redirect", host |-> h]
        /\ Osc!nodeGet(b, h)[2] = Osc!Emit(b, "value")
        /\ Osc!nodeGet(b, h)[3] = [op |-> "restore"]
    BY ThreeSteps DEF Osc!nodeGet
  <2>2. /\ q[3 * b + 4 + 1] = Osc!nodeGet(b, h)[1] /\ q[3 * b + 4 + 2] = Osc!nodeGet(b, h)[2]
        /\ q[3 * b + 4 + 3] = Osc!nodeGet(b, h)[3]
    <3>1. 1 \in 1..3 /\ 2 \in 1..3 /\ 3 \in 1..3
      OBVIOUS
    <3> HIDE DEF q
    <3> QED
      BY <1>3, <3>1
  <2>3. 3 * b + 4 + 1 = 3 * b + 5 /\ 3 * b + 4 + 2 = 3 * b + 6 /\ 3 * b + 4 + 3 = 3 * b + 7
    BY <1>3
  <2> QED
    BY <2>1, <2>2, <2>3
<1>6. /\ s1 \in Osc!Steps /\ s2 \in Osc!Steps /\ s3 \in Osc!Steps /\ s4 \in Osc!Steps
      /\ s5 \in Osc!Steps
      /\ s1.op = "emit" /\ s2.op = "emit" /\ s3.op = "emit" /\ s4.op = "emit" /\ s5.op = "emit"
  <2> DEFINE E == [op : {"emit"}, addr : {Osc!Root, Osc!Alias},
                   what : Osc!Attributes \cup {"hello", "alias"}]
  <2>1. E \subseteq Osc!Steps
    BY DEF Osc!Steps
  <2>2. s1 \in E /\ s2 \in E /\ s3 \in E /\ s4 \in E /\ s5 \in E
    BY DEF Osc!Emit, Osc!Attributes
  <2>3. \A x \in E : x.op = "emit"
    OBVIOUS
  <2> HIDE DEF E, s1, s2, s3, s4, s5
  <2> QED
    BY <2>1, <2>2, <2>3
<1>7. ASSUME NEW p \in Osc!Params
      PROVE  Osc!Emit(p, "value") \in Osc!Steps /\ Osc!Emit(p, "value").op = "emit"
  <2>1. Osc!Emit(p, "value") \in [op : {"emit"}, addr : Osc!Params, what : {"value"}]
    BY DEF Osc!Emit
  <2> QED
    BY <2>1 DEF Osc!Steps
<1> HIDE DEF q, e, s1, s2, s3, s4, s5
<1>8. f1 \in P /\ f2 \in P /\ f3 \in P /\ f4 \in P /\ f5 \in P
  BY <1>2, <1>6, SentPackets
<1>9. F \in [1..NParams -> P]
  BY <1>2, <1>7, SentPackets DEF Osc!Params
<1>10. \A b \in 1..NParams : F[b] = Sends(h, Osc!Emit(b, "value"), d)
  BY DEF Osc!Params
<1> HIDE DEF P, F, f1, f2, f3, f4, f5
<1>11. F \in Seq(P) /\ Len(F) = NParams
  BY <1>3, <1>9
<1> DEFINE G == <<f1, f2, f3, f4, f5>>
<1>12. /\ G \in Seq(P) /\ Len(G) = 5 /\ G[1] = f1 /\ G[2] = f2 /\ G[3] = f3 /\ G[4] = f4
       /\ G[5] = f5
  BY <1>8
<1>13. e = G \o F
  BY <1>1
<1> HIDE DEF G
<1>14. /\ e \in Seq(P) /\ Len(e) = 5 + NParams
       /\ \A i \in 1..(5 + NParams) : e[i] = IF i <= 5 THEN G[i] ELSE F[i - 5]
  <2>1. /\ G \o F \in Seq(P) /\ Len(G \o F) = Len(G) + Len(F)
        /\ \A i \in 1..(Len(G) + Len(F)) :
             (G \o F)[i] = IF i <= Len(G) THEN G[i] ELSE F[i - Len(G)]
    BY <1>11, <1>12, ConcatProperties
  <2> QED
    BY <1>11, <1>12, <1>13, <2>1
<1>15. q[1].host = h
  BY <1>4
<1>16. ASSUME NEW j \in 1..Len(e)
       PROVE  /\ Osc!Place(j) <= Len(q) /\ q[Osc!Place(j)].op = "emit"
              /\ e[j] = Sends(q[1].host, q[Osc!Place(j)], d)
  <2>1. CASE j <= 5
    <3>1. j \in 1..5 /\ Osc!Place(j) = j + 1 /\ e[j] = G[j]
      BY <1>3, <1>14, <2>1 DEF Osc!Place
    <3>2. Osc!Place(j) <= Len(q)
      BY <1>3, <3>1
    <3>3. q[j + 1].op = "emit" /\ G[j] = Sends(h, q[j + 1], d)
      <4>1. CASE j = 1
        BY <1>4, <1>6, <1>12, <4>1 DEF f1
      <4>2. CASE j = 2
        BY <1>4, <1>6, <1>12, <4>2 DEF f2
      <4>3. CASE j = 3
        BY <1>4, <1>6, <1>12, <4>3 DEF f3
      <4>4. CASE j = 4
        BY <1>4, <1>6, <1>12, <4>4 DEF f4
      <4>5. CASE j = 5
        BY <1>4, <1>6, <1>12, <4>5 DEF f5
      <4> QED
        BY <3>1, <4>1, <4>2, <4>3, <4>4, <4>5
    <3> QED
      BY <1>15, <3>1, <3>2, <3>3
  <2>2. CASE j > 5
    <3> DEFINE b == j - 5
    <3>0. Len(e) = 5 + NParams /\ NParams \in Nat /\ j \in Nat
      BY <1>3, <1>14
    <3>1. b \in 1..NParams /\ 3 * j - 9 = 3 * b + 6 /\ 3 * b + 6 <= Len(q) /\ ~(j <= 5)
      BY <1>3, <2>2, <3>0
    <3>4. e[j] = F[b]
      BY <1>14, <3>0, <3>1
    <3>5. Osc!Place(j) = 3 * b + 6
      BY <3>1 DEF Osc!Place
    <3> HIDE DEF b
    <3>2. q[3 * b + 6] = Osc!Emit(b, "value") /\ Osc!Emit(b, "value").op = "emit"
      BY <1>5, <1>7, <3>1 DEF Osc!Params
    <3>3. e[j] = Sends(h, Osc!Emit(b, "value"), d)
      BY <1>10, <3>1, <3>4
    <3> QED
      BY <1>15, <3>1, <3>2, <3>3, <3>5
  <2> QED
    BY <1>3, <1>14, <2>1, <2>2
<1>17. ASSUME NEW k \in 1..Len(q), q[k].op = "emit"
       PROVE  \E j \in 1..Len(e) : k = Osc!Place(j)
  <2>1. CASE k \in 1..7
    <3>1. k # 1 /\ k # 7
      BY <1>4, <1>17
    <3>2. k - 1 \in 1..5 /\ k - 1 \in 1..Len(e)
      BY <1>3, <1>14, <2>1, <3>1
    <3>3. Osc!Place(k - 1) = k
      BY <3>2 DEF Osc!Place
    <3> QED
      BY <3>2, <3>3
  <2>2. ASSUME NEW b \in 1..NParams, NEW r \in 1..3, k = 3 * b + 4 + r
        PROVE  \E j \in 1..Len(e) : k = Osc!Place(j)
    <3>1. CASE r = 1
      <4>1. k = 3 * b + 5
        BY <1>3, <2>2, <3>1
      <4> QED
        BY <1>5, <1>17, <4>1
    <3>2. CASE r = 3
      <4>1. k = 3 * b + 7
        BY <1>3, <2>2, <3>2
      <4> QED
        BY <1>5, <1>17, <4>1
    <3>3. CASE r = 2
      <4>1. 5 + b \in 1..Len(e) /\ ~(5 + b <= 5) /\ 3 * (5 + b) - 9 = k
        BY <1>3, <1>14, <2>2, <3>3
      <4>2. Osc!Place(5 + b) = k
        BY <4>1 DEF Osc!Place
      <4> QED
        BY <4>1, <4>2
    <3> QED
      BY <3>1, <3>2, <3>3
  <2> QED
    BY <1>3, <2>1, <2>2
<1> QED
  BY <1>14, <1>16, <1>17 DEF Sent, P, q, e

\* The steps of every handler that send are those that send its answer.
LEMMA AnswerSent ==
  ASSUME Osc!OSCAssumption, Osc!TypeOK, NEW m \in Osc!Messages, NEW d \in Osc!Hosts
  PROVE  Sent(Osc!Handler(m), Osc!Answer(m, d), d) /\ Osc!Answer(m, d) \in Seq(Osc!Packets)
<1> DEFINE q == Osc!Handler(m)
           e == Osc!Answer(m, d)
<1>1. CASE m.kind \notin Osc!Answered
  <2>1. e = <<>>
    BY <1>1 DEF Osc!Answer, Osc!Answered
  <2>2. Len(q) = 1 /\ q[1].op # "emit"
    BY <1>1, SetHandler
  <2> HIDE DEF q, e
  <2>3. \A k \in 1..Len(q) : k = 1
    BY <2>2
  <2>4. Len(e) = 0 /\ e \in Seq(Osc!Packets)
    BY <2>1
  <2> QED
    BY <2>2, <2>3, <2>4 DEF Sent, q, e
<1>2. CASE m.kind \in Osc!Answered /\ ForRoot(m)
  BY <1>2, AnswerHandler, RootAnswer
<1>3. CASE m.kind \in Osc!Answered /\ ~ForRoot(m)
  <2> DEFINE s == Single(m)
             h == m.src
             f == Sends(h, s, d)
  <2>1. q = Osc!To(h, <<s>>) /\ s \in Osc!Steps /\ s.op = "emit"
    BY <1>3, AnswerHandler
  <2>2. h \in Osc!Hosts
    BY MessageFields
  <2>3. e = <<f>>
    <3>1. CASE m.kind = "hello"
      BY <3>1 DEF Osc!Answer, Single, Sends, Osc!Emit
    <3>2. CASE m.kind = "attr"
      BY <3>2 DEF Osc!Answer, Single, Sends, Osc!Emit
    <3>3. CASE m.kind = "get"
      BY <1>3, <3>3 DEF Osc!Answer, Single, Sends, Osc!Emit, ForRoot
    <3> QED
      BY <1>3, <3>1, <3>2, <3>3 DEF Osc!Answered
  <2> HIDE DEF q, e, s, h
  <2>4. f \in Osc!Packets
    BY <2>1, <2>2, SentPackets
  <2> HIDE DEF f
  <2>5. e \in Seq(Osc!Packets) /\ Len(e) = 1 /\ e[1] = f
    BY <2>3, <2>4
  <2>6. /\ Len(q) = 3 /\ q[1] = [op |-> "redirect", host |-> h] /\ q[2] = s
        /\ q[3] = [op |-> "restore"]
    BY <2>1, ThreeSteps
  <2>7. q[1].op = "redirect" /\ q[1].host = h /\ q[3].op = "restore"
    BY <2>6
  <2>8. Osc!Place(1) = 2
    BY DEF Osc!Place
  <2>9. ASSUME NEW j \in 1..Len(e)
        PROVE  /\ Osc!Place(j) <= Len(q) /\ q[Osc!Place(j)].op = "emit"
               /\ e[j] = Sends(q[1].host, q[Osc!Place(j)], d)
    <3>1. j = 1
      BY <2>5
    <3> QED
      BY <2>1, <2>5, <2>6, <2>7, <2>8, <3>1 DEF f
  <2>10. ASSUME NEW k \in 1..Len(q), q[k].op = "emit"
         PROVE  \E j \in 1..Len(e) : k = Osc!Place(j)
    <3>1. k = 2 /\ 1 \in 1..Len(e)
      BY <2>5, <2>6, <2>7, <2>10
    <3> QED
      BY <2>8, <3>1
  <2> QED
    BY <2>5, <2>9, <2>10 DEF Sent, q, e
<1> QED
  BY <1>1, <1>2, <1>3

Listening == todo["listener"]
Phases == {"start", "args", "end", "send", "idle"}

\* The threads and their steps, whatever the stream is used for.
Controlled == /\ todo \in [Osc!Threads -> Seq(Osc!Steps)] /\ done \in [Osc!Threads -> Nat]
              /\ phase \in [Osc!Threads -> Phases]

\* What a thread does when a step of it is done, and when it goes on to a phase.
LEMMA DoneFacts ==
  ASSUME Controlled, NEW t \in Osc!Threads, Osc!Done(t)
  PROVE  /\ todo' \in [Osc!Threads -> Seq(Osc!Steps)] /\ done' \in [Osc!Threads -> Nat]
         /\ phase' \in [Osc!Threads -> Phases] /\ phase'[t] = "start"
         /\ \A o \in Osc!Threads \ {t} :
              todo'[o] = todo[o] /\ done'[o] = done[o] /\ phase'[o] = phase[o]
         /\ IF done[t] + 1 < Len(todo[t])
            THEN todo'[t] = todo[t] /\ done'[t] = done[t] + 1
            ELSE /\ todo'[t] = <<>> /\ done'[t] = 0
                 /\ done[t] < Len(todo[t]) => Len(todo[t]) = done[t] + 1
<1>1. /\ todo \in [Osc!Threads -> Seq(Osc!Steps)] /\ done \in [Osc!Threads -> Nat]
      /\ phase \in [Osc!Threads -> Phases]
  BY DEF Controlled
<1>2. done[t] \in Nat /\ Len(todo[t]) \in Nat /\ <<>> \in Seq(Osc!Steps)
  BY <1>1
<1>3. phase' = [phase EXCEPT ![t] = "start"]
  BY DEF Osc!Done
<1>4. phase' \in [Osc!Threads -> Phases] /\ phase'[t] = "start"
      /\ \A o \in Osc!Threads \ {t} : phase'[o] = phase[o]
  BY <1>1, <1>3 DEF Phases
<1>5. CASE done[t] + 1 < Len(todo[t])
  <2>1. done' = [done EXCEPT ![t] = done[t] + 1] /\ todo' = todo
    BY <1>5 DEF Osc!Done
  <2> QED
    BY <1>1, <1>2, <1>4, <1>5, <2>1
<1>6. CASE ~(done[t] + 1 < Len(todo[t]))
  <2>1. done' = [done EXCEPT ![t] = 0] /\ todo' = [todo EXCEPT ![t] = <<>>]
    BY <1>6 DEF Osc!Done
  <2>2. done[t] < Len(todo[t]) => Len(todo[t]) = done[t] + 1
    BY <1>2, <1>6
  <2> QED
    BY <1>1, <1>2, <1>4, <1>6, <2>1, <2>2
<1> QED
  BY <1>5, <1>6

\* A thread goes on to a phase of its step.
LEMMA PhaseFacts ==
  ASSUME Controlled, NEW t \in Osc!Threads, NEW ph \in Phases, Osc!Phase(t, ph)
  PROVE  /\ todo' = todo /\ done' = done
         /\ phase' \in [Osc!Threads -> Phases] /\ phase'[t] = ph
         /\ \A o \in Osc!Threads \ {t} : phase'[o] = phase[o]
<1>1. phase \in [Osc!Threads -> Phases]
  BY DEF Controlled
<1> QED
  BY <1>1 DEF Osc!Phase

\* The types of the state type the steps.
LEMMA Controls == Osc!TypeOK => Controlled
  BY DEF Osc!TypeOK, Controlled, Phases

\* No steps at all are balanced.
LEMMA EmptyBalanced == Osc!Balanced(<<>>) /\ ~Osc!Away(<<>>, 0)
<1>1. ~Osc!Away(<<>>, 0)
  BY NotAway
<1>2. Len(<<>>) = 0 /\ \A k \in 1..0 : FALSE
  OBVIOUS
<1> QED
  BY <1>1, <1>2 DEF Osc!Balanced

\* The next step of a listener that is not idle.
LEMMA ListenerNow ==
  ASSUME Controlled, Osc!DestInv, ~Osc!Idle("listener")
  PROVE  LET q == Listening
             p == done["listener"]
         IN /\ q \in Seq(Osc!Steps) /\ p \in Nat /\ Len(q) \in Nat /\ q # <<>>
            /\ p < Len(q) /\ p + 1 \in 1..Len(q)
            /\ Osc!Now("listener") = q[p + 1] /\ Osc!Now("listener") \in Osc!Steps
<1> DEFINE q == Listening
           p == done["listener"]
<1>1. q \in Seq(Osc!Steps) /\ p \in Nat /\ Len(q) \in Nat
  BY DEF Controlled, Osc!Threads, Listening
<1>2. q # <<>> /\ p < Len(q)
  BY DEF Osc!DestInv, Osc!Idle, Listening
<1>3. p + 1 \in 1..Len(q)
  BY <1>1, <1>2
<1>4. q[p + 1] \in Osc!Steps
  BY <1>1, <1>3, ElementOfSeq
<1> QED
  BY <1>1, <1>2, <1>3, <1>4 DEF Osc!Now, Listening

\* A step of the listener that leaves the destination in use what it is.
LEMMA DestDone ==
  ASSUME Controlled, Osc!DestInv, ~Osc!Idle("listener"), Osc!Done("listener"),
         UNCHANGED <<dest, replaced>>,
         IF Osc!Away(Listening, done["listener"] + 1)
         THEN fAddress' = Listening[1].host /\ savedip' = Osc!InUse
         ELSE fAddress' = Osc!InUse
  PROVE  Osc!DestInv' /\ Osc!InUse' = Osc!InUse
<1> DEFINE q == Listening
           p == done["listener"]
<1>1. q \in Seq(Osc!Steps) /\ p \in Nat /\ Len(q) \in Nat /\ p < Len(q)
  BY ListenerNow
<1>2. IF p + 1 < Len(q) THEN todo'["listener"] = q /\ done'["listener"] = p + 1
      ELSE todo'["listener"] = <<>> /\ done'["listener"] = 0 /\ Len(q) = p + 1
  BY <1>1, DoneFacts DEF Osc!Threads, Listening
<1>3. Osc!Balanced(q) /\ (~replaced => Osc!InUse = dest)
  BY DEF Osc!DestInv, Listening
<1>4. CASE p + 1 < Len(q)
  <2>1. todo'["listener"] = q /\ done'["listener"] = p + 1
    BY <1>2, <1>4
  <2>2. Osc!InUse' = Osc!InUse
    BY <2>1 DEF Osc!InUse
  <2>3. Osc!Away(q, p + 1) => fAddress' = q[1].host
    OBVIOUS
  <2> QED
    BY <1>1, <1>3, <1>4, <2>1, <2>2, <2>3 DEF Osc!DestInv
<1>5. CASE ~(p + 1 < Len(q))
  <2>1. todo'["listener"] = <<>> /\ done'["listener"] = 0 /\ Len(q) = p + 1
    BY <1>2, <1>5
  <2>2. fAddress' = Osc!InUse
    BY <1>3, <2>1 DEF Osc!Balanced
  <2>3. Osc!InUse' = Osc!InUse
    BY <2>1, <2>2, EmptyBalanced DEF Osc!InUse
  <2>4. Len(<<>>) = 0
    OBVIOUS
  <2> QED
    BY <1>3, <2>1, <2>3, <2>4, EmptyBalanced DEF Osc!DestInv
<1> QED
  BY <1>4, <1>5

\* The stream is redirected: the destination in use is the one saved.
LEMMA DestRedirected ==
  ASSUME Controlled, Osc!DestInv, Osc!redirect
  PROVE  Osc!DestInv' /\ Osc!InUse' = Osc!InUse
<1> DEFINE q == Listening
           p == done["listener"]
<1>1. /\ ~Osc!Idle("listener") /\ Osc!Now("listener").op = "redirect" /\ Osc!Done("listener")
      /\ savedip' = fAddress /\ fAddress' = Osc!Now("listener").host
      /\ UNCHANGED <<dest, replaced>>
  BY DEF Osc!redirect, Osc!Step, Osc!state
<1>2. p \in Nat /\ p + 1 \in 1..Len(q) /\ Osc!Now("listener") = q[p + 1] /\ p + 1 - 1 = p
  BY <1>1, ListenerNow
<1>3. ~Osc!Away(q, p) /\ q[p + 1].host = q[1].host
  BY <1>1, <1>2 DEF Osc!DestInv, Osc!Balanced, Listening
<1>4. Osc!Away(q, p + 1)
  BY <1>1, <1>2, AwayStep
<1>5. Osc!InUse = fAddress
  BY <1>3 DEF Osc!InUse, Listening
<1> QED
  BY <1>1, <1>2, <1>3, <1>4, <1>5, DestDone

\* The destination that was saved is put back.
LEMMA DestRestored ==
  ASSUME Controlled, Osc!DestInv, Osc!restore
  PROVE  Osc!DestInv' /\ Osc!InUse' = Osc!InUse
<1> DEFINE q == Listening
           p == done["listener"]
<1>1. /\ ~Osc!Idle("listener") /\ Osc!Now("listener").op = "restore" /\ Osc!Done("listener")
      /\ fAddress' = savedip /\ UNCHANGED <<dest, replaced>>
  BY DEF Osc!restore, Osc!Step, Osc!state
<1>2. p \in Nat /\ p + 1 \in 1..Len(q) /\ Osc!Now("listener") = q[p + 1] /\ p + 1 - 1 = p
  BY <1>1, ListenerNow
<1>3. Osc!Away(q, p)
  BY <1>1, <1>2 DEF Osc!DestInv, Osc!Balanced, Listening
<1>4. ~Osc!Away(q, p + 1)
  BY <1>1, <1>2, AwayStep
<1>5. Osc!InUse = savedip
  BY <1>3 DEF Osc!InUse, Listening
<1> QED
  BY <1>1, <1>4, <1>5, DestDone

\* A message has been sent, or has been given up.
LEMMA DestEmitted ==
  ASSUME Controlled, Osc!DestInv, ~Osc!Idle("listener"), Osc!Now("listener").op = "emit",
         Osc!Done("listener"), UNCHANGED <<fAddress, savedip, dest, replaced>>
  PROVE  Osc!DestInv' /\ Osc!InUse' = Osc!InUse
<1> DEFINE q == Listening
           p == done["listener"]
<1>1. p \in Nat /\ Osc!Now("listener") = q[p + 1]
  BY ListenerNow
<1>2. Osc!Away(q, p + 1) <=> Osc!Away(q, p)
  BY <1>1, AwayStep
<1>3. Osc!Away(q, p) => fAddress = q[1].host
  BY DEF Osc!DestInv, Listening
<1>4. Osc!InUse = (IF Osc!Away(q, p) THEN savedip ELSE fAddress)
  BY DEF Osc!InUse, Listening
<1> QED
  BY <1>2, <1>3, <1>4, DestDone

\* A step that leaves the listener and the destination alone.
LEMMA DestQuiet ==
  ASSUME Osc!DestInv, Listening' = Listening, done'["listener"] = done["listener"],
         UNCHANGED <<fAddress, savedip, dest, replaced>>
  PROVE  Osc!DestInv' /\ Osc!InUse' = Osc!InUse
<1>1. Osc!InUse' = Osc!InUse
  BY DEF Osc!InUse, Listening
<1> QED
  BY <1>1 DEF Osc!DestInv, Listening

\* What sets something is alone: it may set the destination.
LEMMA DestSet ==
  ASSUME Controlled, Osc!DestInv, Osc!setAttribute
  PROVE  /\ Osc!DestInv' /\ Len(Listening) = 1 /\ done["listener"] = 0
         /\ todo'["listener"] = <<>> /\ done'["listener"] = 0
<1> DEFINE q == Listening
           p == done["listener"]
           s == Osc!Now("listener")
<1>1. /\ ~Osc!Idle("listener") /\ s.op \in {"dest", "port", "err", "xmit", "store"}
      /\ Osc!Done("listener")
      /\ fAddress' = (IF s.op = "dest" THEN s.host ELSE fAddress)
      /\ dest' = (IF s.op = "dest" THEN s.host ELSE dest)
      /\ replaced' = (s.op # "dest" /\ replaced)
  BY DEF Osc!setAttribute
<1>2. /\ p \in Nat /\ Len(q) \in Nat /\ p < Len(q) /\ p + 1 \in 1..Len(q) /\ s = q[p + 1]
  BY <1>1, ListenerNow
<1>3. Osc!Balanced(q) /\ (~replaced => Osc!InUse = dest)
  BY DEF Osc!DestInv, Listening
<1> HIDE DEF s
<1>4. Len(q) = 1 /\ p = 0
  BY <1>1, <1>2, <1>3 DEF Osc!Balanced
<1>5. todo'["listener"] = <<>> /\ done'["listener"] = 0
  <2> DEFINE t == "listener"
  <2>1. t \in Osc!Threads /\ ~(done[t] + 1 < Len(todo[t]))
    BY <1>4 DEF Osc!Threads, Listening
  <2>2. todo'[t] = <<>> /\ done'[t] = 0
    BY <1>1, <2>1, DoneFacts
  <2> QED
    BY <2>2
<1>6. Osc!InUse = fAddress
  <2>1. ~Osc!Away(q, 0)
    BY NotAway
  <2> QED
    BY <1>4, <2>1 DEF Osc!InUse, Listening
<1>7. ~replaced' => fAddress' = dest'
  BY <1>1, <1>3, <1>6
<1>8. Osc!InUse' = fAddress'
  BY <1>5, EmptyBalanced DEF Osc!InUse
<1>9. Len(<<>>) = 0
  OBVIOUS
<1>10. Osc!DestInv'
  BY <1>5, <1>7, <1>8, <1>9, EmptyBalanced DEF Osc!DestInv
<1> QED
  BY <1>4, <1>5, <1>10

\* A message arrives: the first remote host becomes the destination when none was asked
\* for, and is said to replace it otherwise.
LEMMA DestReceived ==
  ASSUME Osc!OSCAssumption, Controlled, Osc!DestInv, NEW m \in Osc!Messages,
         Osc!ProcessMessage(m)
  PROVE  /\ Osc!DestInv' /\ Osc!InUse' = fAddress'
         /\ todo["listener"] = <<>> /\ done["listener"] = 0 /\ Osc!InUse = fAddress
         /\ todo' \in [Osc!Threads -> Seq(Osc!Steps)] /\ todo'["listener"] = Osc!Handler(m)
         /\ todo'["ui"] = todo["ui"] /\ done' = done /\ phase' = phase
<1>1. /\ Osc!Idle("listener")
      /\ IF Osc!FirstRemote(m) THEN fAddress' = m.src /\ fSetDest' = FALSE
         ELSE UNCHANGED <<fAddress, fSetDest>>
      /\ dest' = (IF fSetDest /\ m.src # Osc!Localhost /\ dest = Osc!Localhost THEN m.src
                  ELSE dest)
      /\ replaced' = (replaced \/ /\ fSetDest /\ m.src # Osc!Localhost
                                  /\ dest \notin {Osc!Localhost, m.src})
      /\ todo' = [todo EXCEPT !["listener"] = Osc!Handler(m)]
      /\ done' = done /\ phase' = phase
  BY DEF Osc!ProcessMessage
<1>2. /\ Osc!Handler(m) \in Seq(Osc!Steps) /\ Len(Osc!Handler(m)) \in Nat \ {0}
      /\ Osc!Balanced(Osc!Handler(m))
  BY HandlerBalanced
<1>3. /\ todo' \in [Osc!Threads -> Seq(Osc!Steps)] /\ todo'["listener"] = Osc!Handler(m)
      /\ todo'["ui"] = todo["ui"]
  BY <1>1, <1>2 DEF Controlled, Osc!Threads
<1>4. todo["listener"] = <<>> /\ done["listener"] = 0
  <2>1. todo["listener"] = <<>> /\ Len(<<>>) = 0 /\ done["listener"] \in Nat
    BY <1>1 DEF Osc!Idle, Controlled, Osc!Threads
  <2> QED
    BY <2>1 DEF Osc!DestInv
<1>5. Osc!InUse = fAddress /\ (~replaced => fAddress = dest)
  BY <1>4, EmptyBalanced DEF Osc!DestInv, Osc!InUse
<1>6. ~Osc!Away(Osc!Handler(m), 0)
  BY NotAway
<1>7. Osc!InUse' = fAddress'
  BY <1>1, <1>3, <1>4, <1>6 DEF Osc!InUse
<1>8. ~replaced' => fAddress' = dest'
  BY <1>1, <1>5 DEF Osc!FirstRemote
<1>9. Osc!Handler(m) # <<>>
  BY <1>2
<1>10. Osc!DestInv'
  BY <1>1, <1>2, <1>3, <1>4, <1>6, <1>7, <1>8, <1>9 DEF Osc!DestInv
<1> QED
  BY <1>1, <1>3, <1>4, <1>5, <1>7, <1>10

\* The next step of a thread that is not idle.
LEMMA NowFacts ==
  ASSUME Osc!TypeOK, NEW t \in Osc!Threads, ~Osc!Idle(t), Osc!ListenerInv, Osc!UiInv
  PROVE  /\ todo[t] \in Seq(Osc!Steps) /\ done[t] \in Nat /\ Len(todo[t]) \in Nat
         /\ done[t] < Len(todo[t]) /\ done[t] + 1 \in 1..Len(todo[t])
         /\ Osc!Now(t) = todo[t][done[t] + 1] /\ Osc!Now(t) \in Osc!Steps
<1>1. todo[t] \in Seq(Osc!Steps) /\ done[t] \in Nat
  BY DEF Osc!TypeOK
<1>2. Len(todo[t]) \in Nat
  BY <1>1
<1>3. done[t] < Len(todo[t])
  <2>1. CASE t = "listener"
    BY <2>1 DEF Osc!ListenerInv, Osc!DestInv, Osc!Idle
  <2>2. CASE t = "ui"
    BY <2>2 DEF Osc!UiInv, Osc!Idle
  <2> QED
    BY <2>1, <2>2 DEF Osc!Threads
<1>4. done[t] + 1 \in 1..Len(todo[t])
  BY <1>1, <1>2, <1>3
<1>5. todo[t][done[t] + 1] \in Osc!Steps
  BY <1>1, <1>4, ElementOfSeq
<1> QED
  BY <1>1, <1>2, <1>3, <1>4, <1>5 DEF Osc!Now

\* The answer stays what it is while the attributes, the values and the destination in use
\* do.
LEMMA AnswerKept ==
  ASSUME UNCHANGED <<oscZone, gXmit, fPort, errPort, expected>>, Osc!InUse' = Osc!InUse,
         Listening' = Listening, Listening \in Seq(Osc!Steps),
         Osc!SendsAnswer(Listening, expected)
  PROVE  Osc!SendsAnswer(Listening, expected)'
<1>1. Len(Listening) \in Nat
  OBVIOUS
<1>2. ASSUME NEW j \in 1..Len(expected)
      PROVE  LET s == Listening[Osc!Place(j)] IN
             /\ Osc!Place(j) <= Len(Listening) /\ s.op = "emit"
             /\ s \in Osc!Steps
             /\ expected[j] = Osc!Packet(Listening[1].host, s.addr, s.what,
                                         Osc!Value(s.addr, s.what, Osc!InUse))
  <2>1. /\ Osc!Place(j) <= Len(Listening) /\ Listening[Osc!Place(j)].op = "emit"
        /\ LET s == Listening[Osc!Place(j)] IN
           expected[j] = Osc!Packet(Listening[1].host, s.addr, s.what,
                                    Osc!Value(s.addr, s.what, Osc!InUse))
    BY DEF Osc!SendsAnswer
  <2>2. Osc!Place(j) \in Nat \ {0}
    BY DEF Osc!Place
  <2>3. Listening[Osc!Place(j)] \in Osc!Steps
    <3> DEFINE k == Osc!Place(j)
               q == Listening
    <3>1. k \in 1..Len(q)
      BY <1>1, <2>1, <2>2
    <3> HIDE DEF k, q
    <3>2. q[k] \in Osc!Steps
      BY <3>1, ElementOfSeq DEF q
    <3> QED
      BY <3>2 DEF k, q
  <2> QED
    BY <2>1, <2>3
<1>3. ASSUME NEW s \in Osc!Steps, s.op = "emit"
      PROVE  Osc!Value(s.addr, s.what, Osc!InUse)' = Osc!Value(s.addr, s.what, Osc!InUse)
  BY DEF Osc!Value, Osc!Argument, Osc!Steps, Osc!Attributes
<1>4. ASSUME NEW j \in 1..Len(expected)
      PROVE  (LET s == Listening[Osc!Place(j)] IN
              expected[j] = Osc!Packet(Listening[1].host, s.addr, s.what,
                                       Osc!Value(s.addr, s.what, Osc!InUse)))'
  <2>1. PICK s \in Osc!Steps : s = Listening[Osc!Place(j)]
    BY <1>2
  <2>2. Osc!Value(s.addr, s.what, Osc!InUse)' = Osc!Value(s.addr, s.what, Osc!InUse)
    BY <1>2, <1>3, <2>1
  <2>3. expected[j] = Osc!Packet(Listening[1].host, s.addr, s.what,
                                 Osc!Value(s.addr, s.what, Osc!InUse))
    BY <1>2, <2>1
  <2>4. (expected[j])' = expected[j] /\ s = (Listening[Osc!Place(j)])'
        /\ (Listening[1].host)' = Listening[1].host
    BY <2>1
  <2>5. (expected[j])' = Osc!Packet((Listening[1].host)', s.addr, s.what,
                                    Osc!Value(s.addr, s.what, Osc!InUse)')
    BY <2>2, <2>3, <2>4
  <2> QED
    BY <2>4, <2>5
<1>5. (1..Len(expected))' = 1..Len(expected) /\ (1..Len(Listening))' = 1..Len(Listening)
  OBVIOUS
<1>6. \A j \in 1..Len(expected) :
        /\ (Osc!Place(j) <= Len(Listening))'
        /\ (Listening[Osc!Place(j)].op = "emit")'
  BY <1>2
<1>7. \A k \in 1..Len(Listening) :
        Listening'[k].op = "emit" => \E j \in 1..Len(expected') : k = Osc!Place(j)
  BY DEF Osc!SendsAnswer
<1> QED
  BY <1>4, <1>5, <1>6, <1>7 DEF Osc!SendsAnswer

\* A step of the listener that neither sends nor sets anything, or the last phase of one
\* that sends.
LEMMA ListenerDone ==
  ASSUME Osc!TypeOK, Osc!ListenerInv, Osc!UiInv, ~Osc!Idle("listener"), Osc!Done("listener"),
         UNCHANGED <<fPort, errPort, gXmit, oscZone, expected, replies>>,
         Osc!Now("listener").op \in {"redirect", "restore", "emit"},
         Osc!Now("listener").op = "emit" <=> phase["listener"] = "idle",
         Osc!DestInv', Osc!InUse' = Osc!InUse
  PROVE  Osc!ListenerInv'
<1> DEFINE q == Listening
           p == done["listener"]
           e == expected
           r == replies
<1>1. /\ q \in Seq(Osc!Steps) /\ p \in Nat /\ Len(q) \in Nat /\ p < Len(q) /\ p + 1 \in 1..Len(q)
      /\ Osc!Now("listener") = q[p + 1]
  BY NowFacts DEF Osc!Threads, Listening
<1>2. /\ Osc!SendsAnswer(q, e) /\ Len(r) <= Len(e)
      /\ \A j \in 1..Len(e) : /\ j <= Len(r) => r[j] = e[j]
                              /\ Osc!Whole(e[j])
                              /\ j <= Len(r) <=> \/ Osc!Place(j) <= p
                                                 \/ /\ Osc!Place(j) = p + 1
                                                    /\ phase["listener"] = "idle"
  BY DEF Osc!ListenerInv, Osc!DestInv, Osc!Idle, Listening
<1>3. /\ phase'["listener"] = "start"
      /\ IF p + 1 < Len(q) THEN todo'["listener"] = q /\ done'["listener"] = p + 1
         ELSE todo'["listener"] = <<>> /\ done'["listener"] = 0 /\ Len(q) = p + 1
  BY <1>1, Controls, DoneFacts DEF Osc!Threads, Listening
<1>4. Len(r) \in Nat /\ Len(e) \in Nat
  BY DEF Osc!TypeOK
<1>5. \A j \in 1..Len(e) : /\ Osc!Place(j) \in Nat /\ Osc!Place(j) <= Len(q)
                           /\ q[Osc!Place(j)].op = "emit"
  BY <1>2, <1>4, SMTT(30) DEF Osc!SendsAnswer, Osc!Place
<1>6. \A j \in 1..Len(e) : j <= Len(r) <=> Osc!Place(j) <= p + 1
  <2> TAKE j \in 1..Len(e)
  <2>1. j <= Len(r) <=> \/ Osc!Place(j) <= p
                        \/ Osc!Place(j) = p + 1 /\ phase["listener"] = "idle"
    BY <1>2
  <2>2. Osc!Place(j) = p + 1 => phase["listener"] = "idle"
    BY <1>1, <1>5
  <2>3. Osc!Place(j) <= p + 1 <=> Osc!Place(j) <= p \/ Osc!Place(j) = p + 1
    BY <1>1, <1>5
  <2> QED
    BY <2>1, <2>2, <2>3
<1>8. CASE p + 1 < Len(q)
  <2>1. todo'["listener"] = q /\ done'["listener"] = p + 1 /\ q # <<>>
    BY <1>1, <1>3, <1>8
  <2>2. Osc!SendsAnswer(todo["listener"], expected)'
    BY <1>1, <1>2, <2>1, AnswerKept DEF Listening
  <2>6. \A j \in 1..Len(e) : /\ j <= Len(r) => r[j] = e[j]
                             /\ Osc!Whole(e[j])
                             /\ j <= Len(r) <=> Osc!Place(j) <= done'["listener"]
    BY <1>2, <1>6, <2>1
  <2>7. phase'["listener"] # "idle"
    BY <1>3
  <2> QED
    BY <1>2, <2>1, <2>2, <2>6, <2>7 DEF Osc!ListenerInv
<1>9. CASE ~(p + 1 < Len(q))
  <2>1. todo'["listener"] = <<>> /\ done'["listener"] = 0 /\ Len(q) = p + 1
    BY <1>3, <1>9
  <2>4. Len(r) = Len(e)
    <3>1. Len(e) > 0 => Len(e) \in 1..Len(e)
      BY <1>4
    <3>2. Len(e) > 0 => Len(e) <= Len(r)
      BY <1>5, <1>6, <2>1, <3>1
    <3> QED
      BY <1>2, <1>4, <3>2
  <2>5. \A j \in 1..Len(e) : (j <= Len(r) => r[j] = e[j]) /\ Osc!Whole(e[j])
    BY <1>2
  <2> QED
    BY <1>2, <2>1, <2>4, <2>5 DEF Osc!ListenerInv
<1> QED
  BY <1>8, <1>9

\* The user interface thread is not disturbed by a step of the listener, which sends
\* nothing and keeps the destination when there is something to transmit.
LEMMA UiKept ==
  ASSUME Osc!OSCAssumption, Osc!TypeOK, Osc!UiInv, option' = option,
         transmitted' = transmitted,
         todo'["ui"] = todo["ui"], done'["ui"] = done["ui"],
         Listening' = Listening \/ Listening' = <<>>,
         option.sends > 0 => UNCHANGED <<fSetDest, dest, replaced>>
  PROVE  Osc!UiInv'
<1>1. \A k \in 1..Len(<<>>) : FALSE
  OBVIOUS
<1>2. option.sends > 0 =>
        \A k \in 1..Len(todo'["listener"]) :
          todo'["listener"][k].op \notin {"emit", "redirect", "dest"}
  BY <1>1 DEF Osc!UiInv, Listening
<1>3. option \in Options /\ Osc!Whole(transmitted')
  BY DEF Osc!UiInv, Osc!TypeOK
<1>0. option.sends \in Nat
  BY <1>3 DEF Osc!OSCAssumption
<1>4. Osc!TransmittedToDest'
  <2>1. CASE option.sends > 0
    BY <2>1 DEF Osc!UiInv, Osc!TransmittedToDest
  <2>2. CASE ~(option.sends > 0)
    BY <1>0, <2>2 DEF Osc!UiInv, Osc!TransmittedToDest
  <2> QED
    BY <2>1, <2>2
<1> QED
  BY <1>2, <1>3, <1>4 DEF Osc!UiInv

\* Nor is the message it is sending.
LEMMA UiMessageKept ==
  ASSUME Osc!TypeOK, Osc!UiInv, Osc!Message("ui"),
         todo'["ui"] = todo["ui"], done'["ui"] = done["ui"], phase'["ui"] = phase["ui"],
         local'["ui"] = local["ui"],
         todo["ui"] # <<>> => UNCHANGED <<inProgress, fState, buffer, fAddress>>
  PROVE  Osc!Message("ui")'
<1>1. CASE todo["ui"] = <<>>
  <2>1. phase["ui"] = "start"
    BY <1>1 DEF Osc!Message, Osc!Step, Osc!Idle
  <2> QED
    BY <2>1 DEF Osc!Message
<1>2. CASE todo["ui"] # <<>>
  <2>1. UNCHANGED <<inProgress, fState, buffer, fAddress>>
    BY <1>2
  <2>2. Osc!Step("ui", "emit")' <=> Osc!Step("ui", "emit")
    BY DEF Osc!Step, Osc!Idle, Osc!Now
  <2>3. Osc!Now("ui")' = Osc!Now("ui")
    BY DEF Osc!Now
  <2>4. (phase["ui"] = "args" => buffer = [addr |-> Osc!Now("ui").addr, args |-> <<>>])'
    BY <2>1, <2>3 DEF Osc!Message
  <2>5. (phase["ui"] \in {"end", "send"} =>
           LET s == Osc!Now("ui") IN
           /\ buffer.addr = s.addr /\ Len(buffer.args) = 1 /\ buffer.args[1].addr = s.addr)'
    BY <2>1, <2>3 DEF Osc!Message
  <2>6. (/\ ~Osc!Step("ui", "emit") => phase["ui"] = "start"
         /\ phase["ui"] \in {"args", "end", "send"} => inProgress /\ fState = "kInProgress"
         /\ phase["ui"] = "send" => local["ui"] = fAddress)'
    BY <2>1, <2>2 DEF Osc!Message
  <2> QED
    BY <2>4, <2>5, <2>6 DEF Osc!Message
<1> QED
  BY <1>1, <1>2

\* The listener redirects the stream.
LEMMA RedirectKeeps ==
  ASSUME Osc!OSCAssumption, Osc!Inv, Osc!redirect
  PROVE  Osc!Inv'
<1> USE DEF Osc!Inv
<1> DEFINE q == Listening
           p == done["listener"]
<1>1. /\ ~Osc!Idle("listener") /\ Osc!Now("listener").op = "redirect" /\ Osc!Done("listener")
      /\ savedip' = fAddress /\ fAddress' = Osc!Now("listener").host
      /\ UNCHANGED <<option, fPort, errPort, fState, buffer, inProgress, fSetDest, gXmit,
                     oscZone, dest, replaced, local, received, sends, expected, replies,
                     transmitted>>
  BY DEF Osc!redirect, Osc!Step, Osc!state
<1>2. /\ q \in Seq(Osc!Steps) /\ p \in Nat /\ p + 1 \in 1..Len(q) /\ p < Len(q)
      /\ Osc!Now("listener") = q[p + 1] /\ Osc!Now("listener") \in Osc!Steps
  BY <1>1, NowFacts DEF Osc!Threads, Listening
<1>3. q[p + 1].host \in Osc!Hosts
  BY <1>1, <1>2 DEF Osc!Steps
<1>4. /\ todo' \in [Osc!Threads -> Seq(Osc!Steps)] /\ done' \in [Osc!Threads -> Nat]
      /\ phase' \in [Osc!Threads -> Phases] /\ phase'["listener"] = "start"
      /\ todo'["ui"] = todo["ui"] /\ done'["ui"] = done["ui"] /\ phase'["ui"] = phase["ui"]
      /\ Listening' = Listening \/ Listening' = <<>>
  BY <1>1, <1>2, Controls, DoneFacts DEF Osc!Threads, Listening
<1>5. Osc!TypeOK'
  BY <1>1, <1>2, <1>3, <1>4 DEF Osc!TypeOK, Phases
<1>6. Osc!DestInv' /\ Osc!InUse' = Osc!InUse
  BY Controls, DestRedirected DEF Osc!ListenerInv
<1>8. Osc!ListenerInv'
  <2>1. phase["listener"] # "idle"
    BY <1>1 DEF Osc!Message, Osc!Step
  <2> QED
    BY <1>1, <1>6, <2>1, ListenerDone
<1>9. Osc!UiInv'
  BY <1>1, <1>4, UiKept
<1>10. Osc!Message("listener")'
  BY <1>4 DEF Osc!Message
<1>11. Osc!Message("ui")'
  <2>1. ~(option.sends > 0)
    BY <1>1, <1>2 DEF Osc!UiInv, Listening
  <2>2. todo["ui"] = <<>>
    BY <2>1 DEF Osc!UiInv, Osc!TypeOK, Osc!OSCAssumption
  <2> QED
    BY <1>1, <1>4, <2>2, UiMessageKept
<1> QED
  BY <1>5, <1>8, <1>9, <1>10, <1>11

\* While the listener answers, nothing is transmitted.
LEMMA AnsweringAlone ==
  ASSUME Osc!OSCAssumption, Osc!Inv, ~Osc!Idle("listener"),
         Osc!Now("listener").op \in {"redirect", "restore", "emit"}
  PROVE  todo["ui"] = <<>> /\ phase["ui"] = "start" /\ ~(option.sends > 0)
<1> USE DEF Osc!Inv
<1> DEFINE q == Listening
           p == done["listener"]
<1>1. /\ q \in Seq(Osc!Steps) /\ p \in Nat /\ p + 1 \in 1..Len(q) /\ p < Len(q)
      /\ Osc!Now("listener") = q[p + 1]
  BY NowFacts DEF Osc!Threads, Listening
<1>2. \E k \in 1..Len(q) : q[k].op \in {"redirect", "emit"}
  <2>1. CASE q[p + 1].op \in {"redirect", "emit"}
    BY <1>1, <2>1
  <2>2. CASE q[p + 1].op = "restore"
    <3>1. p + 1 - 1 = p
      BY <1>1
    <3>2. Osc!Away(q, p)
      BY <1>1, <2>2, <3>1 DEF Osc!ListenerInv, Osc!DestInv, Osc!Balanced, Listening
    <3>3. PICK i \in 1..p : q[i].op = "redirect"
      BY <3>2 DEF Osc!Away
    <3>4. i \in 1..Len(q)
      BY <1>1
    <3> QED
      BY <3>3, <3>4
  <2> QED
    BY <1>1, <2>1, <2>2
<1>3. ~(option.sends > 0)
  BY <1>2 DEF Osc!UiInv, Listening
<1>4. todo["ui"] = <<>>
  BY <1>3 DEF Osc!UiInv, Osc!TypeOK, Osc!OSCAssumption
<1> QED
  BY <1>3, <1>4 DEF Osc!Message, Osc!Step, Osc!Idle

\* The listener puts the destination back.
LEMMA RestoreKeeps ==
  ASSUME Osc!OSCAssumption, Osc!Inv, Osc!restore
  PROVE  Osc!Inv'
<1> USE DEF Osc!Inv
<1> DEFINE q == Listening
           p == done["listener"]
<1>1. /\ ~Osc!Idle("listener") /\ Osc!Now("listener").op = "restore" /\ Osc!Done("listener")
      /\ fAddress' = savedip
      /\ UNCHANGED <<option, fPort, errPort, fState, buffer, inProgress, fSetDest, gXmit,
                     oscZone, dest, replaced, local, savedip, received, sends, expected, replies,
                     transmitted>>
  BY DEF Osc!restore, Osc!Step, Osc!state
<1>2. /\ q \in Seq(Osc!Steps) /\ p \in Nat /\ p + 1 \in 1..Len(q) /\ p < Len(q)
      /\ Osc!Now("listener") = q[p + 1] /\ Osc!Now("listener") \in Osc!Steps
  BY <1>1, NowFacts DEF Osc!Threads, Listening
<1>4. /\ todo' \in [Osc!Threads -> Seq(Osc!Steps)] /\ done' \in [Osc!Threads -> Nat]
      /\ phase' \in [Osc!Threads -> Phases] /\ phase'["listener"] = "start"
      /\ todo'["ui"] = todo["ui"] /\ done'["ui"] = done["ui"] /\ phase'["ui"] = phase["ui"]
      /\ Listening' = Listening \/ Listening' = <<>>
  BY <1>1, <1>2, Controls, DoneFacts DEF Osc!Threads, Listening
<1>5. Osc!TypeOK'
  BY <1>1, <1>2, <1>4 DEF Osc!TypeOK, Phases
<1>6. Osc!DestInv' /\ Osc!InUse' = Osc!InUse
  BY Controls, DestRestored DEF Osc!ListenerInv
<1>8. Osc!ListenerInv'
  <2>1. phase["listener"] # "idle"
    BY <1>1 DEF Osc!Message, Osc!Step
  <2> QED
    BY <1>1, <1>6, <2>1, ListenerDone
<1>9. Osc!UiInv'
  BY <1>1, <1>4, UiKept
<1>10. Osc!Message("listener")'
  BY <1>4 DEF Osc!Message
<1>11. Osc!Message("ui")'
  BY <1>1, <1>4, AnsweringAlone, UiMessageKept
<1> QED
  BY <1>5, <1>8, <1>9, <1>10, <1>11

\* The listener has sent a message.
LEMMA ListenerIdleKeeps ==
  ASSUME Osc!OSCAssumption, Osc!Inv, Osc!idle("listener")
  PROVE  Osc!Inv'
<1> USE DEF Osc!Inv
<1> DEFINE q == Listening
           p == done["listener"]
<1>1. /\ ~Osc!Idle("listener") /\ Osc!Now("listener").op = "emit" /\ Osc!Done("listener")
      /\ phase["listener"] = "idle" /\ fState' = "kIdle"
      /\ UNCHANGED <<option, fAddress, fPort, errPort, buffer, inProgress, fSetDest, gXmit,
                     oscZone, dest, replaced, local, savedip, received, sends, expected, replies,
                     transmitted>>
  BY DEF Osc!idle, Osc!Sending, Osc!Step, Osc!state
<1>2. /\ q \in Seq(Osc!Steps) /\ p \in Nat /\ p + 1 \in 1..Len(q) /\ p < Len(q)
      /\ Osc!Now("listener") = q[p + 1] /\ Osc!Now("listener") \in Osc!Steps
  BY <1>1, NowFacts DEF Osc!Threads, Listening
<1>4. /\ todo' \in [Osc!Threads -> Seq(Osc!Steps)] /\ done' \in [Osc!Threads -> Nat]
      /\ phase' \in [Osc!Threads -> Phases] /\ phase'["listener"] = "start"
      /\ todo'["ui"] = todo["ui"] /\ done'["ui"] = done["ui"] /\ phase'["ui"] = phase["ui"]
      /\ Listening' = Listening \/ Listening' = <<>>
  BY <1>1, <1>2, Controls, DoneFacts DEF Osc!Threads, Listening
<1>5. Osc!TypeOK'
  BY <1>1, <1>2, <1>4 DEF Osc!TypeOK, Phases
<1>6. Osc!DestInv' /\ Osc!InUse' = Osc!InUse
  BY <1>1, Controls, DestEmitted DEF Osc!ListenerInv
<1>8. Osc!ListenerInv'
  BY <1>1, <1>6, ListenerDone
<1>9. Osc!UiInv'
  BY <1>1, <1>4, UiKept
<1>10. Osc!Message("listener")'
  BY <1>4 DEF Osc!Message
<1>11. Osc!Message("ui")'
  BY <1>1, <1>4, AnsweringAlone, UiMessageKept
<1> QED
  BY <1>5, <1>8, <1>9, <1>10, <1>11

\* A step that leaves the listener and the destination alone.
LEMMA ListenerQuiet ==
  ASSUME Osc!TypeOK, Osc!ListenerInv, Listening' = Listening,
         done'["listener"] = done["listener"],
         phase'["listener"] = "idle" <=> phase["listener"] = "idle",
         UNCHANGED <<fAddress, savedip, dest, replaced, fPort, errPort, gXmit, oscZone,
                     expected, replies>>
  PROVE  Osc!ListenerInv'
<1>1. Listening \in Seq(Osc!Steps)
  BY DEF Osc!TypeOK, Osc!Threads, Listening
<1>2. Listening # <<>> => Osc!SendsAnswer(Listening, expected)
  BY DEF Osc!ListenerInv, Osc!DestInv, Listening
<1>0. Osc!DestInv' /\ Osc!InUse' = Osc!InUse
  BY DestQuiet DEF Osc!ListenerInv
<1>3. (Listening # <<>> => Osc!SendsAnswer(Listening, expected))'
  BY <1>0, <1>1, <1>2, AnswerKept
<1>4. (/\ Len(replies) <= Len(expected)
       /\ Listening = <<>> => Len(replies) = Len(expected))'
  BY DEF Osc!ListenerInv, Osc!DestInv, Listening
<1>5. (LET q == Listening
           p == done["listener"] IN
       \A j \in 1..Len(expected) :
        /\ j <= Len(replies) => replies[j] = expected[j]
        /\ Osc!Whole(expected[j])
        /\ q # <<>> =>
            (j <= Len(replies) <=>
               \/ Osc!Place(j) <= p
               \/ Osc!Place(j) = p + 1 /\ phase["listener"] = "idle"))'
  BY DEF Osc!ListenerInv, Osc!DestInv, Listening
<1> QED
  BY <1>0, <1>3, <1>4, <1>5 DEF Osc!ListenerInv, Listening

\* The threads do not send at the same time.
LEMMA SendsAlone ==
  ASSUME Osc!OSCAssumption, Osc!Inv, NEW t \in Osc!Threads, Osc!Step(t, "emit")
  PROVE  \A o \in Osc!Threads \ {t} : phase[o] = "start"
<1> USE DEF Osc!Inv
<1>1. CASE t = "listener"
  <2>1. phase["ui"] = "start"
    BY <1>1, AnsweringAlone DEF Osc!Step
  <2> QED
    BY <1>1, <2>1 DEF Osc!Threads
<1>2. CASE t = "ui"
  <2>1. todo["ui"] # <<>>
    BY <1>2 DEF Osc!Step, Osc!Idle
  <2>2. ~Osc!Step("listener", "emit")
    BY <2>1, AnsweringAlone DEF Osc!Step
  <2>3. phase["listener"] = "start"
    BY <2>2 DEF Osc!Message
  <2> QED
    BY <1>2, <2>3 DEF Osc!Threads
<1> QED
  BY <1>1, <1>2 DEF Osc!Threads

\* What is appended does not change while the attributes and the values do not.
LEMMA ArgumentKept ==
  ASSUME UNCHANGED <<oscZone, gXmit, fPort, errPort, savedip>>,
         NEW s \in Osc!Steps, s.op = "emit"
  PROVE  Osc!Argument(s.addr, s.what)' = Osc!Argument(s.addr, s.what)
  BY DEF Osc!Argument, Osc!Steps, Osc!Attributes

\* The phases of a thread that sends: what both threads see stays the same.
LEMMA PhaseKeeps ==
  ASSUME Osc!OSCAssumption, Osc!Inv, NEW t \in Osc!Threads, Osc!Step(t, "emit"),
         phase[t] # "idle", NEW ph \in Phases \ {"idle"}, Osc!Phase(t, ph),
         UNCHANGED <<option, fAddress, fPort, errPort, Osc!state, savedip, expected, replies,
                     transmitted>>
  PROVE  /\ Osc!ListenerInv' /\ Osc!UiInv' /\ Osc!Now(t) \in Osc!Steps
         /\ Osc!Now(t)' = Osc!Now(t) /\ Osc!Step(t, "emit")' /\ phase'[t] = ph
         /\ \A o \in Osc!Threads \ {t} : Osc!Message(o)'
         /\ todo' = todo /\ done' = done /\ phase' \in [Osc!Threads -> Phases]
<1> USE DEF Osc!Inv
<1>1. /\ todo' = todo /\ done' = done /\ phase' \in [Osc!Threads -> Phases] /\ phase'[t] = ph
      /\ \A o \in Osc!Threads \ {t} : phase'[o] = phase[o]
  BY Controls, PhaseFacts
<1>2. /\ UNCHANGED <<option, fAddress, fPort, errPort, fSetDest, gXmit, oscZone, dest,
                     replaced, savedip,
                     expected, replies, transmitted>>
      /\ Listening' = Listening /\ done'["listener"] = done["listener"]
      /\ todo'["ui"] = todo["ui"] /\ done'["ui"] = done["ui"]
  BY <1>1 DEF Osc!state, Listening
<1>3. phase'["listener"] = "idle" <=> phase["listener"] = "idle"
  BY <1>1 DEF Osc!Threads
<1>4. Osc!ListenerInv'
  BY <1>2, <1>3, ListenerQuiet
<1>5. Osc!UiInv'
  BY <1>2, UiKept
<1>6. Osc!Now(t)' = Osc!Now(t) /\ Osc!Step(t, "emit")'
  BY <1>1 DEF Osc!Step, Osc!Now, Osc!Idle
<1>7. \A o \in Osc!Threads \ {t} : Osc!Message(o)'
  <2> TAKE o \in Osc!Threads \ {t}
  <2>1. phase'[o] = "start"
    BY <1>1, SendsAlone
  <2> QED
    BY <2>1 DEF Osc!Message
<1>8. Osc!Now(t) \in Osc!Steps
  BY NowFacts DEF Osc!Step
<1> QED
  BY <1>1, <1>4, <1>5, <1>6, <1>7, <1>8

\* OSCStream::start, by either thread.
LEMMA StartKeeps ==
  ASSUME Osc!OSCAssumption, Osc!Inv, NEW t \in Osc!Threads, Osc!start(t)
  PROVE  Osc!Inv'
<1> USE DEF Osc!Inv
<1>1. /\ Osc!Step(t, "emit") /\ phase[t] = "start" /\ Osc!Phase(t, "args")
      /\ buffer' = [addr |-> Osc!Now(t).addr, args |-> <<>>]
      /\ inProgress' = TRUE /\ fState' = "kInProgress"
      /\ UNCHANGED <<option, fAddress, fPort, errPort, Osc!state, local, savedip, received,
                     sends, expected, replies, transmitted>>
  BY DEF Osc!start, Osc!Sending
<1>2. "args" \in Phases \ {"idle"}
  BY DEF Phases
<1>3. /\ Osc!ListenerInv' /\ Osc!UiInv' /\ Osc!Now(t) \in Osc!Steps
      /\ Osc!Now(t)' = Osc!Now(t) /\ Osc!Step(t, "emit")' /\ phase'[t] = "args"
      /\ \A o \in Osc!Threads \ {t} : Osc!Message(o)'
      /\ todo' = todo /\ done' = done /\ phase' \in [Osc!Threads -> Phases]
  BY <1>1, <1>2, PhaseKeeps
<1>4. Osc!Now(t).addr \in Osc!Addresses /\ <<>> \in Seq(Osc!Arguments)
  BY <1>1, <1>3 DEF Osc!Step, Osc!Steps, Osc!Addresses
<1>5. Osc!TypeOK'
  BY <1>1, <1>3, <1>4 DEF Osc!TypeOK, Osc!state, Phases
<1>6. Osc!Message(t)'
  BY <1>1, <1>3 DEF Osc!Message
<1> QED
  BY <1>3, <1>5, <1>6 DEF Osc!Threads

\* The argument of a message, by either thread.
LEMMA ArgsKeeps ==
  ASSUME Osc!OSCAssumption, Osc!Inv, NEW t \in Osc!Threads, Osc!args(t)
  PROVE  Osc!Inv'
<1> USE DEF Osc!Inv
<1> DEFINE s == Osc!Now(t)
           a == [addr |-> s.addr, what |-> s.what, n |-> Osc!Argument(s.addr, s.what)]
<1>1. /\ Osc!Step(t, "emit") /\ phase[t] = "args" /\ Osc!Phase(t, "end")
      /\ buffer' = [buffer EXCEPT !.args = Append(buffer.args, a)]
      /\ UNCHANGED <<option, fAddress, fPort, errPort, fState, inProgress, Osc!state, local,
                     savedip, received, sends, expected, replies, transmitted>>
  BY DEF Osc!args, Osc!Sending
<1>2. "end" \in Phases \ {"idle"}
  BY DEF Phases
<1>3. /\ Osc!ListenerInv' /\ Osc!UiInv' /\ s \in Osc!Steps
      /\ s' = s /\ Osc!Step(t, "emit")' /\ phase'[t] = "end"
      /\ \A o \in Osc!Threads \ {t} : Osc!Message(o)'
      /\ todo' = todo /\ done' = done /\ phase' \in [Osc!Threads -> Phases]
  BY <1>1, <1>2, PhaseKeeps
<1>4. /\ buffer = [addr |-> s.addr, args |-> <<>>]
      /\ inProgress /\ fState = "kInProgress"
  BY <1>1 DEF Osc!Message, Osc!Threads
<1>5. s.op = "emit"
  BY <1>1 DEF Osc!Step
<1>6. /\ Osc!Argument(s.addr, s.what) \in Nat /\ s.addr \in Osc!Addresses
      /\ s.what \in Osc!Attributes \cup {"hello", "alias", "value"}
  <2>1. Osc!Localhost \in Osc!Hosts
    BY DEF Osc!OSCAssumption, Osc!Localhost, Osc!Hosts
  <2> QED
    BY <1>3, <1>5, <2>1, SentPackets
<1>7. a \in Osc!Arguments /\ a.addr = s.addr
  BY <1>6 DEF Osc!Arguments
<1>8. a' = a
  <2>1. UNCHANGED <<oscZone, gXmit, fPort, errPort, savedip>>
    BY <1>1 DEF Osc!state
  <2>2. PICK x \in Osc!Steps : x = s
    BY <1>3
  <2>3. Osc!Argument(x.addr, x.what)' = Osc!Argument(x.addr, x.what)
    BY <1>5, <2>1, <2>2, ArgumentKept
  <2>4. x = s'
    BY <1>3, <2>2
  <2> HIDE DEF s
  <2> QED
    BY <1>3, <2>2, <2>3, <2>4
<1> HIDE DEF a
<1>9. buffer' = [addr |-> s.addr, args |-> <<a>>]
  <2>1. Append(<<>>, a) = <<a>>
    OBVIOUS
  <2> QED
    BY <1>1, <1>4, <2>1
<1>10. /\ <<a>> \in Seq(Osc!Arguments) /\ Len(<<a>>) = 1 /\ <<a>>[1] = a
  BY <1>7
<1>11. Osc!TypeOK'
  <2>1. buffer' \in [addr : Osc!Addresses, args : Seq(Osc!Arguments)]
    BY <1>6, <1>9, <1>10
  <2> QED
    BY <1>1, <1>3, <2>1 DEF Osc!TypeOK, Osc!state, Phases
<1>12. Osc!Message(t)'
  <2>2. buffer'.addr = (s.addr)' /\ Len(buffer'.args) = 1 /\ buffer'.args[1].addr = (s.addr)'
    BY <1>3, <1>7, <1>9, <1>10
  <2>3. (t = "listener" => buffer = [addr |-> s.addr, args |-> <<a>>])'
    BY <1>3, <1>8, <1>9
  <2>4. (inProgress /\ fState = "kInProgress")'
    BY <1>1, <1>4
  <2>5. phase'[t] = "end" /\ Osc!Step(t, "emit")'
    BY <1>3
  <2> QED
    BY <2>2, <2>3, <2>4, <2>5 DEF Osc!Message, a
<1> QED
  BY <1>3, <1>11, <1>12 DEF Osc!Threads

\* OSCStream::end, by either thread.
LEMMA EndKeeps ==
  ASSUME Osc!OSCAssumption, Osc!Inv, NEW t \in Osc!Threads, Osc!end(t)
  PROVE  Osc!Inv'
<1> USE DEF Osc!Inv
<1> DEFINE s == Osc!Now(t)
           a == [addr |-> s.addr, what |-> s.what, n |-> Osc!Argument(s.addr, s.what)]
<1>1. /\ Osc!Step(t, "emit") /\ phase[t] = "end"
      /\ local' = [local EXCEPT ![t] = fAddress]
      /\ UNCHANGED <<option, fAddress, fPort, errPort, fState, buffer, inProgress, Osc!state,
                     savedip, received, sends, expected, replies, transmitted>>
      /\ (fState = "kInProgress" => Osc!Phase(t, "send"))
  BY DEF Osc!end, Osc!Sending, Osc!stream
<1>2. "send" \in Phases \ {"idle"}
  BY DEF Phases
<1>4. inProgress /\ fState = "kInProgress"
  BY <1>1 DEF Osc!Message, Osc!Threads
<1>3. /\ Osc!ListenerInv' /\ Osc!UiInv' /\ s \in Osc!Steps
      /\ s' = s /\ Osc!Step(t, "emit")' /\ phase'[t] = "send"
      /\ \A o \in Osc!Threads \ {t} : Osc!Message(o)'
      /\ todo' = todo /\ done' = done /\ phase' \in [Osc!Threads -> Phases]
  BY <1>1, <1>2, <1>4, PhaseKeeps
<1>5. s.op = "emit"
  BY <1>1 DEF Osc!Step
<1>6. local' \in [Osc!Threads -> Osc!Hosts] /\ local'[t] = fAddress
  BY <1>1 DEF Osc!TypeOK
<1>8. a' = a
  <2>1. UNCHANGED <<oscZone, gXmit, fPort, errPort, savedip>>
    BY <1>1 DEF Osc!state
  <2>2. PICK x \in Osc!Steps : x = s
    BY <1>3
  <2>3. Osc!Argument(x.addr, x.what)' = Osc!Argument(x.addr, x.what)
    BY <1>5, <2>1, <2>2, ArgumentKept
  <2>4. x = s'
    BY <1>3, <2>2
  <2> HIDE DEF s
  <2> QED
    BY <1>3, <2>2, <2>3, <2>4
<1>9. /\ buffer.addr = s.addr /\ Len(buffer.args) = 1 /\ buffer.args[1].addr = s.addr
      /\ t = "listener" => buffer = [addr |-> s.addr, args |-> <<a>>]
  BY <1>1 DEF Osc!Message, Osc!Threads
<1> HIDE DEF a
<1>11. Osc!TypeOK'
  BY <1>1, <1>3, <1>6 DEF Osc!TypeOK, Osc!state, Phases
<1>12. Osc!Message(t)'
  <2>2. buffer'.addr = (s.addr)' /\ Len(buffer'.args) = 1 /\ buffer'.args[1].addr = (s.addr)'
    BY <1>1, <1>3, <1>9
  <2>3. (t = "listener" => buffer = [addr |-> s.addr, args |-> <<a>>])'
    BY <1>1, <1>3, <1>8, <1>9
  <2>4. (inProgress /\ fState = "kInProgress")'
    BY <1>1, <1>4
  <2>5. phase'[t] = "send" /\ Osc!Step(t, "emit")' /\ local'[t] = fAddress'
    BY <1>1, <1>3, <1>6
  <2> QED
    BY <2>2, <2>3, <2>4, <2>5 DEF Osc!Message, a
<1> QED
  BY <1>3, <1>11, <1>12 DEF Osc!Threads

\* The user interface thread sends a message and has sent it.
LEMMA UiSendKeeps ==
  ASSUME Osc!OSCAssumption, Osc!Inv, Osc!send("ui")
  PROVE  Osc!Inv'
<1> USE DEF Osc!Inv
<1> DEFINE s == Osc!Now("ui")
           x == [to |-> local["ui"], addr |-> buffer.addr, args |-> buffer.args]
<1>1. Osc!Step("ui", "emit") /\ phase["ui"] = "send" /\ "ui" \in Osc!Threads
  BY DEF Osc!send, Osc!Sending, Osc!Threads
<1>2. /\ inProgress /\ local["ui"] = fAddress
      /\ buffer.addr = s.addr /\ Len(buffer.args) = 1 /\ buffer.args[1].addr = s.addr
  BY <1>1 DEF Osc!Message
<1>3. /\ inProgress' = FALSE /\ Osc!Phase("ui", "idle") /\ transmitted' = x
      /\ UNCHANGED <<option, fAddress, fPort, errPort, fState, buffer, Osc!state, local,
                     savedip, received, sends, expected, replies>>
  BY <1>1, <1>2 DEF Osc!send
<1>4. "idle" \in Phases
  BY DEF Phases
<1>5. /\ todo' = todo /\ done' = done /\ phase' \in [Osc!Threads -> Phases]
      /\ phase'["ui"] = "idle" /\ phase'["listener"] = phase["listener"]
  BY <1>1, <1>3, <1>4, Controls, PhaseFacts DEF Osc!Threads
<1>6. x \in Osc!Packets /\ Osc!Whole(x) /\ x.to = fAddress
  <2>1. buffer \in [addr : Osc!Addresses, args : Seq(Osc!Arguments)] /\ fAddress \in Osc!Hosts
    BY DEF Osc!TypeOK
  <2> QED
    BY <1>2, <2>1 DEF Osc!Packets, Osc!Whole
<1> HIDE DEF x
<1>7. Osc!TypeOK'
  BY <1>3, <1>5, <1>6 DEF Osc!TypeOK, Osc!state, Phases
<1>8. Osc!ListenerInv'
  BY <1>3, <1>5, ListenerQuiet DEF Osc!state, Listening
<1>9. todo["ui"] # <<>> /\ option.sends > 0
  <2>1. todo["ui"] # <<>>
    BY <1>1 DEF Osc!Step, Osc!Idle
  <2> QED
    BY <2>1 DEF Osc!UiInv, Osc!TypeOK, Osc!OSCAssumption
<1>10. fAddress = dest
  <2>1. \A k \in 1..Len(Listening) : Listening[k].op # "redirect"
    BY <1>9 DEF Osc!UiInv, Listening
  <2>2. \A k \in 1..done["listener"] : k \in 1..Len(Listening)
    BY DEF Osc!ListenerInv, Osc!DestInv, Osc!TypeOK, Osc!Threads, Listening
  <2>3. ~Osc!Away(Listening, done["listener"])
    BY <2>1, <2>2 DEF Osc!Away
  <2> QED
    BY <1>9, <2>3 DEF Osc!ListenerInv, Osc!DestInv, Osc!InUse, Osc!UiInv, Listening
<1>11. Osc!UiInv'
  <2>1. Osc!Whole(transmitted') /\ Osc!TransmittedToDest'
    BY <1>3, <1>6, <1>10 DEF Osc!TransmittedToDest, Osc!state
  <2>2. (option.sends > 0 =>
           /\ ~fSetDest /\ ~replaced
           /\ \A k \in 1..Len(todo["listener"]) :
                todo["listener"][k].op \notin {"emit", "redirect", "dest"})'
    BY <1>3, <1>5 DEF Osc!UiInv, Osc!state
  <2>3. option.sends # 0
    BY <1>9
  <2> QED
    BY <1>3, <1>5, <2>1, <2>2, <2>3 DEF Osc!UiInv, Osc!state
<1>12. Osc!Message("ui")'
  <2>1. Osc!Step("ui", "emit")'
    BY <1>1, <1>5 DEF Osc!Step, Osc!Idle, Osc!Now
  <2> QED
    BY <1>5, <2>1 DEF Osc!Message
<1>13. Osc!Message("listener")'
  <2>1. phase'["listener"] = "start"
    BY <1>1, <1>5, SendsAlone DEF Osc!Threads
  <2> QED
    BY <2>1 DEF Osc!Message
<1> QED
  BY <1>7, <1>8, <1>11, <1>12, <1>13

\* The user interface thread is through with a message.
LEMMA UiIdleKeeps ==
  ASSUME Osc!OSCAssumption, Osc!Inv, Osc!idle("ui")
  PROVE  Osc!Inv'
<1> USE DEF Osc!Inv
<1>1. /\ Osc!Step("ui", "emit") /\ phase["ui"] = "idle" /\ Osc!Done("ui")
      /\ fState' = "kIdle" /\ "ui" \in Osc!Threads
      /\ UNCHANGED <<option, fAddress, fPort, errPort, buffer, inProgress, fSetDest, gXmit,
                     oscZone, dest, replaced, local, savedip, received, sends, expected, replies,
                     transmitted>>
  BY DEF Osc!idle, Osc!Sending, Osc!Threads, Osc!state
<1>2. todo["ui"] # <<>> /\ ~Osc!Idle("ui")
  BY <1>1 DEF Osc!Step, Osc!Idle
<1>3. Len(todo["ui"]) = 1 /\ done["ui"] = 0 /\ option.sends > 0
  BY <1>2 DEF Osc!UiInv, Osc!TypeOK, Osc!OSCAssumption
<1>4. /\ todo' \in [Osc!Threads -> Seq(Osc!Steps)] /\ done' \in [Osc!Threads -> Nat]
      /\ phase' \in [Osc!Threads -> Phases] /\ phase'["ui"] = "start"
      /\ todo'["ui"] = <<>> /\ done'["ui"] = 0
      /\ Listening' = Listening /\ done'["listener"] = done["listener"]
      /\ phase'["listener"] = phase["listener"]
  <2>1. done["ui"] < Len(todo["ui"]) /\ ~(done["ui"] + 1 < Len(todo["ui"]))
    BY <1>3
  <2> DEFINE t == "ui"
  <2>2. /\ todo' \in [Osc!Threads -> Seq(Osc!Steps)] /\ done' \in [Osc!Threads -> Nat]
        /\ phase' \in [Osc!Threads -> Phases] /\ phase'[t] = "start"
        /\ \A o \in Osc!Threads \ {t} :
             todo'[o] = todo[o] /\ done'[o] = done[o] /\ phase'[o] = phase[o]
        /\ todo'[t] = <<>> /\ done'[t] = 0
    BY <1>1, <2>1, Controls, DoneFacts
  <2>3. "listener" \in Osc!Threads \ {t}
    BY DEF Osc!Threads
  <2> QED
    BY <2>2, <2>3 DEF Listening
<1>5. Osc!TypeOK'
  BY <1>1, <1>4 DEF Osc!TypeOK, Phases
<1>6. Osc!ListenerInv'
  BY <1>1, <1>4, ListenerQuiet
<1>7. Osc!UiInv'
  <2>1. (option.sends > 0 =>
           /\ ~fSetDest /\ ~replaced
           /\ \A k \in 1..Len(Listening) :
                Listening[k].op \notin {"emit", "redirect", "dest"})'
    BY <1>1, <1>4 DEF Osc!UiInv, Listening
  <2>2. option.sends # 0
    BY <1>3
  <2> QED
    BY <1>1, <1>4, <2>1, <2>2 DEF Osc!UiInv, Osc!TransmittedToDest, Listening
<1>8. Osc!Message("ui")'
  BY <1>4 DEF Osc!Message
<1>9. Osc!Message("listener")'
  <2>1. phase'["listener"] = "start"
    BY <1>1, <1>4, SendsAlone DEF Osc!Threads
  <2> QED
    BY <2>1 DEF Osc!Message
<1> QED
  BY <1>5, <1>6, <1>7, <1>8, <1>9

\* The packets of an answer are sent at increasing places.
LEMMA PlacesIncrease ==
  ASSUME NEW i \in Nat \ {0}, NEW j \in Nat \ {0}
  PROVE  Osc!Place(i) \in Nat \ {0} /\ (i < j <=> Osc!Place(i) < Osc!Place(j))
  BY DEF Osc!Place

\* The listener sends the next packet of the answer.
LEMMA ListenerSendKeeps ==
  ASSUME Osc!OSCAssumption, Osc!Inv, Osc!send("listener")
  PROVE  Osc!Inv'
<1> USE DEF Osc!Inv
<1> DEFINE q == Listening
           p == done["listener"]
           e == expected
           r == replies
           s == Osc!Now("listener")
           a == [addr |-> s.addr, what |-> s.what, n |-> Osc!Argument(s.addr, s.what)]
           x == [to |-> local["listener"], addr |-> buffer.addr, args |-> buffer.args]
<1>1. /\ Osc!Step("listener", "emit") /\ phase["listener"] = "send"
      /\ "listener" \in Osc!Threads
  BY DEF Osc!send, Osc!Sending, Osc!Threads
<1>2. /\ inProgress /\ local["listener"] = fAddress
      /\ buffer = [addr |-> s.addr, args |-> <<a>>]
  BY <1>1 DEF Osc!Message
<1>3. /\ inProgress' = FALSE /\ Osc!Phase("listener", "idle") /\ replies' = Append(replies, x)
      /\ UNCHANGED <<option, fAddress, fPort, errPort, fState, buffer, Osc!state, local,
                     savedip, received, sends, expected, transmitted>>
  BY <1>1, <1>2 DEF Osc!send
<1>4. "idle" \in Phases
  BY DEF Phases
<1>5. /\ todo' = todo /\ done' = done /\ phase' \in [Osc!Threads -> Phases]
      /\ phase'["listener"] = "idle" /\ phase'["ui"] = phase["ui"]
  BY <1>1, <1>3, <1>4, Controls, PhaseFacts DEF Osc!Threads
<1>6. /\ q \in Seq(Osc!Steps) /\ p \in Nat /\ Len(q) \in Nat /\ p < Len(q) /\ p + 1 \in 1..Len(q)
      /\ s = q[p + 1] /\ s \in Osc!Steps /\ s.op = "emit" /\ q # <<>>
  BY <1>1, NowFacts DEF Osc!Step, Osc!Idle, Listening
<1>7. /\ Osc!Balanced(q) /\ Osc!SendsAnswer(q, e)
      /\ Osc!Away(q, p) => fAddress = q[1].host
      /\ Len(r) <= Len(e)
      /\ \A j \in 1..Len(e) : /\ j <= Len(r) => r[j] = e[j]
                              /\ Osc!Whole(e[j])
                              /\ j <= Len(r) <=> Osc!Place(j) <= p
  BY <1>1, <1>6 DEF Osc!ListenerInv, Osc!DestInv, Listening
<1>8. fAddress = q[1].host /\ savedip = Osc!InUse
  <2>1. p + 1 - 1 = p
    BY <1>6
  <2>2. Osc!Away(q, p)
    BY <1>6, <1>7, <2>1 DEF Osc!Balanced
  <2> QED
    BY <1>7, <2>2 DEF Osc!InUse, Listening
<1>9. r \in Seq(Osc!Packets) /\ e \in Seq(Osc!Packets) /\ Len(r) \in Nat /\ Len(e) \in Nat
  BY DEF Osc!TypeOK
<1>10. PICK J \in 1..Len(e) : Osc!Place(J) = p + 1
  BY <1>6, <1>7 DEF Osc!SendsAnswer
<1>11. J = Len(r) + 1
  <2> DEFINE i == Len(r) + 1
  <2>1. ~(J <= Len(r))
    BY <1>6, <1>7, <1>10
  <2>2. i \in 1..Len(e) /\ i <= J /\ ~(i <= Len(r)) /\ J \in Nat \ {0} /\ i \in Nat \ {0}
    BY <1>9, <2>1
  <2>3. ~(Osc!Place(i) <= p)
    BY <1>7, <2>2
  <2>4. Osc!Place(i) \in Nat
    BY <2>2, PlacesIncrease
  <2>5. ~(Osc!Place(i) < Osc!Place(J))
    BY <1>6, <1>10, <2>3, <2>4
  <2>6. ~(i < J)
    BY <2>2, <2>5, PlacesIncrease
  <2> QED
    BY <2>2, <2>6
<1>12. e[J] = x
  <2>1. e[J] = Osc!Packet(q[1].host, s.addr, s.what, Osc!Value(s.addr, s.what, Osc!InUse))
    BY <1>6, <1>7, <1>10 DEF Osc!SendsAnswer
  <2>2. Osc!Value(s.addr, s.what, Osc!InUse) = Osc!Argument(s.addr, s.what)
    BY <1>8 DEF Osc!Value, Osc!Argument
  <2>3. x = [to |-> fAddress, addr |-> s.addr, args |-> <<a>>]
    BY <1>2
  <2> QED
    BY <1>8, <2>1, <2>2, <2>3 DEF Osc!Packet
<1> HIDE DEF x, a
<1>13. /\ replies' \in Seq(Osc!Packets) /\ Len(replies') = Len(r) + 1
       /\ replies'[Len(r) + 1] = e[J]
       /\ \A j \in 1..Len(r) : replies'[j] = r[j]
  <2>1. x \in Osc!Packets
    BY <1>9, <1>12, ElementOfSeq
  <2> QED
    BY <1>3, <1>9, <1>12, <2>1, AppendProperties
<1>14. Osc!TypeOK'
  BY <1>3, <1>5, <1>13 DEF Osc!TypeOK, Osc!state, Phases
<1>15. ASSUME NEW j \in 1..Len(e)
       PROVE  /\ j <= Len(replies') => replies'[j] = e[j]
              /\ j <= Len(replies') <=> Osc!Place(j) <= p \/ Osc!Place(j) = p + 1
  <2>1. j \in Nat \ {0} /\ J \in Nat \ {0}
    BY <1>9
  <2>2. Osc!Place(j) \in Nat /\ (J < j <=> p + 1 < Osc!Place(j))
    BY <1>10, <2>1, PlacesIncrease
  <2>3. j <= Len(replies') <=> j <= Len(r) \/ j = J
    BY <1>9, <1>11, <1>13, <2>1
  <2>4. j <= Len(r) => j \in 1..Len(r) /\ r[j] = e[j]
    BY <1>7, <1>9, <2>1
  <2>5. j <= Len(replies') => replies'[j] = e[j]
    BY <1>11, <1>13, <2>3, <2>4
  <2>6. j <= Len(r) \/ j = J <=> ~(J < j)
    BY <1>9, <1>11, <2>1
  <2>7. ~(J < j) <=> Osc!Place(j) <= p \/ Osc!Place(j) = p + 1
    BY <1>6, <2>2
  <2> QED
    BY <2>3, <2>5, <2>6, <2>7
<1>16. Osc!ListenerInv'
  <2>1. /\ Listening' = Listening /\ done'["listener"] = done["listener"]
        /\ UNCHANGED <<fAddress, savedip, dest, replaced, fPort, errPort, gXmit, oscZone,
                       expected>>
    BY <1>3, <1>5 DEF Osc!state, Listening
  <2>2. Osc!DestInv' /\ Osc!InUse' = Osc!InUse
    BY <2>1, DestQuiet DEF Osc!ListenerInv
  <2>3. Osc!SendsAnswer(Listening, expected)' /\ Listening' # <<>>
    BY <1>6, <1>7, <2>1, <2>2, AnswerKept
  <2>4. Len(replies') <= Len(expected')
    BY <1>9, <1>11, <1>13, <2>1
  <2>5. \A j \in 1..Len(expected') :
          /\ j <= Len(replies') => replies'[j] = expected'[j]
          /\ Osc!Whole(expected'[j])
          /\ j <= Len(replies') <=>
               \/ Osc!Place(j) <= done'["listener"]
               \/ Osc!Place(j) = done'["listener"] + 1 /\ phase'["listener"] = "idle"
    BY <1>5, <1>7, <1>15, <2>1
  <2> QED
    BY <2>2, <2>3, <2>4, <2>5 DEF Osc!ListenerInv, Listening
<1>17. Osc!UiInv'
  BY <1>3, <1>5, UiKept DEF Osc!state, Listening
<1>18. Osc!Message("listener")'
  <2>1. Osc!Step("listener", "emit")'
    BY <1>1, <1>5 DEF Osc!Step, Osc!Idle, Osc!Now
  <2> QED
    BY <1>5, <2>1 DEF Osc!Message
<1>19. Osc!Message("ui")'
  <2>1. phase'["ui"] = "start"
    BY <1>1, <1>5, SendsAlone DEF Osc!Threads
  <2> QED
    BY <2>1 DEF Osc!Message
<1> QED
  BY <1>14, <1>16, <1>17, <1>18, <1>19

\* The listener sets an attribute or a value.
LEMMA SetKeeps ==
  ASSUME Osc!OSCAssumption, Osc!Inv, Osc!setAttribute
  PROVE  Osc!Inv'
<1> USE DEF Osc!Inv
<1> DEFINE q == Listening
           p == done["listener"]
           e == expected
           r == replies
           s == Osc!Now("listener")
<1>1. /\ ~Osc!Idle("listener") /\ s.op \in {"dest", "port", "err", "xmit", "store"}
      /\ Osc!Done("listener")
      /\ fAddress' = (IF s.op = "dest" THEN s.host ELSE fAddress)
      /\ dest'     = (IF s.op = "dest" THEN s.host ELSE dest)
      /\ replaced' = (s.op # "dest" /\ replaced)
      /\ fPort'    = (IF s.op = "port" THEN s.n ELSE fPort)
      /\ errPort'  = (IF s.op = "err" THEN s.n ELSE errPort)
      /\ gXmit'    = (IF s.op = "xmit" THEN s.n ELSE gXmit)
      /\ oscZone'  = (IF s.op = "store" THEN [oscZone EXCEPT ![s.param] = s.v] ELSE oscZone)
      /\ UNCHANGED <<option, fState, buffer, inProgress, fSetDest, local, savedip, received,
                     sends, expected, replies, transmitted>>
  BY DEF Osc!setAttribute
<1>2. /\ q \in Seq(Osc!Steps) /\ p \in Nat /\ Len(q) \in Nat /\ p < Len(q) /\ p + 1 \in 1..Len(q)
      /\ s = q[p + 1] /\ s \in Osc!Steps /\ q # <<>>
  BY <1>1, NowFacts DEF Osc!Threads, Listening, Osc!Idle
<1>3. Osc!SendsAnswer(q, e) /\ Len(r) <= Len(e)
  BY <1>2 DEF Osc!ListenerInv, Listening
<1>4. Osc!DestInv' /\ Len(q) = 1 /\ p = 0
  BY Controls, DestSet DEF Osc!ListenerInv
<1>5. /\ todo' \in [Osc!Threads -> Seq(Osc!Steps)] /\ done' \in [Osc!Threads -> Nat]
      /\ phase' \in [Osc!Threads -> Phases] /\ phase'["listener"] = "start"
      /\ todo'["ui"] = todo["ui"] /\ done'["ui"] = done["ui"] /\ phase'["ui"] = phase["ui"]
      /\ todo'["listener"] = <<>> /\ done'["listener"] = 0
  <2>1. /\ todo["listener"] = q /\ done["listener"] < Len(todo["listener"])
        /\ ~(done["listener"] + 1 < Len(todo["listener"]))
    BY <1>4 DEF Listening
  <2> DEFINE t == "listener"
  <2>2. t \in Osc!Threads /\ "ui" \in Osc!Threads \ {t}
    BY DEF Osc!Threads
  <2>3. /\ todo' \in [Osc!Threads -> Seq(Osc!Steps)] /\ done' \in [Osc!Threads -> Nat]
        /\ phase' \in [Osc!Threads -> Phases] /\ phase'[t] = "start"
        /\ \A o \in Osc!Threads \ {t} :
             todo'[o] = todo[o] /\ done'[o] = done[o] /\ phase'[o] = phase[o]
        /\ todo'[t] = <<>> /\ done'[t] = 0
    BY <1>1, <2>1, <2>2, Controls, DoneFacts
  <2> QED
    BY <2>2, <2>3
<1>6. /\ s.op = "dest" => s.host \in Osc!Hosts
      /\ s.op \in {"port", "err"} => s.n \in Osc!Ports
      /\ s.op = "xmit" => s.n \in {0, 1}
      /\ s.op = "store" => s.param \in Osc!Params /\ s.v \in {0, 1}
  BY <1>2 DEF Osc!Steps
<1>7. /\ {fAddress', dest'} \subseteq Osc!Hosts /\ {fPort', errPort'} \subseteq Osc!Ports
      /\ replaced' \in BOOLEAN /\ gXmit' \in {0, 1} /\ oscZone' \in [Osc!Params -> {0, 1}]
  BY <1>1, <1>6 DEF Osc!TypeOK
<1> HIDE DEF s
<1>8. Osc!TypeOK'
  BY <1>1, <1>5, <1>7 DEF Osc!TypeOK, Phases
<1>11. option.sends > 0 => s.op # "dest"
  BY <1>2 DEF Osc!UiInv, Listening
<1>12. Len(e) = 0 /\ Len(r) = 0
  <2>1. e \in Seq(Osc!Packets) /\ r \in Seq(Osc!Packets)
    BY DEF Osc!TypeOK
  <2>2. ASSUME NEW j \in 1..Len(e) PROVE FALSE
    <3>1. Osc!Place(j) <= Len(q) /\ Osc!Place(j) >= 2
      BY <1>3, <2>1 DEF Osc!SendsAnswer, Osc!Place
    <3> QED
      BY <1>4, <3>1 DEF Osc!Place
  <2>3. Len(e) \in Nat /\ Len(r) \in Nat
    BY <2>1
  <2>4. Len(e) # 0 => 1 \in 1..Len(e)
    BY <2>3
  <2> QED
    BY <1>3, <2>2, <2>3, <2>4
<1>13. Osc!ListenerInv'
  <2>3. Len(replies') = 0 /\ Len(expected') = 0
    BY <1>1, <1>12
  <2>4. (\A k \in 1..Len(<<>>) : FALSE) /\ Len(<<>>) = 0
    OBVIOUS
  <2>5. \A j \in 1..Len(expected') : FALSE
    BY <2>3
  <2> QED
    BY <1>4, <1>5, <2>3, <2>4, <2>5 DEF Osc!ListenerInv
<1>14. Osc!UiInv'
  <2>1. option.sends > 0 => UNCHANGED <<fSetDest, dest, replaced>>
    BY <1>1, <1>11 DEF Osc!TypeOK
  <2> QED
    BY <1>1, <1>5, <2>1, UiKept DEF Listening
<1>15. Osc!Message("listener")'
  BY <1>5 DEF Osc!Message
<1>16. Osc!Message("ui")'
  <2>1. todo["ui"] # <<>> => option.sends > 0
    BY DEF Osc!UiInv, Osc!TypeOK, Osc!OSCAssumption
  <2>2. todo["ui"] # <<>> => UNCHANGED <<inProgress, fState, buffer, fAddress>>
    BY <1>1, <1>11, <2>1
  <2> QED
    BY <1>1, <1>5, <2>2, UiMessageKept
<1> QED
  BY <1>8, <1>13, <1>14, <1>15, <1>16

\* A message arrives.
LEMMA ProcessKeeps ==
  ASSUME Osc!OSCAssumption, Osc!Sound, Osc!Inv, NEW m \in Osc!Messages,
         Osc!ProcessMessage(m)
  PROVE  Osc!Inv'
<1> USE DEF Osc!Inv
<1>1. /\ m.kind \in option.kinds /\ Osc!Idle("listener") /\ received < option.messages
      /\ received' = received + 1
      /\ IF Osc!FirstRemote(m) THEN fAddress' = m.src /\ fSetDest' = FALSE
         ELSE UNCHANGED <<fAddress, fSetDest>>
      /\ dest' = (IF fSetDest /\ m.src # Osc!Localhost /\ dest = Osc!Localhost THEN m.src
                  ELSE dest)
      /\ replaced' = (replaced \/ /\ fSetDest /\ m.src # Osc!Localhost
                                  /\ dest \notin {Osc!Localhost, m.src})
      /\ todo' = [todo EXCEPT !["listener"] = Osc!Handler(m)]
      /\ expected' = Osc!Answer(m, fAddress') /\ replies' = <<>>
      /\ UNCHANGED <<option, done, phase, fPort, errPort, fState, buffer, inProgress, gXmit,
                     oscZone, local, savedip, sends, transmitted>>
  BY DEF Osc!ProcessMessage
<1>2. m.src \in Osc!Hosts
  BY MessageFields
<1>3. {fAddress', dest'} \subseteq Osc!Hosts /\ {fSetDest', replaced'} \subseteq BOOLEAN
  BY <1>1, <1>2 DEF Osc!TypeOK
<1>4. PICK d \in Osc!Hosts : d = fAddress'
  BY <1>3
<1>5. /\ Osc!Handler(m) \in Seq(Osc!Steps) /\ Len(Osc!Handler(m)) \in Nat \ {0}
      /\ Osc!Balanced(Osc!Handler(m))
      /\ \A k \in 1..Len(Osc!Handler(m)) :
           Osc!Handler(m)[k].op = "dest" => m.kind = "desthost"
  BY HandlerBalanced
<1>6. Sent(Osc!Handler(m), Osc!Answer(m, d), d) /\ Osc!Answer(m, d) \in Seq(Osc!Packets)
  BY AnswerSent
<1>7. expected' = Osc!Answer(m, d)
  BY <1>1, <1>4
<1>8. /\ todo' \in [Osc!Threads -> Seq(Osc!Steps)] /\ todo'["listener"] = Osc!Handler(m)
      /\ todo'["ui"] = todo["ui"] /\ done' = done /\ phase' = phase
  BY <1>1, <1>5 DEF Osc!TypeOK, Osc!Threads
<1>9. /\ option \in Options /\ option.messages \in Nat /\ option.sends \in Nat
      /\ received \in 0..option.messages
  BY DEF Osc!TypeOK, Osc!OSCAssumption
<1>10. Osc!TypeOK'
  <2>1. received' \in 0..option'.messages
    BY <1>1, <1>9
  <2>2. {expected', replies'} \subseteq Seq(Osc!Packets)
    BY <1>1, <1>6, <1>7
  <2> QED
    BY <1>1, <1>3, <1>8, <2>1, <2>2 DEF Osc!TypeOK
<1>11. /\ Osc!DestInv' /\ Osc!InUse' = fAddress'
       /\ todo["listener"] = <<>> /\ done["listener"] = 0
  BY Controls, DestReceived DEF Osc!ListenerInv
<1>14. (Osc!SendsAnswer(Listening, expected))'
  <2> DEFINE q == Osc!Handler(m)
             e == Osc!Answer(m, d)
  <2>1. ASSUME NEW j \in 1..Len(e)
        PROVE  /\ Osc!Place(j) <= Len(q) /\ q[Osc!Place(j)].op = "emit"
               /\ e[j] = Sends(q[1].host, q[Osc!Place(j)], d)
               /\ q[Osc!Place(j)] \in Osc!Steps
    <3>1. /\ Osc!Place(j) <= Len(q) /\ q[Osc!Place(j)].op = "emit"
          /\ e[j] = Sends(q[1].host, q[Osc!Place(j)], d)
      BY <1>6 DEF Sent
    <3>2. Osc!Place(j) \in Nat \ {0}
      BY <1>6 DEF Osc!Place
    <3> DEFINE k == Osc!Place(j)
    <3>3. k \in 1..Len(q)
      BY <1>5, <3>1, <3>2
    <3> HIDE DEF k, q
    <3>4. q[k] \in Osc!Steps
      BY <1>5, <3>3, ElementOfSeq DEF q
    <3> QED
      BY <3>1, <3>4 DEF k
  <2>2. ASSUME NEW s \in Osc!Steps, s.op = "emit"
        PROVE  Osc!Value(s.addr, s.what, Osc!InUse)' = Osc!Value(s.addr, s.what, d)
    BY <1>1, <1>4, <1>11 DEF Osc!Value, Osc!Argument, Osc!Steps, Osc!Attributes
  <2>3. Listening' = q /\ expected' = e
    BY <1>7, <1>8 DEF Listening
  <2>4. ASSUME NEW j \in 1..Len(e)
        PROVE  (LET s == Listening[Osc!Place(j)] IN
                /\ Osc!Place(j) <= Len(Listening) /\ Listening[Osc!Place(j)].op = "emit"
                /\ expected[j] = Osc!Packet(Listening[1].host, s.addr, s.what,
                                            Osc!Value(s.addr, s.what, Osc!InUse)))'
    <3>1. PICK s \in Osc!Steps : s = q[Osc!Place(j)]
      BY <2>1
    <3>2. s.op = "emit" /\ e[j] = Sends(q[1].host, s, d) /\ Osc!Place(j) <= Len(q)
      BY <2>1, <3>1
    <3>3. Osc!Value(s.addr, s.what, Osc!InUse)' = Osc!Value(s.addr, s.what, d)
      BY <2>2, <3>2
    <3>4. e[j] = Osc!Packet(q[1].host, s.addr, s.what, Osc!Value(s.addr, s.what, Osc!InUse)')
      BY <3>2, <3>3 DEF Sends
    <3>5. s = (Listening[Osc!Place(j)])'
      BY <2>3, <3>1
    <3> HIDE DEF q, e
    <3> QED
      BY <2>3, <3>2, <3>4, <3>5
  <2>5. \A k \in 1..Len(q) : q[k].op = "emit" => \E j \in 1..Len(e) : k = Osc!Place(j)
    BY <1>6 DEF Sent
  <2> HIDE DEF q, e
  <2> QED
    BY <2>3, <2>4, <2>5 DEF Osc!SendsAnswer
<1>15. ASSUME NEW j \in 1..Len(Osc!Answer(m, d))
       PROVE  /\ Osc!Whole(Osc!Answer(m, d)[j])
              /\ j \in Nat \ {0} /\ Osc!Place(j) \in Nat /\ Osc!Place(j) > 1
  <2> DEFINE q == Osc!Handler(m)
             e == Osc!Answer(m, d)
             k == Osc!Place(j)
  <2>1. j \in Nat \ {0}
    BY <1>6
  <2>2. k \in Nat /\ k > 1
    BY <2>1 DEF Osc!Place
  <2>3. k <= Len(q) /\ q[k].op = "emit" /\ e[j] = Sends(q[1].host, q[k], d)
    BY <1>6 DEF Sent
  <2>4. k \in 1..Len(q) /\ 1 \in 1..Len(q)
    BY <1>5, <2>2, <2>3
  <2> HIDE DEF q, e, k
  <2>5. q[k] \in Osc!Steps /\ q \in Seq(Osc!Steps)
    BY <1>5, <2>4, ElementOfSeq DEF q
  <2>6. q[1].host \in Osc!Hosts
    <3>1. CASE m.kind \notin Osc!Answered
      <4>1. Len(q) = 1
        BY <3>1, SetHandler DEF q
      <4> QED
        BY <1>5, <2>2, <2>3, <4>1
    <3>2. CASE m.kind \in Osc!Answered /\ ForRoot(m)
      <4>1. q = Osc!rootGet(m.src)
        BY <3>2, AnswerHandler DEF q
      <4>2. q[1] = Osc!attributesGet(m.src)[1]
        BY <1>2, <4>1, RootSteps
      <4>3. q[1] = [op |-> "redirect", host |-> m.src]
        BY <4>2, AttributeSteps
      <4> QED
        BY <1>2, <4>3
    <3>3. CASE m.kind \in Osc!Answered /\ ~ForRoot(m)
      <4> DEFINE s == Single(m)
      <4>1. q = Osc!To(m.src, <<s>>)
        BY <3>3, AnswerHandler DEF q
      <4> HIDE DEF s
      <4>2. q[1] = [op |-> "redirect", host |-> m.src]
        BY <4>1, ThreeSteps
      <4> QED
        BY <1>2, <4>2
    <3> QED
      BY <3>1, <3>2, <3>3
  <2>7. Osc!Whole(Sends(q[1].host, q[k], d))
    BY <2>3, <2>5, <2>6, SentPackets
  <2> QED
    BY <2>1, <2>2, <2>3, <2>7 DEF k, e
<1>16. Osc!ListenerInv'
  <2>1. Osc!Handler(m) # <<>>
    BY <1>5
  <2>5. Len(replies') = 0 /\ Len(expected') \in Nat
    BY <1>1, <1>6, <1>7
  <2>6. \A j \in 1..Len(expected') :
          /\ Osc!Whole(expected'[j]) /\ ~(j <= Len(replies'))
          /\ ~(Osc!Place(j) <= done'["listener"]) /\ Osc!Place(j) # done'["listener"] + 1
    BY <1>7, <1>8, <1>11, <1>15, <2>5
  <2>7. Osc!SendsAnswer(todo["listener"], expected)'
    BY <1>14 DEF Listening
  <2> QED
    BY <1>8, <1>11, <2>1, <2>5, <2>6, <2>7 DEF Osc!ListenerInv
<1>17. option.sends > 0 => /\ ~fSetDest' /\ ~replaced' /\ dest' = dest /\ fAddress' = fAddress
                           /\ \A k \in 1..Len(Osc!Handler(m)) :
                                Osc!Handler(m)[k].op \notin {"emit", "redirect", "dest"}
  <2> SUFFICES ASSUME option.sends > 0
               PROVE  /\ ~fSetDest' /\ ~replaced' /\ dest' = dest /\ fAddress' = fAddress
                      /\ \A k \in 1..Len(Osc!Handler(m)) :
                           Osc!Handler(m)[k].op \notin {"emit", "redirect", "dest"}
    OBVIOUS
  <2>1. ~fSetDest /\ ~replaced
    BY DEF Osc!UiInv
  <2>2. m.kind \notin Osc!Answered /\ m.kind # "desthost"
    BY <1>1, <1>9 DEF Osc!Sound
  <2>3. Len(Osc!Handler(m)) = 1 /\ Osc!Handler(m)[1].op \in {"store", "port", "err", "xmit"}
    BY <2>2, SetHandler
  <2>4. \A k \in 1..Len(Osc!Handler(m)) : k = 1
    BY <2>3
  <2> QED
    BY <1>1, <2>1, <2>3, <2>4 DEF Osc!FirstRemote
<1>18. Osc!UiInv'
  <2>1. Osc!Whole(transmitted') /\ Osc!TransmittedToDest'
    BY <1>1, <1>9, <1>17 DEF Osc!UiInv, Osc!TransmittedToDest
  <2> QED
    BY <1>1, <1>8, <1>17, <2>1 DEF Osc!UiInv
<1>19. Osc!Message("listener")'
  <2>1. phase["listener"] = "start"
    BY <1>1 DEF Osc!Message, Osc!Step
  <2> QED
    BY <1>1, <2>1 DEF Osc!Message
<1>20. Osc!Message("ui")'
  <2>1. todo["ui"] # <<>> => option.sends > 0
    BY <1>9 DEF Osc!UiInv
  <2>2. todo["ui"] # <<>> => UNCHANGED <<inProgress, fState, buffer, fAddress>>
    BY <1>1, <1>17, <2>1
  <2> QED
    BY <1>1, <1>8, <2>2, UiMessageKept
<1> QED
  BY <1>10, <1>16, <1>18, <1>19, <1>20

\* The user interface thread has a value to transmit.
LEMMA SendOscKeeps ==
  ASSUME Osc!OSCAssumption, Osc!Inv, NEW n \in Osc!Params, Osc!sendOSC(n)
  PROVE  Osc!Inv'
<1> USE DEF Osc!Inv
<1> DEFINE s == Osc!Emit(n, "value")
<1>1. /\ Osc!Idle("ui") /\ sends < option.sends /\ sends' = sends + 1
      /\ todo' = [todo EXCEPT !["ui"] = <<s>>]
      /\ UNCHANGED <<option, done, phase, Osc!stream, Osc!state, local, savedip, received,
                     expected, replies, transmitted>>
  BY DEF Osc!sendOSC
<1>2. s \in Osc!Steps /\ s.op = "emit"
  <2>1. s \in [op : {"emit"}, addr : Osc!Params, what : {"value"}]
    BY DEF Osc!Emit
  <2> QED
    BY <2>1 DEF Osc!Steps
<1> HIDE DEF s
<1>3. <<s>> \in Seq(Osc!Steps) /\ Len(<<s>>) = 1 /\ <<s>>[1] = s
  BY <1>2
<1>4. /\ todo' \in [Osc!Threads -> Seq(Osc!Steps)] /\ todo'["ui"] = <<s>>
      /\ Listening' = Listening /\ done' = done /\ phase' = phase
  BY <1>1, <1>3 DEF Osc!TypeOK, Osc!Threads, Listening
<1>5. option \in Options /\ option.sends \in Nat /\ sends \in 0..option.sends
  BY DEF Osc!TypeOK, Osc!OSCAssumption
<1>6. sends' \in 0..option'.sends /\ option.sends > 0
  BY <1>1, <1>5
<1>7. Osc!TypeOK'
  BY <1>1, <1>4, <1>6 DEF Osc!TypeOK, Osc!stream, Osc!state
<1>8. Osc!ListenerInv'
  BY <1>1, <1>4, ListenerQuiet DEF Osc!stream, Osc!state
<1>9. Osc!UiInv'
  <2>1. (option.sends > 0 =>
           /\ ~fSetDest /\ ~replaced
           /\ \A k \in 1..Len(Listening) :
                Listening[k].op \notin {"emit", "redirect", "dest"})'
    BY <1>1, <1>4 DEF Osc!UiInv, Listening, Osc!state
  <2>2. Osc!Whole(transmitted') /\ Osc!TransmittedToDest'
    BY <1>1 DEF Osc!UiInv, Osc!TransmittedToDest, Osc!state
  <2> QED
    BY <1>1, <1>2, <1>3, <1>4, <1>6, <2>1, <2>2 DEF Osc!UiInv, Listening
<1>10. phase["ui"] = "start"
  BY <1>1 DEF Osc!Message, Osc!Step
<1>11. Osc!Message("ui")'
  BY <1>4, <1>10 DEF Osc!Message
<1>12. Osc!Message("listener")'
  <2>1. CASE phase["listener"] = "start"
    BY <1>4, <2>1 DEF Osc!Message
  <2>2. CASE phase["listener"] # "start"
    <3>1. Osc!Step("listener", "emit")
      BY <2>2 DEF Osc!Message
    <3> QED
      BY <1>6, <3>1, AnsweringAlone DEF Osc!Step
  <2> QED
    BY <2>1, <2>2
<1> QED
  BY <1>7, <1>8, <1>9, <1>11, <1>12

\* The initial states of the stream.
LEMMA OscStarts ==
  ASSUME Osc!OSCAssumption, Osc!Sound, Osc!Init
  PROVE  Osc!Inv
<1>1. /\ option \in Options /\ option.desthost \in Osc!Hosts /\ option.xmit \in {0, 1}
      /\ option.messages \in Nat /\ option.sends \in Nat
  BY DEF Osc!Init, Osc!OSCAssumption
<1>2. /\ todo["listener"] = <<>> /\ todo["ui"] = <<>> /\ done["listener"] = 0 /\ done["ui"] = 0
      /\ phase["listener"] = "start" /\ phase["ui"] = "start"
      /\ expected = <<>> /\ replies = <<>> /\ transmitted = Osc!NoPacket
      /\ fAddress = option.desthost /\ dest = option.desthost /\ replaced = FALSE
      /\ fSetDest = (option.desthost = Osc!Localhost)
  BY DEF Osc!Init, Osc!Threads
<1>3. Osc!Localhost \in Osc!Hosts
  BY DEF Osc!OSCAssumption, Osc!Localhost, Osc!Hosts
<1>4. /\ <<>> \in Seq(Osc!Arguments) /\ <<>> \in Seq(Osc!Packets) /\ <<>> \in Seq(Osc!Steps)
      /\ Len(<<>>) = 0
  OBVIOUS
<1>5. Osc!NoPacket \in Osc!Packets /\ Osc!Whole(Osc!NoPacket)
  BY <1>3, <1>4 DEF Osc!NoPacket, Osc!Packets, Osc!Addresses, Osc!Whole
<1>6. buffer \in [addr : Osc!Addresses, args : Seq(Osc!Arguments)]
  <2>1. buffer = [addr |-> Osc!Root, args |-> <<>>] /\ Osc!Root \in Osc!Addresses
    BY DEF Osc!Init, Osc!Addresses
  <2> QED
    BY <1>4, <2>1
<1>7. Osc!TypeOK
  <2>1. todo \in [Osc!Threads -> Seq(Osc!Steps)] /\ done \in [Osc!Threads -> Nat]
    BY <1>4 DEF Osc!Init
  <2>2. /\ phase \in [Osc!Threads -> {"start", "args", "end", "send", "idle"}]
        /\ local \in [Osc!Threads -> Osc!Hosts]
    BY <1>3 DEF Osc!Init
  <2>3. {fAddress, savedip, dest} \subseteq Osc!Hosts /\ {fPort, errPort} \subseteq Osc!Ports
    BY <1>1, <1>3 DEF Osc!Init, Osc!Ports
  <2>4. /\ fState \in {"kIdle", "kInProgress"} /\ oscZone \in [Osc!Params -> {0, 1}]
        /\ {inProgress, fSetDest, replaced} \subseteq BOOLEAN /\ gXmit \in {0, 1}
    BY <1>1 DEF Osc!Init
  <2>5. received \in 0..option.messages /\ sends \in 0..option.sends
    BY <1>1 DEF Osc!Init
  <2> QED
    BY <1>1, <1>2, <1>4, <1>5, <1>6, <2>1, <2>2, <2>3, <2>4, <2>5 DEF Osc!TypeOK
<1>8. Osc!ListenerInv
  <2>1. Osc!DestInv
    BY <1>2, <1>4, EmptyBalanced DEF Osc!DestInv, Osc!InUse
  <2>2. \A k \in 1..Len(<<>>) : FALSE
    BY <1>4
  <2> QED
    BY <1>2, <1>4, <2>1, <2>2 DEF Osc!ListenerInv
<1>9. Osc!UiInv
  <2>1. option.sends > 0 => ~fSetDest
    BY <1>1, <1>2 DEF Osc!Sound
  <2>2. \A k \in 1..Len(<<>>) : FALSE
    BY <1>4
  <2> QED
    BY <1>2, <1>5, <2>1, <2>2 DEF Osc!UiInv, Osc!TransmittedToDest
<1>10. Osc!Message("listener") /\ Osc!Message("ui")
  BY <1>2 DEF Osc!Message
<1> QED
  BY <1>7, <1>8, <1>9, <1>10 DEF Osc!Inv

\* An application stays what it is.
LEMMA OptionKept == [Osc!Next]_(Osc!vars) => option' = option
  BY DEF Osc!Next, Osc!vars, Osc!ProcessMessage, Osc!sendOSC, Osc!Thread, Osc!start, Osc!args,
         Osc!end, Osc!send, Osc!idle, Osc!redirect, Osc!restore, Osc!setAttribute, Osc!Finished

\* What holds of the stream that the listener and the user interface share, in the
\* applications whose threads do not get in each other's way: one step per action of the
\* threads.
THEOREM OscInvariance == Osc!OSCAssumption => (Osc!Spec /\ Osc!Sound => []Osc!Inv)
<1> SUFFICES ASSUME Osc!OSCAssumption PROVE Osc!Spec /\ Osc!Sound => []Osc!Inv
  OBVIOUS
<1>1. Osc!Init /\ Osc!Sound => Osc!Inv
  BY OscStarts
<1>3. Osc!Sound /\ [Osc!Next]_(Osc!vars) => Osc!Sound'
  BY OptionKept DEF Osc!Sound
<1>2. Osc!Inv /\ Osc!Sound /\ [Osc!Next]_(Osc!vars) => Osc!Inv'
  <2> SUFFICES ASSUME Osc!Inv, Osc!Sound, [Osc!Next]_(Osc!vars) PROVE Osc!Inv'
    OBVIOUS
  <2>1. ASSUME NEW m \in Osc!Messages, Osc!ProcessMessage(m) PROVE Osc!Inv'
    BY <2>1, ProcessKeeps
  <2>2. ASSUME NEW n \in Osc!Params, Osc!sendOSC(n) PROVE Osc!Inv'
    BY <2>2, SendOscKeeps
  <2>3. ASSUME NEW t \in Osc!Threads, Osc!start(t) PROVE Osc!Inv'
    BY <2>3, StartKeeps
  <2>4. ASSUME NEW t \in Osc!Threads, Osc!args(t) PROVE Osc!Inv'
    BY <2>4, ArgsKeeps
  <2>5. ASSUME NEW t \in Osc!Threads, Osc!end(t) PROVE Osc!Inv'
    BY <2>5, EndKeeps
  <2>6. ASSUME NEW t \in Osc!Threads, Osc!send(t) PROVE Osc!Inv'
    BY <2>6, UiSendKeeps, ListenerSendKeeps DEF Osc!Threads
  <2>7. ASSUME NEW t \in Osc!Threads, Osc!idle(t) PROVE Osc!Inv'
    BY <2>7, UiIdleKeeps, ListenerIdleKeeps DEF Osc!Threads
  <2>8. CASE Osc!redirect
    BY <2>8, RedirectKeeps
  <2>9. CASE Osc!restore
    BY <2>9, RestoreKeeps
  <2>10. CASE Osc!setAttribute
    BY <2>10, SetKeeps
  <2>11. CASE UNCHANGED Osc!vars
    <3>1. UNCHANGED <<option, fAddress, fPort, errPort, fState, buffer, inProgress, fSetDest,
                      gXmit, oscZone, dest, replaced, todo, done, phase, local, savedip,
                      received, sends,
                      expected, replies, transmitted>>
      BY <2>11 DEF Osc!vars, Osc!stream, Osc!state, Osc!control
    <3>2. Osc!TypeOK'
      BY <3>1 DEF Osc!Inv, Osc!TypeOK
    <3>3. Osc!ListenerInv'
      BY <3>1, ListenerQuiet DEF Osc!Inv, Listening
    <3>4. Osc!UiInv'
      BY <3>1, UiKept DEF Osc!Inv, Listening
    <3>5. Osc!Message("ui")'
      BY <3>1, UiMessageKept DEF Osc!Inv
    <3>6. Osc!Message("listener")'
      BY <3>1 DEF Osc!Inv, Osc!Message, Osc!Step, Osc!Idle, Osc!Now, Osc!Argument
    <3> QED
      BY <3>2, <3>3, <3>4, <3>5, <3>6 DEF Osc!Inv
  <2>12. CASE Osc!Finished
    BY <2>11, <2>12 DEF Osc!Finished
  <2> QED
    BY <2>1, <2>2, <2>3, <2>4, <2>5, <2>6, <2>7, <2>8, <2>9, <2>10, <2>11, <2>12
       DEF Osc!Next, Osc!Thread
<1> QED
  BY <1>1, <1>2, <1>3, PTL DEF Osc!Spec

\* The destination, whatever the stream is used for: the listener has ended, or its
\* destination is where its steps leave it.
Placed == Controlled /\ (Osc!Step("listener", "dead") \/ Osc!DestInv)

\* A listener that is about to take a step has not ended.
LEMMA NotDead ==
  ASSUME Placed, Osc!Now("listener").op # "dead"
  PROVE  Osc!DestInv
  BY DEF Placed, Osc!Step

\* A step that leaves the listener and the destination alone keeps either.
LEMMA PlacedQuiet ==
  ASSUME Placed, Controlled', Listening' = Listening, done'["listener"] = done["listener"],
         UNCHANGED <<fAddress, savedip, dest, replaced>>
  PROVE  Placed'
<1>1. Osc!Step("listener", "dead") => Osc!Step("listener", "dead")'
  BY DEF Osc!Step, Osc!Idle, Osc!Now, Listening
<1>2. Osc!DestInv => Osc!DestInv'
  BY DestQuiet
<1> QED
  BY <1>1, <1>2 DEF Placed

\* Sending a message, by either thread, leaves the destination alone, or ends the listener.
LEMMA ThreadPlaced ==
  ASSUME Placed, NEW t \in Osc!Threads, Osc!Thread(t)
  PROVE  Placed'
<1>1. Controlled /\ Osc!Step(t, "emit") /\ UNCHANGED <<fAddress, savedip, dest, replaced>>
  BY DEF Placed, Osc!Thread, Osc!start, Osc!args, Osc!end, Osc!send, Osc!idle, Osc!Sending,
         Osc!stream, Osc!state
<1>2. ASSUME NEW ph \in Phases, Osc!Phase(t, ph) PROVE Placed'
  <2>1. Controlled' /\ todo' = todo /\ done' = done
    BY <1>1, <1>2, PhaseFacts DEF Controlled
  <2> QED
    BY <1>1, <2>1, PlacedQuiet DEF Listening
<1>3. CASE Osc!Done(t)
  <2>1. Controlled'
    BY <1>1, <1>3, DoneFacts DEF Controlled
  <2>2. CASE t = "ui"
    <3>1. Listening' = Listening /\ done'["listener"] = done["listener"]
      BY <1>1, <1>3, <2>2, DoneFacts DEF Osc!Threads, Listening
    <3> QED
      BY <1>1, <2>1, <3>1, PlacedQuiet
  <2>3. CASE t = "listener"
    <3>1. Osc!DestInv'
      BY <1>1, <1>3, <2>3, NotDead, DestEmitted DEF Osc!Step
    <3> QED
      BY <2>1, <3>1 DEF Placed
  <2> QED
    BY <2>2, <2>3 DEF Osc!Threads
<1>4. ASSUME todo' = [todo EXCEPT ![t] = <<[op |-> "dead"]>>], done' = [done EXCEPT ![t] = 0],
             phase' = phase
      PROVE  Placed'
  <2> DEFINE d == [op |-> "dead"]
  <2>1. d \in Osc!Steps /\ d.op = "dead"
    BY DEF Osc!Steps
  <2> HIDE DEF d
  <2>2. <<d>> \in Seq(Osc!Steps) /\ <<d>>[1] = d /\ <<d>> # <<>>
    BY <2>1
  <2>3. /\ todo' = [todo EXCEPT ![t] = <<d>>] /\ todo \in [Osc!Threads -> Seq(Osc!Steps)]
        /\ done \in [Osc!Threads -> Nat]
    BY <1>1, <1>4 DEF Controlled, d
  <2>4. /\ Controlled' /\ todo'[t] = <<d>> /\ done'[t] = 0
        /\ \A o \in Osc!Threads \ {t} : todo'[o] = todo[o] /\ done'[o] = done[o]
    BY <1>1, <1>4, <2>2, <2>3 DEF Controlled
  <2>5. CASE t = "ui"
    <3>1. Listening' = Listening /\ done'["listener"] = done["listener"]
      BY <2>4, <2>5 DEF Osc!Threads, Listening
    <3> QED
      BY <1>1, <2>4, <3>1, PlacedQuiet
  <2>6. CASE t = "listener"
    <3>1. Osc!Step("listener", "dead")'
      BY <2>1, <2>2, <2>4, <2>6 DEF Osc!Step, Osc!Idle, Osc!Now
    <3> QED
      BY <2>4, <3>1 DEF Placed
  <2> QED
    BY <2>5, <2>6 DEF Osc!Threads
<1>5. "args" \in Phases /\ "end" \in Phases /\ "send" \in Phases /\ "idle" \in Phases
  BY DEF Phases
<1>6. CASE Osc!start(t)
  BY <1>2, <1>5, <1>6 DEF Osc!start
<1>7. CASE Osc!args(t)
  BY <1>2, <1>5, <1>7 DEF Osc!args
<1>8. CASE Osc!end(t)
  BY <1>2, <1>3, <1>5, <1>8 DEF Osc!end
<1>9. CASE Osc!send(t)
  BY <1>2, <1>4, <1>5, <1>9 DEF Osc!send
<1>10. CASE Osc!idle(t)
  BY <1>3, <1>10 DEF Osc!idle
<1> QED
  BY <1>6, <1>7, <1>8, <1>9, <1>10 DEF Osc!Thread

\* The destination is kept by every application, whatever its options and the messages it
\* receives: one step per action of the threads.
LEMMA DestInvariance == Osc!OSCAssumption => (Osc!Spec => []Placed)
<1> SUFFICES ASSUME Osc!OSCAssumption PROVE Osc!Spec => []Placed
  OBVIOUS
<1>1. Osc!Init => Placed
  <2> SUFFICES ASSUME Osc!Init PROVE Placed
    OBVIOUS
  <2>1. /\ todo["listener"] = <<>> /\ done["listener"] = 0 /\ Len(<<>>) = 0
        /\ fAddress = dest /\ <<>> \in Seq(Osc!Steps)
    BY DEF Osc!Init, Osc!Threads
  <2>2. Osc!DestInv
    BY <2>1, EmptyBalanced DEF Osc!DestInv, Osc!InUse
  <2> QED
    BY <2>1, <2>2 DEF Placed, Controlled, Phases, Osc!Init
<1>2. Placed /\ [Osc!Next]_(Osc!vars) => Placed'
  <2> SUFFICES ASSUME Placed, [Osc!Next]_(Osc!vars) PROVE Placed'
    OBVIOUS
  <2>0. Controlled
    BY DEF Placed
  <2>1. ASSUME NEW m \in Osc!Messages, Osc!ProcessMessage(m) PROVE Placed'
    <3>1. Osc!DestInv
      BY <2>1 DEF Placed, Osc!Step, Osc!ProcessMessage
    <3>2. /\ Osc!DestInv' /\ todo' \in [Osc!Threads -> Seq(Osc!Steps)]
          /\ done' = done /\ phase' = phase
      BY <2>0, <2>1, <3>1, DestReceived
    <3> QED
      BY <2>0, <3>2 DEF Placed, Controlled
  <2>2. ASSUME NEW n \in Osc!Params, Osc!sendOSC(n) PROVE Placed'
    <3> DEFINE s == Osc!Emit(n, "value")
    <3>1. s \in [op : {"emit"}, addr : Osc!Params, what : {"value"}]
      BY DEF Osc!Emit
    <3>2. s \in Osc!Steps
      BY <3>1 DEF Osc!Steps
    <3>3. /\ todo' = [todo EXCEPT !["ui"] = <<s>>] /\ done' = done /\ phase' = phase
          /\ UNCHANGED <<fAddress, savedip, dest, replaced>>
      BY <2>2 DEF Osc!sendOSC, Osc!stream, Osc!state
    <3> HIDE DEF s
    <3>4. <<s>> \in Seq(Osc!Steps)
      BY <3>2
    <3>5. Controlled' /\ Listening' = Listening
      BY <2>0, <3>3, <3>4 DEF Controlled, Osc!Threads, Listening
    <3> QED
      BY <3>3, <3>5, PlacedQuiet
  <2>3. ASSUME NEW t \in Osc!Threads, Osc!Thread(t) PROVE Placed'
    BY <2>3, ThreadPlaced
  <2>4. ASSUME Osc!Done("listener") PROVE Controlled'
    BY <2>0, <2>4, DoneFacts DEF Controlled, Osc!Threads
  <2>5. CASE Osc!redirect
    <3>1. Osc!Done("listener") /\ Osc!Now("listener").op # "dead"
      BY <2>5 DEF Osc!redirect, Osc!Step
    <3>2. Osc!DestInv'
      BY <2>0, <2>5, <3>1, NotDead, DestRedirected
    <3> QED
      BY <2>4, <3>1, <3>2 DEF Placed
  <2>6. CASE Osc!restore
    <3>1. Osc!Done("listener") /\ Osc!Now("listener").op # "dead"
      BY <2>6 DEF Osc!restore, Osc!Step
    <3>2. Osc!DestInv'
      BY <2>0, <2>6, <3>1, NotDead, DestRestored
    <3> QED
      BY <2>4, <3>1, <3>2 DEF Placed
  <2>7. CASE Osc!setAttribute
    <3>1. Osc!Done("listener") /\ Osc!Now("listener").op # "dead"
      BY <2>7 DEF Osc!setAttribute
    <3>2. Osc!DestInv'
      BY <2>0, <2>7, <3>1, NotDead, DestSet
    <3> QED
      BY <2>4, <3>1, <3>2 DEF Placed
  <2>8. CASE UNCHANGED Osc!vars
    <3>1. UNCHANGED <<todo, done, phase, fAddress, savedip, dest, replaced>>
      BY <2>8 DEF Osc!vars, Osc!stream, Osc!state, Osc!control
    <3> QED
      BY <2>0, <3>1, PlacedQuiet DEF Controlled, Listening
  <2>9. CASE Osc!Finished
    BY <2>8, <2>9 DEF Osc!Finished
  <2> QED
    BY <2>1, <2>2, <2>3, <2>5, <2>6, <2>7, <2>8, <2>9 DEF Osc!Next
<1> QED
  BY <1>1, <1>2, PTL DEF Osc!Spec

\* A behaviour whose part is "osc" is one of the root of the OSC tree.
LEMMA OscBehaviour == Spec => ([](part = "osc") /\ Osc!Spec) \/ []~(part = "osc")
<1>1. Init /\ part = "osc" => Osc!Init
  BY DEF Init
<1>2. part = "osc" /\ [Next]_vars => (part = "osc")' /\ [Osc!Next]_(Osc!vars)
  BY DEF Next, Alone, vars, rootVars, Osc!vars, Osc!stream, Osc!state, Osc!control
<1>3. ~(part = "osc") /\ [Next]_vars => ~(part = "osc")'
  BY DEF Next, Alone, vars
<1> QED
  BY <1>1, <1>2, <1>3, PTL DEF Spec, Osc!Spec

\* An application is of the sound ones from its start to its end, or of the others.
LEMMA SoundOrNot == Osc!Spec => (Osc!Sound \/ []~Osc!Sound)
<1>1. ~Osc!Sound /\ [Osc!Next]_(Osc!vars) => ~Osc!Sound'
  BY OptionKept DEF Osc!Sound
<1> QED
  BY <1>1, PTL DEF Osc!Spec

\* Between two messages the stream points to the destination asked for, whatever was
\* answered, set or transmitted in between, unless the first remote host has replaced one
\* that a message had set; and what the user interface transmits goes there in every
\* application that was given a destination, answers nothing and is not told another
\* (OSCListener::ProcessMessage, RootNode::hello and get, sendOSC).
THEOREM DestIsKeptHolds == Spec => []DestIsKept
<1>1. Osc!Spec => []Placed
  BY OscAssumption, DestInvariance
<1>2. Osc!Spec /\ Osc!Sound => []Osc!Inv
  BY OscAssumption, OscInvariance
<1>3. Placed => Osc!DestIsKept /\ (Osc!Step("listener", "dead") \/ Osc!DestInv)
  <2> SUFFICES ASSUME Placed, todo["listener"] = <<>>, ~replaced PROVE fAddress = dest
    BY DEF Placed, Osc!DestIsKept, Osc!Idle
  <2>1. Osc!DestInv
    BY DEF Placed, Osc!Step, Osc!Idle
  <2>2. done["listener"] \in Nat /\ Len(<<>>) = 0
    BY DEF Placed, Controlled, Osc!Threads
  <2>3. done["listener"] = 0
    BY <2>1, <2>2 DEF Osc!DestInv
  <2> QED
    BY <2>1, <2>3, EmptyBalanced DEF Osc!DestInv, Osc!InUse
<1>4. ~(part = "osc") \/ (Placed /\ (~Osc!Sound \/ Osc!Inv)) => DestIsKept
  BY <1>3 DEF DestIsKept, Osc!Inv, Osc!UiInv
<1> QED
  BY <1>1, <1>2, <1>4, OscBehaviour, SoundOrNot, PTL

\* The packets sent for a request are exactly the answer promised, in its order and to the
\* host that asked, and a packet holds the arguments of one message (RootNode::accept,
\* MessageDriven::get, OSCStream::start and end), in every application that transmits no
\* value, or that was given a destination, answers nothing and is not told another.
THEOREM RepliesCompleteHolds == Spec => []RepliesComplete
<1>1. Osc!Spec /\ Osc!Sound => []Osc!Inv
  BY OscAssumption, OscInvariance
<1>2. Osc!Inv => Osc!RepliesComplete /\ Osc!PacketsWhole
  <2> SUFFICES ASSUME Osc!Inv PROVE Osc!RepliesComplete /\ Osc!PacketsWhole
    OBVIOUS
  <2>1. /\ replies \in Seq(Osc!Packets) /\ expected \in Seq(Osc!Packets)
        /\ Len(replies) \in Nat /\ Len(expected) \in Nat
    BY DEF Osc!Inv, Osc!TypeOK
  <2>2. /\ todo["listener"] = <<>> => Len(replies) = Len(expected)
        /\ Len(replies) <= Len(expected)
        /\ \A j \in 1..Len(expected) : /\ j <= Len(replies) => replies[j] = expected[j]
                                       /\ Osc!Whole(expected[j])
    BY DEF Osc!Inv, Osc!ListenerInv
  <2>3. \A k \in 1..Len(replies) : /\ k \in 1..Len(expected) /\ replies[k] = expected[k]
                                   /\ Osc!Whole(replies[k])
    BY <2>1, <2>2
  <2>4. ASSUME todo["listener"] = <<>> PROVE replies = expected
    BY <2>1, <2>2, <2>3, <2>4, SeqEqual
  <2> QED
    BY <2>3, <2>4 DEF Osc!RepliesComplete, Osc!PacketsWhole, Osc!Idle, Osc!Inv, Osc!UiInv
<1>3. ~(part = "osc") \/ ~Osc!Sound \/ Osc!Inv => RepliesComplete
  BY <1>2 DEF RepliesComplete
<1> QED
  BY <1>1, <1>3, OscBehaviour, SoundOrNot, PTL

-----------------------------------------------------------------------------
(***************************************************************************)
(* The search for a port, for any number of applications with room for all *)
(***************************************************************************)
\* The sets of OSCSetup are counted as those of this module.
LEMMA SetupCounts ==
  ASSUME NEW S
  PROVE  /\ Setup!IsFiniteSet(S) <=> IsFiniteSet(S)
         /\ Setup!Cardinality(S) = Cardinality(S)
BY DEF Setup!IsFiniteSet, IsFiniteSet, Setup!Cardinality, Cardinality

\* There are fewer applications than ports.
LEMMA RoomCounts ==
  ASSUME Setup!RoomForAll
  PROVE  /\ IsFiniteSet(Apps) /\ Cardinality(Apps) \in Nat
         /\ Cardinality(Apps) < MaxPort /\ Cardinality(Apps) <= MaxTries
<1>1. IsFiniteSet(Apps) /\ Setup!Cardinality(Apps) = Cardinality(Apps)
  BY SetupCounts DEF Setup!RoomForAll
<1>2. Cardinality(Apps) \in Nat
  BY <1>1, FS_CardinalityType
<1> QED
  BY <1>1, <1>2 DEF Setup!RoomForAll

\* How many applications have come how far.
LEMMA CrowdCounts ==
  Setup!Crowd <=> \A k \in 0..Cardinality(Apps) :
                    Setup!Beyond(k) # {}
                      => Cardinality(Setup!Beyond(k)) + k <= Cardinality(Apps)
BY SetupCounts DEF Setup!Crowd

\* The next port is one try further.
LEMMA NextRank ==
  ASSUME NEW a, NEW p \in Nat
  PROVE  /\ Setup!NextPort(a, p) \in Nat
         /\ Setup!Rank(Setup!NextPort(a, p)) = Setup!Rank(p) + 1
<1> DEFINE Found(n) == /\ n \notin {1, 2}
                       /\ \A k \in (p + 1)..(n - 1) : k \in {1, 2}
           m == IF p <= 2 THEN 3 ELSE p + 1
<1>1. m \in Nat /\ Setup!Rank(m) = Setup!Rank(p) + 1
  BY DEF Setup!Rank
<1>2. Setup!NextPort(a, p) = CHOOSE n \in {p + 1, p + 2, p + 3} : Found(n)
  BY DEF Setup!NextPort
<1>3. m \in {p + 1, p + 2, p + 3} /\ Found(m)
  OBVIOUS
<1>4. ASSUME NEW n \in {p + 1, p + 2, p + 3}, Found(n) PROVE n = m
  <2>1. CASE p <= 2
    <3>1. n \in Nat /\ n > p /\ n # 1 /\ n # 2
      BY <1>4
    <3>2. n >= 3
      BY <2>1, <3>1
    <3>3. n > 3 => 3 \in (p + 1)..(n - 1)
      BY <2>1, <3>1
    <3> QED
      BY <1>4, <2>1, <3>2, <3>3
  <2>2. CASE ~(p <= 2)
    <3>1. n > p + 1 => p + 1 \in (p + 1)..(n - 1) /\ p + 1 \notin {1, 2}
      BY <2>2
    <3> QED
      BY <1>4, <2>2, <3>1
  <2> QED
    BY <2>1, <2>2
<1> HIDE DEF Found, m
<1>5. Setup!NextPort(a, p) = m
  BY <1>2, <1>3, <1>4
<1> QED
  BY <1>1, <1>5

\* No application has come further than the others can push it.
LEMMA RankBounded ==
  ASSUME Setup!SetupAssumption, Setup!RoomForAll, Setup!TypeOK, Setup!Crowd,
         NEW a \in Apps, stage[a] # "off"
  PROVE  /\ Cardinality(Apps) \in Nat
         /\ Setup!Rank(port[a]) \in 0..(Cardinality(Apps) - 1)
         /\ port[a] \in Setup!Ports /\ port[a] <= Setup!Rank(port[a]) + 2
<1> DEFINE n == Cardinality(Apps)
           r == Setup!Rank(port[a])
<1>1. n \in Nat /\ IsFiniteSet(Apps)
  BY RoomCounts
<1>2. port[a] \in Nat
  BY DEF Setup!TypeOK
<1>3. r \in Nat /\ port[a] <= r + 2 /\ (port[a] <= 2 \/ r = port[a] - 2)
  BY <1>2 DEF Setup!Rank
<1>4. r < n
  <2> SUFFICES ASSUME r >= n PROVE FALSE
    BY <1>1, <1>3
  <2>1. a \in Setup!Beyond(n) /\ Setup!Beyond(n) \subseteq Apps
    BY DEF Setup!Beyond
  <2>2. Cardinality(Setup!Beyond(n)) + n <= n /\ n \in 0..n
    BY <1>1, <2>1, CrowdCounts
  <2>3. IsFiniteSet(Setup!Beyond(n)) /\ Cardinality(Setup!Beyond(n)) \in Nat
    BY <1>1, <2>1, FS_Subset, FS_CardinalityType
  <2>4. Cardinality(Setup!Beyond(n)) # 0
    BY <2>1, <2>3, FS_EmptySet
  <2> QED
    BY <1>1, <2>2, <2>3, <2>4
<1>5. MaxPort \in Nat /\ 2 <= MaxPort /\ n < MaxPort
  BY RoomCounts DEF Setup!SetupAssumption
<1> HIDE DEF n, r
<1>6. port[a] \in 0..MaxPort
  BY <1>1, <1>2, <1>3, <1>4, <1>5
<1> QED
  BY <1>1, <1>3, <1>4, <1>6 DEF n, r, Setup!Ports

\* Two applications at a port leave room for one of them to go on.
LEMMA RoomBeyond ==
  ASSUME Setup!RoomForAll, Setup!TypeOK, Setup!Crowd,
         NEW a \in Apps, NEW b \in Apps, a # b, stage[a] # "off", stage[b] # "off",
         port[a] = port[b], Setup!Rank(port[a]) \in 0..(Cardinality(Apps) - 1)
  PROVE  /\ Setup!Rank(port[a]) + 2 <= Cardinality(Apps)
         /\ Cardinality(Setup!Beyond(Setup!Rank(port[a]) + 1) \cup {a})
              + Setup!Rank(port[a]) + 1 <= Cardinality(Apps)
<1> DEFINE n == Cardinality(Apps)
           r == Setup!Rank(port[a])
           B == Setup!Beyond(r + 1)
<1>1. n \in Nat /\ IsFiniteSet(Apps)
  BY RoomCounts
<1>2. r \in Nat /\ r \in 0..n
  BY <1>1
<1>3. B \subseteq Apps /\ a \notin B /\ b \notin B
  BY <1>2 DEF Setup!Beyond
<1>4. ASSUME NEW c \in B PROVE c \in Setup!Beyond(r)
  <2>1. port[c] \in Nat
    BY <1>3, <1>4 DEF Setup!TypeOK
  <2>2. Setup!Rank(port[c]) \in Nat
    BY <2>1 DEF Setup!Rank
  <2> QED
    BY <1>2, <1>4, <2>2 DEF Setup!Beyond
<1>5. (B \cup {a}) \cup {b} \subseteq Setup!Beyond(r) /\ Setup!Beyond(r) \subseteq Apps
  BY <1>2, <1>4 DEF Setup!Beyond
<1>6. /\ IsFiniteSet(Setup!Beyond(r)) /\ IsFiniteSet(B) /\ Cardinality(B) \in Nat
      /\ Cardinality(Setup!Beyond(r)) \in Nat
  BY <1>1, <1>3, <1>5, FS_Subset, FS_CardinalityType
<1> HIDE DEF B
<1>7. IsFiniteSet(B \cup {a}) /\ Cardinality(B \cup {a}) = Cardinality(B) + 1
  BY <1>3, <1>6, FS_AddElement
<1>8. b \notin B \cup {a}
  BY <1>3
<1> HIDE DEF r
<1>9. Cardinality((B \cup {a}) \cup {b}) = Cardinality(B) + 2
  <2> DEFINE S == B \cup {a}
  <2>1. IsFiniteSet(S) /\ b \notin S /\ Cardinality(S) = Cardinality(B) + 1
    BY <1>7, <1>8
  <2> HIDE DEF S
  <2>2. Cardinality(S \cup {b}) = Cardinality(S) + 1
    BY <2>1, FS_AddElement
  <2>3. Cardinality(S \cup {b}) = Cardinality(B) + 2
    BY <1>6, <2>1, <2>2
  <2> QED
    BY <2>3 DEF S
<1>10. Cardinality((B \cup {a}) \cup {b}) <= Cardinality(Setup!Beyond(r))
  BY <1>5, <1>6, FS_Subset
<1>11. Cardinality(Setup!Beyond(r)) + r <= n
  BY <1>2, <1>5, CrowdCounts
<1> HIDE DEF n, r
<1>12. r + 2 <= n /\ Cardinality(B \cup {a}) + r + 1 <= n
  BY <1>1, <1>2, <1>6, <1>7, <1>9, <1>10, <1>11
<1> QED
  BY <1>12 DEF n, r, B

\* Where no application comes further, no more are beyond a point.
LEMMA BeyondShrinks ==
  ASSUME Setup!RoomForAll, Setup!Crowd, NEW k \in 0..Cardinality(Apps),
         Setup!Beyond(k)' \subseteq Setup!Beyond(k), Setup!Beyond(k)' # {}
  PROVE  Cardinality(Setup!Beyond(k)') + k <= Cardinality(Apps)
<1> DEFINE B == Setup!Beyond(k)
           C == Setup!Beyond(k)'
<1>1. B \subseteq Apps /\ B # {} /\ C \subseteq B
  BY DEF Setup!Beyond
<1>2. Cardinality(B) + k <= Cardinality(Apps)
  BY <1>1, CrowdCounts
<1> HIDE DEF B, C
<1>3. /\ IsFiniteSet(B) /\ IsFiniteSet(C) /\ Cardinality(C) <= Cardinality(B)
      /\ Cardinality(B) \in Nat /\ Cardinality(C) \in Nat
  BY <1>1, RoomCounts, FS_Subset, FS_CardinalityType
<1>4. Cardinality(C) + k <= Cardinality(Apps)
  BY <1>2, <1>3, RoomCounts
<1> QED
  BY <1>4 DEF C

\* A step after which an application is off, at a first port or where it was.
LEMMA CrowdStays ==
  ASSUME Setup!RoomForAll, Setup!TypeOK, Setup!TypeOK', Setup!Crowd, NEW a \in Apps,
         \A b \in Apps \ {a} : stage'[b] = stage[b] /\ port'[b] = port[b],
         \/ stage'[a] = "off" \/ port'[a] \in {0, 1}
         \/ stage[a] # "off" /\ port'[a] = port[a]
  PROVE  Setup!Crowd'
<1>1. ASSUME NEW k \in 0..Cardinality(Apps), Setup!Beyond(k)' # {}
      PROVE  Cardinality(Setup!Beyond(k)') + k <= Cardinality(Apps)
  <2>1. CASE k = 0
    <3>1. Setup!Beyond(k)' \subseteq Apps
      BY DEF Setup!Beyond
    <3> DEFINE C == Setup!Beyond(k)'
    <3>2. C \subseteq Apps
      BY <3>1
    <3> HIDE DEF C
    <3>3. Cardinality(C) <= Cardinality(Apps) /\ Cardinality(C) \in Nat
      BY <3>2, RoomCounts, FS_Subset, FS_CardinalityType
    <3>4. Cardinality(C) + k <= Cardinality(Apps)
      BY <2>1, <3>3
    <3> QED
      BY <3>4 DEF C
  <2>2. CASE k # 0
    <3>1. ASSUME NEW b \in Setup!Beyond(k)' PROVE b \in Setup!Beyond(k)
      <4>1. b \in Apps /\ stage'[b] # "off" /\ Setup!Rank(port'[b]) >= k
        BY <3>1 DEF Setup!Beyond, Setup!Rank
      <4>2. port'[b] \notin {0, 1}
        BY <2>2, <4>1, RoomCounts DEF Setup!Rank
      <4> QED
        BY <4>1, <4>2 DEF Setup!Beyond
    <3> QED
      BY <1>1, <3>1, BeyondShrinks
  <2> QED
    BY <2>1, <2>2
<1> QED
  BY <1>1, SetupCounts DEF Setup!Crowd

\* A step past a port another application listens to.
LEMMA CrowdPasses ==
  ASSUME Setup!SetupAssumption, Setup!RoomForAll, Setup!TypeOK, Setup!Crowd,
         NEW a \in Apps, NEW b \in Apps, a # b, stage[a] # "off", stage[b] # "off",
         port[a] = port[b], port'[a] = Setup!NextPort(a, port[a]),
         \A c \in Apps \ {a} : stage'[c] = stage[c] /\ port'[c] = port[c]
  PROVE  Setup!Crowd'
<1> DEFINE n == Cardinality(Apps)
           r == Setup!Rank(port[a])
<1>1. n \in Nat /\ r \in 0..(n - 1) /\ port[a] \in Nat
  BY RankBounded DEF Setup!TypeOK
<1>2. Setup!Rank(port'[a]) = r + 1
  BY <1>1, NextRank
<1>3. Cardinality(Setup!Beyond(r + 1) \cup {a}) + r + 1 <= n
  BY <1>1, RoomBeyond
<1>4. ASSUME NEW k \in 0..n, Setup!Beyond(k)' # {}
      PROVE  Cardinality(Setup!Beyond(k)') + k <= n
  <2>1. ASSUME NEW c \in Setup!Beyond(k)', c # a PROVE c \in Setup!Beyond(k)
    BY <2>1 DEF Setup!Beyond, Setup!Rank
  <2>2. a \in Setup!Beyond(k)' => k <= r + 1
    BY <1>2, <1>1 DEF Setup!Beyond, Setup!Rank
  <2>3. k <= r => a \in Setup!Beyond(k)
    BY <1>1 DEF Setup!Beyond
  <2>4. CASE k = r + 1
    <3> DEFINE C == Setup!Beyond(k)'
               D == Setup!Beyond(r + 1) \cup {a}
    <3>1. C \subseteq D /\ D \subseteq Apps
      BY <2>1, <2>4 DEF Setup!Beyond
    <3> HIDE DEF C, D
    <3>2. /\ IsFiniteSet(D) /\ Cardinality(D) \in Nat /\ Cardinality(C) \in Nat
          /\ Cardinality(C) <= Cardinality(D)
      BY <3>1, RoomCounts, FS_Subset, FS_CardinalityType
    <3>3. Cardinality(D) + r + 1 <= n
      BY <1>3 DEF D
    <3> HIDE DEF n, r
    <3>4. Cardinality(C) + k <= n
      BY <1>1, <2>4, <3>2, <3>3
    <3> QED
      BY <3>4 DEF C
  <2>5. CASE k # r + 1
    <3>1. a \in Setup!Beyond(k)' => a \in Setup!Beyond(k)
      BY <1>1, <2>2, <2>3, <2>5
    <3> QED
      BY <1>4, <2>1, <3>1, BeyondShrinks
  <2> QED
    BY <2>4, <2>5
<1> QED
  BY <1>4, SetupCounts DEF Setup!Crowd

\* At the call of the listener an application finds a socket, and its port is free or
\* another application listens to it.
LEMMA ListenerCall ==
  ASSUME Setup!SetupAssumption, Setup!RoomForAll, Setup!Inv, NEW a \in Apps
  PROVE  /\ ~Setup!Bound(a) => ~Setup!Listens(a)
         /\ stage[a] = "streams" => streams[a] \/ Setup!Free(a) > 0
         /\ stage[a] = "listener" => port[a] \in Setup!Ports /\ Setup!Free(a) > 0
<1>1. ASSUME ~Setup!Bound(a) PROVE ~Setup!Listens(a)
  <2>1. a # Setup!None
    BY DEF Setup!RoomForAll
  <2> QED
    BY <1>1, <2>1 DEF Setup!Inv, Setup!Held, Setup!Listens
<1>2. Descriptors \in Nat /\ Descriptors >= 2
  BY DEF Setup!SetupAssumption, Setup!RoomForAll
<1>3. ASSUME stage[a] \in {"streams", "listener"} PROVE Setup!Free(a) > 0
  <2>1. ~Setup!Listens(a)
    BY <1>1, <1>3 DEF Setup!Bound
  <2>2. Setup!Free(a) = Descriptors - (IF streams[a] THEN 1 ELSE 0) - 0
    BY <2>1 DEF Setup!Free
  <2> QED
    BY <1>2, <2>2
<1>4. stage[a] = "listener" => port[a] \in Setup!Ports
  BY RankBounded DEF Setup!Inv
<1> QED
  BY <1>1, <1>3, <1>4

\* The step of an application that finds its port taken.
LEMMA PortTaken ==
  ASSUME Setup!SetupAssumption, Setup!RoomForAll, Setup!Inv, NEW a \in Apps,
         stage[a] = "listener", owner[port[a]] # Setup!None, Setup!Caught(a),
         UNCHANGED <<request, fUDPPort, owner, streams, told, runs>>
  PROVE  Setup!Inv'
<1> DEFINE b == owner[port[a]]
<1>1. /\ port[a] \in Setup!Ports /\ b \in Apps /\ Setup!Bound(b) /\ port[b] = port[a]
  BY ListenerCall DEF Setup!Inv, Setup!TypeOK, Setup!Held
<1>2. b # a /\ stage[b] # "off"
  BY <1>1 DEF Setup!Bound
<1> HIDE DEF b
<1>3. ~(port[a] - fUDPPort[a] > MaxTries)
  <2>1. /\ Setup!Rank(port[a]) \in 0..(Cardinality(Apps) - 1)
        /\ port[a] <= Setup!Rank(port[a]) + 2
    BY RankBounded DEF Setup!Inv
  <2>2. Setup!Rank(port[a]) + 2 <= Cardinality(Apps)
    BY <1>1, <1>2, <2>1, RoomBeyond DEF Setup!Inv
  <2>3. Cardinality(Apps) \in Nat /\ Cardinality(Apps) <= MaxTries /\ MaxTries \in Nat
    BY RoomCounts DEF Setup!SetupAssumption
  <2>4. fUDPPort[a] \in Nat /\ port[a] \in Nat
    BY DEF Setup!Inv, Setup!TypeOK, Setup!Ports, Setup!SetupAssumption
  <2> QED
    BY <2>1, <2>2, <2>3, <2>4
<1>4. /\ stage' = [stage EXCEPT ![a] = "streams"]
      /\ port' = [port EXCEPT ![a] = Setup!NextPort(a, port[a])]
  BY <1>3 DEF Setup!Caught
<1>5. Setup!TypeOK'
  <2>1. Setup!NextPort(a, port[a]) \in Nat
    BY NextRank DEF Setup!Inv, Setup!TypeOK
  <2> QED
    BY <1>4, <2>1 DEF Setup!Inv, Setup!TypeOK
<1>6. Setup!Held'
  <2>1. \A c \in Apps : c # a => stage'[c] = stage[c] /\ port'[c] = port[c]
    BY <1>4 DEF Setup!Inv, Setup!TypeOK
  <2>2. stage'[a] = "streams" /\ ~Setup!Bound(a)
    BY <1>4 DEF Setup!Inv, Setup!TypeOK, Setup!Bound
  <2>3. \A p \in Setup!Ports : owner[p] # Setup!None => owner[p] \in Apps
    BY DEF Setup!Inv, Setup!TypeOK
  <2> QED
    BY <2>1, <2>2, <2>3 DEF Setup!Inv, Setup!Held, Setup!Bound
<1>7. Setup!Crowd'
  <2>1. \A c \in Apps \ {a} : stage'[c] = stage[c] /\ port'[c] = port[c]
    BY <1>4 DEF Setup!Inv, Setup!TypeOK
  <2>2. port'[a] = Setup!NextPort(a, port[a])
    BY <1>4 DEF Setup!Inv, Setup!TypeOK
  <2> QED
    BY <1>1, <1>2, <2>1, <2>2, CrowdPasses DEF Setup!Inv
<1> QED
  BY <1>5, <1>6, <1>7 DEF Setup!Inv

\* No search of an application fails, since an application goes past a port only where
\* another listens (OSCSetup::start), and what it listens with outlives none of its parts
\* (OSCControler::run, OSCSetup::start and stop, OSCStream::start and stop).
THEOREM SetupInvariance ==
  ASSUME Setup!SetupAssumption, Setup!RoomForAll
  PROVE  Setup!Spec => []Setup!Inv
<1>1. ASSUME Setup!Init PROVE Setup!Inv
  <2>1. Setup!TypeOK
    BY <1>1 DEF Setup!Init, Setup!TypeOK, Setup!SetupAssumption, Setup!Ports
  <2>2. Setup!Held
    BY <1>1 DEF Setup!Init, Setup!Held, Setup!Bound
  <2>3. Setup!Crowd
    BY <1>1 DEF Setup!Init, Setup!Crowd, Setup!Beyond
  <2> QED
    BY <2>1, <2>2, <2>3 DEF Setup!Inv
<1>2. Setup!Inv /\ [Setup!Next]_(Setup!vars) => Setup!Inv'
  <2> SUFFICES ASSUME Setup!Inv, [Setup!Next]_(Setup!vars) PROVE Setup!Inv'
    OBVIOUS
  <2> USE DEF Setup!Inv
  <2>1. ASSUME NEW a \in Apps, Setup!run(a) PROVE Setup!Inv'
    <3>1. Setup!TypeOK'
      <4>1. {0, 1} \subseteq Setup!Ports /\ {0, 1} \subseteq Nat
        BY DEF Setup!SetupAssumption, Setup!Ports
      <4>2. request[a] \in Setup!Ports /\ request[a] \in Nat
        BY <4>1 DEF Setup!TypeOK
      <4> QED
        BY <2>1, <4>2 DEF Setup!run, Setup!TypeOK
    <3>2. Setup!Held'
      BY <2>1 DEF Setup!run, Setup!TypeOK, Setup!Held, Setup!Bound
    <3>3. port'[a] \in {0, 1} /\ \A b \in Apps \ {a} : stage'[b] = stage[b] /\ port'[b] = port[b]
      BY <2>1 DEF Setup!run, Setup!TypeOK
    <3> QED
      BY <3>1, <3>2, <3>3, CrowdStays
  <2>2. ASSUME NEW a \in Apps, Setup!startStreams(a) PROVE Setup!Inv'
    <3>1. /\ stage[a] = "streams" /\ stage' = [stage EXCEPT ![a] = "listener"]
          /\ streams' = [streams EXCEPT ![a] = TRUE]
          /\ UNCHANGED <<port, request, fUDPPort, owner, told, runs>>
      BY <2>2, ListenerCall DEF Setup!startStreams
    <3>2. Setup!TypeOK'
      BY <3>1 DEF Setup!TypeOK
    <3>3. Setup!Held'
      BY <3>1 DEF Setup!TypeOK, Setup!Held, Setup!Bound
    <3>4. port'[a] = port[a] /\ \A b \in Apps \ {a} : stage'[b] = stage[b] /\ port'[b] = port[b]
      BY <3>1 DEF Setup!TypeOK
    <3> QED
      BY <3>1, <3>2, <3>3, <3>4, CrowdStays
  <2>3. ASSUME NEW a \in Apps, Setup!startListener(a) PROVE Setup!Inv'
    <3>1. stage[a] = "listener" /\ port[a] \in Setup!Ports /\ Setup!Free(a) > 0
      BY <2>3, ListenerCall DEF Setup!startListener
    <3>2. CASE owner[port[a]] = Setup!None
      <4>1. /\ owner' = [owner EXCEPT ![port[a]] = a]
            /\ stage' = [stage EXCEPT ![a] = "started"]
            /\ UNCHANGED <<port, request, fUDPPort, streams, told, runs>>
        BY <2>3, <3>1, <3>2 DEF Setup!startListener
      <4>2. Setup!TypeOK'
        BY <4>1 DEF Setup!TypeOK
      <4>3. Setup!Held'
        BY <3>1, <3>2, <4>1 DEF Setup!TypeOK, Setup!Held, Setup!Bound, Setup!RoomForAll
      <4>4. port'[a] = port[a] /\ \A b \in Apps \ {a} : stage'[b] = stage[b] /\ port'[b] = port[b]
        BY <4>1 DEF Setup!TypeOK
      <4> QED
        BY <3>1, <4>2, <4>3, <4>4, CrowdStays
    <3>3. CASE owner[port[a]] # Setup!None
      BY <2>3, <3>1, <3>3, PortTaken DEF Setup!startListener
    <3> QED
      BY <3>2, <3>3
  <2>4. ASSUME NEW a \in Apps, Setup!returnPort(a) PROVE Setup!Inv'
    <3>1. Setup!TypeOK' /\ Setup!Held'
      BY <2>4 DEF Setup!returnPort, Setup!TypeOK, Setup!Held, Setup!Bound
    <3>2. /\ stage[a] # "off" /\ port'[a] = port[a]
          /\ \A b \in Apps \ {a} : stage'[b] = stage[b] /\ port'[b] = port[b]
      BY <2>4 DEF Setup!returnPort, Setup!TypeOK
    <3> QED
      BY <3>1, <3>2, CrowdStays
  <2>5. ASSUME NEW a \in Apps, Setup!announce(a) PROVE Setup!Inv'
    <3>1. /\ stage[a] = "announce" /\ stage' = [stage EXCEPT ![a] = "up"]
          /\ UNCHANGED <<request, fUDPPort, port, owner, streams, told, runs>>
      BY <2>5 DEF Setup!announce, Setup!Held, Setup!Bound
    <3>2. Setup!TypeOK' /\ Setup!Held'
      BY <3>1 DEF Setup!TypeOK, Setup!Held, Setup!Bound
    <3>3. port'[a] = port[a] /\ \A b \in Apps \ {a} : stage'[b] = stage[b] /\ port'[b] = port[b]
      BY <3>1 DEF Setup!TypeOK
    <3> QED
      BY <3>1, <3>2, <3>3, CrowdStays
  <2>6. ASSUME NEW a \in Apps, Setup!hello(a) PROVE Setup!Inv'
    BY <2>6 DEF Setup!hello, Setup!TypeOK, Setup!Held, Setup!Bound, Setup!Crowd, Setup!Beyond,
                Setup!Rank
  <2>7. ASSUME NEW a \in Apps, Setup!stop(a) PROVE Setup!Inv'
    <3>1. Setup!Listens(a)
      BY <2>7 DEF Setup!stop, Setup!Held, Setup!Bound, Setup!Listens
    <3>2. /\ stage[a] = "up" /\ stage' = [stage EXCEPT ![a] = "off"]
          /\ owner' = [p \in Setup!Ports |-> IF owner[p] = a THEN Setup!None ELSE owner[p]]
          /\ streams' = [streams EXCEPT ![a] = FALSE] /\ told' = [told EXCEPT ![a] = {}]
          /\ UNCHANGED <<request, fUDPPort, port, runs>>
      BY <2>7, <3>1 DEF Setup!stop
    <3>3. Setup!TypeOK'
      BY <3>2 DEF Setup!TypeOK
    <3>4. Setup!Held'
      BY <3>2 DEF Setup!TypeOK, Setup!Held, Setup!Bound
    <3>5. stage'[a] = "off" /\ \A b \in Apps \ {a} : stage'[b] = stage[b] /\ port'[b] = port[b]
      BY <3>2 DEF Setup!TypeOK
    <3> QED
      BY <3>3, <3>4, <3>5, CrowdStays
  <2>8. CASE UNCHANGED Setup!vars
    BY <2>8 DEF Setup!vars, Setup!TypeOK, Setup!Held, Setup!Bound, Setup!Crowd, Setup!Beyond,
                Setup!Rank
  <2>9. CASE Setup!Finished
    BY <2>8, <2>9 DEF Setup!Finished
  <2> QED
    BY <2>1, <2>2, <2>3, <2>4, <2>5, <2>6, <2>7, <2>8, <2>9 DEF Setup!Next, Setup!Starting
<1> QED
  BY <1>1, <1>2, PTL DEF Setup!Spec

\* The port an application announces is one its listener has, and while it listens the
\* streams it answers on exist (OSCControler::run, OSCSetup::start, OSCStream::start and
\* stop).
THEOREM ListenersSoundHolds == Spec => []ListenersSound
<1>1. Setup!Spec => []Setup!Inv
  BY SetupAssumption, SetupInvariance
<1>2. Setup!Inv => ListenersSound
  <2> SUFFICES ASSUME Setup!Inv PROVE ListenersSound
    OBVIOUS
  <2>1. \A a \in Apps : a # Setup!None
    BY SetupAssumption DEF Setup!RoomForAll
  <2>2. ASSUME NEW a \in Apps, Setup!Listens(a) PROVE streams[a]
    <3>1. PICK p \in Setup!Ports : owner[p] = a
      BY <2>2 DEF Setup!Listens
    <3> QED
      BY <2>1, <3>1 DEF Setup!Inv, Setup!Held
  <2>3. Setup!AnnouncedIsBound /\ Setup!NoNullStream
    BY DEF Setup!Inv, Setup!Held, Setup!Bound, Setup!AnnouncedIsBound, Setup!NoNullStream
  <2> QED
    BY <2>2, <2>3 DEF ListenersSound, Setup!StreamsAlive
<1>3. Init => Setup!Init
  BY DEF Init
<1>4. [Next]_vars => [Setup!Next]_(Setup!vars)
  BY DEF Next, Alone, vars, setupVars, Setup!vars
<1> QED
  BY <1>1, <1>2, <1>3, <1>4, PTL DEF Spec, Setup!Spec
=============================================================================
