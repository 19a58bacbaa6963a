------------------------ MODULE MCFactories_proofs ------------------------
(***************************************************************************)
(* The invariants of the run over both caches, for every value of the      *)
(* constants.  The cache of a client has one reference per pointer handed  *)
(* out, whatever is lost or restarted, and what is created is on the       *)
(* server until a restart of it leaves the cache with what it forgot.  A   *)
(* behaviour is one of the instance that part names, so what is proved of  *)
(* the instance holds of it.                                               *)
(***************************************************************************)
EXTENDS MCFactories, WellFoundedInduction, TLAPS

-----------------------------------------------------------------------------
(***************************************************************************)
(* A client: every function of the API ends in FromCache, Insert or Fail,  *)
(* or leaves the proxies' keys and references alone; there is one lemma    *)
(* for each of these endings.                                              *)
(***************************************************************************)
\* A set of proxies has a first one, in the order of their addresses.
LEMMA LeastProxy ==
  ASSUME NEW S \in SUBSET Nat, S # {}
  PROVE  \E m \in S : \A n \in S : m <= n
<1>1. IsWellFoundedOn(OpToRel(<, Nat), Nat)
  BY NatLessThanWellFounded
<1>2. PICK x \in S : \A y \in S : ~(<<y, x>> \in OpToRel(<, Nat))
  BY <1>1, WFMin
<1>3. ASSUME NEW y \in S PROVE x <= y
  <2>1. ~(y < x)
    BY <1>2 DEF OpToRel
  <2> QED
    BY <2>1
<1> QED
  BY <1>3

\* getFactory finds a proxy of the key when there is one.
LEMMA getFactoryCached ==
  ASSUME Client!ClientAssumption, NEW k, Client!Cached(k) # {}
  PROVE  Client!getFactory(k) \in Client!Proxies /\ proxy[Client!getFactory(k)].key = k
<1>1. Client!Cached(k) \in SUBSET Nat
  BY DEF Client!Cached, Client!Proxies
<1>2. \E f \in Client!Cached(k) : \A g \in Client!Cached(k) : f <= g
  BY <1>1, LeastProxy
<1>3. Client!getFactory(k) \in Client!Cached(k)
  BY <1>2 DEF Client!getFactory
<1> QED
  BY <1>3 DEF Client!Cached

\* No address is that of NULL, and no key is.
LEMMA NotNull ==
  ASSUME Client!ClientAssumption
  PROVE  Client!NULL \notin Client!Proxies /\ Client!NULL \notin Client!Keys
BY DEF Client!ClientAssumption, Client!Proxies, Client!Keys, Client!NULL

\* What a request may do to the server's map: no factory disappears from it.
Grows ==
  /\ available' \in [Client!Keys -> Options \cup {"absent", "null"}]
  /\ \A k \in Client!Keys : Client!Found(k) => available'[k] \notin {"absent", "null"}

\* A lookup by key makes an entry at most.
LEMMA IndexedGrows ==
  ASSUME Client!Inv,
         NEW k \in Client!Keys, available' \in {Client!Indexed(k), available}
  PROVE  Grows
BY DEF Client!Inv, Client!TypeOK, Client!Indexed, Grows, Client!Found

\* A compilation replaces the entry of its key by a factory.
LEMMA CompiledGrows ==
  ASSUME Client!ClientAssumption, Client!Inv, NEW k \in Client!Keys, NEW o \in Options,
         available' = [available EXCEPT ![k] = o]
  PROVE  Grows /\ Client!Found(k)'
BY DEF Client!ClientAssumption, Client!Inv, Client!TypeOK, Grows, Client!Found

-----------------------------------------------------------------------------
(***************************************************************************)
(* The endings of the functions of the API                                 *)
(***************************************************************************)
LEMMA FromCacheKeepsInv ==
  ASSUME Client!ClientAssumption, Client!Inv, Grows, NEW op \in {"create", "get"},
         NEW k \in Client!Keys,
         NEW o \in Options \cup {"absent"}, Client!Cached(k) # {}, Client!FromCache(op, k, o)
  PROVE  Client!Inv'
<1> DEFINE f == Client!getFactory(k)
<1>1. f \in Client!Proxies /\ proxy[f].key = k /\ f # Client!NULL /\ k # Client!NULL
  BY getFactoryCached, NotNull
<1> HIDE DEF f
<1>2. /\ proxy[f].refs < MaxRefs
      /\ proxy' = [proxy EXCEPT ![f].refs = @ + 1]
      /\ last' = [op |-> op, key |-> k, options |-> o, result |-> f]
      /\ handed' = [handed EXCEPT ![f] = @ + 1]
  BY <1>1 DEF Client!FromCache, Client!Return, f
<1>r. restarted' = restarted
  BY DEF Client!FromCache, Client!Return
<1>3. Client!TypeOK /\ MaxRefs \in Nat /\ proxy[f].refs = handed[f] /\ proxy[f].refs \in 0..MaxRefs
  BY <1>1 DEF Client!Inv, Client!TypeOK, Client!ReferencesCounted, Client!ClientAssumption
<1>4. \A g \in Client!Proxies : /\ proxy'[g].key = proxy[g].key
                                /\ proxy'[g].refs = IF g = f THEN proxy[g].refs + 1 ELSE proxy[g].refs
  BY <1>1, <1>2, <1>3 DEF Client!TypeOK
<1>5. Client!TypeOK'
  <2>1. handed' \in [Client!Proxies -> 0..MaxRefs] /\ proxy[f].refs + 1 \in 0..MaxRefs
    BY <1>1, <1>2, <1>3 DEF Client!TypeOK
  <2>2. proxy' \in [Client!Proxies -> [key : Client!Keys \cup {Client!NULL},
                                       options : Options \cup {"absent"},
                                       refs : 0..MaxRefs, instances : 0..MaxInstances,
                                       nulls : {0, 1}]]
    BY <1>1, <1>2, <1>3, <2>1 DEF Client!TypeOK
  <2>3. \A g \in Client!Proxies : proxy'[g].key = Client!NULL => proxy'[g] = Client!NoProxy
    BY <1>1, <1>2, <1>3 DEF Client!TypeOK
  <2>4. last' \in Client!Call
    BY <1>1, <1>2 DEF Client!Call
  <2> QED
    BY <1>r, <2>1, <2>2, <2>3, <2>4 DEF Client!TypeOK, Grows, Client!Inv
<1>6. Client!ReferencesCounted'
  <2>1. \A g \in Client!Proxies : proxy'[g].refs = handed'[g]
    BY <1>1, <1>2, <1>3, <1>4 DEF Client!Inv, Client!ReferencesCounted, Client!TypeOK
  <2> QED
    BY <1>1, <1>2, <1>4, <2>1 DEF Client!ReferencesCounted
<1>7. ~restarted' => Client!Known'
  BY <1>r, <1>3, <1>4 DEF Client!Inv, Client!Known, Client!TypeOK, Grows, Client!Found
<1> QED
  BY <1>1, <1>2, <1>5, <1>6, <1>7 DEF Client!Inv

\* A new proxy has one reference, handed to the caller, and its factory is on the
\* server.
LEMMA InsertKeepsInv ==
  ASSUME Client!ClientAssumption, Client!Inv, Grows, NEW op \in {"create", "get"},
         NEW k \in Client!Keys,
         NEW o \in Options \cup {"absent"}, NEW w \in Options,
         Client!Found(k)', Client!Insert(op, k, o, w)
  PROVE  Client!Inv'
<1>1. PICK f \in Client!Free :
         /\ proxy' = [proxy EXCEPT ![f] = [Client!NoProxy EXCEPT !.key = k, !.refs = 1,
                                               !.options = w]]
         /\ Client!Return(op, k, o, f)
  BY DEF Client!Insert
<1>2. /\ f \in Client!Proxies /\ proxy[f] = Client!NoProxy /\ f # Client!NULL /\ k # Client!NULL /\ Client!TypeOK
      /\ MaxRefs \in Nat /\ MaxRefs # 0 /\ MaxInstances \in Nat
  BY NotNull DEF Client!Free, Client!Inv, Client!TypeOK, Client!ClientAssumption
<1>3. /\ last' = [op |-> op, key |-> k, options |-> o, result |-> f]
      /\ handed' = [handed EXCEPT ![f] = @ + 1] /\ handed[f] = 0
      /\ restarted' = restarted
  BY <1>1, <1>2 DEF Client!Return, Client!Inv, Client!ReferencesCounted, Client!NoProxy
<1> DEFINE new == [Client!NoProxy EXCEPT !.key = k, !.refs = 1, !.options = w]
<1>4. /\ proxy' = [proxy EXCEPT ![f] = new]
      /\ new.key = k /\ new.refs = 1
      /\ new \in [key : Client!Keys \cup {Client!NULL},
                  options : Options \cup {"absent"},
                  refs : 0..MaxRefs, instances : 0..MaxInstances, nulls : {0, 1}]
  <2>1. 1 \in 0..MaxRefs /\ 0 \in 0..MaxRefs /\ 0 \in 0..MaxInstances
    BY <1>2
  <2>2. new.key = k /\ new.refs = 1
    BY DEF Client!NoProxy
  <2>3. Client!NoProxy \in [key : Client!Keys \cup {Client!NULL},
                            options : Options \cup {"absent"},
                            refs : 0..MaxRefs, instances : 0..MaxInstances, nulls : {0, 1}]
    BY <2>1 DEF Client!NoProxy
  <2> QED
    BY <1>1, <2>1, <2>2, <2>3
<1> HIDE DEF new
<1>5. \A g \in Client!Proxies : /\ proxy'[g].key = IF g = f THEN k ELSE proxy[g].key
                                /\ proxy'[g].refs = IF g = f THEN 1 ELSE proxy[g].refs
  BY <1>2, <1>4 DEF Client!TypeOK
<1>6. Client!TypeOK'
  <2>1. handed' \in [Client!Proxies -> 0..MaxRefs] /\ 1 \in 0..MaxRefs /\ 0 \in 0..MaxInstances
    BY <1>2, <1>3 DEF Client!TypeOK
  <2>2. proxy' \in [Client!Proxies -> [key : Client!Keys \cup {Client!NULL},
                                       options : Options \cup {"absent"},
                                       refs : 0..MaxRefs, instances : 0..MaxInstances,
                                       nulls : {0, 1}]]
    BY <1>2, <1>4 DEF Client!TypeOK
  <2>3. \A g \in Client!Proxies : proxy'[g].key = Client!NULL => proxy'[g] = Client!NoProxy
    BY <1>2, <1>4 DEF Client!TypeOK
  <2>4. last' \in Client!Call
    BY <1>2, <1>3 DEF Client!Call
  <2> QED
    BY <1>2, <1>3, <2>1, <2>2, <2>3, <2>4 DEF Client!TypeOK, Grows, Client!Inv
<1>7. Client!ReferencesCounted'
  <2>1. \A g \in Client!Proxies : proxy'[g].refs = handed'[g]
    BY <1>2, <1>3, <1>5 DEF Client!Inv, Client!ReferencesCounted, Client!TypeOK
  <2> QED
    BY <1>2, <1>3, <1>5, <2>1 DEF Client!ReferencesCounted
<1>8. ~restarted' => Client!Known'
  <2>1. ASSUME ~restarted', NEW g \in Client!Proxies, proxy'[g].key # Client!NULL
        PROVE  available'[proxy'[g].key] \notin {"absent", "null"}
    <3>1. CASE g = f
      BY <1>5, <3>1 DEF Client!Found
    <3>2. CASE g # f
      BY <1>2, <1>3, <1>5, <2>1, <3>2 DEF Client!Inv, Client!Known, Client!TypeOK, Grows,
                                          Client!Found
    <3> QED
      BY <3>1, <3>2
  <2> QED
    BY <2>1 DEF Client!Known, Client!Found
<1> QED
  BY <1>2, <1>3, <1>6, <1>7, <1>8 DEF Client!Inv

\* A call that returns no proxy and leaves the keys and the references alone.
LEMMA QuietKeepsInv ==
  ASSUME Client!ClientAssumption, Client!Inv,
         \/ Grows /\ UNCHANGED restarted
         \/ restarted' = TRUE
            /\ available' \in [Client!Keys -> Options \cup {"absent", "null"}],
         last' \in Client!Call, last'.result = Client!NULL,
         proxy' \in [Client!Proxies -> [key : Client!Keys \cup {Client!NULL},
                                        options : Options \cup {"absent"},
                                        refs : 0..MaxRefs, instances : 0..MaxInstances,
                                        nulls : {0, 1}]],
         \A f \in Client!Proxies : /\ proxy'[f].key = proxy[f].key
                                   /\ proxy'[f].refs = proxy[f].refs
                                   /\ proxy[f].key = Client!NULL => proxy'[f] = proxy[f],
         UNCHANGED handed
  PROVE  Client!Inv'
<1>1. Client!TypeOK'
  BY DEF Client!Inv, Client!TypeOK, Grows
<1>2. Client!ReferencesCounted'
  BY DEF Client!Inv, Client!ReferencesCounted
<1>3. ~restarted' => Client!Known'
  BY DEF Client!Inv, Client!Known, Client!TypeOK, Grows, Client!Found
<1> QED
  BY <1>1, <1>2, <1>3 DEF Client!Inv

\* A call that fails.
LEMMA FailKeepsInv ==
  ASSUME Client!ClientAssumption, Client!Inv, Grows, NEW op \in {"create", "get"},
         NEW k \in Client!Keys,
         NEW o \in Options \cup {"absent"}, Client!Fail(op, k, o)
  PROVE  Client!Inv'
<1>1. /\ last' = [op |-> op, key |-> k, options |-> o, result |-> Client!NULL]
      /\ UNCHANGED <<proxy, handed, restarted>>
  BY DEF Client!Fail, Client!Return
<1>2. last' \in Client!Call /\ last'.result = Client!NULL
  BY <1>1 DEF Client!Call
<1> QED
  BY <1>1, <1>2, QuietKeepsInv DEF Client!Inv, Client!TypeOK

-----------------------------------------------------------------------------
(***************************************************************************)
(* The functions of the API                                                *)
(***************************************************************************)
LEMMA CreateKeepsInv ==
  ASSUME Client!ClientAssumption, Client!Inv, NEW k \in Client!Keys, NEW o \in Options,
         NEW listed \in BOOLEAN, NEW expands \in BOOLEAN, NEW compiles \in BOOLEAN,
         NEW answered \in BOOLEAN,
         Client!createRemoteDSPFactoryFromString(k, o, listed, expands, compiles, answered)
  PROVE  Client!Inv'
<1>1. CASE Client!Cached(k) # {} /\ Client!FromCache("create", k, o) /\ UNCHANGED available
  BY <1>1, IndexedGrows, FromCacheKeepsInv
<1>2. CASE Client!Fail("create", k, o) /\ available' \in {available, Client!init_factory(k, o, compiles)}
  <2>1. Grows
    BY <1>2, IndexedGrows, CompiledGrows DEF Client!init_factory
  <2> QED
    BY <1>2, <2>1, FailKeepsInv
<1>3. CASE /\ available' = Client!init_factory(k, o, compiles) /\ compiles
           /\ Client!Insert("create", k, o, o)
  <2>1. Grows /\ Client!Found(k)'
    BY <1>3, CompiledGrows DEF Client!init_factory
  <2> QED
    BY <1>3, <2>1, InsertKeepsInv
<1> QED
  BY <1>1, <1>2, <1>3 DEF Client!createRemoteDSPFactoryFromString

\* getRemoteDSPFactoryFromSHAKey, from the cache or from the server.
LEMMA GetKeepsInv ==
  ASSUME Client!ClientAssumption, Client!Inv, NEW k \in Client!Keys,
         NEW reached \in BOOLEAN,
         NEW answered \in BOOLEAN, Client!getRemoteDSPFactoryFromSHAKey(k, reached, answered)
  PROVE  Client!Inv'
<1>1. CASE Client!Cached(k) # {} /\ Client!FromCache("get", k, "absent") /\ UNCHANGED available
  BY <1>1, IndexedGrows, FromCacheKeepsInv
<1>2. CASE available' \in {Client!Indexed(k), available} /\ Client!Fail("get", k, "absent")
  BY <1>2, IndexedGrows, FailKeepsInv
<1>3. CASE available' \in {Client!Indexed(k), available} /\ Client!Found(k)
           /\ Client!Insert("get", k, "absent", available[k])
  <2>1. Grows /\ available[k] \in Options
    BY <1>3, IndexedGrows DEF Client!Inv, Client!TypeOK, Client!Found
  <2>2. Client!Found(k)'
    BY <1>3, <2>1 DEF Grows, Client!Found
  <2> QED
    BY <1>3, <2>1, <2>2, InsertKeepsInv
<1> QED
  BY <1>1, <1>2, <1>3 DEF Client!getRemoteDSPFactoryFromSHAKey

\* Instances change neither the references nor the entries of factories.
LEMMA InstanceKeepsInv ==
  ASSUME Client!ClientAssumption, Client!Inv, NEW f \in Client!Proxies,
         \/ \E reached, opened \in BOOLEAN : Client!createRemoteDSPInstance(f, reached, opened)
         \/ Client!deleteRemoteDSPInstance(f)
  PROVE  Client!Inv'
<1>1. /\ Client!TypeOK /\ last' = Client!NoCall /\ UNCHANGED <<handed, restarted>>
      /\ MaxInstances \in Nat /\ proxy[f].instances \in 0..MaxInstances
  BY DEF Client!Inv, Client!TypeOK, Client!createRemoteDSPInstance,
         Client!deleteRemoteDSPInstance, Client!ClientAssumption
<1>2. Client!NoCall \in Client!Call /\ Client!NoCall.result = Client!NULL
  BY DEF Client!NoCall, Client!Call
<1>3. proxy[f].key # Client!NULL /\ proxy[f].key \in Client!Keys
  <2>1. proxy[f] # Client!NoProxy \/ proxy[f].key # Client!NULL
    BY <1>1 DEF Client!createRemoteDSPInstance, Client!deleteRemoteDSPInstance,
                Client!NoProxy
  <2> QED
    BY <1>1, <2>1 DEF Client!TypeOK
<1>4. \/ proxy[f].instances < MaxInstances
         /\ proxy' = [proxy EXCEPT ![f].instances = @ + 1]
      \/ proxy' = [proxy EXCEPT ![f].nulls = 1]
      \/ proxy[f].instances > 0 /\ proxy' = [proxy EXCEPT ![f].instances = @ - 1]
  BY DEF Client!createRemoteDSPInstance, Client!deleteRemoteDSPInstance
<1>5. /\ proxy' \in [Client!Proxies -> [key : Client!Keys \cup {Client!NULL},
                                        options : Options \cup {"absent"},
                                        refs : 0..MaxRefs, instances : 0..MaxInstances,
                                        nulls : {0, 1}]]
      /\ \A g \in Client!Proxies : /\ proxy'[g].key = proxy[g].key
                                   /\ proxy'[g].refs = proxy[g].refs
                                   /\ g # f => proxy'[g] = proxy[g]
  <2>1. CASE proxy[f].instances < MaxInstances
             /\ proxy' = [proxy EXCEPT ![f].instances = @ + 1]
    <3>1. proxy[f].instances + 1 \in 0..MaxInstances
      BY <1>1, <2>1
    <3> QED
      BY <1>1, <2>1, <3>1 DEF Client!TypeOK
  <2>2. CASE proxy' = [proxy EXCEPT ![f].nulls = 1]
    BY <1>1, <2>2 DEF Client!TypeOK
  <2>3. CASE proxy[f].instances > 0 /\ proxy' = [proxy EXCEPT ![f].instances = @ - 1]
    <3>1. proxy[f].instances - 1 \in 0..MaxInstances
      BY <1>1, <2>3
    <3> QED
      BY <1>1, <2>3, <3>1 DEF Client!TypeOK
  <2> QED
    BY <1>4, <2>1, <2>2, <2>3
<1>6. Grows
  <2>1. available' \in {Client!Indexed(proxy[f].key), available}
    BY DEF Client!createRemoteDSPInstance, Client!deleteRemoteDSPInstance
  <2> QED
    BY <1>3, <2>1, IndexedGrows
<1> QED
  BY <1>1, <1>2, <1>3, <1>5, <1>6, QuietKeepsInv

\* deleteAllRemoteDSPFactories empties the cache and takes all pointers back.
LEMMA DeleteAllKeepsInv ==
  ASSUME Client!ClientAssumption, Client!Inv, Client!deleteAllRemoteDSPFactories
  PROVE  Client!Inv'
<1>1. /\ proxy' = [f \in Client!Proxies |-> Client!NoProxy] /\ handed' = [f \in Client!Proxies |-> 0]
      /\ last' = Client!NoCall /\ restarted' = FALSE /\ UNCHANGED available /\ Client!TypeOK
      /\ MaxRefs \in Nat /\ MaxInstances \in Nat
  BY DEF Client!deleteAllRemoteDSPFactories, Client!Inv, Client!ClientAssumption
<1>2. Client!NoCall \in Client!Call /\ Client!NoCall.result = Client!NULL
  BY DEF Client!NoCall, Client!Call
<1>3. /\ Client!NoProxy.key = Client!NULL /\ Client!NoProxy.refs = 0
      /\ Client!NoProxy \in [key : Client!Keys \cup {Client!NULL},
                             options : Options \cup {"absent"},
                             refs : 0..MaxRefs, instances : 0..MaxInstances, nulls : {0, 1}]
  <2>1. 0 \in 0..MaxRefs /\ 0 \in 0..MaxInstances
    BY <1>1
  <2> QED
    BY <2>1 DEF Client!NoProxy
<1>4. Client!TypeOK'
  <2>1. handed' \in [Client!Proxies -> 0..MaxRefs]
    BY <1>1
  <2> QED
    BY <1>1, <1>2, <1>3, <2>1 DEF Client!TypeOK
<1>5. Client!ReferencesCounted' /\ Client!Known'
  BY <1>1, <1>2, <1>3 DEF Client!ReferencesCounted, Client!Known
<1> QED
  BY <1>1, <1>2, <1>4, <1>5 DEF Client!Inv

\* The server restarts, another client uses it, or a factory is "deleted".
LEMMA ServerKeepsInv ==
  ASSUME Client!ClientAssumption, Client!Inv,
         \/ Client!Restart
         \/ \E k \in Client!Keys, o \in Options : Client!OtherClient(k, o)
         \/ \E f \in Client!Proxies : Client!deleteRemoteDSPFactory(f)
  PROVE  Client!Inv'
<1>1. /\ UNCHANGED <<proxy, handed>> /\ Client!TypeOK
      /\ last' \in {Client!NoCall, [Client!NoCall EXCEPT !.op = "other"]}
  BY DEF Client!Restart, Client!OtherClient, Client!deleteRemoteDSPFactory, Client!Inv
<1>2. last' \in Client!Call /\ last'.result = Client!NULL
  BY <1>1 DEF Client!NoCall, Client!Call
<1>3. \/ Grows /\ UNCHANGED restarted
      \/ restarted' = TRUE
         /\ available' \in [Client!Keys -> Options \cup {"absent", "null"}]
  <2>1. CASE Client!Restart
    BY <2>1 DEF Client!Restart
  <2>2. ASSUME NEW k \in Client!Keys, NEW o \in Options, Client!OtherClient(k, o)
        PROVE  Grows /\ UNCHANGED restarted
    <3>1. CASE available' = Client!Indexed(k)
      BY <2>2, <3>1, IndexedGrows DEF Client!OtherClient
    <3>2. CASE available' = [available EXCEPT ![k] = o]
      BY <2>2, <3>2, CompiledGrows DEF Client!OtherClient
    <3> QED
      BY <2>2, <3>1, <3>2 DEF Client!OtherClient
  <2>3. ASSUME NEW f \in Client!Proxies, Client!deleteRemoteDSPFactory(f)
        PROVE  Grows /\ UNCHANGED restarted
    BY <2>3 DEF Client!deleteRemoteDSPFactory, Grows, Client!Inv, Client!TypeOK,
                Client!Found
  <2> QED
    BY <2>1, <2>2, <2>3
<1> QED
  BY <1>1, <1>2, <1>3, QuietKeepsInv DEF Client!TypeOK

-----------------------------------------------------------------------------
\* Inv holds of every reachable state of a client.
THEOREM ClientInvariance ==
  ASSUME Client!ClientAssumption
  PROVE  Client!Spec => []Client!Inv
<1>1. Client!Init => Client!Inv
  <2> SUFFICES ASSUME Client!Init PROVE Client!Inv
    OBVIOUS
  <2>1. 0 \in 0..MaxRefs /\ 0 \in 0..MaxInstances
    BY DEF Client!ClientAssumption
  <2>2. Client!NoCall \in Client!Call /\ Client!NoCall.result = Client!NULL
    BY DEF Client!NoCall, Client!Call
  <2>3. /\ Client!NoProxy.key = Client!NULL /\ Client!NoProxy.refs = 0
        /\ Client!NoProxy \in [key : Client!Keys \cup {Client!NULL},
                               options : Options \cup {"absent"},
                               refs : 0..MaxRefs, instances : 0..MaxInstances, nulls : {0, 1}]
    BY <2>1 DEF Client!NoProxy
  <2>4. Client!TypeOK
    BY <2>1, <2>2, <2>3 DEF Client!Init, Client!TypeOK
  <2>5. Client!ReferencesCounted /\ Client!Known
    BY <2>2, <2>3 DEF Client!Init, Client!ReferencesCounted, Client!Known
  <2> QED
    BY <2>2, <2>4, <2>5 DEF Client!Init, Client!Inv
<1>2. Client!Inv /\ [Client!Next]_(Client!vars) => Client!Inv'
  <2> SUFFICES ASSUME Client!Inv, [Client!Next]_(Client!vars) PROVE Client!Inv'
    OBVIOUS
  <2>1. CASE UNCHANGED Client!vars
    BY <2>1 DEF Client!vars, Client!Inv, Client!TypeOK, Client!ReferencesCounted,
                Client!Known, Client!Found
  <2> QED
    BY <2>1, CreateKeepsInv, GetKeepsInv, InstanceKeepsInv, DeleteAllKeepsInv,
       ServerKeepsInv DEF Client!Next
<1> QED
  BY <1>1, <1>2, PTL DEF Client!Spec

\* A factory has the key that was asked for and one reference per pointer handed
\* out, from the cache or from the server, across restarts and lost answers.
THEOREM CountedReferences ==
  ASSUME Client!ClientAssumption
  PROVE  Client!Spec => []Client!ReferencesCounted
<1>1. Client!Inv => Client!ReferencesCounted
  BY DEF Client!Inv
<1> QED
  BY <1>1, ClientInvariance, PTL

\* What createRemoteDSPFactoryFromString returns is on the server, although the list
\* of factories may be garbled or lost, while the cache has no factory that a restart
\* of the server forgot.
THEOREM CreatedOnServer ==
  ASSUME Client!ClientAssumption
  PROVE  Client!Spec => []Client!CreatedAreValid
<1>1. Client!Inv => Client!CreatedAreValid
  <2> SUFFICES ASSUME Client!Inv, last.result # Client!NULL, ~restarted
          PROVE  Client!Found(last.key)
    BY DEF Client!CreatedAreValid
  <2>1. last.result \in Client!Proxies /\ proxy[last.result].key = last.key /\ last.key # Client!NULL
    BY DEF Client!Inv, Client!TypeOK, Client!Call, Client!ReferencesCounted
  <2> QED
    BY <2>1 DEF Client!Inv, Client!Known
<1> QED
  BY <1>1, ClientInvariance, PTL

-----------------------------------------------------------------------------
(***************************************************************************)
(* The invariants of the run                                               *)
(***************************************************************************)
\* The same program or saved factory gives the same object, which is alive, whatever
\* callers create, share, read back, look up and delete (getFactory).
THEOREM SameFactoryHolds == Spec => []SameFactory
<1>1. Init /\ part = "cache" => Cache!Init
  BY DEF Init
<1>2. part = "cache" /\ [Next]_vars => (part = "cache")' /\ [Cache!Next]_(Cache!vars)
  BY DEF Next, vars, llvmVars, Cache!vars
<1>3. ~(part = "cache") /\ [Next]_vars => ~(part = "cache")'
  BY DEF Next, vars
<1>4. Cache!Spec => [](Cache!SameFactory /\ Cache!Inv)
  BY CacheAssumption, Cache!SameObject
<1>5. ~(part = "cache") \/ (Cache!SameFactory /\ Cache!Inv) => SameFactory
  BY DEF SameFactory
<1> QED
  BY <1>1, <1>2, <1>3, <1>4, <1>5, PTL DEF Spec, Cache!Spec

\* For callers that look nothing up by key and delete instances before their factory,
\* a pointer is valid until its holder deletes it, and no instance outlives its factory,
\* in whatever order the holders of one factory delete it (deleteDSPFactory,
\* deleteDSPInstance).
THEOREM PointersValidHolds == Spec => []PointersValid
<1>1. Init /\ part = "counted" => Counted!Init
  BY DEF Init, Cache!Init, Counted!Init
<1>2. part = "counted" /\ [Next]_vars => (part = "counted")' /\ [Counted!Next]_(Counted!vars)
  BY DEF Next, vars, llvmVars, Counted!vars
<1>3. ~(part = "counted") /\ [Next]_vars => ~(part = "counted")'
  BY DEF Next, vars
<1>4. Counted!Spec => [](Counted!PointersValid /\ Counted!InstancesHaveFactory
                        /\ Counted!CountedInv)
  BY CountedAssumption, Counted!CountedPointers
<1>5. \/ ~(part = "counted")
      \/ Counted!PointersValid /\ Counted!InstancesHaveFactory /\ Counted!CountedInv
      => PointersValid
  BY DEF PointersValid
<1> QED
  BY <1>1, <1>2, <1>3, <1>4, <1>5, PTL DEF Spec, Counted!Spec

\* With compiled programs only the error handler stays while there is a factory
\* (constructor and destructor of llvm_dsp_factory).
THEOREM HandlerInstalledHolds == Spec => []HandlerInstalled
<1>1. Init /\ part = "compiled" => Compiled!Init
  BY DEF Init, Cache!Init, Compiled!Init
<1>2. part = "compiled" /\ [Next]_vars => (part = "compiled")' /\ [Compiled!Next]_(Compiled!vars)
  BY DEF Next, vars, llvmVars, Compiled!vars
<1>3. ~(part = "compiled") /\ [Next]_vars => ~(part = "compiled")'
  BY DEF Next, vars
<1>4. Compiled!Spec => [](Compiled!HandlerInstalled /\ Compiled!CompiledInv)
  BY CompiledAssumption, Compiled!HandlerStays
<1>5. ~(part = "compiled") \/ (Compiled!HandlerInstalled /\ Compiled!CompiledInv)
      => HandlerInstalled
  BY DEF HandlerInstalled
<1> QED
  BY <1>1, <1>2, <1>3, <1>4, <1>5, PTL DEF Spec, Compiled!Spec

\* A remote factory that is returned is on the server, until a restart of that leaves
\* the cache with what it forgot (createRemoteDSPFactoryFromString).
THEOREM CreatedAreValidHolds == Spec => []CreatedAreValid
<1>1. Init /\ part = "client" => Client!Init
  BY DEF Init
<1>2. part = "client" /\ [Next]_vars => (part = "client")' /\ [Client!Next]_(Client!vars)
  BY DEF Next, vars, remoteVars, Client!vars
<1>3. ~(part = "client") /\ [Next]_vars => ~(part = "client")'
  BY DEF Next, vars
<1>4. Client!Spec => []Client!CreatedAreValid
  BY ClientAssumption, CreatedOnServer
<1>5. Client!Spec => []Client!Inv
  BY ClientAssumption, ClientInvariance
<1>6. ~(part = "client") \/ (Client!CreatedAreValid /\ Client!Inv) => CreatedAreValid
  BY DEF CreatedAreValid
<1> QED
  BY <1>1, <1>2, <1>3, <1>4, <1>5, <1>6, PTL DEF Spec, Client!Spec

\* A remote factory has the key asked for and one reference per pointer handed out,
\* across restarts of the server (getRemoteDSPFactoryFromSHAKey).
THEOREM ReferencesCountedHolds == Spec => []ReferencesCounted
<1>1. Init /\ part = "client" => Client!Init
  BY DEF Init
<1>2. part = "client" /\ [Next]_vars => (part = "client")' /\ [Client!Next]_(Client!vars)
  BY DEF Next, vars, remoteVars, Client!vars
<1>3. ~(part = "client") /\ [Next]_vars => ~(part = "client")'
  BY DEF Next, vars
<1>4. Client!Spec => []Client!ReferencesCounted
  BY ClientAssumption, CountedReferences
<1>5. ~(part = "client") \/ Client!ReferencesCounted => ReferencesCounted
  BY DEF ReferencesCounted
<1> QED
  BY <1>1, <1>2, <1>3, <1>4, <1>5, PTL DEF Spec, Client!Spec
=============================================================================
