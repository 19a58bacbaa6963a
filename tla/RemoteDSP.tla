------------------------------ MODULE RemoteDSP ------------------------------
(***************************************************************************)
(* The cache of remote factories of a client (RemoteClient/Sources/        *)
(* remote_dsp_aux.cpp) beside what the server's fAvailableFactories holds: *)
(* requests whose answer is lost, a server that restarts, other clients    *)
(* of the same server.                                                     *)
(***************************************************************************)
EXTENDS Integers, Sequences, FiniteSets, SequencesExt

CONSTANTS NKeys,       \* programs, numbered in the order of their SHA keys
          Options,     \* compilation options a program is compiled with
          NProxies,    \* bound: remote_dsp_factory objects alive together
          MaxRefs,     \* bound: references to one of them
          MaxInstances

\* Assumed of the constants.
ClientAssumption ==
    /\ {NKeys, NProxies, MaxInstances} \subseteq Nat /\ MaxRefs \in Nat \ {0}
    /\ Options \cap {"absent", "null"} = {}

Keys == 1..NKeys
Proxies == 1..NProxies      \* in the order of their addresses
NULL == 0

VARIABLES available,    \* the server's map: no entry, no factory, or options
          proxy,        \* the objects: key, options and refs; instances of
                        \* gFactoryTable, NULL ones included
          handed,       \* history: times each object was returned
          last,         \* history: what the last call asked and returned
          restarted     \* history: the server has restarted since the cache
                        \* was last empty

vars == <<available, proxy, handed, last, restarted>>

NoProxy == [key |-> NULL, options |-> "absent", refs |-> 0,
            instances |-> 0, nulls |-> 0]
Call == [op : {"none", "create", "get", "other"}, key : Keys \cup {NULL},
         options : Options \cup {"absent"}, result : Proxies \cup {NULL}]
NoCall == [op |-> "none", key |-> NULL, options |-> "absent", result |-> NULL]

TypeOK ==
    /\ available \in [Keys -> Options \cup {"absent", "null"}]
    /\ proxy \in [Proxies -> [key : Keys \cup {NULL},
                              options : Options \cup {"absent"},
                              refs : 0..MaxRefs,
                              instances : 0..MaxInstances, nulls : {0, 1}]]
    /\ \A f \in Proxies : proxy[f].key = NULL => proxy[f] = NoProxy
    /\ handed \in [Proxies -> 0..MaxRefs]
    /\ last \in Call /\ restarted \in BOOLEAN

Init ==
    /\ available = [k \in Keys |-> "absent"]
    /\ proxy = [f \in Proxies |-> NoProxy]
    /\ handed = [f \in Proxies |-> 0]
    /\ last = NoCall /\ restarted = FALSE

(***************************************************************************)
(* The list of factories: the server writes " key name" for each entry, in *)
(* the order of the keys, and an entry made by a failed lookup has an      *)
(* empty name; the client reads words, alternately a key and a name.       *)
(***************************************************************************)
Entry(k) ==
    CASE available[k] = "absent" -> <<>>
      [] available[k] = "null"   -> <<[key |-> k]>>
      [] OTHER                   -> <<[key |-> k], [name |-> k]>>

Words == FlattenSeq([k \in Keys |-> Entry(k)])

Listed == {Words[i] : i \in {j \in DOMAIN Words : j % 2 = 1}}

factoryStillExisting(k) == [key |-> k] \in Listed

Found(k) == available[k] \notin {"absent", "null"}

(* fAvailableFactories[k]                                                  *)
Indexed(k) == [available EXCEPT ![k] = IF @ = "absent" THEN "null" ELSE @]

(* The proxies of gFactoryTable with key k; getFactory takes the first.    *)
Cached(k) == {f \in Proxies : proxy[f].key = k}
getFactory(k) == CHOOSE f \in Cached(k) : \A g \in Cached(k) : f <= g

Free == {f \in Proxies : proxy[f].key = NULL}

(* The pointer f is returned to the caller of op.                          *)
Return(op, k, o, f) ==
    /\ last' = [op |-> op, key |-> k, options |-> o, result |-> f]
    /\ handed' = IF f = NULL THEN handed ELSE [handed EXCEPT ![f] = @ + 1]
    /\ UNCHANGED restarted

(* Variant: the cached factory is returned without a new reference.        *)
FromCacheUncounted(op, k, o) ==
    /\ handed[getFactory(k)] < MaxRefs
    /\ Return(op, k, o, getFactory(k))
    /\ UNCHANGED proxy

FromCache(op, k, o) ==
    LET f == getFactory(k) IN
    /\ proxy[f].refs < MaxRefs
    /\ proxy' = [proxy EXCEPT ![f].refs = @ + 1]
    /\ Return(op, k, o, f)

Insert(op, k, o, compiledWith) ==
    \E f \in Free :
        /\ proxy' = [proxy EXCEPT ![f] = [NoProxy EXCEPT !.key = k, !.refs = 1,
                                              !.options = compiledWith]]
        /\ Return(op, k, o, f)

Fail(op, k, o) == Return(op, k, o, NULL) /\ UNCHANGED proxy

(***************************************************************************)
(* The functions of the client's API.                                      *)
(***************************************************************************)
(* remote_dsp_factory::init: what /GetJson leaves on the server.           *)
init_factory(k, o, compiles) ==
    IF compiles THEN [available EXCEPT ![k] = o] ELSE available

(* Variant: the answer to /GetJson is not looked at.                       *)
CreateUnchecked(k, o, listed, expands, compiles, answered) ==
    IF Cached(k) # {} /\ listed /\ factoryStillExisting(k)
    THEN FromCache("create", k, o) /\ UNCHANGED available
    ELSE IF ~expands
    THEN Fail("create", k, o) /\ UNCHANGED available
    ELSE /\ available' = init_factory(k, o, compiles)
         /\ Insert("create", k, o, o)

(* createRemoteDSPFactoryFromString: asks for the list (which may fail)    *)
(* and compiles unless the factory is in the cache and in the list; the    *)
(* program may not expand or compile and the answer may be lost.           *)
createRemoteDSPFactoryFromString(k, o, listed, expands, compiles, answered) ==
    IF Cached(k) # {} /\ listed /\ factoryStillExisting(k)
    THEN FromCache("create", k, o) /\ UNCHANGED available
    ELSE IF ~expands
    THEN Fail("create", k, o) /\ UNCHANGED available
    ELSE /\ available' = init_factory(k, o, compiles)
         /\ IF compiles /\ answered THEN Insert("create", k, o, o)
            ELSE Fail("create", k, o)

(* The cache first, then the server, which makes an entry for the key.     *)
getRemoteDSPFactoryFromSHAKey(k, reached, answered) ==
    IF Cached(k) # {}
    THEN FromCache("get", k, "absent") /\ UNCHANGED available
    ELSE /\ available' = IF reached THEN Indexed(k) ELSE available
         /\ IF reached /\ answered /\ Found(k)
            THEN Insert("get", k, "absent", available[k])
            ELSE Fail("get", k, "absent")

(* Only the request /DeleteFactory is sent, which the server refuses.      *)
deleteRemoteDSPFactory(f) ==
    /\ proxy[f].key # NULL
    /\ last' = NoCall
    /\ UNCHANGED <<available, proxy, handed, restarted>>

(* The callers keep no pointer and no instance, as remote-dsp.h asks.      *)
deleteAllRemoteDSPFactories ==
    /\ \A f \in Proxies : proxy[f].instances = 0
    /\ proxy' = [f \in Proxies |-> NoProxy]
    /\ handed' = [f \in Proxies |-> 0]
    /\ last' = NoCall /\ restarted' = FALSE
    /\ UNCHANGED available

(* remote_dsp_aux::init: the server has the factory and the master opens.  *)
init_instance(f, reached, opened) == reached /\ opened /\ Found(proxy[f].key)

(* An instance that cannot be made is a NULL in the list of instances.     *)
createRemoteDSPInstance(f, reached, opened) ==
    /\ proxy[f].key # NULL
    /\ available' = IF reached THEN Indexed(proxy[f].key) ELSE available
    /\ IF init_instance(f, reached, opened)
       THEN /\ proxy[f].instances < MaxInstances
            /\ proxy' = [proxy EXCEPT ![f].instances = @ + 1]
       ELSE proxy' = [proxy EXCEPT ![f].nulls = 1]
    /\ last' = NoCall
    /\ UNCHANGED <<handed, restarted>>

deleteRemoteDSPInstance(f) ==
    /\ proxy[f].instances > 0
    /\ proxy' = [proxy EXCEPT ![f].instances = @ - 1]
    /\ last' = NoCall
    /\ UNCHANGED <<available, handed, restarted>>

(***************************************************************************)
(* The server restarts; another client compiles or looks up a program.     *)
(***************************************************************************)
Restart ==
    /\ available' = [k \in Keys |-> "absent"]
    /\ last' = NoCall /\ restarted' = TRUE
    /\ UNCHANGED <<proxy, handed>>

OtherClient(k, o) ==
    /\ available' \in {Indexed(k), [available EXCEPT ![k] = o]}
    /\ last' = [NoCall EXCEPT !.op = "other"]
    /\ UNCHANGED <<proxy, handed, restarted>>

Next ==
    \/ \E k \in Keys, o \in Options, listed, expands, compiles, answered
            \in BOOLEAN :
          createRemoteDSPFactoryFromString(k, o, listed, expands, compiles,
                                           answered)
    \/ \E k \in Keys, reached, answered \in BOOLEAN :
          getRemoteDSPFactoryFromSHAKey(k, reached, answered)
    \/ \E f \in Proxies : deleteRemoteDSPFactory(f)
    \/ deleteAllRemoteDSPFactories
    \/ \E f \in Proxies, reached, opened \in BOOLEAN :
          createRemoteDSPInstance(f, reached, opened)
    \/ \E f \in Proxies : deleteRemoteDSPInstance(f)
    \/ Restart
    \/ \E k \in Keys, o \in Options : OtherClient(k, o)

Spec == Init /\ [][Next]_vars

(***************************************************************************)
(* Properties                                                              *)
(***************************************************************************)

(* A factory returned by createRemoteDSPFactoryFromString can be           *)
(* instantiated: the server has it then, although the list it was looked   *)
(* for in may be garbled or missing and answers may be lost (remote-dsp.h: *)
(* "a valid DSP factory on success, otherwise a null pointer"); that is    *)
(* until a restart of the server leaves the cache with what it forgot.     *)
CreatedAreValid ==
    last.op = "create" /\ last.result # NULL /\ ~restarted => Found(last.key)

(* A factory is the one asked for, and it has one reference per pointer    *)
(* that was handed out, whether it came from the cache or the server       *)
(* (getRemoteDSPFactoryFromSHAKey, createRemoteDSPFactoryFromString).      *)
ReferencesCounted ==
    /\ \A f \in Proxies : proxy[f].refs = handed[f]
    /\ last.result # NULL => proxy[last.result].key = last.key

(* The server has the factory of every proxy, unless it restarted; a call  *)
(* that returns a proxy says of which key.                                 *)
Known == \A f \in Proxies : proxy[f].key # NULL => Found(proxy[f].key)

Inv ==
    /\ TypeOK
    /\ ReferencesCounted
    /\ last.result # NULL => last.key # NULL
    /\ ~restarted => Known

(* The factory that is returned was compiled with the options of the call  *)
(* (remote-dsp.h: argv is "the array of compilation parameters").          *)
CompiledAsAsked ==
    last.op = "create" /\ last.result # NULL =>
        proxy[last.result].options = last.options

(* Every factory of the server is in the list a client reads               *)
(* (getRemoteFactoriesAvailable).                                          *)
ListComplete == \A k \in Keys : Found(k) => factoryStillExisting(k)

(* A factory whose references are all deleted is destroyed                 *)
(* (deleteRemoteDSPFactory).                                               *)
DeleteDestroys ==
    [][\A f \in Proxies :
            deleteRemoteDSPFactory(f) => proxy'[f].refs < proxy[f].refs]_vars
=============================================================================
