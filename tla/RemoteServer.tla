---------------------------- MODULE RemoteServer ----------------------------
(***************************************************************************)
(* The compilation server of faustremote (RemoteServer/Server.cpp): the    *)
(* HTTP daemon's thread serves the calls of all connections and, before    *)
(* each one, stops the slaves that lost their connection; one thread per   *)
(* new slave waits for NetJack and adds the slave to fRunningDsp.          *)
(***************************************************************************)
EXTENDS Integers, Sequences, FiniteSets, SequencesExt

CONSTANTS Connections,    \* HTTP connections that may be open together
          Keys,           \* SHA keys of factories
          InstanceKeys,
          Slaves          \* bound: memory blocks for slave_dsp objects

CONSTANTS NoKey, NoReq, None

\* Assumed of the constants.
ServerAssumption ==
    /\ NoKey \notin Keys \cup InstanceKeys
    /\ None \notin Slaves \cup Connections

VARIABLES available,   \* fAvailableFactories: a key may have no entry, an
                       \* entry with no factory, or a factory
          running,     \* fRunningDsp
          mem,         \* of each slave: "free", "live", or "leaked"
          audio,       \* state of its NetJack slave
          fInstanceKey,
          thread,      \* where its start_audioSlave thread is
          locker,      \* the slave whose thread owns fLocker, or None
          call,        \* the daemon's thread inside answer_to_connection
          req          \* the request of each connection

slaveVars == <<running, mem, audio, fInstanceKey>>
threadVars == <<thread, locker>>
vars == <<available, slaveVars, threadVars, call, req>>

Urls == {"GetAvailableFactories", "GetJson", "GetJsonFromKey",
         "CreateInstance", "StartAudio", "StopAudio", "other"}

(* What remote_dsp_aux.cpp sends: StartAudio and StopAudio carry an        *)
(* instanceKey only, so their fSHAKey is empty.                            *)
Requests ==
    {r \in [url : Urls, key : Keys \cup {NoKey},
            instance : InstanceKeys \cup {NoKey},
            phase : {"new", "data", "final"}] :
        /\ r.key # NoKey <=> r.url \in {"GetJson", "GetJsonFromKey",
                                        "CreateInstance"}
        /\ r.instance # NoKey <=> r.url \in {"CreateInstance", "StartAudio",
                                             "StopAudio"}}

Idle == [pc |-> "idle", conn |-> None, it |-> 1, lost |-> {}, dsp |-> None]

TypeOK ==
    /\ available \in [Keys -> {"absent", "null", "factory"}]
    /\ running \in Seq(Slaves)
    /\ mem \in [Slaves -> {"free", "live", "leaked"}]
    /\ audio \in [Slaves -> {"closed", "active", "inactive"}]
    /\ fInstanceKey \in [Slaves -> InstanceKeys \cup {NoKey}]
    /\ thread \in [Slaves -> {"none", "created", "opening", "pushing",
                              "failed", "unlocking"}]
    /\ locker \in Slaves \cup {None}
    /\ call \in [pc : {"idle", "sweep", "serve", "setKey"},
                 conn : Connections \cup {None}, it : 1..(Len(running) + 1),
                 lost : SUBSET Slaves, dsp : Slaves \cup {None}]
    /\ req \in [Connections -> Requests \cup {NoReq}]

Init ==
    /\ available = [k \in Keys |-> "absent"]
    /\ running = <<>>
    /\ mem = [s \in Slaves |-> "free"]
    /\ audio = [s \in Slaves |-> "closed"]
    /\ fInstanceKey = [s \in Slaves |-> NoKey]
    /\ thread = [s \in Slaves |-> "none"] /\ locker = None
    /\ call = Idle
    /\ req = [c \in Connections |-> NoReq]

(***************************************************************************)
(* The calls of the daemon's thread.  A request takes one call to allocate *)
(* its structure, one for the data of a POST and one to be served; calls   *)
(* of different connections interleave.  No instance is asked for when all *)
(* blocks are in use or promised.                                          *)
(***************************************************************************)
Blocks == {s \in Slaves : mem[s] = "free" /\ thread[s] = "none"}
Creating == {c \in Connections : req[c] # NoReq /\ req[c].url = "CreateInstance"}

Request(c, r) ==
    /\ req[c] = NoReq /\ r.phase = "new"
    /\ r.url = "CreateInstance" => Cardinality(Creating) < Cardinality(Blocks)
    /\ req' = [req EXCEPT ![c] = r]
    /\ UNCHANGED <<available, slaveVars, threadVars, call>>

(* answer_to_connection; the slaves that are now inactive are remembered   *)
(* as history.                                                             *)
StartCall(c) ==
    /\ call.pc = "idle" /\ req[c] # NoReq
    /\ call' = [Idle EXCEPT !.pc = "sweep", !.conn = c,
                    !.lost = {s \in ToSet(running) : audio[s] = "inactive"}]
    /\ UNCHANGED <<available, slaveVars, threadVars, req>>

deleteSlaveDSPInstance(s) ==
    /\ mem' = [mem EXCEPT ![s] = "free"]
    /\ audio' = [audio EXCEPT ![s] = "closed"]
    /\ fInstanceKey' = [fInstanceKey EXCEPT ![s] = NoKey]

(* Variant: the iterator is advanced after an erase too.                   *)
stop_NotActive_DSPSkips ==
    /\ call.pc = "sweep"
    /\ IF call.it > Len(running)
       THEN call' = [call EXCEPT !.pc = "serve", !.it = 1]
                /\ UNCHANGED slaveVars
       ELSE /\ call' = [call EXCEPT !.it = @ + 1]
            /\ IF audio[running[call.it]] = "inactive"
               THEN /\ running' = RemoveAt(running, call.it)
                    /\ deleteSlaveDSPInstance(running[call.it])
               ELSE UNCHANGED slaveVars
    /\ UNCHANGED <<available, threadVars, req>>

(* One turn of the loop over fRunningDsp.                                  *)
stop_NotActive_DSP ==
    /\ call.pc = "sweep"
    /\ \/ /\ call.it > Len(running)
          /\ call' = [call EXCEPT !.pc = "serve", !.it = 1]
          /\ UNCHANGED slaveVars
       \/ /\ call.it <= Len(running)
          /\ audio[running[call.it]] # "inactive"
          /\ call' = [call EXCEPT !.it = @ + 1]
          /\ UNCHANGED slaveVars
       \/ /\ call.it <= Len(running)
          /\ audio[running[call.it]] = "inactive"
          /\ running' = RemoveAt(running, call.it)
          /\ deleteSlaveDSPInstance(running[call.it])
          /\ UNCHANGED call
    /\ UNCHANGED <<available, threadVars, req>>

(* Variant: upload_data_size is not cleared, the data comes again.         *)
AcceptAgain ==
    /\ call.pc = "serve" /\ req[call.conn].phase # "final"
    /\ req' = [req EXCEPT ![call.conn].phase =
                   IF req[call.conn].url # "GetAvailableFactories"
                   THEN "data" ELSE "final"]
    /\ call' = Idle
    /\ UNCHANGED <<available, slaveVars, threadVars>>

(* The first call allocates, that of a POST's data fills con_info.         *)
Accept ==
    /\ call.pc = "serve" /\ req[call.conn].phase # "final"
    /\ req' = [req EXCEPT ![call.conn].phase =
                   IF @ = "new" /\ req[call.conn].url # "GetAvailableFactories"
                   THEN "data" ELSE "final"]
    /\ call' = Idle
    /\ UNCHANGED <<available, slaveVars, threadVars>>

Serving(urls) ==
    /\ call.pc = "serve"
    /\ req[call.conn].phase = "final" /\ req[call.conn].url \in urls

Answer == call' = Idle /\ req' = [req EXCEPT ![call.conn] = NoReq]

(* fAvailableFactories[k]: reading a key that has no entry makes one       *)
Indexed(k) ==
    [available EXCEPT ![k] = IF @ = "absent" THEN "null" ELSE @]

(* The list is read only, any other URL is refused.                        *)
answer_get ==
    /\ Serving({"GetAvailableFactories", "other"})
    /\ Answer
    /\ UNCHANGED <<available, slaveVars, threadVars>>

compile_Data(compiles) ==
    /\ Serving({"GetJson"})
    /\ available' = IF compiles
                    THEN [available EXCEPT ![req[call.conn].key] = "factory"]
                    ELSE available
    /\ Answer
    /\ UNCHANGED <<slaveVars, threadVars>>

getJsonFromKey ==
    /\ Serving({"GetJsonFromKey"})
    /\ available' = Indexed(req[call.conn].key)
    /\ Answer
    /\ UNCHANGED <<slaveVars, threadVars>>

(* startAudio and stopAudio look for the slaves whose key is fSHAKey.      *)
WithKey(k) == {s \in ToSet(running) : fInstanceKey[s] = k}

(* The first one that can be started is.                                   *)
startAudio ==
    /\ Serving({"StartAudio"})
    /\ \E started \in {{}} \cup {{s} : s \in WithKey(req[call.conn].key)} :
          audio' = [s \in Slaves |-> IF s \in started THEN "active" ELSE audio[s]]
    /\ Answer
    /\ UNCHANGED <<available, running, mem, fInstanceKey, threadVars>>

stopAudio ==
    /\ Serving({"StopAudio"})
    /\ audio' = [s \in Slaves |-> IF s \in WithKey(req[call.conn].key)
                                  THEN "inactive" ELSE audio[s]]
    /\ Answer
    /\ UNCHANGED <<available, running, mem, fInstanceKey, threadVars>>

(* createInstance, up to the creation of the thread; when the thread       *)
(* cannot be created nobody owns the slave any more.                       *)
createInstance(s, created) ==
    /\ Serving({"CreateInstance"})
    /\ available' = Indexed(req[call.conn].key)
    /\ IF available[req[call.conn].key] # "factory"
       THEN Answer /\ UNCHANGED <<slaveVars, threadVars>>
       ELSE /\ s \in Blocks
            /\ mem' = [mem EXCEPT ![s] = IF created THEN "live" ELSE "leaked"]
            /\ IF created
               THEN /\ thread' = [thread EXCEPT ![s] = "created"]
                    /\ call' = [call EXCEPT !.pc = "setKey", !.dsp = s]
                    /\ UNCHANGED req
               ELSE Answer /\ UNCHANGED thread
            /\ UNCHANGED <<running, audio, fInstanceKey, locker>>

(* dsp->setKey, after the thread was started; when the thread has deleted  *)
(* the slave the store goes to memory nobody reads as a slave.             *)
setKey ==
    /\ call.pc = "setKey"
    /\ fInstanceKey' = IF mem[call.dsp] = "live"
                       THEN [fInstanceKey EXCEPT ![call.dsp] =
                                 req[call.conn].instance]
                       ELSE fInstanceKey
    /\ Answer
    /\ UNCHANGED <<available, running, mem, audio, threadVars>>

(***************************************************************************)
(* start_audioSlave, the thread of slave s.                                *)
(***************************************************************************)
Lock(s) ==
    /\ thread[s] = "created" /\ locker = None
    /\ locker' = s /\ thread' = [thread EXCEPT ![s] = "opening"]
    /\ UNCHANGED <<available, slaveVars, call, req>>

(* init and start of the NetJack slave succeed or fail.                    *)
Open(s) ==
    /\ thread[s] = "opening"
    /\ \/ /\ thread' = [thread EXCEPT ![s] = "pushing"]
          /\ audio' = [audio EXCEPT ![s] = "active"]
       \/ /\ thread' = [thread EXCEPT ![s] = "failed"]
          /\ UNCHANGED audio
    /\ UNCHANGED <<available, running, mem, fInstanceKey, locker, call, req>>

Push(s) ==
    /\ thread[s] = "pushing"
    /\ running' = Append(running, s)
    /\ thread' = [thread EXCEPT ![s] = "unlocking"]
    /\ UNCHANGED <<available, mem, audio, fInstanceKey, locker, call, req>>

(* Variant: the slave that failed to start is kept.                        *)
DeleteNothing(s) ==
    /\ thread[s] = "failed"
    /\ thread' = [thread EXCEPT ![s] = "unlocking"]
    /\ UNCHANGED <<available, slaveVars, locker, call, req>>

Delete(s) ==
    /\ thread[s] = "failed"
    /\ deleteSlaveDSPInstance(s)
    /\ thread' = [thread EXCEPT ![s] = "unlocking"]
    /\ UNCHANGED <<available, running, locker, call, req>>

(* Unlock goes through dspToStart->fServer: when the slave was deleted, by *)
(* this thread or by the daemon's, the pointer is what the freed memory    *)
(* holds and fLocker may stay locked.                                      *)
Unlock(s) ==
    /\ thread[s] = "unlocking"
    /\ thread' = [thread EXCEPT ![s] = "none"]
    /\ \/ locker' = None
       \/ mem[s] # "live" /\ UNCHANGED locker
    /\ UNCHANGED <<available, slaveVars, call, req>>

(* The network fails and restart_cb does not restart.                      *)
Lose(s) ==
    /\ mem[s] = "live" /\ audio[s] = "active"
    /\ audio' = [audio EXCEPT ![s] = "inactive"]
    /\ UNCHANGED <<available, running, mem, fInstanceKey, threadVars, call,
                   req>>

(***************************************************************************)
(* Specification                                                           *)
(***************************************************************************)
Serve ==
    \/ Accept
    \/ answer_get
    \/ \E compiles \in BOOLEAN : compile_Data(compiles)
    \/ getJsonFromKey
    \/ startAudio
    \/ stopAudio
    \/ \E s \in Slaves, created \in BOOLEAN : createInstance(s, created)
    \/ setKey

Thread(s) == Lock(s) \/ Open(s) \/ Push(s) \/ Delete(s) \/ Unlock(s)

Next ==
    \/ \E c \in Connections, r \in Requests : Request(c, r)
    \/ \E c \in Connections : StartCall(c)
    \/ stop_NotActive_DSP
    \/ Serve
    \/ \E s \in Slaves : Thread(s) \/ Lose(s)

Spec == Init /\ [][Next]_vars

(* MHD's select loop comes back to every connection; threads are scheduled *)
(* fairly.                                                                 *)
Fairness ==
    /\ \A c \in Connections : SF_vars(StartCall(c))
    /\ WF_vars(stop_NotActive_DSP) /\ WF_vars(Serve)
    /\ \A s \in Slaves : WF_vars(Thread(s))

FairSpec == Spec /\ Fairness

(***************************************************************************)
(* Properties                                                              *)
(***************************************************************************)

(* A slave_dsp that exists is in fRunningDsp, once, or its start thread    *)
(* has still to put it there or delete it: none is lost or deleted twice,  *)
(* whatever the order of the threads (start_audioSlave and                 *)
(* stop_NotActive_DSP).                                                    *)
SlavesAccounted ==
    /\ \A i, j \in DOMAIN running : running[i] = running[j] => i = j
    /\ \A s \in Slaves :
        mem[s] = "live" <=> (s \in ToSet(running)) #
                            (thread[s] \in {"created", "opening", "pushing",
                                            "failed"})

(* A slave found inactive when a call starts is gone when the call is      *)
(* served (the erase in stop_NotActive_DSP skips no element).              *)
LostAreStopped ==
    call.pc = "serve" => call.lost \cap ToSet(running) = {}

(* setKey comes after the thread was started, yet no request looks through *)
(* fRunningDsp while a slave of the list has no key.                       *)
KeysKnown ==
    call.pc = "serve" =>
        \A s \in ToSet(running) : fInstanceKey[s] # NoKey

(* What the threads rely on, in four parts.  A slave is in the list or its *)
(* thread has it, never both, and then it exists; fLocker keeps the start  *)
(* threads apart; a call has a request, and createInstance a slave.        *)
Starting(s) == thread[s] \in {"created", "opening", "pushing", "failed"}

Owned ==
    /\ \A i, j \in DOMAIN running : running[i] = running[j] => i = j
    /\ \A s \in Slaves :
        /\ s \in ToSet(running) => mem[s] = "live" /\ ~Starting(s)
        /\ Starting(s) => mem[s] = "live"
        /\ mem[s] = "live" => s \in ToSet(running) \/ Starting(s)

StartsApart ==
    \A s \in Slaves :
        thread[s] \in {"opening", "pushing", "failed", "unlocking"} =>
            locker = s

InCall ==
    /\ call.pc # "idle" => call.conn \in Connections /\ req[call.conn] # NoReq
    /\ call.pc = "setKey" => /\ call.dsp \in Slaves
                             /\ req[call.conn].url = "CreateInstance"

(* A slave without a key is the one createInstance is about to give one.   *)
KeysComing ==
    \A s \in Slaves :
        s \in ToSet(running) \/ Starting(s) =>
            fInstanceKey[s] # NoKey \/ (call.pc = "setKey" /\ call.dsp = s)

(* A slave found inactive is still ahead of the iterator, or it is gone    *)
(* and no thread can bring it back during the call.                        *)
LostAhead ==
    call.pc \in {"sweep", "serve"} =>
        \A s \in call.lost :
            \/ s \notin ToSet(running) /\ ~Starting(s)
            \/ /\ call.pc = "sweep" /\ audio[s] = "inactive"
               /\ \E i \in call.it..Len(running) : running[i] = s

Inv == TypeOK /\ Owned /\ StartsApart /\ InCall /\ KeysComing /\ LostAhead

(* The daemon's thread never waits for a slave: whatever happens to the    *)
(* mutex, every request is answered ("without blocking the server",        *)
(* Server.cpp:154).                                                        *)
RequestsAnswered == \A c \in Connections : req[c] # NoReq ~> req[c] = NoReq

(* The comment on slave_dsp::fServer: the server's mutex is there not to   *)
(* access the same resources at the same time; so fRunningDsp is not       *)
(* traversed while a slave is pushed.                                      *)
RunningExclusive ==
    call.pc = "sweep" => \A s \in Slaves : thread[s] # "pushing"

(* The same comment, of the slave itself: it exists while its start thread *)
(* or createInstance uses it.                                              *)
SlaveKept ==
    /\ \A s \in Slaves : thread[s] # "none" => mem[s] = "live"
    /\ call.pc = "setKey" => mem[call.dsp] = "live"

(* The comment on fAvailableFactories: factories that can be instanciated. *)
AvailableInstanciable == \A k \in Keys : available[k] # "null"

(* The comment on startAudio and stopAudio: once /StopAudio is answered    *)
(* the instance is stopped.                                                *)
StopHonoured ==
    [][stopAudio => \A s \in ToSet(running) :
            fInstanceKey[s] = req[call.conn].instance => audio'[s] = "inactive"
      ]_vars
=============================================================================
