--------------------------- MODULE MCRemote_proofs ---------------------------
(***************************************************************************)
(* The invariants of the run over the remote components, for every value   *)
(* of the constants.  The server keeps track of its slaves, for any number *)
(* of connections, programs and slaves: none is lost or deleted twice, a   *)
(* sweep removes every slave it found inactive, and no request looks       *)
(* through the list while a slave of it has no key.  Its invariant is      *)
(* inductive; the steps that leave fRunningDsp alone are proved part by    *)
(* part, and the two that change it (Push and an erase of                  *)
(* stop_NotActive_DSP) rest on the lemmas on sequences.  A behaviour is    *)
(* one of the instance that part names, so what is proved of the instance  *)
(* holds of it.                                                            *)
(***************************************************************************)
EXTENDS MCRemote, SequenceTheorems, NaturalsInduction, WellFoundedInduction, TLAPS

-----------------------------------------------------------------------------
(***************************************************************************)
(* The server: lists of slaves                                             *)
(***************************************************************************)
\* erase: what follows the erased element moves up by one.
LEMMA RemoveAtProperties ==
  ASSUME NEW S, NEW q \in Seq(S), NEW n \in 1..Len(q)
  PROVE  /\ Two!RemoveAt(q, n) \in Seq(S)
         /\ Len(Two!RemoveAt(q, n)) = Len(q) - 1
         /\ \A i \in 1..(Len(q) - 1) :
                Two!RemoveAt(q, n)[i] = IF i < n THEN q[i] ELSE q[i + 1]
<1> DEFINE front == SubSeq(q, 1, n - 1)
           back  == SubSeq(q, n + 1, Len(q))
<1>1. Len(q) \in Nat /\ n \in Int /\ \A i \in 1..Len(q) : q[i] \in S
  BY LenProperties, ElementOfSeq
<1>2. /\ front \in Seq(S) /\ Len(front) = n - 1
      /\ \A i \in 1..(n - 1) : front[i] = q[i]
  <2>1. \A i \in 1..(n - 1) : q[i] \in S
    BY <1>1
  <2>2. /\ front \in Seq(S)
        /\ Len(front) = IF 1 <= n - 1 THEN (n - 1) - 1 + 1 ELSE 0
        /\ \A i \in 1..((n - 1) - 1 + 1) : front[i] = q[1 + i - 1]
    BY <1>1, <2>1, SubSeqProperties
  <2> QED
    BY <1>1, <2>2
<1>3. /\ back \in Seq(S) /\ Len(back) = Len(q) - n
      /\ \A i \in 1..(Len(q) - n) : back[i] = q[n + i]
  <2>1. \A i \in (n + 1)..Len(q) : q[i] \in S
    BY <1>1
  <2>2. /\ back \in Seq(S)
        /\ Len(back) = IF n + 1 <= Len(q) THEN Len(q) - (n + 1) + 1 ELSE 0
        /\ \A i \in 1..(Len(q) - (n + 1) + 1) : back[i] = q[(n + 1) + i - 1]
    BY <1>1, <2>1, SubSeqProperties
  <2> QED
    BY <1>1, <2>2
<1>4. /\ front \o back \in Seq(S) /\ Len(front \o back) = Len(front) + Len(back)
      /\ \A i \in 1..(Len(front) + Len(back)) :
            (front \o back)[i] = IF i <= Len(front) THEN front[i] ELSE back[i - Len(front)]
  BY <1>2, <1>3, ConcatProperties
<1>5. Two!RemoveAt(q, n) = front \o back
  BY DEF Two!RemoveAt
<1> HIDE DEF front, back
<1>6. Len(front \o back) = Len(q) - 1
  BY <1>1, <1>2, <1>3, <1>4
<1>7. ASSUME NEW i \in 1..(Len(q) - 1)
      PROVE  (front \o back)[i] = IF i < n THEN q[i] ELSE q[i + 1]
  <2>1. i \in 1..(Len(front) + Len(back)) /\ Len(front) = n - 1
    BY <1>1, <1>2, <1>3
  <2>2. (front \o back)[i] = IF i <= n - 1 THEN front[i] ELSE back[i - (n - 1)]
    BY <1>4, <2>1
  <2>3. CASE i < n
    BY <1>1, <1>2, <2>2, <2>3
  <2>4. CASE ~(i < n)
    <3>1. i - (n - 1) \in 1..(Len(q) - n) /\ n + (i - (n - 1)) = i + 1
      BY <1>1, <2>4
    <3>2. back[i - (n - 1)] = q[i + 1]
      BY <1>3, <3>1
    <3> QED
      BY <1>1, <2>2, <2>4, <3>2
  <2> QED
    BY <2>3, <2>4
<1> QED
  BY <1>4, <1>5, <1>6, <1>7

\* The slaves of the list are the elements at its positions.
LEMMA Members ==
  ASSUME NEW S, NEW q \in Seq(S), NEW x
  PROVE  /\ x \in Two!ToSet(q) <=> \E i \in 1..Len(q) : q[i] = x
         /\ DOMAIN q = 1..Len(q) /\ Len(q) \in Nat
         /\ \A i \in 1..Len(q) : q[i] \in S
<1>1. DOMAIN q = 1..Len(q) /\ Len(q) \in Nat
  BY LenProperties
<1> QED
  BY <1>1, ElementOfSeq DEF Two!ToSet

\* A request keeps its form from call to call: only its phase changes.
LEMMA PhaseChanges ==
  ASSUME NEW r \in Two!Requests, NEW p \in {"new", "data", "final"}
  PROVE  [r EXCEPT !.phase = p] \in Two!Requests /\ [r EXCEPT !.phase = p].url = r.url
BY DEF Two!Requests

-----------------------------------------------------------------------------
(***************************************************************************)
(* Steps that leave the list alone                                         *)
(***************************************************************************)
\* With the same list and the same threads, only the daemon's call matters.
LEMMA RequestKeepsInv ==
  ASSUME Two!ServerAssumption, Two!Inv, NEW c \in Connections, NEW r \in Two!Requests, Two!Request(c, r)
  PROVE  Two!Inv'
<1>1. /\ req' = [req EXCEPT ![c] = r] /\ req[c] = NoReq
      /\ UNCHANGED <<available, Two!slaveVars, Two!threadVars, call>>
  BY DEF Two!Request
<1>2. Two!TypeOK'
  BY <1>1 DEF Two!Inv, Two!TypeOK, Two!slaveVars, Two!threadVars
<1>3. Two!InCall'
  <2>1. call.pc # "idle" => call.conn # c
    BY <1>1 DEF Two!Inv, Two!InCall
  <2> QED
    BY <1>1, <2>1 DEF Two!Inv, Two!TypeOK, Two!InCall
<1> QED
  BY <1>1, <1>2, <1>3
     DEF Two!Inv, Two!Owned, Two!StartsApart, Two!KeysComing, Two!LostAhead, Two!Starting,
         Two!slaveVars, Two!threadVars

\* answer_to_connection: the inactive slaves are all ahead of the iterator.
LEMMA StartCallKeepsInv ==
  ASSUME Two!ServerAssumption, Two!Inv, NEW c \in Connections, Two!StartCall(c)
  PROVE  Two!Inv'
<1>1. /\ call' = [Two!Idle EXCEPT !.pc = "sweep", !.conn = c,
                    !.lost = {s \in Two!ToSet(running) : audio[s] = "inactive"}]
      /\ req[c] # NoReq /\ call.pc = "idle"
      /\ UNCHANGED <<available, Two!slaveVars, Two!threadVars, req>>
  BY DEF Two!StartCall
<1>2. /\ call'.pc = "sweep" /\ call'.conn = c /\ call'.it = 1 /\ call'.dsp = None
      /\ call'.lost = {s \in Two!ToSet(running) : audio[s] = "inactive"}
  BY <1>1 DEF Two!Idle
<1>3. /\ running \in Seq(TwoSlaves) /\ Len(running) \in Nat /\ Two!TypeOK
      /\ \A s : s \in Two!ToSet(running) <=> \E i \in 1..Len(running) : running[i] = s
      /\ \A i \in 1..Len(running) : running[i] \in TwoSlaves
  BY Members DEF Two!Inv, Two!TypeOK
<1>4. Two!TypeOK'
  <2>1. call'.lost \in SUBSET TwoSlaves
    BY <1>2, <1>3
  <2>2. call' \in [pc : {"idle", "sweep", "serve", "setKey"},
                   conn : Connections \cup {None}, it : 1..(Len(running) + 1),
                   lost : SUBSET TwoSlaves, dsp : TwoSlaves \cup {None}]
    <3>1. call' = [pc |-> "sweep", conn |-> c, it |-> 1,
                   lost |-> {s \in Two!ToSet(running) : audio[s] = "inactive"}, dsp |-> None]
      BY <1>1 DEF Two!Idle
    <3>2. 1 \in 1..(Len(running) + 1)
      BY <1>3
    <3> QED
      BY <1>2, <2>1, <3>1, <3>2
  <2> QED
    BY <1>1, <1>3, <2>2 DEF Two!TypeOK, Two!slaveVars, Two!threadVars
<1>5. Two!InCall'
  BY <1>1, <1>2 DEF Two!InCall
<1>6. Two!KeysComing'
  BY <1>1, <1>2 DEF Two!Inv, Two!KeysComing, Two!slaveVars, Two!threadVars, Two!Starting
<1>7. Two!LostAhead'
  BY <1>1, <1>2, <1>3 DEF Two!LostAhead, Two!slaveVars, Two!threadVars, Two!Starting
<1> QED
  BY <1>1, <1>4, <1>5, <1>6, <1>7
     DEF Two!Inv, Two!Owned, Two!StartsApart, Two!Starting, Two!slaveVars, Two!threadVars


\* The end of a call: the request is answered or waits for the next call.
LEMMA EndOfCallKeepsInv ==
  ASSUME Two!ServerAssumption, Two!Inv, call.pc = "serve", call' = Two!Idle,
         available' \in [Keys -> {"absent", "null", "factory"}],
         audio' \in [TwoSlaves -> {"closed", "active", "inactive"}],
         mem' \in [TwoSlaves -> {"free", "live", "leaked"}],
         \A s \in TwoSlaves : mem'[s] = "live" <=> mem[s] = "live",
         req' \in [Connections -> Two!Requests \cup {NoReq}],
         UNCHANGED <<running, fInstanceKey, thread, locker>>
  PROVE  Two!Inv'
<1>1. /\ Two!Idle.pc = "idle" /\ Len(running) \in Nat
      /\ Two!Idle \in [pc : {"idle", "sweep", "serve", "setKey"},
                   conn : Connections \cup {None}, it : 1..(Len(running) + 1),
                   lost : SUBSET TwoSlaves, dsp : TwoSlaves \cup {None}]
  <2>1. Len(running) \in Nat
    BY LenProperties DEF Two!Inv, Two!TypeOK
  <2>2. 1 \in 1..(Len(running) + 1)
    BY <2>1
  <2> QED
    BY <2>1, <2>2 DEF Two!Idle
<1>2. Two!TypeOK'
  BY <1>1 DEF Two!Inv, Two!TypeOK
<1>3. Two!InCall' /\ Two!LostAhead'
  BY <1>1 DEF Two!InCall, Two!LostAhead
<1>4. Two!KeysComing'
  BY DEF Two!Inv, Two!KeysComing, Two!Starting
<1>5. Two!Owned' /\ Two!StartsApart'
  BY DEF Two!Inv, Two!Owned, Two!StartsApart, Two!Starting
<1> QED
  BY <1>2, <1>3, <1>4, <1>5 DEF Two!Inv

\* Accept, and every request but the creation of an instance.
LEMMA ServeKeepsInv ==
  ASSUME Two!ServerAssumption, Two!Inv,
         \/ Two!Accept \/ Two!answer_get \/ Two!getJsonFromKey \/ Two!startAudio \/ Two!stopAudio
         \/ \E compiles \in BOOLEAN : Two!compile_Data(compiles)
  PROVE  Two!Inv'
<1>1. call.pc = "serve" /\ call' = Two!Idle
      /\ UNCHANGED <<running, mem, fInstanceKey, thread, locker>>
  BY DEF Two!Accept, Two!answer_get, Two!getJsonFromKey, Two!startAudio, Two!stopAudio,
         Two!compile_Data,
         Two!Serving, Two!Answer, Two!slaveVars, Two!threadVars
<1>2. Two!TypeOK /\ call.conn \in Connections /\ req[call.conn] \in Two!Requests
  BY <1>1 DEF Two!Inv, Two!TypeOK, Two!InCall
<1>3. req' \in [Connections -> Two!Requests \cup {NoReq}]
  <2>1. CASE Two!Accept
    <3>1. PICK p \in {"data", "final"} :
             req' = [req EXCEPT ![call.conn] = [req[call.conn] EXCEPT !.phase = p]]
      BY <1>2, <2>1 DEF Two!Accept, Two!TypeOK
    <3> QED
      BY <1>2, <3>1, PhaseChanges DEF Two!TypeOK
  <2>2. CASE Two!Answer
    BY <1>2, <2>2 DEF Two!Answer, Two!TypeOK
  <2> QED
    BY <2>1, <2>2 DEF Two!answer_get, Two!getJsonFromKey, Two!startAudio, Two!stopAudio,
                      Two!compile_Data
<1>4. audio' \in [TwoSlaves -> {"closed", "active", "inactive"}]
  BY <1>2 DEF Two!TypeOK, Two!Accept, Two!answer_get, Two!getJsonFromKey, Two!startAudio,
              Two!stopAudio,
              Two!compile_Data, Two!slaveVars
<1>5. available' \in [Keys -> {"absent", "null", "factory"}]
  BY <1>2 DEF Two!TypeOK, Two!Accept, Two!answer_get, Two!getJsonFromKey, Two!startAudio,
              Two!stopAudio,
              Two!compile_Data, Two!Indexed
<1> QED
  BY <1>1, <1>2, <1>3, <1>4, <1>5, EndOfCallKeepsInv DEF Two!TypeOK

\* createInstance, up to the creation of the thread.
LEMMA CreateKeepsInv ==
  ASSUME Two!ServerAssumption, Two!Inv, NEW s \in TwoSlaves, NEW created \in BOOLEAN,
         Two!createInstance(s, created)
  PROVE  Two!Inv'
<1>1. /\ call.pc = "serve" /\ Two!TypeOK /\ call.conn \in Connections
      /\ req[call.conn] \in Two!Requests /\ req[call.conn].url = "CreateInstance"
      /\ available' = Two!Indexed(req[call.conn].key)
      /\ UNCHANGED <<running, audio, fInstanceKey, locker>>
  BY DEF Two!Inv, Two!TypeOK, Two!InCall, Two!createInstance, Two!Serving, Two!slaveVars,
         Two!threadVars
<1>2. available' \in [Keys -> {"absent", "null", "factory"}]
  BY <1>1 DEF Two!TypeOK, Two!Indexed
<1>3. CASE Two!Answer /\ UNCHANGED thread /\ UNCHANGED mem
  <2>1. req' \in [Connections -> Two!Requests \cup {NoReq}] /\ call' = Two!Idle
    BY <1>1, <1>3 DEF Two!Answer, Two!TypeOK
  <2> QED
    BY <1>1, <1>2, <1>3, <2>1, EndOfCallKeepsInv DEF Two!TypeOK
<1>4. CASE /\ s \in Two!Blocks /\ mem' = [mem EXCEPT ![s] = "leaked"]
           /\ Two!Answer /\ UNCHANGED thread
  <2>1. req' \in [Connections -> Two!Requests \cup {NoReq}] /\ call' = Two!Idle
    BY <1>1, <1>4 DEF Two!Answer, Two!TypeOK
  <2>2. /\ mem' \in [TwoSlaves -> {"free", "live", "leaked"}]
        /\ \A x \in TwoSlaves : mem'[x] = "live" <=> mem[x] = "live"
    BY <1>1, <1>4 DEF Two!TypeOK, Two!Blocks
  <2> QED
    BY <1>1, <1>2, <1>4, <2>1, <2>2, EndOfCallKeepsInv DEF Two!TypeOK
<1>5. CASE /\ s \in Two!Blocks /\ mem' = [mem EXCEPT ![s] = "live"]
           /\ thread' = [thread EXCEPT ![s] = "created"]
           /\ call' = [call EXCEPT !.pc = "setKey", !.dsp = s]
           /\ UNCHANGED req
  <2>1. /\ mem[s] = "free" /\ thread[s] = "none" /\ s \notin Two!ToSet(running) /\ ~Two!Starting(s)
        /\ \A x \in TwoSlaves : mem'[x] = IF x = s THEN "live" ELSE mem[x]
        /\ \A x \in TwoSlaves : thread'[x] = IF x = s THEN "created" ELSE thread[x]
    BY <1>1, <1>5 DEF Two!Inv, Two!Owned, Two!Blocks, Two!TypeOK, Two!Starting
  <2>2. call'.pc = "setKey" /\ call'.dsp = s /\ call'.conn = call.conn
    BY <1>1, <1>5 DEF Two!TypeOK
  <2>3. Two!TypeOK'
    BY <1>1, <1>2, <1>5 DEF Two!TypeOK
  <2>4. Two!Owned' /\ Two!StartsApart'
    BY <1>1, <2>1 DEF Two!Inv, Two!Owned, Two!StartsApart, Two!Starting
  <2>5. Two!InCall' /\ Two!LostAhead'
    BY <1>1, <1>5, <2>2 DEF Two!Inv, Two!InCall, Two!LostAhead
  <2>6. Two!KeysComing'
    BY <1>1, <2>1, <2>2 DEF Two!Inv, Two!KeysComing, Two!Starting
  <2> QED
    BY <2>3, <2>4, <2>5, <2>6 DEF Two!Inv
<1> QED
  BY <1>1, <1>3, <1>4, <1>5 DEF Two!createInstance, Two!slaveVars, Two!threadVars

\* setKey gives the slave its key, if it is still there.
LEMMA SetKeyKeepsInv ==
  ASSUME Two!ServerAssumption, Two!Inv, Two!setKey
  PROVE  Two!Inv'
<1>1. /\ call.pc = "setKey" /\ Two!TypeOK /\ call.conn \in Connections /\ call.dsp \in TwoSlaves
      /\ req[call.conn] \in Two!Requests /\ req[call.conn].url = "CreateInstance"
      /\ UNCHANGED <<available, running, mem, audio, thread, locker>>
      /\ call' = Two!Idle /\ req' = [req EXCEPT ![call.conn] = NoReq]
  BY DEF Two!Inv, Two!TypeOK, Two!InCall, Two!setKey, Two!Answer, Two!threadVars
<1>2. req[call.conn].instance \in InstanceKeys /\ req[call.conn].instance # NoKey
  BY <1>1 DEF Two!Requests
<1>3. fInstanceKey' \in [TwoSlaves -> InstanceKeys \cup {NoKey}]
  BY <1>1, <1>2 DEF Two!setKey, Two!TypeOK
<1>4. \A s \in TwoSlaves :
        mem[s] = "live" => fInstanceKey'[s] = IF s = call.dsp THEN req[call.conn].instance
                                              ELSE fInstanceKey[s]
  BY <1>1 DEF Two!setKey, Two!TypeOK
<1>5. /\ Two!Idle.pc = "idle"
      /\ Two!Idle \in [pc : {"idle", "sweep", "serve", "setKey"},
                   conn : Connections \cup {None}, it : 1..(Len(running) + 1),
                   lost : SUBSET TwoSlaves, dsp : TwoSlaves \cup {None}]
  <2>1. Len(running) \in Nat
    BY <1>1, LenProperties DEF Two!TypeOK
  <2>2. 1 \in 1..(Len(running) + 1)
    BY <2>1
  <2> QED
    BY <2>2 DEF Two!Idle
<1>6. Two!TypeOK'
  BY <1>1, <1>3, <1>5 DEF Two!TypeOK
<1>7. Two!InCall' /\ Two!LostAhead'
  BY <1>1, <1>5 DEF Two!InCall, Two!LostAhead
<1>8. Two!KeysComing'
  BY <1>1, <1>2, <1>4 DEF Two!Inv, Two!KeysComing, Two!Owned, Two!Starting
<1>9. Two!Owned' /\ Two!StartsApart'
  BY <1>1 DEF Two!Inv, Two!Owned, Two!StartsApart, Two!Starting
<1> QED
  BY <1>6, <1>7, <1>8, <1>9 DEF Two!Inv

\* The steps of a start thread but Push, and the loss of a connection.
LEMMA ThreadKeepsInv ==
  ASSUME Two!ServerAssumption, Two!Inv, NEW s \in TwoSlaves,
         Two!Lock(s) \/ Two!Open(s) \/ Two!Delete(s) \/ Two!Unlock(s) \/ Two!Lose(s)
  PROVE  Two!Inv'
<1>1. Two!TypeOK /\ UNCHANGED <<available, running, call, req>>
      /\ \A x \in TwoSlaves : x # s => /\ mem'[x] = mem[x] /\ thread'[x] = thread[x]
                                    /\ fInstanceKey'[x] = fInstanceKey[x]
                                    /\ audio'[x] = audio[x]
  BY DEF Two!Inv, Two!TypeOK, Two!Lock, Two!Open, Two!Delete, Two!Unlock, Two!Lose,
         Two!slaveVars, Two!threadVars,
         Two!deleteSlaveDSPInstance
<1>2. Two!TypeOK'
  BY <1>1, ZenonT(60) DEF Two!TypeOK, Two!Lock, Two!Open, Two!Delete, Two!Unlock, Two!Lose,
                          Two!slaveVars, Two!threadVars,
              Two!deleteSlaveDSPInstance
<1>3. Two!Owned'
  BY <1>1 DEF Two!Inv, Two!TypeOK, Two!Owned, Two!Starting, Two!Lock, Two!Open, Two!Delete,
              Two!Unlock, Two!Lose, Two!slaveVars,
              Two!threadVars, Two!deleteSlaveDSPInstance
<1>4. Two!StartsApart'
  BY <1>1 DEF Two!Inv, Two!TypeOK, Two!StartsApart, Two!Lock, Two!Open, Two!Delete,
              Two!Unlock, Two!Lose, Two!slaveVars,
              Two!threadVars, Two!ServerAssumption
<1>5. Two!InCall'
  BY <1>1 DEF Two!Inv, Two!InCall
<1>6. Two!KeysComing'
  BY <1>1 DEF Two!Inv, Two!TypeOK, Two!KeysComing, Two!Owned, Two!Starting, Two!Lock,
              Two!Open, Two!Delete, Two!Unlock, Two!Lose,
              Two!slaveVars, Two!threadVars, Two!deleteSlaveDSPInstance
<1>7. Two!LostAhead'
  <2>1. ASSUME call.pc \in {"sweep", "serve"}, NEW x \in call.lost
        PROVE  \/ x \notin Two!ToSet(running') /\ ~Two!Starting(x)'
               \/ /\ call'.pc = "sweep" /\ audio'[x] = "inactive"
                  /\ \E i \in call'.it..Len(running') : running'[i] = x
    <3>1. x \in TwoSlaves
      BY <1>1, <2>1 DEF Two!TypeOK
    <3>2. CASE x # s
      BY <1>1, <2>1, <3>1, <3>2 DEF Two!Inv, Two!LostAhead, Two!Starting
    <3>3. CASE x = s /\ s \notin Two!ToSet(running) /\ ~Two!Starting(s)
      BY <1>1, <3>3 DEF Two!Starting, Two!TypeOK, Two!Lock, Two!Open, Two!Delete,
                        Two!Unlock, Two!Lose, Two!threadVars
    <3>4. CASE x = s /\ call.pc = "sweep" /\ audio[s] = "inactive"
               /\ \E i \in call.it..Len(running) : running[i] = s
      <4>1. s \in Two!ToSet(running)
        <5>1. PICK i \in call.it..Len(running) : running[i] = s
          BY <3>4
        <5>2. i \in 1..Len(running)
          BY <1>1, <5>1 DEF Two!TypeOK
        <5> QED
          BY <1>1, <5>1, <5>2, Members DEF Two!TypeOK
      <4>2. ~Two!Starting(s) /\ mem[s] = "live"
        BY <4>1 DEF Two!Inv, Two!Owned
      <4>3. audio'[s] = "inactive"
        BY <1>1, <3>4, <4>2
           DEF Two!Starting, Two!TypeOK, Two!Lock, Two!Open, Two!Delete, Two!Unlock,
               Two!Lose, Two!slaveVars, Two!threadVars
      <4> QED
        BY <1>1, <3>4, <4>3
    <3> QED
      BY <2>1, <3>2, <3>3, <3>4 DEF Two!Inv, Two!LostAhead
  <2> QED
    BY <1>1, <2>1 DEF Two!LostAhead
<1> QED
  BY <1>2, <1>3, <1>4, <1>5, <1>6, <1>7 DEF Two!Inv

-----------------------------------------------------------------------------
(***************************************************************************)
(* Steps that change the list                                              *)
(***************************************************************************)
\* Push: the slave of a start thread is not in the list yet.
LEMMA PushKeepsInv ==
  ASSUME Two!ServerAssumption, Two!Inv, NEW s \in TwoSlaves, Two!Push(s)
  PROVE  Two!Inv'
<1>1. /\ Two!TypeOK /\ thread[s] = "pushing" /\ running' = Append(running, s)
      /\ thread' = [thread EXCEPT ![s] = "unlocking"]
      /\ UNCHANGED <<available, mem, audio, fInstanceKey, locker, call, req>>
  BY DEF Two!Inv, Two!Push
<1>2. /\ Two!Starting(s) /\ s \notin Two!ToSet(running) /\ mem[s] = "live"
      /\ \A x \in TwoSlaves : thread'[x] = IF x = s THEN "unlocking" ELSE thread[x]
      /\ \A x \in TwoSlaves : Two!Starting(x)' <=> x # s /\ Two!Starting(x)
  BY <1>1 DEF Two!Inv, Two!Owned, Two!Starting, Two!TypeOK
<1>3. /\ running \in Seq(TwoSlaves) /\ running' \in Seq(TwoSlaves)
      /\ Len(running) \in Nat /\ Len(running') = Len(running) + 1
      /\ \A i \in 1..Len(running) : running'[i] = running[i]
      /\ running'[Len(running) + 1] = s
      /\ DOMAIN running = 1..Len(running) /\ DOMAIN running' = 1..(Len(running) + 1)
  <2>1. running \in Seq(TwoSlaves)
    BY <1>1 DEF Two!TypeOK
  <2>2. /\ Append(running, s) \in Seq(TwoSlaves)
        /\ Len(Append(running, s)) = Len(running) + 1
        /\ \A i \in 1..Len(running) : Append(running, s)[i] = running[i]
        /\ Append(running, s)[Len(running) + 1] = s
    BY <2>1, AppendProperties
  <2>3. running' \in Seq(TwoSlaves)
    BY <1>1, <2>2
  <2> QED
    BY <1>1, <2>1, <2>2, <2>3, LenProperties
<1>4. \A x : x \in Two!ToSet(running') <=> x \in Two!ToSet(running) \/ x = s
  <2>1. ASSUME NEW x PROVE x \in Two!ToSet(running') <=> x \in Two!ToSet(running) \/ x = s
    <3>1. x \in Two!ToSet(running) <=> \E i \in 1..Len(running) : running[i] = x
      BY <1>3, Members
    <3>2. x \in Two!ToSet(running') <=> \E i \in 1..Len(running') : running'[i] = x
      BY <1>3, Members
    <3>3. 1..Len(running') = 1..Len(running) \cup {Len(running) + 1}
      BY <1>3
    <3> QED
      BY <1>3, <3>1, <3>2, <3>3
  <2> QED
    BY <2>1
<1>5. Two!TypeOK'
  <2>1. call \in [pc : {"idle", "sweep", "serve", "setKey"},
                  conn : Connections \cup {None}, it : 1..(Len(running') + 1),
                  lost : SUBSET TwoSlaves, dsp : TwoSlaves \cup {None}]
    <3>1. 1..(Len(running) + 1) \subseteq 1..(Len(running') + 1)
      BY <1>3
    <3> QED
      BY <1>1, <3>1 DEF Two!TypeOK
  <2> QED
    BY <1>1, <1>3, <2>1 DEF Two!TypeOK
<1>6. Two!Owned'
  <2>1. ASSUME NEW i \in DOMAIN running', NEW j \in DOMAIN running', running'[i] = running'[j]
        PROVE  i = j
    <3>1. \A k \in 1..Len(running) : running[k] # s
      BY <1>2, <1>3, Members
    <3> QED
      BY <1>3, <2>1, <3>1 DEF Two!Inv, Two!Owned
  <2> QED
    BY <1>1, <1>2, <1>4, <2>1 DEF Two!Inv, Two!Owned
<1>7. Two!StartsApart' /\ Two!InCall'
  BY <1>1, <1>2 DEF Two!Inv, Two!StartsApart, Two!InCall
<1>8. Two!KeysComing'
  BY <1>1, <1>2, <1>4 DEF Two!Inv, Two!KeysComing
<1>9. Two!LostAhead'
  <2>1. ASSUME call.pc \in {"sweep", "serve"}, NEW x \in call.lost
        PROVE  \/ x \notin Two!ToSet(running') /\ ~Two!Starting(x)'
               \/ /\ call'.pc = "sweep" /\ audio'[x] = "inactive"
                  /\ \E i \in call'.it..Len(running') : running'[i] = x
    <3>1. x \in TwoSlaves /\ call.it \in Nat /\ call.it >= 1
      BY <1>1, <1>3, <2>1 DEF Two!TypeOK
    <3>2. CASE x \notin Two!ToSet(running) /\ ~Two!Starting(x)
      BY <1>2, <1>4, <3>1, <3>2
    <3>3. CASE call.pc = "sweep" /\ audio[x] = "inactive"
               /\ \E i \in call.it..Len(running) : running[i] = x
      <4>1. PICK i \in call.it..Len(running) : running[i] = x
        BY <3>3
      <4>2. i \in call.it..Len(running') /\ running'[i] = x
        BY <1>3, <3>1, <4>1
      <4> QED
        BY <1>1, <3>3, <4>2
    <3> QED
      BY <2>1, <3>2, <3>3 DEF Two!Inv, Two!LostAhead
  <2> QED
    BY <1>1, <2>1 DEF Two!LostAhead
<1> QED
  BY <1>5, <1>6, <1>7, <1>8, <1>9 DEF Two!Inv

\* A turn of the loop that erases: the iterator stays, what follows moves up to it.
LEMMA EraseKeepsInv ==
  ASSUME Two!ServerAssumption, Two!Inv, call.pc = "sweep", call.it <= Len(running),
         audio[running[call.it]] = "inactive",
         running' = Two!RemoveAt(running, call.it),
         Two!deleteSlaveDSPInstance(running[call.it]),
         UNCHANGED <<available, Two!threadVars, call, req>>
  PROVE  Two!Inv'
<1> DEFINE n == call.it
           s == running[n]
<1>1. /\ Two!TypeOK /\ running \in Seq(TwoSlaves) /\ Len(running) \in Nat /\ n \in 1..Len(running)
      /\ s \in TwoSlaves /\ DOMAIN running = 1..Len(running)
      /\ UNCHANGED <<thread, locker>>
  <2>1. running \in Seq(TwoSlaves) /\ Two!TypeOK
    BY DEF Two!Inv, Two!TypeOK
  <2>2. Len(running) \in Nat /\ DOMAIN running = 1..Len(running)
    BY <2>1, LenProperties
  <2>3. n \in 1..Len(running)
    BY <2>1, <2>2 DEF Two!TypeOK
  <2> QED
    BY <2>1, <2>2, <2>3, ElementOfSeq DEF Two!threadVars
<1>2. /\ running' \in Seq(TwoSlaves) /\ Len(running') = Len(running) - 1
      /\ \A i \in 1..(Len(running) - 1) :
            running'[i] = IF i < n THEN running[i] ELSE running[i + 1]
      /\ DOMAIN running' = 1..(Len(running) - 1)
  <2>1. /\ Two!RemoveAt(running, n) \in Seq(TwoSlaves) /\ Len(Two!RemoveAt(running, n)) = Len(running) - 1
        /\ \A i \in 1..(Len(running) - 1) :
              Two!RemoveAt(running, n)[i] = IF i < n THEN running[i] ELSE running[i + 1]
    BY <1>1, RemoveAtProperties
  <2> QED
    BY <2>1, LenProperties
<1>3. \A i \in 1..Len(running), j \in 1..Len(running) : running[i] = running[j] => i = j
  BY <1>1 DEF Two!Inv, Two!Owned
<1>4. \A x : x \in Two!ToSet(running') <=> x \in Two!ToSet(running) /\ x # s
  <2>1. ASSUME NEW x PROVE x \in Two!ToSet(running') <=> x \in Two!ToSet(running) /\ x # s
    <3>1. x \in Two!ToSet(running) <=> \E i \in 1..Len(running) : running[i] = x
      BY <1>1, Members
    <3>2. x \in Two!ToSet(running') <=> \E i \in 1..(Len(running) - 1) : running'[i] = x
      BY <1>2, Members
    <3>3. ASSUME NEW i \in 1..(Len(running) - 1), running'[i] = x
          PROVE  x \in Two!ToSet(running) /\ x # s
      <4>1. CASE i < n
        BY <1>1, <1>2, <1>3, <3>1, <3>3, <4>1
      <4>2. CASE ~(i < n)
        <5>1. i + 1 \in 1..Len(running) /\ i + 1 # n /\ running[i + 1] = x
          BY <1>1, <1>2, <3>3, <4>2
        <5> QED
          BY <1>1, <1>3, <3>1, <5>1
      <4> QED
        BY <4>1, <4>2
    <3>4. ASSUME NEW i \in 1..Len(running), running[i] = x, x # s
          PROVE  \E j \in 1..(Len(running) - 1) : running'[j] = x
      <4>1. CASE i < n
        BY <1>1, <1>2, <3>4, <4>1
      <4>2. CASE i > n
        <5>1. i - 1 \in 1..(Len(running) - 1) /\ ~(i - 1 < n) /\ (i - 1) + 1 = i
          BY <1>1, <4>2
        <5>2. running'[i - 1] = x
          BY <1>2, <3>4, <5>1
        <5> QED
          BY <5>1, <5>2
      <4>3. i # n
        BY <3>4
      <4> QED
        BY <1>1, <4>1, <4>2, <4>3
    <3> QED
      BY <3>1, <3>2, <3>3, <3>4
  <2> QED
    BY <2>1
<1>5. s \in Two!ToSet(running) /\ mem[s] = "live" /\ ~Two!Starting(s)
  BY <1>1, Members DEF Two!Inv, Two!Owned
<1>6. /\ mem' = [mem EXCEPT ![s] = "free"] /\ audio' = [audio EXCEPT ![s] = "closed"]
      /\ fInstanceKey' = [fInstanceKey EXCEPT ![s] = NoKey]
      /\ \A x \in TwoSlaves : mem'[x] = IF x = s THEN "free" ELSE mem[x]
      /\ \A x \in TwoSlaves : fInstanceKey'[x] = IF x = s THEN NoKey ELSE fInstanceKey[x]
      /\ \A x \in TwoSlaves : audio'[x] = IF x = s THEN "closed" ELSE audio[x]
      /\ \A x : Two!Starting(x)' <=> Two!Starting(x)
  BY <1>1 DEF Two!deleteSlaveDSPInstance, Two!TypeOK, Two!Starting
<1> HIDE DEF s
<1>7. Two!TypeOK'
  <2>1. call \in [pc : {"idle", "sweep", "serve", "setKey"},
                  conn : Connections \cup {None}, it : 1..(Len(running') + 1),
                  lost : SUBSET TwoSlaves, dsp : TwoSlaves \cup {None}]
    <3>1. n \in 1..(Len(running') + 1)
      BY <1>1, <1>2
    <3> QED
      BY <1>1, <3>1 DEF Two!TypeOK
  <2> QED
    BY <1>1, <1>2, <1>6, <2>1 DEF Two!TypeOK
<1>8. Two!Owned'
  <2>1. ASSUME NEW i \in DOMAIN running', NEW j \in DOMAIN running', running'[i] = running'[j]
        PROVE  i = j
    <3> DEFINE old(k) == IF k < n THEN k ELSE k + 1
    <3>1. \A k \in 1..(Len(running) - 1) : running'[k] = running[old(k)] /\ old(k) \in 1..Len(running)
      BY <1>1, <1>2
    <3> HIDE DEF old
    <3>2. /\ running[old(i)] = running[old(j)]
          /\ old(i) \in 1..Len(running) /\ old(j) \in 1..Len(running)
      BY <1>2, <2>1, <3>1
    <3>3. old(i) = old(j)
      BY <1>3, <3>2
    <3> QED
      BY <1>1, <1>2, <3>3 DEF old
  <2>2. \A x \in TwoSlaves :
            /\ x \in Two!ToSet(running') => mem'[x] = "live" /\ ~Two!Starting(x)'
            /\ Two!Starting(x)' => mem'[x] = "live"
            /\ mem'[x] = "live" => x \in Two!ToSet(running') \/ Two!Starting(x)'
    BY <1>4, <1>5, <1>6 DEF Two!Inv, Two!Owned
  <2> QED
    BY <2>1, <2>2 DEF Two!Owned
<1>9. Two!StartsApart' /\ Two!InCall'
  BY <1>1 DEF Two!Inv, Two!StartsApart, Two!InCall
<1>10. Two!KeysComing'
  BY <1>4, <1>5, <1>6 DEF Two!Inv, Two!KeysComing
<1>11. Two!LostAhead'
  <2>1. ASSUME NEW x \in call.lost
        PROVE  \/ x \notin Two!ToSet(running') /\ ~Two!Starting(x)'
               \/ /\ call'.pc = "sweep" /\ audio'[x] = "inactive"
                  /\ \E i \in call'.it..Len(running') : running'[i] = x
    <3>1. x \in TwoSlaves
      BY <1>1 DEF Two!TypeOK
    <3>2. CASE x \notin Two!ToSet(running) /\ ~Two!Starting(x)
      BY <1>4, <1>6, <3>2
    <3>3. CASE audio[x] = "inactive" /\ \E i \in n..Len(running) : running[i] = x
      <4>1. PICK i \in n..Len(running) : running[i] = x
        BY <3>3
      <4>2. CASE i = n
        BY <1>4, <1>5, <1>6, <4>1, <4>2 DEF s
      <4>3. CASE i # n
        <5>1. i - 1 \in n..Len(running') /\ i - 1 \in 1..(Len(running) - 1)
              /\ ~(i - 1 < n) /\ (i - 1) + 1 = i
          BY <1>1, <1>2, <4>1, <4>3
        <5>2. running'[i - 1] = x
          BY <1>2, <4>1, <5>1
        <5>3. x # s
          BY <1>1, <1>3, <4>1, <4>3 DEF s
        <5> QED
          BY <1>6, <3>1, <3>3, <5>1, <5>2, <5>3
      <4> QED
        BY <4>2, <4>3
    <3> QED
      BY <3>2, <3>3 DEF Two!Inv, Two!LostAhead
  <2> QED
    BY <2>1 DEF Two!LostAhead
<1> QED
  BY <1>7, <1>8, <1>9, <1>10, <1>11 DEF Two!Inv

\* A turn of the loop of stop_NotActive_DSP.
LEMMA SweepKeepsInv ==
  ASSUME Two!ServerAssumption, Two!Inv, Two!stop_NotActive_DSP
  PROVE  Two!Inv'
<1>1. /\ Two!TypeOK /\ call.pc = "sweep" /\ UNCHANGED <<available, Two!threadVars, req>>
      /\ Len(running) \in Nat /\ call.it \in 1..(Len(running) + 1)
  BY LenProperties DEF Two!Inv, Two!TypeOK, Two!stop_NotActive_DSP
<1>2. CASE /\ call.it > Len(running) /\ call' = [call EXCEPT !.pc = "serve", !.it = 1]
           /\ UNCHANGED Two!slaveVars
  <2>1. /\ call'.pc = "serve" /\ call'.lost = call.lost /\ call'.conn = call.conn
        /\ call' \in [pc : {"idle", "sweep", "serve", "setKey"},
                      conn : Connections \cup {None}, it : 1..(Len(running) + 1),
                      lost : SUBSET TwoSlaves, dsp : TwoSlaves \cup {None}]
    <3>1. 1 \in 1..(Len(running) + 1)
      BY <1>1, <1>2
    <3> QED
      BY <1>1, <1>2, <3>1 DEF Two!TypeOK
  <2>2. Two!TypeOK'
    BY <1>1, <1>2, <2>1 DEF Two!TypeOK, Two!slaveVars, Two!threadVars
  <2>3. Two!InCall' /\ Two!KeysComing' /\ Two!Owned' /\ Two!StartsApart'
    BY <1>1, <1>2, <2>1
       DEF Two!Inv, Two!InCall, Two!KeysComing, Two!Owned, Two!StartsApart, Two!Starting,
           Two!slaveVars, Two!threadVars
  <2>4. Two!LostAhead'
    <3>1. call.it..Len(running) = {}
      BY <1>1, <1>2
    <3> QED
      BY <1>1, <1>2, <2>1, <3>1 DEF Two!Inv, Two!LostAhead, Two!Starting, Two!slaveVars,
                                    Two!threadVars
  <2> QED
    BY <2>2, <2>3, <2>4 DEF Two!Inv
<1>3. CASE /\ call.it <= Len(running) /\ audio[running[call.it]] # "inactive"
           /\ call' = [call EXCEPT !.it = @ + 1] /\ UNCHANGED Two!slaveVars
  <2>1. /\ call'.pc = "sweep" /\ call'.lost = call.lost /\ call'.conn = call.conn
        /\ call'.it = call.it + 1
        /\ call' \in [pc : {"idle", "sweep", "serve", "setKey"},
                      conn : Connections \cup {None}, it : 1..(Len(running) + 1),
                      lost : SUBSET TwoSlaves, dsp : TwoSlaves \cup {None}]
    <3>1. call.it + 1 \in 1..(Len(running) + 1)
      BY <1>1, <1>3
    <3> QED
      BY <1>1, <1>3, <3>1 DEF Two!TypeOK
  <2>2. Two!TypeOK'
    BY <1>1, <1>3, <2>1 DEF Two!TypeOK, Two!slaveVars, Two!threadVars
  <2>3. Two!InCall' /\ Two!KeysComing' /\ Two!Owned' /\ Two!StartsApart'
    BY <1>1, <1>3, <2>1
       DEF Two!Inv, Two!InCall, Two!KeysComing, Two!Owned, Two!StartsApart, Two!Starting,
           Two!slaveVars, Two!threadVars
  <2>4. ASSUME NEW x \in call.lost, audio[x] = "inactive",
               NEW i \in call.it..Len(running), running[i] = x
        PROVE  i \in call'.it..Len(running)
    BY <1>1, <1>3, <2>1, <2>4
  <2>5. Two!LostAhead'
    BY <1>1, <1>3, <2>1, <2>4 DEF Two!Inv, Two!LostAhead, Two!Starting, Two!slaveVars,
                                  Two!threadVars
  <2> QED
    BY <2>2, <2>3, <2>5 DEF Two!Inv
<1> QED
  BY <1>1, <1>2, <1>3, EraseKeepsInv DEF Two!stop_NotActive_DSP

-----------------------------------------------------------------------------
\* Inv holds of every reachable state.
THEOREM ServerInvariance ==
  ASSUME Two!ServerAssumption
  PROVE  Two!Spec => []Two!Inv
<1>1. Two!Init => Two!Inv
  <2> SUFFICES ASSUME Two!Init PROVE Two!Inv
    OBVIOUS
  <2>1. /\ running = <<>> /\ running \in Seq(TwoSlaves) /\ Len(running) = 0
        /\ DOMAIN running = {} /\ Two!ToSet(running) = {}
    BY EmptySeq DEF Two!Init, Two!ToSet
  <2>2. call = Two!Idle /\ Two!Idle.pc = "idle"
    BY DEF Two!Init, Two!Idle
  <2>3. Two!TypeOK
    BY <2>1 DEF Two!Init, Two!TypeOK, Two!Idle
  <2>4. Two!Owned /\ Two!StartsApart /\ Two!KeysComing
    BY <2>1 DEF Two!Init, Two!Owned, Two!StartsApart, Two!KeysComing, Two!Starting
  <2> QED
    BY <2>2, <2>3, <2>4 DEF Two!Inv, Two!InCall, Two!LostAhead
<1>2. Two!Inv /\ [Two!Next]_(Two!vars) => Two!Inv'
  <2> SUFFICES ASSUME Two!Inv, [Two!Next]_(Two!vars) PROVE Two!Inv'
    OBVIOUS
  <2>1. CASE UNCHANGED Two!vars
    BY <2>1 DEF Two!vars, Two!slaveVars, Two!threadVars, Two!Inv, Two!TypeOK, Two!Owned,
                Two!StartsApart, Two!InCall,
                Two!KeysComing, Two!LostAhead, Two!Starting
  <2>2. CASE Two!Serve
    BY <2>2, ServeKeepsInv, CreateKeepsInv, SetKeyKeepsInv DEF Two!Serve
  <2>3. ASSUME NEW s \in TwoSlaves, Two!Thread(s) \/ Two!Lose(s) PROVE Two!Inv'
    BY <2>3, ThreadKeepsInv, PushKeepsInv DEF Two!Thread
  <2> QED
    BY <2>1, <2>2, <2>3, RequestKeepsInv, StartCallKeepsInv, SweepKeepsInv DEF Two!Next
<1> QED
  BY <1>1, <1>2, PTL DEF Two!Spec

\* Whatever the order of the daemon's calls and the start threads, a slave that
\* exists is in fRunningDsp once or its start thread has it, and every slave of the
\* list has its key when a request looks through it.
THEOREM NoSlaveLost ==
  ASSUME Two!ServerAssumption
  PROVE  Two!Spec => [](Two!SlavesAccounted /\ Two!KeysKnown)
<1>1. Two!Inv => Two!SlavesAccounted
  <2> SUFFICES ASSUME Two!Inv, NEW s \in TwoSlaves
               PROVE  mem[s] = "live" <=> (s \in Two!ToSet(running)) # (Two!Starting(s))
    BY DEF Two!Inv, Two!Owned, Two!SlavesAccounted, Two!Starting
  <2>1. /\ s \in Two!ToSet(running) => mem[s] = "live" /\ ~Two!Starting(s)
        /\ Two!Starting(s) => mem[s] = "live"
        /\ mem[s] = "live" => s \in Two!ToSet(running) \/ Two!Starting(s)
    BY DEF Two!Inv, Two!Owned
  <2>2. Two!Starting(s) \in BOOLEAN /\ (s \in Two!ToSet(running)) \in BOOLEAN
    BY DEF Two!Starting
  <2> QED
    BY <2>1, <2>2
<1>2. Two!Inv => Two!KeysKnown
  <2>1. Two!Inv => \A s \in Two!ToSet(running) : s \in TwoSlaves
    BY Members DEF Two!Inv, Two!TypeOK
  <2> QED
    BY <2>1 DEF Two!Inv, Two!KeysComing, Two!KeysKnown
<1> QED
  BY <1>1, <1>2, ServerInvariance, PTL

\* The erase in the loop of stop_NotActive_DSP skips no slave: one found inactive
\* when a call starts is not in the list when the request is served.
THEOREM SweepComplete ==
  ASSUME Two!ServerAssumption
  PROVE  Two!Spec => []Two!LostAreStopped
<1>1. Two!Inv => Two!LostAreStopped
  BY DEF Two!Inv, Two!LostAhead, Two!LostAreStopped
<1> QED
  BY <1>1, ServerInvariance, PTL

-----------------------------------------------------------------------------
(***************************************************************************)
(* The invariants of the run                                               *)
(***************************************************************************)
\* A behaviour whose part is "two" is one of the server.
LEMMA TwoBehaviour == Spec => ([](part = "two") /\ Two!Spec) \/ []~(part = "two")
<1>1. Init /\ part = "two" => Two!Init
  BY DEF Init
<1>2. part = "two" /\ [Next]_vars => (part = "two")' /\ [Two!Next]_(Two!vars)
  BY DEF Next, Alone, vars, serverVars, Two!vars, Two!slaveVars, Two!threadVars
<1>3. ~(part = "two") /\ [Next]_vars => ~(part = "two")'
  BY DEF Next, Alone, vars
<1> QED
  BY <1>1, <1>2, <1>3, PTL DEF Spec, Two!Spec

\* A slave that exists is in fRunningDsp once or with its start thread, and every
\* slave of the list has its key when a request looks through it (start_audioSlave,
\* createInstance, stop_NotActive_DSP).
THEOREM SlavesAccountedHolds == Spec => []SlavesAccounted
<1>1. Two!Spec => [](Two!SlavesAccounted /\ Two!KeysKnown)
  BY TwoAssumption, NoSlaveLost
<1>2. ~(part = "two") \/ (Two!SlavesAccounted /\ Two!KeysKnown) => SlavesAccounted
  BY DEF SlavesAccounted
<1> QED
  BY <1>1, <1>2, TwoBehaviour, PTL

\* A slave found inactive when a call starts is gone when it is served: the erase in
\* the loop of stop_NotActive_DSP skips none.
THEOREM LostAreStoppedHolds == Spec => []LostAreStopped
<1>1. Two!Spec => []Two!LostAreStopped
  BY TwoAssumption, SweepComplete
<1>2. Two!Spec => []Two!Inv
  BY TwoAssumption, ServerInvariance
<1>3. ~(part = "two") \/ (Two!LostAreStopped /\ Two!Inv) => LostAreStopped
  BY DEF LostAreStopped
<1> QED
  BY <1>1, <1>2, <1>3, TwoBehaviour, PTL

-----------------------------------------------------------------------------
(***************************************************************************)
(* The discovery of servers, for any number of them, any length of a       *)
(* second and any network                                                  *)
(***************************************************************************)
\* A product grows by one factor at a time, and with its factors.
LEMMA Products ==
  ASSUME NEW l \in Nat, NEW m \in Nat, NEW s \in Nat
  PROVE  /\ l * s \in Nat /\ (l + 1) * s = l * s + s
         /\ l <= m => l * s <= m * s
OBVIOUS

\* Whole seconds of a difference of at most two, and of more than two.
LEMMA WholeSeconds ==
  ASSUME NEW x \in Int, NEW s \in Nat \ {0}
  PROVE  /\ x \div s \in Int
         /\ x >= -(2 * s) => -(x \div s) < 3
         /\ -(x \div s) < 3 => x >= -(2 * s)
OBVIOUS

\* A set of processes that is not empty has a last one.
LEMMA LastProcess ==
  ASSUME Dns!DNSAssumption, NEW S \in SUBSET Dns!Processes, S # {}
  PROVE  \E p \in S : \A q \in S : q <= p
<1> DEFINE T == {n \in Nat : NProcesses - n \in S}
<1>1. NProcesses \in Nat /\ \A q \in S : q \in Nat /\ q <= NProcesses
  BY DEF Dns!DNSAssumption, Dns!Processes
<1>2. \A q \in S : NProcesses - q \in T
  BY <1>1
<1>3. T \in SUBSET Nat /\ T # {}
  BY <1>2
<1>4. PICK n \in T : \A m \in T : ~(<<m, n>> \in OpToRel(<, Nat))
  BY ONLY <1>3, NatLessThanWellFounded, WFMin
<1>5. NProcesses - n \in S /\ n \in Nat
  OBVIOUS
<1>6. ASSUME NEW q \in S PROVE q <= NProcesses - n
  <2>1. NProcesses - q \in T /\ NProcesses - q \in Nat
    BY <1>2
  <2>2. ~(NProcesses - q < n)
    BY <1>4, <1>5, <2>1 DEF OpToRel
  <2> QED
    BY <1>1, <1>5, <2>1, <2>2
<1> QED
  BY <1>5, <1>6

\* What processes and network of a behaviour do.
LEMMA LimitParts ==
  ASSUME Dns!DNSAssumption, limit \in Networks
  PROVE  limit.slow \in Nat /\ limit.late \in Nat /\ limit.lost \in Nat
BY DEF Dns!DNSAssumption

\* The numbers of the invariant, and what the silence of a process is bounded by.
LEMMA Turns ==
  ASSUME Dns!DNSAssumption, Dns!TypeOK
  PROVE  /\ Second \in Nat \ {0} /\ limit.lost \in Nat /\ limit.late \in Nat
         /\ Dns!Turn \in Nat /\ Dns!Turn = Second + limit.slow
         /\ Dns!Forgotten \in Nat /\ limit.late < Dns!Forgotten
         /\ (limit.lost + 1) * Dns!Turn \in Nat
         /\ \A p \in Dns!Processes :
               /\ lost[p] \in Nat /\ slept[p] \in Nat /\ age[p] \in Nat /\ down[p] \in Nat
               /\ slept[p] <= Dns!Turn
               /\ flight[p] \in SUBSET (0..limit.late)
               /\ lost[p] * Dns!Turn \in Nat
               /\ (lost[p] + 1) * Dns!Turn = lost[p] * Dns!Turn + Dns!Turn
               /\ lost[p] * Dns!Turn + slept[p] <= (limit.lost + 1) * Dns!Turn
<1>1. Second \in Nat \ {0} /\ limit.slow \in Nat /\ limit.lost \in Nat /\ limit.late \in Nat
  BY LimitParts DEF Dns!DNSAssumption, Dns!TypeOK
<1>2. Dns!Turn \in Nat /\ Dns!Turn = Second + limit.slow
  BY <1>1 DEF Dns!Turn
<1>3. Dns!Forgotten \in Nat /\ limit.late < Dns!Forgotten
  BY <1>1 DEF Dns!Forgotten
<1>4. /\ (limit.lost + 1) * Dns!Turn = limit.lost * Dns!Turn + Dns!Turn
      /\ limit.lost * Dns!Turn \in Nat
  BY <1>1, <1>2, Products
<1>5. ASSUME NEW p \in Dns!Processes
      PROVE  /\ lost[p] \in Nat /\ slept[p] \in Nat /\ age[p] \in Nat /\ down[p] \in Nat
             /\ slept[p] <= Dns!Turn /\ lost[p] <= limit.lost
             /\ flight[p] \in SUBSET (0..limit.late)
  BY <1>1, <1>2, <1>3 DEF Dns!TypeOK
<1>6. ASSUME NEW p \in Dns!Processes
      PROVE  /\ lost[p] * Dns!Turn \in Nat
             /\ (lost[p] + 1) * Dns!Turn = lost[p] * Dns!Turn + Dns!Turn
             /\ lost[p] * Dns!Turn <= limit.lost * Dns!Turn
  BY <1>1, <1>2, <1>5, Products
<1> QED
  BY <1>1, <1>2, <1>3, <1>4, <1>5, <1>6

\* The inductive invariant: a process that runs and was heard of was heard of before
\* the messages lost since and its current sleep, or before a turn that sent a message
\* that is under way; the messages of a stopped one are older than its stop
\* (registration, pingHandler).
THEOREM DnsInvariance ==
  ASSUME Dns!DNSAssumption
  PROVE  Dns!Spec => []Dns!Inv
<1>1. Dns!Init => Dns!Inv
  <2> SUFFICES ASSUME Dns!Init PROVE Dns!Inv
    OBVIOUS
  <2>1. limit \in Networks /\ Second \in Nat \ {0}
    BY DEF Dns!Init, Dns!DNSAssumption
  <2>2. limit.slow \in Nat /\ limit.late \in Nat /\ limit.lost \in Nat
    BY <2>1, LimitParts
  <2>3. Dns!TypeOK
    BY <2>1, <2>2 DEF Dns!Init, Dns!TypeOK, Dns!Turn, Dns!Forgotten
  <2>4. Dns!Forgotten \in Nat
    BY <2>1, <2>2 DEF Dns!Forgotten
  <2> QED
    BY <2>2, <2>3, <2>4 DEF Dns!Init, Dns!Inv
<1>2. ASSUME Dns!Inv, [Dns!Next]_(Dns!vars) PROVE Dns!Inv'
  <2> DEFINE Wait == (limit.lost + 1) * Dns!Turn
             Held(p) == /\ p \in up => down[p] = 0
                        /\ \A m \in flight[p] : down[p] <= m
                        /\ down[p] <= age[p] + limit.late
                        /\ p \in up /\ age[p] < Dns!Forgotten => Dns!Heard(p)
  <2>0. Dns!TypeOK /\ \A p \in Dns!Processes : Held(p)
    BY <1>2 DEF Dns!Inv
  <2>1. /\ Second \in Nat \ {0} /\ limit.lost \in Nat /\ limit.late \in Nat
        /\ Dns!Turn \in Nat /\ Dns!Forgotten \in Nat /\ limit.late < Dns!Forgotten
        /\ Wait \in Nat
        /\ \A p \in Dns!Processes :
               /\ lost[p] \in Nat /\ slept[p] \in Nat /\ age[p] \in Nat /\ down[p] \in Nat
               /\ slept[p] <= Dns!Turn
               /\ flight[p] \in SUBSET (0..limit.late)
               /\ lost[p] * Dns!Turn \in Nat
               /\ (lost[p] + 1) * Dns!Turn = lost[p] * Dns!Turn + Dns!Turn
               /\ lost[p] * Dns!Turn + slept[p] <= Wait
    BY <2>0, Turns
  <2>2. limit' = limit /\ Dns!Turn' = Dns!Turn /\ Dns!Forgotten' = Dns!Forgotten /\ Wait' = Wait
    BY <1>2 DEF Dns!Next, Dns!vars, Dns!Tick, Dns!StartProcess, Dns!StopProcess, Dns!pingHandler,
           Dns!MessageSent, Dns!MessageLost, Dns!Registration, Dns!Turn, Dns!Forgotten
  <2> HIDE DEF Wait
  <2>3. \A p \in Dns!Processes :
           Dns!Heard(p) <=> IF flight[p] = {} THEN age[p] <= lost[p] * Dns!Turn + slept[p]
                            ELSE \E m \in flight[p] : age[p] <= m + Wait
    BY DEF Wait, Dns!Heard
  <2>4. \A p \in Dns!Processes :
           (Dns!Heard(p))' <=> IF flight'[p] = {} THEN age'[p] <= lost'[p] * Dns!Turn + slept'[p]
                               ELSE \E m \in flight'[p] : age'[p] <= m + Wait
    BY <2>2 DEF Wait, Dns!Heard
  <2>5. SUFFICES Dns!TypeOK' /\ \A p \in Dns!Processes : Held(p)'
    BY DEF Dns!Inv
  <2>6. CASE Dns!Tick
    <3>0. /\ now' = (now + 1) % Second
          /\ slept' = [p \in Dns!Processes |-> IF p \in up THEN slept[p] + 1 ELSE 0]
          /\ flight' = [p \in Dns!Processes |-> {m + 1 : m \in flight[p]}]
          /\ age' = [p \in Dns!Processes |-> Dns!Older(age[p])]
          /\ down' = [p \in Dns!Processes |-> IF p \in up THEN 0 ELSE Dns!Older(down[p])]
          /\ \A p \in up : slept[p] < Dns!Turn
          /\ \A p \in Dns!Processes : \A m \in flight[p] : m < limit.late
          /\ UNCHANGED <<limit, up, lost>>
      BY <2>6 DEF Dns!Tick
    <3>1. Dns!TypeOK'
      <4>1. flight' \in [Dns!Processes -> SUBSET (0..limit.late)]
        BY <2>1, <3>0
      <4>2. now' \in 0..(Second - 1)
        BY <2>0, <2>1, <3>0 DEF Dns!TypeOK
      <4>3. /\ slept' \in [Dns!Processes -> 0..Dns!Turn]
            /\ age' \in [Dns!Processes -> 0..Dns!Forgotten]
            /\ down' \in [Dns!Processes -> 0..Dns!Forgotten]
        BY <2>0, <2>1, <3>0 DEF Dns!TypeOK, Dns!Older
      <4> QED
        BY <2>0, <2>2, <3>0, <4>1, <4>2, <4>3 DEF Dns!TypeOK
    <3>2. ASSUME NEW p \in Dns!Processes PROVE Held(p)'
      <4>1. p \in up' => down'[p] = 0
        BY <3>0
      <4>2. \A m \in flight'[p] : down'[p] <= m
        BY <2>0, <2>1, <3>0 DEF Dns!Older
      <4>3. down'[p] <= age'[p] + limit'.late
        BY <2>0, <2>1, <2>2, <3>0 DEF Dns!Older
      <4>4. ASSUME p \in up', age'[p] < Dns!Forgotten' PROVE (Dns!Heard(p))'
        <5>1. p \in up /\ age[p] < Dns!Forgotten /\ age'[p] = age[p] + 1
          BY <2>1, <2>2, <3>0, <4>4 DEF Dns!Older
        <5>2. CASE flight[p] = {}
          <6>1. flight'[p] = {} /\ lost'[p] = lost[p] /\ slept'[p] = slept[p] + 1
            BY <3>0, <5>1, <5>2
          <6> QED
            BY <2>0, <2>1, <2>3, <2>4, <5>1, <5>2, <6>1
        <5>3. CASE flight[p] # {}
          <6>1. PICK m \in flight[p] : age[p] <= m + Wait
            BY <2>0, <2>3, <5>1, <5>3
          <6>2. m + 1 \in flight'[p] /\ m \in Nat
            BY <2>1, <3>0
          <6>3. age'[p] <= (m + 1) + Wait
            BY <2>1, <5>1, <6>1, <6>2
          <6> QED
            BY <2>4, <6>2, <6>3
        <5> QED
          BY <5>2, <5>3
      <4> QED
        BY <4>1, <4>2, <4>3, <4>4
    <3> QED
      BY <3>1, <3>2
  <2>7. ASSUME NEW p \in Dns!Processes, Dns!StartProcess(p)
        PROVE  Dns!TypeOK' /\ \A q \in Dns!Processes : Held(q)'
    <3>0. /\ p \notin up /\ age[p] = Dns!Forgotten /\ up' = up \cup {p}
          /\ down' = [down EXCEPT ![p] = 0] /\ slept' = [slept EXCEPT ![p] = 0]
          /\ lost' = [lost EXCEPT ![p] = 0] /\ UNCHANGED <<limit, now, flight, age>>
      BY <2>7 DEF Dns!StartProcess
    <3>1. Dns!TypeOK'
      BY <2>0, <2>1, <2>2, <3>0 DEF Dns!TypeOK
    <3>2. ASSUME NEW q \in Dns!Processes PROVE Held(q)'
      <4>1. CASE q = p
        BY <2>0, <2>1, <2>2, <3>0, <4>1 DEF Dns!TypeOK
      <4>2. CASE q # p
        <5>1. /\ down'[q] = down[q] /\ slept'[q] = slept[q] /\ lost'[q] = lost[q]
              /\ (q \in up' <=> q \in up)
          BY <2>0, <3>0, <4>2 DEF Dns!TypeOK
        <5> QED
          BY <2>0, <2>2, <2>3, <2>4, <3>0, <5>1
      <4> QED
        BY <4>1, <4>2
    <3> QED
      BY <3>1, <3>2
  <2>8. ASSUME NEW p \in Dns!Processes, Dns!StopProcess(p)
        PROVE  Dns!TypeOK' /\ \A q \in Dns!Processes : Held(q)'
    <3>0. up' = up \ {p} /\ UNCHANGED <<limit, now, slept, lost, flight, age, down>>
      BY <2>8 DEF Dns!StopProcess
    <3>1. Dns!TypeOK'
      BY <2>0, <2>2, <3>0 DEF Dns!TypeOK
    <3>2. ASSUME NEW q \in Dns!Processes PROVE Held(q)'
      BY <2>0, <2>2, <2>3, <2>4, <3>0
    <3> QED
      BY <3>1, <3>2
  <2>9. ASSUME NEW p \in Dns!Processes, Dns!MessageSent(p)
        PROVE  Dns!TypeOK' /\ \A q \in Dns!Processes : Held(q)'
    <3>0. /\ p \in up /\ slept' = [slept EXCEPT ![p] = 0] /\ lost' = [lost EXCEPT ![p] = 0]
          /\ flight' = [flight EXCEPT ![p] = @ \cup {0}]
          /\ UNCHANGED <<limit, now, up, age, down>>
      BY <2>9 DEF Dns!MessageSent, Dns!Registration
    <3>1. Dns!TypeOK'
      BY <2>0, <2>1, <2>2, <3>0 DEF Dns!TypeOK
    <3>2. ASSUME NEW q \in Dns!Processes PROVE Held(q)'
      <4>1. CASE q = p
        <5>1. flight'[q] = flight[q] \cup {0} /\ down[q] = 0 /\ 0 \in flight'[q]
          BY <2>0, <3>0, <4>1 DEF Dns!TypeOK
        <5>2. ASSUME age[q] < Dns!Forgotten PROVE \E m \in flight'[q] : age'[q] <= m + Wait
          <6>1. CASE flight[q] = {}
            BY <2>0, <2>1, <2>3, <3>0, <4>1, <5>1, <5>2, <6>1
          <6>2. CASE flight[q] # {}
            BY <2>0, <2>1, <2>3, <3>0, <4>1, <5>1, <5>2, <6>2
          <6> QED
            BY <6>1, <6>2
        <5> QED
          BY <2>0, <2>1, <2>2, <2>4, <3>0, <5>1, <5>2
      <4>2. CASE q # p
        <5>1. slept'[q] = slept[q] /\ lost'[q] = lost[q] /\ flight'[q] = flight[q]
          BY <2>0, <3>0, <4>2 DEF Dns!TypeOK
        <5> QED
          BY <2>0, <2>2, <2>3, <2>4, <3>0, <5>1
      <4> QED
        BY <4>1, <4>2
    <3> QED
      BY <3>1, <3>2
  <2>10. ASSUME NEW p \in Dns!Processes, Dns!MessageLost(p)
         PROVE  Dns!TypeOK' /\ \A q \in Dns!Processes : Held(q)'
    <3>0. /\ p \in up /\ slept' = [slept EXCEPT ![p] = 0] /\ lost' = [lost EXCEPT ![p] = @ + 1]
          /\ lost[p] < limit.lost
          /\ UNCHANGED <<limit, now, up, flight, age, down>>
      BY <2>10 DEF Dns!MessageLost, Dns!Registration
    <3>1. Dns!TypeOK'
      BY <2>0, <2>1, <2>2, <3>0 DEF Dns!TypeOK
    <3>2. ASSUME NEW q \in Dns!Processes PROVE Held(q)'
      <4>1. CASE q = p
        <5>1. slept'[q] = 0 /\ lost'[q] = lost[q] + 1
          BY <2>0, <3>0, <4>1 DEF Dns!TypeOK
        <5>2. lost'[q] * Dns!Turn + slept'[q] = lost[q] * Dns!Turn + Dns!Turn
          BY <2>1, <5>1
        <5>3. age[q] <= lost[q] * Dns!Turn + slept[q] => age[q] <= lost'[q] * Dns!Turn + slept'[q]
          BY <2>1, <5>2
        <5> QED
          BY <2>0, <2>2, <2>3, <2>4, <3>0, <5>3
      <4>2. CASE q # p
        <5>1. slept'[q] = slept[q] /\ lost'[q] = lost[q]
          BY <2>0, <3>0, <4>2 DEF Dns!TypeOK
        <5> QED
          BY <2>0, <2>2, <2>3, <2>4, <3>0, <5>1
      <4> QED
        BY <4>1, <4>2
    <3> QED
      BY <3>1, <3>2
  <2>11. ASSUME NEW p \in Dns!Processes, Dns!pingHandler(p)
         PROVE  Dns!TypeOK' /\ \A q \in Dns!Processes : Held(q)'
    <3>0. PICK m \in flight[p] : /\ flight' = [flight EXCEPT ![p] = @ \ {m}]
                                 /\ age' = [age EXCEPT ![p] = 0]
                                 /\ UNCHANGED <<limit, now, up, slept, lost, down>>
      BY <2>11 DEF Dns!pingHandler
    <3>1. Dns!TypeOK'
      BY <2>0, <2>1, <2>2, <3>0 DEF Dns!TypeOK
    <3>2. ASSUME NEW q \in Dns!Processes PROVE Held(q)'
      <4>1. CASE q = p
        <5>1. flight'[q] = flight[q] \ {m} /\ age'[q] = 0 /\ down[q] <= m /\ m <= limit.late
          BY <2>0, <2>1, <3>0, <4>1 DEF Dns!TypeOK
        <5>2. (Dns!Heard(q))'
          <6>1. CASE flight'[q] = {}
            BY <2>1, <2>4, <3>0, <5>1, <6>1
          <6>2. CASE flight'[q] # {}
            <7>1. PICK k \in flight'[q] : k \in Nat
              BY <2>1, <5>1, <6>2
            <7>2. age'[q] <= k + Wait
              BY <2>1, <5>1, <7>1
            <7> QED
              BY <2>4, <6>2, <7>1, <7>2
          <6> QED
            BY <6>1, <6>2
        <5> QED
          BY <2>0, <2>1, <2>2, <3>0, <5>1, <5>2
      <4>2. CASE q # p
        <5>1. flight'[q] = flight[q] /\ age'[q] = age[q]
          BY <2>0, <3>0, <4>2 DEF Dns!TypeOK
        <5> QED
          BY <2>0, <2>2, <2>3, <2>4, <3>0, <5>1
      <4> QED
        BY <4>1, <4>2
    <3> QED
      BY <3>1, <3>2
  <2>12. CASE UNCHANGED Dns!vars
    <3>0. UNCHANGED <<limit, now, up, slept, lost, flight, age, down>>
      BY <2>12 DEF Dns!vars
    <3>1. Dns!TypeOK'
      BY <2>0, <2>2, <3>0 DEF Dns!TypeOK
    <3> QED
      BY <2>0, <2>2, <2>3, <2>4, <3>0, <3>1
  <2> QED
    BY <1>2, <2>6, <2>7, <2>8, <2>9, <2>10, <2>11, <2>12 DEF Dns!Next
<1> QED
  BY <1>1, <1>2, PTL DEF Dns!Spec

\* A machine with a server that runs and was heard of stays in the list as long as the
\* turns of the messages lost in a row, and the lateness of a message, make up two
\* seconds at most (registration, getRemoteMachinesAvailable).
THEOREM RunningStays ==
  ASSUME Dns!DNSAssumption, Dns!Timely
  PROVE  Dns!Spec => []Dns!RunningListed
<1>1. ASSUME Dns!Inv PROVE Dns!RunningListed
  <2> SUFFICES ASSUME NEW p \in up, age[p] < Dns!Forgotten
               PROVE  Dns!Host(p) \in DOMAIN Dns!MachineList
    BY DEF Dns!RunningListed
  <2>1. p \in Dns!Processes /\ Second \in Nat \ {0} /\ now \in 0..(Second - 1) /\ age[p] \in Nat
    BY <1>1 DEF Dns!Inv, Dns!TypeOK, Dns!DNSAssumption
  <2>2. age[p] <= 2 * Second
    <3>1. /\ limit.lost \in Nat /\ limit.late \in Nat /\ slept[p] \in Nat
          /\ (limit.lost + 1) * Dns!Turn \in Nat /\ lost[p] * Dns!Turn \in Nat
          /\ lost[p] * Dns!Turn + slept[p] <= (limit.lost + 1) * Dns!Turn
          /\ flight[p] \in SUBSET (0..limit.late)
      BY <1>1, <2>1, Turns DEF Dns!Inv
    <3>2. (limit.lost + 1) * Dns!Turn + limit.late <= 2 * Second
      BY <1>1 DEF Dns!Timely, Dns!Inv, Dns!TypeOK, Dns!Turn
    <3>3. Dns!Heard(p)
      BY <1>1, <2>1 DEF Dns!Inv
    <3>4. CASE flight[p] = {}
      BY <2>1, <3>1, <3>2, <3>3, <3>4 DEF Dns!Heard
    <3>5. CASE flight[p] # {}
      <4>1. PICK m \in flight[p] : age[p] <= m + (limit.lost + 1) * Dns!Turn
        BY <3>3, <3>5 DEF Dns!Heard
      <4> QED
        BY <2>1, <3>1, <3>2, <4>1
    <3> QED
      BY <3>4, <3>5
  <2>3. -((now - age[p]) \div Second) < 3
    <3>1. now - age[p] \in Int /\ now - age[p] >= -(2 * Second)
      BY <2>1, <2>2
    <3> QED
      BY <2>1, <3>1, WholeSeconds
  <2> QED
    BY <2>1, <2>3 DEF Dns!MachineList, Dns!Connected, Dns!Seconds
<1> QED
  BY <1>1, DnsInvariance, PTL

\* The server listed for a machine runs, or stopped less than three seconds and the
\* longest time of a message ago: what a stopped server sent may still be received, and
\* is stamped when it is (pingHandler, getRemoteMachinesAvailable).
THEOREM StoppedLeaves ==
  ASSUME Dns!DNSAssumption
  PROVE  Dns!Spec => []Dns!StoppedUnlisted
<1>1. ASSUME Dns!Inv PROVE Dns!StoppedUnlisted
  <2> SUFFICES ASSUME NEW h \in DOMAIN Dns!MachineList
               PROVE  down[Dns!MachineList[h]] < 3 * Second + limit.late
    BY DEF Dns!StoppedUnlisted
  <2> DEFINE known == {p \in Dns!Processes : Dns!Connected(p)}
             here == {p \in known : Dns!Host(p) = h}
  <2>1. here # {} /\ here \in SUBSET Dns!Processes
    BY DEF Dns!MachineList
  <2>2. \E p \in known : Dns!Host(p) = h /\ \A q \in known : Dns!Host(q) = h => q <= p
    <3>1. PICK p \in here : \A q \in here : q <= p
      BY <2>1, LastProcess
    <3> QED
      BY <3>1
  <2>3. Dns!MachineList[h] = CHOOSE p \in known : Dns!Host(p) = h /\ \A q \in known : Dns!Host(q) = h => q <= p
    BY DEF Dns!MachineList
  <2>4. PICK p \in known : p = Dns!MachineList[h]
    BY <2>2, <2>3
  <2>5. /\ p \in Dns!Processes /\ Second \in Nat \ {0} /\ now \in 0..(Second - 1) /\ age[p] \in Nat
        /\ down[p] \in Nat /\ down[p] <= age[p] + limit.late /\ limit.late \in Nat
    BY <1>1, Turns DEF Dns!Inv, Dns!TypeOK, Dns!DNSAssumption
  <2>6. now - age[p] >= -(2 * Second)
    <3>1. -((now - age[p]) \div Second) < 3 /\ now - age[p] \in Int
      BY <2>5 DEF Dns!Connected, Dns!Seconds
    <3> QED
      BY <2>5, <3>1, WholeSeconds
  <2> QED
    BY <2>4, <2>5, <2>6
<1> QED
  BY <1>1, DnsInvariance, PTL

\* The list of machines follows the servers: one that runs and was heard of is in it,
\* with messages lost or late now and then, and one that stopped leaves it
\* (getRemoteMachinesAvailable, registration, pingHandler).
THEOREM ListFollowsServersHolds == Spec => []ListFollowsServers
<1>1. Init /\ part = "dns" => Dns!Init
  BY DEF Init
<1>2. part = "dns" /\ [Next]_vars => (part = "dns")' /\ [Dns!Next]_(Dns!vars)
  BY DEF Next, Alone, vars, dnsVars, Dns!vars
<1>3. ~(part = "dns") /\ [Next]_vars => ~(part = "dns")'
  BY DEF Next, Alone, vars
<1>4. Dns!Spec => []Dns!Inv
  BY NetworksAssumption, DnsInvariance
<1>5. Dns!Spec => []Dns!RunningListed
  BY NetworksAssumption, RunningStays
<1>6. Dns!Spec => []Dns!StoppedUnlisted
  BY NetworksAssumption, StoppedLeaves
<1>7. ~(part = "dns") \/ (Dns!RunningListed /\ Dns!StoppedUnlisted /\ Dns!Inv)
      => ListFollowsServers
  BY DEF ListFollowsServers
<1> QED
  BY <1>1, <1>2, <1>3, <1>4, <1>5, <1>6, <1>7, PTL DEF Spec, Dns!Spec

-----------------------------------------------------------------------------
(***************************************************************************)
(* Rendering, for any buffer size and any number of frames of a call       *)
(***************************************************************************)
\* The cycles of a block: whole ones, then what is left.
LEMMA CyclesOfBlock ==
  ASSUME Render!RenderAssumption, NEW n \in Nat
  PROVE  /\ n \div BufferSize \in Nat /\ n % BufferSize \in Nat
         /\ n % BufferSize < BufferSize
         /\ n = (n \div BufferSize) * BufferSize + (n % BufferSize)
<1>1. BufferSize \in Nat \ {0}
  BY DEF Render!RenderAssumption
<1>2. n \div BufferSize \in Int /\ n \div BufferSize >= 0
  BY <1>1
<1>3. n % BufferSize \in Int /\ n % BufferSize >= 0 /\ n % BufferSize < BufferSize
  BY <1>1
<1>4. n = (n \div BufferSize) * BufferSize + (n % BufferSize)
  BY <1>1
<1> QED
  BY <1>2, <1>3, <1>4

\* A cycle of the call has frames of the block, and the next one starts where it ends.
LEMMA CycleInBlock ==
  ASSUME Render!RenderAssumption, Render!TypeOK, cycle < Render!Cycles
  PROVE  /\ Render!Offset \in Nat /\ Render!Size \in 1..BufferSize /\ Render!Offset + Render!Size <= count
         /\ Render!Offset \in Render!Frames
         /\ cycle + 1 < Render!Cycles => Render!Offset + Render!Size = (cycle + 1) * BufferSize
         /\ cycle + 1 = Render!Cycles => Render!Offset + Render!Size = count
         /\ cycle + 1 <= Render!Cycles /\ cycle + 1 <= MaxCount
<1> DEFINE n == Render!numberOfCycles
           r == Render!lastCycle
<1>1. /\ count \in Nat /\ cycle \in Nat /\ count <= MaxCount /\ MaxCount \in Nat
      /\ BufferSize \in Nat \ {0}
  BY DEF Render!TypeOK, Render!RenderAssumption
<1>2. n \in Nat /\ r \in Nat /\ r < BufferSize /\ count = n * BufferSize + r
  BY <1>1, CyclesOfBlock DEF Render!numberOfCycles, Render!lastCycle
<1>3. Render!Cycles = n + (IF r > 0 THEN 1 ELSE 0)
  BY DEF Render!Cycles
<1>4. Render!Offset = cycle * BufferSize /\ Render!Size = IF cycle < n THEN BufferSize ELSE r
  BY DEF Render!Offset, Render!Size
<1> HIDE DEF n, r
<1>5. /\ cycle * BufferSize \in Nat /\ n * BufferSize \in Nat
      /\ (cycle + 1) * BufferSize = cycle * BufferSize + BufferSize
  BY <1>1, <1>2
<1>6. CASE cycle < n
  <2>1. (cycle + 1) * BufferSize <= n * BufferSize
    BY <1>1, <1>2, <1>6
  <2>2. cycle + 1 = Render!Cycles => r = 0 /\ cycle + 1 = n
    BY <1>1, <1>2, <1>3, <1>6
  <2>3. cycle + 1 = n => (cycle + 1) * BufferSize = n * BufferSize
    OBVIOUS
  <2>4. cycle <= cycle * BufferSize
    BY <1>1
  <2> QED
    BY <1>1, <1>2, <1>3, <1>4, <1>5, <1>6, <2>1, <2>2, <2>3, <2>4 DEF Render!Frames
<1>7. CASE cycle = n /\ r > 0
  <2>1. cycle <= cycle * BufferSize
    BY <1>1
  <2>2. cycle * BufferSize = n * BufferSize
    BY <1>7
  <2> QED
    BY <1>1, <1>2, <1>3, <1>4, <1>5, <1>7, <2>1, <2>2 DEF Render!Frames
<1> QED
  BY <1>1, <1>2, <1>3, <1>6, <1>7

\* One more slice, from where the last one ended.
LEMMA OneMoreSlice ==
  ASSUME Render!TypeOK, NEW s \in Render!Frames \X (1..BufferSize), s[1] = Render!Covered,
         \A j \in 1..Len(slices) : slices[j][1] = Render!EndOf(j - 1),
         slices' = Append(slices, s)
  PROVE  /\ slices' \in Seq(Render!Frames \X (1..BufferSize))
         /\ \A j \in 1..Len(slices') : slices'[j][1] = Render!EndOf(j - 1)'
         /\ Render!Covered' = s[1] + s[2]
<1>1. /\ slices \in Seq(Render!Frames \X (1..BufferSize)) /\ Len(slices) \in Nat
      /\ slices' \in Seq(Render!Frames \X (1..BufferSize)) /\ Len(slices') = Len(slices) + 1
      /\ \A j \in 1..Len(slices) : slices'[j] = slices[j]
      /\ slices'[Len(slices) + 1] = s
  BY AppendProperties, LenProperties DEF Render!TypeOK
<1>2. ASSUME NEW j \in 0..Len(slices) PROVE Render!EndOf(j)' = Render!EndOf(j)
  BY <1>1 DEF Render!EndOf
<1>3. ASSUME NEW j \in 1..Len(slices') PROVE slices'[j][1] = Render!EndOf(j - 1)'
  <2>1. CASE j \in 1..Len(slices)
    BY <1>1, <1>2, <2>1 DEF Render!EndOf
  <2>2. CASE j = Len(slices) + 1
    BY <1>1, <1>2, <2>2 DEF Render!Covered
  <2> QED
    BY <1>1, <2>1, <2>2
<1> QED
  BY <1>1, <1>3 DEF Render!Covered, Render!EndOf

\* The inductive invariant: what was sent and written between two slices
\* (compute, setupBuffers, sendSlice, recvSlice).
LEMMA RenderInvariance ==
  ASSUME Render!RenderAssumption
  PROVE  Render!Spec => []Render!Inv
<1>0. BufferSize \in Nat \ {0} /\ MaxCount \in Nat /\ \A f \in Render!Frames : f \in Nat
  BY DEF Render!RenderAssumption, Render!Frames
<1>1. Render!Init => Render!Inv
  <2> SUFFICES ASSUME Render!Init PROVE Render!Inv
    OBVIOUS
  <2>1. slices = <<>> /\ Len(slices) = 0 /\ slices \in Seq(Render!Frames \X (1..BufferSize))
    BY DEF Render!Init
  <2>2. Render!TypeOK
    <3>1. 0 \in 0..MaxCount
      BY <1>0
    <3>2. output \in [Render!Frames -> {"old", "audio", "zero"}]
      BY DEF Render!Init
    <3> QED
      BY <2>1, <3>1, <3>2, Zenon DEF Render!Init, Render!TypeOK
  <2>3. Render!SlicesTile /\ Render!OutputsWritten /\ pc = "idle"
    BY <2>1 DEF Render!Init, Render!SlicesTile, Render!OutputsWritten
  <2> QED
    BY <2>2, <2>3 DEF Render!Inv
<1>2. ASSUME Render!Inv, [Render!Next]_(Render!vars) PROVE Render!Inv'
  <2>1. Render!TypeOK /\ count \in Nat /\ cycle \in Nat
    BY <1>2 DEF Render!Inv, Render!TypeOK
  <2>2. ASSUME NEW n \in 0..MaxCount, Render!Start(n) PROVE Render!Inv'
    <3>1. /\ count' = n /\ cycle' = 0 /\ slices' = <<>> /\ zeroed' = {} /\ stopped' = FALSE
          /\ fRunningFlag' = fRunningFlag /\ Len(slices') = 0
          /\ slices' \in Seq(Render!Frames \X (1..BufferSize))
      BY <2>2 DEF Render!Start
    <3>2. Render!Covered' = 0 /\ Render!Offset' = 0
      BY <1>0, <3>1 DEF Render!Covered, Render!EndOf, Render!Offset
    <3>3. Render!TypeOK'
      <4>1. 0 \in 0..MaxCount
        BY <1>0
      <4>2. output' \in [Render!Frames -> {"old", "audio", "zero"}]
        BY <2>2 DEF Render!Start
      <4>3. pc' \in {"send", "done"}
        BY <2>2 DEF Render!Start
      <4> QED
        BY <2>1, <2>2, <3>1, <4>1, <4>2, <4>3, Zenon DEF Render!TypeOK
    <3>4. CASE fRunningFlag /\ n # 0 /\ pc' = "send"
      <4>1. 0 < Render!Cycles'
        <5>1. /\ n \div BufferSize \in Nat /\ n % BufferSize \in Nat
              /\ n = (n \div BufferSize) * BufferSize + (n % BufferSize)
          BY CyclesOfBlock
        <5>2. n \div BufferSize = 0 => n % BufferSize > 0
          BY <1>0, <3>4, <5>1
        <5> QED
          BY <3>1, <5>1, <5>2 DEF Render!Cycles, Render!numberOfCycles, Render!lastCycle
      <4> QED
        BY <1>0, <3>1, <3>2, <3>3, <3>4, <4>1
           DEF Render!Inv, Render!SlicesTile, Render!OutputsWritten
    <3>5. CASE pc' = "done" /\ (n = 0 \/ ~fRunningFlag)
      BY <1>0, <2>2, <3>1, <3>2, <3>3, <3>5
         DEF Render!Start, Render!Inv, Render!SlicesTile, Render!OutputsWritten
    <3> QED
      BY <2>2, <3>4, <3>5 DEF Render!Start
  <2>3. ASSUME NEW ok \in BOOLEAN, Render!sendSlice(ok) PROVE Render!Inv'
    <3>1. /\ pc = "send" /\ pc' = "recv" /\ UNCHANGED <<count, cycle>> /\ cycle < Render!Cycles
          /\ stopped \/ fRunningFlag
          /\ fRunningFlag => Render!Covered = Render!Offset
          /\ ~stopped => \A f \in Render!Frames : f < Render!Offset => output[f] # "old"
      BY <1>0, <1>2, <2>1, <2>3 DEF Render!sendSlice, Render!Inv, Render!Offset
    <3>2. /\ Render!Offset \in Render!Frames /\ Render!Size \in 1..BufferSize /\ Render!Offset \in Nat
          /\ Render!Offset' = Render!Offset /\ Render!Size' = Render!Size /\ Render!Cycles' = Render!Cycles
      BY <2>1, <3>1, CycleInBlock
         DEF Render!Offset, Render!Size, Render!Cycles, Render!numberOfCycles,
             Render!lastCycle
    <3>3. /\ slices' \in Seq(Render!Frames \X (1..BufferSize))
          /\ \A j \in 1..Len(slices') : slices'[j][1] = Render!EndOf(j - 1)'
          /\ fRunningFlag => Render!Covered' = Render!Offset + Render!Size
      <4>1. CASE fRunningFlag
        <5>1. /\ <<Render!Offset, Render!Size>> \in Render!Frames \X (1..BufferSize)
              /\ slices' = Append(slices, <<Render!Offset, Render!Size>>)
          BY <2>3, <3>2, <4>1 DEF Render!sendSlice
        <5> QED
          BY <1>2, <2>1, <3>1, <4>1, <5>1, OneMoreSlice DEF Render!Inv, Render!SlicesTile
      <4>2. CASE ~fRunningFlag
        BY <1>2, <2>1, <2>3, <4>2
           DEF Render!sendSlice, Render!Inv, Render!SlicesTile, Render!EndOf,
               Render!TypeOK
      <4> QED
        BY <4>1, <4>2
    <3>4. /\ fRunningFlag' \in BOOLEAN /\ stopped' \in BOOLEAN
          /\ fRunningFlag' => fRunningFlag
          /\ stopped' \/ fRunningFlag'
          /\ ~stopped' => ~stopped
      BY <2>1, <2>3, <3>1 DEF Render!sendSlice, Render!Callback, Render!TypeOK
    <3>5. /\ output' \in [Render!Frames -> {"old", "audio", "zero"}]
          /\ \A f \in Render!Frames : output[f] # "old" => output'[f] # "old"
      BY <2>1, <2>3 DEF Render!sendSlice, Render!Filled, Render!TypeOK
    <3>6. zeroed' \subseteq Nat
      <4>1. Render!Padded \subseteq Nat
        <5>1. Render!lastCycle \in Nat
          BY <2>1, CyclesOfBlock DEF Render!lastCycle
        <5> QED
          BY <1>0, <3>2, <5>1 DEF Render!Padded
      <4> QED
        BY <2>1, <2>3, <4>1 DEF Render!sendSlice, Render!TypeOK
    <3>7. Render!TypeOK'
      BY <2>1, <3>1, <3>3, <3>4, <3>5, <3>6 DEF Render!TypeOK
    <3>8. Render!SlicesTile' /\ Render!OutputsWritten'
      BY <3>1, <3>3 DEF Render!SlicesTile, Render!OutputsWritten
    <3>9. ~stopped' => \A f \in Render!Frames : f < Render!Offset' => output'[f] # "old"
      BY <3>1, <3>2, <3>4, <3>5
    <3>10. fRunningFlag' => Render!Covered' = Render!Offset' + (IF pc' = "recv" THEN Render!Size' ELSE 0)
      BY <3>1, <3>2, <3>3, <3>4
    <3> QED
      BY <3>1, <3>2, <3>4, <3>7, <3>8, <3>9, <3>10 DEF Render!Inv
  <2>4. ASSUME NEW ok \in BOOLEAN, Render!recvSlice(ok) PROVE Render!Inv'
    <3>1. /\ pc = "recv" /\ UNCHANGED <<count, zeroed, slices>> /\ cycle' = cycle + 1
          /\ pc' = (IF cycle' = Render!Cycles THEN "done" ELSE "send")
          /\ cycle < Render!Cycles
          /\ stopped \/ fRunningFlag
          /\ fRunningFlag => Render!Covered = Render!Offset + Render!Size
          /\ ~stopped => \A f \in Render!Frames : f < Render!Offset => output[f] # "old"
      BY <1>2, <2>4 DEF Render!recvSlice, Render!Inv
    <3>2. /\ Render!Offset \in Render!Frames /\ Render!Size \in 1..BufferSize /\ Render!Offset \in Nat
          /\ cycle + 1 < Render!Cycles => Render!Offset + Render!Size = (cycle + 1) * BufferSize
          /\ cycle + 1 = Render!Cycles => Render!Offset + Render!Size = count
          /\ cycle + 1 <= Render!Cycles /\ cycle + 1 <= MaxCount /\ Render!Cycles' = Render!Cycles
          /\ Render!Offset' = (cycle + 1) * BufferSize
      BY <2>1, <3>1, CycleInBlock
         DEF Render!Offset, Render!Cycles, Render!numberOfCycles, Render!lastCycle
    <3>3. /\ fRunningFlag' \in BOOLEAN /\ stopped' \in BOOLEAN
          /\ fRunningFlag' => fRunningFlag
          /\ stopped' \/ fRunningFlag'
          /\ ~stopped' => ~stopped /\ fRunningFlag
      BY <2>1, <2>4, <3>1 DEF Render!recvSlice, Render!Callback, Render!TypeOK
    <3>4. /\ output' \in [Render!Frames -> {"old", "audio", "zero"}]
          /\ ~stopped' => \A f \in Render!Frames : f < Render!Offset + Render!Size => output'[f] # "old"
      <4>1. output' \in [Render!Frames -> {"old", "audio", "zero"}]
        BY <2>1, <2>4 DEF Render!recvSlice, Render!Filled, Render!TypeOK
      <4>2. ASSUME ~stopped', NEW f \in Render!Frames, f < Render!Offset + Render!Size PROVE output'[f] # "old"
        <5>1. output' = Render!Filled(Render!Offset, Render!Size, IF ok THEN "audio" ELSE "zero")
          BY <2>4, <3>3, <4>2 DEF Render!recvSlice
        <5>2. f < Render!Offset \/ f \in Render!Offset..(Render!Offset + Render!Size - 1)
          BY <1>0, <3>2, <4>2
        <5> QED
          BY <3>1, <3>3, <4>2, <5>1, <5>2 DEF Render!Filled
      <4> QED
        BY <4>1, <4>2
    <3>5. Render!TypeOK'
      BY <2>1, <3>1, <3>2, <3>3, <3>4 DEF Render!TypeOK
    <3>6. Render!Covered' = Render!Covered /\ \A j \in 1..Len(slices') : slices'[j][1] = Render!EndOf(j - 1)'
      BY <1>2, <3>1 DEF Render!Covered, Render!EndOf, Render!Inv, Render!SlicesTile
    <3>7. CASE cycle' = Render!Cycles
      BY <3>1, <3>2, <3>3, <3>4, <3>5, <3>6, <3>7
         DEF Render!Inv, Render!SlicesTile, Render!OutputsWritten
    <3>8. CASE cycle' # Render!Cycles
      <4>1. cycle' < Render!Cycles'
        <5>1. Render!Cycles \in Nat
          BY <2>1, CyclesOfBlock DEF Render!Cycles, Render!numberOfCycles, Render!lastCycle
        <5> QED
          BY <2>1, <3>1, <3>2, <3>8, <5>1
      <4> QED
        BY <3>1, <3>2, <3>3, <3>4, <3>5, <3>6, <3>8, <4>1
           DEF Render!Inv, Render!SlicesTile, Render!OutputsWritten
    <3> QED
      BY <3>7, <3>8
  <2>5. CASE Render!Return
    BY <1>2, <2>5
       DEF Render!Return, Render!Inv, Render!TypeOK, Render!SlicesTile,
           Render!OutputsWritten, Render!EndOf, Render!Covered
  <2>6. CASE UNCHANGED Render!vars
    BY <1>2, <2>6
       DEF Render!vars, Render!Inv, Render!TypeOK, Render!SlicesTile,
           Render!OutputsWritten, Render!EndOf, Render!Covered,
                      Render!Offset, Render!Size, Render!Cycles, Render!numberOfCycles,
                      Render!lastCycle
  <2> QED
    BY <1>2, <2>2, <2>3, <2>4, <2>5, <2>6 DEF Render!Next
<1> QED
  BY <1>1, <1>2, PTL DEF Render!Spec

\* The slices of a call follow each other and are the whole block, and when compute
\* returns every output frame was received or cleared, unless the callback stopped the
\* run (compute, setupBuffers, sendSlice, recvSlice).
THEOREM BlockRenderedHolds == Spec => []BlockRendered
<1>1. Init => Render!Init
  BY DEF Init
<1>2. [Next]_vars => [Render!Next]_(Render!vars)
  BY DEF Next, Alone, vars, renderVars, Render!vars
<1>3. Render!Spec => []Render!Inv
  BY BlocksAssumption, RenderInvariance
<1>4. Render!Inv => BlockRendered
  BY DEF Render!Inv, BlockRendered
<1> QED
  BY <1>1, <1>2, <1>3, <1>4, PTL DEF Spec, Render!Spec
=============================================================================
