------------------------------ MODULE MCRemote ------------------------------
(***************************************************************************)
(* The remote server, how it is found, and how a client renders through    *)
(* it, on small instances.  part says which instance a behaviour is of;    *)
(* the variables of the other modules stay put.                            *)
(***************************************************************************)
EXTENDS Integers

CONSTANTS Connections, Keys, InstanceKeys, NoKey, NoReq, None,
          TwoSlaves, OneSlave, NProcesses, Neighbours, Second, Jitter,
          MaxLost, LossyProcesses, BufferSize, MaxCount

VARIABLES part,
          available, running, mem, audio, fInstanceKey, thread, locker, call,
          req,
          limit, now, up, slept, lost, flight, age, down,
          fRunningFlag, pc, count, cycle, output, zeroed, slices, stopped

serverVars == <<available, running, mem, audio, fInstanceKey, thread, locker,
                call, req>>
dnsVars == <<limit, now, up, slept, lost, flight, age, down>>
renderVars == <<fRunningFlag, pc, count, cycle, output, zeroed, slices, stopped>>
vars == <<part, serverVars, dnsVars, renderVars>>

\* Two connections, and two slaves or one.
Two == INSTANCE RemoteServer WITH Slaves <- TwoSlaves
One == INSTANCE RemoteServer WITH Slaves <- OneSlave

\* Two processes of one machine and one of another, on every network whose
\* lost and late messages leave no machine unheard of for two seconds.
Networks == {l \in [slow : 0..Jitter, late : 0..Jitter, lost : 0..MaxLost] :
                (l.lost + 1) * (Second + l.slow) + l.late <= 2 * Second}
Dns == INSTANCE RemoteDNS WITH Limits <- Networks

\* Blocks of up to two slices and a part of a third.
Render == INSTANCE RemoteRender WITH HasCallback <- TRUE

ASSUME TwoAssumption == Two!ServerAssumption
ASSUME OneAssumption == One!ServerAssumption
ASSUME NetworksAssumption == Dns!DNSAssumption /\ Dns!Timely
ASSUME BlocksAssumption == Render!RenderAssumption

Init == /\ part \in {"two", "one", "dns", "render"}
        /\ IF part = "one" THEN One!Init ELSE Two!Init
        /\ Dns!Init
        /\ part # "dns" => limit = [slow |-> 0, late |-> 0, lost |-> 0]
        /\ Render!Init

\* Bound: where turns are slow or messages lost or late, only these
\* processes run.
Bounded == limit.slow + limit.late + limit.lost > 0 => up' \subseteq LossyProcesses

Alone(p, others) == part = p /\ UNCHANGED <<part, others>>

Next == \/ Alone("two", <<dnsVars, renderVars>>) /\ Two!Next
        \/ Alone("one", <<dnsVars, renderVars>>) /\ One!Next
        \/ Alone("dns", <<serverVars, renderVars>>) /\ Dns!Next /\ Bounded
        \/ Alone("render", <<serverVars, dnsVars>>) /\ Render!Next

(* The fairness of RemoteServer, for the instance with one slave.          *)
OneStep(A) == Alone("one", <<dnsVars, renderVars>>) /\ A
Fairness ==
    /\ \A c \in Connections : SF_vars(OneStep(One!StartCall(c)))
    /\ WF_vars(OneStep(One!stop_NotActive_DSP)) /\ WF_vars(OneStep(One!Serve))
    /\ \A s \in OneSlave : WF_vars(OneStep(One!Thread(s)))

Spec == Init /\ [][Next]_vars /\ Fairness

-----------------------------------------------------------------------------
(* A slave_dsp that exists is in fRunningDsp once, or its start thread has *)
(* still to put it there or delete it; and no request looks through the    *)
(* list while a slave of it has no key (start_audioSlave, createInstance,  *)
(* stop_NotActive_DSP).                                                    *)
SlavesAccounted == part = "two" => Two!SlavesAccounted /\ Two!KeysKnown

(* A slave found inactive when a call starts is gone when it is served     *)
(* (stop_NotActive_DSP).                                                   *)
LostAreStopped == part = "two" => Two!LostAreStopped /\ Two!Inv

(* The daemon never waits for a slave: every request is answered           *)
(* (answer_to_connection, openAudio).                                      *)
RequestsAnswered ==
    \A c \in Connections :
        (part = "one" /\ req[c] # NoReq) ~> (part = "one" /\ req[c] = NoReq)

(* A machine whose server runs and was heard of stays in the list, with    *)
(* messages lost or late, and one that stopped leaves it within three      *)
(* seconds and the time that its last message may have been under way      *)
(* (registration, pingHandler, getRemoteMachinesAvailable).                *)
ListFollowsServers ==
    part = "dns" => Dns!RunningListed /\ Dns!StoppedUnlisted /\ Dns!Inv

(* The slices of a call follow each other and are the whole block, and     *)
(* when compute returns every output frame was received or cleared, unless *)
(* the callback stopped the run (compute, sendSlice, recvSlice,            *)
(* setupBuffers).                                                          *)
BlockRendered ==
    part = "render" => /\ Render!SlicesTile /\ Render!OutputsWritten
                       /\ Render!Inv
=============================================================================
