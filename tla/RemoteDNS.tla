------------------------------ MODULE RemoteDNS ------------------------------
(***************************************************************************)
(* How clients find servers: each server process multicasts a message once *)
(* a second (Server::registration), the clients keep the time of the last  *)
(* one of each process and list the machines heard of in the last seconds  *)
(* (remote_DNS::pingHandler, getRemoteMachinesAvailable).                  *)
(***************************************************************************)
EXTENDS Integers, FiniteSets

CONSTANTS NProcesses,   \* server processes, in the order of their names
          Neighbours,   \* those of them that are on the same machine
          Second,       \* ticks of a second
          Limits        \* what processes and networks do: the ticks a turn
                        \* of a process may take beyond its second, the ticks
                        \* a message may be under way, and the messages in a
                        \* row that may be lost

Processes == 1..NProcesses

\* Assumed of the constants.
DNSAssumption ==
    /\ NProcesses \in Nat /\ Second \in Nat \ {0}
    /\ Neighbours \subseteq Processes
    /\ Limits \subseteq [slow : Nat, late : Nat, lost : Nat]

\* How much may be lost or late for a machine to stay in the list.
Timely ==
    \A l \in Limits : (l.lost + 1) * (Second + l.slow) + l.late <= 2 * Second

Host(p) == IF p \in Neighbours THEN 0 ELSE p

VARIABLES limit,     \* one of Limits: the network of this behaviour
          now,       \* the tick of the current second
          up,        \* the processes that run
          slept,     \* ticks since each process sent its last message
          lost,      \* messages of each lost in a row
          flight,    \* its messages under way, each by its age
          age,       \* ticks since the timetag of each in fClients
          down       \* history: ticks since each process stopped

vars == <<limit, now, up, slept, lost, flight, age, down>>

(* The longest time from one message to the next.                          *)
Turn == Second + limit.slow

(* Ages are counted up to this one, after which nothing depends on them.   *)
Forgotten == 4 * Second + limit.late

TypeOK ==
    /\ limit \in Limits
    /\ now \in 0..(Second - 1) /\ up \subseteq Processes
    /\ slept \in [Processes -> 0..Turn]
    /\ lost \in [Processes -> 0..limit.lost]
    /\ flight \in [Processes -> SUBSET (0..limit.late)]
    /\ age \in [Processes -> 0..Forgotten]
    /\ down \in [Processes -> 0..Forgotten]

Init ==
    /\ limit \in Limits
    /\ now = 0 /\ up = {} /\ slept = [p \in Processes |-> 0]
    /\ lost = [p \in Processes |-> 0]
    /\ flight = [p \in Processes |-> {}]
    /\ age = [p \in Processes |-> Forgotten]
    /\ down = [p \in Processes |-> Forgotten]

Older(a) == IF a < Forgotten THEN a + 1 ELSE a

(* A process sleeps a second or a little more, and what is sent arrives,   *)
(* sooner or later, whether its sender still runs or not.                  *)
Tick ==
    /\ \A p \in up : slept[p] < Turn
    /\ \A p \in Processes : \A m \in flight[p] : m < limit.late
    /\ now' = (now + 1) % Second
    /\ slept' = [p \in Processes |-> IF p \in up THEN slept[p] + 1 ELSE 0]
    /\ flight' = [p \in Processes |-> {m + 1 : m \in flight[p]}]
    /\ age' = [p \in Processes |-> Older(age[p])]
    /\ down' = [p \in Processes |-> IF p \in up THEN 0 ELSE Older(down[p])]
    /\ UNCHANGED <<limit, up, lost>>

(* A restarted server has another pid: its old entry must be forgotten     *)
(* before the model uses its name again.                                   *)
StartProcess(p) ==
    /\ p \notin up /\ age[p] = Forgotten /\ down[p] = Forgotten
    /\ up' = up \cup {p} /\ down' = [down EXCEPT ![p] = 0]
    /\ slept' = [slept EXCEPT ![p] = 0]
    /\ lost' = [lost EXCEPT ![p] = 0]
    /\ UNCHANGED <<limit, now, flight, age>>

StopProcess(p) ==
    /\ p \in up /\ up' = up \ {p}
    /\ UNCHANGED <<limit, now, slept, lost, flight, age, down>>

(* One turn of the loop of registration: a second of sleep, and lo_send.   *)
Registration(p) ==
    /\ p \in up /\ slept[p] >= Second
    /\ slept' = [slept EXCEPT ![p] = 0]
    /\ UNCHANGED <<limit, now, up, age, down>>

MessageSent(p) ==
    /\ Registration(p)
    /\ lost' = [lost EXCEPT ![p] = 0]
    /\ flight' = [flight EXCEPT ![p] = @ \cup {0}]

MessageLost(p) ==
    /\ Registration(p) /\ lost[p] < limit.lost
    /\ lost' = [lost EXCEPT ![p] = @ + 1]
    /\ UNCHANGED flight

(* A client stamps a message when it receives it.  Messages may overtake   *)
(* each other, and outlive the process that sent them.                     *)
pingHandler(p) ==
    \E m \in flight[p] :
        /\ flight' = [flight EXCEPT ![p] = @ \ {m}]
        /\ age' = [age EXCEPT ![p] = 0]
        /\ UNCHANGED <<limit, now, up, slept, lost, down>>

(* now.sec - timetag.sec: a timetag counts whole seconds.                  *)
Seconds(p) == -((now - age[p]) \div Second)

(* Variant: one second less of silence.                                    *)
ConnectedShort(p) == age[p] < Forgotten /\ Seconds(p) < 2

Connected(p) == age[p] < Forgotten /\ Seconds(p) < 3

(* getRemoteMachinesAvailable: one process per machine, the last of them.  *)
MachineList ==
    LET known == {p \in Processes : Connected(p)} IN
    [h \in {Host(p) : p \in known} |->
        CHOOSE p \in known : Host(p) = h /\ \A q \in known : Host(q) = h => q <= p]

Next ==
    \/ Tick
    \/ \E p \in Processes :
          \/ StartProcess(p) \/ StopProcess(p)
          \/ MessageSent(p) \/ MessageLost(p) \/ pingHandler(p)

Spec == Init /\ [][Next]_vars

(***************************************************************************)
(* Properties                                                              *)
(***************************************************************************)

(* A machine with a server that runs and was heard of stays in the list,   *)
(* although a message is lost now and then or comes late                   *)
(* (Server::registration, getRemoteMachinesAvailable).                     *)
RunningListed ==
    \A p \in up : age[p] < Forgotten => Host(p) \in DOMAIN MachineList

(* The server listed for a machine runs, or the last message it sent       *)
(* before it stopped came less than three seconds ago, be it late          *)
(* (remote_dsp_aux.cpp:991: "If the server machine did not send a message  *)
(* for 3 secondes, it is considered disconnected"; pingHandler).           *)
StoppedUnlisted ==
    \A h \in DOMAIN MachineList :
        down[MachineList[h]] < 3 * Second + limit.late

(* A running process that was heard of was heard of before the messages    *)
(* lost since and the current sleep, or before the turn that sent one of   *)
(* the messages under way; of a stopped one all messages are older than    *)
(* its stop.                                                               *)
Heard(p) ==
    IF flight[p] = {} THEN age[p] <= lost[p] * Turn + slept[p]
    ELSE \E m \in flight[p] : age[p] <= m + (limit.lost + 1) * Turn

Inv ==
    /\ TypeOK
    /\ \A p \in Processes :
        /\ p \in up => down[p] = 0
        /\ \A m \in flight[p] : down[p] <= m
        /\ down[p] <= age[p] + limit.late
        /\ p \in up /\ age[p] < Forgotten => Heard(p)
=============================================================================
