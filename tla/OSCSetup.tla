------------------------------ MODULE OSCSetup ------------------------------
(***************************************************************************)
(* How the OSC services of applications start and stop                     *)
(* (architecture/osclib/faust: OSCControler::run, OSCSetup::start and      *)
(* stop, OSCStream::start and stop).  Applications of one machine compete  *)
(* for the listening ports; each runs in a process of its own and may be   *)
(* started again once it has quit.  Ports are numbered from the default  *)
(* listening port, 0: OutPort and ErrPort stand for 5511 and 5512.         *)
(***************************************************************************)
EXTENDS Integers, FiniteSets

CONSTANTS Apps,          \* the applications
          OutPort, ErrPort,
          MaxPort,       \* ports 0..MaxPort exist in the model
          MaxTries,      \* the limit of the search, 1000 in the code
          Descriptors,   \* sockets a process can open
          MaxRuns        \* bound: calls of run

\* Assumed of the constants.
SetupAssumption ==
    /\ {OutPort, ErrPort} \subseteq 0..MaxPort
    /\ {MaxPort, MaxTries, Descriptors, MaxRuns} \subseteq Nat

Ports == 0..MaxPort
None == "none"

\* The search for a port can succeed: the ports of output follow the default
\* listening port, and there is a port for every application, a try for every
\* port, a socket for the streams and one for the listener.
RoomForAll ==
    /\ IsFiniteSet(Apps) /\ None \notin Apps
    /\ OutPort = 1 /\ ErrPort = 2
    /\ Cardinality(Apps) < MaxPort /\ Cardinality(Apps) <= MaxTries
    /\ Descriptors >= 2

VARIABLES request,    \* the port asked for by -port, or the default
          phase,      \* where application a is in run, "off" when it is not running
          fUDPPort,   \* OSCControler::fUDPPort, the port hello announces
          port,       \* the port start is trying, or listens to
          owner,      \* owner[p]: the application whose listener has port p
          streams,    \* streams[a]: _socket, _oscout and _oscerr exist
          told,       \* told[a]: the ports application a has answered to hello
          runs
vars == <<request, phase, fUDPPort, port, owner, streams, told, runs>>

Init == /\ phase = [a \in Apps |-> "off"]
        /\ request \in [Apps -> {0, OutPort}]
        /\ fUDPPort = request /\ port = request
        /\ owner = [p \in Ports |-> None]
        /\ streams = [a \in Apps |-> FALSE]
        /\ told = [a \in Apps |-> {}]
        /\ runs = 0

Listens(a) == \E p \in Ports: owner[p] = a
Free(a) == Descriptors - (IF streams[a] THEN 1 ELSE 0) - (IF Listens(a) THEN 1 ELSE 0)

-----------------------------------------------------------------------------
(* The application is launched: OSCControler::run.                         *)
run(a) ==
    /\ phase[a] = "off" /\ runs < MaxRuns
    /\ phase' = [phase EXCEPT ![a] = "streams"]
    /\ fUDPPort' = [fUDPPort EXCEPT ![a] = request[a]]
    /\ port' = [port EXCEPT ![a] = request[a]]
    /\ runs' = runs + 1
    /\ UNCHANGED <<request, owner, streams, told>>

(* Variant: the same port is tried again. *)
SamePort(a, p) == p

(* The next port: the ones used for output are left out.                   *)
NextPort(a, p) == CHOOSE n \in {p + 1, p + 2, p + 3}:
                    /\ n \notin {OutPort, ErrPort}
                    /\ \A k \in (p + 1)..(n - 1): k \in {OutPort, ErrPort}

(* The handler of the exception: give up or try the next port.             *)
Caught(a) ==
    IF port[a] - fUDPPort[a] > MaxTries
    THEN phase' = [phase EXCEPT ![a] = "failed"] /\ UNCHANGED port
    ELSE /\ phase' = [phase EXCEPT ![a] = "streams"]
         /\ port' = [port EXCEPT ![a] = NextPort(a, port[a])]

(* OSCStream::start: opens the socket of the streams unless it is open.    *)
startStreams(a) ==
    /\ phase[a] = "streams"
    /\ IF streams[a] \/ Free(a) > 0
       THEN /\ streams' = [streams EXCEPT ![a] = TRUE]
            /\ phase' = [phase EXCEPT ![a] = "listener"]
            /\ UNCHANGED port
       ELSE Caught(a) /\ UNCHANGED streams
    /\ UNCHANGED <<request, fUDPPort, owner, told, runs>>

(* new OscThread: the listener binds the port, then its thread starts.     *)
startListener(a) ==
    /\ phase[a] = "listener"
    /\ IF port[a] \in Ports /\ owner[port[a]] = None /\ Free(a) > 0
       THEN /\ owner' = [owner EXCEPT ![port[a]] = a]
            /\ phase' = [phase EXCEPT ![a] = "started"]
            /\ UNCHANGED port
       ELSE Caught(a) /\ UNCHANGED owner
    /\ UNCHANGED <<request, fUDPPort, streams, told, runs>>

(* Variant: the requested port is kept. *)
returnRequested(a) ==
    /\ phase[a] = "started"
    /\ phase' = [phase EXCEPT ![a] = "announce"]
    /\ UNCHANGED <<request, fUDPPort, port, owner, streams, told, runs>>

(* inPort = port, once the thread runs.                                    *)
returnPort(a) ==
    /\ phase[a] = "started"
    /\ fUDPPort' = [fUDPPort EXCEPT ![a] = port[a]]
    /\ phase' = [phase EXCEPT ![a] = "announce"]
    /\ UNCHANGED <<request, port, owner, streams, told, runs>>

(* run goes on, whatever start returned: it announces the ports on oscout. *)
announce(a) ==
    /\ phase[a] \in {"announce", "failed"}
    /\ phase' = [phase EXCEPT ![a] = IF streams[a] THEN "up" ELSE "crashed"]
    /\ UNCHANGED <<request, fUDPPort, port, owner, streams, told, runs>>

(* The listener thread answers hello with the port of the controler.       *)
hello(a) ==
    /\ Listens(a)
    /\ told' = [told EXCEPT ![a] = @ \cup {fUDPPort[a]}]
    /\ UNCHANGED <<request, phase, fUDPPort, port, owner, streams, runs>>

(* OSCSetup::stop: the thread is ended and joined, the static streams and  *)
(* their socket are deleted, then the listener.                            *)
stop(a) ==
    /\ phase[a] = "up"
    /\ phase' = [phase EXCEPT ![a] = "off"]
    /\ IF Listens(a)
       THEN /\ owner' = [p \in Ports |-> IF owner[p] = a THEN None ELSE owner[p]]
            /\ streams' = [streams EXCEPT ![a] = FALSE]
       ELSE UNCHANGED <<owner, streams>>
    /\ told' = [told EXCEPT ![a] = {}]
    /\ UNCHANGED <<request, fUDPPort, port, runs>>

Starting(a) == startStreams(a) \/ startListener(a) \/ returnPort(a) \/ announce(a)

(* Every call of run has been made and the applications stay off.          *)
Finished == runs = MaxRuns /\ (\A a \in Apps: phase[a] \in {"off", "crashed"})
            /\ UNCHANGED vars

Next == (\E a \in Apps: run(a) \/ Starting(a) \/ hello(a) \/ stop(a)) \/ Finished

Spec     == Init /\ [][Next]_vars

(* run is a sequence of calls that do not block.                           *)
FairSpec == Spec /\ \A a \in Apps: WF_vars(Starting(a))

-----------------------------------------------------------------------------
TypeOK == /\ phase \in [Apps -> {"off", "streams", "listener", "started", "announce",
                                 "up", "failed", "crashed"}]
          /\ fUDPPort \in [Apps -> Ports]
          /\ request \in [Apps -> {0, OutPort}] /\ port \in [Apps -> Nat]
          /\ owner \in [Ports -> Apps \cup {None}] /\ streams \in [Apps -> BOOLEAN]
          /\ told \in [Apps -> SUBSET Ports]

(* How far the search has come: the tries that found their port taken.     *)
Rank(p) == IF p <= ErrPort THEN 0 ELSE p - ErrPort
Beyond(k) == {a \in Apps : phase[a] # "off" /\ Rank(port[a]) >= k}

(* An application went past a port because another listens to it, so that  *)
(* the further the search, the fewer have come so far.                     *)
Crowd == \A k \in 0..Cardinality(Apps) :
           Beyond(k) # {} => Cardinality(Beyond(k)) + k <= Cardinality(Apps)

(* What an application holds at each point of start, run and stop.         *)
Bound(a) == phase[a] \in {"started", "announce", "up"}
Held ==
    /\ \A p \in Ports : owner[p] # None => Bound(owner[p]) /\ port[owner[p]] = p
    /\ \A a \in Apps :
         /\ phase[a] \notin {"failed", "crashed"}
         /\ Bound(a) => port[a] \in Ports /\ owner[port[a]] = a
         /\ Bound(a) \/ phase[a] = "listener" => streams[a]
         /\ phase[a] \in {"announce", "up"} => fUDPPort[a] = port[a]

(* The inductive invariant, where there is room for all.                   *)
Inv == TypeOK /\ Held /\ Crowd

(* The port a running application announces is one its listener has.       *)
AnnouncedIsBound ==
    \A a \in Apps: phase[a] = "up" => owner[fUDPPort[a]] = a

(* The search never settles on a port used for output: only an option can  *)
(* name one.                                                               *)
SearchAvoidsOutput ==
    [][\A a \in Apps: port'[a] # port[a] /\ phase[a] # "off"
                        => port'[a] \notin {OutPort, ErrPort}]_vars

(* While an application listens, the streams it answers on exist.          *)
StreamsAlive == \A a \in Apps: Listens(a) => streams[a]

(* A hello is answered with the port the application listens to.           *)
HelloTellsPort == \A a \in Apps: \A p \in told[a]: owner[p] = a

(* No application uses a stream that does not exist.                       *)
NoNullStream == \A a \in Apps: phase[a] # "crashed"

(* An application that is started ends up running, whatever the others do  *)
(* with the ports meanwhile.                                               *)
StartEnds == \A a \in Apps: phase[a] = "streams" ~> phase[a] = "up"
=============================================================================
