---------------------------- MODULE MCInterfaces ----------------------------
(***************************************************************************)
(* The user interfaces on small instances: the zones with their widgets,   *)
(* displays and OSC nodes, the root of the OSC tree with its streams, and  *)
(* the set-up of the OSC ports.  part says which instance a behaviour is   *)
(* of; the variables of the other modules stay put.                        *)
(***************************************************************************)
EXTENDS Integers

CONSTANTS NZones, Widgets, Displays, Nodes, MaxValue, Lo, Hi, Unit,
          MaxMoves, CoarseUnit, NParams, NHosts, Options,
          Apps, MaxPort, MaxTries, Descriptors, MaxRuns

VARIABLES part,
          zone, fCache, shown, stack, asked, moves, stores,
          option, fAddress, fPort, errPort, fState, buffer, inProgress,
          fSetDest, gXmit, oscZone, todo, done, phase, local, savedip, received, sends, dest,
          replaced, expected, replies, transmitted,
          request, stage, fUDPPort, port, owner, streams, told, runs

guiVars == <<zone, fCache, shown, stack, asked, moves, stores>>
rootVars == <<option, fAddress, fPort, errPort, fState, buffer, inProgress,
              fSetDest, gXmit, oscZone, todo, done, phase, local, savedip, received, sends, dest,
              replaced, expected, replies, transmitted>>
setupVars == <<request, stage, fUDPPort, port, owner, streams, told, runs>>
vars == <<part, guiVars, rootVars, setupVars>>

\* Two zones that the user moves, and one that OSC clients set too, whose
\* widgets have a coarser resolution.
User == INSTANCE GUIZones WITH MaxStores <- 0
Client == INSTANCE GUIZones WITH
    NZones <- 1, Nodes <- 0, Unit <- CoarseUnit, MaxStores <- 2

\* The root of the OSC tree of four applications: no destination given, a
\* destination given, values transmitted, and values transmitted while
\* messages are answered and set the destination.
Asking   == {"hello", "get", "attr"}
Setting  == {"value", "alias", "outport", "errport", "setxmit"}
Applications ==
    { [desthost |-> 0, xmit |-> 0, messages |-> 3, sends |-> 0,
       kinds |-> Asking \cup Setting \cup {"desthost"}],
      [desthost |-> 1, xmit |-> 0, messages |-> 2, sends |-> 0,
       kinds |-> Asking \cup Setting \cup {"desthost"}],
      [desthost |-> 1, xmit |-> 1, messages |-> 3, sends |-> 3,
       kinds |-> Setting],
      [desthost |-> 0, xmit |-> 1, messages |-> 2, sends |-> 1,
       kinds |-> {"hello", "attr", "desthost"}] }
Osc == INSTANCE OSCRoot WITH zone <- oscZone

\* Applications that look for ports.
Setup == INSTANCE OSCSetup WITH phase <- stage, OutPort <- 1, ErrPort <- 2

ASSUME UserAssumption == User!ZonesAssumption
ASSUME ClientAssumption == Client!ZonesAssumption
ASSUME OscAssumption == Osc!OSCAssumption
ASSUME SetupAssumption == Setup!SetupAssumption /\ Setup!RoomForAll

Init == /\ part \in {"user", "client", "osc", "setup"}
        /\ IF part = "client" THEN Client!Init ELSE User!Init
        /\ part \notin {"user", "client"} => \A z \in User!Zones : zone[z] = 0
        /\ Osc!Init
        /\ part # "osc" => option.desthost = 0 /\ option.sends = 0
        /\ Setup!Init
        /\ part # "setup" => \A a \in Apps : request[a] = 0

Alone(p, others) == part = p /\ UNCHANGED <<part, others>>

Next == \/ Alone("user", <<rootVars, setupVars>>) /\ User!Next
        \/ Alone("client", <<rootVars, setupVars>>) /\ Client!Next
        \/ Alone("osc", <<guiVars, setupVars>>) /\ Osc!Next
        \/ Alone("setup", <<guiVars, rootVars>>) /\ Setup!Next

(* The fairness of GUIZones and of OSCSetup.                               *)
Fairness ==
    /\ WF_vars(Alone("user", <<rootVars, setupVars>>) /\ User!UIThread)
    /\ WF_vars(Alone("client", <<rootVars, setupVars>>) /\ Client!UIThread)
    /\ \A a \in Apps :
         WF_vars(Alone("setup", <<guiVars, rootVars>>) /\ Setup!Starting(a))

Spec == Init /\ [][Next]_vars /\ Fairness

-----------------------------------------------------------------------------
(* A zone holds the value last asked for: reflecting it in the widgets,    *)
(* whose handlers write zones, never replaces it; and an item that         *)
(* believes it is up to date shows the value it has cached (GUI.h,         *)
(* updateZone, modifyZone).  The inductive invariant of the zones is       *)
(* checked with it.                                                        *)
AskedIsKept == part = "user" => /\ User!AskedIsKept /\ User!CacheIsShown
                                /\ User!Inv

(* Once all is quiet, every item of every interface comes to show the      *)
(* value of its zone and goes on doing so (updateAllGuis).                 *)
Reflected == <>[](/\ part = "user" => User!ShowsZones
                  /\ part = "client" => Client!ShowsZones)

(* The packets sent for a request are exactly the answer promised, and a   *)
(* packet holds the arguments of one message (RootNode::accept,            *)
(* MessageDriven::get, OSCStream::start and end), in an application that   *)
(* does not transmit while it answers.                                     *)
RepliesComplete == part = "osc" /\ Osc!Sound => Osc!RepliesComplete /\ Osc!PacketsWhole

(* Between two messages the stream points to the destination asked for, in *)
(* every application, unless the first remote host has replaced one that a *)
(* message had set; and what the user interface of an application that     *)
(* does not answer transmits goes there (OSCListener::ProcessMessage,      *)
(* RootNode::hello and get, sendOSC).  The inductive invariants of the     *)
(* stream are checked with it.                                             *)
DestIsKept == part = "osc" =>
    /\ Osc!DestIsKept /\ (Osc!Step("listener", "dead") \/ Osc!DestInv)
    /\ Osc!Sound => Osc!TransmittedToDest /\ Osc!Inv

(* The port an application announces is one its listener has, and while it *)
(* listens the streams it answers on exist: where there is room for all,   *)
(* no search fails, so that no application writes to streams that are not  *)
(* there (OSCControler::run, OSCSetup::start, OSCStream::start and stop).  *)
(* The inductive invariant of the search is checked with it.               *)
ListenersSound == /\ Setup!AnnouncedIsBound /\ Setup!StreamsAlive
                  /\ Setup!NoNullStream /\ Setup!Inv

(* An application that is started ends up running (OSCSetup::start).       *)
StartEnds == Setup!StartEnds
=============================================================================
