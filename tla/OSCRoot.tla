------------------------------ MODULE OSCRoot -------------------------------
(***************************************************************************)
(* The OSC interface of a Faust application at work                        *)
(* (architecture/osclib/faust): the listener thread receives messages,     *)
(* hands them to the root node and answers on the output stream oscout;    *)
(* the user interface thread transmits the parameters that changed on the  *)
(* same stream.  The stream (its destination, its buffer and its state) is *)
(* shared and there is no lock.                                            *)
(*                                                                         *)
(* A thread is the list of steps it takes and the number of those done;    *)
(* the step that sends a message has five phases: start clears the buffer  *)
(* and begins a message, the arguments are appended, end reads the         *)
(* destination and the state, EndMessage and SendTo follow when the state  *)
(* is kInProgress, and the state becomes kIdle.  A value, an address, a    *)
(* port and a flag are small integers; the address of a node is its        *)
(* number, 0 for the root and Alias for the address of the alias.          *)
(***************************************************************************)
EXTENDS Integers, Sequences

CONSTANTS NParams,        \* terminal nodes, in the order of the tree
          NHosts,         \* remote hosts
          Options         \* what applications are started with and sent

Localhost == 0
Alias     == -1
Root      == 0
Params    == 1..NParams
Hosts     == 0..NHosts
Ports     == 1..2

Attributes == {"xmit", "desthost", "outport", "errport"}
Answered   == {"hello", "get", "attr"}
AllKinds   == Answered \cup {"value", "alias", "desthost", "outport", "errport",
                             "setxmit"}

\* Assumed of the constants.  An application has the options -desthost,
\* Localhost when not given, and -xmit, and is sent some kinds of messages;
\* bounds: the messages it receives and the values it transmits.
OSCAssumption ==
    /\ NParams \in Nat \ {0} /\ NHosts \in Nat
    /\ Options \subseteq [desthost : Hosts, xmit : {0, 1}, kinds : SUBSET AllKinds,
                          messages : Nat, sends : Nat]

VARIABLES option,          \* one of Options: the application of this behaviour
          fAddress, fPort,   \* destination of oscout
          errPort,           \* port of oscerr
          fState,            \* kIdle or kInProgress
          buffer,            \* the packet under construction
          inProgress,        \* its messageIsInProgress_
          fSetDest,          \* OSCListener::fSetDest
          gXmit, zone,
          todo, done,        \* todo[t]: the steps of thread t, and how many are done
          phase,             \* phase[t]: in a step that sends a message
          local,             \* local[t]: the destination and port end() has read
          savedip,           \* the listener's saved destination
          received, sends,   \* counters of the two bounds
          dest, replaced,    \* the destination asked for, and whether another
                             \* replaced it, see DestIsKept
          expected, replies, \* what the current request should be and is answered
          transmitted        \* the last packet of the user interface thread

stream == <<fAddress, fPort, errPort, fState, buffer, inProgress>>
state  == <<fSetDest, gXmit, zone, dest, replaced>>
control == <<todo, done, phase>>
vars   == <<option, stream, state, control, local, savedip, received, sends, expected,
            replies, transmitted>>

Threads == {"listener", "ui"}
NoPacket == [to |-> Localhost, addr |-> Alias, args |-> <<>>]

Init == /\ option \in Options
        /\ fAddress = option.desthost /\ fPort = 1 /\ errPort = 2
        /\ fState = "kIdle" /\ buffer = [addr |-> Root, args |-> <<>>]
        /\ inProgress = FALSE
        /\ fSetDest = (option.desthost = Localhost)
        /\ gXmit = option.xmit /\ zone = [p \in Params |-> 0]
        /\ todo = [t \in Threads |-> <<>>] /\ done = [t \in Threads |-> 0]
        /\ phase = [t \in Threads |-> "start"]
        /\ local = [t \in Threads |-> Localhost]
        /\ savedip = Localhost /\ received = 0 /\ sends = 0
        /\ dest = option.desthost /\ replaced = FALSE
        /\ expected = <<>> /\ replies = <<>> /\ transmitted = NoPacket

-----------------------------------------------------------------------------
(* oscout << OSCStart(addr) << what << OSCEnd().                           *)
Emit(addr, what) == [op |-> "emit", addr |-> addr, what |-> what]

(* A handler answers the host that asked: it saves the destination, sets   *)
(* it to that host, sends, and restores it.                                *)
To(h, steps) == <<[op |-> "redirect", host |-> h]>> \o steps \o <<[op |-> "restore"]>>

(* FaustNode::get: value, minimum and maximum.                             *)
nodeGet(p, h) == To(h, <<Emit(p, "value")>>)

(* MessageDriven::get: the three steps of every node below, in order.      *)
subnodesGet(h) ==
    [k \in 1..(3 * NParams) |-> nodeGet(((k - 1) \div 3) + 1, h)[((k - 1) % 3) + 1]]

(* RootNode::get: the attributes and the aliases.                          *)
attributesGet(h) ==
    To(h, << Emit(Root, "xmit"), Emit(Root, "desthost"), Emit(Root, "outport"),
             Emit(Root, "errport"), Emit(Alias, "alias") >>)

(* Variant: the attributes are sent and the nodes are forgotten. *)
AttributesOnly(h) == attributesGet(h)

(* ... then the nodes.                                                     *)
rootGet(h) == attributesGet(h) \o subnodesGet(h)

(* What is appended for an argument.                                       *)
Argument(addr, what) ==
    CASE what = "value"    -> zone[addr]
      [] what = "xmit"     -> gXmit
      [] what = "desthost" -> savedip
      [] what = "outport"  -> fPort
      [] what = "errport"  -> errPort
      [] what = "hello"    -> fPort
      [] what = "alias"    -> 1

(* aliastarget::scale of an alias with the reversed range 1 0 on 0 1: the  *)
(* target is the first node.                                               *)
scale(x) == 1 - x

(* RootNode::processMessage, propose and accept: the steps of a request.   *)
Handler(m) ==
    CASE m.kind = "hello"    -> To(m.src, <<Emit(Root, "hello")>>)
      [] m.kind = "get"      -> IF m.addr = Root THEN rootGet(m.src)
                                ELSE nodeGet(m.addr, m.src)
      [] m.kind = "attr"     -> To(m.src, <<Emit(Root, m.what)>>)
      [] m.kind = "value"    -> <<[op |-> "store", param |-> m.addr, v |-> m.v]>>
      [] m.kind = "alias"    -> <<[op |-> "store", param |-> 1, v |-> scale(m.v)]>>
      [] m.kind = "desthost" -> <<[op |-> "dest", host |-> m.host]>>
      [] m.kind = "outport"  -> <<[op |-> "port", n |-> m.n]>>
      [] m.kind = "errport"  -> <<[op |-> "err", n |-> m.n]>>
      [] m.kind = "setxmit"  -> <<[op |-> "xmit", n |-> m.n]>>

Messages ==
    [src: Hosts, kind: {"hello"}] \cup
    [src: Hosts, kind: {"get"}, addr: {Root} \cup Params] \cup
    [src: Hosts, kind: {"attr"}, what: Attributes] \cup
    [src: Hosts, kind: {"value"}, addr: Params, v: {0, 1}] \cup
    [src: Hosts, kind: {"alias"}, v: {0, 1}] \cup
    [src: Hosts, kind: {"desthost"}, host: Hosts] \cup
    [src: Hosts, kind: {"outport", "errport"}, n: Ports] \cup
    [src: Hosts, kind: {"setxmit"}, n: {0, 1}]

(* The answer the documentation promises: who, from which address, what;   *)
(* d is the destination in use.                                            *)
Packet(h, addr, what, n) ==
    [to |-> h, addr |-> addr, args |-> <<[addr |-> addr, what |-> what, n |-> n]>>]
Value(addr, what, d) == IF what = "desthost" THEN d ELSE Argument(addr, what)
Answer(m, d) ==
    LET packet(addr, what) == Packet(m.src, addr, what, Value(addr, what, d)) IN
    CASE m.kind = "hello" -> <<packet(Root, "hello")>>
      [] m.kind = "attr"  -> <<packet(Root, m.what)>>
      [] m.kind = "get" -> IF m.addr # Root THEN <<packet(m.addr, "value")>>
           ELSE <<packet(Root, "xmit"), packet(Root, "desthost"),
                  packet(Root, "outport"), packet(Root, "errport"),
                  packet(Alias, "alias")>> \o [p \in Params |-> packet(p, "value")]
      [] OTHER -> <<>>

Idle(t) == todo[t] = <<>>

(* What thread t does next, and a step of it done.                         *)
Now(t)      == todo[t][done[t] + 1]
Step(t, op) == ~Idle(t) /\ Now(t).op = op
Done(t) ==
    /\ IF done[t] + 1 < Len(todo[t])
       THEN done' = [done EXCEPT ![t] = @ + 1] /\ UNCHANGED todo
       ELSE done' = [done EXCEPT ![t] = 0] /\ todo' = [todo EXCEPT ![t] = <<>>]
    /\ phase' = [phase EXCEPT ![t] = "start"]

(* Variant: the destination is never learnt. *)
NeverFirst(m) == FALSE

(* OSCListener::ProcessMessage takes the first remote host for destination.*)
FirstRemote(m) == fSetDest /\ m.src # Localhost

(* OSCListener::ProcessMessage: a message arrives.                         *)
ProcessMessage(m) ==
    /\ m.kind \in option.kinds
    /\ Idle("listener") /\ received < option.messages
    /\ received' = received + 1
    /\ IF FirstRemote(m) THEN fAddress' = m.src /\ fSetDest' = FALSE
                         ELSE UNCHANGED <<fAddress, fSetDest>>
    /\ dest' = IF fSetDest /\ m.src # Localhost /\ dest = Localhost THEN m.src ELSE dest
    /\ replaced' = (replaced \/ /\ fSetDest /\ m.src # Localhost
                                /\ dest \notin {Localhost, m.src})
    /\ todo' = [todo EXCEPT !["listener"] = Handler(m)]
    /\ expected' = Answer(m, fAddress') /\ replies' = <<>>
    /\ UNCHANGED <<option, done, phase, fPort, errPort, fState, buffer, inProgress, gXmit, zone,
                   local, savedip, sends, transmitted>>

(* FaustNode::sendOSC, called by the user interface thread for a parameter *)
(* that changed: nothing unless gXmit is set.                              *)
sendOSC(p) ==
    /\ Idle("ui") /\ gXmit = 1 /\ sends < option.sends
    /\ todo' = [todo EXCEPT !["ui"] = <<Emit(p, "value")>>]
    /\ sends' = sends + 1
    /\ UNCHANGED <<option, done, phase, stream, state, local, savedip, received, expected, replies,
                   transmitted>>

-----------------------------------------------------------------------------
(* The thread is in a phase of sending a message, and goes on to the next. *)
Sending(t, ph) == Step(t, "emit") /\ phase[t] = ph
Phase(t, ph)   == phase' = [phase EXCEPT ![t] = ph] /\ UNCHANGED <<todo, done>>

(* OSCStream::start.                                                       *)
start(t) ==
    /\ Sending(t, "start") /\ Phase(t, "args")
    /\ buffer' = [addr |-> Now(t).addr, args |-> <<>>]
    /\ inProgress' = TRUE /\ fState' = "kInProgress"
    /\ UNCHANGED <<option, fAddress, fPort, errPort, state, local, savedip, received, sends,
                   expected, replies, transmitted>>

(* operator<< of the arguments.                                            *)
args(t) ==
    /\ Sending(t, "args") /\ Phase(t, "end")
    /\ LET s == Now(t) IN
       buffer' = [buffer EXCEPT !.args = Append(@,
           [addr |-> s.addr, what |-> s.what, n |-> Argument(s.addr, s.what)])]
    /\ UNCHANGED <<option, fAddress, fPort, errPort, fState, inProgress, state, local, savedip,
                   received, sends, expected, replies, transmitted>>

(* OSCStream::end reads the destination; send only goes on when a message  *)
(* is in progress.                                                         *)
end(t) ==
    /\ Sending(t, "end")
    /\ local' = [local EXCEPT ![t] = fAddress]
    /\ IF fState = "kInProgress" THEN Phase(t, "send") ELSE Done(t)
    /\ UNCHANGED <<option, stream, state, savedip, received, sends, expected, replies,
                   transmitted>>

(* EndMessage and SendTo.  EndMessage throws when another thread has ended *)
(* the message: the listener thread then ends, as OscThread::run catches   *)
(* the exception outside of its loop, and takes no further message.        *)
send(t) ==
    /\ Sending(t, "send")
    /\ IF inProgress
       THEN /\ inProgress' = FALSE /\ Phase(t, "idle")
            /\ LET packet == [to |-> local[t], addr |-> buffer.addr, args |-> buffer.args] IN
               IF t = "ui" THEN transmitted' = packet /\ UNCHANGED replies
                           ELSE replies' = Append(replies, packet) /\ UNCHANGED transmitted
       ELSE /\ todo' = [todo EXCEPT ![t] = <<[op |-> "dead"]>>]
            /\ done' = [done EXCEPT ![t] = 0] /\ UNCHANGED phase
            /\ UNCHANGED <<inProgress, replies, transmitted>>
    /\ UNCHANGED <<option, fAddress, fPort, errPort, fState, buffer, state, local, savedip,
                   received, sends, expected>>

(* fState = kIdle.                                                         *)
idle(t) ==
    /\ Sending(t, "idle") /\ Done(t)
    /\ fState' = "kIdle"
    /\ UNCHANGED <<option, fAddress, fPort, errPort, buffer, inProgress, state, local, savedip,
                   received, sends, expected, replies, transmitted>>

(* The listener saves the destination and sets it to the asking host ...   *)
redirect ==
    /\ Step("listener", "redirect") /\ Done("listener")
    /\ savedip' = fAddress
    /\ fAddress' = Now("listener").host
    /\ UNCHANGED <<option, fPort, errPort, fState, buffer, inProgress, state, local, received,
                   sends, expected, replies, transmitted>>

(* ... and restores it.                                                    *)
restore ==
    /\ Step("listener", "restore") /\ Done("listener")
    /\ fAddress' = savedip
    /\ UNCHANGED <<option, fPort, errPort, fState, buffer, inProgress, state, local, savedip,
                   received, sends, expected, replies, transmitted>>

(* RootNode::accept of the messages that set an attribute, and the store   *)
(* of a value.                                                             *)
setAttribute ==
    /\ ~Idle("listener") /\ Now("listener").op \in {"dest", "port", "err", "xmit", "store"}
    /\ Done("listener")
    /\ LET s == Now("listener") IN
       /\ fAddress' = IF s.op = "dest" THEN s.host ELSE fAddress
       /\ dest'     = IF s.op = "dest" THEN s.host ELSE dest
       /\ replaced' = (s.op # "dest" /\ replaced)
       /\ fPort'    = IF s.op = "port" THEN s.n ELSE fPort
       /\ errPort'  = IF s.op = "err" THEN s.n ELSE errPort
       /\ gXmit'    = IF s.op = "xmit" THEN s.n ELSE gXmit
       /\ zone'     = IF s.op = "store" THEN [zone EXCEPT ![s.param] = s.v] ELSE zone
    /\ UNCHANGED <<option, fState, buffer, inProgress, fSetDest, local, savedip, received, sends,
                   expected, replies, transmitted>>

Thread(t) == start(t) \/ args(t) \/ end(t) \/ send(t) \/ idle(t)

(* Every message was received and answered, or the listener thread ended.  *)
Finished ==
    /\ received = option.messages \/ Step("listener", "dead")
    /\ sends = option.sends \/ gXmit = 0 \/ Step("ui", "dead")
    /\ Idle("listener") \/ Step("listener", "dead")
    /\ Idle("ui") \/ Step("ui", "dead")
    /\ UNCHANGED vars

Next == \/ \E m \in Messages: ProcessMessage(m)
        \/ \E p \in Params: sendOSC(p)
        \/ \E t \in Threads: Thread(t)
        \/ redirect \/ restore \/ setAttribute
        \/ Finished

Spec == Init /\ [][Next]_vars

-----------------------------------------------------------------------------
(* The steps: a message sent, the destination replaced and put back, the   *)
(* handlers of the messages that set something, the end of a thread.       *)
Steps == [op : {"emit"}, addr : {Root, Alias}, what : Attributes \cup {"hello", "alias"}]
         \cup [op : {"emit"}, addr : Params, what : {"value"}]
         \cup [op : {"redirect", "dest"}, host : Hosts]
         \cup [op : {"restore", "dead"}]
         \cup [op : {"port", "err"}, n : Ports] \cup [op : {"xmit"}, n : {0, 1}]
         \cup [op : {"store"}, param : Params, v : {0, 1}]

Addresses == {Alias, Root} \cup Params
Arguments == [addr : Addresses, what : Attributes \cup {"hello", "alias", "value"}, n : Nat]
Packets   == [to : Hosts, addr : Addresses, args : Seq(Arguments)]

TypeOK == /\ option \in Options
          /\ buffer \in [addr : Addresses, args : Seq(Arguments)]
          /\ {expected, replies} \subseteq Seq(Packets) /\ transmitted \in Packets
          /\ {fAddress, savedip, dest} \subseteq Hosts /\ {fPort, errPort} \subseteq Ports
          /\ fState \in {"kIdle", "kInProgress"} /\ zone \in [Params -> {0, 1}]
          /\ {inProgress, fSetDest, replaced} \subseteq BOOLEAN /\ gXmit \in {0, 1}
          /\ todo \in [Threads -> Seq(Steps)] /\ done \in [Threads -> Nat]
          /\ phase \in [Threads -> {"start", "args", "end", "send", "idle"}]
          /\ local \in [Threads -> Hosts]
          /\ received \in 0..option.messages /\ sends \in 0..option.sends

(* Once a request has been handled, the packets sent for it are exactly    *)
(* the answer promised: a get of the root lists the attributes, the        *)
(* aliases and every parameter with its value, in that order, to the host  *)
(* that asked, and no handler leaves a packet of its own behind.           *)
RepliesComplete == Idle("listener") => replies = expected

(* Between two messages the stream points to the destination asked for:    *)
(* the handlers that redirect it to answer a host put it back.  The        *)
(* destination asked for is the one given by the option or by the last     *)
(* desthost message; when that is the local host, the first remote host    *)
(* heard of replaces it.  A destination that a message set in an           *)
(* application started without one is replaced too, by the first remote    *)
(* host to send: from then on nothing is said until the next desthost      *)
(* message.                                                                *)
DestIsKept == Idle("listener") /\ ~replaced => fAddress = dest

(* The uses of the stream in which the threads do not get in each other's  *)
(* way: values are transmitted only when a destination was given, and      *)
(* then no message is answered and none sets the destination.              *)
Sound == option.sends > 0 =>
             /\ option.desthost # Localhost
             /\ option.kinds \cap (Answered \cup {"desthost"}) = {}

(* A packet holds the arguments of one message, those of the node whose    *)
(* address it carries.                                                     *)
Whole(packet) == packet = NoPacket \/
                 (Len(packet.args) = 1 /\ packet.args[1].addr = packet.addr)
PacketsWhole == Whole(transmitted) /\ \A k \in 1..Len(replies): Whole(replies[k])

(* What the user interface transmits goes to the destination asked for and *)
(* not to the host the listener is answering.                              *)
TransmittedToDest == transmitted # NoPacket => transmitted.to = dest

(* The listener thread never ends on its own.                              *)
ListenerAlive == ~Step("listener", "dead")

-----------------------------------------------------------------------------
(* The destination is replaced after k steps of q.                         *)
Away(q, k) == \E i \in 1..k : /\ q[i].op = "redirect"
                              /\ \A j \in (i + 1)..k : q[j].op # "restore"

(* Whatever is sent is sent to the host that asked, and the destination    *)
(* is put back before it is replaced again, and at the end; what sets      *)
(* something is alone.                                                     *)
Balanced(q) ==
    /\ \A k \in 1..Len(q) :
        /\ q[k].op = "redirect" => ~Away(q, k - 1) /\ q[k].host = q[1].host
        /\ q[k].op \in {"restore", "emit"} => Away(q, k - 1)
        /\ q[k].op \notin {"redirect", "restore", "emit"} => Len(q) = 1
        /\ q[k].op # "dead"
    /\ ~Away(q, Len(q))

(* The destination in use, replaced or not while a host is answered.       *)
InUse == IF Away(todo["listener"], done["listener"]) THEN savedip ELSE fAddress

(* The listener: where the destination points.                             *)
DestInv ==
    LET q == todo["listener"]
        p == done["listener"] IN
    /\ Balanced(q) /\ p <= Len(q) /\ (q # <<>> => p < Len(q))
    /\ Away(q, p) => fAddress = q[1].host
    /\ ~replaced => InUse = dest

(* The step of q that sends the j-th packet of an answer: the attributes   *)
(* and the alias first, then one in the three steps of each node.          *)
Place(j) == IF j <= 5 THEN j + 1 ELSE 3 * j - 9

(* The steps of q that send are those that send the packets of e.          *)
SendsAnswer(q, e) ==
    /\ \A j \in 1..Len(e) :
        /\ Place(j) <= Len(q) /\ q[Place(j)].op = "emit"
        /\ LET s == q[Place(j)] IN
           e[j] = Packet(q[1].host, s.addr, s.what, Value(s.addr, s.what, InUse))
    /\ \A k \in 1..Len(q) : q[k].op = "emit" => \E j \in 1..Len(e) : k = Place(j)

(* When the stream is used soundly: which packets of the answer have been  *)
(* sent.                                                                   *)
ListenerInv ==
    LET q == todo["listener"]
        p == done["listener"] IN
    /\ DestInv
    /\ q # <<>> => SendsAnswer(q, expected)
    /\ Len(replies) <= Len(expected)
    /\ q = <<>> => Len(replies) = Len(expected)
    /\ \A j \in 1..Len(expected) :
        /\ j <= Len(replies) => replies[j] = expected[j]
        /\ Whole(expected[j])
        /\ q # <<>> =>
            (j <= Len(replies) <=> \/ Place(j) <= p
                                   \/ Place(j) = p + 1 /\ phase["listener"] = "idle")

(* The user interface thread: it transmits one value at a time, and only   *)
(* when the listener sends nothing.                                        *)
UiInv ==
    LET u == todo["ui"] IN
    /\ u # <<>> => Len(u) = 1 /\ u[1].op = "emit"
    /\ done["ui"] = 0
    /\ option.sends = 0 => u = <<>> /\ transmitted = NoPacket
    /\ option.sends > 0 =>
        /\ ~fSetDest /\ ~replaced
        /\ \A k \in 1..Len(todo["listener"]) :
             todo["listener"][k].op \notin {"emit", "redirect", "dest"}
    /\ Whole(transmitted) /\ TransmittedToDest

(* The message thread t is sending.                                        *)
Message(t) ==
    /\ ~Step(t, "emit") => phase[t] = "start"
    /\ phase[t] \in {"args", "end", "send"} => inProgress /\ fState = "kInProgress"
    /\ phase[t] = "args" => buffer = [addr |-> Now(t).addr, args |-> <<>>]
    /\ phase[t] \in {"end", "send"} =>
        LET s == Now(t) IN
        /\ buffer.addr = s.addr /\ Len(buffer.args) = 1 /\ buffer.args[1].addr = s.addr
        /\ t = "listener" => buffer = [addr |-> s.addr,
             args |-> <<[addr |-> s.addr, what |-> s.what, n |-> Argument(s.addr, s.what)]>>]
    /\ phase[t] = "send" => local[t] = fAddress

Inv == /\ TypeOK /\ ListenerInv /\ UiInv
       /\ Message("listener") /\ Message("ui")
=============================================================================
