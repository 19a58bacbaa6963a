------------------------------ MODULE GUIZones ------------------------------
(***************************************************************************)
(* The zones of a Faust program and the interfaces that show them          *)
(* (architecture/faust/gui/GUI.h).  A zone is a float the audio code       *)
(* reads.  Every GUI keeps, per zone, a list of items; an item remembers   *)
(* in fCache the value it last handled.  Two interfaces share the zones    *)
(* here, in the order main() creates them: the graphical one, whose items  *)
(* are adjustments or sliders ("widget") and value displays ("display"),   *)
(* and OSCUI, whose items are FaustNodes ("node") that transmit the value  *)
(* of their zone.                                                          *)
(*                                                                         *)
(* The user interface thread runs a pass of updateAllGuis on a timer and   *)
(* the handlers of the user's moves.  A widget whose value is set emits    *)
(* its signal, whose handler calls modifyZone: reflectZone, modifyZone and *)
(* updateZone call each other, so the thread's state is a stack of calls.  *)
(* The OSC thread stores into the zones at any moment, without a lock:     *)
(* every access of the user interface thread to a zone is a step of its    *)
(* own, and what lies between two accesses belongs to the first of them.   *)
(***************************************************************************)
EXTENDS Integers, Sequences, FiniteSets

CONSTANTS NZones,                  \* zones, in the order of their addresses
          Widgets, Displays, Nodes, \* items of every zone
          MaxValue,                \* zones hold 0..MaxValue
          Lo, Hi,                  \* the range of the parameter
          Unit,                    \* resolution of a widget: 1 for GTK
          MaxMoves, MaxStores      \* bounds: user moves, OSC messages

\* Assumed of the constants.
ZonesAssumption ==
    /\ NZones \in Nat \ {0} /\ {Widgets, Displays, Nodes} \subseteq Nat
    /\ MaxValue \in Nat /\ Lo \in 0..MaxValue /\ Hi \in Lo..MaxValue
    /\ Unit \in Nat \ {0} /\ (Hi - Lo) % Unit = 0
    /\ MaxMoves \in Nat /\ MaxStores \in Nat

Zones  == 1..NZones
Values == 0..MaxValue
Unset  == -1                       \* the initial fCache, -123456.654321

(* The items of a zone, in the order they were registered; the nodes        *)
(* belong to OSCUI, the others to the graphical interface.                 *)
Items     == Zones \X (1..(Widgets + Displays + Nodes))
Kind(i)   == IF i[2] <= Widgets THEN "widget"
             ELSE IF i[2] <= Widgets + Displays THEN "display" ELSE "node"
Gui(i)    == IF Kind(i) = "node" THEN 2 ELSE 1
clist(g, z) == {i \in Items : i[1] = z /\ Gui(i) = g}

VARIABLES zone,      \* zone[z]: the float itself
          fCache,    \* fCache[i]: the value item i last handled
          shown,     \* shown[i]: what the widget displays, what a node last sent
          stack,     \* the calls of the user interface thread, the current one last
          asked,     \* asked[z]: the value last asked by the user or over OSC,
                     \* Unset when there is none yet
          moves, stores

vars == <<zone, fCache, shown, stack, asked, moves, stores>>

-----------------------------------------------------------------------------
(* mapping::clip of the OSC nodes, and the range of the widgets.           *)
clip(x) == IF x < Lo THEN Lo ELSE IF x > Hi THEN Hi ELSE x

(* The values at which the user can put a widget.                          *)
Positions == {x \in Lo..Hi: (x - Lo) % Unit = 0}

(* Variant: set by the program, the widget never reaches its upper bound,  *)
(* as an adjustment with a page size does. *)
NarrowWidgetValue(x) == IF x >= Hi THEN Hi - 1 ELSE clip(x)

(* What a widget shows when it is set to x.  A Qt slider has Hi - Lo over  *)
(* Unit positions and faust2ui is truncated to one; ui2faust turns it back *)
(* into a value.  A GTK adjustment only bounds x.                          *)
WidgetValue(x) == Lo + ((clip(x) - Lo) \div Unit) * Unit

(* The state file of the last session may hold any value; the widgets      *)
(* still show the initial value of the program, here Lo.                   *)
Init == /\ zone \in [Zones -> Values]
        /\ fCache = [i \in Items |-> Unset]
        /\ shown = [i \in Items |-> IF Kind(i) = "widget" THEN Lo ELSE Unset]
        /\ stack = <<>>
        /\ asked = [z \in Zones |-> Unset]
        /\ moves = 0 /\ stores = 0

Idle == stack = <<>>
Top  == stack[Len(stack)]
Call(op) == ~Idle /\ Top.op = op
Pop  == SubSeq(stack, 1, Len(stack) - 1)

-----------------------------------------------------------------------------
(* Variant: the last zone of the last interface is never visited. *)
ShortPass == [k \in 1..(2 * NZones - 1) |->
                 <<((k - 1) \div NZones) + 1, ((k - 1) % NZones) + 1>>]

(* The zone lists a pass visits: every zone of every interface.            *)
AllZones == [k \in 1..(2 * NZones) |->
                 <<((k - 1) \div NZones) + 1, ((k - 1) % NZones) + 1>>]

(* The timer of the graphical interface fires: updateAllGuis.              *)
updateAllGuis ==
    /\ Idle
    /\ stack' = <<[op |-> "pass", todo |-> AllZones]>>
    /\ UNCHANGED <<zone, fCache, shown, asked, moves, stores>>

(* updateAllZones goes on to the next zone.                                *)
NextZone ==
    /\ Call("pass")
    /\ stack' = IF Top.todo = <<>> THEN Pop
                ELSE Append(Append(Pop, [op |-> "pass", todo |-> Tail(Top.todo)]),
                            [op |-> "read", gui |-> Head(Top.todo)[1],
                             zone |-> Head(Top.todo)[2]])
    /\ UNCHANGED <<zone, fCache, shown, asked, moves, stores>>

(* updateZone, and the body of updateAllZones: v = *z.                     *)
updateZone ==
    /\ Call("read")
    /\ stack' = Append(Pop, [op |-> "scan", v |-> zone[Top.zone],
                             todo |-> clist(Top.gui, Top.zone)])
    /\ UNCHANGED <<zone, fCache, shown, asked, moves, stores>>

(* The items still to be looked at whose cache differs from v, and the     *)
(* first of them.                                                          *)
Stale      == {i \in Top.todo : fCache[i] # Top.v}
NextStale  == {i \in Stale : \A j \in Stale : i[2] <= j[2]}

(* The end of the list.                                                    *)
ScanEnd ==
    /\ Call("scan") /\ Stale = {}
    /\ stack' = Pop
    /\ UNCHANGED <<zone, fCache, shown, asked, moves, stores>>

(* The rest of the list, once its next stale item has been reflected.      *)
RestOf(i) == Append(Pop, [op |-> "scan", v |-> Top.v,
                          todo |-> {j \in Top.todo : j[2] > i[2]}])

(* reflectZone of an adjustment or a slider: the widget emits its signal   *)
(* when its value changes, and the handler calls modifyZone.               *)
reflectWidget ==
    /\ Call("scan")
    /\ \E i \in NextStale :
       LET v == zone[i[1]]
           w == WidgetValue(v) IN
       /\ Kind(i) = "widget"
       /\ fCache' = [fCache EXCEPT ![i] = v]
       /\ shown' = [shown EXCEPT ![i] = w]
       /\ stack' = IF w = shown[i] THEN RestOf(i)
                   ELSE Append(RestOf(i), [op |-> "modify", item |-> i, v |-> w])
    /\ UNCHANGED <<zone, asked, moves, stores>>

(* reflectZone of a value display.                                         *)
reflectDisplay ==
    /\ Call("scan")
    /\ \E i \in NextStale :
       /\ Kind(i) = "display"
       /\ fCache' = [fCache EXCEPT ![i] = zone[i[1]]]
       /\ shown' = [shown EXCEPT ![i] = zone[i[1]]]
       /\ stack' = RestOf(i)
    /\ UNCHANGED <<zone, asked, moves, stores>>

(* reflectZone of a FaustNode: sendOSC reads the zone and sends it ...     *)
sendOSC ==
    /\ Call("scan")
    /\ \E i \in NextStale :
       /\ Kind(i) = "node"
       /\ shown' = [shown EXCEPT ![i] = zone[i[1]]]
       /\ stack' = Append(RestOf(i), [op |-> "sent", item |-> i])
    /\ UNCHANGED <<zone, fCache, asked, moves, stores>>

(* ... and then fCache = *fZone reads it again.                            *)
cacheSent ==
    /\ Call("sent")
    /\ fCache' = [fCache EXCEPT ![Top.item] = zone[Top.item[1]]]
    /\ stack' = Pop
    /\ UNCHANGED <<zone, shown, asked, moves, stores>>

-----------------------------------------------------------------------------
(* modifyZone up to its comparison of the zone with v ...                  *)
modifyZone ==
    /\ Call("modify")
    /\ fCache' = [fCache EXCEPT ![Top.item] = Top.v]
    /\ stack' = IF zone[Top.item[1]] = Top.v THEN Pop
                ELSE Append(Pop, [op |-> "store", item |-> Top.item, v |-> Top.v])
    /\ UNCHANGED <<zone, shown, asked, moves, stores>>

(* ... and its store, followed by updateZone of its own interface.         *)
modifyStore ==
    /\ Call("store")
    /\ LET i == Top.item IN
       /\ zone' = [zone EXCEPT ![i[1]] = Top.v]
       /\ stack' = Append(Pop, [op |-> "read", gui |-> Gui(i), zone |-> i[1]])
    /\ UNCHANGED <<fCache, shown, asked, moves, stores>>

(* The user moves a widget: its handler calls modifyZone.                  *)
Move(i, v) ==
    /\ Idle /\ moves < MaxMoves /\ Kind(i) = "widget"
    /\ v \in Positions \ {shown[i]}
    /\ shown' = [shown EXCEPT ![i] = v]
    /\ asked' = [asked EXCEPT ![i[1]] = v]
    /\ stack' = <<[op |-> "modify", item |-> i, v |-> v]>>
    /\ moves' = moves + 1
    /\ UNCHANGED <<zone, fCache, stores>>

(* FaustNode::accept in the OSC thread: store the clipped value.           *)
accept(z, v) ==
    /\ stores < MaxStores
    /\ zone' = [zone EXCEPT ![z] = clip(v)]
    /\ asked' = [asked EXCEPT ![z] = clip(v)]
    /\ stores' = stores + 1
    /\ UNCHANGED <<fCache, shown, stack, moves>>

UIThread == \/ updateAllGuis \/ NextZone \/ updateZone \/ ScanEnd
            \/ reflectWidget \/ reflectDisplay \/ sendOSC \/ cacheSent
            \/ modifyZone \/ modifyStore

Next == \/ UIThread
        \/ \E i \in Items, v \in Values: Move(i, v)
        \/ \E z \in Zones, v \in Values: accept(z, v)

Spec == Init /\ [][Next]_vars

(* The timer keeps firing and the thread it fires in keeps running; nothing *)
(* makes the user move a widget or a client send a message.                *)
FairSpec == Spec /\ WF_vars(UIThread)

-----------------------------------------------------------------------------
(* The calls: a pass over the zones, a zone read, its items looked at, a   *)
(* value sent, a value compared with a zone and stored.                    *)
Calls == [op : {"pass"}, todo : Seq({1, 2} \X Zones)]
         \cup [op : {"read"}, gui : {1, 2}, zone : Zones]
         \cup [op : {"scan"}, v : Values, todo : SUBSET Items]
         \cup [op : {"sent"}, item : Items]
         \cup [op : {"modify", "store"}, item : Items, v : Values]

TypeOK == /\ zone \in [Zones -> Values] /\ asked \in [Zones -> Values \cup {Unset}]
          /\ fCache \in [Items -> Values \cup {Unset}]
          /\ shown \in [Items -> Values \cup {Unset}]
          /\ stack \in Seq(Calls)
          /\ moves \in 0..MaxMoves /\ stores \in 0..MaxStores

(* Between two calls of the user interface thread, an item that believes   *)
(* it is up to date with a value (fCache) does show that value: reflecting *)
(* compares caches only, so an item whose cache ran ahead of what it shows *)
(* is never corrected.                                                     *)
Shows(i, x) == shown[i] = IF Kind(i) = "widget" THEN WidgetValue(x) ELSE x
CacheIsShown ==
    Idle => \A i \in Items: fCache[i] # Unset => Shows(i, fCache[i])

(* Between two calls of the user interface thread, a zone holds the value  *)
(* last asked for by the user or by an OSC message: reflecting it in the   *)
(* widgets, whose handlers write zones, never replaces it by another.      *)
AskedIsKept ==
    Idle => \A z \in Zones: asked[z] = Unset \/ zone[z] = asked[z]

(* A call of modifyZone for zone z is at work.                             *)
Modifying(z) == ~Idle /\ Top.op \in {"modify", "store"} /\ Top.item[1] = z

(* When only the user moves widgets: a call of modifyZone carries the      *)
(* value asked for, which is a position of the widgets, and no other call  *)
(* waits for it but a pass or a list of items; and an item whose cache is  *)
(* ahead of what it shows is the one the current call is about             *)
(* (reflectZone, modifyZone).                                              *)
Inv ==
    /\ TypeOK
    /\ \A k \in 1..(Len(stack) - 1) : stack[k].op \in {"pass", "scan"}
    /\ \A z \in Zones : asked[z] # Unset =>
        /\ asked[z] \in Positions
        /\ asked[z] = IF Modifying(z) THEN Top.v ELSE zone[z]
    /\ Call("modify") => /\ Kind(Top.item) = "widget" /\ Top.v \in Positions
                         /\ shown[Top.item] = Top.v
    /\ Call("sent") => /\ Kind(Top.item) = "node"
                       /\ shown[Top.item] = zone[Top.item[1]]
    /\ \A i \in Items : fCache[i] # Unset =>
        \/ Shows(i, fCache[i])
        \/ (Call("modify") \/ Call("sent")) /\ Top.item = i

(* Once the user and the clients are quiet, every item of every interface  *)
(* comes to show the value of its zone and goes on doing so, although a    *)
(* modifyZone only updates the interface it belongs to and although a      *)
(* value may change in the middle of a pass.                               *)
ShowsZones == \A i \in Items: Shows(i, zone[i[1]])
Reflected == <>[]ShowsZones

(* Every value the user gives a zone is eventually sent by its OSC node.   *)
ActionsTransmitted ==
    \A i \in Items, v \in Values:
        (Kind(i) = "node" /\ asked[i[1]] = v) ~> shown[i] = v
=============================================================================
