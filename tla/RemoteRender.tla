---------------------------- MODULE RemoteRender ----------------------------
(***************************************************************************)
(* Rendering through NetJack: remote_dsp_aux::compute cuts the block of    *)
(* the caller into cycles of the connection's buffer size, sends and       *)
(* receives one slice per cycle, and stops when the error callback of the  *)
(* application says so.                                                    *)
(***************************************************************************)
EXTENDS Integers, Sequences

CONSTANTS BufferSize,     \* fBufferSize
          MaxCount,       \* bound: frames of a call of compute
          HasCallback     \* whether the application gave an error callback

\* Assumed of the constants.
RenderAssumption ==
    BufferSize \in Nat \ {0} /\ MaxCount \in Nat /\ HasCallback \in BOOLEAN

VARIABLES fRunningFlag,
          pc,       \* where compute is
          count,    \* frames of this call
          cycle,    \* i
          output,   \* what each frame of the caller's output holds
          zeroed,   \* frames of the caller's input that were overwritten
          slices,   \* history: the slices of this call, as <<offset, size>>
          stopped   \* history: the callback stopped the run in this call

vars == <<fRunningFlag, pc, count, cycle, output, zeroed, slices, stopped>>

Frames == 0..(MaxCount - 1)

TypeOK ==
    /\ fRunningFlag \in BOOLEAN /\ stopped \in BOOLEAN
    /\ pc \in {"idle", "send", "recv", "done"}
    /\ count \in 0..MaxCount /\ cycle \in 0..MaxCount
    /\ output \in [Frames -> {"old", "audio", "zero"}]
    /\ zeroed \subseteq Nat
    /\ slices \in Seq(Frames \X (1..BufferSize))

Init ==
    /\ fRunningFlag = TRUE /\ pc = "idle" /\ count = 0 /\ cycle = 0
    /\ output = [f \in Frames |-> "old"]
    /\ zeroed = {} /\ slices = <<>> /\ stopped = FALSE

numberOfCycles == count \div BufferSize
lastCycle == count % BufferSize

(* Variant: the last cycle starts one buffer too early.                    *)
OffsetEarly == IF cycle < numberOfCycles THEN cycle * BufferSize
               ELSE (cycle - 1) * BufferSize

(* setupBuffers: the frames of the current cycle.                          *)
Offset == cycle * BufferSize
Size == IF cycle < numberOfCycles THEN BufferSize ELSE lastCycle

Cycles == numberOfCycles + (IF lastCycle > 0 THEN 1 ELSE 0)

Filled(offset, size, value) ==
    [f \in Frames |-> IF f \in offset..(offset + size - 1) THEN value
                      ELSE output[f]]

(* compute is called: a stopped instance fills the output with zeros.      *)
Start(n) ==
    /\ pc = "idle"
    /\ count' = n /\ cycle' = 0 /\ slices' = <<>>
    /\ zeroed' = {} /\ stopped' = FALSE
    /\ \/ /\ fRunningFlag /\ pc' = IF n = 0 THEN "done" ELSE "send"
          /\ output' = [f \in Frames |-> "old"]
       \/ /\ ~fRunningFlag /\ pc' = "done"
          /\ output' = [f \in Frames |-> IF f < n THEN "zero" ELSE "old"]
    /\ UNCHANGED fRunningFlag

(* What the error callback answers; without one the run goes on.           *)
Callback ==
    \/ UNCHANGED <<fRunningFlag, stopped>>
    \/ HasCallback /\ fRunningFlag' = FALSE /\ stopped' = TRUE

(* The last cycle pads the caller's input to the buffer size.              *)
Padded == IF cycle < numberOfCycles THEN {}
          ELSE (Offset + lastCycle)..(Offset + BufferSize - 1)

sendSlice(ok) ==
    /\ pc = "send" /\ pc' = "recv"
    /\ zeroed' = zeroed \cup Padded
    /\ slices' = IF fRunningFlag THEN Append(slices, <<Offset, Size>>)
                 ELSE slices
    /\ IF fRunningFlag /\ ~ok
       THEN output' = Filled(Offset, Size, "zero") /\ Callback
       ELSE UNCHANGED <<output, fRunningFlag, stopped>>
    /\ UNCHANGED <<count, cycle>>

recvSlice(ok) ==
    /\ pc = "recv"
    /\ output' = IF fRunningFlag
                 THEN Filled(Offset, Size, IF ok THEN "audio" ELSE "zero")
                 ELSE output
    /\ IF fRunningFlag /\ ~ok THEN Callback
       ELSE UNCHANGED <<fRunningFlag, stopped>>
    /\ cycle' = cycle + 1
    /\ pc' = IF cycle' = Cycles THEN "done" ELSE "send"
    /\ UNCHANGED <<count, zeroed, slices>>

Return ==
    /\ pc = "done" /\ pc' = "idle"
    /\ UNCHANGED <<fRunningFlag, count, cycle, output, zeroed, slices, stopped>>

Next ==
    \/ \E n \in 0..MaxCount : Start(n)
    \/ \E ok \in BOOLEAN : sendSlice(ok) \/ recvSlice(ok)
    \/ Return

Spec == Init /\ [][Next]_vars

(***************************************************************************)
(* Properties                                                              *)
(***************************************************************************)

(* When compute returns, every frame of the output was received or         *)
(* cleared, whatever failed, unless the callback stopped the run in this   *)
(* very call (sendSlice, recvSlice, compute).                              *)
OutputsWritten ==
    pc = "done" /\ ~stopped => \A f \in Frames : f < count => output[f] # "old"

(* The slices of a call follow each other from the first frame on, each    *)
(* fits the connection, and together they are the whole block when the run *)
(* was not stopped: no frame is sent twice or left out (setupBuffers).     *)
EndOf(j) == IF j = 0 THEN 0 ELSE slices[j][1] + slices[j][2]
Covered == EndOf(Len(slices))

SlicesTile ==
    /\ \A j \in 1..Len(slices) : slices[j][1] = EndOf(j - 1)
    /\ pc = "done" /\ fRunningFlag => Covered = count

(* Between two slices: the cycles still to come, the frames sent and those *)
(* written so far.  Within a call only the callback stops the run.         *)
Inv ==
    /\ TypeOK
    /\ SlicesTile /\ OutputsWritten
    /\ pc \in {"send", "recv"} =>
        /\ cycle < Cycles
        /\ stopped \/ fRunningFlag
        /\ fRunningFlag => Covered = Offset + (IF pc = "recv" THEN Size ELSE 0)
        /\ ~stopped => \A f \in Frames : f < Offset => output[f] # "old"

(* Once the callback has stopped the run no slice is exchanged any more    *)
(* and the run does not start again (remote-dsp.h: "-1 to stop calling DSP *)
(* 'compute'").                                                            *)
StoppedForGood ==
    [][~fRunningFlag => ~fRunningFlag' /\ Len(slices') <= Len(slices)]_vars

(* compute writes to no frame of the input after those of the caller's     *)
(* block (remote-dsp.h: compute "can be safely called with a number of     *)
(* frames below bufferSize").                                              *)
WritesInBuffers == \A f \in zeroed : f < count
=============================================================================
