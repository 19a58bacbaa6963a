------------------------------ MODULE VSTSynth ------------------------------
(***************************************************************************)
(* The polyphonic VST instrument of architecture/vst.cpp: notes queued by  *)
(* processEvents with the frame at which they start, the block that is cut *)
(* at these frames by synthProcessReplacing, and voices that are taken,    *)
(* stolen, released and given back once they are silent.                   *)
(***************************************************************************)
EXTENDS Integers, Sequences, FiniteSets, SequencesExt, Filters

CONSTANTS Notes,
          MAX_POLYPHONY,
          SampleFrames,   \* frames of a block
          Deltas,         \* frames after which the host lets a note start
          MaxQueue        \* bound: notes waiting to be processed

\* Assumed of the constants.
VSTAssumption ==
    /\ MAX_POLYPHONY \in Nat \ {0} /\ SampleFrames \in Nat \ {0}
    /\ Deltas \subseteq Nat /\ MaxQueue \in Nat

VARIABLES current,         \* m_currentNotes, -Velocities and -Deltas, with
                           \* the frames still to compute before as history
          playing,         \* m_playingVoices
          released,        \* m_releasedVoices
          free,            \* m_freeVoices
          gate,            \* the gate of every voice
          processing,      \* inside synthProcessReplacing
          previousDelta,
          count,           \* history: frames of the last compute
          rendered,        \* history: frames computed in this block
          late,            \* history: a note was not started on its frame
          mixed            \* history: a block began with notes inside it
                           \* and others of a later block

voices == <<playing, released, free, gate>>
history == <<late, mixed>>
vars == <<current, voices, processing, previousDelta, count, rendered, history>>

Voices == 0..(MAX_POLYPHONY - 1)
Event == [note : Notes, velocity : {0, 1}, delta : Nat, due : Int]
Playing(V) == [note : Notes, voice : V]
VoicesOf(p) == [i \in DOMAIN p |-> p[i].voice]
PlayingVoices == ToSet(VoicesOf(playing))

Init ==
    /\ current = <<>> /\ playing = <<>> /\ released = {}
    /\ free = [i \in 1..MAX_POLYPHONY |-> i - 1]
    /\ gate = [v \in Voices |-> 0]
    /\ processing = FALSE /\ previousDelta = 0
    /\ count = 0 /\ rendered = 0 /\ late = FALSE /\ mixed = FALSE

(***************************************************************************)
(* processEvents: the host sends the notes of a block in order.            *)
(***************************************************************************)
Enqueue(note, velocity, delta) ==
    /\ ~processing /\ Len(current) < MaxQueue
    /\ current # <<>> => Last(current).delta <= delta
    /\ current' = Append(current,
                    [note |-> note, velocity |-> velocity, delta |-> delta,
                     due |-> delta])
    /\ UNCHANGED <<voices, processing, previousDelta, count, rendered, history>>

noteOn(note, delta) == Enqueue(note, 1, delta)
noteOff(note, delta) == Enqueue(note, 0, delta)

allNotesOff ==
    /\ ~processing
    /\ gate' = [v \in Voices |-> 0]
    /\ released' = released \cup PlayingVoices
    /\ UNCHANGED <<current, playing, free, processing, previousDelta, count,
                   rendered, history>>

(***************************************************************************)
(* compute(n): renders the playing voices p, gives back the silent ones    *)
(* among the released r.  A voice of which no frame is rendered counts as  *)
(* silent; otherwise any voice may be.                                     *)
(***************************************************************************)
compute(n, p, r, f) ==
    \E silent \in IF n > 0 THEN SUBSET ToSet(VoicesOf(p)) ELSE {Voices} :
        LET given == r \cap silent IN
        /\ playing' = Keep(p, Playing(Voices \ given))
        /\ released' = r \ ToSet(Keep(VoicesOf(p), given))
        /\ free' = f \o Keep(VoicesOf(p), given)
        /\ count' = n /\ rendered' = rendered + n

StartBlock ==
    /\ ~processing /\ processing' = TRUE
    /\ previousDelta' = 0 /\ rendered' = 0
    /\ mixed' = (mixed \/ \E i, j \in DOMAIN current :
                              /\ current[i].delta \in 1..(SampleFrames - 1)
                              /\ current[j].delta >= SampleFrames)
    /\ UNCHANGED <<current, voices, count, late>>

(* History: the notes of q when n frames have been computed.               *)
Aged(q, n) == [i \in DOMAIN q |-> [q[i] EXCEPT !.due = @ - n]]

(* Frames between the previous note of the block and this one              *)
Elapsed == Head(current).delta - previousDelta

(* The head of the queue is due in this block and leaves the queue.        *)
Due(velocity) ==
    /\ processing /\ current # <<>>
    /\ Head(current).velocity = velocity
    /\ Head(current).delta < SampleFrames
    /\ current' = Aged(Tail(current), Elapsed)
    /\ previousDelta' = Head(current).delta
    /\ late' = (late \/ Head(current).due # Elapsed)
    /\ UNCHANGED <<processing, mixed>>

StartNote ==
    LET note == Head(current).note
        steal == free = <<>>
        v == IF steal THEN Head(playing).voice ELSE Head(free)
        kept == IF steal THEN Tail(playing) ELSE playing
        rest == IF steal THEN free ELSE Tail(free)
    IN
    /\ Due(1)
    /\ compute(Elapsed, Append(kept, [note |-> note, voice |-> v]), released,
               rest)
    /\ gate' = [gate EXCEPT ![v] = 1]

(* Every voice of the note is released; the gate of the last one found is  *)
(* closed, if any was not released before.                                 *)
EndNote ==
    LET mine == VoicesOf(Keep(playing,
                              [note : {Head(current).note}, voice : Voices]))
        found == ToSet(mine)
    IN
    /\ Due(0)
    /\ compute(Elapsed, playing, released \cup found, free)
    /\ gate' = IF found \subseteq released THEN gate
               ELSE [gate EXCEPT ![Last(mine)] = 0]

(* The next note starts after this block: the whole block is computed.     *)
WaitBlock ==
    /\ processing /\ current # <<>>
    /\ Head(current).delta >= SampleFrames
    /\ current' = Aged([i \in DOMAIN current |->
                     [current[i] EXCEPT !.delta = @ - SampleFrames]],
                     SampleFrames)
    /\ compute(SampleFrames, playing, released, free)
    /\ processing' = FALSE
    /\ UNCHANGED <<gate, previousDelta, history>>

(* Variant: the whole block is computed after the last note.               *)
EndBlockWhole ==
    /\ processing /\ current = <<>>
    /\ compute(SampleFrames, playing, released, free)
    /\ processing' = FALSE
    /\ UNCHANGED <<current, gate, previousDelta, history>>

(* No note is left: what remains of the block.                             *)
EndBlock ==
    /\ processing /\ current = <<>>
    /\ compute(SampleFrames - previousDelta, playing, released, free)
    /\ processing' = FALSE
    /\ UNCHANGED <<current, gate, previousDelta, history>>

Next ==
    \/ \E n \in Notes, d \in Deltas : noteOn(n, d) \/ noteOff(n, d)
    \/ allNotesOff \/ StartBlock \/ StartNote \/ EndNote \/ WaitBlock
    \/ EndBlock

Spec == Init /\ [][Next]_vars

-----------------------------------------------------------------------------
(* The type of every variable.                                             *)
TypeOK ==
    /\ current \in Seq(Event)
    /\ playing \in Seq(Playing(Voices))
    /\ released \subseteq Voices /\ free \in Seq(Voices)
    /\ gate \in [Voices -> {0, 1}]
    /\ processing \in BOOLEAN /\ late \in BOOLEAN /\ mixed \in BOOLEAN
    /\ previousDelta \in Nat /\ count \in Nat /\ rendered \in Nat

(* A voice is playing or free, once, and a released voice is still         *)
(* playing, through every theft, release and all-notes-off.                *)
VoicesPartitioned ==
    /\ IsInjective(VoicesOf(playing) \o free)
    /\ ToSet(VoicesOf(playing) \o free) = Voices
    /\ released \subseteq PlayingVoices

(* A block is computed exactly once, whatever the frames it is cut at, as  *)
(* long as no block begins with notes inside it and others of a later one. *)
FramesExact == ~processing /\ ~mixed => rendered \in {0, SampleFrames}

(* A note starts or ends on the frame the host asked for, as long as no    *)
(* block begins with notes inside it and others of a later one.            *)
NotesOnTime == ~mixed => ~late

(* The queue is in the order of the notes; inside a block it is counted    *)
(* from its start, and what was rendered ends at the last note.            *)
Inv ==
    /\ TypeOK /\ VoicesPartitioned /\ FramesExact /\ NotesOnTime
    /\ \A i, j \in DOMAIN current : i <= j => current[i].delta <= current[j].delta
    /\ processing =>
        /\ previousDelta < SampleFrames
        /\ \A i \in DOMAIN current : current[i].delta >= previousDelta
        /\ ~mixed => /\ rendered = previousDelta
                     /\ \/ previousDelta = 0
                           /\ \A i, j \in DOMAIN current :
                                current[j].delta >= SampleFrames =>
                                    current[i].delta \notin 1..(SampleFrames - 1)
                        \/ \A i \in DOMAIN current :
                              current[i].delta < SampleFrames
    /\ ~mixed => \A i \in DOMAIN current :
        current[i].due = current[i].delta - (IF processing THEN previousDelta ELSE 0)

(* faust.h:103, of m_releasedVoices: "key off but still sounding".  The    *)
(* gate of a released voice is closed, except while its note-off is        *)
(* processed.                                                              *)
ReleasedKeyOff == \A v \in released : gate[v] = 0

(* vst.cpp:818 gives a released voice back when it is "silent": at least   *)
(* one frame of it has been looked at and its key was off by then.         *)
TailsRendered ==
    [][\A v \in Voices :
         (v \in PlayingVoices /\ v \in ToSet(free')) =>
             count' > 0 /\ gate[v] = 0]_vars
=============================================================================
