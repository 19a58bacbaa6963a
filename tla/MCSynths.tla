------------------------------ MODULE MCSynths ------------------------------
(***************************************************************************)
(* The two plug-ins with voices of their own, the LV2 and the VST          *)
(* instrument, on small instances.  They never run together: part says     *)
(* which instance a behaviour is of, and the other variables stay put.     *)
(***************************************************************************)
EXTENDS Integers

CONSTANTS Channels, Notes, NVoices, Polys, VoiceEvents, Byte,
          TuningNotes, TuningVoices, TuningEvents, Bends, Ctrls, Scales,
          RpnChannels, RpnVoices, RpnEvents, RpnByte, Rpns, Data, EntryBytes,
          MaxPolyphony, SampleFrames, Deltas, MaxQueue

VARIABLES part,
          active, nvoices, running, nevents, notes, free_voices,
          used_voices, n_free, n_used, note_info, queued, n_queued, gate,
          freq, ctrl, lastgate, bend, range, coarse, fine, tune, tuning, rpn,
          entry, midivals, portval, seen, fresh, holder, restruck, stale,
          current, playing, released, free, vstgate, processing,
          previousDelta, count, rendered, late, mixed

lv2Vars == <<active, nvoices, running, nevents, notes, free_voices,
    used_voices, n_free, n_used, note_info, queued, n_queued, gate, freq,
    ctrl, lastgate, bend, range, coarse, fine, tune, tuning, rpn, entry,
    midivals, portval, seen, fresh, holder, restruck, stale>>
vstVars == <<current, playing, released, free, vstgate, processing,
    previousDelta, count, rendered, late, mixed>>
vars == <<part, lv2Vars, vstVars>>

\* LV2: more notes than voices, on two channels.
Voices == INSTANCE LV2Synth_proofs WITH
    NVOICES <- NVoices, BlockEvents <- VoiceEvents, Bends <- {}, Ctrls <- {},
    Rpns <- {}, Data <- {}, Scales <- {}

\* LV2: bends, scale tunings and controllers of two channels.
Tuning == INSTANCE LV2Synth_proofs WITH
    Notes <- TuningNotes, NVOICES <- TuningVoices, Polys <- {},
    BlockEvents <- TuningEvents, Rpns <- {}, Data <- {}

\* LV2: registered parameters, set by bytes and by steps.
Rpn == INSTANCE LV2Synth_proofs WITH
    Channels <- RpnChannels, Notes <- TuningNotes, NVOICES <- RpnVoices,
    Polys <- {}, BlockEvents <- RpnEvents, Bends <- {}, Ctrls <- {},
    Byte <- RpnByte, Scales <- {}

\* VST: notes inside the block they come with, and of the next one.
VST == INSTANCE VSTSynth WITH MAX_POLYPHONY <- MaxPolyphony, gate <- vstgate

ASSUME VoicesAssumption == Voices!LV2Assumption
ASSUME TuningAssumption == Tuning!LV2Assumption
ASSUME RpnAssumption == Rpn!LV2Assumption
ASSUME VSTAssumption == VST!VSTAssumption

\* Bound: the numbers selected, and the data entered, one byte of which is 0.
RpnBound ==
    \A c \in RpnChannels :
        /\ rpn'[c][1] \in {0, RpnByte}
        /\ {entry'[c][1], entry'[c][2]} \subseteq EntryBytes
        /\ 0 \in {entry'[c][1], entry'[c][2]}

Init == /\ VST!Init
        /\ \/ part \in {"voices", "vst"} /\ Voices!Init
           \/ part = "tuning" /\ Tuning!Init
           \/ part = "rpn" /\ Rpn!Init

Next == \/ part = "voices" /\ Voices!Next /\ UNCHANGED <<part, vstVars>>
        \/ part = "tuning" /\ Tuning!Next /\ UNCHANGED <<part, vstVars>>
        \/ part = "rpn" /\ Rpn!Next /\ RpnBound /\ UNCHANGED <<part, vstVars>>
        \/ part = "vst" /\ VST!Next /\ UNCHANGED <<part, lv2Vars>>

Spec == Init /\ [][Next]_vars

-----------------------------------------------------------------------------
(* A voice is free or in use, never both, in one list and once (LV2:       *)
(* alloc_voice, dealloc_voice, voice_off; VST: synthProcessReplacing).     *)
VoicesPartitioned == /\ part = "voices" => Voices!VoicesPartitioned
                     /\ part = "vst" => VST!VoicesPartitioned

(* LV2: notes and note_info point to each other (alloc_voice, voice_off).  *)
NotesLeadToVoices == part = "voices" => Voices!NotesLeadToVoices /\ Voices!Inv

(* LV2: a key that is down sounds until it is released or its voice is     *)
(* stolen, a voice whose key is up ends, with the next block at the        *)
(* latest, unless the key was struck again in between, and a voice that is *)
(* taken over sees its gate closed before it opens again (voice_on,        *)
(* dealloc_voice, queued_notes_off, all_notes_off, run).                   *)
GatesFollowKeys ==
    part = "voices" => /\ Voices!GatesFollowUse /\ Voices!Retriggered
                       /\ Voices!HeldNotesSound /\ Voices!NoNoteHangs

(* LV2: the frequency of a sounding voice is that of its note under the    *)
(* bend and the tuning of its channel, and under its scale tuning unless   *)
(* that came in the form that leaves running voices alone; its controls    *)
(* are those of the channel, however these were set (voice_on,             *)
(* update_voices, run).                                                    *)
VoicesFollowChannel ==
    /\ part = "tuning" => Tuning!InTune /\ Tuning!ControlsFollowChannel /\ Tuning!Inv
    /\ part = "rpn" => Rpn!InTune /\ Rpn!Inv

(* VST: a block renders as many frames as the host asked for, and a note   *)
(* starts on the frame the host gave it, in this block or a later one,     *)
(* until notes of both kinds wait together (synthProcessReplacing).        *)
NotesOnTheirFrame ==
    part = "vst" => VST!FramesExact /\ VST!NotesOnTime /\ VST!Inv
=============================================================================
