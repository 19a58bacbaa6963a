------------------------------ MODULE LV2Synth ------------------------------
(***************************************************************************)
(* The polyphonic LV2 plug-in of architecture/lv2synth.cpp: voices taken,  *)
(* retriggered, stolen and given back, note-offs that are queued for the   *)
(* next block, pitch bend, registered parameters and controllers of        *)
(* sixteen channels.  One call of run() is BeginRun, any events of the     *)
(* block, EndRun; the host calls activate and deactivate between runs.     *)
(***************************************************************************)
EXTENDS Integers, Sequences, FiniteSets, SequencesExt, Filters

CONSTANTS Channels, Notes,
          NVOICES,      \* number of voices that are allocated
          Polys,        \* values of the polyphony control
          BlockEvents,  \* bound: MIDI events in one block
          Bends,        \* pitch wheel positions, relative to the centre
          Ctrls,        \* values of the one mapped controller
          Byte,         \* data bytes are 0 .. Byte (0x7f in the code)
          Rpns,         \* numbers set with controllers 100 and 101
          Data,         \* values of data entry, controllers 6 and 38
          Scales        \* values of a scale tuning message

\* Assumed of the constants.
LV2Assumption ==
    /\ Channels # {} /\ Notes # {}
    /\ NVOICES \in Nat \ {0} /\ Polys \subseteq Int /\ BlockEvents \in Nat
    /\ Byte \in Nat /\ Byte >= 3 /\ Rpns \subseteq 0..Byte /\ Data \subseteq 0..Byte

VARIABLES active, nvoices, running, nevents,
          notes,        \* voice of a channel and note, or -1
          free_voices, used_voices, n_free, n_used,
          note_info, queued, n_queued,
          gate, freq, ctrl,             \* the zones of every voice
          lastgate,
          bend, range, coarse, fine, tune, tuning, rpn, entry,
          midivals, portval,
          seen,         \* history: gate at the last compute of a voice
          fresh,        \* history: voice_on since the last block rendered
          holder,       \* history: the voice taken for a key that is down
                        \* and was not stolen since, or -1
          restruck,     \* history: keys that got a second voice while they
                        \* had one, until no voice is in use for them
          stale         \* history: voices that run since a scale tuning that
                        \* did not move them

alloc == <<notes, free_voices, used_voices, n_free, n_used, note_info,
           queued, n_queued>>
zones == <<gate, freq, ctrl>>
pitch == <<bend, range, coarse, fine, tune, tuning, rpn, entry>>
ctls == <<midivals, portval>>
host == <<active, nvoices, running>>
history == <<seen, fresh>>
keys == <<holder, restruck>>
vars == <<host, nevents, alloc, zones, lastgate, pitch, ctls, history, keys,
          stale>>

Voices == 0..(NVOICES - 1)
Keys == Channels \X Notes
FirstVoices(n) == [i \in 1..n |-> i - 1]
Ascending(S) == Keep(FirstVoices(NVOICES), S)
Without(s, v) == Keep(s, Voices \ {v})

(* midicps: what the frequency zone depends on                             *)
midicps(note, ch) == <<note, tune[ch], tuning[ch], bend[ch]>>

Init ==
    /\ active = FALSE /\ nvoices = NVOICES /\ running = FALSE /\ nevents = 0
    /\ notes = [k \in Keys |-> -1]
    /\ free_voices = FirstVoices(NVOICES) /\ n_free = NVOICES
    /\ used_voices = <<>> /\ n_used = 0
    /\ note_info \in [Voices -> {CHOOSE k \in Keys : TRUE}]
    /\ queued = {} /\ n_queued = 0
    /\ gate = [v \in Voices |-> 0] /\ lastgate = gate
    /\ freq = [v \in Voices |-> <<>>]
    /\ ctrl = [v \in Voices |-> 0]
    /\ bend = [c \in Channels |-> 0]
    /\ range = [c \in Channels |-> <<2, 0>>]
    /\ coarse = [c \in Channels |-> 0] /\ fine = coarse
    /\ tune = [c \in Channels |-> <<0, 0>>]
    /\ tuning = [c \in Channels |-> 0]
    /\ rpn = [c \in Channels |-> <<Byte, Byte>>]
    /\ entry = [c \in Channels |-> <<0, 0>>]
    /\ midivals = [c \in Channels |-> 0] /\ portval = 0
    /\ seen = gate /\ fresh = {}
    /\ holder = notes /\ restruck = {} /\ stale = {}

(***************************************************************************)
(* Zones.  voice_on renders one sample with the gate down when the synth   *)
(* saw it up at the end of the last block.                                 *)
(***************************************************************************)
voice_on(v, note, ch) ==
    /\ freq' = [freq EXCEPT ![v] = midicps(note, ch)]
    /\ gate' = [gate EXCEPT ![v] = 1]
    /\ ctrl' = [ctrl EXCEPT ![v] = midivals[ch]]
    /\ seen' = [seen EXCEPT ![v] = IF lastgate[v] = 1 THEN 0 ELSE @]
    /\ fresh' = fresh \cup {v}

voice_off(V) == [v \in Voices |-> IF v \in V THEN 0 ELSE gate[v]]

(***************************************************************************)
(* Voice allocation.                                                       *)
(***************************************************************************)
Retrigger(ch, note) ==
    LET v == notes[<<ch, note>>] IN
    /\ v >= 0
    /\ voice_on(v, note, ch)
    /\ used_voices' = IF v \in ToSet(used_voices)
                      THEN Append(Without(used_voices, v), v) ELSE used_voices
    /\ UNCHANGED <<notes, free_voices, n_free, n_used, note_info, queued,
                   n_queued>>

TakeFree(ch, note) ==
    LET v == Head(free_voices) IN
    /\ notes[<<ch, note>>] < 0 /\ n_free > 0
    /\ free_voices' = Tail(free_voices) /\ n_free' = n_free - 1
    /\ used_voices' = Append(used_voices, v) /\ n_used' = n_used + 1
    /\ note_info' = [note_info EXCEPT ![v] = <<ch, note>>]
    /\ voice_on(v, note, ch)
    /\ notes' = [notes EXCEPT ![<<ch, note>>] = v]
    /\ UNCHANGED <<queued, n_queued>>

(* Variant: the stolen voice stays queued.                                 *)
StealKeepsQueued(ch, note) ==
    LET v == Head(used_voices) IN
    /\ notes[<<ch, note>>] < 0 /\ n_free <= 0
    /\ used_voices' = Append(Tail(used_voices), v)
    /\ note_info' = [note_info EXCEPT ![v] = <<ch, note>>]
    /\ voice_on(v, note, ch)
    /\ notes' = [notes EXCEPT ![note_info[v]] = -1, ![<<ch, note>>] = v]
    /\ UNCHANGED <<free_voices, n_free, n_used, queued, n_queued>>

Steal(ch, note) ==
    LET v == Head(used_voices) IN
    /\ notes[<<ch, note>>] < 0 /\ n_free <= 0
    /\ queued' = queued \ {v}
    /\ n_queued' = n_queued - (IF v \in queued THEN 1 ELSE 0)
    /\ used_voices' = Append(Tail(used_voices), v)
    /\ note_info' = [note_info EXCEPT ![v] = <<ch, note>>]
    /\ voice_on(v, note, ch)
    /\ notes' = [notes EXCEPT ![note_info[v]] = -1, ![<<ch, note>>] = v]
    /\ UNCHANGED <<free_voices, n_free, n_used>>

alloc_voice(ch, note) ==
    /\ Retrigger(ch, note) \/ TakeFree(ch, note) \/ Steal(ch, note)
    /\ UNCHANGED lastgate

(* Variant: the entry of the note stays.                                   *)
QueueKeepsEntry(ch, note) ==
    LET v == notes[<<ch, note>>] IN
    /\ v >= 0 /\ lastgate[v] = 0
    /\ queued' = queued \cup {v}
    /\ n_queued' = n_queued + (IF v \in queued THEN 0 ELSE 1)
    /\ UNCHANGED <<notes, free_voices, used_voices, n_free, n_used, note_info,
                   zones, history>>

(* A note that the synth has not seen yet is released in the next block.   *)
QueueNoteOff(ch, note) ==
    LET v == notes[<<ch, note>>] IN
    /\ v >= 0 /\ lastgate[v] = 0
    /\ queued' = queued \cup {v}
    /\ n_queued' = n_queued + (IF v \in queued THEN 0 ELSE 1)
    /\ notes' = IF v \in queued THEN notes
                ELSE [notes EXCEPT ![<<ch, note>>] = -1]
    /\ UNCHANGED <<free_voices, used_voices, n_free, n_used, note_info, zones,
                   history>>

ReleaseVoice(ch, note) ==
    LET v == notes[<<ch, note>>] IN
    /\ v >= 0 /\ lastgate[v] # 0
    /\ free_voices' = Append(free_voices, v) /\ n_free' = n_free + 1
    /\ gate' = voice_off({v})
    /\ notes' = [notes EXCEPT ![<<ch, note>>] = -1]
    /\ used_voices' = Without(used_voices, v)
    /\ n_used' = n_used - (IF v \in ToSet(used_voices) THEN 1 ELSE 0)
    /\ UNCHANGED <<note_info, queued, n_queued, freq, ctrl, history>>

dealloc_voice(ch, note) ==
    /\ \/ QueueNoteOff(ch, note)
       \/ ReleaseVoice(ch, note)
       \/ notes[<<ch, note>>] < 0 /\ UNCHANGED <<alloc, zones, history>>
    /\ UNCHANGED lastgate

(* Forgets the entries of notes under which the voices of V were taken.    *)
Forget(V) ==
    [k \in Keys |-> IF \E v \in V : note_info[v] = k THEN -1 ELSE notes[k]]

(* What all_notes_off(chan) and queued_notes_off do with the voices off,   *)
(* in the order in which they are given back.                              *)
GiveBack(off) ==
    LET V == ToSet(off) IN
    /\ free_voices' = free_voices \o off /\ n_free' = n_free + Len(off)
    /\ gate' = voice_off(V)
    /\ notes' = Forget(V)
    /\ queued' = queued \ V
    /\ n_queued' = n_queued - Cardinality(queued \cap V)
    /\ used_voices' = Keep(used_voices, Voices \ V)
    /\ n_used' = n_used - Cardinality(ToSet(used_voices) \cap V)

queued_notes_off == GiveBack(Ascending(queued))

(* Variant: the used list is left as it is.                                *)
ResetFreeOnly(n) ==
    /\ notes' = [k \in Keys |-> -1]
    /\ free_voices' = FirstVoices(n) /\ n_free' = n
    /\ UNCHANGED <<used_voices, n_used>>

(* The reset that deactivate and a change of the polyphony share.          *)
ResetVoices(n) ==
    /\ notes' = [k \in Keys |-> -1]
    /\ free_voices' = FirstVoices(n) /\ n_free' = n
    /\ used_voices' = <<>> /\ n_used' = 0

(* History: the keys after an event of a note, or after the end of others. *)
Restruck ==
    LET Under(k) == {v \in ToSet(used_voices') : note_info'[v] = k} IN
    restruck' = {k \in Keys : \/ k \in restruck /\ Under(k) # {}
                              \/ \E v, w \in Under(k) : v # w}

KeyDown(k, v) ==
    /\ holder' = [j \in Keys |-> IF j = k THEN v
                                 ELSE IF holder[j] = v THEN -1 ELSE holder[j]]
    /\ Restruck

KeysUp(K) ==
    /\ holder' = [k \in Keys |-> IF k \in K THEN -1 ELSE holder[k]]
    /\ Restruck

(* Variant: running voices keep their frequency.                           *)
KeepFrequencies(C) == UNCHANGED freq

(* update_voices and the loops over the running voices of a channel        *)
Running(ch) == {v \in ToSet(used_voices) : note_info[v][1] = ch}

update_voices(C) ==
    freq' = [v \in Voices |->
               IF v \in UNION {Running(c) : c \in C}
               THEN LET c == note_info[v][1]
                    IN  <<note_info[v][2], tune'[c], tuning'[c], bend'[c]>>
               ELSE freq[v]]

RunningOn(C) == UNION {Running(c) : c \in C}

(***************************************************************************)
(* run: first the queued note-offs, then a change of polyphony.            *)
(***************************************************************************)
NextBlock == running' = TRUE /\ nevents' = 0

RunInactive ==
    /\ ~running /\ ~active /\ queued_notes_off
    /\ UNCHANGED <<host, nevents, note_info, freq, ctrl, lastgate, pitch, ctls,
                   history, stale>>
    /\ KeysUp({})

BeginRun ==
    /\ ~running /\ active /\ queued_notes_off /\ NextBlock
    /\ UNCHANGED <<active, nvoices, note_info, freq, ctrl, lastgate, pitch,
                   ctls, history, stale>>
    /\ KeysUp({})

(* Variant: the polyphony is not limited to the voices there are.          *)
ChangePolyphonyUnbounded(n) ==
    /\ ~running /\ active /\ NextBlock
    /\ n # nvoices /\ n > 0
    /\ nvoices' = n /\ ResetVoices(n)
    /\ gate' = voice_off(queued \cup 0..(nvoices - 1))
    /\ queued' = {} /\ n_queued' = n_queued - Cardinality(queued)
    /\ UNCHANGED <<active, note_info, freq, ctrl, lastgate, pitch, ctls,
                   history, stale>>
    /\ KeysUp(Keys)

ChangePolyphony(n) ==
    /\ ~running /\ active /\ NextBlock
    /\ n # nvoices /\ n > 0 /\ n <= NVOICES
    /\ nvoices' = n /\ ResetVoices(n)
    /\ gate' = voice_off(queued \cup 0..(nvoices - 1))
    /\ queued' = {} /\ n_queued' = n_queued - Cardinality(queued)
    /\ UNCHANGED <<active, note_info, freq, ctrl, lastgate, pitch, ctls,
                   history, stale>>
    /\ KeysUp(Keys)

(* Events of the block                                                     *)
Event ==
    /\ running /\ nevents < BlockEvents
    /\ nevents' = nevents + 1
    /\ UNCHANGED host

NoteOn(ch, note) ==
    /\ Event /\ alloc_voice(ch, note) /\ UNCHANGED <<pitch, ctls>>
    /\ LET v == notes'[<<ch, note>>] IN
       KeyDown(<<ch, note>>, v) /\ stale' = stale \ {v}

NoteOff(ch, note) ==
    /\ Event /\ dealloc_voice(ch, note) /\ UNCHANGED <<pitch, ctls>>
    /\ KeysUp({<<ch, note>>}) /\ UNCHANGED stale

PitchBend(ch, b) ==
    /\ Event
    /\ bend' = [bend EXCEPT ![ch] = b * (100 * range[ch][1] + range[ch][2])]
    /\ UNCHANGED <<range, coarse, fine, tune, tuning, rpn, entry>>
    /\ update_voices({ch}) /\ stale' = stale \ RunningOn({ch})
    /\ UNCHANGED <<alloc, gate, ctrl, lastgate, ctls, history, keys>>

AllNotesOff(ch) ==
    /\ Event
    /\ GiveBack(Keep(used_voices, Running(ch)))
    /\ bend' = [bend EXCEPT ![ch] = 0]
    /\ UNCHANGED <<note_info, freq, ctrl, lastgate, range, coarse, fine, tune,
                   tuning, rpn, entry, ctls, history, stale>>
    /\ KeysUp({ch} \X Notes)

AllControllersOff(ch) ==
    /\ Event
    /\ entry' = [entry EXCEPT ![ch] = <<0, 0>>]
    /\ rpn' = [rpn EXCEPT ![ch] = <<Byte, Byte>>]
    /\ UNCHANGED <<alloc, zones, lastgate, bend, range, coarse, fine, tune,
                   tuning, ctls, history, keys, stale>>

SelectRpn(ch, i, b) ==
    /\ Event
    /\ rpn' = [rpn EXCEPT ![ch][i] = b]
    /\ UNCHANGED <<alloc, zones, lastgate, bend, range, coarse, fine, tune,
                   tuning, entry, ctls, history, keys, stale>>

(* rpn: the data entry of the channel is now e                             *)
ApplyRpn(ch, e) ==
    LET centre == (Byte + 1) \div 2
        which == IF rpn[ch][1] = 0 THEN rpn[ch][2] ELSE -1
    IN
    /\ entry' = [entry EXCEPT ![ch] = e]
    /\ range' = IF which = 0 THEN [range EXCEPT ![ch] = e] ELSE range
    /\ fine' = IF which = 1
               THEN [fine EXCEPT ![ch] = (e[1] - centre) * (Byte + 1) + e[2]]
               ELSE fine
    /\ coarse' = IF which = 2 THEN [coarse EXCEPT ![ch] = e[1] - centre]
                 ELSE coarse
    /\ tune' = IF which \in {1, 2}
               THEN [tune EXCEPT ![ch] = <<coarse'[ch], fine'[ch]>>] ELSE tune
    /\ UNCHANGED <<bend, tuning, rpn>>
    /\ LET C == IF which \in {1, 2} THEN {ch} ELSE {} IN
       update_voices(C) /\ stale' = stale \ RunningOn(C)
    /\ UNCHANGED <<alloc, gate, ctrl, lastgate, ctls, history, keys>>

DataEntry(ch, i, b) == Event /\ ApplyRpn(ch, [entry[ch] EXCEPT ![i] = b])

DataStep(ch, d) ==
    LET i == IF rpn[ch] = <<0, 2>> THEN 1 ELSE 2
        b == entry[ch][i] + d
    IN  Event /\ ApplyRpn(ch, IF b \in 0..Byte
                              THEN [entry[ch] EXCEPT ![i] = b] ELSE entry[ch])

(* MIDI tuning standard: only the real-time form moves running voices      *)
ScaleTuning(C, t, realtime) ==
    /\ Event
    /\ tuning' = [c \in Channels |-> IF c \in C THEN t ELSE tuning[c]]
    /\ UNCHANGED <<bend, range, coarse, fine, tune, rpn, entry>>
    /\ update_voices(IF realtime THEN C ELSE {})
    /\ stale' = IF realtime THEN stale \ RunningOn(C) ELSE stale \cup RunningOn(C)
    /\ UNCHANGED <<alloc, gate, ctrl, lastgate, ctls, history, keys>>

ControlChange(ch, x) ==
    /\ Event
    /\ midivals' = [midivals EXCEPT ![ch] = x]
    /\ ctrl' = [v \in Voices |-> IF v \in Running(ch) THEN x ELSE ctrl[v]]
    /\ UNCHANGED <<alloc, gate, freq, lastgate, pitch, portval, history, keys,
                   stale>>

(* The end of run: a moved control port overrides every channel, all       *)
(* voices are rendered and their gates are remembered.                     *)
EndRun(port) ==
    /\ running /\ running' = FALSE /\ nevents' = 0
    /\ portval' = port
    /\ midivals' = IF port # portval THEN [c \in Channels |-> port]
                   ELSE midivals
    /\ ctrl' = [v \in Voices |->
                  IF port # portval /\ v \in ToSet(used_voices) THEN port
                  ELSE ctrl[v]]
    /\ lastgate' = [v \in Voices |-> IF v < nvoices THEN gate[v] ELSE lastgate[v]]
    /\ seen' = [v \in Voices |-> IF v < nvoices THEN gate[v] ELSE seen[v]]
    /\ fresh' = {v \in fresh : v >= nvoices}
    /\ UNCHANGED <<active, nvoices, alloc, gate, freq, pitch, keys, stale>>

activate ==
    /\ ~running /\ ~active /\ active' = TRUE
    /\ portval' = 0
    /\ seen' = [v \in Voices |-> 0]
    /\ gate' = [v \in Voices |-> 0] /\ ctrl' = gate'
    /\ freq' = [v \in Voices |-> <<>>]
    /\ UNCHANGED <<nvoices, running, nevents, alloc, lastgate, pitch, midivals,
                   fresh, keys, stale>>

deactivate ==
    /\ ~running /\ active /\ active' = FALSE
    /\ gate' = voice_off(0..(nvoices - 1))
    /\ bend' = [c \in Channels |-> 0]
    /\ ResetVoices(nvoices) /\ queued' = {} /\ n_queued' = 0
    /\ UNCHANGED <<nvoices, running, nevents, note_info, freq, ctrl, lastgate,
                   range, coarse, fine, tune, tuning, rpn, entry, ctls,
                   history, stale>>
    /\ KeysUp(Keys)

Next ==
    \/ RunInactive \/ BeginRun \/ activate \/ deactivate
    \/ \E n \in Polys : ChangePolyphony(n)
    \/ \E c \in Channels, n \in Notes : NoteOn(c, n) \/ NoteOff(c, n)
    \/ \E c \in Channels : AllNotesOff(c) \/ AllControllersOff(c)
    \/ \E c \in Channels, b \in Bends : PitchBend(c, b)
    \/ \E c \in Channels, i \in 1..2, b \in Rpns : SelectRpn(c, i, b)
    \/ \E c \in Channels, i \in 1..2, b \in Data : DataEntry(c, i, b)
    \/ \E c \in Channels, d \in {-1, 1} : Data # {} /\ DataStep(c, d)
    \/ \E C \in SUBSET Channels, t \in Scales, r \in BOOLEAN :
          ScaleTuning(C, t, r)
    \/ \E c \in Channels, x \in Ctrls : ControlChange(c, x)
    \/ \E p \in Ctrls \cup {portval} : EndRun(p)

Spec == Init /\ [][Next]_vars

-----------------------------------------------------------------------------
(* The type of every variable.                                             *)
TypeOK ==
    /\ active \in BOOLEAN /\ running \in BOOLEAN
    /\ nvoices \in 1..NVOICES /\ nevents \in 0..BlockEvents
    /\ notes \in [Keys -> Voices \cup {-1}]
    /\ free_voices \in Seq(Voices) /\ used_voices \in Seq(Voices)
    /\ note_info \in [Voices -> Keys]
    /\ queued \subseteq Voices /\ fresh \subseteq Voices
    /\ gate \in [Voices -> {0, 1}] /\ lastgate \in [Voices -> {0, 1}]
    /\ seen \in [Voices -> {0, 1}]
    /\ DOMAIN freq = Voices /\ DOMAIN ctrl = Voices
    /\ DOMAIN bend = Channels /\ DOMAIN tune = Channels
    /\ DOMAIN midivals = Channels
    /\ holder \in [Keys -> Voices \cup {-1}]
    /\ restruck \subseteq Keys /\ stale \subseteq Voices

(* Whatever sequence of notes, thefts, all-notes-off and changes of the    *)
(* polyphony: a voice is in exactly one of the two lists, once, and the    *)
(* three counters are the sizes of what they count (the assertions         *)
(* n_free < nvoices and n_used > 0 of the code follow).                    *)
VoicesPartitioned ==
    /\ IsInjective(free_voices \o used_voices)
    /\ ToSet(free_voices \o used_voices) = 0..(nvoices - 1)
    /\ n_free = Len(free_voices) /\ n_used = Len(used_voices)
    /\ n_queued = Cardinality(queued) /\ queued \subseteq ToSet(used_voices)

(* A note number leads to the voice that plays it: never to a free voice,  *)
(* to one that was stolen for another note or to one that is already       *)
(* queued for its note-off.                                                *)
NotesLeadToVoices ==
    \A k \in Keys : notes[k] >= 0 =>
        /\ notes[k] \in ToSet(used_voices) \ queued
        /\ note_info[notes[k]] = k

(* Only a voice in use sounds, and every voice in use does: no path gives  *)
(* a voice back with its gate up or out of the reach of a later reset.     *)
GatesFollowUse ==
    \A v \in Voices : gate[v] = 1 <=> v \in ToSet(used_voices)

(* A key that is down and whose voice was not stolen is heard: no pending  *)
(* note-off, theft of another voice or change of a table cuts it short.    *)
HeldNotesSound ==
    \A k \in Keys : holder[k] >= 0 =>
        /\ gate[holder[k]] = 1 /\ note_info[holder[k]] = k
        /\ holder[k] \notin queued

(* A voice whose key is up is closed or waits for its end: notes hang only *)
(* on keys struck again before the note-off that was queued for them, the  *)
(* case that line 767 does not get right.                                  *)
NoNoteHangs ==
    \A v \in Voices : gate[v] = 1 =>
        \/ v \in queued
        \/ holder[note_info[v]] = v
        \/ note_info[v] \in restruck

(* A new note on a voice that sounded in the last block is heard as new:   *)
(* the synth has computed at least one sample with the gate down before    *)
(* (voice_on: "so that the voice is properly retriggered").                *)
Retriggered ==
    \A v \in fresh : seen[v] = 0

(* A running voice has the frequency of its note under the present tuning  *)
(* and bend of its channel, and under the present scale tuning unless that *)
(* came in the form that leaves running voices alone and nothing gave the  *)
(* voice a frequency since.  (A change of the bend range moves no voice:   *)
(* it counts from the next bend on.)                                       *)
InTune ==
    \A v \in ToSet(used_voices) :
        LET c == note_info[v][1] IN
        /\ freq[v][1] = note_info[v][2]
        /\ freq[v][2] = tune[c] /\ freq[v][4] = bend[c]
        /\ v \notin stale => freq[v][3] = tuning[c]

(* The mapped control of a running voice has the value of its channel,     *)
(* whether it was last moved by MIDI or by the port.                       *)
ControlsFollowChannel ==
    \A v \in ToSet(used_voices) : ctrl[v] = midivals[note_info[v][1]]

OneVoicePerKey ==
    \A v \in ToSet(used_voices) : note_info[v] \notin restruck =>
        /\ \A w \in ToSet(used_voices) : note_info[w] = note_info[v] => w = v
        /\ v \notin queued => /\ notes[note_info[v]] = v
                              /\ holder[note_info[v]] = v

(* Voices are in use while the plug-in is active only, a block is rendered *)
(* while it is active, and a gate the synth saw up was up at the end of    *)
(* the block before.  Under a key that was not struck again there is one   *)
(* voice, and while its note-off is not pending the table leads to it.     *)
Inv ==
    /\ TypeOK
    /\ VoicesPartitioned /\ NotesLeadToVoices
    /\ GatesFollowUse /\ Retriggered /\ HeldNotesSound
    /\ OneVoicePerKey
    /\ ~active => used_voices = <<>> /\ ~running
    /\ \A v \in Voices : seen[v] = 1 => lastgate[v] = 1

(* Line 471: notes holds the "Allocated voices per MIDI channel and note": *)
(* every allocated voice whose note-off is not pending can be found under  *)
(* its note.                                                               *)
AllocatedVoicesFound ==
    \A v \in ToSet(used_voices) \ queued : notes[note_info[v]] = v

(* Line 626, "zero-length note, queued for later": a note-off never ends a *)
(* note of which no block has been rendered.                               *)
ZeroLengthNotesSound ==
    [][\A c \in Channels, n \in Notes :
         NoteOff(c, n) =>
             \A v \in fresh : gate[v] = 1 => gate'[v] = 1]_vars
=============================================================================
