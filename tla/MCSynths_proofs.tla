--------------------------- MODULE MCSynths_proofs ---------------------------
(***************************************************************************)
(* The invariants of the run over the two plug-ins, for every value of the *)
(* constants: a behaviour is one of the instance that part names.  The     *)
(* theorems of LV2Synth_proofs give three of the instances; the VST        *)
(* instrument is proved here.                                              *)
(***************************************************************************)
EXTENDS MCSynths, FiniteSetTheorems, SequenceTheorems, TLAPS

\* A behaviour is one of the instance that part names, from its start to its end.
LEMMA Parts ==
  /\ Spec => ([](part = "voices") /\ Voices!Spec) \/ []~(part = "voices")
  /\ Spec => ([](part = "tuning") /\ Tuning!Spec) \/ []~(part = "tuning")
  /\ Spec => ([](part = "rpn") /\ Rpn!Spec) \/ []~(part = "rpn")
  /\ Spec => ([](part = "vst") /\ VST!Spec) \/ []~(part = "vst")
<1>1. Spec => ([](part = "voices") /\ Voices!Spec) \/ []~(part = "voices")
  <2>1. Init /\ part = "voices" => Voices!Init
    BY DEF Init
  <2>2. part = "voices" /\ [Next]_vars => (part = "voices")' /\ [Voices!Next]_(Voices!vars)
    BY DEF Next, vars, lv2Vars, Voices!vars, Voices!host, Voices!alloc, Voices!zones,
           Voices!pitch, Voices!ctls, Voices!history, Voices!keys
  <2>3. ~(part = "voices") /\ [Next]_vars => ~(part = "voices")'
    BY DEF Next, vars
  <2> QED
    BY <2>1, <2>2, <2>3, PTL DEF Spec, Voices!Spec
<1>2. Spec => ([](part = "tuning") /\ Tuning!Spec) \/ []~(part = "tuning")
  <2>1. Init /\ part = "tuning" => Tuning!Init
    BY DEF Init
  <2>2. part = "tuning" /\ [Next]_vars => (part = "tuning")' /\ [Tuning!Next]_(Tuning!vars)
    BY DEF Next, vars, lv2Vars, Tuning!vars, Tuning!host, Tuning!alloc, Tuning!zones,
           Tuning!pitch, Tuning!ctls, Tuning!history, Tuning!keys
  <2>3. ~(part = "tuning") /\ [Next]_vars => ~(part = "tuning")'
    BY DEF Next, vars
  <2> QED
    BY <2>1, <2>2, <2>3, PTL DEF Spec, Tuning!Spec
<1>3. Spec => ([](part = "rpn") /\ Rpn!Spec) \/ []~(part = "rpn")
  <2>1. Init /\ part = "rpn" => Rpn!Init
    BY DEF Init
  <2>2. part = "rpn" /\ [Next]_vars => (part = "rpn")' /\ [Rpn!Next]_(Rpn!vars)
    BY DEF Next, vars, lv2Vars, Rpn!vars, Rpn!host, Rpn!alloc, Rpn!zones, Rpn!pitch,
           Rpn!ctls, Rpn!history, Rpn!keys
  <2>3. ~(part = "rpn") /\ [Next]_vars => ~(part = "rpn")'
    BY DEF Next, vars
  <2> QED
    BY <2>1, <2>2, <2>3, PTL DEF Spec, Rpn!Spec
<1>4. Spec => ([](part = "vst") /\ VST!Spec) \/ []~(part = "vst")
  <2>1. Init /\ part = "vst" => VST!Init
    BY DEF Init
  <2>2. part = "vst" /\ [Next]_vars => (part = "vst")' /\ [VST!Next]_(VST!vars)
    BY DEF Next, vars, vstVars, VST!vars, VST!voices, VST!history
  <2>3. ~(part = "vst") /\ [Next]_vars => ~(part = "vst")'
    BY DEF Next, vars
  <2> QED
    BY <2>1, <2>2, <2>3, PTL DEF Spec, VST!Spec
<1> QED
  BY <1>1, <1>2, <1>3, <1>4

\* LV2: a note number leads to the voice that plays it, never to a free, stolen or queued
\* one, for any channels, notes, voices and polyphonies (alloc_voice, dealloc_voice).
THEOREM NotesLeadToVoicesHolds == Spec => []NotesLeadToVoices
<1>1. Voices!Spec => []Voices!Inv
  BY VoicesAssumption, Voices!Invariance
<1>2. ~(part = "voices") \/ Voices!Inv => NotesLeadToVoices
  BY DEF NotesLeadToVoices, Voices!Inv
<1> QED
  BY <1>1, <1>2, Parts, PTL

\* LV2: a key that is down is heard until it goes up or its voice is stolen, a voice whose
\* key is up ends, with the next block at the latest, unless that key was struck again while
\* its note-off waited, and a new note on a voice that sounded is heard as new (voice_on,
\* dealloc_voice, queued_notes_off, all_notes_off, run).
THEOREM GatesFollowKeysHolds == Spec => []GatesFollowKeys
<1>1. Voices!Spec => []Voices!Inv
  BY VoicesAssumption, Voices!Invariance
<1>2. Voices!Inv => Voices!NoNoteHangs
  BY Voices!NothingHangs
<1>3. Voices!Inv => Voices!GatesFollowUse /\ Voices!Retriggered /\ Voices!HeldNotesSound
  BY DEF Voices!Inv
<1>4. ~(part = "voices") \/ Voices!Inv => GatesFollowKeys
  BY <1>2, <1>3 DEF GatesFollowKeys
<1> QED
  BY <1>1, <1>4, Parts, PTL

\* LV2: a voice in use has the tuning, the bend and the control of its channel, for any
\* bends, registered parameters and controllers, and its scale tuning unless that came in
\* the form that leaves running voices alone (update_voices, process_midi, run).
THEOREM VoicesFollowChannelHolds == Spec => []VoicesFollowChannel
<1>1. Tuning!Spec => []Tuning!Inv
  BY TuningAssumption, Tuning!Invariance
<1>2. Tuning!Spec => [](Tuning!InTune /\ Tuning!ControlsFollowChannel)
  BY TuningAssumption, Tuning!ChannelsFollowed
<1>3. Rpn!Spec => []Rpn!Inv
  BY RpnAssumption, Rpn!Invariance
<1>4. Rpn!Spec => [](Rpn!InTune /\ Rpn!ControlsFollowChannel)
  BY RpnAssumption, Rpn!ChannelsFollowed
<1>5. /\ ~(part = "tuning") \/ (Tuning!InTune /\ Tuning!ControlsFollowChannel /\ Tuning!Inv)
      /\ ~(part = "rpn") \/ (Rpn!InTune /\ Rpn!Inv)
      => VoicesFollowChannel
  BY DEF VoicesFollowChannel
<1> QED
  BY <1>1, <1>2, <1>3, <1>4, <1>5, Parts, PTL

-----------------------------------------------------------------------------
(***************************************************************************)
(* The VST instrument: lists of voices                                     *)
(***************************************************************************)
\* The lemmas about lists of LV2Synth_proofs, for the lists of the VST instrument.
LEMMA Lists ==
  ASSUME NEW A, NEW s \in Seq(A)
  PROVE  /\ \A S : /\ VST!Keep(s, S) \in Seq(A)
                   /\ VST!ToSet(VST!Keep(s, S)) = VST!ToSet(s) \cap S
                   /\ VST!IsInjective(s) => VST!IsInjective(VST!Keep(s, S))
         /\ \A t \in Seq(A) :
              /\ s \o t \in Seq(A) /\ VST!ToSet(s \o t) = VST!ToSet(s) \cup VST!ToSet(t)
              /\ VST!IsInjective(s \o t) <=> /\ VST!IsInjective(s) /\ VST!IsInjective(t)
                                             /\ VST!ToSet(s) \cap VST!ToSet(t) = {}
<1>1. ASSUME NEW S
      PROVE  /\ VST!Keep(s, S) \in Seq(A)
             /\ VST!ToSet(VST!Keep(s, S)) = VST!ToSet(s) \cap S
             /\ VST!IsInjective(s) => VST!IsInjective(VST!Keep(s, S))
  <2>1. VST!Keep(s, S) = Voices!Keep(s, S)
    BY DEF VST!Keep, Voices!Keep, VST!Rank, Voices!Rank, VST!Cardinality, Voices!Cardinality
  <2>2. \A t : /\ VST!ToSet(t) = Voices!ToSet(t)
               /\ VST!IsInjective(t) <=> Voices!IsInjective(t)
    BY DEF VST!ToSet, Voices!ToSet, VST!IsInjective, Voices!IsInjective
  <2>3. /\ Voices!Keep(s, S) \in Seq(A)
        /\ Voices!ToSet(Voices!Keep(s, S)) = Voices!ToSet(s) \cap S
        /\ Voices!IsInjective(s) => Voices!IsInjective(Voices!Keep(s, S))
    BY Voices!KeepLists
  <2> QED
    BY <2>1, <2>2, <2>3
<1>2. ASSUME NEW t \in Seq(A)
      PROVE  /\ s \o t \in Seq(A) /\ VST!ToSet(s \o t) = VST!ToSet(s) \cup VST!ToSet(t)
             /\ VST!IsInjective(s \o t) <=> /\ VST!IsInjective(s) /\ VST!IsInjective(t)
                                            /\ VST!ToSet(s) \cap VST!ToSet(t) = {}
  <2>1. \A u : /\ VST!ToSet(u) = Voices!ToSet(u)
               /\ VST!IsInjective(u) <=> Voices!IsInjective(u)
    BY DEF VST!ToSet, Voices!ToSet, VST!IsInjective, Voices!IsInjective
  <2>2. /\ s \o t \in Seq(A) /\ Voices!ToSet(s \o t) = Voices!ToSet(s) \cup Voices!ToSet(t)
        /\ Voices!IsInjective(s \o t) <=> /\ Voices!IsInjective(s) /\ Voices!IsInjective(t)
                                          /\ Voices!ToSet(s) \cap Voices!ToSet(t) = {}
    BY Voices!Joined
  <2> QED
    BY <2>1, <2>2
<1> QED
  BY <1>1, <1>2

\* Every rank up to their number is that of one of the positions.
LEMMA EveryRank ==
  ASSUME NEW n \in Nat, NEW P \in SUBSET (1..n)
  PROVE  \A k \in 1..Cardinality(P) : \E i \in P : VST!Rank(P, i) = k
<1>1. \A k \in 1..Voices!Cardinality(P) : \E i \in P : Voices!Rank(P, i) = k
  BY Voices!Ranks
<1>2. \A S : VST!Cardinality(S) = Cardinality(S) /\ Voices!Cardinality(S) = Cardinality(S)
  BY DEF VST!Cardinality, Voices!Cardinality, Cardinality
<1> QED
  BY <1>1, <1>2 DEF VST!Rank, Voices!Rank

\* The voices of the notes that go on are those of the notes before that are kept.
LEMMA KeptVoices ==
  ASSUME NEW p \in Seq(VST!Playing(VST!Voices)), NEW V
  PROVE  /\ VST!Keep(p, VST!Playing(V)) \in Seq(VST!Playing(VST!Voices))
         /\ VST!VoicesOf(VST!Keep(p, VST!Playing(V))) = VST!Keep(VST!VoicesOf(p), V)
         /\ VST!VoicesOf(p) \in Seq(VST!Voices)
<1> DEFINE q == VST!VoicesOf(p)
           P == {i \in DOMAIN p : p[i] \in VST!Playing(V)}
           Q == {i \in DOMAIN q : q[i] \in V}
           k == VST!Keep(p, VST!Playing(V))
<1>1. Len(p) \in Nat /\ DOMAIN p = 1..Len(p) /\ \A i \in DOMAIN p : p[i] \in VST!Playing(VST!Voices)
  OBVIOUS
<1>2. DOMAIN q = DOMAIN p /\ \A i \in DOMAIN p : q[i] = p[i].voice /\ q[i] \in VST!Voices
  BY <1>1 DEF VST!VoicesOf, VST!Playing
<1>3. q \in Seq(VST!Voices)
  BY <1>1, <1>2 DEF VST!VoicesOf
<1>4. P = Q
  BY <1>1, <1>2 DEF VST!Playing
<1>5. k \in Seq(VST!Playing(VST!Voices))
  BY Lists
<1>6. /\ DOMAIN k = 1..Cardinality(P)
      /\ \A j \in 1..Cardinality(P) :
           /\ (CHOOSE i \in P : VST!Rank(P, i) = j) \in P
           /\ k[j] = p[CHOOSE i \in P : VST!Rank(P, i) = j]
  <2>1. k = [j \in 1..Cardinality(P) |-> p[CHOOSE i \in P : VST!Rank(P, i) = j]]
    BY DEF VST!Keep, VST!Cardinality, Cardinality
  <2>2. P \in SUBSET (1..Len(p))
    BY <1>1
  <2>3. \A j \in 1..Cardinality(P) : \E i \in P : VST!Rank(P, i) = j
    BY <1>1, <2>2, EveryRank
  <2> HIDE DEF k, P
  <2> QED
    BY <2>1, <2>3
<1>7. VST!Keep(q, V) = [j \in 1..Cardinality(Q) |-> q[CHOOSE i \in Q : VST!Rank(Q, i) = j]]
  BY DEF VST!Keep, VST!Cardinality, Cardinality
<1>8. VST!VoicesOf(k) = [j \in 1..Cardinality(P) |-> k[j].voice]
  BY <1>6 DEF VST!VoicesOf
<1> HIDE DEF q, k, P, Q
<1>9. ASSUME NEW j \in 1..Cardinality(P)
      PROVE  k[j].voice = q[CHOOSE i \in Q : VST!Rank(Q, i) = j]
  <2>1. /\ (CHOOSE i \in P : VST!Rank(P, i) = j) \in DOMAIN p
        /\ k[j] = p[CHOOSE i \in P : VST!Rank(P, i) = j]
    BY <1>6 DEF P
  <2>2. (CHOOSE i \in P : VST!Rank(P, i) = j) = (CHOOSE i \in Q : VST!Rank(Q, i) = j)
    BY <1>4
  <2> QED
    BY <1>2, <2>1, <2>2
<1>10. VST!VoicesOf(k) = VST!Keep(q, V)
  BY <1>4, <1>7, <1>8, <1>9
<1> QED
  BY <1>3, <1>5, <1>10 DEF q, k

\* Voices that are silent and released go from the playing ones to the free ones.
LEMMA ComputeKeeps ==
  ASSUME NEW n \in Nat, NEW p \in Seq(VST!Playing(VST!Voices)), NEW r, NEW f \in Seq(VST!Voices),
         VST!IsInjective(VST!VoicesOf(p) \o f), VST!ToSet(VST!VoicesOf(p) \o f) = VST!Voices,
         r \subseteq VST!ToSet(VST!VoicesOf(p)), rendered \in Nat, VST!compute(n, p, r, f)
  PROVE  /\ playing' \in Seq(VST!Playing(VST!Voices)) /\ free' \in Seq(VST!Voices)
         /\ released' \subseteq VST!Voices /\ VST!VoicesPartitioned'
         /\ count' \in Nat /\ rendered' \in Nat /\ rendered' = rendered + n
<1> DEFINE a == VST!VoicesOf(p)
<1>1. PICK silent : /\ playing' = VST!Keep(p, VST!Playing(VST!Voices \ (r \cap silent)))
                    /\ released' = r \ VST!ToSet(VST!Keep(a, r \cap silent))
                    /\ free' = f \o VST!Keep(a, r \cap silent)
                    /\ count' = n /\ rendered' = rendered + n
  BY DEF VST!compute
<1> DEFINE G == r \cap silent
           b == VST!Keep(a, VST!Voices \ G)
           c == VST!Keep(a, G)
<1>2. /\ playing' \in Seq(VST!Playing(VST!Voices)) /\ VST!VoicesOf(playing') = b
      /\ a \in Seq(VST!Voices)
  BY <1>1, KeptVoices
<1>3. /\ VST!ToSet(a) \cup VST!ToSet(f) = VST!Voices /\ VST!ToSet(a) \cap VST!ToSet(f) = {}
      /\ VST!IsInjective(a) /\ VST!IsInjective(f)
  BY <1>2, Lists
<1>4. /\ b \in Seq(VST!Voices) /\ VST!ToSet(b) = VST!ToSet(a) \cap (VST!Voices \ G)
      /\ VST!IsInjective(b)
      /\ c \in Seq(VST!Voices) /\ VST!ToSet(c) = VST!ToSet(a) \cap G /\ VST!IsInjective(c)
  BY <1>2, <1>3, Lists
<1> HIDE DEF a, b, c, G
<1>5. /\ f \o c \in Seq(VST!Voices) /\ VST!ToSet(f \o c) = VST!ToSet(f) \cup VST!ToSet(c)
      /\ VST!IsInjective(f \o c)
  <2>1. VST!ToSet(f) \cap VST!ToSet(c) = {}
    BY <1>3, <1>4
  <2> QED
    BY <1>3, <1>4, <2>1, Lists
<1>6. free' = f \o c /\ released' = r \ VST!ToSet(c)
  BY <1>1 DEF a, c, G
<1>7. VST!IsInjective(b \o (f \o c)) /\ VST!ToSet(b \o (f \o c)) = VST!Voices
  <2>1. /\ VST!ToSet(b) \cap VST!ToSet(f \o c) = {}
        /\ VST!ToSet(b) \cup VST!ToSet(f \o c) = VST!Voices
    BY <1>3, <1>4, <1>5
  <2> QED
    BY <1>4, <1>5, <2>1, Lists, ZenonT(60)
<1>8. released' \subseteq VST!ToSet(b) /\ released' \subseteq VST!Voices
  <2>1. r \subseteq VST!ToSet(a)
    BY DEF a
  <2> QED
    BY <1>3, <1>4, <1>6, <2>1
<1>9. VST!VoicesPartitioned'
  BY <1>2, <1>6, <1>7, <1>8 DEF VST!VoicesPartitioned, VST!PlayingVoices
<1>10. free' \in Seq(VST!Voices)
  BY <1>5, <1>6
<1>11. count' \in Nat /\ rendered' \in Nat /\ rendered' = rendered + n
  BY <1>1
<1> QED
  BY <1>2, <1>8, <1>9, <1>10, <1>11

-----------------------------------------------------------------------------
(***************************************************************************)
(* The VST instrument: the queue of notes                                  *)
(***************************************************************************)
\* What Inv says of the voices, and what it says of the queue and the block.
VSTVoices ==
    /\ playing \in Seq(VST!Playing(VST!Voices)) /\ free \in Seq(VST!Voices)
    /\ released \subseteq VST!Voices /\ vstgate \in [VST!Voices -> {0, 1}]
    /\ VST!VoicesPartitioned

VSTQueue ==
    /\ current \in Seq(VST!Event)
    /\ processing \in BOOLEAN /\ late \in BOOLEAN /\ mixed \in BOOLEAN
    /\ previousDelta \in Nat /\ count \in Nat /\ rendered \in Nat
    /\ VST!FramesExact /\ VST!NotesOnTime
    /\ \A i, j \in DOMAIN current : i <= j => current[i].delta <= current[j].delta
    /\ processing =>
        /\ previousDelta < SampleFrames
        /\ \A i \in DOMAIN current : current[i].delta >= previousDelta
        /\ ~mixed => /\ rendered = previousDelta
                     /\ \/ previousDelta = 0
                           /\ \A i, j \in DOMAIN current :
                                current[j].delta >= SampleFrames =>
                                    current[i].delta \notin 1..(SampleFrames - 1)
                        \/ \A i \in DOMAIN current : current[i].delta < SampleFrames
    /\ ~mixed => \A i \in DOMAIN current :
        current[i].due = current[i].delta - (IF processing THEN previousDelta ELSE 0)

\* The inductive invariant of the VST instrument, by what it speaks of.
LEMMA VSTInvParts == VST!Inv <=> VSTVoices /\ VSTQueue
BY DEF VST!Inv, VST!TypeOK, VSTVoices, VSTQueue

\* The same in the next state.
LEMMA VSTInvPartsNext == VST!Inv' <=> VSTVoices' /\ VSTQueue'
BY DEF VST!Inv, VST!TypeOK, VSTVoices, VSTQueue

\* A note of which n frames less are left.
LEMMA AgedNote ==
  ASSUME NEW e \in VST!Event, NEW n \in Int
  PROVE  LET a == [e EXCEPT !.due = @ - n] IN
         a \in VST!Event /\ a.delta = e.delta /\ a.due = e.due - n
BY DEF VST!Event

\* What is known of the notes of the queue.
LEMMA Queue ==
  ASSUME VSTQueue
  PROVE  /\ Len(current) \in Nat /\ DOMAIN current = 1..Len(current)
         /\ \A i \in 1..Len(current) : current[i] \in VST!Event /\ current[i].delta \in Nat
                                       /\ current[i].due \in Int
         /\ current # <<>> =>
              /\ Len(current) > 0 /\ Head(current) = current[1]
              /\ Tail(current) \in Seq(VST!Event) /\ DOMAIN Tail(current) = 1..(Len(current) - 1)
              /\ \A i \in 1..(Len(current) - 1) : Tail(current)[i] = current[i + 1]
<1>1. current \in Seq(VST!Event)
  BY DEF VSTQueue
<1>2. \A i \in 1..Len(current) : current[i] \in VST!Event
  BY <1>1
<1> QED
  BY <1>1, <1>2 DEF VST!Event

\* A note is put at the end of the queue (processEvents).
LEMMA EnqueueKeeps ==
  ASSUME VST!VSTAssumption, VSTQueue, NEW n \in Notes, NEW v \in {0, 1}, NEW d \in Deltas,
         VST!Enqueue(n, v, d)
  PROVE  VSTQueue'
<1> DEFINE e == [note |-> n, velocity |-> v, delta |-> d, due |-> d]
           len == Len(current)
<1>1. /\ ~processing /\ current' = Append(current, e)
      /\ current # <<>> => current[len].delta <= d
      /\ UNCHANGED <<processing, previousDelta, count, rendered, late, mixed>>
  BY DEF VST!Enqueue, VST!Last, VST!history
<1>2. d \in Nat /\ e \in VST!Event /\ e.delta = d /\ e.due = d
  BY DEF VST!VSTAssumption, VST!Event
<1> HIDE DEF e
<1>3. /\ current \in Seq(VST!Event) /\ len \in Nat /\ DOMAIN current = 1..len
      /\ \A i \in 1..len : current[i].delta \in Nat /\ current[i].due \in Int
  BY Queue DEF VSTQueue
<1>4. /\ current' \in Seq(VST!Event) /\ DOMAIN current' = 1..(len + 1)
      /\ \A i \in 1..len : current'[i] = current[i]
      /\ current'[len + 1] = e
  BY <1>1, <1>2, <1>3
<1>5. \A i, j \in 1..len : i <= j => current[i].delta <= current[j].delta
  BY <1>3 DEF VSTQueue
<1>6. ASSUME NEW i \in DOMAIN current', NEW j \in DOMAIN current', i <= j
      PROVE  current'[i].delta <= current'[j].delta
  <2>1. CASE j \in 1..len
    BY <1>3, <1>4, <1>5, <1>6, <2>1
  <2>2. CASE j = len + 1 /\ i \in 1..len
    <3>1. current[i].delta <= current[len].delta /\ current # <<>>
      BY <1>3, <1>5, <2>2
    <3>2. current[len].delta <= d /\ current[i].delta \in Nat /\ current[len].delta \in Nat
      BY <1>1, <1>3, <2>2, <3>1
    <3> QED
      BY <1>2, <1>4, <2>2, <3>1, <3>2
  <2>3. CASE i = len + 1 /\ j = len + 1
    BY <1>2, <1>4, <2>3
  <2> QED
    BY <1>3, <1>4, <1>6, <2>1, <2>2, <2>3
<1>7. ~mixed => \A i \in DOMAIN current' : current'[i].due = current'[i].delta
  <2> SUFFICES ASSUME ~mixed, NEW i \in DOMAIN current'
               PROVE  current'[i].due = current'[i].delta
    OBVIOUS
  <2>1. CASE i \in 1..len
    <3>1. current[i].due = current[i].delta - 0
      BY <1>1, <1>3, <2>1 DEF VSTQueue
    <3> QED
      BY <1>3, <1>4, <2>1, <3>1
  <2>2. CASE i = len + 1
    BY <1>2, <1>4, <2>2
  <2> QED
    BY <1>3, <1>4, <2>1, <2>2
<1>8. \A i \in DOMAIN current' : current'[i].delta \in Nat
  <2>1. \A i \in DOMAIN current' : current'[i] \in VST!Event
    BY <1>4
  <2> QED
    BY <2>1 DEF VST!Event
<1>9. VST!FramesExact' /\ VST!NotesOnTime'
  BY <1>1 DEF VSTQueue, VST!FramesExact, VST!NotesOnTime
<1>10. /\ ~processing' /\ processing' \in BOOLEAN /\ late' \in BOOLEAN /\ mixed' \in BOOLEAN
       /\ previousDelta' \in Nat /\ count' \in Nat /\ rendered' \in Nat
  BY <1>1 DEF VSTQueue
<1>11. ~mixed' => \A i \in DOMAIN current' : current'[i].due = current'[i].delta - 0
  BY <1>1, <1>7, <1>8
<1> QED
  BY <1>4, <1>6, <1>9, <1>10, <1>11 DEF VSTQueue

\* A block begins.
LEMMA StartBlockKeeps ==
  ASSUME VST!VSTAssumption, VSTQueue, VST!StartBlock
  PROVE  VSTQueue'
<1>1. /\ ~processing /\ processing' = TRUE /\ previousDelta' = 0 /\ rendered' = 0
      /\ UNCHANGED <<current, count, late>>
      /\ mixed' = (mixed \/ \E i, j \in DOMAIN current :
                                /\ current[i].delta \in 1..(SampleFrames - 1)
                                /\ current[j].delta >= SampleFrames)
  BY DEF VST!StartBlock
<1>2. mixed \in BOOLEAN /\ late \in BOOLEAN /\ current \in Seq(VST!Event) /\ count \in Nat
  BY DEF VSTQueue
<1>3. mixed' \in BOOLEAN /\ (~mixed' => ~mixed)
  BY <1>1, <1>2
<1>4. ~mixed' => \A i, j \in DOMAIN current :
                    current[j].delta >= SampleFrames => current[i].delta \notin 1..(SampleFrames - 1)
  BY <1>1
<1>5. 0 < SampleFrames /\ \A i \in DOMAIN current : current[i].delta >= 0
  BY Queue DEF VST!VSTAssumption
<1>6. ~mixed' => \A i \in DOMAIN current : current[i].due = current[i].delta - 0
  BY <1>1, <1>3 DEF VSTQueue
<1>7. VST!FramesExact' /\ VST!NotesOnTime'
  BY <1>1, <1>3 DEF VSTQueue, VST!FramesExact, VST!NotesOnTime
<1>8. \A i, j \in DOMAIN current : i <= j => current[i].delta <= current[j].delta
  BY DEF VSTQueue
<1> QED
  BY <1>1, <1>2, <1>3, <1>4, <1>5, <1>6, <1>7, <1>8 DEF VSTQueue

\* The next note is never before the one that went before it in the block.
LEMMA ElapsedNat ==
  ASSUME VSTQueue, NEW v, VST!Due(v)
  PROVE  VST!Elapsed \in Nat
<1>1. processing /\ current # <<>>
  BY DEF VST!Due
<1>2. /\ 1 \in DOMAIN current /\ Head(current) = current[1] /\ current[1].delta \in Nat
  BY <1>1, Queue
<1>3. current[1].delta >= previousDelta /\ previousDelta \in Nat
  BY <1>1, <1>2 DEF VSTQueue
<1> QED
  BY <1>2, <1>3 DEF VST!Elapsed

\* The first note of the queue is due in this block: the frames before it are computed.
LEMMA DueKeeps ==
  ASSUME VST!VSTAssumption, VSTQueue, NEW v, VST!Due(v), count' = VST!Elapsed,
         rendered' = rendered + VST!Elapsed
  PROVE  VSTQueue' /\ VST!Elapsed \in Nat
<1> DEFINE d == current[1].delta
           n == d - previousDelta
           len == Len(current)
<1>1. /\ processing /\ current # <<>> /\ Head(current).delta < SampleFrames
      /\ current' = VST!Aged(Tail(current), VST!Elapsed) /\ previousDelta' = Head(current).delta
      /\ late' = (late \/ Head(current).due # VST!Elapsed)
      /\ UNCHANGED <<processing, mixed>>
  BY DEF VST!Due
<1>2. /\ len \in Nat /\ len > 0 /\ DOMAIN current = 1..len /\ Head(current) = current[1]
      /\ \A i \in 1..len : current[i] \in VST!Event /\ current[i].delta \in Nat
                           /\ current[i].due \in Int
      /\ DOMAIN Tail(current) = 1..(len - 1)
      /\ \A i \in 1..(len - 1) : Tail(current)[i] = current[i + 1]
  BY <1>1, Queue
<1>3. VST!Elapsed = n
  BY <1>2 DEF VST!Elapsed
<1>4. /\ d \in Nat /\ previousDelta \in Nat /\ d >= previousDelta /\ n \in Nat
      /\ d < SampleFrames /\ SampleFrames \in Nat
  <2>1. 1 \in DOMAIN current
    BY <1>2
  <2>2. d >= previousDelta /\ previousDelta \in Nat
    BY <1>1, <2>1 DEF VSTQueue
  <2> QED
    BY <1>1, <1>2, <2>1, <2>2 DEF VST!VSTAssumption
<1>5. /\ current' \in Seq(VST!Event) /\ DOMAIN current' = 1..(len - 1)
      /\ \A i \in 1..(len - 1) : /\ current'[i].delta = current[i + 1].delta
                                 /\ current'[i].due = current[i + 1].due - n
                                 /\ i + 1 \in 1..len
  <2>1. current' = [i \in 1..(len - 1) |-> [current[i + 1] EXCEPT !.due = @ - n]]
    BY <1>1, <1>2, <1>3 DEF VST!Aged
  <2>2. \A i \in 1..(len - 1) : i + 1 \in 1..len
    BY <1>2
  <2> HIDE DEF n, d, len
  <2>3. ASSUME NEW i \in 1..(len - 1)
        PROVE  /\ current'[i] \in VST!Event /\ current'[i].delta = current[i + 1].delta
               /\ current'[i].due = current[i + 1].due - n
    <3>1. current[i + 1] \in VST!Event /\ current'[i] = [current[i + 1] EXCEPT !.due = @ - n]
      BY <1>2, <2>1, <2>2
    <3> QED
      BY <1>4, <3>1, AgedNote
  <2>4. len - 1 \in Nat
    BY <1>2 DEF len
  <2>5. current' \in Seq(VST!Event)
    <3>1. DOMAIN current' = 1..(len - 1) /\ \A i \in 1..(len - 1) : current'[i] \in VST!Event
      BY <2>1, <2>3
    <3>2. current' \in [1..(len - 1) -> VST!Event]
      BY <2>1, <3>1
    <3> QED
      BY <2>4, <3>2
  <2>6. DOMAIN current' = 1..(len - 1)
    BY <2>1
  <2> QED
    BY <2>2, <2>3, <2>5, <2>6
<1> HIDE DEF n, len
<1>6. \A i, j \in 1..len : i <= j => current[i].delta <= current[j].delta
  BY <1>2 DEF VSTQueue
<1>7. ASSUME NEW i \in DOMAIN current', NEW j \in DOMAIN current', i <= j
      PROVE  current'[i].delta <= current'[j].delta
  <2>1. i + 1 \in 1..len /\ j + 1 \in 1..len /\ i + 1 <= j + 1
    BY <1>5, <1>7
  <2> QED
    BY <1>5, <1>6, <2>1
<1>8. ASSUME NEW i \in DOMAIN current' PROVE current'[i].delta >= d
  <2>1. i + 1 \in 1..len /\ 1 \in 1..len /\ 1 <= i + 1
    BY <1>2, <1>5
  <2> QED
    BY <1>2, <1>5, <1>6, <2>1
<1>9. ~mixed => /\ rendered = previousDelta
                /\ \A i \in 1..len : current[i].due = current[i].delta - previousDelta
  BY <1>1, <1>2 DEF VSTQueue
<1>10. ~mixed => rendered' = d /\ ~late'
  <2> SUFFICES ASSUME ~mixed PROVE rendered' = d /\ ~late'
    OBVIOUS
  <2>1. 1 \in 1..len
    BY <1>2
  <2>2. current[1].due = n /\ ~late
    BY <1>9, <2>1 DEF n, VSTQueue, VST!NotesOnTime
  <2>3. Head(current).due = VST!Elapsed
    BY <1>2, <1>3, <2>2
  <2>4. ~late'
    BY <1>1, <2>2, <2>3
  <2>5. rendered' = previousDelta + n
    BY <1>3, <1>9
  <2> HIDE DEF d
  <2> QED
    BY <1>4, <2>4, <2>5 DEF n
<1>11. ASSUME ~mixed
       PROVE  \/ d = 0
                 /\ \A i, j \in DOMAIN current' :
                      current'[j].delta >= SampleFrames =>
                          current'[i].delta \notin 1..(SampleFrames - 1)
              \/ \A i \in DOMAIN current' : current'[i].delta < SampleFrames
  <2>1. \/ \A i, j \in 1..len : current[j].delta >= SampleFrames =>
                                   current[i].delta \notin 1..(SampleFrames - 1)
        \/ \A i \in 1..len : current[i].delta < SampleFrames
    BY <1>1, <1>2, <1>11 DEF VSTQueue
  <2>2. CASE \A i \in 1..len : current[i].delta < SampleFrames
    BY <1>5, <2>2
  <2>3. CASE \A i, j \in 1..len : current[j].delta >= SampleFrames =>
                                     current[i].delta \notin 1..(SampleFrames - 1)
    <3>1. CASE d = 0
      BY <1>5, <2>3, <3>1
    <3>2. CASE d # 0
      <4>1. 1 \in 1..len /\ d \in 1..(SampleFrames - 1)
        BY <1>2, <1>4, <3>2
      <4>2. \A j \in 1..len : ~(current[j].delta >= SampleFrames)
        BY <2>3, <4>1
      <4>3. \A j \in 1..len : current[j].delta < SampleFrames
        BY <1>2, <1>4, <4>2
      <4> QED
        BY <1>5, <4>3
    <3> QED
      BY <3>1, <3>2
  <2> QED
    BY <2>1, <2>2, <2>3
<1>12. ASSUME ~mixed, NEW i \in DOMAIN current'
       PROVE  current'[i].due = current'[i].delta - d
  <2>1. /\ i + 1 \in 1..len /\ current'[i].due = current[i + 1].due - n
        /\ current'[i].delta = current[i + 1].delta
    BY <1>5
  <2>2. current[i + 1].due = current[i + 1].delta - previousDelta
    BY <1>9, <1>12, <2>1
  <2>3. current[i + 1].delta \in Nat
    BY <1>2, <2>1
  <2> QED
    BY <1>4, <2>1, <2>2, <2>3 DEF n
<1>13. /\ previousDelta' = d /\ count' \in Nat /\ rendered' \in Nat /\ late' \in BOOLEAN
       /\ mixed' = mixed /\ processing' /\ processing' \in BOOLEAN /\ mixed' \in BOOLEAN
  BY <1>1, <1>2, <1>3, <1>4 DEF VSTQueue
<1>14. VST!FramesExact' /\ VST!NotesOnTime'
  BY <1>10, <1>13 DEF VST!FramesExact, VST!NotesOnTime
<1> HIDE DEF d
<1> QED
  BY <1>3, <1>4, <1>5, <1>7, <1>8, <1>10, <1>11, <1>12, <1>13, <1>14 DEF VSTQueue

\* The next note is of a later block: the whole block is computed, and the notes come nearer.
LEMMA WaitBlockKeeps ==
  ASSUME VST!VSTAssumption, VSTQueue, VST!WaitBlock, count' = SampleFrames,
         rendered' = rendered + SampleFrames
  PROVE  VSTQueue'
<1> DEFINE len == Len(current)
<1>1. /\ processing /\ current # <<>> /\ Head(current).delta >= SampleFrames
      /\ current' = VST!Aged([i \in DOMAIN current |->
                                [current[i] EXCEPT !.delta = @ - SampleFrames]], SampleFrames)
      /\ processing' = FALSE
      /\ UNCHANGED <<previousDelta, late, mixed>>
  BY DEF VST!WaitBlock, VST!history
<1>2. /\ len \in Nat /\ len > 0 /\ DOMAIN current = 1..len /\ Head(current) = current[1]
      /\ \A i \in 1..len : current[i] \in VST!Event /\ current[i].delta \in Nat
                           /\ current[i].due \in Int
  BY <1>1, Queue
<1>3. SampleFrames \in Nat /\ SampleFrames > 0
  BY DEF VST!VSTAssumption
<1> HIDE DEF len
<1>4. \A i, j \in 1..len : i <= j => current[i].delta <= current[j].delta
  BY <1>2 DEF VSTQueue
<1>5. \A i \in 1..len : current[i].delta >= SampleFrames
  <2> SUFFICES ASSUME NEW i \in 1..len PROVE current[i].delta >= SampleFrames
    OBVIOUS
  <2>1. 1 \in 1..len /\ 1 <= i
    BY <1>2
  <2> QED
    BY <1>1, <1>2, <1>3, <1>4, <2>1
<1>6. /\ DOMAIN current' = 1..len /\ current' \in [1..len -> VST!Event]
      /\ \A i \in 1..len : /\ current'[i].delta = current[i].delta - SampleFrames
                           /\ current'[i].due = current[i].due - SampleFrames
                           /\ current'[i] \in VST!Event
  <2> DEFINE b(i) == [current[i] EXCEPT !.delta = @ - SampleFrames]
  <2>1. current' = [i \in 1..len |-> [b(i) EXCEPT !.due = @ - SampleFrames]]
    BY <1>1, <1>2 DEF VST!Aged
  <2>2. ASSUME NEW i \in 1..len
        PROVE  b(i) \in VST!Event /\ b(i).delta = current[i].delta - SampleFrames
               /\ b(i).due = current[i].due
    <3>1. current[i].delta - SampleFrames \in Nat
      BY <1>2, <1>3, <1>5
    <3>2. current[i] \in VST!Event
      BY <1>2
    <3> QED
      BY <3>1, <3>2 DEF VST!Event
  <2> HIDE DEF b
  <2>3. ASSUME NEW i \in 1..len
        PROVE  /\ current'[i] \in VST!Event /\ current'[i].delta = b(i).delta
               /\ current'[i].due = b(i).due - SampleFrames
    <3>1. current'[i] = [b(i) EXCEPT !.due = @ - SampleFrames] /\ b(i) \in VST!Event
      BY <2>1, <2>2
    <3>2. SampleFrames \in Int
      BY <1>3
    <3> QED
      BY <3>1, <3>2, AgedNote
  <2>4. DOMAIN current' = 1..len
    BY <2>1
  <2>5. current' \in [1..len -> VST!Event]
    BY <2>1, <2>3
  <2> QED
    BY <2>2, <2>3, <2>4, <2>5
<1>7. current' \in Seq(VST!Event)
  BY <1>2, <1>6
<1>8. ASSUME NEW i \in DOMAIN current', NEW j \in DOMAIN current', i <= j
      PROVE  current'[i].delta <= current'[j].delta
  <2>1. i \in 1..len /\ j \in 1..len
    BY <1>6
  <2>2. current[i].delta <= current[j].delta
    BY <1>4, <1>8, <2>1
  <2> QED
    BY <1>2, <1>3, <1>6, <2>1, <2>2
<1>9. ~mixed => rendered = 0 /\ previousDelta = 0
  <2> SUFFICES ASSUME ~mixed PROVE rendered = 0 /\ previousDelta = 0
    OBVIOUS
  <2>1. 1 \in DOMAIN current /\ ~(current[1].delta < SampleFrames)
    BY <1>2, <1>3, <1>5
  <2> QED
    BY <1>1, <2>1 DEF VSTQueue
<1>10. ~mixed => \A i \in DOMAIN current' : current'[i].due = current'[i].delta - 0
  <2> SUFFICES ASSUME ~mixed, NEW i \in DOMAIN current'
               PROVE  current'[i].due = current'[i].delta - 0
    OBVIOUS
  <2>1. i \in 1..len
    BY <1>6
  <2>2. current[i].due = current[i].delta - previousDelta
    BY <1>1, <1>2, <2>1 DEF VSTQueue
  <2>3. current[i].due = current[i].delta
    BY <1>2, <1>9, <2>1, <2>2
  <2> QED
    BY <1>2, <1>3, <1>6, <2>1, <2>3
<1>11. /\ late \in BOOLEAN /\ mixed \in BOOLEAN /\ previousDelta \in Nat /\ rendered \in Nat
       /\ VST!NotesOnTime
  BY DEF VSTQueue
<1>12. /\ late' \in BOOLEAN /\ mixed' \in BOOLEAN /\ previousDelta' \in Nat /\ count' \in Nat
       /\ mixed' = mixed /\ late' = late
  BY <1>1, <1>3, <1>11
<1>13. rendered' \in Nat /\ (~mixed => rendered' = SampleFrames)
  BY <1>3, <1>9, <1>11
<1>14. VST!FramesExact' /\ VST!NotesOnTime'
  BY <1>11, <1>12, <1>13 DEF VST!FramesExact, VST!NotesOnTime
<1>15. processing' \in BOOLEAN /\ ~processing'
  BY <1>1
<1>16. ~mixed' => \A i \in DOMAIN current' : current'[i].due = current'[i].delta - 0
  BY <1>10, <1>12
<1> QED
  BY <1>7, <1>8, <1>12, <1>13, <1>14, <1>15, <1>16 DEF VSTQueue

\* No note is left: the rest of the block is computed.
LEMMA EndBlockKeeps ==
  ASSUME VST!VSTAssumption, VSTQueue, VST!EndBlock, count' = SampleFrames - previousDelta,
         rendered' = rendered + (SampleFrames - previousDelta)
  PROVE  VSTQueue'
<1>1. /\ processing /\ current = <<>> /\ processing' = FALSE
      /\ UNCHANGED <<current, previousDelta, late, mixed>>
  BY DEF VST!EndBlock, VST!history
<1>2. /\ late \in BOOLEAN /\ mixed \in BOOLEAN /\ previousDelta \in Nat /\ rendered \in Nat
      /\ VST!NotesOnTime /\ previousDelta < SampleFrames /\ (~mixed => rendered = previousDelta)
  BY <1>1 DEF VSTQueue
<1>3. SampleFrames \in Nat
  BY DEF VST!VSTAssumption
<1>4. count' \in Nat /\ rendered' \in Nat /\ (~mixed => rendered' = SampleFrames)
  BY <1>2, <1>3
<1>5. VST!FramesExact' /\ VST!NotesOnTime'
  BY <1>1, <1>2, <1>4 DEF VST!FramesExact, VST!NotesOnTime
<1>6. current' \in Seq(VST!Event) /\ DOMAIN current' = {}
  BY <1>1
<1> QED
  BY <1>1, <1>2, <1>4, <1>5, <1>6 DEF VSTQueue

-----------------------------------------------------------------------------
(***************************************************************************)
(* The VST instrument: its voices                                          *)
(***************************************************************************)
\* What Append, Head and Tail do to the members of a list.
LEMMA ListEnds ==
  ASSUME NEW A, NEW s \in Seq(A), NEW x \in A
  PROVE  /\ Append(s, x) \in Seq(A) /\ VST!ToSet(Append(s, x)) = VST!ToSet(s) \cup {x}
         /\ VST!IsInjective(s) /\ x \notin VST!ToSet(s) => VST!IsInjective(Append(s, x))
         /\ s # <<>> => /\ Head(s) \in VST!ToSet(s) /\ Tail(s) \in Seq(A)
                        /\ VST!ToSet(s) = {Head(s)} \cup VST!ToSet(Tail(s))
                        /\ VST!IsInjective(s) => /\ VST!IsInjective(Tail(s))
                                                 /\ Head(s) \notin VST!ToSet(Tail(s))
<1>1. \A u : /\ VST!ToSet(u) = Voices!ToSet(u)
             /\ VST!IsInjective(u) <=> Voices!IsInjective(u)
  BY DEF VST!ToSet, Voices!ToSet, VST!IsInjective, Voices!IsInjective
<1>2. /\ Append(s, x) \in Seq(A) /\ Voices!ToSet(Append(s, x)) = Voices!ToSet(s) \cup {x}
      /\ Voices!IsInjective(s) /\ x \notin Voices!ToSet(s) => Voices!IsInjective(Append(s, x))
      /\ s # <<>> => /\ Head(s) \in Voices!ToSet(s) /\ Tail(s) \in Seq(A)
                     /\ Voices!ToSet(s) = {Head(s)} \cup Voices!ToSet(Tail(s))
                     /\ Voices!IsInjective(s) => /\ Voices!IsInjective(Tail(s))
                                                 /\ Head(s) \notin Voices!ToSet(Tail(s))
  BY Voices!Ends
<1> QED
  BY <1>1, <1>2

\* The voices of a list of playing notes follow its ends.
LEMMA VoicesOfEnds ==
  ASSUME NEW p \in Seq(VST!Playing(VST!Voices)), NEW e \in VST!Playing(VST!Voices)
  PROVE  /\ VST!VoicesOf(p) \in Seq(VST!Voices)
         /\ VST!VoicesOf(Append(p, e)) = Append(VST!VoicesOf(p), e.voice)
         /\ p # <<>> => /\ VST!VoicesOf(p) # <<>> /\ Head(p).voice = Head(VST!VoicesOf(p))
                        /\ Tail(p) \in Seq(VST!Playing(VST!Voices))
                        /\ VST!VoicesOf(Tail(p)) = Tail(VST!VoicesOf(p))
<1>1. /\ Len(p) \in Nat /\ DOMAIN p = 1..Len(p)
      /\ \A i \in 1..Len(p) : p[i] \in VST!Playing(VST!Voices) /\ p[i].voice \in VST!Voices
  <2>1. Len(p) \in Nat /\ DOMAIN p = 1..Len(p)
        /\ \A i \in 1..Len(p) : p[i] \in VST!Playing(VST!Voices)
    OBVIOUS
  <2> QED
    BY <2>1 DEF VST!Playing
<1> DEFINE a == VST!VoicesOf(p)
<1>2. a = [i \in 1..Len(p) |-> p[i].voice]
  BY <1>1 DEF VST!VoicesOf
<1>3. /\ a \in Seq(VST!Voices) /\ Len(a) = Len(p) /\ DOMAIN a = 1..Len(p)
      /\ \A i \in 1..Len(p) : a[i] = p[i].voice
  <2>1. a \in [1..Len(p) -> VST!Voices] /\ \A i \in 1..Len(p) : a[i] = p[i].voice
    BY <1>1, <1>2
  <2> HIDE DEF a
  <2>2. a \in Seq(VST!Voices) /\ DOMAIN a = 1..Len(p)
    BY <1>1, <2>1
  <2> QED
    BY <1>1, <2>1, <2>2
<1> HIDE DEF a
<1>4. VST!VoicesOf(Append(p, e)) = Append(a, e.voice)
  <2>1. /\ DOMAIN Append(p, e) = 1..(Len(p) + 1) /\ Append(p, e)[Len(p) + 1] = e
        /\ \A i \in 1..Len(p) : Append(p, e)[i] = p[i]
    BY <1>1
  <2>2. /\ DOMAIN Append(a, e.voice) = 1..(Len(p) + 1)
        /\ Append(a, e.voice)[Len(p) + 1] = e.voice
        /\ \A i \in 1..Len(p) : Append(a, e.voice)[i] = p[i].voice
    <3>1. e.voice \in VST!Voices
      BY DEF VST!Playing
    <3> QED
      BY <1>1, <1>3, <3>1
  <2>3. \A i \in 1..(Len(p) + 1) : Append(p, e)[i].voice = Append(a, e.voice)[i]
    <3> SUFFICES ASSUME NEW i \in 1..(Len(p) + 1)
                 PROVE  Append(p, e)[i].voice = Append(a, e.voice)[i]
      OBVIOUS
    <3>1. CASE i \in 1..Len(p)
      BY <2>1, <2>2, <3>1
    <3>2. CASE i = Len(p) + 1
      BY <2>1, <2>2, <3>2
    <3>3. Len(p) \in Nat
      BY <1>1
    <3>4. i \in 1..Len(p) \/ i = Len(p) + 1
      BY <3>3
    <3> QED
      BY <3>1, <3>2, <3>4
  <2>4. VST!VoicesOf(Append(p, e)) = [i \in 1..(Len(p) + 1) |-> Append(p, e)[i].voice]
    BY <2>1 DEF VST!VoicesOf
  <2>5. Append(a, e.voice) = [i \in 1..(Len(p) + 1) |-> Append(a, e.voice)[i]]
    BY <2>2, <1>3
  <2> QED
    BY <2>3, <2>4, <2>5
<1>5. ASSUME p # <<>>
      PROVE  /\ a # <<>> /\ Head(p).voice = Head(a)
             /\ Tail(p) \in Seq(VST!Playing(VST!Voices)) /\ VST!VoicesOf(Tail(p)) = Tail(a)
  <2>1. Len(p) > 0 /\ a # <<>>
    BY <1>1, <1>3, <1>5
  <2>2. Head(p) = p[1] /\ Head(a) = a[1] /\ 1 \in 1..Len(p)
    BY <1>1, <1>3, <1>5, <2>1
  <2>3. /\ Tail(p) \in Seq(VST!Playing(VST!Voices)) /\ DOMAIN Tail(p) = 1..(Len(p) - 1)
        /\ \A i \in 1..(Len(p) - 1) : Tail(p)[i] = p[i + 1] /\ i + 1 \in 1..Len(p)
    BY <1>1, <1>5, <2>1
  <2>4. /\ Tail(a) \in Seq(VST!Voices) /\ DOMAIN Tail(a) = 1..(Len(p) - 1)
        /\ \A i \in 1..(Len(p) - 1) : Tail(a)[i] = a[i + 1]
    BY <1>1, <1>3, <2>1
  <2>5. VST!VoicesOf(Tail(p)) = [i \in 1..(Len(p) - 1) |-> Tail(p)[i].voice]
    BY <2>3 DEF VST!VoicesOf
  <2>6. Tail(a) = [i \in 1..(Len(p) - 1) |-> Tail(a)[i]]
    <3>1. Tail(a) \in Seq(VST!Voices) /\ DOMAIN Tail(a) = 1..(Len(p) - 1)
      BY <2>4
    <3>2. \A t \in Seq(VST!Voices) : t \in [DOMAIN t -> VST!Voices]
      OBVIOUS
    <3>3. Tail(a) \in [1..(Len(p) - 1) -> VST!Voices]
      BY <3>1, <3>2
    <3> QED
      BY <3>3
  <2>7. \A i \in 1..(Len(p) - 1) : Tail(p)[i].voice = Tail(a)[i]
    BY <1>3, <2>3, <2>4
  <2>8. VST!VoicesOf(Tail(p)) = Tail(a)
    BY <2>5, <2>6, <2>7
  <2>9. Head(p).voice = Head(a)
    BY <1>3, <2>2
  <2> QED
    BY <2>1, <2>3, <2>8, <2>9
<1> QED
  BY <1>3, <1>4, <1>5 DEF a

\* What VSTVoices says of the lists of voices.
LEMMA VoiceLists ==
  ASSUME VSTVoices
  PROVE  LET a == VST!VoicesOf(playing) IN
         /\ a \in Seq(VST!Voices) /\ VST!IsInjective(a) /\ VST!IsInjective(free)
         /\ VST!ToSet(a) \cap VST!ToSet(free) = {} /\ VST!ToSet(a) \cup VST!ToSet(free) = VST!Voices
         /\ released \subseteq VST!ToSet(a)
         /\ VST!IsInjective(a \o free) /\ VST!ToSet(a \o free) = VST!Voices
<1>1. VST!VoicesOf(playing) \in Seq(VST!Voices) /\ free \in Seq(VST!Voices)
  BY KeptVoices DEF VSTVoices
<1>2. /\ VST!IsInjective(VST!VoicesOf(playing) \o free)
      /\ VST!ToSet(VST!VoicesOf(playing) \o free) = VST!Voices
      /\ released \subseteq VST!ToSet(VST!VoicesOf(playing))
  BY DEF VSTVoices, VST!VoicesPartitioned, VST!PlayingVoices
<1> DEFINE a == VST!VoicesOf(playing)
<1> HIDE DEF a
<1>3. a \in Seq(VST!Voices) /\ free \in Seq(VST!Voices)
  BY <1>1 DEF a
<1>4. /\ VST!ToSet(a \o free) = VST!ToSet(a) \cup VST!ToSet(free)
      /\ VST!IsInjective(a \o free) <=> /\ VST!IsInjective(a) /\ VST!IsInjective(free)
                                        /\ VST!ToSet(a) \cap VST!ToSet(free) = {}
  BY <1>3, Lists
<1>5. /\ VST!IsInjective(a) /\ VST!IsInjective(free) /\ VST!ToSet(a) \cap VST!ToSet(free) = {}
      /\ VST!ToSet(a) \cup VST!ToSet(free) = VST!Voices
  BY <1>2, <1>4 DEF a
<1> QED
  BY <1>1, <1>2, <1>5 DEF a

\* All playing voices are released and their gates closed.
LEMMA AllNotesOffKeeps ==
  ASSUME VSTVoices, VST!allNotesOff
  PROVE  VSTVoices'
<1>1. /\ vstgate' = [v \in VST!Voices |-> 0] /\ released' = released \cup VST!PlayingVoices
      /\ UNCHANGED <<playing, free>>
  BY DEF VST!allNotesOff
<1>2. VST!PlayingVoices \subseteq VST!Voices /\ released \subseteq VST!PlayingVoices
  BY VoiceLists DEF VST!PlayingVoices
<1>3. vstgate' \in [VST!Voices -> {0, 1}]
  BY <1>1
<1>4. released' \subseteq VST!PlayingVoices
  BY <1>1, <1>2
<1> QED
  BY <1>1, <1>2, <1>3, <1>4 DEF VSTVoices, VST!VoicesPartitioned, VST!PlayingVoices

\* A note takes the first free voice, or the one that has played longest.
LEMMA StartNoteVoices ==
  ASSUME VST!VSTAssumption, VSTVoices, VSTQueue, VST!Elapsed \in Nat, current # <<>>,
         VST!StartNote
  PROVE  VSTVoices' /\ count' = VST!Elapsed /\ rendered' = rendered + VST!Elapsed
<1> DEFINE a == VST!VoicesOf(playing)
           note == Head(current).note
           v == IF free = <<>> THEN Head(playing).voice ELSE Head(free)
           kept == IF free = <<>> THEN Tail(playing) ELSE playing
           f == IF free = <<>> THEN free ELSE Tail(free)
           e == [note |-> note, voice |-> v]
           p == Append(kept, e)
<1>1. VST!compute(VST!Elapsed, p, released, f) /\ vstgate' = [vstgate EXCEPT ![v] = 1]
  BY DEF VST!StartNote
<1>2. note \in Notes
  <2>1. Head(current) \in VST!Event
    BY Queue
  <2> QED
    BY <2>1 DEF VST!Event
<1>3. /\ a \in Seq(VST!Voices) /\ VST!IsInjective(a) /\ VST!IsInjective(free)
      /\ VST!ToSet(a) \cap VST!ToSet(free) = {} /\ VST!ToSet(a) \cup VST!ToSet(free) = VST!Voices
      /\ released \subseteq VST!ToSet(a)
  BY VoiceLists
<1>4. playing \in Seq(VST!Playing(VST!Voices)) /\ free \in Seq(VST!Voices)
  BY DEF VSTVoices
<1> DEFINE b == VST!VoicesOf(kept)
<1>5. /\ kept \in Seq(VST!Playing(VST!Voices)) /\ b \in Seq(VST!Voices) /\ VST!IsInjective(b)
      /\ f \in Seq(VST!Voices) /\ VST!IsInjective(f) /\ v \in VST!Voices
      /\ v \notin VST!ToSet(b) /\ v \notin VST!ToSet(f) /\ VST!ToSet(b) \cap VST!ToSet(f) = {}
      /\ VST!ToSet(b) \cup {v} \cup VST!ToSet(f) = VST!Voices
      /\ released \subseteq VST!ToSet(b) \cup {v}
  <2>1. CASE free = <<>>
    <3>1. VST!ToSet(free) = {} /\ VST!Voices # {}
      <4>1. VST!ToSet(free) = {}
        BY <2>1 DEF VST!ToSet
      <4>2. 0 \in VST!Voices
        BY DEF VST!VSTAssumption, VST!Voices
      <4> QED
        BY <4>1, <4>2
    <3>2. playing # <<>>
      <4>1. playing = <<>> => VST!ToSet(a) = {}
        BY DEF VST!ToSet, VST!VoicesOf
      <4> QED
        BY <1>3, <3>1, <4>1
    <3>3. /\ a # <<>> /\ Head(playing).voice = Head(a)
          /\ Tail(playing) \in Seq(VST!Playing(VST!Voices)) /\ VST!VoicesOf(Tail(playing)) = Tail(a)
      <4>1. \A x \in VST!Playing(VST!Voices) :
              /\ a # <<>> /\ Head(playing).voice = Head(a)
              /\ Tail(playing) \in Seq(VST!Playing(VST!Voices))
              /\ VST!VoicesOf(Tail(playing)) = Tail(a)
        BY <1>4, <3>2, VoicesOfEnds
      <4>2. playing[1] \in VST!Playing(VST!Voices)
        BY <1>4, <3>2
      <4> QED
        BY <4>1, <4>2
    <3>4. /\ Head(a) \in VST!ToSet(a) /\ Tail(a) \in Seq(VST!Voices)
          /\ VST!ToSet(a) = {Head(a)} \cup VST!ToSet(Tail(a))
          /\ VST!IsInjective(Tail(a)) /\ Head(a) \notin VST!ToSet(Tail(a))
      <4> HIDE DEF a
      <4> QED
        BY <1>3, <3>1, <3>3, ListEnds
    <3>5. v = Head(a) /\ b = Tail(a) /\ f = free /\ kept = Tail(playing)
      BY <2>1, <3>3
    <3> HIDE DEF a, b, v, f, kept
    <3> QED
      BY <1>3, <1>4, <3>1, <3>3, <3>4, <3>5
  <2>2. CASE free # <<>>
    <3>1. /\ Head(free) \in VST!ToSet(free) /\ Tail(free) \in Seq(VST!Voices)
          /\ VST!ToSet(free) = {Head(free)} \cup VST!ToSet(Tail(free))
          /\ VST!IsInjective(Tail(free)) /\ Head(free) \notin VST!ToSet(Tail(free))
      <4>1. 0 \in VST!Voices
        BY DEF VST!VSTAssumption, VST!Voices
      <4> QED
        BY <1>3, <1>4, <2>2, <4>1, ListEnds
    <3>2. v = Head(free) /\ b = a /\ f = Tail(free) /\ kept = playing
      BY <2>2
    <3> HIDE DEF a, b, v, f, kept
    <3> QED
      BY <1>3, <1>4, <3>1, <3>2
  <2> QED
    BY <2>1, <2>2
<1> HIDE DEF a, v, kept, f
<1>6. e \in VST!Playing(VST!Voices) /\ e.voice = v
  BY <1>2, <1>5 DEF VST!Playing
<1> HIDE DEF e
<1>7. p \in Seq(VST!Playing(VST!Voices)) /\ VST!VoicesOf(p) = Append(b, v)
  BY <1>5, <1>6, VoicesOfEnds
<1> HIDE DEF b, p
<1>8. /\ Append(b, v) \in Seq(VST!Voices) /\ VST!ToSet(Append(b, v)) = VST!ToSet(b) \cup {v}
      /\ VST!IsInjective(Append(b, v))
  BY <1>5, ListEnds
<1>9. VST!IsInjective(VST!VoicesOf(p) \o f) /\ VST!ToSet(VST!VoicesOf(p) \o f) = VST!Voices
  <2> DEFINE c == Append(b, v)
  <2>1. /\ c \in Seq(VST!Voices) /\ VST!IsInjective(c) /\ VST!ToSet(c) = VST!ToSet(b) \cup {v}
        /\ VST!VoicesOf(p) = c
    BY <1>7, <1>8
  <2> HIDE DEF c
  <2>2. VST!ToSet(c) \cap VST!ToSet(f) = {} /\ VST!ToSet(c) \cup VST!ToSet(f) = VST!Voices
    BY <1>5, <2>1
  <2>3. VST!IsInjective(c \o f) /\ VST!ToSet(c \o f) = VST!ToSet(c) \cup VST!ToSet(f)
    BY <1>5, <2>1, <2>2, Lists
  <2> QED
    BY <2>1, <2>2, <2>3
<1>10. released \subseteq VST!ToSet(VST!VoicesOf(p)) /\ rendered \in Nat
  BY <1>5, <1>7, <1>8 DEF VSTQueue
<1>11. /\ playing' \in Seq(VST!Playing(VST!Voices)) /\ free' \in Seq(VST!Voices)
       /\ released' \subseteq VST!Voices /\ VST!VoicesPartitioned'
       /\ rendered' = rendered + VST!Elapsed
  BY <1>1, <1>5, <1>7, <1>9, <1>10, ComputeKeeps
<1>12. count' = VST!Elapsed
  BY <1>1 DEF VST!compute
<1>13. vstgate' \in [VST!Voices -> {0, 1}]
  BY <1>1 DEF VSTVoices
<1> QED
  BY <1>11, <1>12, <1>13 DEF VSTVoices

\* The voices that play the note of a note-off are released.
LEMMA EndNoteVoices ==
  ASSUME VSTVoices, VSTQueue, VST!Elapsed \in Nat, VST!EndNote
  PROVE  VSTVoices' /\ count' = VST!Elapsed /\ rendered' = rendered + VST!Elapsed
<1> DEFINE S == [note : {Head(current).note}, voice : VST!Voices]
           k == VST!Keep(playing, S)
           mine == VST!VoicesOf(k)
           r == released \cup VST!ToSet(mine)
<1>1. /\ VST!compute(VST!Elapsed, playing, r, free)
      /\ vstgate' = IF VST!ToSet(mine) \subseteq released THEN vstgate
                    ELSE [vstgate EXCEPT ![VST!Last(mine)] = 0]
  BY DEF VST!EndNote
<1>2. playing \in Seq(VST!Playing(VST!Voices)) /\ free \in Seq(VST!Voices)
  BY DEF VSTVoices
<1>3. k \in Seq(VST!Playing(VST!Voices)) /\ VST!ToSet(k) = VST!ToSet(playing) \cap S
  <2>1. \A T : /\ VST!Keep(playing, T) \in Seq(VST!Playing(VST!Voices))
               /\ VST!ToSet(VST!Keep(playing, T)) = VST!ToSet(playing) \cap T
    BY <1>2, Lists
  <2> HIDE DEF S
  <2> QED
    BY <2>1
<1> HIDE DEF S, k
<1>4. VST!ToSet(mine) \subseteq VST!ToSet(VST!VoicesOf(playing))
  <2> SUFFICES ASSUME NEW i \in DOMAIN k
               PROVE  k[i].voice \in VST!ToSet(VST!VoicesOf(playing))
    BY DEF VST!ToSet, VST!VoicesOf
  <2>1. k[i] \in VST!ToSet(playing)
    BY <1>3 DEF VST!ToSet
  <2>2. PICK j \in DOMAIN playing : k[i] = playing[j]
    BY <2>1 DEF VST!ToSet
  <2> QED
    BY <2>2 DEF VST!ToSet, VST!VoicesOf
<1>5. /\ VST!IsInjective(VST!VoicesOf(playing) \o free)
      /\ VST!ToSet(VST!VoicesOf(playing) \o free) = VST!Voices
      /\ released \subseteq VST!ToSet(VST!VoicesOf(playing))
  BY VoiceLists
<1>6. r \subseteq VST!ToSet(VST!VoicesOf(playing)) /\ rendered \in Nat
  BY <1>4, <1>5 DEF VSTQueue
<1> HIDE DEF r
<1>7. /\ playing' \in Seq(VST!Playing(VST!Voices)) /\ free' \in Seq(VST!Voices)
      /\ released' \subseteq VST!Voices /\ VST!VoicesPartitioned'
      /\ rendered' = rendered + VST!Elapsed
  BY <1>1, <1>2, <1>5, <1>6, ComputeKeeps
<1>8. count' = VST!Elapsed
  BY <1>1 DEF VST!compute
<1>9. vstgate' \in [VST!Voices -> {0, 1}]
  <2>1. vstgate \in [VST!Voices -> {0, 1}]
    BY DEF VSTVoices
  <2>2. \A x : [vstgate EXCEPT ![x] = 0] \in [VST!Voices -> {0, 1}]
    BY <2>1
  <2> QED
    BY <1>1, <2>1, <2>2
<1> QED
  BY <1>7, <1>8, <1>9 DEF VSTVoices

\* The playing voices go on for n frames, at the end of a block.
LEMMA RestVoices ==
  ASSUME VSTVoices, VSTQueue, NEW n \in Nat, VST!compute(n, playing, released, free),
         UNCHANGED vstgate
  PROVE  VSTVoices' /\ count' = n /\ rendered' = rendered + n
<1>1. /\ VST!IsInjective(VST!VoicesOf(playing) \o free)
      /\ VST!ToSet(VST!VoicesOf(playing) \o free) = VST!Voices
      /\ released \subseteq VST!ToSet(VST!VoicesOf(playing))
  BY VoiceLists
<1>2. /\ playing \in Seq(VST!Playing(VST!Voices)) /\ free \in Seq(VST!Voices)
      /\ rendered \in Nat /\ vstgate' \in [VST!Voices -> {0, 1}]
  BY DEF VSTVoices, VSTQueue
<1>3. /\ playing' \in Seq(VST!Playing(VST!Voices)) /\ free' \in Seq(VST!Voices)
      /\ released' \subseteq VST!Voices /\ VST!VoicesPartitioned'
      /\ rendered' = rendered + n
  BY <1>1, <1>2, ComputeKeeps
<1>4. count' = n
  BY DEF VST!compute
<1> QED
  BY <1>2, <1>3, <1>4 DEF VSTVoices

-----------------------------------------------------------------------------
(***************************************************************************)
(* The VST instrument: its invariant                                       *)
(***************************************************************************)
\* All voices are free at first, and no note waits.
LEMMA VSTInit ==
  ASSUME VST!VSTAssumption, VST!Init
  PROVE  VST!Inv
<1>1. /\ current = <<>> /\ playing = <<>> /\ released = {}
      /\ free = [i \in 1..MaxPolyphony |-> i - 1]
      /\ vstgate = [v \in VST!Voices |-> 0]
      /\ processing = FALSE /\ previousDelta = 0
      /\ count = 0 /\ rendered = 0 /\ late = FALSE /\ mixed = FALSE
  BY DEF VST!Init
<1>2. MaxPolyphony \in Nat /\ SampleFrames \in Nat
  BY DEF VST!VSTAssumption
<1>3. /\ free \in [1..MaxPolyphony -> VST!Voices] /\ DOMAIN free = 1..MaxPolyphony
      /\ \A i \in 1..MaxPolyphony : free[i] = i - 1
  BY <1>1, <1>2 DEF VST!Voices
<1>4. free \in Seq(VST!Voices)
  BY <1>2, <1>3
<1>5. VST!ToSet(free) = VST!Voices
  <2>1. ASSUME NEW v \in VST!Voices PROVE v \in VST!ToSet(free)
    <3>1. v + 1 \in 1..MaxPolyphony /\ free[v + 1] = v
      BY <1>2, <1>3 DEF VST!Voices
    <3> QED
      BY <1>3, <3>1 DEF VST!ToSet
  <2>2. VST!ToSet(free) \subseteq VST!Voices
    BY <1>3 DEF VST!ToSet
  <2> QED
    BY <2>1, <2>2
<1>6. VST!IsInjective(free)
  BY <1>2, <1>3 DEF VST!IsInjective
<1>7. VST!VoicesOf(playing) = <<>> /\ VST!VoicesOf(playing) \o free = free
  <2>1. VST!VoicesOf(playing) = <<>>
    BY <1>1 DEF VST!VoicesOf
  <2> QED
    BY <1>4, <2>1
<1>8. VSTVoices
  <2>1. vstgate \in [VST!Voices -> {0, 1}]
    BY <1>1
  <2>2. playing \in Seq(VST!Playing(VST!Voices)) /\ released = {}
    BY <1>1
  <2>3. VST!VoicesPartitioned
    BY <1>5, <1>6, <1>7, <2>2 DEF VST!VoicesPartitioned
  <2> QED
    BY <1>4, <2>1, <2>2, <2>3 DEF VSTVoices
<1>9. VSTQueue
  <2>1. current \in Seq(VST!Event) /\ DOMAIN current = {}
    BY <1>1
  <2>2. ~processing /\ processing \in BOOLEAN /\ ~late /\ late \in BOOLEAN /\ mixed \in BOOLEAN
    BY <1>1
  <2>3. previousDelta \in Nat /\ count \in Nat /\ rendered \in Nat /\ rendered = 0
    BY <1>1
  <2> QED
    BY <2>1, <2>2, <2>3 DEF VSTQueue, VST!FramesExact, VST!NotesOnTime
<1> QED
  BY <1>8, <1>9, VSTInvParts

\* Every step of the instrument keeps the invariant.
LEMMA VSTNext ==
  ASSUME VST!VSTAssumption, VST!Inv, [VST!Next]_(VST!vars)
  PROVE  VST!Inv'
<1>1. VSTVoices /\ VSTQueue
  BY VSTInvParts
<1>2. ASSUME NEW n \in Notes, NEW v \in {0, 1}, NEW d \in Deltas, VST!Enqueue(n, v, d)
      PROVE  VSTVoices' /\ VSTQueue'
  <2>1. UNCHANGED <<playing, released, free, vstgate>>
    BY <1>2 DEF VST!Enqueue, VST!voices
  <2>2. VSTVoices'
    BY <1>1, <2>1 DEF VSTVoices, VST!VoicesPartitioned, VST!PlayingVoices
  <2>3. VSTQueue'
    BY <1>1, <1>2, EnqueueKeeps
  <2> QED
    BY <2>2, <2>3
<1>3. ASSUME VST!allNotesOff PROVE VSTVoices' /\ VSTQueue'
  <2>1. UNCHANGED <<current, processing, previousDelta, count, rendered, late, mixed>>
    BY <1>3 DEF VST!allNotesOff, VST!history
  <2>2. VSTQueue'
    BY <1>1, <2>1 DEF VSTQueue, VST!FramesExact, VST!NotesOnTime
  <2>3. VSTVoices'
    BY <1>1, <1>3, AllNotesOffKeeps
  <2> QED
    BY <2>2, <2>3
<1>4. ASSUME VST!StartBlock PROVE VSTVoices' /\ VSTQueue'
  <2>1. UNCHANGED <<playing, released, free, vstgate>>
    BY <1>4 DEF VST!StartBlock, VST!voices
  <2>2. VSTVoices'
    BY <1>1, <2>1 DEF VSTVoices, VST!VoicesPartitioned, VST!PlayingVoices
  <2>3. VSTQueue'
    BY <1>1, <1>4, StartBlockKeeps
  <2> QED
    BY <2>2, <2>3
<1>5. ASSUME VST!StartNote PROVE VSTVoices' /\ VSTQueue'
  <2>1. VST!Due(1) /\ current # <<>>
    BY <1>5 DEF VST!StartNote, VST!Due
  <2>2. VST!Elapsed \in Nat
    BY <1>1, <2>1, ElapsedNat
  <2>3. VSTVoices' /\ count' = VST!Elapsed /\ rendered' = rendered + VST!Elapsed
    BY <1>1, <1>5, <2>1, <2>2, StartNoteVoices
  <2>4. VSTQueue'
    BY <1>1, <2>1, <2>3, DueKeeps
  <2> QED
    BY <2>3, <2>4
<1>6. ASSUME VST!EndNote PROVE VSTVoices' /\ VSTQueue'
  <2>1. VST!Due(0) /\ current # <<>>
    BY <1>6 DEF VST!EndNote, VST!Due
  <2>2. VST!Elapsed \in Nat
    BY <1>1, <2>1, ElapsedNat
  <2>3. VSTVoices' /\ count' = VST!Elapsed /\ rendered' = rendered + VST!Elapsed
    BY <1>1, <1>6, <2>2, EndNoteVoices
  <2>4. VSTQueue'
    BY <1>1, <2>1, <2>3, DueKeeps
  <2> QED
    BY <2>3, <2>4
<1>7. ASSUME VST!WaitBlock PROVE VSTVoices' /\ VSTQueue'
  <2>1. VST!compute(SampleFrames, playing, released, free) /\ UNCHANGED vstgate
    BY <1>7 DEF VST!WaitBlock
  <2>2. SampleFrames \in Nat
    BY DEF VST!VSTAssumption
  <2>3. VSTVoices' /\ count' = SampleFrames /\ rendered' = rendered + SampleFrames
    BY <1>1, <2>1, <2>2, RestVoices
  <2>4. VSTQueue'
    BY <1>1, <1>7, <2>3, WaitBlockKeeps
  <2> QED
    BY <2>3, <2>4
<1>8. ASSUME VST!EndBlock PROVE VSTVoices' /\ VSTQueue'
  <2>1. /\ VST!compute(SampleFrames - previousDelta, playing, released, free)
        /\ UNCHANGED vstgate /\ processing
    BY <1>8 DEF VST!EndBlock
  <2>2. SampleFrames - previousDelta \in Nat
    BY <1>1, <2>1 DEF VST!VSTAssumption, VSTQueue
  <2>3. /\ VSTVoices' /\ count' = SampleFrames - previousDelta
        /\ rendered' = rendered + (SampleFrames - previousDelta)
    BY <1>1, <2>1, <2>2, RestVoices
  <2>4. VSTQueue'
    BY <1>1, <1>8, <2>3, EndBlockKeeps
  <2> QED
    BY <2>3, <2>4
<1>9. ASSUME UNCHANGED VST!vars PROVE VSTVoices' /\ VSTQueue'
  <2>1. UNCHANGED <<current, playing, released, free, vstgate, processing, previousDelta, count,
                    rendered, late, mixed>>
    BY <1>9 DEF VST!vars, VST!voices, VST!history
  <2>2. VSTVoices'
    BY <1>1, <2>1 DEF VSTVoices, VST!VoicesPartitioned, VST!PlayingVoices
  <2>3. VSTQueue'
    BY <1>1, <2>1 DEF VSTQueue, VST!FramesExact, VST!NotesOnTime
  <2> QED
    BY <2>2, <2>3
<1>10. VSTVoices' /\ VSTQueue'
  BY <1>2, <1>3, <1>4, <1>5, <1>6, <1>7, <1>8, <1>9 DEF VST!Next, VST!noteOn, VST!noteOff
<1> QED
  BY <1>10, VSTInvPartsNext

\* For any polyphony, block size and notes, the instrument keeps what Inv says: no voice is
\* lost or in two places through every theft, release and all-notes-off, and a block that
\* does not begin with notes of two blocks is rendered once, each note on its frame.
THEOREM VSTInvariance == VST!Spec => []VST!Inv
<1>1. VST!Init => VST!Inv
  BY VSTAssumption, VSTInit
<1>2. VST!Inv /\ [VST!Next]_(VST!vars) => VST!Inv'
  BY VSTAssumption, VSTNext
<1> QED
  BY <1>1, <1>2, PTL DEF VST!Spec

\* A voice is free or in use, never both, in one list and once, in both plug-ins.
THEOREM VoicesPartitionedHolds == Spec => []VoicesPartitioned
<1>1. Voices!Spec => []Voices!Inv
  BY VoicesAssumption, Voices!Invariance
<1>2. /\ ~(part = "voices") \/ Voices!Inv
      /\ ~(part = "vst") \/ VST!Inv
      => VoicesPartitioned
  BY DEF VoicesPartitioned, Voices!Inv, VST!Inv
<1> QED
  BY <1>1, <1>2, VSTInvariance, Parts, PTL

\* VST: a block renders as many frames as the host asked for, and a note starts on the frame
\* the host gave it, until notes inside a block and after it wait together.
THEOREM NotesOnTheirFrameHolds == Spec => []NotesOnTheirFrame
<1>1. ~(part = "vst") \/ VST!Inv => NotesOnTheirFrame
  BY DEF NotesOnTheirFrame, VST!Inv
<1> QED
  BY <1>1, VSTInvariance, Parts, PTL
=============================================================================
