--------------------------- MODULE LV2Synth_proofs ---------------------------
(***************************************************************************)
(* The voices of the LV2 plug-in, for any channels, notes, controls and    *)
(* number of voices.                                                       *)
(***************************************************************************)
EXTENDS LV2Synth, FiniteSetTheorems, SequenceTheorems, TLAPS

-----------------------------------------------------------------------------
(***************************************************************************)
(* Lists                                                                   *)
(***************************************************************************)
\* The positions of a list that are kept have the ranks 1, 2, ... in their order.
LEMMA Ranks ==
  ASSUME NEW n \in Nat, NEW P \in SUBSET (1..n)
  PROVE  /\ IsFiniteSet(P) /\ Cardinality(P) \in Nat
         /\ \A i \in P : Rank(P, i) \in 1..Cardinality(P)
         /\ \A i, j \in P : i < j => Rank(P, i) < Rank(P, j)
         /\ \A k \in 1..Cardinality(P) : \E i \in P : Rank(P, i) = k
<1> DEFINE Upto(i) == {j \in P : j <= i}
<1>1. IsFiniteSet(P) /\ Cardinality(P) \in Nat
  <2>1. IsFiniteSet(1..n)
    BY FS_Interval
  <2> QED
    BY <2>1, FS_Subset, FS_CardinalityType
<1>2. ASSUME NEW i \in P
      PROVE  /\ IsFiniteSet(Upto(i)) /\ Cardinality(Upto(i)) \in 1..Cardinality(P)
             /\ Rank(P, i) = Cardinality(Upto(i)) /\ Rank(P, i) \in 1..Cardinality(P)
  <2>1. Upto(i) \in SUBSET P /\ i \in Upto(i)
    OBVIOUS
  <2>2. /\ IsFiniteSet(Upto(i)) /\ Cardinality(Upto(i)) <= Cardinality(P)
        /\ Cardinality(Upto(i)) \in Nat /\ Cardinality(Upto(i)) # 0
    BY <1>1, <2>1, FS_Subset, FS_CardinalityType, FS_EmptySet
  <2> QED
    BY <1>1, <2>2 DEF Rank
<1>3. ASSUME NEW i \in P, NEW j \in P, i < j PROVE Rank(P, i) < Rank(P, j)
  <2>1. Upto(i) \in SUBSET Upto(j) /\ Upto(i) # Upto(j) /\ IsFiniteSet(Upto(j))
    <3>0. i \in Int /\ j \in Int /\ \A k \in P : k \in Int
      OBVIOUS
    <3>1. j \in Upto(j) /\ j \notin Upto(i)
      BY <1>3, <3>0
    <3>2. Upto(i) \in SUBSET Upto(j)
      <4>1. \A k \in P : k <= i => k <= j
        BY <1>3, <3>0
      <4> QED
        BY <4>1
    <3>3. IsFiniteSet(Upto(j))
      BY <1>2
    <3> HIDE DEF Upto
    <3>4. Upto(i) # Upto(j)
      BY <3>1
    <3> QED
      BY <3>2, <3>3, <3>4
  <2> HIDE DEF Upto
  <2>2. Cardinality(Upto(i)) <= Cardinality(Upto(j)) /\ Cardinality(Upto(i)) # Cardinality(Upto(j))
    BY <2>1, FS_Subset
  <2>3. /\ Cardinality(Upto(i)) \in Nat /\ Cardinality(Upto(j)) \in Nat
        /\ Rank(P, i) = Cardinality(Upto(i)) /\ Rank(P, j) = Cardinality(Upto(j))
    BY <1>1, <1>2
  <2> QED
    BY <2>2, <2>3
<1> DEFINE f == [i \in P |-> Rank(P, i)]
<1>4. f \in Injection(P, 1..Cardinality(P))
  <2>1. f \in [P -> 1..Cardinality(P)]
    BY <1>2
  <2>2. ASSUME NEW i \in P, NEW j \in P, f[i] = f[j] PROVE i = j
    <3>0. Rank(P, i) = Rank(P, j)
      BY <2>2
    <3>1. Rank(P, i) \in 1..Cardinality(P)
      BY <1>2
    <3>2. ~(i < j)
      BY <1>1, <1>3, <3>0, <3>1
    <3>3. ~(j < i)
      BY <1>1, <1>3, <3>0, <3>1
    <3>4. i \in Int /\ j \in Int
      OBVIOUS
    <3> QED
      BY <3>2, <3>3, <3>4
  <2> QED
    BY <2>1, <2>2 DEF Injection, IsInjective
<1>5. f \in Surjection(P, 1..Cardinality(P))
  <2>1. IsFiniteSet(1..Cardinality(P)) /\ Cardinality(1..Cardinality(P)) = Cardinality(P)
    BY <1>1, FS_Interval
  <2> QED
    BY <1>4, <2>1, FS_Injection
<1>6. \A k \in 1..Cardinality(P) : \E i \in P : Rank(P, i) = k
  BY <1>5 DEF Surjection
<1> QED
  BY <1>1, <1>2, <1>3, <1>6

\* What Keep returns: the elements of the list that are in the set, each as often as before.
LEMMA KeepLists ==
  ASSUME NEW A, NEW s \in Seq(A), NEW S
  PROVE  /\ Keep(s, S) \in Seq(A)
         /\ ToSet(Keep(s, S)) = ToSet(s) \cap S
         /\ IsInjective(s) => IsInjective(Keep(s, S))
<1> DEFINE P == {i \in DOMAIN s : s[i] \in S}
           Nth(k) == CHOOSE i \in P : Rank(P, i) = k
<1>1. Len(s) \in Nat /\ DOMAIN s = 1..Len(s) /\ P \in SUBSET (1..Len(s))
  OBVIOUS
<1>2. /\ Cardinality(P) \in Nat
      /\ \A i \in P : Rank(P, i) \in 1..Cardinality(P)
      /\ \A k \in 1..Cardinality(P) : \E i \in P : Rank(P, i) = k
      /\ \A i, j \in P : i < j => Rank(P, i) < Rank(P, j)
  BY <1>1, Ranks
<1>3. ASSUME NEW k \in 1..Cardinality(P) PROVE Nth(k) \in P /\ Rank(P, Nth(k)) = k
  BY <1>2
<1>4. ASSUME NEW i \in P PROVE Nth(Rank(P, i)) = i
  <2>1. Rank(P, i) \in 1..Cardinality(P)
    BY <1>2
  <2>2. Nth(Rank(P, i)) \in P /\ Rank(P, Nth(Rank(P, i))) = Rank(P, i)
    BY <1>3, <2>1
  <2> HIDE DEF Nth
  <2> QED
    BY <1>1, <1>2, <2>1, <2>2
<1>5. Keep(s, S) = [k \in 1..Cardinality(P) |-> s[Nth(k)]]
  BY DEF Keep
<1> HIDE DEF Nth
<1>6. \A k \in 1..Cardinality(P) : Nth(k) \in P /\ s[Nth(k)] \in A /\ s[Nth(k)] \in S
  BY <1>1, <1>3
<1>7. Keep(s, S) \in Seq(A) /\ DOMAIN Keep(s, S) = 1..Cardinality(P)
  BY <1>2, <1>5, <1>6
<1>8. ToSet(Keep(s, S)) \subseteq ToSet(s) \cap S
  BY <1>1, <1>5, <1>6, <1>7 DEF ToSet
<1>9. ASSUME NEW x \in ToSet(s) \cap S PROVE x \in ToSet(Keep(s, S))
  <2>1. PICK i \in P : s[i] = x
    BY DEF ToSet
  <2>2. Rank(P, i) \in 1..Cardinality(P) /\ Keep(s, S)[Rank(P, i)] = x
    BY <1>2, <1>4, <1>5, <2>1
  <2> QED
    BY <1>7, <2>2 DEF ToSet
<1>10. ASSUME IsInjective(s) PROVE IsInjective(Keep(s, S))
  <2> SUFFICES ASSUME NEW j \in 1..Cardinality(P), NEW k \in 1..Cardinality(P),
                      s[Nth(j)] = s[Nth(k)]
               PROVE  j = k
    BY <1>5, <1>7 DEF IsInjective
  <2>1. Nth(j) = Nth(k)
    BY <1>1, <1>6, <1>10 DEF IsInjective
  <2> QED
    BY <1>3, <2>1
<1> QED
  BY <1>7, <1>8, <1>9, <1>10

\* A list in which nothing is twice is as long as its set is large.
LEMMA LengthIsSize ==
  ASSUME NEW A, NEW s \in Seq(A), IsInjective(s)
  PROVE  IsFiniteSet(ToSet(s)) /\ Cardinality(ToSet(s)) = Len(s) /\ Len(s) \in Nat
<1>1. Len(s) \in Nat /\ DOMAIN s = 1..Len(s) /\ s \in [1..Len(s) -> ToSet(s)]
  BY DEF ToSet
<1>2. s \in Bijection(1..Len(s), ToSet(s))
  BY <1>1 DEF Bijection, Injection, Surjection, IsInjective, ToSet
<1>3. ExistsBijection(1..Len(s), ToSet(s))
  BY <1>2 DEF ExistsBijection
<1> QED
  BY <1>1, <1>3, FS_CountingElements, FS_NatBijection

\* Nothing is twice in two lists one after the other when nothing is twice in each and
\* they have nothing in common.
LEMMA Joined ==
  ASSUME NEW A, NEW s \in Seq(A), NEW t \in Seq(A)
  PROVE  /\ s \o t \in Seq(A) /\ ToSet(s \o t) = ToSet(s) \cup ToSet(t)
         /\ IsInjective(s \o t) <=> /\ IsInjective(s) /\ IsInjective(t)
                                    /\ ToSet(s) \cap ToSet(t) = {}
<1> DEFINE u == s \o t
<1>1. /\ Len(s) \in Nat /\ Len(t) \in Nat
      /\ DOMAIN s = 1..Len(s) /\ DOMAIN t = 1..Len(t) /\ DOMAIN u = 1..(Len(s) + Len(t))
      /\ \A i \in 1..Len(s) : u[i] = s[i]
      /\ \A i \in 1..Len(t) : u[Len(s) + i] = t[i]
  OBVIOUS
<1>2. \A i \in DOMAIN u : (i \in DOMAIN s) \/ (i - Len(s) \in DOMAIN t /\ u[i] = t[i - Len(s)])
  BY <1>1
<1>3. ToSet(u) = ToSet(s) \cup ToSet(t)
  <2>1. ToSet(u) \subseteq ToSet(s) \cup ToSet(t)
    BY <1>1, <1>2 DEF ToSet
  <2>2. ToSet(s) \subseteq ToSet(u)
    BY <1>1 DEF ToSet
  <2>3. ASSUME NEW x \in ToSet(t) PROVE x \in ToSet(u)
    <3>1. PICK i \in DOMAIN t : t[i] = x
      BY DEF ToSet
    <3>2. Len(s) + i \in DOMAIN u /\ u[Len(s) + i] = x
      BY <1>1, <3>1
    <3> QED
      BY <3>2 DEF ToSet
  <2> QED
    BY <2>1, <2>2, <2>3
<1>4. ASSUME IsInjective(u)
      PROVE  IsInjective(s) /\ IsInjective(t) /\ ToSet(s) \cap ToSet(t) = {}
  <2>1. IsInjective(s)
    BY <1>1, <1>4 DEF IsInjective
  <2>2. ASSUME NEW i \in DOMAIN t, NEW j \in DOMAIN t, t[i] = t[j] PROVE i = j
    <3>1. Len(s) + i \in DOMAIN u /\ Len(s) + j \in DOMAIN u /\ u[Len(s) + i] = u[Len(s) + j]
      BY <1>1, <2>2
    <3> QED
      BY <1>1, <1>4, <3>1, SMTT(30) DEF IsInjective
  <2>3. ASSUME NEW i \in DOMAIN s, NEW j \in DOMAIN t, s[i] = t[j] PROVE FALSE
    <3>1. i \in DOMAIN u /\ Len(s) + j \in DOMAIN u /\ u[i] = u[Len(s) + j] /\ i # Len(s) + j
      BY <1>1, <2>3
    <3> QED
      BY <1>4, <3>1 DEF IsInjective
  <2> QED
    BY <2>1, <2>2, <2>3 DEF ToSet, IsInjective
<1>5. ASSUME IsInjective(s), IsInjective(t), ToSet(s) \cap ToSet(t) = {}
      PROVE  IsInjective(u)
  <2> SUFFICES ASSUME NEW i \in DOMAIN u, NEW j \in DOMAIN u, u[i] = u[j] PROVE i = j
    BY DEF IsInjective
  <2>1. \A k \in DOMAIN s : u[k] \in ToSet(s)
    BY <1>1 DEF ToSet
  <2>2. \A k \in DOMAIN t : t[k] \in ToSet(t)
    BY DEF ToSet
  <2>3. CASE i \in DOMAIN s /\ j \in DOMAIN s
    BY <1>1, <1>5, <2>3 DEF IsInjective
  <2>4. CASE i \notin DOMAIN s /\ j \notin DOMAIN s
    BY <1>1, <1>2, <1>5, <2>4 DEF IsInjective
  <2>5. CASE i \in DOMAIN s /\ j \notin DOMAIN s
    BY <1>2, <1>5, <2>1, <2>2, <2>5
  <2>6. CASE i \notin DOMAIN s /\ j \in DOMAIN s
    BY <1>2, <1>5, <2>1, <2>2, <2>6
  <2> QED
    BY <2>3, <2>4, <2>5, <2>6
<1> QED
  BY <1>3, <1>4, <1>5

\* Appending an element, taking the first one.
LEMMA Ends ==
  ASSUME NEW A, NEW s \in Seq(A), NEW x \in A
  PROVE  /\ Append(s, x) \in Seq(A) /\ ToSet(Append(s, x)) = ToSet(s) \cup {x}
         /\ IsInjective(s) /\ x \notin ToSet(s) => IsInjective(Append(s, x))
         /\ s # <<>> => /\ Head(s) \in ToSet(s) /\ Tail(s) \in Seq(A)
                        /\ ToSet(s) = {Head(s)} \cup ToSet(Tail(s))
                        /\ Len(Tail(s)) = Len(s) - 1
                        /\ IsInjective(s) => /\ IsInjective(Tail(s))
                                             /\ Head(s) \notin ToSet(Tail(s))
<1>1. Len(s) \in Nat /\ DOMAIN s = 1..Len(s)
  OBVIOUS
<1>2. /\ Append(s, x) \in Seq(A) /\ DOMAIN Append(s, x) = 1..(Len(s) + 1)
      /\ \A i \in 1..Len(s) : Append(s, x)[i] = s[i]
      /\ Append(s, x)[Len(s) + 1] = x
  OBVIOUS
<1>3. ToSet(Append(s, x)) = ToSet(s) \cup {x}
  <2>1. \A i \in DOMAIN Append(s, x) : i \in DOMAIN s \/ i = Len(s) + 1
    BY <1>1, <1>2
  <2>2. \A i \in DOMAIN s : i \in DOMAIN Append(s, x)
    BY <1>1, <1>2
  <2>3. Len(s) + 1 \in DOMAIN Append(s, x)
    BY <1>1, <1>2
  <2>4. ToSet(Append(s, x)) \subseteq ToSet(s) \cup {x}
    BY <1>1, <1>2, <2>1 DEF ToSet
  <2>5. ToSet(s) \subseteq ToSet(Append(s, x))
    BY <1>1, <1>2, <2>2 DEF ToSet
  <2>6. x \in ToSet(Append(s, x))
    BY <1>2, <2>3 DEF ToSet
  <2> QED
    BY <2>4, <2>5, <2>6
<1>4. ASSUME IsInjective(s), x \notin ToSet(s) PROVE IsInjective(Append(s, x))
  BY <1>1, <1>2, <1>4 DEF IsInjective, ToSet
<1>5. ASSUME s # <<>>
      PROVE  /\ Head(s) \in ToSet(s) /\ Tail(s) \in Seq(A)
             /\ ToSet(s) = {Head(s)} \cup ToSet(Tail(s))
             /\ Len(Tail(s)) = Len(s) - 1
             /\ IsInjective(s) => IsInjective(Tail(s)) /\ Head(s) \notin ToSet(Tail(s))
  <2>1. /\ Len(s) > 0 /\ Head(s) = s[1] /\ Tail(s) \in Seq(A) /\ Len(Tail(s)) = Len(s) - 1
        /\ DOMAIN Tail(s) = 1..(Len(s) - 1)
        /\ \A i \in 1..(Len(s) - 1) : Tail(s)[i] = s[i + 1]
    BY <1>5
  <2>2. Head(s) \in ToSet(s)
    BY <1>1, <2>1 DEF ToSet
  <2>3. ToSet(Tail(s)) \subseteq ToSet(s)
    <3> SUFFICES ASSUME NEW i \in DOMAIN Tail(s) PROVE Tail(s)[i] \in ToSet(s)
      BY DEF ToSet
    <3>1. i + 1 \in DOMAIN s /\ Tail(s)[i] = s[i + 1]
      BY <1>1, <2>1
    <3> QED
      BY <3>1 DEF ToSet
  <2>4. ASSUME NEW i \in DOMAIN s, i # 1 PROVE s[i] \in ToSet(Tail(s))
    <3>1. i - 1 \in DOMAIN Tail(s) /\ Tail(s)[i - 1] = s[i]
      BY <1>1, <2>1, <2>4
    <3> QED
      BY <3>1 DEF ToSet
  <2>5. ToSet(s) = {Head(s)} \cup ToSet(Tail(s))
    <3>1. ToSet(s) \subseteq {Head(s)} \cup ToSet(Tail(s))
      BY <2>1, <2>4 DEF ToSet
    <3> QED
      BY <2>2, <2>3, <3>1
  <2>6. ASSUME IsInjective(s) PROVE IsInjective(Tail(s)) /\ Head(s) \notin ToSet(Tail(s))
    <3>1. ASSUME NEW i \in DOMAIN Tail(s), NEW j \in DOMAIN Tail(s), Tail(s)[i] = Tail(s)[j]
          PROVE  i = j
      <4>1. i + 1 \in DOMAIN s /\ j + 1 \in DOMAIN s /\ s[i + 1] = s[j + 1]
        BY <1>1, <2>1, <3>1
      <4> QED
        BY <2>1, <2>6, <4>1 DEF IsInjective
    <3>2. ASSUME NEW i \in DOMAIN Tail(s), Tail(s)[i] = Head(s) PROVE FALSE
      <4>1. i + 1 \in DOMAIN s /\ 1 \in DOMAIN s /\ s[i + 1] = s[1] /\ i + 1 # 1
        BY <1>1, <2>1, <3>2
      <4> QED
        BY <2>6, <4>1 DEF IsInjective
    <3> QED
      BY <3>1, <3>2 DEF IsInjective, ToSet
  <2> QED
    BY <2>1, <2>2, <2>5, <2>6
<1> QED
  BY <1>2, <1>3, <1>4, <1>5

\* The list of the first n voices.
LEMMA FirstOnes ==
  ASSUME LV2Assumption, NEW n \in 0..NVOICES
  PROVE  /\ FirstVoices(n) \in Seq(Voices) /\ ToSet(FirstVoices(n)) = 0..(n - 1)
         /\ IsInjective(FirstVoices(n)) /\ Len(FirstVoices(n)) = n
<1>1. NVOICES \in Nat /\ n \in Nat
  BY DEF LV2Assumption
<1>2. /\ FirstVoices(n) \in [1..n -> Voices] /\ DOMAIN FirstVoices(n) = 1..n
      /\ \A i \in 1..n : FirstVoices(n)[i] = i - 1
  BY <1>1 DEF FirstVoices, Voices
<1>3. FirstVoices(n) \in Seq(Voices) /\ Len(FirstVoices(n)) = n
  BY <1>1, <1>2
<1>4. ASSUME NEW v \in 0..(n - 1) PROVE v \in ToSet(FirstVoices(n))
  <2>1. v + 1 \in 1..n /\ FirstVoices(n)[v + 1] = v
    BY <1>1, <1>2
  <2> QED
    BY <1>2, <2>1 DEF ToSet
<1>5. ToSet(FirstVoices(n)) \subseteq 0..(n - 1)
  BY <1>1, <1>2 DEF ToSet
<1>6. IsInjective(FirstVoices(n))
  BY <1>1, <1>2 DEF IsInjective
<1> QED
  BY <1>3, <1>4, <1>5, <1>6

-----------------------------------------------------------------------------
(***************************************************************************)
(* The two lists of voices                                                 *)
(***************************************************************************)
\* What Inv says of the lists, as sets.
Listed ==
    /\ IsInjective(free_voices) /\ IsInjective(used_voices)
    /\ ToSet(free_voices) \cap ToSet(used_voices) = {}
    /\ ToSet(free_voices) \cup ToSet(used_voices) = 0..(nvoices - 1)
    /\ n_free = Len(free_voices) /\ n_used = Len(used_voices)
    /\ n_queued = Cardinality(queued) /\ queued \subseteq ToSet(used_voices)

\* The two lists one after the other hold every voice once.
LEMMA Partition ==
  ASSUME free_voices \in Seq(Voices), used_voices \in Seq(Voices)
  PROVE  VoicesPartitioned <=> Listed
<1>1. /\ ToSet(free_voices \o used_voices) = ToSet(free_voices) \cup ToSet(used_voices)
      /\ IsInjective(free_voices \o used_voices)
         <=> /\ IsInjective(free_voices) /\ IsInjective(used_voices)
             /\ ToSet(free_voices) \cap ToSet(used_voices) = {}
  BY Joined
<1> QED
  BY <1>1 DEF VoicesPartitioned, Listed

\* The same after a step.
LEMMA PartitionNext ==
  ASSUME free_voices' \in Seq(Voices), used_voices' \in Seq(Voices)
  PROVE  VoicesPartitioned' <=> Listed'
<1>1. /\ ToSet(free_voices' \o used_voices') = ToSet(free_voices') \cup ToSet(used_voices')
      /\ IsInjective(free_voices' \o used_voices')
         <=> /\ IsInjective(free_voices') /\ IsInjective(used_voices')
             /\ ToSet(free_voices') \cap ToSet(used_voices') = {}
  BY Joined
<1> QED
  BY <1>1 DEF VoicesPartitioned, Listed

\* The part of Inv about voices, which the pitch and the controllers leave alone.
VoicesInv ==
    /\ notes \in [Keys -> Voices \cup {-1}]
    /\ free_voices \in Seq(Voices) /\ used_voices \in Seq(Voices)
    /\ note_info \in [Voices -> Keys]
    /\ queued \subseteq Voices /\ fresh \subseteq Voices
    /\ gate \in [Voices -> {0, 1}] /\ seen \in [Voices -> {0, 1}]
    /\ Listed /\ NotesLeadToVoices /\ GatesFollowUse /\ Retriggered
    /\ \A v \in Voices : seen[v] = 1 => lastgate[v] = 1

\* The sizes that the counters count.
LEMMA Sizes ==
  ASSUME LV2Assumption, VoicesInv
  PROVE  /\ Cardinality(ToSet(used_voices)) = Len(used_voices) /\ Len(used_voices) \in Nat
         /\ IsFiniteSet(ToSet(used_voices)) /\ Len(free_voices) \in Nat
         /\ IsFiniteSet(queued) /\ n_queued \in Nat
         /\ ToSet(used_voices) \subseteq Voices /\ ToSet(free_voices) \subseteq Voices
<1>1. /\ Cardinality(ToSet(used_voices)) = Len(used_voices) /\ Len(used_voices) \in Nat
      /\ IsFiniteSet(ToSet(used_voices)) /\ Len(free_voices) \in Nat
  BY LengthIsSize DEF VoicesInv, Listed
<1>2. IsFiniteSet(queued) /\ n_queued \in Nat
  BY <1>1, FS_Subset, FS_CardinalityType DEF VoicesInv, Listed
<1>3. ToSet(used_voices) \subseteq Voices /\ ToSet(free_voices) \subseteq Voices
  BY DEF VoicesInv, ToSet
<1> QED
  BY <1>1, <1>2, <1>3

\* A list kept without an element, or without the elements of a set, and its length.
LEMMA Fewer ==
  ASSUME LV2Assumption, NEW s \in Seq(Voices), IsInjective(s), NEW V
  PROVE  /\ Keep(s, Voices \ V) \in Seq(Voices) /\ IsInjective(Keep(s, Voices \ V))
         /\ ToSet(Keep(s, Voices \ V)) = ToSet(s) \ V
         /\ Len(Keep(s, Voices \ V)) = Len(s) - Cardinality(ToSet(s) \cap V)
         /\ IsFiniteSet(ToSet(s) \cap V) /\ Cardinality(ToSet(s) \cap V) \in Nat
<1> DEFINE t == Keep(s, Voices \ V)
<1>1. ToSet(s) \subseteq Voices
  BY DEF ToSet
<1>2. t \in Seq(Voices) /\ IsInjective(t) /\ ToSet(t) = ToSet(s) \ V
  BY <1>1, KeepLists
<1>3. /\ Len(s) = Cardinality(ToSet(s)) /\ Len(t) = Cardinality(ToSet(t))
      /\ IsFiniteSet(ToSet(s)) /\ IsFiniteSet(ToSet(t)) /\ Len(t) \in Nat /\ Len(s) \in Nat
  BY <1>2, LengthIsSize
<1>4. IsFiniteSet(ToSet(s) \cap V) /\ Cardinality(ToSet(s) \cap V) \in Nat
  BY <1>3, FS_Intersection, FS_CardinalityType
<1>5. Cardinality(ToSet(s)) = Cardinality(ToSet(t)) + Cardinality(ToSet(s) \cap V)
  <2>1. ToSet(s) = ToSet(t) \cup (ToSet(s) \cap V) /\ ToSet(t) \cap (ToSet(s) \cap V) = {}
    BY <1>2
  <2> HIDE DEF t
  <2>2. Cardinality({}) = 0
    BY FS_EmptySet
  <2>3. /\ Cardinality(ToSet(t) \cup (ToSet(s) \cap V))
           = Cardinality(ToSet(t)) + Cardinality(ToSet(s) \cap V)
             - Cardinality(ToSet(t) \cap (ToSet(s) \cap V))
        /\ Cardinality(ToSet(t)) \in Nat
    BY <1>3, <1>4, FS_Union, FS_CardinalityType
  <2>4. Cardinality(ToSet(s)) = Cardinality(ToSet(t) \cup (ToSet(s) \cap V))
    BY <2>1
  <2>5. Cardinality(ToSet(t) \cap (ToSet(s) \cap V)) = 0
    BY <2>1, <2>2
  <2> QED
    BY <1>4, <2>3, <2>4, <2>5
<1> HIDE DEF t
<1>6. Len(t) = Len(s) - Cardinality(ToSet(s) \cap V)
  BY <1>3, <1>4, <1>5
<1> QED
  BY <1>2, <1>4, <1>6 DEF t

\* The size of what is left of a set.
LEMMA Minus ==
  ASSUME NEW S, IsFiniteSet(S), NEW V
  PROVE  /\ IsFiniteSet(S \ V) /\ IsFiniteSet(S \cap V)
         /\ Cardinality(S \ V) = Cardinality(S) - Cardinality(S \cap V)
         /\ Cardinality(S \ V) \in Nat /\ Cardinality(S \cap V) \in Nat
<1>1. IsFiniteSet(S \ V) /\ IsFiniteSet(S \cap V)
  BY FS_Subset, FS_Intersection
<1>2. /\ Cardinality(S \ V) \in Nat /\ Cardinality(S \cap V) \in Nat
      /\ Cardinality((S \ V) \cup (S \cap V))
         = Cardinality(S \ V) + Cardinality(S \cap V) - Cardinality((S \ V) \cap (S \cap V))
  BY <1>1, FS_CardinalityType, FS_Union
<1>3. (S \ V) \cup (S \cap V) = S /\ (S \ V) \cap (S \cap V) = {}
  OBVIOUS
<1>4. Cardinality((S \ V) \cup (S \cap V)) = Cardinality(S)
  BY <1>3
<1>5. Cardinality((S \ V) \cap (S \cap V)) = 0
  BY <1>3, FS_EmptySet
<1> QED
  BY <1>1, <1>2, <1>4, <1>5

\* Voices given back (all_notes_off of a channel, queued_notes_off) leave the list of the
\* used ones, the queue and the entries of their notes, and their gates are closed.
LEMMA GiveBackKeeps ==
  ASSUME LV2Assumption, VoicesInv, NEW off \in Seq(Voices), IsInjective(off),
         ToSet(off) \subseteq ToSet(used_voices), GiveBack(off),
         UNCHANGED <<nvoices, note_info, lastgate, seen, fresh>>
  PROVE  VoicesInv' /\ ToSet(used_voices') = ToSet(used_voices) \ ToSet(off)
<1> DEFINE V == ToSet(off)
<1>1. /\ free_voices \in Seq(Voices) /\ used_voices \in Seq(Voices) /\ queued \subseteq Voices
      /\ Listed /\ NotesLeadToVoices /\ GatesFollowUse
      /\ notes \in [Keys -> Voices \cup {-1}] /\ gate \in [Voices -> {0, 1}]
  BY DEF VoicesInv
<1>2. /\ free_voices' = free_voices \o off /\ n_free' = n_free + Len(off)
      /\ gate' = voice_off(V) /\ notes' = Forget(V) /\ queued' = queued \ V
      /\ n_queued' = n_queued - Cardinality(queued \cap V)
      /\ used_voices' = Keep(used_voices, Voices \ V)
      /\ n_used' = n_used - Cardinality(ToSet(used_voices) \cap V)
  BY DEF GiveBack
<1>3. /\ free_voices' \in Seq(Voices) /\ IsInjective(free_voices')
      /\ ToSet(free_voices') = ToSet(free_voices) \cup V
      /\ n_free' = Len(free_voices')
  <2>1. ToSet(free_voices) \cap V = {} /\ IsInjective(free_voices) /\ n_free = Len(free_voices)
    BY <1>1 DEF Listed
  <2>2. Len(free_voices \o off) = Len(free_voices) + Len(off)
    BY <1>1
  <2> HIDE DEF V
  <2> QED
    BY <1>1, <1>2, <2>1, <2>2, Joined DEF V
<1>4. /\ used_voices' \in Seq(Voices) /\ IsInjective(used_voices')
      /\ ToSet(used_voices') = ToSet(used_voices) \ V
      /\ n_used' = Len(used_voices')
  BY <1>1, <1>2, Fewer DEF Listed
<1>5. queued' \subseteq ToSet(used_voices') /\ n_queued' = Cardinality(queued')
  <2>1. queued \subseteq ToSet(used_voices) /\ n_queued = Cardinality(queued)
    BY <1>1 DEF Listed
  <2>2. Cardinality(queued \ V) = Cardinality(queued) - Cardinality(queued \cap V)
    BY Sizes, Minus
  <2> QED
    BY <1>2, <1>4, <2>1, <2>2
<1>6. Listed'
  BY <1>1, <1>3, <1>4, <1>5 DEF Listed
<1>7. notes' \in [Keys -> Voices \cup {-1}] /\ queued' \subseteq Voices
      /\ gate' \in [Voices -> {0, 1}]
  BY <1>1, <1>2 DEF Forget, voice_off
<1>8. NotesLeadToVoices'
  <2> SUFFICES ASSUME NEW k \in Keys, notes'[k] >= 0
               PROVE  /\ notes'[k] \in ToSet(used_voices') \ queued'
                      /\ note_info[notes'[k]] = k
    BY DEF NotesLeadToVoices
  <2>1. notes'[k] = notes[k] /\ ~(\E v \in V : note_info[v] = k)
    BY <1>2 DEF Forget
  <2>2. notes[k] \in ToSet(used_voices) \ queued /\ note_info[notes[k]] = k
    BY <1>1, <2>1 DEF NotesLeadToVoices
  <2> QED
    BY <1>2, <1>4, <2>1, <2>2
<1>9. GatesFollowUse'
  <2>1. ASSUME NEW v \in Voices PROVE gate'[v] = 1 <=> v \in ToSet(used_voices')
    <3>1. gate'[v] = IF v \in V THEN 0 ELSE gate[v]
      BY <1>2 DEF voice_off
    <3>2. gate[v] = 1 <=> v \in ToSet(used_voices)
      BY <1>1 DEF GatesFollowUse
    <3> QED
      BY <1>4, <3>1, <3>2
  <2> QED
    BY <2>1 DEF GatesFollowUse
<1>10. (fresh \subseteq Voices /\ seen \in [Voices -> {0, 1}] /\ Retriggered
        /\ note_info \in [Voices -> Keys] /\ \A v \in Voices : seen[v] = 1 => lastgate[v] = 1)'
  BY DEF VoicesInv, Retriggered
<1> QED
  BY <1>3, <1>4, <1>6, <1>7, <1>8, <1>9, <1>10 DEF VoicesInv

\* The note-offs that were queued are done at the start of the next block.
LEMMA QueuedOff ==
  ASSUME LV2Assumption, VoicesInv, queued_notes_off,
         UNCHANGED <<nvoices, note_info, lastgate, seen, fresh>>
  PROVE  VoicesInv' /\ ToSet(used_voices') \subseteq ToSet(used_voices)
<1>1. NVOICES \in 0..NVOICES /\ queued \subseteq ToSet(used_voices)
  BY DEF LV2Assumption, VoicesInv, Listed
<1>2. FirstVoices(NVOICES) \in Seq(Voices) /\ IsInjective(FirstVoices(NVOICES))
  BY <1>1, FirstOnes
<1>3. /\ Ascending(queued) \in Seq(Voices) /\ IsInjective(Ascending(queued))
      /\ ToSet(Ascending(queued)) \subseteq queued
  BY <1>2, KeepLists DEF Ascending
<1>4. GiveBack(Ascending(queued)) /\ ToSet(Ascending(queued)) \subseteq ToSet(used_voices)
  BY <1>1, <1>3 DEF queued_notes_off
<1> QED
  BY <1>3, <1>4, GiveBackKeeps

\* All voices of a channel are given back.
LEMMA ChannelOff ==
  ASSUME LV2Assumption, VoicesInv, NEW ch \in Channels, GiveBack(Keep(used_voices, Running(ch))),
         UNCHANGED <<nvoices, note_info, lastgate, seen, fresh>>
  PROVE  VoicesInv' /\ ToSet(used_voices') = ToSet(used_voices) \ Running(ch)
<1>1. used_voices \in Seq(Voices) /\ IsInjective(used_voices)
  BY DEF VoicesInv, Listed
<1>2. /\ Keep(used_voices, Running(ch)) \in Seq(Voices)
      /\ IsInjective(Keep(used_voices, Running(ch)))
      /\ ToSet(Keep(used_voices, Running(ch))) = ToSet(used_voices) \cap Running(ch)
  BY <1>1, KeepLists
<1> QED
  BY <1>2, GiveBackKeeps

-----------------------------------------------------------------------------
(***************************************************************************)
(* Notes                                                                   *)
(***************************************************************************)
\* A voice that is turned on has its gate up, and it is heard as new (voice_on).
LEMMA TurnedOn ==
  ASSUME VoicesInv, NEW v \in Voices, NEW note, NEW ch, voice_on(v, note, ch), UNCHANGED lastgate
  PROVE  /\ gate' \in [Voices -> {0, 1}] /\ seen' \in [Voices -> {0, 1}]
         /\ fresh' \subseteq Voices /\ Retriggered'
         /\ \A w \in Voices : seen'[w] = 1 => lastgate'[w] = 1
         /\ \A w \in Voices : gate'[w] = 1 <=> (w = v \/ w \in ToSet(used_voices))
<1>1. /\ gate' = [gate EXCEPT ![v] = 1] /\ fresh' = fresh \cup {v}
      /\ seen' = [seen EXCEPT ![v] = IF lastgate[v] = 1 THEN 0 ELSE @]
  BY DEF voice_on
<1>2. /\ gate \in [Voices -> {0, 1}] /\ seen \in [Voices -> {0, 1}] /\ fresh \subseteq Voices
      /\ \A w \in fresh : seen[w] = 0
      /\ \A w \in Voices : seen[w] = 1 => lastgate[w] = 1
      /\ \A w \in Voices : gate[w] = 1 <=> w \in ToSet(used_voices)
  BY DEF VoicesInv, Retriggered, GatesFollowUse
<1>3. \A w \in fresh' : seen'[w] = 0
  BY <1>1, <1>2
<1> QED
  BY <1>1, <1>2, <1>3 DEF Retriggered

\* The key is pressed again while its voice is in use: the voice moves to the end of the
\* list of used ones.
LEMMA RetriggerKeeps ==
  ASSUME LV2Assumption, VoicesInv, NEW ch \in Channels, NEW note \in Notes,
         Retrigger(ch, note), UNCHANGED <<lastgate, nvoices>>
  PROVE  VoicesInv' /\ ToSet(used_voices') = ToSet(used_voices)
<1> DEFINE v == notes[<<ch, note>>]
           rest == Keep(used_voices, Voices \ {v})
<1>1. <<ch, note>> \in Keys /\ v >= 0 /\ voice_on(v, note, ch)
  BY DEF Retrigger, Keys
<1>2. v \in ToSet(used_voices) /\ v \in Voices
  BY <1>1, Sizes DEF VoicesInv, NotesLeadToVoices
<1>3. used_voices' = Append(rest, v)
  BY <1>2 DEF Retrigger, Without
<1>4. used_voices \in Seq(Voices) /\ IsInjective(used_voices)
  BY DEF VoicesInv, Listed
<1>5. /\ rest \in Seq(Voices) /\ IsInjective(rest) /\ ToSet(rest) = ToSet(used_voices) \ {v}
      /\ Len(rest) = Len(used_voices) - Cardinality(ToSet(used_voices) \cap {v})
  BY <1>4, Fewer
<1>6. Cardinality(ToSet(used_voices) \cap {v}) = 1
  <2>1. ToSet(used_voices) \cap {v} = {v}
    BY <1>2
  <2> QED
    BY <2>1, FS_Singleton
<1> HIDE DEF rest, v
<1>7. /\ used_voices' \in Seq(Voices) /\ IsInjective(used_voices')
      /\ ToSet(used_voices') = ToSet(used_voices)
  <2>1. v \in Voices /\ v \notin ToSet(rest) /\ ToSet(rest) \cup {v} = ToSet(used_voices)
    BY <1>2, <1>5
  <2>2. /\ Append(rest, v) \in Seq(Voices) /\ IsInjective(Append(rest, v))
        /\ ToSet(Append(rest, v)) = ToSet(rest) \cup {v}
    BY <1>5, <2>1, Ends
  <2> QED
    BY <1>3, <2>1, <2>2
<1>8. Len(used_voices') = Len(used_voices)
  BY <1>3, <1>4, <1>5, <1>6
<1>9. UNCHANGED <<notes, free_voices, n_free, n_used, note_info, queued, n_queued>>
  BY DEF Retrigger
<1>10. Listed'
  BY <1>7, <1>8, <1>9 DEF Listed, VoicesInv
<1>11. NotesLeadToVoices'
  BY <1>7, <1>9 DEF NotesLeadToVoices, VoicesInv
<1>12. /\ gate' \in [Voices -> {0, 1}] /\ seen' \in [Voices -> {0, 1}]
       /\ fresh' \subseteq Voices /\ Retriggered'
       /\ \A w \in Voices : seen'[w] = 1 => lastgate'[w] = 1
       /\ \A w \in Voices : gate'[w] = 1 <=> (w = v \/ w \in ToSet(used_voices))
  BY <1>1, <1>2, TurnedOn
<1>13. GatesFollowUse'
  BY <1>2, <1>7, <1>12 DEF GatesFollowUse
<1> QED
  BY <1>7, <1>9, <1>10, <1>11, <1>12, <1>13 DEF VoicesInv

\* A free voice is taken.
LEMMA TakeFreeKeeps ==
  ASSUME LV2Assumption, VoicesInv, NEW ch \in Channels, NEW note \in Notes,
         TakeFree(ch, note), UNCHANGED <<lastgate, nvoices>>
  PROVE  VoicesInv' /\ ToSet(used_voices') = ToSet(used_voices) \cup {Head(free_voices)}
<1> DEFINE v == Head(free_voices)
<1>1. /\ <<ch, note>> \in Keys /\ notes[<<ch, note>>] < 0 /\ n_free > 0
      /\ free_voices' = Tail(free_voices) /\ n_free' = n_free - 1
      /\ used_voices' = Append(used_voices, v) /\ n_used' = n_used + 1
      /\ note_info' = [note_info EXCEPT ![v] = <<ch, note>>]
      /\ voice_on(v, note, ch)
      /\ notes' = [notes EXCEPT ![<<ch, note>>] = v]
      /\ queued' = queued /\ n_queued' = n_queued
  BY DEF TakeFree, Keys
<1>2. /\ free_voices \in Seq(Voices) /\ used_voices \in Seq(Voices) /\ queued \subseteq Voices
      /\ notes \in [Keys -> Voices \cup {-1}] /\ note_info \in [Voices -> Keys]
      /\ Listed /\ NotesLeadToVoices
  BY DEF VoicesInv
<1>3. Len(free_voices) \in Nat /\ Len(used_voices) \in Nat /\ free_voices # <<>>
  BY <1>1, <1>2 DEF Listed
<1>4. /\ v \in ToSet(free_voices) /\ Tail(free_voices) \in Seq(Voices)
      /\ ToSet(free_voices) = {v} \cup ToSet(Tail(free_voices))
      /\ Len(Tail(free_voices)) = Len(free_voices) - 1
      /\ IsInjective(Tail(free_voices)) /\ v \notin ToSet(Tail(free_voices))
      /\ v \in Voices
  <2>1. IsInjective(free_voices) /\ Head(free_voices) \in Voices
    BY <1>2, <1>3 DEF Listed
  <2> QED
    BY <1>2, <1>3, <2>1, Ends
<1>5. v \notin ToSet(used_voices)
  BY <1>2, <1>4 DEF Listed
<1> HIDE DEF v
<1>6. /\ used_voices' \in Seq(Voices) /\ IsInjective(used_voices')
      /\ ToSet(used_voices') = ToSet(used_voices) \cup {v}
      /\ Len(used_voices') = Len(used_voices) + 1
  <2>1. IsInjective(used_voices)
    BY <1>2 DEF Listed
  <2> QED
    BY <1>1, <1>2, <1>4, <1>5, <2>1, Ends
<1>7. Listed'
  BY <1>1, <1>2, <1>3, <1>4, <1>5, <1>6 DEF Listed
<1>8. notes' \in [Keys -> Voices \cup {-1}] /\ note_info' \in [Voices -> Keys]
  BY <1>1, <1>2, <1>4
<1>9. NotesLeadToVoices'
  <2> SUFFICES ASSUME NEW k \in Keys, notes'[k] >= 0
               PROVE  /\ notes'[k] \in ToSet(used_voices') \ queued'
                      /\ note_info'[notes'[k]] = k
    BY DEF NotesLeadToVoices
  <2>1. CASE k = <<ch, note>>
    <3>1. notes'[k] = v /\ note_info'[v] = k
      BY <1>1, <1>2, <1>4, <2>1
    <3>2. v \notin queued
      BY <1>2, <1>5 DEF Listed
    <3> QED
      BY <1>1, <1>6, <3>1, <3>2
  <2>2. CASE k # <<ch, note>>
    <3>1. notes'[k] = notes[k] /\ notes[k] >= 0
      BY <1>1, <1>2, <2>2
    <3>2. notes[k] \in ToSet(used_voices) \ queued /\ note_info[notes[k]] = k
      BY <1>2, <3>1 DEF NotesLeadToVoices
    <3>3. note_info'[notes[k]] = note_info[notes[k]]
      BY <1>1, <1>2, <1>5, <3>2, Sizes
    <3> QED
      BY <1>1, <1>6, <3>1, <3>2, <3>3
  <2> QED
    BY <2>1, <2>2
<1>10. /\ gate' \in [Voices -> {0, 1}] /\ seen' \in [Voices -> {0, 1}]
       /\ fresh' \subseteq Voices /\ Retriggered'
       /\ \A w \in Voices : seen'[w] = 1 => lastgate'[w] = 1
       /\ \A w \in Voices : gate'[w] = 1 <=> (w = v \/ w \in ToSet(used_voices))
  BY <1>1, <1>4, TurnedOn
<1>11. GatesFollowUse'
  BY <1>6, <1>10 DEF GatesFollowUse
<1>12. /\ VoicesInv' /\ ToSet(used_voices') = ToSet(used_voices) \cup {v}
  BY <1>1, <1>2, <1>4, <1>6, <1>7, <1>8, <1>9, <1>10, <1>11 DEF VoicesInv
<1> QED
  BY <1>12 DEF v

\* No voice is free: the one in use for longest is stolen from its note.
LEMMA StealKeeps ==
  ASSUME LV2Assumption, VoicesInv, nvoices \in 1..NVOICES, NEW ch \in Channels,
         NEW note \in Notes, Steal(ch, note), UNCHANGED <<lastgate, nvoices>>
  PROVE  /\ VoicesInv' /\ ToSet(used_voices') = ToSet(used_voices)
         /\ Head(used_voices) \in ToSet(used_voices)
<1> DEFINE v == Head(used_voices)
           rest == Tail(used_voices)
<1>1. /\ <<ch, note>> \in Keys /\ notes[<<ch, note>>] < 0 /\ n_free <= 0
      /\ queued' = queued \ {v}
      /\ n_queued' = n_queued - (IF v \in queued THEN 1 ELSE 0)
      /\ used_voices' = Append(rest, v)
      /\ note_info' = [note_info EXCEPT ![v] = <<ch, note>>]
      /\ voice_on(v, note, ch)
      /\ notes' = [notes EXCEPT ![note_info[v]] = -1, ![<<ch, note>>] = v]
      /\ UNCHANGED <<free_voices, n_free, n_used>>
  BY DEF Steal, Keys
<1>2. /\ free_voices \in Seq(Voices) /\ used_voices \in Seq(Voices) /\ queued \subseteq Voices
      /\ notes \in [Keys -> Voices \cup {-1}] /\ note_info \in [Voices -> Keys]
      /\ Listed /\ NotesLeadToVoices
  BY DEF VoicesInv
<1>3. Len(free_voices) \in Nat /\ Len(used_voices) \in Nat /\ used_voices # <<>>
  <2>1. Len(free_voices) = 0
    BY <1>1, <1>2 DEF Listed
  <2>2. ToSet(free_voices) = {}
    BY <1>2, <2>1 DEF ToSet
  <2>3. 0 \in ToSet(used_voices)
    BY <1>2, <2>2 DEF Listed, LV2Assumption
  <2> QED
    BY <1>2, <2>3 DEF ToSet
<1>4. /\ v \in ToSet(used_voices) /\ v \in Voices /\ rest \in Seq(Voices)
      /\ ToSet(used_voices) = {v} \cup ToSet(rest)
      /\ Len(rest) = Len(used_voices) - 1
      /\ IsInjective(rest) /\ v \notin ToSet(rest)
  <2>1. IsInjective(used_voices) /\ Head(used_voices) \in Voices
    BY <1>2, <1>3 DEF Listed
  <2> QED
    BY <1>2, <1>3, <2>1, Ends
<1> HIDE DEF v, rest
<1>5. /\ used_voices' \in Seq(Voices) /\ IsInjective(used_voices')
      /\ ToSet(used_voices') = ToSet(used_voices)
      /\ Len(used_voices') = Len(used_voices)
  <2>1. /\ Append(rest, v) \in Seq(Voices)
        /\ IsInjective(Append(rest, v))
        /\ ToSet(Append(rest, v)) = ToSet(rest) \cup {v}
    BY <1>4, Ends
  <2> QED
    BY <1>1, <1>3, <1>4, <2>1
<1>6. queued' \subseteq ToSet(used_voices') /\ n_queued' = Cardinality(queued')
  <2>1. queued \subseteq ToSet(used_voices) /\ n_queued = Cardinality(queued)
    BY <1>2 DEF Listed
  <2>2. /\ Cardinality(queued \ {v}) = Cardinality(queued) - Cardinality(queued \cap {v})
        /\ Cardinality({}) = 0 /\ Cardinality({v}) = 1
    BY Sizes, Minus, FS_EmptySet, FS_Singleton
  <2>3. queued \cap {v} = IF v \in queued THEN {v} ELSE {}
    OBVIOUS
  <2>4. Cardinality(queued \cap {v}) = IF v \in queued THEN 1 ELSE 0
    BY <2>2, <2>3
  <2> QED
    BY <1>1, <1>5, <2>1, <2>2, <2>4
<1>7. Listed'
  BY <1>1, <1>2, <1>5, <1>6 DEF Listed
<1>8. notes' \in [Keys -> Voices \cup {-1}] /\ note_info' \in [Voices -> Keys]
  BY <1>1, <1>2, <1>4
<1>9. NotesLeadToVoices'
  <2> SUFFICES ASSUME NEW k \in Keys, notes'[k] >= 0
               PROVE  /\ notes'[k] \in ToSet(used_voices') \ queued'
                      /\ note_info'[notes'[k]] = k
    BY DEF NotesLeadToVoices
  <2>1. CASE k = <<ch, note>>
    <3>1. notes'[k] = v /\ note_info'[v] = k
      BY <1>1, <1>2, <1>4, <2>1
    <3> QED
      BY <1>1, <1>4, <1>5, <3>1
  <2>2. CASE k # <<ch, note>>
    <3>1. k # note_info[v] /\ notes'[k] = notes[k]
      BY <1>1, <1>2, <2>2
    <3>2. notes[k] \in ToSet(used_voices) \ queued /\ note_info[notes[k]] = k
      BY <1>2, <3>1 DEF NotesLeadToVoices
    <3>3. note_info'[notes[k]] = note_info[notes[k]]
      BY <1>1, <1>2, <3>1, <3>2, Sizes
    <3> QED
      BY <1>1, <1>5, <3>1, <3>2, <3>3
  <2> QED
    BY <2>1, <2>2
<1>10. /\ gate' \in [Voices -> {0, 1}] /\ seen' \in [Voices -> {0, 1}]
       /\ fresh' \subseteq Voices /\ Retriggered'
       /\ \A w \in Voices : seen'[w] = 1 => lastgate'[w] = 1
       /\ \A w \in Voices : gate'[w] = 1 <=> (w = v \/ w \in ToSet(used_voices))
  BY <1>1, <1>4, TurnedOn
<1>11. GatesFollowUse'
  BY <1>4, <1>5, <1>10 DEF GatesFollowUse
<1>12. VoicesInv'
  BY <1>1, <1>2, <1>5, <1>7, <1>8, <1>9, <1>10, <1>11 DEF VoicesInv
<1> QED
  BY <1>4, <1>5, <1>12 DEF v

\* A note of which no block has been rendered is put on the queue.
LEMMA QueueNoteOffKeeps ==
  ASSUME LV2Assumption, VoicesInv, NEW ch \in Channels, NEW note \in Notes,
         QueueNoteOff(ch, note), UNCHANGED <<lastgate, nvoices>>
  PROVE  VoicesInv' /\ ToSet(used_voices') = ToSet(used_voices)
<1> DEFINE v == notes[<<ch, note>>]
<1>1. /\ <<ch, note>> \in Keys /\ v >= 0
      /\ queued' = queued \cup {v}
      /\ n_queued' = n_queued + (IF v \in queued THEN 0 ELSE 1)
      /\ notes' = IF v \in queued THEN notes ELSE [notes EXCEPT ![<<ch, note>>] = -1]
      /\ UNCHANGED <<free_voices, used_voices, n_free, n_used, note_info, zones, history>>
  BY DEF QueueNoteOff, Keys
<1>2. Listed /\ NotesLeadToVoices /\ notes \in [Keys -> Voices \cup {-1}]
      /\ queued \subseteq Voices
  BY DEF VoicesInv
<1>3. v \in ToSet(used_voices) /\ v \in Voices /\ v \notin queued /\ note_info[v] = <<ch, note>>
  BY <1>1, <1>2, Sizes DEF NotesLeadToVoices
<1> HIDE DEF v
<1>4. n_queued' = Cardinality(queued')
  <2>1. Cardinality(queued \cup {v}) = Cardinality(queued) + 1
    BY <1>3, Sizes, FS_AddElement
  <2> QED
    BY <1>1, <1>2, <1>3, <2>1 DEF Listed
<1>5. Listed'
  BY <1>1, <1>2, <1>3, <1>4 DEF Listed
<1>6. notes' \in [Keys -> Voices \cup {-1}] /\ queued' \subseteq Voices
  BY <1>1, <1>2, <1>3
<1>7. NotesLeadToVoices'
  <2> SUFFICES ASSUME NEW k \in Keys, notes'[k] >= 0
               PROVE  /\ notes'[k] \in ToSet(used_voices) \ queued'
                      /\ note_info[notes'[k]] = k
    BY <1>1 DEF NotesLeadToVoices
  <2>1. k # <<ch, note>> /\ notes'[k] = notes[k]
    BY <1>1, <1>2, <1>3
  <2>2. notes[k] \in ToSet(used_voices) \ queued /\ note_info[notes[k]] = k
    BY <1>2, <2>1 DEF NotesLeadToVoices
  <2> QED
    BY <1>1, <1>3, <2>1, <2>2
<1>8. UNCHANGED <<gate, seen, fresh>>
  BY <1>1 DEF zones, history
<1>9. (GatesFollowUse /\ Retriggered)'
  BY <1>1, <1>8 DEF VoicesInv, GatesFollowUse, Retriggered
<1> QED
  BY <1>1, <1>5, <1>6, <1>7, <1>8, <1>9 DEF VoicesInv

\* The voice of a note that has sounded is given back.
LEMMA ReleaseKeeps ==
  ASSUME LV2Assumption, VoicesInv, NEW ch \in Channels, NEW note \in Notes,
         ReleaseVoice(ch, note), UNCHANGED <<lastgate, nvoices>>
  PROVE  VoicesInv' /\ ToSet(used_voices') \subseteq ToSet(used_voices)
<1> DEFINE v == notes[<<ch, note>>]
<1>1. /\ <<ch, note>> \in Keys /\ v >= 0
      /\ free_voices' = Append(free_voices, v) /\ n_free' = n_free + 1
      /\ gate' = voice_off({v})
      /\ notes' = [notes EXCEPT ![<<ch, note>>] = -1]
      /\ used_voices' = Keep(used_voices, Voices \ {v})
      /\ n_used' = n_used - (IF v \in ToSet(used_voices) THEN 1 ELSE 0)
      /\ UNCHANGED <<note_info, queued, n_queued, freq, ctrl, history>>
  BY DEF ReleaseVoice, Keys, Without
<1>2. /\ free_voices \in Seq(Voices) /\ used_voices \in Seq(Voices)
      /\ notes \in [Keys -> Voices \cup {-1}] /\ gate \in [Voices -> {0, 1}]
      /\ Listed /\ NotesLeadToVoices
  BY DEF VoicesInv
<1>3. v \in ToSet(used_voices) /\ v \in Voices /\ v \notin queued /\ note_info[v] = <<ch, note>>
  BY <1>1, <1>2, Sizes DEF NotesLeadToVoices
<1> HIDE DEF v
<1>4. /\ used_voices' \in Seq(Voices) /\ IsInjective(used_voices')
      /\ ToSet(used_voices') = ToSet(used_voices) \ {v}
      /\ n_used' = Len(used_voices')
  <2>1. ToSet(used_voices) \cap {v} = {v} /\ Cardinality({v}) = 1
    BY <1>3, FS_Singleton
  <2>2. IsInjective(used_voices) /\ n_used = Len(used_voices)
    BY <1>2 DEF Listed
  <2>3. Cardinality(ToSet(used_voices) \cap {v}) = 1
    BY <2>1
  <2>4. /\ Keep(used_voices, Voices \ {v}) \in Seq(Voices)
        /\ IsInjective(Keep(used_voices, Voices \ {v}))
        /\ ToSet(Keep(used_voices, Voices \ {v})) = ToSet(used_voices) \ {v}
        /\ Len(Keep(used_voices, Voices \ {v}))
           = Len(used_voices) - Cardinality(ToSet(used_voices) \cap {v})
    BY <1>2, <2>2, Fewer
  <2> QED
    BY <1>1, <1>3, <2>2, <2>3, <2>4
<1>5. /\ free_voices' \in Seq(Voices) /\ IsInjective(free_voices')
      /\ ToSet(free_voices') = ToSet(free_voices) \cup {v} /\ n_free' = Len(free_voices')
  <2>1. IsInjective(free_voices) /\ v \notin ToSet(free_voices) /\ n_free = Len(free_voices)
    BY <1>2, <1>3 DEF Listed
  <2>2. Len(Append(free_voices, v)) = Len(free_voices) + 1
    BY <1>2, <1>3
  <2>3. /\ Append(free_voices, v) \in Seq(Voices) /\ IsInjective(Append(free_voices, v))
        /\ ToSet(Append(free_voices, v)) = ToSet(free_voices) \cup {v}
    BY <1>2, <1>3, <2>1, Ends
  <2> QED
    BY <1>1, <2>1, <2>2, <2>3
<1>6. Listed'
  BY <1>1, <1>2, <1>3, <1>4, <1>5 DEF Listed
<1>7. notes' \in [Keys -> Voices \cup {-1}] /\ gate' \in [Voices -> {0, 1}]
  BY <1>1, <1>2 DEF voice_off
<1>8. NotesLeadToVoices'
  <2> SUFFICES ASSUME NEW k \in Keys, notes'[k] >= 0
               PROVE  /\ notes'[k] \in ToSet(used_voices') \ queued
                      /\ note_info[notes'[k]] = k
    BY <1>1 DEF NotesLeadToVoices
  <2>1. k # <<ch, note>> /\ notes'[k] = notes[k]
    BY <1>1, <1>2
  <2>2. notes[k] \in ToSet(used_voices) \ queued /\ note_info[notes[k]] = k
    BY <1>2, <2>1 DEF NotesLeadToVoices
  <2> QED
    BY <1>3, <1>4, <2>1, <2>2
<1>9. GatesFollowUse'
  <2>1. ASSUME NEW w \in Voices PROVE gate'[w] = 1 <=> w \in ToSet(used_voices')
    <3>1. gate'[w] = IF w \in {v} THEN 0 ELSE gate[w]
      BY <1>1 DEF voice_off
    <3>2. gate[w] = 1 <=> w \in ToSet(used_voices)
      BY DEF VoicesInv, GatesFollowUse
    <3> QED
      BY <1>4, <3>1, <3>2
  <2> QED
    BY <2>1 DEF GatesFollowUse
<1>10. UNCHANGED <<seen, fresh>>
  BY <1>1 DEF history
<1>11. Retriggered'
  BY <1>10 DEF VoicesInv, Retriggered
<1>12. VoicesInv'
  BY <1>1, <1>4, <1>5, <1>6, <1>7, <1>8, <1>9, <1>10, <1>11 DEF VoicesInv
<1> QED
  BY <1>4, <1>12

-----------------------------------------------------------------------------
(***************************************************************************)
(* The host: blocks, resets, activation                                    *)
(***************************************************************************)
\* A reset of the voices (deactivate, a change of the polyphony) frees all of them.
LEMMA ResetKeeps ==
  ASSUME LV2Assumption, VoicesInv, nvoices \in 1..NVOICES, nvoices' \in 1..NVOICES,
         ResetVoices(nvoices'), NEW V, gate' = voice_off(V), 0..(nvoices - 1) \subseteq V,
         queued' = {}, n_queued' = 0, UNCHANGED <<note_info, lastgate, seen, fresh>>
  PROVE  VoicesInv' /\ used_voices' = <<>> /\ ToSet(used_voices') = {}
<1>1. /\ notes' = [k \in Keys |-> -1]
      /\ free_voices' = FirstVoices(nvoices') /\ n_free' = nvoices'
      /\ used_voices' = <<>> /\ n_used' = 0
  BY DEF ResetVoices
<1>2. /\ free_voices' \in Seq(Voices) /\ ToSet(free_voices') = 0..(nvoices' - 1)
      /\ IsInjective(free_voices') /\ Len(free_voices') = nvoices'
  <2>1. nvoices' \in 0..NVOICES
    BY DEF LV2Assumption
  <2> QED
    BY <1>1, <2>1, FirstOnes
<1>3. /\ used_voices' \in Seq(Voices) /\ ToSet(used_voices') = {} /\ IsInjective(used_voices')
      /\ Len(used_voices') = 0
  BY <1>1 DEF ToSet, IsInjective
<1>4. Listed'
  <2>1. Cardinality({}) = 0
    BY FS_EmptySet
  <2>2. n_queued' = Cardinality(queued')
    BY <2>1
  <2> QED
    BY <1>1, <1>2, <1>3, <2>2 DEF Listed
<1>5. notes' \in [Keys -> Voices \cup {-1}] /\ NotesLeadToVoices'
  BY <1>1 DEF NotesLeadToVoices
<1>6. gate' \in [Voices -> {0, 1}] /\ GatesFollowUse'
  <2>1. ASSUME NEW v \in Voices PROVE gate'[v] = 0
    <3>1. gate'[v] = IF v \in V THEN 0 ELSE gate[v]
      BY DEF voice_off
    <3>2. v \notin V => v \notin ToSet(used_voices)
      BY DEF VoicesInv, Listed
    <3>3. v \notin V => gate[v] # 1 /\ gate[v] \in {0, 1}
      BY <3>2 DEF VoicesInv, GatesFollowUse
    <3> QED
      BY <3>1, <3>3
  <2>2. DOMAIN gate' = Voices /\ gate' = [v \in DOMAIN gate' |-> gate'[v]]
    BY DEF voice_off
  <2> QED
    BY <1>3, <2>1, <2>2 DEF GatesFollowUse
<1>7. (fresh \subseteq Voices /\ seen \in [Voices -> {0, 1}] /\ Retriggered
        /\ note_info \in [Voices -> Keys] /\ \A v \in Voices : seen[v] = 1 => lastgate[v] = 1)'
  BY DEF VoicesInv, Retriggered
<1> QED
  BY <1>1, <1>2, <1>3, <1>4, <1>5, <1>6, <1>7 DEF VoicesInv

\* The end of a block, where the gates are remembered, keeps what is known of the voices.
LEMMA EndKeeps ==
  ASSUME LV2Assumption, VoicesInv, NEW port, EndRun(port), nvoices \in 1..NVOICES,
         lastgate \in [Voices -> {0, 1}]
  PROVE  VoicesInv' /\ lastgate' \in [Voices -> {0, 1}] /\ UNCHANGED used_voices
<1>1. /\ lastgate' = [v \in Voices |-> IF v < nvoices THEN gate[v] ELSE lastgate[v]]
      /\ seen' = [v \in Voices |-> IF v < nvoices THEN gate[v] ELSE seen[v]]
      /\ fresh' = {v \in fresh : v >= nvoices}
      /\ UNCHANGED <<nvoices, alloc, gate>>
  BY DEF EndRun
<1>2. UNCHANGED <<notes, free_voices, used_voices, n_free, n_used, note_info, queued, n_queued>>
  BY <1>1 DEF alloc
<1>3. /\ gate \in [Voices -> {0, 1}] /\ seen \in [Voices -> {0, 1}] /\ fresh \subseteq Voices
      /\ Retriggered /\ \A v \in Voices : seen[v] = 1 => lastgate[v] = 1
  BY DEF VoicesInv
<1>4. /\ seen' \in [Voices -> {0, 1}] /\ lastgate' \in [Voices -> {0, 1}]
      /\ fresh' \subseteq Voices /\ \A v \in Voices : seen'[v] = 1 => lastgate'[v] = 1
  BY <1>1, <1>3
<1>5. Retriggered'
  <2> SUFFICES ASSUME NEW v \in fresh' PROVE seen'[v] = 0
    BY DEF Retriggered
  <2>1. v \in Voices /\ v \in Int /\ v \in fresh /\ v >= nvoices
    BY <1>1, <1>3 DEF Voices
  <2>2. seen'[v] = IF v < nvoices THEN gate[v] ELSE seen[v]
    BY <1>1, <2>1
  <2>3. seen[v] = 0
    BY <1>3, <2>1 DEF Retriggered
  <2> QED
    BY <2>1, <2>2, <2>3
<1>6. (Listed /\ NotesLeadToVoices /\ GatesFollowUse)'
  BY <1>1, <1>2 DEF VoicesInv, Listed, NotesLeadToVoices, GatesFollowUse
<1> QED
  BY <1>1, <1>2, <1>4, <1>5, <1>6 DEF VoicesInv

\* What Inv says besides the voices.
HostInv ==
    /\ active \in BOOLEAN /\ running \in BOOLEAN
    /\ nvoices \in 1..NVOICES /\ nevents \in 0..BlockEvents
    /\ lastgate \in [Voices -> {0, 1}]
    /\ DOMAIN freq = Voices /\ DOMAIN ctrl = Voices
    /\ DOMAIN bend = Channels /\ DOMAIN tune = Channels
    /\ DOMAIN midivals = Channels
    /\ ~active => used_voices = <<>> /\ ~running

\* What Inv says of the keys that are down.
KeysInv ==
    /\ holder \in [Keys -> Voices \cup {-1}]
    /\ restruck \subseteq Keys /\ stale \subseteq Voices
    /\ HeldNotesSound /\ OneVoicePerKey

\* Inv is about the voices, the host and the keys, and nothing else.
LEMMA InvParts == Inv <=> VoicesInv /\ HostInv /\ KeysInv
<1>1. TypeOK => used_voices \in Seq(Voices) /\ free_voices \in Seq(Voices)
  BY DEF TypeOK
<1>2. VoicesInv => used_voices \in Seq(Voices) /\ free_voices \in Seq(Voices)
  BY DEF VoicesInv
<1> QED
  BY <1>1, <1>2, Partition DEF Inv, TypeOK, VoicesInv, HostInv, KeysInv

\* The same after a step.
LEMMA InvPartsNext == Inv' <=> VoicesInv' /\ HostInv' /\ KeysInv'
<1>1. TypeOK' => used_voices' \in Seq(Voices) /\ free_voices' \in Seq(Voices)
  BY DEF TypeOK
<1>2. VoicesInv' => used_voices' \in Seq(Voices) /\ free_voices' \in Seq(Voices)
  BY DEF VoicesInv
<1> QED
  BY <1>1, <1>2, PartitionNext DEF Inv, TypeOK, VoicesInv, HostInv, KeysInv

\* The state of a new plug-in.
LEMMA InvInit == LV2Assumption /\ Init => Inv
<1> SUFFICES ASSUME LV2Assumption, Init PROVE VoicesInv /\ HostInv /\ KeysInv
  BY InvParts
<1>1. /\ NVOICES \in Nat \ {0} /\ BlockEvents \in Nat /\ NVOICES \in 0..NVOICES
      /\ nvoices = NVOICES /\ free_voices = FirstVoices(NVOICES) /\ n_free = NVOICES
      /\ used_voices = <<>> /\ n_used = 0 /\ queued = {} /\ n_queued = 0
      /\ notes = [k \in Keys |-> -1] /\ fresh = {} /\ ~active /\ ~running /\ nevents = 0
      /\ gate = [v \in Voices |-> 0] /\ lastgate = gate /\ seen = gate
  BY DEF LV2Assumption, Init
<1>2. note_info \in [Voices -> Keys]
  <2>1. \E k \in Keys : TRUE
    <3>1. PICK c \in Channels, n \in Notes : TRUE
      BY DEF LV2Assumption
    <3>2. <<c, n>> \in Keys
      BY DEF Keys
    <3> QED
      BY <3>2
  <2>2. (CHOOSE k \in Keys : TRUE) \in Keys
    BY <2>1
  <2> QED
    BY <2>2 DEF Init
<1>3. /\ free_voices \in Seq(Voices) /\ ToSet(free_voices) = 0..(NVOICES - 1)
      /\ IsInjective(free_voices) /\ Len(free_voices) = NVOICES
  BY <1>1, FirstOnes
<1>4. /\ used_voices \in Seq(Voices) /\ ToSet(used_voices) = {} /\ IsInjective(used_voices)
      /\ Len(used_voices) = 0
  BY <1>1 DEF ToSet, IsInjective
<1>5. Listed
  <2>1. Cardinality({}) = 0
    BY FS_EmptySet
  <2>2. n_queued = Cardinality(queued)
    BY <1>1, <2>1
  <2> QED
    BY <1>1, <1>3, <1>4, <2>2 DEF Listed
<1>6. NotesLeadToVoices /\ GatesFollowUse /\ Retriggered
  BY <1>1, <1>4 DEF NotesLeadToVoices, GatesFollowUse, Retriggered
<1>7. VoicesInv
  BY <1>1, <1>2, <1>3, <1>4, <1>5, <1>6 DEF VoicesInv
<1>8. /\ DOMAIN freq = Voices /\ DOMAIN ctrl = Voices /\ DOMAIN bend = Channels
      /\ DOMAIN tune = Channels /\ DOMAIN midivals = Channels
  BY DEF Init
<1>9. HostInv
  <2>1. nvoices \in 1..NVOICES /\ nevents \in 0..BlockEvents /\ lastgate \in [Voices -> {0, 1}]
    BY <1>1
  <2>2. active \in BOOLEAN /\ running \in BOOLEAN
    BY DEF Init
  <2> QED
    BY <1>1, <1>8, <2>1, <2>2 DEF HostInv
<1>10. KeysInv
  BY <1>1, <1>4 DEF Init, KeysInv, HeldNotesSound, OneVoicePerKey
<1> QED
  BY <1>7, <1>9, <1>10

\* The voices are not touched by the pitch, the tuning and the controllers.
LEMMA VoicesKept ==
  ASSUME VoicesInv, UNCHANGED <<nvoices, alloc, gate, lastgate, history>>
  PROVE  VoicesInv'
<1>1. UNCHANGED <<notes, free_voices, used_voices, n_free, n_used, note_info, queued, n_queued,
                  seen, fresh>>
  BY DEF alloc, history
<1> QED
  BY <1>1 DEF VoicesInv, Listed, NotesLeadToVoices, GatesFollowUse, Retriggered

\* What a key that goes down does to the voices.
LEMMA NoteOnKeeps ==
  ASSUME LV2Assumption, VoicesInv, nvoices \in 1..NVOICES, NEW ch \in Channels,
         NEW note \in Notes, alloc_voice(ch, note), UNCHANGED nvoices
  PROVE  VoicesInv' /\ DOMAIN freq' = DOMAIN freq /\ DOMAIN ctrl' = DOMAIN ctrl
         /\ UNCHANGED lastgate
<1>1. UNCHANGED <<lastgate, nvoices>>
  BY DEF alloc_voice
<1>2. CASE Retrigger(ch, note)
  BY <1>1, <1>2, RetriggerKeeps DEF Retrigger, voice_on
<1>3. CASE TakeFree(ch, note)
  BY <1>1, <1>3, TakeFreeKeeps DEF TakeFree, voice_on
<1>4. CASE Steal(ch, note)
  BY <1>1, <1>4, StealKeeps DEF Steal, voice_on
<1> QED
  BY <1>1, <1>2, <1>3, <1>4 DEF alloc_voice

\* What a key that goes up does to the voices.
LEMMA NoteOffKeeps ==
  ASSUME LV2Assumption, VoicesInv, NEW ch \in Channels, NEW note \in Notes,
         dealloc_voice(ch, note), UNCHANGED nvoices
  PROVE  /\ VoicesInv' /\ ToSet(used_voices') \subseteq ToSet(used_voices)
         /\ UNCHANGED <<lastgate, freq, ctrl, note_info>>
<1>1. UNCHANGED <<lastgate, nvoices>>
  BY DEF dealloc_voice
<1>2. CASE QueueNoteOff(ch, note)
  BY <1>1, <1>2, QueueNoteOffKeeps DEF QueueNoteOff, zones
<1>3. CASE ReleaseVoice(ch, note)
  BY <1>1, <1>3, ReleaseKeeps DEF ReleaseVoice
<1>4. CASE notes[<<ch, note>>] < 0 /\ UNCHANGED <<alloc, zones, history>>
  BY <1>1, <1>4, VoicesKept DEF alloc, zones
<1> QED
  BY <1>1, <1>2, <1>3, <1>4 DEF dealloc_voice

\* Every step keeps what Inv says of the voices and the host.
LEMMA VoicesNext ==
  ASSUME LV2Assumption, VoicesInv, HostInv, [Next]_vars PROVE VoicesInv' /\ HostInv'
<1>0. BlockEvents \in Nat /\ NVOICES \in Nat
  BY DEF LV2Assumption
<1>1. CASE RunInactive
  <2>1. queued_notes_off /\ UNCHANGED <<host, nevents, note_info, freq, ctrl, lastgate, pitch,
                                        ctls, history>>
    BY <1>1 DEF RunInactive
  <2>2. /\ UNCHANGED <<active, nvoices, running, nevents, note_info, freq, ctrl, lastgate, bend,
                       tune, midivals, seen, fresh>>
        /\ ~active
    BY <1>1, <2>1 DEF RunInactive, host, pitch, ctls, history
  <2>3. VoicesInv' /\ ToSet(used_voices') \subseteq ToSet(used_voices)
    BY <2>1, <2>2, QueuedOff
  <2>4. used_voices' = <<>>
    <3>1. ToSet(used_voices) = {} /\ used_voices' \in Seq(Voices)
      BY <2>2, <2>3 DEF HostInv, ToSet, VoicesInv
    <3>2. Len(used_voices') = 0
      BY <2>3, <3>1 DEF ToSet
    <3> QED
      BY <3>1, <3>2
  <2> QED
    BY <2>2, <2>3, <2>4 DEF HostInv
<1>2. CASE BeginRun
  <2>1. queued_notes_off /\ NextBlock /\ active
        /\ UNCHANGED <<active, nvoices, note_info, freq, ctrl, lastgate, pitch, ctls, history>>
    BY <1>2 DEF BeginRun
  <2>2. UNCHANGED <<nvoices, note_info, lastgate, seen, fresh>>
    BY <2>1 DEF history
  <2>3. VoicesInv'
    BY <2>1, <2>2, QueuedOff
  <2> QED
    BY <1>0, <2>1, <2>3 DEF HostInv, NextBlock, pitch, ctls
<1>3. CASE activate
  <2>1. /\ used_voices = <<>> /\ UNCHANGED <<nvoices, running, nevents, alloc, lastgate, pitch,
                                              midivals, fresh>>
        /\ seen' = [v \in Voices |-> 0] /\ gate' = [v \in Voices |-> 0]
        /\ ctrl' = gate' /\ freq' = [v \in Voices |-> <<>>] /\ active' = TRUE
    BY <1>3 DEF activate, HostInv
  <2>2. UNCHANGED <<notes, free_voices, used_voices, n_free, n_used, note_info, queued, n_queued>>
    BY <2>1 DEF alloc
  <2>3. ToSet(used_voices) = {}
    BY <2>1 DEF ToSet
  <2>4. (GatesFollowUse /\ Retriggered)'
    BY <2>1, <2>2, <2>3 DEF VoicesInv, GatesFollowUse, Retriggered
  <2>5. (Listed /\ NotesLeadToVoices)'
    BY <2>1, <2>2 DEF VoicesInv, Listed, NotesLeadToVoices
  <2>6. VoicesInv'
    BY <2>1, <2>2, <2>4, <2>5 DEF VoicesInv
  <2> QED
    BY <2>1, <2>6 DEF HostInv, pitch
<1>4. CASE deactivate
  <2>1. /\ ResetVoices(nvoices) /\ gate' = voice_off(0..(nvoices - 1)) /\ queued' = {}
        /\ n_queued' = 0 /\ active' = FALSE /\ ~running /\ bend' = [c \in Channels |-> 0]
        /\ UNCHANGED <<nvoices, running, nevents, note_info, freq, ctrl, lastgate, range, coarse,
                       fine, tune, tuning, rpn, entry, ctls, history>>
    BY <1>4 DEF deactivate
  <2>2. UNCHANGED <<nvoices, note_info, lastgate, seen, fresh>> /\ nvoices \in 1..NVOICES
    BY <2>1 DEF history, HostInv
  <2>3. VoicesInv' /\ used_voices' = <<>>
    BY <2>1, <2>2, ResetKeeps
  <2> QED
    BY <2>1, <2>3 DEF HostInv, ctls
<1>5. ASSUME NEW n \in Polys, ChangePolyphony(n) PROVE VoicesInv' /\ HostInv'
  <2>1. /\ ResetVoices(n) /\ gate' = voice_off(queued \cup 0..(nvoices - 1)) /\ queued' = {}
        /\ n_queued' = n_queued - Cardinality(queued) /\ n > 0 /\ n <= NVOICES
        /\ NextBlock /\ nvoices' = n /\ active
        /\ UNCHANGED <<active, note_info, freq, ctrl, lastgate, pitch, ctls, history>>
    BY <1>5 DEF ChangePolyphony
  <2>2. nvoices' \in 1..NVOICES
    BY <1>0, <2>1 DEF LV2Assumption
  <2>3. n_queued' = 0
    <3>1. n_queued = Cardinality(queued) /\ n_queued \in Nat
      BY Sizes DEF VoicesInv, Listed
    <3> QED
      BY <2>1, <3>1
  <2>4. UNCHANGED <<note_info, lastgate, seen, fresh>> /\ nvoices \in 1..NVOICES
    BY <2>1 DEF history, HostInv
  <2>5. VoicesInv' /\ used_voices' = <<>>
    <3> DEFINE V == queued \cup 0..(nvoices - 1)
    <3>1. gate' = voice_off(V) /\ 0..(nvoices - 1) \subseteq V /\ ResetVoices(nvoices')
      BY <2>1
    <3> HIDE DEF V
    <3> QED
      BY <2>1, <2>2, <2>3, <2>4, <3>1, ResetKeeps
  <2> QED
    BY <1>0, <2>1, <2>2, <2>5 DEF HostInv, NextBlock, pitch, ctls
<1>6. ASSUME Event
      PROVE  /\ UNCHANGED <<active, nvoices, running>> /\ nevents' \in 0..BlockEvents
             /\ active /\ nvoices \in 1..NVOICES
  BY <1>0, <1>6 DEF Event, host, HostInv
<1>7. ASSUME NEW c \in Channels, NEW n \in Notes, NoteOn(c, n) PROVE VoicesInv' /\ HostInv'
  <2>1. Event /\ alloc_voice(c, n) /\ UNCHANGED <<pitch, ctls>>
    BY <1>7 DEF NoteOn
  <2>2. /\ VoicesInv' /\ DOMAIN freq' = DOMAIN freq /\ DOMAIN ctrl' = DOMAIN ctrl
        /\ UNCHANGED lastgate
    BY <1>6, <2>1, NoteOnKeeps
  <2> QED
    BY <1>6, <2>1, <2>2 DEF HostInv, pitch, ctls
<1>8. ASSUME NEW c \in Channels, NEW n \in Notes, NoteOff(c, n) PROVE VoicesInv' /\ HostInv'
  <2>1. Event /\ dealloc_voice(c, n) /\ UNCHANGED <<pitch, ctls>>
    BY <1>8 DEF NoteOff
  <2>2. VoicesInv' /\ UNCHANGED <<lastgate, freq, ctrl>>
    BY <1>6, <2>1, NoteOffKeeps
  <2> QED
    BY <1>6, <2>1, <2>2 DEF HostInv, pitch, ctls
<1>9. ASSUME NEW c \in Channels, AllNotesOff(c) PROVE VoicesInv' /\ HostInv'
  <2>1. /\ Event /\ GiveBack(Keep(used_voices, Running(c))) /\ bend' = [bend EXCEPT ![c] = 0]
        /\ UNCHANGED <<note_info, freq, ctrl, lastgate, tune, ctls, history>>
    BY <1>9 DEF AllNotesOff
  <2>2. UNCHANGED <<nvoices, note_info, lastgate, seen, fresh>>
    BY <1>6, <2>1 DEF history
  <2>3. VoicesInv'
    BY <2>1, <2>2, ChannelOff
  <2> QED
    BY <1>6, <2>1, <2>3 DEF HostInv, ctls
<1>10. ASSUME Event, UNCHANGED <<alloc, gate, lastgate, history>>, DOMAIN freq' = Voices,
              DOMAIN ctrl' = Voices, DOMAIN bend' = Channels, DOMAIN tune' = Channels,
              DOMAIN midivals' = Channels
       PROVE  VoicesInv' /\ HostInv'
  <2>1. VoicesInv'
    BY <1>6, <1>10, VoicesKept
  <2> QED
    BY <1>6, <1>10, <2>1 DEF HostInv
<1>11. ASSUME NEW c \in Channels, AllControllersOff(c) PROVE VoicesInv' /\ HostInv'
  BY <1>10, <1>11 DEF AllControllersOff, HostInv, zones, ctls
<1>12. ASSUME NEW c \in Channels, NEW b \in Bends, PitchBend(c, b) PROVE VoicesInv' /\ HostInv'
  BY <1>10, <1>12 DEF PitchBend, update_voices, HostInv, ctls
<1>13. ASSUME NEW c \in Channels, NEW i \in 1..2, NEW b \in Rpns, SelectRpn(c, i, b)
       PROVE  VoicesInv' /\ HostInv'
  BY <1>10, <1>13 DEF SelectRpn, HostInv, zones, ctls
<1>14. ASSUME NEW c \in Channels, NEW e, Event, ApplyRpn(c, e) PROVE VoicesInv' /\ HostInv'
  <2>1. DOMAIN tune' = Channels
    BY <1>14 DEF ApplyRpn, HostInv
  <2>2. /\ UNCHANGED <<alloc, gate, lastgate, history, ctrl, bend>> /\ DOMAIN freq' = Voices
        /\ UNCHANGED midivals
    BY <1>14 DEF ApplyRpn, update_voices, ctls
  <2> QED
    BY <1>10, <1>14, <2>1, <2>2 DEF HostInv
<1>15. ASSUME NEW C \in SUBSET Channels, NEW t \in Scales, NEW r \in BOOLEAN,
              ScaleTuning(C, t, r)
       PROVE  VoicesInv' /\ HostInv'
  BY <1>10, <1>15 DEF ScaleTuning, update_voices, HostInv, ctls
<1>16. ASSUME NEW c \in Channels, NEW x \in Ctrls, ControlChange(c, x)
       PROVE  VoicesInv' /\ HostInv'
  BY <1>10, <1>16 DEF ControlChange, HostInv, pitch
<1>17. ASSUME NEW p, EndRun(p) PROVE VoicesInv' /\ HostInv'
  <2>1. VoicesInv' /\ lastgate' \in [Voices -> {0, 1}] /\ UNCHANGED used_voices
    BY <1>17, EndKeeps DEF HostInv
  <2>2. /\ running /\ running' = FALSE /\ nevents' = 0
        /\ DOMAIN midivals' = Channels /\ DOMAIN ctrl' = Voices
        /\ UNCHANGED <<active, nvoices, freq, bend, tune>> /\ active
    BY <1>17 DEF EndRun, HostInv, pitch
  <2>3. nevents' \in 0..BlockEvents
    BY <1>0, <2>2
  <2>4. running' \in BOOLEAN
    BY <2>2
  <2>5. HostInv'
    BY <2>1, <2>2, <2>3, <2>4 DEF HostInv
  <2> QED
    BY <2>1, <2>5
<1>18. CASE UNCHANGED vars
  <2>1. UNCHANGED <<active, nvoices, running, nevents, alloc, gate, freq, ctrl, lastgate, bend,
                    tune, midivals, history, used_voices>>
    BY <1>18 DEF vars, host, zones, pitch, ctls, alloc
  <2>2. VoicesInv'
    BY <2>1, VoicesKept
  <2> QED
    BY <2>1, <2>2 DEF HostInv
<1> QED
  BY <1>1, <1>2, <1>3, <1>4, <1>5, <1>7, <1>8, <1>9, <1>11, <1>12, <1>13, <1>14, <1>15, <1>16,
     <1>17, <1>18 DEF Next, DataEntry, DataStep

-----------------------------------------------------------------------------
(***************************************************************************)
(* The keys that are down                                                  *)
(***************************************************************************)
\* Keys that go up, and voices that end: those of the other keys are still there, and a
\* voice that is left, alone under its key, is where the table leads.
LEMMA KeysUpKeep ==
  ASSUME VoicesInv, VoicesInv', KeysInv, NEW K, KeysUp(K), stale' \subseteq Voices,
         ToSet(used_voices') \subseteq ToSet(used_voices), UNCHANGED note_info,
         \A k \in Keys \ K : holder[k] >= 0 =>
             holder[k] \in ToSet(used_voices') /\ holder[k] \notin queued',
         \A v \in ToSet(used_voices') \ queued' : note_info[v] \notin restruck =>
             /\ note_info[v] \notin K /\ v \notin queued
             /\ notes'[note_info[v]] = notes[note_info[v]]
  PROVE  KeysInv'
<1>1. /\ holder' = [k \in Keys |-> IF k \in K THEN -1 ELSE holder[k]]
      /\ holder \in [Keys -> Voices \cup {-1}] /\ note_info \in [Voices -> Keys]
      /\ ToSet(used_voices') \subseteq Voices
  BY DEF KeysUp, KeysInv, VoicesInv, ToSet
<1>2. /\ restruck' \subseteq Keys
      /\ \A v \in ToSet(used_voices') : note_info[v] \notin restruck' => note_info[v] \notin restruck
  BY <1>1 DEF KeysUp, Restruck
<1>3. holder' \in [Keys -> Voices \cup {-1}]
  BY <1>1
<1>4. HeldNotesSound'
  <2> SUFFICES ASSUME NEW k \in Keys, holder'[k] >= 0
               PROVE  /\ gate'[holder'[k]] = 1 /\ note_info'[holder'[k]] = k
                      /\ holder'[k] \notin queued'
    BY DEF HeldNotesSound
  <2>1. k \notin K /\ holder'[k] = holder[k]
    BY <1>1
  <2>2. /\ holder[k] \in ToSet(used_voices') /\ holder[k] \notin queued'
        /\ note_info[holder[k]] = k
    BY <2>1 DEF KeysInv, HeldNotesSound
  <2>3. gate'[holder[k]] = 1
    BY <1>1, <2>2 DEF VoicesInv, GatesFollowUse
  <2> QED
    BY <2>1, <2>2, <2>3
<1>5. OneVoicePerKey'
  <2> SUFFICES ASSUME NEW v \in ToSet(used_voices'), note_info[v] \notin restruck'
               PROVE  /\ \A w \in ToSet(used_voices') : note_info[w] = note_info[v] => w = v
                      /\ v \notin queued' => /\ notes'[note_info[v]] = v
                                             /\ holder'[note_info[v]] = v
    BY DEF OneVoicePerKey
  <2>1. /\ note_info[v] \notin restruck /\ note_info[v] \in Keys
        /\ \A w \in ToSet(used_voices) : note_info[w] = note_info[v] => w = v
        /\ v \notin queued => notes[note_info[v]] = v /\ holder[note_info[v]] = v
    BY <1>1, <1>2 DEF KeysInv, OneVoicePerKey
  <2> QED
    BY <1>1, <2>1
<1> QED
  BY <1>2, <1>3, <1>4, <1>5 DEF KeysInv

\* A key that goes down with the voice v: the voice is its voice now, and nobody else's.
LEMMA KeyDownKeeps ==
  ASSUME VoicesInv, VoicesInv', KeysInv, NEW k0 \in Keys, NEW v \in Voices, KeyDown(k0, v),
         stale' \subseteq Voices, ToSet(used_voices') = ToSet(used_voices) \cup {v},
         note_info' = [note_info EXCEPT ![v] = k0], queued' = queued \ {v}, notes'[k0] = v,
         \A k \in Keys \ {k0} :
             notes'[k] = notes[k] \/ (v \in ToSet(used_voices) /\ k = note_info[v])
  PROVE  KeysInv'
<1>1. /\ holder' = [k \in Keys |-> IF k = k0 THEN v
                                   ELSE IF holder[k] = v THEN -1 ELSE holder[k]]
      /\ holder \in [Keys -> Voices \cup {-1}] /\ note_info \in [Voices -> Keys]
      /\ ToSet(used_voices') \subseteq Voices
      /\ note_info'[v] = k0 /\ \A w \in Voices \ {v} : note_info'[w] = note_info[w]
  BY DEF KeyDown, KeysInv, VoicesInv, ToSet
<1>2. /\ restruck' \subseteq Keys
      /\ \A w \in ToSet(used_voices') : note_info'[w] \notin restruck' =>
             /\ note_info'[w] \notin restruck
             /\ \A x \in ToSet(used_voices') : note_info'[x] = note_info'[w] => x = w
  BY <1>1 DEF KeyDown, Restruck, VoicesInv
<1>3. holder' \in [Keys -> Voices \cup {-1}]
  BY <1>1
<1>4. HeldNotesSound'
  <2> SUFFICES ASSUME NEW k \in Keys, holder'[k] >= 0
               PROVE  /\ gate'[holder'[k]] = 1 /\ note_info'[holder'[k]] = k
                      /\ holder'[k] \notin queued'
    BY DEF HeldNotesSound
  <2>1. CASE k = k0
    <3>1. holder'[k] = v /\ gate'[v] = 1
      BY <1>1, <2>1 DEF VoicesInv, GatesFollowUse
    <3> QED
      BY <1>1, <2>1, <3>1
  <2>2. CASE k # k0
    <3>1. holder'[k] = holder[k] /\ holder[k] # v /\ holder[k] \in Voices
      BY <1>1, <2>2
    <3>2. gate[holder[k]] = 1 /\ note_info[holder[k]] = k /\ holder[k] \notin queued
      BY <3>1 DEF KeysInv, HeldNotesSound
    <3>3. gate'[holder[k]] = 1
      BY <3>1, <3>2 DEF VoicesInv, GatesFollowUse
    <3> QED
      BY <1>1, <3>1, <3>2, <3>3
  <2> QED
    BY <2>1, <2>2
<1>5. OneVoicePerKey'
  <2> SUFFICES ASSUME NEW w \in ToSet(used_voices'), note_info'[w] \notin restruck'
               PROVE  /\ \A x \in ToSet(used_voices') : note_info'[x] = note_info'[w] => x = w
                      /\ w \notin queued' => /\ notes'[note_info'[w]] = w
                                             /\ holder'[note_info'[w]] = w
    BY DEF OneVoicePerKey
  <2>1. CASE w = v
    BY <1>1, <1>2, <2>1
  <2>2. CASE w # v
    <3>1. /\ w \in Voices /\ note_info'[w] = note_info[w] /\ note_info[w] \in Keys
          /\ w \in ToSet(used_voices) /\ note_info[w] # k0
      BY <1>1, <1>2, <2>2
    <3>2. ASSUME w \notin queued'
          PROVE  notes[note_info[w]] = w /\ holder[note_info[w]] = w
      BY <1>2, <2>2, <3>1, <3>2 DEF KeysInv, OneVoicePerKey
    <3>3. ~(v \in ToSet(used_voices) /\ note_info[w] = note_info[v])
      BY <1>2, <2>2, <3>1 DEF KeysInv, OneVoicePerKey
    <3> QED
      BY <1>1, <1>2, <2>2, <3>1, <3>2, <3>3
  <2> QED
    BY <2>1, <2>2
<1> QED
  BY <1>2, <1>3, <1>4, <1>5 DEF KeysInv

\* Steps that leave the keys, the voices in use and the table alone.
LEMMA KeysKept ==
  ASSUME VoicesInv, VoicesInv', KeysInv, stale' \subseteq Voices,
         UNCHANGED <<notes, used_voices, note_info, queued, keys>>
  PROVE  KeysInv'
<1>1. UNCHANGED <<holder, restruck>>
  BY DEF keys
<1>2. \A v \in Voices : gate'[v] = 1 <=> gate[v] = 1
  BY DEF VoicesInv, GatesFollowUse
<1>3. holder \in [Keys -> Voices \cup {-1}] /\ restruck \subseteq Keys /\ OneVoicePerKey
      /\ HeldNotesSound
  BY DEF KeysInv
<1>4. \A k \in Keys : holder[k] >= 0 => holder[k] \in Voices
  BY <1>3
<1>5. HeldNotesSound'
  BY <1>1, <1>2, <1>3, <1>4 DEF HeldNotesSound
<1>6. OneVoicePerKey'
  BY <1>1, <1>3 DEF OneVoicePerKey
<1> QED
  BY <1>1, <1>3, <1>5, <1>6 DEF KeysInv

\* The voices of keys that are down are in use.
LEMMA HoldersUsed ==
  ASSUME VoicesInv, KeysInv, NEW k \in Keys, holder[k] >= 0
  PROVE  /\ holder[k] \in ToSet(used_voices) /\ holder[k] \in Voices
         /\ holder[k] \notin queued /\ note_info[holder[k]] = k
<1>1. holder[k] \in Voices
  BY DEF KeysInv
<1> QED
  BY <1>1 DEF KeysInv, HeldNotesSound, VoicesInv, GatesFollowUse

\* The note-offs that were queued end no note of a key that is down.
LEMMA QueuedOffKeys ==
  ASSUME LV2Assumption, VoicesInv, VoicesInv', KeysInv, queued_notes_off, KeysUp({}),
         UNCHANGED <<nvoices, note_info, lastgate, seen, fresh, stale>>
  PROVE  KeysInv'
<1>1. NVOICES \in 0..NVOICES /\ queued \subseteq Voices /\ queued \subseteq ToSet(used_voices)
  BY DEF LV2Assumption, VoicesInv, Listed
<1>2. /\ FirstVoices(NVOICES) \in Seq(Voices) /\ IsInjective(FirstVoices(NVOICES))
      /\ ToSet(FirstVoices(NVOICES)) = Voices
  BY <1>1, FirstOnes DEF Voices
<1>3. /\ Ascending(queued) \in Seq(Voices) /\ IsInjective(Ascending(queued))
      /\ ToSet(Ascending(queued)) = queued
  <2> DEFINE F == FirstVoices(NVOICES)
  <2>1. F \in Seq(Voices) /\ IsInjective(F) /\ ToSet(F) = Voices /\ Ascending(queued) = Keep(F, queued)
    BY <1>2 DEF Ascending
  <2> HIDE DEF F
  <2>2. /\ Keep(F, queued) \in Seq(Voices) /\ IsInjective(Keep(F, queued))
        /\ ToSet(Keep(F, queued)) = ToSet(F) \cap queued
    BY <2>1, KeepLists
  <2> QED
    BY <1>1, <2>1, <2>2
<1>4. GiveBack(Ascending(queued)) /\ ToSet(Ascending(queued)) \subseteq ToSet(used_voices)
  BY <1>1, <1>3 DEF queued_notes_off
<1>5. ToSet(used_voices') = ToSet(used_voices) \ queued
  BY <1>3, <1>4, GiveBackKeeps
<1>6. queued' = {} /\ notes' = Forget(queued)
  BY <1>3, <1>4 DEF GiveBack
<1>7. \A k \in Keys : holder[k] >= 0 => holder[k] \in ToSet(used_voices')
  BY <1>5, HoldersUsed
<1>8. ASSUME NEW v \in ToSet(used_voices'), note_info[v] \notin restruck
      PROVE  v \notin queued /\ notes'[note_info[v]] = notes[note_info[v]]
  <2>1. v \in ToSet(used_voices) /\ v \in Voices /\ v \notin queued /\ note_info[v] \in Keys
    BY <1>5, Sizes DEF VoicesInv
  <2>2. \A w \in queued : note_info[w] # note_info[v]
    BY <1>1, <1>8, <2>1 DEF KeysInv, OneVoicePerKey
  <2> QED
    BY <1>6, <2>1, <2>2 DEF Forget
<1>9. stale' \subseteq Voices
  BY DEF KeysInv
<1> QED
  BY <1>5, <1>6, <1>7, <1>8, <1>9, KeysUpKeep

\* All notes of a channel end, and all its keys count as up.
LEMMA ChannelOffKeys ==
  ASSUME LV2Assumption, VoicesInv, VoicesInv', KeysInv, NEW ch \in Channels,
         GiveBack(Keep(used_voices, Running(ch))), KeysUp({ch} \X Notes),
         UNCHANGED <<nvoices, note_info, lastgate, seen, fresh, stale>>
  PROVE  KeysInv'
<1> DEFINE off == Keep(used_voices, Running(ch))
<1>1. used_voices \in Seq(Voices) /\ IsInjective(used_voices)
  BY DEF VoicesInv, Listed
<1>2. /\ off \in Seq(Voices) /\ IsInjective(off)
      /\ ToSet(off) = ToSet(used_voices) \cap Running(ch)
  BY <1>1, KeepLists
<1>3. /\ ToSet(used_voices') = ToSet(used_voices) \ Running(ch)
      /\ queued' = queued \ ToSet(off) /\ notes' = Forget(ToSet(off))
  BY ChannelOff DEF GiveBack
<1> HIDE DEF off
<1>4. \A v \in ToSet(used_voices') : /\ v \in ToSet(used_voices) /\ v \in Voices
                                     /\ note_info[v] \in Keys /\ note_info[v][1] # ch
                                     /\ v \notin ToSet(off)
  BY <1>2, <1>3, Sizes DEF Running, VoicesInv
<1>5. ASSUME NEW k \in Keys \ ({ch} \X Notes), holder[k] >= 0
      PROVE  holder[k] \in ToSet(used_voices') /\ holder[k] \notin queued'
  <2>1. k[1] # ch
    BY DEF Keys
  <2> QED
    BY <1>3, <1>5, <2>1, HoldersUsed DEF Running
<1>6. ASSUME NEW v \in ToSet(used_voices') \ queued', note_info[v] \notin restruck
      PROVE  /\ note_info[v] \notin {ch} \X Notes /\ v \notin queued
             /\ notes'[note_info[v]] = notes[note_info[v]]
  <2>1. \A w \in ToSet(off) : note_info[w][1] = ch
    BY <1>2 DEF Running
  <2>2. \A w \in ToSet(off) : note_info[w] # note_info[v]
    BY <1>4, <2>1
  <2>3. v \notin queued
    BY <1>3, <1>4
  <2>4. note_info[v] \notin {ch} \X Notes
    BY <1>4
  <2> QED
    BY <1>3, <1>4, <2>2, <2>3, <2>4 DEF Forget
<1>7. stale' \subseteq Voices /\ ToSet(used_voices') \subseteq ToSet(used_voices)
  BY <1>3 DEF KeysInv
<1> QED
  BY <1>5, <1>6, <1>7, KeysUpKeep

\* A reset leaves no voice in use and no key down.
LEMMA ResetKeys ==
  ASSUME VoicesInv, VoicesInv', KeysInv, ToSet(used_voices') = {}, KeysUp(Keys),
         UNCHANGED <<note_info, stale>>
  PROVE  KeysInv'
<1>1. stale' \subseteq Voices
  BY DEF KeysInv
<1> QED
  BY <1>1, KeysUpKeep

\* A key that goes up, whose voice ends now, with the next block, or was stolen before.
LEMMA NoteOffKeys ==
  ASSUME LV2Assumption, VoicesInv, VoicesInv', KeysInv, NEW ch \in Channels, NEW note \in Notes,
         dealloc_voice(ch, note), UNCHANGED <<nvoices, stale>>, KeysUp({<<ch, note>>})
  PROVE  KeysInv'
<1> DEFINE k0 == <<ch, note>>
           v0 == notes[k0]
<1>0. /\ k0 \in Keys /\ stale' \subseteq Voices /\ lastgate' = lastgate
      /\ ToSet(used_voices) \subseteq Voices /\ note_info \in [Voices -> Keys]
      /\ notes \in [Keys -> Voices \cup {-1}]
  BY Sizes DEF Keys, KeysInv, dealloc_voice, VoicesInv
<1>1. ASSUME v0 >= 0, notes' = [notes EXCEPT ![k0] = -1], UNCHANGED note_info,
             (ToSet(used_voices') = ToSet(used_voices) /\ queued' = queued \cup {v0})
             \/ (ToSet(used_voices') = ToSet(used_voices) \ {v0} /\ queued' = queued)
      PROVE  KeysInv'
  <2>1. v0 \in ToSet(used_voices) /\ v0 \notin queued /\ note_info[v0] = k0
    BY <1>0, <1>1 DEF VoicesInv, NotesLeadToVoices
  <2> HIDE DEF v0, k0
  <2>2. ASSUME NEW k \in Keys \ {k0}, holder[k] >= 0
        PROVE  holder[k] \in ToSet(used_voices') /\ holder[k] \notin queued'
    BY <1>1, <2>1, <2>2, HoldersUsed
  <2>3. ASSUME NEW v \in ToSet(used_voices') \ queued', note_info[v] \notin restruck
        PROVE  /\ note_info[v] \notin {k0} /\ v \notin queued
               /\ notes'[note_info[v]] = notes[note_info[v]]
    <3>1. v \in ToSet(used_voices) /\ v \notin queued /\ v # v0
      BY <1>1, <2>3
    <3>2. note_info[v] # k0
      BY <2>1, <2>3, <3>1 DEF KeysInv, OneVoicePerKey
    <3> QED
      BY <1>0, <1>1, <3>1, <3>2
  <2>4. ToSet(used_voices') \subseteq ToSet(used_voices)
    BY <1>1
  <2>5. KeysUp({k0})
    BY DEF k0
  <2> QED
    BY <1>0, <1>1, <2>2, <2>3, <2>4, <2>5, KeysUpKeep
<1>2. CASE QueueNoteOff(ch, note)
  <2>1. /\ v0 >= 0 /\ queued' = queued \cup {v0}
        /\ notes' = IF v0 \in queued THEN notes ELSE [notes EXCEPT ![k0] = -1]
        /\ UNCHANGED <<used_voices, note_info>>
    BY <1>2 DEF QueueNoteOff
  <2>2. v0 \notin queued
    BY <1>0, <2>1 DEF VoicesInv, NotesLeadToVoices
  <2> QED
    BY <1>1, <2>1, <2>2
<1>3. CASE ReleaseVoice(ch, note)
  <2>1. /\ v0 >= 0 /\ notes' = [notes EXCEPT ![k0] = -1] /\ UNCHANGED <<note_info, queued>>
        /\ used_voices' = Keep(used_voices, Voices \ {v0})
    BY <1>3 DEF ReleaseVoice, Without
  <2>2. used_voices \in Seq(Voices) /\ IsInjective(used_voices)
    BY DEF VoicesInv, Listed
  <2>3. ToSet(used_voices') = ToSet(used_voices) \ {v0}
    BY <2>1, <2>2, Fewer
  <2> QED
    BY <1>1, <2>1, <2>3
<1>4. CASE v0 < 0 /\ UNCHANGED <<alloc, zones, history>>
  <2>1. UNCHANGED <<notes, used_voices, note_info, queued>>
    BY <1>4 DEF alloc
  <2>2. \A k \in Keys : holder[k] >= 0 =>
            holder[k] \in ToSet(used_voices') /\ holder[k] \notin queued'
    BY <2>1, HoldersUsed
  <2>3. ASSUME NEW v \in ToSet(used_voices') \ queued', note_info[v] \notin restruck
        PROVE  note_info[v] \notin {k0} /\ v \notin queued
    <3>1. v \in Int /\ v >= 0 /\ notes[note_info[v]] = v
      BY <1>0, <2>1, <2>3 DEF KeysInv, OneVoicePerKey, Voices
    <3>2. v0 < 0
      BY <1>4
    <3>3. note_info[v] # k0
      <4> HIDE DEF k0
      <4> QED
        BY <3>1, <3>2
    <3>4. v \notin queued
      BY <2>1, <2>3
    <3> HIDE DEF k0, v0
    <3> QED
      BY <3>3, <3>4
  <2> HIDE DEF v0
  <2> QED
    BY <1>0, <2>1, <2>2, <2>3, KeysUpKeep
<1> QED
  BY <1>2, <1>3, <1>4 DEF dealloc_voice

\* A key that goes down, with its old voice, a free one or a stolen one.
LEMMA NoteOnKeys ==
  ASSUME LV2Assumption, VoicesInv, VoicesInv', KeysInv, nvoices \in 1..NVOICES,
         NEW ch \in Channels, NEW note \in Notes, alloc_voice(ch, note), UNCHANGED nvoices,
         KeyDown(<<ch, note>>, notes'[<<ch, note>>]),
         stale' = stale \ {notes'[<<ch, note>>]}
  PROVE  KeysInv'
<1> DEFINE k0 == <<ch, note>>
<1>0. /\ k0 \in Keys /\ stale' \subseteq Voices /\ lastgate' = lastgate
      /\ ToSet(used_voices) \subseteq Voices /\ note_info \in [Voices -> Keys]
      /\ notes \in [Keys -> Voices \cup {-1}] /\ queued \subseteq ToSet(used_voices)
  BY Sizes DEF Keys, KeysInv, alloc_voice, VoicesInv, Listed
<1> HIDE DEF k0
<1>1. CASE Retrigger(ch, note)
  <2> DEFINE v == notes[k0]
  <2>1. v >= 0 /\ UNCHANGED <<notes, note_info, queued>>
    BY <1>1 DEF Retrigger, k0
  <2>2. v \in ToSet(used_voices) /\ v \in Voices /\ note_info[v] = k0 /\ v \notin queued
    BY <1>0, <2>1 DEF VoicesInv, NotesLeadToVoices
  <2>3. ToSet(used_voices') = ToSet(used_voices) \cup {v}
    BY <1>0, <1>1, <2>2, RetriggerKeeps
  <2>4. /\ note_info' = [note_info EXCEPT ![v] = k0] /\ queued' = queued \ {v}
        /\ notes'[k0] = v /\ \A k \in Keys \ {k0} : notes'[k] = notes[k]
    BY <1>0, <2>1, <2>2
  <2>5. KeyDown(k0, v)
    BY <2>4 DEF k0
  <2> HIDE DEF v
  <2> QED
    BY <1>0, <2>2, <2>3, <2>4, <2>5, KeyDownKeeps
<1>2. CASE TakeFree(ch, note)
  <2> DEFINE v == Head(free_voices)
  <2>1. /\ note_info' = [note_info EXCEPT ![v] = k0] /\ n_free > 0
        /\ notes' = [notes EXCEPT ![k0] = v] /\ queued' = queued
    BY <1>2 DEF TakeFree, k0
  <2>2. v \in Voices /\ v \notin ToSet(used_voices)
    <3>1. free_voices # <<>> /\ free_voices \in Seq(Voices)
      BY <2>1 DEF VoicesInv, Listed
    <3>2. v \in ToSet(free_voices) /\ v \in Voices
      BY <3>1 DEF ToSet
    <3> QED
      BY <3>2 DEF VoicesInv, Listed
  <2>3. ToSet(used_voices') = ToSet(used_voices) \cup {v}
    BY <1>0, <1>2, TakeFreeKeeps
  <2> HIDE DEF v
  <2>4. /\ queued' = queued \ {v} /\ notes'[k0] = v
        /\ \A k \in Keys \ {k0} : notes'[k] = notes[k]
    BY <1>0, <2>1, <2>2
  <2>5. KeyDown(k0, v)
    BY <2>4 DEF k0
  <2> QED
    BY <1>0, <2>1, <2>2, <2>3, <2>4, <2>5, KeyDownKeeps
<1>3. CASE Steal(ch, note)
  <2> DEFINE v == Head(used_voices)
  <2>1. /\ note_info' = [note_info EXCEPT ![v] = k0] /\ queued' = queued \ {v}
        /\ notes' = [notes EXCEPT ![note_info[v]] = -1, ![k0] = v]
    BY <1>3 DEF Steal, k0
  <2>2. ToSet(used_voices') = ToSet(used_voices) /\ v \in ToSet(used_voices)
    BY <1>0, <1>3, StealKeeps
  <2> HIDE DEF v
  <2>3. /\ v \in Voices /\ notes'[k0] = v
        /\ \A k \in Keys \ {k0} : notes'[k] = notes[k] \/ k = note_info[v]
    BY <1>0, <2>1, <2>2
  <2>4. KeyDown(k0, v) /\ ToSet(used_voices') = ToSet(used_voices) \cup {v}
    BY <2>2, <2>3 DEF k0
  <2> QED
    BY <1>0, <2>1, <2>2, <2>3, <2>4, KeyDownKeeps
<1> QED
  BY <1>1, <1>2, <1>3 DEF alloc_voice

\* Every step keeps what Inv says of the keys.
LEMMA KeysNext ==
  ASSUME LV2Assumption, VoicesInv, HostInv, KeysInv, [Next]_vars, VoicesInv'
  PROVE  KeysInv'
<1>0. stale \subseteq Voices /\ nvoices \in 1..NVOICES /\ ToSet(used_voices) \subseteq Voices
  BY Sizes DEF KeysInv, HostInv
<1>1. CASE RunInactive
  <2>1. /\ queued_notes_off /\ KeysUp({})
        /\ UNCHANGED <<nvoices, note_info, lastgate, seen, fresh, stale>>
    BY <1>1 DEF RunInactive, host, history
  <2> QED
    BY <2>1, QueuedOffKeys
<1>2. CASE BeginRun
  <2>1. /\ queued_notes_off /\ KeysUp({})
        /\ UNCHANGED <<nvoices, note_info, lastgate, seen, fresh, stale>>
    BY <1>2 DEF BeginRun, history
  <2> QED
    BY <2>1, QueuedOffKeys
<1>3. CASE activate
  <2>1. UNCHANGED <<notes, used_voices, note_info, queued, keys, stale>>
    BY <1>3 DEF activate, alloc
  <2> QED
    BY <1>0, <2>1, KeysKept
<1>4. CASE deactivate
  <2>1. used_voices' = <<>> /\ KeysUp(Keys) /\ UNCHANGED <<note_info, stale>>
    BY <1>4 DEF deactivate, ResetVoices
  <2>2. ToSet(used_voices') = {}
    BY <2>1 DEF ToSet
  <2> QED
    BY <2>1, <2>2, ResetKeys
<1>5. ASSUME NEW n \in Polys, ChangePolyphony(n) PROVE KeysInv'
  <2>1. used_voices' = <<>> /\ KeysUp(Keys) /\ UNCHANGED <<note_info, stale>>
    BY <1>5 DEF ChangePolyphony, ResetVoices
  <2>2. ToSet(used_voices') = {}
    BY <2>1 DEF ToSet
  <2> QED
    BY <2>1, <2>2, ResetKeys
<1>6. ASSUME Event PROVE UNCHANGED nvoices
  BY <1>6 DEF Event, host
<1>7. ASSUME NEW c \in Channels, NEW n \in Notes, NoteOn(c, n) PROVE KeysInv'
  <2>1. /\ Event /\ alloc_voice(c, n) /\ KeyDown(<<c, n>>, notes'[<<c, n>>])
        /\ stale' = stale \ {notes'[<<c, n>>]}
    BY <1>7 DEF NoteOn
  <2> QED
    BY <1>0, <1>6, <2>1, NoteOnKeys
<1>8. ASSUME NEW c \in Channels, NEW n \in Notes, NoteOff(c, n) PROVE KeysInv'
  <2>1. Event /\ dealloc_voice(c, n) /\ KeysUp({<<c, n>>}) /\ UNCHANGED stale
    BY <1>8 DEF NoteOff
  <2> QED
    BY <1>6, <2>1, NoteOffKeys
<1>9. ASSUME NEW c \in Channels, AllNotesOff(c) PROVE KeysInv'
  <2>1. /\ Event /\ GiveBack(Keep(used_voices, Running(c))) /\ KeysUp({c} \X Notes)
        /\ UNCHANGED <<note_info, lastgate, seen, fresh, stale>>
    BY <1>9 DEF AllNotesOff, history
  <2> QED
    BY <1>6, <2>1, ChannelOffKeys
<1>10. ASSUME UNCHANGED <<alloc, keys>>, stale' \subseteq Voices PROVE KeysInv'
  BY <1>10, KeysKept DEF alloc
<1>11. ASSUME NEW c \in Channels, AllControllersOff(c) PROVE KeysInv'
  BY <1>0, <1>10, <1>11 DEF AllControllersOff
<1>12. ASSUME NEW c \in Channels, NEW b \in Bends, PitchBend(c, b) PROVE KeysInv'
  BY <1>0, <1>10, <1>12 DEF PitchBend
<1>13. ASSUME NEW c \in Channels, NEW i \in 1..2, NEW b \in Rpns, SelectRpn(c, i, b)
       PROVE  KeysInv'
  BY <1>0, <1>10, <1>13 DEF SelectRpn
<1>14. ASSUME NEW c \in Channels, NEW e, ApplyRpn(c, e) PROVE KeysInv'
  BY <1>0, <1>10, <1>14 DEF ApplyRpn
<1>15. ASSUME NEW C \in SUBSET Channels, NEW t \in Scales, NEW r \in BOOLEAN,
              ScaleTuning(C, t, r)
       PROVE  KeysInv'
  BY <1>0, <1>10, <1>15 DEF ScaleTuning, RunningOn, Running
<1>16. ASSUME NEW c \in Channels, NEW x \in Ctrls, ControlChange(c, x) PROVE KeysInv'
  BY <1>0, <1>10, <1>16 DEF ControlChange
<1>17. ASSUME NEW p, EndRun(p) PROVE KeysInv'
  BY <1>0, <1>10, <1>17 DEF EndRun
<1>18. CASE UNCHANGED vars
  BY <1>0, <1>10, <1>18 DEF vars
<1> QED
  BY <1>1, <1>2, <1>3, <1>4, <1>5, <1>7, <1>8, <1>9, <1>11, <1>12, <1>13, <1>14, <1>15, <1>16,
     <1>17, <1>18 DEF Next, DataEntry, DataStep

\* Every step keeps Inv.
LEMMA InvNext == LV2Assumption /\ Inv /\ [Next]_vars => Inv'
<1> SUFFICES ASSUME LV2Assumption, VoicesInv, HostInv, KeysInv, [Next]_vars
             PROVE  VoicesInv' /\ HostInv' /\ KeysInv'
  BY InvParts, InvPartsNext
<1>1. VoicesInv' /\ HostInv'
  BY VoicesNext
<1> QED
  BY <1>1, KeysNext

\* A voice whose gate is up has a key that is down, or waits for its note-off, or its key
\* was struck again while an earlier voice of it waited (dealloc_voice, queued_notes_off).
LEMMA NothingHangs == Inv => NoNoteHangs
<1> SUFFICES ASSUME VoicesInv, KeysInv, NEW v \in Voices, gate[v] = 1, v \notin queued,
                    note_info[v] \notin restruck
             PROVE  holder[note_info[v]] = v
  BY InvParts DEF NoNoteHangs
<1>1. v \in ToSet(used_voices)
  BY DEF VoicesInv, GatesFollowUse
<1> QED
  BY <1>1 DEF KeysInv, OneVoicePerKey

\* Whatever sequence of notes, thefts, all-notes-off, changes of the polyphony and blocks:
\* the voices are in their two lists, the counters count them, a note leads to the voice
\* that plays it, the gates follow the list of used voices, a key that is down has its voice
\* until that is stolen, and a new note on a voice is heard as new (alloc_voice,
\* dealloc_voice, queued_notes_off, run).
THEOREM Invariance == LV2Assumption /\ Spec => []Inv
<1> SUFFICES ASSUME LV2Assumption PROVE Spec => []Inv
  OBVIOUS
<1>1. Init => Inv
  BY InvInit
<1>2. Inv /\ [Next]_vars => Inv'
  BY InvNext
<1> QED
  BY <1>1, <1>2, PTL DEF Spec

-----------------------------------------------------------------------------
(***************************************************************************)
(* The frequencies and the controls of the voices in use                   *)
(***************************************************************************)
\* Voices that go out of use, when nothing else changes.
LEMMA FewerFollow ==
  ASSUME InTune, ControlsFollowChannel, ToSet(used_voices') \subseteq ToSet(used_voices),
         UNCHANGED <<note_info, freq, ctrl, tune, tuning, bend, midivals, stale>>
  PROVE  (InTune /\ ControlsFollowChannel)'
BY DEF InTune, ControlsFollowChannel

\* A voice that is turned on has the frequency and the control of its channel.
LEMMA OnFollows ==
  ASSUME VoicesInv, HostInv, InTune, ControlsFollowChannel, NEW v \in Voices, NEW ch, NEW note,
         voice_on(v, note, ch), ToSet(used_voices') \subseteq ToSet(used_voices) \cup {v},
         ToSet(used_voices) \subseteq Voices, note_info'[v] = <<ch, note>>,
         \A w \in Voices \ {v} : note_info'[w] = note_info[w], stale' = stale \ {v},
         UNCHANGED <<pitch, ctls>>
  PROVE  (InTune /\ ControlsFollowChannel)'
<1>1. UNCHANGED <<tune, tuning, bend, midivals>>
  BY DEF pitch, ctls
<1>2. /\ freq' = [freq EXCEPT ![v] = <<note, tune[ch], tuning[ch], bend[ch]>>]
      /\ ctrl' = [ctrl EXCEPT ![v] = midivals[ch]]
  BY DEF voice_on, midicps
<1>3. DOMAIN freq = Voices /\ DOMAIN ctrl = Voices
  BY DEF HostInv
<1>4. ASSUME NEW w \in ToSet(used_voices'), w = v
      PROVE  /\ freq'[w] = <<note, tune[ch], tuning[ch], bend[ch]>> /\ ctrl'[w] = midivals[ch]
             /\ note_info'[w][1] = ch /\ note_info'[w][2] = note
  BY <1>2, <1>3, <1>4
<1>5. ASSUME NEW w \in ToSet(used_voices'), w # v
      PROVE  /\ w \in ToSet(used_voices) /\ freq'[w] = freq[w] /\ ctrl'[w] = ctrl[w]
             /\ note_info'[w] = note_info[w]
  BY <1>2, <1>3, <1>5
<1>6. InTune'
  <2> SUFFICES ASSUME NEW w \in ToSet(used_voices')
               PROVE  /\ freq'[w][1] = note_info'[w][2]
                      /\ freq'[w][2] = tune'[note_info'[w][1]]
                      /\ freq'[w][4] = bend'[note_info'[w][1]]
                      /\ w \notin stale' => freq'[w][3] = tuning'[note_info'[w][1]]
    BY DEF InTune
  <2>1. CASE w = v
    BY <1>1, <1>4, <2>1
  <2>2. CASE w # v
    BY <1>1, <1>5, <2>2 DEF InTune
  <2> QED
    BY <2>1, <2>2
<1>7. ControlsFollowChannel'
  <2> SUFFICES ASSUME NEW w \in ToSet(used_voices')
               PROVE  ctrl'[w] = midivals'[note_info'[w][1]]
    BY DEF ControlsFollowChannel
  <2>1. CASE w = v
    BY <1>1, <1>4, <2>1
  <2>2. CASE w # v
    BY <1>1, <1>5, <2>2 DEF ControlsFollowChannel
  <2> QED
    BY <2>1, <2>2
<1> QED
  BY <1>6, <1>7

\* A key that goes down keeps every voice in use in tune with its channel.
LEMMA NoteOnFollows ==
  ASSUME LV2Assumption, VoicesInv, HostInv, InTune, ControlsFollowChannel, NEW ch \in Channels,
         NEW note \in Notes, alloc_voice(ch, note), UNCHANGED <<nvoices, pitch, ctls>>,
         stale' = stale \ {notes'[<<ch, note>>]}
  PROVE  (InTune /\ ControlsFollowChannel)'
<1>0. /\ UNCHANGED <<lastgate, nvoices>> /\ <<ch, note>> \in Keys /\ nvoices \in 1..NVOICES
      /\ note_info \in [Voices -> Keys] /\ ToSet(used_voices) \subseteq Voices
      /\ ToSet(free_voices) \subseteq Voices /\ notes \in [Keys -> Voices \cup {-1}]
  BY Sizes DEF alloc_voice, Keys, VoicesInv, HostInv
<1>1. CASE Retrigger(ch, note)
  <2> DEFINE v == notes[<<ch, note>>]
  <2>1. v >= 0 /\ voice_on(v, note, ch) /\ UNCHANGED note_info /\ stale' = stale \ {v}
    BY <1>1 DEF Retrigger
  <2>2. v \in ToSet(used_voices) /\ note_info[v] = <<ch, note>>
    BY <1>0, <2>1 DEF VoicesInv, NotesLeadToVoices
  <2>3. ToSet(used_voices') = ToSet(used_voices)
    BY <1>0, <1>1, RetriggerKeeps
  <2> HIDE DEF v
  <2> QED
    BY <1>0, <2>1, <2>2, <2>3, OnFollows
<1>2. CASE TakeFree(ch, note)
  <2> DEFINE v == Head(free_voices)
  <2>1. /\ voice_on(v, note, ch) /\ note_info' = [note_info EXCEPT ![v] = <<ch, note>>]
        /\ n_free > 0 /\ notes' = [notes EXCEPT ![<<ch, note>>] = v]
    BY <1>2 DEF TakeFree
  <2>2. v \in Voices
    BY <2>1 DEF VoicesInv, Listed
  <2>3. ToSet(used_voices') = ToSet(used_voices) \cup {v}
    BY <1>0, <1>2, TakeFreeKeeps
  <2> HIDE DEF v
  <2>4. /\ note_info'[v] = <<ch, note>> /\ \A w \in Voices \ {v} : note_info'[w] = note_info[w]
        /\ stale' = stale \ {v}
    BY <1>0, <2>1, <2>2
  <2> QED
    BY <1>0, <2>1, <2>2, <2>3, <2>4, OnFollows
<1>3. CASE Steal(ch, note)
  <2> DEFINE v == Head(used_voices)
  <2>1. /\ voice_on(v, note, ch) /\ note_info' = [note_info EXCEPT ![v] = <<ch, note>>]
        /\ notes' = [notes EXCEPT ![note_info[v]] = -1, ![<<ch, note>>] = v]
    BY <1>3 DEF Steal
  <2>2. ToSet(used_voices') = ToSet(used_voices) /\ v \in ToSet(used_voices)
    BY <1>0, <1>3, StealKeeps
  <2> HIDE DEF v
  <2>3. v \in Voices
    BY <1>0, <2>2
  <2>4. /\ note_info'[v] = <<ch, note>> /\ \A w \in Voices \ {v} : note_info'[w] = note_info[w]
        /\ stale' = stale \ {v}
    BY <1>0, <2>1, <2>3
  <2> QED
    BY <1>0, <2>1, <2>2, <2>3, <2>4, OnFollows
<1> QED
  BY <1>1, <1>2, <1>3 DEF alloc_voice

\* update_voices gives the running voices of the channels C the present pitch, and the
\* pitch of the other channels is as it was, but for voices whose scale tuning is stale.
LEMMA UpdateFollows ==
  ASSUME VoicesInv, InTune, ControlsFollowChannel, NEW C \in SUBSET Channels, update_voices(C),
         \A c \in Channels \ C : tune'[c] = tune[c] /\ bend'[c] = bend[c],
         \A v \in ToSet(used_voices) \ (RunningOn(C) \cup stale') :
             v \notin stale /\ tuning'[note_info[v][1]] = tuning[note_info[v][1]],
         UNCHANGED <<used_voices, note_info, ctrl, midivals>>
  PROVE  (InTune /\ ControlsFollowChannel)'
<1>1. ToSet(used_voices) \subseteq Voices /\ note_info \in [Voices -> Keys]
  BY DEF VoicesInv, ToSet
<1>2. ASSUME NEW v \in ToSet(used_voices)
      PROVE  LET c == note_info[v][1] IN
             /\ freq'[v][1] = note_info[v][2] /\ freq'[v][2] = tune'[c] /\ freq'[v][4] = bend'[c]
             /\ v \notin stale' => freq'[v][3] = tuning'[c]
  <2> DEFINE c == note_info[v][1]
  <2>1. c \in Channels
    BY <1>1 DEF Keys
  <2>2. v \in UNION {Running(d) : d \in C} <=> c \in C
    BY DEF Running
  <2>3. freq'[v] = IF v \in UNION {Running(d) : d \in C}
                   THEN <<note_info[v][2], tune'[c], tuning'[c], bend'[c]>> ELSE freq[v]
    BY <1>1 DEF update_voices
  <2>4. CASE c \in C
    BY <2>2, <2>3, <2>4
  <2>5. CASE c \notin C
    BY <2>1, <2>2, <2>3, <2>5 DEF InTune, RunningOn
  <2> QED
    BY <2>4, <2>5
<1>3. InTune'
  BY <1>2 DEF InTune
<1>4. ControlsFollowChannel'
  BY DEF ControlsFollowChannel
<1> QED
  BY <1>3, <1>4

\* Every step keeps the voices in tune.
LEMMA FollowNext ==
  ASSUME LV2Assumption, VoicesInv, HostInv, InTune, ControlsFollowChannel, [Next]_vars
  PROVE  (InTune /\ ControlsFollowChannel)'
<1>1. CASE RunInactive
  <2>1. /\ queued_notes_off
        /\ UNCHANGED <<nvoices, note_info, freq, ctrl, lastgate, tune, tuning, bend, midivals, seen,
                       fresh, stale>>
    BY <1>1 DEF RunInactive, host, pitch, ctls, history
  <2> QED
    BY <2>1, QueuedOff, FewerFollow
<1>2. CASE BeginRun
  <2>1. /\ queued_notes_off
        /\ UNCHANGED <<nvoices, note_info, freq, ctrl, lastgate, tune, tuning, bend, midivals, seen,
                       fresh, stale>>
    BY <1>2 DEF BeginRun, pitch, ctls, history
  <2> QED
    BY <2>1, QueuedOff, FewerFollow
<1>3. ASSUME ToSet(used_voices') = {} PROVE (InTune /\ ControlsFollowChannel)'
  BY <1>3 DEF InTune, ControlsFollowChannel
<1>4. CASE activate
  <2>1. ToSet(used_voices') = {}
    BY <1>4 DEF activate, alloc, HostInv, ToSet
  <2> QED
    BY <1>3, <2>1
<1>5. CASE deactivate
  <2>1. ToSet(used_voices') = {}
    BY <1>5 DEF deactivate, ResetVoices, ToSet
  <2> QED
    BY <1>3, <2>1
<1>6. ASSUME NEW n \in Polys, ChangePolyphony(n) PROVE (InTune /\ ControlsFollowChannel)'
  <2>1. ToSet(used_voices') = {}
    BY <1>6 DEF ChangePolyphony, ResetVoices, ToSet
  <2> QED
    BY <1>3, <2>1
<1>7. ASSUME Event PROVE UNCHANGED nvoices
  BY <1>7 DEF Event, host
<1>8. ASSUME NEW c \in Channels, NEW n \in Notes, NoteOn(c, n)
      PROVE  (InTune /\ ControlsFollowChannel)'
  BY <1>7, <1>8, NoteOnFollows DEF NoteOn
<1>9. ASSUME NEW c \in Channels, NEW n \in Notes, NoteOff(c, n)
      PROVE  (InTune /\ ControlsFollowChannel)'
  <2>1. /\ ToSet(used_voices') \subseteq ToSet(used_voices)
        /\ UNCHANGED <<freq, ctrl, note_info>>
    BY <1>7, <1>9, NoteOffKeeps DEF NoteOff
  <2>2. UNCHANGED <<tune, tuning, bend, midivals, stale>>
    BY <1>9 DEF NoteOff, pitch, ctls
  <2> QED
    BY <2>1, <2>2, FewerFollow
<1>10. ASSUME NEW c \in Channels, AllNotesOff(c) PROVE (InTune /\ ControlsFollowChannel)'
  <2>1. /\ Event /\ GiveBack(Keep(used_voices, Running(c))) /\ bend' = [bend EXCEPT ![c] = 0]
        /\ UNCHANGED <<note_info, freq, ctrl, lastgate, tune, tuning, midivals, seen, fresh, stale>>
    BY <1>10 DEF AllNotesOff, ctls, history
  <2>2. ToSet(used_voices') = ToSet(used_voices) \ Running(c)
    BY <1>7, <2>1, ChannelOff
  <2>3. ASSUME NEW v \in ToSet(used_voices') PROVE note_info[v][1] # c
    BY <2>2 DEF Running
  <2>4. \A v \in ToSet(used_voices') : bend'[note_info[v][1]] = bend[note_info[v][1]]
    <3> SUFFICES ASSUME NEW v \in ToSet(used_voices')
                 PROVE  bend'[note_info[v][1]] = bend[note_info[v][1]]
      OBVIOUS
    <3>1. v \in Voices
      BY <2>2, Sizes
    <3>2. note_info[v][1] \in Channels /\ DOMAIN bend = Channels
      BY <3>1 DEF VoicesInv, HostInv, Keys
    <3> QED
      BY <2>1, <2>3, <3>2
  <2> QED
    BY <2>1, <2>2, <2>4 DEF InTune, ControlsFollowChannel
<1>11. ASSUME UNCHANGED <<used_voices, note_info, freq, ctrl, tune, tuning, bend, midivals, stale>>
       PROVE  (InTune /\ ControlsFollowChannel)'
  BY <1>11 DEF InTune, ControlsFollowChannel
<1>12. ASSUME NEW c \in Channels, AllControllersOff(c) PROVE (InTune /\ ControlsFollowChannel)'
  BY <1>11, <1>12 DEF AllControllersOff, alloc, zones, ctls
<1>13. ASSUME NEW c \in Channels, NEW b \in Bends, PitchBend(c, b)
       PROVE  (InTune /\ ControlsFollowChannel)'
  <2>1. /\ update_voices({c}) /\ UNCHANGED <<used_voices, note_info, ctrl, midivals, tune, tuning>>
        /\ stale' = stale \ RunningOn({c})
        /\ bend' = [bend EXCEPT ![c] = b * (100 * range[c][1] + range[c][2])]
    BY <1>13 DEF PitchBend, alloc, ctls
  <2>2. \A d \in Channels \ {c} : tune'[d] = tune[d] /\ bend'[d] = bend[d]
    BY <2>1 DEF HostInv
  <2>3. /\ {c} \in SUBSET Channels
        /\ \A v \in ToSet(used_voices) \ (RunningOn({c}) \cup stale') :
               v \notin stale /\ tuning'[note_info[v][1]] = tuning[note_info[v][1]]
    BY <2>1
  <2> QED
    BY <2>1, <2>2, <2>3, UpdateFollows
<1>14. ASSUME NEW c \in Channels, NEW i \in 1..2, NEW b \in Rpns, SelectRpn(c, i, b)
       PROVE  (InTune /\ ControlsFollowChannel)'
  BY <1>11, <1>14 DEF SelectRpn, alloc, zones, ctls
<1>15. ASSUME NEW c \in Channels, NEW e, ApplyRpn(c, e) PROVE (InTune /\ ControlsFollowChannel)'
  <2> DEFINE which == IF rpn[c][1] = 0 THEN rpn[c][2] ELSE -1
             C == IF which \in {1, 2} THEN {c} ELSE {}
  <2>1. /\ update_voices(C) /\ UNCHANGED <<used_voices, note_info, ctrl, midivals, bend, tuning>>
        /\ stale' = stale \ RunningOn(C)
        /\ tune' = IF which \in {1, 2} THEN [tune EXCEPT ![c] = <<coarse'[c], fine'[c]>>]
                   ELSE tune
    BY <1>15 DEF ApplyRpn, alloc, ctls
  <2> HIDE DEF which
  <2>2. \A d \in Channels \ C : tune'[d] = tune[d] /\ bend'[d] = bend[d]
    BY <2>1 DEF HostInv
  <2>3. /\ C \in SUBSET Channels
        /\ \A v \in ToSet(used_voices) \ (RunningOn(C) \cup stale') :
               v \notin stale /\ tuning'[note_info[v][1]] = tuning[note_info[v][1]]
    BY <2>1
  <2> HIDE DEF C
  <2> QED
    BY <2>1, <2>2, <2>3, UpdateFollows
<1>16. ASSUME NEW C \in SUBSET Channels, NEW t \in Scales, NEW r \in BOOLEAN,
              ScaleTuning(C, t, r)
       PROVE  (InTune /\ ControlsFollowChannel)'
  <2> DEFINE D == IF r THEN C ELSE {}
  <2>1. update_voices(D) /\ UNCHANGED <<used_voices, note_info, ctrl, midivals, bend, tune>>
    BY <1>16 DEF ScaleTuning, alloc, ctls
  <2>2. D \in SUBSET Channels /\ \A d \in Channels \ D : tune'[d] = tune[d] /\ bend'[d] = bend[d]
    BY <2>1
  <2>3. /\ tuning' = [d \in Channels |-> IF d \in C THEN t ELSE tuning[d]]
        /\ stale' = IF r THEN stale \ RunningOn(C) ELSE stale \cup RunningOn(C)
    BY <1>16 DEF ScaleTuning
  <2>4. ASSUME NEW v \in ToSet(used_voices) \ (RunningOn(D) \cup stale')
        PROVE  v \notin stale /\ tuning'[note_info[v][1]] = tuning[note_info[v][1]]
    <3>1. v \in Voices /\ note_info[v][1] \in Channels
      BY Sizes DEF VoicesInv, Keys
    <3>2. v \notin RunningOn(C) /\ v \notin stale
      BY <2>3, <2>4
    <3>3. note_info[v][1] \notin C
      BY <3>2 DEF RunningOn, Running
    <3> QED
      BY <2>3, <3>1, <3>2, <3>3
  <2> HIDE DEF D
  <2> QED
    BY <2>1, <2>2, <2>4, UpdateFollows
<1>17. ASSUME NEW c \in Channels, NEW x \in Ctrls, ControlChange(c, x)
       PROVE  (InTune /\ ControlsFollowChannel)'
  <2>1. /\ midivals' = [midivals EXCEPT ![c] = x]
        /\ ctrl' = [v \in Voices |-> IF v \in Running(c) THEN x ELSE ctrl[v]]
        /\ UNCHANGED <<used_voices, note_info, freq, tune, tuning, bend, stale>>
    BY <1>17 DEF ControlChange, alloc, pitch
  <2>2. InTune'
    BY <2>1 DEF InTune
  <2>3. ASSUME NEW v \in ToSet(used_voices) PROVE ctrl'[v] = midivals'[note_info[v][1]]
    <3>1. v \in Voices
      BY Sizes
    <3>2. note_info[v][1] \in Channels /\ DOMAIN midivals = Channels
      BY <3>1 DEF VoicesInv, HostInv, Keys
    <3>3. v \in Running(c) <=> note_info[v][1] = c
      BY DEF Running
    <3>4. ctrl[v] = midivals[note_info[v][1]]
      BY DEF ControlsFollowChannel
    <3> QED
      BY <2>1, <3>1, <3>2, <3>3, <3>4
  <2>4. ControlsFollowChannel'
    BY <2>1, <2>3 DEF ControlsFollowChannel
  <2> QED
    BY <2>2, <2>4
<1>18. ASSUME NEW p, EndRun(p) PROVE (InTune /\ ControlsFollowChannel)'
  <2>1. /\ midivals' = IF p # portval THEN [c \in Channels |-> p] ELSE midivals
        /\ ctrl' = [v \in Voices |-> IF p # portval /\ v \in ToSet(used_voices) THEN p
                                     ELSE ctrl[v]]
        /\ UNCHANGED <<used_voices, note_info, freq, tune, tuning, bend, stale>>
    BY <1>18 DEF EndRun, alloc, pitch
  <2>2. InTune'
    BY <2>1 DEF InTune
  <2>3. ASSUME NEW v \in ToSet(used_voices) PROVE ctrl'[v] = midivals'[note_info[v][1]]
    <3>1. v \in Voices
      BY Sizes
    <3>2. note_info[v][1] \in Channels
      BY <3>1 DEF VoicesInv, Keys
    <3>3. ctrl[v] = midivals[note_info[v][1]]
      BY DEF ControlsFollowChannel
    <3> QED
      BY <2>1, <3>1, <3>2, <3>3
  <2>4. ControlsFollowChannel'
    BY <2>1, <2>3 DEF ControlsFollowChannel
  <2> QED
    BY <2>2, <2>4
<1>19. CASE UNCHANGED vars
  BY <1>11, <1>19 DEF vars, alloc, zones, pitch, ctls
<1> QED
  BY <1>1, <1>2, <1>4, <1>5, <1>6, <1>8, <1>9, <1>10, <1>12, <1>13, <1>14, <1>15, <1>16, <1>17,
     <1>18, <1>19 DEF Next, DataEntry, DataStep

\* Every voice in use has the frequency of its note under the present bend and tuning of its
\* channel, and under the present scale tuning unless that came in the form that leaves
\* running voices alone; its control has the value of the channel, however these were set
\* (voice_on, update_voices, run).
THEOREM ChannelsFollowed ==
  LV2Assumption /\ Spec => [](InTune /\ ControlsFollowChannel)
<1> SUFFICES ASSUME LV2Assumption PROVE Spec => [](InTune /\ ControlsFollowChannel)
  OBVIOUS
<1>1. Init => InTune /\ ControlsFollowChannel
  BY DEF Init, InTune, ControlsFollowChannel, ToSet
<1>2. Inv /\ InTune /\ ControlsFollowChannel /\ [Next]_vars => (InTune /\ ControlsFollowChannel)'
  BY InvParts, FollowNext
<1>3. Spec => []Inv
  BY Invariance
<1> QED
  BY <1>1, <1>2, <1>3, PTL DEF Spec
=============================================================================
