------------------------- MODULE ContextCallProofs -------------------------
(***************************************************************************)
(* Theorems about ContextCall, and so about Chunking, Preflight and        *)
(* ContextCompiler as context() uses them: for any memories, documents,    *)
(* tasks, floors, lengths and budgets.                                     *)
(***************************************************************************)
EXTENDS ContextCall, TLAPS, FiniteSetTheorems, WellFoundedInduction

----------------------------------------------------------------------------
(* Numbers and lists *)

(* Any non-empty set of numbers has a least one, which stands for an       *)
(* induction in the proofs below.                                          *)
LEMMA LeastNumber ==
    ASSUME NEW S, S \subseteq Nat, S # {}
    PROVE  \E x \in S : \A y \in S : x <= y
<1>1. PICK x \in S : \A y \in S : ~(<< y, x >> \in OpToRel(<, Nat))
  BY NatLessThanWellFounded, WFMin
<1>2. \A y \in S : ~(y < x)
  BY <1>1 DEF OpToRel
<1> QED
  BY <1>2

(* The places of a list that are picked have ranks, and each rank from 1   *)
(* to their number is the rank of one.                                     *)
LEMMA Ranks ==
    ASSUME NEW m \in Nat, NEW places \in SUBSET (1..m)
    PROVE  LET Rank(k) == Cardinality({j \in places : j <= k})
           IN  /\ Cardinality(places) \in 0..m
               /\ \A k \in places : Rank(k) \in 1..Cardinality(places)
               /\ \A k, l \in places : k < l => Rank(k) < Rank(l)
               /\ \A n \in 1..Cardinality(places) : \E k \in places : Rank(k) = n
<1> DEFINE Rank(k) == Cardinality({j \in places : j <= k})
<1>1. IsFiniteSet(places) /\ Cardinality(places) \in 0..m
  <2>1. IsFiniteSet(1..m) /\ Cardinality(1..m) = m
    BY FS_Interval
  <2>2. IsFiniteSet(places) /\ Cardinality(places) <= m
    BY <2>1, FS_Subset
  <2> QED
    BY <2>2, FS_CardinalityType
<1>2. \A k \in places : Rank(k) \in 1..Cardinality(places)
  <2> SUFFICES ASSUME NEW k \in places
               PROVE  Rank(k) \in 1..Cardinality(places)
    OBVIOUS
  <2>1. {j \in places : j <= k} \in SUBSET places /\ k \in {j \in places : j <= k}
    OBVIOUS
  <2>2. IsFiniteSet({j \in places : j <= k}) /\ Rank(k) <= Cardinality(places)
    BY <1>1, <2>1, FS_Subset
  <2>3. Rank(k) # 0 /\ Rank(k) \in Nat
    BY <2>1, <2>2, FS_EmptySet, FS_CardinalityType
  <2> QED
    BY <1>1, <2>2, <2>3
<1>3. \A k, l \in places : k < l => Rank(k) < Rank(l)
  <2> SUFFICES ASSUME NEW k \in places, NEW l \in places, k < l
               PROVE  Rank(k) < Rank(l)
    OBVIOUS
  <2>1. {j \in places : j <= k} \subseteq {j \in places : j <= l}
    <3>1. \A j \in places : j <= k => j <= l
      <4>1. \A j \in places : j \in Nat
        OBVIOUS
      <4> QED
        BY <4>1
    <3> QED
      BY <3>1
  <2>2. l \in {j \in places : j <= l} \ {j \in places : j <= k}
    OBVIOUS
  <2>3. {j \in places : j <= l} \in SUBSET places
    OBVIOUS
  <2>4. IsFiniteSet({j \in places : j <= l})
    BY <1>1, <2>3, FS_Subset
  <2>5. Rank(k) <= Rank(l) /\ Rank(k) # Rank(l)
    BY <2>1, <2>2, <2>4, FS_Subset
  <2> QED
    BY <1>2, <2>5
<1>4. \A n \in 1..Cardinality(places) : \E k \in places : Rank(k) = n
  <2> DEFINE f == [k \in places |-> Rank(k)]
             T == 1..Cardinality(places)
  <2>1. f \in [places -> T]
    BY <1>2
  <2>2. \A k, l \in places : f[k] = f[l] => k = l
    <3> SUFFICES ASSUME NEW k \in places, NEW l \in places, k # l
                 PROVE  Rank(k) # Rank(l)
      OBVIOUS
    <3>1. k < l \/ l < k
      OBVIOUS
    <3> HIDE DEF Rank
    <3>2. Rank(k) \in Int /\ Rank(l) \in Int
      BY <1>2
    <3> QED
      BY <1>3, <3>1, <3>2
  <2>3. f \in Injection(places, T)
    BY <2>1, <2>2 DEF Injection, IsInjective
  <2>4. IsFiniteSet(T) /\ Cardinality(T) = Cardinality(places)
    BY <1>1, FS_Interval
  <2> HIDE DEF T
  <2>5. f \in Surjection(places, T)
    <3> HIDE DEF f
    <3> QED
      BY <2>3, <2>4, FS_Injection
  <2> USE DEF T
  <2>6. \A n \in T : \E k \in places : f[k] = n
    BY <2>5 DEF Surjection
  <2> QED
    BY <2>6
<1> QED
  BY <1>1, <1>2, <1>3, <1>4

LEMMA NthFacts ==
    ASSUME NEW m \in Nat, NEW places \in SUBSET (1..m)
    PROVE  /\ Cardinality(places) \in 0..m
           /\ \A n \in 1..Cardinality(places) : Nth(places, n) \in places
           /\ \A k \in places : \E n \in 1..Cardinality(places) : Nth(places, n) = k
           /\ \A i, j \in 1..Cardinality(places) : i < j => Nth(places, i) < Nth(places, j)
<1> DEFINE Rank(k) == Cardinality({j \in places : j <= k})
           size == Cardinality(places)
<1>1. /\ size \in 0..m
      /\ \A k \in places : Rank(k) \in 1..size
      /\ \A k, l \in places : k < l => Rank(k) < Rank(l)
      /\ \A n \in 1..size : \E k \in places : Rank(k) = n
  BY Ranks
<1>2. \A n \in 1..size : Nth(places, n) \in places /\ Rank(Nth(places, n)) = n
  BY <1>1 DEF Nth
<1> HIDE DEF Rank, size
<1>3. \A k, l \in places : Rank(k) = Rank(l) => k = l
  <2> SUFFICES ASSUME NEW k \in places, NEW l \in places, k # l
               PROVE  Rank(k) # Rank(l)
    OBVIOUS
  <2>1. k < l \/ l < k
    OBVIOUS
  <2> QED
    BY <1>1, <2>1
<1>4. \A k \in places : Nth(places, Rank(k)) = k
  BY <1>1, <1>2, <1>3
<1>5. \A i, j \in 1..size : i < j => Nth(places, i) < Nth(places, j)
  <2> SUFFICES ASSUME NEW i \in 1..size, NEW j \in 1..size, i < j
               PROVE  Nth(places, i) < Nth(places, j)
    OBVIOUS
  <2>1. PICK k \in places : k = Nth(places, i) /\ Rank(k) = i
    BY <1>2
  <2>2. PICK l \in places : l = Nth(places, j) /\ Rank(l) = j
    BY <1>2
  <2>3. ~(l < k) /\ l # k
    BY <1>1, <2>1, <2>2
  <2>4. k \in Nat /\ l \in Nat
    OBVIOUS
  <2> QED
    BY <2>1, <2>2, <2>3, <2>4
<1> QED
  BY <1>1, <1>2, <1>4, <1>5 DEF size

(* What is picked from a list is what is at those places, in its order.    *)
LEMMA PickedFacts ==
    ASSUME NEW T, NEW list \in Seq(T), NEW places \in SUBSET (DOMAIN list)
    PROVE  /\ Picked(list, places) \in Seq(T)
           /\ Len(Picked(list, places)) <= Len(list)
           /\ \A n \in DOMAIN Picked(list, places) : \E k \in places : Picked(list, places)[n] = list[k]
           /\ \A k \in places : \E n \in DOMAIN Picked(list, places) : Picked(list, places)[n] = list[k]
           /\ (\A k, l \in places : list[k] = list[l] => k = l)
                => IsInjective(Picked(list, places))
<1> DEFINE picked == Picked(list, places)
           size == Cardinality(places)
<1>1. Len(list) \in Nat /\ DOMAIN list = 1..Len(list) /\ \A n \in DOMAIN list : list[n] \in T
  OBVIOUS
<1>2. /\ size \in 0..Len(list)
      /\ \A n \in 1..size : Nth(places, n) \in places
      /\ \A k \in places : \E n \in 1..size : Nth(places, n) = k
      /\ \A i, j \in 1..size : i < j => Nth(places, i) < Nth(places, j)
  BY <1>1, NthFacts
<1>3. picked = [n \in 1..size |-> list[Nth(places, n)]]
  BY DEF Picked
<1> HIDE DEF size, picked
<1>4. \A n \in 1..size : picked[n] = list[Nth(places, n)] /\ list[Nth(places, n)] \in T
  BY <1>1, <1>2, <1>3
<1>5. picked \in [1..size -> T]
  BY <1>3, <1>4
<1>6. picked \in Seq(T) /\ Len(picked) = size /\ DOMAIN picked = 1..size
  BY <1>2, <1>5
<1>7. ASSUME \A k, l \in places : list[k] = list[l] => k = l
      PROVE  IsInjective(picked)
  <2> SUFFICES ASSUME NEW i \in 1..size, NEW j \in 1..size, i < j
               PROVE  picked[i] # picked[j]
    <3>1. \A i, j \in 1..size : i # j => i < j \/ j < i
      BY <1>2
    <3> QED
      BY <1>6, <3>1 DEF IsInjective
  <2>1. Nth(places, i) < Nth(places, j) /\ Nth(places, i) \in places /\ Nth(places, j) \in places
    BY <1>2
  <2>2. Nth(places, i) # Nth(places, j)
    BY <1>1, <2>1
  <2> QED
    BY <1>4, <1>7, <2>1, <2>2
<1>8. \A k \in places : \E n \in DOMAIN picked : picked[n] = list[k]
  BY <1>2, <1>4, <1>6
<1>9. \A n \in DOMAIN picked : \E k \in places : picked[n] = list[k]
  BY <1>2, <1>4, <1>6
<1>10. Len(picked) <= Len(list)
  BY <1>1, <1>2, <1>6
<1> QED
  BY <1>6, <1>7, <1>8, <1>9, <1>10 DEF picked

(* Those of a list that are wanted. *)
LEMMA ThoseFacts ==
    ASSUME NEW T, NEW list \in Seq(T), NEW wanted
    PROVE  /\ Those(list, wanted) \in Seq(T)
           /\ Those(list, wanted) \in Seq(IdsIn(list) \cap wanted)
           /\ Len(Those(list, wanted)) <= Len(list)
           /\ IdsIn(Those(list, wanted)) = IdsIn(list) \cap wanted
           /\ IsInjective(list) => IsInjective(Those(list, wanted))
<1> DEFINE places == {n \in DOMAIN list : list[n] \in wanted}
<1>1. Those(list, wanted) = Picked(list, places)
  BY DEF Those
<1>2. places \in SUBSET (DOMAIN list)
  OBVIOUS
<1>3. /\ Picked(list, places) \in Seq(T)
      /\ Len(Picked(list, places)) <= Len(list)
      /\ \A n \in DOMAIN Picked(list, places) : \E k \in places : Picked(list, places)[n] = list[k]
      /\ \A k \in places : \E n \in DOMAIN Picked(list, places) : Picked(list, places)[n] = list[k]
      /\ (\A k, l \in places : list[k] = list[l] => k = l)
           => IsInjective(Picked(list, places))
  <2> HIDE DEF places
  <2> QED
    BY <1>2, PickedFacts
<1>4. IdsIn(Those(list, wanted)) = IdsIn(list) \cap wanted
  <2> DEFINE those == Picked(list, places)
  <2>1. \A n \in DOMAIN those : those[n] \in IdsIn(list) \cap wanted
    BY <1>3 DEF IdsIn
  <2>2. \A id \in IdsIn(list) \cap wanted : \E k \in places : list[k] = id
    BY DEF IdsIn
  <2>3. \A id \in IdsIn(list) \cap wanted : \E n \in DOMAIN those : those[n] = id
    BY <1>3, <2>2
  <2> QED
    BY <1>1, <2>1, <2>3 DEF IdsIn
<1>5. IsInjective(list) => IsInjective(Those(list, wanted))
  BY <1>1, <1>3 DEF IsInjective
<1>6. \A n \in 1..Len(Those(list, wanted)) : Those(list, wanted)[n] \in IdsIn(list) \cap wanted
  BY <1>1, <1>3, <1>4 DEF IdsIn
<1>7. Those(list, wanted) \in Seq(IdsIn(list) \cap wanted)
  BY <1>1, <1>3, <1>6
<1> QED
  BY <1>1, <1>3, <1>4, <1>5, <1>7

(* Lists one after another, up to the m-th. *)
Concatenates(f, seqs, m) == f = [i \in 1..m |-> IF i = 1 THEN seqs[i] ELSE f[i - 1] \o seqs[i]]

LEMMA ConcatenationExtends ==
    ASSUME NEW seqs, NEW m \in Nat, m # 0, NEW g, Concatenates(g, seqs, m - 1)
    PROVE  \E f : Concatenates(f, seqs, m)
<1> DEFINE f == [i \in 1..m |-> IF i = 1 THEN seqs[i] ELSE g[i - 1] \o seqs[i]]
<1>1. \A i \in 1..(m - 1) : i \in 1..m
  OBVIOUS
<1>2. \A i \in 1..(m - 1) : g[i] = IF i = 1 THEN seqs[i] ELSE g[i - 1] \o seqs[i]
  BY DEF Concatenates
<1>3. \A i \in 1..(m - 1) : f[i] = g[i]
  BY <1>1, <1>2
<1>4. \A i \in 1..m : i # 1 => i - 1 \in 1..(m - 1)
  OBVIOUS
<1>5. \A i \in 1..m : f[i] = IF i = 1 THEN seqs[i] ELSE f[i - 1] \o seqs[i]
  BY <1>3, <1>4
<1>6. f = [i \in 1..m |-> f[i]]
  OBVIOUS
<1> HIDE DEF f
<1>7. f = [i \in 1..m |-> IF i = 1 THEN seqs[i] ELSE f[i - 1] \o seqs[i]]
  BY <1>5, <1>6
<1> QED
  BY <1>7 DEF Concatenates

LEMMA ConcatenationExists ==
    ASSUME NEW seqs, NEW size \in Nat
    PROVE  \E f : Concatenates(f, seqs, size)
<1> DEFINE Bad == {m \in Nat : ~\E f : Concatenates(f, seqs, m)}
<1> SUFFICES ASSUME Bad # {}
             PROVE  FALSE
  OBVIOUS
<1>1. PICK m \in Bad : \A n \in Bad : m <= n
  <2>1. Bad \subseteq Nat
    OBVIOUS
  <2> HIDE DEF Bad
  <2> QED
    BY <2>1, LeastNumber
<1>2. m \in Nat /\ ~\E f : Concatenates(f, seqs, m)
  BY <1>1
<1>3. m # 0
  <2>1. Concatenates([i \in 1..0 |-> 0], seqs, 0)
    BY DEF Concatenates
  <2> QED
    BY <1>2, <2>1
<1>4. m - 1 \in Nat /\ ~(m <= m - 1)
  BY <1>2, <1>3
<1>5. m - 1 \notin Bad
  <2> HIDE DEF Bad
  <2> QED
    BY <1>1, <1>4
<1>6. PICK g : Concatenates(g, seqs, m - 1)
  BY <1>4, <1>5
<1> QED
  BY <1>2, <1>3, <1>6, ConcatenationExtends

LEMMA ConcatenationIsList ==
    ASSUME NEW T, NEW seqs \in Seq(Seq(T)), NEW f, Concatenates(f, seqs, Len(seqs))
    PROVE  \A i \in 1..Len(seqs) : f[i] \in Seq(T)
<1> DEFINE size == Len(seqs)
           Bad == {i \in 1..size : f[i] \notin Seq(T)}
<1>1. size \in Nat /\ \A n \in 1..size : seqs[n] \in Seq(T)
  OBVIOUS
<1>2. \A i \in 1..size : f[i] = IF i = 1 THEN seqs[i] ELSE f[i - 1] \o seqs[i]
  BY DEF Concatenates
<1> HIDE DEF size
<1> SUFFICES ASSUME Bad # {}
             PROVE  FALSE
  BY DEF size
<1>3. PICK i \in Bad : \A n \in Bad : i <= n
  <2>1. Bad \subseteq Nat
    OBVIOUS
  <2> HIDE DEF Bad
  <2> QED
    BY <2>1, LeastNumber
<1>4. i \in 1..size /\ f[i] \notin Seq(T)
  BY <1>3
<1>5. i # 1
  BY <1>1, <1>2, <1>4
<1>6. i - 1 \in 1..size /\ ~(i <= i - 1)
  BY <1>1, <1>4, <1>5
<1>7. i - 1 \notin Bad
  <2> HIDE DEF Bad
  <2> QED
    BY <1>3, <1>6
<1>8. f[i - 1] \in Seq(T) /\ seqs[i] \in Seq(T)
  BY <1>1, <1>4, <1>6, <1>7
<1>9. f[i - 1] \o seqs[i] \in Seq(T)
  BY <1>8
<1> QED
  BY <1>2, <1>4, <1>5, <1>9

LEMMA FlattenFacts ==
    ASSUME NEW T, NEW seqs \in Seq(Seq(T))
    PROVE  FlattenSeq(seqs) \in Seq(T)
<1> DEFINE size == Len(seqs)
<1>1. size \in Nat
  OBVIOUS
<1>2. CASE size = 0
  BY <1>2 DEF FlattenSeq
<1>3. CASE size # 0
  <2>1. FlattenSeq(seqs) = (CHOOSE f : Concatenates(f, seqs, size))[size]
    BY <1>3 DEF FlattenSeq, Concatenates
  <2>2. Concatenates(CHOOSE f : Concatenates(f, seqs, size), seqs, size)
    <3> HIDE DEF size
    <3> QED
      BY <1>1, ConcatenationExists
  <2>3. PICK f : Concatenates(f, seqs, size) /\ FlattenSeq(seqs) = f[size]
    BY <2>1, <2>2
  <2> QED
    BY <1>1, <1>3, <2>3, ConcatenationIsList
<1> QED
  BY <1>2, <1>3

----------------------------------------------------------------------------
(* What is relevant *)

LEMMA OfKindFacts ==
    ASSUME NEW kind
    PROVE  /\ OfKind(kind) \in Seq(IdsIn(Memories)) /\ IsInjective(OfKind(kind))
           /\ IdsIn(OfKind(kind)) = {m \in IdsIn(Memories) : KindOf[m] = kind}
<1>1. Memories \in Seq(IdsIn(Memories)) /\ IsInjective(Memories)
  BY PreflightAssumption
<1> DEFINE wanted == {m \in IdsIn(Memories) : KindOf[m] = kind}
<1>2. IdsIn(Memories) \cap wanted = wanted
  OBVIOUS
<1> HIDE DEF wanted
<1>3. OfKind(kind) = Those(Memories, wanted)
  BY DEF OfKind, wanted
<1>4. /\ Those(Memories, wanted) \in Seq(IdsIn(Memories)) /\ IsInjective(Those(Memories, wanted))
      /\ IdsIn(Those(Memories, wanted)) = IdsIn(Memories) \cap wanted
  BY <1>1, ThoseFacts
<1>5. /\ OfKind(kind) \in Seq(IdsIn(Memories)) /\ IsInjective(OfKind(kind))
      /\ IdsIn(OfKind(kind)) = wanted
  BY <1>2, <1>3, <1>4
<1> QED
  BY <1>5 DEF wanted

LEMMA LessonFacts ==
    /\ VerifiedLessons \in Seq(IdsIn(Memories)) /\ IsInjective(VerifiedLessons)
    /\ Lessons = {m \in IdsIn(Memories) : KindOf[m] = "lesson" /\ m \in Verified}
<1>1. /\ OfKind("lesson") \in Seq(IdsIn(Memories)) /\ IsInjective(OfKind("lesson"))
      /\ IdsIn(OfKind("lesson")) = {m \in IdsIn(Memories) : KindOf[m] = "lesson"}
  BY OfKindFacts
<1>2. /\ VerifiedLessons \in Seq(IdsIn(Memories)) /\ IsInjective(VerifiedLessons)
      /\ IdsIn(VerifiedLessons) = IdsIn(OfKind("lesson")) \cap Verified
  BY <1>1, ThoseFacts DEF VerifiedLessons
<1> QED
  BY <1>1, <1>2 DEF Lessons

LEMMA RelevantAttemptsFacts ==
    /\ RelevantAttempts \in Seq(IdsIn(Attempts)) /\ IsInjective(RelevantAttempts)
    /\ IdsIn(RelevantAttempts)
         = {a \in IdsIn(Attempts) : Matches(SingleWinner(IdsIn(Attempts), "attempt"), a)}
<1>1. Attempts \in Seq(IdsIn(Attempts)) /\ IsInjective(Attempts)
  BY PreflightAssumption
<1> DEFINE wanted == {a \in IdsIn(Attempts) : Matches(SingleWinner(IdsIn(Attempts), "attempt"), a)}
<1>2. IdsIn(Attempts) \cap wanted = wanted
  OBVIOUS
<1>3. RelevantAttempts = Those(Attempts, wanted)
  BY DEF RelevantAttempts
<1> HIDE DEF wanted
<1>4. /\ RelevantAttempts \in Seq(IdsIn(Attempts)) /\ IsInjective(RelevantAttempts)
      /\ IdsIn(RelevantAttempts) = wanted
  BY <1>1, <1>2, <1>3, ThoseFacts
<1> QED
  BY <1>4 DEF wanted

LEMMA KnownFailuresFacts ==
    /\ KnownFailures \in Seq(IdsIn(Attempts)) /\ IsInjective(KnownFailures)
    /\ IdsIn(KnownFailures)
         = {a \in Failed : Matches(SingleWinner(IdsIn(Attempts), "attempt"), a)}
<1>1. /\ KnownFailures \in Seq(IdsIn(Attempts)) /\ IsInjective(KnownFailures)
      /\ IdsIn(KnownFailures) = IdsIn(RelevantAttempts) \cap Failed
  BY RelevantAttemptsFacts, ThoseFacts DEF KnownFailures
<1>2. Failed \subseteq IdsIn(Attempts)
  BY PreflightAssumption
<1> QED
  BY <1>1, <1>2, RelevantAttemptsFacts

(* What Relevant() keeps of a list of memories. *)
Concerns(similar, m) ==
    \/ Matches(similar, m)
    \/ \E a \in IdsIn(RelevantAttempts) : SharesEvidence(m, a)

LEMMA RelevantFacts ==
    ASSUME NEW similar, NEW memories \in Seq(IdsIn(Memories))
    PROVE  /\ Relevant(similar, memories) \in Seq(IdsIn(Memories))
           /\ Relevant(similar, memories) \in Seq(IdsIn(memories))
           /\ IdsIn(Relevant(similar, memories)) = {m \in IdsIn(memories) : Concerns(similar, m)}
           /\ IsInjective(memories) => IsInjective(Relevant(similar, memories))
<1> DEFINE evidence == UNION {Evidence(a) : a \in IdsIn(RelevantAttempts)}
           wanted == {m \in IdsIn(memories) : Matches(similar, m) \/ Evidence(m) \cap evidence # {}}
<1>1. \A m : Concerns(similar, m) <=> (Matches(similar, m) \/ Evidence(m) \cap evidence # {})
  BY DEF Concerns, SharesEvidence
<1>2. wanted = {m \in IdsIn(memories) : Concerns(similar, m)}
  BY <1>1
<1>3. Relevant(similar, memories) = Those(memories, wanted)
  BY DEF Relevant
<1>4. IdsIn(memories) \cap wanted = wanted
  OBVIOUS
<1> HIDE DEF wanted
<1>5. /\ Those(memories, wanted) \in Seq(IdsIn(Memories))
      /\ Those(memories, wanted) \in Seq(IdsIn(memories) \cap wanted)
      /\ IdsIn(Those(memories, wanted)) = IdsIn(memories) \cap wanted
      /\ IsInjective(memories) => IsInjective(Those(memories, wanted))
  BY ThoseFacts
<1> QED
  BY <1>2, <1>3, <1>4, <1>5

(* Who shares Evidence leads to one another: one experience is the same    *)
(* from each of its members.                                               *)
LEMMA ExperienceIsShared ==
    ASSUME NEW ranked, NEW top \in ranked, NEW other \in Experience(top, ranked)
    PROVE  /\ top \in Experience(other, ranked)
           /\ \A id \in Experience(top, ranked) : id \in Experience(other, ranked)
<1> DEFINE Closed(some) == \A a \in some, b \in ranked : SharesEvidence(a, b) => b \in some
<1>1. \A a, b : SharesEvidence(a, b) => SharesEvidence(b, a)
  BY DEF SharesEvidence
<1>2. \A id, start : id \in Experience(start, ranked) <=>
        /\ id \in ranked
        /\ \A some \in SUBSET ranked : start \in some /\ Closed(some) => id \in some
  BY DEF Experience
<1>3. ASSUME NEW some \in SUBSET ranked, other \in some, Closed(some)
      PROVE  top \in some
  <2> SUFFICES ASSUME top \notin some
               PROVE  FALSE
    OBVIOUS
  <2>1. Closed(ranked \ some)
    BY <1>1, <1>3
  <2>2. ranked \ some \in SUBSET ranked /\ top \in ranked \ some
    OBVIOUS
  <2> HIDE DEF Closed
  <2>3. other \in ranked \ some
    BY <1>2, <2>1, <2>2
  <2> QED
    BY <1>3, <2>3
<1> HIDE DEF Closed
<1>4. top \in Experience(other, ranked)
  BY <1>2, <1>3
<1>5. ASSUME NEW id \in Experience(top, ranked)
      PROVE  id \in Experience(other, ranked)
  BY <1>2, <1>3, <1>5
<1> QED
  BY <1>4, <1>5

(* The similarity of everything recorded is a number. *)
LEMMA ScoreType ==
    ASSUME task \in Tasks
    PROVE  \A id \in Recorded : Score(id) \in Nat
  BY CallAssumption DEF Score

(* A memory is admitted by a winner that cites the same Evidence only if   *)
(* that one is the most similar of all that do.                            *)
LEMMA WinnerStandsOut ==
    ASSUME task \in Tasks, NEW pool, pool \subseteq IdsIn(Attempts), NEW a \in SingleWinner(pool, "attempt")
    PROVE  /\ a \in pool /\ Score(a) >= Floor["attempt"]
           /\ \A b \in pool : Score(b) <= Score(a)
<1>1. \A b \in pool : Score(b) \in Nat
  BY ScoreType DEF Recorded
<1>2. /\ a \in pool /\ Score(a) > 0 /\ Score(a) >= Floor["attempt"]
      /\ \A b \in pool : b # a /\ Score(b) > 0 => Score(a) > Score(b)
  BY DEF SingleWinner, Ranked
<1> QED
  BY <1>1, <1>2

(* The ways a lesson may be relevant, as LessonsEarnTheirPlace lists them. *)
EarnsByLessons(lesson) ==
    /\ Score(lesson) >= LessonFloor
    /\ Cardinality({l \in Lessons : Score(l) > Score(lesson)}) < LessonLimit

EarnsByAttempt(lesson) ==
    \E a \in IdsIn(Attempts) :
      /\ SharesEvidence(a, lesson)
      /\ \/ Scored({a}) # {}
         \/ /\ Score(a) >= Floor["attempt"]
            /\ \A b \in IdsIn(Attempts) : SharesEvidence(b, lesson) => Score(b) <= Score(a)

EarnsByExperience(lesson) ==
    \E cause \in IdsIn(RootCauses) :
      /\ lesson \in Ranked(Candidates)
      /\ cause \in Experience(lesson, Ranked(Candidates))
      /\ \E top \in Experience(lesson, Ranked(Candidates)) :
           Score(top) >= IF top \in Lessons THEN LessonFloor ELSE Floor["memory"]

LEMMA ByExperience ==
    ASSUME task \in Tasks, NEW lesson \in ExperienceAdmitted
    PROVE  EarnsByExperience(lesson)
<1> DEFINE ranked == Ranked(Candidates)
<1>1. PICK top \in ranked : Represents(top, ranked) /\ lesson \in Experience(top, ranked)
  BY DEF ExperienceAdmitted
<1>2. PICK cause \in Experience(top, ranked) : cause \notin Lessons
  BY <1>1 DEF Represents
<1>3. cause \in IdsIn(RootCauses)
  BY <1>2 DEF Experience, Ranked, Candidates, Lessons
<1>4. lesson \in ranked
  BY <1>1 DEF Experience
<1>5. Score(top) >= IF top \in Lessons THEN LessonFloor ELSE Floor["memory"]
  BY <1>1 DEF Represents
<1> HIDE DEF ranked
<1>6. top \in Experience(lesson, ranked) /\ cause \in Experience(lesson, ranked)
  BY <1>1, <1>2, ExperienceIsShared
<1> USE DEF ranked
<1> QED
  BY <1>3, <1>4, <1>5, <1>6 DEF EarnsByExperience

LEMMA ByCorroboration ==
    ASSUME task \in Tasks, NEW lesson \in Corroborated
    PROVE  EarnsByAttempt(lesson)
<1> DEFINE Related == {a \in IdsIn(Attempts) : SharesEvidence(a, lesson)}
<1>1. Related \cap task.lexical # {} \/ SingleWinner(Related, "attempt") # {}
  BY DEF Corroborated
<1>2. CASE Related \cap task.lexical # {}
  BY <1>2 DEF EarnsByAttempt, Scored
<1>3. CASE SingleWinner(Related, "attempt") # {}
  <2>1. PICK a \in SingleWinner(Related, "attempt") : TRUE
    BY <1>3
  <2>2. Related \subseteq IdsIn(Attempts)
    OBVIOUS
  <2>3. /\ a \in Related /\ Score(a) >= Floor["attempt"]
        /\ \A b \in Related : Score(b) <= Score(a)
    <3> HIDE DEF Related
    <3> QED
      BY <2>1, <2>2, WinnerStandsOut
  <2> QED
    BY <2>3 DEF EarnsByAttempt
<1> QED
  BY <1>1, <1>2, <1>3

LEMMA ByLessons ==
    ASSUME task \in Tasks, NEW lesson \in SetAdmitted(task.score, Lessons, LessonFloor, LessonLimit)
    PROVE  EarnsByLessons(lesson)
<1>1. Lessons \subseteq Recorded
  BY LessonFacts DEF Recorded
<1>2. \A id \in Lessons : task.score[id] = Score(id) /\ Score(id) \in Nat
  BY <1>1, ScoreType DEF Score
<1> DEFINE ranked == {id \in Lessons : task.score[id] > 0}
<1>3. /\ lesson \in ranked /\ task.score[lesson] >= LessonFloor
      /\ Cardinality({other \in ranked : task.score[other] > task.score[lesson]}) < LessonLimit
  BY DEF SetAdmitted
<1>4. lesson \in Lessons /\ Score(lesson) \in Nat /\ Score(lesson) > 0 /\ Score(lesson) >= LessonFloor
  BY <1>2, <1>3
<1>5. \A l \in Lessons : Score(l) > Score(lesson) => task.score[l] > 0
  BY <1>2, <1>4
<1>6. {other \in ranked : task.score[other] > task.score[lesson]} = {l \in Lessons : Score(l) > Score(lesson)}
  BY <1>2, <1>4, <1>5
<1> QED
  BY <1>3, <1>4, <1>6 DEF EarnsByLessons

(* What is admitted as another kind of memory is no lesson. *)
LEMMA OtherKinds ==
    /\ IdsIn(Invalidations) \cap Lessons = {}
    /\ IdsIn(Pending) \cap Lessons = {}
<1>1. /\ IdsIn(OfKind("invalidation")) = {m \in IdsIn(Memories) : KindOf[m] = "invalidation"}
      /\ IdsIn(OfKind("pending")) = {m \in IdsIn(Memories) : KindOf[m] = "pending"}
  BY OfKindFacts
<1> QED
  BY <1>1, LessonFacts DEF Invalidations, Pending

LEMMA LessonEarns ==
    ASSUME task \in Tasks, NEW lesson \in IdsIn(Relevant(SimilarMemories, VerifiedLessons))
    PROVE  \/ Scored({lesson}) # {}
           \/ EarnsByLessons(lesson)
           \/ EarnsByAttempt(lesson)
           \/ EarnsByExperience(lesson)
<1>1. lesson \in Lessons /\ Concerns(SimilarMemories, lesson)
  BY LessonFacts, RelevantFacts DEF Lessons
<1>2. CASE lesson \in task.lexical \cup task.found
  BY <1>2 DEF Scored
<1>3. CASE lesson \in SimilarMemories
  <2>1. \/ lesson \in ExperienceAdmitted
        \/ lesson \in Corroborated
        \/ lesson \in SingleWinner(IdsIn(Invalidations), "memory")
        \/ lesson \in SingleWinner(IdsIn(Pending), "memory")
        \/ lesson \in SetAdmitted(task.score, Lessons, LessonFloor, LessonLimit)
    BY <1>3 DEF SimilarMemories
  <2>2. \A pool : SingleWinner(pool, "memory") \subseteq pool
    BY DEF SingleWinner, Ranked
  <2> QED
    BY <1>1, <2>1, <2>2, ByExperience, ByCorroboration, ByLessons, OtherKinds
<1>4. CASE \E a \in IdsIn(RelevantAttempts) : SharesEvidence(lesson, a)
  <2>1. PICK a \in IdsIn(RelevantAttempts) : SharesEvidence(lesson, a)
    BY <1>4
  <2>2. SharesEvidence(a, lesson)
    BY <2>1 DEF SharesEvidence
  <2>3. a \in IdsIn(Attempts) /\ Matches(SingleWinner(IdsIn(Attempts), "attempt"), a)
    BY RelevantAttemptsFacts
  <2>4. CASE a \in task.lexical \cup task.found
    BY <2>2, <2>3, <2>4 DEF EarnsByAttempt, Scored
  <2>5. CASE a \in SingleWinner(IdsIn(Attempts), "attempt")
    <3>1. Score(a) >= Floor["attempt"] /\ \A b \in IdsIn(Attempts) : Score(b) <= Score(a)
      BY <2>5, WinnerStandsOut
    <3> QED
      BY <2>2, <2>3, <3>1 DEF EarnsByAttempt
  <2> QED
    BY <2>3, <2>4, <2>5 DEF Matches
<1> QED
  BY <1>1, <1>2, <1>3, <1>4 DEF Concerns, Matches

----------------------------------------------------------------------------
(* The answers are those of the task, which does not change.               *)

LEMMA SimilarKept ==
    ASSUME task' = task
    PROVE  SimilarMemories' = SimilarMemories
<1>1. ExperienceAdmitted' = ExperienceAdmitted
  BY DEF ExperienceAdmitted, Represents, Tops, Score, Ranked
<1>2. Corroborated' = Corroborated
  BY DEF Corroborated, Tops, Score, Ranked, SingleWinner
<1> QED
  BY <1>1, <1>2 DEF SimilarMemories, SingleWinner, Score, Ranked

LEMMA AttemptsKept ==
    ASSUME task' = task
    PROVE  RelevantAttempts' = RelevantAttempts
  BY DEF RelevantAttempts, Matches, SingleWinner, Score, Ranked

LEMMA AnswersKept ==
    ASSUME task' = task
    PROVE  PreflightAnswer' = PreflightAnswer /\ GuardAnswer' = GuardAnswer
<1>1. PreflightAnswer' = PreflightAnswer
  BY SimilarKept, AttemptsKept
     DEF Relevant, Matches, PreflightAnswer, RelevantSuccesses, KnownFailures, Discloses
<1>2. GuardAnswer' = GuardAnswer
  BY DEF GuardAnswer, ApplicableSkills, Warns, Matches, SingleWinner, Ranked, Score
<1> QED
  BY <1>1, <1>2

AnswersInv ==
    /\ task \in Tasks
    /\ answers # NoAnswers => answers = [preflight |-> PreflightAnswer, guard |-> GuardAnswer]

(* preflight() and guard() are answered once, from the task, and what is   *)
(* done with the documents afterwards changes neither.                     *)
THEOREM AnswersInvariant == CallSpec => []AnswersInv
<1>1. CallInit => AnswersInv
  BY DEF CallInit, AnswersInv
<1>2. AnswersInv /\ [CallNext]_callVars => AnswersInv'
  <2> SUFFICES ASSUME AnswersInv, [CallNext]_callVars
               PROVE  AnswersInv'
    OBVIOUS
  <2>1. CASE Choose
    <3>1. task' = task /\ answers' = [preflight |-> PreflightAnswer, guard |-> GuardAnswer]
      BY <2>1 DEF Choose, Select
    <3> QED
      BY <3>1, AnswersKept DEF AnswersInv
  <2>2. CASE task' = task /\ answers' = answers
    BY <2>2, AnswersKept DEF AnswersInv
  <2>3. ChunkStep \/ NextDocument \/ Sort \/ Consider \/ Compile \/ Fill \/ UNCHANGED callVars
          => task' = task /\ answers' = answers
    BY DEF ChunkStep, NextDocument, Sort, Consider, Compile, Compose, Fill, Advance, callVars
  <2> QED
    BY <2>1, <2>2, <2>3 DEF CallNext
<1> QED
  BY <1>1, <1>2, PTL DEF CallSpec

(* A lesson that preflight() shows has a claim of its own: it is similar   *)
(* enough as a lesson, or Evidence leads from it to an attempt, or to a    *)
(* root cause, that is relevant.                                           *)
THEOREM LessonsEarn == CallSpec => []LessonsEarnTheirPlace
<1>1. AnswersInv => LessonsEarnTheirPlace
  <2> SUFFICES ASSUME AnswersInv, answers # NoAnswers,
                      NEW lesson \in IdsIn(answers.preflight.verified_lessons)
               PROVE  \/ Scored({lesson}) # {}
                      \/ EarnsByLessons(lesson)
                      \/ EarnsByAttempt(lesson)
                      \/ EarnsByExperience(lesson)
    BY DEF LessonsEarnTheirPlace, EarnsByLessons, EarnsByAttempt, EarnsByExperience
  <2>1. answers.preflight.verified_lessons = Relevant(SimilarMemories, VerifiedLessons)
    BY DEF AnswersInv, PreflightAnswer
  <2> QED
    BY <2>1, LessonEarns DEF AnswersInv
<1> QED
  BY <1>1, AnswersInvariant, PTL

(* guard() warns of a failure that preflight() leaves out only because an  *)
(* attempt that succeeded is as similar.                                   *)
THEOREM GuardWithin == CallSpec => []GuardWithinPreflight
<1>1. AnswersInv => GuardWithinPreflight
  <2> SUFFICES ASSUME AnswersInv, answers # NoAnswers,
                      NEW a \in IdsIn(answers.guard.known_failures)
                                  \ IdsIn(answers.preflight.known_failures)
               PROVE  /\ Scored({a}) = {} /\ Score(a) >= Floor["attempt"]
                      /\ \E other \in IdsIn(Attempts) \ Failed :
                           Score(other) > 0 /\ Score(a) - Score(other) < Margin["attempt"]
    BY DEF GuardWithinPreflight
  <2>1. /\ answers.preflight.known_failures = KnownFailures
        /\ answers.guard.known_failures = Those(Attempts, {f \in Failed : Warns(f)})
    BY DEF AnswersInv, PreflightAnswer, GuardAnswer
  <2>2. a \in Failed /\ Warns(a)
    <3>1. Attempts \in Seq(IdsIn(Attempts))
      BY PreflightAssumption
    <3>2. IdsIn(Those(Attempts, {f \in Failed : Warns(f)}))
            = IdsIn(Attempts) \cap {f \in Failed : Warns(f)}
      BY <3>1, ThoseFacts
    <3> QED
      BY <2>1, <3>2
  <2>3. ~Matches(SingleWinner(IdsIn(Attempts), "attempt"), a)
    BY <2>1, <2>2, KnownFailuresFacts
  <2>4. /\ a \notin task.lexical \cup task.found
        /\ a \notin SingleWinner(IdsIn(Attempts), "attempt")
        /\ a \in SingleWinner(Failed, "attempt")
    BY <2>2, <2>3 DEF Warns, Matches
  <2>5. /\ Score(a) > 0 /\ Score(a) >= Floor["attempt"]
        /\ \A other \in Failed \ {a} : Score(other) > 0 =>
             Score(a) > Score(other) /\ Score(a) - Score(other) >= Margin["attempt"]
    BY <2>4 DEF SingleWinner, Ranked
  <2>6. a \in IdsIn(Attempts)
    BY <2>2, PreflightAssumption
  <2>7. PICK other \in IdsIn(Attempts) \ {a} :
          /\ Score(other) > 0
          /\ ~(Score(a) > Score(other) /\ Score(a) - Score(other) >= Margin["attempt"])
    BY <2>4, <2>5, <2>6 DEF SingleWinner, Ranked
  <2>8. other \notin Failed
    BY <2>5, <2>7
  <2>9. Score(a) \in Nat /\ Score(other) \in Nat /\ Margin["attempt"] \in Nat \ {0}
    BY <2>6, ScoreType, PreflightAssumption DEF AnswersInv, Recorded
  <2>10. Score(a) - Score(other) < Margin["attempt"]
    BY <2>7, <2>9
  <2> QED
    BY <2>4, <2>5, <2>7, <2>8, <2>10 DEF Scored
<1> QED
  BY <1>1, AnswersInvariant, PTL

----------------------------------------------------------------------------
(* Chunking *)

(* The pieces a text has been cut into so far, the one being cut included. *)
Pieces == IdsIn(spans) \cup ({part} \ {NoPart})

(* No two words of a piece have a blank line between them. *)
OneParagraph(piece) ==
    \A k, l \in 0..(Length - 1) :
        /\ Within(k, piece) /\ Within(l, piece)
        /\ At(k) \in Words /\ At(l) \in Words /\ k < l
        => ~\E i, j \in k..l : BlankLine(i, j)

(* Each word before the cursor is in a piece. *)
WordsKept == \A k \in 0..(cursor - 1) : At(k) \in Words => \E piece \in Pieces : Within(k, piece)

Frontier == IF part = NoPart THEN cursor ELSE part[1]

ChunkInv ==
    /\ ChunkTypeOK
    /\ part # NoPart => part[1] <= part[2] /\ part[2] <= cursor
    /\ SpansFit
    /\ \A n \in DOMAIN spans : spans[n][2] <= Frontier
    /\ WordsKept
    /\ Length > MaxChars => \A piece \in Pieces : OneParagraph(piece)
    /\ Length <= MaxChars =>
         /\ part = NoPart
         /\ \/ spans = << >> /\ cursor = 0
            \/ spans = << << 0, Length >> >> /\ cursor = Length

LEMMA TextFacts ==
    ASSUME text \in Texts
    PROVE  /\ Length \in Nat
           /\ \A k \in 0..(Length - 1) : At(k) \in Words \cup Blanks
           /\ MaxChars \in Nat /\ MaxChars > 0
  BY ChunkAssumption DEF Texts, Length, At

(* A slice of a piece is of one paragraph if the piece is. *)
LEMMA SliceIsOneParagraph ==
    ASSUME text \in Texts, NEW piece \in Positions \X Positions, NEW slice \in Positions \X Positions,
           piece[1] <= slice[1], slice[2] <= piece[2], OneParagraph(piece)
    PROVE  OneParagraph(slice)
<1>1. \A k \in 0..(Length - 1) : Within(k, slice) => Within(k, piece)
  BY TextFacts DEF Within, Positions
<1> QED
  BY <1>1 DEF OneParagraph

(* What a step leaves of the text and its pieces. *)
LEMMA TextKept ==
    ASSUME text' = text
    PROVE  /\ Length' = Length /\ Positions' = Positions
           /\ \A k : At(k)' = At(k)
           /\ \A piece : OneParagraph(piece)' = OneParagraph(piece)
           /\ \A i, j : BlankLine(i, j)' = BlankLine(i, j)
           /\ \A k, piece : Within(k, piece)' = Within(k, piece)
<1>1. /\ Length' = Length /\ Positions' = Positions
      /\ \A k : At(k)' = At(k)
      /\ \A k, piece : Within(k, piece)' = Within(k, piece)
  BY DEF Length, Positions, At, Within
<1>2. \A i, j : BlankLine(i, j)' = BlankLine(i, j)
  BY DEF BlankLine, At
<1>3. \A piece : OneParagraph(piece)' = OneParagraph(piece)
  BY <1>1, <1>2 DEF OneParagraph
<1> QED
  BY <1>1, <1>2, <1>3

LEMMA ShortKeeps ==
    ASSUME ChunkInv, Short
    PROVE  ChunkInv'
<1>1. /\ text' = text /\ part' = part /\ part = NoPart /\ Length <= MaxChars
      /\ spans' = << << 0, Length >> >> /\ cursor' = Length /\ text \in Texts
  BY DEF Short, ChunkInv, ChunkTypeOK
<1>2. Length \in Nat /\ Length' = Length /\ Positions' = Positions
  BY <1>1, TextFacts, TextKept
<1>3. DOMAIN spans' = {1} /\ spans'[1] = << 0, Length >> /\ IdsIn(spans)' = {<< 0, Length >>}
  BY <1>1 DEF IdsIn
<1>4. ChunkTypeOK'
  BY <1>1, <1>2 DEF ChunkTypeOK, Positions
<1>5. SpansFit'
  BY <1>1, <1>2, <1>3, TextFacts DEF SpansFit
<1>6. WordsKept'
  BY <1>1, <1>2, <1>3 DEF WordsKept, Pieces, Within
<1> QED
  BY <1>1, <1>2, <1>3, <1>4, <1>5, <1>6, TextFacts DEF ChunkInv, Frontier

(* A paragraph found after the cursor, or none, and the cursor moves past  *)
(* it and what follows it, none of which is a word.                        *)
LEMMA FindingKeeps ==
    ASSUME ChunkInv, text' = text, spans' = spans, part = NoPart, Length > MaxChars,
           cursor' \in Positions, cursor <= cursor',
           part' = NoPart \/ (part' \in Positions \X Positions /\ part'[1] = cursor
                               /\ part'[1] <= part'[2] /\ part'[2] <= cursor'
                               /\ OneParagraph(part')),
           \A k \in cursor..(cursor' - 1) : At(k) \in Words => part' # NoPart /\ Within(k, part')
    PROVE  ChunkInv'
<1>1. /\ text \in Texts /\ cursor \in Positions /\ spans \in Seq(Positions \X Positions)
      /\ SpansFit /\ WordsKept /\ \A piece \in Pieces : OneParagraph(piece)
      /\ \A n \in DOMAIN spans : spans[n][2] <= cursor
  BY DEF ChunkInv, ChunkTypeOK, Frontier
<1>2. /\ Length \in Nat /\ MaxChars \in Nat /\ Length' = Length /\ Positions' = Positions
      /\ \A k : At(k)' = At(k)
      /\ \A piece : OneParagraph(piece)' = OneParagraph(piece)
  BY <1>1, TextFacts, TextKept
<1>3. Pieces = IdsIn(spans) /\ Pieces' = IdsIn(spans) \cup ({part'} \ {NoPart})
  BY DEF Pieces, NoPart, IdsIn
<1>4. ChunkTypeOK'
  BY <1>1, <1>2 DEF ChunkTypeOK
<1>5. SpansFit'
  BY <1>1 DEF SpansFit
<1>6. WordsKept'
  <2> SUFFICES ASSUME NEW k \in 0..(cursor' - 1), At(k) \in Words
               PROVE  \E piece \in Pieces' : Within(k, piece)
    BY <1>2 DEF WordsKept, Within
  <2>1. CASE k < cursor
    BY <1>1, <1>2, <1>3, <2>1 DEF WordsKept, Positions
  <2>2. CASE cursor <= k
    <3>1. cursor \in Nat /\ cursor' \in Nat
      BY <1>1, <1>2 DEF Positions
    <3>2. \A a, b \in Nat : \A l \in 0..(b - 1) : a <= l => l \in a..(b - 1)
      OBVIOUS
    <3>3. k \in cursor..(cursor' - 1)
      BY <2>2, <3>1, <3>2, Zenon
    <3> QED
      BY <1>3, <3>3
  <2> QED
    BY <1>1, <1>2, <2>1, <2>2 DEF Positions
<1>7. \A piece \in Pieces' : OneParagraph(piece)'
  BY <1>1, <1>2, <1>3
<1>8. \A n \in DOMAIN spans : spans[n][2] <= Frontier'
  BY <1>1, <1>2 DEF Frontier, NoPart, Positions
<1> QED
  BY <1>1, <1>2, <1>4, <1>5, <1>6, <1>7, <1>8 DEF ChunkInv, NoPart

(* Where there is a blank line, there is a first one, and it has an end.   *)
LEMMA SeparatorExists ==
    ASSUME text \in Texts, cursor \in Positions,
           NEW a \in cursor..(Length - 1), NEW b \in cursor..(Length - 1), BlankLine(a, b)
    PROVE  Separators # {}
<1> DEFINE rest == cursor..(Length - 1)
           starts == {i \in rest : \E j \in rest : BlankLine(i, j)}
<1>1. rest \subseteq Nat /\ \A k \in rest : Length - k \in Nat
  BY TextFacts DEF Positions
<1>2. PICK i \in starts : \A k \in starts : i <= k
  <2>1. starts \subseteq Nat /\ starts # {}
    BY <1>1
  <2> HIDE DEF starts
  <2> QED
    BY <2>1, LeastNumber
<1> DEFINE ends == {j \in rest : BlankLine(i, j)}
           lefts == {Length - j : j \in ends}
<1>3. PICK n \in lefts : \A m \in lefts : n <= m
  <2>1. lefts \subseteq Nat /\ lefts # {}
    BY <1>1, <1>2
  <2> HIDE DEF lefts
  <2> QED
    BY <2>1, LeastNumber
<1>4. PICK j \in ends : n = Length - j
  BY <1>3
<1>5. i \in rest /\ j \in rest /\ BlankLine(i, j)
  BY <1>2, <1>4
<1>6. \A k \in ends : Length - j <= Length - k
  BY <1>3, <1>4
<1>7. \A k \in ends : k <= j
  BY <1>1, <1>4, <1>6, TextFacts
<1>8. \A j2 \in (j + 1)..(Length - 1) : ~BlankLine(i, j2)
  <2> SUFFICES ASSUME NEW j2 \in (j + 1)..(Length - 1), BlankLine(i, j2)
               PROVE  FALSE
    OBVIOUS
  <2>1. j2 \in rest /\ ~(j2 <= j)
    BY <1>1, <1>5, TextFacts DEF Positions
  <2> QED
    BY <1>7, <2>1
<1>9. \A i2 \in cursor..(i - 1), j2 \in rest : ~BlankLine(i2, j2)
  <2> SUFFICES ASSUME NEW i2 \in cursor..(i - 1), NEW j2 \in rest, BlankLine(i2, j2)
               PROVE  FALSE
    OBVIOUS
  <2>1. i2 \in rest /\ ~(i <= i2)
    BY <1>1, <1>5, TextFacts DEF Positions
  <2>2. i2 \in starts
    BY <2>1
  <2> QED
    BY <1>2, <2>1, <2>2
<1>10. Separates(i, j)
  BY <1>5, <1>8, <1>9 DEF Separates
<1>11. << i, j >> \in Separators
  BY <1>5, <1>10 DEF Separators
<1> QED
  BY <1>11

LEMMA ParagraphKeeps ==
    ASSUME ChunkInv, Paragraph
    PROVE  ChunkInv'
<1>1. PICK separator \in Separators :
        /\ part' = IF cursor < separator[1] THEN << cursor, separator[1] >> ELSE NoPart
        /\ cursor' = separator[2] + 1
  BY DEF Paragraph
<1>2. PICK i \in cursor..(Length - 1), j \in cursor..(Length - 1) :
        separator = << i, j >> /\ Separates(i, j)
  BY <1>1 DEF Separators
<1>3. /\ part' = IF cursor < i THEN << cursor, i >> ELSE NoPart
      /\ cursor' = j + 1
  BY <1>1, <1>2
<1>4. /\ text' = text /\ spans' = spans /\ part = NoPart /\ Length > MaxChars
      /\ text \in Texts /\ cursor \in Positions /\ cursor < Length
  BY DEF Paragraph, ChunkInv, ChunkTypeOK
<1>5. /\ i < j /\ \A k \in i..j : At(k) \in Blanks
      /\ \A i2 \in cursor..(i - 1), j2 \in cursor..(Length - 1) : ~BlankLine(i2, j2)
  BY <1>2 DEF Separates, BlankLine
<1>6. cursor' \in Positions /\ cursor <= cursor'
  BY <1>3, <1>4, TextFacts DEF Positions
<1>7. CASE cursor < i
  <2>1. part' = << cursor, i >>
    BY <1>3, <1>7
  <2>2. part' \in Positions \X Positions /\ part'[1] <= part'[2] /\ part'[2] <= cursor' /\ part'[1] = cursor
    BY <1>3, <1>4, <1>5, <1>7, <2>1, TextFacts DEF Positions
  <2>3. OneParagraph(<< cursor, i >>)
    <3> SUFFICES ASSUME NEW k \in 0..(Length - 1), NEW l \in 0..(Length - 1),
                        cursor <= k, l < i, k < l,
                        NEW i2 \in k..l, NEW j2 \in k..l, BlankLine(i2, j2)
                 PROVE  FALSE
      BY DEF OneParagraph, Within
    <3>1. i2 \in cursor..(i - 1) /\ j2 \in cursor..(Length - 1)
      BY <1>4, TextFacts DEF Positions
    <3> QED
      BY <1>5, <3>1
  <2>4. \A k \in cursor..(cursor' - 1) : At(k) \in Words => part' # NoPart /\ Within(k, part')
    <3> SUFFICES ASSUME NEW k \in cursor..(cursor' - 1), At(k) \in Words
                 PROVE  k < i
      BY <1>4, <2>1 DEF Within, NoPart, Positions
    <3>1. ~(k \in i..j)
      BY <1>5, ChunkAssumption
    <3> QED
      BY <1>3, <1>4, <1>5, <3>1, TextFacts DEF Positions
  <2> QED
    BY <1>4, <1>6, <2>1, <2>2, <2>3, <2>4, FindingKeeps
<1>8. CASE ~(cursor < i)
  <2>1. part' = NoPart /\ i = cursor
    BY <1>3, <1>4, <1>8, TextFacts DEF Positions
  <2>2. \A k \in cursor..(cursor' - 1) : At(k) \notin Words
    BY <1>3, <1>4, <1>5, <2>1, TextFacts, ChunkAssumption DEF Positions
  <2> QED
    BY <1>4, <1>6, <2>1, <2>2, FindingKeeps
<1> QED
  BY <1>7, <1>8

LEMMA LastParagraphKeeps ==
    ASSUME ChunkInv, LastParagraph
    PROVE  ChunkInv'
<1>1. /\ text' = text /\ spans' = spans /\ part = NoPart /\ Length > MaxChars
      /\ text \in Texts /\ cursor \in Positions /\ cursor < Length
      /\ Separators = {} /\ part' = << cursor, Length >> /\ cursor' = Length
  BY DEF LastParagraph, ChunkInv, ChunkTypeOK
<1>2. cursor' \in Positions /\ cursor <= cursor'
  BY <1>1, TextFacts DEF Positions
<1>3. /\ part' \in Positions \X Positions /\ part'[1] = cursor
      /\ part'[1] <= part'[2] /\ part'[2] <= cursor'
  BY <1>1, <1>2, TextFacts DEF Positions
<1>4. OneParagraph(<< cursor, Length >>)
  <2> SUFFICES ASSUME NEW k \in 0..(Length - 1), NEW l \in 0..(Length - 1), cursor <= k, k < l,
                      NEW i \in k..l, NEW j \in k..l, BlankLine(i, j)
               PROVE  FALSE
    BY DEF OneParagraph, Within
  <2>1. i \in cursor..(Length - 1) /\ j \in cursor..(Length - 1)
    BY <1>1, TextFacts DEF Positions
  <2> QED
    BY <1>1, <2>1, SeparatorExists
<1>5. \A k \in cursor..(cursor' - 1) : At(k) \in Words => part' # NoPart /\ Within(k, part')
  BY <1>1, TextFacts DEF Within, NoPart, Positions
<1> QED
  BY <1>1, <1>2, <1>3, <1>4, <1>5, FindingKeeps

LEMMA NoParagraphKeeps ==
    ASSUME ChunkInv, NoParagraph
    PROVE  ChunkInv'
<1>1. /\ text' = text /\ spans' = spans /\ cursor' = cursor /\ part = NoPart /\ Length > MaxChars
      /\ text \in Texts /\ cursor = Length /\ spans = << >> /\ part' = << 0, Length >>
  BY DEF NoParagraph, ChunkInv, ChunkTypeOK
<1>2. /\ Length \in Nat /\ MaxChars \in Nat /\ Length' = Length /\ Positions' = Positions
      /\ \A k : At(k)' = At(k)
      /\ \A piece : OneParagraph(piece)' = OneParagraph(piece)
  BY <1>1, TextFacts, TextKept
<1>3. \A k \in 0..(Length - 1) : At(k) \notin Words
  BY <1>1 DEF ChunkInv, WordsKept, Pieces, IdsIn, NoPart
<1>4. Pieces' = {<< 0, Length >>} /\ IdsIn(spans)' = {}
  BY <1>1 DEF Pieces, IdsIn, NoPart
<1>5. OneParagraph(<< 0, Length >>)
  BY <1>3 DEF OneParagraph
<1>6. WordsKept'
  BY <1>1, <1>2, <1>3 DEF WordsKept
<1>7. ChunkTypeOK'
  BY <1>1, <1>2 DEF ChunkTypeOK, ChunkInv, Positions
<1>8. SpansFit'
  BY <1>1 DEF SpansFit
<1> QED
  BY <1>1, <1>2, <1>4, <1>5, <1>6, <1>7, <1>8 DEF ChunkInv

(* A span appended, of what the last piece was, and the rest of the piece  *)
(* after it, if there is one.                                              *)
LEMMA AppendingKeeps ==
    ASSUME ChunkInv, text' = text, cursor' = cursor, part # NoPart, Length > MaxChars,
           NEW span \in Positions \X Positions, spans' = Append(spans, span),
           span[1] = part[1], span[1] <= span[2], span[2] <= part[2], span[2] - span[1] <= MaxChars,
           \/ part' = NoPart
           \/ /\ part' \in Positions \X Positions /\ span[2] <= part'[1]
              /\ part'[1] <= part'[2] /\ part'[2] = part[2],
           \A k \in 0..(Length - 1) : At(k) \in Words /\ Within(k, part) =>
             Within(k, span) \/ (part' # NoPart /\ Within(k, part'))
    PROVE  ChunkInv'
<1>1. /\ text \in Texts /\ cursor \in Positions /\ spans \in Seq(Positions \X Positions)
      /\ part \in Positions \X Positions /\ part[1] <= part[2] /\ part[2] <= cursor
      /\ SpansFit /\ WordsKept /\ \A piece \in Pieces : OneParagraph(piece)
      /\ \A n \in DOMAIN spans : spans[n][2] <= part[1]
  BY DEF ChunkInv, ChunkTypeOK, Frontier
<1>2. /\ Length \in Nat /\ MaxChars \in Nat /\ Length' = Length /\ Positions' = Positions
      /\ \A k : At(k)' = At(k)
      /\ \A piece : OneParagraph(piece)' = OneParagraph(piece)
  BY <1>1, TextFacts, TextKept
<1>3. /\ Len(spans) \in Nat /\ DOMAIN spans = 1..Len(spans) /\ DOMAIN spans' = 1..(Len(spans) + 1)
      /\ \A n \in DOMAIN spans : spans'[n] = spans[n] /\ spans[n] \in Positions \X Positions
      /\ spans'[Len(spans) + 1] = span
      /\ spans' \in Seq(Positions \X Positions)
  BY <1>1
<1>4. IdsIn(spans)' = IdsIn(spans) \cup {span}
  BY <1>3 DEF IdsIn
<1>5. Pieces = IdsIn(spans) \cup {part} /\ Pieces' = IdsIn(spans) \cup {span} \cup ({part'} \ {NoPart})
  BY <1>4 DEF Pieces
<1>6. ChunkTypeOK'
  BY <1>1, <1>2, <1>3 DEF ChunkTypeOK
<1>7. \A n \in DOMAIN spans : spans[n][2] \in Nat /\ spans[n][1] \in Nat
  BY <1>2, <1>3 DEF Positions
<1>8. span[1] \in Nat /\ span[2] \in Nat /\ part[1] \in Nat /\ part[2] \in Nat /\ cursor \in Nat
  BY <1>1, <1>2 DEF Positions
<1>9. SpansFit'
  <2>1. \A n \in DOMAIN spans' : n \in DOMAIN spans \/ n = Len(spans) + 1
    BY <1>3
  <2>2. \A n \in DOMAIN spans' :
          spans'[n][1] <= spans'[n][2] /\ spans'[n][2] - spans'[n][1] <= MaxChars
    BY <1>1, <1>3, <2>1 DEF SpansFit
  <2>3. \A m, n \in DOMAIN spans' : m < n => spans'[m][2] <= spans'[n][1]
    <3> SUFFICES ASSUME NEW m \in DOMAIN spans', NEW n \in DOMAIN spans', m < n
                 PROVE  spans'[m][2] <= spans'[n][1]
      OBVIOUS
    <3>1. m \in DOMAIN spans
      BY <1>3
    <3>2. CASE n \in DOMAIN spans
      BY <1>1, <1>3, <3>1, <3>2 DEF SpansFit
    <3>3. CASE n = Len(spans) + 1
      BY <1>1, <1>3, <3>1, <3>3
    <3> QED
      BY <2>1, <3>2, <3>3
  <2> QED
    BY <2>2, <2>3 DEF SpansFit
<1>10. WordsKept'
  <2> SUFFICES ASSUME NEW k \in 0..(cursor - 1), At(k) \in Words
               PROVE  \E piece \in Pieces' : Within(k, piece)
    BY <1>2 DEF WordsKept, Within
  <2>1. PICK piece \in Pieces : Within(k, piece)
    BY <1>1 DEF WordsKept
  <2>2. CASE piece = part
    <3>1. k \in 0..(Length - 1)
      BY <1>1, <1>2 DEF Positions
    <3> QED
      BY <1>5, <2>1, <2>2, <3>1
  <2>3. CASE piece \in IdsIn(spans)
    BY <1>5, <2>1, <2>3
  <2> QED
    BY <1>5, <2>1, <2>2, <2>3
<1>11. \A piece \in Pieces' : OneParagraph(piece)'
  <2>1. OneParagraph(part)
    BY <1>1, <1>5
  <2>2. OneParagraph(span)
    BY <1>1, <1>8, <2>1, SliceIsOneParagraph
  <2>3. part' # NoPart => OneParagraph(part')
    <3> SUFFICES ASSUME part' # NoPart
                 PROVE  OneParagraph(part')
      OBVIOUS
    <3>1. /\ part' \in Positions \X Positions /\ span[2] <= part'[1]
          /\ part'[1] <= part'[2] /\ part'[2] = part[2]
      OBVIOUS
    <3>2. part'[1] \in Nat
      BY <1>2, <3>1 DEF Positions
    <3>3. part[1] <= part'[1] /\ part'[2] <= part[2]
      BY <1>8, <3>1, <3>2
    <3> QED
      BY <1>1, <2>1, <3>1, <3>3, SliceIsOneParagraph
  <2> QED
    BY <1>1, <1>2, <1>5, <2>2, <2>3
<1>12. \A n \in DOMAIN spans' : spans'[n][2] <= Frontier'
  <2>1. Frontier' \in Nat /\ span[2] <= Frontier'
    BY <1>1, <1>2, <1>8 DEF Frontier, Positions
  <2>2. \A n \in DOMAIN spans : spans[n][2] <= span[2]
    BY <1>1, <1>7, <1>8
  <2> QED
    BY <1>3, <1>7, <1>8, <2>1, <2>2
<1>13. part' # NoPart => part'[1] <= part'[2] /\ part'[2] <= cursor'
  BY <1>1
<1> QED
  BY <1>2, <1>6, <1>9, <1>10, <1>11, <1>12, <1>13 DEF ChunkInv

LEMMA KeepKeeps ==
    ASSUME ChunkInv, Keep
    PROVE  ChunkInv'
<1>1. /\ text' = text /\ cursor' = cursor /\ part # NoPart /\ part[2] - part[1] <= MaxChars
      /\ spans' = Append(spans, part) /\ part' = NoPart
      /\ part \in Positions \X Positions /\ part[1] <= part[2] /\ text \in Texts
  BY DEF Keep, ChunkInv, ChunkTypeOK
<1>2. Length > MaxChars
  BY <1>1, TextFacts DEF ChunkInv
<1>3. part[1] \in Nat /\ part[2] \in Nat
  BY <1>1, TextFacts DEF Positions
<1> QED
  BY <1>1, <1>2, <1>3, AppendingKeeps

LEMMA CutKeeps ==
    ASSUME ChunkInv, Cut
    PROVE  ChunkInv'
<1>1. /\ text' = text /\ cursor' = cursor /\ part # NoPart /\ part[2] - part[1] > MaxChars
      /\ part \in Positions \X Positions /\ part[1] <= part[2] /\ text \in Texts
  BY DEF Cut, ChunkInv, ChunkTypeOK
<1>2. PICK at \in 0..Length, start \in 0..Length :
        /\ CutsAt(part[1], at) /\ Resumes(at, start, part[2])
        /\ spans' = Append(spans, << part[1], at >>)
        /\ part' = << start, part[2] >>
  BY DEF Cut
<1>3. Length > MaxChars
  BY <1>1, TextFacts DEF ChunkInv
<1>4. /\ part[1] \in Nat /\ part[2] \in Nat /\ MaxChars \in Nat /\ MaxChars > 0 /\ Length \in Nat
      /\ at \in Nat /\ start \in Nat
  BY <1>1, TextFacts DEF Positions
<1>5. part[1] < at /\ at - part[1] <= MaxChars
  BY <1>2, <1>4 DEF CutsAt, IsLast, Found
<1>6. at <= start /\ start <= part[2] /\ \A k \in at..(start - 1) : At(k) \notin Words
  <2>1. Skipped \cap Words = {}
    BY ChunkAssumption DEF Skipped, Blanks
  <2> QED
    BY <1>2, <1>4, <2>1 DEF Resumes
<1>7. << part[1], at >> \in Positions \X Positions /\ << start, part[2] >> \in Positions \X Positions
  BY <1>1 DEF Positions
<1>8. \A k \in 0..(Length - 1) : At(k) \in Words /\ Within(k, part) =>
        Within(k, << part[1], at >>) \/ Within(k, << start, part[2] >>)
  BY <1>4, <1>6 DEF Within
<1>9. part' # NoPart
  BY <1>2 DEF NoPart
<1>10. PICK span : span = << part[1], at >>
  OBVIOUS
<1>11. /\ span \in Positions \X Positions /\ spans' = Append(spans, span)
       /\ span[1] = part[1] /\ span[1] <= span[2] /\ span[2] <= part[2] /\ span[2] - span[1] <= MaxChars
  BY <1>2, <1>4, <1>5, <1>6, <1>7, <1>10
<1>12. /\ part' \in Positions \X Positions /\ span[2] <= part'[1]
       /\ part'[1] <= part'[2] /\ part'[2] = part[2]
  BY <1>2, <1>6, <1>7, <1>10
<1>13. \A k \in 0..(Length - 1) : At(k) \in Words /\ Within(k, part) =>
         Within(k, span) \/ (part' # NoPart /\ Within(k, part'))
  BY <1>2, <1>8, <1>9, <1>10
<1> QED
  BY <1>1, <1>3, <1>11, <1>12, <1>13, AppendingKeeps

LEMMA ChunkNextKeeps ==
    ASSUME ChunkInv, ChunkNext
    PROVE  ChunkInv'
  BY ShortKeeps, ParagraphKeeps, LastParagraphKeeps, NoParagraphKeeps, CutKeeps, KeepKeeps DEF ChunkNext

LEMMA FreshText ==
    ASSUME text \in Texts, cursor = 0, part = NoPart, spans = << >>
    PROVE  ChunkInv
<1>1. Pieces = {} /\ DOMAIN spans = {}
  BY DEF Pieces, IdsIn
<1>2. Length \in Nat
  BY TextFacts
<1>3. ChunkTypeOK
  BY <1>2 DEF ChunkTypeOK, Positions
<1>4. SpansFit /\ WordsKept
  BY <1>1 DEF SpansFit, WordsKept
<1> QED
  BY <1>1, <1>3, <1>4 DEF ChunkInv

(* The same of the next state. *)
LEMMA FreshTextNext ==
    ASSUME text' \in Texts, cursor' = 0, part' = NoPart, spans' = << >>
    PROVE  ChunkInv'
<1>1. Pieces' = {} /\ DOMAIN spans' = {}
  BY DEF Pieces, IdsIn
<1>2. Length' \in Nat
  BY DEF Length, Texts
<1>3. ChunkTypeOK'
  BY <1>2 DEF ChunkTypeOK, Positions
<1>4. SpansFit' /\ WordsKept'
  BY <1>1 DEF SpansFit, WordsKept
<1> QED
  BY <1>1, <1>3, <1>4 DEF ChunkInv

LEMMA ChunkInvKept ==
    ASSUME ChunkInv, UNCHANGED chunking
    PROVE  ChunkInv'
<1>1. text' = text /\ cursor' = cursor /\ part' = part /\ spans' = spans
  BY DEF chunking
<1>2. /\ Length' = Length /\ Positions' = Positions
      /\ \A k : At(k)' = At(k)
      /\ \A piece : OneParagraph(piece)' = OneParagraph(piece)
  BY <1>1, TextKept
<1>3. Pieces' = Pieces /\ Frontier' = Frontier
  BY <1>1 DEF Pieces, IdsIn, Frontier
<1>4. ChunkTypeOK' /\ SpansFit'
  BY <1>1, <1>2 DEF ChunkInv, ChunkTypeOK, SpansFit
<1>5. WordsKept'
  BY <1>1, <1>2, <1>3 DEF ChunkInv, WordsKept, Within
<1> QED
  BY <1>1, <1>2, <1>3, <1>4, <1>5 DEF ChunkInv

LEMMA DocumentFacts ==
    ASSUME task \in Tasks
    PROVE  /\ Len(task.documents) \in Nat /\ Len(task.documents) > 0
           /\ Documents = 1..Len(task.documents)
           /\ \A d \in Documents :
                /\ task.documents[d].text \in Texts
                /\ task.documents[d].source \notin Recorded
                /\ task.documents[d].scores \in [DOMAIN task.documents[d].scores -> Nat]
<1>1. task.documents \in Seq(IdsIn(task.documents)) \ {<< >>}
  BY CallAssumption
<1>2. \A d \in Documents : task.documents[d] \in IdsIn(task.documents)
  BY DEF IdsIn, Documents
<1> QED
  BY <1>1, <1>2, CallAssumption DEF Documents

CutsInv ==
    /\ cuts \in Seq(Seq(Nat \X Nat))
    /\ Len(cuts) <= Len(task.documents)
    /\ \A d \in DOMAIN cuts :
         cuts[d] # << >> /\ \A k \in DOMAIN cuts[d] : cuts[d][k][1] <= cuts[d][k][2]

DocumentsInv == AnswersInv /\ ChunkInv /\ CutsInv

LEMMA NextDocumentKeeps ==
    ASSUME DocumentsInv, NextDocument
    PROVE  ChunkInv' /\ CutsInv'
<1>1. /\ Chunked /\ ~AllCut /\ cuts' = Append(cuts, spans) /\ task' = task /\ task \in Tasks
      /\ cuts \in Seq(Seq(Nat \X Nat)) /\ Len(cuts) <= Len(task.documents)
      /\ \A d \in DOMAIN cuts :
           cuts[d] # << >> /\ \A k \in DOMAIN cuts[d] : cuts[d][k][1] <= cuts[d][k][2]
  BY DEF NextDocument, DocumentsInv, AnswersInv, CutsInv
<1>2. Len(cuts) \in Nat /\ Len(task.documents) \in Nat /\ Len(cuts) < Len(task.documents)
  BY <1>1, DocumentFacts DEF AllCut
<1>3. ChunkInv'
  <2>1. CASE Len(cuts) + 1 < Len(task.documents)
    <3>1. Len(cuts) + 2 \in Documents
      BY <1>1, <1>2, <2>1, DocumentFacts
    <3>2. text' = task.documents[Len(cuts) + 2].text /\ cursor' = 0 /\ part' = NoPart /\ spans' = << >>
      BY <2>1 DEF NextDocument
    <3> QED
      BY <1>1, <3>1, <3>2, DocumentFacts, FreshTextNext
  <2>2. CASE ~(Len(cuts) + 1 < Len(task.documents))
    BY <2>2, ChunkInvKept DEF NextDocument, DocumentsInv
  <2> QED
    BY <2>1, <2>2
<1>4. spans \in Seq(Nat \X Nat) /\ spans # << >> /\ \A k \in DOMAIN spans : spans[k][1] <= spans[k][2]
  <2>1. text \in Texts /\ spans \in Seq(Positions \X Positions)
    BY DEF DocumentsInv, ChunkInv, ChunkTypeOK
  <2>2. Positions \subseteq Nat
    BY <2>1, TextFacts DEF Positions
  <2>3. spans \in Seq(Nat \X Nat)
    <3>1. Positions \X Positions \subseteq Nat \X Nat
      BY <2>2
    <3>2. \A S, T : S \subseteq T => Seq(S) \subseteq Seq(T)
      OBVIOUS
    <3> QED
      BY <2>1, <3>1, <3>2
  <2> QED
    BY <1>1, <2>3 DEF Chunked, DocumentsInv, ChunkInv, SpansFit
<1>5. /\ cuts' \in Seq(Seq(Nat \X Nat)) /\ Len(cuts') = Len(cuts) + 1
      /\ \A d \in DOMAIN cuts' : (d \in DOMAIN cuts /\ cuts'[d] = cuts[d]) \/ cuts'[d] = spans
  BY <1>1, <1>4
<1>6. \A d \in DOMAIN cuts' :
        cuts'[d] # << >> /\ \A k \in DOMAIN cuts'[d] : cuts'[d][k][1] <= cuts'[d][k][2]
  <2> SUFFICES ASSUME NEW d \in DOMAIN cuts'
               PROVE  cuts'[d] # << >> /\ \A k \in DOMAIN cuts'[d] : cuts'[d][k][1] <= cuts'[d][k][2]
    OBVIOUS
  <2>1. CASE d \in DOMAIN cuts /\ cuts'[d] = cuts[d]
    BY <1>1, <2>1
  <2>2. CASE cuts'[d] = spans
    BY <1>4, <2>2
  <2> QED
    BY <1>5, <2>1, <2>2
<1>7. Len(cuts') <= Len(task'.documents)
  BY <1>1, <1>2, <1>5
<1>8. CutsInv'
  BY <1>5, <1>6, <1>7 DEF CutsInv
<1> QED
  BY <1>3, <1>8

(* Every document is cut from its first character on, and no step but the  *)
(* chunker's touches what has been cut.                                    *)
THEOREM DocumentsInvariant == CallSpec => []DocumentsInv
<1>1. CallInit => ChunkInv /\ CutsInv
  <2> SUFFICES ASSUME CallInit
               PROVE  ChunkInv /\ CutsInv
    OBVIOUS
  <2>1. task \in Tasks /\ cuts = << >>
    BY DEF CallInit
  <2> QED
    BY <2>1, FreshText, DocumentFacts DEF CallInit, ChunkInit, CutsInv
<1>2. DocumentsInv /\ [CallNext]_callVars => ChunkInv' /\ CutsInv'
  <2> SUFFICES ASSUME DocumentsInv, [CallNext]_callVars
               PROVE  ChunkInv' /\ CutsInv'
    OBVIOUS
  <2>1. CASE NextDocument
    BY <2>1, NextDocumentKeeps
  <2>2. ASSUME task' = task, cuts' = cuts
        PROVE  CutsInv'
    BY <2>2 DEF DocumentsInv, CutsInv
  <2>3. CASE ChunkStep
    BY <2>2, <2>3, ChunkNextKeeps DEF ChunkStep, DocumentsInv
  <2>4. CASE UNCHANGED chunking /\ task' = task /\ cuts' = cuts
    BY <2>2, <2>4, ChunkInvKept DEF DocumentsInv
  <2>5. Choose \/ Sort \/ Consider \/ Compile \/ Fill \/ UNCHANGED callVars
          => UNCHANGED chunking /\ task' = task /\ cuts' = cuts
    BY DEF Choose, Select, Sort, Consider, Compile, Fill, callVars
  <2> QED
    BY <2>1, <2>3, <2>4, <2>5 DEF CallNext
<1>3. DocumentsInv <=> AnswersInv /\ ChunkInv /\ CutsInv
  BY DEF DocumentsInv
<1> QED
  BY <1>1, <1>2, <1>3, AnswersInvariant, PTL DEF CallSpec

(* No word of a document is lost where it is cut, whatever the text, and a *)
(* span is a slice of one paragraph, none longer than allowed.             *)
THEOREM SpansArePartition == CallSpec => []SpansPartition
<1>1. ChunkInv => SpansPartition
  <2> SUFFICES ASSUME ChunkInv
               PROVE  SpansPartition
    OBVIOUS
  <2>1. NothingLost
    <3> SUFFICES ASSUME Chunked, NEW k \in 0..(Length - 1), At(k) \in Words
                 PROVE  \E n \in DOMAIN spans : Within(k, spans[n])
      BY DEF NothingLost
    <3>1. PICK piece \in Pieces : Within(k, piece)
      BY DEF Chunked, ChunkInv, WordsKept
    <3>2. piece \in IdsIn(spans)
      BY <3>1 DEF Pieces, Chunked
    <3> QED
      BY <3>1, <3>2 DEF IdsIn
  <2>2. ParagraphsApart
    <3>1. \A n \in DOMAIN spans : spans[n] \in Pieces
      BY DEF Pieces, IdsIn
    <3> QED
      BY <3>1 DEF ChunkInv, ParagraphsApart, OneParagraph, BlankLine
  <2> QED
    BY <2>1, <2>2 DEF SpansPartition, ChunkInv
<1>2. DocumentsInv => ChunkInv
  BY DEF DocumentsInv
<1> QED
  BY <1>1, <1>2, DocumentsInvariant, PTL

----------------------------------------------------------------------------
(* Choosing among passages *)

(* Of finitely many numbers one is the greatest. *)
LEMMA GreatestValue ==
    ASSUME NEW n \in Nat \ {0}, NEW g \in [1..n -> Nat]
    PROVE  \E j \in 1..n : \A k \in 1..n : g[k] <= g[j]
<1> DEFINE HasGreatest(m) == \E j \in 1..m : \A k \in 1..m : g[k] <= g[j]
           Bad == {m \in 1..n : ~HasGreatest(m)}
<1>1. ASSUME Bad # {}
      PROVE  FALSE
  <2>1. PICK m \in Bad : \A l \in Bad : m <= l
    <3>1. Bad \subseteq Nat
      OBVIOUS
    <3> HIDE DEF Bad
    <3> QED
      BY <1>1, <3>1, LeastNumber
  <2>2. m \in 1..n /\ ~HasGreatest(m)
    BY <2>1
  <2>3. HasGreatest(1)
    OBVIOUS
  <2>4. m - 1 \in 1..n /\ ~(m <= m - 1)
    BY <2>2, <2>3
  <2>5. HasGreatest(m - 1)
    <3> HIDE DEF HasGreatest
    <3> QED
      BY <2>1, <2>4
  <2>6. PICK j \in 1..(m - 1) : \A k \in 1..(m - 1) : g[k] <= g[j]
    BY <2>5
  <2>7. \A k \in 1..m : k \in 1..(m - 1) \/ k = m
    BY <2>2
  <2>8. /\ m \in 1..m /\ j \in 1..m /\ g[m] \in Nat /\ g[j] \in Nat
        /\ \A k \in 1..(m - 1) : g[k] \in Nat
    BY <2>2, <2>4
  <2>9. CASE g[m] <= g[j]
    <3>1. \A k \in 1..m : g[k] <= g[j]
      BY <2>6, <2>7, <2>9
    <3> QED
      BY <2>2, <2>8, <3>1
  <2>10. CASE ~(g[m] <= g[j])
    <3>1. \A k \in 1..m : g[k] <= g[m]
      BY <2>6, <2>7, <2>8, <2>10
    <3> QED
      BY <2>2, <2>8, <3>1
  <2> QED
    BY <2>9, <2>10
<1> HIDE DEF HasGreatest
<1>2. HasGreatest(n)
  BY <1>1
<1> QED
  BY <1>2 DEF HasGreatest

(* A document is as similar as one of its passages. *)
LEMMA DocumentScoreFacts ==
    ASSUME DocumentsInv, AllCut, NEW d \in Documents
    PROVE  /\ Count(d) \in Nat \ {0}
           /\ DocumentScore(d) \in Nat
           /\ DocumentScore(d) > 0 => DocumentScore(d) \in IdsIn(task.documents[d].scores)
<1>1. task \in Tasks /\ task.documents[d].scores \in [DOMAIN task.documents[d].scores -> Nat]
  BY DocumentFacts DEF DocumentsInv, AnswersInv
<1>2. Count(d) \in Nat \ {0}
  <2>1. cuts \in Seq(Seq(Nat \X Nat)) /\ d \in DOMAIN cuts
    BY <1>1, DocumentFacts DEF DocumentsInv, CutsInv, AllCut
  <2>2. cuts[d] \in Seq(Nat \X Nat) /\ cuts[d] # << >>
    BY <2>1 DEF DocumentsInv, CutsInv
  <2> QED
    BY <2>2 DEF Count
<1>3. \A k : PassageScore(d, k) \in Nat
             /\ (PassageScore(d, k) > 0 => PassageScore(d, k) \in IdsIn(task.documents[d].scores))
  BY <1>1 DEF PassageScore, IdsIn
<1> DEFINE g == [k \in 1..Count(d) |-> PassageScore(d, k)]
           values == {PassageScore(d, k) : k \in 1..Count(d)}
<1>4. PICK j \in 1..Count(d) : \A k \in 1..Count(d) : g[k] <= g[j]
  <2>1. g \in [1..Count(d) -> Nat]
    BY <1>3
  <2> HIDE DEF g
  <2> QED
    BY <1>2, <2>1, GreatestValue
<1>5. PassageScore(d, j) \in values /\ \A y \in values : PassageScore(d, j) >= y
  BY <1>3, <1>4
<1>6. Max(values) \in values
  <2> HIDE DEF values
  <2> QED
    BY <1>5 DEF Max
<1> QED
  BY <1>2, <1>3, <1>6 DEF DocumentScore

LEMMA FewSimilarDocuments ==
    ASSUME DocumentsInv, AllCut
    PROVE  /\ SimilarDocuments \subseteq Documents
           /\ IsFiniteSet(SimilarDocuments) /\ Cardinality(SimilarDocuments) <= EvidenceLimit
<1> DEFINE f == [d \in Documents |-> DocumentScore(d)]
           ranked == {d \in Documents : f[d] > 0}
           better(d) == {other \in ranked : f[other] > f[d]}
<1>1. task \in Tasks /\ EvidenceLimit \in Nat \ {0}
  BY CallAssumption DEF DocumentsInv, AnswersInv
<1>2. IsFiniteSet(Documents)
  BY <1>1, DocumentFacts, FS_Interval
<1>3. /\ SimilarDocuments \subseteq ranked
      /\ \A d \in SimilarDocuments : Cardinality(better(d)) < EvidenceLimit
  BY DEF SimilarDocuments, SetAdmitted
<1>4. \A d \in Documents : f[d] = DocumentScore(d) /\ f[d] \in Nat
  BY DocumentScoreFacts
<1>5. \A d, e \in ranked : f[d] = f[e] => d = e
  <2> SUFFICES ASSUME NEW d \in ranked, NEW e \in ranked, f[d] = f[e], d # e
               PROVE  FALSE
    OBVIOUS
  <2>1. f[d] > 0 /\ f[d] \in IdsIn(task.documents[d].scores) /\ f[d] \in IdsIn(task.documents[e].scores)
    BY <1>4, DocumentScoreFacts
  <2>2. IdsIn(task.documents[d].scores) \cap IdsIn(task.documents[e].scores) \subseteq {0}
    BY <1>1, CallAssumption DEF Documents
  <2> QED
    BY <2>1, <2>2
<1>6. ranked \subseteq Documents /\ IsFiniteSet(ranked)
  BY <1>2, FS_Subset
<1> HIDE DEF f, ranked
<1>7. IsFiniteSet(SimilarDocuments) /\ Cardinality(SimilarDocuments) \in Nat
  BY <1>3, <1>6, FS_Subset, FS_CardinalityType
<1>8. Cardinality(SimilarDocuments) <= EvidenceLimit
  <2>1. CASE SimilarDocuments = {}
    BY <1>1, <2>1, FS_EmptySet
  <2>2. CASE SimilarDocuments # {}
    <3> DEFINE values == {f[d] : d \in SimilarDocuments}
    <3>1. PICK v \in values : \A x \in values : v <= x
      <4>1. values \subseteq Nat /\ values # {}
        BY <1>3, <1>4, <1>6, <2>2
      <4> HIDE DEF values
      <4> QED
        BY <4>1, LeastNumber
    <3>2. PICK worst \in SimilarDocuments : v = f[worst]
      BY <3>1
    <3>3. \A d \in SimilarDocuments \ {worst} : d \in better(worst)
      <4> SUFFICES ASSUME NEW d \in SimilarDocuments \ {worst}
                   PROVE  d \in better(worst)
        OBVIOUS
      <4>1. d \in ranked /\ worst \in ranked /\ f[d] \in Nat /\ f[worst] \in Nat
        BY <1>3, <1>4, <1>6
      <4>2. f[worst] <= f[d] /\ f[worst] # f[d]
        BY <1>5, <3>1, <3>2, <4>1
      <4> QED
        BY <4>1, <4>2
    <3>4. better(worst) \in SUBSET ranked
      OBVIOUS
    <3> HIDE DEF better
    <3>5. IsFiniteSet(better(worst)) /\ Cardinality(better(worst)) \in Nat
      BY <1>6, <3>4, FS_Subset, FS_CardinalityType
    <3>6. SimilarDocuments \ {worst} \in SUBSET better(worst)
      BY <3>3
    <3>7. Cardinality(SimilarDocuments \ {worst}) <= Cardinality(better(worst))
      BY <3>5, <3>6, FS_Subset
    <3>8. Cardinality(SimilarDocuments \ {worst}) = Cardinality(SimilarDocuments) - 1
      BY <1>7, FS_RemoveElement
    <3>9. Cardinality(better(worst)) < EvidenceLimit
      BY <1>3
    <3> QED
      BY <1>1, <1>7, <3>5, <3>7, <3>8, <3>9
  <2> QED
    BY <2>1, <2>2
<1> QED
  BY <1>3, <1>6, <1>7, <1>8

Documented(passages) == {p.document : p \in passages}

(* What is still to be considered comes after all that was, which says as  *)
(* much, for no more reasons than each passage kept gave.                  *)
SoundChoice(kept) ==
    LET chosen == IdsIn(kept.passages)
    IN  /\ kept \in [waiting : SUBSET Relevants, passages : Seq(Relevants),
                     covered : SUBSET task.query, represented : SUBSET Documents]
        /\ kept.covered = TokensOf(chosen)
        /\ kept.represented = Documented(chosen)
        /\ TokensOf(chosen \cup kept.waiting) = TokensOf(Relevants)
        /\ Documented(Relevants) \cap SimilarDocuments \subseteq Documented(chosen \cup kept.waiting)
        /\ kept.passages = << >> => kept.waiting = Relevants
        /\ \A m, n \in DOMAIN kept.passages : m < n => Before(kept.passages[m], kept.passages[n])
        /\ \A n \in DOMAIN kept.passages : \A q \in kept.waiting : Before(kept.passages[n], q)
        /\ Len(kept.passages)
             <= 1 + Cardinality(kept.covered) + Cardinality(kept.represented \cap SimilarDocuments)

ChoiceInv == choice # NoChoice => AllCut /\ \A kept \in {choice} : SoundChoice(kept)

ChoosingInv == DocumentsInv /\ ChoiceInv

LEMMA PassagesKept ==
    ASSUME task' = task, cuts' = cuts
    PROVE  /\ Documents' = Documents /\ AllCut' = AllCut
           /\ SimilarDocuments' = SimilarDocuments /\ Relevants' = Relevants
           /\ \A d, k : PassageTokens(d, k)' = PassageTokens(d, k)
<1>1. /\ Documents' = Documents /\ AllCut' = AllCut
      /\ \A d : Count(d)' = Count(d)
      /\ \A d, k : PassageScore(d, k)' = PassageScore(d, k)
      /\ \A d, k : PassageTokens(d, k)' = PassageTokens(d, k)
  BY DEF Documents, AllCut, Count, PassageScore, PassageTokens, PassageText
<1>2. \A d : DocumentScore(d)' = DocumentScore(d)
  BY <1>1 DEF DocumentScore
<1>3. SimilarDocuments' = SimilarDocuments
  BY <1>1, <1>2 DEF SimilarDocuments
<1>4. \A d, k : Overlap(d, k)' = Overlap(d, k)
  BY <1>1 DEF Overlap, WeightedOverlap
<1>5. \A d : Surviving(d)' = Surviving(d)
  BY <1>1, <1>4 DEF Surviving
<1>6. \A d, k : Passage(d, k)' = Passage(d, k)
  BY <1>2, <1>3, <1>4 DEF Passage
<1>7. Admitted' = Admitted
  BY <1>1, <1>3 DEF Admitted
<1>8. Relevants' = Relevants
  BY <1>5, <1>6, <1>7 DEF Relevants
<1> QED
  BY <1>1, <1>3, <1>8

LEMMA SoundChoiceKept ==
    ASSUME task' = task, cuts' = cuts
    PROVE  \A kept : SoundChoice(kept) => SoundChoice(kept)'
<1>1. /\ Documents' = Documents /\ SimilarDocuments' = SimilarDocuments /\ Relevants' = Relevants
      /\ \A d, k : PassageTokens(d, k)' = PassageTokens(d, k)
  BY PassagesKept
<1>2. \A passages : TokensOf(passages)' = TokensOf(passages)
  BY <1>1 DEF TokensOf
<1> QED
  BY <1>1, <1>2 DEF SoundChoice

(* What one passage says of the query. *)
Says(p) == task.query \cap PassageTokens(p.document, p.index)

LEMMA TokensOfFacts ==
    /\ TokensOf({}) = {}
    /\ \A S, p : TokensOf(S \cup {p}) = TokensOf(S) \cup Says(p)
    /\ \A S, p : p \in S => Says(p) \subseteq TokensOf(S)
    /\ \A S : TokensOf(S) \subseteq task.query
  BY DEF TokensOf, Says

LEMMA RelevantsFacts ==
    /\ \A p \in Relevants : p.document \in Documents
    /\ \A S, p : Documented(S \cup {p}) = Documented(S) \cup {p.document}
  BY DEF Relevants, Passage, Admitted, Documented

LEMMA SortIsSound ==
    SoundChoice([waiting |-> Relevants, passages |-> << >>, covered |-> {}, represented |-> {}])
<1> PICK kept : kept = [waiting |-> Relevants, passages |-> << >>, covered |-> {}, represented |-> {}]
  OBVIOUS
<1>1. kept \in [waiting : SUBSET Relevants, passages : Seq(Relevants),
                covered : SUBSET task.query, represented : SUBSET Documents]
  OBVIOUS
<1>2. /\ kept.waiting = Relevants /\ kept.passages = << >> /\ kept.covered = {} /\ kept.represented = {}
      /\ IdsIn(kept.passages) = {} /\ Documented({}) = {} /\ Len(kept.passages) = 0
      /\ DOMAIN kept.passages = {}
  BY DEF IdsIn, Documented
<1>3. Cardinality(kept.covered) = 0 /\ Cardinality(kept.represented \cap SimilarDocuments) = 0
  BY <1>2, FS_EmptySet
<1>4. IdsIn(kept.passages) \cup kept.waiting = Relevants
  BY <1>2
<1>5. /\ TokensOf(IdsIn(kept.passages) \cup kept.waiting) = TokensOf(Relevants)
      /\ Documented(IdsIn(kept.passages) \cup kept.waiting) = Documented(Relevants)
  BY <1>4
<1>6. kept.covered = TokensOf(IdsIn(kept.passages)) /\ kept.represented = Documented(IdsIn(kept.passages))
  BY <1>2, TokensOfFacts
<1>7. Len(kept.passages)
        <= 1 + Cardinality(kept.covered) + Cardinality(kept.represented \cap SimilarDocuments)
  BY <1>2, <1>3
<1>8. Documented(Relevants) \cap SimilarDocuments \subseteq Documented(Relevants)
  OBVIOUS
<1> HIDE DEF Documented, TokensOf, Relevants, SimilarDocuments, IdsIn
<1>9. SoundChoice(kept)
  BY <1>1, <1>2, <1>5, <1>6, <1>7, <1>8, Zenon DEF SoundChoice
<1> QED
  BY <1>9

LEMMA DropIsSound ==
    ASSUME NEW kept, SoundChoice(kept), NEW p \in kept.waiting, ~Earns(kept, p)
    PROVE  SoundChoice([kept EXCEPT !.waiting = @ \ {p}])
<1> DEFINE next == [kept EXCEPT !.waiting = @ \ {p}]
           chosen == IdsIn(kept.passages)
<1>1. kept \in [waiting : SUBSET Relevants, passages : Seq(Relevants),
                covered : SUBSET task.query, represented : SUBSET Documents]
  BY DEF SoundChoice
<1>2. /\ next.waiting = kept.waiting \ {p} /\ next.passages = kept.passages
      /\ next.covered = kept.covered /\ next.represented = kept.represented
      /\ next \in [waiting : SUBSET Relevants, passages : Seq(Relevants),
                   covered : SUBSET task.query, represented : SUBSET Documents]
  BY <1>1
<1> HIDE DEF next
<1>3. /\ kept.passages # << >>
      /\ Says(p) \subseteq TokensOf(chosen)
      /\ p.document \in SimilarDocuments => p.document \in Documented(chosen)
  BY DEF Earns, Adds, Says, SoundChoice
<1>4. chosen \cup kept.waiting = (chosen \cup next.waiting) \cup {p}
  BY <1>2
<1>5. TokensOf(chosen) \subseteq TokensOf(chosen \cup next.waiting)
  BY DEF TokensOf
<1>6. TokensOf(chosen \cup next.waiting) = TokensOf(Relevants)
  <2>1. TokensOf(chosen \cup kept.waiting) = TokensOf(chosen \cup next.waiting) \cup Says(p)
    BY <1>4, TokensOfFacts
  <2>2. TokensOf(chosen \cup kept.waiting) = TokensOf(Relevants)
    BY DEF SoundChoice
  <2> QED
    BY <1>3, <1>5, <2>1, <2>2
<1>7. Documented(chosen) \subseteq Documented(chosen \cup next.waiting)
  BY DEF Documented
<1>8. Documented(Relevants) \cap SimilarDocuments \subseteq Documented(chosen \cup next.waiting)
  <2>1. Documented(chosen \cup kept.waiting) = Documented(chosen \cup next.waiting) \cup {p.document}
    BY <1>4, RelevantsFacts
  <2>2. Documented(Relevants) \cap SimilarDocuments \subseteq Documented(chosen \cup kept.waiting)
    BY DEF SoundChoice
  <2> QED
    BY <1>3, <1>7, <2>1, <2>2
<1> QED
  BY <1>2, <1>3, <1>6, <1>8 DEF SoundChoice, next

LEMMA KeepIsSound ==
    ASSUME ChoosingInv, AllCut, NEW kept, SoundChoice(kept), NEW p \in kept.waiting, Earns(kept, p),
           \A q \in kept.waiting \ {p} : Before(p, q)
    PROVE  SoundChoice(Considered(kept, p))
<1> DEFINE next == Considered(kept, p)
           chosen == IdsIn(kept.passages)
<1>1. /\ kept \in [waiting : SUBSET Relevants, passages : Seq(Relevants),
                   covered : SUBSET task.query, represented : SUBSET Documents]
      /\ kept.covered = TokensOf(chosen) /\ kept.represented = Documented(chosen)
      /\ p \in Relevants /\ p.document \in Documents
      /\ task \in Tasks /\ IsFiniteSet(task.query)
  BY RelevantsFacts, CallAssumption DEF SoundChoice, ChoosingInv, DocumentsInv, AnswersInv
<1>2. /\ next.waiting = kept.waiting \ {p} /\ next.passages = Append(kept.passages, p)
      /\ next.covered = kept.covered \cup Adds(kept, p)
      /\ next.represented = kept.represented \cup {p.document}
      /\ next \in [waiting : SUBSET Relevants, passages : Seq(Relevants),
                   covered : SUBSET task.query, represented : SUBSET Documents]
  BY <1>1 DEF Considered, Adds
<1> HIDE DEF next
<1>3. /\ Len(kept.passages) \in Nat /\ DOMAIN kept.passages = 1..Len(kept.passages)
      /\ Len(next.passages) = Len(kept.passages) + 1
      /\ DOMAIN next.passages = 1..(Len(kept.passages) + 1)
      /\ \A n \in DOMAIN kept.passages : next.passages[n] = kept.passages[n]
      /\ next.passages[Len(kept.passages) + 1] = p
  BY <1>1, <1>2
<1>4. IdsIn(next.passages) = chosen \cup {p}
  BY <1>3 DEF IdsIn
<1>5. next.covered = TokensOf(IdsIn(next.passages)) /\ next.represented = Documented(IdsIn(next.passages))
  <2>1. TokensOf(chosen \cup {p}) = TokensOf(chosen) \cup Says(p)
    BY TokensOfFacts
  <2>2. Documented(chosen \cup {p}) = Documented(chosen) \cup {p.document}
    BY RelevantsFacts
  <2>3. kept.covered \cup Adds(kept, p) = kept.covered \cup Says(p)
    BY DEF Adds, Says
  <2> QED
    BY <1>1, <1>2, <1>4, <2>1, <2>2, <2>3
<1>6. IdsIn(next.passages) \cup next.waiting = chosen \cup kept.waiting
  BY <1>2, <1>4
<1>7. \A m, n \in DOMAIN next.passages : m < n => Before(next.passages[m], next.passages[n])
  <2> SUFFICES ASSUME NEW m \in DOMAIN next.passages, NEW n \in DOMAIN next.passages, m < n
               PROVE  Before(next.passages[m], next.passages[n])
    OBVIOUS
  <2>1. m \in DOMAIN kept.passages
    BY <1>3
  <2>2. CASE n \in DOMAIN kept.passages
    BY <1>3, <2>1, <2>2 DEF SoundChoice
  <2>3. CASE n = Len(kept.passages) + 1
    BY <1>3, <2>1, <2>3 DEF SoundChoice
  <2> QED
    BY <1>3, <2>2, <2>3
<1>8. \A n \in DOMAIN next.passages : \A q \in next.waiting : Before(next.passages[n], q)
  <2> SUFFICES ASSUME NEW n \in DOMAIN next.passages, NEW q \in next.waiting
               PROVE  Before(next.passages[n], q)
    OBVIOUS
  <2>1. q \in kept.waiting \ {p}
    BY <1>2
  <2>2. CASE n \in DOMAIN kept.passages
    BY <1>3, <2>1, <2>2 DEF SoundChoice
  <2>3. CASE n = Len(kept.passages) + 1
    BY <1>3, <2>1, <2>3
  <2> QED
    BY <1>3, <2>2, <2>3
<1>9. Len(next.passages)
        <= 1 + Cardinality(next.covered) + Cardinality(next.represented \cap SimilarDocuments)
  <2> DEFINE before == kept.represented \cap SimilarDocuments
             after == next.represented \cap SimilarDocuments
  <2>1. IsFiniteSet(SimilarDocuments)
    BY FewSimilarDocuments DEF ChoosingInv
  <2>2. IsFiniteSet(next.covered) /\ IsFiniteSet(after)
    <3>1. next.covered \in SUBSET task.query /\ after \in SUBSET SimilarDocuments
      BY <1>2
    <3> QED
      BY <1>1, <2>1, <3>1, FS_Subset
  <2>3. kept.covered \in SUBSET next.covered /\ before \in SUBSET after
    BY <1>2
  <2>4. /\ Cardinality(next.covered) \in Nat /\ Cardinality(after) \in Nat
        /\ Cardinality(kept.covered) \in Nat /\ Cardinality(before) \in Nat
        /\ Cardinality(kept.covered) <= Cardinality(next.covered)
        /\ Cardinality(before) <= Cardinality(after)
        /\ Cardinality(kept.covered) = Cardinality(next.covered) => kept.covered = next.covered
        /\ Cardinality(before) = Cardinality(after) => before = after
    BY <2>2, <2>3, FS_Subset, FS_CardinalityType
  <2>5. Len(kept.passages) <= 1 + Cardinality(kept.covered) + Cardinality(before)
    BY DEF SoundChoice
  <2>6. CASE kept.passages = << >>
    <3>1. Len(next.passages) = 1
      BY <1>3, <2>6
    <3> HIDE DEF after
    <3>2. Len(next.passages) <= 1 + Cardinality(next.covered) + Cardinality(after)
      BY <2>4, <3>1
    <3> QED
      BY <3>2 DEF after
  <2>7. CASE Adds(kept, p) # {}
    <3>1. kept.covered # next.covered
      BY <1>2, <2>7 DEF Adds
    <3> HIDE DEF before, after
    <3>2. Len(next.passages) <= 1 + Cardinality(next.covered) + Cardinality(after)
      BY <1>3, <2>4, <2>5, <3>1
    <3> QED
      BY <3>2 DEF after
  <2>8. CASE p.document \in SimilarDocuments \ kept.represented
    <3>1. before # after
      BY <1>2, <2>8
    <3> HIDE DEF before, after
    <3>2. Len(next.passages) <= 1 + Cardinality(next.covered) + Cardinality(after)
      BY <1>3, <2>4, <2>5, <3>1
    <3> QED
      BY <3>2 DEF after
  <2> QED
    BY <2>6, <2>7, <2>8 DEF Earns
<1>10. next.passages # << >>
  BY <1>3
<1> QED
  BY <1>2, <1>5, <1>6, <1>7, <1>8, <1>9, <1>10 DEF SoundChoice, next

(* At each step the passages kept say what those considered say, and no    *)
(* passage is kept without a reason that is used up by keeping it.         *)
THEOREM ChoosingInvariant == CallSpec => []ChoosingInv
<1>1. CallInit => ChoiceInv
  BY DEF CallInit, ChoiceInv
<1>2. ChoosingInv /\ [CallNext]_callVars => ChoiceInv'
  <2> SUFFICES ASSUME ChoosingInv, [CallNext]_callVars
               PROVE  ChoiceInv'
    OBVIOUS
  <2>1. ASSUME task' = task, cuts' = cuts, AllCut, NEW kept, choice' = kept, SoundChoice(kept)
        PROVE  ChoiceInv'
    <3>1. AllCut'
      BY <2>1, PassagesKept
    <3>2. SoundChoice(kept)'
      BY <2>1, SoundChoiceKept
    <3> QED
      BY <2>1, <3>1, <3>2 DEF ChoiceInv
  <2>2. CASE Sort
    <3>1. /\ task' = task /\ cuts' = cuts /\ AllCut
          /\ choice' = [waiting |-> Relevants, passages |-> << >>, covered |-> {}, represented |-> {}]
      BY <2>2 DEF Sort
    <3> QED
      BY <2>1, <3>1, SortIsSound
  <2>3. CASE Consider
    <3>1. task' = task /\ cuts' = cuts /\ AllCut /\ SoundChoice(choice)
      BY <2>3 DEF Consider, ChoosingInv, ChoiceInv
    <3>2. PICK p \in choice.waiting :
            /\ \A q \in choice.waiting \ {p} : Before(p, q)
            /\ choice' = Considered(choice, p)
      BY <2>3 DEF Consider
    <3>3. CASE Earns(choice, p)
      <4>1. SoundChoice(Considered(choice, p))
        BY <3>1, <3>2, <3>3, KeepIsSound
      <4>2. PICK kept : kept = Considered(choice, p)
        OBVIOUS
      <4> QED
        BY <2>1, <3>1, <3>2, <4>1, <4>2
    <3>4. CASE ~Earns(choice, p)
      <4>1. Considered(choice, p) = [choice EXCEPT !.waiting = @ \ {p}]
        BY <3>4 DEF Considered
      <4>2. SoundChoice([choice EXCEPT !.waiting = @ \ {p}])
        BY <3>1, <3>2, <3>4, DropIsSound
      <4>3. PICK kept : kept = Considered(choice, p)
        OBVIOUS
      <4> QED
        BY <2>1, <3>1, <3>2, <4>1, <4>2, <4>3
    <3> QED
      BY <3>3, <3>4
  <2>4. CASE NextDocument
    <3>1. choice = NoChoice /\ choice' = choice
      BY <2>4 DEF NextDocument, ChoosingInv, ChoiceInv
    <3> QED
      BY <3>1 DEF ChoiceInv
  <2>5. CASE task' = task /\ cuts' = cuts /\ choice' = choice
    <3>1. CASE choice = NoChoice
      BY <2>5, <3>1 DEF ChoiceInv
    <3>2. CASE choice # NoChoice
      <4>1. AllCut /\ SoundChoice(choice)
        BY <3>2 DEF ChoosingInv, ChoiceInv
      <4>2. PICK kept : kept = choice
        OBVIOUS
      <4> QED
        BY <2>1, <2>5, <4>1, <4>2
    <3> QED
      BY <3>1, <3>2
  <2>6. Choose \/ ChunkStep \/ Compile \/ Fill \/ UNCHANGED callVars
          => task' = task /\ cuts' = cuts /\ choice' = choice
    BY DEF Choose, Select, ChunkStep, Compile, Fill, callVars
  <2> QED
    BY <2>2, <2>3, <2>4, <2>5, <2>6 DEF CallNext
<1>3. ChoosingInv <=> DocumentsInv /\ ChoiceInv
  BY DEF ChoosingInv
<1> QED
  BY <1>1, <1>2, <1>3, DocumentsInvariant, PTL DEF CallSpec

(* The passages offered say as much of the query as all relevant ones do,  *)
(* best first, with one of each similar document; and their number is      *)
(* bounded by the words of the query and the limit on similar documents.   *)
THEOREM CoverageSuffices == CallSpec => []SufficientCoverage
<1>1. ChoosingInv => SufficientCoverage
  <2> SUFFICES ASSUME ChoosingInv, IsChosen
               PROVE  SufficientCoverage
    BY DEF SufficientCoverage
  <2>1. DocumentsInv /\ AllCut /\ SoundChoice(choice) /\ choice.waiting = {}
    BY DEF ChoosingInv, ChoiceInv, IsChosen
  <2> DEFINE chosen == IdsIn(choice.passages)
  <2>2. /\ choice \in [waiting : SUBSET Relevants, passages : Seq(Relevants),
                       covered : SUBSET task.query, represented : SUBSET Documents]
        /\ TokensOf(chosen \cup choice.waiting) = TokensOf(Relevants)
        /\ Documented(Relevants) \cap SimilarDocuments \subseteq Documented(chosen \cup choice.waiting)
        /\ choice.passages = << >> => choice.waiting = Relevants
        /\ \A m, n \in DOMAIN choice.passages :
             m < n => Before(choice.passages[m], choice.passages[n])
        /\ Len(choice.passages)
             <= 1 + Cardinality(choice.covered) + Cardinality(choice.represented \cap SimilarDocuments)
    BY <2>1 DEF SoundChoice
  <2>3. chosen \cup choice.waiting = chosen
    BY <2>1
  <2>4. chosen \subseteq Relevants
    BY <2>2 DEF IdsIn
  <2>5. Len(choice.passages) <= 1 + Cardinality(task.query) + EvidenceLimit
    <3> DEFINE found == choice.represented \cap SimilarDocuments
    <3>1. /\ IsFiniteSet(task.query) /\ EvidenceLimit \in Nat
          /\ IsFiniteSet(SimilarDocuments) /\ Cardinality(SimilarDocuments) <= EvidenceLimit
      BY <2>1, CallAssumption, FewSimilarDocuments DEF DocumentsInv, AnswersInv
    <3>2. choice.covered \in SUBSET task.query /\ found \in SUBSET SimilarDocuments
      BY <2>2
    <3>3. /\ Cardinality(choice.covered) <= Cardinality(task.query) /\ IsFiniteSet(choice.covered)
          /\ Cardinality(found) <= Cardinality(SimilarDocuments) /\ IsFiniteSet(found)
      BY <3>1, <3>2, FS_Subset
    <3>4. /\ Cardinality(task.query) \in Nat /\ Cardinality(choice.covered) \in Nat
          /\ Cardinality(SimilarDocuments) \in Nat /\ Cardinality(found) \in Nat
      BY <3>1, <3>3, FS_CardinalityType
    <3>5. Len(choice.passages) <= 1 + Cardinality(choice.covered) + Cardinality(found)
      BY <2>2
    <3>6. Len(choice.passages) \in Nat
      BY <2>2
    <3> HIDE DEF found
    <3> QED
      BY <3>1, <3>3, <3>4, <3>5, <3>6
  <2> QED
    BY <2>1, <2>2, <2>3, <2>4, <2>5 DEF SufficientCoverage, Documented
<1> QED
  BY <1>1, ChoosingInvariant, PTL

----------------------------------------------------------------------------
(* The candidates *)

IsList(s) == s \in Seq(IdsIn(s))

LEMMA ListFacts ==
    ASSUME NEW s, IsList(s), NEW t, IsList(t)
    PROVE  /\ IsList(s \o t) /\ IdsIn(s \o t) = IdsIn(s) \cup IdsIn(t)
           /\ Len(s) \in Nat /\ DOMAIN s = 1..Len(s) /\ Len(s \o t) = Len(s) + Len(t)
           /\ \A n \in 1..Len(s) : (s \o t)[n] = s[n]
           /\ \A n \in 1..Len(t) : (s \o t)[Len(s) + n] = t[n]
<1> DEFINE both == IdsIn(s) \cup IdsIn(t)
<1>1. Len(s) \in Nat /\ DOMAIN s = 1..Len(s) /\ Len(t) \in Nat /\ DOMAIN t = 1..Len(t)
  BY DEF IsList
<1>2. s \in Seq(both) /\ t \in Seq(both)
  <2>1. \A S, T : S \subseteq T => Seq(S) \subseteq Seq(T)
    OBVIOUS
  <2>2. IdsIn(s) \subseteq both /\ IdsIn(t) \subseteq both
    OBVIOUS
  <2> HIDE DEF both
  <2> QED
    BY <2>1, <2>2 DEF IsList
<1>3. /\ s \o t \in Seq(both) /\ Len(s \o t) = Len(s) + Len(t)
      /\ \A n \in 1..Len(s) : (s \o t)[n] = s[n]
      /\ \A n \in 1..Len(t) : (s \o t)[Len(s) + n] = t[n]
  <2> HIDE DEF both
  <2> QED
    BY <1>1, <1>2
<1>4. DOMAIN (s \o t) = 1..(Len(s) + Len(t))
  <2> HIDE DEF both
  <2> QED
    BY <1>3
<1>5. \A n \in 1..Len(t) : Len(s) + n \in DOMAIN (s \o t)
  BY <1>1, <1>4
<1>6. \A n \in 1..Len(s) : n \in DOMAIN (s \o t)
  BY <1>1, <1>4
<1>7. \A id \in both : \E n \in DOMAIN (s \o t) : (s \o t)[n] = id
  BY <1>1, <1>3, <1>5, <1>6 DEF IdsIn
<1>8. \A n \in DOMAIN (s \o t) : (s \o t)[n] \in both
  <2> HIDE DEF both
  <2> QED
    BY <1>3
<1>9. IdsIn(s \o t) = both
  <2> HIDE DEF both
  <2> QED
    BY <1>7, <1>8 DEF IdsIn
<1> QED
  BY <1>1, <1>3, <1>9 DEF IsList

LEMMA TypedListFacts ==
    ASSUME NEW T, NEW s \in Seq(T)
    PROVE  IsList(s) /\ IdsIn(s) \subseteq T /\ IsFiniteSet(IdsIn(s))
<1>1. IsList(s) /\ IdsIn(s) \subseteq T
  <2>1. Len(s) \in Nat /\ DOMAIN s = 1..Len(s) /\ s = [n \in 1..Len(s) |-> s[n]]
    OBVIOUS
  <2>2. \A n \in 1..Len(s) : s[n] \in IdsIn(s)
    BY DEF IdsIn
  <2>3. s \in [1..Len(s) -> IdsIn(s)]
    BY <2>1, <2>2
  <2>4. IdsIn(s) \subseteq T
    BY <2>1 DEF IdsIn
  <2> QED
    BY <2>1, <2>3, <2>4 DEF IsList
<1>2. IsFiniteSet(IdsIn(s))
  <2>1. Len(s) \in Nat /\ DOMAIN s = 1..Len(s) /\ s \in [1..Len(s) -> IdsIn(s)]
    BY <1>1 DEF IsList
  <2>2. s \in Surjection(1..Len(s), IdsIn(s))
    BY <2>1 DEF Surjection, IdsIn
  <2>3. IsFiniteSet(1..Len(s))
    BY <2>1, FS_Interval
  <2> QED
    BY <2>2, <2>3, FS_Surjection
<1> QED
  BY <1>1, <1>2

LEMMA FiniteLists ==
    /\ IsFiniteSet(IdsIn(Memories)) /\ IsFiniteSet(IdsIn(Attempts))
    /\ IdsIn(Memories) \subseteq Recorded /\ IdsIn(Attempts) \subseteq Recorded
    /\ IdsIn(Memories) \cap IdsIn(Attempts) = {}
  BY TypedListFacts, PreflightAssumption DEF Recorded

(* A candidate takes a number of characters, in one of the sections. *)
Sized(c) == c.section \in IdsIn(SectionOrder) /\ c.length \in Nat

Tells(c, a) == c.item = a \/ a \in IdsIn(c.absorbed)

(* It is told with the conflicts it is in, and preflight() tells them too  *)
(* if it tells it.                                                         *)
TellsContradictions(c) ==
    \A pair \in task.conflicts :
        /\ c.item = pair[1] => pair[2] \in c.conflicts
        /\ c.item = pair[2] => pair[1] \in c.conflicts
        /\ /\ c.item \in {pair[1], pair[2]}
           /\ c.section \in {"OPEN RISKS", "LESSONS", "HISTORY"}
           => pair \in answers.preflight.open_conflicts

TellsOnce(s) ==
    \A a \in IdsIn(Attempts) : \A m, n \in DOMAIN s : Tells(s[m], a) /\ Tells(s[n], a) => m = n

TellsNone(s) == \A a \in IdsIn(Attempts) : \A m \in DOMAIN s : ~Tells(s[m], a)

SoundCandidate(c) == Sized(c) /\ c.section # "VALIDATION" /\ TellsContradictions(c)

LEMMA Sections ==
    {"CONSTRAINTS", "OPEN RISKS", "LESSONS", "DECISIONS", "PROJECT EVIDENCE", "HISTORY", "VALIDATION"}
      \subseteq IdsIn(SectionOrder)
<1>1. /\ DOMAIN SectionOrder = 1..7
      /\ SectionOrder[1] = "CONSTRAINTS" /\ SectionOrder[2] = "OPEN RISKS" /\ SectionOrder[3] = "LESSONS"
      /\ SectionOrder[4] = "DECISIONS" /\ SectionOrder[5] = "PROJECT EVIDENCE"
      /\ SectionOrder[6] = "HISTORY" /\ SectionOrder[7] = "VALIDATION"
  BY DEF SectionOrder
<1>2. \A n \in 1..7 : SectionOrder[n] \in IdsIn(SectionOrder)
  BY <1>1 DEF IdsIn
<1>3. 1 \in 1..7 /\ 2 \in 1..7 /\ 3 \in 1..7 /\ 4 \in 1..7 /\ 5 \in 1..7 /\ 6 \in 1..7 /\ 7 \in 1..7
  OBVIOUS
<1> QED
  BY <1>1, <1>2, <1>3

LEMMA CitationsType ==
    ASSUME NEW ids, IsFiniteSet(ids)
    PROVE  Citations(ids) \in Nat
  BY FS_CardinalityType, ContextAssumption DEF Citations

LEMMA CandidateFacts ==
    ASSUME NEW section \in IdsIn(SectionOrder), NEW id \in Recorded,
           NEW absorbed \in Seq(IdsIn(Attempts)), NEW conflicts \in SUBSET IdsIn(Memories),
           NEW c, c = Candidate(section, id, absorbed, conflicts)
    PROVE  /\ Sized(c)
           /\ c.section = section /\ c.item = id /\ c.absorbed = absorbed
           /\ c.conflicts = conflicts /\ c.cited = Evidence(id)
<1>1. IsFiniteSet(IdsIn(absorbed)) /\ IsFiniteSet(conflicts)
  BY TypedListFacts, FiniteLists, FS_Subset
<1>2. LineLength[id] \in Nat
  BY ContextAssumption
<1>3. Citations(IdsIn(absorbed)) \in Nat /\ Citations(conflicts) \in Nat
  BY <1>1, CitationsType
<1> QED
  BY <1>2, <1>3 DEF Candidate, Sized

LEMMA TellingLists ==
    ASSUME NEW s, IsList(s), NEW t, IsList(t), TellsOnce(s), TellsOnce(t),
           TellsNone(s) \/ TellsNone(t)
             \/ \A a \in IdsIn(Attempts) : \A m \in DOMAIN s, n \in DOMAIN t :
                  ~(Tells(s[m], a) /\ Tells(t[n], a))
    PROVE  TellsOnce(s \o t)
<1>1. /\ Len(s) \in Nat /\ DOMAIN s = 1..Len(s) /\ Len(t) \in Nat /\ DOMAIN t = 1..Len(t)
      /\ Len(s \o t) = Len(s) + Len(t) /\ DOMAIN (s \o t) = 1..Len(s \o t)
      /\ \A n \in 1..Len(s) : (s \o t)[n] = s[n]
      /\ \A n \in 1..Len(t) : (s \o t)[Len(s) + n] = t[n]
  <2>1. IsList(s \o t)
    BY ListFacts
  <2> QED
    BY <2>1, ListFacts
<1>2. \A a \in IdsIn(Attempts) : \A m \in DOMAIN s, n \in DOMAIN t : ~(Tells(s[m], a) /\ Tells(t[n], a))
  BY DEF TellsNone
<1>3. \A k \in DOMAIN (s \o t) : k \in 1..Len(s) \/ \E n \in 1..Len(t) : k = Len(s) + n
  <2> SUFFICES ASSUME NEW k \in DOMAIN (s \o t), k \notin 1..Len(s)
               PROVE  \E n \in 1..Len(t) : k = Len(s) + n
    OBVIOUS
  <2>1. k - Len(s) \in 1..Len(t) /\ k = Len(s) + (k - Len(s))
    BY <1>1
  <2> QED
    BY <2>1
<1> SUFFICES ASSUME NEW a \in IdsIn(Attempts), NEW m \in DOMAIN (s \o t), NEW n \in DOMAIN (s \o t),
                    Tells((s \o t)[m], a), Tells((s \o t)[n], a)
             PROVE  m = n
  BY DEF TellsOnce
<1>4. CASE m \in 1..Len(s) /\ n \in 1..Len(s)
  BY <1>1, <1>4 DEF TellsOnce
<1>5. CASE m \in 1..Len(s) /\ n \notin 1..Len(s)
  BY <1>1, <1>2, <1>3, <1>5
<1>6. CASE m \notin 1..Len(s) /\ n \in 1..Len(s)
  BY <1>1, <1>2, <1>3, <1>6
<1>7. CASE m \notin 1..Len(s) /\ n \notin 1..Len(s)
  BY <1>1, <1>3, <1>7 DEF TellsOnce
<1> QED
  BY <1>4, <1>5, <1>6, <1>7

(* What preflight() shows of these kinds is of concern, and each of the    *)
(* open conflicts of a memory that is of concern is told.                  *)
LEMMA ConcernsAreTold ==
    ASSUME AnswersInv, answers # NoAnswers,
           NEW m \in IdsIn(Memories), Concerns(SimilarMemories, m),
           NEW pair \in task.conflicts, m \in {pair[1], pair[2]}
    PROVE  pair \in answers.preflight.open_conflicts
<1> DEFINE all == RootCauses \o VerifiedLessons \o Invalidations \o Memories
<1>1. Memories \in Seq(IdsIn(Memories)) /\ RootCauses \in Seq(IdsIn(Memories))
      /\ VerifiedLessons \in Seq(IdsIn(Memories)) /\ Invalidations \in Seq(IdsIn(Memories))
  BY PreflightAssumption, OfKindFacts, LessonFacts DEF RootCauses, Invalidations
<1>2. PICK front : front = RootCauses \o VerifiedLessons \o Invalidations
  OBVIOUS
<1>3. front \in Seq(IdsIn(Memories)) /\ all = front \o Memories
  BY <1>1, <1>2
<1>4. IdsIn(front \o Memories) = IdsIn(front) \cup IdsIn(Memories)
  BY <1>1, <1>3, TypedListFacts, ListFacts
<1>5. all \in Seq(IdsIn(Memories)) /\ m \in IdsIn(all)
  BY <1>1, <1>3, <1>4
<1> HIDE DEF all
<1>6. m \in IdsIn(Relevant(SimilarMemories, all))
  BY <1>5, RelevantFacts
<1>7. Discloses(pair, IdsIn(Relevant(SimilarMemories, all)))
  BY <1>6 DEF Discloses
<1>8. pair \in PreflightAnswer.open_conflicts
  BY <1>7 DEF PreflightAnswer, all
<1> QED
  BY <1>8 DEF AnswersInv

LEMMA PairFacts ==
    ASSUME NEW S, NEW T, NEW p \in S \X T
    PROVE  p = << p[1], p[2] >> /\ p[1] \in S /\ p[2] \in T
  OBVIOUS

LEMMA MemoryIsToldWithConflicts ==
    ASSUME AnswersInv, answers # NoAnswers, NEW c,
           c.item \in IdsIn(Memories), c.conflicts = Partners(c.item),
           c.section \in {"OPEN RISKS", "LESSONS", "HISTORY"} => Concerns(SimilarMemories, c.item)
    PROVE  TellsContradictions(c)
<1> SUFFICES ASSUME NEW pair \in task.conflicts
             PROVE  /\ c.item = pair[1] => pair[2] \in Partners(c.item)
                    /\ c.item = pair[2] => pair[1] \in Partners(c.item)
                    /\ c.item \in {pair[1], pair[2]} /\ c.section \in {"OPEN RISKS", "LESSONS", "HISTORY"}
                         => pair \in answers.preflight.open_conflicts
  BY DEF TellsContradictions
<1>1. task.conflicts \subseteq IdsIn(Memories) \X IdsIn(Memories)
  BY CallAssumption DEF AnswersInv
<1>2. pair = << pair[1], pair[2] >> /\ pair[1] \in IdsIn(Memories) /\ pair[2] \in IdsIn(Memories)
  <2>1. pair \in IdsIn(Memories) \X IdsIn(Memories)
    BY <1>1
  <2> QED
    BY <2>1, PairFacts
<1>3. /\ c.item = pair[1] => pair[2] \in Partners(c.item)
      /\ c.item = pair[2] => pair[1] \in Partners(c.item)
  BY <1>2 DEF Partners
<1>4. c.item \in {pair[1], pair[2]} /\ c.section \in {"OPEN RISKS", "LESSONS", "HISTORY"}
        => pair \in answers.preflight.open_conflicts
  BY ConcernsAreTold
<1> QED
  BY <1>3, <1>4

LEMMA OthersHaveNoConflicts ==
    ASSUME AnswersInv, NEW c, c.item \notin IdsIn(Memories)
    PROVE  TellsContradictions(c)
<1>1. task.conflicts \subseteq IdsIn(Memories) \X IdsIn(Memories)
  BY CallAssumption DEF AnswersInv
<1>2. \A pair \in task.conflicts : pair[1] \in IdsIn(Memories) /\ pair[2] \in IdsIn(Memories)
  BY <1>1
<1> QED
  BY <1>2 DEF TellsContradictions

(* Candidates that are in order, tell no attempt twice, and are each told  *)
(* as they should be.                                                      *)
SoundList(s) == IsList(s) /\ TellsOnce(s) /\ \A c \in IdsIn(s) : SoundCandidate(c)

LEMMA JoinedLists ==
    ASSUME NEW s, SoundList(s), NEW t, SoundList(t),
           TellsNone(s) \/ TellsNone(t)
             \/ \A a \in IdsIn(Attempts) : \A m \in DOMAIN s, n \in DOMAIN t :
                  ~(Tells(s[m], a) /\ Tells(t[n], a))
    PROVE  SoundList(s \o t) /\ IdsIn(s \o t) = IdsIn(s) \cup IdsIn(t)
<1>1. TellsOnce(s \o t)
  BY TellingLists DEF SoundList
<1>2. IsList(s \o t) /\ IdsIn(s \o t) = IdsIn(s) \cup IdsIn(t)
  BY ListFacts DEF SoundList
<1> QED
  BY <1>1, <1>2 DEF SoundList

LEMMA JoinedQuietLists ==
    ASSUME NEW s, SoundList(s), TellsNone(s), NEW t, SoundList(t), TellsNone(t)
    PROVE  SoundList(s \o t) /\ TellsNone(s \o t) /\ IdsIn(s \o t) = IdsIn(s) \cup IdsIn(t)
<1>1. SoundList(s \o t) /\ IdsIn(s \o t) = IdsIn(s) \cup IdsIn(t)
  BY JoinedLists
<1>2. \A c \in IdsIn(s) \cup IdsIn(t) : \A a \in IdsIn(Attempts) : ~Tells(c, a)
  BY DEF TellsNone, IdsIn
<1>3. \A n \in DOMAIN (s \o t) : (s \o t)[n] \in IdsIn(s \o t)
  BY DEF IdsIn
<1> QED
  BY <1>1, <1>2, <1>3 DEF TellsNone

(* A list made of another, one place after another. *)
LEMMA MappedLists ==
    ASSUME NEW list, IsList(list), NEW s, DOMAIN s = DOMAIN list, s = [n \in DOMAIN s |-> s[n]]
    PROVE  IsList(s)
<1>1. Len(list) \in Nat /\ DOMAIN list = 1..Len(list)
  BY DEF IsList
<1>2. \A n \in 1..Len(list) : s[n] \in IdsIn(s)
  BY <1>1 DEF IdsIn
<1>3. s \in [1..Len(list) -> IdsIn(s)]
  BY <1>1, <1>2
<1>4. s \in Seq(IdsIn(s))
  BY <1>1, <1>3
<1> QED
  BY <1>4 DEF IsList

LEMMA InList ==
    ASSUME NEW T, NEW s \in Seq(T)
    PROVE  /\ \A n \in DOMAIN s : s[n] \in IdsIn(s) /\ s[n] \in T
           /\ \A x \in IdsIn(s) : \E n \in DOMAIN s : s[n] = x
  BY DEF IdsIn

LEMMA EmptyList ==
    /\ \A T : << >> \in Seq(T)
    /\ IdsIn(<< >>) = {} /\ DOMAIN << >> = {} /\ IsList(<< >>)
<1>1. \A T : << >> \in Seq(T)
  OBVIOUS
<1>2. DOMAIN << >> = {}
  OBVIOUS
<1> QED
  BY <1>1, <1>2 DEF IdsIn, IsList

AllConcern(memories) == \A m \in IdsIn(memories) : Concerns(SimilarMemories, m)

(* The sections that are told what preflight() tells. *)
Disclosing == {"OPEN RISKS", "LESSONS", "HISTORY"}

LEMMA OfMemoriesFacts ==
    ASSUME AnswersInv, answers # NoAnswers,
           NEW section \in IdsIn(SectionOrder), section # "VALIDATION",
           NEW memories \in Seq(IdsIn(Memories)),
           section \in Disclosing => \A m \in IdsIn(memories) : Concerns(SimilarMemories, m)
    PROVE  LET s == OfMemories(section, memories)
           IN  /\ SoundList(s) /\ TellsNone(s)
               /\ \A m \in IdsIn(memories) : \E c \in IdsIn(s) : c.item = m
<1> DEFINE s == OfMemories(section, memories)
<1>1. DOMAIN s = DOMAIN memories
      /\ \A n \in DOMAIN s : s[n] = Candidate(section, memories[n], << >>, Partners(memories[n]))
  BY DEF OfMemories
<1>2. IsList(s)
  <2>1. IsList(memories)
    BY TypedListFacts
  <2>2. s = [n \in DOMAIN s |-> s[n]]
    BY DEF OfMemories
  <2> HIDE DEF s
  <2> QED
    BY <1>1, <2>1, <2>2, MappedLists
<1> HIDE DEF s
<1>3. \A n \in DOMAIN s :
        /\ memories[n] \in IdsIn(memories) /\ memories[n] \in IdsIn(Memories)
        /\ Sized(s[n]) /\ s[n].section = section /\ s[n].item = memories[n]
        /\ s[n].absorbed = << >> /\ s[n].conflicts = Partners(memories[n])
  <2> SUFFICES ASSUME NEW n \in DOMAIN s
               PROVE  /\ memories[n] \in IdsIn(memories) /\ memories[n] \in IdsIn(Memories)
                      /\ Sized(s[n]) /\ s[n].section = section /\ s[n].item = memories[n]
                      /\ s[n].absorbed = << >> /\ s[n].conflicts = Partners(memories[n])
    OBVIOUS
  <2>1. memories[n] \in IdsIn(memories) /\ memories[n] \in IdsIn(Memories)
    <3>1. n \in DOMAIN memories
      BY <1>1
    <3> QED
      BY <3>1, InList
  <2>2. << >> \in Seq(IdsIn(Attempts)) /\ Partners(memories[n]) \in SUBSET IdsIn(Memories)
    BY EmptyList DEF Partners
  <2>3. memories[n] \in Recorded
    BY <2>1, FiniteLists
  <2>4. PICK none \in Seq(IdsIn(Attempts)) : none = << >>
    BY <2>2
  <2>5. PICK partners \in SUBSET IdsIn(Memories) : partners = Partners(memories[n])
    BY <2>2
  <2>6. PICK id \in Recorded : id = memories[n]
    BY <2>3
  <2>7. PICK c : c = Candidate(section, id, none, partners)
    OBVIOUS
  <2>8. /\ Sized(c) /\ c.section = section /\ c.item = id
        /\ c.absorbed = none /\ c.conflicts = partners
    BY <2>7, CandidateFacts
  <2>9. s[n] = c
    BY <1>1, <2>4, <2>5, <2>6, <2>7
  <2> QED
    BY <2>1, <2>4, <2>5, <2>6, <2>8, <2>9
<1>4. \A c \in IdsIn(s) : SoundCandidate(c)
  <2> SUFFICES ASSUME NEW n \in DOMAIN s
               PROVE  SoundCandidate(s[n])
    BY DEF IdsIn
  <2>1. TellsContradictions(s[n])
    BY <1>3, MemoryIsToldWithConflicts DEF Disclosing
  <2> QED
    BY <1>3, <2>1 DEF SoundCandidate
<1>5. TellsNone(s)
  <2>1. IdsIn(Memories) \cap IdsIn(Attempts) = {}
    BY FiniteLists
  <2>2. IdsIn(<< >>) = {}
    BY EmptyList
  <2> QED
    BY <1>3, <2>1, <2>2 DEF TellsNone, Tells
<1>6. TellsOnce(s)
  BY <1>5 DEF TellsOnce, TellsNone
<1>7. \A m \in IdsIn(memories) : \E c \in IdsIn(s) : c.item = m
  <2>1. \A m \in IdsIn(memories) : \E n \in DOMAIN s : memories[n] = m
    BY <1>1, InList
  <2> QED
    BY <1>3, <2>1 DEF IdsIn
<1> QED
  BY <1>2, <1>4, <1>5, <1>6, <1>7 DEF s, SoundList

(* A failure is told by the one root cause that absorbs it. *)
LEMMA OfCausesFacts ==
    ASSUME AnswersInv, answers # NoAnswers,
           NEW causes \in Seq(IdsIn(Memories)), NEW failures \in Seq(IdsIn(Attempts)),
           \A m \in IdsIn(causes) : Concerns(SimilarMemories, m)
    PROVE  LET s == OfCauses(causes, failures)
           IN  /\ SoundList(s) /\ DOMAIN s = DOMAIN causes
               /\ \A m \in IdsIn(causes) : \E c \in IdsIn(s) : c.item = m
               /\ \A n \in DOMAIN s : \A a \in IdsIn(Attempts) :
                    Tells(s[n], a) <=> a \in IdsIn(failures) /\ Absorbs(causes, n, a)
<1> DEFINE s == OfCauses(causes, failures)
<1>1. DOMAIN s = DOMAIN causes
      /\ \A n \in DOMAIN s :
           s[n] = Candidate("HISTORY", causes[n], Absorbed(causes, n, failures), Partners(causes[n]))
  BY DEF OfCauses
<1>2. IsList(s)
  <2>1. IsList(causes)
    BY TypedListFacts
  <2>2. s = [n \in DOMAIN s |-> s[n]]
    BY DEF OfCauses
  <2> HIDE DEF s
  <2> QED
    BY <1>1, <2>1, <2>2, MappedLists
<1> HIDE DEF s
<1>3. \A n \in DOMAIN s :
        /\ causes[n] \in IdsIn(causes) /\ causes[n] \in IdsIn(Memories)
        /\ Sized(s[n]) /\ s[n].section = "HISTORY" /\ s[n].item = causes[n]
        /\ IdsIn(s[n].absorbed) = {a \in IdsIn(failures) : Absorbs(causes, n, a)}
        /\ s[n].conflicts = Partners(causes[n])
  <2> SUFFICES ASSUME NEW n \in DOMAIN s
               PROVE  /\ causes[n] \in IdsIn(causes) /\ causes[n] \in IdsIn(Memories)
                      /\ Sized(s[n]) /\ s[n].section = "HISTORY" /\ s[n].item = causes[n]
                      /\ IdsIn(s[n].absorbed) = {a \in IdsIn(failures) : Absorbs(causes, n, a)}
                      /\ s[n].conflicts = Partners(causes[n])
    OBVIOUS
  <2>1. causes[n] \in IdsIn(causes) /\ causes[n] \in IdsIn(Memories)
    <3>1. n \in DOMAIN causes
      BY <1>1
    <3> QED
      BY <3>1 DEF IdsIn
  <2> DEFINE wanted == {a \in IdsIn(failures) : Absorbs(causes, n, a)}
  <2>2. PICK absorbed : absorbed = Absorbed(causes, n, failures)
    OBVIOUS
  <2>3. absorbed = Those(failures, wanted) /\ IdsIn(failures) \cap wanted = wanted
    BY <2>2 DEF Absorbed
  <2>4. absorbed \in Seq(IdsIn(Attempts)) /\ IdsIn(absorbed) = wanted
    <3> HIDE DEF wanted
    <3> QED
      BY <2>3, ThoseFacts
  <2>5. Partners(causes[n]) \in SUBSET IdsIn(Memories)
    BY DEF Partners
  <2>6. causes[n] \in Recorded /\ "HISTORY" \in IdsIn(SectionOrder)
    BY <2>1, FiniteLists, Sections
  <2>7. PICK c : c = Candidate("HISTORY", causes[n], absorbed, Partners(causes[n]))
    OBVIOUS
  <2>8. /\ Sized(c) /\ c.section = "HISTORY" /\ c.item = causes[n]
        /\ c.absorbed = absorbed /\ c.conflicts = Partners(causes[n])
    BY <2>4, <2>5, <2>6, <2>7, CandidateFacts
  <2>9. s[n] = c
    BY <1>1, <2>2, <2>7
  <2> QED
    BY <2>1, <2>4, <2>8, <2>9
<1>4. \A c \in IdsIn(s) : SoundCandidate(c)
  <2> SUFFICES ASSUME NEW n \in DOMAIN s
               PROVE  SoundCandidate(s[n])
    BY DEF IdsIn
  <2>1. TellsContradictions(s[n])
    BY <1>3, MemoryIsToldWithConflicts
  <2> QED
    BY <1>3, <2>1 DEF SoundCandidate
<1>5. \A n \in DOMAIN s : \A a \in IdsIn(Attempts) :
        Tells(s[n], a) <=> a \in IdsIn(failures) /\ Absorbs(causes, n, a)
  <2>1. IdsIn(Memories) \cap IdsIn(Attempts) = {}
    BY FiniteLists
  <2> QED
    BY <1>3, <2>1 DEF Tells
<1>6. TellsOnce(s)
  <2> SUFFICES ASSUME NEW a \in IdsIn(Attempts), NEW m \in DOMAIN s, NEW n \in DOMAIN s,
                      Tells(s[m], a), Tells(s[n], a)
               PROVE  m = n
    BY DEF TellsOnce
  <2>1. Absorbs(causes, m, a) /\ Absorbs(causes, n, a)
    BY <1>5
  <2>2. m \notin 1..(n - 1) /\ n \notin 1..(m - 1)
    BY <2>1 DEF Absorbs
  <2>3. m \in 1..Len(causes) /\ n \in 1..Len(causes) /\ Len(causes) \in Nat
    BY <1>1
  <2> QED
    BY <2>2, <2>3
<1>7. \A m \in IdsIn(causes) : \E c \in IdsIn(s) : c.item = m
  <2>1. \A m \in IdsIn(causes) : \E n \in DOMAIN s : causes[n] = m
    BY <1>1, InList
  <2> QED
    BY <1>3, <2>1 DEF IdsIn
<1> QED
  BY <1>1, <1>2, <1>4, <1>5, <1>6, <1>7 DEF s, SoundList

LEMMA OfAttemptsFacts ==
    ASSUME AnswersInv, NEW attempts \in Seq(IdsIn(Attempts)), IsInjective(attempts)
    PROVE  LET s == OfAttempts(attempts)
           IN  /\ SoundList(s) /\ DOMAIN s = DOMAIN attempts
               /\ \A n \in DOMAIN s : \A a \in IdsIn(Attempts) : Tells(s[n], a) <=> a = attempts[n]
<1> DEFINE s == OfAttempts(attempts)
<1>1. DOMAIN s = DOMAIN attempts
      /\ \A n \in DOMAIN s : s[n] = Candidate("HISTORY", attempts[n], << >>, {})
  BY DEF OfAttempts
<1>2. IsList(s)
  <2>1. IsList(attempts)
    BY TypedListFacts
  <2>2. s = [n \in DOMAIN s |-> s[n]]
    BY DEF OfAttempts
  <2> HIDE DEF s
  <2> QED
    BY <1>1, <2>1, <2>2, MappedLists
<1> HIDE DEF s
<1>3. \A n \in DOMAIN s :
        /\ attempts[n] \in IdsIn(Attempts)
        /\ Sized(s[n]) /\ s[n].section = "HISTORY" /\ s[n].item = attempts[n] /\ s[n].absorbed = << >>
  <2> SUFFICES ASSUME NEW n \in DOMAIN s
               PROVE  /\ attempts[n] \in IdsIn(Attempts)
                      /\ Sized(s[n]) /\ s[n].section = "HISTORY"
                      /\ s[n].item = attempts[n] /\ s[n].absorbed = << >>
    OBVIOUS
  <2>1. attempts[n] \in IdsIn(Attempts) /\ n \in DOMAIN attempts
    BY <1>1
  <2>2. << >> \in Seq(IdsIn(Attempts)) /\ {} \in SUBSET IdsIn(Memories)
    BY EmptyList
  <2>3. attempts[n] \in Recorded /\ "HISTORY" \in IdsIn(SectionOrder)
    BY <2>1, FiniteLists, Sections
  <2>4. PICK none \in Seq(IdsIn(Attempts)) : none = << >>
    BY <2>2
  <2>5. PICK c : c = Candidate("HISTORY", attempts[n], none, {})
    OBVIOUS
  <2>6. Sized(c) /\ c.section = "HISTORY" /\ c.item = attempts[n] /\ c.absorbed = none
    BY <2>2, <2>3, <2>5, CandidateFacts
  <2>7. s[n] = c
    BY <1>1, <2>4, <2>5
  <2> QED
    BY <2>1, <2>4, <2>6, <2>7
<1>4. \A c \in IdsIn(s) : SoundCandidate(c)
  <2> SUFFICES ASSUME NEW n \in DOMAIN s
               PROVE  SoundCandidate(s[n])
    BY DEF IdsIn
  <2>1. s[n].item \notin IdsIn(Memories)
    BY <1>3, FiniteLists
  <2>2. TellsContradictions(s[n])
    BY <2>1, OthersHaveNoConflicts
  <2> QED
    BY <1>3, <2>2 DEF SoundCandidate
<1>5. \A n \in DOMAIN s : \A a \in IdsIn(Attempts) : Tells(s[n], a) <=> a = attempts[n]
  <2>1. IdsIn(<< >>) = {}
    BY EmptyList
  <2> QED
    BY <1>3, <2>1 DEF Tells
<1>6. TellsOnce(s)
  BY <1>1, <1>5 DEF TellsOnce, IsInjective
<1> QED
  BY <1>1, <1>2, <1>4, <1>5, <1>6 DEF s, SoundList

LEMMA PassageIsCut ==
    ASSUME ChoosingInv, AllCut, NEW p \in Relevants
    PROVE  /\ p.document \in Documents /\ p.document \in DOMAIN cuts
           /\ p.index \in DOMAIN cuts[p.document]
           /\ Len(PassageText(p.document, p.index)) \in Nat
<1>1. PICK d \in Admitted : p \in {Passage(d, k) : k \in Surviving(d)}
  BY DEF Relevants
<1>2. PICK k \in Surviving(d) : p = Passage(d, k)
  BY <1>1
<1>3. p.document = d /\ p.index = k /\ d \in Documents
  BY <1>1, <1>2 DEF Passage, Admitted
<1>4. /\ cuts \in Seq(Seq(Nat \X Nat)) /\ Len(cuts) = Len(task.documents) /\ task \in Tasks
      /\ \A e \in DOMAIN cuts : cuts[e] # << >> /\ \A j \in DOMAIN cuts[e] : cuts[e][j][1] <= cuts[e][j][2]
  BY DEF ChoosingInv, DocumentsInv, CutsInv, AnswersInv, AllCut
<1>5. d \in DOMAIN cuts
  BY <1>3, <1>4, DocumentFacts
<1>6. cuts[d] \in Seq(Nat \X Nat) /\ cuts[d] # << >>
  BY <1>4, <1>5
<1>7. DOMAIN cuts[d] = 1..Count(d) /\ Count(d) \in Nat /\ Count(d) > 0
  BY <1>6 DEF Count
<1>8. k \in 1..Count(d)
  BY <1>7 DEF Surviving
<1>9. PICK a, b : a = cuts[d][k][1] /\ b = cuts[d][k][2]
  OBVIOUS
<1>10. a \in Nat /\ b \in Nat /\ a <= b
  <2>1. cuts[d][k] \in Nat \X Nat
    BY <1>6, <1>7, <1>8
  <2>2. cuts[d][k][1] \in Nat /\ cuts[d][k][2] \in Nat
    BY <2>1, PairFacts
  <2> QED
    BY <1>4, <1>5, <1>7, <1>8, <1>9, <2>2
<1>11. Len(PassageText(d, k)) \in Nat
  <2>1. PICK t \in Texts : t = task.documents[d].text
    BY <1>3, <1>4, DocumentFacts
  <2>2. PassageText(d, k) = SubSeq(t, a + 1, b)
    BY <1>9, <2>1 DEF PassageText
  <2>3. Len(SubSeq(t, a + 1, b)) = b - a
    BY <1>10 DEF Texts
  <2> QED
    BY <1>10, <2>2, <2>3
<1> QED
  BY <1>3, <1>5, <1>7, <1>8, <1>11

LEMMA OfPassagesFacts ==
    ASSUME ChoosingInv, IsChosen
    PROVE  SoundList(OfPassages(choice.passages)) /\ TellsNone(OfPassages(choice.passages))
<1> DEFINE s == OfPassages(choice.passages)
<1>1. AllCut /\ choice.passages \in Seq(Relevants) /\ AnswersInv /\ task \in Tasks
  <2>1. choice # NoChoice
    BY DEF IsChosen
  <2>2. AllCut /\ SoundChoice(choice)
    BY <2>1 DEF ChoosingInv, ChoiceInv
  <2> QED
    BY <2>2 DEF SoundChoice, ChoosingInv, DocumentsInv, AnswersInv
<1>2. DOMAIN s = DOMAIN choice.passages
  BY DEF OfPassages
<1>3. IsList(s)
  <2>1. IsList(choice.passages)
    BY <1>1, TypedListFacts
  <2>2. s = [n \in DOMAIN s |-> s[n]]
    BY DEF OfPassages
  <2> HIDE DEF s
  <2> QED
    BY <1>2, <2>1, <2>2, MappedLists
<1>4. \A n \in DOMAIN s :
        /\ s[n].section = "PROJECT EVIDENCE" /\ s[n].length \in Nat
        /\ s[n].item \notin Recorded /\ s[n].absorbed = << >>
  <2> SUFFICES ASSUME NEW n \in DOMAIN s
               PROVE  /\ s[n].section = "PROJECT EVIDENCE" /\ s[n].length \in Nat
                      /\ s[n].item \notin Recorded /\ s[n].absorbed = << >>
    OBVIOUS
  <2>1. PICK p \in Relevants : p = choice.passages[n]
    BY <1>1, <1>2
  <2>2. p.document \in Documents /\ Len(PassageText(p.document, p.index)) \in Nat
    BY <1>1, PassageIsCut
  <2>3. task.documents[p.document].source \notin Recorded
    BY <1>1, <2>2, DocumentFacts
  <2>4. /\ s[n].section = "PROJECT EVIDENCE" /\ s[n].absorbed = << >>
        /\ s[n].item = task.documents[p.document].source
        /\ s[n].length = Len(PassageText(p.document, p.index)) + SourceLength
                           + IF Count(p.document) > 1 THEN IdLength ELSE 0
    BY <1>2, <2>1 DEF OfPassages
  <2>5. SourceLength \in Nat /\ IdLength \in Nat
    BY CallAssumption, ContextAssumption
  <2> HIDE DEF s
  <2>6. \A l, m, q \in Nat : l + m \in Nat /\ l + m + q \in Nat /\ l + m + 0 \in Nat
    OBVIOUS
  <2>7. s[n].length \in Nat
    BY <2>2, <2>4, <2>5, <2>6
  <2> QED
    BY <2>3, <2>4, <2>7
<1> HIDE DEF s
<1>5. \A c \in IdsIn(s) : SoundCandidate(c)
  <2> SUFFICES ASSUME NEW n \in DOMAIN s
               PROVE  SoundCandidate(s[n])
    BY DEF IdsIn
  <2>1. s[n].item \notin IdsIn(Memories)
    BY <1>4, FiniteLists
  <2>2. TellsContradictions(s[n])
    BY <1>1, <2>1, OthersHaveNoConflicts
  <2> QED
    BY <1>4, <2>2, Sections DEF SoundCandidate, Sized
<1>6. TellsNone(s)
  <2>1. \A n \in DOMAIN s : s[n].item \notin IdsIn(Attempts)
    BY <1>4, FiniteLists
  <2> QED
    BY <1>4, <2>1, EmptyList DEF TellsNone, Tells
<1>7. TellsOnce(s)
  BY <1>6 DEF TellsOnce, TellsNone
<1> QED
  BY <1>3, <1>5, <1>6, <1>7 DEF SoundList, s

(* What can be cited. *)
Citable == UNION {Evidence(id) : id \in Recorded}

LEMMA CitableFacts ==
    /\ Citable \subseteq DOMAIN LineLength /\ Citable \cap Recorded = {}
    /\ \A id \in Recorded : Cites[id] \in Seq(Citable)
<1>1. \A id \in Recorded : Evidence(id) \subseteq Citable /\ Cites[id] \in Seq(IdsIn(Cites[id]))
  BY PreflightAssumption DEF Citable
<1>2. \A S, T : S \subseteq T => Seq(S) \subseteq Seq(T)
  OBVIOUS
<1>3. \A id \in Recorded : Cites[id] \in Seq(Citable)
  <2> HIDE DEF Citable
  <2> QED
    BY <1>1, <1>2 DEF Evidence
<1>4. Citable \subseteq DOMAIN LineLength /\ Citable \cap Recorded = {}
  BY ContextAssumption DEF Citable
<1> QED
  BY <1>3, <1>4

LEMMA ValidationFacts ==
    ASSUME NEW citing \in Seq(Recorded)
    PROVE  ValidationOf(citing) \in Seq(Citable)
<1> DEFINE cited == [n \in DOMAIN citing |-> Cites[citing[n]]]
<1>1. cited \in Seq(Seq(Citable))
  <2>1. Len(citing) \in Nat /\ DOMAIN citing = 1..Len(citing) /\ \A n \in DOMAIN citing : citing[n] \in Recorded
    OBVIOUS
  <2>2. \A n \in 1..Len(citing) : Cites[citing[n]] \in Seq(Citable)
    BY <2>1, CitableFacts
  <2>3. cited \in [1..Len(citing) -> Seq(Citable)]
    BY <2>1, <2>2
  <2> HIDE DEF cited
  <2> QED
    BY <2>1, <2>3
<1> HIDE DEF cited
<1>2. PICK flat : flat = FlattenSeq(cited)
  OBVIOUS
<1>3. flat \in Seq(Citable)
  BY <1>1, <1>2, FlattenFacts
<1>4. WithoutRepeats(flat) \in Seq(Citable)
  <2> DEFINE places == {n \in DOMAIN flat : \A k \in 1..(n - 1) : flat[k] # flat[n]}
  <2>1. places \in SUBSET (DOMAIN flat) /\ WithoutRepeats(flat) = Picked(flat, places)
    BY DEF WithoutRepeats
  <2> HIDE DEF places
  <2> QED
    BY <1>3, <2>1, PickedFacts
<1>5. Those(WithoutRepeats(flat), Validating) \in Seq(Citable)
  BY <1>4, ThoseFacts
<1> QED
  BY <1>2, <1>5 DEF ValidationOf, cited

(* What preflight() answers, as context() uses it. *)
LEMMA ViewFacts ==
    ASSUME AnswersInv, answers # NoAnswers
    PROVE  LET view == answers.preflight
           IN  /\ \A shown \in {"root_causes", "verified_lessons", "pending"} :
                    /\ view[shown] \in Seq(IdsIn(Memories))
                    /\ \A m \in IdsIn(view[shown]) : Concerns(SimilarMemories, m)
               /\ view.known_failures \in Seq(IdsIn(Attempts)) /\ IsInjective(view.known_failures)
               /\ view.recommended_validation \in Seq(Citable)
<1>1. answers.preflight = PreflightAnswer
  BY DEF AnswersInv
<1>2. /\ RootCauses \in Seq(IdsIn(Memories)) /\ VerifiedLessons \in Seq(IdsIn(Memories))
      /\ Pending \in Seq(IdsIn(Memories))
  BY OfKindFacts, LessonFacts DEF RootCauses, Pending
<1>3. \A memories \in Seq(IdsIn(Memories)) :
        /\ Relevant(SimilarMemories, memories) \in Seq(IdsIn(Memories))
        /\ \A m \in IdsIn(Relevant(SimilarMemories, memories)) : Concerns(SimilarMemories, m)
  BY RelevantFacts
<1>4. /\ PreflightAnswer.root_causes = Relevant(SimilarMemories, RootCauses)
      /\ PreflightAnswer.verified_lessons = Relevant(SimilarMemories, VerifiedLessons)
      /\ PreflightAnswer.pending = Relevant(SimilarMemories, Pending)
      /\ PreflightAnswer.known_failures = KnownFailures
      /\ PreflightAnswer.recommended_validation
           = ValidationOf(Relevant(SimilarMemories, VerifiedLessons) \o RelevantSuccesses)
  BY DEF PreflightAnswer
<1>5. PreflightAnswer.recommended_validation \in Seq(Citable)
  <2>1. RelevantSuccesses \in Seq(IdsIn(Attempts))
    BY RelevantAttemptsFacts, ThoseFacts DEF RelevantSuccesses
  <2>2. PICK lessons \in Seq(IdsIn(Memories)) : lessons = Relevant(SimilarMemories, VerifiedLessons)
    BY <1>2, <1>3
  <2>3. \A S, T : S \subseteq T => Seq(S) \subseteq Seq(T)
    OBVIOUS
  <2>4. lessons \in Seq(Recorded) /\ RelevantSuccesses \in Seq(Recorded)
    BY <2>1, <2>3, FiniteLists
  <2>5. lessons \o RelevantSuccesses \in Seq(Recorded)
    BY <2>4
  <2> QED
    BY <1>4, <2>2, <2>5, ValidationFacts
<1>6. \A shown \in {"root_causes", "verified_lessons", "pending"} :
        /\ PreflightAnswer[shown] \in Seq(IdsIn(Memories))
        /\ \A m \in IdsIn(PreflightAnswer[shown]) : Concerns(SimilarMemories, m)
  BY <1>2, <1>3, <1>4
<1>7. PreflightAnswer.known_failures \in Seq(IdsIn(Attempts)) /\ IsInjective(PreflightAnswer.known_failures)
  BY <1>4, KnownFailuresFacts
<1> QED
  BY <1>1, <1>5, <1>6, <1>7

(* The candidates tell what preflight() shows, each failure once. *)
ToldBy(view, told) ==
    /\ \A shown \in {"root_causes", "verified_lessons", "pending"} :
         \A m \in IdsIn(view[shown]) : \E c \in told : c.item = m
    /\ \A a \in IdsIn(view.known_failures) : \E c \in told : Tells(c, a)

WithHistory(front, causes, failures) ==
    front \o OfCauses(causes, failures) \o OfAttempts(Standalone(causes, failures))

Covers(causes, failures, s) ==
    /\ \A m \in IdsIn(causes) : \E c \in IdsIn(s) : c.item = m
    /\ \A a \in IdsIn(failures) : \E c \in IdsIn(s) : Tells(c, a)

LEMMA HistoryFacts ==
    ASSUME AnswersInv, answers # NoAnswers,
           NEW front, SoundList(front), TellsNone(front),
           NEW causes \in Seq(IdsIn(Memories)), AllConcern(causes),
           NEW failures \in Seq(IdsIn(Attempts)), IsInjective(failures)
    PROVE  /\ SoundList(WithHistory(front, causes, failures))
           /\ IdsIn(front) \subseteq IdsIn(WithHistory(front, causes, failures))
           /\ Covers(causes, failures, WithHistory(front, causes, failures))
<1> DEFINE history == OfCauses(causes, failures)
           alone == Standalone(causes, failures)
           wanted == {a \in IdsIn(failures) : \A n \in DOMAIN causes : ~Absorbs(causes, n, a)}
<1>1. /\ SoundList(history) /\ DOMAIN history = DOMAIN causes
      /\ \A m \in IdsIn(causes) : \E c \in IdsIn(history) : c.item = m
      /\ \A n \in DOMAIN history : \A a \in IdsIn(Attempts) :
           Tells(history[n], a) <=> a \in IdsIn(failures) /\ Absorbs(causes, n, a)
  BY OfCausesFacts DEF AllConcern
<1>2. alone \in Seq(IdsIn(Attempts)) /\ IsInjective(alone) /\ IdsIn(alone) = wanted
  <2>1. alone = Those(failures, wanted) /\ IdsIn(failures) \cap wanted = wanted
    BY DEF Standalone
  <2> HIDE DEF wanted, alone
  <2> QED
    BY <2>1, ThoseFacts
<1> HIDE DEF history, alone
<1> PICK s : s = WithHistory(front, causes, failures)
  OBVIOUS
<1>3. PICK rest : rest = OfAttempts(alone)
  OBVIOUS
<1>4. /\ SoundList(rest) /\ DOMAIN rest = DOMAIN alone
      /\ \A n \in DOMAIN rest : \A a \in IdsIn(Attempts) : Tells(rest[n], a) <=> a = alone[n]
  BY <1>2, <1>3, OfAttemptsFacts
<1>5. PICK told : told = front \o history
  OBVIOUS
<1>6. SoundList(told) /\ IdsIn(told) = IdsIn(front) \cup IdsIn(history)
  BY <1>1, <1>5, JoinedLists
<1>7. \A n \in DOMAIN rest : alone[n] \in wanted
  BY <1>2, <1>4, InList
<1>8. \A a \in IdsIn(Attempts) : \A m \in DOMAIN told, n \in DOMAIN rest :
        ~(Tells(told[m], a) /\ Tells(rest[n], a))
  <2> SUFFICES ASSUME NEW a \in IdsIn(Attempts), NEW m \in DOMAIN told, NEW n \in DOMAIN rest,
                      Tells(told[m], a), Tells(rest[n], a)
               PROVE  FALSE
    OBVIOUS
  <2>1. a \in wanted
    BY <1>4, <1>7
  <2>2. told[m] \in IdsIn(told)
    BY DEF IdsIn
  <2>3. CASE told[m] \in IdsIn(front)
    BY <2>3 DEF TellsNone, IdsIn
  <2>4. CASE told[m] \in IdsIn(history)
    <3>1. PICK k \in DOMAIN history : told[m] = history[k]
      BY <2>4 DEF IdsIn
    <3>2. Absorbs(causes, k, a)
      BY <1>1, <3>1
    <3> QED
      BY <1>1, <2>1, <3>2
  <2> QED
    BY <1>6, <2>2, <2>3, <2>4
<1>9. SoundList(told \o rest) /\ IdsIn(told \o rest) = IdsIn(told) \cup IdsIn(rest)
  BY <1>4, <1>6, <1>8, JoinedLists
<1>10. s = told \o rest
  BY <1>3, <1>5 DEF history, alone, WithHistory
<1>11. IdsIn(s) = IdsIn(front) \cup IdsIn(history) \cup IdsIn(rest)
  BY <1>6, <1>9, <1>10
<1>12. ASSUME NEW a \in IdsIn(failures)
       PROVE  \E c \in IdsIn(s) : Tells(c, a)
  <2>1. a \in IdsIn(Attempts)
    BY <1>12, TypedListFacts
  <2>2. CASE a \in wanted
    <3>1. PICK n \in DOMAIN rest : alone[n] = a
      BY <1>2, <1>4, <2>2, InList
    <3>2. Tells(rest[n], a) /\ rest[n] \in IdsIn(rest)
      BY <1>4, <2>1, <3>1 DEF IdsIn
    <3> QED
      BY <1>11, <3>2
  <2>3. CASE a \notin wanted
    <3>1. PICK n \in DOMAIN history : Absorbs(causes, n, a)
      BY <1>1, <2>3
    <3>2. Tells(history[n], a) /\ history[n] \in IdsIn(history)
      BY <1>1, <2>1, <3>1 DEF IdsIn
    <3> QED
      BY <1>11, <3>2
  <2> QED
    BY <2>2, <2>3
<1> HIDE DEF wanted
<1>13. \A m \in IdsIn(causes) : \E c \in IdsIn(s) : c.item = m
  BY <1>1, <1>11
<1>14. Covers(causes, failures, s)
  BY <1>12, <1>13 DEF Covers
<1>15. SoundList(s) /\ IdsIn(front) \subseteq IdsIn(s)
  BY <1>9, <1>10, <1>11
<1> QED
  BY <1>14, <1>15

LEMMA ComposedFacts ==
    ASSUME ChoosingInv, IsChosen, answers # NoAnswers,
           NEW candidates, candidates = Composed(answers.preflight, OfPassages(choice.passages))
    PROVE  SoundList(candidates) /\ ToldBy(answers.preflight, IdsIn(candidates))
<1>1. AnswersInv
  BY DEF ChoosingInv, DocumentsInv
<1>2. PICK view : view = answers.preflight
  OBVIOUS
<1>3. /\ \A shown \in {"root_causes", "verified_lessons", "pending"} :
           /\ view[shown] \in Seq(IdsIn(Memories))
           /\ \A m \in IdsIn(view[shown]) : Concerns(SimilarMemories, m)
      /\ view.known_failures \in Seq(IdsIn(Attempts)) /\ IsInjective(view.known_failures)
  BY <1>1, <1>2, ViewFacts
<1>4. RelevantInvariants \in Seq(IdsIn(Memories)) /\ RelevantDecisions \in Seq(IdsIn(Memories))
  <2>1. Invariants \in Seq(IdsIn(Memories)) /\ Decisions \in Seq(IdsIn(Memories))
    BY OfKindFacts DEF Invariants, Decisions
  <2> QED
    BY <2>1, RelevantFacts DEF RelevantInvariants, RelevantDecisions
<1>5. PICK a, b, c, d, e :
        /\ a = OfMemories("CONSTRAINTS", RelevantInvariants)
        /\ b = OfMemories("OPEN RISKS", view.pending)
        /\ c = OfMemories("LESSONS", view.verified_lessons)
        /\ d = OfMemories("DECISIONS", RelevantDecisions)
        /\ e = OfPassages(choice.passages)
  OBVIOUS
<1>6. {"CONSTRAINTS", "OPEN RISKS", "LESSONS", "DECISIONS"} \subseteq IdsIn(SectionOrder)
  BY Sections
<1>7. SoundList(a) /\ TellsNone(a)
  <2>1. "CONSTRAINTS" \in IdsIn(SectionOrder) /\ "CONSTRAINTS" # "VALIDATION" /\ "CONSTRAINTS" \notin Disclosing
    BY <1>6 DEF Disclosing
  <2> QED
    BY <1>1, <1>4, <1>5, <2>1, OfMemoriesFacts
<1>8. SoundList(d) /\ TellsNone(d)
  <2>1. "DECISIONS" \in IdsIn(SectionOrder) /\ "DECISIONS" # "VALIDATION" /\ "DECISIONS" \notin Disclosing
    BY <1>6 DEF Disclosing
  <2> QED
    BY <1>1, <1>4, <1>5, <2>1, OfMemoriesFacts
<1>9. SoundList(b) /\ TellsNone(b) /\ \A m \in IdsIn(view.pending) : \E x \in IdsIn(b) : x.item = m
  <2>1. PICK section \in IdsIn(SectionOrder) : section = "OPEN RISKS"
    BY <1>6
  <2>2. section # "VALIDATION"
    BY <2>1
  <2>3. PICK pending \in Seq(IdsIn(Memories)) :
          pending = view.pending /\ \A m \in IdsIn(pending) : Concerns(SimilarMemories, m)
    BY <1>3
  <2>4. b = OfMemories(section, pending)
    BY <1>5, <2>1, <2>3
  <2>5. SoundList(b) /\ TellsNone(b) /\ \A m \in IdsIn(pending) : \E x \in IdsIn(b) : x.item = m
    BY <1>1, <2>2, <2>3, <2>4, OfMemoriesFacts
  <2> QED
    BY <2>3, <2>5
<1>10. SoundList(c) /\ TellsNone(c) /\ \A m \in IdsIn(view.verified_lessons) : \E x \in IdsIn(c) : x.item = m
  <2>1. "LESSONS" \in IdsIn(SectionOrder) /\ "LESSONS" # "VALIDATION"
    BY <1>6
  <2>2. PICK lessons \in Seq(IdsIn(Memories)) :
          lessons = view.verified_lessons /\ \A m \in IdsIn(lessons) : Concerns(SimilarMemories, m)
    BY <1>3
  <2>3. c = OfMemories("LESSONS", lessons)
    BY <1>5, <2>2
  <2>4. SoundList(c) /\ TellsNone(c) /\ \A m \in IdsIn(lessons) : \E x \in IdsIn(c) : x.item = m
    BY <1>1, <2>1, <2>2, <2>3, OfMemoriesFacts
  <2> QED
    BY <2>2, <2>4
<1>11. SoundList(e) /\ TellsNone(e)
  BY <1>5, OfPassagesFacts
<1>12. PICK ab : ab = a \o b
  OBVIOUS
<1>13. SoundList(ab) /\ TellsNone(ab) /\ IdsIn(ab) = IdsIn(a) \cup IdsIn(b)
  BY <1>7, <1>9, <1>12, JoinedQuietLists
<1>14. PICK abc : abc = ab \o c
  OBVIOUS
<1>15. SoundList(abc) /\ TellsNone(abc) /\ IdsIn(abc) = IdsIn(ab) \cup IdsIn(c)
  BY <1>10, <1>13, <1>14, JoinedQuietLists
<1>16. PICK abcd : abcd = abc \o d
  OBVIOUS
<1>17. SoundList(abcd) /\ TellsNone(abcd) /\ IdsIn(abcd) = IdsIn(abc) \cup IdsIn(d)
  BY <1>8, <1>15, <1>16, JoinedQuietLists
<1>18. PICK front : front = abcd \o e
  OBVIOUS
<1>19. SoundList(front) /\ TellsNone(front) /\ IdsIn(front) = IdsIn(abcd) \cup IdsIn(e)
  BY <1>11, <1>17, <1>18, JoinedQuietLists
<1>20. candidates = front \o OfCauses(view.root_causes, view.known_failures)
                          \o OfAttempts(Standalone(view.root_causes, view.known_failures))
  BY <1>2, <1>5, <1>12, <1>14, <1>16, <1>18 DEF Composed
<1>21. /\ SoundList(candidates)
       /\ \A x \in IdsIn(front) : x \in IdsIn(candidates)
       /\ \A m \in IdsIn(view.root_causes) : \E x \in IdsIn(candidates) : x.item = m
       /\ \A f \in IdsIn(view.known_failures) : \E x \in IdsIn(candidates) : Tells(x, f)
  <2>1. PICK causes \in Seq(IdsIn(Memories)) :
          causes = view.root_causes /\ AllConcern(causes)
    BY <1>3 DEF AllConcern
  <2>2. PICK failures \in Seq(IdsIn(Attempts)) :
          failures = view.known_failures /\ IsInjective(failures)
    BY <1>3
  <2>3. candidates = WithHistory(front, causes, failures)
    BY <1>20, <2>1, <2>2 DEF WithHistory
  <2>4. /\ SoundList(candidates) /\ IdsIn(front) \subseteq IdsIn(candidates)
        /\ Covers(causes, failures, candidates)
    BY <1>1, <1>19, <2>1, <2>2, <2>3, HistoryFacts
  <2> QED
    BY <2>1, <2>2, <2>4 DEF Covers
<1>22. /\ \A m \in IdsIn(view.pending) : \E x \in IdsIn(candidates) : x.item = m
       /\ \A m \in IdsIn(view.verified_lessons) : \E x \in IdsIn(candidates) : x.item = m
  BY <1>9, <1>10, <1>13, <1>15, <1>17, <1>19, <1>21
<1>23. ToldBy(view, IdsIn(candidates))
  BY <1>21, <1>22 DEF ToldBy
<1> QED
  BY <1>2, <1>21, <1>23

----------------------------------------------------------------------------
(* The budgets *)

IsFill(f) ==
    /\ f = [phase |-> f.phase, left |-> f.left, pool |-> f.pool,
            taken |-> f.taken, used |-> f.used, total |-> f.total]
    /\ IsList(f.left) /\ IsList(f.taken) /\ f.pool \in Seq(Citable)
    /\ f.used \in Nat /\ f.total \in Nat
    /\ \A c \in IdsIn(f.left) \cup IdsIn(f.taken) : Sized(c)

(* The next candidate is taken, or nothing more is. *)
IsTaken(f, g) ==
    /\ g.phase = f.phase /\ g.left = Tail(f.left) /\ g.pool = f.pool
    /\ g.taken = Append(f.taken, Head(f.left))
    /\ g.used = f.used + Cost(f, Head(f.left)) /\ g.total = f.total

IsCut(f, g) ==
    /\ g.phase = "cut" /\ g.left = << >> /\ g.pool = << >> /\ g.taken = f.taken
    /\ g.used = f.used /\ g.total = f.total + Len(f.pool)

LEMMA FillsAreEqual ==
    ASSUME NEW f, NEW g,
           f = [phase |-> f.phase, left |-> f.left, pool |-> f.pool,
                taken |-> f.taken, used |-> f.used, total |-> f.total],
           g = [phase |-> g.phase, left |-> g.left, pool |-> g.pool,
                taken |-> g.taken, used |-> g.used, total |-> g.total],
           f.phase = g.phase, f.left = g.left, f.pool = g.pool,
           f.taken = g.taken, f.used = g.used, f.total = g.total
    PROVE  f = g
  OBVIOUS

LEMMA HeadFacts ==
    ASSUME NEW s, IsList(s), s # << >>
    PROVE  /\ Head(s) \in IdsIn(s) /\ IsList(Tail(s)) /\ IdsIn(Tail(s)) \subseteq IdsIn(s)
           /\ Len(s) > 0 /\ Len(Tail(s)) = Len(s) - 1
           /\ Head(s) = s[1] /\ \A n \in 1..(Len(s) - 1) : Tail(s)[n] = s[n + 1]
<1>1. s \in Seq(IdsIn(s))
  BY DEF IsList
<1>2. /\ Len(s) \in Nat /\ Len(s) > 0 /\ Head(s) \in IdsIn(s) /\ Tail(s) \in Seq(IdsIn(s))
      /\ Len(Tail(s)) = Len(s) - 1
      /\ Head(s) = s[1] /\ \A n \in 1..(Len(s) - 1) : Tail(s)[n] = s[n + 1]
  BY <1>1
<1> QED
  BY <1>2, TypedListFacts

LEMMA AppendFacts ==
    ASSUME NEW s, IsList(s), NEW x
    PROVE  /\ IsList(Append(s, x)) /\ IdsIn(Append(s, x)) = IdsIn(s) \cup {x}
           /\ Len(s) \in Nat /\ DOMAIN s = 1..Len(s) /\ Len(Append(s, x)) = Len(s) + 1
           /\ DOMAIN Append(s, x) = 1..(Len(s) + 1)
           /\ \A n \in 1..Len(s) : Append(s, x)[n] = s[n]
           /\ Append(s, x)[Len(s) + 1] = x
<1> DEFINE T == IdsIn(s) \cup {x}
<1>1. s \in Seq(T) /\ x \in T
  <2>1. \A S : IdsIn(s) \subseteq S => s \in Seq(S)
    BY DEF IsList
  <2> QED
    BY <2>1
<1> HIDE DEF T
<1>2. /\ Append(s, x) \in Seq(T)
      /\ Len(s) \in Nat /\ DOMAIN s = 1..Len(s) /\ Len(Append(s, x)) = Len(s) + 1
      /\ DOMAIN Append(s, x) = 1..(Len(s) + 1)
      /\ \A n \in 1..Len(s) : Append(s, x)[n] = s[n]
      /\ Append(s, x)[Len(s) + 1] = x
  BY <1>1
<1>3. IsList(Append(s, x))
  BY <1>2, TypedListFacts
<1>4. IdsIn(Append(s, x)) = IdsIn(s) \cup {x}
  <2>1. \A n \in 1..Len(s) : n \in 1..(Len(s) + 1)
    BY <1>2
  <2>2. Len(s) + 1 \in 1..(Len(s) + 1)
    BY <1>2
  <2>3. \A n \in 1..(Len(s) + 1) : n \in 1..Len(s) \/ n = Len(s) + 1
    BY <1>2
  <2> QED
    BY <1>2, <2>1, <2>2, <2>3 DEF IdsIn
<1> QED
  BY <1>2, <1>3, <1>4

LEMMA CostType ==
    ASSUME NEW f, NEW c, Sized(c)
    PROVE  Cost(f, c) \in Nat
<1>1. c.length \in Nat /\ HeadingLength[c.section] \in Nat
  BY ContextAssumption DEF Sized
<1> QED
  BY <1>1 DEF Cost

LEMMA OfferedFacts ==
    ASSUME NEW f, IsFill(f), f.left # << >>, NEW b \in Nat, NEW g, g = Offered(f, b)
    PROVE  /\ IsFill(g)
           /\ f.used + Cost(f, Head(f.left)) > b => IsCut(f, g)
           /\ ~(f.used + Cost(f, Head(f.left)) > b) => IsTaken(f, g)
<1> DEFINE head == Head(f.left)
           IsRecord(h) == h = [phase |-> h.phase, left |-> h.left, pool |-> h.pool,
                               taken |-> h.taken, used |-> h.used, total |-> h.total]
<1>1. head \in IdsIn(f.left) /\ IsList(Tail(f.left)) /\ IdsIn(Tail(f.left)) \subseteq IdsIn(f.left)
  BY HeadFacts DEF IsFill
<1>2. Sized(head) /\ Cost(f, head) \in Nat
  BY <1>1, CostType DEF IsFill
<1>3. IsRecord(f)
  BY DEF IsFill
<1>4. CASE f.used + Cost(f, head) > b
  <2>1. g = [f EXCEPT !.phase = "cut", !.left = << >>, !.pool = << >>, !.total = @ + Len(f.pool)]
    BY <1>4 DEF Offered
  <2>2. g = [phase |-> "cut", left |-> << >>, pool |-> << >>,
             taken |-> f.taken, used |-> f.used, total |-> f.total + Len(f.pool)]
    BY <1>3, <2>1
  <2>3. IsRecord(g) /\ IsCut(f, g)
    BY <2>2 DEF IsCut
  <2>4. Len(f.pool) \in Nat
    BY DEF IsFill
  <2>5. IsFill(g)
    BY <2>3, <2>4, EmptyList DEF IsFill, IsCut
  <2> QED
    BY <1>4, <2>3, <2>5
<1>5. CASE ~(f.used + Cost(f, head) > b)
  <2>1. g = [f EXCEPT !.left = Tail(@), !.taken = Append(@, head), !.used = @ + Cost(f, head)]
    BY <1>5 DEF Offered
  <2>2. g = [phase |-> f.phase, left |-> Tail(f.left), pool |-> f.pool,
             taken |-> Append(f.taken, head), used |-> f.used + Cost(f, head), total |-> f.total]
    BY <1>3, <2>1
  <2>3. IsRecord(g) /\ IsTaken(f, g)
    BY <2>2 DEF IsTaken
  <2>4. IsList(g.taken) /\ IdsIn(g.taken) = IdsIn(f.taken) \cup {head}
    BY <2>3, AppendFacts DEF IsFill, IsTaken
  <2>5. IsFill(g)
    BY <1>1, <1>2, <2>3, <2>4 DEF IsFill, IsTaken
  <2> QED
    BY <1>5, <2>3, <2>5
<1> QED
  BY <1>4, <1>5

IsTurned(f, g) ==
    /\ g.phase = "validation" /\ g.left = OfEvidence(Those(f.pool, CitedBy(f.taken)))
    /\ g.pool = << >> /\ g.taken = f.taken /\ g.used = f.used
    /\ g.total \in Nat /\ g.total <= f.total + Len(f.pool)

IsEnded(f, g) ==
    /\ g.phase = "done" /\ g.left = f.left /\ g.pool = f.pool
    /\ g.taken = f.taken /\ g.used = f.used /\ g.total = f.total

(* What is listed under VALIDATION is cited, and can be. *)
LEMMA OfEvidenceFacts ==
    ASSUME NEW evidence \in Seq(Citable), NEW s, s = OfEvidence(evidence)
    PROVE  /\ IsList(s)
           /\ \A c \in IdsIn(s) : /\ Sized(c) /\ c.item \in IdsIn(evidence) /\ c.item \notin Recorded
                                  /\ c.section = "VALIDATION" /\ c.absorbed = << >>
<1>1. DOMAIN s = DOMAIN evidence /\ s = [n \in DOMAIN s |-> s[n]]
  BY DEF OfEvidence
<1>2. IsList(s)
  BY <1>1, TypedListFacts, MappedLists
<1>3. ASSUME NEW n \in DOMAIN s
      PROVE  /\ Sized(s[n]) /\ s[n].item \in IdsIn(evidence) /\ s[n].item \notin Recorded
             /\ s[n].section = "VALIDATION" /\ s[n].absorbed = << >>
  <2>1. /\ s[n].section = "VALIDATION" /\ s[n].absorbed = << >>
        /\ s[n].item = evidence[n] /\ s[n].length = LineLength[evidence[n]]
    BY <1>1, <1>3 DEF OfEvidence
  <2>2. evidence[n] \in IdsIn(evidence) /\ evidence[n] \in Citable
    BY <1>1, <1>3, InList
  <2>3. evidence[n] \notin Recorded /\ LineLength[evidence[n]] \in Nat
    BY <2>2, CitableFacts, ContextAssumption
  <2> QED
    BY <2>1, <2>2, <2>3, Sections DEF Sized
<1> QED
  BY <1>2, <1>3 DEF IdsIn

LEMMA TurnedFacts ==
    ASSUME NEW f, IsFill(f), f.left = << >>, NEW g, g = Turned(f)
    PROVE  IsFill(g) /\ IsTurned(f, g)
<1> DEFINE IsRecord(h) == h = [phase |-> h.phase, left |-> h.left, pool |-> h.pool,
                               taken |-> h.taken, used |-> h.used, total |-> h.total]
<1>1. PICK items : items = Those(f.pool, CitedBy(f.taken))
  OBVIOUS
<1>2. items \in Seq(Citable) /\ Len(items) <= Len(f.pool)
  <2>1. PICK pool \in Seq(Citable) : pool = f.pool
    BY DEF IsFill
  <2> QED
    BY <1>1, <2>1, ThoseFacts
<1>3. g = [f EXCEPT !.phase = "validation", !.pool = << >>,
                    !.left = OfEvidence(items), !.total = @ + Len(items)]
  BY <1>1 DEF Turned
<1>4. IsRecord(f)
  BY DEF IsFill
<1>5. g = [phase |-> "validation", left |-> OfEvidence(items), pool |-> << >>,
           taken |-> f.taken, used |-> f.used, total |-> f.total + Len(items)]
  BY <1>3, <1>4
<1>6. IsRecord(g)
  BY <1>5
<1>7. Len(items) \in Nat /\ Len(f.pool) \in Nat /\ f.total \in Nat /\ f.used \in Nat
  BY <1>2 DEF IsFill
<1>8. IsTurned(f, g)
  <2>1. PICK total, m, n : total = f.total /\ m = Len(items) /\ n = Len(f.pool)
    OBVIOUS
  <2>2. total + m \in Nat /\ total + m <= total + n
    BY <1>2, <1>7, <2>1
  <2> QED
    BY <1>1, <1>5, <2>1, <2>2 DEF IsTurned
<1>9. IsList(g.left) /\ \A c \in IdsIn(g.left) : Sized(c)
  <2>1. g.left = OfEvidence(items)
    BY <1>5
  <2> QED
    BY <1>2, <2>1, OfEvidenceFacts
<1>10. IsFill(g)
  BY <1>6, <1>8, <1>9, EmptyList DEF IsFill, IsTurned
<1> QED
  BY <1>8, <1>10

(* What one step does to what is compiled for one budget. *)
LEMMA AdvancedFacts ==
    ASSUME NEW f, IsFill(f), NEW b \in Nat, NEW g, g = Advanced(f, b)
    PROVE  /\ IsFill(g)
           /\ \/ g = f /\ f.phase \notin {"candidates", "validation"}
              \/ /\ f.phase \in {"candidates", "validation"} /\ f.left # << >>
                 /\ f.used + Cost(f, Head(f.left)) > b /\ IsCut(f, g)
              \/ /\ f.phase \in {"candidates", "validation"} /\ f.left # << >>
                 /\ ~(f.used + Cost(f, Head(f.left)) > b) /\ IsTaken(f, g)
              \/ f.phase = "candidates" /\ f.left = << >> /\ IsTurned(f, g)
              \/ f.phase = "validation" /\ f.left = << >> /\ IsEnded(f, g)
<1>1. CASE f.phase \in {"candidates", "validation"} /\ f.left # << >>
  <2>1. g = Offered(f, b)
    BY <1>1 DEF Advanced
  <2> QED
    BY <1>1, <2>1, OfferedFacts
<1>2. CASE f.phase = "candidates" /\ f.left = << >>
  <2>1. g = Turned(f)
    BY <1>2 DEF Advanced
  <2> QED
    BY <1>2, <2>1, TurnedFacts
<1>3. CASE f.phase = "validation" /\ f.left = << >>
  <2>1. g = [f EXCEPT !.phase = "done"]
    BY <1>3 DEF Advanced
  <2>2. f = [phase |-> f.phase, left |-> f.left, pool |-> f.pool,
             taken |-> f.taken, used |-> f.used, total |-> f.total]
    BY DEF IsFill
  <2>3. g = [phase |-> "done", left |-> f.left, pool |-> f.pool,
             taken |-> f.taken, used |-> f.used, total |-> f.total]
    BY <2>1, <2>2
  <2>4. IsFill(g) /\ IsEnded(f, g)
    BY <2>3 DEF IsFill, IsEnded
  <2> QED
    BY <1>3, <2>4
<1>4. CASE f.phase \notin {"candidates", "validation"}
  <2>1. g = f
    BY <1>4 DEF Advanced
  <2> QED
    BY <1>4, <2>1
<1> QED
  BY <1>1, <1>2, <1>3, <1>4

Headings(f) == UNION {{section} \X (0..HeadingLength[section]) : section \in SectionsOf(f)}

Lines(f) == UNION {{n} \X (0..f.taken[n].length) : n \in DOMAIN f.taken}

(* What is accounted for is what is rendered, within the budget. *)
Measured(f, b) ==
    /\ IsFill(f)
    /\ IsFiniteSet(Headings(f)) /\ IsFiniteSet(Lines(f))
    /\ Cardinality(Headings(f)) + Cardinality(Lines(f)) = f.used
    /\ f.used <= b

(* A line and its end. *)
LEMMA LineFacts ==
    ASSUME NEW x, NEW length \in Nat
    PROVE  /\ IsFiniteSet({x} \X (0..length))
           /\ Cardinality({x} \X (0..length)) = length + 1
<1>1. IsFiniteSet({x}) /\ Cardinality({x}) = 1
  BY FS_Singleton
<1>2. IsFiniteSet(0..length) /\ Cardinality(0..length) = length + 1
  BY FS_Interval
<1> DEFINE T == 0..length
<1>3. IsFiniteSet(T) /\ Cardinality(T) = length + 1
  BY <1>2
<1> HIDE DEF T
<1>4. IsFiniteSet({x} \X T) /\ Cardinality({x} \X T) = 1 * (length + 1)
  BY <1>1, <1>3, FS_Product
<1> QED
  BY <1>4 DEF T

LEMMA AddedCharacters ==
    ASSUME NEW S, IsFiniteSet(S), NEW x, NEW length \in Nat,
           \A p \in S : p[1] # x
    PROVE  /\ IsFiniteSet(S \cup ({x} \X (0..length)))
           /\ Cardinality(S \cup ({x} \X (0..length))) = Cardinality(S) + length + 1
           /\ Cardinality(S) \in Nat
<1>1. PICK T : T = {x} \X (0..length)
  OBVIOUS
<1>2. IsFiniteSet(T) /\ Cardinality(T) = length + 1
  BY <1>1, LineFacts
<1>3. \A p \in T : p[1] = x
  BY <1>1
<1>4. S \cap T = {}
  BY <1>3
<1>5. Cardinality(S \cap T) = 0
  BY <1>4, FS_EmptySet
<1>6. IsFiniteSet(S \cup T) /\ Cardinality(S \cup T) = Cardinality(S) + Cardinality(T) - Cardinality(S \cap T)
  BY <1>2, FS_Union
<1>7. Cardinality(S) \in Nat
  BY FS_CardinalityType
<1>8. Cardinality(S \cup T) = Cardinality(S) + length + 1
  BY <1>2, <1>5, <1>6, <1>7
<1> QED
  BY <1>1, <1>6, <1>7, <1>8

LEMMA LinesFacts ==
    ASSUME NEW f, NEW g, IsFill(f), NEW c, Sized(c), g.taken = Append(f.taken, c),
           IsFiniteSet(Lines(f))
    PROVE  IsFiniteSet(Lines(g)) /\ Cardinality(Lines(g)) = Cardinality(Lines(f)) + c.length + 1
<1> DEFINE m == Len(f.taken) + 1
<1>1. /\ Len(f.taken) \in Nat /\ DOMAIN f.taken = 1..Len(f.taken) /\ DOMAIN g.taken = 1..m
      /\ \A n \in 1..Len(f.taken) : g.taken[n] = f.taken[n]
      /\ g.taken[m] = c
  BY AppendFacts DEF IsFill
<1>2. c.length \in Nat
  BY DEF Sized
<1>3. \A n \in DOMAIN g.taken : n \in DOMAIN f.taken \/ n = m
  BY <1>1
<1>4. m \in DOMAIN g.taken /\ DOMAIN f.taken \subseteq DOMAIN g.taken /\ m \notin DOMAIN f.taken
  BY <1>1
<1> HIDE DEF m
<1>5. Lines(g) = Lines(f) \cup ({m} \X (0..c.length))
  <2> DEFINE Line(h, n) == {n} \X (0..h.taken[n].length)
  <2>1. \A n \in DOMAIN f.taken : Line(g, n) = Line(f, n)
    BY <1>1
  <2>2. Line(g, m) = {m} \X (0..c.length)
    BY <1>1
  <2>3. Lines(g) = UNION {Line(g, n) : n \in DOMAIN g.taken} /\ Lines(f) = UNION {Line(f, n) : n \in DOMAIN f.taken}
    BY DEF Lines
  <2> HIDE DEF Line
  <2>4. \A x : x \in Lines(g) <=> \E n \in DOMAIN g.taken : x \in Line(g, n)
    BY <2>3
  <2>5. \A x : x \in Lines(f) <=> \E n \in DOMAIN f.taken : x \in Line(f, n)
    BY <2>3
  <2>6. \A x : x \in Lines(g) <=> x \in Lines(f) \/ x \in Line(g, m)
    BY <1>3, <1>4, <2>1, <2>4, <2>5
  <2> QED
    BY <2>2, <2>6
<1>6. \A p \in Lines(f) : p[1] # m
  BY <1>4 DEF Lines
<1>7. PICK length \in Nat : length = c.length
  BY <1>2
<1>8. PICK S : S = Lines(f)
  OBVIOUS
<1>9. /\ IsFiniteSet(S \cup ({m} \X (0..length)))
      /\ Cardinality(S \cup ({m} \X (0..length))) = Cardinality(S) + length + 1
  BY <1>6, <1>8, AddedCharacters
<1> QED
  BY <1>5, <1>7, <1>8, <1>9

LEMMA HeadingsFacts ==
    ASSUME NEW f, NEW g, IsFill(f), NEW c, Sized(c), g.taken = Append(f.taken, c),
           IsFiniteSet(Headings(f))
    PROVE  /\ IsFiniteSet(Headings(g))
           /\ Cardinality(Headings(g))
                = Cardinality(Headings(f)) + IF Opens(f, c) THEN HeadingLength[c.section] + 1 ELSE 0
<1>1. /\ Len(f.taken) \in Nat /\ DOMAIN f.taken = 1..Len(f.taken) /\ DOMAIN g.taken = 1..(Len(f.taken) + 1)
      /\ \A n \in 1..Len(f.taken) : g.taken[n] = f.taken[n]
      /\ g.taken[Len(f.taken) + 1] = c
  BY AppendFacts DEF IsFill
<1>2. SectionsOf(g) = SectionsOf(f) \cup {c.section}
  <2>1. \A n \in DOMAIN g.taken : n \in DOMAIN f.taken \/ n = Len(f.taken) + 1
    BY <1>1
  <2>2. Len(f.taken) + 1 \in DOMAIN g.taken /\ DOMAIN f.taken \subseteq DOMAIN g.taken
    BY <1>1
  <2> QED
    BY <1>1, <2>1, <2>2 DEF SectionsOf
<1>3. HeadingLength[c.section] \in Nat
  BY ContextAssumption DEF Sized
<1>4. Opens(f, c) <=> c.section \notin SectionsOf(f)
  BY DEF Opens, SectionsOf
<1>5. Headings(g) = Headings(f) \cup ({c.section} \X (0..HeadingLength[c.section]))
  <2> DEFINE Heading(section) == {section} \X (0..HeadingLength[section])
  <2>1. Headings(g) = UNION {Heading(section) : section \in SectionsOf(g)}
        /\ Headings(f) = UNION {Heading(section) : section \in SectionsOf(f)}
    BY DEF Headings
  <2> HIDE DEF Heading
  <2>2. Headings(g) = Headings(f) \cup Heading(c.section)
    BY <1>2, <2>1
  <2> QED
    BY <2>2 DEF Heading
<1>6. CASE Opens(f, c)
  <2>1. \A p \in Headings(f) : p[1] # c.section
    BY <1>4, <1>6 DEF Headings
  <2>2. PICK section : section = c.section /\ HeadingLength[section] \in Nat
    BY <1>3
  <2>3. PICK S : S = Headings(f)
    OBVIOUS
  <2>4. /\ IsFiniteSet(S \cup ({section} \X (0..HeadingLength[section])))
        /\ Cardinality(S \cup ({section} \X (0..HeadingLength[section])))
             = Cardinality(S) + HeadingLength[section] + 1
        /\ Cardinality(S) \in Nat
    BY <2>1, <2>2, <2>3, AddedCharacters
  <2> QED
    BY <1>5, <1>6, <2>2, <2>3, <2>4
<1>7. CASE ~Opens(f, c)
  <2>1. {c.section} \X (0..HeadingLength[c.section]) \subseteq Headings(f)
    BY <1>4, <1>7 DEF Headings
  <2>2. Headings(g) = Headings(f)
    BY <1>5, <2>1
  <2>3. Cardinality(Headings(f)) \in Nat
    BY FS_CardinalityType
  <2> QED
    BY <1>7, <2>2, <2>3
<1> QED
  BY <1>6, <1>7

LEMMA TakenIsMeasured ==
    ASSUME NEW f, NEW b \in Nat, Measured(f, b), f.left # << >>, NEW g, IsFill(g), IsTaken(f, g),
           ~(f.used + Cost(f, Head(f.left)) > b)
    PROVE  Measured(g, b)
<1>1. PICK c : c = Head(f.left)
  OBVIOUS
<1>2. Sized(c) /\ g.taken = Append(f.taken, c) /\ g.used = f.used + Cost(f, c) /\ g.used <= b
  BY <1>1, HeadFacts DEF Measured, IsFill, IsTaken
<1>3. /\ IsFiniteSet(Headings(f)) /\ IsFiniteSet(Lines(f)) /\ IsFill(f)
      /\ Cardinality(Headings(f)) + Cardinality(Lines(f)) = f.used
  BY DEF Measured
<1>4. IsFiniteSet(Lines(g)) /\ Cardinality(Lines(g)) = Cardinality(Lines(f)) + c.length + 1
  BY <1>2, <1>3, LinesFacts
<1>5. PICK heading : heading = IF Opens(f, c) THEN HeadingLength[c.section] + 1 ELSE 0
  OBVIOUS
<1>6. IsFiniteSet(Headings(g)) /\ Cardinality(Headings(g)) = Cardinality(Headings(f)) + heading
  BY <1>2, <1>3, <1>5, HeadingsFacts
<1>7. heading \in Nat /\ c.length \in Nat
  BY <1>2, <1>5, ContextAssumption DEF Sized
<1>8. Cardinality(Headings(f)) \in Nat /\ Cardinality(Lines(f)) \in Nat
  BY <1>3, FS_CardinalityType
<1>9. Cost(f, c) = c.length + 1 + heading
  BY <1>5 DEF Cost
<1>10. Cardinality(Headings(g)) + Cardinality(Lines(g)) = g.used
  BY <1>2, <1>3, <1>4, <1>6, <1>7, <1>8, <1>9
<1> QED
  BY <1>2, <1>4, <1>6, <1>10 DEF Measured

LEMMA SameIsMeasured ==
    ASSUME NEW f, NEW b, Measured(f, b), NEW g, IsFill(g), g.taken = f.taken, g.used = f.used
    PROVE  Measured(g, b)
<1>1. Headings(g) = Headings(f) /\ Lines(g) = Lines(f)
  BY DEF Headings, SectionsOf, Lines
<1> QED
  BY <1>1 DEF Measured

Begins(s, t) == Len(s) <= Len(t) /\ \A n \in 1..Len(s) : s[n] = t[n]

LEMMA PrefixFacts ==
    ASSUME NEW s, IsList(s), NEW t, IsList(t), Begins(s, t)
    PROVE  IsPrefix(s, t) /\ Len(s) \in Nat /\ Len(t) \in Nat /\ Len(s) <= Len(t)
<1>1. Len(s) \in Nat /\ Len(t) \in Nat /\ Len(s) <= Len(t)
  BY DEF IsList, Begins
<1>2. SubSeq(s, 1, Len(s)) = [n \in 1..Len(s) |-> s[n]]
  BY <1>1 DEF IsList
<1>3. SubSeq(t, 1, Len(s)) = [n \in 1..Len(s) |-> t[n]]
  BY <1>1 DEF IsList
<1>4. SubSeq(s, 1, Len(s)) = SubSeq(t, 1, Len(s))
  BY <1>2, <1>3 DEF Begins
<1> QED
  BY <1>1, <1>4 DEF IsPrefix

(* The smaller budget's selection is the larger's, or has ended before it  *)
(* and counts as left out all that the larger may still take.              *)
Follows(f, g) ==
    \/ f = g
    \/ f.phase = "cut" /\ Begins(f.taken, g.taken) /\ g.total + Len(g.pool) <= f.total

LEMMA CutFollows ==
    ASSUME NEW f, IsFill(f), NEW g, IsFill(g), f.phase = "cut",
           Begins(f.taken, g.taken), g.total + Len(g.pool) <= f.total,
           NEW l \in Nat, NEW h, h = Advanced(g, l)
    PROVE  Begins(f.taken, h.taken) /\ h.total + Len(h.pool) <= f.total
<1>1. /\ IsFill(h)
      /\ \/ h = g
         \/ IsCut(g, h)
         \/ IsTaken(g, h)
         \/ IsTurned(g, h)
         \/ IsEnded(g, h)
  BY AdvancedFacts
<1>2. Len(g.pool) \in Nat /\ g.total \in Nat /\ f.total \in Nat /\ Len(<< >>) = 0
  BY DEF IsFill
<1>3. CASE h = g
  BY <1>3
<1>4. CASE IsCut(g, h)
  <2>1. h.total + Len(h.pool) = g.total + Len(g.pool)
    BY <1>2, <1>4 DEF IsCut
  <2> QED
    BY <1>4, <2>1 DEF IsCut
<1>5. CASE IsTaken(g, h)
  <2>1. PICK s, t, x : s = f.taken /\ t = g.taken /\ x = Head(g.left)
    OBVIOUS
  <2>2. IsList(s) /\ IsList(t) /\ Begins(s, t) /\ h.taken = Append(t, x)
    BY <1>5, <2>1 DEF IsFill, IsTaken
  <2>3. Len(s) \in Nat /\ Len(t) \in Nat /\ Len(Append(t, x)) = Len(t) + 1
        /\ \A n \in 1..Len(t) : Append(t, x)[n] = t[n]
    BY <2>2, AppendFacts DEF IsList
  <2>4. Begins(s, Append(t, x))
    BY <2>2, <2>3 DEF Begins
  <2> QED
    BY <1>5, <2>1, <2>2, <2>4 DEF IsTaken
<1>6. CASE IsTurned(g, h)
  <2>1. h.total + Len(h.pool) <= g.total + Len(g.pool)
    BY <1>2, <1>6 DEF IsTurned
  <2>2. h.total \in Nat /\ Len(h.pool) \in Nat
    BY <1>1 DEF IsFill
  <2>3. h.total + Len(h.pool) <= f.total
    BY <1>2, <2>1, <2>2
  <2> QED
    BY <1>6, <2>3 DEF IsTurned
<1>7. CASE IsEnded(g, h)
  BY <1>7 DEF IsEnded
<1> QED
  BY <1>1, <1>3, <1>4, <1>5, <1>6, <1>7

LEMMA AdvancedFollows ==
    ASSUME NEW b \in Nat, NEW l \in Nat, b < l, NEW f, IsFill(f), NEW g, IsFill(g), Follows(f, g)
    PROVE  Follows(Advanced(f, b), Advanced(g, l))
<1>1. PICK f2, g2 : f2 = Advanced(f, b) /\ g2 = Advanced(g, l)
  OBVIOUS
<1>2. CASE f # g
  <2>1. f.phase = "cut" /\ Begins(f.taken, g.taken) /\ g.total + Len(g.pool) <= f.total
    BY <1>2 DEF Follows
  <2>2. f2 = f
    BY <1>1, <2>1, AdvancedFacts
  <2>3. Begins(f.taken, g2.taken) /\ g2.total + Len(g2.pool) <= f.total
    BY <1>1, <2>1, CutFollows
  <2> QED
    BY <1>1, <2>1, <2>2, <2>3 DEF Follows
<1>3. CASE f = g
  <2> DEFINE cost == Cost(f, Head(f.left))
  <2>1. CASE f.phase \in {"candidates", "validation"} /\ f.left # << >>
    <3>1. f2 = Offered(f, b) /\ g2 = Offered(f, l)
      BY <1>1, <1>3, <2>1 DEF Advanced
    <3>2. cost \in Nat /\ f.used \in Nat
      BY <2>1, HeadFacts, CostType DEF IsFill
    <3> HIDE DEF cost
    <3>3. CASE f.used + cost > l
      <4>1. f.used + cost > b
        BY <3>2, <3>3
      <4> QED
        BY <1>1, <3>1, <3>3, <4>1 DEF Offered, Follows, cost
    <3>4. CASE ~(f.used + cost > b)
      <4>1. ~(f.used + cost > l)
        BY <3>2, <3>4
      <4> QED
        BY <1>1, <3>1, <3>4, <4>1 DEF Offered, Follows, cost
    <3>5. CASE f.used + cost > b /\ ~(f.used + cost > l)
      <4>1. IsFill(f2) /\ IsCut(f, f2) /\ IsFill(g2) /\ IsTaken(f, g2)
        BY <2>1, <3>1, <3>5, OfferedFacts DEF cost
      <4>2. Begins(f2.taken, g2.taken)
        <5>1. PICK t, x : t = f.taken /\ x = Head(f.left)
          OBVIOUS
        <5>2. IsList(t) /\ f2.taken = t /\ g2.taken = Append(t, x)
          BY <4>1, <5>1 DEF IsFill, IsTaken, IsCut
        <5>3. /\ Len(t) \in Nat /\ Len(Append(t, x)) = Len(t) + 1
              /\ \A n \in 1..Len(t) : Append(t, x)[n] = t[n]
          BY <5>2, AppendFacts
        <5> QED
          BY <5>2, <5>3 DEF Begins
      <4>3. g2.total + Len(g2.pool) <= f2.total
        <5>1. g2.total + Len(g2.pool) = f.total + Len(f.pool) /\ f2.total = f.total + Len(f.pool)
          BY <4>1 DEF IsTaken, IsCut
        <5>2. f.total \in Nat /\ Len(f.pool) \in Nat
          BY DEF IsFill
        <5> QED
          BY <5>1, <5>2
      <4>4. f2.phase = "cut"
        BY <4>1 DEF IsCut
      <4> QED
        BY <1>1, <4>2, <4>3, <4>4 DEF Follows
    <3> QED
      BY <3>3, <3>4, <3>5
  <2>2. CASE ~(f.phase \in {"candidates", "validation"} /\ f.left # << >>)
    <3>1. f2 = g2
      <4>1. CASE f.phase = "candidates" /\ f.left = << >>
        BY <1>1, <1>3, <4>1 DEF Advanced
      <4>2. CASE f.phase = "validation" /\ f.left = << >>
        BY <1>1, <1>3, <4>2 DEF Advanced
      <4>3. CASE f.phase \notin {"candidates", "validation"}
        BY <1>1, <1>3, <4>3 DEF Advanced
      <4> QED
        BY <2>2, <4>1, <4>2, <4>3
    <3> QED
      BY <1>1, <3>1 DEF Follows
  <2> QED
    BY <2>1, <2>2
<1> QED
  BY <1>2, <1>3

LEMMA AdvancedIsMeasured ==
    ASSUME NEW f, NEW b \in Nat, Measured(f, b)
    PROVE  Measured(Advanced(f, b), b)
<1>1. PICK g : g = Advanced(f, b)
  OBVIOUS
<1>2. IsFill(f)
  BY DEF Measured
<1>3. /\ IsFill(g)
      /\ \/ g = f
         \/ IsCut(f, g)
         \/ f.left # << >> /\ ~(f.used + Cost(f, Head(f.left)) > b) /\ IsTaken(f, g)
         \/ IsTurned(f, g)
         \/ IsEnded(f, g)
  BY <1>1, <1>2, AdvancedFacts
<1>4. CASE f.left # << >> /\ ~(f.used + Cost(f, Head(f.left)) > b) /\ IsTaken(f, g)
  BY <1>1, <1>3, <1>4, TakenIsMeasured
<1>5. CASE g.taken = f.taken /\ g.used = f.used
  BY <1>1, <1>3, <1>5, SameIsMeasured
<1>6. IsCut(f, g) \/ IsTurned(f, g) \/ IsEnded(f, g) => g.taken = f.taken /\ g.used = f.used
  BY DEF IsCut, IsTurned, IsEnded
<1> QED
  BY <1>3, <1>4, <1>5, <1>6

FillInv ==
    /\ fill = [b \in Budgets |-> fill[b]]
    /\ \A b \in Budgets : Measured(fill[b], b)
    /\ \A b, larger \in Budgets : b < larger => Follows(fill[b], fill[larger])

LEMMA EmptyIsMeasured ==
    ASSUME NEW f, IsFill(f), f.taken = << >>, f.used = 0, NEW b \in Nat
    PROVE  Measured(f, b)
<1>1. DOMAIN f.taken = {}
  BY EmptyList
<1>2. Headings(f) = {} /\ Lines(f) = {}
  BY <1>1 DEF Headings, SectionsOf, Lines
<1>3. IsFiniteSet({}) /\ Cardinality({}) = 0
  BY FS_EmptySet
<1> QED
  BY <1>2, <1>3 DEF Measured

(* What is compiled, for each budget, to begin with. *)
Start(candidates, pool) ==
    [phase |-> "candidates", left |-> candidates, pool |-> pool,
     taken |-> << >>, used |-> 0, total |-> Len(candidates)]

LEMMA CompileStarts ==
    ASSUME ChoosingInv, Compile
    PROVE  \E candidates, pool :
             /\ SoundList(candidates) /\ ToldBy(answers.preflight, IdsIn(candidates))
             /\ IsFill(Start(candidates, pool))
             /\ answers # NoAnswers /\ IsChosen
             /\ fill' = [b \in Budgets |-> Start(candidates, pool)]
<1>1. /\ IsChosen /\ answers # NoAnswers
      /\ fill' = [b \in Budgets |->
                    Start(Composed(answers.preflight, OfPassages(choice.passages)),
                          answers.preflight.recommended_validation)]
  BY DEF Compile, Compose, Start
<1>2. PICK candidates, pool :
        /\ candidates = Composed(answers.preflight, OfPassages(choice.passages))
        /\ pool = answers.preflight.recommended_validation
  OBVIOUS
<1>3. SoundList(candidates) /\ ToldBy(answers.preflight, IdsIn(candidates))
  BY <1>1, <1>2, ComposedFacts
<1>4. pool \in Seq(Citable)
  BY <1>1, <1>2, ViewFacts DEF ChoosingInv, DocumentsInv
<1>5. Len(candidates) \in Nat /\ IsList(candidates)
  BY <1>3, ListFacts DEF SoundList
<1>6. \A c \in IdsIn(candidates) : Sized(c)
  BY <1>3 DEF SoundList, SoundCandidate
<1>7. IsFill(Start(candidates, pool))
  BY <1>4, <1>5, <1>6, EmptyList DEF IsFill, Start
<1> QED
  BY <1>1, <1>2, <1>3, <1>7

(* For any two budgets, what is compiled for the smaller is what is        *)
(* compiled for the larger, or has been cut off before it.                 *)
THEOREM FillInvariant == CallSpec => []FillInv
<1>1. Budgets \subseteq Nat
  BY ContextAssumption
<1>2. CallInit => FillInv
  <2> SUFFICES ASSUME CallInit
               PROVE  FillInv
    OBVIOUS
  <2>1. fill = [b \in Budgets |-> Idle]
    BY DEF CallInit, CompilerInit
  <2>2. IsFill(Idle) /\ Idle.taken = << >> /\ Idle.used = 0
    BY EmptyList DEF IsFill, Idle
  <2>3. \A b \in Budgets : Measured(Idle, b)
    BY <1>1, <2>2, EmptyIsMeasured
  <2> QED
    BY <2>1, <2>3 DEF FillInv, Follows
<1>3. ChoosingInv /\ FillInv /\ [CallNext]_callVars => FillInv'
  <2> SUFFICES ASSUME ChoosingInv, FillInv, [CallNext]_callVars
               PROVE  FillInv'
    OBVIOUS
  <2>1. CASE Compile
    <3>1. PICK start : /\ IsFill(start) /\ start.taken = << >> /\ start.used = 0
                       /\ fill' = [b \in Budgets |-> start]
      BY <2>1, CompileStarts DEF Start
    <3>2. \A b \in Budgets : Measured(start, b)
      BY <1>1, <3>1, EmptyIsMeasured
    <3> QED
      BY <3>1, <3>2 DEF FillInv, Follows
  <2>2. CASE Fill
    <3>1. fill' = [b \in Budgets |-> Advanced(fill[b], b)]
      BY <2>2 DEF Fill, Advance
    <3>2. \A b \in Budgets : Measured(Advanced(fill[b], b), b)
      BY <1>1, AdvancedIsMeasured DEF FillInv
    <3>3. \A b, larger \in Budgets :
            b < larger => Follows(Advanced(fill[b], b), Advanced(fill[larger], larger))
      BY <1>1, AdvancedFollows DEF FillInv, Measured
    <3> QED
      BY <3>1, <3>2, <3>3 DEF FillInv
  <2>3. CASE fill' = fill
    BY <2>3 DEF FillInv
  <2>4. Choose \/ ChunkStep \/ NextDocument \/ Sort \/ Consider \/ UNCHANGED callVars => fill' = fill
    BY DEF Choose, ChunkStep, NextDocument, Sort, Consider, callVars
  <2> QED
    BY <2>1, <2>2, <2>3, <2>4 DEF CallNext
<1> QED
  BY <1>2, <1>3, ChoosingInvariant, PTL DEF CallSpec

(* What context() accounts for is what it renders, within the budget; a    *)
(* smaller budget's context is the beginning of a larger one's, and admits *)
(* to leaving out no less.                                                 *)
THEOREM PrefixHolds == CallSpec => []PrefixRule
<1>1. FillInv => PrefixRule
  <2> SUFFICES ASSUME FillInv, NEW b \in Budgets
               PROVE  /\ Rendered(fill[b]) = fill[b].used /\ fill[b].used <= b
                      /\ \A larger \in Budgets : b < larger =>
                           /\ IsPrefix(fill[b].taken, fill[larger].taken)
                           /\ IsCompiled(fill[b]) /\ IsCompiled(fill[larger])
                                => Omitted(fill[larger]) <= Omitted(fill[b])
    BY DEF PrefixRule
  <2>1. Rendered(fill[b]) = fill[b].used /\ fill[b].used <= b
    <3>1. Measured(fill[b], b)
      BY DEF FillInv
    <3> QED
      BY <3>1 DEF Measured, Rendered, Headings, Lines
  <2>2. ASSUME NEW larger \in Budgets, b < larger
        PROVE  IsPrefix(fill[b].taken, fill[larger].taken) /\ Omitted(fill[larger]) <= Omitted(fill[b])
    <3>1. PICK f, g : f = fill[b] /\ g = fill[larger]
      OBVIOUS
    <3>2. IsFill(f) /\ IsFill(g) /\ Follows(f, g)
      BY <2>2, <3>1 DEF FillInv, Measured
    <3>3. PICK s, t : s = f.taken /\ t = g.taken
      OBVIOUS
    <3>4. IsList(s) /\ IsList(t) /\ Len(s) \in Nat
      BY <3>2, <3>3 DEF IsFill, IsList
    <3>5. Begins(s, t) /\ g.total <= f.total
      <4>1. CASE f = g
        BY <3>2, <3>3, <3>4, <4>1 DEF Begins, IsFill
      <4>2. CASE f # g
        <5>1. Begins(s, t) /\ g.total + Len(g.pool) <= f.total
          BY <3>2, <3>3, <4>2 DEF Follows
        <5>2. Len(g.pool) \in Nat /\ g.total \in Nat /\ f.total \in Nat
          BY <3>2 DEF IsFill
        <5> QED
          BY <5>1, <5>2
      <4> QED
        BY <4>1, <4>2
    <3>6. IsPrefix(s, t) /\ Len(s) \in Nat /\ Len(t) \in Nat /\ Len(s) <= Len(t)
      BY <3>4, <3>5, PrefixFacts
    <3>7. g.total \in Nat /\ f.total \in Nat
      BY <3>2 DEF IsFill
    <3>8. g.total - Len(t) <= f.total - Len(s)
      BY <3>5, <3>6, <3>7
    <3> QED
      BY <3>1, <3>3, <3>6, <3>8 DEF Omitted
  <2> QED
    BY <2>1, <2>2
<1> QED
  BY <1>1, FillInvariant, PTL

----------------------------------------------------------------------------
(* What is told *)

LEMMA ConcatFacts ==
    ASSUME NEW s, IsList(s), NEW t, IsList(t)
    PROVE  /\ \A n \in DOMAIN s : n \in DOMAIN (s \o t) /\ (s \o t)[n] = s[n]
           /\ DOMAIN (s \o t) = 1..(Len(s) + Len(t))
<1>1. /\ IsList(s \o t) /\ Len(s \o t) = Len(s) + Len(t)
      /\ Len(s) \in Nat /\ DOMAIN s = 1..Len(s) /\ Len(t) \in Nat
      /\ \A n \in 1..Len(s) : (s \o t)[n] = s[n]
  BY ListFacts
<1>2. DOMAIN (s \o t) = 1..(Len(s) + Len(t))
  BY <1>1, ListFacts
<1> QED
  BY <1>1, <1>2

LEMMA MoveHead ==
    ASSUME NEW s, IsList(s), NEW t, IsList(t), t # << >>
    PROVE  Append(s, Head(t)) \o Tail(t) = s \o t
<1>1. PICK head, tail, m, k : head = Head(t) /\ tail = Tail(t) /\ m = Len(s) /\ k = Len(t)
  OBVIOUS
<1>2. /\ IsList(tail) /\ k \in Nat /\ k > 0 /\ Len(tail) = k - 1
      /\ head = t[1] /\ \A n \in 1..(k - 1) : tail[n] = t[n + 1]
  BY <1>1, HeadFacts DEF IsList
<1>3. PICK longer : longer = Append(s, head)
  OBVIOUS
<1>4. /\ IsList(longer) /\ m \in Nat /\ DOMAIN s = 1..m /\ Len(longer) = m + 1
      /\ \A n \in 1..m : longer[n] = s[n]
      /\ longer[m + 1] = head
  BY <1>1, <1>3, AppendFacts
<1>5. PICK left, right : left = longer \o tail /\ right = s \o t
  OBVIOUS
<1>6. /\ IsList(left) /\ Len(left) = m + 1 + (k - 1)
      /\ \A n \in 1..(m + 1) : left[n] = longer[n]
      /\ \A n \in 1..(k - 1) : left[m + 1 + n] = tail[n]
  <2>1. IsList(longer) /\ IsList(tail)
    BY <1>2, <1>4
  <2>2. /\ IsList(longer \o tail) /\ Len(longer \o tail) = Len(longer) + Len(tail)
        /\ \A n \in 1..Len(longer) : (longer \o tail)[n] = longer[n]
        /\ \A n \in 1..Len(tail) : (longer \o tail)[Len(longer) + n] = tail[n]
    BY <2>1, ListFacts
  <2> QED
    BY <1>2, <1>4, <1>5, <2>2
<1>7. /\ IsList(right) /\ Len(right) = m + k
      /\ \A n \in 1..m : right[n] = s[n]
      /\ \A n \in 1..k : right[m + n] = t[n]
  BY <1>1, <1>5, ListFacts
<1>8. \A n \in 1..(m + k) : left[n] = right[n]
  <2> SUFFICES ASSUME NEW n \in 1..(m + k)
               PROVE  left[n] = right[n]
    OBVIOUS
  <2>1. CASE n \in 1..m
    <3>1. n \in 1..(m + 1)
      BY <1>4, <2>1
    <3> QED
      BY <1>4, <1>6, <1>7, <2>1, <3>1
  <2>2. CASE n = m + 1
    <3>1. left[n] = head
      BY <1>4, <1>6, <2>2
    <3>2. 1 \in 1..k
      BY <1>2
    <3>3. right[n] = t[1]
      BY <1>7, <2>2, <3>2
    <3> QED
      BY <1>2, <3>1, <3>3
  <2>3. CASE n > m + 1
    <3>1. PICK j \in 1..(k - 1) : n = m + 1 + j
      <4>1. n - (m + 1) \in 1..(k - 1) /\ n = m + 1 + (n - (m + 1))
        BY <1>2, <1>4, <2>3
      <4> QED
        BY <4>1
    <3>2. left[n] = t[j + 1]
      BY <1>2, <1>6, <3>1
    <3>3. j + 1 \in 1..k /\ n = m + (j + 1)
      BY <1>2, <1>4, <3>1
    <3> QED
      BY <1>7, <3>2, <3>3
  <2> QED
    BY <1>4, <2>1, <2>2, <2>3
<1>9. /\ DOMAIN left = 1..(m + k) /\ DOMAIN right = 1..(m + k)
      /\ left = [n \in DOMAIN left |-> left[n]] /\ right = [n \in DOMAIN right |-> right[n]]
  <2>1. m + 1 + (k - 1) = m + k
    BY <1>2, <1>4
  <2> QED
    BY <1>6, <1>7, <2>1 DEF IsList
<1>10. left = right
  BY <1>8, <1>9
<1> QED
  BY <1>1, <1>3, <1>5, <1>10

(* Each candidate is told as it should be, taken or not.  Until something  *)
(* does not fit, all that preflight() tells is taken or still to be        *)
(* offered; what is offered under VALIDATION is cited by what is taken.    *)
CitedAbove(taken) ==
    \A n \in DOMAIN taken : taken[n].section = "VALIDATION" =>
        \E k \in 1..(n - 1) : taken[n].item \in taken[k].cited

SoundTelling(f) ==
    LET all == f.taken \o f.left
    IN  /\ TellsOnce(all)
        /\ \A c \in IdsIn(all) : TellsContradictions(c)
        /\ CitedAbove(f.taken)
        /\ f.phase = "candidates" => \A c \in IdsIn(f.left) : c.section # "VALIDATION"
        /\ f.phase # "candidates" => \A c \in IdsIn(f.left) : c.item \in CitedBy(f.taken)
        /\ f.phase \in {"candidates", "validation", "done"} => ToldBy(answers.preflight, IdsIn(all))
        /\ f.phase = "done" => f.left = << >>

TellingInv ==
    \A b \in Budgets :
        /\ fill[b].phase = "idle" => fill[b].taken = << >>
        /\ fill[b].phase # "idle" => answers # NoAnswers /\ \A f \in {fill[b]} : SoundTelling(f)

LEMMA TellingKept ==
    ASSUME task' = task, answers' = answers
    PROVE  \A f : SoundTelling(f) => SoundTelling(f)'
<1>1. \A c : TellsContradictions(c)' <=> TellsContradictions(c)
  BY DEF TellsContradictions
<1> QED
  BY <1>1 DEF SoundTelling

LEMMA FewerAreTold ==
    ASSUME NEW s, IsList(s), NEW t, IsList(t), TellsOnce(s \o t)
    PROVE  TellsOnce(s)
<1>1. \A n \in DOMAIN s : n \in DOMAIN (s \o t) /\ (s \o t)[n] = s[n]
  BY ConcatFacts
<1> QED
  BY <1>1 DEF TellsOnce

LEMMA NothingMore ==
    ASSUME NEW s, IsList(s)
    PROVE  s \o << >> = s
  BY DEF IsList

LEMMA CitedFacts ==
    ASSUME NEW s, IsList(s), NEW x
    PROVE  CitedBy(Append(s, x)) = CitedBy(s) \cup x.cited
<1>1. /\ Len(s) \in Nat /\ DOMAIN s = 1..Len(s) /\ DOMAIN Append(s, x) = 1..(Len(s) + 1)
      /\ \A n \in 1..Len(s) : Append(s, x)[n] = s[n]
      /\ Append(s, x)[Len(s) + 1] = x
  BY AppendFacts
<1>2. \A n \in DOMAIN Append(s, x) : n \in DOMAIN s \/ n = Len(s) + 1
  BY <1>1
<1>3. DOMAIN s \subseteq DOMAIN Append(s, x) /\ Len(s) + 1 \in DOMAIN Append(s, x)
  BY <1>1
<1>4. \A y : y \in CitedBy(Append(s, x)) <=> y \in CitedBy(s) \/ y \in x.cited
  BY <1>1, <1>2, <1>3 DEF CitedBy
<1> QED
  BY <1>4

LEMMA CutIsSound ==
    ASSUME NEW f, IsFill(f), SoundTelling(f), NEW g, IsCut(f, g)
    PROVE  SoundTelling(g)
<1>1. IsList(f.taken) /\ IsList(f.left)
  BY DEF IsFill
<1>2. g.taken = f.taken /\ g.left = << >> /\ g.phase = "cut"
  BY DEF IsCut
<1>3. g.taken \o g.left = f.taken
  BY <1>1, <1>2, NothingMore
<1>4. TellsOnce(f.taken)
  BY <1>1, FewerAreTold DEF SoundTelling
<1>5. IdsIn(f.taken) \subseteq IdsIn(f.taken \o f.left) /\ IdsIn(g.left) = {}
  BY <1>1, <1>2, ListFacts, EmptyList
<1>6. \A c \in IdsIn(f.taken) : TellsContradictions(c)
  BY <1>5 DEF SoundTelling
<1>7. CitedAbove(g.taken)
  BY <1>2 DEF SoundTelling
<1> QED
  BY <1>2, <1>3, <1>4, <1>5, <1>6, <1>7 DEF SoundTelling

LEMMA TakenIsSound ==
    ASSUME NEW f, IsFill(f), SoundTelling(f), f.phase \in {"candidates", "validation"}, f.left # << >>,
           NEW g, IsTaken(f, g)
    PROVE  SoundTelling(g)
<1>1. PICK s, t, head, tail : s = f.taken /\ t = f.left /\ head = Head(t) /\ tail = Tail(t)
  OBVIOUS
<1>2. IsList(s) /\ IsList(t) /\ t # << >>
  BY <1>1 DEF IsFill
<1>3. head \in IdsIn(t) /\ IdsIn(tail) \subseteq IdsIn(t)
  BY <1>1, <1>2, HeadFacts
<1>4. g.phase = f.phase /\ g.left = tail /\ g.taken = Append(s, head)
  BY <1>1 DEF IsTaken
<1>5. g.taken \o g.left = f.taken \o f.left
  BY <1>1, <1>2, <1>4, MoveHead
<1>6. CitedBy(s) \subseteq CitedBy(Append(s, head))
  BY <1>2, CitedFacts
<1>7. g.phase = "candidates" => \A c \in IdsIn(g.left) : c.section # "VALIDATION"
  BY <1>1, <1>3, <1>4 DEF SoundTelling
<1>8. g.phase # "candidates" => \A c \in IdsIn(g.left) : c.item \in CitedBy(g.taken)
  BY <1>1, <1>3, <1>4, <1>6 DEF SoundTelling
<1>9. CitedAbove(g.taken)
  <2>1. /\ Len(s) \in Nat /\ DOMAIN s = 1..Len(s) /\ DOMAIN g.taken = 1..(Len(s) + 1)
        /\ \A n \in 1..Len(s) : g.taken[n] = s[n]
        /\ g.taken[Len(s) + 1] = head
    BY <1>2, <1>4, AppendFacts
  <2> SUFFICES ASSUME NEW n \in DOMAIN g.taken, g.taken[n].section = "VALIDATION"
               PROVE  \E k \in 1..(n - 1) : g.taken[n].item \in g.taken[k].cited
    BY DEF CitedAbove
  <2>2. CASE n \in 1..Len(s)
    <3>1. PICK k \in 1..(n - 1) : s[n].item \in s[k].cited
      BY <1>1, <2>1, <2>2 DEF SoundTelling, CitedAbove
    <3>2. k \in 1..Len(s)
      BY <2>1, <2>2
    <3> QED
      BY <2>1, <2>2, <3>1, <3>2
  <2>3. CASE n = Len(s) + 1
    <3>1. head.section = "VALIDATION"
      BY <2>1, <2>3
    <3>2. head.item \in CitedBy(s)
      BY <1>1, <1>3, <3>1 DEF SoundTelling
    <3>3. PICK k \in DOMAIN s : head.item \in s[k].cited
      BY <3>2 DEF CitedBy
    <3>4. k \in 1..(n - 1)
      BY <2>1, <2>3
    <3> QED
      BY <2>1, <2>3, <3>3, <3>4
  <2> QED
    BY <2>1, <2>2, <2>3
<1>10. g.phase # "done"
  BY <1>4
<1> QED
  BY <1>4, <1>5, <1>7, <1>8, <1>9, <1>10 DEF SoundTelling

LEMMA TurnedIsSound ==
    ASSUME AnswersInv, NEW f, IsFill(f), SoundTelling(f), f.phase = "candidates", f.left = << >>,
           NEW g, IsTurned(f, g)
    PROVE  SoundTelling(g)
<1>1. PICK s, t, pool : s = f.taken /\ t = g.left /\ pool = f.pool
  OBVIOUS
<1>2. IsList(s) /\ pool \in Seq(Citable)
  BY <1>1 DEF IsFill
<1>3. PICK items : items = Those(pool, CitedBy(s))
  OBVIOUS
<1>4. items \in Seq(Citable) /\ IdsIn(items) \subseteq CitedBy(s)
  <2>1. PICK wanted : wanted = CitedBy(s)
    OBVIOUS
  <2>2. items = Those(pool, wanted)
    BY <1>3, <2>1
  <2>3. items \in Seq(Citable) /\ IdsIn(items) = IdsIn(pool) \cap wanted
    BY <1>2, <2>2, ThoseFacts
  <2> QED
    BY <2>1, <2>3
<1>5. t = OfEvidence(items) /\ g.taken = s /\ g.phase = "validation"
  BY <1>1, <1>3 DEF IsTurned
<1>6. /\ IsList(t)
      /\ \A c \in IdsIn(t) : /\ c.item \in IdsIn(items) /\ c.item \notin Recorded
                             /\ c.absorbed = << >>
  BY <1>4, <1>5, OfEvidenceFacts
<1>7. f.taken \o f.left = s
  BY <1>1, <1>2, NothingMore
<1>8. TellsOnce(s) /\ \A c \in IdsIn(s) : TellsContradictions(c)
  BY <1>7 DEF SoundTelling
<1>9. \A c \in IdsIn(t) : \A a \in IdsIn(Attempts) : ~Tells(c, a)
  <2>1. \A c \in IdsIn(t) : c.item \notin IdsIn(Attempts)
    BY <1>6, FiniteLists
  <2> QED
    BY <1>6, <2>1, EmptyList DEF Tells
<1>10. TellsNone(t) /\ TellsOnce(t)
  BY <1>9 DEF TellsNone, TellsOnce, IdsIn
<1>11. TellsOnce(s \o t)
  BY <1>2, <1>6, <1>8, <1>10, TellingLists
<1>12. IdsIn(s \o t) = IdsIn(s) \cup IdsIn(t)
  BY <1>2, <1>6, ListFacts
<1>13. \A c \in IdsIn(t) : TellsContradictions(c)
  <2>1. \A c \in IdsIn(t) : c.item \notin IdsIn(Memories)
    BY <1>6, FiniteLists
  <2> QED
    BY <2>1, OthersHaveNoConflicts
<1>14. \A c \in IdsIn(s \o t) : TellsContradictions(c)
  BY <1>8, <1>12, <1>13
<1>15. ToldBy(answers.preflight, IdsIn(s \o t))
  <2>1. ToldBy(answers.preflight, IdsIn(s))
    BY <1>7 DEF SoundTelling
  <2> QED
    BY <1>12, <2>1 DEF ToldBy
<1>16. \A c \in IdsIn(t) : c.item \in CitedBy(s)
  BY <1>4, <1>6
<1>17. CitedAbove(s)
  BY <1>1 DEF SoundTelling
<1> QED
  BY <1>1, <1>5, <1>11, <1>14, <1>15, <1>16, <1>17 DEF SoundTelling

LEMMA EndedIsSound ==
    ASSUME NEW f, IsFill(f), SoundTelling(f), f.phase = "validation", f.left = << >>,
           NEW g, IsEnded(f, g)
    PROVE  SoundTelling(g)
<1>1. g.phase = "done" /\ g.left = f.left /\ g.taken = f.taken
  BY DEF IsEnded
<1> QED
  BY <1>1 DEF SoundTelling

LEMMA StartIsSound ==
    ASSUME NEW candidates, SoundList(candidates), ToldBy(answers.preflight, IdsIn(candidates)), NEW pool
    PROVE  SoundTelling(Start(candidates, pool))
<1>1. PICK f : f = Start(candidates, pool)
  OBVIOUS
<1>2. f.phase = "candidates" /\ f.taken = << >> /\ f.left = candidates
  BY <1>1 DEF Start
<1>3. IsList(candidates)
  BY DEF SoundList
<1>4. << >> \o candidates = candidates
  BY <1>3 DEF IsList
<1>5. CitedAbove(<< >>)
  BY EmptyList DEF CitedAbove
<1>6. /\ TellsOnce(candidates)
      /\ \A c \in IdsIn(candidates) : TellsContradictions(c) /\ c.section # "VALIDATION"
  BY DEF SoundList, SoundCandidate
<1>7. SoundTelling(f)
  BY <1>2, <1>4, <1>5, <1>6 DEF SoundTelling
<1> QED
  BY <1>1, <1>7

(* Whatever the budget, no failure is told twice by what is taken and what *)
(* may still be.                                                           *)
THEOREM TellingInvariant == CallSpec => []TellingInv
<1>1. CallInit => TellingInv
  BY DEF CallInit, CompilerInit, TellingInv, Idle
<1>2. ChoosingInv /\ FillInv /\ TellingInv /\ [CallNext]_callVars => TellingInv'
  <2> SUFFICES ASSUME ChoosingInv, FillInv, TellingInv, [CallNext]_callVars
               PROVE  TellingInv'
    OBVIOUS
  <2>1. AnswersInv
    BY DEF ChoosingInv, DocumentsInv
  <2>2. ASSUME task' = task, answers' = answers, NEW next, fill' = next,
               \A b \in Budgets :
                 /\ next[b].phase = "idle" => next[b].taken = << >>
                 /\ next[b].phase # "idle" => answers # NoAnswers /\ SoundTelling(next[b])
        PROVE  TellingInv'
    <3>1. \A b \in Budgets : next[b].phase # "idle" => SoundTelling(next[b])'
      BY <2>2, TellingKept
    <3> QED
      BY <2>2, <3>1 DEF TellingInv, NoAnswers
  <2>3. CASE Compile
    <3>1. PICK candidates, pool :
            /\ SoundList(candidates) /\ ToldBy(answers.preflight, IdsIn(candidates))
            /\ answers # NoAnswers
            /\ fill' = [b \in Budgets |-> Start(candidates, pool)]
      BY <2>3, CompileStarts
    <3>2. SoundTelling(Start(candidates, pool))
      BY <3>1, StartIsSound
    <3>3. PICK next : next = [b \in Budgets |-> Start(candidates, pool)]
      OBVIOUS
    <3>4. \A b \in Budgets : SoundTelling(next[b]) /\ next[b].phase # "idle"
      BY <3>2, <3>3 DEF Start
    <3>5. task' = task /\ answers' = answers
      BY <2>3 DEF Compile
    <3> QED
      BY <2>2, <3>1, <3>3, <3>4, <3>5
  <2>4. CASE Fill
    <3>1. PICK next : next = [b \in Budgets |-> Advanced(fill[b], b)] /\ fill' = next
      BY <2>4 DEF Fill, Advance
    <3>2. ASSUME NEW b \in Budgets
          PROVE  /\ next[b].phase = "idle" => next[b].taken = << >>
                 /\ next[b].phase # "idle" => fill[b].phase # "idle" /\ SoundTelling(next[b])
      <4>1. PICK f, g : f = fill[b] /\ g = Advanced(f, b) /\ next[b] = g
        BY <3>1
      <4>2. b \in Nat /\ IsFill(f)
        BY <4>1, ContextAssumption DEF FillInv, Measured
      <4>3. (f.phase # "idle" => SoundTelling(f)) /\ (f.phase = "idle" => f.taken = << >>)
        BY <4>1 DEF TellingInv
      <4>4. \/ g = f /\ f.phase \notin {"candidates", "validation"}
            \/ f.phase \in {"candidates", "validation"} /\ IsCut(f, g)
            \/ f.phase \in {"candidates", "validation"} /\ f.left # << >> /\ IsTaken(f, g)
            \/ f.phase = "candidates" /\ f.left = << >> /\ IsTurned(f, g)
            \/ f.phase = "validation" /\ f.left = << >> /\ IsEnded(f, g)
        BY <4>1, <4>2, AdvancedFacts
      <4>5. CASE g = f
        BY <4>1, <4>3, <4>5
      <4>6. CASE f.phase \in {"candidates", "validation"}
        <5>1. SoundTelling(f)
          BY <4>3, <4>6
        <5>2. SoundTelling(g)
          BY <2>1, <4>2, <4>4, <4>6, <5>1, CutIsSound, TakenIsSound, TurnedIsSound, EndedIsSound
        <5>3. g.phase # "idle"
          BY <4>4, <4>6 DEF IsCut, IsTaken, IsTurned, IsEnded
        <5> QED
          BY <4>1, <4>6, <5>2, <5>3
      <4> QED
        BY <4>4, <4>5, <4>6
    <3>3. task' = task /\ answers' = answers
      BY <2>4 DEF Fill
    <3>4. \A b \in Budgets : fill[b].phase # "idle" => answers # NoAnswers
      BY DEF TellingInv
    <3> QED
      BY <2>2, <3>1, <3>2, <3>3, <3>4
  <2>5. CASE fill' = fill /\ task' = task /\ answers' = answers
    <3>1. PICK next : next = fill
      OBVIOUS
    <3>2. \A b \in Budgets :
            /\ next[b].phase = "idle" => next[b].taken = << >>
            /\ next[b].phase # "idle" => answers # NoAnswers /\ SoundTelling(next[b])
      BY <3>1 DEF TellingInv
    <3> QED
      BY <2>2, <2>5, <3>1, <3>2
  <2>6. CASE Choose
    <3>1. answers = NoAnswers /\ fill' = fill
      BY <2>6 DEF Choose, Select
    <3>2. \A b \in Budgets : fill[b].phase = "idle"
      BY <3>1 DEF TellingInv
    <3> QED
      BY <3>1, <3>2 DEF TellingInv
  <2>7. ChunkStep \/ NextDocument \/ Sort \/ Consider \/ UNCHANGED callVars
          => fill' = fill /\ task' = task /\ answers' = answers
    BY DEF ChunkStep, NextDocument, Sort, Consider, callVars
  <2> QED
    BY <2>3, <2>4, <2>5, <2>6, <2>7 DEF CallNext
<1> QED
  BY <1>1, <1>2, ChoosingInvariant, FillInvariant, PTL DEF CallSpec

(* Each failure is told once at most, each check listed is cited above it, *)
(* nothing that preflight() shows is dropped unless the budget cuts it     *)
(* off, and no side of an open conflict is told without the other.         *)
THEOREM TellingHolds == CallSpec => []ToldOnce
<1>1. FillInv /\ TellingInv => ToldOnce
  <2> SUFFICES ASSUME FillInv, TellingInv, NEW b \in Budgets
               PROVE  /\ FailuresOnce(fill[b]) /\ ChecksCited(fill[b])
                      /\ NothingDropped(fill[b]) /\ ContradictionsTold(fill[b])
    BY DEF ToldOnce
  <2>1. PICK f : f = fill[b]
    OBVIOUS
  <2>2. IsFill(f)
    BY <2>1 DEF FillInv, Measured
  <2>3. (f.phase # "idle" => SoundTelling(f)) /\ (f.phase = "idle" => f.taken = << >>)
    BY <2>1 DEF TellingInv
  <2>4. CASE f.taken = << >> /\ f.phase = "idle"
    <3>1. DOMAIN f.taken = {}
      BY <2>4, EmptyList
    <3>2. \A a : TellingOf(f, a) = {}
      BY <3>1 DEF TellingOf
    <3>3. FailuresOnce(f)
      BY <3>2, FS_EmptySet DEF FailuresOnce
    <3>4. ChecksCited(f) /\ ContradictionsTold(f)
      BY <3>1 DEF ChecksCited, ContradictionsTold
    <3>5. NothingDropped(f)
      BY <2>4 DEF NothingDropped
    <3> QED
      BY <2>1, <3>3, <3>4, <3>5
  <2>5. CASE f.phase # "idle"
    <3>1. IsList(f.taken) /\ IsList(f.left)
      BY <2>2 DEF IsFill
    <3>2. TellsOnce(f.taken)
      BY <2>3, <2>5, <3>1, FewerAreTold DEF SoundTelling
    <3>3. ASSUME NEW a \in IdsIn(Attempts)
          PROVE  Cardinality(TellingOf(f, a)) <= 1
      <4>1. PICK T : T = TellingOf(f, a)
        OBVIOUS
      <4>2. \A m, n \in T : m = n
        BY <3>2, <3>3, <4>1 DEF TellingOf, TellsOnce, Tells
      <4>3. CASE T = {}
        BY <4>1, <4>3, FS_EmptySet
      <4>4. CASE T # {}
        <5>1. PICK m : T = {m}
          BY <4>2, <4>4
        <5>2. Cardinality({m}) = 1
          BY FS_Singleton
        <5> QED
          BY <4>1, <5>1, <5>2
      <4> QED
        BY <4>3, <4>4
    <3>4. FailuresOnce(f)
      BY <3>3 DEF FailuresOnce
    <3>5. ChecksCited(f)
      BY <2>3, <2>5 DEF ChecksCited, SoundTelling, CitedAbove
    <3>6. ContradictionsTold(f)
      <4>1. IdsIn(f.taken) \subseteq IdsIn(f.taken \o f.left)
        BY <3>1, ListFacts
      <4>2. \A n \in DOMAIN f.taken : f.taken[n] \in IdsIn(f.taken)
        BY DEF IdsIn
      <4>3. \A n \in DOMAIN f.taken : TellsContradictions(f.taken[n])
        BY <2>3, <2>5, <4>1, <4>2 DEF SoundTelling
      <4> QED
        BY <4>3 DEF ContradictionsTold, TellsContradictions
    <3>7. ASSUME f.phase = "done"
          PROVE  NothingDropped(f)
      <4>1. f.taken \o f.left = f.taken
        BY <2>3, <2>5, <3>1, <3>7, NothingMore DEF SoundTelling
      <4>2. ToldBy(answers.preflight, IdsIn(f.taken))
        BY <2>3, <2>5, <3>7, <4>1 DEF SoundTelling
      <4>3. \A c \in IdsIn(f.taken) : \E n \in DOMAIN f.taken : f.taken[n] = c
        BY DEF IdsIn
      <4>4. \A shown \in {"root_causes", "verified_lessons", "pending"} :
              IdsIn(answers.preflight[shown]) \subseteq Items(f)
        BY <4>2, <4>3 DEF ToldBy, Items
      <4>5. \A n \in DOMAIN answers.preflight.known_failures :
              TellingOf(f, answers.preflight.known_failures[n]) # {}
        <5>1. \A a \in IdsIn(answers.preflight.known_failures) : \E n \in DOMAIN f.taken : Tells(f.taken[n], a)
          BY <4>2, <4>3 DEF ToldBy
        <5>2. \A a \in IdsIn(answers.preflight.known_failures) : TellingOf(f, a) # {}
          BY <5>1 DEF TellingOf, Tells
        <5> QED
          BY <5>2 DEF IdsIn
      <4> QED
        BY <4>4, <4>5 DEF NothingDropped
    <3>8. NothingDropped(f)
      BY <3>7 DEF NothingDropped
    <3> QED
      BY <2>1, <3>4, <3>5, <3>6, <3>8
  <2> QED
    BY <2>3, <2>4, <2>5
<1> QED
  BY <1>1, FillInvariant, TellingInvariant, PTL
=============================================================================
