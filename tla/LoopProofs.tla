----------------------------- MODULE LoopProofs -----------------------------
(* Induction over numbers and sequences, and what a loop with append keeps of
   any sequence.  Induction is stated with sets, as a set that holds 0 and with
   every number the next one: the provers find the set to cite it with.      *)
EXTENDS Loops, Integers, FiniteSets, FiniteSetTheorems, SequenceTheorems,
        WellFoundedInduction, TLAPS

-----------------------------------------------------------------------------
(* Induction. *)

LEMMA LeastNumber ==
    ASSUME NEW T, T \subseteq Nat, T # {}
    PROVE  \E m \in T : \A n \in T : m <= n
<1> DEFINE R == OpToRel(<, Nat)
<1>1. IsWellFoundedOn(R, Nat)
  BY NatLessThanWellFounded
<1>2. \A i, j \in Nat : i < j => <<i, j>> \in R
  BY DEF OpToRel
<1> HIDE DEF R
<1>3. PICK m \in T : \A n \in T : <<n, m>> \notin R
  BY <1>1, WFMin
<1>4. ASSUME NEW n \in T
      PROVE  m <= n
  <2>1. m \in Nat /\ n \in Nat /\ ~(n < m)
    BY <1>2, <1>3
  <2> QED
    BY <2>1
<1> QED
  BY <1>4

LEMMA NumbersByInduction ==
    ASSUME NEW T, T \subseteq Nat, 0 \in T, \A n \in T : n + 1 \in T
    PROVE  T = Nat
<1> SUFFICES ASSUME Nat \ T # {}
             PROVE  FALSE
  OBVIOUS
<1>1. PICK n \in Nat \ T : \A m \in Nat \ T : n <= m
  BY LeastNumber
<1>2. n - 1 \in Nat /\ (n - 1) + 1 = n /\ ~(n <= n - 1)
  OBVIOUS
<1>3. n - 1 \in T
  BY <1>1, <1>2
<1> QED
  BY <1>2, <1>3

LEMMA SequencesByInduction ==
    ASSUME NEW S, NEW T, T \subseteq Seq(S), <<>> \in T,
           \A s \in T, e \in S : Append(s, e) \in T
    PROVE  T = Seq(S)
<1> DEFINE L == {n \in Nat : \A s \in Seq(S) : Len(s) = n => s \in T}
<1>1. 0 \in L
  OBVIOUS
<1>2. ASSUME NEW n \in L
      PROVE  n + 1 \in L
  <2>1. SUFFICES ASSUME NEW s \in Seq(S), Len(s) = n + 1
                 PROVE  s \in T
    OBVIOUS
  <2>2. n \in Nat /\ s # <<>>
    BY <2>1
  <2>3. PICK front \in Seq(S), e \in S : s = Append(front, e)
    BY <2>2, SequenceEmptyOrAppend
  <2>4. Len(front) = n
    BY <2>1, <2>2, <2>3, AppendProperties
  <2> QED
    BY <2>3, <2>4
<1> HIDE DEF L
<1>3. L = Nat
  BY <1>1, <1>2, NumbersByInduction DEF L
<1>4. \A s \in Seq(S) : Len(s) \in L
  BY <1>3
<1> QED
  BY <1>4 DEF L

-----------------------------------------------------------------------------
(* The loop behind Keep. *)

(* f is what the loop over s has kept after each of its first n rounds. *)
Loop(f, s, n, wanted) ==
    f = [i \in 0..n |-> IF i = 0 THEN <<>>
                       ELSE IF s[i] \in wanted THEN Append(f[i - 1], s[i]) ELSE f[i - 1]]

LEMMA LoopExists ==
    ASSUME NEW s, NEW wanted, NEW m \in Nat
    PROVE  \E f : Loop(f, s, m, wanted)
<1> DEFINE T == {n \in Nat : \E f : Loop(f, s, n, wanted)}
<1>1. 0 \in T
  <2>1. Loop([i \in 0..0 |-> <<>>], s, 0, wanted)
    BY DEF Loop
  <2> QED
    BY <2>1
<1>2. ASSUME NEW n \in T
      PROVE  n + 1 \in T
  <2>1. PICK f : Loop(f, s, n, wanted)
    OBVIOUS
  <2> DEFINE last == IF s[n + 1] \in wanted THEN Append(f[n], s[n + 1]) ELSE f[n]
             g    == [i \in 0..(n + 1) |-> IF i = n + 1 THEN last ELSE f[i]]
  <2>2. n \in Nat /\ g[n + 1] = last /\ \A i \in 0..n : g[i] = f[i]
    OBVIOUS
  <2>3. \A i \in 0..n : f[i] = IF i = 0 THEN <<>>
                               ELSE IF s[i] \in wanted THEN Append(f[i - 1], s[i]) ELSE f[i - 1]
    BY <2>1 DEF Loop
  <2>4. \A i \in 0..(n + 1) :
           g[i] = IF i = 0 THEN <<>>
                  ELSE IF s[i] \in wanted THEN Append(g[i - 1], s[i]) ELSE g[i - 1]
    <3> TAKE i \in 0..(n + 1)
    <3>1. CASE i = n + 1
      BY <2>2, <3>1
    <3>2. CASE i \in 0..n
      BY <2>2, <2>3, <3>2
    <3> QED
      BY <2>2, <3>1, <3>2
  <2>5. Loop(g, s, n + 1, wanted)
    <3>1. g = [i \in 0..(n + 1) |-> g[i]]
      OBVIOUS
    <3> HIDE DEF g
    <3> QED
      BY <2>4, <3>1 DEF Loop
  <2> QED
    BY <2>2, <2>5
<1> HIDE DEF T
<1>3. T = Nat
  BY <1>1, <1>2, NumbersByInduction DEF T
<1> QED
  BY <1>3 DEF T

LEMMA LoopUnique ==
    ASSUME NEW s, NEW t, NEW wanted, NEW m \in Nat, NEW n \in Nat,
           NEW f, Loop(f, s, m, wanted), NEW g, Loop(g, t, n, wanted),
           NEW k \in Nat, k <= m, k <= n, \A i \in 1..k : s[i] = t[i]
    PROVE  f[k] = g[k]
<1> DEFINE T == {i \in Nat : i <= k => f[i] = g[i]}
<1>1. /\ \A i \in 0..m : f[i] = IF i = 0 THEN <<>>
                               ELSE IF s[i] \in wanted THEN Append(f[i - 1], s[i]) ELSE f[i - 1]
      /\ \A i \in 0..n : g[i] = IF i = 0 THEN <<>>
                               ELSE IF t[i] \in wanted THEN Append(g[i - 1], t[i]) ELSE g[i - 1]
  BY DEF Loop
<1>2. 0 \in T
  BY <1>1
<1>3. ASSUME NEW i \in T
      PROVE  i + 1 \in T
  <2>1. SUFFICES ASSUME i + 1 <= k
                 PROVE  f[i + 1] = g[i + 1]
    OBVIOUS
  <2>2. i \in Nat /\ f[i] = g[i] /\ s[i + 1] = t[i + 1] /\ i + 1 \in 0..m /\ i + 1 \in 0..n
    BY <2>1
  <2>3. i + 1 # 0 /\ (i + 1) - 1 = i
    BY <2>2
  <2> QED
    BY <1>1, <2>2, <2>3
<1> HIDE DEF T
<1>4. T = Nat
  BY <1>2, <1>3, NumbersByInduction DEF T
<1> QED
  BY <1>4 DEF T

LEMMA KeepIsLoop ==
    ASSUME NEW s, NEW wanted, Len(s) \in Nat
    PROVE  \E f : Loop(f, s, Len(s), wanted) /\ Keep(s, wanted) = f[Len(s)]
<1>1. PICK g : Loop(g, s, Len(s), wanted)
  BY LoopExists
<1> QED
  BY <1>1 DEF Keep, Loop

(* The two equations that determine Keep. *)
LEMMA KeepEmpty ==
    ASSUME NEW wanted
    PROVE  Keep(<<>>, wanted) = <<>>
<1>1. Len(<<>>) = 0
  OBVIOUS
<1>2. PICK f : Loop(f, <<>>, 0, wanted) /\ Keep(<<>>, wanted) = f[0]
  BY <1>1, KeepIsLoop
<1>3. 0 \in 0..0
  OBVIOUS
<1> QED
  BY <1>2, <1>3 DEF Loop

LEMMA KeepAppend ==
    ASSUME NEW S, NEW s \in Seq(S), NEW e \in S, NEW wanted
    PROVE  Keep(Append(s, e), wanted) =
              IF e \in wanted THEN Append(Keep(s, wanted), e) ELSE Keep(s, wanted)
<1> DEFINE t == Append(s, e)
<1>1. /\ Len(s) \in Nat /\ Len(t) = Len(s) + 1 /\ t[Len(s) + 1] = e
      /\ \A i \in 1..Len(s) : s[i] = t[i]
  OBVIOUS
<1> HIDE DEF t
<1>2. PICK f : Loop(f, s, Len(s), wanted) /\ Keep(s, wanted) = f[Len(s)]
  BY <1>1, KeepIsLoop
<1>3. PICK g : Loop(g, t, Len(s) + 1, wanted) /\ Keep(t, wanted) = g[Len(s) + 1]
  BY <1>1, KeepIsLoop
<1>4. f[Len(s)] = g[Len(s)]
  <2> DEFINE k == Len(s)
             n == Len(s) + 1
  <2>1. k \in Nat /\ n \in Nat /\ k <= k /\ k <= n /\ \A i \in 1..k : s[i] = t[i]
    BY <1>1
  <2>2. Loop(f, s, k, wanted) /\ Loop(g, t, n, wanted)
    BY <1>2, <1>3
  <2> HIDE DEF k, n
  <2>3. f[k] = g[k]
    BY ONLY <2>1, <2>2, LoopUnique
  <2> QED
    BY <2>3 DEF k
<1>5. g[Len(s) + 1] = IF t[Len(s) + 1] \in wanted THEN Append(g[Len(s)], t[Len(s) + 1])
                      ELSE g[Len(s)]
  <2>1. Len(s) + 1 \in 0..(Len(s) + 1) /\ Len(s) + 1 # 0 /\ (Len(s) + 1) - 1 = Len(s)
    BY <1>1
  <2> QED
    BY <1>3, <2>1 DEF Loop
<1> QED
  BY <1>1, <1>2, <1>3, <1>4, <1>5 DEF t

LEMMA KeepType ==
    ASSUME NEW S, NEW s \in Seq(S), NEW wanted
    PROVE  Keep(s, wanted) \in Seq(S)
<1> DEFINE T == {q \in Seq(S) : Keep(q, wanted) \in Seq(S)}
<1>1. <<>> \in T
  <2>1. <<>> \in Seq(S)
    OBVIOUS
  <2> QED
    BY <2>1, KeepEmpty
<1>2. ASSUME NEW q \in T, NEW e \in S
      PROVE  Append(q, e) \in T
  <2>1. q \in Seq(S) /\ Keep(q, wanted) \in Seq(S)
    OBVIOUS
  <2>2. Append(q, e) \in Seq(S) /\ Append(Keep(q, wanted), e) \in Seq(S)
    BY <2>1, AppendProperties
  <2>3. Keep(Append(q, e), wanted) \in Seq(S)
    BY <2>1, <2>2, KeepAppend
  <2> QED
    BY <2>2, <2>3
<1> HIDE DEF T
<1>3. T = Seq(S)
  BY <1>1, <1>2, SequencesByInduction DEF T
<1> QED
  BY <1>3 DEF T

-----------------------------------------------------------------------------
(* What is kept is all there is to keep, in its order. *)

(* What Keep keeps stands in s at these places, and at is their order. *)
Places(s, wanted) == {n \in DOMAIN s : s[n] \in wanted}
Order(at, s, wanted) ==
    /\ at \in [DOMAIN Keep(s, wanted) -> Places(s, wanted)]
    /\ \A n \in DOMAIN at : Keep(s, wanted)[n] = s[at[n]]
    /\ \A m, n \in DOMAIN at : m < n => at[m] < at[n]

LEMMA OrderGrows ==
    ASSUME NEW S, NEW s \in Seq(S), NEW e \in S, NEW wanted, e \in wanted,
           NEW at, Order(at, s, wanted)
    PROVE  \E longer : Order(longer, Append(s, e), wanted)
<1> DEFINE kept   == Keep(s, wanted)
           last   == Len(kept) + 1
           place  == Len(s) + 1
           longer == [n \in 1..last |-> IF n = last THEN place ELSE at[n]]
           t      == Append(s, e)
           more   == Append(kept, e)
<1>1. kept \in Seq(S) /\ Len(kept) \in Nat /\ DOMAIN kept = 1..Len(kept)
      /\ Len(s) \in Nat /\ DOMAIN s = 1..Len(s)
  BY KeepType, LenProperties
<1>2. /\ DOMAIN t = 1..place /\ t[place] = e /\ \A n \in 1..Len(s) : t[n] = s[n]
      /\ DOMAIN more = 1..last /\ more[last] = e /\ \A n \in 1..Len(kept) : more[n] = kept[n]
  BY <1>1, AppendProperties, LenProperties
<1>3. Keep(t, wanted) = more
  BY KeepAppend
<1>4. Places(t, wanted) = Places(s, wanted) \cup {place} /\ Places(s, wanted) \subseteq 1..Len(s)
  BY <1>1, <1>2 DEF Places
<1>5. /\ DOMAIN at = 1..Len(kept) /\ \A n \in 1..Len(kept) : at[n] \in Places(s, wanted)
      /\ \A n \in 1..Len(kept) : kept[n] = s[at[n]]
      /\ \A m, n \in 1..Len(kept) : m < n => at[m] < at[n]
  BY <1>1 DEF Order
<1>6. /\ DOMAIN longer = 1..last /\ longer[last] = place
      /\ \A n \in 1..Len(kept) : longer[n] = at[n]
  <2> HIDE DEF kept
  <2>1. last \in 1..last /\ \A n \in 1..Len(kept) : n \in 1..last /\ n # last
    BY <1>1
  <2> QED
    BY <2>1
<1>7. \A n \in 1..last : n = last \/ n \in 1..Len(kept)
  BY <1>1
<1> HIDE DEF longer, t, more, kept
<1>8. longer \in [1..last -> Places(t, wanted)]
  <2>1. \A n \in 1..last : longer[n] \in Places(t, wanted)
    BY <1>4, <1>5, <1>6, <1>7
  <2>2. longer = [n \in 1..last |-> longer[n]]
    BY DEF longer
  <2> QED
    BY <2>1, <2>2
<1>9. \A n \in 1..last : more[n] = t[longer[n]]
  BY <1>2, <1>4, <1>5, <1>6, <1>7
<1>10. \A m, n \in 1..last : m < n => longer[m] < longer[n]
  <2> SUFFICES ASSUME NEW m \in 1..last, NEW n \in 1..last, m < n
               PROVE  longer[m] < longer[n]
    OBVIOUS
  <2>1. m \in 1..Len(kept)
    BY <1>1
  <2>2. CASE n = last
    BY <1>1, <1>4, <1>5, <1>6, <2>1, <2>2
  <2>3. CASE n \in 1..Len(kept)
    BY <1>5, <1>6, <2>1, <2>3
  <2> QED
    BY <1>7, <2>2, <2>3
<1>11. Order(longer, t, wanted)
  BY <1>2, <1>3, <1>6, <1>8, <1>9, <1>10 DEF Order
<1> QED
  BY <1>11 DEF t

LEMMA KeepsInOrder ==
    ASSUME NEW S, NEW items \in Seq(S), NEW wanted
    PROVE  /\ Len(Keep(items, wanted)) = Cardinality(Places(items, wanted))
           /\ \E at : Order(at, items, wanted)
<1> DEFINE T == {s \in Seq(S) : /\ Len(Keep(s, wanted)) = Cardinality(Places(s, wanted))
                               /\ \E at : Order(at, s, wanted)}
<1>1. <<>> \in T
  <2>1. /\ <<>> \in Seq(S) /\ Len(<<>>) = 0 /\ DOMAIN <<>> = {}
        /\ <<>> \in [{} -> {}]
    OBVIOUS
  <2>2. Places(<<>>, wanted) = {} /\ Cardinality({}) = 0
    BY <2>1, FS_EmptySet DEF Places
  <2>3. Order(<<>>, <<>>, wanted)
    BY <2>1, <2>2, KeepEmpty DEF Order
  <2> QED
    BY <2>1, <2>2, <2>3, KeepEmpty
<1>2. ASSUME NEW s \in T, NEW e \in S
      PROVE  Append(s, e) \in T
  <2> DEFINE t == Append(s, e)
  <2>1. s \in Seq(S) /\ Len(Keep(s, wanted)) = Cardinality(Places(s, wanted))
    OBVIOUS
  <2>2. PICK at : Order(at, s, wanted)
    OBVIOUS
  <2>3. /\ t \in Seq(S) /\ Len(s) \in Nat /\ DOMAIN s = 1..Len(s) /\ DOMAIN t = 1..(Len(s) + 1)
        /\ t[Len(s) + 1] = e /\ \A n \in 1..Len(s) : t[n] = s[n]
    BY <2>1, AppendProperties, LenProperties
  <2> HIDE DEF T, t
  <2>4. Len(Keep(t, wanted)) = Cardinality(Places(t, wanted)) /\ \E at1 : Order(at1, t, wanted)
    <3>1. CASE e \in wanted
      <4>1. Keep(t, wanted) = Append(Keep(s, wanted), e)
        BY <2>1, <3>1, KeepAppend DEF t
      <4>2. Len(Keep(t, wanted)) = Len(Keep(s, wanted)) + 1
        BY <2>1, <4>1, KeepType, AppendProperties
      <4>3. /\ Places(t, wanted) = Places(s, wanted) \cup {Len(s) + 1}
            /\ Len(s) + 1 \notin Places(s, wanted) /\ Places(s, wanted) \in SUBSET (1..Len(s))
        BY <2>3, <3>1 DEF Places
      <4>4. IsFiniteSet(Places(s, wanted))
        <5>1. 0 \in Int /\ 1 \in Int /\ Len(s) \in Int
          BY <2>3
        <5>2. IsFiniteSet(1..Len(s))
          BY <5>1, FS_Interval
        <5> QED
          BY <4>3, <5>2, FS_Subset
      <4>5. Cardinality(Places(t, wanted)) = Cardinality(Places(s, wanted)) + 1
        BY <4>3, <4>4, FS_AddElement
      <4>6. \E at1 : Order(at1, t, wanted)
        BY <2>1, <2>2, <3>1, OrderGrows DEF t
      <4> QED
        BY <2>1, <4>2, <4>5, <4>6
    <3>2. CASE e \notin wanted
      <4>1. Keep(t, wanted) = Keep(s, wanted)
        BY <2>1, <3>2, KeepAppend DEF t
      <4>2. Places(t, wanted) = Places(s, wanted) /\ Places(s, wanted) \subseteq 1..Len(s)
        BY <2>3, <3>2 DEF Places
      <4>3. Order(at, t, wanted)
        BY <2>2, <2>3, <4>1, <4>2 DEF Order
      <4> QED
        BY <2>1, <4>1, <4>2, <4>3
    <3> QED
      BY <3>1, <3>2
  <2> QED
    BY <2>3, <2>4 DEF T, t
<1> HIDE DEF T
<1>3. T = Seq(S)
  BY <1>1, <1>2, SequencesByInduction DEF T
<1> QED
  BY <1>3 DEF T
=============================================================================
