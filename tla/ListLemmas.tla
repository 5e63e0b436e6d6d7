----------------------------- MODULE ListLemmas -----------------------------
(***************************************************************************)
(* Facts about lists, and induction over numbers and finite sets, that do  *)
(* not depend on any model.                                                *)
(***************************************************************************)
EXTENDS Naturals, Sequences, FiniteSets, SequencesExt, SequenceTheorems,
        FiniteSetTheorems, WellFoundedInduction, TLAPS

-----------------------------------------------------------------------------
(* Induction.                                                              *)

(* A non-empty set of subsets of a finite set has a minimal element.       *)
LEMMA MinimalSubset ==
  ASSUME NEW S, IsFiniteSet(S), NEW F \in SUBSET SUBSET S, F # {}
  PROVE  \E x \in F : \A y \in F : y \subseteq x => y = x
  <1>1. IsWellFoundedOn(StrictSubsetOrdering(S), SUBSET S)
    BY FS_StrictSubsetOrderingWellFounded, FS_FiniteSubsetsOfFinite, Zenon
  <1>2. PICK x \in F : \A y \in F : ~ (<<y, x>> \in StrictSubsetOrdering(S))
    BY <1>1, WFMin, Zenon
  <1>3. ASSUME NEW y \in F, y \subseteq x
        PROVE  y = x
    <2>1. <<y, x>> \in (SUBSET S) \X (SUBSET S)
      OBVIOUS
    <2>2. QED
      BY <1>2, <1>3, <2>1, SMT DEF StrictSubsetOrdering
  <1>4. QED
    BY <1>3

(* What holds of 0 and passes on to the next number holds up to n.         *)
LEMMA IntervalInduction ==
  ASSUME NEW n \in Nat, NEW G, 0 \in G,
         \A i \in 1 .. n : i - 1 \in G => i \in G
  PROVE  0 .. n \subseteq G
  <1> SUFFICES ASSUME ~ (0 .. n \subseteq G) PROVE FALSE
    OBVIOUS
  <1> DEFINE N == 0 .. n
             F == {0 .. k : k \in N \ G}
  <1>1. IsFiniteSet(N) /\ F \in SUBSET SUBSET N /\ F # {}
    <2>1. IsFiniteSet(N)
      BY FS_Interval
    <2>2. \A k \in N : 0 .. k \subseteq N
      OBVIOUS
    <2>3. F # {}
      OBVIOUS
    <2>4. QED
      BY <2>1, <2>2, <2>3
  <1>2. PICK x \in F : \A y \in F : y \subseteq x => y = x
    <2> HIDE DEF F, N
    <2> QED
      BY <1>1, MinimalSubset
  <1>3. PICK k \in N \ G : x = 0 .. k
    BY <1>2
  <1>4. k \in 1 .. n /\ k - 1 \in N /\ k - 1 \notin G
    BY <1>3
  <1>5. 0 .. (k - 1) \in F /\ 0 .. (k - 1) \subseteq 0 .. k /\ 0 .. (k - 1) # 0 .. k
    BY <1>4, SMT
  <1>6. QED
    BY <1>2, <1>3, <1>5

(* A non-empty set of numbers has a least one.                             *)
LEMMA LeastNumber ==
  ASSUME NEW S \in SUBSET Nat, S # {}
  PROVE  \E v \in S : \A w \in S : v <= w
  <1>1. PICK m \in S : TRUE
    OBVIOUS
  <1> SUFFICES ASSUME \A v \in S : \E w \in S : w < v PROVE FALSE
    BY SMT
  <1> DEFINE G == {k \in 0 .. m : \A v \in S : v > k}
  <1>2. 0 \in G
    BY <1>1, SMT
  <1>3. ASSUME NEW k \in 1 .. m, k - 1 \in G
        PROVE  k \in G
    BY <1>3, SMT
  <1> HIDE DEF G
  <1>4. 0 .. m \subseteq G /\ m \in 0 .. m
    BY <1>1, <1>2, <1>3, IntervalInduction
  <1>5. QED
    BY <1>1, <1>4 DEF G

-----------------------------------------------------------------------------
(* Lists that grow.                                                        *)

IsList(s) == s \in Seq(ToSet(s))
Distinct(s) == \A i, j \in DOMAIN s : s[i] = s[j] => i = j

LEMMA EmptyList == IsList(<<>>) /\ ToSet(<<>>) = {} /\ Distinct(<<>>)
  BY SMT DEF IsList, ToSet, Distinct

LEMMA TypedList ==
  ASSUME NEW S, NEW s \in Seq(S)
  PROVE  IsList(s) /\ ToSet(s) \subseteq S /\ (\A i \in 1 .. Len(s) : s[i] \in ToSet(s))
  <1>1. ToSet(s) \subseteq S /\ \A i \in 1 .. Len(s) : s[i] \in ToSet(s)
    BY SMT DEF ToSet
  <1>2. QED
    BY <1>1, SMT DEF IsList

LEMMA AppendedList ==
  ASSUME NEW s, IsList(s), NEW e
  PROVE  /\ IsList(Append(s, e))
         /\ ToSet(Append(s, e)) = ToSet(s) \cup {e}
         /\ Len(Append(s, e)) = Len(s) + 1
         /\ Distinct(s) /\ e \notin ToSet(s) => Distinct(Append(s, e))
  <1> DEFINE T == ToSet(s) \cup {e}
  <1>1. s \in Seq(T) /\ e \in T
    BY SMT DEF IsList
  <1>2. Append(s, e) \in Seq(T) /\ Len(Append(s, e)) = Len(s) + 1
    BY <1>1, SMT
  <1>3. \A i \in 1 .. Len(s) : Append(s, e)[i] = s[i]
    BY <1>1, SMT
  <1>4. Append(s, e)[Len(s) + 1] = e
    BY <1>1, SMT
  <1>5. ToSet(Append(s, e)) = T
    BY <1>1, <1>2, <1>3, <1>4, SMTT(30) DEF ToSet
  <1>6. Distinct(s) /\ e \notin ToSet(s) => Distinct(Append(s, e))
    <2>1. \A i \in 1 .. Len(s) : s[i] \in ToSet(s)
      BY <1>1, SMT DEF ToSet
    <2>2. DOMAIN s = 1 .. Len(s) /\ DOMAIN Append(s, e) = 1 .. Len(s) + 1
      BY <1>1, <1>2, SMT
    <2>3. QED
      BY <1>1, <1>3, <1>4, <2>1, <2>2, SMTT(30) DEF Distinct
  <1>7. QED
    BY <1>2, <1>5, <1>6 DEF IsList

LEMMA ListElements ==
  ASSUME NEW S, NEW s \in Seq(S)
  PROVE  Len(s) \in Nat /\ DOMAIN s = 1 .. Len(s) /\ ToSet(s) = {s[i] : i \in 1 .. Len(s)}
  BY SMT DEF ToSet

LEMMA TailedList ==
  ASSUME NEW S, NEW s \in Seq(S), s # <<>>
  PROVE  /\ Head(s) \in ToSet(s) /\ Tail(s) \in Seq(S)
         /\ ToSet(s) = {Head(s)} \cup ToSet(Tail(s))
         /\ Distinct(s) => Distinct(Tail(s)) /\ Head(s) \notin ToSet(Tail(s))
  <1> DEFINE t == Tail(s)
  <1>1. t \in Seq(S) /\ Len(t) = Len(s) - 1 /\ Len(s) \in Nat /\ Len(s) > 0
    BY HeadTailProperties, SMT
  <1>2. \A i \in 1 .. Len(s) - 1 : t[i] = s[i + 1]
    BY <1>1, HeadTailProperties, SMT
  <1>3. Head(s) = s[1]
    BY SMT
  <1> HIDE DEF t
  <1>4. ToSet(s) = {s[i] : i \in 1 .. Len(s)} /\ ToSet(t) = {t[i] : i \in 1 .. Len(s) - 1}
    BY <1>1, ListElements, Zenon
  <1>5. DOMAIN s = 1 .. Len(s) /\ DOMAIN t = 1 .. Len(s) - 1
    BY <1>1, ListElements, Zenon
  <1>6. Head(s) \in ToSet(s) /\ ToSet(t) \subseteq ToSet(s)
    BY <1>1, <1>2, <1>3, <1>4, SMT
  <1>7. ASSUME NEW i \in 1 .. Len(s), i # 1
        PROVE  s[i] \in ToSet(t)
    <2>1. i - 1 \in 1 .. Len(s) - 1 /\ t[i - 1] = s[i]
      BY <1>1, <1>2, <1>7, SMT
    <2>2. QED
      BY <1>4, <2>1, Zenon
  <1>8. ToSet(s) = {Head(s)} \cup ToSet(t)
    BY <1>3, <1>4, <1>6, <1>7, Zenon
  <1>9. Distinct(s) => Distinct(t) /\ Head(s) \notin ToSet(t)
    <2> SUFFICES ASSUME Distinct(s) PROVE Distinct(t) /\ Head(s) \notin ToSet(t)
      OBVIOUS
    <2>1. \A i \in 1 .. Len(s) - 1 : i + 1 \in 1 .. Len(s) /\ i + 1 # 1
      BY <1>1
    <2>2. ASSUME NEW i \in 1 .. Len(s) - 1, NEW j \in 1 .. Len(s) - 1, t[i] = t[j]
          PROVE  i = j
      <3>1. s[i + 1] = s[j + 1]
        BY <1>2, <2>2, Zenon
      <3>2. i + 1 = j + 1
        BY <1>5, <2>1, <3>1, Zenon DEF Distinct
      <3>3. QED
        BY <1>1, <3>2, SMT
    <2>3. \A i \in 1 .. Len(s) - 1 : t[i] # Head(s)
      BY <1>1, <1>2, <1>3, <1>5, <2>1, SMTT(30) DEF Distinct
    <2>4. QED
      BY <2>2, <2>3, <1>4, <1>5, Zenon DEF Distinct
  <1>10. QED
    BY <1>1, <1>6, <1>8, <1>9 DEF t

LEMMA JoinedList ==
  ASSUME NEW S, NEW s \in Seq(S), NEW t \in Seq(S)
  PROVE  /\ s \o t \in Seq(S)
         /\ ToSet(s \o t) = ToSet(s) \cup ToSet(t)
         /\ Distinct(s) /\ Distinct(t) /\ ToSet(s) \cap ToSet(t) = {} => Distinct(s \o t)
  <1> DEFINE u == s \o t
  <1>1. u \in Seq(S) /\ Len(u) = Len(s) + Len(t) /\ Len(s) \in Nat /\ Len(t) \in Nat
    BY ConcatProperties, SMT
  <1>2. \A i \in 1 .. Len(s) : u[i] = s[i]
    BY <1>1, ConcatProperties, SMT
  <1>3. \A i \in Len(s) + 1 .. Len(s) + Len(t) : u[i] = t[i - Len(s)]
    BY <1>1, ConcatProperties, SMT
  <1> HIDE DEF u
  <1>4. /\ ToSet(s) = {s[i] : i \in 1 .. Len(s)} /\ ToSet(t) = {t[i] : i \in 1 .. Len(t)}
        /\ ToSet(u) = {u[i] : i \in 1 .. Len(s) + Len(t)}
    BY <1>1, ListElements, Zenon
  <1>5. /\ DOMAIN s = 1 .. Len(s) /\ DOMAIN t = 1 .. Len(t)
        /\ DOMAIN u = 1 .. Len(s) + Len(t)
    BY <1>1, ListElements, Zenon
  <1>6. ASSUME NEW i \in 1 .. Len(t)
        PROVE  i + Len(s) \in 1 .. Len(s) + Len(t) /\ u[i + Len(s)] = t[i]
    BY <1>1, <1>3, SMTT(30)
  <1>7. ToSet(t) \subseteq ToSet(u)
    BY <1>4, <1>6, Zenon
  <1>8. ToSet(s) \subseteq ToSet(u)
    BY <1>1, <1>2, <1>4, SMT
  <1>9. ASSUME NEW i \in 1 .. Len(s) + Len(t)
        PROVE  u[i] \in ToSet(s) \cup ToSet(t)
    <2>1. CASE i <= Len(s)
      BY <1>1, <1>2, <1>4, <2>1, SMT
    <2>2. CASE i > Len(s)
      <3>1. i - Len(s) \in 1 .. Len(t) /\ u[i] = t[i - Len(s)]
        BY <1>1, <1>3, <2>2, SMT
      <3>2. QED
        BY <1>4, <3>1, Zenon
    <2>3. QED
      BY <1>1, <2>1, <2>2, SMT
  <1>10. ToSet(u) = ToSet(s) \cup ToSet(t)
    BY <1>4, <1>7, <1>8, <1>9, Zenon
  <1>11. ASSUME Distinct(s), Distinct(t), ToSet(s) \cap ToSet(t) = {},
                NEW i \in DOMAIN u, NEW j \in DOMAIN u, u[i] = u[j]
         PROVE  i = j
    <2>1. CASE i <= Len(s) /\ j <= Len(s)
      BY <1>1, <1>2, <1>5, <1>11, <2>1, SMT DEF Distinct
    <2>2. CASE i > Len(s) /\ j > Len(s)
      <3>1. /\ i - Len(s) \in 1 .. Len(t) /\ j - Len(s) \in 1 .. Len(t)
            /\ u[i] = t[i - Len(s)] /\ u[j] = t[j - Len(s)]
        BY <1>1, <1>3, <1>5, <2>2, SMT
      <3>2. i - Len(s) = j - Len(s)
        BY <1>5, <1>11, <3>1, Zenon DEF Distinct
      <3>3. QED
        BY <1>1, <1>5, <3>2, SMT
    <2>3. CASE i <= Len(s) /\ j > Len(s)
      <3>1. u[i] = s[i] /\ i \in 1 .. Len(s) /\ u[j] = t[j - Len(s)] /\ j - Len(s) \in 1 .. Len(t)
        BY <1>1, <1>2, <1>3, <1>5, <2>3, SMT
      <3>2. QED
        BY <1>4, <1>11, <3>1, Zenon
    <2>4. CASE i > Len(s) /\ j <= Len(s)
      <3>1. u[j] = s[j] /\ j \in 1 .. Len(s) /\ u[i] = t[i - Len(s)] /\ i - Len(s) \in 1 .. Len(t)
        BY <1>1, <1>2, <1>3, <1>5, <2>4, SMT
      <3>2. QED
        BY <1>4, <1>11, <3>1, Zenon
    <2>5. QED
      BY <1>1, <1>5, <2>1, <2>2, <2>3, <2>4, SMT
  <1>12. QED
    BY <1>1, <1>10, <1>11, Zenon DEF Distinct, u
=============================================================================
