------------------------- MODULE ScanPipelineProofs -------------------------
EXTENDS ScanPipeline, ListLemmas
(***************************************************************************)
(* Theorems about ExtractorDAG, for any extractors, any dependencies,      *)
(* cyclic or not, and any platforms, and about ScanPipeline, for all three *)
(* commands.                                                               *)
(***************************************************************************)

-----------------------------------------------------------------------------
(* What Among(list, set) keeps.  The recursion is unfolded once, into a    *)
(* function g that holds what is kept of each prefix; the rest is          *)
(* induction over the length of the prefix.                                *)

Kept(s, T, g, n) ==
  IF n = 0 THEN <<>>
  ELSE IF s[n] \in T THEN Append(g[n - 1], s[n]) ELSE g[n - 1]

KeptUpTo(s, T, g, k) == g = [n \in 0 .. k |-> Kept(s, T, g, n)]

LEMMA KeptExists ==
  ASSUME NEW S, NEW s \in Seq(S), NEW T
  PROVE  \E g : KeptUpTo(s, T, g, Len(s))
  <1> DEFINE G == {k \in 0 .. Len(s) : \E g : KeptUpTo(s, T, g, k)}
  <1>1. 0 \in G
    <2>1. KeptUpTo(s, T, [n \in 0 .. 0 |-> <<>>], 0)
      BY SMT DEF KeptUpTo, Kept
    <2>2. QED
      BY <2>1
  <1>2. ASSUME NEW k \in 1 .. Len(s), k - 1 \in G
        PROVE  k \in G
    <2>1. PICK g : KeptUpTo(s, T, g, k - 1)
      BY <1>2
    <2>2. \A n \in 0 .. k - 1 : g[n] = Kept(s, T, g, n)
      BY <2>1, Zenon DEF KeptUpTo
    <2> DEFINE h == [n \in 0 .. k |-> IF n < k THEN g[n] ELSE Kept(s, T, g, k)]
    <2>3. ASSUME NEW n \in 0 .. k
          PROVE  h[n] = Kept(s, T, h, n)
      <3>1. CASE n = k
        BY <3>1, SMT DEF Kept
      <3>2. CASE n < k
        <4>1. n \in 0 .. k - 1
          BY <3>2
        <4>2. h[n] = g[n] /\ (n # 0 => h[n - 1] = g[n - 1])
          BY <3>2, SMT
        <4>3. QED
          BY <2>2, <4>1, <4>2, Zenon DEF Kept
      <3>3. QED
        BY <3>1, <3>2
    <2>4. KeptUpTo(s, T, h, k)
      BY <2>3, Zenon DEF KeptUpTo
    <2>5. QED
      BY <2>4
  <1>3. 0 .. Len(s) \subseteq G
    <2> HIDE DEF G
    <2>1. Len(s) \in Nat
      OBVIOUS
    <2>2. QED
      BY <2>1, <1>1, <1>2, IntervalInduction
  <1>4. Len(s) \in G
    BY <1>3, SMTT(30)
  <1>5. QED
    BY <1>4

LEMMA AmongIsKept ==
  ASSUME NEW S, NEW s \in Seq(S), NEW T
  PROVE  \E g : KeptUpTo(s, T, g, Len(s)) /\ Among(s, T) = g[Len(s)]
  <1> DEFINE f == CHOOSE f : KeptUpTo(s, T, f, Len(s))
  <1>1. KeptUpTo(s, T, f, Len(s))
    BY KeptExists
  <1>2. Among(s, T) = f[Len(s)]
    BY Zenon DEF Among, KeptUpTo, Kept
  <1>3. QED
    BY <1>1, <1>2

(* q is what is kept of the first n elements of s, a list over S.          *)
IsPart(S, s, T, q, n) ==
  /\ q \in Seq(S)
  /\ ToSet(q) = {s[i] : i \in 1 .. n} \cap T
  /\ Distinct(s) => Distinct(q)

LEMMA PartGrows ==
  ASSUME NEW S, NEW s \in Seq(S), NEW T, NEW n \in 1 .. Len(s),
         NEW q, IsPart(S, s, T, q, n - 1)
  PROVE  IsPart(S, s, T, IF s[n] \in T THEN Append(q, s[n]) ELSE q, n)
  <1>1. {s[i] : i \in 1 .. n} = {s[i] : i \in 1 .. n - 1} \cup {s[n]}
    BY SMT
  <1>2. CASE s[n] \notin T
    BY <1>1, <1>2, Zenon DEF IsPart
  <1>3. CASE s[n] \in T
    <2>1. q \in Seq(S) /\ s[n] \in S
      BY SMT DEF IsPart
    <2>2. Append(q, s[n]) \in Seq(S) /\ IsList(q)
      BY <2>1, TypedList, SMT
    <2>3. Distinct(s) => s[n] \notin {s[i] : i \in 1 .. n - 1}
      BY SMT DEF Distinct
    <2>4. Distinct(s) => Distinct(q) /\ s[n] \notin ToSet(q)
      BY <2>3 DEF IsPart
    <2>5. /\ ToSet(Append(q, s[n])) = ToSet(q) \cup {s[n]}
          /\ Distinct(q) /\ s[n] \notin ToSet(q) => Distinct(Append(q, s[n]))
      BY <2>2, AppendedList
    <2>6. ToSet(Append(q, s[n])) = {s[i] : i \in 1 .. n} \cap T
      BY <1>1, <1>3, <2>5 DEF IsPart
    <2>7. QED
      BY <1>3, <2>2, <2>4, <2>5, <2>6, Zenon DEF IsPart
  <1>4. QED
    BY <1>2, <1>3

(* Among(s, T) has the elements of s that are in T, each as often as s.    *)
LEMMA AmongElements ==
  ASSUME NEW S, NEW s \in Seq(S), NEW T
  PROVE  /\ Among(s, T) \in Seq(S)
         /\ ToSet(Among(s, T)) = ToSet(s) \cap T
         /\ Distinct(s) => Distinct(Among(s, T))
  <1>1. PICK g : KeptUpTo(s, T, g, Len(s)) /\ Among(s, T) = g[Len(s)]
    BY AmongIsKept
  <1>2. \A n \in 0 .. Len(s) : g[n] = Kept(s, T, g, n)
    BY <1>1, Zenon DEF KeptUpTo
  <1> DEFINE G == {n \in 0 .. Len(s) : IsPart(S, s, T, g[n], n)}
  <1>3. 0 \in G
    <2>1. g[0] = <<>>
      BY <1>2, SMT DEF Kept
    <2>2. <<>> \in Seq(S) /\ {s[i] : i \in 1 .. 0} = {}
      BY SMT
    <2>3. IsPart(S, s, T, <<>>, 0)
      BY <2>2, EmptyList, Zenon DEF IsPart
    <2>4. QED
      BY <2>1, <2>3
  <1>4. ASSUME NEW n \in 1 .. Len(s), n - 1 \in G
        PROVE  n \in G
    <2>1. IsPart(S, s, T, g[n - 1], n - 1) /\ n \in 0 .. Len(s)
      BY <1>4
    <2>2. g[n] = IF s[n] \in T THEN Append(g[n - 1], s[n]) ELSE g[n - 1]
      BY <1>2, <2>1, SMT DEF Kept
    <2>3. IsPart(S, s, T, IF s[n] \in T THEN Append(g[n - 1], s[n]) ELSE g[n - 1], n)
      BY <2>1, PartGrows
    <2>4. IsPart(S, s, T, g[n], n)
      BY <2>2, <2>3, Zenon
    <2>5. QED
      BY <2>1, <2>4
  <1>5. 0 .. Len(s) \subseteq G
    <2> HIDE DEF G
    <2>1. Len(s) \in Nat
      OBVIOUS
    <2>2. QED
      BY <2>1, <1>3, <1>4, IntervalInduction
  <1>6. IsPart(S, s, T, g[Len(s)], Len(s))
    BY <1>5, SMT
  <1>7. ToSet(s) = {s[i] : i \in 1 .. Len(s)}
    BY SMT DEF ToSet
  <1>8. QED
    BY <1>1, <1>6, <1>7, Zenon DEF IsPart

-----------------------------------------------------------------------------
(* Kahn's algorithm.                                                       *)

Occurrences(e, d) == {i \in DOMAIN dependencies[e] : dependencies[e][i] = d}

(* The places in the declaration of e that wait for something to be sorted.*)
Pending(e) ==
  {i \in DOMAIN dependencies[e] : dependencies[e][i] \in Compatible \ ToSet(sorted)}

(* The inductive invariant: the in-degree of an extractor counts what it   *)
(* still waits for, those that wait for nothing are queued or sorted, and  *)
(* no extractor is in the queue or the order twice.                        *)
Kahn ==
  /\ extractors \in Seq(Names) /\ Distinct(extractors)
  /\ dependencies \in Declarations
  /\ inDegree \in [Compatible -> Nat]
  /\ queue \in Seq(Compatible) /\ sorted \in Seq(Compatible)
  /\ Distinct(queue) /\ Distinct(sorted) /\ ToSet(queue) \cap ToSet(sorted) = {}
  /\ \A e \in Compatible : inDegree[e] = Cardinality(Pending(e))
  /\ {e \in Compatible : inDegree[e] = 0} = ToSet(queue) \cup ToSet(sorted)
  /\ \A i \in DOMAIN sorted :
       Needs(sorted[i]) \cap Compatible \subseteq {sorted[j] : j \in 1 .. i - 1}

LEMMA CompatibleNames ==
  ASSUME extractors \in Seq(Names)
  PROVE  Compatible \subseteq Names
  BY ListElements, SMT DEF Compatible

LEMMA Declared ==
  ASSUME dependencies \in Declarations, NEW e \in Names
  PROVE  dependencies[e] \in Seq(Names) /\ ToSet(dependencies[e]) = Needs(e)
  <1>1. dependencies[e] \in Seq(Names)
    BY DAGAssumption
  <1>2. ToSet(dependencies[e]) \subseteq Names
    BY <1>1, TypedList
  <1>3. QED
    BY <1>1, <1>2, Zenon DEF Needs

LEMMA FinitePlaces ==
  ASSUME dependencies \in Declarations, NEW e \in Names, NEW P \in SUBSET DOMAIN dependencies[e]
  PROVE  IsFiniteSet(P) /\ Cardinality(P) \in Nat
  <1>1. Len(dependencies[e]) \in Nat /\ DOMAIN dependencies[e] = 1 .. Len(dependencies[e])
    BY Declared, ListElements
  <1>2. IsFiniteSet(1 .. Len(dependencies[e]))
    BY <1>1, FS_Interval
  <1>3. IsFiniteSet(P)
    BY <1>1, <1>2, FS_Subset
  <1>4. QED
    BY <1>3, FS_CardinalityType

LEMMA KahnInit == Init => Kahn
  <1> SUFFICES ASSUME Init PROVE Kahn
    OBVIOUS
  <1>1. extractors \in Seq(Names) /\ Distinct(extractors)
    <2>1. PICK platform : extractors = Among(Available, platform)
      BY DEF Init, Filter
    <2>2. Available \in Seq(Names) /\ Distinct(Available)
      BY DAGAssumption DEF Distinct
    <2>3. QED
      BY <2>1, <2>2, AmongElements
  <1>2. Compatible \subseteq Names /\ dependencies \in Declarations /\ sorted = <<>>
    BY <1>1, CompatibleNames DEF Init
  <1>3. ASSUME NEW e \in Compatible
        PROVE  inDegree[e] = Cardinality(Pending(e)) /\ inDegree[e] \in Nat
    <2>1. Pending(e) = {i \in DOMAIN dependencies[e] : dependencies[e][i] \in ToSet(extractors)}
      BY <1>2, EmptyList, Zenon DEF Pending, Compatible
    <2>2. inDegree[e] = Cardinality(Pending(e))
      BY <1>3, <2>1, Zenon DEF Init, InitialDegree, Compatible
    <2>3. Cardinality(Pending(e)) \in Nat
      BY <1>2, FinitePlaces DEF Pending
    <2>4. QED
      BY <2>2, <2>3
  <1>4. inDegree \in [Compatible -> Nat]
    BY <1>3, Zenon DEF Init, Compatible
  <1> DEFINE Z == {e \in Compatible : inDegree[e] = 0}
  <1>5. extractors \in Seq(Compatible)
    BY <1>1, TypedList DEF IsList, Compatible
  <1>6. queue \in Seq(Compatible) /\ ToSet(queue) = Z /\ Distinct(queue)
    <2>1. queue = Among(extractors, Z)
      BY Zenon DEF Init, Compatible
    <2>2. ToSet(extractors) \cap Z = Z
      BY Zenon DEF Compatible
    <2>3. QED
      BY <1>1, <1>5, <2>1, <2>2, AmongElements
  <1>7. sorted \in Seq(Compatible) /\ Distinct(sorted) /\ ToSet(sorted) = {} /\ DOMAIN sorted = {}
    BY <1>2, EmptyList, SMT
  <1>8. QED
    BY <1>1, <1>2, <1>3, <1>4, <1>6, <1>7, Zenon DEF Kahn

(* Sorting a node takes its occurrences out of what the others wait for.   *)
LEMMA DegreeFalls ==
  ASSUME Kahn, NEW node \in Compatible \ ToSet(sorted), NEW e \in Compatible,
         ToSet(sorted)' = ToSet(sorted) \cup {node}, UNCHANGED <<extractors, dependencies>>
  PROVE  /\ Cardinality(Pending(e)') = inDegree[e] - Times(e, node)
         /\ inDegree[e] - Times(e, node) \in Nat /\ Times(e, node) \in Nat
  <1> DEFINE P == Pending(e)
             O == Occurrences(e, node)
  <1>1. e \in Names /\ dependencies \in Declarations
    BY CompatibleNames DEF Kahn
  <1>2. Pending(e)' = P \ O
    <2>1. Compatible' = Compatible
      BY DEF Compatible
    <2>2. QED
      BY <2>1, Zenon DEF Pending, Occurrences
  <1>3. O \subseteq P
    BY Zenon DEF Pending, Occurrences
  <1>4. IsFiniteSet(P) /\ Cardinality(P) \in Nat /\ Cardinality(O) \in Nat /\ Cardinality(P \ O) \in Nat
    <2>1. P \in SUBSET DOMAIN dependencies[e] /\ O \in SUBSET DOMAIN dependencies[e]
          /\ P \ O \in SUBSET DOMAIN dependencies[e]
      BY DEF Pending, Occurrences
    <2> HIDE DEF P, O
    <2>2. QED
      BY <1>1, <2>1, FinitePlaces
  <1>5. Cardinality(P \ O) = Cardinality(P) - Cardinality(O)
    <2> HIDE DEF P, O
    <2>1. Cardinality(P \ O) = Cardinality(P) - Cardinality(P \cap O)
      BY <1>4, FS_Difference
    <2>2. P \cap O = O
      BY <1>3
    <2>3. QED
      BY <2>1, <2>2
  <1>6. Times(e, node) = Cardinality(O) /\ inDegree[e] = Cardinality(P)
    BY Zenon DEF Times, Occurrences, Kahn
  <1>7. QED
    <2> HIDE DEF P, O
    <2>1. QED
      BY <1>2, <1>4, <1>5, <1>6

LEMMA KahnSort ==
  ASSUME Kahn, Sort
  PROVE  Kahn'
  <1> DEFINE node == Head(queue)
             freed == {e \in Compatible : Times(e, node) > 0 /\ inDegree[e] = Times(e, node)}
  <1>1. /\ queue # <<>> /\ sorted' = Append(sorted, node)
        /\ queue' = Tail(queue) \o Released(node)
        /\ inDegree' = [e \in DOMAIN inDegree |-> inDegree[e] - Times(e, node)]
        /\ UNCHANGED <<extractors, dependencies>>
    BY Zenon DEF Sort, declared
  <1>2. Compatible' = Compatible /\ DOMAIN inDegree = Compatible
    BY <1>1 DEF Kahn, Compatible
  <1>3. /\ node \in ToSet(queue) /\ Tail(queue) \in Seq(Compatible)
        /\ ToSet(queue) = {node} \cup ToSet(Tail(queue))
        /\ Distinct(Tail(queue)) /\ node \notin ToSet(Tail(queue))
    BY <1>1, TailedList DEF Kahn
  <1>4. node \in Compatible \ ToSet(sorted) /\ inDegree[node] = 0
    BY <1>3, Zenon DEF Kahn
  <1> HIDE DEF node
  <1>5. /\ sorted' \in Seq(Compatible) /\ Distinct(sorted')
        /\ ToSet(sorted') = ToSet(sorted) \cup {node} /\ Len(sorted') = Len(sorted) + 1
    <2>1. IsList(sorted) /\ sorted \in Seq(Compatible) /\ Distinct(sorted)
      BY TypedList DEF Kahn
    <2>2. Append(sorted, node) \in Seq(Compatible)
      BY <1>4, <2>1, SMT
    <2>3. QED
      BY <1>1, <1>4, <2>1, <2>2, AppendedList
  <1>6. ToSet(sorted)' = ToSet(sorted) \cup {node}
    BY <1>5, Zenon DEF ToSet
  <1>7. ASSUME NEW e \in Compatible
        PROVE  /\ inDegree'[e] = inDegree[e] - Times(e, node) /\ inDegree'[e] \in Nat
               /\ inDegree'[e] = Cardinality(Pending(e)') /\ Times(e, node) \in Nat
    <2>1. inDegree'[e] = inDegree[e] - Times(e, node)
      BY <1>1, <1>2, Zenon
    <2>2. /\ Cardinality(Pending(e)') = inDegree[e] - Times(e, node)
          /\ inDegree[e] - Times(e, node) \in Nat /\ Times(e, node) \in Nat
      BY <1>1, <1>4, <1>6, DegreeFalls
    <2>3. QED
      BY <2>1, <2>2
  <1>8. inDegree' \in [Compatible -> Nat]
    BY <1>1, <1>2, <1>7, Zenon
  <1>9. Released(node) \in Seq(Compatible) /\ ToSet(Released(node)) = freed /\ Distinct(Released(node))
    <2>1. extractors \in Seq(Compatible) /\ Distinct(extractors) /\ ToSet(extractors) \cap freed = freed
      BY TypedList, Zenon DEF Kahn, Compatible, IsList
    <2>2. Released(node) = Among(extractors, freed)
      BY Zenon DEF Released, Compatible
    <2>3. QED
      BY <2>1, <2>2, AmongElements
  <1>10. \A e \in freed : inDegree[e] # 0 /\ e \notin ToSet(queue) \cup ToSet(sorted)
    <2>1. \A e \in freed : e \in Compatible /\ inDegree[e] # 0
      BY <1>7, SMT
    <2>2. QED
      BY <2>1, Zenon DEF Kahn
  <1>11. /\ queue' \in Seq(Compatible) /\ ToSet(queue') = ToSet(Tail(queue)) \cup freed
         /\ Distinct(queue')
    <2>1. ToSet(Tail(queue)) \cap ToSet(Released(node)) = {}
      BY <1>3, <1>9, <1>10, Zenon
    <2> HIDE DEF freed
    <2>2. /\ Tail(queue) \o Released(node) \in Seq(Compatible)
          /\ ToSet(Tail(queue) \o Released(node)) = ToSet(Tail(queue)) \cup ToSet(Released(node))
          /\ Distinct(Tail(queue) \o Released(node))
      <3> DEFINE waiting == Tail(queue)
                 released == Released(node)
      <3>1. /\ waiting \in Seq(Compatible) /\ released \in Seq(Compatible)
            /\ Distinct(waiting) /\ Distinct(released)
            /\ ToSet(waiting) \cap ToSet(released) = {} /\ ToSet(released) = freed
        BY <1>3, <1>9, <2>1, Zenon
      <3> HIDE DEF waiting, released
      <3>2. /\ waiting \o released \in Seq(Compatible)
            /\ ToSet(waiting \o released) = ToSet(waiting) \cup ToSet(released)
            /\ Distinct(waiting \o released)
        BY <3>1, JoinedList, SMTT(30)
      <3>3. QED
        BY <3>1, <3>2, Zenon DEF waiting, released
    <2>3. QED
      BY <1>1, <1>9, <2>2, Zenon
  <1>12. ToSet(queue') \cap ToSet(sorted') = {}
    BY <1>3, <1>4, <1>5, <1>10, <1>11, Zenon DEF Kahn
  <1>13. {e \in Compatible : inDegree'[e] = 0} = ToSet(queue') \cup ToSet(sorted')
    <2>1. ToSet(queue') \cup ToSet(sorted') = ToSet(queue) \cup ToSet(sorted) \cup freed
      BY <1>3, <1>5, <1>11, Zenon
    <2>2. ToSet(queue) \cup ToSet(sorted) = {e \in Compatible : inDegree[e] = 0}
      BY Zenon DEF Kahn
    <2>3. ASSUME NEW e \in Compatible
          PROVE  inDegree'[e] = 0 <=> inDegree[e] = 0 \/ e \in freed
      <3>1. inDegree[e] \in Nat
        BY DEF Kahn
      <3>2. QED
        BY <1>7, <3>1, SMT
    <2>4. freed \subseteq Compatible
      OBVIOUS
    <2> HIDE DEF freed
    <2>5. QED
      BY <2>1, <2>2, <2>3, <2>4
  <1>14. ASSUME NEW i \in DOMAIN sorted'
         PROVE  (Needs(sorted[i]) \cap Compatible)' \subseteq {sorted'[j] : j \in 1 .. i - 1}
    <2>1. /\ Len(sorted) \in Nat /\ DOMAIN sorted = 1 .. Len(sorted)
          /\ DOMAIN sorted' = 1 .. Len(sorted) + 1
          /\ ToSet(sorted) = {sorted[j] : j \in 1 .. Len(sorted)}
      BY <1>5, ListElements DEF Kahn
    <2>2. \A j \in 1 .. Len(sorted) : sorted'[j] = sorted[j]
      BY <1>1, SMT DEF Kahn
    <2>3. sorted'[Len(sorted) + 1] = node
      BY <1>1, SMT DEF Kahn
    <2>4. (Needs(sorted[i]) \cap Compatible)' = Needs(sorted'[i]) \cap Compatible
      BY <1>1, <1>2, Zenon DEF Needs
    <2>5. CASE i \in DOMAIN sorted
      <3>1. sorted'[i] = sorted[i]
        BY <2>1, <2>2, <2>5
      <3>2. Needs(sorted[i]) \cap Compatible \subseteq {sorted[j] : j \in 1 .. i - 1}
        BY <2>5, Zenon DEF Kahn
      <3>3. \A j \in 1 .. i - 1 : sorted'[j] = sorted[j]
        BY <2>1, <2>2, <2>5, SMT
      <3>4. QED
        BY <2>4, <3>1, <3>2, <3>3, Zenon
    <2>6. CASE i = Len(sorted) + 1
      <3>1. sorted'[i] = node /\ i - 1 = Len(sorted)
        BY <2>1, <2>3, <2>6
      <3>2. Pending(node) = {}
        <4>1. node \in Names /\ dependencies \in Declarations
          BY <1>4, CompatibleNames DEF Kahn
        <4>2. IsFiniteSet(Pending(node)) /\ Cardinality(Pending(node)) = 0
          BY <1>4, <4>1, FinitePlaces DEF Kahn, Pending
        <4>3. QED
          BY <4>2, FS_EmptySet
      <3>3. Needs(node) \cap Compatible \subseteq ToSet(sorted)
        <4>1. node \in Names /\ dependencies \in Declarations
          BY <1>4, CompatibleNames DEF Kahn
        <4>2. Needs(node) = {dependencies[node][k] : k \in DOMAIN dependencies[node]}
          BY <4>1, Declared, ListElements, Zenon
        <4>3. QED
          BY <3>2, <4>2, Zenon DEF Pending
      <3>4. QED
        BY <2>1, <2>2, <2>4, <3>1, <3>3, Zenon
    <2>7. QED
      BY <2>1, <2>5, <2>6, SMT
  <1>15. \A e \in Compatible' : inDegree'[e] = Cardinality(Pending(e)')
    BY <1>2, <1>7
  <1>16. QED
    BY <1>1, <1>2, <1>5, <1>8, <1>11, <1>12, <1>13, <1>14, <1>15, Zenon DEF Kahn

(* What is left when the queue is empty is disabled, and nothing moves     *)
(* any more.                                                               *)
Ordered ==
  /\ Kahn
  /\ phase # "resolving" =>
       queue = <<>> /\ disabled \in Seq(Compatible) /\ ToSet(disabled) = Compatible \ ToSet(sorted)

LEMMA OrderedInit == Init => Ordered
  BY KahnInit, Zenon DEF Ordered, Init

LEMMA KahnRests ==
  ASSUME Kahn, UNCHANGED <<extractors, dependencies, inDegree, queue, sorted>>
  PROVE  Kahn'
  <1>1. Compatible' = Compatible /\ \A e : Pending(e)' = Pending(e) /\ Needs(e)' = Needs(e)
    BY Zenon DEF Compatible, Pending, Needs
  <1>2. \A e \in Compatible' : inDegree'[e] = Cardinality(Pending(e)')
    BY <1>1, Zenon DEF Kahn
  <1>3. \A i \in DOMAIN sorted' :
          (Needs(sorted[i]) \cap Compatible)' \subseteq {sorted'[j] : j \in 1 .. i - 1}
    <2>1. \A i \in DOMAIN sorted :
            Needs(sorted[i]) \cap Compatible \subseteq {sorted[j] : j \in 1 .. i - 1}
      BY DEF Kahn
    <2>2. \A i : (Needs(sorted[i]) \cap Compatible)' = Needs(sorted[i]) \cap Compatible
      BY <1>1, Zenon DEF Needs
    <2>3. sorted' = sorted
      OBVIOUS
    <2>4. QED
      BY <2>1, <2>2, <2>3
  <1>4. {e \in Compatible : inDegree[e] = 0}' = (ToSet(queue) \cup ToSet(sorted))'
    BY <1>1, Zenon DEF Kahn
  <1>5. QED
    BY <1>1, <1>2, <1>3, <1>4, Zenon DEF Kahn

LEMMA OrderedStep ==
  ASSUME Ordered, [Next]_vars
  PROVE  Ordered'
  <1>1. CASE Sort
    <2>1. Kahn' /\ phase' = "resolving"
      BY <1>1, KahnSort, Zenon DEF Ordered, Sort
    <2>2. QED
      BY <2>1 DEF Ordered
  <1>2. CASE Resolved
    <2>1. /\ queue = <<>> /\ disabled' = Among(extractors, Names \ ToSet(sorted))
          /\ UNCHANGED <<extractors, dependencies, inDegree, queue, sorted>>
      BY <1>2, Zenon DEF Resolved, declared
    <2>2. Kahn'
      BY <2>1, KahnRests DEF Ordered
    <2>3. extractors \in Seq(Compatible) /\ Compatible \subseteq Names
      BY TypedList, CompatibleNames DEF Ordered, Kahn, Compatible, IsList
    <2>4. disabled' \in Seq(Compatible) /\ ToSet(disabled') = Compatible \cap (Names \ ToSet(sorted))
      BY <2>1, <2>3, AmongElements DEF Compatible
    <2>5. QED
      BY <2>1, <2>2, <2>3, <2>4, Zenon DEF Ordered, Compatible
  <1>3. CASE \/ Skip \/ RunFails \/ RunInterrupted \/ Return \/ Execute
             \/ (\E keys : RunSucceeds(keys)) \/ UNCHANGED vars
    <2>1. /\ UNCHANGED <<extractors, dependencies, inDegree, queue, sorted, disabled>>
          /\ phase # "resolving" \/ UNCHANGED phase
      BY <1>3, Zenon DEF Skip, RunFails, RunInterrupted, Return, Execute, RunSucceeds,
         Running, declared, resolution, vars
    <2>2. Kahn'
      BY <2>1, KahnRests DEF Ordered
    <2>3. QED
      BY <2>1, <2>2, Zenon DEF Ordered, Compatible
  <1>4. QED
    BY <1>1, <1>2, <1>3, Zenon DEF Next, Step

(* In the order, every compatible dependency stands before what needs it,  *)
(* and nothing stands twice.                                               *)
LEMMA KahnIsTopological == Kahn => OrderIsTopological
  <1> SUFFICES ASSUME Kahn, NEW i \in DOMAIN sorted
               PROVE  /\ \A d \in Needs(sorted[i]) \cap Compatible :
                           \E j \in 1 .. i - 1 : sorted[j] = d
                      /\ \A j \in 1 .. i - 1 : sorted[j] # sorted[i]
    BY DEF OrderIsTopological
  <1>1. Len(sorted) \in Nat /\ DOMAIN sorted = 1 .. Len(sorted)
    BY ListElements DEF Kahn
  <1>2. \A j \in 1 .. i - 1 : j \in DOMAIN sorted /\ j # i
    BY <1>1, SMT
  <1>3. \A j \in 1 .. i - 1 : sorted[j] # sorted[i]
    BY <1>2, Zenon DEF Kahn, Distinct
  <1>4. Needs(sorted[i]) \cap Compatible \subseteq {sorted[j] : j \in 1 .. i - 1}
    BY Zenon DEF Kahn
  <1>5. QED
    BY <1>3, <1>4, Zenon

-----------------------------------------------------------------------------
(* What an extractor needs at any distance.                                *)

LEMMA NeedsAreUpstream == \A e : Needs(e) \subseteq Upstream(e)
  BY Zenon DEF Upstream, Needs

LEMMA UpstreamIsTransitive ==
  ASSUME NEW e, NEW d \in Upstream(e) \cap Compatible
  PROVE  Upstream(d) \subseteq Upstream(e)
  BY Zenon DEF Upstream

(* Everything upstream of an ordered extractor is absent or before it.     *)
LEMMA UpstreamIsBefore ==
  ASSUME Kahn, NEW i \in DOMAIN sorted
  PROVE  Upstream(sorted[i]) \cap Compatible \subseteq {sorted[j] : j \in 1 .. i - 1}
  <1> DEFINE Before(n) == {sorted[j] : j \in 1 .. n - 1}
             S == {d \in Names : d \in Compatible => d \in Before(i)}
  <1>1. Len(sorted) \in Nat /\ DOMAIN sorted = 1 .. Len(sorted)
    BY ListElements DEF Kahn
  <1>2. \A k \in DOMAIN sorted : Needs(sorted[k]) \cap Compatible \subseteq Before(k)
    BY Zenon DEF Kahn
  <1>3. Needs(sorted[i]) \subseteq S
    BY <1>2, Zenon DEF Needs
  <1>4. ASSUME NEW x \in S \cap Compatible
        PROVE  Needs(x) \subseteq S
    <2>1. PICK k \in 1 .. i - 1 : x = sorted[k]
      OBVIOUS
    <2>2. k \in DOMAIN sorted /\ 1 .. k - 1 \subseteq 1 .. i - 1
      BY <1>1, <2>1, SMT
    <2>3. Needs(x) \cap Compatible \subseteq Before(k) /\ Before(k) \subseteq Before(i)
      BY <1>2, <2>1, <2>2, Zenon
    <2>4. QED
      BY <2>3, Zenon DEF Needs
  <1>5. S \in SUBSET Names
    OBVIOUS
  <1>6. Upstream(sorted[i]) \subseteq S
    <2> HIDE DEF S
    <2>1. QED
      BY <1>3, <1>4, <1>5, Zenon DEF Upstream
  <1>7. QED
    BY <1>6

LEMMA AvailableIsFinite == IsFiniteSet(Names)
  <1>1. Names = {Available[i] : i \in 1 .. Len(Available)} /\ Len(Available) \in Nat
    BY DAGAssumption, ListElements DEF Names
  <1>2. IsFiniteSet(1 .. Len(Available))
    BY <1>1, FS_Interval
  <1> DEFINE f == [i \in 1 .. Len(Available) |-> Available[i]]
  <1>3. f \in Surjection(1 .. Len(Available), Names)
    BY <1>1, Zenon DEF Surjection
  <1>4. QED
    BY <1>2, <1>3, FS_Surjection

(* Nothing that is ordered is on a cycle or needs one.                     *)
LEMMA OrderedIsAcyclic ==
  ASSUME Kahn, NEW e \in ToSet(sorted)
  PROVE  ~ OnCycle(e) /\ \A d \in Upstream(e) : ~ OnCycle(d)
  <1>1. /\ Len(sorted) \in Nat /\ DOMAIN sorted = 1 .. Len(sorted)
        /\ ToSet(sorted) = {sorted[i] : i \in 1 .. Len(sorted)}
    BY ListElements DEF Kahn
  <1>2. ASSUME NEW i \in DOMAIN sorted
        PROVE  ~ OnCycle(sorted[i])
    <2>1. \A j \in 1 .. i - 1 : j \in DOMAIN sorted /\ j # i
      BY <1>1, SMT
    <2>2. sorted[i] \notin {sorted[j] : j \in 1 .. i - 1}
      BY <2>1, Zenon DEF Kahn, Distinct
    <2>3. QED
      BY <2>2, UpstreamIsBefore, Zenon DEF OnCycle
  <1>3. PICK i \in DOMAIN sorted : e = sorted[i]
    BY <1>1
  <1>4. ASSUME NEW d \in Upstream(e), OnCycle(d)
        PROVE  FALSE
    <2>1. PICK j \in 1 .. i - 1 : d = sorted[j]
      BY <1>3, <1>4, UpstreamIsBefore, Zenon DEF OnCycle
    <2>2. j \in DOMAIN sorted
      BY <1>1, <2>1, SMT
    <2>3. QED
      BY <1>2, <1>4, <2>1, <2>2
  <1>5. QED
    BY <1>2, <1>3, <1>4

(* Once the queue is empty, what is not ordered needs something that is    *)
(* not; among all that it needs, one with the fewest needs is on a cycle.  *)
LEMMA UnorderedIsDoomed ==
  ASSUME Kahn, queue = <<>>, NEW e \in Compatible \ ToSet(sorted)
  PROVE  \E d \in Upstream(e) : OnCycle(d)
  <1> DEFINE U == Compatible \ ToSet(sorted)
  <1>1. ASSUME NEW x \in U
        PROVE  \E d \in U : d \in Needs(x)
    <2>1. x \in Names /\ dependencies \in Declarations
      BY CompatibleNames DEF Kahn
    <2>2. inDegree[x] # 0
      BY EmptyList, Zenon DEF Kahn
    <2>3. Pending(x) # {}
      BY <2>2, FS_EmptySet DEF Kahn
    <2>4. PICK i \in DOMAIN dependencies[x] : dependencies[x][i] \in U
      BY <2>3 DEF Pending
    <2>5. dependencies[x][i] \in Needs(x)
      BY <2>1, Declared, ListElements
    <2>6. QED
      BY <2>4, <2>5
  <1> DEFINE F == {Upstream(x) : x \in Upstream(e) \cap U}
  <1>2. Upstream(e) \cap U # {}
    BY <1>1, NeedsAreUpstream, Zenon
  <1>3. F \in SUBSET SUBSET Names /\ F # {}
    <2>1. \A x : Upstream(x) \in SUBSET Names
      BY Zenon DEF Upstream
    <2>2. QED
      BY <1>2, <2>1
  <1>4. PICK u \in F : \A y \in F : y \subseteq u => y = u
    <2> HIDE DEF F
    <2>1. QED
      BY <1>3, AvailableIsFinite, MinimalSubset
  <1>5. PICK x \in Upstream(e) \cap U : u = Upstream(x)
    BY <1>4
  <1>6. PICK d \in U : d \in Needs(x)
    BY <1>1, <1>5
  <1>7. d \in Upstream(x) /\ Upstream(d) \subseteq Upstream(x)
    BY <1>6, NeedsAreUpstream, UpstreamIsTransitive, Zenon
  <1>8. d \in Upstream(e)
    BY <1>5, <1>7, UpstreamIsTransitive, Zenon
  <1>9. Upstream(d) = Upstream(x)
    BY <1>4, <1>5, <1>6, <1>7, <1>8, Zenon
  <1>10. QED
    BY <1>6, <1>7, <1>8, <1>9, Zenon DEF OnCycle

LEMMA OrderedIsComplete == Ordered => OrderIsComplete
  <1> DEFINE doomed == {e \in Compatible : OnCycle(e) \/ \E d \in Upstream(e) : OnCycle(d)}
  <1> SUFFICES ASSUME Ordered, phase # "resolving"
               PROVE  ToSet(disabled) = doomed /\ ToSet(sorted) = Compatible \ doomed
    BY Zenon DEF OrderIsComplete
  <1>1. Kahn /\ queue = <<>> /\ ToSet(disabled) = Compatible \ ToSet(sorted)
    BY DEF Ordered
  <1>2. ToSet(sorted) \subseteq Compatible
    BY <1>1, TypedList DEF Kahn
  <1>3. \A e \in ToSet(sorted) : e \notin doomed
    BY <1>1, OrderedIsAcyclic
  <1>4. \A e \in Compatible \ ToSet(sorted) : e \in doomed
    BY <1>1, UnorderedIsDoomed
  <1>5. QED
    BY <1>1, <1>2, <1>3, <1>4, Zenon

(* _resolve_dag() puts dependencies first and nothing twice, ...           *)
THEOREM OrderIsSound == Spec => []OrderIsTopological
  <1>1. Init => Ordered
    BY OrderedInit
  <1>2. Ordered /\ [Next]_vars => Ordered'
    BY OrderedStep
  <1>3. Ordered => OrderIsTopological
    BY KahnIsTopological DEF Ordered
  <1>4. QED
    BY <1>1, <1>2, <1>3, PTL DEF Spec

(* ... and disables just what is on a cycle or needs one.                  *)
THEOREM OrderLeavesOutCyclesOnly == Spec => []OrderIsComplete
  <1>1. Init => Ordered
    BY OrderedInit
  <1>2. Ordered /\ [Next]_vars => Ordered'
    BY OrderedStep
  <1>3. QED
    BY <1>1, <1>2, OrderedIsComplete, PTL DEF Spec

-----------------------------------------------------------------------------
(* execute(): where each extractor that the loop is through with ended up. *)

Through == {sorted[i] : i \in 1 .. position}
Ran == ToSet(succeeded) \cup ToSet(failed)

(* Each is in one list once.  What ran had all that it needs directly, and *)
(* what was skipped has, at some distance, a need that failed or is absent.*)
Accounted ==
  /\ IsList(succeeded) /\ IsList(failed) /\ IsList(skipped)
  /\ position \in 0 .. Len(sorted)
  /\ phase = "resolving" => position = 0
  /\ phase = "done" => position = Len(sorted)
  /\ Ran \cup ToSet(skipped) = Through
  /\ Len(succeeded) + Len(failed) + Len(skipped) = position
  /\ ToSet(succeeded) \cap ToSet(failed) = {} /\ Ran \cap ToSet(skipped) = {}
  /\ \A e \in Ran : Needs(e) \subseteq ToSet(succeeded)
  /\ \A e \in ToSet(skipped) : \E d \in Upstream(e) : d \in ToSet(failed) \/ d \notin Compatible

Rest == <<extractors, dependencies, inDegree, queue, sorted, disabled, phase>>

LEMMA ListLengths ==
  ASSUME Accounted
  PROVE  /\ Len(succeeded) \in Nat /\ Len(failed) \in Nat /\ Len(skipped) \in Nat
         /\ position \in Nat
  BY SMT DEF Accounted, IsList

(* The extractor whose turn it is has not been dealt with, and all it needs*)
(* that is there has.                                                      *)
LEMMA TurnOf ==
  ASSUME Kahn, Accounted, Running
  PROVE  /\ Current \in Compatible \ Through
         /\ Needs(Current) \cap Compatible \subseteq Through
         /\ ToSet(dependencies[Current]) = Needs(Current)
         /\ position + 1 \in 1 .. Len(sorted)
         /\ {sorted[i] : i \in 1 .. position + 1} = Through \cup {Current}
  <1>1. /\ Len(sorted) \in Nat /\ DOMAIN sorted = 1 .. Len(sorted)
        /\ position + 1 \in 1 .. Len(sorted)
    BY ListElements, SMT DEF Kahn, Accounted, Running
  <1>2. Current \in Compatible
    BY <1>1, SMT DEF Kahn, Current
  <1>3. \A i \in 1 .. position : i \in DOMAIN sorted /\ i # position + 1
    BY <1>1, ListLengths, SMT
  <1>4. Current \notin Through
    BY <1>1, <1>3, Zenon DEF Kahn, Distinct, Through, Current
  <1>5. (position + 1) - 1 = position
    BY SMT DEF Accounted
  <1>6. Needs(Current) \cap Compatible \subseteq Through
    BY <1>1, <1>5, Zenon DEF Kahn, Through, Current
  <1>7. 1 .. position + 1 = (1 .. position) \cup {position + 1}
    BY SMT DEF Accounted
  <1>8. {sorted[i] : i \in 1 .. position + 1} = Through \cup {Current}
    BY <1>7, Zenon DEF Through, Current
  <1>9. ToSet(dependencies[Current]) = Needs(Current)
    BY <1>2, CompatibleNames, Declared DEF Kahn
  <1>10. QED
    BY <1>1, <1>2, <1>4, <1>6, <1>8, <1>9

LEMMA AccountedSkip ==
  ASSUME Kahn, Accounted, Skip
  PROVE  Accounted'
  <1> DEFINE c == Current
  <1>1. /\ Running /\ Missing(c) # {} /\ skipped' = Append(skipped, c)
        /\ position' = position + 1 /\ UNCHANGED <<Rest, succeeded, failed>>
    BY Zenon DEF Skip, declared, resolution, Rest
  <1>2. /\ c \in Compatible \ Through /\ Needs(c) \cap Compatible \subseteq Through
        /\ ToSet(dependencies[c]) = Needs(c) /\ position + 1 \in 1 .. Len(sorted)
        /\ {sorted[i] : i \in 1 .. position + 1} = Through \cup {c}
    BY <1>1, TurnOf
  <1> HIDE DEF c
  <1>3. /\ IsList(skipped') /\ ToSet(skipped') = ToSet(skipped) \cup {c}
        /\ Len(skipped') = Len(skipped) + 1
    BY <1>1, AppendedList DEF Accounted
  <1>4. /\ sorted' = sorted /\ succeeded' = succeeded /\ failed' = failed /\ phase' = phase
        /\ Compatible' = Compatible /\ Ran' = Ran
        /\ \A e : Upstream(e)' = Upstream(e) /\ Needs(e)' = Needs(e)
    BY <1>1, Zenon DEF Rest, Compatible, Ran, Upstream, Needs
  <1>5. \E d \in Upstream(c) : d \in ToSet(failed) \/ d \notin Compatible
    <2>1. PICK d \in Needs(c) : d \notin ToSet(succeeded)
      BY <1>1, <1>2, Zenon DEF Missing
    <2>2. d \in Upstream(c)
      BY <2>1, NeedsAreUpstream, Zenon
    <2>3. CASE d \notin Compatible \/ d \in ToSet(failed)
      BY <2>2, <2>3
    <2>4. CASE d \in Compatible /\ d \in ToSet(skipped)
      <3>1. PICK x \in Upstream(d) : x \in ToSet(failed) \/ x \notin Compatible
        BY <2>4, Zenon DEF Accounted
      <3>2. x \in Upstream(c)
        BY <2>2, <2>4, <3>1, UpstreamIsTransitive, Zenon
      <3>3. QED
        BY <3>1, <3>2
    <2>5. QED
      BY <1>2, <2>1, <2>3, <2>4, Zenon DEF Accounted, Ran
  <1>6. Through' = Through \cup {c}
    BY <1>1, <1>2, <1>4, Zenon DEF Through
  <1>7. /\ position' \in 0 .. Len(sorted') /\ phase' = "executing"
        /\ Len(succeeded') + Len(failed') + Len(skipped') = position'
    <2>1. Len(succeeded) + Len(failed) + Len(skipped) = position
      BY Zenon DEF Accounted
    <2>2. phase' = "executing"
      BY <1>1, <1>4 DEF Running
    <2>3. QED
      BY <1>1, <1>2, <1>3, <1>4, <2>1, <2>2, ListLengths, SMT
  <1>8. Ran' \cap ToSet(skipped') = {} /\ Ran' \cup ToSet(skipped') = Through'
    BY <1>2, <1>3, <1>4, <1>6, Zenon DEF Accounted
  <1>9. \A e \in ToSet(skipped') :
          (\E d \in Upstream(e) : d \in ToSet(failed) \/ d \notin Compatible)'
    BY <1>3, <1>4, <1>5, Zenon DEF Accounted
  <1>10. \A e \in Ran' : Needs(e)' \subseteq ToSet(succeeded')
    BY <1>4, Zenon DEF Accounted
  <1>11. QED
    BY <1>3, <1>4, <1>7, <1>8, <1>9, <1>10, Zenon DEF Accounted

LEMMA AccountedSuccess ==
  ASSUME Kahn, Accounted, NEW keys, RunSucceeds(keys)
  PROVE  Accounted'
  <1> DEFINE c == Current
  <1>1. /\ Running /\ Missing(c) = {} /\ succeeded' = Append(succeeded, c)
        /\ position' = position + 1 /\ UNCHANGED <<Rest, failed, skipped>>
    BY Zenon DEF RunSucceeds, declared, resolution, Rest
  <1>2. /\ c \in Compatible \ Through
        /\ ToSet(dependencies[c]) = Needs(c) /\ position + 1 \in 1 .. Len(sorted)
        /\ {sorted[i] : i \in 1 .. position + 1} = Through \cup {c}
    BY <1>1, TurnOf
  <1> HIDE DEF c
  <1>3. /\ IsList(succeeded') /\ ToSet(succeeded') = ToSet(succeeded) \cup {c}
        /\ Len(succeeded') = Len(succeeded) + 1
    BY <1>1, AppendedList DEF Accounted
  <1>4. /\ sorted' = sorted /\ failed' = failed /\ skipped' = skipped /\ phase' = phase
        /\ Compatible' = Compatible /\ Ran' = Ran \cup {c}
        /\ \A e : Upstream(e)' = Upstream(e) /\ Needs(e)' = Needs(e)
    BY <1>1, <1>3, Zenon DEF Rest, Compatible, Ran, Upstream, Needs
  <1>5. Through' = Through \cup {c}
    BY <1>1, <1>2, <1>4, Zenon DEF Through
  <1>6. /\ position' \in 0 .. Len(sorted') /\ phase' = "executing"
        /\ Len(succeeded') + Len(failed') + Len(skipped') = position'
    <2>1. Len(succeeded) + Len(failed) + Len(skipped) = position
      BY Zenon DEF Accounted
    <2>2. phase' = "executing"
      BY <1>1, <1>4 DEF Running
    <2>3. QED
      BY <1>1, <1>2, <1>3, <1>4, <2>1, <2>2, ListLengths, SMT
  <1>7. /\ Ran' \cap ToSet(skipped') = {} /\ Ran' \cup ToSet(skipped') = Through'
        /\ ToSet(succeeded') \cap ToSet(failed') = {}
    <2>1. Ran \cap ToSet(skipped) = {} /\ Ran \cup ToSet(skipped) = Through
      BY DEF Accounted
    <2>2. ToSet(succeeded) \cap ToSet(failed) = {} /\ c \notin Ran \cup ToSet(skipped)
      BY <1>2, <2>1 DEF Accounted
    <2>3. Ran' \cap ToSet(skipped') = {} /\ Ran' \cup ToSet(skipped') = Through'
      BY <1>4, <1>5, <2>1, <2>2
    <2>4. ToSet(succeeded') \cap ToSet(failed') = {}
      BY <1>3, <1>4, <2>2 DEF Ran
    <2>5. QED
      BY <2>3, <2>4
  <1>8. \A e \in ToSet(skipped') :
          (\E d \in Upstream(e) : d \in ToSet(failed) \/ d \notin Compatible)'
    BY <1>4, Zenon DEF Accounted
  <1>9. Needs(c) \subseteq ToSet(succeeded)
    BY <1>1, <1>2, Zenon DEF Missing
  <1>10. \A e \in Ran' : Needs(e)' \subseteq ToSet(succeeded')
    BY <1>3, <1>4, <1>9, Zenon DEF Accounted
  <1>11. QED
    BY <1>3, <1>4, <1>6, <1>7, <1>8, <1>10, Zenon DEF Accounted

LEMMA AccountedFailure ==
  ASSUME Kahn, Accounted, RunFails
  PROVE  Accounted'
  <1> DEFINE c == Current
  <1>1. /\ Running /\ Missing(c) = {} /\ failed' = Append(failed, c)
        /\ position' = position + 1 /\ UNCHANGED <<Rest, succeeded, skipped>>
    BY Zenon DEF RunFails, declared, resolution, Rest
  <1>2. /\ c \in Compatible \ Through
        /\ ToSet(dependencies[c]) = Needs(c) /\ position + 1 \in 1 .. Len(sorted)
        /\ {sorted[i] : i \in 1 .. position + 1} = Through \cup {c}
    BY <1>1, TurnOf
  <1> HIDE DEF c
  <1>3. /\ IsList(failed') /\ ToSet(failed') = ToSet(failed) \cup {c}
        /\ Len(failed') = Len(failed) + 1
    BY <1>1, AppendedList DEF Accounted
  <1>4. /\ sorted' = sorted /\ succeeded' = succeeded /\ skipped' = skipped /\ phase' = phase
        /\ Compatible' = Compatible /\ Ran' = Ran \cup {c}
        /\ \A e : Upstream(e)' = Upstream(e) /\ Needs(e)' = Needs(e)
    BY <1>1, <1>3, Zenon DEF Rest, Compatible, Ran, Upstream, Needs
  <1>5. Through' = Through \cup {c}
    BY <1>1, <1>2, <1>4, Zenon DEF Through
  <1>6. /\ position' \in 0 .. Len(sorted') /\ phase' = "executing"
        /\ Len(succeeded') + Len(failed') + Len(skipped') = position'
    <2>1. Len(succeeded) + Len(failed) + Len(skipped) = position
      BY Zenon DEF Accounted
    <2>2. phase' = "executing"
      BY <1>1, <1>4 DEF Running
    <2>3. QED
      BY <1>1, <1>2, <1>3, <1>4, <2>1, <2>2, ListLengths, SMT
  <1>7. /\ Ran' \cap ToSet(skipped') = {} /\ Ran' \cup ToSet(skipped') = Through'
        /\ ToSet(succeeded') \cap ToSet(failed') = {}
    <2>1. Ran \cap ToSet(skipped) = {} /\ Ran \cup ToSet(skipped) = Through
      BY DEF Accounted
    <2>2. ToSet(succeeded) \cap ToSet(failed) = {} /\ c \notin Ran \cup ToSet(skipped)
      BY <1>2, <2>1 DEF Accounted
    <2>3. Ran' \cap ToSet(skipped') = {} /\ Ran' \cup ToSet(skipped') = Through'
      BY <1>4, <1>5, <2>1, <2>2
    <2>4. ToSet(succeeded') \cap ToSet(failed') = {}
      BY <1>3, <1>4, <2>2 DEF Ran
    <2>5. QED
      BY <2>3, <2>4
  <1>8. \A e \in ToSet(skipped') :
          (\E d \in Upstream(e) : d \in ToSet(failed) \/ d \notin Compatible)'
    BY <1>3, <1>4, Zenon DEF Accounted
  <1>9. Needs(c) \subseteq ToSet(succeeded)
    BY <1>1, <1>2, Zenon DEF Missing
  <1>10. \A e \in Ran' : Needs(e)' \subseteq ToSet(succeeded')
    BY <1>4, <1>9, Zenon DEF Accounted
  <1>11. QED
    BY <1>3, <1>4, <1>6, <1>7, <1>8, <1>10, Zenon DEF Accounted

(* With nothing run yet, or any more, there is nothing to account for.     *)
LEMMA NothingToAccount ==
  ASSUME succeeded = <<>>, failed = <<>>, skipped = <<>>, position = 0,
         Len(sorted) \in Nat, phase = "done" => Len(sorted) = 0
  PROVE  Accounted
  <1>1. Len(<<>>) = 0 /\ Through = {}
    BY SMT DEF Through
  <1>2. Ran = {} /\ ToSet(skipped) = {} /\ ToSet(succeeded) = {}
    BY EmptyList, Zenon DEF Ran
  <1>3. Len(succeeded) + Len(failed) + Len(skipped) = position /\ position \in 0 .. Len(sorted)
    BY <1>1, SMT
  <1>4. IsList(succeeded) /\ IsList(failed) /\ IsList(skipped)
    BY EmptyList
  <1>5. phase = "done" => position = Len(sorted)
    OBVIOUS
  <1>6. QED
    BY <1>1, <1>2, <1>3, <1>4, <1>5, Zenon DEF Accounted

LEMMA NothingToAccountNext ==
  ASSUME succeeded' = <<>>, failed' = <<>>, skipped' = <<>>, position' = 0,
         Len(sorted') \in Nat, phase' # "done"
  PROVE  Accounted'
  <1>1. Len(<<>>) = 0 /\ Through' = {}
    BY SMT DEF Through
  <1>2. Ran' = {} /\ ToSet(skipped') = {} /\ ToSet(succeeded') = {}
    BY EmptyList, Zenon DEF Ran
  <1>3. Len(succeeded') + Len(failed') + Len(skipped') = position' /\ position' \in 0 .. Len(sorted')
    BY <1>1, SMT
  <1>4. IsList(succeeded') /\ IsList(failed') /\ IsList(skipped')
    BY EmptyList
  <1>5. QED
    BY <1>1, <1>2, <1>3, <1>4, Zenon DEF Accounted

LEMMA AccountedStays ==
  ASSUME Accounted, phase' = "resolving" => phase = "resolving",
         phase' = "done" => position = Len(sorted),
         UNCHANGED <<extractors, dependencies, sorted, position, succeeded, failed, skipped>>
  PROVE  Accounted'
  <1>1. /\ Compatible' = Compatible /\ Ran' = Ran /\ Through' = Through
        /\ \A e : Upstream(e)' = Upstream(e) /\ Needs(e)' = Needs(e)
    BY Zenon DEF Compatible, Ran, Through, Upstream, Needs
  <1>2. \A e \in ToSet(skipped') :
          (\E d \in Upstream(e) : d \in ToSet(failed) \/ d \notin Compatible)'
    BY <1>1, Zenon DEF Accounted
  <1>3. \A e \in Ran' : Needs(e)' \subseteq ToSet(succeeded')
    BY <1>1, Zenon DEF Accounted
  <1>4. QED
    BY <1>1, <1>2, <1>3, Zenon DEF Accounted

LEMMA EmptyIfNothing ==
  ASSUME NEW s, IsList(s), ToSet(s) = {}
  PROVE  s = <<>>
  BY SMT DEF IsList

(* While the order is being made nothing has run.                          *)
LEMMA AccountedSort ==
  ASSUME Kahn, Accounted, Sort
  PROVE  Accounted'
  <1>1. /\ phase = "resolving" /\ phase' = phase
        /\ UNCHANGED <<position, succeeded, failed, skipped>>
    BY Zenon DEF Sort, outcome
  <1>2. position = 0 /\ Through = {}
    BY <1>1, SMT DEF Accounted, Through
  <1>3. succeeded = <<>> /\ failed = <<>> /\ skipped = <<>>
    BY <1>2, EmptyIfNothing, Zenon DEF Accounted, Ran
  <1>4. Len(sorted') \in Nat
    BY KahnSort, ListElements DEF Kahn
  <1>5. phase' # "done"
    BY <1>1
  <1>6. Accounted'
    BY <1>1, <1>2, <1>3, <1>4, <1>5, NothingToAccountNext
  <1>7. QED
    BY <1>6

LEMMA AccountedInit == Init => Accounted
  <1> SUFFICES ASSUME Init PROVE Accounted
    OBVIOUS
  <1>1. sorted = <<>> /\ phase = "resolving" /\ NothingRun
    BY DEF Init
  <1>2. Len(sorted) \in Nat
    BY <1>1, SMT
  <1>3. QED
    BY <1>1, <1>2, NothingToAccount DEF NothingRun

LEMMA AccountedStep ==
  ASSUME Ordered, Accounted, [Next]_vars
  PROVE  Accounted'
  <1>1. Kahn /\ Kahn'
    BY OrderedStep DEF Ordered
  <1>2. CASE Sort
    BY <1>1, <1>2, AccountedSort
  <1>3. CASE Skip
    BY <1>1, <1>3, AccountedSkip
  <1>4. ASSUME NEW keys, RunSucceeds(keys)
        PROVE  Accounted'
    BY <1>1, <1>4, AccountedSuccess
  <1>5. CASE RunFails
    BY <1>1, <1>5, AccountedFailure
  <1>6. CASE Execute
    <2>1. Len(sorted') \in Nat
      BY <1>1, ListElements DEF Kahn
    <2>2. /\ succeeded' = <<>> /\ failed' = <<>> /\ skipped' = <<>>
          /\ position' = 0 /\ phase' # "done"
      BY <1>6 DEF Execute
    <2>3. QED
      BY <2>1, <2>2, NothingToAccountNext
  <1>7. CASE Resolved \/ RunInterrupted \/ Return \/ UNCHANGED vars
    <2>1. /\ UNCHANGED <<extractors, dependencies, sorted, position, succeeded, failed, skipped>>
          /\ phase' = "resolving" => phase = "resolving"
      BY <1>7, Zenon DEF Resolved, RunInterrupted, Return, vars, declared, resolution, outcome
    <2>2. phase' = "done" => position = Len(sorted)
      BY <1>7, Zenon DEF Resolved, RunInterrupted, Return, vars, Accounted
    <2>3. QED
      BY <2>1, <2>2, AccountedStays
  <1>8. QED
    BY <1>2, <1>3, <1>4, <1>5, <1>6, <1>7, Zenon DEF Next, Step

(* What succeeded is closed under Needs, so it holds all that is upstream  *)
(* of an extractor that ran.                                               *)
LEMMA DirectIsEnough == Accounted => RunsOnSuccess
  <1> SUFFICES ASSUME Accounted, NEW e \in Ran, NEW d \in Upstream(e)
               PROVE  d \in ToSet(succeeded)
    BY DEF RunsOnSuccess, Ran
  <1> DEFINE S == ToSet(succeeded) \cap Names
  <1>1. Needs(e) \subseteq S /\ \A x \in S \cap Compatible : Needs(x) \subseteq S
    BY DEF Accounted, Ran, Needs
  <1>2. S \in SUBSET Names
    OBVIOUS
  <1>3. QED
    BY <1>1, <1>2, Zenon DEF Upstream

LEMMA AccountedIsIsolated ==
  ASSUME Kahn, Accounted
  PROVE  FaultIsolation
  <1> SUFFICES ASSUME phase = "done" PROVE FaultIsolation
    BY DEF FaultIsolation
  <1>1. position = Len(sorted) /\ Through = ToSet(sorted)
    BY ListElements DEF Kahn, Accounted, Through
  <1>2. /\ Ran \cup ToSet(skipped) = ToSet(sorted)
        /\ Len(succeeded) + Len(failed) + Len(skipped) = Len(sorted)
        /\ ToSet(succeeded) \cap ToSet(failed) = {} /\ Ran \cap ToSet(skipped) = {}
    BY <1>1 DEF Accounted
  <1>3. \A d \in ToSet(succeeded) : d \in Compatible /\ d \notin ToSet(failed)
    BY <1>2, TypedList DEF Kahn, Ran
  <1>4. \A e \in Ran : \A d \in Upstream(e) : d \in Compatible /\ d \notin ToSet(failed)
    BY <1>3, DirectIsEnough, Zenon DEF RunsOnSuccess, Ran
  <1>5. ToSet(skipped) =
          {e \in ToSet(sorted) : \E d \in Upstream(e) : d \in ToSet(failed) \/ d \notin Compatible}
    BY <1>2, <1>4, Zenon DEF Accounted
  <1>6. Overall = "COMPLETE" <=> failed = <<>> /\ skipped = <<>>
    BY DEF Overall
  <1>7. failed = <<>> /\ skipped = <<>> => ToSet(succeeded) = ToSet(sorted)
    BY <1>2, EmptyList, Zenon DEF Ran
  <1>8. ToSet(succeeded) = ToSet(sorted) => failed = <<>> /\ skipped = <<>>
    <2>1. ToSet(succeeded) = ToSet(sorted) => ToSet(failed) = {} /\ ToSet(skipped) = {}
      BY <1>2, Zenon DEF Ran
    <2>2. QED
      BY <2>1, EmptyIfNothing DEF Accounted
  <1>9. QED
    BY <1>2, <1>5, <1>6, <1>7, <1>8, Zenon DEF FaultIsolation, Ran

(* execute() runs an extractor only after all that it needs, at any        *)
(* distance, has succeeded, as often as it is called, ...                  *)
THEOREM ExecutorRunsOnSuccess == Spec => []RunsOnSuccess
  <1>1. Init => Ordered /\ Accounted
    BY OrderedInit, AccountedInit
  <1>2. Ordered /\ Accounted /\ [Next]_vars => Ordered' /\ Accounted'
    BY OrderedStep, AccountedStep
  <1>3. QED
    BY <1>1, <1>2, DirectIsEnough, PTL DEF Spec

(* ... and what fails takes down only what needs it.                       *)
THEOREM FaultsAreIsolated == Spec => []FaultIsolation
  <1>1. Init => Ordered /\ Accounted
    BY OrderedInit, AccountedInit
  <1>2. Ordered /\ Accounted /\ [Next]_vars => Ordered' /\ Accounted'
    BY OrderedStep, AccountedStep
  <1>3. Ordered /\ Accounted => FaultIsolation
    BY AccountedIsIsolated DEF Ordered
  <1>4. QED
    BY <1>1, <1>2, <1>3, PTL DEF Spec

-----------------------------------------------------------------------------
(* Type correctness: the lists hold extractors of the platform because     *)
(* what the loop is through with does; the rest is per action.             *)

Typed ==
  /\ phase \in {"resolving", "ready", "executing", "done", "interrupted"}
  /\ merged \in [Keys -> Names \cup {NoWriter}]

LEMMA TypedInit == Init => Typed
  BY Zenon DEF Init, NothingRun, Typed

LEMMA TypedStep ==
  ASSUME Ordered, Accounted, Typed, [Next]_vars
  PROVE  Typed'
  <1> USE DEF Typed, vars, outcome
  <1>1. CASE Sort \/ Resolved \/ Skip \/ RunFails \/ RunInterrupted \/ Return \/ UNCHANGED vars
    BY <1>1, Zenon DEF Sort, Resolved, Skip, RunFails, RunInterrupted, Return
  <1>2. ASSUME NEW keys, RunSucceeds(keys)
        PROVE  Typed'
    <2>1. Current \in Names
      BY <1>2, TurnOf, CompatibleNames DEF RunSucceeds, Ordered, Kahn
    <2>2. /\ merged' = [k \in Keys |-> IF k \in keys THEN Current ELSE merged[k]]
          /\ phase' = phase
      BY <1>2 DEF RunSucceeds
    <2>3. QED
      BY <2>1, <2>2, Zenon
  <1>3. CASE Execute
    BY <1>3, Zenon DEF Execute
  <1>4. QED
    BY <1>1, <1>2, <1>3, Zenon DEF Next, Step

LEMMA TypedIsTypeOK ==
  ASSUME Ordered, Accounted, Typed, phase = "resolving" => disabled = <<>>
  PROVE  TypeOK
  <1>1. ToSet(sorted) \subseteq Compatible /\ Through \subseteq ToSet(sorted)
    <2>1. Len(sorted) \in Nat /\ ToSet(sorted) = {sorted[i] : i \in 1 .. Len(sorted)}
      BY ListElements DEF Ordered, Kahn
    <2>2. 1 .. position \subseteq 1 .. Len(sorted)
      BY <2>1, SMT DEF Accounted
    <2>3. QED
      BY <2>1, <2>2, TypedList, Zenon DEF Ordered, Kahn, Through
  <1>2. succeeded \in Seq(Compatible) /\ failed \in Seq(Compatible) /\ skipped \in Seq(Compatible)
    <2>1. /\ ToSet(succeeded) \subseteq Compatible /\ ToSet(failed) \subseteq Compatible
          /\ ToSet(skipped) \subseteq Compatible
      BY <1>1 DEF Accounted, Ran
    <2>2. QED
      BY <2>1, SMT DEF Accounted, IsList
  <1>3. disabled \in Seq(Compatible)
    <2>1. <<>> \in Seq(Compatible)
      BY SMT
    <2>2. QED
      BY <2>1 DEF Ordered
  <1>4. QED
    BY <1>2, <1>3, Zenon DEF TypeOK, Ordered, Kahn, Accounted, Typed

(* Nothing is disabled before the order is made.                           *)
LEMMA DisabledAtTheEnd ==
  ASSUME phase = "resolving" => disabled = <<>>, [Next]_vars
  PROVE  phase' = "resolving" => disabled' = <<>>
  BY Zenon DEF Next, Step, Sort, Resolved, Skip, RunSucceeds, RunFails, RunInterrupted, Return,
     Execute, Running, vars, resolution

(* The executor's variables keep their types: the lists of a result name   *)
(* compatible extractors only, and position stays within the order.        *)
THEOREM ExecutorIsTyped == Spec => []TypeOK
  <1> DEFINE Inv == Ordered /\ Accounted /\ Typed /\ (phase = "resolving" => disabled = <<>>)
  <1>1. Init => Inv
    BY OrderedInit, AccountedInit, TypedInit DEF Init
  <1>2. Inv /\ [Next]_vars => Inv'
    BY OrderedStep, AccountedStep, TypedStep, DisabledAtTheEnd, Zenon
  <1>3. Inv => TypeOK
    BY TypedIsTypeOK
  <1>4. QED
    BY <1>1, <1>2, <1>3, PTL DEF Spec

-----------------------------------------------------------------------------
(* The executor inside a command.                                          *)

(* Every step of a command is a step of the executor or leaves it alone.   *)
LEMMA CommandDrivesExecutor == [Main]_allVars => [Next]_vars
  <1>1. Extract => Next
    BY DEF Extract, Next
  <1>2. QED
    BY <1>1, Zenon DEF Main, allVars, Refuse, Open, Examine, Prepare, Ingest, RecordEvent, Extracted,
       Complete, Write, Raise, CloseAudit, CloseRaises, CloseDump, PrintFails, Exit

(* In a scan as for the executor alone: the order is sound and leaves out  *)
(* what is on a cycle or needs one, an extractor runs only when all that it*)
(* needs has succeeded, and a failure reaches nobody else.                 *)
THEOREM ScanOrdersAndIsolates ==
  PipelineSpec => [](OrderIsTopological /\ OrderIsComplete /\ RunsOnSuccess /\ FaultIsolation)
  <1>1. PipelineInit => Ordered /\ Accounted
    BY OrderedInit, AccountedInit DEF PipelineInit
  <1>2. Ordered /\ Accounted /\ [Main]_allVars => Ordered' /\ Accounted'
    BY CommandDrivesExecutor, OrderedStep, AccountedStep
  <1>3. Ordered /\ Accounted =>
          OrderIsTopological /\ OrderIsComplete /\ RunsOnSuccess /\ FaultIsolation
    BY KahnIsTopological, OrderedIsComplete, DirectIsEnough, AccountedIsIsolated DEF Ordered
  <1>4. QED
    BY <1>1, <1>2, <1>3, PTL DEF PipelineSpec

-----------------------------------------------------------------------------
(* Where a command is and what it has recorded and written so far.         *)

Ingested == <<"DUMP_INGESTED">>
Completed == <<"DUMP_INGESTED", "SCAN_COMPLETED">>

(* The executor rests until the ingestion is recorded, and for good after  *)
(* it is done; the trail and the report follow the place in the code.      *)
Progress ==
  /\ trail \in {<<>>, Ingested, Completed}
  /\ trail = <<>> => phase = "resolving" /\ position = 0
  /\ trail = Completed => phase = "done"
  /\ phase = "done" => position = Len(sorted)
  /\ at \in {"start", "examine", "prepare", "ingest"} => trail = <<>>
  /\ at \in {"extract", "record"} => trail = Ingested
  /\ at = "record" => phase = "done"
  /\ at = "report" => trail = Completed
  /\ report # "none" => trail = Completed
  /\ at \in {"start", "examine", "prepare", "ingest", "extract", "record", "report"} => report = "none"

LEMMA Recorded ==
  /\ Append(<<>>, "DUMP_INGESTED") = Ingested
  /\ Append(Ingested, "SCAN_COMPLETED") = Completed
  /\ Len(<<>>) = 0 /\ Len(Ingested) = 1 /\ Len(Completed) = 2
  /\ <<>> # Ingested /\ <<>> # Completed /\ Ingested # Completed
  <1>1. Append(<<>>, "DUMP_INGESTED") = Ingested
    BY SMT DEF Ingested
  <1>2. Append(Ingested, "SCAN_COMPLETED") = Completed
    <2> DEFINE E == {"DUMP_INGESTED", "SCAN_COMPLETED"}
               s == Append(Ingested, "SCAN_COMPLETED")
    <2>1. Ingested \in Seq(E) /\ Completed \in Seq(E)
      BY SMT DEF Ingested, Completed
    <2>2. s \in Seq(E)
      BY <2>1, SMT
    <2>3. Len(s) = Len(Completed)
      BY SMT DEF Ingested, Completed
    <2>4. \A i \in 1 .. Len(s) : s[i] = Completed[i]
      BY SMT DEF Ingested, Completed
    <2>5. QED
      BY <2>1, <2>2, <2>3, <2>4, SeqEqual, Zenon
  <1>3. Len(<<>>) = 0 /\ Len(Ingested) = 1 /\ Len(Completed) = 2
    BY SMT DEF Ingested, Completed
  <1>4. QED
    BY <1>1, <1>2, <1>3, SMT

(* Only the executor's own steps move it, and a finished one rests.        *)
LEMMA ExecutorProgress ==
  ASSUME Progress, Extract
  PROVE  Progress'
  <1>1. at = "extract" /\ trail = Ingested /\ UNCHANGED pipeline
    BY Zenon DEF Progress, Extract
  <1>2. trail' = Ingested /\ at' = "extract" /\ report' = report /\ report = "none"
    BY <1>1, Zenon DEF Progress, pipeline, products
  <1>3. phase' = "done" => position' = Len(sorted')
    <2> USE DEF Progress, declared, resolution, outcome
    <2>1. CASE Sort \/ Resolved \/ Execute \/ RunInterrupted
      <3>1. phase' # "done"
        BY <2>1, Zenon DEF Sort, Resolved, Execute, RunInterrupted
      <3>2. QED
        BY <3>1
    <2>2. CASE Return
      BY <2>2, Zenon DEF Return
    <2>3. CASE Skip \/ RunFails \/ RunSucceeds({}) \/ RunSucceeds(KeysOf[Current])
      <3>1. phase = "executing" /\ phase' = phase
        BY <2>3, Zenon DEF Skip, RunFails, RunSucceeds, Running
      <3>2. QED
        BY <3>1
    <2>4. QED
      BY <2>1, <2>2, <2>3, Zenon DEF Extract, Step
  <1>4. QED
    BY <1>2, <1>3, Recorded, SMT DEF Progress

LEMMA ProgressStep ==
  ASSUME Progress, [Main]_allVars
  PROVE  Progress'
  <1> USE Recorded DEF Progress, files, products
  <1>1. CASE Extract
    BY <1>1, ExecutorProgress
  <1>2. CASE UNCHANGED allVars
    BY <1>2, SMT DEF allVars, pipeline, vars, declared, resolution, outcome
  <1> USE DEF vars, declared, resolution, outcome
  <1>3. CASE Refuse \/ Open \/ Examine \/ Prepare \/ PrintFails \/ Exit
    BY <1>3, SMT DEF Refuse, Open, Examine, Prepare, PrintFails, Exit, Goto
  <1>4. CASE Ingest \/ Complete
    BY <1>4, SMT DEF Ingest, Complete, RecordEvent, Goto
  <1>5. CASE Extracted \/ Write \/ Raise
    BY <1>5, SMT DEF Extracted, Write, Raise, Goto
  <1>6. CASE CloseAudit \/ CloseRaises \/ CloseDump
    BY <1>6, SMT DEF CloseAudit, CloseRaises, CloseDump, Goto
  <1>7. QED
    BY <1>1, <1>2, <1>3, <1>4, <1>5, <1>6, Zenon DEF Main

(* Extractors only run on a dump whose ingestion is recorded,              *)
(* SCAN_COMPLETED is recorded once and only when all extractors are        *)
(* through, and no byte of a report is written before it.                  *)
THEOREM TrailTellsTheTruth == PipelineSpec => []TrailIsTruthful
  <1>1. PipelineInit => Progress
    BY Recorded, SMT DEF PipelineInit, Init, NothingRun, Progress
  <1>2. Progress /\ [Main]_allVars => Progress'
    BY ProgressStep
  <1>3. Progress => TrailIsTruthful
    BY Recorded, SMT DEF Progress, TrailIsTruthful, Ingested, Completed
  <1>4. QED
    BY <1>1, <1>2, <1>3, PTL DEF PipelineSpec

-----------------------------------------------------------------------------
(* What is open, and what the exit code will say.                          *)

Whole == command = "scan" => trail = Completed /\ report = "written"

(* A file is open from the place that opens it to the one that closes it;  *)
(* while nothing has raised, everything before the place has been done;    *)
(* commands other than scan leave nothing behind.                          *)
Honest ==
  /\ at \notin {"finally", "close", "over"} => exit = "running"
  /\ command # "scan" =>
       /\ at \notin {"prepare", "ingest", "extract", "record", "report"}
       /\ trail = <<>> /\ report = "none" /\ audit = "none"
  /\ at = "start" => dump = "none" /\ audit = "none"
  /\ at \in {"examine", "prepare"} => dump = "open" /\ audit = "none"
  /\ at \in {"ingest", "extract", "record", "report"} => dump = "open" /\ audit = "open"
  /\ at \in {"finally", "close"} =>
       /\ dump = "open" /\ exit \in {"running", "traceback"}
       /\ exit = "running" => Whole /\ (command = "scan" => audit # "none")
  /\ at = "close" => audit # "open"
  /\ at = "print" => dump = "closed" /\ audit # "open" /\ Whole
                     /\ (command = "scan" => audit = "closed")
  /\ report = "torn" => exit = "traceback"
  /\ audit \in {"none", "open", "closed"}
  /\ ExitIsHonest

LEMMA HonestStep ==
  ASSUME Progress, Honest, [Main]_allVars
  PROVE  Honest'
  <1> USE Recorded DEF Honest, Progress, ExitIsHonest, Whole, files, products, pipeline
  <1>1. CASE UNCHANGED pipeline
    BY <1>1, SMT
  <1>2. CASE Refuse \/ Open
    BY <1>2, SMT DEF Refuse, Open, Goto
  <1>3. CASE Examine \/ Prepare
    BY <1>3, SMT DEF Examine, Prepare, Goto
  <1>4. CASE Ingest \/ Complete
    BY <1>4, SMT DEF Ingest, Complete, RecordEvent, Goto
  <1>5. CASE Extracted \/ Write
    BY <1>5, SMT DEF Extracted, Write, Goto
  <1>6. CASE Raise
    BY <1>6, SMT DEF Raise, Goto
  <1>7. CASE CloseAudit \/ CloseRaises
    BY <1>7, SMT DEF CloseAudit, CloseRaises, Goto
  <1>8. CASE CloseDump \/ PrintFails \/ Exit
    BY <1>8, SMT DEF CloseDump, PrintFails, Exit, Goto
  <1>9. QED
    BY <1>1, <1>2, <1>3, <1>4, <1>5, <1>6, <1>7, <1>8, Zenon DEF Main, Extract, allVars

(* Exit code 0 means that everything was done and closed, code 1 that      *)
(* nothing was begun; a command that failed otherwise never opened a file  *)
(* or has closed all of them, unless closing the trail is what failed, and *)
(* a torn report is always that of a command that failed.                  *)
THEOREM ExitCodeIsHonest == PipelineSpec => []ExitIsHonest
  <1>1. PipelineInit => Progress /\ Honest
    BY Recorded, SMT DEF PipelineInit, Init, NothingRun, Progress, Honest, ExitIsHonest
  <1>2. Progress /\ Honest /\ [Main]_allVars => Progress' /\ Honest'
    BY ProgressStep, HonestStep
  <1>3. Honest => ExitIsHonest
    BY DEF Honest
  <1>4. QED
    BY <1>1, <1>2, <1>3, PTL DEF PipelineSpec

-----------------------------------------------------------------------------
(* Type correctness of the whole command.                                  *)

CommandTyped ==
  /\ command \in Commands /\ at \in Places
  /\ dump \in {"none", "open", "closed"} /\ audit \in {"none", "open", "closed"}
  /\ report \in {"none", "torn", "written"}
  /\ exit \in {"running", "usage", "traceback", "ok"}

LEMMA CommandTypedStep ==
  ASSUME CommandTyped, [Main]_allVars
  PROVE  CommandTyped'
  <1> USE DEF CommandTyped, Places, files, products, pipeline, Goto
  <1>1. CASE Extract \/ UNCHANGED allVars
    BY <1>1, Zenon DEF Extract, allVars
  <1>2. CASE Refuse \/ Open \/ Examine \/ Prepare \/ PrintFails \/ Exit
    BY <1>2, SMT DEF Refuse, Open, Examine, Prepare, PrintFails, Exit
  <1>3. CASE Ingest \/ Complete
    BY <1>3, SMT DEF Ingest, Complete, RecordEvent
  <1>4. CASE Extracted \/ Write \/ Raise
    BY <1>4, SMT DEF Extracted, Write, Raise
  <1>5. CASE CloseAudit \/ CloseRaises \/ CloseDump
    BY <1>5, SMT DEF CloseAudit, CloseRaises, CloseDump
  <1>6. QED
    BY <1>1, <1>2, <1>3, <1>4, <1>5, Zenon DEF Main

(* The variables of a command and of its executor keep their types.        *)
THEOREM ScanIsTyped == PipelineSpec => []PipelineTypeOK
  <1> DEFINE ExecutorInv ==
               Ordered /\ Accounted /\ Typed /\ (phase = "resolving" => disabled = <<>>)
             Inv == ExecutorInv /\ Progress /\ CommandTyped
  <1>1. PipelineInit => Inv
    <2>1. PipelineInit => ExecutorInv
      BY OrderedInit, AccountedInit, TypedInit DEF PipelineInit, Init
    <2>2. PipelineInit => Progress
      BY Recorded, SMT DEF PipelineInit, Init, NothingRun, Progress
    <2>3. PipelineInit => CommandTyped
      BY SMT DEF PipelineInit, CommandTyped, Places
    <2>4. QED
      BY <2>1, <2>2, <2>3
  <1>2. Inv /\ [Main]_allVars => Inv'
    BY CommandDrivesExecutor, OrderedStep, AccountedStep, TypedStep, DisabledAtTheEnd,
       ProgressStep, CommandTypedStep, Zenon
  <1>3. Inv => PipelineTypeOK
    <2>1. /\ <<>> \in Seq({"DUMP_INGESTED", "SCAN_COMPLETED"})
          /\ Ingested \in Seq({"DUMP_INGESTED", "SCAN_COMPLETED"})
          /\ Completed \in Seq({"DUMP_INGESTED", "SCAN_COMPLETED"})
      BY SMT DEF Ingested, Completed
    <2>2. QED
      BY <2>1, TypedIsTypeOK, Zenon DEF PipelineTypeOK, Progress, CommandTyped
  <1>4. QED
    BY <1>1, <1>2, <1>3, PTL DEF PipelineSpec
=============================================================================
