-------------------------- MODULE ExtractorsProofs --------------------------
(***************************************************************************)
(* What the extractors that search the dump find, for files of any size,   *)
(* chunks, limits and memories.                                            *)
(***************************************************************************)
EXTENDS LinuxLists, ListLemmas

-----------------------------------------------------------------------------
(* InOrder(S) lists S in the order of its places.                          *)

Apart(S) == (\A o \in S : o.at \in Nat) /\ \A o, q \in S : o.at = q.at => o = q

Before(S, o) == {q \in S : q.at < o.at}

(* What comes later has more before it.                                    *)
LEMMA BeforeGrows ==
  ASSUME NEW S, IsFiniteSet(S), Apart(S)
  PROVE  /\ \A o \in S : Cardinality(Before(S, o)) \in Nat
         /\ \A o \in S : Cardinality(Before(S, o)) < Cardinality(S)
         /\ \A o, q \in S : o.at < q.at =>
              Cardinality(Before(S, o)) < Cardinality(Before(S, q))
  <1>1. \A o \in S : IsFiniteSet(Before(S, o)) /\ Before(S, o) \subseteq S /\ o \notin Before(S, o)
    <2> SUFFICES ASSUME NEW o \in S
                 PROVE  IsFiniteSet(Before(S, o)) /\ Before(S, o) \subseteq S /\ o \notin Before(S, o)
      OBVIOUS
    <2>1. Before(S, o) \subseteq S /\ o \notin Before(S, o)
      BY SMT DEF Before, Apart
    <2>2. QED
      BY <2>1, FS_Subset, Zenon
  <1>2. \A o \in S : Cardinality(Before(S, o)) \in Nat
    BY <1>1, FS_CardinalityType, Zenon
  <1>3. ASSUME NEW T, IsFiniteSet(T), NEW o \in S, o \in T, Before(S, o) \subseteq T
        PROVE  Cardinality(Before(S, o)) < Cardinality(T)
    <2>1. Before(S, o) # T
      BY <1>1, <1>3
    <2>2. Before(S, o) \in SUBSET T
      BY <1>3
    <2>3. /\ Cardinality(Before(S, o)) <= Cardinality(T)
          /\ Cardinality(T) # Cardinality(Before(S, o))
      BY <1>3, <2>1, <2>2, FS_Subset, Zenon
    <2>4. Cardinality(T) \in Nat
      BY <1>3, FS_CardinalityType, Zenon
    <2>5. QED
      BY <1>2, <2>3, <2>4, SMT
  <1>4. \A o \in S : Cardinality(Before(S, o)) < Cardinality(S)
    BY <1>1, <1>3, Zenon
  <1>5. ASSUME NEW o \in S, NEW q \in S, o.at < q.at
        PROVE  Cardinality(Before(S, o)) < Cardinality(Before(S, q))
    <2>1. o \in Before(S, q) /\ Before(S, o) \subseteq Before(S, q)
      BY <1>5, SMT DEF Before, Apart
    <2>2. QED
      BY <1>1, <1>3, <2>1, Zenon
  <1>6. QED
    BY <1>2, <1>4, <1>5

LEMMA ListedInOrder ==
  ASSUME NEW S, IsFiniteSet(S), Apart(S)
  PROVE  /\ InOrder(S) \in Seq(S) /\ ToSet(InOrder(S)) = S
         /\ Len(InOrder(S)) = Cardinality(S) /\ Cardinality(S) \in Nat
         /\ \A i, j \in 1 .. Cardinality(S) : i < j => InOrder(S)[i].at < InOrder(S)[j].at
  <1> DEFINE n == Cardinality(S)
             rank == [o \in S |-> Cardinality(Before(S, o)) + 1]
             s == InOrder(S)
  <1>1. n \in Nat
    BY FS_CardinalityType, Zenon
  <1>2. \A o, q \in S : o.at < q.at => rank[o] < rank[q]
    BY BeforeGrows, SMT
  <1>3. rank \in Injection(S, 1 .. n)
    <2>1. \A o \in S : rank[o] \in 1 .. n
      BY <1>1, BeforeGrows, SMT
    <2>2. \A o, q \in S : rank[o] = rank[q] => o = q
      BY <1>2, <2>1, SMT DEF Apart
    <2> HIDE DEF n
    <2>3. rank \in [S -> 1 .. n]
      BY <2>1
    <2> HIDE DEF rank
    <2>4. QED
      BY <2>2, <2>3, Zenon DEF Injection, IsInjective
  <1>4. \A i \in 1 .. n : \E o \in S : rank[o] = i
    <2>1. IsFiniteSet(1 .. n) /\ Cardinality(1 .. n) = n
      BY <1>1, FS_Interval, SMT
    <2> HIDE DEF rank
    <2>2. rank \in Surjection(S, 1 .. n)
      BY <1>3, <2>1, FS_Injection, Zenon
    <2>3. QED
      BY <2>2, Zenon DEF Surjection
  <1>5. ASSUME NEW i \in 1 .. n
        PROVE  s[i] \in S /\ rank[s[i]] = i
    <2>1. s[i] = CHOOSE o \in S : Cardinality(Before(S, o)) = i - 1
      BY Zenon DEF InOrder, Before
    <2>2. \E o \in S : Cardinality(Before(S, o)) = i - 1
      BY <1>1, <1>4, BeforeGrows, SMT
    <2>3. s[i] \in S /\ Cardinality(Before(S, s[i])) = i - 1
      BY <2>1, <2>2, Zenon
    <2>4. QED
      BY <1>1, <2>3, SMT
  <1>6. s \in Seq(S) /\ Len(s) = n /\ DOMAIN s = 1 .. n
    <2> DEFINE place(i) == CHOOSE o \in S : Cardinality({q \in S : q.at < o.at}) = i - 1
    <2>1. s = [i \in 1 .. n |-> place(i)]
      BY DEF InOrder
    <2> HIDE DEF s, n, place
    <2>2. DOMAIN s = 1 .. n /\ \A i \in 1 .. n : place(i) \in S
      BY <1>5, <2>1, Zenon
    <2>3. s \in [1 .. n -> S]
      BY <2>1, <2>2, Zenon
    <2>4. QED
      BY <1>1, <2>2, <2>3, SMT
  <1>7. \A o \in S : rank[o] \in 1 .. n /\ s[rank[o]] = o
    <2> HIDE DEF rank, s, n
    <2>1. QED
      BY <1>3, <1>5, Zenon DEF Injection, IsInjective
  <1>8. ToSet(s) = S
    <2> HIDE DEF rank, s, n
    <2>1. ToSet(s) = {s[i] : i \in 1 .. n}
      BY <1>6, Zenon DEF ToSet
    <2>2. QED
      BY <1>5, <1>7, <2>1, Zenon
  <1>9. ASSUME NEW i \in 1 .. n, NEW j \in 1 .. n, i < j
        PROVE  s[i].at < s[j].at
    <2> HIDE DEF rank, s, n
    <2>1. ~ (s[j].at < s[i].at) /\ s[i] # s[j]
      BY <1>1, <1>2, <1>5, <1>9, SMT
    <2>2. QED
      BY <1>5, <2>1, SMT DEF Apart
  <1>10. QED
    BY <1>1, <1>6, <1>8, <1>9

-----------------------------------------------------------------------------
(* What AddAll(list, es) adds.  The recursion is unfolded once, into a     *)
(* function g that holds the list after each of the entries es.            *)

Added(list, es, g, n) == IF n = 0 THEN list ELSE Add(g[n - 1], es[n])
AddedUpTo(list, es, g, k) == g = [n \in 0 .. k |-> Added(list, es, g, n)]

LEMMA AddedExists ==
  ASSUME NEW list, NEW es, Len(es) \in Nat
  PROVE  \E g : AddedUpTo(list, es, g, Len(es))
  <1> DEFINE G == {k \in 0 .. Len(es) : \E g : AddedUpTo(list, es, g, k)}
  <1>1. 0 \in G
    <2>1. AddedUpTo(list, es, [n \in 0 .. 0 |-> list], 0)
      BY SMT DEF AddedUpTo, Added
    <2>2. QED
      BY <2>1
  <1>2. ASSUME NEW k \in 1 .. Len(es), k - 1 \in G
        PROVE  k \in G
    <2>1. PICK g : AddedUpTo(list, es, g, k - 1)
      BY <1>2
    <2>2. \A n \in 0 .. k - 1 : g[n] = Added(list, es, g, n)
      BY <2>1, Zenon DEF AddedUpTo
    <2> DEFINE h == [n \in 0 .. k |-> IF n < k THEN g[n] ELSE Added(list, es, g, k)]
    <2>3. ASSUME NEW n \in 0 .. k
          PROVE  h[n] = Added(list, es, h, n)
      <3>1. CASE n = k
        BY <3>1, SMT DEF Added
      <3>2. CASE n < k
        <4>1. n \in 0 .. k - 1
          BY <3>2
        <4>2. h[n] = g[n] /\ (n # 0 => h[n - 1] = g[n - 1])
          BY <3>2, SMT
        <4>3. QED
          BY <2>2, <4>1, <4>2, Zenon DEF Added
      <3>3. QED
        BY <3>1, <3>2
    <2>4. AddedUpTo(list, es, h, k)
      BY <2>3, Zenon DEF AddedUpTo
    <2>5. QED
      BY <2>4
  <1>3. 0 .. Len(es) \subseteq G
    <2> HIDE DEF G
    <2>1. QED
      BY <1>1, <1>2, IntervalInduction
  <1>4. Len(es) \in G
    BY <1>3, SMTT(30)
  <1>5. QED
    BY <1>4

LEMMA AddAllIsAdded ==
  ASSUME NEW list, NEW es, Len(es) \in Nat
  PROVE  \E g : AddedUpTo(list, es, g, Len(es)) /\ AddAll(list, es) = g[Len(es)]
  <1> DEFINE f == CHOOSE f : AddedUpTo(list, es, f, Len(es))
  <1>1. AddedUpTo(list, es, f, Len(es))
    BY AddedExists
  <1>2. AddAll(list, es) = f[Len(es)]
    BY Zenon DEF AddAll, AddedUpTo, Added
  <1>3. QED
    BY <1>1, <1>2

KeysOf(list) == {list[i].key : i \in DOMAIN list}

OneEach(l) == IsList(l) /\ \A i, j \in DOMAIN l : l[i].key = l[j].key => i = j

Extends(l, list) ==
  Len(list) <= Len(l) /\ \A i \in 1 .. Len(list) : l[i] = list[i]

(* A kind that has reached its limit keeps it.                             *)
LEMMA FullStays ==
  ASSUME NEW list, IsList(list), NEW l, IsList(l), Extends(l, list), NEW kind,
         Full(list, kind)
  PROVE  Full(l, kind)
  <1> DEFINE K == {i \in DOMAIN list : list[i].key[1] = kind}
             L == {i \in DOMAIN l : l[i].key[1] = kind}
  <1>1. /\ DOMAIN list = 1 .. Len(list) /\ Len(list) \in Nat
        /\ DOMAIN l = 1 .. Len(l) /\ Len(l) \in Nat
    BY SMT DEF IsList
  <1>2. K \in SUBSET L
    BY <1>1, SMT DEF Extends
  <1>3. IsFiniteSet(L)
    <2>1. IsFiniteSet(1 .. Len(l)) /\ L \in SUBSET (1 .. Len(l))
      BY <1>1, FS_Interval, SMT
    <2> HIDE DEF L
    <2>2. QED
      BY <2>1, FS_Subset, Zenon
  <1> HIDE DEF K, L
  <1>4. /\ Cardinality(K) <= Cardinality(L)
        /\ Cardinality(K) \in Nat /\ Cardinality(L) \in Nat
    BY <1>2, <1>3, FS_Subset, FS_CardinalityType, Zenon
  <1>5. MaxHits \in Nat /\ MaxHits <= Cardinality(K)
    BY ChunkAssumption, SMT DEF Full, K
  <1>6. MaxHits <= Cardinality(L)
    BY <1>4, <1>5
  <1>7. QED
    BY <1>6, Zenon DEF Full, L

(* l is list with the first n of es added: nothing else, none twice, and   *)
(* none is missing but of a kind that has reached its limit.               *)
Grown(list, es, n, l) ==
  /\ OneEach(l) /\ Extends(l, list)
  /\ ToSet(l) \subseteq ToSet(list) \cup {es[i] : i \in 1 .. n}
  /\ \A i \in 1 .. n : es[i].key \in KeysOf(l) \/ Full(l, es[i].key[1])

LEMMA AddGrows ==
  ASSUME NEW list, IsList(list), NEW es, Len(es) \in Nat, NEW n \in 1 .. Len(es),
         NEW l, Grown(list, es, n - 1, l)
  PROVE  Grown(list, es, n, Add(l, es[n]))
  <1> DEFINE e == es[n]
             m == Add(l, e)
  <1>1. 1 .. n = 1 .. n - 1 \cup {n}
    OBVIOUS
  <1>2. IsList(l) /\ OneEach(l) /\ Extends(l, list)
    BY Zenon DEF Grown, OneEach
  <1>3. CASE Full(l, e.key[1]) \/ e.key \in KeysOf(l)
    <2>1. m = l
      BY <1>3, Zenon DEF Add, KeysOf
    <2>2. QED
      BY <1>1, <1>3, <2>1, Zenon DEF Grown
  <1>4. CASE ~Full(l, e.key[1]) /\ e.key \notin KeysOf(l)
    <2>1. m = Append(l, e)
      BY <1>4, Zenon DEF Add, KeysOf
    <2>2. /\ IsList(m) /\ ToSet(m) = ToSet(l) \cup {e} /\ Len(m) = Len(l) + 1
      BY <1>2, <2>1, AppendedList, Zenon
    <2>3. /\ DOMAIN l = 1 .. Len(l) /\ DOMAIN m = 1 .. Len(l) + 1 /\ Len(l) \in Nat
          /\ m[Len(l) + 1] = e /\ \A i \in 1 .. Len(l) : m[i] = l[i]
      BY <1>2, <2>1, SMT DEF IsList
    <2>4. Len(list) \in Nat
      BY SMT DEF IsList
    <2> HIDE DEF m, e
    <2>5. Extends(m, l) /\ Extends(m, list)
      BY <1>2, <2>2, <2>3, <2>4, SMT DEF Extends
    <2>6. KeysOf(m) = KeysOf(l) \cup {e.key}
      BY <2>3, SMT DEF KeysOf
    <2>7. OneEach(m)
      <3>1. \A i \in 1 .. Len(l) : l[i].key # e.key
        BY <1>4, <2>3, Zenon DEF KeysOf
      <3>2. QED
        BY <1>2, <2>2, <2>3, <3>1, SMT DEF OneEach
    <2>8. ASSUME NEW i \in 1 .. n
          PROVE  es[i].key \in KeysOf(m) \/ Full(m, es[i].key[1])
      <3>1. CASE i = n
        BY <2>6, <3>1 DEF e
      <3>2. CASE i \in 1 .. n - 1
        <4>1. es[i].key \in KeysOf(l) \/ Full(l, es[i].key[1])
          BY <3>2, Zenon DEF Grown
        <4>2. Full(l, es[i].key[1]) => Full(m, es[i].key[1])
          BY <1>2, <2>2, <2>5, FullStays
        <4>3. QED
          BY <2>6, <4>1, <4>2
      <3>3. QED
        BY <1>1, <3>1, <3>2
    <2>9. ToSet(m) \subseteq ToSet(list) \cup {es[i] : i \in 1 .. n}
      BY <1>1, <2>2, Zenon DEF Grown, e
    <2>10. QED
      BY <2>5, <2>7, <2>8, <2>9, Zenon DEF Grown, m, e
  <1>5. QED
    BY <1>3, <1>4

LEMMA AddAllGrows ==
  ASSUME NEW list, OneEach(list), NEW es, Len(es) \in Nat
  PROVE  Grown(list, es, Len(es), AddAll(list, es))
  <1>1. PICK g : AddedUpTo(list, es, g, Len(es)) /\ AddAll(list, es) = g[Len(es)]
    BY AddAllIsAdded
  <1>2. \A n \in 0 .. Len(es) : g[n] = Added(list, es, g, n)
    BY <1>1, Zenon DEF AddedUpTo
  <1>3. IsList(list) /\ Len(list) \in Nat
    BY SMT DEF OneEach, IsList
  <1> DEFINE G == {n \in 0 .. Len(es) : Grown(list, es, n, g[n])}
  <1>4. 0 \in G
    <2>1. g[0] = list
      BY <1>2, SMT DEF Added
    <2>2. Extends(list, list) /\ \A i \in 1 .. 0 : FALSE
      BY <1>3, SMT DEF Extends
    <2>3. Grown(list, es, 0, list)
      BY <2>2, Zenon DEF Grown
    <2>4. QED
      BY <2>1, <2>3
  <1>5. ASSUME NEW n \in 1 .. Len(es), n - 1 \in G
        PROVE  n \in G
    <2>1. Grown(list, es, n - 1, g[n - 1]) /\ n \in 0 .. Len(es) /\ n # 0
      BY <1>5
    <2>2. g[n] = Add(g[n - 1], es[n])
      BY <1>2, <2>1, Zenon DEF Added
    <2>3. Grown(list, es, n, g[n])
      BY <1>3, <2>1, <2>2, AddGrows
    <2>4. QED
      BY <2>1, <2>3
  <1>6. 0 .. Len(es) \subseteq G
    <2> HIDE DEF G
    <2>1. QED
      BY <1>4, <1>5, IntervalInduction
  <1>7. Len(es) \in G
    BY <1>6, SMTT(30)
  <1>8. QED
    BY <1>1, <1>7

-----------------------------------------------------------------------------
(* The entries of a chunk.                                                 *)

LEMMA JoinedLists ==
  ASSUME NEW s, IsList(s), NEW t, IsList(t)
  PROVE  /\ IsList(s \o t) /\ ToSet(s \o t) = ToSet(s) \cup ToSet(t)
         /\ Len(s \o t) \in Nat
  <1> DEFINE S == ToSet(s) \cup ToSet(t)
  <1>1. s \in Seq(S) /\ t \in Seq(S)
    BY SMT DEF IsList
  <1>2. s \o t \in Seq(S) /\ ToSet(s \o t) = ToSet(s) \cup ToSet(t)
    BY <1>1, JoinedList, ZenonT(30)
  <1>3. Len(s \o t) \in Nat
    BY <1>2, SMT
  <1>4. QED
    BY <1>2, <1>3, TypedList, Zenon

LEMMA ChosenAreApart ==
  ASSUME NEW f, IsFile(f), NEW S, S \subseteq f.occurrences
  PROVE  IsFiniteSet(S) /\ Apart(S)
  <1>1. IsFiniteSet(S)
    BY FS_Subset, Zenon DEF IsFile
  <1>2. Apart(S)
    BY Zenon DEF IsFile, Apart
  <1>3. QED
    BY <1>1, <1>2

(* The patterns take turns, each goes through the part from its start.     *)
Turns == {<<"a", "b">>, <<"a", "c">>, <<"b", "c">>}

InTurn(d, e) ==
  <<d.pattern, e.pattern>> \in Turns \/ (d.pattern = e.pattern /\ d.at < e.at)

InTurns(l) == \A i, j \in DOMAIN l : i < j => InTurn(l[i], l[j])

(* l lists the entries E in their turn, all of patterns in P.              *)
Lists(l, E, P) ==
  /\ IsList(l) /\ ToSet(l) = E /\ InTurns(l)
  /\ \A e \in E : e.pattern \in P

LEMMA ListOfEntries ==
  ASSUME NEW S, IsFiniteSet(S), Apart(S), NEW text, NEW key, NEW p, \A o \in S : o.pattern = p,
         NEW E, \A q : q \in E <=> \E o \in S : q = Entry(o, text[o], key[o])
  PROVE  Lists(EntriesFor(S, text, key), E, {p})
  <1> DEFINE n == Cardinality(S)
             s == InOrder(S)
             e(i) == Entry(s[i], text[s[i]], key[s[i]])
             l == EntriesFor(S, text, key)
  <1>1. s \in Seq(S) /\ ToSet(s) = S /\ Len(s) = n /\ n \in Nat
    BY ListedInOrder, Zenon
  <1>2. l = [i \in 1 .. n |-> e(i)]
    BY Zenon DEF EntriesFor
  <1>3. S = {s[i] : i \in 1 .. n}
    BY <1>1, ListElements, Zenon
  <1>4. \A i, j \in 1 .. n : i < j => s[i].at < s[j].at
    BY ListedInOrder, Zenon
  <1> HIDE DEF s
  <1>5. {e(i) : i \in 1 .. n} = E
    <2>1. \A o : o \in S <=> \E i \in 1 .. n : o = s[i]
      BY <1>3, SMT
    <2> DEFINE g(o) == Entry(o, text[o], key[o])
    <2>2. (\A q : q \in E <=> \E o \in S : q = g(o)) /\ \A i \in 1 .. n : e(i) = g(s[i])
      BY Zenon
    <2> HIDE DEF g, e, n
    <2>3. \A q : q \in E <=> \E i \in 1 .. n : q = e(i)
      BY <2>1, <2>2, SMT
    <2>4. QED
      BY <2>3, SMT
  <1>6. \A i \in 1 .. n : e(i).at = s[i].at /\ e(i).pattern = p
    BY <1>3, SMT DEF Entry
  <1> HIDE DEF n, l, e
  <1>7. l \in Seq({e(i) : i \in 1 .. n}) /\ Len(l) = n /\ DOMAIN l = 1 .. n
    BY <1>1, <1>2, SMT
  <1>8. ToSet(l) = {e(i) : i \in 1 .. n}
    BY <1>1, <1>2, <1>7, SMT DEF ToSet
  <1>9. IsList(l)
    BY <1>7, <1>8, Zenon DEF IsList
  <1>10. InTurns(l)
    BY <1>2, <1>4, <1>6, <1>7, ZenonT(30) DEF InTurns, InTurn
  <1>11. \A q \in ToSet(l) : q.pattern \in {p}
    BY <1>6, <1>8, Zenon
  <1>12. QED
    BY <1>5, <1>8, <1>9, <1>10, <1>11, Zenon DEF n, l, e, Lists

LEMMA EveryList ==
  ASSUME IsFile(file), NEW p, NEW lo, NEW hi, NEW key
  PROVE  Lists(Every(p, lo, hi, key),
               {Entry(o, Text(o, hi), key[o]) : o \in Occurring(p, lo, hi)}, {p})
  <1> DEFINE S == Occurring(p, lo, hi)
  <1>1. S \subseteq file.occurrences /\ \A o \in S : o.pattern = p
    BY Zenon DEF Occurring
  <1>2. \A o \in S : Texts(hi)[o] = Text(o, hi)
    BY <1>1, Zenon DEF Texts
  <1> HIDE DEF S
  <1> DEFINE E == {Entry(o, Text(o, hi), key[o]) : o \in S}
  <1>3. \A q : q \in E <=> \E o \in S : q = Entry(o, Texts(hi)[o], key[o])
    BY <1>2, Zenon
  <1> HIDE DEF E
  <1>4. Lists(EntriesFor(S, Texts(hi), key), E, {p})
    <2>1. IsFiniteSet(S) /\ Apart(S)
      BY <1>1, ChosenAreApart
    <2>2. QED
      BY <1>1, <1>3, <2>1, ListOfEntries
  <1>5. QED
    BY <1>4 DEF Every, S, E

LEMMA ParsedList ==
  ASSUME IsFile(file), NEW p, NEW lo, NEW hi, NEW key
  PROVE  Lists(Parsed(p, lo, hi, key),
               {Entry(o, Text(o, hi), key[o]) :
                  o \in {q \in Occurring(p, lo, hi) : Text(q, hi) # Junk}}, {p})
  <1> DEFINE S == {q \in Occurring(p, lo, hi) : Text(q, hi) # Junk}
  <1>1. S \subseteq file.occurrences /\ \A o \in S : o.pattern = p
    BY Zenon DEF Occurring
  <1>2. \A o \in S : Texts(hi)[o] = Text(o, hi)
    BY <1>1, Zenon DEF Texts
  <1>3. Parsed(p, lo, hi, key) = EntriesFor(S, Texts(hi), key)
    BY DEF Parsed
  <1> HIDE DEF S
  <1> DEFINE E == {Entry(o, Text(o, hi), key[o]) : o \in S}
  <1>4. \A q : q \in E <=> \E o \in S : q = Entry(o, Texts(hi)[o], key[o])
    BY <1>2, Zenon
  <1> HIDE DEF E
  <1>5. Lists(EntriesFor(S, Texts(hi), key), E, {p})
    <2>1. IsFiniteSet(S) /\ Apart(S)
      BY <1>1, ChosenAreApart
    <2>2. QED
      BY <1>1, <1>4, <2>1, ListOfEntries
  <1>6. QED
    BY <1>3, <1>5 DEF S, E

LEMMA WholeList ==
  ASSUME IsFile(file), NEW S, S \subseteq file.occurrences, NEW p, \A o \in S : o.pattern = p,
         NEW kind, NEW E, \A q : q \in E <=> \E o \in S : q = Entry(o, o.value, <<kind, o.at>>)
  PROVE  Lists(Whole(S, kind), E, {p})
  <1> DEFINE text == [o \in file.occurrences |-> o.value]
             key == [o \in file.occurrences |-> <<kind, o.at>>]
  <1>1. \A o \in S : text[o] = o.value /\ key[o] = <<kind, o.at>>
    OBVIOUS
  <1>2. Whole(S, kind) = EntriesFor(S, text, key)
    BY DEF Whole
  <1> HIDE DEF text, key
  <1>3. \A q : q \in E <=> \E o \in S : q = Entry(o, text[o], key[o])
    BY <1>1, Zenon
  <1>4. IsFiniteSet(S) /\ Apart(S)
    BY ChosenAreApart
  <1>5. QED
    BY <1>2, <1>3, <1>4, ListOfEntries

(* One search after another.                                               *)
LEMMA SearchesJoined ==
  ASSUME NEW s, NEW E, NEW P, Lists(s, E, P), NEW t, NEW F, NEW Q, Lists(t, F, Q),
         P \X Q \subseteq Turns
  PROVE  Lists(s \o t, E \cup F, P \cup Q)
  <1> DEFINE l == s \o t
  <1>1. IsList(s) /\ IsList(t) /\ ToSet(s) = E /\ ToSet(t) = F
    BY DEF Lists
  <1>2. IsList(l) /\ ToSet(l) = E \cup F
    BY <1>1, JoinedLists
  <1>3. /\ Len(s) \in Nat /\ Len(t) \in Nat /\ DOMAIN s = 1 .. Len(s) /\ DOMAIN t = 1 .. Len(t)
        /\ DOMAIN l = 1 .. Len(s) + Len(t)
        /\ \A i \in 1 .. Len(s) : l[i] = s[i]
        /\ \A i \in 1 .. Len(t) : l[Len(s) + i] = t[i]
    BY <1>1, SMT DEF IsList
  <1>4. /\ \A i \in 1 .. Len(s) : s[i].pattern \in P
        /\ \A i \in 1 .. Len(t) : t[i].pattern \in Q
    <2>1. (\A i \in 1 .. Len(s) : s[i] \in E) /\ (\A i \in 1 .. Len(t) : t[i] \in F)
      BY <1>1, <1>3, TypedList, Zenon DEF IsList
    <2>2. QED
      BY <2>1, Zenon DEF Lists
  <1> HIDE DEF l
  <1>5. ASSUME NEW i \in DOMAIN l, NEW j \in DOMAIN l, i < j
        PROVE  InTurn(l[i], l[j])
    <2>1. CASE j <= Len(s)
      <3>1. i \in DOMAIN s /\ j \in DOMAIN s /\ l[i] = s[i] /\ l[j] = s[j]
        BY <1>3, <1>5, <2>1, SMT
      <3>2. QED
        BY <1>5, <3>1, Zenon DEF Lists, InTurns
    <2>2. CASE i > Len(s)
      <3> DEFINE a == i - Len(s)
                 b == j - Len(s)
      <3>1. a \in 1 .. Len(t) /\ b \in 1 .. Len(t) /\ a < b /\ i = Len(s) + a /\ j = Len(s) + b
        BY <1>3, <1>5, <2>2, SMT
      <3> HIDE DEF a, b
      <3>2. l[i] = t[a] /\ l[j] = t[b]
        BY <1>3, <3>1, Zenon
      <3>3. QED
        BY <1>3, <3>1, <3>2, Zenon DEF Lists, InTurns
    <2>3. CASE i <= Len(s) /\ j > Len(s)
      <3> DEFINE b == j - Len(s)
      <3>1. i \in 1 .. Len(s) /\ b \in 1 .. Len(t) /\ j = Len(s) + b
        BY <1>3, <1>5, <2>3, SMT
      <3> HIDE DEF b
      <3>2. l[i].pattern \in P /\ l[j].pattern \in Q
        BY <1>3, <1>4, <3>1, Zenon
      <3>3. <<l[i].pattern, l[j].pattern>> \in Turns
        BY <3>2
      <3>4. QED
        BY <3>3 DEF InTurn
    <2>4. QED
      BY <1>3, <2>1, <2>2, <2>3, SMT
  <1>6. QED
    BY <1>2, <1>5, Zenon DEF Lists, InTurns, l

(* What an occurrence gives: whether it is reported at all when the part   *)
(* that is searched ends at hi, with which key and text.                   *)

PatternsOf(x) ==
  CASE x \in {"ios_processes", "snmp_config"} -> {"a", "b", "c"}
    [] x \in {"conn_table", "vpn_sessions", "routing_table", "running_config", "cli_history"} -> {"a", "b"}
    [] OTHER -> {"a"}

ParsedOf(x) ==
  CASE x \in {"lina_process", "running_config"} -> {}
    [] x \in {"acl_rules", "vpn_sessions", "snmp_config"} -> {"a"}
    [] OTHER -> {"a", "b"}

Structured == {"network", "keys"}

Fits(x, o, hi) ==
  CASE x = "network" -> o.at + StructSize < hi
    [] x = "keys" -> o.at + WindowSize <= hi /\ o.at % WindowSize = 0
    [] OTHER -> o.at + o.length <= hi /\ (o.pattern \in ParsedOf(x) => Text(o, hi) # Junk)

KeyOf(x, o, text) ==
  CASE x = "conn_table"     -> <<o.pattern, text>>
    [] x = "acl_rules"      -> <<"line", text>>
    [] x = "vpn_sessions"   -> IF o.pattern = "a" THEN <<"psk", (o.at + o.length) \div BucketSize>>
                               ELSE <<"session", text>>
    [] x = "lina_process"   -> <<"thread", o.at>>
    [] x = "routing_table"  -> <<"STATIC", text>>
    [] x = "running_config" -> <<o.pattern, o.at \div BucketSize>>
    [] x = "ios_processes"  -> IF o.pattern = "c" THEN <<"mempool", o.at>> ELSE <<"pid", text>>
    [] x = "cli_history"    -> <<"command", o.at>>
    [] x = "snmp_config"    -> IF o.pattern = "a" THEN <<"community", (o.at + o.length) \div BucketSize>>
                               ELSE <<"community", o.at \div BucketSize>>
    [] x = "network"        -> <<"socket", o.at>>
    [] x = "keys"           -> <<"window", o.at>>

TextOf(x, o, hi) == IF x \in Structured THEN o.value ELSE Text(o, hi)
EntryOf(x, o, hi) == Entry(o, TextOf(x, o, hi), KeyOf(x, o, TextOf(x, o, hi)))

Picked(x, P, lo, hi) ==
  {o \in file.occurrences : o.pattern \in P /\ lo <= o.at /\ Fits(x, o, hi)}
EntriesAt(x, P, lo, hi) == {EntryOf(x, o, hi) : o \in Picked(x, P, lo, hi)}

LEMMA ParsedSearch ==
  ASSUME IsFile(file), NEW x \in AllScanners \ Structured, NEW p, p \in ParsedOf(x),
         NEW lo, NEW hi, NEW key,
         \A o \in file.occurrences : o.pattern = p => key[o] = KeyOf(x, o, Text(o, hi))
  PROVE  Lists(Parsed(p, lo, hi, key), EntriesAt(x, {p}, lo, hi), {p})
  <1> DEFINE S == {q \in Occurring(p, lo, hi) : Text(q, hi) # Junk}
  <1>1. x \notin Structured /\ x # "network" /\ x # "keys"
    BY Zenon DEF Structured
  <1>2. S = Picked(x, {p}, lo, hi)
    BY <1>1, SMT DEF Picked, Fits, Occurring
  <1>3. \A o \in S : o \in file.occurrences /\ o.pattern = p
    BY Zenon DEF Occurring
  <1>4. \A o \in S : Entry(o, Text(o, hi), key[o]) = EntryOf(x, o, hi)
    BY <1>1, <1>3 DEF EntryOf, TextOf
  <1>5. Lists(Parsed(p, lo, hi, key), {Entry(o, Text(o, hi), key[o]) : o \in S}, {p})
    BY ParsedList
  <1> HIDE DEF S
  <1>6. {Entry(o, Text(o, hi), key[o]) : o \in S} = {EntryOf(x, o, hi) : o \in S}
    BY <1>4, Zenon
  <1>7. QED
    BY <1>2, <1>5, <1>6 DEF EntriesAt

LEMMA EverySearch ==
  ASSUME IsFile(file), NEW x \in AllScanners \ Structured, NEW p, p \notin ParsedOf(x),
         NEW lo, NEW hi, NEW key,
         \A o \in file.occurrences : o.pattern = p => key[o] = KeyOf(x, o, Text(o, hi))
  PROVE  Lists(Every(p, lo, hi, key), EntriesAt(x, {p}, lo, hi), {p})
  <1> DEFINE S == Occurring(p, lo, hi)
  <1>1. x \notin Structured /\ x # "network" /\ x # "keys"
    BY Zenon DEF Structured
  <1>2. S = Picked(x, {p}, lo, hi)
    BY <1>1, SMT DEF Picked, Fits, Occurring
  <1>3. \A o \in S : o \in file.occurrences /\ o.pattern = p
    BY Zenon DEF Occurring
  <1>4. \A o \in S : Entry(o, Text(o, hi), key[o]) = EntryOf(x, o, hi)
    BY <1>1, <1>3 DEF EntryOf, TextOf
  <1>5. Lists(Every(p, lo, hi, key), {Entry(o, Text(o, hi), key[o]) : o \in S}, {p})
    BY EveryList
  <1> HIDE DEF S
  <1>6. {Entry(o, Text(o, hi), key[o]) : o \in S} = {EntryOf(x, o, hi) : o \in S}
    BY <1>4, Zenon
  <1>7. QED
    BY <1>2, <1>5, <1>6 DEF EntriesAt

LEMMA TwoSearches ==
  ASSUME NEW x, NEW lo, NEW hi,
         NEW s, Lists(s, EntriesAt(x, {"a"}, lo, hi), {"a"}),
         NEW t, Lists(t, EntriesAt(x, {"b"}, lo, hi), {"b"})
  PROVE  Lists(s \o t, EntriesAt(x, {"a", "b"}, lo, hi), {"a", "b"})
  <1>1. Picked(x, {"a"}, lo, hi) \cup Picked(x, {"b"}, lo, hi) = Picked(x, {"a", "b"}, lo, hi)
    BY Zenon DEF Picked
  <1>2. EntriesAt(x, {"a"}, lo, hi) \cup EntriesAt(x, {"b"}, lo, hi) = EntriesAt(x, {"a", "b"}, lo, hi)
    BY <1>1, Zenon DEF EntriesAt
  <1>3. {"a"} \X {"b"} \subseteq Turns /\ {"a"} \cup {"b"} = {"a", "b"}
    BY DEF Turns
  <1>4. QED
    BY <1>2, <1>3, SearchesJoined

LEMMA ThreeSearches ==
  ASSUME NEW x, NEW lo, NEW hi,
         NEW s, Lists(s, EntriesAt(x, {"a"}, lo, hi), {"a"}),
         NEW t, Lists(t, EntriesAt(x, {"b"}, lo, hi), {"b"}),
         NEW u, Lists(u, EntriesAt(x, {"c"}, lo, hi), {"c"})
  PROVE  Lists(s \o t \o u, EntriesAt(x, {"a", "b", "c"}, lo, hi), {"a", "b", "c"})
  <1>1. Picked(x, {"a", "b"}, lo, hi) \cup Picked(x, {"c"}, lo, hi) = Picked(x, {"a", "b", "c"}, lo, hi)
    BY Zenon DEF Picked
  <1>2. EntriesAt(x, {"a", "b"}, lo, hi) \cup EntriesAt(x, {"c"}, lo, hi)
          = EntriesAt(x, {"a", "b", "c"}, lo, hi)
    BY <1>1, Zenon DEF EntriesAt
  <1>3. {"a", "b"} \X {"c"} \subseteq Turns /\ {"a", "b"} \cup {"c"} = {"a", "b", "c"}
    BY DEF Turns
  <1>4. Lists(s \o t, EntriesAt(x, {"a", "b"}, lo, hi), {"a", "b"})
    BY TwoSearches
  <1>5. QED
    BY <1>2, <1>3, <1>4, SearchesJoined

LEMMA EntriesListed ==
  ASSUME IsFile(file), NEW x \in AllScanners, NEW lo, NEW hi
  PROVE  Lists(Entries(x, lo, hi), EntriesAt(x, PatternsOf(x), lo, hi), PatternsOf(x))
  <1>1. CASE x = "conn_table"
    <2> DEFINE key == [o \in file.occurrences |-> <<o.pattern, Text(o, hi)>>]
    <2>1. Entries(x, lo, hi) = Parsed("a", lo, hi, key) \o Parsed("b", lo, hi, key)
      BY <1>1, Zenon DEF Entries, ConnTable
    <2>2. x \in AllScanners \ Structured /\ PatternsOf(x) = {"a", "b"}
          /\ "a" \in ParsedOf(x) /\ "b" \in ParsedOf(x)
      BY <1>1, SMT DEF AllScanners, Structured, PatternsOf, ParsedOf
    <2>3. \A o \in file.occurrences : key[o] = KeyOf(x, o, Text(o, hi))
      BY <1>1, SMT DEF KeyOf
    <2> HIDE DEF key
    <2>4. Lists(Parsed("a", lo, hi, key), EntriesAt(x, {"a"}, lo, hi), {"a"})
      BY <2>2, <2>3, ParsedSearch
    <2>5. Lists(Parsed("b", lo, hi, key), EntriesAt(x, {"b"}, lo, hi), {"b"})
      BY <2>2, <2>3, ParsedSearch
    <2>6. QED
      BY <2>1, <2>2, <2>4, <2>5, TwoSearches
  <1>2. CASE x = "acl_rules"
    <2> DEFINE key == [o \in file.occurrences |-> <<"line", Text(o, hi)>>]
    <2>1. Entries(x, lo, hi) = Parsed("a", lo, hi, key)
      BY <1>2, Zenon DEF Entries, AclRules
    <2>2. x \in AllScanners \ Structured /\ PatternsOf(x) = {"a"}
          /\ "a" \in ParsedOf(x)
      BY <1>2, SMT DEF AllScanners, Structured, PatternsOf, ParsedOf
    <2>3. \A o \in file.occurrences : key[o] = KeyOf(x, o, Text(o, hi))
      BY <1>2, SMT DEF KeyOf
    <2> HIDE DEF key
    <2>4. Lists(Parsed("a", lo, hi, key), EntriesAt(x, {"a"}, lo, hi), {"a"})
      BY <2>2, <2>3, ParsedSearch
    <2>5. QED
      BY <2>1, <2>2, <2>4
  <1>3. CASE x = "vpn_sessions"
    <2> DEFINE key == [o \in file.occurrences |-> <<"psk", (o.at + o.length) \div BucketSize>>]
               other == [o \in file.occurrences |-> <<"session", Text(o, hi)>>]
    <2>1. Entries(x, lo, hi) = Parsed("a", lo, hi, key) \o Every("b", lo, hi, other)
      BY <1>3, Zenon DEF Entries, VpnSessions
    <2>2. x \in AllScanners \ Structured /\ PatternsOf(x) = {"a", "b"}
          /\ "a" \in ParsedOf(x) /\ "b" \notin ParsedOf(x)
      BY <1>3, SMT DEF AllScanners, Structured, PatternsOf, ParsedOf
    <2>3. \A o \in file.occurrences : o.pattern = "a" => key[o] = KeyOf(x, o, Text(o, hi))
      BY <1>3, SMT DEF KeyOf
    <2>4. \A o \in file.occurrences : o.pattern = "b" => other[o] = KeyOf(x, o, Text(o, hi))
      BY <1>3, SMT DEF KeyOf
    <2> HIDE DEF key, other
    <2>5. Lists(Parsed("a", lo, hi, key), EntriesAt(x, {"a"}, lo, hi), {"a"})
      BY <2>2, <2>3, ParsedSearch
    <2>6. Lists(Every("b", lo, hi, other), EntriesAt(x, {"b"}, lo, hi), {"b"})
      BY <2>2, <2>4, EverySearch
    <2>7. QED
      BY <2>1, <2>2, <2>5, <2>6, TwoSearches
  <1>4. CASE x = "lina_process"
    <2> DEFINE key == [o \in file.occurrences |-> <<"thread", o.at>>]
    <2>1. Entries(x, lo, hi) = Every("a", lo, hi, key)
      BY <1>4, Zenon DEF Entries, LinaThreads
    <2>2. x \in AllScanners \ Structured /\ PatternsOf(x) = {"a"}
          /\ "a" \notin ParsedOf(x)
      BY <1>4, SMT DEF AllScanners, Structured, PatternsOf, ParsedOf
    <2>3. \A o \in file.occurrences : key[o] = KeyOf(x, o, Text(o, hi))
      BY <1>4, SMT DEF KeyOf
    <2> HIDE DEF key
    <2>4. Lists(Every("a", lo, hi, key), EntriesAt(x, {"a"}, lo, hi), {"a"})
      BY <2>2, <2>3, EverySearch
    <2>5. QED
      BY <2>1, <2>2, <2>4
  <1>5. CASE x = "routing_table"
    <2> DEFINE key == [o \in file.occurrences |-> <<"STATIC", Text(o, hi)>>]
    <2>1. Entries(x, lo, hi) = Parsed("a", lo, hi, key) \o Parsed("b", lo, hi, key)
      BY <1>5, Zenon DEF Entries, RoutingTable
    <2>2. x \in AllScanners \ Structured /\ PatternsOf(x) = {"a", "b"}
          /\ "a" \in ParsedOf(x) /\ "b" \in ParsedOf(x)
      BY <1>5, SMT DEF AllScanners, Structured, PatternsOf, ParsedOf
    <2>3. \A o \in file.occurrences : key[o] = KeyOf(x, o, Text(o, hi))
      BY <1>5, SMT DEF KeyOf
    <2> HIDE DEF key
    <2>4. Lists(Parsed("a", lo, hi, key), EntriesAt(x, {"a"}, lo, hi), {"a"})
      BY <2>2, <2>3, ParsedSearch
    <2>5. Lists(Parsed("b", lo, hi, key), EntriesAt(x, {"b"}, lo, hi), {"b"})
      BY <2>2, <2>3, ParsedSearch
    <2>6. QED
      BY <2>1, <2>2, <2>4, <2>5, TwoSearches
  <1>6. CASE x = "running_config"
    <2> DEFINE key == [o \in file.occurrences |-> <<o.pattern, o.at \div BucketSize>>]
    <2>1. Entries(x, lo, hi) = Every("a", lo, hi, key) \o Every("b", lo, hi, key)
      BY <1>6, Zenon DEF Entries, RunningConfig
    <2>2. x \in AllScanners \ Structured /\ PatternsOf(x) = {"a", "b"}
          /\ "a" \notin ParsedOf(x) /\ "b" \notin ParsedOf(x)
      BY <1>6, SMT DEF AllScanners, Structured, PatternsOf, ParsedOf
    <2>3. \A o \in file.occurrences : key[o] = KeyOf(x, o, Text(o, hi))
      BY <1>6, SMT DEF KeyOf
    <2> HIDE DEF key
    <2>4. Lists(Every("a", lo, hi, key), EntriesAt(x, {"a"}, lo, hi), {"a"})
      BY <2>2, <2>3, EverySearch
    <2>5. Lists(Every("b", lo, hi, key), EntriesAt(x, {"b"}, lo, hi), {"b"})
      BY <2>2, <2>3, EverySearch
    <2>6. QED
      BY <2>1, <2>2, <2>4, <2>5, TwoSearches
  <1>7. CASE x = "ios_processes"
    <2> DEFINE key == [o \in file.occurrences |-> <<"pid", Text(o, hi)>>]
               other == [o \in file.occurrences |-> <<"mempool", o.at>>]
    <2>1. Entries(x, lo, hi) = Parsed("a", lo, hi, key) \o Parsed("b", lo, hi, key) \o Every("c", lo, hi, other)
      BY <1>7, Zenon DEF Entries, IosProcesses
    <2>2. x \in AllScanners \ Structured /\ PatternsOf(x) = {"a", "b", "c"}
          /\ "a" \in ParsedOf(x) /\ "b" \in ParsedOf(x) /\ "c" \notin ParsedOf(x)
      BY <1>7, SMT DEF AllScanners, Structured, PatternsOf, ParsedOf
    <2>3. \A o \in file.occurrences : o.pattern = "a" \/ o.pattern = "b" => key[o] = KeyOf(x, o, Text(o, hi))
      BY <1>7, SMT DEF KeyOf
    <2>4. \A o \in file.occurrences : o.pattern = "c" => other[o] = KeyOf(x, o, Text(o, hi))
      BY <1>7, SMT DEF KeyOf
    <2> HIDE DEF key, other
    <2>5. Lists(Parsed("a", lo, hi, key), EntriesAt(x, {"a"}, lo, hi), {"a"})
      BY <2>2, <2>3, ParsedSearch
    <2>6. Lists(Parsed("b", lo, hi, key), EntriesAt(x, {"b"}, lo, hi), {"b"})
      BY <2>2, <2>3, ParsedSearch
    <2>7. Lists(Every("c", lo, hi, other), EntriesAt(x, {"c"}, lo, hi), {"c"})
      BY <2>2, <2>4, EverySearch
    <2>8. QED
      BY <2>1, <2>2, <2>5, <2>6, <2>7, ThreeSearches
  <1>8. CASE x = "cli_history"
    <2> DEFINE key == [o \in file.occurrences |-> <<"command", o.at>>]
    <2>1. Entries(x, lo, hi) = Parsed("a", lo, hi, key) \o Parsed("b", lo, hi, key)
      BY <1>8, Zenon DEF Entries, CliHistory
    <2>2. x \in AllScanners \ Structured /\ PatternsOf(x) = {"a", "b"}
          /\ "a" \in ParsedOf(x) /\ "b" \in ParsedOf(x)
      BY <1>8, SMT DEF AllScanners, Structured, PatternsOf, ParsedOf
    <2>3. \A o \in file.occurrences : key[o] = KeyOf(x, o, Text(o, hi))
      BY <1>8, SMT DEF KeyOf
    <2> HIDE DEF key
    <2>4. Lists(Parsed("a", lo, hi, key), EntriesAt(x, {"a"}, lo, hi), {"a"})
      BY <2>2, <2>3, ParsedSearch
    <2>5. Lists(Parsed("b", lo, hi, key), EntriesAt(x, {"b"}, lo, hi), {"b"})
      BY <2>2, <2>3, ParsedSearch
    <2>6. QED
      BY <2>1, <2>2, <2>4, <2>5, TwoSearches
  <1>9. CASE x = "snmp_config"
    <2> DEFINE key == [o \in file.occurrences |-> <<"community", (o.at + o.length) \div BucketSize>>]
               other == [o \in file.occurrences |-> <<"community", o.at \div BucketSize>>]
    <2>1. Entries(x, lo, hi) = Parsed("a", lo, hi, key) \o Every("b", lo, hi, other) \o Every("c", lo, hi, other)
      BY <1>9, Zenon DEF Entries, SnmpConfig
    <2>2. x \in AllScanners \ Structured /\ PatternsOf(x) = {"a", "b", "c"}
          /\ "a" \in ParsedOf(x) /\ "b" \notin ParsedOf(x) /\ "c" \notin ParsedOf(x)
      BY <1>9, SMT DEF AllScanners, Structured, PatternsOf, ParsedOf
    <2>3. \A o \in file.occurrences : o.pattern = "a" => key[o] = KeyOf(x, o, Text(o, hi))
      BY <1>9, SMT DEF KeyOf
    <2>4. \A o \in file.occurrences : o.pattern = "b" \/ o.pattern = "c" => other[o] = KeyOf(x, o, Text(o, hi))
      BY <1>9, SMT DEF KeyOf
    <2> HIDE DEF key, other
    <2>5. Lists(Parsed("a", lo, hi, key), EntriesAt(x, {"a"}, lo, hi), {"a"})
      BY <2>2, <2>3, ParsedSearch
    <2>6. Lists(Every("b", lo, hi, other), EntriesAt(x, {"b"}, lo, hi), {"b"})
      BY <2>2, <2>4, EverySearch
    <2>7. Lists(Every("c", lo, hi, other), EntriesAt(x, {"c"}, lo, hi), {"c"})
      BY <2>2, <2>4, EverySearch
    <2>8. QED
      BY <2>1, <2>2, <2>5, <2>6, <2>7, ThreeSearches
  <1>10. CASE x = "network"
    <2> DEFINE S == Structures(lo, hi)
    <2>1. Entries(x, lo, hi) = Whole(S, "socket")
      BY <1>10, Zenon DEF Entries, NetworkSockets
    <2>2. x \in Structured /\ PatternsOf(x) = {"a"}
      BY <1>10, SMT DEF Structured, PatternsOf
    <2>3. S = Picked(x, {"a"}, lo, hi) /\ S \subseteq file.occurrences
      BY <1>10, SMT DEF Structures, Windows, Picked, Fits
    <2>4. \A o \in S : o.pattern = "a"
      BY <2>3, Zenon DEF Picked
    <2>5. \A o \in S : Entry(o, o.value, <<"socket", o.at>>) = EntryOf(x, o, hi)
      BY <1>10, <2>2, SMT DEF EntryOf, TextOf, KeyOf
    <2> HIDE DEF S
    <2>6. \A q : q \in EntriesAt(x, {"a"}, lo, hi) <=> \E o \in S : q = Entry(o, o.value, <<"socket", o.at>>)
      BY <2>3, <2>5, Zenon DEF EntriesAt
    <2>7. QED
      BY <2>1, <2>2, <2>3, <2>4, <2>6, WholeList
  <1>11. CASE x = "keys"
    <2> DEFINE S == Windows(lo, hi)
    <2>1. Entries(x, lo, hi) = Whole(S, "window")
      BY <1>11, Zenon DEF Entries, KeyWindows
    <2>2. x \in Structured /\ PatternsOf(x) = {"a"}
      BY <1>11, SMT DEF Structured, PatternsOf
    <2>3. S = Picked(x, {"a"}, lo, hi) /\ S \subseteq file.occurrences
      BY <1>11, SMT DEF Structures, Windows, Picked, Fits
    <2>4. \A o \in S : o.pattern = "a"
      BY <2>3, Zenon DEF Picked
    <2>5. \A o \in S : Entry(o, o.value, <<"window", o.at>>) = EntryOf(x, o, hi)
      BY <1>11, <2>2, SMT DEF EntryOf, TextOf, KeyOf
    <2> HIDE DEF S
    <2>6. \A q : q \in EntriesAt(x, {"a"}, lo, hi) <=> \E o \in S : q = Entry(o, o.value, <<"window", o.at>>)
      BY <2>3, <2>5, Zenon DEF EntriesAt
    <2>7. QED
      BY <2>1, <2>2, <2>3, <2>4, <2>6, WholeList
  <1>12. QED
    BY <1>1, <1>2, <1>3, <1>4, <1>5, <1>6, <1>7, <1>8, <1>9, <1>10, <1>11, SMT DEF AllScanners

LEMMA EntriesAreList ==
  ASSUME IsFile(file), NEW x \in AllScanners, NEW lo, NEW hi
  PROVE  IsList(Entries(x, lo, hi)) /\ Len(Entries(x, lo, hi)) \in Nat
  <1>1. IsList(Entries(x, lo, hi))
    BY EntriesListed DEF Lists
  <1>2. QED
    BY <1>1, SMT DEF IsList

-----------------------------------------------------------------------------
(* The types.                                                              *)

OneQueued == queue = <<>> \/ \E v \in Addresses : queue = <<v>>

ElfReport ==
  /\ extractor = "lina_process" /\ phase = "done"
  /\ \A i \in DOMAIN report : Head(report[i].key) = "note"

Typed ==
  /\ extractor \in Scanners \cup LinuxExtractors
  /\ IsFile(file)
  /\ DOMAIN memory = Addresses /\ \A v \in Addresses : memory[v].next \in Addresses \cup {Nowhere}
  /\ phase \in {"notes", "find", "walk", "scan", "done"}
  /\ chunk \in Nat /\ chunk * ChunkSize < file.size + ChunkSize
  /\ phase = "notes" => extractor = "lina_process"
  /\ chunk <= MaxHops \/ extractor = "network"
  /\ head \in Window \cup {Nowhere}
  /\ OneQueued /\ visited \subseteq Addresses
  /\ IsList(carved) /\ ToSet(carved) \subseteq file.occurrences
  /\ OneEach(report) \/ ElfReport

LEMMA OneQueuedFacts ==
  ASSUME OneQueued
  PROVE  /\ Len(queue) <= 1 /\ ToSet(queue) \subseteq Addresses
         /\ queue # <<>> => /\ Head(queue) \in Addresses /\ ToSet(queue) = {Head(queue)}
                            /\ Tail(queue) = <<>>
  <1>1. CASE queue = <<>>
    BY <1>1, EmptyList, SMT
  <1>2. ASSUME NEW v \in Addresses, queue = <<v>>
        PROVE  /\ Len(queue) <= 1 /\ ToSet(queue) = {v} /\ Head(queue) = v /\ Tail(queue) = <<>>
    BY <1>2, SMT DEF ToSet
  <1>3. QED
    BY <1>1, <1>2 DEF OneQueued

LEMMA TypedIsTypeOK == Typed => TypeOK
  <1> SUFFICES ASSUME Typed PROVE TypeOK
    OBVIOUS
  <1>1. Len(queue) <= 1 /\ ToSet(queue) \subseteq Addresses
    BY OneQueuedFacts DEF Typed
  <1>2. file.size \in Nat
    BY DEF Typed, IsFile
  <1>3. \A i, j \in DOMAIN report : report[i].key = report[j].key => i = j \/ Head(report[i].key) = "note"
    BY Zenon DEF Typed, OneEach, ElfReport
  <1>4. chunk > MaxHops => extractor = "network"
    BY LinuxAssumption, ChunkAssumption, SMT DEF Typed
  <1>5. QED
    BY <1>1, <1>2, <1>3, <1>4, Zenon DEF Typed, TypeOK

LEMMA EmptyReport == OneEach(<<>>) /\ KeysOf(<<>>) = {}
  BY EmptyList, SMT DEF OneEach, KeysOf

LEMMA TypedInit == AllInit => Typed
  <1> SUFFICES ASSUME AllInit PROVE Typed
    OBVIOUS
  <1>1. /\ extractor \in Scanners \cup LinuxExtractors /\ IsFile(file)
        /\ phase \in {"notes", "find", "walk", "scan", "done"}
        /\ chunk = 0 /\ report = <<>> /\ head = Nowhere
        /\ queue = <<>> /\ visited = {} /\ carved = <<>>
        /\ memory \in Memories \/ memory = Unmapped
        /\ phase = "notes" => extractor = "lina_process"
    BY LinuxAssumption, ChunkAssumption, SMT DEF AllInit, LinuxInit, Init
  <1>2. DOMAIN memory = Addresses /\ \A v \in Addresses : memory[v].next \in Addresses \cup {Nowhere}
    BY <1>1, LinuxAssumption, SMT DEF Unmapped
  <1>3. chunk \in Nat /\ chunk * ChunkSize < file.size + ChunkSize /\ chunk <= MaxHops
    BY <1>1, ChunkAssumption, SMT DEF IsFile
  <1>4. OneEach(report) /\ IsList(carved) /\ ToSet(carved) \subseteq file.occurrences
    BY <1>1, EmptyReport, EmptyList
  <1>5. QED
    BY <1>1, <1>2, <1>3, <1>4, Zenon DEF Typed, OneQueued

(* linux/network drops the end of its list.                                *)
LEMMA CutIsOneEach ==
  ASSUME NEW l, OneEach(l)
  PROVE  OneEach(Within(l)) /\ Len(Within(l)) <= Len(l)
  <1>1. l \in Seq(ToSet(l)) /\ MaxHops \in Nat
    BY ChunkAssumption DEF OneEach, IsList
  <1>2. CASE extractor = "network" /\ Len(l) > MaxHops
    <2> DEFINE m == SubSeq(l, 1, MaxHops)
    <2>1. m \in Seq(ToSet(l)) /\ Len(m) = MaxHops /\ \A i \in 1 .. MaxHops : m[i] = l[i]
      BY <1>1, <1>2, SMT
    <2>2. IsList(m)
      BY <2>1, TypedList, Zenon
    <2>3. OneEach(m)
      BY <1>1, <1>2, <2>1, <2>2, SMT DEF OneEach
    <2>4. Within(l) = m
      BY <1>2 DEF Within
    <2>5. QED
      BY <1>1, <1>2, <2>1, <2>3, <2>4, SMT
  <1>3. CASE ~ (extractor = "network" /\ Len(l) > MaxHops)
    BY <1>1, <1>3, SMT DEF Within
  <1>4. QED
    BY <1>2, <1>3

LEMMA FirstExists ==
  ASSUME NEW S \in SUBSET Nat, S # {}
  PROVE  First(S) \in S
  BY LeastNumber, Zenon DEF First

(* Where the walk may start.                                               *)
LEMMA Starts ==
  ASSUME FindInitTask \/ FindHeadModule \/ NoKernelBase
  PROVE  \E v \in Window \cup {Nowhere} : StartWalk(v) /\ extractor \in LinuxExtractors
  <1>1. \A S \in SUBSET Window : S # {} => First(S) \in Window
    BY LinuxAssumption, FirstExists, Zenon
  <1>2. QED
    BY <1>1, SMT DEF FindInitTask, FindHeadModule, NoKernelBase, LinuxExtractors

(* One turn of the walk reads v, or an address that is no object.          *)
Reads(v) == Visit(v, Decodes(v))

LEMMA VisitIsReads ==
  ASSUME VisitTask \/ VisitModule
  PROVE  \E v \in Addresses : Reads(v)
  BY SMT DEF VisitTask, VisitModule, Reads, Decodes

LEMMA ReadFacts ==
  ASSUME OneQueued, NEW v \in Addresses, Reads(v)
  PROVE  /\ phase = "walk" /\ extractor \in LinuxExtractors
         /\ queue = <<v>> /\ v \notin visited /\ visited' = visited \cup {v}
         /\ ToSet(queue) = {v}
         /\ queue' = IF memory[v].next = Nowhere THEN <<>> ELSE <<memory[v].next>>
         /\ report' = IF Decodes(v) THEN Add(report, Object(memory[v].key, "list_walk")) ELSE report
         /\ UNCHANGED <<extractor, file, phase, chunk, memory, head, carved>>
  <1>1. /\ phase = "walk" /\ queue # <<>> /\ extractor \in LinuxExtractors
        /\ v = Head(queue) /\ v \notin visited /\ visited' = visited \cup {v}
        /\ queue' = Tail(queue) \o (IF memory[v].next = Nowhere THEN <<>> ELSE <<memory[v].next>>)
        /\ report' = IF Decodes(v) THEN Add(report, Object(memory[v].key, "list_walk")) ELSE report
        /\ UNCHANGED <<extractor, file, phase, chunk, memory, head, carved>>
    BY Zenon DEF Reads, Visit, Walking
  <1>2. PICK w \in Addresses : queue = <<w>>
    BY <1>1 DEF OneQueued
  <1>3. w = v /\ Tail(queue) = <<>> /\ ToSet(queue) = {v}
    BY <1>1, <1>2, SMT DEF ToSet
  <1>4. \A t : <<>> \o (IF memory[v].next = Nowhere THEN <<>> ELSE <<memory[v].next>>)
               = IF memory[v].next = Nowhere THEN <<>> ELSE <<memory[v].next>>
    BY SMT
  <1>5. QED
    BY <1>1, <1>2, <1>3, <1>4, Zenon

(* Adding one entry is adding the list of it.                              *)
LEMMA AddOne ==
  ASSUME NEW l, OneEach(l), NEW e
  PROVE  Grown(l, <<e>>, 1, Add(l, e))
  <1>1. Len(<<e>>) = 1 /\ <<e>>[1] = e /\ IsList(l) /\ Len(l) \in Nat
    BY SMT DEF OneEach, IsList
  <1>2. Grown(l, <<e>>, 0, l)
    BY <1>1, SMT DEF Grown, Extends
  <1>3. 1 \in 1 .. Len(<<e>>) /\ 1 - 1 = 0 /\ Len(<<e>>) \in Nat
    BY <1>1, SMT
  <1> DEFINE es == <<e>>
  <1>4. Grown(l, es, 1, Add(l, es[1]))
    <2> HIDE DEF es
    <2>1. /\ 1 \in 1 .. Len(es) /\ Len(es) \in Nat /\ Grown(l, es, 1 - 1, l)
      BY <1>2, <1>3, Zenon DEF es
    <2>2. QED
      BY <1>1, <2>1, AddGrows, Zenon
  <1>5. QED
    BY <1>1, <1>4, Zenon

Carving == CarveTasks \/ CarveModules

(* What is carved from a chunk.                                            *)
LEMMA CarvingFacts ==
  ASSUME IsFile(file), IsList(carved), OneEach(report), Carving
  PROVE  LET objects == InOrder(InChunk(Lo, Hi))
             es == [i \in DOMAIN objects |-> Object(objects[i].value, "carve")]
         IN  /\ Carve(objects) /\ extractor \in LinuxExtractors
             /\ IsList(carved') /\ ToSet(carved') = ToSet(carved) \cup InChunk(Lo, Hi)
             /\ Len(es) \in Nat /\ {es[i] : i \in 1 .. Len(es)} = {Object(o.value, "carve") : o \in InChunk(Lo, Hi)}
             /\ Grown(report, es, Len(es), report')
  <1> DEFINE S == InChunk(Lo, Hi)
             objects == InOrder(S)
             es == [i \in DOMAIN objects |-> Object(objects[i].value, "carve")]
  <1>1. Carve(objects) /\ extractor \in LinuxExtractors
    BY SMT DEF Carving, CarveTasks, CarveModules, LinuxExtractors
  <1>2. IsFiniteSet(S) /\ Apart(S)
    BY ChosenAreApart DEF InChunk, Structures
  <1>3. /\ objects \in Seq(S) /\ ToSet(objects) = S
        /\ Len(objects) = Cardinality(S) /\ Cardinality(S) \in Nat
    BY <1>2, ListedInOrder, Zenon
  <1>4. DOMAIN objects = 1 .. Len(objects) /\ S = {objects[i] : i \in 1 .. Len(objects)}
    BY <1>3, ListElements, Zenon
  <1>5. IsList(objects)
    BY <1>3, TypedList, Zenon
  <1>6. carved' = carved \o objects /\ report' = AddAll(report, es)
    BY <1>1, Zenon DEF Carve
  <1> HIDE DEF objects
  <1>7. IsList(carved') /\ ToSet(carved') = ToSet(carved) \cup S
    BY <1>3, <1>5, <1>6, JoinedLists, Zenon
  <1>8. Len(es) = Len(objects) /\ Len(es) \in Nat
    <2>1. es = [i \in 1 .. Len(objects) |-> Object(objects[i].value, "carve")] /\ Len(objects) \in Nat
      BY <1>3, <1>4, Zenon
    <2> HIDE DEF es
    <2>2. QED
      BY <2>1, SMT
  <1>9. {es[i] : i \in 1 .. Len(es)} = {Object(o.value, "carve") : o \in S}
    <2>1. \A i \in 1 .. Len(es) : es[i] = Object(objects[i].value, "carve")
      BY <1>4, <1>8, Zenon
    <2> HIDE DEF es
    <2>2. {es[i] : i \in 1 .. Len(es)} = {Object(objects[i].value, "carve") : i \in 1 .. Len(objects)}
      BY <1>8, <2>1, Zenon
    <2>3. QED
      BY <1>4, <2>2, Zenon
  <1>10. Grown(report, es, Len(es), report')
    BY <1>6, <1>8, AddAllGrows, Zenon
  <1>11. QED
    BY <1>1, <1>7, <1>8, <1>9, <1>10, Zenon DEF objects

(* A chunk is read while there is one, and while the limit allows it.      *)
LEMMA NextChunk ==
  ASSUME Typed, More, chunk' = chunk + 1, file' = file, extractor' = extractor
  PROVE  /\ chunk' \in Nat /\ chunk' * ChunkSize < file'.size + ChunkSize
         /\ chunk' <= MaxHops \/ extractor' = "network"
  <1>1. chunk \in Nat /\ file.size \in Nat /\ ChunkSize \in Nat \ {0} /\ MaxHops \in Nat
    BY ChunkAssumption, SMT DEF Typed, IsFile
  <1>2. chunk * ChunkSize < file.size /\ (chunk < MaxHops \/ extractor = "network")
    BY SMT DEF More, Lo, Hops
  <1>3. chunk' * ChunkSize = chunk * ChunkSize + ChunkSize
    BY <1>1, SMT
  <1>4. chunk * ChunkSize \in Nat
    BY <1>1, SMT
  <1>5. chunk' * ChunkSize < file.size + ChunkSize
    BY <1>1, <1>2, <1>3, <1>4, SMT
  <1>6. QED
    BY <1>1, <1>2, <1>5, SMT

LEMMA TypedWalk ==
  ASSUME Typed, \/ FindInitTask \/ FindHeadModule \/ NoKernelBase
                \/ DropVisited \/ VisitTask \/ VisitModule \/ EndWalk
  PROVE  Typed'
  <1>1. CASE FindInitTask \/ FindHeadModule \/ NoKernelBase
    <2>1. PICK v \in Window \cup {Nowhere} : StartWalk(v)
      BY <1>1, Starts
    <2>2. /\ phase' = "walk" /\ head' = v /\ phase = "find"
          /\ queue' = (IF v = Nowhere THEN <<>> ELSE <<v>>)
          /\ UNCHANGED <<extractor, file, chunk, report, memory, visited, carved>>
      BY <2>1, Zenon DEF StartWalk
    <2>3. OneQueued'
      BY <2>2, LinuxAssumption, Zenon DEF OneQueued
    <2>4. OneEach(report)
      BY <2>2 DEF Typed, ElfReport
    <2>5. QED
      BY <2>2, <2>3, <2>4, Zenon DEF Typed
  <1>2. CASE VisitTask \/ VisitModule
    <2>1. PICK v \in Addresses : Reads(v)
      BY <1>2, VisitIsReads
    <2>2. OneQueued
      BY DEF Typed
    <2>3. /\ phase = "walk" /\ visited' = visited \cup {v}
          /\ queue' = (IF memory[v].next = Nowhere THEN <<>> ELSE <<memory[v].next>>)
          /\ report' = IF Decodes(v) THEN Add(report, Object(memory[v].key, "list_walk")) ELSE report
          /\ UNCHANGED <<extractor, file, phase, chunk, memory, head, carved>>
      BY <2>1, <2>2, ReadFacts, Zenon
    <2>4. memory[v].next \in Addresses \cup {Nowhere}
      BY DEF Typed
    <2>5. OneQueued'
      BY <2>3, <2>4, Zenon DEF OneQueued
    <2>6. OneEach(report)
      BY <2>3 DEF Typed, ElfReport
    <2>7. OneEach(report')
      BY <2>3, <2>6, AddOne DEF Grown
    <2>8. visited' \subseteq Addresses
      BY <2>3 DEF Typed
    <2>9. QED
      BY <2>3, <2>5, <2>7, <2>8, Zenon DEF Typed
  <1>3. CASE DropVisited
    <2>1. /\ phase = "walk" /\ queue # <<>> /\ queue' = Tail(queue)
          /\ UNCHANGED <<extractor, file, phase, chunk, report, memory, head, visited, carved>>
      BY <1>3, Zenon DEF DropVisited, Walking, scanVars
    <2>2. OneQueued'
      BY <2>1, OneQueuedFacts DEF Typed, OneQueued
    <2>3. OneEach(report)
      BY <2>1 DEF Typed, ElfReport
    <2>4. QED
      BY <2>1, <2>2, <2>3, Zenon DEF Typed
  <1>4. CASE EndWalk
    <2>1. /\ phase = "walk" /\ phase' = "scan"
          /\ UNCHANGED <<extractor, file, chunk, report, memory, head, queue, visited, carved>>
      BY <1>4, Zenon DEF EndWalk, listVars
    <2>2. OneEach(report)
      BY <2>1 DEF Typed, ElfReport
    <2>3. QED
      BY <2>1, <2>2, Zenon DEF Typed, OneQueued
  <1>5. QED
    BY <1>1, <1>2, <1>3, <1>4

LEMMA TypedScan ==
  ASSUME Typed, \/ Carving \/ EndCarving
                \/ (ScanNext \/ \E notes \in Notes : ElfNotes(notes)) /\ UNCHANGED listVars
  PROVE  Typed'
  <1>1. CASE Carving
    <2> DEFINE objects == InOrder(InChunk(Lo, Hi))
               es == [i \in DOMAIN objects |-> Object(objects[i].value, "carve")]
    <2>1. Carve(objects)
      BY <1>1, SMT DEF Carving, CarveTasks, CarveModules
    <2> HIDE DEF objects
    <2>2. /\ phase = "scan" /\ More /\ chunk' = chunk + 1
          /\ UNCHANGED <<extractor, file, phase, memory, head, queue, visited>>
      BY <2>1, Zenon DEF Carve
    <2>3. OneEach(report) /\ IsFile(file) /\ IsList(carved)
      BY <2>2 DEF Typed, ElfReport
    <2>4. /\ IsList(carved') /\ ToSet(carved') = ToSet(carved) \cup InChunk(Lo, Hi)
          /\ Grown(report, es, Len(es), report')
      BY <1>1, <2>3, CarvingFacts, Zenon DEF objects
    <2> HIDE DEF es
    <2>5. OneEach(report') /\ ToSet(carved') \subseteq file.occurrences
      BY <2>4, Zenon DEF Grown, InChunk, Structures, Typed
    <2>6. /\ chunk' \in Nat /\ chunk' * ChunkSize < file'.size + ChunkSize
          /\ chunk' <= MaxHops \/ extractor' = "network"
      BY <2>2, NextChunk, Zenon
    <2>7. QED
      BY <2>2, <2>4, <2>5, <2>6, Zenon DEF Typed, OneQueued
  <1>2. CASE \/ EndCarving
             \/ (NoElfNotes \/ Finish) /\ UNCHANGED listVars
    <2>1. /\ phase \in {"notes", "scan"} /\ phase' \in {"scan", "done"}
          /\ UNCHANGED <<extractor, file, chunk, report, memory, head, queue, visited, carved>>
      BY <1>2, Zenon DEF EndCarving, NoElfNotes, Finish, listVars
    <2>2. OneEach(report)
      BY <2>1 DEF Typed, ElfReport
    <2>3. QED
      BY <2>1, <2>2, SMT DEF Typed, OneQueued
  <1>3. CASE ReadChunk /\ UNCHANGED listVars
    <2> DEFINE es == Entries(extractor, Lo, Hi)
    <2>1. /\ phase = "scan" /\ More /\ chunk' = chunk + 1 /\ extractor \in Scanners
          /\ report' = Within(AddAll(report, es))
          /\ UNCHANGED <<extractor, file, phase, memory, head, queue, visited, carved>>
      BY <1>3, Zenon DEF ReadChunk, listVars
    <2>2. OneEach(report) /\ IsFile(file) /\ extractor \in AllScanners
      BY <2>1, ChunkAssumption DEF Typed, ElfReport
    <2>3. Len(es) \in Nat
      BY <2>2, EntriesAreList
    <2>4. OneEach(report')
      BY <2>1, <2>2, <2>3, AddAllGrows, CutIsOneEach DEF Grown
    <2>5. /\ chunk' \in Nat /\ chunk' * ChunkSize < file'.size + ChunkSize
          /\ chunk' <= MaxHops \/ extractor' = "network"
      BY <2>1, NextChunk, Zenon
    <2>6. QED
      BY <2>1, <2>4, <2>5, Zenon DEF Typed, OneQueued
  <1>4. ASSUME NEW notes \in Notes, ElfNotes(notes), UNCHANGED listVars
        PROVE  Typed'
    <2>1. PICK kept : /\ report' = [i \in DOMAIN kept |-> [key |-> <<"note", kept[i]>>]]
                      /\ phase = "notes" /\ phase' = "done"
                      /\ UNCHANGED <<extractor, file, chunk, memory, head, queue, visited, carved>>
      BY <1>4, Zenon DEF ElfNotes, listVars
    <2>2. \A i \in DOMAIN report' : Head(report'[i].key) = "note"
      BY <2>1, SMT
    <2>3. QED
      BY <2>1, <2>2, Zenon DEF Typed, OneQueued, ElfReport
  <1>5. CASE ScanNext /\ UNCHANGED listVars
    BY <1>2, <1>3, <1>5, Zenon DEF ScanNext
  <1>6. CASE (\E notes \in Notes : ElfNotes(notes)) /\ UNCHANGED listVars
    BY <1>4, <1>6
  <1>7. QED
    BY <1>1, <1>2, <1>5, <1>6

LEMMA TypedStep == Typed /\ [AllNext]_vars => Typed'
  <1> SUFFICES ASSUME Typed, [AllNext]_vars PROVE Typed'
    OBVIOUS
  <1>1. CASE UNCHANGED vars
    BY <1>1, Zenon DEF vars, scanVars, listVars, Typed, OneQueued, ElfReport
  <1>2. CASE AllNext
    BY <1>2, TypedWalk, TypedScan DEF AllNext, LinuxNext, Carving
  <1>3. QED
    BY <1>1, <1>2

(* The queue of the list walk never holds more than one address, nothing   *)
(* is reported twice but notes, chunks are read within the limit and no    *)
(* further than the end of the file.                                       *)
THEOREM ExtractorTypes == Spec => []TypeOK
  <1>1. Typed => TypeOK
    BY TypedIsTypeOK
  <1>2. QED
    BY <1>1, TypedInit, TypedStep, PTL DEF Spec

-----------------------------------------------------------------------------
(* The list walk.  What has been visited is on the list, and whatever it   *)
(* leads to has been visited or is in the queue; so nothing of the list is *)
(* left out when the queue runs empty.                                     *)

ListWalked ==
  /\ phase \in {"find", "walk", "scan", "done"}
  /\ phase = "find" => head = Nowhere
  /\ head = Nowhere => queue = <<>> /\ visited = {}
  /\ head # Nowhere => head \in visited \cup ToSet(queue)
  /\ \A v \in visited : memory[v].next \in visited \cup ToSet(queue) \cup {Nowhere}
  /\ visited \cup ToSet(queue) \subseteq OnList
  /\ phase \in {"scan", "done"} => queue = <<>> \/ Cardinality(visited) >= MaxWalkHops

Keys(l) == {e.key[2] : e \in ToSet(l)}
KeysFrom(l, source) == {e.key[2] : e \in {d \in ToSet(l) : d.source = source}}

Read(S) == {memory[v].key : v \in {w \in S : Decodes(w)}}
Values(S) == {o.value : o \in S}

(* What is reported: what was visited, and then what was carved.           *)
Reported ==
  /\ \A e \in ToSet(report) : e = Object(e.key[2], e.source)
  /\ KeysFrom(report, "list_walk") = Read(visited)
  /\ Keys(report) = Read(visited) \cup Values(ToSet(carved))
  /\ phase \in {"find", "walk"} => /\ chunk = 0 /\ ToSet(carved) = {}
                                   /\ \A e \in ToSet(report) : e.source = "list_walk"

(* What is carved: what is visible in the chunks that have been read.      *)
Carved ==
  /\ chunk <= MaxHops
  /\ ToSet(carved) = {o \in Visible : o.at \div ChunkSize < chunk}
  /\ phase = "done" => ~More

Searched == extractor \in LinuxExtractors => ListWalked /\ Reported /\ Carved

(* The two Linux extractors take the steps of LinuxNext only.              *)
LEMMA LinuxSteps ==
  ASSUME Typed, extractor \in LinuxExtractors, AllNext
  PROVE  LinuxNext
  <1>1. extractor \notin Scanners /\ phase # "notes"
    BY LinuxAssumption, SMT DEF Typed, LinuxExtractors
  <1>2. QED
    BY <1>1, Zenon DEF AllNext, ScanNext, NoElfNotes, ReadChunk, Finish, ElfNotes

LEMMA DecodesSame ==
  ASSUME UNCHANGED <<extractor, memory>>
  PROVE  /\ \A w : Decodes(w)' <=> Decodes(w)
         /\ \A S : {memory'[v].key : v \in {w \in S : Decodes(w)'}} = Read(S)
  <1>1. \A w : Decodes(w)' <=> Decodes(w)
    BY Zenon DEF Decodes, IsTask, IsModule
  <1>2. memory' = memory
    OBVIOUS
  <1>3. \A S : {memory'[v].key : v \in {w \in S : Decodes(w)'}} = Read(S)
    BY <1>1, <1>2 DEF Read
  <1>4. QED
    BY <1>1, <1>3

LEMMA ListIsClosed ==
  ASSUME Typed, head # Nowhere, NEW v \in OnList, memory[v].next # Nowhere
  PROVE  memory[v].next \in OnList
  <1>1. v \in Addresses /\ memory[v].next \in Addresses
    BY DEF OnList, Typed
  <1>2. ASSUME NEW S \in SUBSET Addresses,
               head \in S /\ \A w \in S : memory[w].next \in S \cup {Nowhere}
        PROVE  memory[v].next \in S
    <2>1. v \in S
      BY <1>2, Zenon DEF OnList
    <2>2. QED
      BY <1>2, <2>1
  <1>3. QED
    BY <1>1, <1>2, Zenon DEF OnList

LEMMA ListIsLeast ==
  ASSUME NEW S \in SUBSET Addresses, head \in S,
         \A w \in S : memory[w].next \in S \cup {Nowhere}
  PROVE  OnList \subseteq S
  BY Zenon DEF OnList

LEMMA WalkedStart ==
  ASSUME Typed, ListWalked, NEW v \in Window \cup {Nowhere}, StartWalk(v)
  PROVE  ListWalked'
  <1>1. /\ phase = "find" /\ phase' = "walk" /\ head' = v
        /\ queue' = (IF v = Nowhere THEN <<>> ELSE <<v>>)
        /\ memory' = memory /\ visited' = visited
    BY Zenon DEF StartWalk
  <1>2. visited' = {}
    BY <1>1, Zenon DEF ListWalked
  <1>3. ToSet(queue') = IF v = Nowhere THEN {} ELSE {v}
    BY <1>1, SMT DEF ToSet
  <1>4. v # Nowhere => v \in OnList'
    <2>1. v # Nowhere => v \in Addresses
      BY LinuxAssumption
    <2>2. QED
      BY <1>1, <2>1, Zenon DEF OnList
  <1>5. v = Nowhere => queue' = <<>>
    BY <1>1
  <1>6. QED
    BY <1>1, <1>2, <1>3, <1>4, <1>5, SMT DEF ListWalked

LEMMA WalkedRead ==
  ASSUME Typed, ListWalked, NEW v \in Addresses, Reads(v)
  PROVE  ListWalked'
  <1>1. /\ phase = "walk" /\ queue = <<v>> /\ visited' = visited \cup {v} /\ ToSet(queue) = {v}
        /\ queue' = (IF memory[v].next = Nowhere THEN <<>> ELSE <<memory[v].next>>)
        /\ UNCHANGED <<phase, memory, head>>
    BY ReadFacts, Zenon DEF Typed
  <1>2. ToSet(queue') = IF memory[v].next = Nowhere THEN {} ELSE {memory[v].next}
    BY <1>1, SMT DEF ToSet
  <1>3. head # Nowhere
    <2>1. queue # <<>>
      BY <1>1, SMT
    <2>2. QED
      BY <2>1, Zenon DEF ListWalked
  <1>4. v \in OnList /\ OnList' = OnList
    BY <1>1, Zenon DEF ListWalked, OnList
  <1>5. memory[v].next # Nowhere => memory[v].next \in OnList
    BY <1>3, <1>4, ListIsClosed
  <1>6. head' \in visited' \cup ToSet(queue')
    BY <1>1, <1>3, Zenon DEF ListWalked
  <1>7. \A w \in visited' : memory'[w].next \in visited' \cup ToSet(queue') \cup {Nowhere}
    BY <1>1, <1>2, Zenon DEF ListWalked
  <1>8. visited' \cup ToSet(queue') \subseteq OnList'
    BY <1>1, <1>2, <1>4, <1>5, Zenon DEF ListWalked
  <1>9. phase' = "walk" /\ head' # Nowhere
    BY <1>1, <1>3
  <1>10. QED
    BY <1>6, <1>7, <1>8, <1>9, SMT DEF ListWalked

LEMMA WalkedDrop ==
  ASSUME Typed, ListWalked, DropVisited
  PROVE  ListWalked'
  <1>1. /\ phase = "walk" /\ queue # <<>> /\ Head(queue) \in visited /\ queue' = Tail(queue)
        /\ UNCHANGED <<phase, memory, head, visited>>
    BY Zenon DEF DropVisited, Walking, scanVars
  <1>2. queue' = <<>> /\ ToSet(queue') = {} /\ ToSet(queue) \subseteq visited
    BY <1>1, OneQueuedFacts, EmptyList DEF Typed
  <1>3. OnList' = OnList
    BY <1>1, Zenon DEF OnList
  <1>4. QED
    BY <1>1, <1>2, <1>3, SMT DEF ListWalked

LEMMA WalkedOn ==
  ASSUME Typed, ListWalked, extractor \in LinuxExtractors, EndWalk \/ Carving \/ EndCarving
  PROVE  ListWalked'
  <1>1. /\ UNCHANGED <<memory, head, queue, visited>>
        /\ phase \in {"walk", "scan"} /\ phase' \in {"scan", "done"}
        /\ phase = "walk" => ~Walking
    BY SMT DEF EndWalk, Carving, CarveTasks, CarveModules, Carve, EndCarving, listVars
  <1>2. OnList' = OnList
    BY <1>1, Zenon DEF OnList
  <1>3. queue = <<>> \/ Cardinality(visited) >= MaxWalkHops
    <2>1. CASE phase = "walk"
      <3>1. Cardinality(visited) \in Nat /\ MaxWalkHops \in Nat
        <4>1. IsFiniteSet(visited)
          BY LinuxAssumption, FS_Subset, Zenon DEF Typed
        <4>2. QED
          BY <4>1, FS_CardinalityType, LinuxAssumption, Zenon
      <3>2. QED
        BY <1>1, <2>1, <3>1, SMT DEF Walking
    <2>2. CASE phase = "scan"
      BY <2>2, Zenon DEF ListWalked
    <2>3. QED
      BY <1>1, <2>1, <2>2
  <1>4. QED
    BY <1>1, <1>2, <1>3, SMT DEF ListWalked

(* What a list of objects has gained when others from one source have been *)
(* added.                                                                  *)
AreObjects(S) == \A e \in S : e = Object(e.key[2], e.source)

LEMMA ObjectFacts ==
  ASSUME NEW k, NEW source
  PROVE  LET e == Object(k, source)
         IN  e.key = <<"object", k>> /\ e.key[1] = "object" /\ e.key[2] = k /\ e.source = source
  BY SMT DEF Object

ObjectsAdded(l, es, n, K, source, m) ==
  /\ n \in Nat
  /\ \A i \in 1 .. n : \E k \in K : es[i] = Object(k, source)
  /\ \A k \in K : \E i \in 1 .. n : es[i] = Object(k, source)
  /\ Grown(l, es, n, m)

LEMMA ObjectsGrow ==
  ASSUME NEW l, IsList(l), AreObjects(ToSet(l)),
         NEW es, NEW n, NEW K, NEW source, NEW m, ObjectsAdded(l, es, n, K, source, m)
  PROVE  /\ AreObjects(ToSet(m)) /\ Keys(m) = Keys(l) \cup K
         /\ \A e \in ToSet(m) : e \in ToSet(l) \/ e.source = source
         /\ \A e \in ToSet(l) : e \in ToSet(m)
  <1> DEFINE New == {Object(k, source) : k \in K}
  <1>1. AreObjects(New) /\ \A e \in New : e.source = source /\ e.key[1] = "object" /\ e.key[2] \in K
    <2>1. ASSUME NEW k \in K, NEW e, e = Object(k, source)
          PROVE  /\ e = Object(e.key[2], e.source) /\ e.source = source
                 /\ e.key[1] = "object" /\ e.key[2] \in K
      <3>1. e.key[1] = "object" /\ e.key[2] = k /\ e.source = source
        BY <2>1, ObjectFacts
      <3>2. QED
        BY <2>1, <3>1
    <2>2. QED
      BY <2>1 DEF AreObjects
  <1> USE DEF ObjectsAdded
  <1>2. ToSet(m) \subseteq ToSet(l) \cup New
    BY Zenon DEF Grown
  <1>3. AreObjects(ToSet(m))
    BY <1>1, <1>2, Zenon DEF AreObjects
  <1>4. ToSet(l) \subseteq ToSet(m)
    <2>1. /\ IsList(m) /\ Len(m) \in Nat /\ DOMAIN m = 1 .. Len(m)
          /\ Len(l) \in Nat /\ DOMAIN l = 1 .. Len(l)
      BY SMT DEF Grown, OneEach, IsList
    <2>2. \A i \in 1 .. Len(l) : i \in DOMAIN m /\ m[i] = l[i]
      BY <2>1, SMT DEF Grown, Extends
    <2>3. QED
      BY <2>1, <2>2, Zenon DEF ToSet
  <1>5. ASSUME NEW k \in K
        PROVE  \E e \in ToSet(m) : e.key[2] = k
    <2>1. PICK i \in 1 .. n : es[i] = Object(k, source)
      BY Zenon
    <2>2. es[i].key[1] = "object" /\ es[i].key = <<"object", k>>
      BY <2>1, ObjectFacts
    <2>3. ~Full(m, es[i].key[1])
      BY <2>2, SMT DEF Full
    <2>4. es[i].key \in KeysOf(m)
      BY <2>3, Zenon DEF Grown
    <2>5. PICK j \in DOMAIN m : m[j].key = <<"object", k>>
      BY <2>2, <2>4, Zenon DEF KeysOf
    <2>6. m[j] \in ToSet(m) /\ m[j].key[2] = k
      BY <2>5, SMT DEF ToSet
    <2>7. QED
      BY <2>6
  <1>6. Keys(m) = Keys(l) \cup K
    BY <1>1, <1>2, <1>4, <1>5, Zenon DEF Keys
  <1>7. QED
    BY <1>1, <1>2, <1>3, <1>4, <1>6, Zenon

LEMMA ReportedRead ==
  ASSUME Typed, Reported, NEW v \in Addresses, Reads(v)
  PROVE  Reported'
  <1>1. /\ phase = "walk" /\ visited' = visited \cup {v}
        /\ report' = (IF Decodes(v) THEN Add(report, Object(memory[v].key, "list_walk")) ELSE report)
        /\ UNCHANGED <<extractor, phase, chunk, memory, carved>>
    BY ReadFacts, Zenon DEF Typed
  <1>2. OneEach(report) /\ IsList(report) /\ AreObjects(ToSet(report))
    BY <1>1, Zenon DEF Typed, ElfReport, OneEach, Reported, AreObjects
  <1>3. Read(visited)' = Read(visited')
    BY <1>1, DecodesSame, Zenon DEF Read
  <1>4. Read(visited') = IF Decodes(v) THEN Read(visited) \cup {memory[v].key} ELSE Read(visited)
    BY <1>1, Zenon DEF Read
  <1>5. /\ AreObjects(ToSet(report')) /\ \A e \in ToSet(report') : e.source = "list_walk"
        /\ Keys(report') = IF Decodes(v) THEN Keys(report) \cup {memory[v].key} ELSE Keys(report)
    <2>1. CASE Decodes(v)
      <3> DEFINE es == <<Object(memory[v].key, "list_walk")>>
                 K == {memory[v].key}
      <3>1. Grown(report, es, 1, report')
        BY <1>1, <1>2, <2>1, AddOne
      <3>2. ObjectsAdded(report, es, 1, K, "list_walk", report')
        BY <3>1, SMT DEF ObjectsAdded
      <3> HIDE DEF es, K
      <3>3. /\ AreObjects(ToSet(report')) /\ Keys(report') = Keys(report) \cup K
            /\ \A d \in ToSet(report') : d \in ToSet(report) \/ d.source = "list_walk"
        BY <1>2, <3>2, ObjectsGrow
      <3>4. \A d \in ToSet(report) : d.source = "list_walk"
        BY <1>1, Zenon DEF Reported
      <3>5. QED
        BY <2>1, <3>3, <3>4, Zenon DEF K
    <2>2. CASE ~Decodes(v)
      BY <1>1, <1>2, <2>2, Zenon DEF Reported
    <2>3. QED
      BY <2>1, <2>2
  <1>6. ToSet(carved) = {} /\ chunk = 0 /\ Keys(report) = Read(visited)
    BY <1>1, Zenon DEF Reported, Values
  <1>7. Keys(report') = Read(visited)'
    BY <1>3, <1>4, <1>5, <1>6
  <1>8. KeysFrom(report', "list_walk") = Keys(report') /\ Values(ToSet(carved)) = {}
    BY <1>5, <1>6, Zenon DEF Keys, KeysFrom, Values
  <1>9. Keys(report)' = Keys(report') /\ KeysFrom(report, "list_walk")' = KeysFrom(report', "list_walk")
    BY Zenon DEF Keys, KeysFrom
  <1>10. Values(ToSet(carved))' = Values(ToSet(carved))
    BY <1>1, Zenon DEF Values
  <1>11. QED
    BY <1>1, <1>5, <1>6, <1>7, <1>8, <1>9, <1>10, Zenon DEF Reported, AreObjects

LEMMA ReportedCarve ==
  ASSUME Typed, Reported, Carving
  PROVE  Reported' /\ ToSet(carved') = ToSet(carved) \cup InChunk(Lo, Hi)
  <1> DEFINE objects == InOrder(InChunk(Lo, Hi))
             es == [i \in DOMAIN objects |-> Object(objects[i].value, "carve")]
             K == Values(InChunk(Lo, Hi))
  <1>1. Carve(objects)
    BY SMT DEF Carving, CarveTasks, CarveModules
  <1>2. phase = "scan" /\ UNCHANGED <<extractor, phase, memory, visited>>
    BY <1>1, Zenon DEF Carve
  <1>3. IsFile(file) /\ IsList(carved) /\ OneEach(report) /\ IsList(report) /\ AreObjects(ToSet(report))
    BY <1>2, Zenon DEF Typed, ElfReport, OneEach, Reported, AreObjects
  <1>4. /\ ToSet(carved') = ToSet(carved) \cup InChunk(Lo, Hi)
        /\ Len(es) \in Nat
        /\ {es[i] : i \in 1 .. Len(es)} = {Object(o.value, "carve") : o \in InChunk(Lo, Hi)}
        /\ Grown(report, es, Len(es), report')
    BY <1>3, CarvingFacts, Zenon
  <1> HIDE DEF es
  <1>5. ObjectsAdded(report, es, Len(es), K, "carve", report')
    BY <1>4, Zenon DEF Values, ObjectsAdded
  <1> HIDE DEF K
  <1>6. /\ AreObjects(ToSet(report')) /\ Keys(report') = Keys(report) \cup K
        /\ \A e \in ToSet(report') : e \in ToSet(report) \/ e.source = "carve"
        /\ \A e \in ToSet(report) : e \in ToSet(report')
    BY <1>3, <1>5, ObjectsGrow, Zenon
  <1>7. KeysFrom(report', "list_walk") = KeysFrom(report, "list_walk")
    <2>1. "list_walk" # "carve"
      BY SMT
    <2>2. QED
      BY <1>6, <2>1, Zenon DEF KeysFrom
  <1>8. Values(ToSet(carved)') = Values(ToSet(carved)) \cup K
    BY <1>4, Zenon DEF Values, K
  <1>9. Read(visited)' = Read(visited)
    BY <1>2, DecodesSame, Zenon DEF Read
  <1>10. /\ Keys(report)' = Keys(report') /\ KeysFrom(report, "list_walk")' = KeysFrom(report', "list_walk")
         /\ Values(ToSet(carved))' = Values(ToSet(carved)')
    BY Zenon DEF Keys, KeysFrom, Values
  <1>11. Keys(report') = Read(visited) \cup Values(ToSet(carved)')
    BY <1>6, <1>8, Zenon DEF Reported
  <1>12. phase' = "scan"
    BY <1>2
  <1>13. phase' \notin {"find", "walk"}
    BY <1>12
  <1>14. KeysFrom(report', "list_walk") = Read(visited)
    BY <1>7, Zenon DEF Reported
  <1>15. QED
    BY <1>4, <1>6, <1>9, <1>10, <1>11, <1>13, <1>14, Zenon DEF Reported, AreObjects

LEMMA ReportedStays ==
  ASSUME Reported, UNCHANGED <<extractor, memory, chunk, report, visited, carved>>,
         phase' \in {"scan", "done"} \/ phase \in {"find", "walk"}
  PROVE  Reported'
  <1>1. Read(visited)' = Read(visited)
    BY DecodesSame, Zenon DEF Read
  <1>2. QED
    BY <1>1, SMT DEF Reported, Keys, KeysFrom, Values

(* Where a place lies: in chunk number c, so far from its start.           *)
LEMMA PlaceInChunk ==
  ASSUME NEW n \in Nat, NEW c \in Nat
  PROVE  /\ n \div ChunkSize \in Nat
         /\ n \div ChunkSize = c <=> c * ChunkSize <= n /\ n < c * ChunkSize + ChunkSize
         /\ n \div ChunkSize = c => n % ChunkSize = n - c * ChunkSize
  <1> DEFINE q == n \div ChunkSize
             r == n % ChunkSize
  <1>1. ChunkSize \in Nat \ {0}
    BY ChunkAssumption
  <1>2. q \in Nat /\ r \in 0 .. ChunkSize - 1 /\ n = q * ChunkSize + r
    BY <1>1, SMT
  <1> HIDE DEF q, r
  <1>3. \A a, b \in Nat : a < b => a * ChunkSize + ChunkSize <= b * ChunkSize
    <2> SUFFICES ASSUME NEW a \in Nat, NEW b \in Nat, a < b
                 PROVE  a * ChunkSize + ChunkSize <= b * ChunkSize
      OBVIOUS
    <2>1. b - a - 1 \in Nat /\ ChunkSize \in Nat
      BY <1>1
    <2>2. (b - a - 1) * ChunkSize >= 0
      BY <2>1, SMT
    <2>3. (b - a - 1) * ChunkSize = b * ChunkSize - a * ChunkSize - ChunkSize
      BY <2>1, SMT
    <2>4. QED
      BY <2>1, <2>2, <2>3, SMT
  <1>4. \A a \in Nat : a * ChunkSize \in Nat
    BY <1>1, SMT
  <1>5. q = c <=> c * ChunkSize <= n /\ n < c * ChunkSize + ChunkSize
    <2>1. q < c \/ q = c \/ c < q
      BY <1>2, SMT
    <2>2. q < c => q * ChunkSize + ChunkSize <= c * ChunkSize
      BY <1>2, <1>3, Zenon
    <2>3. c < q => c * ChunkSize + ChunkSize <= q * ChunkSize
      BY <1>2, <1>3, Zenon
    <2>4. q * ChunkSize \in Nat /\ c * ChunkSize \in Nat
      BY <1>2, <1>4
    <2>5. QED
      BY <1>1, <1>2, <2>1, <2>2, <2>3, <2>4, SMT
  <1>6. q = c => r = n - c * ChunkSize
    BY <1>1, <1>2, <1>4, SMT
  <1>7. QED
    BY <1>2, <1>5, <1>6 DEF q, r

LEMMA CarvedChunk ==
  ASSUME Typed, chunk < MaxHops
  PROVE  InChunk(Lo, Hi) = {o \in Visible : o.at \div ChunkSize = chunk}
  <1> SUFFICES ASSUME NEW o \in file.occurrences
               PROVE  o \in InChunk(Lo, Hi) <=> o \in Visible /\ o.at \div ChunkSize = chunk
    BY Zenon DEF InChunk, Structures, Visible
  <1>1. /\ o.at \in Nat /\ chunk \in Nat /\ file.size \in Nat
        /\ ChunkSize \in Nat \ {0} /\ StructSize \in Nat \ {0}
    BY ChunkAssumption, Zenon DEF Typed, IsFile
  <1> DEFINE lo == chunk * ChunkSize
  <1>2. lo \in Nat
    BY <1>1, SMT
  <1>3. /\ o.at \div ChunkSize = chunk <=> lo <= o.at /\ o.at < lo + ChunkSize
        /\ o.at \div ChunkSize = chunk => o.at % ChunkSize = o.at - lo
    BY <1>1, PlaceInChunk
  <1>4. o \in InChunk(Lo, Hi) <=>
          /\ o.pattern = "a" /\ o.value # NoPid
          /\ lo <= o.at /\ o.at + StructSize < Hi
    BY DEF InChunk, Structures, Lo
  <1>5. Hi = IF lo + ChunkSize < file.size THEN lo + ChunkSize ELSE file.size
    BY DEF Hi, Lo
  <1>6. o \in Visible <=>
          /\ o.pattern = "a" /\ o.value # NoPid
          /\ o.at \div ChunkSize < MaxHops
          /\ o.at + StructSize < file.size
          /\ (o.at % ChunkSize) + StructSize < ChunkSize
    BY DEF Visible
  <1> HIDE DEF lo
  <1>7. /\ lo <= o.at /\ o.at + StructSize < Hi
           <=> lo <= o.at /\ o.at + StructSize < lo + ChunkSize /\ o.at + StructSize < file.size
    BY <1>1, <1>2, <1>5, SMT
  <1>8. /\ lo <= o.at /\ o.at + StructSize < lo + ChunkSize
           <=> o.at \div ChunkSize = chunk /\ (o.at % ChunkSize) + StructSize < ChunkSize
    BY <1>1, <1>2, <1>3, SMT
  <1>9. QED
    BY <1>4, <1>6, <1>7, <1>8, Zenon

LEMMA CarvedStep ==
  ASSUME Typed, Carved, extractor \in LinuxExtractors, Carving,
         ToSet(carved') = ToSet(carved) \cup InChunk(Lo, Hi)
  PROVE  Carved'
  <1>1. phase = "scan" /\ More /\ chunk' = chunk + 1 /\ UNCHANGED <<file, phase>>
    BY Zenon DEF Carving, CarveTasks, CarveModules, Carve
  <1>2. Hops = chunk
    BY SMT DEF Hops, LinuxExtractors
  <1>3. chunk \in Nat /\ MaxHops \in Nat /\ chunk < MaxHops
    BY <1>1, <1>2, ChunkAssumption, Zenon DEF Typed, More
  <1>4. InChunk(Lo, Hi) = {o \in Visible : o.at \div ChunkSize = chunk}
    BY <1>3, CarvedChunk
  <1>5. \A o \in Visible : o.at \div ChunkSize \in Nat
    BY PlaceInChunk, Zenon DEF Visible, Typed, IsFile
  <1>6. ASSUME NEW o \in Visible
        PROVE  o.at \div ChunkSize < chunk + 1 <=> o.at \div ChunkSize < chunk \/ o.at \div ChunkSize = chunk
    BY <1>3, <1>5, SMT
  <1>7. ToSet(carved') = {o \in Visible : o.at \div ChunkSize < chunk + 1}
    BY <1>4, <1>6, Zenon DEF Carved
  <1>8. Visible' = Visible
    BY <1>1, Zenon DEF Visible
  <1>9. chunk' <= MaxHops /\ phase' # "done"
    BY <1>1, <1>3, SMT
  <1>10. QED
    BY <1>1, <1>7, <1>8, <1>9, Zenon DEF Carved

LEMMA CarvedStays ==
  ASSUME Carved, UNCHANGED <<extractor, file, chunk, carved>>,
         \/ UNCHANGED <<phase, report>>
         \/ phase' = "done" /\ ~More /\ extractor # "network"
         \/ phase' # "done"
  PROVE  Carved'
  <1>1. Visible' = Visible /\ Lo' = Lo
    BY Zenon DEF Visible, Lo
  <1>2. extractor # "network" => (More' <=> More)
    BY Zenon DEF More, Lo, Hops
  <1>3. UNCHANGED report => (More' <=> More)
    BY Zenon DEF More, Lo, Hops
  <1>4. QED
    BY <1>1, <1>2, <1>3, Zenon DEF Carved

LEMMA SearchedInit == AllInit => Searched
  <1> SUFFICES ASSUME AllInit, extractor \in LinuxExtractors
               PROVE  ListWalked /\ Reported /\ Carved
    BY Zenon DEF Searched
  <1>1. /\ phase = "find" /\ chunk = 0 /\ report = <<>>
        /\ head = Nowhere /\ queue = <<>> /\ visited = {} /\ carved = <<>>
    BY LinuxAssumption, SMT DEF AllInit, LinuxInit, Init
  <1>2. ToSet(<<>>) = {}
    BY EmptyList
  <1>3. ListWalked
    BY <1>1, <1>2, SMT DEF ListWalked
  <1>4. Reported
    BY <1>1, <1>2, SMT DEF Reported, Keys, KeysFrom, Read, Values
  <1>5. Carved
    <2>1. \A o \in Visible : ~ (o.at \div ChunkSize < 0)
      <3>1. Typed
        BY TypedInit
      <3>2. \A o \in Visible : o.at \div ChunkSize \in Nat
        BY <3>1, PlaceInChunk, Zenon DEF Visible, Typed, IsFile
      <3>3. QED
        BY <3>2, SMT
    <2>2. 0 <= MaxHops
      BY ChunkAssumption, SMT
    <2>3. QED
      BY <1>1, <1>2, <2>1, <2>2, SMT DEF Carved
  <1>6. QED
    BY <1>3, <1>4, <1>5

LEMMA SearchedStep == Typed /\ Searched /\ [AllNext]_vars => Searched'
  <1> SUFFICES ASSUME Typed, Searched, [AllNext]_vars PROVE Searched'
    OBVIOUS
  <1>1. extractor' = extractor
    BY Zenon DEF AllNext, LinuxNext, FindInitTask, FindHeadModule, NoKernelBase, StartWalk,
       DropVisited, VisitTask, VisitModule, Visit, EndWalk, CarveTasks, CarveModules, Carve,
       EndCarving, ScanNext, NoElfNotes, ReadChunk, Finish, ElfNotes, vars, scanVars
  <1> SUFFICES ASSUME extractor \in LinuxExtractors PROVE ListWalked' /\ Reported' /\ Carved'
    BY <1>1, Zenon DEF Searched
  <1>2. ListWalked /\ Reported /\ Carved /\ extractor # "network"
    BY SMT DEF Searched, LinuxExtractors
  <1>3. CASE UNCHANGED vars
    <2>1. UNCHANGED <<extractor, file, phase, chunk, report, memory, head, queue, visited, carved>>
      BY <1>3, Zenon DEF vars, scanVars, listVars
    <2>2. OnList' = OnList
      BY <2>1, Zenon DEF OnList
    <2>3. ListWalked'
      BY <1>2, <2>1, <2>2, Zenon DEF ListWalked
    <2>4. Reported'
      BY <1>2, <2>1, ReportedStays, Zenon DEF ListWalked
    <2>5. Carved'
      BY <1>2, <2>1, CarvedStays, Zenon
    <2>6. QED
      BY <2>3, <2>4, <2>5
  <1>4. ASSUME NEW v \in Window \cup {Nowhere}, StartWalk(v)
        PROVE  ListWalked' /\ Reported' /\ Carved'
    <2>1. /\ phase = "find" /\ phase' = "walk"
          /\ UNCHANGED <<extractor, file, chunk, report, memory, visited, carved>>
      BY <1>4, Zenon DEF StartWalk
    <2>2. phase' # "done"
      BY <2>1
    <2>3. QED
      BY <1>2, <1>4, <2>1, <2>2, WalkedStart, ReportedStays, CarvedStays
  <1>5. ASSUME NEW v \in Addresses, Reads(v)
        PROVE  ListWalked' /\ Reported' /\ Carved'
    <2>1. phase = "walk" /\ UNCHANGED <<extractor, file, phase, chunk, carved>>
      BY <1>5, ReadFacts, Zenon DEF Typed
    <2>2. phase' # "done"
      BY <2>1
    <2>3. QED
      BY <1>2, <1>5, <2>1, <2>2, WalkedRead, ReportedRead, CarvedStays
  <1>6. CASE DropVisited
    <2>1. phase = "walk" /\ UNCHANGED <<extractor, file, phase, chunk, report, memory, visited, carved>>
      BY <1>6, Zenon DEF DropVisited, Walking, scanVars
    <2>2. QED
      BY <1>2, <1>6, <2>1, WalkedDrop, ReportedStays, CarvedStays
  <1>7. CASE EndWalk \/ EndCarving
    <2>1. /\ phase' = "scan" \/ (phase' = "done" /\ ~More)
          /\ UNCHANGED <<extractor, file, chunk, report, memory, visited, carved>>
      BY <1>7, Zenon DEF EndWalk, EndCarving, listVars
    <2>2. phase' = "scan" => phase' # "done"
      BY SMT
    <2>3. QED
      BY <1>2, <1>7, <2>1, <2>2, WalkedOn, ReportedStays, CarvedStays
  <1>8. CASE Carving
    BY <1>2, <1>8, WalkedOn, ReportedCarve, CarvedStep
  <1>9. CASE AllNext
    <2>1. LinuxNext
      BY <1>9, LinuxSteps
    <2>2. QED
      BY <1>4, <1>5, <1>6, <1>7, <1>8, <2>1, Starts, VisitIsReads DEF LinuxNext, Carving
  <1>10. QED
    BY <1>3, <1>9

LEMMA AlwaysSearched == Spec => [](Typed /\ Searched)
  BY TypedInit, TypedStep, SearchedInit, SearchedStep, PTL DEF Spec

LEMMA ListedIsKeys == Listed = KeysFrom(report, "list_walk")
  BY Zenon DEF Listed, KeysFrom, ToSet

(* When the extractor is done, all that is visible has been carved.        *)
LEMMA AllCarved ==
  ASSUME Typed, Searched, LinuxDone
  PROVE  ToSet(carved) = Visible
  <1>1. extractor \in LinuxExtractors /\ phase = "done" /\ Carved /\ ~More /\ Hops = chunk
    BY SMT DEF LinuxDone, Searched, Carved, Hops, LinuxExtractors
  <1>2. ASSUME NEW o \in Visible
        PROVE  o.at \div ChunkSize < chunk
    <2> DEFINE q == o.at \div ChunkSize
    <2>1. /\ o.at \in Nat /\ chunk \in Nat /\ file.size \in Nat /\ MaxHops \in Nat
          /\ ChunkSize \in Nat \ {0} /\ StructSize \in Nat
          /\ q < MaxHops /\ o.at + StructSize < file.size
      BY ChunkAssumption, Zenon DEF Typed, IsFile, Visible
    <2>2. q \in Nat
      BY <2>1, PlaceInChunk
    <2>3. q * ChunkSize <= o.at
      BY <2>1, <2>2, PlaceInChunk, Zenon
    <2>4. CASE chunk >= MaxHops
      BY <2>1, <2>2, <2>4, SMT
    <2>5. CASE chunk * ChunkSize >= file.size
      <3>1. q * ChunkSize \in Nat /\ chunk * ChunkSize \in Nat
        BY <2>1, <2>2, SMT
      <3>2. q * ChunkSize < chunk * ChunkSize
        BY <2>1, <2>3, <2>5, <3>1, SMT
      <3>3. chunk <= q => chunk * ChunkSize <= q * ChunkSize
        <4> SUFFICES ASSUME chunk <= q PROVE chunk * ChunkSize <= q * ChunkSize
          OBVIOUS
        <4>1. q - chunk \in Nat
          BY <2>1, <2>2, SMT
        <4>2. (q - chunk) * ChunkSize >= 0
          BY <2>1, <4>1, SMT
        <4>3. (q - chunk) * ChunkSize = q * ChunkSize - chunk * ChunkSize
          BY <2>1, <2>2, SMT
        <4>4. QED
          BY <3>1, <4>2, <4>3, SMT
      <3>4. QED
        BY <2>1, <2>2, <3>1, <3>2, <3>3, SMT
    <2>6. chunk >= MaxHops \/ chunk * ChunkSize >= file.size
      <3>1. chunk * ChunkSize \in Nat
        BY <2>1, SMT
      <3>2. QED
        BY <1>1, <2>1, <3>1, SMT DEF More, Lo
    <2>7. QED
      BY <2>4, <2>5, <2>6
  <1>3. QED
    BY <1>1, <1>2, Zenon DEF Carved

LEMMA ReadIsListed ==
  ASSUME ListWalked
  PROVE  Read(visited) \subseteq ListedKeys
  <1>1. CASE head = Nowhere
    <2>1. visited = {}
      BY <1>1, Zenon DEF ListWalked
    <2>2. QED
      BY <2>1 DEF Read
  <1>2. CASE head # Nowhere
    BY <1>2, Zenon DEF ListWalked, Read, ListedKeys
  <1>3. QED
    BY <1>1, <1>2

(* No rootkit escapes by where the walk ends: for any memory, any file and *)
(* any limits, whatever of it is visible and shares its key with nothing   *)
(* on the list is reported as hidden.                                      *)
THEOREM HiddenIsReported == Spec => []HiddenAreReported
  <1>1. Typed /\ Searched => HiddenAreReported
    <2> SUFFICES ASSUME Typed, Searched, LinuxDone, NEW o \in Visible, o.value \notin ListedKeys
                 PROVE  o \in Anomalies
      BY Zenon DEF HiddenAreReported
    <2>1. o \in ToSet(carved)
      BY AllCarved
    <2>2. ListWalked /\ Reported
      BY Zenon DEF Searched, LinuxDone
    <2>3. o.value \notin Listed
      BY <2>2, ReadIsListed, ListedIsKeys, Zenon DEF Reported
    <2>4. QED
      BY <2>1, <2>3 DEF Anomalies
  <1>2. QED
    BY <1>1, AlwaysSearched, PTL

(* When the limit is not in the way, the whole list has been walked.       *)
LEMMA WholeListRead ==
  ASSUME Typed, ListWalked, phase = "done",
         head = Nowhere \/ Cardinality(OnList) <= MaxWalkHops
  PROVE  Read(visited) = ListedKeys
  <1>1. CASE head = Nowhere
    <2>1. visited = {}
      BY <1>1, Zenon DEF ListWalked
    <2>2. QED
      BY <1>1, <2>1 DEF Read, ListedKeys
  <1>2. CASE head # Nowhere
    <2>1. visited \subseteq OnList /\ visited \in SUBSET Addresses
      BY Zenon DEF ListWalked, Typed
    <2>2. OnList \subseteq visited
      <3>1. CASE queue = <<>>
        <4>1. ToSet(queue) = {}
          BY <3>1, EmptyList
        <4>2. head \in visited /\ \A w \in visited : memory[w].next \in visited \cup {Nowhere}
          BY <1>2, <4>1, Zenon DEF ListWalked
        <4>3. QED
          BY <2>1, <4>2, ListIsLeast
      <3>2. CASE Cardinality(visited) >= MaxWalkHops
        <4>1. IsFiniteSet(OnList)
          BY LinuxAssumption, FS_Subset, Zenon DEF OnList
        <4>2. /\ Cardinality(visited) <= Cardinality(OnList)
              /\ Cardinality(visited) \in Nat /\ Cardinality(OnList) \in Nat
              /\ Cardinality(OnList) = Cardinality(visited) <=> OnList = visited
          BY <2>1, <4>1, FS_Subset, FS_CardinalityType, Zenon
        <4>3. Cardinality(OnList) <= MaxWalkHops /\ MaxWalkHops \in Nat
          BY <1>2, LinuxAssumption
        <4>4. Cardinality(OnList) = Cardinality(visited)
          BY <3>2, <4>2, <4>3, SMT
        <4>5. QED
          BY <4>2, <4>4
      <3>3. QED
        BY <3>1, <3>2, SMT DEF ListWalked
    <2>3. visited = OnList
      BY <2>1, <2>2
    <2>4. QED
      BY <1>2, <2>3, Zenon DEF Read, ListedKeys
  <1>3. QED
    BY <1>1, <1>2

LEMMA DistinctLength ==
  ASSUME NEW s, IsList(s), Distinct(s)
  PROVE  Len(s) = Cardinality(ToSet(s))
  <1>1. Len(s) \in Nat /\ DOMAIN s = 1 .. Len(s) /\ s \in [1 .. Len(s) -> ToSet(s)]
    BY SMT DEF IsList
  <1>2. ToSet(s) = {s[i] : i \in 1 .. Len(s)}
    BY <1>1, Zenon DEF ToSet
  <1>3. s \in Bijection(1 .. Len(s), ToSet(s))
    BY <1>1, <1>2, Zenon DEF Distinct, Bijection, Injection, Surjection, IsInjective
  <1>4. ExistsBijection(1 .. Len(s), ToSet(s))
    BY <1>3, Zenon DEF ExistsBijection
  <1>5. QED
    BY <1>1, <1>4, FS_CountingElements, Zenon

(* Nothing is called hidden that the list leads to, and the report has     *)
(* what is on the list or visible, once, unless the walk was cut off.      *)
THEOREM NoAlarmIsFalse == Spec => []NoFalseAlarm
  <1>1. Typed /\ Searched => NoFalseAlarm
    <2> SUFFICES ASSUME Typed, Searched, LinuxDone,
                        head = Nowhere \/ Cardinality(OnList) <= MaxWalkHops
                 PROVE  /\ \A o \in Anomalies : o.value \notin ListedKeys
                        /\ {report[i].key[2] : i \in DOMAIN report} =
                             ListedKeys \cup {o.value : o \in Visible}
                        /\ Len(report) = Cardinality(ToSet(report))
      BY Zenon DEF NoFalseAlarm
    <2>1. ListWalked /\ Reported /\ phase = "done" /\ extractor # "lina_process"
      BY SMT DEF Searched, LinuxDone, LinuxExtractors
    <2>2. Read(visited) = ListedKeys
      BY <2>1, WholeListRead
    <2>3. \A o \in Anomalies : o.value \notin ListedKeys
      BY <2>1, <2>2, ListedIsKeys, Zenon DEF Anomalies, Reported
    <2>4. {report[i].key[2] : i \in DOMAIN report} = Keys(report)
      BY Zenon DEF Keys, ToSet
    <2>5. Keys(report) = ListedKeys \cup {o.value : o \in Visible}
      BY <2>1, <2>2, AllCarved, Zenon DEF Reported, Values
    <2>6. OneEach(report)
      BY <2>1 DEF Typed, ElfReport
    <2>7. Len(report) = Cardinality(ToSet(report))
      BY <2>6, DistinctLength, Zenon DEF OneEach, Distinct
    <2>8. QED
      BY <2>3, <2>4, <2>5, <2>7
  <1>2. QED
    BY <1>1, AlwaysSearched, PTL

-----------------------------------------------------------------------------
(* The order in which entries are met: chunk after chunk, and in a chunk   *)
(* pattern after pattern.                                                  *)

Placed(e) == e.at \in Nat /\ e.pattern \in {"a", "b", "c"}

Met(d, e) ==
  ChunkOf(d) < ChunkOf(e) \/ (ChunkOf(d) = ChunkOf(e) /\ InTurn(d, e))

Sorted(l) == \A i, j \in DOMAIN l : i < j => Met(l[i], l[j])

LEMMA ChunkNumber ==
  ASSUME NEW d, Placed(d)
  PROVE  ChunkOf(d) \in Nat
  BY PlaceInChunk, Zenon DEF Placed, ChunkOf

LEMMA MetOnce ==
  ASSUME NEW d, Placed(d), NEW e, Placed(e), Met(d, e)
  PROVE  ~ Met(e, d)
  <1>1. ChunkOf(d) \in Nat /\ ChunkOf(e) \in Nat
    BY ChunkNumber
  <1>2. InTurn(d, e) => ~ InTurn(e, d)
    BY SMT DEF InTurn, Turns, Placed
  <1>3. QED
    BY <1>1, <1>2, SMT DEF Met

LEMMA MetTransitive ==
  ASSUME NEW c, Placed(c), NEW d, Placed(d), NEW e, Placed(e), Met(c, d), Met(d, e)
  PROVE  Met(c, e)
  <1>1. ChunkOf(c) \in Nat /\ ChunkOf(d) \in Nat /\ ChunkOf(e) \in Nat
    BY ChunkNumber
  <1>2. InTurn(c, d) /\ InTurn(d, e) => InTurn(c, e)
    BY SMT DEF InTurn, Turns, Placed
  <1>3. QED
    BY <1>1, <1>2, SMT DEF Met

(* Of two entries for one pattern the first in the file is met first.      *)
LEMMA MetEarlier ==
  ASSUME NEW d, Placed(d), NEW e, Placed(e), d.pattern = e.pattern, Met(d, e)
  PROVE  d.at < e.at
  <1>1. CASE ChunkOf(d) < ChunkOf(e)
    <2> DEFINE c == ChunkOf(e)
    <2>1. c \in Nat /\ ChunkOf(d) \in Nat /\ d.at \in Nat /\ e.at \in Nat /\ c * ChunkSize \in Nat
      BY ChunkNumber, ChunkAssumption, SMT DEF Placed
    <2>2. c * ChunkSize <= e.at
      BY <2>1, PlaceInChunk, Zenon DEF ChunkOf
    <2>3. d.at < c * ChunkSize
      <3> DEFINE b == ChunkOf(d)
      <3>1. d.at < b * ChunkSize + ChunkSize
        BY <2>1, PlaceInChunk, Zenon DEF ChunkOf
      <3>2. b \in Nat /\ c \in Nat /\ b + 1 <= c /\ ChunkSize \in Nat
        BY <1>1, <2>1, ChunkAssumption
      <3> HIDE DEF b, c
      <3>3. (c - b - 1) * ChunkSize >= 0 /\ (c - b - 1) * ChunkSize = c * ChunkSize - b * ChunkSize - ChunkSize
        <4>1. c - b - 1 \in Nat
          BY <3>2, SMT
        <4>2. (c - b - 1) * ChunkSize >= 0
          BY <3>2, <4>1, SMT
        <4>3. (c - b - 1) * ChunkSize = c * ChunkSize - b * ChunkSize - ChunkSize
          BY <3>2, SMT
        <4>4. QED
          BY <4>2, <4>3
      <3>4. b * ChunkSize \in Nat /\ c * ChunkSize \in Nat
        BY <3>2, SMT
      <3>5. QED
        BY <2>1, <3>1, <3>2, <3>3, <3>4, SMT
    <2> HIDE DEF c
    <2>4. QED
      BY <2>1, <2>2, <2>3, SMT
  <1>2. CASE InTurn(d, e)
    BY <1>2, SMT DEF InTurn, Turns, Placed
  <1>3. ChunkOf(d) < ChunkOf(e) \/ InTurn(d, e)
    BY Zenon DEF Met
  <1>4. QED
    BY <1>1, <1>2, <1>3

-----------------------------------------------------------------------------
(* Of the entries F that have been met the list keeps the first of each    *)
(* key, and of a kind with a limit the first ones.                         *)

Kept(list, F) ==
  /\ OneEach(list) /\ ToSet(list) \subseteq F /\ Sorted(list)
  /\ \A c \in ToSet(list), d \in F : c.key = d.key => c = d \/ Met(c, d)
  /\ \A e \in F :
       \/ \E c \in ToSet(list) : c.key = e.key
       \/ /\ Full(list, e.key[1])
          /\ \A c \in ToSet(list) : c.key[1] = e.key[1] => Met(c, e)

LEMMA NothingKept == Kept(<<>>, {})
  <1>1. OneEach(<<>>) /\ ToSet(<<>>) = {}
    BY EmptyReport, EmptyList
  <1>2. Sorted(<<>>)
    BY SMT DEF Sorted
  <1>3. QED
    BY <1>1, <1>2, Zenon DEF Kept

(* The list with one entry more.                                           *)
LEMMA OneMore ==
  ASSUME NEW list, OneEach(list), NEW e, \A c \in ToSet(list) : c.key # e.key
  PROVE  LET m == Append(list, e)
         IN  /\ OneEach(m) /\ IsList(m) /\ Extends(m, list) /\ ToSet(m) = ToSet(list) \cup {e}
             /\ Sorted(list) /\ (\A c \in ToSet(list) : Met(c, e)) => Sorted(m)
  <1> DEFINE m == Append(list, e)
  <1>1. /\ IsList(list) /\ Len(list) \in Nat /\ DOMAIN list = 1 .. Len(list)
        /\ \A i \in 1 .. Len(list) : list[i] \in ToSet(list)
    BY TypedList, SMT DEF OneEach, IsList
  <1>2. IsList(m) /\ ToSet(m) = ToSet(list) \cup {e}
    BY <1>1, AppendedList
  <1>3. /\ Len(m) = Len(list) + 1 /\ DOMAIN m = 1 .. Len(list) + 1
        /\ m[Len(list) + 1] = e /\ \A i \in 1 .. Len(list) : m[i] = list[i]
    BY <1>1, SMT DEF IsList
  <1> HIDE DEF m
  <1>4. \A i \in DOMAIN m : i \in DOMAIN list \/ i = Len(list) + 1
    BY <1>1, <1>3, SMT
  <1>5. \A i, j \in DOMAIN m : m[i].key = m[j].key => i = j
    <2> SUFFICES ASSUME NEW i \in DOMAIN m, NEW j \in DOMAIN m, m[i].key = m[j].key PROVE i = j
      OBVIOUS
    <2>1. CASE i \in DOMAIN list /\ j \in DOMAIN list
      BY <1>1, <1>3, <2>1, Zenon DEF OneEach
    <2>2. CASE i \in DOMAIN list /\ j = Len(list) + 1
      BY <1>1, <1>3, <2>2, Zenon
    <2>3. CASE j \in DOMAIN list /\ i = Len(list) + 1
      BY <1>1, <1>3, <2>3, Zenon
    <2>4. QED
      BY <1>4, <2>1, <2>2, <2>3, Zenon
  <1>6. Extends(m, list)
    BY <1>1, <1>3, SMT DEF Extends
  <1>7. ASSUME Sorted(list), \A c \in ToSet(list) : Met(c, e)
        PROVE  Sorted(m)
    <2> SUFFICES ASSUME NEW i \in DOMAIN m, NEW j \in DOMAIN m, i < j PROVE Met(m[i], m[j])
      BY DEF Sorted
    <2>1. i \in DOMAIN list /\ (j \in DOMAIN list \/ j = Len(list) + 1)
      BY <1>1, <1>3, SMT
    <2>2. CASE j \in DOMAIN list
      BY <1>1, <1>3, <1>7, <2>1, <2>2, Zenon DEF Sorted
    <2>3. CASE j = Len(list) + 1
      BY <1>1, <1>3, <1>7, <2>1, <2>3, Zenon
    <2>4. QED
      BY <2>1, <2>2, <2>3
  <1>8. QED
    BY <1>2, <1>5, <1>6, <1>7, Zenon DEF OneEach, m

LEMMA KeepsOne ==
  ASSUME NEW list, NEW F, Kept(list, F), NEW e, \A d \in F : Met(d, e)
  PROVE  Kept(Add(list, e), F \cup {e})
  <1>1. /\ OneEach(list) /\ IsList(list) /\ ToSet(list) \subseteq F /\ Sorted(list)
        /\ \A c \in ToSet(list), d \in F : c.key = d.key => c = d \/ Met(c, d)
    BY Zenon DEF Kept, OneEach
  <1>2. (\E i \in DOMAIN list : list[i].key = e.key) <=> \E c \in ToSet(list) : c.key = e.key
    BY Zenon DEF ToSet
  <1>3. \A d \in F :
          \/ \E c \in ToSet(list) : c.key = d.key
          \/ Full(list, d.key[1]) /\ \A c \in ToSet(list) : c.key[1] = d.key[1] => Met(c, d)
    BY Zenon DEF Kept
  <1>4. \A c \in ToSet(list) : Met(c, e)
    BY <1>1
  <1>5. CASE Full(list, e.key[1]) \/ \E c \in ToSet(list) : c.key = e.key
    <2>1. Add(list, e) = list
      BY <1>2, <1>5, Zenon DEF Add
    <2>2. \A c \in ToSet(list), d \in F \cup {e} : c.key = d.key => c = d \/ Met(c, d)
      BY <1>1, <1>4
    <2>3. \A d \in F \cup {e} :
            \/ \E c \in ToSet(list) : c.key = d.key
            \/ Full(list, d.key[1]) /\ \A c \in ToSet(list) : c.key[1] = d.key[1] => Met(c, d)
      BY <1>3, <1>4, <1>5
    <2>4. ToSet(list) \subseteq F \cup {e}
      BY <1>1
    <2>5. QED
      BY <1>1, <2>1, <2>2, <2>3, <2>4, Zenon DEF Kept
  <1>6. CASE ~ Full(list, e.key[1]) /\ \A c \in ToSet(list) : c.key # e.key
    <2> DEFINE m == Append(list, e)
    <2>1. Add(list, e) = m
      BY <1>2, <1>6, Zenon DEF Add
    <2>2. OneEach(m) /\ IsList(m) /\ Extends(m, list) /\ ToSet(m) = ToSet(list) \cup {e} /\ Sorted(m)
      BY <1>1, <1>4, <1>6, OneMore
    <2> HIDE DEF m
    <2>3. \A d \in F : d.key # e.key
      BY <1>3, <1>6, Zenon
    <2>4. \A c \in ToSet(m), d \in F \cup {e} : c.key = d.key => c = d \/ Met(c, d)
      BY <1>1, <1>4, <2>2, <2>3, Zenon
    <2>5. \A d \in F :
            \/ \E c \in ToSet(m) : c.key = d.key
            \/ Full(m, d.key[1]) /\ \A c \in ToSet(m) : c.key[1] = d.key[1] => Met(c, d)
      <3> SUFFICES ASSUME NEW d \in F, ~ \E c \in ToSet(m) : c.key = d.key
                   PROVE  Full(m, d.key[1]) /\ \A c \in ToSet(m) : c.key[1] = d.key[1] => Met(c, d)
        OBVIOUS
      <3>1. Full(list, d.key[1]) /\ \A c \in ToSet(list) : c.key[1] = d.key[1] => Met(c, d)
        BY <1>3, <2>2, Zenon
      <3>2. Full(m, d.key[1])
        BY <1>1, <2>2, <3>1, FullStays
      <3>3. e.key[1] # d.key[1]
        BY <1>6, <3>1, Zenon
      <3>4. QED
        BY <2>2, <3>1, <3>2, <3>3, Zenon
    <2>6. e \in ToSet(m)
      BY <2>2
    <2>7. QED
      BY <1>1, <2>1, <2>2, <2>4, <2>5, <2>6, Zenon DEF Kept
  <1>7. QED
    BY <1>5, <1>6, Zenon

(* A list of entries that are met after those of F, and in their order.    *)
LEMMA KeepsAll ==
  ASSUME NEW list, NEW F, Kept(list, F), NEW es, IsList(es), Sorted(es),
         \A d \in F, e \in ToSet(es) : Met(d, e)
  PROVE  Kept(AddAll(list, es), F \cup ToSet(es))
  <1>1. /\ Len(es) \in Nat /\ DOMAIN es = 1 .. Len(es)
        /\ ToSet(es) = {es[i] : i \in 1 .. Len(es)}
    BY ListElements, Zenon DEF IsList
  <1>2. PICK g : AddedUpTo(list, es, g, Len(es)) /\ AddAll(list, es) = g[Len(es)]
    BY <1>1, AddAllIsAdded
  <1>3. \A n \in 0 .. Len(es) : g[n] = Added(list, es, g, n)
    BY <1>2, Zenon DEF AddedUpTo
  <1> DEFINE A(n) == F \cup {es[i] : i \in 1 .. n}
             G == {n \in 0 .. Len(es) : Kept(g[n], A(n))}
  <1>4. 0 \in G
    <2>1. g[0] = list /\ 0 \in 0 .. Len(es)
      BY <1>1, <1>3, SMT DEF Added
    <2>2. A(0) = F
      BY SMT
    <2> HIDE DEF A
    <2>3. QED
      BY <2>1, <2>2
  <1>5. ASSUME NEW n \in 1 .. Len(es), n - 1 \in G
        PROVE  n \in G
    <2>1. Kept(g[n - 1], A(n - 1)) /\ n \in 0 .. Len(es) /\ n # 0
      BY <1>1, <1>5, SMT
    <2>2. g[n] = Add(g[n - 1], es[n])
      BY <1>3, <2>1, Zenon DEF Added
    <2>3. A(n) = A(n - 1) \cup {es[n]}
      BY <1>1, SMT
    <2>4. \A d \in A(n - 1) : Met(d, es[n])
      <3> SUFFICES ASSUME NEW d \in A(n - 1) PROVE Met(d, es[n])
        OBVIOUS
      <3>1. CASE d \in F
        BY <1>1, <3>1, Zenon
      <3>2. ASSUME NEW i \in 1 .. n - 1, d = es[i]
            PROVE  Met(d, es[n])
        <4>1. i \in DOMAIN es /\ n \in DOMAIN es /\ i < n
          BY <1>1, SMT
        <4>2. QED
          BY <3>2, <4>1, Zenon DEF Sorted
      <3>3. QED
        BY <3>1, <3>2, Zenon
    <2> HIDE DEF A
    <2>5. Kept(g[n], A(n))
      BY <2>1, <2>2, <2>3, <2>4, KeepsOne
    <2>6. QED
      BY <2>1, <2>5
  <1>6. 0 .. Len(es) \subseteq G
    <2> HIDE DEF G
    <2>1. QED
      BY <1>1, <1>4, <1>5, IntervalInduction
  <1>7. Kept(g[Len(es)], A(Len(es)))
    <2>1. Len(es) \in 0 .. Len(es)
      BY <1>1
    <2> HIDE DEF A
    <2>2. QED
      BY <1>6, <2>1
  <1>8. QED
    BY <1>1, <1>2, <1>7

(* linux/network stops at its limit: what is missing is met after all that *)
(* is reported.                                                            *)
CutOff(list, F) ==
  /\ extractor = "network" /\ Len(list) = MaxHops
  /\ OneEach(list) /\ ToSet(list) \subseteq F
  /\ \A c \in ToSet(list), d \in F : c.key = d.key => c = d \/ Met(c, d)
  /\ \A e \in F : \/ \E c \in ToSet(list) : c.key = e.key
                  \/ \A c \in ToSet(list) : Met(c, e)

LEMMA CutKept ==
  ASSUME NEW l, NEW F, Kept(l, F), \A e \in F : Placed(e),
         extractor = "network" => \A e \in F : e.key[1] = "socket"
  PROVE  Kept(Within(l), F) \/ CutOff(Within(l), F)
  <1>1. CASE ~ (extractor = "network" /\ Len(l) > MaxHops)
    <2>1. Within(l) = l
      BY <1>1, Zenon DEF Within
    <2>2. QED
      BY <2>1
  <1>2. CASE extractor = "network" /\ Len(l) > MaxHops
    <2> DEFINE m == SubSeq(l, 1, MaxHops)
    <2>1. OneEach(l) /\ IsList(l) /\ ToSet(l) \subseteq F /\ Sorted(l)
      BY Zenon DEF Kept, OneEach
    <2>2. l \in Seq(ToSet(l)) /\ MaxHops \in Nat
      BY <2>1, ChunkAssumption DEF IsList
    <2>3. /\ Len(l) \in Nat /\ DOMAIN l = 1 .. Len(l) /\ ToSet(l) = {l[i] : i \in 1 .. Len(l)}
      BY <2>2, ListElements
    <2>4. m \in Seq(ToSet(l)) /\ Len(m) = MaxHops /\ \A i \in 1 .. MaxHops : m[i] = l[i]
      BY <1>2, <2>2, SMT
    <2>5. /\ Within(l) = m /\ OneEach(m)
      BY <1>2, <2>1, CutIsOneEach, Zenon DEF Within
    <2> HIDE DEF m
    <2>6. ToSet(m) = {l[i] : i \in 1 .. MaxHops}
      <3>1. ToSet(m) = {m[i] : i \in 1 .. MaxHops}
        BY <2>4, ListElements, Zenon
      <3>2. QED
        BY <2>4, <3>1, SMT
    <2>7. ToSet(m) \subseteq ToSet(l)
      BY <2>4, TypedList, Zenon
    <2>8. \A c \in ToSet(m), d \in F : c.key = d.key => c = d \/ Met(c, d)
      BY <2>7, Zenon DEF Kept
    <2>9. ASSUME NEW e \in F, ~ \E c \in ToSet(m) : c.key = e.key, NEW d \in ToSet(m)
          PROVE  Met(d, e)
      <3>1. e.key[1] = "socket"
        BY <1>2
      <3>2. ~ Full(l, e.key[1])
        BY <3>1 DEF Full
      <3>3. PICK c \in ToSet(l) : c.key = e.key
        BY <3>2, Zenon DEF Kept
      <3>4. c = e \/ Met(c, e)
        BY <3>3, Zenon DEF Kept
      <3>5. PICK j \in 1 .. Len(l) : c = l[j]
        BY <2>3, Zenon
      <3>6. PICK i \in 1 .. MaxHops : d = l[i]
        BY <2>6, Zenon
      <3>7. j \notin 1 .. MaxHops
        BY <2>6, <2>9, <3>3, <3>5, Zenon
      <3>8. i < j /\ i \in DOMAIN l /\ j \in DOMAIN l
        BY <1>2, <2>2, <2>3, <3>7, SMT
      <3>9. Met(d, c)
        BY <2>1, <3>5, <3>6, <3>8, Zenon DEF Sorted
      <3>10. Placed(c) /\ Placed(d) /\ Placed(e)
        BY <2>1, <2>7
      <3>11. QED
        BY <3>4, <3>9, <3>10, MetTransitive
    <2>10. CutOff(m, F)
      BY <1>2, <2>1, <2>4, <2>5, <2>7, <2>8, <2>9 DEF CutOff
    <2>11. QED
      BY <2>5, <2>10
  <1>3. QED
    BY <1>1, <1>2

-----------------------------------------------------------------------------
(* Unless something crosses its end, a chunk contributes what the file as  *)
(* a whole has there.                                                      *)

Uncrossed == ~ \E o \in file.occurrences : Crosses(o)

(* The windows of generic/keys divide the chunks.                          *)
LEMMA WindowsFit ==
  ASSUME NEW c \in Nat, NEW n \in Nat, n % WindowSize = 0, n < c * ChunkSize
  PROVE  n + WindowSize <= c * ChunkSize
  <1> DEFINE w == WindowSize
             k == ChunkSize \div w
             q == n \div w
  <1>1. w \in Nat \ {0} /\ ChunkSize \in Nat \ {0} /\ ChunkSize % w = 0
    BY ChunkAssumption
  <1>2. k \in Nat /\ ChunkSize = k * w /\ q \in Nat /\ n = q * w
    BY <1>1, SMT
  <1> HIDE DEF w, k, q
  <1>3. c * ChunkSize = (c * k) * w
    BY <1>1, <1>2, SMT
  <1> DEFINE m == c * k
  <1>4. m \in Nat /\ q * w < m * w
    BY <1>2, <1>3, SMT
  <1> HIDE DEF m
  <1>5. q + 1 <= m
    <2>1. CASE m <= q
      <3>1. (q - m) * w >= 0 /\ (q - m) * w = q * w - m * w
        BY <1>1, <1>2, <1>4, <2>1, SMT
      <3>2. q * w \in Nat /\ m * w \in Nat
        BY <1>1, <1>2, <1>4, SMT
      <3>3. QED
        BY <1>4, <3>1, <3>2, SMT
    <2>2. QED
      BY <1>2, <1>4, <2>1, SMT
  <1>6. (q + 1) * w <= m * w
    <2>1. (m - q - 1) * w >= 0 /\ (m - q - 1) * w = m * w - (q + 1) * w
      BY <1>1, <1>2, <1>4, <1>5, SMT
    <2>2. (q + 1) * w \in Nat /\ m * w \in Nat
      BY <1>1, <1>2, <1>4, SMT
    <2>3. QED
      BY <2>1, <2>2, SMT
  <1>7. (q + 1) * w = n + w
    BY <1>1, <1>2, SMT
  <1>8. QED
    BY <1>3, <1>6, <1>7 DEF w, m

(* What is in the file from Lo on up to the end of the chunk.              *)
LEMMA SameInChunk ==
  ASSUME Typed, Lo < file.size, extractor \in AllScanners,
         NEW o \in file.occurrences, ~ Crosses(o), Lo <= o.at
  PROVE  /\ Fits(extractor, o, Hi) <=> Fits(extractor, o, file.size) /\ o.at < Lo + ChunkSize
         /\ Fits(extractor, o, Hi) => EntryOf(extractor, o, Hi) = EntryOf(extractor, o, file.size)
  <1> DEFINE x == extractor
             size == file.size
             end == Lo + ChunkSize
  <1>1. /\ Lo \in Nat /\ size \in Nat /\ chunk \in Nat /\ Lo = chunk * ChunkSize
        /\ ChunkSize \in Nat \ {0} /\ WindowSize \in Nat \ {0} /\ StructSize \in Nat \ {0}
        /\ o.at \in Nat /\ o.length \in Nat \ {0} /\ o.reach \in Nat \ {0} /\ o.length <= o.reach
    BY ChunkAssumption, SMT DEF Typed, IsFile, Lo
  <1>2. Hi = IF end < size THEN end ELSE size
    BY DEF Hi
  <1>3. CASE x = "network"
    <2>1. Fits(x, o, Hi) = (o.at + StructSize < Hi) /\ Fits(x, o, size) = (o.at + StructSize < size)
      BY <1>3 DEF Fits
    <2>2. EntryOf(x, o, Hi) = EntryOf(x, o, size)
      BY <1>3 DEF EntryOf, TextOf, Structured
    <2>3. ASSUME o.at < end, end < size
          PROVE  o.at + StructSize < end
      <3>1. o.at \div ChunkSize = chunk
        BY <1>1, <2>3, PlaceInChunk
      <3>2. (o.at \div ChunkSize + 1) * ChunkSize = end
        BY <1>1, <3>1, SMT
      <3>3. ~ (o.at + StructSize >= end)
        BY <1>3, <2>3, <3>2, SMT DEF Crosses
      <3>4. QED
        BY <1>1, <3>3, SMT
    <2> HIDE DEF end, size
    <2>4. end \in Nat
      BY <1>1, SMT DEF end
    <2>5. o.at + StructSize < Hi <=> o.at + StructSize < size /\ o.at < end
      BY <1>1, <1>2, <2>3, <2>4, SMT
    <2>6. QED
      BY <2>1, <2>2, <2>5 DEF end, size
  <1>4. CASE x = "keys"
    <2>1. /\ Fits(x, o, Hi) = (o.at + WindowSize <= Hi /\ o.at % WindowSize = 0)
          /\ Fits(x, o, size) = (o.at + WindowSize <= size /\ o.at % WindowSize = 0)
      BY <1>4 DEF Fits
    <2>2. EntryOf(x, o, Hi) = EntryOf(x, o, size)
      BY <1>4 DEF EntryOf, TextOf, Structured
    <2>3. ASSUME o.at < end, o.at % WindowSize = 0
          PROVE  o.at + WindowSize <= end
      <3>1. (chunk + 1) * ChunkSize = end /\ chunk + 1 \in Nat
        BY <1>1, SMT
      <3>2. QED
        BY <1>1, <2>3, <3>1, WindowsFit
    <2> HIDE DEF end, size
    <2>4. end \in Nat
      BY <1>1, SMT DEF end
    <2>5. o.at % WindowSize = 0 => (o.at + WindowSize <= Hi <=> o.at + WindowSize <= size /\ o.at < end)
      BY <1>1, <1>2, <2>3, <2>4, SMT
    <2>6. QED
      BY <2>1, <2>2, <2>5 DEF end, size
  <1>5. CASE x \notin {"network", "keys"}
    <2>1. ASSUME o.at < end, end < size
          PROVE  o.at + o.reach <= end
      <3>1. o.at \div ChunkSize = chunk
        BY <1>1, <2>1, PlaceInChunk
      <3>2. (o.at \div ChunkSize + 1) * ChunkSize = end
        BY <1>1, <3>1, SMT
      <3>3. ~ (o.at + o.reach > end)
        BY <1>5, <2>1, <3>2, SMT DEF Crosses
      <3>4. QED
        BY <1>1, <3>3, SMT
    <2>2. \A hi : Fits(x, o, hi) <=> o.at + o.length <= hi /\ (o.pattern \in ParsedOf(x) => Text(o, hi) # Junk)
      BY <1>5 DEF Fits
    <2>3. Text(o, Hi) = Text(o, size) => EntryOf(x, o, Hi) = EntryOf(x, o, size)
      BY <1>5 DEF EntryOf, TextOf, Structured
    <2> HIDE DEF end, size
    <2>4. end \in Nat
      BY <1>1, SMT DEF end
    <2>5. o.at + o.length <= Hi <=> o.at + o.length <= size /\ o.at < end
      BY <1>1, <1>2, <2>1, <2>4, SMT
    <2>6. o.at < end => Text(o, Hi) = Text(o, size)
      BY <1>1, <1>2, <2>1, <2>4, SMT DEF Text
    <2>7. QED
      BY <2>2, <2>3, <2>5, <2>6, Zenon DEF end, size
  <1>6. QED
    BY <1>3, <1>4, <1>5

(* The entries of the file, those of the chunks up to lo, those of the next.*)
AllEntries == ToSet(Entries(extractor, 0, file.size))

LEMMA AllEntriesAre ==
  ASSUME IsFile(file), extractor \in AllScanners
  PROVE  AllEntries = EntriesAt(extractor, PatternsOf(extractor), 0, file.size)
  BY EntriesListed DEF AllEntries, Lists

LEMMA FoundFacts ==
  ASSUME Typed, extractor \in AllScanners
  PROVE  \A e \in AllEntries :
           \E o \in Picked(extractor, PatternsOf(extractor), 0, file.size) :
             /\ e = EntryOf(extractor, o, file.size) /\ e.at = o.at /\ e.pattern = o.pattern
             /\ e.key = KeyOf(extractor, o, TextOf(extractor, o, file.size))
             /\ Placed(e) /\ o \in file.occurrences /\ o.pattern \in PatternsOf(extractor)
  <1> SUFFICES ASSUME NEW e \in AllEntries
               PROVE  \E o \in Picked(extractor, PatternsOf(extractor), 0, file.size) :
                        /\ e = EntryOf(extractor, o, file.size) /\ e.at = o.at /\ e.pattern = o.pattern
                        /\ e.key = KeyOf(extractor, o, TextOf(extractor, o, file.size))
                        /\ Placed(e) /\ o \in file.occurrences /\ o.pattern \in PatternsOf(extractor)
    OBVIOUS
  <1>1. AllEntries = EntriesAt(extractor, PatternsOf(extractor), 0, file.size)
    BY AllEntriesAre DEF Typed
  <1>2. PICK o \in Picked(extractor, PatternsOf(extractor), 0, file.size) :
               e = EntryOf(extractor, o, file.size)
    BY <1>1, Zenon DEF EntriesAt
  <1>3. o \in file.occurrences /\ o.pattern \in PatternsOf(extractor)
    BY Zenon DEF Picked
  <1>4. /\ e.at = o.at /\ e.pattern = o.pattern
        /\ e.key = KeyOf(extractor, o, TextOf(extractor, o, file.size))
    BY <1>2, SMT DEF EntryOf, Entry
  <1>5. o.at \in Nat
    BY <1>3, Zenon DEF Typed, IsFile
  <1>6. PatternsOf(extractor) \subseteq {"a", "b", "c"}
    BY SMT DEF PatternsOf
  <1>7. Placed(e)
    BY <1>3, <1>4, <1>5, <1>6, Zenon DEF Placed
  <1>8. QED
    BY <1>2, <1>3, <1>4, <1>7

FoundBefore(n) == {e \in AllEntries : e.at < n}

LEMMA FoundIs == Found = FoundBefore(Lo)
  BY DEF Found, FoundBefore, AllEntries

LEMMA ChunkEntries ==
  ASSUME Typed, extractor \in AllScanners, Lo < file.size, Uncrossed
  PROVE  ToSet(Entries(extractor, Lo, Hi)) = {e \in AllEntries : Lo <= e.at /\ e.at < Lo + ChunkSize}
  <1> DEFINE x == extractor
             P == PatternsOf(x)
             S == Picked(x, P, Lo, Hi)
             T == Picked(x, P, 0, file.size)
             new == EntriesAt(x, P, Lo, Hi)
             from == {e \in AllEntries : Lo <= e.at /\ e.at < Lo + ChunkSize}
  <1>1. IsFile(file) /\ Lo \in Nat
    BY ChunkAssumption, SMT DEF Typed, Lo
  <1>2. ToSet(Entries(x, Lo, Hi)) = new /\ AllEntries = EntriesAt(x, P, 0, file.size)
    BY <1>1, EntriesListed, AllEntriesAre DEF Lists
  <1>3. \A o \in file.occurrences :
          Lo <= o.at => /\ Fits(x, o, Hi) <=> Fits(x, o, file.size) /\ o.at < Lo + ChunkSize
                        /\ Fits(x, o, Hi) => EntryOf(x, o, Hi) = EntryOf(x, o, file.size)
    BY SameInChunk, Zenon DEF Uncrossed
  <1>4. \A o \in file.occurrences : o.at \in Nat
    BY <1>1, Zenon DEF IsFile
  <1>5. S = {o \in T : Lo <= o.at /\ o.at < Lo + ChunkSize}
    <2>1. \A o \in file.occurrences : 0 <= o.at
      BY <1>4, SMT
    <2>2. QED
      BY <1>3, <2>1, Zenon DEF Picked
  <1>6. \A o \in S : EntryOf(x, o, Hi) = EntryOf(x, o, file.size)
    BY <1>3, Zenon DEF Picked
  <1>7. \A o : EntryOf(x, o, file.size).at = o.at
    BY SMT DEF EntryOf, Entry
  <1> HIDE DEF S, T
  <1>8. \A e : e \in new <=> \E o \in S : e = EntryOf(x, o, file.size)
    BY <1>6, Zenon DEF EntriesAt, S
  <1>9. \A e : e \in from <=> \E o \in T : /\ e = EntryOf(x, o, file.size)
                                           /\ Lo <= e.at /\ e.at < Lo + ChunkSize
    BY <1>2, Zenon DEF EntriesAt, T
  <1> HIDE DEF new, from
  <1>10. new = from
    <2>1. ASSUME NEW o \in S
          PROVE  EntryOf(x, o, file.size) \in from
      BY <1>5, <1>7, <1>9, Zenon
    <2>2. ASSUME NEW e \in from
          PROVE  e \in new
      <3>1. PICK o \in T : e = EntryOf(x, o, file.size) /\ Lo <= e.at /\ e.at < Lo + ChunkSize
        BY <1>9, Zenon
      <3>2. o \in S
        BY <1>5, <1>7, <3>1
      <3>3. QED
        BY <1>8, <3>1, <3>2, Zenon
    <2>3. QED
      BY <1>8, <2>1, <2>2
  <1>11. QED
    BY <1>2, <1>10 DEF new, from

LEMMA FoundGrows ==
  ASSUME Typed, extractor \in AllScanners, Lo < file.size, Uncrossed
  PROVE  LET es == Entries(extractor, Lo, Hi)
         IN  /\ FoundBefore(Lo + ChunkSize) = Found \cup ToSet(es)
             /\ \A d \in Found, e \in ToSet(es) : Met(d, e)
             /\ IsList(es) /\ Sorted(es)
             /\ \A e \in AllEntries : Placed(e)
  <1> DEFINE es == Entries(extractor, Lo, Hi)
  <1>1. IsFile(file) /\ Lo \in Nat /\ chunk \in Nat /\ Lo = chunk * ChunkSize /\ ChunkSize \in Nat \ {0}
    BY ChunkAssumption, SMT DEF Typed, Lo
  <1>2. \A e \in AllEntries : Placed(e)
    BY FoundFacts
  <1>3. ToSet(es) = {e \in AllEntries : Lo <= e.at /\ e.at < Lo + ChunkSize}
    BY ChunkEntries
  <1>4. IsList(es) /\ InTurns(es)
    BY <1>1, EntriesListed DEF Lists
  <1> HIDE DEF es
  <1>5. \A e \in ToSet(es) : e \in AllEntries /\ ChunkOf(e) = chunk
    BY <1>1, <1>2, <1>3, PlaceInChunk DEF ChunkOf, Placed
  <1>6. \A d \in Found : d \in AllEntries /\ ChunkOf(d) < chunk
    <2> SUFFICES ASSUME NEW d \in Found PROVE d \in AllEntries /\ ChunkOf(d) < chunk
      OBVIOUS
    <2>1. d \in AllEntries /\ d.at < Lo /\ d.at \in Nat
      BY <1>2, FoundIs DEF FoundBefore, Placed
    <2> DEFINE c == ChunkOf(d)
    <2>2. c \in Nat /\ c * ChunkSize <= d.at
      BY <2>1, PlaceInChunk DEF ChunkOf
    <2> HIDE DEF c
    <2>3. CASE chunk <= c
      <3>1. (c - chunk) * ChunkSize >= 0 /\ (c - chunk) * ChunkSize = c * ChunkSize - chunk * ChunkSize
        BY <1>1, <2>2, <2>3, SMT
      <3>2. c * ChunkSize \in Nat
        BY <1>1, <2>2, SMT
      <3>3. QED
        BY <1>1, <2>1, <2>2, <3>1, <3>2, SMT
    <2>4. QED
      BY <1>1, <2>1, <2>2, <2>3, SMT DEF c
  <1>7. FoundBefore(Lo + ChunkSize) = Found \cup ToSet(es)
    <2>1. \A e \in AllEntries : e.at \in Nat
      BY <1>2 DEF Placed
    <2>2. \A e \in AllEntries : e.at < Lo + ChunkSize <=> e.at < Lo \/ (Lo <= e.at /\ e.at < Lo + ChunkSize)
      BY <1>1, <2>1, SMT
    <2>3. QED
      BY <1>3, <2>2, FoundIs, Zenon DEF FoundBefore
  <1>8. \A d \in Found, e \in ToSet(es) : Met(d, e)
    BY <1>5, <1>6, Zenon DEF Met
  <1>9. Sorted(es)
    <2> SUFFICES ASSUME NEW i \in DOMAIN es, NEW j \in DOMAIN es, i < j PROVE Met(es[i], es[j])
      BY DEF Sorted
    <2>1. es[i] \in ToSet(es) /\ es[j] \in ToSet(es)
      BY <1>4, SMT DEF ToSet
    <2>2. InTurn(es[i], es[j])
      BY <1>4, Zenon DEF InTurns
    <2>3. QED
      BY <1>5, <2>1, <2>2, Zenon DEF Met
  <1>10. QED
    BY <1>2, <1>4, <1>7, <1>8, <1>9 DEF es

(* Chunk after chunk.                                                      *)
Scanned ==
  (extractor \in Scanners /\ Uncrossed) =>
    /\ phase = "notes" => chunk = 0 /\ report = <<>>
    /\ \/ ElfReport /\ chunk = 0
       \/ Kept(report, Found)
       \/ CutOff(report, Found)

LEMMA SameEntries ==
  ASSUME UNCHANGED <<extractor, file>>
  PROVE  AllEntries' = AllEntries /\ Uncrossed' = Uncrossed
  <1>1. extractor' = extractor /\ file' = file
    OBVIOUS
  <1>2. Uncrossed' = Uncrossed
    BY <1>1 DEF Uncrossed, Crosses
  <1>3. /\ \A p, lo, hi : Occurring(p, lo, hi)' = Occurring(p, lo, hi)
        /\ \A lo, hi : Structures(lo, hi)' = Structures(lo, hi) /\ Windows(lo, hi)' = Windows(lo, hi)
        /\ \A hi : Texts(hi)' = Texts(hi)
    BY <1>1 DEF Occurring, Structures, Windows, Texts, Text
  <1>4. /\ \A p, lo, hi, key : Every(p, lo, hi, key)' = Every(p, lo, hi, key)
        /\ \A p, lo, hi, key : Parsed(p, lo, hi, key)' = Parsed(p, lo, hi, key)
        /\ \A S, kind : Whole(S, kind)' = Whole(S, kind)
    BY <1>1, <1>3 DEF Every, Parsed, Whole
  <1>5. Entries(extractor, 0, file.size)' = Entries(extractor, 0, file.size)
    BY <1>1, <1>3, <1>4 DEF Entries, ConnTable, AclRules, VpnSessions, LinaThreads, RoutingTable,
       RunningConfig, IosProcesses, CliHistory, SnmpConfig, NetworkSockets, KeyWindows
  <1>6. QED
    BY <1>2, <1>5 DEF AllEntries

LEMMA SameFound ==
  ASSUME UNCHANGED <<extractor, file>>
  PROVE  Found' = {e \in AllEntries : e.at < chunk' * ChunkSize}
  <1>1. Found' = {e \in AllEntries' : e.at < chunk' * ChunkSize}
    BY Zenon DEF Found, AllEntries, Lo
  <1>2. QED
    BY <1>1, SameEntries

LEMMA ScannedInit == AllInit => Scanned
  <1> SUFFICES ASSUME AllInit, extractor \in Scanners PROVE Scanned
    BY Zenon DEF Scanned
  <1>1. chunk = 0 /\ report = <<>>
    BY Zenon DEF AllInit, LinuxInit, Init
  <1>2. extractor \in AllScanners /\ Typed
    BY TypedInit, ChunkAssumption
  <1>3. Lo = 0
    BY <1>1, ChunkAssumption, SMT DEF Lo
  <1>4. Found = {}
    <2>1. \A e \in AllEntries : e.at \in Nat
      BY <1>2, FoundFacts, Zenon DEF Placed
    <2>2. \A e \in AllEntries : ~ (e.at < 0)
      BY <2>1, SMT
    <2>3. QED
      BY <1>3, <2>2, FoundIs, Zenon DEF FoundBefore
  <1>5. QED
    BY <1>1, <1>4, NothingKept DEF Scanned

LEMMA ScannedRead ==
  ASSUME Typed, Scanned, ReadChunk
  PROVE  Scanned'
  <1> SUFFICES ASSUME Uncrossed' PROVE Scanned'
    BY Zenon DEF Scanned
  <1> DEFINE es == Entries(extractor, Lo, Hi)
             l == AddAll(report, es)
             F == FoundBefore(Lo + ChunkSize)
  <1>1. /\ phase = "scan" /\ More /\ extractor \in Scanners
        /\ report' = Within(l) /\ chunk' = chunk + 1
        /\ UNCHANGED <<extractor, file, phase>>
    BY Zenon DEF ReadChunk
  <1>2. extractor \in AllScanners /\ IsFile(file) /\ chunk \in Nat /\ MaxHops \in Nat /\ Lo < file.size
    BY <1>1, ChunkAssumption, Zenon DEF Typed, More
  <1>3. Uncrossed
    BY <1>1, SameEntries
  <1>4. ~CutOff(report, Found)
    BY <1>1, <1>2, SMT DEF More, Hops, CutOff
  <1>5. Kept(report, Found)
    BY <1>1, <1>3, <1>4 DEF Scanned, ElfReport
  <1>6. /\ F = Found \cup ToSet(es) /\ IsList(es) /\ Sorted(es)
        /\ \A d \in Found, e \in ToSet(es) : Met(d, e)
        /\ \A e \in AllEntries : Placed(e)
    BY <1>2, <1>3, FoundGrows
  <1>7. Found' = F
    <2>1. chunk' * ChunkSize = Lo + ChunkSize
      BY <1>1, <1>2, ChunkAssumption, SMT DEF Lo
    <2>2. QED
      BY <1>1, <2>1, SameFound DEF FoundBefore
  <1>8. F \subseteq AllEntries
    BY Zenon DEF FoundBefore
  <1>9. extractor = "network" => \A e \in F : e.key[1] = "socket"
    <2> SUFFICES ASSUME extractor = "network", NEW e \in F PROVE e.key[1] = "socket"
      OBVIOUS
    <2>1. PICK o : e.key = KeyOf(extractor, o, TextOf(extractor, o, file.size))
      BY <1>2, <1>8, FoundFacts, Zenon
    <2>2. QED
      BY <2>1, SMT DEF KeyOf
  <1> HIDE DEF es, F
  <1>10. Kept(l, F)
    BY <1>5, <1>6, KeepsAll
  <1> HIDE DEF l
  <1>11. Kept(report', F) \/ CutOff(report', F)
    BY <1>1, <1>6, <1>8, <1>9, <1>10, CutKept
  <1>12. Kept(report', Found') \/ CutOff(report, Found)'
    BY <1>1, <1>7, <1>11 DEF CutOff
  <1>13. QED
    BY <1>1, <1>12 DEF Scanned, Kept

LEMMA ScannedStep == Typed /\ Scanned /\ [AllNext]_vars => Scanned'
  <1> SUFFICES ASSUME Typed, Scanned, [AllNext]_vars, extractor' \in Scanners PROVE Scanned'
    BY Zenon DEF Scanned
  <1>1. ASSUME UNCHANGED <<extractor, file, chunk, report>>,
               phase' # "notes" \/ phase' = phase, phase' = phase \/ phase # "done"
        PROVE  Scanned'
    <2>1. Found' = Found /\ Uncrossed' = Uncrossed
      BY <1>1, SameFound, SameEntries, FoundIs DEF FoundBefore, Lo
    <2>2. ElfReport => ElfReport'
      BY <1>1 DEF ElfReport
    <2>3. (Kept(report, Found) => Kept(report, Found)') /\ (CutOff(report, Found) => CutOff(report, Found)')
      BY <1>1, <2>1 DEF Kept, CutOff
    <2>4. QED
      BY <1>1, <2>1, <2>2, <2>3, Zenon DEF Scanned
  <1>2. CASE UNCHANGED vars
    BY <1>1, <1>2, Zenon DEF vars, scanVars
  <1>3. CASE LinuxNext
    <2>1. extractor' = extractor /\ extractor \notin LinuxExtractors
      <3>1. extractor' = extractor
        BY <1>3, Zenon DEF LinuxNext, FindInitTask, FindHeadModule, NoKernelBase, StartWalk, DropVisited,
             VisitTask, VisitModule, Visit, EndWalk, CarveTasks, CarveModules, Carve, EndCarving, scanVars
      <3>2. QED
        BY <3>1, LinuxAssumption
    <2>2. EndWalk
      BY <1>3, <2>1, SMT DEF LinuxNext, FindInitTask, FindHeadModule, NoKernelBase, DropVisited, Walking,
           VisitTask, VisitModule, CarveTasks, CarveModules, EndCarving, LinuxExtractors
    <2>3. QED
      BY <1>1, <2>2, Zenon DEF EndWalk
  <1>4. CASE NoElfNotes \/ Finish
    BY <1>1, <1>4, Zenon DEF NoElfNotes, Finish
  <1>5. CASE ReadChunk
    BY <1>5, ScannedRead
  <1>6. ASSUME NEW notes \in Notes, ElfNotes(notes)
        PROVE  Scanned'
    <2>1. PICK kept : /\ report' = [i \in DOMAIN kept |-> [key |-> <<"note", kept[i]>>]]
                      /\ phase = "notes" /\ phase' = "done" /\ file.size > 0
                      /\ UNCHANGED <<extractor, file, chunk>>
      BY <1>6, Zenon DEF ElfNotes
    <2>2. \A i \in DOMAIN report' : Head(report'[i].key) = "note"
      BY <2>1, SMT
    <2>3. Uncrossed' => chunk = 0 /\ extractor = "lina_process"
      BY <2>1, SameEntries, Zenon DEF Scanned, Typed
    <2>4. QED
      BY <2>1, <2>2, <2>3, Zenon DEF Scanned, ElfReport
  <1>7. QED
    BY <1>2, <1>3, <1>4, <1>5, <1>6 DEF AllNext, ScanNext

LEMMA AlwaysScanned == Spec => [](Typed /\ Scanned)
  BY TypedInit, TypedStep, ScannedInit, ScannedStep, PTL DEF Spec

(* But for three extractors, entries with the same key are for the same    *)
(* pattern; so are entries of a kind with a limit.                         *)
LEMMA KeysTellPatterns ==
  ASSUME Typed, extractor \in AllScanners \ Sharing,
         NEW d \in AllEntries, NEW e \in AllEntries, d.key = e.key
  PROVE  d.pattern = e.pattern
  <1> DEFINE x == extractor
  <1>1. PICK o : /\ d.pattern = o.pattern /\ o \in file.occurrences /\ o.pattern \in PatternsOf(x)
                 /\ d.key = KeyOf(x, o, TextOf(x, o, file.size))
    BY FoundFacts, Zenon
  <1>2. PICK q : /\ e.pattern = q.pattern /\ q \in file.occurrences /\ q.pattern \in PatternsOf(x)
                 /\ e.key = KeyOf(x, q, TextOf(x, q, file.size))
    BY FoundFacts, Zenon
  <1>3. CASE PatternsOf(x) = {"a"}
    BY <1>1, <1>2, <1>3
  <1>4. CASE x \in {"conn_table", "running_config"}
    <2>1. d.key[1] = o.pattern
      BY <1>1, <1>4, SMT DEF KeyOf
    <2>2. e.key[1] = q.pattern
      BY <1>2, <1>4, SMT DEF KeyOf
    <2>3. QED
      BY <1>1, <1>2, <2>1, <2>2
  <1>5. CASE x = "vpn_sessions"
    <2>1. o.pattern \in {"a", "b"} /\ d.key[1] = IF o.pattern = "a" THEN "psk" ELSE "session"
      BY <1>1, <1>5, SMT DEF KeyOf, PatternsOf
    <2>2. q.pattern \in {"a", "b"} /\ e.key[1] = IF q.pattern = "a" THEN "psk" ELSE "session"
      BY <1>2, <1>5, SMT DEF KeyOf, PatternsOf
    <2>3. d.key[1] = e.key[1]
      OBVIOUS
    <2> HIDE DEF x
    <2>4. QED
      BY <1>1, <1>2, <2>1, <2>2, <2>3, SMT
  <1>6. CASE x = "cli_history"
    <2>1. o.at = q.at
      <3>1. d.key[2] = o.at
        BY <1>1, <1>6, SMT DEF KeyOf
      <3>2. e.key[2] = q.at
        BY <1>2, <1>6, SMT DEF KeyOf
      <3>3. QED
        BY <3>1, <3>2
    <2>2. o = q
      BY <1>1, <1>2, <2>1, Zenon DEF Typed, IsFile
    <2>3. QED
      BY <1>1, <1>2, <2>2
  <1>7. QED
    BY <1>3, <1>4, <1>5, <1>6, SMT DEF AllScanners, Sharing, PatternsOf

LEMMA KindsTellPatterns ==
  ASSUME Typed, extractor \in AllScanners, NEW d \in AllEntries, NEW e \in AllEntries,
         d.key[1] = e.key[1], e.key[1] \in {"mempool", "thread"} \/ extractor = "network"
  PROVE  d.pattern = e.pattern
  <1> DEFINE x == extractor
  <1>1. PICK o : /\ d.pattern = o.pattern /\ o.pattern \in PatternsOf(x)
                 /\ d.key = KeyOf(x, o, TextOf(x, o, file.size))
    BY FoundFacts, Zenon
  <1>2. PICK q : /\ e.pattern = q.pattern /\ q.pattern \in PatternsOf(x)
                 /\ e.key = KeyOf(x, q, TextOf(x, q, file.size))
    BY FoundFacts, Zenon
  <1>3. CASE PatternsOf(x) = {"a"}
    BY <1>1, <1>2, <1>3
  <1>4. CASE x = "ios_processes"
    <2>1. /\ d.key[1] = IF o.pattern = "c" THEN "mempool" ELSE "pid"
          /\ e.key[1] = IF q.pattern = "c" THEN "mempool" ELSE "pid"
      BY <1>1, <1>2, <1>4, SMT DEF KeyOf
    <2>2. QED
      BY <1>1, <1>2, <1>4, <2>1, SMT
  <1>5. CASE x \in {"conn_table", "running_config"}
    <2>1. e.key[1] = q.pattern /\ q.pattern \in {"a", "b"}
      BY <1>2, <1>5, SMT DEF KeyOf, PatternsOf
    <2>2. QED
      BY <1>5, <2>1, SMT
  <1>6. CASE x = "vpn_sessions"
    <2>1. e.key[1] \in {"psk", "session"}
      BY <1>2, <1>6, SMT DEF KeyOf
    <2>2. QED
      BY <1>6, <2>1, SMT
  <1>7. CASE x \in {"routing_table", "cli_history", "snmp_config"}
    <2>1. e.key[1] \in {"STATIC", "command", "community"}
      BY <1>2, <1>7, SMT DEF KeyOf
    <2>2. QED
      BY <1>7, <2>1, SMT
  <1>8. QED
    BY <1>3, <1>4, <1>5, <1>6, <1>7, SMT DEF AllScanners, PatternsOf

(* What is met first of one key is the sooner one.                         *)
LEMMA MetIsSooner ==
  ASSUME Typed, extractor \in AllScanners, NEW d \in AllEntries, NEW e \in AllEntries,
         d.key = e.key, Met(d, e)
  PROVE  Sooner(d, e) /\ ~ Sooner(e, d)
  <1>1. Placed(d) /\ Placed(e)
    BY FoundFacts, Zenon
  <1>2. CASE extractor \in Sharing
    <2>1. (Sooner(d, e) <=> Met(d, e)) /\ (Sooner(e, d) <=> Met(e, d))
      BY <1>2, Zenon DEF Sooner, Met, InTurn, Turns
    <2>2. QED
      BY <1>1, <2>1, MetOnce
  <1>3. CASE extractor \notin Sharing
    <2>1. d.at < e.at
      BY <1>1, <1>3, KeysTellPatterns, MetEarlier
    <2>2. (Sooner(d, e) <=> d.at < e.at) /\ (Sooner(e, d) <=> e.at < d.at)
      BY <1>3 DEF Sooner
    <2>3. QED
      BY <1>1, <2>1, <2>2, SMT DEF Placed
  <1>4. QED
    BY <1>2, <1>3

LEMMA NotSooner ==
  ASSUME Typed, NEW e \in AllEntries, extractor \in AllScanners
  PROVE  ~ Sooner(e, e)
  <1>1. Placed(e) /\ ChunkOf(e) \in Nat
    BY FoundFacts, ChunkNumber, Zenon
  <1>2. QED
    BY <1>1, SMT DEF Sooner, Placed

(* Unless a text or structure crosses the end of a chunk, every extractor  *)
(* keeps of each key the entry that a search of the whole file would find  *)
(* first, with its place and its text, for any file, any length of its     *)
(* texts and any size of the chunks.                                       *)
THEOREM FirstOfEachIsKept == Spec => []KeepsFirstOfEach
  <1>1. Typed /\ Scanned => KeepsFirstOfEach
    <2> SUFFICES ASSUME Typed, Scanned, chunk > 0, extractor \in Scanners, Uncrossed
                 PROVE  /\ ToSet(report) \subseteq FirstOfEach
                        /\ \A e \in FirstOfEach \ ToSet(report) :
                             /\ Full(report, e.key[1]) \/ (extractor = "network" /\ Len(report) = MaxHops)
                             /\ \A d \in ToSet(report) : d.key[1] = e.key[1] => d.at < e.at
      BY Zenon DEF KeepsFirstOfEach, Uncrossed
    <2>1. extractor \in AllScanners /\ Found \subseteq AllEntries
      BY ChunkAssumption, FoundIs DEF FoundBefore
    <2>2. Kept(report, Found) \/ CutOff(report, Found)
      BY SMT DEF Scanned
    <2>3. /\ ToSet(report) \subseteq Found
          /\ \A c \in ToSet(report), d \in Found : c.key = d.key => c = d \/ Met(c, d)
      BY <2>2, Zenon DEF Kept, CutOff
    <2>4. \A e \in AllEntries : Placed(e)
      BY <2>1, FoundFacts, Zenon
    <2>5. ASSUME NEW c \in ToSet(report)
          PROVE  c \in FirstOfEach
      <3> SUFFICES ASSUME NEW d \in Found, c.key = d.key PROVE ~ Sooner(d, c)
        BY <2>3, Zenon DEF FirstOfEach
      <3>1. c \in AllEntries /\ d \in AllEntries
        BY <2>1, <2>3
      <3>2. c = d \/ Met(c, d)
        BY <2>3
      <3>3. QED
        BY <2>1, <3>1, <3>2, MetIsSooner, NotSooner
    <2>6. ASSUME NEW e \in FirstOfEach, e \notin ToSet(report)
          PROVE  /\ Full(report, e.key[1]) \/ (extractor = "network" /\ Len(report) = MaxHops)
                 /\ \A d \in ToSet(report) : d.key[1] = e.key[1] => d.at < e.at
      <3>1. e \in Found /\ \A d \in Found : d.key = e.key => ~ Sooner(d, e)
        BY Zenon DEF FirstOfEach
      <3>2. ~ \E c \in ToSet(report) : c.key = e.key
        <4> SUFFICES ASSUME NEW c \in ToSet(report), c.key = e.key PROVE FALSE
          OBVIOUS
        <4>1. Met(c, e) /\ ~ Sooner(c, e)
          BY <2>3, <2>6, <3>1
        <4>2. c \in AllEntries /\ e \in AllEntries
          BY <2>1, <2>3, <3>1
        <4>3. QED
          BY <2>1, <4>1, <4>2, MetIsSooner
      <3>3. \/ /\ Full(report, e.key[1])
               /\ \A d \in ToSet(report) : d.key[1] = e.key[1] => Met(d, e)
            \/ /\ extractor = "network" /\ Len(report) = MaxHops
               /\ \A d \in ToSet(report) : Met(d, e)
        BY <2>2, <3>1, <3>2, Zenon DEF Kept, CutOff
      <3>4. e.key[1] \in {"mempool", "thread"} \/ extractor = "network"
        BY <3>3, Zenon DEF Full
      <3>5. ASSUME NEW d \in ToSet(report), d.key[1] = e.key[1]
            PROVE  d.at < e.at
        <4>1. d \in AllEntries /\ e \in AllEntries /\ Met(d, e)
          BY <2>1, <2>3, <3>1, <3>3, <3>5
        <4>2. d.pattern = e.pattern
          BY <2>1, <3>4, <3>5, <4>1, KindsTellPatterns
        <4>3. QED
          BY <2>4, <4>1, <4>2, MetEarlier
      <3>6. QED
        BY <3>3, <3>5
    <2>7. QED
      BY <2>5, <2>6
  <1>2. QED
    BY <1>1, AlwaysScanned, PTL

-----------------------------------------------------------------------------
(* Parts of a list: s[a + 1], ..., s[b].                                   *)

Part(s, a, b) == [k \in 1 .. b - a |-> s[a + k]]

LEMMA PartFacts ==
  ASSUME NEW T, NEW s \in Seq(T), NEW a \in Nat, NEW b \in Nat, a <= b, b <= Len(s)
  PROVE  /\ Part(s, a, b) \in Seq(T) /\ Len(Part(s, a, b)) = b - a
         /\ \A k \in 1 .. b - a : Part(s, a, b)[k] = s[a + k]
  <1>1. b - a \in Nat /\ \A k \in 1 .. b - a : s[a + k] \in T
    BY SMT
  <1>2. QED
    BY <1>1, SMT DEF Part

LEMMA PartGrows ==
  ASSUME NEW T, NEW s \in Seq(T), NEW a \in Nat, NEW b \in Nat, a <= b, b < Len(s)
  PROVE  /\ Append(Part(s, a, b), s[b + 1]) = Part(s, a, b + 1)
         /\ <<s[b + 1]>> = Part(s, b, b + 1)
  <1> DEFINE p == Part(s, a, b)
             z == b + 1
             q == Part(s, a, z)
             one == Part(s, b, z)
  <1>1. /\ b + 1 \in Nat /\ b + 1 <= Len(s) /\ b + 1 - a = b - a + 1 /\ b + 1 - b = 1
        /\ s[b + 1] \in T /\ b <= Len(s) /\ a <= b + 1 /\ b <= b + 1 /\ b - a \in Nat
    BY SMT
  <1>2. p \in Seq(T) /\ Len(p) = b - a /\ \A k \in 1 .. b - a : p[k] = s[a + k]
    <2>1. b <= Len(s)
      BY <1>1, Zenon
    <2>2. QED
      BY <2>1, PartFacts, Zenon
  <1>3. q \in Seq(T) /\ Len(q) = b - a + 1 /\ \A k \in 1 .. b - a + 1 : q[k] = s[a + k]
    <2>1. z \in Nat /\ a <= z /\ z <= Len(s) /\ z - a = b - a + 1
      BY <1>1, SMT
    <2> HIDE DEF z
    <2>2. q \in Seq(T) /\ Len(q) = z - a /\ \A k \in 1 .. z - a : q[k] = s[a + k]
      BY <2>1, PartFacts, ZenonT(30)
    <2>3. QED
      BY <2>1, <2>2, Zenon
  <1>4. one \in Seq(T) /\ Len(one) = 1 /\ one[1] = s[b + 1]
    <2>1. z \in Nat /\ b <= z /\ z <= Len(s) /\ z - b = 1 /\ 1 \in 1 .. 1
      BY <1>1, SMT
    <2> HIDE DEF z
    <2>2. one \in Seq(T) /\ Len(one) = z - b /\ \A k \in 1 .. z - b : one[k] = s[b + k]
      BY <2>1, PartFacts, ZenonT(30)
    <2>3. QED
      BY <2>1, <2>2, Zenon
  <1> HIDE DEF p, q, one, z
  <1>5. Append(p, s[b + 1]) = q
    <2> DEFINE r == Append(p, s[b + 1])
    <2>1. /\ r \in Seq(T) /\ Len(r) = b - a + 1
          /\ \A k \in 1 .. b - a + 1 : r[k] = IF k <= b - a THEN p[k] ELSE s[b + 1]
      BY <1>1, <1>2, SMT
    <2> HIDE DEF r
    <2>2. \A k \in 1 .. b - a + 1 : r[k] = q[k]
      BY <1>1, <1>2, <1>3, <2>1, SMT
    <2>3. r = q
      BY <1>3, <2>1, <2>2, SeqEqual, Zenon
    <2>4. QED
      BY <2>3 DEF r
  <1>6. <<s[b + 1]>> = one
    <2>1. <<s[b + 1]>> \in Seq(T) /\ Len(<<s[b + 1]>>) = 1 /\ <<s[b + 1]>>[1] = s[b + 1]
      BY <1>1, SMT
    <2>2. \A k \in 1 .. 1 : <<s[b + 1]>>[k] = one[k]
      BY <1>4, <2>1, SMT
    <2>3. QED
      BY <1>4, <2>1, <2>2, SeqEqual, Zenon
  <1>7. QED
    BY <1>5, <1>6 DEF p, q, one, z

LEMMA PartsJoined ==
  ASSUME NEW T, NEW s \in Seq(T), NEW a \in Nat, NEW b \in Nat, a <= b, b <= Len(s)
  PROVE  Part(s, 0, a) \o Part(s, a, b) = Part(s, 0, b)
  <1> DEFINE p == Part(s, 0, a)
             q == Part(s, a, b)
             r == Part(s, 0, b)
             u == p \o q
  <1>1. /\ p \in Seq(T) /\ Len(p) = a /\ \A k \in 1 .. a : p[k] = s[k]
        /\ q \in Seq(T) /\ Len(q) = b - a /\ \A k \in 1 .. b - a : q[k] = s[a + k]
        /\ r \in Seq(T) /\ Len(r) = b /\ \A k \in 1 .. b : r[k] = s[k]
    <2>1. /\ 0 \in Nat /\ 0 <= a /\ 0 <= b /\ a <= Len(s) /\ a - 0 = a /\ b - 0 = b
          /\ \A k \in Nat : 0 + k = k
      BY SMT
    <2>2. p \in Seq(T) /\ Len(p) = a - 0 /\ \A k \in 1 .. a - 0 : p[k] = s[0 + k]
      BY <2>1, PartFacts, Zenon
    <2>3. q \in Seq(T) /\ Len(q) = b - a /\ \A k \in 1 .. b - a : q[k] = s[a + k]
      BY <2>1, PartFacts, Zenon
    <2>4. r \in Seq(T) /\ Len(r) = b - 0 /\ \A k \in 1 .. b - 0 : r[k] = s[0 + k]
      BY <2>1, PartFacts, Zenon
    <2> HIDE DEF p, q, r
    <2>5. p \in Seq(T) /\ Len(p) = a /\ \A k \in 1 .. a : p[k] = s[k]
      BY <2>2, SMT
    <2>6. r \in Seq(T) /\ Len(r) = b /\ \A k \in 1 .. b : r[k] = s[k]
      BY <2>4, SMT
    <2>7. QED
      BY <2>3, <2>5, <2>6, Zenon
  <1> HIDE DEF p, q, r
  <1>2. /\ u \in Seq(T) /\ Len(u) = Len(p) + Len(q)
        /\ \A k \in 1 .. Len(p) + Len(q) : u[k] = IF k <= Len(p) THEN p[k] ELSE q[k - Len(p)]
    <2>1. p \in Seq(T) /\ q \in Seq(T)
      BY <1>1, Zenon
    <2>2. QED
      BY <2>1, ConcatProperties, SMT
  <1> HIDE DEF u
  <1>3. Len(u) = b /\ \A k \in 1 .. b : u[k] = r[k]
    <2>1. Len(u) = b
      BY <1>1, <1>2, SMT
    <2>2. ASSUME NEW k \in 1 .. b
          PROVE  u[k] = r[k]
      <3>1. u[k] = IF k <= a THEN p[k] ELSE q[k - a]
        <4>1. Len(p) = a /\ Len(u) = Len(p) + Len(q)
          BY <1>1, <1>2, Zenon
        <4>2. k \in 1 .. Len(p) + Len(q)
          BY <2>1, <4>1, Zenon
        <4>3. QED
          BY <1>2, <4>1, <4>2, Zenon
      <3>2. CASE k <= a
        <4>1. k \in 1 .. a
          BY <3>2, SMT
        <4>2. p[k] = s[k] /\ r[k] = s[k]
          BY <1>1, <4>1, Zenon
        <4>3. QED
          BY <3>1, <3>2, <4>2, Zenon
      <3>3. CASE ~ (k <= a)
        <4>1. k - a \in 1 .. b - a /\ a + (k - a) = k
          BY <3>3, SMT
        <4>2. q[k - a] = s[k]
          BY <1>1, <4>1, Zenon
        <4>3. r[k] = s[k]
          BY <1>1, Zenon
        <4>4. QED
          BY <3>1, <3>3, <4>2, <4>3, Zenon
      <3>4. QED
        BY <3>2, <3>3
    <2>3. QED
      BY <2>1, <2>2
  <1>4. u = r
    BY <1>1, <1>2, <1>3, SeqEqual, Zenon
  <1>5. QED
    BY <1>4 DEF u, p, q, r

-----------------------------------------------------------------------------
(* The sessions of cli_history.  They are the parts of the list of         *)
(* commands between cuts: places 0 = c[0] < c[1] < ... < c[Len(ss)].       *)

CutAt(ss, s, n, c) ==
  /\ ss \in Seq(Seq(ToSet(s))) /\ c \in [0 .. Len(ss) -> 0 .. n]
  /\ c[0] = 0 /\ c[Len(ss)] = n
  /\ \A i \in 1 .. Len(ss) : c[i - 1] < c[i] /\ ss[i] = Part(s, c[i - 1], c[i])

(* Session number i: not too large, its commands close together, and apart *)
(* from the one before unless that is full.                                *)
IsSession(s, c, i) ==
  /\ c[i] - c[i - 1] <= ClusterSize
  /\ \A j \in c[i - 1] + 1 .. c[i] - 1 : s[j + 1].at - s[j].at <= Gap
  /\ i > 1 => \/ s[c[i - 1] + 1].at - s[c[i - 1]].at > Gap
              \/ c[i - 1] - c[i - 2] = ClusterSize

Sessions(ss, s, n, c) ==
  CutAt(ss, s, n, c) /\ \A i \in 1 .. Len(ss) : IsSession(s, c, i)

IsHistory(s) == IsList(s) /\ \A e \in ToSet(s) : e.at \in Nat

(* The last session, and its last command.                                 *)
LEMMA LastSession ==
  ASSUME NEW s, IsHistory(s), NEW n \in Nat, n <= Len(s), NEW ss, NEW c, CutAt(ss, s, n, c),
         NEW i \in 1 .. Len(ss)
  PROVE  /\ c[i - 1] \in Nat /\ c[i] \in Nat /\ c[i - 1] < c[i] /\ c[i] <= n
         /\ Len(ss[i]) = c[i] - c[i - 1]
         /\ Last(ss[i]) = s[c[i]]
         /\ \A k \in 1 .. Len(ss[i]) : ss[i][k] = s[c[i - 1] + k]
  <1>1. Len(ss) \in Nat /\ i - 1 \in 0 .. Len(ss) /\ i \in 0 .. Len(ss)
    BY SMT DEF CutAt
  <1>2. /\ c[i - 1] \in 0 .. n /\ c[i] \in 0 .. n /\ c[i - 1] < c[i]
        /\ ss[i] = Part(s, c[i - 1], c[i])
    BY <1>1, Zenon DEF CutAt
  <1>3. s \in Seq(ToSet(s)) /\ Len(s) \in Nat
    BY SMT DEF IsHistory, IsList
  <1> DEFINE a == c[i - 1]
             b == c[i]
  <1>4. a \in Nat /\ b \in Nat /\ a <= b /\ a < b /\ b <= n /\ b <= Len(s)
    BY <1>2, <1>3, SMT
  <1> HIDE DEF a, b
  <1>5. Len(Part(s, a, b)) = b - a /\ \A k \in 1 .. b - a : Part(s, a, b)[k] = s[a + k]
    BY <1>3, <1>4, PartFacts, ZenonT(30)
  <1>6. b - a \in 1 .. b - a /\ a + (b - a) = b
    BY <1>4, SMT
  <1>7. Last(Part(s, a, b)) = s[b]
    BY <1>5, <1>6 DEF Last
  <1>8. QED
    BY <1>2, <1>4, <1>5, <1>7 DEF a, b

(* One command more.                                                       *)
LEMMA SessionsGrow ==
  ASSUME NEW s, IsHistory(s), NEW n \in Nat, n < Len(s), NEW ss, NEW c, Sessions(ss, s, n, c)
  PROVE  \E d : Sessions(AddCommand(ss, s[n + 1]), s, n + 1, d)
  <1> DEFINE e == s[n + 1]
             m == Len(ss)
             T == ToSet(s)
  <1>1. /\ s \in Seq(T) /\ Len(s) \in Nat /\ n + 1 \in 1 .. Len(s) /\ n <= Len(s) /\ e \in T
        /\ n + 1 \in Nat /\ ClusterSize \in Nat \ {0} /\ Gap \in Nat
        /\ \A j \in 1 .. Len(s) : s[j].at \in Nat
    BY ChunkAssumption, TypedList, SMT DEF IsHistory, IsList
  <1>2. /\ CutAt(ss, s, n, c) /\ ss \in Seq(Seq(T)) /\ m \in Nat /\ c \in [0 .. m -> 0 .. n]
        /\ c[0] = 0 /\ c[m] = n
        /\ \A i \in 1 .. m : c[i - 1] < c[i] /\ ss[i] = Part(s, c[i - 1], c[i]) /\ IsSession(s, c, i)
    BY LenProperties, Zenon DEF Sessions, CutAt
  <1>3. ss # <<>> => m > 0
    BY <1>2, EmptySeq, SMT
  <1>4. m > 0 =>
          /\ c[m - 1] \in Nat /\ c[m - 1] < n /\ Len(ss[m]) = n - c[m - 1] /\ Last(ss[m]) = s[n]
          /\ n \in 1 .. Len(s)
    <2> SUFFICES ASSUME m > 0 PROVE /\ c[m - 1] \in Nat /\ c[m - 1] < n /\ Len(ss[m]) = n - c[m - 1]
                                    /\ Last(ss[m]) = s[n] /\ n \in 1 .. Len(s)
      OBVIOUS
    <2>1. \A i \in 1 .. Len(ss) : /\ c[i - 1] \in Nat /\ c[i - 1] < c[i]
                                  /\ Len(ss[i]) = c[i] - c[i - 1] /\ Last(ss[i]) = s[c[i]]
      <3>1. CutAt(ss, s, n, c) /\ n <= Len(s)
        BY <1>1, <1>2, Zenon
      <3>2. QED
        BY <3>1, LastSession
    <2> HIDE DEF m
    <2>2. m \in 1 .. m
      BY <1>2, SMT
    <2>3. c[m - 1] \in Nat /\ c[m - 1] < n /\ Len(ss[m]) = n - c[m - 1] /\ Last(ss[m]) = s[n]
      BY <1>2, <2>1, <2>2, Zenon DEF m
    <2>4. QED
      BY <1>1, <2>3, SMT
  <1>5. CASE ss = <<>> \/ Splits(Last(ss), Last(Last(ss)).at, e)
    <2> DEFINE tt == Append(ss, <<e>>)
               d == [i \in 0 .. m + 1 |-> IF i <= m THEN c[i] ELSE n + 1]
    <2>1. AddCommand(ss, e) = tt
      BY <1>5, Zenon DEF AddCommand
    <2>2. <<e>> = Part(s, n, n + 1) /\ <<e>> \in Seq(T)
      <3>1. n <= n
        BY SMT
      <3>2. <<e>> = Part(s, n, n + 1)
        BY <1>1, <3>1, PartGrows, Zenon
      <3>3. QED
        BY <1>1, <3>2, SMT
    <2>3. /\ tt \in Seq(Seq(T)) /\ Len(tt) = m + 1 /\ tt[m + 1] = <<e>>
          /\ \A i \in 1 .. m : tt[i] = ss[i]
      BY <1>2, <2>2, AppendProperties
    <2>4. /\ d \in [0 .. m + 1 -> 0 .. n + 1]
          /\ d[m + 1] = n + 1 /\ \A i \in 0 .. m : d[i] = c[i]
      BY <1>1, <1>2, SMT
    <2> DEFINE z == m + 1
    <2>5. /\ z - 1 = m /\ d \in [0 .. z -> 0 .. n + 1] /\ d[z] = n + 1 /\ d[0] = 0 /\ d[m] = n
          /\ tt \in Seq(Seq(T)) /\ Len(tt) = z /\ tt[z] = <<e>> /\ 1 .. z = 1 .. m \cup {z}
          /\ z > 1 => m > 0 /\ z - 2 = m - 1 /\ m - 1 \in 0 .. m /\ m \in 1 .. m
      <3> HIDE DEF d, tt, m, e, T
      <3>1. z - 1 = m /\ 1 .. z = 1 .. m \cup {z} /\ 0 \in 0 .. m /\ m \in 0 .. m
        BY <1>2, SMT
      <3>2. z > 1 => m > 0 /\ z - 2 = m - 1 /\ m - 1 \in 0 .. m /\ m \in 1 .. m
        BY <1>2, SMT
      <3>3. d[0] = 0 /\ d[m] = n
        BY <1>2, <2>4, <3>1, Zenon
      <3>4. QED
        BY <2>3, <2>4, <3>1, <3>2, <3>3, Zenon
    <2> HIDE DEF d, tt, m, e, T, z
    <2>6. ASSUME NEW i \in 1 .. m
          PROVE  d[i - 1] < d[i] /\ tt[i] = Part(s, d[i - 1], d[i]) /\ IsSession(s, d, i)
      <3>1. i - 1 \in 0 .. m /\ i \in 0 .. m /\ (i > 1 => i - 2 \in 0 .. m)
        BY <1>2, SMT
      <3>2. d[i - 1] = c[i - 1] /\ d[i] = c[i] /\ (i > 1 => d[i - 2] = c[i - 2])
        BY <2>4, <3>1, Zenon
      <3>3. QED
        BY <1>2, <2>3, <3>2, Zenon DEF IsSession
    <2>7. IsSession(s, d, z)
      <3>1. d[z] - d[z - 1] <= ClusterSize
        BY <1>1, <2>5, SMT
      <3>2. \A j \in d[z - 1] + 1 .. d[z] - 1 : s[j + 1].at - s[j].at <= Gap
        BY <1>1, <2>5, SMT
      <3>3. ASSUME z > 1
            PROVE  \/ s[d[z - 1] + 1].at - s[d[z - 1]].at > Gap
                   \/ d[z - 1] - d[z - 2] = ClusterSize
        <4>1. m > 0 /\ m \in 1 .. m
          BY <2>5, <3>3, Zenon
        <4>2. ss # <<>>
          BY <1>2, <4>1, EmptySeq, SMT DEF m
        <4>3. Last(ss) = ss[m]
          BY Zenon DEF Last, m
        <4>4. Splits(ss[m], s[n].at, e)
          BY <1>4, <1>5, <4>1, <4>2, <4>3, Zenon
        <4>5. e.at - s[n].at > Gap \/ n - c[m - 1] >= ClusterSize
          BY <1>4, <4>1, <4>4, Zenon DEF Splits
        <4>6. n - c[m - 1] <= ClusterSize
          BY <1>2, <4>1, Zenon DEF IsSession
        <4>7. d[z - 1] = n /\ d[z - 2] = c[m - 1]
          BY <2>4, <2>5, <3>3, Zenon
        <4>8. n - c[m - 1] >= ClusterSize => n - c[m - 1] = ClusterSize
          BY <1>1, <1>4, <4>1, <4>6, SMT
        <4>9. QED
          BY <4>5, <4>7, <4>8, Zenon DEF e
      <3>4. QED
        BY <3>1, <3>2, <3>3, Zenon DEF IsSession
    <2>8. d[z - 1] < d[z] /\ tt[z] = Part(s, d[z - 1], d[z])
      <3>1. n < n + 1
        BY SMT
      <3>2. QED
        BY <2>2, <2>5, <3>1, Zenon
    <2>9. ASSUME NEW i \in 1 .. z
          PROVE  d[i - 1] < d[i] /\ tt[i] = Part(s, d[i - 1], d[i]) /\ IsSession(s, d, i)
      <3>1. CASE i \in 1 .. m
        BY <2>6, <3>1, Zenon
      <3>2. CASE i = z
        BY <2>7, <2>8, <3>2, Zenon
      <3>3. QED
        BY <2>5, <3>1, <3>2, Zenon
    <2>10. Sessions(tt, s, n + 1, d)
      BY <2>5, <2>9, Zenon DEF Sessions, CutAt, T
    <2>11. QED
      BY <2>1, <2>10 DEF e
  <1>6. CASE ~ (ss = <<>> \/ Splits(Last(ss), Last(Last(ss)).at, e))
    <2> DEFINE longer == Append(ss[m], e)
               tt == [ss EXCEPT ![m] = longer]
               d == [c EXCEPT ![m] = n + 1]
    <2>1. AddCommand(ss, e) = tt
      BY <1>6, Zenon DEF AddCommand
    <2>2. m > 0 /\ m \in 1 .. m /\ m \in 0 .. m /\ m - 1 \in 0 .. m /\ m # m - 1
      BY <1>2, <1>3, <1>6, SMT
    <2>3. Last(ss) = ss[m]
      BY Zenon DEF Last
    <2>4. ~Splits(ss[m], s[n].at, e)
      BY <1>4, <1>6, <2>2, <2>3, Zenon
    <2>5. ~ (e.at - s[n].at > Gap) /\ ~ (n - c[m - 1] >= ClusterSize)
      BY <1>4, <2>2, <2>4, Zenon DEF Splits
    <2>6. longer = Part(s, c[m - 1], n + 1)
      <3>1. ss[m] = Part(s, c[m - 1], n)
        BY <1>2, <2>2, Zenon
      <3>2. c[m - 1] \in Nat /\ c[m - 1] <= n
        BY <1>4, <2>2, SMT
      <3>3. Append(Part(s, c[m - 1], n), s[n + 1]) = Part(s, c[m - 1], n + 1)
        BY <1>1, <3>2, PartGrows, Zenon
      <3>4. QED
        BY <3>1, <3>3, Zenon
    <2>7. longer \in Seq(T)
      BY <1>1, <1>2, <2>2, ElementOfSeq, AppendProperties
    <2>8. /\ tt \in Seq(Seq(T)) /\ Len(tt) = m /\ tt[m] = longer
          /\ \A i \in 1 .. m : i # m => tt[i] = ss[i]
      BY <1>2, <2>2, <2>7, ExceptSeq
    <2>9. /\ d \in [0 .. m -> 0 .. n + 1] /\ d[m] = n + 1
          /\ \A i \in 0 .. m : i # m => d[i] = c[i]
      BY <1>1, <1>2, <2>2, SMT
    <2> HIDE DEF d, tt, longer, m, e, T
    <2>10. d[0] = 0 /\ d[m - 1] = c[m - 1]
      BY <1>2, <2>2, <2>9, SMT
    <2>11. ASSUME NEW i \in 1 .. m, i # m
           PROVE  d[i - 1] < d[i] /\ tt[i] = Part(s, d[i - 1], d[i]) /\ IsSession(s, d, i)
      <3>1. /\ i - 1 \in 0 .. m /\ i \in 0 .. m /\ (i > 1 => i - 2 \in 0 .. m)
            /\ i - 1 # m /\ i - 2 # m
        BY <1>2, <2>11, SMT
      <3>2. d[i - 1] = c[i - 1] /\ d[i] = c[i] /\ (i > 1 => d[i - 2] = c[i - 2])
        BY <2>9, <2>11, <3>1, Zenon
      <3>3. QED
        BY <1>2, <2>8, <2>11, <3>2, Zenon DEF IsSession
    <2>12. d[m - 1] < d[m] /\ tt[m] = Part(s, d[m - 1], d[m])
      <3>1. c[m - 1] < n + 1
        BY <1>1, <1>4, <2>2, SMT
      <3>2. QED
        BY <2>6, <2>8, <2>9, <2>10, <3>1, Zenon
    <2>13. IsSession(s, d, m)
      <3>1. IsSession(s, c, m)
        BY <1>2, <2>2, Zenon
      <3>2. d[m] - d[m - 1] <= ClusterSize
        BY <1>1, <1>4, <2>2, <2>5, <2>9, <2>10, SMT
      <3>3. ASSUME NEW j \in d[m - 1] + 1 .. d[m] - 1
            PROVE  s[j + 1].at - s[j].at <= Gap
        <4>1. d[m] - 1 = n /\ j \in Nat /\ d[m - 1] + 1 <= j /\ j <= n
          BY <1>1, <1>4, <2>2, <2>9, <2>10, SMT
        <4>2. CASE j = n
          <5>1. s[n].at \in Nat /\ e.at \in Nat
            BY <1>1, <1>4, <2>2 DEF e
          <5>2. e.at - s[n].at <= Gap
            BY <1>1, <2>5, <5>1, SMT
          <5>3. QED
            BY <4>2, <5>2 DEF e
        <4>3. CASE j # n
          <5>1. j \in c[m - 1] + 1 .. c[m] - 1
            BY <1>1, <1>2, <1>4, <2>2, <2>10, <4>1, <4>3, SMT
          <5>2. QED
            BY <3>1, <5>1, Zenon DEF IsSession
        <4>4. QED
          BY <4>2, <4>3
      <3>4. m > 1 => d[m - 2] = c[m - 2]
        BY <1>2, <2>9, SMT
      <3>5. QED
        BY <2>10, <3>1, <3>2, <3>3, <3>4, Zenon DEF IsSession
    <2>14. Sessions(tt, s, n + 1, d)
      BY <2>8, <2>9, <2>10, <2>11, <2>12, <2>13, Zenon DEF Sessions, CutAt, T
    <2>15. QED
      BY <2>1, <2>14 DEF e
  <1>7. QED
    BY <1>5, <1>6

-----------------------------------------------------------------------------
(* What Clusters computes, its recursion unfolded as that of AddAll.       *)

Session(s, g, n) == IF n = 0 THEN <<>> ELSE AddCommand(g[n - 1], s[n])
SessionsUpTo(s, g, k) == g = [n \in 0 .. k |-> Session(s, g, n)]

LEMMA UnfoldingExists ==
  ASSUME NEW s, Len(s) \in Nat
  PROVE  \E g : SessionsUpTo(s, g, Len(s))
  <1> DEFINE G == {k \in 0 .. Len(s) : \E g : SessionsUpTo(s, g, k)}
  <1>1. 0 \in G
    <2>1. SessionsUpTo(s, [n \in 0 .. 0 |-> <<>>], 0)
      BY SMT DEF SessionsUpTo, Session
    <2>2. QED
      BY <2>1
  <1>2. ASSUME NEW k \in 1 .. Len(s), k - 1 \in G
        PROVE  k \in G
    <2>1. PICK g : SessionsUpTo(s, g, k - 1)
      BY <1>2
    <2>2. \A n \in 0 .. k - 1 : g[n] = Session(s, g, n)
      BY <2>1, Zenon DEF SessionsUpTo
    <2> DEFINE h == [n \in 0 .. k |-> IF n < k THEN g[n] ELSE Session(s, g, k)]
    <2>3. ASSUME NEW n \in 0 .. k
          PROVE  h[n] = Session(s, h, n)
      <3>1. CASE n = k
        BY <3>1, SMT DEF Session
      <3>2. CASE n < k
        <4>1. n \in 0 .. k - 1
          BY <3>2
        <4>2. h[n] = g[n] /\ (n # 0 => h[n - 1] = g[n - 1])
          BY <3>2, SMT
        <4>3. QED
          BY <2>2, <4>1, <4>2, Zenon DEF Session
      <3>3. QED
        BY <3>1, <3>2
    <2>4. SessionsUpTo(s, h, k)
      BY <2>3, Zenon DEF SessionsUpTo
    <2>5. QED
      BY <2>4
  <1>3. 0 .. Len(s) \subseteq G
    <2> HIDE DEF G
    <2>1. QED
      BY <1>1, <1>2, IntervalInduction
  <1>4. Len(s) \in G
    BY <1>3, SMTT(30)
  <1>5. QED
    BY <1>4

LEMMA ClustersUnfold ==
  ASSUME NEW s, s = InOrder(ToSet(report)), Len(s) \in Nat
  PROVE  \E g : SessionsUpTo(s, g, Len(s)) /\ Clusters = g[Len(s)]
  <1> DEFINE f == CHOOSE f : SessionsUpTo(s, f, Len(s))
  <1>1. SessionsUpTo(s, f, Len(s))
    BY UnfoldingExists
  <1>2. Clusters = f[Len(s)]
    BY Zenon DEF Clusters, SessionsUpTo, Session
  <1>3. QED
    BY <1>1, <1>2

(* Clusters are the sessions of all the commands.                          *)
LEMMA ClustersCut ==
  ASSUME NEW s, s = InOrder(ToSet(report)), IsHistory(s)
  PROVE  \E c : Sessions(Clusters, s, Len(s), c)
  <1>1. Len(s) \in Nat
    BY SMT DEF IsHistory, IsList
  <1>2. PICK g : SessionsUpTo(s, g, Len(s)) /\ Clusters = g[Len(s)]
    BY <1>1, ClustersUnfold
  <1>3. \A n \in 0 .. Len(s) : g[n] = Session(s, g, n)
    BY <1>2, Zenon DEF SessionsUpTo
  <1> DEFINE G == {n \in 0 .. Len(s) : \E c : Sessions(g[n], s, n, c)}
  <1>4. 0 \in G
    <2> DEFINE c == [i \in 0 .. 0 |-> 0]
    <2>1. g[0] = <<>>
      BY <1>1, <1>3, SMT DEF Session
    <2>2. <<>> \in Seq(Seq(ToSet(s))) /\ Len(<<>>) = 0 /\ \A i \in 1 .. 0 : FALSE
      BY SMT
    <2>3. c \in [0 .. 0 -> 0 .. 0] /\ c[0] = 0
      BY SMT
    <2> HIDE DEF c
    <2>4. Sessions(<<>>, s, 0, c)
      BY <2>2, <2>3, Zenon DEF Sessions, CutAt
    <2>5. QED
      BY <1>1, <2>1, <2>4, SMT
  <1>5. ASSUME NEW n \in 1 .. Len(s), n - 1 \in G
        PROVE  n \in G
    <2>1. n \in 0 .. Len(s) /\ n # 0 /\ n - 1 \in Nat /\ n - 1 < Len(s) /\ n - 1 + 1 = n
      BY <1>1, SMT
    <2>2. g[n] = AddCommand(g[n - 1], s[n])
      BY <1>3, <2>1, Zenon DEF Session
    <2>3. PICK c : Sessions(g[n - 1], s, n - 1, c)
      BY <1>5
    <2>4. \E d : Sessions(AddCommand(g[n - 1], s[n - 1 + 1]), s, n - 1 + 1, d)
      BY <2>1, <2>3, SessionsGrow, Zenon
    <2>5. QED
      BY <2>1, <2>2, <2>4
  <1>6. 0 .. Len(s) \subseteq G
    <2> HIDE DEF G
    <2>1. QED
      BY <1>1, <1>4, <1>5, IntervalInduction
  <1>7. Len(s) \in G
    BY <1>1, <1>6, SMTT(30)
  <1>8. QED
    BY <1>2, <1>7

-----------------------------------------------------------------------------
(* Joined again, the sessions are the list they were cut from.             *)

Joined(ss, f, i) == IF i = 1 THEN ss[i] ELSE f[i - 1] \o ss[i]
JoinedUpTo(ss, f) == f = [i \in 1 .. Len(ss) |-> Joined(ss, f, i)]

LEMMA SessionsJoined ==
  ASSUME NEW s, IsHistory(s), NEW ss, NEW c, CutAt(ss, s, Len(s), c)
  PROVE  FlattenSeq(ss) = s
  <1> DEFINE m == Len(ss)
             p == [i \in 0 .. m |-> Part(s, 0, c[i])]
             f == CHOOSE f : JoinedUpTo(ss, f)
  <1>1. /\ s \in Seq(ToSet(s)) /\ Len(s) \in Nat /\ m \in Nat /\ ss \in Seq(Seq(ToSet(s)))
        /\ c \in [0 .. m -> 0 .. Len(s)] /\ c[0] = 0 /\ c[m] = Len(s)
        /\ \A i \in 1 .. m : c[i - 1] < c[i] /\ ss[i] = Part(s, c[i - 1], c[i])
    BY LenProperties, SMT DEF CutAt, IsHistory, IsList
  <1>2. Part(s, 0, Len(s)) = s
    <2>1. 0 \in Nat /\ 0 <= Len(s) /\ Len(s) <= Len(s) /\ Len(s) - 0 = Len(s)
      BY <1>1, SMT
    <2> DEFINE q == Part(s, 0, Len(s))
    <2>2. q \in Seq(ToSet(s)) /\ Len(q) = Len(s) - 0 /\ \A k \in 1 .. Len(s) - 0 : q[k] = s[0 + k]
      BY <1>1, <2>1, PartFacts, ZenonT(30)
    <2> HIDE DEF q
    <2>3. Len(q) = Len(s) /\ \A k \in 1 .. Len(s) : q[k] = s[k]
      BY <1>1, <2>2, SMT
    <2>4. q = s
      BY <1>1, <2>2, <2>3, SeqEqual, Zenon
    <2>5. QED
      BY <2>4 DEF q
  <1>3. CASE m = 0
    <2>1. ss = <<>>
      BY <1>1, <1>3, EmptySeq, Zenon
    <2>2. Len(s) = 0
      BY <1>1, <1>3, Zenon
    <2>3. s = <<>>
      BY <1>1, <2>2, EmptySeq, Zenon
    <2>4. QED
      BY <1>3, <2>1, <2>3, Zenon DEF FlattenSeq
  <1>4. CASE m # 0
    <2>1. ASSUME NEW i \in 1 .. m
          PROVE  /\ i = 1 => ss[i] = p[i]
                 /\ i # 1 => i - 1 \in 1 .. m /\ p[i - 1] \o ss[i] = p[i]
      <3>1. i \in 0 .. m /\ i - 1 \in 0 .. m /\ (i = 1 => i - 1 = 0) /\ (i # 1 => i - 1 \in 1 .. m)
        BY <1>1, SMT
      <3>2. c[i] \in 0 .. Len(s) /\ c[i - 1] \in 0 .. Len(s) /\ c[i - 1] < c[i]
        BY <1>1, <3>1, Zenon
      <3>3. c[i] \in Nat /\ c[i - 1] \in Nat /\ c[i - 1] <= c[i] /\ c[i] <= Len(s)
        BY <1>1, <3>2, SMT
      <3>4. p[i] = Part(s, 0, c[i]) /\ p[i - 1] = Part(s, 0, c[i - 1])
        BY <3>1, Zenon
      <3>5. Part(s, 0, c[i - 1]) \o Part(s, c[i - 1], c[i]) = Part(s, 0, c[i])
        BY <1>1, <3>3, PartsJoined, Zenon
      <3> HIDE DEF p
      <3>6. QED
        BY <1>1, <3>1, <3>4, <3>5, Zenon
    <2> HIDE DEF p
    <2>2. JoinedUpTo(ss, [i \in 1 .. m |-> p[i]])
      <3> DEFINE q == [i \in 1 .. m |-> p[i]]
      <3>1. \A i \in 1 .. m : q[i] = Joined(ss, q, i)
        BY <2>1, Zenon DEF Joined
      <3>2. QED
        BY <3>1, Zenon DEF JoinedUpTo
    <2>3. JoinedUpTo(ss, f)
      BY <2>2, Zenon
    <2>4. FlattenSeq(ss) = f[m]
      BY <1>4, Zenon DEF FlattenSeq, JoinedUpTo, Joined
    <2> HIDE DEF f
    <2>5. \A i \in 1 .. m : f[i] = Joined(ss, f, i)
      BY <2>3, Zenon DEF JoinedUpTo
    <2> DEFINE G == {i \in 0 .. m : i = 0 \/ f[i] = p[i]}
    <2>6. 0 \in G
      BY <1>1, SMT
    <2>7. ASSUME NEW i \in 1 .. m, i - 1 \in G
          PROVE  i \in G
      <3>1. i = 1 => f[i] = p[i]
        BY <2>1, <2>5, Zenon DEF Joined
      <3>2. i # 1 => f[i] = p[i]
        <4>1. i # 1 => f[i - 1] = p[i - 1]
          BY <1>1, <2>7, SMT
        <4>2. QED
          BY <2>1, <2>5, <4>1, Zenon DEF Joined
      <3>3. QED
        BY <1>1, <3>1, <3>2, SMT
    <2>8. 0 .. m \subseteq G
      <3> HIDE DEF G, m
      <3>1. QED
        BY <1>1, <2>6, <2>7, IntervalInduction
    <2>9. m \in 0 .. m
      BY <1>1, SMT
    <2>10. f[m] = p[m]
      BY <1>4, <2>8, <2>9, Zenon
    <2>11. p[m] = s
      BY <1>1, <1>2, <2>9, Zenon DEF p
    <2>12. QED
      BY <2>4, <2>10, <2>11, Zenon
  <1>5. QED
    BY <1>3, <1>4

-----------------------------------------------------------------------------
(* The commands of cli_history.                                            *)

IsCommand(e) == e.at \in Nat /\ e.key = <<"command", e.at>>

Commands == extractor = "cli_history" => \A e \in ToSet(report) : IsCommand(e)

LEMMA CommandsParsed ==
  ASSUME IsFile(file), NEW lo, NEW hi, NEW e \in EntriesAt("cli_history", PatternsOf("cli_history"), lo, hi)
  PROVE  IsCommand(e)
  <1>1. PICK o \in Picked("cli_history", PatternsOf("cli_history"), lo, hi) : e = EntryOf("cli_history", o, hi)
    BY Zenon DEF EntriesAt
  <1>2. o.at \in Nat
    BY Zenon DEF Picked, IsFile
  <1>3. e.at = o.at /\ e.key = <<"command", o.at>>
    BY <1>1, SMT DEF EntryOf, Entry, KeyOf
  <1>4. QED
    BY <1>2, <1>3, Zenon DEF IsCommand

LEMMA CommandsRead ==
  ASSUME Typed, Commands, ReadChunk, extractor = "cli_history"
  PROVE  \A e \in ToSet(report') : IsCommand(e)
  <1> DEFINE es == Entries(extractor, Lo, Hi)
             l == AddAll(report, es)
  <1>1. extractor \in AllScanners /\ IsFile(file) /\ report' = l /\ OneEach(report)
    BY SMT DEF ReadChunk, Typed, ElfReport, Within, AllScanners
  <1>2. Len(es) \in Nat /\ IsList(es)
    BY <1>1, EntriesAreList
  <1>3. \A e \in ToSet(es) : IsCommand(e)
    BY <1>1, EntriesListed, CommandsParsed DEF Lists
  <1> HIDE DEF es
  <1>4. ToSet(l) \subseteq ToSet(report) \cup {es[i] : i \in 1 .. Len(es)}
    BY <1>1, <1>2, AddAllGrows DEF Grown
  <1>5. {es[i] : i \in 1 .. Len(es)} = ToSet(es)
    BY <1>2, ListElements, Zenon DEF IsList
  <1>6. QED
    BY <1>1, <1>3, <1>4, <1>5 DEF Commands

LEMMA CommandsStep == Typed /\ Commands /\ [AllNext]_vars => Commands'
  <1> SUFFICES ASSUME Typed, Commands, [AllNext]_vars, extractor' = "cli_history"
               PROVE  \A e \in ToSet(report') : IsCommand(e)
    BY DEF Commands, IsCommand, ToSet
  <1>1. ASSUME UNCHANGED <<extractor, report>>
        PROVE  \A e \in ToSet(report') : IsCommand(e)
    BY <1>1 DEF Commands
  <1>2. CASE UNCHANGED vars
    BY <1>1, <1>2, Zenon DEF vars, scanVars
  <1>3. CASE LinuxNext
    <2>1. extractor' = extractor /\ extractor \notin LinuxExtractors
      <3>1. extractor' = extractor
        BY <1>3, Zenon DEF LinuxNext, FindInitTask, FindHeadModule, NoKernelBase, StartWalk, DropVisited,
             VisitTask, VisitModule, Visit, EndWalk, CarveTasks, CarveModules, Carve, EndCarving, scanVars
      <3>2. QED
        BY <3>1, SMT DEF LinuxExtractors
    <2>2. EndWalk
      BY <1>3, <2>1, SMT DEF LinuxNext, FindInitTask, FindHeadModule, NoKernelBase, DropVisited, Walking,
           VisitTask, VisitModule, CarveTasks, CarveModules, EndCarving, LinuxExtractors
    <2>3. QED
      BY <1>1, <2>2, Zenon DEF EndWalk
  <1>4. CASE NoElfNotes \/ Finish
    BY <1>1, <1>4, Zenon DEF NoElfNotes, Finish
  <1>5. CASE ReadChunk
    <2>1. extractor = "cli_history"
      BY <1>5, Zenon DEF ReadChunk
    <2>2. QED
      BY <1>5, <2>1, CommandsRead
  <1>6. ASSUME NEW notes \in Notes, ElfNotes(notes)
        PROVE  FALSE
    BY <1>6, SMT DEF ElfNotes, Typed
  <1>7. QED
    BY <1>2, <1>3, <1>4, <1>5, <1>6 DEF AllNext, ScanNext

LEMMA AlwaysCommands == Spec => [](Typed /\ Commands)
  <1>1. AllInit => Commands
    <2>1. AllInit => report = <<>>
      BY Zenon DEF AllInit, LinuxInit, Init
    <2>2. QED
      BY <2>1, EmptyList, Zenon DEF Commands
  <1>2. QED
    BY <1>1, TypedInit, TypedStep, CommandsStep, PTL DEF Spec

(* The sessions of cli_history hold every command of the report once, in   *)
(* the order of the file, however the chunks and patterns delivered them;  *)
(* none is too large, its commands are close together, and where one ends  *)
(* before it is full the next is far away.                                 *)
THEOREM SessionsAreClusters == Spec => []ClustersAreSessions
  <1>1. Typed /\ Commands => ClustersAreSessions
    <2> SUFFICES ASSUME Typed, Commands, extractor = "cli_history"
                 PROVE  ClustersAreSessions
      BY Zenon DEF ClustersAreSessions
    <2> DEFINE S == ToSet(report)
               s == InOrder(S)
               C == Clusters
               all == FlattenSeq(C)
    <2>1. OneEach(report) /\ \A e \in S : IsCommand(e)
      BY SMT DEF Typed, Commands, ElfReport
    <2>2. Len(report) \in Nat /\ DOMAIN report = 1 .. Len(report) /\ S = {report[i] : i \in 1 .. Len(report)}
      BY <2>1, ListElements, Zenon DEF OneEach, IsList
    <2>3. IsList(report) /\ Distinct(report) /\ Apart(S)
      <3>1. Apart(S)
        <4>1. \A o, q \in S : o.at = q.at => o.key = q.key
          BY <2>1, Zenon DEF IsCommand
        <4>2. \A o, q \in S : o.key = q.key => o = q
          BY <2>1, <2>2, Zenon DEF OneEach
        <4>3. QED
          BY <2>1, <4>1, <4>2, Zenon DEF Apart, IsCommand
      <3>2. QED
        BY <2>1, <3>1, Zenon DEF OneEach, Distinct
    <2>4. IsFiniteSet(S) /\ Len(report) = Cardinality(S)
      <3>1. IsFiniteSet(1 .. Len(report))
        BY <2>2, FS_Interval, SMT
      <3>2. report \in [1 .. Len(report) -> S]
        BY <2>3, SMT DEF IsList
      <3>3. report \in Surjection(1 .. Len(report), S)
        BY <2>2, <3>2, Zenon DEF Surjection
      <3>4. IsFiniteSet(S)
        BY <3>1, <3>3, FS_Surjection, Zenon
      <3>5. QED
        BY <2>3, <3>4, DistinctLength, Zenon
    <2> HIDE DEF S
    <2>5. /\ s \in Seq(S) /\ ToSet(s) = S /\ Len(s) = Len(report)
          /\ \A i, j \in 1 .. Len(s) : i < j => s[i].at < s[j].at
      BY <2>3, <2>4, ListedInOrder, Zenon
    <2>6. IsHistory(s)
      BY <2>1, <2>5, Zenon DEF IsHistory, IsList, IsCommand
    <2>7. PICK c : Sessions(C, s, Len(s), c)
      BY <2>6, ClustersCut DEF S
    <2>8. all = s
      BY <2>6, <2>7, SessionsJoined, Zenon DEF Sessions
    <2> HIDE DEF s, C, all
    <2>9. ASSUME NEW i \in 1 .. Len(all) - 1
          PROVE  all[i].at < all[i + 1].at
      <3>1. i \in 1 .. Len(s) /\ i + 1 \in 1 .. Len(s) /\ i < i + 1
        BY <2>2, <2>5, <2>8, SMT
      <3>2. QED
        BY <2>5, <2>8, <3>1, Zenon
    <2>10. ASSUME NEW i \in DOMAIN C
           PROVE  /\ Len(C[i]) \in 1 .. ClusterSize
                  /\ \A k \in 1 .. Len(C[i]) - 1 : C[i][k + 1].at - C[i][k].at <= Gap
                  /\ i > 1 => \/ C[i][1].at - Last(C[i - 1]).at > Gap
                              \/ Len(C[i - 1]) = ClusterSize
      <3>1. /\ Len(C) \in Nat /\ i \in 1 .. Len(C) /\ Len(s) \in Nat /\ Len(s) <= Len(s)
            /\ CutAt(C, s, Len(s), c) /\ IsSession(s, c, i)
        <4>1. CutAt(C, s, Len(s), c) /\ C \in Seq(Seq(ToSet(s)))
          BY <2>7, Zenon DEF Sessions, CutAt
        <4>2. Len(C) \in Nat /\ i \in 1 .. Len(C) /\ Len(s) \in Nat /\ Len(s) <= Len(s)
          BY <2>2, <2>5, <4>1, SMT
        <4>3. QED
          BY <2>7, <4>1, <4>2, Zenon DEF Sessions
      <3>2. ASSUME NEW j \in 1 .. Len(C)
            PROVE  /\ c[j - 1] \in Nat /\ c[j] \in Nat /\ c[j - 1] < c[j]
                   /\ Len(C[j]) = c[j] - c[j - 1] /\ Last(C[j]) = s[c[j]]
                   /\ \A k \in 1 .. Len(C[j]) : C[j][k] = s[c[j - 1] + k]
        <4>1. CutAt(C, s, Len(s), c) /\ Len(s) \in Nat /\ Len(s) <= Len(s)
          BY <3>1, Zenon
        <4>2. /\ c[j - 1] \in Nat /\ c[j] \in Nat /\ c[j - 1] < c[j] /\ c[j] <= Len(s)
              /\ Len(C[j]) = c[j] - c[j - 1]
              /\ Last(C[j]) = s[c[j]]
              /\ \A k \in 1 .. Len(C[j]) : C[j][k] = s[c[j - 1] + k]
          BY <2>6, <4>1, LastSession, SMTT(30)
        <4>3. QED
          BY <4>2, Zenon
      <3>3. Len(C[i]) \in 1 .. ClusterSize
        <4> DEFINE a == c[i - 1]
                   b == c[i]
        <4>1. a \in Nat /\ b \in Nat /\ a < b /\ Len(C[i]) = b - a
          BY <3>1, <3>2, Zenon
        <4>2. b - a <= ClusterSize
          BY <3>1, Zenon DEF IsSession
        <4> HIDE DEF a, b
        <4>3. QED
          BY <4>1, <4>2, ChunkAssumption, SMT
      <3>4. ASSUME NEW k \in 1 .. Len(C[i]) - 1
            PROVE  C[i][k + 1].at - C[i][k].at <= Gap
        <4> DEFINE a == c[i - 1]
                   b == c[i]
                   j == a + k
        <4>1. a \in Nat /\ b \in Nat /\ Len(C[i]) = b - a
          BY <3>1, <3>2, Zenon
        <4>2. /\ k \in 1 .. Len(C[i]) /\ k + 1 \in 1 .. Len(C[i]) /\ a + (k + 1) = j + 1
              /\ j \in a + 1 .. b - 1
          <5> HIDE DEF a, b
          <5>1. QED
            BY <4>1, SMT
        <4>3. C[i][k] = s[a + k] /\ C[i][k + 1] = s[a + (k + 1)]
          BY <3>1, <3>2, <4>2, Zenon
        <4>4. s[j + 1].at - s[j].at <= Gap
          BY <3>1, <4>2, Zenon DEF IsSession
        <4>5. QED
          BY <4>2, <4>3, <4>4, Zenon
      <3>5. ASSUME i > 1
            PROVE  \/ C[i][1].at - Last(C[i - 1]).at > Gap
                   \/ Len(C[i - 1]) = ClusterSize
        <4>1. i - 1 \in 1 .. Len(C) /\ i - 1 - 1 = i - 2 /\ 1 \in 1 .. Len(C[i])
          BY <3>1, <3>3, <3>5, SMT
        <4>2. C[i][1] = s[c[i - 1] + 1]
          BY <3>1, <3>2, <4>1, Zenon
        <4>3. Last(C[i - 1]) = s[c[i - 1]] /\ Len(C[i - 1]) = c[i - 1] - c[i - 2]
          BY <3>2, <4>1, Zenon
        <4>4. QED
          BY <3>1, <3>5, <4>2, <4>3, Zenon DEF IsSession
      <3>6. QED
        BY <3>3, <3>4, <3>5
    <2>11. ToSet(all) = ToSet(report) /\ Len(all) = Len(report)
      BY <2>5, <2>8, Zenon DEF S
    <2>12. QED
      BY <2>9, <2>10, <2>11, Zenon DEF ClustersAreSessions, all, C
  <1>2. QED
    BY <1>1, AlwaysCommands, PTL
=============================================================================
