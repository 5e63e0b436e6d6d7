------------------------- MODULE TranslationProofs -------------------------
(***************************************************************************)
(* What is found out about a dump, and what reads of virtual memory give,  *)
(* for dumps and pages of any size, any tables and any limits.             *)
(***************************************************************************)
EXTENDS Translation, ListLemmas

-----------------------------------------------------------------------------
(* Division.                                                               *)

LEMMA Division ==
  ASSUME NEW p \in Nat \ {0}, NEW v \in Nat
  PROVE  /\ v \div p \in Nat /\ v % p \in 0 .. p - 1
         /\ v = (p * (v \div p)) + (v % p)
  BY SMT

LEMMA Quotient ==
  ASSUME NEW p \in Nat \ {0}, NEW q \in Nat, NEW r \in 0 .. p - 1
  PROVE  ((p * q) + r) \div p = q /\ ((p * q) + r) % p = r
  BY SMT

(* Within a page nothing changes but the offset in it.                     *)
LEMMA SamePage ==
  ASSUME NEW p \in Nat \ {0}, NEW m \in Nat \ {0}, NEW v \in Nat, NEW k \in Nat,
         (v % p) + k < p
  PROVE  /\ (v + k) \div (p * m) = v \div (p * m)
         /\ (v + k) % (p * m) = (v % (p * m)) + k
  <1> DEFINE w == p * m
             q == v \div w
             r == v % w
             s == r \div p
             t == r % p
  <1>1. w \in Nat \ {0}
    BY SMT
  <1>2. q \in Nat /\ r \in 0 .. w - 1 /\ v = (w * q) + r
    <2> HIDE DEF w
    <2>1. QED
      BY <1>1, Division
  <1>3. r \in Nat
    BY <1>1, <1>2, SMT
  <1> HIDE DEF q, r
  <1>4. s \in Nat /\ t \in 0 .. p - 1 /\ r = (p * s) + t
    BY <1>3, Division
  <1> HIDE DEF s, t
  <1>5. v = (p * ((m * q) + s)) + t
    <2>1. w * q = p * (m * q)
      BY <1>2, SMT
    <2>2. p * ((m * q) + s) = (p * (m * q)) + (p * s)
      BY <1>2, <1>4, SMT
    <2> DEFINE pmq == p * (m * q)
               ps == p * s
    <2>3. pmq \in Nat /\ ps \in Nat
      BY <1>2, <1>4, SMT
    <2>4. v = pmq + r /\ r = ps + t
      BY <1>2, <1>4, <2>1, Zenon
    <2>5. p * ((m * q) + s) = pmq + ps
      BY <2>2
    <2> HIDE DEF pmq, ps, w
    <2>6. QED
      BY <1>4, <2>3, <2>4, <2>5, SMT
  <1>6. v % p = t
    <2> DEFINE z == (m * q) + s
    <2>1. z \in Nat
      BY <1>2, <1>4, SMT
    <2>2. v = (p * z) + t
      BY <1>5
    <2> HIDE DEF z
    <2>3. QED
      BY <1>4, <2>1, <2>2, Quotient
  <1>7. s < m
    <2>1. CASE m <= s
      <3>1. p * m <= p * s
        BY <1>4, <2>1, SMT
      <3>2. QED
        BY <1>1, <1>2, <1>4, <3>1, SMT
    <2>2. QED
      BY <1>4, <2>1, SMT
  <1>8. (p * s) + p <= w
    <2>1. p * (s + 1) <= p * m
      BY <1>4, <1>7, SMT
    <2>2. p * (s + 1) = (p * s) + p
      BY <1>4, SMT
    <2>3. QED
      BY <2>1, <2>2
  <1>9. r + k \in 0 .. w - 1
    <2> DEFINE ps == p * s
    <2>1. ps \in Nat
      BY <1>4, SMT
    <2>2. t + k < p /\ r = ps + t /\ ps + p <= w
      BY <1>4, <1>6, <1>8
    <2> HIDE DEF ps, w
    <2>3. QED
      BY <1>1, <1>3, <1>4, <2>1, <2>2, SMT
  <1>10. v + k = (w * q) + (r + k)
    <2> DEFINE wq == w * q
    <2>1. wq \in Nat
      BY <1>1, <1>2, SMT
    <2>2. v = wq + r
      BY <1>2
    <2> HIDE DEF wq
    <2>3. v + k = wq + (r + k)
      BY <1>3, <2>1, <2>2, SMT
    <2>4. QED
      BY <2>3 DEF wq
  <1> HIDE DEF w
  <1>11. (v + k) \div w = q /\ (v + k) % w = r + k
    BY <1>1, <1>2, <1>9, <1>10, Quotient
  <1>12. QED
    BY <1>11 DEF q, r, w

-----------------------------------------------------------------------------
(* The walk.                                                               *)

(* What the provers need of Reach.                                         *)
LEMMA Reaches ==
  /\ PageSize \in Nat \ {0}
  /\ Reach[1] = PageSize * 1 /\ Reach[2] = PageSize * PageSize
  /\ Reach[1] = PageSize
  /\ \A l \in 1 .. 4 : \E m \in Nat \ {0} : Reach[l] = PageSize * m
  <1> DEFINE large == PageSize * PageSize
  <1>1. PageSize \in Nat \ {0}
    BY DetectionAssumption
  <1>2. large \in Nat \ {0}
    BY <1>1, SMT
  <1>3. /\ Reach[1] = PageSize /\ Reach[2] = large /\ Reach[3] = PageSize * large
        /\ Reach[4] = large * large
    BY DEF Reach
  <1>4. PageSize = PageSize * 1
    BY <1>1, SMT
  <1>5. large * large = PageSize * (PageSize * large)
    BY <1>1, SMT
  <1>6. PageSize * large \in Nat \ {0}
    <2> HIDE DEF large
    <2>1. QED
      BY <1>1, <1>2, SMT
  <1>7. ASSUME NEW l \in 1 .. 4
        PROVE  \E m \in Nat \ {0} : Reach[l] = PageSize * m
    <2>1. 1 \in Nat \ {0}
      OBVIOUS
    <2>2. l = 1 \/ l = 2 \/ l = 3 \/ l = 4
      BY SMT
    <2>3. CASE l = 1
      BY <1>3, <1>4, <2>1, <2>3, Zenon
    <2>4. CASE l = 2
      BY <1>1, <1>3, <2>4, Zenon
    <2>5. CASE l = 3
      BY <1>2, <1>3, <2>5, Zenon
    <2>6. CASE l = 4
      BY <1>3, <1>5, <1>6, <2>6, Zenon
    <2>7. QED
      BY <2>2, <2>3, <2>4, <2>5, <2>6
  <1>8. QED
    BY <1>1, <1>3, <1>4, <1>7, Zenon

(* What an address is made of is what it was, for the rest of the page.    *)
LEMMA SameTables ==
  ASSUME NEW va \in Nat, NEW k \in Nat, (va % PageSize) + k < PageSize
  PROVE  /\ \A l \in 1 .. 4 : \A table : At(l, table, va + k) = At(l, table, va)
         /\ (va + k) % PageSize = (va % PageSize) + k
         /\ (va + k) % Reach[2] = (va % Reach[2]) + k
  <1>1. ASSUME NEW l \in 1 .. 4
        PROVE  /\ (va + k) \div Reach[l] = va \div Reach[l]
               /\ (va + k) % Reach[l] = (va % Reach[l]) + k
    <2>1. PICK m \in Nat \ {0} : Reach[l] = PageSize * m
      BY Reaches
    <2>2. PageSize \in Nat \ {0}
      BY Reaches
    <2>3. /\ (va + k) \div (PageSize * m) = va \div (PageSize * m)
          /\ (va + k) % (PageSize * m) = (va % (PageSize * m)) + k
      BY <2>2, SamePage, ZenonT(40)
    <2>4. QED
      BY <2>1, <2>3, Zenon
  <1>2. 1 \in 1 .. 4 /\ 2 \in 1 .. 4
    BY SMT
  <1>3. QED
    BY <1>1, <1>2, Reaches, Zenon DEF At

LEMMA PlaceIsNumber ==
  ASSUME NEW table \in Nat, NEW l \in 1 .. 4, NEW va \in Nat
  PROVE  (table * PageSize) + ((va \div Reach[l]) % PageSize) \in Nat
  <1>1. PageSize \in Nat \ {0}
    BY Reaches
  <1>2. Reach[l] \in Nat \ {0}
    <2>1. PICK m \in Nat \ {0} : Reach[l] = PageSize * m
      BY Reaches
    <2>2. QED
      BY <1>1, <2>1, SMT
  <1>3. va \div Reach[l] \in Nat
    BY <1>2, Division
  <1>4. (va \div Reach[l]) % PageSize \in Nat
    <2> DEFINE d == va \div Reach[l]
    <2>1. d \in Nat
      BY <1>3
    <2> HIDE DEF d
    <2>2. d % PageSize \in Nat
      BY <1>1, <2>1, SMT
    <2>3. QED
      BY <2>2 DEF d
  <1>5. table * PageSize \in Nat
    BY <1>1, SMT
  <1>6. QED
    BY <1>4, <1>5, SMT

(* The relation between tables and the entry that the walk reads.          *)
Frames == {dump.cells[a].frame : a \in DOMAIN dump.cells}

IsEntry(table, l, va) ==
  /\ \A f : Leads(table, l, va, f) <=> At(l, table, va).present /\ At(l, table, va).frame = f
  /\ IsBig(table, l, va) <=> At(l, table, va).big
  /\ At(l, table, va).frame \in Nat
  /\ At(l, table, va).present => At(l, table, va).frame \in Frames

LEMMA LeadsIsEntry ==
  ASSUME IsDump(dump), NEW table \in Nat, NEW l \in 1 .. 4, NEW va \in Nat
  PROVE  IsEntry(table, l, va)
  <1> DEFINE place == (table * PageSize) + ((va \div Reach[l]) % PageSize)
  <1>1. place \in Nat
    BY PlaceIsNumber
  <1>2. DOMAIN dump.cells = 0 .. dump.size - 1 /\ dump.size \in Nat
    BY Zenon DEF IsDump
  <1>3. At(l, table, va) = Entry(place)
    BY DEF At
  <1>4. \A f : Leads(table, l, va, f) <=>
          place \in DOMAIN dump.cells /\ dump.cells[place].present /\ dump.cells[place].frame = f
    BY Zenon DEF Leads
  <1>5. IsBig(table, l, va) <=> place \in DOMAIN dump.cells /\ dump.cells[place].big
    BY Zenon DEF IsBig
  <1> HIDE DEF place
  <1>6. CASE place < dump.size
    <2>1. place \in DOMAIN dump.cells /\ Entry(place) = dump.cells[place]
      BY <1>1, <1>2, <1>6, SMT DEF Entry
    <2>2. dump.cells[place].frame \in Nat
      BY <2>1, Zenon DEF IsDump
    <2>3. QED
      BY <1>3, <1>4, <1>5, <2>1, <2>2, Zenon DEF IsEntry, Frames
  <1>7. CASE ~ (place < dump.size)
    <2>1. place \notin DOMAIN dump.cells /\ Entry(place) = Zero
      BY <1>1, <1>2, <1>7, SMT DEF Entry
    <2>2. ~Zero.present /\ ~Zero.big /\ Zero.frame \in Nat
      BY SMT DEF Zero
    <2>3. QED
      BY <1>3, <1>4, <1>5, <2>1, <2>2, Zenon DEF IsEntry
  <1>8. QED
    BY <1>6, <1>7

(* What the entries for an address say, the end of the dump left aside.    *)
Pml4e(cr3, va) == At(4, cr3 \div PageSize, va)
Pdpte(cr3, va) == At(3, Pml4e(cr3, va).frame, va)
Pde(cr3, va) == At(2, Pdpte(cr3, va).frame, va)
Pte(cr3, va) == At(1, Pde(cr3, va).frame, va)

HasTarget(cr3, va) ==
  /\ Pml4e(cr3, va).present /\ Pdpte(cr3, va).present /\ Pde(cr3, va).present
  /\ Pde(cr3, va).big \/ Pte(cr3, va).present

Target(cr3, va) ==
  IF Pde(cr3, va).big
  THEN ((Pde(cr3, va).frame \div PageSize) * Reach[2]) + (va % Reach[2])
  ELSE (Pte(cr3, va).frame * PageSize) + (va % PageSize)

(* The dump holds what is at the address.                                  *)
Held(cr3, va) == HasTarget(cr3, va) /\ Target(cr3, va) < dump.size

LEMMA FramesAreNumbers ==
  ASSUME IsDump(dump), NEW cr3 \in Nat, NEW va \in Nat
  PROVE  /\ cr3 \div PageSize \in Nat /\ Pml4e(cr3, va).frame \in Nat
         /\ Pdpte(cr3, va).frame \in Nat /\ Pde(cr3, va).frame \in Nat
         /\ Pte(cr3, va).frame \in Nat
  <1>1. cr3 \div PageSize \in Nat
    BY Reaches, Division
  <1>2. 1 \in 1 .. 4 /\ 2 \in 1 .. 4 /\ 3 \in 1 .. 4 /\ 4 \in 1 .. 4
    BY SMT
  <1>3. \A l \in 1 .. 4 : \A table \in Nat : At(l, table, va).frame \in Nat
    BY LeadsIsEntry, Zenon DEF IsEntry
  <1>4. QED
    BY <1>1, <1>2, <1>3, Zenon DEF Pml4e, Pdpte, Pde, Pte

LEMMA TargetIsNumber ==
  ASSUME IsDump(dump), NEW cr3 \in Nat, NEW va \in Nat
  PROVE  Target(cr3, va) \in Nat
  <1> DEFINE f == Pde(cr3, va).frame
             g == Pte(cr3, va).frame
  <1>1. PageSize \in Nat \ {0} /\ f \in Nat /\ g \in Nat /\ Reach[2] = PageSize * PageSize
    BY Reaches, FramesAreNumbers
  <1> HIDE DEF f, g
  <1>2. Reach[2] \in Nat \ {0}
    BY <1>1, SMT
  <1>3. va % PageSize \in Nat /\ va % Reach[2] \in Nat /\ f \div PageSize \in Nat
    BY <1>1, <1>2, SMT
  <1>4. (f \div PageSize) * Reach[2] \in Nat /\ g * PageSize \in Nat
    BY <1>1, <1>2, <1>3, SMT
  <1>5. /\ ((f \div PageSize) * Reach[2]) + (va % Reach[2]) \in Nat
        /\ (g * PageSize) + (va % PageSize) \in Nat
    BY <1>3, <1>4, SMT
  <1>6. QED
    BY <1>5, Zenon DEF Target, f, g

LEMMA WalkFinds ==
  ASSUME IsDump(dump), NEW cr3 \in Nat, NEW va \in Nat
  PROVE  Walk(cr3, va) = IF Held(cr3, va) THEN Target(cr3, va) ELSE dump.size
  <1>1. Walk(cr3, va) = IF HasTarget(cr3, va) THEN InDump(Target(cr3, va)) ELSE dump.size
    BY Zenon DEF Walk, HasTarget, Target, Pml4e, Pdpte, Pde, Pte, Unmapped
  <1>2. Target(cr3, va) \in Nat /\ dump.size \in Nat
    BY TargetIsNumber DEF IsDump
  <1>3. QED
    BY <1>1, <1>2, SMT DEF InDump, Held, Unmapped

(* The walk finds what the relation between the tables says.               *)
LEMMA PhysicalIsTarget ==
  ASSUME IsDump(dump), NEW cr3 \in Nat, NEW va \in Nat
  PROVE  \A x : x \in Physical(cr3, va) <=> Held(cr3, va) /\ x = Target(cr3, va)
  <1> DEFINE directories == {pd \in Frames : \E pdpt \in Frames :
                               Leads(cr3 \div PageSize, 4, va, pdpt) /\ Leads(pdpt, 3, va, pd)}
             small == {f \in Frames : \E pd \in directories, pt \in Frames :
                         Leads(pd, 2, va, pt) /\ ~IsBig(pd, 2, va) /\ Leads(pt, 1, va, f)}
             large == {f \in Frames : \E pd \in directories : Leads(pd, 2, va, f) /\ IsBig(pd, 2, va)}
             pml4e == Pml4e(cr3, va)
             pdpte == Pdpte(cr3, va)
             pde == Pde(cr3, va)
             pte == Pte(cr3, va)
  <1>1. /\ cr3 \div PageSize \in Nat /\ pml4e.frame \in Nat /\ pdpte.frame \in Nat
        /\ pde.frame \in Nat /\ pte.frame \in Nat
    BY FramesAreNumbers
  <1>2. 1 \in 1 .. 4 /\ 2 \in 1 .. 4 /\ 3 \in 1 .. 4 /\ 4 \in 1 .. 4
    BY SMT
  <1>0. \A l \in 1 .. 4 : \A t \in Nat : IsEntry(t, l, va)
    BY LeadsIsEntry, Zenon
  <1>3. /\ \A f : Leads(cr3 \div PageSize, 4, va, f) <=> pml4e.present /\ pml4e.frame = f
        /\ pml4e.present => pml4e.frame \in Frames
    BY <1>0, <1>1, <1>2, Zenon DEF Pml4e, IsEntry
  <1>4. /\ \A f : Leads(pml4e.frame, 3, va, f) <=> pdpte.present /\ pdpte.frame = f
        /\ pdpte.present => pdpte.frame \in Frames
    BY <1>0, <1>1, <1>2, ZenonT(40) DEF Pdpte, IsEntry
  <1>5. /\ \A f : Leads(pdpte.frame, 2, va, f) <=> pde.present /\ pde.frame = f
        /\ IsBig(pdpte.frame, 2, va) <=> pde.big
        /\ pde.present => pde.frame \in Frames
    BY <1>0, <1>1, <1>2, ZenonT(40) DEF Pde, IsEntry
  <1>6. /\ \A f : Leads(pde.frame, 1, va, f) <=> pte.present /\ pte.frame = f
        /\ pte.present => pte.frame \in Frames
    BY <1>0, <1>1, <1>2, ZenonT(40) DEF Pte, IsEntry
  <1> HIDE DEF pml4e, pdpte, pde, pte
  <1>7. \A d : d \in directories <=> pml4e.present /\ pdpte.present /\ d = pdpte.frame
    BY <1>3, <1>4, Zenon
  <1> HIDE DEF directories
  <1>8. \A f : f \in small <=> /\ pml4e.present /\ pdpte.present /\ pde.present /\ ~pde.big
                               /\ pte.present /\ f = pte.frame
    <2>1. \A f : f \in small <=>
            f \in Frames /\ \E pd \in directories, pt \in Frames :
              Leads(pd, 2, va, pt) /\ ~IsBig(pd, 2, va) /\ Leads(pt, 1, va, f)
      BY SMT
    <2> HIDE DEF small
    <2>2. ASSUME NEW f \in small
          PROVE  /\ pml4e.present /\ pdpte.present /\ pde.present /\ ~pde.big
                 /\ pte.present /\ f = pte.frame
      <3>1. PICK pd \in directories, pt \in Frames :
              Leads(pd, 2, va, pt) /\ ~IsBig(pd, 2, va) /\ Leads(pt, 1, va, f)
        BY <2>1
      <3>2. pml4e.present /\ pdpte.present /\ pd = pdpte.frame
        BY <1>7
      <3>3. pde.present /\ ~pde.big /\ pt = pde.frame
        BY <1>5, <3>1, <3>2, Zenon
      <3>4. pte.present /\ f = pte.frame
        BY <1>6, <3>1, <3>3, Zenon
      <3>5. QED
        BY <3>2, <3>3, <3>4
    <2>3. ASSUME /\ pml4e.present /\ pdpte.present /\ pde.present /\ ~pde.big
                 /\ pte.present
          PROVE  pte.frame \in small
      <3>1. pdpte.frame \in directories /\ pde.frame \in Frames /\ pte.frame \in Frames
        BY <1>5, <1>6, <1>7, <2>3, Zenon
      <3>2. /\ Leads(pdpte.frame, 2, va, pde.frame) /\ ~IsBig(pdpte.frame, 2, va)
            /\ Leads(pde.frame, 1, va, pte.frame)
        BY <1>5, <1>6, <2>3, Zenon
      <3>3. QED
        BY <2>1, <3>1, <3>2
    <2>4. QED
      BY <2>2, <2>3, Zenon
  <1>9. \A f : f \in large <=> /\ pml4e.present /\ pdpte.present /\ pde.present /\ pde.big
                               /\ f = pde.frame
    <2>1. \A f : f \in large <=>
            f \in Frames /\ \E pd \in directories : Leads(pd, 2, va, f) /\ IsBig(pd, 2, va)
      BY SMT
    <2> HIDE DEF large
    <2>2. ASSUME NEW f \in large
          PROVE  pml4e.present /\ pdpte.present /\ pde.present /\ pde.big /\ f = pde.frame
      <3>1. PICK pd \in directories : Leads(pd, 2, va, f) /\ IsBig(pd, 2, va)
        BY <2>1
      <3>2. pml4e.present /\ pdpte.present /\ pd = pdpte.frame
        BY <1>7
      <3>3. QED
        BY <1>5, <3>1, <3>2, Zenon
    <2>3. ASSUME pml4e.present, pdpte.present, pde.present, pde.big
          PROVE  pde.frame \in large
      <3>1. pdpte.frame \in directories /\ pde.frame \in Frames
        BY <1>5, <1>7, <2>3, Zenon
      <3>2. Leads(pdpte.frame, 2, va, pde.frame) /\ IsBig(pdpte.frame, 2, va)
        BY <1>5, <2>3, Zenon
      <3>3. QED
        BY <2>1, <3>1, <3>2
    <2>4. QED
      BY <2>2, <2>3, Zenon
  <1> DEFINE near == (pte.frame * PageSize) + (va % PageSize)
             far == ((pde.frame - (pde.frame % PageSize)) * PageSize) + (va % (PageSize * PageSize))
             address == Target(cr3, va)
  <1>10. Physical(cr3, va) =
           DOMAIN dump.cells \cap
             ({(f * PageSize) + (va % PageSize) : f \in small}
                \cup {((f - (f % PageSize)) * PageSize) + (va % (PageSize * PageSize)) : f \in large})
    BY Zenon DEF Physical, Frames, directories
  <1> HIDE DEF small, large
  <1>11. /\ pde.big => address = far
         /\ ~pde.big => address = near
    <2>1. (pde.frame \div PageSize) * Reach[2] = (pde.frame - (pde.frame % PageSize)) * PageSize
      <3> DEFINE f == pde.frame
                 d == f \div PageSize
                 o == f % PageSize
      <3>1. f \in Nat /\ PageSize \in Nat \ {0} /\ Reach[2] = PageSize * PageSize
        BY <1>1, Reaches
      <3> HIDE DEF f
      <3>2. d \in Nat /\ o \in 0 .. PageSize - 1 /\ f = (PageSize * d) + o
        BY <3>1, Division, Zenon
      <3> HIDE DEF d, o
      <3>3. f - o = PageSize * d
        <4> DEFINE z == PageSize * d
        <4>1. z \in Nat
          BY <3>1, <3>2, SMT
        <4>2. f = z + o
          BY <3>2
        <4> HIDE DEF z
        <4>3. f - o = z
          BY <3>2, <4>1, <4>2, SMT
        <4>4. QED
          BY <4>3 DEF z
      <3>4. d * (PageSize * PageSize) = (PageSize * d) * PageSize
        BY <3>1, <3>2, SMT
      <3>5. QED
        BY <3>1, <3>3, <3>4 DEF f, d, o
    <2>2. QED
      BY <2>1, Reaches, Zenon DEF Target, pde, pte
  <1>12. address \in Nat /\ DOMAIN dump.cells = 0 .. dump.size - 1 /\ dump.size \in Nat
    BY TargetIsNumber DEF IsDump
  <1> HIDE DEF near, far, address
  <1>13. ASSUME NEW x
         PROVE  x \in Physical(cr3, va) <=> HasTarget(cr3, va) /\ x = address /\ x \in DOMAIN dump.cells
    <2>1. x \in Physical(cr3, va) <=>
            /\ x \in DOMAIN dump.cells
            /\ \/ \E f \in small : x = (f * PageSize) + (va % PageSize)
               \/ \E f \in large : x = ((f - (f % PageSize)) * PageSize) + (va % (PageSize * PageSize))
      BY <1>10, Zenon
    <2>2. QED
      BY <1>8, <1>9, <1>11, <2>1, Zenon DEF HasTarget, near, far, pml4e, pdpte, pde, pte
  <1>14. QED
    BY <1>12, <1>13, SMT DEF Held, address

-----------------------------------------------------------------------------
(* Reading.                                                                *)

(* What a read is to give for an address.                                  *)
CellAt(cr3, va) == IF Held(cr3, va) THEN dump.cells[Target(cr3, va)] ELSE Zero

(* Within a page the target moves with the address.                        *)
LEMMA SameTarget ==
  ASSUME NEW cr3 \in Nat, NEW va \in Nat, NEW k \in Nat, (va % PageSize) + k < PageSize,
         IsDump(dump)
  PROVE  /\ HasTarget(cr3, va + k) <=> HasTarget(cr3, va)
         /\ Target(cr3, va + k) = Target(cr3, va) + k
  <1>1. 1 \in 1 .. 4 /\ 2 \in 1 .. 4 /\ 3 \in 1 .. 4 /\ 4 \in 1 .. 4
    BY SMT
  <1>2. /\ Pml4e(cr3, va + k) = Pml4e(cr3, va) /\ Pdpte(cr3, va + k) = Pdpte(cr3, va)
        /\ Pde(cr3, va + k) = Pde(cr3, va) /\ Pte(cr3, va + k) = Pte(cr3, va)
    <2>1. \A l \in 1 .. 4 : \A table : At(l, table, va + k) = At(l, table, va)
      BY SameTables, Zenon
    <2>2. Pml4e(cr3, va + k) = Pml4e(cr3, va)
      BY <1>1, <2>1, Zenon DEF Pml4e
    <2>3. Pdpte(cr3, va + k) = Pdpte(cr3, va)
      BY <1>1, <2>1, <2>2, Zenon DEF Pdpte
    <2>4. Pde(cr3, va + k) = Pde(cr3, va)
      BY <1>1, <2>1, <2>3, Zenon DEF Pde
    <2>5. Pte(cr3, va + k) = Pte(cr3, va)
      BY <1>1, <2>1, <2>4, Zenon DEF Pte
    <2>6. QED
      BY <2>2, <2>3, <2>4, <2>5, Zenon
  <1> DEFINE far == (Pde(cr3, va).frame \div PageSize) * Reach[2]
             near == Pte(cr3, va).frame * PageSize
             r == va % Reach[2]
             s == va % PageSize
  <1>3. far \in Nat /\ near \in Nat /\ r \in Nat /\ s \in Nat
    <2> DEFINE f == Pde(cr3, va).frame
               g == Pte(cr3, va).frame
    <2>1. f \in Nat /\ g \in Nat /\ PageSize \in Nat \ {0} /\ Reach[2] = PageSize * PageSize
      BY FramesAreNumbers, Reaches
    <2> HIDE DEF f, g
    <2>2. Reach[2] \in Nat \ {0}
      BY <2>1, SMT
    <2>3. r \in Nat /\ s \in Nat /\ f \div PageSize \in Nat
      BY <2>1, <2>2, SMT
    <2>4. (f \div PageSize) * Reach[2] \in Nat /\ g * PageSize \in Nat
      BY <2>1, <2>2, <2>3, SMT
    <2>5. QED
      BY <2>3, <2>4, Zenon DEF f, g
  <1>4. (va + k) % Reach[2] = r + k /\ (va + k) % PageSize = s + k
    BY SameTables, Zenon
  <1>5. /\ Target(cr3, va) = IF Pde(cr3, va).big THEN far + r ELSE near + s
        /\ Target(cr3, va + k) = IF Pde(cr3, va).big THEN far + (r + k) ELSE near + (s + k)
    BY <1>2, <1>4, Zenon DEF Target
  <1> HIDE DEF far, near, r, s
  <1>6. QED
    <2>1. HasTarget(cr3, va + k) <=> HasTarget(cr3, va)
      BY <1>2, Zenon DEF HasTarget
    <2>2. far + (r + k) = (far + r) + k /\ near + (s + k) = (near + s) + k
      BY <1>3, SMT
    <2>3. QED
      BY <1>5, <2>1, <2>2, Zenon

(* The cells that one turn of the loop copies are those of the addresses.  *)
LEMMA PageRead ==
  ASSUME IsDump(dump), NEW cr3 \in Nat, NEW va \in Nat, NEW k \in Nat,
         (va % PageSize) + k < PageSize
  PROVE  /\ Entry(Walk(cr3, va) + k) = CellAt(cr3, va + k)
         /\ Held(cr3, va + k) => Held(cr3, va)
  <1>1. /\ HasTarget(cr3, va + k) <=> HasTarget(cr3, va)
        /\ Target(cr3, va + k) = Target(cr3, va) + k
    BY SameTarget
  <1>2. Target(cr3, va) \in Nat /\ dump.size \in Nat
    BY TargetIsNumber DEF IsDump
  <1>3. Walk(cr3, va) = IF Held(cr3, va) THEN Target(cr3, va) ELSE dump.size
    BY WalkFinds
  <1> DEFINE t == Target(cr3, va)
  <1>4. /\ Held(cr3, va) <=> HasTarget(cr3, va) /\ t < dump.size
        /\ Held(cr3, va + k) <=> HasTarget(cr3, va) /\ t + k < dump.size
    BY <1>1, Zenon DEF Held
  <1>5. CellAt(cr3, va + k) = IF Held(cr3, va + k) THEN dump.cells[t + k] ELSE Zero
    BY <1>1, Zenon DEF CellAt
  <1> HIDE DEF t
  <1>6. t \in Nat
    BY <1>2 DEF t
  <1>7. Held(cr3, va + k) => Held(cr3, va)
    BY <1>2, <1>4, <1>6, SMT
  <1>8. CASE Held(cr3, va)
    <2>1. Walk(cr3, va) = t
      BY <1>3, <1>8 DEF t
    <2>2. Held(cr3, va + k) <=> t + k < dump.size
      BY <1>4, <1>8
    <2>3. QED
      BY <1>5, <1>7, <2>1, <2>2, Zenon DEF Entry
  <1>9. CASE ~Held(cr3, va)
    <2>1. Walk(cr3, va) = dump.size /\ ~ (dump.size + k < dump.size)
      BY <1>2, <1>3, <1>9, SMT
    <2>2. QED
      BY <1>5, <1>7, <1>9, <2>1, Zenon DEF Entry
  <1>10. QED
    BY <1>8, <1>9

-----------------------------------------------------------------------------
(* The scan for a text.  Its recursion is unfolded once, into a function f *)
(* that says of each start whether the text is found from there on.        *)

Found(d, text, last, f, from) ==
  LET n == Least(ChunkSize, last - from)
      overlap == IF n = ChunkSize THEN TextSize - 1 ELSE 0
  IN n > 0 /\ (HasText(d, text, from, from + n) \/ f[from + n - overlap])
FoundFrom(d, text, last, f, k) == f = [from \in k .. last |-> Found(d, text, last, f, from)]

(* What is found from a start on depends on what is found from later ones. *)
LEMMA FoundLater ==
  ASSUME NEW d, NEW text, NEW last \in Nat, NEW f, NEW g, NEW from \in 0 .. last,
         \A i \in from + 1 .. last : f[i] = g[i]
  PROVE  Found(d, text, last, f, from) = Found(d, text, last, g, from)
  <1> DEFINE n == Least(ChunkSize, last - from)
             overlap == IF n = ChunkSize THEN TextSize - 1 ELSE 0
             next == from + n - overlap
  <1>1. n > 0 => next \in from + 1 .. last
    BY DetectionAssumption, SMT DEF Least
  <1>2. n > 0 => f[next] = g[next]
    BY <1>1
  <1> DEFINE here == HasText(d, text, from, from + n)
  <1>3. /\ Found(d, text, last, f, from) = (n > 0 /\ (here \/ f[next]))
        /\ Found(d, text, last, g, from) = (n > 0 /\ (here \/ g[next]))
    BY Zenon DEF Found
  <1> HIDE DEF n, next, here
  <1>4. CASE n > 0
    <2>1. (n > 0 /\ (here \/ f[next])) = (n > 0 /\ (here \/ g[next]))
      BY <1>2, <1>4, SMT
    <2>2. QED
      BY <1>3, <2>1
  <1>5. CASE ~ (n > 0)
    <2>1. (n > 0 /\ (here \/ f[next])) = (n > 0 /\ (here \/ g[next]))
      BY <1>5, SMT
    <2>2. QED
      BY <1>3, <2>1
  <1>6. QED
    BY <1>4, <1>5

LEMMA FoundExists ==
  ASSUME NEW d, NEW text, NEW last \in Nat
  PROVE  \E f : FoundFrom(d, text, last, f, 0)
  <1> DEFINE G == {k \in 0 .. last : \E f : FoundFrom(d, text, last, f, last - k)}
  <1>1. 0 \in G
    <2> DEFINE f == [from \in last .. last |-> Found(d, text, last, <<>>, from)]
    <2>1. \A from \in last .. last : Found(d, text, last, f, from) = Found(d, text, last, <<>>, from)
      <3> HIDE DEF f
      <3>1. ASSUME NEW from \in last .. last
            PROVE  Found(d, text, last, f, from) = Found(d, text, last, <<>>, from)
        <4> DEFINE g == <<>>
        <4>1. from \in 0 .. last /\ \A i \in from + 1 .. last : f[i] = g[i]
          BY SMT
        <4> HIDE DEF g
        <4>2. Found(d, text, last, f, from) = Found(d, text, last, g, from)
          BY <4>1, FoundLater, Zenon
        <4>3. QED
          BY <4>2, Zenon DEF g
      <3>2. QED
        BY <3>1, Zenon
    <2>2. FoundFrom(d, text, last, f, last)
      BY <2>1, Zenon DEF FoundFrom
    <2>3. last - 0 = last /\ 0 \in 0 .. last
      BY SMT
    <2>4. QED
      BY <2>2, <2>3, Zenon
  <1>2. ASSUME NEW k \in 1 .. last, k - 1 \in G
        PROVE  k \in G
    <2> DEFINE a == last - k
    <2>1. a \in 0 .. last /\ last - (k - 1) = a + 1 /\ k \in 0 .. last
      BY SMT
    <2>2. PICK g : FoundFrom(d, text, last, g, a + 1)
      BY <1>2, <2>1
    <2> DEFINE h == [from \in a .. last |-> IF from = a THEN Found(d, text, last, g, a) ELSE g[from]]
    <2> HIDE DEF a
    <2>3. \A from \in a + 1 .. last : g[from] = Found(d, text, last, g, from)
      BY <2>2, Zenon DEF FoundFrom
    <2>4. \A i \in a + 1 .. last : i \in a .. last /\ i # a
      BY <2>1, SMT
    <2>5. \A i \in a + 1 .. last : h[i] = g[i]
      BY <2>4, Zenon
    <2>6. ASSUME NEW from \in a .. last
          PROVE  h[from] = Found(d, text, last, h, from)
      <3>1. from \in 0 .. last /\ \A i \in from + 1 .. last : i \in a + 1 .. last
        BY <2>1, SMT
      <3>2. Found(d, text, last, h, from) = Found(d, text, last, g, from)
        <4> HIDE DEF h
        <4>1. \A i \in from + 1 .. last : h[i] = g[i]
          BY <2>5, <3>1, Zenon
        <4>2. QED
          BY <3>1, <4>1, FoundLater, Zenon
      <3>3. from = a \/ from \in a + 1 .. last
        BY <2>1, SMT
      <3>4. QED
        BY <2>3, <3>2, <3>3, Zenon
    <2>7. FoundFrom(d, text, last, h, a)
      BY <2>6, Zenon DEF FoundFrom
    <2>8. QED
      BY <2>1, <2>7, Zenon DEF a
  <1>3. 0 .. last \subseteq G
    <2> HIDE DEF G
    <2>1. QED
      BY <1>1, <1>2, IntervalInduction
  <1>4. last \in G /\ last - last = 0
    BY <1>3, SMTT(30)
  <1>5. QED
    BY <1>4, Zenon

LEMMA ScanUnfolds ==
  ASSUME NEW d, NEW text, NEW limit, NEW last \in Nat, last = Least(d.size, limit)
  PROVE  \E f : FoundFrom(d, text, last, f, 0) /\ ScanBytes(d, text, limit) = f[0]
  <1> DEFINE f == CHOOSE f : FoundFrom(d, text, last, f, 0)
  <1>1. FoundFrom(d, text, last, f, 0)
    BY FoundExists
  <1>2. ScanBytes(d, text, limit) =
          LET to == Least(d.size, limit)
              g == CHOOSE g : FoundFrom(d, text, to, g, 0)
          IN g[0]
    BY Zenon DEF ScanBytes, FoundFrom, Found
  <1>3. QED
    BY <1>1, <1>2

(* A scan in chunks finds a text exactly if it lies within the limit.      *)
LEMMA ScanFindsText ==
  ASSUME NEW d, NEW text, NEW limit \in Nat, d.size \in Nat,
         \A s \in d.strings : s.at \in Nat
  PROVE  ScanBytes(d, text, limit) <=> HasText(d, text, 0, Least(d.size, limit))
  <1> DEFINE last == Least(d.size, limit)
  <1>1. last \in Nat
    BY SMT DEF Least
  <1>2. PICK f : FoundFrom(d, text, last, f, 0) /\ ScanBytes(d, text, limit) = f[0]
    <2> HIDE DEF last
    <2>1. last = Least(d.size, limit)
      BY DEF last
    <2>2. QED
      BY <1>1, <2>1, ScanUnfolds
  <1> HIDE DEF last
  <1>3. \A from \in 0 .. last : f[from] = Found(d, text, last, f, from)
    BY <1>2, Zenon DEF FoundFrom
  <1> DEFINE Right(from) == f[from] <=> HasText(d, text, from, last)
             G == {k \in 0 .. last : \A from \in last - k .. last : Right(from)}
  <1>4. ASSUME NEW from \in 0 .. last, \A i \in from + 1 .. last : Right(i)
        PROVE  Right(from)
    <2> DEFINE n == Least(ChunkSize, last - from)
               overlap == IF n = ChunkSize THEN TextSize - 1 ELSE 0
               next == from + n - overlap
    <2>1. f[from] <=> n > 0 /\ (HasText(d, text, from, from + n) \/ f[next])
      BY <1>3, Zenon DEF Found
    <2>2. /\ n \in Nat /\ overlap \in Nat /\ overlap < TextSize /\ from + n <= last
          /\ n > 0 => next \in from + 1 .. last
          /\ n = 0 => from = last
          /\ from + n = last \/ overlap = TextSize - 1
          /\ next = from + n - overlap
      BY <1>1, DetectionAssumption, SMT DEF Least
    <2> HIDE DEF n, overlap, next
    <2>3. TextSize \in Nat \ {0}
      BY DetectionAssumption
    <2>4. CASE n = 0
      <3>1. \A a \in Nat : ~ (from <= a /\ a + TextSize <= last)
        BY <1>1, <2>2, <2>3, <2>4, SMT
      <3>2. ~HasText(d, text, from, last)
        BY <3>1, Zenon DEF HasText
      <3>3. ~ (n > 0)
        BY <2>4, SMT
      <3>4. QED
        BY <2>1, <3>2, <3>3, Zenon
    <2>5. CASE n > 0
      <3>1. f[from] <=> HasText(d, text, from, from + n) \/ HasText(d, text, next, last)
        BY <1>4, <2>1, <2>2, <2>5, Zenon
      <3>2. \A a \in Nat :
              from <= a /\ a + TextSize <= last <=>
                \/ from <= a /\ a + TextSize <= from + n
                \/ next <= a /\ a + TextSize <= last
        BY <1>1, <2>2, <2>3, <2>5, SMT
      <3>3. HasText(d, text, from, last) <=>
              HasText(d, text, from, from + n) \/ HasText(d, text, next, last)
        BY <3>2, Zenon DEF HasText
      <3>4. QED
        BY <3>1, <3>3, Zenon
    <2>6. QED
      BY <2>2, <2>4, <2>5, SMT
  <1> HIDE DEF Right
  <1>5. 0 \in G
    <2>1. last \in 0 .. last /\ \A i \in last + 1 .. last : FALSE
      BY <1>1, SMT
    <2>2. Right(last)
      BY <1>4, <2>1, Zenon
    <2>3. \A from \in last - 0 .. last : from = last
      BY <1>1, SMT
    <2>4. 0 \in 0 .. last
      BY <1>1, SMT
    <2>5. QED
      BY <2>2, <2>3, <2>4, Zenon
  <1>6. ASSUME NEW k \in 1 .. last, k - 1 \in G
        PROVE  k \in G
    <2> DEFINE a == last - k
    <2>1. a \in 0 .. last /\ last - (k - 1) = a + 1 /\ k \in 0 .. last
      BY <1>1, SMT
    <2>2. \A from \in a + 1 .. last : Right(from)
      BY <1>6, <2>1
    <2> HIDE DEF a
    <2>3. Right(a)
      BY <1>4, <2>1, <2>2, Zenon
    <2>4. \A from \in a .. last : from = a \/ from \in a + 1 .. last
      BY <1>1, <2>1, SMT
    <2>5. QED
      BY <2>1, <2>2, <2>3, <2>4, Zenon DEF a
  <1>7. 0 .. last \subseteq G
    <2> HIDE DEF G
    <2>1. QED
      BY <1>1, <1>5, <1>6, IntervalInduction
  <1>8. last \in G /\ last - last = 0 /\ 0 \in 0 .. last
    BY <1>1, <1>7, SMTT(30)
  <1>9. Right(0)
    BY <1>8, Zenon
  <1>10. QED
    BY <1>2, <1>9, Zenon DEF Right, last

(* The texts that the detectors are told of are those within their limits. *)
LEMMA ScannedWithin ==
  ASSUME NEW d, d.size \in Nat, \A s \in d.strings : s.at \in Nat
  PROVE  /\ Scanned(d, IosLimit) = {text \in Texts : HasText(d, text, 0, Least(d.size, IosLimit))}
         /\ Scanned(d, AsaLimit) = {text \in Texts : HasText(d, text, 0, Least(d.size, AsaLimit))}
  <1>1. IosLimit \in Nat /\ AsaLimit \in Nat
    BY DetectionAssumption
  <1>2. ASSUME NEW limit \in Nat
        PROVE  Scanned(d, limit) = {text \in Texts : HasText(d, text, 0, Least(d.size, limit))}
    <2>1. \A text : ScanBytes(d, text, limit) <=> HasText(d, text, 0, Least(d.size, limit))
      BY ScanFindsText, Zenon
    <2>2. QED
      BY <2>1, Zenon DEF Scanned
  <1>3. QED
    BY <1>1, <1>2, Zenon

-----------------------------------------------------------------------------
(* The platform.                                                           *)

LEMMA DetectorNames ==
  /\ DOMAIN Detectors = 1 .. 4 /\ ToSet(Detectors) = {Detectors[i] : i \in 1 .. 4}
  /\ "generic_flat" \in ToSet(Detectors)
  /\ \A p \in ToSet(Detectors) : p \in {"cisco_asa", "cisco_ios", "cisco_iosxe", "generic_flat"}
  <1>1. DOMAIN Detectors = 1 .. 4
    BY SMT DEF Detectors
  <1>2. Detectors[4] = "generic_flat" /\ 4 \in 1 .. 4
    BY SMT DEF Detectors
  <1>3. \A i \in 1 .. 4 : Detectors[i] \in {"cisco_asa", "cisco_ios", "cisco_iosxe", "generic_flat"}
    BY SMT DEF Detectors
  <1>4. ToSet(Detectors) = {Detectors[i] : i \in 1 .. 4}
    BY <1>1, Zenon DEF ToSet
  <1>5. QED
    BY <1>1, <1>2, <1>3, <1>4, Zenon

LEMMA ScoreIsBounded ==
  ASSUME NEW d, d.lina \in Nat, NEW p \in ToSet(Detectors), NEW near, NEW far
  PROVE  Score(p, d, near, far) \in 0 .. 100
  <1>1. /\ 0 \in Nat /\ 10 \in Nat /\ 20 \in Nat /\ 30 \in Nat /\ 50 \in Nat /\ 60 \in Nat
        /\ 80 \in Nat /\ \A a, b \in Nat : a + b \in Nat
    BY SMT
  <1>2. AsaScore(d, far) \in Nat
    <2>1. Points(d.core, 30) \in Nat /\ Points("Cisco ASA" \in far, 30) \in Nat
      BY <1>1, Zenon DEF Points
    <2>2. 65 * d.lina \in Nat
      BY SMT
    <2> DEFINE named == IF "Cisco Adaptive Security Appliance" \in far THEN 50
                        ELSE Points("Cisco ASA" \in far, 30)
    <2>3. named \in Nat
      BY <1>1, <2>1, Zenon
    <2> HIDE DEF named
    <2>4. Points(d.core, 30) + 65 * d.lina + named \in Nat
      BY <1>1, <2>1, <2>2, <2>3, Zenon
    <2>5. QED
      BY <1>1, <2>4, Zenon DEF AsaScore, named
  <1>3. IosScore(d, near) \in Nat
    <2> DEFINE score == Points("Cisco IOS Software" \in near, 80) + Points("IOS (tm)" \in near, 60)
    <2>1. /\ Points("Cisco IOS Software" \in near, 80) \in Nat
          /\ Points("IOS (tm)" \in near, 60) \in Nat
          /\ Points(~d.elf /\ score > 0, 10) \in Nat
      BY <1>1, Zenon DEF Points
    <2>2. score + Points(~d.elf /\ score > 0, 10) \in Nat
      BY <1>1, <2>1, Zenon
    <2>3. QED
      BY <2>2, Zenon DEF IosScore
  <1>4. IosXeScore(d, far) \in Nat
    <2>1. /\ Points("Cisco IOS XE Software" \in far, 80) \in Nat
          /\ Points("IOSd" \in far, 50) \in Nat /\ Points("Linux version" \in far, 20) \in Nat
      BY <1>1, Zenon DEF Points
    <2>2. QED
      BY <1>1, <2>1, Zenon DEF IosXeScore
  <1>5. p \in {"cisco_asa", "cisco_ios", "cisco_iosxe", "generic_flat"}
    BY DetectorNames
  <1>6. QED
    BY <1>2, <1>3, <1>4, <1>5, SMT DEF Score, Least

(* Among some of the detectors there is a first with the highest score.    *)
LEMMA BestExists ==
  ASSUME NEW Q \in SUBSET (1 .. 4), Q # {}, NEW s, \A i \in 1 .. 4 : s[i] \in 0 .. 100
  PROVE  \E i \in Q : \A j \in Q : s[j] < s[i] \/ (s[j] = s[i] /\ i <= j)
  <1> DEFINE rank(i) == (5 * (100 - s[i])) + i
             R == {rank(i) : i \in Q}
  <1>0. \A i \in Q : i \in 1 .. 4 /\ s[i] \in 0 .. 100
    BY Zenon
  <1>1. \A i \in Q : rank(i) \in Nat
    <2>1. \A i \in 1 .. 4 : \A x \in 0 .. 100 : (5 * (100 - x)) + i \in Nat
      BY SMT
    <2>2. QED
      BY <1>0, <2>1, Zenon
  <1>2. \A i, j \in Q : rank(i) <= rank(j) => s[j] < s[i] \/ (s[j] = s[i] /\ i <= j)
    <2>1. \A i, j \in 1 .. 4 : \A x, y \in 0 .. 100 :
            (5 * (100 - x)) + i <= (5 * (100 - y)) + j => y < x \/ (y = x /\ i <= j)
      BY SMT
    <2>2. QED
      BY <1>0, <2>1, Zenon
  <1> HIDE DEF rank
  <1>3. R \in SUBSET Nat /\ R # {}
    BY <1>1, Zenon
  <1>4. \E v \in R : \A w \in R : v <= w
    BY <1>3, LeastNumber, Zenon
  <1>5. PICK i \in Q : \A w \in R : rank(i) <= w
    BY <1>4, Zenon
  <1>6. \A j \in Q : rank(i) <= rank(j)
    BY <1>5, Zenon
  <1>7. QED
    BY <1>2, <1>6, Zenon

LEMMA PlatformIsBest ==
  ASSUME NEW d, d.lina \in Nat
  PROVE  LET near == Scanned(d, IosLimit)
             far == Scanned(d, AsaLimit)
             S(p) == Score(p, d, near, far)
             fit == {p \in ToSet(Detectors) : ~Raises(p, d) /\ S(p) >= 60}
         IN /\ Platform(d) \in ToSet(Detectors)
            /\ fit = {} => Platform(d) = "generic_flat"
            /\ fit # {} => Platform(d) \in fit /\ \A p \in fit : S(p) <= S(Platform(d))
  <1> DEFINE near == Scanned(d, IosLimit)
             far == Scanned(d, AsaLimit)
             S(i) == Score(Detectors[i], d, near, far)
             Q == {i \in DOMAIN Detectors : ~Raises(Detectors[i], d) /\ S(i) >= 60}
             best(i) == \A j \in Q : S(j) < S(i) \/ (S(j) = S(i) /\ i <= j)
             fit == {p \in ToSet(Detectors) : ~Raises(p, d) /\ Score(p, d, near, far) >= 60}
  <1>1. Platform(d) = IF Q = {} THEN "generic_flat" ELSE Detectors[CHOOSE i \in Q : best(i)]
    BY Zenon DEF Platform
  <1>2. Q \in SUBSET (1 .. 4) /\ \A i \in 1 .. 4 : Detectors[i] \in ToSet(Detectors)
    BY DetectorNames, Zenon
  <1>3. \A i \in 1 .. 4 : S(i) \in 0 .. 100
    BY <1>2, ScoreIsBounded, Zenon
  <1>4. fit = {Detectors[i] : i \in Q}
    BY DetectorNames, Zenon
  <1>5. CASE Q = {}
    <2>1. fit = {} /\ Platform(d) = "generic_flat"
      BY <1>1, <1>4, <1>5, Zenon
    <2>2. QED
      BY <2>1, DetectorNames, Zenon
  <1>6. CASE Q # {}
    <2> HIDE DEF Q
    <2>1. \E i \in Q : best(i)
      <3> DEFINE s == [i \in 1 .. 4 |-> S(i)]
      <3>1. \A i \in 1 .. 4 : s[i] = S(i)
        BY Zenon
      <3> HIDE DEF s, S
      <3>2. \A i \in 1 .. 4 : s[i] \in 0 .. 100
        BY <1>3, <3>1, Zenon
      <3>3. \E i \in Q : \A j \in Q : s[j] < s[i] \/ (s[j] = s[i] /\ i <= j)
        BY <1>2, <1>6, <3>2, BestExists, Zenon
      <3>4. \A i \in Q : s[i] = S(i)
        BY <1>2, <3>1, Zenon
      <3>5. QED
        BY <3>3, <3>4, Zenon
    <2>2. PICK i \in Q : i = (CHOOSE k \in Q : best(k)) /\ best(i)
      BY <2>1, Zenon
    <2>3. Platform(d) = Detectors[i] /\ i \in 1 .. 4
      BY <1>1, <1>2, <1>6, <2>2, Zenon
    <2>4. Platform(d) \in fit /\ Platform(d) \in ToSet(Detectors)
      BY <1>2, <1>4, <2>3, Zenon
    <2>5. \A j \in Q : S(j) <= S(i)
      <3>1. \A j \in Q : S(j) \in 0 .. 100 /\ S(i) \in 0 .. 100 /\ (S(j) < S(i) \/ S(j) = S(i))
        BY <1>2, <1>3, <2>2, Zenon
      <3> HIDE DEF S
      <3>2. QED
        BY <3>1, SMT
    <2>6. \A p \in fit : Score(p, d, near, far) <= Score(Platform(d), d, near, far)
      BY <1>4, <2>3, <2>5, Zenon
    <2>7. QED
      BY <1>4, <2>4, <2>6, Zenon
  <1>7. QED
    BY <1>5, <1>6

-----------------------------------------------------------------------------
(* The backend, and where the kernel is.                                   *)

Backends == {"x86_64", "flat", "struct.error", "TranslationError"}

LEMMA ArchitectureIsRight ==
  ASSUME NEW d, IsDump(d)
  PROVE  /\ Architecture(d) \in Backends
         /\ Architecture(d) = "x86_64" /\ d.elf => d.class64 /\ d.x86
         /\ Architecture(d) \notin {"x86_64", "flat"} <=>
              d.elf /\ ~(d.class64 /\ d.x86 /\ d.head = 20)
  <1>0. RawSize \in Nat /\ RawSize > 2
    BY DetectionAssumption, TranslationAssumption
  <1>1. d.head \in 0 .. 20 /\ d.size \in Nat /\ (d.head < 20 => d.size * 8 <= d.head)
    BY Zenon DEF IsDump
  <1>2. CASE ~d.elf
    <2>1. Architecture(d) = IF d.size >= RawSize THEN "x86_64" ELSE "flat"
      BY <1>2, Zenon DEF Architecture, X86Detects, FlatDetects
    <2>2. QED
      BY <1>2, <2>1, Zenon DEF Backends
  <1>3. CASE d.elf /\ d.head \in 18 .. 19
    <2>1. Architecture(d) = "struct.error" /\ d.head # 20
      BY <1>1, <1>3, SMT DEF Architecture
    <2>2. "struct.error" # "x86_64" /\ "struct.error" # "flat"
      OBVIOUS
    <2>3. QED
      BY <1>3, <2>1, <2>2, Zenon DEF Backends
  <1>4. CASE d.elf /\ d.head < 18
    <2>1. ~ (d.head >= 18) /\ ~ (d.size >= RawSize) /\ d.head # 20 /\ d.head \notin 18 .. 19
      BY <1>0, <1>1, <1>4, SMT
    <2>2. Architecture(d) = "TranslationError"
      BY <1>4, <2>1, Zenon DEF Architecture, X86Detects, FlatDetects
    <2>3. "TranslationError" # "x86_64" /\ "TranslationError" # "flat"
      OBVIOUS
    <2>4. QED
      BY <1>4, <2>1, <2>2, <2>3, Zenon DEF Backends
  <1>5. CASE d.elf /\ d.head = 20
    <2>1. d.head >= 18 /\ d.head \notin 18 .. 19
      BY <1>5, SMT
    <2>2. Architecture(d) = IF d.class64 /\ d.x86 THEN "x86_64" ELSE "TranslationError"
      BY <1>5, <2>1, Zenon DEF Architecture, X86Detects, FlatDetects
    <2>3. "TranslationError" # "x86_64" /\ "TranslationError" # "flat"
      OBVIOUS
    <2>4. QED
      BY <1>5, <2>2, <2>3, Zenon DEF Backends
  <1>6. d.head \in 18 .. 19 \/ d.head < 18 \/ d.head = 20
    BY <1>1, SMT
  <1>7. QED
    BY <1>2, <1>3, <1>4, <1>5, <1>6, Zenon

LEMMA BaseIsPlausible ==
  ASSUME NEW d, IsDump(d)
  PROVE  KaslrBase(d) \in Nat /\ KaslrBase(d) >= KernelStart /\ KaslrBase(d) % PageSize = 0
  <1> DEFINE pages == {p \in DOMAIN d.idt : /\ p * PageSize < Least(KaslrLimit, d.size)
                                            /\ p * PageSize + 2 <= d.size
                                            /\ d.idt[p] >= KernelStart}
             first == CHOOSE p \in pages : \A q \in pages : p <= q
             base == d.idt[first]
  <1>1. /\ PageSize \in Nat \ {0} /\ KernelStart \in Nat /\ DefaultBase \in Nat
        /\ KernelStart <= DefaultBase /\ KernelStart % PageSize = 0 /\ DefaultBase % PageSize = 0
    BY DetectionAssumption, TranslationAssumption
  <1>2. KaslrBase(d) = IF pages = {} THEN DefaultBase ELSE base - (base % PageSize)
    BY Zenon DEF KaslrBase
  <1>3. CASE pages = {}
    BY <1>1, <1>2, <1>3, SMT
  <1>4. CASE pages # {}
    <2>1. pages \in SUBSET Nat
      BY Zenon DEF IsDump
    <2>2. first \in pages
      <3> HIDE DEF pages
      <3>1. \E p \in pages : \A q \in pages : p <= q
        BY <1>4, <2>1, LeastNumber, Zenon
      <3>2. QED
        BY <3>1, Zenon
    <2>3. base \in Nat /\ base >= KernelStart
      BY <2>2, Zenon DEF IsDump
    <2> HIDE DEF base, pages
    <2> DEFINE q == base \div PageSize
               r == base % PageSize
               k == KernelStart \div PageSize
    <2>4. q \in Nat /\ r \in 0 .. PageSize - 1 /\ base = (PageSize * q) + r
      BY <1>1, <2>3, Division, Zenon
    <2>5. k \in Nat /\ KernelStart = PageSize * k
      <3>1. k \in Nat /\ KernelStart = (PageSize * k) + (KernelStart % PageSize)
        BY <1>1, Division, Zenon
      <3> HIDE DEF k
      <3>2. PageSize * k \in Nat
        BY <1>1, <3>1, SMT
      <3>3. QED
        BY <1>1, <3>1, <3>2, SMT
    <2> HIDE DEF q, r, k
    <2>6. k <= q
      <3>1. CASE q < k
        <4>1. PageSize * (q + 1) <= PageSize * k
          BY <1>1, <2>4, <2>5, <3>1, SMT
        <4>2. PageSize * (q + 1) = (PageSize * q) + PageSize
          BY <1>1, <2>4, SMT
        <4> DEFINE z == PageSize * q
        <4>3. z \in Nat /\ base = z + r /\ z + PageSize <= KernelStart
          BY <1>1, <2>4, <2>5, <4>1, <4>2, SMT
        <4> HIDE DEF z
        <4>4. FALSE
          BY <1>1, <2>3, <2>4, <4>3, SMT
        <4>5. QED
          BY <4>4
      <3>2. QED
        BY <2>4, <2>5, <3>1, SMT
    <2> DEFINE z == PageSize * q
    <2>7. z \in Nat /\ base - r = z
      <3>1. z \in Nat /\ base = z + r
        BY <1>1, <2>4, SMT
      <3> HIDE DEF z
      <3>2. QED
        BY <2>4, <3>1, SMT
    <2>8. z >= KernelStart
      BY <1>1, <2>4, <2>5, <2>6, SMT
    <2>9. z % PageSize = 0
      <3>1. (PageSize * q) + 0 = PageSize * q /\ 0 \in 0 .. PageSize - 1
        BY <1>1, <2>4, SMT
      <3>2. ((PageSize * q) + 0) % PageSize = 0
        BY <1>1, <2>4, <3>1, Quotient, Zenon
      <3>3. QED
        BY <3>1, <3>2, Zenon
    <2>10. KaslrBase(d) = z
      BY <1>2, <1>4, <2>7, Zenon DEF r
    <2>11. QED
      BY <2>7, <2>8, <2>9, <2>10, Zenon
  <1>5. QED
    BY <1>3, <1>4

-----------------------------------------------------------------------------
(* The sample of the pages.                                                *)

Pages(d) == {p \in 0 .. d.size : (p + 1) * PageSize <= d.size}
Place(d, i) == (i * Step(d)) \div PageSize

LEMMA SampledPages ==
  ASSUME NEW d, d.size \in Nat
  PROVE  /\ Sampled(d) \subseteq Pages(d) /\ IsFiniteSet(Sampled(d))
         /\ Pages(d) # {} => 0 \in Sampled(d)
  <1>1. PageSize \in Nat \ {0} /\ Samples \in Nat \ {0}
    BY DetectionAssumption
  <1>2. Step(d) \in Nat
    BY <1>1, SMT DEF Step, Most
  <1>3. ASSUME NEW i \in 0 .. Samples - 1
        PROVE  Place(d, i) \in Nat
    <2> DEFINE a == i * Step(d)
    <2>1. a \in Nat
      BY <1>1, <1>2, SMT
    <2> HIDE DEF a
    <2>2. a \div PageSize \in Nat
      BY <1>1, <2>1, SMT
    <2>3. QED
      BY <2>2, Zenon DEF Place, a
  <1> DEFINE I == {Place(d, i) : i \in 0 .. Samples - 1}
  <1>4. Sampled(d) = {page \in I : (page + 1) * PageSize <= d.size}
    BY Zenon DEF Sampled, Place
  <1>5. IsFiniteSet(I)
    <2>1. IsFiniteSet(0 .. Samples - 1)
      BY <1>1, FS_Interval, SMT
    <2> DEFINE f == [i \in 0 .. Samples - 1 |-> Place(d, i)]
    <2>2. f \in [0 .. Samples - 1 -> I] /\ \A i \in 0 .. Samples - 1 : f[i] = Place(d, i)
      BY Zenon
    <2>3. \A t \in I : \E i \in 0 .. Samples - 1 : Place(d, i) = t
      BY Zenon
    <2> HIDE DEF f, I
    <2>4. f \in Surjection(0 .. Samples - 1, I)
      BY <2>2, <2>3, Zenon DEF Surjection
    <2>5. QED
      BY <2>1, <2>4, FS_Surjection, Zenon
  <1>6. \A page \in Nat : (page + 1) * PageSize <= d.size => page \in 0 .. d.size
    <2>1. \A page \in Nat : (page + 1) * PageSize >= page + 1
      BY <1>1, SMT
    <2> TAKE page \in Nat
    <2> HAVE (page + 1) * PageSize <= d.size
    <2>2. (page + 1) * PageSize \in Nat
      BY <1>1, SMT
    <2> DEFINE z == (page + 1) * PageSize
    <2>3. z >= page + 1 /\ z \in Nat /\ z <= d.size
      BY <2>1, <2>2
    <2> HIDE DEF z
    <2>4. QED
      BY <2>3, SMT
  <1>7. Sampled(d) \subseteq Pages(d)
    BY <1>3, <1>4, <1>6, Zenon DEF Pages
  <1>8. IsFiniteSet(Sampled(d))
    <2> HIDE DEF I
    <2>1. Sampled(d) \subseteq I
      BY <1>4, Zenon
    <2>2. QED
      BY <1>5, <2>1, FS_Subset, Zenon
  <1>9. ASSUME NEW p \in Pages(d)
        PROVE  0 \in Sampled(d)
    <2>1. p \in Nat /\ (p + 1) * PageSize <= d.size
      BY SMT DEF Pages
    <2>2. (p + 1) * PageSize = (p * PageSize) + PageSize /\ p * PageSize \in Nat
      BY <1>1, <2>1, SMT
    <2> DEFINE z == p * PageSize
    <2>3. z \in Nat /\ z + PageSize <= d.size
      BY <2>1, <2>2
    <2> HIDE DEF z
    <2>4. (0 + 1) * PageSize <= d.size
      BY <1>1, <2>3, SMT
    <2>5. Place(d, 0) = 0 /\ 0 \in 0 .. Samples - 1
      <3>1. 0 * Step(d) = 0 /\ 0 \in 0 .. Samples - 1 /\ 0 \div PageSize = 0
        BY <1>1, <1>2, SMT
      <3>2. QED
        BY <3>1, Zenon DEF Place
    <2>6. QED
      BY <1>4, <2>4, <2>5, Zenon
  <1>10. QED
    BY <1>7, <1>8, <1>9, Zenon

(* In a dump of no more pages than samples each sample is the next page.   *)
LEMMA EachSample ==
  ASSUME NEW p \in Nat \ {0}, NEW size \in Nat, NEW samples \in Nat \ {0},
         NEW n \in Nat, size < p * (n + 1), n <= samples,
         NEW i \in 0 .. samples - 1
  PROVE  (i * Most(size \div samples, p)) \div p = i
  <1> DEFINE step == Most(size \div samples, p)
  <1> HIDE DEF step
  <1>1. CASE step = p
    <2>1. (p * i) + 0 = i * step /\ 0 \in 0 .. p - 1 /\ i \in Nat
      BY <1>1, SMT
    <2>2. QED
      BY <2>1, Quotient DEF step
  <1>2. CASE step # p
    <2>1. step = size \div samples /\ step \in Nat /\ p <= step
      <3> DEFINE q == size \div samples
      <3>1. q \in Nat
        BY Division
      <3> HIDE DEF q
      <3>2. step = Most(q, p)
        BY DEF q, step
      <3>3. step = q /\ p <= step
        BY <1>2, <3>1, <3>2, SMT DEF Most
      <3>4. QED
        BY <3>1, <3>3 DEF q
    <2>2. samples * step <= size
      <3>1. /\ size = (samples * step) + (size % samples)
            /\ size % samples \in 0 .. samples - 1
        BY <2>1, Division
      <3> DEFINE z == samples * step
                 r == size % samples
      <3>2. z \in Nat /\ r \in Nat /\ size = z + r
        BY <2>1, <3>1, SMT
      <3> HIDE DEF z, r
      <3>3. z <= size
        BY <3>2, SMT
      <3>4. QED
        BY <3>3 DEF z
    <2> DEFINE e == step - p
    <2>3. e \in Nat /\ step = p + e
      BY <2>1, SMT
    <2> HIDE DEF e
    <2>4. samples * step = (samples * p) + (samples * e) /\ p * (n + 1) = (n * p) + p
      <3>1. samples * (p + e) = (samples * p) + (samples * e)
        BY <2>3, SMT
      <3>2. p * (n + 1) = (n * p) + p
        BY SMT
      <3>3. QED
        BY <2>3, <3>1, <3>2, Zenon
    <2>5. n * p <= samples * p /\ samples * p \in Nat /\ samples * e \in Nat /\ n * p \in Nat
      BY <2>3, SMT
    <2>6. samples * e < p
      <3> DEFINE a == samples * p
                 b == samples * e
                 c == n * p
      <3>1. a \in Nat /\ b \in Nat /\ c \in Nat /\ c <= a /\ a + b <= size /\ size < c + p
        BY <2>2, <2>4, <2>5
      <3> HIDE DEF a, b, c
      <3>2. b < p
        BY <3>1, SMT
      <3>3. QED
        BY <3>2 DEF b
    <2>7. i * e <= samples * e /\ i * e \in Nat /\ i \in Nat
      BY <2>3, SMT
    <2>8. i * e \in 0 .. p - 1
      <3> DEFINE a == i * e
                 b == samples * e
      <3>1. a \in Nat /\ b \in Nat /\ a <= b /\ b < p
        BY <2>5, <2>6, <2>7
      <3> HIDE DEF a, b
      <3>2. a \in 0 .. p - 1
        BY <3>1, SMT
      <3>3. QED
        BY <3>2 DEF a
    <2>9. i * step = (p * i) + (i * e)
      BY <2>3, SMT
    <2>10. QED
      BY <2>7, <2>8, <2>9, Quotient DEF step
  <1>3. QED
    BY <1>1, <1>2

LEMMA FewPages ==
  ASSUME NEW d, d.size \in Nat, Cardinality(Pages(d)) <= Samples
  PROVE  Sampled(d) = Pages(d)
  <1> DEFINE n == d.size \div PageSize
  <1>1. PageSize \in Nat \ {0} /\ Samples \in Nat \ {0}
    BY DetectionAssumption
  <1>2. /\ n \in Nat /\ d.size % PageSize \in 0 .. PageSize - 1
        /\ d.size = (PageSize * n) + (d.size % PageSize)
    BY <1>1, Division, Zenon
  <1> HIDE DEF n
  <1>3. PageSize * n \in Nat /\ PageSize * n <= d.size /\ d.size < PageSize * (n + 1)
    <2>1. PageSize * n \in Nat /\ PageSize * (n + 1) = (PageSize * n) + PageSize
      BY <1>1, <1>2, SMT
    <2> DEFINE z == PageSize * n
               r == d.size % PageSize
    <2>2. z \in Nat /\ r \in 0 .. PageSize - 1 /\ d.size = z + r
      BY <1>2, <2>1
    <2> HIDE DEF z, r
    <2>3. z <= d.size /\ d.size < z + PageSize
      BY <1>1, <2>2, SMT
    <2>4. QED
      BY <2>1, <2>3, Zenon DEF z
  <1>4. ASSUME NEW p \in Nat
        PROVE  p \in Pages(d) <=> p < n
    <2>1. CASE p < n
      <3>1. (p + 1) * PageSize <= PageSize * n /\ p + 1 <= (p + 1) * PageSize
        BY <1>1, <1>2, <2>1, SMT
      <3> DEFINE a == (p + 1) * PageSize
                 b == PageSize * n
      <3>2. a \in Nat /\ b \in Nat /\ a <= b /\ p + 1 <= a /\ b <= d.size
        BY <1>1, <1>3, <3>1, SMT
      <3> HIDE DEF a, b
      <3>3. a <= d.size /\ p \in 0 .. d.size
        BY <3>2, SMT
      <3>4. QED
        BY <2>1, <3>3, Zenon DEF Pages, a
    <2>2. CASE ~ (p < n)
      <3>1. PageSize * (n + 1) <= (p + 1) * PageSize
        BY <1>1, <1>2, <2>2, SMT
      <3> DEFINE a == (p + 1) * PageSize
                 b == PageSize * (n + 1)
      <3>2. a \in Nat /\ b \in Nat /\ b <= a /\ d.size < b
        BY <1>1, <1>2, <1>3, <3>1, SMT
      <3> HIDE DEF a, b
      <3>3. ~ (a <= d.size)
        BY <3>2, SMT
      <3>4. QED
        BY <2>2, <3>3, Zenon DEF Pages, a
    <2>3. QED
      BY <2>1, <2>2
  <1>5. n <= Samples
    <2>1. Pages(d) = 0 .. n - 1
      <3>1. \A p \in Pages(d) : p \in Nat
        BY SMT DEF Pages
      <3>2. \A p : p \in 0 .. n - 1 <=> p \in Nat /\ p < n
        BY <1>2, SMT
      <3>3. QED
        BY <1>4, <3>1, <3>2, Zenon
    <2>2. Cardinality(0 .. n - 1) = n
      BY <1>2, FS_Interval, SMT
    <2>3. QED
      BY <2>1, <2>2, Zenon
  <1>6. ASSUME NEW i \in 0 .. Samples - 1
        PROVE  Place(d, i) = i
    <2>1. (i * Most(d.size \div Samples, PageSize)) \div PageSize = i
      BY <1>1, <1>2, <1>3, <1>5, EachSample, Zenon
    <2>2. QED
      BY <2>1, Zenon DEF Place, Step
  <1>7. Sampled(d) = {page \in {Place(d, i) : i \in 0 .. Samples - 1} : (page + 1) * PageSize <= d.size}
    BY Zenon DEF Sampled, Place
  <1>8. Sampled(d) = {page \in 0 .. Samples - 1 : (page + 1) * PageSize <= d.size}
    BY <1>6, <1>7, Zenon
  <1>9. ASSUME NEW p \in Pages(d)
        PROVE  p \in Sampled(d)
    <2>1. p \in Nat /\ (p + 1) * PageSize <= d.size
      BY SMT DEF Pages
    <2>2. p < n
      BY <1>4, <2>1, Zenon
    <2>3. p \in 0 .. Samples - 1
      BY <1>1, <1>2, <1>5, <2>1, <2>2, SMT
    <2>4. QED
      BY <1>8, <2>1, <2>3, Zenon
  <1>10. QED
    BY <1>9, SampledPages, Zenon

(* What EncryptionIsSampled says of a dump.                                *)
LEMMA SampleDecides ==
  ASSUME NEW d, d.size \in Nat, d.random \subseteq Nat
  PROVE  /\ Pages(d) # {} /\ Pages(d) \subseteq d.random => LikelyEncrypted(d)
         /\ d.random = {} => ~LikelyEncrypted(d)
         /\ Pages(d) # {} /\ Cardinality(Pages(d)) <= Samples =>
              (LikelyEncrypted(d)
                 <=> 4 * Cardinality(d.random \cap Pages(d)) >= 3 * Cardinality(Pages(d)))
  <1> DEFINE T == Sampled(d)
             c == Cardinality(T)
  <1>1. T \subseteq Pages(d) /\ IsFiniteSet(T) /\ (Pages(d) # {} => T # {})
    BY SampledPages, Zenon
  <1>2. LikelyEncrypted(d) <=> T # {} /\ 4 * Cardinality(d.random \cap T) >= 3 * c
    BY Zenon DEF LikelyEncrypted
  <1> HIDE DEF T
  <1>3. c \in Nat
    BY <1>1, FS_CardinalityType, Zenon
  <1>4. T # {} => c # 0
    BY <1>1, FS_EmptySet, Zenon
  <1>5. ASSUME Pages(d) # {}, Pages(d) \subseteq d.random
        PROVE  LikelyEncrypted(d)
    <2>1. d.random \cap T = T
      BY <1>1, <1>5, Zenon
    <2> HIDE DEF c
    <2>2. 4 * c >= 3 * c
      BY <1>3, SMT
    <2>3. QED
      BY <1>1, <1>2, <1>5, <2>1, <2>2, Zenon DEF c
  <1>6. ASSUME d.random = {}
        PROVE  ~LikelyEncrypted(d)
    <2>1. Cardinality(d.random \cap T) = 0
      BY <1>6, FS_EmptySet
    <2> HIDE DEF c
    <2>2. T # {} => ~ (4 * 0 >= 3 * c)
      BY <1>3, <1>4, SMT
    <2>3. QED
      BY <1>2, <2>1, <2>2, Zenon
  <1>7. ASSUME Pages(d) # {}, Cardinality(Pages(d)) <= Samples
        PROVE  LikelyEncrypted(d)
                 <=> 4 * Cardinality(d.random \cap Pages(d)) >= 3 * Cardinality(Pages(d))
    <2>1. T = Pages(d)
      BY <1>7, FewPages, Zenon DEF T
    <2>2. QED
      BY <1>2, <1>7, <2>1, Zenon
  <1>8. QED
    BY <1>5, <1>6, <1>7, Zenon

-----------------------------------------------------------------------------
(* The invariant.  What the examination found out is what the definitions  *)
(* say of the dump.  What a read has copied so far are the cells of its    *)
(* first addresses, and it has resolved no page exactly if the dump holds  *)
(* nothing of these.                                                       *)

Contents == {dump.cells[a] : a \in DOMAIN dump.cells} \cup {Zero}

Examined ==
  /\ dump \in Dumps
  /\ backend = "none" => platform = "none" /\ kernelBase = 0 /\ outcome = "none"
  /\ backend # "none" =>
       /\ backend = Architecture(dump) /\ platform = Platform(dump)
       /\ encrypted = LikelyEncrypted(dump)
       /\ kernelBase = IF backend = "x86_64" THEN KaslrBase(dump) ELSE 0

Called ==
  /\ outcome \in {"none", "reading", "bytes", "fault"}
  /\ outcome # "none" => backend \in {"x86_64", "flat"}
  /\ call \in [cr3 : Nat, from : Nat, length : Nat]
  /\ data \in Seq(Contents) /\ resolved \in Nat
  /\ outcome = "none" => call.length = 0 /\ data = <<>> /\ resolved = 0

Paged ==
  backend = "x86_64" =>
    /\ Len(data) <= call.length /\ resolved <= Len(data)
    /\ \A i \in 1 .. Len(data) : data[i] = CellAt(call.cr3, call.from + (i - 1))
    /\ resolved = 0 <=> \A i \in 1 .. Len(data) : ~Held(call.cr3, call.from + (i - 1))
    /\ outcome \in {"bytes", "fault"} => Len(data) = call.length
    /\ outcome = "bytes" => resolved # 0
    /\ outcome = "fault" => resolved = 0

Flat ==
  backend = "flat" =>
    /\ resolved = 0
    /\ outcome = "reading" => data = <<>>
    /\ outcome = "fault" => call.from >= dump.size /\ data = <<>>
    /\ outcome = "bytes" => call.from < dump.size /\ data = Stored(call.from, call.length)

IInv == Examined /\ Called /\ Paged /\ Flat

LEMMA DumpIsDump ==
  ASSUME Examined
  PROVE  IsDump(dump)
  BY TranslationAssumption, Zenon DEF Examined

LEMMA StoredCells ==
  ASSUME IsDump(dump), NEW address \in Nat, NEW n \in Nat
  PROVE  /\ Stored(address, n) \in Seq(Contents) /\ Len(Stored(address, n)) = n
         /\ \A i \in 1 .. n : Stored(address, n)[i] = Entry(address + (i - 1))
  <1> DEFINE s == [i \in 1 .. n |-> Entry(address + i - 1)]
  <1>1. s = Stored(address, n)
    BY Zenon DEF Stored
  <1>2. ASSUME NEW a \in Nat
        PROVE  Entry(a) \in Contents
    <2>1. CASE a < dump.size
      <3>1. a \in DOMAIN dump.cells
        BY <2>1, SMT DEF IsDump
      <3>2. QED
        BY <2>1, <3>1, Zenon DEF Entry, Contents
    <2>2. CASE ~ (a < dump.size)
      BY <2>2, Zenon DEF Entry, Contents
    <2>3. QED
      BY <2>1, <2>2
  <1>3. \A i \in 1 .. n : address + i - 1 = address + (i - 1) /\ address + (i - 1) \in Nat
    BY SMT
  <1>4. \A i \in 1 .. n : s[i] = Entry(address + (i - 1)) /\ s[i] \in Contents
    BY <1>2, <1>3, Zenon
  <1>5. s \in [1 .. n -> Contents]
    <2>1. DOMAIN s = 1 .. n /\ s = [i \in 1 .. n |-> s[i]]
      BY Zenon
    <2> HIDE DEF s
    <2>2. QED
      BY <1>4, <2>1, Zenon
  <1> HIDE DEF s
  <1>6. s \in Seq(Contents) /\ Len(s) = n
    BY <1>5, SMT
  <1>7. QED
    BY <1>1, <1>4, <1>6, Zenon

(* Nothing of the translation changes while the dump stays.                *)
LEMMA SameDump ==
  ASSUME dump' = dump
  PROVE  /\ \A cr3, va : CellAt(cr3, va)' = CellAt(cr3, va)
         /\ \A cr3, va : Held(cr3, va)' <=> Held(cr3, va)
         /\ \A address, n : Stored(address, n)' = Stored(address, n)
         /\ Contents' = Contents
  <1>1. \A a : Entry(a)' = Entry(a)
    BY Zenon DEF Entry
  <1>2. \A l, t, va : At(l, t, va)' = At(l, t, va)
    BY <1>1, Zenon DEF At
  <1>3. \A cr3, va : Pml4e(cr3, va)' = Pml4e(cr3, va)
    BY <1>2, Zenon DEF Pml4e
  <1>4. \A cr3, va : Pdpte(cr3, va)' = Pdpte(cr3, va)
    BY <1>2, <1>3, Zenon DEF Pdpte
  <1>5. \A cr3, va : Pde(cr3, va)' = Pde(cr3, va)
    BY <1>2, <1>4, Zenon DEF Pde
  <1>6. \A cr3, va : Pte(cr3, va)' = Pte(cr3, va)
    BY <1>2, <1>5, Zenon DEF Pte
  <1>7. \A cr3, va : HasTarget(cr3, va)' <=> HasTarget(cr3, va)
    BY <1>3, <1>4, <1>5, <1>6, Zenon DEF HasTarget
  <1>8. \A cr3, va : Target(cr3, va)' = Target(cr3, va)
    BY <1>5, <1>6, Zenon DEF Target
  <1>9. \A cr3, va : Held(cr3, va)' <=> Held(cr3, va)
    BY <1>7, <1>8, Zenon DEF Held
  <1>10. \A cr3, va : CellAt(cr3, va)' = CellAt(cr3, va)
    BY <1>8, <1>9, Zenon DEF CellAt
  <1>11. \A address, n : Stored(address, n)' = Stored(address, n)
    BY <1>1, Zenon DEF Stored
  <1>12. QED
    BY <1>9, <1>10, <1>11, Zenon DEF Contents

LEMMA InitInv == Init => IInv
  <1> SUFFICES ASSUME Init PROVE IInv
    OBVIOUS
  <1>1. <<>> \in Seq(Contents)
    BY SMT
  <1>2. Examined
    BY Zenon DEF Init, Examined
  <1>3. Called
    <2>1. NoCall \in [cr3 : Nat, from : Nat, length : Nat] /\ NoCall.length = 0 /\ 0 \in Nat
      BY SMT DEF NoCall
    <2>2. QED
      BY <1>1, <2>1, Zenon DEF Init, Called
  <1>4. Paged /\ Flat
    BY DEF Init, Paged, Flat
  <1>5. QED
    BY <1>2, <1>3, <1>4 DEF IInv

(* While nothing is examined, what is found out stays.                     *)
LEMMA FoundStays ==
  ASSUME Examined, UNCHANGED found, outcome' = "none" => outcome = "none",
         backend = "none" => outcome' = outcome
  PROVE  Examined'
  <1>1. /\ dump' = dump /\ backend' = backend /\ platform' = platform
        /\ encrypted' = encrypted /\ kernelBase' = kernelBase
    BY DEF found
  <1>2. QED
    BY <1>1, Zenon DEF Examined

LEMMA ExamineKeeps ==
  ASSUME IInv, Examine
  PROVE  IInv'
  <1>1. /\ backend = "none" /\ dump' = dump /\ call' = call /\ data' = data
        /\ resolved' = resolved /\ outcome' = outcome
        /\ encrypted' = LikelyEncrypted(dump) /\ platform' = Platform(dump)
        /\ backend' = Architecture(dump)
        /\ kernelBase' = IF backend' = "x86_64" THEN KaslrBase(dump) ELSE 0
    BY DEF Examine
  <1>2. Examined /\ Called
    BY DEF IInv
  <1>3. outcome = "none" /\ call.length = 0 /\ data = <<>> /\ resolved = 0
    BY <1>1, <1>2, Zenon DEF Examined, Called
  <1>4. backend' # "none"
    <2>1. Architecture(dump) \in Backends
      BY <1>2, DumpIsDump, ArchitectureIsRight, Zenon
    <2>2. QED
      BY <1>1, <2>1 DEF Backends
  <1>5. Examined'
    BY <1>1, <1>2, <1>4, Zenon DEF Examined
  <1>6. Called'
    BY <1>1, <1>2, <1>3, SameDump, Zenon DEF Called
  <1>7. Paged' /\ Flat'
    <2>1. /\ outcome' = "none" /\ call'.length = 0 /\ data' = <<>> /\ resolved' = 0
          /\ Len(<<>>) = 0 /\ 0 <= 0 /\ \A i \in 1 .. 0 : FALSE
      BY <1>1, <1>3
    <2>2. "none" # "bytes" /\ "none" # "fault" /\ "none" # "reading"
      OBVIOUS
    <2>3. Paged'
      BY <2>1, <2>2, Zenon DEF Paged
    <2>4. Flat'
      BY <2>1, <2>2, Zenon DEF Flat
    <2>5. QED
      BY <2>3, <2>4
  <1>8. QED
    BY <1>5, <1>6, <1>7 DEF IInv

LEMMA CallKeeps ==
  ASSUME IInv, NEW c \in [cr3 : Nat, from : Nat, length : Nat], Call(c)
  PROVE  IInv'
  <1>1. /\ backend \in {"x86_64", "flat"} /\ outcome = "none" /\ call' = c
        /\ outcome' = "reading" /\ UNCHANGED found /\ data' = data /\ resolved' = resolved
    BY DEF Call
  <1>2. Examined /\ Called
    BY DEF IInv
  <1>3. data = <<>> /\ resolved = 0 /\ backend' = backend /\ dump' = dump
    BY <1>1, <1>2, Zenon DEF Called, found
  <1>4. backend # "none" /\ "reading" # "none" /\ "reading" # "bytes" /\ "reading" # "fault"
    BY <1>1
  <1>5. Examined'
    BY <1>1, <1>2, <1>4, FoundStays, Zenon
  <1>6. Called'
    BY <1>1, <1>2, <1>3, <1>4, SameDump, Zenon DEF Called
  <1>7. Paged'
    <2>1. Len(<<>>) = 0 /\ 0 <= 0 /\ 0 <= c.length /\ \A i \in 1 .. 0 : FALSE
      BY SMT
    <2>2. QED
      BY <1>1, <1>3, <1>4, <2>1, Zenon DEF Paged
  <1>8. Flat'
    BY <1>1, <1>3, <1>4, Zenon DEF Flat
  <1>9. QED
    BY <1>5, <1>6, <1>7, <1>8 DEF IInv

LEMMA ReturnKeeps ==
  ASSUME IInv, Return
  PROVE  IInv'
  <1>1. /\ backend = "x86_64" /\ outcome = "reading" /\ Len(data) = call.length
        /\ outcome' = IF resolved = 0 THEN "fault" ELSE "bytes"
        /\ UNCHANGED found /\ call' = call /\ data' = data /\ resolved' = resolved
    BY DEF Return
  <1>2. Examined /\ Called /\ Paged
    BY DEF IInv
  <1>3. /\ backend' = backend /\ dump' = dump
        /\ outcome' \in {"bytes", "fault"} /\ outcome' # "none" /\ outcome' # "reading"
        /\ outcome' = "fault" <=> resolved = 0
        /\ outcome' = "bytes" <=> resolved # 0
    BY <1>1 DEF found
  <1>4. backend # "none" /\ backend # "flat"
    BY <1>1
  <1>5. Examined'
    BY <1>2, <1>1, <1>3, <1>4, FoundStays, Zenon
  <1>6. Called'
    BY <1>1, <1>2, <1>3, SameDump, Zenon DEF Called
  <1>7. Paged'
    BY <1>1, <1>2, <1>3, SameDump, Zenon DEF Paged
  <1>8. Flat'
    BY <1>3, <1>4, Zenon DEF Flat
  <1>9. QED
    BY <1>5, <1>6, <1>7, <1>8 DEF IInv

LEMMA ReadFlatKeeps ==
  ASSUME IInv, ReadFlat
  PROVE  IInv'
  <1>1. /\ outcome = "reading" /\ backend = "flat"
        /\ IF call.from >= dump.size THEN outcome' = "fault" /\ data' = data
           ELSE outcome' = "bytes" /\ data' = Stored(call.from, call.length)
        /\ UNCHANGED found /\ call' = call /\ resolved' = resolved
    BY DEF ReadFlat
  <1>2. Examined /\ Called /\ Flat
    BY DEF IInv
  <1>3. /\ backend' = backend /\ dump' = dump /\ backend # "none" /\ backend # "x86_64"
        /\ outcome' \in {"bytes", "fault"} /\ outcome' # "none" /\ outcome' # "reading"
    BY <1>1 DEF found
  <1>4. call.from \in Nat /\ call.length \in Nat /\ dump.size \in Nat
    BY <1>2, DumpIsDump, Zenon DEF Called, IsDump
  <1>5. data' \in Seq(Contents)
    <2>1. Stored(call.from, call.length) \in Seq(Contents)
      BY <1>2, <1>4, DumpIsDump, StoredCells, Zenon
    <2>2. QED
      BY <1>1, <1>2, <2>1, Zenon DEF Called
  <1>6. Examined'
    BY <1>1, <1>2, <1>3, FoundStays, Zenon
  <1>7. Called'
    BY <1>1, <1>2, <1>3, <1>5, SameDump, Zenon DEF Called
  <1>8. Paged'
    BY <1>3, Zenon DEF Paged
  <1>9. Flat'
    <2>1. data = <<>> /\ resolved = 0
      BY <1>1, <1>2, Zenon DEF Flat
    <2>2. Stored(call.from, call.length)' = Stored(call.from, call.length)
      BY <1>1, <1>3, Zenon DEF Stored, Entry, Zero
    <2>3. "bytes" # "fault" /\ (~ (call.from >= dump.size) => call.from < dump.size)
      BY <1>4, SMT
    <2>4. QED
      BY <1>1, <1>3, <2>1, <2>2, <2>3, Zenon DEF Flat
  <1>10. QED
    BY <1>6, <1>7, <1>8, <1>9 DEF IInv

LEMMA ReadPageKeeps ==
  ASSUME IInv, ReadPage
  PROVE  IInv'
  <1> DEFINE cr3 == call.cr3
             old == Len(data)
             va == call.from + old
             n == Least(call.length - old, PageSize - (va % PageSize))
             physical == Walk(cr3, va)
             copied == Stored(physical, n)
  <1>1. /\ outcome = "reading" /\ backend = "x86_64" /\ old < call.length
        /\ data' = data \o copied
        /\ resolved' = IF physical = Unmapped THEN resolved ELSE resolved + 1
        /\ UNCHANGED found /\ call' = call /\ outcome' = outcome
    BY Zenon DEF ReadPage
  <1>2. Examined /\ Called /\ Paged
    BY DEF IInv
  <1>3. /\ backend' = backend /\ dump' = dump /\ backend # "none" /\ backend # "flat"
        /\ outcome # "none" /\ outcome # "bytes" /\ outcome # "fault"
    BY <1>1 DEF found
  <1>4. /\ IsDump(dump) /\ cr3 \in Nat /\ call.from \in Nat /\ call.length \in Nat
        /\ data \in Seq(Contents) /\ old \in Nat /\ va \in Nat /\ resolved \in Nat
    <2>1. /\ IsDump(dump) /\ cr3 \in Nat /\ call.from \in Nat /\ call.length \in Nat
          /\ data \in Seq(Contents) /\ resolved \in Nat
      BY <1>2, DumpIsDump, Zenon DEF Called
    <2>2. old \in Nat
      BY <2>1, SMT
    <2> HIDE DEF old
    <2>3. QED
      BY <2>1, <2>2, SMT
  <1> HIDE DEF cr3, old, va, copied
  <1>5. PageSize \in Nat \ {0} /\ va % PageSize \in 0 .. PageSize - 1
    BY <1>4, Reaches, Division, Zenon
  <1>6. n \in Nat /\ n > 0 /\ old + n <= call.length /\ (va % PageSize) + (n - 1) < PageSize
    <2> DEFINE r == va % PageSize
    <2>1. r \in 0 .. PageSize - 1
      BY <1>5
    <2> HIDE DEF r
    <2>2. Least(call.length - old, PageSize - r) \in Nat /\ Least(call.length - old, PageSize - r) > 0
          /\ old + Least(call.length - old, PageSize - r) <= call.length
          /\ r + (Least(call.length - old, PageSize - r) - 1) < PageSize
      BY <1>1, <1>4, <1>5, <2>1, SMTT(30) DEF Least
    <2>3. QED
      BY <2>2 DEF r
  <1>7. /\ physical = IF Held(cr3, va) THEN Target(cr3, va) ELSE dump.size
        /\ physical \in Nat /\ Target(cr3, va) \in Nat /\ dump.size \in Nat
    <2>1. physical = IF Held(cr3, va) THEN Target(cr3, va) ELSE dump.size
      BY <1>4, WalkFinds, Zenon
    <2>2. Target(cr3, va) \in Nat /\ dump.size \in Nat
      BY <1>4, TargetIsNumber, Zenon DEF IsDump
    <2>3. QED
      BY <2>1, <2>2, Zenon
  <1>8. physical = Unmapped <=> ~Held(cr3, va)
    <2>1. Held(cr3, va) => Target(cr3, va) < dump.size
      BY Zenon DEF Held
    <2>2. Held(cr3, va) => Target(cr3, va) # dump.size
      BY <1>7, <2>1, SMT
    <2>3. QED
      BY <1>7, <2>2, Zenon DEF Unmapped
  <1> HIDE DEF n, physical
  <1>9. copied \in Seq(Contents) /\ Len(copied) = n
    BY <1>4, <1>6, <1>7, StoredCells, Zenon DEF copied
  <1>10. ASSUME NEW k \in 0 .. n - 1
         PROVE  /\ copied[k + 1] = CellAt(cr3, va + k)
                /\ Held(cr3, va + k) => Held(cr3, va)
    <2>1. k \in Nat /\ (va % PageSize) + k < PageSize /\ k + 1 \in 1 .. n /\ (k + 1) - 1 = k
      <3> DEFINE r == va % PageSize
      <3>1. r \in Nat /\ r + (n - 1) < PageSize
        BY <1>5, <1>6, SMT
      <3> HIDE DEF r
      <3>2. k \in Nat /\ r + k < PageSize /\ k + 1 \in 1 .. n /\ (k + 1) - 1 = k
        BY <1>5, <1>6, <3>1, SMT
      <3>3. QED
        BY <3>2 DEF r
    <2>2. copied[k + 1] = Entry(physical + k)
      <3>1. \A i \in 1 .. n : copied[i] = Entry(physical + (i - 1))
        BY <1>4, <1>6, <1>7, StoredCells, Zenon DEF copied
      <3>2. copied[k + 1] = Entry(physical + ((k + 1) - 1))
        BY <2>1, <3>1, Zenon
      <3>3. QED
        BY <2>1, <3>2, Zenon
    <2>3. /\ Entry(Walk(cr3, va) + k) = CellAt(cr3, va + k)
          /\ Held(cr3, va + k) => Held(cr3, va)
      BY <1>4, <2>1, PageRead, Zenon
    <2>4. QED
      BY <2>2, <2>3, Zenon DEF physical
  <1>11. /\ data' \in Seq(Contents) /\ Len(data') = old + n
         /\ \A i \in 1 .. old : data'[i] = data[i]
         /\ \A i \in old + 1 .. old + n : data'[i] = copied[i - old]
    <2> DEFINE u == data \o copied
    <2>1. u \in Seq(Contents) /\ Len(u) = Len(data) + Len(copied)
      <3>1. data \in Seq(Contents) /\ copied \in Seq(Contents)
        BY <1>4, <1>9, Zenon
      <3>2. QED
        BY <3>1, ConcatProperties, Zenon
    <2>2. \A i \in 1 .. Len(data) : u[i] = data[i]
      BY <1>4, <1>9, ConcatProperties, SMT
    <2>3. \A i \in Len(data) + 1 .. Len(data) + Len(copied) : u[i] = copied[i - Len(data)]
      BY <1>4, <1>9, ConcatProperties, SMT
    <2>4. data' = u /\ Len(data) = old /\ Len(copied) = n
      BY <1>1, <1>9 DEF old
    <2> HIDE DEF u
    <2>5. QED
      BY <2>1, <2>2, <2>3, <2>4, Zenon
  <1>12. ASSUME NEW i \in old + 1 .. old + n
         PROVE  /\ data'[i] = CellAt(cr3, call.from + (i - 1))
                /\ Held(cr3, call.from + (i - 1)) => Held(cr3, va)
    <2> DEFINE k == (i - old) - 1
    <2>1. k \in 0 .. n - 1 /\ k + 1 = i - old /\ va + k = call.from + (i - 1)
      BY <1>4, <1>6, SMT DEF va
    <2> HIDE DEF k
    <2>2. QED
      BY <1>10, <1>11, <2>1, Zenon
  <1>13. /\ old <= call.length /\ resolved <= old
         /\ \A i \in 1 .. old : data[i] = CellAt(cr3, call.from + (i - 1))
         /\ resolved = 0 <=> \A i \in 1 .. old : ~Held(cr3, call.from + (i - 1))
    BY <1>1, <1>2, Zenon DEF Paged, cr3, old
  <1>14. \A i \in 1 .. old + n : i \in 1 .. old \/ i \in old + 1 .. old + n
    BY <1>4, <1>6, SMT
  <1>15. /\ \A i \in 1 .. old : i \in 1 .. old + n
         /\ old + 1 \in old + 1 .. old + n /\ old + 1 \in 1 .. old + n
         /\ call.from + ((old + 1) - 1) = va
    BY <1>4, <1>6, SMT DEF va
  <1>16. /\ resolved' = IF Held(cr3, va) THEN resolved + 1 ELSE resolved
         /\ resolved' \in Nat /\ resolved' <= old + n
         /\ resolved' = 0 <=> resolved = 0 /\ ~Held(cr3, va)
    <2>1. resolved' = IF Held(cr3, va) THEN resolved + 1 ELSE resolved
      BY <1>1, <1>8, Zenon
    <2>2. QED
      BY <1>4, <1>6, <1>13, <2>1, SMT
  <1>17. resolved' = 0 <=> \A i \in 1 .. old + n : ~Held(cr3, call.from + (i - 1))
    <2>1. ASSUME resolved = 0, ~Held(cr3, va), NEW i \in 1 .. old + n
          PROVE  ~Held(cr3, call.from + (i - 1))
      BY <1>12, <1>13, <1>14, <2>1, Zenon
    <2>2. ASSUME \A i \in 1 .. old + n : ~Held(cr3, call.from + (i - 1))
          PROVE  resolved = 0 /\ ~Held(cr3, va)
      BY <1>13, <1>15, <2>2, Zenon
    <2>3. QED
      BY <1>16, <2>1, <2>2, Zenon
  <1>18. \A i \in 1 .. old + n : data'[i] = CellAt(cr3, call.from + (i - 1))
    BY <1>11, <1>12, <1>13, <1>14, Zenon
  <1>19. Examined'
    BY <1>1, <1>2, <1>3, FoundStays, Zenon
  <1>20. Called'
    BY <1>1, <1>2, <1>3, <1>11, <1>16, SameDump, Zenon DEF Called
  <1>21. Paged'
    BY <1>1, <1>3, <1>6, <1>11, <1>16, <1>17, <1>18, SameDump, ZenonT(40) DEF Paged, cr3
  <1>22. Flat'
    BY <1>3, Zenon DEF Flat
  <1>23. QED
    BY <1>19, <1>20, <1>21, <1>22 DEF IInv

LEMMA NextKeeps ==
  ASSUME IInv, [Next]_vars
  PROVE  IInv'
  <1>1. CASE Examine
    BY <1>1, ExamineKeeps
  <1>2. CASE ReadPage
    BY <1>2, ReadPageKeeps
  <1>3. CASE Return
    BY <1>3, ReturnKeeps
  <1>4. CASE ReadFlat
    BY <1>4, ReadFlatKeeps
  <1>5. ASSUME NEW cr3 \in Tables, NEW from \in Addresses, NEW length \in Lengths,
               Call([cr3 |-> cr3, from |-> from, length |-> length])
        PROVE  IInv'
    <2>1. cr3 \in Nat /\ from \in Nat /\ length \in Nat
      BY TranslationAssumption, Zenon
    <2>2. [cr3 |-> cr3, from |-> from, length |-> length] \in [cr3 : Nat, from : Nat, length : Nat]
      BY <2>1, Zenon
    <2>3. QED
      BY <1>5, <2>2, CallKeeps, Zenon
  <1>6. CASE UNCHANGED vars
    <2>1. /\ UNCHANGED found /\ call' = call /\ data' = data /\ resolved' = resolved
          /\ outcome' = outcome
      BY <1>6 DEF vars
    <2>2. dump' = dump /\ backend' = backend
      BY <2>1 DEF found
    <2>3. Examined'
      BY <2>1, FoundStays, Zenon DEF IInv
    <2>4. Called'
      BY <2>1, <2>2, SameDump, Zenon DEF IInv, Called
    <2>5. Paged'
      BY <2>1, <2>2, SameDump, Zenon DEF IInv, Paged
    <2>6. Flat'
      BY <2>1, <2>2, SameDump, Zenon DEF IInv, Flat
    <2>7. QED
      BY <2>3, <2>4, <2>5, <2>6, Zenon DEF IInv
  <1>7. QED
    BY <1>1, <1>2, <1>3, <1>4, <1>5, <1>6, Zenon DEF Next

LEMMA Invariance == Spec => []IInv
  <1>1. IInv /\ [Next]_vars => IInv'
    BY NextKeeps
  <1>2. QED
    BY <1>1, InitInv, PTL DEF Spec

-----------------------------------------------------------------------------
(* The theorems.                                                           *)

(* The backend, the platform and the outcome are among those there are,    *)
(* the kernel's base is a plausible address at the start of a page, and a  *)
(* read never copies more than was asked for, nor resolves more pages than *)
(* it copied cells.                                                        *)
THEOREM TranslationTypes == Spec => []TypeOK
  <1>1. IInv => TypeOK
    <2> SUFFICES ASSUME IInv PROVE TypeOK
      OBVIOUS
    <2>1. Examined /\ Called /\ Paged /\ Flat /\ IsDump(dump)
      BY DumpIsDump DEF IInv
    <2>2. backend \in {"none"} \cup Backends
      BY <2>1, ArchitectureIsRight, Zenon DEF Examined
    <2>3. platform \in {"none"} \cup ToSet(Detectors)
      <3>1. dump.lina \in Nat
        BY <2>1, Zenon DEF IsDump
      <3>2. Platform(dump) \in ToSet(Detectors)
        BY <3>1, PlatformIsBest, Zenon
      <3>3. QED
        BY <2>1, <3>2, Zenon DEF Examined
    <2>4. kernelBase = 0 \/ (kernelBase >= KernelStart /\ kernelBase % PageSize = 0)
      BY <2>1, BaseIsPlausible, Zenon DEF Examined
    <2>5. Len(data) <= call.length /\ resolved <= Len(data)
      <3>1. call.length \in Nat /\ call.from \in Nat /\ data \in Seq(Contents)
        BY <2>1, Zenon DEF Called
      <3>2. CASE data = <<>> /\ resolved = 0
        BY <3>1, <3>2, SMT
      <3>3. CASE backend = "x86_64"
        BY <2>1, <3>3, Zenon DEF Paged
      <3>4. CASE backend = "flat" /\ outcome = "bytes"
        <4>1. Len(data) = call.length /\ resolved = 0
          BY <2>1, <3>1, <3>4, StoredCells, Zenon DEF Flat
        <4>2. QED
          BY <3>1, <4>1, SMT
      <3>5. QED
        BY <2>1, <3>2, <3>3, <3>4, Zenon DEF Called, Flat
    <2>6. QED
      BY <2>1, <2>2, <2>3, <2>4, <2>5, Zenon DEF TypeOK, Backends, Called
  <1>2. QED
    BY <1>1, Invariance, PTL

(* The platform is one with the highest score for the texts within the     *)
(* search limits, however the chunks of the scan lie, and only ELF files   *)
(* that are not x86-64 or end in their header get no backend.              *)
THEOREM DetectionAlwaysRight == Spec => []DetectionIsRight
  <1>1. IInv => DetectionIsRight
    <2> SUFFICES ASSUME IInv, backend # "none" PROVE DetectionIsRight
      BY Zenon DEF DetectionIsRight
    <2> DEFINE Within(limit) == {text \in Texts : HasText(dump, text, 0, Least(dump.size, limit))}
               S(p) == Score(p, dump, Within(IosLimit), Within(AsaLimit))
               fit == {p \in ToSet(Detectors) : ~Raises(p, dump) /\ S(p) >= 60}
    <2>1. Examined /\ IsDump(dump)
      BY DumpIsDump DEF IInv
    <2>2. backend = Architecture(dump) /\ platform = Platform(dump)
      BY <2>1, Zenon DEF Examined
    <2>3. dump.lina \in Nat /\ dump.size \in Nat /\ \A s \in dump.strings : s.at \in Nat
      BY <2>1, Zenon DEF IsDump
    <2>4. Within(IosLimit) = Scanned(dump, IosLimit) /\ Within(AsaLimit) = Scanned(dump, AsaLimit)
      BY <2>3, ScannedWithin, Zenon
    <2>5. /\ fit = {} => platform = "generic_flat"
          /\ fit # {} => platform \in fit /\ \A p \in fit : S(p) <= S(platform)
      <3> HIDE DEF Within
      <3>1. QED
        BY <2>2, <2>3, <2>4, PlatformIsBest
    <2>6. /\ backend = "x86_64" /\ dump.elf => dump.class64 /\ dump.x86
          /\ backend \notin {"x86_64", "flat"} <=>
               dump.elf /\ ~(dump.class64 /\ dump.x86 /\ dump.head = 20)
      BY <2>1, <2>2, ArchitectureIsRight, Zenon
    <2>7. QED
      BY <2>5, <2>6, Zenon DEF DetectionIsRight
  <1>2. QED
    BY <1>1, Invariance, PTL

(* A dump is called encrypted when all of its pages are random, not when   *)
(* none is, and by the share of random pages when all can be sampled.      *)
THEOREM EncryptionFollowsSample == Spec => []EncryptionIsSampled
  <1>1. IInv => EncryptionIsSampled
    <2> SUFFICES ASSUME IInv, backend # "none" PROVE EncryptionIsSampled
      BY Zenon DEF EncryptionIsSampled
    <2>1. Examined /\ IsDump(dump)
      BY DumpIsDump DEF IInv
    <2>2. encrypted = LikelyEncrypted(dump)
      BY <2>1, Zenon DEF Examined
    <2>3. dump.size \in Nat /\ dump.random \subseteq Nat
      BY <2>1, Zenon DEF IsDump
    <2>4. QED
      BY <2>2, <2>3, SampleDecides, Zenon DEF EncryptionIsSampled, Pages
  <1>2. QED
    BY <1>1, Invariance, PTL

(* A read gives for each address the cell that the tables map it to, and   *)
(* zeros where they map it to nothing or beyond the end of the dump; it is *)
(* a fault exactly if there is no such cell in it.                         *)
THEOREM ReadsAlwaysTranslate == Spec => []ReadsTranslate
  <1>1. IInv => ReadsTranslate
    <2> SUFFICES ASSUME IInv, outcome \in {"bytes", "fault"}, call.length > 0
                 PROVE  ReadsTranslate
      BY Zenon DEF ReadsTranslate
    <2> DEFINE Span == 0 .. call.length - 1
               Cells(i) == IF backend = "flat" THEN {call.from + i} \cap DOMAIN dump.cells
                           ELSE Physical(call.cr3, call.from + i)
    <2>1. Examined /\ Called /\ Paged /\ Flat /\ IsDump(dump)
      BY DumpIsDump DEF IInv
    <2>2. /\ call.cr3 \in Nat /\ call.from \in Nat /\ call.length \in Nat
          /\ data \in Seq(Contents) /\ dump.size \in Nat
          /\ DOMAIN dump.cells = 0 .. dump.size - 1
      BY <2>1, Zenon DEF Called, IsDump
    <2>3. \A i \in Span : i \in Nat /\ call.from + i \in Nat /\ i + 1 \in 1 .. call.length
                          /\ (i + 1) - 1 = i
      BY <2>2, SMT
    <2>4. \A j \in 1 .. call.length : j - 1 \in Span
      BY <2>2, SMT
    <2>5. 0 \in Span /\ call.from + 0 = call.from
      BY <2>2, SMT
    <2>6. backend = "x86_64" \/ backend = "flat"
      BY <2>1, Zenon DEF Called
    <2>7. CASE backend = "x86_64"
      <3>1. ASSUME NEW i \in Span
            PROVE  /\ Cells(i) = {} <=> ~Held(call.cr3, call.from + i)
                   /\ \A a \in Cells(i) : CellAt(call.cr3, call.from + i) = dump.cells[a]
                   /\ Cells(i) = {} => CellAt(call.cr3, call.from + i) = Zero
        <4> DEFINE va == call.from + i
        <4>1. va \in Nat /\ Cells(i) = Physical(call.cr3, va)
          BY <2>3, <2>7
        <4> HIDE DEF va
        <4>2. \A x : x \in Physical(call.cr3, va)
                       <=> Held(call.cr3, va) /\ x = Target(call.cr3, va)
          BY <2>1, <2>2, <4>1, PhysicalIsTarget, Zenon
        <4> HIDE DEF Cells
        <4>3. QED
          BY <4>1, <4>2, Zenon DEF CellAt, va
      <3>2. /\ Len(data) = call.length
            /\ \A j \in 1 .. call.length : data[j] = CellAt(call.cr3, call.from + (j - 1))
            /\ outcome = "fault" <=> \A j \in 1 .. call.length : ~Held(call.cr3, call.from + (j - 1))
        <4>1. /\ Len(data) = call.length /\ (outcome = "bytes" => resolved # 0)
              /\ (outcome = "fault" => resolved = 0)
          BY <2>1, <2>7, Zenon DEF Paged
        <4>2. QED
          BY <2>1, <2>7, <4>1, Zenon DEF Paged
      <3> HIDE DEF Span, Cells
      <3>3. outcome = "fault" <=> \A i \in Span : Cells(i) = {}
        <4>1. (\A i \in Span : Cells(i) = {}) <=> \A i \in Span : ~Held(call.cr3, call.from + i)
          BY <3>1, Zenon
        <4>2. (\A i \in Span : ~Held(call.cr3, call.from + i))
                <=> \A j \in 1 .. call.length : ~Held(call.cr3, call.from + (j - 1))
          BY <2>3, <2>4, Zenon
        <4>3. QED
          BY <3>2, <4>1, <4>2, Zenon
      <3>4. ASSUME NEW i \in Span
            PROVE  IF Cells(i) = {} THEN data[i + 1] = Zero
                   ELSE \A a \in Cells(i) : data[i + 1] = dump.cells[a]
        <4>1. data[i + 1] = CellAt(call.cr3, call.from + i)
          BY <2>3, <3>2, Zenon
        <4>2. QED
          BY <3>1, <4>1, Zenon
      <3>5. QED
        BY <3>2, <3>3, <3>4, Zenon DEF ReadsTranslate, Span, Cells
    <2>8. CASE backend = "flat"
      <3>1. \A i \in Span : Cells(i) = IF call.from + i < dump.size THEN {call.from + i} ELSE {}
        <4>1. \A i \in Span : call.from + i \in DOMAIN dump.cells <=> call.from + i < dump.size
          BY <2>2, <2>3, SMT
        <4>2. QED
          BY <2>8, <4>1, Zenon
      <3>2. /\ outcome = "fault" => call.from >= dump.size
            /\ outcome = "bytes" => call.from < dump.size /\ data = Stored(call.from, call.length)
        BY <2>1, <2>8, Zenon DEF Flat
      <3>3. outcome = "fault" => \A i \in Span : Cells(i) = {}
        <4>1. call.from >= dump.size => \A i \in Span : ~ (call.from + i < dump.size)
          BY <2>2, <2>3, SMT
        <4> HIDE DEF Cells, Span
        <4>2. QED
          BY <3>1, <3>2, <4>1, Zenon
      <3>4. outcome = "bytes" => Cells(0) # {}
        <4> HIDE DEF Cells, Span
        <4>1. QED
          BY <2>5, <3>1, <3>2, Zenon
      <3>5. ASSUME outcome = "bytes"
            PROVE  /\ Len(data) = call.length
                   /\ \A i \in Span : IF Cells(i) = {} THEN data[i + 1] = Zero
                                      ELSE \A a \in Cells(i) : data[i + 1] = dump.cells[a]
        <4>1. /\ Len(data) = call.length
              /\ \A j \in 1 .. call.length : data[j] = Entry(call.from + (j - 1))
          <5>1. /\ Len(Stored(call.from, call.length)) = call.length
                /\ \A j \in 1 .. call.length :
                     Stored(call.from, call.length)[j] = Entry(call.from + (j - 1))
            BY <2>1, <2>2, StoredCells, Zenon
          <5>2. data = Stored(call.from, call.length)
            BY <3>2, <3>5, Zenon
          <5>3. QED
            BY <5>1, <5>2, Zenon
        <4> HIDE DEF Cells, Span
        <4>2. \A i \in Span : data[i + 1] = Entry(call.from + i)
          BY <2>3, <4>1, Zenon
        <4>3. ASSUME NEW i \in Span
              PROVE  IF Cells(i) = {} THEN data[i + 1] = Zero
                     ELSE \A a \in Cells(i) : data[i + 1] = dump.cells[a]
          BY <3>1, <4>2, Zenon DEF Entry
        <4>4. QED
          BY <4>1, <4>3, Zenon
      <3> HIDE DEF Span, Cells
      <3>6. outcome = "fault" <=> \A i \in Span : Cells(i) = {}
        BY <2>5, <3>3, <3>4, Zenon
      <3>7. QED
        BY <3>5, <3>6, Zenon DEF ReadsTranslate, Span, Cells
    <2>9. QED
      BY <2>6, <2>7, <2>8
  <1>2. QED
    BY <1>1, Invariance, PTL
=============================================================================
