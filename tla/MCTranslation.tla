---------------------------- MODULE MCTranslation ----------------------------
(* Instances of Translation for TLC, with pages and tables of two cells.    *)
EXTENDS Translation

E(frame) == [present |-> TRUE, big |-> FALSE, frame |-> frame]
B(frame) == [present |-> TRUE, big |-> TRUE, frame |-> frame]

(* Raw images: four tables, at physical 0, 2, 4 and 6, and one page, whole  *)
(* or not, behind them.  Tables lead to each other, to themselves, to the   *)
(* page, beyond the end.                                                    *)
CellChoices ==
  <<{E(1), Zero}, {E(1), E(0)}, {E(2), B(2)}, {E(2), Zero},
    {E(3), Zero, B(4), B(1)}, {E(3), B(2)},
    {E(4), Zero, E(5)}, {E(4), E(0)}, {E(0)}, {Zero}>>
Product(size) ==
  LET Extend[n \in 0 .. size] ==
        IF n = 0 THEN {<<>>}
        ELSE {Append(s, c) : s \in Extend[n - 1], c \in CellChoices[n]}
  IN {[a \in 0 .. size - 1 |-> s[a + 1]] : s \in Extend[size]}

Raw(cells, size) ==
  [head |-> 20, size |-> size, elf |-> FALSE, class64 |-> FALSE, x86 |-> FALSE,
   core |-> FALSE, lina |-> 0, strings |-> {}, random |-> {}, cells |-> cells,
   idt |-> <<>>]
Images == UNION {{Raw(cells, size) : cells \in Product(size)} : size \in {6, 9, 10}}

Blank(size) == [a \in 0 .. size - 1 |-> Zero]

(* Dumps with all kinds of headers, texts, random pages and descriptors.    *)
Headers ==
  {[head |-> h, size |-> 0, elf |-> elf, class64 |-> c, x86 |-> c, core |-> FALSE,
    lina |-> 0, strings |-> {}, random |-> {}, cells |-> <<>>, idt |-> <<>>] :
     h \in {4, 5, 17, 18, 19}, elf \in BOOLEAN, c \in BOOLEAN}

TextSets ==
  LET One == {{[text |-> t, at |-> a]} : t \in Texts, a \in 0 .. 8}
  IN {{}} \cup One
     \cup {{[text |-> t, at |-> 2], [text |-> u, at |-> a]} : t \in Texts, u \in Texts, a \in {0, 5, 7}}
Marked ==
  {[Raw(Blank(10), 10) EXCEPT !.elf = elf, !.class64 = TRUE, !.x86 = x86, !.core = core,
                              !.lina = lina, !.strings = s] :
     elf \in BOOLEAN, x86 \in BOOLEAN, core \in BOOLEAN, lina \in 0 .. 2, s \in TextSets}

Noisy ==
  {[Raw(Blank(size), size) EXCEPT !.random = r] : size \in {1, 2, 5, 8}, r \in SUBSET (0 .. 3)}
    \cup {[Raw(Blank(size), size) EXCEPT !.random = r] : size \in {13, 20}, r \in SUBSET (0 .. 9)}

Descriptors ==
  {[Raw(Blank(size), size) EXCEPT !.idt = f] :
     size \in {8, 9}, f \in UNION {[pages -> {3, 16, 19}] : pages \in SUBSET {0, 2, 4}}}

MCDumps == Images \cup Headers \cup Marked \cup Noisy \cup Descriptors

MCAddresses == {0, 1, 3, 6, 8, 13, 16, 22, 27, 31}
=============================================================================
