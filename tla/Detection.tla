----------------------------- MODULE Detection -----------------------------
(***************************************************************************)
(* What the commands find out about a dump before they use it: the         *)
(* platform (core/backends/appliances), the architecture                   *)
(* (core/backends/detector.py) and whether it looks encrypted              *)
(* (core/entropy.py).                                                      *)
(*                                                                         *)
(* A dump d is a record:                                                   *)
(*   head     bytes of the file, 20 standing for 20 and more               *)
(*   size     cells of the file; a cell is 8 bytes and holds one page      *)
(*            table entry                                                  *)
(*   elf, class64, x86, core   what magic, class, machine and type say     *)
(*   lina     PT_NOTE segments with a process note of "lina"               *)
(*   strings  the texts in it: records [text, at]                          *)
(*   random   its pages with an entropy above 7.9                          *)
(* and the fields that Translation adds.  Scores are in hundredths.        *)
(*                                                                         *)
(* Operators whose name starts with Mut are faulty variants of the         *)
(* definition that follows them, never used by the model.                  *)
(***************************************************************************)
EXTENDS Naturals, Sequences, FiniteSets, SequencesExt

CONSTANTS
  PageSize,      (* cells of a page, and entries of a page table            *)
  ChunkSize,     (* cells that _scan_bytes() reads at a time                *)
  TextSize,      (* cells of a text                                         *)
  AsaLimit,      (* searched for the texts of Cisco ASA and IOS XE          *)
  IosLimit,      (* searched for the texts of Cisco IOS                     *)
  RawSize,       (* a raw image from this size on is taken for x86-64       *)
  Samples        (* pages sampled for their entropy                         *)

ASSUME DetectionAssumption ==
  /\ {PageSize, ChunkSize, TextSize, Samples} \subseteq Nat \ {0}
  /\ TextSize <= ChunkSize
  /\ {AsaLimit, IosLimit, RawSize} \subseteq Nat

Least(a, b) == IF a < b THEN a ELSE b
Most(a, b) == IF a < b THEN b ELSE a

-----------------------------------------------------------------------------
(* The platform.                                                           *)

HasText(d, text, from, to) ==
  \E s \in d.strings : s.text = text /\ from <= s.at /\ s.at + TextSize <= to

(* Consecutive chunks overlap by a text's length but one.                  *)
MutScanBytes(d, text, limit) ==
  LET last == Least(d.size, limit)
      Found[from \in 0 .. last] ==
        LET n == Least(ChunkSize, last - from)
        IN n > 0 /\ (HasText(d, text, from, from + n) \/ Found[from + n])
  IN Found[0]
ScanBytes(d, text, limit) ==
  LET last == Least(d.size, limit)
      Found[from \in 0 .. last] ==
        LET n == Least(ChunkSize, last - from)
            overlap == IF n = ChunkSize THEN TextSize - 1 ELSE 0
        IN n > 0 /\ (HasText(d, text, from, from + n) \/ Found[from + n - overlap])
  IN Found[0]

(* The texts the detectors look for, and those they find up to a limit.    *)
Texts == {"Cisco Adaptive Security Appliance", "Cisco ASA", "Cisco IOS Software",
          "IOS (tm)", "Cisco IOS XE Software", "IOSd", "Linux version"}
Scanned(d, limit) == {text \in Texts : ScanBytes(d, text, limit)}

Points(condition, score) == IF condition THEN score ELSE 0

(* The four detect() functions: near are the texts within IosLimit, far    *)
(* those within AsaLimit.                                                  *)
AsaScore(d, far) ==
  IF d.head < 5 \/ ~d.elf \/ ~d.class64 THEN 0
  ELSE Points(d.core, 30) + 65 * d.lina
       + (IF "Cisco Adaptive Security Appliance" \in far THEN 50
          ELSE Points("Cisco ASA" \in far, 30))

IosScore(d, near) ==
  LET score == Points("Cisco IOS Software" \in near, 80) + Points("IOS (tm)" \in near, 60)
  IN score + Points(~d.elf /\ score > 0, 10)

IosXeScore(d, far) ==
  IF ~d.elf THEN 0
  ELSE Points("Cisco IOS XE Software" \in far, 80) + Points("IOSd" \in far, 50)
       + Points("Linux version" \in far, 20)

(* In the order in which _auto_discover() finds them.                      *)
Detectors == <<"cisco_asa", "cisco_ios", "cisco_iosxe", "generic_flat">>

Score(detector, d, near, far) ==
  Least(100, CASE detector = "cisco_asa" -> AsaScore(d, far)
               [] detector = "cisco_ios" -> IosScore(d, near)
               [] detector = "cisco_iosxe" -> IosXeScore(d, far)
               [] detector = "generic_flat" -> 10)

(* The type field of an ELF header that ends before it cannot be unpacked. *)
Raises(detector, d) ==
  detector = "cisco_asa" /\ d.elf /\ d.class64 /\ d.head \in 5 .. 17

(* registry.detect() with the commands' default: the first of the highest  *)
(* scores of 0.6 and more.                                                 *)
Platform(d) ==
  LET near == Scanned(d, IosLimit)
      far == Scanned(d, AsaLimit)
      S(i) == Score(Detectors[i], d, near, far)
      qualified == {i \in DOMAIN Detectors : ~Raises(Detectors[i], d) /\ S(i) >= 60}
  IN IF qualified = {} THEN "generic_flat"
     ELSE Detectors[CHOOSE i \in qualified :
                      \A j \in qualified : S(j) < S(i) \/ (S(j) = S(i) /\ i <= j)]

-----------------------------------------------------------------------------
(* The architecture: the backend, or what is raised.                       *)

X86Detects(d) == IF d.elf /\ d.head >= 18 THEN d.class64 /\ d.x86 ELSE d.size >= RawSize
FlatDetects(d) == ~d.elf

Architecture(d) ==
  CASE d.elf /\ d.head \in 18 .. 19 -> "struct.error"
    [] OTHER -> IF X86Detects(d) THEN "x86_64"
                ELSE IF FlatDetects(d) THEN "flat" ELSE "TranslationError"

-----------------------------------------------------------------------------
(* Encryption: at least three of four sampled pages are random.            *)

Step(d) == Most(d.size \div Samples, PageSize)
Sampled(d) ==
  {page \in {(i * Step(d)) \div PageSize : i \in 0 .. Samples - 1} :
     (page + 1) * PageSize <= d.size}
MutLikelyEncrypted(d) ==
  4 * Cardinality(d.random \cap Sampled(d)) >= 3 * Samples
LikelyEncrypted(d) ==
  LET sampled == Sampled(d)
  IN sampled # {} /\ 4 * Cardinality(d.random \cap sampled) >= 3 * Cardinality(sampled)
=============================================================================
