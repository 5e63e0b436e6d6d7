---------------------------- MODULE Translation ----------------------------
(***************************************************************************)
(* A dump is examined, and the backend found for it (x86_64.py,            *)
(* flat_image.py) answers the extractors' reads of virtual memory.         *)
(*                                                                         *)
(* The paging structure is scaled down: a page and a page table have       *)
(* PageSize cells, a virtual address counts cells and has the four table   *)
(* indices and the offset as digits to the base PageSize.  A cell is the   *)
(* page table entry [present, big, frame] that its 8 bytes make, whatever  *)
(* they are used for.  To the dump record of Detection come                *)
(*   cells    a function on 0 .. size - 1                                  *)
(*   idt      the bases of the descriptors, by the pages at whose start    *)
(*            one with a plausible limit stands                            *)
(* What cells say about the texts and the entropy of a dump is chosen      *)
(* apart from them.                                                        *)
(***************************************************************************)
EXTENDS Detection

CONSTANTS
  Dumps,
  Tables,        (* the values of cr3 that the namespaces stand for; 0 for  *)
                 (* GLOBAL_KERNEL and for a namespace that is no number     *)
  Addresses,     (* virtual addresses read from                             *)
  Lengths,       (* lengths of the reads                                    *)
  KaslrLimit,    (* cells searched for the descriptor                       *)
  KernelStart,   (* least plausible base                                    *)
  DefaultBase

(* A file shorter than 20 bytes has no more cells than fit in it; what is  *)
(* in the cells and where texts and descriptors stand is free.             *)
IsDump(d) ==
  /\ d.head \in 0 .. 20 /\ d.size \in Nat /\ d.lina \in Nat
  /\ d.head < 20 => d.size * 8 <= d.head
  /\ \A s \in d.strings : s.at \in Nat
  /\ d.random \subseteq Nat /\ IsFiniteSet(d.random)
  /\ DOMAIN d.cells = 0 .. d.size - 1
  /\ \A a \in DOMAIN d.cells : d.cells[a].frame \in Nat
  /\ DOMAIN d.idt \subseteq Nat /\ \A p \in DOMAIN d.idt : d.idt[p] \in Nat

(* The plausible bases begin at a page, as the default does, and a raw     *)
(* image that is taken for x86-64 is larger than any header.               *)
ASSUME TranslationAssumption ==
  /\ \A d \in Dumps : IsDump(d)
  /\ Tables \cup Addresses \cup Lengths \subseteq Nat
  /\ {KaslrLimit, KernelStart, DefaultBase} \subseteq Nat /\ KernelStart <= DefaultBase
  /\ KernelStart % PageSize = 0 /\ DefaultBase % PageSize = 0
  /\ RawSize > 2

VARIABLES
  dump,
  backend,       (* none, x86_64, flat, or what the detection raised        *)
  platform, encrypted, kernelBase,
  call,          (* the read: [cr3, from, length]                           *)
  data,          (* the cells read so far                                   *)
  resolved,      (* pages resolved so far                                   *)
  outcome        (* of the call: none, reading, bytes, fault                *)

found == <<dump, backend, platform, encrypted, kernelBase>>
vars == <<found, call, data, resolved, outcome>>

Zero == [present |-> FALSE, big |-> FALSE, frame |-> 0]
NoCall == [cr3 |-> 0, from |-> 0, length |-> 0]

Init ==
  /\ dump \in Dumps
  /\ backend = "none" /\ platform = "none"
  /\ encrypted = FALSE /\ kernelBase = 0
  /\ call = NoCall /\ data = <<>> /\ resolved = 0 /\ outcome = "none"

(* Where the kernel is: the first page with a descriptor of a kernel base. *)
MutKaslrBase(d) ==
  LET pages == {p \in DOMAIN d.idt : p * PageSize < Least(KaslrLimit, d.size)}
      base == d.idt[CHOOSE p \in pages : \A q \in pages : p <= q]
  IN IF pages = {} THEN DefaultBase ELSE base - (base % PageSize)
KaslrBase(d) ==
  LET pages == {p \in DOMAIN d.idt : /\ p * PageSize < Least(KaslrLimit, d.size)
                                     /\ p * PageSize + 2 <= d.size
                                     /\ d.idt[p] >= KernelStart}
      base == d.idt[CHOOSE p \in pages : \A q \in pages : p <= q]
  IN IF pages = {} THEN DefaultBase ELSE base - (base % PageSize)

Examine ==
  /\ backend = "none"
  /\ encrypted' = LikelyEncrypted(dump)
  /\ platform' = Platform(dump)
  /\ backend' = Architecture(dump)
  /\ kernelBase' = IF backend' = "x86_64" THEN KaslrBase(dump) ELSE 0
  /\ UNCHANGED <<dump, call, data, resolved, outcome>>

-----------------------------------------------------------------------------
(* _read_phys_u64(): beyond the file nothing is present.                   *)
Entry(address) == IF address < dump.size THEN dump.cells[address] ELSE Zero

(* The cells that a page table, a directory and so on cover with an entry. *)
Reach ==
  LET large == PageSize * PageSize
  IN <<PageSize, large, PageSize * large, large * large>>

(* The table entry for va at a level: 4 is the PML4, 1 the page table.     *)
At(level, table, va) ==
  Entry((table * PageSize) + ((va \div Reach[level]) % PageSize))

Unmapped == dump.size       (* None: an address where the dump has ended   *)
MutInDump(address) == address
InDump(address) == IF address >= dump.size THEN Unmapped ELSE address

(* _walk_pml4()                                                            *)
Walk(cr3, va) ==
  LET pml4e == At(4, cr3 \div PageSize, va)
      pdpte == At(3, pml4e.frame, va)
      pde == At(2, pdpte.frame, va)
      pte == At(1, pde.frame, va)
      region == (pde.frame \div PageSize) * Reach[2]
  IN IF ~pml4e.present \/ ~pdpte.present \/ ~pde.present THEN Unmapped
     ELSE IF pde.big THEN InDump(region + (va % Reach[2]))
     ELSE IF ~pte.present THEN Unmapped
     ELSE InDump((pte.frame * PageSize) + (va % PageSize))

(* n cells of the file from an address on, zero-filled to n.               *)
Stored(address, n) == [i \in 1 .. n |-> Entry(address + i - 1)]

(* A read.  It changes nothing in the backend, so one is as good as many.  *)
Call(c) ==
  /\ backend \in {"x86_64", "flat"} /\ outcome = "none"
  /\ call' = c /\ outcome' = "reading"
  /\ UNCHANGED <<found, data, resolved>>

(* One turn of the loop over the pages.                                    *)
ReadPage ==
  /\ outcome = "reading" /\ backend = "x86_64" /\ Len(data) < call.length
  /\ LET va == call.from + Len(data)
         n == Least(call.length - Len(data), PageSize - (va % PageSize))
         physical == Walk(call.cr3, va)
     IN /\ data' = data \o Stored(physical, n)
        /\ resolved' = IF physical = Unmapped THEN resolved ELSE resolved + 1
  /\ UNCHANGED <<found, call, outcome>>

(* Only when no page was resolved the read is a fault.                     *)
Return ==
  /\ outcome = "reading" /\ backend = "x86_64" /\ Len(data) = call.length
  /\ outcome' = IF resolved = 0 THEN "fault" ELSE "bytes"
  /\ UNCHANGED <<found, call, data, resolved>>

(* The flat image is its own address space.                                *)
ReadFlat ==
  /\ outcome = "reading" /\ backend = "flat"
  /\ IF call.from >= dump.size THEN outcome' = "fault" /\ UNCHANGED data
     ELSE outcome' = "bytes" /\ data' = Stored(call.from, call.length)
  /\ UNCHANGED <<found, call, resolved>>

Next ==
  \/ Examine \/ ReadPage \/ Return \/ ReadFlat
  \/ \E cr3 \in Tables, from \in Addresses, length \in Lengths :
       Call([cr3 |-> cr3, from |-> from, length |-> length])

Spec == Init /\ [][Next]_vars

-----------------------------------------------------------------------------
(* Properties.                                                             *)

TypeOK ==
  /\ backend \in {"none", "x86_64", "flat", "struct.error", "TranslationError"}
  /\ platform \in {"none"} \cup ToSet(Detectors)
  /\ kernelBase = 0 \/ (kernelBase >= KernelStart /\ kernelBase % PageSize = 0)
  /\ outcome \in {"none", "reading", "bytes", "fault"}
  /\ Len(data) <= call.length /\ resolved <= Len(data)

(* The translation as the processor defines it: a present entry of a table *)
(* leads to a frame; a chain of four, or of three with a large page,       *)
(* makes the physical address.                                             *)
Leads(table, level, va, frame) ==
  \E a \in DOMAIN dump.cells :
    /\ a = (table * PageSize) + ((va \div Reach[level]) % PageSize)
    /\ dump.cells[a].present /\ dump.cells[a].frame = frame

IsBig(table, level, va) ==
  \E a \in DOMAIN dump.cells :
    a = (table * PageSize) + ((va \div Reach[level]) % PageSize) /\ dump.cells[a].big

Physical(cr3, va) ==
  LET frames == {dump.cells[a].frame : a \in DOMAIN dump.cells}
      directories == {pd \in frames : \E pdpt \in frames :
                        Leads(cr3 \div PageSize, 4, va, pdpt) /\ Leads(pdpt, 3, va, pd)}
      small == {f \in frames : \E pd \in directories, pt \in frames :
                  Leads(pd, 2, va, pt) /\ ~IsBig(pd, 2, va) /\ Leads(pt, 1, va, f)}
      large == {f \in frames : \E pd \in directories : Leads(pd, 2, va, f) /\ IsBig(pd, 2, va)}
  IN DOMAIN dump.cells \cap
       ({(f * PageSize) + (va % PageSize) : f \in small}
          \cup {((f - (f % PageSize)) * PageSize) + (va % (PageSize * PageSize)) : f \in large})

(* A PDPT entry that maps a page of its own (1 GiB): the walk does not     *)
(* know these and takes the page for a table.                              *)
Giant(cr3, va) ==
  \E a \in DOMAIN dump.cells :
    Leads(cr3 \div PageSize, 4, va, dump.cells[a].frame) /\ IsBig(dump.cells[a].frame, 3, va)

(* A read of one or more cells is a fault only when none of them is mapped *)
(* to what the dump holds; otherwise it gives for each address the cell it *)
(* is mapped to, and zeros for the others, in pages of any size and up to  *)
(* the end of a dump that ends inside one.  A flat image maps each address *)
(* to itself.                                                              *)
ReadsTranslate ==
  outcome \in {"bytes", "fault"} /\ call.length > 0 =>
    LET Span == 0 .. call.length - 1
        Target(i) == IF backend = "flat" THEN {call.from + i} \cap DOMAIN dump.cells
                     ELSE Physical(call.cr3, call.from + i)
    IN (backend = "x86_64" => \A i \in Span : ~Giant(call.cr3, call.from + i)) =>
         /\ outcome = "fault" <=> \A i \in Span : Target(i) = {}
         /\ outcome = "bytes" =>
              /\ Len(data) = call.length
              /\ \A i \in Span : IF Target(i) = {} THEN data[i + 1] = Zero
                                 ELSE \A a \in Target(i) : data[i + 1] = dump.cells[a]

(* The detected platform is the one the texts up to the search limits      *)
(* speak for, wherever the chunks end and whichever detector raises.  The  *)
(* x86-64 backend is never used for an ELF file of another machine, and    *)
(* only an ELF file that is not x86-64, or ends in its header, is refused. *)
DetectionIsRight ==
  backend # "none" =>
    LET Within(limit) == {text \in Texts : HasText(dump, text, 0, Least(dump.size, limit))}
        S(detector) == Score(detector, dump, Within(IosLimit), Within(AsaLimit))
        fit == {p \in ToSet(Detectors) : ~Raises(p, dump) /\ S(p) >= 60}
    IN /\ fit = {} => platform = "generic_flat"
       /\ fit # {} => platform \in fit /\ \A p \in fit : S(p) <= S(platform)
       /\ backend = "x86_64" /\ dump.elf => dump.class64 /\ dump.x86
       /\ backend \notin {"x86_64", "flat"} <=>
            dump.elf /\ ~(dump.class64 /\ dump.x86 /\ dump.head = 20)

(* A dump all of whose pages are random is called encrypted, one without   *)
(* random pages is not, and in one of few pages all are looked at: it is   *)
(* just when three of four are random.                                     *)
EncryptionIsSampled ==
  backend # "none" =>
    LET pages == {p \in 0 .. dump.size : (p + 1) * PageSize <= dump.size}
    IN /\ pages # {} /\ pages \subseteq dump.random => encrypted
       /\ dump.random = {} => ~encrypted
       /\ pages # {} /\ Cardinality(pages) <= Samples =>
            (encrypted <=> 4 * Cardinality(dump.random \cap pages) >= 3 * Cardinality(pages))
=============================================================================
