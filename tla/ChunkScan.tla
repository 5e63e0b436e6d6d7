------------------------------ MODULE ChunkScan ------------------------------
(***************************************************************************)
(* The extractors that search the dump file itself (extractors/generic,    *)
(* extractors/cisco and linux/network): each reads the file in chunks that *)
(* do not overlap, searches a chunk for its patterns, one pattern after    *)
(* the other, and reports what it has not reported yet.                    *)
(*                                                                         *)
(* A file is its size and the set of its occurrences of the patterns: at   *)
(* which offset, of which pattern and of what length, how far the text     *)
(* that is parsed with it reaches, what that text parses to, and what it   *)
(* parses to when the chunk ends inside it.  An extractor's patterns are   *)
(* named a, b and c, in the order in which it searches for them.  The sets *)
(* in which an extractor remembers what it has seen hold just the keys of  *)
(* the entries it has reported, so the report stands for them.             *)
(*                                                                         *)
(* Operators whose name starts with Mut are faulty variants of the         *)
(* definition that follows them, never used by the model.                  *)
(***************************************************************************)
EXTENDS Naturals, Sequences, FiniteSets, SequencesExt

CONSTANTS
  Scanners,      (* names of the extractors, some of those below            *)
  Files,         (* the files: records [size, occurrences]                  *)
  ChunkSize,     (* _CHUNK_SIZE                                             *)
  WindowSize,    (* window_size and stride of generic/keys                  *)
  StructSize,    (* window of the linux extractors                          *)
  BucketSize,    (* occurrences closer than this may count as one           *)
  Gap,           (* largest distance of two commands of one session         *)
  ClusterSize,   (* most commands of one session                            *)
  MaxHits,       (* most mempool regions, ELF notes or lina threads         *)
  MaxHops        (* _MAX_HOPS                                               *)

Junk == "junk"   (* text that is not what the extractor looks for           *)

AllScanners == {"conn_table", "acl_rules", "vpn_sessions", "lina_process",
                "routing_table", "running_config", "ios_processes",
                "cli_history", "snmp_config", "network", "keys"}

(* None of an extractor's patterns begins another of them, so that at most *)
(* one is found at an offset.  Where matches of one pattern overlap, the   *)
(* occurrence is the one that find() returns.                              *)
IsFile(f) ==
  /\ f.size \in Nat /\ IsFiniteSet(f.occurrences)
  /\ \A o \in f.occurrences :
       /\ o.at \in Nat /\ {o.length, o.reach} \subseteq Nat \ {0}
       /\ o.length <= o.reach
  /\ \A o, q \in f.occurrences : o.at = q.at => o = q

(* The windows of generic/keys, 256 bytes, divide its chunks of 4096; no   *)
(* other length has to do with the length of a chunk.                      *)
ASSUME ChunkAssumption ==
  /\ Scanners \subseteq AllScanners
  /\ \A f \in Files : IsFile(f)
  /\ {ChunkSize, WindowSize, StructSize, BucketSize} \subseteq Nat \ {0}
  /\ ChunkSize % WindowSize = 0
  /\ ClusterSize \in Nat \ {0} /\ {Gap, MaxHits, MaxHops} \subseteq Nat

VARIABLES
  extractor,     (* the extractor that runs                                 *)
  file,          (* the file it searches                                    *)
  phase,         (* notes (ELF notes are looked for), scan, done            *)
  chunk,         (* chunks read                                             *)
  report         (* the entries reported, in their order                    *)

scanVars == <<extractor, file, phase, chunk, report>>

-----------------------------------------------------------------------------
(* Searching the part [lo, hi) of the file.                                *)

Text(o, hi) == IF o.at + o.reach <= hi THEN o.value ELSE o.cut

Occurring(p, lo, hi) ==
  {o \in file.occurrences : o.pattern = p /\ lo <= o.at /\ o.at + o.length <= hi}

(* Structures are looked for where they start StructSize and more before   *)
(* the end.                                                                *)
Structures(lo, hi) ==
  {o \in file.occurrences : o.pattern = "a" /\ lo <= o.at /\ o.at + StructSize < hi}

(* Windows start at multiples of their length.                             *)
Windows(lo, hi) ==
  {o \in file.occurrences : /\ o.pattern = "a" /\ lo <= o.at /\ o.at + WindowSize <= hi
                            /\ o.at % WindowSize = 0}

(* Occurrences or entries in the order of their places: as many are before *)
(* one in the file as are before it in the list.                           *)
InOrder(S) ==
  [i \in 1 .. Cardinality(S) |->
     CHOOSE o \in S : Cardinality({q \in S : q.at < o.at}) = i - 1]

Entry(o, text, key) == [key |-> key, at |-> o.at, pattern |-> o.pattern, text |-> text]

EntriesFor(S, text, key) ==
  [i \in 1 .. Cardinality(S) |->
     Entry(InOrder(S)[i], text[InOrder(S)[i]], key[InOrder(S)[i]])]

Texts(hi) == [o \in file.occurrences |-> Text(o, hi)]

(* The entries for pattern p, whatever stands after it.                    *)
Every(p, lo, hi, key) == EntriesFor(Occurring(p, lo, hi), Texts(hi), key)

(* The entries for pattern p, those without a usable text left out.        *)
Parsed(p, lo, hi, key) ==
  EntriesFor({o \in Occurring(p, lo, hi) : Text(o, hi) # Junk}, Texts(hi), key)

(* What is looked at in full.                                              *)
Whole(S, kind) ==
  EntriesFor(S, [o \in file.occurrences |-> o.value],
             [o \in file.occurrences |-> <<kind, o.at>>])

(* Cisco ASA: connections are told apart by protocol, addresses and ports. *)
ConnTable(lo, hi) ==
  LET key == [o \in file.occurrences |-> <<o.pattern, Text(o, hi)>>]
  IN Parsed("a", lo, hi, key) \o Parsed("b", lo, hi, key)

(* Rules are told apart by their line.                                     *)
AclRules(lo, hi) == Parsed("a", lo, hi, [o \in file.occurrences |-> <<"line", Text(o, hi)>>])

(* Pre-shared keys by the bucket their value starts in, sessions by type   *)
(* and peer; a session without a peer address is one, too.                 *)
VpnSessions(lo, hi) ==
  Parsed("a", lo, hi, [o \in file.occurrences |-> <<"psk", (o.at + o.length) \div BucketSize>>])
    \o Every("b", lo, hi, [o \in file.occurrences |-> <<"session", Text(o, hi)>>])

(* The fallback: every "lina" is a thread.                                 *)
LinaThreads(lo, hi) == Every("a", lo, hi, [o \in file.occurrences |-> <<"thread", o.at>>])

(* Cisco IOS: a route of the routing table and a static route of the       *)
(* configuration are the same when protocol and prefix are.                *)
RoutingTable(lo, hi) ==
  LET key == [o \in file.occurrences |-> <<"STATIC", Text(o, hi)>>]
  IN Parsed("a", lo, hi, key) \o Parsed("b", lo, hi, key)

RunningConfig(lo, hi) ==
  LET key == [o \in file.occurrences |-> <<o.pattern, o.at \div BucketSize>>]
  IN Every("a", lo, hi, key) \o Every("b", lo, hi, key)

(* Two patterns for processes, told apart by their PID.                    *)
IosProcesses(lo, hi) ==
  LET key == [o \in file.occurrences |-> <<"pid", Text(o, hi)>>]
  IN Parsed("a", lo, hi, key) \o Parsed("b", lo, hi, key)
       \o Every("c", lo, hi, [o \in file.occurrences |-> <<"mempool", o.at>>])

(* All Cisco platforms: each command counts.                               *)
CliHistory(lo, hi) ==
  LET key == [o \in file.occurrences |-> <<"command", o.at>>]
  IN Parsed("a", lo, hi, key) \o Parsed("b", lo, hi, key)

(* Communities by the bucket their value starts in, for all three searches.*)
MutSnmpConfig(lo, hi) ==
  LET key == [o \in file.occurrences |-> <<"community", (o.at - lo) \div BucketSize>>]
  IN Parsed("a", lo, hi, [o \in file.occurrences |-> <<"community", (o.at - lo + o.length) \div BucketSize>>])
       \o Every("b", lo, hi, key) \o Every("c", lo, hi, key)
SnmpConfig(lo, hi) ==
  LET key == [o \in file.occurrences |-> <<"community", o.at \div BucketSize>>]
  IN Parsed("a", lo, hi, [o \in file.occurrences |-> <<"community", (o.at + o.length) \div BucketSize>>])
       \o Every("b", lo, hi, key) \o Every("c", lo, hi, key)

NetworkSockets(lo, hi) == Whole(Structures(lo, hi), "socket")

KeyWindows(lo, hi) == Whole(Windows(lo, hi), "window")

Entries(x, lo, hi) ==
  CASE x = "conn_table"     -> ConnTable(lo, hi)
    [] x = "acl_rules"      -> AclRules(lo, hi)
    [] x = "vpn_sessions"   -> VpnSessions(lo, hi)
    [] x = "lina_process"   -> LinaThreads(lo, hi)
    [] x = "routing_table"  -> RoutingTable(lo, hi)
    [] x = "running_config" -> RunningConfig(lo, hi)
    [] x = "ios_processes"  -> IosProcesses(lo, hi)
    [] x = "cli_history"    -> CliHistory(lo, hi)
    [] x = "snmp_config"    -> SnmpConfig(lo, hi)
    [] x = "network"        -> NetworkSockets(lo, hi)
    [] x = "keys"           -> KeyWindows(lo, hi)

(* The kinds of entries of which only the first MaxHits are kept.          *)
Full(list, kind) ==
  /\ kind \in {"mempool", "thread"}
  /\ Cardinality({i \in DOMAIN list : list[i].key[1] = kind}) >= MaxHits

Add(list, e) ==
  IF Full(list, e.key[1]) \/ \E i \in DOMAIN list : list[i].key = e.key
  THEN list ELSE Append(list, e)

AddAll(list, entries) ==
  LET added[n \in 0 .. Len(entries)] ==
        IF n = 0 THEN list ELSE Add(added[n - 1], entries[n])
  IN added[Len(entries)]

-----------------------------------------------------------------------------
Init ==
  /\ extractor \in Scanners /\ file \in Files
  /\ phase = IF extractor = "lina_process" THEN "notes" ELSE "scan"
  /\ chunk = 0 /\ report = <<>>

(* lina_process reads the notes of an ELF core dump first, and keeps the   *)
(* last MaxHits of them.                                                   *)
ElfNotes(notes) ==
  /\ phase = "notes" /\ notes # <<>> /\ file.size > 0
  /\ report' = LET kept == IF Len(notes) <= MaxHits THEN notes
                           ELSE SubSeq(notes, Len(notes) - MaxHits + 1, Len(notes))
               IN [i \in DOMAIN kept |-> [key |-> <<"note", kept[i]>>]]
  /\ phase' = "done"
  /\ UNCHANGED <<extractor, file, chunk>>

(* The file is no ELF file, or parsing it raises at some note, or no note  *)
(* is usable: nothing is kept of them.                                     *)
NoElfNotes ==
  /\ phase = "notes"
  /\ phase' = "scan"
  /\ UNCHANGED <<extractor, file, chunk, report>>

Lo == chunk * ChunkSize
Hi == IF Lo + ChunkSize < file.size THEN Lo + ChunkSize ELSE file.size

(* The hops of an extractor: chunks, but for linux/network its entries.    *)
Hops == IF extractor = "network" THEN Len(report) ELSE chunk
MutMore == Lo < file.size \/ Hops < MaxHops
More == Lo < file.size /\ Hops < MaxHops

(* linux/network stops within the chunk.                                   *)
Within(list) ==
  IF extractor = "network" /\ Len(list) > MaxHops THEN SubSeq(list, 1, MaxHops) ELSE list

(* One turn of the loop.                                                   *)
ReadChunk ==
  /\ phase = "scan" /\ More /\ extractor \in Scanners
  /\ report' = Within(AddAll(report, Entries(extractor, Lo, Hi)))
  /\ chunk' = chunk + 1
  /\ UNCHANGED <<extractor, file, phase>>

(* The end of the file, or too many hops.                                  *)
Finish ==
  /\ phase = "scan" /\ ~More /\ extractor \in Scanners
  /\ phase' = "done"
  /\ UNCHANGED <<extractor, file, chunk, report>>

ScanNext == NoElfNotes \/ ReadChunk \/ Finish

(* cli_history: the commands in the order of the file, split into sessions *)
(* where the distance is large or the session is full.                     *)
MutSplits(session, previous, e) ==
  e.at - previous > Gap \/ Len(session) > ClusterSize
Splits(session, previous, e) ==
  e.at - previous > Gap \/ Len(session) >= ClusterSize

AddCommand(sessions, e) ==
  LET session == Last(sessions) IN
  IF sessions = <<>> \/ Splits(session, Last(session).at, e)
  THEN Append(sessions, <<e>>)
  ELSE [sessions EXCEPT ![Len(sessions)] = Append(@, e)]

Clusters ==
  LET byOffset == InOrder(ToSet(report))
      sessions[n \in 0 .. Len(byOffset)] ==
        IF n = 0 THEN <<>> ELSE AddCommand(sessions[n - 1], byOffset[n])
  IN sessions[Len(byOffset)]

-----------------------------------------------------------------------------
(* Properties.                                                             *)

(* The extractors with patterns that share keys.                           *)
Sharing == {"routing_table", "ios_processes", "snmp_config"}

(* An occurrence whose text, or structure, crosses the end of its chunk.   *)
Crosses(o) ==
  LET end == (o.at \div ChunkSize + 1) * ChunkSize IN
  /\ end < file.size
  /\ CASE extractor = "keys" -> FALSE
       [] extractor = "network" -> o.at + StructSize >= end
       [] OTHER -> o.at + o.reach > end

(* What a search of the file as a whole finds in the chunks read so far.   *)
Found == {e \in ToSet(Entries(extractor, 0, file.size)) : e.at < Lo}

(* Of two entries with the same key, the first in the file is kept.  Where *)
(* patterns share keys it is the first that is met, and there it makes a   *)
(* difference what the chunks are: the patterns take turns in each.        *)
ChunkOf(e) == e.at \div ChunkSize

Sooner(d, e) ==
  IF extractor \in Sharing
  THEN \/ ChunkOf(d) < ChunkOf(e)
       \/ /\ ChunkOf(d) = ChunkOf(e)
          /\ \/ <<d.pattern, e.pattern>> \in {<<"a", "b">>, <<"a", "c">>, <<"b", "c">>}
             \/ d.pattern = e.pattern /\ d.at < e.at
  ELSE d.at < e.at

FirstOfEach ==
  {e \in Found : \A d \in Found : d.key = e.key => ~Sooner(d, e)}

(* Unless a text or structure crosses the end of a chunk, the report is at *)
(* every chunk what a search of the whole file would have found so far: of *)
(* each key the first entry, with its own place and text, nothing that an  *)
(* earlier chunk or another kind of entry made look seen, and nothing left *)
(* out but what lies beyond all of its kind when that kind has reached its *)
(* limit.                                                                  *)
KeepsFirstOfEach ==
  (chunk > 0 /\ extractor \in Scanners /\ ~ \E o \in file.occurrences : Crosses(o)) =>
    /\ ToSet(report) \subseteq FirstOfEach
    /\ \A e \in FirstOfEach \ ToSet(report) :
         /\ \/ Full(report, e.key[1])
            \/ extractor = "network" /\ Len(report) = MaxHops
         /\ \A d \in ToSet(report) : d.key[1] = e.key[1] => d.at < e.at

(* The sessions of cli_history hold every command once, in the order of    *)
(* the file; a session is never larger than the limit, its commands are    *)
(* close together, and two sessions are apart unless the first is full.    *)
ClustersAreSessions ==
  (phase = "done" /\ extractor = "cli_history") =>
    LET all == FlattenSeq(Clusters) IN
    /\ ToSet(all) = ToSet(report) /\ Len(all) = Len(report)
    /\ \A i \in 1 .. Len(all) - 1 : all[i].at < all[i + 1].at
    /\ \A s \in DOMAIN Clusters :
         /\ Len(Clusters[s]) \in 1 .. ClusterSize
         /\ \A i \in 1 .. Len(Clusters[s]) - 1 :
              Clusters[s][i + 1].at - Clusters[s][i].at <= Gap
         /\ s > 1 => \/ Clusters[s][1].at - Last(Clusters[s - 1]).at > Gap
                     \/ Len(Clusters[s - 1]) = ClusterSize
=============================================================================
