-------------------------- MODULE AuditTrailProofs --------------------------
(***************************************************************************)
(* What is in the file of the audit trail, for any number of sessions, of  *)
(* records and of pieces a line is written in, wherever writes fail and    *)
(* processes die.                                                          *)
(*                                                                         *)
(* Everything rests on the list of pieces that a session has written or    *)
(* still has in its buffer: it is sound as a whole, and what reaches the   *)
(* file is a beginning of it.                                              *)
(***************************************************************************)
EXTENDS AuditTrail, SequenceTheorems, TLAPS

Owner(piece) == piece.payload[1]
PieceOf(payload, mac, k) == [payload |-> payload, hmac |-> mac, piece |-> k]

-----------------------------------------------------------------------------
(* A sound list of pieces.                                                 *)

(* Before a piece of a line stand the pieces before it.                    *)
WholeLines(x) ==
  \A i \in DOMAIN x :
    /\ x[i].piece <= i
    /\ \A k \in 1 .. x[i].piece :
         x[i - x[i].piece + k] = PieceOf(x[i].payload, x[i].hmac, k)

(* A session leaves a line torn only by its end.                           *)
TornByDeath(x) ==
  \A i \in DOMAIN x :
    i > 1 /\ x[i].piece = 1 /\ x[i - 1].piece # Pieces => Owner(x[i - 1]) # Owner(x[i])

(* The pieces of a session stand together.                                 *)
Together(x) ==
  \A i, j, k \in DOMAIN x :
    i < j /\ j < k /\ Owner(x[i]) = Owner(x[k]) => Owner(x[j]) = Owner(x[i])

(* A line's code goes on from that of the line before it in its session,   *)
(* written completely or not.                                              *)
Chained(x) ==
  \A i \in DOMAIN x :
    x[i].piece = 1 =>
      x[i].hmac = Hmac(x[i].payload,
                       IF i > 1 /\ Owner(x[i - 1]) = Owner(x[i]) THEN x[i - 1].hmac ELSE <<>>)

(* No payload is in two lines.                                             *)
WrittenOnce(x) ==
  \A i, j \in DOMAIN x :
    x[i].payload = x[j].payload => j - i = x[j].piece - x[i].piece

Sound(x) == WholeLines(x) /\ TornByDeath(x) /\ Together(x) /\ Chained(x) /\ WrittenOnce(x)

-----------------------------------------------------------------------------
(* The invariant.                                                          *)

Running(s) == mode[s] \in {"open", "flushing", "closing"}
Stream(s) == file \o buffer[s]

OneRunning == \A s, t \in Sessions : Running(s) /\ Running(t) => s = t

(* What stands in a list was recorded by a session, in one of its calls.   *)
Counted(x) == \A i \in DOMAIN x : x[i].payload[2] <= calls[Owner(x[i])]

(* A running session's last line, whether it is in the file yet or not, is *)
(* the one _prev_hmac belongs to.                                          *)
Tip(s) ==
  LET x == Stream(s)
  IN IF prevHmac[s] = <<>>
     THEN \A i \in DOMAIN x : Owner(x[i]) # s
     ELSE /\ Len(x) > 0 /\ x[Len(x)].piece = Pieces
          /\ x[Len(x)].hmac = prevHmac[s] /\ Owner(x[Len(x)]) = s

(* While record() has not returned, its line is the last one and new.      *)
Pending(s) ==
  mode[s] = "flushing" =>
    /\ prevHmac[s] # <<>>
    /\ Stream(s)[Len(Stream(s))].payload = <<s, calls[s]>>
    /\ \A i \in DOMAIN recorded : recorded[i] # <<s, calls[s]>>

Streams ==
  \A s \in Sessions :
    Running(s) => /\ Sound(Stream(s)) /\ Counted(Stream(s)) /\ Tip(s) /\ Pending(s)
                  /\ \A i \in DOMAIN buffer[s] : Owner(buffer[s][i]) = s

FileIsSound == Sound(file) /\ Counted(file)
OpenedFirst == \A i \in DOMAIN file : mode[Owner(file[i])] # "unopened"

(* Every recorded payload is in a complete line, behind all that were      *)
(* recorded before it.                                                     *)
RecordedIsWritten ==
  \A i \in DOMAIN recorded :
    \E e \in DOMAIN file :
      /\ file[e].piece = Pieces /\ file[e].payload = recorded[i]
      /\ \A j \in 1 .. i - 1, d \in DOMAIN file : file[d].payload = recorded[j] => d < e

Intact == /\ TypeOK /\ OneRunning /\ Streams /\ FileIsSound /\ OpenedFirst
          /\ RecordedIsWritten

-----------------------------------------------------------------------------
(* Lists of pieces.                                                        *)

Lists == Seq(PieceType)

LEMMA PieceFacts ==
  ASSUME NEW x \in Lists
  PROVE  /\ Len(x) \in Nat /\ DOMAIN x = 1 .. Len(x)
         /\ \A i \in 1 .. Len(x) :
              /\ x[i] \in PieceType
              /\ x[i].piece \in Nat /\ x[i].piece >= 1 /\ x[i].piece <= Pieces
              /\ x[i].payload \in Payloads /\ x[i].hmac \in Seq(Payloads)
              /\ Owner(x[i]) \in Sessions /\ x[i].payload[2] \in Nat
  <1>1. Len(x) \in Nat /\ DOMAIN x = 1 .. Len(x)
    BY SMT DEF Lists
  <1>2. ASSUME NEW i \in 1 .. Len(x) PROVE x[i] \in PieceType
    BY <1>1, ElementOfSeq, Zenon DEF Lists
  <1>3. ASSUME NEW p \in PieceType
        PROVE  /\ p.piece \in Nat /\ p.piece >= 1 /\ p.piece <= Pieces
               /\ p.payload \in Payloads /\ p.hmac \in Seq(Payloads)
               /\ Owner(p) \in Sessions /\ p.payload[2] \in Nat
    <2>1. p.piece \in 1 .. Pieces /\ p.payload \in Payloads /\ p.hmac \in Seq(Payloads)
      BY Zenon DEF PieceType
    <2>2. Owner(p) \in Sessions /\ p.payload[2] \in 1 .. MaxRecords
      BY <2>1, SMT DEF Payloads, Owner
    <2>3. QED
      BY <2>1, <2>2, AuditAssumption, SMT
  <1>4. QED
    BY <1>1, <1>2, <1>3, Zenon

(* A beginning of a sound list is sound.                                   *)
LEMMA BeginningSound ==
  ASSUME NEW x \in Lists, NEW z \in Lists, Sound(z),
         Len(x) <= Len(z), \A i \in 1 .. Len(x) : x[i] = z[i]
  PROVE  Sound(x)
  <1>1. /\ Len(x) \in Nat /\ DOMAIN x = 1 .. Len(x)
        /\ Len(z) \in Nat /\ DOMAIN z = 1 .. Len(z)
    BY PieceFacts, Zenon
  <1>2. \A i \in DOMAIN x : i \in DOMAIN z /\ i \in Nat /\ i >= 1 /\ x[i] = z[i]
    BY <1>1, SMT
  <1>3. WholeLines(x)
    <2> SUFFICES ASSUME NEW i \in DOMAIN x
                 PROVE  /\ x[i].piece <= i
                        /\ \A k \in 1 .. x[i].piece :
                             x[i - x[i].piece + k] = PieceOf(x[i].payload, x[i].hmac, k)
      BY Zenon DEF WholeLines
    <2>1. /\ z[i].piece <= i
          /\ \A k \in 1 .. z[i].piece :
               z[i - z[i].piece + k] = PieceOf(z[i].payload, z[i].hmac, k)
      BY <1>2, Zenon DEF Sound, WholeLines
    <2>2. x[i] = z[i] /\ x[i].piece \in Nat /\ i \in Nat /\ i <= Len(x)
      BY <1>1, <1>2, PieceFacts, SMT
    <2>3. ASSUME NEW k \in 1 .. x[i].piece
          PROVE  i - x[i].piece + k \in DOMAIN x
      BY <2>1, <2>2, <1>1, SMT
    <2>4. QED
      BY <2>1, <2>2, <2>3, <1>2, Zenon
  <1>4. TornByDeath(x)
    <2> SUFFICES ASSUME NEW i \in DOMAIN x, i > 1, x[i].piece = 1, x[i - 1].piece # Pieces
                 PROVE  Owner(x[i - 1]) # Owner(x[i])
      BY Zenon DEF TornByDeath
    <2>1. i - 1 \in DOMAIN x
      BY <1>1, SMT
    <2>2. x[i] = z[i] /\ x[i - 1] = z[i - 1] /\ i \in DOMAIN z
      BY <2>1, <1>2, Zenon
    <2>3. QED
      BY <2>2, Zenon DEF Sound, TornByDeath
  <1>5. Together(x)
    BY <1>2, Zenon DEF Sound, Together
  <1>6. Chained(x)
    <2> SUFFICES ASSUME NEW i \in DOMAIN x, x[i].piece = 1
                 PROVE  x[i].hmac = Hmac(x[i].payload,
                          IF i > 1 /\ Owner(x[i - 1]) = Owner(x[i])
                          THEN x[i - 1].hmac ELSE <<>>)
      BY Zenon DEF Chained
    <2>1. z[i].hmac = Hmac(z[i].payload,
                          IF i > 1 /\ Owner(z[i - 1]) = Owner(z[i])
                          THEN z[i - 1].hmac ELSE <<>>)
      BY <1>2, Zenon DEF Sound, Chained
    <2>2. x[i] = z[i]
      BY <1>2, Zenon
    <2>3. CASE i > 1
      <3>1. i - 1 \in DOMAIN x
        BY <1>1, <2>3, SMT
      <3>2. x[i - 1] = z[i - 1]
        BY <3>1, <1>2, Zenon
      <3>3. QED
        BY <2>1, <2>2, <3>2, Zenon
    <2>4. CASE ~(i > 1)
      BY <2>1, <2>2, <2>4, Zenon
    <2>5. QED
      BY <2>3, <2>4, Zenon
  <1>7. WrittenOnce(x)
    BY <1>2, Zenon DEF Sound, WrittenOnce
  <1>8. QED
    BY <1>3, <1>4, <1>5, <1>6, <1>7, Zenon DEF Sound

(* A session's next line keeps the list sound, when the code that the line *)
(* goes on from is that of the session's last line.                        *)
LastLine(x, s, prev) ==
  IF prev = <<>>
  THEN \A i \in DOMAIN x : Owner(x[i]) # s
  ELSE /\ Len(x) > 0 /\ x[Len(x)].piece = Pieces
       /\ x[Len(x)].hmac = prev /\ Owner(x[Len(x)]) = s

LEMMA LineFacts ==
  ASSUME NEW p \in Payloads, NEW mac \in Seq(Payloads)
  PROVE  /\ Line(p, mac) \in Lists /\ Len(Line(p, mac)) = Pieces
         /\ \A k \in 1 .. Pieces : Line(p, mac)[k] = PieceOf(p, mac, k)
  <1>1. \A k \in 1 .. Pieces : PieceOf(p, mac, k) \in PieceType
    BY Zenon DEF PieceOf, PieceType
  <1>2. Line(p, mac) = [k \in 1 .. Pieces |-> PieceOf(p, mac, k)]
    BY Zenon DEF Line, PieceOf
  <1>3. Pieces \in Nat
    BY AuditAssumption, SMT
  <1>4. Line(p, mac) \in Lists
    <2>1. Line(p, mac) \in [1 .. Pieces -> PieceType]
      BY <1>1, <1>2, Zenon
    <2>2. QED
      BY <1>3, <2>1, SeqDef, Zenon DEF Lists
  <1>5. Len(Line(p, mac)) = Pieces
    BY <1>2, <1>3, SMT
  <1>6. QED
    BY <1>2, <1>4, <1>5, Zenon

LEMMA NextLineSound ==
  ASSUME NEW x \in Lists, NEW z \in Lists, Sound(x),
         NEW s \in Sessions, NEW p \in Payloads, p[1] = s,
         NEW prev \in Seq(Payloads), LastLine(x, s, prev),
         \A i \in 1 .. Len(x) : x[i].payload # p,
         Len(z) = Len(x) + Pieces,
         \A i \in 1 .. Len(x) : z[i] = x[i],
         \A k \in 1 .. Pieces : z[Len(x) + k] = PieceOf(p, Hmac(p, prev), k)
  PROVE  Sound(z)
  <1> DEFINE n == Len(x)
             mac == Hmac(p, prev)
             New(i) == i \in n + 1 .. n + Pieces
             Old(i) == i \in 1 .. n
  <1>1. /\ n \in Nat /\ Pieces \in Nat /\ Pieces >= 1
        /\ DOMAIN x = 1 .. n /\ DOMAIN z = 1 .. n + Pieces
    BY PieceFacts, AuditAssumption, SMT
  <1>2. \A i \in DOMAIN z : Old(i) \/ New(i)
    BY <1>1, SMT
  <1>3. ASSUME NEW i, New(i)
        PROVE  /\ i \in Nat /\ i - n \in 1 .. Pieces
               /\ z[i] = PieceOf(p, mac, i - n)
               /\ z[i].payload = p /\ z[i].hmac = mac /\ z[i].piece = i - n
               /\ Owner(z[i]) = s
    <2>1. i \in Nat /\ i - n \in 1 .. Pieces /\ n + (i - n) = i
      BY <1>1, <1>3, SMT
    <2>2. z[i] = PieceOf(p, mac, i - n)
      BY <2>1, Zenon
    <2>3. z[i].payload = p /\ z[i].hmac = mac /\ z[i].piece = i - n
      BY <2>2, SMT DEF PieceOf
    <2>4. QED
      BY <2>1, <2>2, <2>3, Zenon DEF Owner
  <1>4. ASSUME NEW i, New(i)
        PROVE  /\ z[i].payload = p /\ z[i].hmac = mac /\ z[i].piece = i - n
               /\ Owner(z[i]) = s
    BY <1>3, <1>4
  <1>5. ASSUME NEW i, Old(i) PROVE z[i] = x[i] /\ i \in Nat /\ i <= n /\ i >= 1
    BY <1>1, <1>5, SMT
  <1>6. prev # <<>> => n >= 1 /\ x[n].piece = Pieces /\ x[n].hmac = prev /\ Owner(x[n]) = s
    BY <1>1, SMT DEF LastLine
  <1>7. prev = <<>> => \A i \in 1 .. n : Owner(x[i]) # s
    BY <1>1, Zenon DEF LastLine
  <1>8. z[n] = x[n] \/ n = 0
    BY <1>1, SMT
  <1> HIDE DEF n, mac
  <1>9. WholeLines(z)
    <2> SUFFICES ASSUME NEW i \in DOMAIN z
                 PROVE  /\ z[i].piece <= i
                        /\ \A k \in 1 .. z[i].piece :
                             z[i - z[i].piece + k] = PieceOf(z[i].payload, z[i].hmac, k)
      BY Zenon DEF WholeLines
    <2>1. CASE Old(i)
      <3>1. /\ x[i].piece <= i /\ x[i].piece \in Nat
            /\ \A k \in 1 .. x[i].piece :
                 x[i - x[i].piece + k] = PieceOf(x[i].payload, x[i].hmac, k)
        BY <1>1, <2>1, PieceFacts, Zenon DEF Sound, WholeLines
      <3>2. \A k \in 1 .. x[i].piece : Old(i - x[i].piece + k)
        BY <1>1, <1>5, <2>1, <3>1, SMT
      <3>3. QED
        BY <1>5, <2>1, <3>1, <3>2, Zenon
    <2>2. CASE New(i)
      <3>1. z[i].payload = p /\ z[i].hmac = mac /\ z[i].piece = i - n /\ i \in Nat
        BY <2>2, <1>3, <1>4, Zenon
      <3>2. z[i].piece <= i
        BY <1>1, <3>1, SMT
      <3>3. ASSUME NEW k \in 1 .. z[i].piece
            PROVE  z[i - z[i].piece + k] = PieceOf(p, mac, k)
        <4>1. PICK q : q = i - z[i].piece + k
          OBVIOUS
        <4>2. New(q) /\ q - n = k
          BY <1>1, <2>2, <3>1, <3>3, <4>1, SMT
        <4>3. z[q] = PieceOf(p, mac, q - n)
          BY <1>3, <4>2, Zenon
        <4>4. QED
          BY <4>1, <4>2, <4>3, Zenon
      <3>4. QED
        BY <3>1, <3>2, <3>3, Zenon
    <2>3. QED
      BY <1>2, <2>1, <2>2, Zenon
  <1>10. TornByDeath(z)
    <2> SUFFICES ASSUME NEW i \in DOMAIN z, i > 1, z[i].piece = 1, z[i - 1].piece # Pieces
                 PROVE  Owner(z[i - 1]) # Owner(z[i])
      BY Zenon DEF TornByDeath
    <2>1. CASE Old(i)
      <3>1. Old(i - 1)
        BY <1>1, <2>1, SMT
      <3>2. z[i] = x[i] /\ z[i - 1] = x[i - 1] /\ i \in DOMAIN x
        BY <3>1, <1>1, <1>5, <2>1, Zenon
      <3>3. QED
        BY <3>2, Zenon DEF Sound, TornByDeath
    <2>2. CASE New(i)
      <3>1. z[i].piece = i - n /\ Owner(z[i]) = s /\ i \in Nat
        BY <1>3, <1>4, <2>2, Zenon
      <3>2. i - 1 = n /\ n >= 1
        BY <1>1, <2>2, <3>1, SMT
      <3>3. Old(n) /\ z[n] = x[n]
        BY <1>1, <1>8, <3>2, SMT
      <3>4. CASE prev = <<>>
        BY <1>7, <3>1, <3>2, <3>3, <3>4, Zenon
      <3>5. CASE prev # <<>>
        BY <1>6, <3>2, <3>3, <3>5, Zenon
      <3>6. QED
        BY <3>4, <3>5, Zenon
    <2>3. QED
      BY <1>2, <2>1, <2>2, Zenon
  <1>11. Together(z)
    <2> SUFFICES ASSUME NEW i \in DOMAIN z, NEW j \in DOMAIN z, NEW k \in DOMAIN z,
                        i < j, j < k, Owner(z[i]) = Owner(z[k])
                 PROVE  Owner(z[j]) = Owner(z[i])
      BY Zenon DEF Together
    <2>1. CASE Old(k)
      <3>1. Old(i) /\ Old(j)
        BY <1>1, <2>1, SMT
      <3>2. QED
        BY <1>1, <1>5, <2>1, <3>1, Zenon DEF Sound, Together
    <2>2. CASE New(k) /\ New(j)
      BY <1>4, <2>2, Zenon
    <2>3. CASE New(k) /\ Old(j)
      <3>1. Old(i) /\ n >= 1 /\ (j = n \/ j < n) /\ Old(n)
        BY <1>1, <2>3, SMT
      <3>2. Owner(x[i]) = s /\ z[j] = x[j] /\ z[i] = x[i]
        BY <1>4, <1>5, <2>3, <3>1, Zenon
      <3>3. Owner(x[n]) = s
        BY <1>6, <1>7, <3>1, <3>2, Zenon
      <3>4. CASE j = n
        BY <3>2, <3>3, <3>4, Zenon
      <3>5. CASE j < n
        <4>1. Owner(x[j]) = Owner(x[i])
          BY <1>1, <2>3, <3>1, <3>2, <3>3, <3>5, Zenon DEF Sound, Together
        <4>2. QED
          BY <3>2, <4>1, Zenon
      <3>6. QED
        BY <3>1, <3>4, <3>5, Zenon
    <2>4. QED
      BY <1>2, <2>1, <2>2, <2>3, Zenon
  <1>12. Chained(z)
    <2> SUFFICES ASSUME NEW i \in DOMAIN z, z[i].piece = 1
                 PROVE  z[i].hmac = Hmac(z[i].payload,
                          IF i > 1 /\ Owner(z[i - 1]) = Owner(z[i])
                          THEN z[i - 1].hmac ELSE <<>>)
      BY Zenon DEF Chained
    <2>1. CASE Old(i)
      <3>1. x[i].hmac = Hmac(x[i].payload,
                          IF i > 1 /\ Owner(x[i - 1]) = Owner(x[i])
                          THEN x[i - 1].hmac ELSE <<>>)
        BY <1>1, <1>5, <2>1, Zenon DEF Sound, Chained
      <3>2. i > 1 => Old(i - 1)
        BY <1>1, <2>1, SMT
      <3>3. i > 1 => z[i - 1] = x[i - 1]
        BY <3>2, <1>5, Zenon
      <3>4. z[i] = x[i]
        BY <1>5, <2>1, Zenon
      <3>5. QED
        BY <3>1, <3>3, <3>4, Zenon
    <2>2. CASE New(i)
      <3>1. /\ z[i].piece = i - n /\ Owner(z[i]) = s /\ i \in Nat
            /\ z[i].payload = p /\ z[i].hmac = mac
        BY <1>3, <1>4, <2>2, Zenon
      <3>2. i - 1 = n /\ (i > 1 <=> n >= 1)
        BY <1>1, <3>1, SMT
      <3>3. n >= 1 => Old(n) /\ z[n] = x[n]
        BY <1>1, <1>8, SMT
      <3>4. CASE prev = <<>>
        <4>1. ~(i > 1 /\ Owner(z[i - 1]) = Owner(z[i]))
          BY <1>7, <3>1, <3>2, <3>3, <3>4, Zenon
        <4>2. QED
          BY <3>1, <3>4, <4>1, Zenon DEF mac
      <3>5. CASE prev # <<>>
        <4>1. i > 1 /\ Owner(z[i - 1]) = Owner(z[i]) /\ z[i - 1].hmac = prev
          BY <1>6, <3>1, <3>2, <3>3, <3>5, Zenon
        <4>2. QED
          BY <3>1, <4>1, Zenon DEF mac
      <3>6. QED
        BY <3>4, <3>5, Zenon
    <2>3. QED
      BY <1>2, <2>1, <2>2, Zenon
  <1>13. WrittenOnce(z)
    <2> SUFFICES ASSUME NEW i \in DOMAIN z, NEW j \in DOMAIN z, z[i].payload = z[j].payload
                 PROVE  j - i = z[j].piece - z[i].piece
      BY Zenon DEF WrittenOnce
    <2>1. CASE Old(i) /\ Old(j)
      BY <1>1, <1>5, <2>1, Zenon DEF Sound, WrittenOnce
    <2>2. CASE New(i) /\ New(j)
      <3>1. z[i].piece = i - n /\ z[j].piece = j - n /\ i \in Nat /\ j \in Nat
        BY <1>3, <1>4, <2>2, Zenon
      <3>2. QED
        BY <1>1, <3>1, SMT
    <2>3. CASE Old(i) /\ New(j)
      BY <1>4, <1>5, <2>3, Zenon DEF n
    <2>4. CASE New(i) /\ Old(j)
      BY <1>4, <1>5, <2>4, Zenon DEF n
    <2>5. QED
      BY <1>2, <2>1, <2>2, <2>3, <2>4, Zenon
  <1>14. QED
    BY <1>9, <1>10, <1>11, <1>12, <1>13, Zenon DEF Sound

-----------------------------------------------------------------------------
(* What a reader makes of a sound file.                                    *)

(* The places of the pieces of a complete line.                            *)
LEMMA CompleteLine ==
  ASSUME file \in Lists, WholeLines(file),
         NEW e \in 1 .. Len(file), file[e].piece = Pieces
  PROVE  LET l == e - Pieces + 1
         IN  /\ l \in 1 .. Len(file) /\ l <= e
             /\ \A k \in 1 .. Pieces :
                  /\ file[l + k - 1].payload = file[e].payload
                  /\ file[l + k - 1].hmac = file[e].hmac
                  /\ file[l + k - 1].piece = k
                  /\ file[l + k - 1] = PieceOf(file[e].payload, file[e].hmac, k)
  <1>1. /\ Len(file) \in Nat /\ DOMAIN file = 1 .. Len(file)
        /\ Pieces \in Nat /\ Pieces >= 1
    BY PieceFacts, AuditAssumption, SMT
  <1>2. /\ Pieces <= e
        /\ \A k \in 1 .. Pieces :
             file[e - Pieces + k] = PieceOf(file[e].payload, file[e].hmac, k)
    BY <1>1, Zenon DEF WholeLines
  <1>3. e - Pieces + 1 \in 1 .. Len(file) /\ e - Pieces + 1 <= e
    BY <1>1, <1>2, SMT
  <1>4. ASSUME NEW k \in 1 .. Pieces
        PROVE  file[e - Pieces + 1 + k - 1] = PieceOf(file[e].payload, file[e].hmac, k)
    <2>1. e - Pieces + 1 + k - 1 = e - Pieces + k
      BY <1>1, <1>4, SMT
    <2>2. QED
      BY <1>2, <1>4, <2>1, Zenon
  <1> DEFINE l == e - Pieces + 1
  <1>5. ASSUME NEW k \in 1 .. Pieces
        PROVE  /\ file[l + k - 1] = PieceOf(file[e].payload, file[e].hmac, k)
               /\ file[l + k - 1].payload = file[e].payload
               /\ file[l + k - 1].hmac = file[e].hmac
               /\ file[l + k - 1].piece = k
    <2>1. file[l + k - 1] = PieceOf(file[e].payload, file[e].hmac, k)
      BY <1>4, <1>5, Zenon
    <2>2. QED
      BY <2>1, SMT DEF PieceOf
  <1>6. l \in 1 .. Len(file) /\ l <= e
    BY <1>3
  <1> HIDE DEF l
  <1>7. QED
    BY <1>5, <1>6, Zenon DEF l

(* A complete line that nothing torn stands in front of is readable.       *)
LEMMA CompleteIsReadable ==
  ASSUME file \in Lists, WholeLines(file),
         NEW e \in 1 .. Len(file), file[e].piece = Pieces,
         NEW l, l = e - Pieces + 1,
         l = 1 \/ file[l - 1].piece = Pieces
  PROVE  l \in Records
  <1>1. /\ l \in 1 .. Len(file)
        /\ \A k \in 1 .. Pieces :
             file[l + k - 1] = PieceOf(file[e].payload, file[e].hmac, k)
    BY CompleteLine, Zenon
  <1>2. /\ Len(file) \in Nat /\ DOMAIN file = 1 .. Len(file)
        /\ Pieces \in Nat /\ 1 \in 1 .. Pieces
    BY PieceFacts, AuditAssumption, SMT
  <1>3. l + 1 - 1 = l /\ l + Pieces - 1 = e /\ e <= Len(file)
    BY <1>2, SMT
  <1>4. file[l] = PieceOf(file[e].payload, file[e].hmac, 1)
    BY <1>1, <1>2, <1>3, Zenon
  <1>5. file[l].payload = file[e].payload /\ file[l].hmac = file[e].hmac
    BY <1>4, SMT DEF PieceOf
  <1>6. ASSUME NEW k \in 1 .. Pieces
        PROVE  file[l + k - 1] = Line(file[l].payload, file[l].hmac)[k]
    <2>1. Line(file[l].payload, file[l].hmac)[k] = PieceOf(file[e].payload, file[e].hmac, k)
      BY <1>5, <1>6, Zenon DEF Line, PieceOf
    <2>2. QED
      BY <1>1, <1>6, <2>1, Zenon
  <1>7. QED
    BY <1>1, <1>2, <1>3, <1>6, Zenon DEF Records, Readable

(* A readable record starts with the first piece of its line.              *)
LEMMA ReadableStarts ==
  ASSUME file \in Lists, NEW i \in Records
  PROVE  i \in 1 .. Len(file) /\ file[i].piece = 1 /\ i \notin Glued
  <1>1. /\ Len(file) \in Nat /\ DOMAIN file = 1 .. Len(file)
        /\ Pieces \in Nat /\ 1 \in 1 .. Pieces
    BY PieceFacts, AuditAssumption, SMT
  <1>2. i \in 1 .. Len(file) /\ Readable(i)
    BY <1>1, Zenon DEF Records
  <1>3. i + 1 - 1 = i
    BY <1>2, SMT
  <1>4. file[i] = Line(file[i].payload, file[i].hmac)[1]
    BY <1>1, <1>2, <1>3, Zenon DEF Readable
  <1>5. file[i].piece = 1
    BY <1>1, <1>4, SMT DEF Line
  <1>6. i \notin Glued
    <2> SUFFICES ASSUME i \in Glued PROVE FALSE
      OBVIOUS
    <2>1. i > 1 /\ file[i - 1].piece # Pieces
      BY Zenon DEF Glued
    <2>2. i # 1
      BY <1>2, <2>1, SMT
    <2>3. QED
      BY <1>2, <2>1, <2>2, Zenon DEF Readable
  <1>7. QED
    BY <1>2, <1>5, <1>6

(* Where a line starts behind another session's piece, its session does.   *)
LEMMA FirstOfSession ==
  ASSUME file \in Lists, Together(file),
         NEW j \in 1 .. Len(file), NEW i \in 1 .. Len(file),
         j = 1 \/ Owner(file[j - 1]) # Owner(file[j]),
         Owner(file[i]) = Owner(file[j])
  PROVE  i >= j
  <1> SUFFICES ASSUME i < j PROVE FALSE
    BY SMT
  <1>1. /\ Len(file) \in Nat /\ DOMAIN file = 1 .. Len(file)
    BY PieceFacts, SMT
  <1>2. j # 1 /\ j - 1 \in 1 .. Len(file) /\ (i = j - 1 \/ i < j - 1) /\ j - 1 < j
    BY <1>1, SMT
  <1>3. CASE i = j - 1
    BY <1>2, <1>3, Zenon
  <1>4. CASE i < j - 1
    BY <1>1, <1>2, <1>4, Zenon DEF Together
  <1>5. QED
    BY <1>2, <1>3, <1>4, Zenon

(* The starts of a session's lines that are readable or glued are a chain. *)
LEMMA StartsVerify ==
  ASSUME file \in Lists, Sound(file), NEW s \in Sessions, NEW starts,
         \A i \in starts : /\ i \in 1 .. Len(file) /\ Session(i) = s
                           /\ file[i].piece = 1,
         \A i \in 1 .. Len(file) :
           i \in Records \cup Glued /\ Session(i) = s => i \in starts
  PROVE  Verifies(starts)
  <1> SUFFICES ASSUME NEW j \in starts
               PROVE  \/ /\ \A i \in starts : i >= j
                         /\ file[j].hmac = Hmac(file[j].payload, <<>>)
                      \/ \E i \in starts :
                           /\ i < j /\ \A k \in starts : k <= i \/ k >= j
                           /\ file[j].hmac = Hmac(file[j].payload, file[i].hmac)
    BY Zenon DEF Verifies
  <1>1. /\ Len(file) \in Nat /\ DOMAIN file = 1 .. Len(file)
        /\ Pieces \in Nat /\ Pieces >= 1 /\ 1 \in 1 .. Pieces
    BY PieceFacts, AuditAssumption, SMT
  <1>2. j \in 1 .. Len(file) /\ Owner(file[j]) = s /\ file[j].piece = 1
    BY Zenon DEF Session, Owner
  <1>3. file[j].hmac = Hmac(file[j].payload,
                            IF j > 1 /\ Owner(file[j - 1]) = Owner(file[j])
                            THEN file[j - 1].hmac ELSE <<>>)
    BY <1>1, <1>2, Zenon DEF Sound, Chained
  <1>4. CASE ~(j > 1 /\ Owner(file[j - 1]) = s)
    <2>1. file[j].hmac = Hmac(file[j].payload, <<>>)
      BY <1>2, <1>3, <1>4, Zenon
    <2>2. j = 1 \/ Owner(file[j - 1]) # Owner(file[j])
      BY <1>2, <1>4, SMT
    <2>3. ASSUME NEW i \in starts PROVE i >= j
      <3>1. i \in 1 .. Len(file) /\ Owner(file[i]) = Owner(file[j])
        BY <1>2, <2>3, Zenon DEF Session, Owner
      <3>2. QED
        BY <1>2, <2>2, <3>1, FirstOfSession, Zenon DEF Sound
    <2>4. QED
      BY <2>1, <2>3, Zenon
  <1>5. CASE j > 1 /\ Owner(file[j - 1]) = s
    <2> DEFINE e == j - 1
    <2>1. e \in 1 .. Len(file) /\ e + 1 = j
      BY <1>1, <1>2, <1>5, SMT
    <2>2. file[e].piece = Pieces
      BY <1>1, <1>2, <1>5, Zenon DEF Sound, TornByDeath
    <2>3. Owner(file[e]) = s /\ file[j].hmac = Hmac(file[j].payload, file[e].hmac)
      BY <1>2, <1>3, <1>5, Zenon
    <2> HIDE DEF e
    <2>4. PICK i : i = e - Pieces + 1
      OBVIOUS
    <2>5. /\ i \in 1 .. Len(file)
          /\ \A k \in 1 .. Pieces : /\ file[i + k - 1].payload = file[e].payload
                                    /\ file[i + k - 1].hmac = file[e].hmac
                                    /\ file[i + k - 1].piece = k
      BY <2>1, <2>2, <2>4, CompleteLine, Zenon DEF Sound
    <2>6. i + 1 - 1 = i
      BY <2>5, SMT
    <2>7. file[i].payload = file[e].payload /\ file[i].hmac = file[e].hmac /\ file[i].piece = 1
      BY <1>1, <2>5, <2>6, Zenon
    <2>8. i \in Records \cup Glued
      <3>1. CASE i = 1 \/ file[i - 1].piece = Pieces
        BY <2>1, <2>2, <2>4, <3>1, CompleteIsReadable, Zenon DEF Sound
      <3>2. CASE i # 1 /\ file[i - 1].piece # Pieces
        <4>1. i > 1
          BY <2>5, <3>2, SMT
        <4>2. QED
          BY <1>1, <2>5, <2>7, <3>2, <4>1, Zenon DEF Glued
      <3>3. QED
        BY <3>1, <3>2, Zenon
    <2>9. i \in starts
      <3>1. Session(i) = s
        BY <2>3, <2>7, Zenon DEF Session, Owner
      <3>2. QED
        BY <2>5, <2>8, <3>1, Zenon
    <2>10. i < j
      BY <1>1, <2>1, <2>4, SMT
    <2>11. ASSUME NEW k \in starts PROVE k <= i \/ k >= j
      <3> SUFFICES ASSUME k > i, k < j PROVE FALSE
        BY <1>2, <2>5, <2>11, SMT
      <3>1. k \in 1 .. Len(file) /\ file[k].piece = 1
        BY <2>11, Zenon
      <3>2. PICK m : m = k - i + 1
        OBVIOUS
      <3>3. m \in 1 .. Pieces /\ i + m - 1 = k /\ m # 1
        BY <1>1, <1>2, <2>1, <2>4, <2>5, <3>1, <3>2, SMT
      <3>4. file[k].piece = m
        BY <2>5, <3>3, Zenon
      <3>5. QED
        BY <3>1, <3>3, <3>4, Zenon
    <2>12. QED
      BY <2>3, <2>7, <2>9, <2>10, <2>11, Zenon
  <1>6. QED
    BY <1>4, <1>5, Zenon

LEMMA SoundVerifies ==
  ASSUME file \in Lists, Sound(file)
  PROVE  SessionsVerify
  <1> SUFFICES ASSUME NEW s \in Sessions
               PROVE  \/ Verifies(RecordsOf(s))
                      \/ \E g \in Glued :
                           /\ Session(g) = s /\ \A i \in RecordsOf(s) : g < i
                           /\ Verifies({g} \cup RecordsOf(s))
    BY Zenon DEF SessionsVerify
  <1>1. Len(file) \in Nat /\ DOMAIN file = 1 .. Len(file)
    BY PieceFacts, Zenon
  <1>2. \A i \in RecordsOf(s) : /\ i \in 1 .. Len(file) /\ Session(i) = s
                                /\ file[i].piece = 1 /\ i \notin Glued
    BY ReadableStarts, Zenon DEF RecordsOf
  <1>3. CASE \A g \in Glued : Session(g) # s
    <2>1. \A i \in 1 .. Len(file) :
            i \in Records \cup Glued /\ Session(i) = s => i \in RecordsOf(s)
      BY <1>3, Zenon DEF RecordsOf
    <2>2. Verifies(RecordsOf(s))
      BY <1>2, <2>1, StartsVerify, Zenon
    <2>3. QED
      BY <2>2
  <1>4. ASSUME NEW g \in Glued, Session(g) = s
        PROVE  /\ \A i \in RecordsOf(s) : g < i
               /\ Verifies({g} \cup RecordsOf(s))
    <2>1. ASSUME NEW h \in Glued, Session(h) = s
          PROVE  /\ h \in 1 .. Len(file) /\ h > 1 /\ file[h].piece = 1
                 /\ Owner(file[h]) = s /\ Owner(file[h - 1]) # Owner(file[h])
      <3>1. /\ h \in 1 .. Len(file) /\ h > 1 /\ file[h].piece = 1
            /\ file[h - 1].piece # Pieces
        BY <1>1, <2>1, Zenon DEF Glued
      <3>2. Owner(file[h]) = s
        BY <2>1, Zenon DEF Session, Owner
      <3>3. QED
        BY <1>1, <3>1, <3>2, Zenon DEF Sound, TornByDeath
    <2>2. ASSUME NEW i \in 1 .. Len(file), Session(i) = s PROVE i >= g
      <3>1. Owner(file[i]) = Owner(file[g])
        BY <1>4, <2>2, Zenon DEF Session, Owner
      <3>2. QED
        BY <1>4, <2>1, <2>2, <3>1, FirstOfSession, Zenon DEF Sound
    <2>3. ASSUME NEW i \in RecordsOf(s) PROVE g < i
      <3>1. i >= g /\ i # g /\ i \in 1 .. Len(file) /\ g \in 1 .. Len(file)
        BY <1>2, <1>4, <2>1, <2>2, <2>3, Zenon
      <3>2. QED
        BY <3>1, SMT
    <2>4. ASSUME NEW h \in Glued, Session(h) = s PROVE h = g
      <3>1. h \in 1 .. Len(file) /\ g \in 1 .. Len(file) /\ h >= g
        BY <1>4, <2>1, <2>2, <2>4, Zenon
      <3>2. g >= h
        <4>1. Owner(file[h]) = Owner(file[g])
          BY <1>4, <2>1, <2>4, Zenon
        <4>2. QED
          BY <2>1, <2>4, <3>1, <4>1, FirstOfSession, Zenon DEF Sound
      <3>3. QED
        BY <3>1, <3>2, SMT
    <2> DEFINE starts == {g} \cup RecordsOf(s)
    <2>5. \A i \in starts : /\ i \in 1 .. Len(file) /\ Session(i) = s /\ file[i].piece = 1
      BY <1>2, <1>4, <2>1, Zenon
    <2>6. \A i \in 1 .. Len(file) :
            i \in Records \cup Glued /\ Session(i) = s => i \in starts
      BY <2>4, Zenon DEF RecordsOf
    <2> HIDE DEF starts
    <2>7. Verifies(starts)
      BY <2>5, <2>6, StartsVerify, Zenon
    <2>8. QED
      BY <2>3, <2>7, Zenon DEF starts
  <1>5. QED
    BY <1>3, <1>4, Zenon

LEMMA Between ==
  ASSUME NEW k, NEW e \in Nat, NEW d \in Nat, NEW m,
         k = e - Pieces + 1, k <= d, d < e, m = d - k + 1
  PROVE  m \in 1 .. Pieces /\ k + m - 1 = d /\ m # Pieces
  BY AuditAssumption, SMT

(* What returned is readable, or glued and the first of its session.       *)
LEMMA WrittenIsReadable ==
  ASSUME file \in Lists, Sound(file), RecordedIsWritten, recorded \in Seq(Payloads)
  PROVE  RecordedIsReadable
  <1> SUFFICES ASSUME NEW i \in DOMAIN recorded
      PROVE  \/ /\ \E g \in Glued : file[g].payload = recorded[i]
                /\ \A j \in 1 .. i - 1 : recorded[j][1] # recorded[i][1]
             \/ \E k \in Records :
                  /\ file[k].payload = recorded[i]
                  /\ \A l \in Records, j \in 1 .. i - 1 :
                       l > k => file[l].payload # recorded[j]
    BY Zenon DEF RecordedIsReadable
  <1>1. /\ Len(file) \in Nat /\ DOMAIN file = 1 .. Len(file)
        /\ Pieces \in Nat /\ Pieces >= 1 /\ 1 \in 1 .. Pieces
        /\ \A j \in 1 .. i - 1 : j \in DOMAIN recorded
    BY PieceFacts, AuditAssumption, SMT
  <1>2. PICK e \in DOMAIN file :
          /\ file[e].piece = Pieces /\ file[e].payload = recorded[i]
          /\ \A j \in 1 .. i - 1, d \in DOMAIN file : file[d].payload = recorded[j] => d < e
    BY Zenon DEF RecordedIsWritten
  <1>3. PICK k : k = e - Pieces + 1
    OBVIOUS
  <1>4. /\ k \in 1 .. Len(file)
        /\ \A m \in 1 .. Pieces : /\ file[k + m - 1].payload = file[e].payload
                                  /\ file[k + m - 1].piece = m
    BY <1>1, <1>2, <1>3, CompleteLine, Zenon DEF Sound
  <1>5. k + 1 - 1 = k
    BY <1>4, SMT
  <1>6. file[k].payload = recorded[i] /\ file[k].piece = 1
    BY <1>1, <1>2, <1>4, <1>5, Zenon
  <1>7. CASE k = 1 \/ file[k - 1].piece = Pieces
    <2>1. k \in Records
      BY <1>1, <1>2, <1>3, <1>7, CompleteIsReadable, Zenon DEF Sound
    <2>2. ASSUME NEW l \in Records, NEW j \in 1 .. i - 1, l > k, file[l].payload = recorded[j]
          PROVE  FALSE
      <3>1. l \in 1 .. Len(file) /\ file[l].piece = 1
        BY <2>2, ReadableStarts, Zenon
      <3>2. l < e
        BY <1>1, <1>2, <2>2, <3>1, Zenon
      <3>3. PICK m : m = l - k + 1
        OBVIOUS
      <3>4. m \in 1 .. Pieces /\ k + m - 1 = l /\ m # 1
        BY <1>1, <1>2, <1>3, <1>4, <2>2, <3>1, <3>2, <3>3, SMTT(30)
      <3>5. QED
        BY <1>4, <3>1, <3>4, Zenon
    <2>3. QED
      BY <1>6, <2>1, <2>2, Zenon
  <1>8. CASE k # 1 /\ file[k - 1].piece # Pieces
    <2>1. k > 1
      BY <1>4, <1>8, SMT
    <2>2. k \in Glued
      BY <1>1, <1>4, <1>6, <1>8, <2>1, Zenon DEF Glued
    <2>3. Owner(file[k - 1]) # Owner(file[k])
      BY <1>1, <1>4, <1>6, <1>8, <2>1, Zenon DEF Sound, TornByDeath
    <2>4. ASSUME NEW j \in 1 .. i - 1, recorded[j][1] = recorded[i][1]
          PROVE  FALSE
      <3>1. PICK d \in DOMAIN file : file[d].piece = Pieces /\ file[d].payload = recorded[j]
        BY <1>1, <2>4, Zenon DEF RecordedIsWritten
      <3>2. d < e
        BY <1>2, <2>4, <3>1, Zenon
      <3>3. Owner(file[d]) = Owner(file[k])
        BY <1>6, <2>4, <3>1, Zenon DEF Owner
      <3>4. k <= d
        BY <1>1, <1>4, <2>3, <3>1, <3>3, FirstOfSession, Zenon DEF Sound
      <3>5. PICK m : m = d - k + 1
        OBVIOUS
      <3>6. d \in Nat /\ e \in Nat
        BY <1>1, <1>2, <3>1, SMT
      <3>7. m \in 1 .. Pieces /\ k + m - 1 = d /\ m # Pieces
        <4>1. k = e - Pieces + 1 /\ m = d - k + 1
          BY <1>3, <3>5
        <4>2. QED
          BY <3>2, <3>4, <3>6, <4>1, Between
      <3>8. QED
        BY <1>4, <3>1, <3>7, Zenon
    <2>5. QED
      BY <1>6, <2>2, <2>4, Zenon
  <1>9. QED
    BY <1>7, <1>8, Zenon

-----------------------------------------------------------------------------
(* The types.                                                              *)

Modes == {"unopened", "open", "flushing", "closing", "closed", "dead"}

LEMMA TypesInit == Init => TypeOK
  BY AuditAssumption, SMT DEF Init, TypeOK

(* The line of the next call.                                              *)
LEMMA NextLine ==
  ASSUME TypeOK, NEW s \in Sessions, calls[s] < MaxRecords
  PROVE  /\ Payload(s) \in Payloads /\ Payload(s)[1] = s /\ Payload(s)[2] = calls[s] + 1
         /\ prevHmac[s] \in Seq(Payloads)
         /\ Hmac(Payload(s), prevHmac[s]) \in Seq(Payloads)
         /\ Hmac(Payload(s), prevHmac[s]) # <<>>
         /\ Line(Payload(s), Hmac(Payload(s), prevHmac[s])) \in Lists
  <1>1. calls[s] \in 0 .. MaxRecords /\ prevHmac[s] \in Seq(Payloads)
    BY Zenon DEF TypeOK
  <1>2. calls[s] + 1 \in 1 .. MaxRecords
    BY <1>1, AuditAssumption, SMT
  <1>3. Payload(s) \in Payloads /\ Payload(s)[1] = s /\ Payload(s)[2] = calls[s] + 1
    BY <1>2, SMT DEF Payload, Payloads
  <1> DEFINE p == Payload(s)
  <1> HIDE DEF p
  <1>4. ASSUME p \in Payloads PROVE Hmac(p, prevHmac[s]) \in Seq(Payloads) /\ Hmac(p, prevHmac[s]) # <<>>
    BY <1>1, <1>4, SMT DEF Hmac
  <1>5. p \in Payloads
    BY <1>3 DEF p
  <1>6. Line(p, Hmac(p, prevHmac[s])) \in Lists
    BY <1>4, <1>5, LineFacts, Zenon
  <1>7. QED
    BY <1>1, <1>3, <1>4, <1>5, <1>6, Zenon DEF p

LEMMA TypesStep ==
  ASSUME TypeOK, [Next]_vars,
         \A s \in Sessions : mode[s] = "flushing" => calls[s] # 0
  PROVE  TypeOK'
  <1>0. /\ file \in Lists /\ mode \in [Sessions -> Modes]
        /\ prevHmac \in [Sessions -> Seq(Payloads)]
        /\ buffer \in [Sessions -> Lists]
        /\ \A s \in Sessions : mode[s] \in {"unopened", "closed", "dead"} => buffer[s] = <<>>
        /\ calls \in [Sessions -> 0 .. MaxRecords]
        /\ errors \in [Sessions -> 0 .. MaxErrors]
        /\ recorded \in Seq(Payloads)
    BY Zenon DEF TypeOK, Modes, Lists
  <1>1. ASSUME NEW s \in Sessions, calls[s] < MaxRecords, Call(s)
        PROVE  calls' \in [Sessions -> 0 .. MaxRecords]
    <2>1. calls[s] + 1 \in 0 .. MaxRecords
      BY <1>0, <1>1, AuditAssumption, SMT
    <2>2. QED
      BY <1>0, <1>1, <2>1, Zenon DEF Call
  <1>2. ASSUME NEW s \in Sessions, Error(s)
        PROVE  errors' \in [Sessions -> 0 .. MaxErrors]
    <2>1. errors[s] + 1 \in 0 .. MaxErrors
      BY <1>0, <1>2, AuditAssumption, SMT DEF Error
    <2>2. QED
      BY <1>0, <1>2, <2>1, Zenon DEF Error
  <1>3. ASSUME NEW s \in Sessions, NEW m \in Modes, Goto(s, m)
        PROVE  /\ mode' \in [Sessions -> Modes] /\ mode'[s] = m
               /\ \A t \in Sessions : t # s => mode'[t] = mode[t]
    BY <1>0, <1>3, Zenon DEF Goto
  <1>4. CASE UNCHANGED vars
    BY <1>4, Zenon DEF TypeOK, vars
  <1>5. ASSUME NEW s \in Sessions, Open(s) PROVE TypeOK'
    <2>1. <<>> \in Seq(Payloads) /\ "open" \in Modes
      BY SMT DEF Modes
    <2>2. prevHmac' \in [Sessions -> Seq(Payloads)]
      BY <1>0, <1>5, <2>1, Zenon DEF Open
    <2>3. mode' \in [Sessions -> Modes] /\ \A t \in Sessions : t # s => mode'[t] = mode[t]
      BY <1>3, <1>5, <2>1, Zenon DEF Open
    <2>4. \A t \in Sessions : mode'[t] \in {"unopened", "closed", "dead"} => buffer'[t] = <<>>
      BY <1>0, <1>5, <2>3, Zenon DEF Open
    <2>5. QED
      BY <1>0, <1>5, <2>2, <2>3, <2>4, Zenon DEF Open, TypeOK, Modes, Lists
  <1>6. ASSUME NEW s \in Sessions, RecordRefused(s) PROVE TypeOK'
    BY <1>0, <1>1, <1>2, <1>6, Zenon DEF RecordRefused, TypeOK, Modes, Lists
  <1>7. ASSUME NEW s \in Sessions, Record(s) PROVE TypeOK'
    <2> DEFINE mac == Hmac(Payload(s), prevHmac[s])
               line == Line(Payload(s), mac)
    <2>1. /\ calls[s] < MaxRecords /\ Call(s) /\ Goto(s, "flushing")
          /\ prevHmac' = [prevHmac EXCEPT ![s] = mac]
          /\ buffer' = [buffer EXCEPT ![s] = @ \o line]
          /\ UNCHANGED <<file, errors, recorded>>
      BY <1>7, Zenon DEF Record
    <2>2. mac \in Seq(Payloads) /\ line \in Lists
      BY <2>1, NextLine, Zenon
    <2> HIDE DEF mac, line
    <2>3. "flushing" \in Modes
      BY Zenon DEF Modes
    <2>4. buffer[s] \in Lists
      BY <1>0, Zenon
    <2>5. buffer[s] \o line \in Lists
      BY <2>2, <2>4, SMT DEF Lists
    <2>6. buffer' \in [Sessions -> Lists] /\ prevHmac' \in [Sessions -> Seq(Payloads)]
      BY <1>0, <2>1, <2>2, <2>5, Zenon
    <2>7. \A t \in Sessions : t # s => buffer'[t] = buffer[t]
      BY <1>0, <2>1, Zenon
    <2>8. \A t \in Sessions : mode'[t] \in {"unopened", "closed", "dead"} => buffer'[t] = <<>>
      BY <1>0, <1>3, <2>1, <2>3, <2>7, ZenonT(30)
    <2>9. QED
      BY <1>0, <1>1, <1>3, <2>1, <2>3, <2>6, <2>8, Zenon DEF TypeOK, Modes, Lists
  <1>8. ASSUME NEW s \in Sessions, RecordClosed(s) PROVE TypeOK'
    <2>1. /\ calls[s] < MaxRecords /\ Call(s) /\ Error(s)
          /\ prevHmac' = [prevHmac EXCEPT ![s] = Hmac(Payload(s), prevHmac[s])]
          /\ UNCHANGED <<file, mode, buffer, recorded>>
      BY <1>8, Zenon DEF RecordClosed
    <2>2. Hmac(Payload(s), prevHmac[s]) \in Seq(Payloads)
      BY <2>1, NextLine, Zenon
    <2>3. prevHmac' \in [Sessions -> Seq(Payloads)]
      BY <1>0, <2>1, <2>2, Zenon
    <2>4. QED
      BY <1>0, <1>1, <1>2, <2>1, <2>3, Zenon DEF TypeOK, Modes, Lists
  <1>9. ASSUME NEW s \in Sessions, Write(s) PROVE TypeOK'
    <2>1. /\ mode[s] \in {"flushing", "closing"} /\ buffer[s] # <<>>
          /\ file' = Append(file, Head(buffer[s]))
          /\ buffer' = [buffer EXCEPT ![s] = Tail(@)]
          /\ UNCHANGED <<mode, prevHmac, calls, errors, recorded>>
      BY <1>9, Zenon DEF Write
    <2>2. buffer[s] \in Lists
      BY <1>0, Zenon
    <2>3. Head(buffer[s]) \in PieceType /\ Tail(buffer[s]) \in Lists
      BY <2>1, <2>2, SMT DEF Lists
    <2>4. file' \in Lists
      BY <1>0, <2>1, <2>3, SMT DEF Lists
    <2>5. buffer' \in [Sessions -> Lists] /\ \A t \in Sessions : t # s => buffer'[t] = buffer[t]
      BY <1>0, <2>1, <2>3, Zenon
    <2>6. \A t \in Sessions : mode'[t] \in {"unopened", "closed", "dead"} => buffer'[t] = <<>>
      <3>1. mode[s] \notin {"unopened", "closed", "dead"}
        BY <2>1, Zenon
      <3>2. QED
        BY <1>0, <2>1, <2>5, <3>1, Zenon
    <2>7. QED
      BY <1>0, <2>1, <2>4, <2>5, <2>6, Zenon DEF TypeOK, Modes, Lists
  <1>10. ASSUME NEW s \in Sessions, WriteFails(s) PROVE TypeOK'
    <2>1. /\ Error(s) /\ Goto(s, "open") /\ "open" \in Modes
          /\ UNCHANGED <<file, prevHmac, buffer, calls, recorded>>
      BY <1>10, Zenon DEF WriteFails, Modes
    <2>2. \A t \in Sessions : mode'[t] \in {"unopened", "closed", "dead"} => buffer'[t] = <<>>
      BY <1>0, <1>3, <2>1, Zenon
    <2>3. QED
      BY <1>0, <1>2, <1>3, <2>1, <2>2, Zenon DEF TypeOK, Modes, Lists
  <1>11. ASSUME NEW s \in Sessions, Flushed(s) PROVE TypeOK'
    <2>1. /\ mode[s] = "flushing" /\ buffer[s] = <<>>
          /\ Goto(s, "open") /\ "open" \in Modes
          /\ recorded' = Append(recorded, <<s, calls[s]>>)
          /\ UNCHANGED <<file, prevHmac, buffer, calls, errors>>
      BY <1>11, Zenon DEF Flushed, Modes
    <2>2. calls[s] \in 0 .. MaxRecords /\ calls[s] # 0
      BY <1>0, <2>1, Zenon
    <2>3. <<s, calls[s]>> \in Payloads
      BY <2>2, AuditAssumption, SMT DEF Payloads
    <2>4. recorded' \in Seq(Payloads)
      BY <1>0, <2>1, <2>3, SMT
    <2>5. \A t \in Sessions : mode'[t] \in {"unopened", "closed", "dead"} => buffer'[t] = <<>>
      BY <1>0, <1>3, <2>1, Zenon
    <2>6. QED
      BY <1>0, <1>3, <2>1, <2>4, <2>5, Zenon DEF TypeOK, Modes, Lists
  <1>12. ASSUME NEW s \in Sessions, Close(s) PROVE TypeOK'
    <2>1. /\ Goto(s, "closing") /\ "closing" \in Modes
          /\ UNCHANGED <<file, prevHmac, buffer, calls, errors, recorded>>
      BY <1>12, Zenon DEF Close, Modes
    <2>2. \A t \in Sessions : mode'[t] \in {"unopened", "closed", "dead"} => buffer'[t] = <<>>
      BY <1>0, <1>3, <2>1, Zenon
    <2>3. QED
      BY <1>0, <1>3, <2>1, <2>2, Zenon DEF TypeOK, Modes, Lists
  <1>13. ASSUME NEW s \in Sessions, Closed(s) PROVE TypeOK'
    <2>1. /\ Goto(s, "closed") /\ "closed" \in Modes /\ buffer[s] = <<>>
          /\ UNCHANGED <<file, prevHmac, buffer, calls, errors, recorded>>
      BY <1>13, Zenon DEF Closed, Modes
    <2>2. \A t \in Sessions : mode'[t] \in {"unopened", "closed", "dead"} => buffer'[t] = <<>>
      BY <1>0, <1>3, <2>1, Zenon
    <2>3. QED
      BY <1>0, <1>3, <2>1, <2>2, Zenon DEF TypeOK, Modes, Lists
  <1>14. ASSUME NEW s \in Sessions, Kill(s) PROVE TypeOK'
    <2>1. /\ Goto(s, "dead") /\ "dead" \in Modes
          /\ buffer' = [buffer EXCEPT ![s] = <<>>]
          /\ UNCHANGED <<file, prevHmac, calls, errors, recorded>>
      BY <1>14, Zenon DEF Kill, Modes
    <2>2. <<>> \in Lists
      BY SMT DEF Lists
    <2>3. /\ buffer' \in [Sessions -> Lists] /\ buffer'[s] = <<>>
          /\ \A t \in Sessions : t # s => buffer'[t] = buffer[t]
      BY <1>0, <2>1, <2>2, Zenon
    <2>4. \A t \in Sessions : mode'[t] \in {"unopened", "closed", "dead"} => buffer'[t] = <<>>
      BY <1>0, <1>3, <2>1, <2>3, Zenon
    <2>5. QED
      BY <1>0, <1>3, <2>1, <2>3, <2>4, Zenon DEF TypeOK, Modes, Lists
  <1>15. QED
    BY <1>4, <1>5, <1>6, <1>7, <1>8, <1>9, <1>10, <1>11, <1>12, <1>13, <1>14, Zenon DEF Next

-----------------------------------------------------------------------------
(* The steps.                                                              *)

LEMMA Joined ==
  ASSUME NEW x \in Lists, NEW y \in Lists
  PROVE  /\ x \o y \in Lists /\ Len(x \o y) = Len(x) + Len(y)
         /\ \A i \in 1 .. Len(x) : (x \o y)[i] = x[i]
         /\ \A k \in 1 .. Len(y) : (x \o y)[Len(x) + k] = y[k]
  BY SMT DEF Lists

LEMMA JoinedThrice ==
  ASSUME NEW x \in Lists, NEW y \in Lists, NEW z \in Lists
  PROVE  (x \o y) \o z = x \o (y \o z)
  BY ConcatAssociative DEF Lists

LEMMA Types ==
  ASSUME TypeOK
  PROVE  /\ file \in Lists /\ recorded \in Seq(Payloads)
         /\ \A s \in Sessions :
              /\ buffer[s] \in Lists /\ Stream(s) \in Lists
              /\ mode[s] \in Modes /\ prevHmac[s] \in Seq(Payloads)
              /\ calls[s] \in Nat
              /\ ~Running(s) => buffer[s] = <<>>
  <1>1. /\ file \in Lists /\ buffer \in [Sessions -> Lists]
        /\ recorded \in Seq(Payloads) /\ prevHmac \in [Sessions -> Seq(Payloads)]
        /\ calls \in [Sessions -> 0 .. MaxRecords] /\ mode \in [Sessions -> Modes]
        /\ \A s \in Sessions : mode[s] \in {"unopened", "closed", "dead"} => buffer[s] = <<>>
    BY Zenon DEF TypeOK, Lists, Modes
  <1>2. \A n \in 0 .. MaxRecords : n \in Nat
    BY AuditAssumption, SMT
  <1>3. \A s \in Sessions : buffer[s] \in Lists /\ Stream(s) \in Lists
    BY <1>1, Joined, Zenon DEF Stream
  <1>4. \A s \in Sessions : ~Running(s) => buffer[s] = <<>>
    BY <1>1, Zenon DEF Running, Modes
  <1>5. QED
    BY <1>1, <1>2, <1>3, <1>4, Zenon

LEMMA StreamStartsWithFile ==
  ASSUME TypeOK, NEW s \in Sessions
  PROVE  /\ Len(Stream(s)) = Len(file) + Len(buffer[s])
         /\ \A i \in 1 .. Len(file) : Stream(s)[i] = file[i]
         /\ \A k \in 1 .. Len(buffer[s]) : Stream(s)[Len(file) + k] = buffer[s][k]
  BY Types, Joined, Zenon DEF Stream

LEMMA EmptyBuffer ==
  ASSUME TypeOK, NEW s \in Sessions, buffer[s] = <<>>
  PROVE  Stream(s) = file
  BY Types, SMT DEF Stream, Lists

(* Calls are only added.                                                   *)
LEMMA CountedStays ==
  ASSUME TypeOK, TypeOK', NEW x \in Lists, Counted(x), \A s \in Sessions : calls[s] <= calls'[s]
  PROVE  Counted(x)'
  <1> SUFFICES ASSUME NEW i \in 1 .. Len(x)
               PROVE  x[i].payload[2] <= calls'[Owner(x[i])]
    BY PieceFacts, Zenon DEF Counted, Owner
  <1>1. /\ Owner(x[i]) \in Sessions /\ x[i].payload[2] \in Nat
        /\ x[i].payload[2] <= calls[Owner(x[i])]
    BY PieceFacts, Zenon DEF Counted
  <1>2. calls[Owner(x[i])] \in Nat /\ calls[Owner(x[i])] <= calls'[Owner(x[i])]
    BY <1>1, Types, Zenon
  <1>3. calls'[Owner(x[i])] \in 0 .. MaxRecords
    BY <1>1, Zenon DEF TypeOK
  <1>4. QED
    BY <1>1, <1>2, <1>3, AuditAssumption, SMT

LEMMA IntactInit == Init => Intact
  <1> SUFFICES ASSUME Init PROVE Intact
    OBVIOUS
  <1>1. TypeOK /\ file = <<>> /\ recorded = <<>>
    BY TypesInit, Zenon DEF Init
  <1>2. DOMAIN file = {} /\ DOMAIN recorded = {}
    BY <1>1, SMT
  <1>3. Sound(file)
    BY <1>2, Zenon DEF Sound, WholeLines, TornByDeath, Together, Chained, WrittenOnce
  <1>4. \A s \in Sessions : ~Running(s)
    BY Zenon DEF Init, Running
  <1>5. QED
    BY <1>1, <1>2, <1>3, <1>4, Zenon DEF Intact, OneRunning, Streams, FileIsSound,
       Counted, OpenedFirst, RecordedIsWritten

(* A step of s that writes nothing and puts nothing into the buffer.  Only *)
(* if s runs can it record something.                                      *)
LEMMA Quiet ==
  ASSUME Intact, TypeOK', NEW s \in Sessions, UNCHANGED <<file, buffer>>,
         \A t \in Sessions : t # s => mode'[t] = mode[t] /\ prevHmac'[t] = prevHmac[t]
                                      /\ calls'[t] = calls[t],
         calls[s] <= calls'[s],
         Running(s)' => Running(s) /\ prevHmac'[s] = prevHmac[s],
         mode'[s] # "flushing", mode'[s] # "unopened",
         recorded' = recorded \/ Running(s)
  PROVE  OneRunning' /\ Streams' /\ FileIsSound' /\ OpenedFirst'
  <1>1. \A t \in Sessions : calls[t] <= calls'[t]
    <2>1. \A t \in Sessions : calls[t] \in Nat
      BY Types, Zenon DEF Intact
    <2>2. \A t \in Sessions : t # s => calls[t] <= calls'[t]
      BY <2>1, SMT
    <2>3. QED
      BY <2>2, Zenon
  <1>2. \A t \in Sessions : Running(t)' => Running(t) /\ prevHmac'[t] = prevHmac[t]
    BY Zenon DEF Running
  <1>3. OneRunning'
    BY <1>2, Zenon DEF Intact, OneRunning, Running
  <1>4. FileIsSound'
    <2>1. Counted(file)'
      <3>1. \A x \in Lists : Counted(x) => Counted(x)'
        BY <1>1, CountedStays, Zenon DEF Intact
      <3>2. file \in Lists
        BY Types, Zenon DEF Intact
      <3>3. QED
        BY <3>1, <3>2, Zenon DEF Intact, FileIsSound, Counted, Owner
    <2>2. Sound(file')
      BY Zenon DEF Intact, FileIsSound
    <2>3. QED
      BY <2>1, <2>2, Zenon DEF FileIsSound
  <1>5. OpenedFirst'
    <2>1. \A i \in DOMAIN file : Owner(file[i]) \in Sessions
      BY Types, PieceFacts, Zenon DEF Intact
    <2>2. \A i \in DOMAIN file : mode'[Owner(file[i])] # "unopened"
      BY <2>1, Zenon DEF Intact, OpenedFirst
    <2>3. QED
      BY <2>2, Zenon DEF OpenedFirst, Owner
  <1>6. Streams'
    <2> SUFFICES ASSUME NEW t \in Sessions, Running(t)'
                 PROVE  /\ Sound(Stream(t))' /\ Counted(Stream(t))' /\ Tip(t)' /\ Pending(t)'
                        /\ \A i \in DOMAIN buffer'[t] : Owner(buffer'[t][i]) = t
      BY Zenon DEF Streams, Owner
    <2>1. Running(t) /\ prevHmac'[t] = prevHmac[t]
      BY <1>2, Zenon
    <2>2. /\ Sound(Stream(t)) /\ Counted(Stream(t)) /\ Tip(t) /\ Pending(t)
          /\ \A i \in DOMAIN buffer[t] : Owner(buffer[t][i]) = t
      BY <2>1, Zenon DEF Intact, Streams
    <2>3. Stream(t)' = Stream(t) /\ Stream(t) \in Lists
      BY Types, Zenon DEF Stream, Intact
    <2>4. Counted(Stream(t))'
      <3>1. \A x \in Lists : Counted(x) => Counted(x)'
        BY <1>1, CountedStays, Zenon DEF Intact
      <3>2. QED
        BY <2>2, <2>3, <3>1, Zenon DEF Counted, Owner
    <2>5. Sound(Stream(t)')
      BY <2>2, <2>3, Zenon
    <2>6. Tip(t)'
      BY <2>1, <2>2, <2>3, Zenon DEF Tip, Owner
    <2>7. Pending(t)'
      <3>1. CASE t = s
        BY <3>1, Zenon DEF Pending
      <3>2. CASE t # s
        <4>1. ~Running(s)
          BY <2>1, <3>2, Zenon DEF Intact, OneRunning
        <4>2. recorded' = recorded
          BY <4>1, Zenon
        <4>3. QED
          BY <2>1, <2>2, <2>3, <3>2, <4>2, Zenon DEF Pending
      <3>3. QED
        BY <3>1, <3>2, Zenon
    <2>8. QED
      BY <2>2, <2>4, <2>5, <2>6, <2>7, Zenon DEF Owner
  <1>7. QED
    BY <1>3, <1>4, <1>5, <1>6, Zenon

LEMMA SameRecorded ==
  ASSUME RecordedIsWritten, UNCHANGED <<file, recorded>>
  PROVE  RecordedIsWritten'
  BY ZenonT(40) DEF RecordedIsWritten

LEMMA IntactQuiet ==
  ASSUME Intact, TypeOK', NEW s \in Sessions,
         RecordRefused(s) \/ RecordClosed(s) \/ WriteFails(s) \/ Close(s) \/ Closed(s)
  PROVE  Intact'
  <1>1. /\ mode \in [Sessions -> Modes] /\ calls \in [Sessions -> 0 .. MaxRecords]
        /\ prevHmac \in [Sessions -> Seq(Payloads)]
    BY Zenon DEF Intact, TypeOK, Modes
  <1>2. calls[s] <= calls[s] /\ calls[s] <= calls[s] + 1
    BY <1>1, AuditAssumption, SMT
  <1>3. UNCHANGED <<file, buffer, recorded>>
    BY Zenon DEF RecordRefused, RecordClosed, WriteFails, Close, Closed
  <1>4. \A t \in Sessions : t # s => mode'[t] = mode[t] /\ prevHmac'[t] = prevHmac[t]
                                     /\ calls'[t] = calls[t]
    BY <1>1, Zenon DEF RecordRefused, RecordClosed, WriteFails, Close, Closed, Goto, Call
  <1>5. calls[s] <= calls'[s]
    BY <1>1, <1>2, Zenon DEF RecordRefused, RecordClosed, WriteFails, Close, Closed, Call
  <1>6. /\ Running(s)' => Running(s) /\ prevHmac'[s] = prevHmac[s]
        /\ mode'[s] # "flushing" /\ mode'[s] # "unopened"
    <2>1. CASE RecordRefused(s)
      BY <2>1, Zenon DEF RecordRefused, Running
    <2>2. CASE RecordClosed(s)
      BY <2>2, Zenon DEF RecordClosed, Running
    <2>3. CASE WriteFails(s)
      BY <1>1, <2>3, Zenon DEF WriteFails, Running, Goto
    <2>4. CASE Close(s)
      BY <1>1, <2>4, Zenon DEF Close, Running, Goto
    <2>5. CASE Closed(s)
      BY <1>1, <2>5, Zenon DEF Closed, Running, Goto
    <2>6. QED
      BY <2>1, <2>2, <2>3, <2>4, <2>5, Zenon
  <1>7. OneRunning' /\ Streams' /\ FileIsSound' /\ OpenedFirst'
    BY <1>3, <1>4, <1>5, <1>6, Quiet, Zenon
  <1>8. QED
    BY <1>3, <1>7, SameRecorded, Zenon DEF Intact

LEMMA IntactOpen ==
  ASSUME Intact, TypeOK', NEW s \in Sessions, Open(s)
  PROVE  Intact'
  <1>1. /\ mode \in [Sessions -> Modes]
        /\ prevHmac \in [Sessions -> Seq(Payloads)]
    BY Zenon DEF Intact, TypeOK, Modes
  <1>2. /\ UNCHANGED <<file, buffer, calls, recorded>> /\ mode[s] = "unopened"
        /\ prevHmac'[s] = <<>> /\ mode'[s] = "open"
        /\ \A t \in Sessions : t # s => mode'[t] = mode[t]
        /\ \A t \in Sessions : mode[t] \in {"unopened", "closed", "dead"}
    BY <1>1, Zenon DEF Open, Goto
  <1>3. \A t \in Sessions : Running(t)' => t = s
    BY <1>2, Zenon DEF Running
  <1>4. Stream(s) = file
    <2>1. ~Running(s)
      BY <1>2, Zenon DEF Running
    <2>2. QED
      BY <2>1, Types, EmptyBuffer, Zenon DEF Intact
  <1>5. Stream(s)' = file /\ buffer[s] = <<>>
    <2>1. ~Running(s)
      BY <1>2, Zenon DEF Running
    <2>2. QED
      BY <1>2, <1>4, <2>1, Types, Zenon DEF Stream, Intact
  <1>6. Sound(file) /\ Counted(file)
    BY Zenon DEF Intact, FileIsSound
  <1>7. Sound(Stream(s)') /\ Counted(Stream(s))' /\ FileIsSound'
    BY <1>2, <1>5, <1>6, Zenon DEF Counted, FileIsSound
  <1>8. Tip(s)'
    <2>1. \A i \in DOMAIN file : Owner(file[i]) # s
      BY <1>2, Zenon DEF Intact, OpenedFirst
    <2>2. QED
      BY <1>2, <1>5, <2>1, Zenon DEF Tip, Owner
  <1>9. Streams'
    <2>1. Pending(s)' /\ \A i \in DOMAIN buffer'[s] : Owner(buffer'[s][i]) = s
      BY <1>2, <1>5, SMT DEF Pending
    <2>2. QED
      BY <1>3, <1>7, <1>8, <2>1, Zenon DEF Streams, Owner
  <1>10. OneRunning' /\ OpenedFirst' /\ RecordedIsWritten'
    <2>1. \A i \in DOMAIN file : Owner(file[i]) \in Sessions /\ mode[Owner(file[i])] # "unopened"
      BY Types, PieceFacts, Zenon DEF Intact, OpenedFirst
    <2>2. OpenedFirst'
      BY <1>2, <2>1, Zenon DEF OpenedFirst, Owner
    <2>3. QED
      BY <1>2, <1>3, <2>2, SameRecorded, Zenon DEF OneRunning, Intact
  <1>11. QED
    BY <1>7, <1>9, <1>10, Zenon DEF Intact

LEMMA IntactKill ==
  ASSUME Intact, TypeOK', NEW s \in Sessions, Kill(s)
  PROVE  Intact'
  <1>1. mode \in [Sessions -> Modes]
    BY Zenon DEF Intact, TypeOK, Modes
  <1>2. /\ UNCHANGED <<file, calls, recorded>> /\ Running(s) /\ mode'[s] = "dead"
        /\ \A t \in Sessions : t # s => mode'[t] = mode[t]
    BY <1>1, Zenon DEF Kill, Goto, Running
  <1>3. \A t \in Sessions : ~Running(t)'
    BY <1>2, Zenon DEF Intact, OneRunning, Running
  <1>4. FileIsSound'
    <2>1. Sound(file')
      BY <1>2, Zenon DEF Intact, FileIsSound
    <2>2. QED
      BY <1>2, <2>1, Zenon DEF Intact, FileIsSound, Counted
  <1>5. OpenedFirst'
    <2>1. \A i \in DOMAIN file : Owner(file[i]) \in Sessions /\ mode[Owner(file[i])] # "unopened"
      BY Types, PieceFacts, Zenon DEF Intact, OpenedFirst
    <2>2. QED
      BY <1>2, <2>1, Zenon DEF OpenedFirst, Owner
  <1>6. QED
    BY <1>2, <1>3, <1>4, <1>5, SameRecorded, Zenon DEF Intact, OneRunning, Streams

(* The line goes behind the stream, which is the session's alone.          *)
LEMMA IntactRecord ==
  ASSUME Intact, TypeOK', NEW s \in Sessions, Record(s)
  PROVE  Intact'
  <1> DEFINE p == Payload(s)
             mac == Hmac(p, prevHmac[s])
             line == Line(p, mac)
             x == Stream(s)
             n == Len(x)
  <1>1. /\ mode \in [Sessions -> Modes] /\ calls \in [Sessions -> 0 .. MaxRecords]
        /\ prevHmac \in [Sessions -> Seq(Payloads)]
        /\ buffer \in [Sessions -> Lists]
    BY Zenon DEF Intact, TypeOK, Modes, Lists
  <1>2. /\ UNCHANGED <<file, recorded>> /\ Running(s) /\ mode'[s] = "flushing"
        /\ calls[s] < MaxRecords /\ calls'[s] = calls[s] + 1
        /\ prevHmac'[s] = mac /\ buffer'[s] = buffer[s] \o line
        /\ \A t \in Sessions : t # s => mode'[t] = mode[t] /\ calls'[t] = calls[t]
    BY <1>1, Zenon DEF Record, Goto, Call, Running
  <1>3. /\ p \in Payloads /\ p[1] = s /\ p[2] = calls[s] + 1 /\ p = <<s, calls[s] + 1>>
        /\ prevHmac[s] \in Seq(Payloads)
        /\ mac \in Seq(Payloads) /\ mac # <<>> /\ line \in Lists
    BY <1>2, NextLine, Zenon DEF Intact, Payload
  <1>4. Len(line) = Pieces /\ \A k \in 1 .. Pieces : line[k] = PieceOf(p, mac, k)
    BY <1>3, LineFacts, Zenon
  <1>5. /\ Sound(x) /\ Counted(x) /\ Tip(s)
        /\ \A i \in DOMAIN buffer[s] : Owner(buffer[s][i]) = s
    BY <1>2, Zenon DEF Intact, Streams
  <1>6. x \in Lists /\ file \in Lists /\ buffer[s] \in Lists
    BY Types, Zenon DEF Intact
  <1> HIDE DEF mac, line
  <1>7. Stream(s)' = x \o line
    <2>1. Stream(s)' = file \o (buffer[s] \o line)
      BY <1>2, Zenon DEF Stream
    <2>2. (file \o buffer[s]) \o line = file \o (buffer[s] \o line)
      BY <1>3, <1>6, JoinedThrice
    <2>3. QED
      BY <2>1, <2>2, Zenon DEF Stream
  <1> HIDE DEF x, p, n
  <1>8. PICK z : z = x \o line
    OBVIOUS
  <1>9. /\ z \in Lists /\ Len(z) = n + Pieces
        /\ \A i \in 1 .. n : z[i] = x[i]
        /\ \A k \in 1 .. Pieces : z[n + k] = PieceOf(p, mac, k)
    <2>1. x \in Lists /\ line \in Lists
      BY <1>3, <1>6
    <2>2. /\ x \o line \in Lists /\ Len(x \o line) = Len(x) + Len(line)
          /\ \A i \in 1 .. Len(x) : (x \o line)[i] = x[i]
          /\ \A k \in 1 .. Len(line) : (x \o line)[Len(x) + k] = line[k]
      BY <2>1, Joined
    <2>3. QED
      BY <1>4, <1>8, <2>2, Zenon DEF n
  <1>10. /\ n \in Nat /\ Pieces \in Nat /\ Pieces \in 1 .. Pieces
         /\ DOMAIN z = 1 .. n + Pieces /\ DOMAIN x = 1 .. n
         /\ \A i \in 1 .. n + Pieces : i \in 1 .. n \/ (i - n \in 1 .. Pieces /\ n + (i - n) = i)
    <2>1. n \in Nat /\ DOMAIN x = 1 .. n /\ DOMAIN z = 1 .. n + Pieces
      BY <1>6, <1>9, PieceFacts, Zenon DEF n
    <2>2. QED
      BY <2>1, AuditAssumption, SMT
  <1>11. \A i \in 1 .. n : x[i].payload # p
    <2> SUFFICES ASSUME NEW i \in 1 .. n, x[i].payload = p PROVE FALSE
      OBVIOUS
    <2>1. p[2] <= calls[s]
      BY <1>3, <1>5, <1>10, Zenon DEF Counted, Owner
    <2>2. calls[s] \in Nat
      BY <1>1, AuditAssumption, SMT
    <2>3. QED
      BY <1>3, <2>1, <2>2, SMT
  <1>12. LastLine(x, s, prevHmac[s])
    BY <1>5, Zenon DEF Tip, LastLine, x
  <1>13. Sound(z)
    BY <1>3, <1>5, <1>6, <1>9, <1>11, <1>12, NextLineSound, Zenon DEF n, mac
  <1>14. ASSUME NEW k \in 1 .. Pieces
         PROVE  z[n + k].payload = p /\ z[n + k].hmac = mac /\ z[n + k].piece = k
    <2>1. z[n + k] = PieceOf(p, mac, k)
      BY <1>9, <1>14, Zenon
    <2>2. QED
      BY <2>1, SMT DEF PieceOf
  <1>15. /\ \A t \in Sessions : calls[t] \in Nat
         /\ \A t \in Sessions : calls[t] <= calls'[t]
    <2>1. \A t \in Sessions : calls[t] \in Nat /\ calls[t] <= calls[t] /\ calls[t] <= calls[t] + 1
      BY <1>1, AuditAssumption, SMT
    <2>2. QED
      BY <1>2, <2>1, Zenon
  <1>16. \A y \in Lists : Counted(y) => \A i \in 1 .. Len(y) : y[i].payload[2] <= calls'[Owner(y[i])]
    BY <1>15, CountedStays, PieceFacts, Zenon DEF Intact, Counted, Owner
  <1>17. \A i \in DOMAIN z : z[i].payload[2] <= calls'[Owner(z[i])]
    <2> SUFFICES ASSUME NEW i \in 1 .. n + Pieces
                 PROVE  z[i].payload[2] <= calls'[Owner(z[i])]
      BY <1>10, Zenon
    <2>1. CASE i \in 1 .. n
      BY <1>5, <1>6, <1>9, <1>16, <2>1, Zenon DEF n
    <2>2. CASE i - n \in 1 .. Pieces /\ n + (i - n) = i
      <3>1. z[i].payload = p
        BY <1>14, <2>2, Zenon
      <3>2. calls'[s] \in Nat /\ p[2] = calls'[s]
        BY <1>2, <1>3, <1>15, SMT
      <3>3. Owner(z[i]) = s
        BY <1>3, <3>1, Zenon DEF Owner
      <3>4. QED
        BY <3>1, <3>2, <3>3, SMT
    <2>3. QED
      BY <1>10, <2>1, <2>2, Zenon
  <1>18. Counted(Stream(s))'
    BY <1>7, <1>8, <1>17, Zenon DEF Counted, Owner
  <1>19. /\ Len(z) > 0 /\ z[Len(z)].piece = Pieces /\ z[Len(z)].hmac = mac
         /\ z[Len(z)].payload = p /\ Owner(z[Len(z)]) = s
    <2>1. /\ z[Len(z)].piece = Pieces /\ z[Len(z)].hmac = mac /\ z[Len(z)].payload = p
      BY <1>9, <1>10, <1>14, Zenon
    <2>2. Len(z) > 0
      BY <1>9, <1>10, SMT
    <2>3. QED
      BY <1>3, <2>1, <2>2, Zenon DEF Owner
  <1>20. Tip(s)'
    BY <1>2, <1>3, <1>7, <1>8, <1>19, Zenon DEF Tip, Owner
  <1>21. Pending(s)'
    <2>1. ASSUME NEW i \in DOMAIN recorded, recorded[i] = p PROVE FALSE
      <3>1. PICK e \in DOMAIN file : file[e].payload = p
        BY <2>1, Zenon DEF Intact, RecordedIsWritten
      <3>2. p[2] <= calls[s]
        BY <1>3, <3>1, Zenon DEF Intact, FileIsSound, Counted, Owner
      <3>3. QED
        BY <1>3, <1>15, <3>2, SMT
    <2>2. p = <<s, calls'[s]>>
      BY <1>2, <1>3, Zenon
    <2>3. QED
      BY <1>2, <1>3, <1>7, <1>8, <1>19, <2>1, <2>2, Zenon DEF Pending
  <1>22. \A i \in DOMAIN buffer'[s] : Owner(buffer'[s][i]) = s
    <2>1. DOMAIN buffer[s] = 1 .. Len(buffer[s]) /\ Len(buffer[s]) \in Nat
      BY <1>6, SMT DEF Lists
    <2>2. DOMAIN buffer'[s] = 1 .. Len(buffer[s]) + Pieces
      BY <1>2, <1>3, <1>4, <1>6, SMT DEF Lists
    <2> DEFINE b == buffer'[s]
    <2>3. /\ \A i \in 1 .. Len(buffer[s]) : b[i] = buffer[s][i]
          /\ \A k \in 1 .. Pieces : b[Len(buffer[s]) + k] = PieceOf(p, mac, k)
      <3>1. buffer[s] \in Lists /\ line \in Lists /\ b = buffer[s] \o line
        BY <1>2, <1>3, <1>6
      <3>2. /\ \A i \in 1 .. Len(buffer[s]) : (buffer[s] \o line)[i] = buffer[s][i]
            /\ \A k \in 1 .. Len(line) : (buffer[s] \o line)[Len(buffer[s]) + k] = line[k]
        BY <3>1, Joined
      <3>3. QED
        BY <1>4, <3>1, <3>2, Zenon
    <2> HIDE DEF b
    <2>4. ASSUME NEW i \in 1 .. Len(buffer[s]) + Pieces PROVE Owner(b[i]) = s
      <3>1. CASE i \in 1 .. Len(buffer[s])
        BY <1>5, <2>1, <2>3, <3>1, Zenon
      <3>2. CASE i \notin 1 .. Len(buffer[s])
        <4>1. PICK k \in 1 .. Pieces : i = Len(buffer[s]) + k
          <5>1. i - Len(buffer[s]) \in 1 .. Pieces /\ i = Len(buffer[s]) + (i - Len(buffer[s]))
            BY <1>10, <2>1, <2>4, <3>2, SMT
          <5>2. QED
            BY <5>1, Zenon
        <4>2. b[i] = PieceOf(p, mac, k)
          BY <2>3, <4>1, Zenon
        <4>3. b[i].payload = p
          BY <4>2, SMT DEF PieceOf
        <4>4. QED
          BY <1>3, <4>3, Zenon DEF Owner
      <3>3. QED
        BY <3>1, <3>2, Zenon
    <2>5. QED
      BY <2>2, <2>4, Zenon DEF b
  <1>23. \A t \in Sessions : Running(t)' => t = s
    BY <1>2, Zenon DEF Intact, OneRunning, Running
  <1>24. Sound(Stream(s)')
    BY <1>7, <1>8, <1>13, Zenon
  <1>25. Streams'
    BY <1>18, <1>20, <1>21, <1>22, <1>23, <1>24, Zenon DEF Streams, Owner
  <1>26. FileIsSound'
    <2>1. Sound(file')
      BY <1>2, Zenon DEF Intact, FileIsSound
    <2>2. \A i \in DOMAIN file : file[i].payload[2] <= calls'[Owner(file[i])]
      BY <1>6, <1>16, PieceFacts, Zenon DEF Intact, FileIsSound
    <2>3. QED
      BY <1>2, <2>1, <2>2, Zenon DEF FileIsSound, Counted, Owner
  <1>27. OpenedFirst'
    <2>1. \A i \in DOMAIN file : Owner(file[i]) \in Sessions /\ mode[Owner(file[i])] # "unopened"
      BY <1>6, PieceFacts, Zenon DEF Intact, OpenedFirst
    <2>2. QED
      BY <1>2, <2>1, Zenon DEF OpenedFirst, Owner
  <1>28. QED
    BY <1>2, <1>23, <1>25, <1>26, <1>27, SameRecorded, Zenon DEF Intact, OneRunning

(* A piece moves from the buffer to the file; the stream stays.            *)
LEMMA IntactWrite ==
  ASSUME Intact, TypeOK', NEW s \in Sessions, Write(s)
  PROVE  Intact'
  <1> DEFINE x == Stream(s)
             n == Len(file)
  <1>1. /\ mode[s] \in {"flushing", "closing"} /\ buffer[s] # <<>>
        /\ file' = Append(file, Head(buffer[s]))
        /\ buffer'[s] = Tail(buffer[s])
        /\ UNCHANGED <<mode, prevHmac, calls, recorded>>
    BY Zenon DEF Intact, TypeOK, Write
  <1>2. Running(s)
    BY <1>1, Zenon DEF Running
  <1>3. /\ Sound(x) /\ Counted(x) /\ Tip(s) /\ Pending(s)
        /\ \A i \in DOMAIN buffer[s] : Owner(buffer[s][i]) = s
    BY <1>2, Zenon DEF Intact, Streams
  <1>4. file \in Lists /\ buffer[s] \in Lists /\ x \in Lists
    BY Types, Zenon DEF Intact
  <1>5. /\ n \in Nat /\ Len(file') = n + 1 /\ file' \in Lists
        /\ DOMAIN file = 1 .. n /\ DOMAIN file' = 1 .. n + 1
        /\ \A i \in 1 .. n : file'[i] = file[i]
        /\ file'[n + 1] = buffer[s][1]
        /\ Len(buffer[s]) \in Nat /\ Len(buffer[s]) >= 1 /\ 1 \in DOMAIN buffer[s]
    <2>1. Head(buffer[s]) \in PieceType /\ Head(buffer[s]) = buffer[s][1]
      BY <1>1, <1>4, SMT DEF Lists
    <2> DEFINE h == Head(buffer[s])
    <2> HIDE DEF h
    <2>2. h \in PieceType /\ file' = Append(file, h) /\ h = buffer[s][1]
      BY <1>1, <2>1, Zenon DEF h
    <2>3. /\ n \in Nat /\ Len(file') = n + 1 /\ file' \in Lists
          /\ DOMAIN file = 1 .. n /\ DOMAIN file' = 1 .. n + 1
          /\ \A i \in 1 .. n : file'[i] = file[i]
          /\ file'[n + 1] = h
      BY <1>4, <2>2, SMT DEF Lists
    <2>4. Len(buffer[s]) \in Nat /\ Len(buffer[s]) >= 1 /\ 1 \in DOMAIN buffer[s]
      BY <1>1, <1>4, SMT DEF Lists
    <2>5. QED
      BY <2>2, <2>3, <2>4, Zenon
  <1>6. Stream(s)' = x
    <2>1. Stream(s)' = Append(file, Head(buffer[s])) \o Tail(buffer[s])
      BY <1>1, Zenon DEF Stream
    <2> DEFINE b == buffer[s]
    <2> HIDE DEF b
    <2>2. b \in Lists /\ b # <<>>
      BY <1>1, <1>4, Zenon DEF b
    <2>3. Append(file, Head(b)) \o Tail(b) = file \o b
      BY <1>4, <2>2, SMTT(30) DEF Lists
    <2>4. QED
      BY <2>1, <2>3, Zenon DEF Stream, b
  <1>7. /\ Len(x) = n + Len(buffer[s])
        /\ \A i \in 1 .. n : x[i] = file[i]
        /\ \A k \in 1 .. Len(buffer[s]) : x[n + k] = buffer[s][k]
    BY StreamStartsWithFile, Zenon DEF Intact
  <1> HIDE DEF x
  <1>8. /\ n + 1 <= Len(x) /\ \A i \in 1 .. n + 1 : i \in 1 .. n \/ i = n + 1
        /\ 1 \in 1 .. Len(buffer[s]) /\ DOMAIN x = 1 .. Len(x)
        /\ \A i \in 1 .. n + 1 : i \in 1 .. Len(x)
    BY <1>4, <1>5, <1>7, SMT DEF Lists
  <1>9. \A i \in 1 .. n + 1 : file'[i] = x[i]
    BY <1>5, <1>7, <1>8, Zenon
  <1>10. Sound(file')
    BY <1>3, <1>4, <1>5, <1>8, <1>9, BeginningSound, Zenon
  <1> HIDE DEF n
  <1>11. FileIsSound'
    <2>1. \A i \in 1 .. n + 1 : x[i].payload[2] <= calls[Owner(x[i])]
      BY <1>3, <1>8, Zenon DEF Counted
    <2>2. \A i \in DOMAIN file' : file'[i].payload[2] <= calls'[Owner(file'[i])]
      BY <1>1, <1>5, <1>9, <2>1, Zenon
    <2>3. QED
      BY <1>10, <2>2, Zenon DEF FileIsSound, Counted, Owner
  <1>12. OpenedFirst'
    <2>1. mode[s] # "unopened"
      BY <1>2, Zenon DEF Running
    <2>2. Owner(file'[n + 1]) = s
      BY <1>3, <1>5, Zenon
    <2>3. \A i \in 1 .. n + 1 : mode[Owner(file'[i])] # "unopened"
      BY <1>5, <1>8, <2>1, <2>2, Zenon DEF Intact, OpenedFirst
    <2>4. QED
      BY <1>1, <1>5, <2>3, Zenon DEF OpenedFirst, Owner
  <1>13. \A t \in Sessions : Running(t)' => t = s
    BY <1>1, <1>2, Zenon DEF Intact, OneRunning, Running
  <1>14. Streams'
    <2>1. Sound(Stream(s)')
      BY <1>3, <1>6, Zenon
    <2>2. Counted(Stream(s))'
      BY <1>1, <1>3, <1>6, Zenon DEF Counted, Owner
    <2>3. Tip(s)' /\ Pending(s)'
      BY <1>1, <1>3, <1>6, Zenon DEF Tip, Pending, Owner, x
    <2>4. \A i \in DOMAIN buffer'[s] : Owner(buffer'[s][i]) = s
      <3>1. /\ DOMAIN Tail(buffer[s]) = 1 .. Len(buffer[s]) - 1
            /\ \A i \in 1 .. Len(buffer[s]) - 1 :
                 Tail(buffer[s])[i] = buffer[s][i + 1] /\ i + 1 \in DOMAIN buffer[s]
        BY <1>1, <1>4, SMT DEF Lists
      <3>2. QED
        BY <1>1, <1>3, <3>1, Zenon
    <2>5. QED
      BY <1>13, <2>1, <2>2, <2>3, <2>4, Zenon DEF Streams, Owner
  <1>15. RecordedIsWritten'
    <2> SUFFICES ASSUME NEW i \in DOMAIN recorded'
                 PROVE  \E e \in DOMAIN file' :
                          /\ file'[e].piece = Pieces /\ file'[e].payload = recorded'[i]
                          /\ \A j \in 1 .. i - 1, d \in DOMAIN file' :
                               file'[d].payload = recorded'[j] => d < e
      BY DEF RecordedIsWritten
    <2>0. recorded' = recorded /\ i \in DOMAIN recorded
      BY <1>1
    <2>1. PICK e \in DOMAIN file :
            /\ file[e].piece = Pieces /\ file[e].payload = recorded[i]
            /\ \A j \in 1 .. i - 1, d \in DOMAIN file : file[d].payload = recorded[j] => d < e
      BY <2>0, Zenon DEF Intact, RecordedIsWritten
    <2>2. e \in 1 .. n + 1 /\ \A j \in 1 .. i - 1 : j \in DOMAIN recorded
      <3>1. i \in 1 .. Len(recorded) /\ DOMAIN recorded = 1 .. Len(recorded)
            /\ Len(recorded) \in Nat
        BY <2>0, Types, SMT DEF Intact
      <3>2. QED
        BY <1>5, <3>1, SMT
    <2>3. file'[e].piece = Pieces /\ file'[e].payload = recorded[i]
      BY <1>5, <2>1, Zenon
    <2>4. ASSUME NEW j \in 1 .. i - 1, file'[n + 1].payload = recorded[j]
          PROVE  FALSE
      <3>1. PICK c \in DOMAIN file : file[c].piece = Pieces /\ file[c].payload = recorded[j]
        BY <2>2, <2>4, Zenon DEF Intact, RecordedIsWritten
      <3>2. c \in 1 .. n /\ c \in 1 .. Len(x) /\ n + 1 \in 1 .. Len(x)
        BY <1>5, <1>8, SMT
      <3>3. x[c].piece = Pieces /\ x[c].payload = x[n + 1].payload
        BY <1>5, <1>7, <1>8, <2>4, <3>1, <3>2, Zenon
      <3>4. (n + 1) - c = x[n + 1].piece - x[c].piece
        BY <1>3, <1>8, <3>2, <3>3, Zenon DEF Sound, WrittenOnce
      <3>5. x[n + 1].piece \in Nat /\ x[n + 1].piece <= Pieces /\ Pieces \in Nat
        BY <1>4, <3>2, PieceFacts, AuditAssumption, SMT
      <3>6. QED
        BY <1>5, <3>2, <3>3, <3>4, <3>5, SMT
    <2>5. ASSUME NEW j \in 1 .. i - 1, NEW d \in 1 .. n + 1, file'[d].payload = recorded[j]
          PROVE  d < e
      <3>1. CASE d \in 1 .. n
        BY <1>5, <2>1, <2>5, <3>1, Zenon
      <3>2. CASE d = n + 1
        BY <2>4, <2>5, <3>2, Zenon
      <3>3. QED
        BY <1>8, <2>5, <3>1, <3>2, Zenon
    <2>6. QED
      BY <1>5, <2>0, <2>2, <2>3, <2>5, Zenon
  <1>16. OneRunning'
    BY <1>13, Zenon DEF OneRunning
  <1>17. QED
    BY <1>11, <1>12, <1>14, <1>15, <1>16, Zenon DEF Intact

(* The line of the call that returns is the last one of the file.          *)
LEMMA IntactFlushed ==
  ASSUME Intact, TypeOK', NEW s \in Sessions, Flushed(s)
  PROVE  Intact'
  <1> DEFINE p == <<s, calls[s]>>
             n == Len(file)
             m == Len(recorded)
  <1>1. /\ mode \in [Sessions -> Modes] /\ calls \in [Sessions -> 0 .. MaxRecords]
        /\ recorded \in Seq(Payloads) /\ file \in Lists
    BY Zenon DEF Intact, TypeOK, Modes, Lists
  <1>2. /\ mode[s] = "flushing" /\ buffer[s] = <<>> /\ mode'[s] = "open"
        /\ \A t \in Sessions : t # s => mode'[t] = mode[t]
        /\ recorded' = Append(recorded, p)
        /\ UNCHANGED <<file, prevHmac, buffer, calls>>
    BY <1>1, Zenon DEF Flushed, Goto
  <1>3. Running(s) /\ Running(s)'
    BY <1>2, Zenon DEF Running
  <1>4. calls[s] <= calls[s]
    BY <1>1, AuditAssumption, SMT
  <1>5. OneRunning' /\ Streams' /\ FileIsSound' /\ OpenedFirst'
    <2>1. /\ mode'[s] # "flushing" /\ mode'[s] # "unopened" /\ UNCHANGED <<file, buffer>>
          /\ calls[s] <= calls'[s]
          /\ Running(s)' => Running(s) /\ prevHmac'[s] = prevHmac[s]
          /\ \A t \in Sessions : t # s => mode'[t] = mode[t] /\ prevHmac'[t] = prevHmac[t]
                                      /\ calls'[t] = calls[t]
      BY <1>2, <1>3, <1>4, Zenon
    <2>2. QED
      BY <1>3, <2>1, Quiet, Zenon
  <1>6. Stream(s) = file
    BY <1>2, EmptyBuffer, Zenon DEF Intact
  <1>7. /\ n > 0 /\ file[n].piece = Pieces /\ file[n].payload = p
        /\ \A i \in DOMAIN recorded : recorded[i] # p
    <2>1. Tip(s) /\ Pending(s)
      BY <1>3, Zenon DEF Intact, Streams
    <2>2. QED
      BY <1>2, <1>6, <2>1, Zenon DEF Tip, Pending
  <1>8. n \in Nat /\ DOMAIN file = 1 .. n /\ n \in DOMAIN file
        /\ \A d \in DOMAIN file : d # n => d < n
    BY <1>1, <1>7, SMT DEF Lists
  <1> HIDE DEF p
  <1>9. p \in Payloads
    BY <1>1, <1>7, <1>8, PieceFacts, Zenon
  <1>10. /\ m \in Nat /\ DOMAIN recorded = 1 .. m /\ DOMAIN recorded' = 1 .. m + 1
         /\ \A i \in 1 .. m : recorded'[i] = recorded[i]
         /\ recorded'[m + 1] = p
    BY <1>1, <1>2, <1>9, SMT
  <1> HIDE DEF m, n
  <1>11. RecordedIsWritten'
    <2> SUFFICES ASSUME NEW i \in DOMAIN recorded'
                 PROVE  \E e \in DOMAIN file' :
                          /\ file'[e].piece = Pieces /\ file'[e].payload = recorded'[i]
                          /\ \A j \in 1 .. i - 1, d \in DOMAIN file' :
                               file'[d].payload = recorded'[j] => d < e
      BY DEF RecordedIsWritten
    <2>0. file' = file /\ i \in 1 .. m + 1
      BY <1>2, <1>10
    <2>1. \A j \in 1 .. i - 1 : j \in 1 .. m
      BY <1>10, <2>0, SMT
    <2>2. CASE i \in 1 .. m
      <3>1. PICK e \in DOMAIN file :
              /\ file[e].piece = Pieces /\ file[e].payload = recorded[i]
              /\ \A j \in 1 .. i - 1, d \in DOMAIN file : file[d].payload = recorded[j] => d < e
        BY <1>10, <2>2, Zenon DEF Intact, RecordedIsWritten
      <3>2. QED
        BY <1>10, <2>0, <2>1, <2>2, <3>1, Zenon
    <2>3. CASE i = m + 1
      <3>1. ASSUME NEW j \in 1 .. i - 1, NEW d \in DOMAIN file, file[d].payload = recorded'[j]
            PROVE  d < n
        <4>1. recorded'[j] # p
          BY <1>7, <1>10, <2>1, <3>1, Zenon
        <4>2. d # n
          BY <1>7, <3>1, <4>1, Zenon
        <4>3. QED
          BY <1>8, <3>1, <4>2, Zenon
      <3>2. file[n].payload = recorded'[i] /\ file[n].piece = Pieces
        BY <1>7, <1>10, <2>3, Zenon
      <3>3. QED
        BY <1>8, <2>0, <3>1, <3>2, Zenon
    <2>4. QED
      <3>1. i \in 1 .. m \/ i = m + 1
        BY <1>10, <2>0, SMT
      <3>2. QED
        BY <2>2, <2>3, <3>1, Zenon
  <1>12. QED
    BY <1>5, <1>11, Zenon DEF Intact

LEMMA IntactStep == Intact /\ [Next]_vars => Intact'
  <1> SUFFICES ASSUME Intact, [Next]_vars PROVE Intact'
    OBVIOUS
  <1>1. \A s \in Sessions : mode[s] = "flushing" => calls[s] # 0
    <2> SUFFICES ASSUME NEW s \in Sessions, mode[s] = "flushing", calls[s] = 0
                 PROVE  FALSE
      OBVIOUS
    <2> DEFINE x == Stream(s)
    <2>1. Tip(s) /\ Pending(s) /\ x \in Lists
      BY Types, Zenon DEF Intact, Streams, Running
    <2>2. Len(x) > 0 /\ x[Len(x)].payload = <<s, calls[s]>>
      BY <2>1, Zenon DEF Pending, Tip
    <2> HIDE DEF x
    <2>3. Len(x) \in 1 .. Len(x)
      BY <2>1, <2>2, SMT DEF Lists
    <2>4. <<s, calls[s]>> \in Payloads
      BY <2>1, <2>2, <2>3, PieceFacts, Zenon
    <2>5. calls[s] \in 1 .. MaxRecords
      BY <2>4, SMT DEF Payloads
    <2>6. QED
      BY <2>5, SMT
  <1>2. TypeOK'
    BY <1>1, TypesStep, Zenon DEF Intact
  <1>3. CASE UNCHANGED vars
    <2>1. UNCHANGED <<file, buffer, mode, prevHmac, calls, recorded>>
      BY <1>3, Zenon DEF vars
    <2>2. OneRunning' /\ OpenedFirst' /\ RecordedIsWritten'
      BY <2>1, SameRecorded, Zenon DEF Intact, OneRunning, OpenedFirst, Running, Owner
    <2>3. FileIsSound'
      <3>1. Sound(file')
        BY <2>1, Zenon DEF Intact, FileIsSound
      <3>2. QED
        BY <2>1, <3>1, Zenon DEF Intact, FileIsSound, Counted, Owner
    <2>4. ASSUME NEW s \in Sessions, Running(s)
          PROVE  /\ Sound(Stream(s)') /\ Counted(Stream(s))' /\ Tip(s)' /\ Pending(s)'
                 /\ \A i \in DOMAIN buffer[s] : Owner(buffer[s][i]) = s
      <3>1. /\ Sound(Stream(s)) /\ Counted(Stream(s)) /\ Tip(s) /\ Pending(s)
            /\ \A i \in DOMAIN buffer[s] : Owner(buffer[s][i]) = s
        BY <2>4, Zenon DEF Intact, Streams
      <3>2. Stream(s)' = Stream(s)
        BY <2>1, Zenon DEF Stream
      <3>3. Counted(Stream(s))' /\ Tip(s)' /\ Pending(s)'
        BY <2>1, <3>1, <3>2, Zenon DEF Counted, Tip, Pending, Owner
      <3>4. QED
        BY <3>1, <3>2, <3>3, Zenon
    <2>5. Streams'
      BY <2>1, <2>4, Zenon DEF Streams, Running, Owner
    <2>6. QED
      BY <1>2, <2>2, <2>3, <2>5, Zenon DEF Intact
  <1>4. CASE Next
    <2>1. PICK s \in Sessions :
            \/ Open(s) \/ RecordRefused(s) \/ Record(s) \/ RecordClosed(s)
            \/ Write(s) \/ WriteFails(s) \/ Flushed(s)
            \/ Close(s) \/ Closed(s) \/ Kill(s)
      BY <1>4, Zenon DEF Next
    <2>2. CASE RecordRefused(s) \/ RecordClosed(s) \/ WriteFails(s) \/ Close(s) \/ Closed(s)
      BY <1>2, <2>2, IntactQuiet, Zenon
    <2>3. CASE Open(s)
      BY <1>2, <2>3, IntactOpen, Zenon
    <2>4. CASE Record(s)
      BY <1>2, <2>4, IntactRecord, Zenon
    <2>5. CASE Write(s)
      BY <1>2, <2>5, IntactWrite, Zenon
    <2>6. CASE Flushed(s)
      BY <1>2, <2>6, IntactFlushed, Zenon
    <2>7. CASE Kill(s)
      BY <1>2, <2>7, IntactKill, Zenon
    <2>8. QED
      BY <2>1, <2>2, <2>3, <2>4, <2>5, <2>6, <2>7, Zenon
  <1>5. QED
    BY <1>3, <1>4, Zenon

-----------------------------------------------------------------------------
LEMMA IntactAlways == Spec => []Intact
  BY IntactInit, IntactStep, PTL DEF Spec

(* The types of the audit trail: among them, that no session but a running *)
(* one has anything in its buffer.                                         *)
THEOREM TrailTypes == Spec => []TypeOK
  <1>1. Intact => TypeOK
    BY DEF Intact
  <1>2. QED
    BY <1>1, IntactAlways, PTL

(* The records of a session verify at every moment, whatever was refused,  *)
(* failed or died, up to the one that an earlier torn line swallows.       *)
THEOREM SessionsAlwaysVerify == Spec => []SessionsVerify
  <1>1. Intact => SessionsVerify
    <2> SUFFICES ASSUME Intact PROVE SessionsVerify
      OBVIOUS
    <2>1. file \in Lists /\ Sound(file)
      BY Types, Zenon DEF Intact, FileIsSound
    <2>2. QED
      BY <2>1, SoundVerifies, Zenon
  <1>2. QED
    BY <1>1, IntactAlways, PTL

(* A record() that returned is never lost: it can be read in the order of  *)
(* the calls, or it is the first of its session, behind a torn line.       *)
THEOREM RecordedIsKept == Spec => []RecordedIsReadable
  <1>1. Intact => RecordedIsReadable
    <2> SUFFICES ASSUME Intact PROVE RecordedIsReadable
      OBVIOUS
    <2>1. /\ file \in Lists /\ Sound(file) /\ RecordedIsWritten
          /\ recorded \in Seq(Payloads)
      BY Types, Zenon DEF Intact, FileIsSound
    <2>2. QED
      BY <2>1, WrittenIsReadable, Zenon
  <1>2. QED
    BY <1>1, IntactAlways, PTL
=============================================================================
