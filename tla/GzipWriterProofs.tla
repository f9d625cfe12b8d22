--------------------------- MODULE GzipWriterProofs ---------------------------
(****************************************************************************)
(* That a body gets through the compressing writer whole, under a head that *)
(* describes it, for any threshold, any statuses and a body of any length.  *)
(*                                                                          *)
(* The writer is in one of four states.  It holds the body back in buf; or  *)
(* it has sent the head and passes the body on plain, or through gzip; or   *)
(* gzip has rejected the level after the head was sent.  In each, what is   *)
(* on the wire, in the gzip.Writer and in buf are consecutive units.        *)
(****************************************************************************)
EXTENDS GzipWriter, SequenceTheorems, TLAPS

(* The units after the first m, in order. *)
Consecutive(s, m) == s \in Seq(Nat) /\ \A k \in 1..Len(s) : s[k] = m + k

Entry == [unit : Nat, enc : {"plain", "gzip"}]

(* The first m units on the wire, all in one encoding. *)
Shown(w, enc, m) ==
    /\ w \in Seq(Entry) /\ Len(w) = m
    /\ \A k \in 1..m : w[k] = [unit |-> k, enc |-> enc]

LEMMA NextAreConsecutive ==
    ASSUME n \in Nat, NEW k \in Nat
    PROVE  Consecutive(NextUnits(k), n) /\ Len(NextUnits(k)) = k
<1>1. \A j \in 1..k : n + j \in Nat
  OBVIOUS
<1>2. NextUnits(k) \in Seq(Nat) /\ Len(NextUnits(k)) = k
  BY <1>1 DEF NextUnits
<1> QED
  BY <1>2 DEF NextUnits, Consecutive

LEMMA ConsecutiveJoin ==
    ASSUME NEW m \in Nat, NEW s, Consecutive(s, m), NEW u, Consecutive(u, m + Len(s))
    PROVE  Consecutive(s \o u, m) /\ Len(s \o u) = Len(s) + Len(u)
<1>1. s \in Seq(Nat) /\ u \in Seq(Nat) /\ Len(s) \in Nat /\ Len(u) \in Nat
  BY LenProperties DEF Consecutive
<1>2. /\ s \o u \in Seq(Nat) /\ Len(s \o u) = Len(s) + Len(u)
      /\ \A i \in 1..(Len(s) + Len(u)) :
            (s \o u)[i] = IF i <= Len(s) THEN s[i] ELSE u[i - Len(s)]
  BY <1>1, ConcatProperties
<1>3. ASSUME NEW i \in 1..(Len(s) + Len(u))
      PROVE  (s \o u)[i] = m + i
  <2>1. CASE i <= Len(s)
    BY <1>1, <1>2, <2>1 DEF Consecutive
  <2>2. CASE ~(i <= Len(s))
    <3>1. i - Len(s) \in 1..Len(u)
      BY <1>1, <2>2
    <3>2. u[i - Len(s)] = (m + Len(s)) + (i - Len(s))
      BY <3>1 DEF Consecutive
    <3> QED
      BY <1>1, <1>2, <2>2, <3>2
  <2> QED
    BY <2>1, <2>2
<1> QED
  BY <1>2, <1>3 DEF Consecutive

(* What is written after the first m units shows them and its own.          *)
LEMMA ShownJoin ==
    ASSUME NEW m \in Nat, NEW w, NEW enc \in {"plain", "gzip"}, Shown(w, enc, m),
           NEW s, Consecutive(s, m)
    PROVE  Shown(w \o Encoded(s, enc), enc, m + Len(s))
<1> DEFINE e == Encoded(s, enc)
<1>1. s \in Seq(Nat) /\ Len(s) \in Nat /\ \A k \in 1..Len(s) : s[k] = m + k /\ s[k] \in Nat
  BY LenProperties, ElementOfSeq DEF Consecutive
<1>2. /\ e \in Seq(Entry) /\ Len(e) = Len(s)
      /\ \A k \in 1..Len(s) : e[k] = [unit |-> m + k, enc |-> enc]
  <2>1. \A k \in 1..Len(s) : [unit |-> s[k], enc |-> enc] \in Entry
    BY <1>1 DEF Entry
  <2>2. e = [k \in 1..Len(s) |-> [unit |-> s[k], enc |-> enc]]
    BY DEF Encoded
  <2>3. e \in Seq(Entry) /\ Len(e) = Len(s)
    BY <1>1, <2>1, <2>2
  <2>4. \A k \in 1..Len(s) : e[k] = [unit |-> s[k], enc |-> enc] /\ s[k] = m + k
    BY <1>1, <2>2
  <2> QED
    BY <2>3, <2>4
<1>3. w \in Seq(Entry) /\ Len(w) = m /\ \A k \in 1..m : w[k] = [unit |-> k, enc |-> enc]
  BY DEF Shown
<1> HIDE DEF e
<1>4. /\ w \o e \in Seq(Entry) /\ Len(w \o e) = m + Len(s)
      /\ \A i \in 1..(m + Len(s)) : (w \o e)[i] = IF i <= m THEN w[i] ELSE e[i - m]
  <2>1. e \in Seq(Entry) /\ w \in Seq(Entry)
    BY <1>2, <1>3
  <2>2. /\ w \o e \in Seq(Entry) /\ Len(w \o e) = Len(w) + Len(e)
        /\ \A i \in 1..(Len(w) + Len(e)) :
              (w \o e)[i] = IF i <= Len(w) THEN w[i] ELSE e[i - Len(w)]
    BY <2>1, ConcatProperties
  <2>3. Len(w) = m /\ Len(e) = Len(s)
    BY <1>2, <1>3
  <2> QED
    BY <2>2, <2>3
<1>5. ASSUME NEW i \in 1..(m + Len(s))
      PROVE  (w \o e)[i] = [unit |-> i, enc |-> enc]
  <2>1. CASE i <= m
    BY <1>3, <1>4, <2>1
  <2>2. CASE ~(i <= m)
    <3>1. i - m \in 1..Len(s) /\ m + (i - m) = i
      BY <1>1, <2>2
    <3> QED
      BY <1>2, <1>4, <2>2, <3>1
  <2> QED
    BY <2>1, <2>2
<1>6. Shown(w \o e, enc, m + Len(s))
  BY <1>4, <1>5 DEF Shown
<1> QED
  BY <1>6 DEF e

LEMMA NothingIsConsecutive ==
    /\ \A m : Consecutive(<<>>, m)
    /\ \A enc : Shown(<<>>, enc, 0)
BY DEF Consecutive, Shown

Ended == phase \in {"recovering", "recovered", "done", "hijacked"}
Due == IF wanted = None THEN 200 ELSE wanted
HeadIsSent == committed /\ sent = [header |-> header, status |-> Due]
                        /\ status \in Statuses

Basic ==
    /\ levelOk \in BOOLEAN /\ committed \in BOOLEAN /\ gzipping \in BOOLEAN
    /\ passthrough \in BOOLEAN /\ trailer \in BOOLEAN /\ early \in BOOLEAN
    /\ broken \in BOOLEAN /\ own \in BOOLEAN
    /\ header \in Header
    /\ wanted \in Statuses \cup {None}
    /\ n \in 0..MaxUnits /\ flushed \in 0..n
    /\ phase \in {"running", "panicking", "recovering", "recovered", "done",
                  "hijacked"}
    /\ gz = "closed" => Ended

Buffering ==
    /\ ~committed /\ ~gzipping /\ ~passthrough /\ ~broken /\ ~early /\ ~trailer /\ ~Ended
    /\ gz = "nil" /\ pending = <<>> /\ wire = <<>> /\ sent = None
    /\ Consecutive(buf, 0) /\ Len(buf) = n /\ n < MinSize
    /\ status \in Statuses \cup {None} /\ StatusOrOK = Due
    /\ header.ce \in {"none", "br"} /\ (own <=> header.ce = "br")
    /\ wanted # None => Compressible(header.ct)
    /\ wanted = None => n = 0
    /\ flushed = 0

Plain ==
    /\ HeadIsSent /\ ~gzipping /\ ~broken /\ ~trailer
    /\ gz = "nil" /\ pending = <<>> /\ buf = <<>>
    /\ Shown(wire, "plain", n)
    /\ header.ce \in {"none", "br"} /\ (own <=> header.ce = "br")
    /\ ~Compressible(header.ct) \/ early \/ (Ended /\ n < MinSize)
    /\ ~Ended => passthrough /\ wanted # None

GzipHead ==
    /\ HeadIsSent /\ gzipping /\ ~passthrough /\ ~early /\ wanted # None
    /\ header.ce = "gzip" /\ ~header.len /\ Compressible(header.ct)
    /\ n >= MinSize

Gzipped ==
    /\ GzipHead /\ ~broken
    /\ buf = <<>>
    /\ Len(wire) \in flushed..n
    /\ Shown(wire, "gzip", Len(wire))
    /\ Consecutive(pending, Len(wire)) /\ Len(wire) + Len(pending) = n
    /\ IF Ended THEN gz \in {"nil", "closed"} /\ trailer /\ pending = <<>>
                ELSE gz = "open"

Rejected ==
    /\ GzipHead /\ broken
    /\ gz = "nil" /\ wire = <<>> /\ pending = <<>>
    /\ Consecutive(buf, 0) /\ Len(buf) = n

WriterInv == Basic /\ (Buffering \/ Plain \/ Gzipped \/ Rejected)

-----------------------------------------------------------------------------
(* The steps, each from the states of the writer in which it can be taken.  *)

LEMMA WriterFacts ==
    ASSUME WriterInv
    PROVE  /\ n \in Nat /\ MaxUnits \in Nat /\ MinSize \in Nat \ {0}
           /\ wanted = None \/ wanted \in Statuses
           /\ None \notin Statuses /\ 200 \in Statuses
           /\ Due \in Statuses
           /\ \A h \in Header, st \in Statuses : [header |-> h, status |-> st] # None
           /\ header \in Header
<1>1. /\ n \in 0..MaxUnits /\ wanted \in Statuses \cup {None} /\ header \in Header
  BY DEF WriterInv, Basic
<1>2. \A h \in Header, st \in Statuses :
        [header |-> h, status |-> st] \in [header : Header, status : Nat]
  BY GzipAssumption
<1>3. Due \in Statuses
  BY <1>1, GzipAssumption DEF Due
<1> QED
  BY <1>1, <1>2, <1>3, GzipAssumption, NoneIsNoHead

LEMMA SetHeaderStep ==
    ASSUME WriterInv, SetHeader
    PROVE  WriterInv'
<1> USE DEF SetHeader, writerVars, clientVars
<1>1. Buffering /\ n = 0
  BY DEF WriterInv, Buffering, Plain, GzipHead, Gzipped, Rejected, Ended
<1>2. header' \in Header /\ header'.ce \in {"none", "br"} /\ (own' <=> header'.ce = "br")
  <2>1. header \in Header /\ header.ce \in {"none", "br"}
    BY <1>1 DEF WriterInv, Basic, Buffering
  <2>2. ASSUME NEW c \in {"text", "event-stream", "image"},
               header' = [header EXCEPT !.ct = c]
        PROVE  header' \in Header /\ header'.ce \in {"none", "br"}
    BY <2>1, <2>2 DEF Header
  <2>3. CASE header' = [header EXCEPT !.len = TRUE]
    BY <2>1, <2>3 DEF Header
  <2>4. CASE header' = [header EXCEPT !.ce = "br"]
    BY <2>1, <2>4 DEF Header
  <2>5. header' \in Header /\ header'.ce \in {"none", "br"}
    BY <2>2, <2>3, <2>4
  <2> QED
    BY <2>5
<1>3. own' \in BOOLEAN
  OBVIOUS
<1>4. Basic'
  BY <1>2, <1>3 DEF WriterInv, Basic, Ended
<1>5. Buffering'
  BY <1>1, <1>2 DEF Buffering, Ended, Due, StatusOrOK
<1> QED
  BY <1>4, <1>5 DEF WriterInv

LEMMA WriteHeaderStep ==
    ASSUME WriterInv, NEW code \in Statuses, WriteHeader(code)
    PROVE  WriterInv'
<1> USE DEF WriteHeader, clientVars
<1>1. Buffering /\ n = 0 /\ buf = <<>>
  <2>1. Buffering /\ n = 0
    BY DEF WriterInv, Buffering, Plain, GzipHead, Gzipped, Rejected, Ended
  <2> QED
    BY <2>1, EmptySeq DEF Buffering, Consecutive
<1>2. Basic'
  <2>1. committed' \in BOOLEAN /\ passthrough' \in BOOLEAN
    BY DEF WriterInv, Basic
  <2> QED
    BY <2>1 DEF WriterInv, Basic, Ended
<1>3. CASE Compressible(header.ct)
  <2>1. status' \in Statuses \cup {None} /\ StatusOrOK' = Due'
    BY <1>3, WriterFacts DEF Due, StatusOrOK
  <2>2. wanted' # None /\ UNCHANGED <<buf, n, flushed>>
    BY <1>3, WriterFacts
  <2>3. Buffering'
    BY <1>1, <1>3, <2>1, <2>2 DEF Buffering, Ended, Consecutive
  <2> QED
    BY <1>2, <2>3 DEF WriterInv
<1>4. CASE ~Compressible(header.ct)
  <2>1. HeadIsSent'
    BY <1>1, <1>4, WriterFacts DEF Buffering, HeadIsSent, Due, Sent
  <2>2. Shown(wire', "plain", n')
    BY <1>1, <1>4, NothingIsConsecutive DEF Buffering
  <2>3. /\ passthrough' /\ wanted' # None /\ buf' = <<>>
        /\ UNCHANGED <<header, gzipping, gz, pending, early, broken, own, phase, trailer>>
    BY <1>1, <1>4, WriterFacts
  <2>4. Plain'
    BY <1>1, <1>4, <2>1, <2>2, <2>3 DEF Buffering, Plain
  <2> QED
    BY <1>2, <2>4 DEF WriterInv
<1> QED
  BY <1>3, <1>4

(* The buffer and what follows it go out plain under the head. *)
LEMMA CommitFromBuffer ==
    ASSUME WriterInv, Buffering, NEW more, Consecutive(more, n), CommitUncompressed(more),
           UNCHANGED header, Due' = Due
    PROVE  /\ HeadIsSent' /\ buf' = <<>>
           /\ Shown(wire', "plain", n + Len(more))
<1>1. HeadIsSent'
  BY WriterFacts DEF Buffering, CommitUncompressed, HeadIsSent, Sent
<1>2. Consecutive(buf \o more, 0) /\ Len(buf \o more) = n + Len(more)
  <2>1. Consecutive(buf, 0) /\ Len(buf) = n /\ 0 + n = n
    BY WriterFacts DEF Buffering
  <2> QED
    BY <2>1, ConsecutiveJoin
<1>3. Shown(wire \o Encoded(buf \o more, "plain"), "plain", 0 + Len(buf \o more))
  <2>1. Shown(wire, "plain", 0)
    BY NothingIsConsecutive DEF Buffering
  <2> QED
    BY <1>2, <2>1, ShownJoin
<1>4. Len(more) \in Nat
  BY LenProperties DEF Consecutive
<1>5. ~committed /\ 0 + Len(buf \o more) = n + Len(more)
  BY <1>2, <1>4, WriterFacts DEF Buffering
<1> QED
  BY <1>1, <1>3, <1>5 DEF CommitUncompressed

LEMMA AcceptStep ==
    ASSUME WriterInv, NEW k \in 1..(MaxUnits - n), Accept(k)
    PROVE  /\ n' = n + k /\ n' \in 0..MaxUnits /\ flushed \in 0..n'
           /\ wanted' \in Statuses /\ wanted' # None /\ Due' = Due /\ k \in Nat
           /\ Consecutive(NextUnits(k), n) /\ Len(NextUnits(k)) = k
<1>1. k \in Nat /\ n + k \in 0..MaxUnits /\ flushed \in 0..(n + k)
  BY WriterFacts DEF WriterInv, Basic
<1> QED
  BY <1>1, WriterFacts, NextAreConsecutive DEF Accept, Due

LEMMA WritePlainStep ==
    ASSUME WriterInv, NEW k \in 1..(MaxUnits - n), WritePlain(k)
    PROVE  WriterInv'
<1> DEFINE more == NextUnits(k)
<1>1. /\ n' = n + k /\ n' \in 0..MaxUnits /\ flushed \in 0..n'
      /\ wanted' \in Statuses /\ wanted' # None /\ Due' = Due /\ k \in Nat
      /\ Consecutive(more, n) /\ Len(more) = k
  BY AcceptStep DEF WritePlain
<1>2. /\ phase = "running" /\ CommitUncompressed(more)
      /\ passthrough' /\ passthrough' \in BOOLEAN /\ committed' \in BOOLEAN
      /\ UNCHANGED <<levelOk, header, gzipping, gz, pending, trailer, early,
                     flushed, broken, own, phase>>
  BY DEF WritePlain, CommitUncompressed
<1>3. Basic'
  BY <1>1, <1>2 DEF WriterInv, Basic, Ended
<1>4. CASE Buffering
  <2>1. HeadIsSent' /\ buf' = <<>> /\ Shown(wire', "plain", n')
    BY <1>1, <1>2, <1>4, CommitFromBuffer
  <2>2. ~Compressible(header.ct)
    BY <1>4 DEF Buffering, WritePlain
  <2>3. Plain'
    BY <1>1, <1>2, <1>4, <2>1, <2>2 DEF Buffering, Plain, Ended
  <2> QED
    BY <1>3, <2>3 DEF WriterInv
<1>5. CASE Plain
  <2>1. HeadIsSent' /\ buf' = <<>> /\ wire' = wire \o Encoded(more, "plain")
    BY <1>1, <1>2, <1>5, WriterFacts DEF Plain, HeadIsSent, CommitUncompressed, Sent
  <2>2. Shown(wire', "plain", n')
    BY <1>1, <1>5, <2>1, ShownJoin, WriterFacts DEF Plain
  <2>3. Plain'
    BY <1>1, <1>2, <1>5, <2>1, <2>2 DEF Plain, Ended
  <2> QED
    BY <1>3, <2>3 DEF WriterInv
<1>6. ~Gzipped /\ ~Rejected
  BY DEF WritePlain, GzipHead, Gzipped, Rejected
<1> QED
  BY <1>4, <1>5, <1>6 DEF WriterInv

LEMMA WriteBufferedStep ==
    ASSUME WriterInv, NEW k \in 1..(MaxUnits - n), WriteBuffered(k)
    PROVE  WriterInv'
<1> DEFINE more == NextUnits(k)
<1>1. /\ n' = n + k /\ n' \in 0..MaxUnits /\ flushed \in 0..n'
      /\ wanted' \in Statuses /\ wanted' # None /\ Due' = Due /\ k \in Nat
      /\ Consecutive(more, n) /\ Len(more) = k
  BY AcceptStep DEF WriteBuffered
<1>2. /\ phase = "running" /\ buf' = buf \o more /\ ~(Len(buf \o more) >= MinSize)
      /\ ~passthrough /\ Compressible(header.ct) /\ ~gzipping
      /\ UNCHANGED <<levelOk, header, status, committed, gzipping, passthrough,
                     gz, pending, sent, wire, trailer, early, flushed, broken, own, phase>>
  BY DEF WriteBuffered, BigEnough, clientVars
<1>3. Basic'
  BY <1>1, <1>2 DEF WriterInv, Basic, Ended
<1>4. Buffering
  BY <1>2 DEF WriterInv, Plain, Gzipped, Rejected, GzipHead, Ended
<1>5. Consecutive(buf \o more, 0) /\ Len(buf \o more) = n'
  <2>1. Consecutive(buf, 0) /\ Len(buf) = n /\ 0 + n = n
    BY <1>4, WriterFacts DEF Buffering
  <2> QED
    BY <1>1, <2>1, ConsecutiveJoin
<1>6. n' < MinSize
  BY <1>1, <1>2, <1>5, WriterFacts
<1>7. Buffering'
  BY <1>1, <1>2, <1>4, <1>5, <1>6 DEF Buffering, Ended, StatusOrOK
<1> QED
  BY <1>3, <1>7 DEF WriterInv

(* Whatever the gzip.Writer keeps back, what it has and has passed on       *)
(* stays in order.                                                          *)
LEMMA GzipWriteStep ==
    ASSUME NEW m \in Nat, Len(wire) = m, Shown(wire, "gzip", m), Consecutive(pending, m),
           NEW units, Consecutive(units, m + Len(pending)), GzipWrite(units)
    PROVE  /\ Len(wire') \in m..(m + Len(pending) + Len(units))
           /\ Shown(wire', "gzip", Len(wire'))
           /\ Consecutive(pending', Len(wire'))
           /\ Len(wire') + Len(pending') = m + Len(pending) + Len(units)
<1>1. Len(pending) \in Nat /\ Len(units) \in Nat
  BY LenProperties DEF Consecutive
<1>2. /\ Consecutive(pending \o units, m)
      /\ Len(pending \o units) = Len(pending) + Len(units)
  BY ConsecutiveJoin
<1>3. CASE pending' = pending \o units /\ UNCHANGED wire
  <2>1. Len(wire') = m /\ Shown(wire', "gzip", m) /\ Consecutive(pending', m)
    BY <1>2, <1>3
  <2>2. Len(pending') = Len(pending) + Len(units)
    BY <1>2, <1>3
  <2> QED
    BY <1>1, <2>1, <2>2
<1>4. CASE pending' = <<>> /\ wire' = wire \o Encoded(pending \o units, "gzip")
  <2>1. Shown(wire', "gzip", m + Len(pending \o units))
    BY <1>2, <1>4, ShownJoin
  <2>2. Len(wire') = m + Len(pending) + Len(units)
    BY <1>1, <1>2, <2>1 DEF Shown
  <2>3. Consecutive(pending', Len(wire')) /\ Len(pending') = 0
    BY <1>4, NothingIsConsecutive, EmptySeq
  <2> QED
    BY <1>1, <1>2, <2>1, <2>2, <2>3
<1> QED
  BY <1>3, <1>4 DEF GzipWrite

LEMMA WriteGzippedStep ==
    ASSUME WriterInv, NEW k \in 1..(MaxUnits - n), WriteGzipped(k)
    PROVE  WriterInv'
<1> DEFINE more == NextUnits(k)
<1>1. /\ n' = n + k /\ n' \in 0..MaxUnits /\ flushed \in 0..n'
      /\ wanted' \in Statuses /\ wanted' # None /\ Due' = Due /\ k \in Nat
      /\ Consecutive(more, n) /\ Len(more) = k
  BY AcceptStep DEF WriteGzipped
<1>2. /\ phase = "running" /\ gz = "open" /\ GzipWrite(more)
      /\ UNCHANGED <<levelOk, header, status, buf, committed, gzipping, passthrough,
                     gz, sent, trailer, early, flushed, broken, own, phase>>
  BY DEF WriteGzipped
<1>3. Basic'
  BY <1>1, <1>2 DEF WriterInv, Basic, Ended
<1>4. Gzipped
  BY <1>2 DEF WriterInv, Buffering, Plain, Rejected
<1>5. /\ Len(wire) \in Nat /\ Shown(wire, "gzip", Len(wire)) /\ flushed <= Len(wire)
      /\ Consecutive(pending, Len(wire)) /\ Len(wire) + Len(pending) = n
      /\ flushed \in Nat
  BY <1>1, <1>4 DEF Gzipped
<1>6. /\ Len(wire') \in Len(wire)..n'
      /\ Shown(wire', "gzip", Len(wire')) /\ Consecutive(pending', Len(wire'))
      /\ Len(wire') + Len(pending') = n'
  BY <1>1, <1>2, <1>5, GzipWriteStep
<1>7. Len(wire') \in flushed..n'
  BY <1>1, <1>5, <1>6
<1>8. HeadIsSent' /\ n' >= MinSize
  BY <1>1, <1>2, <1>4, WriterFacts DEF Gzipped, GzipHead, HeadIsSent
<1>9. GzipHead'
  BY <1>1, <1>2, <1>4, <1>8 DEF Gzipped, GzipHead
<1>10. Gzipped'
  BY <1>2, <1>4, <1>6, <1>7, <1>9 DEF Gzipped, Ended
<1> QED
  BY <1>3, <1>10 DEF WriterInv

LEMMA WriteStartsGzipStep ==
    ASSUME WriterInv, NEW k \in 1..(MaxUnits - n), WriteStartsGzip(k)
    PROVE  WriterInv'
<1> DEFINE more == NextUnits(k)
<1>1. /\ n' = n + k /\ n' \in 0..MaxUnits /\ flushed \in 0..n'
      /\ wanted' \in Statuses /\ wanted' # None /\ Due' = Due /\ k \in Nat
      /\ Consecutive(more, n) /\ Len(more) = k
  BY AcceptStep DEF WriteStartsGzip
<1>2. /\ phase = "running" /\ ~passthrough /\ Compressible(header.ct) /\ ~gzipping
      /\ Len(buf \o more) >= MinSize
      /\ header' = GzipHeader(header) /\ status' = StatusOrOK
      /\ sent' = Sent(header', StatusOrOK) /\ committed' = TRUE /\ gzipping' = TRUE
      /\ UNCHANGED <<levelOk, passthrough, trailer, early, flushed, own, phase>>
  BY DEF WriteStartsGzip, BigEnough
<1>3. /\ header' \in Header /\ header'.ce = "gzip" /\ ~header'.len
      /\ header'.ct = header.ct
  BY <1>2, WriterFacts DEF GzipHeader, Header
<1>4. Buffering
  BY <1>2 DEF WriterInv, Plain, Gzipped, Rejected, GzipHead, Ended
<1>5. Consecutive(buf \o more, 0) /\ Len(buf \o more) = n'
  <2>1. Consecutive(buf, 0) /\ Len(buf) = n /\ 0 + n = n
    BY <1>4, WriterFacts DEF Buffering
  <2> QED
    BY <1>1, <2>1, ConsecutiveJoin
<1>6. HeadIsSent'
  BY <1>1, <1>2, <1>4, WriterFacts DEF Buffering, HeadIsSent, Sent
<1>7. GzipHead'
  BY <1>1, <1>2, <1>3, <1>4, <1>5, <1>6 DEF GzipHead, Buffering, Compressible
<1>8. CASE /\ levelOk /\ gz' = "open" /\ buf' = <<>>
           /\ GzipWrite(buf \o more) /\ UNCHANGED broken
  <2>1. /\ Len(wire) = 0 /\ Shown(wire, "gzip", 0) /\ Consecutive(pending, 0)
        /\ Len(pending) = 0 /\ flushed = 0
    BY <1>4, NothingIsConsecutive, EmptySeq DEF Buffering
  <2>2. Consecutive(buf \o more, 0 + Len(pending))
    BY <1>5, <2>1
  <2>3. /\ Len(wire') \in 0..(0 + Len(pending) + Len(buf \o more))
        /\ Shown(wire', "gzip", Len(wire'))
        /\ Consecutive(pending', Len(wire'))
        /\ Len(wire') + Len(pending') = 0 + Len(pending) + Len(buf \o more)
    BY <1>8, <2>1, <2>2, GzipWriteStep
  <2>4. Len(wire') \in flushed'..n' /\ Len(wire') + Len(pending') = n'
    BY <1>1, <1>2, <1>5, <2>1, <2>3
  <2>5. Basic'
    BY <1>1, <1>2, <1>3, <1>8 DEF WriterInv, Basic, Ended
  <2>6. Gzipped'
    BY <1>2, <1>4, <1>7, <1>8, <2>3, <2>4 DEF Gzipped, Buffering, Ended
  <2> QED
    BY <2>5, <2>6 DEF WriterInv
<1>9. CASE /\ ~levelOk /\ buf' = buf \o more /\ broken' = TRUE
           /\ UNCHANGED <<gz, pending, wire>>
  <2>1. Basic'
    BY <1>1, <1>2, <1>3, <1>9 DEF WriterInv, Basic, Ended
  <2>2. Rejected'
    BY <1>1, <1>4, <1>5, <1>7, <1>9 DEF Rejected, Buffering
  <2> QED
    BY <2>1, <2>2 DEF WriterInv
<1> QED
  BY <1>8, <1>9 DEF WriteStartsGzip

LEMMA FlushStep ==
    ASSUME WriterInv, Flush
    PROVE  WriterInv'
<1>1. /\ phase = "running" /\ flushed' = n /\ early' = (early \/ n < MinSize)
      /\ wanted' = IF wanted = None THEN 200 ELSE wanted
      /\ UNCHANGED <<levelOk, header, gzipping, gz, trailer, n, broken, own, phase>>
  BY DEF Flush
<1>2. /\ wanted' \in Statuses /\ wanted' # None /\ Due' = Due
      /\ flushed' \in 0..n'
  <2>1. flushed' \in 0..n'
    BY <1>1, WriterFacts
  <2>2. wanted' \in Statuses /\ wanted' # None
    BY <1>1, WriterFacts
  <2> QED
    BY <1>1, <2>1, <2>2 DEF Due
<1>3. early' \in BOOLEAN
  BY <1>1
<1>4. GzipHead => ~early'
  <2>1. GzipHead => n >= MinSize /\ ~early
    BY DEF GzipHead
  <2>2. n >= MinSize => ~(n < MinSize)
    BY WriterFacts
  <2> QED
    BY <1>1, <2>1, <2>2
<1>5. CASE gz = "open"
  <2>1. Gzipped
    BY <1>5 DEF WriterInv, Buffering, Plain, Rejected
  <2>2. /\ pending' = <<>> /\ wire' = wire \o Encoded(pending, "gzip")
        /\ UNCHANGED <<status, buf, committed, passthrough, sent>>
    BY <1>5 DEF Flush, FlushGzip
  <2>3. Shown(wire', "gzip", n')
    BY <1>1, <2>1, <2>2, ShownJoin DEF Gzipped
  <2>4. Len(wire') = n' /\ Consecutive(pending', n') /\ Len(pending') = 0
    BY <2>2, <2>3, NothingIsConsecutive, EmptySeq DEF Shown
  <2>5. HeadIsSent' /\ ~early'
    BY <1>1, <1>2, <1>4, <2>1, <2>2 DEF Gzipped, GzipHead, HeadIsSent
  <2>6. GzipHead'
    BY <1>1, <1>2, <2>1, <2>2, <2>5 DEF Gzipped, GzipHead
  <2>7. n' \in flushed'..n' /\ n' + 0 = n'
    BY <1>1, WriterFacts
  <2>8. Gzipped'
    BY <1>1, <2>1, <2>2, <2>3, <2>4, <2>6, <2>7 DEF Gzipped, Ended
  <2>9. Basic'
    BY <1>1, <1>2, <1>3, <2>2 DEF WriterInv, Basic, Ended
  <2> QED
    BY <2>8, <2>9 DEF WriterInv
<1>6. CASE gz = "nil" /\ ~committed
  <2>1. Buffering
    BY <1>6 DEF WriterInv, Plain, Gzipped, Rejected, GzipHead, HeadIsSent
  <2>2. passthrough' = TRUE /\ CommitUncompressed(<<>>) /\ UNCHANGED pending
    BY <1>6 DEF Flush
  <2>3. HeadIsSent' /\ buf' = <<>> /\ Shown(wire', "plain", n + Len(<<>>))
    BY <1>1, <1>2, <2>1, <2>2, NothingIsConsecutive, CommitFromBuffer
  <2>4. Shown(wire', "plain", n')
    BY <1>1, <2>3, EmptySeq, WriterFacts
  <2>5. early'
    BY <1>1, <2>1 DEF Buffering
  <2>6. Plain'
    BY <1>1, <1>2, <2>1, <2>2, <2>3, <2>4, <2>5 DEF Buffering, Plain
  <2>7. Basic'
    BY <1>1, <1>2, <1>3, <2>2 DEF WriterInv, Basic, Ended, CommitUncompressed
  <2> QED
    BY <2>6, <2>7 DEF WriterInv
<1>7. CASE gz = "nil" /\ committed
  <2>1. UNCHANGED <<status, buf, committed, passthrough, pending, sent, wire>>
    BY <1>7 DEF Flush
  <2>2. Basic'
    BY <1>1, <1>2, <1>3, <2>1 DEF WriterInv, Basic, Ended
  <2>3. CASE Plain
    <3>1. HeadIsSent'
      BY <1>1, <1>2, <2>1, <2>3 DEF Plain, HeadIsSent
    <3>2. Plain'
      BY <1>1, <1>2, <2>1, <2>3, <3>1 DEF Plain, Ended
    <3> QED
      BY <2>2, <3>2 DEF WriterInv
  <2>4. CASE Rejected
    <3>1. HeadIsSent' /\ ~early'
      BY <1>1, <1>2, <1>4, <2>1, <2>4 DEF Rejected, GzipHead, HeadIsSent
    <3>2. GzipHead'
      BY <1>1, <1>2, <2>1, <2>4, <3>1 DEF Rejected, GzipHead
    <3>3. Rejected'
      BY <1>1, <2>1, <2>4, <3>2 DEF Rejected
    <3> QED
      BY <2>2, <3>3 DEF WriterInv
  <2>5. ~Buffering /\ ~Gzipped
    BY <1>1, <1>7 DEF Buffering, Gzipped, Ended
  <2> QED
    BY <2>3, <2>4, <2>5 DEF WriterInv
<1>8. gz \in {"open", "nil"}
  BY DEF Flush
<1> QED
  BY <1>5, <1>6, <1>7, <1>8, WriterFacts DEF WriterInv, Basic

(* The end of the handler, whichever it is: the body is on the wire. *)
LEMMA FinishStep ==
    ASSUME WriterInv, NEW gzAfter \in {"nil", "closed"}, Finish(gzAfter),
           phase \in {"running", "panicking"},
           phase' \in {"hijacked", "done", "recovering"},
           UNCHANGED <<levelOk, header, gzipping, passthrough, handlerVars>>
    PROVE  WriterInv'
<1>1. UNCHANGED <<n, wanted, early, flushed, broken, own>> /\ Due' = Due
  BY DEF handlerVars, Due
<1>2. Ended' /\ ~Ended
  BY DEF Ended
<1>3. CASE gz = "open"
  <2>1. Gzipped
    BY <1>3 DEF WriterInv, Buffering, Plain, Rejected
  <2>2. /\ gz' = gzAfter /\ trailer' = TRUE
        /\ pending' = <<>> /\ wire' = wire \o Encoded(pending, "gzip")
        /\ UNCHANGED <<status, buf, committed, sent>>
    BY <1>3 DEF Finish
  <2>3. Shown(wire', "gzip", n')
    BY <1>1, <2>1, <2>2, ShownJoin DEF Gzipped
  <2>4. Len(wire') = n' /\ Consecutive(pending', n') /\ Len(pending') = 0
    BY <2>2, <2>3, NothingIsConsecutive, EmptySeq DEF Shown
  <2>5. HeadIsSent'
    BY <1>1, <2>1, <2>2 DEF Gzipped, GzipHead, HeadIsSent
  <2>6. GzipHead'
    BY <1>1, <2>1, <2>2, <2>5 DEF Gzipped, GzipHead
  <2>7. n' \in flushed'..n' /\ n' + 0 = n'
    BY <1>1, WriterFacts DEF WriterInv, Basic
  <2>8. Gzipped'
    BY <1>1, <1>2, <2>1, <2>2, <2>3, <2>4, <2>6, <2>7 DEF Gzipped
  <2>9. Basic'
    BY <1>1, <1>2, <2>2 DEF WriterInv, Basic
  <2> QED
    BY <2>8, <2>9 DEF WriterInv
<1>4. CASE gz = "nil"
  <2>1. CommitUncompressed(<<>>) /\ UNCHANGED <<gz, pending, trailer>>
    BY <1>4 DEF Finish
  <2>2. Basic'
    BY <1>1, <1>2, <2>1 DEF WriterInv, Basic, CommitUncompressed
  <2>3. CASE Buffering
    <3>1. HeadIsSent' /\ buf' = <<>> /\ Shown(wire', "plain", n + Len(<<>>))
      BY <1>1, <2>1, <2>3, NothingIsConsecutive, CommitFromBuffer
    <3>2. Shown(wire', "plain", n')
      BY <1>1, <3>1, EmptySeq, WriterFacts
    <3>3. Plain'
      BY <1>1, <1>2, <2>1, <2>3, <3>1, <3>2 DEF Buffering, Plain
    <3> QED
      BY <2>2, <3>3 DEF WriterInv
  <2>4. CASE Plain \/ Rejected
    <3>1. committed /\ sent # None /\ wire \in Seq(Entry)
      BY <2>4, WriterFacts, EmptySeq
         DEF WriterInv, Plain, Rejected, GzipHead, HeadIsSent, Shown
    <3>2. Encoded(<<>>, "plain") = <<>>
      BY DEF Encoded
    <3>3. UNCHANGED <<committed, status, sent, wire, buf>>
      BY <2>1, <3>1, <3>2, ConcatEmptySeq
         DEF CommitUncompressed, Sent, WriterInv, Basic
    <3>4. CASE Plain
      <4>1. HeadIsSent'
        BY <1>1, <3>3, <3>4 DEF Plain, HeadIsSent
      <4>2. Plain'
        BY <1>1, <1>2, <2>1, <3>3, <3>4, <4>1 DEF Plain
      <4> QED
        BY <2>2, <4>2 DEF WriterInv
    <3>5. CASE Rejected
      <4>1. HeadIsSent'
        BY <1>1, <3>3, <3>5 DEF Rejected, GzipHead, HeadIsSent
      <4>2. GzipHead'
        BY <1>1, <3>3, <3>5, <4>1 DEF Rejected, GzipHead
      <4>3. Rejected'
        BY <1>1, <2>1, <3>3, <3>5, <4>2 DEF Rejected
      <4> QED
        BY <2>2, <4>3 DEF WriterInv
    <3> QED
      BY <2>4, <3>4, <3>5
  <2>5. ~Gzipped
    BY <1>2, <1>4 DEF Gzipped
  <2> QED
    BY <2>3, <2>4, <2>5 DEF WriterInv
<1>5. gz = "open" \/ gz = "nil"
  BY DEF Finish
<1> QED
  BY <1>3, <1>4, <1>5

LEMMA WriterStep ==
    ASSUME WriterInv, [Next]_vars
    PROVE  WriterInv'
<1>1. CASE SetHeader
  BY <1>1, SetHeaderStep
<1>2. ASSUME NEW code \in Statuses, WriteHeader(code) PROVE WriterInv'
  BY <1>2, WriteHeaderStep
<1>3. ASSUME NEW k \in 1..(MaxUnits - n),
             WritePlain(k) \/ WriteGzipped(k) \/ WriteBuffered(k) \/ WriteStartsGzip(k)
      PROVE  WriterInv'
  BY <1>3, WritePlainStep, WriteGzippedStep, WriteBufferedStep, WriteStartsGzipStep
<1>4. CASE WriteNilWriter \/ Panic
  <2>1. phase = "running" /\ phase' = "panicking"
        /\ UNCHANGED <<levelOk, header, writerVars, clientVars, handlerVars>>
    BY <1>4 DEF WriteNilWriter, Panic
  <2> QED
    BY <2>1 DEF writerVars, clientVars, handlerVars, WriterInv, Basic, Ended, Due,
                HeadIsSent, StatusOrOK, Buffering, Plain, GzipHead, Gzipped, Rejected
<1>5. CASE Flush
  BY <1>5, FlushStep
<1>6. CASE Hijack
  BY <1>6, FinishStep DEF Hijack
<1>7. CASE Return
  BY <1>7, FinishStep DEF Return
<1>8. CASE PanicCloses
  BY <1>8, FinishStep DEF PanicCloses
<1>9. CASE Recovered
  <2>1. phase = "recovering" /\ phase' = "recovered" /\ Ended /\ Ended'
        /\ UNCHANGED <<levelOk, header, writerVars, wire, trailer, handlerVars>>
    BY <1>9 DEF Recovered, Ended
  <2>2. sent # None
    BY <2>1, WriterFacts
       DEF WriterInv, Buffering, Plain, GzipHead, Gzipped, Rejected, HeadIsSent
  <2>3. sent' = sent
    BY <1>9, <2>2 DEF Recovered, Sent
  <2> QED
    BY <2>1, <2>3 DEF writerVars, handlerVars, WriterInv, Basic, Due, HeadIsSent,
                      StatusOrOK, Buffering, Plain, GzipHead, Gzipped, Rejected
<1>10. CASE UNCHANGED vars
  BY <1>10 DEF vars, writerVars, clientVars, handlerVars, WriterInv, Basic, Ended, Due,
               HeadIsSent, StatusOrOK, Buffering, Plain, GzipHead, Gzipped, Rejected
<1> QED
  BY <1>1, <1>2, <1>3, <1>4, <1>5, <1>6, <1>7, <1>8, <1>9, <1>10 DEF Next, Finished

LEMMA WriterInvariant == Spec => []WriterInv
<1>1. Init => WriterInv
  <2> SUFFICES ASSUME Init PROVE WriterInv
    OBVIOUS
  <2>1. header \in Header /\ header.ce = "none"
    BY DEF Init, Header
  <2>2. levelOk \in BOOLEAN /\ committed \in BOOLEAN /\ gzipping \in BOOLEAN
        /\ passthrough \in BOOLEAN /\ trailer \in BOOLEAN /\ early \in BOOLEAN
        /\ broken \in BOOLEAN /\ own \in BOOLEAN
    BY DEF Init
  <2>3. n \in 0..MaxUnits /\ flushed \in 0..n /\ n < MinSize
    BY GzipAssumption DEF Init
  <2>4. Basic
    BY <2>1, <2>2, <2>3 DEF Init, Basic, Ended
  <2>5. Consecutive(buf, 0) /\ Len(buf) = n
    BY NothingIsConsecutive, EmptySeq DEF Init
  <2>6. Buffering
    BY <2>1, <2>3, <2>5 DEF Init, Buffering, Ended, StatusOrOK, Due
  <2> QED
    BY <2>4, <2>6 DEF WriterInv
<1>2. WriterInv /\ [Next]_vars => WriterInv'
  BY WriterStep
<1> QED
  BY <1>1, <1>2, PTL DEF Spec

-----------------------------------------------------------------------------
(* What the client gets.                                                    *)

(* Consecutive numbers are the sequence that BodyIntact names. *)
LEMMA ConsecutiveIs ==
    ASSUME NEW s, Consecutive(s, 0)
    PROVE  s = [k \in 1..Len(s) |-> k]
<1>1. s \in [1..Len(s) -> Nat] /\ \A k \in 1..Len(s) : s[k] = k
  BY LenProperties DEF Consecutive
<1> QED
  BY <1>1

LEMMA ShownUnits ==
    ASSUME NEW m \in Nat, NEW w, NEW enc, Shown(w, enc, m)
    PROVE  Consecutive(Units(w), 0) /\ Len(Units(w)) = m
<1>1. Len(w) = m /\ \A k \in 1..m : w[k].unit = k
  BY DEF Shown
<1>2. Units(w) = [k \in 1..m |-> w[k].unit]
  BY <1>1 DEF Units
<1>3. \A k \in 1..m : w[k].unit \in Nat
  BY <1>1
<1>4. Units(w) \in Seq(Nat) /\ Len(Units(w)) = m
  BY <1>2, <1>3
<1> QED
  BY <1>1, <1>2, <1>4 DEF Consecutive

LEMMA NothingToJoin ==
    ASSUME NEW s, Consecutive(s, 0)
    PROVE  s \o <<>> = s /\ <<>> \o s = s /\ Len(s) \in Nat
BY ConcatEmptySeq, LenProperties DEF Consecutive

(* No unit is repeated, overtaken or dropped on its way, and none is left   *)
(* over unless the level was rejected: security.go:654-752.                 *)
THEOREM BodyArrives == Spec => []BodyIntact
<1>1. WriterInv => BodyIntact
  <2> SUFFICES ASSUME WriterInv
               PROVE  /\ Units(wire) \o pending \o buf = [k \in 1..n |-> k]
                      /\ Over => Len(wire) = IF broken THEN 0 ELSE n
    BY DEF BodyIntact
  <2>1. n \in Nat /\ (Over => Ended)
    BY WriterFacts DEF Over, Ended
  <2>2. CASE Buffering
    <3>1. wire = <<>> /\ pending = <<>> /\ Consecutive(buf, 0) /\ Len(buf) = n
      BY <2>2 DEF Buffering
    <3>2. Units(wire) = <<>>
      BY <3>1 DEF Units
    <3>3. Units(wire) \o pending \o buf = buf
      BY <3>1, <3>2, NothingIsConsecutive, NothingToJoin
    <3> QED
      BY <2>1, <2>2, <3>1, <3>3, ConsecutiveIs DEF Buffering
  <2>3. CASE Plain
    <3>1. Shown(wire, "plain", n) /\ pending = <<>> /\ buf = <<>> /\ Len(wire) = n
      BY <2>3 DEF Plain, Shown
    <3>2. Consecutive(Units(wire), 0) /\ Len(Units(wire)) = n
      BY <2>1, <3>1, ShownUnits
    <3>3. Units(wire) \o pending \o buf = Units(wire)
      BY <3>1, <3>2, NothingToJoin
    <3> QED
      BY <2>3, <3>1, <3>2, <3>3, ConsecutiveIs DEF Plain
  <2>4. CASE Gzipped
    <3> DEFINE m == Len(wire)
    <3>1. /\ m \in Nat /\ Shown(wire, "gzip", m) /\ Consecutive(pending, m)
          /\ m + Len(pending) = n /\ buf = <<>>
      BY <2>1, <2>4 DEF Gzipped, WriterInv, Basic
    <3>2. Consecutive(Units(wire), 0) /\ Len(Units(wire)) = m /\ 0 + m = m
      BY <3>1, ShownUnits
    <3>3. /\ Consecutive(Units(wire) \o pending, 0)
          /\ Len(Units(wire) \o pending) = n
      BY <3>1, <3>2, ConsecutiveJoin
    <3>4. Units(wire) \o pending \o buf = [k \in 1..n |-> k]
      BY <3>1, <3>3, NothingToJoin, ConsecutiveIs
    <3>5. Ended => Len(pending) = 0
      BY <2>4, EmptySeq DEF Gzipped
    <3>6. Ended => m = n
      BY <3>1, <3>5
    <3> QED
      BY <2>1, <2>4, <3>4, <3>6 DEF Gzipped
  <2>5. CASE Rejected
    <3>1. /\ wire = <<>> /\ pending = <<>> /\ Consecutive(buf, 0) /\ Len(buf) = n
          /\ Len(wire) = 0 /\ broken
      BY <2>5, EmptySeq DEF Rejected
    <3>2. Units(wire) = <<>>
      BY <3>1 DEF Units
    <3>3. Units(wire) \o pending \o buf = buf
      BY <3>1, <3>2, NothingIsConsecutive, NothingToJoin
    <3>4. buf = [k \in 1..n |-> k]
      BY <3>1, ConsecutiveIs
    <3>5. Units(wire) \o pending \o buf = [k \in 1..n |-> k]
      BY <3>3, <3>4, Zenon
    <3>6. Len(wire) = IF broken THEN 0 ELSE n
      BY <3>1
    <3> QED
      BY <3>5, <3>6
  <2> QED
    BY <2>2, <2>3, <2>4, <2>5 DEF WriterInv
<1> QED
  BY <1>1, WriterInvariant, PTL

LEMMA ShownEncoding ==
    ASSUME NEW m, NEW w, NEW enc, Shown(w, enc, m)
    PROVE  \A k \in 1..Len(w) : w[k].enc = enc
<1>1. \A k \in 1..Len(w) : w[k] = [unit |-> k, enc |-> enc]
  BY DEF Shown
<1>2. \A k : [unit |-> k, enc |-> enc].enc = enc
  OBVIOUS
<1> QED
  BY <1>1, <1>2

(* The head that goes out is the one the body needs, though it is written   *)
(* before the body is complete: security.go:613-668.                        *)
THEOREM HeadFitsBody == Spec => []HeadDescribesBody
<1>1. WriterInv => HeadDescribesBody
  <2> SUFFICES ASSUME WriterInv PROVE HeadDescribesBody
    OBVIOUS
  <2>1. Over => Ended
    BY DEF Over, Ended
  <2>2. CASE Buffering
    BY <2>2 DEF Buffering, HeadDescribesBody
  <2>3. CASE Plain
    <3>1. sent.header = header /\ sent # None /\ header.ce # "gzip"
      BY <2>3, WriterFacts DEF Plain, HeadIsSent
    <3>2. header.ce = IF own THEN "br" ELSE "none"
      BY <2>3 DEF Plain
    <3>3. \A k \in 1..Len(wire) : wire[k].enc = "plain"
      BY <2>3, ShownEncoding DEF Plain
    <3> QED
      BY <3>1, <3>2, <3>3 DEF HeadDescribesBody
  <2>4. CASE Gzipped \/ Rejected
    <3>1. /\ sent.header = header /\ sent # None
          /\ header.ce = "gzip" /\ ~header.len
      BY <2>4, WriterFacts DEF Gzipped, Rejected, GzipHead, HeadIsSent
    <3>2. \A k \in 1..Len(wire) : wire[k].enc = "gzip"
      <4>1. CASE Gzipped
        BY <4>1, ShownEncoding DEF Gzipped
      <4>2. CASE Rejected
        BY <4>2, EmptySeq DEF Rejected
      <4> QED
        BY <2>4, <4>1, <4>2
    <3>3. Over => trailer \/ broken
      BY <2>1, <2>4 DEF Gzipped, Rejected
    <3> QED
      BY <3>1, <3>2, <3>3 DEF HeadDescribesBody
  <2> QED
    BY <2>2, <2>3, <2>4 DEF WriterInv
<1> QED
  BY <1>1, WriterInvariant, PTL

LEMMA HeadIsSentAtLast ==
    ASSUME WriterInv, Over
    PROVE  /\ Ended /\ HeadIsSent /\ ~Buffering
           /\ sent.header = header /\ sent.status = Due
<1>1. Ended
  BY DEF Over, Ended
<1>2. HeadIsSent /\ ~Buffering
  BY <1>1 DEF WriterInv, Buffering, Plain, Gzipped, Rejected, GzipHead
<1> QED
  BY <1>1, <1>2 DEF HeadIsSent

(* Holding the head back does not change its status, and a panic that comes *)
(* after it leaves it alone.                                                *)
THEOREM StatusArrives == Spec => []StatusDelivered
<1>1. WriterInv => StatusDelivered
  BY HeadIsSentAtLast DEF StatusDelivered, Due
<1> QED
  BY <1>1, WriterInvariant, PTL

(* Type, threshold and early flushes decide for a body that the handler has *)
(* not encoded: security.go:573, 637-640.                                   *)
THEOREM CompressionIsAsPromised == Spec => []CompressedExactlyWhenPromised
<1>1. WriterInv => CompressedExactlyWhenPromised
  <2> SUFFICES ASSUME WriterInv, Over
               PROVE  (header.ce = "gzip") <=>
                        Compressible(header.ct) /\ n >= MinSize /\ ~early
    BY HeadIsSentAtLast DEF CompressedExactlyWhenPromised, Compressible
  <2>1. CASE Plain
    <3>1. n < MinSize => ~(n >= MinSize)
      BY WriterFacts
    <3> QED
      BY <2>1, <3>1 DEF Plain
  <2>2. CASE Gzipped \/ Rejected
    BY <2>2 DEF Gzipped, Rejected, GzipHead
  <2> QED
    BY <2>1, <2>2, HeadIsSentAtLast DEF WriterInv
<1> QED
  BY <1>1, WriterInvariant, PTL

(* A stream that flushes is never held back: security.go:741-767.           *)
THEOREM FlushesDeliver == Spec => []FlushDelivers
<1>1. WriterInv => FlushDelivers
  <2> SUFFICES ASSUME WriterInv, ~broken PROVE Len(wire) >= flushed
    BY DEF FlushDelivers
  <2>1. n \in Nat /\ flushed \in 0..n
    BY WriterFacts DEF WriterInv, Basic
  <2>2. CASE Buffering
    BY <2>2, EmptySeq DEF Buffering
  <2>3. CASE Plain
    <3>1. Len(wire) = n
      BY <2>3 DEF Plain, Shown
    <3> QED
      BY <2>1, <3>1
  <2>4. CASE Gzipped
    <3>1. Len(wire) \in flushed..n
      BY <2>4 DEF Gzipped
    <3> QED
      BY <2>1, <3>1
  <2> QED
    BY <2>2, <2>3, <2>4 DEF WriterInv, Rejected
<1> QED
  BY <1>1, WriterInvariant, PTL

LEMMA ConsecutiveWithin ==
    ASSUME NEW m \in Nat, NEW s, Consecutive(s, m), m + Len(s) <= MaxUnits
    PROVE  s \in Seq(1..MaxUnits)
<1> DEFINE E == 1..MaxUnits
<1>1. s \in Seq(Nat) /\ Len(s) \in Nat /\ \A k \in 1..Len(s) : s[k] = m + k
  BY LenProperties DEF Consecutive
<1>2. s = [k \in 1..Len(s) |-> s[k]]
  BY <1>1, LenProperties
<1>3. \A k \in 1..Len(s) : s[k] \in E
  BY <1>1, GzipAssumption
<1> HIDE DEF E
<1>4. s \in Seq(E)
  BY <1>1, <1>2, <1>3
<1> QED
  BY <1>4 DEF E

LEMMA ShownWithin ==
    ASSUME NEW m \in 0..MaxUnits, NEW w, NEW enc \in {"plain", "gzip"}, Shown(w, enc, m)
    PROVE  w \in Seq([unit : 1..MaxUnits, enc : {"plain", "gzip"}])
<1> DEFINE E == [unit : 1..MaxUnits, enc : {"plain", "gzip"}]
<1>1. /\ w \in Seq(Entry) /\ Len(w) = m /\ m \in Nat
      /\ \A k \in 1..m : w[k] = [unit |-> k, enc |-> enc]
  BY DEF Shown
<1>2. w = [k \in 1..m |-> w[k]]
  BY <1>1, LenProperties
<1>3. \A k \in 1..m : [unit |-> k, enc |-> enc] \in E
  BY GzipAssumption
<1>4. \A k \in 1..m : w[k] \in E
  BY <1>1, <1>3
<1> HIDE DEF E
<1>5. w \in Seq(E)
  BY <1>1, <1>2, <1>4
<1> QED
  BY <1>5 DEF E

(* Every variable keeps its type: no unit but the handler's is ever stored  *)
(* or sent, and the one status besides the handler's is Recover's 500.      *)
THEOREM TypeCorrect == Spec => []TypeOK
<1>1. WriterInv => TypeOK
  <2> SUFFICES ASSUME WriterInv PROVE TypeOK
    OBVIOUS
  <2>1. /\ n \in 0..MaxUnits /\ n \in Nat /\ MaxUnits \in Nat /\ flushed \in 0..n
        /\ \A w : Len(w) = n => Len(w) <= MaxUnits
    BY WriterFacts DEF WriterInv, Basic
  <2>2. <<>> \in Seq(1..MaxUnits)
    BY EmptySeq
  <2>3. buf \in Seq(1..MaxUnits) /\ pending \in Seq(1..MaxUnits)
    <3>1. CASE Buffering
      <4>1. Consecutive(buf, 0) /\ 0 + Len(buf) <= MaxUnits /\ pending = <<>>
        BY <2>1, <3>1 DEF Buffering
      <4> QED
        BY <2>2, <4>1, ConsecutiveWithin
    <3>2. CASE Plain
      BY <2>2, <3>2 DEF Plain
    <3>3. CASE Gzipped
      <4>1. /\ Len(wire) \in Nat /\ Consecutive(pending, Len(wire))
            /\ Len(wire) + Len(pending) <= MaxUnits /\ buf = <<>>
        BY <2>1, <3>3 DEF Gzipped
      <4> QED
        BY <2>2, <4>1, ConsecutiveWithin
    <3>4. CASE Rejected
      <4>1. Consecutive(buf, 0) /\ Len(buf) = n /\ pending = <<>>
        BY <3>4 DEF Rejected
      <4>2. Len(buf) \in Nat
        BY <4>1, LenProperties DEF Consecutive
      <4>3. 0 + Len(buf) <= MaxUnits
        BY <2>1, <4>1, <4>2
      <4> QED
        BY <2>2, <4>1, <4>3, ConsecutiveWithin
    <3> QED
      BY <3>1, <3>2, <3>3, <3>4 DEF WriterInv
  <2>4. wire \in Seq([unit : 1..MaxUnits, enc : {"plain", "gzip"}])
    <3>1. \E m \in 0..MaxUnits, enc \in {"plain", "gzip"} : Shown(wire, enc, m)
      <4>1. CASE Buffering \/ Rejected
        <5>1. wire = <<>> /\ 0 \in 0..MaxUnits
          BY <2>1, <4>1 DEF Buffering, Rejected
        <5> QED
          BY <5>1, NothingIsConsecutive
      <4>2. CASE Plain
        BY <2>1, <4>2 DEF Plain
      <4>3. CASE Gzipped
        <5>1. Len(wire) \in 0..MaxUnits /\ Shown(wire, "gzip", Len(wire))
          BY <2>1, <4>3 DEF Gzipped
        <5> QED
          BY <5>1
      <4> QED
        BY <4>1, <4>2, <4>3 DEF WriterInv
    <3> QED
      BY <3>1, ShownWithin
  <2>5. /\ sent = None \/ sent \in [header : Header, status : Statuses \cup {500}]
        /\ status \in Statuses \cup {None}
        /\ gz \in {"nil", "open", "closed"}
    <3>1. CASE Buffering
      BY <3>1 DEF Buffering
    <3>2. CASE Plain
      BY <3>2, WriterFacts DEF Plain, HeadIsSent
    <3>3. CASE Gzipped
      BY <3>3, WriterFacts DEF Gzipped, GzipHead, HeadIsSent
    <3>4. CASE Rejected
      BY <3>4, WriterFacts DEF Rejected, GzipHead, HeadIsSent
    <3> QED
      BY <3>1, <3>2, <3>3, <3>4 DEF WriterInv
  <2>6. Basic
    BY DEF WriterInv
  <2>7. {levelOk, committed, gzipping, passthrough, trailer, early, broken, own}
           \subseteq BOOLEAN
    BY <2>6 DEF Basic
  <2> QED
    BY <2>3, <2>4, <2>5, <2>6, <2>7 DEF TypeOK, Basic
<1> QED
  BY <1>1, WriterInvariant, PTL
=============================================================================
