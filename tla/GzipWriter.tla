------------------------------ MODULE GzipWriter ------------------------------
(****************************************************************************)
(* gzipResponseWriter (security.go): what one handler behind Compression    *)
(* sends to the client, whatever it sets, writes, flushes or hijacks, and   *)
(* however it ends.  Recover stands outside of it, net/http beneath.        *)
(*                                                                          *)
(* Every method holds w.mu for all of its body, so a method is one step and *)
(* a handler that writes from several goroutines adds no interleavings.     *)
(* The request is one that Compression wraps: it accepts gzip, is no        *)
(* WebSocket upgrade, and nothing outside has set Content-Encoding.         *)
(*                                                                          *)
(* The body is counted in units, numbered in the order the handler wrote    *)
(* them; MinSize is in units.  Handlers keep to the contract of             *)
(* http.ResponseWriter: headers and one WriteHeader come before the body.   *)
(* 1xx statuses are left to MiddlewareStack.                                *)
(*                                                                          *)
(* Bounds.  MaxUnits bounds the body.                                       *)
(****************************************************************************)
EXTENDS Naturals, Sequences

CONSTANTS MinSize, MaxUnits, Statuses, None

ASSUME GzipAssumption ==
    /\ MinSize \in Nat \ {0}
    /\ MaxUnits \in Nat
    /\ Statuses \subseteq Nat /\ 200 \in Statuses /\ None \notin Statuses

VARIABLES
    levelOk,      \* whether gzip.NewWriterLevel accepts cfg.Level
    header,       \* the live header map: ct, ce, len
    status, buf, committed, gzipping, passthrough,   \* gzipResponseWriter
    gz,           \* gzWriter: "nil", "open" or "closed"
    pending,      \* units inside the gzip.Writer, not flushed yet
    sent,         \* the head that net/http has sent: header and status
    wire,         \* the body it has sent: units and their encoding
    trailer,      \* whether the gzip stream on the wire has been ended
    n,            \* units the handler has written
    wanted,       \* the status the handler has fixed by its first output
    early,        \* it flushed before it had written MinSize units
    flushed,      \* units it had written when it last flushed
    broken,       \* a Write has returned an error
    own,          \* the handler has set Content-Encoding, for a body of its own
    phase         \* how far the handler and the unwinding have got

writerVars == <<status, buf, committed, gzipping, passthrough, gz, pending>>
clientVars == <<sent, wire, trailer>>
handlerVars == <<n, wanted, early, flushed, broken, own>>
vars == <<levelOk, header, writerVars, clientVars, handlerVars, phase>>

(* "none" is a header that is not set; of Content-Length only whether it is. *)
Header == [ct : {"none", "text", "event-stream", "image"}, ce : {"none", "br", "gzip"},
           len : BOOLEAN]

ASSUME NoneIsNoHead == None \notin [header : Header, status : Nat]

TypeOK ==
    /\ {levelOk, committed, gzipping, passthrough, trailer, early, broken, own}
         \subseteq BOOLEAN
    /\ header \in Header
    /\ {status, wanted} \subseteq Statuses \cup {None}
    /\ buf \in Seq(1..MaxUnits) /\ pending \in Seq(1..MaxUnits)
    /\ gz \in {"nil", "open", "closed"}
    /\ sent = None \/ sent \in [header : Header, status : Statuses \cup {500}]
    /\ wire \in Seq([unit : 1..MaxUnits, enc : {"plain", "gzip"}])
    /\ n \in 0..MaxUnits /\ flushed \in 0..n
    /\ phase \in {"running", "panicking", "recovering", "recovered", "done",
                  "hijacked"}

Init ==
    /\ levelOk \in BOOLEAN
    /\ header = [ct |-> "none", ce |-> "none", len |-> FALSE]
    /\ status = None /\ buf = <<>> /\ committed = FALSE
    /\ gzipping = FALSE /\ passthrough = FALSE
    /\ gz = "nil" /\ pending = <<>>
    /\ sent = None /\ wire = <<>> /\ trailer = FALSE
    /\ n = 0 /\ wanted = None /\ early = FALSE /\ flushed = 0 /\ broken = FALSE
    /\ own = FALSE
    /\ phase = "running"

-----------------------------------------------------------------------------
(* net/http beneath: the first WriteHeader sends the header map of its time. *)
Sent(h, st) == IF sent = None THEN [header |-> h, status |-> st] ELSE sent

Encoded(units, enc) == [k \in 1..Len(units) |-> [unit |-> units[k], enc |-> enc]]
NextUnits(k) == [j \in 1..k |-> n + j]

Compressible(ct) == ct \in {"none", "text"}

VariantAlwaysOK == 200
StatusOrOK == IF status = None THEN 200 ELSE status

(* commitUncompressedLocked, and more units written straight after it.      *)
VariantCommitDropsBuffer(more) ==
    /\ committed' = TRUE
    /\ status' = IF committed THEN status ELSE StatusOrOK
    /\ sent' = Sent(header, StatusOrOK)
    /\ wire' = wire \o Encoded(more, "plain")
    /\ buf' = <<>>

CommitUncompressed(more) ==
    /\ committed' = TRUE
    /\ status' = IF committed THEN status ELSE StatusOrOK
    /\ sent' = Sent(header, StatusOrOK)
    /\ wire' = wire \o Encoded(IF committed THEN more ELSE buf \o more, "plain")
    /\ buf' = IF committed THEN buf ELSE <<>>

VariantKeepLength(h) == [h EXCEPT !.ce = "gzip"]
GzipHeader(h) == [h EXCEPT !.ce = "gzip", !.len = FALSE]

(* What the gzip.Writer passes on before it is flushed is up to it. *)
GzipWrite(units) ==
    \/ pending' = pending \o units /\ UNCHANGED wire
    \/ pending' = <<>> /\ wire' = wire \o Encoded(pending \o units, "gzip")

-----------------------------------------------------------------------------
(* What the handler does.                                                   *)

SetHeader ==
    /\ phase = "running" /\ wanted = None
    /\ \/ \E t \in {"text", "event-stream", "image"} : header' = [header EXCEPT !.ct = t]
       \/ header' = [header EXCEPT !.len = TRUE]
       \/ header' = [header EXCEPT !.ce = "br"]
    /\ own' = (header'.ce = "br")
    /\ UNCHANGED <<levelOk, writerVars, clientVars, n, wanted, early, flushed,
                   broken, phase>>

WriteHeader(code) ==
    /\ phase = "running" /\ wanted = None
    /\ wanted' = code
    /\ \/ /\ Compressible(header.ct)
          /\ status' = code
          /\ UNCHANGED <<buf, committed, passthrough, clientVars>>
       \/ /\ ~Compressible(header.ct)
          /\ passthrough' = TRUE
          /\ committed' = TRUE /\ status' = code
          /\ sent' = Sent(header, code)
          /\ UNCHANGED <<buf, wire, trailer>>
    /\ UNCHANGED <<levelOk, header, gzipping, gz, pending, n, early, flushed, broken, own, phase>>

VariantMoreThanMinSize(units) == Len(units) > MinSize
BigEnough(units) == Len(units) >= MinSize

Accept(k) ==
    /\ n' = n + k
    /\ wanted' = IF wanted = None THEN 200 ELSE wanted

WritePlain(k) ==
    /\ phase = "running"
    /\ passthrough \/ ~Compressible(header.ct)
    /\ passthrough' = TRUE
    /\ CommitUncompressed(NextUnits(k))
    /\ Accept(k)
    /\ UNCHANGED <<levelOk, header, gzipping, gz, pending, trailer, early,
                   flushed, broken, own, phase>>

WriteGzipped(k) ==
    /\ phase = "running"
    /\ ~passthrough /\ Compressible(header.ct) /\ gzipping
    /\ gz = "open"
    /\ GzipWrite(NextUnits(k))
    /\ Accept(k)
    /\ UNCHANGED <<levelOk, header, status, buf, committed, gzipping,
                   passthrough, gz, sent, trailer, early, flushed,
                   broken, own, phase>>

(* startGzipLocked has failed before: w.gzWriter is a nil pointer. *)
WriteNilWriter ==
    /\ phase = "running"
    /\ ~passthrough /\ Compressible(header.ct) /\ gzipping
    /\ gz = "nil"
    /\ phase' = "panicking"
    /\ UNCHANGED <<levelOk, header, writerVars, clientVars, handlerVars>>

WriteBuffered(k) ==
    /\ phase = "running"
    /\ ~passthrough /\ Compressible(header.ct) /\ ~gzipping
    /\ ~BigEnough(buf \o NextUnits(k))
    /\ buf' = buf \o NextUnits(k)
    /\ Accept(k)
    /\ UNCHANGED <<levelOk, header, status, committed, gzipping, passthrough,
                   gz, pending, clientVars, early, flushed, broken, own, phase>>

(* startGzipLocked.  A level that gzip rejects is found out only after the  *)
(* head is sent, and the Write returns the error.                           *)
WriteStartsGzip(k) ==
    /\ phase = "running"
    /\ ~passthrough /\ Compressible(header.ct) /\ ~gzipping
    /\ BigEnough(buf \o NextUnits(k))
    /\ header' = GzipHeader(header)
    /\ status' = StatusOrOK
    /\ sent' = Sent(header', StatusOrOK)
    /\ committed' = TRUE
    /\ gzipping' = TRUE
    /\ \/ /\ levelOk
          /\ gz' = "open" /\ buf' = <<>>
          /\ GzipWrite(buf \o NextUnits(k))
          /\ UNCHANGED broken
       \/ /\ ~levelOk
          /\ buf' = buf \o NextUnits(k) /\ broken' = TRUE
          /\ UNCHANGED <<gz, pending, wire>>
    /\ Accept(k)
    /\ UNCHANGED <<levelOk, passthrough, trailer, early, flushed,
                   own, phase>>

VariantFlushForgetsGzip == UNCHANGED <<pending, wire>>
FlushGzip == pending' = <<>> /\ wire' = wire \o Encoded(pending, "gzip")

Flush ==
    /\ phase = "running"
    /\ wanted' = IF wanted = None THEN 200 ELSE wanted
    /\ early' = (early \/ n < MinSize)
    /\ flushed' = n
    /\ \/ /\ gz = "open"
          /\ FlushGzip
          /\ UNCHANGED <<status, buf, committed, passthrough, sent>>
       \/ /\ gz = "nil" /\ ~committed
          /\ passthrough' = TRUE
          /\ CommitUncompressed(<<>>)
          /\ UNCHANGED pending
       \/ /\ gz = "nil" /\ committed
          /\ UNCHANGED <<status, buf, committed, passthrough, pending, sent, wire>>
    /\ UNCHANGED <<levelOk, header, gzipping, gz, trailer, n, broken, own, phase>>

(* Close, which Compression defers, and the first half of Hijack. *)
Finish(gzAfter) ==
    \/ /\ gz = "open"
       /\ gz' = gzAfter
       /\ pending' = <<>> /\ wire' = wire \o Encoded(pending, "gzip")
       /\ trailer' = TRUE
       /\ UNCHANGED <<status, buf, committed, sent>>
    \/ /\ gz = "nil"
       /\ CommitUncompressed(<<>>)
       /\ UNCHANGED <<gz, pending, trailer>>

Hijack ==
    /\ phase = "running"
    /\ Finish("nil")
    /\ phase' = "hijacked"
    /\ UNCHANGED <<levelOk, header, gzipping, passthrough, handlerVars>>

Return ==
    /\ phase = "running"
    /\ Finish("closed")
    /\ phase' = "done"
    /\ UNCHANGED <<levelOk, header, gzipping, passthrough, handlerVars>>

Panic ==
    /\ phase = "running"
    /\ phase' = "panicking"
    /\ UNCHANGED <<levelOk, header, writerVars, clientVars, handlerVars>>

(* The Close that Compression defers runs while the panic passes through... *)
PanicCloses ==
    /\ phase = "panicking"
    /\ Finish("closed")
    /\ phase' = "recovering"
    /\ UNCHANGED <<levelOk, header, gzipping, passthrough, handlerVars>>

(* ...and Recover, outside, writes its 500 only if no head was sent by then. *)
Recovered ==
    /\ phase = "recovering"
    /\ sent' = Sent(header, 500)
    /\ phase' = "recovered"
    /\ UNCHANGED <<levelOk, header, writerVars, wire, trailer, handlerVars>>

(* The response is complete; what happens next is another request's. *)
Finished ==
    /\ phase \in {"done", "hijacked", "recovered"}
    /\ UNCHANGED vars

Next ==
    \/ SetHeader
    \/ \E code \in Statuses : WriteHeader(code)
    \/ \E k \in 1..(MaxUnits - n) :
          WritePlain(k) \/ WriteGzipped(k) \/ WriteBuffered(k) \/ WriteStartsGzip(k)
    \/ WriteNilWriter \/ Flush \/ Hijack \/ Return \/ Panic
    \/ PanicCloses \/ Recovered \/ Finished

Spec == Init /\ [][Next]_vars

-----------------------------------------------------------------------------
(* Properties.                                                              *)

Over == phase \in {"done", "hijacked", "recovered"}
Units(entries) == [k \in 1..Len(entries) |-> entries[k].unit]

(* No unit the handler wrote is repeated, overtaken or dropped on its way   *)
(* between buf, the gzip.Writer and the connection.  At the end all of them *)
(* are on the wire: a delayed head never costs a byte of body.  A level     *)
(* that gzip rejects costs the whole body, what earlier Writes had buffered *)
(* and answered with nil included: it stays in buf (startGzipLocked returns *)
(* at security.go:690-693, and Close writes buf only if nothing was         *)
(* committed), and the client gets no part of it instead of a torn one.     *)
BodyIntact ==
    /\ Units(wire) \o pending \o buf = [k \in 1..n |-> k]
    /\ Over => Len(wire) = IF broken THEN 0 ELSE n

(* The head describes the body that follows it: Content-Encoding names the  *)
(* last encoding of the body, gzip or the handler's own, no Content-Length  *)
(* of the plain body goes with a gzipped one, and a gzip stream ends with   *)
(* its trailer unless the level was rejected.                               *)
HeadDescribesBody ==
    /\ wire # <<>> => sent # None
    /\ sent # None =>
         /\ \A k \in 1..Len(wire) :
               sent.header.ce = IF wire[k].enc = "gzip" THEN "gzip"
                                ELSE IF own THEN "br" ELSE "none"
         /\ sent.header.ce = "gzip" => ~sent.header.len
         /\ Over /\ sent.header.ce = "gzip" => trailer \/ broken

(* The head had gone out by the time the handler returned or panicked.      *)
SentByHandler == phase = "recovered" => passthrough \/ gzipping

(* The client gets the status the handler fixed with its first output, or   *)
(* 200: delaying the head does not change it                                *)
(* (TestCompressionWriteHeaderThenBody), and neither does a panic that      *)
(* comes after it went out (docs/errors.md:212-213).  A panic before that   *)
(* is UncommittedPanicIs500's.                                              *)
StatusDelivered ==
    Over /\ SentByHandler => sent.status = IF wanted = None THEN 200 ELSE wanted

(* A Flush leaves nothing behind: all that was written before it is on the  *)
(* wire, so a stream that flushes is never held back by the threshold or by *)
(* the gzip.Writer.                                                         *)
FlushDelivers == ~broken => Len(wire) >= flushed

(* Compression is delayed until the body "reaches MinSize", "the minimum    *)
(* size in bytes before compression is applied" (security.go:573, 637-640): *)
(* a response that the handler has not encoded itself is gzipped exactly    *)
(* when its type is on the allowlist and it had come to MinSize, in however *)
(* many Writes, before any Flush.                                           *)
CompressedExactlyWhenPromised ==
    Over /\ ~own => ((sent.header.ce = "gzip") <=>
                        sent.header.ct \in {"none", "text"} /\ n >= MinSize /\ ~early)

(* README.md:265-268 and the comment "Check if response is already encoded" *)
(* (security.go:598): an encoding that a handler has set stays.             *)
EncodedBodyIsLeftAlone ==
    [][header.ce # "none" => header'.ce = header.ce]_vars

(* docs/errors.md:202-204: a panic before the response was committed is     *)
(* answered with a 500.  The handler here has sent nothing.                 *)
UncommittedPanicIs500 ==
    phase = "recovered" /\ wanted = None => sent.status = 500
=============================================================================
