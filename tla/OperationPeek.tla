---------------------------- MODULE OperationPeek ----------------------------
(****************************************************************************)
(* graphql.Metrics around graphql.Middleware around a GraphQL handler       *)
(* (graphql/metrics.go): who reads how much of the request body, what is    *)
(* put back for the next reader, and under which label the operation is     *)
(* counted.                                                                 *)
(*                                                                          *)
(* A body is a sequence of tokens, and windows count tokens: the opening    *)
(* brace, the "query" key, "operationName" at the top level or inside of    *)
(* variables, or anything else.  A POST has the media type and length that  *)
(* extraction asks for; every other request but GET is "other".  r.Body is  *)
(* what a reader would get from it: tokens, then an error or the end.  A    *)
(* negative window acts like none, and is left out.                         *)
(*                                                                          *)
(* Bounds.  Bodies bounds the bodies.  FailingReads, NamesInContext say     *)
(* whether reads may fail and whether an outer layer may use                *)
(* WithOperationName.                                                       *)
(****************************************************************************)
EXTENDS Naturals, Sequences, SequencesExt

CONSTANTS Bodies, OpNames, Configs, DefaultPeekWindow, FailingReads,
          NamesInContext, None

NoName == ""
Token == [key : {"{", "query", "name", "inner", "fill"}, value : OpNames \cup {NoName}]

ASSUME PeekAssumption ==
    /\ Bodies \subseteq Seq(Token)
    /\ Configs \subseteq [window : Nat \cup {None}, allowed : SUBSET (OpNames \cup {"anonymous"}),
                          trackOther : BOOLEAN, trackAll : BOOLEAN]
    /\ DefaultPeekWindow \in Nat \ {0}
    /\ {FailingReads, NamesInContext} \subseteq BOOLEAN
    /\ NoName \notin OpNames

VARIABLES
    cfg, kind,      \* the options of Metrics; "post", "get" or "other"
    body,           \* what the client sends, as far as it comes through
    broken,         \* whether the connection breaks after it
    rBody,          \* r.Body: the tokens still to come, then an error or not
    metricOpName,   \* the label to record, NoName if nothing is to be tracked
    supplied,       \* the operation name that an outer layer put in the context
    inContext,      \* the operation name in the request context
    touched,        \* tokens that Metrics has read off the connection
    got,            \* what the handler has read
    label,          \* the label that was recorded
    at              \* where the request is

given == <<cfg, kind, body, broken, supplied>>
peekVars == <<given, rBody, metricOpName, inContext, touched, got, label, at>>

PeekTypeOK ==
    /\ cfg \in Configs /\ kind \in {"post", "get", "other"}
    /\ body \in Bodies /\ broken \in BOOLEAN
    /\ rBody \in [tokens : Seq(Token), fails : BOOLEAN]
    /\ {metricOpName, label} \subseteq OpNames \cup {NoName, "anonymous", "other"}
    /\ {supplied, inContext} \subseteq OpNames \cup {NoName}
    /\ touched \in Nat
    /\ got \in [tokens : Seq(Token), fails : BOOLEAN] \cup {None}
    /\ at \in {"metrics", "middleware", "handler", "record", "end"}

PeekInit ==
    /\ cfg \in Configs
    /\ kind \in {"post", "get", "other"}
    /\ body \in Bodies
    /\ broken \in (IF FailingReads THEN BOOLEAN ELSE {FALSE})
    /\ rBody = [tokens |-> body, fails |-> broken]
    /\ supplied \in {NoName} \cup (IF NamesInContext THEN OpNames ELSE {})
    /\ inContext = supplied
    /\ metricOpName = NoName /\ touched = 0 /\ got = None /\ label = NoName
    /\ at = "metrics"

-----------------------------------------------------------------------------
(* Extraction.                                                              *)

Prefix(s, n) == SubSeq(s, 1, IF n < Len(s) THEN n ELSE Len(s))
Having(s, keys) == {i \in DOMAIN s : s[i].key \in keys}

(* looksLikeGraphQLJSON: it looks for keys as bytes, at any depth. *)
LooksLikeGraphQL(peek) ==
    peek # <<>> /\ peek[1].key = "{" /\ Having(peek, {"query", "name", "inner"}) # {}

(* A whole body is parsed; in a cut one the first complete match counts.    *)
VariantFirstMatch(peek, whole) ==
    LET found == Having(peek, {"name", "inner"}) IN
    IF LooksLikeGraphQL(peek) /\ found # {} THEN peek[Min(found)].value ELSE NoName
NameFromPeek(peek, whole) ==
    LET found == Having(peek, IF whole THEN {"name"} ELSE {"name", "inner"}) IN
    IF LooksLikeGraphQL(peek) /\ found # {}
    THEN peek[IF whole THEN Max(found) ELSE Min(found)].value ELSE NoName

(* resolvePeekWindow, and the default that extractOperationName falls to;   *)
(* None stands for the whole body.                                          *)
Window(c) == CASE c.window = None -> DefaultPeekWindow
               [] c.window = 0    -> None
               [] OTHER           -> c.window

(* readFullRequestBody and peekRequestBody: the bytes that were inspected,  *)
(* the r.Body that is left, and whether reading went well.                  *)
ReadFull ==
    IF rBody.fails
    THEN [ok |-> FALSE, peek |-> <<>>, left |-> [tokens |-> <<>>, fails |-> FALSE]]
    ELSE [ok |-> TRUE, peek |-> rBody.tokens, left |-> rBody]

VariantNotRestored(n) ==
    [rBody EXCEPT !.tokens = SubSeq(rBody.tokens, Len(Prefix(rBody.tokens, n)) + 1, Len(rBody.tokens))]
Restored(n) == rBody

Peek(n) ==
    IF rBody.fails /\ Len(rBody.tokens) < n
    THEN [ok |-> FALSE, peek |-> <<>>, left |-> [rBody EXCEPT !.tokens = <<>>]]
    ELSE [ok |-> TRUE, peek |-> Prefix(rBody.tokens, n), left |-> Restored(n)]

VariantReadsAll(w) == ReadFull
Inspect(w) == IF w = None THEN ReadFull ELSE Peek(w)

(* extractOperationName of a POST. *)
Extracted(w) ==
    LET seen == Inspect(w) IN
    IF seen.ok THEN NameFromPeek(seen.peek, seen.peek = rBody.tokens /\ ~rBody.fails)
    ELSE NoName

(* A GET carries its name in the query string. *)
NameInQuery ==
    LET found == Having(body, {"name"}) IN
    IF found = {} THEN NoName ELSE body[Min(found)].value

(* The media type fits, and Content-Length is not 0. *)
HasGraphQLBody == kind = "post" /\ (body # <<>> \/ broken)

-----------------------------------------------------------------------------
TrackingEnabled == cfg.trackAll \/ cfg.trackOther \/ cfg.allowed # {}

Tracked(op) ==
    LET opName == IF op = NoName THEN "anonymous" ELSE op IN
    IF opName \in cfg.allowed \/ cfg.trackAll THEN opName
    ELSE IF cfg.trackOther THEN "other" ELSE NoName

(* metricsHandler.ServeHTTP, up to the call of the next handler. *)
MetricsPeeks ==
    /\ at = "metrics" /\ at' = "middleware"
    /\ \/ ~TrackingEnabled /\ UNCHANGED <<rBody, metricOpName, touched>>
       \/ /\ TrackingEnabled /\ HasGraphQLBody
          /\ rBody' = Inspect(Window(cfg)).left
          /\ touched' = Len(IF Inspect(Window(cfg)).ok THEN Inspect(Window(cfg)).peek
                            ELSE rBody.tokens)
          /\ metricOpName' = Tracked(Extracted(Window(cfg)))
       \/ /\ TrackingEnabled /\ ~HasGraphQLBody
          /\ metricOpName' = Tracked(IF kind = "get" THEN NameInQuery ELSE NoName)
          /\ UNCHANGED <<rBody, touched>>
    /\ UNCHANGED <<given, inContext, got, label>>

(* graphql.Middleware. *)
MiddlewarePeeks ==
    /\ at = "middleware" /\ at' = "handler"
    /\ \/ /\ inContext = NoName /\ HasGraphQLBody
          /\ rBody' = Peek(DefaultPeekWindow).left
          /\ inContext' = Extracted(DefaultPeekWindow)
       \/ /\ inContext = NoName /\ kind = "get"
          /\ inContext' = NameInQuery
          /\ UNCHANGED rBody
       \/ /\ inContext # NoName \/ (kind # "get" /\ ~HasGraphQLBody)
          /\ UNCHANGED <<rBody, inContext>>
    /\ UNCHANGED <<given, metricOpName, touched, got, label>>

HandlerReads ==
    /\ at = "handler" /\ at' = "record"
    /\ got' = rBody
    /\ UNCHANGED <<given, rBody, metricOpName, inContext, touched, label>>

Records ==
    /\ at = "record" /\ at' = "end"
    /\ label' = metricOpName
    /\ UNCHANGED <<given, rBody, metricOpName, inContext, touched, got>>

(* Nothing is recorded when the handler panics. *)
HandlerPanics ==
    /\ at \in {"handler", "record"} /\ at' = "end"
    /\ UNCHANGED <<given, rBody, metricOpName, inContext, touched, got, label>>

Ended == at = "end" /\ UNCHANGED peekVars

PeekNext == MetricsPeeks \/ MiddlewarePeeks \/ HandlerReads \/ Records
            \/ HandlerPanics \/ Ended

PeekSpec == PeekInit /\ [][PeekNext]_peekVars

-----------------------------------------------------------------------------
(* Properties.                                                              *)

(* extractOperationName: what Metrics and Middleware read ahead is put back *)
(* for the handler, one after the other; and where the connection breaks,   *)
(* the handler still meets the error unless Metrics reads whole bodies.     *)
BodyIsRestored ==
    got # None => /\ ~broken => got = [tokens |-> body, fails |-> FALSE]
                  /\ Window(cfg) # None => got.fails = broken

(* graphql/metrics.go:126: the prefix that was read is always restored for  *)
(* the downstream handler.                                                  *)
PrefixIsRestored == got # None => got.tokens = body

(* docs/graphql-metrics.md:24-28: with a window, Metrics reads no more than *)
(* that off the connection before the handler runs, and nothing at all with *)
(* tracking off.                                                            *)
WorkIsBounded ==
    /\ Window(cfg) # None => touched <= Window(cfg)
    /\ ~TrackingEnabled => touched = 0

(* operationNameFromPeek: when the window covers the body, be it to the     *)
(* last token, the label is the operation's own name or one of the fixed    *)
(* ones, whatever else in the body looks like a name.                       *)
OwnName ==
    {NoName, "anonymous", "other"} \cup {t.value : t \in {u \in ToSet(body) : u.key = "name"}}
WindowCovers ==
    \/ Window(cfg) = None \/ Len(body) < Window(cfg)
    \/ Len(body) = Window(cfg) /\ ~broken
WholeBodyNamesItself == WindowCovers => label \in OwnName

(* docs/graphql-metrics.md:26-28: a label is never invented, also when the  *)
(* name is outside of the window.                                           *)
LabelIsHonest == label \in OwnName

(* docs/graphql-metrics.md:173-175: for a name outside of the window, it    *)
(* helps to set it in the context: a request is then counted under it.      *)
ContextNameIsUsed == label # NoName /\ supplied \in cfg.allowed => label = supplied
=============================================================================
