---------------------------- MODULE ProblemValues ----------------------------
(****************************************************************************)
(* Problem documents (problem/problem.go, problem/writer.go).  A Problem is *)
(* a value, but its Extensions are a map that copies share: a heap holds    *)
(* the maps, as a sequence, and ext is the number of one, or 0 for nil.     *)
(*                                                                          *)
(* Of the standard members only status and request_id are told apart from   *)
(* the others; "" is a member that is not set.                              *)
(****************************************************************************)
EXTENDS Naturals, Sequences, Functions

New(status) == [status |-> status, requestId |-> "", ext |-> 0]

WithRequestID(p, id) == [p EXCEPT !.requestId = id]

(* The new heap and the new Problem: an existing map is written in place.   *)
NewMap == [k \in {} |-> ""]
With(map, k, v) == [x \in DOMAIN map \cup {k} |-> IF x = k THEN v ELSE map[x]]
WithExtension(heap, p, k, v) ==
    IF p.ext = 0
    THEN [heap |-> Append(heap, With(NewMap, k, v)),
          problem |-> [p EXCEPT !.ext = Len(heap) + 1]]
    ELSE [heap |-> [heap EXCEPT ![p.ext] = With(@, k, v)], problem |-> p]

(* MarshalJSON: an extension overrides a standard member of its name, and a *)
(* standard member that is 0 or "" is left out.                             *)
Standard(p) ==
    [k \in {x \in {"status", "request_id"} :
               IF x = "status" THEN p.status # 0 ELSE p.requestId # ""} |->
        IF k = "status" THEN p.status ELSE p.requestId]
Extensions(heap, p) == IF p.ext = 0 THEN NewMap ELSE heap[p.ext]
Document(heap, p) ==
    LET e == Extensions(heap, p) IN
    [k \in DOMAIN e \cup DOMAIN Standard(p) |->
        IF k \in DOMAIN e THEN e[k] ELSE Standard(p)[k]]

(* Write: the head, and the document under it. *)
Write(heap, p, requestId) ==
    LET q == [p EXCEPT !.status = IF @ = 0 THEN 500 ELSE @,
                       !.requestId = IF @ = "" THEN requestId ELSE @]
    IN  [head |-> q.status, document |-> Document(heap, q)]

(* problem.ErrorWriter for a Failure of a middleware. *)
ErrorWriter(heap, f, requestId) ==
    LET p == WithRequestID(New(f.status), f.requestId)
        e == WithExtension(heap, p, "code", f.code)
    IN  IF f.code = "" THEN Write(heap, p, requestId)
        ELSE Write(e.heap, e.problem, requestId)

-----------------------------------------------------------------------------
(* An extension on a Problem that has none yet changes no other document    *)
(* (problem.go:119-125).  On one that has, the copies that share the map    *)
(* change with it: README.md, section 7.                                    *)
OthersKeep(heap, p, q, k, v) ==
    Document(WithExtension(heap, p, k, v).heap, q) = Document(heap, q)

(* The status line and the document say the same status, unless an          *)
(* extension is called status (problem.go:60-62).                           *)
HeadMatchesDocument(heap, p, requestId) ==
    "status" \notin DOMAIN Extensions(heap, p)
        => Write(heap, p, requestId).document["status"] = Write(heap, p, requestId).head
=============================================================================
