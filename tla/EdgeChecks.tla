----------------------------- MODULE EdgeChecks -----------------------------
(****************************************************************************)
(* The pure operators of BindList, CorsHeaders and ProblemValues, compared  *)
(* with the loops of the code and checked against their promises over all   *)
(* small inputs.  TLC evaluates the assumptions below at the start of the   *)
(* run of MCClientAddress.                                                  *)
(****************************************************************************)
EXTENDS Naturals, Sequences

Binds == INSTANCE BindList
Cors == INSTANCE CorsHeaders
Problems == INSTANCE ProblemValues

ListsOf(S, n) == UNION {[1..k -> S] : k \in 0..n}

-----------------------------------------------------------------------------
(* Bind lists of up to three entries: two hosts, a port that may lack.      *)

Entries ==
    [host : {"", "localhost"}, port : {"", "80"}, form : {"canonical", "other"}]
    \cup [host : {""}, port : {""}, form : {"blank", "broken"}]
BindLists == ListsOf(Entries, 3)

(* The loop of parseBindList with its early returns (bind.go:79-98): what   *)
(* is in out after i entries, or Error.                                     *)
ParseLoop(ss) ==
    LET out[i \in 0..Len(ss)] ==
            IF i = 0 THEN <<>>
            ELSE IF \/ out[i - 1] = Binds!Error
                    \/ ~Binds!Parses(ss[i])
                    \/ \E j \in DOMAIN out[i - 1] : out[i - 1][j] = Binds!Canonical(ss[i])
                 THEN Binds!Error
                 ELSE Append(out[i - 1], Binds!Canonical(ss[i]))
    IN  IF ss = <<>> THEN Binds!Error ELSE out[Len(ss)]

(* The definition by sets is the loop. *)
ASSUME ParseIsTheLoop == \A ss \in BindLists : Binds!parseBindList(ss) = ParseLoop(ss)

(* bind.go:37-45, 91-94. *)
ASSUME BindListsAreKept ==
    \A ss \in BindLists : Binds!NoAddressTwice(ss) /\ Binds!WrittenIsRead(ss)

(* bind.go:90: a respelled list is equal, and by bindsEqual only that one.  *)
ASSUME RespellingIsAllThatIsEqual ==
    \A ss, tt \in ListsOf(Entries, 2) :
        /\ Binds!RespelledIsEqual(ss, tt)
        /\ ( /\ Binds!parseBindList(ss) # Binds!Error
             /\ Binds!bindsEqual(Binds!parseBindList(ss), Binds!parseBindList(tt)) )
           => /\ Len(ss) = Len(tt)
              /\ \A i \in DOMAIN ss : Binds!Canonical(ss[i]) = Binds!Canonical(tt[i])

(* JSON and YAML read a value alike, except for the empty scalar, which is  *)
(* an error in one and no list in the other (bind.go:23-28, 49-52).         *)
ASSUME EncodingsDifferInOneValue ==
    \A value \in {[kind |-> "null", entries |-> <<>>]}
                  \cup {[kind |-> "scalar", entries |-> <<e>>] : e \in Entries}
                  \cup {[kind |-> "array", entries |-> ss] : ss \in BindLists} :
        Binds!UnmarshalJSON(value) # Binds!UnmarshalYAML(value)
            <=> value.kind = "scalar" /\ value.entries[1].form = "blank"

-----------------------------------------------------------------------------
(* CORS with lists of up to three origins, "*" at any place among them.     *)

Origins == {"https://a", "https://b", ""}
Policies ==
    {cfg \in [origins : ListsOf({"https://a", "https://b", "*"}, 3),
              credentials : BOOLEAN] : Cors!Validate(cfg)}
Methods == {"GET", "OPTIONS"}

(* The loop over AllowedOrigins up to its break (security.go:99-110).       *)
OriginLoop(cfg, origin) ==
    LET after[i \in 0..Len(cfg.origins)] ==
            IF i = 0 THEN [allowed |-> FALSE, hasWildcard |-> FALSE]
            ELSE IF after[i - 1].allowed \/ cfg.origins[i] \notin {"*", origin}
                 THEN after[i - 1]
                 ELSE [allowed |-> TRUE, hasWildcard |-> cfg.origins[i] = "*"]
    IN  after[Len(cfg.origins)]

ASSUME OriginsMatchAsInTheLoop ==
    \A cfg \in Policies, origin \in Origins \ {""} :
        /\ Cors!Allowed(cfg, origin) = OriginLoop(cfg, origin).allowed
        /\ Cors!HasWildcard(cfg, origin) = OriginLoop(cfg, origin).hasWildcard

(* security.go:113-130. *)
ASSUME GrantsAreSafe ==
    \A cfg \in Policies, former, origin \in Origins, method \in Methods :
        /\ Cors!NoForeignGrant(cfg, former, origin, method)
        /\ Cors!CookiesForListed(cfg, origin, method)

(* The case that README.md, section 7, describes is real. *)
ASSUME GrantsMayBeLost ==
    \E cfg \in Policies, former, origin \in Origins :
        ~Cors!NoLostGrant(cfg, former, origin, "GET")

-----------------------------------------------------------------------------
(* Problems over a heap of up to two maps.                                  *)

Maps == {Problems!NewMap} \cup [{"code"} -> {"c", "d"}] \cup [{"status"} -> {200}]
Heaps == ListsOf(Maps, 2)
ProblemsIn(heap) ==
    [status : {0, 404}, requestId : {"", "id"}, ext : 0..Len(heap)]

(* problem.go:75-85. *)
ASSUME HeadsMatchDocuments ==
    \A heap \in Heaps : \A p \in ProblemsIn(heap), id \in {"", "id"} :
        Problems!HeadMatchesDocument(heap, p, id)

(* WithExtension leaves other problems alone exactly if it makes the map,   *)
(* or they do not share it, or nothing changes (problem.go:119-125).        *)
ASSUME OnlySharersChange ==
    \A heap \in Heaps : \A p, q \in ProblemsIn(heap) :
        ~Problems!OthersKeep(heap, p, q, "code", "c")
            <=> /\ p.ext # 0 /\ p.ext = q.ext
                /\ Problems!With(heap[p.ext], "code", "c") # heap[p.ext]

(* A Failure of the middlewares has its status in the head and in the       *)
(* document, its code in the document exactly if it has one, and a request  *)
(* id of its own before the request's (problem/writer.go:18-31).            *)
ASSUME FailuresAreTold ==
    \A heap \in Heaps,
       f \in [status : {403, 500}, requestId : {"", "own"}, code : {"", "c"}],
       id \in {"", "id"} :
        LET answer == Problems!ErrorWriter(heap, f, id) IN
        /\ answer.head = f.status /\ answer.document["status"] = f.status
        /\ f.code # "" <=> "code" \in DOMAIN answer.document
        /\ f.code # "" => answer.document["code"] = f.code
        /\ "request_id" \in DOMAIN answer.document <=> f.requestId # "" \/ id # ""
        /\ f.requestId # "" => answer.document["request_id"] = f.requestId
=============================================================================
