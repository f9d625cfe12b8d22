----------------------------- MODULE CorsHeaders -----------------------------
(****************************************************************************)
(* What the CORS middleware answers, and what a browser and a shared cache  *)
(* make of it.  A configuration is a record of a sequence of origins, and   *)
(* of methods, headers and a maximal age for preflights.  An origin is any  *)
(* value but "" (no Origin header) and "*".                                 *)
(*                                                                          *)
(* The browser and the cache are not this repository's: Granted is the      *)
(* check of the Fetch standard, Reusable what Vary means to a cache.        *)
(****************************************************************************)
EXTENDS Naturals, Sequences

(* CORSConfig.Validate. *)
Validate(cfg) == cfg.credentials => \A i \in DOMAIN cfg.origins : cfg.origins[i] # "*"

(* The loop stops at the first entry that fits. *)
Matches(cfg, origin) == {i \in DOMAIN cfg.origins : cfg.origins[i] \in {"*", origin}}
Allowed(cfg, origin) == origin # "" /\ Matches(cfg, origin) # {}
HasWildcard(cfg, origin) ==
    \E i \in Matches(cfg, origin) :
        /\ cfg.origins[i] = "*"
        /\ \A j \in Matches(cfg, origin) : i <= j

NoHeaders ==
    [vary |-> FALSE, allowOrigin |-> "", credentials |-> FALSE, answered |-> FALSE]

(* answered: the middleware ends a preflight itself, with 204.              *)
Headers(cfg, origin, method) ==
    IF ~Allowed(cfg, origin) THEN NoHeaders
    ELSE [vary |-> TRUE,
          allowOrigin |-> IF HasWildcard(cfg, origin) /\ ~cfg.credentials
                          THEN "*" ELSE origin,
          credentials |-> cfg.credentials,
          answered |-> method = "OPTIONS"]

(* What a preflight's answer adds; {} and 0 are absent headers.             *)
Preflight(cfg) ==
    [methods |-> IF cfg.methods = {} THEN {"GET", "POST", "HEAD"} ELSE cfg.methods,
     headers |-> cfg.headers, maxAge |-> cfg.maxAge]

-----------------------------------------------------------------------------
(* A page of the origin may read the response, to a request with or without *)
(* the user's cookies.                                                      *)
Granted(response, origin, withCookies) ==
    /\ origin # ""
    /\ \/ response.allowOrigin = origin
       \/ response.allowOrigin = "*" /\ ~withCookies
    /\ withCookies => response.credentials

(* A cache may answer a request of the origin with what it has from another.*)
Reusable(response, former, origin) == response.vary => former = origin

(* A cached response grants nothing that the middleware would not grant:    *)
(* one that names an origin is not reused for another (security.go:118).    *)
NoForeignGrant(cfg, former, origin, method) ==
    \A withCookies \in BOOLEAN :
        LET cached == Headers(cfg, former, method) IN
        Reusable(cached, former, origin) /\ Granted(cached, origin, withCookies)
            => Granted(Headers(cfg, origin, method), origin, withCookies)

(* Only an origin that the list names itself gets an answer to a request    *)
(* with cookies: of a validated list, never one that "*" let in.            *)
CookiesForListed(cfg, origin, method) ==
    Granted(Headers(cfg, origin, method), origin, TRUE)
        => \E i \in DOMAIN cfg.origins : cfg.origins[i] = origin

(* security.go:118: "Add Vary header for proper caching".  A response to a  *)
(* request without an allowed origin has no Vary, and a cache gives it to   *)
(* one with: what the middleware would grant is lost.                       *)
NoLostGrant(cfg, former, origin, method) ==
    LET cached == Headers(cfg, former, method) IN
    Reusable(cached, former, origin) /\ Granted(Headers(cfg, origin, method), origin, FALSE)
        => Granted(cached, origin, FALSE)
=============================================================================
