------------------------------ MODULE CsrfTokens ------------------------------
(****************************************************************************)
(* The CSRF middleware and one browser: several tabs load pages of the      *)
(* program and submit forms of them, and share one cookie jar.  The         *)
(* middleware keeps nothing; the token lives in the jar and in the pages.   *)
(* A handler call is a step, and so are a page's way back to its tab and a  *)
(* form's way to the server: responses overtake each other.                 *)
(*                                                                          *)
(* ExposeTokenHeader hands the page the same token over another way and is  *)
(* not told apart.  GET stands for HEAD and OPTIONS too.                    *)
(*                                                                          *)
(* Bounds.  MaxClears bounds how often the cookie is lost, MaxFaults how    *)
(* often rand.Read fails.                                                   *)
(****************************************************************************)
EXTENDS Naturals

CONSTANTS Tabs, Silent, MaxClears, MaxFaults, Absent, Empty

(* Silent tabs send neither Origin nor Referer with a form. *)
ASSUME CsrfAssumption ==
    /\ Silent \subseteq Tabs
    /\ MaxClears \in Nat /\ MaxFaults \in Nat
    /\ Absent # Empty /\ Absent \notin Nat /\ Empty \notin Nat

VARIABLES
    mode,        \* cfg.Mode
    listed,      \* what TrustedHostsSource has: the program's host or another
    jar,         \* the browser's cookie: a token, Empty, or Absent
    minted,      \* how many tokens generateCSRFToken has returned
    pc,          \* where each tab is
    cookie,      \* the cookie of its request
    page,        \* the token in its page
    setCookie,   \* the Set-Cookie of its response
    verdict,     \* what the server said to its form
    clears, faults,
    overtaken    \* history: the jar changed since the page was asked for

serverVars == <<mode, listed, minted>>
browserVars == <<jar, pc, cookie, page, setCookie, verdict>>
csrfVars == <<serverVars, browserVars, clears, faults, overtaken>>

Modes == {"synchronizer", "double_submit", "origin_only"}
Tokens == 1..minted
Verdicts == {"none", "accepted", "origin", "missing", "mismatch", "internal"}

CsrfTypeOK ==
    /\ mode \in Modes
    /\ listed \in {"nothing", "host", "another"}
    /\ jar \in Tokens \cup {Absent, Empty}
    /\ minted \in Nat
    /\ pc \in [Tabs -> {"blank", "asked", "answered", "shown", "posted", "replied"}]
    /\ cookie \in [Tabs -> Tokens \cup {Absent, Empty}]
    /\ {page, setCookie} \subseteq [Tabs -> Tokens \cup {Absent, Empty}]
    /\ verdict \in [Tabs -> Verdicts]
    /\ clears \in 0..MaxClears /\ faults \in 0..MaxFaults
    /\ overtaken \in [Tabs -> BOOLEAN]

CsrfInit ==
    /\ mode \in Modes
    /\ listed \in {"nothing", "host", "another"}
    /\ jar \in {Absent, Empty}
    /\ minted = 0
    /\ pc = [t \in Tabs |-> "blank"]
    /\ cookie = [t \in Tabs |-> Absent]
    /\ page = [t \in Tabs |-> Absent]
    /\ setCookie = [t \in Tabs |-> Absent]
    /\ verdict = [t \in Tabs |-> "none"]
    /\ clears = 0 /\ faults = 0
    /\ overtaken = [t \in Tabs |-> FALSE]

Goto(t, l) == pc' = [pc EXCEPT ![t] = l]

-----------------------------------------------------------------------------
(* A tab asks for a page.  The browser adds the cookie it has by now.       *)
AskPage(t) ==
    /\ pc[t] \in {"blank", "replied"}
    /\ Goto(t, "asked")
    /\ cookie' = [cookie EXCEPT ![t] = jar]
    /\ page' = [page EXCEPT ![t] = Absent]
    /\ verdict' = [verdict EXCEPT ![t] = "none"]
    /\ overtaken' = [overtaken EXCEPT ![t] = FALSE]
    /\ UNCHANGED <<serverVars, jar, setCookie, clears, faults>>

(* csrfEnsureToken: a cookie that is there and not empty is kept.           *)
VariantAlwaysMints(t) == FALSE
VariantEmptyIsToken(t) == cookie[t] # Absent
HasToken(t) == cookie[t] \notin {Absent, Empty}

(* CSRFTokenFrom: the token in the request's context, which on the page     *)
(* that mints it is not in the request's cookie yet.                        *)
VariantTokenOfCookie(t, token) == cookie[t]
TokenFrom(t, token) == token

ServePage(t) ==
    /\ pc[t] = "asked"
    /\ Goto(t, "answered")
    /\ \/ /\ mode = "origin_only"
          /\ page' = [page EXCEPT ![t] = Absent]
          /\ UNCHANGED <<minted, setCookie>>
       \/ /\ mode # "origin_only" /\ HasToken(t)
          /\ page' = [page EXCEPT ![t] = TokenFrom(t, cookie[t])]
          /\ UNCHANGED <<minted, setCookie>>
       \/ /\ mode # "origin_only" /\ ~HasToken(t)
          /\ minted' = minted + 1
          /\ page' = [page EXCEPT ![t] = TokenFrom(t, minted')]
          /\ setCookie' = [setCookie EXCEPT ![t] = minted']
    /\ UNCHANGED <<mode, listed, jar, cookie, verdict, clears, faults, overtaken>>

(* "CSRF token generation failed": 500, without a page. *)
ServeFails(t) ==
    /\ pc[t] = "asked"
    /\ mode # "origin_only" /\ ~HasToken(t)
    /\ faults < MaxFaults
    /\ faults' = faults + 1
    /\ Goto(t, "replied")
    /\ verdict' = [verdict EXCEPT ![t] = "internal"]
    /\ cookie' = [cookie EXCEPT ![t] = Absent]
    /\ UNCHANGED <<serverVars, jar, page, setCookie, clears, overtaken>>

(* The response arrives; a Set-Cookie replaces what the jar has.            *)
ShowPage(t) ==
    /\ pc[t] = "answered"
    /\ Goto(t, "shown")
    /\ cookie' = [cookie EXCEPT ![t] = Absent]
    /\ \/ setCookie[t] = Absent /\ UNCHANGED <<jar, setCookie, overtaken>>
       \/ /\ setCookie[t] # Absent
          /\ jar' = setCookie[t]
          /\ setCookie' = [setCookie EXCEPT ![t] = Absent]
          /\ overtaken' = [u \in Tabs |-> u # t]
    /\ UNCHANGED <<serverVars, page, verdict, clears, faults>>

(* The cookie goes: logout, expiry, the user. *)
ClearJar ==
    /\ clears < MaxClears
    /\ clears' = clears + 1
    /\ \E c \in {Absent, Empty} : jar' = c
    /\ overtaken' = [t \in Tabs |-> TRUE]
    /\ UNCHANGED <<serverVars, pc, cookie, page, setCookie, verdict, faults>>

(* The form goes out, the first of a page or the next one of a page that    *)
(* was rendered again after an accepted form, with the same token           *)
(* (CSRFTokenFrom).  In double_submit its script copies document.cookie.    *)
Submit(t) ==
    /\ \/ pc[t] = "shown"
       \/ pc[t] = "replied" /\ verdict[t] = "accepted"
    /\ Goto(t, "posted")
    /\ cookie' = [cookie EXCEPT ![t] = jar]
    /\ page' = [page EXCEPT ![t] =
                  IF mode = "double_submit" THEN jar ELSE @]
    /\ verdict' = [verdict EXCEPT ![t] = "none"]
    /\ UNCHANGED <<serverVars, jar, setCookie, clears, faults, overtaken>>

(* validateOrigin: the list decides, or the request's Host if it is empty.  *)
OriginValid(t) == t \notin Silent /\ listed # "another"

(* The checks of an unsafe method, in their order. *)
Answer(t) ==
    CASE ~OriginValid(t) -> "origin"
      [] OriginValid(t) /\ mode = "origin_only" -> "accepted"
      [] OriginValid(t) /\ mode # "origin_only" ->
            IF cookie[t] = Absent \/ page[t] \in {Absent, Empty} THEN "missing"
            ELSE IF page[t] = cookie[t] THEN "accepted" ELSE "mismatch"

ServeForm(t) ==
    /\ pc[t] = "posted"
    /\ Goto(t, "replied")
    /\ verdict' = [verdict EXCEPT ![t] = Answer(t)]
    /\ cookie' = [cookie EXCEPT ![t] = Absent]
    /\ UNCHANGED <<serverVars, jar, page, setCookie, clears, faults, overtaken>>

(* The list of trusted hosts is read again for every form. *)
ListChanges ==
    /\ listed' \in {"nothing", "host", "another"} \ {listed}
    /\ UNCHANGED <<mode, minted, browserVars, clears, faults, overtaken>>

TabStep(t) ==
    \/ AskPage(t) \/ ServePage(t) \/ ServeFails(t) \/ ShowPage(t)
    \/ Submit(t) \/ ServeForm(t)

CsrfNext == ClearJar \/ ListChanges \/ \E t \in Tabs : TabStep(t)

CsrfSpec == CsrfInit /\ [][CsrfNext]_csrfVars

(* Handlers return; a user who is refused loads the page again, and submits *)
(* what it shows.                                                           *)
FairSpec == CsrfSpec /\ \A t \in Tabs : WF_csrfVars(TabStep(t))

-----------------------------------------------------------------------------
(* Properties.                                                              *)

(* A form is refused for its token only if the cookie was lost, or another  *)
(* response set it, after its page was asked for (security.go:374-391).     *)
(* What else another tab does costs nobody a form.                          *)
RefusalMeansOvertaken ==
    \A t \in Tabs :
        pc[t] = "replied" /\ verdict[t] \in {"missing", "mismatch"} => overtaken[t]

(* The requests that may still bring the browser a new token. *)
Minting ==
    {t \in Tabs : pc[t] \in {"asked", "answered"} /\ cookie[t] \in {Absent, Empty}}

(* Once the browser has a token and no request without one is on its way,   *)
(* no page replaces the token: csrfEnsureToken echoes, it does not rotate.  *)
SettledTokenStays ==
    [][Minting = {} /\ jar \in Tokens /\ clears' = clears => jar' = jar]_csrfVars

(* Reloading helps: while the program's own host is trusted, every tab that *)
(* names its origin gets its forms through again and again, whatever the    *)
(* race for the first cookie did to it.                                     *)
RetrySucceeds ==
    \A t \in Tabs \ Silent :
        <>[](listed # "another") => []<>(pc[t] = "replied" /\ verdict[t] = "accepted")
=============================================================================
