---------------------------- MODULE AdminSession ----------------------------
(***************************************************************************)
(* The double-submit CSRF tokens of the admin UI (src/web/security.rs,     *)
(* src/web/admin.rs) as one administrator's browser meets them: several    *)
(* tabs share the one csrf_token cookie, each page carries the token it    *)
(* was rendered with, and the server keeps no state but its signing key.   *)
(* Requests and responses of different tabs overlap, responses get lost,   *)
(* tokens and cookies age, the key may be replaced.  The administrator's   *)
(* own browser always sends a matching Origin or Referer.                  *)
(***************************************************************************)
EXTENDS Integers

CONSTANTS
    Tabs,       \* tabs of the browser
    Ttl,        \* CSRF_TTL_MILLIS, and the cookie's Max-Age
    None,       \* no token, no cookie, no Set-Cookie header
    Clear,      \* the Set-Cookie of the logout page
    MaxNow,     \* bound: the last instant of the clock
    MaxTokens,  \* bound: how many tokens are issued
    MaxKey      \* bound: how often the signing key is replaced

ASSUME TtlAssumption == Ttl \in Nat \ {0}
ASSUME BoundsAssumption == MaxNow \in Nat /\ MaxTokens \in Nat /\ MaxKey \in Nat

(* A token is unique by its random nonce; its signature verifies under the *)
(* key that made it.                                                       *)
Token == [nonce : Nat, expiry : Nat, key : Nat]
Cookie == [token : Token, until : Nat]

ASSUME SentinelsAssumption ==
    None # Clear /\ {None, Clear} \cap (Token \cup Cookie) = {}

VARIABLES
    now,        \* now_millis(), and the browser's clock
    key,        \* the server's CSRF_SIGNING_KEY
    issued,     \* tokens generated so far
    jar,        \* the browser's csrf_token cookie, or None
    pc,         \* what each tab shows or waits for
    req,        \* the tab's request, with the cookie it was sent with
    form,       \* the token in the forms of the tab's page, or None
    resp,       \* the response on its way to the tab
    overlap,    \* ghost: cookie or key changed since the tab's request left
    stale       \* ghost: they changed since the tab's page was asked for

vars == <<now, key, issued, jar, pc, req, form, resp, overlap, stale>>

NoReq == [what |-> "none", cookie |-> None]
NoResp == [show |-> "none", form |-> None, cookie |-> None]

Init ==
    /\ now = 0 /\ key = 0 /\ issued = 0 /\ jar = None
    /\ pc = [t \in Tabs |-> "blank"]
    /\ req = [t \in Tabs |-> NoReq]
    /\ form = [t \in Tabs |-> None]
    /\ resp = [t \in Tabs |-> NoResp]
    /\ overlap = [t \in Tabs |-> FALSE]
    /\ stale = [t \in Tabs |-> FALSE]

(***************************************************************************)
(* Tokens                                                                  *)
(***************************************************************************)
NewToken == [nonce |-> issued, expiry |-> now + Ttl, key |-> key]

(* verify_csrf_token: not expired, and signed with the present key.        *)
Verifies(token) == token # None /\ token.expiry > now /\ token.key = key

(* validate_csrf_pair: both valid, and equal.                              *)
ValidPair(cookie, field) == Verifies(cookie) /\ Verifies(field) /\ cookie = field

(* Mutant of Ensured: every page gets a token of its own.                  *)
EnsuredAlwaysNew(cookie) == [form |-> NewToken, cookie |-> NewToken]

(* ensure_csrf_token: the token for the page's forms and the Set-Cookie.   *)
Ensured(cookie) ==
    IF Verifies(cookie) THEN [form |-> cookie, cookie |-> None]
    ELSE [form |-> NewToken, cookie |-> NewToken]

Issues(ensured) ==
    \/ ensured.cookie = None /\ UNCHANGED issued
    \/ /\ ensured.cookie # None /\ issued < MaxTokens
       /\ issued' = issued + 1

(***************************************************************************)
(* The browser sends                                                       *)
(***************************************************************************)
Goto(t, place) == pc' = [pc EXCEPT ![t] = place]

(* The cookie that goes with a request; Max-Age drops an old one.          *)
SentFrom(held) == IF held # None /\ now < held.until THEN held.token ELSE None

Send(t, what, cookie) ==
    /\ req' = [req EXCEPT ![t] = [what |-> what, cookie |-> cookie]]
    /\ overlap' = [overlap EXCEPT ![t] = FALSE]

(* An admin page is opened or reloaded, or the logout page.                *)
Open(t, what) ==
    /\ pc[t] \in {"blank", "page", "error"}
    /\ Send(t, what, SentFrom(jar))
    /\ form' = [form EXCEPT ![t] = None]
    /\ stale' = [stale EXCEPT ![t] = FALSE]
    /\ Goto(t, "asking")
    /\ UNCHANGED <<now, key, issued, jar, resp>>

(* A form of the page is submitted.                                        *)
Submit(t) ==
    /\ pc[t] = "page"
    /\ Send(t, "post", SentFrom(jar))
    /\ Goto(t, "posted")
    /\ UNCHANGED <<now, key, issued, jar, form, resp, stale>>

(***************************************************************************)
(* The server answers                                                      *)
(***************************************************************************)
Respond(t, show, token, cookie) ==
    /\ resp' = [resp EXCEPT ![t] = [show |-> show, form |-> token, cookie |-> cookie]]
    /\ Goto(t, "answered")

(* html_error and the 408: no form, and no Set-Cookie either.              *)
RespondError(t) == Respond(t, "error", None, None)

(* admin_list and admin_edit_form ensure a token before they query; their  *)
(* error pages drop it.                                                    *)
ServePage(t) ==
    /\ pc[t] = "asking" /\ req[t].what = "get"
    /\ LET e == Ensured(req[t].cookie) IN
       /\ Issues(e)
       /\ Respond(t, "page", e.form, e.cookie) \/ RespondError(t)
    /\ UNCHANGED <<now, key, jar, req, form, overlap, stale>>

(* admin_logout expires the cookie, whatever it was.                       *)
ServeLogout(t) ==
    /\ pc[t] = "asking" /\ req[t].what = "logout"
    /\ Respond(t, "error", None, Clear)
    /\ UNCHANGED <<now, key, issued, jar, req, form, overlap, stale>>

(* check_browser_mutation: refused with a 403 page, or let through.        *)
Check(t) ==
    /\ pc[t] = "posted"
    /\ \/ /\ ValidPair(req[t].cookie, form[t])
          /\ Goto(t, "checked")
          /\ UNCHANGED resp
       \/ ~ValidPair(req[t].cookie, form[t]) /\ RespondError(t)
    /\ UNCHANGED <<now, key, issued, jar, req, form, overlap, stale>>

(* Mutant of Act: the re-rendered page's new cookie is left out.           *)
ActWithoutCookie(t) ==
    /\ pc[t] = "checked"
    /\ LET e == Ensured(req[t].cookie) IN
       /\ Issues(e)
       /\ \/ Respond(t, "redirect", None, e.cookie)
          \/ Respond(t, "page", e.form, None)
          \/ RespondError(t)
    /\ UNCHANGED <<now, key, jar, req, form, overlap, stale>>

(* After the check the handler ensures a token again, on a clock that may  *)
(* have passed the token's expiry: a success redirects, a refused create   *)
(* or update re-renders its form, a refused toggle is an error page.       *)
Act(t) ==
    /\ pc[t] = "checked"
    /\ LET e == Ensured(req[t].cookie) IN
       /\ Issues(e)
       /\ \/ Respond(t, "redirect", None, e.cookie)
          \/ Respond(t, "page", e.form, e.cookie)
          \/ RespondError(t)
    /\ UNCHANGED <<now, key, jar, req, form, overlap, stale>>

(***************************************************************************)
(* The browser receives                                                    *)
(***************************************************************************)
(* Mutant of Stored: a Max-Age that is shorter than the token's life.      *)
StoredShorter(cookie) ==
    CASE cookie = None -> jar
      [] cookie = Clear -> None
      [] cookie \notin {None, Clear} -> [token |-> cookie, until |-> now + Ttl - 1]

(* Set-Cookie with Max-Age, which counts from its arrival.                 *)
Stored(cookie) ==
    CASE cookie = None -> jar
      [] cookie = Clear -> None
      [] cookie \notin {None, Clear} -> [token |-> cookie, until |-> now + Ttl]

(* Requests under way in a tab, and pages it still shows.                  *)
InFlight == {"asking", "posted", "checked", "answered"}

(* The other tabs' requests and pages were made for another cookie.        *)
Disturbs(t) ==
    /\ overlap' = [u \in Tabs |-> IF u = t THEN FALSE
                                  ELSE overlap[u] \/ (resp[t].cookie # None /\ pc[u] \in InFlight)]
    /\ stale' = [u \in Tabs |-> IF u = t THEN overlap[t]
                                ELSE stale[u] \/ (resp[t].cookie # None /\ pc[u] = "page")]

(* A page is shown, or a redirect followed with the cookie just stored.    *)
Receive(t) ==
    /\ pc[t] = "answered"
    /\ jar' = Stored(resp[t].cookie)
    /\ Disturbs(t)
    /\ resp' = [resp EXCEPT ![t] = NoResp]
    /\ form' = [form EXCEPT ![t] = resp[t].form]
    /\ \/ /\ resp[t].show = "redirect"
          /\ req' = [req EXCEPT ![t] = [what |-> "get", cookie |-> SentFrom(jar')]]
          /\ Goto(t, "asking")
       \/ /\ resp[t].show # "redirect"
          /\ req' = [req EXCEPT ![t] = NoReq]
          /\ Goto(t, resp[t].show)
    /\ UNCHANGED <<now, key, issued>>

(* The connection fails, before or after the server has acted.             *)
Lose(t) ==
    /\ pc[t] \in {"asking", "posted", "answered"}
    /\ Goto(t, "error")
    /\ form' = [form EXCEPT ![t] = None]
    /\ req' = [req EXCEPT ![t] = NoReq]
    /\ resp' = [resp EXCEPT ![t] = NoResp]
    /\ UNCHANGED <<now, key, issued, jar, overlap, stale>>

(* README, "Credential rotation": a restart with a new CSRF_SIGNING_KEY,   *)
(* when no handler is between its two steps.                               *)
RotateKey ==
    /\ key < MaxKey
    /\ \A t \in Tabs : pc[t] # "checked"
    /\ key' = key + 1
    /\ overlap' = [t \in Tabs |-> overlap[t] \/ pc[t] \in InFlight]
    /\ stale' = [t \in Tabs |-> stale[t] \/ pc[t] \in {"page", "posted"}]
    /\ UNCHANGED <<now, issued, jar, pc, req, form, resp>>

Tick ==
    /\ now < MaxNow
    /\ now' = now + 1
    /\ UNCHANGED <<key, issued, jar, pc, req, form, resp, overlap, stale>>

(* The bound on tokens is used up.                                         *)
Spent == issued = MaxTokens /\ UNCHANGED vars

Next ==
    \/ \E t \in Tabs :
          \/ \E what \in {"get", "logout"} : Open(t, what)
          \/ Submit(t) \/ ServePage(t) \/ ServeLogout(t) \/ Check(t) \/ Act(t)
          \/ Receive(t) \/ Lose(t)
    \/ RotateKey \/ Tick \/ Spent

Spec == Init /\ [][Next]_vars

(***************************************************************************)
(* Properties                                                              *)
(***************************************************************************)
Maybe(S) == S \cup {None}

(* A page has a form; a form's token was issued; a cookie outlives its     *)
(* token.                                                                  *)
TypeOK ==
    /\ now \in 0 .. MaxNow /\ key \in 0 .. MaxKey /\ issued \in 0 .. MaxTokens
    /\ jar \in Maybe(Cookie) /\ (jar # None => jar.token.expiry <= jar.until)
    /\ pc \in [Tabs -> {"blank", "page", "error"} \cup InFlight]
    /\ req \in [Tabs -> [what : {"none", "get", "logout", "post"}, cookie : Maybe(Token)]]
    /\ form \in [Tabs -> Maybe(Token)]
    /\ \A t \in Tabs : pc[t] \in {"page", "posted", "checked"} => form[t] # None
    /\ \A t \in Tabs : form[t] # None => form[t].nonce < issued
    /\ resp \in [Tabs -> [show : {"none", "page", "redirect", "error"},
                          form : Maybe(Token), cookie : Maybe(Token) \cup {Clear}]]
    /\ overlap \in [Tabs -> BOOLEAN] /\ stale \in [Tabs -> BOOLEAN]

(* A form of the administrator's own page is refused for a cause only: its *)
(* token's day is over, or since the page was asked for another tab's      *)
(* response changed the cookie or the key was replaced.  No sequence of    *)
(* reloads, submissions, error pages, redirects, lost responses and ageing *)
(* in the tab itself leaves it with a form that cannot be sent.            *)
RefusedForCause ==
    [][\A t \in Tabs :
         pc[t] = "posted" /\ pc'[t] = "answered" =>
             stale[t] \/ form[t].expiry <= now]_vars

(* A cookie that still verifies is only ever replaced by a response whose  *)
(* request left without it, and is only removed by a logout: two tabs that *)
(* work with the same token do not take it from each other.                *)
ValidCookieStays ==
    [][jar # None /\ Verifies(jar.token) /\ jar' # jar =>
         \E t \in Tabs : /\ pc[t] = "answered" /\ pc'[t] # "answered"
                         /\ req[t].cookie # jar.token \/ req[t].what = "logout"]_vars
=============================================================================
