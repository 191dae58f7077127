------------------------- MODULE AdminSessionProofs -------------------------
(***************************************************************************)
(* What the administrator's tabs can rely on, for any number of tabs, any  *)
(* token life and any number of new keys: type correctness,                *)
(* RefusedForCause and ValidCookieStays.                                   *)
(*                                                                         *)
(* The server remembers nothing, so the argument follows a token: through  *)
(* the request's cookie, the response, the browser's jar and the form.     *)
(* The inductive invariant says at each of these places that, unless the   *)
(* tab was disturbed, the token in hand is the one the jar holds, or one   *)
(* whose day is over.                                                      *)
(***************************************************************************)
EXTENDS AdminSession, TLAPS

(* Tokens in circulation were issued, under a key used so far.             *)
Known(x) == x.nonce < issued /\ x.key <= key

TokensKnown ==
    /\ jar # None => Known(jar.token)
    /\ \A t \in Tabs :
          /\ req[t].cookie # None => Known(req[t].cookie)
          /\ form[t] # None => Known(form[t])
          /\ resp[t].form # None => Known(resp[t].form)
          /\ resp[t].cookie \notin {None, Clear} => Known(resp[t].cookie)

Unsettled == {"asking", "posted", "checked"}

(* The jar holds the token, or its day is over.                            *)
Held(x) == x.expiry <= now \/ (jar # None /\ jar.token = x)

RequestInv(t) ==
    pc[t] \in Unsettled /\ ~overlap[t] /\ req[t].cookie # None =>
        jar # None /\ jar.token = req[t].cookie

PageInv(t) ==
    /\ pc[t] = "page" /\ ~stale[t] => form[t].key = key /\ Held(form[t])
    /\ pc[t] = "posted" /\ ~stale[t] =>
          /\ form[t].key = key
          /\ form[t].expiry <= now \/ req[t].cookie = form[t]

ResponseInv(t) ==
    pc[t] = "answered" =>
        /\ resp[t].show \in {"page", "redirect", "error"}
        /\ resp[t].cookie = Clear => req[t].what = "logout"
        /\ resp[t].cookie \notin {None, Clear} =>
              ~Verifies(req[t].cookie) /\ resp[t].cookie.expiry <= now + Ttl
        /\ resp[t].show = "page" =>
              /\ resp[t].form # None
              /\ ~overlap[t] =>
                    /\ resp[t].form.key = key
                    /\ \/ resp[t].cookie = resp[t].form
                       \/ resp[t].cookie = None /\ Held(resp[t].form)

TabInv(t) == RequestInv(t) /\ PageInv(t) /\ ResponseInv(t)

IInv == TypeOK /\ TokensKnown /\ \A t \in Tabs : TabInv(t)

(***************************************************************************)
(* Tokens                                                                  *)
(***************************************************************************)
LEMMA NotSentinels ==
    None \notin Token /\ Clear \notin Token /\ None \notin Cookie /\ None # Clear
BY SentinelsAssumption

(* Whatever the request's cookie was, the page gets a token of the present *)
(* key; a new one only if the cookie did not verify.                       *)
LEMMA EnsuredFacts ==
    ASSUME TypeOK, NEW c \in Maybe(Token), c # None => Known(c), Issues(Ensured(c))
    PROVE  /\ issued' \in 0 .. MaxTokens /\ issued <= issued'
           /\ Ensured(c).form \in Token /\ Ensured(c).cookie \in Maybe(Token)
           /\ Ensured(c).form.nonce < issued' /\ Ensured(c).form.key = key
           /\ Ensured(c).cookie # None =>
                 /\ Ensured(c).cookie = Ensured(c).form /\ ~Verifies(c)
                 /\ Ensured(c).cookie.expiry <= now + Ttl
           /\ Ensured(c).cookie = None => c # None /\ Ensured(c).form = c
<1>1. /\ now \in Nat /\ key \in Nat /\ issued \in Nat /\ Ttl \in Nat
      /\ issued \in 0 .. MaxTokens /\ MaxTokens \in Nat
  BY TtlAssumption, BoundsAssumption DEF TypeOK
<1>2. CASE Verifies(c)
  <2>1. c # None /\ c \in Token /\ c.key = key BY <1>2 DEF Verifies, Maybe
  <2>2. Ensured(c) = [form |-> c, cookie |-> None] BY <1>2 DEF Ensured
  <2>3. issued' = issued BY <2>2 DEF Issues
  <2>4. c.nonce < issued BY <2>1 DEF Known
  <2> QED BY <1>1, <2>1, <2>2, <2>3, <2>4 DEF Maybe
<1>3. CASE ~Verifies(c)
  <2>1. Ensured(c) = [form |-> NewToken, cookie |-> NewToken] BY <1>3 DEF Ensured
  <2>2. NewToken \in Token BY <1>1 DEF NewToken, Token
  <2>3. NewToken # None BY <2>2, NotSentinels
  <2>4. issued' = issued + 1 /\ issued < MaxTokens BY <2>1, <2>3 DEF Issues
  <2>5. /\ NewToken.nonce < issued' /\ NewToken.key = key
        /\ NewToken.expiry <= now + Ttl
    BY <1>1, <2>4 DEF NewToken
  <2> QED BY <1>1, <1>3, <2>1, <2>2, <2>3, <2>4, <2>5 DEF Maybe
<1> QED BY <1>2, <1>3

(* A token that does not verify never will again.                          *)
LEMMA RefusalLasts ==
    ASSUME TypeOK, NEW c \in Maybe(Token), c # None => Known(c), ~Verifies(c),
           now' \in Nat, now <= now', key' \in Nat, key <= key'
    PROVE  ~(c # None /\ c.expiry > now' /\ c.key = key')
<1>1. now \in Nat /\ key \in Nat BY BoundsAssumption DEF TypeOK
<1>2. CASE c = None BY <1>2
<1>3. CASE c # None
  <2>1. c.expiry \in Nat /\ c.key \in Nat BY <1>3 DEF Maybe, Token
  <2> QED BY <1>1, <1>3, <2>1 DEF Verifies, Known
<1> QED BY <1>2, <1>3

(* The cookie the browser sends is the jar's, or the jar's token is over.  *)
LEMMA SentFacts ==
    ASSUME NEW held \in Maybe(Cookie), held # None => held.token.expiry <= held.until,
           NEW n \in Nat, now = n
    PROVE  /\ SentFrom(held) \in Maybe(Token)
           /\ SentFrom(held) # None => held # None /\ SentFrom(held) = held.token
           /\ held # None /\ SentFrom(held) = None => held.token.expiry <= now
<1>1. held # None => /\ held.token \in Token /\ held.until \in Nat
                     /\ held.token.expiry \in Nat
  BY DEF Maybe, Cookie, Token
<1>2. held # None => held.token # None BY <1>1, NotSentinels
<1> QED BY <1>1, <1>2 DEF SentFrom, Maybe

(***************************************************************************)
(* Steps                                                                   *)
(***************************************************************************)
(* A tab that a step leaves alone, with the jar and the key, keeps its     *)
(* part of the invariant as time passes.                                   *)
LEMMA TabFrame ==
    ASSUME NEW u \in Tabs, IInv, now' \in Nat, now <= now', key' = key, jar' = jar,
           pc'[u] = pc[u], req'[u] = req[u], form'[u] = form[u],
           resp'[u] = resp[u], overlap'[u] = overlap[u], stale'[u] = stale[u]
    PROVE  TabInv(u)'
<1>1. /\ now \in Nat /\ key \in Nat /\ TypeOK /\ TabInv(u) /\ TokensKnown
      /\ req[u].cookie \in Maybe(Token)
      /\ form[u] \in Maybe(Token) /\ resp[u].form \in Maybe(Token)
  BY BoundsAssumption DEF IInv, TypeOK
<1>2. RequestInv(u)' BY <1>1 DEF TabInv, RequestInv
<1>3. ASSUME NEW x \in Token, Held(x)
      PROVE  x.expiry <= now' \/ (jar' # None /\ jar'.token = x)
  <2>1. x.expiry \in Nat BY DEF Token
  <2> QED BY <1>1, <1>3, <2>1 DEF Held
<1>4. PageInv(u)'
  <2>1. pc[u] \in {"page", "posted"} => form[u] \in Token /\ form[u].expiry \in Nat
    BY <1>1 DEF TypeOK, Maybe, Token
  <2> QED BY <1>1, <1>3, <2>1 DEF TabInv, PageInv, Held
<1>5. ResponseInv(u)'
  <2> SUFFICES ASSUME pc[u] = "answered" PROVE ResponseInv(u)'
    BY DEF ResponseInv
  <2>1. ResponseInv(u) BY <1>1 DEF TabInv
  <2>2. resp[u].cookie \notin {None, Clear} =>
           ~(req[u].cookie # None /\ req[u].cookie.expiry > now' /\ req[u].cookie.key = key')
    <3>1. req[u].cookie # None => Known(req[u].cookie) BY <1>1 DEF TokensKnown
    <3> QED BY <1>1, <2>1, <3>1, RefusalLasts DEF ResponseInv
  <2>3. resp[u].show = "page" => resp[u].form \in Token
    BY <1>1, <2>1 DEF ResponseInv, Maybe
  <2>4. resp[u].cookie \notin {None, Clear} => resp[u].cookie.expiry <= now' + Ttl
    <3>1. resp[u].cookie \in Maybe(Token) \cup {Clear} /\ Ttl \in Nat
      BY <1>1, TtlAssumption DEF TypeOK
    <3>2. resp[u].cookie \notin {None, Clear} => resp[u].cookie.expiry \in Nat
      BY <3>1 DEF Maybe, Token
    <3> QED BY <1>1, <2>1, <3>1, <3>2 DEF ResponseInv
  <2> QED BY <1>3, <2>1, <2>2, <2>3, <2>4 DEF ResponseInv, Verifies, Held
<1> QED BY <1>2, <1>4, <1>5 DEF TabInv

LEMMA InitInv == Init => IInv
<1> SUFFICES ASSUME Init PROVE IInv
  OBVIOUS
<1> USE DEF Init, NoReq, NoResp
<1>1. TypeOK
  BY BoundsAssumption DEF TypeOK, Maybe, InFlight
<1>2. TokensKnown BY DEF TokensKnown
<1>3. \A t \in Tabs : TabInv(t)
  BY DEF TabInv, RequestInv, PageInv, ResponseInv, Unsettled
<1> QED BY <1>1, <1>2, <1>3 DEF IInv

LEMMA OpenStep ==
    ASSUME IInv, NEW t \in Tabs, NEW what \in {"get", "logout"}, Open(t, what)
    PROVE  IInv'
<1>1. TypeOK /\ TokensKnown /\ now \in Nat /\ now = now'
  BY BoundsAssumption DEF IInv, TypeOK, Open
<1> DEFINE c == SentFrom(jar)
<1>2. /\ c \in Maybe(Token)
      /\ c # None => jar # None /\ c = jar.token
  BY <1>1, SentFacts DEF TypeOK
<1> HIDE DEF c
<1>3. req' = [req EXCEPT ![t] = [what |-> what, cookie |-> c]]
  BY DEF Open, Send, c
<1>4. TypeOK'
  BY <1>1, <1>2, <1>3 DEF TypeOK, Open, Send, Goto, InFlight, Maybe
<1>5. TokensKnown'
  BY <1>1, <1>2, <1>3 DEF TokensKnown, TypeOK, Open, Known
<1>6. ASSUME NEW u \in Tabs, u # t PROVE TabInv(u)'
  <2>1. /\ pc'[u] = pc[u] /\ req'[u] = req[u] /\ form'[u] = form[u]
        /\ resp'[u] = resp[u] /\ overlap'[u] = overlap[u] /\ stale'[u] = stale[u]
    BY <1>1, <1>3, <1>6 DEF TypeOK, Open, Send, Goto
  <2>2. now' \in Nat /\ now <= now' /\ key' = key /\ jar' = jar
    BY <1>1 DEF Open
  <2> QED BY <2>1, <2>2, TabFrame
<1>7. TabInv(t)'
  BY <1>1, <1>2, <1>3
  DEF TypeOK, Open, Send, Goto, TabInv, RequestInv, PageInv, ResponseInv, Unsettled
<1> QED BY <1>4, <1>5, <1>6, <1>7 DEF IInv

LEMMA SubmitStep ==
    ASSUME IInv, NEW t \in Tabs, Submit(t)
    PROVE  IInv'
<1>1. TypeOK /\ TokensKnown /\ now \in Nat /\ now = now' /\ PageInv(t)
  BY BoundsAssumption DEF IInv, TypeOK, Submit, TabInv
<1> DEFINE c == SentFrom(jar)
<1>2. /\ c \in Maybe(Token)
      /\ c # None => jar # None /\ c = jar.token
      /\ jar # None /\ c = None => jar.token.expiry <= now
  BY <1>1, SentFacts DEF TypeOK
<1> HIDE DEF c
<1>3. req' = [req EXCEPT ![t] = [what |-> "post", cookie |-> c]]
  BY DEF Submit, Send, c
<1>4. TypeOK'
  BY <1>1, <1>2, <1>3 DEF TypeOK, Submit, Send, Goto, InFlight, Maybe
<1>5. TokensKnown'
  BY <1>1, <1>2, <1>3 DEF TokensKnown, TypeOK, Submit, Known
<1>6. ASSUME NEW u \in Tabs, u # t PROVE TabInv(u)'
  <2>1. /\ pc'[u] = pc[u] /\ req'[u] = req[u] /\ form'[u] = form[u]
        /\ resp'[u] = resp[u] /\ overlap'[u] = overlap[u] /\ stale'[u] = stale[u]
    BY <1>1, <1>3, <1>6 DEF TypeOK, Submit, Send, Goto
  <2>2. now' \in Nat /\ now <= now' /\ key' = key /\ jar' = jar
    BY <1>1 DEF Submit
  <2> QED BY <2>1, <2>2, TabFrame
<1>7. pc[t] = "page" /\ pc'[t] = "posted" /\ req'[t].cookie = c
  BY <1>1, <1>3 DEF TypeOK, Submit, Goto
<1>8. RequestInv(t)'
  BY <1>2, <1>7 DEF RequestInv, Submit
<1>9. PageInv(t)'
  BY <1>1, <1>2, <1>7 DEF PageInv, Held, Submit
<1>10. ResponseInv(t)' BY <1>7 DEF ResponseInv
<1> QED BY <1>4, <1>5, <1>6, <1>8, <1>9, <1>10 DEF IInv, TabInv

(* A response leaves the server: what it must satisfy.                     *)
LEMMA RespondStep ==
    ASSUME IInv, NEW t \in Tabs, NEW show \in {"page", "redirect", "error"},
           NEW token \in Maybe(Token), NEW cookie \in Maybe(Token) \cup {Clear},
           pc[t] \in Unsettled, Respond(t, show, token, cookie),
           issued' \in 0 .. MaxTokens, issued <= issued',
           UNCHANGED <<now, key, jar, req, form, overlap, stale>>,
           token # None => token.nonce < issued' /\ token.key <= key,
           cookie \notin {None, Clear} => cookie.nonce < issued' /\ cookie.key <= key,
           cookie = Clear => req[t].what = "logout",
           cookie \notin {None, Clear} =>
              ~Verifies(req[t].cookie) /\ cookie.expiry <= now + Ttl,
           show = "page" =>
              /\ token # None
              /\ ~overlap[t] =>
                    /\ token.key = key
                    /\ cookie = token \/ (cookie = None /\ Held(token))
    PROVE  IInv'
<1>1. TypeOK /\ TokensKnown /\ now \in Nat /\ issued \in Nat
  BY BoundsAssumption DEF IInv, TypeOK
<1>2. resp' = [resp EXCEPT ![t] = [show |-> show, form |-> token, cookie |-> cookie]]
      /\ pc' = [pc EXCEPT ![t] = "answered"]
  BY DEF Respond, Goto
<1>3. TypeOK'
  <2>1. \A u \in Tabs : form'[u] # None => form'[u].nonce < issued'
    <3> TAKE u \in Tabs
    <3> HAVE form'[u] # None
    <3>1. form[u] \in Token /\ form[u].nonce < issued BY <1>1 DEF TypeOK, Maybe
    <3> QED BY <1>1, <3>1 DEF Token
  <2> QED BY <1>1, <1>2, <2>1 DEF TypeOK, InFlight
<1>4. TokensKnown'
  <2>1. ASSUME NEW x \in Token, Known(x) PROVE x.nonce < issued' /\ x.key <= key'
    BY <1>1, <2>1 DEF Known, Token
  <2>2. jar # None => jar.token \in Token BY <1>1 DEF TypeOK, Maybe, Cookie
  <2>3. \A u \in Tabs : /\ req[u].cookie \in Maybe(Token) /\ form[u] \in Maybe(Token)
                        /\ resp[u].form \in Maybe(Token)
                        /\ resp[u].cookie \in Maybe(Token) \cup {Clear}
    BY <1>1 DEF TypeOK
  <2>4. jar' # None => Known(jar.token)' BY <1>1, <2>1, <2>2 DEF TokensKnown, Known
  <2>5. ASSUME NEW u \in Tabs
        PROVE  /\ req'[u].cookie # None => Known(req[u].cookie)'
               /\ form'[u] # None => Known(form[u])'
    BY <1>1, <2>1, <2>3 DEF TokensKnown, Known, Maybe
  <2>6. ASSUME NEW u \in Tabs, u # t
        PROVE  /\ resp'[u].form # None => Known(resp[u].form)'
               /\ resp'[u].cookie \notin {None, Clear} => Known(resp[u].cookie)'
    <3>1. resp'[u] = resp[u] BY <1>1, <1>2, <2>6 DEF TypeOK
    <3> QED BY <1>1, <2>1, <2>3, <3>1 DEF TokensKnown, Known, Maybe
  <2>7. resp'[t] = [show |-> show, form |-> token, cookie |-> cookie]
    BY <1>1, <1>2 DEF TypeOK
  <2>8. /\ resp'[t].form # None => Known(resp[t].form)'
        /\ resp'[t].cookie \notin {None, Clear} => Known(resp[t].cookie)'
    BY <2>7 DEF Known
  <2> QED BY <2>4, <2>5, <2>6, <2>8 DEF TokensKnown
<1>5. ASSUME NEW u \in Tabs, u # t PROVE TabInv(u)'
  BY <1>1, <1>2, <1>5, TabFrame DEF TypeOK
<1>6. resp'[t] = [show |-> show, form |-> token, cookie |-> cookie] /\ pc'[t] = "answered"
  BY <1>1, <1>2 DEF TypeOK
<1>7. TabInv(t)'
  BY <1>1, <1>6 DEF TabInv, RequestInv, PageInv, ResponseInv, Unsettled, Held, Verifies
<1> QED BY <1>3, <1>4, <1>5, <1>7 DEF IInv

LEMMA ServePageStep ==
    ASSUME IInv, NEW t \in Tabs, ServePage(t)
    PROVE  IInv'
<1> DEFINE e == Ensured(req[t].cookie)
<1>1. /\ TypeOK /\ TokensKnown /\ pc[t] \in Unsettled /\ Issues(e)
      /\ req[t].cookie \in Maybe(Token) /\ RequestInv(t)
      /\ key \in Nat /\ issued \in Nat
  BY BoundsAssumption DEF IInv, TypeOK, TabInv, ServePage, Unsettled
<1>2. req[t].cookie # None => Known(req[t].cookie) BY <1>1 DEF TokensKnown
<1>3. /\ issued' \in 0 .. MaxTokens /\ issued <= issued'
      /\ e.form \in Token /\ e.cookie \in Maybe(Token)
      /\ e.form.nonce < issued' /\ e.form.key = key
      /\ e.cookie # None => /\ e.cookie = e.form /\ ~Verifies(req[t].cookie)
                            /\ e.cookie.expiry <= now + Ttl
      /\ e.cookie = None => req[t].cookie # None /\ e.form = req[t].cookie
  BY <1>1, <1>2, EnsuredFacts
<1> HIDE DEF e
<1>4. UNCHANGED <<now, key, jar, req, form, overlap, stale>> BY DEF ServePage
<1>5. CASE Respond(t, "page", e.form, e.cookie)
  <2>1. e.form # None /\ e.cookie # Clear BY <1>3, NotSentinels DEF Maybe
  <2>2. e.cookie = None /\ ~overlap[t] => Held(e.form)
    BY <1>1, <1>3 DEF RequestInv, Held
  <2>3. e.form.key <= key BY <1>1, <1>3
  <2> QED BY <1>1, <1>3, <1>4, <1>5, <2>1, <2>2, <2>3, RespondStep
<1>6. CASE RespondError(t)
  BY <1>1, <1>3, <1>4, <1>6, NotSentinels, RespondStep DEF RespondError, Maybe
<1> QED BY <1>5, <1>6 DEF ServePage, e

LEMMA ServeLogoutStep ==
    ASSUME IInv, NEW t \in Tabs, ServeLogout(t)
    PROVE  IInv'
<1>1. /\ pc[t] \in Unsettled /\ req[t].what = "logout" /\ issued' = issued
      /\ UNCHANGED <<now, key, jar, req, form, overlap, stale>>
      /\ Respond(t, "error", None, Clear)
  BY DEF ServeLogout, Unsettled
<1>2. issued' \in 0 .. MaxTokens /\ issued <= issued'
  BY <1>1, BoundsAssumption DEF IInv, TypeOK
<1> QED BY <1>1, <1>2, NotSentinels, RespondStep DEF Maybe

LEMMA CheckStep ==
    ASSUME IInv, NEW t \in Tabs, Check(t)
    PROVE  IInv'
<1>1. /\ TypeOK /\ TokensKnown /\ pc[t] = "posted" /\ now \in Nat
      /\ UNCHANGED <<now, key, issued, jar, req, form, overlap, stale>>
  BY BoundsAssumption DEF IInv, TypeOK, Check
<1>2. CASE RespondError(t)
  <2>1. issued' \in 0 .. MaxTokens /\ issued <= issued' /\ pc[t] \in Unsettled
    BY <1>1, BoundsAssumption DEF TypeOK, Unsettled
  <2> QED BY <1>1, <1>2, <2>1, NotSentinels, RespondStep DEF RespondError, Maybe
<1>3. CASE Goto(t, "checked") /\ UNCHANGED resp
  <2>1. TypeOK' BY <1>1, <1>3 DEF TypeOK, Goto, InFlight
  <2>2. TokensKnown' BY <1>1, <1>3 DEF TokensKnown, Known
  <2>3. ASSUME NEW u \in Tabs, u # t PROVE TabInv(u)'
    <3>1. pc'[u] = pc[u] BY <1>1, <1>3, <2>3 DEF TypeOK, Goto
    <3> QED BY <1>1, <1>3, <3>1, TabFrame
  <2>4. pc'[t] = "checked" BY <1>1, <1>3 DEF TypeOK, Goto
  <2>5. RequestInv(t) BY DEF IInv, TabInv
  <2>6. TabInv(t)'
    BY <1>1, <1>3, <2>4, <2>5 DEF TabInv, RequestInv, PageInv, ResponseInv, Unsettled
  <2> QED BY <2>1, <2>2, <2>3, <2>6 DEF IInv
<1> QED BY <1>2, <1>3 DEF Check

LEMMA ActStep ==
    ASSUME IInv, NEW t \in Tabs, Act(t)
    PROVE  IInv'
<1> DEFINE e == Ensured(req[t].cookie)
<1>1. /\ TypeOK /\ TokensKnown /\ pc[t] \in Unsettled /\ Issues(e)
      /\ req[t].cookie \in Maybe(Token) /\ RequestInv(t)
      /\ key \in Nat /\ issued \in Nat
  BY BoundsAssumption DEF IInv, TypeOK, TabInv, Act, Unsettled
<1>2. req[t].cookie # None => Known(req[t].cookie) BY <1>1 DEF TokensKnown
<1>3. /\ issued' \in 0 .. MaxTokens /\ issued <= issued'
      /\ e.form \in Token /\ e.cookie \in Maybe(Token)
      /\ e.form.nonce < issued' /\ e.form.key = key
      /\ e.cookie # None => /\ e.cookie = e.form /\ ~Verifies(req[t].cookie)
                            /\ e.cookie.expiry <= now + Ttl
      /\ e.cookie = None => req[t].cookie # None /\ e.form = req[t].cookie
  BY <1>1, <1>2, EnsuredFacts
<1> HIDE DEF e
<1>4. UNCHANGED <<now, key, jar, req, form, overlap, stale>> BY DEF Act
<1>5. e.form # None /\ e.cookie # Clear /\ e.form.key <= key
  BY <1>1, <1>3, NotSentinels DEF Maybe
<1>6. CASE Respond(t, "page", e.form, e.cookie)
  <2>1. e.cookie = None /\ ~overlap[t] => Held(e.form)
    BY <1>1, <1>3 DEF RequestInv, Held
  <2> QED BY <1>1, <1>3, <1>4, <1>5, <1>6, <2>1, RespondStep
<1>7. CASE Respond(t, "redirect", None, e.cookie)
  BY <1>1, <1>3, <1>4, <1>5, <1>7, RespondStep DEF Maybe
<1>8. CASE RespondError(t)
  BY <1>1, <1>3, <1>4, <1>8, NotSentinels, RespondStep DEF RespondError, Maybe
<1> QED BY <1>6, <1>7, <1>8 DEF Act, e

LEMMA LoseStep ==
    ASSUME IInv, NEW t \in Tabs, Lose(t)
    PROVE  IInv'
<1>1. TypeOK /\ TokensKnown /\ now \in Nat /\ now' = now
  BY BoundsAssumption DEF IInv, TypeOK, Lose
<1>2. TypeOK'
  BY <1>1 DEF TypeOK, Lose, Goto, NoReq, NoResp, Maybe, InFlight
<1>3. TokensKnown'
  BY <1>1 DEF TypeOK, TokensKnown, Known, Lose, NoReq, NoResp
<1>4. ASSUME NEW u \in Tabs, u # t PROVE TabInv(u)'
  <2>1. /\ pc'[u] = pc[u] /\ req'[u] = req[u] /\ form'[u] = form[u]
        /\ resp'[u] = resp[u] /\ overlap'[u] = overlap[u] /\ stale'[u] = stale[u]
    BY <1>1, <1>4 DEF TypeOK, Lose, Goto
  <2>2. now' \in Nat /\ now <= now' /\ key' = key /\ jar' = jar
    BY <1>1 DEF Lose
  <2> QED BY <2>1, <2>2, TabFrame
<1>5. pc'[t] = "error" BY <1>1 DEF TypeOK, Lose, Goto
<1>6. TabInv(t)'
  BY <1>5 DEF TabInv, RequestInv, PageInv, ResponseInv, Unsettled
<1> QED BY <1>2, <1>3, <1>4, <1>6 DEF IInv

LEMMA TickStep ==
    ASSUME IInv, Tick
    PROVE  IInv'
<1>1. TypeOK /\ TokensKnown /\ now \in Nat /\ now' \in Nat /\ now <= now'
  BY BoundsAssumption DEF IInv, TypeOK, Tick
<1>2. TypeOK' BY <1>1, BoundsAssumption DEF TypeOK, Tick
<1>3. TokensKnown' BY <1>1 DEF TokensKnown, Known, Tick
<1>4. ASSUME NEW u \in Tabs PROVE TabInv(u)'
  <2>1. /\ pc'[u] = pc[u] /\ req'[u] = req[u] /\ form'[u] = form[u]
        /\ resp'[u] = resp[u] /\ overlap'[u] = overlap[u] /\ stale'[u] = stale[u]
        /\ key' = key /\ jar' = jar
    BY DEF Tick
  <2> QED BY <1>1, <2>1, TabFrame
<1> QED BY <1>2, <1>3, <1>4 DEF IInv

LEMMA RotateKeyStep ==
    ASSUME IInv, RotateKey
    PROVE  IInv'
<1>1. /\ TypeOK /\ TokensKnown /\ now \in Nat /\ key \in Nat /\ key' = key + 1
      /\ UNCHANGED <<now, issued, jar, pc, req, form, resp>>
  BY BoundsAssumption DEF IInv, TypeOK, RotateKey
<1>2. TypeOK' BY <1>1, BoundsAssumption DEF TypeOK, RotateKey
<1>3. TokensKnown'
  <2>1. ASSUME NEW x \in Token, Known(x) PROVE x.nonce < issued' /\ x.key <= key'
    BY <1>1, <2>1 DEF Known, Token
  <2>2. jar # None => jar.token \in Token BY <1>1 DEF TypeOK, Maybe, Cookie
  <2>3. \A u \in Tabs : /\ req[u].cookie \in Maybe(Token) /\ form[u] \in Maybe(Token)
                        /\ resp[u].form \in Maybe(Token)
                        /\ resp[u].cookie \in Maybe(Token) \cup {Clear}
    BY <1>1 DEF TypeOK
  <2> QED BY <1>1, <2>1, <2>2, <2>3 DEF TokensKnown, Known, Maybe
<1>4. ASSUME NEW u \in Tabs PROVE TabInv(u)'
  <2>1. /\ pc[u] \in InFlight => overlap'[u]
        /\ pc[u] \in {"page", "posted"} => stale'[u]
    BY DEF RotateKey
  <2>2. RequestInv(u)' /\ PageInv(u)'
    BY <1>1, <2>1 DEF RequestInv, PageInv, Unsettled, InFlight
  <2>3. ResponseInv(u)'
    <3>1. ResponseInv(u) /\ req[u].cookie \in Maybe(Token)
      BY <1>1 DEF IInv, TabInv, TypeOK
    <3>2. req[u].cookie # None => Known(req[u].cookie) BY <1>1 DEF TokensKnown
    <3>3. ~Verifies(req[u].cookie) => ~Verifies(req[u].cookie)'
      BY <1>1, <3>1, <3>2, RefusalLasts DEF Verifies
    <3> QED BY <1>1, <2>1, <3>1, <3>3 DEF ResponseInv, InFlight
  <2> QED BY <2>2, <2>3 DEF TabInv
<1> QED BY <1>2, <1>3, <1>4 DEF IInv

(* What the jar holds once a response's Set-Cookie is obeyed.              *)
LEMMA StoredFacts ==
    ASSUME TypeOK, NEW c \in Maybe(Token) \cup {Clear},
           c \notin {None, Clear} => c.expiry <= now + Ttl
    PROVE  /\ Stored(c) \in Maybe(Cookie)
           /\ Stored(c) # None => Stored(c).token.expiry <= Stored(c).until
           /\ c = None => Stored(c) = jar
           /\ c \in Token => Stored(c) # None /\ Stored(c).token = c
           /\ Stored(c) \notin {None, jar} => c \in Token /\ Stored(c).token = c
<1>1. now \in Nat /\ Ttl \in Nat /\ jar \in Maybe(Cookie)
  BY TtlAssumption, BoundsAssumption DEF TypeOK
<1>2. CASE c = None
  BY <1>1, <1>2, NotSentinels DEF Stored, TypeOK
<1>3. CASE c = Clear
  BY <1>3, NotSentinels DEF Stored, Maybe
<1>4. CASE c \notin {None, Clear}
  <2>1. c \in Token /\ c.expiry \in Nat BY <1>4 DEF Maybe, Token
  <2>2. Stored(c) = [token |-> c, until |-> now + Ttl] BY <1>4 DEF Stored
  <2>3. Stored(c) \in Cookie BY <1>1, <2>1, <2>2 DEF Cookie
  <2> QED BY <1>4, <2>1, <2>2, <2>3, NotSentinels DEF Maybe
<1> QED BY <1>2, <1>3, <1>4

LEMMA ReceiveStep ==
    ASSUME IInv, NEW t \in Tabs, Receive(t)
    PROVE  IInv'
<1> DEFINE c == resp[t].cookie
           f == resp[t].form
           r == resp[t].show
<1>1. /\ TypeOK /\ TokensKnown /\ now \in Nat /\ key \in Nat /\ pc[t] = "answered"
      /\ UNCHANGED <<now, key, issued>>
      /\ c \in Maybe(Token) \cup {Clear} /\ f \in Maybe(Token)
  BY BoundsAssumption DEF IInv, TypeOK, Receive
<1>2. /\ r \in {"page", "redirect", "error"}
      /\ c \notin {None, Clear} => c.expiry <= now + Ttl
      /\ r = "page" =>
            /\ f # None
            /\ ~overlap[t] => f.key = key /\ (c = f \/ (c = None /\ Held(f)))
  BY <1>1 DEF IInv, TabInv, ResponseInv
<1>3. /\ jar' = Stored(c) /\ jar' \in Maybe(Cookie)
      /\ jar' # None => jar'.token.expiry <= jar'.until
      /\ c = None => jar' = jar
      /\ c \in Token => jar' # None /\ jar'.token = c
      /\ jar' \notin {None, jar} => c \in Token /\ jar'.token = c
  BY <1>1, <1>2, StoredFacts DEF Receive
<1> DEFINE d == SentFrom(jar')
<1>4. d \in Maybe(Token) /\ (d # None => jar' # None /\ d = jar'.token)
  BY <1>1, <1>3, SentFacts
<1> HIDE DEF d
<1>5. PICK q \in {NoReq, [what |-> "get", cookie |-> d]} :
         /\ req' = [req EXCEPT ![t] = q]
         /\ r = "redirect" => q.cookie = d
  BY <1>2 DEF Receive, d
<1>6. PICK place \in {"page", "asking", "error"} :
         /\ pc' = [pc EXCEPT ![t] = place]
         /\ r = "redirect" => place = "asking"
         /\ r # "redirect" => place = r
  BY <1>2 DEF Receive, Goto
<1>7. /\ form' = [form EXCEPT ![t] = f] /\ resp' = [resp EXCEPT ![t] = NoResp]
      /\ overlap' = [u \in Tabs |-> IF u = t THEN FALSE
                        ELSE overlap[u] \/ (c # None /\ pc[u] \in InFlight)]
      /\ stale' = [u \in Tabs |-> IF u = t THEN overlap[t]
                        ELSE stale[u] \/ (c # None /\ pc[u] = "page")]
  BY DEF Receive, Disturbs
<1>8. f # None => Known(f) BY <1>1 DEF TokensKnown
<1>9. q.cookie \in {None, d} /\ q.what \in {"none", "get"}
  BY <1>5 DEF NoReq
<1> HIDE DEF c, f, r
<1>10. TypeOK'
  <2>1. req' \in [Tabs -> [what : {"none", "get", "logout", "post"}, cookie : Maybe(Token)]]
    BY <1>1, <1>4, <1>5 DEF TypeOK, NoReq, Maybe
  <2>2. /\ pc' \in [Tabs -> {"blank", "page", "error"} \cup InFlight]
        /\ form' \in [Tabs -> Maybe(Token)]
        /\ resp' \in [Tabs -> [show : {"none", "page", "redirect", "error"},
                                form : Maybe(Token), cookie : Maybe(Token) \cup {Clear}]]
        /\ overlap' \in [Tabs -> BOOLEAN] /\ stale' \in [Tabs -> BOOLEAN]
    BY <1>1, <1>6, <1>7 DEF TypeOK, NoResp, InFlight, Maybe
  <2>3. \A u \in Tabs : pc'[u] \in {"page", "posted", "checked"} => form'[u] # None
    BY <1>1, <1>2, <1>6, <1>7 DEF TypeOK
  <2>4. \A u \in Tabs : form'[u] # None => form'[u].nonce < issued'
    BY <1>1, <1>7, <1>8 DEF TypeOK, Known
  <2> QED BY <1>1, <1>3, <2>1, <2>2, <2>3, <2>4 DEF TypeOK
<1>11. TokensKnown'
  <2>1. jar' # None => Known(jar'.token)
    <3>1. CASE jar' = jar BY <1>1, <3>1 DEF TokensKnown
    <3>2. CASE jar' \notin {None, jar}
      BY <1>1, <1>3, <3>2, NotSentinels DEF TokensKnown, c
    <3> QED BY <3>1, <3>2
  <2>2. \A u \in Tabs : req'[u].cookie # None => Known(req'[u].cookie)
    BY <1>1, <1>4, <1>5, <1>9, <2>1 DEF TypeOK, TokensKnown
  <2>3. \A u \in Tabs : form'[u] # None => Known(form'[u])
    BY <1>1, <1>7, <1>8 DEF TypeOK, TokensKnown
  <2>4. \A u \in Tabs : /\ resp'[u].form # None => Known(resp'[u].form)
                        /\ resp'[u].cookie \notin {None, Clear} => Known(resp'[u].cookie)
    BY <1>1, <1>7 DEF TypeOK, TokensKnown, NoResp
  <2> QED BY <1>1, <2>1, <2>2, <2>3, <2>4 DEF TokensKnown, Known
<1>12. ASSUME NEW u \in Tabs, u # t PROVE TabInv(u)'
  <2>1. pc'[u] = pc[u] /\ req'[u] = req[u] /\ form'[u] = form[u] /\ resp'[u] = resp[u]
    BY <1>1, <1>5, <1>6, <1>7, <1>12 DEF TypeOK
  <2>2. CASE c = None
    <3>1. overlap'[u] = overlap[u] /\ stale'[u] = stale[u]
      BY <1>1, <1>7, <1>12, <2>2 DEF TypeOK
    <3> QED BY <1>1, <1>3, <2>1, <2>2, <3>1, TabFrame
  <2>3. CASE c # None
    <3>1. /\ pc[u] \in InFlight => overlap'[u]
          /\ pc[u] = "page" => stale'[u]
          /\ stale[u] => stale'[u]
      BY <1>7, <1>12, <2>3
    <3>2. PageInv(u) /\ ResponseInv(u) BY DEF IInv, TabInv
    <3>3. RequestInv(u)' BY <2>1, <3>1 DEF RequestInv, Unsettled, InFlight
    <3>4. PageInv(u)' BY <1>1, <2>1, <3>1, <3>2 DEF PageInv
    <3>5. ResponseInv(u)'
      BY <1>1, <2>1, <3>1, <3>2 DEF ResponseInv, Verifies, InFlight
    <3> QED BY <3>3, <3>4, <3>5 DEF TabInv
  <2> QED BY <2>2, <2>3
<1>13. TabInv(t)'
  <2>1. /\ pc'[t] = place /\ req'[t] = q /\ form'[t] = f
        /\ ~overlap'[t] /\ stale'[t] = overlap[t]
    BY <1>1, <1>5, <1>6, <1>7 DEF TypeOK
  <2>2. RequestInv(t)' BY <1>4, <1>9, <2>1 DEF RequestInv
  <2>3. PageInv(t)'
    <3>1. place = "page" => r = "page" BY <1>6
    <3>2. place = "page" => f \in Token BY <1>1, <1>2, <3>1 DEF Maybe
    <3> QED BY <1>1, <1>2, <1>3, <2>1, <3>1, <3>2 DEF PageInv, Held
  <2>4. ResponseInv(t)' BY <2>1 DEF ResponseInv
  <2> QED BY <2>2, <2>3, <2>4 DEF TabInv
<1> QED BY <1>10, <1>11, <1>12, <1>13 DEF IInv

(***************************************************************************)
(* Invariance, and what follows from it                                    *)
(***************************************************************************)
LEMMA NextInv == IInv /\ [Next]_vars => IInv'
<1> SUFFICES ASSUME IInv, [Next]_vars PROVE IInv'
  OBVIOUS
<1>1. ASSUME NEW t \in Tabs, NEW what \in {"get", "logout"}, Open(t, what) PROVE IInv'
  BY <1>1, OpenStep
<1>2. ASSUME NEW t \in Tabs, Submit(t) PROVE IInv' BY <1>2, SubmitStep
<1>3. ASSUME NEW t \in Tabs, ServePage(t) PROVE IInv' BY <1>3, ServePageStep
<1>4. ASSUME NEW t \in Tabs, ServeLogout(t) PROVE IInv' BY <1>4, ServeLogoutStep
<1>5. ASSUME NEW t \in Tabs, Check(t) PROVE IInv' BY <1>5, CheckStep
<1>6. ASSUME NEW t \in Tabs, Act(t) PROVE IInv' BY <1>6, ActStep
<1>7. ASSUME NEW t \in Tabs, Receive(t) PROVE IInv' BY <1>7, ReceiveStep
<1>8. ASSUME NEW t \in Tabs, Lose(t) PROVE IInv' BY <1>8, LoseStep
<1>9. CASE RotateKey BY <1>9, RotateKeyStep
<1>10. CASE Tick BY <1>10, TickStep
<1>11. CASE UNCHANGED vars
  BY <1>11 DEF vars, IInv, TypeOK, TokensKnown, Known, TabInv, RequestInv, PageInv,
     ResponseInv, Held, Verifies
<1> QED BY <1>1, <1>2, <1>3, <1>4, <1>5, <1>6, <1>7, <1>8, <1>9, <1>10, <1>11
        DEF Next, Spent

(* In every reachable state, what a tab holds is as the jar and the key    *)
(* say, or the tab was disturbed (security.rs, admin.rs).                  *)
THEOREM Invariance == Spec => []IInv
<1> QED BY InitInv, NextInv, PTL DEF Spec

(* Every variable keeps its type, a page always has a token and a cookie   *)
(* never goes before its token (ensure_csrf_token, csrf_set_cookie).       *)
THEOREM TypeCorrect == Spec => []TypeOK
<1>1. IInv => TypeOK BY DEF IInv
<1> QED BY <1>1, Invariance, PTL

(* A form is refused only if its day is over or another tab's response or  *)
(* a new key came since its page was asked for (check_browser_mutation).   *)
THEOREM Refusal == Spec => RefusedForCause
<1> DEFINE Step == \A t \in Tabs :
                     pc[t] = "posted" /\ pc'[t] = "answered" =>
                         stale[t] \/ form[t].expiry <= now
<1>1. IInv /\ [Next]_vars => [Step]_vars
  <2> SUFFICES ASSUME IInv, Next, NEW t \in Tabs,
                      pc[t] = "posted", pc'[t] = "answered", ~stale[t]
               PROVE  form[t].expiry <= now
    BY DEF vars
  <2>1. /\ TypeOK /\ now \in Nat /\ form[t] \in Token /\ form[t].expiry \in Nat
        /\ form[t].key = key
        /\ form[t].expiry <= now \/ req[t].cookie = form[t]
    BY BoundsAssumption DEF IInv, TypeOK, TabInv, PageInv, Maybe, Token
  <2>2. Check(t)
    BY <2>1 DEF Next, TypeOK, Open, Submit, ServePage, ServeLogout, Check, Act, Receive,
       Lose, RotateKey, Tick, Spent, Goto, Respond, RespondError, vars
  <2>3. ~ValidPair(req[t].cookie, form[t]) BY <2>1, <2>2 DEF Check, Goto, TypeOK
  <2> QED BY <2>1, <2>3, NotSentinels DEF ValidPair, Verifies
<1> QED BY <1>1, Invariance, PTL DEF RefusedForCause, Spec

(* A cookie that still verifies is replaced only by the answer to a        *)
(* request that went without it, or to a logout (ensure_csrf_token).       *)
THEOREM CookieStays == Spec => ValidCookieStays
<1> DEFINE Step == jar # None /\ Verifies(jar.token) /\ jar' # jar =>
                     \E t \in Tabs :
                        /\ pc[t] = "answered" /\ pc'[t] # "answered"
                        /\ req[t].cookie # jar.token \/ req[t].what = "logout"
<1>1. IInv /\ [Next]_vars => [Step]_vars
  <2> SUFFICES ASSUME IInv, Next, jar # None, Verifies(jar.token), jar' # jar
               PROVE  Step
    BY DEF vars
  <2>1. TypeOK BY DEF IInv
  <2>2. PICK t \in Tabs : Receive(t)
    BY DEF Next, Open, Submit, ServePage, ServeLogout, Check, Act,
       Lose, RotateKey, Tick, Spent, vars
  <2>3. /\ pc[t] = "answered" /\ resp[t].show \in {"page", "redirect", "error"}
        /\ resp[t].cookie = Clear => req[t].what = "logout"
        /\ resp[t].cookie \notin {None, Clear} => ~Verifies(req[t].cookie)
    BY <2>2 DEF Receive, IInv, TabInv, ResponseInv
  <2>4. pc'[t] # "answered" BY <2>1, <2>2, <2>3 DEF Receive, Goto, TypeOK
  <2>5. resp[t].cookie # None
    <3>1. Stored(None) = jar BY NotSentinels DEF Stored
    <3> QED BY <2>2, <3>1 DEF Receive
  <2> QED BY <2>3, <2>4, <2>5
<1> QED BY <1>1, Invariance, PTL DEF ValidCookieStays, Spec
=============================================================================
