------------------------------ MODULE Gateway ------------------------------
(***************************************************************************)
(* The way of a request: Caddy (external), the application's layers        *)
(* (src/web/mod.rs, src/web/security.rs), the handler, and back, over      *)
(* restarts of both processes with a changed environment file              *)
(* (src/config.rs, src/main.rs).  The browser of an administrator opens    *)
(* admin pages, submits their forms and runs static/logout.js; anybody     *)
(* else sends requests through Caddy or straight to the application's      *)
(* port.  Requests share nothing but the two processes, so there is one at *)
(* a time.  What a handler does is the subject of the other modules.       *)
(***************************************************************************)
EXTENDS Routes

CONSTANTS
    Files,      \* what the environment file may hold at a start
    Paths,      \* paths that are asked for
    Methods,    \* methods they are asked with
    Tokens,     \* proxy tokens of at least 32 characters, no placeholder
    Passwords,  \* administrator passwords
    Bogus,      \* the password logout.js makes up
    None        \* no token, no password, no page, no handler

File == [env : {"development", "production", "misspelt"}, loopback : BOOLEAN,
         allow_direct : BOOLEAN, url : {"http", "https", "unfit"},
         key : {"none", "placeholder", "short", "long"},
         token : Tokens \cup {"", "placeholder", "short"}, password : Passwords]

ASSUME FilesAssumption == Files \subseteq File
ASSUME SecretsAssumption ==
    /\ None \notin Tokens \cup {"", "placeholder", "short"}
    /\ {None, Bogus} \cap Passwords = {} /\ None # Bogus
ASSUME PathsAssumption == Paths \subseteq Seq(Names)
ASSUME HandlersAssumption ==
    None \notin AdminHandlers \cup ApiHandlers
                \cup {"redirect_slug", "download_text", "health_ready"}

VARIABLES
    app,        \* the Config of the running application, or Down
    caddy,      \* the secrets Caddy was started with
    at,         \* where the request is
    req, resp,  \* the request, and its response once there is one
    cached,     \* the password the browser sends along
    page,       \* the admin page with a form in the browser, or None
    logout,     \* how far logout.js is
    excused     \* ghost: during the logout, a sign-in or a new password

vars == <<app, caddy, at, req, resp, cached, page, logout, excused>>

(***************************************************************************)
(* Configuration                                                           *)
(***************************************************************************)
Production(f) == f.env = "production"

(* validate_base_url_shape, decode_signing_key, decode_upstream_token, and *)
(* the other `?` and `bail!` of Config::from_env.                          *)
UnfitUrl(f) == f.url = "unfit"
UnfitKey(f) == f.key # "long"
UnfitToken(f) == f.token \in {"placeholder", "short"} \/ (Production(f) /\ f.token = "")

Refused(f) ==
    \/ f.env \notin {"development", "production"}
    \/ UnfitUrl(f) \/ (Production(f) /\ f.url # "https")
    \/ UnfitKey(f) \/ UnfitToken(f)

(* direct_bypass_permitted                                                 *)
DirectBypassPermitted(f) == f.env = "development" /\ f.allow_direct /\ f.loopback

FromEnv(f) ==
    [production |-> Production(f), loopback |-> f.loopback, origin |-> f.url,
     upstream_auth_token |-> IF f.token = "" THEN None ELSE f.token,
     allow_direct_management |-> DirectBypassPermitted(f)]

Config == [production : BOOLEAN, loopback : BOOLEAN, origin : {"http", "https"},
           upstream_auth_token : Tokens \cup {None}, allow_direct_management : BOOLEAN]
Down == [down |-> TRUE]

(***************************************************************************)
(* The layers                                                              *)
(***************************************************************************)
(* Mutant of Layers: the gate added last, outside the headers.             *)
LayersGateOutermost == <<"gate", "headers", "timeout", "limit", "router">>

(* app_router's layers around the router: each `layer` call wraps what was *)
(* there before it, so the last one is the outermost and comes first here. *)
(* (The tracing layer changes no request and no response.)                 *)
Layers == <<"headers", "gate", "timeout", "limit", "router">>

Stack == {Layers[i] : i \in 1..Len(Layers)}

(* Where a request goes when a layer passes it on.                         *)
Inner(layer) ==
    CHOOSE next \in Stack :
        \E i \in 1..Len(Layers) - 1 : Layers[i] = layer /\ Layers[i + 1] = next

(* The layers that a response made by one of them still has to pass.       *)
Outside(layer) ==
    {outer \in Stack : \E i, j \in 1..Len(Layers) :
        i < j /\ Layers[i] = outer /\ Layers[j] = layer}

(* main: a refused configuration ends the process before it listens.  The  *)
(* file is read at a start only, and may have been edited before it.       *)
StartApp ==
    /\ app = Down
    /\ \E file \in Files : ~Refused(file) /\ app' = FromEnv(file)
    /\ UNCHANGED <<caddy, at, req, resp, cached, page, logout, excused>>

(***************************************************************************)
(* Responses                                                               *)
(***************************************************************************)
Raw(by, status, ran, read) ==
    [by |-> by, status |-> status, ran |-> ran, read |-> read, hardened |-> FALSE,
     no_store |-> FALSE, referrer |-> "default", origin |-> None, token |-> None,
     production |-> FALSE, loopback |-> FALSE, direct |-> FALSE]
NoResp == Raw("nobody", "none", None, FALSE)
NoPage == [referrer |-> "default", origin |-> None]

(* Mutant of SecurityHeaders: the public policy on every page.             *)
SecurityHeadersNoReferrer(path, r) ==
    [r EXCEPT !.hardened = TRUE, !.no_store = @ \/ IsManagementPath(path),
              !.referrer = "no-referrer"]

(* security_headers_mw: what it adds to a response on its way out.         *)
SecurityHeaders(path, r) ==
    [r EXCEPT !.hardened = TRUE, !.no_store = @ \/ IsManagementPath(path),
              !.referrer = IF IsAdminPath(path) THEN "same-origin" ELSE "no-referrer"]

(* management_unauthorized sets its no-store itself.                       *)
ManagementUnauthorized == [Raw("app", "401", None, FALSE) EXCEPT !.no_store = TRUE]

(* A response goes out through the layers around the one that made it.     *)
Outward(layer, r) ==
    IF "headers" \in Outside(layer) THEN SecurityHeaders(req.path, r) ELSE r

(* With the configuration that served, for the properties.                 *)
Answer(layer, r) ==
    /\ resp' = [Outward(layer, r) EXCEPT
                  !.origin = app.origin, !.token = app.upstream_auth_token,
                  !.production = app.production, !.loopback = app.loopback,
                  !.direct = app.allow_direct_management]
    /\ at' = "answered"

EdgeAnswers(status) == resp' = Raw("edge", status, None, FALSE) /\ at' = "answered"

(* The application stops, with the requests that do not end in time.       *)
StopApp ==
    /\ app # Down /\ app' = Down
    /\ IF at \in Stack THEN EdgeAnswers("502") ELSE UNCHANGED <<at, resp>>
    /\ UNCHANGED <<caddy, req, cached, page, logout, excused>>

LoggingOut == logout \in {"forgetting", "forgot", "verifying"}

(* Caddy is started anew with the file's secrets; its requests are lost.   *)
StartCaddy ==
    /\ \E file \in Files : caddy' = [token |-> file.token, password |-> file.password]
    /\ caddy' # caddy
    /\ IF at \in {"edge"} \cup Stack /\ req.via = "edge"
       THEN EdgeAnswers("lost") ELSE UNCHANGED <<at, resp>>
    /\ excused' = (excused \/ (LoggingOut /\ caddy'.password # caddy.password))
    /\ UNCHANGED <<app, req, cached, page, logout>>

(***************************************************************************)
(* Sending                                                                 *)
(***************************************************************************)
NoReq == [who |-> "nobody", via |-> "edge", path |-> <<>>, method |-> "GET", password |-> None,
          token |-> None, origin |-> None, referer |-> None, big |-> FALSE, vouched |-> FALSE]

Send(r) ==
    /\ at = "idle"
    /\ req' = r
    /\ at' = IF r.via = "edge" THEN "edge" ELSE Layers[1]
    /\ UNCHANGED <<app, caddy, resp, cached>>

(* Anybody: through Caddy, with a password or none; or on the port, with a *)
(* token or none.  Bound: only while the administrator's browser is fresh, *)
(* which such a request could not tell.                                    *)
Ask(path, method, password, token, big) ==
    /\ cached = None /\ page = NoPage /\ logout = "idle" /\ ~excused
    /\ big => method # "GET"
    /\ \E via \in {"edge", "port"} :
          /\ via = "edge" => token = None
          /\ via = "port" => password = None /\ app # Down
          /\ Send([NoReq EXCEPT !.who = "anyone", !.via = via, !.path = path, !.method = method,
                                !.password = password, !.token = token, !.big = big])
    /\ UNCHANGED <<page, logout, excused>>

(* The administrator's browser opens the list page, whose forms post to    *)
(* /admin/links.                                                           *)
OpenPage ==
    /\ Send([NoReq EXCEPT !.who = "page", !.path = <<"admin">>, !.password = cached])
    /\ page' = NoPage
    /\ UNCHANGED <<logout, excused>>

(* Under no-referrer a form carries "null" for its Origin and no Referer;  *)
(* else the page's, where a browser may leave out the Origin.              *)
SubmitForm ==
    /\ page # NoPage
    /\ \E origin \in {page.origin, None} :
          LET bare == page.referrer = "no-referrer" IN
          Send([NoReq EXCEPT !.who = "form", !.path = <<"admin", "links">>, !.method = "POST",
                             !.password = cached, !.origin = IF bare THEN "null" ELSE origin,
                             !.referer = IF bare THEN None ELSE page.origin])
    /\ UNCHANGED <<page, logout, excused>>

(* The password is typed when the browser asks for it, in any tab.         *)
SignIn ==
    /\ cached # caddy.password
    /\ cached' = caddy.password
    /\ excused' = (excused \/ LoggingOut)
    /\ UNCHANGED <<app, caddy, at, req, resp, page, logout>>

(* logout.js: a click on the button, which is not disabled, sends the      *)
(* made-up credentials.                                                    *)
ClickLogout ==
    /\ logout \in {"idle", "unconfirmed"}
    /\ Send([NoReq EXCEPT !.who = "logout", !.path = <<"admin">>, !.password = Bogus])
    /\ logout' = "forgetting" /\ excused' = FALSE
    /\ UNCHANGED page

(* Then it asks for /admin with what the browser would send anyway.        *)
Probe ==
    /\ logout = "forgot"
    /\ Send([NoReq EXCEPT !.who = "logout", !.path = <<"admin">>, !.password = cached])
    /\ logout' = "verifying"
    /\ UNCHANGED <<page, excused>>

(***************************************************************************)
(* Caddy, the layers, the handler                                          *)
(***************************************************************************)
(* Caddy asks for the password of management paths only, and puts its      *)
(* token on whatever it passes on.                                         *)
Edge ==
    /\ at = "edge"
    /\ LET protected == CaddyProtects(req.path)
           vouched == protected /\ req.password = caddy.password
       IN  IF protected /\ ~vouched THEN EdgeAnswers("401") /\ UNCHANGED req
           ELSE IF app = Down THEN EdgeAnswers("502") /\ UNCHANGED req
           ELSE /\ req' = [req EXCEPT !.token = caddy.token, !.vouched = vouched]
                /\ at' = Layers[1] /\ UNCHANGED resp
    /\ UNCHANGED <<app, caddy, cached, page, logout, excused>>

(* Mutant of Authorized: no token expected, none needed.                   *)
AuthorizedWithoutToken(r) ==
    \/ ~IsManagementPath(r.path)
    \/ app.allow_direct_management
    \/ app.upstream_auth_token \in {None, r.token}

(* management_auth_mw                                                      *)
Authorized(r) ==
    \/ ~IsManagementPath(r.path)
    \/ app.allow_direct_management
    \/ app.upstream_auth_token # None /\ r.token = app.upstream_auth_token

Gate ==
    /\ at = "gate"
    /\ IF Authorized(req) THEN at' = Inner("gate") /\ UNCHANGED resp
       ELSE Answer("gate", ManagementUnauthorized)
    /\ UNCHANGED <<app, caddy, req, cached, page, logout, excused>>

(* security_headers_mw and the TimeoutLayer leave the request as it is.    *)
PassOn ==
    /\ at \in {"headers", "timeout"} /\ at' = Inner(at)
    /\ UNCHANGED <<app, caddy, req, resp, cached, page, logout, excused>>

(* A body announced beyond MAX_REQUEST_BYTES is refused before it is read; *)
(* one that was not announced fails the handler that reads it.             *)
BodyLimit ==
    /\ at = "limit"
    /\ IF req.big THEN Answer("limit", Raw("app", "413", None, FALSE))
       ELSE at' = Inner("limit") /\ UNCHANGED resp
    /\ UNCHANGED <<app, caddy, req, cached, page, logout, excused>>

(* verify_origin, first half of check_browser_mutation.                    *)
VerifyOrigin(r) ==
    IF r.origin # None THEN r.origin = app.origin ELSE r.referer = app.origin

ReadsBody(handler) ==
    handler \in {"admin_create", "admin_update", "admin_disable", "admin_enable",
                 "api_create", "api_patch"}

(* The router and its handler.                                             *)
Route ==
    /\ at = "router"
    /\ LET handler == Handler(req.path, req.method)
           ran(status) == Answer("router", Raw("app", status, handler, ReadsBody(handler)))
       IN  CASE handler = "fallback_404" -> Answer("router", Raw("app", "404", None, FALSE))
             [] handler = "method_not_allowed" -> Answer("router", Raw("app", "405", None, FALSE))
             [] /\ handler \in {"admin_create", "admin_update", "admin_disable", "admin_enable"}
                /\ ~VerifyOrigin(req) -> ran("403")
             [] OTHER -> \E status \in {"ok", "error"} : ran(status)
    /\ UNCHANGED <<app, caddy, req, cached, page, logout, excused>>

(* The TimeoutLayer drops the handler at any of its awaits, the reading of *)
(* the body included, and answers in its place.                            *)
TimedOut ==
    /\ at = "router"
    /\ LET handler == Handler(req.path, req.method) IN
       /\ handler \notin {"fallback_404", "method_not_allowed"}
       /\ Answer("timeout", Raw("app", "408", handler, ReadsBody(handler)))
    /\ UNCHANGED <<app, caddy, req, cached, page, logout, excused>>

(***************************************************************************)
(* Receiving                                                               *)
(***************************************************************************)
Idle == at' = "idle" /\ req' = NoReq /\ resp' = NoResp

Receive ==
    /\ at = "answered" /\ req.who # "logout" /\ Idle
    /\ page' = IF req.who = "page" /\ resp.status = "ok"
               THEN [referrer |-> resp.referrer, origin |-> resp.origin]
               ELSE IF req.who = "form" THEN NoPage ELSE page
    /\ UNCHANGED <<app, caddy, cached, logout, excused>>

(* Mutant of Verdict: a bogus password that is refused is enough.          *)
VerdictUnverified(stage, status) ==
    IF stage = "forgetting" /\ status = "401" THEN "confirmed" ELSE "unconfirmed"

(* What logout.js makes of the answer to either request.                   *)
Verdict(stage, status) ==
    IF status # "401" THEN "unconfirmed"
    ELSE IF stage = "forgetting" THEN "forgot" ELSE "confirmed"

(* The browser may have replaced its credentials by those it was told are  *)
(* wrong, or forgotten them, or neither.                                   *)
HearLogout ==
    /\ at = "answered" /\ req.who = "logout" /\ Idle
    /\ logout' = Verdict(logout, resp.status)
    /\ IF logout = "forgetting" /\ resp.status = "401"
       THEN cached' \in {cached, Bogus, None} ELSE UNCHANGED cached
    /\ excused' = (excused /\ logout' = "forgot")
    /\ UNCHANGED <<app, caddy, page>>

(* Its ten seconds pass first; the answer goes nowhere.                    *)
GiveUp ==
    /\ req.who = "logout" /\ at # "answered" /\ Idle
    /\ logout' = "unconfirmed" /\ excused' = FALSE
    /\ UNCHANGED <<app, caddy, cached, page>>

(* The page is loaded again.                                               *)
Reload ==
    /\ logout = "confirmed" /\ logout' = "idle"
    /\ UNCHANGED <<app, caddy, at, req, resp, cached, page, excused>>

(***************************************************************************)
(* The specification                                                       *)
(***************************************************************************)
Init ==
    /\ app = Down
    /\ \E file \in Files : caddy = [token |-> file.token, password |-> file.password]
    /\ at = "idle" /\ req = NoReq /\ resp = NoResp
    /\ cached = None /\ page = NoPage /\ logout = "idle" /\ excused = FALSE

(* Bound: no restart while an answer is on its way, which cannot change it.*)
Processes == at # "answered" /\ (StartApp \/ StopApp \/ StartCaddy)
Sender ==
    \/ \E path \in Paths, method \in Methods, password \in Passwords \cup {None},
          token \in Tokens \cup {None}, big \in BOOLEAN : Ask(path, method, password, token, big)
    \/ OpenPage \/ SubmitForm \/ SignIn \/ ClickLogout \/ Probe
    \/ Receive \/ HearLogout \/ GiveUp \/ Reload
Server == Edge \/ PassOn \/ Gate \/ BodyLimit \/ Route \/ TimedOut

Next == Processes \/ Sender \/ Server
Spec == Init /\ [][Next]_vars

(***************************************************************************)
(* Properties                                                              *)
(***************************************************************************)
Request == [who : {"nobody", "anyone", "page", "form", "logout"}, via : {"edge", "port"},
            path : Paths \cup {<<>>, <<"admin">>, <<"admin", "links">>},
            method : Methods \cup {"GET", "POST"}, password : Passwords \cup {Bogus, None},
            token : Tokens \cup {"", "placeholder", "short", None},
            origin : {"http", "https", "null", None}, referer : {"http", "https", None},
            big : BOOLEAN, vouched : BOOLEAN]
Response == [by : {"nobody", "edge", "app"},
             status : {"none", "lost", "502", "401", "403", "404", "405", "408", "413",
                       "ok", "error"},
             ran : {r.handler : r \in Routes} \cup {None}, read : BOOLEAN,
             hardened : BOOLEAN, no_store : BOOLEAN,
             referrer : {"same-origin", "no-referrer", "default"},
             origin : {"http", "https", None}, token : Tokens \cup {None},
             production : BOOLEAN, loopback : BOOLEAN, direct : BOOLEAN]

TypeOK ==
    /\ app \in Config \cup {Down} /\ req \in Request /\ resp \in Response
    /\ caddy \in [token : Tokens \cup {"", "placeholder", "short"}, password : Passwords]
    /\ at \in {"idle", "edge", "answered"} \cup Stack
    /\ cached \in Passwords \cup {Bogus, None}
    /\ page \in [referrer : {"same-origin", "no-referrer", "default"},
                 origin : {"http", "https", None}]
    /\ logout \in {"idle", "forgetting", "forgot", "verifying", "confirmed", "unconfirmed"}
    /\ excused \in BOOLEAN

(* A management handler runs only for a request that came through Caddy    *)
(* with the password Caddy had, or that showed the serving configuration's *)
(* token itself, or when the operator asked for direct access and the      *)
(* application is a development one that listens on loopback only: the     *)
(* router, the gate and Caddy's matcher agree on every address             *)
(* (security.rs:42-70, config.rs:43-46, Caddyfile @management).            *)
GateHolds ==
    (at = "answered" /\ resp.ran \in AdminHandlers \cup ApiHandlers) =>
        \/ req.via = "edge" /\ req.vouched
        \/ req.via = "port" /\ resp.token # None /\ req.token = resp.token
        \/ resp.direct /\ ~resp.production /\ resp.loopback

(* Whatever name a link may have, asking for its address reaches the       *)
(* public handler with no password and no token, at Caddy as at the gate;  *)
(* and the container's health check needs no token either: no route, no    *)
(* reserved word and no guarded prefix is in the way (mod.rs:23-56,        *)
(* link.rs:59-69, security.rs:43).                                         *)
PublicStaysPublic ==
    (at = "answered" /\ req.who = "anyone" /\ resp.status \notin {"502", "lost", "413"}
        /\ req.method = "GET") =>
    \A slug \in Slugs :
        /\ req.path = <<slug>> => resp.ran = "redirect_slug"
        /\ req.path = <<slug, "download">> => resp.ran = "download_text"
        /\ req.path = <<"health", "ready">> => resp.ran = "health_ready"

(* Whichever of the layers, the router and the handlers answers, with a    *)
(* 401, 404, 405, 408 or 413 as with a page: the answer is hardened, and   *)
(* not to be stored on a management path.  And the gate is the first to    *)
(* judge a request: a management request without the token of the serving  *)
(* configuration is told 401 and nothing else, whether or not its address, *)
(* its method or its body would have been refused further in, and its body *)
(* is not read; nobody else is told so (mod.rs:57-90, security.rs:46-92,   *)
(* 231-276).                                                               *)
Hardened ==
    (at = "answered" /\ resp.by = "app") =>
        /\ resp.hardened
        /\ IsManagementPath(req.path) => resp.no_store
        /\ (resp.status = "401") = (/\ IsManagementPath(req.path) /\ ~resp.direct
                                    /\ resp.token = None \/ req.token # resp.token)
        /\ resp.status = "401" => resp.ran = None /\ ~resp.read

(* A form of an admin page that the application served is never refused    *)
(* for its Origin while BASE_URL stays the same: the referrer policy of    *)
(* admin pages is the one that the origin check needs (security.rs:248-255 *)
(* and 185-197).                                                           *)
OwnFormsPassOrigin ==
    (at = "answered" /\ req.who = "form" /\ resp.status = "403") => resp.origin # page.origin

(* The logout page says "Logged out" only when the password that the       *)
(* browser sends is none that Caddy takes.  Two excuses, both from outside *)
(* the page: a sign-in or a change of the password meanwhile, and a gate   *)
(* whose token is not Caddy's, which refuses with the same 401             *)
(* (logout.js:1-3, 29-50; README, credential rotation).                    *)
LoggedOutMeansForgotten ==
    [][(logout # "confirmed" /\ logout' = "confirmed") =>
          \/ cached # caddy.password
          \/ excused
          \/ req.vouched /\ req.token # resp.token]_vars
=============================================================================
