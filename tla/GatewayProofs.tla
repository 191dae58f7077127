--------------------------- MODULE GatewayProofs ---------------------------
(***************************************************************************)
(* For any paths, methods, tokens, passwords and environment files: type   *)
(* correctness and the properties of Gateway.                              *)
(*                                                                         *)
(* The invariant follows a request.  Between Caddy and the handler it is   *)
(* vouched for if it came through Caddy to a guarded path (FlightInv);     *)
(* its answer is Caddy's, the gate's or the router's, and carries what     *)
(* that one knew (AnswerInv); what is in the browser came with such an     *)
(* answer (PageInv); and logout.js asks with what the browser would send   *)
(* (LogoutInv).  Lemmas about the router tie the addresses to it.          *)
(***************************************************************************)
EXTENDS Gateway, SequenceTheorems, TLAPS

Management == AdminHandlers \cup ApiHandlers

AppInv == app # Down => app \in Config
                        /\ (app.allow_direct_management => ~app.production /\ app.loopback)

(* Who sends what.                                                         *)
RequestInv ==
    /\ (req.who = "nobody") = (at = "idle")
    /\ (req.who = "logout") = (logout \in {"forgetting", "verifying"})
    /\ req.who \in {"page", "logout"} => req.via = "edge" /\ req.path = <<"admin">>
    /\ req.who = "form" => req.origin \in {page.origin, None} /\ req.referer = page.origin

(* A request that is past Caddy.                                           *)
PassedCaddy ==
    req.via = "edge" => req.token # None /\ (CaddyProtects(req.path) => req.vouched)
FlightInv ==
    /\ at \in Stack => app # Down /\ PassedCaddy
    /\ at \in {"timeout", "limit", "router"} => Authorized(req)

EdgeSaid ==
    /\ resp.by = "edge" /\ resp.ran = None /\ resp.status \in {"401", "502", "lost"}
    /\ resp.status = "401" => CaddyProtects(req.path)

LayersSaid ==
    /\ resp.by = "app" /\ resp.hardened /\ PassedCaddy
    /\ resp.direct => ~resp.production /\ resp.loopback
    /\ IsManagementPath(req.path) => resp.no_store
    /\ IsAdminPath(req.path) => resp.referrer = "same-origin"

GateSaid ==
    /\ resp.status = "401" /\ resp.ran = None /\ ~resp.read
    /\ IsManagementPath(req.path) /\ ~resp.direct
    /\ resp.token = None \/ req.token # resp.token

Admitted ==
    \/ ~IsManagementPath(req.path)
    \/ resp.direct
    \/ resp.token # None /\ req.token = resp.token
RouterSaid ==
    /\ resp.status # "401" /\ Admitted
    /\ resp.ran \in Management => IsManagementPath(req.path)
    /\ resp.status = "403" =>
          resp.origin # (IF req.origin # None THEN req.origin ELSE req.referer)
    /\ resp.status # "413" /\ Handler(req.path, req.method) \in {r.handler : r \in Routes} =>
          resp.ran = Handler(req.path, req.method)

AnswerInv == at = "answered" => EdgeSaid \/ (LayersSaid /\ (GateSaid \/ RouterSaid))

(* The page came with an answer of the application.                        *)
PageInv == page.referrer # "no-referrer"

(* The second request of logout.js carries the browser's own password, and *)
(* Caddy refuses it for that password only.                                *)
LogoutInv ==
    logout = "verifying" /\ ~excused =>
        /\ req.password = cached
        /\ (at = "answered" /\ resp.by = "edge" /\ resp.status = "401") => cached # caddy.password

IInv == TypeOK /\ AppInv /\ RequestInv /\ FlightInv /\ AnswerInv /\ PageInv /\ LogoutInv

(***************************************************************************)
(* The router                                                              *)
(***************************************************************************)
(* A handler is that of a route whose pattern the path fits.               *)
LEMMA HandlerOfRoute ==
    ASSUME NEW path, NEW method, Handler(path, method) \notin {"fallback_404", "method_not_allowed"}
    PROVE  \E r \in Matched(path) : Answers(r, method) /\ r.handler = Handler(path, method)
BY DEF Handler

LEMMA MatchedFits ==
    ASSUME NEW path, NEW r \in Matched(path)
    PROVE  r \in Routes /\ Fits(r.pattern, path)
BY DEF Matched

LEMMA HandlerTypes ==
    ASSUME NEW path, NEW method
    PROVE  Handler(path, method) \in {r.handler : r \in Routes}
                                     \cup {"fallback_404", "method_not_allowed"}
BY HandlerOfRoute, MatchedFits

(* What Fits says of a first segment, and of short paths.                  *)
LEMMA FitsFirst ==
    ASSUME NEW S, NEW path \in Seq(S), NEW pattern, Fits(pattern, path),
           pattern # <<"static">>, NEW n \in 1..5, Len(pattern) = n
    PROVE  Len(path) = n /\ pattern[1] \in {path[1], Param}
<1>1. Len(path) = Len(pattern) BY DEF Fits
<1>2. \A i \in 1..Len(path) : path[i] # "" /\ pattern[i] \in {path[i], Param} BY DEF Fits
<1>3. 1 \in 1..Len(path) BY <1>1
<1> QED BY <1>1, <1>2, <1>3

LEMMA FitsSecond ==
    ASSUME NEW S, NEW path \in Seq(S), NEW pattern, Fits(pattern, path),
           pattern # <<"static">>, Len(path) = 2
    PROVE  pattern[2] \in {path[2], Param}
<1>1. \A i \in 1..Len(path) : path[i] # "" /\ pattern[i] \in {path[i], Param} BY DEF Fits
<1>2. 2 \in 1..Len(path) OBVIOUS
<1> QED BY <1>1, <1>2

LEMMA FitsStatic ==
    ASSUME NEW S, NEW path \in Seq(S), path # <<>>, Fits(<<"static">>, path)
    PROVE  path[1] = "static"
<1>1. CASE ~(path # <<>> /\ path[1] = "static")
  <2>1. Len(path) = 1 BY <1>1 DEF Fits
  <2>2. \A i \in 1..Len(path) : path[i] # "" /\ <<"static">>[i] \in {path[i], Param}
    BY <1>1 DEF Fits
  <2>3. 1 \in 1..Len(path) BY <2>1
  <2>4. <<"static">>[1] \in {path[1], Param} BY <2>2, <2>3
  <2> QED BY <2>4 DEF Param
<1> QED BY <1>1

LEMMA OneOrTwo == (\A i \in 1..1 : i = 1) /\ (\A i \in 1..2 : i = 1 \/ i = 2)
OBVIOUS

LEMMA FitsOne ==
    ASSUME NEW path, NEW pattern, Len(pattern) = 1, Len(path) = 1, path[1] # "",
           pattern[1] \in {path[1], Param}
    PROVE  Fits(pattern, path)
<1>1. ASSUME NEW i \in 1..1 PROVE path[i] # "" /\ pattern[i] \in {path[i], Param}
  BY OneOrTwo, i = 1
<1>2. \A i \in 1..Len(path) : path[i] # "" /\ pattern[i] \in {path[i], Param} BY <1>1, Zenon
<1> QED BY <1>2 DEF Fits

LEMMA FitsTwo ==
    ASSUME NEW path, NEW pattern, Len(pattern) = 2, Len(path) = 2, path[1] # "", path[2] # "",
           pattern[1] \in {path[1], Param}, pattern[2] \in {path[2], Param}
    PROVE  Fits(pattern, path)
<1>1. ASSUME NEW i \in 1..2 PROVE path[i] # "" /\ pattern[i] \in {path[i], Param}
  <2>1. i = 1 \/ i = 2 BY OneOrTwo, Zenon
  <2> QED BY <2>1
<1>2. \A i \in 1..Len(path) : path[i] # "" /\ pattern[i] \in {path[i], Param} BY <1>1, Zenon
<1> QED BY <1>2 DEF Fits

(* The gate guards every management handler.                               *)
LEMMA ManagementGuarded ==
    ASSUME NEW path \in Seq(Names), NEW method, Handler(path, method) \in Management
    PROVE  IsManagementPath(path)
<1>1. PICK r \in Routes : Fits(r.pattern, path) /\ r.handler \in Management
  <2>1. Handler(path, method) \notin {"fallback_404", "method_not_allowed"}
    BY DEF Management, AdminHandlers, ApiHandlers
  <2> QED BY <2>1, HandlerOfRoute, MatchedFits
<1>2. PICK n \in 1..5 : Len(r.pattern) = n
  BY <1>1 DEF Routes, On, Management, AdminHandlers, ApiHandlers
<1>3. r.pattern[1] \in {"admin", "api"}
  BY <1>1 DEF Routes, On, Management, AdminHandlers, ApiHandlers
<1>4. r.pattern # <<"static">> BY <1>3
<1>5. Len(path) = n /\ r.pattern[1] \in {path[1], Param} BY <1>1, <1>2, <1>4, FitsFirst
<1>6. path # <<>> BY <1>5
<1>7. path[1] \in {"admin", "api"} BY <1>3, <1>5 DEF Param
<1> QED BY <1>6, <1>7 DEF IsManagementPath

(* And Caddy everything the gate guards.                                   *)
LEMMA CaddyProtectsManagement ==
    ASSUME NEW path, IsManagementPath(path)
    PROVE  CaddyProtects(path)
BY WordsAssumption DEF IsManagementPath, CaddyProtects

(* Nothing is in the way of a link's name.                                 *)
LEMMA SlugFacts ==
    ASSUME NEW slug \in Slugs
    PROVE  /\ slug \notin {"", Param, "robots.txt", "admin", "api", "static", "health"}
           /\ Lower[Decoded[slug]] = slug
<1>1. slug \in SlugShaped /\ slug \notin RESERVED_SLUGS
  <2>1. CASE slug \in NormalizedSlugs BY <2>1 DEF NormalizedSlugs
  <2>2. CASE slug \in GeneratedSlugs
    <3>1. slug \in SlugShaped /\ Length[slug] = 10
      BY <2>2 DEF GeneratedSlugs, GENERATED_SLUG_LEN
    <3>2. slug \in RESERVED_SLUGS => Length[slug] < 10
      BY <3>1, WordsAssumption DEF GENERATED_SLUG_LEN
    <3> QED BY <3>1, <3>2
  <2> QED BY <2>1, <2>2 DEF Slugs
<1>2. Lower[slug] = slug /\ Decoded[slug] = slug BY <1>1, WordsAssumption
<1>3. slug \notin {"", "{slug}", "robots.txt"} BY <1>1, NamesAssumption
<1> QED BY <1>1, <1>2, <1>3 DEF RESERVED_SLUGS, Param

LEMMA SlugUnguarded ==
    ASSUME NEW slug \in Slugs, NEW path, path = <<slug>> \/ path = <<slug, "download">>
    PROVE  ~IsManagementPath(path) /\ ~CaddyProtects(path)
<1>1. path[1] = slug OBVIOUS
<1> QED BY <1>1, SlugFacts DEF IsManagementPath, CaddyProtects

(* When all routes that fit a path have one handler, for GET, it answers.  *)
LEMMA OneFits ==
    ASSUME NEW path, NEW handler, \E r \in Routes : Fits(r.pattern, path),
           \A r \in Routes : Fits(r.pattern, path) => r.method = "GET" /\ r.handler = handler
    PROVE  Handler(path, "GET") = handler
<1>1. Matched(path) # {}
      /\ \A r \in Matched(path) : r.method = "GET" /\ r.handler = handler
  BY DEF Matched
<1> QED BY <1>1 DEF Handler, Answers

LEMMA PublicRoutes ==
    ASSUME NEW r \in Routes
    PROVE  \/ r.pattern = <<>>
           \/ r.pattern = <<"robots.txt">>
           \/ r.pattern = <<"health", "live">>
           \/ r.pattern = <<"health", "ready">> /\ r.method = "GET" /\ r.handler = "health_ready"
           \/ r.pattern = <<"static">>
           \/ r.pattern = <<Param>> /\ r.method = "GET" /\ r.handler = "redirect_slug"
           \/ r.pattern = <<Param, "download">> /\ r.method = "GET" /\ r.handler = "download_text"
           \/ r.pattern[1] \in {"admin", "api"}
BY DEF Routes, On

LEMMA SlugAddress ==
    ASSUME NEW slug \in Slugs
    PROVE  Handler(<<slug>>, "GET") = "redirect_slug"
<1> DEFINE path == <<slug>>
           pattern == <<Param>>
<1>1. path \in Seq({slug}) /\ path # <<>> /\ Len(path) = 1 /\ path[1] = slug OBVIOUS
<1>2. Len(pattern) = 1 /\ pattern[1] = Param OBVIOUS
<1>3. \E r \in Routes : r.pattern = pattern BY DEF Routes, On
<1> HIDE DEF path, pattern
<1>4. Fits(pattern, path) BY <1>1, <1>2, SlugFacts, FitsOne
<1>5. ASSUME NEW r \in Routes, Fits(r.pattern, path)
      PROVE  r.method = "GET" /\ r.handler = "redirect_slug"
  <2>1. r.pattern # <<"static">> BY <1>1, <1>5, SlugFacts, FitsStatic
  <2>2. Len(r.pattern) = 1 BY <1>1, <1>5, <2>1 DEF Fits
  <2>3. r.pattern[1] \in {slug, Param} BY <1>1, <1>5, <2>1, <2>2, FitsFirst
  <2>4. r.pattern[1] \notin {"admin", "api", "robots.txt"} BY <2>3, SlugFacts DEF Param
  <2> QED BY <2>1, <2>2, <2>4, PublicRoutes
<1>6. Handler(path, "GET") = "redirect_slug" BY <1>3, <1>4, <1>5, OneFits
<1> QED BY <1>6 DEF path

LEMMA DownloadAddress ==
    ASSUME NEW slug \in Slugs
    PROVE  Handler(<<slug, "download">>, "GET") = "download_text"
<1> DEFINE path == <<slug, "download">>
           pattern == <<Param, "download">>
<1>1. path # <<>> /\ Len(path) = 2 /\ path[1] = slug /\ path[2] = "download" OBVIOUS
<1>2. path \in Seq({slug, "download"})
  <2>1. path \in [1..2 -> {slug, "download"}] OBVIOUS
  <2> QED BY <2>1, SeqDef
<1>3. Len(pattern) = 2 /\ pattern[1] = Param /\ pattern[2] = "download" OBVIOUS
<1>4. \E r \in Routes : r.pattern = pattern BY DEF Routes, On
<1> HIDE DEF path, pattern
<1>5. Fits(pattern, path) BY <1>1, <1>3, SlugFacts, FitsTwo
<1>6. ASSUME NEW r \in Routes, Fits(r.pattern, path)
      PROVE  r.method = "GET" /\ r.handler = "download_text"
  <2>1. r.pattern # <<"static">> BY <1>1, <1>2, <1>6, SlugFacts, FitsStatic
  <2>2. Len(r.pattern) = 2 BY <1>1, <1>6, <2>1 DEF Fits
  <2>3. r.pattern[1] \in {slug, Param} BY <1>1, <1>2, <1>6, <2>1, <2>2, FitsFirst
  <2>4. r.pattern[1] \notin {"admin", "api", "health"} BY <2>3, SlugFacts DEF Param
  <2> QED BY <2>1, <2>2, <2>4, PublicRoutes
<1>7. Handler(path, "GET") = "download_text" BY <1>4, <1>5, <1>6, OneFits
<1> QED BY <1>7 DEF path

LEMMA HealthAddress ==
    /\ Handler(<<"health", "ready">>, "GET") = "health_ready"
    /\ ~IsManagementPath(<<"health", "ready">>) /\ ~CaddyProtects(<<"health", "ready">>)
<1> DEFINE path == <<"health", "ready">>
<1>1. path # <<>> /\ Len(path) = 2 /\ path[1] = "health" /\ path[2] = "ready" OBVIOUS
<1>2. path \in Seq({"health", "ready"})
  <2>1. path \in [1..2 -> {"health", "ready"}] OBVIOUS
  <2> QED BY <2>1, SeqDef
<1>3. \E r \in Routes : r.pattern = path BY DEF Routes, On
<1> HIDE DEF path
<1>4. Fits(path, path) BY <1>1, FitsTwo
<1>5. ASSUME NEW r \in Routes, Fits(r.pattern, path)
      PROVE  r.method = "GET" /\ r.handler = "health_ready"
  <2>1. r.pattern # <<"static">> BY <1>1, <1>2, <1>5, FitsStatic
  <2>2. Len(r.pattern) = 2 BY <1>1, <1>5, <2>1 DEF Fits
  <2>3. r.pattern[1] \in {"health", Param} BY <1>1, <1>2, <1>5, <2>1, <2>2, FitsFirst
  <2>4. r.pattern[2] \in {"ready", Param} BY <1>1, <1>2, <1>5, <2>1, FitsSecond
  <2>5. r.pattern # <<"health", "live">> /\ r.pattern # <<Param, "download">>
    <3>1. <<"health", "live">>[2] = "live" /\ <<Param, "download">>[2] = "download" OBVIOUS
    <3> QED BY <2>4, <3>1 DEF Param
  <2>6. r.pattern[1] \notin {"admin", "api"} BY <2>3 DEF Param
  <2> QED BY <2>1, <2>2, <2>3, <2>5, <2>6, PublicRoutes
<1>6. Handler(path, "GET") = "health_ready" BY <1>3, <1>4, <1>5, OneFits
<1>7. ~IsManagementPath(path) /\ ~CaddyProtects(path)
  BY <1>1, WordsAssumption DEF IsManagementPath, CaddyProtects
<1> QED BY <1>6, <1>7 DEF path

(***************************************************************************)
(* Steps                                                                   *)
(***************************************************************************)
LEMMA PathTypes == ASSUME req \in Request PROVE req.path \in Seq(Names)
<1>1. {"admin", "links"} \subseteq Names BY NamesAssumption, WordsAssumption
<1>2. <<>> \in Seq(Names) /\ <<"admin">> \in Seq(Names) BY <1>1
<1>3. <<"admin", "links">> \in Seq(Names)
  <2>1. <<"admin", "links">> \in [1..2 -> Names] BY <1>1
  <2> QED BY <2>1, SeqDef
<1> QED BY <1>2, <1>3, PathsAssumption DEF Request

(* The layers stand in this order, and a response of the gate or of one    *)
(* further in goes out through the headers.                                *)
LEMMA StackIs == Stack = {"headers", "gate", "timeout", "limit", "router"}
<1>1. Stack = {Layers[i] : i \in 1..5} BY DEF Stack, Layers
<1>2. \A i \in 1..5 : i = 1 \/ i = 2 \/ i = 3 \/ i = 4 \/ i = 5 OBVIOUS
<1> QED BY <1>1, <1>2 DEF Layers

LEMMA InnerIs ==
    /\ Inner("headers") = "gate" /\ Inner("gate") = "timeout"
    /\ Inner("timeout") = "limit" /\ Inner("limit") = "router"
<1> DEFINE Follows(layer, next) ==
              \E i \in 1..Len(Layers) - 1 : Layers[i] = layer /\ Layers[i + 1] = next
<1>1. ASSUME NEW i \in 1..4, NEW layer, NEW next, Layers[i] = layer, Layers[i + 1] = next
      PROVE  next \in Stack /\ Inner(layer) = next
  <2>1. next \in Stack BY <1>1, StackIs DEF Layers
  <2>2. Follows(layer, next) BY <1>1 DEF Layers
  <2>3. \A other \in Stack : Follows(layer, other) => other = next
    <3>1. \A j \in 1..4 : Layers[j] = layer => j = i BY <1>1 DEF Layers
    <3> QED BY <1>1, <3>1 DEF Layers
  <2> HIDE DEF Follows
  <2>4. (CHOOSE other \in Stack : Follows(layer, other)) = next BY <2>1, <2>2, <2>3
  <2> QED BY <2>1, <2>4 DEF Inner, Follows
<1> QED BY <1>1 DEF Layers

LEMMA HeadersOutside ==
    ASSUME NEW layer \in {"gate", "timeout", "limit", "router"}
    PROVE  "headers" \in Outside(layer)
<1>1. PICK j \in 2..5 : Layers[j] = layer BY DEF Layers
<1>2. Layers[1] = "headers" /\ Len(Layers) = 5 BY DEF Layers
<1> QED BY <1>1, <1>2, StackIs DEF Outside

(* What an answer of the application carries.                              *)
LEMMA AnswerFacts ==
    ASSUME TypeOK, AppInv, app # Down, PassedCaddy, UNCHANGED req,
           NEW status, NEW ran, NEW read, NEW r \in {Raw("app", status, ran, read),
                                                     ManagementUnauthorized},
           NEW layer \in {"gate", "timeout", "limit", "router"}, Answer(layer, r)
    PROVE  /\ at' = "answered" /\ LayersSaid'
           /\ resp'.status = r.status /\ resp'.ran = r.ran /\ resp'.read = r.read
           /\ resp'.token = app.upstream_auth_token /\ resp'.origin = app.origin
           /\ resp'.direct = app.allow_direct_management
           /\ (r.status \in {"401", "403", "404", "405", "408", "413", "ok", "error"}
               /\ r.ran \in {h.handler : h \in Routes} \cup {None} /\ r.read \in BOOLEAN
               => resp' \in Response)
<1>0. Outward(layer, r) = SecurityHeaders(req.path, r) BY HeadersOutside DEF Outward
<1>1. app \in Config BY DEF TypeOK
<1>2. at' = "answered" BY DEF Answer
<1>3. /\ resp'.by = "app" /\ resp'.hardened
      /\ resp'.direct = app.allow_direct_management /\ resp'.production = app.production
      /\ resp'.loopback = app.loopback
      /\ resp'.status = r.status /\ resp'.ran = r.ran /\ resp'.read = r.read
      /\ resp'.token = app.upstream_auth_token /\ resp'.origin = app.origin
      /\ resp'.no_store = (r.no_store \/ IsManagementPath(req.path))
      /\ resp'.referrer = IF IsAdminPath(req.path) THEN "same-origin" ELSE "no-referrer"
  BY <1>0 DEF Answer, SecurityHeaders, Raw, ManagementUnauthorized
<1>4. PassedCaddy' BY DEF PassedCaddy
<1>5. LayersSaid' BY <1>3, <1>4 DEF LayersSaid, AppInv
<1>6. resp' = [by |-> "app", status |-> r.status, ran |-> r.ran, read |-> r.read,
               hardened |-> TRUE, no_store |-> r.no_store \/ IsManagementPath(req.path),
               referrer |-> IF IsAdminPath(req.path) THEN "same-origin" ELSE "no-referrer",
               origin |-> app.origin, token |-> app.upstream_auth_token,
               production |-> app.production, loopback |-> app.loopback,
               direct |-> app.allow_direct_management]
  <2>1. CASE r = Raw("app", status, ran, read)
    BY <1>0, <2>1 DEF Answer, SecurityHeaders, Raw
  <2>2. CASE r = ManagementUnauthorized
    BY <1>0, <2>2 DEF Answer, SecurityHeaders, Raw, ManagementUnauthorized
  <2> QED BY <2>1, <2>2
<1>7. (r.no_store \/ IsManagementPath(req.path)) \in BOOLEAN
  BY DEF Raw, ManagementUnauthorized, IsManagementPath
<1>8. ASSUME r.status \in {"401", "403", "404", "405", "408", "413", "ok", "error"},
             r.ran \in {h.handler : h \in Routes} \cup {None}, r.read \in BOOLEAN
      PROVE  resp' \in Response
  <2>1. /\ app.origin \in {"http", "https", None}
        /\ app.upstream_auth_token \in Tokens \cup {None}
        /\ app.production \in BOOLEAN /\ app.loopback \in BOOLEAN
        /\ app.allow_direct_management \in BOOLEAN
    BY <1>1 DEF Config
  <2>2. (IF IsAdminPath(req.path) THEN "same-origin" ELSE "no-referrer")
           \in {"same-origin", "no-referrer", "default"}
    OBVIOUS
  <2> QED BY <1>6, <1>7, <1>8, <2>1, <2>2 DEF Response
<1> QED BY <1>2, <1>3, <1>5, <1>8

LEMMA EdgeFacts ==
    ASSUME NEW status \in {"401", "502", "lost"}, EdgeAnswers(status),
           status = "401" => CaddyProtects(req.path), UNCHANGED req
    PROVE  at' = "answered" /\ resp' \in Response /\ EdgeSaid' /\ resp'.status = status
BY DEF EdgeAnswers, Raw, Response, EdgeSaid

LEMMA FileFacts ==
    ASSUME NEW file \in Files
    PROVE  /\ file \in File
           /\ [token |-> file.token, password |-> file.password]
                \in [token : Tokens \cup {"", "placeholder", "short"}, password : Passwords]
<1>1. file \in File BY FilesAssumption
<1>2. file.token \in Tokens \cup {"", "placeholder", "short"} /\ file.password \in Passwords
  BY <1>1 DEF File
<1> QED BY <1>1, <1>2

LEMMA InitInv == ASSUME Init PROVE IInv
<1> USE DEF Init, NoReq, NoResp, NoPage, Raw, Down
<1>1. req \in Request BY DEF Request
<1>2. resp \in Response BY DEF Response
<1>3. caddy \in [token : Tokens \cup {"", "placeholder", "short"}, password : Passwords]
  BY FileFacts
<1>4. page \in [referrer : {"same-origin", "no-referrer", "default"},
                origin : {"http", "https", None}]
  OBVIOUS
<1>5. TypeOK BY <1>1, <1>2, <1>3, <1>4 DEF TypeOK
<1> QED BY <1>5, StackIs DEF IInv, AppInv, RequestInv, FlightInv, AnswerInv, PageInv, LogoutInv

LEMMA StartAppInv == ASSUME IInv, StartApp PROVE IInv'
<1> USE DEF IInv, StartApp
<1>1. PICK file \in Files : ~Refused(file) /\ app' = FromEnv(file) OBVIOUS
<1>2. app' \in Config
  <2>1. file.token \in Tokens \cup {""} /\ file.url \in {"http", "https"}
        /\ file.loopback \in BOOLEAN
    BY <1>1, FileFacts DEF File, Refused, UnfitUrl, UnfitToken
  <2> QED BY <1>1, <2>1 DEF FromEnv, Config, Production, DirectBypassPermitted
<1>3. AppInv' BY <1>1, <1>2 DEF AppInv, FromEnv, Production, DirectBypassPermitted
<1>4. TypeOK' BY <1>2 DEF TypeOK
<1>5. RequestInv' /\ PageInv' BY DEF RequestInv, PageInv
<1>6. FlightInv' BY StackIs DEF FlightInv
<1>7. AnswerInv' /\ LogoutInv'
  <2>1. ~(at = "answered") \/ AnswerInv' BY DEF AnswerInv, EdgeSaid, LayersSaid, GateSaid, RouterSaid, Admitted, PassedCaddy
  <2> QED BY <2>1 DEF AnswerInv, LogoutInv
<1> QED BY <1>3, <1>4, <1>5, <1>6, <1>7

LEMMA StopAppInv == ASSUME IInv, StopApp PROVE IInv'
<1> USE StackIs DEF IInv, StopApp
<1>1. CASE at \in Stack
  <2>1. at' = "answered" /\ resp' \in Response /\ EdgeSaid' /\ resp'.status = "502"
    BY <1>1, EdgeFacts
  <2>2. TypeOK' BY <2>1 DEF TypeOK
  <2>3. RequestInv' BY <1>1, <2>1 DEF RequestInv
  <2> QED BY <2>1, <2>2, <2>3 DEF AppInv, FlightInv, AnswerInv, PageInv, LogoutInv
<1>2. CASE at \notin Stack
  <2>1. TypeOK' BY <1>2 DEF TypeOK
  <2>2. AnswerInv'
    BY <1>2 DEF AnswerInv, EdgeSaid, LayersSaid, GateSaid, RouterSaid, Admitted, PassedCaddy
  <2> QED BY <1>2, <2>1, <2>2 DEF AppInv, FlightInv, RequestInv, PageInv, LogoutInv
<1> QED BY <1>1, <1>2

LEMMA StartCaddyInv == ASSUME IInv, StartCaddy, at # "answered" PROVE IInv'
<1> USE StackIs DEF IInv, StartCaddy
<1>1. caddy' \in [token : Tokens \cup {"", "placeholder", "short"}, password : Passwords]
  BY FileFacts
<1>2. excused' \in BOOLEAN BY DEF TypeOK, LoggingOut
<1>3. CASE at \in {"edge"} \cup Stack /\ req.via = "edge"
  <2>1. at' = "answered" /\ resp' \in Response /\ EdgeSaid' /\ resp'.status = "lost"
    BY <1>3, EdgeFacts
  <2>2. TypeOK' BY <1>1, <1>2, <2>1 DEF TypeOK
  <2>3. RequestInv' BY <1>3, <2>1 DEF RequestInv
  <2> QED BY <2>1, <2>2, <2>3 DEF AppInv, FlightInv, AnswerInv, PageInv, LogoutInv
<1>4. CASE ~(at \in {"edge"} \cup Stack /\ req.via = "edge")
  <2>1. TypeOK' BY <1>1, <1>2, <1>4 DEF TypeOK
  <2>2. FlightInv' BY <1>4 DEF FlightInv, PassedCaddy, Authorized
  <2> QED BY <1>4, <2>1, <2>2 DEF AppInv, AnswerInv, RequestInv, PageInv, LogoutInv
<1> QED BY <1>3, <1>4

(* A request that is sent.                                                 *)
LEMMA SendInv ==
    ASSUME IInv, NEW r \in Request, Send(r), page' \in {page, NoPage}, r.who # "nobody",
           logout' \in {"idle", "forgetting", "forgot", "verifying", "confirmed", "unconfirmed"},
           excused' \in BOOLEAN, caddy' = caddy,
           (r.who = "logout") = (logout' \in {"forgetting", "verifying"}),
           r.who \in {"page", "logout"} => r.via = "edge" /\ r.path = <<"admin">>,
           r.who = "form" => r.origin \in {page'.origin, None} /\ r.referer = page'.origin,
           r.via = "edge" \/ app # Down,
           logout' = "verifying" => r.password = cached
    PROVE  IInv'
<1> USE StackIs DEF IInv, Send
<1>1. at' \in {"edge", "headers"} /\ (at' = "headers" => r.via # "edge") BY DEF Layers
<1>2. NoPage \in [referrer : {"same-origin", "no-referrer", "default"},
                  origin : {"http", "https", None}]
  BY DEF NoPage
<1>3. TypeOK' BY <1>1, <1>2 DEF TypeOK
<1>4. RequestInv' BY <1>1 DEF RequestInv
<1>5. FlightInv' BY <1>1 DEF FlightInv, PassedCaddy, Request
<1>6. PageInv' BY DEF PageInv, NoPage
<1>7. LogoutInv' BY <1>1 DEF LogoutInv
<1> QED BY <1>1, <1>3, <1>4, <1>5, <1>6, <1>7 DEF AppInv, AnswerInv

LEMMA NoReqType == NoReq \in Request
BY DEF NoReq, Request

LEMMA AskInv ==
    ASSUME IInv, NEW path \in Paths, NEW method \in Methods, NEW password \in Passwords \cup {None},
           NEW token \in Tokens \cup {None}, NEW big \in BOOLEAN,
           Ask(path, method, password, token, big)
    PROVE  IInv'
<1>1. PICK via \in {"edge", "port"} :
        /\ via = "edge" => token = None
        /\ via = "port" => password = None /\ app # Down
        /\ Send([NoReq EXCEPT !.who = "anyone", !.via = via, !.path = path, !.method = method,
                              !.password = password, !.token = token, !.big = big])
  BY DEF Ask
<1> DEFINE sent == [NoReq EXCEPT !.who = "anyone", !.via = via, !.path = path, !.method = method,
                                 !.password = password, !.token = token, !.big = big]
<1>3. sent \in Request BY <1>1, NoReqType DEF Request
<1>4. sent.who = "anyone" /\ sent.via = via BY DEF NoReq
<1>5. Send(sent) BY <1>1
<1> HIDE DEF sent
<1>6. page' = page /\ logout' = "idle" /\ excused' \in BOOLEAN /\ caddy' = caddy
  BY <1>5 DEF Ask, IInv, TypeOK, Send
<1> QED BY <1>1, <1>3, <1>4, <1>5, <1>6, SendInv

LEMMA OpenPageInv == ASSUME IInv, OpenPage PROVE IInv'
<1> DEFINE sent == [NoReq EXCEPT !.who = "page", !.path = <<"admin">>, !.password = cached]
<1>2. sent \in Request BY NoReqType DEF Request, IInv, TypeOK
<1>3. sent.who = "page" /\ sent.via = "edge" /\ sent.path = <<"admin">> BY DEF NoReq
<1>4. Send(sent) BY DEF OpenPage
<1> HIDE DEF sent
<1>5. logout \notin {"forgetting", "verifying"} BY <1>4 DEF Send, IInv, RequestInv
<1>6. page' = NoPage /\ logout' = logout /\ excused' \in BOOLEAN /\ caddy' = caddy
      /\ logout \in {"idle", "forgetting", "forgot", "verifying", "confirmed", "unconfirmed"}
  BY <1>4 DEF OpenPage, IInv, TypeOK, Send
<1> QED BY <1>2, <1>3, <1>4, <1>5, <1>6, SendInv

LEMMA SubmitFormInv == ASSUME IInv, SubmitForm PROVE IInv'
<1>0. PICK origin \in {page.origin, None} :
        LET bare == page.referrer = "no-referrer" IN
        Send([NoReq EXCEPT !.who = "form", !.path = <<"admin", "links">>, !.method = "POST",
                           !.password = cached, !.origin = IF bare THEN "null" ELSE origin,
                           !.referer = IF bare THEN None ELSE page.origin])
  BY DEF SubmitForm
<1> DEFINE sent == [NoReq EXCEPT !.who = "form", !.path = <<"admin", "links">>, !.method = "POST",
                                 !.password = cached, !.origin = origin,
                                 !.referer = page.origin]
<1>1. /\ origin \in {"http", "https", "null", None} /\ page.origin \in {"http", "https", None}
      /\ cached \in Passwords \cup {Bogus, None}
  BY DEF IInv, TypeOK
<1>2. sent \in Request BY <1>1, NoReqType DEF Request
<1>3. sent.who = "form" /\ sent.via = "edge" /\ sent.origin = origin
      /\ sent.referer = page.origin
  BY DEF NoReq
<1>4. Send(sent) BY <1>0 DEF IInv, PageInv
<1> HIDE DEF sent
<1>5. logout \notin {"forgetting", "verifying"} BY <1>4 DEF Send, IInv, RequestInv
<1>6. page' = page /\ logout' = logout /\ excused' \in BOOLEAN /\ caddy' = caddy
      /\ logout \in {"idle", "forgetting", "forgot", "verifying", "confirmed", "unconfirmed"}
  BY <1>4 DEF SubmitForm, IInv, TypeOK, Send
<1> QED BY <1>2, <1>3, <1>4, <1>5, <1>6, SendInv

LEMMA ClickLogoutInv == ASSUME IInv, ClickLogout PROVE IInv'
<1> DEFINE sent == [NoReq EXCEPT !.who = "logout", !.path = <<"admin">>, !.password = Bogus]
<1>2. sent \in Request BY NoReqType DEF Request
<1>3. sent.who = "logout" /\ sent.via = "edge" /\ sent.path = <<"admin">> BY DEF NoReq
<1>4. Send(sent) BY DEF ClickLogout
<1> HIDE DEF sent
<1>5. page' = page /\ logout' = "forgetting" /\ excused' = FALSE /\ caddy' = caddy
  BY <1>4 DEF ClickLogout, Send
<1> QED BY <1>2, <1>3, <1>4, <1>5, SendInv

LEMMA ProbeInv == ASSUME IInv, Probe PROVE IInv'
<1> DEFINE sent == [NoReq EXCEPT !.who = "logout", !.path = <<"admin">>, !.password = cached]
<1>2. sent \in Request BY NoReqType DEF Request, IInv, TypeOK
<1>3. sent.who = "logout" /\ sent.via = "edge" /\ sent.path = <<"admin">>
      /\ sent.password = cached
  BY DEF NoReq
<1>4. Send(sent) BY DEF Probe
<1> HIDE DEF sent
<1>5. page' = page /\ logout' = "verifying" /\ excused' \in BOOLEAN /\ caddy' = caddy
  BY <1>4 DEF Probe, Send, IInv, TypeOK
<1> QED BY <1>2, <1>3, <1>4, <1>5, SendInv

LEMMA SignInInv == ASSUME IInv, SignIn PROVE IInv'
<1> USE DEF IInv, SignIn
<1>1. TypeOK' BY DEF TypeOK, LoggingOut
<1>2. FlightInv' BY DEF FlightInv, PassedCaddy, Authorized
<1>3. AnswerInv' BY DEF AnswerInv, EdgeSaid, LayersSaid, GateSaid, RouterSaid, Admitted, PassedCaddy
<1>4. LogoutInv' BY DEF LogoutInv, LoggingOut
<1> QED BY <1>1, <1>2, <1>3, <1>4 DEF AppInv, RequestInv, PageInv

LEMMA ReloadInv == ASSUME IInv, Reload PROVE IInv'
<1> USE DEF IInv, Reload
<1>1. TypeOK' BY DEF TypeOK
<1>2. FlightInv' BY DEF FlightInv, PassedCaddy, Authorized
<1>3. AnswerInv' BY DEF AnswerInv, EdgeSaid, LayersSaid, GateSaid, RouterSaid, Admitted, PassedCaddy
<1> QED BY <1>1, <1>2, <1>3 DEF AppInv, RequestInv, PageInv, LogoutInv

LEMMA GiveUpInv == ASSUME IInv, GiveUp PROVE IInv'
<1> USE DEF IInv, GiveUp, Idle
<1>1. req' \in Request BY DEF NoReq, Request
<1>2. resp' \in Response BY DEF NoResp, Raw, Response
<1>3. TypeOK' BY <1>1, <1>2 DEF TypeOK
<1>4. RequestInv' BY DEF RequestInv, NoReq
<1> QED BY <1>3, <1>4, StackIs DEF AppInv, FlightInv, AnswerInv, PageInv, LogoutInv

LEMMA HearLogoutInv == ASSUME IInv, HearLogout PROVE IInv'
<1> USE DEF IInv, HearLogout, Idle
<1>1. req' \in Request BY DEF NoReq, Request
<1>2. resp' \in Response BY DEF NoResp, Raw, Response
<1>3. logout' \in {"forgot", "confirmed", "unconfirmed"} BY DEF Verdict
<1>4. TypeOK' BY <1>1, <1>2, <1>3 DEF TypeOK
<1>5. RequestInv' BY <1>3 DEF RequestInv, NoReq
<1> QED BY <1>3, <1>4, <1>5, StackIs DEF AppInv, FlightInv, AnswerInv, PageInv, LogoutInv

(* A page that opens came with the policy of admin pages.                  *)
LEMMA ReceiveInv == ASSUME IInv, Receive PROVE IInv'
<1> USE DEF IInv, Receive, Idle
<1>1. req' \in Request BY DEF NoReq, Request
<1>2. resp' \in Response BY DEF NoResp, Raw, Response
<1>3. page' \in [referrer : {"same-origin", "no-referrer", "default"},
                 origin : {"http", "https", None}]
  BY DEF TypeOK, Response, NoPage
<1>4. TypeOK' BY <1>1, <1>2, <1>3 DEF TypeOK
<1>5. PageInv'
  <2>1. CASE req.who = "page" /\ resp.status = "ok"
    <3>1. LayersSaid BY <2>1 DEF AnswerInv, EdgeSaid
    <3>2. IsAdminPath(req.path)
      <4>1. req.path = <<"admin">> BY <2>1 DEF RequestInv
      <4> QED BY <4>1 DEF IsAdminPath
    <3> QED BY <2>1, <3>1, <3>2 DEF LayersSaid, PageInv
  <2> QED BY <2>1 DEF PageInv, NoPage
<1>6. RequestInv' BY DEF RequestInv, NoReq
<1>7. logout # "verifying" BY DEF RequestInv
<1> QED BY <1>4, <1>5, <1>6, <1>7, StackIs DEF AppInv, FlightInv, AnswerInv, LogoutInv

(* Caddy: what it passes on it has vouched for, or was not to guard.       *)
LEMMA EdgeInv == ASSUME IInv, Edge PROVE IInv'
<1> USE StackIs DEF IInv, Edge
<1> DEFINE protected == CaddyProtects(req.path)
           vouched == protected /\ req.password = caddy.password
<1>1. CASE protected /\ ~vouched
  <2>1. EdgeAnswers("401") /\ UNCHANGED req BY <1>1
  <2>2. at' = "answered" /\ resp' \in Response /\ EdgeSaid' /\ resp'.status = "401"
    BY <1>1, <2>1, EdgeFacts
  <2>3. TypeOK' BY <2>1, <2>2 DEF TypeOK
  <2>4. RequestInv' BY <2>1, <2>2 DEF RequestInv
  <2>5. LogoutInv' BY <1>1, <2>1 DEF LogoutInv
  <2> QED BY <2>2, <2>3, <2>4, <2>5 DEF AppInv, FlightInv, AnswerInv, PageInv
<1>2. CASE ~(protected /\ ~vouched) /\ app = Down
  <2>1. EdgeAnswers("502") /\ UNCHANGED req BY <1>2
  <2>2. at' = "answered" /\ resp' \in Response /\ EdgeSaid' /\ resp'.status = "502"
    BY <1>2, <2>1, EdgeFacts
  <2>3. TypeOK' BY <2>1, <2>2 DEF TypeOK
  <2>4. RequestInv' BY <2>1, <2>2 DEF RequestInv
  <2> QED BY <2>1, <2>2, <2>3, <2>4 DEF AppInv, FlightInv, AnswerInv, PageInv, LogoutInv
<1>3. CASE ~(protected /\ ~vouched) /\ app # Down
  <2>1. /\ req' = [req EXCEPT !.token = caddy.token, !.vouched = vouched]
        /\ at' = "headers" /\ UNCHANGED resp
    BY <1>3 DEF Layers
  <2>2. vouched \in BOOLEAN /\ (protected => vouched) BY <1>3 DEF CaddyProtects
  <2>3. caddy.token \in Tokens \cup {"", "placeholder", "short"} BY DEF TypeOK
  <2> HIDE DEF vouched
  <2>4. req' \in Request BY <2>1, <2>2, <2>3 DEF TypeOK, Request
  <2>5. /\ req'.who = req.who /\ req'.via = req.via /\ req'.path = req.path
        /\ req'.origin = req.origin /\ req'.referer = req.referer /\ req'.password = req.password
        /\ req'.token = caddy.token /\ req'.vouched = vouched
    BY <2>1 DEF TypeOK, Request
  <2>6. TypeOK' BY <2>1, <2>4 DEF TypeOK
  <2>7. PassedCaddy' BY <2>2, <2>3, <2>5, SecretsAssumption DEF PassedCaddy
  <2>8. RequestInv' BY <2>1, <2>5 DEF RequestInv
  <2> QED BY <1>3, <2>1, <2>5, <2>6, <2>7, <2>8
          DEF AppInv, FlightInv, AnswerInv, PageInv, LogoutInv
<1> QED BY <1>1, <1>2, <1>3

(* The application's answer to a request that is past Caddy.               *)
LEMMA AnsweringInv ==
    ASSUME IInv, at \in Stack, NEW layer \in {"gate", "timeout", "limit", "router"},
           NEW status \in {"401", "403", "404", "405", "408", "413", "ok", "error"},
           NEW ran \in {h.handler : h \in Routes} \cup {None}, NEW read \in BOOLEAN,
           NEW r \in {Raw("app", status, ran, read), ManagementUnauthorized}, Answer(layer, r),
           r.status = status, r.ran = ran, r.read = read,
           UNCHANGED <<app, caddy, req, cached, page, logout, excused>>,
           GateSaid' \/ RouterSaid'
    PROVE  IInv'
<1> USE DEF IInv
<1>1. app # Down /\ PassedCaddy BY DEF FlightInv
<1>2. at' = "answered" /\ LayersSaid' /\ resp' \in Response BY <1>1, AnswerFacts
<1>3. TypeOK' BY <1>2 DEF TypeOK
<1>4. RequestInv' BY <1>2, StackIs DEF RequestInv
<1>5. LogoutInv' BY <1>2 DEF LogoutInv, LayersSaid
<1> QED BY <1>2, <1>3, <1>4, <1>5, StackIs DEF AppInv, FlightInv, AnswerInv, PageInv

LEMMA GateInv == ASSUME IInv, Gate PROVE IInv'
<1> USE StackIs DEF IInv, Gate
<1>1. app # Down /\ PassedCaddy BY DEF FlightInv
<1>2. CASE Authorized(req)
  <2>1. at' = "timeout" /\ UNCHANGED <<resp, req, app>> BY <1>2, InnerIs
  <2>2. TypeOK' BY <2>1 DEF TypeOK
  <2>3. RequestInv' BY <2>1 DEF RequestInv
  <2>4. FlightInv' BY <1>1, <1>2, <2>1 DEF FlightInv, PassedCaddy, Authorized
  <2> QED BY <2>1, <2>2, <2>3, <2>4 DEF AppInv, AnswerInv, PageInv, LogoutInv
<1>3. CASE ~Authorized(req)
  <2>1. Answer("gate", ManagementUnauthorized) BY <1>3
  <2>2. /\ ManagementUnauthorized.status = "401" /\ ManagementUnauthorized.ran = None
        /\ ManagementUnauthorized.read = FALSE
    BY DEF ManagementUnauthorized, Raw
  <2>3. /\ resp'.status = "401" /\ resp'.ran = None /\ resp'.read = FALSE
        /\ resp'.token = app.upstream_auth_token /\ resp'.direct = app.allow_direct_management
    BY <1>1, <2>1, <2>2, AnswerFacts
  <2>4. GateSaid' BY <1>3, <2>3 DEF GateSaid, Authorized
  <2> QED BY <2>1, <2>2, <2>4, AnsweringInv
<1> QED BY <1>2, <1>3

LEMMA PassOnInv == ASSUME IInv, PassOn PROVE IInv'
<1> USE StackIs DEF IInv, PassOn
<1>1. /\ \/ at = "headers" /\ at' = "gate"
         \/ at = "timeout" /\ at' = "limit"
      /\ UNCHANGED <<app, req, resp>>
  BY InnerIs
<1>2. TypeOK' BY <1>1 DEF TypeOK
<1>3. RequestInv' BY <1>1 DEF RequestInv
<1>4. FlightInv' BY <1>1 DEF FlightInv, PassedCaddy, Authorized
<1> QED BY <1>1, <1>2, <1>3, <1>4 DEF AppInv, AnswerInv, PageInv, LogoutInv

LEMMA RouterInv ==
    ASSUME IInv, at \in {"limit", "router"}, NEW layer \in {"timeout", "limit", "router"},
           NEW status \in {"403", "404", "405", "408", "413", "ok", "error"},
           NEW ran \in {h.handler : h \in Routes} \cup {None}, NEW read \in BOOLEAN,
           Answer(layer, Raw("app", status, ran, read)),
           UNCHANGED <<app, caddy, req, cached, page, logout, excused>>,
           ran \in Management => IsManagementPath(req.path),
           status = "403" => ~VerifyOrigin(req),
           status # "413" /\ Handler(req.path, req.method) \in {h.handler : h \in Routes} =>
              ran = Handler(req.path, req.method)
    PROVE  IInv'
<1>1. app # Down /\ PassedCaddy /\ Authorized(req) /\ TypeOK /\ AppInv
  BY StackIs DEF FlightInv, IInv
<1>2. /\ Raw("app", status, ran, read).status = status
      /\ Raw("app", status, ran, read).ran = ran /\ Raw("app", status, ran, read).read = read
  BY DEF Raw
<1>3. /\ resp'.status = status /\ resp'.ran = ran
      /\ resp'.token = app.upstream_auth_token /\ resp'.direct = app.allow_direct_management
      /\ resp'.origin = app.origin
  BY <1>1, <1>2, AnswerFacts
<1>4. Admitted' BY <1>1, <1>3 DEF Admitted, Authorized
<1>5. RouterSaid' BY <1>3, <1>4 DEF RouterSaid, VerifyOrigin
<1> QED BY <1>2, <1>5, AnsweringInv, StackIs

LEMMA BodyLimitInv == ASSUME IInv, BodyLimit PROVE IInv'
<1> USE StackIs DEF IInv, BodyLimit
<1>1. None \notin Management BY HandlersAssumption DEF Management
<1>2. CASE req.big
  <2>1. Answer("limit", Raw("app", "413", None, FALSE)) BY <1>2
  <2> QED BY <1>1, <2>1, RouterInv
<1>3. CASE ~req.big
  <2>1. at' = "router" /\ UNCHANGED <<app, req, resp>> BY <1>3, InnerIs
  <2>2. TypeOK' BY <2>1 DEF TypeOK
  <2>3. RequestInv' BY <2>1 DEF RequestInv
  <2>4. FlightInv' BY <2>1 DEF FlightInv, PassedCaddy, Authorized
  <2> QED BY <2>1, <2>2, <2>3, <2>4 DEF AppInv, AnswerInv, PageInv, LogoutInv
<1> QED BY <1>2, <1>3

LEMMA RouteInv == ASSUME IInv, Route PROVE IInv'
<1> USE DEF Route
<1> DEFINE handler == Handler(req.path, req.method)
           handlers == {h.handler : h \in Routes}
           forms == {"admin_create", "admin_update", "admin_disable", "admin_enable"}
<1>1. req.path \in Seq(Names) BY PathTypes DEF IInv, TypeOK
<1>2. handler \in handlers \cup {"fallback_404", "method_not_allowed"} BY HandlerTypes
<1>3. {"fallback_404", "method_not_allowed"} \cap handlers = {} BY DEF Routes, On
<1>4. handler \in Management => IsManagementPath(req.path) BY <1>1, ManagementGuarded
<1>5. None \notin Management BY HandlersAssumption DEF Management
<1>6. ReadsBody(handler) \in BOOLEAN BY DEF ReadsBody
<1> HIDE DEF handlers
<1>7. CASE handler = "fallback_404"
  <2>1. Answer("router", Raw("app", "404", None, FALSE)) BY <1>7
  <2>2. handler \notin handlers BY <1>3, <1>7
  <2> QED BY <1>5, <2>1, <2>2, RouterInv DEF handlers
<1>8. CASE handler = "method_not_allowed"
  <2>1. Answer("router", Raw("app", "405", None, FALSE)) BY <1>8
  <2>2. handler \notin handlers BY <1>3, <1>8
  <2> QED BY <1>5, <2>1, <2>2, RouterInv DEF handlers
<1>9. CASE /\ handler \notin {"fallback_404", "method_not_allowed"}
           /\ handler \in forms /\ ~VerifyOrigin(req)
  <2>1. Answer("router", Raw("app", "403", handler, ReadsBody(handler))) BY <1>9
  <2> HIDE DEF handler
  <2>2. handler \in handlers BY <1>2, <1>9
  <2> QED BY <1>4, <1>6, <1>9, <2>1, <2>2, RouterInv DEF handlers, handler
<1>10. CASE /\ handler \notin {"fallback_404", "method_not_allowed"}
            /\ ~(handler \in forms /\ ~VerifyOrigin(req))
  <2>1. PICK status \in {"ok", "error"} :
           Answer("router", Raw("app", status, handler, ReadsBody(handler)))
    BY <1>10
  <2> HIDE DEF handler
  <2>2. handler \in handlers BY <1>2, <1>10
  <2> QED BY <1>4, <1>6, <2>1, <2>2, RouterInv DEF handlers, handler
<1> QED BY <1>7, <1>8, <1>9, <1>10

LEMMA TimedOutInv == ASSUME IInv, TimedOut PROVE IInv'
<1> USE DEF TimedOut
<1> DEFINE handler == Handler(req.path, req.method)
           handlers == {h.handler : h \in Routes}
<1>1. req.path \in Seq(Names) BY PathTypes DEF IInv, TypeOK
<1>2. handler \in handlers BY HandlerTypes
<1>3. handler \in Management => IsManagementPath(req.path) BY <1>1, ManagementGuarded
<1>4. ReadsBody(handler) \in BOOLEAN BY DEF ReadsBody
<1>5. Answer("timeout", Raw("app", "408", handler, ReadsBody(handler))) OBVIOUS
<1> HIDE DEF handler
<1> QED BY <1>2, <1>3, <1>4, <1>5, RouterInv DEF handlers, handler

LEMMA NextInv == ASSUME IInv, [Next]_vars PROVE IInv'
<1>1. CASE Processes BY <1>1, StartAppInv, StopAppInv, StartCaddyInv DEF Processes
<1>2. CASE Sender
  BY <1>2, AskInv, OpenPageInv, SubmitFormInv, SignInInv, ClickLogoutInv, ProbeInv,
     ReceiveInv, HearLogoutInv, GiveUpInv, ReloadInv DEF Sender
<1>3. CASE Server BY <1>3, EdgeInv, PassOnInv, GateInv, BodyLimitInv, RouteInv, TimedOutInv DEF Server
<1>4. CASE UNCHANGED vars
  <2> USE <1>4 DEF vars, IInv
  <2>1. /\ app' = app /\ req' = req /\ resp' = resp /\ caddy' = caddy /\ at' = at
        /\ cached' = cached /\ page' = page /\ logout' = logout /\ excused' = excused
    OBVIOUS
  <2>2. TypeOK' BY <2>1, Zenon DEF TypeOK
  <2>3. FlightInv' BY DEF FlightInv, PassedCaddy, Authorized
  <2>4. AnswerInv'
    BY DEF AnswerInv, EdgeSaid, LayersSaid, GateSaid, RouterSaid, Admitted, PassedCaddy
  <2> QED BY <2>2, <2>3, <2>4 DEF AppInv, RequestInv, PageInv, LogoutInv
<1> QED BY <1>1, <1>2, <1>3, <1>4 DEF Next

(***************************************************************************)
(* Theorems                                                                *)
(***************************************************************************)
(* The inductive invariant: a request that is past Caddy is vouched for,   *)
(* an answer carries what Caddy, the gate or the router knew, and the      *)
(* browser holds what such answers brought.                                *)
THEOREM Invariance == Spec => []IInv
<1>1. Init => IInv BY InitInv
<1>2. IInv /\ [Next]_vars => IInv' BY NextInv
<1> QED BY <1>1, <1>2, PTL DEF Spec

(* The variables keep their types.                                         *)
THEOREM TypeCorrect == Spec => []TypeOK
<1>1. IInv => TypeOK BY DEF IInv
<1> QED BY <1>1, Invariance, PTL

(* A management handler runs for a vouched request, for the token, or for  *)
(* a permitted direct access only, whatever the paths and secrets are.     *)
THEOREM GateHeld == Spec => []GateHolds
<1>1. ASSUME IInv, at = "answered", resp.ran \in Management
      PROVE  \/ req.via = "edge" /\ req.vouched
             \/ req.via = "port" /\ resp.token # None /\ req.token = resp.token
             \/ resp.direct /\ ~resp.production /\ resp.loopback
  <2>1. LayersSaid /\ RouterSaid
    BY <1>1, HandlersAssumption DEF IInv, AnswerInv, EdgeSaid, GateSaid, Management
  <2>2. IsManagementPath(req.path) BY <1>1, <2>1 DEF RouterSaid
  <2>3. CaddyProtects(req.path) BY <2>2, CaddyProtectsManagement
  <2>4. req.via \in {"edge", "port"} BY <1>1 DEF IInv, TypeOK, Request
  <2> QED BY <2>1, <2>2, <2>3, <2>4 DEF LayersSaid, RouterSaid, Admitted, PassedCaddy
<1>2. IInv => GateHolds BY <1>1 DEF GateHolds, Management
<1> QED BY <1>2, Invariance, PTL

(* Whatever a link is called, nothing guards its address and its handler   *)
(* answers; nor is the readiness probe guarded.                            *)
THEOREM PublicStayedPublic == Spec => []PublicStaysPublic
<1>1. ASSUME IInv, at = "answered", resp.status \notin {"502", "lost", "413"}, req.method = "GET",
             NEW handler \in {r.handler : r \in Routes}, Handler(req.path, "GET") = handler,
             ~IsManagementPath(req.path), ~CaddyProtects(req.path)
      PROVE  resp.ran = handler
  <2>1. RouterSaid BY <1>1 DEF IInv, AnswerInv, EdgeSaid, GateSaid
  <2> QED BY <1>1, <2>1 DEF RouterSaid
<1>2. {"redirect_slug", "download_text", "health_ready"} \subseteq {r.handler : r \in Routes}
  BY DEF Routes, On
<1>3. ASSUME IInv, at = "answered", resp.status \notin {"502", "lost", "413"}, req.method = "GET",
             NEW slug \in Slugs
      PROVE  /\ req.path = <<slug>> => resp.ran = "redirect_slug"
             /\ req.path = <<slug, "download">> => resp.ran = "download_text"
  <2>1. CASE req.path = <<slug>>
    <3>1. ~IsManagementPath(req.path) /\ ~CaddyProtects(req.path) BY <2>1, SlugUnguarded
    <3>2. Handler(req.path, "GET") = "redirect_slug" BY <2>1, SlugAddress
    <3>3. resp.ran = "redirect_slug" BY <1>1, <1>2, <1>3, <3>1, <3>2
    <3>4. req.path # <<slug, "download">> BY <2>1
    <3> QED BY <3>3, <3>4
  <2>2. CASE req.path = <<slug, "download">>
    <3>1. ~IsManagementPath(req.path) /\ ~CaddyProtects(req.path) BY <2>2, SlugUnguarded
    <3>2. Handler(req.path, "GET") = "download_text" BY <2>2, DownloadAddress
    <3>3. resp.ran = "download_text" BY <1>1, <1>2, <1>3, <3>1, <3>2
    <3>4. req.path # <<slug>> BY <2>2
    <3> QED BY <3>3, <3>4
  <2> QED BY <2>1, <2>2
<1>4. ASSUME IInv, at = "answered", resp.status \notin {"502", "lost", "413"}, req.method = "GET",
             req.path = <<"health", "ready">>
      PROVE  resp.ran = "health_ready"
  <2>1. ~IsManagementPath(req.path) BY <1>4, HealthAddress
  <2>2. Handler(req.path, "GET") = "health_ready" BY <1>4, HealthAddress
  <2>3. ~CaddyProtects(req.path) BY <1>4, HealthAddress
  <2> QED BY <1>1, <1>2, <1>4, <2>1, <2>2, <2>3
<1>5. IInv => PublicStaysPublic BY <1>3, <1>4 DEF PublicStaysPublic
<1> QED BY <1>5, Invariance, PTL

(* Whatever layer or handler answers, the answer is hardened and, on a     *)
(* management path, not to be stored; and the gate's 401 is what every     *)
(* management request without the token is told, and nobody else.          *)
THEOREM AlwaysHardened == Spec => []Hardened
<1>1. ASSUME IInv, at = "answered", resp.by = "app"
      PROVE  /\ resp.hardened
             /\ IsManagementPath(req.path) => resp.no_store
             /\ (resp.status = "401") = (/\ IsManagementPath(req.path) /\ ~resp.direct
                                         /\ resp.token = None \/ req.token # resp.token)
             /\ resp.status = "401" => resp.ran = None /\ ~resp.read
  <2>1. LayersSaid /\ (GateSaid \/ RouterSaid) BY <1>1 DEF IInv, AnswerInv, EdgeSaid
  <2> QED BY <2>1 DEF LayersSaid, GateSaid, RouterSaid, Admitted
<1>2. IInv => Hardened BY <1>1 DEF Hardened
<1> QED BY <1>2, Invariance, PTL

(* The forms of the application's own pages pass its origin check.         *)
THEOREM OwnFormsPass == Spec => []OwnFormsPassOrigin
<1>1. ASSUME IInv, at = "answered", req.who = "form", resp.status = "403"
      PROVE  resp.origin # page.origin
  <2>1. RouterSaid BY <1>1 DEF IInv, AnswerInv, EdgeSaid, GateSaid
  <2>2. req.origin \in {page.origin, None} /\ req.referer = page.origin
    BY <1>1 DEF IInv, RequestInv
  <2> QED BY <1>1, <2>1, <2>2 DEF RouterSaid
<1>2. IInv => OwnFormsPassOrigin BY <1>1 DEF OwnFormsPassOrigin
<1> QED BY <1>2, Invariance, PTL

(* "Logged out" is only said when the password the browser sends is none   *)
(* that Caddy takes, but for the two excuses.                              *)
THEOREM LoggedOutIsForgotten == Spec => LoggedOutMeansForgotten
<1>1. ASSUME IInv, Next, logout # "confirmed", logout' = "confirmed"
      PROVE  \/ cached # caddy.password
             \/ excused
             \/ req.vouched /\ req.token # resp.token
  <2>1. HearLogout
    BY <1>1 DEF Next, Processes, Sender, Server, StartApp, StopApp, StartCaddy, Ask, OpenPage,
                SubmitForm, SignIn, ClickLogout, Probe, Receive, GiveUp, Reload, Edge, PassOn,
                Gate, BodyLimit, Route, TimedOut
  <2>2. logout = "verifying" /\ resp.status = "401" /\ at = "answered" /\ req.who = "logout"
    <3>1. at = "answered" /\ req.who = "logout" /\ Verdict(logout, resp.status) = "confirmed"
      BY <1>1, <2>1 DEF HearLogout
    <3>2. resp.status = "401" /\ logout # "forgetting" BY <3>1 DEF Verdict
    <3> QED BY <1>1, <3>1, <3>2 DEF IInv, RequestInv
  <2>3. CASE EdgeSaid BY <1>1, <2>2, <2>3 DEF IInv, LogoutInv, EdgeSaid
  <2>4. CASE LayersSaid /\ GateSaid
    <3>1. req.via = "edge" BY <1>1, <2>2 DEF IInv, RequestInv
    <3>2. CaddyProtects(req.path) BY <2>4, CaddyProtectsManagement DEF GateSaid
    <3>3. req.vouched /\ req.token # None BY <2>4, <3>1, <3>2 DEF LayersSaid, PassedCaddy
    <3> QED BY <2>4, <3>3 DEF GateSaid
  <2>5. ~RouterSaid BY <2>2 DEF RouterSaid
  <2> QED BY <1>1, <2>2, <2>3, <2>4, <2>5 DEF IInv, AnswerInv
<1>2. IInv /\ [Next]_vars =>
        [(logout # "confirmed" /\ logout' = "confirmed") =>
          \/ cached # caddy.password
          \/ excused
          \/ req.vouched /\ req.token # resp.token]_vars
  BY <1>1
<1> QED BY <1>2, Invariance, PTL DEF Spec, LoggedOutMeansForgotten
=============================================================================
