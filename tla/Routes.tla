------------------------------- MODULE Routes -------------------------------
(***************************************************************************)
(* Which handler answers which address (src/web/mod.rs), which addresses   *)
(* the application and Caddy guard (src/web/security.rs, Caddyfile), and   *)
(* which names a link may have (src/domain/link.rs).  A path is the        *)
(* sequence of its segments as they are sent: "/admin/" is                 *)
(* <<"admin", "">>, and "/%61dmin" is a segment of its own until a handler *)
(* decodes it.                                                             *)
(***************************************************************************)
EXTENDS Integers, Sequences

CONSTANTS
    Names,      \* the segments considered
    Lower,      \* ASCII lower case of a name
    Decoded,    \* a name without its percent escapes
    Length,     \* characters of a name
    SlugShaped  \* names of 3 to 64 characters of a-z, 0-9, _ and -

RESERVED_SLUGS == {"admin", "api", "health", "healthz", "metrics", "robots.txt",
                   "favicon.ico", "assets", "static"}
GENERATED_SLUG_LEN == 10

ASSUME NamesAssumption ==
    /\ Lower \in [Names -> Names] /\ Decoded \in [Names -> Names]
    /\ Length \in [Names -> Nat]
    /\ SlugShaped \subseteq Names \ {"", "{slug}", "robots.txt"}

(* What these words are: none of the reserved ones that a slug could spell *)
(* is as long as a generated slug, and lower case letters stay as they are.*)
ASSUME WordsAssumption ==
    /\ {"admin", "api", "links", "health"} \subseteq SlugShaped
    /\ \A n \in SlugShaped :
        /\ n \in RESERVED_SLUGS => Length[n] < GENERATED_SLUG_LEN
        /\ Lower[n] = n /\ Decoded[n] = n

(***************************************************************************)
(* Names of links                                                          *)
(***************************************************************************)
(* normalize_custom_slug: the slugs it can answer with.                    *)
NormalizedSlugs == {n \in Names : n \in SlugShaped \ RESERVED_SLUGS
                                  /\ \E raw \in Names : Lower[raw] = n}

(* generate_slug draws from an alphabet of slug characters, and its result *)
(* is not compared with the reserved names.                                *)
GeneratedSlugs == {n \in SlugShaped : Length[n] = GENERATED_SLUG_LEN}

Slugs == NormalizedSlugs \cup GeneratedSlugs

(***************************************************************************)
(* The router                                                              *)
(***************************************************************************)
Param == "{slug}"
On(method, pattern, handler) == [method |-> method, pattern |-> pattern, handler |-> handler]

(* app_router; GET answers HEAD too, and /static takes all below it.       *)
Routes ==
    { On("GET", <<>>, "landing"),
      On("GET", <<"robots.txt">>, "robots_txt"),
      On("GET", <<"health", "live">>, "health_live"),
      On("GET", <<"health", "ready">>, "health_ready"),
      On("GET", <<"admin">>, "admin_list"),
      On("GET", <<"admin", "logout">>, "admin_logout"),
      On("POST", <<"admin", "links">>, "admin_create"),
      On("GET", <<"admin", "links", Param>>, "admin_edit_form"),
      On("POST", <<"admin", "links", Param>>, "admin_update"),
      On("POST", <<"admin", "links", Param, "disable">>, "admin_disable"),
      On("POST", <<"admin", "links", Param, "enable">>, "admin_enable"),
      On("GET", <<"api", "v1", "links">>, "api_list"),
      On("POST", <<"api", "v1", "links">>, "api_create"),
      On("GET", <<"api", "v1", "links", Param>>, "api_get"),
      On("PATCH", <<"api", "v1", "links", Param>>, "api_patch"),
      On("DELETE", <<"api", "v1", "links", Param>>, "api_delete"),
      On("POST", <<"api", "v1", "links", Param, "enable">>, "api_enable"),
      On("GET", <<"static">>, "static"),
      On("GET", <<Param, "download">>, "download_text"),
      On("GET", <<Param>>, "redirect_slug") }

AdminHandlers == {"admin_list", "admin_logout", "admin_create", "admin_edit_form",
                  "admin_update", "admin_disable", "admin_enable"}
ApiHandlers == {"api_list", "api_create", "api_get", "api_patch", "api_delete", "api_enable"}

Fits(pattern, path) ==
    \/ pattern = <<"static">> /\ path # <<>> /\ path[1] = "static"
    \/ /\ Len(pattern) = Len(path)
       /\ \A i \in 1..Len(path) : path[i] # "" /\ pattern[i] \in {path[i], Param}

(* A literal first segment wins over a parameter.                          *)
Literal(pattern, path) == path = <<>> \/ pattern[1] = path[1]
Matched(path) ==
    LET fits == {r \in Routes : Fits(r.pattern, path)}
        literal == {r \in fits : Literal(r.pattern, path)}
    IN  IF literal # {} THEN literal ELSE fits

Answers(r, method) == method = r.method \/ (method = "HEAD" /\ r.method = "GET")

Handler(path, method) ==
    LET matched == Matched(path) IN
    IF matched = {} THEN "fallback_404"
    ELSE IF \E r \in matched : Answers(r, method)
         THEN (CHOOSE r \in matched : Answers(r, method)).handler
         ELSE "method_not_allowed"

(***************************************************************************)
(* The guarded addresses                                                   *)
(***************************************************************************)
(* Mutant of is_management_path: a prefix of the text, so that links named *)
(* administrator or apidocs ask for a password.                            *)
IsManagementPathByPrefix(path) ==
    path # <<>> /\ path[1] \in {"admin", "api", "administrator", "apidocs"}

(* is_management_path compares the path as it is sent.                     *)
IsManagementPath(path) == path # <<>> /\ path[1] \in {"admin", "api"}

IsAdminPath(path) == path # <<>> /\ path[1] = "admin"

(* Caddy's @management matcher decodes and ignores case.                   *)
CaddyProtects(path) == path # <<>> /\ Lower[Decoded[path[1]]] \in {"admin", "api"}
=============================================================================
