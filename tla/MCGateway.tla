----------------------------- MODULE MCGateway -----------------------------
(***************************************************************************)
(* A small instance of Gateway for TLC.                                    *)
(***************************************************************************)
EXTENDS Gateway

MCSlugShaped == {"abc", "links", "administrator", "admin", "api", "static", "health"}
MCNames == MCSlugShaped \cup
    {"", "robots.txt", "v1", "logout", "enable", "disable", "download", "live", "ready",
     "ABC", "Admin", "%61dmin"}
MCDecoded == [n \in MCNames |-> IF n = "%61dmin" THEN "admin" ELSE n]
MCLower == [n \in MCNames |-> CASE n = "ABC" -> "abc" [] n = "Admin" -> "admin" [] OTHER -> n]
MCLength ==
    [n \in MCNames |-> CASE n = "" -> 0 [] n = "v1" -> 2 [] n \in {"abc", "ABC", "api"} -> 3
        [] n = "live" -> 4 [] n = "administrator" -> 13 [] n = "robots.txt" -> 10
        [] n = "disable" -> 7 [] n = "download" -> 8 [] n \in {"logout", "static", "enable", "health"} -> 6
        [] n = "%61dmin" -> 7 [] OTHER -> 5]

MCPaths ==
    {<<n>> : n \in {"abc", "links", "administrator", "admin", "api", "%61dmin", "Admin", "robots.txt"}}
    \cup {<<"abc", "download">>, <<"static", "download">>, <<"admin", "download">>, <<>>,
          <<"health", "ready">>, <<"admin", "">>, <<"admin", "links">>, <<"admin", "links", "abc">>,
          <<"api", "v1", "links">>, <<"api", "v1", "links", "abc", "enable">>, <<"Admin", "links">>}

Prod == [env |-> "production", loopback |-> FALSE, allow_direct |-> FALSE, url |-> "https",
         key |-> "long", token |-> "t1", password |-> "p1"]
Dev == [Prod EXCEPT !.env = "development", !.loopback = TRUE, !.url = "http"]

(* Production, a new token, a new password, production that asks for       *)
(* direct access; development with and without a token and direct access;  *)
(* and files that must be refused.                                         *)
MCFiles ==
    {Prod, [Prod EXCEPT !.token = "t2"], [Prod EXCEPT !.password = "p2"],
     [Prod EXCEPT !.allow_direct = TRUE, !.loopback = TRUE],
     [Dev EXCEPT !.token = ""], [Dev EXCEPT !.allow_direct = TRUE],
     [Dev EXCEPT !.allow_direct = TRUE, !.loopback = FALSE],
     [Prod EXCEPT !.token = ""], [Prod EXCEPT !.url = "http"]}
=============================================================================
