------------------------------ MODULE LinkList ------------------------------
(***************************************************************************)
(* The list of links in the API and the admin UI (list_links of            *)
(* src/db/links.rs): the clock is read once, a COUNT runs, the page asked  *)
(* for is clamped to the count, and a second statement fetches that page,  *)
(* while writers change the table, and visits its click counts, between    *)
(* the two.  The admin page then links to its neighbours.                  *)
(***************************************************************************)
EXTENDS LinkTable, Sequences, FiniteSets

CONSTANTS
    Lists,      \* list requests
    Filters,    \* bound: the filters they may use
    Searches,   \* search texts; Null is none, or blank
    Contains,   \* per search text: the slugs, targets and labels LIKE %it%
    PerPage,    \* page size, 1 .. 100 after normalize_pagination
    Pages,      \* bound: the pages they may ask for
    Soon,       \* EXPIRING_SOON_MILLIS
    Written,    \* bound: the rows that the writers of a run may leave
    MaxClicks   \* bound: recording ends when a link has as many

Statuses == {"all", "active", "expiring", "expired", "disabled"}
Sorts == {"newest", "oldest", "updated", "slug", "clicked"}
Filter == [query : Searches, status : Statuses, kind : {"all", "url", "text"},
           sort : Sorts]

(* Slugs are written as numbers here: their rank in `slug ASC`.            *)
ASSUME SlugsRanked == Slugs \subseteq Nat
ASSUME ListAssumption ==
    /\ Filters \subseteq Filter /\ Written \subseteq Row
    /\ Contains \in [Searches \ {Null} -> SUBSET (Slugs \cup Targets \cup Labels)]
    /\ Pages \subseteq Nat /\ PerPage \in Nat \ {0} /\ Soon \in Nat
    /\ MaxClicks \in Nat

VARIABLES
    clicks,     \* per slug, the sum of its daily rows
    stage,      \* where each request's handler stands
    params,     \* its filter and the page it asks for
    at,         \* the clock reading bound to both statements
    total,      \* the COUNT
    page,       \* the page after clamping
    items,      \* the slugs fetched, in order
    quiet       \* ghost: no write since the COUNT

listVars == <<links, now, clicks, stage, params, at, total, page, items, quiet>>

ListInit ==
    /\ TableInit
    /\ clicks = [s \in Slugs |-> 0]
    /\ stage = [r \in Lists |-> "idle"]
    /\ params = [r \in Lists |-> NoRow]
    /\ at = [r \in Lists |-> 0]
    /\ total = [r \in Lists |-> 0]
    /\ page = [r \in Lists |-> 1]
    /\ items = [r \in Lists |-> <<>>]
    /\ quiet = [r \in Lists |-> TRUE]

(***************************************************************************)
(* The two statements                                                      *)
(***************************************************************************)
(* Mutant of HasStatus: the expiry instant itself still counts as active.  *)
HasStatusLate(row, status, t) ==
    CASE status = "all" -> TRUE
      [] status = "active" ->
            row.disabled = Null /\ (row.expires = Null \/ row.expires >= t)
      [] status = "expiring" ->
            row.disabled = Null /\ row.expires # Null /\ row.expires > t
            /\ row.expires <= t + Soon
      [] status = "expired" ->
            row.disabled = Null /\ row.expires # Null /\ row.expires <= t
      [] status = "disabled" -> row.disabled # Null

(* status_predicate: disabled takes precedence over expired.               *)
HasStatus(row, status, t) ==
    CASE status = "all" -> TRUE
      [] status = "active" ->
            row.disabled = Null /\ (row.expires = Null \/ row.expires > t)
      [] status = "expiring" ->
            row.disabled = Null /\ row.expires # Null /\ row.expires > t
            /\ row.expires <= t + Soon
      [] status = "expired" ->
            row.disabled = Null /\ row.expires # Null /\ row.expires <= t
      [] status = "disabled" -> row.disabled # Null

HasKind(row, kind) ==
    \/ kind = "all"
    \/ kind = "url" /\ row.text = Null
    \/ kind = "text" /\ row.text # Null

(* The search looks at the slug, the target and the label, not at a shared *)
(* text.                                                                   *)
Found(s, query) ==
    query = Null \/ {s, links[s].target, links[s].label} \cap Contains[query] # {}

Matching(f, t) ==
    {s \in Slugs : /\ links[s] # NoRow /\ Found(s, f.query)
                   /\ HasStatus(links[s], f.status, t) /\ HasKind(links[s], f.kind)}

(* order_clause: every order ends in `slug ASC`.                           *)
Before(s, u, sort) ==
    LET first(x, y) == x < y \/ (x = y /\ s < u) IN
    CASE sort = "newest" -> first(-links[s].created, -links[u].created)
      [] sort = "oldest" -> first(links[s].created, links[u].created)
      [] sort = "updated" -> first(-links[s].updated, -links[u].updated)
      [] sort = "slug" -> s < u
      [] sort = "clicked" -> first(-clicks[s], -clicks[u])

(* How many rows of M come before s.                                       *)
Rank(M, s, sort) == Cardinality({u \in M : Before(u, s, sort)})

(* LIMIT PerPage OFFSET (p - 1) * PerPage.                                 *)
PageOf(f, t, p) ==
    LET M == Matching(f, t)
        offset == (p - 1) * PerPage
        S == {s \in M : /\ offset <= Rank(M, s, f.sort)
                         /\ Rank(M, s, f.sort) < offset + PerPage}
    IN  [i \in 1 .. Cardinality(S) |-> CHOOSE s \in S : Rank(S, s, f.sort) = i - 1]

(* Mutant of TotalPages: rounded down.                                     *)
FullPages(n) == n \div PerPage

(* ceil(total / per_page)                                                  *)
TotalPages(n) == (n + PerPage - 1) \div PerPage

AtLeast1(n) == IF n < 1 THEN 1 ELSE n

(* Mutant of Clamped: a page past the end is fetched as asked.             *)
AsAsked(p, n) == AtLeast1(p)

Clamped(p, n) ==
    IF AtLeast1(p) > AtLeast1(TotalPages(n)) THEN AtLeast1(TotalPages(n))
    ELSE AtLeast1(p)

HasNext(n, p) == p < AtLeast1(TotalPages(n))
HasPrev(p) == p > 1

(***************************************************************************)
(* The handler                                                             *)
(***************************************************************************)
StageTo(r, label) == stage' = [stage EXCEPT ![r] = label]

Begin(r, f, p) ==
    /\ stage[r] = "idle"
    /\ params' = [params EXCEPT ![r] = [filter |-> f, page |-> p]]
    /\ at' = [at EXCEPT ![r] = now]
    /\ StageTo(r, "count")
    /\ UNCHANGED <<links, now, clicks, total, page, items, quiet>>

(* prev_url and next_url keep the filter and change the page.              *)
Follow(r) ==
    /\ stage[r] = "done"
    /\ \E p \in (IF HasPrev(page[r]) THEN {page[r] - 1} ELSE {}) \cup
               (IF HasNext(total[r], page[r]) THEN {page[r] + 1} ELSE {}) :
          params' = [params EXCEPT ![r].page = p]
    /\ at' = [at EXCEPT ![r] = now]
    /\ StageTo(r, "count")
    /\ UNCHANGED <<links, now, clicks, total, page, items, quiet>>

Count(r) ==
    /\ stage[r] = "count"
    /\ LET n == Cardinality(Matching(params[r].filter, at[r])) IN
       /\ total' = [total EXCEPT ![r] = n]
       /\ page' = [page EXCEPT ![r] = Clamped(params[r].page, n)]
    /\ quiet' = [quiet EXCEPT ![r] = TRUE]
    /\ StageTo(r, "fetch")
    /\ UNCHANGED <<links, now, clicks, params, at, items>>

Fetch(r) ==
    /\ stage[r] = "fetch"
    /\ items' = [items EXCEPT ![r] = PageOf(params[r].filter, at[r], page[r])]
    /\ StageTo(r, "done")
    /\ UNCHANGED <<links, now, clicks, params, at, total, page, quiet>>

(* Either statement fails, or the request times out: no list is shown.     *)
Abandon(r) ==
    /\ stage[r] \in {"count", "fetch"}
    /\ StageTo(r, "failed")
    /\ UNCHANGED <<links, now, clicks, params, at, total, page, items, quiet>>

(* A mutation commits (LinkStore), a click is recorded (ClickRecorder), or *)
(* time passes.                                                            *)
Meanwhile ==
    /\ \/ Tick /\ UNCHANGED <<clicks, quiet>>
       \/ /\ \E s \in Slugs :
                /\ links[s] # NoRow /\ \A u \in Slugs : clicks[u] < MaxClicks
                /\ clicks' = [clicks EXCEPT ![s] = @ + 1]
          /\ UNCHANGED <<links, now, quiet>>
       \/ /\ \E s \in Slugs, row \in Written :
                links' = [links EXCEPT ![s] = row] /\ Write(s)
          /\ quiet' = [r \in Lists |-> quiet[r] /\ stage[r] # "fetch"]
          /\ UNCHANGED clicks
    /\ UNCHANGED <<stage, params, at, total, page, items>>

ListNext ==
    \/ \E r \in Lists :
          \/ \E f \in Filters, p \in Pages : Begin(r, f, p)
          \/ Follow(r) \/ Count(r) \/ Fetch(r) \/ Abandon(r)
    \/ Meanwhile

ListSpec == ListInit /\ [][ListNext]_listVars

(***************************************************************************)
(* Properties                                                              *)
(***************************************************************************)
Shown(r) == stage[r] = "done"

(* The status filters in SQL and the availability checks in Rust agree on  *)
(* every row at every instant, the expiry instant included: each link is   *)
(* listed under exactly one of active, expired and disabled, under active  *)
(* exactly while a visit would be served, under expiring only if active.   *)
StatusesPartition ==
    \A s \in Slugs : links[s] # NoRow =>
        LET has(status) == HasStatus(links[s], status, now) IN
        /\ has("disabled") <=> IsDisabled(links[s])
        /\ has("expired") <=> ~IsDisabled(links[s]) /\ IsExpired(links[s], now)
        /\ has("active") <=> ~IsDisabled(links[s]) /\ ~IsExpired(links[s], now)
        /\ has("expiring") => has("active")

(* A client that walks the pages of a table nobody changes meets every     *)
(* matching link exactly once, in each order, ties of timestamps included. *)
PagesPartition ==
    \A f \in Filters :
        LET M == Matching(f, now)
            shown == [p \in 1 .. TotalPages(Cardinality(M)) |-> PageOf(f, now, p)]
        IN  /\ M = UNION {{shown[p][i] : i \in DOMAIN shown[p]} : p \in DOMAIN shown}
            /\ \A p, q \in DOMAIN shown :
                  \A i \in DOMAIN shown[p], j \in DOMAIN shown[q] :
                     shown[p][i] = shown[q][j] => p = q /\ i = j

(* Unless a write fell between the two statements, and whatever clicks     *)
(* did, the page shown holds as many rows as the count promises for it,    *)
(* none only if there is none, and links to a next page exactly while rows *)
(* are left.                                                               *)
QuietListIsExact ==
    \A r \in Lists : Shown(r) /\ quiet[r] =>
        LET left == total[r] - (page[r] - 1) * PerPage IN
        /\ Len(items[r]) = IF left < PerPage THEN left ELSE PerPage
        /\ total[r] > 0 => items[r] # <<>>
        /\ HasNext(total[r], page[r]) <=> left > Len(items[r])

(* "Clamp pages past the end so an emptied last page still shows content": *)
(* a list is not empty while a link matches it.                            *)
EmptiedPageShowsContent ==
    [][\A r \in Lists :
         stage[r] = "fetch" /\ stage'[r] = "done" /\ Matching(params[r].filter, at[r]) # {}
         => items'[r] # <<>>]_listVars
=============================================================================
