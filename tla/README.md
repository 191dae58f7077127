# Crabhop in TLA+

Crabhop is a single-administrator link shortener: a Rust server (Axum, SQLx,
SQLite) behind Caddy, with an admin UI of server-rendered forms and a few
scripts, a JSON API, public short links, and a deployment script. This directory
holds TLA+ modules translated from its source, TLC configurations that check them
on small instances, and proofs, checked by TLAPS, that hold for every value of the
constants.

    tlc -workers 2 -config MCLinkStore_race.cfg MCLinkStore    # one run
    tlapm LinkStoreProofs.tla                                  # one module's proofs

`PROJECT.json` lists the components, the runs with their properties, a mutant
of the code's definitions for every property, the source lines of every
definition, the hazards the properties are for, and the theorems.

## 1. The system

| Component | State | Operations | Hard part | Module |
|---|---|---|---|---|
| Link store: `db/links.rs`, handlers of `web/api.rs` and `web/admin.rs` | the `links` table | create (custom or generated slug), patch, disable, enable | requests interleave at every await; a timeout drops a handler but not its statement; retries; crash between commit and answer | `LinkStore`, `LinkTable`, `LinkRows` |
| Click recorder: `db/analytics.rs`, `main.rs` | bounded queue, its permits, one worker, `link_daily_clicks` | `try_record`, `flush`, worker write, shutdown drain, kill, boot | full queue, fairness between clicks and flushes, drain against a two-second limit, writes whose answer is lost | `ClickRecorder`, `ClickLedger` |
| Public visits: `web/public.rs` | none of their own | GET, HEAD, download of a slug | row and clock are read at different instants | `PublicVisit` |
| Link list: `list_links`, `admin_list_with_created`, `api_list` | none | search, filter, sort, count, clamp, fetch, neighbours | two statements without a transaction; boundaries of the filters | `LinkList` |
| Activity card: `get_link_activity` | none | total, week, zero-filled series | three statements while clicks are written; midnight | `LinkActivity` |
| CSRF tokens: `web/security.rs`, `web/admin.rs` | none on the server but the key; the browser's cookie and pages | issue, check, ensure again, logout, key change | one cookie against the forms of many tabs, ageing on both sides | `AdminSession` |
| Management gate, configuration, router and layers, Caddy, logout script: `config.rs`, `web/mod.rs`, `web/security.rs`, `Caddyfile`, `static/logout.js` | the configuration each process started with; the browser's password | route, guard, limit, harden, restart, log out | three notions of "management path" must agree; processes restart at different times; a 401 has several causes | `Routes`, `Gateway` |
| Page scripts: `static/expiration.js`, `text-shares.js`, `app.js`, and the handlers that render a draft | DOM | expiration field, text views, copy button, refused forms | repeated and skipped hours; event order, late timers | `ExpirationForm`, `TextViews`, `PageScripts` |
| Deployment: `scripts/deploy-vps.sh` | images, two tags, running container, lock | pull, build, replace, health checks, roll back, clean up | an interrupted or failed run, then another | `Deploy` |
| Database connection, migrations, smoke tests, host configuration | - | - | - | section 8 |

How they interact. All handlers share the two tables through a pool of SQLite
connections. Whoever writes `links` is a `LinkStore` handler; visits, lists and
cards only read. A visit that serves a GET calls `try_record`, which never waits;
the recorder's one worker is the only writer of `link_daily_clicks`. `main`
calls `flush` once, at shutdown. Every request passes Caddy and the layers of
`Gateway` first, and its handler runs under one ten-second `TimeoutLayer`. The
forms of a page carry a token of `AdminSession` and an expiration of
`ExpirationForm`, and end in a handler of `LinkStore`.

What makes each part correct:

- Link store: an answer tells what happened to the table; no write is lost or
  half done; a slug is one resource of one kind for good; a 409 is a real
  conflict; every request ends.
- Click recorder: a click counts at most once, in its own UTC day; a full queue
  drops clicks and blocks nobody; `flush` is a barrier and returns; a shutdown
  ends and, if it drained, lost nothing.
- Visits: what is served was the right answer at some instant of the visit, and
  only served GETs count.
- List: filters partition the links and agree with what a visit would say; pages
  partition a filter; a page is what the count promised, unless a write fell
  between the two statements.
- Card: one bar per day, each exact; the other figures right at some instant.
- Tokens: the administrator's own forms are refused only for a cause, and tabs do
  not take a good cookie from each other.
- Gateway: no management handler runs unguarded, no link is guarded, every answer
  carries its headers whichever layer made it, a request without the token is told 401
  before any other layer judges it, and "Logged out" is said only when it is so.
- Page scripts: what is saved is the instant the field stood for; a preview does not
  stay behind its text.
- Deployment: there is a good image to go back to, and the last line of a run is true.

## 2. Modules and their correspondence to the code

The modules are layered so that readers do not carry the writers' details:

    LinkRows <- LinkTable <- PublicVisit, LinkList       (abstract table, its readers)
    LinkRows <- LinkStore  --implements--> LinkTable
    ClickLedger <- LinkActivity                          (abstract counting, its reader)
    ClickRecorder          --implements--> ClickLedger
    Routes <- Gateway                                    (addresses; a request's way)
    AdminSession                                         (browser tabs and a stateless server)
    ExpirationForm, TextViews <- PageScripts             (one page, two scripts)
    Deploy                                               (invocations of a script)

`LinkRows`. A row of `links` as a record, and what `INSERT`, `UPDATE` and the
toggles do to one row. `Null` is SQL NULL and also the empty `target_url` that a
text share stores; `Keep` is a field a patch leaves out. Targets, texts and labels
are opaque; those in `Invalid` fail validation. `SqlCheck` is the CHECK of
migration 0003.

`LinkTable`. What readers may rely on: rows are born whole, edited without
changing identity, kind, creation or the disabled mark, or switched and nothing
else; stamps are never of the future. Three actions and the clock.

`LinkStore`. One handler per request, one action per stretch of code between two
awaits:

| Action | Code |
|---|---|
| `Begin` | parsing and the validation before any await; creates check content and expiry |
| `Reject` | requests without the proof a mutation needs: CSRF pair, API header |
| `Lookup`, `Check` | `update_link`: the first SELECT; then kind and patch against that row |
| `Stamp` | `now_millis()`, and the drawing of a slug for a create without one |
| `Submit`, `Execute` | the statement goes to its connection's thread; SQLite runs it, with one of the verdicts done, no row, conflict, CHECK, error |
| `Resume` | the handler gets the verdict: answer, next try with a new slug (at most `MaxRetries`), statistics, or the re-rendered form |
| `Enrich` | `enrich`: optional statistics after a commit |
| `Render` | an admin form rendered again from a fresh lookup, whose error replaces the first |
| `Timeout` | the handler is dropped at any await with 408; a submitted statement goes on as an orphan |
| `Crash` | the process dies and comes back; requests are lost, what SQLite has committed stays |

`committed` and `writer` are history variables: which requests' statements took
effect, and who last supplied each column.

`ClickLedger`. A click is taken, then counted once or missed; nothing else
changes daily rows. `ClickRecorder` has the channel as it is built: a queue and a
fair semaphore. `TryRecord` needs a free permit; `CallFlush`, `PushFlush` queue
for one; `Release` hands a freed permit to the first waiter, which nobody can take
from it. The worker's `Receive` frees a slot, answers a flush or picks a click;
`Write` commits the upsert or fails. `Shutdown`, `Exit`, `DrainTimeout`, `Kill` and
`Boot` are `main`'s; `Kill` may let the statement under way land. A timestamp is
read (`Visit`) before the click is enqueued, so clicks arrive out of order.

`PublicVisit`. `Arrive`, `Lookup`, `Resolve` (reads the clock, decides 404, 410,
content), `Record` (reads it again, enqueues a click), `Timeout`; the table is
`LinkTable`'s, changing at any step. `truths` and `dues` are history: the answers
that were right, and the expiries that were in force, during the visit.

`LinkList`. `Begin` reads the clock, `Count` counts and clamps, `Fetch` reads the page,
`Follow` goes to a neighbour that the page links to. `Found`, `HasStatus`, `HasKind` are
the conjuncts of the WHERE clause, `Before` the five ORDER BYs, over click counts that
change too; `Rank` is a row's place in one. `quiet` is history: no write since the count.

`LinkActivity`. `ReadTotal`, `ReadWeek`, `ReadSeries` over `ClickLedger`'s rows.
`OrderedRows` is the ORDER BY, by rank; `ZeroFilled` is the single pass over the days, and `Walk`
what it does on one day with its cursor into the rows. `asof` is history: the rows when the
handler started.

`AdminSession`. Tabs of one browser. `Open` and `Submit` send a request with the
cookie the jar holds at that moment; `ServePage`, `Check`, `Act`, `ServeLogout` are the
handlers; `Check` and `Act` are two readings of the clock in one handler; `Receive`
obeys Set-Cookie and shows the page or follows the redirect; `Lose` loses a request
or an answer; `RotateKey` is a restart with a new key. A token is its nonce, expiry and
key: equal tokens are the same token, a signature verifies under its own key.
`overlap` and `stale` are history: another tab's answer changed the cookie, or the
key changed, since a tab's request left or its page was asked for.

`Routes`. The route table of `app_router` and what the router makes of a path; the names
a link may have (`normalize_custom_slug`, `generate_slug`); and the three notions of a
guarded address: `is_management_path`, the admin test of the headers, and Caddy's matcher.
A path is a sequence of segments as sent, so `/Admin` and `/%61dmin` are addresses of their
own, which Caddy guards and the application does not know.

`Gateway`. One request at a time on its way: `Edge` (Caddy), then layer by layer in the order
of `Layers`, the list that `app_router`'s `.layer` calls make (`PassOn` for the headers' and the
timeout's layer, `Gate`, `BodyLimit`), to the router and its handler (`Route`). Each of these may
answer, and `TimedOut` answers for the timeout's layer in place of a handler; an answer goes back
out only through the layers that stand around the one that made it (`Outside`, `Outward`), so what
it carries, and which layer judges a request first, follow from the order. `StartApp` reads an
environment file, unless `Refused`; `StopApp` and `StartCaddy` lose the requests on their
way, so that for a while the two processes hold different secrets. The administrator's
browser opens a page, submits its form, signs in, and runs `logout.js` (`ClickLogout`,
`Probe`, `HearLogout`, `GiveUp`); anybody `Ask`s for anything, through Caddy or on the port.
A response carries a copy of the configuration that served it, for the properties only.
`excused` is history: during a logout the password was typed or changed.

`ExpirationForm`. One page with the field, the row it creates or edits, another writer, the
clock. `Sync` is `sync()`; `Type`, `Clear` and `Preset` are the events that run it; `Submit`
posts the hidden instant; `AdminCreate` and `AdminUpdate` save it, fail without a form, or
render the draft again. A time zone is a function from instants to displays, so that an
hour may be shown twice or never. `meant` is history: the expirations the field may stand for.

`TextViews`. The source, the chosen view, what the preview was last rendered from and the
debounce; copies that wait for the clipboard, the button's label and the texts its timers
will put back. `PageScripts` puts both scripts on one page.

`Deploy`. One action per command whose failure matters, with the branch its failure takes
(`set -e`, `|| true`, `rollback`); `Interrupt` kills a run between any two. `RemoveKeptTag`,
`ComposeUp` and `ComposeUpFails` are what Docker does. `trusted` and `trouble` are history:
the last image that passed all checks, and whether since then a run that was killed, or could
not restore, ended on another one.

Definitions whose comment starts with "Mutant of" are not part of any
specification: each is a plausible mistake in the definition after it, and the
property named in `PROJECT.json` fails when it takes that definition's place.

## 3. Runs

| Run | Instance | States | What it shows |
|---|---|---|---|
| `store_race` | 3 requests, 2 slugs, 2 tries, 2 instants | 1,942,958 (up to symmetry) | `ReplyTellsCommit`, `HoldsLastWrite`, `ConflictMeansTaken`, `OnlyTogglesPredate` under races, timeouts, orphans, errors, a crash |
| `store_requests` | 2 requests, every mutation, invalid ones too, 3 instants | 189,216 | `TypeOK`, `CheckNeverTrips`, `ImplementsTable`, `EveryRequestEnds` |
| `recorder` | 2 clicks over 2 days, 3 flushes, queue of 1, a restart | 379,821 | `TypeOK`, `PermitsAccounted`, `NoIdlePermit`, `FlushIsBarrier`, `DrainedLosesNothing`, `DailyExact`, `ImplementsLedger`, `FlushReturns`, `ShutdownEnds` |
| `public_visit` | a visit, a slug, 4 instants | 160,979 | `TypeOK`, `AnswerWasTrue`, `GoneWasDue`, `OnlyViewsCount` |
| `link_list` | a list, 3 links, pages of 2, 2 instants, a search, a click | 402,369 | `StatusesPartition`, `PagesPartition`, `QuietListIsExact` |
| `link_list_emptied` | as above | stops at the violation | finding 1 |
| `link_activity` | a card, 2 clicks, 2 links, 4 days | 554,226 (up to symmetry) | `SeriesExact`, `FiguresBracketed` |
| `link_activity_midnight` | as above | stops at the violation | finding 2 |
| `admin_session` | 2 tabs, 3 tokens of 2 instants, 4 instants, a key change | 667,306 (up to symmetry) | `TypeOK`, `RefusedForCause`, `ValidCookieStays` |
| `gateway` | 19 paths, 9 environment files, 2 tokens, 2 passwords | 172,275 | `GateHolds`, `PublicStaysPublic`, `Hardened`, `OwnFormsPassOrigin`, `LoggedOutMeansForgotten` |
| `page_scripts` | 7 instants, 2 zones, 2 presets, 2 edits, 2 copies | 29,904 | `ShownIsSubmitted`, `SavesWhatWasMeant`, `PreviewCatchesUp`, `LabelComesBack` |
| `deploy` | 2 overlapping invocations, 3 images | 161,393 (up to symmetry) | `GoodImageKept`, `LastLineIsTrue` |

Why the bounds are enough.

- Three requests: an insert, and two patches or toggles that overlap on the row it
  made; or two inserts and a retry that meets both. Two slugs: the one taken and
  the one a retry may draw. The values in `Invalid`, one per field, exercise every
  validation.
- A queue of one is full after a click; a second click and a waiting flush then contend for
  the slot that is freed, and three flushes wait behind each other, `main`'s among them.
  `MaxBoots = 1`: what one restart cannot repeat another one cannot either, since only `daily`
  survives.
- One visit, one list, one card: readers only read what they share, so two readers
  meet nothing a single one does not.
- Three links and pages of two: a full page and a partial one; page 3 is past the end. One
  click (`MaxClicks`) makes the order by clicks differ from the order by slug.
- `WeekDays` 2 and `SeriesDays` 3 over four days: days before the series, before the
  week, inside it, and after the card's today.
- Two tabs: an undisturbed tab and the one that disturbs it. Three tokens: the first,
  one for an overlapping page, and one after expiry or a new key.
- Gateway: the nine files are production, with a new token, with a new password, asking for
  direct access in vain; development without a token, with direct access on loopback and
  elsewhere; and two that must be refused. The paths are a link's, its download, names that
  begin like a guarded one, other cases and an escape of one, every guarded prefix, and the
  routes a slug could hide. Requests share nothing but the processes, so there is one at a
  time. `Ask` is enabled only while the administrator's browser is fresh, which such a request
  could not tell, and no process restarts while an answer is on its way, which cannot change it.
- Page scripts: the second zone shows two instants twice and skips two; a display exists in
  neither zone; `Far` makes the last instant a year that the server does not take. One script
  at a time, since they share no state. `MaxEdits` and `MaxClicks` of 2: an edit after a
  preview, and two flashes that overlap.
- Deployment: three images are the running one and two that are built in turn, so that one
  may be fit and one not. Two invocations and an interruption at any command; runs may follow
  each other without end.
- `MaxNow`, `MaxTokens`, `MaxKey`, `MaxBoots`, `MaxClicks`, `MaxEdits`, `MaxImages` cap counters
  in the guards. `Quiesce`, `StayDown` and `Spent` stutter where the system, or its bound, has
  nothing left to do, so that deadlock is checked in every run.

## 4. Fairness

`LinkStore!FairSpec`: weak fairness of `Handle(r)`, the steps of a handler other than
`Timeout`. Tokio polls a ready task, and SQLite answers or fails within its busy
timeout. None for `Timeout`, `Crash` or the arrival of requests: `EveryRequestEnds`
says that requests end without help from the timeout.

`ClickRecorder!FairSpec`: weak fairness of the worker (`Receive`, `Write`), of each
`TryRecord` (it does not wait) and `PushFlush` (a granted task is woken), and of `main`'s
`CallFlush` and `Exit`. None for `DrainTimeout` and `Kill`: `ShutdownEnds` holds without
the two-second limit, provided that writes end. Weak fairness suffices because the
semaphore is first come, first served: a granted permit stays granted.

## 5. What is proved

Each proof module extends its component and shows `Spec => []IInv` for an inductive
`IInv`; the listed theorems follow. Assumptions are the named ASSUMEs of the
component's module, which TLC evaluates in every run: sentinels differ from values,
bounds are naturals, a day has milliseconds, clicks and flushes are finite sets, requests are
parsable, the words of the route table are what they are.

`LinkStoreProofs`: all of `TypeOK`, `ReplyTellsCommit`, `CheckNeverTrips`, `ImplementsTable`,
`HoldsLastWrite`, `ConflictMeansTaken`, `OnlyTogglesPredate`. The types alone carry none of the
others. The invariant adds what each stage of a handler guarantees: only validated values
between validation and statement, and that a patch that passed the kind check finds a row of
the same kind whenever its statement runs, since no statement changes a row's kind and no row
is deleted. The refinement then has one case per kind of statement, and everything else
stutters. The last three rest on a second layer, `HistoryInv`: each column holds what its
last writer supplied, a handler that found a slug taken keeps finding it another's, and a patch
is stamped after the birth of the link it looked up.

`ClickRecorderProofs`: `TypeOK`, `PermitsAccounted`, `NoIdlePermit`, `FlushIsBarrier`,
`DrainedLosesNothing`, `DailyExact`, `ImplementsLedger`. The barrier needs the order of the
queue (clicks accepted before a flush stand before it), the agreement of the queue
with each task's own place, and that the worker does one thing at a time. `DailyExact`
is proved over that invariant, with the set of stored clicks of a day growing by
one exactly when the row does.

`TableReadersProofs`, for both readers of the table. `PublicVisit`: all four properties. While a
visit holds a row that may be stale, the invariant keeps that the row's answer at some earlier
instant is among the truths of the visit; time only grows, so a row that is not expired now was
not expired then. `LinkList`: all three properties, for every table of finitely many rows, page
size, filter and order. Each ORDER BY is a strict total order, so the ranks of n rows are
0 .. n - 1, each once: an injection of n rows into n ranks is onto. Pages are intervals of
ranks that tile 0 .. n - 1, whence the partition; the length of a page is the size of
its interval, whence what a quiet list shows.

`LinkActivityProofs`: `SeriesExact`, `FiguresBracketed` and, beside them,
`WeekEndsTodayUnlessMidnight`: what finding 2 refutes holds of every card whose day does not
change while it is made. The invariant says that each row is the number and the latest
of its day's counted clicks, and that each figure already read is a bound on what has been
counted since: the total of a card is at most the clicks counted now, its week at most those
since the week began, and total at most week and older clicks together. Clicks are only added, so
the bounds hold on. What the statements compute is shown separately. The sum over days is the
number of clicks on them; the cursor of the zero-filling pass stands, before every day, after as
many rows as precede it, so a bar is the row of its day or zero.

The library's induction theorems take an operator as a parameter and cannot be instantiated
here, but its theorem that a nonempty set of naturals has a least element takes a set. So a
recursive function of the model is shown to be a closed form in three steps: the closed form
satisfies the recursion, hence so does what the definition chooses; and among the arguments at
which the two differ none is least.

`AdminSessionProofs`: all three properties, for any number of tabs, any token life, any
number of key changes. The server remembers nothing, so the invariant follows a token
through request, response, jar and form, and says at each place that, unless the tab was
disturbed, it is the token the jar holds or one whose day is over.

`GatewayProofs`: type correctness and all five properties, for any set of paths, files, tokens
and passwords. Lemmas about the router come first: which handlers a guarded path leads to, and
that the address of a link that the slug rules allow fits its own route only. Then the
invariant follows a request: between Caddy and the handler it is vouched for if it came
through Caddy to a guarded path; an answer is Caddy's or that of one of the app's layers, says
what that layer knew, and has gone out through the header layer because that one is outside
every layer that answers (the lemmas about the stack's order say so); a page in the browser came with such an answer; and the logout script asks
with what the browser would send. That a slug cannot spell a guarded word uses that the
reserved words are shorter than a generated slug.

`PageScriptsProofs`: all four properties and type correctness, for every set of zones. The
field keeps a pair, the last display and its instant; the invariant is that the instant reads
as the display, and that what a valid field would submit was meant. For the button: the last
timer, or the label once there is none, holds what the last flash found.

`DeployProofs`: type correctness and both properties, for any number of invocations and
images. The lock makes the script sequential; along one run the rollback tag or the container
refers to the image it found until the checks have passed, and the image that last passed them
is the one the container runs or the one the run found.

Only model-checked: liveness (`EveryRequestEnds`, `FlushReturns`, `ShutdownEnds`), which is out of
the prover's reach, as ENABLED is. Every other property of the passing runs is a theorem. The two
properties that the runs of section 6 refute are no theorems, of course.

## 6. Findings

Each is a run whose one property states what a comment says, and which TLC refutes with what
the code does. Both need narrow windows and are mended by a reload; neither loses data.

1. `link_list_emptied`. The page is clamped to a count that another write outdates
   before the fetch, so the list can come back empty while links match.
   `db/links.rs:417`: "Clamp pages past the end so an emptied last page still shows content."
2. `link_activity_midnight`. The week has no upper bound, so a card made across midnight
   counts clicks of a day after its today. `db/analytics.rs:162`: "the seven calendar days
   ending today".

What the models show besides, which the code accepts and no document denies:

- Statistics are fetched after a commit but inside the request timeout, so a committed update
  that only waits for them can be answered 408, as any committed mutation can.
- 410 may be said of a link whose expiry was extended after the lookup (`GoneWasDue`).
- A toggle reads its clock before it knows the link, so `updated_at` may precede
  `created_at` (`OnlyTogglesPredate`).
- The expiry of a create is validated before the insert, and up to a retry budget of inserts
  later the row may be born expired. It is then answered 410.
- A card's week may exceed its total, being read later.
- Two first pages loaded at once leave the form of the one answered first refused; a page may
  carry a token near the end of its day, since a token is reused while it is valid.
- While Caddy and the application hold different tokens, the application's own 401 makes the
  logout page say "Logged out" although Caddy still takes the password (the second excuse of
  `LoggedOutMeansForgotten`).
- A copy within 1.5 seconds of another leaves the button labelled "Copied!" for good.
  `LabelComesBack` says exactly when: if the last flash found a flashed label.
- A draft whose year is beyond 9999 is refused and shown again with an empty field (the exception
  that `RenderDraft` makes in `meant`).
- A deployment that was interrupted after the container was replaced leaves an unchecked image
  running; the next one takes that for the image to go back to, and on success removes it, on
  failure restores it. The last good image may go with the tag that is cleared first (the
  exception `trouble` of `GoodImageKept`). A run that is interrupted before it replaces the
  container, or after its checks, costs nothing, and no exception is made for it.

## 7. Assumptions about what is outside `src/`

- The clock never goes back (`Tick` only adds). A clock set back would break stamps and token
  ages alike.
- SQLite runs one statement atomically, and UNIQUE and CHECK are evaluated with it.
- SQLx runs statements on a connection's own thread: dropping a future does not stop a
  statement already sent.
- Tokio's channel semaphore is fair, and its `recv` frees the slot it takes.
- The administrator's browser keeps one cookie of a name, follows redirects with the cookie it
  was just given, and sends Origin as the page's referrer policy says: `null` under
  `no-referrer`, the page's own otherwise. `AdminSession` takes a matching Origin for granted;
  `OwnFormsPassOrigin` shows it.
- The router prefers a literal segment to a parameter; Caddy decodes a path and ignores its case
  before it matches; it sets its token on everything it passes on. After a 401 to made-up
  credentials a browser may keep the real ones, keep the made-up ones, or forget both.
- A browser's `Date` takes one of the two occurrences of a repeated hour, always the same.
- Docker removes an image with its last tag unless a container uses it; a failing `compose up`
  leaves the old container, none, or the new one. A `flock` ends with its process.
- Rendering a template to a string does not fail.

## 8. Not modelled

- Payload syntax: URL, slug and text validation are "valid or not"; formatting, escaping and
  layout have no state. Of the headers only those a property names are there.
- The database connection: pool size, pragmas, running the migrations. No handler holds one
  connection while it waits for another, so the pool adds delay, which the models allow anyway.
- Signal handling and tracing: `Shutdown` may happen whenever the process serves. Body limits
  are modelled for announced lengths only.
- The form-reset handler of `expiration.js`: no page has a reset control. Rendering of markdown
  and code, and the choice of local formats, are local to one call.
- `text_content` in the list search, which the code does not search either.
- The Git checkout, Compose and Caddy files, which the deployment does not restore either.
- Litestream and fail2ban, which are configurations of other programs; the smoke scripts and
  tests, read as evidence of what the program should do.

## 9. Plan

The modules were written in the order of what matters to the system: `LinkStore` with
`LinkTable`; `ClickRecorder` with `ClickLedger`; `PublicVisit` and `LinkList` over `LinkTable`;
`LinkActivity` over `ClickLedger`; `AdminSession`; `Gateway` with `Routes`; the page scripts;
`Deploy`. What is left, in order:

1. `GateHolds` and `LastLineIsTrue` under a longer history: a rotation of the token in the order
   the README prescribes, as a run of its own, with the time it is refused in between.
2. A connection pool with its acquire timeout under `LinkStore`, should a handler ever hold two
   connections.
