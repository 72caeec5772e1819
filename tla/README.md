# wikibuild in TLA+

wikibuild is a Go blog/wiki server: a public site, an admin backend, an MCP
server for AI agents, and a background publisher, all over one PostgreSQL
database and one directory of uploaded pages. This directory holds the
specifications of that system, the TLC configurations that check them and the
proofs that TLAPS checks.

Run from this directory, for example: `tlc -config Login.cfg MCLogin`,
`tlapm LoginProofs.tla`.

## 1. Inventory

### Components

| component | source | state it keeps | operations |
|---|---|---|---|
| article store | `internal/store/{inmem,postgres,sqlc}`, `db/` | `articles`, `redirects`, `users`, `settings` tables | insert, full-row UPDATE, DELETE, filtered and paged lists, due list, redirect upsert, tag list and rename, settings get/set |
| admin article handlers | `internal/handler/article.go` | none (rows, folders) | Create, Update (row, redirect, folder rename), Delete (row, folder) |
| HTML upload | `internal/handler/upload.go` | `contentDir/<slug>/` | clear, extract, insert, roll back |
| redirects | `internal/handler/redirects.go` | `redirects` | Create, Delete, lookup on a missing slug |
| scheduler | `internal/scheduler`, `runPublisher` in `cmd/wikibuild` | none (the list one Tick holds) | Tick at boot and every minute |
| MCP tools | `internal/mcp` | none | list, get, create, update, set status, set visibility; a separate process, and the playground's tool calls |
| login | `internal/handler/auth.go`, `internal/auth/{loginlimit,session}.go` | failure window and lockout per address, in memory; the session cookie at the client | LoginSubmit, Logout, RequireAuth |
| reader: public pages and gate | `internal/gate`, `internal/handler/{public,discover,preview}.go`, `views/public`, `views/layout` | unlock and session tokens at the client; it reads the folders of uploads | Index, Article, UnlockForm, UnlockSubmit, UploadContent, UploadAsset, Search, Tag, Archive*, Preview |
| lists and feeds | `internal/handler/{feed,discover}.go`, `internal/{feed,seo}` | none | RSS, Atom, JSON Feed, sitemap, archive counts |
| playground | `internal/handler/playground.go`, `internal/llm/{agent,stream}.go` | one event stream per request, written by two goroutines | stream, keepalive, the agent's tool loop |
| AI helpers | `internal/handler/aiseo.go`, `internal/llm` | process-wide request window (one for the helpers, one for the playground) | suggest, generate, allow |
| site settings | `internal/handler/settings.go`, `internal/sitebrand` | `settings` | Save (eleven keys one by one), Load |
| tags | `internal/handler/tags.go`, both stores | `articles.tags` | list with counts, Rename, Merge |
| users | `ensureAdmin` and `resetadmin` in `cmd/wikibuild` | `users` | create the admin at the first start, reset its password |
| rendering | `internal/{render,ogimage}` | none | pure functions of articles |
| views, config, media | `views/admin`, `internal/{config,media,server}` | files, environment | templates, parsing, order of the routes |

### How they interact

The admin handlers and the scheduler share the server process; the MCP server
is a second process on the same database. There are no transactions and no
row versions: every change of an article is a `SELECT`, a computation in Go and
an `UPDATE ... SET` of *every* column, so any two writers of one article can
overwrite each other. Files under `contentDir` follow the slug of an
`html_upload` article and are changed in separate steps before or after the
row. Redirects are written after the row they belong to.
Logins share one limiter in memory, AI requests another. The playground's agent
calls the MCP tools inside the server process and reports what they do on its
event stream. Readers see the tables through the gate; what they hold are
tokens of one `Signer`, as session or as unlock cookies. Two stores implement `store.Repository`: tests run on the one in
memory, the program on PostgreSQL. Several servers may start on one database.

### What is hard

* stale full-row writes: form against MCP against Tick, across processes;
* steps of one request that fail or never happen: crash or database error
  between row, redirect and files, errors that are ignored, a reply that is lost
  after the database did what it was asked;
* the scheduler's retries: one failing row ends a tick;
* order: upload replaces files before it knows whether the slug is free,
  Delete removes them after the row;
* long legal sequences: publish, withdraw, reschedule, rename and rename back;
* check-then-act on the login lockout across a slow password comparison, and
  clocks read before a mutex is taken;
* two goroutines writing one event stream, one of them told to stop and not
  waited for, the mutex that of one stream and the writer pooled; frames that a
  buffered stream takes for a client that has left; a provider, a client or a deadline that may fail between a tool's
  effect and its report;
* calls of several statements that stop half-way (tag rename, settings form), and
  servers that start together;
* two stores that must not be told apart, and integers cut to 32 bits;
* what a reader gets through ten routes to one article while it is renamed,
  withdrawn, deleted and its slug given to another; links, redirects and cookies
  that were made for an earlier state.

### What makes each component correct

Store: slugs unique, a deleted article stays deleted, a write changes nothing it
should not. Handlers and MCP: status, PublishedAt and PublishAt always agree;
a change named in a request is the only change. Scheduler: due drafts and only
those, at their scheduled time, eventually. Upload: a page in the table has its
files. Redirects: an old URL leads to its article, and redirects end. Login: the
wrong passwords compared in a window, less the wait for the mutex, are bounded, a
lock holds and ends, a session lasts its time. Playground: every stream ends, and
tells of every tool that ran. Reader: an article is shown to those who may read it
and to nobody else, no link is dead, every list is complete. The PostgreSQL
store: nothing it does could not be done by the store in memory. Settings: a saved form is what the site has. AI limiter:
no more than the limit per window, and nobody refused below it.

## 2. Plan

Order of the modules (✓ done):

1. ✓ `Articles`: the pure row functions; ✓ `Publishing`: store, handlers, MCP,
   scheduler, faults; ✓ `PublishingHistory`: old URLs and files.
2. ✓ `PublishingProofs`: inductive invariant and four properties of it.
3. ✓ `Login`, `LoginProofs`: submits that overlap, the limiter, sessions.
4. ✓ `Playground`: the stream's two writers and the agent loop;
   `PlaygroundProofs`.
5. ✓ `Reader`: gate and tokens over article changes, with folders, lists, feeds,
   the preview and the links between pages; `ReaderProofs`.
6. ✓ `Repository`, `PgStore`: the two stores, the second an implementation of the
   first; tag renames, the settings form, servers that start; `PgStoreProofs`.
   ✓ `AILimit`: the limiter in front of the AI helpers and the playground.
7. Left: pure functions against a reference: choice of the entry page of an
   archive (`findHTMLEntry`, `sharedRootPrefix`), `BuildChatMessages`.
8. ✓ `PublishingHistoryProofs`: the one-at-a-time properties, the files of pages,
   old URLs; `AILimitProofs`; the transcripts and reports in `PlaygroundProofs`;
   the types and the bound on guesses in `LoginProofs`; tag renames and the
   refinement of `Repository` in `PgStoreProofs`; `Induction`.
9. ✓ What a reader finds on pages (pages, archive, links, redirects) in
   `ReaderProofs`; the reads of the two stores in `PgStoreProofs`.

## 3. Modules

| module | models |
|---|---|
| `Articles` | `model.Article` and the functions from a stored row and an input to the row to write |
| `Publishing` | the tables, the folders, requests in flight, the tick, the clock, faults |
| `PublishingHistory` | `Publishing` with the history of who had which slug, and the reader's way from a URL to an article |
| `Login` | `AdminAuth`, `LoginLimiter`, `Signer` |
| `Playground` | `AILimit` with the event streams behind it, their keepalive goroutines and agents |
| `AILimit` | `AISEO.allow` |
| `Repository` | `store.Repository`: what the in-memory store does, one step per call |
| `PgStore` | the PostgreSQL store statement by statement, tag renames, the settings form, `ensureAdmin`; `KeepsPromise`: it implements `Repository` |
| `Reader` | every public route as a function from a cookie and a URL to a response, the writers as far as readers notice, the folders of uploads, tokens |
| `MC...` | symmetry, constants and the division into smaller behaviours for TLC |
| `PublishingProofs`, `PublishingHistoryProofs`, `LoginProofs`, `AILimitProofs`, `PlaygroundProofs`, `ReaderProofs`, `PgStoreProofs` | theorems about the module of that name |
| `Induction` | induction over the naturals for a set, for proofs about loops |

State of `Publishing` and the code: `rows` is the articles table (ids are given
out once, as BIGSERIAL does), `redirects` the redirects table, `dirs` the folder
of each slug (`absent`, `partial` while it is being written, `full`), `req[w]`
the local variables of a handler or tool call between two database calls (next
step, article id, slug that was read, row to write), `due` the slice `Tick`
ranges over, `clock` the wall clock.

An action ends where the code next touches the database or the file system:
`Update` is `UpdateRead`, `UpdateWrite`, `UpdateRedirect`, `UpdateMove`;
`Upload.Submit` is `UploadClear`, `UploadExtract` or `UploadReject`,
`UploadInsert`, or `UploadDuplicate` and `UploadRollback`. A handler that makes
a single database call (`Create`, the redirect forms, MCP create) is a single
action. `WriteRefused` is `ErrNotFound` or `ErrDuplicateSlug` from
UpdateArticle; `CallFails` is any other database error, of a call that had no
effect, and `ReplyLost` (`TickReplyLost` for the scheduler's) one of a call that
had: the connection ended after the statement was committed. The constant
`LostReplies` says whether such errors occur. `Crash` is the end of the server
process at any moment: it forgets the requests and the tick of the process but not
the MCP process. It is an event of the environment and no code of the program (the
graceful shutdown of `main` waits for requests).

Abstractions: title, body, tags, SEO columns, flags and preview token are one
column `body`; an empty slug is `NoSlug` (Update can store it, Create cannot);
times are instants `1..MaxTime`, `Nil` is a nil pointer; passwords, CSRF and
sessions are left out of these modules. `Launched` follows the code of `Tick`
(PublishedAt becomes the scheduled time), not the first sentence of its comment
(which says "now").

### Login

`limiter` is `LoginLimiter.state` (a key that is not in the map is `Fresh`),
`submits[s]` a running `LoginSubmit`, `cookies` what each browser holds, `clock`
the injected clock. `LoginSubmit` touches the limiter twice, with the slow
password comparison in between: `Submit` is `IsLocked`; `WrongPassword` is the
comparison and the reading of the clock in line 65, `RegisterFailure` what
follows under the mutex; `RightPassword` is `RegisterSuccess`, `Sign` and the
cookie. How long a goroutine may wait for the mutex is `MaxWait`. A token is the
sequence of its dot-separated parts with the signature as its last part, so that
`Verify` can count them. `Kept` is the loop over the failures, as a recursive
function over their number. A user name is the sequence of its parts; an address has
one browser. `guesses`, `promised` and `signedIn` are histories; `promised` is the end
of the lock as the latest recorded failure would have it if it had not waited. A
restart empties the limiter and ends the requests; cookies survive it.

### Playground

`streams[s]` is the writer function of a stream, its context, connection and
keepalive goroutine; `out[s]` the frames the stream has taken. Between it and the
client are a `bufio.Writer` and a pipe, so a write without an error has reached
nobody yet: a client has received some first part of `out[s]` (`Received`). When it
has left (`conn = "left"`), writes go on succeeding until one fails
(`"broken"`, and sticky, as in `bufio.Writer`); the agent goes on calling the
provider and running tools until then. One action is one frame (the mutex of
`writeRaw`) or one call of the provider or of a tool; plain status frames of the
agent are left out, their write errors are not. A heartbeat is two frames, the
comment and the status (`BeatComment`, `BeatStatus`), and frames of the handler may
come between them. The ticker may win the `select` although the stop channel is
closed. A heartbeat that is due when the writer function has returned goes
nowhere, or into a stream that was given the same `bufio.Writer` (the server pools
them; an assumption about fasthttp): the mutex is that of its own stream, so there
it is a race, and its frame is lost, comes in whole or tears the one before it
(`Entered`); `foreign` marks the stream it came into, of which the properties say
nothing more. The conversation is kept as its shape: an assistant message is its
number of calls, a tool message 0.

In front of it is `AILimit`: `times` is `AISEOLimit.times` (each time
named by the request that carried it), `requests[c]` a call of
`allow` that has read the clock (`Arrive`) and waits for the mutex, at most
`MaxWait`; `Allow` is what it does under it. `MCPlayground` has three kinds of
behaviours (`focus`): one stream in all its steps; two, of which the first may still
be beating when the second is open; and many requests that compete for a stream.

By reading: because the keepalive goroutine is not waited for, its last heartbeat
can come after `[DONE]`; a heartbeat is a comment and a status frame, neither of
which is part of an answer, and `TranscriptOK` is about the frames without them.

### Stores

`Repository` follows `inmem.Store`: `nextID`, `byID`, `bySlug`, and one step per
call; a reply names its call. The two stores answer differently when the article to
delete is gone, as it is for the second of two requests that both read it:
`ErrNotFound` in memory, nil from PostgreSQL, whose DELETE just finds no row.
`store.Repository` does not say which, so `GoneAnswers` is a constant of
`Repository` and `Promise` allows both. Its `RenameFails` and `Refused("failed")` say what a caller must expect of a
database that fails. `PgStore` has the tables, the sequence (`seq`: a failed
INSERT uses up an id) and `job`, the call of several statements that is running:
the list of articles a rename has still to write, or the keys a settings form has
still to write. `Fails` ends any call at any statement. `servers[s]` is where a
server is in `ensureAdmin`. Clients work one at a time here; writers that overlap
are the subject of `Publishing`.

`Promise == INSTANCE Repository WITH ...` is the refinement mapping. An id is
known by its rank in the order of creation (`born`), as ids of the two stores
differ once an INSERT has failed. A rename takes effect for its caller when it
returns, so `byID` is the table the rename found until then (`Settled`). A reply is
what the caller is told (`Told`), its id as a rank. A stored tag list may hold a tag
twice (the forms do not prevent it); a rename leaves each tag once, as
`rewriteTags` does in both stores.
`ReadsAgree` compares the reads, which are no steps: every slug, every filter,
every page, the tag counts.

### Reader

`Respond(cookie, url)` is the whole public site: the table of routes in
`server.New`, the handlers and what their views put on a page. A response is its
status, its target if it is a redirect, the articles it lists, whose content it
shows, and its links. A GET is one step: it changes nothing, and reads of a page
that come from two statements are not separated.

The writers' requests are one step each here: `Create`, `Delete`, and two kinds of
changes, as they leave different things behind. `Update` is the form: it writes a
redirect from the old slug (`LeaveRedirect`, which may fail unnoticed) and renames
the folder of an upload (`MoveFiles`, the same). `ToolUpdate` is the MCP tools and
the scheduler: `update_article` may change the slug and does neither.
`UploadRefused` is an upload that is turned down after it emptied the folder of its
slug. `dirs` is what is in the folders; the histories `deserted` and `astray` are the
slugs that were given up without a redirect, and the uploads that lost their files
or left them behind. The document of an upload is whatever lies in the folder of
its slug; one with a `<base>` of its own keeps it (`based`).

`jar` is the tokens one reader has of the server's `Signer`: number 0 is the
session of an admin (`SignIn`), the others are the unlock cookies of the articles
with these ids. `IsAdmin` is what `isAdmin` and `RequireAuth` do: the admin cookie
counts if its token verifies, and what the token was signed for is not compared.
`ShownExactly` therefore says what is shown to *whoever passes for the admin*, not
to the admin; the user name is taken to be no article's id. `proven` is the history
of when the right password for a token was given.

`MCReader` has four kinds of behaviours: many articles in lists; two articles
renamed and deleted under links; two uploads and their folders; articles behind the
gate while passwords, sessions and time change.

Assumed: no slug is a word of the routes (the forms do not check this: an article
`search` cannot be reached; `ReaderAssumption`), slugs need no escaping,
redirects come from renames only, all entries of uploads have one name and one file
stands for those next to the document, and dates are of
the years 1970 to 3000, the ones `parseYear` accepts (an article dated outside them
would be counted on an archive page that answers 404).

## 4. Runs

Bounds are in the `.cfg` files. Ids and the clock are used up by every
behaviour, so the bounded instance stops where the system would not:
`CHECK_DEADLOCK FALSE`.

| run | question | bounds, and why they are enough |
|---|---|---|
| `Interleaved` | do the row invariants survive every interleaving of form, MCP call and tick, crashes, failed calls and lost replies? | two articles and one non-empty slug, so that every rename, re-creation and upload collides; one request per process and the tick: three writers of one row; one fault |
| `Serial` | does each operation alone change what it says it changes, do old URLs follow their article through any chain of renames, do folders match rows? (`Overlap = FALSE`: a request starts when nothing else runs) | two articles, three slugs (chains of two renames and a rename back), every operation, two visibilities, two instants |
| `Scheduled` | is a scheduled draft eventually published or withdrawn? | two drafts in one tick's list and one fault, so that an aborted tick leaves one behind; lost replies; MCP calls that write stale rows back; two instants |
| `CrashSafe` | is a page ever in the table without its files? | two concurrent admin requests on two slugs, the MCP call and the tick, one fault, which loses no reply (see below) |
| `LostPatch` | violated: `update_article` overlapping another writer reverts columns the patch did not name | one article |
| `Reupload` | violated: an upload refused for its duplicate slug has destroyed the files of the slug's owner | two uploads |
| `Login` | are guesses bounded, locks held as long as they should be, sessions as long as they should be, however submits overlap? | three submits from one address, two of them beyond the check when a lock falls; two failures lock; time for two locks (the limiter's keys are independent: one address) |
| `DottedName` | violated: the session of a user `sam.lee` is never accepted | one name of two parts |
| `Playground` | does a stream stay well formed, report its tools and end? is the number of requests bounded, and nobody refused without cause? | two rounds of two calls, two chunks, a heartbeat of two frames, failures and the client's leaving at every step; two streams one after the other on one pooled writer; four requests, a limit of two per window of three instants, a wait of one |
| `Store` | does the PostgreSQL store keep the promise of `store.Repository`, deletions of what is gone included, do reads agree, what do failed renames and saves leave, who is admin? | two slugs, three ids (one wasted on a duplicate, two live), two tags, lists with both; two keys; two servers; one fault; `Int32Max = 2`: every offset the three articles can have |
| `Reader` | who is shown what, does every link lead somewhere, do redirects end, are lists and archive complete? | three articles and pages of two: a full and a half-full page; three slugs: chains, circles and reuse, through the form and `update_article`; two uploads whose folders are moved, left or emptied; own and site password; three instants, unlock cookies of two, sessions of one |
| `Wildcard` | violated: a backlink comes from an article that does not link here | as `Reader`, with one slug that ILIKE matches to another |

`FreshSpec` (in `Serial` and `CrashSafe`) restricts clients to slugs no other
article has had; without it a reused slug makes `OldUrlsWork`, `FilesMatchRows`
and `PagesHaveFiles` fail (the redirect that led through it is replaced, the
folder is shared), which is what `Reupload` shows for the folder. `Serial` has no
faults: Update ignores an error of CreateRedirect and a crash between the two
writes loses the redirect; what readers meet then is in `Reader` (`deserted`).

`CrashSafe` has calls that fail and do nothing, not replies that are lost
(`LostReplies = FALSE`): when the INSERT of an upload is committed and its reply is
lost, `Upload.Submit` takes it for refused and removes the folder of a row that is
there. With `LostReplies = TRUE` TLC finds this within seconds. `Interleaved` and
`Scheduled` have lost replies.

The same overlap that `LostPatch` shows for `update_article` defeats
`VisibilityOnly`, `PublishedAtKept` and, when an article is edited between
`TickList` and `TickPublish`, `TickPublishesDue`: these hold one at a time.

`ScheduleHonoured` does not survive `update_article` (left out of `Scheduled`):
a client that renames a due draft between each tick's list and its write, and
gives its old slug to another article, makes every write of a tick fail on the
unique slug and starves the draft.

`ShownExactly` says that a cookie shows a protected article for `UnlockTTL` after
the right password was given, right at that time: a changed password does not end
it. `LinksLead` and `ShownExactly` except uploads that are `astray`: the page of an
upload renamed by `update_article` (or whose `os.Rename` failed) answers 404 though
the lists link to it, and one that takes over its slug may be served the files left
there. `RedirectsSettle` excepts ways that pass a `deserted` slug: after renames
from a to b and back through the form, `/b` leads to `/a`, `/a` to `/b` as soon
as `update_article` renames a to c, or the article is deleted, and the two
go round for ever. Without the exceptions TLC finds these.
`BacklinksTrue` holds for slugs without `_` (run `Reader`); the same pattern
reaches the public search, where the in-memory store searches literally, so
`Repository` and `PgStore` agree on text without `_`, `%` and `\` only (the
search of the model is a whole body). The form `[[text|slug]]` leaves no backlink.
Offsets from 2^31 are negative after the conversion and an error in PostgreSQL;
`ReadsAgree` is about smaller ones.

`RateBounded` is tight: with a window longer by one instant than
`Window - MaxWait` TLC finds two late calls that count from an old time.

`GuessesBounded` counts at most `MaxAttempts` wrong passwords in an interval shorter
than a window by `MaxWait`, and one more for each further submit at the same time;
with one less TLC finds the overlap, and with the whole window two late failures.

`LockHeld` says that a lock lasts `Lockout` from the latest failure recorded on
it, less `MaxWait`. It cannot say more: `RegisterFailure` reads the clock before it
takes the mutex, and sets `lockedUntil` to that time plus `Lockout`, so a failure
that waited while a later one was recorded moves the end of the lock *back* by the
time it waited. The comments at `loginlimit.go:62-63` and 75 say that an attempt
pushes the lockout further out. `LoginSubmit` never reaches that branch for an
address it finds locked, only for submits that had passed the check.

Differences from comments that no run shows: the one of `LockHeld` above; the answer
to the deletion of a missing article, although `repository.go:230-231` calls the
two stores behaviourally identical (with `GoneAnswers` cut to `ErrNotFound`,
`KeepsPromise` fails at the second of two deletions); an upload submitted as published
gets no PublishedAt (`Upload.Submit` never calls `stampPublishedAt`); a slug
changed through MCP leaves no redirect; the comment of `Tick` says PublishedAt
becomes now, the code keeps the scheduled time.

### Fairness

`FairSpec` assumes what `runPublisher` gives: a tick at boot and every minute
(weak fairness of `TickList`), a tick that works through its list or returns on
an error (weak fairness of `TickPublish \/ TickAbort`), and a clock that
advances. No request is fair: a client may never come, or hang. Faults are
bounded by `MaxFaults`, so a database that fails for ever is excluded.

`Playground` assumes that the goroutine of a stream runs on, that each call of
the provider ends (every call has a timeout; in the model it may also fail at any
moment), that each write ends, and that the keepalive goroutine runs. The server
sets no write timeout, so a client that stays connected and reads nothing can hold
a write, and with it the stream, as long as it likes: `StreamsEnd` is about clients
that read or leave. Neither the deadline of the whole
stream nor a disconnect is fair: the round limit alone ends the agent. `Login`
has no liveness property.

## 5. Proofs

`PublishingProofs` proves, for all sets of articles, workers, slugs and contents
and all bounds (assumptions `ArticlesAssumption`, `PublishingAssumption`):

* `Inductive`: `Spec => []IInv`;
* `TypeCorrect`, `LifecycleCorrect`: its conjuncts `TypeOK` and `Lifecycle`;
* `IdentityCorrect`: `Spec => IdentityKept`.

That slugs are unique (`SlugsUnique`) is only a lemma for the next module: it restates
PostgreSQL's unique index.

`Lifecycle` is not inductive: a request writes a row it computed long ago. `IInv`
adds that what is in flight is good (`InFlightOK` for requests, `DueOK` for the
tick's list): a consistent row, for an id that was given out, of the type the
article has. Consistency is monotone in time (`ConsistentLater`), each function of
`Articles` yields a consistent row (`StampConsistent` and the lemmas after it), so
a stale row is still a consistent row. Steps are grouped by what they do to the
table: none (`NoRowStep`), a row stored (`StoreStep`), a row erased
(`EraseStep`), time (`ClockStep`). `TableStep` sums up what a step does to the
table; identity follows from it. A call whose reply is lost does to the table what
the call does.

`PublishingHistoryProofs` proves what holds when one operation runs at a time
(hypothesis `Overlap = FALSE`, as in `Serial`), or for careful clients:

* `VisibilityCorrect`, `PatchCorrect`, `TickCorrect`, `PublishedAtCorrect`: the
  action properties of `Serial`, from `SerialInv`: at most one request or tick is
  busy, and what it holds is what its stage makes of the *current* row
  (`FromCurrent`), with any faults and crashes.
* `FilesKept`: under any overlap, faults and crashes, `FreshSpec` together with
  `EditsKeepSlugs` (the form does not rename uploaded pages) implies
  `[]PagesHaveFiles`. `PagesInv` says which slug and folder each request works
  on (`RequestsOK`), that no two work on the same one, and how far an upload is
  (`Progress`). No reply may be lost (`LostReplies = FALSE`, here and in the next two).
  `FilesKeptWithoutUpdate` is the case of the run `CrashSafe`.
* `FilesMatch`: one at a time, fresh slugs, any failing calls but no crash, implies
  `[]FilesMatchRows`. `FilesInv` exempts the folders that the running request is
  in the middle of changing (`Touches`) and says in which state they are (`Doing`).
  `FilesMatchWithoutFaults` is the case of the run `Serial`.
* `OldUrlsCorrect`: one at a time, fresh slugs, no redirects made by hand, no fault
  between a row and its redirect (`RedirectsSaved`), and finitely many slugs imply
  `[]OldUrlsWork`. `UrlInv` gives every old slug a rank that its redirect lowers,
  and the same owner at both ends; after a rename every other slug the article has
  left is one hop further away (`UrlRedirected`). The slugs of an article with a
  lower rank (`Nearer`) are fewer with each redirect, and no more than there are
  slugs, which is what `Follow` allows for (`WayEnds`, by induction over the hops).
  `OldUrlsWithoutFaults` is the case of `Serial`.

The hypotheses are not vacuous: `Serial` and `CrashSafe` are instances of them, and
each is needed (section 4 says what goes wrong without it).

`LoginProofs` proves, from `LoginAssumption` (a failure waits for the mutex for
less than a window, a window is no longer than a lockout):

* `LockBoundedCorrect`, from `LimiterInv`: what a submit remembers as now is at
  most `MaxWait` old, and no lock is longer than `Lockout` from now;
* `LockHeldCorrect`, from `PromiseInv`: `lockedUntil` is never more than `MaxWait`
  before `promised`, in whatever order failures are recorded;
* `SessionCorrect`: if no name has a dot, `Spec => []SessionWorks`, from
  `SessionInv` (a cookie is the token of the last login) and `TokenVerifies`;
* `TypeCorrect`, from `StateInv`;
* `GuessesCorrect`: `Spec => []GuessesBounded`, from `GuessInv`. For an address and
  a window there are two ways to stay below the bound, until the window is over:
  either all its guesses are among the failures the limiter has recorded (fewer
  than `MaxAttempts`) and those not recorded yet (`Counted`), or a lock that
  outlasts the window has fallen, and only submits already past the check can
  guess again (`ShutOut`). A recorded failure that lies in the window is not
  dropped, because the window's end is less than `Window` before any failure that
  is recorded before it is over (`FilterCounts`, by induction over the loop); the
  lock outlasts the window because a failure is at most `MaxWait` old
  (`LockFalls`). Each action has a lemma.

`AILimitProofs` proves `RateCorrect` and `RefusalCorrect` from `LimitInv`: a time is
forgotten only once it is a whole window older than the clock. A call carries a
time at most `MaxWait` old, so the times near it are still there when it is decided
(`MaxWait < Window` is not assumed: a shorter window makes the bound empty).
`PlaygroundProofs` carries both over to the playground (`RateKept`, `RefusalKept`).

`ReaderProofs` proves, from `ReaderAssumption` (any articles, slugs, passwords,
matches; dates of the years the archive has pages of), `Inductive` and `TypeCorrect`
for IInv = `TypeOK`, slugs are unique, `JarTrue` (a token expires its lifetime after
the password was given, that of an id not given out does not exist) and `FilesKept`
(an upload that is not astray has its own files in the folder of its slug), and
from it `ShownCorrect`: `Spec => []ShownExactly`. Slugs must be unique for a URL to
show one article and no other; an id is never given
out again, so a cookie cannot show an article that was created later. `GateAllows`
turns `Decide` and the cookies into `MayRead`; `SiteShowsNothing` goes through the
routes of the site; `ReadersSee` and `OnlyReadersSee` are the two directions. From
the same invariant, and the lemma that a listing has each article that passes its
filter once and in order (`SortedOnce`):

* `ArchiveCorrect`: `Spec => []ArchiveComplete`. The page of a month lists the
  articles of that date (`MonthLists`), the page of a year those of its months, and
  the index counts the same set.
* `PagesCorrect`: `Spec => []PagesPartition`, for any size of a page. The walk along
  the next links is `1..LastPage` (`WalkIsAll`, the division of `PagesNeeded`);
  by induction over them, the pages put one after the other are the listing up to
  where the last one ends (`PagesConcatenate`, `PageEnds`).
* `RedirectsCorrect`: finitely many slugs imply `Spec => []RedirectsSettle`. Behind
  it is `NoCircleInductive`: slugs have ranks that every redirect lowers, except from
  or to a slug in use, and except behind a deserted slug (`Deserted`); the slug a
  rename leaves gets the lowest, as it leads to one in use. The slugs on the way from
  a slug are fewer with each hop (`DistanceFalls`), so the hops that `Follow` allows
  are enough.
* `LinksCorrect`: finitely many slugs, none of which the search takes for another
  (`Matches[s] = {s}`), imply `Spec => []LinksLead`. Each view of the site has
  only links that lead where they say, or to an upload that is astray (`AllGood`, a
  lemma for each), because what a page links is listed by the same rule that opens
  it. Without the second hypothesis a backlink may come from elsewhere: that is the
  run `Wildcard`.

`PgStoreProofs` proves, from `PgStoreAssumption` (the form writes every key, tag
lists are sequences of tags, no sentinel is a tag), with two invariants:

* `Inductive`, `SettingsCorrect`, `OneAdminCorrect` from `IInv`: a running save has
  written the keys that are no longer left (`SavedSoFar`; the keys of the form may
  even repeat), and a server is up only when the admin is there
  (`AdminBeforeServers`);
* `StoreInductive`, `TypeCorrect`, `RenameCorrect` from `StoreInv`: ids come from
  the sequence in the order of creation, slugs are unique, and while a rename runs
  each row is the one it listed, rewritten if it is no longer left (`Renaming`).
  `Rewritten`, by induction over the loop of `rewriteTags`, says which tags the
  result has and that none is there twice; `SortedOnce` that the list holds each
  article once;
* `PromiseKept`: `Spec => KeepsPromise`, with both answers to the deletion of what is
  gone. Under ranks, what `Repository` keeps is a
  function of the tables (`Views`); a created article gets the next rank, a deleted
  one takes only its own away, ids that failed INSERTs used up are in no rank. Each
  action is a step of `Repository` (one lemma each: an INSERT refused by its index
  is `Refused`, the last statement of a rename is the whole `RenameTag`, a rename
  that ends early `RenameFails`) or a stutter (the statements before it);
* `ReadsCorrect`: `Spec => []ReadsAgree`, from `StoreInv`. The two stores find the
  same articles under ranks (`FoundSeen`), and ranks keep the order (`OrderSeen`). A
  finite set has one list in an order (`OneOrder`: the place of an element tells how
  many stand before it), so the list `Repository` chooses is the one `PgStore`
  builds (`ListSeen`). LIMIT and OFFSET cut both alike (`SamePage`; `OffsetFits` is
  where 32 bits are enough), and a tag count is a count of pairs of an article and a
  place in its list, whatever the articles are numbered by (`SameCounts`).

`PlaygroundProofs` proves, from `PlaygroundAssumption`, `Inductive`, `TypeCorrect`
and `ConversationCorrect`. `ConversationOK` speaks of the moment a conversation is
sent; its invariant `Owes` speaks of every moment between: the last assistant
message still waits for as many tool messages as calls are left (`OwesAll` when an
answer arrives, `OwesLess` for each result). Every stream is good by itself, so a
step is a new good state of one stream (`BecomeKeeps`). `TranscriptCorrect` and
`ReportsCorrect` are about the frames a stream took, heartbeats apart, and so about
what a client has of them (`ReceivedTold`: a first part of a well-told stream is well
told). `ToldInv` says for each position of the writer function which kinds may
have come so far, which kind came last, and how many calls and results were told
against how many tools ran; the stream's own heartbeats disturb none of it
(`Heartbeat`), and one of another stream only where it came in (`foreign`).

Only model-checked: `ScheduleHonoured` and `StreamsEnd` (liveness). Every
other property that a passing run checks is the conclusion of a theorem.

## 6. Not modelled

* Password hashing, the HTML of Markdown, XML and JSON of the feeds, OG images:
  pure functions or external libraries, without a state or a choice that a
  property depends on.
* Media: content-addressed files, written once and never changed.
* The admin's pages (`views/admin`): forms and tables over what `Publishing` and
  `PgStore` model; their generated templates are a large part of the source.
* The AI helpers behind the limiter: one call of the provider and a suggestion.
* `resetadmin`: one UPDATE, typed by the operator. Configuration is read once.
* Decoding of MCP arguments and of the provider's output; time zones.
* Overlap of a tag rename with edits (it writes full rows, as `LostPatch` shows for
  another writer) and of a GET with writes between its statements.

PostgreSQL is modelled as atomic statements (READ COMMITTED, one
statement per call, as the code uses it).
