----------------------------- MODULE Publishing -----------------------------
(***************************************************************************)
(* The article store and everything that writes it: the admin handlers     *)
(* (create, update, delete, upload, redirects), the MCP tools and the      *)
(* scheduler, each running its database calls and file operations one at a *)
(* time, interleaved with all the others.                                  *)
(*                                                                         *)
(* A request is a worker that reads a row, computes the row to write and   *)
(* writes it back whole: UPDATE has no version check, so what a worker     *)
(* read may be stale when it writes.  Each action below ends where the     *)
(* code next touches the database or the file system.                      *)
(***************************************************************************)
EXTENDS Articles

CONSTANTS
    Ids,        \* article ids (BIGSERIAL: an id is given out once)
    NoId,       \* the id of a row not yet inserted
    NoRow,      \* rows[id] while id has not been given out
    Deleted,    \* rows[id] after the article was deleted
    Handlers,   \* concurrent admin HTTP requests of the server process
    McpCalls,   \* concurrent tool calls of the `wikibuild mcp' process
    Ops,        \* the operations the clients of this instance use
    Overlap,    \* may a request start while others, or a tick, are running?
    LostReplies,\* may a call fail for the server after the database did it?
    MaxFaults   \* bound: crashes and failed database calls

AllOps == {"create", "update", "delete", "upload", "redirect", "tick",
           "mcpCreate", "mcpUpdate", "setStatus", "setVisibility"}

Workers == Handlers \cup McpCalls

ASSUME PublishingAssumption ==
    /\ NoId \notin Ids
    /\ Handlers \cap McpCalls = {}
    /\ NoRow \notin Row /\ Deleted \notin Row /\ NoRow # Deleted
    /\ Ops \subseteq AllOps
    /\ Overlap \in BOOLEAN /\ LostReplies \in BOOLEAN
    /\ MaxFaults \in Nat

VARIABLES
    rows,       \* the articles table
    redirects,  \* the redirects table: from_path -> to_path
    dirs,       \* contentDir/<slug>, the files of an uploaded page
    req,        \* what each request in flight still has to do
    due,        \* the rest of the list the running Tick read
    clock,      \* wall clock
    faults      \* faults so far

vars == <<rows, redirects, dirs, req, due, clock, faults>>

-----------------------------------------------------------------------------
(* Types *)

\* The next step of a request; "idle" when there is no request.
Stages == {"idle", "update", "redirect", "move", "delete", "remove",
           "extract", "insert", "rollback", "patch", "status", "visibility"}

DirState == {"absent", "partial", "full"}

Request == [stage : Stages, id : Ids \cup {NoId}, oldSlug : AnySlug,
            new : Row \cup {NoRow}]

Idle == [stage |-> "idle", id |-> NoId, oldSlug |-> NoSlug, new |-> NoRow]

TypeOK ==
    /\ rows \in [Ids -> Row \cup {NoRow, Deleted}]
    /\ redirects \in [Slugs -> AnySlug]
    /\ dirs \in [Slugs -> DirState]
    /\ req \in [Workers -> Request]
    /\ due \subseteq [id : Ids, row : Row]
    /\ clock \in 1..MaxTime
    /\ faults \in 0..MaxFaults

Init ==
    /\ rows = [id \in Ids |-> NoRow]
    /\ redirects = [s \in Slugs |-> NoSlug]
    /\ dirs = [s \in Slugs |-> "absent"]
    /\ req = [w \in Workers |-> Idle]
    /\ due = {}
    /\ clock = 1
    /\ faults = 0

-----------------------------------------------------------------------------
(* The store: internal/store, one statement each *)

Exists(id) == rows[id] \notin {NoRow, Deleted}

\* The UNIQUE constraint on articles.slug, for a row written under id.
SlugFree(slug, id) ==
    \A other \in Ids \ {id} : Exists(other) => rows[other].slug # slug

\* CreateArticle fails with ErrEmptySlug or ErrDuplicateSlug when not.
CanInsert(id, a) ==
    /\ rows[id] = NoRow
    /\ a.slug # NoSlug
    /\ SlugFree(a.slug, id)

\* Mutant: an upsert instead of UPDATE .. WHERE id.
CanOverwrite_Upsert(id, a) == rows[id] # NoRow /\ SlugFree(a.slug, id)

\* UpdateArticle fails with ErrNotFound or ErrDuplicateSlug when not.
CanOverwrite(id, a) == Exists(id) /\ SlugFree(a.slug, id)

\* UpdateArticle and the insert of CreateArticle replace the whole row.
Store(id, a) == rows' = [rows EXCEPT ![id] = a]

\* ListDueScheduled.
DueRows == {[id |-> id, row |-> rows[id]] :
              id \in {i \in Ids : Exists(i) /\ DueAt(rows[i], clock)}}

\* DeleteArticle: no error if the row is already gone.
Erase(id) == rows' = [rows EXCEPT ![id] = Deleted]

-----------------------------------------------------------------------------
(* Requests *)

Busy(w) == req[w] # Idle

\* A client may start a request; with ~Overlap one thing runs at a time.
MayStart == Overlap \/ (due = {} /\ \A w \in Workers : ~Busy(w))

Begin(w, stage, id, oldSlug, new) ==
    /\ MayStart
    /\ ~Busy(w)
    /\ req' = [req EXCEPT ![w] = [stage |-> stage, id |-> id,
                                  oldSlug |-> oldSlug, new |-> new]]

At(w, stage) == req[w].stage = stage

Continue(w, stage) == req' = [req EXCEPT ![w].stage = stage]

Finish(w) == req' = [req EXCEPT ![w] = Idle]

-----------------------------------------------------------------------------
(* handler/article.go: ArticleAdmin *)

\* Create: one INSERT of the row computed from the form.
Create ==
    /\ "create" \in Ops
    /\ MayStart
    /\ \E id \in Ids, f \in Form :
         LET a == FormCreated(f, clock) IN
         CanInsert(id, a) /\ Store(id, a)
    /\ UNCHANGED <<redirects, dirs, req, due, clock, faults>>

\* Update, first half: read the row and compute the one to write.
UpdateRead(w) ==
    /\ "update" \in Ops
    /\ \E id \in Ids, f \in Form :
         /\ Exists(id)
         /\ Begin(w, "update", id, rows[id].slug,
                  FormUpdated(rows[id], f, clock))
    /\ UNCHANGED <<rows, redirects, dirs, due, clock, faults>>

\* Update, second half: overwrite the row; a changed slug leaves more to do.
UpdateWrite(w) ==
    /\ At(w, "update")
    /\ CanOverwrite(req[w].id, req[w].new)
    /\ Store(req[w].id, req[w].new)
    /\ IF req[w].oldSlug # req[w].new.slug
       THEN Continue(w, "redirect") ELSE Finish(w)
    /\ UNCHANGED <<redirects, dirs, due, clock, faults>>

AfterRedirect(w) ==
    IF req[w].new.type = "html_upload" THEN Continue(w, "move") ELSE Finish(w)

\* Mutant: from_path and to_path swapped.
UpdateRedirect_Swapped(w) ==
    /\ At(w, "redirect")
    /\ redirects' = IF req[w].oldSlug # NoSlug /\ req[w].new.slug # NoSlug
                    THEN [redirects EXCEPT ![req[w].new.slug] = req[w].oldSlug]
                    ELSE redirects
    /\ AfterRedirect(w)
    /\ UNCHANGED <<rows, dirs, due, clock, faults>>

\* Update: upsert the redirect old -> new; an empty path is refused and the
\* error ignored.
UpdateRedirect(w) ==
    /\ At(w, "redirect")
    /\ redirects' = IF req[w].oldSlug # NoSlug /\ req[w].new.slug # NoSlug
                    THEN [redirects EXCEPT ![req[w].oldSlug] = req[w].new.slug]
                    ELSE redirects
    /\ AfterRedirect(w)
    /\ UNCHANGED <<rows, dirs, due, clock, faults>>

\* Mutant: the upload folder stays under the old slug.
UpdateMove_Forgotten(w) ==
    At(w, "move") /\ Finish(w)
    /\ UNCHANGED <<rows, redirects, dirs, due, clock, faults>>

\* Update: os.Rename of the upload folder, its error ignored.  It fails when
\* the old folder is missing or anything is at the new path; the empty slug
\* names contentDir itself.
UpdateMove(w) ==
    /\ At(w, "move")
    /\ LET old == req[w].oldSlug
           new == req[w].new.slug
           moves == /\ NoSlug \notin {old, new}
                    /\ dirs[old] # "absent"
                    /\ dirs[new] = "absent"
       IN dirs' = IF moves
                  THEN [dirs EXCEPT ![old] = "absent", ![new] = dirs[old]]
                  ELSE dirs
    /\ Finish(w)
    /\ UNCHANGED <<rows, redirects, due, clock, faults>>

\* Mutant: the files go before the row does.
DeleteRead_FilesFirst(w) ==
    /\ "delete" \in Ops
    /\ \E id \in Ids :
         /\ Exists(id)
         /\ Begin(w, "delete", id, rows[id].slug, rows[id])
         /\ dirs' = [s \in Slugs |-> IF s = rows[id].slug THEN "absent"
                                     ELSE dirs[s]]
    /\ UNCHANGED <<rows, redirects, due, clock, faults>>

\* Delete reads the row to know its type and slug.
DeleteRead(w) ==
    /\ "delete" \in Ops
    /\ \E id \in Ids :
         /\ Exists(id)
         /\ Begin(w, "delete", id, rows[id].slug, rows[id])
    /\ UNCHANGED <<rows, redirects, dirs, due, clock, faults>>

DeleteWrite(w) ==
    /\ At(w, "delete")
    /\ Erase(req[w].id)
    /\ IF req[w].new.type = "html_upload" /\ req[w].oldSlug # NoSlug
       THEN Continue(w, "remove") ELSE Finish(w)
    /\ UNCHANGED <<redirects, dirs, due, clock, faults>>

\* Delete: os.RemoveAll of the folder of the slug that was read.
DeleteRemove(w) ==
    /\ At(w, "remove")
    /\ dirs' = [dirs EXCEPT ![req[w].oldSlug] = "absent"]
    /\ Finish(w)
    /\ UNCHANGED <<rows, redirects, due, clock, faults>>

-----------------------------------------------------------------------------
(* handler/upload.go: Upload.Submit *)

\* RemoveAll and MkdirAll of the target, before anything is known of the row.
UploadClear(w) ==
    /\ "upload" \in Ops
    /\ \E f \in Form :
         /\ f.slug # NoSlug
         /\ Begin(w, "extract", NoId, f.slug, Uploaded(f))
         /\ dirs' = [dirs EXCEPT ![f.slug] = "partial"]
    /\ UNCHANGED <<rows, redirects, due, clock, faults>>

\* The files are written; a folder another request removed is recreated.
UploadExtract(w) ==
    /\ At(w, "extract")
    /\ dirs' = [dirs EXCEPT ![req[w].oldSlug] = "full"]
    /\ Continue(w, "insert")
    /\ UNCHANGED <<rows, redirects, due, clock, faults>>

\* A bad archive or extension, no HTML entry, a write error: 400 or 500.
UploadReject(w) ==
    /\ At(w, "extract")
    /\ dirs' = [dirs EXCEPT ![req[w].oldSlug] = "absent"]
    /\ Finish(w)
    /\ UNCHANGED <<rows, redirects, due, clock, faults>>

UploadInsert(w) ==
    /\ At(w, "insert")
    /\ \E id \in Ids : CanInsert(id, req[w].new) /\ Store(id, req[w].new)
    /\ Finish(w)
    /\ UNCHANGED <<redirects, dirs, due, clock, faults>>

\* ErrDuplicateSlug: the extraction has to be rolled back.
UploadDuplicate(w) ==
    /\ At(w, "insert")
    /\ ~SlugFree(req[w].new.slug, NoId)
    /\ Continue(w, "rollback")
    /\ UNCHANGED <<rows, redirects, dirs, due, clock, faults>>

UploadRollback(w) ==
    /\ At(w, "rollback")
    /\ dirs' = [dirs EXCEPT ![req[w].oldSlug] = "absent"]
    /\ Finish(w)
    /\ UNCHANGED <<rows, redirects, due, clock, faults>>

-----------------------------------------------------------------------------
(* handler/redirects.go: Redirects *)

RedirectCreate ==
    /\ "redirect" \in Ops
    /\ MayStart
    /\ \E from, to \in Slugs : redirects' = [redirects EXCEPT ![from] = to]
    /\ UNCHANGED <<rows, dirs, req, due, clock, faults>>

RedirectDelete ==
    /\ "redirect" \in Ops
    /\ MayStart
    /\ \E from \in Slugs :
         /\ redirects[from] # NoSlug
         /\ redirects' = [redirects EXCEPT ![from] = NoSlug]
    /\ UNCHANGED <<rows, dirs, req, due, clock, faults>>

-----------------------------------------------------------------------------
(* mcp/tools.go: Tools *)

McpCreate ==
    /\ "mcpCreate" \in Ops
    /\ MayStart
    /\ \E id \in Ids, f \in Form :
         LET a == McpCreated(f, clock) IN
         CanInsert(id, a) /\ Store(id, a)
    /\ UNCHANGED <<redirects, dirs, req, due, clock, faults>>

McpUpdateRead(w) ==
    /\ "mcpUpdate" \in Ops
    /\ \E id \in Ids, slug \in AnySlug, body \in Bodies :
         /\ Exists(id)
         /\ Begin(w, "patch", id, rows[id].slug,
                  McpPatched(rows[id], slug, body))
    /\ UNCHANGED <<rows, redirects, dirs, due, clock, faults>>

SetStatusRead(w) ==
    /\ "setStatus" \in Ops
    /\ \E id \in Ids, status \in Statuses, at \in Time :
         /\ Exists(id)
         /\ Begin(w, "status", id, rows[id].slug,
                  McpStatusSet(rows[id], status, at, clock))
    /\ UNCHANGED <<rows, redirects, dirs, due, clock, faults>>

SetVisibilityRead(w) ==
    /\ "setVisibility" \in Ops
    /\ \E id \in Ids, v \in Visibilities :
         /\ Exists(id)
         /\ Begin(w, "visibility", id, rows[id].slug,
                  McpVisibilitySet(rows[id], v))
    /\ UNCHANGED <<rows, redirects, dirs, due, clock, faults>>

\* Every MCP write ends in UpdateArticle and does nothing after it.
McpWrite(w) ==
    /\ req[w].stage \in {"patch", "status", "visibility"}
    /\ CanOverwrite(req[w].id, req[w].new)
    /\ Store(req[w].id, req[w].new)
    /\ Finish(w)
    /\ UNCHANGED <<redirects, dirs, due, clock, faults>>

-----------------------------------------------------------------------------
(* A write the store refuses, a database call that fails, a crash *)

\* UpdateArticle answers ErrNotFound or ErrDuplicateSlug: the request ends.
WriteRefused(w) ==
    /\ req[w].stage \in {"update", "patch", "status", "visibility"}
    /\ ~CanOverwrite(req[w].id, req[w].new)
    /\ Finish(w)
    /\ UNCHANGED <<rows, redirects, dirs, due, clock, faults>>

Fault == faults < MaxFaults /\ faults' = faults + 1

\* A database call fails and has done nothing: the request ends, except that an
\* upload rolls back and Update ignores the error of CreateRedirect.
CallFails(w) ==
    /\ Fault
    /\ \/ /\ req[w].stage \in {"update", "delete", "patch", "status",
                               "visibility"}
          /\ Finish(w)
       \/ At(w, "insert") /\ Continue(w, "rollback")
       \/ At(w, "redirect") /\ AfterRedirect(w)
    /\ UNCHANGED <<rows, redirects, dirs, due, clock>>

\* The database has done what it was asked, but the connection breaks before it
\* says so: the request ends as if it had failed.  (An INSERT of Create, or the
\* upsert of a redirect whose error is ignored, is the same step either way.)
ReplyLost(w) ==
    /\ LostReplies
    /\ Fault
    /\ \/ /\ req[w].stage \in {"update", "patch", "status", "visibility"}
          /\ CanOverwrite(req[w].id, req[w].new)
          /\ Store(req[w].id, req[w].new)
          /\ Finish(w)
       \/ At(w, "delete") /\ Erase(req[w].id) /\ Finish(w)
       \/ /\ At(w, "insert")
          /\ \E id \in Ids : CanInsert(id, req[w].new) /\ Store(id, req[w].new)
          /\ Continue(w, "rollback")
    /\ UNCHANGED <<redirects, dirs, due, clock>>

\* The server process ends at any moment, without the grace that run gives open
\* requests on SIGTERM: its requests and its tick are forgotten.
Crash ==
    /\ Fault
    /\ due # {} \/ \E w \in Handlers : Busy(w)
    /\ req' = [w \in Workers |-> IF w \in Handlers THEN Idle ELSE req[w]]
    /\ due' = {}
    /\ UNCHANGED <<rows, redirects, dirs, clock>>

-----------------------------------------------------------------------------
(* scheduler/scheduler.go: Publisher.Tick, called at boot and every minute *)

TickList ==
    /\ "tick" \in Ops
    /\ MayStart
    /\ due = {}
    /\ DueRows # {}
    /\ due' = DueRows
    /\ UNCHANGED <<rows, redirects, dirs, req, clock, faults>>

\* The list is ordered by publish_at.
Earliest(d) == \A e \in due : d.row.publishAt <= e.row.publishAt

TickPublish ==
    \E d \in due :
      /\ Earliest(d)
      /\ CanOverwrite(d.id, Launched(d.row))
      /\ Store(d.id, Launched(d.row))
      /\ due' = due \ {d}
      /\ UNCHANGED <<redirects, dirs, req, clock, faults>>

\* An error ends the tick; what is left of the list waits for the next one.
TickAbort ==
    /\ \E d \in due :
         /\ Earliest(d)
         /\ \/ ~CanOverwrite(d.id, Launched(d.row)) /\ UNCHANGED faults
            \/ Fault
    /\ due' = {}
    /\ UNCHANGED <<rows, redirects, dirs, req, clock>>

\* The UPDATE is done and its reply is lost: the tick ends.
TickReplyLost ==
    /\ LostReplies
    /\ Fault
    /\ \E d \in due :
         /\ Earliest(d)
         /\ CanOverwrite(d.id, Launched(d.row))
         /\ Store(d.id, Launched(d.row))
    /\ due' = {}
    /\ UNCHANGED <<redirects, dirs, req, clock>>

ClockTick ==
    /\ clock < MaxTime
    /\ clock' = clock + 1
    /\ UNCHANGED <<rows, redirects, dirs, req, due, faults>>

-----------------------------------------------------------------------------

HandlerStep(w) ==
    \/ UpdateRead(w) \/ UpdateWrite(w) \/ UpdateRedirect(w) \/ UpdateMove(w)
    \/ DeleteRead(w) \/ DeleteWrite(w) \/ DeleteRemove(w)
    \/ UploadClear(w) \/ UploadExtract(w) \/ UploadReject(w)
    \/ UploadInsert(w) \/ UploadDuplicate(w) \/ UploadRollback(w)

McpStep(w) ==
    \/ McpUpdateRead(w) \/ SetStatusRead(w) \/ SetVisibilityRead(w)
    \/ McpWrite(w)

Next ==
    \/ Create \/ McpCreate \/ RedirectCreate \/ RedirectDelete
    \/ \E w \in Handlers : HandlerStep(w)
    \/ \E w \in McpCalls : McpStep(w)
    \/ \E w \in Workers : WriteRefused(w) \/ CallFails(w) \/ ReplyLost(w)
    \/ TickList \/ TickPublish \/ TickAbort \/ TickReplyLost
    \/ Crash
    \/ ClockTick

Spec == Init /\ [][Next]_vars

\* The ticker fires every minute for as long as the process lives and a tick
\* works through its list; the wall clock advances.  No request is fair.
FairSpec ==
    /\ Spec
    /\ WF_vars(TickList)
    /\ WF_vars(TickPublish \/ TickAbort)
    /\ WF_vars(ClockTick)

-----------------------------------------------------------------------------
(* What holds however requests and ticks interleave *)

\* Every stored row is consistent, although whole stale rows are written back
\* (stampPublishedAt, Publisher.Tick).
Lifecycle == \A id \in Ids : Exists(id) => Consistent(rows[id], clock)

\* What a request in flight holds: a consistent row to write, under the id of a
\* row that was there and has not changed its type (an upload has no id yet).
InFlightOK(q) ==
    /\ q.new \in Row
    /\ Consistent(q.new, clock)
    /\ q.stage \notin {"extract", "insert", "rollback"} =>
         /\ q.id \in Ids
         /\ rows[q.id] # NoRow
         /\ Exists(q.id) => rows[q.id].type = q.new.type

\* What a tick holds: drafts that were due when it listed them.
DueOK(d) ==
    /\ Consistent(d.row, clock)
    /\ d.row.publishAt \in 1..clock
    /\ rows[d.id] # NoRow
    /\ Exists(d.id) => rows[d.id].type = d.row.type

\* The inductive invariant behind Lifecycle and IdentityKept: whole rows are
\* written back later, so the rows in flight must be as good as the stored ones.
IInv ==
    /\ TypeOK
    /\ Lifecycle
    /\ \A w \in Workers : Busy(w) => InFlightOK(req[w])
    /\ \A d \in due : DueOK(d)

\* A request or tick that still holds a row of a deleted article does not bring
\* the article back, and no write turns a page of files into a markdown page or
\* back (UpdateArticle is an UPDATE .. WHERE id, and copies the type it read).
IdentityKept ==
    [][\A id \in Ids :
         /\ rows[id] = Deleted => rows'[id] = Deleted
         /\ Exists(id) /\ rows'[id] # Deleted =>
              Exists(id)' /\ rows'[id].type = rows[id].type]_vars

Scheduled(id) ==
    Exists(id) /\ rows[id].status = "draft" /\ rows[id].publishAt # Nil

\* A scheduled draft does not stay one for ever: the ticker publishes it once
\* its time has come, after errors, aborted ticks and restarts too, unless
\* someone withdraws it first (runPublisher, Publisher.Tick).
ScheduleHonoured == \A id \in Ids : Scheduled(id) ~> ~Scheduled(id)

-----------------------------------------------------------------------------
(* What holds when nothing overlaps, and is lost when requests interleave *)

\* The write of an MCP call in the given stage, and the row it changes.
McpWrites(w, stage) == At(w, stage) /\ ~Busy(w)' /\ rows' # rows

\* set_article_visibility changes the visibility and no other column.
VisibilityOnly ==
    [][\A w \in McpCalls : McpWrites(w, "visibility") =>
         LET id == req[w].id IN
         rows'[id] = [rows[id] EXCEPT !.visibility = rows'[id].visibility]]_vars

\* update_article leaves the columns a patch cannot name as they are.
PatchKeepsOmitted ==
    [][\A w \in McpCalls : McpWrites(w, "patch") =>
         LET id == req[w].id IN
         rows'[id] = [rows[id] EXCEPT !.slug = rows'[id].slug,
                                      !.body = rows'[id].body]]_vars

\* What Tick overwrites is, at that moment, a draft whose time has come, and it
\* goes live with the scheduled time and every other column as it was.
TickPublishesDue ==
    [][\A d \in due \ due' : rows'[d.id] # rows[d.id] =>
         LET now == rows[d.id] IN
         /\ Exists(d.id)
         /\ now.status = "draft" /\ now.publishAt \in 1..clock
         /\ rows'[d.id] = [now EXCEPT !.status = "published",
                                      !.publishedAt = now.publishAt,
                                      !.publishAt = Nil]]_vars

\* An article that stays published keeps the moment it first went live.
PublishedAtKept ==
    [][\A id \in Ids :
         /\ Exists(id) /\ rows[id].publishedAt # Nil
         /\ Exists(id)' /\ rows'[id].status = "published"
         => rows'[id].publishedAt = rows[id].publishedAt]_vars

-----------------------------------------------------------------------------
(* Claims of the code's comments *)

\* Once nothing runs, a folder is there exactly for each uploaded page.
FilesMatchRows ==
    (\A w \in Workers : ~Busy(w)) =>
      \A s \in Slugs :
        LET page == \E id \in Ids : /\ Exists(id)
                                    /\ rows[id].type = "html_upload"
                                    /\ rows[id].slug = s
        IN dirs[s] = IF page THEN "full" ELSE "absent"
=============================================================================
