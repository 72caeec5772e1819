------------------------------ MODULE Articles ------------------------------
(***************************************************************************)
(* The article row (model.Article) and the pure functions that compute the *)
(* next row from a stored one: the admin forms (handler/article.go,        *)
(* handler/upload.go), the MCP tools (mcp/tools.go) and the scheduler      *)
(* (scheduler/scheduler.go).  Nothing here has state; Publishing.tla runs  *)
(* these functions between a SELECT and an UPDATE.                         *)
(*                                                                         *)
(* `body' stands for every column a form or a patch sets and no rule       *)
(* reads (title, body, tags, SEO fields, flags, preview token).            *)
(***************************************************************************)
EXTENDS Naturals

CONSTANTS
    Slugs,          \* the non-empty slugs in play
    NoSlug,         \* the empty slug ""
    Bodies,         \* contents a client can submit
    Visibilities,   \* "public" | "protected" | "private"
    MaxTime         \* bound: the last instant of the wall clock

ASSUME ArticlesAssumption ==
    /\ NoSlug \notin Slugs
    /\ MaxTime \in Nat \ {0}

Nil     == 0                       \* a nil *time.Time
Time    == 0..MaxTime
Statuses == {"draft", "published"}
Types    == {"markdown", "html_upload"}
AnySlug  == Slugs \cup {NoSlug}

Row == [slug : AnySlug, type : Types, status : Statuses,
        visibility : Visibilities, body : Bodies,
        publishedAt : Time, publishAt : Time]

\* What a client submits: an admin form, an upload form or an MCP create call.
Form == [slug : AnySlug, status : Statuses, visibility : Visibilities,
         body : Bodies, publishAt : Time]

-----------------------------------------------------------------------------
(* handler/article.go *)

\* Mutants: the schedule survives publication; each save stamps anew.
StampPublishedAt_KeepsSchedule(a, existing, now) ==
    IF a.status # "published" THEN [a EXCEPT !.publishedAt = Nil]
    ELSE [a EXCEPT !.publishedAt = IF existing # Nil THEN existing ELSE now]
StampPublishedAt_AlwaysNow(a, existing, now) ==
    IF a.status # "published" THEN [a EXCEPT !.publishedAt = Nil]
    ELSE [a EXCEPT !.publishAt = Nil, !.publishedAt = now]

\* stampPublishedAt: a draft has no PublishedAt and keeps its schedule; a
\* published article has no schedule and keeps its first PublishedAt.
StampPublishedAt(a, existing, now) ==
    IF a.status # "published"
    THEN [a EXCEPT !.publishedAt = Nil]
    ELSE [a EXCEPT !.publishAt = Nil,
                   !.publishedAt = IF existing # Nil THEN existing ELSE now]

\* articleFromForm: a markdown row with every column taken from the form.
ArticleFromForm(f) ==
    [slug |-> f.slug, type |-> "markdown", status |-> f.status,
     visibility |-> f.visibility, body |-> f.body,
     publishedAt |-> Nil, publishAt |-> f.publishAt]

\* htmlUploadFromForm: the metadata only; Body and PublishAt stay.
HtmlUploadFromForm(existing, f) ==
    [existing EXCEPT !.slug = f.slug, !.status = f.status,
                     !.visibility = f.visibility]

\* The row ArticleAdmin.Create inserts.
FormCreated(f, now) ==
    StampPublishedAt(ArticleFromForm(f), Nil, now)

\* Mutant: an uploaded page is not stamped.
FormUpdated_PageUnstamped(existing, f, now) ==
    IF existing.type = "html_upload" THEN HtmlUploadFromForm(existing, f)
    ELSE StampPublishedAt(ArticleFromForm(f), existing.publishedAt, now)

\* The row ArticleAdmin.Update writes over the one it read.
FormUpdated(existing, f, now) ==
    IF existing.type = "html_upload"
    THEN StampPublishedAt(HtmlUploadFromForm(existing, f),
                          existing.publishedAt, now)
    ELSE StampPublishedAt(ArticleFromForm(f), existing.publishedAt, now)

\* The row Upload.Submit inserts: not stamped.
Uploaded(f) ==
    [slug |-> f.slug, type |-> "html_upload", status |-> f.status,
     visibility |-> f.visibility, body |-> f.body,
     publishedAt |-> Nil, publishAt |-> Nil]

-----------------------------------------------------------------------------
(* mcp/tools.go *)

\* The row Tools.CreateArticle inserts: no schedule.
McpCreated(f, now) ==
    StampPublishedAt([ArticleFromForm(f) EXCEPT !.publishAt = Nil], Nil, now)

\* Mutant: a patched article loses its schedule.
McpPatched_DropsSchedule(existing, slug, body) ==
    [existing EXCEPT !.slug = slug, !.body = body, !.publishAt = Nil]

\* Tools.UpdateArticle: a patch names a slug, a body, both or neither; the
\* columns it leaves out are passed here as those of the row it read.
McpPatched(existing, slug, body) ==
    [existing EXCEPT !.slug = slug, !.body = body]

\* Tools.SetArticleStatus: a schedule (at # Nil) counts for a draft only.
McpStatusSet(existing, status, at, now) ==
    StampPublishedAt(
        [existing EXCEPT !.status = status,
                         !.publishAt = IF status = "draft" /\ at # Nil
                                       THEN at ELSE @],
        existing.publishedAt, now)

\* Mutant: a hidden article goes back to draft, as if withdrawn.
McpVisibilitySet_Withdraws(existing, visibility) ==
    [existing EXCEPT !.visibility = visibility, !.status = "draft",
                     !.publishedAt = Nil]

\* Tools.SetArticleVisibility.
McpVisibilitySet(existing, visibility) ==
    [existing EXCEPT !.visibility = visibility]

-----------------------------------------------------------------------------
(* scheduler/scheduler.go *)

\* Mutant: the interval is added to the scheduled time.
Launched_NextMinute(a) ==
    [a EXCEPT !.status = "published", !.publishedAt = a.publishAt + 1,
              !.publishAt = Nil]

\* Publisher.Tick: the row written for a due draft; the archive shows the
\* scheduled time.
Launched(a) ==
    [a EXCEPT !.status = "published", !.publishedAt = a.publishAt,
              !.publishAt = Nil]

\* Mutants: "<" for "<="; the tick looks one interval ahead.
DueAt_Strict(a, now) ==
    a.status = "draft" /\ a.publishAt # Nil /\ a.publishAt < now
DueAt_Ahead(a, now) ==
    a.status = "draft" /\ a.publishAt # Nil /\ a.publishAt <= now + 1

\* ListDueScheduled: the filter of the query.
DueAt(a, now) ==
    /\ a.status = "draft"
    /\ a.publishAt # Nil
    /\ a.publishAt <= now

-----------------------------------------------------------------------------

\* The publication columns of a row agree at time now: a draft has never gone
\* live, a published article has no schedule left to fire again and (if it was
\* written in markdown) has the moment it went live, which is not in the future.
Consistent(a, now) ==
    /\ a.status = "draft" => a.publishedAt = Nil
    /\ a.status = "published" => a.publishAt = Nil
    /\ a.status = "published" /\ a.type = "markdown" => a.publishedAt # Nil
    /\ a.publishedAt <= now
=============================================================================
