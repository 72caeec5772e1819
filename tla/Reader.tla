------------------------------- MODULE Reader -------------------------------
(***************************************************************************)
(* What a reader gets: the public pages, the gate in front of them and the *)
(* links between them (internal/handler/public.go, discover.go, feed.go,   *)
(* preview.go, internal/gate, views/public, views/layout), while the       *)
(* writers of the site change the articles.  A GET changes nothing, so it  *)
(* is an operator, from a URL to a response, of the state it is served in; *)
(* the actions are the writers', the login's, the unlock form's and the    *)
(* clock's.                                                                *)
(***************************************************************************)
EXTENDS Integers, Sequences, FiniteSets, SequencesExt

CONSTANTS
    Slugs,
    Tags, Words,
    Contents,               \* [type, raw, based, pinned, tags, words, links, named, created]
    Dates,                  \* [year, month]
    NoDate, NoTime, NoPass,
    Passwords,
    EnvDefault,             \* WIKIBUILD_DEFAULT_PASS, or NoPass
    Matches,                \* Matches[p]: the slugs that ILIKE takes for the pattern p
    PageSize, UnlockTTL, SessionTTL,
    MaxIds, MaxTime         \* bounds

\* First words of the routes.  The forms accept them as slugs, of articles that
\* lose some or all of their URLs to the site; here no slug is one.
RouteWords ==
    {"", "feed", "feed.json", "sitemap.xml", "robots.txt", "static", "media",
     "admin", "search", "archive", "tag", "preview"}

ASSUME ReaderAssumption ==
    /\ Slugs \cap RouteWords = {}
    /\ Dates \subseteq [year : 1970..3000, month : 1..12]
    /\ \A c \in Contents : /\ c.type \in {"markdown", "html_upload"}
                           /\ c.based \in BOOLEAN /\ c.pinned \in BOOLEAN
                           /\ c.created \in Dates
    /\ NoTime \notin Nat /\ NoPass \notin Passwords /\ NoDate \notin Dates
    /\ EnvDefault \in Passwords \cup {NoPass}
    /\ Matches \in [Slugs -> SUBSET Slugs] /\ \A s \in Slugs : s \in Matches[s]
    /\ PageSize \in Nat \ {0} /\ UnlockTTL \in Nat /\ SessionTTL \in Nat
    /\ MaxIds \in Nat /\ MaxTime \in Nat

VARIABLES
    rows,       \* the articles table: id -> row
    lastId,     \* the last id given out
    redirects,  \* slug -> slug, the redirects that renames leave behind
    dirs,       \* contentDir: slug -> the files in its folder
    sitePass,   \* the site-wide password of the settings form, or NoPass
    now,        \* in units of the TTLs
    jar,        \* the reader's tokens -> expiry, or NoTime
    proven,     \* history: token -> when its right password was last given
    deserted,   \* history: the slugs that were given up without a redirect
    astray      \* history: the uploads that lost their files or left them behind

site == <<rows, lastId, redirects, dirs, deserted, astray>>
reader == <<jar, proven>>
vars == <<site, sitePass, now, reader>>

IDs == 1..MaxIds

\* What Signer signs for a reader: the session of an admin, and the unlock
\* cookies, one for each id.  The admin's user name is no id.
Session == 0
Tokens == 0..MaxIds

TTL(token) == IF token = Session THEN SessionTTL ELSE UnlockTTL

Row == [slug : Slugs, status : {"draft", "published"},
        visibility : {"public", "protected", "private"},
        password : Passwords \cup {NoPass}, c : Contents,
        published : Dates \cup {NoDate}, token : BOOLEAN,
        entry : BOOLEAN]        \* the body of an upload names a file it came with

\* What an upload put in its folder; every entry has the same name.
Files == [of : IDs, based : BOOLEAN]

-----------------------------------------------------------------------------
(* The gate *)

\* Mutant: who has unlocked an article sees its later drafts.
Decide_DraftUnlocked(a, admin, unlocked) ==
    IF a.status # "published" /\ ~admin /\ ~unlocked THEN "NotFound"
    ELSE CASE a.visibility = "public" -> "Allow"
           [] a.visibility = "private" -> IF admin THEN "Allow" ELSE "NotFound"
           [] OTHER -> IF admin \/ unlocked THEN "Allow" ELSE "Password"

\* Mutant: the admin is asked for the password.
Decide_AsksAdmin(a, admin, unlocked) ==
    IF a.status # "published" /\ ~admin THEN "NotFound"
    ELSE CASE a.visibility = "public" -> "Allow"
           [] a.visibility = "private" -> IF admin THEN "Allow" ELSE "NotFound"
           [] OTHER -> IF unlocked THEN "Allow" ELSE "Password"

Decide(a, admin, unlocked) ==
    IF a.status # "published" /\ ~admin THEN "NotFound"
    ELSE CASE a.visibility = "public" -> "Allow"
           [] a.visibility = "private" -> IF admin THEN "Allow" ELSE "NotFound"
           [] OTHER -> IF admin \/ unlocked THEN "Allow" ELSE "Password"

\* The settings form wins over the environment.
SiteDefault == IF sitePass # NoPass THEN sitePass ELSE EnvDefault

MatchPassword(a, input) ==
    /\ input # NoPass
    /\ IF a.password # NoPass THEN input = a.password ELSE input = SiteDefault

\* Signer.Verify
Live(token) == jar[token] # NoTime /\ now < jar[token]

\* The cookie named after the id.
IsUnlocked(id) == Live(id)

\* The token in the admin cookie of a request, if it has one.  Any token that
\* the signer takes will do: what it was signed for is not compared.
NoCookie == -1

IsAdmin(cookie) == cookie # NoCookie /\ Live(cookie)

Decision(cookie, id) == Decide(rows[id], IsAdmin(cookie), IsUnlocked(id))

-----------------------------------------------------------------------------
(* URLs and responses *)

\* A URL is the words of its path and the value of its one query parameter:
\* page=, q=, or 0 for none.
Query(path, arg) == [path |-> path, arg |-> arg]
Url(path) == Query(path, 0)

\* A link says whose article it leads to, or 0.
Link(url) == [url |-> url, about |-> 0]
ArticleLink(id) == [url |-> Url(<<rows[id].slug>>), about |-> id]
FrameLink(id) == [url |-> Url(<<rows[id].slug, "~content">>), about |-> id]
TagLinks(ids) == {Link(Url(<<"tag", t>>)) : t \in UNION {rows[i].c.tags : i \in ids}}

\* shows: whose content is in the response; lists: the articles it lists;
\* links: those the site puts there, without the author's own.
Response(status, to, lists, shows, links) ==
    [status |-> status, to |-> to, lists |-> lists, shows |-> shows, links |-> links]

NotFound == Response(404, Url(<<>>), <<>>, {}, {})
BadRequest == Response(400, Url(<<>>), <<>>, {}, {})
Redirect(status, path) == Response(status, Url(path), <<>>, {}, {})
Bare(lists, shows, links) == Response(200, Url(<<>>), lists, shows, links)

FeedPaths == {<<"feed">>, <<"feed", "atom">>, <<"feed.json">>, <<"sitemap.xml">>}

\* layout.Page: the header, the footer and the feeds of <head>.
LayoutLinks ==
    {Link(Url(p)) : p \in {<<>>, <<"search">>, <<"archive">>, <<"admin">>} \cup FeedPaths}

Page(lists, shows, links) == Bare(lists, shows, links \cup LayoutLinks)

-----------------------------------------------------------------------------
(* Lists *)

Listed(a) == a.status = "published" /\ a.visibility = "public"

\* ORDER BY pinned DESC, id DESC
Before(i, j) ==
    IF rows[i].c.pinned = rows[j].c.pinned THEN i > j ELSE rows[i].c.pinned

\* Each article stands behind those that go before it.
Sorted(ids) ==
    [k \in 1..Cardinality(ids) |->
       CHOOSE i \in ids : Cardinality({j \in ids : Before(j, i)}) = k - 1]

\* publicPublished, of the articles that a further filter leaves.
PublicPublished(ids) == Sorted({i \in ids : Listed(rows[i])})

AllPublic == PublicPublished(DOMAIN rows)

\* Mutant: drafts and private articles link back, too.
BacklinksFor_AnyStatus(id) ==
    {b \in DOMAIN rows \ {id} : Matches[rows[id].slug] \cap rows[b].c.links # {}}

\* A search for "[[slug]]": the form "[[text|slug]]" is not found, and the slug
\* is a pattern, in which _ stands for any character.
BacklinksFor(id) ==
    {b \in DOMAIN rows \ {id} :
       Listed(rows[b]) /\ Matches[rows[id].slug] \cap rows[b].c.links # {}}

\* The author's links on the page: both forms of wikilink become links.
WikiLinks(id) == {Url(<<s>>) : s \in rows[id].c.links \cup rows[id].c.named}

ArticleDate(id) ==
    IF rows[id].published # NoDate THEN rows[id].published ELSE rows[id].c.created

\* Month -> how many articles: the archive index.
GroupByMonth(ids) ==
    [d \in {ArticleDate(i) : i \in ids} |-> Cardinality({i \in ids : ArticleDate(i) = d})]

-----------------------------------------------------------------------------
(* Views *)

\* articleSummaries
Summaries(items) ==
    Page(items, {}, {ArticleLink(i) : i \in Range(items)} \cup TagLinks(Range(items)))

\* The previous and the next page.
Pagination(page, totalPages) ==
    {Link(Query(<<>>, p)) : p \in {page - 1, page + 1} \cap 1..totalPages}

\* Nothing listed, no pagination.
IndexView(items, page, totalPages) ==
    IF items = <<>> THEN Page(items, {}, {})
    ELSE Page(items, {}, {ArticleLink(i) : i \in Range(items)} \cup TagLinks(Range(items))
                         \cup Pagination(page, totalPages))

ArchiveIndexView(months) ==
    Page(<<>>, {}, {Link(Url(<<"archive", d.year, d.month>>)) : d \in DOMAIN months})

ArchivePeriodView(items) ==
    [Summaries(items) EXCEPT !.links = @ \cup {Link(Url(<<"archive">>))}]

\* The form, and what was found; nothing found is a sentence.
SearchView(items) == Summaries(items)

TagView(items) == Summaries(items)

ArticleView(id, backlinks) ==
    Page(<<>>, {id}, TagLinks({id}) \cup {ArticleLink(b) : b \in backlinks})

\* The document itself is in the iframe.
HTMLFrameView(id) ==
    Page(<<>>, {}, {FrameLink(id)})

\* Mutant: no base, and a relative link of the document at /:slug is one of the site.
ServeUploadDocument_NoBase(id, at) ==
    LET slug == rows[id].slug IN
    IF slug \notin DOMAIN dirs \/ ~rows[id].entry THEN NotFound
    ELSE Bare(<<>>, {dirs[slug].of},
              IF dirs[slug].based THEN {}
              ELSE {[url |-> Url(Append(Front(at), "asset")), about |-> id]})

\* The document in the folder of the slug, whichever upload left it there:
\* <base href="/slug/"> resolves its relative links, wherever it is served.
\* A document with a <base> of its own keeps it, and where its links lead is
\* the author's business.
ServeUploadDocument(id, at) ==
    LET slug == rows[id].slug IN
    IF slug \notin DOMAIN dirs \/ ~rows[id].entry THEN NotFound
    ELSE Bare(<<>>, {dirs[slug].of},
              IF dirs[slug].based THEN {}
              ELSE {[url |-> Url(<<slug, "asset">>), about |-> id]})

UnlockView == Page(<<>>, {}, {})

-----------------------------------------------------------------------------
(* Handlers *)

GetArticleBySlug(slug) ==
    LET ids == {i \in DOMAIN rows : rows[i].slug = slug} IN
    IF ids = {} THEN 0 ELSE CHOOSE i \in ids : TRUE

\* Mutant: the last page is left out when it is not full.
TotalPages_Floor(total) == IF total < PageSize THEN 1 ELSE total \div PageSize

TotalPages(total) ==
    LET n == (total + PageSize - 1) \div PageSize IN IF n < 1 THEN 1 ELSE n

\* parsePage clamps; limit and offset as the store applies them.
Index(arg) ==
    LET page == IF arg < 1 THEN 1 ELSE arg
        offset == (page - 1) * PageSize
        last == IF offset + PageSize < Len(AllPublic) THEN offset + PageSize ELSE Len(AllPublic)
    IN IndexView(SubSeq(AllPublic, offset + 1, last), page, TotalPages(Len(AllPublic)))

Search(q) ==
    IF q \notin Words THEN SearchView(<<>>)
    ELSE SearchView(PublicPublished({i \in DOMAIN rows : q \in rows[i].c.words}))

Tag(tag) == TagView(PublicPublished({i \in DOMAIN rows : tag \in rows[i].c.tags}))

ArchiveIndex == ArchiveIndexView(GroupByMonth(Range(AllPublic)))

ValidYear(year) == year \in 1970..3000

ValidMonth(month) == month \in 1..12

ArchiveYear(year) ==
    IF ~ValidYear(year) THEN BadRequest
    ELSE ArchivePeriodView(PublicPublished({i \in DOMAIN rows : ArticleDate(i).year = year}))

\* Mutant: the month of any year.
ArchiveMonth_AnyYear(year, month) ==
    IF ~ValidYear(year) \/ ~ValidMonth(month) THEN BadRequest
    ELSE ArchivePeriodView(PublicPublished({i \in DOMAIN rows : ArticleDate(i).month = month}))

ArchiveMonth(year, month) ==
    IF ~ValidYear(year) \/ ~ValidMonth(month) THEN BadRequest
    ELSE ArchivePeriodView(PublicPublished(
           {i \in DOMAIN rows : ArticleDate(i).year = year /\ ArticleDate(i).month = month}))

\* feed.FromArticles and the documents built of it: one link per item.
Feed(items) == Bare(items, {}, {ArticleLink(i) : i \in Range(items)})

\* RSS, Atom, JSON Feed and the sitemap have the same articles.
Syndication == Feed(AllPublic)

\* <link rel="canonical">
Canonical(id, page) == [page EXCEPT !.links = @ \cup {ArticleLink(id)}]

\* An uploaded page is a document of its own in raw mode, else a frame around it.
RenderArticle(id) ==
    IF rows[id].c.type = "markdown" THEN Canonical(id, ArticleView(id, BacklinksFor(id)))
    ELSE IF rows[id].c.raw THEN ServeUploadDocument(id, <<rows[id].slug>>)
    ELSE Canonical(id, HTMLFrameView(id))

Article(cookie, slug) ==
    LET id == GetArticleBySlug(slug) IN
    IF id = 0
    THEN IF slug \in DOMAIN redirects THEN Redirect(301, <<redirects[slug]>>) ELSE NotFound
    ELSE CASE Decision(cookie, id) = "Allow" -> RenderArticle(id)
           [] Decision(cookie, id) = "Password" -> Redirect(302, <<slug, "unlock">>)
           [] OTHER -> NotFound

\* The id of a published protected article, or 0.
ProtectedArticle(slug) ==
    LET id == GetArticleBySlug(slug) IN
    IF id # 0 /\ rows[id].status = "published" /\ rows[id].visibility = "protected"
    THEN id ELSE 0

UnlockForm(cookie, slug) ==
    LET id == ProtectedArticle(slug) IN
    IF id = 0 THEN NotFound
    ELSE IF IsAdmin(cookie) \/ IsUnlocked(id) THEN Redirect(303, <<slug>>) ELSE UnlockView

\* The html upload of the slug, or 0, and what the gate says of it.
AllowedUpload(cookie, slug) ==
    LET id == GetArticleBySlug(slug) IN
    IF id # 0 /\ rows[id].c.type = "html_upload" /\ Decision(cookie, id) = "Allow"
    THEN id ELSE 0

UploadContent(cookie, slug) ==
    LET id == AllowedUpload(cookie, slug) IN
    IF id = 0 THEN NotFound ELSE ServeUploadDocument(id, <<slug, "~content">>)

\* One file stands for those next to the document.
UploadAsset(cookie, slug, rel) ==
    IF AllowedUpload(cookie, slug) = 0 \/ rel # "asset" \/ slug \notin DOMAIN dirs
    THEN NotFound ELSE Bare(<<>>, {dirs[slug].of}, {})

\* No gate, no backlinks; a token is known by its article, and only markdown articles are given tokens.
Preview(id) ==
    IF id \in DOMAIN rows /\ rows[id].token THEN ArticleView(id, {}) ELSE NotFound

\* RequireAuth, in front of /admin.
Dashboard(cookie) ==
    IF IsAdmin(cookie) THEN Page(<<>>, {}, {}) ELSE Redirect(302, <<"admin", "login">>)

\* The routes of the site itself; any other path would be an article's with a
\* route word for its slug.
SiteRoute(cookie, p, arg) ==
    CASE p = <<>> -> Index(arg)
      [] p \in FeedPaths -> Syndication
      [] p = <<"admin", "login">> -> Page(<<>>, {}, {})
      [] p = <<"admin">> -> Dashboard(cookie)
      [] p = <<"search">> -> Search(arg)
      [] p = <<"archive">> -> ArchiveIndex
      [] Len(p) = 2 /\ p[1] = "archive" -> ArchiveYear(p[2])
      [] Len(p) = 3 /\ p[1] = "archive" -> ArchiveMonth(p[2], p[3])
      [] Len(p) = 2 /\ p[1] = "tag" -> Tag(p[2])
      [] Len(p) = 2 /\ p[1] = "preview" -> Preview(p[2])
      [] OTHER -> NotFound

\* The routes under /:slug.
ArticleRoute(cookie, p) ==
    IF Len(p) = 1 THEN Article(cookie, p[1])
    ELSE CASE p[2] = "unlock" -> UnlockForm(cookie, p[1])
           [] p[2] = "~content" -> UploadContent(cookie, p[1])
           [] OTHER -> UploadAsset(cookie, p[1], p[2])

\* server.New: the first route that matches.
Respond(cookie, url) ==
    IF url.path = <<>> \/ url.path[1] \in RouteWords
    THEN SiteRoute(cookie, url.path, url.arg)
    ELSE ArticleRoute(cookie, url.path)

-----------------------------------------------------------------------------
(* The writers.  Publishing takes the forms, the MCP tools and the scheduler *)
(* apart; here each of their requests is one step, and only what a reader    *)
(* can tell of it is there.                                                  *)

Free(slug, id) == GetArticleBySlug(slug) \in {0, id}

\* stampPublishedAt: drafts have no date, the first publication sets it.
Stamps(status, old) ==
    IF status = "draft" THEN {NoDate} ELSE IF old # NoDate THEN {old} ELSE Dates

WithDir(slug, files) ==
    [s \in DOMAIN dirs \cup {slug} |-> IF s = slug THEN files ELSE dirs[s]]

WithoutDir(slug) == Restrict(dirs, DOMAIN dirs \ {slug})

\* Mutant: the id is given out again.
Create_IdStands(a) ==
    /\ lastId < MaxIds /\ Free(a.slug, 0)
    /\ rows' = [i \in DOMAIN rows \cup {lastId + 1} |-> IF i \in DOMAIN rows THEN rows[i] ELSE a]
    /\ UNCHANGED <<lastId, redirects, dirs, deserted, astray, sitePass, now, reader>>

\* The admin's form issues a preview token, MCP and an upload do not; an
\* upload is not stamped, and replaces what is in the folder.
Create(a) ==
    /\ lastId < MaxIds /\ Free(a.slug, 0) /\ a.entry
    /\ IF a.c.type = "html_upload" THEN ~a.token /\ a.published = NoDate
       ELSE a.published \in Stamps(a.status, NoDate)
    /\ lastId' = lastId + 1
    /\ rows' = [i \in DOMAIN rows \cup {lastId'} |-> IF i = lastId' THEN a ELSE rows[i]]
    /\ dirs' = IF a.c.type = "html_upload"
               THEN WithDir(a.slug, [of |-> lastId', based |-> a.c.based]) ELSE dirs
    /\ UNCHANGED <<redirects, deserted, astray, sitePass, now, reader>>

\* Submit empties the folder first: a bad file or a slug in use leaves none,
\* not even to the upload whose slug it is.
UploadRefused(slug) ==
    /\ dirs' = WithoutDir(slug)
    /\ astray' = astray \cup {i \in DOMAIN rows : /\ rows[i].slug = slug
                                                  /\ rows[i].c.type = "html_upload"}
    /\ UNCHANGED <<rows, lastId, redirects, deserted, sitePass, now, reader>>

\* Mutant: the redirect goes the wrong way.
Moved_Swapped(from, to) ==
    [s \in DOMAIN redirects \cup {to} |-> IF s = to THEN from ELSE redirects[s]]

\* The redirect of a rename replaces an earlier one.
Moved(from, to) ==
    [s \in DOMAIN redirects \cup {from} |-> IF s = from THEN to ELSE redirects[s]]

\* A redirect that cannot be saved is done without.
LeaveRedirect(from, to) ==
    IF from = to THEN UNCHANGED <<redirects, deserted>>
    ELSE \/ redirects' = Moved(from, to) /\ deserted' = deserted \ {from}
         \/ redirects' = redirects /\ deserted' = deserted \cup {from}

\* os.Rename of the folder of an upload; its error is ignored.
MoveFiles(id, to) ==
    LET from == rows[id].slug IN
    IF from = to \/ rows[id].c.type # "html_upload" THEN UNCHANGED <<dirs, astray>>
    ELSE \/ /\ from \in DOMAIN dirs /\ to \notin DOMAIN dirs
            /\ dirs' = [s \in (DOMAIN dirs \ {from}) \cup {to} |->
                          IF s = to THEN dirs[from] ELSE dirs[s]]
            /\ astray' = astray
         \/ dirs' = dirs /\ astray' = astray \cup {id}

\* What no request changes; a token stays or is issued, of a markdown article.
Rewrites(id, a) ==
    LET old == rows[id] IN
    /\ Free(a.slug, id)
    /\ a.c.type = old.c.type /\ a.c.created = old.c.created /\ a.c.based = old.c.based
    /\ a.c.type = "markdown" => a.entry
    /\ old.token => a.token
    /\ a.token /\ a.c.type = "html_upload" => old.token
    /\ rows' = [rows EXCEPT ![id] = a]
    /\ UNCHANGED <<lastId, sitePass, now, reader>>

\* The form.  A blank password field keeps the password, and an upload keeps
\* its entry.
Update(id, a) ==
    LET old == rows[id] IN
    /\ Rewrites(id, a)
    /\ a.entry = old.entry /\ a.published \in Stamps(a.status, old.published)
    /\ a.password = NoPass => old.password = NoPass
    /\ LeaveRedirect(old.slug, a.slug)
    /\ MoveFiles(id, a.slug)

\* The MCP tools and the scheduler.  update_article may change the slug, and
\* leaves no redirect and moves no folder; it may change the body, which names
\* the entry of an upload.
ToolUpdate(id, a) ==
    LET old == rows[id] IN
    /\ Rewrites(id, a)
    /\ \/ /\ a = [old EXCEPT !.slug = a.slug, !.c = a.c, !.entry = a.entry]
          /\ a.c.raw = old.c.raw
       \/ /\ a = [old EXCEPT !.status = a.status, !.published = a.published]
          /\ a.published \in Stamps(a.status, old.published)
       \/ a = [old EXCEPT !.visibility = a.visibility]
    /\ deserted' = IF a.slug = old.slug THEN deserted ELSE deserted \cup {old.slug}
    /\ astray' = IF a.c.type = "html_upload" /\ (a.slug # old.slug \/ ~a.entry)
                 THEN astray \cup {id} ELSE astray
    /\ UNCHANGED <<redirects, dirs>>

\* os.RemoveAll of an upload's folder; its error is ignored.
Delete(id) ==
    /\ rows' = [i \in DOMAIN rows \ {id} |-> rows[i]]
    /\ deserted' = deserted \cup {rows[id].slug}
    /\ \/ rows[id].c.type = "html_upload" /\ dirs' = WithoutDir(rows[id].slug)
       \/ dirs' = dirs
    /\ UNCHANGED <<lastId, redirects, astray, sitePass, now, reader>>

\* The settings form.
SetSitePass(p) ==
    /\ sitePass' = p
    /\ UNCHANGED <<site, now, reader>>

-----------------------------------------------------------------------------
(* The reader and the clock *)

\* Signer.Sign, after the right password.
Sign(token) ==
    /\ jar' = [jar EXCEPT ![token] = now + TTL(token)]
    /\ proven' = [proven EXCEPT ![token] = now]
    /\ UNCHANGED <<site, sitePass, now>>

\* LoginSubmit; Login models what it takes.
SignIn == Sign(Session)

\* Logout
SignOut ==
    /\ jar' = [jar EXCEPT ![Session] = NoTime]
    /\ proven' = [proven EXCEPT ![Session] = NoTime]
    /\ UNCHANGED <<site, sitePass, now>>

UnlockSubmit(slug, input) ==
    LET id == ProtectedArticle(slug) IN
    /\ id # 0
    /\ MatchPassword(rows[id], input)
    /\ Sign(id)

ClockTicks ==
    /\ now < MaxTime /\ now' = now + 1
    /\ UNCHANGED <<site, sitePass, reader>>

Init ==
    /\ rows = <<>> /\ lastId = 0 /\ redirects = <<>> /\ dirs = <<>>
    /\ sitePass = NoPass /\ now = 0
    /\ jar = [token \in Tokens |-> NoTime]
    /\ proven = [token \in Tokens |-> NoTime]
    /\ deserted = {} /\ astray = {}

Next ==
    \/ \E a \in Row : Create(a)
    \/ \E slug \in Slugs : UploadRefused(slug)
    \/ \E id \in DOMAIN rows : \/ Delete(id)
                               \/ \E a \in Row : Update(id, a) \/ ToolUpdate(id, a)
    \/ \E p \in Passwords \cup {NoPass} : SetSitePass(p)
    \/ SignIn \/ SignOut
    \/ \E slug \in Slugs, input \in Passwords \cup {NoPass} : UnlockSubmit(slug, input)
    \/ ClockTicks

Spec == Init /\ [][Next]_vars

-----------------------------------------------------------------------------
(* Properties *)

TypeOK ==
    /\ rows \in [DOMAIN rows -> Row] /\ DOMAIN rows \subseteq 1..lastId
    /\ lastId \in 0..MaxIds /\ now \in 0..MaxTime
    /\ redirects \in [DOMAIN redirects -> Slugs] /\ DOMAIN redirects \subseteq Slugs
    /\ dirs \in [DOMAIN dirs -> Files] /\ DOMAIN dirs \subseteq Slugs
    /\ sitePass \in Passwords \cup {NoPass}
    /\ jar \in [Tokens -> Nat \cup {NoTime}]
    /\ proven \in [Tokens -> Nat \cup {NoTime}]
    /\ deserted \subseteq Slugs /\ astray \subseteq IDs

\* The admin cookies a reader can send.
Cookies == {NoCookie} \cup {k \in Tokens : jar[k] # NoTime}

\* The right password for the token was given within its TTL.
Proven(token) == proven[token] # NoTime /\ now < proven[token] + TTL(token)

\* Who may read an article (README: public, protected, private; drafts are
\* hidden).  As the admin counts who sends, in the admin cookie, a token whose
\* password was given in time; the code asks no more of it.
MayRead(cookie, id) ==
    \/ cookie # NoCookie /\ Proven(cookie)
    \/ /\ rows[id].status = "published"
       /\ \/ rows[id].visibility = "public"
          \/ rows[id].visibility = "protected" /\ Proven(id)

ArticleUrls ==
    {Url(<<s>>) : s \in Slugs} \cup {Url(p) : p \in Slugs \X {"unlock", "~content", "asset"}}

PreviewUrls == {Url(<<"preview", id>>) : id \in IDs}

ListUrls ==
    {Query(<<>>, p) : p \in 0..(MaxIds + 1)} \cup {Query(<<"search">>, w) : w \in Words \cup {0}}
    \cup {Url(<<"tag", t>>) : t \in Tags} \cup {l.url : l \in LayoutLinks}
    \cup {Url(<<"archive", d.year>>) : d \in Dates}
    \cup {Url(<<"archive", d.year, d.month>>) : d \in Dates}

\* An article is shown to whoever passes for the admin, to everybody when it is
\* published and public, and to a reader who has given its own password (or, if it
\* has none, the site's) within the last UnlockTTL when it is published and
\* protected: at its own URL or in the frame there, and on no other page, whatever
\* has been renamed, deleted, withdrawn or recreated since.  Only the holder of a
\* preview link sees more.  An upload that went astray from its files is shown to
\* nobody, or shows there the files of another one that were left in the folder.
ShownExactly ==
    \A cookie \in Cookies :
      /\ \A id \in DOMAIN rows \ astray : MayRead(cookie, id) =>
           LET slug == rows[id].slug IN
           \/ Respond(cookie, Url(<<slug>>)).shows = {id}
           \/ /\ FrameLink(id) \in Respond(cookie, Url(<<slug>>)).links
              /\ Respond(cookie, Url(<<slug, "~content">>)).shows = {id}
      /\ \A url \in ArticleUrls \cup ListUrls : \A id \in Respond(cookie, url).shows :
           GetArticleBySlug(url.path[1]) \notin astray =>
             MayRead(cookie, id) /\ url.path[1] = rows[id].slug

Redirects(r) == r.status \in {301, 302, 303}

Hop(cookie, r) == IF Redirects(r) THEN Respond(cookie, r.to) ELSE r

\* The responses of so many hops, which end with the first that is no redirect.
Hops == Cardinality(Slugs) + 3

Trail(cookie, url) ==
    LET after[n \in 0..Hops] ==
          IF n = 0 THEN Respond(cookie, url) ELSE Hop(cookie, after[n - 1])
    IN after

Follow(cookie, url) == Trail(cookie, url)[Hops]

\* A backlink leads to an article that links here (backlinksFor: "articles whose
\* body wikilinks to a").
BacklinksTrue ==
    \A id \in DOMAIN rows : \A b \in BacklinksFor(id) : Url(<<rows[id].slug>>) \in WikiLinks(b)

\* The only dead links of the site are to uploads that went astray: renamed by
\* update_article, which leaves the files behind, given an entry they do not have,
\* cleared by a refused upload for their slug, or renamed by the form when the
\* folder could not be moved.  Whatever else is linked on any page a reader or the
\* admin can open (lists, pagination, tags, backlinks, frames, files, feeds and the
\* layout) opens for the same person, and a link to an article leads to that
\* article; a backlink leads to a page that links back.
LinksLead ==
    /\ BacklinksTrue
    /\ \A cookie \in Cookies :
         \A l \in UNION {Respond(cookie, url).links :
                         url \in ArticleUrls \cup PreviewUrls \cup ListUrls} :
           LET r == Follow(cookie, l.url) IN
           \/ /\ r.status = 200
              /\ l.about # 0 => l.about \in r.shows \/ FrameLink(l.about) \in r.links
           \/ l.about \in astray

\* The slugs of the requests on the way from a URL of an article.
Visited(cookie, url) ==
    {url.path[1]} \cup {Trail(cookie, url)[n].to.path[1] : n \in 0..Hops}

\* Redirects end (Article, UnlockForm, the redirects of renames), however often
\* articles were renamed back and forth; only through a slug that was given up
\* without a redirect, by update_article, by a deletion or because the redirect
\* could not be saved, may old redirects lead in a circle.
RedirectsSettle ==
    \A cookie \in Cookies, url \in ArticleUrls :
      Redirects(Follow(cookie, url)) => Visited(cookie, url) \cap deserted # {}

\* The pages one comes to from the home page by its next-page links.
Walk ==
    {k \in 1..(MaxIds + 1) :
       \A j \in 1..(k - 1) : Link(Query(<<>>, j + 1)) \in Respond(NoCookie, Query(<<>>, j)).links}

\* Walking the home page to its last page shows every published public article
\* once, the pinned ones first and then the newest, no page of the walk is empty
\* when there are articles, and every page has a way back.
PagesPartition ==
    LET shown == FlattenSeq([k \in 1..Cardinality(Walk) |-> Respond(NoCookie, Query(<<>>, k)).lists])
    IN /\ IsInjective(shown)
       /\ Range(shown) = {i \in DOMAIN rows : Listed(rows[i])}
       /\ \A m, n \in DOMAIN shown : m < n => Before(shown[m], shown[n])
       /\ \A k \in Walk : shown # <<>> => Respond(NoCookie, Query(<<>>, k)).lists # <<>>
       /\ \A k \in Walk \ {1} : Link(Query(<<>>, k - 1)) \in Respond(NoCookie, Query(<<>>, k)).links

\* The archive is complete: its index counts as many articles of a month as the
\* month's page lists, every published public article, one that was never stamped
\* included, is on the page of one month the index links to and of one year, under
\* each of its tags, in the feeds and the sitemap.
ArchiveComplete ==
    LET months == GroupByMonth(Range(AllPublic))
        On(path) == Range(Respond(NoCookie, Url(path)).lists)
    IN /\ \A d \in DOMAIN months : Cardinality(On(<<"archive", d.year, d.month>>)) = months[d]
       /\ \A id \in DOMAIN rows : Listed(rows[id]) =>
            /\ Cardinality({d \in DOMAIN months : id \in On(<<"archive", d.year, d.month>>)}) = 1
            /\ Cardinality({y \in {d.year : d \in Dates} : id \in On(<<"archive", y>>)}) = 1
            /\ \A t \in Tags : id \in On(<<"tag", t>>) <=> t \in rows[id].c.tags
            /\ \A p \in {<<"feed">>, <<"sitemap.xml">>} : id \in On(p)
=============================================================================
