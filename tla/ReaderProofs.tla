---------------------------- MODULE ReaderProofs ----------------------------
(***************************************************************************)
(* Theorems about Reader: its types, that an article is shown to exactly   *)
(* those who may read it, that the archive and the walk through the home   *)
(* page are complete, that redirects end and that no link is dead.         *)
(***************************************************************************)
EXTENDS Reader, Induction, FiniteSetTheorems, SequenceTheorems, TLAPS

\* At most one article has a slug.
SlugsUnique ==
    \A i, j \in DOMAIN rows : rows[i].slug = rows[j].slug => i = j

\* A token says when its password was given.
JarTrue ==
    \A k \in Tokens :
      /\ jar[k] = NoTime <=> proven[k] = NoTime
      /\ jar[k] # NoTime => jar[k] = proven[k] + TTL(k)

\* The folder at the slug of an upload has its own files.
HasFiles(id) ==
    LET slug == rows[id].slug IN
    rows[id].entry /\ slug \in DOMAIN dirs /\ dirs[slug].of = id

\* An upload that never went astray has its files.
FilesKept ==
    \A id \in DOMAIN rows \ astray : rows[id].c.type = "html_upload" => HasFiles(id)

IInv == TypeOK /\ SlugsUnique /\ JarTrue /\ FilesKept

-----------------------------------------------------------------------------
(* Finding an article *)

LEMMA FoundHasSlug ==
    ASSUME NEW slug, GetArticleBySlug(slug) # 0
    PROVE  /\ GetArticleBySlug(slug) \in DOMAIN rows
           /\ rows[GetArticleBySlug(slug)].slug = slug
<1> DEFINE ids == {i \in DOMAIN rows : rows[i].slug = slug}
<1>1. ids # {}
  BY DEF GetArticleBySlug
<1>2. GetArticleBySlug(slug) \in ids
  BY <1>1 DEF GetArticleBySlug
<1> QED
  BY <1>2

LEMMA ArticleFound ==
    ASSUME IInv, NEW id \in DOMAIN rows
    PROVE  GetArticleBySlug(rows[id].slug) = id
<1> DEFINE ids == {i \in DOMAIN rows : rows[i].slug = rows[id].slug}
<1>1. ids = {id}
  BY DEF IInv, SlugsUnique
<1> QED
  BY <1>1 DEF GetArticleBySlug

LEMMA FreeSlug ==
    ASSUME IInv, NEW slug, NEW id, Free(slug, id), NEW other \in DOMAIN rows, other # id
    PROVE  rows[other].slug # slug
<1>1. other # 0
  BY ReaderAssumption DEF IInv, TypeOK
<1> QED
  BY <1>1, ArticleFound DEF Free

-----------------------------------------------------------------------------
(* The inductive invariant *)

LEMMA InitIInv ==
    ASSUME Init PROVE IInv
<1>1. TypeOK
  BY ReaderAssumption DEF Init, TypeOK, Tokens
<1>2. SlugsUnique
  BY DEF Init, SlugsUnique
<1>3. JarTrue
  BY DEF Init, JarTrue
<1>4. FilesKept
  BY DEF Init, FilesKept
<1> QED
  BY <1>1, <1>2, <1>3, <1>4 DEF IInv

LEMMA CreateStep ==
    ASSUME IInv, NEW a \in Row, Create(a) PROVE IInv'
<1> USE ReaderAssumption
<1>1. lastId' = lastId + 1 /\ lastId' \in 0..MaxIds /\ lastId' \in IDs /\ lastId' \notin DOMAIN rows
  BY DEF Create, IInv, TypeOK, IDs
<1>2. /\ DOMAIN rows' = DOMAIN rows \cup {lastId'}
      /\ rows'[lastId'] = a
      /\ \A i \in DOMAIN rows : rows'[i] = rows[i]
      /\ rows' \in [DOMAIN rows' -> Row]
  BY <1>1 DEF Create, IInv, TypeOK
<1> DEFINE files == [of |-> lastId + 1, based |-> a.c.based]
<1>3. dirs' = IF a.c.type = "html_upload" THEN WithDir(a.slug, files) ELSE dirs
  BY <1>1 DEF Create
<1>4. files \in Files /\ files.of = lastId' /\ a.slug \in Slugs
  BY <1>1 DEF Row, Files
<1> HIDE DEF files
<1>5. \/ dirs' = dirs /\ a.c.type # "html_upload"
      \/ /\ DOMAIN dirs' = DOMAIN dirs \cup {a.slug} /\ dirs'[a.slug] = files
         /\ \A s \in DOMAIN dirs \ {a.slug} : dirs'[s] = dirs[s]
         /\ dirs' \in [DOMAIN dirs' -> Files]
  BY <1>3, <1>4 DEF WithDir, IInv, TypeOK
<1>6. /\ DOMAIN dirs' \subseteq Slugs /\ dirs' \in [DOMAIN dirs' -> Files]
  BY <1>4, <1>5 DEF IInv, TypeOK
<1>7. TypeOK'
  BY <1>1, <1>2, <1>6 DEF Create, IInv, TypeOK, reader
<1>8. \A i \in DOMAIN rows : rows[i].slug # a.slug
  BY FreeSlug DEF Create, IInv, TypeOK
<1>9. SlugsUnique'
  BY <1>2, <1>8 DEF IInv, SlugsUnique
<1>10. JarTrue'
  BY DEF Create, IInv, JarTrue, reader
<1>11. FilesKept'
  <2>1. ASSUME NEW i \in DOMAIN rows \ astray, rows[i].c.type = "html_upload"
        PROVE  HasFiles(i)'
    BY <1>2, <1>5, <1>8, <2>1 DEF IInv, FilesKept, HasFiles
  <2>2. ASSUME a.c.type = "html_upload" PROVE HasFiles(lastId)'
    BY <1>2, <1>4, <1>5, <2>2 DEF HasFiles, Create
  <2>3. astray' = astray
    BY DEF Create
  <2>4. ASSUME NEW i \in DOMAIN rows' \ astray', rows'[i].c.type = "html_upload"
        PROVE  HasFiles(i)'
    <3>1. CASE i \in DOMAIN rows
      BY <1>2, <2>1, <2>3, <2>4, <3>1
    <3>2. CASE i = lastId'
      BY <1>2, <1>4, <1>5, <2>4, <3>2 DEF HasFiles, Create
    <3>3. QED
      BY <1>2, <2>4, <3>1, <3>2
  <2>5. QED
    BY <2>4 DEF FilesKept
<1> QED
  BY <1>7, <1>9, <1>10, <1>11 DEF IInv

LEMMA RefusedStep ==
    ASSUME IInv, NEW slug \in Slugs, UploadRefused(slug) PROVE IInv'
<1>1. /\ DOMAIN dirs' = DOMAIN dirs \ {slug}
      /\ \A s \in DOMAIN dirs' : dirs'[s] = dirs[s]
      /\ dirs' \in [DOMAIN dirs' -> Files]
  BY DEF UploadRefused, WithoutDir, Restrict, IInv, TypeOK
<1>2. DOMAIN rows \subseteq IDs
  BY ReaderAssumption DEF IInv, TypeOK, IDs
<1>3. astray' \subseteq IDs /\ astray \subseteq astray'
      /\ \A i \in DOMAIN rows \ astray' : rows[i].c.type = "html_upload" => rows[i].slug # slug
  BY <1>2 DEF UploadRefused, IInv, TypeOK
<1>4. TypeOK'
  BY <1>1, <1>3 DEF UploadRefused, IInv, TypeOK, reader
<1>5. SlugsUnique' /\ JarTrue'
  BY DEF UploadRefused, IInv, SlugsUnique, JarTrue, reader
<1>6. FilesKept'
  BY <1>1, <1>3 DEF UploadRefused, IInv, FilesKept, HasFiles
<1> QED
  BY <1>4, <1>5, <1>6 DEF IInv

\* What all rewrites of a row have in common.
LEMMA RewriteStep ==
    ASSUME IInv, NEW id \in DOMAIN rows, NEW a \in Row, Rewrites(id, a)
    PROVE  /\ DOMAIN rows' = DOMAIN rows /\ rows'[id] = a
           /\ \A i \in DOMAIN rows \ {id} : rows'[i] = rows[i] /\ rows[i].slug # a.slug
           /\ rows' \in [DOMAIN rows' -> Row]
           /\ rows[id].slug \in Slugs /\ a.slug \in Slugs /\ id \in IDs
           /\ a.c.type = rows[id].c.type
           /\ UNCHANGED <<lastId, sitePass, now, jar, proven>>
           /\ SlugsUnique' /\ JarTrue'
<1> USE ReaderAssumption
<1>1. /\ DOMAIN rows' = DOMAIN rows /\ rows'[id] = a
      /\ \A i \in DOMAIN rows \ {id} : rows'[i] = rows[i]
      /\ rows' \in [DOMAIN rows' -> Row]
  BY DEF Rewrites, IInv, TypeOK
<1>2. rows[id].slug \in Slugs /\ a.slug \in Slugs /\ id \in IDs
  BY DEF IInv, TypeOK, Row, IDs
<1>3. a.c.type = rows[id].c.type /\ UNCHANGED <<lastId, sitePass, now, jar, proven>>
  BY DEF Rewrites, reader
<1>4. \A i \in DOMAIN rows \ {id} : rows[i].slug # a.slug
  BY FreeSlug DEF Rewrites
<1>5. SlugsUnique'
  BY <1>1, <1>4 DEF IInv, SlugsUnique
<1>6. JarTrue'
  BY <1>3 DEF IInv, JarTrue
<1> QED
  BY <1>1, <1>2, <1>3, <1>4, <1>5, <1>6

LEMMA UpdateStep ==
    ASSUME IInv, NEW id \in DOMAIN rows, NEW a \in Row, Update(id, a) PROVE IInv'
<1>1. PICK from, to : from = rows[id].slug /\ to = a.slug
  OBVIOUS
<1>2. Rewrites(id, a) /\ LeaveRedirect(from, to) /\ MoveFiles(id, to) /\ a.entry = rows[id].entry
  BY <1>1 DEF Update
<1>3. /\ DOMAIN rows' = DOMAIN rows /\ rows'[id] = a
      /\ \A i \in DOMAIN rows \ {id} : rows'[i] = rows[i] /\ rows[i].slug # to
      /\ rows' \in [DOMAIN rows' -> Row]
      /\ from \in Slugs /\ to \in Slugs /\ id \in IDs
      /\ a.c.type = rows[id].c.type
      /\ UNCHANGED <<lastId, sitePass, now, jar, proven>>
      /\ SlugsUnique' /\ JarTrue'
  BY <1>1, <1>2, RewriteStep
<1>4. /\ redirects' \in [DOMAIN redirects' -> Slugs] /\ DOMAIN redirects' \subseteq Slugs
      /\ deserted' \subseteq Slugs
  BY <1>2, <1>3 DEF LeaveRedirect, Moved, IInv, TypeOK
<1>5. CASE dirs' = dirs /\ astray' = astray \cup {id}
  <2>1. TypeOK'
    BY <1>3, <1>4, <1>5 DEF IInv, TypeOK
  <2>2. FilesKept'
    BY <1>3, <1>5 DEF IInv, FilesKept, HasFiles
  <2>3. QED
    BY <1>3, <2>1, <2>2 DEF IInv
<1>6. CASE /\ from = to \/ rows[id].c.type # "html_upload"
           /\ dirs' = dirs /\ astray' = astray
  <2>1. TypeOK'
    BY <1>3, <1>4, <1>6 DEF IInv, TypeOK
  <2>2. FilesKept'
    BY <1>1, <1>2, <1>3, <1>6 DEF IInv, FilesKept, HasFiles
  <2>3. QED
    BY <1>3, <2>1, <2>2 DEF IInv
<1>7. CASE /\ from # to /\ from \in DOMAIN dirs /\ to \notin DOMAIN dirs
           /\ dirs' = [s \in (DOMAIN dirs \ {from}) \cup {to} |->
                         IF s = to THEN dirs[from] ELSE dirs[s]]
           /\ astray' = astray
  <2>1. /\ DOMAIN dirs' = (DOMAIN dirs \ {from}) \cup {to} /\ dirs'[to] = dirs[from]
        /\ \A s \in DOMAIN dirs \ {from} : dirs'[s] = dirs[s]
        /\ dirs' \in [DOMAIN dirs' -> Files]
    BY <1>7 DEF IInv, TypeOK
  <2>2. TypeOK'
    BY <1>3, <1>4, <1>7, <2>1 DEF IInv, TypeOK
  <2>3. \A i \in DOMAIN rows \ {id} : rows[i].slug # from
    BY <1>1 DEF IInv, SlugsUnique
  <2>4. FilesKept'
    BY <1>1, <1>2, <1>3, <1>7, <2>1, <2>3 DEF IInv, FilesKept, HasFiles
  <2>5. QED
    BY <1>3, <2>2, <2>4 DEF IInv
<1> QED
  BY <1>1, <1>2, <1>5, <1>6, <1>7 DEF MoveFiles

LEMMA ToolStep ==
    ASSUME IInv, NEW id \in DOMAIN rows, NEW a \in Row, ToolUpdate(id, a) PROVE IInv'
<1>1. Rewrites(id, a) /\ UNCHANGED <<redirects, dirs>>
  BY DEF ToolUpdate
<1>2. /\ DOMAIN rows' = DOMAIN rows /\ rows'[id] = a
      /\ \A i \in DOMAIN rows \ {id} : rows'[i] = rows[i] /\ rows[i].slug # a.slug
      /\ rows' \in [DOMAIN rows' -> Row]
      /\ rows[id].slug \in Slugs /\ id \in IDs
      /\ a.c.type = rows[id].c.type
      /\ UNCHANGED <<lastId, sitePass, now, jar, proven>>
      /\ SlugsUnique' /\ JarTrue'
  BY <1>1, RewriteStep
<1>3. deserted' \subseteq Slugs /\ astray' \subseteq IDs /\ astray \subseteq astray'
  BY <1>2 DEF ToolUpdate, IInv, TypeOK
<1>4. TypeOK'
  BY <1>1, <1>2, <1>3 DEF IInv, TypeOK
<1>5. id \notin astray' /\ a.c.type = "html_upload" =>
        id \notin astray /\ a.slug = rows[id].slug /\ a.entry
  BY DEF ToolUpdate
<1>6. FilesKept'
  BY <1>1, <1>2, <1>3, <1>5 DEF IInv, FilesKept, HasFiles
<1> QED
  BY <1>2, <1>4, <1>6 DEF IInv

LEMMA DeleteStep ==
    ASSUME IInv, NEW id \in DOMAIN rows, Delete(id) PROVE IInv'
<1>1. /\ DOMAIN rows' = DOMAIN rows \ {id}
      /\ \A i \in DOMAIN rows' : rows'[i] = rows[i]
      /\ rows' \in [DOMAIN rows' -> Row]
  BY DEF Delete, IInv, TypeOK
<1>2. rows[id].slug \in Slugs
  BY DEF IInv, TypeOK, Row
<1>3. /\ DOMAIN dirs \ {rows[id].slug} \subseteq DOMAIN dirs' /\ DOMAIN dirs' \subseteq DOMAIN dirs
      /\ \A s \in DOMAIN dirs' : dirs'[s] = dirs[s]
      /\ dirs' \in [DOMAIN dirs' -> Files]
  BY DEF Delete, WithoutDir, Restrict, IInv, TypeOK
<1>4. TypeOK'
  BY <1>1, <1>2, <1>3 DEF Delete, IInv, TypeOK, reader
<1>5. SlugsUnique'
  BY <1>1 DEF IInv, SlugsUnique
<1>6. JarTrue'
  BY DEF Delete, IInv, JarTrue, reader
<1>7. \A i \in DOMAIN rows' : rows[i].slug # rows[id].slug
  BY <1>1 DEF IInv, SlugsUnique
<1>8. FilesKept'
  BY <1>1, <1>3, <1>7 DEF Delete, IInv, FilesKept, HasFiles
<1> QED
  BY <1>4, <1>5, <1>6, <1>8 DEF IInv

\* Steps that change the reader's tokens or the clock only.
LEMMA SiteStands ==
    ASSUME IInv, UNCHANGED site PROVE SlugsUnique' /\ FilesKept'
BY DEF site, IInv, SlugsUnique, FilesKept, HasFiles

LEMMA SignStep ==
    ASSUME IInv, NEW token \in Tokens, Sign(token) PROVE IInv'
<1> USE ReaderAssumption
<1>1. now + TTL(token) \in Nat /\ now \in Nat /\ NoTime \notin Nat
  BY DEF IInv, TypeOK, TTL
<1>2. /\ jar' = [jar EXCEPT ![token] = now + TTL(token)]
      /\ proven' = [proven EXCEPT ![token] = now]
      /\ UNCHANGED <<site, sitePass, now>>
  BY DEF Sign
<1>3. TypeOK'
  BY <1>1, <1>2 DEF IInv, TypeOK, site
<1>4. JarTrue'
  BY <1>1, <1>2 DEF IInv, TypeOK, JarTrue
<1> QED
  BY <1>2, <1>3, <1>4, SiteStands DEF IInv

LEMMA UnlockStep ==
    ASSUME IInv, NEW slug \in Slugs, NEW input, UnlockSubmit(slug, input) PROVE IInv'
<1>1. PICK id : id = ProtectedArticle(slug)
  OBVIOUS
<1>2. id # 0 /\ Sign(id)
  BY <1>1 DEF UnlockSubmit
<1>3. id \in DOMAIN rows
  BY <1>1, <1>2, FoundHasSlug DEF ProtectedArticle
<1>4. id \in Tokens
  BY <1>3, ReaderAssumption DEF IInv, TypeOK, Tokens
<1> QED
  BY <1>2, <1>4, SignStep

LEMMA SignOutStep ==
    ASSUME IInv, SignOut PROVE IInv'
<1>1. /\ jar' = [jar EXCEPT ![Session] = NoTime]
      /\ proven' = [proven EXCEPT ![Session] = NoTime]
      /\ UNCHANGED <<site, sitePass, now>>
  BY DEF SignOut
<1>2. TypeOK'
  BY <1>1 DEF IInv, TypeOK, site
<1>3. JarTrue'
  BY <1>1 DEF IInv, TypeOK, JarTrue
<1> QED
  BY <1>1, <1>2, <1>3, SiteStands DEF IInv

LEMMA NextIInv ==
    ASSUME IInv, [Next]_vars PROVE IInv'
<1>1. CASE \E a \in Row : Create(a)
  BY <1>1, CreateStep
<1>2. CASE \E slug \in Slugs : UploadRefused(slug)
  BY <1>2, RefusedStep
<1>3. CASE \E id \in DOMAIN rows : Delete(id) \/ \E a \in Row : Update(id, a) \/ ToolUpdate(id, a)
  BY <1>3, DeleteStep, UpdateStep, ToolStep
<1>4. CASE \E p \in Passwords \cup {NoPass} : SetSitePass(p)
  <2>1. UNCHANGED site /\ TypeOK' /\ JarTrue'
    BY <1>4 DEF SetSitePass, IInv, TypeOK, JarTrue, site, reader
  <2>2. QED
    BY <2>1, SiteStands DEF IInv
<1>5. CASE SignIn
  <2>1. Session \in Tokens
    BY ReaderAssumption DEF Session, Tokens
  <2>2. QED
    BY <1>5, <2>1, SignStep DEF SignIn
<1>6. CASE SignOut
  BY <1>6, SignOutStep
<1>7. CASE \E slug \in Slugs, input \in Passwords \cup {NoPass} : UnlockSubmit(slug, input)
  BY <1>7, UnlockStep
<1>8. CASE ClockTicks
  <2>1. UNCHANGED site /\ TypeOK' /\ JarTrue'
    BY <1>8, ReaderAssumption DEF ClockTicks, IInv, TypeOK, JarTrue, site, reader
  <2>2. QED
    BY <2>1, SiteStands DEF IInv
<1>9. CASE UNCHANGED vars
  <2>1. UNCHANGED site /\ TypeOK' /\ JarTrue'
    BY <1>9 DEF vars, site, reader, IInv, TypeOK, JarTrue
  <2>2. QED
    BY <2>1, SiteStands DEF IInv
<1> QED
  BY <1>1, <1>2, <1>3, <1>4, <1>5, <1>6, <1>7, <1>8, <1>9 DEF Next

\* The table, the tokens, the folders and the history always fit together: slugs
\* are unique, a token ends its TTL after a right password was given for it, and
\* an upload that never went astray has its own files in the folder of its slug.
THEOREM Inductive == Spec => []IInv
  BY InitIInv, NextIInv, PTL DEF Spec

\* Every variable keeps its type, and no article has an id that was not given out.
THEOREM TypeCorrect == Spec => []TypeOK
<1>1. IInv => TypeOK
  BY DEF IInv
<1> QED
  BY <1>1, Inductive, PTL

-----------------------------------------------------------------------------
(* What the pages show *)

LEMMA ListsShowNothing ==
    ASSUME NEW arg PROVE /\ Index(arg).shows = {} /\ Search(arg).shows = {}
                         /\ Tag(arg).shows = {} /\ ArchiveYear(arg).shows = {}
                         /\ Syndication.shows = {} /\ ArchiveIndex.shows = {}
<1>1. \A lists, shows, links : Page(lists, shows, links).shows = shows
  BY DEF Page, Bare, Response
<1>2. \A items : Summaries(items).shows = {}
  BY <1>1 DEF Summaries
<1>3. \A items : ArchivePeriodView(items).shows = {}
  BY <1>2 DEF ArchivePeriodView, Summaries, Page, Bare, Response
<1>4. \A items, page, total : IndexView(items, page, total).shows = {}
  BY <1>1 DEF IndexView
<1>5. BadRequest.shows = {}
  BY DEF BadRequest, Response
<1>6. Index(arg).shows = {}
  BY <1>4 DEF Index
<1>7. Search(arg).shows = {} /\ Tag(arg).shows = {}
  BY <1>2 DEF Search, SearchView, Tag, TagView
<1>8. ArchiveYear(arg).shows = {}
  BY <1>3, <1>5 DEF ArchiveYear
<1>9. ArchiveIndex.shows = {}
  BY <1>1 DEF ArchiveIndex, ArchiveIndexView
<1>10. Syndication.shows = {}
  BY DEF Syndication, Feed, Bare, Response
<1> QED
  BY <1>6, <1>7, <1>8, <1>9, <1>10

LEMMA MonthShowsNothing ==
    ASSUME NEW year, NEW month PROVE ArchiveMonth(year, month).shows = {}
<1>1. \A items : ArchivePeriodView(items).shows = {}
  BY DEF ArchivePeriodView, Summaries, Page, Bare, Response
<1>2. BadRequest.shows = {}
  BY DEF BadRequest, Response
<1> QED
  BY <1>1, <1>2 DEF ArchiveMonth

\* The routes of the site itself.
LEMMA SiteRoutes ==
    ASSUME NEW cookie, NEW arg
    PROVE  /\ SiteRoute(cookie, <<>>, arg) = Index(arg)
           /\ SiteRoute(cookie, <<"search">>, arg) = Search(arg)
           /\ SiteRoute(cookie, <<"archive">>, arg) = ArchiveIndex
           /\ SiteRoute(cookie, <<"admin">>, arg) = Dashboard(cookie)
           /\ \A tag : SiteRoute(cookie, <<"tag", tag>>, arg) = Tag(tag)
           /\ \A year : SiteRoute(cookie, <<"archive", year>>, arg) = ArchiveYear(year)
           /\ \A path \in FeedPaths : SiteRoute(cookie, path, arg) = Syndication
<1>1. SiteRoute(cookie, <<>>, arg) = Index(arg)
  BY DEF SiteRoute, FeedPaths
<1>2. SiteRoute(cookie, <<"search">>, arg) = Search(arg)
  BY DEF SiteRoute, FeedPaths
<1>3. SiteRoute(cookie, <<"archive">>, arg) = ArchiveIndex
  BY DEF SiteRoute, FeedPaths
<1>4. SiteRoute(cookie, <<"admin">>, arg) = Dashboard(cookie)
  BY DEF SiteRoute, FeedPaths
<1>5. \A tag : SiteRoute(cookie, <<"tag", tag>>, arg) = Tag(tag)
  BY DEF SiteRoute, FeedPaths
<1>6. \A year : SiteRoute(cookie, <<"archive", year>>, arg) = ArchiveYear(year)
  BY DEF SiteRoute, FeedPaths
<1>7. \A path \in FeedPaths : SiteRoute(cookie, path, arg) = Syndication
  BY DEF SiteRoute, FeedPaths
<1> QED
  BY <1>1, <1>2, <1>3, <1>4, <1>5, <1>6, <1>7

\* What answers at the URLs of the lists.
LEMMA ListResponds ==
    ASSUME NEW cookie, NEW url \in ListUrls
    PROVE  \/ \E arg \in Nat : Respond(cookie, url) = Index(arg)
           \/ \E word : Respond(cookie, url) = Search(word)
           \/ \E tag : Respond(cookie, url) = Tag(tag)
           \/ \E year : Respond(cookie, url) = ArchiveYear(year)
           \/ \E year, month : Respond(cookie, url) = ArchiveMonth(year, month)
           \/ Respond(cookie, url) \in {Syndication, ArchiveIndex, Dashboard(cookie)}
<1>1. ASSUME NEW path, NEW arg, path = <<>> \/ path[1] \in RouteWords, url = Query(path, arg)
      PROVE  Respond(cookie, url) = SiteRoute(cookie, path, arg)
  BY <1>1 DEF Respond, Query
<1>2. ASSUME NEW arg \in Nat, url = Query(<<>>, arg) PROVE Respond(cookie, url) = Index(arg)
  BY <1>1, <1>2, SiteRoutes
<1>3. ASSUME NEW arg, url = Query(<<"search">>, arg) PROVE Respond(cookie, url) = Search(arg)
  <2>1. <<"search">>[1] \in RouteWords
    BY DEF RouteWords
  <2>2. Respond(cookie, url) = SiteRoute(cookie, <<"search">>, arg)
    BY <2>1, <1>1, <1>3
  <2>3. QED
    BY <2>2, SiteRoutes
<1>4. ASSUME NEW tag, url = Url(<<"tag", tag>>) PROVE Respond(cookie, url) = Tag(tag)
  <2>1. <<"tag", tag>>[1] \in RouteWords
    BY DEF RouteWords
  <2>2. Respond(cookie, url) = SiteRoute(cookie, <<"tag", tag>>, 0)
    BY <2>1, <1>1, <1>4 DEF Url
  <2>3. QED
    BY <2>2, SiteRoutes
<1>5. ASSUME NEW year, url = Url(<<"archive", year>>)
      PROVE  Respond(cookie, url) = ArchiveYear(year)
  <2>1. <<"archive", year>>[1] \in RouteWords
    BY DEF RouteWords
  <2>2. Respond(cookie, url) = SiteRoute(cookie, <<"archive", year>>, 0)
    BY <2>1, <1>1, <1>5 DEF Url
  <2>3. QED
    BY <2>2, SiteRoutes
<1>6. ASSUME NEW year, NEW month, url = Url(<<"archive", year, month>>)
      PROVE  Respond(cookie, url) = ArchiveMonth(year, month)
  <2>1. <<"archive", year, month>>[1] \in RouteWords
    BY DEF RouteWords
  <2>2. Respond(cookie, url) = SiteRoute(cookie, <<"archive", year, month>>, 0)
    BY <2>1, <1>1, <1>6 DEF Url
  <2>3. SiteRoute(cookie, <<"archive", year, month>>, 0) = ArchiveMonth(year, month)
    BY DEF SiteRoute, FeedPaths
  <2>4. QED
    BY <2>2, <2>3
<1>7. ASSUME NEW path \in FeedPaths, url = Url(path) PROVE Respond(cookie, url) = Syndication
  <2>1. path[1] \in RouteWords
    <3>1. /\ <<"feed">>[1] \in RouteWords /\ <<"feed", "atom">>[1] \in RouteWords
          /\ <<"feed.json">>[1] \in RouteWords /\ <<"sitemap.xml">>[1] \in RouteWords
      BY DEF RouteWords
    <3>2. QED
      BY <3>1 DEF FeedPaths
  <2>2. Respond(cookie, url) = SiteRoute(cookie, path, 0)
    BY <2>1, <1>1, <1>7 DEF Url
  <2>3. QED
    BY <2>2, SiteRoutes
<1>8. ASSUME url = Url(<<"archive">>) PROVE Respond(cookie, url) = ArchiveIndex
  <2>1. <<"archive">>[1] \in RouteWords
    BY DEF RouteWords
  <2>2. Respond(cookie, url) = SiteRoute(cookie, <<"archive">>, 0)
    BY <2>1, <1>1, <1>8 DEF Url
  <2>3. QED
    BY <2>2, SiteRoutes
<1>9. ASSUME url = Url(<<"admin">>) PROVE Respond(cookie, url) = Dashboard(cookie)
  <2>1. <<"admin">>[1] \in RouteWords
    BY DEF RouteWords
  <2>2. Respond(cookie, url) = SiteRoute(cookie, <<"admin">>, 0)
    BY <2>1, <1>1, <1>9 DEF Url
  <2>3. QED
    BY <2>2, SiteRoutes
<1>10. \A l \in LayoutLinks : \/ l.url = Url(<<>>) \/ l.url = Url(<<"search">>)
                              \/ l.url = Url(<<"archive">>) \/ l.url = Url(<<"admin">>)
                              \/ \E path \in FeedPaths : l.url = Url(path)
  BY DEF LayoutLinks, Link
<1>11. \/ \E arg \in Nat : url = Query(<<>>, arg)
       \/ \E arg : url = Query(<<"search">>, arg)
       \/ \E tag : url = Url(<<"tag", tag>>)
       \/ \E year : url = Url(<<"archive", year>>)
       \/ \E year, month : url = Url(<<"archive", year, month>>)
       \/ \E path \in FeedPaths : url = Url(path)
       \/ url = Url(<<"archive">>) \/ url = Url(<<"admin">>)
  <2>1. \A p \in 0..(MaxIds + 1) : p \in Nat
    BY ReaderAssumption
  <2>2. QED
    BY <1>10, <2>1 DEF ListUrls, Url
<1>12. QED
  BY <1>2, <1>3, <1>4, <1>5, <1>6, <1>7, <1>8, <1>9, <1>11

LEMMA SiteShowsNothing ==
    ASSUME NEW cookie, NEW url \in ListUrls PROVE Respond(cookie, url).shows = {}
<1>1. Dashboard(cookie).shows = {}
  BY DEF Dashboard, Page, Bare, Redirect, Response
<1>2. QED
  BY <1>1, ListResponds, ListsShowNothing, MonthShowsNothing

-----------------------------------------------------------------------------
(* What an article's own routes show *)

\* The routes under a slug.
LEMMA SlugRoutes ==
    ASSUME NEW cookie, NEW slug \in Slugs
    PROVE  /\ Respond(cookie, Url(<<slug>>)) = Article(cookie, slug)
           /\ Respond(cookie, Url(<<slug, "unlock">>)) = UnlockForm(cookie, slug)
           /\ Respond(cookie, Url(<<slug, "~content">>)) = UploadContent(cookie, slug)
           /\ Respond(cookie, Url(<<slug, "asset">>)) = UploadAsset(cookie, slug, "asset")
<1>1. slug \notin RouteWords
  BY ReaderAssumption
<1>2. \A path : Url(path).path = path
  BY DEF Url, Query
<1> QED
  BY <1>1, <1>2 DEF Respond, ArticleRoute

\* The gate lets in exactly those who may read.
LEMMA GateAllows ==
    ASSUME IInv, NEW cookie \in Cookies, NEW id \in DOMAIN rows
    PROVE  Decision(cookie, id) = "Allow" <=> MayRead(cookie, id)
<1>1. id \in Tokens /\ rows[id].status \in {"draft", "published"}
      /\ rows[id].visibility \in {"public", "protected", "private"}
  BY ReaderAssumption DEF IInv, TypeOK, Tokens, Row
<1>2. \A k \in Tokens : Live(k) <=> Proven(k)
  BY DEF IInv, JarTrue, Live, Proven
<1>3. IsUnlocked(id) <=> Proven(id)
  BY <1>1, <1>2 DEF IsUnlocked
<1>4. IsAdmin(cookie) <=> cookie # NoCookie /\ Proven(cookie)
  BY <1>2 DEF IsAdmin, Cookies
<1> QED
  BY <1>1, <1>3, <1>4 DEF Decision, Decide, MayRead

\* What an article needs to be shown: an upload, its files.
Whole(id) == rows[id].c.type # "markdown" => HasFiles(id)

LEMMA NotAstray ==
    ASSUME IInv, NEW id \in DOMAIN rows, id \notin astray PROVE Whole(id)
<1>1. rows[id].c.type \in {"markdown", "html_upload"}
  BY ReaderAssumption DEF IInv, TypeOK, Row
<1> QED
  BY <1>1 DEF IInv, FilesKept, Whole

LEMMA DocumentShows ==
    ASSUME NEW id, HasFiles(id)
    PROVE  \A at : /\ ServeUploadDocument(id, at).status = 200
                  /\ ServeUploadDocument(id, at).shows = {id}
<1>1. PICK slug : slug = rows[id].slug
  OBVIOUS
<1>2. slug \in DOMAIN dirs /\ rows[id].entry /\ dirs[slug].of = id
  BY <1>1 DEF HasFiles
<1>3. PICK links : links = IF dirs[slug].based THEN {}
                          ELSE {[url |-> Url(<<slug, "asset">>), about |-> id]}
  OBVIOUS
<1>4. \A at : ServeUploadDocument(id, at) = Bare(<<>>, {id}, links)
  BY <1>1, <1>2, <1>3 DEF ServeUploadDocument
<1>5. Bare(<<>>, {id}, links).status = 200 /\ Bare(<<>>, {id}, links).shows = {id}
  BY DEF Bare, Response
<1>6. TAKE at
<1>7. ServeUploadDocument(id, at) = Bare(<<>>, {id}, links)
  BY <1>4
<1> QED
  BY <1>5, <1>7

LEMMA RendersOne ==
    ASSUME NEW id, Whole(id)
    PROVE  \/ RenderArticle(id).shows = {id} /\ (rows[id].c.type = "markdown" \/ rows[id].c.raw)
           \/ /\ RenderArticle(id).shows = {} /\ FrameLink(id) \in RenderArticle(id).links
              /\ rows[id].c.type # "markdown"
<1>1. \A lists, shows, links : /\ Page(lists, shows, links).shows = shows
                              /\ links \subseteq Page(lists, shows, links).links
  BY DEF Page, Bare, Response
<1>2. ASSUME NEW lists, NEW shows, NEW links
      PROVE  /\ Canonical(id, Page(lists, shows, links)).shows = shows
             /\ links \subseteq Canonical(id, Page(lists, shows, links)).links
  BY DEF Canonical, Page, Bare, Response
<1>3. CASE rows[id].c.type = "markdown"
  BY <1>2, <1>3 DEF RenderArticle, ArticleView
<1>4. CASE rows[id].c.type # "markdown" /\ rows[id].c.raw
  <2>1. RenderArticle(id) = ServeUploadDocument(id, <<rows[id].slug>>)
    BY <1>4 DEF RenderArticle
  <2>2. HasFiles(id)
    BY <1>4 DEF Whole
  <2>3. \A at : /\ ServeUploadDocument(id, at).status = 200
               /\ ServeUploadDocument(id, at).shows = {id}
    BY <2>2, DocumentShows
  <2>4. QED
    BY <1>4, <2>1, <2>3
<1>5. CASE rows[id].c.type # "markdown" /\ ~rows[id].c.raw
  BY <1>2, <1>5 DEF RenderArticle, HTMLFrameView
<1> QED
  BY <1>3, <1>4, <1>5

\* Whoever may read an article sees it.
LEMMA ReadersSee ==
    ASSUME IInv, NEW cookie \in Cookies, NEW id \in DOMAIN rows, id \notin astray,
           MayRead(cookie, id)
    PROVE  LET slug == rows[id].slug IN
           \/ Respond(cookie, Url(<<slug>>)).shows = {id}
           \/ /\ FrameLink(id) \in Respond(cookie, Url(<<slug>>)).links
              /\ Respond(cookie, Url(<<slug, "~content">>)).shows = {id}
<1> DEFINE slug == rows[id].slug
<1>1. rows[id] \in Row /\ id \in Nat \ {0}
  BY ReaderAssumption DEF IInv, TypeOK
<1>2. slug \in Slugs /\ rows[id].c.type \in {"markdown", "html_upload"}
  BY <1>1, ReaderAssumption DEF Row
<1>3. GetArticleBySlug(slug) = id /\ Decision(cookie, id) = "Allow"
  BY ArticleFound, GateAllows
<1> HIDE DEF slug
<1>4. Respond(cookie, Url(<<slug>>)) = RenderArticle(id)
  BY <1>1, <1>2, <1>3, SlugRoutes DEF Article
<1>5. ASSUME rows[id].c.type # "markdown"
      PROVE  Respond(cookie, Url(<<slug, "~content">>)).shows = {id}
  <2>1. AllowedUpload(cookie, slug) = id
    BY <1>1, <1>2, <1>3, <1>5 DEF AllowedUpload
  <2>2. UploadContent(cookie, slug) = ServeUploadDocument(id, <<slug, "~content">>)
    BY <2>1, <1>1 DEF UploadContent
  <2>3. HasFiles(id)
    BY <1>5, NotAstray DEF Whole
  <2>4. \A at : /\ ServeUploadDocument(id, at).status = 200
               /\ ServeUploadDocument(id, at).shows = {id}
    BY <2>3, DocumentShows
  <2>5. UploadContent(cookie, slug).shows = {id}
    BY <2>2, <2>4
  <2> QED
    BY <2>5, <1>2, SlugRoutes
<1>6. \/ Respond(cookie, Url(<<slug>>)).shows = {id}
      \/ /\ FrameLink(id) \in Respond(cookie, Url(<<slug>>)).links
         /\ Respond(cookie, Url(<<slug, "~content">>)).shows = {id}
  BY <1>4, <1>5, NotAstray, RendersOne
<1> QED
  BY <1>6 DEF slug

\* Nobody else does.
LEMMA OnlyReadersSee ==
    ASSUME IInv, NEW cookie \in Cookies, NEW url \in ArticleUrls,
           NEW id \in Respond(cookie, url).shows, GetArticleBySlug(url.path[1]) \notin astray
    PROVE  MayRead(cookie, id) /\ url.path[1] = rows[id].slug
<1>0. PICK slug \in Slugs, word \in {"", "unlock", "~content", "asset"} :
        url = Url(IF word = "" THEN <<slug>> ELSE <<slug, word>>)
  <2>1. CASE \E s \in Slugs : url = Url(<<s>>)
    BY <2>1
  <2>2. CASE \E s \in Slugs, w \in {"unlock", "~content", "asset"} : url = Url(<<s, w>>)
    BY <2>2
  <2>3. \/ \E s \in Slugs : url = Url(<<s>>)
        \/ \E s \in Slugs, w \in {"unlock", "~content", "asset"} : url = Url(<<s, w>>)
    BY DEF ArticleUrls
  <2> QED
    BY <2>1, <2>2, <2>3
<1> DEFINE found == GetArticleBySlug(slug)
<1>1. /\ NotFound.shows = {}
      /\ \A status, path : Redirect(status, path).shows = {}
      /\ \A lists, shows, links : Bare(lists, shows, links).shows = shows
      /\ UnlockView.shows = {}
  BY DEF NotFound, Redirect, UnlockView, Page, Bare, Response
<1>2. url.path[1] = slug
  BY <1>0 DEF Url, Query
<1>3. found # 0 => found \in DOMAIN rows /\ rows[found].slug = slug /\ Whole(found)
  BY <1>2, FoundHasSlug, NotAstray
<1>10. AllowedUpload(cookie, slug) # 0 =>
        /\ found # 0 /\ Decision(cookie, found) = "Allow" /\ AllowedUpload(cookie, slug) = found
        /\ rows[found].c.type # "markdown"
  BY DEF AllowedUpload
<1> HIDE DEF found
<1>7. AllowedUpload(cookie, slug) # 0 =>
        /\ found # 0 /\ Decision(cookie, found) = "Allow" /\ AllowedUpload(cookie, slug) = found
        /\ HasFiles(found)
  BY <1>3, <1>10 DEF Whole
<1>4. SUFFICES found # 0 /\ Decision(cookie, found) = "Allow" /\ id = found
  BY <1>2, <1>3, <1>4, GateAllows
<1>5. CASE word = ""
  <2>1. id \in Article(cookie, slug).shows
    BY <1>0, <1>5, SlugRoutes
  <2>2. \/ Article(cookie, slug) = NotFound
        \/ \E status, path : Article(cookie, slug) = Redirect(status, path)
        \/ /\ found # 0 /\ Decision(cookie, found) = "Allow"
           /\ Article(cookie, slug) = RenderArticle(found)
    BY ZenonT(60) DEF Article, found
  <2>3. /\ found # 0 /\ Decision(cookie, found) = "Allow"
        /\ Article(cookie, slug) = RenderArticle(found)
    BY <2>1, <2>2, <1>1
  <2> QED
    BY <1>3, <2>1, <2>3, RendersOne
<1>6. CASE word = "unlock"
  <2>1. UnlockForm(cookie, slug).shows = {}
    BY <1>1, ZenonT(60) DEF UnlockForm
  <2> QED
    BY <1>0, <1>6, <2>1, SlugRoutes
<1>8. CASE word = "~content"
  <2>1. id \in UploadContent(cookie, slug).shows
    BY <1>0, <1>8, SlugRoutes
  <2>2. /\ AllowedUpload(cookie, slug) # 0
        /\ UploadContent(cookie, slug)
             = ServeUploadDocument(AllowedUpload(cookie, slug), <<slug, "~content">>)
    BY <1>1, <2>1 DEF UploadContent
  <2>3. UploadContent(cookie, slug) = ServeUploadDocument(found, <<slug, "~content">>)
    BY <1>7, <2>2
  <2>4. ServeUploadDocument(found, <<slug, "~content">>).shows = {found}
    <3>1. HasFiles(found)
      BY <1>7, <2>2
    <3>2. \A at : /\ ServeUploadDocument(found, at).status = 200
                 /\ ServeUploadDocument(found, at).shows = {found}
      BY <3>1, DocumentShows
    <3>3. QED
      BY <3>2
  <2>5. UploadContent(cookie, slug).shows = {found}
    BY <2>3, <2>4
  <2>6. id = found
    BY <2>1, <2>5
  <2> QED
    BY <1>7, <2>2, <2>6
<1>9. CASE word = "asset"
  <2>1. id \in UploadAsset(cookie, slug, "asset").shows
    BY <1>0, <1>9, SlugRoutes
  <2>2. /\ AllowedUpload(cookie, slug) # 0
        /\ UploadAsset(cookie, slug, "asset") = Bare(<<>>, {dirs[slug].of}, {})
    BY <1>1, <2>1 DEF UploadAsset
  <2>3. dirs[slug].of = found
    BY <1>3, <1>7, <2>2 DEF HasFiles
  <2>6. Bare(<<>>, {found}, {}).shows = {found}
    BY DEF Bare, Response
  <2>4. UploadAsset(cookie, slug, "asset").shows = {found}
    BY <2>2, <2>3, <2>6
  <2>5. id = found
    BY <2>1, <2>4
  <2> QED
    BY <1>7, <2>2, <2>5
<1> QED
  BY <1>5, <1>6, <1>8, <1>9

\* In every state an article that did not go astray from its files is shown to
\* exactly those who may read it, at its own URL and nowhere else, for any slugs,
\* contents, passwords and lifetimes of tokens.  As the admin counts whoever sends
\* a live token of the signer in the admin cookie.
THEOREM ShownCorrect == Spec => []ShownExactly
<1>1. ASSUME IInv PROVE ShownExactly
  <2> SUFFICES ASSUME NEW cookie \in Cookies
      PROVE  /\ \A id \in DOMAIN rows \ astray : MayRead(cookie, id) =>
                  LET slug == rows[id].slug IN
                  \/ Respond(cookie, Url(<<slug>>)).shows = {id}
                  \/ /\ FrameLink(id) \in Respond(cookie, Url(<<slug>>)).links
                     /\ Respond(cookie, Url(<<slug, "~content">>)).shows = {id}
             /\ \A url \in ArticleUrls \cup ListUrls :
                  \A id \in Respond(cookie, url).shows :
                    GetArticleBySlug(url.path[1]) \notin astray =>
                      MayRead(cookie, id) /\ url.path[1] = rows[id].slug
    BY DEF ShownExactly
  <2>1. ASSUME NEW url \in ArticleUrls, NEW id \in Respond(cookie, url).shows,
               GetArticleBySlug(url.path[1]) \notin astray
        PROVE  MayRead(cookie, id) /\ url.path[1] = rows[id].slug
    BY <1>1, <2>1, OnlyReadersSee
  <2> QED
    BY <1>1, <2>1, ReadersSee, SiteShowsNothing
<1> QED
  BY <1>1, Inductive, PTL

-----------------------------------------------------------------------------
(* The order of lists *)

LEMMA Listing ==
    ASSUME IInv
    PROVE  /\ DOMAIN rows \subseteq Nat \ {0} /\ IsFiniteSet(DOMAIN rows)
           /\ \A i \in DOMAIN rows :
                /\ rows[i] \in Row /\ rows[i].slug \in Slugs /\ rows[i].c \in Contents
                /\ rows[i].c.pinned \in BOOLEAN /\ ArticleDate(i) \in Dates
<1>1. DOMAIN rows \in SUBSET (1..lastId) /\ lastId \in Nat
  BY ReaderAssumption DEF IInv, TypeOK
<1>2. IsFiniteSet(1..lastId)
  BY <1>1, FS_Interval
<1>3. IsFiniteSet(DOMAIN rows)
  BY <1>1, <1>2, FS_Subset
<1>4. \A i \in DOMAIN rows : rows[i] \in Row
  BY DEF IInv, TypeOK
<1>5. \A a \in Row : /\ a.slug \in Slugs /\ a.c \in Contents
                     /\ a.published \in Dates \cup {NoDate}
  BY DEF Row
<1>6. \A i \in DOMAIN rows : ArticleDate(i) \in Dates
  BY <1>4, <1>5, ReaderAssumption DEF ArticleDate
<1>7. QED
  BY <1>1, <1>3, <1>4, <1>5, <1>6, ReaderAssumption

\* The order is total: of two articles one goes before the other.
LEMMA BeforeTotal ==
    ASSUME IInv
    PROVE  /\ \A i \in DOMAIN rows : ~Before(i, i)
           /\ \A i, j \in DOMAIN rows : i # j => Before(i, j) \/ Before(j, i)
           /\ \A i, j, k \in DOMAIN rows : Before(i, j) /\ Before(j, k) => Before(i, k)
BY Listing DEF Before

\* How many articles of a set go before one of them tells which one it is, and
\* which of two goes first.
LEMMA Places ==
    ASSUME IInv, NEW S \in SUBSET DOMAIN rows, IsFiniteSet(S)
    PROVE  /\ \A i \in S : Cardinality({j \in S : Before(j, i)}) \in 0..Cardinality(S) - 1
           /\ \A i, k \in S : Before(i, k) =>
                Cardinality({j \in S : Before(j, i)}) < Cardinality({j \in S : Before(j, k)})
<1> DEFINE Ahead(i) == {j \in S : Before(j, i)}
<1>1. ASSUME NEW i \in S PROVE Ahead(i) \in SUBSET S /\ i \notin Ahead(i)
  BY BeforeTotal
<1>2. ASSUME NEW i \in S, NEW k \in S, Before(i, k)
      PROVE  Ahead(i) \in SUBSET Ahead(k) /\ i \in Ahead(k)
  BY <1>2, BeforeTotal
<1> HIDE DEF Ahead
<1>3. ASSUME NEW i \in S
      PROVE  /\ IsFiniteSet(Ahead(i)) /\ Cardinality(Ahead(i)) \in Nat
             /\ Cardinality(Ahead(i)) \in 0..Cardinality(S) - 1
  <2>1. /\ IsFiniteSet(Ahead(i)) /\ Cardinality(Ahead(i)) <= Cardinality(S)
        /\ Cardinality(Ahead(i)) # Cardinality(S)
    BY <1>1, FS_Subset
  <2>2. Cardinality(Ahead(i)) \in Nat /\ Cardinality(S) \in Nat
    BY <2>1, FS_CardinalityType
  <2>3. QED
    BY <2>1, <2>2
<1>4. ASSUME NEW i \in S, NEW k \in S, Before(i, k)
      PROVE  Cardinality(Ahead(i)) < Cardinality(Ahead(k))
  <2>1. /\ Cardinality(Ahead(i)) <= Cardinality(Ahead(k))
        /\ Cardinality(Ahead(i)) # Cardinality(Ahead(k))
    BY <1>1, <1>2, <1>3, <1>4, FS_Subset
  <2>2. QED
    BY <1>3, <2>1
<1>5. QED
  BY <1>3, <1>4 DEF Ahead

\* The list of a finite set has each of its articles once, in the order.
LEMMA SortedOnce ==
    ASSUME IInv, NEW S \in SUBSET DOMAIN rows
    PROVE  /\ Sorted(S) \in Seq(S) /\ Len(Sorted(S)) = Cardinality(S) /\ Cardinality(S) \in Nat
           /\ Range(Sorted(S)) = S /\ IsInjective(Sorted(S))
           /\ \A m, n \in DOMAIN Sorted(S) : m < n => Before(Sorted(S)[m], Sorted(S)[n])
<1> DEFINE n == Cardinality(S)
           place(i) == Cardinality({j \in S : Before(j, i)})
           s == Sorted(S)
<1>1. n \in Nat /\ IsFiniteSet(S)
  BY Listing, FS_Subset, FS_CardinalityType
<1>2. /\ \A i \in S : place(i) \in 0..n - 1
      /\ \A i, k \in S : Before(i, k) => place(i) < place(k)
  BY <1>1, Places
<1>3. s = [k \in 1..n |-> CHOOSE i \in S : place(i) = k - 1]
  BY DEF Sorted
<1> HIDE DEF n, place, s
<1>4. \A i, k \in S : i # k => Before(i, k) \/ Before(k, i)
  BY BeforeTotal
<1>5. \A i, k \in S : place(i) \in Nat /\ (place(i) = place(k) => i = k)
  BY <1>1, <1>2, <1>4
<1> DEFINE f == [i \in S |-> place(i) + 1]
<1>6. f \in Surjection(S, 1..n)
  <2>1. f \in Injection(S, 1..n)
    BY <1>1, <1>2, <1>5 DEF Injection, IsInjective
  <2>2. IsFiniteSet(1..n) /\ Cardinality(1..n) = n
    BY <1>1, FS_Interval
  <2> HIDE DEF f
  <2>3. QED
    BY <1>1, <2>1, <2>2, FS_Injection DEF n
<1>7. ASSUME NEW k \in 1..n PROVE s[k] \in S /\ place(s[k]) = k - 1
  <2>1. PICK i \in S : f[i] = k
    BY <1>6 DEF Surjection
  <2>2. place(i) = k - 1
    BY <1>1, <1>2, <2>1
  <2>3. QED
    BY <1>3, <2>2
<1>8. s \in Seq(S) /\ Len(s) = n /\ DOMAIN s = 1..n
  BY <1>1, <1>3, <1>7
<1>9. IsInjective(s)
  BY <1>1, <1>7, <1>8 DEF IsInjective
<1>10. ASSUME NEW i \in S PROVE \E k \in 1..n : s[k] = i
  <2>1. place(i) + 1 \in 1..n
    BY <1>1, <1>2
  <2>2. place(s[place(i) + 1]) = place(i) /\ s[place(i) + 1] \in S
    BY <1>1, <1>2, <1>7, <2>1
  <2>3. QED
    BY <1>5, <2>1, <2>2
<1>11. Range(s) = S
  BY <1>7, <1>8, <1>10 DEF Range
<1>12. ASSUME NEW k \in 1..n, NEW m \in 1..n, k < m PROVE Before(s[k], s[m])
  <2>1. /\ s[k] \in S /\ s[m] \in S /\ place(s[k]) = k - 1 /\ place(s[m]) = m - 1
    BY <1>7
  <2>2. s[k] # s[m] /\ ~(place(s[m]) < place(s[k]))
    BY <1>1, <1>12, <2>1
  <2>3. QED
    BY <1>2, <1>4, <2>1, <2>2
<1>13. QED
  BY <1>1, <1>8, <1>9, <1>11, <1>12 DEF n, s

-----------------------------------------------------------------------------
(* The archive, the tags and the feeds *)

Public == {i \in DOMAIN rows : Listed(rows[i])}

\* A list of some of the articles has the public ones of them.
LEMMA ListsThose ==
    ASSUME IInv, NEW S \in SUBSET DOMAIN rows
    PROVE  Range(PublicPublished(S)) = S \cap Public
<1>1. PICK T : T = {i \in S : Listed(rows[i])}
  OBVIOUS
<1>2. T = S \cap Public /\ T \in SUBSET DOMAIN rows
  BY <1>1 DEF Public
<1>3. PublicPublished(S) = Sorted(T)
  BY <1>1 DEF PublicPublished
<1>4. QED
  BY <1>2, <1>3, SortedOnce

LEMMA PeriodLists ==
    ASSUME NEW items PROVE ArchivePeriodView(items).lists = items
BY DEF ArchivePeriodView, Summaries, Page, Bare, Response

InMonth(y, m) == {i \in Public : ArticleDate(i).year = y /\ ArticleDate(i).month = m}
InYear(y) == {i \in Public : ArticleDate(i).year = y}

LEMMA SiteResponds ==
    ASSUME NEW path, path[1] \in RouteWords
    PROVE  Respond(NoCookie, Url(path)) = SiteRoute(NoCookie, path, 0)
BY DEF Respond, Url, Query

LEMMA MonthLists ==
    ASSUME NEW y, NEW m, IInv, ValidYear(y), ValidMonth(m)
    PROVE  Range(Respond(NoCookie, Url(<<"archive", y, m>>)).lists) = InMonth(y, m)
<1>1. PICK S : S = {i \in DOMAIN rows : ArticleDate(i).year = y /\ ArticleDate(i).month = m}
  OBVIOUS
<1>2. <<"archive", y, m>>[1] \in RouteWords
  BY DEF RouteWords
<1>3. SiteRoute(NoCookie, <<"archive", y, m>>, 0) = ArchiveMonth(y, m)
  BY DEF SiteRoute, FeedPaths
<1>4. ArchiveMonth(y, m) = ArchivePeriodView(PublicPublished(S))
  BY <1>1 DEF ArchiveMonth
<1>5. ArchivePeriodView(PublicPublished(S)).lists = PublicPublished(S)
  BY PeriodLists
<1>6. Respond(NoCookie, Url(<<"archive", y, m>>)).lists = PublicPublished(S)
  BY <1>2, <1>3, <1>4, <1>5, SiteResponds
<1>7. Range(PublicPublished(S)) = S \cap Public
  BY <1>1, ListsThose
<1>8. S \cap Public = InMonth(y, m)
  BY <1>1 DEF Public, InMonth
<1>9. QED
  BY <1>6, <1>7, <1>8

LEMMA YearLists ==
    ASSUME NEW y, IInv, ValidYear(y)
    PROVE  Range(Respond(NoCookie, Url(<<"archive", y>>)).lists) = InYear(y)
<1>1. PICK S : S = {i \in DOMAIN rows : ArticleDate(i).year = y}
  OBVIOUS
<1>2. <<"archive", y>>[1] \in RouteWords
  BY DEF RouteWords
<1>3. SiteRoute(NoCookie, <<"archive", y>>, 0) = ArchiveYear(y)
  BY SiteRoutes
<1>4. ArchiveYear(y) = ArchivePeriodView(PublicPublished(S))
  BY <1>1 DEF ArchiveYear
<1>5. ArchivePeriodView(PublicPublished(S)).lists = PublicPublished(S)
  BY PeriodLists
<1>6. Respond(NoCookie, Url(<<"archive", y>>)).lists = PublicPublished(S)
  BY <1>2, <1>3, <1>4, <1>5, SiteResponds
<1>7. Range(PublicPublished(S)) = S \cap Public
  BY <1>1, ListsThose
<1>8. S \cap Public = InYear(y)
  BY <1>1 DEF Public, InYear
<1>9. QED
  BY <1>6, <1>7, <1>8

LEMMA TagLists ==
    ASSUME IInv, NEW t
    PROVE  Range(Respond(NoCookie, Url(<<"tag", t>>)).lists) = {i \in Public : t \in rows[i].c.tags}
<1>1. PICK S : S = {i \in DOMAIN rows : t \in rows[i].c.tags}
  OBVIOUS
<1>2. <<"tag", t>>[1] \in RouteWords
  BY DEF RouteWords
<1>3. SiteRoute(NoCookie, <<"tag", t>>, 0) = Tag(t)
  BY SiteRoutes
<1>4. Tag(t).lists = PublicPublished(S)
  BY <1>1 DEF Tag, TagView, Summaries, Page, Bare, Response
<1>5. Respond(NoCookie, Url(<<"tag", t>>)).lists = PublicPublished(S)
  BY <1>2, <1>3, <1>4, SiteResponds
<1>6. Range(PublicPublished(S)) = S \cap Public
  BY <1>1, ListsThose
<1>7. S \cap Public = {i \in Public : t \in rows[i].c.tags}
  BY <1>1 DEF Public
<1>8. QED
  BY <1>5, <1>6, <1>7

LEMMA FeedLists ==
    ASSUME IInv
    PROVE  /\ Range(AllPublic) = Public
           /\ \A p \in {<<"feed">>, <<"sitemap.xml">>} :
                Range(Respond(NoCookie, Url(p)).lists) = Public
<1>1. Range(AllPublic) = Public
  BY ListsThose DEF AllPublic, Public
<1>2. ASSUME NEW p \in {<<"feed">>, <<"sitemap.xml">>}
      PROVE  Range(Respond(NoCookie, Url(p)).lists) = Public
  <2>1. p[1] \in RouteWords /\ p \in FeedPaths
    <3>1. /\ <<"feed">>[1] \in RouteWords /\ <<"sitemap.xml">>[1] \in RouteWords
      BY DEF RouteWords
    <3>2. QED
      BY <3>1 DEF FeedPaths
  <2>2. SiteRoute(NoCookie, p, 0) = Syndication
    BY <2>1, SiteRoutes
  <2>3. Syndication.lists = AllPublic
    BY DEF Syndication, Feed, Bare, Response
  <2>4. QED
    BY <1>1, <2>1, <2>2, <2>3, SiteResponds
<1>3. QED
  BY <1>1, <1>2

\* In every state the archive, the tags and the feeds have every public article,
\* in one month and one year each, for any contents and dates of the years that
\* the archive has pages of.
THEOREM ArchiveCorrect == Spec => []ArchiveComplete
<1>1. ASSUME IInv PROVE ArchiveComplete
  <2>1. PICK months : months = GroupByMonth(Range(AllPublic))
    OBVIOUS
  <2>2. /\ DOMAIN months = {ArticleDate(i) : i \in Public}
        /\ \A d \in DOMAIN months : months[d] = Cardinality({i \in Public : ArticleDate(i) = d})
    BY <1>1, <2>1, FeedLists DEF GroupByMonth
  <2>3. /\ \A i \in Public : i \in DOMAIN rows /\ ArticleDate(i) \in Dates
        /\ DOMAIN months \subseteq Dates
    BY <1>1, <2>2, Listing DEF Public
  <2>4. /\ \A d \in Dates : ValidYear(d.year) /\ ValidMonth(d.month)
        /\ \A d, e \in Dates : d.year = e.year /\ d.month = e.month => d = e
    BY ReaderAssumption DEF ValidYear, ValidMonth
  <2>5. ASSUME NEW d \in DOMAIN months
        PROVE  Range(Respond(NoCookie, Url(<<"archive", d.year, d.month>>)).lists)
                 = {i \in Public : ArticleDate(i) = d}
    <3>1. PICK y, m : y = d.year /\ m = d.month /\ ValidYear(y) /\ ValidMonth(m)
      BY <2>3, <2>4
    <3>2. Range(Respond(NoCookie, Url(<<"archive", y, m>>)).lists) = InMonth(y, m)
      BY <1>1, <3>1, MonthLists
    <3>3. InMonth(y, m) = {i \in Public : ArticleDate(i) = d}
      BY <2>3, <2>4, <3>1 DEF InMonth
    <3>4. QED
      BY <3>1, <3>2, <3>3
  <2>6. ASSUME NEW e \in Dates
        PROVE  Range(Respond(NoCookie, Url(<<"archive", e.year>>)).lists) = InYear(e.year)
    <3>1. PICK y : y = e.year /\ ValidYear(y)
      BY <2>4
    <3>2. Range(Respond(NoCookie, Url(<<"archive", y>>)).lists) = InYear(y)
      BY <1>1, <3>1, YearLists
    <3>3. QED
      BY <3>1, <3>2
  <2>7. ASSUME NEW d \in DOMAIN months
        PROVE  Cardinality(Range(Respond(NoCookie, Url(<<"archive", d.year, d.month>>)).lists)) = months[d]
    BY <2>2, <2>5
  <2>8. ASSUME NEW id \in DOMAIN rows, Listed(rows[id])
        PROVE  /\ Cardinality({d \in DOMAIN months :
                    id \in Range(Respond(NoCookie, Url(<<"archive", d.year, d.month>>)).lists)}) = 1
               /\ Cardinality({y \in {d.year : d \in Dates} :
                    id \in Range(Respond(NoCookie, Url(<<"archive", y>>)).lists)}) = 1
    <3>1. id \in Public /\ ArticleDate(id) \in DOMAIN months /\ ArticleDate(id) \in Dates
      BY <2>2, <2>3, <2>8 DEF Public
    <3>2. {d \in DOMAIN months :
             id \in Range(Respond(NoCookie, Url(<<"archive", d.year, d.month>>)).lists)}
            = {d \in DOMAIN months : id \in {i \in Public : ArticleDate(i) = d}}
      BY <2>5
    <3>3. {d \in DOMAIN months : id \in {i \in Public : ArticleDate(i) = d}} = {ArticleDate(id)}
      BY <3>1
    <3>4. ASSUME NEW y \in {d.year : d \in Dates}
          PROVE  id \in Range(Respond(NoCookie, Url(<<"archive", y>>)).lists)
                   <=> y = ArticleDate(id).year
      <4>1. PICK e \in Dates : y = e.year
        OBVIOUS
      <4>2. Range(Respond(NoCookie, Url(<<"archive", y>>)).lists) = InYear(y)
        BY <2>6, <4>1
      <4>3. id \in InYear(y) <=> y = ArticleDate(id).year
        BY <3>1 DEF InYear
      <4>4. QED
        BY <4>2, <4>3
    <3>5. ArticleDate(id).year \in {d.year : d \in Dates}
      BY <3>1
    <3>6. {y \in {d.year : d \in Dates} :
             id \in Range(Respond(NoCookie, Url(<<"archive", y>>)).lists)} = {ArticleDate(id).year}
      BY <3>4, <3>5
    <3>7. QED
      BY <3>2, <3>3, <3>6, FS_Singleton
  <2>9. ASSUME NEW id \in DOMAIN rows, Listed(rows[id])
        PROVE  /\ \A t \in Tags : id \in Range(Respond(NoCookie, Url(<<"tag", t>>)).lists)
                                    <=> t \in rows[id].c.tags
               /\ \A p \in {<<"feed">>, <<"sitemap.xml">>} :
                    id \in Range(Respond(NoCookie, Url(p)).lists)
    <3>1. id \in Public
      BY <2>9 DEF Public
    <3>2. ASSUME NEW t \in Tags
          PROVE  id \in Range(Respond(NoCookie, Url(<<"tag", t>>)).lists) <=> t \in rows[id].c.tags
      <4>1. Range(Respond(NoCookie, Url(<<"tag", t>>)).lists) = {i \in Public : t \in rows[i].c.tags}
        BY <1>1, TagLists
      <4>2. QED
        BY <3>1, <4>1
    <3>3. ASSUME NEW p \in {<<"feed">>, <<"sitemap.xml">>}
          PROVE  id \in Range(Respond(NoCookie, Url(p)).lists)
      BY <1>1, <3>1, FeedLists
    <3>4. QED
      BY <3>2, <3>3
  <2>10. QED
    BY <2>1, <2>7, <2>8, <2>9 DEF ArchiveComplete
<1>2. QED
  BY <1>1, Inductive, PTL

-----------------------------------------------------------------------------
(* Where redirects end *)

Current(s) == \E i \in DOMAIN rows : rows[i].slug = s

\* Slugs at which the way to an article may be lost.
Deserted(s) == s \in deserted

\* Other redirects lead to a slug in use or to one nearer to it.
RankedBy(rank) ==
    \A s \in DOMAIN redirects :
      \/ Current(s) \/ Current(redirects[s])
      \/ Deserted(s) \/ Deserted(redirects[s])
      \/ rank[redirects[s]] < rank[s]

NoCircle == \E rank \in [Slugs -> Nat] : RankedBy(rank)

\* As long as every slug stays in use or is deserted, nothing changes.
LEMMA KeepsNoCircle ==
    ASSUME NoCircle, UNCHANGED redirects,
           \A s : Current(s) \/ Deserted(s) => Current(s)' \/ Deserted(s)'
    PROVE  NoCircle'
<1>1. PICK rank \in [Slugs -> Nat] : RankedBy(rank)
  BY DEF NoCircle
<1>2. RankedBy(rank)'
  BY <1>1 DEF RankedBy
<1>3. QED
  BY <1>2 DEF NoCircle

\* A new article takes no slug away.
LEMMA CreateKeepsNoCircle ==
    ASSUME NEW a \in Row, IInv, IInv', NoCircle, Create(a) PROVE NoCircle'
<1>1. /\ DOMAIN rows' = DOMAIN rows \cup {lastId'} /\ UNCHANGED <<redirects, deserted>>
      /\ \A i \in DOMAIN rows : i # lastId' => rows'[i] = rows[i]
      /\ lastId' \notin DOMAIN rows
  BY ReaderAssumption DEF Create, IInv, TypeOK
<1>2. ASSUME NEW s, Current(s) PROVE Current(s)'
  <2>1. PICK i \in DOMAIN rows : rows[i].slug = s
    BY <1>2 DEF Current
  <2>2. i \in DOMAIN rows' /\ rows'[i].slug = s
    BY <1>1, <2>1
  <2>3. QED
    BY <2>2 DEF Current
<1>3. \A s : Deserted(s) => Deserted(s)'
  BY <1>1 DEF Deserted
<1>4. QED
  BY <1>1, <1>2, <1>3, KeepsNoCircle

\* A deleted article deserts its slug.
LEMMA DeleteKeepsNoCircle ==
    ASSUME NEW id \in DOMAIN rows, IInv, NoCircle, Delete(id) PROVE NoCircle'
<1>1. PICK old : old = rows[id].slug
  OBVIOUS
<1>2. /\ DOMAIN rows' = DOMAIN rows \ {id} /\ UNCHANGED redirects
      /\ \A i \in DOMAIN rows \ {id} : rows'[i] = rows[i]
      /\ deserted' = deserted \cup {old}
  BY <1>1 DEF Delete
<1>3. \A s : Deserted(s) \/ s = old => Deserted(s)'
  BY <1>2 DEF Deserted
<1>4. ASSUME NEW s, Current(s), s # old PROVE Current(s)'
  <2>1. PICK i \in DOMAIN rows : rows[i].slug = s
    BY <1>4 DEF Current
  <2>2. i \in DOMAIN rows' /\ rows'[i].slug = s
    BY <1>1, <1>2, <1>4, <2>1
  <2>3. QED
    BY <2>2 DEF Current
<1>5. QED
  BY <1>2, <1>3, <1>4, KeepsNoCircle

\* So does a rename without a redirect.
LEMMA DesertingKeepsNoCircle ==
    ASSUME NEW id \in DOMAIN rows, NEW a \in Row, IInv, NoCircle, Rewrites(id, a),
           UNCHANGED redirects,
           deserted' = IF a.slug = rows[id].slug THEN deserted ELSE deserted \cup {rows[id].slug}
    PROVE  NoCircle'
<1>1. PICK old, new : old = rows[id].slug /\ new = a.slug
  OBVIOUS
<1>2. /\ DOMAIN rows' = DOMAIN rows /\ rows'[id].slug = new
      /\ \A i \in DOMAIN rows \ {id} : rows'[i] = rows[i]
  BY <1>1, RewriteStep
<1>3. ASSUME NEW s, Current(s) \/ Deserted(s) PROVE Current(s)' \/ Deserted(s)'
  <2>1. CASE Deserted(s) \/ (s = old /\ new # old)
    BY <1>1, <2>1 DEF Deserted
  <2>2. CASE Current(s) /\ ~(s = old /\ new # old)
    <3>1. PICK i \in DOMAIN rows : rows[i].slug = s
      BY <2>2 DEF Current
    <3>2. i \in DOMAIN rows' /\ rows'[i].slug = s
      BY <1>1, <1>2, <2>2, <3>1
    <3>3. QED
      BY <3>2 DEF Current
  <2>3. QED
    BY <1>3, <2>1, <2>2
<1>4. QED
  BY <1>3, KeepsNoCircle

\* A slug that is renamed away becomes the last one on the way to the new one.
LEMMA RedirectKeepsNoCircle ==
    ASSUME NEW id \in DOMAIN rows, NEW a \in Row, IInv, IInv', NoCircle, Rewrites(id, a),
           a.slug # rows[id].slug,
           redirects' = Moved(rows[id].slug, a.slug), deserted' = deserted \ {rows[id].slug}
    PROVE  NoCircle'
<1>1. PICK old, new : old = rows[id].slug /\ new = a.slug
  OBVIOUS
<1>2. /\ DOMAIN rows' = DOMAIN rows
      /\ rows'[id].slug = new
      /\ \A i \in DOMAIN rows \ {id} : rows'[i] = rows[i]
      /\ redirects' = Moved(old, new) /\ new # old
  BY <1>1, RewriteStep
<1>3. PICK rank \in [Slugs -> Nat] : RankedBy(rank)
  BY DEF NoCircle
<1>9. \A s : Deserted(s) /\ s # old => Deserted(s)'
  BY <1>1 DEF Deserted
<1>4. ASSUME NEW s, Current(s), s # old PROVE Current(s)'
  <2>1. PICK i \in DOMAIN rows : rows[i].slug = s
    BY <1>4 DEF Current
  <2>2. i \in DOMAIN rows' /\ rows'[i].slug = s
    BY <1>1, <1>2, <1>4, <2>1
  <2>3. QED
    BY <2>2 DEF Current
<1>5. Current(new)'
  BY <1>2 DEF Current
<1>7. NoCircle'
  <2>1. /\ DOMAIN redirects' = DOMAIN redirects \cup {old}
        /\ redirects'[old] = new
        /\ \A s \in DOMAIN redirects \ {old} : redirects'[s] = redirects[s]
    BY <1>2 DEF Moved
  <2>2. redirects \in [DOMAIN redirects -> Slugs] /\ DOMAIN redirects \subseteq Slugs
        /\ old \in Slugs
    BY <1>1, Listing DEF IInv, TypeOK
  <2>3. PICK after : after = [s \in Slugs |-> IF s = old THEN 0 ELSE rank[s] + 1]
    OBVIOUS
  <2>4. /\ after \in [Slugs -> Nat] /\ after[old] = 0
        /\ \A s \in Slugs \ {old} : after[s] = rank[s] + 1 /\ rank[s] \in Nat
    BY <2>2, <2>3
  <2>5. ASSUME NEW s \in DOMAIN redirects \ {old}, NEW t, t = redirects[s],
               ~(Current(s)'), ~(Current(t)'), ~(Deserted(s)'), ~(Deserted(t)')
        PROVE  after[t] < after[s]
    <3>1. s \in Slugs /\ t \in Slugs /\ ~Current(s) /\ ~Deserted(s)
      BY <1>4, <1>9, <2>2, <2>5
    <3>2. CASE t = old
      BY <2>4, <2>5, <3>1, <3>2
    <3>3. CASE t # old
      <4>1. ~Current(t) /\ ~Deserted(t)
        BY <1>4, <1>9, <2>5, <3>3
      <4>2. rank[t] < rank[s]
        BY <1>3, <2>5, <3>1, <4>1 DEF RankedBy
      <4>3. after[s] = rank[s] + 1 /\ rank[s] \in Nat
        BY <2>4, <2>5, <3>1
      <4>4. after[t] = rank[t] + 1 /\ rank[t] \in Nat
        BY <2>4, <3>1, <3>3
      <4>5. QED
        BY <4>2, <4>3, <4>4
    <3>4. QED
      BY <3>2, <3>3
  <2>6. RankedBy(after)'
    <3>1. ASSUME NEW s \in DOMAIN redirects'
          PROVE  \/ Current(s)' \/ Current(redirects[s])'
                 \/ Deserted(s)' \/ Deserted(redirects[s])'
                 \/ after[redirects'[s]] < after[s]
      <4>1. CASE s = old
        <5>1. Current(redirects[s])'
          BY <1>5, <2>1, <4>1
        <5>2. QED
          BY <5>1
      <4>2. CASE s # old
        <5>1. s \in DOMAIN redirects \ {old} /\ redirects'[s] = redirects[s]
          BY <2>1, <4>2
        <5>2. PICK t : t = redirects[s]
          OBVIOUS
        <5>3. Current(s)' \/ Current(t)' \/ Deserted(s)' \/ Deserted(t)' \/ after[t] < after[s]
          BY <2>5, <5>1, <5>2
        <5>4. t = redirects'[s]
          BY <5>1, <5>2
        <5>5. QED
          BY <5>3, <5>4
      <4>3. QED
        BY <4>1, <4>2
    <3>2. QED
      BY <3>1 DEF RankedBy
  <2>7. QED
    BY <2>4, <2>6 DEF NoCircle
<1>8. QED
  BY <1>7

LEMMA UpdateKeepsNoCircle ==
    ASSUME NEW id \in DOMAIN rows, NEW a \in Row, IInv, IInv', NoCircle, Update(id, a)
    PROVE  NoCircle'
<1>1. Rewrites(id, a) /\ LeaveRedirect(rows[id].slug, a.slug)
  BY DEF Update
<1>2. \/ /\ UNCHANGED redirects
         /\ deserted' = IF a.slug = rows[id].slug THEN deserted
                        ELSE deserted \cup {rows[id].slug}
      \/ /\ a.slug # rows[id].slug
         /\ redirects' = Moved(rows[id].slug, a.slug) /\ deserted' = deserted \ {rows[id].slug}
  BY <1>1 DEF LeaveRedirect
<1>3. QED
  BY <1>1, <1>2, DesertingKeepsNoCircle, RedirectKeepsNoCircle

LEMMA ToolKeepsNoCircle ==
    ASSUME NEW id \in DOMAIN rows, NEW a \in Row, IInv, NoCircle, ToolUpdate(id, a)
    PROVE  NoCircle'
BY DesertingKeepsNoCircle DEF ToolUpdate

\* Where no slug on the way was given up without a redirect, redirects lead to
\* the articles.
THEOREM NoCircleInductive == Spec => [](IInv /\ NoCircle)
<1>1. Init => NoCircle
  <2>1. Init => DOMAIN redirects = {}
    BY DEF Init
  <2>2. [s \in Slugs |-> 0] \in [Slugs -> Nat]
    OBVIOUS
  <2>3. Init => RankedBy([s \in Slugs |-> 0])
    BY <2>1 DEF RankedBy
  <2>4. QED
    BY <2>2, <2>3 DEF NoCircle
<1>2. ASSUME IInv, IInv', NoCircle, [Next]_vars PROVE NoCircle'
  <2>1. ASSUME UNCHANGED <<rows, redirects, deserted>> PROVE NoCircle'
    BY <1>2, <2>1 DEF NoCircle, RankedBy, Current, Deserted
  <2>2. CASE \E a \in Row : Create(a)
    BY <1>2, <2>2, CreateKeepsNoCircle
  <2>3. ASSUME NEW id \in DOMAIN rows, Delete(id) PROVE NoCircle'
    BY <1>2, <2>3, DeleteKeepsNoCircle
  <2>4. ASSUME NEW id \in DOMAIN rows, NEW a \in Row, Update(id, a) \/ ToolUpdate(id, a)
        PROVE  NoCircle'
    BY <1>2, <2>4, UpdateKeepsNoCircle, ToolKeepsNoCircle
  <2>5. CASE \E p \in Passwords \cup {NoPass} : SetSitePass(p)
    BY <2>1, <2>5 DEF SetSitePass, site
  <2>6. CASE \E slug \in Slugs, input \in Passwords \cup {NoPass} : UnlockSubmit(slug, input)
    BY <2>1, <2>6 DEF UnlockSubmit, Sign, site
  <2>7. CASE ClockTicks \/ SignIn \/ SignOut
    BY <2>1, <2>7 DEF ClockTicks, SignIn, Sign, SignOut, site
  <2>8. CASE UNCHANGED vars
    BY <2>1, <2>8 DEF vars, site
  <2>9. CASE \E slug \in Slugs : UploadRefused(slug)
    BY <2>1, <2>9 DEF UploadRefused
  <2>10. QED
    BY <1>2, <2>2, <2>3, <2>4, <2>5, <2>6, <2>7, <2>8, <2>9 DEF Next
<1>3. QED
  BY <1>1, <1>2, Inductive, PTL DEF Spec

\* The responses on the way from a URL.
Way(cookie, url, f, m) ==
    f = [n \in 0..m |-> IF n = 0 THEN Respond(cookie, url) ELSE Hop(cookie, f[n - 1])]

LEMMA WayExists ==
    ASSUME NEW cookie, NEW url, NEW m \in Nat PROVE \E f : Way(cookie, url, f, m)
<1> DEFINE S == {k \in Nat : \E f : Way(cookie, url, f, k)}
<1>1. 0 \in S
  <2> DEFINE f == [n \in 0..0 |-> Respond(cookie, url)]
  <2>1. Way(cookie, url, f, 0)
    BY DEF Way
  <2>2. QED
    BY <2>1
<1>2. ASSUME NEW k \in Nat, k \in S PROVE k + 1 \in S
  <2>1. PICK f : Way(cookie, url, f, k)
    BY <1>2
  <2> DEFINE At(h, n) == IF n = 0 THEN Respond(cookie, url) ELSE Hop(cookie, h[n - 1])
             g == [n \in 0..k + 1 |-> At(f, n)]
  <2>2. ASSUME NEW n \in 0..k PROVE g[n] = f[n]
    BY <2>1 DEF Way
  <2>3. ASSUME NEW n \in 0..k + 1 PROVE At(f, n) = At(g, n)
    <3>1. CASE n = 0
      BY <3>1
    <3>2. CASE n # 0
      <4>1. n - 1 \in 0..k
        BY <3>2
      <4>2. g[n - 1] = f[n - 1]
        BY <2>2, <4>1
      <4> HIDE DEF g
      <4>3. QED
        BY <3>2, <4>2
    <3>3. QED
      BY <3>1, <3>2
  <2> HIDE DEF At
  <2>4. g = [n \in 0..k + 1 |-> At(g, n)]
    <3>1. [n \in 0..k + 1 |-> At(f, n)] = [n \in 0..k + 1 |-> At(g, n)]
      BY <2>3
    <3>2. QED
      BY <3>1
  <2> HIDE DEF g
  <2>5. Way(cookie, url, g, k + 1)
    BY <2>4 DEF Way, At
  <2>6. QED
    BY <2>5
<1> HIDE DEF S
<1>3. Nat \subseteq S
  BY <1>1, <1>2, UpTo
<1>4. QED
  BY <1>3 DEF S

\* Follow is what its definition says, for any number of slugs.
LEMMA FollowUnfold ==
    ASSUME NEW cookie, NEW url, IsFiniteSet(Slugs)
    PROVE  \E f : /\ Way(cookie, url, f, Hops) /\ Trail(cookie, url) = f
                 /\ Follow(cookie, url) = f[Hops]
<1> DEFINE P(f) == Way(cookie, url, f, Hops)
<1>1. Hops \in Nat
  BY FS_CardinalityType DEF Hops
<1>2. Trail(cookie, url) = (CHOOSE f : P(f))
  BY DEF Trail, Way
<1>3. \E f : P(f)
  BY <1>1, WayExists
<1> HIDE DEF P
<1>4. P(CHOOSE f : P(f))
  BY <1>3
<1>5. QED
  BY <1>2, <1>4 DEF P, Follow

-----------------------------------------------------------------------------

\* How many slugs are nearer to the articles.
Distance(rank, s) == Cardinality({t \in Slugs : rank[t] < rank[s]})

LEMMA DistanceFalls ==
    ASSUME NEW rank \in [Slugs -> Nat], NEW s \in Slugs, NEW t \in Slugs, IsFiniteSet(Slugs)
    PROVE  /\ Distance(rank, s) \in 0..Cardinality(Slugs)
           /\ rank[t] < rank[s] => Distance(rank, t) < Distance(rank, s)
<1> DEFINE A == {u \in Slugs : rank[u] < rank[s]}
           B == {u \in Slugs : rank[u] < rank[t]}
<1>1. A \in SUBSET Slugs /\ (rank[t] < rank[s] => B \in SUBSET A /\ t \in A /\ t \notin B)
  OBVIOUS
<1>2. Distance(rank, s) = Cardinality(A) /\ Distance(rank, t) = Cardinality(B)
  BY DEF Distance
<1> HIDE DEF A, B
<1>3. IsFiniteSet(A) /\ Cardinality(A) <= Cardinality(Slugs)
  BY <1>1, FS_Subset
<1>4. Cardinality(A) \in Nat /\ Cardinality(Slugs) \in Nat
  BY <1>3, FS_CardinalityType
<1>5. ASSUME rank[t] < rank[s] PROVE Cardinality(B) < Cardinality(A)
  <2>1. IsFiniteSet(B) /\ Cardinality(B) <= Cardinality(A) /\ Cardinality(A) # Cardinality(B)
    BY <1>1, <1>3, <1>5, FS_Subset
  <2>2. Cardinality(B) \in Nat
    BY <2>1, FS_CardinalityType
  <2>3. QED
    BY <1>4, <2>1, <2>2
<1>6. QED
  BY <1>2, <1>3, <1>4, <1>5

Gated(cookie, s) ==
    GetArticleBySlug(s) # 0 /\ Decision(cookie, GetArticleBySlug(s)) = "Password"

\* What the reader is sent to has an article, or is so near to one, or is the
\* unlock form of a gated one.
Leads(cookie, rank, to, n) ==
    \E s \in Slugs :
      \/ to = Url(<<s>>) /\ ((n >= 2 /\ Current(s)) \/ n >= 3 + Distance(rank, s))
      \/ to = Url(<<s, "unlock">>) /\ n >= 1 /\ Gated(cookie, s)

Near(cookie, rank, r, n) == Redirects(r) => Leads(cookie, rank, r.to, n)

LEMMA NoRedirects ==
    /\ ~Redirects(NotFound) /\ ~Redirects(UnlockView)
    /\ \A id : ~Redirects(RenderArticle(id))
    /\ \A cookie, slug, rel : /\ ~Redirects(UploadContent(cookie, slug))
                             /\ ~Redirects(UploadAsset(cookie, slug, rel))
    /\ \A status, path : Redirect(status, path).to = Url(path)
<1>1. NotFound.status = 404
  BY DEF NotFound, Response
<1>2. \A lists, shows, links : /\ Page(lists, shows, links).status = 200
                              /\ Bare(lists, shows, links).status = 200
  BY DEF Page, Bare, Response
<1>3. ASSUME NEW id, NEW lists, NEW shows, NEW links
      PROVE  Canonical(id, Page(lists, shows, links)).status = 200
  BY DEF Canonical, Page, Bare, Response
<1>4. ASSUME NEW id, NEW at PROVE ServeUploadDocument(id, at).status \in {200, 404}
  <2>1. PICK shows, links :
          \/ ServeUploadDocument(id, at) = NotFound
          \/ ServeUploadDocument(id, at) = Bare(<<>>, shows, links)
    BY DEF ServeUploadDocument
  <2>2. QED
    BY <1>1, <1>2, <2>1
<1>5. ASSUME NEW id PROVE RenderArticle(id).status \in {200, 404}
  BY <1>3, <1>4 DEF RenderArticle, ArticleView, HTMLFrameView
<1>6. ASSUME NEW cookie, NEW slug, NEW rel
      PROVE  /\ UploadContent(cookie, slug).status \in {200, 404}
             /\ UploadAsset(cookie, slug, rel).status \in {200, 404}
  <2>1. UploadContent(cookie, slug).status \in {200, 404}
    BY <1>1, <1>4 DEF UploadContent
  <2>2. UploadAsset(cookie, slug, rel).status \in {200, 404}
    BY <1>1, <1>2 DEF UploadAsset
  <2>3. QED
    BY <2>1, <2>2
<1>7. UnlockView.status = 200
  BY <1>2 DEF UnlockView
<1>8. \A status, path : Redirect(status, path).to = Url(path)
  BY DEF Redirect, Response
<1>9. QED
  BY <1>1, <1>5, <1>6, <1>7, <1>8 DEF Redirects

\* From an article's URL it is one hop less.
LEMMA ArticleLeads ==
    ASSUME NEW cookie, NEW rank \in [Slugs -> Nat], NEW s \in Slugs, NEW n \in Nat,
           IInv, IsFiniteSet(Slugs), RankedBy(rank),
           ~Deserted(s), ~Deserted(Article(cookie, s).to.path[1]),
           (n >= 1 /\ Current(s)) \/ n >= 2 + Distance(rank, s)
    PROVE  Near(cookie, rank, Article(cookie, s), n)
<1>1. PICK id : id = GetArticleBySlug(s)
  OBVIOUS
<1>2. Distance(rank, s) \in Nat
  BY DistanceFalls
<1>3. CASE id = 0
  <2>1. ~Current(s)
    BY <1>1, <1>3, ArticleFound, Listing DEF Current
  <2>2. n >= 2 + Distance(rank, s) /\ n >= 2
    BY <1>2, <2>1
  <2>3. CASE s \notin DOMAIN redirects
    BY <1>1, <1>3, <2>3, NoRedirects DEF Article, Near
  <2>4. CASE s \in DOMAIN redirects
    <3>1. PICK t \in Slugs : t = redirects[s]
      BY <2>4 DEF IInv, TypeOK
    <3>2. Article(cookie, s).to = Url(<<t>>)
      BY <1>1, <1>3, <2>4, <3>1, NoRedirects DEF Article
    <3>3. CASE Current(t)
      BY <2>2, <3>2, <3>3 DEF Near, Leads
    <3>6. ~Deserted(t)
      BY <3>2 DEF Url, Query
    <3>4. CASE ~Current(t)
      <4>1. rank[t] < rank[s]
        BY <2>1, <2>4, <3>1, <3>4, <3>6 DEF RankedBy
      <4>2. Distance(rank, t) < Distance(rank, s) /\ Distance(rank, t) \in Nat
        BY <4>1, DistanceFalls
      <4>3. n >= 3 + Distance(rank, t)
        BY <1>2, <2>2, <4>2
      <4>4. QED
        BY <3>2, <4>3 DEF Near, Leads
    <3>5. QED
      BY <3>3, <3>4
  <2>5. QED
    BY <2>3, <2>4
<1>4. CASE id # 0
  <2>1. n >= 1
    BY <1>2
  <2>2. CASE Decision(cookie, id) = "Password"
    <3>1. Article(cookie, s).to = Url(<<s, "unlock">>)
      BY <1>1, <1>4, <2>2, NoRedirects DEF Article
    <3>2. Gated(cookie, s)
      BY <1>1, <1>4, <2>2 DEF Gated
    <3>3. QED
      BY <2>1, <3>1, <3>2 DEF Near, Leads
  <2>3. CASE Decision(cookie, id) # "Password"
    <3>1. Article(cookie, s) = RenderArticle(id) \/ Article(cookie, s) = NotFound
      BY <1>1, <1>4, <2>3 DEF Article
    <3>2. QED
      BY <3>1, NoRedirects DEF Near
  <2>4. QED
    BY <2>2, <2>3
<1>5. QED
  BY <1>3, <1>4

\* The unlock form of an article that asks for a password is there.
LEMMA GateHasForm ==
    ASSUME NEW cookie \in Cookies, NEW s, IInv, Gated(cookie, s)
    PROVE  UnlockForm(cookie, s) = UnlockView
<1>1. PICK id : id = GetArticleBySlug(s)
  OBVIOUS
<1>2. id # 0 /\ id \in DOMAIN rows /\ Decision(cookie, id) = "Password"
  BY <1>1, FoundHasSlug DEF Gated
<1>3. rows[id].visibility \in {"public", "protected", "private"}
  BY <1>2, Listing DEF Row
<1>4. rows[id].status = "published" /\ rows[id].visibility = "protected"
      /\ ~IsAdmin(cookie) /\ ~IsUnlocked(id)
  BY <1>2, <1>3 DEF Decision, Decide
<1>5. ProtectedArticle(s) = id
  BY <1>1, <1>2, <1>4 DEF ProtectedArticle
<1>6. QED
  BY <1>2, <1>4, <1>5 DEF UnlockForm

\* Every hop is one nearer.
LEMMA HopLeads ==
    ASSUME NEW cookie \in Cookies, NEW rank \in [Slugs -> Nat], NEW r, NEW n \in Nat,
           IInv, IsFiniteSet(Slugs), RankedBy(rank), Near(cookie, rank, r, n + 1),
           ~Deserted(r.to.path[1]), ~Deserted(Hop(cookie, r).to.path[1])
    PROVE  Near(cookie, rank, Hop(cookie, r), n)
<1>1. CASE ~Redirects(r)
  BY <1>1 DEF Hop, Near
<1>2. CASE Redirects(r)
  <2>1. PICK s \in Slugs :
          \/ r.to = Url(<<s>>) /\ ((n + 1 >= 2 /\ Current(s)) \/ n + 1 >= 3 + Distance(rank, s))
          \/ r.to = Url(<<s, "unlock">>) /\ n + 1 >= 1 /\ Gated(cookie, s)
    BY <1>2 DEF Near, Leads
  <2>2. Hop(cookie, r) = Respond(cookie, r.to)
    BY <1>2 DEF Hop
  <2>3. Distance(rank, s) \in Nat
    BY DistanceFalls
  <2>4. ASSUME r.to = Url(<<s>>), (n + 1 >= 2 /\ Current(s)) \/ n + 1 >= 3 + Distance(rank, s)
        PROVE  Near(cookie, rank, Hop(cookie, r), n)
    <3>1. (n >= 1 /\ Current(s)) \/ n >= 2 + Distance(rank, s)
      BY <2>3, <2>4
    <3>3. Respond(cookie, Url(<<s>>)) = Article(cookie, s)
      BY SlugRoutes
    <3>4. Hop(cookie, r) = Article(cookie, s) /\ r.to.path[1] = s
      BY <2>2, <2>4, <3>3 DEF Url, Query
    <3>2. Near(cookie, rank, Article(cookie, s), n)
      BY <3>1, <3>4, ArticleLeads
    <3>5. QED
      BY <3>2, <3>4
  <2>5. ASSUME r.to = Url(<<s, "unlock">>), Gated(cookie, s)
        PROVE  Near(cookie, rank, Hop(cookie, r), n)
    <3>1. Respond(cookie, Url(<<s, "unlock">>)) = UnlockForm(cookie, s)
      BY SlugRoutes
    <3>2. Hop(cookie, r) = UnlockView
      BY <2>2, <2>5, <3>1, GateHasForm
    <3>3. QED
      BY <3>2, NoRedirects DEF Near
  <2>6. QED
    BY <2>1, <2>4, <2>5
<1>3. QED
  BY <1>1, <1>2

LEMMA UrlOfArticle ==
    ASSUME NEW url \in ArticleUrls
    PROVE  \/ \E s \in Slugs : url = Url(<<s>>)
           \/ \E s \in Slugs, w \in {"unlock", "~content", "asset"} : url = Url(<<s, w>>)
<1>1. CASE \E p \in Slugs \X {"unlock", "~content", "asset"} : url = Url(p)
  <2>1. PICK p \in Slugs \X {"unlock", "~content", "asset"} : url = Url(p)
    BY <1>1
  <2>2. /\ p = <<p[1], p[2]>> /\ p[1] \in Slugs
        /\ p[2] \in {"unlock", "~content", "asset"}
    OBVIOUS
  <2>3. url = Url(<<p[1], p[2]>>)
    BY <2>1, <2>2
  <2>4. QED
    BY <2>2, <2>3
<1>2. QED
  BY <1>1 DEF ArticleUrls

\* A reader who starts at any URL of an article is near enough.
LEMMA StartsNear ==
    ASSUME NEW cookie \in Cookies, NEW rank \in [Slugs -> Nat], NEW url \in ArticleUrls,
           IInv, IsFiniteSet(Slugs), RankedBy(rank),
           ~Deserted(url.path[1]), ~Deserted(Respond(cookie, url).to.path[1])
    PROVE  Near(cookie, rank, Respond(cookie, url), Hops)
<1>1. /\ Cardinality(Slugs) \in Nat /\ Hops \in Nat
      /\ Hops = Cardinality(Slugs) + 3 /\ Hops >= 3
  BY FS_CardinalityType DEF Hops
<1>2. ASSUME NEW s \in Slugs, url = Url(<<s>>) PROVE Near(cookie, rank, Respond(cookie, url), Hops)
  <2>1. Distance(rank, s) \in Nat /\ Distance(rank, s) <= Cardinality(Slugs)
    BY DistanceFalls
  <2>2. Hops >= 2 + Distance(rank, s)
    BY <1>1, <2>1
  <2>4. Respond(cookie, url) = Article(cookie, s) /\ url.path[1] = s
    BY <1>2, SlugRoutes DEF Url, Query
  <2>3. Near(cookie, rank, Article(cookie, s), Hops)
    BY <1>1, <2>2, <2>4, ArticleLeads
  <2>5. QED
    BY <2>3, <2>4
<1>3. ASSUME NEW s \in Slugs, url = Url(<<s, "unlock">>)
      PROVE  Near(cookie, rank, Respond(cookie, url), Hops)
  <2>1. Respond(cookie, Url(<<s, "unlock">>)) = UnlockForm(cookie, s)
    BY SlugRoutes
  <2>2. PICK id : id = ProtectedArticle(s)
    OBVIOUS
  <2>3. CASE id = 0
    <3>1. UnlockForm(cookie, s) = NotFound
      BY <2>2, <2>3 DEF UnlockForm
    <3>2. QED
      BY <1>3, <2>1, <3>1, NoRedirects DEF Near
  <2>4. CASE id # 0
    <3>1. Current(s)
      BY <2>2, <2>4, FoundHasSlug DEF ProtectedArticle, Current
    <3>2. UnlockForm(cookie, s) = UnlockView \/ UnlockForm(cookie, s) = Redirect(303, <<s>>)
      BY <2>2, <2>4 DEF UnlockForm
    <3>3. CASE UnlockForm(cookie, s) = UnlockView
      BY <1>3, <2>1, <3>3, NoRedirects DEF Near
    <3>4. CASE UnlockForm(cookie, s) = Redirect(303, <<s>>)
      <4>1. Respond(cookie, url).to = Url(<<s>>)
        BY <1>3, <2>1, <3>4, NoRedirects
      <4>2. QED
        BY <1>1, <3>1, <4>1 DEF Near, Leads
    <3>5. QED
      BY <3>2, <3>3, <3>4
  <2>5. QED
    BY <2>3, <2>4
<1>4. ASSUME NEW s \in Slugs, url = Url(<<s, "~content">>) \/ url = Url(<<s, "asset">>)
      PROVE  Near(cookie, rank, Respond(cookie, url), Hops)
  <2>1. /\ Respond(cookie, Url(<<s, "~content">>)) = UploadContent(cookie, s)
        /\ Respond(cookie, Url(<<s, "asset">>)) = UploadAsset(cookie, s, "asset")
    BY SlugRoutes
  <2>2. QED
    BY <1>4, <2>1, NoRedirects DEF Near
<1>5. \/ \E s \in Slugs : url = Url(<<s>>)
      \/ \E s \in Slugs, w \in {"unlock", "~content", "asset"} : url = Url(<<s, w>>)
  BY UrlOfArticle
<1>6. QED
  BY <1>2, <1>3, <1>4, <1>5

\* Every URL of an article settles, unless the way from it passes a slug that was
\* given up without a redirect (by update_article, a deletion, or a redirect that
\* could not be saved): the redirects of renames, however often they went back and
\* forth, of the gate and of its unlock form end within as many hops as there are
\* slugs, and three more, for any finite set of slugs.
THEOREM RedirectsCorrect == IsFiniteSet(Slugs) => (Spec => []RedirectsSettle)
<1> SUFFICES ASSUME IsFiniteSet(Slugs) PROVE Spec => []RedirectsSettle
  OBVIOUS
<1>1. ASSUME IInv, NoCircle PROVE RedirectsSettle
  <2> SUFFICES ASSUME NEW cookie \in Cookies, NEW url \in ArticleUrls,
                      Visited(cookie, url) \cap deserted = {}
      PROVE  ~Redirects(Follow(cookie, url))
    BY DEF RedirectsSettle
  <2>1. PICK rank \in [Slugs -> Nat] : RankedBy(rank)
    BY <1>1 DEF NoCircle
  <2>2. PICK f : /\ Way(cookie, url, f, Hops) /\ Trail(cookie, url) = f
                 /\ Follow(cookie, url) = f[Hops]
    BY FollowUnfold
  <2>11. /\ ~Deserted(url.path[1])
         /\ \A n \in Nat : n <= Hops => ~Deserted(f[n].to.path[1])
    <3>1. \A n \in Nat : n <= Hops => n \in 0..Hops
      BY FS_CardinalityType DEF Hops
    <3>2. /\ url.path[1] \in Visited(cookie, url)
          /\ \A n \in 0..Hops : f[n].to.path[1] \in Visited(cookie, url)
      BY <2>2 DEF Visited
    <3>3. QED
      BY <3>1, <3>2 DEF Deserted
  <2>3. Hops \in Nat
    BY FS_CardinalityType DEF Hops
  <2>4. /\ f[0] = Respond(cookie, url)
        /\ \A n \in Nat : n + 1 <= Hops => f[n + 1] = Hop(cookie, f[n])
    BY <2>2, <2>3 DEF Way
  <2> DEFINE S == {n \in Nat : n <= Hops => Near(cookie, rank, f[n], Hops - n)}
  <2>5. 0 \in S
    BY <1>1, <2>1, <2>3, <2>4, <2>11, StartsNear
  <2>6. ASSUME NEW n \in Nat, n \in S PROVE n + 1 \in S
    <3> SUFFICES ASSUME n + 1 <= Hops PROVE Near(cookie, rank, f[n + 1], Hops - (n + 1))
      OBVIOUS
    <3>1. PICK k, r : k \in Nat /\ k = Hops - (n + 1) /\ r = f[n]
      BY <2>3
    <3>2. Near(cookie, rank, r, k + 1)
      BY <2>3, <2>6, <3>1
    <3>3. Near(cookie, rank, Hop(cookie, r), k)
      <4>1. k \in Nat
        BY <3>1
      <4>2. ~Deserted(r.to.path[1]) /\ ~Deserted(Hop(cookie, r).to.path[1])
        BY <2>3, <2>4, <2>11, <3>1
      <4>3. QED
        BY <1>1, <2>1, <3>2, <4>1, <4>2, HopLeads
    <3>4. QED
      BY <2>4, <3>1, <3>3
  <2> HIDE DEF S
  <2>7. Nat \subseteq S
    BY <2>5, <2>6, UpTo
  <2>8. Near(cookie, rank, f[Hops], 0)
    <3>1. Hops \in S
      BY <2>3, <2>7
    <3>2. QED
      BY <2>3, <3>1 DEF S
  <2>9. ~Leads(cookie, rank, f[Hops].to, 0)
    <3>1. ASSUME NEW s \in Slugs PROVE ~(0 >= 3 + Distance(rank, s)) /\ ~(0 >= 2) /\ ~(0 >= 1)
      <4>1. Distance(rank, s) \in Nat
        BY DistanceFalls
      <4>2. QED
        BY <4>1
    <3>2. QED
      BY <3>1 DEF Leads
  <2>10. QED
    BY <2>2, <2>8, <2>9 DEF Near
<1>2. QED
  BY <1>1, NoCircleInductive, PTL

-----------------------------------------------------------------------------
(* The pages of the home page *)

\* The pages are as many as it takes, and all but the last are full.
LEMMA PagesNeeded ==
    ASSUME NEW total \in Nat
    PROVE  /\ TotalPages(total) \in Nat \ {0} /\ TotalPages(total) <= total + 1
           /\ total <= TotalPages(total) * PageSize
           /\ \A k \in 1..TotalPages(total) - 1 : k * PageSize < total
<1>1. PageSize \in Nat \ {0}
  BY ReaderAssumption
<1>2. PICK p \in Nat \ {0} : p = PageSize
  BY <1>1
<1>3. PICK n : n = (total + p - 1) \div p
  OBVIOUS
<1>4. n \in Nat /\ n * p <= total + p - 1 /\ total + p - 1 < n * p + p
  BY <1>3
<1>5. TotalPages(total) = IF n < 1 THEN 1 ELSE n
  BY <1>2, <1>3 DEF TotalPages
<1>6. n <= total
  BY <1>4
<1>7. ASSUME NEW k \in Nat, k < n PROVE k * p < total
  <2>1. PICK d \in Nat : n = k + 1 + d
    <3>1. n - k - 1 \in Nat /\ n = k + 1 + (n - k - 1)
      BY <1>4, <1>7
    <3>2. QED
      BY <3>1
  <2>2. n * p = k * p + p + d * p /\ d * p \in Nat /\ k * p \in Nat
    BY <2>1
  <2>3. QED
    BY <1>4, <2>2
<1>8. QED
  BY <1>2, <1>4, <1>5, <1>6, <1>7

\* Where page k ends, of the list of all.
PageEnd(k) ==
    IF k * PageSize < Len(AllPublic) THEN k * PageSize ELSE Len(AllPublic)

PageItems(k) == SubSeq(AllPublic, (k - 1) * PageSize + 1, PageEnd(k))

LastPage == TotalPages(Len(AllPublic))

LEMMA AllListed ==
    ASSUME IInv
    PROVE  /\ AllPublic \in Seq(Public) /\ Len(AllPublic) \in 0..MaxIds
           /\ Range(AllPublic) = Public /\ IsInjective(AllPublic)
           /\ \A m, n \in DOMAIN AllPublic : m < n => Before(AllPublic[m], AllPublic[n])
           /\ LastPage \in 1..MaxIds + 1
<1>1. Public \in SUBSET DOMAIN rows
  BY DEF Public
<1>2. AllPublic = Sorted(Public)
  BY DEF AllPublic, PublicPublished, Public
<1>3. Len(AllPublic) = Cardinality(Public)
  BY <1>1, <1>2, SortedOnce
<1>4. lastId \in Nat /\ lastId <= MaxIds /\ Public \in SUBSET (1..lastId) /\ MaxIds \in Nat
  BY <1>1, ReaderAssumption DEF IInv, TypeOK
<1>5. IsFiniteSet(1..lastId) /\ Cardinality(1..lastId) = lastId
  BY <1>4, FS_Interval
<1>6. Cardinality(Public) <= lastId /\ Cardinality(Public) \in Nat
  BY <1>4, <1>5, FS_Subset, FS_CardinalityType
<1>7. Len(AllPublic) \in 0..MaxIds
  BY <1>3, <1>4, <1>6
<1>8. LastPage \in 1..MaxIds + 1
  <2>1. PICK total \in Nat : total = Len(AllPublic)
    BY <1>7
  <2>2. TotalPages(total) \in Nat \ {0} /\ TotalPages(total) <= total + 1
    BY PagesNeeded
  <2>3. QED
    BY <1>4, <1>7, <2>1, <2>2 DEF LastPage
<1>9. QED
  BY <1>1, <1>2, <1>7, <1>8, SortedOnce

\* Pages begin where the one before ends; only those after the last are empty.
LEMMA PageEnds ==
    ASSUME NEW k \in 1..LastPage, IInv
    PROVE  /\ (k - 1) * PageSize \in Nat /\ (k - 1) * PageSize <= PageEnd(k)
           /\ PageEnd(k) \in 0..Len(AllPublic)
           /\ PageEnd(LastPage) = Len(AllPublic)
           /\ k # 1 => PageEnd(k - 1) = (k - 1) * PageSize
           /\ k # LastPage => Len(AllPublic) # 0
           /\ Len(AllPublic) # 0 => (k - 1) * PageSize < PageEnd(k)
<1>1. PICK p \in Nat \ {0} : p = PageSize
  BY ReaderAssumption
<1>2. PICK total \in Nat : total = Len(AllPublic)
  BY AllListed
<1>3. PICK last \in Nat \ {0} : last = LastPage
  BY AllListed
<1>4. total <= last * p /\ \A j \in 1..last - 1 : j * p < total
  BY <1>1, <1>2, <1>3, PagesNeeded DEF LastPage
<1>5. PageEnd(k) = IF k * p < total THEN k * p ELSE total
  BY <1>1, <1>2 DEF PageEnd
<1>6. PageEnd(LastPage) = total
  <2>1. PageEnd(last) = IF last * p < total THEN last * p ELSE total
    BY <1>1, <1>2 DEF PageEnd
  <2>2. QED
    BY <1>3, <1>4, <2>1
<1>7. PageEnd(k - 1) = IF (k - 1) * p < total THEN (k - 1) * p ELSE total
  BY <1>1, <1>2 DEF PageEnd
<1>8. k \in Nat /\ 1 <= k /\ k <= last
  BY <1>3
<1>9. k * p = (k - 1) * p + p /\ (k - 1) * p \in Nat
  <2>1. PICK j \in Nat : k = j + 1
    <3>1. k - 1 \in Nat /\ k = (k - 1) + 1
      BY <1>8
    <3>2. QED
      BY <3>1
  <2>2. (j + 1) * p = j * p + p /\ j * p \in Nat /\ (j + 1) - 1 = j
    OBVIOUS
  <2>3. QED
    BY <2>1, <2>2
<1>10. k # 1 => (k - 1) * p < total
  BY <1>4, <1>8
<1>11. k = 1 => (k - 1) * p = 0
  OBVIOUS
<1>12. k # last => total # 0
  <2>1. ASSUME k # last PROVE 1 * p < total
    BY <1>3, <1>4, <1>8, <2>1
  <2>2. QED
    BY <2>1
<1>13. QED
  BY <1>1, <1>2, <1>3, <1>5, <1>6, <1>7, <1>8, <1>9, <1>10, <1>11, <1>12

\* The response of the home page.
LEMMA HomePage ==
    ASSUME NEW k \in Nat \ {0}
    PROVE  Respond(NoCookie, Query(<<>>, k)) = IndexView(PageItems(k), k, LastPage)
<1>1. Respond(NoCookie, Query(<<>>, k)) = SiteRoute(NoCookie, <<>>, k)
  BY DEF Respond, Query
<1>2. SiteRoute(NoCookie, <<>>, k) = Index(k)
  BY SiteRoutes
<1>3. PICK p \in Nat \ {0} : p = PageSize
  BY ReaderAssumption
<1>4. (k - 1) * p + p = k * p /\ ~(k < 1)
  OBVIOUS
<1>5. Index(k) = IndexView(PageItems(k), k, LastPage)
  BY <1>3, <1>4 DEF Index, PageItems, PageEnd, LastPage
<1>6. QED
  BY <1>1, <1>2, <1>5

\* Its links to other pages are those of the pagination.
LEMMA PageLinks ==
    ASSUME NEW items, NEW k \in Nat \ {0}, NEW total, NEW p \in Nat \ {0}
    PROVE  /\ IndexView(items, k, total).lists = items
           /\ Link(Query(<<>>, p)) \in IndexView(items, k, total).links
                <=> items # <<>> /\ p \in {k - 1, k + 1} \cap 1..total
<1>1. \A lists, shows, links : /\ Page(lists, shows, links).lists = lists
                              /\ Page(lists, shows, links).links = links \cup LayoutLinks
  BY DEF Page, Bare, Response
<1>2. PICK l : l = Link(Query(<<>>, p))
  OBVIOUS
<1>3. /\ l.url.path = <<>> /\ l.url.arg = p
  BY <1>2 DEF Link, Query
<1>4. l \notin LayoutLinks
  <2>1. \A e \in LayoutLinks : e.url.arg = 0
    BY DEF LayoutLinks, Link, Url, Query
  <2>2. QED
    BY <1>3, <2>1
<1>5. ASSUME NEW i PROVE l # ArticleLink(i)
  <2>1. ArticleLink(i).url.path = <<rows[i].slug>>
    BY DEF ArticleLink, Url, Query
  <2>2. <<rows[i].slug>> # <<>>
    OBVIOUS
  <2>3. QED
    BY <1>3, <2>1, <2>2
<1>6. ASSUME NEW ids PROVE l \notin TagLinks(ids)
  <2>1. \A e \in TagLinks(ids) : \E t : e.url.path = <<"tag", t>>
    BY DEF TagLinks, Link, Url, Query
  <2>2. \A t : <<"tag", t>> # <<>>
    OBVIOUS
  <2>3. QED
    BY <1>3, <2>1, <2>2
<1>7. l \in Pagination(k, total) <=> p \in {k - 1, k + 1} \cap 1..total
  <2>1. \A q : Link(Query(<<>>, q)) = l <=> q = p
    BY <1>2 DEF Link, Query
  <2>2. QED
    BY <2>1 DEF Pagination
<1>8. CASE items = <<>>
  BY <1>1, <1>2, <1>4, <1>8 DEF IndexView
<1>9. CASE items # <<>>
  <2>1. IndexView(items, k, total) =
          Page(items, {}, {ArticleLink(i) : i \in Range(items)} \cup TagLinks(Range(items))
                          \cup Pagination(k, total))
    BY <1>9 DEF IndexView
  <2>2. l \notin {ArticleLink(i) : i \in Range(items)} /\ l \notin TagLinks(Range(items))
    BY <1>5, <1>6
  <2>3. QED
    BY <1>1, <1>2, <1>4, <1>7, <1>9, <2>1, <2>2
<1>10. QED
  BY <1>8, <1>9

LEMMA PageHasItems ==
    ASSUME NEW k \in 1..LastPage, IInv
    PROVE  /\ PageItems(k) \in Seq(Public)
           /\ PageItems(k) # <<>> <=> Len(AllPublic) # 0
<1>1. PICK n \in Nat, m \in Nat : n = (k - 1) * PageSize /\ m = PageEnd(k)
  BY PageEnds, AllListed
<1>2. PICK len \in Nat : len = Len(AllPublic)
  BY AllListed
<1>3. n <= m /\ m <= len /\ (len # 0 => n < m)
  BY <1>1, <1>2, PageEnds
<1>4. \A i \in n + 1..m : AllPublic[i] \in Public
  BY <1>1, <1>2, <1>3, AllListed
<1>5. n + 1 \in Int /\ m \in Int
  OBVIOUS
<1>6. /\ SubSeq(AllPublic, n + 1, m) \in Seq(Public)
      /\ Len(SubSeq(AllPublic, n + 1, m)) = IF n + 1 <= m THEN m - (n + 1) + 1 ELSE 0
  BY <1>4, <1>5, SubSeqProperties
<1>7. PageItems(k) = SubSeq(AllPublic, n + 1, m)
  BY <1>1 DEF PageItems
<1>8. Len(PageItems(k)) = 0 <=> len = 0
  BY <1>3, <1>6, <1>7
<1>9. QED
  BY <1>2, <1>6, <1>7, <1>8

\* The next-page links lead through all the pages.
LEMMA WalkIsAll ==
    ASSUME IInv
    PROVE  Walk = 1..LastPage
<1>1. PICK last \in Nat \ {0} : last = LastPage /\ last <= MaxIds + 1
  BY AllListed
<1>2. ASSUME NEW j \in 1..last
      PROVE  Link(Query(<<>>, j + 1)) \in Respond(NoCookie, Query(<<>>, j)).links <=> j # last
  <2>1. PICK p \in Nat \ {0} : p = j + 1
    BY <1>1
  <2>2. j \in Nat \ {0}
    BY <1>1
  <2>3. Respond(NoCookie, Query(<<>>, j)) = IndexView(PageItems(j), j, last)
    BY <1>1, <2>2, HomePage
  <2>4. Link(Query(<<>>, p)) \in IndexView(PageItems(j), j, last).links
          <=> PageItems(j) # <<>> /\ p \in {j - 1, j + 1} \cap 1..last
    BY <2>2, PageLinks
  <2>5. p \in {j - 1, j + 1} \cap 1..last <=> j # last
    BY <1>1, <2>1
  <2>6. j # last => PageItems(j) # <<>>
    BY <1>1, PageEnds, PageHasItems
  <2>7. QED
    BY <2>1, <2>3, <2>4, <2>5, <2>6
<1>3. MaxIds \in Nat
  BY ReaderAssumption
<1> DEFINE On(j) == Link(Query(<<>>, j + 1)) \in Respond(NoCookie, Query(<<>>, j)).links
<1>4. \A j \in 1..last : On(j) <=> j # last
  BY <1>2
<1> HIDE DEF On
<1>5. ASSUME NEW k \in 1..(MaxIds + 1)
      PROVE  (\A j \in 1..(k - 1) : On(j)) <=> k <= last
  <2>1. CASE k <= last
    BY <1>4, <1>3, <2>1
  <2>2. CASE ~(k <= last)
    <3>1. last \in 1..(k - 1) /\ last \in 1..last
      BY <1>1, <1>3, <2>2
    <3>2. QED
      BY <1>4, <2>2, <3>1
  <2>3. QED
    BY <2>1, <2>2
<1>6. Walk = {k \in 1..(MaxIds + 1) : k <= last}
  BY <1>5 DEF Walk, On
<1>7. QED
  BY <1>1, <1>3, <1>6

\* One page after the other is the list of all.
LEMMA PagesConcatenate ==
    ASSUME IInv, NEW pages, pages = [k \in 1..LastPage |-> PageItems(k)]
    PROVE  FlattenSeq(pages) = AllPublic
<1>1. PICK last \in Nat \ {0} : last = LastPage
  BY AllListed
<1>2. Len(pages) = last /\ DOMAIN pages = 1..last
  BY <1>1
<1> DEFINE P(f) == f = [i \in 1..last |-> IF i = 1 THEN pages[i] ELSE f[i - 1] \o pages[i]]
           UpToPage(i) == SubSeq(AllPublic, 1, PageEnd(i))
<1>3. FlattenSeq(pages) = (CHOOSE f : P(f))[last]
  BY <1>2 DEF FlattenSeq
<1>4. pages[1] = UpToPage(1)
  <2>1. pages[1] = PageItems(1)
    BY <1>1
  <2>2. (1 - 1) * PageSize + 1 = 1
    BY ReaderAssumption
  <2>3. QED
    BY <2>1, <2>2 DEF PageItems
<1>5. ASSUME NEW i \in 1..last, i # 1 PROVE UpToPage(i - 1) \o pages[i] = UpToPage(i)
  <2>1. PICK m \in Nat, n \in Nat : m = PageEnd(i - 1) /\ n = PageEnd(i)
    <3>1. PageEnd(i) \in Nat /\ (i - 1) * PageSize \in Nat
      BY <1>1, PageEnds, AllListed
    <3>2. PageEnd(i - 1) = (i - 1) * PageSize
      BY <1>1, <1>5, PageEnds
    <3>3. QED
      BY <3>1, <3>2
  <2>2. /\ m = (i - 1) * PageSize /\ m <= n /\ n <= Len(AllPublic) /\ Len(AllPublic) \in Nat
    BY <1>1, <1>5, <2>1, PageEnds, AllListed
  <2>3. pages[i] = SubSeq(AllPublic, m + 1, n)
    BY <1>1, <2>1, <2>2 DEF PageItems
  <2>4. 1 \in 1..Len(AllPublic) + 1 /\ m \in 1 - 1..Len(AllPublic) /\ n \in m..Len(AllPublic)
    BY <2>2
  <2>5. AllPublic \in Seq(Public)
    BY AllListed
  <2>6. SubSeq(AllPublic, 1, m) \o SubSeq(AllPublic, m + 1, n) = SubSeq(AllPublic, 1, n)
    BY <2>4, <2>5, ConcatAdjacentSubSeq
  <2>7. QED
    BY <2>1, <2>3, <2>6
<1>6. UpToPage(last) = AllPublic
  BY <1>1, PageEnds, AllListed, SubSeqFull
<1> HIDE DEF UpToPage
<1>7. P([i \in 1..last |-> UpToPage(i)])
  <2>1. PICK g : g = [i \in 1..last |-> UpToPage(i)]
    OBVIOUS
  <2>2. ASSUME NEW i \in 1..last
        PROVE  UpToPage(i) = IF i = 1 THEN pages[i] ELSE g[i - 1] \o pages[i]
    <3>1. CASE i = 1
      BY <1>4, <3>1
    <3>2. CASE i # 1
      <4>1. i - 1 \in 1..last
        BY <3>2
      <4>2. g[i - 1] = UpToPage(i - 1)
        BY <2>1, <4>1
      <4>3. QED
        BY <1>5, <3>2, <4>2
    <3>3. QED
      BY <3>1, <3>2
  <2>3. g = [i \in 1..last |-> IF i = 1 THEN pages[i] ELSE g[i - 1] \o pages[i]]
    BY <2>1, <2>2
  <2>4. QED
    BY <2>1, <2>3
<1> HIDE DEF P
<1>8. PICK f : P(f) /\ f = CHOOSE h : P(h)
  BY <1>7
<1>9. f = [i \in 1..last |-> IF i = 1 THEN pages[i] ELSE f[i - 1] \o pages[i]]
  BY <1>8 DEF P
<1> DEFINE S == {n \in Nat : n + 1 <= last => f[n + 1] = UpToPage(n + 1)}
<1>10. 0 \in S
  BY <1>4, <1>9
<1>11. ASSUME NEW n \in Nat, n \in S PROVE n + 1 \in S
  <2> SUFFICES ASSUME (n + 1) + 1 <= last PROVE f[(n + 1) + 1] = UpToPage((n + 1) + 1)
    OBVIOUS
  <2>1. PICK i \in 1..last : i = (n + 1) + 1 /\ i # 1 /\ i - 1 = n + 1
    OBVIOUS
  <2>2. f[i - 1] = UpToPage(i - 1)
    BY <1>11, <2>1
  <2>3. f[i] = f[i - 1] \o pages[i]
    BY <1>9, <2>1
  <2>4. f[i] = UpToPage(i)
    BY <1>5, <2>1, <2>2, <2>3
  <2>5. QED
    BY <2>1, <2>4
<1> HIDE DEF S
<1>12. Nat \subseteq S
  BY <1>10, <1>11, UpTo
<1>13. f[last] = UpToPage(last)
  <2>1. last - 1 \in S /\ (last - 1) + 1 = last
    BY <1>12
  <2>2. QED
    BY <2>1 DEF S
<1>14. QED
  BY <1>3, <1>6, <1>8, <1>13

\* In every state the walk through the pages of the home page shows every public
\* article once, in the order, for any size of a page and any number of articles.
THEOREM PagesCorrect == Spec => []PagesPartition
<1>1. ASSUME IInv PROVE PagesPartition
  <2>1. PICK last \in Nat \ {0} : last = LastPage /\ Walk = 1..last
    BY <1>1, WalkIsAll, AllListed
  <2>2. Cardinality(Walk) = last
    BY <2>1, FS_Interval
  <2>3. ASSUME NEW k \in 1..last
        PROVE  /\ Respond(NoCookie, Query(<<>>, k)).lists = PageItems(k)
               /\ Len(AllPublic) # 0 => Respond(NoCookie, Query(<<>>, k)).lists # <<>>
               /\ k # 1 => Link(Query(<<>>, k - 1)) \in Respond(NoCookie, Query(<<>>, k)).links
    <3>1. Respond(NoCookie, Query(<<>>, k)) = IndexView(PageItems(k), k, last)
      <4>1. k \in Nat \ {0}
        BY <2>1
      <4>2. QED
        BY <2>1, <4>1, HomePage
    <3>2. IndexView(PageItems(k), k, last).lists = PageItems(k)
      BY PageLinks
    <3>3. Len(AllPublic) # 0 => PageItems(k) # <<>>
      BY <1>1, <2>1, PageHasItems
    <3>4. ASSUME k # 1 PROVE Link(Query(<<>>, k - 1)) \in IndexView(PageItems(k), k, last).links
      <4>1. PICK p \in Nat \ {0} : p = k - 1 /\ p \in 1..last /\ p # last
        BY <3>4
      <4>2. PageItems(k) # <<>>
        BY <1>1, <2>1, <3>3, <4>1, PageEnds
      <4>3. Link(Query(<<>>, p)) \in IndexView(PageItems(k), k, last).links
        BY <4>1, <4>2, PageLinks
      <4>4. QED
        BY <4>1, <4>3
    <3>5. QED
      BY <3>1, <3>2, <3>3, <3>4
  <2>4. PICK pages : pages = [k \in 1..Cardinality(Walk) |-> Respond(NoCookie, Query(<<>>, k)).lists]
    OBVIOUS
  <2>5. pages = [k \in 1..LastPage |-> PageItems(k)]
    BY <2>1, <2>2, <2>3, <2>4
  <2>6. FlattenSeq(pages) = AllPublic
    BY <1>1, <2>5, PagesConcatenate
  <2>7. AllPublic # <<>> => Len(AllPublic) # 0
    BY <1>1, AllListed
  <2>8. /\ IsInjective(AllPublic) /\ Range(AllPublic) = {i \in DOMAIN rows : Listed(rows[i])}
        /\ \A m, n \in DOMAIN AllPublic : m < n => Before(AllPublic[m], AllPublic[n])
    BY <1>1, AllListed DEF Public
  <2>9. /\ \A k \in Walk : AllPublic # <<>> => Respond(NoCookie, Query(<<>>, k)).lists # <<>>
        /\ \A k \in Walk \ {1} :
             Link(Query(<<>>, k - 1)) \in Respond(NoCookie, Query(<<>>, k)).links
    BY <2>1, <2>3, <2>7
  <2>10. QED
    BY <2>4, <2>6, <2>8, <2>9 DEF PagesPartition
<1>2. QED
  BY <1>1, Inductive, PTL

-----------------------------------------------------------------------------
(* Where links lead *)

\* The link opens, and a link to an article leads to it; or it is to an upload
\* that went astray.
Good(cookie, l) ==
    LET r == Follow(cookie, l.url) IN
    \/ /\ r.status = 200
       /\ l.about # 0 => l.about \in r.shows \/ FrameLink(l.about) \in r.links
    \/ l.about \in astray

AllGood(cookie, links) == \A l \in links : Good(cookie, l)

\* A page that opens is where a reader stays; one redirect is followed.
LEMMA FollowStays ==
    ASSUME NEW cookie, NEW url, IsFiniteSet(Slugs)
    PROVE  /\ Respond(cookie, url).status = 200 => Follow(cookie, url) = Respond(cookie, url)
           /\ \A to : /\ Respond(cookie, url).status = 302 /\ Respond(cookie, url).to = to
                      /\ Respond(cookie, to).status = 200
                      => Follow(cookie, url) = Respond(cookie, to)
<1>1. PICK f : Way(cookie, url, f, Hops) /\ Follow(cookie, url) = f[Hops]
  BY FollowUnfold
<1>2. Hops \in Nat /\ Hops >= 1
  BY FS_CardinalityType DEF Hops
<1>3. /\ f[0] = Respond(cookie, url)
      /\ \A n \in Nat : n + 1 <= Hops => f[n + 1] = Hop(cookie, f[n])
  BY <1>1, <1>2 DEF Way
<1>4. ASSUME NEW m \in Nat, m <= Hops, f[m].status = 200 PROVE f[Hops] = f[m]
  <2> DEFINE S == {n \in Nat : m <= n /\ n <= Hops => f[n] = f[m]}
  <2>1. ASSUME NEW n \in Nat, n \in S PROVE n + 1 \in S
    <3> SUFFICES ASSUME m <= n + 1, n + 1 <= Hops PROVE f[n + 1] = f[m]
      OBVIOUS
    <3>1. CASE n + 1 = m
      BY <3>1
    <3>2. CASE n + 1 # m
      <4>1. f[n] = f[m]
        BY <2>1, <3>2, <1>2
      <4>2. f[n + 1] = Hop(cookie, f[n])
        BY <1>3
      <4>3. QED
        BY <1>4, <4>1, <4>2 DEF Hop, Redirects
    <3>3. QED
      BY <3>1, <3>2
  <2>2. 0 \in S
    OBVIOUS
  <2> HIDE DEF S
  <2>3. Nat \subseteq S
    BY <2>1, <2>2, UpTo
  <2>4. Hops \in S
    BY <1>2, <2>3
  <2>5. QED
    BY <1>2, <1>4, <2>4 DEF S
<1>5. Respond(cookie, url).status = 200 => Follow(cookie, url) = Respond(cookie, url)
  BY <1>1, <1>2, <1>3, <1>4
<1>6. ASSUME NEW to, Respond(cookie, url).status = 302, Respond(cookie, url).to = to,
             Respond(cookie, to).status = 200
      PROVE  Follow(cookie, url) = Respond(cookie, to)
  <2>1. f[1] = Hop(cookie, f[0])
    <3>1. f[0 + 1] = Hop(cookie, f[0])
      BY <1>2, <1>3
    <3>2. QED
      BY <3>1
  <2>2. f[1] = Respond(cookie, to)
    BY <1>3, <1>6, <2>1 DEF Hop, Redirects
  <2>3. QED
    BY <1>1, <1>2, <1>4, <1>6, <2>2
<1>7. QED
  BY <1>5, <1>6

LEMMA PagesOpen ==
    /\ \A lists, shows, links : /\ Page(lists, shows, links).status = 200
                                /\ Bare(lists, shows, links).status = 200
    /\ \A arg, tag : /\ Index(arg).status = 200 /\ Search(arg).status = 200
                     /\ Tag(tag).status = 200
    /\ ArchiveIndex.status = 200 /\ Syndication.status = 200
    /\ \A year, month : ValidYear(year) /\ ValidMonth(month) =>
                          ArchiveMonth(year, month).status = 200
<1>1. \A lists, shows, links : /\ Page(lists, shows, links).status = 200
                              /\ Bare(lists, shows, links).status = 200
  BY DEF Page, Bare, Response
<1>2. \A items : Summaries(items).status = 200 /\ ArchivePeriodView(items).status = 200
  BY DEF Summaries, ArchivePeriodView, Page, Bare, Response
<1>3. \A items, page, total : IndexView(items, page, total).status = 200
  BY <1>1 DEF IndexView
<1>4. ASSUME NEW arg, NEW tag
      PROVE  Index(arg).status = 200 /\ Search(arg).status = 200 /\ Tag(tag).status = 200
  BY <1>2, <1>3 DEF Index, Search, SearchView, Tag, TagView
<1>5. ArchiveIndex.status = 200 /\ Syndication.status = 200
  BY <1>1 DEF ArchiveIndex, ArchiveIndexView, Syndication, Feed
<1>6. \A year, month : ValidYear(year) /\ ValidMonth(month) => ArchiveMonth(year, month).status = 200
  BY <1>2 DEF ArchiveMonth
<1>7. QED
  BY <1>1, <1>4, <1>5, <1>6

\* Links of the site to its own pages.
LEMMA SiteLinksGood ==
    ASSUME NEW cookie \in Cookies, IInv, IsFiniteSet(Slugs)
    PROVE  /\ AllGood(cookie, LayoutLinks)
           /\ \A ids : AllGood(cookie, TagLinks(ids))
           /\ \A page, total : AllGood(cookie, Pagination(page, total))
           /\ \A d \in Dates : Good(cookie, Link(Url(<<"archive", d.year, d.month>>)))
           /\ Good(cookie, Link(Url(<<"archive">>)))
<1>1. ASSUME NEW path, NEW arg, path = <<>> \/ path[1] \in RouteWords,
             SiteRoute(cookie, path, arg).status = 200
      PROVE  Good(cookie, Link(Query(path, arg)))
  <2>1. Respond(cookie, Query(path, arg)) = SiteRoute(cookie, path, arg)
    BY <1>1 DEF Respond, Query
  <2>2. Follow(cookie, Query(path, arg)).status = 200
    BY <1>1, <2>1, FollowStays
  <2>3. QED
    BY <2>2 DEF Good, Link
<1>2. /\ <<"search">>[1] \in RouteWords /\ <<"archive">>[1] \in RouteWords
      /\ <<"admin">>[1] \in RouteWords /\ \A t : <<"tag", t>>[1] \in RouteWords
      /\ \A y, m : <<"archive", y, m>>[1] \in RouteWords
      /\ \A path \in FeedPaths : path[1] \in RouteWords
  <2>1. /\ "search" \in RouteWords /\ "archive" \in RouteWords /\ "admin" \in RouteWords
        /\ "tag" \in RouteWords /\ "feed" \in RouteWords /\ "feed.json" \in RouteWords
        /\ "sitemap.xml" \in RouteWords
    BY DEF RouteWords
  <2>2. \A path \in FeedPaths : path[1] \in {"feed", "feed.json", "sitemap.xml"}
    BY DEF FeedPaths
  <2>3. QED
    BY <2>1, <2>2
<1>3. ASSUME NEW arg PROVE Good(cookie, Link(Query(<<>>, arg)))
  BY <1>1, SiteRoutes, PagesOpen
<1>4. /\ Good(cookie, Link(Url(<<"search">>))) /\ Good(cookie, Link(Url(<<"archive">>)))
      /\ \A t : Good(cookie, Link(Url(<<"tag", t>>)))
      /\ \A path \in FeedPaths : Good(cookie, Link(Url(path)))
  BY <1>1, <1>2, SiteRoutes, PagesOpen DEF Url
<1>5. ASSUME NEW y, NEW m, ValidYear(y), ValidMonth(m)
      PROVE  Good(cookie, Link(Url(<<"archive", y, m>>)))
  <2>1. SiteRoute(cookie, <<"archive", y, m>>, 0) = ArchiveMonth(y, m)
    BY DEF SiteRoute, FeedPaths
  <2>2. SiteRoute(cookie, <<"archive", y, m>>, 0).status = 200
    BY <1>5, <2>1, PagesOpen
  <2>3. QED
    BY <1>1, <1>2, <2>2 DEF Url
<1>6. Good(cookie, Link(Url(<<"admin">>)))
  <2>1. Respond(cookie, Url(<<"admin">>)) = Dashboard(cookie)
    BY <1>2, SiteRoutes DEF Respond, Url, Query
  <2>2. Respond(cookie, Url(<<"admin", "login">>)).status = 200
    <3>1. <<"admin", "login">>[1] \in RouteWords
      BY DEF RouteWords
    <3>2. SiteRoute(cookie, <<"admin", "login">>, 0) = Page(<<>>, {}, {})
      BY DEF SiteRoute, FeedPaths
    <3>3. QED
      BY <3>1, <3>2, PagesOpen DEF Respond, Url, Query
  <2>3. CASE IsAdmin(cookie)
    <3>1. Dashboard(cookie) = Page(<<>>, {}, {})
      BY <2>3 DEF Dashboard
    <3>2. Respond(cookie, Url(<<"admin">>)).status = 200
      BY <2>1, <3>1, PagesOpen
    <3>3. QED
      BY <3>2, FollowStays DEF Good, Link
  <2>4. CASE ~IsAdmin(cookie)
    <3>1. /\ Respond(cookie, Url(<<"admin">>)).status = 302
          /\ Respond(cookie, Url(<<"admin">>)).to = Url(<<"admin", "login">>)
      BY <2>1, <2>4 DEF Dashboard, Redirect, Response
    <3>2. Follow(cookie, Url(<<"admin">>)).status = 200
      BY <2>2, <3>1, FollowStays
    <3>3. QED
      BY <3>2 DEF Good, Link
  <2>5. QED
    BY <2>3, <2>4
<1>7. AllGood(cookie, LayoutLinks)
  <2>1. \A l \in LayoutLinks : \/ l = Link(Query(<<>>, 0)) \/ l = Link(Url(<<"search">>))
                               \/ l = Link(Url(<<"archive">>)) \/ l = Link(Url(<<"admin">>))
                               \/ \E path \in FeedPaths : l = Link(Url(path))
    BY DEF LayoutLinks, Url
  <2>2. QED
    BY <1>3, <1>4, <1>6, <2>1 DEF AllGood
<1>8. ASSUME NEW ids PROVE AllGood(cookie, TagLinks(ids))
  BY <1>4 DEF AllGood, TagLinks
<1>9. ASSUME NEW page, NEW total PROVE AllGood(cookie, Pagination(page, total))
  BY <1>3 DEF AllGood, Pagination
<1>10. ASSUME NEW d \in Dates PROVE Good(cookie, Link(Url(<<"archive", d.year, d.month>>)))
  <2>1. ValidYear(d.year) /\ ValidMonth(d.month)
    BY ReaderAssumption DEF ValidYear, ValidMonth
  <2>2. QED
    BY <1>5, <2>1
<1>11. QED
  BY <1>4, <1>7, <1>8, <1>9, <1>10

\* Links to an article that the gate lets one see, to its frame and its files.
FileLink(id) == [url |-> Url(<<rows[id].slug, "asset">>), about |-> id]

LEMMA OwnLinksGood ==
    ASSUME NEW cookie \in Cookies, NEW id \in DOMAIN rows, IInv, IsFiniteSet(Slugs),
           Decision(cookie, id) = "Allow", id \notin astray
    PROVE  /\ Good(cookie, ArticleLink(id))
           /\ rows[id].c.type # "markdown" =>
                Good(cookie, FrameLink(id)) /\ Good(cookie, FileLink(id))
<1>0. Whole(id)
  BY NotAstray
<1>1. PICK slug \in Slugs : slug = rows[id].slug
  BY Listing
<1>2. /\ GetArticleBySlug(slug) = id /\ id # 0
      /\ rows[id].c.type \in {"markdown", "html_upload"}
  BY <1>1, ArticleFound, Listing, ReaderAssumption
<1>3. Respond(cookie, Url(<<slug>>)) = RenderArticle(id)
  BY <1>2, SlugRoutes DEF Article
<1>4. RenderArticle(id).status = 200
  <2>1. ASSUME NEW lists, NEW shows, NEW links
        PROVE  Canonical(id, Page(lists, shows, links)).status = 200
    BY DEF Canonical, Page, Bare, Response
  <2>2. CASE rows[id].c.type # "markdown"
    <3>1. HasFiles(id)
      BY <1>0, <2>2 DEF Whole
    <3>2. \A at : /\ ServeUploadDocument(id, at).status = 200
                 /\ ServeUploadDocument(id, at).shows = {id}
      BY <3>1, DocumentShows
    <3>3. QED
      BY <2>1, <2>2, <3>2 DEF RenderArticle, HTMLFrameView
  <2>3. QED
    BY <2>1, <2>2 DEF RenderArticle, ArticleView, HTMLFrameView
<1>5. Follow(cookie, Url(<<slug>>)) = RenderArticle(id)
  BY <1>3, <1>4, FollowStays
<1>6. id \in RenderArticle(id).shows \/ FrameLink(id) \in RenderArticle(id).links
  BY <1>0, RendersOne
<1>7. Good(cookie, ArticleLink(id))
  <2>1. ArticleLink(id).url = Url(<<slug>>) /\ ArticleLink(id).about = id
    BY <1>1 DEF ArticleLink
  <2>2. QED
    BY <1>4, <1>5, <1>6, <2>1 DEF Good
<1>8. ASSUME rows[id].c.type # "markdown" PROVE Good(cookie, FrameLink(id)) /\ Good(cookie, FileLink(id))
  <2>1. AllowedUpload(cookie, slug) = id
    BY <1>2, <1>8 DEF AllowedUpload
  <2>2. /\ UploadContent(cookie, slug).status = 200 /\ id \in UploadContent(cookie, slug).shows
        /\ UploadAsset(cookie, slug, "asset").status = 200
        /\ id \in UploadAsset(cookie, slug, "asset").shows
    <3>1. HasFiles(id)
      BY <1>0, <1>8 DEF Whole
    <3>2. UploadContent(cookie, slug) = ServeUploadDocument(id, <<slug, "~content">>)
      BY <1>2, <2>1 DEF UploadContent
    <3>3. UploadAsset(cookie, slug, "asset") = Bare(<<>>, {id}, {})
      BY <1>1, <1>2, <2>1, <3>1 DEF UploadAsset, HasFiles
    <3>4. Bare(<<>>, {id}, {}).status = 200 /\ Bare(<<>>, {id}, {}).shows = {id}
      BY DEF Bare, Response
    <3>5. \A at : /\ ServeUploadDocument(id, at).status = 200
                 /\ ServeUploadDocument(id, at).shows = {id}
      BY <3>1, DocumentShows
    <3>6. UploadContent(cookie, slug).status = 200 /\ UploadContent(cookie, slug).shows = {id}
      BY <3>2, <3>5
    <3>7. QED
      BY <3>3, <3>4, <3>6
  <2>3. /\ Follow(cookie, Url(<<slug, "~content">>)) = UploadContent(cookie, slug)
        /\ Follow(cookie, Url(<<slug, "asset">>)) = UploadAsset(cookie, slug, "asset")
    <3>1. /\ Respond(cookie, Url(<<slug, "~content">>)) = UploadContent(cookie, slug)
          /\ Respond(cookie, Url(<<slug, "asset">>)) = UploadAsset(cookie, slug, "asset")
      BY SlugRoutes
    <3>2. Follow(cookie, Url(<<slug, "~content">>)) = Respond(cookie, Url(<<slug, "~content">>))
      BY <2>2, <3>1, FollowStays
    <3>3. Follow(cookie, Url(<<slug, "asset">>)) = Respond(cookie, Url(<<slug, "asset">>))
      BY <2>2, <3>1, FollowStays
    <3>4. QED
      BY <3>1, <3>2, <3>3
  <2>4. /\ FrameLink(id).url = Url(<<slug, "~content">>) /\ FrameLink(id).about = id
        /\ FileLink(id).url = Url(<<slug, "asset">>) /\ FileLink(id).about = id
    BY <1>1 DEF FrameLink, FileLink
  <2>5. Good(cookie, FrameLink(id))
    BY <2>2, <2>3, <2>4 DEF Good
  <2>6. Good(cookie, FileLink(id))
    BY <2>2, <2>3, <2>4 DEF Good
  <2>7. QED
    BY <2>5, <2>6
<1>9. QED
  BY <1>7, <1>8

LEMMA ArticleLinksGood ==
    ASSUME NEW cookie \in Cookies, NEW id \in DOMAIN rows, IInv, IsFiniteSet(Slugs),
           Decision(cookie, id) = "Allow"
    PROVE  /\ Good(cookie, ArticleLink(id))
           /\ rows[id].c.type # "markdown" =>
                Good(cookie, FrameLink(id)) /\ Good(cookie, FileLink(id))
<1>1. ArticleLink(id).about = id /\ FrameLink(id).about = id /\ FileLink(id).about = id
  BY DEF ArticleLink, FrameLink, FileLink
<1>2. CASE id \in astray
  BY <1>1, <1>2 DEF Good
<1>3. CASE id \notin astray
  BY <1>3, OwnLinksGood
<1>4. QED
  BY <1>2, <1>3

LEMMA DocumentLinks ==
    ASSUME NEW id, NEW at PROVE ServeUploadDocument(id, at).links \subseteq {FileLink(id)}
<1>1. PICK slug : slug = rows[id].slug
  OBVIOUS
<1>2. NotFound.links = {} /\ \A shows, links : Bare(<<>>, shows, links).links = links
  BY DEF NotFound, Bare, Response
<1>3. \/ ServeUploadDocument(id, at) = NotFound
      \/ ServeUploadDocument(id, at) = Bare(<<>>, {dirs[slug].of}, {})
      \/ ServeUploadDocument(id, at) = Bare(<<>>, {dirs[slug].of}, {FileLink(id)})
  BY <1>1 DEF ServeUploadDocument, FileLink
<1>4. QED
  BY <1>2, <1>3

LEMMA ListedGood ==
    ASSUME NEW cookie \in Cookies, NEW ids \in SUBSET Public, IInv, IsFiniteSet(Slugs)
    PROVE  AllGood(cookie, {ArticleLink(i) : i \in ids})
<1>1. ASSUME NEW i \in ids PROVE Good(cookie, ArticleLink(i))
  <2>1. i \in DOMAIN rows /\ Decision(cookie, i) = "Allow"
    BY DEF Public, Listed, Decision, Decide
  <2>2. QED
    BY <2>1, ArticleLinksGood
<1>2. QED
  BY <1>1 DEF AllGood

-----------------------------------------------------------------------------
(* What each page links to *)

LEMMA ViewsGood ==
    ASSUME NEW cookie \in Cookies, NEW items, IInv, IsFiniteSet(Slugs), Range(items) \subseteq Public
    PROVE  /\ AllGood(cookie, Summaries(items).links)
           /\ AllGood(cookie, ArchivePeriodView(items).links)
           /\ \A page, total : AllGood(cookie, IndexView(items, page, total).links)
           /\ AllGood(cookie, Feed(items).links)
<1> DEFINE to == {ArticleLink(i) : i \in Range(items)}
           tags == TagLinks(Range(items))
<1>1. \A lists, shows, links : /\ Page(lists, shows, links).links = links \cup LayoutLinks
                              /\ Bare(lists, shows, links).links = links
  BY DEF Page, Bare, Response
<1>2. AllGood(cookie, to) /\ AllGood(cookie, tags) /\ AllGood(cookie, LayoutLinks)
  BY ListedGood, SiteLinksGood
<1>3. ASSUME NEW A, NEW B, AllGood(cookie, A), AllGood(cookie, B)
      PROVE  AllGood(cookie, A \cup B)
  BY <1>3 DEF AllGood
<1>4. Summaries(items).links = (to \cup tags) \cup LayoutLinks
  BY <1>1 DEF Summaries
<1>5. ArchivePeriodView(items).links = ((to \cup tags) \cup LayoutLinks) \cup {Link(Url(<<"archive">>))}
  BY DEF ArchivePeriodView, Summaries, Page, Bare, Response
<1>6. Feed(items).links = to
  BY <1>1 DEF Feed
<1>7. ASSUME NEW page, NEW total
      PROVE  \/ IndexView(items, page, total).links = LayoutLinks
             \/ IndexView(items, page, total).links
                  = ((to \cup tags) \cup Pagination(page, total)) \cup LayoutLinks
  <2>1. CASE items = <<>>
    <3>1. IndexView(items, page, total) = Page(items, {}, {})
      BY <2>1 DEF IndexView
    <3>2. Page(items, {}, {}).links = LayoutLinks
      BY DEF Page, Bare, Response
    <3>3. QED
      BY <3>1, <3>2
  <2>2. CASE items # <<>>
    <3>1. IndexView(items, page, total) = Page(items, {}, (to \cup tags) \cup Pagination(page, total))
      BY <2>2 DEF IndexView
    <3>2. QED
      BY <1>1, <3>1
  <2>3. QED
    BY <2>1, <2>2
<1> HIDE DEF to, tags
<1>8. AllGood(cookie, {Link(Url(<<"archive">>))})
  BY SiteLinksGood DEF AllGood
<1>9. ASSUME NEW page, NEW total PROVE AllGood(cookie, IndexView(items, page, total).links)
  <2>1. AllGood(cookie, Pagination(page, total))
    BY SiteLinksGood
  <2>2. QED
    BY <1>2, <1>7, <2>1 DEF AllGood
<1>10. AllGood(cookie, (to \cup tags) \cup LayoutLinks)
  BY <1>2, <1>3
<1>11. AllGood(cookie, ((to \cup tags) \cup LayoutLinks) \cup {Link(Url(<<"archive">>))})
  BY <1>3, <1>8, <1>10
<1>12. QED
  BY <1>2, <1>4, <1>5, <1>6, <1>9, <1>10, <1>11

\* Every page of a list links to public articles and to the site.
LEMMA ListPagesGood ==
    ASSUME NEW cookie \in Cookies, NEW url \in ListUrls, IInv, IsFiniteSet(Slugs)
    PROVE  AllGood(cookie, Respond(cookie, url).links)
<1>1. ASSUME NEW S \in SUBSET DOMAIN rows PROVE Range(PublicPublished(S)) \subseteq Public
  BY <1>1, ListsThose
<1>2. Range(AllPublic) \subseteq Public /\ Range(<<>>) \subseteq Public
  BY AllListed DEF Range
<1>3. ASSUME NEW arg \in Nat PROVE AllGood(cookie, Index(arg).links)
  <2>1. PICK page \in Nat \ {0} : page = IF arg < 1 THEN 1 ELSE arg
    OBVIOUS
  <2>2. PICK p \in Nat \ {0} : p = PageSize
    BY ReaderAssumption
  <2>3. PICK n \in Nat : n = (page - 1) * p
    <3>1. PICK j \in Nat : j = page - 1
      OBVIOUS
    <3>2. j * p \in Nat
      OBVIOUS
    <3>3. QED
      BY <3>1, <3>2
  <2>4. PICK len \in Nat : len = Len(AllPublic)
    BY AllListed
  <2>5. PICK m \in Nat : m = IF n + p < len THEN n + p ELSE len
    OBVIOUS
  <2>6. Index(arg) = IndexView(SubSeq(AllPublic, n + 1, m), page, TotalPages(len))
    BY <2>1, <2>2, <2>3, <2>4, <2>5 DEF Index
  <2>7. \A i \in n + 1..m : AllPublic[i] \in Public
    BY <2>4, <2>5, AllListed
  <2>8. SubSeq(AllPublic, n + 1, m) \in Seq(Public)
    BY <2>7, SubSeqProperties
  <2>9. Range(SubSeq(AllPublic, n + 1, m)) \subseteq Public
    BY <2>8 DEF Range
  <2>10. QED
    BY <2>6, <2>9, ViewsGood
<1>4. ASSUME NEW word PROVE AllGood(cookie, Search(word).links)
  <2>1. PICK S : S = {i \in DOMAIN rows : word \in rows[i].c.words}
    OBVIOUS
  <2>2. Search(word) = Summaries(<<>>) \/ Search(word) = Summaries(PublicPublished(S))
    BY <2>1 DEF Search, SearchView
  <2>3. Range(PublicPublished(S)) \subseteq Public
    BY <1>1, <2>1
  <2>4. QED
    BY <1>2, <2>2, <2>3, ViewsGood
<1>5. ASSUME NEW tag PROVE AllGood(cookie, Tag(tag).links)
  <2>1. PICK S : S = {i \in DOMAIN rows : tag \in rows[i].c.tags}
    OBVIOUS
  <2>2. Tag(tag) = Summaries(PublicPublished(S))
    BY <2>1 DEF Tag, TagView
  <2>3. Range(PublicPublished(S)) \subseteq Public
    BY <1>1, <2>1
  <2>4. QED
    BY <2>2, <2>3, ViewsGood
<1>6. BadRequest.links = {} /\ AllGood(cookie, {})
  BY DEF BadRequest, Response, AllGood
<1>7. ASSUME NEW year PROVE AllGood(cookie, ArchiveYear(year).links)
  <2>1. PICK S : S = {i \in DOMAIN rows : ArticleDate(i).year = year}
    OBVIOUS
  <2>2. ArchiveYear(year) = BadRequest \/ ArchiveYear(year) = ArchivePeriodView(PublicPublished(S))
    BY <2>1 DEF ArchiveYear
  <2>3. Range(PublicPublished(S)) \subseteq Public
    BY <1>1, <2>1
  <2>4. QED
    BY <1>6, <2>2, <2>3, ViewsGood
<1>8. ASSUME NEW year, NEW month PROVE AllGood(cookie, ArchiveMonth(year, month).links)
  <2>1. PICK S : S = {i \in DOMAIN rows : ArticleDate(i).year = year /\ ArticleDate(i).month = month}
    OBVIOUS
  <2>2. \/ ArchiveMonth(year, month) = BadRequest
        \/ ArchiveMonth(year, month) = ArchivePeriodView(PublicPublished(S))
    BY <2>1 DEF ArchiveMonth
  <2>3. Range(PublicPublished(S)) \subseteq Public
    BY <1>1, <2>1
  <2>4. QED
    BY <1>6, <2>2, <2>3, ViewsGood
<1>9. AllGood(cookie, Syndication.links)
  BY <1>2, ViewsGood DEF Syndication
<1>10. AllGood(cookie, ArchiveIndex.links)
  <2>1. PICK months : months = GroupByMonth(Range(AllPublic))
    OBVIOUS
  <2>2. DOMAIN months \subseteq Dates
    BY <1>2, <2>1, Listing DEF GroupByMonth, Public
  <2>3. ArchiveIndex.links =
          {Link(Url(<<"archive", d.year, d.month>>)) : d \in DOMAIN months} \cup LayoutLinks
    BY <2>1 DEF ArchiveIndex, ArchiveIndexView, Page, Bare, Response
  <2>4. AllGood(cookie, LayoutLinks)
        /\ \A d \in DOMAIN months : Good(cookie, Link(Url(<<"archive", d.year, d.month>>)))
    BY <2>2, SiteLinksGood
  <2>5. QED
    BY <2>3, <2>4 DEF AllGood
<1>11. AllGood(cookie, Dashboard(cookie).links)
  <2>1. Dashboard(cookie).links \subseteq LayoutLinks
    BY DEF Dashboard, Redirect, Page, Bare, Response
  <2>2. AllGood(cookie, LayoutLinks)
    BY SiteLinksGood
  <2>3. QED
    BY <2>1, <2>2 DEF AllGood
<1>12. QED
  BY <1>3, <1>4, <1>5, <1>7, <1>8, <1>9, <1>10, <1>11, ListResponds

LEMMA RenderGood ==
    ASSUME NEW cookie \in Cookies, NEW id \in DOMAIN rows, IInv, IsFiniteSet(Slugs),
           Decision(cookie, id) = "Allow"
    PROVE  AllGood(cookie, RenderArticle(id).links)
<1>1. /\ Good(cookie, ArticleLink(id))
      /\ rows[id].c.type # "markdown" => Good(cookie, FrameLink(id)) /\ Good(cookie, FileLink(id))
  BY ArticleLinksGood
<1>2. AllGood(cookie, LayoutLinks) /\ AllGood(cookie, TagLinks({id}))
  BY SiteLinksGood
<1>3. ASSUME NEW lists, NEW shows, NEW links
      PROVE  Canonical(id, Page(lists, shows, links)).links
               = (links \cup LayoutLinks) \cup {ArticleLink(id)}
  BY DEF Canonical, Page, Bare, Response
<1>4. CASE rows[id].c.type = "markdown"
  <2>1. BacklinksFor(id) \subseteq Public
    BY DEF BacklinksFor, Public
  <2>2. AllGood(cookie, {ArticleLink(b) : b \in BacklinksFor(id)})
    BY <2>1, ListedGood
  <2>3. PICK links : links = TagLinks({id}) \cup {ArticleLink(b) : b \in BacklinksFor(id)}
    OBVIOUS
  <2>4. RenderArticle(id) = Canonical(id, Page(<<>>, {id}, links))
    BY <1>4, <2>3 DEF RenderArticle, ArticleView
  <2>5. RenderArticle(id).links = (links \cup LayoutLinks) \cup {ArticleLink(id)}
    BY <1>3, <2>4
  <2>6. QED
    BY <1>1, <1>2, <2>2, <2>3, <2>5 DEF AllGood
<1>5. CASE rows[id].c.type # "markdown" /\ rows[id].c.raw
  <2>1. RenderArticle(id).links \subseteq {FileLink(id)}
    BY <1>5, DocumentLinks DEF RenderArticle
  <2>2. QED
    BY <1>1, <1>5, <2>1 DEF AllGood
<1>6. CASE rows[id].c.type # "markdown" /\ ~rows[id].c.raw
  <2>1. RenderArticle(id).links = ({FrameLink(id)} \cup LayoutLinks) \cup {ArticleLink(id)}
    BY <1>3, <1>6 DEF RenderArticle, HTMLFrameView
  <2>2. QED
    BY <1>1, <1>2, <1>6, <2>1 DEF AllGood
<1>7. QED
  BY <1>4, <1>5, <1>6

LEMMA ArticlePagesGood ==
    ASSUME NEW cookie \in Cookies, NEW url \in ArticleUrls, IInv, IsFiniteSet(Slugs)
    PROVE  AllGood(cookie, Respond(cookie, url).links)
<1>1. /\ NotFound.links = {} /\ \A status, path : Redirect(status, path).links = {}
      /\ AllGood(cookie, {})
  BY DEF NotFound, Redirect, Response, AllGood
<1>2. ASSUME NEW slug \in Slugs, url = Url(<<slug>>) PROVE AllGood(cookie, Respond(cookie, url).links)
  <2>1. Respond(cookie, url) = Article(cookie, slug)
    BY <1>2, SlugRoutes
  <2>2. PICK id : id = GetArticleBySlug(slug)
    OBVIOUS
  <2>3. CASE id # 0 /\ Decision(cookie, id) = "Allow"
    <3>1. id \in DOMAIN rows
      BY <2>2, <2>3, FoundHasSlug
    <3>2. Article(cookie, slug) = RenderArticle(id)
      BY <2>2, <2>3 DEF Article
    <3>3. QED
      BY <2>1, <2>3, <3>1, <3>2, RenderGood
  <2>4. CASE ~(id # 0 /\ Decision(cookie, id) = "Allow")
    <3>1. \/ Article(cookie, slug) = NotFound
          \/ \E status, path : Article(cookie, slug) = Redirect(status, path)
      BY <2>2, <2>4, ZenonT(60) DEF Article
    <3>2. QED
      BY <1>1, <2>1, <3>1
  <2>5. QED
    BY <2>3, <2>4
<1>3. ASSUME NEW slug \in Slugs, url = Url(<<slug, "unlock">>)
      PROVE  AllGood(cookie, Respond(cookie, url).links)
  <2>1. Respond(cookie, url) = UnlockForm(cookie, slug)
    BY <1>3, SlugRoutes
  <2>2. UnlockView.links \subseteq LayoutLinks
    BY DEF UnlockView, Page, Bare, Response
  <2>3. AllGood(cookie, UnlockView.links)
    BY <2>2, SiteLinksGood DEF AllGood
  <2>4. AllGood(cookie, NotFound.links) /\ AllGood(cookie, Redirect(303, <<slug>>).links)
    BY <1>1
  <2>5. \/ UnlockForm(cookie, slug) = NotFound \/ UnlockForm(cookie, slug) = UnlockView
        \/ UnlockForm(cookie, slug) = Redirect(303, <<slug>>)
    BY DEF UnlockForm
  <2>6. QED
    BY <2>1, <2>3, <2>4, <2>5
<1>4. ASSUME NEW slug \in Slugs, url = Url(<<slug, "~content">>)
      PROVE  AllGood(cookie, Respond(cookie, url).links)
  <2>1. Respond(cookie, url) = UploadContent(cookie, slug)
    BY <1>4, SlugRoutes
  <2>2. PICK id : id = AllowedUpload(cookie, slug)
    OBVIOUS
  <2>3. CASE id = 0
    BY <1>1, <2>1, <2>2, <2>3 DEF UploadContent
  <2>4. CASE id # 0
    <3>1. id \in DOMAIN rows /\ rows[id].c.type # "markdown" /\ Decision(cookie, id) = "Allow"
      BY <2>2, <2>4, FoundHasSlug DEF AllowedUpload
    <3>2. UploadContent(cookie, slug).links \subseteq {FileLink(id)}
      BY <2>2, <2>4, DocumentLinks DEF UploadContent
    <3>3. QED
      BY <2>1, <3>1, <3>2, ArticleLinksGood DEF AllGood
  <2>5. QED
    BY <2>3, <2>4
<1>5. ASSUME NEW slug \in Slugs, url = Url(<<slug, "asset">>)
      PROVE  AllGood(cookie, Respond(cookie, url).links)
  <2>1. Respond(cookie, url) = UploadAsset(cookie, slug, "asset")
    BY <1>5, SlugRoutes
  <2>2. UploadAsset(cookie, slug, "asset").links = {}
    BY <1>1 DEF UploadAsset, Bare, Response
  <2>3. QED
    BY <1>1, <2>1, <2>2
<1>6. QED
  BY <1>2, <1>3, <1>4, <1>5, UrlOfArticle

LEMMA PreviewGood ==
    ASSUME NEW cookie \in Cookies, NEW url \in PreviewUrls, IInv, IsFiniteSet(Slugs)
    PROVE  AllGood(cookie, Respond(cookie, url).links)
<1>1. PICK id \in IDs : url = Url(<<"preview", id>>)
  BY DEF PreviewUrls
<1>2. <<"preview", id>>[1] \in RouteWords
  BY DEF RouteWords
<1>3. SiteRoute(cookie, <<"preview", id>>, 0) = Preview(id)
  BY DEF SiteRoute, FeedPaths
<1>4. Respond(cookie, url) = Preview(id)
  BY <1>1, <1>2, <1>3 DEF Respond, Url, Query
<1>5. Preview(id).links \subseteq TagLinks({id}) \cup LayoutLinks
  BY DEF Preview, ArticleView, NotFound, Page, Bare, Response
<1>6. AllGood(cookie, LayoutLinks) /\ AllGood(cookie, TagLinks({id}))
  BY SiteLinksGood
<1>7. QED
  BY <1>4, <1>5, <1>6 DEF AllGood

\* In every state the only links of the site that may be dead or lead elsewhere are
\* those to uploads that went astray from their files, for any finite set of slugs
\* none of which the search takes for another one, any contents, dates and
\* passwords.
THEOREM LinksCorrect ==
    IsFiniteSet(Slugs) /\ (\A s \in Slugs : Matches[s] = {s}) => (Spec => []LinksLead)
<1> SUFFICES ASSUME IsFiniteSet(Slugs), \A s \in Slugs : Matches[s] = {s}
    PROVE  Spec => []LinksLead
  OBVIOUS
<1>1. ASSUME IInv PROVE LinksLead
  <2>1. BacklinksTrue
    <3> SUFFICES ASSUME NEW id \in DOMAIN rows, NEW b \in BacklinksFor(id)
        PROVE  Url(<<rows[id].slug>>) \in WikiLinks(b)
      BY DEF BacklinksTrue
    <3>1. Matches[rows[id].slug] = {rows[id].slug}
      BY <1>1, Listing
    <3>2. rows[id].slug \in rows[b].c.links
      BY <3>1 DEF BacklinksFor
    <3>3. QED
      BY <3>2 DEF WikiLinks
  <2>2. ASSUME NEW cookie \in Cookies,
               NEW l \in UNION {Respond(cookie, url).links :
                                url \in ArticleUrls \cup PreviewUrls \cup ListUrls}
        PROVE  Good(cookie, l)
    <3>1. PICK url \in ArticleUrls \cup PreviewUrls \cup ListUrls : l \in Respond(cookie, url).links
      OBVIOUS
    <3>2. AllGood(cookie, Respond(cookie, url).links)
      BY <1>1, ArticlePagesGood, PreviewGood, ListPagesGood
    <3>3. QED
      BY <3>1, <3>2 DEF AllGood
  <2>3. QED
    BY <2>1, <2>2 DEF LinksLead, Good
<1>2. QED
  BY <1>1, Inductive, PTL
=============================================================================
