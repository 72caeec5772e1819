------------------------- MODULE PublishingHistory -------------------------
(***************************************************************************)
(* Publishing with a memory of who had which URL, and the reader's way to  *)
(* an article: the slug lookup and the redirects Public.Article falls back *)
(* to (handler/public.go, handler/redirects.go).                           *)
(***************************************************************************)
EXTENDS Publishing, FiniteSets

VARIABLE owner   \* history: the last article that had the slug

hvars == <<rows, redirects, dirs, req, due, clock, faults, owner>>

\* The article a row table has at a slug.
ArticleAt(slug) == {id \in Ids : Exists(id) /\ rows[id].slug = slug}

\* Where the client gets from each path with at most n redirects: the slug
\* lookup first, else the redirect of that path (Public.Article).
Ends[n \in 0..Cardinality(Slugs)] ==
    [s \in AnySlug |->
       IF ArticleAt(s) # {} THEN CHOOSE id \in ArticleAt(s) : TRUE
       ELSE IF n = 0 \/ s = NoSlug \/ redirects[s] = NoSlug THEN NoId
       ELSE Ends[n - 1][redirects[s]]]

\* The client follows the 301s for as many hops as there are paths.
Follow(slug) == IF slug = NoSlug THEN NoId ELSE Ends[Cardinality(Slugs)][slug]

Remember ==
    owner' = [s \in Slugs |->
                IF ArticleAt(s)' # {}
                THEN CHOOSE id \in ArticleAt(s)' : TRUE ELSE owner[s]]

\* Clients that give an article only slugs no other article has, had, or is
\* being uploaded under, and rename it in the admin form only: update_article
\* can change a slug too, and leaves no redirect.
FreshSlugs ==
    /\ \A w \in Workers : ~Busy(w) /\ Busy(w)' =>
         LET s == req'[w].new.slug IN
         /\ s # NoSlug /\ owner[s] \in {NoId, req'[w].id}
         /\ \A v \in Workers : Busy(v) => req[v].new.slug # s \/ req[v].id # NoId
    /\ \A id \in Ids : ~Exists(id) /\ Exists(id)' =>
         owner[rows'[id].slug] = NoId
    /\ \A w \in McpCalls : At(w, "patch")' =>
         req'[w].new.slug = req'[w].oldSlug

HInit == Init /\ owner = [s \in Slugs |-> NoId]

HNext == Next /\ Remember

\* Clients that may reuse a slug.
HSpec == HInit /\ [][HNext]_hvars

FreshNext == HNext /\ FreshSlugs

FreshSpec == HInit /\ [][FreshNext]_hvars

\* Once nothing runs, a URL an article was the last to have still leads to it
\* (UpdateArticle, CreateRedirect, tryRedirect).
OldUrlsWork ==
    (\A w \in Workers : ~Busy(w)) =>
      \A s \in Slugs :
        owner[s] # NoId /\ Exists(owner[s]) => Follow(s) = owner[s]

\* A page in the table always has its files: they are written before its row
\* and removed after it, so neither a crash nor another request shows a page
\* without files (Upload.Submit, ArticleAdmin.Delete).
PagesHaveFiles ==
    \A id \in Ids : Exists(id) /\ rows[id].type = "html_upload" =>
                      dirs[rows[id].slug] = "full"
=============================================================================
