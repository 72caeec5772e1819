------------------------------ MODULE PgStore -------------------------------
(***************************************************************************)
(* The PostgreSQL store (internal/store/postgres over internal/store/sqlc) *)
(* and the calls of several statements that run on it: RenameTag, the      *)
(* settings form and the creation of the admin when servers start.  One    *)
(* client works at a time, except that servers may start at any moment     *)
(* (overlapping writers of articles: see Publishing).  Any statement may   *)
(* fail.                                                                   *)
(***************************************************************************)
EXTENDS Integers, Sequences, FiniteSets, SequencesExt

CONSTANTS
    Slugs, NoSlug, Tags, NoTag, TagLists, Contents, Paths, NoPath,
    Keys, Values, Unset,
    KeyOrder,   \* the order in which the settings form writes its keys
    Servers,    \* server processes
    Admin,      \* WIKIBUILD_ADMIN_USER
    HashOf,     \* the hash each server makes of its WIKIBUILD_ADMIN_PASS
    Int32Max,   \* 2^31 - 1, reduced: OFFSET is sent as an int32
    MaxIds,     \* bound: ids the sequence gives out
    MaxFaults   \* bound: statements that fail

\* The empty filter of a query: no tag is empty.
NoFilter == "any"

ASSUME PgStoreAssumption ==
    /\ KeyOrder \in Seq(Keys) /\ Range(KeyOrder) = Keys /\ KeyOrder # <<>>
    /\ TagLists \subseteq Seq(Tags) /\ NoFilter \notin Tags /\ NoTag \notin Tags
    /\ \A c \in Contents : c.pinned \in BOOLEAN
    /\ Int32Max \in Nat /\ MaxIds \in Nat /\ MaxFaults \in Nat

VARIABLES
    rows,       \* the articles table: id -> row
    seq,        \* articles_id_seq: the last id given out, also to a failed INSERT
    born,       \* history: the ids that became articles, in order
    redirects,  \* the redirects table in order of its ids
    users,      \* the users table: username -> hash
    settings,   \* the settings table, Unset for a key without a row
    job,        \* the call of several statements that is running
    servers,    \* where each server is in ensureAdmin
    reply,      \* what the last call returned
    faults      \* statements that failed so far

vars == <<rows, seq, born, redirects, users, settings, job, servers, reply, faults>>

Row == [slug : Slugs \cup {NoSlug}, tags : TagLists, c : Contents]

\* Which call it was, and what it returned.
Answer(call, err, id, n) == [call |-> call, err |-> err, id |-> id, n |-> n]
Ok(call, id, n) == Answer(call, "none", id, n)

NoJob == [op |-> "none"]

Quiet == job = NoJob

Serving == \E s \in Servers : servers[s] = "up"

\* What a call changes besides its table is its reply.
Articles(r) == reply' = r /\ UNCHANGED <<redirects, users, settings, job, servers, faults>>

Refused(call, err) == Articles(Answer(call, err, 0, 0)) /\ UNCHANGED <<rows, seq, born>>

-----------------------------------------------------------------------------
(* Articles: one statement each *)

Live == DOMAIN rows

\* articles_slug_key, for a row written under id.
SlugTaken(slug, id) == \E other \in Live \ {id} : rows[other].slug = slug

\* Mutant: ON CONFLICT (slug) the row is replaced.
CreateArticle_Upsert(a) ==
    /\ Quiet /\ seq < MaxIds
    /\ \/ a.slug = NoSlug /\ Refused("CreateArticle", "ErrEmptySlug")
       \/ /\ a.slug # NoSlug
          /\ seq' = seq + 1
          /\ rows' = [i \in {j \in Live : rows[j].slug # a.slug} \cup {seq'} |->
                        IF i = seq' THEN a ELSE rows[i]]
          /\ born' = Append(born, seq')
          /\ Articles(Ok("CreateArticle", seq', 0))

\* CreateArticle: the INSERT takes an id before it meets the UNIQUE index, so
\* a duplicate slug costs an id.
CreateArticle(a) ==
    /\ Quiet /\ seq < MaxIds
    /\ \/ a.slug = NoSlug /\ Refused("CreateArticle", "ErrEmptySlug")
       \/ /\ a.slug # NoSlug
          /\ seq' = seq + 1
          /\ IF SlugTaken(a.slug, seq')
             THEN Articles(Answer("CreateArticle", "ErrDuplicateSlug", 0, 0)) /\ UNCHANGED <<rows, born>>
             ELSE /\ rows' = [i \in Live \cup {seq'} |-> IF i = seq' THEN a ELSE rows[i]]
                  /\ born' = Append(born, seq')
                  /\ Articles(Ok("CreateArticle", seq', 0))

UpdateArticle(id, a) ==
    /\ Quiet
    /\ \/ id \notin Live /\ Refused("UpdateArticle", "ErrNotFound")
       \/ id \in Live /\ SlugTaken(a.slug, id) /\ Refused("UpdateArticle", "ErrDuplicateSlug")
       \/ /\ id \in Live /\ ~SlugTaken(a.slug, id)
          /\ rows' = [rows EXCEPT ![id] = a]
          /\ Articles(Ok("UpdateArticle", 0, 0)) /\ UNCHANGED <<seq, born>>

\* A DELETE that finds no row is no error (:exec).
DeleteArticle(id) ==
    /\ Quiet
    /\ rows' = [i \in Live \ {id} |-> rows[i]]
    /\ Articles(Ok("DeleteArticle", 0, 0)) /\ UNCHANGED <<seq, born>>

GetArticleBySlug(slug) ==
    LET found == {i \in Live : rows[i].slug = slug} IN
    IF found = {} THEN 0 ELSE CHOOSE i \in found : TRUE

Matches(q, a) ==
    /\ q.status \in {NoFilter, a.c.status}
    /\ q.visibility \in {NoFilter, a.c.visibility}
    /\ q.tag = NoFilter \/ q.tag \in Range(a.tags)
    /\ q.search \in {NoFilter, a.c.body}

\* Mutant: the oldest article first.
Order_Oldest(i, j) ==
    IF rows[i].c.pinned = rows[j].c.pinned THEN i < j ELSE rows[i].c.pinned

\* ORDER BY pinned DESC, id DESC
Order(i, j) ==
    IF rows[i].c.pinned = rows[j].c.pinned THEN i > j ELSE rows[i].c.pinned

\* Each article stands behind the ones that go before it.
Sorted(ids) ==
    [k \in 1..Cardinality(ids) |->
       CHOOSE i \in ids : Cardinality({j \in ids : Order(j, i)}) = k - 1]

\* int32(n), as Go converts it.
Int32(n) == ((n + Int32Max + 1) % (2 * (Int32Max + 1))) - (Int32Max + 1)

\* LIMIT NULLIF(@max_rows, 0) OFFSET @skip, and the count of the same WHERE.
\* A negative OFFSET is an error.
ListArticles(q) ==
    LET all == Sorted({i \in Live : Matches(q, rows[i])})
        skip == Int32(q.offset)
        last == IF q.limit = 0 THEN Len(all) ELSE skip + q.limit
    IN IF skip < 0 THEN [items |-> <<>>, total |-> -1]
       ELSE [items |-> SubSeq(all, skip + 1, IF last < Len(all) THEN last ELSE Len(all)),
             total |-> Len(all)]

\* Counted in Go over an unfiltered list.
ListTags ==
    LET items == ListArticles([status |-> NoFilter, visibility |-> NoFilter, tag |-> NoFilter,
                               search |-> NoFilter, limit |-> 0, offset |-> 0]).items
        entries == UNION {{k} \X DOMAIN rows[items[k]].tags : k \in DOMAIN items}
        TagOf(e) == rows[items[e[1]]].tags[e[2]]
    IN [t \in {TagOf(e) : e \in entries} |-> Cardinality({e \in entries : TagOf(e) = t})]

-----------------------------------------------------------------------------
(* RenameTag: one query, then one full-row UPDATE per article *)

\* rewriteTags: out[k] is what the loop has put out after k tags.
RewriteTags(tags, from, to) ==
    LET out[k \in 0..Len(tags)] ==
          IF k = 0 THEN <<>>
          ELSE LET t == IF tags[k] = from THEN to ELSE tags[k] IN
               IF t \in Range(out[k - 1]) THEN out[k - 1] ELSE Append(out[k - 1], t)
    IN IF from \in Range(tags) THEN out[Len(tags)] ELSE tags

\* Mutant: the blank name is not refused.
RenameList_Blank(from, to) ==
    /\ Quiet /\ Serving
    /\ job' = [op |-> "rename", from |-> from, to |-> to, n |-> 0, was |-> rows,
               left |-> SetToSeq({i \in Live : from \in Range(rows[i].tags)})]
    /\ UNCHANGED <<rows, seq, born, redirects, users, settings, servers, reply, faults>>

\* RenameTag up to its first write: from = to does nothing.
\* `was' is a history variable: the table as the call found it.
RenameTag(from, to) ==
    \/ from = to /\ Articles(Ok("RenameTag", 0, 0)) /\ UNCHANGED <<rows, seq, born>>
    \/ /\ from # to
       /\ job' = [op |-> "rename", from |-> from, to |-> to, n |-> 0, was |-> rows,
                  left |-> ListArticles([status |-> NoFilter, visibility |-> NoFilter,
                             tag |-> from, search |-> NoFilter, limit |-> 0,
                             offset |-> 0]).items]
       /\ UNCHANGED <<rows, seq, born, redirects, users, settings, servers, reply, faults>>

\* Tags.Rename and Tags.Merge refuse blank names, as RenameTag would.
RenameList(from, to) ==
    /\ Quiet /\ Serving
    /\ \/ NoTag \in {from, to} /\ Refused("RenameTag", "ErrEmptyTag")
       \/ NoTag \notin {from, to} /\ RenameTag(from, to)

\* Mutant: of two articles to rename the second is left out.
RenameWrite_SkipsNext ==
    /\ job.op = "rename" /\ job.left # <<>>
    /\ LET id == Head(job.left) IN
       rows' = [rows EXCEPT ![id] = [job.was[id] EXCEPT
                  !.tags = RewriteTags(@, job.from, job.to)]]
    /\ job' = [job EXCEPT !.left = SubSeq(@, 3, Len(@)), !.n = @ + 1]
    /\ UNCHANGED <<seq, born, redirects, users, settings, servers, reply, faults>>

\* The row as it was listed, with its new tags.
RenameWrite ==
    /\ job.op = "rename" /\ job.left # <<>>
    /\ LET id == Head(job.left) IN
       rows' = [rows EXCEPT ![id] = [job.was[id] EXCEPT
                  !.tags = RewriteTags(@, job.from, job.to)]]
    /\ job' = [job EXCEPT !.left = Tail(@), !.n = @ + 1]
    /\ UNCHANGED <<seq, born, redirects, users, settings, servers, reply, faults>>

RenameReturn ==
    /\ job.op = "rename" /\ job.left = <<>>
    /\ job' = NoJob
    /\ reply' = Ok("RenameTag", 0, job.n)
    /\ UNCHANGED <<rows, seq, born, redirects, users, settings, servers, faults>>

-----------------------------------------------------------------------------
(* Redirects *)

CreateRedirect(from, to) ==
    /\ Quiet /\ Serving
    /\ \/ NoPath \in {from, to} /\ reply' = Answer("CreateRedirect", "ErrEmptyPath", 0, 0) /\ UNCHANGED redirects
       \/ /\ NoPath \notin {from, to}
          \* INSERT .. ON CONFLICT (from_path) DO UPDATE SET to_path
          /\ redirects' =
               IF \E i \in DOMAIN redirects : redirects[i].from = from
               THEN [i \in DOMAIN redirects |->
                       IF redirects[i].from = from THEN [redirects[i] EXCEPT !.to = to]
                       ELSE redirects[i]]
               ELSE Append(redirects, [from |-> from, to |-> to])
          /\ reply' = Ok("CreateRedirect", 0, 0)
    /\ UNCHANGED <<rows, seq, born, users, settings, job, servers, faults>>

\* DeleteRedirect reads the row first to report one that is missing; a path has
\* at most one.
DeleteRedirect(from) ==
    /\ Quiet /\ Serving
    /\ \/ /\ \A i \in DOMAIN redirects : redirects[i].from # from
          /\ reply' = Answer("DeleteRedirect", "ErrNotFound", 0, 0) /\ UNCHANGED redirects
       \/ \E i \in DOMAIN redirects :
            /\ redirects[i].from = from
            /\ redirects' = RemoveAt(redirects, i)
            /\ reply' = Ok("DeleteRedirect", 0, 0)
    /\ UNCHANGED <<rows, seq, born, users, settings, job, servers, faults>>

-----------------------------------------------------------------------------
(* Settings: handler/settings.go writes the keys of its form one by one *)

SaveStart(form) ==
    /\ Quiet /\ Serving
    /\ job' = [op |-> "save", form |-> form, left |-> KeyOrder]
    /\ UNCHANGED <<rows, seq, born, redirects, users, settings, servers, reply, faults>>

\* Mutant: an empty field is not written.
SaveWrite_SkipsEmpty ==
    /\ job.op = "save" /\ job.left # <<>>
    /\ LET key == Head(job.left) IN
       settings' = IF job.form[key] = Unset THEN settings
                   ELSE [settings EXCEPT ![key] = job.form[key]]
    /\ job' = IF Len(job.left) = 1 THEN NoJob ELSE [job EXCEPT !.left = Tail(@)]
    /\ reply' = Ok("SetSetting", 0, 0)
    /\ UNCHANGED <<rows, seq, born, redirects, users, servers, faults>>

\* SetSetting, an upsert.
SaveWrite ==
    /\ job.op = "save" /\ job.left # <<>>
    /\ LET key == Head(job.left) IN
       settings' = [settings EXCEPT ![key] = job.form[key]]
    /\ job' = IF Len(job.left) = 1 THEN NoJob ELSE [job EXCEPT !.left = Tail(@)]
    /\ reply' = Ok("SetSetting", 0, 0)
    /\ UNCHANGED <<rows, seq, born, redirects, users, servers, faults>>

-----------------------------------------------------------------------------
(* A statement fails: the call returns its error and does not go on *)

Calls == {"CreateArticle", "UpdateArticle", "DeleteArticle", "RenameTag",
          "CreateRedirect", "DeleteRedirect", "SetSetting"}

\* The call whose statement it is.
Current == CASE job.op = "rename" -> {"RenameTag"}
             [] job.op = "save" -> {"SetSetting"}
             [] OTHER -> Calls

Fails ==
    /\ faults < MaxFaults /\ faults' = faults + 1
    /\ job' = NoJob
    /\ \E call \in Current : reply' = Answer(call, "failed", 0, 0)
    /\ UNCHANGED <<rows, seq, born, redirects, users, settings, servers>>

-----------------------------------------------------------------------------
(* cmd/wikibuild/main.go: ensureAdmin, in each server that starts *)

BootLook(s) ==
    /\ servers[s] = "down"
    /\ servers' = [servers EXCEPT ![s] = IF Admin \in DOMAIN users THEN "up" ELSE "creating"]
    /\ UNCHANGED <<rows, seq, born, redirects, users, settings, job, reply, faults>>

\* Mutant: the admin is written whether it is there or not.
BootCreate_Upsert(s) ==
    /\ servers[s] = "creating"
    /\ users' = [u \in DOMAIN users \cup {Admin} |-> IF u = Admin THEN HashOf[s] ELSE users[u]]
    /\ servers' = [servers EXCEPT ![s] = "up"]
    /\ reply' = Ok("CreateUser", 0, 0)
    /\ UNCHANGED <<rows, seq, born, redirects, settings, job, faults>>

\* CreateUser: on a duplicate name run returns the error and the server exits.
BootCreate(s) ==
    /\ servers[s] = "creating"
    /\ IF Admin \in DOMAIN users
       THEN /\ servers' = [servers EXCEPT ![s] = "down"]
            /\ reply' = Answer("CreateUser", "ErrDuplicateUsername", 0, 0)
            /\ UNCHANGED users
       ELSE /\ servers' = [servers EXCEPT ![s] = "up"]
            /\ users' = [u \in DOMAIN users \cup {Admin} |->
                           IF u = Admin THEN HashOf[s] ELSE users[u]]
            /\ reply' = Ok("CreateUser", 0, 0)
    /\ UNCHANGED <<rows, seq, born, redirects, settings, job, faults>>

\* A server stops for whatever reason: it is told to, it dies, or a statement of
\* ensureAdmin failed.
ServerStops(s) ==
    /\ servers[s] # "down"
    /\ servers' = [servers EXCEPT ![s] = "down"]
    /\ UNCHANGED <<rows, seq, born, redirects, users, settings, job, reply, faults>>

-----------------------------------------------------------------------------

Init ==
    /\ rows = <<>> /\ seq = 0 /\ born = <<>>
    /\ redirects = <<>>
    /\ users = <<>>
    /\ settings = [k \in Keys |-> Unset]
    /\ job = NoJob
    /\ servers = [s \in Servers |-> "down"]
    /\ reply = Ok("start", 0, 0)
    /\ faults = 0

ArticleCall ==
    \/ \E a \in Row : CreateArticle(a)
    \/ \E id \in 1..MaxIds, a \in Row : UpdateArticle(id, a)
    \/ \E id \in 1..MaxIds : DeleteArticle(id)
    \/ \E from, to \in Tags \cup {NoTag} : RenameList(from, to)
    \/ RenameWrite \/ RenameReturn

OtherCall ==
    \/ \E from, to \in Paths \cup {NoPath} : CreateRedirect(from, to)
    \/ \E from \in Paths : DeleteRedirect(from)
    \/ \E form \in [Keys -> Values \cup {Unset}] : SaveStart(form)
    \/ SaveWrite

Next ==
    \/ ArticleCall \/ OtherCall \/ Fails
    \/ \E s \in Servers : BootLook(s) \/ BootCreate(s) \/ ServerStops(s)

Spec == Init /\ [][Next]_vars

-----------------------------------------------------------------------------
(* The store keeps the promise of store.Repository *)

\* Callers cannot count on the numbers: an id is known by its place in the
\* order of creation.
Rank(id) == IF id = 0 THEN 0 ELSE CHOOSE k \in DOMAIN born : born[k] = id

Ranked(items) == [k \in DOMAIN items |-> Rank(items[k])]

\* A rename takes effect for its caller when it returns.
Settled == IF job.op = "rename" THEN job.was ELSE rows

ByID == [k \in {j \in DOMAIN born : born[j] \in Live} |-> Settled[born[k]]]

BySlug == [s \in {rows[i].slug : i \in Live} |-> Rank(GetArticleBySlug(s))]

Told == [reply EXCEPT !.id = Rank(reply.id)]

Promise == INSTANCE Repository WITH
    Usernames <- {Admin},
    Hashes <- {HashOf[s] : s \in Servers},
    GoneAnswers <- {"ErrNotFound", "none"},
    nextID <- Len(born), byID <- ByID, bySlug <- BySlug, reply <- Told

\* Every call of the PostgreSQL store, failed ones included, has an effect and a
\* reply that the in-memory store could have had, but for one in which the two
\* differ: deleting an article that is not there is ErrNotFound in memory and no
\* error in PostgreSQL (inmem.Store.DeleteArticle, postgres.Repository.DeleteArticle).
KeepsPromise == Promise!Spec

Query(status, visibility, tag, limit, offset) ==
    [status |-> status, visibility |-> visibility, tag |-> tag,
     search |-> NoFilter, limit |-> limit, offset |-> offset]

\* Every filter (the admin lists, tag and month pages, feeds) and every page of
\* the home page.
Queries ==
    {Query(st, v, t, 0, 0) : st \in {NoFilter} \cup {c.status : c \in Contents},
                             v \in {NoFilter} \cup {c.visibility : c \in Contents},
                             t \in {NoFilter} \cup Tags}
    \cup {Query("published", "public", NoFilter, limit, offset) :
            limit \in 1..2, offset \in 0..Int32Max}

\* Outside a rename every read returns what the in-memory store returns: the
\* article of a slug, the tag counts, and each page of each filtered list with
\* its total, as long as the offset fits in 32 bits.
ReadsAgree ==
    Quiet =>
      /\ \A s \in Slugs : Rank(GetArticleBySlug(s)) = Promise!GetArticleBySlug(s)
      /\ ListTags = Promise!ListTags
      /\ \A q \in Queries :
           LET page == ListArticles(q) IN
           [page EXCEPT !.items = Ranked(@)] = Promise!ListArticles(q)

-----------------------------------------------------------------------------
(* What the calls of several statements leave behind *)

TypeOK ==
    /\ Live \subseteq 1..seq /\ seq \in 0..MaxIds
    /\ \A i \in Live : rows[i].slug \in Slugs \cup {NoSlug} /\ rows[i].c \in Contents
                       /\ Range(rows[i].tags) \subseteq Tags
    /\ Live \subseteq Range(born)
    /\ \A j, k \in DOMAIN born : j < k => born[j] < born[k]
    /\ redirects \in Seq([from : Paths, to : Paths])
    /\ \A j, k \in DOMAIN redirects : redirects[j].from = redirects[k].from => j = k
    /\ users \in [DOMAIN users -> {HashOf[s] : s \in Servers}]
    /\ DOMAIN users \subseteq {Admin}
    /\ settings \in [Keys -> Values \cup {Unset}]
    /\ servers \in [Servers -> {"down", "creating", "up"}]

\* A rename that returns without an error has renamed everything: no article
\* carries the old name, whatever earlier renames failed half-way; an article
\* that carried it has no tag twice and has lost or gained no other tag; every
\* other article has its tags as they were (RenameTag).
RenameComplete ==
    [][job.op = "rename" /\ job' = NoJob /\ reply'.err = "none" =>
         \A id \in Live :
           LET before == job.was[id].tags
               after == rows[id].tags
           IN IF job.from \notin Range(before) THEN after = before
              ELSE /\ job.from \notin Range(after)
                   /\ IsInjective(after)
                   /\ Range(after) = (Range(before) \ {job.from}) \cup {job.to}]_vars

\* A settings form that was saved without an error is what the site has, cleared
\* fields included, whatever saves failed before (Settings.Save); one that was
\* not is only partly there.
SettingsSaved ==
    [][job.op = "save" /\ job' = NoJob =>
         IF reply'.err = "none" THEN settings' = job.form
         ELSE \A k \in Keys \ Range(job.left) : settings'[k] = job.form[k]]_vars

\* Whatever servers start together, stop or are started again with another
\* password, the admin keeps the password of the first one that created it, and
\* no server is up without an admin (ensureAdmin).
OneAdmin ==
    [][/\ Admin \in DOMAIN users => users' = users
       /\ Admin \notin DOMAIN users' => \A s \in Servers : servers'[s] # "up"]_vars
=============================================================================
