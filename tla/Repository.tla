----------------------------- MODULE Repository -----------------------------
(***************************************************************************)
(* What store.Repository promises its callers, as the in-memory store the  *)
(* tests run against keeps it (internal/store/store.go, store/inmem): every *)
(* call is one step.  A call whose database fails changes nothing, except  *)
(* that RenameTag may have renamed some of the articles.  The interface is *)
(* silent on deleting an article that is not there: GoneAnswers is what a  *)
(* store may answer then.                                                  *)
(***************************************************************************)
EXTENDS Integers, Sequences, FiniteSets, SequencesExt

CONSTANTS
    Slugs, NoSlug,      \* NoSlug: the empty slug
    Tags, NoTag,        \* NoTag: a name that is blank after TrimSpace
    TagLists,           \* the lists of tags clients give an article
    Contents,           \* the other columns: [status, visibility, pinned, body]
    Paths, NoPath,      \* redirect paths; NoPath: the empty path
    Usernames, Hashes,  \* users and password hashes
    Keys, Values, Unset,\* settings; Unset: the empty value
    GoneAnswers         \* {"ErrNotFound"} in the in-memory store

VARIABLES
    nextID,     \* the last article id given out
    byID,       \* id -> row
    bySlug,     \* slug -> id
    redirects,  \* [from, to] in order of their ids
    users,      \* username -> hash
    settings,   \* key -> value, Unset where the key is
    reply       \* what the last call returned

rvars == <<nextID, byID, bySlug, redirects, users, settings, reply>>

\* What a client writes; renames make other lists of tags.
Row == [slug : Slugs \cup {NoSlug}, tags : TagLists, c : Contents]

\* A query's empty filter matches everything; limit 0 means no limit.
NoFilter == "any"

\* Which call it was, and what it returned; the id and the count are 0 where it
\* returns none.
Answer(call, err, id, n) == [call |-> call, err |-> err, id |-> id, n |-> n]
Ok(call, id, n) == Answer(call, "none", id, n)
Err(call, err) == Answer(call, err, 0, 0)

Calls == {"CreateArticle", "UpdateArticle", "DeleteArticle", "RenameTag",
          "CreateRedirect", "DeleteRedirect", "CreateUser", "SetSetting"}

Refused(call, err) ==
    reply' = Err(call, err) /\ UNCHANGED <<nextID, byID, bySlug, redirects, users, settings>>

-----------------------------------------------------------------------------
(* Articles *)

CreateArticle(a) ==
    \/ a.slug = NoSlug /\ Refused("CreateArticle", "ErrEmptySlug")
    \/ a.slug \in DOMAIN bySlug /\ Refused("CreateArticle", "ErrDuplicateSlug")
    \/ /\ a.slug \notin DOMAIN bySlug \cup {NoSlug}
       /\ nextID' = nextID + 1
       /\ byID' = [i \in DOMAIN byID \cup {nextID'} |->
                     IF i = nextID' THEN a ELSE byID[i]]
       /\ bySlug' = [s \in DOMAIN bySlug \cup {a.slug} |->
                       IF s = a.slug THEN nextID' ELSE bySlug[s]]
       /\ reply' = Ok("CreateArticle", nextID', 0)
       /\ UNCHANGED <<redirects, users, settings>>

UpdateArticle(id, a) ==
    \/ id \notin DOMAIN byID /\ Refused("UpdateArticle", "ErrNotFound")
    \/ /\ id \in DOMAIN byID
       /\ a.slug \in DOMAIN bySlug /\ bySlug[a.slug] # id
       /\ Refused("UpdateArticle", "ErrDuplicateSlug")
    \/ /\ id \in DOMAIN byID
       /\ a.slug \in DOMAIN bySlug => bySlug[a.slug] = id
       /\ byID' = [byID EXCEPT ![id] = a]
       /\ bySlug' = [s \in (DOMAIN bySlug \ {byID[id].slug}) \cup {a.slug} |->
                       IF s = a.slug THEN id ELSE bySlug[s]]
       /\ reply' = Ok("UpdateArticle", 0, 0)
       /\ UNCHANGED <<nextID, redirects, users, settings>>

\* The handler has read the row, and another request may have deleted it since.
DeleteArticle(id) ==
    \/ id \notin DOMAIN byID /\ \E err \in GoneAnswers : Refused("DeleteArticle", err)
    \/ /\ id \in DOMAIN byID
       /\ byID' = [i \in DOMAIN byID \ {id} |-> byID[i]]
       /\ bySlug' = [s \in DOMAIN bySlug \ {byID[id].slug} |-> bySlug[s]]
       /\ reply' = Ok("DeleteArticle", 0, 0)
       /\ UNCHANGED <<nextID, redirects, users, settings>>

-----------------------------------------------------------------------------
(* Reading articles *)

GetArticleBySlug(slug) == IF slug \in DOMAIN bySlug THEN bySlug[slug] ELSE 0

Matches(q, a) ==
    /\ q.status \in {NoFilter, a.c.status}
    /\ q.visibility \in {NoFilter, a.c.visibility}
    /\ q.tag = NoFilter \/ q.tag \in Range(a.tags)
    /\ q.search \in {NoFilter, a.c.body}

\* Pinned articles first, then the newest.
Before(i, j) ==
    IF byID[i].c.pinned # byID[j].c.pinned THEN byID[i].c.pinned ELSE i > j

\* The sequence that has them all, in order.
Sorted(ids) ==
    CHOOSE s \in [1..Cardinality(ids) -> ids] :
      /\ Range(s) = ids
      /\ \A j, k \in DOMAIN s : j < k => Before(s[j], s[k])

\* The page of the query, and how many articles match without paging.
ListArticles(q) ==
    LET all == Sorted({i \in DOMAIN byID : Matches(q, byID[i])})
        total == Len(all)
        rest == IF q.offset >= total THEN <<>>
                ELSE SubSeq(all, q.offset + 1, total)
    IN [items |-> IF q.limit \in 1..Len(rest) THEN SubSeq(rest, 1, q.limit)
                  ELSE rest,
        total |-> total]

\* How many times each tag occurs.
ListTags ==
    LET entries == UNION {{i} \X DOMAIN byID[i].tags : i \in DOMAIN byID}
        TagOf(e) == byID[e[1]].tags[e[2]]
    IN [t \in {TagOf(e) : e \in entries} |-> Cardinality({e \in entries : TagOf(e) = t})]

-----------------------------------------------------------------------------
(* Tags *)

\* rewriteTags: from becomes to, and of equal tags the first one stays.
RewriteTags(tags, from, to) ==
    LET out[k \in 0..Len(tags)] ==
          IF k = 0 THEN <<>>
          ELSE LET t == IF tags[k] = from THEN to ELSE tags[k] IN
               IF t \in Range(out[k - 1]) THEN out[k - 1] ELSE Append(out[k - 1], t)
    IN IF from \in Range(tags) THEN out[Len(tags)] ELSE tags

Carriers(tag) == {i \in DOMAIN byID : tag \in Range(byID[i].tags)}

RenameOn(ids, from, to) ==
    byID' = [i \in DOMAIN byID |->
               IF i \in ids
               THEN [byID[i] EXCEPT !.tags = RewriteTags(@, from, to)]
               ELSE byID[i]]

RenameTag(from, to) ==
    \/ NoTag \in {from, to} /\ Refused("RenameTag", "ErrEmptyTag")
    \/ /\ NoTag \notin {from, to}
       /\ LET ids == IF from = to THEN {} ELSE Carriers(from) IN
          RenameOn(ids, from, to) /\ reply' = Ok("RenameTag", 0, Cardinality(ids))
       /\ UNCHANGED <<nextID, bySlug, redirects, users, settings>>

\* The caller learns that the rename failed, and not how far it went.
RenameFails(from, to) ==
    /\ \E ids \in SUBSET Carriers(from) : RenameOn(ids, from, to)
    /\ reply' = Err("RenameTag", "failed")
    /\ UNCHANGED <<nextID, bySlug, redirects, users, settings>>

-----------------------------------------------------------------------------
(* Redirects, users, settings *)

\* Upsert: a path that has a redirect keeps its id.
CreateRedirect(from, to) ==
    \/ NoPath \in {from, to} /\ Refused("CreateRedirect", "ErrEmptyPath")
    \/ /\ NoPath \notin {from, to}
       /\ LET r == [from |-> from, to |-> to]
              old == {i \in DOMAIN redirects : redirects[i].from = from}
          IN redirects' = IF old = {} THEN Append(redirects, r)
                          ELSE [i \in DOMAIN redirects |->
                                  IF i \in old THEN r ELSE redirects[i]]
       /\ reply' = Ok("CreateRedirect", 0, 0)
       /\ UNCHANGED <<nextID, byID, bySlug, users, settings>>

DeleteRedirect(from) ==
    \/ /\ \A i \in DOMAIN redirects : redirects[i].from # from
       /\ Refused("DeleteRedirect", "ErrNotFound")
    \/ /\ \E i \in DOMAIN redirects :
            redirects[i].from = from /\ redirects' = RemoveAt(redirects, i)
       /\ reply' = Ok("DeleteRedirect", 0, 0)
       /\ UNCHANGED <<nextID, byID, bySlug, users, settings>>

CreateUser(name, hash) ==
    \/ name \in DOMAIN users /\ Refused("CreateUser", "ErrDuplicateUsername")
    \/ /\ name \notin DOMAIN users
       /\ users' = [u \in DOMAIN users \cup {name} |->
                      IF u = name THEN hash ELSE users[u]]
       /\ reply' = Ok("CreateUser", 0, 0)
       /\ UNCHANGED <<nextID, byID, bySlug, redirects, settings>>

SetSetting(key, value) ==
    /\ settings' = [settings EXCEPT ![key] = value]
    /\ reply' = Ok("SetSetting", 0, 0)
    /\ UNCHANGED <<nextID, byID, bySlug, redirects, users>>

-----------------------------------------------------------------------------

Init ==
    /\ nextID = 0
    /\ byID = <<>> /\ bySlug = <<>>
    /\ redirects = <<>>
    /\ users = <<>>
    /\ settings = [k \in Keys |-> Unset]
    /\ reply = Ok("start", 0, 0)

Next ==
    \/ \E a \in Row : CreateArticle(a)
    \/ \E id \in 1..(nextID + 1), a \in Row : UpdateArticle(id, a)
    \/ \E id \in 1..(nextID + 1) : DeleteArticle(id)
    \/ \E from, to \in Tags \cup {NoTag} : RenameTag(from, to) \/ RenameFails(from, to)
    \/ \E from, to \in Paths \cup {NoPath} : CreateRedirect(from, to)
    \/ \E from \in Paths : DeleteRedirect(from)
    \/ \E name \in Usernames, hash \in Hashes : CreateUser(name, hash)
    \/ \E key \in Keys, value \in Values \cup {Unset} : SetSetting(key, value)
    \/ \E call \in Calls : Refused(call, "failed")

Spec == Init /\ [][Next]_rvars
=============================================================================
