------------------------------ MODULE MCReader ------------------------------
(***************************************************************************)
(* Reader on four small instances, one per behaviour: many articles and    *)
(* their lists; two articles that are renamed and deleted under the links  *)
(* to them; two uploads and their folders; articles behind the gate while  *)
(* passwords, sessions and time change.                                    *)
(***************************************************************************)
EXTENDS Reader

CONSTANTS a, b, c, t, w

VARIABLE focus

Dec24 == [year |-> 2024, month |-> 12]
Dec25 == [year |-> 2025, month |-> 12]

MCDates == {Dec24, Dec25}

Content(type, raw, based, pinned, links, named) ==
    [type |-> type, raw |-> raw, based |-> based, pinned |-> pinned, tags |-> IF pinned THEN {} ELSE {t},
     words |-> {w}, links |-> links, named |-> named, created |-> Dec24]

Note == Content("markdown", FALSE, FALSE, FALSE, {a}, {})
PinnedNote == Content("markdown", FALSE, FALSE, TRUE, {}, {a})
Framed == Content("html_upload", FALSE, TRUE, FALSE, {}, {})
RawPage == Content("html_upload", TRUE, FALSE, FALSE, {}, {})

MCContents == {Note, PinnedNote, Framed, RawPage}

SlugOf == <<a, b, c>>

\* Slugs without a _ ...
MCMatches == [s \in Slugs |-> {s}]

\* ... and b with a _ where a has another character.
WildMatches == [s \in Slugs |-> IF s = b THEN {a, b} ELSE {s}]

\* What is written in each behaviour.
ListRows == {r \in Row : /\ r.visibility = "public" /\ r.password = NoPass
                         /\ ~r.token /\ r.c # RawPage /\ r.entry}

LinkRows == {r \in Row : /\ r.password = NoPass /\ r.published # Dec25
                         /\ r.c = Note /\ r.token /\ r.entry
                         /\ r.visibility # "private"
                         /\ r.status = "draft" => r.visibility = "public"}

FileRows == {r \in Row : /\ r.status = "published" /\ r.visibility = "public"
                         /\ r.password = NoPass /\ r.published # Dec25
                         /\ r.c = RawPage /\ ~r.token /\ (r.entry \/ r.slug = a)}

GateRows == {r \in Row : /\ r.slug = a /\ ~r.token /\ r.published # Dec25
                         /\ r.c \in {Note, Framed} /\ r.entry}

Writes(id) ==
    CASE focus = "lists" -> {r \in ListRows : r.slug = SlugOf[id]}
      [] focus = "links" -> IF id <= 2 THEN LinkRows ELSE {}
      [] focus = "files" -> IF id <= 2 THEN FileRows ELSE {}
      [] OTHER -> IF id <= 2 THEN GateRows ELSE {}

MCInit == Init /\ focus \in {"lists", "links", "files", "gate"}

\* No folder is left behind.
Tidy == \A s \in DOMAIN dirs' : dirs'[s].of \in DOMAIN rows'

\* Where files are lost, the tools write the first upload and the form the second.
MCNext ==
    /\ UNCHANGED focus
    /\ \/ /\ focus \in {"links", "files"} => jar[Session] # NoTime
          /\ \/ lastId < MaxIds /\ \E r \in Writes(lastId + 1) : Create(r)
             \/ \E id \in DOMAIN rows : Delete(id)
             \/ \E id \in DOMAIN rows : \E r \in Writes(id) :
                  \/ (focus = "files" => id = 2) /\ Update(id, r)
                  \/ focus \in {"links", "files"} /\ (focus = "files" => id = 1)
                     /\ ToolUpdate(id, r)
             \/ focus = "files" /\ \E id \in DOMAIN rows : UploadRefused(rows[id].slug)
          /\ focus = "files" \/ Tidy
       \/ focus # "lists" /\ SignIn
       \/ /\ focus = "gate"
          /\ \/ SignOut \/ ClockTicks
             \/ \E p \in Passwords \cup {NoPass} : SetSitePass(p)
             \/ \E slug \in Slugs, input \in Passwords \cup {NoPass} : UnlockSubmit(slug, input)

MCSpec == MCInit /\ [][MCNext]_<<vars, focus>>
=============================================================================
