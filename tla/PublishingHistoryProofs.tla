----------------------- MODULE PublishingHistoryProofs -----------------------
(***************************************************************************)
(* Proofs about Publishing when one thing runs at a time: what a request   *)
(* or a tick writes was computed from the row that is still there, each    *)
(* article keeps its file, and old addresses lead to the article.          *)
(***************************************************************************)
EXTENDS PublishingHistory, PublishingProofs, Induction, FiniteSetTheorems

USE ArticlesAssumption DEF ArticlesAssumption, Nil

-----------------------------------------------------------------------------
(* The inductive invariant *)

\* The stages whose next step overwrites a row.
Writes == {"update", "patch", "status", "visibility"}

Alone ==
    \A w \in Workers : Busy(w) => due = {} /\ \A v \in Workers : Busy(v) => v = w

\* How the row a request will write differs from the one it read.
Derived(stage, a, b) ==
    /\ stage = "visibility" => b = [a EXCEPT !.visibility = b.visibility]
    /\ stage = "patch" => b = [a EXCEPT !.slug = b.slug, !.body = b.body]
    /\ a.publishedAt # Nil /\ b.status = "published" => b.publishedAt = a.publishedAt

FromCurrent(q) == q.stage \in Writes => Exists(q.id) /\ Derived(q.stage, rows[q.id], q.new)

SerialInv ==
    /\ Alone
    /\ \A w \in Workers : FromCurrent(req[w])
    /\ \A d \in due : Exists(d.id) /\ rows[d.id] = d.row /\ d.row.status = "draft"

LEMMA InitSerial == Init => SerialInv
BY DEF Init, SerialInv, Alone, FromCurrent, Busy, Idle, Writes

-----------------------------------------------------------------------------
(* Kinds of steps *)

\* No row is touched; requests end, or move on to a stage that writes no row.
LEMMA QuietSerial ==
    ASSUME SerialInv, UNCHANGED rows, due' \subseteq due,
           \A v \in Workers : req'[v] = req[v] \/ (Busy(v) /\ req'[v].stage \notin Writes)
    PROVE  SerialInv'
<1>1. \A v \in Workers : Busy(v)' => Busy(v)
  BY DEF Busy
<1>2. Alone'
  BY <1>1 DEF SerialInv, Alone
<1>3. ASSUME NEW v \in Workers PROVE FromCurrent(req[v])'
  BY DEF SerialInv, FromCurrent, Exists
<1>4. QED
  BY <1>2, <1>3 DEF SerialInv, Exists

\* The request that runs has written, and leaves no row to write.
LEMMA WrittenSerial ==
    ASSUME SerialInv, NEW w \in Workers, Busy(w), due' = due,
           req'[w].stage \notin Writes, \A v \in Workers \ {w} : req'[v] = req[v]
    PROVE  SerialInv'
<1>1. due = {} /\ \A v \in Workers \ {w} : req'[v] = Idle
  BY DEF SerialInv, Alone, Busy
<1>2. Alone'
  BY <1>1 DEF Alone, Busy
<1>3. ASSUME NEW v \in Workers PROVE FromCurrent(req[v])'
  BY <1>1 DEF FromCurrent, Idle, Writes
<1>4. QED
  BY <1>1, <1>2, <1>3 DEF SerialInv

\* A request starts, and has read the row it will write.
LEMMA BegunSerial ==
    ASSUME SerialInv, TypeOK, Overlap = FALSE, UNCHANGED <<rows, due>>, NEW w \in Workers,
           NEW stage, NEW id, NEW old, NEW new, Begin(w, stage, id, old, new),
           stage \in Writes => Exists(id) /\ Derived(stage, rows[id], new)
    PROVE  SerialInv'
<1>1. /\ due = {} /\ \A v \in Workers : req[v] = Idle
      /\ req'[w] = [stage |-> stage, id |-> id, oldSlug |-> old, new |-> new]
      /\ \A v \in Workers \ {w} : req'[v] = Idle
  BY DEF Begin, MayStart, Busy, TypeOK
<1>2. Alone'
  BY <1>1 DEF Alone, Busy
<1>3. ASSUME NEW v \in Workers PROVE FromCurrent(req[v])'
  <2>1. CASE v = w
    BY <1>1, <2>1 DEF FromCurrent, Exists
  <2>2. CASE v # w
    BY <1>1, <2>2 DEF FromCurrent, Idle, Writes
  <2>3. QED
    BY <2>1, <2>2
<1>4. QED
  BY <1>1, <1>2, <1>3 DEF SerialInv

\* One call that is a request by itself.
LEMMA AtOnceSerial ==
    ASSUME Overlap = FALSE, MayStart, UNCHANGED <<req, due>>
    PROVE  SerialInv'
<1>1. due' = {} /\ \A v \in Workers : req'[v] = Idle
  BY DEF MayStart, Busy
<1>2. QED
  BY <1>1 DEF SerialInv, Alone, FromCurrent, Busy, Idle, Writes

-----------------------------------------------------------------------------
(* What a request computes from the row it reads *)

LEMMA StampKeeps ==
    ASSUME NEW a \in Row, NEW existing \in Time, NEW now \in Time,
           StampPublishedAt(a, existing, now).status = "published", existing # Nil
    PROVE  StampPublishedAt(a, existing, now).publishedAt = existing
BY DEF StampPublishedAt, Row

LEMMA FormDerived ==
    ASSUME NEW a \in Row, NEW f \in Form, NEW now \in Time
    PROVE  Derived("update", a, FormUpdated(a, f, now))
<1>1. ArticleFromForm(f) \in Row /\ HtmlUploadFromForm(a, f) \in Row /\ a.publishedAt \in Time
  BY FormRow DEF HtmlUploadFromForm, Row, Form
<1>2. QED
  BY <1>1, StampKeeps DEF Derived, FormUpdated

LEMMA McpDerived ==
    ASSUME NEW a \in Row, NEW now \in Time
    PROVE  /\ \A slug \in AnySlug, body \in Bodies : Derived("patch", a, McpPatched(a, slug, body))
           /\ \A v \in Visibilities : Derived("visibility", a, McpVisibilitySet(a, v))
           /\ \A status \in Statuses, at \in Time :
                Derived("status", a, McpStatusSet(a, status, at, now))
<1>1. ASSUME NEW slug \in AnySlug, NEW body \in Bodies
      PROVE  Derived("patch", a, McpPatched(a, slug, body))
  BY DEF Derived, McpPatched, Row
<1>2. ASSUME NEW v \in Visibilities
      PROVE  Derived("visibility", a, McpVisibilitySet(a, v))
  BY DEF Derived, McpVisibilitySet, Row
<1>3. ASSUME NEW status \in Statuses, NEW at \in Time
      PROVE  Derived("status", a, McpStatusSet(a, status, at, now))
  <2> DEFINE c == [a EXCEPT !.status = status,
                            !.publishAt = IF status = "draft" /\ at # Nil THEN at ELSE @]
  <2>1. c \in Row /\ a.publishedAt \in Time
    BY DEF Row
  <2>2. McpStatusSet(a, status, at, now) = StampPublishedAt(c, a.publishedAt, now)
    BY DEF McpStatusSet
  <2>3. QED
    BY <2>1, <2>2, StampKeeps DEF Derived
<1>4. QED
  BY <1>1, <1>2, <1>3

-----------------------------------------------------------------------------
(* Every step *)

LEMMA FinishStage ==
    ASSUME TypeOK, NEW w \in Workers, Finish(w)
    PROVE  req'[w].stage \notin Writes /\ \A v \in Workers \ {w} : req'[v] = req[v]
BY DEF TypeOK, Finish, Idle, Writes

LEMMA ContinueStage ==
    ASSUME TypeOK, NEW w \in Workers, NEW stage, Continue(w, stage)
    PROVE  req'[w].stage = stage /\ \A v \in Workers \ {w} : req'[v] = req[v]
BY DEF TypeOK, Continue, Request

LEMMA StageBusy ==
    ASSUME NEW w, req[w].stage # "idle"
    PROVE  Busy(w)
BY DEF Busy, Idle

LEMMA HandlerSerial ==
    ASSUME IInv, SerialInv, Overlap = FALSE, NEW w \in Handlers, HandlerStep(w)
    PROVE  SerialInv'
<1> USE DEF At
<1>0. TypeOK /\ w \in Workers /\ clock \in Time
  BY DEF IInv, TypeOK, Workers, Time
<1>1. CASE UpdateRead(w)
  <2>1. PICK id \in Ids, f \in Form :
          /\ Exists(id)
          /\ Begin(w, "update", id, rows[id].slug, FormUpdated(rows[id], f, clock))
    BY <1>1 DEF UpdateRead
  <2>2. Derived("update", rows[id], FormUpdated(rows[id], f, clock))
    BY <1>0, <2>1, ReadRows, FormDerived
  <2>3. QED
    BY <1>0, <1>1, <2>1, <2>2, BegunSerial DEF UpdateRead
<1>2. CASE UpdateWrite(w)
  <2>1. req'[w].stage \notin Writes /\ \A v \in Workers \ {w} : req'[v] = req[v]
    BY <1>0, <1>2, FinishStage, ContinueStage DEF UpdateWrite, Writes
  <2>2. QED
    BY <1>0, <1>2, <2>1, StageBusy, WrittenSerial DEF UpdateWrite
<1>3. CASE UpdateRedirect(w)
  <2>1. req'[w].stage \notin Writes /\ \A v \in Workers \ {w} : req'[v] = req[v]
    BY <1>0, <1>3, FinishStage, ContinueStage DEF UpdateRedirect, AfterRedirect, Writes
  <2>2. QED
    BY <1>0, <1>3, <2>1, StageBusy, WrittenSerial DEF UpdateRedirect
<1>4. CASE UpdateMove(w)
  BY <1>0, <1>4, FinishStage, StageBusy, WrittenSerial DEF UpdateMove
<1>5. CASE DeleteRead(w)
  <2>1. PICK id \in Ids : Begin(w, "delete", id, rows[id].slug, rows[id])
    BY <1>5 DEF DeleteRead
  <2>2. QED
    BY <1>0, <1>5, <2>1, BegunSerial DEF DeleteRead, Writes
<1>6. CASE DeleteWrite(w)
  <2>1. req'[w].stage \notin Writes /\ \A v \in Workers \ {w} : req'[v] = req[v]
    BY <1>0, <1>6, FinishStage, ContinueStage DEF DeleteWrite, Writes
  <2>2. QED
    BY <1>0, <1>6, <2>1, StageBusy, WrittenSerial DEF DeleteWrite
<1>7. CASE DeleteRemove(w)
  BY <1>0, <1>7, FinishStage, StageBusy, WrittenSerial DEF DeleteRemove
<1>8. CASE UploadClear(w)
  <2>1. PICK f \in Form : Begin(w, "extract", NoId, f.slug, Uploaded(f))
    BY <1>8 DEF UploadClear
  <2>2. QED
    BY <1>0, <1>8, <2>1, BegunSerial DEF UploadClear, Writes
<1>9. CASE UploadExtract(w) \/ UploadDuplicate(w)
  <2>1. req'[w].stage \notin Writes /\ \A v \in Workers \ {w} : req'[v] = req[v]
    BY <1>0, <1>9, ContinueStage DEF UploadExtract, UploadDuplicate, Writes
  <2>2. QED
    BY <1>0, <1>9, <2>1, StageBusy, WrittenSerial DEF UploadExtract, UploadDuplicate
<1>10. CASE UploadReject(w) \/ UploadInsert(w) \/ UploadRollback(w)
  BY <1>0, <1>10, FinishStage, StageBusy, WrittenSerial
  DEF UploadReject, UploadInsert, UploadRollback
<1>11. QED
  BY <1>1, <1>2, <1>3, <1>4, <1>5, <1>6, <1>7, <1>8, <1>9, <1>10 DEF HandlerStep

LEMMA McpSerial ==
    ASSUME IInv, SerialInv, Overlap = FALSE, NEW w \in McpCalls, McpStep(w)
    PROVE  SerialInv'
<1>0. TypeOK /\ w \in Workers /\ clock \in Time
  BY DEF IInv, TypeOK, Workers, Time
<1>1. ASSUME NEW id \in Ids, Exists(id), NEW stage \in Writes, NEW new,
             Derived(stage, rows[id], new), Begin(w, stage, id, rows[id].slug, new),
             UNCHANGED <<rows, due>>
      PROVE  SerialInv'
  BY <1>0, <1>1, BegunSerial
<1>2. CASE McpUpdateRead(w)
  BY <1>0, <1>1, <1>2, ReadRows, McpDerived DEF McpUpdateRead, Writes
<1>3. CASE SetStatusRead(w)
  BY <1>0, <1>1, <1>3, ReadRows, McpDerived DEF SetStatusRead, Writes
<1>4. CASE SetVisibilityRead(w)
  BY <1>0, <1>1, <1>4, ReadRows, McpDerived DEF SetVisibilityRead, Writes
<1>5. CASE McpWrite(w)
  BY <1>0, <1>5, FinishStage, StageBusy, WrittenSerial DEF McpWrite
<1>6. QED
  BY <1>2, <1>3, <1>4, <1>5 DEF McpStep

LEMMA SystemSerial ==
    ASSUME IInv, SerialInv, Overlap = FALSE,
           \/ Create \/ McpCreate \/ RedirectCreate \/ RedirectDelete
           \/ \E w \in Workers : WriteRefused(w) \/ CallFails(w) \/ ReplyLost(w)
           \/ TickList \/ TickPublish \/ TickAbort \/ TickReplyLost \/ Crash \/ ClockTick
    PROVE  SerialInv'
<1>0. TypeOK
  BY DEF IInv
<1>1. CASE Create \/ McpCreate \/ RedirectCreate \/ RedirectDelete
  BY <1>1, AtOnceSerial DEF Create, McpCreate, RedirectCreate, RedirectDelete
<1>2. ASSUME NEW w \in Workers, WriteRefused(w) \/ CallFails(w)
      PROVE  SerialInv'
  <2>1. req[w].stage # "idle"
    BY <1>2 DEF WriteRefused, CallFails, At
  <2>2. req'[w].stage \notin Writes /\ \A v \in Workers \ {w} : req'[v] = req[v]
    BY <1>0, <1>2, FinishStage, ContinueStage
    DEF WriteRefused, CallFails, AfterRedirect, Writes
  <2>3. QED
    BY <1>2, <2>1, <2>2, StageBusy, WrittenSerial DEF WriteRefused, CallFails
<1>3. CASE TickList
  <2>1. /\ due = {} /\ due' = DueRows /\ UNCHANGED <<rows, req>>
        /\ \A v \in Workers : req[v] = Idle
    BY <1>3 DEF TickList, MayStart, Busy
  <2>2. \A d \in due' : Exists(d.id) /\ rows[d.id] = d.row /\ d.row.status = "draft"
    BY <2>1 DEF DueRows, DueAt
  <2>3. QED
    BY <2>1, <2>2 DEF SerialInv, Alone, FromCurrent, Busy, Idle, Writes, Exists
<1>4. CASE TickPublish
  <2>1. PICK d \in due : /\ Store(d.id, Launched(d.row)) /\ due' = due \ {d}
                         /\ UNCHANGED req
    BY <1>4 DEF TickPublish
  <2>2. \A v \in Workers : req[v] = Idle
    BY <2>1 DEF SerialInv, Alone, Busy
  <2>3. ASSUME NEW e \in due' PROVE e.id # d.id
    <3>1. e = [id |-> e.id, row |-> e.row] /\ d = [id |-> d.id, row |-> d.row]
      BY <1>0, <2>1, <2>3 DEF TypeOK
    <3>2. rows[e.id] = e.row /\ rows[d.id] = d.row
      BY <2>1, <2>3 DEF SerialInv
    <3>3. QED
      BY <2>1, <2>3, <3>1, <3>2
  <2>4. ASSUME NEW e \in due'
        PROVE  (Exists(e.id) /\ rows[e.id] = e.row)' /\ e.row.status = "draft"
    <3>1. Exists(e.id) /\ rows[e.id] = e.row /\ e.row.status = "draft"
      BY <2>1, <2>4 DEF SerialInv
    <3>2. rows'[e.id] = rows[e.id]
      BY <1>0, <2>1, <2>3, <2>4 DEF Store, TypeOK
    <3>3. QED
      BY <3>1, <3>2 DEF Exists
  <2>5. QED
    BY <2>1, <2>2, <2>4 DEF SerialInv, Alone, FromCurrent, Busy, Idle, Writes
<1>5. CASE TickAbort
  BY <1>5, QuietSerial DEF TickAbort
<1>6. CASE Crash
  <2>1. \A v \in Workers : req'[v] = req[v] \/ req'[v] = Idle
    BY <1>6 DEF Crash
  <2>2. \A v \in Workers : req'[v] = req[v] \/ (Busy(v) /\ req'[v].stage \notin Writes)
    BY <2>1 DEF Busy, Idle, Writes
  <2>3. QED
    BY <1>6, <2>2, QuietSerial DEF Crash
<1>7. CASE ClockTick
  BY <1>7, QuietSerial DEF ClockTick
<1>8. ASSUME NEW w \in Workers, ReplyLost(w)
      PROVE  SerialInv'
  <2>1. req[w].stage # "idle" /\ due' = due
    BY <1>8 DEF ReplyLost, At
  <2>2. req'[w].stage \notin Writes /\ \A v \in Workers \ {w} : req'[v] = req[v]
    BY <1>0, <1>8, FinishStage, ContinueStage DEF ReplyLost, Writes
  <2>3. QED
    BY <2>1, <2>2, StageBusy, WrittenSerial
<1>9. CASE TickReplyLost
  <2>1. due # {} /\ due' = {} /\ UNCHANGED req
    BY <1>9 DEF TickReplyLost
  <2>2. \A v \in Workers : req[v] = Idle
    BY <2>1 DEF SerialInv, Alone, Busy
  <2>3. QED
    BY <2>1, <2>2 DEF SerialInv, Alone, FromCurrent, Busy, Idle, Writes
<1>10. QED
  BY <1>1, <1>2, <1>3, <1>4, <1>5, <1>6, <1>7, <1>8, <1>9

LEMMA NextSerial ==
    ASSUME IInv, SerialInv, Overlap = FALSE, [Next]_vars
    PROVE  SerialInv'
<1>1. CASE UNCHANGED vars
  BY <1>1, QuietSerial DEF vars
<1>2. CASE Next
  BY <1>2, HandlerSerial, McpSerial, SystemSerial DEF Next
<1>3. QED
  BY <1>1, <1>2

LEMMA SerialInvariant ==
    ASSUME Overlap = FALSE
    PROVE  Spec => []SerialInv
<1>1. IInv /\ SerialInv /\ [Next]_vars => SerialInv'
  BY NextSerial
<1>2. QED
  BY <1>1, InitSerial, Inductive, PTL DEF Spec

-----------------------------------------------------------------------------
(* Who writes which row *)

Inserted == \E id \in Ids, a \in Row : rows[id] = NoRow /\ rows' = [rows EXCEPT ![id] = a]

Overwrote(w) ==
    /\ req[w].stage \in Writes
    /\ rows' = [rows EXCEPT ![req[w].id] = req[w].new]

Erased(w) == req[w].stage = "delete" /\ rows' = [rows EXCEPT ![req[w].id] = Deleted]

Published(d) == rows' = [rows EXCEPT ![d.id] = Launched(d.row)]

\* A step that changes the table inserts an article, overwrites the row of the
\* one request that runs, erases it, or publishes what the tick is at.
LEMMA WhoWrites ==
    ASSUME IInv, Next, rows' # rows
    PROVE  \/ Inserted /\ (MayStart \/ \E w \in Workers : req[w].stage = "insert")
           \/ \E w \in Workers : Overwrote(w) \/ Erased(w)
           \/ \E d \in due : Published(d)
<1> DEFINE Goal == \/ Inserted /\ (MayStart \/ \E w \in Workers : req[w].stage = "insert")
                   \/ \E w \in Workers : Overwrote(w) \/ Erased(w)
                   \/ \E d \in due : Published(d)
<1> USE DEF At
<1>0. TypeOK /\ Handlers \subseteq Workers /\ McpCalls \subseteq Workers
  BY DEF IInv, Workers
<1>1. ASSUME NEW id \in Ids, NEW a \in Row, CanInsert(id, a), Store(id, a),
             MayStart \/ \E w \in Workers : req[w].stage = "insert"
      PROVE  Goal
  BY <1>1 DEF CanInsert, Store, Inserted
<1>2. CASE Create
  BY <1>0, <1>1, <1>2, ClockTypes, FormCreatedConsistent DEF Create
<1>3. CASE McpCreate
  BY <1>0, <1>1, <1>3, ClockTypes, McpCreatedConsistent DEF McpCreate
<1>4. ASSUME NEW w \in Handlers, HandlerStep(w) PROVE Goal
  <2>1. CASE UpdateWrite(w)
    BY <1>0, <2>1 DEF UpdateWrite, Store, Overwrote, Writes
  <2>2. CASE DeleteWrite(w)
    BY <1>0, <2>2 DEF DeleteWrite, Erase, Erased
  <2>3. CASE UploadInsert(w)
    <3>1. req[w].new \in Row
      BY <1>0, <2>3, BusyRequest DEF UploadInsert, InFlightOK
    <3>2. QED
      BY <1>0, <1>1, <2>3, <3>1 DEF UploadInsert
  <2>4. CASE ~(UpdateWrite(w) \/ DeleteWrite(w) \/ UploadInsert(w))
    BY <1>4, <2>4 DEF HandlerStep, UpdateRead, UpdateRedirect, UpdateMove,
       DeleteRead, DeleteRemove, UploadClear, UploadExtract, UploadReject,
       UploadDuplicate, UploadRollback
  <2>5. QED
    BY <2>1, <2>2, <2>3, <2>4
<1>5. ASSUME NEW w \in McpCalls, McpStep(w) PROVE Goal
  <2>1. CASE McpWrite(w)
    BY <1>0, <2>1 DEF McpWrite, Store, Overwrote, Writes
  <2>2. CASE ~McpWrite(w)
    BY <1>5, <2>2 DEF McpStep, McpUpdateRead, SetStatusRead, SetVisibilityRead
  <2>3. QED
    BY <2>1, <2>2
<1>6. CASE TickPublish \/ TickReplyLost
  BY <1>6 DEF TickPublish, TickReplyLost, Store, Published
<1>7. ASSUME NEW w \in Workers, WriteRefused(w) \/ CallFails(w)
      PROVE  FALSE
  BY <1>7 DEF WriteRefused, CallFails
<1>8. CASE \/ RedirectCreate \/ RedirectDelete \/ TickList \/ TickAbort
           \/ Crash \/ ClockTick
  BY <1>8 DEF RedirectCreate, RedirectDelete, TickList, TickAbort, Crash, ClockTick
<1>9. ASSUME NEW w \in Workers, ReplyLost(w)
      PROVE  Goal
  <2>1. CASE Store(req[w].id, req[w].new) /\ req[w].stage \in Writes
    BY <1>9, <2>1 DEF Store, Overwrote
  <2>2. CASE req[w].stage = "delete" /\ Erase(req[w].id)
    BY <1>9, <2>2 DEF Erase, Erased
  <2>3. CASE req[w].stage = "insert" /\ \E id \in Ids : CanInsert(id, req[w].new)
                                                    /\ Store(id, req[w].new)
    <3>1. req[w].new \in Row
      BY <1>0, <2>3, BusyRequest DEF InFlightOK
    <3>2. QED
      BY <1>1, <2>3, <3>1
  <2>4. QED
    BY <1>9, <2>1, <2>2, <2>3 DEF ReplyLost, Writes
<1>10. Goal
  BY <1>2, <1>3, <1>4, <1>5, <1>6, <1>7, <1>8, <1>9 DEF Next
<1>11. QED
  BY <1>10

\* While a request holds a row to write, a change of the table is its write.
LEMMA WritesOwn ==
    ASSUME IInv, SerialInv, Overlap = FALSE, Next, rows' # rows,
           NEW w \in Workers, req[w].stage \in Writes
    PROVE  Overwrote(w)
<1>1. Busy(w) /\ due = {} /\ \A v \in Workers : Busy(v) => v = w
  BY StageBusy DEF SerialInv, Alone, Writes
<1>2. ASSUME NEW v \in Workers, req[v].stage # "idle" PROVE v = w
  BY <1>1, <1>2, StageBusy
<1>3. ~MayStart
  BY <1>1 DEF MayStart
<1>4. QED
  BY <1>1, <1>2, <1>3, WhoWrites DEF Writes, Erased, Overwrote

\* The row a request with this stage overwrites, before and after.
LEMMA WritesDerived ==
    ASSUME IInv, SerialInv, Overlap = FALSE, Next, rows' # rows,
           NEW w \in Workers, req[w].stage \in Writes
    PROVE  LET id == req[w].id IN
           /\ id \in Ids /\ Exists(id) /\ rows'[id] = req[w].new
           /\ Derived(req[w].stage, rows[id], rows'[id])
           /\ \A i \in Ids \ {id} : rows'[i] = rows[i]
<1>1. Overwrote(w)
  BY WritesOwn
<1>2. req[w].id \in Ids /\ DOMAIN rows = Ids
  BY BusyRequest DEF Writes, InFlightOK, IInv, TypeOK
<1>3. FromCurrent(req[w])
  BY DEF SerialInv
<1>4. QED
  BY <1>1, <1>2, <1>3 DEF Overwrote, FromCurrent

-----------------------------------------------------------------------------
(* The results, when one thing runs at a time *)

\* set_article_visibility changes the visibility and no other column, for any
\* number of articles and calls that follow each other (SetArticleVisibility).
THEOREM VisibilityCorrect ==
    ASSUME Overlap = FALSE
    PROVE  Spec => VisibilityOnly
<1> DEFINE Only(w) == McpWrites(w, "visibility") =>
                        LET id == req[w].id IN
                        rows'[id] = [rows[id] EXCEPT !.visibility = rows'[id].visibility]
<1>1. IInv /\ SerialInv /\ [Next]_vars => [\A w \in McpCalls : Only(w)]_vars
  <2> SUFFICES ASSUME IInv, SerialInv, Next, NEW w \in McpCalls, McpWrites(w, "visibility")
               PROVE  Only(w)
    OBVIOUS
  <2>1. w \in Workers /\ req[w].stage = "visibility" /\ rows' # rows
    BY DEF McpWrites, At, Workers
  <2>2. Derived("visibility", rows[req[w].id], rows'[req[w].id])
    BY <2>1, WritesDerived DEF Writes
  <2>3. QED
    BY <2>2 DEF Derived
<1>2. Spec => [][\A w \in McpCalls : Only(w)]_vars
  BY <1>1, SerialInvariant, Inductive, PTL DEF Spec
<1>3. QED
  BY <1>2 DEF VisibilityOnly

\* update_article leaves the columns a patch cannot name as they are
\* (Tools.UpdateArticle).
THEOREM PatchCorrect ==
    ASSUME Overlap = FALSE
    PROVE  Spec => PatchKeepsOmitted
<1> DEFINE Only(w) == McpWrites(w, "patch") =>
                        LET id == req[w].id IN
                        rows'[id] = [rows[id] EXCEPT !.slug = rows'[id].slug,
                                                     !.body = rows'[id].body]
<1>1. IInv /\ SerialInv /\ [Next]_vars => [\A w \in McpCalls : Only(w)]_vars
  <2> SUFFICES ASSUME IInv, SerialInv, Next, NEW w \in McpCalls, McpWrites(w, "patch")
               PROVE  Only(w)
    OBVIOUS
  <2>1. w \in Workers /\ req[w].stage = "patch" /\ rows' # rows
    BY DEF McpWrites, At, Workers
  <2>2. Derived("patch", rows[req[w].id], rows'[req[w].id])
    BY <2>1, WritesDerived DEF Writes
  <2>3. QED
    BY <2>2 DEF Derived
<1>2. Spec => [][\A w \in McpCalls : Only(w)]_vars
  BY <1>1, SerialInvariant, Inductive, PTL DEF Spec
<1>3. QED
  BY <1>2 DEF PatchKeepsOmitted

\* What a tick overwrites is, at that moment, a draft whose time has come, and
\* it goes live with the scheduled time and all else as it was (Publisher.Tick).
THEOREM TickCorrect ==
    ASSUME Overlap = FALSE
    PROVE  Spec => TickPublishesDue
<1> DEFINE Goes(d) == rows'[d.id] # rows[d.id] =>
                        LET now == rows[d.id] IN
                        /\ Exists(d.id)
                        /\ now.status = "draft" /\ now.publishAt \in 1..clock
                        /\ rows'[d.id] = [now EXCEPT !.status = "published",
                                                     !.publishedAt = now.publishAt,
                                                     !.publishAt = Nil]
<1>1. IInv /\ SerialInv /\ [Next]_vars => [\A d \in due \ due' : Goes(d)]_vars
  <2> SUFFICES ASSUME IInv, SerialInv, Next, NEW d \in due \ due', rows'[d.id] # rows[d.id]
               PROVE  Goes(d)
    OBVIOUS
  <2>1. \A w \in Workers : req[w].stage = "idle"
    BY DEF SerialInv, Alone, Busy, Idle
  <2>2. ~MayStart
    BY DEF MayStart
  <2>3. PICK e \in due : Published(e)
    BY <2>1, <2>2, WhoWrites DEF Overwrote, Erased, Writes
  <2>4. e.id = d.id /\ rows[e.id] = e.row
    BY <2>3 DEF Published, SerialInv
  <2>5. Exists(d.id) /\ rows[d.id] = d.row /\ d.row.status = "draft" /\ DueOK(d)
        /\ d.id \in Ids /\ DOMAIN rows = Ids
    BY DEF SerialInv, IInv, TypeOK
  <2>6. rows'[d.id] = Launched(rows[d.id])
    BY <2>3, <2>4, <2>5 DEF Published
  <2>7. QED
    BY <2>5, <2>6 DEF DueOK, Launched
<1>2. Spec => [][\A d \in due \ due' : Goes(d)]_vars
  BY <1>1, SerialInvariant, Inductive, PTL DEF Spec
<1>3. QED
  BY <1>2 DEF TickPublishesDue

\* An article that stays published keeps the moment it first went live, through
\* the forms, the MCP tools and the scheduler (stampPublishedAt).
THEOREM PublishedAtCorrect ==
    ASSUME Overlap = FALSE
    PROVE  Spec => PublishedAtKept
<1> DEFINE Keeping(id) == /\ Exists(id) /\ rows[id].publishedAt # Nil
                          /\ Exists(id)' /\ rows'[id].status = "published"
                          => rows'[id].publishedAt = rows[id].publishedAt
<1>1. IInv /\ SerialInv /\ [Next]_vars => [\A id \in Ids : Keeping(id)]_vars
  <2> SUFFICES ASSUME IInv, SerialInv, Next, NEW id \in Ids,
                      Exists(id), rows[id].publishedAt # Nil,
                      Exists(id)', rows'[id].status = "published",
                      rows'[id] # rows[id]
               PROVE  rows'[id].publishedAt = rows[id].publishedAt
    OBVIOUS
  <2>0. DOMAIN rows = Ids
    BY DEF IInv, TypeOK
  <2>1. CASE Inserted
    BY <2>0, <2>1 DEF Inserted, Exists
  <2>2. ASSUME NEW w \in Workers, Overwrote(w)
        PROVE  rows'[id].publishedAt = rows[id].publishedAt
    <3>1. req[w].id = id /\ Derived(req[w].stage, rows[id], rows'[id])
      BY <2>2, WritesDerived DEF Overwrote
    <3>2. QED
      BY <3>1 DEF Derived
  <2>3. ASSUME NEW w \in Workers, Erased(w)
        PROVE  FALSE
    BY <2>0, <2>3 DEF Erased, Exists
  <2>4. ASSUME NEW d \in due, Published(d)
        PROVE  FALSE
    <3>1. d.id = id
      BY <2>0, <2>4 DEF Published
    <3>2. rows[id].status = "draft" /\ Consistent(rows[id], clock)
      BY <3>1 DEF SerialInv, IInv, Lifecycle
    <3>3. QED
      BY <3>2 DEF Consistent
  <2>5. QED
    BY <2>1, <2>2, <2>3, <2>4, WhoWrites
<1>2. Spec => [][\A id \in Ids : Keeping(id)]_vars
  BY <1>1, SerialInvariant, Inductive, PTL DEF Spec
<1>3. QED
  BY <1>2 DEF PublishedAtKept

-----------------------------------------------------------------------------
(* Files of pages, with any overlap and any crashes, when nothing is renamed *)

\* The admin form is used for everything but the slug.
EditsKeepSlugs ==
    \A w \in Workers : ~Busy(w) /\ At(w, "update")' => req'[w].new.slug = req'[w].oldSlug

Ups == {"extract", "insert", "rollback"}

Uploading(q) == q.stage \in Ups

\* A request that holds a row it has read.
Holding(q) == q.stage \notin Ups \cup {"idle"}

NoPageAt(s) == \A id \in Ids : Exists(id) /\ rows[id].slug = s => rows[id].type # "html_upload"

Owners ==
    /\ owner \in [Slugs -> Ids \cup {NoId}]
    /\ \A id \in Ids : Exists(id) => rows[id].slug \in Slugs /\ owner[rows[id].slug] = id

\* The slug of an article that was read has been its own all along.
OwnSlug(id, slug) ==
    /\ id \in Ids /\ slug \in Slugs
    /\ rows[id] # NoRow /\ owner[slug] = id
    /\ Exists(id) => rows[id].slug = slug

HoldOK(q) ==
    /\ OwnSlug(q.id, q.new.slug) /\ q.oldSlug = q.new.slug
    /\ q.stage \notin {"redirect", "move"}

\* No page is where something is being uploaded.
UploadOK(q) ==
    /\ q.id = NoId /\ q.oldSlug = q.new.slug
    /\ q.new.slug \in Slugs /\ NoPageAt(q.new.slug)

\* What is being uploaded goes where no other request works.
Apart(p, q) == Uploading(p) /\ q.stage # "idle" => p.new.slug # q.new.slug

RequestsOK ==
    /\ \A w \in Workers : /\ Holding(req[w]) => HoldOK(req[w])
                          /\ Uploading(req[w]) => UploadOK(req[w])
    /\ \A v, w \in Workers : v # w => Apart(req[v], req[w])

\* How far the upload or the deletion of a page has come.
Progress ==
    \A w \in Workers :
      /\ req[w].stage = "insert" => dirs[req[w].new.slug] = "full"
      /\ req[w].stage = "remove" => rows[req[w].id] = Deleted

PagesInv ==
    /\ Owners /\ PagesHaveFiles
    /\ RequestsOK /\ Progress
    /\ \A d \in due : OwnSlug(d.id, d.row.slug)

LEMMA InitPages == HInit => PagesInv
BY DEF HInit, Init, PagesInv, Owners, PagesHaveFiles, RequestsOK, Progress, Exists,
   Idle, Holding, Uploading, Apart, Ups

-----------------------------------------------------------------------------
(* Steps, one conjunct at a time *)

RowKept(id) ==
    \/ rows'[id] = rows[id]
    \/ rows'[id] = Deleted /\ rows[id] # NoRow
    \/ /\ Exists(id) /\ Exists(id)'
       /\ rows'[id].slug = rows[id].slug /\ rows'[id].type = rows[id].type
    \/ /\ rows[id] = NoRow /\ rows'[id] \in Row /\ rows'[id].slug # NoSlug
       /\ rows'[id].type = "html_upload" =>
            /\ dirs'[rows'[id].slug] = "full"
            /\ \A w \in Workers : Uploading(req'[w]) => req'[w].new.slug # rows'[id].slug

\* The requests after a step, seen in the state it starts from.
RequestsFit ==
    /\ \A w \in Workers : /\ Holding(req'[w]) => HoldOK(req'[w])
                          /\ Uploading(req'[w]) => UploadOK(req'[w])
    /\ \A v, w \in Workers : v # w => Apart(req'[v], req'[w])

\* The memory of owners follows the table, and forgets no owner.
LEMMA OwnersFollow ==
    ASSUME Owners, UniqueSlugs', Remember,
           \A id \in Ids : Exists(id)' => /\ rows'[id].slug \in Slugs
                                          /\ owner[rows'[id].slug] \in {NoId, id}
    PROVE  Owners' /\ \A s \in Slugs : owner[s] # NoId => owner'[s] = owner[s]
<1>1. ASSUME NEW s \in Slugs, ArticleAt(s)' # {}
      PROVE  \E id \in Ids : /\ Exists(id)' /\ rows'[id].slug = s
                             /\ owner'[s] = id
  BY <1>1 DEF Remember, ArticleAt
<1>2. ASSUME NEW s \in Slugs, ArticleAt(s)' = {}
      PROVE  owner'[s] = owner[s]
  BY <1>2 DEF Remember
<1>3. ASSUME NEW id \in Ids, Exists(id)'
      PROVE  owner'[rows'[id].slug] = id
  <2>1. PICK s \in Slugs : s = rows'[id].slug
    BY <1>3
  <2>2. ArticleAt(s)' # {}
    BY <1>3, <2>1 DEF ArticleAt
  <2>3. QED
    BY <1>1, <1>3, <2>1, <2>2 DEF UniqueSlugs
<1>4. ASSUME NEW s \in Slugs
      PROVE  owner'[s] \in Ids \cup {NoId} /\ (owner[s] # NoId => owner'[s] = owner[s])
  BY <1>1, <1>2 DEF Owners
<1>5. owner' \in [Slugs -> Ids \cup {NoId}]
  BY <1>4 DEF Remember
<1>6. QED
  BY <1>3, <1>4, <1>5 DEF Owners

LEMMA OwnersKept ==
    ASSUME Owners, UniqueSlugs', Remember, FreshSlugs, \A id \in Ids : RowKept(id)
    PROVE  Owners' /\ \A s \in Slugs : owner[s] # NoId => owner'[s] = owner[s]
<1>1. ASSUME NEW id \in Ids, Exists(id)'
      PROVE  /\ rows'[id].slug \in Slugs
             /\ owner[rows'[id].slug] \in {NoId, id}
  <2>1. CASE Exists(id)
    BY <1>1, <2>1, PublishingAssumption DEF Owners, RowKept, Exists, PublishingAssumption
  <2>2. CASE ~Exists(id)
    <3>1. rows'[id].slug \in Slugs
      BY <1>1, <2>2 DEF RowKept, Exists, Row, AnySlug
    <3>2. QED
      BY <1>1, <2>2, <3>1 DEF FreshSlugs
  <2>3. QED
    BY <2>1, <2>2
<1>2. QED
  BY <1>1, OwnersFollow

LEMMA OwnSlugKept ==
    ASSUME Owners, UniqueSlugs', Remember, FreshSlugs, \A id \in Ids : RowKept(id),
           NEW i, NEW s, OwnSlug(i, s)
    PROVE  OwnSlug(i, s)'
<1>1. i \in Ids /\ s \in Slugs /\ rows[i] # NoRow /\ owner[s] = i
      /\ (Exists(i) => rows[i].slug = s)
  BY DEF OwnSlug
<1>2. owner'[s] = i
  BY <1>1, OwnersKept, PublishingAssumption DEF PublishingAssumption
<1>3. rows'[i] # NoRow /\ (Exists(i)' => rows'[i].slug = s)
  BY <1>1, PublishingAssumption DEF RowKept, Exists, PublishingAssumption
<1>4. QED
  BY <1>1, <1>2, <1>3 DEF OwnSlug

\* Where no page is, none comes but by the insert that ends its upload.
LEMMA NoPageKept ==
    ASSUME \A id \in Ids : RowKept(id), NEW s, NoPageAt(s),
           NEW w \in Workers, Uploading(req'[w]), req'[w].new.slug = s
    PROVE  NoPageAt(s)'
BY DEF NoPageAt, RowKept, Exists

\* What a step has to keep, all but the requests and ticks seen in the state
\* it starts from.
LEMMA PagesKept ==
    ASSUME PagesInv, UniqueSlugs', Remember, FreshSlugs,
           \A id \in Ids : RowKept(id),
           \A s \in Slugs : dirs'[s] \in {dirs[s], "full"} \/ NoPageAt(s),
           RequestsFit, Progress',
           \A d \in due' : OwnSlug(d.id, d.row.slug)
    PROVE  PagesInv'
<1>0. Owners /\ PagesHaveFiles
  BY DEF PagesInv
<1>1. Owners'
  BY <1>0, OwnersKept
<1>2. PagesHaveFiles'
  <2>1. SUFFICES ASSUME NEW id \in Ids, Exists(id)', rows'[id].type = "html_upload"
                 PROVE  dirs'[rows'[id].slug] = "full"
    BY DEF PagesHaveFiles
  <2>2. rows'[id].slug \in Slugs
    BY <1>1, <2>1 DEF Owners
  <2>3. CASE ~Exists(id)
    BY <2>1, <2>3 DEF RowKept, Exists
  <2>4. CASE Exists(id)
    <3>1. /\ rows[id].slug = rows'[id].slug /\ rows[id].type = "html_upload"
          /\ dirs[rows[id].slug] = "full"
      BY <1>0, <2>1, <2>4 DEF RowKept, Exists, PagesHaveFiles
    <3>2. ~NoPageAt(rows[id].slug)
      BY <2>4, <3>1 DEF NoPageAt
    <3>3. QED
      BY <2>2, <3>1, <3>2
  <2>5. QED
    BY <2>3, <2>4
<1>3. ASSUME NEW w \in Workers
      PROVE  /\ Holding(req'[w]) => HoldOK(req[w])'
             /\ Uploading(req'[w]) => UploadOK(req[w])'
  <2>1. ASSUME Holding(req'[w]) PROVE HoldOK(req[w])'
    <3>1. HoldOK(req'[w])
      BY <2>1 DEF RequestsFit
    <3>2. OwnSlug(req'[w].id, req'[w].new.slug)
      BY <3>1 DEF HoldOK
    <3>3. OwnSlug(req[w].id, req[w].new.slug)'
      BY <1>0, <3>2, OwnSlugKept DEF OwnSlug
    <3>4. QED
      BY <3>1, <3>3 DEF HoldOK
  <2>2. ASSUME Uploading(req'[w]) PROVE UploadOK(req[w])'
    <3>1. UploadOK(req'[w])
      BY <2>2 DEF RequestsFit
    <3>2. PICK s \in Slugs : s = req'[w].new.slug /\ NoPageAt(s)
      BY <3>1 DEF UploadOK
    <3>3. NoPageAt(s)'
      BY <2>2, <3>2, NoPageKept
    <3>4. QED
      BY <3>1, <3>2, <3>3 DEF UploadOK, NoPageAt
  <2>3. QED
    BY <2>1, <2>2
<1>4. RequestsOK'
  BY <1>3 DEF RequestsFit, RequestsOK, Holding, Uploading, Apart
<1>5. \A d \in due' : OwnSlug(d.id, d.row.slug)'
  BY <1>0, OwnSlugKept
<1>6. QED
  BY <1>1, <1>2, <1>4, <1>5 DEF PagesInv

LEMMA RequestsEnd ==
    ASSUME RequestsOK, \A v \in Workers : req'[v] = req[v] \/ req'[v] = Idle
    PROVE  RequestsFit
<1>1. ~Holding(Idle) /\ ~Uploading(Idle) /\ Idle.stage = "idle"
  BY DEF Holding, Uploading, Idle, Ups
<1>2. ASSUME NEW w \in Workers
      PROVE  /\ Holding(req'[w]) => HoldOK(req'[w])
             /\ Uploading(req'[w]) => UploadOK(req'[w])
  BY <1>1 DEF RequestsOK
<1>3. ASSUME NEW v \in Workers, NEW w \in Workers, v # w
      PROVE  Apart(req'[v], req'[w])
  BY <1>1, <1>3 DEF RequestsOK, Apart
<1>4. QED
  BY <1>2, <1>3 DEF RequestsFit

\* An upload goes on, or a page whose row is gone loses its folder next.
LEMMA RequestGoesOn ==
    ASSUME TypeOK, RequestsOK, NEW w \in Workers, NEW stage, Continue(w, stage),
           \/ Uploading(req[w]) /\ stage \in Ups
           \/ Holding(req[w]) /\ stage = "remove"
    PROVE  RequestsFit
<1>1. /\ req'[w] = [req[w] EXCEPT !.stage = stage]
      /\ req'[w].stage = stage /\ req'[w].id = req[w].id
      /\ req'[w].oldSlug = req[w].oldSlug /\ req'[w].new = req[w].new
      /\ \A v \in Workers \ {w} : req'[v] = req[v]
  BY DEF TypeOK, Continue, Request
<1>2. ASSUME NEW v \in Workers
      PROVE  /\ Holding(req'[v]) => HoldOK(req'[v])
             /\ Uploading(req'[v]) => UploadOK(req'[v])
  <2>1. CASE v # w
    BY <1>1, <2>1 DEF RequestsOK
  <2>2. CASE Uploading(req[w]) /\ stage \in Ups
    <3>1. Uploading(req'[w]) /\ ~Holding(req'[w]) /\ UploadOK(req[w])
      BY <1>1, <2>2 DEF RequestsOK, Holding, Uploading
    <3>2. QED
      BY <1>1, <2>1, <3>1 DEF UploadOK
  <2>3. CASE Holding(req[w]) /\ stage = "remove"
    <3>1. ~Uploading(req'[w]) /\ HoldOK(req[w])
      BY <1>1, <2>3 DEF RequestsOK, Uploading, Ups
    <3>2. QED
      BY <1>1, <2>1, <2>3, <3>1 DEF HoldOK
  <2>4. QED
    BY <2>2, <2>3
<1>3. ASSUME NEW v \in Workers, NEW u \in Workers, v # u
      PROVE  Apart(req'[v], req'[u])
  <2>1. Apart(req[v], req[u])
    BY <1>3 DEF RequestsOK
  <2>2. QED
    BY <1>1, <1>3, <2>1 DEF Apart, Holding, Uploading, Ups
<1>4. QED
  BY <1>2, <1>3 DEF RequestsFit

\* A request starts with an article it has read, and leaves its slug.
LEMMA RequestReads ==
    ASSUME TypeOK, Owners, RequestsOK, FreshSlugs, NEW w \in Workers,
           NEW stage \in {"update", "delete", "patch", "status", "visibility"},
           NEW id \in Ids, Exists(id), NEW new, new.slug = rows[id].slug,
           Begin(w, stage, id, rows[id].slug, new)
    PROVE  RequestsFit
<1>1. /\ req[w] = Idle
      /\ req'[w] = [stage |-> stage, id |-> id, oldSlug |-> rows[id].slug, new |-> new]
      /\ \A v \in Workers \ {w} : req'[v] = req[v]
  BY DEF Begin, Busy, TypeOK
<1>2. Holding(req'[w]) /\ ~Uploading(req'[w]) /\ req'[w].new.slug = rows[id].slug
  BY <1>1 DEF Holding, Uploading, Ups
<1>3. HoldOK(req'[w])
  BY <1>1 DEF HoldOK, OwnSlug, Owners, Exists
<1>4. ASSUME NEW v \in Workers, v # w, Uploading(req[v])
      PROVE  req[v].new.slug # rows[id].slug
  <2>1. ~Busy(w) /\ Busy(w)' /\ Busy(v)
    BY <1>1, <1>4 DEF Busy, Idle, Uploading, Ups
  <2>2. req[v].new.slug # req'[w].new.slug \/ req[v].id # NoId
    BY <2>1 DEF FreshSlugs
  <2>3. QED
    BY <1>2, <1>4, <2>2 DEF RequestsOK, UploadOK
<1>5. ASSUME NEW v \in Workers, NEW u \in Workers, v # u
      PROVE  Apart(req'[v], req'[u])
  BY <1>1, <1>2, <1>4, <1>5 DEF RequestsOK, Apart
<1>6. QED
  BY <1>1, <1>2, <1>3, <1>5 DEF RequestsOK, RequestsFit

\* A step that leaves the folders alone, and after which no other request is
\* about to insert a page or remove its folder.
LEMMA QuietPages ==
    ASSUME PagesInv, UniqueSlugs', Remember, FreshSlugs,
           UNCHANGED dirs, \A id \in Ids : RowKept(id), RequestsFit,
           \A w \in Workers : req'[w] = req[w] \/ req'[w].stage \notin {"insert", "remove"},
           \A d \in due' : OwnSlug(d.id, d.row.slug)
    PROVE  PagesInv'
<1>1. ASSUME NEW id \in Ids, rows[id] = Deleted PROVE rows'[id] = Deleted
  BY <1>1, PublishingAssumption DEF RowKept, Exists, PublishingAssumption
<1>2. ASSUME NEW w \in Workers, req'[w].stage = "remove"
      PROVE  rows'[req'[w].id] = Deleted
  <2>1. HoldOK(req[w]) /\ rows[req[w].id] = Deleted /\ req'[w] = req[w]
    BY <1>2 DEF PagesInv, RequestsOK, Progress, Holding, Ups
  <2>2. QED
    BY <1>1, <2>1 DEF HoldOK, OwnSlug
<1>3. ASSUME NEW w \in Workers, req'[w].stage = "insert"
      PROVE  dirs'[req'[w].new.slug] = "full"
  BY <1>3 DEF PagesInv, Progress
<1>4. Progress'
  BY <1>2, <1>3 DEF Progress
<1>5. QED
  BY <1>4, PagesKept

\* A request takes away, as its last step, a folder no page has.
LEMMA FolderGoes ==
    ASSUME PagesInv, TypeOK, UniqueSlugs', Remember, FreshSlugs, UNCHANGED <<rows, due>>,
           NEW w \in Workers, req[w].stage # "idle", NEW s \in Slugs,
           s = req[w].new.slug, NoPageAt(s), Finish(w),
           dirs' = [dirs EXCEPT ![s] = "absent"]
    PROVE  PagesInv'
<1>1. /\ req'[w] = Idle /\ \A v \in Workers \ {w} : req'[v] = req[v]
      /\ \A t \in Slugs \ {s} : dirs'[t] = dirs[t]
      /\ RequestsOK /\ Progress
  BY DEF PagesInv, TypeOK, Finish
<1>2. RequestsFit
  BY <1>1, RequestsEnd
<1>3. ASSUME NEW v \in Workers, req'[v].stage = "insert"
      PROVE  dirs'[req'[v].new.slug] = "full"
  <2>1. v # w /\ req'[v] = req[v]
    BY <1>1, <1>3 DEF Idle
  <2>2. Uploading(req[v]) /\ Apart(req[v], req[w]) /\ UploadOK(req[v])
        /\ dirs[req[v].new.slug] = "full"
    BY <1>1, <1>3, <2>1 DEF RequestsOK, Progress, Uploading, Ups
  <2>3. req[v].new.slug \in Slugs \ {s}
    BY <2>2 DEF Apart, UploadOK
  <2>4. QED
    BY <1>1, <2>1, <2>2, <2>3
<1>4. Progress'
  BY <1>1, <1>3 DEF Progress, Idle
<1>5. \A id \in Ids : RowKept(id)
  BY DEF RowKept
<1>6. \A d \in due' : OwnSlug(d.id, d.row.slug)
  BY DEF PagesInv
<1>7. QED
  BY <1>1, <1>2, <1>4, <1>5, <1>6, PagesKept

-----------------------------------------------------------------------------
(* Every step *)

LEMMA UploadPages ==
    ASSUME IInv, PagesInv, UniqueSlugs', Remember, FreshSlugs, NEW w \in Workers,
           \/ UploadClear(w) \/ UploadExtract(w) \/ UploadReject(w)
           \/ UploadInsert(w) \/ UploadDuplicate(w) \/ UploadRollback(w)
    PROVE  PagesInv'
<1> USE DEF At
<1>0. TypeOK /\ DOMAIN rows = Ids /\ RequestsOK /\ Owners /\ Progress
      /\ \A d \in due : OwnSlug(d.id, d.row.slug)
  BY DEF IInv, PagesInv, TypeOK
<1>1. ASSUME Uploading(req[w])
      PROVE  UploadOK(req[w]) /\ req[w].stage # "idle"
  BY <1>0, <1>1 DEF RequestsOK, Uploading, Ups
<1>2. rows' = rows => \A id \in Ids : RowKept(id)
  BY DEF RowKept
<1>3. CASE UploadClear(w)
  <2>1. PICK f \in Form :
          /\ f.slug # NoSlug
          /\ Begin(w, "extract", NoId, f.slug, Uploaded(f))
          /\ dirs' = [dirs EXCEPT ![f.slug] = "partial"]
    BY <1>3 DEF UploadClear
  <2> DEFINE s == f.slug
  <2>2. s \in Slugs /\ Uploaded(f).slug = s
    BY <2>1 DEF Form, AnySlug, Uploaded
  <2>3. /\ req[w] = Idle
        /\ req'[w] = [stage |-> "extract", id |-> NoId, oldSlug |-> s, new |-> Uploaded(f)]
        /\ \A v \in Workers \ {w} : req'[v] = req[v]
    BY <1>0, <2>1 DEF Begin, Busy, TypeOK
  <2>4. ~Busy(w) /\ Busy(w)' /\ req'[w].new.slug = s
    BY <2>2, <2>3 DEF Busy, Idle
  <2>5. owner[s] = NoId /\ \A v \in Workers : Busy(v) => req[v].new.slug # s \/ req[v].id # NoId
    BY <2>3, <2>4 DEF FreshSlugs
  <2>6. NoPageAt(s)
    BY <1>0, <2>5, PublishingAssumption DEF NoPageAt, Owners, PublishingAssumption
  <2>7. ASSUME NEW v \in Workers \ {w}, req[v].stage # "idle"
        PROVE  req[v].new.slug # s
    <3>1. CASE Uploading(req[v])
      BY <1>0, <2>5, <2>7, <3>1 DEF RequestsOK, UploadOK, Busy, Idle
    <3>2. CASE Holding(req[v])
      BY <1>0, <2>5, <3>2, PublishingAssumption
      DEF RequestsOK, HoldOK, OwnSlug, PublishingAssumption
    <3>3. QED
      BY <2>7, <3>1, <3>2 DEF Uploading, Holding
  <2>8. UploadOK(req'[w]) /\ Uploading(req'[w]) /\ ~Holding(req'[w])
    BY <2>2, <2>3, <2>6 DEF UploadOK, Uploading, Holding, Ups
  <2>9. ASSUME NEW v \in Workers, NEW u \in Workers, v # u
        PROVE  Apart(req'[v], req'[u])
    BY <1>0, <2>3, <2>4, <2>7, <2>9 DEF RequestsOK, Apart, Uploading, Ups
  <2>10. RequestsFit
    BY <1>0, <2>3, <2>8, <2>9 DEF RequestsOK, RequestsFit
  <2>11. \A t \in Slugs \ {s} : dirs'[t] = dirs[t]
    BY <1>0, <2>1 DEF TypeOK
  <2>12. ASSUME NEW v \in Workers, req'[v].stage = "insert"
         PROVE  dirs'[req'[v].new.slug] = "full"
    <3>1. v # w /\ req'[v] = req[v]
      BY <2>3, <2>12
    <3>2. dirs[req[v].new.slug] = "full" /\ req[v].new.slug \in Slugs \ {s}
      BY <1>0, <2>7, <2>12, <3>1 DEF Progress, RequestsOK, UploadOK, Uploading, Ups
    <3>3. QED
      BY <2>11, <3>1, <3>2
  <2>13. Progress'
    BY <1>0, <1>3, <2>3, <2>12 DEF Progress, UploadClear
  <2>14. QED
    BY <1>0, <1>2, <1>3, <2>6, <2>10, <2>11, <2>13, PagesKept DEF UploadClear
<1>4. CASE UploadExtract(w)
  <2>1. Uploading(req[w]) /\ UploadOK(req[w])
    BY <1>1, <1>4 DEF UploadExtract, Uploading, Ups
  <2> DEFINE s == req[w].new.slug
  <2>2. /\ s \in Slugs /\ dirs'[s] = "full"
        /\ \A t \in Slugs : dirs'[t] \in {dirs[t], "full"}
    BY <1>0, <1>4, <2>1 DEF UploadExtract, UploadOK, TypeOK
  <2>3. RequestsFit
    BY <1>0, <1>4, <2>1, RequestGoesOn DEF UploadExtract, Ups
  <2>4. /\ req'[w].stage = "insert" /\ req'[w].new = req[w].new
        /\ \A v \in Workers \ {w} : req'[v] = req[v]
    BY <1>0, <1>4 DEF UploadExtract, Continue, TypeOK, Request
  <2>5. ASSUME NEW v \in Workers, req'[v].stage = "insert"
        PROVE  dirs'[req'[v].new.slug] = "full"
    <3>1. CASE v = w
      BY <2>2, <2>4, <3>1
    <3>2. CASE v # w
      BY <1>0, <2>2, <2>4, <2>5, <3>2 DEF Progress, RequestsOK, UploadOK, Uploading, Ups
    <3>3. QED
      BY <3>1, <3>2
  <2>6. Progress'
    BY <1>0, <1>4, <2>4, <2>5 DEF Progress, UploadExtract
  <2>7. QED
    BY <1>0, <1>2, <1>4, <2>2, <2>3, <2>6, PagesKept DEF UploadExtract
<1>5. CASE UploadReject(w) \/ UploadRollback(w)
  <2>1. UploadOK(req[w]) /\ req[w].stage # "idle"
    BY <1>1, <1>5 DEF UploadReject, UploadRollback, Uploading, Ups
  <2>2. QED
    BY <1>0, <1>5, <2>1, FolderGoes DEF UploadReject, UploadRollback, UploadOK
<1>6. CASE UploadInsert(w)
  <2>1. PICK id \in Ids : CanInsert(id, req[w].new) /\ Store(id, req[w].new)
    BY <1>6 DEF UploadInsert
  <2>2. Uploading(req[w]) /\ UploadOK(req[w]) /\ req[w].new \in Row
        /\ dirs[req[w].new.slug] = "full" /\ req[w].stage # "idle"
    BY <1>0, <1>1, <1>6, BusyRequest DEF UploadInsert, Uploading, Ups, Progress, InFlightOK
  <2>3. req'[w] = Idle /\ \A v \in Workers \ {w} : req'[v] = req[v]
    BY <1>0, <1>6 DEF UploadInsert, Finish, TypeOK
  <2>4. ASSUME NEW v \in Workers, Uploading(req'[v])
        PROVE  req'[v].new.slug # req[w].new.slug
    <3>1. v # w /\ req'[v] = req[v]
      BY <2>3, <2>4 DEF Idle, Uploading, Ups
    <3>2. QED
      BY <1>0, <2>2, <2>4, <3>1 DEF RequestsOK, Apart
  <2>5. rows'[id] = req[w].new /\ \A i \in Ids \ {id} : rows'[i] = rows[i]
    BY <1>0, <2>1 DEF Store
  <2>6. RowKept(id)
    BY <1>6, <2>1, <2>2, <2>4, <2>5 DEF RowKept, CanInsert, UploadInsert
  <2>7. \A i \in Ids : RowKept(i)
    BY <2>5, <2>6 DEF RowKept
  <2>8. RequestsFit
    BY <1>0, <2>3, RequestsEnd
  <2>9. QED
    BY <1>0, <1>6, <2>3, <2>7, <2>8, QuietPages DEF UploadInsert, Idle
<1>7. CASE UploadDuplicate(w)
  <2>1. Uploading(req[w]) /\ Continue(w, "rollback")
    BY <1>7 DEF UploadDuplicate, Uploading, Ups
  <2>2. RequestsFit
    BY <1>0, <2>1, RequestGoesOn DEF Ups
  <2>3. QED
    BY <1>0, <1>2, <1>7, <2>1, <2>2, ContinueStage, QuietPages DEF UploadDuplicate
<1>8. QED
  BY <1>3, <1>4, <1>5, <1>6, <1>7

LEMMA DeletePages ==
    ASSUME IInv, PagesInv, UniqueSlugs', Remember, FreshSlugs, NEW w \in Workers,
           DeleteRead(w) \/ DeleteWrite(w) \/ DeleteRemove(w)
    PROVE  PagesInv'
<1> USE DEF At
<1>0. TypeOK /\ DOMAIN rows = Ids /\ RequestsOK /\ Owners /\ Progress
      /\ \A d \in due : OwnSlug(d.id, d.row.slug)
  BY DEF IInv, PagesInv, TypeOK
<1>1. CASE DeleteRead(w)
  <2>1. PICK id \in Ids : /\ Exists(id)
                          /\ Begin(w, "delete", id, rows[id].slug, rows[id])
    BY <1>1 DEF DeleteRead
  <2>2. RequestsFit
    BY <1>0, <2>1, RequestReads
  <2>3. \A v \in Workers : req'[v] = req[v] \/ req'[v].stage \notin {"insert", "remove"}
    BY <1>0, <2>1 DEF Begin, TypeOK
  <2>4. QED
    BY <1>0, <1>1, <2>2, <2>3, QuietPages DEF DeleteRead, RowKept
<1>2. CASE DeleteWrite(w)
  <2>1. Holding(req[w]) /\ HoldOK(req[w])
    BY <1>0, <1>2 DEF DeleteWrite, RequestsOK, Holding, Ups
  <2> DEFINE id == req[w].id
  <2>2. /\ id \in Ids /\ rows[id] # NoRow /\ rows'[id] = Deleted
        /\ \A i \in Ids \ {id} : rows'[i] = rows[i]
    BY <1>0, <1>2, <2>1 DEF DeleteWrite, Erase, HoldOK, OwnSlug
  <2>3. \A i \in Ids : RowKept(i)
    BY <2>2 DEF RowKept
  <2>4. Finish(w) \/ Continue(w, "remove")
    BY <1>2 DEF DeleteWrite
  <2>5. RequestsFit
    BY <1>0, <2>1, <2>4, RequestsEnd, RequestGoesOn DEF Finish, TypeOK
  <2>6. /\ \A v \in Workers \ {w} : req'[v] = req[v]
        /\ req'[w].stage # "insert"
        /\ req'[w].stage = "remove" => req'[w].id = id
    BY <1>0, <2>4 DEF Finish, Continue, TypeOK, Request, Idle
  <2>7. ASSUME NEW v \in Workers, req'[v].stage = "remove"
        PROVE  rows'[req'[v].id] = Deleted
    <3>1. CASE v = w
      BY <2>2, <2>6, <2>7, <3>1
    <3>2. CASE v # w
      <4>1. HoldOK(req[v]) /\ rows[req[v].id] = Deleted /\ req'[v] = req[v]
        BY <1>0, <2>6, <2>7, <3>2 DEF RequestsOK, Progress, Holding, Ups
      <4>2. QED
        BY <2>2, <4>1 DEF HoldOK, OwnSlug
    <3>3. QED
      BY <3>1, <3>2
  <2>8. Progress'
    BY <1>0, <1>2, <2>6, <2>7 DEF Progress, DeleteWrite
  <2>9. QED
    BY <1>0, <1>2, <2>3, <2>5, <2>8, PagesKept DEF DeleteWrite
<1>3. CASE DeleteRemove(w)
  <2> DEFINE s == req[w].new.slug
  <2>1. HoldOK(req[w]) /\ rows[req[w].id] = Deleted /\ req[w].stage # "idle"
    BY <1>0, <1>3 DEF DeleteRemove, RequestsOK, Progress, Holding, Ups
  <2>2. s \in Slugs /\ req[w].oldSlug = s /\ owner[s] = req[w].id
    BY <2>1 DEF HoldOK, OwnSlug
  <2>3. NoPageAt(s)
    BY <1>0, <2>1, <2>2 DEF NoPageAt, Owners, Exists
  <2>4. QED
    BY <1>0, <1>3, <2>1, <2>2, <2>3, FolderGoes DEF DeleteRemove
<1>4. QED
  BY <1>1, <1>2, <1>3

\* A request ends with the write of the row it holds.
LEMMA RowRewritten ==
    ASSUME IInv, PagesInv, UniqueSlugs', Remember, FreshSlugs, NEW w \in Workers,
           req[w].stage \in Writes, CanOverwrite(req[w].id, req[w].new),
           Store(req[w].id, req[w].new), Finish(w), UNCHANGED <<dirs, due>>
    PROVE  PagesInv'
<1> DEFINE id == req[w].id
<1>0. TypeOK /\ DOMAIN rows = Ids /\ RequestsOK
      /\ \A d \in due : OwnSlug(d.id, d.row.slug)
  BY DEF IInv, PagesInv, TypeOK
<1>1. HoldOK(req[w]) /\ InFlightOK(req[w]) /\ Exists(id)
  BY <1>0, BusyRequest DEF CanOverwrite, RequestsOK, Holding, Ups, Writes
<1>2. /\ id \in Ids /\ req[w].new \in Row
      /\ rows[id].slug = req[w].new.slug /\ rows[id].type = req[w].new.type
  BY <1>1 DEF Writes, HoldOK, OwnSlug, InFlightOK
<1>3. rows'[id] = req[w].new /\ \A i \in Ids \ {id} : rows'[i] = rows[i]
  BY <1>0, <1>2 DEF Store
<1>4. \A i \in Ids : RowKept(i)
  BY <1>1, <1>2, <1>3, PublishingAssumption DEF RowKept, Exists, PublishingAssumption
<1>5. \A v \in Workers : req'[v] = req[v] \/ req'[v] = Idle
  BY <1>0 DEF Finish, TypeOK
<1>6. QED
  BY <1>0, <1>4, <1>5, RequestsEnd, QuietPages DEF Idle

LEMMA McpPages ==
    ASSUME IInv, PagesInv, UniqueSlugs', Remember, FreshSlugs, NEW w \in McpCalls, McpStep(w)
    PROVE  PagesInv'
<1>0. TypeOK /\ DOMAIN rows = Ids /\ RequestsOK /\ Owners /\ w \in Workers
      /\ \A d \in due : OwnSlug(d.id, d.row.slug)
  BY DEF IInv, PagesInv, TypeOK, Workers
<1>1. ASSUME NEW id \in Ids, Exists(id), NEW stage \in {"patch", "status", "visibility"},
             NEW new, new.slug = rows[id].slug, Begin(w, stage, id, rows[id].slug, new),
             UNCHANGED <<rows, dirs, due>>
      PROVE  PagesInv'
  <2>1. RequestsFit
    BY <1>0, <1>1, RequestReads
  <2>2. \A v \in Workers : req'[v] = req[v] \/ req'[v].stage \notin {"insert", "remove"}
    BY <1>0, <1>1 DEF Begin, TypeOK
  <2>3. QED
    BY <1>0, <1>1, <2>1, <2>2, QuietPages DEF RowKept
<1>2. CASE McpUpdateRead(w)
  <2>1. PICK id \in Ids, slug \in AnySlug, body \in Bodies :
          /\ Exists(id)
          /\ Begin(w, "patch", id, rows[id].slug, McpPatched(rows[id], slug, body))
    BY <1>2 DEF McpUpdateRead
  <2>2. req'[w] = [stage |-> "patch", id |-> id, oldSlug |-> rows[id].slug,
                   new |-> McpPatched(rows[id], slug, body)]
    BY <1>0, <2>1 DEF Begin, TypeOK
  <2>3. McpPatched(rows[id], slug, body).slug = rows[id].slug
    BY <2>2 DEF FreshSlugs, At
  <2>4. QED
    BY <1>1, <1>2, <2>1, <2>3 DEF McpUpdateRead
<1>3. CASE SetStatusRead(w)
  <2>1. PICK id \in Ids, status \in Statuses, at \in Time :
          /\ Exists(id)
          /\ Begin(w, "status", id, rows[id].slug,
                   McpStatusSet(rows[id], status, at, clock))
    BY <1>3 DEF SetStatusRead
  <2>2. McpStatusSet(rows[id], status, at, clock).slug = rows[id].slug
    BY <1>0, <2>1, ReadRows DEF McpStatusSet, StampPublishedAt, Row
  <2>3. QED
    BY <1>1, <1>3, <2>1, <2>2 DEF SetStatusRead
<1>4. CASE SetVisibilityRead(w)
  <2>1. PICK id \in Ids, v \in Visibilities :
          /\ Exists(id)
          /\ Begin(w, "visibility", id, rows[id].slug, McpVisibilitySet(rows[id], v))
    BY <1>4 DEF SetVisibilityRead
  <2>2. McpVisibilitySet(rows[id], v).slug = rows[id].slug
    BY <1>0, <2>1, ReadRows DEF McpVisibilitySet, Row
  <2>3. QED
    BY <1>1, <1>4, <2>1, <2>2 DEF SetVisibilityRead
<1>5. CASE McpWrite(w)
  BY <1>0, <1>5, RowRewritten DEF McpWrite, Writes
<1>6. QED
  BY <1>2, <1>3, <1>4, <1>5 DEF McpStep

LEMMA UpdatePages ==
    ASSUME IInv, PagesInv, UniqueSlugs', Remember, FreshSlugs, EditsKeepSlugs,
           NEW w \in Workers, UpdateRead(w) \/ UpdateWrite(w)
    PROVE  PagesInv'
<1>0. TypeOK /\ RequestsOK /\ Owners
      /\ \A d \in due : OwnSlug(d.id, d.row.slug)
  BY DEF IInv, PagesInv
<1>1. CASE UpdateRead(w)
  <2>1. PICK id \in Ids, f \in Form :
          /\ Exists(id)
          /\ Begin(w, "update", id, rows[id].slug, FormUpdated(rows[id], f, clock))
    BY <1>1 DEF UpdateRead
  <2>2. ~Busy(w) /\ req'[w] = [stage |-> "update", id |-> id, oldSlug |-> rows[id].slug,
                               new |-> FormUpdated(rows[id], f, clock)]
    BY <1>0, <2>1 DEF Begin, TypeOK
  <2>3. FormUpdated(rows[id], f, clock).slug = rows[id].slug
    BY <2>2 DEF EditsKeepSlugs, At
  <2>4. RequestsFit
    BY <1>0, <2>1, <2>3, RequestReads
  <2>5. \A v \in Workers : req'[v] = req[v] \/ req'[v].stage \notin {"insert", "remove"}
    BY <1>0, <2>1 DEF Begin, TypeOK
  <2>6. QED
    BY <1>0, <1>1, <2>4, <2>5, QuietPages DEF UpdateRead, RowKept
<1>2. CASE UpdateWrite(w)
  <2>1. HoldOK(req[w]) /\ Finish(w)
    BY <1>0, <1>2 DEF UpdateWrite, RequestsOK, Holding, HoldOK, Ups, At
  <2>2. QED
    BY <1>0, <1>2, <2>1, RowRewritten DEF UpdateWrite, At, Writes
<1>3. QED
  BY <1>1, <1>2

LEMMA SystemPages ==
    ASSUME IInv, PagesInv, UniqueSlugs', Remember, FreshSlugs, LostReplies = FALSE,
           SystemStep
    PROVE  PagesInv'
<1>0. TypeOK /\ DOMAIN rows = Ids /\ RequestsOK /\ Owners
      /\ \A d \in due : OwnSlug(d.id, d.row.slug)
  BY DEF IInv, PagesInv, TypeOK
<1>1. ASSUME \A id \in Ids : RowKept(id), UNCHANGED dirs,
             \A v \in Workers : req'[v] = req[v] \/ req'[v] = Idle,
             \A d \in due' : OwnSlug(d.id, d.row.slug)
      PROVE  PagesInv'
  BY <1>0, <1>1, RequestsEnd, QuietPages DEF Idle
<1>2. UNCHANGED rows => \A id \in Ids : RowKept(id)
  BY DEF RowKept
<1>3. ASSUME NEW id \in Ids, NEW a \in Row, a.type = "markdown",
             CanInsert(id, a), Store(id, a), UNCHANGED <<dirs, req, due>>
      PROVE  PagesInv'
  <2>1. rows'[id] = a /\ \A i \in Ids \ {id} : rows'[i] = rows[i]
    BY <1>0, <1>3 DEF Store
  <2>2. \A i \in Ids : RowKept(i)
    BY <1>3, <2>1 DEF RowKept, CanInsert
  <2>3. QED
    BY <1>0, <1>1, <1>3, <2>2
<1>4. CASE Create
  <2>1. \A f \in Form : FormCreated(f, clock).type = "markdown"
    BY FormRow DEF FormCreated, StampPublishedAt, Row
  <2>2. QED
    BY <1>0, <1>3, <1>4, <2>1, ClockTypes, FormCreatedConsistent DEF Create
<1>5. CASE McpCreate
  <2>1. \A f \in Form : McpCreated(f, clock).type = "markdown"
    BY FormRow DEF McpCreated, StampPublishedAt, Row
  <2>2. QED
    BY <1>0, <1>3, <1>5, <2>1, ClockTypes, McpCreatedConsistent DEF McpCreate
<1>6. CASE RedirectCreate \/ RedirectDelete \/ ClockTick
  BY <1>0, <1>1, <1>2, <1>6 DEF RedirectCreate, RedirectDelete, ClockTick
<1>7. ASSUME NEW w \in Workers, WriteRefused(w)
      PROVE  PagesInv'
  BY <1>0, <1>1, <1>2, <1>7 DEF WriteRefused, Finish, TypeOK
<1>8. ASSUME NEW w \in Workers, CallFails(w)
      PROVE  PagesInv'
  <2>1. req[w].stage # "redirect"
    BY <1>0 DEF RequestsOK, Holding, HoldOK, Ups
  <2>2. CASE Finish(w)
    BY <1>0, <1>1, <1>2, <1>8, <2>2 DEF CallFails, Finish, TypeOK
  <2>3. CASE At(w, "insert") /\ Continue(w, "rollback")
    <3>1. RequestsFit
      BY <1>0, <2>3, RequestGoesOn DEF Uploading, Ups, At
    <3>2. QED
      BY <1>0, <1>2, <1>8, <2>3, <3>1, ContinueStage, QuietPages DEF CallFails
  <2>4. QED
    BY <1>8, <2>1, <2>2, <2>3 DEF CallFails, At
<1>9. CASE TickList
  <2>1. due' = DueRows /\ UNCHANGED <<rows, dirs, req>>
    BY <1>9 DEF TickList
  <2>2. \A d \in due' : OwnSlug(d.id, d.row.slug)
    BY <1>0, <2>1 DEF DueRows, OwnSlug, Owners, Exists
  <2>3. QED
    BY <1>1, <1>2, <2>1, <2>2
<1>10. CASE TickPublish
  <2>1. PICK d \in due : /\ Exists(d.id) /\ Store(d.id, Launched(d.row))
                         /\ due' = due \ {d} /\ UNCHANGED <<dirs, req>>
    BY <1>10 DEF TickPublish, CanOverwrite
  <2>2. /\ d.id \in Ids /\ Launched(d.row) \in Row /\ Launched(d.row).type = d.row.type
        /\ Launched(d.row).slug = d.row.slug
    BY <1>0, LaunchedRow DEF Launched, TypeOK, Row
  <2>3. rows[d.id].slug = d.row.slug /\ rows[d.id].type = d.row.type
    BY <1>0, <2>1 DEF OwnSlug, IInv, DueOK
  <2>4. rows'[d.id] = Launched(d.row) /\ \A i \in Ids \ {d.id} : rows'[i] = rows[i]
    BY <1>0, <2>1, <2>2 DEF Store
  <2>5. \A i \in Ids : RowKept(i)
    BY <2>1, <2>2, <2>3, <2>4, PublishingAssumption
    DEF RowKept, Exists, PublishingAssumption
  <2>6. QED
    BY <1>0, <1>1, <2>1, <2>5
<1>11. CASE TickAbort
  BY <1>1, <1>2, <1>11 DEF TickAbort
<1>12. CASE Crash
  BY <1>1, <1>2, <1>12 DEF Crash
<1>13. ~TickReplyLost /\ \A w \in Workers : ~ReplyLost(w)
  BY DEF TickReplyLost, ReplyLost
<1>14. QED
  BY <1>4, <1>5, <1>6, <1>7, <1>8, <1>9, <1>10, <1>11, <1>12, <1>13 DEF SystemStep

LEMMA NextPages ==
    ASSUME IInv, PagesInv, UniqueSlugs', LostReplies = FALSE,
           [FreshNext /\ EditsKeepSlugs]_hvars
    PROVE  PagesInv'
<1>1. CASE UNCHANGED hvars
  BY <1>1 DEF hvars, PagesInv, Owners, PagesHaveFiles, RequestsOK, Progress, Exists,
     HoldOK, UploadOK, OwnSlug, NoPageAt
<1>2. ASSUME FreshNext, EditsKeepSlugs, NEW w \in Handlers, HandlerStep(w)
      PROVE  PagesInv'
  <2>1. w \in Workers /\ (Holding(req[w]) => HoldOK(req[w]))
    BY DEF PagesInv, RequestsOK, Workers
  <2>2. ~(UpdateRedirect(w) \/ UpdateMove(w))
    BY <2>1 DEF HoldOK, Holding, Ups, UpdateRedirect, UpdateMove, At
  <2>3. QED
    BY <1>2, <2>1, <2>2, UpdatePages, DeletePages, UploadPages
    DEF HandlerStep, FreshNext, HNext
<1>3. QED
  BY <1>1, <1>2, McpPages, SystemPages, NextSplit DEF FreshNext, HNext

\* Without the admin form's update there is nothing to keep.
LEMMA NoEdits ==
    ASSUME TypeOK, "update" \notin Ops, Next
    PROVE  EditsKeepSlugs
<1> SUFFICES ASSUME NEW w \in Workers, ~Busy(w), At(w, "update")'
             PROVE  FALSE
  BY DEF EditsKeepSlugs
<1>1. req[w] = Idle /\ req'[w] # req[w]
  BY DEF Busy, At, Idle
<1>2. ASSUME NEW v \in Workers, NEW stage, NEW id, NEW old, NEW new,
             Begin(v, stage, id, old, new)
      PROVE  stage = "update"
  BY <1>1, <1>2 DEF Begin, TypeOK, At
<1>3. ASSUME NEW v \in Workers, Busy(v), \A u \in Workers \ {v} : req'[u] = req[u]
      PROVE  FALSE
  BY <1>1, <1>3 DEF Busy
<1>4. ASSUME NEW v \in Workers, req[v].stage # "idle",
             Finish(v) \/ \E stage \in Stages : Continue(v, stage)
      PROVE  FALSE
  BY <1>3, <1>4, StageBusy, FinishStage, ContinueStage
<1>5. ASSUME NEW v \in Handlers, HandlerStep(v)
      PROVE  FALSE
  <2>1. v \in Workers
    BY DEF Workers
  <2>2. CASE \/ UpdateRead(v) \/ DeleteRead(v) \/ UploadClear(v)
    BY <1>2, <2>1, <2>2 DEF UpdateRead, DeleteRead, UploadClear
  <2>3. CASE ~(UpdateRead(v) \/ DeleteRead(v) \/ UploadClear(v))
    BY <1>4, <1>5, <2>1, <2>3, StagesListed
    DEF HandlerStep, At, UpdateWrite, UpdateRedirect, AfterRedirect, UpdateMove, DeleteWrite,
        DeleteRemove, UploadExtract, UploadReject, UploadInsert, UploadDuplicate,
        UploadRollback
  <2>4. QED
    BY <2>2, <2>3
<1>6. ASSUME NEW v \in McpCalls, McpStep(v)
      PROVE  FALSE
  <2>1. v \in Workers
    BY DEF Workers
  <2>2. QED
    BY <1>2, <1>4, <1>6, <2>1
    DEF McpStep, McpUpdateRead, SetStatusRead, SetVisibilityRead, McpWrite
<1>7. ASSUME NEW v \in Workers, WriteRefused(v) \/ CallFails(v) \/ ReplyLost(v)
      PROVE  FALSE
  BY <1>4, <1>7, StagesListed DEF WriteRefused, CallFails, ReplyLost, At, AfterRedirect
<1>8. ASSUME SystemStep
      PROVE  FALSE
  BY <1>1, <1>7, <1>8 DEF SystemStep, Create, McpCreate, RedirectCreate, RedirectDelete,
     TickList, TickPublish, TickAbort, TickReplyLost, Crash, ClockTick
<1>9. QED
  BY <1>5, <1>6, <1>8, NextSplit

LEMMA FreshImpliesSpec == FreshSpec => Spec
<1>1. HInit => Init
  BY DEF HInit
<1>2. [FreshNext]_hvars => [Next]_vars
  BY DEF FreshNext, HNext, hvars, vars
<1>3. QED
  BY <1>1, <1>2, PTL DEF FreshSpec, Spec

\* A page in the table always has its files, whatever overlaps and whenever the
\* server dies, as long as no article is renamed, no slug is given out twice and
\* no call fails that the database has carried out (Upload.Submit,
\* ArticleAdmin.Update, ArticleAdmin.Delete).
THEOREM FilesKept ==
    ASSUME LostReplies = FALSE
    PROVE  FreshSpec /\ [][EditsKeepSlugs]_hvars => []PagesHaveFiles
<1>1. IInv /\ PagesInv /\ UniqueSlugs' /\ [FreshNext /\ EditsKeepSlugs]_hvars => PagesInv'
  BY NextPages
<1>2. PagesInv => PagesHaveFiles
  BY DEF PagesInv
<1>3. [FreshNext]_hvars /\ [EditsKeepSlugs]_hvars => [FreshNext /\ EditsKeepSlugs]_hvars
  OBVIOUS
<1>4. QED
  BY <1>1, <1>2, <1>3, InitPages, FreshImpliesSpec, Inductive, SlugsUnique, PTL DEF FreshSpec

\* In particular when nobody uses the form's update: the instance of the run.
THEOREM FilesKeptWithoutUpdate ==
    ASSUME "update" \notin Ops, LostReplies = FALSE
    PROVE  FreshSpec => []PagesHaveFiles
<1>1. IInv /\ [FreshNext]_hvars => [EditsKeepSlugs]_hvars
  BY NoEdits DEF IInv, FreshNext, HNext
<1>2. FreshSpec => [][EditsKeepSlugs]_hvars
  BY <1>1, FreshImpliesSpec, Inductive, PTL DEF FreshSpec
<1>3. QED
  BY <1>2, FilesKept, PTL

-----------------------------------------------------------------------------
(* Files and rows agree, one request at a time *)

PageAt(s) ==
    \E id \in Ids : Exists(id) /\ rows[id].type = "html_upload" /\ rows[id].slug = s

DirOK(s) == dirs[s] = IF PageAt(s) THEN "full" ELSE "absent"

NoneAt(s) == \A id \in Ids : Exists(id) => rows[id].slug # s

\* The folders a request is in the middle of changing.
Touches(q, s) ==
    \/ q.stage \in Ups \cup {"remove"} /\ s = q.oldSlug
    \/ /\ q.stage \in {"redirect", "move"} /\ q.new.type = "html_upload"
       /\ s \in {q.oldSlug, q.new.slug}

\* What a request has read is there, and only the form's update renames it.
Reading(q) ==
    /\ q.stage \in Writes \cup {"delete"} => Exists(q.id) /\ rows[q.id].slug = q.oldSlug
    /\ q.stage = "update" => q.new.slug \in Slugs /\ owner[q.new.slug] \in {NoId, q.id}
    /\ q.stage \in Writes \ {"update"} => q.new.slug = q.oldSlug

\* What is true of the table and the folders at each stage.
Doing(q) ==
    /\ Reading(q)
    /\ q.stage \in Ups =>
         /\ q.oldSlug = q.new.slug /\ q.new.slug \in Slugs
         /\ NoneAt(q.new.slug) /\ q.new.type = "html_upload"
    /\ q.stage = "insert" => dirs[q.new.slug] = "full"
    /\ q.stage \in {"redirect", "move"} =>
         /\ q.oldSlug \in Slugs /\ q.new.slug \in Slugs /\ q.oldSlug # q.new.slug
         /\ q.new.type = "html_upload" =>
              /\ dirs[q.oldSlug] = "full" /\ ~PageAt(q.oldSlug)
              /\ dirs[q.new.slug] = "absent" /\ PageAt(q.new.slug)
    /\ q.stage = "move" => q.new.type = "html_upload"
    /\ q.stage = "remove" => q.oldSlug \in Slugs /\ ~PageAt(q.oldSlug)

FilesInv ==
    /\ Owners
    /\ \A w \in Workers : Doing(req[w])
    /\ \A s \in Slugs : (\A w \in Workers : ~Touches(req[w], s)) => DirOK(s)

LEMMA InitFiles == HInit => FilesInv
BY DEF HInit, Init, FilesInv, Owners, Doing, Reading, Touches, DirOK, PageAt, Exists, Idle, Ups, Writes

\* The request that acts is alone, and all folders but its own agree.
LEMMA LoneRequest ==
    ASSUME SerialInv, FilesInv, NEW w \in Workers,
           Busy(w) \/ (\A v \in Workers : req[v] = Idle)
    PROVE  /\ \A v \in Workers \ {w} : req[v] = Idle
           /\ Doing(req[w])
           /\ \A s \in Slugs : ~Touches(req[w], s) => DirOK(s)
<1>1. \A v \in Workers \ {w} : req[v] = Idle
  BY DEF SerialInv, Alone, Busy
<1>2. \A s : ~Touches(Idle, s)
  BY DEF Touches, Idle, Ups
<1>3. QED
  BY <1>1, <1>2 DEF FilesInv

LEMMA FilesStep ==
    ASSUME NEW w \in Workers, \A v \in Workers \ {w} : req'[v] = Idle,
           Owners', Doing(req[w])', \A s \in Slugs : ~Touches(req'[w], s) => DirOK(s)'
    PROVE  FilesInv'
<1>1. ASSUME NEW v \in Workers PROVE Doing(req[v])'
  BY DEF Doing, Reading, Idle, Ups, Writes
<1>2. ASSUME NEW s \in Slugs, \A v \in Workers : ~Touches(req[v], s)'
      PROVE  DirOK(s)'
  BY <1>2 DEF Touches
<1>3. QED
  BY <1>1, <1>2 DEF FilesInv

LEMMA OwnerSame ==
    ASSUME Owners, Remember, UNCHANGED rows
    PROVE  owner' = owner /\ Owners'
<1>1. ASSUME NEW s \in Slugs PROVE owner'[s] = owner[s]
  <2>1. CASE ArticleAt(s)' = {}
    BY <2>1 DEF Remember
  <2>2. CASE ArticleAt(s)' # {}
    <3>1. PICK id \in ArticleAt(s)' : owner'[s] = id
      BY <2>2 DEF Remember
    <3>2. QED
      BY <3>1 DEF ArticleAt, Owners, Exists
  <2>3. QED
    BY <2>1, <2>2
<1>2. owner' = owner
  BY <1>1 DEF Owners, Remember
<1>3. QED
  BY <1>2 DEF Owners, Exists

\* The table and the folders stay; the request ends, begins or goes on, and is
\* in the middle of no less than before.
LEMMA FilesUntouched ==
    ASSUME SerialInv, FilesInv, Remember, UNCHANGED <<rows, dirs>>, NEW w \in Workers,
           Busy(w) \/ (\A v \in Workers : req[v] = Idle),
           \A v \in Workers \ {w} : req'[v] = req[v],
           \A s \in Slugs : Touches(req[w], s) => Touches(req'[w], s),
           Doing(req'[w])
    PROVE  FilesInv'
<1>1. /\ \A v \in Workers \ {w} : req'[v] = Idle
      /\ \A s \in Slugs : ~Touches(req'[w], s) => DirOK(s)
  BY LoneRequest
<1>2. owner' = owner /\ Owners'
  BY OwnerSame DEF FilesInv
<1>3. Doing(req[w])'
  BY <1>2 DEF Doing, Reading, PageAt, NoneAt, Exists
<1>4. \A s \in Slugs : ~Touches(req'[w], s) => DirOK(s)'
  BY <1>1 DEF DirOK, PageAt, Exists
<1>5. QED
  BY <1>1, <1>2, <1>3, <1>4, FilesStep

LEMMA NoneTouched ==
    ASSUME NEW q, q.stage \notin Ups \cup {"remove", "redirect", "move"}
    PROVE  \A s : ~Touches(q, s)
BY DEF Touches

\* A request ends, or has still to overwrite a row, with nothing done.
LEMMA FilesEnd ==
    ASSUME TypeOK, SerialInv, FilesInv, Remember, UNCHANGED <<rows, dirs>>,
           NEW w \in Workers, req[w].stage # "idle",
           \A s \in Slugs : ~Touches(req[w], s), Finish(w)
    PROVE  FilesInv'
<1>1. req'[w] = Idle /\ \A v \in Workers \ {w} : req'[v] = req[v]
  BY DEF Finish, TypeOK
<1>2. Doing(Idle)
  BY DEF Doing, Reading, Idle, Ups, Writes
<1>3. QED
  BY <1>1, <1>2, FilesUntouched, StageBusy

LEMMA FilesIdle ==
    ASSUME FilesInv, Remember, UNCHANGED <<rows, dirs, req>>
    PROVE  FilesInv'
<1>1. owner' = owner /\ Owners'
  BY OwnerSame DEF FilesInv
<1>2. QED
  BY <1>1 DEF FilesInv, Doing, Reading, Touches, DirOK, PageAt, NoneAt, Exists

\* One row is overwritten by one of the same slug and type.
LEMMA SamePages ==
    ASSUME TypeOK, Owners, UniqueSlugs', Remember, NEW id \in Ids, NEW a \in Row,
           Exists(id), Store(id, a), a.slug = rows[id].slug, a.type = rows[id].type
    PROVE  Owners' /\ \A s : PageAt(s)' <=> PageAt(s)
<1>1. rows'[id] = a /\ \A i \in Ids \ {id} : rows'[i] = rows[i]
  BY DEF TypeOK, Store
<1>2. \A i \in Ids : /\ Exists(i)' <=> Exists(i)
                     /\ Exists(i) => rows'[i].slug = rows[i].slug /\ rows'[i].type = rows[i].type
  BY <1>1, PublishingAssumption DEF Exists, PublishingAssumption
<1>3. Owners'
  BY <1>2, OwnersFollow DEF Owners
<1>4. QED
  BY <1>2, <1>3 DEF PageAt

-----------------------------------------------------------------------------
(* Every step *)

LEMMA ReadFiles ==
    ASSUME IInv, SerialInv, FilesInv, Overlap = FALSE, Remember, FreshSlugs,
           UNCHANGED <<rows, dirs>>, NEW w \in Workers, NEW id \in Ids, Exists(id),
           NEW stage \in Writes \cup {"delete"}, NEW new \in Row,
           Begin(w, stage, id, rows[id].slug, new),
           stage \in Writes \ {"update"} => new.slug = rows[id].slug
    PROVE  FilesInv'
<1>1. /\ \A v \in Workers : req[v] = Idle
      /\ req'[w] = [stage |-> stage, id |-> id, oldSlug |-> rows[id].slug, new |-> new]
      /\ \A v \in Workers \ {w} : req'[v] = req[v]
  BY DEF Begin, MayStart, Busy, IInv, TypeOK
<1>2. ~Busy(w) /\ Busy(w)'
  BY <1>1 DEF Busy, Idle, Writes
<1>3. new.slug \in Slugs /\ owner[new.slug] \in {NoId, id}
  BY <1>1, <1>2 DEF FreshSlugs, Row, AnySlug
<1>4. Doing(req'[w])
  BY <1>1, <1>3 DEF Doing, Reading, Ups, Writes
<1>5. QED
  BY <1>1, <1>4, FilesUntouched, NoneTouched DEF Idle, Ups

LEMMA RewriteFiles ==
    ASSUME IInv, SerialInv, FilesInv, UniqueSlugs', Remember, UNCHANGED dirs,
           NEW w \in Workers, req[w].stage \in Writes, CanOverwrite(req[w].id, req[w].new),
           req[w].new.slug = req[w].oldSlug,
           Store(req[w].id, req[w].new), Finish(w)
    PROVE  FilesInv'
<1>1. req'[w] = Idle /\ \A v \in Workers \ {w} : req'[v] = req[v]
  BY DEF Finish, IInv, TypeOK
<1>2. Busy(w) /\ InFlightOK(req[w]) /\ Exists(req[w].id)
  BY StageBusy, BusyRequest DEF Writes, CanOverwrite
<1>3. /\ \A v \in Workers \ {w} : req[v] = Idle
      /\ Doing(req[w]) /\ \A s \in Slugs : DirOK(s)
  BY <1>2, LoneRequest, NoneTouched DEF Writes, Ups
<1>4. /\ req[w].id \in Ids /\ req[w].new \in Row
      /\ rows[req[w].id].slug = req[w].new.slug /\ rows[req[w].id].type = req[w].new.type
  BY <1>2, <1>3 DEF InFlightOK, Doing, Reading, Writes
<1>5. Owners' /\ \A s : PageAt(s)' <=> PageAt(s)
  BY <1>2, <1>4, SamePages DEF FilesInv, IInv
<1>6. Doing(req[w])'
  BY <1>1 DEF Doing, Reading, Idle, Ups, Writes
<1>7. \A s \in Slugs : DirOK(s)'
  BY <1>3, <1>5 DEF DirOK
<1>8. QED
  BY <1>1, <1>3, <1>5, <1>6, <1>7, FilesStep

LEMMA McpFiles ==
    ASSUME IInv, SerialInv, FilesInv, Overlap = FALSE, UniqueSlugs', Remember, FreshSlugs,
           NEW w \in McpCalls, McpStep(w)
    PROVE  FilesInv'
<1>0. TypeOK /\ w \in Workers /\ clock \in 1..MaxTime /\ clock \in Nat
  BY ClockTypes DEF IInv, Workers
<1>1. ASSUME NEW id \in Ids, Exists(id)
      PROVE  rows[id] \in Row /\ Consistent(rows[id], clock)
  BY <1>0, <1>1, ReadRows DEF IInv, Lifecycle
<1>2. CASE McpUpdateRead(w)
  <2>1. PICK id \in Ids, slug \in AnySlug, body \in Bodies :
          /\ Exists(id)
          /\ Begin(w, "patch", id, rows[id].slug, McpPatched(rows[id], slug, body))
    BY <1>2 DEF McpUpdateRead
  <2>2. req'[w] = [stage |-> "patch", id |-> id, oldSlug |-> rows[id].slug,
                   new |-> McpPatched(rows[id], slug, body)]
    BY <1>0, <2>1 DEF Begin, TypeOK
  <2>3. McpPatched(rows[id], slug, body).slug = rows[id].slug
    BY <2>2 DEF FreshSlugs, At
  <2>4. McpPatched(rows[id], slug, body) \in Row
    BY <1>0, <1>1, <2>1, McpPatchedConsistent
  <2>5. QED
    BY <1>0, <1>2, <2>1, <2>3, <2>4, ReadFiles DEF McpUpdateRead, Writes
<1>3. CASE SetStatusRead(w)
  <2>1. PICK id \in Ids, status \in Statuses, at \in Time :
          /\ Exists(id)
          /\ Begin(w, "status", id, rows[id].slug,
                   McpStatusSet(rows[id], status, at, clock))
    BY <1>3 DEF SetStatusRead
  <2>2. McpStatusSet(rows[id], status, at, clock).slug = rows[id].slug
    BY <1>1, <2>1 DEF McpStatusSet, StampPublishedAt, Row
  <2>3. McpStatusSet(rows[id], status, at, clock) \in Row
    BY <1>0, <1>1, <2>1, McpStatusSetConsistent
  <2>4. QED
    BY <1>0, <1>3, <2>1, <2>2, <2>3, ReadFiles DEF SetStatusRead, Writes
<1>4. CASE SetVisibilityRead(w)
  <2>1. PICK id \in Ids, v \in Visibilities :
          /\ Exists(id)
          /\ Begin(w, "visibility", id, rows[id].slug, McpVisibilitySet(rows[id], v))
    BY <1>4 DEF SetVisibilityRead
  <2>2. McpVisibilitySet(rows[id], v).slug = rows[id].slug
    BY <1>1, <2>1 DEF McpVisibilitySet, Row
  <2>3. McpVisibilitySet(rows[id], v) \in Row
    BY <1>0, <1>1, <2>1, McpVisibilitySetConsistent
  <2>4. QED
    BY <1>0, <1>4, <2>1, <2>2, <2>3, ReadFiles DEF SetVisibilityRead, Writes
<1>5. CASE McpWrite(w)
  <2>1. req[w].new.slug = req[w].oldSlug
    BY <1>0, <1>5 DEF McpWrite, FilesInv, Doing, Reading, Writes
  <2>2. QED
    BY <1>0, <1>5, <2>1, RewriteFiles DEF McpWrite, Writes
<1>6. QED
  BY <1>2, <1>3, <1>4, <1>5 DEF McpStep

LEMMA RenameFiles ==
    ASSUME IInv, SerialInv, FilesInv, UniqueSlugs', Remember,
           NEW w \in Workers, UpdateWrite(w), NEW old, NEW new, old # new,
           req[w].oldSlug = old, req[w].new.slug = new
    PROVE  FilesInv'
<1> DEFINE id == req[w].id
<1> USE DEF At
<1>1. TypeOK /\ Busy(w) /\ InFlightOK(req[w]) /\ Exists(id) /\ DOMAIN rows = Ids
  BY BusyRequest, StageBusy DEF UpdateWrite, CanOverwrite, IInv, TypeOK
<1>2. /\ \A v \in Workers \ {w} : req[v] = Idle
      /\ Doing(req[w]) /\ \A s \in Slugs : DirOK(s)
  BY <1>1, LoneRequest, NoneTouched DEF UpdateWrite, Ups
<1>3. /\ id \in Ids /\ rows[id].slug = old /\ rows[id].type = req[w].new.type
      /\ old \in Slugs /\ new \in Slugs /\ owner[new] \in {NoId, id}
  BY <1>1, <1>2 DEF UpdateWrite, InFlightOK, Doing, Reading, Writes, FilesInv, Owners
<1>4. rows'[id] = req[w].new /\ \A i \in Ids \ {id} : rows'[i] = rows[i]
  BY <1>1, <1>3 DEF UpdateWrite, Store
<1>5. /\ req'[w].stage = "redirect" /\ req'[w].oldSlug = old /\ req'[w].new = req[w].new
      /\ \A v \in Workers \ {w} : req'[v] = Idle
  BY <1>1, <1>2 DEF UpdateWrite, Continue, TypeOK, Request
<1>6. \A i \in Ids : Exists(i)' <=> Exists(i)
  BY <1>1, <1>4, PublishingAssumption DEF Exists, InFlightOK, PublishingAssumption
<1>7. ASSUME NEW i \in Ids \ {id}, Exists(i)
      PROVE  rows[i].slug # old /\ rows[i].slug # new
  BY <1>1, <1>3, <1>7, PublishingAssumption DEF FilesInv, Owners, PublishingAssumption
<1>8. Owners'
  <2>1. ASSUME NEW i \in Ids, Exists(i)'
        PROVE  rows'[i].slug \in Slugs /\ owner[rows'[i].slug] \in {NoId, i}
    BY <1>3, <1>4, <1>6, <2>1 DEF FilesInv, Owners
  <2>2. QED
    BY <2>1, OwnersFollow DEF FilesInv
<1>9. ASSUME NEW s \in Slugs \ {old, new}
      PROVE  PageAt(s)' <=> PageAt(s)
  BY <1>3, <1>4, <1>6 DEF PageAt
<1>10. /\ ~PageAt(old)' /\ ~PageAt(new)
       /\ PageAt(new)' <=> req[w].new.type = "html_upload"
       /\ PageAt(old) <=> req[w].new.type = "html_upload"
  <2>1. ~PageAt(old)'
    BY <1>3, <1>4, <1>6, <1>7 DEF PageAt
  <2>2. ~PageAt(new)
    BY <1>3, <1>7 DEF PageAt
  <2>3. PageAt(new)' <=> req[w].new.type = "html_upload"
    BY <1>1, <1>3, <1>4, <1>6, <1>7 DEF PageAt
  <2>4. PageAt(old) <=> req[w].new.type = "html_upload"
    BY <1>1, <1>3, <1>7 DEF PageAt
  <2>5. QED
    BY <2>1, <2>2, <2>3, <2>4
<1>11. Doing(req[w])'
  BY <1>2, <1>3, <1>5, <1>10 DEF Doing, Reading, Ups, Writes, DirOK, UpdateWrite
<1>12. ASSUME NEW s \in Slugs, ~Touches(req'[w], s)
       PROVE  DirOK(s)'
  <2>1. CASE s \notin {old, new}
    BY <1>2, <1>9, <2>1 DEF DirOK, UpdateWrite
  <2>2. CASE s \in {old, new}
    <3>1. req[w].new.type # "html_upload"
      BY <1>5, <1>12, <2>2 DEF Touches
    <3>2. DirOK(s) /\ ~PageAt(s) /\ ~PageAt(s)'
      BY <1>2, <1>3, <1>10, <2>2, <3>1
    <3>3. QED
      BY <3>2 DEF DirOK, UpdateWrite
  <2>3. QED
    BY <2>1, <2>2
<1>13. QED
  BY <1>5, <1>8, <1>11, <1>12, FilesStep

LEMMA UpdateFiles ==
    ASSUME IInv, SerialInv, FilesInv, Overlap = FALSE, UniqueSlugs', Remember, FreshSlugs,
           NEW w \in Workers,
           UpdateRead(w) \/ UpdateWrite(w) \/ UpdateRedirect(w) \/ UpdateMove(w)
    PROVE  FilesInv'
<1> USE DEF At
<1>0. TypeOK
  BY DEF IInv
<1>1. CASE UpdateRead(w)
  <2>1. PICK id \in Ids, f \in Form :
          /\ Exists(id)
          /\ Begin(w, "update", id, rows[id].slug, FormUpdated(rows[id], f, clock))
    BY <1>1 DEF UpdateRead
  <2>2. FormUpdated(rows[id], f, clock) \in Row
    BY <1>0, <2>1, ReadRows, ClockTypes, FormUpdatedConsistent DEF IInv, Lifecycle
  <2>3. QED
    BY <1>1, <2>1, <2>2, ReadFiles DEF UpdateRead, Writes
<1>2. CASE UpdateWrite(w)
  BY <1>2, RenameFiles, RewriteFiles DEF UpdateWrite, Writes
<1>3. CASE UpdateRedirect(w)
  <2>1. Busy(w) /\ Doing(req[w])
    BY <1>3, StageBusy DEF UpdateRedirect, FilesInv
  <2>2. CASE req[w].new.type # "html_upload"
    <3>1. \A s \in Slugs : ~Touches(req[w], s)
      BY <1>3, <2>2 DEF UpdateRedirect, Touches, Ups
    <3>2. QED
      BY <1>0, <1>3, <2>2, <3>1, FilesEnd DEF UpdateRedirect, AfterRedirect
  <2>3. CASE req[w].new.type = "html_upload"
    <3>1. /\ req'[w].stage = "move" /\ req'[w].oldSlug = req[w].oldSlug
          /\ req'[w].new = req[w].new /\ \A v \in Workers \ {w} : req'[v] = req[v]
      BY <1>0, <1>3, <2>3 DEF UpdateRedirect, AfterRedirect, Continue, TypeOK, Request
    <3>2. Doing(req'[w])
      BY <1>3, <2>1, <2>3, <3>1 DEF UpdateRedirect, Doing, Reading, Ups, Writes
    <3>3. \A s \in Slugs : Touches(req[w], s) => Touches(req'[w], s)
      BY <1>3, <2>3, <3>1 DEF UpdateRedirect, Touches, Ups
    <3>4. QED
      BY <1>3, <2>1, <3>1, <3>2, <3>3, FilesUntouched DEF UpdateRedirect
  <2>4. QED
    BY <2>2, <2>3
<1>4. CASE UpdateMove(w)
  <2> DEFINE old == req[w].oldSlug
             new == req[w].new.slug
  <2>1. Busy(w)
    BY <1>4, StageBusy DEF UpdateMove
  <2>2. /\ \A v \in Workers \ {w} : req[v] = Idle
        /\ Doing(req[w]) /\ \A s \in Slugs : ~Touches(req[w], s) => DirOK(s)
    BY <2>1, LoneRequest
  <2>3. /\ old \in Slugs /\ new \in Slugs /\ old # new
        /\ dirs[old] = "full" /\ ~PageAt(old) /\ dirs[new] = "absent" /\ PageAt(new)
    BY <1>4, <2>2 DEF UpdateMove, Doing, Reading
  <2>4. dirs' = [dirs EXCEPT ![old] = "absent", ![new] = dirs[old]]
    BY <1>4, <2>3 DEF UpdateMove
  <2>5. /\ dirs'[old] = "absent" /\ dirs'[new] = "full"
        /\ \A s \in Slugs \ {old, new} : dirs'[s] = dirs[s]
    BY <1>0, <2>3, <2>4 DEF TypeOK
  <2>6. \A s : PageAt(s)' <=> PageAt(s)
    BY <1>4 DEF UpdateMove, PageAt, Exists
  <2>7. \A s \in Slugs \ {old, new} : DirOK(s)
    BY <1>4, <2>2 DEF UpdateMove, Touches, Ups
  <2>8. \A s \in Slugs : DirOK(s)'
    BY <2>3, <2>5, <2>6, <2>7 DEF DirOK
  <2>9. req'[w] = Idle /\ \A v \in Workers \ {w} : req'[v] = Idle
    BY <1>0, <1>4, <2>2 DEF UpdateMove, Finish, TypeOK
  <2>10. Doing(req[w])'
    BY <2>9 DEF Doing, Reading, Idle, Ups, Writes
  <2>11. Owners'
    BY <1>4, OwnerSame DEF UpdateMove, FilesInv
  <2>12. QED
    BY <2>8, <2>9, <2>10, <2>11, FilesStep
<1>5. QED
  BY <1>1, <1>2, <1>3, <1>4

\* A folder no page has goes, and its request with it.
LEMMA ClearedFiles ==
    ASSUME TypeOK, SerialInv, FilesInv, Remember, UNCHANGED rows,
           NEW w \in Workers, req[w].stage \in Ups \cup {"remove"},
           NEW s \in Slugs, s = req[w].oldSlug, ~PageAt(s),
           dirs' = [dirs EXCEPT ![s] = "absent"], Finish(w)
    PROVE  FilesInv'
<1>1. /\ \A v \in Workers \ {w} : req[v] = Idle
      /\ \A t \in Slugs : ~Touches(req[w], t) => DirOK(t)
  BY LoneRequest, StageBusy DEF Ups
<1>2. \A v \in Workers : req'[v] = Idle
  BY <1>1 DEF Finish, TypeOK
<1>3. Owners' /\ \A t : PageAt(t)' <=> PageAt(t)
  BY OwnerSame DEF FilesInv, PageAt, Exists
<1>4. \A t \in Slugs \ {s} : DirOK(t) /\ dirs'[t] = dirs[t]
  BY <1>1 DEF Touches, Ups, TypeOK
<1>5. dirs'[s] = "absent"
  BY DEF TypeOK
<1>6. \A t \in Slugs : DirOK(t)'
  BY <1>3, <1>4, <1>5 DEF DirOK
<1>7. Doing(req[w])'
  BY <1>2 DEF Doing, Reading, Idle, Ups, Writes
<1>8. QED
  BY <1>2, <1>3, <1>6, <1>7, FilesStep

LEMMA DeleteFiles ==
    ASSUME IInv, SerialInv, FilesInv, Overlap = FALSE, UniqueSlugs', Remember, FreshSlugs,
           NEW w \in Workers, DeleteRead(w) \/ DeleteWrite(w) \/ DeleteRemove(w)
    PROVE  FilesInv'
<1> USE DEF At
<1>0. TypeOK /\ DOMAIN rows = Ids
  BY DEF IInv, TypeOK
<1>1. CASE DeleteRead(w)
  <2>1. PICK id \in Ids : /\ Exists(id)
                          /\ Begin(w, "delete", id, rows[id].slug, rows[id])
    BY <1>1 DEF DeleteRead
  <2>2. QED
    BY <1>0, <1>1, <2>1, ReadRows, ReadFiles DEF DeleteRead, Writes
<1>2. CASE DeleteWrite(w)
  <2> DEFINE id == req[w].id
  <2>1. PICK s : s = req[w].oldSlug
    OBVIOUS
  <2>2. Busy(w) /\ InFlightOK(req[w])
    BY <1>2, StageBusy, BusyRequest DEF DeleteWrite
  <2>3. /\ \A v \in Workers \ {w} : req[v] = Idle
        /\ Doing(req[w]) /\ \A t \in Slugs : DirOK(t)
    BY <1>2, <2>2, LoneRequest, NoneTouched DEF DeleteWrite, Ups
  <2>4. /\ id \in Ids /\ Exists(id) /\ rows[id].slug = s /\ rows[id].type = req[w].new.type
        /\ s \in Slugs
    BY <1>2, <2>1, <2>2, <2>3
    DEF DeleteWrite, InFlightOK, Doing, Reading, FilesInv, Owners
  <2>5. rows'[id] = Deleted /\ \A i \in Ids \ {id} : rows'[i] = rows[i]
    BY <1>0, <1>2, <2>4 DEF DeleteWrite, Erase
  <2>6. ASSUME NEW i \in Ids \ {id}, Exists(i)
        PROVE  rows[i].slug # s
    BY <2>4, <2>6 DEF FilesInv, Owners
  <2>7. Owners'
    <3>1. ASSUME NEW i \in Ids, Exists(i)'
          PROVE  rows'[i].slug \in Slugs /\ owner[rows'[i].slug] \in {NoId, i}
      BY <2>5, <3>1 DEF FilesInv, Owners, Exists
    <3>2. QED
      BY <3>1, OwnersFollow DEF FilesInv
  <2>8. \A t \in Slugs \ {s} : PageAt(t)' <=> PageAt(t)
    BY <2>4, <2>5 DEF PageAt, Exists
  <2>9. ~PageAt(s)' /\ (PageAt(s) <=> req[w].new.type = "html_upload")
    BY <2>4, <2>5, <2>6 DEF PageAt, Exists
  <2>10. ASSUME NEW t \in Slugs, t # s \/ req[w].new.type # "html_upload"
         PROVE  DirOK(t)'
    <3>1. DirOK(t) /\ (PageAt(t)' <=> PageAt(t))
      BY <2>3, <2>8, <2>9, <2>10
    <3>2. QED
      BY <1>2, <3>1 DEF DirOK, DeleteWrite
  <2>11. CASE req[w].new.type = "html_upload"
    <3>1. /\ req'[w].stage = "remove" /\ req'[w].oldSlug = s
          /\ \A v \in Workers \ {w} : req'[v] = Idle
      BY <1>0, <1>2, <2>1, <2>3, <2>4, <2>11
      DEF DeleteWrite, Continue, TypeOK, Request
    <3>2. Doing(req[w])'
      BY <2>4, <2>9, <3>1 DEF Doing, Reading, Ups, Writes
    <3>3. QED
      BY <2>7, <2>10, <3>1, <3>2, FilesStep DEF Touches
  <2>12. CASE req[w].new.type # "html_upload"
    <3>1. \A v \in Workers : req'[v] = Idle
      BY <1>0, <1>2, <2>3, <2>12 DEF DeleteWrite, Finish, TypeOK
    <3>2. Doing(req[w])'
      BY <3>1 DEF Doing, Reading, Idle, Ups, Writes
    <3>3. QED
      BY <2>7, <2>10, <2>12, <3>1, <3>2, FilesStep
  <2>13. QED
    BY <2>11, <2>12
<1>3. CASE DeleteRemove(w)
  <2>1. req[w].oldSlug \in Slugs /\ ~PageAt(req[w].oldSlug)
    BY <1>3 DEF DeleteRemove, FilesInv, Doing, Reading
  <2>2. QED
    BY <1>0, <1>3, <2>1, ClearedFiles DEF DeleteRemove
<1>4. QED
  BY <1>1, <1>2, <1>3

LEMMA UploadFiles ==
    ASSUME IInv, SerialInv, FilesInv, Overlap = FALSE, UniqueSlugs', Remember, FreshSlugs,
           NEW w \in Workers,
           \/ UploadClear(w) \/ UploadExtract(w) \/ UploadReject(w)
           \/ UploadInsert(w) \/ UploadDuplicate(w) \/ UploadRollback(w)
    PROVE  FilesInv'
<1> USE DEF At
<1>0. TypeOK /\ DOMAIN rows = Ids
  BY DEF IInv, TypeOK
<1>1. CASE UploadClear(w)
  <2>1. PICK f \in Form :
          /\ f.slug # NoSlug
          /\ Begin(w, "extract", NoId, f.slug, Uploaded(f))
          /\ dirs' = [dirs EXCEPT ![f.slug] = "partial"]
    BY <1>1 DEF UploadClear
  <2>2. PICK s \in Slugs : s = f.slug
    BY <2>1 DEF Form, AnySlug
  <2>3. Uploaded(f).slug = s /\ Uploaded(f).type = "html_upload"
    BY <2>2 DEF Uploaded
  <2>4. /\ \A v \in Workers : req[v] = Idle
        /\ req'[w] = [stage |-> "extract", id |-> NoId, oldSlug |-> s, new |-> Uploaded(f)]
        /\ \A v \in Workers \ {w} : req'[v] = Idle
    BY <1>0, <2>1, <2>2 DEF Begin, MayStart, Busy, TypeOK
  <2>5. ~Busy(w) /\ Busy(w)' /\ req'[w].new.slug = s /\ req'[w].id = NoId
    BY <2>3, <2>4 DEF Busy, Idle
  <2>6. owner[s] = NoId
    BY <2>5 DEF FreshSlugs
  <2>7. NoneAt(s)
    BY <2>6, PublishingAssumption DEF NoneAt, FilesInv, Owners, PublishingAssumption
  <2>8. Owners' /\ NoneAt(s)' /\ \A t : PageAt(t)' <=> PageAt(t)
    BY <1>1, <2>7, OwnerSame DEF UploadClear, FilesInv, PageAt, NoneAt, Exists
  <2>9. Doing(req[w])'
    BY <2>3, <2>4, <2>8 DEF Doing, Reading, Ups, Writes
  <2>10. \A t \in Slugs : DirOK(t)
    BY <2>4, NoneTouched DEF FilesInv, Idle, Ups
  <2>11. ASSUME NEW t \in Slugs, ~Touches(req'[w], t)
         PROVE  DirOK(t)'
    <3>1. t # s
      BY <2>4, <2>11 DEF Touches, Ups
    <3>2. dirs'[t] = dirs[t]
      BY <1>0, <2>1, <2>2, <3>1 DEF TypeOK
    <3>3. QED
      BY <2>8, <2>10, <3>2 DEF DirOK
  <2>12. QED
    BY <2>4, <2>8, <2>9, <2>11, FilesStep
<1>2. ASSUME req[w].stage \in Ups
      PROVE  /\ \A v \in Workers \ {w} : req[v] = Idle
             /\ Doing(req[w]) /\ \A t \in Slugs : ~Touches(req[w], t) => DirOK(t)
             /\ req[w].oldSlug = req[w].new.slug /\ req[w].new.slug \in Slugs
             /\ NoneAt(req[w].new.slug) /\ ~PageAt(req[w].new.slug)
  <2>1. /\ \A v \in Workers \ {w} : req[v] = Idle
        /\ Doing(req[w]) /\ \A t \in Slugs : ~Touches(req[w], t) => DirOK(t)
    BY <1>2, LoneRequest, StageBusy DEF Ups
  <2>2. QED
    BY <1>2, <2>1 DEF Doing, Reading, NoneAt, PageAt
<1>3. CASE UploadExtract(w)
  <2>1. PICK s \in Slugs : s = req[w].new.slug /\ s = req[w].oldSlug
    BY <1>2, <1>3 DEF UploadExtract, Ups
  <2>2. /\ req'[w].stage = "insert" /\ req'[w].oldSlug = s /\ req'[w].new = req[w].new
        /\ \A v \in Workers \ {w} : req'[v] = Idle
    BY <1>0, <1>2, <1>3, <2>1 DEF UploadExtract, Continue, TypeOK, Request, Ups
  <2>3. dirs'[s] = "full" /\ \A t \in Slugs \ {s} : dirs'[t] = dirs[t]
    BY <1>0, <1>3, <2>1 DEF UploadExtract, TypeOK
  <2>4. Owners' /\ NoneAt(s)' /\ \A t : PageAt(t)' <=> PageAt(t)
    BY <1>2, <1>3, <2>1, OwnerSame
    DEF UploadExtract, FilesInv, PageAt, NoneAt, Exists, Ups
  <2>5. Doing(req[w]) /\ req[w].stage \in Ups
    BY <1>2, <1>3 DEF UploadExtract, Ups
  <2>6. Doing(req[w])'
    BY <2>1, <2>2, <2>3, <2>4, <2>5 DEF Doing, Reading, Ups, Writes
  <2>7. ASSUME NEW t \in Slugs, ~Touches(req'[w], t)
        PROVE  DirOK(t)'
    <3>1. t # s
      BY <2>2, <2>7 DEF Touches, Ups
    <3>2. DirOK(t)
      BY <1>2, <2>1, <2>5, <3>1 DEF Touches, Ups
    <3>3. QED
      BY <2>3, <2>4, <3>1, <3>2 DEF DirOK
  <2>8. QED
    BY <2>2, <2>4, <2>6, <2>7, FilesStep
<1>4. CASE UploadReject(w) \/ UploadRollback(w)
  <2>1. req[w].stage \in Ups
    BY <1>4 DEF UploadReject, UploadRollback, Ups
  <2>2. QED
    BY <1>0, <1>2, <1>4, <2>1, ClearedFiles DEF UploadReject, UploadRollback
<1>5. CASE UploadInsert(w)
  <2>1. PICK id \in Ids : CanInsert(id, req[w].new) /\ Store(id, req[w].new)
    BY <1>5 DEF UploadInsert
  <2>2. PICK s \in Slugs : s = req[w].new.slug /\ s = req[w].oldSlug
    BY <1>2, <1>5 DEF UploadInsert, Ups
  <2>3. Doing(req[w]) /\ req[w].stage = "insert" /\ req[w].new \in Row
    BY <1>0, <1>2, <1>5, BusyRequest DEF UploadInsert, Ups, InFlightOK
  <2>4. /\ dirs[s] = "full" /\ req[w].new.type = "html_upload"
        /\ \A i \in Ids : Exists(i) => rows[i].slug # s
    BY <2>2, <2>3 DEF Doing, Reading, Ups, NoneAt
  <2>5. \A v \in Workers : req'[v] = Idle
    BY <1>0, <1>2, <1>5, <2>3 DEF UploadInsert, Finish, TypeOK, Ups
  <2>6. rows'[id] = req[w].new /\ \A i \in Ids \ {id} : rows'[i] = rows[i]
    BY <1>0, <2>1 DEF Store
  <2>7. Exists(id)' /\ ~Exists(id)
    BY <2>1, <2>3, <2>6, PublishingAssumption DEF CanInsert, Exists, PublishingAssumption
  <2>8. Owners'
    <3>1. ASSUME NEW i \in Ids, Exists(i)'
          PROVE  rows'[i].slug \in Slugs /\ owner[rows'[i].slug] \in {NoId, i}
      <4>1. CASE i = id
        BY <2>2, <2>6, <2>7, <4>1 DEF FreshSlugs
      <4>2. CASE i # id
        BY <2>6, <3>1, <4>2 DEF FilesInv, Owners, Exists
      <4>3. QED
        BY <4>1, <4>2
    <3>2. QED
      BY <3>1, OwnersFollow DEF FilesInv
  <2>9. PageAt(s)'
    BY <2>2, <2>4, <2>6, <2>7 DEF PageAt
  <2>10. \A t \in Slugs \ {s} : PageAt(t)' <=> PageAt(t)
    BY <2>2, <2>6, <2>7 DEF PageAt, Exists
  <2>11. \A t \in Slugs \ {s} : DirOK(t)
    BY <1>2, <2>2, <2>3 DEF Touches, Ups
  <2>12. \A t \in Slugs : DirOK(t)'
    BY <1>5, <2>4, <2>9, <2>10, <2>11 DEF DirOK, UploadInsert
  <2>13. Doing(req[w])'
    BY <2>5 DEF Doing, Reading, Idle, Ups, Writes
  <2>14. QED
    BY <2>5, <2>8, <2>12, <2>13, FilesStep
<1>6. CASE UploadDuplicate(w)
  <2>1. NoneAt(req[w].new.slug)
    BY <1>2, <1>6 DEF UploadDuplicate, Ups
  <2>2. QED
    BY <1>6, <2>1 DEF UploadDuplicate, SlugFree, NoneAt
<1>7. QED
  BY <1>1, <1>3, <1>4, <1>5, <1>6

\* A markdown article appears while nothing else runs.
LEMMA CreatedFiles ==
    ASSUME IInv, FilesInv, UniqueSlugs', Remember, FreshSlugs, UNCHANGED <<dirs, req>>,
           \A w \in Workers : req[w] = Idle,
           NEW id \in Ids, NEW a \in Row, a.type = "markdown", CanInsert(id, a), Store(id, a)
    PROVE  FilesInv'
<1>1. rows'[id] = a /\ \A i \in Ids \ {id} : rows'[i] = rows[i]
  BY DEF IInv, TypeOK, Store
<1>2. Exists(id)' /\ ~Exists(id) /\ a.slug \in Slugs
  BY <1>1, PublishingAssumption DEF CanInsert, Exists, Row, AnySlug, PublishingAssumption
<1>3. Owners'
  <2>1. ASSUME NEW i \in Ids, Exists(i)'
        PROVE  rows'[i].slug \in Slugs /\ owner[rows'[i].slug] \in {NoId, i}
    <3>1. CASE i = id
      BY <1>1, <1>2, <3>1 DEF FreshSlugs
    <3>2. CASE i # id
      BY <1>1, <2>1, <3>2 DEF FilesInv, Owners, Exists
    <3>3. QED
      BY <3>1, <3>2
  <2>2. QED
    BY <2>1, OwnersFollow DEF FilesInv
<1>4. \A t : PageAt(t)' <=> PageAt(t)
  BY <1>1, <1>2 DEF PageAt, Exists
<1>5. \A t \in Slugs : DirOK(t)
  BY NoneTouched DEF FilesInv, Idle, Ups
<1>6. \A t \in Slugs : DirOK(t)'
  BY <1>4, <1>5 DEF DirOK
<1>7. ASSUME NEW w \in Workers PROVE Doing(req[w])'
  BY DEF Doing, Reading, Idle, Ups, Writes
<1>8. QED
  BY <1>3, <1>6, <1>7 DEF FilesInv

LEMMA SystemFiles ==
    ASSUME IInv, SerialInv, FilesInv, Overlap = FALSE, UniqueSlugs', Remember, FreshSlugs,
           LostReplies = FALSE, SystemStep, ~Crash
    PROVE  FilesInv'
<1>0. TypeOK
  BY DEF IInv
<1>1. MayStart => \A w \in Workers : req[w] = Idle
  BY DEF MayStart, Busy
<1>2. CASE Create
  <2>1. \A f \in Form : FormCreated(f, clock).type = "markdown"
    BY FormRow DEF FormCreated, StampPublishedAt, Row
  <2>2. QED
    BY <1>0, <1>1, <1>2, <2>1, CreatedFiles, ClockTypes, FormCreatedConsistent DEF Create
<1>3. CASE McpCreate
  <2>1. \A f \in Form : McpCreated(f, clock).type = "markdown"
    BY FormRow DEF McpCreated, StampPublishedAt, Row
  <2>2. QED
    BY <1>0, <1>1, <1>3, <2>1, CreatedFiles, ClockTypes, McpCreatedConsistent DEF McpCreate
<1>4. CASE RedirectCreate \/ RedirectDelete \/ ClockTick \/ TickList \/ TickAbort
  BY <1>4, FilesIdle DEF RedirectCreate, RedirectDelete, ClockTick, TickList, TickAbort
<1>5. ASSUME NEW w \in Workers, WriteRefused(w)
      PROVE  FilesInv'
  BY <1>0, <1>5, FilesEnd, NoneTouched DEF WriteRefused, Ups
<1>6. ASSUME NEW w \in Workers, CallFails(w)
      PROVE  FilesInv'
  <2> USE DEF At
  <2>0. Doing(req[w]) /\ UNCHANGED <<rows, dirs>>
    BY <1>6 DEF FilesInv, CallFails
  <2>1. CASE Finish(w) /\ \A s \in Slugs : ~Touches(req[w], s)
    BY <1>0, <1>6, <2>1, FilesEnd DEF CallFails
  <2>2. CASE req[w].stage = "insert" /\ Continue(w, "rollback")
    <3>1. /\ req'[w].stage = "rollback" /\ req'[w].oldSlug = req[w].oldSlug
          /\ req'[w].new = req[w].new /\ \A v \in Workers \ {w} : req'[v] = req[v]
      BY <1>0, <2>2 DEF Continue, TypeOK, Request
    <3>2. Doing(req'[w])
      BY <2>0, <2>2, <3>1 DEF Doing, Reading, Ups, Writes
    <3>3. \A s \in Slugs : Touches(req[w], s) => Touches(req'[w], s)
      BY <2>2, <3>1 DEF Touches, Ups
    <3>4. QED
      BY <2>0, <2>2, <3>1, <3>2, <3>3, FilesUntouched, StageBusy
  <2>3. CASE req[w].stage = "redirect" /\ req[w].new.type = "html_upload" /\ Continue(w, "move")
    <3>1. /\ req'[w].stage = "move" /\ req'[w].oldSlug = req[w].oldSlug
          /\ req'[w].new = req[w].new /\ \A v \in Workers \ {w} : req'[v] = req[v]
      BY <1>0, <2>3 DEF Continue, TypeOK, Request
    <3>2. Doing(req'[w])
      BY <2>0, <2>3, <3>1 DEF Doing, Reading, Ups, Writes
    <3>3. \A s \in Slugs : Touches(req[w], s) => Touches(req'[w], s)
      BY <2>3, <3>1 DEF Touches, Ups
    <3>4. QED
      BY <2>0, <2>3, <3>1, <3>2, <3>3, FilesUntouched, StageBusy
  <2>4. \/ Finish(w) /\ req[w].stage \in Writes \cup {"delete"}
        \/ req[w].stage = "insert" /\ Continue(w, "rollback")
        \/ req[w].stage = "redirect" /\ req[w].new.type = "html_upload" /\ Continue(w, "move")
        \/ req[w].stage = "redirect" /\ req[w].new.type # "html_upload" /\ Finish(w)
    BY <1>6 DEF CallFails, AfterRedirect, Writes
  <2>5. QED
    BY <2>1, <2>2, <2>3, <2>4 DEF Touches, Ups, Writes
<1>7. CASE TickPublish
  <2>1. PICK d \in due : /\ CanOverwrite(d.id, Launched(d.row))
                         /\ Store(d.id, Launched(d.row))
                         /\ UNCHANGED <<dirs, req>>
    BY <1>7 DEF TickPublish
  <2>2. /\ d.id \in Ids /\ Launched(d.row) \in Row
        /\ Launched(d.row).type = d.row.type /\ Launched(d.row).slug = d.row.slug
    BY <1>0, LaunchedRow DEF Launched, TypeOK, Row
  <2>3. Exists(d.id) /\ rows[d.id] = d.row /\ \A w \in Workers : req[w] = Idle
    BY DEF SerialInv, Alone, Busy
  <2>4. Owners' /\ \A s : PageAt(s)' <=> PageAt(s)
    BY <1>0, <2>1, <2>2, <2>3, SamePages DEF FilesInv
  <2>5. \A s \in Slugs : DirOK(s)
    BY <2>3, NoneTouched DEF FilesInv, Idle, Ups
  <2>6. \A s \in Slugs : DirOK(s)'
    BY <2>1, <2>4, <2>5 DEF DirOK
  <2>7. ASSUME NEW w \in Workers PROVE Doing(req[w])'
    BY <2>1, <2>3 DEF Doing, Reading, Idle, Ups, Writes
  <2>8. QED
    BY <2>4, <2>6, <2>7 DEF FilesInv
<1>8. ~TickReplyLost /\ \A w \in Workers : ~ReplyLost(w)
  BY DEF TickReplyLost, ReplyLost
<1>9. QED
  BY <1>2, <1>3, <1>4, <1>5, <1>6, <1>7, <1>8 DEF SystemStep

LEMMA NextFiles ==
    ASSUME IInv, SerialInv, FilesInv, Overlap = FALSE, UniqueSlugs', LostReplies = FALSE,
           [FreshNext /\ ~Crash]_hvars
    PROVE  FilesInv'
<1>1. CASE UNCHANGED hvars
  BY <1>1 DEF hvars, FilesInv, Owners, Doing, Reading, Touches, DirOK, PageAt, NoneAt, Exists
<1>2. ASSUME FreshNext, NEW w \in Handlers, HandlerStep(w)
      PROVE  FilesInv'
  <2>1. w \in Workers
    BY DEF Workers
  <2>2. QED
    BY <1>2, <2>1, UpdateFiles, DeleteFiles, UploadFiles DEF HandlerStep, FreshNext, HNext
<1>3. QED
  BY <1>1, <1>2, McpFiles, SystemFiles, NextSplit DEF FreshNext, HNext

\* Between requests a folder is there exactly for each uploaded page, when they
\* run one at a time, give out no slug twice and the server does not die in one;
\* database calls that fail and do nothing do no harm (Upload.Submit,
\* ArticleAdmin).
THEOREM FilesMatch ==
    ASSUME Overlap = FALSE, LostReplies = FALSE
    PROVE  FreshSpec /\ [][~Crash]_hvars => []FilesMatchRows
<1>1. IInv /\ SerialInv /\ FilesInv /\ UniqueSlugs' /\ [FreshNext /\ ~Crash]_hvars => FilesInv'
  BY NextFiles
<1>2. FilesInv => FilesMatchRows
  BY NoneTouched DEF FilesInv, FilesMatchRows, DirOK, PageAt, Busy, Idle, Ups
<1>3. [FreshNext]_hvars /\ [~Crash]_hvars => [FreshNext /\ ~Crash]_hvars
  OBVIOUS
<1>4. QED
  BY <1>1, <1>2, <1>3, InitFiles, FreshImpliesSpec, Inductive, SerialInvariant,
     SlugsUnique, PTL DEF FreshSpec

\* In particular when nothing fails: the instance of the run.
THEOREM FilesMatchWithoutFaults ==
    ASSUME Overlap = FALSE, LostReplies = FALSE, MaxFaults = 0
    PROVE  FreshSpec => []FilesMatchRows
<1>1. IInv /\ [FreshNext]_hvars => [~Crash]_hvars
  BY DEF IInv, TypeOK, Crash, Fault
<1>2. FreshSpec => [][~Crash]_hvars
  BY <1>1, FreshImpliesSpec, Inductive, PTL DEF FreshSpec
<1>3. QED
  BY <1>2, FilesMatch, PTL

-----------------------------------------------------------------------------
(* Old URLs lead to their article, one request at a time *)

\* A slug its owner has left, and whose redirect is not still to be written.
Leads(s) ==
    /\ owner[s] # NoId /\ Exists(owner[s]) /\ rows[owner[s]].slug # s
    /\ \A w \in Workers : req[w].stage = "redirect" => req[w].oldSlug # s

\* Each redirect leads to another slug of the same article, one nearer to the
\* slug it has now.
Ranked(rank) ==
    \A s \in Slugs : Leads(s) =>
      /\ redirects[s] \in Slugs /\ owner[redirects[s]] = owner[s]
      /\ rank[redirects[s]] < rank[s]

Renaming(q) ==
    /\ Reading(q)
    /\ q.stage = "redirect" =>
         /\ q.oldSlug \in Slugs /\ q.new.slug \in Slugs /\ q.oldSlug # q.new.slug
         /\ Exists(q.id) /\ rows[q.id].slug = q.new.slug /\ owner[q.oldSlug] = q.id

UrlInv ==
    /\ Owners
    /\ \A s \in Slugs : owner[s] # NoId => rows[owner[s]] # NoRow
    /\ \A w \in Workers : Renaming(req[w])
    /\ \E rank \in [Slugs -> Nat] : Ranked(rank)

\* No fault strikes between the write of a row and that of its redirect.
RedirectsSaved == (\E w \in Workers : At(w, "redirect")) => faults' = faults

LEMMA InitUrls == HInit => UrlInv
<1> SUFFICES ASSUME HInit PROVE UrlInv
  OBVIOUS
<1> USE DEF HInit, Init
<1>1. Owners /\ \A w \in Workers : Renaming(req[w])
  BY DEF Owners, Exists, Renaming, Reading, Idle, Writes
<1>2. Ranked([s \in Slugs |-> 0])
  BY DEF Ranked, Leads
<1>3. QED
  BY <1>1, <1>2 DEF UrlInv

-----------------------------------------------------------------------------
(* Kinds of steps *)

SlugKept(id) ==
    \/ rows'[id] = rows[id]
    \/ rows'[id] = Deleted /\ rows[id] # NoRow
    \/ Exists(id) /\ Exists(id)' /\ rows'[id].slug = rows[id].slug
    \/ rows[id] = NoRow /\ rows'[id] \in Row /\ rows'[id].slug # NoSlug

\* A request that has no row still to write and no redirect.
Free(q) == q.stage \in Ups \cup {"idle", "remove", "move"}

LEMMA FreeRenaming ==
    ASSUME NEW q, Free(q)
    PROVE  Renaming(q)
BY DEF Free, Renaming, Reading, Ups, Writes

LEMMA OwnersSlugKept ==
    ASSUME Owners, UniqueSlugs', Remember, FreshSlugs, \A id \in Ids : SlugKept(id)
    PROVE  Owners' /\ \A s \in Slugs : owner[s] # NoId => owner'[s] = owner[s]
<1>1. ASSUME NEW id \in Ids, Exists(id)'
      PROVE  rows'[id].slug \in Slugs /\ owner[rows'[id].slug] \in {NoId, id}
  <2>1. CASE Exists(id)
    BY <1>1, <2>1, PublishingAssumption DEF Owners, SlugKept, Exists, PublishingAssumption
  <2>2. CASE ~Exists(id)
    <3>1. rows'[id].slug \in Slugs
      BY <1>1, <2>2 DEF SlugKept, Exists, Row, AnySlug
    <3>2. QED
      BY <1>1, <2>2, <3>1 DEF FreshSlugs
  <2>3. QED
    BY <2>1, <2>2
<1>2. QED
  BY <1>1, OwnersFollow

\* Only a slug an article has now gets an owner.
LEMMA NewOwner ==
    ASSUME Owners, Remember, NEW s \in Slugs, owner'[s] # owner[s]
    PROVE  owner'[s] \in Ids /\ rows'[owner'[s]] \notin {NoRow, Deleted} /\ rows'[owner'[s]].slug = s
<1>1. ArticleAt(s)' # {}
  BY DEF Remember
<1>2. PICK id \in ArticleAt(s)' : owner'[s] = id
  BY <1>1 DEF Remember
<1>3. id \in Ids /\ (Exists(id) /\ rows[id].slug = s)'
  BY <1>2 DEF ArticleAt
<1>4. QED
  BY <1>2, <1>3 DEF Exists

\* Rows come, go and change, and keep their slugs; no redirect is due.
LEMMA UrlRows ==
    ASSUME UrlInv, UniqueSlugs', Remember, FreshSlugs, UNCHANGED redirects,
           \A id \in Ids : SlugKept(id),
           \A w \in Workers : req[w].stage # "redirect" /\ Free(req'[w])
    PROVE  UrlInv'
<1>1. Owners' /\ \A s \in Slugs : owner[s] # NoId => owner'[s] = owner[s]
  BY OwnersSlugKept DEF UrlInv
<1>2. ASSUME NEW s \in Slugs, owner'[s] # NoId
      PROVE  rows'[owner'[s]] # NoRow
  <2>1. CASE owner'[s] = owner[s]
    <3>1. owner[s] \in Ids /\ rows[owner[s]] # NoRow
      BY <1>2, <2>1 DEF UrlInv, Owners
    <3>2. QED
      BY <2>1, <3>1, PublishingAssumption DEF SlugKept, Exists, PublishingAssumption
  <2>2. CASE owner'[s] # owner[s]
    BY <2>2, NewOwner DEF UrlInv, Exists
  <2>3. QED
    BY <2>1, <2>2
<1>3. ASSUME NEW w \in Workers PROVE Renaming(req[w])'
  BY DEF Free, Renaming, Reading, Ups, Writes
<1>4. ASSUME NEW rank \in [Slugs -> Nat], Ranked(rank)
      PROVE  Ranked(rank)'
  <2>1. SUFFICES ASSUME NEW s \in Slugs, Leads(s)'
                 PROVE  /\ redirects'[s] \in Slugs /\ owner'[redirects'[s]] = owner'[s]
                        /\ rank[redirects'[s]] < rank[s]
    BY DEF Ranked
  <2>2. /\ owner'[s] # NoId /\ rows'[owner'[s]] \notin {NoRow, Deleted} /\ rows'[owner'[s]].slug # s
    BY <2>1 DEF Leads, Exists
  <2>3. owner'[s] = owner[s] /\ owner[s] \in Ids
    BY <2>2, NewOwner DEF UrlInv, Owners
  <2>4. Exists(owner[s]) /\ rows[owner[s]].slug # s
    BY <2>2, <2>3 DEF SlugKept, Exists, UrlInv
  <2>5. Leads(s)
    BY <2>2, <2>3, <2>4 DEF Leads
  <2>6. QED
    BY <1>1, <1>4, <2>2, <2>3, <2>5 DEF Ranked
<1>5. QED
  BY <1>1, <1>2, <1>3, <1>4 DEF UrlInv

\* Requests begin, go on and end; rows and redirects stay.
LEMMA UrlRequests ==
    ASSUME UrlInv, Remember, UNCHANGED <<rows, redirects>>,
           \A w \in Workers : req[w].stage = "redirect" => req'[w] = req[w],
           \A w \in Workers : req'[w] = req[w] \/ Renaming(req'[w])
    PROVE  UrlInv'
<1>1. owner' = owner /\ Owners'
  BY OwnerSame DEF UrlInv
<1>2. \A w \in Workers : Renaming(req[w])'
  BY <1>1 DEF UrlInv, Renaming, Reading, Exists
<1>3. \A s \in Slugs : Leads(s)' => Leads(s)
  BY <1>1 DEF Leads, Exists
<1>4. ASSUME NEW rank \in [Slugs -> Nat], Ranked(rank)
      PROVE  Ranked(rank)'
  BY <1>1, <1>3, <1>4 DEF Ranked
<1>5. QED
  BY <1>1, <1>2, <1>4 DEF UrlInv, Exists

\* An article gets another slug: the one it leaves waits for its redirect.
LEMMA UrlRenamed ==
    ASSUME IInv, SerialInv, UrlInv, UniqueSlugs', Remember,
           NEW w \in Workers, UpdateWrite(w), NEW old, NEW new, old # new,
           req[w].oldSlug = old, req[w].new.slug = new
    PROVE  UrlInv'
<1> DEFINE id == req[w].id
<1> USE DEF At
<1>1. /\ TypeOK /\ Busy(w) /\ InFlightOK(req[w]) /\ Exists(id) /\ DOMAIN rows = Ids
      /\ Owners /\ Reading(req[w])
  BY BusyRequest, StageBusy DEF UpdateWrite, CanOverwrite, IInv, TypeOK, UrlInv, Renaming
<1>2. \A v \in Workers \ {w} : req[v] = Idle
  BY <1>1 DEF SerialInv, Alone, Busy
<1>3. PICK i \in Ids : /\ i = id /\ rows[i].slug = old
                       /\ old \in Slugs /\ new \in Slugs /\ owner[new] \in {NoId, i}
                       /\ owner[old] = i /\ Exists(i)
  BY <1>1 DEF UpdateWrite, InFlightOK, Reading, Writes, Owners
<1>4. /\ rows'[i] = req[w].new /\ rows'[i].slug = new
      /\ \A j \in Ids \ {i} : rows'[j] = rows[j]
  BY <1>1, <1>3 DEF UpdateWrite, Store
<1>5. /\ req'[w].stage = "redirect" /\ req'[w].oldSlug = old /\ req'[w].new = req[w].new
      /\ req'[w].id = i /\ \A v \in Workers \ {w} : req'[v] = Idle
  BY <1>1, <1>2, <1>3 DEF UpdateWrite, Continue, TypeOK, Request
<1>6. \A j \in Ids : Exists(j)' <=> Exists(j)
  BY <1>1, <1>3, <1>4, PublishingAssumption DEF Exists, InFlightOK, PublishingAssumption
<1>7. Owners' /\ \A s \in Slugs : owner[s] # NoId => owner'[s] = owner[s]
  <2>1. ASSUME NEW j \in Ids, Exists(j)'
        PROVE  rows'[j].slug \in Slugs /\ owner[rows'[j].slug] \in {NoId, j}
    BY <1>1, <1>3, <1>4, <1>6, <2>1 DEF Owners
  <2>2. QED
    BY <1>1, <2>1, OwnersFollow
<1>8. ASSUME NEW s \in Slugs, owner'[s] # NoId
      PROVE  rows'[owner'[s]] # NoRow
  <2>1. CASE owner'[s] = owner[s]
    <3>1. owner[s] \in Ids /\ rows[owner[s]] # NoRow
      BY <1>8, <2>1 DEF UrlInv, Owners
    <3>2. QED
      BY <1>3, <1>4, <1>6, <2>1, <3>1 DEF Exists
  <2>2. CASE owner'[s] # owner[s]
    BY <2>2, NewOwner DEF UrlInv, Exists
  <2>3. QED
    BY <2>1, <2>2
<1>9. ASSUME NEW v \in Workers PROVE Renaming(req[v])'
  <2>1. CASE v = w
    <3>1. owner'[old] = i
      BY <1>3, <1>7, PublishingAssumption DEF PublishingAssumption
    <3>2. QED
      BY <1>3, <1>4, <1>5, <1>6, <2>1, <3>1 DEF Renaming, Reading, Writes
  <2>2. CASE v # w
    BY <1>5, <2>2 DEF Renaming, Reading, Idle, Writes
  <2>3. QED
    BY <2>1, <2>2
<1>10. ASSUME NEW rank \in [Slugs -> Nat], Ranked(rank)
       PROVE  Ranked(rank)'
  <2>1. SUFFICES ASSUME NEW s \in Slugs, Leads(s)'
                 PROVE  /\ redirects'[s] \in Slugs /\ owner'[redirects'[s]] = owner'[s]
                        /\ rank[redirects'[s]] < rank[s]
    BY DEF Ranked
  <2>2. /\ owner'[s] # NoId /\ rows'[owner'[s]] \notin {NoRow, Deleted} /\ rows'[owner'[s]].slug # s /\ s # old
    BY <1>5, <2>1 DEF Leads, Exists
  <2>3. owner'[s] = owner[s] /\ owner[s] \in Ids
    BY <2>2, NewOwner DEF UrlInv, Owners
  <2>4. Exists(owner[s]) /\ rows[owner[s]].slug # s
    BY <1>3, <1>4, <1>6, <2>2, <2>3 DEF Exists
  <2>5. Leads(s)
    BY <1>2, <2>2, <2>3, <2>4 DEF Leads, Idle, UpdateWrite
  <2>6. redirects' = redirects
    BY DEF UpdateWrite
  <2>7. QED
    BY <1>7, <1>10, <2>2, <2>3, <2>5, <2>6 DEF Ranked
<1>11. QED
  BY <1>7, <1>8, <1>9, <1>10 DEF UrlInv

\* The redirect of the slug that was left: its article is now one hop further
\* from every other slug it has left.
LEMMA UrlRedirected ==
    ASSUME IInv, SerialInv, UrlInv, Remember, NEW w \in Workers, UpdateRedirect(w)
    PROVE  UrlInv'
<1> USE DEF At
<1>1. TypeOK /\ Busy(w) /\ Owners /\ Renaming(req[w])
  BY StageBusy DEF UpdateRedirect, IInv, UrlInv
<1>2. \A v \in Workers \ {w} : req[v] = Idle
  BY <1>1 DEF SerialInv, Alone, Busy
<1>3. PICK i, old, new : /\ i = req[w].id /\ old = req[w].oldSlug /\ new = req[w].new.slug
  OBVIOUS
<1>4. /\ old \in Slugs /\ new \in Slugs /\ old # new
      /\ Exists(i) /\ rows[i].slug = new /\ owner[old] = i /\ owner[new] = i
  <2>1. /\ old \in Slugs /\ new \in Slugs /\ old # new
        /\ Exists(i) /\ rows[i].slug = new /\ owner[old] = i
    BY <1>1, <1>3 DEF UpdateRedirect, Renaming
  <2>2. i \in Ids
    BY <1>1, <1>3, <2>1, BusyRequest DEF UpdateRedirect, InFlightOK
  <2>3. QED
    BY <1>1, <2>1, <2>2 DEF Owners
<1>5. redirects'[old] = new /\ \A s \in Slugs \ {old} : redirects'[s] = redirects[s]
  BY <1>1, <1>3, <1>4 DEF UpdateRedirect, TypeOK
<1>6. rows' = rows /\ owner' = owner /\ Owners'
  BY <1>1, OwnerSame DEF UpdateRedirect
<1>7. \A v \in Workers : req'[v].stage \in {"idle", "move"}
  BY <1>1, <1>2 DEF UpdateRedirect, AfterRedirect, Finish, Continue, TypeOK, Request, Idle
<1>8. ASSUME NEW rank \in [Slugs -> Nat], Ranked(rank)
      PROVE  \E r \in [Slugs -> Nat] : Ranked(r)'
  <2> DEFINE r == [s \in Slugs |-> IF s = new THEN 0 ELSE rank[s] + 1]
  <2>1. r \in [Slugs -> Nat]
    OBVIOUS
  <2>2. ASSUME NEW s \in Slugs, Leads(s)'
        PROVE  /\ redirects'[s] \in Slugs /\ owner'[redirects'[s]] = owner'[s]
               /\ r[redirects'[s]] < r[s]
    <3>1. owner[s] # NoId /\ Exists(owner[s]) /\ rows[owner[s]].slug # s
      BY <1>6, <2>2 DEF Leads, Exists
    <3>2. s # new
      BY <1>4, <3>1
    <3>3. CASE s = old
      BY <1>4, <1>5, <1>6, <3>2, <3>3
    <3>4. CASE s # old
      <4>1. Leads(s)
        BY <1>2, <1>3, <3>1, <3>4 DEF Leads, Idle
      <4>2. /\ redirects[s] \in Slugs /\ owner[redirects[s]] = owner[s]
            /\ rank[redirects[s]] < rank[s]
        BY <1>8, <4>1 DEF Ranked
      <4>3. rank[redirects[s]] \in Nat /\ rank[s] \in Nat
        BY <4>2
      <4>4. QED
        BY <1>5, <1>6, <3>2, <3>4, <4>2, <4>3
    <3>5. QED
      BY <3>3, <3>4
  <2> HIDE DEF r
  <2>3. Ranked(r)'
    BY <2>2 DEF Ranked
  <2>4. QED
    BY <2>1, <2>3
<1>9. \A v \in Workers : Renaming(req[v])'
  BY <1>7 DEF Renaming, Reading, Writes
<1>10. QED
  BY <1>6, <1>8, <1>9 DEF UrlInv, Exists

-----------------------------------------------------------------------------
(* Every step *)

\* A request reads an article while nothing else runs.
LEMMA UrlRead ==
    ASSUME IInv, UrlInv, Overlap = FALSE, Remember, FreshSlugs,
           UNCHANGED <<rows, redirects>>, NEW w \in Workers, NEW id \in Ids, Exists(id),
           NEW stage \in Writes \cup {"delete"}, NEW new \in Row,
           Begin(w, stage, id, rows[id].slug, new),
           stage \in Writes \ {"update"} => new.slug = rows[id].slug
    PROVE  UrlInv'
<1>1. /\ \A v \in Workers : req[v] = Idle
      /\ req'[w] = [stage |-> stage, id |-> id, oldSlug |-> rows[id].slug, new |-> new]
      /\ \A v \in Workers \ {w} : req'[v] = req[v]
  BY DEF Begin, MayStart, Busy, IInv, TypeOK
<1>2. ~Busy(w) /\ Busy(w)'
  BY <1>1 DEF Busy, Idle, Writes
<1>3. new.slug \in Slugs /\ owner[new.slug] \in {NoId, id}
  BY <1>1, <1>2 DEF FreshSlugs, Row, AnySlug
<1>4. Renaming(req'[w])
  BY <1>1, <1>3 DEF Renaming, Reading, Writes
<1>5. QED
  BY <1>1, <1>4, UrlRequests DEF Idle

\* A request overwrites the row it read, under the slug it has.
LEMMA UrlRewritten ==
    ASSUME IInv, SerialInv, UrlInv, UniqueSlugs', Remember, FreshSlugs, UNCHANGED redirects,
           NEW w \in Workers, req[w].stage \in Writes, req[w].new.slug = req[w].oldSlug,
           CanOverwrite(req[w].id, req[w].new), Store(req[w].id, req[w].new), Finish(w)
    PROVE  UrlInv'
<1>1. /\ InFlightOK(req[w]) /\ Exists(req[w].id) /\ Reading(req[w])
      /\ \A v \in Workers \ {w} : req[v] = Idle
  BY StageBusy, BusyRequest
  DEF Writes, CanOverwrite, UrlInv, Renaming, SerialInv, Alone, Busy
<1>2. /\ req[w].id \in Ids /\ req[w].new \in Row
      /\ rows[req[w].id].slug = req[w].new.slug
  BY <1>1 DEF InFlightOK, Reading, Writes
<1>3. \A id \in Ids : SlugKept(id)
  BY <1>1, <1>2, PublishingAssumption
  DEF SlugKept, Store, Exists, IInv, TypeOK, PublishingAssumption
<1>4. \A v \in Workers : req[v].stage # "redirect" /\ Free(req'[v])
  BY <1>1 DEF Finish, IInv, TypeOK, Writes, Idle, Free
<1>5. QED
  BY <1>3, <1>4, UrlRows

LEMMA HandlerUrls ==
    ASSUME IInv, SerialInv, UrlInv, Overlap = FALSE, UniqueSlugs', Remember, FreshSlugs,
           NEW w \in Handlers, HandlerStep(w)
    PROVE  UrlInv'
<1> USE DEF At
<1>0. TypeOK /\ DOMAIN rows = Ids /\ w \in Workers /\ (Reading(req[w]) /\ Renaming(req[w]))
  BY DEF IInv, TypeOK, Workers, UrlInv, Renaming
<1>1. ASSUME UNCHANGED <<rows, redirects>>, req[w].stage # "redirect", Free(req'[w]),
             \A v \in Workers \ {w} : req'[v] = req[v]
      PROVE  UrlInv'
  BY <1>0, <1>1, FreeRenaming, UrlRequests
<1>2. CASE UpdateRead(w)
  <2>1. PICK id \in Ids, f \in Form :
          /\ Exists(id)
          /\ Begin(w, "update", id, rows[id].slug, FormUpdated(rows[id], f, clock))
    BY <1>2 DEF UpdateRead
  <2>2. FormUpdated(rows[id], f, clock) \in Row
    BY <1>0, <2>1, ReadRows, ClockTypes, FormUpdatedConsistent DEF IInv, Lifecycle
  <2>3. QED
    BY <1>0, <1>2, <2>1, <2>2, UrlRead DEF UpdateRead, Writes
<1>3. CASE UpdateWrite(w)
  <2>1. CASE req[w].oldSlug = req[w].new.slug
    BY <1>0, <1>3, <2>1, UrlRewritten DEF UpdateWrite, Writes
  <2>2. CASE req[w].oldSlug # req[w].new.slug
    BY <1>0, <1>3, <2>2, UrlRenamed
  <2>3. QED
    BY <2>1, <2>2
<1>4. CASE UpdateRedirect(w)
  BY <1>0, <1>4, UrlRedirected
<1>5. CASE DeleteRead(w)
  <2>1. PICK id \in Ids : /\ Exists(id)
                          /\ Begin(w, "delete", id, rows[id].slug, rows[id])
    BY <1>5 DEF DeleteRead
  <2>2. QED
    BY <1>0, <1>5, <2>1, ReadRows, UrlRead DEF DeleteRead, Writes
<1>6. CASE DeleteWrite(w)
  <2>1. \A v \in Workers \ {w} : req[v] = Idle
    BY <1>0, <1>6, StageBusy DEF DeleteWrite, SerialInv, Alone, Busy
  <2>2. \A id \in Ids : SlugKept(id)
    BY <1>0, <1>6 DEF DeleteWrite, Reading, Erase, SlugKept, Exists
  <2>3. \A v \in Workers : req[v].stage # "redirect" /\ Free(req'[v])
    BY <1>0, <1>6, <2>1 DEF DeleteWrite, Finish, Continue, TypeOK, Request, Idle, Free
  <2>4. QED
    BY <1>6, <2>2, <2>3, UrlRows DEF DeleteWrite
<1>7. CASE UploadInsert(w)
  <2>1. PICK id \in Ids : CanInsert(id, req[w].new) /\ Store(id, req[w].new)
    BY <1>7 DEF UploadInsert
  <2>2. req[w].new \in Row /\ \A v \in Workers \ {w} : req[v] = Idle
    BY <1>0, <1>7, StageBusy, BusyRequest
    DEF UploadInsert, SerialInv, Alone, Busy, InFlightOK
  <2>3. \A i \in Ids : SlugKept(i)
    BY <1>0, <2>1, <2>2 DEF CanInsert, Store, SlugKept
  <2>4. \A v \in Workers : req[v].stage # "redirect" /\ Free(req'[v])
    BY <1>0, <1>7, <2>2 DEF UploadInsert, Finish, TypeOK, Idle, Free
  <2>5. QED
    BY <1>7, <2>3, <2>4, UrlRows DEF UploadInsert
<1>8. CASE UploadClear(w)
  <2>1. PICK f \in Form : Begin(w, "extract", NoId, f.slug, Uploaded(f))
    BY <1>8 DEF UploadClear
  <2>2. /\ req[w] = Idle /\ req'[w].stage = "extract"
        /\ \A v \in Workers \ {w} : req'[v] = req[v]
    BY <1>0, <2>1 DEF Begin, Busy, TypeOK
  <2>3. QED
    BY <1>1, <1>8, <2>2 DEF UploadClear, Idle, Free, Ups
<1>9. CASE \/ UpdateMove(w) \/ DeleteRemove(w) \/ UploadExtract(w) \/ UploadReject(w)
           \/ UploadDuplicate(w) \/ UploadRollback(w)
  <2>1. /\ req[w].stage # "redirect" /\ UNCHANGED <<rows, redirects>>
        /\ Finish(w) \/ Continue(w, "insert") \/ Continue(w, "rollback")
    BY <1>9 DEF UpdateMove, DeleteRemove, UploadExtract, UploadReject, UploadDuplicate,
       UploadRollback
  <2>2. Free(req'[w]) /\ \A v \in Workers \ {w} : req'[v] = req[v]
    BY <1>0, <2>1 DEF Finish, Continue, TypeOK, Request, Idle, Free, Ups
  <2>3. QED
    BY <1>1, <2>1, <2>2
<1>10. QED
  BY <1>2, <1>3, <1>4, <1>5, <1>6, <1>7, <1>8, <1>9 DEF HandlerStep

LEMMA McpUrls ==
    ASSUME IInv, SerialInv, UrlInv, Overlap = FALSE, UniqueSlugs', Remember, FreshSlugs,
           NEW w \in McpCalls, McpStep(w)
    PROVE  UrlInv'
<1>0. TypeOK /\ w \in Workers /\ clock \in 1..MaxTime /\ clock \in Nat
  BY ClockTypes DEF IInv, Workers
<1>1. ASSUME NEW id \in Ids, Exists(id)
      PROVE  rows[id] \in Row /\ Consistent(rows[id], clock)
  BY <1>0, <1>1, ReadRows DEF IInv, Lifecycle
<1>2. CASE McpUpdateRead(w)
  <2>1. PICK id \in Ids, slug \in AnySlug, body \in Bodies :
          /\ Exists(id)
          /\ Begin(w, "patch", id, rows[id].slug, McpPatched(rows[id], slug, body))
    BY <1>2 DEF McpUpdateRead
  <2>2. req'[w] = [stage |-> "patch", id |-> id, oldSlug |-> rows[id].slug,
                   new |-> McpPatched(rows[id], slug, body)]
    BY <1>0, <2>1 DEF Begin, TypeOK
  <2>3. McpPatched(rows[id], slug, body).slug = rows[id].slug
    BY <2>2 DEF FreshSlugs, At
  <2>4. McpPatched(rows[id], slug, body) \in Row
    BY <1>0, <1>1, <2>1, McpPatchedConsistent
  <2>5. QED
    BY <1>0, <1>2, <2>1, <2>3, <2>4, UrlRead DEF McpUpdateRead, Writes
<1>3. CASE SetStatusRead(w)
  <2>1. PICK id \in Ids, status \in Statuses, at \in Time :
          /\ Exists(id)
          /\ Begin(w, "status", id, rows[id].slug,
                   McpStatusSet(rows[id], status, at, clock))
    BY <1>3 DEF SetStatusRead
  <2>2. McpStatusSet(rows[id], status, at, clock).slug = rows[id].slug
    BY <1>1, <2>1 DEF McpStatusSet, StampPublishedAt, Row
  <2>3. McpStatusSet(rows[id], status, at, clock) \in Row
    BY <1>0, <1>1, <2>1, McpStatusSetConsistent
  <2>4. QED
    BY <1>0, <1>3, <2>1, <2>2, <2>3, UrlRead DEF SetStatusRead, Writes
<1>4. CASE SetVisibilityRead(w)
  <2>1. PICK id \in Ids, v \in Visibilities :
          /\ Exists(id)
          /\ Begin(w, "visibility", id, rows[id].slug, McpVisibilitySet(rows[id], v))
    BY <1>4 DEF SetVisibilityRead
  <2>2. McpVisibilitySet(rows[id], v).slug = rows[id].slug
    BY <1>1, <2>1 DEF McpVisibilitySet, Row
  <2>3. McpVisibilitySet(rows[id], v) \in Row
    BY <1>0, <1>1, <2>1, McpVisibilitySetConsistent
  <2>4. QED
    BY <1>0, <1>4, <2>1, <2>2, <2>3, UrlRead DEF SetVisibilityRead, Writes
<1>5. CASE McpWrite(w)
  <2>1. req[w].new.slug = req[w].oldSlug
    BY <1>0, <1>5 DEF McpWrite, UrlInv, Renaming, Reading, Writes
  <2>2. QED
    BY <1>0, <1>5, <2>1, UrlRewritten DEF McpWrite, Writes
<1>6. QED
  BY <1>2, <1>3, <1>4, <1>5 DEF McpStep

LEMMA SystemUrls ==
    ASSUME IInv, SerialInv, UrlInv, Overlap = FALSE, UniqueSlugs', Remember, FreshSlugs,
           "redirect" \notin Ops, LostReplies = FALSE, RedirectsSaved, SystemStep
    PROVE  UrlInv'
<1>0. TypeOK /\ DOMAIN rows = Ids /\ (MayStart => \A w \in Workers : req[w] = Idle)
  BY DEF IInv, TypeOK, MayStart, Busy
<1>1. ASSUME UNCHANGED <<redirects, req>>, \A w \in Workers : req[w] = Idle,
             NEW id \in Ids, NEW a \in Row, CanInsert(id, a), Store(id, a)
      PROVE  UrlInv'
  <2>1. \A i \in Ids : SlugKept(i)
    BY <1>0, <1>1 DEF CanInsert, Store, SlugKept
  <2>2. QED
    BY <1>1, <2>1, UrlRows DEF Idle, Free
<1>2. CASE Create
  BY <1>0, <1>1, <1>2, ClockTypes, FormCreatedConsistent DEF Create
<1>3. CASE McpCreate
  BY <1>0, <1>1, <1>3, ClockTypes, McpCreatedConsistent DEF McpCreate
<1>4. CASE ClockTick \/ TickList \/ TickAbort
  BY <1>4, UrlRequests DEF ClockTick, TickList, TickAbort
<1>5. ASSUME NEW w \in Workers, WriteRefused(w)
      PROVE  UrlInv'
  <2>1. req'[w] = Idle /\ \A v \in Workers \ {w} : req'[v] = req[v]
    BY <1>0, <1>5 DEF WriteRefused, Finish, TypeOK
  <2>2. Renaming(Idle)
    BY FreeRenaming DEF Free, Idle
  <2>3. QED
    BY <1>5, <2>1, <2>2, UrlRequests DEF WriteRefused
<1>6. faults' # faults => \A w \in Workers : req[w].stage # "redirect"
  BY DEF RedirectsSaved, At
<1>7. Fault => faults' # faults
  BY <1>0, PublishingAssumption DEF Fault, TypeOK, PublishingAssumption
<1>8. ASSUME NEW w \in Workers, CallFails(w)
      PROVE  UrlInv'
  <2>1. /\ \A v \in Workers : req[v].stage # "redirect"
        /\ Finish(w) \/ Continue(w, "rollback")
    BY <1>6, <1>7, <1>8 DEF CallFails, At
  <2>2. Free(req'[w]) /\ \A v \in Workers \ {w} : req'[v] = req[v]
    BY <1>0, <2>1 DEF Finish, Continue, TypeOK, Request, Idle, Free, Ups
  <2>3. QED
    BY <1>8, <2>1, <2>2, FreeRenaming, UrlRequests DEF CallFails
<1>9. CASE Crash
  <2>1. /\ \A v \in Workers : req[v].stage # "redirect"
        /\ \A v \in Workers : req'[v] = req[v] \/ req'[v] = Idle
    BY <1>6, <1>7, <1>9 DEF Crash
  <2>2. Renaming(Idle)
    BY FreeRenaming DEF Free, Idle
  <2>3. QED
    BY <1>9, <2>1, <2>2, UrlRequests DEF Crash
<1>10. CASE TickPublish
  <2>1. PICK d \in due : Store(d.id, Launched(d.row)) /\ UNCHANGED <<redirects, req>>
    BY <1>10 DEF TickPublish
  <2>2. /\ d.id \in Ids /\ Launched(d.row) \in Row /\ Launched(d.row).slug = d.row.slug
    BY <1>0, LaunchedRow DEF Launched, TypeOK, Row, IInv
  <2>3. Exists(d.id) /\ rows[d.id] = d.row /\ \A w \in Workers : req[w] = Idle
    BY DEF SerialInv, Alone, Busy
  <2>4. \A id \in Ids : SlugKept(id)
    BY <1>0, <2>1, <2>2, <2>3, PublishingAssumption
    DEF Store, SlugKept, Exists, PublishingAssumption
  <2>5. QED
    BY <2>1, <2>3, <2>4, UrlRows DEF Idle, Free
<1>11. CASE RedirectCreate \/ RedirectDelete
  BY <1>11 DEF RedirectCreate, RedirectDelete
<1>12. ~TickReplyLost /\ \A w \in Workers : ~ReplyLost(w)
  BY DEF TickReplyLost, ReplyLost
<1>13. QED
  BY <1>2, <1>3, <1>4, <1>5, <1>8, <1>9, <1>10, <1>11, <1>12 DEF SystemStep

LEMMA NextUrls ==
    ASSUME IInv, SerialInv, UrlInv, Overlap = FALSE, UniqueSlugs', "redirect" \notin Ops,
           LostReplies = FALSE, [FreshNext /\ RedirectsSaved]_hvars
    PROVE  UrlInv'
<1>1. CASE UNCHANGED hvars
  BY <1>1 DEF hvars, UrlInv, Owners, Renaming, Reading, Ranked, Leads, Exists
<1>2. QED
  BY <1>1, HandlerUrls, McpUrls, SystemUrls, NextSplit DEF FreshNext, HNext

-----------------------------------------------------------------------------
(* The way from an old slug *)

\* One hop, given where the rest of the way ends.
Hop(f, n, s) ==
    IF ArticleAt(s) # {} THEN CHOOSE id \in ArticleAt(s) : TRUE
    ELSE IF n = 0 \/ s = NoSlug \/ redirects[s] = NoSlug THEN NoId
    ELSE f[n - 1][redirects[s]]

Hops(f, m) == f = [n \in 0..m |-> [s \in AnySlug |-> Hop(f, n, s)]]

LEMMA HopsExist ==
    ASSUME NEW m \in Nat, redirects \in [Slugs -> AnySlug]
    PROVE  \E f : Hops(f, m)
<1> DEFINE S == {k \in Nat : \E f : Hops(f, k)}
<1>1. 0 \in S
  <2> DEFINE f == [n \in 0..0 |-> [s \in AnySlug |-> Hop(<<>>, 0, s)]]
  <2>1. Hops(f, 0)
    BY DEF Hops, Hop
  <2>2. QED
    BY <2>1
<1>2. ASSUME NEW k \in Nat, k \in S PROVE k + 1 \in S
  <2>1. PICK f : Hops(f, k)
    BY <1>2
  <2> DEFINE g == [n \in 0..k + 1 |-> [s \in AnySlug |-> Hop(f, n, s)]]
  <2>2. ASSUME NEW n \in 0..k PROVE g[n] = f[n]
    <3>1. g[n] = [s \in AnySlug |-> Hop(f, n, s)]
      OBVIOUS
    <3>2. f[n] = [s \in AnySlug |-> Hop(f, n, s)]
      BY <2>1 DEF Hops
    <3>3. QED
      BY <3>1, <3>2
  <2>3. ASSUME NEW n \in 0..k + 1, NEW s \in AnySlug
        PROVE  Hop(f, n, s) = Hop(g, n, s)
    <3>1. CASE n = 0
      BY <3>1 DEF Hop
    <3>2. CASE n # 0
      <4>1. n - 1 \in 0..k
        BY <3>2
      <4>2. g[n - 1] = f[n - 1]
        BY <2>2, <4>1
      <4> HIDE DEF g
      <4>3. QED
        BY <4>2 DEF Hop
    <3>3. QED
      BY <3>1, <3>2
  <2>4. Hops(g, k + 1)
    BY <2>3 DEF Hops
  <2>5. QED
    BY <2>4
<1> HIDE DEF S
<1>3. Nat \subseteq S
  BY <1>1, <1>2, UpTo
<1>4. QED
  BY <1>3 DEF S

\* Ends is what its definition says, for any number of slugs.
LEMMA EndsUnfold ==
    ASSUME IsFiniteSet(Slugs), redirects \in [Slugs -> AnySlug]
    PROVE  Hops(Ends, Cardinality(Slugs))
<1> DEFINE m == Cardinality(Slugs)
           P(f) == Hops(f, m)
<1>1. m \in Nat
  BY FS_CardinalityType
<1>2. Ends = CHOOSE f : P(f)
  BY DEF Ends, Hops, Hop
<1>3. \E f : P(f)
  BY <1>1, HopsExist
<1> HIDE DEF P
<1>4. P(Ends)
  BY <1>2, <1>3
<1>5. QED
  BY <1>4 DEF P

\* From a slug the article has now, the client is there at once; from one it
\* has left, the client goes where the redirect of that slug leads.
LEMMA Arrives ==
    ASSUME Owners, UniqueSlugs, IsFiniteSet(Slugs), redirects \in [Slugs -> AnySlug],
           NEW n \in 0..Cardinality(Slugs),
           NEW s \in Slugs, owner[s] # NoId, Exists(owner[s])
    PROVE  /\ rows[owner[s]].slug = s => Ends[n][s] = owner[s]
           /\ rows[owner[s]].slug # s /\ n # 0 /\ redirects[s] # NoSlug =>
                Ends[n][s] = Ends[n - 1][redirects[s]]
<1>1. Ends[n][s] = Hop(Ends, n, s)
  <2> DEFINE F == [k \in 0..Cardinality(Slugs) |-> [t \in AnySlug |-> Hop(Ends, k, t)]]
  <2>1. Ends = F
    BY EndsUnfold DEF Hops
  <2>2. s \in AnySlug
    BY DEF AnySlug
  <2>3. F[n][s] = Hop(Ends, n, s)
    BY <2>2
  <2> HIDE DEF F
  <2>4. QED
    BY <2>1, <2>3
<1>2. owner[s] \in Ids /\ s # NoSlug
  BY PublishingAssumption DEF Owners, PublishingAssumption
<1>3. CASE rows[owner[s]].slug = s
  <2>1. ArticleAt(s) = {owner[s]}
    BY <1>2, <1>3 DEF ArticleAt, UniqueSlugs
  <2>2. QED
    BY <1>1, <1>3, <2>1 DEF Hop
<1>4. CASE rows[owner[s]].slug # s
  <2>1. ArticleAt(s) = {}
    BY <1>4 DEF ArticleAt, Owners
  <2>2. QED
    BY <1>1, <1>2, <1>4, <2>1 DEF Hop
<1>5. QED
  BY <1>3, <1>4

\* The other slugs of the article of s that are nearer to the one it has now.
Nearer(rank, s) == {t \in Slugs : owner[t] = owner[s] /\ rank[t] < rank[s]}

\* The redirect of s leads to a slug with fewer ones nearer than it.
LEMMA FewerNearer ==
    ASSUME IsFiniteSet(Slugs), NEW rank \in [Slugs -> Nat],
           NEW s \in Slugs, NEW t \in Slugs, owner[t] = owner[s], rank[t] < rank[s]
    PROVE  /\ Cardinality(Nearer(rank, s)) \in Nat
           /\ Cardinality(Nearer(rank, t)) \in Nat
           /\ Cardinality(Nearer(rank, t)) < Cardinality(Nearer(rank, s))
<1> DEFINE A == Nearer(rank, s)
           B == Nearer(rank, t)
<1>1. A \in SUBSET Slugs /\ B \in SUBSET A /\ t \in A /\ t \notin B
  BY DEF Nearer
<1> HIDE DEF A, B
<1>2. IsFiniteSet(A)
  BY <1>1, FS_Subset
<1>3. IsFiniteSet(B) /\ Cardinality(B) <= Cardinality(A) /\ Cardinality(A) # Cardinality(B)
  BY <1>1, <1>2, FS_Subset
<1>4. Cardinality(A) \in Nat /\ Cardinality(B) \in Nat
  BY <1>2, <1>3, FS_CardinalityType
<1>5. Cardinality(B) < Cardinality(A)
  BY <1>3, <1>4
<1>6. QED
  BY <1>4, <1>5 DEF A, B

\* With as many redirects as there are nearer slugs, the client is there.
LEMMA WayEnds ==
    ASSUME Owners, UniqueSlugs, IsFiniteSet(Slugs), redirects \in [Slugs -> AnySlug],
           \A w \in Workers : req[w].stage # "redirect",
           NEW rank \in [Slugs -> Nat], Ranked(rank),
           NEW s \in Slugs, owner[s] # NoId, Exists(owner[s])
    PROVE  Ends[Cardinality(Slugs)][s] = owner[s]
<1> DEFINE m == Cardinality(Slugs)
           Reached(n) == \A t \in Slugs :
             owner[t] # NoId /\ Exists(owner[t]) /\ Cardinality(Nearer(rank, t)) <= n =>
               Ends[n][t] = owner[t]
           S == {n \in Nat : n <= m => Reached(n)}
<1>1. m \in Nat
  BY FS_CardinalityType
<1>2. ASSUME NEW t \in Slugs, owner[t] # NoId, Exists(owner[t]), rows[owner[t]].slug # t
      PROVE  /\ redirects[t] \in Slugs /\ owner[redirects[t]] = owner[t]
             /\ rank[redirects[t]] < rank[t] /\ redirects[t] # NoSlug
  BY <1>2, PublishingAssumption DEF Ranked, Leads, PublishingAssumption
<1>3. 0 \in S
  <2>1. SUFFICES ASSUME NEW t \in Slugs, owner[t] # NoId, Exists(owner[t]),
                        Cardinality(Nearer(rank, t)) <= 0
                 PROVE  Ends[0][t] = owner[t]
    OBVIOUS
  <2>2. rows[owner[t]].slug = t
    BY <1>2, <2>1, FewerNearer
  <2>3. QED
    BY <1>1, <2>1, <2>2, Arrives
<1>4. ASSUME NEW n \in Nat, n \in S PROVE n + 1 \in S
  <2>1. SUFFICES ASSUME n + 1 <= m, NEW t \in Slugs, owner[t] # NoId, Exists(owner[t]),
                        Cardinality(Nearer(rank, t)) <= n + 1
                 PROVE  Ends[n + 1][t] = owner[t]
    OBVIOUS
  <2>2. n + 1 \in 0..m /\ n + 1 # 0 /\ (n + 1) - 1 = n /\ n <= m
    BY <1>1, <2>1
  <2>3. CASE rows[owner[t]].slug = t
    BY <2>1, <2>2, <2>3, Arrives
  <2>4. CASE rows[owner[t]].slug # t
    <3>1. Ends[n + 1][t] = Ends[n][redirects[t]]
      BY <1>2, <2>1, <2>2, <2>4, Arrives
    <3>2. Cardinality(Nearer(rank, redirects[t])) <= n
      <4>1. /\ Cardinality(Nearer(rank, redirects[t])) \in Nat
            /\ Cardinality(Nearer(rank, t)) \in Nat
            /\ Cardinality(Nearer(rank, redirects[t])) < Cardinality(Nearer(rank, t))
        BY <1>2, <2>1, <2>4, FewerNearer
      <4>2. QED
        BY <2>1, <4>1
    <3>3. Reached(n)
      BY <1>4, <2>2
    <3>4. QED
      BY <1>2, <2>1, <2>4, <3>1, <3>2, <3>3
  <2>5. QED
    BY <2>3, <2>4
<1> HIDE DEF S
<1>5. m \in S
  BY <1>1, <1>3, <1>4, UpTo
<1>6. Reached(m)
  BY <1>1, <1>5 DEF S
<1>7. Cardinality(Nearer(rank, s)) <= m
  <2>1. Nearer(rank, s) \in SUBSET Slugs
    BY DEF Nearer
  <2>2. QED
    BY <2>1, FS_Subset
<1>8. QED
  BY <1>6, <1>7

\* Every slug an article had leads to the article, one request at a time: where
\* each rename saved its redirect, no reply of the database was lost, and the
\* admin writes no redirect by hand (ArticleAdmin.Update, Public.tryRedirect).
THEOREM OldUrlsCorrect ==
    ASSUME IsFiniteSet(Slugs), Overlap = FALSE, "redirect" \notin Ops, LostReplies = FALSE
    PROVE  FreshSpec /\ [][RedirectsSaved]_hvars => []OldUrlsWork
<1>1. IInv /\ SerialInv /\ UrlInv /\ UniqueSlugs' /\ [FreshNext /\ RedirectsSaved]_hvars => UrlInv'
  BY NextUrls
<1>2. IInv /\ UniqueSlugs /\ UrlInv => OldUrlsWork
  <2>1. SUFFICES ASSUME IInv, UniqueSlugs, UrlInv, \A w \in Workers : ~Busy(w),
                        NEW s \in Slugs, owner[s] # NoId, Exists(owner[s])
                 PROVE  Follow(s) = owner[s]
    BY DEF OldUrlsWork
  <2>2. \A w \in Workers : req[w].stage # "redirect"
    BY <2>1 DEF Busy, Idle
  <2>3. redirects \in [Slugs -> AnySlug] /\ s # NoSlug
    BY <2>1, PublishingAssumption DEF IInv, TypeOK, PublishingAssumption
  <2>4. QED
    BY <2>1, <2>2, <2>3, WayEnds DEF UrlInv, Follow
<1>3. [FreshNext]_hvars /\ [RedirectsSaved]_hvars => [FreshNext /\ RedirectsSaved]_hvars
  OBVIOUS
<1>4. QED
  BY <1>1, <1>2, <1>3, InitUrls, FreshImpliesSpec, Inductive, SerialInvariant,
     SlugsUnique, PTL DEF FreshSpec

\* In particular when nothing fails: the instance of the run.
THEOREM OldUrlsWithoutFaults ==
    ASSUME IsFiniteSet(Slugs), Overlap = FALSE, "redirect" \notin Ops,
           LostReplies = FALSE, MaxFaults = 0
    PROVE  FreshSpec => []OldUrlsWork
<1>1. IInv /\ IInv' => [RedirectsSaved]_hvars
  BY DEF IInv, TypeOK, RedirectsSaved
<1>2. FreshSpec => [][RedirectsSaved]_hvars
  BY <1>1, FreshImpliesSpec, Inductive, PTL DEF FreshSpec
<1>3. QED
  BY <1>2, OldUrlsCorrect, PTL
=============================================================================
