-------------------------- MODULE PublishingProofs --------------------------
(***************************************************************************)
(* Proofs about Publishing for every set of articles, workers, slugs and   *)
(* contents, every set of operations in use, and every bound.              *)
(***************************************************************************)
EXTENDS Publishing, TLAPS

USE ArticlesAssumption DEF ArticlesAssumption, Nil

-----------------------------------------------------------------------------
(* The functions of Articles: what they return is a consistent row *)

\* Stamping makes any row consistent, whatever its columns were, as long as the
\* moment it preserves is not in the future (stampPublishedAt).
LEMMA StampConsistent ==
    ASSUME NEW a \in Row, NEW existing \in Time, NEW now \in 1..MaxTime,
           existing <= now
    PROVE  LET b == StampPublishedAt(a, existing, now) IN
           b \in Row /\ Consistent(b, now) /\ b.type = a.type
<1> DEFINE b == StampPublishedAt(a, existing, now)
<1>1. now \in Time /\ Nil \in Time /\ now \in Nat /\ existing \in Nat
  BY DEF Time
<1>2. b \in Row /\ b.type = a.type
  BY <1>1 DEF StampPublishedAt, Row
<1>3. CASE a.status = "published"
  <2>1. /\ b.status = "published" /\ b.publishAt = Nil
        /\ b.publishedAt \in {existing, now} /\ b.publishedAt # Nil
    BY <1>1, <1>3 DEF StampPublishedAt, Row
  <2>2. QED
    BY <1>1, <1>2, <2>1 DEF Consistent
<1>4. CASE a.status # "published"
  <2>1. b.status # "published" /\ b.publishedAt = Nil
    BY <1>4 DEF StampPublishedAt, Row
  <2>2. QED
    BY <1>1, <1>2, <2>1 DEF Consistent
<1>5. QED
  BY <1>3, <1>4

LEMMA FormRow ==
    ASSUME NEW f \in Form
    PROVE  ArticleFromForm(f) \in Row /\ ArticleFromForm(f).type = "markdown"
BY DEF ArticleFromForm, Form, Row, Types, Time

LEMMA FormCreatedConsistent ==
    ASSUME NEW f \in Form, NEW now \in 1..MaxTime
    PROVE  FormCreated(f, now) \in Row /\ Consistent(FormCreated(f, now), now)
<1>1. Nil \in Time /\ Nil <= now /\ now \in Nat
  BY DEF Time
<1>2. QED
  BY <1>1, FormRow, StampConsistent DEF FormCreated

LEMMA FormUpdatedConsistent ==
    ASSUME NEW a \in Row, NEW f \in Form, NEW now \in 1..MaxTime,
           Consistent(a, now)
    PROVE  LET b == FormUpdated(a, f, now) IN
           b \in Row /\ Consistent(b, now) /\ b.type = a.type
<1>1. a.publishedAt \in Time /\ a.publishedAt <= now /\ now \in Nat
  BY DEF Consistent, Row
<1>2. CASE a.type = "html_upload"
  <2>1. /\ HtmlUploadFromForm(a, f) \in Row
        /\ HtmlUploadFromForm(a, f).type = a.type
    BY DEF HtmlUploadFromForm, Row, Form
  <2>2. QED
    BY <1>1, <1>2, <2>1, StampConsistent DEF FormUpdated
<1>3. CASE a.type # "html_upload"
  <2>1. a.type = "markdown"
    BY <1>3 DEF Row, Types
  <2>2. QED
    BY <1>1, <1>3, <2>1, FormRow, StampConsistent
    DEF FormUpdated
<1>4. QED
  BY <1>2, <1>3

LEMMA UploadedConsistent ==
    ASSUME NEW f \in Form, NEW now \in 1..MaxTime
    PROVE  Uploaded(f) \in Row /\ Consistent(Uploaded(f), now)
BY DEF Uploaded, Consistent, Form, Row, Types, Time, Statuses

LEMMA McpCreatedConsistent ==
    ASSUME NEW f \in Form, NEW now \in 1..MaxTime
    PROVE  McpCreated(f, now) \in Row /\ Consistent(McpCreated(f, now), now)
<1>1. [ArticleFromForm(f) EXCEPT !.publishAt = Nil] \in Row
  BY FormRow DEF Row, Time
<1>2. Nil \in Time /\ Nil <= now
  BY DEF Time
<1>3. QED
  BY <1>1, <1>2, StampConsistent DEF McpCreated

LEMMA McpPatchedConsistent ==
    ASSUME NEW a \in Row, NEW slug \in AnySlug, NEW body \in Bodies,
           NEW now \in Nat, Consistent(a, now)
    PROVE  LET b == McpPatched(a, slug, body) IN
           b \in Row /\ Consistent(b, now) /\ b.type = a.type
BY DEF McpPatched, Consistent, Row

LEMMA McpStatusSetConsistent ==
    ASSUME NEW a \in Row, NEW status \in Statuses, NEW at \in Time,
           NEW now \in 1..MaxTime, Consistent(a, now)
    PROVE  LET b == McpStatusSet(a, status, at, now) IN
           b \in Row /\ Consistent(b, now) /\ b.type = a.type
<1> DEFINE c == [a EXCEPT !.status = status,
                          !.publishAt = IF status = "draft" /\ at # Nil
                                        THEN at ELSE @]
<1>1. c \in Row /\ c.type = a.type
  BY DEF Row
<1>2. a.publishedAt \in Time /\ a.publishedAt <= now
  BY DEF Consistent, Row
<1>3. QED
  BY <1>1, <1>2, StampConsistent DEF McpStatusSet

LEMMA McpVisibilitySetConsistent ==
    ASSUME NEW a \in Row, NEW v \in Visibilities, NEW now \in Nat,
           Consistent(a, now)
    PROVE  LET b == McpVisibilitySet(a, v) IN
           b \in Row /\ Consistent(b, now) /\ b.type = a.type
BY DEF McpVisibilitySet, Consistent, Row

\* A due draft goes live with a time that has come.
LEMMA LaunchedConsistent ==
    ASSUME NEW a \in Row, NEW now \in Nat, a.publishAt \in 1..now
    PROVE  LET b == Launched(a) IN
           b \in Row /\ Consistent(b, now) /\ b.type = a.type
<1> DEFINE b == Launched(a)
<1>1. Nil \in Time /\ a.publishAt \in Time /\ "published" \in Statuses
  BY DEF Row, Statuses, Time
<1>2. b \in Row /\ b.type = a.type
  BY <1>1 DEF Launched, Row
<1>3. /\ b.status = "published" /\ b.publishAt = Nil
      /\ b.publishedAt = a.publishAt
  BY DEF Launched, Row
<1>4. QED
  BY <1>2, <1>3 DEF Consistent

\* What is consistent now stays so as time passes.
LEMMA ConsistentLater ==
    ASSUME NEW a \in Row, NEW now \in Nat, NEW later \in Nat, now <= later,
           Consistent(a, now)
    PROVE  Consistent(a, later)
BY DEF Consistent, Row, Time

-----------------------------------------------------------------------------
(* Every step keeps the types *)

LEMMA InitInv == Init => IInv
<1> SUFFICES ASSUME Init PROVE IInv
  OBVIOUS
<1> USE DEF Init
<1>1. TypeOK
  BY PublishingAssumption DEF PublishingAssumption, TypeOK, Idle, Request,
     Stages, DirState, AnySlug
<1>2. \A id \in Ids : ~Exists(id)
  BY DEF Exists
<1>3. \A w \in Workers : ~Busy(w)
  BY DEF Busy
<1>4. QED
  BY <1>1, <1>2, <1>3 DEF IInv, Lifecycle

\* A request that is not idle carries a row; one past the upload steps carries
\* an id as well.
LEMMA BusyRequest ==
    ASSUME IInv, NEW w \in Workers, req[w].stage # "idle"
    PROVE  InFlightOK(req[w]) /\ req[w] \in Request
BY DEF IInv, TypeOK, Busy, Idle

LEMMA IdleRequest == Idle \in Request
BY DEF Idle, Request, Stages, AnySlug

\* Starting, continuing or ending a request leaves req well typed.
LEMMA RequestTypes ==
    ASSUME TypeOK, NEW w \in Workers
    PROVE  /\ Finish(w) => req' \in [Workers -> Request]
           /\ \A stage \in Stages :
                Continue(w, stage) => req' \in [Workers -> Request]
           /\ \A stage \in Stages, id \in Ids \cup {NoId}, old \in AnySlug,
                 new \in Row :
                Begin(w, stage, id, old, new) => req' \in [Workers -> Request]
<1>1. Finish(w) => req' \in [Workers -> Request]
  BY IdleRequest DEF TypeOK, Finish
<1>2. ASSUME NEW stage \in Stages, Continue(w, stage)
      PROVE  req' \in [Workers -> Request]
  <2>1. [req[w] EXCEPT !.stage = stage] \in Request
    BY DEF TypeOK, Request
  <2>2. QED
    BY <1>2, <2>1 DEF TypeOK, Continue
<1>3. ASSUME NEW stage \in Stages, NEW id \in Ids \cup {NoId},
             NEW old \in AnySlug, NEW new \in Row,
             Begin(w, stage, id, old, new)
      PROVE  req' \in [Workers -> Request]
  BY <1>3 DEF TypeOK, Begin, Request
<1>4. QED
  BY <1>1, <1>2, <1>3

\* Writing a row, or erasing one, leaves the table well typed.
LEMMA RowTypes ==
    ASSUME TypeOK, NEW id
    PROVE  /\ \A a \in Row : Store(id, a) =>
                rows' \in [Ids -> Row \cup {NoRow, Deleted}]
           /\ Erase(id) => rows' \in [Ids -> Row \cup {NoRow, Deleted}]
BY DEF TypeOK, Store, Erase

LEMMA StagesListed ==
    {"idle", "update", "redirect", "move", "delete", "remove", "extract",
     "insert", "rollback", "patch", "status", "visibility"} = Stages
BY DEF Stages

LEMMA ReadRows ==
    ASSUME TypeOK, NEW id \in Ids, Exists(id)
    PROVE  rows[id] \in Row /\ rows[id].slug \in AnySlug
BY DEF TypeOK, Exists, Row

LEMMA ClockTypes ==
    ASSUME TypeOK
    PROVE  clock \in 1..MaxTime /\ clock \in Nat
BY DEF TypeOK

LEMMA HandlerTypes ==
    ASSUME IInv, NEW w \in Handlers, HandlerStep(w)
    PROVE  TypeOK'
<1> USE DEF At
<1>0. TypeOK /\ w \in Workers
  BY DEF IInv, Workers
<1>1. CASE UpdateRead(w)
  <2>1. PICK id \in Ids, f \in Form :
          /\ Exists(id)
          /\ Begin(w, "update", id, rows[id].slug,
                   FormUpdated(rows[id], f, clock))
    BY <1>1 DEF UpdateRead
  <2>2. FormUpdated(rows[id], f, clock) \in Row /\ rows[id].slug \in AnySlug
    BY <1>0, <2>1, ReadRows, ClockTypes, FormUpdatedConsistent
    DEF IInv, Lifecycle
  <2>3. req' \in [Workers -> Request]
    BY <1>0, <2>1, <2>2, RequestTypes, StagesListed
  <2>4. QED
    BY <1>0, <1>1, <2>3 DEF TypeOK, UpdateRead
<1>2. CASE UpdateWrite(w)
  <2>1. req[w].new \in Row
    BY <1>0, <1>2, BusyRequest DEF UpdateWrite, InFlightOK
  <2>2. req' \in [Workers -> Request]
    BY <1>0, <1>2, RequestTypes, StagesListed DEF UpdateWrite
  <2>3. rows' \in [Ids -> Row \cup {NoRow, Deleted}]
    BY <1>0, <1>2, <2>1, RowTypes DEF UpdateWrite
  <2>4. QED
    BY <1>0, <1>2, <2>2, <2>3 DEF TypeOK, UpdateWrite
<1>3. CASE UpdateRedirect(w)
  <2>1. req[w].new.slug \in AnySlug
    BY <1>0, <1>3, BusyRequest DEF UpdateRedirect, InFlightOK, Row
  <2>2. req' \in [Workers -> Request]
    BY <1>0, <1>3, RequestTypes, StagesListed
    DEF UpdateRedirect, AfterRedirect
  <2>3. redirects' \in [Slugs -> AnySlug]
    BY <1>0, <1>3, <2>1 DEF UpdateRedirect, TypeOK
  <2>4. QED
    BY <1>0, <1>3, <2>2, <2>3 DEF TypeOK, UpdateRedirect
<1>4. CASE UpdateMove(w)
  <2>1. req[w].oldSlug \in AnySlug
    BY <1>0, <1>4, BusyRequest DEF UpdateMove, Request
  <2>2. req' \in [Workers -> Request]
    BY <1>0, <1>4, RequestTypes DEF UpdateMove
  <2>3. dirs' \in [Slugs -> DirState]
    BY <1>0, <1>4, <2>1 DEF UpdateMove, TypeOK, DirState, AnySlug
  <2>4. QED
    BY <1>0, <1>4, <2>2, <2>3 DEF TypeOK, UpdateMove
<1>5. CASE DeleteRead(w)
  <2>1. PICK id \in Ids : /\ Exists(id)
                          /\ Begin(w, "delete", id, rows[id].slug, rows[id])
    BY <1>5 DEF DeleteRead
  <2>2. req' \in [Workers -> Request]
    BY <1>0, <2>1, ReadRows, RequestTypes, StagesListed
  <2>3. QED
    BY <1>0, <1>5, <2>2 DEF TypeOK, DeleteRead
<1>6. CASE DeleteWrite(w)
  <2>1. req' \in [Workers -> Request]
    BY <1>0, <1>6, RequestTypes, StagesListed DEF DeleteWrite
  <2>2. rows' \in [Ids -> Row \cup {NoRow, Deleted}]
    BY <1>0, <1>6, RowTypes DEF DeleteWrite
  <2>3. QED
    BY <1>0, <1>6, <2>1, <2>2 DEF TypeOK, DeleteWrite
<1>7. CASE DeleteRemove(w) \/ UploadReject(w) \/ UploadRollback(w)
  <2>1. req' \in [Workers -> Request]
    BY <1>0, <1>7, RequestTypes DEF DeleteRemove, UploadReject, UploadRollback
  <2>2. dirs' \in [Slugs -> DirState]
    BY <1>0, <1>7
    DEF DeleteRemove, UploadReject, UploadRollback, TypeOK, DirState
  <2>3. QED
    BY <1>0, <1>7, <2>1, <2>2
    DEF TypeOK, DeleteRemove, UploadReject, UploadRollback
<1>8. CASE UploadClear(w)
  <2>1. PICK f \in Form :
          /\ Begin(w, "extract", NoId, f.slug, Uploaded(f))
          /\ dirs' = [dirs EXCEPT ![f.slug] = "partial"]
    BY <1>8 DEF UploadClear
  <2>2. Uploaded(f) \in Row /\ f.slug \in AnySlug
    BY <1>0, ClockTypes, UploadedConsistent DEF Form
  <2>3. req' \in [Workers -> Request]
    BY <1>0, <2>1, <2>2, RequestTypes, StagesListed
  <2>4. QED
    BY <1>0, <1>8, <2>1, <2>3 DEF TypeOK, UploadClear, DirState
<1>9. CASE UploadExtract(w)
  <2>1. req' \in [Workers -> Request]
    BY <1>0, <1>9, RequestTypes, StagesListed DEF UploadExtract
  <2>2. QED
    BY <1>0, <1>9, <2>1 DEF TypeOK, UploadExtract, DirState
<1>10. CASE UploadInsert(w)
  <2>1. req[w].new \in Row
    BY <1>0, <1>10, BusyRequest DEF UploadInsert, InFlightOK
  <2>2. req' \in [Workers -> Request]
    BY <1>0, <1>10, RequestTypes DEF UploadInsert
  <2>3. rows' \in [Ids -> Row \cup {NoRow, Deleted}]
    BY <1>0, <1>10, <2>1, RowTypes DEF UploadInsert
  <2>4. QED
    BY <1>0, <1>10, <2>2, <2>3 DEF TypeOK, UploadInsert
<1>11. CASE UploadDuplicate(w)
  <2>1. req' \in [Workers -> Request]
    BY <1>0, <1>11, RequestTypes, StagesListed DEF UploadDuplicate
  <2>2. QED
    BY <1>0, <1>11, <2>1 DEF TypeOK, UploadDuplicate
<1>12. QED
  BY <1>1, <1>2, <1>3, <1>4, <1>5, <1>6, <1>7, <1>8, <1>9, <1>10, <1>11
  DEF HandlerStep

LEMMA McpTypes ==
    ASSUME IInv, NEW w \in McpCalls, McpStep(w)
    PROVE  TypeOK'
<1>0. TypeOK /\ w \in Workers
  BY DEF IInv, Workers
<1>1. ASSUME NEW id \in Ids, Exists(id)
      PROVE  rows[id] \in Row /\ rows[id].slug \in AnySlug
             /\ Consistent(rows[id], clock) /\ clock \in 1..MaxTime
             /\ clock \in Nat
  BY <1>0, <1>1, ReadRows, ClockTypes DEF IInv, Lifecycle
<1>2. CASE McpUpdateRead(w)
  <2>1. PICK id \in Ids, slug \in AnySlug, body \in Bodies :
          /\ Exists(id)
          /\ Begin(w, "patch", id, rows[id].slug,
                   McpPatched(rows[id], slug, body))
    BY <1>2 DEF McpUpdateRead
  <2>2. McpPatched(rows[id], slug, body) \in Row
    BY <1>1, <2>1, McpPatchedConsistent
  <2>3. req' \in [Workers -> Request]
    BY <1>0, <1>1, <2>1, <2>2, RequestTypes, StagesListed
  <2>4. QED
    BY <1>0, <1>2, <2>3 DEF TypeOK, McpUpdateRead
<1>3. CASE SetStatusRead(w)
  <2>1. PICK id \in Ids, status \in Statuses, at \in Time :
          /\ Exists(id)
          /\ Begin(w, "status", id, rows[id].slug,
                   McpStatusSet(rows[id], status, at, clock))
    BY <1>3 DEF SetStatusRead
  <2>2. McpStatusSet(rows[id], status, at, clock) \in Row
    BY <1>1, <2>1, McpStatusSetConsistent
  <2>3. req' \in [Workers -> Request]
    BY <1>0, <1>1, <2>1, <2>2, RequestTypes, StagesListed
  <2>4. QED
    BY <1>0, <1>3, <2>3 DEF TypeOK, SetStatusRead
<1>4. CASE SetVisibilityRead(w)
  <2>1. PICK id \in Ids, v \in Visibilities :
          /\ Exists(id)
          /\ Begin(w, "visibility", id, rows[id].slug,
                   McpVisibilitySet(rows[id], v))
    BY <1>4 DEF SetVisibilityRead
  <2>2. McpVisibilitySet(rows[id], v) \in Row
    BY <1>1, <2>1, McpVisibilitySetConsistent
  <2>3. req' \in [Workers -> Request]
    BY <1>0, <1>1, <2>1, <2>2, RequestTypes, StagesListed
  <2>4. QED
    BY <1>0, <1>4, <2>3 DEF TypeOK, SetVisibilityRead
<1>5. CASE McpWrite(w)
  <2>1. req[w].new \in Row
    BY <1>0, <1>5, BusyRequest DEF McpWrite, InFlightOK
  <2>2. req' \in [Workers -> Request]
    BY <1>0, <1>5, RequestTypes DEF McpWrite
  <2>3. rows' \in [Ids -> Row \cup {NoRow, Deleted}]
    BY <1>0, <1>5, <2>1, RowTypes DEF McpWrite
  <2>4. QED
    BY <1>0, <1>5, <2>2, <2>3 DEF TypeOK, McpWrite
<1>6. QED
  BY <1>2, <1>3, <1>4, <1>5 DEF McpStep

\* The actions no single request takes: atomic creates, redirects, refusals,
\* faults, the tick and the clock.
SystemStep ==
    \/ Create \/ McpCreate \/ RedirectCreate \/ RedirectDelete
    \/ \E w \in Workers : WriteRefused(w) \/ CallFails(w) \/ ReplyLost(w)
    \/ TickList \/ TickPublish \/ TickAbort \/ TickReplyLost \/ Crash \/ ClockTick

LEMMA NextSplit ==
    Next <=> \/ SystemStep
             \/ \E w \in Handlers : HandlerStep(w)
             \/ \E w \in McpCalls : McpStep(w)
BY DEF Next, SystemStep

LEMMA FaultTypes == TypeOK /\ Fault => faults' \in 0..MaxFaults
BY PublishingAssumption DEF PublishingAssumption, TypeOK, Fault

LEMMA LaunchedRow ==
    ASSUME IInv, NEW d \in due
    PROVE  /\ d.id \in Ids /\ d.row \in Row
           /\ Launched(d.row) \in Row /\ Consistent(Launched(d.row), clock)
           /\ Launched(d.row).type = d.row.type
<1>1. d.id \in Ids /\ d.row \in Row /\ clock \in Nat
  BY ClockTypes DEF IInv, TypeOK
<1>2. d.row.publishAt \in 1..clock
  BY DEF IInv, DueOK
<1>3. QED
  BY <1>1, <1>2, LaunchedConsistent

LEMMA SystemTypes ==
    ASSUME IInv, SystemStep
    PROVE  TypeOK'
<1>0. TypeOK
  BY DEF IInv
<1>1. CASE Create
  <2>1. PICK id \in Ids, f \in Form : Store(id, FormCreated(f, clock))
    BY <1>1 DEF Create
  <2>2. FormCreated(f, clock) \in Row
    BY <1>0, ClockTypes, FormCreatedConsistent
  <2>3. rows' \in [Ids -> Row \cup {NoRow, Deleted}]
    BY <1>0, <2>1, <2>2, RowTypes
  <2>4. QED
    BY <1>0, <1>1, <2>3 DEF TypeOK, Create
<1>2. CASE McpCreate
  <2>1. PICK id \in Ids, f \in Form : Store(id, McpCreated(f, clock))
    BY <1>2 DEF McpCreate
  <2>2. McpCreated(f, clock) \in Row
    BY <1>0, ClockTypes, McpCreatedConsistent
  <2>3. rows' \in [Ids -> Row \cup {NoRow, Deleted}]
    BY <1>0, <2>1, <2>2, RowTypes
  <2>4. QED
    BY <1>0, <1>2, <2>3 DEF TypeOK, McpCreate
<1>3. CASE RedirectCreate \/ RedirectDelete
  BY <1>0, <1>3 DEF TypeOK, RedirectCreate, RedirectDelete, AnySlug
<1>4. ASSUME NEW w \in Workers, WriteRefused(w)
      PROVE  TypeOK'
  <2>1. req' \in [Workers -> Request]
    BY <1>0, <1>4, RequestTypes DEF WriteRefused
  <2>2. QED
    BY <1>0, <1>4, <2>1 DEF TypeOK, WriteRefused
<1>5. ASSUME NEW w \in Workers, CallFails(w)
      PROVE  TypeOK'
  <2>1. req' \in [Workers -> Request]
    BY <1>0, <1>5, RequestTypes, StagesListed DEF CallFails, AfterRedirect
  <2>2. faults' \in 0..MaxFaults
    BY <1>0, <1>5, FaultTypes DEF CallFails
  <2>3. QED
    BY <1>0, <1>5, <2>1, <2>2 DEF TypeOK, CallFails
<1>6. CASE TickList
  <2>1. due' \subseteq [id : Ids, row : Row]
    BY <1>0, <1>6, ReadRows DEF TickList, DueRows
  <2>2. QED
    BY <1>0, <1>6, <2>1 DEF TypeOK, TickList
<1>7. CASE TickPublish
  <2>1. PICK d \in due : /\ Store(d.id, Launched(d.row))
                         /\ due' = due \ {d}
                         /\ UNCHANGED <<redirects, dirs, req, clock, faults>>
    BY <1>7 DEF TickPublish
  <2>2. rows' \in [Ids -> Row \cup {NoRow, Deleted}]
    BY <1>0, <2>1, LaunchedRow, RowTypes
  <2>3. QED
    BY <1>0, <2>1, <2>2 DEF TypeOK
<1>8. CASE TickAbort
  <2>1. faults' \in 0..MaxFaults
    BY <1>0, <1>8, FaultTypes DEF TickAbort, TypeOK
  <2>2. QED
    BY <1>0, <1>8, <2>1 DEF TypeOK, TickAbort
<1>9. CASE Crash
  <2>1. req' \in [Workers -> Request]
    BY <1>0, <1>9, IdleRequest DEF TypeOK, Crash
  <2>2. faults' \in 0..MaxFaults
    BY <1>0, <1>9, FaultTypes DEF Crash
  <2>3. QED
    BY <1>0, <1>9, <2>1, <2>2 DEF TypeOK, Crash
<1>10. CASE ClockTick
  <2>1. clock' \in 1..MaxTime
    BY <1>0, <1>10 DEF TypeOK, ClockTick
  <2>2. QED
    BY <1>0, <1>10, <2>1 DEF TypeOK, ClockTick
<1>11. ASSUME NEW w \in Workers, ReplyLost(w)
       PROVE  TypeOK'
  <2>1. faults' \in 0..MaxFaults
    BY <1>0, <1>11, FaultTypes DEF ReplyLost
  <2>2. req' \in [Workers -> Request]
    BY <1>0, <1>11, RequestTypes, StagesListed DEF ReplyLost
  <2>3. req[w].new \in Row
    BY <1>0, <1>11, BusyRequest DEF ReplyLost, At, InFlightOK
  <2>4. rows' \in [Ids -> Row \cup {NoRow, Deleted}]
    BY <1>0, <1>11, <2>3, RowTypes DEF ReplyLost
  <2>5. QED
    BY <1>0, <1>11, <2>1, <2>2, <2>4 DEF TypeOK, ReplyLost
<1>12. CASE TickReplyLost
  <2>1. PICK d \in due : Store(d.id, Launched(d.row))
    BY <1>12 DEF TickReplyLost
  <2>2. rows' \in [Ids -> Row \cup {NoRow, Deleted}]
    BY <1>0, <2>1, LaunchedRow, RowTypes
  <2>3. faults' \in 0..MaxFaults
    BY <1>0, <1>12, FaultTypes DEF TickReplyLost
  <2>4. QED
    BY <1>0, <1>12, <2>2, <2>3 DEF TypeOK, TickReplyLost
<1>13. QED
  BY <1>1, <1>2, <1>3, <1>4, <1>5, <1>6, <1>7, <1>8, <1>9, <1>10, <1>11, <1>12
  DEF SystemStep

LEMMA NextTypes == IInv /\ Next => TypeOK'
BY NextSplit, SystemTypes, HandlerTypes, McpTypes

-----------------------------------------------------------------------------
(* Every step keeps the inductive invariant *)

\* A request's step leaves each request idle, as it was, moved on to a stage
\* that asks no more of it, or freshly read and consistent.
Keeps(v) ==
    \/ req'[v] = req[v]
    \/ req'[v] = Idle
    \/ /\ Busy(v)
       /\ req'[v].id = req[v].id /\ req'[v].new = req[v].new
       /\ \/ req[v].stage \notin {"extract", "insert", "rollback"}
          \/ req'[v].stage \in {"extract", "insert", "rollback"}

\* Steps that touch no row: requests end, move on or read.
LEMMA NoRowStep ==
    ASSUME IInv, TypeOK', UNCHANGED <<rows, due, clock>>,
           \A v \in Workers : Keeps(v) \/ InFlightOK(req'[v])
    PROVE  IInv'
<1>1. \A id : Exists(id)' <=> Exists(id)
  BY DEF Exists
<1>2. ASSUME NEW v \in Workers, Busy(v)'
      PROVE  InFlightOK(req[v])'
  <2>1. CASE InFlightOK(req'[v])
    BY <1>1, <2>1 DEF InFlightOK
  <2>2. CASE Keeps(v)
    <3>1. Busy(v) /\ req'[v].id = req[v].id /\ req'[v].new = req[v].new
      BY <1>2, <2>2 DEF Keeps, Busy
    <3>2. InFlightOK(req[v])
      BY <3>1 DEF IInv
    <3>3. QED
      BY <1>1, <1>2, <2>2, <3>1, <3>2 DEF Keeps, Busy, InFlightOK
  <2>3. QED
    BY <2>1, <2>2
<1>3. Lifecycle'
  BY <1>1 DEF IInv, Lifecycle
<1>4. \A d \in due' : DueOK(d)'
  BY <1>1 DEF IInv, DueOK
<1>5. QED
  BY <1>2, <1>3, <1>4 DEF IInv

\* A consistent row is inserted, or overwrites one of the same type.
LEMMA StoreStep ==
    ASSUME IInv, TypeOK', UNCHANGED clock, due' \subseteq due,
           NEW id \in Ids, NEW a \in Row, Consistent(a, clock), Store(id, a),
           rows[id] = NoRow \/ (Exists(id) /\ rows[id].type = a.type),
           \A v \in Workers : Keeps(v)
    PROVE  IInv'
<1>0. /\ rows' = [rows EXCEPT ![id] = a]
      /\ a \notin {NoRow, Deleted}
      /\ DOMAIN rows = Ids
  BY PublishingAssumption DEF PublishingAssumption, Store, IInv, TypeOK
<1>1. /\ rows'[id] = a
      /\ \A i \in Ids \ {id} : rows'[i] = rows[i]
  BY <1>0
<1>2. ASSUME NEW i \in Ids, NEW t, rows[i] # NoRow,
             Exists(i) => rows[i].type = t
      PROVE  rows'[i] # NoRow /\ (Exists(i)' => rows'[i].type = t)
  BY <1>0, <1>1, <1>2 DEF Exists
<1>3. Lifecycle'
  BY <1>1 DEF IInv, Lifecycle, Exists
<1>4. ASSUME NEW v \in Workers, Busy(v)'
      PROVE  InFlightOK(req[v])'
  <2>1. Busy(v) /\ req'[v].id = req[v].id /\ req'[v].new = req[v].new
    BY <1>4 DEF Keeps, Busy
  <2>2. InFlightOK(req[v])
    BY <2>1 DEF IInv
  <2>3. \/ req[v].stage \notin {"extract", "insert", "rollback"}
        \/ req'[v].stage \in {"extract", "insert", "rollback"}
    BY <1>4 DEF Keeps, Busy
  <2>4. QED
    BY <1>2, <2>1, <2>2, <2>3 DEF InFlightOK
<1>5. ASSUME NEW d \in due'
      PROVE  DueOK(d)'
  <2>1. d.id \in Ids /\ DueOK(d)
    BY <1>5 DEF IInv, TypeOK
  <2>2. QED
    BY <1>2, <2>1 DEF DueOK
<1>6. QED
  BY <1>3, <1>4, <1>5 DEF IInv

\* A row is erased, by a request that moves on to its files or ends.
LEMMA EraseStep ==
    ASSUME IInv, TypeOK', UNCHANGED <<due, clock>>, NEW id, Erase(id),
           \A v \in Workers : Keeps(v)
    PROVE  IInv'
<1>0. /\ rows' = [rows EXCEPT ![id] = Deleted]
      /\ Deleted # NoRow
      /\ DOMAIN rows = Ids
  BY PublishingAssumption DEF PublishingAssumption, Erase, IInv, TypeOK
<1>1. \A i \in Ids : rows'[i] = Deleted \/ rows'[i] = rows[i]
  BY <1>0
<1>2. ASSUME NEW i \in Ids, NEW t, rows[i] # NoRow,
             Exists(i) => rows[i].type = t
      PROVE  rows'[i] # NoRow /\ (Exists(i)' => rows'[i].type = t)
  BY <1>0, <1>1, <1>2 DEF Exists
<1>3. Lifecycle'
  BY <1>1 DEF IInv, Lifecycle, Exists
<1>4. ASSUME NEW v \in Workers, Busy(v)'
      PROVE  InFlightOK(req[v])'
  <2>1. Busy(v) /\ req'[v].id = req[v].id /\ req'[v].new = req[v].new
    BY <1>4 DEF Keeps, Busy
  <2>2. InFlightOK(req[v])
    BY <2>1 DEF IInv
  <2>3. \/ req[v].stage \notin {"extract", "insert", "rollback"}
        \/ req'[v].stage \in {"extract", "insert", "rollback"}
    BY <1>4 DEF Keeps, Busy
  <2>4. QED
    BY <1>2, <2>1, <2>2, <2>3 DEF InFlightOK
<1>5. ASSUME NEW d \in due'
      PROVE  DueOK(d)'
  <2>1. d.id \in Ids /\ DueOK(d)
    BY <1>5 DEF IInv, TypeOK
  <2>2. QED
    BY <1>2, <2>1 DEF DueOK
<1>6. QED
  BY <1>3, <1>4, <1>5 DEF IInv

\* Time passes: what was not in the future still is not.
LEMMA ClockStep ==
    ASSUME IInv, TypeOK', ClockTick
    PROVE  IInv'
<1>1. /\ clock \in Nat /\ clock' \in Nat /\ clock <= clock'
      /\ UNCHANGED <<rows, req, due>>
  BY ClockTypes DEF ClockTick, IInv
<1>2. ASSUME NEW a \in Row, Consistent(a, clock)
      PROVE  Consistent(a, clock')
  BY <1>1, <1>2, ConsistentLater
<1>3. \A id : Exists(id)' <=> Exists(id)
  BY <1>1 DEF Exists
<1>4. Lifecycle'
  BY <1>1, <1>2, <1>3, ReadRows DEF IInv, Lifecycle
<1>5. ASSUME NEW v \in Workers, Busy(v)'
      PROVE  InFlightOK(req[v])'
  <2>1. InFlightOK(req[v])
    BY <1>1, <1>5 DEF IInv, Busy
  <2>2. QED
    BY <1>1, <1>2, <1>3, <2>1 DEF InFlightOK
<1>6. ASSUME NEW d \in due'
      PROVE  DueOK(d)'
  <2>1. d.row \in Row /\ DueOK(d)
    BY <1>1, <1>6 DEF IInv, TypeOK
  <2>2. d.row.publishAt \in 1..clock'
    BY <1>1, <2>1 DEF DueOK
  <2>3. QED
    BY <1>1, <1>2, <1>3, <2>1, <2>2 DEF DueOK
<1>7. QED
  BY <1>4, <1>5, <1>6 DEF IInv

LEMMA FinishKeeps ==
    ASSUME TypeOK, NEW w \in Workers, Finish(w)
    PROVE  \A v \in Workers : Keeps(v)
BY DEF TypeOK, Finish, Keeps

LEMMA ContinueKeeps ==
    ASSUME TypeOK, NEW w \in Workers, NEW stage \in Stages,
           req[w].stage # "idle", Continue(w, stage),
           \/ req[w].stage \notin {"extract", "insert", "rollback"}
           \/ stage \in {"extract", "insert", "rollback"}
    PROVE  \A v \in Workers : Keeps(v)
<1>1. Busy(w)
  BY DEF Busy, Idle
<1>2. /\ req'[w] = [req[w] EXCEPT !.stage = stage]
      /\ \A v \in Workers \ {w} : req'[v] = req[v]
  BY DEF TypeOK, Continue
<1>3. req[w] \in Request
  BY DEF TypeOK
<1>4. /\ req'[w].stage = stage
      /\ req'[w].id = req[w].id /\ req'[w].new = req[w].new
  BY <1>2, <1>3 DEF Request
<1>5. QED
  BY <1>1, <1>2, <1>4 DEF Keeps

LEMMA BeginKeeps ==
    ASSUME TypeOK, NEW w \in Workers, NEW stage, NEW id, NEW old, NEW new,
           Begin(w, stage, id, old, new),
           new \in Row, Consistent(new, clock),
           \/ stage \in {"extract", "insert", "rollback"}
           \/ id \in Ids /\ Exists(id) /\ rows[id].type = new.type
    PROVE  \A v \in Workers :
             Keeps(v) \/ /\ req'[v] = [stage |-> stage, id |-> id,
                                       oldSlug |-> old, new |-> new]
                         /\ InFlightOK(req'[v])
<1>1. /\ req'[w] = [stage |-> stage, id |-> id, oldSlug |-> old, new |-> new]
      /\ \A v \in Workers \ {w} : req'[v] = req[v]
  BY DEF TypeOK, Begin
<1>2. InFlightOK(req'[w])
  BY <1>1 DEF InFlightOK, Exists
<1>3. QED
  BY <1>1, <1>2 DEF Keeps

LEMMA HandlerInv ==
    ASSUME IInv, NEW w \in Handlers, HandlerStep(w)
    PROVE  IInv'
<1> USE DEF At
<1>0. TypeOK /\ TypeOK' /\ w \in Workers
  BY HandlerTypes DEF IInv, Workers
<1>1. CASE UpdateRead(w)
  <2>1. PICK id \in Ids, f \in Form :
          /\ Exists(id)
          /\ Begin(w, "update", id, rows[id].slug,
                   FormUpdated(rows[id], f, clock))
    BY <1>1 DEF UpdateRead
  <2>2. /\ FormUpdated(rows[id], f, clock) \in Row
        /\ Consistent(FormUpdated(rows[id], f, clock), clock)
        /\ rows[id].type = FormUpdated(rows[id], f, clock).type
    BY <1>0, <2>1, ReadRows, ClockTypes, FormUpdatedConsistent
    DEF IInv, Lifecycle
  <2>3. \A v \in Workers : Keeps(v) \/ InFlightOK(req'[v])
    BY <1>0, <2>1, <2>2, BeginKeeps
  <2>4. QED
    BY <1>0, <1>1, <2>3, NoRowStep DEF UpdateRead
<1>2. CASE UpdateWrite(w)
  <2>1. /\ InFlightOK(req[w]) /\ Exists(req[w].id)
        /\ Store(req[w].id, req[w].new)
    BY <1>0, <1>2, BusyRequest DEF UpdateWrite, CanOverwrite
  <2>2. /\ req[w].id \in Ids /\ req[w].new \in Row
        /\ Consistent(req[w].new, clock)
        /\ rows[req[w].id].type = req[w].new.type
    BY <1>2, <2>1 DEF UpdateWrite, InFlightOK
  <2>3. \A v \in Workers : Keeps(v)
    BY <1>0, <1>2, FinishKeeps, ContinueKeeps, StagesListed DEF UpdateWrite
  <2>4. QED
    BY <1>0, <1>2, <2>1, <2>2, <2>3, StoreStep DEF UpdateWrite
<1>3. CASE UpdateRedirect(w) \/ UpdateMove(w) \/ DeleteRemove(w)
           \/ UploadExtract(w) \/ UploadReject(w)
           \/ UploadDuplicate(w) \/ UploadRollback(w)
  <2>1. \/ Finish(w)
        \/ req[w].stage = "redirect" /\ Continue(w, "move")
        \/ req[w].stage = "extract" /\ Continue(w, "insert")
        \/ req[w].stage = "insert" /\ Continue(w, "rollback")
    BY <1>3 DEF UpdateRedirect, AfterRedirect, UpdateMove, DeleteRemove,
       UploadExtract, UploadReject, UploadDuplicate, UploadRollback
  <2>2. \A v \in Workers : Keeps(v)
    BY <1>0, <2>1, FinishKeeps, ContinueKeeps, StagesListed
  <2>3. UNCHANGED <<rows, due, clock>>
    BY <1>3 DEF UpdateRedirect, UpdateMove, DeleteRemove,
       UploadExtract, UploadReject, UploadDuplicate, UploadRollback
  <2>4. QED
    BY <1>0, <2>2, <2>3, NoRowStep
<1>4. CASE DeleteRead(w)
  <2>1. PICK id \in Ids : /\ Exists(id)
                          /\ Begin(w, "delete", id, rows[id].slug, rows[id])
    BY <1>4 DEF DeleteRead
  <2>2. rows[id] \in Row /\ Consistent(rows[id], clock)
    BY <1>0, <2>1, ReadRows DEF IInv, Lifecycle
  <2>3. \A v \in Workers : Keeps(v) \/ InFlightOK(req'[v])
    BY <1>0, <2>1, <2>2, BeginKeeps
  <2>4. QED
    BY <1>0, <1>4, <2>3, NoRowStep DEF DeleteRead
<1>5. CASE DeleteWrite(w)
  <2>1. \A v \in Workers : Keeps(v)
    BY <1>0, <1>5, FinishKeeps, ContinueKeeps, StagesListed DEF DeleteWrite
  <2>2. QED
    BY <1>0, <1>5, <2>1, EraseStep DEF DeleteWrite
<1>6. CASE UploadClear(w)
  <2>1. PICK f \in Form : Begin(w, "extract", NoId, f.slug, Uploaded(f))
    BY <1>6 DEF UploadClear
  <2>2. Uploaded(f) \in Row /\ Consistent(Uploaded(f), clock)
    BY <1>0, ClockTypes, UploadedConsistent
  <2>3. \A v \in Workers : Keeps(v) \/ InFlightOK(req'[v])
    BY <1>0, <2>1, <2>2, BeginKeeps
  <2>4. QED
    BY <1>0, <1>6, <2>3, NoRowStep DEF UploadClear
<1>7. CASE UploadInsert(w)
  <2>1. InFlightOK(req[w])
    BY <1>0, <1>7, BusyRequest DEF UploadInsert
  <2>2. PICK id \in Ids : rows[id] = NoRow /\ Store(id, req[w].new)
    BY <1>7 DEF UploadInsert, CanInsert
  <2>3. req[w].new \in Row /\ Consistent(req[w].new, clock)
    BY <2>1 DEF InFlightOK
  <2>4. \A v \in Workers : Keeps(v)
    BY <1>0, <1>7, FinishKeeps DEF UploadInsert
  <2>5. QED
    BY <1>0, <1>7, <2>2, <2>3, <2>4, StoreStep DEF UploadInsert
<1>8. QED
  BY <1>1, <1>2, <1>3, <1>4, <1>5, <1>6, <1>7 DEF HandlerStep

LEMMA McpInv ==
    ASSUME IInv, NEW w \in McpCalls, McpStep(w)
    PROVE  IInv'
<1>0. TypeOK /\ TypeOK' /\ w \in Workers
  BY McpTypes DEF IInv, Workers
<1>1. ASSUME NEW id \in Ids, Exists(id)
      PROVE  rows[id] \in Row /\ Consistent(rows[id], clock)
             /\ clock \in 1..MaxTime /\ clock \in Nat
  BY <1>0, <1>1, ReadRows, ClockTypes DEF IInv, Lifecycle
<1>2. CASE McpUpdateRead(w)
  <2>1. PICK id \in Ids, slug \in AnySlug, body \in Bodies :
          /\ Exists(id)
          /\ Begin(w, "patch", id, rows[id].slug,
                   McpPatched(rows[id], slug, body))
    BY <1>2 DEF McpUpdateRead
  <2>2. /\ McpPatched(rows[id], slug, body) \in Row
        /\ Consistent(McpPatched(rows[id], slug, body), clock)
        /\ rows[id].type = McpPatched(rows[id], slug, body).type
    BY <1>1, <2>1, McpPatchedConsistent
  <2>3. \A v \in Workers : Keeps(v) \/ InFlightOK(req'[v])
    BY <1>0, <2>1, <2>2, BeginKeeps
  <2>4. QED
    BY <1>0, <1>2, <2>3, NoRowStep DEF McpUpdateRead
<1>3. CASE SetStatusRead(w)
  <2>1. PICK id \in Ids, status \in Statuses, at \in Time :
          /\ Exists(id)
          /\ Begin(w, "status", id, rows[id].slug,
                   McpStatusSet(rows[id], status, at, clock))
    BY <1>3 DEF SetStatusRead
  <2>2. /\ McpStatusSet(rows[id], status, at, clock) \in Row
        /\ Consistent(McpStatusSet(rows[id], status, at, clock), clock)
        /\ rows[id].type = McpStatusSet(rows[id], status, at, clock).type
    BY <1>1, <2>1, McpStatusSetConsistent
  <2>3. \A v \in Workers : Keeps(v) \/ InFlightOK(req'[v])
    BY <1>0, <2>1, <2>2, BeginKeeps
  <2>4. QED
    BY <1>0, <1>3, <2>3, NoRowStep DEF SetStatusRead
<1>4. CASE SetVisibilityRead(w)
  <2>1. PICK id \in Ids, v \in Visibilities :
          /\ Exists(id)
          /\ Begin(w, "visibility", id, rows[id].slug,
                   McpVisibilitySet(rows[id], v))
    BY <1>4 DEF SetVisibilityRead
  <2>2. /\ McpVisibilitySet(rows[id], v) \in Row
        /\ Consistent(McpVisibilitySet(rows[id], v), clock)
        /\ rows[id].type = McpVisibilitySet(rows[id], v).type
    BY <1>1, <2>1, McpVisibilitySetConsistent
  <2>3. \A u \in Workers : Keeps(u) \/ InFlightOK(req'[u])
    BY <1>0, <2>1, <2>2, BeginKeeps
  <2>4. QED
    BY <1>0, <1>4, <2>3, NoRowStep DEF SetVisibilityRead
<1>5. CASE McpWrite(w)
  <2>1. /\ InFlightOK(req[w]) /\ Exists(req[w].id)
        /\ Store(req[w].id, req[w].new)
    BY <1>0, <1>5, BusyRequest DEF McpWrite, CanOverwrite
  <2>2. /\ req[w].id \in Ids /\ req[w].new \in Row
        /\ Consistent(req[w].new, clock)
        /\ rows[req[w].id].type = req[w].new.type
    BY <1>5, <2>1 DEF McpWrite, InFlightOK
  <2>3. \A v \in Workers : Keeps(v)
    BY <1>0, <1>5, FinishKeeps DEF McpWrite
  <2>4. QED
    BY <1>0, <1>5, <2>1, <2>2, <2>3, StoreStep DEF McpWrite
<1>6. QED
  BY <1>2, <1>3, <1>4, <1>5 DEF McpStep

LEMMA SystemInv ==
    ASSUME IInv, SystemStep
    PROVE  IInv'
<1>0. TypeOK /\ TypeOK'
  BY SystemTypes DEF IInv
<1>1. \A v \in Workers : req' = req => Keeps(v)
  BY DEF Keeps
<1>2. CASE Create
  <2>1. PICK id \in Ids, f \in Form :
          rows[id] = NoRow /\ Store(id, FormCreated(f, clock))
    BY <1>2 DEF Create, CanInsert
  <2>2. /\ FormCreated(f, clock) \in Row
        /\ Consistent(FormCreated(f, clock), clock)
    BY <1>0, ClockTypes, FormCreatedConsistent
  <2>3. QED
    BY <1>0, <1>1, <1>2, <2>1, <2>2, StoreStep DEF Create
<1>3. CASE McpCreate
  <2>1. PICK id \in Ids, f \in Form :
          rows[id] = NoRow /\ Store(id, McpCreated(f, clock))
    BY <1>3 DEF McpCreate, CanInsert
  <2>2. /\ McpCreated(f, clock) \in Row
        /\ Consistent(McpCreated(f, clock), clock)
    BY <1>0, ClockTypes, McpCreatedConsistent
  <2>3. QED
    BY <1>0, <1>1, <1>3, <2>1, <2>2, StoreStep DEF McpCreate
<1>4. CASE RedirectCreate \/ RedirectDelete
  BY <1>0, <1>1, <1>4, NoRowStep DEF RedirectCreate, RedirectDelete
<1>5. ASSUME NEW w \in Workers, WriteRefused(w)
      PROVE  IInv'
  <2>1. \A v \in Workers : Keeps(v)
    BY <1>0, <1>5, FinishKeeps DEF WriteRefused
  <2>2. QED
    BY <1>0, <1>5, <2>1, NoRowStep DEF WriteRefused
<1>6. ASSUME NEW w \in Workers, CallFails(w)
      PROVE  IInv'
  <2>1. \/ Finish(w)
        \/ req[w].stage = "redirect" /\ Continue(w, "move")
        \/ req[w].stage = "insert" /\ Continue(w, "rollback")
    BY <1>6 DEF CallFails, At, AfterRedirect
  <2>2. \A v \in Workers : Keeps(v)
    BY <1>0, <2>1, FinishKeeps, ContinueKeeps, StagesListed
  <2>3. QED
    BY <1>0, <1>6, <2>2, NoRowStep DEF CallFails
<1>7. CASE TickList
  <2>1. UNCHANGED <<rows, req, clock>> /\ due' = DueRows
    BY <1>7 DEF TickList
  <2>2. \A id : Exists(id)' <=> Exists(id)
    BY <2>1 DEF Exists
  <2>3. ASSUME NEW d \in due'
        PROVE  DueOK(d)'
    <3>1. PICK id \in Ids : /\ Exists(id) /\ DueAt(rows[id], clock)
                            /\ d = [id |-> id, row |-> rows[id]]
      BY <2>1, <2>3 DEF DueRows
    <3>2. /\ rows[id].publishAt \in 1..clock
          /\ Consistent(rows[id], clock)
      BY <1>0, <3>1, ReadRows, ClockTypes
      DEF DueAt, IInv, Lifecycle, Row, Time
    <3>3. QED
      BY <2>1, <2>2, <3>1, <3>2 DEF DueOK, Exists
  <2>4. Lifecycle'
    BY <2>1, <2>2 DEF IInv, Lifecycle
  <2>5. \A w \in Workers : Busy(w)' => InFlightOK(req[w])'
    BY <2>1, <2>2 DEF IInv, Busy, InFlightOK
  <2>6. QED
    BY <1>0, <2>3, <2>4, <2>5 DEF IInv
<1>8. CASE TickPublish
  <2>1. PICK d \in due : /\ CanOverwrite(d.id, Launched(d.row))
                         /\ Store(d.id, Launched(d.row))
                         /\ due' = due \ {d}
                         /\ UNCHANGED <<redirects, dirs, req, clock, faults>>
    BY <1>8 DEF TickPublish
  <2>2. /\ d.id \in Ids
        /\ Launched(d.row) \in Row /\ Consistent(Launched(d.row), clock)
        /\ Launched(d.row).type = d.row.type
    BY LaunchedRow
  <2>3. Exists(d.id) /\ rows[d.id].type = Launched(d.row).type
    BY <2>1, <2>2 DEF CanOverwrite, IInv, DueOK
  <2>4. QED
    BY <1>0, <1>1, <2>1, <2>2, <2>3, StoreStep
<1>9. CASE TickAbort
  <2>1. UNCHANGED <<rows, req, clock>> /\ due' = {}
    BY <1>9 DEF TickAbort
  <2>2. \A id : Exists(id)' <=> Exists(id)
    BY <2>1 DEF Exists
  <2>3. QED
    BY <1>0, <2>1, <2>2 DEF IInv, Lifecycle, Busy, InFlightOK
<1>10. CASE Crash
  <2>1. /\ UNCHANGED <<rows, clock>> /\ due' = {}
        /\ req' = [w \in Workers |-> IF w \in Handlers THEN Idle ELSE req[w]]
    BY <1>10 DEF Crash
  <2>2. \A id : Exists(id)' <=> Exists(id)
    BY <2>1 DEF Exists
  <2>3. ASSUME NEW w \in Workers, Busy(w)'
        PROVE  InFlightOK(req[w])'
    <3>1. req'[w] = req[w] /\ Busy(w)
      BY <2>1, <2>3 DEF Busy
    <3>2. InFlightOK(req[w])
      BY <3>1 DEF IInv
    <3>3. QED
      BY <2>1, <2>2, <3>1, <3>2 DEF InFlightOK
  <2>4. Lifecycle'
    BY <2>1, <2>2 DEF IInv, Lifecycle
  <2>5. QED
    BY <1>0, <2>1, <2>3, <2>4 DEF IInv
<1>11. CASE ClockTick
  BY <1>0, <1>11, ClockStep
<1>12. ASSUME NEW w \in Workers, ReplyLost(w)
       PROVE  IInv'
  <2>1. InFlightOK(req[w]) /\ req[w].stage # "idle"
    BY <1>0, <1>12, BusyRequest DEF ReplyLost, At
  <2>2. req[w].new \in Row /\ Consistent(req[w].new, clock)
    BY <2>1 DEF InFlightOK
  <2>3. UNCHANGED <<due, clock>>
    BY <1>12 DEF ReplyLost
  <2>4. CASE /\ req[w].stage \in {"update", "patch", "status", "visibility"}
             /\ CanOverwrite(req[w].id, req[w].new)
             /\ Store(req[w].id, req[w].new)
             /\ Finish(w)
    <3>1. /\ req[w].id \in Ids /\ Exists(req[w].id)
          /\ rows[req[w].id].type = req[w].new.type
      BY <2>1, <2>4 DEF InFlightOK, CanOverwrite
    <3>2. \A v \in Workers : Keeps(v)
      BY <1>0, <2>4, FinishKeeps
    <3>3. QED
      BY <1>0, <2>2, <2>3, <2>4, <3>1, <3>2, StoreStep
  <2>5. CASE Erase(req[w].id) /\ Finish(w)
    <3>1. \A v \in Workers : Keeps(v)
      BY <1>0, <2>5, FinishKeeps
    <3>2. QED
      BY <1>0, <2>3, <2>5, <3>1, EraseStep
  <2>6. CASE /\ req[w].stage = "insert"
             /\ \E id \in Ids : CanInsert(id, req[w].new) /\ Store(id, req[w].new)
             /\ Continue(w, "rollback")
    <3>1. PICK id \in Ids : rows[id] = NoRow /\ Store(id, req[w].new)
      BY <2>6 DEF CanInsert
    <3>2. \A v \in Workers : Keeps(v)
      BY <1>0, <2>6, ContinueKeeps, StagesListed
    <3>3. QED
      BY <1>0, <2>2, <2>3, <3>1, <3>2, StoreStep
  <2>7. QED
    BY <1>12, <2>4, <2>5, <2>6 DEF ReplyLost, At
<1>13. CASE TickReplyLost
  <2>1. PICK d \in due : /\ CanOverwrite(d.id, Launched(d.row))
                         /\ Store(d.id, Launched(d.row))
    BY <1>13 DEF TickReplyLost
  <2>2. due' \subseteq due /\ UNCHANGED <<req, clock>>
    BY <1>13 DEF TickReplyLost
  <2>3. /\ d.id \in Ids
        /\ Launched(d.row) \in Row /\ Consistent(Launched(d.row), clock)
        /\ Launched(d.row).type = d.row.type
    BY LaunchedRow
  <2>4. Exists(d.id) /\ rows[d.id].type = Launched(d.row).type
    BY <2>1, <2>3 DEF CanOverwrite, IInv, DueOK
  <2>5. QED
    BY <1>0, <1>1, <2>1, <2>2, <2>3, <2>4, StoreStep
<1>14. QED
  BY <1>2, <1>3, <1>4, <1>5, <1>6, <1>7, <1>8, <1>9, <1>10, <1>11, <1>12, <1>13
  DEF SystemStep

LEMMA NextInv == IInv /\ [Next]_vars => IInv'
<1> SUFFICES ASSUME IInv, [Next]_vars PROVE IInv'
  OBVIOUS
<1>1. CASE Next
  BY <1>1, NextSplit, SystemInv, HandlerInv, McpInv
<1>2. CASE UNCHANGED vars
  BY <1>2 DEF vars, IInv, TypeOK, Lifecycle, Exists, Busy, InFlightOK, DueOK
<1>3. QED
  BY <1>1, <1>2

\* The inductive invariant: whatever requests and ticks hold or have stored is
\* a consistent row, however stale.
THEOREM Inductive == Spec => []IInv
BY InitInv, NextInv, PTL DEF Spec

\* Every variable keeps its type, through every store call and every file
\* operation of the admin handlers, the MCP tools and the scheduler.
THEOREM TypeCorrect == Spec => []TypeOK
<1>1. IInv => TypeOK
  BY DEF IInv
<1>2. QED
  BY <1>1, Inductive, PTL

\* Every stored article is consistent, whatever interleaving of stale full-row
\* writes produced it (stampPublishedAt, Publisher.Tick, UpdateArticle).
THEOREM LifecycleCorrect == Spec => []Lifecycle
<1>1. IInv => Lifecycle
  BY DEF IInv
<1>2. QED
  BY <1>1, Inductive, PTL

-----------------------------------------------------------------------------
(* What a step does to the table *)

Inserts(id, a) == rows[id] = NoRow

Overwrites(id, a) == Exists(id) /\ rows[id].type = a.type

\* A step writes at most one row: it erases it, inserts it, or overwrites it
\* with one of the same type; and the slug it writes is free.
LEMMA TableStep ==
    ASSUME IInv, Next
    PROVE  \/ UNCHANGED rows
           \/ \E id \in Ids : Erase(id)
           \/ \E id \in Ids, a \in Row :
                /\ Store(id, a) /\ SlugFree(a.slug, id)
                /\ Inserts(id, a) \/ Overwrites(id, a)
<1> DEFINE Goal == \/ UNCHANGED rows
                   \/ \E id \in Ids : Erase(id)
                   \/ \E id \in Ids, a \in Row :
                        /\ Store(id, a) /\ SlugFree(a.slug, id)
                        /\ Inserts(id, a) \/ Overwrites(id, a)
<1> USE DEF At, Inserts, Overwrites
<1>0. TypeOK /\ Handlers \subseteq Workers /\ McpCalls \subseteq Workers
  BY DEF IInv, Workers
<1>1. ASSUME NEW id \in Ids, NEW a \in Row, CanInsert(id, a), Store(id, a)
      PROVE  Goal
  BY <1>1 DEF CanInsert
<1>2. CASE Create
  BY <1>0, <1>1, <1>2, ClockTypes, FormCreatedConsistent DEF Create
<1>3. CASE McpCreate
  BY <1>0, <1>1, <1>3, ClockTypes, McpCreatedConsistent DEF McpCreate
<1>4. ASSUME NEW w \in Handlers, HandlerStep(w)
      PROVE  Goal
  <2>1. CASE UpdateWrite(w)
    <3>1. InFlightOK(req[w])
      BY <1>0, <2>1, BusyRequest DEF UpdateWrite
    <3>2. QED
      BY <2>1, <3>1 DEF UpdateWrite, CanOverwrite, InFlightOK
  <2>2. CASE DeleteWrite(w)
    <3>1. InFlightOK(req[w])
      BY <1>0, <2>2, BusyRequest DEF DeleteWrite
    <3>2. QED
      BY <2>2, <3>1 DEF DeleteWrite, InFlightOK
  <2>3. CASE UploadInsert(w)
    <3>1. req[w].new \in Row
      BY <1>0, <2>3, BusyRequest DEF UploadInsert, InFlightOK
    <3>2. QED
      BY <1>1, <2>3, <3>1 DEF UploadInsert
  <2>4. CASE ~(UpdateWrite(w) \/ DeleteWrite(w) \/ UploadInsert(w))
    BY <1>4, <2>4 DEF HandlerStep, UpdateRead, UpdateRedirect, UpdateMove,
       DeleteRead, DeleteRemove, UploadClear, UploadExtract, UploadReject,
       UploadDuplicate, UploadRollback
  <2>5. QED
    BY <2>1, <2>2, <2>3, <2>4
<1>5. ASSUME NEW w \in McpCalls, McpStep(w)
      PROVE  Goal
  <2>1. CASE McpWrite(w)
    <3>1. InFlightOK(req[w])
      BY <1>0, <2>1, BusyRequest DEF McpWrite
    <3>2. QED
      BY <2>1, <3>1 DEF McpWrite, CanOverwrite, InFlightOK
  <2>2. CASE ~McpWrite(w)
    BY <1>5, <2>2
    DEF McpStep, McpUpdateRead, SetStatusRead, SetVisibilityRead
  <2>3. QED
    BY <2>1, <2>2
<1>6. CASE TickPublish
  <2>1. PICK d \in due : /\ CanOverwrite(d.id, Launched(d.row))
                         /\ Store(d.id, Launched(d.row))
    BY <1>6 DEF TickPublish
  <2>2. /\ d.id \in Ids /\ Launched(d.row) \in Row
        /\ Launched(d.row).type = d.row.type
    BY LaunchedRow
  <2>3. Exists(d.id) /\ rows[d.id].type = Launched(d.row).type
    BY <2>1, <2>2 DEF CanOverwrite, IInv, DueOK
  <2>4. QED
    BY <2>1, <2>2, <2>3 DEF CanOverwrite
<1>7. ASSUME NEW w \in Workers, WriteRefused(w) \/ CallFails(w)
      PROVE  UNCHANGED rows
  BY <1>7 DEF WriteRefused, CallFails
<1>11. ASSUME NEW w \in Workers, ReplyLost(w)
       PROVE  Goal
  <2>1. req[w].stage # "idle" /\ InFlightOK(req[w])
    BY <1>0, <1>11, BusyRequest DEF ReplyLost
  <2>2. CASE /\ req[w].stage \in {"update", "patch", "status", "visibility"}
             /\ CanOverwrite(req[w].id, req[w].new) /\ Store(req[w].id, req[w].new)
    BY <2>1, <2>2 DEF CanOverwrite, InFlightOK
  <2>3. CASE req[w].stage = "delete" /\ Erase(req[w].id)
    BY <2>1, <2>3 DEF InFlightOK
  <2>4. CASE \E id \in Ids : CanInsert(id, req[w].new) /\ Store(id, req[w].new)
    BY <1>1, <2>1, <2>4 DEF InFlightOK
  <2>5. QED
    BY <1>11, <2>2, <2>3, <2>4 DEF ReplyLost
<1>12. CASE TickReplyLost
  <2>1. PICK d \in due : /\ CanOverwrite(d.id, Launched(d.row))
                         /\ Store(d.id, Launched(d.row))
    BY <1>12 DEF TickReplyLost
  <2>2. /\ d.id \in Ids /\ Launched(d.row) \in Row
        /\ Launched(d.row).type = d.row.type
    BY LaunchedRow
  <2>3. Exists(d.id) /\ rows[d.id].type = Launched(d.row).type
    BY <2>1, <2>2 DEF CanOverwrite, IInv, DueOK
  <2>4. QED
    BY <2>1, <2>2, <2>3 DEF CanOverwrite
<1>8. CASE \/ RedirectCreate \/ RedirectDelete \/ TickList \/ TickAbort
           \/ Crash \/ ClockTick
  BY <1>8 DEF RedirectCreate, RedirectDelete, TickList, TickAbort, Crash,
     ClockTick
<1>9. Goal
  BY <1>2, <1>3, <1>4, <1>5, <1>6, <1>7, <1>8, <1>11, <1>12 DEF Next
<1>10. QED
  BY <1>9

-----------------------------------------------------------------------------
(* Unique slugs, and the identity of an article *)

\* No two articles answer to the same URL.
UniqueSlugs ==
    \A i, j \in Ids :
      Exists(i) /\ Exists(j) /\ rows[i].slug = rows[j].slug => i = j

LEMMA InitUnique == Init => UniqueSlugs
BY DEF Init, UniqueSlugs, Exists

LEMMA UniqueStep == IInv /\ UniqueSlugs /\ [Next]_vars => UniqueSlugs'
<1> SUFFICES ASSUME IInv, UniqueSlugs, [Next]_vars PROVE UniqueSlugs'
  OBVIOUS
<1>0. DOMAIN rows = Ids
  BY DEF IInv, TypeOK
<1>1. CASE UNCHANGED rows
  BY <1>1 DEF UniqueSlugs, Exists
<1>2. ASSUME NEW id \in Ids, Erase(id)
      PROVE  UniqueSlugs'
  BY <1>0, <1>2 DEF Erase, UniqueSlugs, Exists
<1>3. ASSUME NEW id \in Ids, NEW a \in Row, Store(id, a), SlugFree(a.slug, id)
      PROVE  UniqueSlugs'
  <2>1. rows'[id] = a /\ \A i \in Ids \ {id} : rows'[i] = rows[i]
    BY <1>0, <1>3 DEF Store
  <2>2. SUFFICES ASSUME NEW i \in Ids, NEW j \in Ids, Exists(i)', Exists(j)',
                        rows'[i].slug = rows'[j].slug
                 PROVE  i = j
    BY DEF UniqueSlugs
  <2>3. CASE i # id /\ j # id
    BY <2>1, <2>2, <2>3 DEF UniqueSlugs, Exists
  <2>4. CASE i = id /\ j # id
    BY <1>3, <2>1, <2>2, <2>4 DEF SlugFree, Exists
  <2>5. CASE i # id /\ j = id
    BY <1>3, <2>1, <2>2, <2>5 DEF SlugFree, Exists
  <2>6. QED
    BY <2>3, <2>4, <2>5
<1>4. CASE UNCHANGED vars
  BY <1>1, <1>4 DEF vars
<1>5. QED
  BY <1>1, <1>2, <1>3, <1>4, TableStep

\* No two articles ever share a slug: the UNIQUE constraint, which what is proved
\* about files and URLs rests on.
LEMMA SlugsUnique == Spec => []UniqueSlugs
BY InitUnique, UniqueStep, Inductive, PTL DEF Spec

\* The two halves of IdentityKept for one article.
Identity(id) ==
    /\ rows[id] = Deleted => rows'[id] = Deleted
    /\ Exists(id) /\ rows'[id] # Deleted =>
         Exists(id)' /\ rows'[id].type = rows[id].type

LEMMA IdentityStep == IInv /\ [Next]_vars => [\A id \in Ids : Identity(id)]_vars
<1> SUFFICES ASSUME IInv, Next, NEW id \in Ids PROVE Identity(id)
  BY DEF Identity
<1>0. DOMAIN rows = Ids /\ Deleted # NoRow
  BY PublishingAssumption DEF PublishingAssumption, IInv, TypeOK
<1>1. CASE UNCHANGED rows
  BY <1>1 DEF Identity, Exists
<1>2. ASSUME NEW i \in Ids, Erase(i)
      PROVE  Identity(id)
  BY <1>0, <1>2 DEF Erase, Identity, Exists
<1>3. ASSUME NEW i \in Ids, NEW a \in Row, Store(i, a),
             Inserts(i, a) \/ Overwrites(i, a)
      PROVE  Identity(id)
  <2>1. rows'[i] = a /\ \A j \in Ids \ {i} : rows'[j] = rows[j]
    BY <1>0, <1>3 DEF Store
  <2>2. a \notin {NoRow, Deleted}
    BY PublishingAssumption DEF PublishingAssumption
  <2>3. CASE id # i
    BY <2>1, <2>3 DEF Identity, Exists
  <2>4. CASE id = i
    BY <1>0, <1>3, <2>1, <2>2, <2>4 DEF Identity, Exists, Inserts, Overwrites
  <2>5. QED
    BY <2>3, <2>4
<1>4. QED
  BY <1>1, <1>2, <1>3, TableStep

\* A deleted article is not brought back by a request or tick that still holds
\* its row, and an article keeps its type (UPDATE .. WHERE id).
THEOREM IdentityCorrect == Spec => IdentityKept
<1>1. IInv /\ [Next]_vars => [\A id \in Ids : Identity(id)]_vars
  BY IdentityStep
<1>2. Spec => [][\A id \in Ids : Identity(id)]_vars
  BY <1>1, Inductive, PTL DEF Spec
<1>3. QED
  BY <1>2 DEF IdentityKept, Identity
=============================================================================
