---------------------------- MODULE PgStoreProofs ----------------------------
(***************************************************************************)
(* Theorems about PgStore: its types, the calls of several statements (the *)
(* settings form, the creation of the admin, RenameTag), that its steps,   *)
(* failed statements included, are steps of Repository, and that its reads *)
(* return what Repository's do.                                            *)
(***************************************************************************)
EXTENDS PgStore, Induction, FiniteSetTheorems, SequenceTheorems, TLAPS

Forms == [Keys -> Values \cup {Unset}]

JobOK ==
    \/ job = NoJob
    \/ job \in [op : {"save"}, form : Forms, left : Seq(Keys) \ {<<>>}]
    \/ "op" \in DOMAIN job /\ job.op = "rename"

\* What a save has written so far.
SavedSoFar ==
    job.op = "save" => \A k \in Keys \ Range(job.left) : settings[k] = job.form[k]

AdminBeforeServers ==
    \A s \in Servers : servers[s] = "up" => Admin \in DOMAIN users

IInv ==
    /\ settings \in Forms
    /\ servers \in [Servers -> {"down", "creating", "up"}]
    /\ JobOK /\ SavedSoFar /\ AdminBeforeServers

-----------------------------------------------------------------------------
(* The inductive invariant *)

LEMMA InitIInv ==
    ASSUME Init PROVE IInv
BY DEF Init, IInv, Forms, JobOK, NoJob, SavedSoFar, AdminBeforeServers

\* Whatever a step writes to the articles, the redirects and the reply.
LEMMA FrameStep ==
    ASSUME IInv, UNCHANGED <<users, settings, job, servers>> PROVE IInv'
BY DEF IInv, JobOK, SavedSoFar, AdminBeforeServers

\* A rename goes on, or a call ends.
LEMMA RenameStep ==
    ASSUME IInv, UNCHANGED <<users, settings, servers>>,
           "op" \in DOMAIN job', job'.op = "rename"
    PROVE  IInv'
BY DEF IInv, JobOK, SavedSoFar, AdminBeforeServers

LEMMA EndStep ==
    ASSUME IInv, UNCHANGED <<users, settings, servers>>, job' = NoJob PROVE IInv'
<1>1. JobOK' /\ SavedSoFar'
  BY DEF JobOK, SavedSoFar, NoJob
<1> QED
  BY <1>1 DEF IInv, AdminBeforeServers

LEMMA RenameListStep ==
    ASSUME IInv, NEW from, NEW to, RenameList(from, to) PROVE IInv'
<1>1. CASE UNCHANGED <<users, settings, job, servers>>
  BY <1>1, FrameStep
<1>2. CASE ~UNCHANGED <<users, settings, job, servers>>
  <2>1. /\ "op" \in DOMAIN job' /\ job'.op = "rename"
        /\ UNCHANGED <<users, settings, servers>>
    BY <1>2 DEF RenameList, RenameTag, Refused, Articles
  <2> QED
    BY <2>1, RenameStep
<1> QED
  BY <1>1, <1>2

LEMMA RenameWriteStep ==
    ASSUME IInv, RenameWrite PROVE IInv'
<1>1. "op" \in DOMAIN job
  BY DEF RenameWrite, IInv, JobOK, NoJob
<1>2. "op" \in DOMAIN job' /\ job'.op = "rename"
  BY <1>1 DEF RenameWrite
<1> QED
  BY <1>2, RenameStep DEF RenameWrite

LEMMA SaveStartStep ==
    ASSUME IInv, NEW form \in Forms, SaveStart(form) PROVE IInv'
<1>1. job' = [op |-> "save", form |-> form, left |-> KeyOrder]
  BY DEF SaveStart
<1>2. JobOK'
  BY <1>1, PgStoreAssumption DEF JobOK
<1>3. SavedSoFar'
  BY <1>1, PgStoreAssumption DEF SavedSoFar
<1> QED
  BY <1>2, <1>3 DEF SaveStart, IInv, AdminBeforeServers

LEMMA Shorter ==
    ASSUME NEW S, NEW s \in Seq(S), s # <<>>
    PROVE  /\ Tail(s) \in Seq(S) /\ Head(s) \in S
           /\ Range(s) \subseteq {Head(s)} \cup Range(Tail(s))
           /\ Len(s) # 1 => Tail(s) # <<>>
           /\ Len(s) = 1 => Range(s) = {Head(s)}
<1>1. Tail(s) \in Seq(S) /\ Head(s) \in S /\ Len(Tail(s)) = Len(s) - 1 /\ Len(s) \in Nat \ {0}
  OBVIOUS
<1>2. ASSUME NEW i \in DOMAIN s PROVE s[i] \in {Head(s)} \cup Range(Tail(s))
  <2>1. CASE i = 1
    BY <2>1
  <2>2. CASE i # 1
    <3>1. i - 1 \in DOMAIN Tail(s) /\ Tail(s)[i - 1] = s[i]
      BY <1>1, <2>2
    <3> QED
      BY <3>1 DEF Range
  <2> QED
    BY <2>1, <2>2
<1>3. Range(s) \subseteq {Head(s)} \cup Range(Tail(s))
  BY <1>2 DEF Range
<1>4. Len(s) = 1 => Range(s) = {Head(s)}
  BY DEF Range
<1>5. ASSUME Len(s) # 1, Tail(s) = <<>> PROVE FALSE
  <2> DEFINE t == Tail(s)
  <2>1. t \in Seq(S) /\ Len(t) # 0
    BY <1>1, <1>5
  <2>2. t = <<>>
    BY <1>5
  <2> HIDE DEF t
  <2> QED
    BY <2>1, <2>2
<1> QED
  BY <1>1, <1>3, <1>4, <1>5

\* One key more is as the form has it.
LEMMA SaveWriteStep ==
    ASSUME IInv, SaveWrite
    PROVE  IInv' /\ (job' = NoJob => settings' = job.form)
<1> DEFINE key == Head(job.left)
<1>1. job \in [op : {"save"}, form : Forms, left : Seq(Keys) \ {<<>>}]
  BY DEF SaveWrite, IInv, JobOK, NoJob
<1>2. /\ key \in Keys /\ Tail(job.left) \in Seq(Keys)
      /\ Range(job.left) \subseteq {key} \cup Range(Tail(job.left))
      /\ Len(job.left) # 1 => Tail(job.left) # <<>>
      /\ Len(job.left) = 1 => Range(job.left) = {key}
  BY <1>1, Shorter
<1>3. settings' = [settings EXCEPT ![key] = job.form[key]] /\ settings' \in Forms
  BY <1>1, <1>2 DEF SaveWrite, IInv, Forms
<1> HIDE DEF key
<1>4. \A k \in Keys \ Range(job.left) : settings[k] = job.form[k]
  BY <1>1 DEF IInv, SavedSoFar
<1>5. \A k \in (Keys \ Range(job.left)) \cup {key} : settings'[k] = job.form[k]
  BY <1>2, <1>3, <1>4 DEF IInv, Forms
<1>6. CASE Len(job.left) = 1
  <2>1. job' = NoJob
    BY <1>6 DEF SaveWrite
  <2>2. settings' = job.form
    BY <1>1, <1>2, <1>3, <1>5, <1>6 DEF Forms
  <2>3. JobOK' /\ SavedSoFar'
    BY <2>1 DEF JobOK, SavedSoFar, NoJob
  <2> QED
    BY <1>3, <2>2, <2>3 DEF SaveWrite, IInv, AdminBeforeServers
<1>7. CASE Len(job.left) # 1
  <2>1. job' = [job EXCEPT !.left = Tail(@)]
    BY <1>7 DEF SaveWrite
  <2>2. job' \in [op : {"save"}, form : Forms, left : Seq(Keys) \ {<<>>}]
    BY <1>1, <1>2, <1>7, <2>1
  <2>3. job'.form = job.form /\ job'.left = Tail(job.left)
    BY <1>1, <2>1
  <2>4. SavedSoFar'
    BY <1>2, <1>5, <2>3 DEF SavedSoFar
  <2>5. job' # NoJob
    BY <2>2 DEF NoJob
  <2> QED
    BY <1>3, <2>2, <2>4, <2>5 DEF SaveWrite, IInv, JobOK, AdminBeforeServers
<1> QED
  BY <1>6, <1>7

\* A server is up only once the admin is there.
LEMMA BootStep ==
    ASSUME IInv, NEW s \in Servers, BootLook(s) \/ BootCreate(s) \/ ServerStops(s) PROVE IInv'
<1>1. UNCHANGED <<settings, job>>
  BY DEF BootLook, BootCreate, ServerStops
<1>2. servers' \in [Servers -> {"down", "creating", "up"}]
  BY DEF BootLook, BootCreate, ServerStops, IInv
<1>3. Admin \in DOMAIN users => Admin \in DOMAIN users'
  BY DEF BootLook, BootCreate, ServerStops
<1>4. AdminBeforeServers'
  <2>1. CASE BootLook(s)
    BY <2>1 DEF BootLook, IInv, AdminBeforeServers
  <2>2. CASE BootCreate(s)
    BY <2>2, <1>3 DEF BootCreate, IInv, AdminBeforeServers
  <2>3. CASE ServerStops(s)
    BY <2>3 DEF ServerStops, IInv, AdminBeforeServers
  <2> QED
    BY <2>1, <2>2, <2>3
<1> QED
  BY <1>1, <1>2, <1>4 DEF IInv, JobOK, SavedSoFar

LEMMA NextIInv ==
    ASSUME IInv, [Next]_vars PROVE IInv'
<1>1. CASE \E a \in Row : CreateArticle(a) \/ \E id \in 1..MaxIds : UpdateArticle(id, a)
  <2>1. UNCHANGED <<users, settings, job, servers>>
    BY <1>1 DEF CreateArticle, UpdateArticle, Refused, Articles
  <2> QED
    BY <2>1, FrameStep
<1>2. CASE \E id \in 1..MaxIds : DeleteArticle(id)
  BY <1>2, FrameStep DEF DeleteArticle, Articles
<1>3. CASE \E from, to \in Tags \cup {NoTag} : RenameList(from, to)
  BY <1>3, RenameListStep
<1>4. CASE RenameWrite
  BY <1>4, RenameWriteStep
<1>5. CASE RenameReturn \/ Fails
  <2>1. UNCHANGED <<users, settings, servers>>
    BY <1>5 DEF RenameReturn, Fails
  <2>2. job' = NoJob
    BY <1>5 DEF RenameReturn, Fails
  <2> QED
    BY <2>1, <2>2, EndStep
<1>6. CASE \E from, to \in Paths \cup {NoPath} : CreateRedirect(from, to)
  BY <1>6, FrameStep DEF CreateRedirect
<1>7. CASE \E from \in Paths : DeleteRedirect(from)
  BY <1>7, FrameStep DEF DeleteRedirect
<1>8. CASE \E form \in [Keys -> Values \cup {Unset}] : SaveStart(form)
  BY <1>8, SaveStartStep DEF Forms
<1>9. CASE SaveWrite
  BY <1>9, SaveWriteStep
<1>10. CASE \E s \in Servers : BootLook(s) \/ BootCreate(s) \/ ServerStops(s)
  BY <1>10, BootStep
<1>11. CASE UNCHANGED vars
  BY <1>11, FrameStep DEF vars
<1> QED
  BY <1>1, <1>2, <1>3, <1>4, <1>5, <1>6, <1>7, <1>8, <1>9, <1>10, <1>11
     DEF Next, ArticleCall, OtherCall

\* A running save has written the keys that are no longer to be written, and no
\* server is up before the admin exists.
THEOREM Inductive == Spec => []IInv
BY InitIInv, NextIInv, PTL DEF Spec

-----------------------------------------------------------------------------
(* Saved settings *)

\* For any keys and values, a form that was saved without an error is what the
\* site has, and of one that failed every key written before the failure is.
THEOREM SettingsCorrect == Spec => SettingsSaved
<1> DEFINE Step ==
      job.op = "save" /\ job' = NoJob =>
        IF reply'.err = "none" THEN settings' = job.form
        ELSE \A k \in Keys \ Range(job.left) : settings'[k] = job.form[k]
<1>1. ASSUME IInv, [Next]_vars PROVE [Step]_vars
  <2> SUFFICES ASSUME job.op = "save", job' = NoJob, Next
               PROVE  IF reply'.err = "none" THEN settings' = job.form
                      ELSE \A k \in Keys \ Range(job.left) : settings'[k] = job.form[k]
    BY <1>1
  <2>1. job # NoJob
    BY DEF NoJob
  <2>2. SaveWrite \/ Fails
    BY <2>1 DEF Next, ArticleCall, OtherCall, CreateArticle, UpdateArticle, DeleteArticle,
         RenameList, RenameTag, RenameWrite, RenameReturn, CreateRedirect, DeleteRedirect, SaveStart,
         BootLook, BootCreate, ServerStops, Quiet
  <2>3. CASE SaveWrite
    <3>1. settings' = job.form /\ reply'.err = "none"
      BY <1>1, <2>3, SaveWriteStep DEF SaveWrite, Ok, Answer
    <3> QED
      BY <3>1
  <2>4. CASE Fails
    BY <1>1, <2>4 DEF Fails, Answer, IInv, SavedSoFar
  <2> QED
    BY <2>2, <2>3, <2>4
<1> QED
  BY <1>1, Inductive, PTL DEF Spec, SettingsSaved

-----------------------------------------------------------------------------
(* The admin *)

\* For any number of servers that start and stop, each with a password of its
\* own: the first admin stays as it was created, and no server is up without one.
THEOREM OneAdminCorrect == Spec => OneAdmin
<1> DEFINE Step ==
      /\ Admin \in DOMAIN users => users' = users
      /\ Admin \notin DOMAIN users' => \A s \in Servers : servers'[s] # "up"
<1>1. ASSUME IInv, [Next]_vars PROVE [Step]_vars
  <2> SUFFICES ASSUME Next PROVE Step
    BY <1>1
  <2>1. Admin \in DOMAIN users => users' = users
    BY DEF Next, ArticleCall, OtherCall, CreateArticle, UpdateArticle, DeleteArticle,
       RenameList, RenameTag, RenameWrite, RenameReturn, CreateRedirect, DeleteRedirect, SaveStart,
       SaveWrite, Fails, BootLook, BootCreate, ServerStops, Refused, Articles
  <2>2. AdminBeforeServers'
    BY <1>1, NextIInv DEF IInv
  <2> QED
    BY <2>1, <2>2 DEF AdminBeforeServers
<1> QED
  BY <1>1, Inductive, PTL DEF Spec, OneAdmin

-----------------------------------------------------------------------------
(* Renaming the tags of a list *)

\* The loop of rewriteTags, and what it has put out after k tags.
Put(out, tag) == IF tag \in Range(out) THEN out ELSE Append(out, tag)

New(tags, from, to, k) == IF tags[k] = from THEN to ELSE tags[k]

Loop(f, tags, from, to, n) ==
    f = [k \in 0..n |-> IF k = 0 THEN <<>> ELSE Put(f[k - 1], New(tags, from, to, k))]

LEMMA LoopExists ==
    ASSUME NEW n \in Nat, NEW tags, NEW from, NEW to
    PROVE  \E f : Loop(f, tags, from, to, n)
<1> DEFINE S == {k \in Nat : \E f : Loop(f, tags, from, to, k)}
<1>1. 0 \in S
  <2> DEFINE f == [k \in 0..0 |-> <<>>]
  <2>1. Loop(f, tags, from, to, 0)
    BY DEF Loop
  <2>2. QED
    BY <2>1
<1>2. ASSUME NEW k \in Nat, k \in S PROVE k + 1 \in S
  <2>1. PICK f : Loop(f, tags, from, to, k)
    BY <1>2
  <2> DEFINE g == [j \in 0..k + 1 |->
                     IF j = 0 THEN <<>> ELSE Put(f[j - 1], New(tags, from, to, j))]
  <2>2. \A j \in 0..k : g[j] = f[j]
    BY <2>1 DEF Loop
  <2>3. \A j \in 0..k + 1 : j # 0 => j - 1 \in 0..k
    OBVIOUS
  <2>4. Loop(g, tags, from, to, k + 1)
    BY <2>2, <2>3 DEF Loop
  <2>5. QED
    BY <2>4
<1> HIDE DEF S
<1>3. Nat \subseteq S
  BY <1>1, <1>2, UpTo
<1>4. QED
  BY <1>3 DEF S

\* rewriteTags is its loop.
LEMMA RewriteLoops ==
    ASSUME NEW T, NEW tags \in Seq(T), NEW from, NEW to, from \in Range(tags)
    PROVE  \E f : Loop(f, tags, from, to, Len(tags)) /\ RewriteTags(tags, from, to) = f[Len(tags)]
<1> DEFINE P(f) == Loop(f, tags, from, to, Len(tags))
           out == CHOOSE f : P(f)
<1>1. RewriteTags(tags, from, to) = out[Len(tags)]
  BY DEF RewriteTags, Loop, Put, New
<1>2. \E f : P(f)
  <2>1. Len(tags) \in Nat
    OBVIOUS
  <2>2. QED
    BY <2>1, LoopExists
<1> HIDE DEF P
<1>3. P(out)
  BY <1>2
<1>4. QED
  BY <1>1, <1>3 DEF P

LEMMA PutOut ==
    ASSUME NEW T, NEW out \in Seq(T), NEW tag \in T
    PROVE  /\ Put(out, tag) \in Seq(T)
           /\ Range(Put(out, tag)) = Range(out) \cup {tag}
           /\ IsInjective(out) => IsInjective(Put(out, tag))
<1>1. CASE tag \in Range(out)
  BY <1>1 DEF Put
<1>2. CASE tag \notin Range(out)
  <2> DEFINE new == Append(out, tag)
  <2>1. /\ new \in Seq(T) /\ Len(new) = Len(out) + 1 /\ new[Len(out) + 1] = tag
        /\ \A i \in 1..Len(out) : new[i] = out[i]
        /\ DOMAIN new = 1..Len(new) /\ DOMAIN out = 1..Len(out) /\ Len(out) \in Nat
    OBVIOUS
  <2> HIDE DEF new
  <2>2. \A i \in DOMAIN new : new[i] \in Range(out) \cup {tag}
    BY <2>1 DEF Range
  <2>3. Range(out) \cup {tag} \subseteq Range(new)
    BY <2>1 DEF Range
  <2>4. Range(new) = Range(out) \cup {tag}
    BY <2>2, <2>3 DEF Range
  <2>5. IsInjective(out) => IsInjective(new)
    BY <1>2, <2>1 DEF IsInjective, Range
  <2>6. QED
    BY <1>2, <2>1, <2>4, <2>5 DEF Put, new
<1>3. QED
  BY <1>1, <1>2

\* What rewriteTags makes of a list.
LEMMA Rewritten ==
    ASSUME NEW T, NEW tags \in Seq(T), NEW from, NEW to \in T, from # to
    PROVE  LET new == RewriteTags(tags, from, to) IN
           /\ new \in Seq(T)
           /\ from \notin Range(tags) => new = tags
           /\ from \in Range(tags) =>
                IsInjective(new) /\ Range(new) = (Range(tags) \ {from}) \cup {to}
<1>1. CASE from \notin Range(tags)
  BY <1>1 DEF RewriteTags
<1>2. CASE from \in Range(tags)
  <2> DEFINE n == Len(tags)
             new == RewriteTags(tags, from, to)
  <2>1. PICK f : Loop(f, tags, from, to, n) /\ new = f[n]
    BY <1>2, RewriteLoops
  <2> DEFINE Seen(k) == {New(tags, from, to, j) : j \in 1..k}
             S == {k \in Nat : k <= n => f[k] \in Seq(T) /\ IsInjective(f[k]) /\ Range(f[k]) = Seen(k)}
  <2>2. n \in Nat /\ DOMAIN tags = 1..n
    OBVIOUS
  <2> HIDE DEF n, new
  <2>3. 0 \in S
    <3>1. f[0] = <<>>
      BY <2>1, <2>2 DEF Loop
    <3>2. f[0] \in Seq(T) /\ DOMAIN f[0] = {}
      BY <3>1
    <3>3. Range(f[0]) = {} /\ IsInjective(f[0])
      BY <3>2 DEF Range, IsInjective
    <3>4. Seen(0) = {}
      OBVIOUS
    <3>5. QED
      BY <3>2, <3>3, <3>4
  <2>4. ASSUME NEW k \in Nat, k \in S PROVE k + 1 \in S
    <3>1. SUFFICES ASSUME k + 1 <= n
                   PROVE  /\ f[k + 1] \in Seq(T) /\ IsInjective(f[k + 1])
                          /\ Range(f[k + 1]) = Seen(k + 1)
      OBVIOUS
    <3>2. f[k] \in Seq(T) /\ IsInjective(f[k]) /\ Range(f[k]) = Seen(k)
      BY <2>2, <2>4, <3>1
    <3>3. New(tags, from, to, k + 1) \in T
      BY <2>2, <3>1 DEF New
    <3>4. f[k + 1] = Put(f[k], New(tags, from, to, k + 1))
      <4>1. k + 1 \in 0..n /\ k + 1 # 0 /\ (k + 1) - 1 = k
        BY <2>2, <3>1
      <4>2. QED
        BY <2>1, <4>1 DEF Loop
    <3>5. Seen(k + 1) = Seen(k) \cup {New(tags, from, to, k + 1)}
      <4>1. 1..k + 1 = (1..k) \cup {k + 1}
        OBVIOUS
      <4>2. QED
        BY <4>1
    <3> DEFINE t == New(tags, from, to, k + 1)
    <3>6. /\ Put(f[k], t) \in Seq(T) /\ Range(Put(f[k], t)) = Range(f[k]) \cup {t}
          /\ IsInjective(Put(f[k], t))
      <4> HIDE DEF t
      <4>1. t \in T
        BY <3>3 DEF t
      <4>2. PICK o : o = f[k]
        OBVIOUS
      <4>3. o \in Seq(T) /\ IsInjective(o)
        BY <3>2, <4>2
      <4> HIDE DEF Seen, S
      <4>4. /\ Put(o, t) \in Seq(T) /\ Range(Put(o, t)) = Range(o) \cup {t}
            /\ IsInjective(Put(o, t))
        BY <4>1, <4>3, PutOut
      <4>5. QED
        BY <4>2, <4>4
    <3>7. QED
      BY <3>2, <3>4, <3>5, <3>6
  <2> HIDE DEF S
  <2>5. n \in S
    BY <2>2, <2>3, <2>4, UpTo
  <2>6. new \in Seq(T) /\ IsInjective(new) /\ Range(new) = Seen(n)
    BY <2>1, <2>2, <2>5 DEF S
  <2>7. Seen(n) = (Range(tags) \ {from}) \cup {to}
    <3>1. ASSUME NEW t \in Seen(n) PROVE t \in (Range(tags) \ {from}) \cup {to}
      BY <2>2 DEF New, Range
    <3>2. ASSUME NEW t \in (Range(tags) \ {from}) \cup {to} PROVE t \in Seen(n)
      <4>1. PICK j \in 1..n : tags[j] = IF t = to THEN from ELSE t
        <5>1. CASE t = to
          BY <1>2, <2>2, <5>1 DEF Range
        <5>2. CASE t # to
          <6>1. t \in Range(tags)
            BY <3>2, <5>2
          <6>2. QED
            BY <2>2, <5>2, <6>1 DEF Range
        <5>3. QED
          BY <5>1, <5>2
      <4>2. New(tags, from, to, j) = t
        BY <3>2, <4>1 DEF New
      <4>3. QED
        BY <4>2
    <3>3. QED
      BY <3>1, <3>2
  <2>8. QED
    BY <1>2, <2>6, <2>7 DEF new
<1>3. QED
  BY <1>1, <1>2

-----------------------------------------------------------------------------
(* The order of lists *)

StoredRow == [slug : Slugs \cup {NoSlug}, tags : Seq(Tags), c : Contents]

\* The order is total: of two articles one goes before the other.
LEMMA OrderTotal ==
    ASSUME rows \in [Live -> StoredRow], Live \subseteq Nat
    PROVE  /\ \A i \in Live : ~Order(i, i)
           /\ \A i, j \in Live : i # j => Order(i, j) \/ Order(j, i)
           /\ \A i, j, k \in Live : Order(i, j) /\ Order(j, k) => Order(i, k)
<1>1. \A i \in Live : rows[i].c.pinned \in BOOLEAN
  BY PgStoreAssumption DEF StoredRow, PgStoreAssumption
<1>2. QED
  BY <1>1 DEF Order

\* More articles of a set go before the later of two.
LEMMA Places ==
    ASSUME rows \in [Live -> StoredRow], Live \subseteq Nat,
           NEW S \in SUBSET Live, IsFiniteSet(S)
    PROVE  /\ \A i \in S : Cardinality({j \in S : Order(j, i)}) \in 0..Cardinality(S) - 1
           /\ \A i, k \in S : Order(i, k) =>
                Cardinality({j \in S : Order(j, i)}) < Cardinality({j \in S : Order(j, k)})
<1> DEFINE Ahead(i) == {j \in S : Order(j, i)}
<1>1. ASSUME NEW i \in S PROVE Ahead(i) \in SUBSET S /\ i \notin Ahead(i)
  BY OrderTotal
<1>2. ASSUME NEW i \in S, NEW k \in S, Order(i, k)
      PROVE  Ahead(i) \in SUBSET Ahead(k) /\ i \in Ahead(k)
  BY <1>2, OrderTotal
<1> HIDE DEF Ahead
<1>3. ASSUME NEW i \in S
      PROVE  /\ IsFiniteSet(Ahead(i)) /\ Cardinality(Ahead(i)) \in Nat
             /\ Cardinality(Ahead(i)) \in 0..Cardinality(S) - 1
  <2>1. /\ IsFiniteSet(Ahead(i)) /\ Cardinality(Ahead(i)) <= Cardinality(S)
        /\ Cardinality(Ahead(i)) # Cardinality(S)
    BY <1>1, FS_Subset
  <2>2. Cardinality(Ahead(i)) \in Nat /\ Cardinality(S) \in Nat
    BY <2>1, FS_CardinalityType
  <2>3. QED
    BY <2>1, <2>2
<1>4. ASSUME NEW i \in S, NEW k \in S, Order(i, k)
      PROVE  Cardinality(Ahead(i)) < Cardinality(Ahead(k))
  <2>1. /\ Cardinality(Ahead(i)) <= Cardinality(Ahead(k))
        /\ Cardinality(Ahead(i)) # Cardinality(Ahead(k))
    BY <1>1, <1>2, <1>3, <1>4, FS_Subset
  <2>2. QED
    BY <1>3, <2>1
<1>5. QED
  BY <1>3, <1>4 DEF Ahead

\* The list of a finite set has each of its articles once, in the order.
LEMMA SortedOnce ==
    ASSUME rows \in [Live -> StoredRow], Live \subseteq Nat,
           NEW S \in SUBSET Live, IsFiniteSet(S)
    PROVE  /\ Sorted(S) \in Seq(S) /\ Len(Sorted(S)) = Cardinality(S)
           /\ Range(Sorted(S)) = S /\ IsInjective(Sorted(S))
           /\ \A j, k \in DOMAIN Sorted(S) : j < k => Order(Sorted(S)[j], Sorted(S)[k])
<1> DEFINE n == Cardinality(S)
           place(i) == Cardinality({j \in S : Order(j, i)})
           s == Sorted(S)
<1>1. n \in Nat
  BY FS_CardinalityType
<1>2. /\ \A i \in S : place(i) \in 0..n - 1
      /\ \A i, k \in S : Order(i, k) => place(i) < place(k)
  BY Places
<1>3. s = [k \in 1..n |-> CHOOSE i \in S : place(i) = k - 1]
  BY DEF Sorted
<1> HIDE DEF n, place, s
<1>4. \A i, k \in S : i # k => Order(i, k) \/ Order(k, i)
  BY OrderTotal
<1>5. \A i, k \in S : place(i) \in Nat /\ (place(i) = place(k) => i = k)
  BY <1>1, <1>2, <1>4
<1> DEFINE f == [i \in S |-> place(i) + 1]
<1>6. f \in Surjection(S, 1..n)
  <2>1. f \in Injection(S, 1..n)
    BY <1>1, <1>2, <1>5 DEF Injection, IsInjective
  <2>2. IsFiniteSet(1..n) /\ Cardinality(1..n) = n
    BY <1>1, FS_Interval
  <2> HIDE DEF f
  <2>3. QED
    BY <2>1, <2>2, FS_Injection DEF n
<1>7. ASSUME NEW k \in 1..n PROVE s[k] \in S /\ place(s[k]) = k - 1
  <2>1. PICK i \in S : f[i] = k
    BY <1>6 DEF Surjection
  <2>2. place(i) = k - 1
    BY <1>1, <1>2, <2>1
  <2>3. QED
    BY <1>3, <2>2
<1>8. s \in Seq(S) /\ Len(s) = n /\ DOMAIN s = 1..n
  BY <1>1, <1>3, <1>7
<1>9. IsInjective(s)
  BY <1>1, <1>7, <1>8 DEF IsInjective
<1>10. ASSUME NEW i \in S PROVE \E k \in 1..n : s[k] = i
  <2>1. place(i) + 1 \in 1..n
    BY <1>1, <1>2
  <2>2. place(s[place(i) + 1]) = place(i) /\ s[place(i) + 1] \in S
    BY <1>1, <1>2, <1>7, <2>1
  <2>3. QED
    BY <1>5, <2>1, <2>2
<1>11. Range(s) = S
  BY <1>7, <1>8, <1>10 DEF Range
<1>12. ASSUME NEW k \in 1..n, NEW m \in 1..n, k < m PROVE Order(s[k], s[m])
  <2>1. /\ s[k] \in S /\ s[m] \in S /\ place(s[k]) = k - 1 /\ place(s[m]) = m - 1
    BY <1>7
  <2>2. s[k] # s[m] /\ ~(place(s[m]) < place(s[k]))
    BY <1>1, <1>12, <2>1
  <2>3. QED
    BY <1>2, <1>4, <2>1, <2>2
<1>13. QED
  BY <1>8, <1>9, <1>11, <1>12 DEF n, s

-----------------------------------------------------------------------------
(* The articles, and a rename that is under way *)

\* A rename has rewritten the articles it listed, except those it has left.
Renaming ==
    /\ job \in [op : {"rename"}, from : Tags, to : Tags, n : Nat,
                was : [Live -> StoredRow], left : Seq(Live)]
    /\ job.from # job.to /\ IsInjective(job.left)
    /\ \A i \in Range(job.left) : job.from \in Range(job.was[i].tags)
    /\ \A i \in Live :
         rows[i] = IF i \in Range(job.left) THEN job.was[i]
                   ELSE [job.was[i] EXCEPT !.tags = RewriteTags(@, job.from, job.to)]
    /\ job.n + Len(job.left) = Cardinality({i \in Live : job.from \in Range(job.was[i].tags)})

\* Ids come from the sequence, in the order of born.
IdsOK ==
    /\ seq \in 0..MaxIds
    /\ born \in Seq(1..seq) /\ Live \subseteq Range(born)
    /\ \A j, k \in DOMAIN born : j < k => born[j] < born[k]

RowsOK ==
    /\ rows \in [Live -> StoredRow]
    /\ \A i, j \in Live : rows[i].slug = rows[j].slug => i = j

StoreInv ==
    /\ IdsOK /\ RowsOK
    /\ job.op = "rename" => Renaming

LEMMA InitStore == Init => StoreInv
<1> SUFFICES ASSUME Init PROVE StoreInv
  OBVIOUS
<1> USE DEF Init
<1>1. Live = {} /\ born = <<>> /\ seq = 0
  BY DEF Live
<1>2. IdsOK /\ RowsOK
  BY <1>1, PgStoreAssumption DEF IdsOK, RowsOK, PgStoreAssumption
<1>3. QED
  BY <1>2 DEF StoreInv, NoJob

\* Finitely many articles, with ids that were given out.
LEMMA LiveFinite ==
    ASSUME IdsOK
    PROVE  IsFiniteSet(Live) /\ Live \subseteq 1..seq /\ Live \subseteq Nat
<1>1. Live \in SUBSET (1..seq) /\ seq \in Nat
  BY PgStoreAssumption DEF IdsOK, Range, PgStoreAssumption
<1>2. IsFiniteSet(1..seq)
  BY <1>1, FS_Interval
<1>3. IsFiniteSet(Live)
  BY <1>1, <1>2, FS_Subset
<1>4. QED
  BY <1>1, <1>3

LEMMA TableSame ==
    ASSUME StoreInv, UNCHANGED <<rows, seq, born>>, job' = job \/ job'.op # "rename"
    PROVE  StoreInv'
<1>1. IdsOK' /\ RowsOK'
  BY DEF StoreInv, IdsOK, RowsOK, Live
<1>2. CASE job' = job
  BY <1>1, <1>2 DEF StoreInv, Renaming, Live
<1>3. CASE job'.op # "rename"
  BY <1>1, <1>3 DEF StoreInv
<1>4. QED
  BY <1>2, <1>3

LEMMA WrittenRow ==
    ASSUME NEW a \in Row
    PROVE  a \in StoredRow
BY PgStoreAssumption DEF Row, StoredRow, PgStoreAssumption

LEMMA CreateStore ==
    ASSUME StoreInv, NEW a \in Row, CreateArticle(a)
    PROVE  StoreInv'
<1>1. CASE UNCHANGED <<rows, seq, born, job>>
  BY <1>1, TableSame
<1>2. CASE seq' = seq + 1 /\ seq < MaxIds /\ job' = NoJob /\ UNCHANGED <<rows, born>>
  <2>1. IdsOK'
    <3>1. Seq(1..seq) \subseteq Seq(1..seq + 1)
      BY PgStoreAssumption DEF StoreInv, IdsOK, PgStoreAssumption
    <3>2. QED
      BY <1>2, <3>1, PgStoreAssumption DEF StoreInv, IdsOK, Live, PgStoreAssumption
  <2>2. RowsOK'
    BY <1>2 DEF StoreInv, RowsOK, Live
  <2>3. QED
    BY <1>2, <2>1, <2>2 DEF StoreInv, NoJob
<1>3. CASE /\ seq' = seq + 1 /\ job' = NoJob /\ ~SlugTaken(a.slug, seq') /\ seq < MaxIds
           /\ rows' = [i \in Live \cup {seq'} |-> IF i = seq' THEN a ELSE rows[i]]
           /\ born' = Append(born, seq')
  <2>1. seq \in Nat /\ Live \subseteq 1..seq /\ seq' \notin Live /\ Live' = Live \cup {seq'}
    BY <1>3, LiveFinite, PgStoreAssumption DEF StoreInv, IdsOK, Live, PgStoreAssumption
  <2>2. IdsOK'
    <3>1. born \in Seq(1..seq)
      BY DEF StoreInv, IdsOK
    <3>2. /\ born' \in Seq(1..seq') /\ DOMAIN born' = DOMAIN born \cup {Len(born) + 1}
          /\ Len(born) + 1 \notin DOMAIN born /\ Len(born) \in Nat
          /\ born'[Len(born) + 1] = seq' /\ \A k \in DOMAIN born : born'[k] = born[k]
      BY <1>3, <2>1, <3>1
    <3>3. Range(born') = Range(born) \cup {seq'}
      BY <3>2 DEF Range
    <3>4. \A j, k \in DOMAIN born' : j < k => born'[j] < born'[k]
      BY <1>3, <2>1, <3>1, <3>2 DEF StoreInv, IdsOK
    <3>5. QED
      BY <1>3, <2>1, <3>2, <3>3, <3>4, PgStoreAssumption DEF StoreInv, IdsOK, PgStoreAssumption
  <2>3. RowsOK'
    <3>1. rows' \in [Live' -> StoredRow]
      BY <1>3, <2>1, WrittenRow DEF StoreInv, RowsOK
    <3>2. \A i, j \in Live' : rows'[i].slug = rows'[j].slug => i = j
      BY <1>3, <2>1 DEF StoreInv, RowsOK, SlugTaken
    <3>3. QED
      BY <3>1, <3>2 DEF RowsOK
  <2>4. QED
    BY <1>3, <2>2, <2>3 DEF StoreInv, NoJob
<1>4. QED
  BY <1>1, <1>2, <1>3 DEF CreateArticle, Refused, Articles, Quiet

LEMMA UpdateStore ==
    ASSUME StoreInv, NEW id, NEW a \in Row, UpdateArticle(id, a)
    PROVE  StoreInv'
<1>1. CASE UNCHANGED <<rows, seq, born, job>>
  BY <1>1, TableSame
<1>2. CASE /\ id \in Live /\ ~SlugTaken(a.slug, id) /\ job' = NoJob
           /\ rows' = [rows EXCEPT ![id] = a] /\ UNCHANGED <<seq, born>>
  <2>1. rows' \in [Live -> StoredRow] /\ Live' = Live
    BY <1>2, WrittenRow DEF StoreInv, RowsOK, Live
  <2>2. \A i, j \in Live : rows'[i].slug = rows'[j].slug => i = j
    BY <1>2 DEF StoreInv, RowsOK, SlugTaken
  <2>3. IdsOK'
    BY <1>2, <2>1 DEF StoreInv, IdsOK
  <2>4. QED
    BY <1>2, <2>1, <2>2, <2>3 DEF StoreInv, RowsOK, NoJob
<1>3. QED
  BY <1>1, <1>2 DEF UpdateArticle, Refused, Articles, Quiet

LEMMA DeleteStore ==
    ASSUME StoreInv, NEW id, DeleteArticle(id)
    PROVE  StoreInv'
<1>1. /\ rows' = [i \in Live \ {id} |-> rows[i]] /\ Live' = Live \ {id}
      /\ UNCHANGED <<seq, born>> /\ job' = NoJob
  BY DEF DeleteArticle, Articles, Quiet, Live
<1>2. RowsOK'
  BY <1>1 DEF StoreInv, RowsOK
<1>3. IdsOK'
  BY <1>1 DEF StoreInv, IdsOK
<1>4. QED
  BY <1>1, <1>2, <1>3 DEF StoreInv, NoJob

\* A list without limit and offset has everything that matches.
LEMMA WholeList ==
    ASSUME StoreInv, NEW q, q.limit = 0, q.offset = 0
    PROVE  ListArticles(q).items = Sorted({i \in Live : Matches(q, rows[i])})
<1>1. PICK S : S = {i \in Live : Matches(q, rows[i])}
  OBVIOUS
<1>2. PICK all : all = Sorted(S)
  OBVIOUS
<1>3. Int32(0) = 0
  <2>1. (0 + Int32Max + 1) % (2 * (Int32Max + 1)) = Int32Max + 1
    BY PgStoreAssumption DEF PgStoreAssumption
  <2>2. QED
    BY <2>1, PgStoreAssumption DEF Int32, PgStoreAssumption
<1>4. all \in Seq(S)
  <2>1. S \in SUBSET Live /\ IsFiniteSet(S) /\ Live \subseteq Nat
    BY <1>1, LiveFinite, FS_Subset DEF StoreInv
  <2>2. QED
    BY <1>2, <2>1, SortedOnce DEF StoreInv, RowsOK
<1>5. SubSeq(all, 1, Len(all)) = all /\ Len(all) \in Nat
  BY <1>4
<1> DEFINE listed == Sorted({i \in Live : Matches(q, rows[i])})
           skip == Int32(q.offset)
           last == IF q.limit = 0 THEN Len(listed) ELSE skip + q.limit
<1>6. ListArticles(q) =
        IF skip < 0 THEN [items |-> <<>>, total |-> -1]
        ELSE [items |-> SubSeq(listed, skip + 1, IF last < Len(listed) THEN last ELSE Len(listed)),
              total |-> Len(listed)]
  BY DEF ListArticles
<1>7. skip = 0 /\ last = Len(all) /\ listed = all
  BY <1>1, <1>2, <1>3
<1> HIDE DEF skip, last
<1>8. QED
  BY <1>5, <1>6, <1>7

\* The list a rename works through: the articles that carry the tag, once each.
LEMMA RenameLists ==
    ASSUME StoreInv, NEW from \in Tags
    PROVE  LET q == [status |-> NoFilter, visibility |-> NoFilter, tag |-> from,
                     search |-> NoFilter, limit |-> 0, offset |-> 0]
               S == {i \in Live : from \in Range(rows[i].tags)}
           IN ListArticles(q).items = Sorted(S)
<1>1. PICK q : q = [status |-> NoFilter, visibility |-> NoFilter, tag |-> from,
                    search |-> NoFilter, limit |-> 0, offset |-> 0]
  OBVIOUS
<1>2. {i \in Live : Matches(q, rows[i])} = {i \in Live : from \in Range(rows[i].tags)}
  BY <1>1, PgStoreAssumption DEF Matches, PgStoreAssumption
<1>3. q.limit = 0 /\ q.offset = 0
  BY <1>1
<1>4. ListArticles(q).items = Sorted({i \in Live : Matches(q, rows[i])})
  BY <1>3, WholeList
<1>5. QED
  BY <1>1, <1>2, <1>4

LEMMA RenameListStore ==
    ASSUME StoreInv, NEW from \in Tags \cup {NoTag}, NEW to \in Tags \cup {NoTag},
           RenameList(from, to)
    PROVE  StoreInv'
<1>1. CASE UNCHANGED <<rows, seq, born, job>>
  BY <1>1, TableSame
<1>2. CASE ~UNCHANGED <<rows, seq, born, job>>
  <2> DEFINE S == {i \in Live : from \in Range(rows[i].tags)}
  <2>1. /\ from \in Tags /\ to \in Tags /\ from # to
        /\ job' = [op |-> "rename", from |-> from, to |-> to, n |-> 0, was |-> rows,
                   left |-> ListArticles([status |-> NoFilter, visibility |-> NoFilter,
                              tag |-> from, search |-> NoFilter, limit |-> 0,
                              offset |-> 0]).items]
        /\ UNCHANGED <<rows, seq, born>>
    BY <1>2 DEF RenameList, RenameTag, Refused, Articles
  <2>2. job' = [op |-> "rename", from |-> from, to |-> to, n |-> 0, was |-> rows,
                left |-> Sorted(S)]
    BY <2>1, RenameLists
  <2>3. S \in SUBSET Live /\ IsFiniteSet(S) /\ Live \subseteq Nat
    BY LiveFinite, FS_Subset DEF StoreInv
  <2>4. /\ Sorted(S) \in Seq(S) /\ Len(Sorted(S)) = Cardinality(S)
        /\ Range(Sorted(S)) = S /\ IsInjective(Sorted(S))
    BY <2>3, SortedOnce DEF StoreInv, RowsOK
  <2>5. Cardinality(S) \in Nat
    BY <2>3, FS_CardinalityType
  <2>6. \A i \in Live \ S : RewriteTags(rows[i].tags, from, to) = rows[i].tags
    BY DEF RewriteTags
  <2>7. \A i \in Live \ S : [rows[i] EXCEPT !.tags = RewriteTags(@, from, to)] = rows[i]
    BY <2>6 DEF StoreInv, RowsOK, StoredRow
  <2>8. S = {i \in Live : from \in Range(rows[i].tags)}
    OBVIOUS
  <2>9. Live' = Live
    BY <2>1 DEF Live
  <2> HIDE DEF S
  <2>10. /\ job'.op = "rename" /\ job'.from = from /\ job'.to = to /\ job'.n = 0
         /\ job'.was = rows /\ job'.left = Sorted(S)
    BY <2>2
  <2>11. Sorted(S) \in Seq(Live)
    <3> DEFINE l == Sorted(S)
    <3>1. l \in Seq(S) /\ S \subseteq Live
      BY <2>3, <2>4
    <3> HIDE DEF l
    <3>2. l \in Seq(Live)
      BY <3>1
    <3>3. QED
      BY <3>2 DEF l
  <2>12. job' \in [op : {"rename"}, from : Tags, to : Tags, n : Nat,
                   was : [Live -> StoredRow], left : Seq(Live)]
    BY <2>1, <2>2, <2>11 DEF StoreInv, RowsOK
  <2>13. \A i \in Range(job'.left) : job'.from \in Range(job'.was[i].tags)
    BY <2>4, <2>8, <2>10
  <2>14. \A i \in Live' :
           rows'[i] = IF i \in Range(job'.left) THEN job'.was[i]
                      ELSE [job'.was[i] EXCEPT !.tags = RewriteTags(@, job'.from, job'.to)]
    BY <2>1, <2>4, <2>7, <2>9, <2>10
  <2>15. job'.n + Len(job'.left) = Cardinality({i \in Live' : job'.from \in Range(job'.was[i].tags)})
    BY <2>4, <2>5, <2>8, <2>9, <2>10
  <2>16. Renaming'
    BY <2>1, <2>4, <2>9, <2>10, <2>12, <2>13, <2>14, <2>15 DEF Renaming
  <2>17. IdsOK' /\ RowsOK'
    BY <2>1, <2>9 DEF StoreInv, IdsOK, RowsOK
  <2>18. QED
    BY <2>16, <2>17 DEF StoreInv
<1>3. QED
  BY <1>1, <1>2

\* A list without its head.
LEMMA PopFirst ==
    ASSUME NEW T, NEW s \in Seq(T), s # <<>>, IsInjective(s)
    PROVE  /\ Head(s) \in T /\ Head(s) \in Range(s) /\ Tail(s) \in Seq(T)
           /\ Len(Tail(s)) = Len(s) - 1
           /\ Range(Tail(s)) = Range(s) \ {Head(s)} /\ IsInjective(Tail(s))
<1> DEFINE t == Tail(s)
<1>1. /\ Len(s) \in Nat \ {0} /\ DOMAIN s = 1..Len(s) /\ Head(s) = s[1]
      /\ t \in Seq(T) /\ Len(t) = Len(s) - 1 /\ DOMAIN t = 1..Len(s) - 1
      /\ \A i \in 1..Len(s) - 1 : t[i] = s[i + 1]
  OBVIOUS
<1> HIDE DEF t
<1>2. IsInjective(t)
  <2>1. SUFFICES ASSUME NEW a \in DOMAIN t, NEW b \in DOMAIN t, t[a] = t[b] PROVE a = b
    BY DEF IsInjective
  <2>2. a + 1 \in DOMAIN s /\ b + 1 \in DOMAIN s /\ s[a + 1] = s[b + 1]
    BY <1>1, <2>1
  <2>3. a + 1 = b + 1 /\ a \in Int /\ b \in Int
    BY <1>1, <2>2 DEF IsInjective
  <2>4. QED
    BY <2>3
<1>3. ASSUME NEW i \in DOMAIN t PROVE t[i] \in Range(s) \ {Head(s)}
  <2>1. /\ i + 1 \in DOMAIN s /\ 1 \in DOMAIN s /\ i + 1 # 1
        /\ t[i] = s[i + 1] /\ Head(s) = s[1]
    BY <1>1
  <2>2. s[i + 1] # s[1]
    BY <2>1 DEF IsInjective
  <2>3. QED
    BY <2>1, <2>2 DEF Range
<1>4. ASSUME NEW i \in DOMAIN s, s[i] # Head(s) PROVE s[i] \in Range(t)
  <2>1. i - 1 \in DOMAIN t /\ t[i - 1] = s[i]
    BY <1>1, <1>4
  <2>2. QED
    BY <2>1 DEF Range
<1>5. Range(t) = Range(s) \ {Head(s)}
  BY <1>3, <1>4 DEF Range
<1>6. 1 \in DOMAIN s /\ s[1] \in T
  BY <1>1
<1>7. Head(s) \in T /\ Head(s) \in Range(s)
  BY <1>1, <1>6 DEF Range
<1>8. QED
  BY <1>1, <1>2, <1>5, <1>7 DEF t

\* One article more is rewritten.
LEMMA RenameWriteStore ==
    ASSUME StoreInv, RenameWrite
    PROVE  StoreInv' /\ UNCHANGED <<seq, born>> /\ Live' = Live
           /\ \A i \in Live : rows'[i].slug = rows[i].slug
<1> DEFINE id == Head(job.left)
           row == [job.was[id] EXCEPT !.tags = RewriteTags(@, job.from, job.to)]
<1>1. Renaming /\ job.left # <<>> /\ rows' = [rows EXCEPT ![id] = row]
      /\ job' = [job EXCEPT !.left = Tail(@), !.n = @ + 1] /\ UNCHANGED <<seq, born>>
  BY DEF RenameWrite, StoreInv
<1>2. /\ id \in Live /\ id \in Range(job.left) /\ Tail(job.left) \in Seq(Live)
      /\ Len(Tail(job.left)) = Len(job.left) - 1 /\ Len(job.left) \in Nat
      /\ Range(Tail(job.left)) = Range(job.left) \ {id} /\ IsInjective(Tail(job.left))
  BY <1>1, PopFirst DEF Renaming
<1>3. row \in StoredRow /\ row.slug = job.was[id].slug
  <2>1. job.was[id] \in StoredRow
    BY <1>1, <1>2 DEF Renaming
  <2>2. RewriteTags(job.was[id].tags, job.from, job.to) \in Seq(Tags)
    BY <1>1, <2>1, Rewritten DEF Renaming, StoredRow
  <2>3. QED
    BY <2>1, <2>2 DEF StoredRow
<1>4. /\ job' \in [op : {"rename"}, from : Tags, to : Tags, n : Nat,
                   was : [Live -> StoredRow], left : Seq(Live)]
      /\ job'.from = job.from /\ job'.to = job.to /\ job'.was = job.was
      /\ job'.n = job.n + 1 /\ job'.left = Tail(job.left)
  <2> DEFINE rest == Tail(job.left)
  <2>1. job \in [op : {"rename"}, from : Tags, to : Tags, n : Nat,
                 was : [Live -> StoredRow], left : Seq(Live)]
    BY <1>1 DEF Renaming
  <2>2. rest \in Seq(Live) /\ job' = [job EXCEPT !.left = rest, !.n = @ + 1]
    BY <1>1, <1>2
  <2> HIDE DEF rest
  <2>3. job' = [op |-> "rename", from |-> job.from, to |-> job.to, n |-> job.n + 1,
                was |-> job.was, left |-> rest]
    BY <2>1, <2>2
  <2>4. job.n + 1 \in Nat
    BY <2>1
  <2>5. QED
    BY <2>1, <2>2, <2>3, <2>4 DEF rest
<1>5. rows[id] = job.was[id]
  BY <1>1, <1>2 DEF Renaming
<1> HIDE DEF id, row
<1>6. rows' \in [Live -> StoredRow] /\ Live' = Live
  BY <1>1, <1>3 DEF StoreInv, RowsOK, Live
<1>7. \A i \in Live : rows'[i] = IF i = id THEN row ELSE rows[i]
  BY <1>1, <1>2 DEF StoreInv, RowsOK
<1>8. \A i \in Live : rows'[i].slug = rows[i].slug
  BY <1>3, <1>5, <1>7
<1>9. IdsOK' /\ RowsOK'
  BY <1>1, <1>6, <1>8 DEF StoreInv, IdsOK, RowsOK
<1>10. \A i \in Live :
         rows'[i] = IF i \in Range(job'.left) THEN job'.was[i]
                    ELSE [job'.was[i] EXCEPT !.tags = RewriteTags(@, job'.from, job'.to)]
  <2>1. row = [job.was[id] EXCEPT !.tags = RewriteTags(@, job.from, job.to)]
    BY DEF row
  <2>2. \A i \in Live : i \in Range(job'.left) <=> i \in Range(job.left) /\ i # id
    BY <1>2, <1>4
  <2>3. \A i \in Live :
          rows[i] = IF i \in Range(job.left) THEN job.was[i]
                    ELSE [job.was[i] EXCEPT !.tags = RewriteTags(@, job.from, job.to)]
    BY <1>1 DEF Renaming
  <2>4. QED
    BY <1>4, <1>7, <2>1, <2>2, <2>3
<1>11. job'.n + Len(job'.left) = job.n + Len(job.left)
  BY <1>1, <1>2, <1>4 DEF Renaming
<1>12. Renaming'
  BY <1>1, <1>2, <1>4, <1>6, <1>10, <1>11 DEF Renaming
<1>13. QED
  BY <1>1, <1>6, <1>8, <1>9, <1>12 DEF StoreInv

LEMMA NextStore ==
    ASSUME IInv, StoreInv, [Next]_vars
    PROVE  StoreInv'
<1>1. CASE \E a \in Row : CreateArticle(a)
  BY <1>1, CreateStore
<1>2. CASE \E id \in 1..MaxIds, a \in Row : UpdateArticle(id, a)
  BY <1>2, UpdateStore
<1>3. CASE \E id \in 1..MaxIds : DeleteArticle(id)
  BY <1>3, DeleteStore
<1>4. CASE \E from, to \in Tags \cup {NoTag} : RenameList(from, to)
  BY <1>4, RenameListStore
<1>5. CASE RenameWrite
  BY <1>5, RenameWriteStore
<1>6. CASE RenameReturn \/ Fails
  <2>1. UNCHANGED <<rows, seq, born>> /\ job'.op # "rename"
    BY <1>6 DEF RenameReturn, Fails, NoJob
  <2>2. QED
    BY <2>1, TableSame
<1>7. CASE OtherCall
  <2>1. UNCHANGED <<rows, seq, born>> /\ (job' = job \/ job'.op # "rename")
    <3>1. CASE SaveWrite
      <4>1. job \in [op : {"save"}, form : Forms, left : Seq(Keys) \ {<<>>}]
        BY <3>1 DEF SaveWrite, IInv, JobOK, NoJob
      <4>2. job' = NoJob \/ job' = [job EXCEPT !.left = Tail(@)]
        BY <3>1 DEF SaveWrite
      <4>3. QED
        BY <3>1, <4>1, <4>2 DEF SaveWrite, NoJob
    <3>2. CASE \E form : SaveStart(form)
      BY <3>2 DEF SaveStart
    <3>3. CASE \E from, to : CreateRedirect(from, to) \/ DeleteRedirect(from)
      BY <3>3 DEF CreateRedirect, DeleteRedirect
    <3>4. QED
      BY <1>7, <3>1, <3>2, <3>3 DEF OtherCall
  <2>2. QED
    BY <2>1, TableSame
<1>8. CASE \E s \in Servers : BootLook(s) \/ BootCreate(s) \/ ServerStops(s)
  <2>1. UNCHANGED <<rows, seq, born, job>>
    BY <1>8 DEF BootLook, BootCreate, ServerStops
  <2>2. QED
    BY <2>1, TableSame
<1>9. CASE UNCHANGED vars
  BY <1>9, TableSame DEF vars
<1>10. QED
  BY <1>1, <1>2, <1>3, <1>4, <1>5, <1>6, <1>7, <1>8, <1>9 DEF Next, ArticleCall

\* Ids, slugs and rows are sound, and a rename that is under way has rewritten
\* what it no longer has to.
THEOREM StoreInductive == Spec => []StoreInv
BY InitStore, NextStore, Inductive, PTL DEF Spec

-----------------------------------------------------------------------------
(* Redirects and users *)

OthersOK ==
    /\ redirects \in Seq([from : Paths, to : Paths])
    /\ \A j, k \in DOMAIN redirects : redirects[j].from = redirects[k].from => j = k
    /\ users \in [DOMAIN users -> {HashOf[s] : s \in Servers}] /\ DOMAIN users \subseteq {Admin}

LEMMA Removed ==
    ASSUME NEW T, NEW s \in Seq(T), NEW i \in DOMAIN s
    PROVE  LET t == RemoveAt(s, i) IN
           /\ t \in Seq(T) /\ Len(t) = Len(s) - 1
           /\ \A k \in 1..Len(s) - 1 : t[k] = IF k < i THEN s[k] ELSE s[k + 1]
<1> DEFINE a == SubSeq(s, 1, i - 1)
           b == SubSeq(s, i + 1, Len(s))
<1>1. Len(s) \in Nat /\ i \in 1..Len(s)
  OBVIOUS
<1>2. /\ a \in Seq(T) /\ Len(a) = i - 1
      /\ \A k \in 1..i - 1 : a[k] = s[k]
  BY <1>1
<1>3. /\ b \in Seq(T) /\ Len(b) = Len(s) - i
      /\ \A k \in 1..Len(s) - i : b[k] = s[i + k]
  BY <1>1
<1> HIDE DEF a, b
<1>4. a \o b \in Seq(T) /\ Len(a \o b) = Len(s) - 1
  BY <1>1, <1>2, <1>3
<1>5. ASSUME NEW k \in 1..Len(s) - 1
      PROVE  (a \o b)[k] = IF k < i THEN s[k] ELSE s[k + 1]
  <2>1. CASE k < i
    BY <1>1, <1>2, <1>3, <2>1
  <2>2. CASE ~(k < i)
    <3>1. (a \o b)[k] = b[k - (i - 1)]
      <4>1. k \in 1..Len(a) + Len(b) /\ ~(k <= Len(a))
        BY <1>1, <1>2, <1>3, <2>2
      <4>2. \A j \in 1..Len(a) + Len(b) :
              (a \o b)[j] = IF j <= Len(a) THEN a[j] ELSE b[j - Len(a)]
        BY <1>2, <1>3, ConcatProperties, Zenon
      <4>3. QED
        BY <1>2, <4>1, <4>2
    <3>2. k - (i - 1) \in 1..Len(s) - i /\ i + (k - (i - 1)) = k + 1
      BY <1>1, <2>2
    <3>3. QED
      BY <1>3, <2>2, <3>1, <3>2
  <2>3. QED
    BY <2>1, <2>2
<1>6. RemoveAt(s, i) = a \o b
  BY DEF RemoveAt, a, b
<1>7. QED
  BY <1>4, <1>5, <1>6

LEMMA RedirectSteps ==
    ASSUME OthersOK, NEW from, NEW to,
           \/ /\ from \in Paths \cup {NoPath} /\ to \in Paths \cup {NoPath} /\ CreateRedirect(from, to)
           \/ DeleteRedirect(from)
    PROVE  OthersOK'
<1> DEFINE Entry == [from : Paths, to : Paths]
           Once(rs) == \A j, k \in DOMAIN rs : rs[j].from = rs[k].from => j = k
<1>1. redirects \in Seq(Entry) /\ Once(redirects) /\ UNCHANGED users
  BY DEF OthersOK, CreateRedirect, DeleteRedirect
<1>2. CASE UNCHANGED redirects
  BY <1>1, <1>2 DEF OthersOK
<1>3. CASE /\ from \in Paths /\ to \in Paths
           /\ redirects' = [i \in DOMAIN redirects |->
                              IF redirects[i].from = from THEN [redirects[i] EXCEPT !.to = to]
                              ELSE redirects[i]]
  <2>1. /\ DOMAIN redirects = 1..Len(redirects) /\ Len(redirects) \in Nat
        /\ \A i \in DOMAIN redirects : redirects[i] \in Entry
    <3> HIDE DEF Entry
    <3>1. QED
      BY <1>1
  <2>2. \A i \in DOMAIN redirects : redirects'[i] \in Entry /\ redirects'[i].from = redirects[i].from
    BY <1>3, <2>1
  <2>3. redirects' \in [1..Len(redirects) -> Entry]
    BY <1>3, <2>1, <2>2
  <2> HIDE DEF Entry
  <2>4. redirects' \in Seq(Entry) /\ DOMAIN redirects' = DOMAIN redirects
    BY <2>1, <2>3
  <2>5. Once(redirects')
    BY <1>1, <2>2, <2>4
  <2>6. QED
    BY <1>1, <2>4, <2>5 DEF OthersOK, Entry
<1>4. CASE /\ from \in Paths /\ to \in Paths
           /\ \A i \in DOMAIN redirects : redirects[i].from # from
           /\ redirects' = Append(redirects, [from |-> from, to |-> to])
  <2> DEFINE r == [from |-> from, to |-> to]
  <2>1. r \in Entry /\ r.from = from
    BY <1>4
  <2> HIDE DEF Entry, r
  <2>2. /\ redirects' \in Seq(Entry) /\ DOMAIN redirects' = DOMAIN redirects \cup {Len(redirects) + 1}
        /\ redirects'[Len(redirects) + 1] = r
        /\ \A i \in DOMAIN redirects : redirects'[i] = redirects[i]
    BY <1>1, <1>4, <2>1 DEF r
  <2>3. Once(redirects')
    BY <1>1, <1>4, <2>1, <2>2
  <2>4. QED
    BY <1>1, <2>2, <2>3 DEF OthersOK, Entry
<1>5. CASE \E i \in DOMAIN redirects : redirects' = RemoveAt(redirects, i)
  <2>1. PICK i \in DOMAIN redirects : redirects' = RemoveAt(redirects, i)
    BY <1>5
  <2> HIDE DEF Entry
  <2>2. /\ redirects' \in Seq(Entry) /\ Len(redirects') = Len(redirects) - 1
        /\ \A k \in 1..Len(redirects) - 1 :
             redirects'[k] = IF k < i THEN redirects[k] ELSE redirects[k + 1]
    BY <1>1, <2>1, Removed
  <2>3. Len(redirects) \in Nat /\ i \in 1..Len(redirects) /\ DOMAIN redirects = 1..Len(redirects)
        /\ DOMAIN redirects' = 1..Len(redirects) - 1
    BY <1>1, <2>2
  <2> DEFINE old(k) == IF k < i THEN k ELSE k + 1
  <2>4. Once(redirects')
    <3>1. SUFFICES ASSUME NEW j \in DOMAIN redirects', NEW k \in DOMAIN redirects',
                          redirects'[j].from = redirects'[k].from
                   PROVE  j = k
      OBVIOUS
    <3>2. /\ old(j) \in DOMAIN redirects /\ redirects'[j] = redirects[old(j)]
          /\ old(k) \in DOMAIN redirects /\ redirects'[k] = redirects[old(k)]
      BY <2>2, <2>3
    <3> HIDE DEF old
    <3>3. old(j) = old(k)
      BY <1>1, <3>1, <3>2
    <3>4. QED
      BY <2>3, <3>3 DEF old
  <2>5. QED
    BY <1>1, <2>2, <2>4 DEF OthersOK, Entry
<1>6. QED
  BY <1>2, <1>3, <1>4, <1>5 DEF CreateRedirect, DeleteRedirect

LEMMA NextOthers ==
    ASSUME OthersOK, [Next]_vars
    PROVE  OthersOK'
<1>1. CASE \E from, to \in Paths \cup {NoPath} : CreateRedirect(from, to)
  BY <1>1, RedirectSteps
<1>2. CASE \E from \in Paths : DeleteRedirect(from)
  BY <1>2, RedirectSteps
<1>3. CASE \E s \in Servers : BootCreate(s)
  <2>1. PICK s \in Servers : BootCreate(s)
    BY <1>3
  <2>2. UNCHANGED redirects
    BY <2>1 DEF BootCreate
  <2>3. users' \in [DOMAIN users' -> {HashOf[t] : t \in Servers}] /\ DOMAIN users' \subseteq {Admin}
    BY <2>1 DEF BootCreate, OthersOK
  <2>4. QED
    BY <2>2, <2>3 DEF OthersOK
<1>4. CASE UNCHANGED <<redirects, users>>
  BY <1>4 DEF OthersOK
<1>5. QED
  BY <1>1, <1>2, <1>3, <1>4
  DEF Next, ArticleCall, OtherCall, vars, CreateArticle, UpdateArticle, DeleteArticle,
      RenameList, RenameTag, RenameWrite, RenameReturn, SaveStart, SaveWrite, Fails,
      BootLook, ServerStops, Refused, Articles

\* Every table keeps its types, ids grow with time, a path has one redirect.
THEOREM TypeCorrect == Spec => []TypeOK
<1>1. Init => OthersOK
  BY DEF Init, OthersOK
<1>2. IInv /\ StoreInv /\ OthersOK => TypeOK
  <2>1. SUFFICES ASSUME IInv, StoreInv, OthersOK PROVE TypeOK
    OBVIOUS
  <2>2. Live \subseteq 1..seq
    BY <2>1, LiveFinite DEF StoreInv
  <2>3. \A i \in Live : rows[i] \in StoredRow
    BY <2>1 DEF StoreInv, RowsOK
  <2>4. \A i \in Live : rows[i].slug \in Slugs \cup {NoSlug} /\ rows[i].c \in Contents
                        /\ Range(rows[i].tags) \subseteq Tags
    BY <2>3 DEF StoredRow, Range
  <2>5. QED
    BY <2>1, <2>2, <2>4 DEF TypeOK, IInv, Forms, StoreInv, IdsOK, OthersOK
<1>3. QED
  BY <1>1, <1>2, NextOthers, Inductive, StoreInductive, PTL DEF Spec

-----------------------------------------------------------------------------
(* Renamed tags *)

\* For any tables, lists of tags and earlier failures: when RenameTag returns
\* without an error, every article that carried the old name has the new one in
\* its place, once, and all other tags are as they were.
THEOREM RenameCorrect == Spec => RenameComplete
<1> DEFINE Done ==
      \A id \in Live :
        LET before == job.was[id].tags
            after == rows[id].tags
        IN IF job.from \notin Range(before) THEN after = before
           ELSE /\ job.from \notin Range(after)
                /\ IsInjective(after)
                /\ Range(after) = (Range(before) \ {job.from}) \cup {job.to}
<1>1. ASSUME IInv, StoreInv, [Next]_vars,
             job.op = "rename", job' = NoJob, reply'.err = "none", ~UNCHANGED vars
      PROVE  Done
  <2>1. Renaming /\ job # NoJob
    BY <1>1 DEF StoreInv, NoJob
  <2>2. RenameReturn
    <3>1. ~RenameWrite
      BY <1>1, <2>1 DEF RenameWrite, Renaming, NoJob
    <3>2. ~Fails /\ ~SaveWrite
      BY <1>1 DEF Fails, Answer, SaveWrite
    <3>3. QED
      BY <1>1, <2>1, <3>1, <3>2 DEF Next, ArticleCall, OtherCall, CreateArticle, UpdateArticle,
         DeleteArticle, RenameList, CreateRedirect, DeleteRedirect, SaveStart, Quiet,
         BootLook, BootCreate, ServerStops
  <2>3. job.left = <<>>
    BY <2>2 DEF RenameReturn
  <2>4. ASSUME NEW id \in Live
        PROVE  /\ job.was[id].tags \in Seq(Tags)
               /\ rows[id].tags = RewriteTags(job.was[id].tags, job.from, job.to)
    <3>1. id \notin Range(job.left)
      BY <2>3 DEF Range
    <3>2. rows[id] = [job.was[id] EXCEPT !.tags = RewriteTags(@, job.from, job.to)]
      BY <2>1, <3>1 DEF Renaming
    <3>3. job.was[id] \in StoredRow
      BY <2>1 DEF Renaming
    <3>4. QED
      BY <3>2, <3>3 DEF StoredRow
  <2>5. job.from # job.to /\ job.to \in Tags
    BY <2>1 DEF Renaming
  <2>6. QED
    BY <2>4, <2>5, Rewritten
<1>2. IInv /\ StoreInv /\ [Next]_vars =>
        [job.op = "rename" /\ job' = NoJob /\ reply'.err = "none" => Done]_vars
  BY <1>1
<1>3. QED
  BY <1>2, Inductive, StoreInductive, PTL DEF Spec, RenameComplete

-----------------------------------------------------------------------------
(* The promise: what callers see of the tables *)

\* Where an id is in the order of creation, and the tables under these ranks.
RankIn(b, id) == IF id = 0 THEN 0 ELSE CHOOSE k \in DOMAIN b : b[k] = id

ById(b, t) == [k \in {j \in DOMAIN b : b[j] \in DOMAIN t} |-> t[b[k]]]

Holder(r, slug) ==
    LET found == {i \in DOMAIN r : r[i].slug = slug} IN
    IF found = {} THEN 0 ELSE CHOOSE i \in found : TRUE

SlugIndex(b, r) == [s \in {r[i].slug : i \in DOMAIN r} |-> RankIn(b, Holder(r, s))]

\* Ids are positive and given out once; every row has one, and a slug of its own.
Known(b, r) ==
    /\ b \in Seq(Nat \ {0}) /\ \A j, k \in DOMAIN b : b[j] = b[k] => j = k
    /\ DOMAIN r \subseteq Range(b)
    /\ r \in [DOMAIN r -> StoredRow]
    /\ \A i, j \in DOMAIN r : r[i].slug = r[j].slug => i = j

LEMMA Ranks ==
    ASSUME NEW b, NEW r, Known(b, r)
    PROVE  /\ \A k \in DOMAIN b : b[k] # 0 /\ RankIn(b, b[k]) = k
           /\ \A i \in DOMAIN r : i # 0 /\ RankIn(b, i) \in DOMAIN b /\ b[RankIn(b, i)] = i
           /\ DOMAIN b = 1..Len(b) /\ Len(b) \in Nat
<1>1. DOMAIN b = 1..Len(b) /\ Len(b) \in Nat /\ \A k \in DOMAIN b : b[k] \in Nat \ {0}
  BY DEF Known
<1>2. ASSUME NEW k \in DOMAIN b PROVE b[k] # 0 /\ RankIn(b, b[k]) = k
  BY <1>1 DEF Known, RankIn
<1>3. ASSUME NEW i \in DOMAIN r PROVE \E k \in DOMAIN b : b[k] = i
  BY DEF Known, Range
<1>4. QED
  BY <1>1, <1>2, <1>3

LEMMA Slugged ==
    ASSUME NEW b, NEW r, Known(b, r)
    PROVE  /\ \A i \in DOMAIN r : SlugIndex(b, r)[r[i].slug] = RankIn(b, i)
           /\ DOMAIN SlugIndex(b, r) = {r[i].slug : i \in DOMAIN r}
<1>1. ASSUME NEW i \in DOMAIN r PROVE Holder(r, r[i].slug) = i
  <2>1. {j \in DOMAIN r : r[j].slug = r[i].slug} = {i}
    BY DEF Known
  <2>2. QED
    BY <2>1 DEF Holder
<1>2. QED
  BY <1>1 DEF SlugIndex

\* An id is given out; a row is added, overwritten or removed.
Numbered(b, c, new) == c = Append(b, new)

Added(r, t, new, a) == t = [i \in DOMAIN r \cup {new} |-> IF i = new THEN a ELSE r[i]]

Overwritten(r, t, id, a) == t = [r EXCEPT ![id] = a]

Dropped(r, t, id) == t = [i \in DOMAIN r \ {id} |-> r[i]]

Moved(x, y, old, slug, k) ==
    y = [s \in (DOMAIN x \ {old}) \cup {slug} |-> IF s = slug THEN k ELSE x[s]]

\* A new article gets the next rank.
LEMMA CreatedView ==
    ASSUME NEW b, NEW r, NEW c, NEW t, NEW new, NEW a, Known(b, r), Known(c, t),
           new \notin DOMAIN r, Numbered(b, c, new), Added(r, t, new, a)
    PROVE  LET n == Len(b) + 1 IN
           /\ Len(c) = n
           /\ a.slug \notin DOMAIN SlugIndex(b, r)
           /\ Added(ById(b, r), ById(c, t), n, a)
           /\ Added(SlugIndex(b, r), SlugIndex(c, t), a.slug, n)
           /\ RankIn(c, new) = n
<1> DEFINE n == Len(b) + 1
<1>1. /\ DOMAIN SlugIndex(b, r) = {r[i].slug : i \in DOMAIN r}
      /\ \A i \in DOMAIN r : SlugIndex(b, r)[r[i].slug] = RankIn(b, i)
  BY Slugged
<1>2. /\ DOMAIN SlugIndex(c, t) = {t[i].slug : i \in DOMAIN t}
      /\ \A i \in DOMAIN t : SlugIndex(c, t)[t[i].slug] = RankIn(c, i)
  BY Slugged
<1>3. /\ Len(b) \in Nat /\ DOMAIN b = 1..Len(b) /\ DOMAIN c = DOMAIN b \cup {n} /\ n \notin DOMAIN b
      /\ Len(c) = n /\ c[n] = new /\ \A k \in DOMAIN b : c[k] = b[k]
  BY DEF Known, Numbered
<1>4. DOMAIN t = DOMAIN r \cup {new} /\ t[new] = a /\ \A i \in DOMAIN r : t[i] = r[i] /\ i # new
  BY DEF Added
<1>5. \A k \in DOMAIN b : b[k] # new
  BY <1>3 DEF Known
<1> HIDE DEF n
<1>6. /\ RankIn(c, new) = n
      /\ \A i \in DOMAIN r : RankIn(c, i) = RankIn(b, i)
  <2>1. \A k \in DOMAIN c : RankIn(c, c[k]) = k
    BY Ranks
  <2>2. \A i \in DOMAIN r : RankIn(b, i) \in DOMAIN b /\ b[RankIn(b, i)] = i
    BY Ranks
  <2>3. QED
    BY <1>3, <2>1, <2>2
<1>7. a.slug \notin DOMAIN SlugIndex(b, r)
  BY <1>4, <1>1, <1>2 DEF Known
<1>8. ById(c, t) = [i \in DOMAIN ById(b, r) \cup {n} |-> IF i = n THEN a ELSE ById(b, r)[i]]
  <2>1. DOMAIN ById(c, t) = DOMAIN ById(b, r) \cup {n}
    BY <1>3, <1>4, <1>5 DEF ById
  <2>2. ASSUME NEW i \in DOMAIN ById(c, t)
        PROVE  ById(c, t)[i] = IF i = n THEN a ELSE ById(b, r)[i]
    BY <1>3, <1>4, <1>5 DEF ById
  <2>3. ById(c, t) = [i \in DOMAIN ById(c, t) |-> ById(c, t)[i]]
    BY DEF ById
  <2>4. QED
    BY <2>1, <2>2, <2>3
<1>9. SlugIndex(c, t) = [s \in DOMAIN SlugIndex(b, r) \cup {a.slug} |->
                           IF s = a.slug THEN n ELSE SlugIndex(b, r)[s]]
  <2>1. DOMAIN SlugIndex(c, t) = DOMAIN SlugIndex(b, r) \cup {a.slug}
    BY <1>4, <1>1, <1>2
  <2>2. ASSUME NEW s \in DOMAIN SlugIndex(c, t)
        PROVE  SlugIndex(c, t)[s] = IF s = a.slug THEN n ELSE SlugIndex(b, r)[s]
    <3>1. PICK i \in DOMAIN t : s = t[i].slug
      BY <1>1, <1>2
    <3>2. SlugIndex(c, t)[s] = RankIn(c, i)
      BY <3>1, <1>1, <1>2
    <3>3. CASE i = new
      BY <1>4, <1>6, <3>1, <3>2, <3>3
    <3>4. CASE i # new
      <4>1. i \in DOMAIN r /\ s = r[i].slug
        BY <1>4, <3>1, <3>4
      <4>2. SlugIndex(b, r)[s] = RankIn(b, i) /\ s # a.slug
        BY <1>7, <4>1, <1>1, <1>2
      <4>3. QED
        BY <1>6, <3>2, <4>1, <4>2
    <3>5. QED
      BY <3>3, <3>4
  <2>3. SlugIndex(c, t) = [s \in DOMAIN SlugIndex(c, t) |-> SlugIndex(c, t)[s]]
    BY DEF SlugIndex
  <2>4. QED
    BY <2>1, <2>2, <2>3
<1>10. QED
  BY <1>3, <1>6, <1>7, <1>8, <1>9 DEF n, Added

\* A row is overwritten: its slug may move.
LEMMA UpdatedView ==
    ASSUME NEW b, NEW r, NEW t, NEW id, NEW a, Known(b, r), Known(b, t), id \in DOMAIN r,
           Overwritten(r, t, id, a)
    PROVE  LET k == RankIn(b, id) IN
           /\ k \in DOMAIN ById(b, r)
           /\ a.slug \in DOMAIN SlugIndex(b, r) => SlugIndex(b, r)[a.slug] = k
           /\ Overwritten(ById(b, r), ById(b, t), k, a)
           /\ Moved(SlugIndex(b, r), SlugIndex(b, t), ById(b, r)[k].slug, a.slug, k)
<1> DEFINE k == RankIn(b, id)
<1>1. /\ DOMAIN SlugIndex(b, r) = {r[i].slug : i \in DOMAIN r}
      /\ \A i \in DOMAIN r : SlugIndex(b, r)[r[i].slug] = RankIn(b, i)
  BY Slugged
<1>2. /\ DOMAIN SlugIndex(b, t) = {t[i].slug : i \in DOMAIN t}
      /\ \A i \in DOMAIN t : SlugIndex(b, t)[t[i].slug] = RankIn(b, i)
  BY Slugged
<1>3. DOMAIN t = DOMAIN r /\ t[id] = a /\ \A i \in DOMAIN r : i # id => t[i] = r[i]
  BY DEF Known, Overwritten
<1>4. k \in DOMAIN b /\ b[k] = id /\ \A j \in DOMAIN b : b[j] = id => j = k
  BY Ranks
<1> HIDE DEF k
<1>5. k \in DOMAIN ById(b, r) /\ ById(b, r)[k] = r[id]
  BY <1>4 DEF ById
<1>6. ASSUME a.slug \in DOMAIN SlugIndex(b, r) PROVE SlugIndex(b, r)[a.slug] = k
  <2>1. PICK i \in DOMAIN r : a.slug = r[i].slug
    BY <1>6, <1>1, <1>2
  <2>2. i = id
    BY <1>3, <2>1 DEF Known
  <2>3. QED
    BY <2>1, <2>2, <1>1, <1>2 DEF k
<1>7. ById(b, t) = [ById(b, r) EXCEPT ![k] = a]
  BY <1>3, <1>4 DEF ById
<1>8. SlugIndex(b, t) = [s \in (DOMAIN SlugIndex(b, r) \ {r[id].slug}) \cup {a.slug} |->
                           IF s = a.slug THEN k ELSE SlugIndex(b, r)[s]]
  <2>1. DOMAIN SlugIndex(b, t) = (DOMAIN SlugIndex(b, r) \ {r[id].slug}) \cup {a.slug}
    <3>1. {t[i].slug : i \in DOMAIN t} = {r[i].slug : i \in DOMAIN r \ {id}} \cup {a.slug}
      BY <1>3
    <3>2. {r[i].slug : i \in DOMAIN r \ {id}} = {r[i].slug : i \in DOMAIN r} \ {r[id].slug}
      BY DEF Known
    <3>3. QED
      BY <3>1, <3>2, <1>1, <1>2
  <2>2. ASSUME NEW s \in DOMAIN SlugIndex(b, t)
        PROVE  SlugIndex(b, t)[s] = IF s = a.slug THEN k ELSE SlugIndex(b, r)[s]
    <3>1. PICK i \in DOMAIN t : s = t[i].slug
      BY <1>1, <1>2
    <3>2. SlugIndex(b, t)[s] = RankIn(b, i)
      BY <3>1, <1>1, <1>2
    <3>3. CASE i = id
      BY <1>3, <3>1, <3>2, <3>3 DEF k
    <3>4. CASE i # id
      <4>1. i \in DOMAIN r /\ s = r[i].slug /\ s # a.slug
        BY <1>3, <3>1, <3>4 DEF Known
      <4>2. QED
        BY <3>2, <4>1, <1>1, <1>2
    <3>5. QED
      BY <3>3, <3>4
  <2>3. SlugIndex(b, t) = [s \in DOMAIN SlugIndex(b, t) |-> SlugIndex(b, t)[s]]
    BY DEF SlugIndex
  <2>4. QED
    BY <2>1, <2>2, <2>3
<1>9. QED
  BY <1>5, <1>6, <1>7, <1>8 DEF k, Overwritten, Moved

LEMMA DeletedView ==
    ASSUME NEW b, NEW r, NEW t, NEW id, Known(b, r), Known(b, t), id \in DOMAIN r,
           Dropped(r, t, id)
    PROVE  LET k == RankIn(b, id) IN
           /\ k \in DOMAIN ById(b, r)
           /\ Dropped(ById(b, r), ById(b, t), k)
           /\ Dropped(SlugIndex(b, r), SlugIndex(b, t), ById(b, r)[k].slug)
<1> DEFINE k == RankIn(b, id)
<1>1. /\ DOMAIN SlugIndex(b, r) = {r[i].slug : i \in DOMAIN r}
      /\ \A i \in DOMAIN r : SlugIndex(b, r)[r[i].slug] = RankIn(b, i)
  BY Slugged
<1>2. /\ DOMAIN SlugIndex(b, t) = {t[i].slug : i \in DOMAIN t}
      /\ \A i \in DOMAIN t : SlugIndex(b, t)[t[i].slug] = RankIn(b, i)
  BY Slugged
<1>3. DOMAIN t = DOMAIN r \ {id} /\ \A i \in DOMAIN t : t[i] = r[i]
  BY DEF Dropped
<1>4. k \in DOMAIN b /\ b[k] = id /\ \A j \in DOMAIN b : b[j] = id => j = k
  BY Ranks
<1> HIDE DEF k
<1>5. k \in DOMAIN ById(b, r) /\ ById(b, r)[k] = r[id]
  BY <1>4 DEF ById
<1>6. ById(b, t) = [i \in DOMAIN ById(b, r) \ {k} |-> ById(b, r)[i]]
  BY <1>3, <1>4 DEF ById
<1>7. SlugIndex(b, t) = [s \in DOMAIN SlugIndex(b, r) \ {r[id].slug} |-> SlugIndex(b, r)[s]]
  <2>1. DOMAIN SlugIndex(b, t) = DOMAIN SlugIndex(b, r) \ {r[id].slug}
    <3>1. {t[i].slug : i \in DOMAIN t} = {r[i].slug : i \in DOMAIN r} \ {r[id].slug}
      BY <1>3 DEF Known
    <3>2. QED
      BY <3>1, <1>1, <1>2
  <2>2. ASSUME NEW s \in DOMAIN SlugIndex(b, t)
        PROVE  SlugIndex(b, t)[s] = SlugIndex(b, r)[s]
    <3>1. PICK i \in DOMAIN t : s = t[i].slug
      BY <1>1, <1>2
    <3>2. QED
      BY <1>3, <3>1, <1>1, <1>2
  <2>3. SlugIndex(b, t) = [s \in DOMAIN SlugIndex(b, t) |-> SlugIndex(b, t)[s]]
    BY DEF SlugIndex
  <2>4. QED
    BY <2>1, <2>2, <2>3
<1>8. QED
  BY <1>5, <1>6, <1>7 DEF k, Dropped

-----------------------------------------------------------------------------
(* The promise: every step is one of store.Repository *)

\* What callers see is that of the tables; in the middle of a rename, of the
\* table as the rename found it.
ViewOK ==
    /\ Known(born, rows) /\ Known(born, Settled)
    /\ ByID = ById(born, Settled) /\ BySlug = SlugIndex(born, Settled)
    /\ \A id : Rank(id) = RankIn(born, id)

LEMMA Views == StoreInv => ViewOK
<1> SUFFICES ASSUME StoreInv PROVE ViewOK
  OBVIOUS
<1>1. DOMAIN Settled = Live /\ \A i \in Live : Settled[i].slug = rows[i].slug
  <2>1. CASE job.op = "rename"
    <3>1. Renaming
      BY <2>1 DEF StoreInv
    <3>2. ASSUME NEW i \in Live PROVE rows[i].slug = job.was[i].slug
      <4>1. PICK w : w = job.was[i]
        OBVIOUS
      <4>2. PICK new : new = [w EXCEPT !.tags = RewriteTags(@, job.from, job.to)]
        OBVIOUS
      <4>3. w \in StoredRow /\ (rows[i] = w \/ rows[i] = new)
        BY <3>1, <4>1, <4>2 DEF Renaming
      <4>4. new.slug = w.slug
        BY <4>2, <4>3 DEF StoredRow
      <4>5. QED
        BY <4>1, <4>3, <4>4
    <3>3. QED
      BY <2>1, <3>1, <3>2 DEF Settled, Renaming
  <2>2. CASE job.op # "rename"
    BY <2>2 DEF Settled, Live
  <2>3. QED
    BY <2>1, <2>2
<1>2. Settled \in [Live -> StoredRow]
  BY DEF Settled, StoreInv, RowsOK, Renaming
<1>3. born \in Seq(Nat \ {0}) /\ \A j, k \in DOMAIN born : born[j] = born[k] => j = k
  <2>1. seq \in Nat /\ born \in Seq(1..seq) /\ \A j, k \in DOMAIN born : j < k => born[j] < born[k]
    BY PgStoreAssumption DEF StoreInv, IdsOK, PgStoreAssumption
  <2>2. \A k \in DOMAIN born : born[k] \in Nat \ {0} /\ k \in Nat
    BY <2>1
  <2>3. born \in Seq(Nat \ {0})
    BY <2>1, <2>2
  <2>4. QED
    BY <2>1, <2>2, <2>3
<1>4. Known(born, rows)
  BY <1>3 DEF Known, StoreInv, IdsOK, RowsOK, Live
<1>5. Known(born, Settled)
  BY <1>1, <1>2, <1>3 DEF Known, StoreInv, IdsOK, RowsOK
<1>6. ByID = ById(born, Settled)
  BY <1>1 DEF ByID, ById
<1>7. \A id : Rank(id) = RankIn(born, id)
  BY DEF Rank, RankIn
<1>8. BySlug = SlugIndex(born, rows)
  BY <1>7 DEF BySlug, SlugIndex, GetArticleBySlug, Holder, Live
<1>9. SlugIndex(born, rows) = SlugIndex(born, Settled)
  <2>1. \A s : {i \in DOMAIN rows : rows[i].slug = s} = {i \in DOMAIN Settled : Settled[i].slug = s}
    BY <1>1 DEF Live
  <2>2. ASSUME NEW s PROVE Holder(rows, s) = Holder(Settled, s)
    <3> DEFINE A == {i \in DOMAIN rows : rows[i].slug = s}
               B == {i \in DOMAIN Settled : Settled[i].slug = s}
    <3>1. A = B
      BY <2>1
    <3>2. /\ Holder(rows, s) = IF A = {} THEN 0 ELSE CHOOSE i \in A : TRUE
          /\ Holder(Settled, s) = IF B = {} THEN 0 ELSE CHOOSE i \in B : TRUE
      BY DEF Holder
    <3> HIDE DEF A, B
    <3>3. QED
      BY <3>1, <3>2
  <2>3. {rows[i].slug : i \in DOMAIN rows} = {Settled[i].slug : i \in DOMAIN Settled}
    BY <1>1 DEF Live
  <2>4. QED
    BY <2>2, <2>3 DEF SlugIndex
<1>10. QED
  BY <1>4, <1>5, <1>6, <1>7, <1>8, <1>9 DEF ViewOK

LEMMA ViewsNext == StoreInv' => ViewOK'
BY Views, PTL

\* A reply that names no article is the same for every store.
LEMMA ToldPlain ==
    ASSUME NEW call, NEW err, NEW n, reply' = Answer(call, err, 0, n)
    PROVE  Told' = [call |-> call, err |-> err, id |-> 0, n |-> n]
BY DEF Told, Answer, Rank

LEMMA ViewSame ==
    ASSUME StoreInv, StoreInv', UNCHANGED born, Settled' = Settled
    PROVE  UNCHANGED <<ByID, BySlug>>
<1>1. ViewOK /\ ViewOK'
  BY Views, ViewsNext
<1>2. ByID' = ById(born', Settled') /\ BySlug' = SlugIndex(born', Settled')
  BY <1>1 DEF ViewOK
<1>3. QED
  BY <1>1, <1>2 DEF ViewOK

LEMMA Unseen ==
    ASSUME StoreInv, StoreInv', UNCHANGED <<born, redirects, users, settings, reply>>,
           Settled' = Settled
    PROVE  UNCHANGED Promise!rvars
<1>1. Told' = Told
  BY DEF Told, Rank
<1>2. QED
  BY <1>1, ViewSame DEF Promise!rvars

LEMMA RefusedSeen ==
    ASSUME StoreInv, StoreInv', UNCHANGED <<born, redirects, users, settings>>,
           Settled' = Settled, NEW call, NEW err, reply' = Answer(call, err, 0, 0)
    PROVE  Promise!Refused(call, err)
<1>1. Told' = Promise!Err(call, err)
  BY ToldPlain DEF Promise!Err, Promise!Answer
<1>2. QED
  BY <1>1, ViewSame DEF Promise!Refused

LEMMA CreateSeen ==
    ASSUME StoreInv, StoreInv', NEW a \in Row, CreateArticle(a)
    PROVE  Promise!CreateArticle(a)
<1>1. Settled = rows /\ Settled' = rows' /\ ViewOK /\ ViewOK'
  BY Views, ViewsNext DEF CreateArticle, Quiet, Refused, Articles, NoJob, Settled
<1>2. CASE a.slug = NoSlug
  <2>1. UNCHANGED <<born, rows, redirects, users, settings>> /\ reply' = Answer("CreateArticle", "ErrEmptySlug", 0, 0)
    BY <1>2 DEF CreateArticle, Refused, Articles
  <2>2. QED
    BY <1>1, <1>2, <2>1, RefusedSeen DEF Promise!CreateArticle
<1>3. CASE a.slug # NoSlug /\ SlugTaken(a.slug, seq + 1)
  <2>1. UNCHANGED <<born, rows, redirects, users, settings>> /\ reply' = Answer("CreateArticle", "ErrDuplicateSlug", 0, 0)
    BY <1>3 DEF CreateArticle, Articles
  <2>2. a.slug \in DOMAIN BySlug
    BY <1>1, <1>3 DEF ViewOK, SlugIndex, SlugTaken, Live
  <2>3. QED
    BY <1>1, <2>1, <2>2, RefusedSeen DEF Promise!CreateArticle
<1>4. CASE a.slug # NoSlug /\ ~SlugTaken(a.slug, seq + 1)
  <2>0. PICK new : new = seq + 1
    OBVIOUS
  <2> DEFINE n == Len(born) + 1
  <2>1. /\ Numbered(born, born', new) /\ Added(rows, rows', new, a)
        /\ reply' = Answer("CreateArticle", "none", new, 0) /\ UNCHANGED <<redirects, users, settings>>
    BY <1>4, <2>0 DEF CreateArticle, Articles, Added, Numbered, Live, Ok
  <2>2. new \notin DOMAIN rows
    BY <2>0, LiveFinite, PgStoreAssumption DEF StoreInv, IdsOK, PgStoreAssumption, Live
  <2>3. Known(born, rows) /\ Known(born', rows')
    BY <1>1 DEF ViewOK
  <2>4. /\ Len(born') = n /\ a.slug \notin DOMAIN SlugIndex(born, rows)
        /\ Added(ById(born, rows), ById(born', rows'), n, a)
        /\ Added(SlugIndex(born, rows), SlugIndex(born', rows'), a.slug, n)
        /\ RankIn(born', new) = n
    BY <2>1, <2>2, <2>3, CreatedView
  <2>5. /\ ByID = ById(born, rows) /\ BySlug = SlugIndex(born, rows)
        /\ ByID' = ById(born', rows') /\ BySlug' = SlugIndex(born', rows')
        /\ Rank(new)' = RankIn(born', new)
    BY <1>1 DEF ViewOK, Rank, RankIn
  <2>6. Told' = Promise!Ok("CreateArticle", n, 0)
    <3>1. Told' = [reply' EXCEPT !.id = Rank(new)']
      BY <2>1 DEF Told, Rank, Answer
    <3>2. QED
      BY <2>1, <2>4, <2>5, <3>1 DEF Answer, Promise!Ok, Promise!Answer
  <2>7. QED
    BY <1>4, <2>1, <2>4, <2>5, <2>6 DEF Promise!CreateArticle, Added
<1>5. QED
  BY <1>2, <1>3, <1>4

LEMMA UpdateSeen ==
    ASSUME StoreInv, StoreInv', NEW id, NEW a \in Row, UpdateArticle(id, a)
    PROVE  \E k \in 1..Len(born) + 1 : Promise!UpdateArticle(k, a)
<1>1. Settled = rows /\ Settled' = rows' /\ ViewOK /\ ViewOK'
  BY Views, ViewsNext DEF UpdateArticle, Quiet, Refused, Articles, NoJob, Settled
<1>2. /\ ByID = ById(born, rows) /\ BySlug = SlugIndex(born, rows)
      /\ ByID' = ById(born', rows') /\ BySlug' = SlugIndex(born', rows')
      /\ Known(born, rows) /\ Known(born', rows')
  BY <1>1 DEF ViewOK
<1>3. DOMAIN born = 1..Len(born) /\ Len(born) \in Nat
  BY <1>2, Ranks
<1>4. CASE id \notin Live
  <2>1. UNCHANGED <<born, rows, redirects, users, settings>> /\ reply' = Answer("UpdateArticle", "ErrNotFound", 0, 0)
    BY <1>4 DEF UpdateArticle, Refused, Articles
  <2>2. Len(born) + 1 \notin DOMAIN ByID /\ Len(born) + 1 \in 1..Len(born) + 1
    BY <1>2, <1>3 DEF ById
  <2>3. QED
    BY <1>1, <2>1, <2>2, RefusedSeen DEF Promise!UpdateArticle
<1>5. CASE id \in Live
  <2> DEFINE k == RankIn(born, id)
  <2>1. k \in DOMAIN born /\ born[k] = id
    BY <1>2, <1>5, Ranks DEF Live
  <2>2. k \in DOMAIN ByID /\ k \in 1..Len(born) + 1
    BY <1>2, <1>3, <1>5, <2>1 DEF ById, Live
  <2> HIDE DEF k
  <2>3. CASE SlugTaken(a.slug, id)
    <3>1. UNCHANGED <<born, rows, redirects, users, settings>> /\ reply' = Answer("UpdateArticle", "ErrDuplicateSlug", 0, 0)
      BY <1>5, <2>3 DEF UpdateArticle, Refused, Articles
    <3>2. PICK other \in DOMAIN rows : other # id /\ rows[other].slug = a.slug
      BY <2>3 DEF SlugTaken, Live
    <3>3. a.slug \in DOMAIN BySlug /\ BySlug[a.slug] = RankIn(born, other)
      <4>1. Known(born, rows)
        BY <1>2
      <4>2. /\ SlugIndex(born, rows)[rows[other].slug] = RankIn(born, other)
            /\ rows[other].slug \in DOMAIN SlugIndex(born, rows)
        BY <4>1, <3>2, Slugged
      <4>3. QED
        BY <1>2, <3>2, <4>2
    <3>4. RankIn(born, other) # k
      BY <1>2, <2>1, <3>2, Ranks
    <3>5. QED
      BY <1>1, <2>2, <3>1, <3>3, <3>4, RefusedSeen DEF Promise!UpdateArticle
  <2>4. CASE ~SlugTaken(a.slug, id)
    <3>1. /\ Overwritten(rows, rows', id, a) /\ reply' = Answer("UpdateArticle", "none", 0, 0)
          /\ UNCHANGED <<born, redirects, users, settings>>
      BY <1>5, <2>4 DEF UpdateArticle, Articles, Overwritten, Ok, Refused
    <3>2. Known(born, rows')
      BY <1>2, <3>1
    <3>3. /\ a.slug \in DOMAIN SlugIndex(born, rows) => SlugIndex(born, rows)[a.slug] = k
          /\ Overwritten(ById(born, rows), ById(born, rows'), k, a)
          /\ Moved(SlugIndex(born, rows), SlugIndex(born, rows'), ById(born, rows)[k].slug, a.slug, k)
      BY <1>2, <1>5, <3>1, <3>2, UpdatedView DEF k, Live
    <3>4. Told' = Promise!Ok("UpdateArticle", 0, 0)
      BY <3>1, ToldPlain DEF Promise!Ok, Promise!Answer
    <3>5. QED
      BY <1>2, <2>2, <3>1, <3>3, <3>4 DEF Promise!UpdateArticle, Overwritten, Moved
  <2>5. QED
    BY <2>3, <2>4
<1>6. QED
  BY <1>4, <1>5

LEMMA DeleteSeen ==
    ASSUME StoreInv, StoreInv', NEW id, DeleteArticle(id)
    PROVE  \E k \in 1..Len(born) + 1 : Promise!DeleteArticle(k)
<1>1. Settled = rows /\ Settled' = rows' /\ ViewOK /\ ViewOK'
  BY Views, ViewsNext DEF DeleteArticle, Quiet, Articles, NoJob, Settled
<1>2. /\ ByID = ById(born, rows) /\ BySlug = SlugIndex(born, rows)
      /\ ByID' = ById(born', rows') /\ BySlug' = SlugIndex(born', rows')
      /\ Known(born, rows) /\ Known(born', rows')
  BY <1>1 DEF ViewOK
<1>3. /\ Dropped(rows, rows', id) /\ reply' = Answer("DeleteArticle", "none", 0, 0)
      /\ UNCHANGED <<born, redirects, users, settings>>
  BY DEF DeleteArticle, Articles, Dropped, Ok, Live
<1>4. DOMAIN born = 1..Len(born) /\ Len(born) \in Nat
  BY <1>2, Ranks
<1>5. CASE id \notin DOMAIN rows
  <2>1. Settled' = Settled
    <3>1. rows = [i \in DOMAIN rows |-> rows[i]]
      BY <1>2 DEF Known
    <3>2. rows' = rows
      BY <1>3, <1>5, <3>1 DEF Dropped
    <3>3. QED
      BY <1>1, <3>2
  <2>2. Promise!Refused("DeleteArticle", "none")
    BY <1>3, <2>1, RefusedSeen
  <2>3. Len(born) + 1 \notin DOMAIN ByID /\ Len(born) + 1 \in 1..Len(born) + 1
    BY <1>2, <1>4 DEF ById
  <2>4. QED
    BY <2>2, <2>3 DEF Promise!DeleteArticle
<1>6. CASE id \in DOMAIN rows
  <2> DEFINE k == RankIn(born, id)
  <2>1. Known(born, rows')
    BY <1>2, <1>3
  <2>2. /\ k \in DOMAIN ById(born, rows)
        /\ Dropped(ById(born, rows), ById(born, rows'), k)
        /\ Dropped(SlugIndex(born, rows), SlugIndex(born, rows'), ById(born, rows)[k].slug)
    BY <1>2, <1>3, <1>6, <2>1, DeletedView
  <2> HIDE DEF k
  <2>3. Told' = Promise!Ok("DeleteArticle", 0, 0)
    BY <1>3, ToldPlain DEF Promise!Ok, Promise!Answer
  <2>4. k \in 1..Len(born) + 1
    BY <1>4, <2>2 DEF ById
  <2>5. QED
    BY <1>2, <1>3, <2>2, <2>3, <2>4 DEF Promise!DeleteArticle, Dropped
<1>7. QED
  BY <1>5, <1>6

\* The rows in S have their tags rewritten; the ranks of such rows.
Renamed(x, y, S, from, to) ==
    y = [i \in DOMAIN x |-> IF i \in S THEN [x[i] EXCEPT !.tags = RewriteTags(@, from, to)]
                            ELSE x[i]]

RanksOf(b, t, S) == {k \in DOMAIN ById(b, t) : b[k] \in S}

LEMMA RenamedView ==
    ASSUME NEW b, NEW w, NEW r, NEW S, NEW from, NEW to, Renamed(w, r, S, from, to)
    PROVE  Renamed(ById(b, w), ById(b, r), RanksOf(b, w, S), from, to)
<1>1. DOMAIN r = DOMAIN w
      /\ \A i \in DOMAIN w : r[i] = IF i \in S THEN [w[i] EXCEPT !.tags = RewriteTags(@, from, to)]
                                    ELSE w[i]
  BY DEF Renamed
<1>2. DOMAIN ById(b, r) = DOMAIN ById(b, w)
      /\ \A k \in DOMAIN ById(b, w) : b[k] \in DOMAIN w /\ ById(b, w)[k] = w[b[k]] /\ ById(b, r)[k] = r[b[k]]
  BY <1>1 DEF ById
<1>3. ById(b, r) = [k \in DOMAIN ById(b, r) |-> ById(b, r)[k]]
  BY DEF ById
<1>4. QED
  BY <1>1, <1>2, <1>3 DEF Renamed, RanksOf

\* What a rename that is under way has done so far.
LEMMA RenamedSoFar ==
    ASSUME StoreInv, job.op = "rename"
    PROVE  LET S == {i \in Live : job.from \in Range(job.was[i].tags)} IN
           /\ Renamed(job.was, rows, S \ Range(job.left), job.from, job.to)
           /\ IsFiniteSet(S) /\ job.n + Len(job.left) = Cardinality(S)
           /\ job.from \in Tags /\ job.to \in Tags /\ job.from # job.to
           /\ Settled = job.was /\ DOMAIN job.was = Live
<1> DEFINE S == {i \in Live : job.from \in Range(job.was[i].tags)}
<1>1. Renaming
  BY DEF StoreInv
<1>2. \A i \in Live \ S : [job.was[i] EXCEPT !.tags = RewriteTags(@, job.from, job.to)] = job.was[i]
  <2>1. \A i \in Live \ S : RewriteTags(job.was[i].tags, job.from, job.to) = job.was[i].tags
    BY DEF RewriteTags
  <2>2. QED
    BY <1>1, <2>1 DEF Renaming, StoredRow
<1>3. Renamed(job.was, rows, S \ Range(job.left), job.from, job.to)
  <2>1. rows = [i \in Live |-> rows[i]] /\ DOMAIN job.was = Live
    BY <1>1 DEF StoreInv, RowsOK, Renaming
  <2>2. \A i \in Live : rows[i] =
          IF i \in S \ Range(job.left)
          THEN [job.was[i] EXCEPT !.tags = RewriteTags(@, job.from, job.to)] ELSE job.was[i]
    <3> HIDE DEF S
    <3>1. QED
      BY <1>1, <1>2 DEF Renaming
  <2> HIDE DEF S
  <2>3. QED
    BY <2>1, <2>2 DEF Renamed
<1>4. IsFiniteSet(S)
  <2>1. S \in SUBSET Live
    OBVIOUS
  <2>2. QED
    BY <2>1, LiveFinite, FS_Subset DEF StoreInv
<1>5. QED
  BY <1>1, <1>3, <1>4 DEF Renaming, Settled

LEMMA SameRewriting ==
    ASSUME NEW tags, NEW from, NEW to
    PROVE  Promise!RewriteTags(tags, from, to) = RewriteTags(tags, from, to)
BY DEF RewriteTags, Promise!RewriteTags, Range, Promise!Range

\* As many ranks as articles.
LEMMA RanksCount ==
    ASSUME NEW b, NEW t, NEW S, Known(b, t), S \in SUBSET DOMAIN t, IsFiniteSet(S)
    PROVE  Cardinality(RanksOf(b, t, S)) = Cardinality(S)
<1> DEFINE K == RanksOf(b, t, S)
           f == [i \in S |-> RankIn(b, i)]
<1>1. /\ \A k \in DOMAIN b : b[k] # 0 /\ RankIn(b, b[k]) = k
      /\ \A i \in DOMAIN t : i # 0 /\ RankIn(b, i) \in DOMAIN b /\ b[RankIn(b, i)] = i
  BY Ranks
<1>2. K = {k \in DOMAIN b : b[k] \in S}
  BY DEF RanksOf, ById
<1> HIDE DEF K
<1>3. f \in Bijection(S, K)
  <2>1. f \in [S -> K]
    BY <1>1, <1>2
  <2>2. \A i, j \in S : f[i] = f[j] => i = j
    BY <1>1
  <2>3. \A k \in K : \E i \in S : f[i] = k
    <3>1. ASSUME NEW k \in K PROVE b[k] \in S /\ f[b[k]] = k
      BY <1>1, <1>2
    <3>2. QED
      BY <3>1
  <2> HIDE DEF f
  <2>4. QED
    BY <2>1, <2>2, <2>3 DEF Bijection, Injection, Surjection, IsInjective
<1> HIDE DEF f
<1>4. QED
  BY <1>3, FS_Bijection DEF K, ExistsBijection

\* The articles that carry a tag, as callers count them.
LEMMA CarriersSeen ==
    ASSUME NEW b, NEW w, NEW tag, Known(b, w), ByID = ById(b, w)
    PROVE  LET S == {i \in DOMAIN w : tag \in Range(w[i].tags)} IN
           Promise!Carriers(tag) = RanksOf(b, w, S)
BY DEF Promise!Carriers, RanksOf, ById, Range, Promise!Range

\* What a rename has done so far is a step of RenameOn on some carriers.
LEMMA RenameOnSeen ==
    ASSUME StoreInv, StoreInv', job.op = "rename", job' = NoJob, UNCHANGED <<rows, born>>
    PROVE  LET S == {i \in Live : job.from \in Range(job.was[i].tags)}
               K == RanksOf(born, job.was, S \ Range(job.left))
           IN /\ Promise!RenameOn(K, job.from, job.to)
              /\ K \subseteq Promise!Carriers(job.from)
              /\ job.left = <<>> => /\ K = Promise!Carriers(job.from)
                                    /\ Cardinality(K) = job.n
              /\ UNCHANGED BySlug
<1> DEFINE S == {i \in Live : job.from \in Range(job.was[i].tags)}
           D == S \ Range(job.left)
           K == RanksOf(born, job.was, D)
<1>1. /\ Renamed(job.was, rows, D, job.from, job.to)
      /\ IsFiniteSet(S) /\ job.n + Len(job.left) = Cardinality(S)
      /\ Settled = job.was /\ DOMAIN job.was = Live
  BY RenamedSoFar
<1>2. /\ Known(born, job.was) /\ ByID = ById(born, job.was)
      /\ ByID' = ById(born, rows) /\ BySlug' = BySlug
  <2>1. ViewOK /\ ViewOK' /\ Settled' = rows
    BY Views, ViewsNext DEF Settled, NoJob
  <2>2. BySlug' = BySlug
    BY DEF BySlug, Rank, GetArticleBySlug, Live
  <2>3. QED
    BY <1>1, <2>1, <2>2 DEF ViewOK
<1>3. Promise!Carriers(job.from) = RanksOf(born, job.was, S)
  BY <1>1, <1>2, CarriersSeen
<1>4. Renamed(ByID, ByID', K, job.from, job.to)
  <2> HIDE DEF D
  <2>1. QED
    BY <1>1, <1>2, RenamedView
<1> HIDE DEF S
<1>5. Promise!RenameOn(K, job.from, job.to)
  <2> HIDE DEF K
  <2>1. QED
    BY <1>4, SameRewriting DEF Renamed, Promise!RenameOn
<1>6. K \subseteq Promise!Carriers(job.from)
  <2>1. D \subseteq S
    OBVIOUS
  <2> HIDE DEF D
  <2>2. RanksOf(born, job.was, D) \subseteq RanksOf(born, job.was, S)
    BY <2>1 DEF RanksOf
  <2>3. QED
    BY <1>3, <2>2
<1>7. ASSUME job.left = <<>> PROVE K = Promise!Carriers(job.from) /\ Cardinality(K) = job.n
  <2>1. D = S /\ S \in SUBSET DOMAIN job.was
    BY <1>1, <1>7 DEF Range, S
  <2>2. Cardinality(K) = Cardinality(S)
    BY <1>1, <1>2, <2>1, RanksCount
  <2>3. job.n + 0 = Cardinality(S) /\ job.n \in Nat
    BY <1>1, <1>7 DEF StoreInv, Renaming
  <2>4. QED
    BY <1>3, <2>1, <2>2, <2>3
<1>8. QED
  BY <1>2, <1>5, <1>6, <1>7 DEF S

LEMMA SameCount ==
    ASSUME NEW S
    PROVE  Promise!Cardinality(S) = Cardinality(S)
BY DEF Cardinality, Promise!Cardinality

LEMMA RenameTagSeen ==
    ASSUME NEW from, NEW to, NEW ids, NoTag \notin {from, to},
           ids = IF from = to THEN {} ELSE Promise!Carriers(from),
           Promise!RenameOn(ids, from, to), Told' = Promise!Ok("RenameTag", 0, Cardinality(ids)),
           UNCHANGED <<born, BySlug, redirects, users, settings>>
    PROVE  Promise!RenameTag(from, to)
<1>1. Promise!Cardinality(ids) = Cardinality(ids)
  BY SameCount
<1>2. QED
  BY <1>1 DEF Promise!RenameTag, Promise!RenameOn

LEMMA RenameReturnSeen ==
    ASSUME StoreInv, StoreInv', RenameReturn
    PROVE  \E from, to \in Tags \cup {NoTag} : Promise!RenameTag(from, to)
<1>1. /\ job.op = "rename" /\ job.left = <<>> /\ job' = NoJob /\ reply' = Answer("RenameTag", "none", 0, job.n)
      /\ UNCHANGED <<rows, born, redirects, users, settings>>
  BY DEF RenameReturn, Ok
<1>2. /\ job.from \in Tags /\ job.to \in Tags /\ job.from # job.to /\ NoTag \notin Tags
  BY <1>1, RenamedSoFar, PgStoreAssumption DEF PgStoreAssumption
<1>3. /\ Promise!RenameOn(Promise!Carriers(job.from), job.from, job.to)
      /\ Cardinality(Promise!Carriers(job.from)) = job.n /\ UNCHANGED BySlug
  BY <1>1, RenameOnSeen
<1>4. Told' = Promise!Ok("RenameTag", 0, job.n)
  BY <1>1, ToldPlain DEF Promise!Ok, Promise!Answer
<1>5. Promise!RenameTag(job.from, job.to)
  BY <1>1, <1>2, <1>3, <1>4, RenameTagSeen
<1>6. QED
  BY <1>2, <1>5

LEMMA RenameListSeen ==
    ASSUME StoreInv, StoreInv', NEW from \in Tags \cup {NoTag}, NEW to \in Tags \cup {NoTag},
           RenameList(from, to)
    PROVE  Promise!RenameTag(from, to) \/ UNCHANGED Promise!rvars
<1>1. Settled = rows /\ job = NoJob
  BY DEF RenameList, Quiet, Settled, NoJob
<1>2. CASE NoTag \in {from, to} /\ Refused("RenameTag", "ErrEmptyTag")
  <2>1. Settled' = Settled /\ UNCHANGED <<born, redirects, users, settings>>
        /\ reply' = Answer("RenameTag", "ErrEmptyTag", 0, 0)
    BY <1>1, <1>2 DEF Refused, Articles, Settled, NoJob
  <2>2. QED
    BY <1>2, <2>1, RefusedSeen DEF Promise!RenameTag
<1>3. CASE NoTag \notin {from, to} /\ from = to
  <2>1. /\ Settled' = Settled /\ UNCHANGED <<born, redirects, users, settings>>
        /\ reply' = Answer("RenameTag", "none", 0, 0)
    BY <1>1, <1>3 DEF RenameList, RenameTag, Articles, Settled, NoJob, Ok
  <2>2. UNCHANGED <<ByID, BySlug>>
    BY <2>1, ViewSame
  <2>3. Told' = Promise!Ok("RenameTag", 0, 0)
    BY <2>1, ToldPlain DEF Promise!Ok, Promise!Answer
  <2>4. Promise!RenameOn({}, from, to)
    <3>1. ByID = [k \in DOMAIN ByID |-> ByID[k]]
      BY DEF ByID
    <3>2. QED
      BY <2>2, <3>1 DEF Promise!RenameOn
  <2>5. Cardinality({}) = 0
    BY FS_EmptySet
  <2>6. QED
    BY <1>3, <2>1, <2>2, <2>3, <2>4, <2>5, RenameTagSeen
<1>4. CASE NoTag \notin {from, to} /\ from # to
  <2>1. Settled' = Settled /\ UNCHANGED <<born, redirects, users, settings, reply>>
    BY <1>1, <1>4 DEF RenameList, RenameTag, Settled
  <2>2. QED
    BY <2>1, Unseen
<1>5. QED
  BY <1>2, <1>3, <1>4 DEF RenameList

LEMMA RenameWriteSeen ==
    ASSUME StoreInv, StoreInv', RenameWrite
    PROVE  UNCHANGED Promise!rvars
<1>1. Settled = job.was /\ Settled' = job'.was
      /\ UNCHANGED <<born, redirects, users, settings, reply>>
  <2>1. job \in [op : {"rename"}, from : Tags, to : Tags, n : Nat,
                 was : [Live -> StoredRow], left : Seq(Live)]
    BY DEF RenameWrite, StoreInv, Renaming
  <2>2. job'.op = "rename"
    BY <2>1 DEF RenameWrite
  <2>3. QED
    BY <2>2 DEF RenameWrite, Settled
<1>2. job'.was = job.was
  <2>1. job \in [op : {"rename"}, from : Tags, to : Tags, n : Nat,
                 was : [Live -> StoredRow], left : Seq(Live)]
    BY DEF RenameWrite, StoreInv, Renaming
  <2>2. QED
    BY <2>1 DEF RenameWrite
<1>3. QED
  BY <1>1, <1>2, Unseen

\* A rename that fails has renamed some of the articles; any other call nothing.
LEMMA FailsSeen ==
    ASSUME StoreInv, StoreInv', Fails
    PROVE  \/ \E from, to \in Tags \cup {NoTag} : Promise!RenameFails(from, to)
           \/ \E call \in Promise!Calls : Promise!Refused(call, "failed")
<1>1. /\ job' = NoJob
      /\ UNCHANGED <<rows, born, redirects, users, settings>>
  BY DEF Fails
<1>2. CASE job.op = "rename"
  <2>1. PICK K : /\ Promise!RenameOn(K, job.from, job.to)
                 /\ K \subseteq Promise!Carriers(job.from) /\ UNCHANGED BySlug
    BY <1>1, <1>2, RenameOnSeen
  <2>2. Current = {"RenameTag"}
    BY <1>2 DEF Current
  <2>3. reply' = Answer("RenameTag", "failed", 0, 0)
    BY <2>2 DEF Fails
  <2>4. Told' = Promise!Err("RenameTag", "failed")
    BY <2>3, ToldPlain DEF Promise!Err, Promise!Answer
  <2>5. Promise!RenameFails(job.from, job.to)
    BY <1>1, <2>1, <2>4 DEF Promise!RenameFails
  <2>6. QED
    BY <1>2, <2>5, RenamedSoFar
<1>3. CASE job.op # "rename"
  <2>1. Settled' = Settled
    BY <1>1, <1>3 DEF Settled, NoJob
  <2>2. PICK call \in Current : reply' = Answer(call, "failed", 0, 0)
    BY DEF Fails
  <2>3. Current \subseteq Promise!Calls
    BY DEF Current, Calls, Promise!Calls
  <2>4. Promise!Refused(call, "failed")
    BY <1>1, <2>1, <2>2, RefusedSeen
  <2>5. QED
    BY <2>2, <2>3, <2>4
<1>4. QED
  BY <1>2, <1>3

LEMMA RedirectSeen ==
    ASSUME StoreInv, StoreInv', OthersOK, NEW from, NEW to, CreateRedirect(from, to)
    PROVE  Promise!CreateRedirect(from, to)
<1>1. Settled' = Settled /\ UNCHANGED <<born, users, settings>>
  BY DEF CreateRedirect, Settled
<1>2. UNCHANGED <<ByID, BySlug>>
  BY <1>1, ViewSame
<1>3. CASE NoPath \in {from, to}
  <2>1. reply' = Answer("CreateRedirect", "ErrEmptyPath", 0, 0) /\ UNCHANGED redirects
    BY <1>3 DEF CreateRedirect
  <2>2. QED
    BY <1>1, <1>3, <2>1, RefusedSeen DEF Promise!CreateRedirect
<1>4. CASE NoPath \notin {from, to}
  <2> DEFINE r == [from |-> from, to |-> to]
             old == {i \in DOMAIN redirects : redirects[i].from = from}
  <2>1. reply' = Answer("CreateRedirect", "none", 0, 0)
    BY <1>4 DEF CreateRedirect, Ok
  <2>2. Told' = Promise!Ok("CreateRedirect", 0, 0)
    BY <2>1, ToldPlain DEF Promise!Ok, Promise!Answer
  <2>3. redirects' = IF old = {} THEN Append(redirects, r)
                     ELSE [i \in DOMAIN redirects |-> IF i \in old THEN r ELSE redirects[i]]
    <3>1. \A i \in DOMAIN redirects : redirects[i] \in [from : Paths, to : Paths]
      <4> DEFINE Entry == [from : Paths, to : Paths]
      <4>1. redirects \in Seq(Entry)
        BY DEF OthersOK
      <4> HIDE DEF Entry
      <4>2. \A i \in DOMAIN redirects : redirects[i] \in Entry
        BY <4>1
      <4>3. QED
        BY <4>2 DEF Entry
    <3>2. \A i \in old : [redirects[i] EXCEPT !.to = to] = r
      BY <3>1
    <3>3. CASE old = {}
      BY <1>4, <3>3 DEF CreateRedirect
    <3>4. CASE old # {}
      BY <1>4, <3>2, <3>4 DEF CreateRedirect
    <3>5. QED
      BY <3>3, <3>4
  <2>4. QED
    BY <1>1, <1>2, <1>4, <2>2, <2>3 DEF Promise!CreateRedirect
<1>5. QED
  BY <1>3, <1>4

LEMMA UnredirectSeen ==
    ASSUME StoreInv, StoreInv', NEW from, DeleteRedirect(from)
    PROVE  Promise!DeleteRedirect(from)
<1>1. Settled' = Settled /\ UNCHANGED <<born, users, settings>>
  BY DEF DeleteRedirect, Settled
<1>2. UNCHANGED <<ByID, BySlug>>
  BY <1>1, ViewSame
<1>3. CASE /\ \A i \in DOMAIN redirects : redirects[i].from # from
           /\ reply' = Answer("DeleteRedirect", "ErrNotFound", 0, 0) /\ UNCHANGED redirects
  BY <1>1, <1>3, RefusedSeen DEF Promise!DeleteRedirect
<1>4. CASE \E i \in DOMAIN redirects : /\ redirects[i].from = from
                                       /\ redirects' = RemoveAt(redirects, i)
                                       /\ reply' = Answer("DeleteRedirect", "none", 0, 0)
  <2>1. Told' = Promise!Ok("DeleteRedirect", 0, 0)
    BY <1>4, ToldPlain DEF Promise!Ok, Promise!Answer
  <2>2. \A i : Promise!RemoveAt(redirects, i) = RemoveAt(redirects, i)
    BY DEF RemoveAt, Promise!RemoveAt
  <2>3. QED
    BY <1>1, <1>2, <1>4, <2>1, <2>2 DEF Promise!DeleteRedirect
<1>5. QED
  BY <1>3, <1>4 DEF DeleteRedirect, Ok

LEMMA SettingsSeen ==
    ASSUME IInv, StoreInv, StoreInv', SaveWrite
    PROVE  \E key \in Keys, value \in Values \cup {Unset} : Promise!SetSetting(key, value)
<1>1. /\ job \in [op : {"save"}, form : Forms, left : Seq(Keys) \ {<<>>}]
      /\ settings' = [settings EXCEPT ![Head(job.left)] = job.form[Head(job.left)]]
      /\ job' = NoJob \/ job' = [job EXCEPT !.left = Tail(@)]
      /\ reply' = Answer("SetSetting", "none", 0, 0)
      /\ UNCHANGED <<rows, born, redirects, users>>
  BY DEF SaveWrite, IInv, JobOK, NoJob, Ok
<1>2. Settled' = Settled
  BY <1>1 DEF Settled, NoJob
<1>3. UNCHANGED <<ByID, BySlug>>
  BY <1>1, <1>2, ViewSame
<1>4. Told' = Promise!Ok("SetSetting", 0, 0)
  BY <1>1, ToldPlain DEF Promise!Ok, Promise!Answer
<1>5. Head(job.left) \in Keys /\ job.form[Head(job.left)] \in Values \cup {Unset}
  <2>1. job.left \in Seq(Keys) /\ job.left # <<>> /\ job.form \in [Keys -> Values \cup {Unset}]
    BY <1>1 DEF Forms
  <2>2. QED
    BY <2>1
<1>6. Promise!SetSetting(Head(job.left), job.form[Head(job.left)])
  BY <1>1, <1>3, <1>4 DEF Promise!SetSetting
<1>7. QED
  BY <1>5, <1>6

LEMMA AdminSeen ==
    ASSUME StoreInv, StoreInv', NEW s \in Servers, BootCreate(s)
    PROVE  Promise!CreateUser(Admin, HashOf[s])
<1>1. Settled' = Settled /\ UNCHANGED <<born, redirects, settings>>
  BY DEF BootCreate, Settled
<1>2. UNCHANGED <<ByID, BySlug>>
  BY <1>1, ViewSame
<1>3. CASE Admin \in DOMAIN users
  <2>1. reply' = Answer("CreateUser", "ErrDuplicateUsername", 0, 0) /\ UNCHANGED users
    BY <1>3 DEF BootCreate
  <2>2. QED
    BY <1>1, <1>3, <2>1, RefusedSeen DEF Promise!CreateUser
<1>4. CASE Admin \notin DOMAIN users
  <2>1. /\ users' = [u \in DOMAIN users \cup {Admin} |-> IF u = Admin THEN HashOf[s] ELSE users[u]]
        /\ reply' = Answer("CreateUser", "none", 0, 0)
    BY <1>4 DEF BootCreate, Ok
  <2>2. Told' = Promise!Ok("CreateUser", 0, 0)
    BY <2>1, ToldPlain DEF Promise!Ok, Promise!Answer
  <2>3. QED
    BY <1>1, <1>2, <1>4, <2>1, <2>2 DEF Promise!CreateUser
<1>5. QED
  BY <1>3, <1>4

LEMMA InitSeen == Init => Promise!Init
<1> SUFFICES ASSUME Init PROVE Promise!Init
  OBVIOUS
<1>1. rows = <<>> /\ born = <<>> /\ reply = Answer("start", "none", 0, 0)
  BY DEF Init, Ok
<1>2. ByID = <<>>
  BY <1>1 DEF ByID
<1>3. BySlug = <<>>
  BY <1>1 DEF BySlug, Live
<1>4. Told = Promise!Ok("start", 0, 0)
  BY <1>1 DEF Told, Rank, Answer, Promise!Ok, Promise!Answer
<1>5. Len(born) = 0
  BY <1>1
<1>6. QED
  BY <1>2, <1>3, <1>4, <1>5 DEF Init, Promise!Init

LEMMA NextSeen ==
    ASSUME IInv, StoreInv, StoreInv', OthersOK, [Next]_vars
    PROVE  [Promise!Next]_Promise!rvars
<1>1. CASE \E a \in Row : CreateArticle(a)
  <2>1. \A a : a \in Row => a \in Promise!Row
    BY DEF Row, Promise!Row
  <2>2. QED
    BY <1>1, <2>1, CreateSeen DEF Promise!Next
<1>2. CASE \E id \in 1..MaxIds, a \in Row : UpdateArticle(id, a)
  <2>1. \A a : a \in Row => a \in Promise!Row
    BY DEF Row, Promise!Row
  <2>2. QED
    BY <1>2, <2>1, UpdateSeen DEF Promise!Next
<1>3. CASE \E id \in 1..MaxIds : DeleteArticle(id)
  BY <1>3, DeleteSeen DEF Promise!Next
<1>4. CASE \E from, to \in Tags \cup {NoTag} : RenameList(from, to)
  BY <1>4, RenameListSeen DEF Promise!Next
<1>5. CASE RenameWrite
  BY <1>5, RenameWriteSeen
<1>6. CASE RenameReturn
  BY <1>6, RenameReturnSeen DEF Promise!Next
<1>7. CASE \E from, to \in Paths \cup {NoPath} : CreateRedirect(from, to)
  BY <1>7, RedirectSeen DEF Promise!Next
<1>8. CASE \E from \in Paths : DeleteRedirect(from)
  BY <1>8, UnredirectSeen DEF Promise!Next
<1>9. CASE \E form \in Forms : SaveStart(form)
  <2>1. Settled' = Settled /\ UNCHANGED <<born, redirects, users, settings, reply>>
    BY <1>9 DEF SaveStart, Quiet, NoJob, Settled
  <2>2. QED
    BY <2>1, Unseen
<1>10. CASE SaveWrite
  BY <1>10, SettingsSeen DEF Promise!Next
<1>11. CASE Fails
  BY <1>11, FailsSeen DEF Promise!Next
<1>12. CASE \E s \in Servers : BootCreate(s)
  BY <1>12, AdminSeen DEF Promise!Next
<1>13. CASE \E s \in Servers : BootLook(s) \/ ServerStops(s)
  <2>1. Settled' = Settled /\ UNCHANGED <<born, redirects, users, settings, reply>>
    BY <1>13 DEF BootLook, ServerStops, Settled
  <2>2. QED
    BY <2>1, Unseen
<1>14. CASE UNCHANGED vars
  <2>1. Settled' = Settled /\ UNCHANGED <<born, redirects, users, settings, reply>>
    BY <1>14 DEF vars, Settled
  <2>2. QED
    BY <2>1, Unseen
<1>15. QED
  BY <1>1, <1>2, <1>3, <1>4, <1>5, <1>6, <1>7, <1>8, <1>9, <1>10, <1>11, <1>12, <1>13, <1>14
  DEF Next, ArticleCall, OtherCall, Forms

\* For any tables, callers, failures and servers, the PostgreSQL store does what
\* store.Repository promises: each of its steps, failed statements included, is
\* one of the in-memory store or changes nothing a caller can see, with ids read
\* as ranks and a rename taking effect when it returns.
THEOREM PromiseKept == Spec => KeepsPromise
<1>1. Init => OthersOK
  BY DEF Init, OthersOK
<1>2. QED
  BY <1>1, NextOthers, InitSeen, NextSeen, Inductive, StoreInductive, PTL
  DEF Spec, KeepsPromise, Promise!Spec

-----------------------------------------------------------------------------
(* What reads return *)

\* A set in an order: the list s of it, for a set R of pairs.
InOrder(s, T, R, n) ==
    /\ s \in [1..n -> T] /\ Range(s) = T
    /\ \A j, k \in 1..n : j < k => <<s[j], s[k]>> \in R

Earlier(T, R, y) == {x \in T : <<x, y>> \in R}

OneWay(T, R) == \A i, j \in T : <<i, j>> \in R => <<j, i>> \notin R

\* Before the k-th of a list in order are k - 1.
LEMMA PlaceInOrder ==
    ASSUME NEW T, NEW R, NEW n \in Nat, NEW s, NEW k \in 1..n, InOrder(s, T, R, n),
           OneWay(T, R)
    PROVE  Cardinality(Earlier(T, R, s[k])) = k - 1
<1> DEFINE A == Earlier(T, R, s[k])
           f == [j \in 1..k - 1 |-> s[j]]
<1>1. /\ s \in [1..n -> T] /\ \A x \in T : \E j \in 1..n : s[j] = x
      /\ A = {x \in T : <<x, s[k]>> \in R}
  BY DEF InOrder, Range, Earlier
<1> HIDE DEF A
<1>2. \A j \in 1..k - 1 : j \in 1..n /\ s[j] \in A
  BY <1>1 DEF InOrder
<1>3. ASSUME NEW i \in 1..n, NEW j \in 1..n, i # j PROVE s[i] # s[j]
  <2>1. i < j \/ j < i
    BY <1>3
  <2>2. QED
    BY <1>1, <2>1 DEF InOrder, OneWay
<1>4. ASSUME NEW x \in A PROVE \E j \in 1..k - 1 : s[j] = x
  <2>1. PICK j \in 1..n : s[j] = x
    BY <1>1
  <2>2. x \in T /\ <<s[j], s[k]>> \in R
    BY <1>1, <2>1
  <2>3. ~(k < j) /\ j # k
    BY <1>1, <2>1, <2>2 DEF InOrder, OneWay
  <2>4. j \in 1..k - 1
    BY <2>3
  <2>5. QED
    BY <2>1, <2>4
<1> HIDE DEF A
<1>5. f \in Bijection(1..k - 1, A)
  <2>1. f \in [1..k - 1 -> A]
    BY <1>2
  <2>2. \A i, j \in 1..k - 1 : f[i] = f[j] => i = j
    BY <1>2, <1>3
  <2>3. \A x \in A : \E j \in 1..k - 1 : f[j] = x
    BY <1>4
  <2> HIDE DEF f
  <2>4. QED
    BY <2>1, <2>2, <2>3 DEF Bijection, Injection, Surjection, IsInjective
<1> HIDE DEF f
<1>6. IsFiniteSet(1..k - 1) /\ Cardinality(1..k - 1) = k - 1
  <2>1. k - 1 \in Nat
    OBVIOUS
  <2>2. PICK m \in Nat : m = k - 1
    BY <2>1
  <2>3. IsFiniteSet(1..m) /\ Cardinality(1..m) = m
    BY FS_Interval
  <2>4. QED
    BY <2>2, <2>3
<1>7. QED
  BY <1>5, <1>6, FS_Bijection DEF A, ExistsBijection

\* So a set has one list in an order.
LEMMA OneOrder ==
    ASSUME NEW T, NEW R, NEW n \in Nat, NEW s, NEW r, InOrder(s, T, R, n), InOrder(r, T, R, n),
           OneWay(T, R)
    PROVE  s = r
<1>1. /\ s \in [1..n -> T] /\ r \in [1..n -> T]
      /\ \A x \in T : \E j \in 1..n : r[j] = x
  BY DEF InOrder, Range
<1>2. ASSUME NEW k \in 1..n PROVE s[k] = r[k]
  <2>1. PICK j \in 1..n : r[j] = s[k]
    BY <1>1
  <2>2. Cardinality(Earlier(T, R, s[k])) = k - 1
    BY PlaceInOrder
  <2>3. Cardinality(Earlier(T, R, r[j])) = j - 1
    BY PlaceInOrder
  <2>4. j = k
    BY <2>1, <2>2, <2>3
  <2>5. QED
    BY <2>1, <2>4
<1>3. QED
  BY <1>1, <1>2

\* Outside a rename: the rows as they are, in the order of creation.
LEMMA RowsSeen ==
    ASSUME StoreInv, Quiet
    PROVE  /\ Known(born, rows) /\ ByID = ById(born, rows)
           /\ \A id : Rank(id) = RankIn(born, id)
           /\ \A i \in Live : /\ RankIn(born, i) \in DOMAIN ByID /\ born[RankIn(born, i)] = i
                              /\ ByID[RankIn(born, i)] = rows[i]
           /\ \A k \in DOMAIN ByID : /\ born[k] \in Live /\ ByID[k] = rows[born[k]]
                                     /\ RankIn(born, born[k]) = k
<1>1. ViewOK
  BY Views
<1>2. Settled = rows
  BY DEF Quiet, NoJob, Settled
<1>3. /\ Known(born, rows) /\ ByID = ById(born, rows)
      /\ \A id : Rank(id) = RankIn(born, id)
  BY <1>1, <1>2 DEF ViewOK
<1>4. /\ \A k \in DOMAIN born : RankIn(born, born[k]) = k
      /\ \A i \in DOMAIN rows : RankIn(born, i) \in DOMAIN born /\ born[RankIn(born, i)] = i
  BY <1>3, Ranks
<1>5. \A k \in DOMAIN ByID : /\ born[k] \in Live /\ ByID[k] = rows[born[k]]
                             /\ RankIn(born, born[k]) = k
  BY <1>3, <1>4 DEF ById, Live
<1>6. \A i \in Live : /\ RankIn(born, i) \in DOMAIN ByID /\ born[RankIn(born, i)] = i
                      /\ ByID[RankIn(born, i)] = rows[i]
  BY <1>3, <1>4 DEF ById, Live
<1>7. QED
  BY <1>3, <1>5, <1>6

\* Ranks keep the order of the articles.
LEMMA OrderSeen ==
    ASSUME StoreInv, Quiet, NEW i \in Live, NEW j \in Live
    PROVE  Order(i, j) <=> Promise!Before(RankIn(born, i), RankIn(born, j))
<1>1. PICK k, l : k = RankIn(born, i) /\ l = RankIn(born, j)
  OBVIOUS
<1>2. /\ k \in DOMAIN ByID /\ born[k] = i /\ ByID[k] = rows[i]
      /\ l \in DOMAIN ByID /\ born[l] = j /\ ByID[l] = rows[j]
  BY <1>1, RowsSeen
<1>3. k \in DOMAIN born /\ l \in DOMAIN born
  BY <1>2 DEF ByID
<1>4. /\ k \in Nat /\ l \in Nat /\ i \in Nat /\ j \in Nat
  <2>1. seq \in Nat /\ born \in Seq(1..seq)
    BY PgStoreAssumption DEF StoreInv, IdsOK, PgStoreAssumption
  <2>2. QED
    BY <1>2, <1>3, <2>1
<1>5. /\ k < l => i < j
      /\ l < k => j < i
      /\ k = l => i = j
  <2>1. \A m, n \in DOMAIN born : m < n => born[m] < born[n]
    BY DEF StoreInv, IdsOK
  <2>2. QED
    BY <1>2, <1>3, <2>1
<1>6. i > j <=> k > l
  BY <1>4, <1>5
<1>7. QED
  BY <1>1, <1>2, <1>6 DEF Order, Promise!Before

\* A list of articles is, in ranks, the list of their ranks.
LEMMA ListSeen ==
    ASSUME StoreInv, Quiet, NEW S \in SUBSET Live
    PROVE  /\ Ranked(Sorted(S)) = Promise!Sorted(RanksOf(born, rows, S))
           /\ Sorted(S) \in Seq(S) /\ Range(Sorted(S)) = S /\ IsInjective(Sorted(S))
<1>1. /\ IsFiniteSet(S) /\ Live \subseteq Nat /\ rows \in [Live -> StoredRow]
  BY LiveFinite, FS_Subset DEF StoreInv, RowsOK
<1>2. PICK n \in Nat : n = Cardinality(S)
  BY <1>1, FS_CardinalityType
<1>3. PICK s : s = Sorted(S)
  OBVIOUS
<1>4. /\ s \in Seq(S) /\ Len(s) = n /\ Range(s) = S /\ IsInjective(s)
      /\ \A j, k \in DOMAIN s : j < k => Order(s[j], s[k])
  BY <1>1, <1>2, <1>3, SortedOnce
<1>5. DOMAIN s = 1..n /\ \A k \in 1..n : s[k] \in S
  BY <1>4
<1>6. PICK T : T = RanksOf(born, rows, S)
  OBVIOUS
<1>7. /\ \A i \in S : RankIn(born, i) \in T
      /\ \A k \in T : born[k] \in S /\ RankIn(born, born[k]) = k
      /\ Cardinality(T) = n
  <2>1. S \in SUBSET DOMAIN rows
    BY DEF Live
  <2>2. Cardinality(T) = n
    BY <1>1, <1>2, <1>6, <2>1, RowsSeen, RanksCount
  <2>3. T = {k \in DOMAIN ByID : born[k] \in S}
    BY <1>6, RowsSeen DEF RanksOf
  <2>4. QED
    BY <2>2, <2>3, RowsSeen
<1>8. PICK r : r = Ranked(s)
  OBVIOUS
<1>9. r \in [1..n -> T] /\ \A k \in 1..n : r[k] = RankIn(born, s[k])
  BY <1>5, <1>7, <1>8, RowsSeen DEF Ranked
<1>10. Range(r) = T
  <2>1. ASSUME NEW k \in T PROVE \E j \in 1..n : r[j] = k
    <3>1. PICK j \in 1..n : s[j] = born[k]
      BY <1>4, <1>5, <1>7, <2>1 DEF Range
    <3>2. QED
      BY <1>7, <1>9, <2>1, <3>1
  <2>2. QED
    BY <1>9, <2>1 DEF Range
<1>11. \A j, k \in 1..n : j < k => Promise!Before(r[j], r[k])
  <2>1. ASSUME NEW j \in 1..n, NEW k \in 1..n, j < k PROVE Promise!Before(r[j], r[k])
    <3>1. Order(s[j], s[k]) /\ s[j] \in Live /\ s[k] \in Live
      BY <1>4, <1>5, <2>1
    <3>2. Promise!Before(RankIn(born, s[j]), RankIn(born, s[k]))
      BY <3>1, OrderSeen
    <3>3. QED
      BY <1>9, <3>2
  <2>2. QED
    BY <2>1
<1> DEFINE R == {p \in T \X T : Promise!Before(p[1], p[2])}
<1>12. ASSUME NEW i \in T, NEW j \in T, <<i, j>> \in R PROVE <<j, i>> \notin R
  <2>1. /\ born[i] \in Live /\ born[j] \in Live
        /\ RankIn(born, born[i]) = i /\ RankIn(born, born[j]) = j
    BY <1>7
  <2>2. Promise!Before(i, j)
    BY <1>12
  <2>3. Order(born[i], born[j])
    BY <2>1, <2>2, OrderSeen
  <2>4. ~Order(born[j], born[i])
    BY <1>1, <2>1, <2>3, OrderTotal
  <2>5. ~Promise!Before(j, i)
    BY <2>1, <2>4, OrderSeen
  <2>6. QED
    BY <2>5
<1>13. \A x, y \in T : <<x, y>> \in R <=> Promise!Before(x, y)
  OBVIOUS
<1> HIDE DEF R
<1> DEFINE Sorts(p) == /\ Range(p) = T
                       /\ \A j, k \in DOMAIN p : j < k => Promise!Before(p[j], p[k])
<1>14. Promise!Sorted(T) = CHOOSE p \in [1..n -> T] : Sorts(p)
  <2>1. Promise!Cardinality(T) = n
    BY <1>7, SameCount
  <2>2. \A p : Promise!Range(p) = Range(p)
    BY DEF Promise!Range, Range
  <2>3. QED
    BY <2>1, <2>2 DEF Promise!Sorted
<1>15. r \in [1..n -> T] /\ Sorts(r)
  BY <1>9, <1>10, <1>11
<1>16. \A p \in [1..n -> T] : Sorts(p) => InOrder(p, T, R, n)
  BY <1>13 DEF InOrder
<1> HIDE DEF Sorts
<1>17. PICK p \in [1..n -> T] : Sorts(p) /\ p = Promise!Sorted(T)
  BY <1>14, <1>15
<1>18. InOrder(p, T, R, n) /\ InOrder(r, T, R, n)
  BY <1>15, <1>16, <1>17
<1>19. r = p
  <2>1. OneWay(T, R)
    BY <1>12 DEF OneWay
  <2>2. QED
    BY <1>18, <2>1, OneOrder
<1>20. QED
  BY <1>3, <1>4, <1>6, <1>8, <1>17, <1>19

\* An offset that fits in 32 bits stays what it is.
LEMMA OffsetFits ==
    ASSUME NEW n \in 0..Int32Max
    PROVE  Int32(n) = n
<1>1. PICK b \in Nat : b = Int32Max + 1
  BY PgStoreAssumption DEF PgStoreAssumption
<1>2. PICK x \in Nat : x = n + b
  BY <1>1
<1>3. PICK c \in Nat \ {0} : c = 2 * b /\ x < c
  BY <1>1, <1>2, PgStoreAssumption DEF PgStoreAssumption
<1>4. x % c = x
  BY <1>3
<1>5. QED
  BY <1>1, <1>2, <1>3, <1>4, PgStoreAssumption DEF Int32, PgStoreAssumption

\* LIMIT and OFFSET cut what the in-memory store cuts.
LEMMA SamePage ==
    ASSUME NEW S, NEW s \in Seq(S), NEW lo \in Nat, NEW limit \in Nat
    PROVE  LET n == Len(s)
               last == IF limit = 0 THEN n ELSE lo + limit
               rest == IF lo >= n THEN <<>> ELSE SubSeq(s, lo + 1, n)
           IN SubSeq(s, lo + 1, IF last < n THEN last ELSE n) =
                IF limit \in 1..Len(rest) THEN SubSeq(rest, 1, limit) ELSE rest
<1>1. PICK n \in Nat : n = Len(s)
  BY LenProperties
<1>2. PICK last \in Nat : last = IF limit = 0 THEN n ELSE lo + limit
  OBVIOUS
<1>3. PICK rest : rest = IF lo >= n THEN <<>> ELSE SubSeq(s, lo + 1, n)
  OBVIOUS
<1>4. PICK hi \in Nat : hi = IF last < n THEN last ELSE n
  OBVIOUS
<1>5. SubSeq(s, lo + 1, hi) = IF limit \in 1..Len(rest) THEN SubSeq(rest, 1, limit) ELSE rest
  <2>1. CASE lo >= n
    <3>1. rest = <<>> /\ Len(rest) = 0 /\ limit \notin 1..Len(rest)
      BY <1>3, <2>1
    <3>2. lo + 1 \in Int /\ hi \in Int /\ hi < lo + 1
      BY <1>4, <2>1
    <3>3. SubSeq(s, lo + 1, hi) = <<>>
      BY <3>2, SubSeqEmpty
    <3>4. QED
      BY <3>1, <3>3
  <2>2. CASE lo < n
    <3>1. PICK m \in 1..n : m = lo + 1
      BY <2>2
    <3>2. rest = SubSeq(s, m, n)
      BY <1>3, <2>2, <3>1
    <3>3. \A i \in m..n : s[i] \in S
      BY <1>1, <3>1
    <3>4. Len(rest) = n - m + 1
      BY <3>1, <3>2, <3>3, SubSeqProperties
    <3>5. CASE limit \in 1..Len(rest)
      <4>1. limit \in 1..n - m + 1 /\ 1 \in 1..n - m + 1 /\ m \in 1..Len(s) /\ n \in 1..Len(s)
        BY <1>1, <3>1, <3>4, <3>5
      <4>2. SubSeq(rest, 1, limit) = SubSeq(s, m + 1 - 1, m + limit - 1)
        BY <3>2, <4>1, SubSeqOfSubSeq
      <4>3. hi = m + limit - 1 /\ m + 1 - 1 = m
        BY <1>2, <1>4, <3>1, <4>1
      <4>4. QED
        BY <3>1, <3>5, <4>2, <4>3
    <3>6. CASE limit \notin 1..Len(rest)
      <4>1. hi = n
        BY <1>2, <1>4, <3>1, <3>4, <3>6
      <4>2. QED
        BY <3>1, <3>2, <3>6, <4>1
    <3>7. QED
      BY <3>5, <3>6
  <2>3. QED
    BY <2>1, <2>2
<1>6. QED
  BY <1>1, <1>2, <1>3, <1>4, <1>5

\* The ranks of a list.
LEMMA RankedList ==
    ASSUME NEW S, NEW s \in Seq(S)
    PROVE  /\ Ranked(s) \in Seq({Rank(i) : i \in S}) /\ Len(Ranked(s)) = Len(s)
           /\ DOMAIN Ranked(s) = 1..Len(s) /\ \A i \in 1..Len(s) : Ranked(s)[i] = Rank(s[i])
<1>1. PICK l \in Nat : l = Len(s)
  BY LenProperties
<1>2. DOMAIN s = 1..l /\ \A i \in 1..l : s[i] \in S
  BY <1>1
<1>3. PICK r : r = Ranked(s)
  OBVIOUS
<1>4. r = [i \in 1..l |-> Rank(s[i])]
  BY <1>2, <1>3 DEF Ranked
<1>5. r \in Seq({Rank(i) : i \in S}) /\ Len(r) = l
  BY <1>1, <1>2, <1>4
<1>6. QED
  BY <1>1, <1>3, <1>4, <1>5

\* A part of a list has the ranks of that part.
LEMMA RankedPart ==
    ASSUME NEW S, NEW s \in Seq(S), NEW m \in Nat \ {0}, NEW n \in 0..Len(s)
    PROVE  Ranked(SubSeq(s, m, n)) = SubSeq(Ranked(s), m, n)
<1>1. PICK l \in Nat : l = Len(s)
  BY LenProperties
<1>2. DOMAIN s = 1..l /\ \A i \in 1..l : s[i] \in S
  BY <1>1
<1>3. PICK r : r = Ranked(s)
  OBVIOUS
<1>4. \A i \in 1..l : r[i] = Rank(s[i])
  BY <1>1, <1>3, RankedList
<1>5. r \in Seq({Rank(i) : i \in S}) /\ Len(r) = l
  BY <1>1, <1>3, RankedList
<1>6. PICK p : p = SubSeq(s, m, n)
  OBVIOUS
<1>7. PICK q : q = SubSeq(r, m, n)
  OBVIOUS
<1>8. PICK k \in Nat : k = IF m <= n THEN n - m + 1 ELSE 0
  <2>1. n \in Nat /\ m \in Nat
    BY <1>1
  <2>2. (IF m <= n THEN n - m + 1 ELSE 0) \in Nat
    BY <2>1
  <2>3. QED
    BY <2>2
<1>9. \A i \in m..n : i \in 1..l
  BY <1>1
<1>10. p \in Seq(S) /\ Len(p) = k /\ \A i \in 1..k : p[i] = s[m + i - 1]
  <2>1. \A i \in m..n : s[i] \in S
    BY <1>2, <1>9
  <2>2. /\ p \in Seq(S) /\ Len(p) = IF m <= n THEN n - m + 1 ELSE 0
        /\ \A i \in 1..n - m + 1 : p[i] = s[m + i - 1]
    BY <1>6, <1>1, <2>1, SubSeqProperties
  <2>3. QED
    BY <1>1, <1>8, <2>2
<1>11. q \in Seq({Rank(i) : i \in S}) /\ Len(q) = k /\ \A i \in 1..k : q[i] = r[m + i - 1]
  <2>1. \A i \in m..n : r[i] \in {Rank(j) : j \in S}
    BY <1>2, <1>4, <1>9
  <2>2. /\ q \in Seq({Rank(i) : i \in S}) /\ Len(q) = IF m <= n THEN n - m + 1 ELSE 0
        /\ \A i \in 1..n - m + 1 : q[i] = r[m + i - 1]
    BY <1>7, <1>1, <2>1, SubSeqProperties
  <2>3. QED
    BY <1>1, <1>8, <2>2
<1>12. ASSUME NEW i \in 1..k PROVE q[i] = Rank(p[i])
  <2>1. m + i - 1 \in m..n
    BY <1>1, <1>8
  <2>2. m + i - 1 \in 1..l
    BY <1>9, <2>1
  <2>3. r[m + i - 1] = Rank(s[m + i - 1])
    BY <1>4, <2>2
  <2>4. QED
    BY <1>10, <1>11, <2>3
<1>13. Ranked(p) = q
  <2>1. DOMAIN p = 1..k /\ DOMAIN q = 1..k
    BY <1>10, <1>11
  <2>2. q = [i \in 1..k |-> q[i]]
    BY <1>11, <2>1
  <2>3. QED
    BY <1>12, <2>1, <2>2 DEF Ranked
<1>14. QED
  BY <1>3, <1>6, <1>7, <1>13

\* The two stores find the same articles.
LEMMA FoundSeen ==
    ASSUME StoreInv, Quiet, NEW q
    PROVE  {k \in DOMAIN ByID : Promise!Matches(q, ByID[k])} =
             RanksOf(born, rows, {i \in Live : Matches(q, rows[i])})
<1>1. \A a : Promise!Matches(q, a) <=> Matches(q, a)
  BY DEF Promise!Matches, Matches, Promise!NoFilter, NoFilter, Promise!Range, Range
<1>2. /\ ByID = ById(born, rows)
      /\ \A k \in DOMAIN ByID : born[k] \in Live /\ ByID[k] = rows[born[k]]
  BY RowsSeen
<1>3. RanksOf(born, rows, {i \in Live : Matches(q, rows[i])}) =
        {k \in DOMAIN ByID : born[k] \in {i \in Live : Matches(q, rows[i])}}
  BY <1>2 DEF RanksOf
<1>4. QED
  BY <1>1, <1>2, <1>3

\* Every page of every list.
LEMMA PageSeen ==
    ASSUME StoreInv, Quiet, NEW q, q.limit \in Nat, q.offset \in 0..Int32Max
    PROVE  LET page == ListArticles(q)
           IN [page EXCEPT !.items = Ranked(@)] = Promise!ListArticles(q)
<1>1. PICK S : S = {i \in Live : Matches(q, rows[i])}
  OBVIOUS
<1>2. PICK s : s = Sorted(S)
  OBVIOUS
<1>3. PICK r : r = Ranked(s)
  OBVIOUS
<1>4. S \in SUBSET Live
  BY <1>1
<1>5. s \in Seq(S) /\ r = Promise!Sorted(RanksOf(born, rows, S))
  BY <1>2, <1>3, <1>4, ListSeen
<1>6. PICK lo, limit : lo = q.offset /\ limit = q.limit
  OBVIOUS
<1>7. lo \in Nat /\ limit \in Nat /\ Int32(lo) = lo
  BY <1>6, OffsetFits, PgStoreAssumption DEF PgStoreAssumption
<1>8. PICK n \in Nat : n = Len(s)
  BY <1>5, LenProperties
<1>9. r \in Seq({Rank(i) : i \in S}) /\ Len(r) = n
  BY <1>3, <1>5, <1>8, RankedList
<1>10. PICK last \in Nat : last = IF limit = 0 THEN n ELSE lo + limit
  BY <1>7
<1>11. PICK hi \in 0..n : hi = IF last < n THEN last ELSE n
  OBVIOUS
<1>12. ListArticles(q) = [items |-> SubSeq(s, lo + 1, hi), total |-> n]
  <2> DEFINE all == Sorted({i \in Live : Matches(q, rows[i])})
             skip == Int32(q.offset)
             end == IF q.limit = 0 THEN Len(all) ELSE skip + q.limit
  <2>1. ListArticles(q) =
          IF skip < 0 THEN [items |-> <<>>, total |-> -1]
          ELSE [items |-> SubSeq(all, skip + 1, IF end < Len(all) THEN end ELSE Len(all)),
                total |-> Len(all)]
    BY DEF ListArticles
  <2>2. all = s /\ skip = lo /\ end = last
    BY <1>1, <1>2, <1>6, <1>7, <1>8, <1>10
  <2> HIDE DEF all, skip, end
  <2>3. QED
    BY <1>7, <1>8, <1>11, <2>1, <2>2
<1>13. PICK rest : rest = IF lo >= n THEN <<>> ELSE SubSeq(r, lo + 1, n)
  OBVIOUS
<1>14. PICK items : items = IF limit \in 1..Len(rest) THEN SubSeq(rest, 1, limit) ELSE rest
  OBVIOUS
<1>15. Promise!ListArticles(q) = [items |-> items, total |-> n]
  <2> DEFINE all == Promise!Sorted({k \in DOMAIN ByID : Promise!Matches(q, ByID[k])})
             left == IF q.offset >= Len(all) THEN <<>> ELSE SubSeq(all, q.offset + 1, Len(all))
  <2>1. Promise!ListArticles(q) =
          [items |-> IF q.limit \in 1..Len(left) THEN SubSeq(left, 1, q.limit) ELSE left,
           total |-> Len(all)]
    BY DEF Promise!ListArticles
  <2>2. all = r
    BY <1>1, <1>5, FoundSeen
  <2>3. left = rest
    BY <1>6, <1>9, <1>13, <2>2
  <2> HIDE DEF all, left
  <2>4. QED
    BY <1>6, <1>9, <1>14, <2>1, <2>2, <2>3
<1>16. SubSeq(r, lo + 1, hi) = items
  <2>1. LET m == Len(r)
            l == IF limit = 0 THEN m ELSE lo + limit
            rs == IF lo >= m THEN <<>> ELSE SubSeq(r, lo + 1, m)
        IN SubSeq(r, lo + 1, IF l < m THEN l ELSE m) =
             IF limit \in 1..Len(rs) THEN SubSeq(rs, 1, limit) ELSE rs
    BY <1>7, <1>9, SamePage
  <2>2. QED
    BY <1>9, <1>10, <1>11, <1>13, <1>14, <2>1
<1>17. Ranked(SubSeq(s, lo + 1, hi)) = SubSeq(r, lo + 1, hi)
  <2>1. PICK m \in Nat \ {0} : m = lo + 1
    BY <1>7
  <2>2. hi \in 0..Len(s) /\ s \in Seq(S)
    BY <1>5, <1>8
  <2>3. Ranked(SubSeq(s, m, hi)) = SubSeq(Ranked(s), m, hi)
    BY <2>2, RankedPart
  <2>4. QED
    BY <1>3, <2>1, <2>3
<1>18. PICK page : page = ListArticles(q)
  OBVIOUS
<1>19. PICK part : part = SubSeq(s, lo + 1, hi)
  OBVIOUS
<1>20. page = [items |-> part, total |-> n]
  BY <1>12, <1>18, <1>19
<1>21. [page EXCEPT !.items = Ranked(@)] = [items |-> Ranked(part), total |-> n]
  BY <1>20
<1>22. QED
  BY <1>15, <1>16, <1>17, <1>18, <1>19, <1>21

\* The article of a slug.
LEMMA SlugSeen ==
    ASSUME StoreInv, NEW s
    PROVE  Rank(GetArticleBySlug(s)) = Promise!GetArticleBySlug(s)
<1>1. DOMAIN BySlug = {rows[i].slug : i \in Live}
  BY DEF BySlug
<1>2. CASE s \in DOMAIN BySlug
  BY <1>2 DEF BySlug, Promise!GetArticleBySlug
<1>3. CASE s \notin DOMAIN BySlug
  <2>1. {i \in Live : rows[i].slug = s} = {}
    BY <1>1, <1>3
  <2>2. GetArticleBySlug(s) = 0
    BY <2>1 DEF GetArticleBySlug
  <2>3. QED
    BY <1>3, <2>2 DEF Rank, Promise!GetArticleBySlug
<1>4. QED
  BY <1>2, <1>3

\* The pairs of a list and a place in it, for lists of tags under indices.
Entries(I, tags) == UNION {{i} \X DOMAIN tags[i] : i \in I}

Counted(I, tags) ==
    [t \in {tags[e[1]][e[2]] : e \in Entries(I, tags)} |->
       Cardinality({e \in Entries(I, tags) : tags[e[1]][e[2]] = t})]

LEMMA EntryPairs ==
    ASSUME NEW I, NEW tags, NEW e
    PROVE  e \in Entries(I, tags) <=> e[1] \in I /\ e[2] \in DOMAIN tags[e[1]] /\ e = <<e[1], e[2]>>
BY DEF Entries

LEMMA EntriesFinite ==
    ASSUME NEW n \in Nat, NEW tags, \A i \in 1..n : tags[i] \in Seq(Tags)
    PROVE  IsFiniteSet(Entries(1..n, tags))
<1> DEFINE A == {{i} \X DOMAIN tags[i] : i \in 1..n}
           f == [i \in 1..n |-> {i} \X DOMAIN tags[i]]
<1>1. IsFiniteSet(A)
  <2>1. f \in Surjection(1..n, A)
    BY DEF Surjection
  <2>2. IsFiniteSet(1..n)
    BY FS_Interval
  <2> HIDE DEF f, A
  <2>3. QED
    BY <2>1, <2>2, FS_Surjection
<1>2. ASSUME NEW B \in A PROVE IsFiniteSet(B)
  <2>1. PICK i \in 1..n : B = {i} \X DOMAIN tags[i]
    OBVIOUS
  <2>2. PICK m \in Nat : DOMAIN tags[i] = 1..m
    <3>1. Len(tags[i]) \in Nat /\ DOMAIN tags[i] = 1..Len(tags[i])
      BY LenProperties
    <3>2. QED
      BY <3>1
  <2>3. IsFiniteSet(1..m)
    BY FS_Interval
  <2>4. IsFiniteSet({i})
    BY FS_Singleton
  <2>5. QED
    BY <2>1, <2>2, <2>3, <2>4, FS_Product
<1> HIDE DEF A
<1>3. IsFiniteSet(UNION A)
  BY <1>1, <1>2, FS_UNION
<1>4. QED
  BY <1>3 DEF A, Entries

\* The same lists of tags under other indices.
Renumbered(n, tags, J, other, h) ==
    /\ \A i \in 1..n : tags[i] \in Seq(Tags)
    /\ h \in [1..n -> J] /\ \A i, j \in 1..n : h[i] = h[j] => i = j
    /\ \A j \in J : \E i \in 1..n : h[i] = j
    /\ \A i \in 1..n : other[h[i]] = tags[i]

LEMMA SameCounts ==
    ASSUME NEW n \in Nat, NEW tags, NEW J, NEW other, NEW h, Renumbered(n, tags, J, other, h)
    PROVE  Counted(1..n, tags) = Counted(J, other)
<1>1. /\ \A i \in 1..n : tags[i] \in Seq(Tags)
      /\ h \in [1..n -> J] /\ \A i, j \in 1..n : h[i] = h[j] => i = j
      /\ \A j \in J : \E i \in 1..n : h[i] = j
      /\ \A i \in 1..n : other[h[i]] = tags[i]
  BY DEF Renumbered
<1>2. PICK E : E = Entries(1..n, tags)
  OBVIOUS
<1>3. PICK F : F = Entries(J, other)
  OBVIOUS
<1>4. /\ \A e \in E : e[1] \in 1..n /\ e[2] \in DOMAIN tags[e[1]] /\ e = <<e[1], e[2]>>
      /\ \A i \in 1..n : \A k \in DOMAIN tags[i] : <<i, k>> \in E
  BY <1>2, EntryPairs DEF Entries
<1>5. /\ \A e \in F : e[1] \in J /\ e[2] \in DOMAIN other[e[1]] /\ e = <<e[1], e[2]>>
      /\ \A j \in J : \A k \in DOMAIN other[j] : <<j, k>> \in F
  BY <1>3, EntryPairs DEF Entries
<1>6. ASSUME NEW i \in 1..n, NEW k \in DOMAIN tags[i]
      PROVE  <<h[i], k>> \in F /\ other[h[i]][k] = tags[i][k]
  BY <1>1, <1>5
<1>7. ASSUME NEW e \in F
      PROVE  \E i \in 1..n : /\ e = <<h[i], e[2]>> /\ e[2] \in DOMAIN tags[i]
                             /\ other[e[1]][e[2]] = tags[i][e[2]]
  <2>1. PICK i \in 1..n : h[i] = e[1]
    BY <1>1, <1>5
  <2>2. QED
    BY <1>1, <1>5, <2>1
<1> DEFINE Tag(e) == tags[e[1]][e[2]]
           TagO(e) == other[e[1]][e[2]]
<1>8. {Tag(e) : e \in E} = {TagO(e) : e \in F}
  <2>1. ASSUME NEW e \in E PROVE \E d \in F : TagO(d) = Tag(e)
    <3>1. <<h[e[1]], e[2]>> \in F /\ other[h[e[1]]][e[2]] = tags[e[1]][e[2]]
      BY <1>4, <1>6
    <3>2. QED
      BY <3>1
  <2>2. ASSUME NEW d \in F PROVE \E e \in E : TagO(d) = Tag(e)
    <3>1. PICK i \in 1..n : d[2] \in DOMAIN tags[i] /\ other[d[1]][d[2]] = tags[i][d[2]]
      BY <1>7
    <3>2. <<i, d[2]>> \in E
      BY <1>4, <3>1
    <3>3. QED
      BY <3>1, <3>2
  <2>3. QED
    BY <2>1, <2>2
<1>9. ASSUME NEW t
      PROVE  Cardinality({e \in E : Tag(e) = t}) = Cardinality({e \in F : TagO(e) = t})
  <2>1. PICK A : A = {e \in E : Tag(e) = t}
    OBVIOUS
  <2>2. PICK B : B = {e \in F : TagO(e) = t}
    OBVIOUS
  <2>3. IsFiniteSet(A)
    BY <1>1, <1>2, <2>1, EntriesFinite, FS_Subset
  <2> DEFINE g == [e \in A |-> <<h[e[1]], e[2]>>]
  <2>4. \A e \in A : g[e] \in B
    <3>1. ASSUME NEW e \in A PROVE <<h[e[1]], e[2]>> \in B
      <4>1. e \in E /\ tags[e[1]][e[2]] = t
        BY <2>1
      <4>2. <<h[e[1]], e[2]>> \in F /\ other[h[e[1]]][e[2]] = t
        BY <1>4, <1>6, <4>1
      <4>3. QED
        BY <2>2, <4>2
    <3>2. QED
      BY <3>1
  <2>5. ASSUME NEW d \in A, NEW e \in A, g[d] = g[e] PROVE d = e
    <3>1. d \in E /\ e \in E
      BY <2>1
    <3>2. h[d[1]] = h[e[1]] /\ d[2] = e[2]
      BY <2>5
    <3>3. d[1] = e[1]
      BY <1>1, <1>4, <3>1, <3>2
    <3>4. QED
      BY <1>4, <3>1, <3>2, <3>3
  <2>6. ASSUME NEW d \in B PROVE \E e \in A : g[e] = d
    <3>1. d \in F /\ other[d[1]][d[2]] = t
      BY <2>2
    <3>2. PICK i \in 1..n : /\ d = <<h[i], d[2]>> /\ d[2] \in DOMAIN tags[i]
                            /\ other[d[1]][d[2]] = tags[i][d[2]]
      BY <1>7, <3>1
    <3>3. <<i, d[2]>> \in A
      BY <1>4, <2>1, <3>1, <3>2
    <3>4. g[<<i, d[2]>>] = d
      BY <3>2, <3>3
    <3>5. QED
      BY <3>3, <3>4
  <2>7. g \in [A -> B]
    BY <2>4
  <2> HIDE DEF g
  <2>8. g \in Bijection(A, B)
    BY <2>5, <2>6, <2>7 DEF Bijection, Injection, Surjection, IsInjective
  <2>9. Cardinality(A) = Cardinality(B)
    BY <2>3, <2>8, FS_Bijection DEF ExistsBijection
  <2>10. QED
    BY <2>1, <2>2, <2>9
<1> DEFINE D == {Tag(e) : e \in E}
           Count(t) == Cardinality({e \in E : Tag(e) = t})
           DO == {TagO(e) : e \in F}
           CountO(t) == Cardinality({e \in F : TagO(e) = t})
<1>10. Counted(1..n, tags) = [t \in D |-> Count(t)]
  BY <1>2 DEF Counted
<1>11. Counted(J, other) = [t \in DO |-> CountO(t)]
  BY <1>3 DEF Counted
<1>12. D = DO /\ \A t : Count(t) = CountO(t)
  BY <1>8, <1>9
<1> HIDE DEF D, Count, DO, CountO
<1>13. QED
  BY <1>10, <1>11, <1>12

LEMMA TagsSeen ==
    ASSUME StoreInv, Quiet
    PROVE  ListTags = Promise!ListTags
<1>1. PICK q : q = [status |-> NoFilter, visibility |-> NoFilter, tag |-> NoFilter,
                    search |-> NoFilter, limit |-> 0, offset |-> 0]
  OBVIOUS
<1>2. PICK s : s = Sorted(Live)
  OBVIOUS
<1>3. ListArticles(q).items = s
  <2>1. {i \in Live : Matches(q, rows[i])} = Live
    BY <1>1 DEF Matches
  <2>2. q.limit = 0 /\ q.offset = 0
    BY <1>1
  <2>3. ListArticles(q).items = Sorted({i \in Live : Matches(q, rows[i])})
    BY <2>2, WholeList
  <2>4. QED
    BY <1>2, <2>1, <2>3
<1>4. s \in Seq(Live) /\ Range(s) = Live /\ IsInjective(s)
  BY <1>2, ListSeen
<1>5. PICK n \in Nat : n = Len(s)
  BY <1>4, LenProperties
<1>6. DOMAIN s = 1..n /\ \A k \in 1..n : s[k] \in Live
  BY <1>4, <1>5
<1>7. PICK tags : tags = [k \in 1..n |-> rows[s[k]].tags]
  OBVIOUS
<1>8. PICK other : other = [k \in DOMAIN ByID |-> ByID[k].tags]
  OBVIOUS
<1>9. PICK h : h = [k \in 1..n |-> RankIn(born, s[k])]
  OBVIOUS
<1>10. \A k \in 1..n : tags[k] \in Seq(Tags) /\ tags[k] = rows[s[k]].tags
  <2>1. rows \in [Live -> StoredRow]
    BY DEF StoreInv, RowsOK
  <2>2. QED
    BY <1>6, <1>7, <2>1 DEF StoredRow
<1>11. h \in [1..n -> DOMAIN ByID]
  BY <1>6, <1>9, RowsSeen
<1>12. \A i, j \in 1..n : h[i] = h[j] => i = j
  <2>1. ASSUME NEW i \in 1..n, NEW j \in 1..n, h[i] = h[j] PROVE i = j
    <3>1. born[h[i]] = s[i] /\ born[h[j]] = s[j]
      BY <1>6, <1>9, RowsSeen
    <3>2. QED
      BY <1>4, <1>6, <2>1, <3>1 DEF IsInjective
  <2>2. QED
    BY <2>1
<1>13. \A k \in DOMAIN ByID : \E i \in 1..n : h[i] = k
  <2>1. ASSUME NEW k \in DOMAIN ByID PROVE \E i \in 1..n : h[i] = k
    <3>1. born[k] \in Live /\ RankIn(born, born[k]) = k
      BY RowsSeen
    <3>2. PICK i \in 1..n : s[i] = born[k]
      BY <1>4, <1>6, <3>1 DEF Range
    <3>3. QED
      BY <1>9, <3>1, <3>2
  <2>2. QED
    BY <2>1
<1>14. \A i \in 1..n : other[h[i]] = tags[i]
  <2>1. ASSUME NEW i \in 1..n PROVE other[h[i]] = tags[i]
    <3>1. ByID[h[i]] = rows[s[i]]
      BY <1>6, <1>9, RowsSeen
    <3>2. QED
      BY <1>8, <1>10, <1>11, <3>1
  <2>2. QED
    BY <2>1
<1>15. Counted(1..n, tags) = Counted(DOMAIN ByID, other)
  <2>1. Renumbered(n, tags, DOMAIN ByID, other, h)
    BY <1>10, <1>11, <1>12, <1>13, <1>14 DEF Renumbered
  <2>2. QED
    BY <2>1, SameCounts
<1>16. ListTags = Counted(1..n, tags)
  <2> DEFINE items == ListArticles(q).items
             entries == UNION {{k} \X DOMAIN rows[items[k]].tags : k \in DOMAIN items}
  <2>1. ListTags = [t \in {rows[items[e[1]]].tags[e[2]] : e \in entries} |->
                      Cardinality({e \in entries : rows[items[e[1]]].tags[e[2]] = t})]
    BY <1>1 DEF ListTags
  <2>2. items = s
    BY <1>3
  <2> HIDE DEF items
  <2>3. entries = Entries(1..n, tags)
    BY <1>6, <1>10, <2>2 DEF Entries
  <2> HIDE DEF entries
  <2>4. \A e \in entries : rows[items[e[1]]].tags[e[2]] = tags[e[1]][e[2]]
    BY <1>10, <2>2, <2>3, EntryPairs
  <2> DEFINE E == Entries(1..n, tags)
             D == {rows[items[e[1]]].tags[e[2]] : e \in entries}
             Count(t) == Cardinality({e \in entries : rows[items[e[1]]].tags[e[2]] = t})
             DT == {tags[e[1]][e[2]] : e \in E}
             CountT(t) == Cardinality({e \in E : tags[e[1]][e[2]] = t})
  <2>5. D = DT
    BY <2>3, <2>4
  <2>6. ASSUME NEW t PROVE Count(t) = CountT(t)
    <3>1. {e \in entries : rows[items[e[1]]].tags[e[2]] = t} = {e \in E : tags[e[1]][e[2]] = t}
      BY <2>3, <2>4
    <3>2. QED
      BY <3>1
  <2>7. ListTags = [t \in D |-> Count(t)] /\ Counted(1..n, tags) = [t \in DT |-> CountT(t)]
    BY <2>1 DEF Counted
  <2> HIDE DEF D, Count, DT, CountT
  <2>8. QED
    BY <2>5, <2>6, <2>7
<1>17. Promise!ListTags = Counted(DOMAIN ByID, other)
  <2> DEFINE entries == UNION {{k} \X DOMAIN ByID[k].tags : k \in DOMAIN ByID}
  <2>1. Promise!ListTags = [t \in {ByID[e[1]].tags[e[2]] : e \in entries} |->
                      Promise!Cardinality({e \in entries : ByID[e[1]].tags[e[2]] = t})]
    BY DEF Promise!ListTags
  <2>2. \A k \in DOMAIN ByID : other[k] = ByID[k].tags
    BY <1>8
  <2>3. entries = Entries(DOMAIN ByID, other)
    BY <2>2 DEF Entries
  <2> HIDE DEF entries
  <2>4. \A e \in entries : ByID[e[1]].tags[e[2]] = other[e[1]][e[2]]
    BY <2>2, <2>3, EntryPairs
  <2> DEFINE E == Entries(DOMAIN ByID, other)
             D == {ByID[e[1]].tags[e[2]] : e \in entries}
             Count(t) == Promise!Cardinality({e \in entries : ByID[e[1]].tags[e[2]] = t})
             DT == {other[e[1]][e[2]] : e \in E}
             CountT(t) == Cardinality({e \in E : other[e[1]][e[2]] = t})
  <2>5. D = DT
    BY <2>3, <2>4
  <2>6. ASSUME NEW t PROVE Count(t) = CountT(t)
    <3>1. {e \in entries : ByID[e[1]].tags[e[2]] = t} = {e \in E : other[e[1]][e[2]] = t}
      BY <2>3, <2>4
    <3>2. QED
      BY <3>1, SameCount
  <2>7. Promise!ListTags = [t \in D |-> Count(t)] /\ Counted(DOMAIN ByID, other) = [t \in DT |-> CountT(t)]
    BY <2>1 DEF Counted
  <2> HIDE DEF D, Count, DT, CountT
  <2>8. QED
    BY <2>5, <2>6, <2>7
<1>18. QED
  BY <1>15, <1>16, <1>17

\* In every state outside a rename, reads return what the in-memory store returns:
\* the article of a slug, each page of each list with its total, and the tags with
\* their counts, for any number of articles and any failed inserts between them.
THEOREM ReadsCorrect == Spec => []ReadsAgree
<1>1. ASSUME StoreInv PROVE ReadsAgree
  <2> SUFFICES ASSUME Quiet
      PROVE  /\ \A s \in Slugs : Rank(GetArticleBySlug(s)) = Promise!GetArticleBySlug(s)
             /\ ListTags = Promise!ListTags
             /\ \A q \in Queries :
                  LET page == ListArticles(q) IN
                  [page EXCEPT !.items = Ranked(@)] = Promise!ListArticles(q)
    BY DEF ReadsAgree
  <2>1. \A s \in Slugs : Rank(GetArticleBySlug(s)) = Promise!GetArticleBySlug(s)
    BY <1>1, SlugSeen
  <2>2. ListTags = Promise!ListTags
    BY <1>1, TagsSeen
  <2>3. ASSUME NEW q \in Queries
        PROVE  LET page == ListArticles(q) IN
               [page EXCEPT !.items = Ranked(@)] = Promise!ListArticles(q)
    <3>1. q.limit \in Nat /\ q.offset \in 0..Int32Max
      BY PgStoreAssumption DEF Queries, Query, PgStoreAssumption
    <3>2. QED
      BY <1>1, <3>1, PageSeen
  <2>4. QED
    BY <2>1, <2>2, <2>3
<1>2. QED
  BY <1>1, StoreInductive, PTL
=============================================================================
