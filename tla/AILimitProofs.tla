---------------------------- MODULE AILimitProofs ----------------------------
(***************************************************************************)
(* Proofs about AILimit for any set of requests, however many, and every   *)
(* limit, window and wait.                                                 *)
(***************************************************************************)
EXTENDS AILimit, FiniteSetTheorems, TLAPS

USE AILimitAssumption DEF AILimitAssumption

Asked == [at : {"new", "waiting", "admitted", "refused"}, now : Nat]

\* The admitted calls that carry a time of the window that c opens, less the
\* longest wait.
Near(c) == {d \in Admitted :
              requests[d].now - requests[c].now \in 0..(Window - MaxWait - 1)}

\* A time is forgotten only once it is a whole window old; since a call carries
\* a time at most MaxWait old, that is long enough for those near it.
LimitInv ==
    /\ clock \in Nat
    /\ requests \in [Requests -> Asked]
    /\ \A c \in Requests : requests[c].now <= clock
    /\ \A c \in Requests : requests[c].at = "waiting" => clock <= requests[c].now + MaxWait
    /\ IsFiniteSet(Admitted) /\ times \subseteq Admitted
    /\ \A d \in Admitted \ times : requests[d].now + Window <= clock
    /\ RateBounded

LEMMA InitLimitInv == LimitInit => LimitInv
<1> SUFFICES ASSUME LimitInit PROVE LimitInv
  OBVIOUS
<1>1. Admitted = {}
  BY DEF LimitInit, Admitted
<1>2. IsFiniteSet(Admitted)
  BY <1>1, FS_EmptySet
<1>3. QED
  BY <1>1, <1>2 DEF LimitInit, LimitInv, Asked, RateBounded

-----------------------------------------------------------------------------
(* One step *)

\* As long as nothing is decided, who is admitted and with what time stays.
LEMMA Undecided ==
    ASSUME LimitInv, Admitted' = Admitted, times' = times,
           \A d \in Admitted : requests'[d].now = requests[d].now
    PROVE  RateBounded' /\ IsFiniteSet(Admitted)' /\ (times \subseteq Admitted)'
<1>1. ASSUME NEW c \in Admitted
      PROVE  Near(c)' = Near(c)
  BY <1>1 DEF Near
<1>2. RateBounded'
  BY <1>1 DEF LimitInv, RateBounded, Near
<1>3. QED
  BY <1>2 DEF LimitInv

LEMMA ArriveStep ==
    ASSUME LimitInv, NEW c \in Requests, Arrive(c)
    PROVE  LimitInv'
<1>1. /\ requests[c].at = "new" /\ times' = times /\ clock' = clock
      /\ requests' = [requests EXCEPT ![c] = [at |-> "waiting", now |-> clock]]
      /\ requests \in [Requests -> Asked] /\ clock \in Nat
  BY DEF Arrive, LimitInv
<1>2. /\ requests' \in [Requests -> Asked]
      /\ requests'[c].at = "waiting" /\ requests'[c].now = clock
      /\ \A d \in Requests \ {c} : requests'[d] = requests[d]
  BY <1>1 DEF Asked
<1>3. Admitted' = Admitted /\ c \notin Admitted
  BY <1>1, <1>2 DEF Admitted
<1>4. \A d \in Admitted : requests'[d] = requests[d]
  BY <1>2, <1>3 DEF Admitted
<1>5. RateBounded' /\ IsFiniteSet(Admitted)' /\ (times \subseteq Admitted)'
  BY <1>1, <1>3, <1>4, Undecided
<1>6. \A d \in Requests : /\ requests'[d].now <= clock
                          /\ requests'[d].at = "waiting" => clock <= requests'[d].now + MaxWait
  BY <1>1, <1>2 DEF LimitInv
<1>7. \A d \in Admitted' \ times' : requests'[d].now + Window <= clock
  BY <1>1, <1>3, <1>4 DEF LimitInv
<1>8. QED
  BY <1>1, <1>2, <1>5, <1>6, <1>7 DEF LimitInv

LEMMA AdvanceStep ==
    ASSUME LimitInv, Advance
    PROVE  LimitInv'
<1>1. /\ clock' = clock + 1 /\ requests' = requests /\ times' = times
      /\ \A c \in Requests : requests[c].at = "waiting" => clock' <= requests[c].now + MaxWait
  BY DEF Advance
<1>2. Admitted' = Admitted
  BY <1>1 DEF Admitted
<1>3. RateBounded' /\ IsFiniteSet(Admitted)' /\ (times \subseteq Admitted)'
  BY <1>1, <1>2, Undecided
<1>4. \A c \in Requests : requests[c].now \in Nat
  BY DEF LimitInv, Asked
<1>5. clock' \in Nat /\ \A c \in Requests : requests'[c].now <= clock'
  BY <1>1, <1>4 DEF LimitInv
<1>6. \A d \in Admitted \ times : requests[d].now + Window <= clock'
  BY <1>1, <1>4 DEF LimitInv, Admitted
<1>7. QED
  BY <1>1, <1>2, <1>3, <1>5, <1>6 DEF LimitInv

\* What a call that is being decided sees as kept are admitted calls, and every
\* admitted call that carries a time near its own is among them.
LEMMA KeptNear ==
    ASSUME LimitInv, NEW c \in Requests, requests[c].at = "waiting"
    PROVE  LET kept == Kept(requests[c].now) IN
           /\ kept \subseteq Admitted /\ IsFiniteSet(kept)
           /\ \A d \in Admitted : requests[c].now - requests[d].now < Window - MaxWait => d \in kept
           /\ \A d \in Admitted \ kept : requests[d].now + Window <= clock
<1> DEFINE kept == Kept(requests[c].now)
<1>1. kept \subseteq Admitted
  BY DEF Kept, LimitInv
<1>2. IsFiniteSet(kept)
  BY <1>1, FS_Subset DEF LimitInv
<1>3. /\ clock \in Nat /\ requests[c].now \in Nat
      /\ requests[c].now <= clock /\ clock <= requests[c].now + MaxWait
  BY DEF LimitInv, Asked
<1>4. ASSUME NEW d \in Admitted
      PROVE  /\ requests[c].now - requests[d].now < Window - MaxWait => d \in kept
             /\ d \notin kept => requests[d].now + Window <= clock
  <2>1. requests[d].now \in Nat
    BY DEF LimitInv, Asked, Admitted
  <2>2. d \notin times => requests[d].now + Window <= clock
    BY DEF LimitInv
  <2>3. d \in times /\ d \notin kept => requests[d].now <= requests[c].now - Window
    BY <1>3, <2>1 DEF Kept
  <2>4. QED
    BY <1>3, <2>1, <2>2, <2>3
<1>5. QED
  BY <1>1, <1>2, <1>4

LEMMA AllowStep ==
    ASSUME LimitInv, NEW c \in Requests, Allow(c)
    PROVE  LimitInv'
<1> DEFINE now == requests[c].now
           kept == Kept(now)
           admitted == Cardinality(kept) < Max
<1>1. /\ requests[c].at = "waiting" /\ clock' = clock
      /\ requests' = [requests EXCEPT ![c].at = IF admitted THEN "admitted" ELSE "refused"]
      /\ times' = IF admitted THEN kept \cup {c} ELSE kept
  BY DEF Allow, Decided
<1>2. clock \in Nat /\ requests \in [Requests -> Asked]
  BY DEF LimitInv
<1>3. /\ requests' \in [Requests -> Asked]
      /\ requests'[c].at = IF admitted THEN "admitted" ELSE "refused"
      /\ \A d \in Requests : requests'[d].now = requests[d].now
      /\ \A d \in Requests \ {c} : requests'[d] = requests[d]
  BY <1>1, <1>2 DEF Asked
<1>4. c \notin Admitted
  BY <1>1 DEF Admitted
<1>5. Admitted' = IF admitted THEN Admitted \cup {c} ELSE Admitted
  BY <1>3, <1>4 DEF Admitted
<1>6. /\ kept \subseteq Admitted /\ IsFiniteSet(kept)
      /\ \A d \in Admitted : now - requests[d].now < Window - MaxWait => d \in kept
      /\ \A d \in Admitted \ kept : requests[d].now + Window <= clock
  BY <1>1, KeptNear
<1>7. \A d \in Requests : requests[d].now \in Nat /\ requests[d].now <= clock
  BY DEF LimitInv, Asked
<1>8. \A d \in Requests : /\ requests'[d].now <= clock
                          /\ requests'[d].at = "waiting" => clock <= requests'[d].now + MaxWait
  <2>1. ASSUME NEW d \in Requests, requests'[d].at = "waiting"
        PROVE  requests[d].at = "waiting"
    BY <1>1, <1>3, <2>1
  <2>2. QED
    BY <1>3, <2>1 DEF LimitInv
<1>9. IsFiniteSet(Admitted') /\ times' \subseteq Admitted'
  <2>1. IsFiniteSet(Admitted \cup {c})
    BY FS_AddElement DEF LimitInv
  <2>2. IsFiniteSet(Admitted')
    BY <1>5, <2>1 DEF LimitInv
  <2>3. QED
    BY <1>1, <1>5, <1>6, <2>2
<1>10. \A d \in Admitted' \ times' : requests'[d].now + Window <= clock
  <2>1. \A d \in Admitted' \ times' : d \in Admitted \ kept /\ d \in Requests
    BY <1>1, <1>5 DEF Admitted
  <2>2. QED
    BY <1>3, <1>6, <2>1
<1>11. RateBounded'
  <2>1. ASSUME NEW e \in Admitted'
        PROVE  Cardinality(Near(e)') <= Max
    <3>1. e \in Requests
      BY <1>5 DEF Admitted
    <3> DEFINE old == {d \in Admitted :
                         requests[d].now - requests[e].now \in 0..(Window - MaxWait - 1)}
    <3>2. Near(e)' = {d \in Admitted' :
                        requests[d].now - requests[e].now \in 0..(Window - MaxWait - 1)}
      BY <1>3, <3>1 DEF Near, Admitted
    <3>3. IsFiniteSet(old)
      <4>1. old \in SUBSET Admitted
        OBVIOUS
      <4>2. QED
        BY <4>1, FS_Subset DEF LimitInv
    <3>4. CASE Near(e)' = old /\ e \in Admitted
      BY <3>4 DEF LimitInv, RateBounded
    <3>5. CASE c \in Near(e)'
      <4>1. admitted /\ Near(e)' = old \cup {c}
        BY <1>4, <1>5, <3>2, <3>5
      <4>2. now - requests[e].now <= Window - MaxWait - 1
        BY <1>3, <3>1, <3>2, <3>5
      <4>3. old \subseteq kept
        <5>1. ASSUME NEW d \in old
              PROVE  now - requests[d].now < Window - MaxWait
          <6>1. /\ requests[d].now \in Nat /\ now \in Nat /\ requests[e].now \in Nat
                /\ requests[d].now - requests[e].now >= 0
            BY <1>7, <3>1, <5>1 DEF Admitted
          <6>2. QED
            BY <4>2, <6>1
        <5>2. QED
          BY <1>6, <5>1
      <4>4. Cardinality(old) <= Cardinality(kept)
        BY <1>6, <4>3, FS_Subset
      <4>5. Cardinality(old) \in Nat /\ Cardinality(kept) \in Nat
        BY <1>6, <3>3, FS_CardinalityType
      <4> HIDE DEF old, kept
      <4>6. Cardinality(old \cup {c}) \in {Cardinality(old), Cardinality(old) + 1}
        BY <3>3, FS_AddElement
      <4>7. QED
        BY <4>1, <4>4, <4>5, <4>6
    <3>6. CASE c \notin Near(e)' /\ e = c
      <4>1. now - now = 0 /\ Admitted' = Admitted \cup {c}
        BY <1>4, <1>5, <1>7, <3>6
      <4>2. Window - MaxWait - 1 < 0
        BY <3>2, <3>6, <4>1
      <4>3. Near(e)' = {}
        BY <3>2, <4>2
      <4>4. QED
        BY <4>3, FS_EmptySet
    <3>7. c \notin Near(e)' => Near(e)' = old
      BY <1>5, <3>2
    <3>8. QED
      BY <1>5, <3>4, <3>5, <3>6, <3>7
  <2>2. QED
    BY <2>1 DEF RateBounded, Near
<1>12. QED
  BY <1>1, <1>2, <1>3, <1>8, <1>9, <1>10, <1>11 DEF LimitInv

LEMMA LimitStep == LimitInv /\ [LimitNext]_limitVars => LimitInv'
<1> SUFFICES ASSUME LimitInv, [LimitNext]_limitVars PROVE LimitInv'
  OBVIOUS
<1>1. CASE UNCHANGED limitVars
  <2>1. Admitted' = Admitted
    BY <1>1 DEF limitVars, Admitted
  <2>2. RateBounded' /\ IsFiniteSet(Admitted)' /\ (times \subseteq Admitted)'
    BY <1>1, <2>1, Undecided DEF limitVars
  <2>3. QED
    BY <1>1, <2>1, <2>2 DEF LimitInv, limitVars
<1>2. QED
  BY <1>1, ArriveStep, AdvanceStep, AllowStep DEF LimitNext

LEMMA LimitInvariant == LimitSpec => []LimitInv
<1>1. QED
  BY InitLimitInv, LimitStep, PTL DEF LimitSpec

-----------------------------------------------------------------------------
(* The results *)

\* For any number of calls, at most Max that carry times less than a window, less
\* the longest wait, apart are admitted (AISEO.allow).
THEOREM RateCorrect == LimitSpec => []RateBounded
<1>1. LimitInv => RateBounded
  BY DEF LimitInv
<1>2. QED
  BY <1>1, LimitInvariant, PTL

\* For any number of calls, nobody is refused unless Max were admitted since a
\* window before its own time (AISEO.allow).
THEOREM RefusalCorrect == LimitSpec => RefusedRightly
<1> DEFINE Rightly(c) ==
      requests[c].at = "waiting" /\ requests'[c].at = "refused" =>
        Cardinality({d \in Admitted : requests[d].now > requests[c].now - Window}) >= Max
<1>1. LimitInv /\ [LimitNext]_limitVars => [\A c \in Requests : Rightly(c)]_requests
  <2> SUFFICES ASSUME LimitInv, [LimitNext]_limitVars, NEW c \in Requests,
                      requests[c].at = "waiting", requests'[c].at = "refused"
               PROVE  Rightly(c)
    OBVIOUS
  <2> DEFINE kept == Kept(requests[c].now)
             recent == {d \in Admitted : requests[d].now > requests[c].now - Window}
  <2>1. Allow(c)
    <3>1. requests \in [Requests -> Asked]
      BY DEF LimitInv
    <3>2. CASE Advance \/ UNCHANGED limitVars
      BY <3>2 DEF Advance, limitVars
    <3>3. ASSUME NEW e \in Requests, Arrive(e)
          PROVE  FALSE
      BY <3>1, <3>3 DEF Arrive
    <3>4. ASSUME NEW e \in Requests, Allow(e), e # c
          PROVE  FALSE
      BY <3>1, <3>4 DEF Allow, Decided
    <3>5. QED
      BY <3>2, <3>3, <3>4 DEF LimitNext
  <2>2. ~(Cardinality(kept) < Max)
    BY <2>1 DEF Allow, Decided, LimitInv, Asked
  <2>3. IsFiniteSet(kept) /\ kept \subseteq recent
    BY KeptNear DEF Kept
  <2>4. IsFiniteSet(recent)
    <3>1. recent \in SUBSET Admitted
      OBVIOUS
    <3>2. QED
      BY <3>1, FS_Subset DEF LimitInv
  <2>5. Cardinality(kept) <= Cardinality(recent)
    BY <2>3, <2>4, FS_Subset
  <2>6. Cardinality(kept) \in Nat /\ Cardinality(recent) \in Nat
    BY <2>3, <2>4, FS_CardinalityType
  <2>7. QED
    BY <2>2, <2>5, <2>6
<1>2. QED
  BY <1>1, LimitInvariant, PTL DEF LimitSpec, RefusedRightly
=============================================================================
