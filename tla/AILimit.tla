------------------------------ MODULE AILimit ------------------------------
(***************************************************************************)
(* The rate limit of the admin's AI features: AISEO.allow (handler/        *)
(* aiseo.go), which the helpers of the editor share and the playground has *)
(* a second one of.  A call reads the clock before it waits for the mutex, *)
(* so calls are decided in another order than the times they carry.        *)
(***************************************************************************)
EXTENDS Integers, FiniteSets

CONSTANTS
    Requests,         \* each used once
    Max, Window,      \* AISEOLimit; the code treats Max = 0 as no limit
    MaxWait,          \* the longest a call waits for the mutex
    MaxTime           \* bound

ASSUME AILimitAssumption ==
    /\ Max \in Nat \ {0} /\ Window \in Nat \ {0}
    /\ MaxWait \in Nat /\ MaxTime \in Nat

VARIABLES
    clock,
    requests, \* [at |-> "new", "waiting", "admitted" or "refused", now |-> what it read]
    times     \* AISEOLimit.times, each time named by the request that carried it

limitVars == <<clock, requests, times>>

\* now := h.now()
Arrive(c) ==
    /\ requests[c].at = "new"
    /\ requests' = [requests EXCEPT ![c] = [at |-> "waiting", now |-> clock]]
    /\ UNCHANGED <<clock, times>>

\* Mutant: a time stays for ever once it was counted.
Kept_All(now) == times

\* Those after the cutoff, the later ones that went ahead included.
Kept(now) == {d \in times : requests[d].now > now - Window}

\* Mutant: one call too many.
Decided_OneMore(c) ==
    LET now == requests[c].now
        admitted == Cardinality(Kept(now)) <= Max
    IN /\ requests' = [requests EXCEPT ![c].at = IF admitted THEN "admitted" ELSE "refused"]
       /\ times' = IF admitted THEN Kept(now) \cup {c} ELSE Kept(now)

\* A refused call is not counted.
Decided(c) ==
    LET now == requests[c].now
        admitted == Cardinality(Kept(now)) < Max
    IN /\ requests' = [requests EXCEPT ![c].at = IF admitted THEN "admitted" ELSE "refused"]
       /\ times' = IF admitted THEN Kept(now) \cup {c} ELSE Kept(now)

\* Under the mutex.
Allow(c) ==
    /\ requests[c].at = "waiting" /\ Decided(c)
    /\ UNCHANGED clock

Advance ==
    /\ clock < MaxTime /\ clock' = clock + 1
    /\ \A c \in Requests : requests[c].at = "waiting" => clock' <= requests[c].now + MaxWait
    /\ UNCHANGED <<requests, times>>

LimitInit ==
    /\ clock = 0 /\ times = {}
    /\ requests = [c \in Requests |-> [at |-> "new", now |-> 0]]

LimitNext == Advance \/ \E c \in Requests : Arrive(c) \/ Allow(c)

LimitSpec == LimitInit /\ [][LimitNext]_limitVars

----------------------------------------------------------------------------
Admitted == {c \in Requests : requests[c].at = "admitted"}

\* However long calls wait for the mutex and in whatever order they are decided,
\* at most Max that carry times less than a window, less the longest wait, apart
\* are admitted: a call with an old time does not bring back what a newer one
\* has forgotten (AISEO.allow).
RateBounded ==
    \A c \in Admitted :
      Cardinality({d \in Admitted :
                     requests[d].now - requests[c].now \in 0..(Window - MaxWait - 1)}) <= Max

\* Nobody is refused unless Max calls have been admitted since a window before
\* its own time: refusals do not count, and no time is counted for ever
\* (AISEO.allow).
RefusedRightly ==
    [][\A c \in Requests :
         requests[c].at = "waiting" /\ requests'[c].at = "refused" =>
           Cardinality({d \in Admitted : requests[d].now > requests[c].now - Window}) >= Max]_requests
=============================================================================
