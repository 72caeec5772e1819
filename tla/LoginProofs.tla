---------------------------- MODULE LoginProofs ----------------------------
(***************************************************************************)
(* Proofs about Login for every set of addresses, submits and names and    *)
(* every configuration of the limiter that LoginAssumption admits.         *)
(***************************************************************************)
EXTENDS Login, Induction, SequenceTheorems, FiniteSetTheorems, TLAPS

USE LoginAssumption DEF LoginAssumption

-----------------------------------------------------------------------------
(* The limiter *)

\* A failure about to be recorded is at most MaxWait old; no lock is longer
\* than Lockout from now.
LimiterInv ==
    /\ clock \in Nat
    /\ \A s \in Submits :
         /\ submits[s].at # "idle" => submits[s].client \in Clients
         /\ submits[s].at = "wrong" =>
              submits[s].now \in 0..clock /\ clock <= submits[s].now + MaxWait
    /\ DOMAIN submits = Submits /\ DOMAIN limiter = Clients
    /\ \A c \in Clients : limiter[c].lockedUntil \in 0..clock + Lockout

\* What RegisterFailure does to the lock of a key: nothing, or a lock from the
\* moment it read.
LEMMA RegisteredLock ==
    ASSUME NEW st, NEW now \in Nat, st.lockedUntil \in Nat
    PROVE  LET until == Registered(st, now).lockedUntil IN
           \/ until = now + Lockout
           \/ until = st.lockedUntil /\ st.lockedUntil <= now
BY DEF Registered, Locked

LEMMA LimiterInit == Init => LimiterInv
BY DEF Init, LimiterInv, Fresh, Idle

LEMMA LimiterStep == LimiterInv /\ [Next]_vars => LimiterInv'
<1> SUFFICES ASSUME LimiterInv, [Next]_vars PROVE LimiterInv'
  OBVIOUS
<1> USE DEF LimiterInv
<1>1. ASSUME NEW s \in Submits, NEW c \in Clients, Submit(s, c) PROVE LimiterInv'
  BY <1>1 DEF Submit
<1>2. ASSUME NEW s \in Submits, LookupFails(s) PROVE LimiterInv'
  BY <1>2 DEF LookupFails, Idle
<1>3. ASSUME NEW s \in Submits, WrongPassword(s) PROVE LimiterInv'
  BY <1>3 DEF WrongPassword
<1>4. ASSUME NEW s \in Submits, RegisterFailure(s) PROVE LimiterInv'
  <2> DEFINE c == submits[s].client
             now == submits[s].now
             st == limiter[c]
  <2>1. c \in Clients /\ now \in Nat /\ now <= clock /\ st.lockedUntil \in 0..clock + Lockout
    BY <1>4 DEF RegisterFailure
  <2>2. Registered(st, now).lockedUntil \in 0..clock + Lockout
    BY <2>1, RegisteredLock
  <2>3. QED
    BY <1>4, <2>1, <2>2 DEF RegisterFailure, Idle
<1>5. ASSUME NEW s \in Submits, NEW name \in Names, RightPassword(s, name)
      PROVE  LimiterInv'
  BY <1>5 DEF RightPassword, Idle, Fresh
<1>6. ASSUME NEW c \in Clients, Logout(c) PROVE LimiterInv'
  BY <1>6 DEF Logout
<1>7. CASE Advance
  BY <1>7 DEF Advance
<1>8. CASE Restart
  BY <1>8 DEF Restart, Idle, Fresh
<1>9. CASE UNCHANGED vars
  BY <1>9 DEF vars
<1>10. QED
  BY <1>1, <1>2, <1>3, <1>4, <1>5, <1>6, <1>7, <1>8, <1>9 DEF Next

LEMMA LimiterInvariant == Spec => []LimiterInv
BY LimiterInit, LimiterStep, PTL DEF Spec

\* Nobody is ever locked out for longer than Lockout from now, whatever submits
\* overlap (RegisterFailure).
THEOREM LockBoundedCorrect == Spec => []LockBounded
<1>1. LimiterInv => LockBounded
  BY DEF LimiterInv, LockBounded
<1>2. QED
  BY <1>1, LimiterInvariant, PTL

\* What was promised about a lock is kept but for the wait of the failure that
\* set it.
PromiseInv ==
    /\ DOMAIN promised = Clients
    /\ \A c \in Clients :
         promised[c] \in Nat /\ promised[c] <= limiter[c].lockedUntil + MaxWait

\* A failure that was recorded on c.
LEMMA RegisterPromise ==
    ASSUME NEW s \in Submits, LimiterInv, PromiseInv, RegisterFailure(s)
    PROVE  PromiseInv'
<1> DEFINE c == submits[s].client
           now == submits[s].now
           st == limiter[c]
           until == Registered(st, now).lockedUntil
<1>1. /\ c \in Clients /\ now \in Nat /\ clock \in Nat
      /\ now <= clock /\ clock <= now + MaxWait
      /\ st.lockedUntil \in Nat
  BY DEF RegisterFailure, LimiterInv
<1>2. \/ until = now + Lockout
      \/ until = st.lockedUntil /\ st.lockedUntil <= now
  BY <1>1, RegisteredLock
<1>3. /\ DOMAIN limiter = Clients
      /\ limiter' = [limiter EXCEPT ![c] = Registered(st, now)]
      /\ promised' = [promised EXCEPT ![c] = IF clock < limiter'[c].lockedUntil
                                              THEN clock + Lockout ELSE @]
  BY DEF RegisterFailure, LimiterInv
<1>4. limiter'[c].lockedUntil = until
  BY <1>1, <1>3
<1>5. promised[c] \in Nat /\ promised[c] <= st.lockedUntil + MaxWait /\ DOMAIN promised = Clients
  BY <1>1 DEF PromiseInv
<1>6. promised'[c] = IF clock < until THEN clock + Lockout ELSE promised[c]
  BY <1>1, <1>3, <1>4, <1>5
<1> HIDE DEF until
<1>7. promised'[c] \in Nat /\ promised'[c] <= limiter'[c].lockedUntil + MaxWait
  <2>1. CASE clock < until
    <3>1. until = now + Lockout
      BY <2>1, <1>1, <1>2
    <3>2. promised'[c] = clock + Lockout
      BY <2>1, <1>6
    <3>3. clock + Lockout \in Nat /\ clock + Lockout <= now + Lockout + MaxWait
      <4> HIDE DEF now
      <4>1. QED
        BY <1>1, LoginAssumption
    <3>4. QED
      BY <3>1, <3>2, <3>3, <1>4
  <2>2. CASE ~(clock < until)
    <3>1. until = st.lockedUntil
      BY <2>2, <1>1, <1>2
    <3>2. promised'[c] = promised[c]
      BY <2>2, <1>6
    <3>3. QED
      BY <3>1, <3>2, <1>4, <1>5
  <2>3. QED
    BY <2>1, <2>2
<1>8. ASSUME NEW d \in Clients, d # c
      PROVE  promised'[d] = promised[d] /\ limiter'[d] = limiter[d]
  BY <1>3, <1>5, <1>8
<1>9. QED
  BY <1>1, <1>3, <1>5, <1>7, <1>8 DEF PromiseInv

LEMMA PromiseInvariant == Spec => []PromiseInv
<1>1. Init => PromiseInv
  BY DEF Init, PromiseInv, Fresh
<1>2. LimiterInv /\ PromiseInv /\ [Next]_vars => PromiseInv'
  <2> SUFFICES ASSUME LimiterInv, PromiseInv, [Next]_vars PROVE PromiseInv'
    OBVIOUS
  <2>1. ASSUME NEW s \in Submits, RegisterFailure(s) PROVE PromiseInv'
    BY <2>1, RegisterPromise
  <2>2. ASSUME NEW s \in Submits, NEW name \in Names, RightPassword(s, name)
        PROVE  PromiseInv'
    BY <2>2 DEF RightPassword, LimiterInv, PromiseInv, Fresh
  <2>3. CASE Restart
    BY <2>3 DEF Restart, PromiseInv, Fresh
  <2>4. CASE UNCHANGED <<limiter, promised>>
    BY <2>4 DEF PromiseInv
  <2>5. QED
    BY <2>1, <2>2, <2>3, <2>4
       DEF Next, vars, Submit, LookupFails, WrongPassword, Logout, Advance
<1>3. QED
  BY <1>1, <1>2, LimiterInvariant, PTL DEF Spec

\* A lock lasts Lockout from the last failure recorded on it, less the time that
\* failure waited, in whatever order failures are recorded (RegisterFailure).
THEOREM LockHeldCorrect == Spec => []LockHeld
<1>1. LimiterInv /\ PromiseInv => LockHeld
  <2> SUFFICES ASSUME LimiterInv, PromiseInv, NEW c \in Clients,
                      clock + MaxWait < promised[c]
               PROVE  clock < limiter[c].lockedUntil
    BY DEF LockHeld, IsLocked
  <2>1. /\ clock \in Nat /\ limiter[c].lockedUntil \in Int
        /\ promised[c] \in Nat /\ promised[c] <= limiter[c].lockedUntil + MaxWait
    BY DEF LimiterInv, PromiseInv
  <2>2. QED
    BY <2>1
<1>2. QED
  BY <1>1, LimiterInvariant, PromiseInvariant, PTL

-----------------------------------------------------------------------------
(* Sessions *)

\* A browser holds the token of its last login, or none.
SessionInv ==
    /\ clock \in Nat
    /\ DOMAIN cookies = Clients /\ DOMAIN signedIn = Clients
    /\ \A c \in Clients :
         \/ cookies[c] = <<>> /\ signedIn[c] = Stranger
         \/ \E name \in Names, t \in 0..clock :
              /\ signedIn[c] = [name |-> name, since |-> t]
              /\ cookies[c] = name \o <<t + TTL, Mac(name, t + TTL)>>

LEMMA SessionInvariant == Spec => []SessionInv
<1>1. Init => SessionInv
  BY DEF Init, SessionInv
<1>2. SessionInv /\ [Next]_vars => SessionInv'
  <2> SUFFICES ASSUME SessionInv, [Next]_vars PROVE SessionInv'
    OBVIOUS
  <2>1. CASE UNCHANGED <<cookies, signedIn, clock>>
    BY <2>1 DEF SessionInv
  <2>2. ASSUME NEW s \in Submits, NEW name \in Names, RightPassword(s, name)
        PROVE  SessionInv'
    <3> DEFINE d == submits[s].client
               token == name \o <<clock + TTL, Mac(name, clock + TTL)>>
    <3>1. /\ cookies' = [cookies EXCEPT ![d] = token]
          /\ signedIn' = [signedIn EXCEPT ![d] = [name |-> name, since |-> clock]]
          /\ clock' = clock /\ clock \in 0..clock
      BY <2>2 DEF RightPassword, SessionInv, Sign
    <3>2. ASSUME NEW c \in Clients, c # d
          PROVE  cookies'[c] = cookies[c] /\ signedIn'[c] = signedIn[c]
      BY <3>1, <3>2 DEF SessionInv
    <3>3. d \in Clients => /\ cookies'[d] = token
                           /\ signedIn'[d] = [name |-> name, since |-> clock]
      BY <3>1 DEF SessionInv
    <3> HIDE DEF token
    <3>4. DOMAIN cookies' = Clients /\ DOMAIN signedIn' = Clients
      BY <3>1 DEF SessionInv
    <3>5. ASSUME NEW c \in Clients
          PROVE  \/ cookies'[c] = <<>> /\ signedIn'[c] = Stranger
                 \/ \E n \in Names, t \in 0..clock' :
                      /\ signedIn'[c] = [name |-> n, since |-> t]
                      /\ cookies'[c] = n \o <<t + TTL, Mac(n, t + TTL)>>
      <4>1. CASE c = d
        BY <3>1, <3>3, <4>1 DEF token
      <4>2. CASE c # d
        BY <3>1, <3>2, <4>2, ZenonT(60) DEF SessionInv
      <4>3. QED
        BY <4>1, <4>2
    <3>6. QED
      BY <3>1, <3>4, <3>5 DEF SessionInv
  <2>3. ASSUME NEW c \in Clients, Logout(c) PROVE SessionInv'
    BY <2>3 DEF Logout, SessionInv
  <2>4. CASE Advance
    <3>1. 0..clock \subseteq 0..clock'
      BY <2>4 DEF Advance, SessionInv
    <3>2. UNCHANGED <<cookies, signedIn>> /\ clock' \in Nat
      BY <2>4 DEF Advance, SessionInv
    <3> DEFINE Holds(c, name, t) ==
                 /\ signedIn[c] = [name |-> name, since |-> t]
                 /\ cookies[c] = name \o <<t + TTL, Mac(name, t + TTL)>>
    <3>3. \A c \in Clients :
            \/ cookies[c] = <<>> /\ signedIn[c] = Stranger
            \/ \E name \in Names, t \in 0..clock : Holds(c, name, t)
      BY DEF SessionInv
    <3>4. \A c \in Clients :
            \/ cookies[c] = <<>> /\ signedIn[c] = Stranger
            \/ \E name \in Names, t \in 0..clock' : Holds(c, name, t)
      <4> HIDE DEF Holds
      <4>1. QED
        BY <3>1, <3>3
    <3>5. QED
      BY <3>2, <3>4, ZenonT(60) DEF SessionInv
  <2>5. ASSUME NEW s \in Submits,
               \/ \E c \in Clients : Submit(s, c)
               \/ LookupFails(s) \/ WrongPassword(s) \/ RegisterFailure(s)
        PROVE  SessionInv'
    BY <2>1, <2>5 DEF Submit, LookupFails, WrongPassword, RegisterFailure
  <2>6. CASE Restart \/ UNCHANGED vars
    BY <2>1, <2>6 DEF vars, Restart
  <2>7. QED
    BY <2>2, <2>3, <2>4, <2>5, <2>6 DEF Next
<1>3. QED
  BY <1>1, <1>2, PTL DEF Spec

\* A token of a name without dots verifies, for exactly its time.
LEMMA TokenVerifies ==
    ASSUME NEW name \in Names, Len(name) = 1, NEW exp \in Nat
    PROVE  Verify(name \o <<exp, Mac(name, exp)>>) = IF clock < exp THEN name ELSE <<>>
<1> DEFINE Parts == STRING \cup {exp, Mac(name, exp)}
           rest == <<exp, Mac(name, exp)>>
           token == name \o rest
<1>1. name = <<name[1]>> /\ name \in Seq(Parts)
  OBVIOUS
<1>2. rest \in Seq(Parts) /\ Len(rest) = 2 /\ rest[1] = exp /\ rest[2] = Mac(name, exp)
  OBVIOUS
<1> HIDE DEF Parts, rest
<1>3. /\ Len(token) = 3
      /\ \A i \in 1..3 : token[i] = IF i <= 1 THEN name[i] ELSE rest[i - 1]
  <2>1. Len(name) = 1
    OBVIOUS
  <2>2. /\ Len(name \o rest) = Len(name) + Len(rest)
        /\ \A i \in 1..Len(name) + Len(rest) :
             (name \o rest)[i] = IF i <= Len(name) THEN name[i] ELSE rest[i - Len(name)]
    <3>1. name \in Seq(Parts) /\ rest \in Seq(Parts)
      BY <1>1, <1>2
    <3>2. QED
      BY ONLY <3>1, ConcatProperties, Zenon
  <2>3. QED
    BY <2>1, <2>2, <1>2
<1>4. <<token[1]>> = name /\ token[2] = exp /\ token[3] = Mac(name, exp)
  BY <1>1, <1>2, <1>3
<1>5. QED
  BY <1>3, <1>4 DEF Verify, rest

\* When no name has a dot, a browser that signed in passes RequireAuth under its
\* own name for exactly the session's time (Sign, Verify).
THEOREM SessionCorrect ==
    ASSUME \A name \in Names : Len(name) = 1
    PROVE  Spec => []SessionWorks
<1>1. SessionInv => SessionWorks
  <2> SUFFICES ASSUME SessionInv, NEW c \in Clients
               PROVE  Admitted(c) = IF clock < signedIn[c].since + TTL
                                    THEN signedIn[c].name ELSE <<>>
    BY DEF SessionWorks
  <2>1. CASE cookies[c] = <<>> /\ signedIn[c] = Stranger
    BY <2>1 DEF Admitted, Verify, Stranger
  <2>2. ASSUME NEW name \in Names, NEW t \in 0..clock,
               signedIn[c] = [name |-> name, since |-> t],
               cookies[c] = name \o <<t + TTL, Mac(name, t + TTL)>>
        PROVE  Admitted(c) = IF clock < signedIn[c].since + TTL
                             THEN signedIn[c].name ELSE <<>>
    BY <2>2, TokenVerifies DEF Admitted, SessionInv
  <2>3. QED
    BY <2>1, <2>2 DEF SessionInv
<1>2. QED
  BY <1>1, SessionInvariant, PTL

-----------------------------------------------------------------------------
(* The failures a key keeps *)

\* The loop over the failures, and what it has kept of n of them.
Keep(kept, x, low) == IF x > low THEN Append(kept, x) ELSE kept

Filter(f, s, low, n) ==
    f = [k \in 0..n |-> IF k = 0 THEN <<>> ELSE Keep(f[k - 1], s[k], low)]

LEMMA FilterExists ==
    ASSUME NEW n \in Nat, NEW s, NEW low
    PROVE  \E f : Filter(f, s, low, n)
<1> DEFINE S == {k \in Nat : \E f : Filter(f, s, low, k)}
<1>1. 0 \in S
  <2> DEFINE f == [k \in 0..0 |-> <<>>]
  <2>1. Filter(f, s, low, 0)
    BY DEF Filter
  <2>2. QED
    BY <2>1
<1>2. ASSUME NEW k \in Nat, k \in S PROVE k + 1 \in S
  <2>1. PICK f : Filter(f, s, low, k)
    BY <1>2
  <2> DEFINE g == [j \in 0..k + 1 |->
                     IF j = 0 THEN <<>> ELSE Keep(f[j - 1], s[j], low)]
  <2>2. \A j \in 0..k : g[j] = f[j]
    BY <2>1 DEF Filter
  <2>3. \A j \in 0..k + 1 : j # 0 => j - 1 \in 0..k
    OBVIOUS
  <2>4. Filter(g, s, low, k + 1)
    BY <2>2, <2>3 DEF Filter
  <2>5. QED
    BY <2>4
<1> HIDE DEF S
<1>3. Nat \subseteq S
  BY <1>1, <1>2, UpTo
<1>4. QED
  BY <1>3 DEF S

\* The guesses of a list that lie in the window from t on.
Span(t) == t..(t + Window - MaxWait - 1)

Hits(s, t) == {i \in DOMAIN s : s[i] \in Span(t)}

LEMMA HitsFinite ==
    ASSUME NEW T, NEW s \in Seq(T), NEW t
    PROVE  IsFiniteSet(Hits(s, t)) /\ Cardinality(Hits(s, t)) \in 0..Len(s)
<1>1. Hits(s, t) \in SUBSET (1..Len(s)) /\ Len(s) \in Nat
  BY DEF Hits
<1>2. IsFiniteSet(1..Len(s)) /\ Cardinality(1..Len(s)) = Len(s)
  BY <1>1, FS_Interval
<1>3. IsFiniteSet(Hits(s, t)) /\ Cardinality(Hits(s, t)) <= Len(s)
  BY <1>1, <1>2, FS_Subset
<1>4. QED
  BY <1>1, <1>3, FS_CardinalityType

LEMMA OneMoreHit ==
    ASSUME NEW T, NEW s \in Seq(T), NEW x \in T, NEW t
    PROVE  /\ Append(s, x) \in Seq(T) /\ Len(Append(s, x)) = Len(s) + 1
           /\ Cardinality(Hits(Append(s, x), t)) =
                IF x \in Span(t) THEN Cardinality(Hits(s, t)) + 1 ELSE Cardinality(Hits(s, t))
<1> DEFINE n == Append(s, x)
<1>1. /\ n \in Seq(T) /\ Len(n) = Len(s) + 1 /\ Len(s) \in Nat
      /\ DOMAIN s = 1..Len(s) /\ DOMAIN n = 1..Len(s) + 1
      /\ n[Len(s) + 1] = x /\ \A i \in 1..Len(s) : n[i] = s[i]
  OBVIOUS
<1> HIDE DEF n
<1>2. Hits(n, t) = IF x \in Span(t) THEN Hits(s, t) \cup {Len(s) + 1} ELSE Hits(s, t)
  BY <1>1 DEF Hits
<1>3. Len(s) + 1 \notin Hits(s, t) /\ IsFiniteSet(Hits(s, t))
  <2>1. Len(s) + 1 \notin DOMAIN s
    BY <1>1
  <2>2. IsFiniteSet(Hits(s, t))
    BY HitsFinite
  <2>3. QED
    BY <2>1, <2>2 DEF Hits
<1>4. Cardinality(Hits(s, t) \cup {Len(s) + 1}) = Cardinality(Hits(s, t)) + 1
  BY <1>3, FS_AddElement
<1>5. QED
  BY <1>1, <1>2, <1>4 DEF n

Spares(low, t) == \A x \in Span(t) : x > low

\* Nothing is kept that was not there.
LEMMA FilterTyped ==
    ASSUME NEW T, NEW s, NEW low, NEW f, s \in Seq(T), Filter(f, s, low, Len(s))
    PROVE  \A k \in 0..Len(s) : f[k] \in Seq(T)
<1> DEFINE n == Len(s)
           S == {k \in Nat : k <= n => f[k] \in Seq(T)}
<1>1. n \in Nat /\ \A i \in 1..n : s[i] \in T
  OBVIOUS
<1>2. Filter(f, s, low, n)
  OBVIOUS
<1> HIDE DEF n
<1>3. 0 \in S
  BY <1>1, <1>2 DEF Filter
<1>4. ASSUME NEW k \in Nat, k \in S PROVE k + 1 \in S
  <2>1. SUFFICES ASSUME k + 1 <= n PROVE f[k + 1] \in Seq(T)
    OBVIOUS
  <2>2. f[k] \in Seq(T) /\ s[k + 1] \in T
    BY <1>1, <1>4, <2>1
  <2>3. f[k + 1] \in {Append(f[k], s[k + 1]), f[k]}
    <3>1. k + 1 \in 0..n /\ k + 1 # 0 /\ (k + 1) - 1 = k
      BY <1>1, <2>1
    <3>2. f[k + 1] = Keep(f[k], s[k + 1], low)
      BY <1>2, <3>1 DEF Filter
    <3>3. QED
      BY <3>2 DEF Keep
  <2> HIDE DEF S
  <2>4. Append(f[k], s[k + 1]) \in Seq(T)
    BY <2>2
  <2>5. QED
    BY <2>2, <2>3, <2>4, Zenon
<1> HIDE DEF S
<1>5. Nat \subseteq S
  BY <1>3, <1>4, UpTo
<1>6. QED
  BY <1>1, <1>5 DEF S, n

\* Every failure that the cutoff spares is kept.
LEMMA FilterCounts ==
    ASSUME NEW T, NEW s, NEW low, NEW f, NEW t,
           s \in Seq(T), Filter(f, s, low, Len(s)), Spares(low, t)
    PROVE  Cardinality(Hits(f[Len(s)], t)) = Cardinality(Hits(s, t))
<1> DEFINE n == Len(s)
           Old(k) == {i \in 1..k : s[i] \in Span(t)}
           S == {k \in Nat : k <= n =>
                   /\ IsFiniteSet(Old(k))
                   /\ Cardinality(Hits(f[k], t)) = Cardinality(Old(k))}
<1>1. n \in Nat /\ DOMAIN s = 1..n
  OBVIOUS
<1>2. \A k \in 0..n : f[k] \in Seq(T)
  BY FilterTyped
<1>3. Filter(f, s, low, n)
  OBVIOUS
<1> HIDE DEF n
<1>4. 0 \in S
  <2>1. f[0] = <<>>
    BY <1>1, <1>3 DEF Filter
  <2>2. Hits(f[0], t) = {} /\ Old(0) = {}
    BY <2>1 DEF Hits
  <2> HIDE DEF Old
  <2>3. QED
    BY <2>2, FS_EmptySet
<1>5. ASSUME NEW k \in Nat, k \in S PROVE k + 1 \in S
  <2>1. SUFFICES ASSUME k + 1 <= n
                 PROVE  /\ IsFiniteSet(Old(k + 1))
                        /\ Cardinality(Hits(f[k + 1], t)) = Cardinality(Old(k + 1))
    OBVIOUS
  <2>2. IsFiniteSet(Old(k)) /\ Cardinality(Hits(f[k], t)) = Cardinality(Old(k))
    BY <1>1, <1>5, <2>1
  <2>3. f[k + 1] = IF s[k + 1] > low THEN Append(f[k], s[k + 1]) ELSE f[k]
    <3>1. k + 1 \in 0..n /\ k + 1 # 0 /\ (k + 1) - 1 = k
      BY <1>1, <2>1
    <3>2. f[k + 1] = Keep(f[k], s[k + 1], low)
      BY <1>3, <3>1 DEF Filter
    <3>3. QED
      BY <3>2 DEF Keep
  <2>4. f[k] \in Seq(T) /\ s[k + 1] \in T
    BY <1>1, <1>2, <2>1
  <2>5. /\ Old(k + 1) = (IF s[k + 1] \in Span(t) THEN Old(k) \cup {k + 1} ELSE Old(k))
        /\ k + 1 \notin Old(k)
    <3>1. 1..k + 1 = (1..k) \cup {k + 1} /\ k + 1 \notin 1..k
      OBVIOUS
    <3>2. QED
      BY <3>1
  <2> HIDE DEF Old, S
  <2>6. /\ IsFiniteSet(Old(k + 1))
        /\ Cardinality(Old(k + 1)) = IF s[k + 1] \in Span(t) THEN Cardinality(Old(k)) + 1
                                     ELSE Cardinality(Old(k))
    <3>1. Cardinality(Old(k) \cup {k + 1}) = Cardinality(Old(k)) + 1 /\ IsFiniteSet(Old(k) \cup {k + 1})
      BY <2>2, <2>5, FS_AddElement
    <3>2. QED
      BY <2>2, <2>5, <3>1
  <2>7. CASE s[k + 1] > low
    <3>1. Cardinality(Hits(Append(f[k], s[k + 1]), t)) =
            IF s[k + 1] \in Span(t) THEN Cardinality(Hits(f[k], t)) + 1
            ELSE Cardinality(Hits(f[k], t))
      BY <2>4, OneMoreHit
    <3>2. QED
      BY <2>2, <2>3, <2>6, <2>7, <3>1
  <2>8. CASE ~(s[k + 1] > low)
    <3>1. s[k + 1] \notin Span(t)
      BY <2>8 DEF Spares
    <3>2. QED
      BY <2>2, <2>3, <2>6, <2>8, <3>1
  <2>9. QED
    BY <2>7, <2>8
<1> HIDE DEF S
<1>6. n \in S
  BY <1>1, <1>4, <1>5, UpTo
<1>7. Old(n) = Hits(s, t)
  BY <1>1 DEF Hits
<1>8. Cardinality(Hits(f[n], t)) = Cardinality(Old(n))
  BY <1>1, <1>6 DEF S
<1>9. QED
  BY <1>7, <1>8 DEF n

LEMMA KeptFilters ==
    ASSUME NEW T, NEW st, NEW now, st.failures \in Seq(T), now \in T
    PROVE  LET s == Append(st.failures, now) IN
           \E f : Filter(f, s, now - Window, Len(s)) /\ Kept(st, now) = f[Len(s)]
<1> DEFINE s == Append(st.failures, now)
           P(f) == Filter(f, s, now - Window, Len(s))
           kept == CHOOSE f : P(f)
<1>1. Kept(st, now) = kept[Len(s)]
  BY DEF Kept, Filter, Keep
<1>2. Len(s) \in Nat
  OBVIOUS
<1>3. \E f : P(f)
  BY <1>2, FilterExists
<1> HIDE DEF P
<1>4. P(kept)
  BY <1>3
<1>5. QED
  BY <1>1, <1>4 DEF P

-----------------------------------------------------------------------------
(* Types *)

\* A limiter state holds fewer failures than lock it.
KeyOK(st) ==
    /\ st \in [failures : Seq(0..clock), lockedUntil : Nat]
    /\ Len(st.failures) < MaxAttempts

Held == [at : {"idle", "checked", "wrong"}, client : Clients \cup {Nobody}, now : Nat]

\* Only a submit under way has a client; a failure waits at most MaxWait.
SubmitOK(r) ==
    /\ r.client \in IF r.at = "idle" THEN {Nobody} ELSE Clients
    /\ r.at = "wrong" => r.now <= clock /\ clock <= r.now + MaxWait

SubmitsOK ==
    submits \in [Submits -> Held] /\ \A s \in Submits : SubmitOK(submits[s])

StateInv ==
    /\ clock \in 0..MaxTime
    /\ SubmitsOK
    /\ DOMAIN limiter = Clients /\ \A c \in Clients : KeyOK(limiter[c])
    /\ guesses \in [Clients -> Seq(0..clock)]


LEMMA SeqUpTo ==
    ASSUME NEW a \in Nat, NEW b \in Nat, a <= b
    PROVE  Seq(0..a) \subseteq Seq(0..b)
<1>1. 0..a \subseteq 0..b
  OBVIOUS
<1>2. QED
  BY <1>1

LEMMA RegisteredOK ==
    ASSUME clock \in Nat, NEW st, KeyOK(st), NEW now \in 0..clock
    PROVE  KeyOK(Registered(st, now))
<1>1. Kept(st, now) \in Seq(0..clock)
  <2> DEFINE s == Append(st.failures, now)
             T == 0..clock
  <2>1. st.failures \in Seq(T) /\ now \in T
    BY DEF KeyOK
  <2>2. s \in Seq(T)
    BY <2>1
  <2>3. PICK f : Filter(f, s, now - Window, Len(s)) /\ Kept(st, now) = f[Len(s)]
    <3> HIDE DEF T
    <3>1. QED
      BY <2>1, KeptFilters
  <2> HIDE DEF s, T
  <2>4. f[Len(s)] \in Seq(T)
    <3>1. \A k \in 0..Len(s) : f[k] \in Seq(T)
      BY <2>2, <2>3, FilterTyped
    <3>2. QED
      BY <2>2, <3>1
  <2>5. QED
    BY <2>3, <2>4 DEF T
<1>2. now + Lockout \in Nat
  OBVIOUS
<1>3. <<>> \in Seq(0..clock) /\ Len(<<>>) < MaxAttempts
  OBVIOUS
<1>4. QED
  BY <1>1, <1>2, <1>3 DEF Registered, Locked, KeyOK

LEMMA InitState == Init => StateInv
BY DEF Init, StateInv, KeyOK, Fresh, Idle, Held, SubmitOK, SubmitsOK

LEMMA SubmitStep ==
    ASSUME NEW s \in Submits, NEW r \in Held, SubmitsOK, SubmitOK(r), UNCHANGED clock,
           submits' = [submits EXCEPT ![s] = r]
    PROVE  SubmitsOK'
<1>1. submits' \in [Submits -> Held] /\ submits'[s] = r
      /\ \A o \in Submits : o # s => submits'[o] = submits[o]
  BY DEF SubmitsOK
<1>2. \A o \in Submits : SubmitOK(submits'[o])
  BY <1>1 DEF SubmitsOK
<1>3. QED
  BY <1>1, <1>2 DEF SubmitsOK, SubmitOK

LEMMA SubmitHeld ==
    ASSUME StateInv
    PROVE  /\ clock \in Nat /\ DOMAIN submits = Submits
           /\ \A s \in Submits : submits[s] \in Held /\ SubmitOK(submits[s])
BY DEF StateInv, SubmitsOK

LEMMA IdleOK == Idle \in Held /\ SubmitOK(Idle)
BY DEF Idle, Held, SubmitOK

\* A step that leaves the clock alone, the limiter of each key in order and the
\* guesses in time.
LEMMA KeepsState ==
    ASSUME StateInv, UNCHANGED clock, SubmitsOK', DOMAIN limiter' = Clients,
           \A c \in Clients : KeyOK(limiter'[c]), guesses' \in [Clients -> Seq(0..clock)]
    PROVE  StateInv'
<1>1. \A st : KeyOK(st)' <=> KeyOK(st)
  BY DEF KeyOK
<1>2. \A c \in Clients : KeyOK(limiter[c])'
  BY DEF KeyOK
<1>3. QED
  BY <1>2 DEF StateInv

LEMMA StateStep == StateInv /\ [Next]_vars => StateInv'
<1> SUFFICES ASSUME StateInv, [Next]_vars PROVE StateInv'
  OBVIOUS
<1>1. /\ clock \in 0..MaxTime /\ SubmitsOK
      /\ DOMAIN limiter = Clients /\ \A c \in Clients : KeyOK(limiter[c])
      /\ guesses \in [Clients -> Seq(0..clock)]
  BY DEF StateInv
<1>2. KeyOK(Fresh) /\ <<>> \in Seq(0..clock)
  BY DEF KeyOK, Fresh
<1>3. ASSUME NEW s \in Submits, NEW c \in Clients, Submit(s, c) PROVE StateInv'
  <2>1. PICK r : r = [at |-> "checked", client |-> c, now |-> 0]
    OBVIOUS
  <2>2. submits' = [submits EXCEPT ![s] = r] /\ UNCHANGED <<limiter, clock, guesses>>
    BY <1>3, <2>1 DEF Submit
  <2>3. r \in Held /\ SubmitOK(r)
    BY <2>1 DEF Held, SubmitOK
  <2>4. SubmitsOK'
    BY <1>1, <2>2, <2>3, SubmitStep
  <2>5. QED
    BY <1>1, <2>2, <2>4, KeepsState
<1>4. ASSUME NEW s \in Submits, LookupFails(s) PROVE StateInv'
  <2>1. submits' = [submits EXCEPT ![s] = Idle] /\ UNCHANGED <<limiter, clock, guesses>>
    BY <1>4 DEF LookupFails
  <2>2. SubmitsOK'
    BY <1>1, <2>1, IdleOK, SubmitStep
  <2>3. QED
    BY <1>1, <2>1, <2>2, KeepsState
<1>5. ASSUME NEW s \in Submits, WrongPassword(s) PROVE StateInv'
  <2>1. PICK o : o = submits[s]
    OBVIOUS
  <2>2. PICK r : r = [o EXCEPT !.at = "wrong", !.now = clock]
    OBVIOUS
  <2>3. o \in Held /\ o.client \in Clients /\ clock \in Nat
    BY <1>1, <1>5, <2>1 DEF WrongPassword, SubmitsOK, SubmitOK
  <2>4. r \in Held /\ SubmitOK(r)
    <3>1. r \in Held /\ r.at = "wrong" /\ r.client = o.client /\ r.now = clock
      BY <2>2, <2>3 DEF Held
    <3>2. QED
      BY <2>3, <3>1 DEF SubmitOK
  <2>5. /\ submits' = [submits EXCEPT ![s] = r] /\ UNCHANGED <<limiter, clock>>
        /\ guesses' = [guesses EXCEPT ![o.client] = Append(guesses[o.client], clock)]
    BY <1>5, <2>1, <2>2 DEF WrongPassword
  <2>6. Append(guesses[o.client], clock) \in Seq(0..clock)
    BY <1>1, <2>3
  <2>7. guesses' \in [Clients -> Seq(0..clock)]
    BY <1>1, <2>3, <2>5, <2>6
  <2>8. SubmitsOK'
    BY <1>1, <2>4, <2>5, SubmitStep
  <2>9. QED
    BY <1>1, <2>5, <2>7, <2>8, KeepsState
<1>6. ASSUME NEW s \in Submits, RegisterFailure(s) PROVE StateInv'
  <2>1. PICK o : o = submits[s]
    OBVIOUS
  <2>2. o.client \in Clients /\ o.now \in 0..clock /\ clock \in Nat
    <3>1. o \in Held /\ SubmitOK(o) /\ o.at = "wrong" /\ clock \in Nat
      BY <1>1, <1>6, <2>1 DEF RegisterFailure, SubmitsOK
    <3>2. o.now \in Nat
      BY <3>1 DEF Held
    <3>3. QED
      BY <3>1, <3>2 DEF SubmitOK
  <2>3. KeyOK(Registered(limiter[o.client], o.now))
    BY <1>1, <2>2, RegisteredOK
  <2>4. /\ limiter' = [limiter EXCEPT ![o.client] = Registered(limiter[o.client], o.now)]
        /\ submits' = [submits EXCEPT ![s] = Idle] /\ UNCHANGED <<clock, guesses>>
    BY <1>6, <2>1 DEF RegisterFailure
  <2>5. DOMAIN limiter' = Clients /\ \A c \in Clients : KeyOK(limiter'[c])
    BY <1>1, <2>2, <2>3, <2>4
  <2>6. SubmitsOK'
    BY <1>1, <2>4, IdleOK, SubmitStep
  <2>7. QED
    BY <1>1, <2>4, <2>5, <2>6, KeepsState
<1>7. ASSUME NEW s \in Submits, NEW name \in Names, RightPassword(s, name)
      PROVE  StateInv'
  <2>1. PICK d : d = submits[s].client
    OBVIOUS
  <2>2. /\ limiter' = [limiter EXCEPT ![d] = Fresh] /\ guesses' = [guesses EXCEPT ![d] = <<>>]
        /\ submits' = [submits EXCEPT ![s] = Idle] /\ UNCHANGED clock
    BY <1>7, <2>1 DEF RightPassword
  <2>3. DOMAIN limiter' = Clients /\ \A c \in Clients : KeyOK(limiter'[c])
    BY <1>1, <1>2, <2>2
  <2>4. guesses' \in [Clients -> Seq(0..clock)]
    BY <1>1, <1>2, <2>2
  <2>5. SubmitsOK'
    BY <1>1, <2>2, IdleOK, SubmitStep
  <2>6. QED
    BY <2>2, <2>3, <2>4, <2>5, KeepsState
<1>8. ASSUME NEW c \in Clients, Logout(c) PROVE StateInv'
  <2>1. UNCHANGED <<limiter, submits, clock, guesses>>
    BY <1>8 DEF Logout
  <2>2. SubmitsOK'
    BY <1>1, <2>1 DEF SubmitsOK, SubmitOK
  <2>3. QED
    BY <1>1, <2>1, <2>2, KeepsState
<1>9. CASE Advance
  <2>1. clock \in Nat /\ clock' = clock + 1 /\ clock' \in 0..MaxTime
    BY <1>1, <1>9 DEF Advance
  <2>2. UNCHANGED <<submits, limiter, guesses>>
    BY <1>9 DEF Advance
  <2>3. Seq(0..clock) \subseteq Seq(0..clock')
    BY <2>1, SeqUpTo
  <2>4. \A s \in Submits : SubmitOK(submits[s])'
    <3>1. SUFFICES ASSUME NEW s \in Submits PROVE SubmitOK(submits[s])'
      OBVIOUS
    <3>2. submits'[s] = submits[s] /\ SubmitOK(submits[s]) /\ submits[s].now \in Nat
      BY <1>1, <2>2 DEF SubmitsOK, Held
    <3>3. submits[s].at = "wrong" => clock < submits[s].now + MaxWait
      BY <1>9 DEF Advance
    <3>4. QED
      BY <2>1, <3>2, <3>3 DEF SubmitOK
  <2>5. SubmitsOK'
    BY <1>1, <2>2, <2>4 DEF SubmitsOK, SubmitOK
  <2>6. \A c \in Clients : KeyOK(limiter[c])'
    BY <1>1, <2>2, <2>3 DEF KeyOK
  <2>7. guesses' \in [Clients -> Seq(0..clock')]
    BY <1>1, <2>2, <2>3
  <2>8. QED
    BY <1>1, <2>1, <2>2, <2>5, <2>6, <2>7 DEF StateInv
<1>10. CASE Restart
  <2>1. /\ limiter' = [c \in Clients |-> Fresh] /\ guesses' = [c \in Clients |-> <<>>]
        /\ submits' = [s \in Submits |-> Idle] /\ UNCHANGED clock
    BY <1>10 DEF Restart
  <2>2. SubmitsOK'
    BY <2>1, IdleOK DEF SubmitsOK, SubmitOK
  <2>3. DOMAIN limiter' = Clients /\ \A c \in Clients : KeyOK(limiter'[c])
    BY <1>2, <2>1
  <2>4. guesses' \in [Clients -> Seq(0..clock)]
    BY <1>2, <2>1
  <2>5. QED
    BY <2>1, <2>2, <2>3, <2>4, KeepsState
<1>11. CASE UNCHANGED vars
  <2>1. UNCHANGED <<limiter, submits, clock, guesses>>
    BY <1>11 DEF vars
  <2>2. SubmitsOK'
    BY <1>1, <2>1 DEF SubmitsOK, SubmitOK
  <2>3. QED
    BY <1>1, <2>1, <2>2, KeepsState
<1>12. QED
  BY <1>3, <1>4, <1>5, <1>6, <1>7, <1>8, <1>9, <1>10, <1>11 DEF Next

LEMMA StateInvariant == Spec => []StateInv
BY InitState, StateStep, PTL DEF Spec

\* Types, and fewer failures than lock a key, none from the future.
THEOREM TypeCorrect == Spec => []TypeOK
<1>1. StateInv => TypeOK
  BY DEF StateInv, SubmitsOK, SubmitOK, Held, TypeOK, KeyOK, Time
<1>2. QED
  BY <1>1, StateInvariant, PTL

-----------------------------------------------------------------------------
(* Guesses *)

\* What the submits of an address can still add: failures that are not recorded
\* yet, and guesses behind a check that is passed.
Unrecorded(c, t) ==
    {s \in Submits : submits[s].at = "wrong" /\ submits[s].client = c /\ submits[s].now \in Span(t)}

Past(c) == {s \in Submits : submits[s].at = "checked" /\ submits[s].client = c}

Bound == MaxAttempts + Cardinality(Submits) - 1

\* Until the window from t on is over, its guesses are among the recorded and
\* the unrecorded failures, or a lock that outlasts it has fallen; then only
\* the submits that are past the check can guess once more.
Counted(c, t) ==
    Cardinality(Hits(guesses[c], t)) <=
      Cardinality(Hits(limiter[c].failures, t)) + Cardinality(Unrecorded(c, t))

Over(t) == clock > t + Window - MaxWait - 1

ShutOut(c, t) ==
    /\ limiter[c].lockedUntil > t + Window - MaxWait - 1
    /\ Cardinality(Hits(guesses[c], t)) + Cardinality(Past(c)) <= Bound

Limited(c, t) ==
    IF Over(t) THEN Cardinality(Hits(guesses[c], t)) <= Bound
    ELSE Counted(c, t) \/ ShutOut(c, t)

GuessInv == \A c \in Clients, t \in 0..MaxTime : Limited(c, t)

LEMMA SubmitsCount ==
    ASSUME NEW c, NEW t
    PROVE  /\ IsFiniteSet(Unrecorded(c, t)) /\ IsFiniteSet(Past(c))
           /\ Cardinality(Unrecorded(c, t)) \in Nat /\ Cardinality(Past(c)) \in Nat
           /\ Cardinality(Submits) \in Nat
           /\ Cardinality(Unrecorded(c, t)) + Cardinality(Past(c)) <= Cardinality(Submits)
<1> DEFINE U == Unrecorded(c, t)
           P == Past(c)
<1>1. U \in SUBSET Submits /\ P \in SUBSET Submits /\ U \cap P = {}
  BY DEF Unrecorded, Past
<1> HIDE DEF U, P
<1>2. IsFiniteSet(U) /\ IsFiniteSet(P) /\ IsFiniteSet(Submits)
  BY <1>1, FS_Subset
<1>3. Cardinality(U \cup P) = Cardinality(U) + Cardinality(P) - Cardinality(U \cap P)
  BY <1>2, FS_Union
<1>4. Cardinality(U \cap P) = 0
  BY <1>1, FS_EmptySet
<1>5. U \cup P \in SUBSET Submits
  BY <1>1
<1>6. Cardinality(U \cup P) <= Cardinality(Submits)
  BY <1>2, <1>5, FS_Subset
<1>7. Cardinality(U) \in Nat /\ Cardinality(P) \in Nat /\ Cardinality(Submits) \in Nat
  BY <1>2, FS_CardinalityType
<1>8. QED
  BY <1>2, <1>3, <1>4, <1>6, <1>7 DEF U, P

\* The numbers of Limited.
LEMMA Numbers ==
    ASSUME StateInv, NEW c \in Clients, NEW t
    PROVE  /\ Cardinality(Hits(guesses[c], t)) \in Nat
           /\ Cardinality(Hits(limiter[c].failures, t)) \in 0..MaxAttempts - 1
           /\ Bound \in Nat
<1>1. guesses[c] \in Seq(0..clock) /\ limiter[c].failures \in Seq(0..clock)
      /\ Len(limiter[c].failures) < MaxAttempts
  BY DEF StateInv, KeyOK
<1>2. Cardinality(Hits(guesses[c], t)) \in 0..Len(guesses[c])
      /\ Cardinality(Hits(limiter[c].failures, t)) \in 0..Len(limiter[c].failures)
  BY <1>1, HitsFinite
<1>3. Cardinality(Submits) \in Nat
  BY FS_CardinalityType
<1>4. QED
  BY <1>1, <1>2, <1>3 DEF Bound

\* Whoever is limited now cannot exceed the bound with what is under way.
LEMMA WithinBound ==
    ASSUME StateInv, NEW c \in Clients, NEW t, Limited(c, t)
    PROVE  /\ Cardinality(Hits(guesses[c], t)) <= Bound
           /\ ~Over(t) => Cardinality(Hits(guesses[c], t)) + Cardinality(Past(c)) <= Bound
<1> DEFINE g == Cardinality(Hits(guesses[c], t))
           f == Cardinality(Hits(limiter[c].failures, t))
           u == Cardinality(Unrecorded(c, t))
           p == Cardinality(Past(c))
           n == Cardinality(Submits)
<1>1. g \in Nat /\ f \in 0..MaxAttempts - 1
  BY Numbers
<1>2. u \in Nat /\ p \in Nat /\ n \in Nat /\ u + p <= n
  BY SubmitsCount
<1>3. Over(t) => g <= Bound
  BY DEF Limited
<1>4. ~Over(t) => g <= f + u \/ g + p <= Bound
  BY DEF Limited, Counted, ShutOut
<1>5. Bound = MaxAttempts + n - 1
  BY DEF Bound
<1> HIDE DEF g, f, u, p, n
<1>6. ~Over(t) => g + p <= Bound
  BY <1>1, <1>2, <1>4, <1>5
<1>7. g <= Bound
  BY <1>1, <1>2, <1>3, <1>5, <1>6
<1>8. QED
  BY <1>6, <1>7 DEF g, p

LEMMA NotAfter ==
    ASSUME StateInv, NEW c \in Clients, NEW t \in Nat, clock < t
    PROVE  Cardinality(Hits(guesses[c], t)) = 0
<1>1. guesses[c] \in Seq(0..clock) /\ clock \in Nat
  BY DEF StateInv
<1>2. \A i \in DOMAIN guesses[c] : guesses[c][i] \in 0..clock
  BY <1>1
<1>3. Hits(guesses[c], t) = {}
  BY <1>1, <1>2 DEF Hits, Span
<1>4. QED
  BY <1>3, FS_EmptySet

\* Nothing of an address changes, except that submits give up behind the check.
LEMMA SameLimit ==
    ASSUME StateInv, StateInv', NEW c \in Clients, NEW t \in Nat, Limited(c, t),
           UNCHANGED clock, guesses'[c] = guesses[c], limiter'[c] = limiter[c],
           Unrecorded(c, t)' = Unrecorded(c, t), Past(c)' \subseteq Past(c)
    PROVE  Limited(c, t)'
<1>1. Cardinality(Past(c)') <= Cardinality(Past(c)) /\ Cardinality(Past(c)') \in Nat
      /\ Cardinality(Past(c)) \in Nat
  BY SubmitsCount, FS_Subset, FS_CardinalityType
<1>2. Hits(guesses'[c], t) = Hits(guesses[c], t)
      /\ Hits(limiter'[c].failures, t) = Hits(limiter[c].failures, t)
  OBVIOUS
<1>3. Cardinality(Hits(guesses[c], t)) \in Nat /\ Bound \in Nat
  BY Numbers
<1>4. CASE Over(t)
  <2>1. Over(t)' /\ Bound' = Bound
    BY <1>4 DEF Over, Bound
  <2>2. QED
    BY <1>2, <1>4, <2>1 DEF Limited
<1>5. CASE ~Over(t)
  <2>1. ~Over(t)' /\ Bound' = Bound
    BY <1>5 DEF Over, Bound
  <2>2. CASE Counted(c, t)
    BY <1>2, <2>1, <2>2 DEF Limited, Counted
  <2>3. CASE ShutOut(c, t)
    BY <1>1, <1>2, <1>3, <2>1, <2>3 DEF Limited, ShutOut
  <2>4. QED
    BY <1>5, <2>2, <2>3 DEF Limited
<1>6. QED
  BY <1>4, <1>5

\* A right password or a restart forgets the guesses of an address.
LEMMA Forgotten ==
    ASSUME StateInv, StateInv', NEW c \in Clients, NEW t \in Nat, guesses'[c] = <<>>
    PROVE  Limited(c, t)'
<1>1. Cardinality(Hits(guesses'[c], t)) = 0
  <2>1. Hits(guesses'[c], t) = {}
    BY DEF Hits
  <2>2. QED
    BY <2>1, FS_EmptySet
<1>2. /\ Cardinality(Hits(limiter[c].failures, t))' \in Nat /\ Bound' \in Nat
      /\ Cardinality(Unrecorded(c, t))' \in Nat
  <2>1. limiter'[c].failures \in Seq(0..clock')
    BY DEF StateInv, KeyOK
  <2>2. Cardinality(Hits(limiter'[c].failures, t)) \in 0..Len(limiter'[c].failures)
    BY <2>1, HitsFinite
  <2>3. Unrecorded(c, t)' \in SUBSET Submits
    BY DEF Unrecorded
  <2>4. Cardinality(Unrecorded(c, t)') \in Nat /\ Cardinality(Submits) \in Nat
    BY <2>3, FS_Subset, FS_CardinalityType
  <2>5. QED
    BY <2>1, <2>2, <2>4 DEF Bound
<1>3. QED
  BY <1>1, <1>2 DEF Limited, Counted

\* The lock falls or is extended: it outlasts each window that has begun.
LEMMA LockFalls ==
    ASSUME StateInv, NEW c \in Clients, NEW t \in Nat, Limited(c, t),
           NEW now \in Nat, clock <= now + MaxWait, t <= clock, ~Over(t),
           UNCHANGED clock, guesses'[c] = guesses[c], Past(c)' = Past(c),
           limiter'[c].lockedUntil = now + Lockout
    PROVE  Limited(c, t)'
<1>1. Cardinality(Hits(guesses'[c], t)) + Cardinality(Past(c)') <= Bound
  BY WithinBound
<1>2. limiter'[c].lockedUntil > t + Window - MaxWait - 1
  BY DEF StateInv
<1>3. ~Over(t)' /\ Bound' = Bound
  BY DEF Over, Bound
<1>4. QED
  BY <1>1, <1>2, <1>3 DEF Limited, ShutOut

\* A failure is recorded and no lock falls: the window keeps all it has.
LEMMA FailureKept ==
    ASSUME StateInv, NEW c \in Clients, NEW t \in Nat, Limited(c, t), t <= clock, ~Over(t),
           NEW s \in Submits, submits[s].at = "wrong", submits[s].client = c,
           limiter[c].lockedUntil <= submits[s].now,
           UNCHANGED clock, guesses'[c] = guesses[c],
           limiter'[c].failures = Kept(limiter[c], submits[s].now),
           Unrecorded(c, t)' = Unrecorded(c, t) \ {s}
    PROVE  Limited(c, t)'
<1> DEFINE now == submits[s].now
           T == 0..clock
           old == limiter[c].failures
           all == Append(old, now)
           f == Cardinality(Hits(old, t))
           u == Cardinality(Unrecorded(c, t))
<1>1. now \in T /\ old \in Seq(T) /\ T \subseteq Int /\ clock \in Nat
  <2>1. clock \in Nat /\ submits[s] \in Held /\ SubmitOK(submits[s])
    BY SubmitHeld
  <2>2. now \in Nat /\ now <= clock
    BY <2>1 DEF Held, SubmitOK
  <2>3. old \in Seq(T)
    BY DEF StateInv, KeyOK
  <2>4. QED
    BY <2>1, <2>2, <2>3
<1>2. Counted(c, t)
  <2>1. limiter[c].lockedUntil \in Nat /\ limiter[c].lockedUntil <= clock
    BY <1>1 DEF StateInv, KeyOK
  <2>2. ~ShutOut(c, t)
    BY <1>1, <2>1 DEF ShutOut, Over
  <2>3. QED
    BY <2>2 DEF Limited
<1>3. \A x \in Span(t) : x > now - Window
  BY <1>1 DEF Span, Over
<1> HIDE DEF T, now, old
<1>4. all \in Seq(T) /\ Cardinality(Hits(all, t)) = IF now \in Span(t) THEN f + 1 ELSE f
  BY <1>1, OneMoreHit
<1>5. PICK g : Filter(g, all, now - Window, Len(all)) /\ Kept(limiter[c], now) = g[Len(all)]
  <2>1. PICK st : st = limiter[c]
    OBVIOUS
  <2>2. st.failures \in Seq(T) /\ now \in T
    BY <1>1, <2>1 DEF old
  <2>3. \E g : /\ Filter(g, Append(st.failures, now), now - Window, Len(Append(st.failures, now)))
               /\ Kept(st, now) = g[Len(Append(st.failures, now))]
    BY <2>2, KeptFilters
  <2>4. QED
    BY <2>1, <2>3 DEF old
<1> HIDE DEF all, f
<1>6. Cardinality(Hits(g[Len(all)], t)) = Cardinality(Hits(all, t))
  <2>1. PICK low : low = now - Window
    OBVIOUS
  <2>2. Filter(g, all, low, Len(all)) /\ Spares(low, t)
    BY <1>3, <1>5, <2>1 DEF Spares
  <2>3. QED
    BY <1>4, <2>2, FilterCounts
<1>7. Cardinality(Unrecorded(c, t)') = IF now \in Span(t) THEN u - 1 ELSE u
  <2>1. s \in Unrecorded(c, t) <=> now \in Span(t)
    BY DEF Unrecorded, now
  <2>2. IsFiniteSet(Unrecorded(c, t))
    BY SubmitsCount
  <2>3. CASE now \in Span(t)
    <3>1. Cardinality(Unrecorded(c, t) \ {s}) = Cardinality(Unrecorded(c, t)) - 1
      BY <2>1, <2>2, <2>3, FS_RemoveElement
    <3>2. QED
      BY <2>3, <3>1
  <2>4. CASE now \notin Span(t)
    <3>1. Unrecorded(c, t) \ {s} = Unrecorded(c, t)
      BY <2>1, <2>4
    <3>2. QED
      BY <2>4, <3>1
  <2>5. QED
    BY <2>3, <2>4
<1>8. Cardinality(Hits(limiter'[c].failures, t)) = IF now \in Span(t) THEN f + 1 ELSE f
  BY <1>4, <1>5, <1>6 DEF now
<1>9. f \in Nat /\ u \in Nat /\ Cardinality(Hits(guesses[c], t)) \in Nat
  <2>1. f \in 0..MaxAttempts - 1 /\ Cardinality(Hits(guesses[c], t)) \in Nat
    BY Numbers DEF f, old
  <2>2. u \in Nat
    BY SubmitsCount
  <2>3. QED
    BY <2>1, <2>2
<1>10. Cardinality(Hits(guesses[c], t)) <= f + u
  BY <1>2 DEF Counted, f, old
<1> HIDE DEF u
<1>11. Counted(c, t)'
  BY <1>7, <1>8, <1>9, <1>10 DEF Counted
<1>12. ~Over(t)'
  BY DEF Over
<1>13. QED
  BY <1>11, <1>12 DEF Limited

\* Once the window is over no guess can fall in it any more.
LEMMA Closed ==
    ASSUME StateInv, NEW c \in Clients, NEW t \in Nat, Limited(c, t), Over(t)',
           Cardinality(Hits(guesses'[c], t)) = Cardinality(Hits(guesses[c], t))
    PROVE  Limited(c, t)'
<1>1. Cardinality(Hits(guesses[c], t)) <= Bound
  BY WithinBound
<1>2. Bound' = Bound
  BY DEF Bound
<1>3. QED
  BY <1>1, <1>2 DEF Limited

LEMMA SubmitLimited ==
    ASSUME StateInv, StateInv', NEW c \in Clients, NEW t \in Nat, Limited(c, t),
           NEW s \in Submits, NEW d \in Clients, Submit(s, d)
    PROVE  Limited(c, t)'
<1>1. UNCHANGED <<clock, limiter, guesses>>
      /\ submits' = [submits EXCEPT ![s] = [at |-> "checked", client |-> d, now |-> 0]]
  BY DEF Submit
<1>2. submits[s].at = "idle" /\ DOMAIN submits = Submits
  BY SubmitHeld DEF Submit
<1>3. Unrecorded(c, t)' = Unrecorded(c, t)
  BY <1>1, <1>2 DEF Unrecorded
<1>4. CASE c # d
  <2>1. Past(c)' = Past(c)
    BY <1>1, <1>2, <1>4 DEF Past
  <2>2. QED
    BY <1>1, <1>3, <2>1, SameLimit
<1>5. CASE c = d
  <2>1. CASE Over(t)
    BY <1>1, <2>1, Closed DEF Over
  <2>2. CASE ~Over(t)
    <3>1. limiter[c].lockedUntil <= clock /\ limiter[c].lockedUntil \in Nat /\ clock \in Nat
      BY <1>5 DEF Submit, IsLocked, StateInv, KeyOK
    <3>2. ~ShutOut(c, t)
      BY <2>2, <3>1 DEF ShutOut, Over
    <3>3. Counted(c, t)
      BY <2>2, <3>2 DEF Limited
    <3>4. Counted(c, t)' /\ ~Over(t)'
      BY <1>1, <1>3, <2>2, <3>3 DEF Counted, Over
    <3>5. QED
      BY <3>4 DEF Limited
  <2>3. QED
    BY <2>1, <2>2
<1>6. QED
  BY <1>4, <1>5

LEMMA LookupLimited ==
    ASSUME StateInv, StateInv', NEW c \in Clients, NEW t \in Nat, Limited(c, t),
           NEW s \in Submits, LookupFails(s)
    PROVE  Limited(c, t)'
<1>1. UNCHANGED <<clock, limiter, guesses>> /\ submits' = [submits EXCEPT ![s] = Idle]
      /\ submits[s].at = "checked" /\ DOMAIN submits = Submits
  BY SubmitHeld DEF LookupFails
<1>2. Unrecorded(c, t)' = Unrecorded(c, t) /\ Past(c)' \subseteq Past(c)
  BY <1>1 DEF Unrecorded, Past, Idle
<1>3. QED
  BY <1>1, <1>2, SameLimit

\* A guess is one more, but its submit is no longer behind the check.
LEMMA WrongLimited ==
    ASSUME StateInv, StateInv', NEW c \in Clients, NEW t \in Nat, Limited(c, t),
           NEW s \in Submits, WrongPassword(s)
    PROVE  Limited(c, t)'
<1> DEFINE d == submits[s].client
           g == Cardinality(Hits(guesses[c], t))
<1>1. /\ UNCHANGED <<clock, limiter>> /\ DOMAIN submits = Submits
      /\ submits' = [submits EXCEPT ![s].at = "wrong", ![s].now = clock]
      /\ guesses' = [guesses EXCEPT ![d] = Append(guesses[d], clock)]
      /\ submits[s].at = "checked"
  BY SubmitHeld DEF WrongPassword
<1>2. submits[s] \in Held /\ clock \in Nat
  BY SubmitHeld
<1>3. guesses[c] \in Seq(0..clock) /\ DOMAIN guesses = Clients
  BY DEF StateInv
<1>4. /\ submits'[s].at = "wrong" /\ submits'[s].now = clock /\ submits'[s].client = d
      /\ \A o \in Submits : o # s => submits'[o] = submits[o]
  <2>1. PICK r : r = submits[s]
    OBVIOUS
  <2>2. submits' = [submits EXCEPT ![s] = [r EXCEPT !.at = "wrong", !.now = clock]]
    BY <1>1, <2>1
  <2>3. QED
    BY <1>1, <1>2, <2>1, <2>2 DEF Held
<1>5. CASE c # d
  <2>1. guesses'[c] = guesses[c]
    BY <1>1, <1>5
  <2>2. Unrecorded(c, t)' = Unrecorded(c, t) /\ Past(c)' \subseteq Past(c)
    BY <1>1, <1>4, <1>5 DEF Unrecorded, Past
  <2>3. QED
    BY <1>1, <2>1, <2>2, SameLimit
<1>6. CASE c = d
  <2>1. guesses'[c] = Append(guesses[c], clock)
    BY <1>1, <1>3, <1>6
  <2>2. Cardinality(Hits(guesses'[c], t)) = IF clock \in Span(t) THEN g + 1 ELSE g
    <3>1. clock \in 0..clock
      BY <1>2
    <3>2. QED
      BY <1>3, <2>1, <3>1, OneMoreHit
  <2>3. g \in Nat /\ Bound \in Nat /\ Cardinality(Hits(limiter[c].failures, t)) \in Nat
    BY Numbers
  <2> HIDE DEF g
  <2>4. CASE Over(t)
    <3>1. clock \notin Span(t) /\ Over(t)'
      BY <1>1, <1>2, <2>4 DEF Span, Over
    <3>2. QED
      BY <2>2, <3>1, Closed DEF g
  <2>5. CASE ~Over(t)
    <3>1. ~Over(t)' /\ Bound' = Bound
      BY <1>1, <2>5 DEF Over, Bound
    <3>2. CASE Counted(c, t)
      <4>1. s \notin Unrecorded(c, t) /\ IsFiniteSet(Unrecorded(c, t))
            /\ Cardinality(Unrecorded(c, t)) \in Nat
        <5>1. s \notin Unrecorded(c, t)
          BY <1>1 DEF Unrecorded
        <5>2. QED
          BY <5>1, SubmitsCount
      <4>2. Unrecorded(c, t)' = IF clock \in Span(t) THEN Unrecorded(c, t) \cup {s}
                                ELSE Unrecorded(c, t)
        BY <1>1, <1>4, <1>6 DEF Unrecorded
      <4>3. Cardinality(Unrecorded(c, t) \cup {s}) = Cardinality(Unrecorded(c, t)) + 1
        BY <4>1, FS_AddElement
      <4>4. g <= Cardinality(Hits(limiter[c].failures, t)) + Cardinality(Unrecorded(c, t))
        BY <3>2 DEF Counted, g
      <4>5. limiter'[c] = limiter[c]
        BY <1>1
      <4>6. Counted(c, t)'
        BY <2>2, <2>3, <4>1, <4>2, <4>3, <4>4, <4>5 DEF Counted
      <4>7. QED
        BY <3>1, <4>6 DEF Limited
    <3>3. CASE ShutOut(c, t)
      <4>1. s \in Past(c) /\ IsFiniteSet(Past(c)) /\ Cardinality(Past(c)) \in Nat
        <5>1. s \in Past(c)
          BY <1>1, <1>6 DEF Past
        <5>2. QED
          BY <5>1, SubmitsCount
      <4>2. Past(c)' = Past(c) \ {s}
        BY <1>1, <1>4 DEF Past
      <4>3. Cardinality(Past(c)') = Cardinality(Past(c)) - 1
        BY <4>1, <4>2, FS_RemoveElement
      <4>4. g + Cardinality(Past(c)) <= Bound
            /\ limiter[c].lockedUntil > t + Window - MaxWait - 1
        BY <3>3 DEF ShutOut, g
      <4>5. Cardinality(Hits(guesses'[c], t)) + Cardinality(Past(c)') <= Bound'
        BY <2>2, <2>3, <3>1, <4>1, <4>3, <4>4
      <4>6. ShutOut(c, t)'
        BY <1>1, <4>4, <4>5 DEF ShutOut
      <4>7. QED
        BY <3>1, <4>6 DEF Limited
    <3>4. QED
      BY <2>5, <3>2, <3>3 DEF Limited
  <2>6. QED
    BY <2>4, <2>5
<1>7. QED
  BY <1>5, <1>6

\* A failure is recorded, or the lock falls.
LEMMA RegisterLimited ==
    ASSUME StateInv, StateInv', NEW c \in Clients, NEW t \in Nat, Limited(c, t),
           NEW s \in Submits, RegisterFailure(s)
    PROVE  Limited(c, t)'
<1> DEFINE d == submits[s].client
           now == submits[s].now
<1>1. /\ UNCHANGED <<clock, guesses>> /\ DOMAIN submits = Submits
      /\ submits' = [submits EXCEPT ![s] = Idle]
      /\ limiter' = [limiter EXCEPT ![d] = Registered(limiter[d], now)]
      /\ submits[s].at = "wrong"
  BY SubmitHeld DEF RegisterFailure
<1>2. Past(c)' = Past(c)
  BY <1>1 DEF Past, Idle
<1>3. now \in Nat /\ clock \in Nat /\ now <= clock /\ clock <= now + MaxWait
  <2>1. clock \in Nat /\ submits[s] \in Held /\ SubmitOK(submits[s])
    BY SubmitHeld
  <2>2. QED
    BY <1>1, <2>1 DEF SubmitOK, Held
<1>4. CASE c # d
  <2>1. limiter'[c] = limiter[c]
    BY <1>1, <1>4
  <2>2. Unrecorded(c, t)' = Unrecorded(c, t)
    BY <1>1, <1>4 DEF Unrecorded, Idle
  <2>3. QED
    BY <1>1, <1>2, <2>1, <2>2, SameLimit
<1>5. CASE c = d
  <2>1. limiter'[c] = Registered(limiter[c], now)
    BY <1>1, <1>5 DEF StateInv
  <2>2. Unrecorded(c, t)' = Unrecorded(c, t) \ {s}
    BY <1>1 DEF Unrecorded, Idle
  <2> HIDE DEF now
  <2>3. CASE Over(t)
    BY <1>1, <2>3, Closed DEF Over
  <2>4. CASE clock < t /\ ~Over(t)
    <3>1. Cardinality(Hits(guesses'[c], t)) = 0
      BY <1>1, <2>4, NotAfter
    <3>2. ~Over(t)'
      BY <1>1, <2>4 DEF Over
    <3>3. Cardinality(Hits(limiter'[c].failures, t)) \in Nat
      <4>1. limiter'[c].failures \in Seq(0..clock')
        BY DEF StateInv, KeyOK
      <4>2. Cardinality(Hits(limiter'[c].failures, t)) \in 0..Len(limiter'[c].failures)
        BY <4>1, HitsFinite
      <4>3. QED
        BY <4>1, <4>2
    <3>4. Cardinality(Unrecorded(c, t)') \in Nat
      BY <2>2, SubmitsCount, FS_Subset, FS_CardinalityType
    <3>5. Counted(c, t)'
      BY <3>1, <3>3, <3>4 DEF Counted
    <3>6. QED
      BY <3>2, <3>5 DEF Limited
  <2>5. CASE t <= clock /\ ~Over(t)
    <3>1. PICK st : st = limiter[c]
      OBVIOUS
    <3>2. \/ Registered(st, now).lockedUntil = now + Lockout
          \/ st.lockedUntil <= now /\ Registered(st, now).failures = Kept(st, now)
      <4>1. st.lockedUntil \in Nat
        BY <3>1 DEF StateInv, KeyOK
      <4>2. QED
        BY <1>3, <4>1 DEF Registered, Locked
    <3>3. CASE limiter'[c].lockedUntil = now + Lockout
      BY <1>1, <1>2, <1>3, <2>5, <3>3, LockFalls
    <3>4. CASE limiter[c].lockedUntil <= now /\ limiter'[c].failures = Kept(limiter[c], now)
      BY <1>1, <1>5, <2>2, <2>5, <3>4, FailureKept DEF now
    <3>5. QED
      BY <2>1, <3>1, <3>2, <3>3, <3>4
  <2>6. QED
    BY <1>3, <2>3, <2>4, <2>5
<1>6. QED
  BY <1>4, <1>5

LEMMA RightLimited ==
    ASSUME StateInv, StateInv', NEW c \in Clients, NEW t \in Nat, Limited(c, t),
           NEW s \in Submits, NEW name \in Names, RightPassword(s, name)
    PROVE  Limited(c, t)'
<1> DEFINE d == submits[s].client
<1>1. /\ UNCHANGED clock /\ DOMAIN submits = Submits
      /\ submits' = [submits EXCEPT ![s] = Idle]
      /\ limiter' = [limiter EXCEPT ![d] = Fresh]
      /\ guesses' = [guesses EXCEPT ![d] = <<>>]
      /\ submits[s].at = "checked"
  BY SubmitHeld DEF RightPassword
<1>2. CASE c = d
  <2>1. guesses'[c] = <<>>
    BY <1>1, <1>2 DEF StateInv
  <2>2. QED
    BY <2>1, Forgotten
<1>3. CASE c # d
  <2>1. guesses'[c] = guesses[c] /\ limiter'[c] = limiter[c]
    BY <1>1, <1>3
  <2>2. Unrecorded(c, t)' = Unrecorded(c, t) /\ Past(c)' \subseteq Past(c)
    BY <1>1 DEF Unrecorded, Past, Idle
  <2>3. QED
    BY <1>1, <2>1, <2>2, SameLimit
<1>4. QED
  BY <1>2, <1>3

LEMMA AdvanceLimited ==
    ASSUME StateInv, StateInv', NEW c \in Clients, NEW t \in Nat, Limited(c, t), Advance
    PROVE  Limited(c, t)'
<1>1. UNCHANGED <<limiter, submits, guesses>> /\ clock' = clock + 1 /\ clock \in Nat
  BY DEF Advance, StateInv
<1>2. CASE Over(t)'
  BY <1>1, <1>2, Closed
<1>3. CASE ~Over(t)'
  <2>1. ~Over(t) /\ Bound' = Bound
    BY <1>1, <1>3 DEF Over, Bound
  <2>2. Past(c)' = Past(c) /\ Unrecorded(c, t)' = Unrecorded(c, t)
    BY <1>1 DEF Past, Unrecorded
  <2>3. Counted(c, t) => Counted(c, t)'
    BY <1>1, <2>2 DEF Counted
  <2>4. ShutOut(c, t) => ShutOut(c, t)'
    BY <1>1, <2>1, <2>2 DEF ShutOut
  <2>5. QED
    BY <1>3, <2>1, <2>3, <2>4 DEF Limited
<1>4. QED
  BY <1>2, <1>3

LEMMA QuietLimited ==
    ASSUME StateInv, StateInv', NEW c \in Clients, NEW t \in Nat, Limited(c, t),
           UNCHANGED <<limiter, submits, clock, guesses>>
    PROVE  Limited(c, t)'
<1>1. Past(c)' = Past(c) /\ Unrecorded(c, t)' = Unrecorded(c, t)
  BY DEF Past, Unrecorded
<1>2. QED
  BY <1>1, SameLimit

LEMMA InitGuess == Init => GuessInv
<1> SUFFICES ASSUME Init, NEW c \in Clients, NEW t \in 0..MaxTime PROVE Limited(c, t)
  BY DEF GuessInv
<1>1. StateInv
  BY InitState
<1>2. guesses[c] = <<>>
  BY DEF Init
<1>3. Cardinality(Hits(guesses[c], t)) = 0
  <2>1. Hits(guesses[c], t) = {}
    BY <1>2 DEF Hits
  <2>2. QED
    BY <2>1, FS_EmptySet
<1>4. Cardinality(Hits(limiter[c].failures, t)) \in 0..MaxAttempts - 1 /\ Bound \in Nat
  BY <1>1, Numbers
<1>5. Cardinality(Unrecorded(c, t)) \in Nat
  BY SubmitsCount
<1>6. QED
  BY <1>3, <1>4, <1>5 DEF Limited, Counted

LEMMA GuessStep == StateInv /\ StateInv' /\ GuessInv /\ [Next]_vars => GuessInv'
<1> SUFFICES ASSUME StateInv, StateInv', GuessInv, [Next]_vars,
                    NEW c \in Clients, NEW t \in 0..MaxTime
             PROVE  Limited(c, t)'
  BY DEF GuessInv
<1>1. Limited(c, t) /\ t \in Nat
  BY DEF GuessInv
<1>2. CASE \E s \in Submits, d \in Clients : Submit(s, d)
  BY <1>1, <1>2, SubmitLimited
<1>3. CASE \E s \in Submits : LookupFails(s)
  BY <1>1, <1>3, LookupLimited
<1>4. CASE \E s \in Submits : WrongPassword(s)
  BY <1>1, <1>4, WrongLimited
<1>5. CASE \E s \in Submits : RegisterFailure(s)
  BY <1>1, <1>5, RegisterLimited
<1>6. CASE \E s \in Submits, name \in Names : RightPassword(s, name)
  BY <1>1, <1>6, RightLimited
<1>7. CASE \E d \in Clients : Logout(d)
  <2>1. UNCHANGED <<limiter, submits, clock, guesses>>
    BY <1>7 DEF Logout
  <2>2. QED
    BY <1>1, <2>1, QuietLimited
<1>8. CASE Advance
  BY <1>1, <1>8, AdvanceLimited
<1>9. CASE Restart
  <2>1. guesses'[c] = <<>>
    BY <1>9 DEF Restart
  <2>2. QED
    BY <1>1, <2>1, Forgotten
<1>10. CASE UNCHANGED vars
  <2>1. UNCHANGED <<limiter, submits, clock, guesses>>
    BY <1>10 DEF vars
  <2>2. QED
    BY <1>1, <2>1, QuietLimited
<1>11. QED
  BY <1>2, <1>3, <1>4, <1>5, <1>6, <1>7, <1>8, <1>9, <1>10 DEF Next

\* However submits overlap, an address compares at most MaxAttempts wrong
\* passwords in any time shorter than a window by MaxWait, and one for each
\* further submit that had passed the check before the lock fell.
THEOREM GuessesCorrect == Spec => []GuessesBounded
<1>1. StateInv /\ GuessInv => GuessesBounded
  <2>1. SUFFICES ASSUME StateInv, GuessInv, NEW c \in Clients, NEW t \in Time
                 PROVE  Cardinality(Hits(guesses[c], t)) <= Bound
    BY DEF GuessesBounded, Hits, Span, Bound
  <2>2. Limited(c, t)
    BY <2>1 DEF GuessInv, Time
  <2>3. QED
    BY <2>1, <2>2, WithinBound
<1>2. QED
  BY <1>1, InitGuess, GuessStep, StateInvariant, PTL DEF Spec
=============================================================================
