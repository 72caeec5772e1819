------------------------------- MODULE Login -------------------------------
(***************************************************************************)
(* The admin login: LoginSubmit, Logout and RequireAuth (handler/auth.go), *)
(* the LoginLimiter (auth/loginlimit.go) and the signed session token      *)
(* (auth/session.go).  A submit asks the limiter whether its address is    *)
(* locked, compares the password (slow: bcrypt) and only then records the  *)
(* outcome, so submits that run at the same time all pass the question     *)
(* before any of them is recorded.  RegisterFailure reads the clock before *)
(* it takes the mutex: what it records may be older than what is there.    *)
(***************************************************************************)
EXTENDS Integers, Sequences, FiniteSets

CONSTANTS
    Clients,      \* addresses, each with one browser
    Submits,      \* login submits that may run at the same time
    Names,        \* user names, each the sequence of its dot-separated parts
    MaxAttempts, Window, Lockout,   \* LimiterConfig
    TTL,          \* sessionTTL
    MaxTime,      \* bound: the last instant
    MaxWait,      \* bound: how long a RegisterFailure waits for the mutex
    Nobody        \* no client

ASSUME LoginAssumption ==
    /\ Names \subseteq Seq(STRING) \ {<<>>}
    /\ MaxAttempts \in Nat \ {0}
    /\ Window \in Nat /\ Lockout \in Nat /\ TTL \in Nat
    /\ MaxTime \in Nat /\ MaxWait \in Nat
    /\ MaxWait < Window /\ Window <= Lockout
    /\ Nobody \notin Clients /\ IsFiniteSet(Submits)

VARIABLES
    limiter,    \* LoginLimiter.state; a missing key is Fresh
    submits,    \* what each running LoginSubmit holds
    cookies,    \* the session cookie of each browser, <<>> if it has none
    clock,      \* now
    guesses,    \* history: when wrong passwords were compared, per address,
                \* since the last success or restart
    promised,   \* history: Lockout after the last failure that was recorded
                \* on, or that locked, an address; 0 after a success or restart
    signedIn    \* history: whom and when each browser last signed in as

vars == <<limiter, submits, cookies, clock, guesses, promised, signedIn>>

Time == 0..MaxTime

Fresh == [failures |-> <<>>, lockedUntil |-> 0]

Idle == [at |-> "idle", client |-> Nobody, now |-> 0]

Stranger == [name |-> <<>>, since |-> 0]

----------------------------------------------------------------------------
\* LoginLimiter

IsLocked(c) == clock < limiter[c].lockedUntil

Locked(failures, now) == [failures |-> failures, lockedUntil |-> now + Lockout]

\* The failures of a key that are still in the window, and a new one.
Kept(st, now) ==
    LET failures == Append(st.failures, now)
        kept[k \in 0..Len(failures)] ==
          IF k = 0 THEN <<>>
          ELSE IF failures[k] > now - Window THEN Append(kept[k - 1], failures[k])
          ELSE kept[k - 1]
    IN kept[Len(failures)]

\* Mutants: one failure too many before the lock; the history survives the
\* lock; an attempt on a locked key locks it until now.
Registered_OneMore(st, now) ==
    IF now < st.lockedUntil THEN Locked(st.failures, now)
    ELSE IF Len(Kept(st, now)) > MaxAttempts THEN Locked(<<>>, now)
    ELSE [failures |-> Kept(st, now), lockedUntil |-> st.lockedUntil]

Registered_KeepsHistory(st, now) ==
    IF now < st.lockedUntil THEN Locked(st.failures, now)
    ELSE IF Len(Kept(st, now)) >= MaxAttempts THEN Locked(Kept(st, now), now)
    ELSE [failures |-> Kept(st, now), lockedUntil |-> st.lockedUntil]

Registered_NoDuration(st, now) ==
    IF now < st.lockedUntil THEN Locked(st.failures, now - Lockout)
    ELSE IF Len(Kept(st, now)) >= MaxAttempts THEN Locked(<<>>, now)
    ELSE [failures |-> Kept(st, now), lockedUntil |-> st.lockedUntil]

\* Mutant: an attempt adds the duration to the lock there is.
Registered_AddsUp(st, now) ==
    IF now < st.lockedUntil THEN Locked(st.failures, st.lockedUntil)
    ELSE IF Len(Kept(st, now)) >= MaxAttempts THEN Locked(<<>>, now)
    ELSE [failures |-> Kept(st, now), lockedUntil |-> st.lockedUntil]

\* RegisterFailure, on the state of a key.
Registered(st, now) ==
    IF now < st.lockedUntil THEN Locked(st.failures, now)
    ELSE IF Len(Kept(st, now)) >= MaxAttempts THEN Locked(<<>>, now)
    ELSE [failures |-> Kept(st, now), lockedUntil |-> st.lockedUntil]

----------------------------------------------------------------------------
\* Signer: a token is its dot-separated parts, the last one the signature.

Mac(name, exp) == <<name, exp>>

Sign(name) == name \o <<clock + TTL, Mac(name, clock + TTL)>>

\* Mutant: the token outlives the session's time by an instant.
Verify_Late(token) ==
    IF /\ Len(token) = 3
       /\ token[3] = Mac(<<token[1]>>, token[2])
       /\ clock <= token[2]
    THEN <<token[1]>> ELSE <<>>

\* The user a token names, or <<>>.
Verify(token) ==
    IF /\ Len(token) = 3
       /\ token[3] = Mac(<<token[1]>>, token[2])
       /\ clock < token[2]
    THEN <<token[1]>> ELSE <<>>

\* RequireAuth: the user it lets in from a browser, or <<>>.
Admitted(c) == Verify(cookies[c])

----------------------------------------------------------------------------
\* LoginSubmit.  A locked client is sent back and nothing changes.

Submit(s, c) ==
    /\ submits[s].at = "idle"
    /\ ~IsLocked(c)
    /\ submits' = [submits EXCEPT ![s] = [at |-> "checked", client |-> c, now |-> 0]]
    /\ UNCHANGED <<limiter, cookies, clock, guesses, promised, signedIn>>

LookupFails(s) ==
    /\ submits[s].at = "checked"
    /\ submits' = [submits EXCEPT ![s] = Idle]
    /\ UNCHANGED <<limiter, cookies, clock, guesses, promised, signedIn>>

\* Unknown user or wrong password, up to RegisterFailure's reading of the clock.
WrongPassword(s) ==
    LET c == submits[s].client IN
    /\ submits[s].at = "checked"
    /\ submits' = [submits EXCEPT ![s].at = "wrong", ![s].now = clock]
    /\ guesses' = [guesses EXCEPT ![c] = Append(@, clock)]
    /\ UNCHANGED <<limiter, cookies, clock, promised, signedIn>>

\* The rest of RegisterFailure, under the mutex.
RegisterFailure(s) ==
    LET c == submits[s].client IN
    /\ submits[s].at = "wrong"
    /\ limiter' = [limiter EXCEPT ![c] = Registered(@, submits[s].now)]
    /\ submits' = [submits EXCEPT ![s] = Idle]
    /\ promised' = [promised EXCEPT ![c] = IF clock < limiter'[c].lockedUntil
                                               THEN clock + Lockout ELSE @]
    /\ UNCHANGED <<cookies, clock, guesses, signedIn>>

RightPassword(s, name) ==
    LET c == submits[s].client IN
    /\ submits[s].at = "checked"
    /\ limiter' = [limiter EXCEPT ![c] = Fresh]
    /\ cookies' = [cookies EXCEPT ![c] = Sign(name)]
    /\ submits' = [submits EXCEPT ![s] = Idle]
    /\ guesses' = [guesses EXCEPT ![c] = <<>>]
    /\ promised' = [promised EXCEPT ![c] = 0]
    /\ signedIn' = [signedIn EXCEPT ![c] = [name |-> name, since |-> clock]]
    /\ UNCHANGED clock

Logout(c) ==
    /\ cookies' = [cookies EXCEPT ![c] = <<>>]
    /\ signedIn' = [signedIn EXCEPT ![c] = Stranger]
    /\ UNCHANGED <<limiter, submits, clock, guesses, promised>>

----------------------------------------------------------------------------
Advance ==
    /\ clock < MaxTime
    /\ \A s \in Submits : submits[s].at = "wrong" => clock < submits[s].now + MaxWait
    /\ clock' = clock + 1
    /\ UNCHANGED <<limiter, submits, cookies, guesses, promised, signedIn>>

\* The limiter is in memory; cookies are the browsers' and the secret is
\* configuration.
Restart ==
    /\ limiter' = [c \in Clients |-> Fresh]
    /\ submits' = [s \in Submits |-> Idle]
    /\ guesses' = [c \in Clients |-> <<>>]
    /\ promised' = [c \in Clients |-> 0]
    /\ UNCHANGED <<cookies, clock, signedIn>>

Init ==
    /\ limiter = [c \in Clients |-> Fresh]
    /\ submits = [s \in Submits |-> Idle]
    /\ cookies = [c \in Clients |-> <<>>]
    /\ clock = 0
    /\ guesses = [c \in Clients |-> <<>>]
    /\ promised = [c \in Clients |-> 0]
    /\ signedIn = [c \in Clients |-> Stranger]

Next ==
    \/ \E s \in Submits, c \in Clients : Submit(s, c)
    \/ \E s \in Submits : LookupFails(s) \/ WrongPassword(s) \/ RegisterFailure(s)
    \/ \E s \in Submits, name \in Names : RightPassword(s, name)
    \/ \E c \in Clients : Logout(c)
    \/ Advance
    \/ Restart

Spec == Init /\ [][Next]_vars

----------------------------------------------------------------------------
\* Types; a limiter state holds fewer failures than lock it, none from the
\* future (RegisterFailure).
TypeOK ==
    /\ clock \in Time
    /\ \A s \in Submits :
         /\ submits[s].at \in {"idle", "checked", "wrong"}
         /\ submits[s].client \in IF submits[s].at = "idle" THEN {Nobody} ELSE Clients
         /\ submits[s].at = "wrong" => clock - submits[s].now \in 0..MaxWait
    /\ \A c \in Clients :
         /\ limiter[c].failures \in Seq(0..clock)
         /\ Len(limiter[c].failures) < MaxAttempts

\* Nobody is ever locked out for longer than Lockout from now, however often
\* the lock was extended (RegisterFailure).
LockBounded == \A c \in Clients : limiter[c].lockedUntil <= clock + Lockout

\* However submits overlap, an address compares at most MaxAttempts wrong
\* passwords in any time shorter than a window by what a failure may wait for the
\* mutex, and one for each further submit that had already passed the check when
\* the lock fell (LoginSubmit, RegisterFailure).
GuessesBounded ==
    \A c \in Clients, t \in Time :
      LET within == {i \in DOMAIN guesses[c] :
                       guesses[c][i] \in t..(t + Window - MaxWait - 1)}
      IN Cardinality(within) <= MaxAttempts + Cardinality(Submits) - 1

\* A lock lasts Lockout from the last failure that was recorded on it, less the
\* time that failure may have waited for the mutex: no order in which failures are
\* recorded opens it earlier, only the right password or a restart does
\* (RegisterFailure, RegisterSuccess).  Not less: the comment in RegisterFailure,
\* "each attempt pushes the lockout further out", does not hold of a failure that
\* waited while a later one was recorded; it moves the end of the lock back.
LockHeld ==
    \A c \in Clients : clock + MaxWait < promised[c] => IsLocked(c)

\* A browser that signed in passes RequireAuth under its own name for exactly
\* the session's time, whatever restarts and other logins come between (Sign,
\* Verify).
SessionWorks ==
    \A c \in Clients :
      Admitted(c) = IF clock < signedIn[c].since + TTL THEN signedIn[c].name ELSE <<>>
=============================================================================
