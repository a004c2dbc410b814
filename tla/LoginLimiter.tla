---------------------------- MODULE LoginLimiter ----------------------------
(***************************************************************************)
(* The limit on login attempts (internal/auth/login_limiter.go) as the     *)
(* login handler uses it (internal/api/auth.go, login): an attempt is      *)
(* counted before the body is read; an accepted password forgets the       *)
(* attempts of its source, which may overlap attempts still under way.     *)
(***************************************************************************)
EXTENDS Integers, Sequences, FiniteSets

CONSTANTS Client,         \* client addresses
          Window,         \* loginAttemptWindow
          PerSourceLimit, \* maxFailedLoginAttempts
          GlobalLimit,    \* loginAttemptGlobalMax
          MaxSources,     \* loginAttemptSourceMax
          MaxLTime,       \* bound on the clock
          MaxAttempts     \* bound on allowed attempts

VARIABLES lnow,
          sources,   \* LoginAttemptLimiter.sources
          global,    \* LoginAttemptLimiter.global
          checking,  \* clients whose password is being compared
          log        \* allowed attempts so far (history); forgotten ones are not counted

lvars == <<lnow, sources, global, checking, log>>

\* The global window starts anew when it is over, or at the first attempt.
CurrentGlobal ==
    IF global.started < 0 \/ lnow - global.started >= Window
    THEN [started |-> lnow, n |-> 0] ELSE global

CurrentSources ==
    LET kept == {s \in DOMAIN sources : lnow - sources[s].started < Window}
    IN  [s \in kept |-> sources[s]]

\* A full table gives up the source that was seen longest ago.
WithCapacity(m) ==
    IF Cardinality(DOMAIN m) < MaxSources THEN {DOMAIN m}
    ELSE {DOMAIN m \ {s} : s \in {x \in DOMAIN m : \A y \in DOMAIN m : m[x].seen <= m[y].seen}}

Set(m, keep, s, v) == [x \in keep \cup {s} |-> IF x = s THEN v ELSE m[x]]

Forget(S) == [i \in DOMAIN log |-> IF log[i].src \in S THEN [log[i] EXCEPT !.counted = FALSE] ELSE log[i]]

Refused(s) ==
    LET g == CurrentGlobal
        m == CurrentSources
    IN  /\ global' = g
        /\ \/ g.n >= GlobalLimit /\ sources' = m
           \/ /\ g.n < GlobalLimit
              /\ s \in DOMAIN m /\ m[s].n >= PerSourceLimit
              /\ sources' = [m EXCEPT ![s].seen = lnow]
        /\ UNCHANGED <<lnow, checking, log>>

Allowed(s) ==
    LET g == CurrentGlobal
        m == CurrentSources
    IN  /\ Len(log) < MaxAttempts
        /\ g.n < GlobalLimit
        /\ global' = [g EXCEPT !.n = @ + 1]
        /\ \/ /\ s \in DOMAIN m /\ m[s].n < PerSourceLimit
              /\ sources' = [m EXCEPT ![s].n = @ + 1, ![s].seen = lnow]
              /\ log' = Append(log, [src |-> s, at |-> lnow, counted |-> TRUE])
           \/ /\ s \notin DOMAIN m
              /\ \E keep \in WithCapacity(m) :
                    /\ sources' = Set(m, keep, s, [started |-> lnow, seen |-> lnow, n |-> 1])
                    /\ log' = Append(Forget(DOMAIN m \ keep), [src |-> s, at |-> lnow, counted |-> TRUE])
        /\ checking' = checking \cup {s}
        /\ UNCHANGED lnow

\* Gives back what the source has used of the global limit, too.
LoginSucceedsForAll(s) ==
    /\ s \in checking
    /\ checking' = checking \ {s}
    /\ sources' = [x \in DOMAIN sources \ {s} |-> sources[x]]
    /\ global' = [global EXCEPT !.n = 0]
    /\ log' = Forget({s})
    /\ UNCHANGED lnow

\* Password accepted: Reset.
LoginSucceeds(s) ==
    /\ s \in checking
    /\ checking' = checking \ {s}
    /\ sources' = [x \in DOMAIN sources \ {s} |-> sources[x]]
    /\ log' = Forget({s})
    /\ UNCHANGED <<lnow, global>>

\* Bad body or wrong password
LoginFails(s) ==
    /\ s \in checking
    /\ checking' = checking \ {s}
    /\ UNCHANGED <<lnow, sources, global, log>>

ClockTicks ==
    /\ lnow < MaxLTime
    /\ lnow' = lnow + 1
    /\ UNCHANGED <<sources, global, checking, log>>

Init ==
    /\ lnow = 0
    /\ sources = <<>>
    /\ global = [started |-> -1, n |-> 0]
    /\ checking = {}
    /\ log = <<>>

Next ==
    \/ \E s \in Client : Refused(s) \/ Allowed(s) \/ LoginSucceeds(s) \/ LoginFails(s)
    \/ ClockTicks

Spec == Init /\ [][Next]_lvars

\* In any span of one window the limiter lets through at most two windows'
\* worth of attempts: of all clients, and of one client whose attempts were
\* neither reset by a login nor evicted from the full table; the table never
\* outgrows its limit.
AttemptsAreBounded ==
    /\ Cardinality(DOMAIN sources) <= MaxSources
    /\ \A t \in 0..lnow :
          LET span == {i \in DOMAIN log : log[i].at \in t..(t + Window - 1)}
          IN  /\ Cardinality(span) <= 2 * GlobalLimit
              /\ \A s \in Client :
                    Cardinality({i \in span : log[i].src = s /\ log[i].counted}) <= 2 * PerSourceLimit
=============================================================================
