------------------------------ MODULE Sessions ------------------------------
(***************************************************************************)
(* Login sessions (internal/auth/session.go) and the handlers that use     *)
(* them (internal/api/auth.go, auth_sessions.go).                          *)
(*                                                                         *)
(* A session lives in a cache and in the table auth_sessions.  Requests    *)
(* read the cache without holding the lock across their steps; one         *)
(* background writer carries activity to the table, and writes outside     *)
(* the lock.  A failing database call panics, which ends the request only. *)
(*                                                                         *)
(* A session record keeps its role, alias, last activity and expiry.  The  *)
(* clock counts in units of sessionActivityWriteInterval.  Rows of the     *)
(* role "viewer" are left by earlier versions.                             *)
(***************************************************************************)
EXTENDS Naturals, Sequences, FiniteSets

CONSTANTS Token,      \* tokens that generateToken may return
          Legacy,     \* tokens of viewer sessions found in the table
          Req,        \* requests that may overlap
          Ip,         \* client addresses
          TTL,        \* SessionTTL
          MaxClock,   \* bound on the clock
          MaxRequests,\* bound on requests
          MaxSFaults  \* bound on database failures and crashes

VARIABLES snow,       \* the clock
          mem,        \* SessionManager.sessions
          rows,       \* auth_sessions
          pendAct,    \* pendingActivity
          awriter,    \* the activity writer: <<"idle">>, <<"looping">> or <<"writing", token, ip, time>>
          req,        \* requests in their handler
          issued,     \* tokens given out so far (history)
          requests, sfaults

svars == <<snow, mem, rows, pendAct, awriter, req, issued, requests, sfaults>>

NoSession == [role |-> "none"]
NoActivity == [ip |-> "none"]
NoReq == [pc |-> "idle"]

Live(s) == s # NoSession /\ s.exp > snow
Cleaned(m) == [t \in Token |-> IF Live(m[t]) THEN m[t] ELSE NoSession]
Saved(m, t, s) == [m EXCEPT ![t] = s]
Without(m, t) == [m EXCEPT ![t] = NoSession]

Fault == sfaults < MaxSFaults /\ sfaults' = sfaults + 1
Ok == UNCHANGED sfaults

-----------------------------------------------------------------------------
(* Operations that hold the lock from their cleanup to their end.          *)

\* login, after its password was accepted
Create(t, ip) ==
    /\ t \notin issued
    /\ \E s \in {[role |-> "admin", alias |-> "", ip |-> ip, seen |-> snow, exp |-> snow + TTL]} :
          /\ mem' = Saved(Cleaned(mem), t, s)
          /\ rows' = Saved(Cleaned(rows), t, s)
    /\ issued' = issued \cup {t}
    /\ Ok
    /\ UNCHANGED <<snow, pendAct, awriter, req, requests>>

\* List, and any operation whose own database call fails or finds no row
CleanupExpired ==
    /\ mem' = Cleaned(mem)
    /\ rows' = Cleaned(rows)
    /\ Ok
    /\ UNCHANGED <<snow, pendAct, awriter, req, issued, requests>>

\* The cleanup of the table fails after that of the cache.
CleanupFails ==
    /\ Fault
    /\ mem' = Cleaned(mem)
    /\ UNCHANGED <<snow, rows, pendAct, awriter, req, issued, requests>>

UpdateAdminAlias(t, alias) ==
    LET m == Cleaned(mem)
        r == Cleaned(rows)
    IN  /\ r[t] # NoSession /\ r[t].role = "admin"
        /\ rows' = [r EXCEPT ![t].alias = alias]
        /\ mem' = IF m[t] # NoSession THEN [m EXCEPT ![t].alias = alias] ELSE m
        /\ Ok
        /\ UNCHANGED <<snow, pendAct, awriter, req, issued, requests>>

\* revokeManagedSession: the cache first, then the table
DeleteByTokenHash(t) ==
    /\ mem' = Without(Cleaned(mem), t)
    /\ \/ rows' = Without(Cleaned(rows), t) /\ Ok
       \/ rows' = Cleaned(rows) /\ Fault
    /\ UNCHANGED <<snow, pendAct, awriter, req, issued, requests>>

-----------------------------------------------------------------------------
(* A request resolves its session (Get, then the checks of                 *)
(* resolveValidSession).  The middleware then calls Touch, which is        *)
(* another Get and the update under the lock; logout deletes the session.  *)

Begin(q, t, kind, match) ==
    /\ req[q] = NoReq
    /\ requests < MaxRequests
    /\ requests' = requests + 1
    /\ req' = [req EXCEPT ![q] = [pc |-> "read", stage |-> "resolve", t |-> t, kind |-> kind, match |-> match]]
    /\ Ok
    /\ UNCHANGED <<snow, mem, rows, pendAct, awriter, issued>>

\* What follows a Get that found session s.  Logout deletes the token also
\* where the session was made for another source.
Found(r, s) ==
    IF r.stage = "touch" THEN [r EXCEPT !.pc = "touch"]
    ELSE IF r.kind = "logout" \/ s.role # "admin" THEN [r EXCEPT !.pc = "delete"]
    ELSE IF r.match /\ r.kind = "use" THEN [r EXCEPT !.pc = "read", !.stage = "touch"]
    ELSE NoReq

\* What follows a Get that found none: the caller deletes the token once more.
NotFound(r) == IF r.stage = "touch" THEN NoReq ELSE [r EXCEPT !.pc = "delete"]

\* Get: the cache is read under the read lock only.
ReadCache(q) ==
    LET r == req[q]
        s == mem[r.t]
    IN  /\ r.pc = "read"
        /\ req' = [req EXCEPT ![q] = IF s = NoSession THEN [r EXCEPT !.pc = "load"]
                                      ELSE IF Live(s) THEN Found(r, s) ELSE [r EXCEPT !.pc = "expire"]]
        /\ Ok
        /\ UNCHANGED <<snow, mem, rows, pendAct, awriter, issued, requests>>

\* getPersisted: cache and table are read again under the lock.
GetPersisted(q) ==
    LET r == req[q]
        t == r.t
        s == IF mem[t] # NoSession THEN mem[t] ELSE rows[t]
    IN  /\ r.pc = "load"
        /\ \/ /\ Live(s)
              /\ mem' = [mem EXCEPT ![t] = s]
              /\ req' = [req EXCEPT ![q] = Found(r, s)]
              /\ Ok
              /\ UNCHANGED rows
           \/ /\ ~Live(s)
              /\ mem' = Without(mem, t)
              /\ rows' = Without(rows, t)
              /\ req' = [req EXCEPT ![q] = NotFound(r)]
              /\ Ok
           \/ /\ Fault                       \* load or delete fails: the request ends
              /\ mem' = IF mem[t] = NoSession \/ Live(s) THEN mem ELSE Without(mem, t)
              /\ req' = [req EXCEPT ![q] = NoReq]
              /\ UNCHANGED rows
        /\ UNCHANGED <<snow, pendAct, awriter, issued, requests>>

\* Delete, for a session that Get saw expired, that is no admin's, or at logout.
Delete(q) ==
    LET r == req[q]
    IN  /\ r.pc \in {"expire", "delete"}
        /\ mem' = Without(mem, r.t)
        /\ \/ /\ rows' = Without(rows, r.t)
              /\ req' = [req EXCEPT ![q] = IF r.pc = "expire" THEN NotFound(r) ELSE NoReq]
              /\ Ok
           \/ /\ Fault
              /\ req' = [req EXCEPT ![q] = NoReq]
              /\ UNCHANGED rows
        /\ UNCHANGED <<snow, pendAct, awriter, issued, requests>>

\* Touch: the session is looked up again; nothing is written when neither the
\* address changed nor the interval passed.
Touch(q, ip) ==
    LET t == req[q].t
        s == mem[t]
    IN  /\ req[q].pc = "touch"
        /\ req' = [req EXCEPT ![q] = NoReq]
        /\ IF Live(s) /\ (ip # s.ip \/ s.seen < snow)
           THEN /\ mem' = [mem EXCEPT ![t].ip = ip, ![t].seen = snow]
                /\ pendAct' = [pendAct EXCEPT ![t] = [ip |-> ip, seen |-> snow]]
                /\ awriter' = IF awriter = <<"idle">> THEN <<"looping">> ELSE awriter
           ELSE UNCHANGED <<mem, pendAct, awriter>>
        /\ Ok
        /\ UNCHANGED <<snow, rows, issued, requests>>

-----------------------------------------------------------------------------
(* writePendingActivity.                                                *)

Writing == Len(awriter) = 4

WriterTakes ==
    /\ awriter = <<"looping">>
    /\ \E t \in {x \in Token : pendAct[x] # NoActivity} :
          /\ awriter' = <<"writing", t, pendAct[t].ip, pendAct[t].seen>>
          /\ pendAct' = [pendAct EXCEPT ![t] = NoActivity]
    /\ Ok
    /\ UNCHANGED <<snow, mem, rows, req, issued, requests>>

\* Leaves without having looked at the map under the lock.
WriterStopsAnyway ==
    /\ awriter = <<"looping">>
    /\ awriter' = <<"idle">>
    /\ Ok
    /\ UNCHANGED <<snow, mem, rows, pendAct, req, issued, requests>>

WriterStops ==
    /\ awriter = <<"looping">>
    /\ \A t \in Token : pendAct[t] = NoActivity
    /\ awriter' = <<"idle">>
    /\ Ok
    /\ UNCHANGED <<snow, mem, rows, pendAct, req, issued, requests>>

\* Written as Save is: an upsert.
Upserted(row, u) == [role |-> "admin", alias |-> "", ip |-> u[3], seen |-> u[4], exp |-> u[4] + TTL]

\* UpdateActivity: an UPDATE, which touches no row that is gone.
Updated(row, u) == IF row = NoSession THEN row ELSE [row EXCEPT !.ip = u[3], !.seen = u[4]]

WriterWrites ==
    /\ Writing
    /\ \/ rows' = [rows EXCEPT ![awriter[2]] = Updated(@, awriter)] /\ Ok
       \/ Fault /\ UNCHANGED rows           \* logged; the update is dropped
    /\ awriter' = <<"looping">>
    /\ UNCHANGED <<snow, mem, pendAct, req, issued, requests>>

WriterStep == WriterTakes \/ WriterStops \/ WriterWrites

-----------------------------------------------------------------------------
ClockTicks ==
    /\ snow < MaxClock
    /\ snow' = snow + 1
    /\ Ok
    /\ UNCHANGED <<mem, rows, pendAct, awriter, req, issued, requests>>

Crash ==
    /\ Fault
    /\ mem' = [t \in Token |-> NoSession]
    /\ pendAct' = [t \in Token |-> NoActivity]
    /\ awriter' = <<"idle">>
    /\ req' = [q \in Req |-> NoReq]
    /\ UNCHANGED <<snow, rows, issued, requests>>

Init ==
    /\ snow = 0
    /\ mem = [t \in Token |-> NoSession]
    /\ rows = [t \in Token |-> IF t \in Legacy
                 THEN [role |-> "viewer", alias |-> "", ip |-> "none", seen |-> 0, exp |-> 1] ELSE NoSession]
    /\ pendAct = [t \in Token |-> NoActivity]
    /\ awriter = <<"idle">>
    /\ req = [q \in Req |-> NoReq]
    /\ issued = Legacy
    /\ requests = 0
    /\ sfaults = 0

Next ==
    \/ \E t \in Token, ip \in Ip : Create(t, ip)
    \/ CleanupExpired
    \/ CleanupFails
    \/ \E t \in Token, alias \in {"", "named"} : UpdateAdminAlias(t, alias)
    \/ \E t \in Token : DeleteByTokenHash(t)
    \/ \E q \in Req, t \in issued, kind \in {"use", "view", "logout"}, match \in BOOLEAN :
          Begin(q, t, kind, match)
    \/ \E q \in Req : ReadCache(q) \/ GetPersisted(q) \/ Delete(q)
    \/ \E q \in Req, ip \in Ip : Touch(q, ip)
    \/ WriterStep
    \/ ClockTicks
    \/ Crash

Spec == Init /\ [][Next]_svars

-----------------------------------------------------------------------------
(* Properties.                                                             *)

\* A token whose row was deleted (logout, revocation, expiry) is dead for
\* good: neither a late activity write, nor a Touch or a getPersisted that
\* overlaps the deletion, nor a restart brings the session back.
RevokedStaysRevoked ==
    [][\A t \in issued : rows[t] = NoSession => rows'[t] = NoSession /\ mem'[t] = NoSession]_svars

\* Activity that a request has noted has a writer: the single goroutine runs
\* as long as an update is queued, also when one is queued while the writer
\* is about to stop or writes another, or the session is revoked.
ActivityHasAWriter == (\E t \in Token : pendAct[t] # NoActivity) => awriter # <<"idle">>
=============================================================================
