--------------------------- MODULE ServicesProofs ---------------------------
(***************************************************************************)
(* Proofs about the services around the usage pipeline that serve the      *)
(* users: sessions, the login limiter, the subscription to CPA's errors,   *)
(* the prices, the backup schedule, the queries of the dashboard with the  *)
(* cache they read, and the migrations.  Each is proved about on its own   *)
(* first; the theorems at the end are about KeeperServices, whose steps    *)
(* are steps of the parts.                                                 *)
(***************************************************************************)
EXTENDS KeeperServices, OrdersProofs

-----------------------------------------------------------------------------
(***************************************************************************)
(* Sessions.  A cached session is a stored one with the same expiry        *)
(* (CacheInTable), so whatever removes a row, and whatever reads the cache *)
(* in between, leaves nothing in the cache that the table does not have.   *)
(***************************************************************************)

Session == [role : {"admin", "viewer"}, alias : {"", "named"}, ip : Ip \cup {"none"},
            seen : Nat, exp : Nat]
SessionMap == [Token -> Session \cup {Auth!NoSession}]
Request == [pc : {"read", "load", "expire", "delete", "touch"}, stage : {"resolve", "touch"},
            t : Token, kind : {"use", "view", "logout"}, match : BOOLEAN]

SessionTypes ==
    /\ snow \in Nat
    /\ mem \in SessionMap /\ rows \in SessionMap
    /\ pendAct \in [Token -> [ip : Ip, seen : Nat] \cup {Auth!NoActivity}]
    /\ \/ awriter = <<"idle">> \/ awriter = <<"looping">>
       \/ \E t \in Token, ip \in Ip, n \in Nat : awriter = <<"writing", t, ip, n>>
    /\ req \in [Req -> Request \cup {Auth!NoReq}]
    /\ issued \subseteq Token

CacheInTable ==
    \A t \in Token : mem[t] # Auth!NoSession =>
        rows[t] # Auth!NoSession /\ rows[t].exp = mem[t].exp

SessionInv == SessionTypes /\ CacheInTable

\* What a step may do to one token.
TokenStep(t) ==
    \/ mem'[t] = Auth!NoSession /\ (rows'[t] = Auth!NoSession \/ rows[t] # Auth!NoSession)
    \/ /\ rows'[t] # Auth!NoSession /\ rows'[t].exp = mem'[t].exp
       /\ rows[t] # Auth!NoSession \/ t \notin issued
    \/ mem'[t] = Auth!NoSession /\ t \notin issued

TableStep == mem' \in SessionMap /\ rows' \in SessionMap /\ \A t \in Token : TokenStep(t)

LEMMA NotASession == Auth!NoSession \notin Session
BY DEF Auth!NoSession, Session

\* Removing what has expired removes it from the cache and the table alike.
LEMMA CleanedMaps ==
    ASSUME SessionInv
    PROVE  /\ Auth!Cleaned(mem) \in SessionMap /\ Auth!Cleaned(rows) \in SessionMap
           /\ \A t \in Token :
                /\ Auth!Cleaned(mem)[t] = mem[t] \/ Auth!Cleaned(mem)[t] = Auth!NoSession
                /\ Auth!Cleaned(rows)[t] = rows[t] \/ Auth!Cleaned(rows)[t] = Auth!NoSession
                /\ Auth!Cleaned(mem)[t] # Auth!NoSession =>
                      Auth!Cleaned(rows)[t] = rows[t] /\ Auth!Cleaned(mem)[t] = mem[t]
<1>1. Auth!Cleaned(mem) \in SessionMap /\ Auth!Cleaned(rows) \in SessionMap
  BY DEF Auth!Cleaned, SessionInv, SessionTypes, SessionMap
<1>2. \A t \in Token :
                /\ Auth!Cleaned(mem)[t] = mem[t] \/ Auth!Cleaned(mem)[t] = Auth!NoSession
                /\ Auth!Cleaned(rows)[t] = rows[t] \/ Auth!Cleaned(rows)[t] = Auth!NoSession
  BY DEF Auth!Cleaned
<1>3. \A t \in Token : Auth!Cleaned(mem)[t] # Auth!NoSession =>
                      Auth!Cleaned(rows)[t] = rows[t] /\ Auth!Cleaned(mem)[t] = mem[t]
  BY DEF Auth!Cleaned, Auth!Live, SessionInv, CacheInTable
<1> QED BY <1>1, <1>2, <1>3

LEMMA CreateStep == \A t \in Token, ip \in Ip : SessionConstants /\ SessionInv /\ Auth!Create(t, ip) => TableStep
<1> SUFFICES ASSUME NEW t \in Token, NEW ip \in Ip, SessionConstants, SessionInv, Auth!Create(t, ip)
             PROVE  TableStep
  OBVIOUS
<1> DEFINE s == [role |-> "admin", alias |-> "", ip |-> ip, seen |-> snow, exp |-> snow + TTL]
<1>1. s \in Session
  BY DEF Session, SessionConstants, SessionInv, SessionTypes
<1>2. /\ mem' = [Auth!Cleaned(mem) EXCEPT ![t] = s] /\ rows' = [Auth!Cleaned(rows) EXCEPT ![t] = s]
      /\ t \notin issued
  BY DEF Auth!Create, Auth!Saved
<1> HIDE DEF s
<1>3. mem' \in SessionMap /\ rows' \in SessionMap
  BY <1>1, <1>2, CleanedMaps DEF SessionMap
<1>4. \A u \in Token : u # t => mem'[u] = Auth!Cleaned(mem)[u] /\ rows'[u] = Auth!Cleaned(rows)[u]
  BY <1>2, CleanedMaps DEF SessionMap
<1>5. mem'[t] = s /\ rows'[t] = s
  BY <1>2, CleanedMaps DEF SessionMap
<1>6. TokenStep(t)
  BY <1>1, <1>2, <1>5, NotASession DEF TokenStep
<1>7. \A u \in Token : u # t => TokenStep(u)
  BY <1>4, CleanedMaps DEF TokenStep, SessionInv, CacheInTable
<1> QED BY <1>3, <1>6, <1>7 DEF TableStep

LEMMA CleaningStep ==
    ASSUME SessionInv, mem' = Auth!Cleaned(mem), rows' = Auth!Cleaned(rows) \/ rows' = rows
    PROVE  TableStep
<1>1. mem' \in SessionMap /\ rows' \in SessionMap
  BY CleanedMaps DEF SessionInv, SessionTypes
<1>2. \A u \in Token : TokenStep(u)
  BY CleanedMaps DEF TokenStep, SessionInv, CacheInTable
<1> QED BY <1>1, <1>2 DEF TableStep

LEMMA SameTables ==
    ASSUME SessionInv, UNCHANGED <<mem, rows>>
    PROVE  TableStep
BY DEF TableStep, TokenStep, SessionInv, SessionTypes, CacheInTable

\* Removing one token, from the cache and perhaps from the table.
LEMMA RemovingStep ==
    ASSUME SessionInv, NEW t \in Token, NEW m \in SessionMap, NEW r \in SessionMap,
           mem' = [m EXCEPT ![t] = Auth!NoSession], rows' = [r EXCEPT ![t] = Auth!NoSession] \/ rows' = r,
           \A u \in Token :
                             /\ m[u] = mem[u] \/ m[u] = Auth!NoSession
                             /\ r[u] = rows[u] \/ r[u] = Auth!NoSession
                             /\ m[u] # Auth!NoSession => r[u] = rows[u]
    PROVE  TableStep
<1>1. mem' \in SessionMap /\ rows' \in SessionMap
  BY DEF SessionMap
<1>2. mem'[t] = Auth!NoSession /\ \A u \in Token : u # t => mem'[u] = m[u]
  BY DEF SessionMap
<1>3. (rows'[t] = r[t] \/ rows'[t] = Auth!NoSession) /\ \A u \in Token : u # t => rows'[u] = r[u]
  BY DEF SessionMap
<1>4. ASSUME NEW u \in Token PROVE TokenStep(u)
  <2>1. /\ m[u] = mem[u] \/ m[u] = Auth!NoSession
        /\ r[u] = rows[u] \/ r[u] = Auth!NoSession
        /\ m[u] # Auth!NoSession => r[u] = rows[u]
        /\ mem[u] # Auth!NoSession => rows[u] # Auth!NoSession /\ rows[u].exp = mem[u].exp
    BY DEF SessionInv, CacheInTable
  <2>2. CASE u = t
    <3>1. mem'[u] = Auth!NoSession /\ (rows'[u] = r[u] \/ rows'[u] = Auth!NoSession)
      BY <1>2, <1>3, <2>2
    <3> QED BY <2>1, <3>1 DEF TokenStep
  <2>3. CASE u # t
    <3>1. mem'[u] = m[u] /\ rows'[u] = r[u]
      BY <1>2, <1>3, <2>3
    <3> QED BY <2>1, <3>1 DEF TokenStep
  <2> QED BY <2>2, <2>3
<1> QED BY <1>1, <1>4 DEF TableStep

LEMMA DeleteTokenStep == \A t \in Token : SessionInv /\ Auth!DeleteByTokenHash(t) => TableStep
<1> SUFFICES ASSUME NEW t \in Token, SessionInv, Auth!DeleteByTokenHash(t) PROVE TableStep
  OBVIOUS
<1> DEFINE m == Auth!Cleaned(mem)
           r == Auth!Cleaned(rows)
<1>1. /\ mem' = [m EXCEPT ![t] = Auth!NoSession]
      /\ rows' = [r EXCEPT ![t] = Auth!NoSession] \/ rows' = r
  BY DEF Auth!DeleteByTokenHash, Auth!Without
<1>2. /\ m \in SessionMap /\ r \in SessionMap
      /\ \A u \in Token :
                             /\ m[u] = mem[u] \/ m[u] = Auth!NoSession
                             /\ r[u] = rows[u] \/ r[u] = Auth!NoSession
                             /\ m[u] # Auth!NoSession => r[u] = rows[u]
  BY CleanedMaps
<1> HIDE DEF m, r
<1> QED BY <1>1, <1>2, RemovingStep

\* Removing one token without a cleanup.
LEMMA WithoutStep ==
    ASSUME SessionInv, NEW t \in Token, mem' = Auth!Without(mem, t),
           rows' = Auth!Without(rows, t) \/ rows' = rows
    PROVE  TableStep
<1>1. mem \in SessionMap /\ rows \in SessionMap
  BY DEF SessionInv, SessionTypes
<1> QED BY <1>1, RemovingStep DEF Auth!Without

LEMMA AliasStep ==
    \A t \in Token, alias \in {"", "named"} : SessionInv /\ Auth!UpdateAdminAlias(t, alias) => TableStep
<1> SUFFICES ASSUME NEW t \in Token, NEW alias \in {"", "named"}, SessionInv, Auth!UpdateAdminAlias(t, alias)
             PROVE  TableStep
  OBVIOUS
<1> DEFINE m == Auth!Cleaned(mem)
           r == Auth!Cleaned(rows)
<1>1. /\ r[t] # Auth!NoSession /\ rows' = [r EXCEPT ![t].alias = alias]
      /\ mem' = IF m[t] # Auth!NoSession THEN [m EXCEPT ![t].alias = alias] ELSE m
  BY DEF Auth!UpdateAdminAlias
<1>2. /\ m \in SessionMap /\ r \in SessionMap
      /\ \A u \in Token :
                             /\ m[u] = mem[u] \/ m[u] = Auth!NoSession
                             /\ r[u] = rows[u] \/ r[u] = Auth!NoSession
                             /\ m[u] # Auth!NoSession => r[u] = rows[u] /\ m[u] = mem[u]
  BY CleanedMaps
<1> HIDE DEF m, r
<1> DEFINE x == [r[t] EXCEPT !.alias = alias]
           y == [m[t] EXCEPT !.alias = alias]
<1>3. r[t] \in Session /\ (m[t] # Auth!NoSession => m[t] \in Session)
  BY <1>1, <1>2 DEF SessionMap
<1>4. /\ x \in Session /\ x.exp = r[t].exp
      /\ m[t] # Auth!NoSession => y \in Session /\ y.exp = m[t].exp
  BY <1>3 DEF Session
<1>5. rows' = [r EXCEPT ![t] = x] /\ mem' = IF m[t] # Auth!NoSession THEN [m EXCEPT ![t] = y] ELSE m
  BY <1>1
<1> HIDE DEF x, y
<1>6. rows' \in SessionMap /\ rows'[t] = x /\ \A u \in Token : u # t => rows'[u] = r[u]
  BY <1>2, <1>4, <1>5 DEF SessionMap
<1>7. /\ mem' \in SessionMap /\ \A u \in Token : u # t => mem'[u] = m[u]
      /\ m[t] # Auth!NoSession => mem'[t] = y
      /\ m[t] = Auth!NoSession => mem'[t] = Auth!NoSession
  <2>1. CASE m[t] # Auth!NoSession
    <3>1. mem' = [m EXCEPT ![t] = y] /\ y \in Session
      BY <1>4, <1>5, <2>1
    <3> QED BY <1>2, <2>1, <3>1 DEF SessionMap
  <2>2. CASE m[t] = Auth!NoSession
    BY <1>2, <1>5, <2>2
  <2> QED BY <2>1, <2>2
<1>8. rows[t] # Auth!NoSession /\ r[t] = rows[t] /\ x # Auth!NoSession
  BY <1>1, <1>2, <1>4, NotASession
<1>9. ASSUME NEW u \in Token PROVE TokenStep(u)
  <2>1. /\ m[u] = mem[u] \/ m[u] = Auth!NoSession
        /\ r[u] = rows[u] \/ r[u] = Auth!NoSession
        /\ m[u] # Auth!NoSession => r[u] = rows[u] /\ m[u] = mem[u]
        /\ mem[u] # Auth!NoSession => rows[u] # Auth!NoSession /\ rows[u].exp = mem[u].exp
    BY <1>2 DEF SessionInv, CacheInTable
  <2>2. CASE u # t
    <3>1. mem'[u] = m[u] /\ rows'[u] = r[u]
      BY <1>6, <1>7, <2>2
    <3> QED BY <2>1, <3>1 DEF TokenStep
  <2>3. CASE u = t /\ m[t] = Auth!NoSession
    BY <1>7, <1>8, <2>3 DEF TokenStep
  <2>4. CASE u = t /\ m[t] # Auth!NoSession
    <3>1. rows'[u] = x /\ mem'[u] = y /\ x # Auth!NoSession /\ x.exp = y.exp /\ rows[u] # Auth!NoSession
      BY <1>4, <1>6, <1>7, <1>8, <2>1, <2>4
    <3> QED BY <3>1 DEF TokenStep
  <2> QED BY <2>2, <2>3, <2>4
<1> QED BY <1>6, <1>7, <1>9 DEF TableStep

LEMMA LoadStep == \A q \in Req : SessionInv /\ Auth!GetPersisted(q) => TableStep
<1> SUFFICES ASSUME NEW q \in Req, SessionInv, Auth!GetPersisted(q) PROVE TableStep
  OBVIOUS
<1> DEFINE t == req[q].t
           s == IF mem[t] # Auth!NoSession THEN mem[t] ELSE rows[t]
<1>1. t \in Token /\ mem \in SessionMap /\ rows \in SessionMap
  <2>1. req[q] # Auth!NoReq
    BY DEF Auth!GetPersisted, Auth!NoReq
  <2> QED BY <2>1 DEF SessionInv, SessionTypes, Request
<1>2. CASE Auth!Live(s) /\ mem' = [mem EXCEPT ![t] = s] /\ UNCHANGED rows
  <2>1. s # Auth!NoSession /\ rows[t] # Auth!NoSession /\ s.exp = rows[t].exp /\ s \in Session
    BY <1>1, <1>2 DEF Auth!Live, SessionInv, CacheInTable, SessionMap
  <2> HIDE DEF s
  <2>2. mem' \in SessionMap /\ mem'[t] = s /\ \A u \in Token : u # t => mem'[u] = mem[u]
    BY <1>1, <1>2, <2>1 DEF SessionMap
  <2>3. \A u \in Token : TokenStep(u)
    BY <1>2, <2>1, <2>2 DEF TokenStep, SessionInv, CacheInTable
  <2> QED BY <1>1, <1>2, <2>2, <2>3 DEF TableStep
<1>3. CASE mem' = Auth!Without(mem, t) /\ rows' = Auth!Without(rows, t)
  BY <1>1, <1>3, WithoutStep
<1>4. CASE mem' = mem /\ UNCHANGED rows
  BY <1>4, SameTables
<1>5. CASE mem' = Auth!Without(mem, t) /\ UNCHANGED rows
  BY <1>1, <1>5, WithoutStep
<1> QED BY <1>2, <1>3, <1>4, <1>5 DEF Auth!GetPersisted

LEMMA DeleteStep == \A q \in Req : SessionInv /\ Auth!Delete(q) => TableStep
<1> SUFFICES ASSUME NEW q \in Req, SessionInv, Auth!Delete(q) PROVE TableStep
  OBVIOUS
<1>1. req[q].t \in Token
  <2>1. req[q] # Auth!NoReq
    BY DEF Auth!Delete, Auth!NoReq
  <2> QED BY <2>1 DEF SessionInv, SessionTypes, Request
<1>2. mem' = Auth!Without(mem, req[q].t) /\ (rows' = Auth!Without(rows, req[q].t) \/ rows' = rows)
  BY DEF Auth!Delete
<1> QED BY <1>1, <1>2, WithoutStep

LEMMA TouchStep == \A q \in Req, ip \in Ip : SessionInv /\ Auth!Touch(q, ip) => TableStep
<1> SUFFICES ASSUME NEW q \in Req, NEW ip \in Ip, SessionInv, Auth!Touch(q, ip) PROVE TableStep
  OBVIOUS
<1> DEFINE t == req[q].t
           x == [mem[t] EXCEPT !.ip = ip, !.seen = snow]
<1>1. t \in Token /\ mem \in SessionMap /\ rows \in SessionMap
  <2>1. req[q] # Auth!NoReq
    BY DEF Auth!Touch, Auth!NoReq
  <2> QED BY <2>1 DEF SessionInv, SessionTypes, Request
<1>2. CASE UNCHANGED <<mem, rows>>
  BY <1>2, SameTables
<1>3. CASE Auth!Live(mem[t]) /\ mem' = [mem EXCEPT ![t].ip = ip, ![t].seen = snow] /\ UNCHANGED rows
  <2>1. mem[t] # Auth!NoSession /\ mem[t] \in Session
    BY <1>1, <1>3 DEF Auth!Live, SessionMap
  <2>2. x \in Session /\ x.exp = mem[t].exp
    BY <2>1 DEF Session, SessionInv, SessionTypes
  <2>3. mem' = [mem EXCEPT ![t] = x]
    BY <1>1, <1>3 DEF SessionMap
  <2> HIDE DEF x
  <2>4. mem' \in SessionMap /\ mem'[t] = x /\ \A u \in Token : u # t => mem'[u] = mem[u]
    BY <1>1, <2>2, <2>3 DEF SessionMap
  <2>5. \A u \in Token : TokenStep(u)
    BY <1>3, <2>1, <2>2, <2>4 DEF TokenStep, SessionInv, CacheInTable
  <2> QED BY <1>1, <1>3, <2>4, <2>5 DEF TableStep
<1> QED BY <1>2, <1>3 DEF Auth!Touch

LEMMA WriteStep == SessionInv /\ Auth!WriterWrites => TableStep
<1> SUFFICES ASSUME SessionInv, Auth!WriterWrites PROVE TableStep
  OBVIOUS
<1>1. PICK t \in Token, ip \in Ip, n \in Nat : awriter = <<"writing", t, ip, n>>
  <2>1. Len(<<"idle">>) # 4 /\ Len(<<"looping">>) # 4
    OBVIOUS
  <2> QED BY <2>1 DEF SessionInv, SessionTypes, Auth!WriterWrites, Auth!Writing
<1>2. CASE UNCHANGED rows
  BY <1>2, SameTables DEF Auth!WriterWrites
<1>3. CASE rows' = [rows EXCEPT ![t] = Auth!Updated(@, awriter)]
  <2>1. rows \in SessionMap /\ mem \in SessionMap /\ mem' = mem
    BY DEF SessionInv, SessionTypes, Auth!WriterWrites
  <2>2. rows'[t] = Auth!Updated(rows[t], awriter) /\ \A u \in Token : u # t => rows'[u] = rows[u]
    BY <1>3, <2>1 DEF SessionMap
  <2>3. CASE rows[t] = Auth!NoSession
    <3>1. rows' = rows
      BY <1>3, <2>1, <2>2, <2>3 DEF Auth!Updated, SessionMap
    <3> QED BY <2>1, <3>1, SameTables
  <2>4. CASE rows[t] # Auth!NoSession
    <3>1. rows[t] \in Session /\ rows'[t] = [rows[t] EXCEPT !.ip = ip, !.seen = n]
      BY <1>1, <2>1, <2>2, <2>4 DEF Auth!Updated, SessionMap
    <3>2. rows'[t] \in Session /\ rows'[t].exp = rows[t].exp
      BY <3>1 DEF Session
    <3>3. rows' \in SessionMap
      BY <1>3, <2>1, <2>2, <3>2 DEF SessionMap
    <3>4. \A u \in Token : TokenStep(u)
      BY <2>1, <2>2, <2>4, <3>2, NotASession DEF TokenStep, SessionInv, CacheInTable
    <3> QED BY <2>1, <3>3, <3>4 DEF TableStep
  <2> QED BY <2>3, <2>4
<1> QED BY <1>1, <1>2, <1>3 DEF Auth!WriterWrites
-----------------------------------------------------------------------------
(* The other variables of a step of the sessions. *)

LEMMA AnswersAreRequests ==
    ASSUME NEW r \in Request, NEW s
    PROVE  /\ Auth!Found(r, s) \in Request \cup {Auth!NoReq}
           /\ Auth!NotFound(r) \in Request \cup {Auth!NoReq}
           /\ [r EXCEPT !.pc = "load"] \in Request /\ [r EXCEPT !.pc = "expire"] \in Request
<1>1. /\ [r EXCEPT !.pc = "load"] \in Request /\ [r EXCEPT !.pc = "expire"] \in Request
      /\ [r EXCEPT !.pc = "touch"] \in Request /\ [r EXCEPT !.pc = "delete"] \in Request
      /\ [r EXCEPT !.pc = "read", !.stage = "touch"] \in Request
  BY DEF Request
<1>2. r.kind = "logout" \/ r.kind = "view" \/ r.kind = "use"
  BY DEF Request
<1>3. Auth!Found(r, s) \in Request \cup {Auth!NoReq}
  BY <1>1, <1>2 DEF Auth!Found
<1>4. Auth!NotFound(r) \in Request \cup {Auth!NoReq}
  BY <1>1 DEF Auth!NotFound
<1> QED BY <1>1, <1>3, <1>4

LEMMA RequestOf ==
    ASSUME SessionTypes, NEW q \in Req, req[q].pc # "idle"
    PROVE  req[q] \in Request /\ req[q].t \in Token
<1>1. req[q] # Auth!NoReq
  BY DEF Auth!NoReq
<1> QED BY <1>1 DEF SessionTypes, Request

LEMMA RequestTypes ==
    ASSUME SessionTypes, NEW q \in Req, NEW x \in Request \cup {Auth!NoReq},
           req' = [req EXCEPT ![q] = x]
    PROVE  req' \in [Req -> Request \cup {Auth!NoReq}]
BY DEF SessionTypes

\* The steps that change neither the clock, the activity nor the tokens issued.
LEMMA OnlyRequests ==
    ASSUME SessionTypes, TableStep, UNCHANGED <<snow, pendAct, awriter, issued>>,
           req' \in [Req -> Request \cup {Auth!NoReq}]
    PROVE  SessionTypes'
BY DEF SessionTypes, TableStep, SessionMap

LEMMA SessionStep == SessionConstants /\ SessionInv /\ [Auth!Next]_(Auth!svars) => TableStep /\ SessionTypes'
<1> SUFFICES ASSUME SessionConstants, SessionInv, [Auth!Next]_(Auth!svars)
             PROVE  TableStep /\ SessionTypes'
  OBVIOUS
<1> USE DEF SessionInv
<1>0. req \in [Req -> Request \cup {Auth!NoReq}]
  BY DEF SessionTypes
<1>1. ASSUME NEW t \in Token, NEW ip \in Ip, Auth!Create(t, ip) PROVE TableStep /\ SessionTypes'
  <2>1. TableStep
    BY <1>1, CreateStep
  <2> QED BY <1>1, <2>1 DEF Auth!Create, SessionTypes, TableStep, SessionMap
<1>2. CASE Auth!CleanupExpired \/ Auth!CleanupFails
  <2>1. TableStep
    BY <1>2, CleaningStep DEF Auth!CleanupExpired, Auth!CleanupFails
  <2> QED BY <1>0, <1>2, <2>1, OnlyRequests DEF Auth!CleanupExpired, Auth!CleanupFails
<1>3. ASSUME NEW t \in Token, NEW alias \in {"", "named"}, Auth!UpdateAdminAlias(t, alias)
      PROVE  TableStep /\ SessionTypes'
  <2>1. TableStep
    BY <1>3, AliasStep
  <2> QED BY <1>0, <1>3, <2>1, OnlyRequests DEF Auth!UpdateAdminAlias
<1>4. ASSUME NEW t \in Token, Auth!DeleteByTokenHash(t) PROVE TableStep /\ SessionTypes'
  <2>1. TableStep
    BY <1>4, DeleteTokenStep
  <2> QED BY <1>0, <1>4, <2>1, OnlyRequests DEF Auth!DeleteByTokenHash
<1>5. ASSUME NEW q \in Req, NEW t \in issued, NEW kind \in {"use", "view", "logout"}, NEW match \in BOOLEAN,
             Auth!Begin(q, t, kind, match)
      PROVE  TableStep /\ SessionTypes'
  <2>1. TableStep
    BY <1>5, SameTables DEF Auth!Begin
  <2> DEFINE x == [pc |-> "read", stage |-> "resolve", t |-> t, kind |-> kind, match |-> match]
  <2>2. x \in Request
    BY DEF Request, SessionTypes
  <2>3. req' = [req EXCEPT ![q] = x]
    BY <1>5 DEF Auth!Begin
  <2> HIDE DEF x
  <2>4. req' \in [Req -> Request \cup {Auth!NoReq}]
    BY <2>2, <2>3, RequestTypes
  <2> QED BY <1>5, <2>1, <2>4, OnlyRequests DEF Auth!Begin
<1>6. ASSUME NEW q \in Req, Auth!ReadCache(q) PROVE TableStep /\ SessionTypes'
  <2>1. TableStep
    BY <1>6, SameTables DEF Auth!ReadCache
  <2>2. req[q] \in Request
    BY <1>6, RequestOf DEF Auth!ReadCache
  <2>3. PICK x \in Request \cup {Auth!NoReq} : req' = [req EXCEPT ![q] = x]
    BY <1>6, <2>2, AnswersAreRequests DEF Auth!ReadCache
  <2>4. req' \in [Req -> Request \cup {Auth!NoReq}]
    BY <2>3, RequestTypes
  <2> QED BY <1>6, <2>1, <2>4, OnlyRequests DEF Auth!ReadCache
<1>7. ASSUME NEW q \in Req, Auth!GetPersisted(q) PROVE TableStep /\ SessionTypes'
  <2>1. TableStep
    BY <1>7, LoadStep
  <2>2. req[q] \in Request
    BY <1>7, RequestOf DEF Auth!GetPersisted
  <2>3. PICK x \in Request \cup {Auth!NoReq} : req' = [req EXCEPT ![q] = x]
    BY <1>7, <2>2, AnswersAreRequests DEF Auth!GetPersisted
  <2>4. req' \in [Req -> Request \cup {Auth!NoReq}]
    BY <2>3, RequestTypes
  <2> QED BY <1>7, <2>1, <2>4, OnlyRequests DEF Auth!GetPersisted
<1>8. ASSUME NEW q \in Req, Auth!Delete(q) PROVE TableStep /\ SessionTypes'
  <2>1. TableStep
    BY <1>8, DeleteStep
  <2>2. req[q] \in Request
    BY <1>8, RequestOf DEF Auth!Delete
  <2>3. PICK x \in Request \cup {Auth!NoReq} : req' = [req EXCEPT ![q] = x]
    BY <1>8, <2>2, AnswersAreRequests DEF Auth!Delete
  <2>4. req' \in [Req -> Request \cup {Auth!NoReq}]
    BY <2>3, RequestTypes
  <2> QED BY <1>8, <2>1, <2>4, OnlyRequests DEF Auth!Delete
<1>9. ASSUME NEW q \in Req, NEW ip \in Ip, Auth!Touch(q, ip) PROVE TableStep /\ SessionTypes'
  <2>1. TableStep
    BY <1>9, TouchStep
  <2>2. req[q].t \in Token
    BY <1>9, RequestOf DEF Auth!Touch
  <2>3. req' \in [Req -> Request \cup {Auth!NoReq}]
    BY <1>0, <1>9, RequestTypes DEF Auth!Touch
  <2>4. pendAct' \in [Token -> [ip : Ip, seen : Nat] \cup {Auth!NoActivity}]
    BY <1>9, <2>2 DEF Auth!Touch, SessionTypes
  <2>5. awriter' = awriter \/ awriter' = <<"looping">>
    BY <1>9 DEF Auth!Touch
  <2>6. \/ awriter' = <<"idle">> \/ awriter' = <<"looping">>
        \/ \E t \in Token, i \in Ip, n \in Nat : awriter' = <<"writing", t, i, n>>
    BY <2>5 DEF SessionTypes
  <2>7. snow' \in Nat /\ issued' \subseteq Token /\ mem' \in SessionMap /\ rows' \in SessionMap
    BY <1>9, <2>1 DEF Auth!Touch, SessionTypes, TableStep
  <2> QED BY <2>1, <2>3, <2>4, <2>6, <2>7 DEF SessionTypes, SessionMap
<1>10. CASE Auth!WriterTakes
  <2>1. TableStep
    BY <1>10, SameTables DEF Auth!WriterTakes
  <2>2. PICK t \in Token : /\ pendAct[t] # Auth!NoActivity
                           /\ awriter' = <<"writing", t, pendAct[t].ip, pendAct[t].seen>>
                           /\ pendAct' = [pendAct EXCEPT ![t] = Auth!NoActivity]
    BY <1>10 DEF Auth!WriterTakes
  <2>3. pendAct[t].ip \in Ip /\ pendAct[t].seen \in Nat
    BY <2>2 DEF SessionTypes
  <2>4. pendAct' \in [Token -> [ip : Ip, seen : Nat] \cup {Auth!NoActivity}]
    BY <2>2 DEF SessionTypes
  <2>5. \E u \in Token, i \in Ip, n \in Nat : awriter' = <<"writing", u, i, n>>
    BY <2>2, <2>3
  <2>6. /\ snow' \in Nat /\ issued' \subseteq Token /\ mem' \in SessionMap /\ rows' \in SessionMap
        /\ req' \in [Req -> Request \cup {Auth!NoReq}]
    BY <1>0, <1>10, <2>1 DEF Auth!WriterTakes, SessionTypes, TableStep
  <2> QED BY <2>1, <2>4, <2>5, <2>6 DEF SessionTypes, SessionMap
<1>11. CASE Auth!WriterStops \/ Auth!WriterWrites
  <2>1. TableStep
    BY <1>11, SameTables, WriteStep DEF Auth!WriterStops
  <2> QED BY <1>11, <2>1 DEF Auth!WriterStops, Auth!WriterWrites, SessionTypes, TableStep, SessionMap
<1>12. CASE Auth!ClockTicks
  <2>1. TableStep
    BY <1>12, SameTables DEF Auth!ClockTicks
  <2> QED BY <1>12, <2>1 DEF Auth!ClockTicks, SessionTypes, TableStep, SessionMap
<1>13. CASE Auth!Crash
  <2>1. mem' = [t \in Token |-> Auth!NoSession] /\ rows' = rows
    BY <1>13 DEF Auth!Crash
  <2>2. TableStep
    BY <2>1 DEF TableStep, TokenStep, SessionTypes, SessionMap
  <2> QED BY <1>13, <2>2 DEF Auth!Crash, SessionTypes, TableStep, SessionMap
<1>14. CASE UNCHANGED Auth!svars
  <2>1. TableStep
    BY <1>14, SameTables DEF Auth!svars
  <2> QED BY <1>0, <1>14, <2>1, OnlyRequests DEF Auth!svars
<1> QED BY <1>1, <1>2, <1>3, <1>4, <1>5, <1>6, <1>7, <1>8, <1>9, <1>10, <1>11, <1>12, <1>13, <1>14
        DEF Auth!Next, Auth!WriterStep

\* A step leaves a cached session backed by the table, and brings no token
\* back that was issued and has no row.
LEMMA StepKeepsRevocations ==
    ASSUME TableStep
    PROVE  /\ CacheInTable'
           /\ \A t \in issued : t \in Token /\ rows[t] = Auth!NoSession /\ mem[t] = Auth!NoSession =>
                 rows'[t] = Auth!NoSession /\ mem'[t] = Auth!NoSession
BY DEF TableStep, TokenStep, CacheInTable

\* RevokedStaysRevoked: no late write of activity, no Touch and no lookup that
\* overlaps a logout, a revocation or an expiry, and no restart brings a
\* deleted session back, whatever the number of requests in flight
\* (internal/auth/session.go).
LEMMA SessionsRevoke ==
    ASSUME SessionConstants
    PROVE  Auth!Spec => Auth!RevokedStaysRevoked
<1>1. Auth!Init => SessionInv
  <2> SUFFICES ASSUME Auth!Init PROVE SessionInv
    OBVIOUS
  <2> DEFINE viewer == [role |-> "viewer", alias |-> "", ip |-> "none", seen |-> 0, exp |-> 1]
  <2>1. viewer \in Session
    BY DEF Session
  <2>2. rows = [t \in Token |-> IF t \in Legacy THEN viewer ELSE Auth!NoSession]
    BY DEF Auth!Init
  <2> HIDE DEF viewer
  <2>3. rows \in SessionMap /\ mem \in SessionMap
    BY <2>1, <2>2 DEF Auth!Init, SessionMap
  <2> QED BY <2>3 DEF Auth!Init, SessionInv, SessionTypes, CacheInTable, SessionConstants
<1>2. SessionInv /\ [Auth!Next]_(Auth!svars) => SessionInv'
  BY SessionStep, StepKeepsRevocations DEF SessionInv
<1>3. SessionInv /\ [Auth!Next]_(Auth!svars)
      => [\A t \in issued : rows[t] = Auth!NoSession => rows'[t] = Auth!NoSession /\ mem'[t] = Auth!NoSession]_(Auth!svars)
  <2> SUFFICES ASSUME SessionInv, [Auth!Next]_(Auth!svars), NEW t \in issued,
                      rows[t] = Auth!NoSession
               PROVE  rows'[t] = Auth!NoSession /\ mem'[t] = Auth!NoSession
    OBVIOUS
  <2>1. t \in Token /\ mem[t] = Auth!NoSession
    BY DEF SessionInv, SessionTypes, CacheInTable
  <2> QED BY <2>1, SessionStep, StepKeepsRevocations
<1> QED BY <1>1, <1>2, <1>3, PTL DEF Auth!Spec, Auth!RevokedStaysRevoked

\* ActivityHasAWriter: activity that was noted is never left without the
\* goroutine that writes it, whatever requests overlap its end
\* (Touch and writePendingActivity in internal/auth/session.go).
LEMMA SessionsWrite == Auth!Spec => []Auth!ActivityHasAWriter
<1>1. Auth!Init => Auth!ActivityHasAWriter
  BY DEF Auth!Init, Auth!ActivityHasAWriter
<1>2. Auth!ActivityHasAWriter /\ [Auth!Next]_(Auth!svars) => Auth!ActivityHasAWriter'
  <2> SUFFICES ASSUME Auth!ActivityHasAWriter, [Auth!Next]_(Auth!svars) PROVE Auth!ActivityHasAWriter'
    OBVIOUS
  <2>1. CASE UNCHANGED <<pendAct, awriter>>
    BY <2>1 DEF Auth!ActivityHasAWriter
  <2>2. CASE Auth!WriterStep
    BY <2>2 DEF Auth!ActivityHasAWriter, Auth!WriterStep, Auth!WriterTakes, Auth!WriterStops, Auth!WriterWrites
  <2>3. ASSUME NEW q \in Req, NEW ip \in Ip, Auth!Touch(q, ip) PROVE Auth!ActivityHasAWriter'
    BY <2>3 DEF Auth!ActivityHasAWriter, Auth!Touch
  <2>4. CASE Auth!Crash
    BY <2>4 DEF Auth!ActivityHasAWriter, Auth!Crash
  <2>5. \/ UNCHANGED <<pendAct, awriter>> \/ Auth!WriterStep \/ Auth!Crash
        \/ \E q \in Req, ip \in Ip : Auth!Touch(q, ip)
    BY DEF Auth!Next, Auth!svars, Auth!Create, Auth!CleanupExpired, Auth!CleanupFails, Auth!UpdateAdminAlias,
           Auth!DeleteByTokenHash, Auth!Begin, Auth!ReadCache, Auth!GetPersisted, Auth!Delete, Auth!ClockTicks
  <2> QED BY <2>1, <2>2, <2>3, <2>4, <2>5
<1> QED BY <1>1, <1>2, PTL DEF Auth!Spec

-----------------------------------------------------------------------------
(***************************************************************************)
(* The subscription to CPA's errors.  While it has not stopped, the index  *)
(* into the retry delays is the number of failures since the last success. *)
(***************************************************************************)

RetriesCounted ==
    /\ retryIndex \in 0..RetryLimit
    /\ failures \in Nat
    /\ cancelled \in BOOLEAN /\ refusal \in BOOLEAN
    /\ runner_e # "stopped" => failures = retryIndex

\* ErrorIngestEndsForAReason: failures before the last subscription that
\* worked never count against a later outage, whatever the number of retries
\* (Run in internal/poller/redis_error_ingest_runner.go).
LEMMA ErrorsEnd ==
    ASSUME ErrorConstants
    PROVE  Errors!Spec => []Errors!ErrorIngestEndsForAReason
<1> DEFINE Inv == RetriesCounted /\ Errors!ErrorIngestEndsForAReason
<1>1. Errors!Init => Inv
  <2> SUFFICES ASSUME Errors!Init PROVE Inv
    OBVIOUS
  <2>1. retryIndex = 0 /\ failures = 0 /\ runner_e = "subscribe"
    BY DEF Errors!Init
  <2>2. cancelled \in BOOLEAN /\ refusal \in BOOLEAN
    BY DEF Errors!Init
  <2> QED BY <2>1, <2>2 DEF RetriesCounted, Errors!ErrorIngestEndsForAReason, ErrorConstants
<1>2. Inv /\ [Errors!Next]_(Errors!ervars) => Inv'
  <2> SUFFICES ASSUME Inv, [Errors!Next]_(Errors!ervars) PROVE Inv'
    OBVIOUS
  <2> USE DEF RetriesCounted, Errors!ErrorIngestEndsForAReason
  <2>1. CASE \E f \in Errors!Frame : Errors!Publish(f)
    BY <2>1 DEF Errors!Publish
  <2>2. CASE Errors!Cancel
    BY <2>2 DEF Errors!Cancel
  <2>3. CASE Errors!SubscribeSucceeds
    BY <2>3 DEF Errors!SubscribeSucceeds, Errors!Subscribed, ErrorConstants
  <2>4. CASE Errors!SubscribeFails \/ Errors!ReceiveFails
    BY <2>4 DEF Errors!SubscribeFails, Errors!ReceiveFails, Errors!Retry, ErrorConstants
  <2>5. CASE Errors!SubscribeRefused
    BY <2>5 DEF Errors!SubscribeRefused
  <2>6. CASE Errors!ReceiveEvent
    BY <2>6 DEF Errors!ReceiveEvent
  <2>7. CASE Errors!SleepEnds
    BY <2>7 DEF Errors!SleepEnds
  <2>8. CASE Errors!StopsOnCancel
    BY <2>8 DEF Errors!StopsOnCancel
  <2>9. CASE UNCHANGED Errors!ervars
    BY <2>9 DEF Errors!ervars
  <2> QED BY <2>1, <2>2, <2>3, <2>4, <2>5, <2>6, <2>7, <2>8, <2>9 DEF Errors!Next
<1> QED BY <1>1, <1>2, PTL DEF Errors!Spec

-----------------------------------------------------------------------------
(***************************************************************************)
(* Prices.  The mutex is held exactly by the request that has committed    *)
(* and not yet published, and what it will publish is what the tables say. *)
(***************************************************************************)

Submitted == PriceInput \cup RuleInput \cup {Prices!NoPrice}
               \cup {[price |-> x, mult |-> 1] : x \in ListPrice}
Change == [pc : {"preview", "update", "delete", "rules"}, models : SUBSET Model, input : Submitted]
Candidate == Prices!Snapshot(commits, prices, rules)
Committed == [pc |-> "publish", candidate |-> Candidate]

MutexIsHeld ==
    /\ pwriter = [w \in PWriter |-> pwriter[w]]
    /\ \A w \in PWriter : \/ pwriter[w] = Prices!Idle /\ pmutex # w
                          \/ pwriter[w] \in Change /\ pmutex # w
                          \/ pwriter[w] = Committed /\ pmutex = w
    /\ pmutex = Prices!Free \/ pmutex \in PWriter

VersionsGrow ==
    /\ commits \in Nat /\ answered \in Nat /\ catalog.version \in Nat
    /\ answered <= catalog.version /\ catalog.version <= commits
    /\ pmutex = Prices!Free => catalog = Candidate

PricesInv == MutexIsHeld /\ VersionsGrow

LEMMA CandidateVersion == Candidate.version = commits
BY DEF Candidate, Prices!Snapshot

\* One request changes, nothing else that the mutex guards.
LEMMA OneWriterMoves ==
    ASSUME PricesInv, NEW w \in PWriter, NEW o \in Change \cup {Prices!Idle}, pmutex # w,
           pwriter' = [pwriter EXCEPT ![w] = o],
           UNCHANGED <<prices, rules, catalog, pmutex, commits, answered>>
    PROVE  PricesInv'
<1>1. pwriter' = [u \in PWriter |-> pwriter'[u]] /\ pwriter'[w] = o /\ \A u \in PWriter : u # w => pwriter'[u] = pwriter[u]
  BY DEF PricesInv, MutexIsHeld
<1>2. Committed' = Committed /\ Candidate' = Candidate
  BY DEF Committed, Candidate, Prices!Snapshot, Prices!CompileSnapshot
<1>3. MutexIsHeld'
  BY <1>1, <1>2 DEF PricesInv, MutexIsHeld
<1>4. VersionsGrow'
  BY <1>2 DEF PricesInv, VersionsGrow
<1> QED BY <1>3, <1>4 DEF PricesInv

LEMMA CommitStep ==
    ASSUME PriceConstants, PricesInv, NEW w \in PWriter, Prices!Commit(w)
    PROVE  PricesInv'
<1>1. pmutex = Prices!Free /\ pmutex' = w /\ commits' = commits + 1 /\ UNCHANGED <<catalog, answered>>
  BY DEF Prices!Commit
<1>2. pwriter' = [pwriter EXCEPT ![w] = Committed']
  BY DEF Prices!Commit, Committed, Candidate
<1>3. ASSUME NEW u \in PWriter PROVE pwriter[u] # Committed /\ (pwriter[u] = Prices!Idle \/ pwriter[u] \in Change)
  BY <1>1 DEF PricesInv, MutexIsHeld, Prices!Free, Committed, Change, Prices!Idle, PriceConstants
<1>4. /\ pwriter' = [u \in PWriter |-> pwriter'[u]] /\ pwriter'[w] = Committed'
      /\ \A u \in PWriter : u # w => pwriter'[u] = pwriter[u]
  BY <1>2 DEF PricesInv, MutexIsHeld
<1>5. MutexIsHeld'
  BY <1>1, <1>3, <1>4 DEF MutexIsHeld
<1>6. VersionsGrow'
  BY <1>1 DEF PricesInv, VersionsGrow, Prices!Free, PriceConstants
<1> QED BY <1>5, <1>6 DEF PricesInv

LEMMA PublishStep ==
    ASSUME PriceConstants, PricesInv, NEW w \in PWriter, Prices!Publish(w)
    PROVE  PricesInv'
<1>1. pwriter[w] = Committed /\ pmutex = w
  BY DEF PricesInv, MutexIsHeld, Prices!Publish, Change, Prices!Idle
<1>2. /\ catalog' = Candidate /\ pmutex' = Prices!Free /\ pwriter' = [pwriter EXCEPT ![w] = Prices!Idle]
      /\ answered' = IF Candidate.version > answered THEN Candidate.version ELSE answered
      /\ UNCHANGED <<prices, rules, commits>>
  BY <1>1 DEF Prices!Publish, Committed
<1>3. Candidate' = Candidate /\ Candidate.version = commits
  BY <1>2, CandidateVersion DEF Candidate, Prices!Snapshot, Prices!CompileSnapshot
<1>4. /\ pwriter' = [u \in PWriter |-> pwriter'[u]] /\ pwriter'[w] = Prices!Idle
      /\ \A u \in PWriter : u # w => pwriter'[u] = pwriter[u]
  BY <1>2 DEF PricesInv, MutexIsHeld
<1>5. \A u \in PWriter : u # w => pwriter[u] = Prices!Idle \/ pwriter[u] \in Change
  BY <1>1 DEF PricesInv, MutexIsHeld
<1>6. MutexIsHeld'
  BY <1>2, <1>4, <1>5 DEF MutexIsHeld, Prices!Free, PriceConstants
<1>7. VersionsGrow'
  BY <1>2, <1>3 DEF PricesInv, VersionsGrow
<1> QED BY <1>6, <1>7 DEF PricesInv

\* CatalogFollowsCommits: the snapshot that costs are calculated with is never
\* older than a change that was answered, and with no change under way it is
\* what the tables say, whatever requests overlap and whenever the process
\* restarts (internal/service/pricing_mutation.go).
LEMMA PricesFollow ==
    ASSUME PriceConstants
    PROVE  Prices!Spec => []Prices!CatalogFollowsCommits
<1>1. Prices!Init => PricesInv
  <2> SUFFICES ASSUME Prices!Init PROVE PricesInv
    OBVIOUS
  <2>1. catalog = Candidate /\ commits = 0 /\ answered = 0
    BY DEF Prices!Init, Candidate
  <2>2. VersionsGrow
    BY <2>1, CandidateVersion DEF VersionsGrow
  <2>3. MutexIsHeld
    BY DEF Prices!Init, MutexIsHeld, Prices!Free, PriceConstants
  <2> QED BY <2>2, <2>3 DEF PricesInv
<1>2. PricesInv /\ [Prices!Next]_(Prices!pvars) => PricesInv'
  <2> SUFFICES ASSUME PricesInv, [Prices!Next]_(Prices!pvars) PROVE PricesInv'
    OBVIOUS
  <2>1. ASSUME NEW w \in PWriter, NEW m \in Model, NEW x \in ListPrice, Prices!PreviewPricingSync(w, m, x)
        PROVE  PricesInv'
    <3> DEFINE o == [pc |-> "preview", models |-> {m}, input |-> [price |-> x, mult |-> 1]]
    <3>1. [price |-> x, mult |-> 1] \in Submitted
      BY DEF Submitted
    <3>2. o \in Change
      BY <3>1 DEF Change
    <3>3. pwriter' = [pwriter EXCEPT ![w] = o]
      BY <2>1 DEF Prices!PreviewPricingSync
    <3>4. pmutex # w /\ UNCHANGED <<prices, rules, catalog, pmutex, commits, answered>>
      BY <2>1 DEF Prices!PreviewPricingSync, PricesInv, MutexIsHeld, Prices!Idle, Committed
    <3> HIDE DEF o
    <3> QED BY <3>2, <3>3, <3>4, OneWriterMoves
  <2>2. ASSUME NEW w \in PWriter, Prices!ApplyPreview(w) PROVE PricesInv'
    <3>1. pwriter[w] \in Change /\ pmutex # w
      BY <2>2 DEF Prices!ApplyPreview, PricesInv, MutexIsHeld, Prices!Idle, Committed
    <3> DEFINE o == [pwriter[w] EXCEPT !.pc = "update"]
    <3>2. o \in Change
      BY <3>1 DEF Change
    <3>3. pwriter' = [pwriter EXCEPT ![w] = o] /\ UNCHANGED <<prices, rules, catalog, pmutex, commits, answered>>
      BY <2>2 DEF Prices!ApplyPreview
    <3> HIDE DEF o
    <3> QED BY <3>1, <3>2, <3>3, OneWriterMoves
  <2>3. ASSUME NEW w \in PWriter, NEW kind \in {"update", "delete", "rules"}, NEW ms \in SUBSET Model,
               NEW p \in PriceInput \cup {Prices!NoPrice}, NEW rs, kind = "rules" => rs \in RuleInput,
               Prices!Submit(w, kind, ms, p, rs)
        PROVE  PricesInv'
    <3> DEFINE o == [pc |-> kind, models |-> ms, input |-> IF kind = "rules" THEN rs ELSE p]
    <3>1. o \in Change
      BY <2>3 DEF Change, Submitted
    <3>2. pmutex # w /\ UNCHANGED <<prices, rules, catalog, pmutex, commits, answered>>
      BY <2>3 DEF Prices!Submit, PricesInv, MutexIsHeld, Prices!Idle, Committed
    <3>3. pwriter' = [pwriter EXCEPT ![w] = o]
      BY <2>3 DEF Prices!Submit
    <3> HIDE DEF o
    <3> QED BY <3>1, <3>2, <3>3, OneWriterMoves
  <2>4. ASSUME NEW w \in PWriter, Prices!RollBack(w) PROVE PricesInv'
    <3>1. /\ pmutex # w /\ UNCHANGED <<prices, rules, catalog, pmutex, commits, answered>>
          /\ pwriter' = [pwriter EXCEPT ![w] = Prices!Idle]
      BY <2>4 DEF Prices!RollBack, PricesInv, MutexIsHeld, Prices!Idle, Committed
    <3> QED BY <3>1, OneWriterMoves
  <2>5. ASSUME NEW r \in PReader, Prices!NewResolver(r) PROVE PricesInv'
    <3>1. UNCHANGED <<prices, rules, catalog, pmutex, pwriter, commits, answered>>
      BY <2>5 DEF Prices!NewResolver
    <3>2. Candidate' = Candidate /\ Committed' = Committed
      BY <3>1 DEF Committed, Candidate, Prices!Snapshot, Prices!CompileSnapshot
    <3> QED BY <3>1, <3>2 DEF PricesInv, MutexIsHeld, VersionsGrow
  <2>6. CASE Prices!CrashAndLoad
    <3>1. /\ catalog' = Candidate /\ pmutex' = Prices!Free /\ pwriter' = [w \in PWriter |-> Prices!Idle]
          /\ UNCHANGED <<prices, rules, commits, answered>>
      BY <2>6 DEF Prices!CrashAndLoad, Candidate
    <3>2. Candidate' = Candidate
      BY <3>1 DEF Candidate, Prices!Snapshot, Prices!CompileSnapshot
    <3>3. VersionsGrow'
      BY <3>1, <3>2, CandidateVersion DEF PricesInv, VersionsGrow
    <3>4. MutexIsHeld'
      BY <3>1 DEF MutexIsHeld, Prices!Free, PriceConstants
    <3> QED BY <3>3, <3>4 DEF PricesInv
  <2>7. CASE UNCHANGED Prices!pvars
    <3>1. UNCHANGED <<prices, rules, catalog, pmutex, pwriter, commits, answered>>
      BY <2>7 DEF Prices!pvars
    <3>2. Candidate' = Candidate /\ Committed' = Committed
      BY <3>1 DEF Committed, Candidate, Prices!Snapshot, Prices!CompileSnapshot
    <3> QED BY <3>1, <3>2 DEF PricesInv, MutexIsHeld, VersionsGrow
  <2>8. ASSUME NEW w \in PWriter, NEW ms \in SUBSET Model, NEW p \in PriceInput, Prices!Submit(w, "update", ms, p, {})
        PROVE  PricesInv'
    BY <2>3, <2>8
  <2>9. ASSUME NEW w \in PWriter, NEW m \in Model, Prices!Submit(w, "delete", {m}, Prices!NoPrice, {})
        PROVE  PricesInv'
    BY <2>3, <2>9
  <2>10. ASSUME NEW w \in PWriter, NEW m \in Model, NEW rs \in RuleInput,
                Prices!Submit(w, "rules", {m}, Prices!NoPrice, rs)
         PROVE  PricesInv'
    BY <2>3, <2>10
  <2> QED BY <2>1, <2>2, <2>4, <2>5, <2>6, <2>7, <2>8, <2>9, <2>10, CommitStep, PublishStep DEF Prices!Next
<1>3. PricesInv => Prices!CatalogFollowsCommits
  BY DEF PricesInv, VersionsGrow, Candidate, Prices!CatalogFollowsCommits
<1> QED BY <1>1, <1>2, <1>3, PTL DEF Prices!Spec

-----------------------------------------------------------------------------
(***************************************************************************)
(* Costs.  A snapshot is compiled from tables whose worst case was found   *)
(* finite, and so are the tables a crash leaves; the product of the rules  *)
(* a request matches is below the product of the maxima, factor by factor. *)
(***************************************************************************)

\* The recursion of Product over the sets of a domain D.
PickOf(S) == CHOOSE x \in S : TRUE
ProductOf(P, g, S) == IF S = {} THEN 1 ELSE g[PickOf(S)] * P[S \ {PickOf(S)}]
IsProduct(P, g, D) == P = [S \in D |-> ProductOf(P, g, S)]
SetsUpTo(F, n) == {S \in SUBSET F : Cardinality(S) <= n}

\* What is left of a set of fields when one is taken out.
LEMMA PickOne ==
    ASSUME NEW F, IsFiniteSet(F), NEW S \in SUBSET F
    PROVE  /\ Cardinality(S) \in Nat /\ Cardinality(S) <= Cardinality(F)
           /\ S # {} => /\ PickOf(S) \in F /\ S \ {PickOf(S)} \in SUBSET F
                        /\ Cardinality(S) # 0 /\ Cardinality(S \ {PickOf(S)}) = Cardinality(S) - 1
<1>1. IsFiniteSet(S) /\ Cardinality(S) \in Nat /\ Cardinality(S) <= Cardinality(F)
  BY FS_Subset, FS_CardinalityType
<1>2. ASSUME S # {} PROVE PickOf(S) \in S
  BY <1>2 DEF PickOf
<1>3. ASSUME S # {} PROVE Cardinality(S \ {PickOf(S)}) = Cardinality(S) - 1 /\ Cardinality(S) # 0
  BY <1>1, <1>2, <1>3, FS_RemoveElement, FS_EmptySet
<1> QED BY <1>1, <1>2, <1>3

\* The recursion defines a function, for a finite set of fields.
LEMMA ProductExists ==
    ASSUME NEW F, IsFiniteSet(F), NEW g
    PROVE  \E P : IsProduct(P, g, SUBSET F)
<1> DEFINE D(n) == SetsUpTo(F, n)
           Bad == {n \in Nat : ~\E P : IsProduct(P, g, D(n))}
<1>1. \A S \in SUBSET F : Cardinality(S) \in Nat /\ Cardinality(S) <= Cardinality(F)
  BY PickOne
<1>2. Bad = {}
  <2> SUFFICES ASSUME Bad # {} PROVE FALSE
    OBVIOUS
  <2>1. PICK n \in Bad : \A k \in Bad : n <= k
    <3>1. Bad \subseteq Nat
      OBVIOUS
    <3> HIDE DEF Bad
    <3> QED BY <3>1, MinExists
  <2>2. n \in Nat /\ ~\E P : IsProduct(P, g, D(n))
    OBVIOUS
  <2>3. CASE n = 0
    <3>1. \A S \in D(0) : S = {}
      <4> SUFFICES ASSUME NEW S \in D(0) PROVE S = {}
        OBVIOUS
      <4>1. S \in SUBSET F /\ Cardinality(S) = 0
        BY <1>1 DEF SetsUpTo
      <4> QED BY <4>1, PickOne
    <3>2. PICK P : P = [S \in D(0) |-> 1]
      OBVIOUS
    <3>3. IsProduct(P, g, D(0))
      BY <3>1, <3>2 DEF IsProduct, ProductOf
    <3> QED BY <2>2, <2>3, <3>3
  <2>4. CASE n # 0
    <3>1. n - 1 \in Nat
      BY <2>2, <2>4
    <3>2. n - 1 \notin Bad
      <4>1. ~(n <= n - 1)
        BY <2>2
      <4> HIDE DEF Bad
      <4> QED BY <2>1, <4>1
    <3>3. PICK Q : IsProduct(Q, g, D(n - 1))
      BY <3>1, <3>2
    <3>4. PICK P : P = [S \in D(n) |-> ProductOf(Q, g, S)]
      OBVIOUS
    <3>5. ASSUME NEW S \in D(n), S # {} PROVE S \ {PickOf(S)} \in D(n - 1)
      BY <2>2, <3>5, PickOne DEF SetsUpTo
    <3>6. ASSUME NEW S \in D(n - 1) PROVE P[S] = Q[S]
      <4>1. S \in D(n)
        BY <1>1, <2>2 DEF SetsUpTo
      <4>2. Q[S] = ProductOf(Q, g, S)
        BY <3>3 DEF IsProduct
      <4> QED BY <3>4, <4>1, <4>2
    <3>7. ASSUME NEW S \in D(n) PROVE ProductOf(Q, g, S) = ProductOf(P, g, S)
      <4>1. CASE S = {}
        BY <4>1 DEF ProductOf
      <4>2. CASE S # {}
        <5>1. P[S \ {PickOf(S)}] = Q[S \ {PickOf(S)}]
          BY <4>2, <3>5, <3>6
        <5> QED BY <4>2, <5>1 DEF ProductOf
      <4> QED BY <4>1, <4>2
    <3>8. IsProduct(P, g, D(n))
      <4> HIDE DEF D
      <4> QED BY <3>4, <3>7, Zenon DEF IsProduct
    <3> QED BY <2>2, <3>8
  <2> QED BY <2>3, <2>4
<1>3. Cardinality(F) \in Nat /\ D(Cardinality(F)) = SUBSET F
  BY <1>1, FS_CardinalityType DEF SetsUpTo
<1>4. Cardinality(F) \notin Bad
  BY <1>2
<1>5. \E P : IsProduct(P, g, D(Cardinality(F)))
  BY <1>3, <1>4
<1> QED BY <1>3, <1>5

\* A product of naturals is a natural, and grows with its factors.
LEMMA ProductGrows ==
    ASSUME NEW F, IsFiniteSet(F), NEW g \in [F -> Nat], NEW h \in [F -> Nat], \A f \in F : g[f] <= h[f]
    PROVE  Prices!Product(g) \in Nat /\ Prices!Product(h) \in Nat /\ Prices!Product(g) <= Prices!Product(h)
<1>1. ASSUME NEW k \in [F -> Nat]
      PROVE  \E P : IsProduct(P, k, SUBSET F) /\ Prices!Product(k) = P[F]
  <2>1. \E P : IsProduct(P, k, SUBSET F)
    BY ProductExists
  <2>2. PICK P : P = CHOOSE Q : IsProduct(Q, k, SUBSET F)
    OBVIOUS
  <2>3. IsProduct(P, k, SUBSET F)
    BY <2>1, <2>2
  <2>4. Prices!Product(k) = P[F]
    <3>1. DOMAIN k = F
      OBVIOUS
    <3> QED BY <2>2, <3>1 DEF Prices!Product, IsProduct, ProductOf, PickOf
  <2> QED BY <2>3, <2>4
<1>2. PICK P : IsProduct(P, g, SUBSET F) /\ Prices!Product(g) = P[F]
  BY <1>1
<1>3. PICK Q : IsProduct(Q, h, SUBSET F) /\ Prices!Product(h) = Q[F]
  BY <1>1
<1> DEFINE Grows(S) == P[S] \in Nat /\ Q[S] \in Nat /\ P[S] <= Q[S]
           Bad == {n \in Nat : \E S \in SUBSET F : Cardinality(S) = n /\ ~Grows(S)}
<1>4. Bad = {}
  <2> SUFFICES ASSUME Bad # {} PROVE FALSE
    OBVIOUS
  <2>1. PICK n \in Bad : \A k \in Bad : n <= k
    <3>1. Bad \subseteq Nat
      OBVIOUS
    <3> HIDE DEF Bad
    <3> QED BY <3>1, MinExists
  <2>2. PICK S \in SUBSET F : Cardinality(S) = n /\ ~Grows(S)
    OBVIOUS
  <2>3. P[S] = ProductOf(P, g, S) /\ Q[S] = ProductOf(Q, h, S)
    BY <1>2, <1>3 DEF IsProduct
  <2>4. CASE S = {}
    BY <2>2, <2>3, <2>4 DEF ProductOf
  <2>5. CASE S # {}
    <3>1. PICK f \in F, T \in SUBSET F : f = PickOf(S) /\ T = S \ {PickOf(S)}
      BY <2>5, PickOne
    <3>2. Cardinality(T) \in Nat /\ Cardinality(T) = n - 1 /\ n \in Nat
      BY <2>2, <2>5, <3>1, PickOne
    <3>3. Grows(T)
      <4>1. Cardinality(T) \notin Bad
        <5>1. ~(n <= Cardinality(T))
          BY <3>2
        <5> HIDE DEF Bad
        <5> QED BY <2>1, <5>1
      <4> QED BY <3>2, <4>1
    <3>4. P[S] = g[f] * P[T] /\ Q[S] = h[f] * Q[T]
      BY <2>3, <2>5, <3>1 DEF ProductOf
    <3>5. g[f] \in Nat /\ h[f] \in Nat /\ g[f] <= h[f]
      OBVIOUS
    <3>6. \A a, b, c, d \in Nat : a <= b /\ c <= d => a * c <= b * d /\ a * c \in Nat /\ b * d \in Nat
      OBVIOUS
    <3>7. Grows(S)
      BY <3>3, <3>4, <3>5, <3>6
    <3> QED BY <2>2, <3>7
  <2> QED BY <2>4, <2>5
<1>5. Grows(F)
  <2>1. Cardinality(F) \in Nat /\ Cardinality(F) \notin Bad
    BY <1>4, FS_CardinalityType
  <2> QED BY <2>1
<1> QED BY <1>2, <1>3, <1>5

\* What a committed price and its committed rules are.
PriceRow == [price : Nat, mult : Nat]
RuleSet == {rs \in SUBSET [field : Field, value : Value, mult : Nat] : IsFiniteSet(rs)}

\* The models of a snapshot whose worst case was found finite.
Bounded(ms) ==
    \A m \in DOMAIN ms : /\ ms[m].price \in Nat /\ ms[m].mult \in Nat /\ ms[m].rules \in RuleSet
                         /\ Prices!WorstCaseIsFinite(ms[m], ms[m].rules)

\* A request on its way to the tables, and the candidate it publishes.
AskedFor(o) ==
    \/ o.pc \in {"idle", "delete"}
    \/ o.pc \in {"preview", "update"} /\ o.input \in PriceRow
    \/ o.pc = "rules" /\ o.input \in RuleSet
    \/ o.pc = "publish" /\ Bounded(o.candidate.models)

TablesCompile(ps, rs) ==
    /\ ps \in [Model -> PriceRow \cup {Prices!NoPrice}] /\ rs \in [Model -> RuleSet]
    /\ Prices!Compiles(ps, rs)

WritersAsk ==
    /\ pwriter = [w \in PWriter |-> pwriter[w]]
    /\ \A w \in PWriter : AskedFor(pwriter[w])

ReadersAreBounded ==
    /\ resolver = [r \in PReader |-> resolver[r]]
    /\ \A r \in PReader : resolver[r] = Prices!NoSnapshot \/ Bounded(resolver[r].models)

CostInv ==
    /\ TablesCompile(prices, rules) /\ Bounded(catalog.models)
    /\ WritersAsk /\ ReadersAreBounded

\* The greatest of a finite set of naturals.
LEMMA MaxOfIsMax ==
    ASSUME NEW S, S \subseteq Nat, IsFiniteSet(S), S # {}
    PROVE  Prices!MaxOf(S) \in S /\ \A x \in S : x <= Prices!MaxOf(S)
<1>1. PICK R : R = {p \in Nat \X Nat : p[1] < p[2]}
  OBVIOUS
<1>2. OrderOn(R, S) /\ S \subseteq S
  BY <1>1 DEF OrderOn
<1>3. \E s \in [1..Cardinality(S) -> S] : Lists(s, S, R)
  BY <1>2, ListExists
<1>4. PICK s \in [1..Cardinality(S) -> S] : Lists(s, S, R)
  BY <1>3
<1>5. PICK n \in Nat : n = Cardinality(S) /\ n # 0
  BY FS_CardinalityType, FS_EmptySet
<1>6. ASSUME NEW x \in S PROVE x <= s[n]
  <2>1. PICK i \in 1..n : s[i] = x
    BY <1>4, <1>5 DEF Lists
  <2>2. s[n] \in S
    BY <1>5
  <2>3. CASE i = n
    BY <2>1, <2>2, <2>3
  <2>4. CASE i # n
    <3>1. <<s[i], s[n]>> \in R
      BY <1>4, <1>5, <2>4 DEF Lists
    <3> QED BY <1>1, <2>1, <3>1
  <2> QED BY <2>3, <2>4
<1>7. s[n] \in S
  BY <1>5
<1> QED BY <1>6, <1>7 DEF Prices!MaxOf

\* The rules of one field that a request may match are among the rules of
\* that field.
LEMMA MatchIsBelowWorst ==
    ASSUME NEW rs \in RuleSet, NEW d, PriceConstants
    PROVE  /\ Prices!MatchingMultiplier(rs, d) \in Nat
           /\ Prices!Product([f \in Field |-> Prices!MaxByField(rs, f)]) \in Nat
           /\ Prices!MatchingMultiplier(rs, d) <= Prices!Product([f \in Field |-> Prices!MaxByField(rs, f)])
<1> DEFINE hit(f) == {r.mult : r \in {s \in rs : s.field = f /\ s.value = d.dims[f]}}
           of(f) == {r.mult : r \in {s \in rs : s.field = f}}
           g == [f \in Field |-> IF hit(f) = {} THEN 1 ELSE Prices!MaxOf(hit(f))]
           h == [f \in Field |-> Prices!MaxByField(rs, f)]
<1>1. IsFiniteSet(rs) /\ \A r \in rs : r.mult \in Nat
  BY DEF RuleSet
<1>2. ASSUME NEW f \in Field
      PROVE  g[f] \in Nat /\ h[f] \in Nat /\ g[f] <= h[f]
  <2>1. IsFiniteSet({1} \cup of(f)) /\ {1} \cup of(f) \subseteq Nat
    <3>1. IsFiniteSet({s \in rs : s.field = f})
      BY <1>1, FS_Subset
    <3>2. IsFiniteSet(of(f))
      <4>1. PICK T : T = {s \in rs : s.field = f}
        OBVIOUS
      <4>2. [r \in T |-> r.mult] \in Surjection(T, of(f))
        BY <4>1 DEF Surjection
      <4> QED BY <3>1, <4>1, <4>2, FS_Surjection
    <3>3. IsFiniteSet({1})
      BY FS_Singleton
    <3>4. IsFiniteSet({1} \cup of(f))
      BY <3>2, <3>3, FS_Union
    <3> QED BY <1>1, <3>4
  <2>2. Prices!MaxByField(rs, f) = Prices!MaxOf({1} \cup of(f))
    BY DEF Prices!MaxByField
  <2>3. PICK W : W = {1} \cup of(f)
    OBVIOUS
  <2>4. W \subseteq Nat /\ IsFiniteSet(W) /\ W # {}
    BY <2>1, <2>3
  <2>5. Prices!MaxOf(W) \in W /\ \A x \in W : x <= Prices!MaxOf(W)
    BY <2>4, MaxOfIsMax
  <2>6. h[f] = Prices!MaxOf(W) /\ 1 \in W
    BY <2>2, <2>3
  <2>7. CASE hit(f) = {}
    <3>1. g[f] = 1
      BY <2>7
    <3> QED BY <2>4, <2>5, <2>6, <3>1
  <2>8. CASE hit(f) # {}
    <3>1. PICK H : H = hit(f)
      OBVIOUS
    <3>2. H \subseteq W
      BY <2>3, <3>1
    <3>3. IsFiniteSet(H) /\ H \subseteq Nat /\ H # {}
      BY <2>4, <2>8, <3>1, <3>2, FS_Subset
    <3>4. Prices!MaxOf(H) \in H
      BY <3>3, MaxOfIsMax
    <3>5. g[f] = Prices!MaxOf(H)
      BY <2>8, <3>1
    <3> QED BY <2>4, <2>5, <2>6, <3>2, <3>4, <3>5
  <2> QED BY <2>7, <2>8
<1>3. g \in [Field -> Nat] /\ h \in [Field -> Nat] /\ \A f \in Field : g[f] <= h[f]
  <2>1. g = [f \in Field |-> g[f]] /\ h = [f \in Field |-> h[f]]
    OBVIOUS
  <2> HIDE DEF g, h
  <2> QED BY <1>2, <2>1
<1>4. Prices!MatchingMultiplier(rs, d) = Prices!Product(g)
  BY DEF Prices!MatchingMultiplier
<1>5. IsFiniteSet(Field)
  BY DEF PriceConstants
<1>6. Prices!Product(g) \in Nat /\ Prices!Product(h) \in Nat /\ Prices!Product(g) <= Prices!Product(h)
  <2> HIDE DEF g, h
  <2> QED BY <1>3, <1>5, ProductGrows
<1> QED BY <1>4, <1>6

\* Under a snapshot that was compiled no request costs too much.
LEMMA CostIsBounded ==
    ASSUME PriceConstants, NEW s, Bounded(s.models), NEW d, NEW c \in Prices!Calculate(s, d, MaxTokens)
    PROVE  c <= Finite
<1>1. PICK m \in DOMAIN s.models :
         c = IF s.models[m].mult = 0 THEN 0
             ELSE s.models[m].price * MaxTokens * s.models[m].mult * Prices!MatchingMultiplier(s.models[m].rules, d)
  <2>1. Prices!MatchModel(s, d) \subseteq DOMAIN s.models
    BY DEF Prices!MatchModel
  <2> QED BY <2>1 DEF Prices!Calculate
<1>2. PICK e, rs : e = s.models[m] /\ rs = s.models[m].rules
  OBVIOUS
<1>3. e.price \in Nat /\ e.mult \in Nat /\ rs \in RuleSet /\ Prices!WorstCaseIsFinite(e, rs)
  BY <1>2 DEF Bounded
<1>4. MaxTokens \in Nat /\ Finite \in Nat
  BY DEF PriceConstants
<1>5. CASE e.mult = 0
  BY <1>1, <1>2, <1>4, <1>5
<1>6. CASE e.mult # 0
  <2>1. PICK a, b : a = Prices!MatchingMultiplier(rs, d) /\ b = Prices!Product([f \in Field |-> Prices!MaxByField(rs, f)])
    OBVIOUS
  <2>2. a \in Nat /\ b \in Nat /\ a <= b
    BY <1>3, <2>1, MatchIsBelowWorst
  <2>3. e.price * MaxTokens * e.mult * b <= Finite
    BY <1>3, <1>6, <2>1 DEF Prices!WorstCaseIsFinite
  <2>4. PICK k \in Nat : k = e.price * MaxTokens * e.mult
    BY <1>3, <1>4
  <2>5. c = k * a /\ k * b <= Finite
    BY <1>1, <1>2, <1>6, <2>1, <2>3, <2>4
  <2>6. k * a <= k * b
    BY <2>2, <2>4
  <2> QED BY <1>4, <2>2, <2>4, <2>5, <2>6
<1> QED BY <1>5, <1>6

\* What a transaction that compiles leaves behind, compiled.
LEMMA CompiledIsBounded ==
    ASSUME NEW ps, NEW rs, TablesCompile(ps, rs), NEW v
    PROVE  Bounded(Prices!Snapshot(v, ps, rs).models)
<1> DEFINE ms == Prices!Snapshot(v, ps, rs).models
<1>1. ms = Prices!CompileSnapshot(ps, rs)
  BY DEF Prices!Snapshot
<1>2. ASSUME NEW m \in DOMAIN ms
      PROVE  /\ ms[m].price \in Nat /\ ms[m].mult \in Nat /\ ms[m].rules \in RuleSet
             /\ Prices!WorstCaseIsFinite(ms[m], ms[m].rules)
  <2>1. /\ m \in Model /\ ps[m] # Prices!NoPrice
        /\ ms[m] = [price |-> ps[m].price, mult |-> ps[m].mult, rules |-> Prices!CompiledRules(rs[m])]
    BY <1>1 DEF Prices!CompileSnapshot
  <2>2. ps[m].price \in Nat /\ ps[m].mult \in Nat /\ rs[m] \in RuleSet
    BY <2>1 DEF TablesCompile, PriceRow
  <2>3. Prices!CompiledRules(rs[m]) \in RuleSet
    <3>1. Prices!CompiledRules(rs[m]) \subseteq rs[m] /\ IsFiniteSet(rs[m])
      BY <2>2 DEF Prices!CompiledRules, RuleSet
    <3>2. IsFiniteSet(Prices!CompiledRules(rs[m]))
      BY <3>1, FS_Subset
    <3> QED BY <2>2, <3>1, <3>2 DEF RuleSet
  <2>4. Prices!WorstCaseIsFinite(ps[m], Prices!CompiledRules(rs[m]))
    BY <2>1 DEF TablesCompile, Prices!Compiles
  <2>5. ms[m].price = ps[m].price /\ ms[m].mult = ps[m].mult /\ ms[m].rules = Prices!CompiledRules(rs[m])
    BY <2>1
  <2>6. Prices!WorstCaseIsFinite(ms[m], Prices!CompiledRules(rs[m]))
    <3> HIDE DEF ms
    <3> QED BY <2>4, <2>5 DEF Prices!WorstCaseIsFinite
  <2> QED BY <2>2, <2>3, <2>5, <2>6
<1> HIDE DEF ms
<1>3. Bounded(ms)
  BY <1>2 DEF Bounded
<1> QED BY <1>3 DEF ms

\* A request that changes what one writer asks for.
LEMMA OneWriterAsks ==
    ASSUME WritersAsk, NEW w \in PWriter, NEW o, AskedFor(o), pwriter' = [pwriter EXCEPT ![w] = o]
    PROVE  WritersAsk'
<1>1. \A u \in PWriter : pwriter'[u] = IF u = w THEN o ELSE pwriter[u]
  BY DEF WritersAsk
<1>2. pwriter' = [u \in PWriter |-> pwriter'[u]]
  BY DEF WritersAsk
<1>3. \A u \in PWriter : AskedFor(pwriter[u])
  BY DEF WritersAsk
<1>4. \A u \in PWriter : AskedFor(pwriter'[u])
  BY <1>1, <1>3
<1> QED BY <1>2, <1>4 DEF WritersAsk, AskedFor, Bounded, PriceRow, RuleSet, Prices!WorstCaseIsFinite

\* What the callback of the transaction leaves in the tables.
LEMMA WrittenTables ==
    ASSUME CostInv, NEW w \in PWriter, pwriter[w].pc \in {"update", "delete", "rules"},
           Prices!Accepted(pwriter[w])
    PROVE  TablesCompile(Prices!Written(pwriter[w]).prices, Prices!Written(pwriter[w]).rules)
<1> DEFINE o == pwriter[w]
           t == Prices!Written(o)
<1>1. AskedFor(o) /\ prices \in [Model -> PriceRow \cup {Prices!NoPrice}] /\ rules \in [Model -> RuleSet]
  BY DEF CostInv, WritersAsk, TablesCompile
<1>2. {} \in RuleSet
  BY FS_EmptySet DEF RuleSet
<1>3. o.pc = "update" => o.input \in PriceRow
  BY <1>1 DEF AskedFor
<1>4. o.pc = "rules" => o.input \in RuleSet
  BY <1>1 DEF AskedFor
<1>5. t.prices \in [Model -> PriceRow \cup {Prices!NoPrice}]
  <2>1. t.prices = [m \in Model |-> IF m \notin o.models \/ o.pc = "rules" THEN prices[m]
                                    ELSE IF o.pc = "delete" THEN Prices!NoPrice ELSE o.input]
    BY DEF Prices!Written
  <2> HIDE DEF t
  <2> QED BY <1>1, <1>3, <2>1
<1>6. t.rules \in [Model -> RuleSet]
  <2>1. t.rules = [m \in Model |-> IF m \notin o.models \/ o.pc = "update" THEN rules[m]
                                   ELSE IF o.pc = "delete" THEN {} ELSE o.input]
    BY DEF Prices!Written
  <2> HIDE DEF t
  <2> QED BY <1>1, <1>2, <1>4, <2>1
<1>7. Prices!Compiles(t.prices, t.rules)
  BY DEF Prices!Accepted
<1> QED BY <1>5, <1>6, <1>7 DEF TablesCompile

\* Steps that touch neither the tables nor the snapshots.
LEMMA OnlyTheWriter ==
    ASSUME CostInv, WritersAsk', UNCHANGED <<prices, rules, catalog, resolver>>
    PROVE  CostInv'
<1>1. TablesCompile(prices, rules)'
  BY DEF CostInv, TablesCompile, PriceRow, RuleSet, Prices!NoPrice, Prices!Compiles, Prices!RulesValid,
         Prices!SameTest, Prices!WorstCaseIsFinite, Prices!CompiledRules
<1>2. Bounded(catalog.models)'
  BY DEF CostInv, Bounded, RuleSet, Prices!WorstCaseIsFinite
<1>3. ReadersAreBounded'
  BY DEF CostInv, ReadersAreBounded, Bounded, RuleSet, Prices!WorstCaseIsFinite, Prices!NoSnapshot
<1> QED BY <1>1, <1>2, <1>3 DEF CostInv

LEMMA CostsAreBounded ==
    ASSUME PriceConstants
    PROVE  Prices!Spec => []Prices!CostsAreFinite
<1>1. Prices!Init => CostInv
  <2> SUFFICES ASSUME Prices!Init PROVE CostInv
    OBVIOUS
  <2>1. prices = [m \in Model |-> Prices!NoPrice] /\ rules = [m \in Model |-> {}]
    BY DEF Prices!Init
  <2>2. {} \in RuleSet
    BY FS_EmptySet DEF RuleSet
  <2>3. TablesCompile(prices, rules)
    BY <2>1, <2>2 DEF TablesCompile, Prices!Compiles
  <2>4. Bounded(catalog.models)
    BY <2>3, CompiledIsBounded DEF Prices!Init
  <2>5. WritersAsk
    BY DEF Prices!Init, WritersAsk, AskedFor, Prices!Idle
  <2>6. ReadersAreBounded
    BY DEF Prices!Init, ReadersAreBounded
  <2> QED BY <2>3, <2>4, <2>5, <2>6 DEF CostInv
<1>2. CostInv /\ [Prices!Next]_(Prices!pvars) => CostInv'
  <2> SUFFICES ASSUME CostInv, [Prices!Next]_(Prices!pvars) PROVE CostInv'
    OBVIOUS
  <2>w. WritersAsk
    BY DEF CostInv
  <2>1. ASSUME NEW w \in PWriter, NEW m \in Model, NEW x \in ListPrice, Prices!PreviewPricingSync(w, m, x)
        PROVE  CostInv'
    <3>1. pwriter' = [pwriter EXCEPT ![w] =
                 [pc |-> "preview", models |-> {m}, input |-> [price |-> x, mult |-> 1]]]
      BY <2>1 DEF Prices!PreviewPricingSync
    <3>2. x # -1
      BY <2>1 DEF Prices!PreviewPricingSync, Prices!Unlisted
    <3>3. x \in Nat
      BY <3>2 DEF PriceConstants
    <3>4. PICK o : o = [pc |-> "preview", models |-> {m}, input |-> [price |-> x, mult |-> 1]]
      OBVIOUS
    <3>5. AskedFor(o)
      BY <3>3, <3>4 DEF AskedFor, PriceRow
    <3>6. WritersAsk'
      BY <2>w, <3>1, <3>4, <3>5, OneWriterAsks
    <3> QED BY <2>1, <3>6, OnlyTheWriter DEF Prices!PreviewPricingSync
  <2>2. ASSUME NEW w \in PWriter, Prices!ApplyPreview(w) PROVE CostInv'
    <3>1. PICK o : o = [pwriter[w] EXCEPT !.pc = "update"]
      OBVIOUS
    <3>2. pwriter[w].pc = "preview" /\ pwriter' = [pwriter EXCEPT ![w] = o]
      BY <2>2, <3>1 DEF Prices!ApplyPreview
    <3>3. AskedFor(pwriter[w]) /\ pwriter[w].input \in PriceRow
      BY <2>w, <3>2 DEF WritersAsk, AskedFor
    <3>4. AskedFor(o)
      BY <3>1, <3>2, <3>3 DEF AskedFor
    <3>5. WritersAsk'
      BY <2>w, <3>2, <3>4, OneWriterAsks
    <3> QED BY <2>2, <3>5, OnlyTheWriter DEF Prices!ApplyPreview
  <2>3. ASSUME NEW w \in PWriter, NEW kind, NEW ms, NEW p, NEW rs,
               Prices!Submit(w, kind, ms, p, rs),
               kind = "update" => p \in PriceInput, kind = "rules" => rs \in RuleInput
        PROVE  CostInv'
    <3>1. PICK o : o = [pc |-> kind, models |-> ms, input |-> IF kind = "rules" THEN rs ELSE p]
      OBVIOUS
    <3>2. pwriter' = [pwriter EXCEPT ![w] = o]
      BY <2>3, <3>1 DEF Prices!Submit
    <3>3. AskedFor(o)
      <4>1. CASE kind = "update"
        <5>1. p \in [price : Int, mult : Int] /\ p.price >= 0 /\ p.mult >= 0
          BY <2>3, <4>1 DEF Prices!Submit, Prices!PriceValid, PriceConstants
        <5>2. p \in PriceRow
          BY <5>1 DEF PriceRow
        <5> QED BY <3>1, <4>1, <5>2 DEF AskedFor
      <4>2. CASE kind = "delete"
        BY <3>1, <4>2 DEF AskedFor
      <4>3. CASE kind = "rules"
        <5>1. rs \in RuleInput /\ \A r \in rs : r.mult >= 0
          BY <2>3, <4>3 DEF Prices!Submit
        <5>2. IsFiniteSet(rs) /\ \A r \in rs : r \in [field : Field, value : Value, mult : Int]
          BY <5>1 DEF PriceConstants
        <5>3. rs \in RuleSet
          BY <5>1, <5>2 DEF RuleSet
        <5> QED BY <3>1, <4>3, <5>3 DEF AskedFor
      <4> QED BY <2>3, <4>1, <4>2, <4>3 DEF Prices!Submit
    <3>4. WritersAsk'
      BY <2>w, <3>2, <3>3, OneWriterAsks
    <3> QED BY <2>3, <3>4, OnlyTheWriter DEF Prices!Submit
  <2>4. ASSUME NEW w \in PWriter, Prices!RollBack(w) PROVE CostInv'
    <3>1. AskedFor(Prices!Idle)
      BY DEF AskedFor, Prices!Idle
    <3>2. WritersAsk'
      BY <2>w, <2>4, <3>1, OneWriterAsks DEF Prices!RollBack
    <3> QED BY <2>4, <3>2, OnlyTheWriter DEF Prices!RollBack
  <2>5. ASSUME NEW w \in PWriter, Prices!Commit(w) PROVE CostInv'
    <3>1. PICK ps, rs : ps = Prices!Written(pwriter[w]).prices /\ rs = Prices!Written(pwriter[w]).rules
      OBVIOUS
    <3>2. TablesCompile(ps, rs)
      BY <2>5, <3>1, WrittenTables DEF Prices!Commit
    <3>3. prices' = ps /\ rules' = rs /\ UNCHANGED <<catalog, resolver>>
      BY <2>5, <3>1 DEF Prices!Commit
    <3>4. TablesCompile(prices', rules')
      BY <3>2, <3>3
    <3>5. PICK s, o : s = Prices!Snapshot(commits', ps, rs) /\ o = [pc |-> "publish", candidate |-> s]
      OBVIOUS
    <3>6. Bounded(s.models)
      BY <3>2, <3>5, CompiledIsBounded
    <3>7. AskedFor(o)
      BY <3>5, <3>6 DEF AskedFor
    <3>8. pwriter' = [pwriter EXCEPT ![w] = o]
      BY <2>5, <3>1, <3>5 DEF Prices!Commit
    <3>9. WritersAsk'
      BY <2>w, <3>7, <3>8, OneWriterAsks
    <3>10. Bounded(catalog'.models) /\ ReadersAreBounded'
      BY <3>3 DEF CostInv, ReadersAreBounded, Bounded
    <3> QED BY <3>4, <3>9, <3>10 DEF CostInv
  <2>6. ASSUME NEW w \in PWriter, Prices!Publish(w) PROVE CostInv'
    <3>1. pwriter[w].pc = "publish" /\ catalog' = pwriter[w].candidate /\ UNCHANGED <<prices, rules, resolver>>
      BY <2>6 DEF Prices!Publish
    <3>2. Bounded(catalog'.models)
      BY <2>w, <3>1 DEF WritersAsk, AskedFor
    <3>3. AskedFor(Prices!Idle)
      BY DEF AskedFor, Prices!Idle
    <3>4. WritersAsk'
      BY <2>w, <2>6, <3>3, OneWriterAsks DEF Prices!Publish
    <3>5. TablesCompile(prices', rules') /\ ReadersAreBounded'
      BY <3>1 DEF CostInv, ReadersAreBounded, Bounded
    <3> QED BY <3>2, <3>4, <3>5 DEF CostInv
  <2>7. ASSUME NEW r \in PReader, Prices!NewResolver(r) PROVE CostInv'
    <3>1. UNCHANGED <<prices, rules, catalog, pwriter>>
      BY <2>7 DEF Prices!NewResolver
    <3>2. /\ resolver' = [q \in PReader |-> resolver'[q]]
          /\ \A q \in PReader : resolver'[q] \in {Prices!NoSnapshot, catalog, resolver[q]}
      BY <2>7 DEF CostInv, ReadersAreBounded, Prices!NewResolver
    <3>3. \A q \in PReader : resolver'[q] = Prices!NoSnapshot \/ Bounded(resolver'[q].models)
      BY <3>2 DEF CostInv, ReadersAreBounded
    <3>4. ReadersAreBounded'
      BY <3>2, <3>3 DEF ReadersAreBounded
    <3>5. TablesCompile(prices', rules') /\ Bounded(catalog'.models) /\ WritersAsk'
      BY <3>1 DEF CostInv, WritersAsk
    <3> QED BY <3>4, <3>5 DEF CostInv
  <2>8. CASE Prices!CrashAndLoad
    <3>1. /\ catalog' = Prices!Snapshot(commits, prices, rules) /\ pwriter' = [w \in PWriter |-> Prices!Idle]
          /\ resolver' = [r \in PReader |-> Prices!NoSnapshot] /\ UNCHANGED <<prices, rules>>
      BY <2>8 DEF Prices!CrashAndLoad
    <3>2. TablesCompile(prices, rules)
      BY DEF CostInv
    <3>3. Bounded(catalog'.models)
      BY <3>1, <3>2, CompiledIsBounded
    <3>4. WritersAsk'
      BY <3>1 DEF WritersAsk, AskedFor, Prices!Idle
    <3>5. ReadersAreBounded'
      BY <3>1 DEF ReadersAreBounded
    <3>6. TablesCompile(prices', rules')
      BY <3>1, <3>2
    <3> QED BY <3>3, <3>4, <3>5, <3>6 DEF CostInv
  <2>9. CASE UNCHANGED Prices!pvars
    <3>1. UNCHANGED <<prices, rules, catalog, resolver, pwriter>>
      BY <2>9 DEF Prices!pvars
    <3>2. WritersAsk'
      BY <2>w, <3>1 DEF WritersAsk
    <3> QED BY <3>1, <3>2, OnlyTheWriter
  <2>10. ASSUME NEW w \in PWriter, NEW ms \in SUBSET Model, NEW p \in PriceInput, Prices!Submit(w, "update", ms, p, {})
         PROVE  CostInv'
    BY <2>3, <2>10
  <2>11. ASSUME NEW w \in PWriter, NEW m \in Model, Prices!Submit(w, "delete", {m}, Prices!NoPrice, {})
         PROVE  CostInv'
    BY <2>3, <2>11
  <2>12. ASSUME NEW w \in PWriter, NEW m \in Model, NEW rs \in RuleInput,
                Prices!Submit(w, "rules", {m}, Prices!NoPrice, rs)
         PROVE  CostInv'
    BY <2>3, <2>12
  <2> QED BY <2>1, <2>2, <2>4, <2>5, <2>6, <2>7, <2>8, <2>9, <2>10, <2>11, <2>12 DEF Prices!Next
<1>3. CostInv => Prices!CostsAreFinite
  <2> SUFFICES ASSUME CostInv, NEW s \in {catalog} \cup {resolver[r] : r \in PReader}, s # Prices!NoSnapshot,
                      NEW d \in Prices!Subject, NEW c \in Prices!Calculate(s, d, MaxTokens)
               PROVE  c <= Finite
    BY DEF Prices!CostsAreFinite
  <2>1. Bounded(s.models)
    BY DEF CostInv, ReadersAreBounded
  <2> QED BY <2>1, CostIsBounded
<1> QED BY <1>1, <1>2, <1>3, PTL DEF Prices!Spec
-----------------------------------------------------------------------------
(***************************************************************************)
(* The login limiter.  A window lets through at most its limit, so what    *)
(* falls into any span of one window's length comes from at most two       *)
(* windows.  The invariant keeps, for the global window and for that of    *)
(* each source, how many attempts fall into the window (Late) and into the *)
(* span just before it (Early).  A source that has left the table has a    *)
(* window that is over.                                                    *)
(***************************************************************************)

LoginEntry == [src : Client, at : Nat, counted : BOOLEAN]
LoginTimes == [i \in DOMAIN log |-> log[i].at]
Counted(s) == {i \in DOMAIN log : log[i].src = s /\ log[i].counted}

Late(S, at, st) == {i \in S : at[i] >= st}
Early(S, at, st) == {i \in S : at[i] < st /\ at[i] > st - LoginWindow}
Within(S, at, t) == {i \in S : at[i] >= t /\ at[i] <= t + LoginWindow - 1}

\* The attempts S fit a window that started at st and has counted n of limit L.
Fits(S, at, st, n, L) ==
    /\ Cardinality(Late(S, at, st)) <= n /\ n <= L
    /\ Cardinality(Early(S, at, st)) <= L
    /\ \A i \in S : at[i] < st + LoginWindow

Spread(S, at, L) == \A t \in Nat : Cardinality(Within(S, at, t)) <= 2 * L

LogTypes == lnow \in Nat /\ log \in Seq(LoginEntry)

GlobalInv ==
    /\ global \in [started : Int, n : Nat]
    /\ global.started <= lnow
    /\ global.started < 0 => log = <<>>
    /\ Fits(DOMAIN log, LoginTimes, global.started, global.n, GlobalLimit)
    /\ Spread(DOMAIN log, LoginTimes, GlobalLimit)

SourceTable ==
    /\ IsFiniteSet(DOMAIN sources) /\ Cardinality(DOMAIN sources) <= MaxSources
    /\ sources \in [DOMAIN sources -> [started : Nat, seen : Nat, n : Nat]]

\* The window of source x is in the table, or is over.
InTable(x) ==
    /\ sources[x].started <= lnow
    /\ Fits(Counted(x), LoginTimes, sources[x].started, sources[x].n, PerSourceLimit)
IsOver(x) ==
    \E st \in Int : /\ st + LoginWindow <= lnow
                    /\ Fits(Counted(x), LoginTimes, st, PerSourceLimit, PerSourceLimit)
SourceInv(x) ==
    /\ x \in DOMAIN sources => InTable(x)
    /\ x \notin DOMAIN sources => IsOver(x)
    /\ Spread(Counted(x), LoginTimes, PerSourceLimit)

LimiterInv == LogTypes /\ GlobalInv /\ SourceTable /\ \A x \in Client : SourceInv(x)

\* Fewer attempts fit as well.
LEMMA FewerFit ==
    ASSUME NEW S, IsFiniteSet(S), NEW T \in SUBSET S, NEW at, NEW bt, \A i \in T : bt[i] = at[i],
           NEW st \in Int, NEW n \in Nat, NEW L \in Nat, Fits(S, at, st, n, L)
    PROVE  Fits(T, bt, st, n, L)
<1>1. Late(T, bt, st) \in SUBSET Late(S, at, st) /\ Early(T, bt, st) \in SUBSET Early(S, at, st)
  BY DEF Late, Early
<1>2. IsFiniteSet(Late(S, at, st)) /\ IsFiniteSet(Early(S, at, st))
  <2>1. Late(S, at, st) \in SUBSET S /\ Early(S, at, st) \in SUBSET S
    BY DEF Late, Early
  <2> QED BY <2>1, FS_Subset
<1>3. /\ Cardinality(Late(T, bt, st)) <= Cardinality(Late(S, at, st))
      /\ Cardinality(Early(T, bt, st)) <= Cardinality(Early(S, at, st))
  BY <1>1, <1>2, FS_Subset
<1>4. /\ Cardinality(Late(T, bt, st)) \in Nat /\ Cardinality(Late(S, at, st)) \in Nat
      /\ Cardinality(Early(T, bt, st)) \in Nat /\ Cardinality(Early(S, at, st)) \in Nat
  BY <1>1, <1>2, FS_Subset, FS_CardinalityType
<1> QED BY <1>3, <1>4 DEF Fits

LEMMA FewerSpread ==
    ASSUME NEW S, IsFiniteSet(S), NEW T \in SUBSET S, NEW at, NEW bt, \A i \in T : bt[i] = at[i],
           NEW L \in Nat, Spread(S, at, L)
    PROVE  Spread(T, bt, L)
<1> SUFFICES ASSUME NEW t \in Nat PROVE Cardinality(Within(T, bt, t)) <= 2 * L
  BY DEF Spread
<1>1. Within(T, bt, t) \in SUBSET Within(S, at, t) /\ Within(S, at, t) \in SUBSET S
  BY DEF Within
<1>2. IsFiniteSet(Within(S, at, t))
  BY <1>1, FS_Subset
<1>3. Cardinality(Within(T, bt, t)) <= Cardinality(Within(S, at, t))
  BY <1>1, <1>2, FS_Subset
<1>4. Cardinality(Within(T, bt, t)) \in Nat /\ Cardinality(Within(S, at, t)) \in Nat
  BY <1>1, <1>2, FS_Subset, FS_CardinalityType
<1>5. Cardinality(Within(S, at, t)) <= 2 * L
  BY DEF Spread
<1> QED BY <1>3, <1>4, <1>5

\* A window that is over can be started anew: what it counted now lies before.
LEMMA WindowRenewed ==
    ASSUME LimiterConstants, NEW S, IsFiniteSet(S), NEW at, \A i \in S : at[i] \in Nat,
           NEW st \in Int, NEW n \in Nat, NEW L \in Nat, Fits(S, at, st, n, L),
           NEW now \in Nat, st + LoginWindow <= now
    PROVE  Fits(S, at, now, 0, L)
<1>1. \A i \in S : at[i] < now /\ at[i] < now + LoginWindow
  BY DEF Fits, LimiterConstants
<1>2. Late(S, at, now) = {}
  BY <1>1 DEF Late
<1>3. Early(S, at, now) \in SUBSET Late(S, at, st) /\ Late(S, at, st) \in SUBSET S
  BY DEF Early, Late, LimiterConstants
<1>4. IsFiniteSet(Late(S, at, st))
  BY <1>3, FS_Subset
<1>5. Cardinality(Early(S, at, now)) <= Cardinality(Late(S, at, st))
  BY <1>3, <1>4, FS_Subset
<1>6. Cardinality(Early(S, at, now)) \in Nat /\ Cardinality(Late(S, at, st)) \in Nat
  BY <1>3, <1>4, FS_Subset, FS_CardinalityType
<1>7. Cardinality(Late(S, at, st)) <= n /\ n <= L
  BY DEF Fits
<1> QED BY <1>1, <1>2, <1>5, <1>6, <1>7, FS_EmptySet DEF Fits

\* One more attempt in a window that is not over and has room.
LEMMA OneMoreFits ==
    ASSUME LimiterConstants, NEW S, IsFiniteSet(S), NEW at, \A i \in S : at[i] \in Nat,
           NEW k, NEW T \in SUBSET (S \cup {k}), NEW bt, \A i \in T : i # k => bt[i] = at[i], k \notin S,
           NEW st \in Int, NEW n \in Nat, NEW L \in Nat, Fits(S, at, st, n, L), n < L, Spread(S, at, L),
           bt[k] = lnow, lnow \in Nat, st <= lnow, lnow < st + LoginWindow
    PROVE  Fits(T, bt, st, n + 1, L) /\ Spread(T, bt, L)
<1> DEFINE A == Late(S, at, st)
           B == Early(S, at, st)
<1>1. A \in SUBSET S /\ B \in SUBSET S
  BY DEF Late, Early
<1>2. /\ IsFiniteSet(A) /\ IsFiniteSet(B) /\ IsFiniteSet(A \cup {k}) /\ k \notin A
      /\ Cardinality(A) \in Nat /\ Cardinality(B) \in Nat /\ Cardinality(A \cup {k}) = Cardinality(A) + 1
  <2>1. IsFiniteSet(A) /\ IsFiniteSet(B) /\ k \notin A
    BY <1>1, FS_Subset
  <2>2. Cardinality(A) \in Nat /\ Cardinality(B) \in Nat
    BY <2>1, FS_CardinalityType
  <2> QED BY <2>1, <2>2, FS_AddElement
<1>3. Cardinality(A) <= n /\ Cardinality(B) <= L
  BY DEF Fits
<1>4. Fits(T, bt, st, n + 1, L)
  <2>1. Late(T, bt, st) \in SUBSET (A \cup {k}) /\ Early(T, bt, st) \in SUBSET B
    BY DEF Late, Early
  <2>2. Cardinality(Late(T, bt, st)) <= Cardinality(A) + 1 /\ Cardinality(Early(T, bt, st)) <= Cardinality(B)
    BY <2>1, <1>2, FS_Subset
  <2>3. Cardinality(Late(T, bt, st)) \in Nat /\ Cardinality(Early(T, bt, st)) \in Nat
    BY <2>1, <1>2, FS_Subset, FS_CardinalityType
  <2>4. \A i \in T : bt[i] < st + LoginWindow
    BY DEF Fits
  <2> QED BY <2>2, <2>3, <2>4, <1>2, <1>3 DEF Fits
<1>5. ASSUME NEW t \in Nat PROVE Cardinality(Within(T, bt, t)) <= 2 * L
  <2>1. CASE k \in Within(T, bt, t)
    <3>1. t <= lnow /\ lnow <= t + LoginWindow - 1
      BY <2>1 DEF Within
    <3>2. Within(T, bt, t) \in SUBSET ((A \cup {k}) \cup B)
      <4> SUFFICES ASSUME NEW i \in Within(T, bt, t), i # k PROVE i \in A \/ i \in B
        OBVIOUS
      <4>1. i \in S /\ at[i] \in Nat /\ at[i] >= t
        BY DEF Within
      <4>2. at[i] < st => at[i] > st - LoginWindow
        BY <3>1, <4>1 DEF LimiterConstants
      <4> QED BY <4>1, <4>2 DEF Late, Early
    <3>3. IsFiniteSet((A \cup {k}) \cup B) /\ Cardinality((A \cup {k}) \cup B) <= n + 1 + L
      <4>1. /\ IsFiniteSet((A \cup {k}) \cup B)
            /\ Cardinality((A \cup {k}) \cup B)
                 = Cardinality(A \cup {k}) + Cardinality(B) - Cardinality((A \cup {k}) \cap B)
        BY <1>2, FS_Union
      <4>2. Cardinality((A \cup {k}) \cap B) \in Nat
        BY <1>2, FS_Subset, FS_CardinalityType, (A \cup {k}) \cap B \in SUBSET B
      <4> QED BY <4>1, <4>2, <1>2, <1>3
    <3>4. Cardinality(Within(T, bt, t)) <= Cardinality((A \cup {k}) \cup B)
      BY <3>2, <3>3, FS_Subset
    <3>5. Cardinality(Within(T, bt, t)) \in Nat /\ Cardinality((A \cup {k}) \cup B) \in Nat
      BY <3>2, <3>3, FS_Subset, FS_CardinalityType
    <3> QED BY <3>3, <3>4, <3>5
  <2>2. CASE k \notin Within(T, bt, t)
    <3>1. Within(T, bt, t) \in SUBSET Within(S, at, t) /\ Within(S, at, t) \in SUBSET S
      BY <2>2 DEF Within
    <3>2. IsFiniteSet(Within(S, at, t))
      BY <3>1, FS_Subset
    <3>3. Cardinality(Within(T, bt, t)) <= Cardinality(Within(S, at, t))
      BY <3>1, <3>2, FS_Subset
    <3>4. Cardinality(Within(T, bt, t)) \in Nat /\ Cardinality(Within(S, at, t)) \in Nat
      BY <3>1, <3>2, FS_Subset, FS_CardinalityType
    <3>5. Cardinality(Within(S, at, t)) <= 2 * L
      BY DEF Spread
    <3> QED BY <3>3, <3>4, <3>5
  <2> QED BY <2>1, <2>2
<1> QED BY <1>4, <1>5 DEF Spread

\* What the log holds, and that there are finitely many attempts in it.
LEMMA LogFacts ==
    ASSUME LogTypes
    PROVE  /\ IsFiniteSet(DOMAIN log)
           /\ \A i \in DOMAIN log : LoginTimes[i] = log[i].at /\ LoginTimes[i] \in Nat
           /\ \A x : Counted(x) \subseteq DOMAIN log /\ IsFiniteSet(Counted(x))
<1>1. DOMAIN log = 1..Len(log) /\ Len(log) \in Nat
  BY DEF LogTypes
<1>2. IsFiniteSet(DOMAIN log)
  BY <1>1, FS_Interval
<1>3. \A i \in DOMAIN log : LoginTimes[i] = log[i].at /\ LoginTimes[i] \in Nat
  <2>1. \A i \in DOMAIN log : log[i] \in LoginEntry
    BY DEF LogTypes
  <2> QED BY <2>1 DEF LoginEntry, LoginTimes
<1>4. \A x : Counted(x) \in SUBSET DOMAIN log
  BY DEF Counted
<1> QED BY <1>2, <1>3, <1>4, FS_Subset

\* Forgetting takes attempts out of the count and changes nothing else.
LEMMA ForgottenLog ==
    ASSUME LogTypes, NEW S
    PROVE  /\ Limiter!Forget(S) \in Seq(LoginEntry) /\ Len(Limiter!Forget(S)) = Len(log)
           /\ DOMAIN Limiter!Forget(S) = DOMAIN log
           /\ \A i \in DOMAIN log :
                /\ Limiter!Forget(S)[i].at = log[i].at /\ Limiter!Forget(S)[i].src = log[i].src
                /\ Limiter!Forget(S)[i].counted => log[i].counted
                /\ log[i].src \in S => ~Limiter!Forget(S)[i].counted
<1> DEFINE f == Limiter!Forget(S)
<1>1. /\ f = [i \in 1..Len(log) |-> IF log[i].src \in S THEN [log[i] EXCEPT !.counted = FALSE] ELSE log[i]]
      /\ Len(log) \in Nat /\ DOMAIN log = 1..Len(log)
  BY DEF LogTypes, Limiter!Forget
<1>2. \A i \in 1..Len(log) : log[i] \in LoginEntry
  BY DEF LogTypes
<1>3. \A i \in 1..Len(log) :
         /\ f[i] \in LoginEntry /\ f[i].at = log[i].at /\ f[i].src = log[i].src
         /\ f[i].counted => log[i].counted
         /\ log[i].src \in S => ~f[i].counted
  <2> SUFFICES ASSUME NEW i \in 1..Len(log)
               PROVE  /\ f[i] \in LoginEntry /\ f[i].at = log[i].at /\ f[i].src = log[i].src
                      /\ f[i].counted => log[i].counted
                      /\ log[i].src \in S => ~f[i].counted
    OBVIOUS
  <2>1. log[i] \in LoginEntry
    BY <1>2
  <2>2. CASE log[i].src \in S
    <3>1. f[i] = [log[i] EXCEPT !.counted = FALSE]
      BY <1>1, <2>2
    <3>2. \A e \in LoginEntry : LET d == [e EXCEPT !.counted = FALSE]
                              IN  d \in LoginEntry /\ d.at = e.at /\ d.src = e.src /\ ~d.counted
      BY DEF LoginEntry
    <3> HIDE DEF f
    <3> QED BY <2>1, <3>1, <3>2
  <2>3. CASE log[i].src \notin S
    <3>1. f[i] = log[i]
      BY <1>1, <2>3
    <3> QED BY <2>1, <2>3, <3>1
  <2> QED BY <2>2, <2>3
<1>4. f \in Seq(LoginEntry) /\ Len(f) = Len(log) /\ DOMAIN f = DOMAIN log
  BY <1>1, <1>3
<1> QED BY <1>1, <1>3, <1>4

\* The global window as Allow sees it, and the sources that are left then.
LEMMA GlobalRenewed ==
    ASSUME LimiterConstants, LimiterInv
    PROVE  /\ Limiter!CurrentGlobal \in [started : Nat, n : Nat]
           /\ Limiter!CurrentGlobal.started <= lnow
           /\ lnow < Limiter!CurrentGlobal.started + LoginWindow
           /\ Fits(DOMAIN log, LoginTimes, Limiter!CurrentGlobal.started, Limiter!CurrentGlobal.n, GlobalLimit)
<1> DEFINE g == Limiter!CurrentGlobal
<1>1. /\ global \in [started : Int, n : Nat] /\ global.started <= lnow /\ lnow \in Nat
      /\ Fits(DOMAIN log, LoginTimes, global.started, global.n, GlobalLimit)
  BY DEF LimiterInv, GlobalInv, LogTypes
<1>2. LoginWindow \in Nat \ {0} /\ GlobalLimit \in Nat
  BY DEF LimiterConstants
<1>3. CASE global.started < 0
  <2>1. g = [started |-> lnow, n |-> 0]
    BY <1>3 DEF Limiter!CurrentGlobal
  <2>2. DOMAIN log = {}
    BY <1>3 DEF LimiterInv, GlobalInv
  <2>3. Late({}, LoginTimes, lnow) = {} /\ Early({}, LoginTimes, lnow) = {}
    BY DEF Late, Early
  <2>4. Fits({}, LoginTimes, lnow, 0, GlobalLimit)
    BY <1>2, <2>3, FS_EmptySet DEF Fits
  <2> QED BY <2>1, <2>2, <2>4, <1>1, <1>2
<1>4. CASE global.started >= 0 /\ lnow - global.started >= LoginWindow
  <2>1. g = [started |-> lnow, n |-> 0]
    BY <1>4 DEF Limiter!CurrentGlobal
  <2>2. IsFiniteSet(DOMAIN log) /\ \A i \in DOMAIN log : LoginTimes[i] \in Nat
    BY LogFacts DEF LimiterInv
  <2>3. Fits(DOMAIN log, LoginTimes, lnow, 0, GlobalLimit)
    BY <1>1, <1>2, <1>4, <2>2, WindowRenewed
  <2> QED BY <2>1, <2>3, <1>1, <1>2
<1>5. CASE global.started >= 0 /\ ~(lnow - global.started >= LoginWindow)
  <2>1. g = global
    BY <1>5, <1>1 DEF Limiter!CurrentGlobal
  <2> QED BY <2>1, <1>1, <1>2, <1>5
<1> QED BY <1>1, <1>3, <1>4, <1>5

LEMMA SourcesRenewed ==
    ASSUME LimiterConstants, LimiterInv
    PROVE  /\ Limiter!CurrentSources \in [DOMAIN Limiter!CurrentSources -> [started : Nat, seen : Nat, n : Nat]]
           /\ IsFiniteSet(DOMAIN Limiter!CurrentSources)
           /\ Cardinality(DOMAIN Limiter!CurrentSources) <= MaxSources
           /\ \A x \in DOMAIN Limiter!CurrentSources :
                /\ x \in DOMAIN sources /\ Limiter!CurrentSources[x] = sources[x]
                /\ lnow < sources[x].started + LoginWindow
           /\ \A x \in Client : x \notin DOMAIN Limiter!CurrentSources => IsOver(x)
<1> DEFINE m == Limiter!CurrentSources
           kept == {s \in DOMAIN sources : lnow - sources[s].started < LoginWindow}
<1>1. m = [s \in kept |-> sources[s]]
  BY DEF Limiter!CurrentSources
<1>2. /\ sources \in [DOMAIN sources -> [started : Nat, seen : Nat, n : Nat]] /\ lnow \in Nat
      /\ IsFiniteSet(DOMAIN sources) /\ Cardinality(DOMAIN sources) <= MaxSources
  BY DEF LimiterInv, SourceTable, LogTypes
<1>3. LoginWindow \in Nat \ {0} /\ MaxSources \in Nat /\ PerSourceLimit \in Nat
  BY DEF LimiterConstants
<1>4. DOMAIN m = kept /\ m \in [kept -> [started : Nat, seen : Nat, n : Nat]]
  BY <1>1, <1>2
<1>5. IsFiniteSet(kept) /\ Cardinality(kept) <= MaxSources
  <2>1. kept \in SUBSET DOMAIN sources
    OBVIOUS
  <2>2. IsFiniteSet(kept) /\ Cardinality(kept) <= Cardinality(DOMAIN sources)
    BY <2>1, <1>2, FS_Subset
  <2>3. Cardinality(kept) \in Nat /\ Cardinality(DOMAIN sources) \in Nat
    BY <2>2, <1>2, FS_CardinalityType
  <2> QED BY <2>2, <2>3, <1>2, <1>3
<1>6. ASSUME NEW x \in kept
      PROVE  x \in DOMAIN sources /\ m[x] = sources[x] /\ lnow < sources[x].started + LoginWindow
  <2>1. sources[x].started \in Nat /\ lnow - sources[x].started < LoginWindow
    BY <1>2
  <2> QED BY <2>1, <1>1, <1>2, <1>3
<1>7. ASSUME NEW x \in Client, x \notin kept PROVE IsOver(x)
  <2>1. CASE x \notin DOMAIN sources
    BY <2>1 DEF LimiterInv, SourceInv
  <2>2. CASE x \in DOMAIN sources
    <3>1. /\ sources[x].started \in Nat /\ sources[x].n \in Nat /\ ~(lnow - sources[x].started < LoginWindow)
      BY <2>2, <1>2, <1>7
    <3>2. sources[x].started + LoginWindow <= lnow
      BY <3>1, <1>2, <1>3
    <3>3. Fits(Counted(x), LoginTimes, sources[x].started, sources[x].n, PerSourceLimit)
      BY <2>2 DEF LimiterInv, SourceInv, InTable
    <3>4. IsFiniteSet(Late(Counted(x), LoginTimes, sources[x].started))
      <4>1. Late(Counted(x), LoginTimes, sources[x].started) \in SUBSET Counted(x) /\ IsFiniteSet(Counted(x))
        BY LogFacts DEF Late, LimiterInv
      <4> QED BY <4>1, FS_Subset
    <3>5. Cardinality(Late(Counted(x), LoginTimes, sources[x].started)) \in Nat
      BY <3>4, FS_CardinalityType
    <3>6. Fits(Counted(x), LoginTimes, sources[x].started, PerSourceLimit, PerSourceLimit)
      BY <3>1, <3>3, <3>5, <1>3 DEF Fits
    <3> QED BY <3>1, <3>2, <3>6 DEF IsOver
  <2> QED BY <2>1, <2>2
<1> QED BY <1>4, <1>5, <1>6, <1>7

\* A source that got no attempt in this step, with its window as it was.
LEMMA SourceKept ==
    ASSUME LimiterConstants, LogTypes, LogTypes', lnow <= lnow', NEW x,
           Counted(x)' \subseteq Counted(x), \A i \in DOMAIN log : LoginTimes'[i] = LoginTimes[i],
           Spread(Counted(x), LoginTimes, PerSourceLimit)
    PROVE  /\ Spread(Counted(x), LoginTimes, PerSourceLimit)'
           /\ IsOver(x) => IsOver(x)'
           /\ /\ sources[x].started \in Nat /\ sources[x].n \in Nat /\ InTable(x)
              /\ sources'[x].started = sources[x].started /\ sources'[x].n = sources[x].n
              => InTable(x)'
<1>1. /\ IsFiniteSet(Counted(x)) /\ Counted(x)' \in SUBSET Counted(x) /\ Counted(x) \subseteq DOMAIN log
      /\ \A i \in Counted(x)' : LoginTimes'[i] = LoginTimes[i]
  BY LogFacts
<1>2. PerSourceLimit \in Nat /\ LoginWindow \in Nat /\ lnow \in Nat /\ lnow' \in Nat
  BY DEF LimiterConstants, LogTypes
<1>3. Spread(Counted(x)', LoginTimes', PerSourceLimit)
  BY <1>1, <1>2, FewerSpread
<1>4. ASSUME NEW st \in Int, NEW n \in Nat, Fits(Counted(x), LoginTimes, st, n, PerSourceLimit)
      PROVE  Fits(Counted(x)', LoginTimes', st, n, PerSourceLimit)
  BY <1>1, <1>2, <1>4, FewerFit
<1>5. ASSUME IsOver(x) PROVE IsOver(x)'
  <2>1. PICK st \in Int : /\ st + LoginWindow <= lnow
                          /\ Fits(Counted(x), LoginTimes, st, PerSourceLimit, PerSourceLimit)
    BY <1>5 DEF IsOver
  <2>2. Fits(Counted(x)', LoginTimes', st, PerSourceLimit, PerSourceLimit) /\ st + LoginWindow <= lnow'
    BY <2>1, <1>2, <1>4
  <2> QED BY <2>2 DEF IsOver
<1>6. ASSUME sources[x].started \in Nat, sources[x].n \in Nat, InTable(x),
             sources'[x].started = sources[x].started, sources'[x].n = sources[x].n
      PROVE  InTable(x)'
  <2>1. Fits(Counted(x)', LoginTimes', sources[x].started, sources[x].n, PerSourceLimit)
    BY <1>4, <1>6 DEF InTable
  <2>2. sources[x].started <= lnow'
    BY <1>2, <1>6 DEF InTable
  <2> QED BY <2>1, <2>2, <1>6 DEF InTable
<1>7. Spread(Counted(x), LoginTimes, PerSourceLimit)'
  BY <1>3
<1> QED BY <1>5, <1>6, <1>7

LEMMA RefusedStep ==
    ASSUME LimiterConstants, LimiterInv, NEW s \in Client, Limiter!Refused(s)
    PROVE  LimiterInv'
<1> DEFINE g == Limiter!CurrentGlobal
           m == Limiter!CurrentSources
<1>1. global' = g /\ log' = log /\ lnow' = lnow
  BY DEF Limiter!Refused
<1>2. /\ sources' \in [DOMAIN m -> [started : Nat, seen : Nat, n : Nat]]
      /\ \A x \in DOMAIN m : sources'[x].started = m[x].started /\ sources'[x].n = m[x].n
  <2>1. m \in [DOMAIN m -> [started : Nat, seen : Nat, n : Nat]] /\ lnow \in Nat
    BY SourcesRenewed DEF LimiterInv, LogTypes
  <2>2. sources' = m \/ (s \in DOMAIN m /\ sources' = [m EXCEPT ![s].seen = lnow])
    BY DEF Limiter!Refused
  <2> HIDE DEF m
  <2> QED BY <2>1, <2>2
<1>3. /\ LogTypes /\ LogTypes' /\ DOMAIN log' = DOMAIN log /\ LoginTimes' = LoginTimes
      /\ \A x \in Client : Counted(x)' = Counted(x)
  BY <1>1 DEF LimiterInv, LogTypes, LoginTimes, Counted
<1>4. GlobalInv'
  <2>1. /\ g \in [started : Nat, n : Nat] /\ g.started <= lnow
        /\ Fits(DOMAIN log, LoginTimes, g.started, g.n, GlobalLimit)
    BY GlobalRenewed
  <2>2. Spread(DOMAIN log, LoginTimes, GlobalLimit)
    BY DEF LimiterInv, GlobalInv
  <2> HIDE DEF g
  <2> QED BY <1>1, <1>3, <2>1, <2>2 DEF GlobalInv
<1>5. SourceTable' /\ DOMAIN sources' = DOMAIN m
  <2>1. IsFiniteSet(DOMAIN m) /\ Cardinality(DOMAIN m) <= MaxSources
    BY SourcesRenewed
  <2>2. DOMAIN sources' = DOMAIN m
    BY <1>2
  <2> HIDE DEF m
  <2> QED BY <1>2, <2>1, <2>2 DEF SourceTable
<1>6. ASSUME NEW x \in Client PROVE SourceInv(x)'
  <2>1. /\ SourceInv(x) /\ lnow \in Nat /\ lnow <= lnow' /\ Counted(x)' \subseteq Counted(x)
        /\ \A i \in DOMAIN log : LoginTimes'[i] = LoginTimes[i]
    BY <1>1, <1>3 DEF LimiterInv, LogTypes
  <2>2. Spread(Counted(x), LoginTimes, PerSourceLimit)
    BY <2>1 DEF SourceInv
  <2>3. Spread(Counted(x), LoginTimes, PerSourceLimit)' /\ (IsOver(x) => IsOver(x)')
    BY <1>3, <2>1, <2>2, SourceKept
  <2>4. CASE x \in DOMAIN m
    <3>1. /\ x \in DOMAIN sources /\ m[x] = sources[x] /\ InTable(x)
          /\ sources[x].started \in Nat /\ sources[x].n \in Nat
      BY <2>1, <2>4, SourcesRenewed DEF SourceInv, LimiterInv, SourceTable
    <3>2. sources'[x].started = sources[x].started /\ sources'[x].n = sources[x].n
      BY <1>2, <2>4, <3>1
    <3>3. InTable(x)'
      BY <1>3, <2>1, <2>2, <3>1, <3>2, SourceKept
    <3> QED BY <1>5, <2>3, <2>4, <3>3 DEF SourceInv
  <2>5. CASE x \notin DOMAIN m
    <3>1. IsOver(x)'
      BY <2>3, <2>5, SourcesRenewed
    <3> QED BY <1>5, <2>3, <2>5, <3>1 DEF SourceInv
  <2> QED BY <2>4, <2>5
<1> QED BY <1>3, <1>4, <1>5, <1>6 DEF LimiterInv

\* A source none of whose attempts counts any more has a window that is over.
LEMMA NothingCounted ==
    ASSUME LimiterConstants, LogTypes', NEW x, Counted(x)' = {}
    PROVE  IsOver(x)'
<1>1. PerSourceLimit \in Nat /\ LoginWindow \in Nat /\ lnow' \in Nat
  BY DEF LimiterConstants, LogTypes
<1>2. Late({}, LoginTimes', lnow' - LoginWindow) = {} /\ Early({}, LoginTimes', lnow' - LoginWindow) = {}
  BY DEF Late, Early
<1>3. Fits({}, LoginTimes', lnow' - LoginWindow, PerSourceLimit, PerSourceLimit)
  BY <1>1, <1>2, FS_EmptySet DEF Fits
<1>4. lnow' - LoginWindow \in Int /\ (lnow' - LoginWindow) + LoginWindow <= lnow'
  <2>1. \A a, b \in Nat : a - b \in Int /\ (a - b) + b <= a
    OBVIOUS
  <2> QED BY <1>1, <2>1
<1>5. Fits(Counted(x)', LoginTimes', lnow' - LoginWindow, PerSourceLimit, PerSourceLimit)
  BY <1>3, Zenon
<1> QED BY <1>4, <1>5 DEF IsOver

\* The log after an attempt of s; base is the log without what was evicted.
LEMMA AppendedLog ==
    ASSUME LogTypes, NEW s \in Client, NEW base \in Seq(LoginEntry), Len(base) = Len(log),
           \A i \in DOMAIN log : /\ base[i].at = log[i].at /\ base[i].src = log[i].src
                                 /\ base[i].counted => log[i].counted,
           log' = Append(base, [src |-> s, at |-> lnow, counted |-> TRUE]), lnow' = lnow
    PROVE  /\ LogTypes'
           /\ DOMAIN log' = DOMAIN log \cup {Len(log) + 1} /\ Len(log) + 1 \notin DOMAIN log
           /\ LoginTimes'[Len(log) + 1] = lnow
           /\ \A i \in DOMAIN log : LoginTimes'[i] = LoginTimes[i]
           /\ \A x : Counted(x)' \subseteq Counted(x) \cup {Len(log) + 1}
           /\ \A x : x # s => Counted(x)' \subseteq Counted(x)
           /\ \A x : x # s /\ (\A i \in DOMAIN log : log[i].src = x => ~base[i].counted)
                     => Counted(x)' = {}
<1> DEFINE k == Len(log) + 1
           new == [src |-> s, at |-> lnow, counted |-> TRUE]
<1>1. new \in LoginEntry /\ Len(log) \in Nat /\ lnow \in Nat /\ DOMAIN log = 1..Len(log)
  BY DEF LogTypes, LoginEntry
<1>2. new.src = s /\ new.at = lnow
  OBVIOUS
<1> HIDE DEF new
<1>3. /\ log' \in Seq(LoginEntry) /\ DOMAIN log' = 1..k /\ log'[k] = new
      /\ \A i \in 1..Len(log) : log'[i] = base[i]
  BY <1>1 DEF new
<1>4. LogTypes' /\ DOMAIN log' = DOMAIN log \cup {k} /\ k \notin DOMAIN log
  BY <1>1, <1>3 DEF LogTypes
<1>5. LoginTimes'[k] = lnow
  BY <1>2, <1>3, <1>4 DEF LoginTimes
<1>6. \A i \in DOMAIN log : LoginTimes'[i] = LoginTimes[i]
  BY <1>1, <1>3, <1>4 DEF LoginTimes
<1>7. \A x : Counted(x)' \subseteq Counted(x) \cup {k}
  BY <1>1, <1>3, <1>4 DEF Counted
<1>8. \A x : x # s => Counted(x)' \subseteq Counted(x)
  BY <1>1, <1>2, <1>3, <1>4 DEF Counted
<1>9. ASSUME NEW x, x # s, \A i \in DOMAIN log : log[i].src = x => ~base[i].counted
      PROVE  Counted(x)' = {}
  BY <1>1, <1>2, <1>3, <1>4, <1>9 DEF Counted
<1> QED BY <1>4, <1>5, <1>6, <1>7, <1>8, <1>9

\* LoginLimiter's Cardinality is that of FiniteSets.
LEMMA SameCardinality == \A S : Limiter!Cardinality(S) = Cardinality(S)
BY Zenon DEF Limiter!Cardinality, Cardinality

\* Making room: a full table gives up one source.
LEMMA RoomForOne ==
    ASSUME LimiterConstants, NEW m, IsFiniteSet(DOMAIN m), Cardinality(DOMAIN m) <= MaxSources,
           NEW keep \in Limiter!WithCapacity(m), NEW s
    PROVE  /\ keep \subseteq DOMAIN m
           /\ IsFiniteSet(keep \cup {s}) /\ Cardinality(keep \cup {s}) <= MaxSources
<1>1. Cardinality(DOMAIN m) \in Nat /\ MaxSources \in Nat
  BY FS_CardinalityType DEF LimiterConstants
<1>2. keep \subseteq DOMAIN m /\ IsFiniteSet(keep) /\ Cardinality(keep) \in Nat /\ Cardinality(keep) < MaxSources
  <2>1. CASE Cardinality(DOMAIN m) < MaxSources
    <3>1. Limiter!WithCapacity(m) = {DOMAIN m}
      BY <2>1, SameCardinality DEF Limiter!WithCapacity
    <3> QED BY <1>1, <2>1, <3>1
  <2>2. CASE ~(Cardinality(DOMAIN m) < MaxSources)
    <3>1. PICK z \in DOMAIN m : keep = DOMAIN m \ {z}
      <4>1. Limiter!WithCapacity(m)
              = {DOMAIN m \ {z} : z \in {x \in DOMAIN m : \A y \in DOMAIN m : m[x].seen <= m[y].seen}}
        BY <2>2, SameCardinality DEF Limiter!WithCapacity
      <4> QED BY <4>1
    <3>2. IsFiniteSet(keep) /\ Cardinality(keep) = Cardinality(DOMAIN m) - 1
      BY <3>1, FS_RemoveElement
    <3>3. Cardinality(keep) \in Nat
      BY <3>2, FS_CardinalityType
    <3> QED BY <1>1, <3>1, <3>2, <3>3
  <2> QED BY <2>1, <2>2
<1>3. IsFiniteSet(keep \cup {s}) /\ Cardinality(keep \cup {s}) <= Cardinality(keep) + 1
  BY <1>2, FS_AddElement
<1>4. Cardinality(keep \cup {s}) \in Nat
  BY <1>3, FS_CardinalityType
<1> QED BY <1>1, <1>2, <1>3, <1>4

\* An attempt that is let through: what it does to the source it comes from,
\* and that it leaves the others as they were or, evicted, without a count.
LEMMA AllowedStep ==
    ASSUME LimiterConstants, LimiterInv, NEW s \in Client, Limiter!Allowed(s)
    PROVE  LimiterInv'
<1> DEFINE g == Limiter!CurrentGlobal
           m == Limiter!CurrentSources
           k == Len(log) + 1
           fresh == [started |-> lnow, seen |-> lnow, n |-> 1]
           more == [m EXCEPT ![s].n = @ + 1, ![s].seen = lnow]
<1>1. g.n < GlobalLimit /\ global' = [g EXCEPT !.n = @ + 1] /\ lnow' = lnow
  BY DEF Limiter!Allowed
<1>2. LogTypes /\ lnow \in Nat /\ lnow <= lnow' /\ IsFiniteSet(DOMAIN log)
      /\ \A i \in DOMAIN log : LoginTimes[i] \in Nat
  BY <1>1, LogFacts DEF LimiterInv, LogTypes
<1>3. LoginWindow \in Nat \ {0} /\ PerSourceLimit \in Nat \ {0} /\ GlobalLimit \in Nat \ {0}
  BY DEF LimiterConstants
<1>4. /\ m \in [DOMAIN m -> [started : Nat, seen : Nat, n : Nat]]
      /\ IsFiniteSet(DOMAIN m) /\ Cardinality(DOMAIN m) <= MaxSources
      /\ \A x \in DOMAIN m : /\ x \in DOMAIN sources /\ m[x] = sources[x]
                             /\ lnow < sources[x].started + LoginWindow
      /\ \A x \in Client : x \notin DOMAIN m => IsOver(x)
  BY SourcesRenewed
<1>5. /\ g \in [started : Nat, n : Nat] /\ g.started <= lnow /\ lnow < g.started + LoginWindow
      /\ Fits(DOMAIN log, LoginTimes, g.started, g.n, GlobalLimit)
  BY GlobalRenewed
<1>6. PICK keep, base :
        /\ keep \subseteq DOMAIN m
        /\ IsFiniteSet(keep \cup {s}) /\ Cardinality(keep \cup {s}) <= MaxSources
        /\ base \in Seq(LoginEntry) /\ Len(base) = Len(log)
        /\ \A i \in DOMAIN log : /\ base[i].at = log[i].at /\ base[i].src = log[i].src
                                 /\ base[i].counted => log[i].counted
                                 /\ log[i].src \in DOMAIN m \ keep => ~base[i].counted
        /\ log' = Append(base, [src |-> s, at |-> lnow, counted |-> TRUE])
        /\ \/ keep = DOMAIN m /\ s \in DOMAIN m /\ m[s].n < PerSourceLimit /\ sources' = more
           \/ s \notin DOMAIN m /\ sources' = [x \in keep \cup {s} |-> IF x = s THEN fresh ELSE m[x]]
  <2> HIDE DEF m
  <2>1. CASE /\ s \in DOMAIN m /\ m[s].n < PerSourceLimit /\ sources' = more
             /\ log' = Append(log, [src |-> s, at |-> lnow, counted |-> TRUE])
    <3>1. DOMAIN m \cup {s} = DOMAIN m /\ DOMAIN m \ DOMAIN m = {}
      BY <2>1
    <3>2. log \in Seq(LoginEntry)
      BY <1>2 DEF LogTypes
    <3> QED BY <2>1, <3>1, <3>2, <1>4
  <2>2. CASE /\ s \notin DOMAIN m
             /\ \E kp \in Limiter!WithCapacity(m) :
                  /\ sources' = Limiter!Set(m, kp, s, fresh)
                  /\ log' = Append(Limiter!Forget(DOMAIN m \ kp), [src |-> s, at |-> lnow, counted |-> TRUE])
    <3>1. PICK kp \in Limiter!WithCapacity(m) :
             /\ sources' = Limiter!Set(m, kp, s, fresh)
             /\ log' = Append(Limiter!Forget(DOMAIN m \ kp), [src |-> s, at |-> lnow, counted |-> TRUE])
      BY <2>2
    <3>2. kp \subseteq DOMAIN m /\ IsFiniteSet(kp \cup {s}) /\ Cardinality(kp \cup {s}) <= MaxSources
      BY <1>4, RoomForOne
    <3>3. /\ Limiter!Forget(DOMAIN m \ kp) \in Seq(LoginEntry)
          /\ Len(Limiter!Forget(DOMAIN m \ kp)) = Len(log)
          /\ \A i \in DOMAIN log :
               /\ Limiter!Forget(DOMAIN m \ kp)[i].at = log[i].at
               /\ Limiter!Forget(DOMAIN m \ kp)[i].src = log[i].src
               /\ Limiter!Forget(DOMAIN m \ kp)[i].counted => log[i].counted
               /\ log[i].src \in DOMAIN m \ kp => ~Limiter!Forget(DOMAIN m \ kp)[i].counted
      BY <1>2, ForgottenLog
    <3>4. sources' = [x \in kp \cup {s} |-> IF x = s THEN fresh ELSE m[x]]
      BY <3>1 DEF Limiter!Set
    <3> HIDE DEF fresh
    <3> QED BY <2>2, <3>1, <3>2, <3>3, <3>4
  <2>3. \/ /\ s \in DOMAIN m /\ m[s].n < PerSourceLimit /\ sources' = more
           /\ log' = Append(log, [src |-> s, at |-> lnow, counted |-> TRUE])
        \/ /\ s \notin DOMAIN m
           /\ \E kp \in Limiter!WithCapacity(m) :
                /\ sources' = Limiter!Set(m, kp, s, fresh)
                /\ log' = Append(Limiter!Forget(DOMAIN m \ kp), [src |-> s, at |-> lnow, counted |-> TRUE])
    BY DEF Limiter!Allowed, m
  <2> QED BY <2>1, <2>2, <2>3
<1>7. /\ LogTypes' /\ DOMAIN log' = DOMAIN log \cup {k} /\ k \notin DOMAIN log
      /\ LoginTimes'[k] = lnow /\ \A i \in DOMAIN log : LoginTimes'[i] = LoginTimes[i]
  BY <1>1, <1>2, <1>6, AppendedLog
<1>8. /\ Counted(s)' \subseteq Counted(s) \cup {k}
      /\ \A x : x # s => Counted(x)' \subseteq Counted(x)
      /\ \A x \in DOMAIN m \ keep : x # s => Counted(x)' = {}
  BY <1>1, <1>2, <1>6, AppendedLog
<1>9. /\ DOMAIN sources' = keep \cup {s} /\ sources' \in [keep \cup {s} -> [started : Nat, seen : Nat, n : Nat]]
      /\ \A x \in keep : x # s => sources'[x] = m[x]
      /\ s \in DOMAIN m => /\ s \in keep /\ m[s].n < PerSourceLimit
                           /\ sources'[s].started = m[s].started /\ sources'[s].n = m[s].n + 1
      /\ s \notin DOMAIN m => sources'[s].started = lnow /\ sources'[s].n = 1
  <2> HIDE DEF m, k
  <2>1. CASE keep = DOMAIN m /\ s \in DOMAIN m /\ m[s].n < PerSourceLimit /\ sources' = more
    <3>1. m[s] \in [started : Nat, seen : Nat, n : Nat] /\ keep \cup {s} = DOMAIN m
      BY <1>4, <1>6, <2>1
    <3>2. DOMAIN more = DOMAIN m /\ \A x \in DOMAIN m : x # s => more[x] = m[x]
      BY <1>4
    <3>3. more[s] = [[m[s] EXCEPT !.n = @ + 1] EXCEPT !.seen = lnow]
      BY <1>4, <2>1
    <3>4. \A r \in [started : Nat, seen : Nat, n : Nat] :
            LET q == [[r EXCEPT !.n = @ + 1] EXCEPT !.seen = lnow]
            IN  q \in [started : Nat, seen : Nat, n : Nat] /\ q.started = r.started /\ q.n = r.n + 1
      <4> SUFFICES ASSUME NEW r \in [started : Nat, seen : Nat, n : Nat]
                   PROVE  LET q == [[r EXCEPT !.n = @ + 1] EXCEPT !.seen = lnow]
                          IN  /\ q \in [started : Nat, seen : Nat, n : Nat]
                              /\ q.started = r.started /\ q.n = r.n + 1
        OBVIOUS
      <4> DEFINE u == [r EXCEPT !.n = @ + 1]
      <4>0. u \in [started : Nat, seen : Nat, n : Nat] /\ u.started = r.started /\ u.n = r.n + 1
        OBVIOUS
      <4> HIDE DEF u
      <4>1. [u EXCEPT !.seen = lnow] = [started |-> r.started, seen |-> lnow, n |-> r.n + 1]
        BY <4>0
      <4> DEFINE v == [started |-> r.started, seen |-> lnow, n |-> r.n + 1]
      <4>2. v \in [started : Nat, seen : Nat, n : Nat] /\ v.started = r.started /\ v.n = r.n + 1
        BY <1>2
      <4>3. [[r EXCEPT !.n = @ + 1] EXCEPT !.seen = lnow] = v
        BY <4>1, Zenon DEF u
      <4> QED BY <4>2, <4>3, Zenon
    <3>5. /\ more[s] \in [started : Nat, seen : Nat, n : Nat]
          /\ more[s].started = m[s].started /\ more[s].n = m[s].n + 1
      BY <3>1, <3>3, <3>4
    <3>6. more \in [DOMAIN m -> [started : Nat, seen : Nat, n : Nat]]
      BY <3>2, <3>5, <1>4
    <3> HIDE DEF more
    <3> QED BY <2>1, <3>1, <3>2, <3>5, <3>6, <1>6
  <2>2. CASE s \notin DOMAIN m /\ sources' = [x \in keep \cup {s} |-> IF x = s THEN fresh ELSE m[x]]
    <3>1. fresh \in [started : Nat, seen : Nat, n : Nat] /\ fresh.started = lnow /\ fresh.n = 1
      BY <1>2
    <3> HIDE DEF fresh
    <3> QED BY <2>2, <3>1, <1>4, <1>6
  <2> QED BY <2>1, <2>2, <1>6
<1> HIDE DEF g, m, k
<1>10. GlobalInv'
  <2>1. DOMAIN log' \in SUBSET (DOMAIN log \cup {k}) /\ \A i \in DOMAIN log' : i # k => LoginTimes'[i] = LoginTimes[i]
    BY <1>7
  <2>2. Spread(DOMAIN log, LoginTimes, GlobalLimit)
    BY DEF LimiterInv, GlobalInv
  <2>3. g.started \in Int /\ g.n \in Nat
    BY <1>5
  <2>4. /\ Fits(DOMAIN log', LoginTimes', g.started, g.n + 1, GlobalLimit)
        /\ Spread(DOMAIN log', LoginTimes', GlobalLimit)
    BY <1>1, <1>2, <1>3, <1>5, <1>7, <2>1, <2>2, <2>3, OneMoreFits
  <2>5. /\ global' \in [started : Int, n : Nat] /\ global'.started = g.started /\ global'.n = g.n + 1
        /\ global'.started <= lnow' /\ ~(global'.started < 0)
    BY <1>1, <1>2, <1>5
  <2> QED BY <2>4, <2>5 DEF GlobalInv
<1>11. SourceTable'
  BY <1>6, <1>9 DEF SourceTable
<1>12. ASSUME NEW x \in Client, x # s PROVE SourceInv(x)'
  <2>1. /\ Counted(x)' \subseteq Counted(x) /\ SourceInv(x)
        /\ \A i \in DOMAIN log : LoginTimes'[i] = LoginTimes[i]
    BY <1>7, <1>8, <1>12 DEF LimiterInv
  <2>2. Spread(Counted(x), LoginTimes, PerSourceLimit)
    BY <2>1 DEF SourceInv
  <2>3. Spread(Counted(x), LoginTimes, PerSourceLimit)' /\ (IsOver(x) => IsOver(x)')
    BY <1>2, <1>7, <2>1, <2>2, SourceKept
  <2>4. CASE x \in keep
    <3>1. /\ x \in DOMAIN sources /\ m[x] = sources[x] /\ InTable(x) /\ x \in DOMAIN m
          /\ sources[x].started \in Nat /\ sources[x].n \in Nat
      BY <2>1, <2>4, <1>4, <1>6 DEF SourceInv, LimiterInv, SourceTable
    <3>2. sources'[x].started = sources[x].started /\ sources'[x].n = sources[x].n
      BY <1>9, <1>12, <2>4, <3>1
    <3>3. InTable(x)'
      BY <1>2, <1>7, <2>1, <2>2, <3>1, <3>2, SourceKept
    <3> QED BY <1>9, <2>3, <2>4, <3>3 DEF SourceInv
  <2>5. CASE x \in DOMAIN m \ keep
    <3>1. IsOver(x)'
      BY <1>7, <1>8, <1>12, <2>5, NothingCounted
    <3> QED BY <1>9, <1>12, <2>3, <2>5, <3>1 DEF SourceInv
  <2>6. CASE x \notin DOMAIN m
    <3>1. IsOver(x)'
      BY <1>4, <2>3, <2>6
    <3> QED BY <1>6, <1>9, <1>12, <2>3, <2>6, <3>1 DEF SourceInv
  <2> QED BY <2>4, <2>5, <2>6
<1>13. SourceInv(s)'
  <2>1. /\ IsFiniteSet(Counted(s)) /\ Counted(s) \subseteq DOMAIN log /\ k \notin Counted(s)
        /\ \A i \in Counted(s) : LoginTimes[i] \in Nat
        /\ Counted(s)' \in SUBSET (Counted(s) \cup {k})
        /\ \A i \in Counted(s)' : i # k => LoginTimes'[i] = LoginTimes[i]
    BY <1>2, <1>7, <1>8, LogFacts
  <2>2. Spread(Counted(s), LoginTimes, PerSourceLimit)
    BY DEF LimiterInv, SourceInv
  <2>3. PICK st \in Int, n \in Nat :
           /\ st <= lnow /\ lnow < st + LoginWindow /\ n < PerSourceLimit
           /\ sources'[s].started = st /\ sources'[s].n = n + 1
           /\ Fits(Counted(s), LoginTimes, st, n, PerSourceLimit)
    <3>1. CASE s \in DOMAIN m
      <4>1. /\ s \in DOMAIN sources /\ m[s] = sources[s] /\ InTable(s)
            /\ sources[s].started \in Nat /\ sources[s].n \in Nat
            /\ lnow < sources[s].started + LoginWindow
        BY <3>1, <1>4 DEF SourceInv, LimiterInv, SourceTable
      <4>2. sources'[s].started = sources[s].started /\ sources'[s].n = sources[s].n + 1
            /\ sources[s].n < PerSourceLimit
        BY <1>9, <3>1, <4>1
      <4> QED BY <4>1, <4>2 DEF InTable
    <3>2. CASE s \notin DOMAIN m
      <4>1. PICK st \in Int : /\ st + LoginWindow <= lnow
                              /\ Fits(Counted(s), LoginTimes, st, PerSourceLimit, PerSourceLimit)
        BY <1>4, <3>2 DEF IsOver
      <4>2. Fits(Counted(s), LoginTimes, lnow, 0, PerSourceLimit)
        BY <1>2, <1>3, <2>1, <4>1, WindowRenewed
      <4>3. sources'[s].started = lnow /\ sources'[s].n = 0 + 1
        BY <1>9, <3>2
      <4> QED BY <1>2, <1>3, <4>2, <4>3
    <3> QED BY <3>1, <3>2
  <2>4. /\ Fits(Counted(s)', LoginTimes', st, n + 1, PerSourceLimit)
        /\ Spread(Counted(s)', LoginTimes', PerSourceLimit)
    BY <1>2, <1>3, <1>7, <2>1, <2>2, <2>3, OneMoreFits
  <2>5. InTable(s)'
    BY <1>1, <2>3, <2>4 DEF InTable
  <2>6. Spread(Counted(s), LoginTimes, PerSourceLimit)'
    BY <2>4
  <2> QED BY <1>9, <2>5, <2>6 DEF SourceInv
<1> QED BY <1>7, <1>10, <1>11, <1>12, <1>13 DEF LimiterInv

LEMMA SucceedsStep ==
    ASSUME LimiterConstants, LimiterInv, NEW s \in Client, Limiter!LoginSucceeds(s)
    PROVE  LimiterInv'
<1>1. /\ sources' = [x \in DOMAIN sources \ {s} |-> sources[x]] /\ log' = Limiter!Forget({s})
      /\ lnow' = lnow /\ global' = global
  BY DEF Limiter!LoginSucceeds
<1>2. /\ LogTypes /\ lnow \in Nat /\ lnow <= lnow' /\ IsFiniteSet(DOMAIN log)
      /\ \A i \in DOMAIN log : LoginTimes[i] = log[i].at
  BY <1>1, LogFacts DEF LimiterInv, LogTypes
<1>3. /\ log' \in Seq(LoginEntry) /\ DOMAIN log' = DOMAIN log
      /\ \A i \in DOMAIN log : /\ log'[i].at = log[i].at /\ log'[i].src = log[i].src
                               /\ log'[i].counted => log[i].counted
                               /\ log[i].src = s => ~log'[i].counted
  BY <1>1, <1>2, ForgottenLog
<1>4. LogTypes' /\ \A i \in DOMAIN log : LoginTimes'[i] = LoginTimes[i]
  BY <1>1, <1>2, <1>3 DEF LogTypes, LoginTimes
<1>5. (\A x : Counted(x)' \subseteq Counted(x)) /\ Counted(s)' = {}
  BY <1>3 DEF Counted
<1>6. GlobalInv'
  <2>1. /\ global \in [started : Int, n : Nat] /\ GlobalLimit \in Nat
        /\ Fits(DOMAIN log, LoginTimes, global.started, global.n, GlobalLimit)
        /\ Spread(DOMAIN log, LoginTimes, GlobalLimit)
        /\ global.started <= lnow /\ (global.started < 0 => log = <<>>)
    BY DEF LimiterInv, GlobalInv, LimiterConstants
  <2>2. /\ Fits(DOMAIN log', LoginTimes', global.started, global.n, GlobalLimit)
        /\ Spread(DOMAIN log', LoginTimes', GlobalLimit)
    BY <1>2, <1>3, <1>4, <2>1, FewerFit, FewerSpread
  <2>3. log = <<>> => log' = <<>>
    BY <1>3
  <2> QED BY <1>1, <2>1, <2>2, <2>3 DEF GlobalInv
<1>7. SourceTable' /\ DOMAIN sources' = DOMAIN sources \ {s}
  <2>1. /\ IsFiniteSet(DOMAIN sources) /\ Cardinality(DOMAIN sources) <= MaxSources /\ MaxSources \in Nat
        /\ sources \in [DOMAIN sources -> [started : Nat, seen : Nat, n : Nat]]
    BY DEF LimiterInv, SourceTable, LimiterConstants
  <2>2. DOMAIN sources \ {s} \in SUBSET DOMAIN sources /\ DOMAIN sources' = DOMAIN sources \ {s}
    BY <1>1
  <2>3. IsFiniteSet(DOMAIN sources') /\ Cardinality(DOMAIN sources') <= Cardinality(DOMAIN sources)
    BY <2>1, <2>2, FS_Subset
  <2>4. Cardinality(DOMAIN sources') \in Nat /\ Cardinality(DOMAIN sources) \in Nat
    BY <2>1, <2>3, FS_CardinalityType
  <2>5. sources' \in [DOMAIN sources' -> [started : Nat, seen : Nat, n : Nat]]
    BY <1>1, <2>1, <2>2
  <2> QED BY <2>1, <2>2, <2>3, <2>4, <2>5 DEF SourceTable
<1>8. ASSUME NEW x \in Client PROVE SourceInv(x)'
  <2>1. SourceInv(x) /\ Spread(Counted(x), LoginTimes, PerSourceLimit)
    BY DEF LimiterInv, SourceInv
  <2>2. Spread(Counted(x), LoginTimes, PerSourceLimit)' /\ (IsOver(x) => IsOver(x)')
    BY <1>2, <1>4, <1>5, <2>1, SourceKept
  <2>3. CASE x = s
    <3>1. IsOver(x)'
      BY <1>4, <1>5, <2>3, NothingCounted
    <3> QED BY <1>7, <2>2, <2>3, <3>1 DEF SourceInv
  <2>4. CASE x # s /\ x \in DOMAIN sources
    <3>1. InTable(x) /\ sources[x].started \in Nat /\ sources[x].n \in Nat /\ sources'[x] = sources[x]
      BY <1>1, <2>1, <2>4 DEF SourceInv, LimiterInv, SourceTable
    <3>2. InTable(x)'
      BY <1>2, <1>4, <1>5, <2>1, <3>1, SourceKept
    <3> QED BY <1>7, <2>2, <2>4, <3>2 DEF SourceInv
  <2>5. CASE x # s /\ x \notin DOMAIN sources
    <3>1. IsOver(x)'
      BY <2>1, <2>2, <2>5 DEF SourceInv
    <3> QED BY <1>7, <2>2, <2>5, <3>1 DEF SourceInv
  <2> QED BY <2>3, <2>4, <2>5
<1> QED BY <1>4, <1>6, <1>7, <1>8 DEF LimiterInv

\* The clock goes on, or nothing changes but which passwords are compared.
LEMMA QuietStep ==
    ASSUME LimiterConstants, LimiterInv, lnow' \in Nat, lnow <= lnow',
           UNCHANGED <<sources, global, log>>
    PROVE  LimiterInv'
<1>1. /\ LogTypes /\ LogTypes' /\ DOMAIN log' = DOMAIN log /\ LoginTimes' = LoginTimes
      /\ \A x \in Client : Counted(x)' = Counted(x)
  BY DEF LimiterInv, LogTypes, LoginTimes, Counted
<1>2. GlobalInv'
  <2>1. global.started \in Int /\ global.started <= lnow'
    BY <1>1 DEF LimiterInv, GlobalInv, LogTypes
  <2> QED BY <1>1, <2>1 DEF LimiterInv, GlobalInv
<1>3. SourceTable'
  BY DEF LimiterInv, SourceTable
<1>4. ASSUME NEW x \in Client PROVE SourceInv(x)'
  <2>1. /\ SourceInv(x) /\ Spread(Counted(x), LoginTimes, PerSourceLimit)
        /\ Counted(x)' \subseteq Counted(x) /\ \A i \in DOMAIN log : LoginTimes'[i] = LoginTimes[i]
    BY <1>1 DEF LimiterInv, SourceInv
  <2>2. Spread(Counted(x), LoginTimes, PerSourceLimit)' /\ (IsOver(x) => IsOver(x)')
    BY <1>1, <2>1, SourceKept
  <2>3. x \in DOMAIN sources => InTable(x)'
    <3> SUFFICES ASSUME x \in DOMAIN sources PROVE InTable(x)'
      OBVIOUS
    <3>1. InTable(x) /\ sources[x].started \in Nat /\ sources[x].n \in Nat
      BY <2>1 DEF SourceInv, LimiterInv, SourceTable
    <3> QED BY <1>1, <2>1, <3>1, SourceKept
  <2> QED BY <2>1, <2>2, <2>3 DEF SourceInv
<1> QED BY <1>1, <1>2, <1>3, <1>4 DEF LimiterInv

LEMMA LimiterStarts == LimiterConstants /\ Limiter!Init => LimiterInv
<1> SUFFICES ASSUME LimiterConstants, Limiter!Init PROVE LimiterInv
  OBVIOUS
<1>1. lnow = 0 /\ sources = <<>> /\ global = [started |-> -1, n |-> 0] /\ log = <<>>
  BY DEF Limiter!Init
<1>2. DOMAIN log = {} /\ DOMAIN sources = {} /\ LogTypes /\ \A x : Counted(x) = {}
  BY <1>1 DEF LogTypes, Counted
<1>3. /\ PerSourceLimit \in Nat /\ GlobalLimit \in Nat /\ LoginWindow \in Nat /\ MaxSources \in Nat
      /\ Cardinality({}) = 0 /\ IsFiniteSet({})
  BY FS_EmptySet DEF LimiterConstants
<1>4. \A at, t : Late({}, at, t) = {} /\ Early({}, at, t) = {} /\ Within({}, at, t) = {}
  BY DEF Late, Early, Within
<1>5. \A at : \A n, L \in Nat, t \in Int : (n <= L => Fits({}, at, t, n, L)) /\ Spread({}, at, L)
  <2> SUFFICES ASSUME NEW at, NEW n \in Nat, NEW L \in Nat, NEW t \in Int
               PROVE  (n <= L => Fits({}, at, t, n, L)) /\ Spread({}, at, L)
    OBVIOUS
  <2>1. Late({}, at, t) = {} /\ Early({}, at, t) = {}
    BY <1>4
  <2>2. n <= L => Fits({}, at, t, n, L)
    BY <1>3, <2>1 DEF Fits
  <2>3. ASSUME NEW u \in Nat PROVE Cardinality(Within({}, at, u)) <= 2 * L
    <3>1. Within({}, at, u) = {}
      BY <1>4
    <3> QED BY <1>3, <3>1
  <2> QED BY <2>2, <2>3 DEF Spread
<1>6. GlobalInv
  <2>1. Fits(DOMAIN log, LoginTimes, -1, 0, GlobalLimit) /\ Spread(DOMAIN log, LoginTimes, GlobalLimit)
    BY <1>2, <1>3, <1>5
  <2> QED BY <1>1, <2>1 DEF GlobalInv
<1>7. SourceTable
  <2>1. Cardinality(DOMAIN sources) <= MaxSources /\ IsFiniteSet(DOMAIN sources)
    BY <1>2, <1>3
  <2> QED BY <1>1, <1>2, <2>1 DEF SourceTable
<1>8. ASSUME NEW x \in Client PROVE SourceInv(x)
  <2>1. /\ Fits(Counted(x), LoginTimes, 0 - LoginWindow, PerSourceLimit, PerSourceLimit)
        /\ Spread(Counted(x), LoginTimes, PerSourceLimit)
    <3>1. Counted(x) = {} /\ 0 - LoginWindow \in Int /\ PerSourceLimit <= PerSourceLimit
      BY <1>2, <1>3
    <3> QED BY <1>3, <1>5, <3>1, Zenon
  <2>2. 0 - LoginWindow \in Int /\ (0 - LoginWindow) + LoginWindow <= lnow
    BY <1>1, <1>3
  <2> QED BY <1>2, <2>1, <2>2 DEF SourceInv, IsOver
<1> QED BY <1>2, <1>6, <1>7, <1>8 DEF LimiterInv

\* AttemptsAreBounded: however attempts, refusals, accepted logins, the
\* clients' order and the evictions from the full table fall, any span of one
\* window holds at most two windows' worth of attempts
\* (LoginAttemptLimiter.Allow and Reset in internal/auth/login_limiter.go).
LEMMA LimiterBounds ==
    ASSUME LimiterConstants
    PROVE  Limiter!Spec => []Limiter!AttemptsAreBounded
<1>1. Limiter!Init => LimiterInv
  BY LimiterStarts
<1>2. LimiterInv /\ [Limiter!Next]_(Limiter!lvars) => LimiterInv'
  <2> SUFFICES ASSUME LimiterInv, [Limiter!Next]_(Limiter!lvars) PROVE LimiterInv'
    OBVIOUS
  <2>1. lnow \in Nat
    BY DEF LimiterInv, LogTypes
  <2>2. CASE UNCHANGED Limiter!lvars
    BY <2>1, <2>2, QuietStep DEF Limiter!lvars
  <2>3. CASE Limiter!ClockTicks
    BY <2>1, <2>3, QuietStep DEF Limiter!ClockTicks
  <2>4. CASE \E s \in Client : Limiter!LoginFails(s)
    BY <2>1, <2>4, QuietStep DEF Limiter!LoginFails
  <2> QED BY <2>2, <2>3, <2>4, RefusedStep, AllowedStep, SucceedsStep DEF Limiter!Next
<1>3. LimiterInv => Limiter!AttemptsAreBounded
  <2> SUFFICES ASSUME LimiterInv PROVE Limiter!AttemptsAreBounded
    OBVIOUS
  <2>1. Cardinality(DOMAIN sources) <= MaxSources /\ lnow \in Nat /\ LoginWindow \in Nat
    BY DEF LimiterInv, SourceTable, LogTypes, LimiterConstants
  <2>2. ASSUME NEW t \in 0..lnow
        PROVE  LET span == {i \in DOMAIN log : log[i].at \in t..(t + LoginWindow - 1)}
               IN  /\ Cardinality(span) <= 2 * GlobalLimit
                   /\ \A s \in Client :
                        Cardinality({i \in span : log[i].src = s /\ log[i].counted}) <= 2 * PerSourceLimit
    <3> DEFINE span == {i \in DOMAIN log : log[i].at \in t..(t + LoginWindow - 1)}
    <3>1. \A i \in DOMAIN log : LoginTimes[i] = log[i].at /\ log[i].at \in Nat
      BY LogFacts DEF LimiterInv
    <3>2. \A i \in DOMAIN log : log[i].at \in t..(t + LoginWindow - 1)
                                <=> LoginTimes[i] >= t /\ LoginTimes[i] <= t + LoginWindow - 1
      BY <2>1, <3>1
    <3>3. span = Within(DOMAIN log, LoginTimes, t)
      BY <3>2 DEF Within
    <3>4. \A s \in Client : {i \in span : log[i].src = s /\ log[i].counted} = Within(Counted(s), LoginTimes, t)
      BY <3>2 DEF Within, Counted
    <3>5. t \in Nat
      BY <2>1
    <3>6. /\ Cardinality(Within(DOMAIN log, LoginTimes, t)) <= 2 * GlobalLimit
          /\ \A s \in Client : Cardinality(Within(Counted(s), LoginTimes, t)) <= 2 * PerSourceLimit
      <4>1. Spread(DOMAIN log, LoginTimes, GlobalLimit)
        BY DEF LimiterInv, GlobalInv
      <4>2. \A s \in Client : Spread(Counted(s), LoginTimes, PerSourceLimit)
        BY DEF LimiterInv, SourceInv
      <4> QED BY <3>5, <4>1, <4>2 DEF Spread
    <3> HIDE DEF span
    <3>7. /\ Cardinality(span) <= 2 * GlobalLimit
          /\ \A s \in Client :
               Cardinality({i \in span : log[i].src = s /\ log[i].counted}) <= 2 * PerSourceLimit
      BY <3>3, <3>4, <3>6
    <3> QED BY <3>7 DEF span
  <2>3. \A t \in 0..lnow :
           LET span == {i \in DOMAIN log : log[i].at \in t..(t + LoginWindow - 1)}
           IN  /\ Limiter!Cardinality(span) <= 2 * GlobalLimit
               /\ \A s \in Client :
                    Limiter!Cardinality({i \in span : log[i].src = s /\ log[i].counted}) <= 2 * PerSourceLimit
    BY <2>2, SameCardinality, Zenon
  <2>4. Limiter!Cardinality(DOMAIN sources) <= MaxSources
    BY <2>1, SameCardinality, Zenon
  <2> QED BY <2>3, <2>4, Zenon DEF Limiter!AttemptsAreBounded
<1> QED BY <1>1, <1>2, <1>3, PTL DEF Limiter!Spec

-----------------------------------------------------------------------------
(***************************************************************************)
(* Backup.  What makes the count of a round inductive is where the runner  *)
(* stands: a pending retry is preceded by as many copies in the round of   *)
(* the last one as have failed (RetryIsCounted), and a sleep for the daily *)
(* copy ends in a later round than every copy so far (DailyIsLater).  With *)
(* another interval the last copy that succeeded is found again, or its    *)
(* interval is over (IntervalIsKept): the cleanup that removes its file    *)
(* runs after a later copy.                                                *)
(***************************************************************************)

InRound(k) == {b \in attempts : Backups!Round(b) = k}

BackupTypes ==
    /\ bclock \in Nat /\ interval \in Nat \ {0}
    /\ attempts \subseteq 0..bclock
    /\ \A f \in files : f.mtime \in 0..bclock
    /\ lastBackupAt \in -1..bclock
    /\ backupAt \in -1..bclock /\ (bpc \in {"copy", "clean"} => backupAt \in attempts)
    /\ lastSaved \in -1..bclock
    /\ retryAttempts \in Nat /\ pendingRetry \in BOOLEAN /\ forgotten \in BOOLEAN
    /\ due \in Int

RoundsArePaced ==
    \A a \in attempts :
        /\ \A b \in InRound(Backups!Round(a)) : a < b => b - a >= RetryDelay
        /\ Cardinality(InRound(Backups!Round(a))) <= RetryAttempts + 1

\* No copy is later than the one under way or to be retried.
LastIsLast == bpc = "copy" \/ pendingRetry => \A a \in attempts : a <= backupAt

RetryIsDue == pendingRetry /\ bpc = "sleep" => due >= backupAt + RetryDelay

RetryIsCounted ==
    /\ bpc = "copy" => Cardinality(InRound(Backups!Round(backupAt))) <= retryAttempts + 1
    /\ pendingRetry /\ bpc # "copy" => Cardinality(InRound(Backups!Round(backupAt))) <= retryAttempts

DailyIsLater ==
    bpc = "sleep" /\ ~pendingRetry =>
        \A a \in attempts : Backups!Round(a) < Backups!Round(due)

DailyInv == RoundsArePaced /\ RetryIsCounted /\ DailyIsLater

\* pendingRetry says that the next copy is one of the retries.
RetryIsMarked ==
    /\ pendingRetry => retryAttempts \in 1..RetryAttempts
    /\ retryAttempts \in 1..RetryAttempts => pendingRetry

RetryIsSpaced ==
    bpc = "copy" /\ retryAttempts \in 1..RetryAttempts =>
        \A a \in attempts \ {backupAt} : a + RetryDelay <= backupAt

IntervalOver(s) == bclock >= s + interval

IntervalIsKept ==
    lastSaved # -1 /\ ~forgotten =>
        /\ \A a \in attempts : a > lastSaved => a >= lastSaved + interval
        /\ bpc = "copy" => backupAt >= lastSaved + interval
        /\ pendingRetry => IntervalOver(lastSaved)
        /\ bpc = "sleep" => due >= lastSaved + interval \/ IntervalOver(lastSaved)
        /\ IntervalOver(lastSaved) \/ \E f \in files : f.at = lastSaved /\ f.mtime >= lastSaved

Daily == Backups!UsesDailySchedule

BackupInv ==
    /\ BackupTypes /\ LastIsLast /\ RetryIsDue /\ RetryIsMarked /\ RetryIsSpaced
    /\ (Daily => DailyInv)
    /\ (~Daily => IntervalIsKept)

LEMMA BackupCardinality == \A S : Backups!Cardinality(S) = Cardinality(S)
BY Zenon DEF Backups!Cardinality, Cardinality

LEMMA RoundMonotone ==
    ASSUME BackupConstants, NEW a \in Int, NEW b \in Int, a <= b
    PROVE  Backups!Round(a) \in Int /\ Backups!Round(a) <= Backups!Round(b)
<1>1. DayLen \in Nat \ {0} /\ BackupHour \in Int
  BY DEF BackupConstants
<1>2. a + DayLen - BackupHour \in Int /\ b + DayLen - BackupHour \in Int
      /\ a + DayLen - BackupHour <= b + DayLen - BackupHour
  BY <1>1
<1> QED BY <1>1, <1>2, Quotient, QuotientMonotone DEF Backups!Round

\* A backup hour begins a round.
LEMMA HourBeginsRound ==
    ASSUME BackupConstants, NEW a \in Int, NEW k \in Int, a < k * DayLen + BackupHour
    PROVE  Backups!Round(a) < Backups!Round(k * DayLen + BackupHour)
<1>1. DayLen \in Nat \ {0} /\ BackupHour \in Int
  BY DEF BackupConstants
<1> DEFINE h == k * DayLen + BackupHour
           x == a + DayLen - BackupHour
           q == x \div DayLen
<1>2. k * DayLen \in Int /\ DayLen * (k + 1) = k * DayLen + DayLen
  BY <1>1
<1>3. h + DayLen - BackupHour = DayLen * (k + 1)
  BY <1>1, <1>2
<1>4. (DayLen * (k + 1)) \div DayLen = k + 1
  <2>1. DayLen * (k + 1) \in Int /\ DayLen * (k + 1) < DayLen * (k + 1) + DayLen
    BY <1>1, <1>2
  <2> QED BY <1>1, <2>1, QuotientUnique
<1>5. Backups!Round(h) = k + 1
  BY <1>3, <1>4 DEF Backups!Round
<1>6. x \in Int /\ x < DayLen * (k + 1)
  BY <1>1, <1>2
<1>7. q \in Int /\ DayLen * q <= x
  BY <1>1, <1>6, Quotient
<1> HIDE DEF x, q, h
<1>8. DayLen * q < DayLen * (k + 1)
  <2>1. DayLen * q \in Int /\ DayLen * (k + 1) \in Int
    BY <1>1, <1>7
  <2> QED BY <1>6, <1>7, <2>1
<1>9. q < k + 1
  <2>1. CASE k + 1 <= q
    <3>1. DayLen * (k + 1) <= DayLen * q
      BY <1>1, <1>7, <2>1
    <3>2. DayLen * q \in Int /\ DayLen * (k + 1) \in Int
      BY <1>1, <1>7
    <3> QED BY <1>8, <3>1, <3>2
  <2> QED BY <1>7, <2>1
<1>10. Backups!Round(a) = q
  BY DEF Backups!Round, q, x
<1> QED BY <1>5, <1>9, <1>10 DEF h

\* The last backup known is one of the times recorded, and the latest.
LEMMA LastKnownIsATime ==
    ASSUME BackupTypes, NEW found, found \in {Backups!ModTimes, {}}
    PROVE  /\ Backups!LastKnown(found) \in Int
           /\ lastBackupAt <= Backups!LastKnown(found)
           /\ \A t \in found : t <= Backups!LastKnown(found)
<1> DEFINE times == {lastBackupAt} \cup found
           shifted == {t + 2 : t \in times}
<1>0. found \subseteq 0..bclock /\ bclock \in Nat
  BY DEF BackupTypes, Backups!ModTimes
<1>1. times \subseteq -1..bclock /\ times # {}
  BY <1>0 DEF BackupTypes
<1>2. shifted \subseteq 1..(bclock + 2) /\ bclock + 2 \in Nat
  <2>1. \A t \in times : t + 2 \in 1..(bclock + 2)
    BY <1>0, <1>1
  <2> QED BY <1>0, <2>1
<1>3. lastBackupAt + 2 \in shifted
  OBVIOUS
<1>4. PICK m \in shifted : \A x \in shifted : x <= m
  <2> HIDE DEF shifted
  <2> QED BY <1>2, <1>3, MaxExists
<1>5. PICK t \in times : m = t + 2
  OBVIOUS
<1>6. \A u \in times : u <= t
  <2> SUFFICES ASSUME NEW u \in times PROVE u <= t
    OBVIOUS
  <2>1. u + 2 \in shifted
    OBVIOUS
  <2>2. u + 2 <= t + 2
    BY <1>4, <1>5, <2>1
  <2> QED BY <1>1, <2>2
<1>7. Backups!LastKnown(found) \in times /\ \A u \in times : u <= Backups!LastKnown(found)
  BY <1>5, <1>6 DEF Backups!LastKnown
<1> QED BY <1>1, <1>7

\* The daily copy is due at a backup hour that is still to come.
LEMMA DailyDueIsLater ==
    ASSUME BackupConstants, BackupTypes, NEW last \in Int
    PROVE  /\ Backups!DailyDue(last) \in Int
           /\ \A a \in 0..bclock : Backups!Round(a) < Backups!Round(Backups!DailyDue(last))
<1>1. /\ DayLen \in Nat \ {0} /\ BackupHour \in 0..(DayLen - 1) /\ bclock \in Nat
      /\ interval \in Nat
  BY DEF BackupConstants, BackupTypes
<1> DEFINE d == Backups!DayOf(last) + interval \div DayLen
           candidate == d * DayLen + BackupHour
           today == Backups!DayOf(bclock) * DayLen + BackupHour
<1>3. d \in Int
  BY <1>1, Quotient DEF Backups!DayOf
<1> DEFINE e == bclock \div DayLen
<1>4. e \in Int /\ DayLen * e <= bclock /\ bclock < DayLen * e + DayLen
  BY <1>1, Quotient
<1> HIDE DEF e
<1>5. today = e * DayLen + BackupHour
  BY DEF Backups!DayOf, e
<1>6. DayLen * e = e * DayLen /\ e * DayLen \in Int /\ (e + 1) * DayLen = e * DayLen + DayLen
  BY <1>1, <1>4
<1>7. today + DayLen = (e + 1) * DayLen + BackupHour /\ bclock < today + DayLen
  BY <1>1, <1>4, <1>5, <1>6
<1> HIDE DEF today, candidate, d
<1>8. \E k \in Int : Backups!DailyDue(last) = k * DayLen + BackupHour /\ bclock < k * DayLen + BackupHour
  <2>1. CASE last # Backups!Never /\ bclock < candidate
    <3>1. Backups!DailyDue(last) = candidate
      BY <2>1 DEF Backups!DailyDue, candidate, d
    <3> QED BY <1>3, <2>1, <3>1 DEF candidate
  <2>2. CASE ~(last # Backups!Never /\ bclock < candidate)
    <3>1. Backups!DailyDue(last) = Backups!NextDaily
      BY <2>2 DEF Backups!DailyDue, candidate, d
    <3>2. CASE bclock < today
      <4>1. Backups!NextDaily = today
        BY <3>2 DEF Backups!NextDaily, today
      <4> QED BY <1>4, <1>5, <3>1, <3>2, <4>1
    <3>3. CASE ~(bclock < today)
      <4>1. Backups!NextDaily = today + DayLen
        BY <3>3 DEF Backups!NextDaily, today
      <4>2. e + 1 \in Int
        BY <1>4
      <4> QED BY <1>7, <3>1, <4>1, <4>2
    <3> QED BY <3>2, <3>3
  <2> QED BY <2>1, <2>2
<1>9. PICK k \in Int : Backups!DailyDue(last) = k * DayLen + BackupHour /\ bclock < k * DayLen + BackupHour
  BY <1>8
<1>10. k * DayLen + BackupHour \in Int
  BY <1>1
<1>11. ASSUME NEW a \in 0..bclock PROVE Backups!Round(a) < Backups!Round(k * DayLen + BackupHour)
  <2>1. a \in Int /\ a < k * DayLen + BackupHour
    BY <1>1, <1>9, <1>10
  <2> QED BY <2>1, HourBeginsRound
<1> QED BY <1>9, <1>10, <1>11

LEMMA RoundsAreFinite ==
    ASSUME BackupTypes
    PROVE  \A k : IsFiniteSet(InRound(k)) /\ Cardinality(InRound(k)) \in Nat
<1>1. IsFiniteSet(0..bclock)
  BY FS_Interval DEF BackupTypes
<1>2. \A k : InRound(k) \subseteq 0..bclock
  BY DEF BackupTypes, InRound
<1> QED BY <1>1, <1>2, FS_Subset, FS_CardinalityType

\* Copies other than a new one change no round.
LEMMA SameRounds ==
    ASSUME attempts' = attempts
    PROVE  \A k : InRound(k)' = InRound(k)
BY DEF InRound

LEMMA SameSchedule ==
    ASSUME interval' = interval
    PROVE  Daily' = Daily
BY DEF Daily, Backups!UsesDailySchedule

LEMMA BackupStarts == BackupConstants /\ Backups!Init => BackupInv
<1> SUFFICES ASSUME BackupConstants, Backups!Init PROVE BackupInv
  OBVIOUS
<1>1. /\ bclock = 0 /\ files = {} /\ lastBackupAt = -1 /\ retryAttempts = 0 /\ pendingRetry = FALSE
      /\ due = 0 /\ backupAt = -1 /\ bpc = "plan" /\ attempts = {} /\ lastSaved = -1 /\ forgotten = FALSE
      /\ interval \in Nat \ {0}
  BY DEF Backups!Init, Backups!Never, BackupConstants
<1>2. -1 \in -1..bclock /\ bclock \in Nat
  BY <1>1
<1>4. BackupTypes
  <2>1. attempts \subseteq 0..bclock /\ \A f \in files : f.mtime \in 0..bclock
    BY <1>1
  <2>2. lastBackupAt \in -1..bclock /\ backupAt \in -1..bclock /\ lastSaved \in -1..bclock
    BY <1>1, <1>2
  <2>3. retryAttempts \in Nat /\ due \in Int /\ (bpc \in {"copy", "clean"} => backupAt \in attempts)
    BY <1>1
  <2>4. pendingRetry \in BOOLEAN /\ forgotten \in BOOLEAN
    BY <1>1, Zenon
  <2> QED BY <1>1, <1>2, <2>1, <2>2, <2>3, <2>4, Zenon DEF BackupTypes
<1>3. LastIsLast /\ RetryIsDue /\ RetryIsMarked /\ RetryIsSpaced /\ DailyInv
  BY <1>1 DEF LastIsLast, RetryIsDue, RetryIsMarked, RetryIsSpaced, DailyInv, RoundsArePaced,
              RetryIsCounted, DailyIsLater
<1>5. IntervalIsKept
  BY <1>1 DEF IntervalIsKept
<1> QED BY <1>3, <1>4, <1>5, Zenon DEF BackupInv

\* The copy that starts is alone in its round or follows the last by the delay.
LEMMA StartedCopyIsInItsRound ==
    ASSUME BackupConstants, BackupTypes, LastIsLast, RetryIsDue, RetryIsMarked, DailyInv,
           Backups!CopyStarts
    PROVE  DailyInv'
<1>1. /\ bpc = "sleep" /\ bclock >= due /\ backupAt' = bclock /\ attempts' = attempts \cup {bclock}
      /\ bpc' = "copy"
      /\ UNCHANGED <<bclock, files, lastBackupAt, retryAttempts, pendingRetry, due>>
  BY DEF Backups!CopyStarts
<1>0. PICK r : r = Backups!Round(bclock)
  OBVIOUS
<1>3. /\ bclock \in Nat /\ backupAt \in Int /\ due \in Int /\ backupAt <= bclock
      /\ \A a \in attempts : a \in Int /\ a <= bclock
      /\ RetryDelay \in Nat /\ RetryAttempts \in Nat /\ retryAttempts \in Nat /\ pendingRetry \in BOOLEAN
  BY DEF BackupTypes, BackupConstants
<1>4. /\ r \in Int /\ Backups!Round(due) <= r /\ Backups!Round(backupAt) <= r
      /\ Backups!Round(due) \in Int /\ Backups!Round(backupAt) \in Int
      /\ \A a \in attempts : Backups!Round(a) \in Int
      /\ \A a \in attempts : a <= backupAt => Backups!Round(a) <= Backups!Round(backupAt)
  BY <1>0, <1>1, <1>3, RoundMonotone
<1>5. \A k : k # r => InRound(k)' = InRound(k)
  BY <1>0, <1>1 DEF InRound
<1>6. InRound(r)' = InRound(r) \cup {bclock}
  BY <1>0, <1>1 DEF InRound
<1>7. \A a \in InRound(r) : pendingRetry /\ Backups!Round(backupAt) = r
  <2> SUFFICES ASSUME NEW a \in InRound(r) PROVE pendingRetry /\ Backups!Round(backupAt) = r
    OBVIOUS
  <2>1. a \in attempts /\ Backups!Round(a) = r
    BY DEF InRound
  <2>2. pendingRetry
    BY <1>1, <1>3, <1>4, <2>1 DEF DailyInv, DailyIsLater
  <2>3. a <= backupAt
    BY <2>1, <2>2 DEF LastIsLast
  <2> QED BY <1>4, <2>1, <2>2, <2>3
<1>8. \A a \in InRound(r) : bclock - a >= RetryDelay
  <2> SUFFICES ASSUME NEW a \in InRound(r) PROVE bclock - a >= RetryDelay
    OBVIOUS
  <2>1. a \in attempts /\ due >= backupAt + RetryDelay /\ a <= backupAt
    BY <1>1, <1>7 DEF InRound, RetryIsDue, LastIsLast
  <2> QED BY <1>1, <1>3, <2>1
<1>9. Cardinality(InRound(r) \cup {bclock}) <= RetryAttempts + 1
      /\ Cardinality(InRound(r) \cup {bclock}) <= retryAttempts + 1
  <2>1. CASE InRound(r) = {}
    <3>1. Cardinality(InRound(r) \cup {bclock}) = 1
      BY <2>1, FS_Singleton
    <3> QED BY <1>3, <3>1
  <2>2. CASE InRound(r) # {}
    <3>1. pendingRetry /\ Backups!Round(backupAt) = r
      BY <1>7, <2>2
    <3>2. retryAttempts <= RetryAttempts /\ Cardinality(InRound(r)) <= retryAttempts
      BY <1>1, <1>3, <3>1 DEF DailyInv, RetryIsCounted, RetryIsMarked
    <3>3. IsFiniteSet(InRound(r)) /\ Cardinality(InRound(r)) \in Nat
      BY RoundsAreFinite
    <3>4. Cardinality(InRound(r) \cup {bclock}) \in {Cardinality(InRound(r)), Cardinality(InRound(r)) + 1}
      BY <3>3, FS_AddElement
    <3> QED BY <1>3, <3>2, <3>3, <3>4
  <2> QED BY <2>1, <2>2
<1>10. RoundsArePaced'
  <2> SUFFICES ASSUME NEW a \in attempts'
               PROVE  /\ \A b \in InRound(Backups!Round(a))' : a < b => b - a >= RetryDelay
                      /\ Cardinality(InRound(Backups!Round(a))') <= RetryAttempts + 1
    BY DEF RoundsArePaced, InRound
  <2>1. CASE Backups!Round(a) = r
    <3>1. Cardinality(InRound(Backups!Round(a))') <= RetryAttempts + 1
      BY <1>6, <1>9, <2>1
    <3>2. ASSUME NEW b \in InRound(r) \cup {bclock}, a < b PROVE b - a >= RetryDelay
      <4>1. a \in InRound(r) \/ a = bclock
        BY <1>1, <2>1 DEF InRound
      <4>2. CASE b = bclock
        <5>1. a # bclock
          BY <1>3, <3>2, <4>2
        <5> QED BY <1>8, <4>1, <4>2, <5>1
      <4>3. CASE b \in InRound(r)
        <5>1. b \in attempts /\ b \in Int /\ b <= bclock
          BY <1>3, <4>3 DEF InRound
        <5>2. a # bclock
          BY <1>3, <3>2, <5>1
        <5>3. a \in attempts /\ b \in InRound(Backups!Round(a))
          BY <2>1, <4>1, <4>3, <5>2 DEF InRound
        <5> QED BY <3>2, <5>3 DEF DailyInv, RoundsArePaced
      <4> QED BY <3>2, <4>2, <4>3
    <3> QED BY <1>6, <2>1, <3>1, <3>2
  <2>2. CASE Backups!Round(a) # r
    <3>1. a \in attempts
      BY <1>0, <1>1, <2>2
    <3> QED BY <1>5, <2>2, <3>1 DEF DailyInv, RoundsArePaced
  <2> QED BY <2>1, <2>2
<1>11. RetryIsCounted'
  <2>1. Cardinality(InRound(Backups!Round(bclock))') <= retryAttempts + 1
    BY <1>0, <1>1, <1>6, <1>9 DEF InRound
  <2> QED BY <1>1, <2>1 DEF RetryIsCounted, InRound
<1>12. DailyIsLater'
  BY <1>1 DEF DailyIsLater
<1> QED BY <1>10, <1>11, <1>12 DEF DailyInv

\* A copy starts at the end of a sleep, which the interval is over by.
LEMMA StartedCopyIsPaced ==
    ASSUME BackupConstants, BackupInv, Backups!CopyStarts
    PROVE  BackupInv'
<1>1. /\ bpc = "sleep" /\ bclock >= due /\ backupAt' = bclock /\ attempts' = attempts \cup {bclock}
      /\ bpc' = "copy"
      /\ UNCHANGED <<bclock, interval, files, lastBackupAt, retryAttempts, pendingRetry, due,
                     lastSaved, forgotten>>
  BY DEF Backups!CopyStarts
<1>2. BackupTypes'
  BY <1>1 DEF BackupInv, BackupTypes
<1>3. /\ bclock \in Nat /\ backupAt \in Int /\ due \in Int /\ lastSaved \in Int /\ interval \in Nat
      /\ \A a \in attempts : a \in Int /\ a <= bclock
      /\ RetryDelay \in Nat
  BY DEF BackupInv, BackupTypes, BackupConstants
<1>4. LastIsLast' /\ RetryIsDue' /\ RetryIsMarked'
  BY <1>1, <1>3 DEF BackupInv, LastIsLast, RetryIsDue, RetryIsMarked
<1>5. RetryIsSpaced'
  <2> SUFFICES ASSUME retryAttempts \in 1..RetryAttempts, NEW a \in attempts
               PROVE  a + RetryDelay <= bclock
    BY <1>1 DEF RetryIsSpaced
  <2>1. pendingRetry
    BY DEF BackupInv, RetryIsMarked
  <2>2. due >= backupAt + RetryDelay /\ a <= backupAt
    BY <1>1, <2>1 DEF BackupInv, RetryIsDue, LastIsLast
  <2> QED BY <1>1, <1>3, <2>2
<1>6. Daily => DailyInv'
  BY StartedCopyIsInItsRound DEF BackupInv
<1>7. ASSUME IntervalIsKept PROVE IntervalIsKept'
  <2> SUFFICES ASSUME lastSaved # -1, ~forgotten
               PROVE  /\ \A a \in attempts' : a > lastSaved => a >= lastSaved + interval
                      /\ bclock >= lastSaved + interval
    BY <1>1 DEF IntervalIsKept, IntervalOver
  <2>1. bclock >= lastSaved + interval
    BY <1>1, <1>3, <1>7 DEF IntervalIsKept, IntervalOver
  <2> QED BY <1>1, <1>3, <1>7, <2>1 DEF IntervalIsKept
<1> QED BY <1>1, <1>2, <1>4, <1>5, <1>6, <1>7, SameSchedule DEF BackupInv

\* A step that starts no copy leaves the rounds as they are.
LEMMA OtherStepsKeepRounds ==
    ASSUME RoundsArePaced, UNCHANGED attempts
    PROVE  RoundsArePaced'
BY DEF RoundsArePaced, InRound

\* What is planned: the retry delay, a later backup hour, or the interval
\* after a copy that is at least the last one that succeeded.
LEMMA PlanIsPaced ==
    ASSUME BackupConstants, BackupInv, NEW found, found \in {Backups!ModTimes, {}}, Backups!Plan(found)
    PROVE  BackupInv'
<1> DEFINE last == Backups!LastKnown(found)
<1>1. /\ bpc = "plan" /\ due' = Backups!NextDue(last) /\ bpc' = "sleep"
      /\ UNCHANGED <<bclock, interval, files, lastBackupAt, retryAttempts, pendingRetry, backupAt,
                     attempts, lastSaved>>
  BY DEF Backups!Plan
<1>2. /\ bclock \in Nat /\ backupAt \in -1..bclock /\ RetryDelay \in Nat /\ lastBackupAt \in -1..bclock
      /\ attempts \subseteq 0..bclock /\ interval \in Nat /\ lastSaved \in -1..bclock
      /\ pendingRetry \in BOOLEAN /\ forgotten \in BOOLEAN
  BY DEF BackupInv, BackupTypes, BackupConstants
<1>3. last \in Int /\ lastBackupAt <= last /\ \A t \in found : t <= last
  BY LastKnownIsATime DEF BackupInv
<1>4. forgotten' \in BOOLEAN
  BY <1>2, Zenon DEF Backups!Plan
<1>5. ~forgotten' => ~forgotten /\ (found = Backups!ModTimes \/ ~(lastBackupAt < lastSaved))
  BY Zenon DEF Backups!Plan
<1> HIDE DEF last
<1>6. pendingRetry => due' = bclock + RetryDelay
  BY <1>1 DEF Backups!NextDue
<1>7. ~pendingRetry /\ Daily => due' = Backups!DailyDue(last)
  BY <1>1 DEF Backups!NextDue, Daily
<1>8. ~pendingRetry /\ ~Daily => due' = IF last = -1 THEN bclock ELSE last + interval
  BY <1>1 DEF Backups!NextDue, Daily, Backups!Never
<1>9. due' \in Int
  <2>1. Backups!DailyDue(last) \in Int
    BY <1>3, DailyDueIsLater DEF BackupInv
  <2> QED BY <1>2, <1>3, <1>6, <1>7, <1>8, <2>1
<1>10. BackupTypes'
  BY <1>1, <1>4, <1>9 DEF BackupInv, BackupTypes
<1>11. LastIsLast' /\ RetryIsMarked' /\ RetryIsSpaced'
  BY <1>1 DEF BackupInv, LastIsLast, RetryIsMarked, RetryIsSpaced
<1>12. RetryIsDue'
  BY <1>1, <1>2, <1>6 DEF RetryIsDue
<1>13. ASSUME Daily, DailyInv PROVE DailyInv'
  <2>1. RetryIsCounted'
    BY <1>1, <1>13 DEF DailyInv, RetryIsCounted, InRound
  <2>2. ~pendingRetry => \A a \in 0..bclock : Backups!Round(a) < Backups!Round(due')
    BY <1>3, <1>7, <1>13, DailyDueIsLater DEF BackupInv
  <2>3. DailyIsLater'
    BY <1>1, <1>2, <2>2 DEF DailyIsLater, Backups!Round
  <2> QED BY <1>1, <1>13, <2>1, <2>3, OtherStepsKeepRounds DEF DailyInv
<1>14. ASSUME ~Daily, IntervalIsKept PROVE IntervalIsKept'
  <2> SUFFICES ASSUME lastSaved # -1, ~forgotten' PROVE IntervalIsKept'
    BY <1>1 DEF IntervalIsKept
  <2>1. /\ \A a \in attempts : a > lastSaved => a >= lastSaved + interval
        /\ pendingRetry => IntervalOver(lastSaved)
        /\ IntervalOver(lastSaved) \/ \E f \in files : f.at = lastSaved /\ f.mtime >= lastSaved
    BY <1>5, <1>14 DEF IntervalIsKept
  <2>2. due' >= lastSaved + interval \/ IntervalOver(lastSaved)
    <3> SUFFICES ASSUME ~IntervalOver(lastSaved) PROVE due' >= lastSaved + interval
      OBVIOUS
    <3>1. ~pendingRetry /\ \E f \in files : f.mtime >= lastSaved
      BY <2>1
    <3>2. last >= lastSaved
      <4>1. CASE found = Backups!ModTimes
        <5>1. PICK f \in files : f.mtime >= lastSaved
          BY <3>1
        <5>2. f.mtime \in found /\ f.mtime \in Int
          BY <4>1 DEF Backups!ModTimes, BackupInv, BackupTypes
        <5> QED BY <1>2, <1>3, <5>1, <5>2
      <4>2. CASE ~(lastBackupAt < lastSaved)
        BY <1>2, <1>3, <4>2
      <4> QED BY <1>5, <4>1, <4>2
    <3>3. last # -1
      BY <1>2, <1>3, <3>2
    <3> QED BY <1>2, <1>3, <1>8, <1>14, <3>1, <3>2, <3>3
  <2> QED BY <1>1, <2>1, <2>2 DEF IntervalIsKept, IntervalOver
<1> QED BY <1>1, <1>10, <1>11, <1>12, <1>13, <1>14, SameSchedule DEF BackupInv

LEMMA FailedCopyIsCounted ==
    ASSUME BackupConstants, BackupInv, Backups!CopyFails
    PROVE  BackupInv'
<1>1. /\ bpc = "copy" /\ retryAttempts' = retryAttempts + 1 /\ bpc' = "clean"
      /\ pendingRetry' = (retryAttempts + 1 <= RetryAttempts)
      /\ UNCHANGED <<bclock, interval, files, lastBackupAt, due, backupAt, attempts, lastSaved, forgotten>>
  BY DEF Backups!CopyFails
<1>2. BackupTypes'
  BY <1>1 DEF BackupInv, BackupTypes
<1>3. LastIsLast' /\ RetryIsDue' /\ RetryIsSpaced'
  BY <1>1 DEF BackupInv, LastIsLast, RetryIsDue, RetryIsSpaced
<1>4. RetryIsMarked'
  <2>1. retryAttempts \in Nat /\ RetryAttempts \in Nat
    BY DEF BackupInv, BackupTypes, BackupConstants
  <2>2. (retryAttempts + 1 <= RetryAttempts) <=> retryAttempts' \in 1..RetryAttempts
    BY <1>1, <2>1
  <2>3. pendingRetry' <=> retryAttempts' \in 1..RetryAttempts
    BY <1>1, <2>2, Zenon
  <2> QED BY <2>3, Zenon DEF RetryIsMarked
<1>5. ASSUME DailyInv PROVE DailyInv'
  <2>1. RetryIsCounted'
    BY <1>1, <1>5 DEF DailyInv, BackupInv, BackupTypes, RetryIsCounted, InRound
  <2>2. DailyIsLater'
    BY <1>1 DEF DailyIsLater
  <2> QED BY <1>1, <1>5, <2>1, <2>2, OtherStepsKeepRounds DEF DailyInv
<1>6. ASSUME IntervalIsKept PROVE IntervalIsKept'
  BY <1>1, <1>6 DEF BackupInv, BackupTypes, IntervalIsKept, IntervalOver
<1> QED BY <1>1, <1>2, <1>3, <1>4, <1>5, <1>6, SameSchedule DEF BackupInv

LEMMA EndedCopyIsKnown ==
    ASSUME BackupConstants, BackupInv, Backups!CopyEnds
    PROVE  BackupInv'
<1> DEFINE new == [at |-> backupAt, mtime |-> bclock]
<1>1. /\ bpc = "copy" /\ retryAttempts' = 0 /\ pendingRetry' = FALSE /\ bpc' = "clean"
      /\ files' = files \cup {new} /\ lastBackupAt' = backupAt /\ lastSaved' = backupAt
      /\ forgotten' = FALSE
      /\ UNCHANGED <<bclock, interval, due, backupAt, attempts>>
  BY DEF Backups!CopyEnds
<1>2. new.at = backupAt /\ new.mtime = bclock /\ new \in files'
  BY <1>1
<1> HIDE DEF new
<1>3. BackupTypes'
  <2>1. \A f \in files' : f.mtime \in 0..bclock
    BY <1>1, <1>2 DEF BackupInv, BackupTypes
  <2> QED BY <1>1, <2>1 DEF BackupInv, BackupTypes
<1>4. LastIsLast' /\ RetryIsDue' /\ RetryIsSpaced' /\ RetryIsMarked'
  BY <1>1 DEF LastIsLast, RetryIsDue, RetryIsSpaced, RetryIsMarked
<1>5. ASSUME DailyInv PROVE DailyInv'
  <2>1. RetryIsCounted' /\ DailyIsLater'
    BY <1>1 DEF RetryIsCounted, DailyIsLater
  <2> QED BY <1>1, <1>5, <2>1, OtherStepsKeepRounds DEF DailyInv
<1>6. IntervalIsKept'
  <2>1. \A a \in attempts : a \in Int /\ a <= backupAt
    BY <1>1 DEF BackupInv, BackupTypes, LastIsLast
  <2>2. backupAt \in Int /\ bclock \in Int /\ backupAt <= bclock
    BY DEF BackupInv, BackupTypes
  <2>3. \E f \in files' : f.at = lastSaved' /\ f.mtime >= lastSaved'
    BY <1>1, <1>2, <2>2
  <2>4. \A a \in attempts' : ~(a > lastSaved')
    BY <1>1, <2>1, <2>2
  <2> QED BY <1>1, <2>3, <2>4 DEF IntervalIsKept
<1> QED BY <1>1, <1>3, <1>4, <1>5, <1>6, SameSchedule DEF BackupInv

\* The file of the last copy is in a day the cleanup after it keeps.
LEMMA CleanupKeepsTheLast ==
    ASSUME BackupConstants, BackupInv, Backups!Clean
    PROVE  BackupInv'
<1>1. /\ bpc = "clean" /\ bpc' = "plan" /\ files' \subseteq files
      /\ files' = files \/ files' = {f \in files : ~Backups!Expired(f.at)}
      /\ UNCHANGED <<bclock, interval, lastBackupAt, retryAttempts, pendingRetry, due, backupAt,
                     attempts, lastSaved, forgotten>>
  BY DEF Backups!Clean
<1>2. BackupTypes'
  BY <1>1 DEF BackupInv, BackupTypes
<1>3. LastIsLast' /\ RetryIsDue' /\ RetryIsSpaced' /\ RetryIsMarked'
  BY <1>1 DEF BackupInv, LastIsLast, RetryIsDue, RetryIsSpaced, RetryIsMarked
<1>4. ASSUME DailyInv PROVE DailyInv'
  <2>1. RetryIsCounted' /\ DailyIsLater'
    BY <1>1, <1>4 DEF DailyInv, RetryIsCounted, DailyIsLater, InRound
  <2> QED BY <1>1, <1>4, <2>1, OtherStepsKeepRounds DEF DailyInv
<1>5. ASSUME IntervalIsKept PROVE IntervalIsKept'
  <2> SUFFICES ASSUME lastSaved # -1, ~forgotten, ~IntervalOver(lastSaved)
               PROVE  \E f \in files' : f.at = lastSaved /\ f.mtime >= lastSaved
    BY <1>1, <1>5 DEF IntervalIsKept, IntervalOver
  <2>1. PICK f \in files : f.at = lastSaved /\ f.mtime >= lastSaved
    BY <1>5 DEF IntervalIsKept
  <2>2. /\ backupAt \in attempts /\ backupAt \in Int /\ lastSaved \in Int /\ bclock \in Int
        /\ interval \in Int /\ backupAt <= bclock
    BY <1>1 DEF BackupInv, BackupTypes
  <2>3. backupAt <= lastSaved
    BY <1>5, <2>2 DEF IntervalIsKept, IntervalOver
  <2>4. Backups!DayOf(backupAt) <= Backups!DayOf(lastSaved)
        /\ Backups!DayOf(backupAt) \in Int /\ Backups!DayOf(lastSaved) \in Int
    BY <2>2, <2>3, Quotient, QuotientMonotone DEF Backups!DayOf, BackupConstants
  <2>5. ~Backups!Expired(lastSaved)
    BY <2>4 DEF Backups!Expired, BackupConstants
  <2> QED BY <1>1, <2>1, <2>5
<1> QED BY <1>1, <1>2, <1>3, <1>4, <1>5, SameSchedule DEF BackupInv

\* A restart forgets the retries, not the files.
LEMMA RestartIsPaced ==
    ASSUME BackupConstants, BackupInv, Backups!Crash
    PROVE  BackupInv'
<1>1. /\ lastBackupAt' = -1 /\ retryAttempts' = 0 /\ pendingRetry' = FALSE /\ due' = 0
      /\ backupAt' = -1 /\ bpc' = "plan"
      /\ UNCHANGED <<bclock, interval, files, attempts, lastSaved, forgotten>>
  BY DEF Backups!Crash, Backups!Never
<1>2. BackupTypes'
  <2>1. -1 \in -1..bclock /\ bclock \in Nat
    BY DEF BackupInv, BackupTypes
  <2>2. lastBackupAt' \in -1..bclock' /\ backupAt' \in -1..bclock' /\ lastSaved' \in -1..bclock'
    BY <1>1, <2>1 DEF BackupInv, BackupTypes
  <2>3. retryAttempts' \in Nat /\ due' \in Int /\ ~(bpc' \in {"copy", "clean"})
    BY <1>1
  <2>4. pendingRetry' \in BOOLEAN /\ forgotten' \in BOOLEAN
    BY <1>1, Zenon DEF BackupInv, BackupTypes
  <2>5. /\ bclock' \in Nat /\ interval' \in Nat \ {0} /\ attempts' \subseteq 0..bclock'
        /\ \A f \in files' : f.mtime \in 0..bclock'
    BY <1>1 DEF BackupInv, BackupTypes
  <2> QED BY <2>2, <2>3, <2>4, <2>5, Zenon DEF BackupTypes
<1>3. LastIsLast' /\ RetryIsDue' /\ RetryIsSpaced' /\ RetryIsMarked'
  BY <1>1 DEF LastIsLast, RetryIsDue, RetryIsSpaced, RetryIsMarked
<1>4. ASSUME DailyInv PROVE DailyInv'
  <2>1. RetryIsCounted' /\ DailyIsLater'
    BY <1>1 DEF RetryIsCounted, DailyIsLater
  <2> QED BY <1>1, <1>4, <2>1, OtherStepsKeepRounds DEF DailyInv
<1>5. ASSUME IntervalIsKept PROVE IntervalIsKept'
  BY <1>1, <1>5 DEF IntervalIsKept, IntervalOver
<1> QED BY <1>1, <1>2, <1>3, <1>4, <1>5, SameSchedule DEF BackupInv

LEMMA BackupStep == BackupConstants /\ BackupInv /\ [Backups!Next]_(Backups!bvars) => BackupInv'
<1> SUFFICES ASSUME BackupConstants, BackupInv, [Backups!Next]_(Backups!bvars) PROVE BackupInv'
  OBVIOUS
<1>1. CASE Backups!BTick
  <2>1. bclock' = bclock + 1 /\ UNCHANGED <<interval, files, lastBackupAt, retryAttempts, pendingRetry,
                                            due, backupAt, bpc, attempts, lastSaved, forgotten>>
    BY <1>1 DEF Backups!BTick
  <2>2. BackupTypes'
    BY <2>1 DEF BackupInv, BackupTypes
  <2>3. LastIsLast' /\ RetryIsDue' /\ RetryIsSpaced' /\ RetryIsMarked'
    BY <2>1 DEF BackupInv, LastIsLast, RetryIsDue, RetryIsSpaced, RetryIsMarked
  <2>4. ASSUME DailyInv PROVE DailyInv'
    <3>1. RetryIsCounted' /\ DailyIsLater'
      BY <2>1, <2>4 DEF DailyInv, RetryIsCounted, DailyIsLater, InRound
    <3> QED BY <2>1, <2>4, <3>1, OtherStepsKeepRounds DEF DailyInv
  <2>5. ASSUME IntervalIsKept PROVE IntervalIsKept'
    <3>1. lastSaved \in Int /\ interval \in Int /\ bclock \in Int
      BY DEF BackupInv, BackupTypes
    <3>2. IntervalOver(lastSaved) => IntervalOver(lastSaved)'
      BY <2>1, <3>1 DEF IntervalOver
    <3> QED BY <2>1, <2>5, <3>2 DEF IntervalIsKept
  <2> QED BY <2>1, <2>2, <2>3, <2>4, <2>5, SameSchedule DEF BackupInv
<1>2. CASE \E found \in {Backups!ModTimes, {}} : Backups!Plan(found)
  BY <1>2, PlanIsPaced
<1>3. CASE Backups!CopyStarts
  BY <1>3, StartedCopyIsPaced
<1>4. CASE Backups!CopyFails
  BY <1>4, FailedCopyIsCounted
<1>5. CASE Backups!CopyEnds
  BY <1>5, EndedCopyIsKnown
<1>6. CASE Backups!Clean
  BY <1>6, CleanupKeepsTheLast
<1>7. CASE Backups!Crash
  BY <1>7, RestartIsPaced
<1>8. CASE UNCHANGED Backups!bvars
  <2>1. BackupTypes' /\ LastIsLast' /\ RetryIsDue' /\ RetryIsSpaced' /\ RetryIsMarked'
    BY <1>8 DEF Backups!bvars, BackupInv, BackupTypes, LastIsLast, RetryIsDue, RetryIsSpaced, RetryIsMarked
  <2>2. DailyInv => DailyInv'
    BY <1>8 DEF Backups!bvars, DailyInv, RoundsArePaced, RetryIsCounted, DailyIsLater, InRound
  <2>3. IntervalIsKept => IntervalIsKept'
    BY <1>8 DEF Backups!bvars, IntervalIsKept, IntervalOver
  <2>4. Daily' = Daily
    BY <1>8, SameSchedule DEF Backups!bvars
  <2> QED BY <2>1, <2>2, <2>3, <2>4 DEF BackupInv
<1> QED BY <1>1, <1>2, <1>3, <1>4, <1>5, <1>6, <1>7, <1>8 DEF Backups!Next

LEMMA BackupsArePaced == BackupConstants => (Backups!Spec => []Backups!BackupAttemptsArePaced)
<1>1. BackupInv => Backups!BackupAttemptsArePaced
  <2> SUFFICES ASSUME BackupInv PROVE Backups!BackupAttemptsArePaced
    OBVIOUS
  <2>1. ASSUME Backups!UsesDailySchedule, NEW a \in attempts
        PROVE  LET round == {b \in attempts : Backups!Round(b) = Backups!Round(a)}
               IN  /\ \A b \in round : a < b => b - a >= RetryDelay
                   /\ Backups!Cardinality(round) <= RetryAttempts + 1
    BY <2>1, BackupCardinality DEF BackupInv, Daily, DailyInv, RoundsArePaced, InRound
  <2>2. ASSUME ~Backups!UsesDailySchedule, lastSaved # Backups!Never, ~forgotten
        PROVE  \A a \in attempts : a > lastSaved => a >= lastSaved + interval
    BY <2>2 DEF BackupInv, Daily, IntervalIsKept, Backups!Never
  <2>3. RetryIsSpaced
    BY DEF BackupInv
  <2> QED BY <2>1, <2>2, <2>3 DEF Backups!BackupAttemptsArePaced, RetryIsSpaced
<1> SUFFICES ASSUME BackupConstants PROVE Backups!Spec => []Backups!BackupAttemptsArePaced
  OBVIOUS
<1>2. Backups!Init => BackupInv
  BY BackupStarts
<1>3. BackupInv /\ [Backups!Next]_(Backups!bvars) => BackupInv'
  BY BackupStep
<1> QED BY <1>1, <1>2, <1>3, PTL DEF Backups!Spec

-----------------------------------------------------------------------------
(***************************************************************************)
(* Queries: the tables and the cache they read.  Taken is what the worker  *)
(* has appended; the queue holds ids that are neither dropped nor queued   *)
(* twice (QueueIsClean), so that an id is counted when it is taken.        *)
(***************************************************************************)

tableVars == <<qclock, events, rolled, offered, appendCh, dropped, cached, health, lastFullPrune>>

QueryTypes ==
    /\ qclock \in Nat
    /\ events \in Seq([ts : Int, cred : Cred])
    /\ rolled \in 0..Len(events) /\ offered \in 0..Len(events)

Taken == {i \in 1..offered : i \notin dropped /\ i \notin Queries!ToSet(appendCh)}

OfBucket(ids, c, b) == {i \in ids : events[i].cred = c /\ Queries!Ts(i) \div HealthSpan = b}

QueueIsClean ==
    /\ appendCh \in Seq(1..offered)
    /\ \A n \in 1..Len(appendCh) : appendCh[n] \notin dropped
    /\ \A m, n \in 1..Len(appendCh) : appendCh[m] = appendCh[n] => m = n

DroppedAreOffered == \A i \in dropped : i \in 1..offered

CacheIsWhole ==
    /\ cached \subseteq Taken
    /\ \A i \in Taken : Queries!Ts(i) >= qclock - CacheWindow => i \in cached

HealthIsWhole ==
    /\ health \in [Cred -> [Queries!Bucket -> Nat]]
    /\ \A c \in Cred, b \in Queries!Bucket :
          b * HealthSpan >= Queries!HealthWindowStart(qclock) =>
              health[c][b] = Cardinality(OfBucket(Taken, c, b))

CacheInv == QueryTypes /\ QueueIsClean /\ DroppedAreOffered /\ CacheIsWhole /\ HealthIsWhole

\* The table of events only grows, and an event stays what it is.
EventsGrow ==
    /\ Len(events) <= Len(events')
    /\ \A i \in 1..Len(events) : events'[i] = events[i]

LEMMA QueryCardinality == \A S : Queries!Cardinality(S) = Cardinality(S)
BY Zenon DEF Queries!Cardinality, Cardinality

\* Floor rounds down to a multiple.
LEMMA FloorIsBelow ==
    ASSUME NEW t \in Int, NEW u \in Nat \ {0}
    PROVE  /\ Queries!Floor(t, u) \in Int /\ Queries!Floor(t, u) <= t /\ t < Queries!Floor(t, u) + u
           /\ \E k \in Int : Queries!Floor(t, u) = u * k
<1> DEFINE q == t \div u
<1>1. q \in Int /\ u * q <= t /\ t < u * q + u
  BY Quotient
<1> HIDE DEF q
<1>2. Queries!Floor(t, u) = q * u
  BY DEF Queries!Floor, q
<1>3. q * u = u * q /\ u * q \in Int
  BY <1>1
<1> QED BY <1>1, <1>2, <1>3

LEMMA FloorMonotone ==
    ASSUME NEW t \in Int, NEW v \in Int, NEW u \in Nat \ {0}, t <= v
    PROVE  Queries!Floor(t, u) <= Queries!Floor(v, u)
<1> DEFINE p == t \div u
           q == v \div u
<1>1. p \in Int /\ q \in Int /\ p <= q
  BY Quotient, QuotientMonotone
<1> HIDE DEF p, q
<1>2. p * u <= q * u
  BY <1>1
<1> QED BY <1>2 DEF Queries!Floor, p, q

LEMMA BucketTypes ==
    ASSUME QueryConstants
    PROVE  Queries!Bucket \subseteq Nat
<1>1. LastClock \div HealthSpan \in Int
  BY Quotient DEF QueryConstants
<1> QED BY <1>1 DEF Queries!Bucket

LEMMA EventTypes ==
    ASSUME QueryTypes
    PROVE  /\ Len(events) \in Nat
           /\ \A i \in 1..Len(events) : events[i] \in [ts : Int, cred : Cred]
           /\ \A i \in 1..Len(events) : Queries!Ts(i) \in Int
<1> DEFINE Event == [ts : Int, cred : Cred]
<1>1. events \in Seq(Event)
  BY DEF QueryTypes
<1>2. Len(events) \in Nat /\ \A i \in 1..Len(events) : events[i] \in Event
  <2> HIDE DEF Event
  <2> QED BY <1>1, ElementOfSeq
<1>3. \A e \in [ts : Int, cred : Cred] : e.ts \in Int
  OBVIOUS
<1> QED BY <1>2, <1>3 DEF Queries!Ts

LEMMA TakenIsFinite ==
    ASSUME QueryTypes, NEW S, S \subseteq 1..Len(events)
    PROVE  \A c, b : IsFiniteSet(OfBucket(S, c, b)) /\ Cardinality(OfBucket(S, c, b)) \in Nat
<1>1. Len(events) \in Nat
  BY EventTypes
<1>2. \A c, b : OfBucket(S, c, b) \in SUBSET (1..Len(events))
  BY DEF OfBucket
<1> QED BY <1>1, <1>2, SubsetsFinite

LEMMA CacheStarts == QueryConstants /\ Queries!Init => CacheInv
<1> SUFFICES ASSUME QueryConstants, Queries!Init PROVE CacheInv
  OBVIOUS
<1>1. /\ qclock = FirstClock /\ events = <<>> /\ rolled = 0 /\ offered = 0
      /\ appendCh = <<>> /\ dropped = {} /\ cached = {} /\ health = Queries!NoHealth
  BY DEF Queries!Init
<1>2. QueryTypes
  BY <1>1 DEF QueryTypes, QueryConstants
<1>3. Taken = {}
  BY <1>1 DEF Taken
<1>4. QueueIsClean /\ DroppedAreOffered /\ CacheIsWhole
  BY <1>1, <1>3 DEF QueueIsClean, DroppedAreOffered, CacheIsWhole
<1>5. \A c, b : Cardinality(OfBucket(Taken, c, b)) = 0
  <2>1. \A c, b : OfBucket(Taken, c, b) = {}
    BY <1>3 DEF OfBucket
  <2> QED BY <2>1, FS_EmptySet
<1>6. HealthIsWhole
  BY <1>1, <1>5 DEF HealthIsWhole, Queries!NoHealth
<1> QED BY <1>2, <1>4, <1>6 DEF CacheInv

\* What the invariant says depends on the tables only.
LEMMA SameTablesSameCache ==
    ASSUME CacheInv, UNCHANGED tableVars
    PROVE  CacheInv' /\ EventsGrow
<1>1. /\ qclock' = qclock /\ events' = events /\ rolled' = rolled /\ offered' = offered
      /\ appendCh' = appendCh /\ dropped' = dropped /\ cached' = cached /\ health' = health
  BY DEF tableVars
<1>2. QueryTypes' /\ QueueIsClean' /\ DroppedAreOffered'
  BY <1>1 DEF CacheInv, QueryTypes, QueueIsClean, DroppedAreOffered
<1>3. Taken' = Taken /\ \A S, c, b : OfBucket(S, c, b)' = OfBucket(S, c, b)
  BY <1>1 DEF Taken, OfBucket, Queries!Ts
<1>4. CacheIsWhole'
  BY <1>1, <1>3 DEF CacheInv, CacheIsWhole, Queries!Ts
<1>5. HealthIsWhole'
  BY <1>1, <1>3 DEF CacheInv, HealthIsWhole, OfBucket, Queries!Ts
<1>6. EventsGrow
  BY <1>1, EventTypes DEF CacheInv, EventsGrow
<1> QED BY <1>2, <1>4, <1>5, <1>6 DEF CacheInv

LEMMA TickKeepsCache ==
    ASSUME QueryConstants, CacheInv, Queries!Tick
    PROVE  CacheInv' /\ EventsGrow
<1>1. /\ qclock' = qclock + 1
      /\ events' = events /\ rolled' = rolled /\ offered' = offered
      /\ appendCh' = appendCh /\ dropped' = dropped /\ cached' = cached /\ health' = health
  BY DEF Queries!Tick, Queries!cacheVars
<1>2. QueryTypes' /\ QueueIsClean' /\ DroppedAreOffered'
  BY <1>1 DEF CacheInv, QueryTypes, QueueIsClean, DroppedAreOffered
<1>3. Taken' = Taken /\ \A S, c, b : OfBucket(S, c, b)' = OfBucket(S, c, b)
  BY <1>1 DEF Taken, OfBucket, Queries!Ts
<1>4. qclock \in Nat /\ CacheWindow \in Nat /\ \A i \in Taken : Queries!Ts(i) \in Int /\ Queries!Ts(i)' = Queries!Ts(i)
  <2>1. Taken \subseteq 1..Len(events)
    BY DEF Taken, CacheInv, QueryTypes
  <2> QED BY <1>1, <2>1, EventTypes DEF CacheInv, QueryTypes, QueryConstants, Queries!Ts
<1>5. CacheIsWhole'
  BY <1>1, <1>3, <1>4 DEF CacheInv, CacheIsWhole
<1>6. Queries!HealthWindowStart(qclock) <= Queries!HealthWindowStart(qclock + 1)
      /\ Queries!HealthWindowStart(qclock) \in Int /\ Queries!HealthWindowStart(qclock + 1) \in Int
  <2>1. HealthSpan \in Nat \ {0} /\ HealthWindow \in Nat /\ qclock \in Int /\ qclock + 1 \in Int /\ qclock <= qclock + 1
    BY <1>4 DEF QueryConstants
  <2>2. /\ Queries!Floor(qclock, HealthSpan) \in Int /\ Queries!Floor(qclock + 1, HealthSpan) \in Int
        /\ Queries!Floor(qclock, HealthSpan) <= Queries!Floor(qclock + 1, HealthSpan)
    BY <2>1, FloorIsBelow, FloorMonotone
  <2> QED BY <2>1, <2>2 DEF Queries!HealthWindowStart, Queries!HealthWindowEnd
<1>7. HealthIsWhole'
  <2>1. health' \in [Cred -> [Queries!Bucket -> Nat]]
    BY <1>1 DEF CacheInv, HealthIsWhole
  <2>2. ASSUME NEW c \in Cred, NEW b \in Queries!Bucket,
               b * HealthSpan >= Queries!HealthWindowStart(qclock + 1)
        PROVE  health'[c][b] = Cardinality(OfBucket(Taken, c, b)')
    <3>1. b * HealthSpan \in Int
      BY BucketTypes DEF QueryConstants
    <3>2. b * HealthSpan >= Queries!HealthWindowStart(qclock)
      BY <1>6, <2>2, <3>1
    <3>3. health[c][b] = Cardinality(OfBucket(Taken, c, b))
      BY <3>2 DEF CacheInv, HealthIsWhole
    <3>4. OfBucket(Taken, c, b)' = OfBucket(Taken, c, b)
      BY <1>1, <1>3 DEF OfBucket, Queries!Ts
    <3> QED BY <1>1, <3>3, <3>4
  <2> QED BY <1>1, <2>1, <2>2 DEF HealthIsWhole, Queries!HealthWindowStart, Queries!HealthWindowEnd, Queries!Floor,
             Queries!Bucket
<1>8. EventsGrow
  BY <1>1, EventTypes DEF CacheInv, EventsGrow
<1> QED BY <1>2, <1>5, <1>7, <1>8 DEF CacheInv

\* A new event is not yet offered to the cache.
LEMMA CommitKeepsCache ==
    ASSUME QueryConstants, CacheInv, NEW shape \in QShape, Queries!Commit(shape.age, shape.cred)
    PROVE  CacheInv' /\ EventsGrow
<1> DEFINE e == [ts |-> qclock - shape.age, cred |-> shape.cred]
<1>1. /\ events' = Append(events, e)
      /\ qclock' = qclock /\ rolled' = rolled /\ offered' = offered
      /\ appendCh' = appendCh /\ dropped' = dropped /\ cached' = cached /\ health' = health
  BY DEF Queries!Commit, Queries!cacheVars
<1>2. e \in [ts : Int, cred : Cred] /\ events \in Seq([ts : Int, cred : Cred])
  BY DEF QueryConstants, CacheInv, QueryTypes
<1> HIDE DEF e
<1>3. /\ events' \in Seq([ts : Int, cred : Cred]) /\ Len(events') = Len(events) + 1 /\ Len(events) \in Nat
      /\ \A i \in 1..Len(events) : events'[i] = events[i]
  BY <1>1, <1>2
<1>4. QueryTypes'
  BY <1>1, <1>3 DEF CacheInv, QueryTypes
<1>5. EventsGrow
  BY <1>3 DEF EventsGrow
<1>6. Taken' = Taken /\ Taken \subseteq 1..Len(events)
  BY <1>1 DEF Taken, CacheInv, QueryTypes
<1>7. \A i \in Taken : Queries!Ts(i)' = Queries!Ts(i) /\ events'[i] = events[i]
  BY <1>3, <1>6 DEF Queries!Ts
<1>8. QueueIsClean' /\ DroppedAreOffered' /\ CacheIsWhole'
  BY <1>1, <1>6, <1>7 DEF CacheInv, QueueIsClean, DroppedAreOffered, CacheIsWhole
<1>9. \A c, b : OfBucket(Taken, c, b)' = OfBucket(Taken, c, b)
  BY <1>6, <1>7 DEF OfBucket
<1>10. HealthIsWhole'
  BY <1>1, <1>9 DEF CacheInv, HealthIsWhole
<1> QED BY <1>4, <1>5, <1>8, <1>10 DEF CacheInv

LEMMA TryAppendKeepsCache ==
    ASSUME QueryConstants, CacheInv, Queries!TryAppend
    PROVE  CacheInv' /\ EventsGrow
<1>1. /\ offered < Len(events) /\ offered' = offered + 1
      /\ qclock' = qclock /\ events' = events /\ rolled' = rolled
      /\ cached' = cached /\ health' = health
      /\ \/ appendCh' = Append(appendCh, offered + 1) /\ dropped' = dropped
         \/ dropped' = dropped \cup {offered + 1} /\ appendCh' = appendCh
  BY DEF Queries!TryAppend
<1>2. /\ Len(events) \in Nat /\ offered \in 0..Len(events) /\ appendCh \in Seq(1..offered)
      /\ \A n \in 1..Len(appendCh) : appendCh[n] \in 1..offered
  BY EventTypes DEF CacheInv, QueryTypes, QueueIsClean
<1>3. QueryTypes' /\ EventsGrow
  BY <1>1, <1>2 DEF CacheInv, QueryTypes, EventsGrow
<1>4. 1..offered \subseteq 1..(offered + 1) /\ offered + 1 \in 1..(offered + 1) /\ offered + 1 \notin 1..offered
      /\ 1..(offered + 1) = (1..offered) \cup {offered + 1}
  BY <1>2
<1>5. appendCh \in Seq(1..(offered + 1))
  BY <1>2, <1>4
<1>6. CASE appendCh' = Append(appendCh, offered + 1) /\ dropped' = dropped
  <2>1. /\ appendCh' \in Seq(1..(offered + 1)) /\ Len(appendCh') = Len(appendCh) + 1 /\ Len(appendCh) \in Nat
        /\ \A n \in 1..Len(appendCh) : appendCh'[n] = appendCh[n]
        /\ appendCh'[Len(appendCh) + 1] = offered + 1
    BY <1>4, <1>5, <1>6
  <2>2. \A n \in 1..(Len(appendCh) + 1) : n \in 1..Len(appendCh) \/ n = Len(appendCh) + 1
    BY <2>1
  <2>4. Queries!ToSet(appendCh') = Queries!ToSet(appendCh) \cup {offered + 1}
    <3>1. DOMAIN appendCh = 1..Len(appendCh) /\ DOMAIN appendCh' = 1..(Len(appendCh) + 1)
      BY <1>5, <2>1
    <3>2. 1..(Len(appendCh) + 1) = (1..Len(appendCh)) \cup {Len(appendCh) + 1}
      BY <2>1
    <3> QED BY <2>1, <3>1, <3>2 DEF Queries!ToSet
  <2>5. Taken' = Taken
    BY <1>1, <1>4, <1>6, <2>4 DEF Taken
  <2>6. QueueIsClean'
    <3>1. appendCh' \in Seq(1..offered')
      BY <1>1, <2>1
    <3>2. offered + 1 \notin dropped
      BY <1>4 DEF CacheInv, DroppedAreOffered
    <3>3. \A n \in 1..Len(appendCh') : appendCh'[n] \notin dropped'
      BY <1>6, <2>1, <2>2, <3>2 DEF CacheInv, QueueIsClean
    <3>4. \A m, n \in 1..Len(appendCh') : appendCh'[m] = appendCh'[n] => m = n
      <4>1. \A m, n \in 1..Len(appendCh) : appendCh[m] = appendCh[n] => m = n
        BY DEF CacheInv, QueueIsClean
      <4>2. \A n \in 1..Len(appendCh) : appendCh'[n] # offered + 1 /\ appendCh'[n] = appendCh[n]
        BY <1>2, <1>4, <2>1
      <4> QED BY <2>1, <2>2, <4>1, <4>2
    <3> QED BY <3>1, <3>3, <3>4 DEF QueueIsClean
  <2>7. DroppedAreOffered'
    BY <1>1, <1>4, <1>6 DEF CacheInv, DroppedAreOffered
  <2>8. CacheIsWhole' /\ HealthIsWhole'
    BY <1>1, <2>5 DEF CacheInv, CacheIsWhole, HealthIsWhole, OfBucket, Queries!Ts
  <2> QED BY <1>3, <2>6, <2>7, <2>8 DEF CacheInv
<1>7. CASE dropped' = dropped \cup {offered + 1} /\ appendCh' = appendCh
  <2>1. Taken' = Taken
    BY <1>1, <1>4, <1>7 DEF Taken
  <2>2. QueueIsClean'
    BY <1>1, <1>2, <1>4, <1>5, <1>7 DEF CacheInv, QueueIsClean
  <2>3. DroppedAreOffered'
    BY <1>1, <1>4, <1>7 DEF CacheInv, DroppedAreOffered
  <2>4. CacheIsWhole' /\ HealthIsWhole'
    BY <1>1, <2>1 DEF CacheInv, CacheIsWhole, HealthIsWhole, OfBucket, Queries!Ts
  <2> QED BY <1>3, <2>2, <2>3, <2>4 DEF CacheInv
<1> QED BY <1>1, <1>6, <1>7

LEMMA AggregateKeepsCache ==
    ASSUME QueryConstants, CacheInv, Queries!Aggregate
    PROVE  CacheInv' /\ EventsGrow
<1>1. /\ rolled < Len(events) /\ rolled' = rolled + 1
      /\ qclock' = qclock /\ events' = events /\ offered' = offered
      /\ appendCh' = appendCh /\ dropped' = dropped /\ cached' = cached /\ health' = health
  BY DEF Queries!Aggregate, Queries!cacheVars
<1>2. QueryTypes' /\ EventsGrow
  BY <1>1, EventTypes DEF CacheInv, QueryTypes, EventsGrow
<1>3. QueueIsClean' /\ DroppedAreOffered' /\ Taken' = Taken
  BY <1>1 DEF CacheInv, QueueIsClean, DroppedAreOffered, Taken
<1>4. CacheIsWhole' /\ HealthIsWhole'
  BY <1>1, <1>3 DEF CacheInv, CacheIsWhole, HealthIsWhole, OfBucket, Queries!Ts
<1> QED BY <1>2, <1>3, <1>4 DEF CacheInv

\* Adding an id that is not among them adds one to its bucket.
LEMMA BucketOfOneMore ==
    ASSUME QueryTypes, NEW S \in SUBSET (1..Len(events)), NEW i \in 1..Len(events), i \notin S
    PROVE  \A c, b : Cardinality(OfBucket(S \cup {i}, c, b))
             = Cardinality(OfBucket(S, c, b)) + Cardinality(OfBucket({i}, c, b))
<1> SUFFICES ASSUME NEW c, NEW b
             PROVE  Cardinality(OfBucket(S \cup {i}, c, b))
                      = Cardinality(OfBucket(S, c, b)) + Cardinality(OfBucket({i}, c, b))
  OBVIOUS
<1>1. IsFiniteSet(OfBucket(S, c, b)) /\ Cardinality(OfBucket(S, c, b)) \in Nat
  BY TakenIsFinite
<1>2. CASE i \in OfBucket({i}, c, b)
  <2>1. OfBucket({i}, c, b) = {i} /\ OfBucket(S \cup {i}, c, b) = OfBucket(S, c, b) \cup {i}
        /\ i \notin OfBucket(S, c, b)
    BY <1>2 DEF OfBucket
  <2>2. Cardinality({i}) = 1
    BY FS_Singleton
  <2>3. Cardinality(OfBucket(S, c, b) \cup {i}) = Cardinality(OfBucket(S, c, b)) + 1
    BY <1>1, <2>1, FS_AddElement
  <2> QED BY <2>1, <2>2, <2>3
<1>3. CASE i \notin OfBucket({i}, c, b)
  <2>1. OfBucket({i}, c, b) = {} /\ OfBucket(S \cup {i}, c, b) = OfBucket(S, c, b)
    BY <1>3 DEF OfBucket
  <2>2. Cardinality(OfBucket({i}, c, b)) = 0
    BY <2>1, FS_EmptySet
  <2>3. Cardinality(OfBucket(S \cup {i}, c, b)) = Cardinality(OfBucket(S, c, b))
    BY <2>1
  <2> QED BY <1>1, <2>2, <2>3
<1> QED BY <1>2, <1>3

\* The worker appends the id at the head of the queue to cache and buckets.
LEMMA WorkerKeepsCache ==
    ASSUME QueryConstants, CacheInv, Queries!WorkerAppends
    PROVE  CacheInv' /\ EventsGrow
<1>1. PICK i, full : /\ i = Head(appendCh)
            /\ cached' = Queries!Kept(cached \cup {i})
            /\ health' = Queries!PruneHealth(Queries!AddHealth(health, {i}), {events[i].cred}, full)
  <2>1. /\ cached' = Queries!Kept(cached \cup {Head(appendCh)})
        /\ health' = Queries!PruneHealth(Queries!AddHealth(health, {Head(appendCh)}), {events[Head(appendCh)].cred},
                        Queries!HealthWindowEnd(qclock) - lastFullPrune >= HealthSpan)
    BY DEF Queries!WorkerAppends
  <2> QED BY <2>1
<1>2. /\ appendCh # <<>> /\ appendCh' = Tail(appendCh)
      /\ qclock' = qclock /\ events' = events /\ rolled' = rolled /\ offered' = offered /\ dropped' = dropped
  BY DEF Queries!WorkerAppends
<1>3. /\ Len(events) \in Nat /\ offered \in 0..Len(events) /\ appendCh \in Seq(1..offered) /\ qclock \in Nat
      /\ \A n \in 1..Len(appendCh) : appendCh[n] \notin dropped
      /\ \A m, n \in 1..Len(appendCh) : appendCh[m] = appendCh[n] => m = n
  BY EventTypes DEF CacheInv, QueryTypes, QueueIsClean
<1>4. /\ Len(appendCh) \in Nat \ {0} /\ i = appendCh[1] /\ i \in 1..offered
      /\ appendCh' \in Seq(1..offered) /\ Len(appendCh') = Len(appendCh) - 1
      /\ \A n \in 1..(Len(appendCh) - 1) : appendCh'[n] = appendCh[n + 1]
      /\ DOMAIN appendCh = 1..Len(appendCh) /\ DOMAIN appendCh' = 1..(Len(appendCh) - 1)
  BY <1>1, <1>2, <1>3
<1>5. i \in 1..Len(events)
  BY <1>3, <1>4
<1>6. /\ i \in Queries!ToSet(appendCh) /\ i \notin dropped
      /\ Queries!ToSet(appendCh') = Queries!ToSet(appendCh) \ {i}
  <2>1. i \in Queries!ToSet(appendCh) /\ i \notin dropped
    <3>1. 1 \in 1..Len(appendCh)
      BY <1>4
    <3> QED BY <1>3, <1>4, <3>1 DEF Queries!ToSet
  <2>2. ASSUME NEW x \in Queries!ToSet(appendCh') PROVE x \in Queries!ToSet(appendCh) /\ x # i
    <3>1. PICK n \in 1..(Len(appendCh) - 1) : x = appendCh'[n]
      BY <1>4 DEF Queries!ToSet
    <3>2. x = appendCh[n + 1] /\ n + 1 \in 1..Len(appendCh) /\ n + 1 # 1 /\ 1 \in 1..Len(appendCh)
      BY <1>4, <3>1
    <3> QED BY <1>3, <1>4, <3>2 DEF Queries!ToSet
  <2>3. ASSUME NEW x \in Queries!ToSet(appendCh), x # i PROVE x \in Queries!ToSet(appendCh')
    <3>1. PICK n \in 1..Len(appendCh) : x = appendCh[n]
      BY <1>4 DEF Queries!ToSet
    <3>2. n - 1 \in 1..(Len(appendCh) - 1) /\ x = appendCh[(n - 1) + 1]
      BY <1>4, <2>3, <3>1
    <3>3. appendCh'[n - 1] = x
      BY <1>4, <3>2
    <3> QED BY <1>4, <3>2, <3>3 DEF Queries!ToSet
  <2> QED BY <2>1, <2>2, <2>3
<1>7. Taken' = Taken \cup {i} /\ i \notin Taken /\ Taken \subseteq 1..Len(events)
  BY <1>2, <1>3, <1>4, <1>6 DEF Taken
<1>8. QueryTypes' /\ EventsGrow /\ DroppedAreOffered'
  BY <1>2, EventTypes DEF CacheInv, QueryTypes, EventsGrow, DroppedAreOffered
<1>9. QueueIsClean'
  <2>1. ASSUME NEW n \in 1..(Len(appendCh) - 1) PROVE n + 1 \in 1..Len(appendCh) /\ appendCh'[n] = appendCh[n + 1]
    BY <1>4
  <2>2. \A n \in 1..Len(appendCh') : appendCh'[n] \notin dropped'
    BY <1>2, <1>3, <1>4, <2>1
  <2>3. \A m, n \in 1..Len(appendCh') : appendCh'[m] = appendCh'[n] => m = n
    <3> SUFFICES ASSUME NEW m \in 1..Len(appendCh'), NEW n \in 1..Len(appendCh'), appendCh'[m] = appendCh'[n]
                 PROVE  m = n
      OBVIOUS
    <3>1. m \in 1..(Len(appendCh) - 1) /\ n \in 1..(Len(appendCh) - 1)
      BY <1>4
    <3>2. m + 1 \in 1..Len(appendCh) /\ n + 1 \in 1..Len(appendCh) /\ appendCh[m + 1] = appendCh[n + 1]
      BY <2>1, <3>1
    <3>3. m + 1 = n + 1
      BY <1>3, <3>2
    <3> QED BY <3>1, <3>3
  <2> QED BY <1>2, <1>4, <2>2, <2>3 DEF QueueIsClean
<1>10. CacheIsWhole'
  <2>1. cached' = {j \in cached \cup {i} : Queries!Ts(j) >= qclock - CacheWindow}
    BY <1>1 DEF Queries!Kept
  <2> QED BY <1>2, <1>7, <2>1 DEF CacheInv, CacheIsWhole, Queries!Ts
<1>11. HealthIsWhole'
  <2> DEFINE h == Queries!AddHealth(health, {i})
  <2>1. ASSUME NEW c \in Cred, NEW b \in Queries!Bucket
        PROVE  h[c][b] = health[c][b] + Cardinality(OfBucket({i}, c, b))
    BY QueryCardinality DEF Queries!AddHealth, OfBucket
  <2>2. \A c \in Cred, b \in Queries!Bucket : health[c][b] \in Nat /\ Cardinality(OfBucket({i}, c, b)) \in Nat
    BY <1>5, TakenIsFinite DEF CacheInv, HealthIsWhole
  <2> HIDE DEF h
  <2>3. ASSUME NEW c \in Cred, NEW b \in Queries!Bucket PROVE h[c][b] \in Nat
    <3>1. h[c][b] = health[c][b] + Cardinality(OfBucket({i}, c, b))
      BY <2>1
    <3>2. health[c][b] \in Nat /\ Cardinality(OfBucket({i}, c, b)) \in Nat
      BY <2>2
    <3> QED BY <3>1, <3>2
  <2>4. health' = Queries!PruneHealth(h, {events[i].cred}, full)
    BY <1>1 DEF h
  <2>5. health' \in [Cred -> [Queries!Bucket -> Nat]]
    BY <2>3, <2>4 DEF Queries!PruneHealth
  <2>6. ASSUME NEW c \in Cred, NEW b \in Queries!Bucket, b * HealthSpan >= Queries!HealthWindowStart(qclock)
        PROVE  health'[c][b] = Cardinality(OfBucket(Taken \cup {i}, c, b))
    <3>1. b * HealthSpan \in Int
      BY BucketTypes DEF QueryConstants
    <3>2. Queries!HealthWindowStart(qclock) \in Int
      <4>1. HealthSpan \in Nat \ {0} /\ HealthWindow \in Nat /\ qclock \in Int
        BY <1>3 DEF QueryConstants
      <4>2. Queries!Floor(qclock, HealthSpan) \in Int
        BY <4>1, FloorIsBelow
      <4> QED BY <4>1, <4>2 DEF Queries!HealthWindowStart, Queries!HealthWindowEnd
    <3>3. health'[c][b] = h[c][b]
      BY <2>4, <2>6, <3>1, <3>2 DEF Queries!PruneHealth
    <3>4. health[c][b] = Cardinality(OfBucket(Taken, c, b))
      BY <2>6 DEF CacheInv, HealthIsWhole
    <3>5. Cardinality(OfBucket(Taken \cup {i}, c, b))
             = Cardinality(OfBucket(Taken, c, b)) + Cardinality(OfBucket({i}, c, b))
      <4>1. QueryTypes
        BY DEF CacheInv
      <4>2. Taken \in SUBSET (1..Len(events)) /\ i \notin Taken
        BY <1>7
      <4> QED BY <1>5, <4>1, <4>2, BucketOfOneMore
    <3> QED BY <2>1, <3>3, <3>4, <3>5
  <2>7. \A c, b : OfBucket(Taken, c, b)' = OfBucket(Taken \cup {i}, c, b)
    BY <1>2, <1>7 DEF OfBucket, Queries!Ts
  <2> QED BY <1>2, <2>5, <2>6, <2>7 DEF HealthIsWhole
<1> QED BY <1>8, <1>9, <1>10, <1>11 DEF CacheInv

\* An event of a bucket in the health window is within the rows a start reads.
LEMMA BucketIsLoaded ==
    ASSUME QueryConstants, QueryTypes, NEW c, NEW b \in Queries!Bucket,
           b * HealthSpan >= Queries!HealthWindowStart(qclock)
    PROVE  OfBucket({i \in Queries!Ids : Queries!Ts(i) >= qclock - HealthWindow}, c, b)
             = OfBucket(1..Len(events), c, b)
<1>1. HealthSpan \in Nat \ {0} /\ HealthWindow \in Nat /\ qclock \in Int /\ b \in Int
  BY BucketTypes DEF QueryConstants, QueryTypes
<1>2. Queries!Floor(qclock, HealthSpan) \in Int /\ qclock < Queries!Floor(qclock, HealthSpan) + HealthSpan
  BY <1>1, FloorIsBelow
<1>3. qclock - HealthWindow < Queries!HealthWindowStart(qclock) /\ Queries!HealthWindowStart(qclock) \in Int
  BY <1>1, <1>2 DEF Queries!HealthWindowStart, Queries!HealthWindowEnd
<1>4. ASSUME NEW i \in 1..Len(events), Queries!Ts(i) \div HealthSpan = b
      PROVE  Queries!Ts(i) >= qclock - HealthWindow
  <2>1. Queries!Ts(i) \in Int
    BY EventTypes
  <2>2. HealthSpan * b <= Queries!Ts(i)
    BY <1>1, <1>4, <2>1, Quotient
  <2>3. HealthSpan * b = b * HealthSpan /\ b * HealthSpan \in Int
    BY <1>1
  <2> QED BY <1>1, <1>3, <2>1, <2>2, <2>3
<1> QED BY <1>4 DEF OfBucket, Queries!Ids

LEMMA RestartKeepsCache ==
    ASSUME QueryConstants, CacheInv, Queries!Restart
    PROVE  CacheInv' /\ EventsGrow
<1> DEFINE rows1 == {i \in Queries!Ids : Queries!Ts(i) >= qclock - HealthWindow}
<1>1. /\ offered' = Len(events) /\ appendCh' = <<>> /\ dropped' = {}
      /\ cached' = {i \in 1..Len(events) : Queries!Ts(i) >= qclock - CacheWindow}
      /\ health' = Queries!PruneHealth(Queries!AddHealth(Queries!NoHealth, rows1), Cred, TRUE)
      /\ qclock' = qclock /\ events' = events /\ rolled' = rolled
  BY DEF Queries!Restart, Queries!Loaded, Queries!LoadedHealth, Queries!Ids
<1>2. Len(events) \in Nat /\ qclock \in Nat /\ QueryTypes
  BY EventTypes DEF CacheInv, QueryTypes
<1>3. QueryTypes' /\ EventsGrow /\ DroppedAreOffered' /\ QueueIsClean'
  BY <1>1, <1>2 DEF CacheInv, QueryTypes, EventsGrow, DroppedAreOffered, QueueIsClean
<1>4. Taken' = 1..Len(events)
  BY <1>1 DEF Taken, Queries!ToSet
<1>5. CacheIsWhole'
  BY <1>1, <1>4 DEF CacheIsWhole, Queries!Ts
<1>6. HealthIsWhole'
  <2> DEFINE h == Queries!AddHealth(Queries!NoHealth, rows1)
  <2>0. rows1 \in SUBSET (1..Len(events))
    BY DEF Queries!Ids
  <2>1. ASSUME NEW c \in Cred, NEW b \in Queries!Bucket
        PROVE  h[c][b] = Cardinality(OfBucket(rows1, c, b)) /\ h[c][b] \in Nat
    <3> HIDE DEF rows1
    <3>1. Cardinality(OfBucket(rows1, c, b)) \in Nat
      BY <1>2, <2>0, TakenIsFinite
    <3>2. h[c][b] = 0 + Cardinality(OfBucket(rows1, c, b))
      BY QueryCardinality DEF Queries!AddHealth, Queries!NoHealth, OfBucket
    <3> HIDE DEF h
    <3> QED BY <3>1, <3>2
  <2> HIDE DEF h
  <2>2. health' = Queries!PruneHealth(h, Cred, TRUE)
    BY <1>1 DEF h
  <2>3. health' \in [Cred -> [Queries!Bucket -> Nat]]
    <3>1. \A c \in Cred, b \in Queries!Bucket : h[c][b] \in Nat
      BY <2>1
    <3> QED BY <2>2, <3>1 DEF Queries!PruneHealth
  <2>4. ASSUME NEW c \in Cred, NEW b \in Queries!Bucket, b * HealthSpan >= Queries!HealthWindowStart(qclock)
        PROVE  health'[c][b] = Cardinality(OfBucket(1..Len(events), c, b))
    <3>1. b * HealthSpan \in Int
      BY BucketTypes DEF QueryConstants
    <3>2. Queries!HealthWindowStart(qclock) \in Int
      <4>1. HealthSpan \in Nat \ {0} /\ HealthWindow \in Nat /\ qclock \in Int
        BY <1>2 DEF QueryConstants
      <4>2. Queries!Floor(qclock, HealthSpan) \in Int
        BY <4>1, FloorIsBelow
      <4> QED BY <4>1, <4>2 DEF Queries!HealthWindowStart, Queries!HealthWindowEnd
    <3>3. health'[c][b] = h[c][b]
      BY <2>2, <2>4, <3>1, <3>2 DEF Queries!PruneHealth
    <3>4. OfBucket(rows1, c, b) = OfBucket(1..Len(events), c, b)
      BY <1>2, <2>4, BucketIsLoaded
    <3> QED BY <2>1, <3>3, <3>4
  <2>5. \A c, b : OfBucket(Taken, c, b)' = OfBucket(1..Len(events), c, b)
    BY <1>1, <1>4 DEF OfBucket, Queries!Ts
  <2> QED BY <1>1, <2>3, <2>4, <2>5 DEF HealthIsWhole
<1> QED BY <1>3, <1>5, <1>6 DEF CacheInv

\* A request changes nothing but itself.
RequestStep ==
    \/ \E kind \in Queries!Kinds : Queries!Begin(kind)
    \/ Queries!PlanOverview \/ Queries!ReadEdges \/ Queries!ReadStats \/ Queries!ReadCustom
    \/ Queries!ReadAnalysis \/ Queries!ReadRealtime \/ Queries!OpenList \/ Queries!NextPage
    \/ Queries!Finish

LEMMA RequestsOnlyRead == RequestStep => UNCHANGED tableVars
BY DEF RequestStep, tableVars, Queries!cacheVars, Queries!Begin, Queries!PlanOverview, Queries!ReadEdges,
       Queries!ReadStats, Queries!ReadCustom, Queries!ReadAnalysis, Queries!ReadRealtime, Queries!OpenList,
       Queries!NextPage, Queries!Finish

LEMMA QueryCases ==
    ASSUME [Queries!Next]_(Queries!quvars)
    PROVE  \/ Queries!Tick
           \/ \E shape \in QShape : Queries!Commit(shape.age, shape.cred)
           \/ Queries!TryAppend \/ Queries!Aggregate \/ Queries!WorkerAppends \/ Queries!Restart
           \/ RequestStep
           \/ UNCHANGED <<tableVars, query>>
BY DEF Queries!Next, Queries!quvars, RequestStep, tableVars

LEMMA CacheStep == QueryConstants /\ CacheInv /\ [Queries!Next]_(Queries!quvars) => CacheInv' /\ EventsGrow
<1> SUFFICES ASSUME QueryConstants, CacheInv, [Queries!Next]_(Queries!quvars) PROVE CacheInv' /\ EventsGrow
  OBVIOUS
<1>1. CASE Queries!Tick
  BY <1>1, TickKeepsCache
<1>2. ASSUME NEW shape \in QShape, Queries!Commit(shape.age, shape.cred) PROVE CacheInv' /\ EventsGrow
  BY <1>2, CommitKeepsCache
<1>3. CASE Queries!TryAppend
  BY <1>3, TryAppendKeepsCache
<1>4. CASE Queries!Aggregate
  BY <1>4, AggregateKeepsCache
<1>5. CASE Queries!WorkerAppends
  BY <1>5, WorkerKeepsCache
<1>6. CASE Queries!Restart
  BY <1>6, RestartKeepsCache
<1>7. CASE UNCHANGED tableVars
  BY <1>7, SameTablesSameCache
<1> QED BY <1>1, <1>2, <1>3, <1>4, <1>5, <1>6, <1>7, QueryCases, RequestsOnlyRead

LEMMA CachesHold == QueryConstants => (Queries!Spec => []Queries!CacheHoldsItsWindow)
<1> SUFFICES ASSUME QueryConstants PROVE Queries!Spec => []Queries!CacheHoldsItsWindow
  OBVIOUS
<1>1. Queries!Init => CacheInv
  BY CacheStarts
<1>2. CacheInv /\ [Queries!Next]_(Queries!quvars) => CacheInv'
  BY CacheStep
<1>3. CacheInv => Queries!CacheHoldsItsWindow
  BY QueryCardinality DEF CacheInv, CacheIsWhole, HealthIsWhole, Taken, OfBucket, Queries!CacheHoldsItsWindow
<1> QED BY <1>1, <1>2, <1>3, PTL DEF Queries!Spec

-----------------------------------------------------------------------------
(***************************************************************************)
(* Paging.  What has been shown descends, and every event known when the   *)
(* list was opened has been shown or comes after the cursor.               *)
(***************************************************************************)

Listing == [pc : {"paging", "listed"}, cursor : Nat, seen : Seq(Nat), known : SUBSET Nat]

PagingInv ==
    query.pc \in {"paging", "listed"} =>
        /\ query \in Listing
        /\ query.known \subseteq 1..Len(events)
        /\ \A n \in 1..Len(query.seen) : query.seen[n] \in 1..Len(events)
        /\ \A m, n \in 1..Len(query.seen) : m < n => Queries!Above(query.seen[m], query.seen[n])
        /\ query.cursor = IF Len(query.seen) = 0 THEN 0 ELSE query.seen[Len(query.seen)]
        /\ \A i \in query.known : i \in Queries!ToSet(query.seen) \/ Queries!AfterCursor(i, query.cursor)
        /\ query.pc = "listed" => query.known \subseteq Queries!ToSet(query.seen)

LEMMA AboveIsOrder ==
    ASSUME QueryTypes
    PROVE  /\ \A i, j, k \in 1..Len(events) :
                 Queries!Above(i, j) /\ Queries!Above(j, k) => Queries!Above(i, k)
           /\ \A i, j \in 1..Len(events) : i # j => Queries!Above(i, j) \/ Queries!Above(j, i)
           /\ \A i \in 1..Len(events) : ~Queries!Above(i, i)
           /\ \A i, j \in 1..Len(events) : Queries!AfterCursor(i, j) <=> Queries!Above(j, i)
<1>1. \A i \in 1..Len(events) : Queries!Ts(i) \in Int /\ i \in Int /\ i # 0
  BY EventTypes
<1> QED BY <1>1 DEF Queries!Above, Queries!AfterCursor

\* The rows of a page query: the events of the set, the uppermost first.
LEMMA ListedRows ==
    ASSUME QueryTypes, NEW ids \in SUBSET (1..Len(events))
    PROVE  /\ Queries!Listed(ids) \in Seq(ids)
           /\ \A m, n \in 1..Len(Queries!Listed(ids)) :
                 m < n => Queries!Above(Queries!Listed(ids)[m], Queries!Listed(ids)[n])
           /\ \A i \in ids : \E n \in 1..Len(Queries!Listed(ids)) : Queries!Listed(ids)[n] = i
<1> DEFINE D == 1..Len(events)
           R == {p \in D \X D : Queries!Above(p[1], p[2])}
           N == Cardinality(ids)
<1>1. \A i, j \in D : <<i, j>> \in R <=> Queries!Above(i, j)
  OBVIOUS
<1>2. OrderOn(R, D)
  <2> HIDE DEF R, D
  <2> QED BY <1>1, AboveIsOrder DEF OrderOn, D
<1>3. IsFiniteSet(ids) /\ N \in Nat /\ ids \subseteq D
  <2>1. Len(events) \in Nat
    BY EventTypes
  <2> QED BY <2>1, SubsetsFinite
<1> HIDE DEF R, D
<1>31. IsFiniteSet(ids)
  BY <1>3
<1>32. ids \subseteq D
  BY <1>3
<1>33. \E s \in [1..Cardinality(ids) -> ids] : Lists(s, ids, R)
  BY <1>2, <1>31, <1>32, ListExists
<1>4. PICK s \in [1..N -> ids] :
               /\ \A i, j \in 1..N : i < j => <<s[i], s[j]>> \in R
               /\ \A x \in ids : \E i \in 1..N : s[i] = x
  BY <1>33 DEF N, Lists
<1> HIDE DEF N
<1>5. \A m, n \in DOMAIN s : m < n => Queries!Above(s[m], s[n])
  <2>1. \A m \in 1..N : s[m] \in D
    BY <1>3, <1>4
  <2> QED BY <1>1, <1>4, <2>1
<1>6. Queries!ToSet(s) = ids
  BY <1>4 DEF Queries!ToSet
<1> DEFINE L == Queries!Listed(ids)
<1>7. /\ L \in [1..N -> ids]
      /\ \A m, n \in DOMAIN L : m < n => Queries!Above(L[m], L[n])
      /\ Queries!ToSet(L) = ids
  <2>1. L = CHOOSE t \in [1..N -> ids] : /\ \A m, n \in DOMAIN t : m < n => Queries!Above(t[m], t[n])
                                         /\ Queries!ToSet(t) = ids
    BY QueryCardinality DEF Queries!Listed, N
  <2> HIDE DEF L
  <2> QED BY <1>4, <1>5, <1>6, <2>1
<1> HIDE DEF L
<1>8. L \in Seq(ids) /\ Len(L) = N /\ DOMAIN L = 1..N
  BY <1>3, <1>7
<1>9. \A i \in ids : \E n \in 1..Len(L) : L[n] = i
  BY <1>7, <1>8 DEF Queries!ToSet
<1> QED BY <1>7, <1>8, <1>9 DEF L

\* A page in terms of its rows: the first of them, and the cursor at the last.
LEMMA PageShown ==
    ASSUME QueryConstants, QueryTypes, PagingInv, Queries!NextPage
    PROVE  \E rows1 \in Seq(1..Len(events)), p \in Nat :
             /\ p <= Len(rows1) /\ (p = 0 => Len(rows1) = 0)
             /\ \A i \in 1..Len(events) :
                   Queries!AfterCursor(i, query.cursor) <=> \E n \in 1..Len(rows1) : rows1[n] = i
             /\ \A m, n \in 1..Len(rows1) : m < n => Queries!Above(rows1[m], rows1[n])
             /\ query' \in Listing
             /\ query'.known = query.known
             /\ query'.pc = "listed" => p = Len(rows1)
             /\ Len(query'.seen) = Len(query.seen) + p
             /\ \A n \in 1..Len(query.seen) : query'.seen[n] = query.seen[n]
             /\ \A n \in 1..p : query'.seen[Len(query.seen) + n] = rows1[n]
             /\ query'.cursor = IF p = 0 THEN query.cursor ELSE rows1[p]
<1> DEFINE ids == {i \in Queries!Ids : Queries!AfterCursor(i, query.cursor)}
           rows1 == Queries!Listed(ids)
           shown == IF Len(rows1) > PageSize THEN SubSeq(rows1, 1, PageSize) ELSE rows1
           p == Len(shown)
<1>1. ids \in SUBSET (1..Len(events))
  BY DEF Queries!Ids
<1>2. /\ rows1 \in Seq(ids)
      /\ \A m, n \in 1..Len(rows1) : m < n => Queries!Above(rows1[m], rows1[n])
      /\ \A i \in ids : \E n \in 1..Len(rows1) : rows1[n] = i
  <2> HIDE DEF ids
  <2> QED BY <1>1, ListedRows
<1>3. \A i \in 1..Len(events) : i \in ids <=> Queries!AfterCursor(i, query.cursor)
  BY DEF Queries!Ids
<1>4. query' = [query EXCEPT !.pc = IF Len(rows1) > PageSize THEN "paging" ELSE "listed",
                             !.seen = query.seen \o shown,
                             !.cursor = IF shown = <<>> THEN query.cursor ELSE shown[Len(shown)]]
      /\ query.pc = "paging"
  BY DEF Queries!NextPage
<1>5. query \in Listing /\ PageSize \in Nat \ {0}
  BY <1>4 DEF PagingInv, QueryConstants
<1> HIDE DEF rows1, ids
<1>6. rows1 \in Seq(1..Len(events)) /\ Len(rows1) \in Nat /\ \A n \in 1..Len(rows1) : rows1[n] \in ids
  <2>1. Len(rows1) \in Nat /\ rows1 \in [1..Len(rows1) -> ids]
    BY <1>2
  <2>2. \A n \in 1..Len(rows1) : rows1[n] \in ids
    BY <2>1
  <2>3. rows1 \in [1..Len(rows1) -> 1..Len(events)]
    BY <1>1, <2>1, <2>2
  <2> QED BY <2>1, <2>2, <2>3
<1>7. /\ shown \in Seq(1..Len(events)) /\ p \in Nat /\ p <= Len(rows1) /\ (p = 0 => Len(rows1) = 0)
      /\ \A n \in 1..p : shown[n] = rows1[n]
      /\ ~(Len(rows1) > PageSize) => p = Len(rows1)
  <2>1. CASE Len(rows1) > PageSize
    <3>1. shown = SubSeq(rows1, 1, PageSize)
      BY <2>1
    <3>2. /\ SubSeq(rows1, 1, PageSize) \in Seq(1..Len(events)) /\ Len(SubSeq(rows1, 1, PageSize)) = PageSize
          /\ \A n \in 1..PageSize : SubSeq(rows1, 1, PageSize)[n] = rows1[n]
      <4>1. \A n \in 1..PageSize : n \in 1..Len(rows1)
        BY <1>5, <1>6, <2>1
      <4> QED BY <1>5, <1>6, <2>1, <4>1
    <3> HIDE DEF shown
    <3> QED BY <1>5, <1>6, <2>1, <3>1, <3>2
  <2>2. CASE ~(Len(rows1) > PageSize)
    BY <1>6, <2>2
  <2> QED BY <2>1, <2>2
<1> HIDE DEF shown
<1>8. shown = <<>> <=> p = 0
  BY <1>7
<1>9. shown \in Seq(Nat) /\ query.seen \in Seq(Nat) /\ query.cursor \in Nat /\ query.known \in SUBSET Nat
      /\ (p # 0 => shown[p] \in Nat /\ shown[p] = rows1[p])
  <2>1. 1..Len(events) \subseteq Nat
    OBVIOUS
  <2>2. query.seen \in Seq(Nat) /\ query.cursor \in Nat /\ query.known \in SUBSET Nat
    BY <1>5 DEF Listing
  <2>3. shown \in Seq(Nat)
    BY <1>7, <2>1
  <2> QED BY <1>7, <2>2, <2>3
<1>10. /\ query'.pc = IF Len(rows1) > PageSize THEN "paging" ELSE "listed"
       /\ query'.seen = query.seen \o shown
       /\ query'.cursor = IF shown = <<>> THEN query.cursor ELSE shown[Len(shown)]
       /\ query'.known = query.known
  BY <1>4, <1>5 DEF Listing
<1>11. query' \in Listing
  <2>1. query.seen \o shown \in Seq(Nat)
    BY <1>9
  <2>2. (IF shown = <<>> THEN query.cursor ELSE shown[Len(shown)]) \in Nat
    BY <1>8, <1>9 DEF p
  <2> QED BY <1>4, <1>5, <2>1, <2>2 DEF Listing
<1>12. /\ Len(query.seen \o shown) = Len(query.seen) + p
       /\ \A n \in 1..Len(query.seen) : (query.seen \o shown)[n] = query.seen[n]
       /\ \A n \in 1..p : (query.seen \o shown)[Len(query.seen) + n] = shown[n]
  BY <1>9
<1>13. query'.pc = "listed" => p = Len(rows1)
  BY <1>7, <1>10
<1>14. query'.cursor = IF p = 0 THEN query.cursor ELSE rows1[p]
  BY <1>8, <1>9, <1>10
<1>15. \A i \in 1..Len(events) :
          Queries!AfterCursor(i, query.cursor) <=> \E n \in 1..Len(rows1) : rows1[n] = i
  BY <1>2, <1>3, <1>6
<1>16. /\ \A n \in 1..Len(query.seen) : query'.seen[n] = query.seen[n]
       /\ \A n \in 1..p : query'.seen[Len(query.seen) + n] = rows1[n]
       /\ Len(query'.seen) = Len(query.seen) + p
  BY <1>7, <1>10, <1>12
<1>17. rows1 \in Seq(1..Len(events)) /\ p \in Nat
  BY <1>6, <1>7
<1> HIDE DEF p
<1> QED BY <1>2, <1>7, <1>10, <1>11, <1>13, <1>14, <1>15, <1>16, <1>17

\* One more page keeps it so.
LEMMA NextPageKeepsPaging ==
    ASSUME QueryConstants, QueryTypes, PagingInv, Queries!NextPage
    PROVE  PagingInv'
<1>1. PICK rows1 \in Seq(1..Len(events)), p \in Nat :
             /\ p <= Len(rows1) /\ (p = 0 => Len(rows1) = 0)
             /\ \A i \in 1..Len(events) :
                   Queries!AfterCursor(i, query.cursor) <=> \E n \in 1..Len(rows1) : rows1[n] = i
             /\ \A m, n \in 1..Len(rows1) : m < n => Queries!Above(rows1[m], rows1[n])
             /\ query' \in Listing
             /\ query'.known = query.known
             /\ query'.pc = "listed" => p = Len(rows1)
             /\ Len(query'.seen) = Len(query.seen) + p
             /\ \A n \in 1..Len(query.seen) : query'.seen[n] = query.seen[n]
             /\ \A n \in 1..p : query'.seen[Len(query.seen) + n] = rows1[n]
             /\ query'.cursor = IF p = 0 THEN query.cursor ELSE rows1[p]
  BY PageShown
<1>2. events' = events /\ query.pc = "paging"
  BY DEF Queries!NextPage
<1>3. PICK n0, c0, seen0 : n0 = Len(query.seen) /\ c0 = query.cursor /\ seen0 = query.seen
  OBVIOUS
<1>4. PICK seen1 : seen1 = query'.seen
  OBVIOUS
<1>5. PICK E : E = 1..Len(events)
  OBVIOUS
<1>6. /\ n0 \in Nat /\ c0 \in Nat
      /\ query.known \subseteq E
      /\ \A n \in 1..n0 : seen0[n] \in E
      /\ \A m, n \in 1..n0 : m < n => Queries!Above(seen0[m], seen0[n])
      /\ c0 = IF n0 = 0 THEN 0 ELSE seen0[n0]
      /\ \A i \in query.known : i \in Queries!ToSet(seen0) \/ Queries!AfterCursor(i, c0)
      /\ seen0 \in Seq(Nat) /\ Len(seen0) = n0
  <2>1. query \in Listing
    BY <1>2 DEF PagingInv
  <2>2. query.seen \in Seq(Nat) /\ query.cursor \in Nat
    BY <2>1 DEF Listing
  <2>3. /\ query.known \subseteq 1..Len(events)
        /\ \A n \in 1..Len(query.seen) : query.seen[n] \in 1..Len(events)
        /\ query.cursor = IF Len(query.seen) = 0 THEN 0 ELSE query.seen[Len(query.seen)]
    BY <1>2 DEF PagingInv
  <2>4. \A m, n \in 1..Len(query.seen) : m < n => Queries!Above(query.seen[m], query.seen[n])
    BY <1>2 DEF PagingInv
  <2>5. \A i \in query.known : i \in Queries!ToSet(query.seen) \/ Queries!AfterCursor(i, query.cursor)
    BY <1>2 DEF PagingInv
  <2>6. n0 \in Nat /\ c0 \in Nat /\ seen0 \in Seq(Nat) /\ Len(seen0) = n0
    BY <1>3, <2>2
  <2>7. /\ query.known \subseteq E
        /\ \A n \in 1..n0 : seen0[n] \in E
        /\ c0 = IF n0 = 0 THEN 0 ELSE seen0[n0]
    BY <1>3, <1>5, <2>3
  <2>8. \A m, n \in 1..n0 : m < n => Queries!Above(seen0[m], seen0[n])
    BY <1>3, <2>4
  <2>9. \A i \in query.known : i \in Queries!ToSet(seen0) \/ Queries!AfterCursor(i, c0)
    BY <1>3, <2>5
  <2> QED BY <2>6, <2>7, <2>8, <2>9
<1>7. /\ seen1 \in Seq(Nat) /\ Len(seen1) = n0 + p
      /\ \A n \in 1..n0 : seen1[n] = seen0[n]
      /\ \A n \in 1..p : seen1[n0 + n] = rows1[n]
  <2>1. query'.seen \in Seq(Nat)
    BY <1>1 DEF Listing
  <2> QED BY <1>1, <1>3, <1>4, <2>1
<1>8. Len(rows1) \in Nat /\ \A n \in 1..Len(rows1) : rows1[n] \in E
  BY <1>1, <1>5
<1>9. \A n \in 1..(n0 + p) : n \in 1..n0 \/ (n - n0 \in 1..p /\ n0 + (n - n0) = n)
  BY <1>1, <1>6
<1>10. \A n \in 1..p : n \in 1..Len(rows1)
  BY <1>1, <1>8
<1>11. \A n \in 1..(n0 + p) : n \notin 1..n0 => n - n0 \in 1..p /\ seen1[n] = rows1[n - n0]
  BY <1>7, <1>9
<1>12. \A n \in 1..Len(seen1) : seen1[n] \in E
  BY <1>6, <1>7, <1>8, <1>10, <1>11
<1>13. /\ \A i, j, k \in E : Queries!Above(i, j) /\ Queries!Above(j, k) => Queries!Above(i, k)
       /\ \A i, j \in E : Queries!AfterCursor(i, j) <=> Queries!Above(j, i)
  BY <1>5, AboveIsOrder
<1>14. ASSUME NEW m \in 1..Len(seen1), NEW n \in 1..Len(seen1), m < n
       PROVE  Queries!Above(seen1[m], seen1[n])
  <2>1. CASE n \in 1..n0
    <3>1. m \in 1..n0
      BY <1>6, <1>7, <1>14, <2>1
    <3> QED BY <1>6, <1>7, <1>14, <2>1, <3>1
  <2>2. CASE m \in 1..n0 /\ n \notin 1..n0
    <3>1. seen1[m] = seen0[m] /\ seen1[n] = rows1[n - n0] /\ n - n0 \in 1..Len(rows1)
      BY <1>7, <1>10, <1>11, <2>2
    <3>2. n0 # 0 /\ n0 \in 1..n0 /\ c0 = seen0[n0] /\ c0 \in E
      BY <1>6, <2>2
    <3>3. Queries!AfterCursor(rows1[n - n0], c0) /\ rows1[n - n0] \in E
      BY <1>1, <1>3, <1>5, <1>8, <3>1
    <3>4. Queries!Above(c0, rows1[n - n0])
      BY <1>13, <3>2, <3>3
    <3>5. m = n0 \/ m < n0
      BY <1>6, <2>2
    <3>6. seen0[m] = c0 \/ Queries!Above(seen0[m], c0)
      BY <1>6, <2>2, <3>2, <3>5
    <3>7. seen0[m] \in E
      BY <1>6, <2>2
    <3> QED BY <1>13, <3>1, <3>2, <3>3, <3>4, <3>6, <3>7
  <2>3. CASE m \notin 1..n0 /\ n \notin 1..n0
    <3>1. /\ seen1[m] = rows1[m - n0] /\ m - n0 \in 1..Len(rows1)
          /\ seen1[n] = rows1[n - n0] /\ n - n0 \in 1..Len(rows1)
      BY <1>7, <1>10, <1>11, <2>3
    <3>2. m - n0 < n - n0
      BY <1>6, <1>7, <1>14
    <3> QED BY <1>1, <3>1, <3>2
  <2>4. m \in 1..n0 \/ n \notin 1..n0
    BY <1>6, <1>7, <1>14
  <2> QED BY <2>1, <2>2, <2>3, <2>4
<1>15. query'.cursor = IF Len(seen1) = 0 THEN 0 ELSE seen1[Len(seen1)]
  <2>1. CASE p = 0
    BY <1>1, <1>3, <1>6, <1>7, <2>1
  <2>2. CASE p # 0
    <3>1. p \in 1..p /\ n0 + p # 0
      BY <1>1, <1>6, <2>2
    <3> QED BY <1>1, <1>7, <2>2, <3>1
  <2> QED BY <2>1, <2>2
<1>16. \A n \in 1..Len(seen1) : seen1[n] \in Queries!ToSet(seen1)
  <2>1. DOMAIN seen1 = 1..Len(seen1)
    BY <1>7
  <2> QED BY <2>1 DEF Queries!ToSet
<1>17. ASSUME NEW i \in query.known
       PROVE  /\ i \in Queries!ToSet(seen1) \/ Queries!AfterCursor(i, query'.cursor)
              /\ p = Len(rows1) => i \in Queries!ToSet(seen1)
  <2>1. CASE i \in Queries!ToSet(seen0)
    <3>1. PICK n \in 1..n0 : seen0[n] = i
      <4>1. DOMAIN seen0 = 1..n0
        BY <1>6
      <4> QED BY <2>1, <4>1 DEF Queries!ToSet
    <3>2. n \in 1..Len(seen1) /\ seen1[n] = i
      BY <1>1, <1>6, <1>7, <3>1
    <3> QED BY <1>16, <3>2
  <2>2. CASE Queries!AfterCursor(i, c0)
    <3>1. PICK n \in 1..Len(rows1) : rows1[n] = i
      BY <1>1, <1>3, <1>5, <1>6, <2>2
    <3>2. CASE n <= p
      <4>1. n \in 1..p /\ n0 + n \in 1..Len(seen1)
        BY <1>1, <1>6, <1>7, <1>8, <3>2
      <4>2. seen1[n0 + n] = i
        BY <1>7, <3>1, <4>1
      <4> QED BY <1>16, <4>1, <4>2
    <3>3. CASE n > p
      <4>1. p \in 1..Len(rows1) /\ p # 0 /\ p < n
        BY <1>1, <1>8, <3>3
      <4>2. Queries!Above(rows1[p], i)
        BY <1>1, <3>1, <4>1
      <4>3. Queries!AfterCursor(i, rows1[p])
        BY <1>8, <1>13, <3>1, <4>1, <4>2
      <4>4. query'.cursor = rows1[p]
        BY <1>1, <4>1
      <4>5. p # Len(rows1)
        BY <1>8, <3>3
      <4> QED BY <4>3, <4>4, <4>5
    <3> QED BY <1>1, <1>8, <3>2, <3>3
  <2> QED BY <1>6, <2>1, <2>2
<1>18. query'.known = query.known /\ query.known \subseteq E
  BY <1>1, <1>6
<1>21. \A i : Queries!AfterCursor(i, query.cursor)' <=> Queries!AfterCursor(i, query'.cursor)
  BY <1>2 DEF Queries!AfterCursor, Queries!Ts
<1>22. \A m, n \in 1..Len(query'.seen) : m < n => Queries!Above(query.seen[m], query.seen[n])'
  <2>1. \A m, n : Queries!Above(query.seen[m], query.seen[n])' <=> Queries!Above(query'.seen[m], query'.seen[n])
    BY <1>2 DEF Queries!Above, Queries!Ts
  <2> QED BY <1>4, <1>14, <2>1
<1>23. \A i \in query'.known : i \in Queries!ToSet(query'.seen) \/ Queries!AfterCursor(i, query.cursor)'
  BY <1>4, <1>17, <1>18, <1>21
<1>24. query'.pc = "listed" => query'.known \subseteq Queries!ToSet(query'.seen)
  BY <1>1, <1>4, <1>17, <1>18
<1>25. \A n \in 1..Len(query'.seen) : query'.seen[n] \in 1..Len(events')
  BY <1>2, <1>4, <1>5, <1>12
<1> QED BY <1>1, <1>2, <1>4, <1>5, <1>15, <1>18, <1>22, <1>23, <1>24, <1>25 DEF PagingInv, Queries!ToSet

\* The table may grow under an open list: what is shown stays in order.
LEMMA TablesKeepPaging ==
    ASSUME QueryTypes, QueryTypes', EventsGrow, PagingInv, query' = query
    PROVE  PagingInv'
<1> SUFFICES ASSUME query.pc \in {"paging", "listed"} PROVE PagingInv'
  BY DEF PagingInv
<1>1. Len(events) \in Nat /\ Len(events') \in Nat /\ 1..Len(events) \subseteq 1..Len(events')
      /\ \A i \in 1..Len(events) : i # 0 /\ Queries!Ts(i)' = Queries!Ts(i)
  <2>1. Len(events) \in Nat /\ Len(events') \in Nat
    BY DEF QueryTypes
  <2> QED BY <2>1 DEF EventsGrow, Queries!Ts
<1>2. \A i, j \in 1..Len(events) : Queries!Above(i, j) => Queries!Above(i, j)'
  BY <1>1 DEF Queries!Above
<1>3. \A m, n \in 1..Len(query.seen) : m < n => Queries!Above(query.seen[m], query.seen[n])'
  <2>1. \A m, n \in 1..Len(query.seen) :
           Queries!Above(query.seen[m], query.seen[n]) => Queries!Above(query.seen[m], query.seen[n])'
    BY <1>1 DEF Queries!Above, PagingInv, Queries!Ts, EventsGrow
  <2> QED BY <2>1 DEF PagingInv
<1>4. query.cursor = 0 \/ query.cursor \in 1..Len(events)
  <2>1. query \in Listing
    BY DEF PagingInv
  <2>2. Len(query.seen) \in Nat
    BY <2>1 DEF Listing
  <2> QED BY <2>2 DEF PagingInv
<1>5. \A i \in query.known : Queries!AfterCursor(i, query.cursor) => Queries!AfterCursor(i, query.cursor)'
  BY <1>1, <1>4 DEF Queries!AfterCursor, PagingInv, Queries!Ts, EventsGrow
<1>6. \A i \in query'.known : i \in Queries!ToSet(query'.seen) \/ Queries!AfterCursor(i, query.cursor)'
  BY <1>5 DEF PagingInv
<1>7. /\ query' \in Listing /\ query'.known \subseteq 1..Len(events')
      /\ \A n \in 1..Len(query'.seen) : query'.seen[n] \in 1..Len(events')
      /\ query'.cursor = IF Len(query'.seen) = 0 THEN 0 ELSE query'.seen[Len(query'.seen)]
      /\ query'.pc = "listed" => query'.known \subseteq Queries!ToSet(query'.seen)
  BY <1>1 DEF PagingInv
<1> QED BY <1>3, <1>6, <1>7 DEF PagingInv, Queries!ToSet

LEMMA OpenListKeepsPaging ==
    ASSUME QueryTypes, Queries!OpenList
    PROVE  PagingInv'
<1>1. query' = [pc |-> "paging", cursor |-> 0, seen |-> <<>>, known |-> 1..Len(events)] /\ events' = events
  BY DEF Queries!OpenList, Queries!Ids
<1>2. Len(events) \in Nat
  BY EventTypes
<1>3. query' \in Listing
  BY <1>1, <1>2 DEF Listing
<1>4. query'.pc = "paging" /\ query'.cursor = 0 /\ query'.seen = <<>> /\ query'.known = 1..Len(events)
  BY <1>1
<1> QED BY <1>1, <1>3, <1>4 DEF PagingInv, Queries!AfterCursor

\* The other requests are none of its business.
LEMMA OthersKeepPaging ==
    ASSUME "pc" \in DOMAIN query, RequestStep
    PROVE  /\ "pc" \in DOMAIN query'
           /\ \/ Queries!OpenList \/ Queries!NextPage
              \/ query'.pc \in {"idle", "parsed", "planned", "edges", "done"}
<1>1. ASSUME NEW kind \in Queries!Kinds, Queries!Begin(kind) PROVE query'.pc = "parsed" /\ "pc" \in DOMAIN query'
  BY <1>1 DEF Queries!Begin
<1>2. CASE Queries!PlanOverview
  BY <1>2 DEF Queries!PlanOverview
<1>3. CASE Queries!ReadEdges
  BY <1>3 DEF Queries!ReadEdges
<1>4. CASE Queries!ReadStats \/ Queries!ReadCustom \/ Queries!ReadAnalysis \/ Queries!ReadRealtime
  BY <1>4 DEF Queries!ReadStats, Queries!ReadCustom, Queries!ReadAnalysis, Queries!ReadRealtime, Queries!Answer
<1>5. CASE Queries!Finish
  BY <1>5 DEF Queries!Finish, Queries!Idle
<1>6. CASE Queries!OpenList
  BY <1>6 DEF Queries!OpenList
<1>7. CASE Queries!NextPage
  BY <1>7 DEF Queries!NextPage
<1> QED BY <1>1, <1>2, <1>3, <1>4, <1>5, <1>6, <1>7 DEF RequestStep

PagesInv == CacheInv /\ "pc" \in DOMAIN query /\ PagingInv

LEMMA PagesStep == QueryConstants /\ PagesInv /\ [Queries!Next]_(Queries!quvars) => PagesInv'
<1> SUFFICES ASSUME QueryConstants, PagesInv, [Queries!Next]_(Queries!quvars) PROVE PagesInv'
  OBVIOUS
<1>1. CacheInv /\ CacheInv' /\ EventsGrow /\ QueryTypes /\ QueryTypes' /\ PagingInv /\ "pc" \in DOMAIN query
  BY CacheStep DEF PagesInv, CacheInv
<1>2. CASE query' = query
  BY <1>1, <1>2, TablesKeepPaging DEF PagesInv
<1>3. CASE RequestStep
  <2>1. "pc" \in DOMAIN query'
    BY <1>1, <1>3, OthersKeepPaging
  <2>2. CASE Queries!OpenList
    BY <1>1, <2>1, <2>2, OpenListKeepsPaging DEF PagesInv
  <2>3. CASE Queries!NextPage
    BY <1>1, <2>1, <2>3, NextPageKeepsPaging DEF PagesInv
  <2>4. CASE query'.pc \in {"idle", "parsed", "planned", "edges", "done"}
    BY <1>1, <2>1, <2>4 DEF PagesInv, PagingInv
  <2> QED BY <1>1, <1>3, <2>2, <2>3, <2>4, OthersKeepPaging
<1>4. CASE Queries!Restart
  <2>1. query' = [pc |-> "idle"]
    BY <1>4 DEF Queries!Restart, Queries!Idle
  <2> QED BY <1>1, <2>1 DEF PagesInv, PagingInv
<1>5. \/ query' = query \/ RequestStep \/ Queries!Restart
  BY QueryCases DEF Queries!Tick, Queries!Commit, Queries!TryAppend, Queries!Aggregate, Queries!WorkerAppends
<1> QED BY <1>2, <1>3, <1>4, <1>5

LEMMA PagesShow == QueryConstants => (Queries!Spec => []Queries!PagesShowEachEventOnce)
<1> SUFFICES ASSUME QueryConstants PROVE Queries!Spec => []Queries!PagesShowEachEventOnce
  OBVIOUS
<1>1. Queries!Init => PagesInv
  <2> SUFFICES ASSUME Queries!Init PROVE PagesInv
    OBVIOUS
  <2>1. query = [pc |-> "idle"]
    BY DEF Queries!Init, Queries!Idle
  <2> QED BY <2>1, CacheStarts DEF PagesInv, PagingInv
<1>2. PagesInv /\ [Queries!Next]_(Queries!quvars) => PagesInv'
  BY PagesStep
<1>3. PagesInv => Queries!PagesShowEachEventOnce
  <2> SUFFICES ASSUME PagesInv, query.pc \in {"paging", "listed"}
               PROVE  Queries!IsInjective(query.seen) /\ (query.pc = "listed" => query.known \subseteq Queries!ToSet(query.seen))
    BY DEF Queries!PagesShowEachEventOnce
  <2>1. query \in Listing /\ QueryTypes
    BY DEF PagesInv, PagingInv, CacheInv
  <2>2. DOMAIN query.seen = 1..Len(query.seen) /\ Len(query.seen) \in Nat
    BY <2>1 DEF Listing
  <2>3. \A m, n \in 1..Len(query.seen) : m < n => query.seen[m] # query.seen[n]
    BY <2>1, AboveIsOrder DEF PagesInv, PagingInv
  <2>4. \A m, n \in 1..Len(query.seen) : m # n => m < n \/ n < m
    BY <2>2
  <2> QED BY <2>2, <2>3, <2>4 DEF PagesInv, PagingInv, Queries!IsInjective
<1> QED BY <1>1, <1>2, <1>3, PTL DEF Queries!Spec

-----------------------------------------------------------------------------
(***************************************************************************)
(* Overviews.  The plan of a request splits its range at skip: hours that  *)
(* lie wholly inside it are read from the rollups, the edges are read as   *)
(* events.  An event that was settled when the request began stays in the  *)
(* cache for as long as the clock allows, and leaves settled otherwise.    *)
(***************************************************************************)

QRange == [start : Int, end : Int, last : BOOLEAN]

Asking == [pc : {"parsed", "planned", "edges"}, kind : Queries!Kinds, range : QRange, at : Int,
           edge : SUBSET Nat, skip : Int \X Int, settled : SUBSET Nat]

\* The split is inside the range; it may end with the range only if the range ends now.
Planned(q) ==
    /\ q.range.last
    /\ q.range.start <= q.skip[1] /\ q.skip[1] <= q.skip[2]
    /\ q.skip[1] < q.skip[2] => q.skip[2] <= q.range.end
    /\ q.skip[2] = q.range.end => Queries!CurrentRight(q.kind)

Skipped(q, i) == Queries!Ts(i) >= q.skip[1] /\ Queries!Ts(i) < q.skip[2]

EdgesAreRead(q) ==
    /\ \A i \in q.edge : /\ ~Skipped(q, i) /\ Queries!Ts(i) >= q.range.start
                         /\ Queries!Ts(i) <= q.range.end \/ Queries!CurrentRight(q.kind)
    /\ \A i \in q.settled :
          /\ q.range.start < q.range.end /\ ~Skipped(q, i)
          /\ Queries!Ts(i) >= q.range.start /\ Queries!Ts(i) <= q.range.end
          => i \in q.edge

StillCached(S) == \A i \in S : Queries!Ts(i) >= qclock - CacheWindow => i \in cached

RequestInv ==
    query.pc \in {"parsed", "planned", "edges"} =>
        /\ query \in Asking
        /\ query.at <= qclock
        /\ query.settled \subseteq 1..rolled /\ query.edge \subseteq 1..Len(events)
        /\ StillCached(query.settled)
        /\ query.pc = "parsed" => query.range = Queries!QueryRange(query.kind, query.at)
        /\ query.pc # "parsed" => Planned(query)
        /\ query.pc = "edges" => EdgesAreRead(query)

AnswerInv ==
    /\ query.pc = "done" => DOMAIN query.counted \subseteq 1..Len(events)
    /\ Queries!OverviewCountsOnce

LEMMA RangeTypes ==
    ASSUME QueryConstants, NEW kind \in Queries!Kinds, NEW t \in Int
    PROVE  Queries!QueryRange(kind, t) \in QRange
<1>1. /\ Hour \in Nat \ {0} /\ Day \in Nat \ {0}
      /\ RollHours \in Int /\ RollDays \in Int /\ CacheWindow \in Int
  BY DEF QueryConstants
<1>2. Queries!Floor(t, Day) \in Int /\ Queries!Floor(t, Hour) \in Int
  BY <1>1, FloorIsBelow
<1>3. CASE kind \in {"hours", "analysisHours"}
  BY <1>1, <1>3 DEF QRange, Queries!QueryRange
<1>4. CASE kind \in {"days", "analysisDays"}
  BY <1>1, <1>4 DEF QRange, Queries!QueryRange
<1>5. CASE kind \in {"today", "yesterday"}
  BY <1>1, <1>2, <1>5 DEF QRange, Queries!QueryRange
<1>6. CASE kind \in {"customHour", "customDay"}
  BY <1>1, <1>2, <1>6 DEF QRange, Queries!QueryRange
<1>7. CASE kind = "realtime"
  BY <1>1, <1>7 DEF QRange, Queries!QueryRange
<1> QED BY <1>3, <1>4, <1>5, <1>6, <1>7 DEF Queries!Kinds

\* Both ends of the full hours are multiples of an hour.
LEMMA FullHoursSplit ==
    ASSUME QueryConstants, NEW r \in QRange
    PROVE  /\ Queries!FullHours(r) \in Int \X Int
           /\ r.start <= Queries!FullHours(r)[1] /\ Queries!FullHours(r)[1] <= Queries!FullHours(r)[2]
           /\ Queries!FullHours(r)[1] < Queries!FullHours(r)[2] => Queries!FullHours(r)[2] <= r.end
           /\ \E k \in Int : Queries!FullHours(r)[2] = Hour * k
<1>1. Hour \in Nat \ {0} /\ r.start \in Int /\ r.end \in Int
  BY DEF QueryConstants, QRange
<1> DEFINE from == IF r.start % Hour = 0 THEN r.start ELSE Queries!Floor(r.start, Hour) + Hour
           to == Queries!Floor(r.end, Hour)
<1>2. to \in Int /\ to <= r.end /\ \E k \in Int : to = Hour * k
  BY <1>1, FloorIsBelow
<1>3. from \in Int /\ r.start <= from /\ \E k \in Int : from = Hour * k
  <2>1. CASE r.start % Hour = 0
    <3>1. r.start = Hour * (r.start \div Hour) /\ r.start \div Hour \in Int
      BY <1>1, <2>1
    <3>2. PICK k \in Int : k = r.start \div Hour
      BY <3>1
    <3>3. r.start = Hour * k /\ from = r.start
      BY <2>1, <3>1, <3>2
    <3> HIDE DEF from
    <3>4. from = Hour * k
      BY <3>3
    <3>5. from \in Int /\ r.start <= from
      BY <1>1, <3>3
    <3> QED BY <3>4, <3>5
  <2>2. CASE r.start % Hour # 0
    <3>1. PICK k \in Int : Queries!Floor(r.start, Hour) = Hour * k
      BY <1>1, FloorIsBelow
    <3>2. Hour * k + Hour = Hour * (k + 1) /\ k + 1 \in Int
      BY <1>1
    <3>3. r.start < Hour * k + Hour /\ Hour * k \in Int
      BY <1>1, <3>1, FloorIsBelow
    <3>4. from = Hour * k + Hour
      BY <2>2, <3>1
    <3> HIDE DEF from
    <3>5. from = Hour * (k + 1)
      BY <3>2, <3>4
    <3> QED BY <1>1, <3>2, <3>3, <3>4, <3>5
  <2> QED BY <2>1, <2>2
<1>4. Queries!FullHours(r) = <<from, IF to < from THEN from ELSE to>>
  BY DEF Queries!FullHours
<1> HIDE DEF from, to
<1> QED BY <1>1, <1>2, <1>3, <1>4

\* The end of yesterday is no full hour: an hour is longer than an instant.
LEMMA YesterdayEndsInsideAnHour ==
    ASSUME QueryConstants, NEW t \in Int, NEW k \in Int
    PROVE  Queries!Floor(t, Day) - 1 # Hour * k
<1>1. Hour \in Nat /\ Hour >= 2 /\ Day \in Nat \ {0} /\ Day % Hour = 0
  BY DEF QueryConstants
<1>2. PICK d \in Int : Queries!Floor(t, Day) = Day * d
  BY <1>1, FloorIsBelow
<1>3. PICK m \in Int : Day = Hour * m
  <2>1. Day = Hour * (Day \div Hour) /\ Day \div Hour \in Int
    BY <1>1
  <2> QED BY <2>1
<1>4. PICK z \in Int : z = m * d - k
  OBVIOUS
<1>5. (Hour * m) * d = Hour * (m * d) /\ m * d \in Int
  BY <1>1
<1>6. Hour * (m * d) - Hour * k = Hour * z
  BY <1>1, <1>4, <1>5
<1>7. Hour * z # 1
  <2>1. CASE z <= 0
    BY <1>1, <2>1
  <2>2. CASE z >= 1
    BY <1>1, <2>2
  <2> QED BY <2>1, <2>2
<1>8. Hour * k \in Int /\ Hour * (m * d) \in Int
  BY <1>1, <1>5
<1>9. Queries!Floor(t, Day) = Hour * (m * d)
  BY <1>2, <1>3, <1>5
<1> QED BY <1>6, <1>7, <1>8, <1>9

\* An edge: a window of the range that is read as events.
EdgeWindow == [start : Int, end : Int, last : BOOLEAN, open : BOOLEAN]

EdgeOf(w, r, ends) == w \in EdgeWindow /\ r.start <= w.start /\ w.end <= r.end /\ (w.open => ends)

\* Merging two edges neither leaves the range nor uncovers an instant.
LEMMA MergingCovers ==
    ASSUME NEW L, NEW R, NEW ws, ws \subseteq {L, R}, NEW r \in QRange, NEW ends,
           \A w \in ws : EdgeOf(w, r, ends)
    PROVE  /\ \A w \in Queries!MergedEdges(ws) : EdgeOf(w, r, ends)
           /\ \A t \in Int : (\E w \in ws : Queries!In(t, w)) => \E w \in Queries!MergedEdges(ws) : Queries!In(t, w)
<1>1. CASE ~\E a, b \in ws : a # b /\ a.start <= b.start /\ b.start <= a.end
  <2>1. Queries!MergedEdges(ws) = ws
    BY <1>1 DEF Queries!MergedEdges
  <2> QED BY <2>1
<1>2. CASE \E a, b \in ws : a # b /\ a.start <= b.start /\ b.start <= a.end
  <2> DEFINE Touching(p) == /\ p[1] # p[2] /\ p[1].start <= p[2].start
                            /\ p[2].start <= p[1].end
             Merge(x, y) == [start |-> x.start,
                             end   |-> IF y.end > x.end THEN y.end ELSE x.end,
                             last  |-> IF y.end > x.end THEN y.last ELSE x.last \/ y.last,
                             open  |-> IF y.end > x.end THEN y.open ELSE x.open \/ y.open]
  <2>1. \E p \in ws \X ws : Touching(p)
    <3>1. PICK a \in ws, b \in ws : a # b /\ a.start <= b.start /\ b.start <= a.end
      BY <1>2
    <3>2. <<a, b>> \in ws \X ws /\ Touching(<<a, b>>)
      BY <3>1
    <3> HIDE DEF Touching
    <3> QED BY <3>2
  <2>2. PICK pair : pair = CHOOSE p \in ws \X ws : Touching(p)
    OBVIOUS
  <2>3. pair \in ws \X ws /\ Touching(pair)
    BY <2>1, <2>2
  <2>4. PICK a \in ws, b \in ws : a = pair[1] /\ b = pair[2]
    BY <2>3
  <2>5. a # b /\ a.start <= b.start /\ b.start <= a.end
    BY <2>3, <2>4
  <2>6. PICK m : m = Merge(a, b)
    OBVIOUS
  <2>7. Queries!MergedEdges(ws) = {m}
    <3>1. Queries!MergedEdges(ws) =
             IF \E x, y \in ws : x # y /\ x.start <= y.start /\ y.start <= x.end
             THEN LET p1 == CHOOSE p \in ws \X ws : Touching(p) IN {Merge(p1[1], p1[2])}
             ELSE ws
      BY Zenon DEF Queries!MergedEdges
    <3> HIDE DEF Merge
    <3>2. Queries!MergedEdges(ws) = LET p1 == CHOOSE p \in ws \X ws : Touching(p) IN {Merge(p1[1], p1[2])}
      BY <1>2, <3>1, Zenon
    <3>3. Queries!MergedEdges(ws) = {Merge(pair[1], pair[2])}
      BY <2>2, <3>2
    <3> QED BY <2>4, <2>6, <3>3
  <2>8. ws = {a, b}
    BY <2>5
  <2>9. a \in EdgeWindow /\ b \in EdgeWindow /\ EdgeOf(a, r, ends) /\ EdgeOf(b, r, ends)
    BY DEF EdgeOf
  <2>10. /\ a.start \in Int /\ a.end \in Int /\ a.last \in BOOLEAN /\ a.open \in BOOLEAN
         /\ b.start \in Int /\ b.end \in Int /\ b.last \in BOOLEAN /\ b.open \in BOOLEAN
         /\ r.start \in Int /\ r.end \in Int
    BY <2>9 DEF EdgeWindow, QRange
  <2>11. EdgeOf(m, r, ends)
    <3>1. m.last \in BOOLEAN /\ m.open \in BOOLEAN
      BY <2>6, <2>10
    <3>2. m.start = a.start /\ m.end = IF b.end > a.end THEN b.end ELSE a.end
      BY <2>6
    <3>3. m \in EdgeWindow
      BY <2>6, <2>10 DEF EdgeWindow
    <3>4. m.open => ends
      BY <2>6, <2>9, <2>10 DEF EdgeOf
    <3> QED BY <2>9, <2>10, <3>2, <3>3, <3>4 DEF EdgeOf
  <2>12. ASSUME NEW t \in Int, NEW w \in ws, Queries!In(t, w) PROVE Queries!In(t, m)
    <3>0. m.start = a.start /\ m.end = (IF b.end > a.end THEN b.end ELSE a.end)
          /\ m.last = (IF b.end > a.end THEN b.last ELSE a.last \/ b.last)
      BY <2>6
    <3>1. CASE w = a
      BY <2>10, <2>12, <3>0, <3>1 DEF Queries!In
    <3>2. CASE w = b
      BY <2>5, <2>10, <2>12, <3>0, <3>2 DEF Queries!In
    <3> QED BY <2>8, <3>1, <3>2
  <2> QED BY <2>7, <2>11, <2>12
<1> QED BY <1>1, <1>2

\* The edges lie in the range, and cover what the full hours leave of it.
LEMMA EdgesCover ==
    ASSUME NEW q, q.range \in QRange, q.skip \in Int \X Int, Planned(q), NEW ws,
           ws = Queries!MergedEdges(Queries!EdgeWindows(q.range, q.skip, Queries!CurrentRight(q.kind)))
    PROVE  /\ \A w \in ws : EdgeOf(w, q.range, Queries!CurrentRight(q.kind))
           /\ \A t \in Int : /\ q.range.start < q.range.end
                             /\ q.range.start <= t /\ t <= q.range.end
                             /\ ~(t >= q.skip[1] /\ t < q.skip[2])
                             => \E w \in ws : Queries!In(t, w)
<1>1. PICK r, full, ends : r = q.range /\ full = q.skip /\ ends = Queries!CurrentRight(q.kind)
  OBVIOUS
<1>2. r \in QRange /\ r.start \in Int /\ r.end \in Int /\ r.last = TRUE /\ full[1] \in Int /\ full[2] \in Int /\ ends \in BOOLEAN
  BY <1>1 DEF QRange, Planned, Queries!CurrentRight
<1>3. /\ r.start <= full[1] /\ full[1] <= full[2]
      /\ full[1] < full[2] => full[2] <= r.end
      /\ full[2] = r.end => ends
  BY <1>1 DEF Planned
<1>4. CASE r.start >= r.end
  <2>1. Queries!EdgeWindows(r, full, ends) = {}
    BY <1>4 DEF Queries!EdgeWindows
  <2>2. ws = {}
    BY <1>1, <2>1 DEF Queries!MergedEdges
  <2> QED BY <1>1, <1>2, <1>4, <2>2
<1>5. CASE ~(r.start >= r.end)
  <2>1. PICK leftEnd : leftEnd = IF r.end < full[1] THEN r.end ELSE full[1]
    OBVIOUS
  <2>2. PICK from : from = IF full[2] < r.start THEN r.start ELSE full[2]
    OBVIOUS
  <2>3. PICK L : L = [start |-> r.start, end |-> leftEnd, last |-> r.last /\ leftEnd = r.end,
                      open |-> ends /\ leftEnd = r.end]
    OBVIOUS
  <2>4. PICK R : R = [start |-> from, end |-> r.end, last |-> r.last, open |-> ends]
    OBVIOUS
  <2>5. PICK es : es = Queries!EdgeWindows(r, full, ends)
    OBVIOUS
  <2>6. es = (IF r.start < leftEnd THEN {L} ELSE {})
             \cup (IF full[2] <= r.end /\ (from < r.end \/ (ends /\ from = r.end)) THEN {R} ELSE {})
    BY <1>5, <2>1, <2>2, <2>3, <2>4, <2>5 DEF Queries!EdgeWindows
  <2>7. leftEnd \in Int /\ from = full[2] /\ leftEnd <= r.end /\ leftEnd <= full[1]
    BY <1>2, <1>3, <2>1, <2>2
  <2>8. EdgeOf(L, r, ends)
    <3>1. L \in EdgeWindow
      BY <1>2, <2>3, <2>7 DEF EdgeWindow
    <3>2. L.start = r.start /\ L.end = leftEnd /\ (L.open => ends)
      BY <1>2, <2>3
    <3> QED BY <1>2, <2>7, <3>1, <3>2 DEF EdgeOf
  <2>9. EdgeOf(R, r, ends)
    <3>1. R \in EdgeWindow
      BY <1>2, <2>4, <2>7 DEF EdgeWindow
    <3>2. R.start = full[2] /\ R.end = r.end /\ (R.open => ends)
      BY <1>2, <2>4, <2>7
    <3> QED BY <1>2, <1>3, <2>7, <3>1, <3>2 DEF EdgeOf
  <2>10. es \subseteq {L, R} /\ \A w \in es : EdgeOf(w, r, ends)
    BY <2>6, <2>8, <2>9
  <2>11. /\ \A w \in Queries!MergedEdges(es) : EdgeOf(w, r, ends)
         /\ \A t \in Int : (\E w \in es : Queries!In(t, w)) => \E w \in Queries!MergedEdges(es) : Queries!In(t, w)
    BY <1>2, <2>10, MergingCovers
  <2>12. ASSUME NEW t \in Int, r.start <= t, t <= r.end, ~(t >= full[1] /\ t < full[2])
         PROVE  \E w \in es : Queries!In(t, w)
    <3>1. CASE t < full[1]
      <4>1. r.start < leftEnd
        BY <1>2, <1>5, <2>1, <2>12, <3>1
      <4>2. L \in es
        BY <2>6, <4>1
      <4>3. L.start = r.start /\ L.end = leftEnd /\ (leftEnd = r.end => L.last)
        BY <1>2, <2>3
      <4>4. t < leftEnd \/ (t = leftEnd /\ leftEnd = r.end)
        BY <1>2, <2>1, <2>12, <3>1
      <4>5. Queries!In(t, L)
        BY <2>12, <4>3, <4>4 DEF Queries!In
      <4> QED BY <4>2, <4>5
    <3>2. CASE t >= full[2]
      <4>1. full[2] <= r.end /\ (full[2] < r.end \/ (full[2] = r.end /\ ends))
        BY <1>2, <1>3, <2>12, <3>2
      <4>2. R \in es
        BY <2>6, <2>7, <4>1
      <4>3. R.start = full[2] /\ R.end = r.end /\ R.last
        BY <1>2, <2>4, <2>7
      <4>4. Queries!In(t, R)
        BY <1>2, <2>12, <3>2, <4>3 DEF Queries!In
      <4> QED BY <4>2, <4>4
    <3> QED BY <1>2, <2>12, <3>1, <3>2
  <2>13. ws = Queries!MergedEdges(es)
    BY <1>1, <2>5
  <2> QED BY <1>1, <2>11, <2>12, <2>13
<1> QED BY <1>4, <1>5

\* A part that holds an event is counted once.
LEMMA CountOfOne ==
    ASSUME NEW T, \A m, n \in T : m = n
    PROVE  Cardinality(T) <= 1 /\ (Cardinality(T) = 1 <=> T # {})
<1>1. CASE T = {}
  <2>1. Cardinality(T) = 0
    BY <1>1, FS_EmptySet
  <2> QED BY <1>1, <2>1
<1>2. CASE T # {}
  <2>1. PICK n \in T : T = {n}
    BY <1>2
  <2>2. Cardinality(T) = 1
    BY <2>1, FS_Singleton
  <2> QED BY <1>2, <2>2
<1> QED BY <1>1, <1>2

\* An answer is right if its parts are disjoint, within the range, and hold
\* what was settled.
LEMMA AnswerIsRight ==
    ASSUME QueryTypes, NEW parts, NEW r, NEW ends, Queries!Answer(parts, r, ends), events' = events,
           \A i \in 1..Len(events) : \A m, n \in DOMAIN parts : i \in parts[m] /\ i \in parts[n] => m = n,
           \A i \in 1..Len(events) : \A n \in DOMAIN parts :
              i \in parts[n] => Queries!In(Queries!Ts(i), r) \/ (ends /\ Queries!Ts(i) >= r.start),
           \A i \in query.settled \ Queries!Lapsed :
              i \in 1..Len(events) /\ Queries!In(Queries!Ts(i), r) /\ r.start < r.end
              => \E n \in DOMAIN parts : i \in parts[n]
    PROVE  AnswerInv'
<1>1. PICK q : q = query'
  OBVIOUS
<1> DEFINE With(i) == {n \in DOMAIN parts : i \in parts[n]}
<1>2. /\ q.pc = "done" /\ q.range = r /\ q.open = ends
      /\ q.counted = [i \in 1..Len(events) |-> Cardinality(With(i))]
      /\ q.settled = query.settled \ Queries!Lapsed
  BY <1>1, QueryCardinality DEF Queries!Answer, Queries!Ids
<1>3. ASSUME NEW i \in 1..Len(events)
      PROVE  /\ q.counted[i] <= 1
             /\ q.counted[i] = 1 => Queries!In(Queries!Ts(i), q.range) \/ (q.open /\ Queries!Ts(i) >= q.range.start)
             /\ /\ i \in q.settled /\ Queries!In(Queries!Ts(i), q.range) /\ q.range.start < q.range.end
                => q.counted[i] = 1
  <2>1. q.counted[i] = Cardinality(With(i))
    BY <1>2
  <2>2. \A m, n \in With(i) : m = n
    OBVIOUS
  <2>3. With(i) # {} <=> \E n \in DOMAIN parts : i \in parts[n]
    OBVIOUS
  <2> HIDE DEF With
  <2>4. Cardinality(With(i)) <= 1 /\ (Cardinality(With(i)) = 1 <=> With(i) # {})
    BY <2>2, CountOfOne
  <2> QED BY <1>2, <2>1, <2>3, <2>4
<1>4. DOMAIN q.counted = 1..Len(events)
  BY <1>2
<1>5. \A i : Queries!Ts(i)' = Queries!Ts(i)
  BY DEF Queries!Ts
<1>6. \A i \in DOMAIN query'.counted :
            /\ query'.counted[i] <= 1
            /\ query'.counted[i] = 1 =>
                  Queries!In(Queries!Ts(i)', query'.range) \/ (query'.open /\ Queries!Ts(i)' >= query'.range.start)
            /\ /\ i \in query'.settled /\ Queries!In(Queries!Ts(i)', query'.range)
               /\ query'.range.start < query'.range.end
               => query'.counted[i] = 1
  BY <1>1, <1>3, <1>4, <1>5
<1>7. Queries!OverviewCountsOnce'
  BY <1>6 DEF Queries!OverviewCountsOnce, Queries!In, Queries!Ts
<1> QED BY <1>1, <1>4, <1>7 DEF AnswerInv

\* Tables move on: events are kept, and the cache lets go only of what is old.
TablesMoveOn ==
    /\ EventsGrow /\ query' = query
    /\ rolled <= rolled' /\ qclock <= qclock'
    /\ \A i \in 1..Len(events) : i \in cached /\ Queries!Ts(i) >= qclock' - CacheWindow => i \in cached'

LEMMA TablesKeepRequest ==
    ASSUME QueryConstants, QueryTypes, QueryTypes', RequestInv, AnswerInv, TablesMoveOn
    PROVE  RequestInv' /\ AnswerInv'
<1>1. /\ Len(events) \in Nat /\ Len(events') \in Nat /\ 1..Len(events) \subseteq 1..Len(events')
      /\ rolled \in 0..Len(events) /\ rolled' \in Nat /\ qclock \in Int /\ qclock' \in Int /\ CacheWindow \in Int
      /\ \A i \in 1..Len(events) : Queries!Ts(i)' = Queries!Ts(i) /\ Queries!Ts(i) \in Int
  <2>1. Len(events) \in Nat /\ Len(events') \in Nat
    BY DEF QueryTypes
  <2>2. \A i \in 1..Len(events) : Queries!Ts(i) \in Int
    BY EventTypes
  <2> QED BY <2>1, <2>2 DEF QueryTypes, QueryConstants, TablesMoveOn, EventsGrow, Queries!Ts
<1>2. PICK q : q = query
  OBVIOUS
<1>3. query' = q
  BY <1>2 DEF TablesMoveOn
<1>4. RequestInv'
  <2> SUFFICES ASSUME q.pc \in {"parsed", "planned", "edges"} PROVE RequestInv'
    BY <1>3 DEF RequestInv
  <2>1. /\ q \in Asking /\ q.at <= qclock
        /\ q.settled \subseteq 1..rolled /\ q.edge \subseteq 1..Len(events)
        /\ StillCached(q.settled)
        /\ q.pc = "parsed" => q.range = Queries!QueryRange(q.kind, q.at)
        /\ q.pc # "parsed" => Planned(q)
        /\ q.pc = "edges" => EdgesAreRead(q)
    BY <1>2 DEF RequestInv
  <2>2. q.at \in Int /\ q.at <= qclock'
    BY <1>1, <2>1 DEF Asking, TablesMoveOn
  <2>3. q.settled \subseteq 1..rolled' /\ q.settled \subseteq 1..Len(events) /\ q.edge \subseteq 1..Len(events')
    BY <1>1, <2>1 DEF TablesMoveOn
  <2>4. StillCached(q.settled)'
    <3>1. ASSUME NEW i \in q.settled, Queries!Ts(i)' >= qclock' - CacheWindow PROVE i \in cached'
      <4>1. i \in 1..Len(events) /\ Queries!Ts(i) \in Int /\ Queries!Ts(i)' = Queries!Ts(i)
        BY <1>1, <2>3
      <4>2. Queries!Ts(i) >= qclock' - CacheWindow /\ Queries!Ts(i) >= qclock - CacheWindow
        BY <1>1, <3>1, <4>1 DEF TablesMoveOn
      <4> QED BY <2>1, <4>1, <4>2 DEF StillCached, TablesMoveOn
    <3> QED BY <3>1 DEF StillCached
  <2>5. q.pc = "parsed" => q.range = Queries!QueryRange(q.kind, q.at)'
    BY <2>1 DEF Queries!QueryRange, Queries!Floor
  <2>6. q.pc # "parsed" => Planned(q)'
    BY <2>1 DEF Planned, Queries!CurrentRight
  <2>7. q.pc = "edges" => EdgesAreRead(q)'
    <3> SUFFICES ASSUME q.pc = "edges" PROVE EdgesAreRead(q)'
      OBVIOUS
    <3>1. \A i \in q.edge \cup q.settled : Queries!Ts(i)' = Queries!Ts(i)
      BY <1>1, <2>1, <2>3
    <3> QED BY <2>1, <3>1 DEF EdgesAreRead, Skipped, Queries!CurrentRight
  <2> QED BY <1>3, <2>1, <2>2, <2>3, <2>4, <2>5, <2>6, <2>7
          DEF RequestInv, StillCached, Planned, EdgesAreRead, Skipped, Queries!CurrentRight, Queries!QueryRange,
              Queries!Floor
<1>5. AnswerInv'
  <2> SUFFICES ASSUME q.pc = "done" PROVE AnswerInv'
    BY <1>3 DEF AnswerInv, Queries!OverviewCountsOnce
  <2>1. DOMAIN q.counted \subseteq 1..Len(events)
    BY <1>2 DEF AnswerInv
  <2>2. \A i \in DOMAIN q.counted : Queries!Ts(i)' = Queries!Ts(i)
    BY <1>1, <2>1
  <2>3. \A i \in DOMAIN q.counted :
            /\ q.counted[i] <= 1
            /\ q.counted[i] = 1 =>
                  Queries!In(Queries!Ts(i)', q.range) \/ (q.open /\ Queries!Ts(i)' >= q.range.start)
            /\ /\ i \in q.settled /\ Queries!In(Queries!Ts(i)', q.range)
               /\ q.range.start < q.range.end
               => q.counted[i] = 1
    BY <1>2, <2>2 DEF AnswerInv, Queries!OverviewCountsOnce
  <2>4. Queries!OverviewCountsOnce'
    BY <1>3, <2>3 DEF Queries!OverviewCountsOnce, Queries!In, Queries!Ts
  <2> QED BY <1>1, <1>3, <2>1, <2>4 DEF AnswerInv
<1> QED BY <1>4, <1>5

LEMMA TableStepsMoveOn ==
    ASSUME QueryConstants, CacheInv, EventsGrow,
           \/ Queries!Tick \/ \E shape \in QShape : Queries!Commit(shape.age, shape.cred)
           \/ Queries!TryAppend \/ Queries!Aggregate \/ Queries!WorkerAppends
           \/ UNCHANGED <<tableVars, query>>
    PROVE  TablesMoveOn
<1>1. qclock \in Nat /\ rolled \in Nat
  <2>1. Len(events) \in Nat
    BY EventTypes DEF CacheInv
  <2> QED BY <2>1 DEF CacheInv, QueryTypes
<1>2. CASE Queries!Tick
  BY <1>1, <1>2 DEF TablesMoveOn, Queries!Tick, Queries!cacheVars
<1>3. CASE \E shape \in QShape : Queries!Commit(shape.age, shape.cred)
  BY <1>1, <1>3 DEF TablesMoveOn, Queries!Commit, Queries!cacheVars
<1>4. CASE Queries!TryAppend
  BY <1>1, <1>4 DEF TablesMoveOn, Queries!TryAppend
<1>5. CASE Queries!Aggregate
  BY <1>1, <1>5 DEF TablesMoveOn, Queries!Aggregate, Queries!cacheVars
<1>6. CASE Queries!WorkerAppends
  <2>1. /\ cached' = Queries!Kept(cached \cup {Head(appendCh)})
        /\ qclock' = qclock /\ rolled' = rolled /\ query' = query
    BY <1>6 DEF Queries!WorkerAppends
  <2>2. \A i \in cached : Queries!Ts(i) >= qclock - CacheWindow => i \in cached'
    BY <2>1 DEF Queries!Kept
  <2>3. /\ query' = query /\ rolled <= rolled' /\ qclock <= qclock'
        /\ \A i \in 1..Len(events) : i \in cached /\ Queries!Ts(i) >= qclock' - CacheWindow => i \in cached'
    <3>1. query' = query /\ rolled <= rolled' /\ qclock <= qclock' /\ qclock' = qclock
      BY <1>1, <2>1
    <3> QED BY <2>2, <3>1
  <2> QED BY <2>3 DEF TablesMoveOn
<1>7. CASE UNCHANGED <<tableVars, query>>
  BY <1>1, <1>7 DEF TablesMoveOn, tableVars
<1> QED BY <1>2, <1>3, <1>4, <1>5, <1>6, <1>7

\* What the invariants say of the next request, said of its record.
LEMMA RequestIsNext ==
    ASSUME NEW q, query' = q, UNCHANGED tableVars, q.pc \in {"parsed", "planned", "edges"},
           q \in Asking, q.at <= qclock,
           q.settled \subseteq 1..rolled, q.edge \subseteq 1..Len(events), StillCached(q.settled),
           q.pc = "parsed" => q.range = Queries!QueryRange(q.kind, q.at),
           q.pc # "parsed" => Planned(q),
           q.pc = "edges" => EdgesAreRead(q)
    PROVE  RequestInv' /\ AnswerInv'
<1>1. qclock' = qclock /\ events' = events /\ rolled' = rolled /\ cached' = cached
  BY DEF tableVars
<1>2. StillCached(q.settled)'
  BY <1>1 DEF StillCached, Queries!Ts
<1>3. q.pc = "parsed" => q.range = Queries!QueryRange(q.kind, q.at)'
  BY DEF Queries!QueryRange, Queries!Floor
<1>4. q.pc # "parsed" => Planned(q)'
  BY DEF Planned, Queries!CurrentRight
<1>5. q.pc = "edges" => EdgesAreRead(q)'
  BY <1>1 DEF EdgesAreRead, Skipped, Queries!CurrentRight, Queries!Ts
<1>6. RequestInv'
  BY <1>1, <1>2, <1>3, <1>4, <1>5
     DEF RequestInv, StillCached, Planned, EdgesAreRead, Skipped, Queries!CurrentRight, Queries!QueryRange,
         Queries!Floor, Queries!Ts
<1>7. AnswerInv'
  BY DEF AnswerInv, Queries!OverviewCountsOnce
<1> QED BY <1>6, <1>7

LEMMA BeginKeepsRequest ==
    ASSUME QueryConstants, CacheInv, NEW kind \in Queries!Kinds, Queries!Begin(kind)
    PROVE  RequestInv' /\ AnswerInv'
<1>1. UNCHANGED tableVars
  BY RequestsOnlyRead DEF RequestStep
<1>2. PICK q : q = [pc |-> "parsed", kind |-> kind, range |-> Queries!QueryRange(kind, qclock),
                    at |-> qclock, edge |-> {}, skip |-> <<0, 0>>,
                    settled |-> {i \in 1..rolled : i <= offered /\ i \notin dropped
                                   /\ (i \in cached \/ Queries!Ts(i) < qclock - CacheWindow)}]
  OBVIOUS
<1>3. query' = q
  BY <1>2 DEF Queries!Begin
<1>4. /\ q.pc = "parsed" /\ q.kind = kind /\ q.range = Queries!QueryRange(kind, qclock)
      /\ q.at = qclock /\ q.edge = {} /\ q.skip = <<0, 0>>
      /\ q.settled = {i \in 1..rolled : i <= offered /\ i \notin dropped
                                   /\ (i \in cached \/ Queries!Ts(i) < qclock - CacheWindow)}
  BY <1>2
<1>5. /\ qclock \in Nat /\ CacheWindow \in Nat /\ rolled \in Nat /\ 1..rolled \subseteq 1..Len(events)
      /\ \A i \in 1..Len(events) : Queries!Ts(i) \in Int
  <2>1. Len(events) \in Nat /\ \A i \in 1..Len(events) : Queries!Ts(i) \in Int
    BY EventTypes DEF CacheInv
  <2> QED BY <2>1 DEF CacheInv, QueryTypes, QueryConstants
<1>6. StillCached(q.settled) /\ q.settled \subseteq 1..rolled
  BY <1>4, <1>5 DEF StillCached
<1>7. q \in Asking
  <2>1. Queries!QueryRange(kind, qclock) \in QRange
    BY <1>5, RangeTypes
  <2>2. q.settled \subseteq Nat /\ <<0, 0>> \in Int \X Int
    BY <1>5, <1>6
  <2> QED BY <1>2, <1>4, <1>5, <2>1, <2>2 DEF Asking
<1>8. q.at <= qclock /\ q.edge \subseteq 1..Len(events)
  BY <1>4, <1>5
<1> QED BY <1>1, <1>3, <1>4, <1>6, <1>7, <1>8, RequestIsNext

LEMMA LapsedFacts ==
    ASSUME QueryConstants, CacheInv, RequestInv, query.pc \in {"parsed", "planned", "edges"}
    PROVE  /\ query \in Asking /\ query.at \in Int /\ qclock \in Int /\ CacheWindow \in Nat
           /\ query.settled \subseteq 1..Len(events) /\ query.settled \subseteq 1..rolled
           /\ \A i \in 1..Len(events) : Queries!Ts(i) \in Int
           /\ \A i \in query.settled \ Queries!Lapsed : Queries!Ts(i) >= query.at - CacheWindow => i \in cached
           /\ StillCached(query.settled \ Queries!Lapsed)
<1>1. Len(events) \in Nat /\ \A i \in 1..Len(events) : Queries!Ts(i) \in Int
  BY EventTypes DEF CacheInv
<1>2. /\ query \in Asking /\ query.at \in Int /\ qclock \in Int /\ CacheWindow \in Nat
      /\ query.settled \subseteq 1..rolled /\ StillCached(query.settled)
      /\ rolled \in 0..Len(events)
  BY DEF RequestInv, Asking, CacheInv, QueryTypes, QueryConstants
<1>3. query.settled \subseteq 1..Len(events)
  BY <1>1, <1>2
<1>4. \A i \in query.settled \ Queries!Lapsed : Queries!Ts(i) >= query.at - CacheWindow => i \in cached
  <2> SUFFICES ASSUME NEW i \in query.settled, i \notin Queries!Lapsed, Queries!Ts(i) >= query.at - CacheWindow
               PROVE  i \in cached
    OBVIOUS
  <2>1. Queries!Ts(i) \in Int
    BY <1>1, <1>3
  <2>2. ~(Queries!Ts(i) < qclock - CacheWindow)
    BY DEF Queries!Lapsed
  <2>3. Queries!Ts(i) >= qclock - CacheWindow
    BY <1>2, <2>1, <2>2
  <2> QED BY <1>2, <2>3 DEF StillCached
<1>5. StillCached(query.settled \ Queries!Lapsed)
  BY <1>2 DEF StillCached
<1> QED BY <1>1, <1>2, <1>3, <1>4, <1>5

LEMMA PlanKeepsRequest ==
    ASSUME QueryConstants, CacheInv, RequestInv, Queries!PlanOverview
    PROVE  RequestInv' /\ AnswerInv'
<1>1. UNCHANGED tableVars /\ query.pc = "parsed" /\ query.kind \in {"hours", "days", "today", "yesterday"}
  BY RequestsOnlyRead DEF RequestStep, Queries!PlanOverview
<1>2. /\ query \in Asking /\ query.at \in Int /\ qclock \in Int
      /\ query.settled \subseteq 1..rolled
      /\ StillCached(query.settled \ Queries!Lapsed)
  BY <1>1, LapsedFacts
<1>3. /\ query.range = Queries!QueryRange(query.kind, query.at) /\ query.at <= qclock
      /\ query.range \in QRange /\ query.edge \subseteq 1..Len(events)
  BY <1>1, <1>2 DEF RequestInv, Asking
<1>4. PICK r : r = [query.range EXCEPT !.end = Queries!Cut(query.range.end)]
  OBVIOUS
<1>5. r \in QRange /\ r.start = query.range.start /\ r.end = Queries!Cut(query.range.end) /\ r.last = query.range.last
  BY <1>2, <1>3, <1>4 DEF QRange, Queries!Cut
<1>6. PICK q : q = [query EXCEPT !.pc = "planned", !.range = r, !.at = qclock, !.skip = Queries!FullHours(r),
                                 !.settled = query.settled \ Queries!Lapsed]
  OBVIOUS
<1>7. query' = q
  BY <1>4, <1>6 DEF Queries!PlanOverview
<1>8. /\ q.pc = "planned" /\ q.range = r /\ q.at = qclock /\ q.skip = Queries!FullHours(r)
      /\ q.settled = query.settled \ Queries!Lapsed /\ q.kind = query.kind /\ q.edge = query.edge
  BY <1>2, <1>6 DEF Asking
<1>9. /\ Queries!FullHours(r) \in Int \X Int
      /\ r.start <= Queries!FullHours(r)[1] /\ Queries!FullHours(r)[1] <= Queries!FullHours(r)[2]
      /\ Queries!FullHours(r)[1] < Queries!FullHours(r)[2] => Queries!FullHours(r)[2] <= r.end
      /\ \E k \in Int : Queries!FullHours(r)[2] = Hour * k
  BY <1>5, FullHoursSplit
<1>10. r.last = TRUE
  BY <1>1, <1>3, <1>5 DEF Queries!QueryRange
<1>11. Queries!FullHours(r)[2] = r.end => Queries!CurrentRight(query.kind)
  <2> SUFFICES ASSUME query.kind = "yesterday" PROVE Queries!FullHours(r)[2] # r.end
    BY <1>1 DEF Queries!CurrentRight
  <2>1. query.range.end = Queries!Floor(query.at, Day) - 1
    BY <1>3 DEF Queries!QueryRange
  <2>2. Queries!Floor(query.at, Day) \in Int /\ Queries!Floor(query.at, Day) <= query.at
    BY <1>2, FloorIsBelow DEF QueryConstants
  <2>3. r.end = Queries!Floor(query.at, Day) - 1
    BY <1>2, <1>3, <1>5, <2>1, <2>2 DEF Queries!Cut
  <2> QED BY <1>2, <1>9, <2>3, YesterdayEndsInsideAnHour
<1>12. Planned(q)
  BY <1>8, <1>9, <1>10, <1>11 DEF Planned
<1>13. q \in Asking
  <2>1. query.settled \ Queries!Lapsed \in SUBSET Nat
    BY <1>2 DEF Asking
  <2> QED BY <1>2, <1>5, <1>6, <1>9, <2>1 DEF Asking
<1>14. q.at <= qclock /\ q.settled \subseteq 1..rolled /\ q.edge \subseteq 1..Len(events) /\ StillCached(q.settled)
  BY <1>2, <1>3, <1>8
<1> QED BY <1>1, <1>7, <1>8, <1>12, <1>13, <1>14, RequestIsNext

LEMMA EdgesKeepRequest ==
    ASSUME QueryConstants, CacheInv, RequestInv, Queries!ReadEdges
    PROVE  RequestInv' /\ AnswerInv'
<1>1. UNCHANGED tableVars /\ query.pc = "planned"
  BY RequestsOnlyRead DEF RequestStep, Queries!ReadEdges
<1>2. /\ query \in Asking /\ query.at \in Int /\ qclock \in Int /\ CacheWindow \in Nat
      /\ query.settled \subseteq 1..Len(events) /\ query.settled \subseteq 1..rolled
      /\ \A i \in 1..Len(events) : Queries!Ts(i) \in Int
      /\ \A i \in query.settled \ Queries!Lapsed : Queries!Ts(i) >= query.at - CacheWindow => i \in cached
      /\ StillCached(query.settled \ Queries!Lapsed)
  BY <1>1, LapsedFacts
<1>3. Planned(query) /\ query.at <= qclock /\ query.range \in QRange /\ query.skip \in Int \X Int
  BY <1>1, <1>2 DEF RequestInv, Asking
<1>4. PICK ws : ws = Queries!MergedEdges(Queries!EdgeWindows(query.range, query.skip, Queries!CurrentRight(query.kind)))
  OBVIOUS
<1>5. PICK S : S = {i \in UNION {Queries!EdgeEvents(w, query.at) : w \in ws} :
                         ~(Queries!Ts(i) >= query.skip[1] /\ Queries!Ts(i) < query.skip[2])}
  OBVIOUS
<1>6. PICK q : q = [query EXCEPT !.pc = "edges", !.edge = S, !.settled = query.settled \ Queries!Lapsed]
  OBVIOUS
<1>7. query' = q
  BY <1>4, <1>5, <1>6 DEF Queries!ReadEdges
<1>8. /\ q.pc = "edges" /\ q.edge = S /\ q.settled = query.settled \ Queries!Lapsed
      /\ q.range = query.range /\ q.at = query.at /\ q.skip = query.skip /\ q.kind = query.kind
  BY <1>2, <1>6 DEF Asking
<1>9. PICK r, ends : r = query.range /\ ends = Queries!CurrentRight(query.kind)
  OBVIOUS
<1>10. /\ \A w \in ws : EdgeOf(w, r, ends)
       /\ \A t \in Int : /\ r.start < r.end
                         /\ r.start <= t /\ t <= r.end
                         /\ ~(t >= query.skip[1] /\ t < query.skip[2])
                         => \E w \in ws : Queries!In(t, w)
  BY <1>3, <1>4, <1>9, EdgesCover
<1>11. cached \subseteq 1..Len(events)
  <2>1. Len(events) \in Nat /\ offered \in 0..Len(events)
    BY EventTypes DEF CacheInv, QueryTypes
  <2>2. cached \subseteq 1..offered
    BY DEF CacheInv, CacheIsWhole, Taken
  <2> QED BY <2>1, <2>2
<1>12. ASSUME NEW w \in ws, NEW i \in Queries!EdgeEvents(w, query.at)
       PROVE  i \in 1..Len(events) /\ Queries!Ts(i) >= r.start /\ (Queries!Ts(i) <= r.end \/ ends)
  <2>1. i \in 1..Len(events) /\ (Queries!In(Queries!Ts(i), w) \/ (w.open /\ Queries!Ts(i) >= w.start))
    BY <1>11, <1>12 DEF Queries!EdgeEvents, Queries!CachedEvents, Queries!StoredEvents, Queries!Ids
  <2>2. EdgeOf(w, r, ends)
    BY <1>10
  <2>3. w.start \in Int /\ w.end \in Int /\ r.start \in Int /\ r.end \in Int /\ Queries!Ts(i) \in Int
    BY <1>2, <1>3, <1>9, <2>1, <2>2 DEF EdgeOf, EdgeWindow, QRange
  <2> QED BY <2>1, <2>2, <2>3 DEF EdgeOf, Queries!In
<1>13. \A i \in S : /\ i \in 1..Len(events) /\ Queries!Ts(i) >= r.start /\ (Queries!Ts(i) <= r.end \/ ends)
                    /\ ~(Queries!Ts(i) >= query.skip[1] /\ Queries!Ts(i) < query.skip[2])
  BY <1>5, <1>12
<1>14. ASSUME NEW i \in query.settled \ Queries!Lapsed, r.start < r.end,
              Queries!Ts(i) >= r.start, Queries!Ts(i) <= r.end,
              ~(Queries!Ts(i) >= query.skip[1] /\ Queries!Ts(i) < query.skip[2])
       PROVE  i \in S
  <2>1. i \in 1..Len(events) /\ Queries!Ts(i) \in Int /\ r.start \in Int /\ r.end \in Int
    BY <1>2, <1>3, <1>9 DEF QRange
  <2>2. PICK w \in ws : Queries!In(Queries!Ts(i), w)
    BY <1>10, <1>14, <2>1
  <2>3. w.start \in Int /\ w.open \in BOOLEAN /\ Queries!Ts(i) >= w.start
    BY <1>10, <2>2 DEF EdgeOf, EdgeWindow, Queries!In
  <2>4. i \in Queries!EdgeEvents(w, query.at)
    <3>1. CASE w.start >= query.at - CacheWindow
      <4>1. Queries!Ts(i) >= query.at - CacheWindow
        BY <1>2, <2>1, <2>3, <3>1
      <4>2. i \in cached
        BY <1>2, <4>1
      <4>3. i \in Queries!CachedEvents(w)
        BY <2>2, <2>3, <4>2 DEF Queries!CachedEvents
      <4> QED BY <3>1, <4>3 DEF Queries!EdgeEvents
    <3>2. CASE ~(w.start >= query.at - CacheWindow)
      <4>1. i \in Queries!StoredEvents(w)
        BY <2>1, <2>2 DEF Queries!StoredEvents, Queries!Ids
      <4> QED BY <3>2, <4>1 DEF Queries!EdgeEvents
    <3> QED BY <3>1, <3>2
  <2> QED BY <1>5, <1>14, <2>2, <2>4
<1>15. EdgesAreRead(q)
  BY <1>8, <1>9, <1>13, <1>14 DEF EdgesAreRead, Skipped
<1>16. Planned(q)
  BY <1>3, <1>8 DEF Planned
<1>17. q \in Asking
  <2>1. S \in SUBSET Nat /\ query.settled \ Queries!Lapsed \in SUBSET Nat
    BY <1>2, <1>13 DEF Asking
  <2> QED BY <1>2, <1>6, <2>1 DEF Asking
<1>18. q.at <= qclock /\ q.settled \subseteq 1..rolled /\ q.edge \subseteq 1..Len(events) /\ StillCached(q.settled)
  BY <1>2, <1>3, <1>8, <1>13
<1> QED BY <1>1, <1>7, <1>8, <1>15, <1>16, <1>17, <1>18, RequestIsNext

\* The answers.
LEMMA RealtimeKeepsRequest ==
    ASSUME QueryConstants, CacheInv, RequestInv, Queries!ReadRealtime
    PROVE  AnswerInv'
<1>1. events' = events /\ query.pc = "parsed" /\ query.kind = "realtime"
  BY DEF Queries!ReadRealtime
<1>2. \A i \in query.settled \ Queries!Lapsed : Queries!Ts(i) >= query.at - CacheWindow => i \in cached
  BY <1>1, LapsedFacts
<1>3. query.range = [start |-> query.at - CacheWindow, end |-> query.at, last |-> FALSE]
  BY <1>1 DEF RequestInv, Queries!QueryRange
<1>4. PICK r : r = query.range
  OBVIOUS
<1>5. PICK S : S = {i \in cached : Queries!In(Queries!Ts(i), r)}
  OBVIOUS
<1>6. Queries!Answer(<<S>>, r, FALSE)
  BY <1>4, <1>5 DEF Queries!ReadRealtime
<1>7. r.start = query.at - CacheWindow
  BY <1>3, <1>4
<1>8. \A i \in query.settled \ Queries!Lapsed : Queries!In(Queries!Ts(i), r) => i \in S
  BY <1>2, <1>5, <1>7 DEF Queries!In
<1>9. PICK parts : parts = <<S>>
  OBVIOUS
<1>10. DOMAIN parts = {1} /\ parts[1] = S
  BY <1>9
<1>11. \A i \in 1..Len(events) : \A m, n \in DOMAIN parts : i \in parts[m] /\ i \in parts[n] => m = n
  BY <1>10
<1>12. \A i \in 1..Len(events) : \A n \in DOMAIN parts :
          i \in parts[n] => Queries!In(Queries!Ts(i), r) \/ (FALSE /\ Queries!Ts(i) >= r.start)
  BY <1>5, <1>10
<1>13. \A i \in query.settled \ Queries!Lapsed :
          i \in 1..Len(events) /\ Queries!In(Queries!Ts(i), r) /\ r.start < r.end
          => \E n \in DOMAIN parts : i \in parts[n]
  BY <1>8, <1>10
<1>14. QueryTypes /\ Queries!Answer(parts, r, FALSE)
  BY <1>6, <1>9 DEF CacheInv
<1> QED BY <1>1, <1>11, <1>12, <1>13, <1>14, AnswerIsRight

\* An answer from one rollup holds exactly the rolled up events of its window.
LEMMA RollupAnswerIsRight ==
    ASSUME QueryConstants, CacheInv, RequestInv, query.pc = "parsed", events' = events, NEW a, NEW b, NEW r,
           r.start = a, r.end = b, r.last = FALSE,
           Queries!Answer(<<Queries!RolledIn(a, b)>>, r, FALSE)
    PROVE  AnswerInv'
<1>1. query.settled \subseteq 1..rolled
  BY LapsedFacts
<1>2. PICK S : S = Queries!RolledIn(a, b)
  OBVIOUS
<1>3. \A i \in 1..rolled : i \in S <=> Queries!In(Queries!Ts(i), r)
  BY <1>2 DEF Queries!RolledIn, Queries!In
<1>4. S \subseteq 1..rolled
  BY <1>2 DEF Queries!RolledIn
<1>5. PICK parts : parts = <<S>>
  OBVIOUS
<1>6. DOMAIN parts = {1} /\ parts[1] = S
  BY <1>5
<1>7. \A i \in 1..Len(events) : \A m, n \in DOMAIN parts : i \in parts[m] /\ i \in parts[n] => m = n
  BY <1>6
<1>8. \A i \in 1..Len(events) : \A n \in DOMAIN parts :
          i \in parts[n] => Queries!In(Queries!Ts(i), r) \/ (FALSE /\ Queries!Ts(i) >= r.start)
  BY <1>3, <1>4, <1>6
<1>9. \A i \in query.settled \ Queries!Lapsed :
          i \in 1..Len(events) /\ Queries!In(Queries!Ts(i), r) /\ r.start < r.end
          => \E n \in DOMAIN parts : i \in parts[n]
  BY <1>1, <1>3, <1>6
<1>10. QueryTypes /\ Queries!Answer(parts, r, FALSE)
  BY <1>2, <1>5 DEF CacheInv
<1> QED BY <1>7, <1>8, <1>9, <1>10, AnswerIsRight

LEMMA CustomKeepsRequest ==
    ASSUME QueryConstants, CacheInv, RequestInv, Queries!ReadCustom
    PROVE  AnswerInv'
<1>1. events' = events /\ query.pc = "parsed" /\ query.kind \in {"customHour", "customDay"}
  BY DEF Queries!ReadCustom
<1>2. PICK r : r = query.range
  OBVIOUS
<1>3. r.last = FALSE
  BY <1>1, <1>2 DEF RequestInv, Queries!QueryRange
<1>4. Queries!Answer(<<Queries!RolledIn(r.start, r.end)>>, r, FALSE)
  BY <1>2 DEF Queries!ReadCustom
<1> QED BY <1>1, <1>3, <1>4, RollupAnswerIsRight

LEMMA AnalysisKeepsRequest ==
    ASSUME QueryConstants, CacheInv, RequestInv, Queries!ReadAnalysis
    PROVE  AnswerInv'
<1>1. events' = events /\ query.pc = "parsed"
  BY DEF Queries!ReadAnalysis
<1>2. PICK w : w = Queries!AnalysisWindow(query)
  OBVIOUS
<1>3. PICK r : r = [start |-> w[1], end |-> w[2], last |-> FALSE]
  OBVIOUS
<1>4. Queries!Answer(<<Queries!RolledIn(w[1], w[2])>>, r, FALSE)
  BY <1>2, <1>3 DEF Queries!ReadAnalysis
<1>5. r.start = w[1] /\ r.end = w[2] /\ r.last = FALSE
  BY <1>3
<1> QED BY <1>1, <1>4, <1>5, RollupAnswerIsRight

\* Whole days inside the full hours.
LEMMA FullDaysSplit ==
    ASSUME QueryConstants, NEW from \in Int, NEW to \in Int, NEW days, days = Queries!FullDays(from, to)
    PROVE  /\ days[1] \in Int /\ days[2] \in Int /\ from <= days[1]
           /\ days[1] < days[2] => days[2] <= to
<1>1. Day \in Nat \ {0}
  BY DEF QueryConstants
<1> DEFINE first == IF from % Day = 0 THEN from ELSE Queries!Floor(from, Day) + Day
           last == Queries!Floor(to, Day)
<1>2. last \in Int /\ last <= to
  BY <1>1, FloorIsBelow
<1>3. first \in Int /\ from <= first
  BY <1>1, FloorIsBelow
<1>4. days = <<first, IF last < first THEN first ELSE last>>
  BY DEF Queries!FullDays
<1> HIDE DEF first, last
<1> QED BY <1>2, <1>3, <1>4

\* The parts of an Overview: the edges, and the full hours as days and hours.
LEMMA PartsSplit ==
    ASSUME QueryConstants, CacheInv, RequestInv, query.pc = "edges", NEW parts, parts = Queries!Parts(query)
    PROVE  /\ 1 \in DOMAIN parts /\ parts[1] = query.edge
           /\ \A n \in DOMAIN parts \ {1} : \A i \in parts[n] : i \in 1..rolled /\ Skipped(query, i)
           /\ \A i \in 1..rolled : \A m, n \in DOMAIN parts \ {1} : i \in parts[m] /\ i \in parts[n] => m = n
           /\ \A i \in 1..rolled : Skipped(query, i) => \E n \in DOMAIN parts \ {1} : i \in parts[n]
<1>1. /\ query \in Asking
      /\ \A i \in 1..Len(events) : Queries!Ts(i) \in Int
  BY LapsedFacts
<1>2. \A i \in 1..rolled : Queries!Ts(i) \in Int
  <2>1. 1..rolled \subseteq 1..Len(events)
    BY EventTypes DEF CacheInv, QueryTypes
  <2> QED BY <1>1, <2>1
<1>3. PICK a, b : a = query.skip[1] /\ b = query.skip[2]
  OBVIOUS
<1>4. a \in Int /\ b \in Int
  BY <1>1, <1>3 DEF Asking
<1>5. \A i : Skipped(query, i) <=> Queries!Ts(i) >= a /\ Queries!Ts(i) < b
  BY <1>3 DEF Skipped
<1>6. PICK days : days = Queries!FullDays(a, b)
  OBVIOUS
<1>7. /\ days[1] \in Int /\ days[2] \in Int /\ a <= days[1]
      /\ days[1] < days[2] => days[2] <= b
  BY <1>4, <1>6, FullDaysSplit
<1>8. PICK long : long = (query.range.end - query.range.start >= DayThreshold)
  OBVIOUS
<1>9. PICK d1, d2 : d1 = days[1] /\ d2 = days[2]
  OBVIOUS
<1>10. parts = IF long /\ d2 > d1
               THEN <<query.edge, Queries!RolledIn(d1, d2), Queries!RolledIn(a, d1), Queries!RolledIn(d2, b)>>
               ELSE <<query.edge, Queries!RolledIn(a, b)>>
  BY <1>3, <1>6, <1>8, <1>9 DEF Queries!Parts
<1>11. \A x, y, i : i \in Queries!RolledIn(x, y) <=> i \in 1..rolled /\ Queries!Ts(i) >= x /\ Queries!Ts(i) < y
  BY DEF Queries!RolledIn
<1>12. CASE long /\ d2 > d1
  <2>1. d1 \in Int /\ d2 \in Int /\ a <= d1 /\ d1 < d2 /\ d2 <= b
    BY <1>7, <1>9, <1>12
  <2>2. PICK P2, P3, P4 : P2 = Queries!RolledIn(d1, d2) /\ P3 = Queries!RolledIn(a, d1) /\ P4 = Queries!RolledIn(d2, b)
    OBVIOUS
  <2>3. \A i : /\ i \in P2 <=> i \in 1..rolled /\ Queries!Ts(i) >= d1 /\ Queries!Ts(i) < d2
               /\ i \in P3 <=> i \in 1..rolled /\ Queries!Ts(i) >= a /\ Queries!Ts(i) < d1
               /\ i \in P4 <=> i \in 1..rolled /\ Queries!Ts(i) >= d2 /\ Queries!Ts(i) < b
    BY <1>11, <2>2
  <2>4. parts = <<query.edge, P2, P3, P4>>
    BY <1>10, <1>12, <2>2
  <2>5. DOMAIN parts = {1, 2, 3, 4} /\ parts[1] = query.edge /\ parts[2] = P2 /\ parts[3] = P3 /\ parts[4] = P4
    BY <2>4
  <2>6. DOMAIN parts \ {1} = {2, 3, 4}
    BY <2>5
  <2>7. \A i \in 1..rolled : Skipped(query, i) <=> i \in P2 \/ i \in P3 \/ i \in P4
    BY <1>2, <1>4, <1>5, <2>1, <2>3
  <2>8. \A i \in 1..rolled : ~(i \in P2 /\ i \in P3) /\ ~(i \in P2 /\ i \in P4) /\ ~(i \in P3 /\ i \in P4)
    BY <1>2, <1>4, <2>1, <2>3
  <2>9. \A i : i \in P2 \/ i \in P3 \/ i \in P4 => i \in 1..rolled
    BY <2>3
  <2> QED BY <2>5, <2>6, <2>7, <2>8, <2>9
<1>13. CASE ~(long /\ d2 > d1)
  <2>1. PICK P2 : P2 = Queries!RolledIn(a, b)
    OBVIOUS
  <2>2. parts = <<query.edge, P2>>
    BY <1>10, <1>13, <2>1
  <2>3. DOMAIN parts = {1, 2} /\ parts[1] = query.edge /\ parts[2] = P2
    BY <2>2
  <2>4. \A i : i \in P2 <=> i \in 1..rolled /\ Skipped(query, i)
    BY <1>5, <1>11, <2>1
  <2> QED BY <2>3, <2>4
<1> QED BY <1>12, <1>13

LEMMA StatsKeepRequest ==
    ASSUME QueryConstants, CacheInv, RequestInv, Queries!ReadStats
    PROVE  AnswerInv'
<1>1. events' = events /\ query.pc = "edges"
  BY DEF Queries!ReadStats
<1>2. /\ query \in Asking /\ query.settled \subseteq 1..rolled
      /\ \A i \in 1..Len(events) : Queries!Ts(i) \in Int
  BY <1>1, LapsedFacts
<1>3. Planned(query) /\ EdgesAreRead(query)
  BY <1>1 DEF RequestInv
<1>4. PICK parts, r, ends : parts = Queries!Parts(query) /\ r = query.range /\ ends = Queries!CurrentRight(query.kind)
  OBVIOUS
<1>5. QueryTypes /\ Queries!Answer(parts, r, ends)
  BY <1>4 DEF CacheInv, Queries!ReadStats
<1>6. /\ 1 \in DOMAIN parts /\ parts[1] = query.edge
      /\ \A n \in DOMAIN parts \ {1} : \A i \in parts[n] : i \in 1..rolled /\ Skipped(query, i)
      /\ \A i \in 1..rolled : \A m, n \in DOMAIN parts \ {1} : i \in parts[m] /\ i \in parts[n] => m = n
      /\ \A i \in 1..rolled : Skipped(query, i) => \E n \in DOMAIN parts \ {1} : i \in parts[n]
  BY <1>1, <1>4, PartsSplit
<1>7. \A i \in parts[1] : ~Skipped(query, i)
  BY <1>3, <1>6 DEF EdgesAreRead
<1>8. \A i \in 1..Len(events) : \A m, n \in DOMAIN parts : i \in parts[m] /\ i \in parts[n] => m = n
  BY <1>6, <1>7
<1>9. /\ r.start \in Int /\ r.end \in Int /\ r.last = TRUE /\ query.skip[1] \in Int /\ query.skip[2] \in Int
  BY <1>2, <1>3, <1>4 DEF Asking, QRange, Planned
<1>11. \A i \in 1..Len(events) : Skipped(query, i) => Queries!In(Queries!Ts(i), r)
  <2> SUFFICES ASSUME NEW i \in 1..Len(events), Skipped(query, i) PROVE Queries!In(Queries!Ts(i), r)
    OBVIOUS
  <2>1. Queries!Ts(i) \in Int
    BY <1>2
  <2>2. query.skip[1] < query.skip[2] /\ r.start <= query.skip[1] /\ query.skip[2] <= r.end
    BY <1>3, <1>4, <1>9, <2>1 DEF Skipped, Planned
  <2> QED BY <1>9, <2>1, <2>2 DEF Skipped, Queries!In
<1>12. \A i \in 1..Len(events) : \A n \in DOMAIN parts :
              i \in parts[n] => Queries!In(Queries!Ts(i), r) \/ (ends /\ Queries!Ts(i) >= r.start)
  <2> SUFFICES ASSUME NEW i \in 1..Len(events), NEW n \in DOMAIN parts, i \in parts[n]
               PROVE  Queries!In(Queries!Ts(i), r) \/ (ends /\ Queries!Ts(i) >= r.start)
    OBVIOUS
  <2>1. CASE n = 1
    <3>1. i \in query.edge
      BY <1>6, <2>1
    <3>2. Queries!Ts(i) >= r.start /\ (Queries!Ts(i) <= r.end \/ ends)
      BY <1>3, <1>4, <3>1 DEF EdgesAreRead
    <3> QED BY <1>2, <1>9, <3>2 DEF Queries!In
  <2>2. CASE n # 1
    BY <1>6, <1>11, <2>2
  <2> QED BY <2>1, <2>2
<1>13. \A i \in query.settled \ Queries!Lapsed :
              i \in 1..Len(events) /\ Queries!In(Queries!Ts(i), r) /\ r.start < r.end
              => \E n \in DOMAIN parts : i \in parts[n]
  <2> SUFFICES ASSUME NEW i \in query.settled, i \in 1..Len(events), Queries!In(Queries!Ts(i), r), r.start < r.end
               PROVE  \E n \in DOMAIN parts : i \in parts[n]
    OBVIOUS
  <2>1. CASE Skipped(query, i)
    BY <1>2, <1>6, <2>1
  <2>2. CASE ~Skipped(query, i)
    <3>1. Queries!Ts(i) >= r.start /\ Queries!Ts(i) <= r.end
      BY <1>2, <1>9 DEF Queries!In
    <3>2. i \in query.edge
      BY <1>3, <1>4, <2>2, <3>1 DEF EdgesAreRead
    <3> QED BY <1>6, <3>2
  <2> QED BY <2>1, <2>2
<1> QED BY <1>1, <1>5, <1>8, <1>12, <1>13, AnswerIsRight

OverviewInv == PagesInv /\ RequestInv /\ AnswerInv

LEMMA OverviewStep == QueryConstants /\ OverviewInv /\ [Queries!Next]_(Queries!quvars) => OverviewInv'
<1> SUFFICES ASSUME QueryConstants, OverviewInv, [Queries!Next]_(Queries!quvars) PROVE OverviewInv'
  OBVIOUS
<1>1. /\ CacheInv /\ QueryTypes /\ QueryTypes' /\ EventsGrow /\ RequestInv /\ AnswerInv /\ PagesInv'
      /\ "pc" \in DOMAIN query
  BY CacheStep, PagesStep DEF OverviewInv, PagesInv, CacheInv
<1>2. SUFFICES RequestInv' /\ AnswerInv'
  BY <1>1 DEF OverviewInv
<1>3. CASE \/ Queries!Tick \/ \E shape \in QShape : Queries!Commit(shape.age, shape.cred)
           \/ Queries!TryAppend \/ Queries!Aggregate \/ Queries!WorkerAppends
           \/ UNCHANGED <<tableVars, query>>
  <2>1. TablesMoveOn
    BY <1>1, <1>3, TableStepsMoveOn
  <2> QED BY <1>1, <2>1, TablesKeepRequest
<1>4. CASE query'.pc \in {"idle", "paging", "listed"}
  BY <1>4 DEF RequestInv, AnswerInv, Queries!OverviewCountsOnce
<1>5. CASE Queries!Restart
  <2>1. query'.pc = "idle"
    BY <1>5 DEF Queries!Restart, Queries!Idle
  <2> QED BY <1>4, <2>1
<1>6. CASE RequestStep
  <2>1. ASSUME NEW kind \in Queries!Kinds, Queries!Begin(kind) PROVE RequestInv' /\ AnswerInv'
    BY <1>1, <2>1, BeginKeepsRequest
  <2>2. CASE Queries!PlanOverview
    BY <1>1, <2>2, PlanKeepsRequest
  <2>3. CASE Queries!ReadEdges
    BY <1>1, <2>3, EdgesKeepRequest
  <2>4. CASE Queries!ReadStats \/ Queries!ReadCustom \/ Queries!ReadAnalysis \/ Queries!ReadRealtime
    <3>1. query'.pc = "done"
      BY <2>4 DEF Queries!ReadStats, Queries!ReadCustom, Queries!ReadAnalysis, Queries!ReadRealtime, Queries!Answer
    <3>2. RequestInv'
      BY <3>1 DEF RequestInv
    <3>3. AnswerInv'
      BY <1>1, <2>4, StatsKeepRequest, CustomKeepsRequest, AnalysisKeepsRequest, RealtimeKeepsRequest
    <3> QED BY <3>2, <3>3
  <2>5. CASE Queries!OpenList \/ Queries!NextPage \/ Queries!Finish
    <3>1. CASE Queries!OpenList
      BY <1>4, <3>1 DEF Queries!OpenList
    <3>2. CASE Queries!NextPage
      <4>1. query'.pc = "paging" \/ query'.pc = "listed"
        BY <1>1, <3>2 DEF Queries!NextPage
      <4> QED BY <1>4, <4>1
    <3>3. CASE Queries!Finish
      BY <1>4, <3>3 DEF Queries!Finish, Queries!Idle
    <3> QED BY <2>5, <3>1, <3>2, <3>3
  <2> QED BY <1>6, <2>1, <2>2, <2>3, <2>4, <2>5 DEF RequestStep
<1> QED BY <1>3, <1>5, <1>6, QueryCases

LEMMA OverviewsCount == QueryConstants => (Queries!Spec => []Queries!OverviewCountsOnce)
<1> SUFFICES ASSUME QueryConstants PROVE Queries!Spec => []Queries!OverviewCountsOnce
  OBVIOUS
<1>1. Queries!Init => OverviewInv
  <2> SUFFICES ASSUME Queries!Init PROVE OverviewInv
    OBVIOUS
  <2>1. query = [pc |-> "idle"]
    BY DEF Queries!Init, Queries!Idle
  <2>2. query.pc = "idle" /\ "pc" \in DOMAIN query
    BY <2>1
  <2> QED BY <2>2, CacheStarts DEF OverviewInv, PagesInv, PagingInv, RequestInv, AnswerInv, Queries!OverviewCountsOnce
<1>2. OverviewInv /\ [Queries!Next]_(Queries!quvars) => OverviewInv'
  BY OverviewStep
<1>3. OverviewInv => Queries!OverviewCountsOnce
  BY DEF OverviewInv, AnswerInv
<1> QED BY <1>1, <1>2, <1>3, PTL DEF Queries!Spec

-----------------------------------------------------------------------------
(***************************************************************************)
(* Migrations.  Sums over events first: Total adds a column from the first *)
(* event to the last.                                                      *)
(***************************************************************************)

Part(column, ids, i) == IF i \in ids THEN column[i] ELSE 0
Sums(s, column, ids, n) ==
    s = [i \in 0..n |-> IF i = 0 THEN 0 ELSE s[i - 1] + Part(column, ids, i)]

LEMMA SumsExist ==
    ASSUME NEW column, NEW ids, NEW n \in Nat
    PROVE  \E s : Sums(s, column, ids, n)
<1>1. PICK B : B = {k \in 0..n : \E s : Sums(s, column, ids, k)}
  OBVIOUS
<1>2. 0 \in B
  <2>1. PICK s : s = [i \in 0..0 |-> 0]
    OBVIOUS
  <2>2. Sums(s, column, ids, 0)
    BY <2>1 DEF Sums
  <2> QED BY <1>1, <2>2
<1>3. ASSUME NEW k \in 1..n, k - 1 \in B PROVE k \in B
  <2>1. PICK s : Sums(s, column, ids, k - 1)
    BY <1>1, <1>3
  <2>2. PICK t : t = [i \in 0..k |-> IF i = k THEN s[k - 1] + Part(column, ids, k) ELSE s[i]]
    OBVIOUS
  <2>3. \A i \in 0..k : t[i] = IF i = 0 THEN 0 ELSE t[i - 1] + Part(column, ids, i)
    <3> SUFFICES ASSUME NEW i \in 0..k PROVE t[i] = IF i = 0 THEN 0 ELSE t[i - 1] + Part(column, ids, i)
      OBVIOUS
    <3>1. CASE i = k
      BY <2>2, <3>1
    <3>2. CASE i < k
      <4>1. i \in 0..(k - 1) /\ t[i] = s[i] /\ (i # 0 => t[i - 1] = s[i - 1])
        BY <2>2, <3>2
      <4>2. s[i] = IF i = 0 THEN 0 ELSE s[i - 1] + Part(column, ids, i)
        BY <2>1, <4>1 DEF Sums
      <4> QED BY <4>1, <4>2
    <3> QED BY <3>1, <3>2
  <2>4. Sums(t, column, ids, k)
    BY <2>2, <2>3 DEF Sums
  <2> QED BY <1>1, <2>4
<1>4. \A i \in 0..n : i \in B
  BY <1>2, <1>3, AlongIndex
<1> QED BY <1>1, <1>4

\* s adds the column up to its total.
TotalBy(s, column, ids, n) ==
    /\ s[0] = 0 /\ Upgrades!Total(column, ids) = s[n]
    /\ \A i \in 1..n : s[i] = s[i - 1] + Part(column, ids, i)

LEMMA TotalUnfolds ==
    ASSUME NEW n \in Nat, NEW column \in [1..n -> Int], NEW ids
    PROVE  \E s : TotalBy(s, column, ids, n)
<1>1. column \in Seq(Int) /\ Len(column) = n
  <2>1. column \in Seq(Int)
    BY SeqDef
  <2> QED BY <2>1
<1>2. \E s : Sums(s, column, ids, n)
  BY SumsExist
<1>3. PICK s : s = CHOOSE t : Sums(t, column, ids, n)
  OBVIOUS
<1>4. Sums(s, column, ids, n)
  BY <1>2, <1>3
<1>5. Upgrades!Total(column, ids) = s[n]
  BY <1>1, <1>3 DEF Upgrades!Total, Sums, Part
<1>6. \A i \in 0..n : s[i] = IF i = 0 THEN 0 ELSE s[i - 1] + Part(column, ids, i)
  BY <1>4 DEF Sums
<1>7. s[0] = 0
  BY <1>6
<1>8. \A i \in 1..n : s[i] = s[i - 1] + Part(column, ids, i)
  BY <1>6
<1> QED BY <1>5, <1>7, <1>8 DEF TotalBy

\* The total of no events is zero, and that of natural numbers is one.
LEMMA TotalSigned ==
    ASSUME NEW n \in Nat, NEW column \in [1..n -> Int], NEW ids
    PROVE  /\ Upgrades!Total(column, ids) \in Int
           /\ (\A i \in 1..n : i \notin ids) => Upgrades!Total(column, ids) = 0
           /\ (\A i \in 1..n : i \in ids => column[i] >= 0) => Upgrades!Total(column, ids) >= 0
<1>1. PICK s : TotalBy(s, column, ids, n)
  BY TotalUnfolds
<1>2. \A i \in 1..n : Part(column, ids, i) \in Int
  BY DEF Part
<1>3. PICK B : B = {k \in 0..n : /\ s[k] \in Int
                                 /\ (\A i \in 1..n : i \notin ids) => s[k] = 0
                                 /\ (\A i \in 1..n : i \in ids => column[i] >= 0) => s[k] >= 0}
  OBVIOUS
<1>4. 0 \in B
  BY <1>1, <1>3 DEF TotalBy
<1>5. ASSUME NEW k \in 1..n, k - 1 \in B PROVE k \in B
  <2>1. s[k] = s[k - 1] + Part(column, ids, k)
    BY <1>1 DEF TotalBy
  <2> QED BY <1>2, <1>3, <1>5, <2>1 DEF Part
<1>6. n \in B
  <2>1. \A i \in 0..n : i \in B
    BY <1>4, <1>5, AlongIndex
  <2> QED BY <2>1
<1> QED BY <1>1, <1>3, <1>6 DEF TotalBy

Splits(n, c, C, a, A, b, B) == \A i \in 1..n : Part(c, C, i) = Part(a, A, i) + Part(b, B, i)

\* A total is the sum of two others if each of its parts is.
LEMMA TotalSplits ==
    ASSUME NEW n \in Nat, NEW c \in [1..n -> Int], NEW a \in [1..n -> Int], NEW b \in [1..n -> Int],
           NEW C, NEW A, NEW B, Splits(n, c, C, a, A, b, B)
    PROVE  Upgrades!Total(c, C) = Upgrades!Total(a, A) + Upgrades!Total(b, B)
<1>1. PICK s : TotalBy(s, c, C, n)
  BY TotalUnfolds
<1>2. PICK t : TotalBy(t, a, A, n)
  BY TotalUnfolds
<1>3. PICK u : TotalBy(u, b, B, n)
  BY TotalUnfolds
<1>4. \A i \in 1..n : Part(a, A, i) \in Int /\ Part(b, B, i) \in Int
  BY DEF Part
<1>5. PICK D : D = {k \in 0..n : t[k] \in Int /\ u[k] \in Int /\ s[k] = t[k] + u[k]}
  OBVIOUS
<1>6. 0 \in D
  BY <1>1, <1>2, <1>3, <1>5 DEF TotalBy
<1>7. ASSUME NEW k \in 1..n, k - 1 \in D PROVE k \in D
  <2>1. /\ s[k] = s[k - 1] + Part(c, C, k) /\ t[k] = t[k - 1] + Part(a, A, k)
        /\ u[k] = u[k - 1] + Part(b, B, k)
    BY <1>1, <1>2, <1>3 DEF TotalBy
  <2>2. Part(c, C, k) = Part(a, A, k) + Part(b, B, k) /\ Part(a, A, k) \in Int /\ Part(b, B, k) \in Int
    BY <1>4 DEF Splits
  <2> QED BY <1>5, <1>7, <2>1, <2>2
<1>8. n \in D
  <2>1. \A i \in 0..n : i \in D
    BY <1>6, <1>7, AlongIndex
  <2> QED BY <2>1
<1> QED BY <1>1, <1>2, <1>3, <1>5, <1>8 DEF TotalBy

Adds(p, g, q, ids) == Upgrades!Total(p, ids) = Upgrades!Total(g, ids) + Upgrades!Total(q, ids)

LEMMA TotalAdds ==
    ASSUME NEW n \in Nat, NEW p \in [1..n -> Int], NEW g \in [1..n -> Int], NEW q \in [1..n -> Int],
           NEW ids, Splits(n, p, ids, g, ids, q, ids)
    PROVE  Adds(p, g, q, ids)
<1>1. Upgrades!Total(p, ids) = Upgrades!Total(g, ids) + Upgrades!Total(q, ids)
  BY TotalSplits
<1> QED BY <1>1 DEF Adds

\* The rows of the events table.
EventRow == [kind : STRING, auth : {"oauth", "apikey", ""}, source : STRING, index : STRING,
             named : BOOLEAN, misses : SUBSET {"day", "hour"},
             input : Nat, output : Nat, reasoning : Nat, cached : Nat, read : Nat, create : Nat,
             total : Nat]
Named(e) == /\ e.auth = "oauth" => e.index = "f"
            /\ e.auth = "apikey" \/ e.source \in {"k1", "k2"} => e.index # "f"
EventList(ev) == ev \in Seq(EventRow) /\ \A i \in 1..Len(ev) : Named(ev[i])

\* The column f of the events.
Column(ev, f) == [i \in DOMAIN ev |-> ev[i][f]]

LEMMA FieldIsNat ==
    ASSUME NEW e \in EventRow, NEW f \in Upgrades!Fields PROVE e[f] \in Nat
<1>1. f \in {"input", "output", "cached", "read", "total"}
  BY DEF Upgrades!Fields
<1> QED BY <1>1 DEF EventRow

LEMMA ColumnOf ==
    ASSUME NEW ev, EventList(ev), NEW f \in Upgrades!Fields
    PROVE  /\ Len(ev) \in Nat /\ DOMAIN ev = 1..Len(ev)
           /\ Column(ev, f) \in [1..Len(ev) -> Int]
           /\ \A i \in 1..Len(ev) : Column(ev, f)[i] = ev[i][f] /\ ev[i][f] \in Nat
<1>1. Len(ev) \in Nat /\ DOMAIN ev = 1..Len(ev) /\ \A i \in 1..Len(ev) : ev[i] \in EventRow
  BY DEF EventList
<1>2. \A i \in 1..Len(ev) : ev[i][f] \in Nat
  BY <1>1, FieldIsNat
<1> QED BY <1>1, <1>2 DEF Column

\* The sum of a column is a natural number, and zero over no events.
LEMMA SumIsNat ==
    ASSUME NEW ev, EventList(ev), NEW ids, NEW f \in Upgrades!Fields
    PROVE  /\ Upgrades!SumOver(ids, ev)[f] = Upgrades!Total(Column(ev, f), ids)
           /\ Upgrades!SumOver(ids, ev)[f] \in Nat
           /\ (\A i \in 1..Len(ev) : i \notin ids) => Upgrades!SumOver(ids, ev)[f] = 0
<1>1. Upgrades!SumOver(ids, ev)[f] = Upgrades!Total(Column(ev, f), ids)
  BY DEF Upgrades!SumOver, Column
<1>2. PICK c, n : c = Column(ev, f) /\ n = Len(ev)
  OBVIOUS
<1>3. n \in Nat /\ c \in [1..n -> Int] /\ \A i \in 1..n : c[i] \in Nat
  BY <1>2, ColumnOf
<1>4. /\ Upgrades!Total(c, ids) \in Int
      /\ (\A i \in 1..n : i \notin ids) => Upgrades!Total(c, ids) = 0
      /\ (\A i \in 1..n : i \in ids => c[i] >= 0) => Upgrades!Total(c, ids) >= 0
  BY <1>3, TotalSigned
<1> QED BY <1>1, <1>2, <1>3, <1>4

LEMMA SumsAreNat ==
    ASSUME NEW ev, EventList(ev), NEW ids
    PROVE  Upgrades!SumOver(ids, ev) \in [Upgrades!Fields -> Nat]
<1>1. \A f \in Upgrades!Fields : Upgrades!SumOver(ids, ev)[f] \in Nat
  BY SumIsNat
<1>2. Upgrades!SumOver(ids, ev) = [f \in Upgrades!Fields |-> Upgrades!SumOver(ids, ev)[f]]
  BY DEF Upgrades!SumOver
<1> QED BY <1>1, <1>2

Joins(n, A, B, C) == \A i \in 1..n : (i \in C <=> i \in A \/ i \in B) /\ ~(i \in A /\ i \in B)

\* The sums of two sets without common events add up to that of both.
LEMMA SumJoins ==
    ASSUME NEW ev, EventList(ev), NEW A, NEW B, NEW C, NEW f \in Upgrades!Fields, Joins(Len(ev), A, B, C)
    PROVE  Upgrades!SumOver(C, ev)[f] = Upgrades!SumOver(A, ev)[f] + Upgrades!SumOver(B, ev)[f]
<1>1. PICK c, n : c = Column(ev, f) /\ n = Len(ev)
  OBVIOUS
<1>2. n \in Nat /\ c \in [1..n -> Int] /\ \A i \in 1..n : c[i] \in Nat
  BY <1>1, ColumnOf
<1>3. Splits(n, c, C, c, A, c, B)
  BY <1>1, <1>2 DEF Part, Splits, Joins
<1>4. Upgrades!Total(c, C) = Upgrades!Total(c, A) + Upgrades!Total(c, B)
  BY <1>2, <1>3, TotalSplits
<1>5. /\ Upgrades!SumOver(A, ev)[f] = Upgrades!Total(c, A)
      /\ Upgrades!SumOver(B, ev)[f] = Upgrades!Total(c, B)
      /\ Upgrades!SumOver(C, ev)[f] = Upgrades!Total(c, C)
  BY <1>1, SumIsNat
<1> QED BY <1>4, <1>5

\* Only the events of the list count.
LEMMA SumSame ==
    ASSUME NEW ev, EventList(ev), NEW A, NEW C, NEW f \in Upgrades!Fields,
           \A i \in 1..Len(ev) : i \in C <=> i \in A
    PROVE  Upgrades!SumOver(C, ev)[f] = Upgrades!SumOver(A, ev)[f]
<1>1. Upgrades!SumOver(C, ev)[f] = Upgrades!SumOver(A, ev)[f] + Upgrades!SumOver({}, ev)[f]
  <2>1. Joins(Len(ev), A, {}, C)
    BY DEF Joins
  <2> QED BY <2>1, SumJoins
<1>2. Upgrades!SumOver({}, ev)[f] = 0 /\ Upgrades!SumOver(A, ev)[f] \in Nat
  BY SumIsNat
<1> QED BY <1>1, <1>2

-----------------------------------------------------------------------------
(* What holds of the tables between any two commits. *)

\* s is t, in the columns that mean something after the migrations done.
Exact(s, t, done) == \A f \in Upgrades!Fields : (f = "read" /\ "cacheRead" \notin done) \/ s[f] = t[f]

CountedBy(d, name) == {i \in DOMAIN d.ev : i <= Upgrades!Cursor(d, name)}
MineOf(r, ev, last, done) == {i \in DOMAIN ev : Upgrades!Mine(r, ev[i], done) /\ i <= last}

Tables(d) ==
    /\ d = [ev |-> d.ev, base |-> d.base, hourly |-> d.hourly, daily |-> d.daily, ident |-> d.ident,
            act |-> d.act, short |-> d.short, lat |-> d.lat, cur |-> d.cur, had |-> d.had,
            history |-> d.history, samples |-> d.samples, tables |-> d.tables]
    /\ EventList(d.ev)
    /\ d.base \in [Upgrades!Fields -> Nat]
    /\ d.hourly \in [Upgrades!Fields -> Int] /\ d.daily \in [Upgrades!Fields -> Int]

Rows(ident) ==
    /\ ident = [r \in DOMAIN ident |-> ident[r]]
    /\ \A r \in DOMAIN ident :
          /\ ident[r] = [sum |-> ident[r].sum, last |-> ident[r].last]
          /\ ident[r].sum \in [Upgrades!Fields -> Int] /\ ident[r].last \in Int

Cursors(cur) == cur = [c \in DOMAIN cur |-> cur[c]] /\ \A c \in DOMAIN cur : cur[c] \in Nat

ExactOverview(d, done) ==
    LET expected == Upgrades!Plus(d.base, Upgrades!SumOver(CountedBy(d, "overview"), d.ev))
    IN  /\ Upgrades!Reached(d, "hour") = DOMAIN d.ev => Exact(d.hourly, expected, done)
        /\ Upgrades!Reached(d, "day") = DOMAIN d.ev => Exact(d.daily, expected, done)

\* From the auth indexes on a row is exact if its events have their types.
Told(r, ev, done) == "authIndex" \in done => Upgrades!Typed(r, ev)

ExactRows(ident, ev, done) ==
    \A r \in DOMAIN ident : Told(r, ev, done) =>
        Exact(ident[r].sum, Upgrades!SumOver(MineOf(r, ev, ident[r].last, done), ev), done)

CountedOnce(d) ==
    /\ d.act = [i \in DOMAIN d.ev |-> IF i <= Upgrades!Cursor(d, "activity") THEN 1 ELSE 0]
    /\ d.short = d.act
    /\ d.lat = [i \in DOMAIN d.ev |-> IF i <= Upgrades!Cursor(d, "latency") THEN 1 ELSE 0]

Good(d, done) ==
    /\ Tables(d) /\ Cursors(d.cur) /\ Rows(d.ident)
    /\ ExactOverview(d, done) /\ ExactRows(d.ident, d.ev, done) /\ CountedOnce(d)

\* What no migration but those of the quota history and the samples touches.
Kept(d, e) ==
    e.tables = d.tables /\ e.had = d.had /\ e.history = d.history /\ e.samples = d.samples

LEMMA CursorIsNat ==
    ASSUME NEW d, Cursors(d.cur), NEW name PROVE Upgrades!Cursor(d, name) \in Nat
BY DEF Cursors, Upgrades!Cursor

\* Two migrations change what the tables mean.
LEMMA MeansTheSame ==
    ASSUME NEW d, NEW done, NEW more, Good(d, done),
           "cacheRead" \in more <=> "cacheRead" \in done, "authIndex" \in more <=> "authIndex" \in done
    PROVE  Good(d, more)
<1>1. \A s, t : Exact(s, t, done) <=> Exact(s, t, more)
  BY DEF Exact
<1>2. \A r, ev, last : MineOf(r, ev, last, done) = MineOf(r, ev, last, more)
  BY DEF MineOf, Upgrades!Mine
<1>3. ExactOverview(d, more)
  BY <1>1 DEF Good, ExactOverview
<1>4. ExactRows(d.ident, d.ev, more)
  BY <1>1, <1>2 DEF Good, ExactRows, Told
<1> QED BY <1>3, <1>4 DEF Good

\* Counting no events leaves what was counted of deleted ones: nothing.
LEMMA ZeroIsNothing ==
    ASSUME NEW ev, EventList(ev), NEW ids, \A i \in 1..Len(ev) : i \notin ids, NEW done
    PROVE  Exact(Upgrades!Zero, Upgrades!Plus(Upgrades!Zero, Upgrades!SumOver(ids, ev)), done)
<1>1. \A f \in Upgrades!Fields : Upgrades!SumOver(ids, ev)[f] = 0
  BY SumIsNat
<1> QED BY <1>1 DEF Exact, Upgrades!Plus, Upgrades!Zero

\* Clearing the overview takes its checkpoint along.
LEMMA OverviewCleared ==
    ASSUME NEW d, NEW done, Good(d, done), NEW e,
           e = Upgrades!ClearedOverview(d) \/ e = Upgrades!PreparedOverview(d)
    PROVE  Good(e, done) /\ Kept(d, e) /\ Upgrades!Cursor(e, "latency") = Upgrades!Cursor(d, "latency")
<1> USE DEF Good
<1>1. PICK k : k = [n \in DOMAIN d.cur \ {"overview"} |-> d.cur[n]]
  OBVIOUS
<1>2. PICK g : g = [d EXCEPT !.hourly = Upgrades!Zero, !.daily = Upgrades!Zero, !.base = Upgrades!Zero, !.cur = k]
  OBVIOUS
<1>3. Upgrades!ClearedOverview(d) = g
  BY <1>1, <1>2 DEF Tables, Upgrades!ClearedOverview
<1>4. /\ Upgrades!Zero \in [Upgrades!Fields -> Nat] /\ Upgrades!Zero \in [Upgrades!Fields -> Int]
  BY DEF Upgrades!Zero
<1>5. g = [d EXCEPT !.hourly = Upgrades!Zero, !.daily = Upgrades!Zero, !.base = Upgrades!Zero, !.cur = g.cur] /\ g.cur = k
  BY <1>2 DEF Tables
<1>6. PICK w : w = e.cur
  OBVIOUS
<1>7. e = [d EXCEPT !.hourly = Upgrades!Zero, !.daily = Upgrades!Zero, !.base = Upgrades!Zero, !.cur = w]
      /\ (w = k \/ w = Upgrades!WithCursor(k, "overview", 0))
  <2>1. CASE e = g
    BY <1>5, <1>6, <2>1
  <2>2. CASE e = Upgrades!PreparedOverview(d)
    <3>1. e = [g EXCEPT !.cur = Upgrades!WithCursor(g.cur, "overview", 0)]
      BY <1>3, <2>2 DEF Upgrades!PreparedOverview
    <3> QED BY <1>2, <1>5, <1>6, <3>1 DEF Tables
  <2> QED BY <1>3, <2>1, <2>2
<1>8. /\ Cursors(w) /\ Upgrades!Cursor(e, "overview") = 0 /\ e.cur = w
      /\ \A n \in {"activity", "latency"} : Upgrades!Cursor(e, n) = Upgrades!Cursor(d, n)
  BY <1>1, <1>6, <1>7 DEF Cursors, Upgrades!Cursor, Upgrades!WithCursor
<1>9. /\ Tables(e) /\ e.ev = d.ev /\ e.ident = d.ident /\ e.act = d.act /\ e.short = d.short /\ e.lat = d.lat
      /\ e.hourly = Upgrades!Zero /\ e.daily = Upgrades!Zero /\ e.base = Upgrades!Zero /\ Kept(d, e)
  BY <1>4, <1>7 DEF Tables, Kept
<1>10. \A i \in 1..Len(e.ev) : i \notin CountedBy(e, "overview")
  BY <1>8 DEF CountedBy
<1>11. ExactOverview(e, done)
  <2>1. Exact(Upgrades!Zero, Upgrades!Plus(Upgrades!Zero, Upgrades!SumOver(CountedBy(e, "overview"), e.ev)), done)
    BY <1>9, <1>10, ZeroIsNothing DEF Tables
  <2> QED BY <1>9, <2>1 DEF ExactOverview
<1>12. CountedOnce(e)
  BY <1>8, <1>9 DEF CountedOnce
<1> QED BY <1>8, <1>9, <1>11, <1>12

\* The short buckets are cut anew along the activity's cursor.
LEMMA ShortAligned ==
    ASSUME NEW d, NEW done, Good(d, done), NEW e, e = Upgrades!AlignedShort(d)
    PROVE  Good(e, done) /\ Kept(d, e) /\ Upgrades!Cursor(e, "latency") = Upgrades!Cursor(d, "latency")
<1> USE DEF Good
<1>1. PICK s : s = [i \in DOMAIN d.short |-> IF i <= Upgrades!Cursor(d, "activity") THEN 1 ELSE 0]
  OBVIOUS
<1>2. e = [d EXCEPT !.short = s]
  BY <1>1 DEF Upgrades!AlignedShort, Tables
<1>3. s = d.act
  BY <1>1 DEF CountedOnce
<1>4. /\ Tables(e) /\ e.ev = d.ev /\ e.ident = d.ident /\ e.act = d.act /\ e.short = s /\ e.lat = d.lat
      /\ e.cur = d.cur /\ e.hourly = d.hourly /\ e.daily = d.daily /\ e.base = d.base /\ Kept(d, e)
  BY <1>2 DEF Tables, Kept
<1>5. \A n : Upgrades!Cursor(e, n) = Upgrades!Cursor(d, n)
  BY <1>4 DEF Upgrades!Cursor
<1>6. CountedOnce(e)
  BY <1>3, <1>4, <1>5 DEF CountedOnce
<1>7. CountedBy(e, "overview") = CountedBy(d, "overview") /\ (\A b : Upgrades!Reached(e, b) = Upgrades!Reached(d, b))
  BY <1>4, <1>5 DEF CountedBy, Upgrades!Reached
<1>8. ExactOverview(e, done)
  BY <1>4, <1>7 DEF ExactOverview
<1> QED BY <1>4, <1>5, <1>6, <1>8

\* The cursors move to the common table.
LEMMA CheckpointsMerged ==
    ASSUME NEW d, NEW done, Good(d, done), Upgrades!Cursor(d, "latency") = 0,
           NEW e, e = Upgrades!MergedCheckpoints(d)
    PROVE  Good(e, done) /\ Kept(d, e)
<1> USE DEF Good
<1>1. PICK k : k = [n \in {"overview", "activity", "latency"} |->
                       IF n = "latency" THEN 0 ELSE Upgrades!Cursor(d, n)]
  OBVIOUS
<1>2. e = [d EXCEPT !.cur = k]
  BY <1>1 DEF Upgrades!MergedCheckpoints
<1>3. /\ Tables(e) /\ e.ev = d.ev /\ e.ident = d.ident /\ e.act = d.act /\ e.short = d.short /\ e.lat = d.lat
      /\ e.cur = k /\ e.hourly = d.hourly /\ e.daily = d.daily /\ e.base = d.base /\ Kept(d, e)
  BY <1>2 DEF Tables, Kept
<1>4. \A n \in {"overview", "activity", "latency"} : Upgrades!Cursor(e, n) = Upgrades!Cursor(d, n)
  BY <1>1, <1>3 DEF Upgrades!Cursor
<1>5. Cursors(e.cur)
  BY <1>1, <1>3, CursorIsNat DEF Cursors
<1>6. CountedOnce(e)
  BY <1>3, <1>4 DEF CountedOnce
<1>7. CountedBy(e, "overview") = CountedBy(d, "overview") /\ (\A b : Upgrades!Reached(e, b) = Upgrades!Reached(d, b))
  BY <1>3, <1>4 DEF CountedBy, Upgrades!Reached
<1>8. ExactOverview(e, done)
  BY <1>3, <1>7 DEF ExactOverview
<1> QED BY <1>3, <1>5, <1>6, <1>8

\* Dropping the quota history or shortening the samples touches none of the sums.
LEMMA HistoryRemoved ==
    ASSUME NEW d, NEW done, Good(d, done), NEW e, NEW h, NEW s,
           e = [d EXCEPT !.history = h] \/ e = [d EXCEPT !.samples = s] \/ e = [d EXCEPT !.tables = h]
    PROVE  Good(e, done) /\ e.ev = d.ev /\ Upgrades!Cursor(e, "latency") = Upgrades!Cursor(d, "latency")
<1> USE DEF Good
<1>1. /\ Tables(e) /\ e.ev = d.ev /\ e.ident = d.ident /\ e.act = d.act /\ e.short = d.short /\ e.lat = d.lat
      /\ e.cur = d.cur /\ e.hourly = d.hourly /\ e.daily = d.daily /\ e.base = d.base
  BY DEF Tables
<1>2. \A n : Upgrades!Cursor(e, n) = Upgrades!Cursor(d, n)
  BY <1>1 DEF Upgrades!Cursor
<1>3. CountedOnce(e)
  BY <1>1, <1>2 DEF CountedOnce
<1>4. CountedBy(e, "overview") = CountedBy(d, "overview") /\ (\A b : Upgrades!Reached(e, b) = Upgrades!Reached(d, b))
  BY <1>1, <1>2 DEF CountedBy, Upgrades!Reached
<1>5. ExactOverview(e, done)
  BY <1>1, <1>4 DEF ExactOverview
<1> QED BY <1>1, <1>2, <1>3, <1>5

\* An auth file and a provider are told apart by their names.
LEMMA ListNames ==
    ASSUME NEW ev, EventList(ev), NEW i \in DOMAIN ev
    PROVE  /\ ev[i].auth \in {"oauth", "apikey", ""}
           /\ ev[i].auth = "oauth" => ev[i].index = "f"
           /\ ev[i].auth = "apikey" => ev[i].index # "f"
           /\ ev[i].source \in {"k1", "k2"} => ev[i].index # "f"
<1>1. ev[i] \in EventRow /\ Named(ev[i])
  BY DEF EventList
<1>2. ev[i].auth \in {"oauth", "apikey", ""}
  BY <1>1 DEF EventRow
<1> QED BY <1>1, <1>2 DEF Named

LEMMA GreatestBounds ==
    ASSUME NEW n \in Nat, NEW ids, ids \subseteq 1..n
    PROVE  /\ Upgrades!Greatest(ids) \in Nat /\ \A i \in ids : i <= Upgrades!Greatest(ids)
           /\ ids # {} => Upgrades!Greatest(ids) = Upgrades!Max(ids) /\ Upgrades!Greatest(ids) \in ids
<1>1. CASE ids = {}
  BY <1>1 DEF Upgrades!Greatest
<1>2. CASE ids # {}
  <2>1. \E m \in ids : \A y \in ids : m >= y
    <3>1. PICK m \in ids : \A y \in ids : y <= m
      BY <1>2, MaxExists
    <3> QED BY <3>1
  <2>2. Upgrades!Max(ids) \in ids /\ \A y \in ids : Upgrades!Max(ids) >= y
    BY <2>1 DEF Upgrades!Max
  <2>3. Upgrades!Greatest(ids) = Upgrades!Max(ids)
    BY <1>2 DEF Upgrades!Greatest
  <2>4. Upgrades!Greatest(ids) \in 1..n /\ \A y \in ids : y \in 1..n /\ Upgrades!Greatest(ids) >= y
    BY <2>2, <2>3
  <2> QED BY <2>2, <2>3, <2>4
<1> QED BY <1>1, <1>2

SameIds(ids, r, ev, done) == \A i \in DOMAIN ev : i \in ids <=> Upgrades!Mine(r, ev[i], done)

\* A row counted anew from all events it matches is exact.
LEMMA CountedAnew ==
    ASSUME NEW ev, EventList(ev), NEW ids, ids \subseteq DOMAIN ev,
           NEW s, s = Upgrades!FullStats(ids, ev), NEW r, NEW done
    PROVE  /\ s = [sum |-> s.sum, last |-> s.last]
           /\ s.sum \in [Upgrades!Fields -> Int] /\ s.last \in Int
           /\ SameIds(ids, r, ev, done) =>
                 Exact(s.sum, Upgrades!SumOver(MineOf(r, ev, s.last, done), ev), done)
<1>1. Len(ev) \in Nat /\ DOMAIN ev = 1..Len(ev)
  BY DEF EventList
<1>2. Upgrades!Greatest(ids) \in Nat /\ \A i \in ids : i <= Upgrades!Greatest(ids)
  BY <1>1, GreatestBounds
<1>3. s = [sum |-> Upgrades!SumOver(ids, ev), last |-> Upgrades!Greatest(ids)]
  BY DEF Upgrades!FullStats
<1>4. SameIds(ids, r, ev, done) => MineOf(r, ev, s.last, done) = ids
  BY <1>2, <1>3 DEF MineOf, SameIds
<1>5. Upgrades!SumOver(ids, ev) \in [Upgrades!Fields -> Int]
  BY SumsAreNat
<1> QED BY <1>2, <1>3, <1>4, <1>5 DEF Exact

\* A migration that replaces the identities' rows.
LEMMA RowsReplaced ==
    ASSUME NEW d, NEW done, NEW more, Good(d, done), "cacheRead" \in more <=> "cacheRead" \in done,
           NEW rs, Rows(rs), ExactRows(rs, d.ev, more),
           NEW e, e = [d EXCEPT !.ident = rs]
    PROVE  Good(e, more) /\ Kept(d, e) /\ Upgrades!Cursor(e, "latency") = Upgrades!Cursor(d, "latency")
<1> USE DEF Good
<1>1. /\ Tables(e) /\ e.ev = d.ev /\ e.ident = rs /\ e.act = d.act /\ e.short = d.short /\ e.lat = d.lat
      /\ e.cur = d.cur /\ e.hourly = d.hourly /\ e.daily = d.daily /\ e.base = d.base /\ Kept(d, e)
  BY DEF Tables, Kept
<1>2. \A n : Upgrades!Cursor(e, n) = Upgrades!Cursor(d, n)
  BY <1>1 DEF Upgrades!Cursor
<1>3. CountedOnce(e)
  BY <1>1, <1>2 DEF CountedOnce
<1>4. CountedBy(e, "overview") = CountedBy(d, "overview") /\ (\A b : Upgrades!Reached(e, b) = Upgrades!Reached(d, b))
  BY <1>1, <1>2 DEF CountedBy, Upgrades!Reached
<1>5. ExactOverview(e, more)
  BY <1>1, <1>4 DEF ExactOverview, Exact
<1> QED BY <1>1, <1>2, <1>3, <1>5

LEMMA IdentitiesCounted ==
    ASSUME NEW d, NEW done, Good(d, done), "authIndex" \notin done, NEW e, e = Upgrades!IdentityStats(d)
    PROVE  Good(e, done) /\ Kept(d, e) /\ Upgrades!Cursor(e, "latency") = Upgrades!Cursor(d, "latency")
<1> DEFINE Ids(r) == {i \in DOMAIN d.ev : Upgrades!BySource(r, d.ev[i])}
<1>1. PICK rs : rs = [r \in DOMAIN d.ident |-> Upgrades!FullStats(Ids(r), d.ev)]
  OBVIOUS
<1>2. e = [d EXCEPT !.ident = rs]
  BY <1>1 DEF Upgrades!IdentityStats
<1>3. ASSUME NEW r \in DOMAIN rs
      PROVE  /\ rs[r] = [sum |-> rs[r].sum, last |-> rs[r].last]
             /\ rs[r].sum \in [Upgrades!Fields -> Int] /\ rs[r].last \in Int
             /\ Exact(rs[r].sum, Upgrades!SumOver(MineOf(r, d.ev, rs[r].last, done), d.ev), done)
  <2>1. EventList(d.ev)
    BY DEF Good, Tables
  <2>2. rs[r] = Upgrades!FullStats(Ids(r), d.ev) /\ Ids(r) \subseteq DOMAIN d.ev
    BY <1>1, <1>3
  <2>3. SameIds(Ids(r), r, d.ev, done)
    BY DEF Upgrades!Mine, SameIds
  <2> HIDE DEF Ids
  <2> QED BY <2>1, <2>2, <2>3, CountedAnew
<1>4. Rows(rs) /\ ExactRows(rs, d.ev, done)
  BY <1>1, <1>3 DEF Rows, ExactRows
<1> QED BY <1>2, <1>4, RowsReplaced

\* The rows that stay are those that were there.
LEMMA PrefixesRemoved ==
    ASSUME NEW d, NEW done, Good(d, done), NEW e, e = Upgrades!WithoutPrefixes(d)
    PROVE  Good(e, done) /\ Kept(d, e) /\ Upgrades!Cursor(e, "latency") = Upgrades!Cursor(d, "latency")
<1>1. PICK rs : rs = [r \in DOMAIN d.ident \ Upgrades!Prefixes |-> d.ident[r]]
  OBVIOUS
<1>2. e = [d EXCEPT !.ident = rs]
  BY <1>1 DEF Upgrades!WithoutPrefixes, Good, Tables
<1>3. Rows(rs) /\ ExactRows(rs, d.ev, done)
  BY <1>1 DEF Good, Rows, ExactRows
<1> QED BY <1>2, <1>3, RowsReplaced

\* Raw keys become auth indexes: the row of the auth file stays, and the
\* others are counted anew.
LEMMA KeysRenamed ==
    ASSUME NEW rs, NEW key \in {"k1", "k2"}, NEW ev, EventList(ev), NEW ts,
           ts = Upgrades!ToAuthIndex(rs, key, ev), rs = [r \in DOMAIN rs |-> rs[r]]
    PROVE  /\ ts = [r \in DOMAIN ts |-> ts[r]]
           /\ "f" \in DOMAIN ts => "f" \in DOMAIN rs /\ ts["f"] = rs["f"]
<1>1. "f" \notin Upgrades!AuthIndexes(key, ev)
  <2>1. \A i \in DOMAIN ev : ev[i].source = key => ev[i].index # "f"
    BY ListNames
  <2> QED BY <2>1 DEF Upgrades!AuthIndexes
<1>2. CASE key \notin DOMAIN rs
  BY <1>2 DEF Upgrades!ToAuthIndex
<1>3. CASE key \in DOMAIN rs
  <2>1. PICK found, rest : found = Upgrades!AuthIndexes(key, ev) /\ rest = DOMAIN rs \ {key}
    OBVIOUS
  <2>2. PICK some : some = IF Upgrades!Cardinality(found) = 1 THEN found ELSE {}
    OBVIOUS
  <2>3. ts = [r \in rest \cup some |->
                 IF r \in found \/ r \notin rest THEN [sum |-> Upgrades!Zero, last |-> 0] ELSE rs[r]]
    BY <1>3, <2>1, <2>2 DEF Upgrades!ToAuthIndex
  <2> QED BY <1>1, <2>1, <2>2, <2>3
<1> QED BY <1>2, <1>3

LEMMA KeysCounted ==
    ASSUME NEW d, NEW done, Good(d, done), "authIndex" \notin done,
           NEW more, "cacheRead" \in more <=> "cacheRead" \in done, "authIndex" \in more,
           NEW e, e = Upgrades!AuthIndexIdentities(d)
    PROVE  Good(e, more) /\ Kept(d, e) /\ Upgrades!Cursor(e, "latency") = Upgrades!Cursor(d, "latency")
<1> DEFINE Ids(r) == {i \in DOMAIN d.ev : d.ev[i].auth \in {"", "apikey"} /\ r = d.ev[i].index}
<1>1. PICK us : us = Upgrades!ToAuthIndex(d.ident, "k2", d.ev)
  OBVIOUS
<1>2. PICK ts : ts = Upgrades!ToAuthIndex(us, "k1", d.ev)
  OBVIOUS
<1>3. EventList(d.ev) /\ Rows(d.ident) /\ ExactRows(d.ident, d.ev, done)
  BY DEF Good, Tables
<1>4. "f" \in DOMAIN ts => "f" \in DOMAIN d.ident /\ ts["f"] = d.ident["f"]
  <2>1. us = [r \in DOMAIN us |-> us[r]] /\ ("f" \in DOMAIN us => "f" \in DOMAIN d.ident /\ us["f"] = d.ident["f"])
    BY <1>1, <1>3, KeysRenamed DEF Rows
  <2> QED BY <1>2, <1>3, <2>1, KeysRenamed
<1>5. PICK rs : rs = [r \in DOMAIN ts |-> IF r = "f" THEN ts[r] ELSE Upgrades!FullStats(Ids(r), d.ev)]
  OBVIOUS
<1>6. e = [d EXCEPT !.ident = rs]
  <2>1. Upgrades!RawKeys[1] = "k2" /\ Upgrades!RawKeys[2] = "k1"
    BY DEF Upgrades!RawKeys
  <2>2. rs = Upgrades!AuthIndexStats(ts, d.ev)
    BY <1>5 DEF Upgrades!AuthIndexStats
  <2> QED BY <1>1, <1>2, <2>1, <2>2 DEF Upgrades!AuthIndexIdentities
<1>7. ASSUME NEW r \in DOMAIN rs
      PROVE  /\ rs[r] = [sum |-> rs[r].sum, last |-> rs[r].last]
             /\ rs[r].sum \in [Upgrades!Fields -> Int] /\ rs[r].last \in Int
             /\ Upgrades!Typed(r, d.ev) =>
                   Exact(rs[r].sum, Upgrades!SumOver(MineOf(r, d.ev, rs[r].last, more), d.ev), more)
  <2>1. \A i \in DOMAIN d.ev : /\ d.ev[i].auth \in {"oauth", "apikey", ""}
                               /\ d.ev[i].auth = "oauth" => d.ev[i].index = "f"
                               /\ d.ev[i].auth = "apikey" => d.ev[i].index # "f"
    BY <1>3, ListNames
  <2>2. CASE r = "f"
    <3>1. rs[r] = d.ident["f"] /\ "f" \in DOMAIN d.ident
      BY <1>4, <1>5, <1>7, <2>2
    <3>2. Upgrades!Typed(r, d.ev) => MineOf(r, d.ev, rs[r].last, more) = MineOf(r, d.ev, rs[r].last, done)
      BY <2>1, <2>2
         DEF MineOf, Upgrades!Mine, Upgrades!ByIndex, Upgrades!BySource, Upgrades!TypeOf, Upgrades!Typed
    <3>3. Exact(rs[r].sum, Upgrades!SumOver(MineOf(r, d.ev, rs[r].last, done), d.ev), done)
      BY <1>3, <2>2, <3>1 DEF ExactRows, Told
    <3>4. Upgrades!Typed(r, d.ev) =>
             Exact(rs[r].sum, Upgrades!SumOver(MineOf(r, d.ev, rs[r].last, more), d.ev), more)
      BY <3>2, <3>3 DEF Exact
    <3> QED BY <1>3, <3>1, <3>4 DEF Rows
  <2>3. CASE r # "f"
    <3>1. rs[r] = Upgrades!FullStats(Ids(r), d.ev) /\ Ids(r) \subseteq DOMAIN d.ev
      BY <1>5, <1>7, <2>3
    <3>2. Upgrades!Typed(r, d.ev) => SameIds(Ids(r), r, d.ev, more)
      BY <2>1, <2>3 DEF Upgrades!ByIndex, Upgrades!TypeOf, Upgrades!Mine, Upgrades!Typed, SameIds
    <3> HIDE DEF Ids
    <3> QED BY <1>3, <3>1, <3>2, CountedAnew
  <2> QED BY <2>2, <2>3
<1>8. Rows(rs) /\ ExactRows(rs, d.ev, more)
  BY <1>5, <1>7 DEF Rows, ExactRows, Told
<1> QED BY <1>6, <1>8, RowsReplaced

\* A sum corrected by the difference of the counted events is exact for them
\* in their new form.
LEMMA CorrectedSum ==
    ASSUME NEW s \in [Upgrades!Fields -> Int], NEW b \in [Upgrades!Fields -> Nat],
           NEW ev, EventList(ev), NEW new, EventList(new), NEW ids, NEW done,
           NEW t, t = Upgrades!NotBelowZero(Upgrades!Plus(s,
                          Upgrades!Minus(Upgrades!SumOver(ids, new), Upgrades!SumOver(ids, ev))))
    PROVE  /\ t \in [Upgrades!Fields -> Int]
           /\ Exact(s, Upgrades!Plus(b, Upgrades!SumOver(ids, ev)), done) =>
                 Exact(t, Upgrades!Plus(b, Upgrades!SumOver(ids, new)), done)
<1>1. PICK x, y : x = Upgrades!SumOver(ids, ev) /\ y = Upgrades!SumOver(ids, new)
  OBVIOUS
<1>2. x \in [Upgrades!Fields -> Nat] /\ y \in [Upgrades!Fields -> Nat]
  BY <1>1, SumsAreNat
<1>3. PICK p : p = Upgrades!Plus(s, Upgrades!Minus(y, x))
  OBVIOUS
<1>4. p \in [Upgrades!Fields -> Int] /\ \A f \in Upgrades!Fields : p[f] = s[f] + (y[f] - x[f])
  BY <1>2, <1>3 DEF Upgrades!Plus, Upgrades!Minus
<1>7. t = [f \in Upgrades!Fields |-> IF f = "cached" /\ p[f] < 0 THEN 0 ELSE p[f]]
  BY <1>1, <1>3 DEF Upgrades!NotBelowZero
<1>8. t \in [Upgrades!Fields -> Int] /\ \A f \in Upgrades!Fields : t[f] = IF f = "cached" /\ p[f] < 0 THEN 0 ELSE p[f]
  BY <1>4, <1>7
<1>9. ASSUME Exact(s, Upgrades!Plus(b, x), done), NEW f \in Upgrades!Fields, ~(f = "read" /\ "cacheRead" \notin done)
      PROVE  t[f] = Upgrades!Plus(b, y)[f]
  <2>1. s[f] = b[f] + x[f] /\ Upgrades!Plus(b, y)[f] = b[f] + y[f]
    BY <1>9 DEF Exact, Upgrades!Plus
  <2>2. p[f] = b[f] + y[f] /\ p[f] >= 0
    BY <1>2, <1>4, <2>1
  <2>3. ~(p[f] < 0)
    BY <1>4, <2>2
  <2>4. t[f] = p[f]
    BY <1>8, <2>3
  <2> QED BY <2>1, <2>2, <2>4
<1> QED BY <1>1, <1>8, <1>9 DEF Exact

\* Sums without deleted events.
LEMMA ExactFromZero ==
    ASSUME NEW ev, EventList(ev), NEW ids, NEW done, NEW s
    PROVE  Exact(s, Upgrades!Plus(Upgrades!Zero, Upgrades!SumOver(ids, ev)), done)
              <=> Exact(s, Upgrades!SumOver(ids, ev), done)
<1>1. \A f \in Upgrades!Fields : Upgrades!Plus(Upgrades!Zero, Upgrades!SumOver(ids, ev))[f] = Upgrades!SumOver(ids, ev)[f]
  <2>1. Upgrades!SumOver(ids, ev) \in [Upgrades!Fields -> Nat]
    BY SumsAreNat
  <2> QED BY <2>1 DEF Upgrades!Plus, Upgrades!Zero
<1> QED BY <1>1 DEF Exact

\* new is the events in another form: of the same accounts and times.
Rewritten(ev, new) ==
    /\ EventList(new) /\ DOMAIN new = DOMAIN ev
    /\ \A i \in DOMAIN ev : /\ new[i].index = ev[i].index /\ new[i].auth = ev[i].auth
                             /\ new[i].misses = ev[i].misses

LEMMA Backfilled ==
    ASSUME NEW d, NEW done, Good(d, done), "authIndex" \in done, NEW new, Rewritten(d.ev, new),
           NEW e, e = Upgrades!Backfill(d, new)
    PROVE  Good(e, done) /\ Kept(d, e) /\ Upgrades!Cursor(e, "latency") = Upgrades!Cursor(d, "latency")
<1> USE DEF Good
<1> DEFINE Delta(ids) == Upgrades!Minus(Upgrades!SumOver(ids, new), Upgrades!SumOver(ids, d.ev))
           Fixed(s, ids) == Upgrades!NotBelowZero(Upgrades!Plus(s, Delta(ids)))
           Of(r) == {i \in DOMAIN d.ev : Upgrades!ByIndex(r, d.ev[i]) /\ i <= d.ident[r].last}
           C == CountedBy(d, "overview")
           K(b) == {i \in Upgrades!Reached(d, b) : i <= Upgrades!Cursor(d, "overview")}
<1>1. PICK rs : rs = [r \in DOMAIN d.ident |-> [sum |-> Fixed(d.ident[r].sum, Of(r)), last |-> d.ident[r].last]]
  OBVIOUS
<1>2. PICK h, y : h = Fixed(d.hourly, K("hour")) /\ y = Fixed(d.daily, K("day"))
  OBVIOUS
<1>3. DOMAIN new = DOMAIN d.ev /\ EventList(new) /\ EventList(d.ev)
  BY DEF Rewritten, Tables
<1>4. e = [d EXCEPT !.ev = new, !.hourly = h, !.daily = y, !.ident = rs]
  <2>1. /\ Upgrades!OverviewDelta(d, Upgrades!Reached(d, "hour"), new) = Delta(K("hour"))
        /\ Upgrades!OverviewDelta(d, Upgrades!Reached(d, "day"), new) = Delta(K("day"))
    BY DEF Upgrades!OverviewDelta
  <2>3. \A r : Upgrades!IdentityDelta(d, r, new) = Delta(Of(r))
    BY DEF Upgrades!IdentityDelta
  <2> HIDE DEF C, K, Of, Delta
  <2>5. rs = [r \in DOMAIN d.ident |->
                 [sum |-> Upgrades!NotBelowZero(Upgrades!Plus(d.ident[r].sum, Upgrades!IdentityDelta(d, r, new))),
                  last |-> d.ident[r].last]]
    BY <1>1, <2>3
  <2> QED BY <1>2, <2>1, <2>5 DEF Upgrades!Backfill, Tables
<1> HIDE DEF Fixed
<1>5. h \in [Upgrades!Fields -> Int]
      /\ (Upgrades!Reached(d, "hour") = DOMAIN d.ev =>
            Exact(h, Upgrades!Plus(d.base, Upgrades!SumOver(C, new)), done))
  <2>1. h \in [Upgrades!Fields -> Int]
        /\ (Exact(d.hourly, Upgrades!Plus(d.base, Upgrades!SumOver(K("hour"), d.ev)), done) =>
              Exact(h, Upgrades!Plus(d.base, Upgrades!SumOver(K("hour"), new)), done))
    <3> HIDE DEF K
    <3> QED BY <1>2, <1>3, CorrectedSum DEF Fixed, Tables
  <2>2. Upgrades!Reached(d, "hour") = DOMAIN d.ev => K("hour") = C
    BY DEF CountedBy
  <2>3. Upgrades!Reached(d, "hour") = DOMAIN d.ev =>
           Exact(d.hourly, Upgrades!Plus(d.base, Upgrades!SumOver(C, d.ev)), done)
    BY DEF ExactOverview
  <2> HIDE DEF K, C
  <2> QED BY <2>1, <2>2, <2>3
<1>6. y \in [Upgrades!Fields -> Int]
      /\ (Upgrades!Reached(d, "day") = DOMAIN d.ev =>
            Exact(y, Upgrades!Plus(d.base, Upgrades!SumOver(C, new)), done))
  <2>1. y \in [Upgrades!Fields -> Int]
        /\ (Exact(d.daily, Upgrades!Plus(d.base, Upgrades!SumOver(K("day"), d.ev)), done) =>
              Exact(y, Upgrades!Plus(d.base, Upgrades!SumOver(K("day"), new)), done))
    <3> HIDE DEF K
    <3> QED BY <1>2, <1>3, CorrectedSum DEF Fixed, Tables
  <2>2. Upgrades!Reached(d, "day") = DOMAIN d.ev => K("day") = C
    BY DEF CountedBy
  <2>3. Upgrades!Reached(d, "day") = DOMAIN d.ev =>
           Exact(d.daily, Upgrades!Plus(d.base, Upgrades!SumOver(C, d.ev)), done)
    BY DEF ExactOverview
  <2> HIDE DEF K, C
  <2> QED BY <2>1, <2>2, <2>3
<1>7. ASSUME NEW r \in DOMAIN d.ident
      PROVE  /\ rs[r] = [sum |-> rs[r].sum, last |-> rs[r].last] /\ rs[r].sum \in [Upgrades!Fields -> Int]
             /\ rs[r].last \in Int
             /\ Told(r, new, done) =>
                   Exact(rs[r].sum, Upgrades!SumOver(MineOf(r, new, rs[r].last, done), new), done)
  <2>1. rs[r].sum = Fixed(d.ident[r].sum, Of(r)) /\ rs[r].last = d.ident[r].last
        /\ rs[r] = [sum |-> rs[r].sum, last |-> rs[r].last]
    BY <1>1, <1>7
  <2>2. d.ident[r].sum \in [Upgrades!Fields -> Int] /\ d.ident[r].last \in Int
    BY <1>7 DEF Rows
  <2>3. MineOf(r, new, rs[r].last, done) = Of(r) /\ MineOf(r, d.ev, rs[r].last, done) = Of(r)
    BY <1>3, <2>1 DEF MineOf, Upgrades!Mine, Rewritten, Upgrades!ByIndex
  <2>4. Told(r, new, done) => Exact(d.ident[r].sum, Upgrades!SumOver(Of(r), d.ev), done)
    <3>1. Told(r, new, done) => Told(r, d.ev, done)
      BY <1>3 DEF Told, Upgrades!Typed, Rewritten
    <3> QED BY <1>7, <2>1, <2>3, <3>1 DEF ExactRows
  <2> HIDE DEF Of
  <2>5. Upgrades!Zero \in [Upgrades!Fields -> Nat]
    BY DEF Upgrades!Zero
  <2>7. rs[r].sum \in [Upgrades!Fields -> Int]
        /\ (Exact(d.ident[r].sum, Upgrades!Plus(Upgrades!Zero, Upgrades!SumOver(Of(r), d.ev)), done) =>
              Exact(rs[r].sum, Upgrades!Plus(Upgrades!Zero, Upgrades!SumOver(Of(r), new)), done))
    BY <1>3, <2>1, <2>2, <2>5, CorrectedSum DEF Fixed
  <2>8. ASSUME Told(r, new, done) PROVE Exact(rs[r].sum, Upgrades!SumOver(Of(r), new), done)
    <3>1. Exact(d.ident[r].sum, Upgrades!Plus(Upgrades!Zero, Upgrades!SumOver(Of(r), d.ev)), done)
      BY <1>3, <2>4, <2>8, ExactFromZero
    <3> QED BY <1>3, <2>7, <3>1, ExactFromZero
  <2> QED BY <2>1, <2>2, <2>3, <2>7, <2>8
<1>8. /\ Tables(e) /\ e.ev = new /\ e.ident = rs /\ e.act = d.act /\ e.short = d.short /\ e.lat = d.lat
      /\ e.cur = d.cur /\ e.hourly = h /\ e.daily = y /\ e.base = d.base /\ Kept(d, e)
  BY <1>3, <1>4, <1>5, <1>6 DEF Tables, Kept
<1>9. \A n : Upgrades!Cursor(e, n) = Upgrades!Cursor(d, n)
  BY <1>8 DEF Upgrades!Cursor
<1>10. CountedOnce(e)
  BY <1>3, <1>8, <1>9 DEF CountedOnce
<1>11. CountedBy(e, "overview") = C
  BY <1>3, <1>8, <1>9 DEF CountedBy
<1>12. (\A b : Upgrades!Reached(e, b) = Upgrades!Reached(d, b))
  BY <1>3, <1>8 DEF Upgrades!Reached, Rewritten
<1>13. ExactOverview(e, done)
  <2> HIDE DEF C
  <2> QED BY <1>3, <1>5, <1>6, <1>8, <1>11, <1>12 DEF ExactOverview
<1>14. Rows(rs) /\ ExactRows(rs, new, done)
  BY <1>1, <1>7 DEF Rows, ExactRows
<1> QED BY <1>8, <1>9, <1>10, <1>13, <1>14

\* A correction keeps the account and the time of an event.
SameEvent(e, g) ==
    g \in EventRow /\ g.auth = e.auth /\ g.source = e.source /\ g.index = e.index /\ g.misses = e.misses

LEMMA RowNumbers ==
    ASSUME NEW e \in EventRow
    PROVE  /\ e.input \in Nat /\ e.output \in Nat /\ e.reasoning \in Nat /\ e.cached \in Nat
           /\ e.read \in Nat /\ e.create \in Nat /\ e.total \in Nat
BY DEF EventRow

LEMMA ClaudeRow ==
    ASSUME NEW e \in EventRow PROVE SameEvent(e, Upgrades!ClaudeTokens(e))
<1>1. PICK g : g = Upgrades!ClaudeTokens(e)
  OBVIOUS
<1>2. CASE g = e
  BY <1>1, <1>2 DEF SameEvent
<1>3. CASE g # e
  <2>1. PICK i, j : /\ g = [e EXCEPT !.input = i, !.cached = e.read, !.total = j]
                    /\ i \in Nat /\ j \in Nat
    <3>1. PICK k : k = IF e.total = 0 THEN e.input + (e.read + e.create)
                       ELSE IF e.total > e.output + e.reasoning THEN e.total - e.output - e.reasoning
                       ELSE e.input
      OBVIOUS
    <3>2. PICK i, j : /\ i = (IF k > e.input THEN k ELSE e.input)
                      /\ j = (IF e.total = 0 THEN e.input + (e.read + e.create) + e.output + e.reasoning ELSE e.total)
      OBVIOUS
    <3>3. k \in Nat
      BY <3>1, RowNumbers
    <3>4. i \in Nat /\ j \in Nat
      BY <3>2, <3>3, RowNumbers
    <3>5. g = [e EXCEPT !.input = i, !.cached = e.read, !.total = j]
      BY <1>1, <1>3, <3>1, <3>2 DEF Upgrades!ClaudeTokens
    <3> QED BY <3>4, <3>5
  <2>2. PICK r : r = e.read
    OBVIOUS
  <2>3. r \in Nat
    BY <2>2 DEF EventRow
  <2>4. g = [[[e EXCEPT !.input = i] EXCEPT !.cached = r] EXCEPT !.total = j]
    BY <2>1, <2>2 DEF EventRow
  <2>5. PICK u : u = [e EXCEPT !.input = i]
    OBVIOUS
  <2>6. SameEvent(e, u)
    BY <2>1, <2>5 DEF SameEvent, EventRow
  <2>7. PICK v : v = [u EXCEPT !.cached = r]
    OBVIOUS
  <2>8. SameEvent(e, v)
    BY <2>3, <2>6, <2>7 DEF SameEvent, EventRow
  <2>9. g = [v EXCEPT !.total = j]
    BY <2>4, <2>5, <2>7
  <2>10. SameEvent(e, g)
    BY <2>1, <2>8, <2>9 DEF SameEvent, EventRow
  <2> QED BY <1>1, <2>10
<1> QED BY <1>2, <1>3

LEMMA GeminiRow ==
    ASSUME NEW e \in EventRow PROVE SameEvent(e, Upgrades!GeminiTokens(e))
<1>1. PICK g : g = Upgrades!GeminiTokens(e)
  OBVIOUS
<1>2. PICK x : x = e.output + e.reasoning
  OBVIOUS
<1>3. x \in Nat
  BY <1>2, RowNumbers
<1>4. g = e \/ g = [e EXCEPT !.output = x]
  BY <1>1, <1>2 DEF Upgrades!GeminiTokens
<1> QED BY <1>1, <1>3, <1>4 DEF SameEvent, EventRow

LEMMA CacheReadRow ==
    ASSUME NEW e \in EventRow, NEW g, g = Upgrades!CacheReadTokens(e)
    PROVE  SameEvent(e, g) /\ \A f \in Upgrades!Fields : f # "read" => g[f] = e[f]
<1>1. PICK x : x = IF e.read > 0 THEN e.read ELSE e.cached
  OBVIOUS
<1>2. g = [e EXCEPT !.read = x] /\ x \in Nat
  BY <1>1 DEF Upgrades!CacheReadTokens, EventRow
<1>3. SameEvent(e, g)
  BY <1>2 DEF SameEvent, EventRow
<1>4. ASSUME NEW f \in {"input", "output", "cached", "total"} PROVE g[f] = e[f]
  BY <1>2 DEF EventRow
<1> QED BY <1>3, <1>4 DEF Upgrades!Fields

LEMMA RewrittenBy ==
    ASSUME NEW ev, EventList(ev), NEW new, new = [i \in DOMAIN ev |-> new[i]],
           \A i \in DOMAIN ev : SameEvent(ev[i], new[i])
    PROVE  Rewritten(ev, new)
<1>1. Len(ev) \in Nat /\ DOMAIN ev = 1..Len(ev) /\ \A i \in DOMAIN ev : Named(ev[i])
  BY DEF EventList
<1>2. new \in [1..Len(ev) -> EventRow]
  BY <1>1 DEF SameEvent
<1>3. new \in Seq(EventRow)
  BY <1>1, <1>2, SeqDef
<1>4. Len(new) = Len(ev)
  BY <1>1, <1>2, <1>3
<1>5. \A i \in 1..Len(new) : Named(new[i])
  BY <1>1, <1>4 DEF Named, SameEvent
<1> QED BY <1>1, <1>2, <1>3, <1>5 DEF EventList, Rewritten, SameEvent

LEMMA TokensBackfilled ==
    ASSUME NEW d, NEW done, Good(d, done), "authIndex" \in done,
           NEW e, e = Upgrades!BackfillClaude(d) \/ e = Upgrades!BackfillGemini(d)
    PROVE  Good(e, done) /\ Kept(d, e) /\ Upgrades!Cursor(e, "latency") = Upgrades!Cursor(d, "latency")
<1>1. EventList(d.ev) /\ \A i \in DOMAIN d.ev : d.ev[i] \in EventRow
  BY DEF Good, Tables, EventList
<1>2. CASE e = Upgrades!BackfillClaude(d)
  <2>1. PICK new : new = [i \in DOMAIN d.ev |-> Upgrades!ClaudeTokens(d.ev[i])]
    OBVIOUS
  <2>2. Rewritten(d.ev, new)
    BY <1>1, <2>1, ClaudeRow, RewrittenBy
  <2> QED BY <1>2, <2>1, <2>2, Backfilled DEF Upgrades!BackfillClaude
<1>3. CASE e = Upgrades!BackfillGemini(d)
  <2>1. PICK new : new = [i \in DOMAIN d.ev |-> Upgrades!GeminiTokens(d.ev[i])]
    OBVIOUS
  <2>2. Rewritten(d.ev, new)
    BY <1>1, <2>1, GeminiRow, RewrittenBy
  <2> QED BY <1>3, <2>1, <2>2, Backfilled DEF Upgrades!BackfillGemini
<1> QED BY <1>2, <1>3

LEMMA RepairedIsInt ==
    ASSUME NEW s \in [Upgrades!Fields -> Int], NEW ev, EventList(ev), NEW ids
    PROVE  Upgrades!RepairedRead(s, ids, ev) \in [Upgrades!Fields -> Int]
<1>1. PICK n, g : n = Len(ev) /\ g = [i \in DOMAIN ev |-> Upgrades!CacheReadTokens(ev[i]).read - ev[i].cached]
  OBVIOUS
<1>2. n \in Nat /\ DOMAIN ev = 1..n /\ \A i \in 1..n : ev[i] \in EventRow
  BY <1>1 DEF EventList
<1>3. g \in [1..n -> Int]
  <2>1. ASSUME NEW i \in 1..n PROVE Upgrades!CacheReadTokens(ev[i]).read - ev[i].cached \in Int
    <3>1. PICK e : e = ev[i]
      OBVIOUS
    <3>2. e \in EventRow
      BY <1>2, <3>1
    <3>3. Upgrades!CacheReadTokens(e).read \in Nat /\ e.cached \in Nat
      BY <3>2 DEF EventRow, Upgrades!CacheReadTokens
    <3> QED BY <3>1, <3>3
  <2> QED BY <1>1, <1>2, <2>1
<1>4. PICK z : z = s["cached"] + Upgrades!Total(g, ids)
  OBVIOUS
<1>5. z \in Int
  <2>1. "cached" \in Upgrades!Fields
    BY DEF Upgrades!Fields
  <2>2. Upgrades!Total(g, ids) \in Int
    BY <1>2, <1>3, TotalSigned
  <2> QED BY <1>4, <2>1, <2>2
<1>6. Upgrades!RepairedRead(s, ids, ev) = [f \in Upgrades!Fields |-> IF f # "read" THEN s[f] ELSE IF z < 0 THEN 0 ELSE z]
  BY <1>1, <1>4 DEF Upgrades!RepairedRead
<1> QED BY <1>5, <1>6

\* The cache-read column is repaired from the cached one.
LEMMA RepairedSum ==
    ASSUME NEW s \in [Upgrades!Fields -> Int], NEW b \in [Upgrades!Fields -> Nat],
           NEW ev, EventList(ev), NEW new, new = [i \in DOMAIN ev |-> Upgrades!CacheReadTokens(ev[i])],
           NEW ids, NEW done, NEW more, NEW c \in [Upgrades!Fields -> Nat],
           \A f \in Upgrades!Fields : c[f] = IF f = "read" THEN b["cached"] ELSE b[f],
           NEW t, t = Upgrades!RepairedRead(s, ids, ev)
    PROVE  /\ t \in [Upgrades!Fields -> Int]
           /\ Exact(s, Upgrades!Plus(b, Upgrades!SumOver(ids, ev)), done) =>
                 Exact(t, Upgrades!Plus(c, Upgrades!SumOver(ids, new)), more)
<1>1. PICK n : n = Len(ev)
  OBVIOUS
<1>2. n \in Nat /\ DOMAIN ev = 1..n /\ \A i \in 1..n : ev[i] \in EventRow
  BY <1>1 DEF EventList
<1>3. \A i \in 1..n : SameEvent(ev[i], new[i]) /\ \A f \in Upgrades!Fields : f # "read" => new[i][f] = ev[i][f]
  BY <1>2, CacheReadRow
<1>4. EventList(new) /\ DOMAIN new = 1..n /\ Len(new) = n
  <2>1. Rewritten(ev, new)
    BY <1>2, <1>3, RewrittenBy
  <2>2. DOMAIN new = 1..Len(new) /\ Len(new) \in Nat
    BY <2>1 DEF Rewritten, EventList
  <2>3. DOMAIN new = 1..n
    BY <1>2
  <2>4. Len(new) = n
    BY <1>2, <2>2, <2>3
  <2> QED BY <2>1, <2>3, <2>4 DEF Rewritten
<1>5. "read" \in Upgrades!Fields /\ "cached" \in Upgrades!Fields
  BY DEF Upgrades!Fields
<1>6. PICK g : g = [i \in DOMAIN ev |-> Upgrades!CacheReadTokens(ev[i]).read - ev[i].cached]
  OBVIOUS
<1>7. PICK p, q : p = Column(new, "read") /\ q = Column(ev, "cached")
  OBVIOUS
<1>8. /\ p \in [1..n -> Int] /\ \A i \in 1..n : p[i] = new[i]["read"] /\ p[i] \in Nat
      /\ q \in [1..n -> Int] /\ \A i \in 1..n : q[i] = ev[i]["cached"] /\ q[i] \in Nat
  <2>1. EventList(ev) /\ EventList(new)
    BY <1>4
  <2>2. p \in [1..n -> Int] /\ \A i \in 1..n : p[i] = new[i]["read"] /\ new[i]["read"] \in Nat
    BY <1>4, <1>5, <1>7, <2>1, ColumnOf
  <2>3. q \in [1..n -> Int] /\ \A i \in 1..n : q[i] = ev[i]["cached"] /\ ev[i]["cached"] \in Nat
    BY <1>1, <1>5, <1>7, <2>1, ColumnOf
  <2> QED BY <2>2, <2>3
<1>9. g \in [1..n -> Int] /\ \A i \in 1..n : g[i] = p[i] - q[i]
  <2>1. \A i \in 1..n : Upgrades!CacheReadTokens(ev[i]).read = p[i] /\ ev[i].cached = q[i]
    BY <1>2, <1>8
  <2> QED BY <1>2, <1>6, <1>8, <2>1
<1>10. Upgrades!Total(p, ids) = Upgrades!Total(g, ids) + Upgrades!Total(q, ids)
  <2>1. ASSUME NEW i \in 1..n PROVE p[i] = g[i] + q[i]
    <3>1. p[i] \in Nat /\ q[i] \in Nat /\ g[i] = p[i] - q[i]
      BY <1>8, <1>9
    <3> QED BY <3>1
  <2>2. n \in Nat /\ p \in [1..n -> Int] /\ g \in [1..n -> Int] /\ q \in [1..n -> Int]
    BY <1>2, <1>8, <1>9
  <2>3. Splits(n, p, ids, g, ids, q, ids)
    BY <2>1, <2>2 DEF Splits, Part
  <2>4. Adds(p, g, q, ids)
    BY <2>2, <2>3, TotalAdds
  <2> QED BY <2>4 DEF Adds
<1>11. Upgrades!Total(g, ids) \in Int
  BY <1>2, <1>9, TotalSigned
<1>12. PICK x, y : x = Upgrades!SumOver(ids, ev) /\ y = Upgrades!SumOver(ids, new)
  OBVIOUS
<1>13. /\ x \in [Upgrades!Fields -> Nat] /\ y \in [Upgrades!Fields -> Nat]
       /\ y["read"] = Upgrades!Total(p, ids) /\ x["cached"] = Upgrades!Total(q, ids)
  BY <1>4, <1>5, <1>7, <1>12, SumsAreNat, SumIsNat
<1>14. \A f \in Upgrades!Fields : f # "read" => y[f] = x[f]
  <2> SUFFICES ASSUME NEW f \in Upgrades!Fields, f # "read" PROVE y[f] = x[f]
    OBVIOUS
  <2>1. Column(new, f) = Column(ev, f)
    BY <1>2, <1>3, <1>4 DEF Column
  <2> QED BY <1>4, <1>12, <2>1, SumIsNat
<1>15. PICK z : z = s["cached"] + Upgrades!Total(g, ids)
  OBVIOUS
<1>16. z \in Int
  BY <1>5, <1>11, <1>15
<1>17. t = [f \in Upgrades!Fields |-> IF f # "read" THEN s[f] ELSE IF z < 0 THEN 0 ELSE z]
  BY <1>6, <1>15 DEF Upgrades!RepairedRead
<1>18. t \in [Upgrades!Fields -> Int]
  BY <1>16, <1>17
<1>19. ASSUME Exact(s, Upgrades!Plus(b, x), done), NEW f \in Upgrades!Fields
       PROVE  t[f] = Upgrades!Plus(c, y)[f]
  <2>1. Upgrades!Plus(c, y)[f] = c[f] + y[f]
    BY DEF Upgrades!Plus
  <2>2. CASE f # "read"
    <3>1. s[f] = b[f] + x[f]
      BY <1>19, <2>2 DEF Exact, Upgrades!Plus
    <3> QED BY <1>14, <1>17, <2>1, <2>2, <3>1
  <2>3. CASE f = "read"
    <3>1. s["cached"] = b["cached"] + x["cached"]
      BY <1>5, <1>19 DEF Exact, Upgrades!Plus
    <3>2. b["cached"] \in Nat /\ x["cached"] \in Nat /\ y["read"] \in Nat
      BY <1>5, <1>13
    <3>3. z = b["cached"] + y["read"] /\ ~(z < 0)
      BY <1>10, <1>11, <1>13, <1>15, <3>1, <3>2
    <3>4. t["read"] = z
      BY <1>5, <1>17, <3>3
    <3>5. c["read"] = b["cached"]
      BY <1>5
    <3> QED BY <2>1, <2>3, <3>3, <3>4, <3>5
  <2> QED BY <2>2, <2>3
<1> QED BY <1>12, <1>18, <1>19 DEF Exact

LEMMA CacheReadBackfilled ==
    ASSUME NEW d, NEW done, Good(d, done), "authIndex" \in done,
           NEW more, "authIndex" \in more,
           NEW e, e = Upgrades!BackfillCacheRead(d)
    PROVE  Good(e, more) /\ Kept(d, e) /\ Upgrades!Cursor(e, "latency") = Upgrades!Cursor(d, "latency")
<1> USE DEF Good
<1> DEFINE Of(r) == {i \in DOMAIN d.ev : Upgrades!ByIndex(r, d.ev[i]) /\ i <= d.ident[r].last}
           C == CountedBy(d, "overview")
<1>1. PICK rs : rs = [r \in DOMAIN d.ident |->
                         [sum |-> Upgrades!RepairedRead(d.ident[r].sum, Of(r), d.ev), last |-> d.ident[r].last]]
  OBVIOUS
<1>2. PICK h, y : h = Upgrades!RepairedRead(d.hourly, C, d.ev) /\ y = Upgrades!RepairedRead(d.daily, C, d.ev)
  OBVIOUS
<1>3. PICK new, b : /\ new = [i \in DOMAIN d.ev |-> Upgrades!CacheReadTokens(d.ev[i])]
                    /\ b = [d.base EXCEPT !["read"] = d.base["cached"]]
  OBVIOUS
<1>4. EventList(d.ev)
  BY DEF Tables
<1>5. Rewritten(d.ev, new)
  <2>1. \A i \in DOMAIN d.ev : SameEvent(d.ev[i], new[i])
    BY <1>3, <1>4, CacheReadRow DEF EventList
  <2> QED BY <1>3, <1>4, <2>1, RewrittenBy
<1>6. e = [d EXCEPT !.hourly = h, !.daily = y, !.ident = rs, !.ev = new, !.base = b]
  <2>1. Upgrades!RepairedOverview(d) = [d EXCEPT !.hourly = h, !.daily = y]
    BY <1>2 DEF Upgrades!RepairedOverview, CountedBy, Tables
  <2>2. Upgrades!RepairedIdentities(d) = rs
    BY <1>1 DEF Upgrades!RepairedIdentities
  <2> HIDE DEF Of, C
  <2>3. PICK g : g = [d EXCEPT !.hourly = h, !.daily = y]
    OBVIOUS
  <2>4. g.base = d.base
    BY <2>3 DEF Tables
  <2>5. e = [g EXCEPT !.ident = rs, !.ev = new, !.base = b]
    BY <1>3, <2>1, <2>2, <2>3, <2>4 DEF Upgrades!BackfillCacheRead
  <2> QED BY <2>3, <2>5 DEF Tables
<1>7. b \in [Upgrades!Fields -> Nat]
      /\ \A f \in Upgrades!Fields : b[f] = IF f = "read" THEN d.base["cached"] ELSE d.base[f]
  <2>1. "cached" \in Upgrades!Fields
    BY DEF Upgrades!Fields
  <2> QED BY <1>3, <2>1 DEF Tables
<1> HIDE DEF C
<1>8. h \in [Upgrades!Fields -> Int]
      /\ (Upgrades!Reached(d, "hour") = DOMAIN d.ev => Exact(h, Upgrades!Plus(b, Upgrades!SumOver(C, new)), more))
  <2>1. Upgrades!Reached(d, "hour") = DOMAIN d.ev => Exact(d.hourly, Upgrades!Plus(d.base, Upgrades!SumOver(C, d.ev)), done)
    BY DEF ExactOverview, C
  <2>2. h \in [Upgrades!Fields -> Int]
        /\ (Exact(d.hourly, Upgrades!Plus(d.base, Upgrades!SumOver(C, d.ev)), done) =>
              Exact(h, Upgrades!Plus(b, Upgrades!SumOver(C, new)), more))
    <3>1. d.hourly \in [Upgrades!Fields -> Int] /\ d.base \in [Upgrades!Fields -> Nat]
      BY DEF Tables
    <3> HIDE DEF Good
    <3>2. PICK s : s = d.hourly
      OBVIOUS
    <3>3. s \in [Upgrades!Fields -> Int] /\ h = Upgrades!RepairedRead(s, C, d.ev)
      BY <1>2, <3>1, <3>2
    <3>4. ASSUME Exact(s, Upgrades!Plus(d.base, Upgrades!SumOver(C, d.ev)), done)
          PROVE  Exact(h, Upgrades!Plus(b, Upgrades!SumOver(C, new)), more)
      BY <1>3, <1>4, <1>7, <3>1, <3>3, <3>4, RepairedSum
    <3>5. h \in [Upgrades!Fields -> Int]
      BY <1>4, <3>3, RepairedIsInt
    <3> QED BY <3>2, <3>4, <3>5
  <2> QED BY <2>1, <2>2
<1>9. y \in [Upgrades!Fields -> Int]
      /\ (Upgrades!Reached(d, "day") = DOMAIN d.ev => Exact(y, Upgrades!Plus(b, Upgrades!SumOver(C, new)), more))
  <2>1. Upgrades!Reached(d, "day") = DOMAIN d.ev => Exact(d.daily, Upgrades!Plus(d.base, Upgrades!SumOver(C, d.ev)), done)
    BY DEF ExactOverview, C
  <2>2. y \in [Upgrades!Fields -> Int]
        /\ (Exact(d.daily, Upgrades!Plus(d.base, Upgrades!SumOver(C, d.ev)), done) =>
              Exact(y, Upgrades!Plus(b, Upgrades!SumOver(C, new)), more))
    <3>1. d.daily \in [Upgrades!Fields -> Int] /\ d.base \in [Upgrades!Fields -> Nat]
      BY DEF Tables
    <3> HIDE DEF Good
    <3>2. PICK s : s = d.daily
      OBVIOUS
    <3>3. s \in [Upgrades!Fields -> Int] /\ y = Upgrades!RepairedRead(s, C, d.ev)
      BY <1>2, <3>1, <3>2
    <3>4. ASSUME Exact(s, Upgrades!Plus(d.base, Upgrades!SumOver(C, d.ev)), done)
          PROVE  Exact(y, Upgrades!Plus(b, Upgrades!SumOver(C, new)), more)
      BY <1>3, <1>4, <1>7, <3>1, <3>3, <3>4, RepairedSum
    <3>5. y \in [Upgrades!Fields -> Int]
      BY <1>4, <3>3, RepairedIsInt
    <3> QED BY <3>2, <3>4, <3>5
  <2> QED BY <2>1, <2>2
<1>10. DOMAIN new = DOMAIN d.ev /\ EventList(new)
  BY <1>5 DEF Rewritten
<1>11. ASSUME NEW r \in DOMAIN d.ident
       PROVE  /\ rs[r] = [sum |-> rs[r].sum, last |-> rs[r].last] /\ rs[r].sum \in [Upgrades!Fields -> Int]
              /\ rs[r].last \in Int
              /\ Told(r, new, more) =>
                    Exact(rs[r].sum, Upgrades!SumOver(MineOf(r, new, rs[r].last, more), new), more)
  <2>1. rs[r].sum = Upgrades!RepairedRead(d.ident[r].sum, Of(r), d.ev) /\ rs[r].last = d.ident[r].last
        /\ rs[r] = [sum |-> rs[r].sum, last |-> rs[r].last]
    BY <1>1, <1>11
  <2>2. d.ident[r].sum \in [Upgrades!Fields -> Int] /\ d.ident[r].last \in Int
    BY <1>11 DEF Rows
  <2>3. MineOf(r, new, rs[r].last, more) = Of(r) /\ MineOf(r, d.ev, rs[r].last, done) = Of(r)
    BY <1>5, <1>10, <2>1 DEF MineOf, Upgrades!Mine, Rewritten, Upgrades!ByIndex
  <2>4. Told(r, new, more) => Exact(d.ident[r].sum, Upgrades!SumOver(Of(r), d.ev), done)
    <3>1. Told(r, new, more) => Told(r, d.ev, done)
      BY <1>5, <1>10 DEF Told, Upgrades!Typed, Rewritten
    <3> QED BY <1>11, <2>1, <2>3, <3>1 DEF ExactRows
  <2> HIDE DEF Of
  <2>5. Upgrades!Zero \in [Upgrades!Fields -> Nat]
        /\ \A f \in Upgrades!Fields : Upgrades!Zero[f] = IF f = "read" THEN Upgrades!Zero["cached"] ELSE Upgrades!Zero[f]
    BY DEF Upgrades!Zero, Upgrades!Fields
  <2>7. rs[r].sum \in [Upgrades!Fields -> Int]
        /\ (Exact(d.ident[r].sum, Upgrades!Plus(Upgrades!Zero, Upgrades!SumOver(Of(r), d.ev)), done) =>
              Exact(rs[r].sum, Upgrades!Plus(Upgrades!Zero, Upgrades!SumOver(Of(r), new)), more))
    <3>1. PICK x : x = d.ident[r].sum
      OBVIOUS
    <3>2. x \in [Upgrades!Fields -> Int] /\ rs[r].sum = Upgrades!RepairedRead(x, Of(r), d.ev)
      BY <2>1, <2>2, <3>1
    <3>3. ASSUME Exact(x, Upgrades!Plus(Upgrades!Zero, Upgrades!SumOver(Of(r), d.ev)), done)
          PROVE  Exact(rs[r].sum, Upgrades!Plus(Upgrades!Zero, Upgrades!SumOver(Of(r), new)), more)
      BY <1>3, <1>4, <2>5, <3>2, <3>3, RepairedSum
    <3>4. rs[r].sum \in [Upgrades!Fields -> Int]
      BY <1>4, <3>2, RepairedIsInt
    <3> QED BY <3>1, <3>3, <3>4
  <2>8. ASSUME Told(r, new, more) PROVE Exact(rs[r].sum, Upgrades!SumOver(Of(r), new), more)
    <3>1. Exact(d.ident[r].sum, Upgrades!Plus(Upgrades!Zero, Upgrades!SumOver(Of(r), d.ev)), done)
      BY <1>4, <2>4, <2>8, ExactFromZero
    <3> QED BY <1>10, <2>7, <3>1, ExactFromZero
  <2> QED BY <2>1, <2>2, <2>3, <2>7, <2>8
<1>12. /\ Tables(e) /\ e.ev = new /\ e.ident = rs /\ e.act = d.act /\ e.short = d.short /\ e.lat = d.lat
       /\ e.cur = d.cur /\ e.hourly = h /\ e.daily = y /\ e.base = b /\ Kept(d, e)
  BY <1>6, <1>7, <1>8, <1>9, <1>10 DEF Tables, Kept
<1>13. \A n : Upgrades!Cursor(e, n) = Upgrades!Cursor(d, n)
  BY <1>12 DEF Upgrades!Cursor
<1>14. CountedOnce(e)
  BY <1>10, <1>12, <1>13 DEF CountedOnce
<1>15. CountedBy(e, "overview") = C
  BY <1>10, <1>12, <1>13 DEF CountedBy, C
<1>16. \A bucket : Upgrades!Reached(e, bucket) = Upgrades!Reached(d, bucket)
  BY <1>5, <1>10, <1>12 DEF Upgrades!Reached, Rewritten
<1>17. ExactOverview(e, more)
  BY <1>8, <1>9, <1>10, <1>12, <1>15, <1>16 DEF ExactOverview
<1>18. Rows(rs) /\ ExactRows(rs, new, more)
  BY <1>1, <1>11 DEF Rows, ExactRows
<1> QED BY <1>12, <1>13, <1>14, <1>17, <1>18

-----------------------------------------------------------------------------
(* Replays: a page is the gap above the cursor, and the cursor moves over it. *)

Gap(d, name, ids) ==
    /\ Upgrades!Max(ids) \in Nat
    /\ \A i \in DOMAIN d.ev : /\ i <= Upgrades!Max(ids) <=> i <= Upgrades!Cursor(d, name) \/ i \in ids
                              /\ ~(i <= Upgrades!Cursor(d, name) /\ i \in ids)

LEMMA PageIsGap ==
    ASSUME NEW d, NEW done, Good(d, done), NEW v, NEW name, name = Upgrades!CursorOf(v), mtarget \in Nat,
           NEW ids, ids = Upgrades!PageOf(v, d), ids # {}
    PROVE  Gap(d, name, ids)
<1>1. PICK n, c : n = Len(d.ev) /\ c = Upgrades!Cursor(d, name)
  OBVIOUS
<1>2. n \in Nat /\ DOMAIN d.ev = 1..n /\ c \in Nat
  BY <1>1, CursorIsNat DEF Good, Tables, EventList
<1>3. ids = {i \in 1..n : c < i /\ i <= mtarget /\ i <= c + Page}
  BY <1>1, <1>2 DEF Upgrades!PageOf
<1>4. Page \in Nat
  BY ServicesAssumption DEF UpgradeConstants
<1>5. PICK m : m = Upgrades!Max(ids)
  OBVIOUS
<1>6. m \in ids /\ \A i \in ids : i <= m
  <2>1. ids \subseteq 1..n
    BY <1>3
  <2>2. Upgrades!Greatest(ids) = m /\ Upgrades!Greatest(ids) \in ids /\ \A i \in ids : i <= Upgrades!Greatest(ids)
    BY <1>2, <1>5, <2>1, GreatestBounds
  <2> QED BY <2>2
<1>7. m \in Nat /\ \A i \in 1..n : (i <= m <=> i <= c \/ i \in ids) /\ ~(i <= c /\ i \in ids)
  BY <1>2, <1>3, <1>4, <1>6
<1> QED BY <1>1, <1>2, <1>5, <1>7 DEF Gap

LEMMA CursorMoves ==
    ASSUME NEW cur, Cursors(cur), NEW name, NEW id \in Nat, NEW e, e.cur = Upgrades!WithCursor(cur, name, id),
           NEW d, d.cur = cur
    PROVE  /\ Cursors(e.cur) /\ Upgrades!Cursor(e, name) = id
           /\ \A n : n # name => Upgrades!Cursor(e, n) = Upgrades!Cursor(d, n)
<1>1. PICK w : w = e.cur
  OBVIOUS
<1>2. w = [n \in DOMAIN cur \cup {name} |-> IF n = name THEN id ELSE cur[n]]
  BY <1>1 DEF Upgrades!WithCursor
<1>3. Cursors(w)
  BY <1>2 DEF Cursors
<1> QED BY <1>1, <1>2, <1>3 DEF Upgrades!Cursor

\* Counting a page once more counts what is below the new cursor.
LEMMA CountsMove ==
    ASSUME NEW d, NEW name, NEW ids, Gap(d, name, ids), NEW c,
           c = [i \in DOMAIN d.ev |-> IF i <= Upgrades!Cursor(d, name) THEN 1 ELSE 0]
    PROVE  Upgrades!Added(c, ids) = [i \in DOMAIN d.ev |-> IF i <= Upgrades!Max(ids) THEN 1 ELSE 0]
<1>1. DOMAIN c = DOMAIN d.ev
  OBVIOUS
<1>2. \A i \in DOMAIN d.ev : c[i] + (IF i \in ids THEN 1 ELSE 0) = IF i <= Upgrades!Max(ids) THEN 1 ELSE 0
  BY DEF Gap
<1> QED BY <1>1, <1>2 DEF Upgrades!Added

LEMMA ActivityPaged ==
    ASSUME NEW d, NEW done, Good(d, done), NEW ids, Gap(d, "activity", ids),
           NEW e, e = Upgrades!ActivityPage(d, ids)
    PROVE  Good(e, done) /\ Kept(d, e) /\ Upgrades!Cursor(e, "latency") = Upgrades!Cursor(d, "latency")
<1> USE DEF Good
<1>1. PICK a, w : a = Upgrades!Added(d.act, ids) /\ w = Upgrades!WithCursor(d.cur, "activity", Upgrades!Max(ids))
  OBVIOUS
<1>2. e = [d EXCEPT !.act = a, !.short = a, !.cur = w]
  BY <1>1 DEF Upgrades!ActivityPage, CountedOnce, Tables
<1>3. /\ Tables(e) /\ e.ev = d.ev /\ e.ident = d.ident /\ e.act = a /\ e.short = a /\ e.lat = d.lat
      /\ e.cur = w /\ e.hourly = d.hourly /\ e.daily = d.daily /\ e.base = d.base /\ Kept(d, e)
  BY <1>2 DEF Tables, Kept
<1>4. /\ Cursors(e.cur) /\ Upgrades!Cursor(e, "activity") = Upgrades!Max(ids)
      /\ \A n : n # "activity" => Upgrades!Cursor(e, n) = Upgrades!Cursor(d, n)
  <2>1. Upgrades!Max(ids) \in Nat /\ e.cur = Upgrades!WithCursor(d.cur, "activity", Upgrades!Max(ids))
    BY <1>1, <1>3 DEF Gap
  <2> QED BY <2>1, CursorMoves
<1>5. a = [i \in DOMAIN d.ev |-> IF i <= Upgrades!Max(ids) THEN 1 ELSE 0]
  BY <1>1, CountsMove DEF CountedOnce
<1>6. CountedOnce(e)
  BY <1>3, <1>4, <1>5 DEF CountedOnce
<1>7. CountedBy(e, "overview") = CountedBy(d, "overview") /\ (\A b : Upgrades!Reached(e, b) = Upgrades!Reached(d, b))
  BY <1>3, <1>4 DEF CountedBy, Upgrades!Reached
<1>8. ExactOverview(e, done)
  BY <1>3, <1>7 DEF ExactOverview
<1> QED BY <1>3, <1>4, <1>6, <1>8

LEMMA LatencyPaged ==
    ASSUME NEW d, NEW done, Good(d, done), NEW ids, Gap(d, "latency", ids),
           NEW e, e = Upgrades!LatencyPage(d, ids)
    PROVE  Good(e, done) /\ Kept(d, e)
<1> USE DEF Good
<1>1. PICK a, w : a = Upgrades!Added(d.lat, ids) /\ w = Upgrades!WithCursor(d.cur, "latency", Upgrades!Max(ids))
  OBVIOUS
<1>2. e = [d EXCEPT !.lat = a, !.cur = w]
  BY <1>1 DEF Upgrades!LatencyPage, Tables
<1>3. /\ Tables(e) /\ e.ev = d.ev /\ e.ident = d.ident /\ e.act = d.act /\ e.short = d.short /\ e.lat = a
      /\ e.cur = w /\ e.hourly = d.hourly /\ e.daily = d.daily /\ e.base = d.base /\ Kept(d, e)
  BY <1>2 DEF Tables, Kept
<1>4. /\ Cursors(e.cur) /\ Upgrades!Cursor(e, "latency") = Upgrades!Max(ids)
      /\ \A n : n # "latency" => Upgrades!Cursor(e, n) = Upgrades!Cursor(d, n)
  <2>1. Upgrades!Max(ids) \in Nat /\ e.cur = Upgrades!WithCursor(d.cur, "latency", Upgrades!Max(ids))
    BY <1>1, <1>3 DEF Gap
  <2> QED BY <2>1, CursorMoves
<1>5. a = [i \in DOMAIN d.ev |-> IF i <= Upgrades!Max(ids) THEN 1 ELSE 0]
  BY <1>1, CountsMove DEF CountedOnce
<1>6. CountedOnce(e)
  BY <1>3, <1>4, <1>5 DEF CountedOnce
<1>7. CountedBy(e, "overview") = CountedBy(d, "overview") /\ (\A b : Upgrades!Reached(e, b) = Upgrades!Reached(d, b))
  BY <1>3, <1>4 DEF CountedBy, Upgrades!Reached
<1>8. ExactOverview(e, done)
  BY <1>3, <1>7 DEF ExactOverview
<1> QED BY <1>3, <1>4, <1>6, <1>8

Grows(s, A, t, C, b, ev, done) ==
    Exact(s, Upgrades!Plus(b, Upgrades!SumOver(A, ev)), done) =>
        Exact(t, Upgrades!Plus(b, Upgrades!SumOver(C, ev)), done)

\* A sum grows by that of the page.
LEMMA SumGrows ==
    ASSUME NEW s \in [Upgrades!Fields -> Int], NEW b \in [Upgrades!Fields -> Nat], NEW ev, EventList(ev),
           NEW A, NEW B, NEW C, NEW done, Joins(Len(ev), A, B, C),
           NEW t, t = Upgrades!Plus(s, Upgrades!SumOver(B, ev))
    PROVE  t \in [Upgrades!Fields -> Int] /\ Grows(s, A, t, C, b, ev, done)
<1>1. PICK x, y, z : x = Upgrades!SumOver(A, ev) /\ y = Upgrades!SumOver(B, ev) /\ z = Upgrades!SumOver(C, ev)
  OBVIOUS
<1>2. x \in [Upgrades!Fields -> Nat] /\ y \in [Upgrades!Fields -> Nat] /\ z \in [Upgrades!Fields -> Nat]
  BY <1>1, SumsAreNat
<1>3. ASSUME NEW f \in Upgrades!Fields PROVE z[f] = x[f] + y[f]
  <2>1. Upgrades!SumOver(C, ev)[f] = Upgrades!SumOver(A, ev)[f] + Upgrades!SumOver(B, ev)[f]
    BY SumJoins
  <2> QED BY <1>1, <2>1
<1>4. t \in [Upgrades!Fields -> Int] /\ \A f \in Upgrades!Fields : t[f] = s[f] + y[f]
  BY <1>1, <1>2 DEF Upgrades!Plus
<1>5. ASSUME Exact(s, Upgrades!Plus(b, x), done) PROVE Exact(t, Upgrades!Plus(b, z), done)
  <2> SUFFICES ASSUME NEW f \in Upgrades!Fields, ~(f = "read" /\ "cacheRead" \notin done)
               PROVE  t[f] = b[f] + z[f]
    BY DEF Exact, Upgrades!Plus
  <2>1. s[f] = b[f] + x[f]
    BY <1>5 DEF Exact, Upgrades!Plus
  <2>2. b[f] \in Nat /\ x[f] \in Nat /\ y[f] \in Nat
    BY <1>2
  <2> QED BY <1>3, <1>4, <2>1, <2>2
<1> QED BY <1>1, <1>4, <1>5 DEF Grows

LEMMA OverviewPaged ==
    ASSUME NEW d, NEW done, Good(d, done), NEW ids, Gap(d, "overview", ids),
           NEW e, e = Upgrades!OverviewPage(d, ids)
    PROVE  Good(e, done) /\ Kept(d, e) /\ Upgrades!Cursor(e, "latency") = Upgrades!Cursor(d, "latency")
<1> USE DEF Good
<1>1. PICK h, y, w : /\ h = Upgrades!Plus(d.hourly, Upgrades!SumOver(ids, d.ev))
                     /\ y = Upgrades!Plus(d.daily, Upgrades!SumOver(ids, d.ev))
                     /\ w = Upgrades!WithCursor(d.cur, "overview", Upgrades!Max(ids))
  OBVIOUS
<1>2. e = [d EXCEPT !.hourly = h, !.daily = y, !.cur = w]
  BY <1>1 DEF Upgrades!OverviewPage, Tables
<1>3. /\ e.ev = d.ev /\ e.ident = d.ident /\ e.act = d.act /\ e.short = d.short /\ e.lat = d.lat
      /\ e.cur = w /\ e.hourly = h /\ e.daily = y /\ e.base = d.base /\ Kept(d, e)
  BY <1>2 DEF Tables, Kept
<1>4. /\ Cursors(e.cur) /\ Upgrades!Cursor(e, "overview") = Upgrades!Max(ids)
      /\ \A n : n # "overview" => Upgrades!Cursor(e, n) = Upgrades!Cursor(d, n)
  <2>1. Upgrades!Max(ids) \in Nat /\ e.cur = Upgrades!WithCursor(d.cur, "overview", Upgrades!Max(ids))
    BY <1>1, <1>3 DEF Gap
  <2> QED BY <2>1, CursorMoves
<1>5. CountedOnce(e)
  BY <1>3, <1>4 DEF CountedOnce
<1>6. PICK A, C : A = CountedBy(d, "overview") /\ C = CountedBy(e, "overview")
  OBVIOUS
<1>7. EventList(d.ev) /\ d.hourly \in [Upgrades!Fields -> Int] /\ d.daily \in [Upgrades!Fields -> Int]
      /\ d.base \in [Upgrades!Fields -> Nat]
  BY DEF Tables
<1>8. Joins(Len(d.ev), A, ids, C)
  <2>1. DOMAIN d.ev = 1..Len(d.ev)
    BY <1>7 DEF EventList
  <2> QED BY <1>3, <1>4, <1>6, <2>1 DEF CountedBy, Gap, Joins
<1>9. (\A b : Upgrades!Reached(e, b) = Upgrades!Reached(d, b))
  BY <1>3 DEF Upgrades!Reached
<1> HIDE DEF Good
<1>10. h \in [Upgrades!Fields -> Int] /\ Grows(d.hourly, A, h, C, d.base, d.ev, done)
  BY <1>1, <1>7, <1>8, SumGrows
<1>11. y \in [Upgrades!Fields -> Int] /\ Grows(d.daily, A, y, C, d.base, d.ev, done)
  BY <1>1, <1>7, <1>8, SumGrows
<1>12. ExactOverview(e, done)
  BY <1>3, <1>6, <1>9, <1>10, <1>11 DEF ExactOverview, Good, Grows
<1>13. Tables(e)
  BY <1>2, <1>7, <1>10, <1>11 DEF Tables, Good
<1> QED BY <1>3, <1>4, <1>5, <1>12, <1>13 DEF Good

LEMMA PageCounted ==
    ASSUME NEW d, NEW done, Good(d, done), NEW v \in Upgrades!Paged, mtarget \in Nat,
           Upgrades!PageOf(v, d) # {},
           NEW e, e = Upgrades!AfterPage(v, d, Upgrades!PageOf(v, d))
    PROVE  /\ Good(e, done) /\ Kept(d, e)
           /\ v # "latency" => Upgrades!Cursor(e, "latency") = Upgrades!Cursor(d, "latency")
<1>1. PICK ids : ids = Upgrades!PageOf(v, d)
  OBVIOUS
<1>2. \A name : name = Upgrades!CursorOf(v) => Gap(d, name, ids)
  BY <1>1, PageIsGap
<1>3. CASE v = "activity"
  <2>1. Upgrades!CursorOf(v) = "activity" /\ e = Upgrades!ActivityPage(d, ids)
    BY <1>1, <1>3 DEF Upgrades!CursorOf, Upgrades!AfterPage
  <2> QED BY <1>2, <2>1, ActivityPaged
<1>4. CASE v = "fiveDimensions"
  <2>1. Upgrades!CursorOf(v) = "overview" /\ e = Upgrades!OverviewPage(d, ids)
    BY <1>1, <1>4 DEF Upgrades!CursorOf, Upgrades!AfterPage
  <2> QED BY <1>2, <2>1, OverviewPaged
<1>5. CASE v = "latency"
  <2>1. Upgrades!CursorOf(v) = "latency" /\ e = Upgrades!LatencyPage(d, ids)
    BY <1>1, <1>5 DEF Upgrades!CursorOf, Upgrades!AfterPage
  <2> QED BY <1>2, <1>5, <2>1, LatencyPaged
<1> QED BY <1>3, <1>4, <1>5 DEF Upgrades!Paged

-----------------------------------------------------------------------------
(* The order of the versions. *)

LEMMA OrderedVersions ==
    /\ Len(Upgrades!Ordered) = 15
    /\ Upgrades!Ordered[1] = "identityStats" /\ Upgrades!Ordered[2] = "removePrefix"
    /\ Upgrades!Ordered[3] = "authIndex" /\ Upgrades!Ordered[4] = "rollupDimensions"
    /\ Upgrades!Ordered[5] = "claudeTokens" /\ Upgrades!Ordered[6] = "geminiTokens"
    /\ Upgrades!Ordered[7] = "cacheRead" /\ Upgrades!Ordered[8] = "activity"
    /\ Upgrades!Ordered[9] = "alignShort" /\ Upgrades!Ordered[10] = "fiveDimensions"
    /\ Upgrades!Ordered[11] = "checkpoints" /\ Upgrades!Ordered[12] = "latency"
    /\ Upgrades!Ordered[13] = "rebuildHistory" /\ Upgrades!Ordered[14] = "resetQuota"
    /\ Upgrades!Ordered[15] = "limitSamples"
BY DEF Upgrades!Ordered

LEMMA OrderedOnce ==
    ASSUME NEW m \in 1..15, NEW k \in 1..15, Upgrades!Ordered[m] = Upgrades!Ordered[k] PROVE m = k
BY OrderedVersions

\* A version was run before position k if it stands before it.
LEMMA BeforeIs ==
    ASSUME NEW m \in 1..15, NEW k \in 1..16
    PROVE  /\ Upgrades!Ordered[m] \in Upgrades!Before(k) <=> m < k
           /\ m = k => Upgrades!Before(k) \cup {Upgrades!Ordered[m]} = Upgrades!Before(k + 1)
<1>1. \A v : v \in Upgrades!Before(k) <=> \E j \in 1..(k - 1) : v = Upgrades!Ordered[j]
  BY DEF Upgrades!Before
<1>2. Upgrades!Ordered[m] \in Upgrades!Before(k) <=> m < k
  <2>1. ASSUME m < k PROVE Upgrades!Ordered[m] \in Upgrades!Before(k)
    BY <1>1, <2>1
  <2>2. ASSUME Upgrades!Ordered[m] \in Upgrades!Before(k) PROVE m < k
    <3>1. PICK j \in 1..(k - 1) : Upgrades!Ordered[m] = Upgrades!Ordered[j]
      BY <1>1, <2>2
    <3>2. j \in 1..15
      BY <3>1
    <3>3. m = j
      BY <3>1, <3>2, OrderedOnce
    <3> QED BY <3>1, <3>3
  <2> QED BY <2>1, <2>2
<1>3. ASSUME m = k PROVE Upgrades!Before(k) \cup {Upgrades!Ordered[m]} = Upgrades!Before(k + 1)
  <2>1. \A v : v \in Upgrades!Before(k + 1) <=> \E j \in 1..k : v = Upgrades!Ordered[j]
    BY DEF Upgrades!Before
  <2>2. ASSUME NEW v PROVE v \in Upgrades!Before(k) \cup {Upgrades!Ordered[m]} <=> v \in Upgrades!Before(k + 1)
    <3>1. ASSUME v \in Upgrades!Before(k) PROVE v \in Upgrades!Before(k + 1)
      <4>1. PICK j \in 1..(k - 1) : v = Upgrades!Ordered[j]
        BY <1>1, <3>1
      <4>2. j \in 1..k
        BY <4>1
      <4> QED BY <2>1, <4>1, <4>2
    <3>2. ASSUME v = Upgrades!Ordered[m] PROVE v \in Upgrades!Before(k + 1)
      <4>1. k \in 1..k
        OBVIOUS
      <4> QED BY <1>3, <2>1, <3>2, <4>1
    <3>3. ASSUME v \in Upgrades!Before(k + 1) PROVE v \in Upgrades!Before(k) \/ v = Upgrades!Ordered[m]
      <4>1. PICK j \in 1..k : v = Upgrades!Ordered[j]
        BY <2>1, <3>3
      <4>2. j = k \/ j \in 1..(k - 1)
        BY <4>1
      <4> QED BY <1>1, <1>3, <4>1, <4>2
    <3> QED BY <3>1, <3>2, <3>3
  <2> QED BY <2>2
<1> QED BY <1>2, <1>3

LEMMA BeforeMeans ==
    ASSUME NEW k \in 1..16
    PROVE  /\ "authIndex" \in Upgrades!Before(k) <=> 3 < k
           /\ "cacheRead" \in Upgrades!Before(k) <=> 7 < k
           /\ "activity" \in Upgrades!Before(k) <=> 8 < k
           /\ "checkpoints" \in Upgrades!Before(k) <=> 11 < k
           /\ "latency" \in Upgrades!Before(k) <=> 12 < k
           /\ "rebuildHistory" \in Upgrades!Before(k) <=> 13 < k
           /\ "limitSamples" \in Upgrades!Before(k) <=> 15 < k
<1>1. \A m \in 1..15 : Upgrades!Ordered[m] \in Upgrades!Before(k) <=> m < k
  BY BeforeIs
<1> QED BY <1>1, OrderedVersions

-----------------------------------------------------------------------------
(* A version that runs in one transaction keeps the tables good. *)

AtLatency(d, done) == "checkpoints" \notin done => Upgrades!Cursor(d, "latency") = 0

LEMMA EffectIsGood ==
    ASSUME NEW k \in 1..15, NEW v, v = Upgrades!Ordered[k],
           v \notin Upgrades!Paged \cup Upgrades!ClearsFirst, k < 13,
           NEW d, Good(d, Upgrades!Before(k)), AtLatency(d, Upgrades!Before(k)), NEW e, e = Upgrades!Effect(v, d)
    PROVE  Good(e, Upgrades!Before(k + 1)) /\ AtLatency(e, Upgrades!Before(k + 1)) /\ Kept(d, e)
<1>1. PICK done, more : done = Upgrades!Before(k) /\ more = Upgrades!Before(k + 1)
  OBVIOUS
<1>2. k \in 1..16 /\ k + 1 \in 1..16
  OBVIOUS
<1>3. /\ ("authIndex" \in done <=> 3 < k) /\ ("cacheRead" \in done <=> 7 < k) /\ ("checkpoints" \in done <=> 11 < k)
  BY <1>1, <1>2, BeforeMeans
<1>4. /\ ("authIndex" \in more <=> 3 < k + 1) /\ ("cacheRead" \in more <=> 7 < k + 1)
      /\ ("checkpoints" \in more <=> 11 < k + 1)
  BY <1>1, <1>2, BeforeMeans
<1>5. k \in {1, 2, 3, 5, 6, 7, 9, 11}
  BY OrderedVersions DEF Upgrades!Paged, Upgrades!ClearsFirst
<1>6. Good(d, done) /\ (~(11 < k) => Upgrades!Cursor(d, "latency") = 0)
  BY <1>1, <1>3 DEF AtLatency
<1>7. CASE k = 1
  <2>1. e = Upgrades!IdentityStats(d)
    BY <1>7, OrderedVersions DEF Upgrades!Effect
  <2>2. Good(e, done) /\ Kept(d, e) /\ Upgrades!Cursor(e, "latency") = Upgrades!Cursor(d, "latency")
    BY <1>3, <1>6, <1>7, <2>1, IdentitiesCounted
  <2>3. Good(e, more)
    BY <1>3, <1>4, <1>7, <2>2, MeansTheSame
  <2> QED BY <1>1, <1>6, <1>7, <2>2, <2>3 DEF AtLatency
<1>8. CASE k = 3
  <2>1. e = Upgrades!AuthIndexIdentities(d)
    BY <1>8, OrderedVersions DEF Upgrades!Effect
  <2>2. Good(e, more) /\ Kept(d, e) /\ Upgrades!Cursor(e, "latency") = Upgrades!Cursor(d, "latency")
    BY <1>3, <1>4, <1>6, <1>8, <2>1, KeysCounted
  <2> QED BY <1>1, <1>6, <1>8, <2>2 DEF AtLatency
<1>9. CASE k = 5 \/ k = 6
  <2>1. e = Upgrades!BackfillClaude(d) \/ e = Upgrades!BackfillGemini(d)
    BY <1>9, OrderedVersions DEF Upgrades!Effect
  <2>2. Good(e, done) /\ Kept(d, e) /\ Upgrades!Cursor(e, "latency") = Upgrades!Cursor(d, "latency")
    BY <1>3, <1>6, <1>9, <2>1, TokensBackfilled
  <2>3. Good(e, more)
    BY <1>3, <1>4, <1>9, <2>2, MeansTheSame
  <2> QED BY <1>1, <1>6, <1>9, <2>2, <2>3 DEF AtLatency
<1>10. CASE k = 7
  <2>1. e = Upgrades!BackfillCacheRead(d)
    BY <1>10, OrderedVersions DEF Upgrades!Effect
  <2>2. Good(e, more) /\ Kept(d, e) /\ Upgrades!Cursor(e, "latency") = Upgrades!Cursor(d, "latency")
    BY <1>3, <1>4, <1>6, <1>10, <2>1, CacheReadBackfilled
  <2> QED BY <1>1, <1>6, <1>10, <2>2 DEF AtLatency
<1>11. CASE k = 9
  <2>1. e = Upgrades!AlignedShort(d)
    BY <1>11, OrderedVersions DEF Upgrades!Effect
  <2>2. Good(e, done) /\ Kept(d, e) /\ Upgrades!Cursor(e, "latency") = Upgrades!Cursor(d, "latency")
    BY <1>6, <2>1, ShortAligned
  <2>3. Good(e, more)
    BY <1>3, <1>4, <1>11, <2>2, MeansTheSame
  <2> QED BY <1>1, <1>6, <1>11, <2>2, <2>3 DEF AtLatency
<1>12. CASE k = 11
  <2>1. e = Upgrades!MergedCheckpoints(d)
    BY <1>12, OrderedVersions DEF Upgrades!Effect
  <2>2. Good(e, done) /\ Kept(d, e)
    BY <1>6, <1>12, <2>1, CheckpointsMerged
  <2>3. Good(e, more)
    BY <1>3, <1>4, <1>12, <2>2, MeansTheSame
  <2> QED BY <1>1, <1>4, <1>12, <2>2, <2>3 DEF AtLatency
<1>13. CASE k = 2
  <2>1. e = Upgrades!WithoutPrefixes(d)
    BY <1>13, OrderedVersions DEF Upgrades!Effect
  <2>2. Good(e, done) /\ Kept(d, e) /\ Upgrades!Cursor(e, "latency") = Upgrades!Cursor(d, "latency")
    BY <1>6, <2>1, PrefixesRemoved
  <2>3. Good(e, more)
    BY <1>3, <1>4, <1>13, <2>2, MeansTheSame
  <2> QED BY <1>1, <1>6, <1>13, <2>2, <2>3 DEF AtLatency
<1> QED BY <1>5, <1>7, <1>8, <1>9, <1>10, <1>11, <1>12, <1>13

-----------------------------------------------------------------------------
(* The databases an upgrade finds. *)

LEMMA CorrectedRow ==
    ASSUME NEW e \in EventRow, NEW p PROVE SameEvent(e, Upgrades!Corrected(e, p))
<1>1. \A a \in EventRow : \A b, c : SameEvent(a, b) /\ SameEvent(b, c) => SameEvent(a, c)
  BY DEF SameEvent
<1>2. \A a \in EventRow : SameEvent(a, a) /\ SameEvent(a, Upgrades!ClaudeTokens(a))
                          /\ SameEvent(a, Upgrades!GeminiTokens(a)) /\ SameEvent(a, Upgrades!CacheReadTokens(a))
  BY ClaudeRow, GeminiRow, CacheReadRow DEF SameEvent
<1>3. PICK x : x = IF "claudeTokens" \in Upgrades!Before(p) THEN Upgrades!ClaudeTokens(e) ELSE e
  OBVIOUS
<1>4. SameEvent(e, x) /\ x \in EventRow
  BY <1>2, <1>3 DEF SameEvent
<1>5. PICK y : y = IF "geminiTokens" \in Upgrades!Before(p) THEN Upgrades!GeminiTokens(x) ELSE x
  OBVIOUS
<1>6. SameEvent(x, y) /\ y \in EventRow
  BY <1>2, <1>4, <1>5 DEF SameEvent
<1>7. PICK z : z = IF "cacheRead" \in Upgrades!Before(p) THEN Upgrades!CacheReadTokens(y) ELSE y
  OBVIOUS
<1>8. SameEvent(y, z)
  BY <1>2, <1>6, <1>7 DEF SameEvent
<1>9. Upgrades!Corrected(e, p) = z
  BY <1>3, <1>5, <1>7 DEF Upgrades!Corrected
<1> QED BY <1>1, <1>4, <1>6, <1>8, <1>9

LEMMA OldEvents ==
    ASSUME NEW shapes \in [Upgrades!Ids -> UpgradeShape], NEW p, NEW ev,
           ev = [i \in Upgrades!Ids |-> Upgrades!Corrected(shapes[i], p)]
    PROVE  EventList(ev) /\ Len(ev) = MEvents /\ DOMAIN ev = 1..MEvents /\ MEvents \in Nat
<1>1. MEvents \in Nat /\ Upgrades!Ids = 1..MEvents
  BY ServicesAssumption DEF UpgradeConstants, Upgrades!Ids
<1>2. \A e \in UpgradeShape : e \in EventRow /\ Named(e)
  BY ServicesAssumption DEF UpgradeConstants, EventRow, Named
<1>3. ASSUME NEW i \in 1..MEvents PROVE ev[i] \in EventRow /\ Named(ev[i])
  <2>1. PICK e : e = shapes[i]
    OBVIOUS
  <2>2. e \in EventRow /\ Named(e)
    BY <1>1, <1>2, <2>1
  <2>3. SameEvent(e, ev[i])
    BY <1>1, <2>1, <2>2, CorrectedRow
  <2> QED BY <2>2, <2>3 DEF SameEvent, Named
<1>4. ev \in [1..MEvents -> EventRow]
  BY <1>1, <1>3
<1>5. ev \in Seq(EventRow)
  BY <1>1, <1>4, SeqDef
<1>6. Len(ev) = MEvents
  BY <1>1, <1>4, <1>5
<1> QED BY <1>1, <1>3, <1>4, <1>5, <1>6 DEF EventList

LEMMA SameSums ==
    ASSUME NEW ev, EventList(ev), NEW A, NEW C, \A i \in 1..Len(ev) : i \in C <=> i \in A
    PROVE  Upgrades!SumOver(C, ev) = Upgrades!SumOver(A, ev)
<1>1. ASSUME NEW f \in Upgrades!Fields PROVE Upgrades!SumOver(C, ev)[f] = Upgrades!SumOver(A, ev)[f]
  BY SumSame
<1>2. Upgrades!SumOver(C, ev) \in [Upgrades!Fields -> Nat] /\ Upgrades!SumOver(A, ev) \in [Upgrades!Fields -> Nat]
  BY SumsAreNat
<1> QED BY <1>1, <1>2

Started(p, base, o, a, t) ==
    /\ "authIndex" \notin Upgrades!Before(p) => o = 0 /\ base = Upgrades!Zero
    /\ "activity" \notin Upgrades!Before(p) => a = 0
    /\ "latency" \notin Upgrades!Before(p) => t = 0

\* Nothing is removed yet.
Left(d, p) ==
    /\ Good(d, Upgrades!Before(p)) /\ AtLatency(d, Upgrades!Before(p)) /\ p \in 1..16
    /\ d.tables = TRUE /\ d.had.history = d.history /\ d.had.samples = d.samples
    /\ d.history \in {"none", "codex", "generic"} /\ d.samples \in {"long", "limited"}
    /\ (d.history = "codex" => p < 14) /\ (d.history = "generic" => 13 < p)

LEMMA OldIsGood ==
    ASSUME NEW p \in Starts, NEW shapes \in [Upgrades!Ids -> UpgradeShape], NEW base \in Deleted,
           NEW o \in 0..MEvents, NEW n \in 0..MEvents, NEW a \in 0..MEvents, NEW t \in 0..MEvents,
           Started(p, base, o, a, t), NEW h \in Upgrades!OldHistories(p),
           NEW d, d = Upgrades!OldDatabase(p, shapes, base, o, n, a, t, h)
    PROVE  Left(d, p)
<1>1. PICK ev : ev = [i \in Upgrades!Ids |-> Upgrades!Corrected(shapes[i], p)]
  OBVIOUS
<1>2. EventList(ev) /\ Len(ev) = MEvents /\ DOMAIN ev = 1..MEvents /\ MEvents \in Nat
  BY <1>1, OldEvents
<1>3. PICK b : b = base
  OBVIOUS
<1>4. b \in [Upgrades!Fields -> Nat]
  BY <1>3, ServicesAssumption DEF UpgradeConstants, Upgrades!Fields
<1>5. PICK s : s = Upgrades!Plus(b, Upgrades!SumOver(1..o, ev))
  OBVIOUS
<1>6. s \in [Upgrades!Fields -> Int]
  <2>1. PICK x : x = Upgrades!SumOver(1..o, ev)
    OBVIOUS
  <2>2. x \in [Upgrades!Fields -> Nat]
    BY <1>2, <2>1, SumsAreNat
  <2> QED BY <1>4, <1>5, <2>1, <2>2 DEF Upgrades!Plus
<1>7. PICK names : names = Upgrades!OldRows(p)
  OBVIOUS
<1>8. PICK rs : rs = [r \in names |->
             [sum |-> Upgrades!SumOver({i \in 1..n : Upgrades!Mine(r, ev[i], Upgrades!Before(p))}, ev), last |-> n]]
  OBVIOUS
<1>9. PICK cs : cs = {"overview"} \cup (IF "activity" \in Upgrades!Before(p) THEN {"activity"} ELSE {})
                       \cup (IF "latency" \in Upgrades!Before(p) THEN {"latency"} ELSE {})
  OBVIOUS
<1>10. PICK k : k = [c \in cs |-> IF c = "overview" THEN o ELSE IF c = "activity" THEN a ELSE t]
  OBVIOUS
<1>11. PICK ca, ct : /\ ca = [i \in Upgrades!Ids |-> IF i <= a THEN 1 ELSE 0]
                     /\ ct = [i \in Upgrades!Ids |-> IF i <= t THEN 1 ELSE 0]
  OBVIOUS
<1>12. PICK long : long = Upgrades!OldSamples(p)
  OBVIOUS
<1>13. PICK had : had = [history |-> h, samples |-> long]
  OBVIOUS
<1>15. d = [ev |-> ev, base |-> b, hourly |-> s, daily |-> s, ident |-> rs, act |-> ca, short |-> ca,
            lat |-> ct, cur |-> k, had |-> had, history |-> h, samples |-> long, tables |-> TRUE]
  BY <1>1, <1>3, <1>5, <1>7, <1>8, <1>9, <1>10, <1>11, <1>12, <1>13 DEF Upgrades!OldDatabase
<1>16. d.ev = ev /\ d.base = b /\ d.hourly = s /\ d.daily = s /\ d.act = ca /\ d.short = ca /\ d.lat = ct
       /\ d.had = had /\ d.history = h /\ d.samples = long /\ d.tables = TRUE
  BY <1>15
<1>17. Tables(d)
  BY <1>2, <1>4, <1>6, <1>15 DEF Tables
<1>18. /\ Upgrades!Cursor(d, "overview") = o /\ Upgrades!Cursor(d, "activity") = a
       /\ Upgrades!Cursor(d, "latency") = t
  BY <1>9, <1>10, <1>15 DEF Upgrades!Cursor, Started
<1>19. Cursors(d.cur)
  BY <1>2, <1>10, <1>15 DEF Cursors
<1>20. CountedOnce(d)
  BY <1>2, <1>11, <1>16, <1>18 DEF CountedOnce, Upgrades!Ids
<1>21. ExactOverview(d, Upgrades!Before(p))
  <2>1. PICK C : C = CountedBy(d, "overview")
    OBVIOUS
  <2>2. \A i \in 1..Len(ev) : i \in C <=> i \in 1..o
    BY <1>2, <1>15, <1>18, <2>1 DEF CountedBy
  <2>3. Upgrades!SumOver(C, ev) = Upgrades!SumOver(1..o, ev)
    BY <1>2, <2>2, SameSums
  <2> QED BY <1>5, <1>16, <2>1, <2>3 DEF ExactOverview, Exact
<1>22. p \in 1..16
  BY ServicesAssumption DEF UpgradeConstants
<1>23. ASSUME NEW r \in names
       PROVE  /\ rs[r].sum \in [Upgrades!Fields -> Nat]
              /\ rs[r].sum = Upgrades!SumOver(MineOf(r, ev, n, Upgrades!Before(p)), ev)
  <2>1. PICK I : I = {i \in 1..n : Upgrades!Mine(r, ev[i], Upgrades!Before(p))}
    OBVIOUS
  <2>2. rs[r].sum = Upgrades!SumOver(I, ev)
    BY <1>8, <1>23, <2>1
  <2>3. \A i \in 1..Len(ev) : i \in MineOf(r, ev, n, Upgrades!Before(p)) <=> i \in I
    BY <1>2, <2>1 DEF MineOf
  <2>4. Upgrades!SumOver(I, ev) \in [Upgrades!Fields -> Nat]
    BY <1>2, SumsAreNat
  <2> QED BY <1>2, <2>2, <2>3, <2>4, SameSums
<1>24. ASSUME NEW r \in names
       PROVE  rs[r] = [sum |-> rs[r].sum, last |-> rs[r].last] /\ rs[r].last = n
  BY <1>8, <1>24
<1>25. Rows(d.ident)
  <2>1. d.ident = rs /\ DOMAIN rs = names /\ rs = [r \in DOMAIN rs |-> rs[r]]
    BY <1>8, <1>15
  <2>2. \A r \in names : rs[r].sum \in [Upgrades!Fields -> Int]
    BY <1>23
  <2> QED BY <1>2, <1>24, <2>1, <2>2 DEF Rows
<1>26. ExactRows(d.ident, d.ev, Upgrades!Before(p))
  <2>1. d.ident = rs /\ DOMAIN rs = names /\ d.ev = ev
    BY <1>8, <1>15
  <2> QED BY <1>23, <1>24, <2>1 DEF ExactRows, Exact
<1>27. AtLatency(d, Upgrades!Before(p))
  BY <1>18, <1>22, BeforeMeans DEF AtLatency, Started
<1>28. Good(d, Upgrades!Before(p))
  BY <1>17, <1>19, <1>20, <1>21, <1>25, <1>26 DEF Good
<1>29. /\ h \in {"none", "codex", "generic"} /\ long \in {"long", "limited"}
       /\ (h = "codex" => p < 14) /\ (h = "generic" => 13 < p)
  <2>1. "rebuildHistory" \in Upgrades!Before(p) <=> 13 < p
    BY <1>22, BeforeMeans
  <2> QED BY <1>12, <1>22, <2>1 DEF Upgrades!OldHistories, Upgrades!OldSamples
<1>30. d.had.history = h /\ d.had.samples = long
  BY <1>13, <1>16
<1> QED BY <1>16, <1>22, <1>27, <1>28, <1>29, <1>30 DEF Left

\* A new database holds nothing, whatever versions are marked.
LEMMA NewIsGood ==
    ASSUME NEW done, NEW d, d = Upgrades!NewDatabase \/ d = [Upgrades!NewDatabase EXCEPT !.tables = TRUE]
    PROVE  Good(d, done) /\ AtLatency(d, done)
<1>1. PICK x : x = d.tables
  OBVIOUS
<1>2. d = [ev |-> << >>, base |-> Upgrades!Zero, hourly |-> Upgrades!Zero, daily |-> Upgrades!Zero,
           ident |-> << >>, act |-> << >>, short |-> << >>, lat |-> << >>, cur |-> << >>,
           had |-> [history |-> "none", samples |-> "limited"], history |-> "none",
           samples |-> "limited", tables |-> x]
  BY <1>1 DEF Upgrades!NewDatabase
<1>3. Upgrades!Zero \in [Upgrades!Fields -> Nat] /\ Upgrades!Zero \in [Upgrades!Fields -> Int]
  BY DEF Upgrades!Zero
<1>4. EventList(<< >>)
  BY DEF EventList
<1>5. DOMAIN << >> = {}
  OBVIOUS
<1>6. Tables(d)
  BY <1>2, <1>3, <1>4 DEF Tables
<1>7. d.ev = << >> /\ d.cur = << >> /\ d.ident = << >> /\ d.act = << >> /\ d.short = << >> /\ d.lat = << >>
      /\ d.hourly = Upgrades!Zero /\ d.daily = Upgrades!Zero /\ d.base = Upgrades!Zero
  BY <1>2
<1>8. \A n : Upgrades!Cursor(d, n) = 0
  BY <1>5, <1>7 DEF Upgrades!Cursor
<1>9. \A S : << >> = [i \in DOMAIN << >> |-> S]
  BY <1>5
<1>10. Cursors(d.cur) /\ Rows(d.ident) /\ ExactRows(d.ident, d.ev, done) /\ CountedOnce(d)
  BY <1>5, <1>7, <1>9 DEF Cursors, Rows, ExactRows, CountedOnce
<1>11. ExactOverview(d, done)
  <2>1. \A i \in 1..Len(d.ev) : i \notin CountedBy(d, "overview")
    BY <1>5, <1>7 DEF CountedBy
  <2>2. Exact(Upgrades!Zero, Upgrades!Plus(Upgrades!Zero, Upgrades!SumOver(CountedBy(d, "overview"), d.ev)), done)
    BY <1>4, <1>7, <2>1, ZeroIsNothing
  <2> QED BY <1>7, <2>2 DEF ExactOverview
<1> QED BY <1>6, <1>8, <1>10, <1>11 DEF Good, AtLatency

-----------------------------------------------------------------------------
(* The invariant: the versions marked are the first k - 1, none is at hand   *)
(* beyond the next one, and the tables are good for the versions marked.     *)

AtVersion(k) ==
    /\ applied = Upgrades!Before(k) /\ mpos \in 1..15 /\ mpos <= k
    /\ mstage \in {"run", "page", "record"} => mpos = k

Sound == Good(db, applied) /\ AtLatency(db, applied) /\ mtarget \in Nat

StageFits ==
    /\ mstage = "page" => Upgrades!Version \in Upgrades!Paged
    /\ mstage = "record" => Upgrades!Version \in Upgrades!Paged \cup Upgrades!ClearsFirst

CreatedFirst ==
    /\ ~db.tables => db = Upgrades!NewDatabase
    /\ mstage \notin {"down", "create"} => db.tables
    /\ mstage = "create" => db = Upgrades!NewDatabase
    /\ mstage = "mark" => db = [Upgrades!NewDatabase EXCEPT !.tables = TRUE]

BackedUp ==
    /\ db.history \in {"none", "codex", "generic"} /\ db.samples \in {"long", "limited"}
    /\ db.history = "codex" => "rebuildHistory" \notin applied
    /\ db.history = "generic" => "rebuildHistory" \in applied
    /\ mstage = "run" => \E b \in backups : b.history = db.history /\ b.samples = db.samples
    /\ Upgrades!RemovedIsBackedUp

UpgradeInv ==
    (\E k \in 1..16 : AtVersion(k)) /\ Sound /\ StageFits /\ CreatedFirst /\ BackedUp

LEMMA UpgradeStarts ==
    ASSUME Upgrades!Init PROVE UpgradeInv
<1>1. Upgrades!FirstStart
  BY DEF Upgrades!Init, Upgrades!NewInstallation, Upgrades!Upgrade
<1>2. /\ backups = {} /\ mstage = "down" /\ mpos = 1 /\ mtarget = 0
  BY <1>1 DEF Upgrades!FirstStart
<1>3. CASE Upgrades!NewInstallation
  <2>1. db = Upgrades!NewDatabase /\ applied = {}
    BY <1>3 DEF Upgrades!NewInstallation
  <2>2. applied = Upgrades!Before(1)
    BY <2>1 DEF Upgrades!Before
  <2>3. AtVersion(1)
    BY <1>2, <2>2 DEF AtVersion
  <2>4. Sound
    BY <1>2, <2>1, NewIsGood DEF Sound
  <2>5. StageFits /\ CreatedFirst
    BY <1>2, <2>1 DEF StageFits, CreatedFirst
  <2>6. /\ db.had.history = "none" /\ db.had.samples = "limited"
        /\ db.history = "none" /\ db.samples = "limited"
    BY <2>1 DEF Upgrades!NewDatabase
  <2>7. BackedUp
    BY <1>2, <2>6 DEF BackedUp, Upgrades!RemovedIsBackedUp
  <2> QED BY <2>3, <2>4, <2>5, <2>7 DEF UpgradeInv
<1>4. CASE Upgrades!Upgrade
  <2>1. PICK p \in Starts, shapes \in [Upgrades!Ids -> UpgradeShape], base \in Deleted,
             o \in Progress, n \in Progress, a \in Progress, t \in Progress :
           /\ Started(p, base, o, a, t) /\ applied = Upgrades!Before(p)
           /\ \E h \in Upgrades!OldHistories(p) :
                 db = Upgrades!OldDatabase(p, shapes, base, o, n, a, t, h)
    BY <1>4 DEF Upgrades!Upgrade, Started
  <2>2. Left(db, p)
    <3>1. PICK h \in Upgrades!OldHistories(p) :
             db = Upgrades!OldDatabase(p, shapes, base, o, n, a, t, h)
      BY <2>1
    <3>2. Progress \subseteq 0..MEvents
      BY ServicesAssumption, Zenon DEF UpgradeConstants
    <3>3. o \in 0..MEvents /\ n \in 0..MEvents /\ a \in 0..MEvents /\ t \in 0..MEvents
      BY <2>1, <3>2, Zenon
    <3> QED BY <2>1, <3>1, <3>3, OldIsGood
  <2>3. AtVersion(p) /\ p \in 1..16
    BY <1>2, <2>1, <2>2 DEF AtVersion, Left
  <2>4. Sound
    BY <1>2, <2>1, <2>2 DEF Sound, Left
  <2>5. StageFits /\ CreatedFirst
    BY <1>2, <2>2 DEF StageFits, CreatedFirst, Left
  <2>6. BackedUp
    <3>1. "rebuildHistory" \in applied <=> 13 < p
      BY <2>1, <2>3, BeforeMeans
    <3> QED BY <1>2, <2>2, <2>3, <3>1 DEF BackedUp, Upgrades!RemovedIsBackedUp, Left
  <2> QED BY <2>3, <2>4, <2>5, <2>6 DEF UpgradeInv
<1> QED BY <1>3, <1>4 DEF Upgrades!Init

\* A step that changes no table keeps what the tables say.
LEMMA TablesRest ==
    ASSUME UpgradeInv, UNCHANGED <<db, applied, backups, mtarget>>, mstage' # "run"
    PROVE  Sound' /\ BackedUp'
BY DEF UpgradeInv, Sound, BackedUp, Good, AtLatency, Upgrades!RemovedIsBackedUp

LEMMA OpenSteps ==
    ASSUME UpgradeInv, Upgrades!OpenDatabase \/ Upgrades!SkipApplied \/ Upgrades!VerifyTarget \/ Upgrades!Crash
    PROVE  UpgradeInv'
<1>1. PICK k \in 1..16 : AtVersion(k)
  BY DEF UpgradeInv
<1> USE DEF UpgradeInv
<1>2. CASE Upgrades!OpenDatabase
  <2>1. /\ mstage = "down" /\ mpos' = 1 /\ UNCHANGED <<db, applied, backups, mtarget>>
        /\ mstage' = IF db.tables THEN "next" ELSE "create"
    BY <1>2 DEF Upgrades!OpenDatabase
  <2>2. AtVersion(k)' /\ StageFits'
    BY <1>1, <2>1 DEF AtVersion, StageFits
  <2>3. CreatedFirst'
    BY <2>1 DEF CreatedFirst
  <2>4. Sound' /\ BackedUp'
    BY <2>1, TablesRest
  <2> QED BY <2>2, <2>3, <2>4
<1>3. CASE Upgrades!SkipApplied
  <2>1. /\ mstage = "next" /\ Upgrades!Ordered[mpos] \in applied /\ UNCHANGED <<db, applied, backups, mtarget>>
        /\ mpos' = (IF mpos = 15 THEN 1 ELSE mpos + 1) /\ mstage' \in {"open", "next"}
    BY <1>3, OrderedVersions DEF Upgrades!SkipApplied, Upgrades!Advance, Upgrades!Version
  <2>2. mpos < k
    BY <1>1, <2>1, BeforeIs DEF AtVersion
  <2>3. AtVersion(k)' /\ StageFits'
    BY <1>1, <2>1, <2>2 DEF AtVersion, StageFits
  <2>4. CreatedFirst'
    BY <2>1 DEF CreatedFirst
  <2>5. Sound' /\ BackedUp'
    BY <2>1, TablesRest
  <2> QED BY <2>3, <2>4, <2>5
<1>4. CASE Upgrades!VerifyTarget
  <2>1. /\ mstage = "page" /\ mstage' = "record" /\ UNCHANGED <<db, applied, backups, mtarget, mpos>>
    BY <1>4 DEF Upgrades!VerifyTarget
  <2>2. AtVersion(k)' /\ StageFits'
    BY <1>1, <2>1 DEF AtVersion, StageFits, Upgrades!Version
  <2>3. CreatedFirst'
    BY <2>1 DEF CreatedFirst
  <2>4. Sound' /\ BackedUp'
    BY <2>1, TablesRest
  <2> QED BY <2>2, <2>3, <2>4
<1>5. CASE Upgrades!Crash
  <2>1. /\ mstage' = "down" /\ mpos' = 1 /\ mtarget' = 0 /\ UNCHANGED <<db, applied, backups>>
    BY <1>5 DEF Upgrades!Crash
  <2>2. AtVersion(k)' /\ StageFits'
    BY <1>1, <2>1 DEF AtVersion, StageFits
  <2>3. CreatedFirst'
    BY <2>1 DEF CreatedFirst
  <2>4. Sound' /\ BackedUp'
    BY <2>1 DEF Sound, BackedUp, Good, AtLatency, Upgrades!RemovedIsBackedUp
  <2> QED BY <2>2, <2>3, <2>4
<1> QED BY <1>2, <1>3, <1>4, <1>5

\* What a step keeps of the rest when it keeps what is in the tables' care.
LEMMA RestKept ==
    ASSUME UpgradeInv, mstage \notin {"down", "create"}, Kept(db, db'), backups' = backups,
           mstage' \notin {"create", "mark", "run"},
           "rebuildHistory" \in applied' <=> "rebuildHistory" \in applied
    PROVE  CreatedFirst' /\ BackedUp'
<1>1. db.tables
  BY DEF UpgradeInv, CreatedFirst
<1>2. /\ db'.tables = db.tables /\ db'.had = db.had /\ db'.history = db.history /\ db'.samples = db.samples
  BY DEF Kept
<1>3. CreatedFirst'
  BY <1>1, <1>2 DEF CreatedFirst
<1>4. BackedUp'
  BY <1>2 DEF UpgradeInv, BackedUp, Upgrades!RemovedIsBackedUp
<1> QED BY <1>3, <1>4

LEMMA CreateSteps ==
    ASSUME UpgradeInv, Upgrades!AutoMigrate \/ Upgrades!MarkAllAsApplied PROVE UpgradeInv'
<1> USE DEF UpgradeInv
<1>1. PICK k \in 1..16 : AtVersion(k)
  OBVIOUS
<1>2. CASE Upgrades!AutoMigrate
  <2>1. /\ mstage = "create" /\ db' = [db EXCEPT !.tables = TRUE] /\ mstage' = "mark"
        /\ UNCHANGED <<applied, backups, mpos, mtarget>>
    BY <1>2 DEF Upgrades!AutoMigrate
  <2>2. db = Upgrades!NewDatabase
    BY <2>1 DEF CreatedFirst
  <2>3. db' = [Upgrades!NewDatabase EXCEPT !.tables = TRUE]
    BY <2>1, <2>2
  <2>4. AtVersion(k)' /\ StageFits'
    BY <1>1, <2>1 DEF AtVersion, StageFits
  <2>5. Good(db', applied') /\ AtLatency(db', applied')
    BY <2>3, NewIsGood
  <2>6. Sound'
    BY <2>1, <2>5 DEF Sound
  <2>7. /\ db'.tables = TRUE /\ db'.had.history = "none" /\ db'.had.samples = "limited"
        /\ db'.history = "none" /\ db'.samples = "limited"
    BY <2>3 DEF Upgrades!NewDatabase
  <2>8. CreatedFirst'
    BY <2>1, <2>3, <2>7 DEF CreatedFirst
  <2>9. BackedUp'
    BY <2>1, <2>7 DEF BackedUp, Upgrades!RemovedIsBackedUp
  <2> QED BY <2>4, <2>6, <2>8, <2>9
<1>3. CASE Upgrades!MarkAllAsApplied
  <2>1. /\ mstage = "mark" /\ applied' = Upgrades!Before(16) /\ mstage' = "open"
        /\ UNCHANGED <<db, backups, mpos, mtarget>>
    BY <1>3, OrderedVersions DEF Upgrades!MarkAllAsApplied
  <2>2. db' = [Upgrades!NewDatabase EXCEPT !.tables = TRUE]
    BY <2>1 DEF CreatedFirst
  <2>3. Good(db', applied') /\ AtLatency(db', applied')
    BY <2>2, NewIsGood
  <2>4. Sound'
    BY <2>1, <2>3 DEF Sound
  <2>5. AtVersion(16)' /\ StageFits'
    BY <1>1, <2>1 DEF AtVersion, StageFits
  <2>6. CreatedFirst' /\ BackedUp'
    <3>1. /\ db'.tables = TRUE /\ db'.had.history = "none" /\ db'.had.samples = "limited"
          /\ db'.history = "none" /\ db'.samples = "limited"
      BY <2>2 DEF Upgrades!NewDatabase
    <3> QED BY <2>1, <3>1 DEF CreatedFirst, BackedUp, Upgrades!RemovedIsBackedUp
  <2> QED BY <2>4, <2>5, <2>6
<1> QED BY <1>2, <1>3

LEMMA BackUpStep ==
    ASSUME UpgradeInv, Upgrades!BackUp PROVE UpgradeInv'
<1> USE DEF UpgradeInv
<1>1. PICK k \in 1..16 : AtVersion(k)
  OBVIOUS
<1>2. /\ mstage = "next" /\ Upgrades!Ordered[mpos] \notin applied /\ mstage' = "run"
      /\ backups' = backups \cup {[history |-> db.history, samples |-> db.samples]}
      /\ UNCHANGED <<db, applied, mpos, mtarget>>
  BY DEF Upgrades!BackUp, Upgrades!Version
<1>3. mpos = k
  BY <1>1, <1>2, BeforeIs DEF AtVersion
<1>4. AtVersion(k)' /\ StageFits'
  BY <1>1, <1>2, <1>3 DEF AtVersion, StageFits
<1>5. Sound'
  BY <1>2 DEF Sound, Good, AtLatency
<1>6. CreatedFirst'
  BY <1>2 DEF CreatedFirst
<1>7. PICK b : b = [history |-> db.history, samples |-> db.samples]
  OBVIOUS
<1>8. b \in backups' /\ b.history = db.history /\ b.samples = db.samples /\ backups \subseteq backups'
  BY <1>2, <1>7
<1>9. BackedUp'
  BY <1>2, <1>8 DEF BackedUp, Upgrades!RemovedIsBackedUp
<1> QED BY <1>4, <1>5, <1>6, <1>9

\* The version at hand is the first that is not marked.
LEMMA AtHand ==
    ASSUME NEW k \in 1..16, AtVersion(k), Upgrades!Ordered[mpos] \notin applied
    PROVE  mpos = k /\ k \in 1..15 /\ applied \cup {Upgrades!Ordered[mpos]} = Upgrades!Before(k + 1)
<1>1. mpos = k
  BY BeforeIs DEF AtVersion
<1> QED BY <1>1, BeforeIs DEF AtVersion

LEMMA Advances ==
    ASSUME NEW k \in 1..15, mpos = k, applied' = Upgrades!Before(k + 1), Upgrades!Advance
    PROVE  AtVersion(k + 1)' /\ k + 1 \in 1..16 /\ StageFits' /\ mstage' \in {"open", "next"}
<1>1. mpos' = (IF mpos = 15 THEN 1 ELSE mpos + 1) /\ mstage' \in {"open", "next"}
  BY OrderedVersions DEF Upgrades!Advance
<1> QED BY <1>1 DEF AtVersion, StageFits

LEMMA TransactionStep ==
    ASSUME UpgradeInv, Upgrades!RunInTransaction PROVE UpgradeInv'
<1>1. PICK k \in 1..16 : AtVersion(k)
  BY DEF UpgradeInv
<1>2. PICK v : v = Upgrades!Ordered[mpos]
  OBVIOUS
<1>3. /\ v \notin applied /\ v \notin Upgrades!Paged \cup Upgrades!ClearsFirst
      /\ mstage = (IF v \in Upgrades!Destructive THEN "run" ELSE "next")
      /\ db' = Upgrades!Effect(v, db) /\ applied' = applied \cup {v} /\ Upgrades!Advance
      /\ backups' = backups /\ mtarget' = mtarget
  BY <1>2 DEF Upgrades!RunInTransaction, Upgrades!Version
<1>4. mpos = k /\ k \in 1..15 /\ applied' = Upgrades!Before(k + 1) /\ applied = Upgrades!Before(k)
  BY <1>1, <1>2, <1>3, AtHand DEF AtVersion
<1>5. AtVersion(k + 1)' /\ k + 1 \in 1..16 /\ StageFits' /\ mstage' \in {"open", "next"}
  BY <1>3, <1>4, Advances
<1>6. Good(db, Upgrades!Before(k)) /\ AtLatency(db, Upgrades!Before(k)) /\ mtarget \in Nat
  BY <1>4 DEF UpgradeInv, Sound
<1>7. CASE k < 13
  <2>1. Good(db', Upgrades!Before(k + 1)) /\ AtLatency(db', Upgrades!Before(k + 1)) /\ Kept(db, db')
    BY <1>2, <1>3, <1>4, <1>6, <1>7, EffectIsGood
  <2>2. CreatedFirst' /\ BackedUp'
    <3>1. /\ "rebuildHistory" \in applied <=> 13 < k
          /\ "rebuildHistory" \in applied' <=> 13 < k + 1
      BY <1>4, <1>5, BeforeMeans
    <3>2. mstage = "next"
      BY <1>2, <1>3, <1>4, <1>7, OrderedVersions DEF Upgrades!Destructive
    <3> QED BY <1>3, <1>4, <1>5, <1>7, <2>1, <3>1, <3>2, RestKept
  <2>3. Sound'
    BY <1>3, <1>4, <1>6, <2>1 DEF Sound
  <2> QED BY <1>5, <2>2, <2>3 DEF UpgradeInv
<1>8. CASE ~(k < 13)
  <2>1. k \in {13, 14, 15}
    BY <1>4, <1>8
  <2>2. \/ k \in {13, 14} /\ db' = [db EXCEPT !.history = "none"]
        \/ k = 15 /\ db' = [db EXCEPT !.samples = "limited"]
    BY <1>2, <1>3, <1>4, <2>1, OrderedVersions
       DEF Upgrades!Effect, Upgrades!RebuiltHistory, Upgrades!ResetQuota, Upgrades!LimitSamples
  <2>3. Good(db', Upgrades!Before(k)) /\ Upgrades!Cursor(db', "latency") = Upgrades!Cursor(db, "latency")
    BY <1>6, <2>2, HistoryRemoved
  <2>4. Good(db', Upgrades!Before(k + 1)) /\ AtLatency(db', Upgrades!Before(k + 1))
    <3>1. /\ "cacheRead" \in Upgrades!Before(k) /\ "authIndex" \in Upgrades!Before(k)
          /\ "cacheRead" \in Upgrades!Before(k + 1) /\ "authIndex" \in Upgrades!Before(k + 1)
          /\ "checkpoints" \in Upgrades!Before(k + 1)
      BY <1>5, <2>1, BeforeMeans
    <3> QED BY <2>3, <3>1, MeansTheSame DEF AtLatency
  <2>5. Sound'
    BY <1>3, <1>4, <1>6, <2>4 DEF Sound
  <2>6. Tables(db)
    BY <1>6 DEF Good
  <2>7. mstage = IF k = 13 THEN "next" ELSE "run"
    BY <1>2, <1>3, <1>4, <2>1, OrderedVersions DEF Upgrades!Destructive
  <2>8. db.tables
    BY <2>7 DEF UpgradeInv, CreatedFirst
  <2>9. /\ db'.tables = db.tables /\ db'.had = db.had
        /\ \/ k \in {13, 14} /\ db'.history = "none" /\ db'.samples = db.samples
           \/ k = 15 /\ db'.history = db.history /\ db'.samples = "limited"
    BY <2>2, <2>6 DEF Tables
  <2>10. CreatedFirst'
    BY <1>5, <2>8, <2>9 DEF CreatedFirst
  <2>11. BackedUp'
    <3>1. /\ "rebuildHistory" \in applied'
          /\ k # 13 => "rebuildHistory" \in applied
      BY <1>4, <1>5, <2>1, BeforeMeans
    <3>2. /\ db.history \in {"none", "codex", "generic"} /\ db.samples \in {"long", "limited"}
          /\ db.history = "codex" => "rebuildHistory" \notin applied
          /\ mstage = "run" => \E b \in backups : b.history = db.history /\ b.samples = db.samples
          /\ db.had.history = "generic" /\ db.history # "generic" => \E b \in backups : b.history = "generic"
          /\ db.had.samples = "long" /\ db.samples # "long" => \E b \in backups : b.samples = "long"
          /\ db.history = "generic" => "rebuildHistory" \in applied
      BY DEF UpgradeInv, BackedUp, Upgrades!RemovedIsBackedUp
    <3>3. db'.history # "codex" /\ db'.history \in {"none", "generic"} /\ db'.samples \in {"long", "limited"}
      BY <2>1, <2>9, <3>1, <3>2
    <3>4. db'.had.history = "generic" /\ db'.history # "generic" => \E b \in backups : b.history = "generic"
      <4>1. CASE k = 13
        BY <1>4, <2>9, <3>1, <3>2, <4>1, BeforeMeans
      <4>2. CASE k # 13
        BY <2>7, <2>9, <3>2, <4>2
      <4> QED BY <4>1, <4>2
    <3>5. db'.had.samples = "long" /\ db'.samples # "long" => \E b \in backups : b.samples = "long"
      BY <2>7, <2>9, <3>2
    <3> QED BY <1>3, <1>5, <3>1, <3>3, <3>4, <3>5 DEF BackedUp, Upgrades!RemovedIsBackedUp
  <2> QED BY <1>5, <2>5, <2>10, <2>11 DEF UpgradeInv
<1> QED BY <1>7, <1>8

LEMMA ClearStep ==
    ASSUME UpgradeInv, Upgrades!ClearOverview PROVE UpgradeInv'
<1>1. PICK k \in 1..16 : AtVersion(k)
  BY DEF UpgradeInv
<1>2. /\ mstage = "next" /\ Upgrades!Ordered[mpos] \notin applied /\ Upgrades!Ordered[mpos] \in Upgrades!ClearsFirst
      /\ db' = Upgrades!ClearedOverview(db) /\ mstage' = "record"
      /\ UNCHANGED <<applied, backups, mpos, mtarget>>
  BY DEF Upgrades!ClearOverview, Upgrades!Version
<1>3. mpos = k
  BY <1>1, <1>2, AtHand
<1>4. AtVersion(k)' /\ StageFits'
  BY <1>1, <1>2, <1>3 DEF AtVersion, StageFits, Upgrades!Version
<1>5. Good(db, applied) /\ AtLatency(db, applied) /\ mtarget \in Nat
  BY DEF UpgradeInv, Sound
<1>6. Good(db', applied) /\ Kept(db, db') /\ Upgrades!Cursor(db', "latency") = Upgrades!Cursor(db, "latency")
  BY <1>2, <1>5, OverviewCleared
<1>7. Sound'
  BY <1>2, <1>5, <1>6 DEF Sound, AtLatency
<1>8. CreatedFirst' /\ BackedUp'
  BY <1>2, <1>6, RestKept
<1> QED BY <1>4, <1>7, <1>8 DEF UpgradeInv

LEMMA ReplayBegins ==
    ASSUME UpgradeInv, Upgrades!BeginReplay PROVE UpgradeInv'
<1>1. PICK k \in 1..16 : AtVersion(k)
  BY DEF UpgradeInv
<1>2. /\ mstage = "next" /\ Upgrades!Ordered[mpos] \notin applied /\ Upgrades!Ordered[mpos] \in Upgrades!Paged
      /\ mtarget' = Upgrades!Greatest(DOMAIN db.ev) /\ mstage' = "page"
      /\ (db' = Upgrades!PreparedOverview(db) \/ db' = db)
      /\ UNCHANGED <<applied, backups, mpos>>
  BY DEF Upgrades!BeginReplay, Upgrades!Version
<1>3. mpos = k
  BY <1>1, <1>2, AtHand
<1>4. AtVersion(k)' /\ StageFits'
  BY <1>1, <1>2, <1>3 DEF AtVersion, StageFits, Upgrades!Version
<1>5. Good(db, applied) /\ AtLatency(db, applied)
  BY DEF UpgradeInv, Sound
<1>6. Good(db', applied) /\ Kept(db, db') /\ Upgrades!Cursor(db', "latency") = Upgrades!Cursor(db, "latency")
  <2>1. CASE db' = Upgrades!PreparedOverview(db)
    BY <1>5, <2>1, OverviewCleared
  <2>2. CASE db' = db
    BY <1>5, <2>2 DEF Kept
  <2> QED BY <1>2, <2>1, <2>2
<1>7. mtarget' \in Nat
  <2>1. Len(db.ev) \in Nat /\ DOMAIN db.ev = 1..Len(db.ev)
    BY <1>5 DEF Good, Tables, EventList
  <2> QED BY <1>2, <2>1, GreatestBounds
<1>8. Sound'
  BY <1>2, <1>5, <1>6, <1>7 DEF Sound, AtLatency
<1>9. CreatedFirst' /\ BackedUp'
  BY <1>2, <1>6, RestKept
<1> QED BY <1>4, <1>8, <1>9 DEF UpgradeInv

LEMMA PageStep ==
    ASSUME UpgradeInv, Upgrades!ReplayPage PROVE UpgradeInv'
<1>1. PICK k \in 1..16 : AtVersion(k)
  BY DEF UpgradeInv
<1>2. PICK v : v = Upgrades!Ordered[mpos]
  OBVIOUS
<1>3. /\ mstage = "page" /\ mstage' = mstage /\ Upgrades!PageOf(v, db) # {}
      /\ db' = Upgrades!AfterPage(v, db, Upgrades!PageOf(v, db))
      /\ UNCHANGED <<applied, backups, mpos, mtarget>>
  BY <1>2 DEF Upgrades!ReplayPage, Upgrades!Version
<1>4. mpos = k /\ v \in Upgrades!Paged /\ applied = Upgrades!Before(k) /\ k \in 1..15
  BY <1>1, <1>2, <1>3 DEF UpgradeInv, AtVersion, StageFits, Upgrades!Version
<1>5. AtVersion(k)' /\ StageFits'
  BY <1>1, <1>2, <1>3, <1>4 DEF AtVersion, StageFits, Upgrades!Version
<1>6. Good(db, applied) /\ AtLatency(db, applied) /\ mtarget \in Nat
  BY DEF UpgradeInv, Sound
<1>7. /\ Good(db', applied) /\ Kept(db, db')
      /\ v # "latency" => Upgrades!Cursor(db', "latency") = Upgrades!Cursor(db, "latency")
  BY <1>3, <1>4, <1>6, PageCounted
<1>8. v = "latency" => "checkpoints" \in applied
  BY <1>1, <1>2, <1>4, OrderedVersions, BeforeMeans
<1>9. Sound'
  BY <1>3, <1>6, <1>7, <1>8 DEF Sound, AtLatency
<1>10. CreatedFirst' /\ BackedUp'
  BY <1>3, <1>7, RestKept
<1> QED BY <1>5, <1>9, <1>10 DEF UpgradeInv

LEMMA RecordStep ==
    ASSUME UpgradeInv, Upgrades!RecordVersion PROVE UpgradeInv'
<1>1. PICK k \in 1..16 : AtVersion(k)
  BY DEF UpgradeInv
<1>2. PICK v : v = Upgrades!Ordered[mpos]
  OBVIOUS
<1>3. /\ mstage = "record" /\ applied' = applied \cup {v} /\ Upgrades!Advance
      /\ UNCHANGED <<db, backups, mtarget>>
  BY <1>2 DEF Upgrades!RecordVersion, Upgrades!Version
<1>4. mpos = k /\ v \in Upgrades!Paged \cup Upgrades!ClearsFirst /\ applied = Upgrades!Before(k) /\ k \in 1..15
  BY <1>1, <1>2, <1>3 DEF UpgradeInv, AtVersion, StageFits, Upgrades!Version
<1>5. applied' = Upgrades!Before(k + 1)
  BY <1>2, <1>3, <1>4, BeforeIs
<1>6. AtVersion(k + 1)' /\ k + 1 \in 1..16 /\ StageFits' /\ mstage' \in {"open", "next"}
  BY <1>3, <1>4, <1>5, Advances
<1>7. Good(db, applied) /\ AtLatency(db, applied) /\ mtarget \in Nat
  BY DEF UpgradeInv, Sound
<1>8. /\ "cacheRead" \in applied' <=> "cacheRead" \in applied
      /\ "authIndex" \in applied' <=> "authIndex" \in applied
  BY <1>3, <1>4 DEF Upgrades!Paged, Upgrades!ClearsFirst
<1>9. Good(db, applied')
  BY <1>7, <1>8, MeansTheSame
<1>10. Sound'
  BY <1>3, <1>7, <1>9 DEF Sound, AtLatency
<1>11. CreatedFirst' /\ BackedUp'
  <2>1. Kept(db, db')
    BY <1>3 DEF Kept
  <2>2. "rebuildHistory" \in applied' <=> "rebuildHistory" \in applied
    BY <1>3, <1>4 DEF Upgrades!Paged, Upgrades!ClearsFirst
  <2> QED BY <1>3, <1>6, <2>1, <2>2, RestKept
<1> QED BY <1>6, <1>10, <1>11 DEF UpgradeInv

LEMMA UpgradeSteps ==
    ASSUME UpgradeInv, [Upgrades!Next]_(Upgrades!mvars) PROVE UpgradeInv'
<1>1. CASE Upgrades!Next
  BY <1>1, OpenSteps, CreateSteps, BackUpStep, TransactionStep, ClearStep, ReplayBegins, PageStep, RecordStep
     DEF Upgrades!Next
<1>2. CASE UNCHANGED Upgrades!mvars
  <2>1. UNCHANGED <<db, applied, backups, mstage, mpos, mtarget>>
    BY <1>2 DEF Upgrades!mvars
  <2>2. \A k : AtVersion(k)' <=> AtVersion(k)
    BY <2>1 DEF AtVersion
  <2>3. Sound' <=> Sound
    BY <2>1 DEF Sound, Good, AtLatency
  <2>4. StageFits' <=> StageFits
    BY <2>1 DEF StageFits, Upgrades!Version
  <2>5. CreatedFirst' <=> CreatedFirst
    BY <2>1 DEF CreatedFirst
  <2>6. BackedUp' <=> BackedUp
    BY <2>1 DEF BackedUp, Upgrades!RemovedIsBackedUp
  <2> QED BY <2>2, <2>3, <2>4, <2>5, <2>6 DEF UpgradeInv
<1> QED BY <1>1, <1>2

LEMMA NothingLost ==
    ASSUME UpgradeInv PROVE Upgrades!UpgradeLosesNothing
<1>1. Good(db, applied) /\ Upgrades!RemovedIsBackedUp
  BY DEF UpgradeInv, Sound, BackedUp
<1>2. \A s, t : Upgrades!Agree(s, t) <=> Exact(s, t, applied)
  BY DEF Upgrades!Agree, Exact
<1>3. Upgrades!OverviewIsExact
  BY <1>1, <1>2 DEF Good, ExactOverview, CountedBy, Upgrades!OverviewIsExact
<1>4. Upgrades!IdentitiesAreExact
  BY <1>1, <1>2 DEF Good, ExactRows, Told, MineOf, Upgrades!IdentitiesAreExact
<1>5. Upgrades!ReplaysCountOnce
  BY <1>1 DEF Good, CountedOnce, Upgrades!ReplaysCountOnce
<1> QED BY <1>1, <1>3, <1>4, <1>5 DEF Upgrades!UpgradeLosesNothing

-----------------------------------------------------------------------------
(***************************************************************************)
(* The parts within KeeperServices.                                        *)
(***************************************************************************)

LEMMA ServicesSteps ==
    [Next]_vars => /\ [Auth!Next]_(Auth!svars)
                   /\ [Limiter!Next]_(Limiter!lvars)
                   /\ [Errors!Next]_(Errors!ervars)
                   /\ [Prices!Next]_(Prices!pvars)
                   /\ [Backups!Next]_(Backups!bvars)
                   /\ [Queries!Next]_(Queries!quvars)
<1> USE DEF vars, svars, lvars, ervars, pvars, bvars, quvars, Auth!svars, Limiter!lvars, Errors!ervars,
            Prices!pvars, Backups!bvars, Queries!quvars
<1>1. [Next]_vars => [Auth!Next]_(Auth!svars)
  BY DEF Next
<1>2. [Next]_vars => [Limiter!Next]_(Limiter!lvars)
  BY DEF Next
<1>3. [Next]_vars => [Errors!Next]_(Errors!ervars)
  BY DEF Next
<1>4. [Next]_vars => [Prices!Next]_(Prices!pvars)
  BY DEF Next
<1>5. [Next]_vars => [Backups!Next]_(Backups!bvars)
  BY DEF Next
<1>6. [Next]_vars => [Queries!Next]_(Queries!quvars)
  BY DEF Next
<1> QED BY <1>1, <1>2, <1>3, <1>4, <1>5, <1>6

LEMMA ServicesAreParts ==
    Spec => Auth!Spec /\ Limiter!Spec /\ Errors!Spec /\ Prices!Spec /\ Backups!Spec /\ Queries!Spec
<1>1. Init => Auth!Init /\ Limiter!Init /\ Errors!Init /\ Prices!Init /\ Backups!Init /\ Queries!Init
  BY DEF Init
<1> QED BY <1>1, ServicesSteps, PTL
        DEF Spec, Auth!Spec, Limiter!Spec, Errors!Spec, Prices!Spec, Backups!Spec, Queries!Spec

\* A session whose row was deleted never comes back, whatever the activity
\* writer, overlapping requests and restarts do (internal/auth/session.go).
THEOREM RevocationIsFinal == Spec => RevokedStaysRevoked
<1>1. SessionConstants
  BY ServicesAssumption
<1>2. Auth!Spec => Auth!RevokedStaysRevoked
  BY <1>1, SessionsRevoke
<1> QED BY <1>2, ServicesAreParts, PTL DEF RevokedStaysRevoked

\* Activity noted for a session always has a writer (internal/auth/session.go).
THEOREM ActivityIsWritten == Spec => []ActivityHasAWriter
<1>1. Auth!ActivityHasAWriter => ActivityHasAWriter
  BY DEF ActivityHasAWriter
<1> QED BY <1>1, ServicesAreParts, SessionsWrite, PTL

\* In any span of one window the limiter lets through at most two windows'
\* worth of attempts (internal/auth/login_limiter.go).
THEOREM LoginsAreBounded == Spec => []AttemptsAreBounded
<1>1. LimiterConstants
  BY ServicesAssumption
<1>2. Limiter!Spec => []Limiter!AttemptsAreBounded
  BY <1>1, LimiterBounds
<1>3. Limiter!AttemptsAreBounded => AttemptsAreBounded
  BY DEF AttemptsAreBounded
<1> QED BY <1>2, <1>3, ServicesAreParts, PTL

\* The error subscription ends only on shutdown, on a permanent refusal or
\* after RetryLimit + 1 failures in a row
\* (internal/poller/redis_error_ingest_runner.go).
THEOREM ErrorIngestEnds == Spec => []ErrorIngestEndsForAReason
<1>1. ErrorConstants
  BY ServicesAssumption
<1>2. Errors!Spec => []Errors!ErrorIngestEndsForAReason
  BY <1>1, ErrorsEnd
<1>3. Errors!ErrorIngestEndsForAReason => ErrorIngestEndsForAReason
  BY DEF ErrorIngestEndsForAReason
<1> QED BY <1>2, <1>3, ServicesAreParts, PTL

\* The published prices are never older than an answered change, and are what
\* the tables say when no change is under way
\* (internal/service/pricing_mutation.go).
THEOREM CatalogIsCurrent == Spec => []CatalogFollowsCommits
<1>1. PriceConstants
  BY ServicesAssumption
<1>2. Prices!Spec => []Prices!CatalogFollowsCommits
  BY <1>1, PricesFollow
<1>3. Prices!CatalogFollowsCommits => CatalogFollowsCommits
  BY DEF CatalogFollowsCommits
<1> QED BY <1>2, <1>3, ServicesAreParts, PTL

\* No request costs an amount that is not finite under a snapshot that was
\* published or is pinned (internal/pricing/snapshot.go, compile and
\* Calculate).
THEOREM CostsStayFinite == Spec => []CostsAreFinite
<1>1. PriceConstants
  BY ServicesAssumption
<1>2. Prices!Spec => []Prices!CostsAreFinite
  BY <1>1, CostsAreBounded
<1>3. Prices!CostsAreFinite => CostsAreFinite
  BY DEF CostsAreFinite
<1> QED BY <1>2, <1>3, ServicesAreParts, PTL

\* For every interval, whatever fails and however often the process is
\* restarted (internal/app/backup_runner.go): on the daily schedule there are
\* at most RetryAttempts + 1 copies from one backup hour to the next, no two
\* closer than RetryDelay; with any other interval a copy that succeeded is
\* followed by none before the interval is over, unless a restart could not
\* read the backup directory; and no retry starts within RetryDelay of an
\* earlier copy.
THEOREM BackupsKeepTheirPace == Spec => []BackupAttemptsArePaced
<1>1. BackupConstants
  BY ServicesAssumption
<1>2. Backups!Spec => []Backups!BackupAttemptsArePaced
  BY <1>1, BackupsArePaced
<1>3. Backups!BackupAttemptsArePaced => BackupAttemptsArePaced
  BY DEF BackupAttemptsArePaced
<1> QED BY <1>2, <1>3, ServicesAreParts, PTL

\* What the cache's worker has appended is in the cache and in the health
\* buckets for the whole of their windows, counted once, across pruning and
\* restarts (internal/repository/usage_recent_event_cache.go).
THEOREM CachesAreWhole == Spec => []CacheHoldsItsWindow
<1>1. QueryConstants
  BY ServicesAssumption
<1>2. Queries!Spec => []Queries!CacheHoldsItsWindow
  BY <1>1, CachesHold
<1>3. Queries!CacheHoldsItsWindow => CacheHoldsItsWindow
  BY DEF CacheHoldsItsWindow
<1> QED BY <1>2, <1>3, ServicesAreParts, PTL

\* The pages of the event list show every event that existed when the list
\* was opened exactly once, and no event twice, while events with any
\* timestamp are committed between them (internal/repository/usage.go).
THEOREM PagesAreComplete == Spec => []PagesShowEachEventOnce
<1>1. QueryConstants
  BY ServicesAssumption
<1>2. Queries!Spec => []Queries!PagesShowEachEventOnce
  BY <1>1, PagesShow
<1>3. Queries!PagesShowEachEventOnce => PagesShowEachEventOnce
  BY DEF PagesShowEachEventOnce
<1> QED BY <1>2, <1>3, ServicesAreParts, PTL

\* An answer counts no event twice, none outside its range and every settled
\* one inside it, for all lengths of hours, days, windows and ranges and
\* whatever happens between its reads (internal/repository/usage.go).
THEOREM OverviewsAreExact == Spec => []OverviewCountsOnce
<1>1. QueryConstants
  BY ServicesAssumption
<1>2. Queries!Spec => []Queries!OverviewCountsOnce
  BY <1>1, OverviewsCount
<1>3. Queries!OverviewCountsOnce => OverviewCountsOnce
  BY DEF OverviewCountsOnce
<1> QED BY <1>2, <1>3, ServicesAreParts, PTL

\* Through every upgrade, from any earlier release and however often it is
\* interrupted, each rollup is the sum of the events below its cursor in
\* their present form, and the general quota history and the long samples
\* are in a finished backup once they are removed (repository/db.go,
\* repository/migration).
THEOREM UpgradesAreExact == Spec => []UpgradeLosesNothing
<1>1. Init => UpgradeInv
  <2>1. Init => Upgrades!Init
    BY DEF Init, Upgrades!Init
  <2> QED BY <2>1, UpgradeStarts
<1>2. UpgradeInv /\ [Next]_vars => UpgradeInv'
  <2>1. [Next]_vars => [Upgrades!Next]_(Upgrades!mvars)
    BY DEF Next, vars, mvars, Upgrades!mvars
  <2> QED BY <2>1, UpgradeSteps
<1>3. UpgradeInv => UpgradeLosesNothing
  BY NothingLost DEF UpgradeLosesNothing
<1> QED BY <1>1, <1>2, <1>3, PTL DEF Spec
=============================================================================
