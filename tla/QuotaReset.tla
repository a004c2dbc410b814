----------------------------- MODULE QuotaReset -----------------------------
(***************************************************************************)
(* Resetting a quota by hand (internal/quota: reset.go, claude_reset.go,   *)
(* claude_reset_grants.go, the Reset of codex.go).  A reset spends one of  *)
(* the account's reset credits (Codex) or grants (Claude) at the provider, *)
(* through CPA, and then asks CPA to end the account's cooldown.  The      *)
(* answer of the provider may be late or lost after the provider acted.    *)
(*                                                                         *)
(* Grants are numbered in the order of their ids; 0 stands for a request   *)
(* that names no grant, which is what the Codex dialog sends.              *)
(***************************************************************************)
EXTENDS Integers, Sequences, FiniteSets, FiniteSetsExt

CONSTANTS RAuth,      \* auth indexes
          Grant,      \* grants of a Claude account, positive
          RReq,       \* HTTP requests, each used once
          MaxRFaults  \* bound on faults and on changes at CPA and the provider

VARIABLES rtype,         \* "codex", "claude", "other" (no resets) or "none" (no such file)
          left,          \* resets left: of each grant, and of the credits at 0
          open,          \* grants the provider says are usable now
          cooling,       \* accounts that CPA keeps out of its routing
          resetInFlight, \* auth indexes of the resets under way
          resets,        \* the requests
          calls,         \* requests whose call the provider has not decided
          reply,         \* what the provider decided
          ledger,        \* what the provider spent, and for which request
          rfaults

rvars == <<rtype, left, open, cooling, resetInFlight, resets, calls, reply, ledger, rfaults>>

\* A request: what the dialog showed, the provider it went to, its answer.
Confirmed(a, g) == [pc |-> "shown", a |-> a, grant |-> g, via |-> "none", code |-> "", failed |-> FALSE]
NoRequest == [pc |-> "idle"]
UnderWay(r) == resets[r].pc \in {"resolve", "sent", "recover"}
RFault == rfaults < MaxRFaults /\ rfaults' = rfaults + 1

Init ==
    /\ rtype = [a \in RAuth |-> "claude"]
    /\ left = [a \in RAuth |-> [g \in Grant \cup {0} |-> 1]]
    /\ open = [a \in RAuth |-> Grant]
    /\ cooling = RAuth
    /\ resetInFlight = {}
    /\ resets = [r \in RReq |-> NoRequest]
    /\ calls = {}
    /\ reply = [r \in RReq |-> "none"]
    /\ ledger = <<>>
    /\ rfaults = 0

-----------------------------------------------------------------------------
(* The dialog *)

Usable(a, g) == g \in open[a] /\ left[a][g] > 0

\* The grant the provider suggests, if it is usable, or else the first.
SelectGrant(a, next) ==
    LET usable == {g \in Grant : Usable(a, g)}
    IN  IF next \in usable THEN next ELSE Min(usable)

ListClaudeResetGrants(r, a) ==
    /\ resets[r] = NoRequest
    /\ rtype[a] = "claude"
    /\ \E g \in Grant : Usable(a, g)
    /\ \E next \in Grant :
          resets' = [resets EXCEPT ![r] = Confirmed(a, SelectGrant(a, next))]
    /\ UNCHANGED <<rtype, left, open, cooling, resetInFlight, calls, reply, ledger, rfaults>>

Answered(q, code, failed) == [q EXCEPT !.pc = "answered", !.code = code, !.failed = failed]

\* beginReset: a second reset of the account is turned away.
Begin(q) ==
    IF q.a \in resetInFlight THEN Answered(q, "in_progress", FALSE) ELSE [q EXCEPT !.pc = "resolve"]

\* POST /quota/reset
Reset(r, a) ==
    /\ \/ resets[r].pc = "shown" /\ resets[r].a = a
       \/ resets[r] = NoRequest
    /\ LET q == IF resets[r] = NoRequest THEN Confirmed(a, 0) ELSE resets[r]
       IN  resets' = [resets EXCEPT ![r] = Begin(q)]
    /\ resetInFlight' = resetInFlight \cup {a}
    /\ UNCHANGED <<rtype, left, open, cooling, calls, reply, ledger, rfaults>>

-----------------------------------------------------------------------------
(* The reset *)

\* The answer and finishReset.
Finish(r, code, failed) ==
    /\ resets' = [resets EXCEPT ![r] = Answered(@, code, failed)]
    /\ resetInFlight' = resetInFlight \ {resets[r].a}

Send(r, provider) ==
    /\ resets' = [resets EXCEPT ![r].pc = "sent", ![r].via = provider]
    /\ calls' = calls \cup {r}
    /\ UNCHANGED <<resetInFlight, rfaults>>

Refuse(r, code) == Finish(r, code, FALSE) /\ UNCHANGED <<calls, rfaults>>

ResolveByAccount(r) ==
    LET a == resets[r].a
    IN  /\ resets[r].pc = "resolve"
        /\ \/ rtype[a] \in {"claude", "codex"} /\ Send(r, rtype[a])
           \/ rtype[a] = "other" /\ Refuse(r, "unsupported")
           \/ rtype[a] = "none" /\ Refuse(r, "not_found")
        /\ UNCHANGED <<rtype, left, open, cooling, reply, ledger>>

\* The account is looked up again: a grant that was shown for a Claude
\* account is not spent as a Codex credit, nor the other way round.
Resolve(r) ==
    LET a == resets[r].a
        chosen == resets[r].grant # 0
    IN  /\ resets[r].pc = "resolve"
        /\ \/ rtype[a] = "claude" /\ chosen /\ Send(r, "claude")
           \/ rtype[a] = "claude" /\ ~chosen /\ Refuse(r, "unavailable")
           \/ rtype[a] = "codex" /\ ~chosen /\ Send(r, "codex")
           \/ rtype[a] \in {"codex", "other"} /\ chosen /\ Refuse(r, "unavailable")
           \/ rtype[a] = "other" /\ ~chosen /\ Refuse(r, "unsupported")
           \/ rtype[a] = "none" /\ Refuse(r, "not_found")
           \/ RFault /\ Finish(r, "error", FALSE) /\ UNCHANGED calls
        /\ UNCHANGED <<rtype, left, open, cooling, reply, ledger>>

\* The provider spends a resets, or refuses: the grant was used before, or it
\* has another reason.
ProviderDecides(r) ==
    LET a == resets[r].a
        g == IF resets[r].via = "claude" THEN resets[r].grant ELSE 0
    IN  /\ r \in calls
        /\ calls' = calls \ {r}
        /\ \/ /\ left[a][g] > 0
              /\ left' = [left EXCEPT ![a][g] = @ - 1]
              /\ ledger' = Append(ledger, [r |-> r, a |-> a, grant |-> g])
              /\ reply' = [reply EXCEPT ![r] = "reset"]
           \/ /\ reply' = [reply EXCEPT ![r] = IF left[a][g] = 0 THEN "already_used" ELSE "refused"]
              /\ UNCHANGED <<left, ledger>>
    /\ UNCHANGED <<rtype, open, cooling, resetInFlight, resets, rfaults>>

\* Codex takes any answer but "reset" for an error.
Recovers(r) == reply[r] = "reset" \/ (reply[r] = "already_used" /\ resets[r].via = "claude")
Refusal(r) == IF resets[r].via = "codex" THEN "error" ELSE reply[r]

HearsReply(r) ==
    /\ resets[r].pc = "sent"
    /\ reply[r] # "none"
    /\ IF Recovers(r) THEN resets' = [resets EXCEPT ![r].pc = "recover"] /\ UNCHANGED resetInFlight
       ELSE Finish(r, Refusal(r), FALSE)
    /\ UNCHANGED <<rtype, left, open, cooling, calls, reply, ledger, rfaults>>

LostIsUnavailable(r) ==
    /\ resets[r].pc = "sent"
    /\ RFault
    /\ Finish(r, IF resets[r].via = "codex" THEN "error" ELSE "unavailable", FALSE)
    /\ UNCHANGED <<rtype, left, open, cooling, calls, reply, ledger>>

\* A timeout, the end of the HTTP request, a broken connection or an answer
\* that cannot be read.  The provider may have acted, or may act later.
LosesReply(r) ==
    /\ resets[r].pc = "sent"
    /\ RFault
    /\ Finish(r, IF resets[r].via = "codex" THEN "error" ELSE "unknown", FALSE)
    /\ UNCHANGED <<rtype, left, open, cooling, calls, reply, ledger>>

\* CPA's cooldown ends, or the call fails, which the answer only mentions.
Recover(r) ==
    /\ resets[r].pc = "recover"
    /\ \/ Finish(r, reply[r], FALSE) /\ cooling' = cooling \ {resets[r].a} /\ UNCHANGED rfaults
       \/ Finish(r, reply[r], TRUE) /\ RFault /\ UNCHANGED cooling
    /\ UNCHANGED <<rtype, left, open, calls, reply, ledger>>

-----------------------------------------------------------------------------
(* CPA and the provider *)

AccountChanges(a) ==
    /\ RFault
    /\ \E t \in {"codex", "claude", "other", "none"} \ {rtype[a]} : rtype' = [rtype EXCEPT ![a] = t]
    /\ UNCHANGED <<left, open, cooling, resetInFlight, resets, calls, reply, ledger>>

GrantCloses(a) ==
    /\ RFault
    /\ \E g \in open[a] : open' = [open EXCEPT ![a] = @ \ {g}]
    /\ UNCHANGED <<rtype, left, cooling, resetInFlight, resets, calls, reply, ledger>>

Next ==
    \/ \E r \in RReq, a \in RAuth : ListClaudeResetGrants(r, a) \/ Reset(r, a)
    \/ \E r \in RReq : Resolve(r) \/ ProviderDecides(r) \/ HearsReply(r) \/ LosesReply(r) \/ Recover(r)
    \/ \E a \in RAuth : AccountChanges(a) \/ GrantCloses(a)

Spec == Init /\ [][Next]_rvars

-----------------------------------------------------------------------------
(* Properties *)

Refusals == {"in_progress", "unavailable", "unsupported", "not_found", "refused"}

\* A reset is spent once and accounted for: a request spends at most one,
\* and that of the account and the grant it was confirmed for; while one is
\* under way for an account no other is; an answer that tells the user nothing
\* was spent is right, and stays right when the provider acts late; "reset"
\* means one was spent and, unless the answer says otherwise, the cooldown
\* ended (quota/reset.go, quota/claude_reset.go).
ResetIsAccountedFor ==
    /\ \A i, j \in DOMAIN ledger : ledger[i].r = ledger[j].r => i = j
    /\ \A i \in DOMAIN ledger : LET q == resets[ledger[i].r]
                                IN  ledger[i].a = q.a /\ ledger[i].grant = q.grant
    /\ \A r, q \in RReq : UnderWay(r) /\ UnderWay(q) /\ resets[r].a = resets[q].a => r = q
    /\ \A r \in RReq : resets[r].pc = "answered" =>
          /\ resets[r].code \in Refusals =>
                r \notin calls /\ \A i \in DOMAIN ledger : ledger[i].r # r
          /\ resets[r].code = "reset" =>
                /\ \E i \in DOMAIN ledger : ledger[i].r = r
                /\ ~resets[r].failed => resets[r].a \notin cooling
=============================================================================
