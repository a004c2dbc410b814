----------------------------- MODULE CommitFeed -----------------------------
(***************************************************************************)
(* What the usage aggregation runner relies on about the inbox side:       *)
(*                                                                         *)
(*   - event ids are handed out in commit order and never taken back;      *)
(*   - a commit is followed by its own notification before the next commit *)
(*     of the same process;                                                *)
(*   - a crash loses a notification but never a commit;                    *)
(*   - whether the inbox holds processable rows is just a flag that comes  *)
(*     and goes.                                                           *)
(*                                                                         *)
(* UsageInbox implements this specification; UsageAggregation takes the    *)
(* same steps as its environment.                                          *)
(***************************************************************************)
EXTENDS Naturals

CONSTANT MaxCommitted   \* bound on committed events

VARIABLES lastId,  \* newest committed usage event
          owed,    \* the same, while its notification is still to come; else 0
          inbox,   \* there are rows the process runner would list
          up       \* the process runs

vars == <<lastId, owed, inbox, up>>

Init == lastId = 0 /\ owed = 0 /\ inbox = FALSE /\ up = FALSE

Commit ==
    /\ up /\ owed = 0
    /\ \E n \in (lastId + 1)..MaxCommitted : lastId' = n /\ owed' = n
    /\ inbox' \in BOOLEAN
    /\ UNCHANGED up

Notify == up /\ owed > 0 /\ owed' = 0 /\ UNCHANGED <<lastId, inbox, up>>

InboxChanges == inbox' = ~inbox /\ UNCHANGED <<lastId, owed, up>>

Crash == up /\ up' = FALSE /\ owed' = 0 /\ UNCHANGED <<lastId, inbox>>

Boot == ~up /\ up' = TRUE /\ UNCHANGED <<lastId, owed, inbox>>

Next == Commit \/ Notify \/ InboxChanges \/ Crash \/ Boot

Spec == Init /\ [][Next]_vars
=============================================================================
