------------------------------ MODULE ErrorEvents ------------------------------
(***************************************************************************)
(* The subscription to CPA's error channel.  One goroutine subscribes,     *)
(* receives until the connection fails, and subscribes again after a       *)
(* growing delay; it gives up for the life of the process after a fixed    *)
(* number of consecutive failures or when CPA refuses for good.  Every     *)
(* received event is decoded and inserted into error_events at once; there *)
(* is no inbox, so an event that cannot be decoded or written is gone.     *)
(*                                                                         *)
(* The channel is publish/subscribe: CPA keeps nothing for a subscriber    *)
(* that is away.  The lengths of the delays play no part in any property.  *)
(***************************************************************************)
EXTENDS Naturals, Sequences

CONSTANTS RetryLimit,      \* len(retryDelays)
          MaxPublished, MaxConnects     \* bounds on events and connection attempts

VARIABLES runner_e,        \* where Run is
          retryIndex,
          wire,            \* frames on the open connection
          table,           \* rows of error_events
          failures,        \* consecutive failures since the last subscription
          refusal,         \* CPA refused permanently
          cancelled,       \* the context of the process
          published, connects

ervars == <<runner_e, retryIndex, wire, table, failures,
            refusal, cancelled, published, connects>>

\* What a frame turns out to be: an event of a supported provider, one of a
\* provider the keeper does not know, one that does not decode or lacks its
\* timestamp or auth index, and a frame that is no message of the channel.
Frame == {"event", "foreign", "malformed", "other"}

Init == /\ runner_e = "subscribe" /\ retryIndex = 0 /\ wire = <<>>
        /\ table = 0
        /\ failures = 0 /\ refusal = FALSE /\ cancelled = FALSE
        /\ published = 0 /\ connects = 0

\* CPA publishes to whoever is subscribed.
Publish(f) ==
    /\ published < MaxPublished
    /\ published' = published + 1
    /\ wire' = IF runner_e = "receive" THEN Append(wire, f) ELSE wire
    /\ UNCHANGED <<runner_e, retryIndex, table, failures,
                   refusal, cancelled, connects>>

Cancel ==
    /\ ~cancelled
    /\ cancelled' = TRUE
    /\ UNCHANGED <<runner_e, retryIndex, wire, table,
                   failures, refusal, published, connects>>

\* Run after a failed subscription or a failed receive, given the retries
\* counted so far.
Retry(index) ==
    IF index >= RetryLimit
    THEN runner_e' = "stopped" /\ retryIndex' = index
    ELSE runner_e' = "sleep" /\ retryIndex' = index + 1

\* SubscribeErrors: dial, AUTH and SUBSCRIBE.  A success starts the count of
\* retries over.
SubscribedKeepsCount == runner_e' = "receive" /\ UNCHANGED retryIndex
Subscribed == runner_e' = "receive" /\ retryIndex' = 0

SubscribeSucceeds ==
    /\ runner_e = "subscribe" /\ ~cancelled /\ connects < MaxConnects
    /\ connects' = connects + 1
    /\ Subscribed
    /\ failures' = 0 /\ wire' = <<>>
    /\ UNCHANGED <<table, refusal, cancelled, published>>

SubscribeFails ==
    /\ runner_e = "subscribe" /\ ~cancelled
    /\ failures' = failures + 1
    /\ Retry(retryIndex)
    /\ UNCHANGED <<wire, table, refusal, cancelled,
                   published, connects>>

\* Wrong management key or no such channel.
SubscribeRefused ==
    /\ runner_e = "subscribe" /\ ~cancelled
    /\ refusal' = TRUE /\ runner_e' = "stopped"
    /\ UNCHANGED <<retryIndex, wire, table, failures,
                   cancelled, published, connects>>

\* Receive and StoreErrorEvent for the next frame.  Only an error of the
\* insert is a failure, and it is logged, not retried.
ReceiveEvent ==
    /\ runner_e = "receive" /\ ~cancelled /\ wire # <<>>
    /\ wire' = Tail(wire)
    /\ \/ /\ Head(wire) = "event"
          /\ table' \in {table, table + 1}
       \/ Head(wire) # "event" /\ UNCHANGED table
    /\ UNCHANGED <<runner_e, retryIndex, failures, refusal, cancelled, published,
                   connects>>

ReceiveFails ==
    /\ runner_e = "receive" /\ ~cancelled
    /\ failures' = failures + 1
    /\ Retry(retryIndex)
    /\ wire' = <<>>
    /\ UNCHANGED <<table, refusal, cancelled, published,
                   connects>>

SleepEnds ==
    /\ runner_e = "sleep" /\ ~cancelled
    /\ runner_e' = "subscribe"
    /\ UNCHANGED <<retryIndex, wire, table, failures,
                   refusal, cancelled, published, connects>>

\* Cancellation closes the connection, ends the sleep or stops the attempt.
StopsOnCancel ==
    /\ cancelled /\ runner_e # "stopped"
    /\ runner_e' = "stopped" /\ wire' = <<>>
    /\ UNCHANGED <<retryIndex, table, failures, refusal,
                   cancelled, published, connects>>

Next == \/ \E f \in Frame : Publish(f)
        \/ Cancel
        \/ SubscribeSucceeds
        \/ SubscribeFails
        \/ SubscribeRefused
        \/ ReceiveEvent
        \/ ReceiveFails
        \/ SleepEnds
        \/ StopsOnCancel

Spec == Init /\ [][Next]_ervars

\* The subscription ends for good only on shutdown, on a permanent refusal,
\* or after RetryLimit + 1 failures in a row: failures before the last
\* subscription that worked never count against the next outage.
ErrorIngestEndsForAReason ==
    runner_e = "stopped" => cancelled \/ refusal \/ failures = RetryLimit + 1
=============================================================================
