-------------------------- MODULE MCKeeperServices --------------------------
(***************************************************************************)
(* The services instantiated for TLC: the values of the constants that are *)
(* sets of records.  The numbers and the other sets are in the cfg.        *)
(***************************************************************************)
EXTENDS KeeperServices, TLC

Header(provider, has, active) == [provider |-> provider, has |-> has, active |-> active]

\* Codex headers with the main window and the flag, with the additional limit
\* active, with a window the cache does not know; Claude headers with one
\* window and with both.
HeaderKinds ==
    {Header("codex", {"main", "flag"}, "none"), Header("codex", {"main", "extra"}, "extra"),
     Header("codex", {"odd"}, "none"), Header("claude", {"five"}, "none"),
     Header("claude", {"five", "seven"}, "none")}

Observed(win, src, reset, pct) ==
    [role |-> "primary", win |-> win, src |-> src, reset |-> reset, pct |-> pct]

\* The same reset seen absolutely and relatively, a fall of the percentage, a
\* new cycle, and a window of another length.
ObservedShapes ==
    {Observed(1, "absolute", 1, 2), Observed(1, "relative", 2, 2),
     Observed(1, "absolute", 1, 1), Observed(1, "absolute", 4, 3),
     Observed(2, "absolute", 1, 2)}

Arrival(age, cred) == [age |-> age, cred |-> cred]

\* Events that arrive now, late (before the last full hours), and early.
Arrivals ==
    {Arrival(0, "c1"), Arrival(5, "c1"), Arrival(-1, "c2")}

Price(price, mult) == [price |-> price, mult |-> mult]
Rule(field, value, mult) == [field |-> field, value |-> value, mult |-> mult]

PriceInputs ==
    {Price(1, 2), Price(3, 0), Price(-1, 1)}

RuleInputs ==
    {{}, {Rule("f", "x", 2)}, {Rule("f", "x", 2), Rule("g", "x", 2)},
     {Rule("f", "x", 2), Rule("f", "x", 1)}, {Rule("f", "x", 0), Rule("f", "y", 2)},
     {Rule("f", "x", 2), Rule("g", "x", -1)}}

ListPrices == {-1, 3}

Stored(kind, auth, source, index, named, misses) ==
    [kind |-> kind, auth |-> auth, source |-> source, index |-> index, named |-> named,
     misses |-> misses]
Tokens(input, output, reasoning, cache, read, create, total) ==
    [input |-> input, output |-> output, reasoning |-> reasoning, cached |-> cache,
     read |-> read, create |-> create, total |-> total]

StoredEvents ==
    {Stored("claude", "oauth", "f", "f", TRUE, {}) @@ Tokens(1, 1, 0, 0, 2, 1, 0),
     Stored("claude", "apikey", "k1", "x", TRUE, {"day"}) @@ Tokens(1, 1, 0, 3, 1, 0, 5),
     Stored("gemini", "apikey", "k2", "x", TRUE, {}) @@ Tokens(2, 1, 1, 1, 0, 0, 4),
     Stored("gemini", "", "k1", "y", TRUE, {"hour"}) @@ Tokens(1, 1, 1, 1, 0, 0, 3),
     Stored("plain", "apikey", "k2", "y", FALSE, {}) @@ Tokens(1, 1, 0, 1, 2, 0, 2)}

DeletedSums ==
    {[input |-> 0, output |-> 0, cached |-> 0, read |-> 0, total |-> 0],
     [input |-> 0, output |-> 0, cached |-> 1, read |-> 2, total |-> 3]}
=============================================================================
