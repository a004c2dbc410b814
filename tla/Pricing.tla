------------------------------ MODULE Pricing ------------------------------
(***************************************************************************)
(* Model prices: two tables (a price per model, multiplier rules that      *)
(* belong to a price) and the catalog, an immutable compiled snapshot that *)
(* every cost calculation of the process reads through one atomic pointer. *)
(* A change runs under a mutex: one transaction writes the tables and      *)
(* compiles the whole candidate, and after the commit the candidate        *)
(* replaces the snapshot.  A request pins one snapshot for its answer.     *)
(* Floating-point overflow is `above Finite`; the token counts of a        *)
(* request are bounded by MaxTokens, as int64 bounds them in the code.     *)
(***************************************************************************)
EXTENDS Integers, FiniteSets

CONSTANTS Model,        \* names of priced models
          Field, Value, \* the dimensions a rule may test and their values
          PriceInput,   \* [price, mult] a client may submit
          RuleInput,    \* sets of [field, value, mult] a client may submit
          ListPrice,    \* prices of the public price list, or Unlisted
          Finite,       \* the largest finite amount
          MaxTokens,    \* the largest token count of one request
          PWriter, PReader, \* requests that change prices, that calculate
          MaxChanges, MaxPCrashes

VARIABLES prices,    \* Model -> submitted price or NoPrice   (committed)
          rules,     \* Model -> set of rules                 (committed)
          catalog,   \* the published snapshot and the commit it stems from
          pmutex,    \* the request that holds mutationMu, or Free
          pwriter,   \* requests that change prices
          resolver,  \* PReader -> the snapshot pinned by the request
          commits,   \* commits so far                        (history)
          answered,  \* the newest commit a client was told of (history)
          changes, pcrashes

pvars == <<prices, rules, catalog, pmutex, pwriter, resolver, commits,
           answered, changes, pcrashes>>

NoPrice == [price |-> -1, mult |-> -1]
Unlisted == -1
Free == "free"
Idle == [pc |-> "idle"]
NoSnapshot == [version |-> -1]

-----------------------------------------------------------------------------
(* Compilation *)

MaxOf(S) == CHOOSE x \in S : \A y \in S : y <= x

SameTest(r, s) == r.field = s.field /\ r.value = s.value

PriceValid(p) == p.price >= 0 /\ p.mult >= 0

RulesValid(rs) == \A r, s \in rs : SameTest(r, s) => r = s

\* The largest multiplier of the rules of a field; at least 1, for a request
\* that none of them matches.
MaxByField(rs, f) == MaxOf({1} \cup {r.mult : r \in {s \in rs : s.field = f}})

\* The product of the multipliers that g gives to the fields.
Product(g) ==
  LET P[S \in SUBSET DOMAIN g] == IF S = {} THEN 1
                                  ELSE LET f == CHOOSE x \in S : TRUE
                                       IN g[f] * P[S \ {f}]
  IN P[DOMAIN g]

LargestRuleOnly(p, rs) ==
  \/ p.mult = 0
  \/ LET all == MaxOf({1} \cup {r.mult : r \in rs})
     IN /\ all <= Finite /\ p.mult * all <= Finite
        /\ p.price * MaxTokens <= Finite
        /\ p.price * MaxTokens * p.mult * all <= Finite

WorstCaseIsFinite(p, rs) ==
  \/ p.mult = 0
  \/ LET all == Product([f \in Field |-> MaxByField(rs, f)])
     IN /\ all <= Finite /\ p.mult * all <= Finite
        /\ p.price * MaxTokens <= Finite
        /\ p.price * MaxTokens * p.mult * all <= Finite

\* A rule with multiplier 1 changes nothing and is not compiled.
CompiledRules(rs) == {r \in rs : r.mult # 1}

CompileSnapshot(ps, rs) ==
  [m \in {x \in Model : ps[x] # NoPrice} |->
     [price |-> ps[m].price, mult |-> ps[m].mult, rules |-> CompiledRules(rs[m])]]

Compiles(ps, rs) ==
  \A m \in Model : ps[m] # NoPrice =>
     RulesValid(rs[m]) /\ WorstCaseIsFinite(ps[m], CompiledRules(rs[m]))

Snapshot(v, ps, rs) == [version |-> v, models |-> CompileSnapshot(ps, rs)]

Init == /\ prices = [m \in Model |-> NoPrice]
        /\ rules = [m \in Model |-> {}]
        /\ catalog = Snapshot(0, prices, rules)
        /\ pmutex = Free
        /\ pwriter = [w \in PWriter |-> Idle]
        /\ resolver = [r \in PReader |-> NoSnapshot]
        /\ commits = 0 /\ answered = 0 /\ changes = 0 /\ pcrashes = 0

-----------------------------------------------------------------------------
(* Calculation *)

\* What a request with dimensions d matches: its model, then its alias.
MatchModel(s, d) == IF d.model \in DOMAIN s.models THEN {d.model}
                    ELSE {d.alias} \cap DOMAIN s.models

\* Of the rules of one model at most one tests a field against the value the
\* request has there.
MatchingMultiplier(rs, d) ==
  LET hit(f) == {r.mult : r \in {s \in rs : s.field = f /\ s.value = d.dims[f]}}
  IN Product([f \in Field |-> IF hit(f) = {} THEN 1 ELSE MaxOf(hit(f))])

\* The cost of t tokens: none where no price applies.
Calculate(s, d, t) ==
  LET cost(m) == IF s.models[m].mult = 0 THEN 0
                 ELSE s.models[m].price * t * s.models[m].mult
                        * MatchingMultiplier(s.models[m].rules, d)
  IN {cost(m) : m \in MatchModel(s, d)}

-----------------------------------------------------------------------------
(* Changes *)

\* PreviewPricingSync reads only; what it shows is submitted later, or not.
\* Which of the entries that match a model comes first is left open: it shows
\* some price of the public list, and nothing for a model that has none.
PreviewPricingSync(w, m, price) ==
  /\ pwriter[w] = Idle /\ changes < MaxChanges
  /\ price # Unlisted
  /\ pwriter' = [pwriter EXCEPT ![w] =
                   [pc |-> "preview", models |-> {m}, input |-> [price |-> price, mult |-> 1]]]
  /\ UNCHANGED <<prices, rules, catalog, pmutex, resolver, commits, answered,
                 changes, pcrashes>>

ApplyPreview(w) ==
  /\ pwriter[w].pc = "preview"
  /\ pwriter' = [pwriter EXCEPT ![w].pc = "update"]
  /\ changes' = changes + 1
  /\ UNCHANGED <<prices, rules, catalog, pmutex, resolver, commits, answered, pcrashes>>

\* A request is validated before it waits for the mutex: a model may occur
\* once in a batch, prices and multipliers are not negative.
Submit(w, kind, ms, p, rs) ==
  /\ pwriter[w] = Idle /\ changes < MaxChanges
  /\ \/ kind = "update" /\ ms # {} /\ PriceValid(p) /\ rs = {}
     \/ kind = "delete" /\ Cardinality(ms) = 1 /\ p = NoPrice /\ rs = {}
     \/ /\ kind = "rules" /\ Cardinality(ms) = 1 /\ p = NoPrice
        /\ RulesValid(rs) /\ \A r \in rs : r.mult >= 0
  /\ pwriter' = [pwriter EXCEPT ![w] = [pc |-> kind, models |-> ms,
                                        input |-> IF kind = "rules" THEN rs ELSE p]]
  /\ changes' = changes + 1
  /\ UNCHANGED <<prices, rules, catalog, pmutex, resolver, commits, answered, pcrashes>>

\* The callback of the transaction on the two tables; deleting a price
\* deletes its rules (ON DELETE CASCADE).
Written(o) ==
  [prices |-> [m \in Model |-> IF m \notin o.models \/ o.pc = "rules" THEN prices[m]
                               ELSE IF o.pc = "delete" THEN NoPrice ELSE o.input],
   rules |-> [m \in Model |-> IF m \notin o.models \/ o.pc = "update" THEN rules[m]
                              ELSE IF o.pc = "delete" THEN {} ELSE o.input]]

Accepted(o) ==
  /\ o.pc = "rules" => \A m \in o.models : prices[m] # NoPrice
  /\ Compiles(Written(o).prices, Written(o).rules)

CommitAndUnlock(w) ==
  LET o == pwriter[w]
      t == Written(o)
  IN /\ o.pc \in {"update", "delete", "rules"} /\ pmutex = Free
     /\ Accepted(o)
     /\ prices' = t.prices /\ rules' = t.rules
     /\ commits' = commits + 1
     /\ pwriter' = [pwriter EXCEPT ![w] =
                      [pc |-> "publish", candidate |-> Snapshot(commits', t.prices, t.rules)]]
     /\ UNCHANGED <<catalog, pmutex, resolver, answered, changes, pcrashes>>

\* Transaction: the writes, the candidate and the commit, under the mutex.
Commit(w) ==
  LET o == pwriter[w]
      t == Written(o)
  IN /\ o.pc \in {"update", "delete", "rules"} /\ pmutex = Free
     /\ Accepted(o)
     /\ pmutex' = w
     /\ prices' = t.prices /\ rules' = t.rules
     /\ commits' = commits + 1
     /\ pwriter' = [pwriter EXCEPT ![w] =
                      [pc |-> "publish", candidate |-> Snapshot(commits', t.prices, t.rules)]]
     /\ UNCHANGED <<catalog, resolver, answered, changes, pcrashes>>

\* The transaction fails: a rule of a missing price, a candidate that does
\* not compile, an error of the database or the end of the request.
RollBack(w) ==
  /\ pwriter[w].pc \in {"update", "delete", "rules"} /\ pmutex = Free
  /\ pwriter' = [pwriter EXCEPT ![w] = Idle]
  /\ UNCHANGED <<prices, rules, catalog, pmutex, resolver, commits, answered,
                 changes, pcrashes>>

\* Replace, the release of the mutex and the answer.
Publish(w) ==
  /\ pwriter[w].pc = "publish"
  /\ catalog' = pwriter[w].candidate
  /\ answered' = IF pwriter[w].candidate.version > answered
                 THEN pwriter[w].candidate.version ELSE answered
  /\ pmutex' = Free
  /\ pwriter' = [pwriter EXCEPT ![w] = Idle]
  /\ UNCHANGED <<prices, rules, resolver, commits, changes, pcrashes>>

\* A request takes a resolver once and calculates every cost with it.
NewResolver(r) ==
  /\ resolver' = [resolver EXCEPT ![r] = IF @ = NoSnapshot THEN catalog ELSE NoSnapshot]
  /\ UNCHANGED <<prices, rules, catalog, pmutex, pwriter, commits, answered,
                 changes, pcrashes>>

\* The process ends and starts again: the tables remain.
CrashAndLoad ==
  /\ pcrashes < MaxPCrashes
  /\ pcrashes' = pcrashes + 1
  /\ catalog' = Snapshot(commits, prices, rules)
  /\ pmutex' = Free
  /\ pwriter' = [w \in PWriter |-> Idle]
  /\ resolver' = [r \in PReader |-> NoSnapshot]
  /\ UNCHANGED <<prices, rules, commits, answered, changes>>

Next ==
  \/ \E w \in PWriter, m \in Model, x \in ListPrice : PreviewPricingSync(w, m, x)
  \/ \E w \in PWriter : ApplyPreview(w) \/ Commit(w) \/ RollBack(w) \/ Publish(w)
  \/ \E w \in PWriter, ms \in SUBSET Model, p \in PriceInput : Submit(w, "update", ms, p, {})
  \/ \E w \in PWriter, m \in Model : Submit(w, "delete", {m}, NoPrice, {})
  \/ \E w \in PWriter, m \in Model, rs \in RuleInput : Submit(w, "rules", {m}, NoPrice, rs)
  \/ \E r \in PReader : NewResolver(r)
  \/ CrashAndLoad

Spec == Init /\ [][Next]_pvars

-----------------------------------------------------------------------------
(* Properties *)

\* A client that was told its change is done finds it in every answer from
\* then on: the published snapshot is never older than the newest change
\* that was answered, and with no change under way it is exactly what the
\* tables say.  Two commits published in the other order, or a candidate
\* published for a transaction that did not commit, would break it.
CatalogFollowsCommits ==
  /\ catalog.version >= answered
  /\ pmutex = Free => catalog = Snapshot(commits, prices, rules)

Subject == [model : Model \cup {"unpriced"}, alias : Model, dims : [Field -> Value]]

\* No request, whatever its model, alias and dimensions, costs an amount that
\* is not finite under a published snapshot: the worst case that the
\* compilation bounds (one maximum per field, rules of multiplier 1 left out,
\* nothing checked where the price multiplier is 0) covers every calculation.
CostsAreFinite ==
  \A s \in {catalog} \cup {resolver[r] : r \in PReader} :
    s # NoSnapshot =>
      \A d \in Subject : \A c \in Calculate(s, d, MaxTokens) : c <= Finite
=============================================================================
