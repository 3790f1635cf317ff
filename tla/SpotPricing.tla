---------------------------- MODULE SpotPricing -----------------------------
(***************************************************************************)
(* SpotPricing, the spot price history that an EmrCostEstimator keeps for  *)
(* one instance type in one availability zone, and the cost of an instance *)
(* it derives from it.  The threads of the server share the history:       *)
(* `prices` in _populate_missing_prices is the dictionary that is already  *)
(* kept when there is one, and a new one, stored at the end, when not.     *)
(*                                                                         *)
(* Time is a number of units; MaxGap of them make up the "one day one      *)
(* hour" of the code, so that a difference below 25 hours is one of at     *)
(* most MaxGap units.  A price point is its timestamp: Price gives its     *)
(* price.  What AWS has to say about later times than a request asks for   *)
(* is left out of the answer, so that no clock is needed.                  *)
(***************************************************************************)
EXTENDS SpotEstimate

CONSTANTS
    Threads,          \* the worker threads that price spot instances
    Horizon,          \* bound: the last point in time
    MaxGap,           \* the longest time without a price point
    PagesFail,        \* TRUE: a call for a page may fail
    None              \* no history is kept yet

Times == 0 .. Horizon

ASSUME SpotAssumption ==
    /\ Horizon \in Nat
    /\ MaxGap \in Nat
    /\ Price \in [Times -> Nat]
    /\ PagesFail \in BOOLEAN
    /\ None \notin Threads

VARIABLES
    changes,      \* the market's price points
    dict,         \* dict[t]: the dictionary that thread t created
    spot_prices,  \* the thread whose dictionary self.spot_prices holds
    pc,           \* where each thread is in estimate_price_for_period
    start, end,   \* the instance's start_time and end_time
    prices,       \* the thread whose dictionary the local `prices` is
    todo,         \* the price points the API has yet to send
    fetched,      \* whether the thread has asked the API, for the properties
    overtaken     \* threads whose history was replaced before they read it,
                  \* for the properties too

locals   == <<start, end, prices, todo, fetched>>
spotVars == <<changes, dict, spot_prices, pc, locals, overtaken>>

Points == {"idle", "check", "page", "store", "read", "sum"}

Goto(t, from, to) == pc[t] = from /\ pc' = [pc EXCEPT ![t] = to]

(* The API sends the price points of the interval asked for and the one in *)
(* effect at its start.                                                    *)
InEffect(p, x) == p <= x /\ \A q \in changes : q <= x => q <= p

(* Variant: the end of the interval is taken for a price point.             *)
RelevantAndEnd(s, e) == {p \in changes : s <= p /\ p <= e} \cup {e}

Relevant(s, e) ==
    {p \in changes : InEffect(p, s)} \cup {p \in changes : s < p /\ p <= e}

(* A price point at most every 25 hours, as line 539 expects of the API,   *)
(* from the time its history reaches back to.                              *)
Expected(points) ==
    \A x \in Times : (\E p \in points : p < x) =>
        \E p \in points : p < x /\ x - p <= MaxGap

Init ==
    /\ changes \in {points \in SUBSET Times : Expected(points)}
    /\ dict = [t \in Threads |-> {}]
    /\ spot_prices = None
    /\ pc = [t \in Threads |-> "idle"]
    /\ start = [t \in Threads |-> 0]
    /\ end = [t \in Threads |-> 0]
    /\ prices = [t \in Threads |-> None]
    /\ todo = [t \in Threads |-> {}]
    /\ fetched = [t \in Threads |-> FALSE]
    /\ overtaken = {}

-----------------------------------------------------------------------------
(* An instance of the type is to be priced, from its creation to its        *)
(* termination or to the present.                                           *)
Ask(t, s, e) ==
    /\ s < e
    /\ Goto(t, "idle", "check")
    /\ start' = [start EXCEPT ![t] = s]
    /\ end' = [end EXCEPT ![t] = e]
    /\ UNCHANGED <<changes, dict, spot_prices, prices, todo, fetched, overtaken>>

(* Variant: looks at the last entry only.                                   *)
CoversEnd(h, s, e) == \A p \in h : (\A q \in h : q <= p) => e - p <= MaxGap

(* "end time at most 25 hours after last entry and start time after first   *)
(* entry => relevant dates already present" (line 521).                     *)
Covers(h, s, e) ==
    /\ \A p \in h : (\A q \in h : q <= p) => e - p <= MaxGap
    /\ \E p \in h : p < s

Skip(t) ==
    /\ Goto(t, "check", "read")
    /\ spot_prices # None /\ dict[spot_prices] # {}
    /\ Covers(dict[spot_prices], start[t], end[t])
    /\ UNCHANGED <<changes, dict, spot_prices, locals, overtaken>>

(* Variant: the history asked for replaces the one that is kept.            *)
FetchAnew(t) ==
    /\ Goto(t, "check", "page")
    /\ spot_prices # None => ~Covers(dict[spot_prices], start[t], end[t])
    /\ prices' = [prices EXCEPT ![t] = t]
    /\ dict' = [dict EXCEPT ![t] = {}]
    /\ todo' = [todo EXCEPT ![t] = Relevant(start[t], end[t])]
    /\ fetched' = [fetched EXCEPT ![t] = TRUE]
    /\ UNCHANGED <<changes, spot_prices, start, end, overtaken>>

(* The first page of the history is asked for, into the dictionary that is  *)
(* kept or, when there is none, into a new one.                             *)
Fetch(t) ==
    /\ Goto(t, "check", "page")
    /\ \/ /\ spot_prices # None /\ dict[spot_prices] # {}
          /\ ~Covers(dict[spot_prices], start[t], end[t])
          /\ prices' = [prices EXCEPT ![t] = spot_prices]
          /\ UNCHANGED dict
       \/ /\ spot_prices = None
          /\ prices' = [prices EXCEPT ![t] = t]
          /\ dict' = [dict EXCEPT ![t] = {}]
    /\ todo' = [todo EXCEPT ![t] = Relevant(start[t], end[t])]
    /\ fetched' = [fetched EXCEPT ![t] = TRUE]
    /\ UNCHANGED <<changes, spot_prices, start, end, overtaken>>

(* Variant: the first page is the last, whatever its NextToken.             *)
OnePage(t) ==
    /\ pc[t] = "page"
    /\ \E oldest \in 0 .. Horizon + 1 :
        dict' = [dict EXCEPT ![prices[t]] =
                    @ \cup {p \in todo[t] : p >= oldest}]
    /\ Goto(t, "page", "store")
    /\ UNCHANGED <<changes, spot_prices, locals, overtaken>>

(* A page holds the newest price points not sent yet, or nothing; its       *)
(* NextToken is empty when there is none left.                              *)
Page(t) ==
    /\ pc[t] = "page"
    /\ \E oldest \in 0 .. Horizon + 1 :
        LET page == {p \in todo[t] : p >= oldest} IN
        /\ dict' = [dict EXCEPT ![prices[t]] = @ \cup page]
        /\ todo' = [todo EXCEPT ![t] = @ \ page]
        /\ pc' = [pc EXCEPT ![t] = IF todo[t] = page THEN "store" ELSE "page"]
    /\ UNCHANGED <<changes, spot_prices, start, end, prices, fetched, overtaken>>

(* The store replaces the history that is kept when another thread has      *)
(* stored its own since this one found none: whoever is between the test or *)
(* its store and line 551 then reads a history it knows nothing of.         *)
Store(t) ==
    /\ Goto(t, "store", "read")
    /\ spot_prices' = prices[t]
    /\ overtaken' = IF spot_prices \in {None, prices[t]}
                    THEN overtaken
                    ELSE overtaken \cup {u \in Threads : pc[u] = "read"}
    /\ UNCHANGED <<changes, dict, locals>>

(* prices = self.spot_prices[(inst_type, avail_zone)]                       *)
Read(t) ==
    /\ Goto(t, "read", "sum")
    /\ prices' = [prices EXCEPT ![t] = spot_prices]
    /\ UNCHANGED <<changes, dict, spot_prices, start, end, todo, fetched, overtaken>>

(* The dictionaries that are referred to when thread t's call has ended; any *)
(* other is freed.                                                          *)
InUse(t) == {spot_prices} \cup {prices[u] : u \in Threads \ {t}}

Forget(t) ==
    /\ pc' = [pc EXCEPT ![t] = "idle"]
    /\ start' = [start EXCEPT ![t] = 0]
    /\ end' = [end EXCEPT ![t] = 0]
    /\ prices' = [prices EXCEPT ![t] = None]
    /\ todo' = [todo EXCEPT ![t] = {}]
    /\ fetched' = [fetched EXCEPT ![t] = FALSE]
    /\ overtaken' = overtaken \ {t}
    /\ dict' = [u \in Threads |-> IF u \in InUse(t) THEN dict[u] ELSE {}]
    /\ UNCHANGED <<changes, spot_prices>>

(* A call of the API fails, or the history that is kept has no last key:    *)
(* _get_ec2_cost counts 0.0 for the instance; what earlier pages have put   *)
(* into a dictionary that is kept stays there.                              *)
Fail(t) ==
    /\ \/ PagesFail /\ pc[t] = "page"
       \/ pc[t] = "check" /\ spot_prices # None /\ dict[spot_prices] = {}
    /\ Forget(t)

(* The price is summed up from one reading of the keys, and returned.       *)
Sum(t) ==
    /\ pc[t] = "sum"
    /\ Forget(t)

-----------------------------------------------------------------------------
Step(t) ==
    \/ Skip(t) \/ Fetch(t) \/ Page(t) \/ Store(t) \/ Read(t)
    \/ Fail(t) \/ Sum(t)

Next ==
    \E t \in Threads :
        \/ \E s, e \in Times : Ask(t, s, e)
        \/ Step(t)

Spec == Init /\ [][Next]_spotVars

-----------------------------------------------------------------------------
(* Every variable holds a value of its kind (SpotPricing.spot_prices and    *)
(* the locals of its two methods).                                          *)
TypeOK ==
    /\ changes \subseteq Times
    /\ dict \in [Threads -> SUBSET changes]
    /\ spot_prices \in Threads \cup {None}
    /\ pc \in [Threads -> Points]
    /\ start \in [Threads -> Times]
    /\ end \in [Threads -> Times]
    /\ prices \in [Threads -> Threads \cup {None}]
    /\ todo \in [Threads -> SUBSET changes]
    /\ fetched \in [Threads -> BOOLEAN]
    /\ overtaken \subseteq Threads

(* A thread that has asked the API for its period and gets to the sum finds *)
(* every price point of the period in the history it sums up, whatever      *)
(* other threads fetch, store or fail to fetch meanwhile, first fetches     *)
(* included: only a store that replaces the history just before the thread  *)
(* reads it (lines 546 and 551) can cost it any.                            *)
FetchedIsThere ==
    \A t \in Threads \ overtaken : pc[t] = "sum" /\ fetched[t] =>
        Relevant(start[t], end[t]) \subseteq dict[prices[t]]

(* So its estimate is exact: the price in effect, summed over the period,   *)
(* however many older and newer price points the history has by now         *)
(* (test_multi_segments tries three histories).                             *)
FetchedIsExact ==
    \A t \in Threads \ overtaken :
        pc[t] = "sum" /\ fetched[t] /\ (\E p \in changes : p <= start[t]) =>
            Estimate(dict[prices[t]], start[t], end[t])
                = CostOfPeriod(changes, start[t], end[t])

(* The sum never reads the price before the first one, which would be the   *)
(* last one of the list (line 572), while the market had a price when the   *)
(* instance started; whether the thread has asked the API or found its      *)
(* period present, unless its history was replaced before it read it.       *)
FirstPriceKnown ==
    \A t \in Threads \ overtaken :
        pc[t] = "sum" /\ (\E p \in changes : InEffect(p, start[t])) =>
            \E p \in dict[prices[t]] : p <= start[t]

(* The dictionaries that are kept or about to be: two, when two threads     *)
(* found none.                                                              *)
Histories ==
    {prices[t] : t \in {u \in Threads : pc[u] \in {"page", "store"}}}
        \cup ({spot_prices} \ {None})

(* Fetches merge: a dictionary that is kept or about to be never loses a    *)
(* price point.  And once the one that is kept is the only one, it is kept  *)
(* for good: first fetches cannot replace each other's histories again.     *)
HistoryKept ==
    [][/\ \A h \in Histories \cap Histories' : dict[h] \subseteq dict'[h]
       /\ Histories = {spot_prices} => Histories' = Histories]_spotVars

(* What line 521 says of the test of line 520: when nothing is fetched, the *)
(* price points that matter for the period are present, here of a period    *)
(* that ends no later than the history does.                                *)
SkipMeansPresent ==
    \A t \in Threads :
        pc[t] = "sum" /\ ~fetched[t] /\ (\E p \in dict[prices[t]] : end[t] <= p) =>
            Relevant(start[t], end[t] - 1) \subseteq dict[prices[t]]
=============================================================================
