---------------------------- MODULE SpotEstimate ----------------------------
(***************************************************************************)
(* SpotPricing.estimate_price_for_period as a function of the price points *)
(* of the history, next to what it is to compute: the sum, over every unit *)
(* of the period, of the price in effect.  A price point is its timestamp, *)
(* Price gives its price.                                                  *)
(***************************************************************************)
EXTENDS Integers, FiniteSets, Sequences, Functions

CONSTANT Price

(* sorted(prices.keys()): each is after as many others as come before it.   *)
Sorted(history) ==
    [i \in 1 .. Cardinality(history) |->
        CHOOSE p \in history : Cardinality({q \in history : q < p}) = i - 1]

(* Variant: a segment is charged at the price that ends it.                 *)
PriceAtKey(k, i) == Price[k[i]]

(* prices[sorted_price_timestamps[key_id - 1]]: before the first key, that  *)
(* is the last one.                                                         *)
PriceBeforeKey(k, i) == Price[k[IF i = 1 THEN Len(k) ELSE i - 1]]

(* The loop over the sorted timestamps.  `sum` is summed_price, `upto` is   *)
(* summed_until_timestamp.                                                  *)
LoopBody(k, s, e, loop, i) ==
    LET n == Len(k)
        spansStart == i < n /\ k[i] < s /\ s <= k[i + 1]
        segment ==
            IF spansStart
            THEN [loop EXCEPT !.sum = @ + (k[i + 1] - s) * Price[k[i]],
                              !.upto = k[i + 1]]
            ELSE IF k[i] > s
            THEN [loop EXCEPT !.sum = @ + (k[i] - loop.upto) * PriceBeforeKey(k, i),
                              !.upto = k[i]]
            ELSE loop
        isLast == i = n \/ e < k[i + 1]
    IN  IF loop.returned THEN loop
        ELSE IF spansStart /\ e <= k[i + 1]
        THEN [loop EXCEPT !.sum = (e - s) * Price[k[i]], !.returned = TRUE]
        ELSE IF isLast
        THEN [segment EXCEPT !.sum = @ + (e - segment.upto) * Price[k[i]],
                             !.returned = TRUE]
        ELSE segment

Loop(k, s, e) ==
    LET loop[i \in 0 .. Len(k)] ==
            IF i = 0 THEN [sum |-> 0, upto |-> s, returned |-> FALSE]
            ELSE LoopBody(k, s, e, loop[i - 1], i)
    IN  loop

Estimate(history, s, e) ==
    LET k == Sorted(history) IN
    CASE history = {} -> 0
      [] Cardinality(history) = 1 -> (e - s) * Price[k[1]]
      [] OTHER -> Loop(k, s, e)[Len(k)].sum

(* The reference: the price in effect at x is that of the last price point  *)
(* not after x.                                                             *)
LastNotAfter(points, x) ==
    CHOOSE p \in points : p <= x /\ \A q \in points : q <= x => q <= p

CostOfPeriod(points, s, e) ==
    SumFunction([x \in s .. e - 1 |-> Price[LastNotAfter(points, x)]])
=============================================================================
