---------------------------- MODULE PromQueries -----------------------------
(***************************************************************************)
(* The queries of TsdbUtils on the `up` samples of the node exporters, as  *)
(* arithmetic on the time a target was scraped.  One unit of time is one   *)
(* scrape; a target is scraped at every point of first .. last.  Epoch     *)
(* seconds are positive, and 0 is what the code makes of no answer.        *)
(***************************************************************************)
EXTENDS Integers

CONSTANT Hour  \* 3600 seconds, in scrapes

ASSUME HourAssumption == Hour \in Nat \ {0}

(* Variant: whole hours, rounded down.                                     *)
FloorLookback(start, end) ==
    IF start > end THEN 168 * Hour
    ELSE IF end - start <= Hour THEN Hour
    ELSE Hour * ((end - start) \div Hour)

(* The window of an instant query: whole hours, rounded up; '1w' for a     *)
(* range that ends before it starts.                                       *)
get_lookback(start, end) ==
    IF start > end THEN 168 * Hour
    ELSE IF end - start <= Hour THEN Hour
    ELSE Hour * ((end - start + Hour - 1) \div Hour)

(* A query `...[lookback]` at time `end` sees the samples of the left-open  *)
(* interval (end - lookback, end].                                          *)
WindowStart(start, end) == end - get_lookback(start, end) + 1

Later(a, b)   == IF a > b THEN a ELSE b
Earlier(a, b) == IF a < b THEN a ELSE b

Scraped(s, from, to) == s.first <= to /\ from <= s.last

(* tfirst_over_time, tlast_over_time; 0 for an empty answer.               *)
TFirst(s, start, end) ==
    IF Scraped(s, WindowStart(start, end), end)
    THEN Later(s.first, WindowStart(start, end)) ELSE 0
TLast(s, start, end) ==
    IF Scraped(s, WindowStart(start, end), end)
    THEN Earlier(s.last, end) ELSE 0

(* Label values of [start, end]: each label with a sample in the range, and *)
(* perhaps others that the database keeps for the same days ("preceding     *)
(* label values call not always precise").  `spans` maps label to span.     *)
get_label_values(spans, start, end) ==
    LET certain == {x \in DOMAIN spans : Scraped(spans[x], start, end)}
        near    == {x \in DOMAIN spans : spans[x].first <= end}
    IN  {certain \cup more : more \in SUBSET (near \ certain)}
=============================================================================
