------------------------- MODULE SpotPricingProofs --------------------------
(***************************************************************************)
(* What the shared spot price history is good for, for any number of       *)
(* threads, any market and any requests, first fetches that race each      *)
(* other included; and what the loop over it sums up, for any prices.      *)
(***************************************************************************)
EXTENDS SpotPricing, SumTheorems

(* A thread that fetches has put what it has received into the dictionary   *)
(* it will store, which is its own as long as none is kept.                 *)
FetchInv ==
    \A t \in Threads : pc[t] \in {"page", "store"} =>
        /\ prices[t] \in Threads
        /\ spot_prices = None => prices[t] = t
        /\ Relevant(start[t], end[t]) \ todo[t] \subseteq dict[prices[t]]
        /\ pc[t] = "store" => todo[t] = {}

(* What thread t needs of the history is in dictionary h: its period, when  *)
(* it has asked for it, or an entry before its start, when it has not.      *)
Serves(h, t) ==
    /\ fetched[t] => Relevant(start[t], end[t]) \subseteq dict[h]
    /\ ~fetched[t] => \E p \in dict[h] : p < start[t]

(* A thread that is about to read a history that has not been replaced      *)
(* finds what it needs there, and one that has read it has it.              *)
ReadInv ==
    \A t \in Threads :
        /\ pc[t] \in {"read", "sum"} => spot_prices # None
        /\ pc[t] = "sum" => prices[t] \in Threads
        /\ pc[t] = "read" /\ t \notin overtaken => Serves(spot_prices, t)
        /\ pc[t] = "sum" /\ t \notin overtaken => Serves(prices[t], t)

(* Who has asked the API is told by the program point too.                  *)
FetchedInv ==
    \A t \in Threads :
        /\ pc[t] \in {"page", "store"} => fetched[t]
        /\ pc[t] = "check" => ~fetched[t]
        /\ pc[t] = "idle" => ~fetched[t]

SpotInv == TypeOK /\ FetchInv /\ ReadInv /\ FetchedInv

-----------------------------------------------------------------------------
(* The times start at 0, the value of a clean local.                        *)
LEMMA ZeroIsTime == 0 \in Times
  BY SpotAssumption DEF Times

(* A page moves price points from those to be sent to the dictionary, and   *)
(* is the last one when none are left.                                      *)
LEMMA PageEffect ==
    ASSUME NEW t \in Threads, Page(t), TypeOK
    PROVE  \E page \in SUBSET todo[t] :
               /\ dict' = [dict EXCEPT ![prices[t]] = @ \cup page]
               /\ todo' = [todo EXCEPT ![t] = @ \ page]
               /\ \/ pc' = [pc EXCEPT ![t] = "store"] /\ todo[t] = page
                  \/ pc' = [pc EXCEPT ![t] = "page"]
<1>1. PICK oldest \in 0 .. Horizon + 1 :
          LET page == {p \in todo[t] : p >= oldest} IN
          /\ dict' = [dict EXCEPT ![prices[t]] = @ \cup page]
          /\ todo' = [todo EXCEPT ![t] = @ \ page]
          /\ pc' = [pc EXCEPT ![t] = IF todo[t] = page THEN "store" ELSE "page"]
  BY DEF Page
<1> DEFINE page == {p \in todo[t] : p >= oldest}
<1>2. page \in SUBSET todo[t]
  OBVIOUS
<1>3. /\ dict' = [dict EXCEPT ![prices[t]] = @ \cup page]
      /\ todo' = [todo EXCEPT ![t] = @ \ page]
  BY <1>1
<1>4. \/ pc' = [pc EXCEPT ![t] = "store"] /\ todo[t] = page
      \/ pc' = [pc EXCEPT ![t] = "page"]
  BY <1>1
<1> HIDE DEF page
<1> QED
  BY <1>2, <1>3, <1>4

(* The type of every variable is kept by each action.                       *)
LEMMA TypeStep == TypeOK /\ [Next]_spotVars => TypeOK'
<1> SUFFICES ASSUME TypeOK, [Next]_spotVars PROVE TypeOK'
  OBVIOUS
<1> USE SpotAssumption DEF TypeOK, Goto, Points, locals
<1>1. ASSUME NEW t \in Threads, NEW s \in Times, NEW e \in Times, Ask(t, s, e)
      PROVE  TypeOK'
  BY <1>1 DEF Ask
<1>2. ASSUME NEW t \in Threads, Skip(t) PROVE TypeOK'
  BY <1>2 DEF Skip
<1>3. ASSUME NEW t \in Threads, Fetch(t) PROVE TypeOK'
  BY <1>3 DEF Fetch, Relevant
<1>4. ASSUME NEW t \in Threads, Page(t) PROVE TypeOK'
  <2>1. PICK page \in SUBSET todo[t] :
            /\ dict' = [dict EXCEPT ![prices[t]] = @ \cup page]
            /\ todo' = [todo EXCEPT ![t] = @ \ page]
            /\ \/ pc' = [pc EXCEPT ![t] = "store"] /\ todo[t] = page
               \/ pc' = [pc EXCEPT ![t] = "page"]
    BY <1>4, PageEffect
  <2>2. page \in SUBSET changes
    OBVIOUS
  <2>3. dict' \in [Threads -> SUBSET changes]
    BY <2>1, <2>2
  <2>4. todo' \in [Threads -> SUBSET changes]
    BY <2>1
  <2>5. pc' \in [Threads -> Points]
    BY <2>1
  <2> QED
    BY <1>4, <2>3, <2>4, <2>5 DEF Page
<1>5. ASSUME NEW t \in Threads, Store(t) PROVE TypeOK'
  BY <1>5 DEF Store
<1>6. ASSUME NEW t \in Threads, Read(t) PROVE TypeOK'
  BY <1>6 DEF Read
<1>7. ASSUME NEW t \in Threads, Fail(t) \/ Sum(t) PROVE TypeOK'
  <2>1. Forget(t)
    BY <1>7 DEF Fail, Sum
  <2>2. \A u \in Threads :
            (IF u \in InUse(t) THEN dict[u] ELSE {}) \in SUBSET changes
    OBVIOUS
  <2>3. dict' \in [Threads -> SUBSET changes]
    BY <2>1, <2>2 DEF Forget
  <2> QED
    BY <2>1, <2>3, ZeroIsTime DEF Forget
<1>8. CASE UNCHANGED spotVars
  BY <1>8 DEF spotVars
<1> QED
  BY <1>1, <1>2, <1>3, <1>4, <1>5, <1>6, <1>7, <1>8 DEF Next, Step

(* Every variable keeps its type.                                           *)
THEOREM TypeCorrect == Spec => []TypeOK
<1>1. Init => TypeOK
  <2> SUFFICES ASSUME Init PROVE TypeOK
    OBVIOUS
  <2>1. changes \subseteq Times
    BY Zenon DEF Init
  <2> QED
    BY <2>1, ZeroIsTime DEF Init, TypeOK, Points
<1> QED
  BY <1>1, TypeStep, PTL DEF Spec

(* What a request needs of the history depends on the market and on its     *)
(* period only.                                                             *)
LEMMA RelevantStable ==
    ASSUME NEW u \in Threads, changes' = changes,
           start'[u] = start[u], end'[u] = end[u]
    PROVE  Relevant(start[u], end[u])' = Relevant(start[u], end[u])
  BY DEF Relevant, InEffect

(* A dictionary that keeps its price points keeps serving a thread.         *)
LEMMA ServesOn ==
    ASSUME NEW u \in Threads, NEW h, Serves(h, u), dict[h] \subseteq dict'[h],
           changes' = changes, start'[u] = start[u], end'[u] = end[u],
           fetched'[u] = fetched[u]
    PROVE  /\ fetched'[u] => Relevant(start[u], end[u])' \subseteq dict'[h]
           /\ ~fetched'[u] => \E p \in dict'[h] : p < start'[u]
  BY RelevantStable DEF Serves

(* A thread fetches into a dictionary that nobody empties, and reads the one *)
(* it stored or judged unless another thread's store replaced it.           *)
LEMMA SpotStep ==
    ASSUME SpotInv, [Next]_spotVars
    PROVE  SpotInv'
<1> USE DEF Goto, locals
<1>0. TypeOK /\ TypeOK'
  BY TypeStep DEF SpotInv
<1>1. ASSUME NEW t \in Threads, NEW s \in Times, NEW e \in Times, Ask(t, s, e)
      PROVE  SpotInv'
  <2>1. \A u \in Threads \ {t} :
            /\ start'[u] = start[u] /\ end'[u] = end[u]
            /\ Relevant(start[u], end[u])' = Relevant(start[u], end[u])
    BY <1>0, <1>1, RelevantStable DEF Ask, TypeOK
  <2>2. FetchInv'
    BY <1>0, <1>1, <2>1 DEF SpotInv, FetchInv, Ask, TypeOK
  <2>3. ReadInv'
    BY <1>0, <1>1, <2>1 DEF SpotInv, ReadInv, Serves, Ask, TypeOK
  <2>4. FetchedInv'
    BY <1>0, <1>1 DEF SpotInv, FetchedInv, Ask, TypeOK
  <2> QED
    BY <1>0, <2>2, <2>3, <2>4 DEF SpotInv
<1>2. ASSUME NEW t \in Threads, Skip(t) PROVE SpotInv'
  <2>1. \A u \in Threads :
            Relevant(start[u], end[u])' = Relevant(start[u], end[u])
    BY <1>2, RelevantStable DEF Skip
  <2>2. FetchInv'
    BY <1>0, <1>2, <2>1 DEF SpotInv, FetchInv, Skip, TypeOK
  <2>3. \E p \in dict[spot_prices] : p < start[t]
    BY <1>2 DEF Skip, Covers
  <2>4. ReadInv'
    BY <1>0, <1>2, <2>1, <2>3
       DEF SpotInv, ReadInv, Serves, FetchedInv, Skip, TypeOK
  <2>5. FetchedInv'
    BY <1>0, <1>2 DEF SpotInv, FetchedInv, Skip, TypeOK
  <2> QED
    BY <1>0, <2>2, <2>4, <2>5 DEF SpotInv
<1>3. ASSUME NEW t \in Threads, Fetch(t) PROVE SpotInv'
  <2>1. \A u \in Threads :
            Relevant(start[u], end[u])' = Relevant(start[u], end[u])
    BY <1>3, RelevantStable DEF Fetch
  <2>2. /\ todo'[t] = Relevant(start[t], end[t])
        /\ \A u \in Threads \ {t} : todo'[u] = todo[u]
    BY <1>0, <1>3 DEF Fetch, TypeOK
  <2>3. /\ spot_prices' = spot_prices
        /\ prices'[t] \in Threads
        /\ \A u \in Threads \ {t} : prices'[u] = prices[u]
        /\ spot_prices = None => prices'[t] = t
        /\ spot_prices # None => dict' = dict
        /\ \A u \in Threads \ {t} : dict'[u] = dict[u]
    BY <1>0, <1>3, SpotAssumption DEF Fetch, TypeOK
  <2>4. FetchInv'
    BY <1>0, <1>3, <2>1, <2>2, <2>3 DEF SpotInv, FetchInv, Fetch, TypeOK
  <2>5. ReadInv'
    BY <1>0, <1>3, <2>1, <2>3 DEF SpotInv, ReadInv, Serves, Fetch, TypeOK
  <2>6. FetchedInv'
    BY <1>0, <1>3 DEF SpotInv, FetchedInv, Fetch, TypeOK
  <2> QED
    BY <1>0, <2>4, <2>5, <2>6 DEF SpotInv
<1>4. ASSUME NEW t \in Threads, Page(t) PROVE SpotInv'
  <2>1. \A u \in Threads :
            Relevant(start[u], end[u])' = Relevant(start[u], end[u])
    BY <1>4, RelevantStable DEF Page
  <2>2. PICK page \in SUBSET todo[t] :
            /\ dict' = [dict EXCEPT ![prices[t]] = @ \cup page]
            /\ todo' = [todo EXCEPT ![t] = @ \ page]
            /\ \/ pc' = [pc EXCEPT ![t] = "store"] /\ todo[t] = page
               \/ pc' = [pc EXCEPT ![t] = "page"]
    BY <1>0, <1>4, PageEffect
  <2>3. /\ pc[t] = "page" /\ pc'[t] \in {"page", "store"}
        /\ \A u \in Threads \ {t} : pc'[u] = pc[u]
        /\ UNCHANGED <<changes, spot_prices, start, end, prices, fetched, overtaken>>
    BY <1>0, <1>4, <2>2 DEF Page, TypeOK
  <2>4. \A u \in Threads : dict[u] \subseteq dict'[u]
    BY <1>0, <2>2 DEF TypeOK
  <2>5. prices[t] \in Threads /\ dict'[prices[t]] = dict[prices[t]] \cup page
    BY <1>0, <2>2, <2>3 DEF SpotInv, FetchInv, TypeOK
  <2>6. todo'[t] = todo[t] \ page /\ (pc'[t] = "store" => todo'[t] = {})
    BY <1>0, <2>2 DEF TypeOK
  <2>7. \A u \in Threads \ {t} : todo'[u] = todo[u]
    BY <1>0, <2>2 DEF TypeOK
  <2>8. FetchInv'
    <3> SUFFICES ASSUME NEW u \in Threads, pc'[u] \in {"page", "store"}
                 PROVE  /\ prices'[u] \in Threads
                        /\ spot_prices' = None => prices'[u] = u
                        /\ Relevant(start[u], end[u])' \ todo'[u]
                               \subseteq dict'[prices'[u]]
                        /\ pc'[u] = "store" => todo'[u] = {}
      BY DEF FetchInv
    <3>1. CASE u = t
      BY <1>0, <2>1, <2>3, <2>5, <2>6, <3>1 DEF SpotInv, FetchInv
    <3>2. CASE u # t
      BY <1>0, <2>1, <2>3, <2>4, <2>7, <3>2 DEF SpotInv, FetchInv
    <3> QED
      BY <3>1, <3>2
  <2>9. ReadInv'
    <3> SUFFICES ASSUME NEW u \in Threads, pc'[u] \in {"read", "sum"}
                 PROVE  /\ spot_prices' # None
                        /\ pc'[u] = "sum" => prices'[u] \in Threads
                        /\ pc'[u] = "read" /\ u \notin overtaken' =>
                               Serves(spot_prices, u)'
                        /\ pc'[u] = "sum" /\ u \notin overtaken' =>
                               Serves(prices[u], u)'
      BY DEF ReadInv
    <3>1. pc'[u] = pc[u] /\ pc[u] \in {"read", "sum"}
      BY <2>3
    <3>2. spot_prices \in Threads
      BY <1>0, <3>1 DEF SpotInv, ReadInv, TypeOK
    <3>3. ASSUME NEW h \in Threads, Serves(h, u)
          PROVE  /\ fetched'[u] => Relevant(start[u], end[u])' \subseteq dict'[h]
                 /\ ~fetched'[u] => \E p \in dict'[h] : p < start'[u]
      BY <2>3, <2>4, <3>3, ServesOn
    <3>4. /\ spot_prices # None
          /\ pc[u] = "sum" => prices[u] \in Threads
          /\ pc[u] = "read" /\ u \notin overtaken => Serves(spot_prices, u)
          /\ pc[u] = "sum" /\ u \notin overtaken => Serves(prices[u], u)
      BY <3>1 DEF SpotInv, ReadInv
    <3>5. spot_prices' = spot_prices /\ prices' = prices /\ overtaken' = overtaken
      BY <2>3
    <3>6. pc[u] = "read" /\ u \notin overtaken => Serves(spot_prices, u)'
      BY <3>2, <3>3, <3>4, <3>5 DEF Serves
    <3>7. pc[u] = "sum" /\ u \notin overtaken => Serves(prices[u], u)'
      BY <3>3, <3>4, <3>5 DEF Serves
    <3> QED
      BY <3>1, <3>4, <3>5, <3>6, <3>7
  <2>10. FetchedInv'
    BY <1>0, <2>3 DEF SpotInv, FetchedInv, TypeOK
  <2> QED
    BY <1>0, <2>8, <2>9, <2>10 DEF SpotInv
<1>5. ASSUME NEW t \in Threads, Store(t) PROVE SpotInv'
  <2>1. \A u \in Threads :
            Relevant(start[u], end[u])' = Relevant(start[u], end[u])
    BY <1>5, RelevantStable DEF Store
  <2>2. /\ prices[t] \in Threads /\ spot_prices' = prices[t]
        /\ spot_prices' # None
    BY <1>0, <1>5, SpotAssumption DEF SpotInv, FetchInv, Store
  <2>3. FetchInv'
    BY <1>0, <1>5, <2>1, <2>2 DEF SpotInv, FetchInv, Store, TypeOK
  <2>4. Relevant(start[t], end[t]) \subseteq dict[prices[t]] /\ fetched[t]
    BY <1>0, <1>5 DEF SpotInv, FetchInv, FetchedInv, Store
  <2>5. ASSUME NEW u \in Threads, u # t, pc[u] = "read", u \notin overtaken'
        PROVE  spot_prices' = spot_prices /\ u \notin overtaken
    BY <1>5, <2>5 DEF SpotInv, ReadInv, Store
  <2>6. ReadInv'
    BY <1>0, <1>5, <2>1, <2>2, <2>4, <2>5
       DEF SpotInv, ReadInv, Serves, Store, TypeOK
  <2>7. FetchedInv'
    BY <1>0, <1>5 DEF SpotInv, FetchedInv, Store, TypeOK
  <2> QED
    BY <1>0, <2>3, <2>6, <2>7 DEF SpotInv
<1>6. ASSUME NEW t \in Threads, Read(t) PROVE SpotInv'
  <2>1. \A u \in Threads :
            Relevant(start[u], end[u])' = Relevant(start[u], end[u])
    BY <1>6, RelevantStable DEF Read
  <2>2. FetchInv'
    BY <1>0, <1>6, <2>1 DEF SpotInv, FetchInv, Read, TypeOK
  <2>3. ReadInv'
    BY <1>0, <1>6, <2>1 DEF SpotInv, ReadInv, Serves, Read, TypeOK
  <2>4. FetchedInv'
    BY <1>0, <1>6 DEF SpotInv, FetchedInv, Read, TypeOK
  <2> QED
    BY <1>0, <2>2, <2>3, <2>4 DEF SpotInv
<1>7. ASSUME NEW t \in Threads, Fail(t) \/ Sum(t) PROVE SpotInv'
  <2>1. Forget(t)
    BY <1>7 DEF Fail, Sum
  <2>2. /\ pc'[t] = "idle" /\ ~fetched'[t] /\ spot_prices' = spot_prices
        /\ \A u \in Threads \ {t} :
              /\ pc'[u] = pc[u] /\ start'[u] = start[u] /\ end'[u] = end[u]
              /\ prices'[u] = prices[u] /\ todo'[u] = todo[u]
              /\ fetched'[u] = fetched[u]
              /\ u \in overtaken' <=> u \in overtaken
              /\ Relevant(start[u], end[u])' = Relevant(start[u], end[u])
    BY <1>0, <2>1, RelevantStable DEF Forget, TypeOK
  <2>3. /\ spot_prices \in Threads => dict'[spot_prices] = dict[spot_prices]
        /\ \A u \in Threads \ {t} :
              prices[u] \in Threads => dict'[prices[u]] = dict[prices[u]]
    BY <2>1 DEF Forget, InUse
  <2>4. FetchInv'
    BY <1>0, <2>2, <2>3 DEF SpotInv, FetchInv
  <2>5. ReadInv'
    BY <1>0, <2>2, <2>3 DEF SpotInv, ReadInv, Serves, TypeOK
  <2>6. FetchedInv'
    BY <1>0, <2>2 DEF SpotInv, FetchedInv
  <2> QED
    BY <1>0, <2>4, <2>5, <2>6 DEF SpotInv
<1>8. CASE UNCHANGED spotVars
  BY <1>0, <1>8 DEF spotVars, SpotInv, TypeOK, FetchInv, ReadInv, Serves,
                    FetchedInv, Relevant, InEffect
<1> QED
  BY <1>1, <1>2, <1>3, <1>4, <1>5, <1>6, <1>7, <1>8 DEF Next, Step

LEMMA SpotInvariant == Spec => []SpotInv
<1>1. Init /\ TypeOK => SpotInv
  BY DEF Init, SpotInv, FetchInv, ReadInv, FetchedInv
<1>2. SpotInv /\ [Next]_spotVars => SpotInv'
  BY SpotStep
<1> QED
  BY <1>1, <1>2, TypeCorrect, PTL DEF Spec

-----------------------------------------------------------------------------
(* A thread that has asked the API for its period sums up a history that    *)
(* holds all of it, whatever other threads fetch, store or fail to fetch    *)
(* meanwhile; only a first fetch that was raced and stores between its test *)
(* or store and its reading (lines 521, 546 and 551) makes an exception.    *)
THEOREM SumsWhatWasFetched == Spec => []FetchedIsThere
<1>1. SpotInv => FetchedIsThere
  BY DEF SpotInv, ReadInv, Serves, FetchedIsThere
<1> QED
  BY <1>1, SpotInvariant, PTL

(* The sum never falls back on the last price for the time before the first *)
(* one (line 572), fetched or not, with the same exception.                 *)
THEOREM SumStartsInHistory == Spec => []FirstPriceKnown
<1>1. SpotInv => FirstPriceKnown
  <2> SUFFICES ASSUME SpotInv, NEW t \in Threads, t \notin overtaken, pc[t] = "sum",
                      NEW p \in changes, InEffect(p, start[t])
               PROVE  \E q \in dict[prices[t]] : q <= start[t]
    BY DEF FirstPriceKnown
  <2>1. prices[t] \in Threads /\ Serves(prices[t], t)
    BY DEF SpotInv, ReadInv
  <2>2. CASE fetched[t]
    <3>1. p \in Relevant(start[t], end[t])
      BY DEF Relevant
    <3>2. p \in dict[prices[t]] /\ p <= start[t]
      BY <2>1, <2>2, <3>1 DEF Serves, InEffect
    <3> QED
      BY <3>2
  <2>3. CASE ~fetched[t]
    <3>1. PICK q \in dict[prices[t]] : q < start[t]
      BY <2>1, <2>3 DEF Serves
    <3>2. q \in Int /\ start[t] \in Int
      BY <2>1, SpotAssumption DEF SpotInv, TypeOK, Times
    <3> QED
      BY <3>1, <3>2
  <2> QED
    BY <2>2, <2>3
<1> QED
  BY <1>1, SpotInvariant, PTL

(* No step loses a price point of a history that is kept or about to be,    *)
(* and a history that is kept and the only one stays so for good.           *)
THEOREM KeptForGood == Spec => HistoryKept
<1> DEFINE Merges == \A h \in Histories \cap Histories' : dict[h] \subseteq dict'[h]
           Stays == Histories = {spot_prices} => Histories' = Histories
<1>1. SpotInv /\ [Next]_spotVars => Merges
  <2> SUFFICES ASSUME SpotInv, [Next]_spotVars, NEW h \in Histories, h \in Histories'
               PROVE  dict[h] \subseteq dict'[h]
    OBVIOUS
  <2>0. TypeOK /\ h \in Threads
    BY DEF SpotInv, FetchInv, TypeOK, Histories
  <2>1. ASSUME NEW t \in Threads, Fetch(t) PROVE dict[h] \subseteq dict'[h]
    <3>1. spot_prices = None => h # t
      BY <2>1 DEF Histories, SpotInv, FetchInv, Fetch, Goto
    <3> QED
      BY <2>0, <2>1, <3>1 DEF Fetch, TypeOK
  <2>2. ASSUME NEW t \in Threads, Page(t) PROVE dict[h] \subseteq dict'[h]
    <3>1. PICK page \in SUBSET todo[t] :
              dict' = [dict EXCEPT ![prices[t]] = @ \cup page]
      BY <2>0, <2>2, PageEffect
    <3> QED
      BY <2>0, <3>1 DEF TypeOK
  <2>3. ASSUME NEW t \in Threads, Fail(t) \/ Sum(t) PROVE dict[h] \subseteq dict'[h]
    <3>1. Forget(t)
      BY <2>3 DEF Fail, Sum
    <3>2. h \in InUse(t)
      <4>1. pc'[t] = "idle" /\ spot_prices' = spot_prices
            /\ \A u \in Threads \ {t} : prices'[u] = prices[u]
        BY <2>0, <3>1 DEF Forget, TypeOK
      <4>2. \/ h = spot_prices'
            \/ \E u \in Threads : pc'[u] \in {"page", "store"} /\ h = prices'[u]
        BY DEF Histories
      <4> QED
        BY <4>1, <4>2 DEF InUse
    <3> QED
      BY <2>0, <3>1, <3>2 DEF Forget
  <2>4. ASSUME NEW t \in Threads,
               \/ \E s, e \in Times : Ask(t, s, e)
               \/ Skip(t) \/ Store(t) \/ Read(t)
        PROVE  dict[h] \subseteq dict'[h]
    BY <2>4 DEF Ask, Skip, Store, Read
  <2>5. CASE UNCHANGED spotVars
    BY <2>5 DEF spotVars
  <2> QED
    BY <2>1, <2>2, <2>3, <2>4, <2>5 DEF Next, Step
<1>2. SpotInv /\ [Next]_spotVars => Stays
  <2> SUFFICES ASSUME SpotInv, [Next]_spotVars, Histories = {spot_prices}
               PROVE  Histories' = {spot_prices}
    OBVIOUS
  <2>0. TypeOK /\ spot_prices # None /\ spot_prices \in Threads
    <3>1. \A h \in Histories : h # None
      BY SpotAssumption DEF SpotInv, FetchInv, Histories
    <3> QED
      BY <3>1 DEF SpotInv, TypeOK
  <2>1. \A u \in Threads : pc[u] \in {"page", "store"} => prices[u] = spot_prices
    BY DEF Histories
  <2>2. /\ spot_prices' = spot_prices
        /\ \A u \in Threads : pc'[u] \in {"page", "store"} => prices'[u] = spot_prices
    <3> USE <2>0, <2>1 DEF Goto, locals, TypeOK
    <3>1. ASSUME NEW t \in Threads, NEW s \in Times, NEW e \in Times, Ask(t, s, e)
          PROVE  <2>2!1 /\ <2>2!2
      BY <3>1 DEF Ask
    <3>2. ASSUME NEW t \in Threads, Skip(t) \/ Read(t) PROVE <2>2!1 /\ <2>2!2
      BY <3>2 DEF Skip, Read
    <3>3. ASSUME NEW t \in Threads, Fetch(t) PROVE <2>2!1 /\ <2>2!2
      BY <3>3 DEF Fetch
    <3>4. ASSUME NEW t \in Threads, Page(t) PROVE <2>2!1 /\ <2>2!2
      BY <3>4 DEF Page
    <3>5. ASSUME NEW t \in Threads, Store(t) PROVE <2>2!1 /\ <2>2!2
      BY <3>5 DEF Store
    <3>6. ASSUME NEW t \in Threads, Fail(t) \/ Sum(t) PROVE <2>2!1 /\ <2>2!2
      BY <3>6 DEF Fail, Sum, Forget
    <3>7. CASE UNCHANGED spotVars
      BY <3>7 DEF spotVars
    <3> QED
      BY <3>1, <3>2, <3>3, <3>4, <3>5, <3>6, <3>7 DEF Next, Step
  <2>3. \A h : h \in Histories' <=> h = spot_prices
    BY <2>0, <2>2 DEF Histories
  <2> QED
    BY <2>3
<1>3. SpotInv /\ [Next]_spotVars => [Merges /\ Stays]_spotVars
  BY <1>1, <1>2
<1> QED
  BY <1>3, SpotInvariant, PTL DEF Spec, HistoryKept
-----------------------------------------------------------------------------
(* Induction over the natural numbers, with a set for the predicate.        *)
LEMMA NatSetInduction ==
    ASSUME NEW C, 0 \in C, \A m \in Nat : m \in C => m + 1 \in C
    PROVE  Nat \subseteq C
<1> DEFINE Bad == {m \in Nat : m \notin C}
<1>1. CASE Bad # {}
  <2>1. Bad \subseteq Nat
    OBVIOUS
  <2> HIDE DEF Bad
  <2>2. PICK m \in Bad : \A l \in Bad : ~(<<l, m>> \in OpToRel(<, Nat))
    BY <1>1, <2>1, NatLessThanWellFounded, WFMin
  <2>3. \A l \in Bad : ~(l < m)
    <3> SUFFICES ASSUME NEW l \in Bad, l < m PROVE FALSE
      OBVIOUS
    <3>1. <<l, m>> \in OpToRel(<, Nat)
      BY <2>1 DEF OpToRel
    <3> QED
      BY <2>2, <3>1
  <2>4. m \in Nat /\ m \notin C
    BY DEF Bad
  <2>5. m # 0 /\ m - 1 \in Nat /\ m - 1 < m
    BY <2>4
  <2>6. m - 1 \in C
    BY <2>3, <2>5 DEF Bad
  <2> QED
    BY <2>4, <2>5, <2>6
<1> QED
  BY <1>1

(* The keys of a history in order: the position of a key is one more than   *)
(* the number of those before it, and no position is left out.              *)
LEMMA SortedKeys ==
    ASSUME NEW h \in SUBSET Int, IsFiniteSet(h), NEW k, k = Sorted(h),
           NEW n, n = Cardinality(h)
    PROVE  /\ n \in Nat /\ k \in [1 .. n -> h] /\ Len(k) = n
           /\ \A i, j \in 1 .. n : i < j => k[i] < k[j]
           /\ \A p \in h : \E i \in 1 .. n : k[i] = p
<1> DEFINE Before(p) == {x \in h : x < p}
           rank == [p \in h |-> Cardinality(Before(p)) + 1]
<1>1. n \in Nat
  BY FS_CardinalityType
<1>2. ASSUME NEW p \in h
      PROVE  /\ IsFiniteSet(Before(p)) /\ Cardinality(Before(p)) \in Nat
             /\ Cardinality(Before(p)) < n
  <2>1. Before(p) \in SUBSET h /\ Before(p) # h
    OBVIOUS
  <2> HIDE DEF Before
  <2>2. /\ IsFiniteSet(Before(p)) /\ Cardinality(Before(p)) <= n
        /\ Cardinality(Before(p)) # n
    BY <2>1, FS_Subset
  <2> QED
    BY <1>1, <2>2, FS_CardinalityType
<1>3. rank \in [h -> 1 .. n]
  <2> HIDE DEF Before
  <2> QED
    BY <1>1, <1>2
<1>4. ASSUME NEW p \in h, NEW q \in h, p < q PROVE rank[p] < rank[q]
  <2>1. Before(p) \in SUBSET Before(q) /\ p \in Before(q) /\ p \notin Before(p)
    <3>1. p \in Int /\ q \in Int /\ p < q
      BY <1>4
    <3>2. ASSUME NEW x \in h, x < p PROVE x < q
      <4>1. x \in Int
        OBVIOUS
      <4> QED
        BY <3>1, <3>2, <4>1
    <3>3. p \in Before(q) /\ p \notin Before(p)
      BY <3>1
    <3> QED
      BY <3>2, <3>3
  <2> HIDE DEF Before
  <2>2. /\ Cardinality(Before(p)) <= Cardinality(Before(q))
        /\ Cardinality(Before(p)) # Cardinality(Before(q))
    BY <1>2, <2>1, FS_Subset
  <2> QED
    BY <1>2, <2>2
<1> HIDE DEF rank
<1>5. rank \in Injection(h, 1 .. n)
  <2>1. ASSUME NEW p \in h, NEW q \in h, rank[p] = rank[q] PROVE p = q
    <3>1. rank[p] \in Int /\ p \in Int /\ q \in Int
      BY <1>3
    <3>2. ~(p < q) /\ ~(q < p)
      BY <1>4, <2>1, <3>1
    <3> QED
      BY <3>1, <3>2
  <2> QED
    BY <1>3, <2>1 DEF Injection, IsInjective
<1>6. rank \in Surjection(h, 1 .. n)
  <2>1. IsFiniteSet(1 .. n) /\ Cardinality(1 .. n) = n
    BY <1>1, FS_Interval
  <2> QED
    BY <1>5, <2>1, FS_Injection
<1>7. ASSUME NEW i \in 1 .. n PROVE k[i] \in h /\ rank[k[i]] = i
  <2>1. PICK p \in h : rank[p] = i
    BY <1>6 DEF Surjection
  <2>2. k[i] = CHOOSE x \in h : Cardinality(Before(x)) = i - 1
    BY DEF Sorted
  <2>3. \A x \in h : Cardinality(Before(x)) = i - 1 <=> rank[x] = i
    <3> HIDE DEF Before
    <3> QED
      BY <1>2 DEF rank
  <2> HIDE DEF Before
  <2> QED
    BY <2>1, <2>2, <2>3
<1>8. k \in [1 .. n -> h]
  <2>1. k = [i \in 1 .. n |-> CHOOSE x \in h : Cardinality(Before(x)) = i - 1]
    BY Zenon DEF Sorted
  <2>2. DOMAIN k = 1 .. n /\ k = [i \in 1 .. n |-> k[i]]
    BY <2>1, Zenon
  <2> QED
    BY <1>7, <2>2
<1>9. Len(k) = n
  <2>1. k \in Seq(h)
    BY <1>1, <1>8
  <2> QED
    BY <1>1, <1>8, <2>1
<1>10. ASSUME NEW i \in 1 .. n, NEW j \in 1 .. n, i < j PROVE k[i] < k[j]
  <2>1. k[i] \in Int /\ k[j] \in Int /\ rank[k[i]] = i /\ rank[k[j]] = j
    BY <1>7
  <2>2. ~(k[j] < k[i]) /\ k[j] # k[i]
    BY <1>4, <1>7, <1>10, <2>1
  <2> QED
    BY <2>1, <2>2
<1>11. ASSUME NEW p \in h PROVE \E i \in 1 .. n : k[i] = p
  <2>1. rank[p] \in 1 .. n
    BY <1>3
  <2>2. k[rank[p]] \in h /\ rank[k[rank[p]]] = rank[p]
    BY <1>7, <2>1
  <2> QED
    BY <1>5, <2>1, <2>2 DEF Injection, IsInjective
<1> QED
  BY <1>1, <1>8, <1>9, <1>10, <1>11

(* The loop is what it is after no key, and after each key what its body    *)
(* makes of it: the recursion has a solution.                               *)
LEMMA LoopUnfolds ==
    ASSUME NEW k, NEW s, NEW e, NEW n \in Nat, Len(k) = n
    PROVE  /\ Loop(k, s, e)[0] = [sum |-> 0, upto |-> s, returned |-> FALSE]
           /\ \A i \in 1 .. n : Loop(k, s, e)[i] = LoopBody(k, s, e, Loop(k, s, e)[i - 1], i)
<1> DEFINE first == [sum |-> 0, upto |-> s, returned |-> FALSE]
           Turn(f, i) == IF i = 0 THEN first ELSE LoopBody(k, s, e, f[i - 1], i)
           IsLoop(f, m) == f = [i \in 0 .. m |-> Turn(f, i)]
           C == {m \in Nat : \E f : IsLoop(f, m)}
<1>1. Loop(k, s, e) = CHOOSE f : IsLoop(f, n)
  BY Zenon DEF Loop
<1>2. 0 \in C
  <2> DEFINE f == [i \in 0 .. 0 |-> first]
  <2>1. IsLoop(f, 0)
    OBVIOUS
  <2> HIDE DEF f, IsLoop
  <2> QED
    BY <2>1
<1>3. ASSUME NEW m \in Nat, m \in C PROVE m + 1 \in C
  <2>1. PICK f : IsLoop(f, m)
    BY <1>3
  <2> DEFINE g == [i \in 0 .. m + 1 |-> IF i = m + 1 THEN LoopBody(k, s, e, f[m], m + 1) ELSE f[i]]
  <2> HIDE DEF first
  <2>2. \A i \in 0 .. m : f[i] = Turn(f, i)
    BY <2>1
  <2>3. ASSUME NEW i \in 0 .. m + 1 PROVE g[i] = Turn(g, i)
    <3>1. CASE i = 0
      BY <2>2, <3>1
    <3>2. CASE i \in 1 .. m
      <4>1. i - 1 \in 0 .. m /\ i \in 0 .. m /\ i # m + 1 /\ i - 1 # m + 1
        BY <3>2
      <4>2. g[i] = f[i] /\ g[i - 1] = f[i - 1]
        BY <4>1
      <4> HIDE DEF g
      <4> QED
        BY <2>2, <3>2, <4>1, <4>2
    <3>3. CASE i = m + 1
      <4>1. g[i] = LoopBody(k, s, e, f[m], m + 1) /\ g[m] = f[m] /\ i - 1 = m /\ i # 0
        BY <3>3
      <4> HIDE DEF g
      <4> QED
        BY <3>3, <4>1
    <3> QED
      BY <3>1, <3>2, <3>3
  <2>4. g = [i \in 0 .. m + 1 |-> g[i]]
    OBVIOUS
  <2> HIDE DEF g, Turn
  <2>5. g = [i \in 0 .. m + 1 |-> Turn(g, i)]
    BY <2>3, <2>4
  <2> QED
    BY <2>5
<1> HIDE DEF C
<1>4. n \in C
  BY <1>2, <1>3, NatSetInduction
<1> HIDE DEF IsLoop
<1>5. IsLoop(Loop(k, s, e), n)
  BY <1>1, <1>4 DEF C
<1> HIDE DEF first
<1>6. \A i \in 0 .. n : Loop(k, s, e)[i] = Turn(Loop(k, s, e), i)
  BY <1>5 DEF IsLoop
<1>7. 0 \in 0 .. n /\ \A i \in 1 .. n : i \in 0 .. n /\ i # 0
  OBVIOUS
<1> QED
  BY <1>6, <1>7, Zenon DEF first

-----------------------------------------------------------------------------
(* The keys k of the points, in order, n of them.                           *)
Keys(points, k, n) ==
    /\ points \in SUBSET Times /\ n \in Nat
    /\ k \in [1 .. n -> points] /\ Len(k) = n
    /\ \A i, j \in 1 .. n : i < j => k[i] < k[j]
    /\ \A p \in points : \E i \in 1 .. n : k[i] = p

LEMMA KeysSorted ==
    ASSUME NEW points \in SUBSET Times
    PROVE  /\ Keys(points, Sorted(points), Cardinality(points))
           /\ IsFiniteSet(points) /\ Cardinality(points) \in Nat
<1>1. points \in SUBSET Int /\ Times \subseteq Int /\ IsFiniteSet(Times)
  BY SpotAssumption, FS_Interval DEF Times
<1>2. IsFiniteSet(points) /\ Cardinality(points) \in Nat
  BY <1>1, FS_Subset, FS_CardinalityType
<1> QED
  BY <1>1, <1>2, SortedKeys DEF Keys

(* A set of times has a last one.                                           *)
LEMMA LastExists ==
    ASSUME NEW points \in SUBSET Times, points # {}
    PROVE  \E p \in points : \A q \in points : q <= p
<1>1. PICK k, n : Keys(points, k, n)
  BY KeysSorted
<1>2. n \in 1 .. n /\ k[n] \in points
  BY <1>1 DEF Keys
<1>3. ASSUME NEW q \in points PROVE q <= k[n]
  <2>1. PICK i \in 1 .. n : k[i] = q
    BY <1>1 DEF Keys
  <2>2. i = n \/ k[i] < k[n]
    BY <1>1, <1>2 DEF Keys
  <2>3. q \in Int /\ k[n] \in Int
    <3>1. q \in Times /\ k[n] \in Times
      BY <1>2
    <3> QED
      BY <3>1, SpotAssumption DEF Times
  <2> QED
    BY <2>1, <2>2, <2>3
<1> QED
  BY <1>2, <1>3

(* The price in effect.                                                     *)
PriceAt(points) == [x \in Times |-> Price[LastNotAfter(points, x)]]

LEMMA PriceInEffect ==
    ASSUME NEW points \in SUBSET Times, NEW x \in Times, NEW p \in points, p <= x
    PROVE  /\ PriceAt(points)[x] \in Int
           /\ (\A q \in points : q <= x => q <= p) =>
                /\ LastNotAfter(points, x) = p
                /\ PriceAt(points)[x] = Price[p]
<1> DEFINE Is(r) == r <= x /\ \A q \in points : q <= x => q <= r
<1>1. \A q \in points : q \in Int
  BY SpotAssumption DEF Times
<1>2. PICK r \in points : Is(r)
  <2> DEFINE before == {q \in points : q <= x}
  <2>1. before \in SUBSET Times /\ before # {}
    OBVIOUS
  <2> HIDE DEF before
  <2>2. PICK r \in before : \A q \in before : q <= r
    BY <2>1, LastExists
  <2> QED
    BY <2>2 DEF before
<1>3. \A q \in points : Is(q) => q = r
  BY <1>1, <1>2
<1>4. LastNotAfter(points, x) = CHOOSE q \in points : Is(q)
  BY DEF LastNotAfter
<1> HIDE DEF Is
<1>5. LastNotAfter(points, x) = r
  BY <1>2, <1>3, <1>4
<1>6. PriceAt(points)[x] = Price[r] /\ Price[r] \in Int
  BY <1>5, SpotAssumption DEF PriceAt
<1> QED
  BY <1>3, <1>5, <1>6 DEF Is

(* The cost of a period as a sum of one function, and of its parts.         *)
LEMMA CostIsSum ==
    ASSUME NEW points \in SUBSET Times, NEW s \in Times, NEW e \in Times,
           NEW p \in points, p <= s
    PROVE  /\ CostOfPeriod(points, s, e) = SumFunctionOnSet(PriceAt(points), s .. e - 1)
           /\ IsFiniteSet(s .. e - 1) /\ Cardinality(s .. e - 1) = IF s < e THEN e - s ELSE 0
           /\ \A x \in s .. e - 1 : x \in Times /\ p <= x /\ PriceAt(points)[x] \in Int
<1> DEFINE S == s .. e - 1
           f == [x \in S |-> Price[LastNotAfter(points, x)]]
<1>1. s \in Int /\ e \in Int /\ e - 1 \in Int /\ p \in Int
  BY SpotAssumption DEF Times
<1>2. IsFiniteSet(S) /\ Cardinality(S) = IF s < e THEN e - s ELSE 0
  BY <1>1, FS_Interval
<1>3. \A x \in S : x \in Times /\ p <= x
  BY <1>1, SpotAssumption DEF Times
<1>4. \A x \in S : PriceAt(points)[x] \in Int
  BY <1>3, PriceInEffect
<1>5. CostOfPeriod(points, s, e) = SumFunctionOnSet(f, S)
  BY Zenon DEF CostOfPeriod, SumFunction
<1>6. \A x \in S : f[x] = PriceAt(points)[x]
  BY <1>3 DEF PriceAt
<1> HIDE DEF S, f
<1>7. SumFunctionOnSet(f, S) = SumFunctionOnSet(PriceAt(points), S)
  BY <1>2, <1>4, <1>6, SumEqual
<1> QED
  BY <1>2, <1>3, <1>4, <1>5, <1>7 DEF S

LEMMA CostSplits ==
    ASSUME NEW points \in SUBSET Times, NEW s \in Times, NEW m \in Times, NEW e \in Times,
           NEW p \in points, p <= s, s <= m, m <= e
    PROVE  CostOfPeriod(points, s, e) = CostOfPeriod(points, s, m) + CostOfPeriod(points, m, e)
<1> DEFINE f == PriceAt(points)
<1>1. s \in Int /\ m \in Int /\ e \in Int /\ p \in Int
  BY SpotAssumption DEF Times
<1>2. /\ s .. e - 1 = (s .. m - 1) \cup (m .. e - 1)
      /\ (s .. m - 1) \cap (m .. e - 1) = {}
  BY <1>1
<1>3. p <= m
  BY <1>1
<1>4. \A x \in (s .. m - 1) \cup (m .. e - 1) : f[x] \in Int
  BY <1>2, CostIsSum
<1>5. /\ CostOfPeriod(points, s, e) = SumFunctionOnSet(f, s .. e - 1)
      /\ CostOfPeriod(points, s, m) = SumFunctionOnSet(f, s .. m - 1)
      /\ CostOfPeriod(points, m, e) = SumFunctionOnSet(f, m .. e - 1)
      /\ IsFiniteSet(s .. m - 1) /\ IsFiniteSet(m .. e - 1)
  BY <1>3, CostIsSum
<1> HIDE DEF f
<1>6. SumFunctionOnSet(f, (s .. m - 1) \cup (m .. e - 1))
        = SumFunctionOnSet(f, s .. m - 1) + SumFunctionOnSet(f, m .. e - 1)
  BY <1>2, <1>4, <1>5, SumUnion
<1> QED
  BY <1>2, <1>5, <1>6, Zenon

(* From one key on there is one price, up to the next key.                  *)
LEMMA SegmentCost ==
    ASSUME NEW points, NEW k, NEW n, Keys(points, k, n), NEW i \in 1 .. n,
           NEW a \in Times, NEW b \in Times, k[i] <= a, a <= b, i < n => b <= k[i + 1]
    PROVE  CostOfPeriod(points, a, b) = (b - a) * Price[k[i]]
<1> DEFINE f == PriceAt(points)
           p == k[i]
<1>1. points \in SUBSET Times /\ p \in points
  BY DEF Keys
<1>2. a \in Int /\ b \in Int /\ n \in Nat /\ \A q \in points : q \in Int
  BY <1>1, SpotAssumption DEF Times, Keys
<1>3. ASSUME NEW x \in a .. b - 1 PROVE f[x] = Price[p]
  <2>1. x \in Times /\ p <= x
    BY <1>1, CostIsSum
  <2>2. ASSUME NEW q \in points, q <= x PROVE q <= p
    <3>1. PICK j \in 1 .. n : k[j] = q
      BY DEF Keys
    <3>2. CASE j > i
      <4>1. i + 1 \in 1 .. n /\ (j = i + 1 \/ i + 1 < j) /\ b <= k[i + 1]
        BY <1>2, <3>2
      <4>2. k[i + 1] \in points /\ (j = i + 1 \/ k[i + 1] < k[j])
        BY <4>1 DEF Keys
      <4> QED
        BY <1>2, <2>2, <3>1, <4>1, <4>2
    <3>3. CASE j = i
      BY <1>1, <1>2, <3>1, <3>3
    <3>4. CASE j < i
      <4>1. q < p
        BY <3>1, <3>4 DEF Keys
      <4>2. q \in Int /\ p \in Int
        BY <1>1, <1>2
      <4> QED
        BY <4>1, <4>2
    <3> QED
      BY <1>2, <3>2, <3>3, <3>4
  <2>3. \A q \in points : q <= x => q <= p
    BY <2>2
  <2> HIDE DEF p
  <2> QED
    BY <1>1, <2>1, <2>3, PriceInEffect
<1>4. /\ CostOfPeriod(points, a, b) = SumFunctionOnSet(f, a .. b - 1)
      /\ IsFiniteSet(a .. b - 1) /\ Cardinality(a .. b - 1) = b - a
  <2>1. /\ CostOfPeriod(points, a, b) = SumFunctionOnSet(f, a .. b - 1)
        /\ IsFiniteSet(a .. b - 1)
        /\ Cardinality(a .. b - 1) = IF a < b THEN b - a ELSE 0
    BY <1>1, CostIsSum
  <2>2. (IF a < b THEN b - a ELSE 0) = b - a
    BY <1>2
  <2> QED
    BY <2>1, <2>2
<1>5. Price[p] \in Int
  BY <1>1, SpotAssumption
<1> HIDE DEF f, p
<1>6. SumFunctionOnSet(f, a .. b - 1) = Price[p] * (b - a)
  BY <1>3, <1>4, <1>5, SumConstant
<1>7. \A c, d \in Int : c * d = d * c
  OBVIOUS
<1> QED
  BY <1>2, <1>4, <1>5, <1>6, <1>7 DEF p

-----------------------------------------------------------------------------
(* What the loop knows before it comes to key j: it has returned the cost   *)
(* of the period, or has summed up the cost until that key or the one       *)
(* before it, or the start, and the key is no later than the end.           *)
Until(s, x) == IF x < s THEN s ELSE x

AtKey(points, k, n, s, e, loop, j) ==
    /\ loop \in [sum : Int, upto : Int, returned : BOOLEAN]
    /\ loop.returned => loop.sum = CostOfPeriod(points, s, e)
    /\ ~loop.returned =>
        /\ j <= n /\ k[j] <= e
        /\ loop.upto \in Times
        /\ loop.sum = CostOfPeriod(points, s, loop.upto)
        /\ loop.upto = Until(s, k[j]) \/ (j > 1 /\ loop.upto = Until(s, k[j - 1]))

(* A call of the method: a period, and a key no later than its start.       *)
Called(points, k, n, s, e) ==
    /\ Keys(points, k, n) /\ n > 0
    /\ s \in Times /\ e \in Times /\ s < e
    /\ k[1] <= s

LEMMA CalledTypes ==
    ASSUME NEW points, NEW k, NEW n, NEW s, NEW e, Called(points, k, n, s, e)
    PROVE  /\ n \in Nat /\ s \in Int /\ e \in Int /\ points \in SUBSET Times
           /\ \A i \in 1 .. n : k[i] \in points /\ k[i] \in Times /\ k[i] \in Int /\ Price[k[i]] \in Int
           /\ \A i \in 1 .. n : i > 1 => k[i - 1] < k[i]
           /\ \A i \in 1 .. n : i < n => i + 1 \in 1 .. n /\ k[i] < k[i + 1]
           /\ k[1] \in points /\ CostOfPeriod(points, s, s) = 0
           /\ \A x \in Times : CostOfPeriod(points, s, x) \in Int
<1>1. /\ n \in Nat /\ s \in Int /\ e \in Int /\ points \in SUBSET Times
      /\ \A i \in 1 .. n : k[i] \in points
  BY SpotAssumption DEF Called, Keys, Times
<1>2. ASSUME NEW i \in 1 .. n PROVE k[i] \in Times /\ k[i] \in Int /\ Price[k[i]] \in Int
  <2>1. k[i] \in Times
    BY <1>1
  <2>2. Price[k[i]] \in Nat
    BY <2>1, SpotAssumption
  <2> QED
    BY <2>1, <2>2, SpotAssumption DEF Times
<1>3. ASSUME NEW i \in 1 .. n
      PROVE  /\ i > 1 => k[i - 1] < k[i]
             /\ i < n => i + 1 \in 1 .. n /\ k[i] < k[i + 1]
  <2>1. i > 1 => i - 1 \in 1 .. n /\ i - 1 < i
    BY <1>1
  <2>2. i < n => i + 1 \in 1 .. n /\ i < i + 1
    BY <1>1
  <2> QED
    BY <2>1, <2>2 DEF Called, Keys
<1>4. k[1] \in points /\ 1 \in 1 .. n
  BY <1>1 DEF Called
<1>5. CostOfPeriod(points, s, s) = 0
  <2>1. s .. s - 1 = {}
    BY <1>1
  <2>2. CostOfPeriod(points, s, s) = SumFunctionOnSet(PriceAt(points), s .. s - 1)
    BY <1>1, <1>4, CostIsSum DEF Called
  <2> QED
    BY <2>1, <2>2, SumEmpty
<1>6. ASSUME NEW x \in Times PROVE CostOfPeriod(points, s, x) \in Int
  <2>1. /\ CostOfPeriod(points, s, x) = SumFunctionOnSet(PriceAt(points), s .. x - 1)
        /\ IsFiniteSet(s .. x - 1) /\ \A y \in s .. x - 1 : PriceAt(points)[y] \in Int
    BY <1>1, <1>4, CostIsSum DEF Called
  <2> QED
    BY <2>1, SumInt
<1> QED
  BY <1>1, <1>2, <1>3, <1>4, <1>5, <1>6

(* The cost until b, when that until a is known and the price is the same    *)
(* from a to b.                                                             *)
LEMMA CostGrows ==
    ASSUME NEW points, NEW k, NEW n, NEW s, NEW e, Called(points, k, n, s, e),
           NEW i \in 1 .. n, NEW a \in Times, NEW b \in Times,
           s <= a, k[i] <= a, a <= b, i < n => b <= k[i + 1]
    PROVE  /\ CostOfPeriod(points, s, b)
                = CostOfPeriod(points, s, a) + (b - a) * Price[k[i]]
           /\ (b - a) * Price[k[i]] \in Int
<1>1. CostOfPeriod(points, a, b) = (b - a) * Price[k[i]]
  BY SegmentCost DEF Called
<1>2. CostOfPeriod(points, s, b) = CostOfPeriod(points, s, a) + CostOfPeriod(points, a, b)
  BY CalledTypes, CostSplits DEF Called
<1>3. a \in Int /\ b \in Int /\ Price[k[i]] \in Int
  BY CalledTypes, SpotAssumption DEF Times
<1>4. \A c, d \in Int : c * d \in Int
  OBVIOUS
<1>5. b - a \in Int
  BY <1>3
<1> QED
  BY <1>1, <1>2, <1>3, <1>4, <1>5

LEMMA LoopStep ==
    ASSUME NEW points, NEW k, NEW n, NEW s, NEW e, Called(points, k, n, s, e),
           NEW j \in 1 .. n, NEW loop, AtKey(points, k, n, s, e, loop, j)
    PROVE  AtKey(points, k, n, s, e, LoopBody(k, s, e, loop, j), j + 1)
<1> DEFINE C(x) == CostOfPeriod(points, s, x)
           P == Price[k[j]]
           after == LoopBody(k, s, e, loop, j)
           spansStart == j < n /\ k[j] < s /\ s <= k[j + 1]
           segment ==
               IF spansStart
               THEN [loop EXCEPT !.sum = @ + (k[j + 1] - s) * P, !.upto = k[j + 1]]
               ELSE IF k[j] > s
               THEN [loop EXCEPT !.sum = @ + (k[j] - loop.upto) * PriceBeforeKey(k, j),
                                 !.upto = k[j]]
               ELSE loop
           isLast == j = n \/ e < k[j + 1]
<1>1. after = IF loop.returned THEN loop
              ELSE IF spansStart /\ e <= k[j + 1]
              THEN [loop EXCEPT !.sum = (e - s) * P, !.returned = TRUE]
              ELSE IF isLast
              THEN [segment EXCEPT !.sum = @ + (e - segment.upto) * P, !.returned = TRUE]
              ELSE segment
  <2>1. Len(k) = n
    BY DEF Called, Keys
  <2> QED
    BY <2>1 DEF LoopBody
<1>2. /\ n \in Nat /\ j \in Nat /\ s \in Int /\ e \in Int /\ s \in Times /\ e \in Times /\ s < e
      /\ k[j] \in Times /\ k[j] \in Int /\ P \in Int
      /\ j < n => j + 1 \in 1 .. n /\ k[j + 1] \in Times /\ k[j + 1] \in Int /\ k[j] < k[j + 1]
      /\ j > 1 => j - 1 \in 1 .. n /\ k[j - 1] \in Times /\ k[j - 1] \in Int /\ k[j - 1] < k[j]
      /\ k[1] <= s /\ C(s) = 0 /\ \A x \in Times : C(x) \in Int
  <2>1. n \in Nat /\ j \in Nat /\ (j > 1 => j - 1 \in 1 .. n)
    BY CalledTypes
  <2> QED
    BY <2>1, CalledTypes DEF Called
<1> SUFFICES AtKey(points, k, n, s, e, after, j + 1)
  OBVIOUS
<1> HIDE DEF after, C, P
<1>3. CASE loop.returned
  BY <1>1, <1>3 DEF AtKey
<1>4. CASE ~loop.returned
  <2>1. /\ loop \in [sum : Int, upto : Int, returned : BOOLEAN]
        /\ k[j] <= e /\ loop.upto \in Times /\ loop.upto \in Int /\ loop.sum = C(loop.upto)
        /\ loop.upto = Until(s, k[j]) \/ (j > 1 /\ loop.upto = Until(s, k[j - 1]))
    BY <1>4 DEF AtKey, C
  (* The price of key i is that of every moment from it to the next.        *)
  <2>2. ASSUME NEW i \in 1 .. n, NEW a \in Times, NEW b \in Times,
               s <= a, k[i] <= a, a <= b, i < n => b <= k[i + 1]
        PROVE  C(b) = C(a) + (b - a) * Price[k[i]] /\ (b - a) * Price[k[i]] \in Int
    BY <2>2, CostGrows DEF C
  <2>3. CASE spansStart
    <3>1. loop.upto = s /\ loop.sum = 0
      BY <1>2, <2>1, <2>3 DEF Until
    <3>2. CASE e <= k[j + 1]
      <4>1. C(e) = C(s) + (e - s) * P /\ (e - s) * P \in Int
        BY <1>2, <2>2, <2>3, <3>2 DEF P
      <4>2. after = [loop EXCEPT !.sum = (e - s) * P, !.returned = TRUE]
        BY <1>1, <1>4, <2>3, <3>2
      <4>3. PICK x \in Int : x = (e - s) * P
        BY <4>1
      <4>4. x = C(e)
        BY <1>2, <4>1, <4>3
      <4>5. after = [loop EXCEPT !.sum = x, !.returned = TRUE]
        BY <4>2, <4>3
      <4> QED
        BY <2>1, <4>4, <4>5 DEF AtKey, C
    <3>3. CASE ~(e <= k[j + 1])
      <4>1. /\ C(k[j + 1]) = C(s) + (k[j + 1] - s) * P /\ (k[j + 1] - s) * P \in Int
        BY <1>2, <2>2, <2>3 DEF P
      <4>2. after = [loop EXCEPT !.sum = @ + (k[j + 1] - s) * P, !.upto = k[j + 1]]
        BY <1>1, <1>2, <1>4, <2>3, <3>3
      <4>3. k[j + 1] = Until(s, k[j + 1]) /\ j + 1 <= n /\ k[j + 1] <= e
        BY <1>2, <2>3, <3>3 DEF Until
      <4> QED
        BY <1>2, <1>4, <2>1, <2>3, <3>1, <4>1, <4>2, <4>3 DEF AtKey, C
    <3> QED
      BY <3>2, <3>3
  <2>4. CASE ~spansStart
    <3>1. /\ segment \in [sum : Int, upto : Int, returned : BOOLEAN] /\ ~segment.returned
          /\ segment.upto = Until(s, k[j]) /\ segment.sum = C(segment.upto)
      <4>1. CASE k[j] > s
        <5>1. j > 1 /\ PriceBeforeKey(k, j) = Price[k[j - 1]]
          BY <1>2, <4>1 DEF PriceBeforeKey
        <5>2. s <= loop.upto /\ k[j - 1] <= loop.upto /\ loop.upto <= k[j]
          BY <1>2, <2>1, <4>1, <5>1 DEF Until
        <5>3. /\ C(k[j]) = C(loop.upto) + (k[j] - loop.upto) * Price[k[j - 1]]
              /\ (k[j] - loop.upto) * Price[k[j - 1]] \in Int
          <6>1. j - 1 \in 1 .. n /\ j - 1 + 1 = j
            BY <1>2, <5>1
          <6> QED
            BY <1>2, <2>1, <2>2, <5>2, <6>1
        <5>4. segment = [loop EXCEPT !.sum = @ + (k[j] - loop.upto) * Price[k[j - 1]],
                                     !.upto = k[j]]
          BY <2>4, <4>1, <5>1
        <5>5. k[j] = Until(s, k[j])
          BY <1>2, <4>1 DEF Until
        <5> HIDE DEF segment
        <5> QED
          BY <1>2, <1>4, <2>1, <5>3, <5>4, <5>5
      <4>2. CASE ~(k[j] > s)
        <5>1. segment = loop /\ loop.upto = s /\ Until(s, k[j]) = s
          BY <1>2, <2>1, <2>4, <4>2 DEF Until
        <5> QED
          BY <1>4, <2>1, <5>1
      <4> QED
        BY <4>1, <4>2
    <3>2. after = IF isLast
                  THEN [segment EXCEPT !.sum = @ + (e - segment.upto) * P, !.returned = TRUE]
                  ELSE segment
      BY <1>1, <1>4, <2>4
    <3>3. /\ segment.upto \in Times /\ s <= segment.upto /\ k[j] <= segment.upto
          /\ segment.upto <= e
      BY <1>2, <2>1, <3>1 DEF Until
    <3> HIDE DEF segment
    <3>4. CASE isLast
      <4>1. j < n => e <= k[j + 1]
        BY <1>2, <3>4
      <4>2. C(e) = C(segment.upto) + (e - segment.upto) * P /\ (e - segment.upto) * P \in Int
        BY <1>2, <2>2, <3>3, <4>1 DEF P
      <4>3. after = [segment EXCEPT !.sum = @ + (e - segment.upto) * P, !.returned = TRUE]
        BY <3>2, <3>4
      <4> QED
        BY <1>2, <3>1, <4>2, <4>3 DEF AtKey, C
    <3>5. CASE ~isLast
      <4>1. after = segment /\ j < n /\ k[j + 1] <= e
        BY <1>2, <3>2, <3>5
      <4>2. j + 1 <= n /\ j + 1 > 1 /\ segment.upto = Until(s, k[j + 1 - 1])
        BY <1>2, <3>1, <4>1
      <4> QED
        BY <1>2, <3>1, <3>3, <4>1, <4>2 DEF AtKey, C
    <3> QED
      BY <3>4, <3>5
  <2> QED
    BY <2>3, <2>4
<1> QED
  BY <1>3, <1>4

(* The method computes the sum of the prices in effect, of a history with a *)
(* price for the start of the period.                                       *)
LEMMA EstimateIsCost ==
    ASSUME NEW h \in SUBSET Times, NEW s \in Times, NEW e \in Times, s < e,
           NEW p \in h, p <= s
    PROVE  Estimate(h, s, e) = CostOfPeriod(h, s, e)
<1> DEFINE k == Sorted(h)
           n == Cardinality(h)
           loop == Loop(k, s, e)
           C == {j \in Nat : j <= n => AtKey(h, k, n, s, e, loop[j], j + 1)}
<1>1. Keys(h, k, n) /\ IsFiniteSet(h) /\ n \in Nat
  BY KeysSorted
<1>2. h # {} /\ n > 0
  BY <1>1, FS_EmptySet
<1>3. Len(k) = n
  BY <1>1 DEF Keys
<1>4. Estimate(h, s, e) = IF n = 1 THEN (e - s) * Price[k[1]] ELSE loop[n].sum
  BY <1>2, <1>3 DEF Estimate
<1> HIDE DEF k, n, loop
<1>5. Called(h, k, n, s, e)
  <2>1. PICK i \in 1 .. n : k[i] = p
    BY <1>1 DEF Keys
  <2>2. i = 1 \/ k[1] < k[i]
    BY <1>1, <1>2, <2>1 DEF Keys
  <2>3. k[1] \in Int /\ k[i] \in Int /\ s \in Int
    <3>1. k[1] \in Times /\ k[i] \in Times
      BY <1>1, <1>2, <2>1 DEF Keys
    <3> QED
      BY <3>1, SpotAssumption DEF Times
  <2>4. k[1] <= s
    BY <2>1, <2>2, <2>3
  <2> QED
    BY <1>1, <1>2, <2>4 DEF Called
<1>6. CASE n = 1
  <2>1. CostOfPeriod(h, s, e) = (e - s) * Price[k[1]]
    <3>1. 1 \in 1 .. n /\ ~(1 < n) /\ k[1] <= s /\ s <= e
      BY <1>5, <1>6, CalledTypes DEF Called
    <3> QED
      BY <1>1, <3>1, SegmentCost
  <2> QED
    BY <1>4, <1>6, <2>1
<1>7. CASE n # 1
  <2>1. loop[0] = [sum |-> 0, upto |-> s, returned |-> FALSE]
    BY <1>1, <1>3, LoopUnfolds DEF loop
  <2>2. \A j \in 1 .. n : loop[j] = LoopBody(k, s, e, loop[j - 1], j)
    BY <1>1, <1>3, LoopUnfolds DEF loop
  <2>3. 0 \in C
    <3>1. /\ n \in Nat /\ 1 <= n /\ s \in Int /\ e \in Int /\ s < e /\ s \in Times
          /\ k[1] \in Int /\ k[1] <= s /\ CostOfPeriod(h, s, s) = 0
      BY <1>1, <1>2, <1>5, CalledTypes DEF Called
    <3>2. s = Until(s, k[1]) /\ k[1] <= e
      BY <3>1 DEF Until
    <3>3. AtKey(h, k, n, s, e, loop[0], 1)
      BY <2>1, <3>1, <3>2 DEF AtKey
    <3> QED
      BY <3>3
  <2>4. ASSUME NEW j \in Nat, j \in C PROVE j + 1 \in C
    <3> SUFFICES ASSUME j + 1 <= n PROVE AtKey(h, k, n, s, e, loop[j + 1], j + 1 + 1)
      OBVIOUS
    <3>1. AtKey(h, k, n, s, e, loop[j], j + 1)
      BY <1>1, <2>4
    <3>2. j + 1 \in 1 .. n /\ j + 1 - 1 = j
      BY <1>1
    <3>3. loop[j + 1] = LoopBody(k, s, e, loop[j], j + 1)
      BY <2>2, <3>2
    <3> QED
      BY <1>5, <3>1, <3>2, <3>3, LoopStep
  <2> HIDE DEF C
  <2>5. n \in C
    BY <1>1, <2>3, <2>4, NatSetInduction
  <2>6. AtKey(h, k, n, s, e, loop[n], n + 1)
    BY <1>1, <2>5 DEF C
  <2>7. loop[n].sum = CostOfPeriod(h, s, e)
    BY <1>1, <2>6 DEF AtKey
  <2> QED
    BY <1>4, <1>7, <2>7
<1> QED
  BY <1>6, <1>7

(* It is that of the market, if the history has what is relevant of it.     *)
LEMMA RelevantIsEnough ==
    ASSUME TypeOK, NEW h \in SUBSET changes, NEW s \in Times, NEW e \in Times, s <= e,
           Relevant(s, e) \subseteq h, NEW p \in changes, p <= s
    PROVE  /\ CostOfPeriod(h, s, e) = CostOfPeriod(changes, s, e)
           /\ \E q \in h : q <= s
<1>1. /\ changes \in SUBSET Times /\ h \in SUBSET Times /\ s \in Int /\ e \in Int
      /\ \A q \in changes : q \in Int
  BY SpotAssumption DEF TypeOK, Times
<1>2. ASSUME NEW x \in Times, s <= x, x <= e
      PROVE  \E r \in h : r <= x /\ \A q \in changes : q <= x => q <= r
  <2> DEFINE before == {q \in changes : q <= x}
  <2>0. x \in Int
    BY SpotAssumption DEF Times
  <2>1. before \in SUBSET Times /\ p \in before
    <3>1. p \in Int /\ p <= x
      BY <1>1, <1>2, <2>0
    <3> QED
      BY <1>1, <3>1
  <2> HIDE DEF before
  <2>2. PICK r \in before : \A q \in before : q <= r
    BY <2>1, LastExists
  <2>3. r \in changes /\ r <= x /\ \A q \in changes : q <= x => q <= r
    BY <2>2 DEF before
  <2>4. r \in Relevant(s, e)
    <3>1. CASE r <= s
      BY <1>1, <1>2, <2>0, <2>3, <3>1 DEF Relevant, InEffect
    <3>2. CASE s < r
      BY <1>1, <1>2, <2>0, <2>3, <3>2 DEF Relevant
    <3> QED
      BY <1>1, <2>3, <3>1, <3>2
  <2> QED
    BY <2>3, <2>4
<1> QED
  <2>1. PICK r \in h : r <= s
    BY <1>1, <1>2
  <2>2. /\ CostOfPeriod(h, s, e) = SumFunctionOnSet(PriceAt(h), s .. e - 1)
        /\ CostOfPeriod(changes, s, e) = SumFunctionOnSet(PriceAt(changes), s .. e - 1)
        /\ IsFiniteSet(s .. e - 1)
        /\ \A x \in s .. e - 1 : x \in Times /\ PriceAt(h)[x] \in Int
    BY <1>1, <2>1, CostIsSum
  <2>3. ASSUME NEW x \in s .. e - 1 PROVE PriceAt(h)[x] = PriceAt(changes)[x]
    <3>1. x \in Times /\ s <= x /\ x <= e
      BY <1>1, <2>2
    <3>2. PICK q \in h : q <= x /\ \A l \in changes : l <= x => l <= q
      BY <1>2, <3>1
    <3>3. q \in changes /\ \A l \in h : l <= x => l <= q
      BY <3>2
    <3>4. PriceAt(h)[x] = Price[q]
      BY <1>1, <3>1, <3>2, <3>3, PriceInEffect
    <3>5. PriceAt(changes)[x] = Price[q]
      BY <1>1, <3>1, <3>2, <3>3, PriceInEffect
    <3> QED
      BY <3>4, <3>5
  <2>4. SumFunctionOnSet(PriceAt(h), s .. e - 1) = SumFunctionOnSet(PriceAt(changes), s .. e - 1)
    BY <2>2, <2>3, SumEqual
  <2> QED
    BY <2>1, <2>2, <2>4

(* A thread in the method has a period.                                     *)
PeriodInv == \A t \in Threads : pc[t] # "idle" => start[t] < end[t]

LEMMA PeriodHolds == Spec => []PeriodInv
<1>1. Init => PeriodInv
  BY DEF Init, PeriodInv
<1>2. TypeOK /\ PeriodInv /\ [Next]_spotVars => PeriodInv'
  <2> SUFFICES ASSUME TypeOK, PeriodInv, [Next]_spotVars PROVE PeriodInv'
    OBVIOUS
  <2> USE DEF TypeOK, PeriodInv, Goto, locals
  <2>1. ASSUME NEW t \in Threads, NEW s \in Times, NEW e \in Times, Ask(t, s, e)
        PROVE  PeriodInv'
    BY <2>1 DEF Ask
  <2>2. ASSUME NEW t \in Threads, Skip(t) \/ Fetch(t) \/ Page(t) \/ Store(t) \/ Read(t)
        PROVE  PeriodInv'
    BY <2>2 DEF Skip, Fetch, Page, Store, Read
  <2>3. ASSUME NEW t \in Threads, Fail(t) \/ Sum(t) PROVE PeriodInv'
    BY <2>3 DEF Fail, Sum, Forget
  <2>4. CASE UNCHANGED spotVars
    BY <2>4 DEF spotVars
  <2> QED
    BY <2>1, <2>2, <2>3, <2>4 DEF Next, Step
<1> QED
  BY <1>1, <1>2, TypeCorrect, PTL DEF Spec

(* What a thread sums up after it has asked the API for its period is the   *)
(* price in effect at every moment of it, however many older and newer price *)
(* points the history holds by then, and wherever they fall                 *)
(* (estimator.py:548-579), whatever other threads do; excepted are threads  *)
(* whose history was replaced before they read it.                          *)
THEOREM SumsExactly == Spec => []FetchedIsExact
<1>1. SpotInv /\ PeriodInv => FetchedIsExact
  <2> SUFFICES ASSUME SpotInv, PeriodInv, NEW t \in Threads, t \notin overtaken,
                      pc[t] = "sum", fetched[t],
                      NEW p \in changes, p <= start[t]
               PROVE  Estimate(dict[prices[t]], start[t], end[t])
                        = CostOfPeriod(changes, start[t], end[t])
    BY DEF FetchedIsExact
  <2>1. PICK h \in SUBSET changes : h = dict[prices[t]] /\ Relevant(start[t], end[t]) \subseteq h
    BY DEF SpotInv, ReadInv, Serves, TypeOK
  <2>2. PICK s \in Times, e \in Times : s = start[t] /\ e = end[t] /\ s < e
    BY DEF SpotInv, TypeOK, PeriodInv
  <2>3. h \in SUBSET Times /\ s <= e
    BY <2>2, SpotAssumption DEF SpotInv, TypeOK, Times
  <2>4. /\ CostOfPeriod(h, s, e) = CostOfPeriod(changes, s, e)
        /\ \E q \in h : q <= s
    BY <2>1, <2>2, <2>3, RelevantIsEnough DEF SpotInv
  <2>5. Estimate(h, s, e) = CostOfPeriod(h, s, e)
    BY <2>2, <2>3, <2>4, EstimateIsCost
  <2> QED
    BY <2>1, <2>2, <2>4, <2>5
<1> QED
  BY <1>1, SpotInvariant, PeriodHolds, PTL
=============================================================================
