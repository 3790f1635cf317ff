---------------------------- MODULE RegionSwitch ----------------------------
(***************************************************************************)
(* The region switch of the Grafana backend: the global `active_region` of *)
(* main.py, the region block that main_loop and return_variable share, and *)
(* Inject.reinitialize, which swaps the AWS clients and the price lists.   *)
(*                                                                         *)
(* FastAPI runs the `def` endpoints on a thread pool, every request gets   *)
(* the one module-level `injection` object, and nothing is locked.  Each   *)
(* thread is therefore stepped at the grain of one access to a shared      *)
(* name: `self.client_emr = boto3.client(..., self.current_region)` reads  *)
(* current_region in one step and assigns client_emr in a later one.       *)
(*                                                                         *)
(* A client or a price list is represented by the region it was made for.  *)
(* close_aws_clients is no step: a closed boto client reopens its          *)
(* connection pool on the next call, so closing changes nothing that a     *)
(* later step reads.                                                       *)
(***************************************************************************)
CONSTANTS
    Regions,        \* the regions of the dashboards' drop-down list
    Threads,        \* the worker threads that serve requests
    Platform,       \* ACTIVE_PLATFORM: "AWS_EMR" or "AWS_DBX"
    FaultyRegions,  \* the regions whose client or price list may fail to load
    PatientUser,    \* TRUE: the drop-down changes only between page loads
    NoClient        \* stands for the AWS clients that AWS_DBX does not have

ASSUME RegionsAssumption ==
    /\ Platform \in {"AWS_EMR", "AWS_DBX"}
    /\ FaultyRegions \subseteq Regions
    /\ PatientUser \in BOOLEAN
    /\ NoClient \notin Regions

VARIABLES
    dashboard,       \* the region selected in the Grafana drop-down
    active_region,   \* main.py's global
    current_region,  \* Inject.current_region
    client_emr,      \* Inject.client_emr
    client_ec2,      \* Inject.client_ec2
    calc,            \* Inject.calc, the price estimator in use
    pc,              \* where each thread is in its handler
    sel,             \* selected_region, from the request's payload
    arg,             \* the selected_region argument of reinitialize
    tmp,             \* the region a client constructor was called with
    built,           \* the arguments of the estimator being constructed
    used,            \* the estimators that the panel has looked up so far
    early            \* the panel did not switch, but another thread was on it

inject  == <<current_region, client_emr, client_ec2, calc>>
locals  == <<sel, arg, tmp, built>>
panel   == <<used, early>>
regionVars == <<dashboard, active_region, inject, pc, locals, panel>>

(* EmrCostEstimator(emr_client, ec2_client, region); DbxPricing(region) has *)
(* no clients.                                                              *)
Client    == Regions \cup {NoClient}
Estimator == [emr : Client, ec2 : Client, prices : Regions]
ClientOf(r) == IF Platform = "AWS_EMR" THEN r ELSE NoClient
EstimatorOf(r) == [emr |-> ClientOf(r), ec2 |-> ClientOf(r), prices |-> r]

(* The program points of the region block and of reinitialize, in order.   *)
Reinitializing == {"call", "guard", "setCurrent", "readEmr", "setEmr",
                   "readEc2", "setEc2", "argEmr", "argEc2", "argRegion",
                   "setCalc"}
Points == {"idle", "check", "setActive", "serve"} \cup Reinitializing

(* What stands in the locals of a thread that serves no request.            *)
NoRegion == CHOOSE r \in Regions : TRUE

Goto(t, from, to) == pc[t] = from /\ pc' = [pc EXCEPT ![t] = to]

Init ==
    /\ dashboard \in Regions
    /\ \E r \in Regions :
        /\ active_region = r
        /\ current_region = r
        /\ client_emr = ClientOf(r)
        /\ client_ec2 = ClientOf(r)
        /\ calc = EstimatorOf(r)
    /\ sel = [t \in Threads |-> NoRegion]
    /\ arg = [t \in Threads |-> NoRegion]
    /\ tmp = [t \in Threads |-> NoRegion]
    /\ built = [t \in Threads |-> EstimatorOf(NoRegion)]
    /\ pc = [t \in Threads |-> "idle"]
    /\ used = [t \in Threads |-> {}]
    /\ early = [t \in Threads |-> FALSE]

-----------------------------------------------------------------------------
(* The Grafana user picks a region.  A patient user waits for the panels of *)
(* the page to load first; any other user, or a second one, does not.       *)
SelectRegion(r) ==
    /\ PatientUser => \A t \in Threads : pc[t] = "idle"
    /\ dashboard' = r
    /\ UNCHANGED <<active_region, inject, pc, locals, panel>>

(* A panel or a variable query arrives, with the region of its dashboard.   *)
Request(t) ==
    /\ Goto(t, "idle", "check")
    /\ sel' = [sel EXCEPT ![t] = dashboard]
    /\ UNCHANGED <<dashboard, active_region, inject, arg, tmp, built, panel>>

(* A guard lets a panel through without a switch of its own.                *)
PassBy(t, from) ==
    /\ Goto(t, from, "serve")
    /\ early' = [early EXCEPT ![t] =
                    \E u \in Threads \ {t} : pc[u] \in Reinitializing]

CheckActive(t) ==
    /\ \/ active_region = sel[t] /\ PassBy(t, "check")
       \/ active_region # sel[t] /\ Goto(t, "check", "setActive")
          /\ UNCHANGED early
    /\ UNCHANGED <<dashboard, active_region, inject, locals, used>>

SetActive(t) ==
    /\ Goto(t, "setActive", "call")
    /\ active_region' = sel[t]
    /\ UNCHANGED <<dashboard, inject, locals, panel>>

(* inj.reinitialize(active_region) reads the global again.                  *)
CallReinitialize(t) ==
    /\ Goto(t, "call", "guard")
    /\ arg' = [arg EXCEPT ![t] = active_region]
    /\ UNCHANGED <<dashboard, active_region, inject, sel, tmp, built, panel>>

(* Variant: the guard compares with the global that was just assigned.      *)
GuardOnActive(t) ==
    /\ \/ arg[t] = active_region /\ PassBy(t, "guard")
       \/ arg[t] # active_region /\ Goto(t, "guard", "setCurrent")
          /\ UNCHANGED early
    /\ UNCHANGED <<dashboard, active_region, inject, locals, used>>

ReinitializeGuard(t) ==
    /\ \/ arg[t] = current_region /\ PassBy(t, "guard")
       \/ arg[t] # current_region /\ Goto(t, "guard", "setCurrent")
          /\ UNCHANGED early
    /\ UNCHANGED <<dashboard, active_region, inject, locals, used>>

SetCurrent(t) ==
    /\ Goto(t, "setCurrent",
            IF Platform = "AWS_EMR" THEN "readEmr" ELSE "argRegion")
    /\ current_region' = arg[t]
    /\ UNCHANGED <<dashboard, active_region, client_emr, client_ec2, calc,
                   locals, panel>>

(* boto3.client('emr', region_name=self.current_region), then the store.    *)
ReadRegionForEmr(t) ==
    /\ Goto(t, "readEmr", "setEmr")
    /\ tmp' = [tmp EXCEPT ![t] = current_region]
    /\ UNCHANGED <<dashboard, active_region, inject, sel, arg, built, panel>>

(* Variant: the estimator's client is replaced before its price list is.    *)
SetClientInPlace(t) ==
    /\ Goto(t, "setEmr", "readEc2")
    /\ client_emr' = tmp[t]
    /\ calc' = [calc EXCEPT !.emr = tmp[t]]
    /\ UNCHANGED <<dashboard, active_region, current_region, client_ec2,
                   locals, panel>>

SetClientEmr(t) ==
    /\ Goto(t, "setEmr", "readEc2")
    /\ client_emr' = tmp[t]
    /\ UNCHANGED <<dashboard, active_region, current_region, client_ec2, calc,
                   locals, panel>>

ReadRegionForEc2(t) ==
    /\ Goto(t, "readEc2", "setEc2")
    /\ tmp' = [tmp EXCEPT ![t] = current_region]
    /\ UNCHANGED <<dashboard, active_region, inject, sel, arg, built, panel>>

(* Variant: the EC2 client is not made anew.                                *)
KeepClientEc2(t) ==
    /\ Goto(t, "setEc2", "argEmr")
    /\ UNCHANGED <<dashboard, active_region, inject, locals, panel>>

SetClientEc2(t) ==
    /\ Goto(t, "setEc2", "argEmr")
    /\ client_ec2' = tmp[t]
    /\ UNCHANGED <<dashboard, active_region, current_region, client_emr, calc,
                   locals, panel>>

(* The three arguments of EmrCostEstimator are three reads of self.         *)
ReadArgEmr(t) ==
    /\ Goto(t, "argEmr", "argEc2")
    /\ built' = [built EXCEPT ![t].emr = client_emr]
    /\ UNCHANGED <<dashboard, active_region, inject, sel, arg, tmp, panel>>

ReadArgEc2(t) ==
    /\ Goto(t, "argEc2", "argRegion")
    /\ built' = [built EXCEPT ![t].ec2 = client_ec2]
    /\ UNCHANGED <<dashboard, active_region, inject, sel, arg, tmp, panel>>

ReadArgRegion(t) ==
    /\ Goto(t, "argRegion", "setCalc")
    /\ built' = [built EXCEPT ![t].prices = current_region]
    /\ UNCHANGED <<dashboard, active_region, inject, sel, arg, tmp, panel>>

(* Variant: the new estimator is made but not installed.                    *)
KeepCalc(t) ==
    /\ Goto(t, "setCalc", "serve")
    /\ UNCHANGED <<dashboard, active_region, inject, locals, panel>>

(* Variant: the region is assigned where the estimator belongs.             *)
SetCalcToRegion(t) ==
    /\ Goto(t, "setCalc", "serve")
    /\ calc' = current_region
    /\ UNCHANGED <<dashboard, active_region, current_region, client_emr,
                   client_ec2, locals, panel>>

SetCalc(t) ==
    /\ Goto(t, "setCalc", "serve")
    /\ calc' = built[t]
    /\ UNCHANGED <<dashboard, active_region, current_region, client_emr,
                   client_ec2, locals, panel>>

(* The locals of a handler that returns.                                    *)
LocalsGone(t) ==
    /\ sel' = [sel EXCEPT ![t] = NoRegion]
    /\ arg' = [arg EXCEPT ![t] = NoRegion]
    /\ tmp' = [tmp EXCEPT ![t] = NoRegion]
    /\ built' = [built EXCEPT ![t] = EstimatorOf(NoRegion)]
    /\ used' = [used EXCEPT ![t] = {}]
    /\ early' = [early EXCEPT ![t] = FALSE]

(* Variant: the handler of the exception takes back the global alone.       *)
RaiseAndRestore(t) ==
    /\ \/ pc[t] \in {"setEmr", "setEc2"} /\ tmp[t] \in FaultyRegions
       \/ pc[t] = "setCalc" /\ built[t].prices \in FaultyRegions
    /\ pc' = [pc EXCEPT ![t] = "idle"]
    /\ active_region' = calc.prices
    /\ LocalsGone(t)
    /\ UNCHANGED <<dashboard, inject>>

(* A constructor raises (unknown region, unreadable price file): main_loop  *)
(* logs it and answers with no rows, return_variable fails; neither undoes  *)
(* what the block has assigned so far.                                      *)
Raise(t) ==
    /\ \/ pc[t] \in {"setEmr", "setEc2"} /\ tmp[t] \in FaultyRegions
       \/ pc[t] = "setCalc" /\ built[t].prices \in FaultyRegions
    /\ pc' = [pc EXCEPT ![t] = "idle"]
    /\ LocalsGone(t)
    /\ UNCHANGED <<dashboard, active_region, inject>>

(* The rest of the handler looks inj.calc up on its own, once per cluster   *)
(* that it has no cost of, or once per price (main.py:118).                 *)
Lookup(t) ==
    /\ pc[t] = "serve"
    /\ used' = [used EXCEPT ![t] = @ \cup {calc}]
    /\ UNCHANGED <<dashboard, active_region, inject, pc, locals, early>>

Answer(t) ==
    /\ Goto(t, "serve", "idle")
    /\ LocalsGone(t)
    /\ UNCHANGED <<dashboard, active_region, inject>>

-----------------------------------------------------------------------------
Switch(t) ==
    \/ CheckActive(t) \/ SetActive(t)
    \/ CallReinitialize(t) \/ ReinitializeGuard(t) \/ SetCurrent(t)
    \/ ReadRegionForEmr(t) \/ SetClientEmr(t)
    \/ ReadRegionForEc2(t) \/ SetClientEc2(t)
    \/ ReadArgEmr(t) \/ ReadArgEc2(t) \/ ReadArgRegion(t) \/ SetCalc(t)
    \/ Raise(t)

RegionBlock(t) == Request(t) \/ Switch(t)

Next ==
    \/ \E r \in Regions : SelectRegion(r)
    \/ \E t \in Threads : RegionBlock(t) \/ Lookup(t) \/ Answer(t)

Spec == Init /\ [][Next]_regionVars

(* A thread that runs a handler is scheduled until it is done; users owe    *)
(* the server neither requests nor selections.                              *)
FairSpec ==
    Spec /\ \A t \in Threads : WF_regionVars(Switch(t) \/ Answer(t))

-----------------------------------------------------------------------------
(* Every variable holds a value of its kind (Inject's attributes, main.py's *)
(* global and the handlers' locals).                                        *)
TypeOK ==
    /\ dashboard \in Regions
    /\ active_region \in Regions
    /\ current_region \in Regions
    /\ client_emr \in Client
    /\ client_ec2 \in Client
    /\ calc \in Estimator
    /\ pc \in [Threads -> Points]
    /\ sel \in [Threads -> Regions]
    /\ arg \in [Threads -> Regions]
    /\ tmp \in [Threads -> Regions]
    /\ built \in [Threads -> Estimator]
    /\ used \in [Threads -> SUBSET Estimator]
    /\ early \in [Threads -> BOOLEAN]

(* The estimator never pairs the API clients of one region with the price   *)
(* list of another, although EmrCostEstimator's three arguments are read    *)
(* from shared attributes one at a time (dependencies.py:71), whichever     *)
(* threads switch at the same time and even when a switch fails halfway.    *)
EstimatorCoherent == calc = EstimatorOf(calc.prices)

(* Once no thread is inside the region block, the two records of the region *)
(* (main.py's active_region, Inject's current_region), the clients and the  *)
(* estimator all agree, however many panels ran the switch concurrently and *)
(* whichever switches failed before, unless the region itself may fail.     *)
SettledAgreement ==
    (\A t \in Threads : pc[t] \notin Reinitializing) /\ active_region \notin FaultyRegions =>
        /\ current_region = active_region
        /\ client_emr = ClientOf(active_region)
        /\ client_ec2 = ClientOf(active_region)
        /\ calc = EstimatorOf(active_region)

(* The two records of the region agree whenever no thread is inside the     *)
(* region block, after switches that failed halfway too: the guards of      *)
(* main.py:110 and dependencies.py:62 never disagree for good about the     *)
(* region the server is in.                                                 *)
RecordsAgree ==
    (\A t \in Threads : pc[t] \notin Reinitializing) =>
        current_region = active_region

(* What the usage guide promises of the drop-down: the panels that display  *)
(* region-dependent costs are computed from the region selected for them.   *)
(* Every estimator that a panel has looked up is of its own region, if that *)
(* one does not fail, whatever has raced or failed before and whatever      *)
(* switches while the panel is served: it switched itself, or it passed a   *)
(* guard while nobody was switching.  An early panel, one that passed while *)
(* another thread was switching for it, has no such guarantee: it may have  *)
(* the old estimator in its hands when the switch is over, and answer in    *)
(* old prices.                                                              *)
PricedInOwnRegion ==
    \A t \in Threads :
        pc[t] = "serve" /\ ~early[t] /\ sel[t] \notin FaultyRegions =>
            used[t] \subseteq {EstimatorOf(sel[t])}

TakesEffect(r) ==
    <>[](dashboard = r) /\ []<>(\E t \in Threads : pc[t] = "check")
        => <>[](calc.prices = r)

(* "This region variable signals the backend to switch the cost             *)
(* information" (docs/usage.md:22): when a user stays with a region and its *)
(* panels keep being requested, the price list in use becomes, and stays,   *)
(* that of the region.                                                      *)
SelectionTakesEffect == \A r \in Regions : TakesEffect(r)

(* The same of the regions whose clients and price lists load: a failed     *)
(* switch to another region (dependencies.py:67) does not keep the server   *)
(* from switching to them.                                                  *)
HealthyTakesEffect == \A r \in Regions \ FaultyRegions : TakesEffect(r)
=============================================================================
