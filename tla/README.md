# Xonai dashboard: TLA+ specifications

The backend of the Xonai dashboard answers the queries of Grafana panels about
Spark clusters on EMR and Databricks. These modules model the parts of it that
are hard to test: the region switch that the worker threads share, the caches
of cluster descriptions and costs, the two together, the API calls that make up
the cost of a cluster, the spot price history it is derived from, and the server
from its installation on, with the panels that list clusters page by page and fill
the gaps of the APIs from the database.

Source paths are relative to `src/xonai-grafana/xonai_grafana/` unless they
start with `src/`.

## 1. Inventory

| Component | State | Operations | Hard behaviour | Correct when |
|---|---|---|---|---|
| Query server, `main.py` | the global `active_region`; `injection`, one object for all requests | `main_loop` (POST /query), `return_variable` (POST /variable) | FastAPI runs `def` endpoints on a thread pool; the panels of one page arrive together; nothing is locked | each panel is priced in its own region |
| Injected state, `utils/dependencies.py` | `current_region`, the AWS clients, `calc`, `cluster_cache`, `cost_cache` | `__init__`, `reinitialize` | several threads reinitialise at once; a constructor raises halfway | the records of the region, the clients and the estimator agree |
| EMR utilities, `utils/cloud.py` | the two caches (in `Inject`) | `check_cluster_cache`, `check_cost_cache`, the listings | test-then-store without a lock while clusters terminate and the region changes | only final descriptions and costs are kept |
| EMR estimation, `cost_estimation/estimator.py` | price lists; the spot price histories | `estimate_cluster_cost`, `estimate_price_for_period` | several API calls, retry, fallback from groups to fleets, swallowed failures | a cost adds up every instance once, in the right prices |
| Cluster listing, `utils/cloud.py` `EmrUtils` | the Marker: in the arguments of a request, or in the class attribute `active_state_args` | `get_cluster_ids`, `get_active_cluster_ids`, `get_cluster_descriptions`, `get_app_list` | clusters come and go between two pages; a description raises out of the loop | every cluster of the range is listed once |
| Databricks estimation, `utils/cloud.py` `DbxUtils`, `DbxPricing` | price lists | `_estimate_cost`, `get_clustertype` | imprecise label values, failing queries, nodes that join late | a cost adds up every node for the time it ran in the window |
| Prometheus utilities, `utils/tsdb.py` | none | `get_lookback`, `get_cluster_times`, `fill_api_gaps` | windows rounded to whole hours; two sources of clusters | a window covers the interval asked for; rows of both sources neither overlap nor leave a gap |
| Price list download, `cost_estimation/fetch_cost_info.py` | files under `resources/` | `fetch_resources` | aborts at any point, repeated runs, a server that starts meanwhile | whatever is left behind, a run that finishes leaves all lists readable |
| Bootstrap and installers, `src/scripts/` | services on cluster nodes, containers | polling for the node's role, starting exporters | waiting without a bound, order of start-up | every node ends up monitored |
| Schemata, logging, docker, dashboards | none | parsing, layout, configuration | none | not modelled |

How they interact: a panel's request carries the region of the page's drop-down
list. `main_loop` compares it with `active_region`, assigns the global and calls
`inj.reinitialize`, which replaces `client_emr`, `client_ec2` and `calc`; the rest
of the handler calls `EmrUtils` or `DbxUtils`, which read those attributes again
and again and fill the caches. The caches are never emptied: whatever is wrong in
an entry stays wrong until the server restarts. The panels on lists of clusters page
through `list_clusters` (EMR) or `clusters.list()` (Databricks), describe each EMR
cluster through `cluster_cache`, add rows for clusters that only the database knows,
and price them. The installer downloads the price lists and then starts the server as a
service, which systemd restarts whenever it ends.

The hazards this exposes the code to are in `PROJECT.json`, each at its line, with
the properties that watch over it.

## 2. Modules

| Module | What it models |
|---|---|
| `RegionSwitch` | `active_region`, the region block of `main_loop` and `return_variable`, and `Inject.reinitialize`: one action per access to a shared name, any number of threads |
| `RegionSwitchProofs` | theorems about it |
| `EmrCloud` | external: the life cycle and usage of EMR clusters, as far as the backend reads them |
| `CostService` | what `check_cost_cache` promises, without caches, failures or regions |
| `EmrCosts` | `check_cluster_cache` and `check_cost_cache` over the two caches |
| `EmrCostsProofs` | theorems about it, the implementation of `CostService` among them |
| `EstimateCluster` | `estimate_cluster_cost` call by call, on a cluster that changes meanwhile |
| `SpotPricing` | the spot price history of one instance type in one zone, shared by the threads that fetch it and sum it up |
| `SpotEstimate` | the sum over a history, next to the integral of the price it stands for |
| `SpotPricingProofs` | theorems about the history, and about the sum over it |
| `DashboardServer` | `RegionSwitch` and `EmrCosts` on the same threads and the same `Inject` object |
| `DashboardServerProofs` | that the composition implements `EmrCosts`, and what follows |
| `EstimateClusterProofs` | type correctness of `EstimateCluster`, and the costs its calls return |
| `Platform` | the platform that script and server read from the environment |
| `PromQueries` | lookback windows, first and last scrapes, label values, as arithmetic on scrape times |
| `PanelRequests` | what the panels on lists of clusters share: the clusters as API and database know them, a request from its beginning to its answer, `fill_api_gaps` |
| `EmrPanels` | paging, descriptions and application lists on EMR |
| `DbxPanels` | the cluster list and the costs on Databricks |
| `PriceFiles` | the price lists on disk, the script that writes them, the start of the server |
| `QueryServer` | these four as one server, from installation through restarts |
| `QueryServerProofs` | theorems about the price files and the paging |
| `PanelListProofs` | theorems about what the lists hold, and about the Databricks costs |
| `SumTheorems` | what the community modules' `SumFunctionOnSet` computes, which the three cost proofs cite |
| `MC...` | the instances TLC checks |

### RegionSwitch

`pc[t]` is the point a worker thread has reached. The handler of a request is
`Request` (the payload's region into `sel`), `CheckActive` (main.py:110),
`SetActive` (112), `CallReinitialize` (113, which reads the global again),
`ReinitializeGuard` (dependencies.py:62), `SetCurrent` (67), the two constructors
of clients, each a read of `current_region` and a later assignment (69, 70), the
three reads of the estimator's arguments and its assignment (71), and `Answer`.
Between the block and the answer, `Lookup` is the handler's own look at `inj.calc`
(main.py:118, cloud.py:172), any number of times; `used[t]` collects what it finds,
since a panel may go on with an estimator it holds after another one is installed.
`early[t]` says that the thread passed a guard (`PassBy`) while another was switching.
For `Platform = "AWS_DBX"` the client steps are skipped (72-73). A client or a price
list is represented by the region it was made for. `Raise` is a constructor that
fails for a region of `FaultyRegions`: the handler ends, and what it has assigned
stays.

`SelectRegion` is the user at the drop-down list. With `PatientUser` the list is
changed only while no request is running. The code does nothing to enforce that; it
is the assumption under which the switch is right, and the runs show what happens
without it.

`close_aws_clients` is no step: a closed boto client opens its connections anew on
the next call, so that no later step can tell. `return_variable` runs the same block
as `main_loop` and is the same actions.

### EmrCosts

`stage[t]` is the point a thread has reached in `check_cost_cache` and the
`check_cluster_cache` it calls; `wants[t]` tells which of the two the panel called.
A step reads or writes one shared thing: a cache, a client looked up on `inj`, the
estimator looked up on `inj`, or AWS. A description is the cluster's state, a cost
map is a record of the usage it adds up, the region of its price lists and whether
its spot instances have a price. `Estimate` covers the whole of
`estimate_cluster_cost`: it needs the clients of the cluster's region, else it fails
(`GiveUp`). It takes many API calls, during which the cluster goes on: the call begins
with `BindEstimator`, which remembers the progress of the cluster in `begun`, and
`Estimate`, its return, comes with any usage of `UsageSince`, no less than at the
beginning and no more than if every instance had run until now (`elapsed`), and exactly
the final one if the cluster had terminated before. These are the bounds that
`EstimateCluster` checks of the calls themselves. `CostService` promises the same of
the time between question and answer, for which `asked` remembers the progress at the
question.
`RegionChange` is the environment: any region's client and any one region's
estimator may be installed between any two steps. `DashboardServer` shows by
refinement that the region block does no more than that.

### EstimateCluster

`pc` is the point a call has reached: the description, the groups or the fleets
(`branch`), the next of them, the pages of its instances, their prices. A page is any
part of what has not been sent under the Marker, and `_get_instances` yields nothing
before the last page, so instances are launched and stopped, and the cluster
terminates, between any two pages and between any two prices. `Fault` is a failing
call: within the `try` it leads to the fleets, whatever it was, elsewhere to `raise`,
where `Retry` starts anew if the code begins with 5 and `Raise` ends the call if not.
`AddUnpriced` is a spot price call that fails and counts 0.0. `cost_dict` has the keys
of the code; prices, EBS volumes and the hourly conversion are a rate per instance and
part of the cost (`EC2`, `EMR`, `EBS`). `fault`, `begun` and `unpriced` remember what
the properties speak of. An instance without a creation time or a market (a `KeyError`
in the generator) is not modelled.

`CostWithinBounds` and `ExactOnceTerminated` are what `EmrCosts` assumes of an estimate
(`UsageSince`): it lies between the cost at its beginning and that of instances that ran
all the while, and for a cluster that has terminated neither the order of the calls nor
failures nor retries make a difference. `SpotFaults` are the unpriced instances.

### SpotPricing and SpotEstimate

A price point is its timestamp; `changes` is the market, any set of price points with
gaps of at most `MaxGap` units, the 25 hours that line 539 expects. `dict[t]` is the
dictionary that thread `t` made in its `else` branch, `spot_prices` tells whose the
object keeps, and a thread's `prices` whose dictionary its local variable is: a
thread that finds a history fetches right into the shared dictionary, page by page,
newest first, and a thread that does not stores its own at the end. `Skip` is the early
return, `Fail` an API call that raises (what earlier pages brought stays), or the
`sorted_keys[-1]` of an empty history. `Sum` applies `Estimate`, the loop of
`estimate_price_for_period` as a recursive function over the sorted timestamps, to one
reading of the keys; `CostOfPeriod` is the reference.

Two threads that both find no history make a dictionary each, and the later `Store`
drops the earlier dictionary together with what it holds. A thread that stands between
its test or its own store and line 551 at that moment reads a history it knows nothing
of, and may sum up one that lacks the period it has just fetched: TLC finds it within
ten states. The history variable `overtaken` holds these threads, from such a store to the
end of their call, and the properties of sums are about all others, those with
overlapping first fetches included. `Histories` are the dictionaries that are kept or
about to be: `HistoryKept` says that none of them loses a point, and that the one that
is kept stays once it is the only one, so that the race cannot happen a second time.
`PagesFail` turns failing pages off for `spot_skip`, whose trace needs none.

### DashboardServer

`EXTENDS RegionSwitch` and instantiates `EmrCosts` as `Costs` over the same
`client_emr` and `calc`. `RegionStep` is a step of the region block; `PanelStep` a step
of a cost query by a thread that is past the block; `AnswerPanel` the end of the
handler. `ImplementsEmrCosts` (`Costs!Spec`) is the refinement. A panel that another
thread is just switching the region for passes the guard of main.py:110, may look up the
old estimator, and may answer in old prices even after the switch has ended: the code
has nothing against it. `PricedInOwnRegion` of `RegionSwitch` says that no other panel
does: one that switches itself, or that passes the guard when nobody is switching, uses
the estimator of its own region only. The cost that an early panel looks up in the wrong
region is not cached, as the client of that region does not know the cluster
(`CachedCostAtHome`).

### PromQueries and PanelRequests

One unit of time is one scrape. A cluster is its number in order of creation, and `span`
holds the first and the last scrape of its master node, which is known from the start
and only becomes visible with `now`; `Boot` scrapes are missed while it starts. The API
covers a cluster from its creation until `Retention` after its end, the database those
of `Tracked` from their first scrape on. `get_lookback` is the code's arithmetic;
`TFirst` and `TLast` are `tfirst_over_time` and `tlast_over_time` on the left-open window
that ends with the range, 0 for an empty answer, as `extract_value` makes of it.
`get_label_values` returns each label with a sample in the range and any others seen
before its end: tsdb.py:314 filters again because the answer is "not always precise".

A request has a `panel`, a `phase`, a `range`, and counts its rows per cluster, so that a
row too many shows; `gap` is the start shown in a row from the database, `lost` the clusters
whose own query failed (`get_cluster_times` swallows it and says 0, 0) or whose entry in a
list could not be read. `FillGaps` is
`fill_api_gaps`. `Fail` is any other call that raises: `main_loop` answers with no table,
`/variable` with an error, and nothing that was collected is kept.

### EmrPanels

The panels are the variable query (`get_cluster_ids`), the cluster lists
(`get_cluster_descriptions`, then `fill_api_gaps`), the active resources
(`get_active_cluster_ids`), and the overview: `get_app_cluster_ids` finds the applications
with samples in the window, each with its cluster (`Apps`, `RunsOn`), then `get_app_list`
goes through the applications, with a row for each (`DescribeApp`), and
`get_total_utilization` through the set of their clusters (`DescribeCluster`). `Page` is
what `list_clusters` sends: the next `PageSize` matching clusters, newest first, below the
Marker. `NextPage` writes the Marker into the dictionary it was given: the request's own, or
`active_state_args`, a class attribute, for the active resources. `YieldPage` takes the IDs
of a page as they are; `YieldListed`, for the active resources, skips the entries that
`create_listed_cluster` cannot read (cloud.py:99). `Describe` is `check_cluster_cache`, one
cluster after the other (`IsNext`: in the order of the list, or any order of a set);
`DescribeRaises` is the same call for a cluster that the API has forgotten and the cache
does not hold, which ends the whole panel. `Answer` is the rest: the costs of the rows,
which may put descriptions into the cache, and the layout. The costs of the compute cost
panel go through `check_cost_cache`, which turns every failure into 0.0; they are those of
`EmrCosts`.

### DbxPanels

`FilterClusters` is `clusters.list()` and `filter_clusters`. `PriceCluster` is
`_estimate_cost` for one cluster: the nodes that the label query returns, the runtime of
each between its first and last scrape in the window, summed up per instance type, priced
with the EC2 list and the DBU table, and added up as `add_costs` does. All that it asks for
lies in the past, so that its queries are one step, in which any subset of the runtime
queries may fail (`skipped`) and the label query may return nodes out of range. `installed`
says that the server found an EC2 list when it started. Hourly prices are a rate per
scrape; the DBU count, computed like the DBU cost, is left out. The compute utilisation
panel calls `_get_cluster_times` on Databricks (cloud.py:61), a method that does not exist:
it always ends as `Fail` does, and is not modelled.

### PriceFiles and QueryServer

`file` is `absent`, `truncated` or `complete` for each region and service. A file is
downloaded into memory (`Download`), opened, which truncates it (`Open`), and written
(`Write`); `Abort` is a failing request or an interruption at any point. `Start` is the
constructor of the estimator: a missing list is none, a truncated one raises, so that only
a start that succeeds is a step. `asked` and `active_region` read the same `AWS_REGIONS`,
the script skipping unknown names, the server falling back to us-east-1 when the first
name is unknown. (That pip copies the downloaded directory before the server starts is left
out: it copies what is there.) A run that finds no valid region says "exiting" but goes on
with none (fetch_cost_info.py:80), which is `asked = {}`.

`QueryServer` runs both kinds of panels over one world; `Restart` loses requests, caches
and the class attribute, and the next `StartServer` reads the lists anew.

## 3. Properties and runs

| Run | Instance | Shows |
|---|---|---|
| `region_switch` | 2 regions, one of them faulty, 3 threads, patient users | `TypeOK`; the estimator is always of one region; whenever no thread is switching, the two records of the region agree, and in the region that loads, clients and estimator agree with them; a panel that was not early uses the estimator of its own region only; a selection of the region that loads takes effect if it lasts, whatever failed before |
| `emr_costs` | 1 cluster, 2 regions, 2 threads, 2 units of usage | `TypeOK`; cached costs and descriptions are final; their entries never change; the cost service is implemented, with estimates during which instances start and stop |
| `dashboard_server` | 2 regions, one of them faulty, 2 threads, 1 cluster, 1 unit of usage | `EmrCosts` is implemented; no cost in foreign prices is cached, after failed switches neither |
| `estimate_cluster` | 2 groups or fleets, 3 instances (one of them spot), 2 points in time, 2 failing calls | `TypeOK`; a call that begins after the end of the cluster returns its cost, part by part; earlier ones return no less than the cost at their beginning and no more than if all instances still ran; every call ends |
| `spot_pricing` | 2 threads, 5 points in time, gaps of at most 2, all such markets | `TypeOK`; what was fetched is there when it is summed up, and the sum is exact; the sum never starts before the history; dictionaries only grow, and the kept one stays once it is the only one; overlapping first fetches and failing pages included |
| `panels` | both platforms, 1 thread, 3 clusters (one untracked) with 4 sets of spans, 3 applications, 4 ranges, pages of 1, 4 nodes, 2 regions, 1 failure | rows once each; tracked clusters and those the API covers are listed; a row from the database starts when its cluster did, if the window begins early enough; overviews have every application, or all of their clusters; active resources are complete until a second page, but for entries that cannot be read; Databricks costs lie within those of their window; finished downloads are complete and only cut-short files unreadable; requests end and a run of the script brings the server up |
| `active_listing` | as `panels` | finding: the Marker that stays in `active_state_args` hides active clusters from all later requests |
| `gap_rows` | as `panels` | finding: where the window does not reach back before the range, a cluster that ran before gets a row that starts in the range |
| `spot_skip` | 1 thread, 6 points in time, no failing pages | finding: a period that reaches into the hole between two fetched ones is taken for covered |
| `region_failed` | 2 regions, one faulty, 1 thread | finding: a failed switch is never tried again |
| `server_impatient` | as `dashboard_server`, no faults, impatient users | finding: a mixed estimator's cost is cached for good |
| `spot_failure` | 1 cluster, 1 thread, failing spot price API | finding: a cost without its spot instances is cached for good |

Bounds. `Regions`, `Threads` and `Clusters` are the sizes of the instances. Two regions
are enough to tell an old one from a new one; three threads are one that switches, one
that races it and one that is served meanwhile. `MaxUsage` bounds the usage of a
cluster: with two units a cost may be stale by one before and after the description. The
theorems hold for every size. The caches never relate two clusters, which
`CostsFinal` confirms for any number. `MaxTime` and `MaxFaults` bound the clock and
the failing calls of `EstimateCluster`: one unit of time is enough for an instance to end
after its page and be priced beyond its end, two faults for a retry that fails again.
`Horizon` bounds the time of `SpotPricing`: with five points a period has price points
before, inside, at both ends and after it; the hole of `spot_skip` needs six. The prices
of the table are such that no two sums of segments are equal by accident.

In `panels` an `Hour` is 3 scrapes, the smallest that separates ranges of less than an
hour, an hour, and more, and windows that begin before, with and after a range; `MaxTime`
6 is two hours. Three clusters with pages of one are a list of up to three pages; the span
sets let them begin before and in a range, end in and after it, and, with `Retention` 1, be
forgotten between two pages, whether they have been described and cached before or not. Two
of the applications share a cluster. One thread suffices for what one request does to the next
through `active_state_args` and `cluster_cache`; the theorems hold for any number of
threads. `MaxFaults` 1 is one failure or restart in a behaviour; `SomeNames` is a known
first region and an unknown one. The proofs hold for all these constants.

Fairness. `FairSpec` makes the steps of a handler weakly fair for each thread: a
thread that runs a handler is scheduled until it is done. It asks nothing of users:
requests and selections may stop, and `HealthyTakesEffect` has the requests in its
hypothesis. Liveness is checked without symmetry. `EstimateCluster!FairSpec` makes the
steps of the call weakly fair, since a thread that has begun a call keeps running it;
that only `MaxFaults` calls fail is the assumption under which `EveryCallEnds`: the retry
has no bound of its own, so that an API that answers 503 forever holds the thread
forever. The cluster and the clock owe nothing. `QueryFairness` makes the script's steps
fair (it runs until it ends or is aborted), the start of the server (systemd's
`Restart=always`), and the progress of a request that has begun; requests, failures, aborts,
restarts and the clock owe nothing. `EveryRequestEnds` then rests on the Marker going down
and on lists being finite, and `RunBringsServerUp` on a run overwriting what is truncated.

## 4. Proofs

`RegionSwitchProofs` proves `Spec => []TypeOK` without further assumptions, and with
patient users `EstimatorCoherent`. `EstimatorCoherent` is not inductive: an estimator is
built from `client_emr`, `client_ec2` and `current_region`, read in three steps. The
strengthening `CoherenceInv` says, with `ThreadInv` for each thread, that while any
thread is inside the block all threads that are carry the one region selected, and that
what a thread has read so far is that region's or the one before; a patient user cannot
add a third. `Records` proves `RecordsAgree`, faults included. `InstallInv` adds that
`current_region` is fully installed, or being installed, unless its constructors raise;
`Settled` follows, for the regions that do not raise, and with it `OwnRegionPrices`: a thread
that leaves the block by itself does so with its region installed, and while it is served no
patient user selects another, so that whoever else switches installs the same.

`EmrCostsProofs` proves, when the spot price API does not fail, that cached costs and
descriptions are final, that entries never change, and that `EmrCosts` implements
`CostService`. The inductive invariant `CacheInv` carries what makes it work: a thread
that holds the description of a terminated cluster holds its last state, and since a
terminated cluster accrues nothing, any cost estimated after it is the final cost.
Describing before estimating is what the invariant rests on. For the refinement it also says
that a call begins no earlier than the panel asked, so that what the call may find
(`UsageSince` its beginning) lies within what the service allows since the question.

`DashboardServerProofs` proves, on EMR and with patient users, that the server implements
`EmrCosts`: `CoherentEstimator` makes each step of the region block a `RegionChange`, which
is all that `EmrCosts` assumes of it. With `CostsFinal`, cited from an instance of
`EmrCostsProofs`, `CachedCostAtHome` follows for any number of threads.

`EstimateClusterProofs` proves type correctness: that pages are of the group asked for is
inductive by itself, that no part of a cost is negative needs `LifeInv`, an instance ends
after it began. It then proves `ExactOnceTerminated` and `CostWithinBounds`, for any
instances, groups, rates and number of failures. `CallInv` says where a call is: which
branch it is in, that nothing of a failed attempt is left in `cost_dict`, and that a call
that began after the end sees only instances that have ended. `AccountInv` keeps the
accounts: what is in `cost_dict` is the cost of the instances charged so far, each until a
time of its own, and an instance that there was when the call began is either charged, no
earlier than until then, or still to come, in a group of `todo`, in the group being listed
or on the page being priced, and never both. When the call returns nothing is to come, so
that all are charged, and no cost can be below that at its beginning or beyond the present;
of a terminated cluster each instance is charged until its end.

`SpotPricingProofs` proves, for any market and any number of threads, type correctness, that
a sum finds what its thread has fetched, that it never starts before the history, and that
dictionaries only grow, without an assumption on first fetches. The inductive invariant
`SpotInv` says that a thread which fetches has what it received in the dictionary it will
store, which is its own as long as none is kept; that a thread which is about to read, and
has not been overtaken, finds its period in the kept dictionary or, when it skipped the
fetch, an older entry; and that one which has read has them in the dictionary it read. A
store replaces a dictionary only when another thread's is kept, which is what puts threads
into `overtaken`.

`SumsExactly` is about the sum itself: for any prices and any market, the loop of
`estimate_price_for_period` returns the sum over every unit of the period of the price in
effect (`EstimateIsCost`). `SortedKeys` shows that picking timestamps by their rank lists
all of them in ascending order, and `LoopUnfolds` that the recursive function is one. Its
loop invariant `AtKey` says that before key `j` the loop has either returned the cost of the
period or summed it up until that key, the key before it, or the start of the period;
`SegmentCost` adds a segment, in which the price is that of
the key before it. `RelevantIsEnough` says that of the whole market only the price points
that the API returns for a period count in it, and `SpotInv` that these are all in the
dictionary, whatever else is.

`QueryServerProofs` first proves `TornOnlyByWriting` and `FinishedMeansInstalled` of the
script and the server's start. The second needs `Progress`: the regions no longer on the
list are written completely, except for the one in work, of which the lists before
`current` are. `ServerFiles` shows that the whole server implements `FilesSpec`, which
carries both over.

It then proves `RowsOnce` with `PagingInv`: what is left of a page is disjoint
from the rows, and all rows, with the page they came from, are of clusters at or above the
Marker with which the next page begins. `PanelListProofs` proves what lists do not miss with
`ListInv` on top, which says of each request how far it has come: clusters the API covers
are in the rows, on the page, or on a later page; after `fill_api_gaps` the tracked ones are
in the rows too, with a true start if the window reaches far enough back; an overview has
its sampled applications in `listed` or still to come, or their clusters in the rows or on the
page; requests look at the past only (`PastOnly`);
and until `active_state_args` has been written, the list of active clusters began at the
top. No bound on pages, clusters, windows or threads is used.

`CostsInWindow`, in the same module, is `CostWithinWindow` for any nodes, labels, joining
times and price lists. `PricedInv` says that what a request has added up lies between the
cost in the range and the cost in the window of the nodes it has priced, and that these are
the nodes of its rows once it answers. The step is `ClusterBounds`: the code sums runtimes by
instance type before it applies prices, for EC2 and DBUs separately, and `ItemsAreNodes`
shows by `SumByKey` that this is the sum over the nodes; the runtime of each is bounded by
its uptime in the window, and by that in the range if its query worked. The price list may
change only while no request runs (`DownIsIdle`), as only a start reads it.

`SumTheorems` has what these proofs need of sums over finite sets: unfolding at any element,
disjoint unions, monotonicity, scaling, sums of sums, and regrouping by a key. The community
modules define the sum as a fold whose order is chosen; `FoldUnique` shows that the recursion
determines it, and `SumRemove` that the order does not matter. The induction theorems of the
library take a predicate as a parameter, which the provers cannot instantiate;
`SubsetInduction` and, in `SpotPricingProofs`, `NatSetInduction` say the same of a set
instead of a predicate, so that each lemma names the set for which it holds.

Each step lemma has one step per action. The assumptions are those of the modules'
ASSUMEs, and the hypotheses `PatientUser`,
`SpotFaults = FALSE` and `Platform = "AWS_EMR"` of the theorems that
need them. `server_impatient`, `region_failed` and `spot_failure` show what happens without
patient users, with faulty regions, and with failing spot prices.

Only model-checked are the four liveness properties, `HealthyTakesEffect`, `EveryCallEnds`,
`EveryRequestEnds` and `RunBringsServerUp`: that fair steps eventually happen needs
`ENABLED`, which is out of the prover's reach. Every other property of the passing runs is
the statement of a theorem.

## 5. Status and plan

Done: the region switch, the caches, their composition, the estimates, the spot history,
the listings, the Databricks costs, the price lists and the server from installation on;
proofs of every safety and action property the passing runs check. What could follow:

1. `DashboardServer` and `QueryServer` share `cluster_cache` and the threads but not a
   module. Composing them would relate a region switch to a listing in progress; the
   clients a listing uses are looked up once per page.
2. The cost panels of `QueryServer` as cost queries of `EmrCosts`, so that a failing
   estimate and a failing description meet in one panel.

Observations, without a property of their own: AWS throttling is not retried, since its
code does not begin with 5 (estimator.py:38); a missing price list is only logged and
costs computed without it are cached (estimator.py:232); of several values of a Databricks
label the first is taken (cloud.py:307).

Not modelled, and not planned:

- the panels on instances, instance types, application costs and task times, and the
  Databricks active resources: each makes its queries, lays out the answer and keeps
  nothing;
- utilisations, sums and maxima over samples that nothing else depends on;
- the bootstrap actions, sequential scripts on the cluster nodes that poll without a bound
  for their role; the server sees of them only which clusters are scraped from when on
  (`Tracked`, `Boot`);
- parsing and table layout (`schemata/`), logging, containers and dashboards, which keep
  no state.
