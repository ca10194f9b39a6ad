# TLA+ models of bidbot

`bidbot` is the daemon a Filecoin storage provider runs to bid in storage
auctions. It listens to auctions, decides on a price, publishes a bid, and, when
the bid wins, accepts the deal proposal, downloads the data and hands it to
Lotus. This directory specifies the parts of it that have state and concurrency,
checks them with TLC, and proves results about them with TLAPS. Paths below are
relative to the repository (`src/`).

Contents

1. [The system](#1-the-system)
2. [The modules and how they correspond to the code](#2-the-modules)
3. [The runs](#3-the-runs)
4. [Fairness](#4-fairness)
5. [The proofs](#5-the-proofs)
6. [Disagreements between code and documentation](#6-disagreements-found)
7. [Not modelled](#7-not-modelled)
8. [Plan](#8-plan)

## 1. The system

### Components

| component | state | operations | modelled in |
|---|---|---|---|
| bid store, `service/store/store.go` | bids in a datastore (badger), with two indexes `/data_queued` and `/data_fetching`; the channels `jobCh` and `tickCh`; a pool of fetch workers; a dispatcher | `SaveBid`, `SetAwaitingProposalCid`, `SetDealUID`, `SetProposalCid`, `getNext`, `fetchWorker`/`fetchOne`/`fail`, `getOrphaned`, `GC`, `Close` | `BidStore` |
| its files and lists, same file | one file per bid under the deal data directory; no state for lists | `WriteDataURI`, `boostDownload`, the walk of `GC`, `ListBids` | `DealFiles`, `BidList` |
| bytes limiter, `service/limiter/` | running total, requested and committed tokens, one `time.AfterFunc` timer per request, a mutex | `Request`, `Secure`, `Commit`, `Withdraw` | `RunningTotalLimiter` |
| service, `service/service.go` | the `paused` flag; otherwise the goroutines of its handlers | `New`, `Subscribe`, `AuctionsHandler`/`makeBid`, `WinsHandler`, `ProposalsHandler`, `SetPaused`, `Close` | `Bidding` (bidding), `Bidbot` (wins, proposals) |
| transport, `service/libp2p_pubsub.go` | topics and their handlers | open, clean up and close topics; publish a bid and wait for its id | `Bidding`, `Bidbot` |
| pricing, `service/pricing/cid_gravity.go` | per client: rules, ETag, time of the last load and end of a backoff (atomics), a mutex, loads running in the background | `PricesFor`, `maybeReloadRules`, `loadRules` | `CIDGravity`, `PriceRules` |
| data URIs, `lib/datauri/` | none | `NewURI`, `Validate` and `Write` of CAR files | `DataURI` |
| Lotus and Filecoin clients, `service/lotusclient`, `lib/filclient` | connections | connect with retries, health check, sealing sectors, import data; chain height, `VerifyBidder` | `Clients`, `Bidding` |
| HTTP API, `httpapi/` | none | `/deals`, `/datauri`, `/pause`, `/resume` | `BidList`, `DealFiles`, `Bidding` |
| command line, `main.go`, `lib/peerflags` | what the daemon has opened | start and stop of the daemon | `Bidding` (the order only) |
| transactional datastore, `lib/dshelper/txndswrap/` | none of its own | transactions and queries | not modelled |
| message types, progress reporter, metrics, generated code | none | | not modelled |

### How they interact

`service.New` builds the store with a reference to the limiter and hands the
service itself to the transport as its message handler. For one auction the
calls are

    AuctionsHandler -> makeBid -> GetChainHeight, PricesFor, PublishBid -> store.SaveBid
    WinsHandler     -> store.GetBid -> limiter.Request -> store.SetAwaitingProposalCid
    ProposalsHandler-> store.SetDealUID | store.SetProposalCid -> limiter.Secure
    SetProposalCid  -> enqueueDataURI -> jobCh -> fetchWorker
    fetchWorker     -> WriteDataURI, ImportData -> limiter.Commit  (fail -> limiter.Withdraw)
    fetchWorker     -> tickCh -> startFetching -> getNext -> enqueueDataURI -> jobCh
    periodicalGC    -> ListBids -> delete bids, then walk the directory of files

Every message is handled in a goroutine of its own. The store shares with them
the datastore and the two channels; the limiter shares its mutex with the
goroutines of its timers; workers, the HTTP API and GC share the directory.

### What is hard in it

* A job is sent on `jobCh` *inside* a datastore transaction that commits later,
  or is refused because of a conflict.
* Workers save a whole in-memory bid without reading the stored one; the index
  keys to delete are derived from that in-memory bid.
* The dispatcher runs only on a tick; ticks and jobs live in bounded buffers and
  are dropped or diverted to the queue when those are full.
* Crashes between any two steps; the fetching index is what start-up recovers
  from. `Close` waits for the workers while messages are still handled.
* After a restart the limiter is empty while the store goes on with its downloads.
* GC lists bids outside any transaction, deletes them later and walks the files
  later still, while workers write them.
* A failed download leaves a part of a file under the final name.
* Messages arrive late, repeatedly or out of order while quota expires on its own.
* A bid is published before it is saved, and parsed and validated only then; many
  bids wait for their ids at once; the chain moves while a bid is made.
* The daemon opens a dozen things in order, any of which may fail, and bids are
  made before the last of them is open.
* A pricing load that timed out goes on and writes four atomics one by one.

### What makes each component correct

* **Store**: the indexes name exactly the bids in their status; one job per bid;
  no download forgotten, also across crashes; data imported once; retries
  bounded; statuses move along the documented life cycle only; downloads end. In
  short it implements `BidLifecycle`, where there is nothing but a status and
  whether the data was imported.
* **Files and lists**: only whole files are imported; GC removes what it should
  and spares what it listed; pages of a list connect; the two ways to ask for
  deals agree; what is reported as written is what was sent.
* **Limiter**: the total is what is requested plus what is committed; no window
  of one period has more than the limit committed; unsecured requests expire and
  secured ones do not.
* **Wins and proposals**: whatever is being downloaded is in the running total; an
  import is counted, a failure gives its quota back, nothing is forgotten.
* **Bidding**: a bid keeps its promise and is priced by the rules; the store has
  under each id the bid that was sent; nothing is sent by a daemon that failed to
  start or has closed its channel; a pause takes effect.
* **Pricing**: an answer uses rules that were confirmed in time; the price is the
  one the rules quote; a call always returns.

`PROJECT.json` lists the single hazards at their lines and the properties that
cover each.

## 2. The modules

| module | models | kind |
|---|---|---|
| `BidLifecycle` | what the store promises | abstract specification |
| `BidStore` | the bids of `service/store/store.go` | component |
| `BidStoreProps` | its types, safety, action and liveness properties | properties |
| `BidStoreInv` | its inductive invariant | invariant |
| `BidStoreRefinement` | the refinement mapping from `BidStore` to `BidLifecycle` | refinement |
| `BidStoreSafety` | proof that its states are well typed, that the invariant is inductive, and of the safety properties | proofs |
| `BidStoreImplements` | proof of the refinement | proofs |
| `BidList` | `ListBids` and the `/deals` resource | pure functions |
| `DataURI` | `lib/datauri/datauri.go` | pure functions |
| `DealFiles` | files and GC of `store.go`, `/datauri`, over `BidStore` | composition |
| `DealFilesProofs` | proof of what is imported, of what GC takes and leaves, and of what the lists of bids and deals show | proofs |
| `RunningTotalLimiter` | `service/limiter/running_total_limiter.go` | component |
| `RunningTotalLimiterProofs` | proof of its accounting, of the cap and that every request owns its timer | proofs |
| `Bidbot` | wins and proposals of `service.go` over `BidStore` and `RunningTotalLimiter` | composition |
| `BidbotProofs` | proof that its steps are steps of both, and that the quota of a bid follows its download | proofs |
| `PriceRules` | the resolution of prices, `cid_gravity.go:105-133` | pure functions |
| `PriceRulesProofs` | proof of what the loop over the rules computes | proofs |
| `CIDGravity` | the cached rules of one client, the rest of `cid_gravity.go` | component |
| `CIDGravityProofs` | proof of what the cache answers | proofs |
| `Clients` | `lotusclient.go` and `filclient.go` | pure functions |
| `Bidding` | start of the daemon, `New`, `Subscribe`, `makeBid`, `Close` | component |
| `BiddingProofs` | proof of what `makeBid` promises, prices, sends and saves | proofs |
| `MC*` | values of constants, symmetry and constraints for TLC | instances |

Definitions called `Mutant...` are wrong versions of the definition that follows
them. No specification uses them: each documents one plausible bug, and putting
it in place of the right definition makes a stated property fail.

### BidStore and BidLifecycle

| TLA+ | code |
|---|---|
| `db[b]`: record and two booleans | the record under `/bids/<id>` and the keys under `/data_queued`, `/data_fetching` |
| `Save(e, r, s)` | `saveAndTransitionStatus` |
| `Enqueued`, `OpenAndSend` | `enqueueDataURI` |
| `jobCh`, `tickCh`, `timer` | the two channels; the start delay of `startFetching` |
| `worker[w]` | the local state of a `fetchWorker` goroutine |
| `txn[a]` | an open transaction: what it read, the jobs it sent, whether its commit is now bound to be refused |
| `Commit`, `Abort` | the end of `SetProposalCid` and of `getNext` |
| `NextFindsNothing`, `NextEnqueues` | `startFetching` and `getNext` |
| `TakeJob`, `DropJob` ... `SaveOutcome` | `fetchWorker`, `fetchOne`, `fail` |
| `Start`, `OrphanEnqueue`, `BootCommit`, `BootFails` | `NewStore` and `getOrphaned` |
| `GCList`, `GCDelete` | the part of `GC` that removes bids |
| `Close`, `Exit`, `Crash` | `Close`, the end of the process, a crash |

*Transactions.* A transaction that only reads and writes the datastore is one
step. `SetProposalCid`, `getNext` and `getOrphaned` also send on `jobCh` before
their commit, so they are two steps (or one per orphan) with anything in
between. Badger refuses a commit when a key the transaction read was written
since it began: `stale` records that. `StoreFails` adds commits that fail for no
reason. The ends of the *other* transactions need no abort action: they have no
effect but an error to the caller, which is a stutter.

*Pointers.* `jobCh` carries `*Bid`. `getOrphaned` sends the address of its range
variable, and under the Go version of `go.mod` (1.17) that is one variable for
the whole loop: jobs of orphans are `shared` and point at `cell`.

*Close.* `Close` cancels the context and waits for the workers. The topics are
closed only after the store, so messages are handled all the while (`Up`), and a
worker that waits may receive a job when the context has ended: `DropJob`.

*Retries.* The attempt is counted in memory by the worker and reaches the
datastore with the outcome. `attempts` saturates just above the maximum.

*History variables.* `imports` counts imports of a bid since the last start.
`raced` collects the bids hit by one of two races that section 6 shows to be
real: a write hits a bid for which a transaction now bound to abort had already
sent a job (`Raced`, including an aborted commit with a job sent and GC deleting
a bid that is no longer awaiting its proposal), or two orphans share the loop
variable. The safety properties are stated for bids outside `raced`: they say
that the damage of those races stays with the bids they hit. The race of the loop
variable has a run of its own, `store_aliasing`, in which no bid is exempt.

*Refinement.* `BidStoreRefinement` maps a bid to its status and to whether it was
imported since the last start, and a raced bid to "lost". Everything else, that
is indexes, channels, workers and transactions, is hidden. `BidLifecycle` allows
`Finalize` only after `Import` and `Abandon` and `Requeue` only without it: this
is what a reader of the store would want to rely on.

### DealFiles, DataURI and BidList

| TLA+ | code |
|---|---|
| `file[p]`, `stale` | what the file under each path holds; is it older than `discardOrphanDealsAfter`? |
| `CreateFile`, `DownloadDone`, `DownloadFails` | `WriteDataURI` in a worker: `os.Create`, then the download |
| `Downloads` | what `boostDownload` and `URI.Write` may leave behind |
| `RequestDataURI`, `ReplyDataURI`, `ReplyCode` | `dataURIRequestHandler` |
| `GCBegin`, `GCDelete`, `GCReadDirectory`, `GCWalk` | `GC`: listing, deleting bids, reading the directory, one call of `walk` per file |
| `Stop` | a crash, `Close`, or a panic in a worker |
| `HeaderError`, `ValidateError`, `WriteError` | `ldRead`, `validateCarHeader`, `Validate`, `Write` |
| `ListBids`, `SetDefaults` | `ListBids`, `Query.setDefaults` |
| `DealsByStatus`, `Filtered`, `DealsById` | `dealsHandler`, `listBids` and its loop over the bids |

`DealFiles` instantiates `BidStore`: each step of a worker is a step of the store
together with what it does to the files. An answer of a source is reduced to what
the code looks at: the status, the length prefix and its encoding, whether the
header decodes, its roots, and where the stream ends.

### RunningTotalLimiter

One action per method, since each runs under the mutex, plus `Tick`, `Fire` (a
timer expires; `Stop` comes too late) and `Expire` (its goroutine gets the
mutex). `Request` reads the clock before it takes the mutex: `seen` may lie up
to `MaxLag` behind. Arithmetic on the total is modulo `Word`, as on `uint64`.
`log` keeps every commit so that `WindowCapped` can look at commits that were
already evicted; `leaked` counts the tokens of requests that a second request
with the same id replaced.

### Bidbot

`Store == INSTANCE BidStore` and `Limiter == INSTANCE RunningTotalLimiter` share
the variables of the composition; each handler is a chain of their actions with
other steps in between. A `fetchWorker` step that ends an attempt composes with
`Commit` or `Withdraw` of the limiter, and the datastore may refuse the outcome
afterwards, which is only logged (`OutcomeUnsaved`). The auctioneer is two sets: the bids it
has received (`known`) and those whose win was handled without error (`won`); it
sends wins for the former and proposals for the latter at any time and as often
as it likes. When the process ends (`Stop`), the handlers, the bids under way and
the limiter are gone; the next start has a new limiter
(`NewRunningTotalLimiter`), the store recovers, and the auctioneer goes on as if
nothing had happened. `rewon`, `lapsed` and `counted` are history: a second grant
for the same bid, quota lost to a timer, with the process or to an outcome that
was not saved, imports counted by the limiter.

### PriceRules and CIDGravity

`Resolve` is the loop over the rules as a fold; `Apply` is its body. Sizes and
durations are abstracted: a rule says whether it covers the auction.
`CIDGravity` has one step per access of shared state: the mutex, the four
atomics, the HTTP request and its reply. Time is abstract: the cache period, the
backoff and the timeout may end at any moment. The content of a rulebook is
chosen when it is first looked at, by the answer that uses it; a version stands
for it until then. `disturbed` records that a body was lost or that two loads
ran at once.

### Bidding and Clients

| TLA+ | code |
|---|---|
| `stage`, `open` | how far the daemon command has come; what the finalizers would close |
| `OpenDatastore` ... `NewServer` | the daemon command of `main.go`, `service.New`, `Subscribe`, one action per thing opened |
| `Connect`, `NewLotusClient` | `newBuilder` and `New` of `lotusclient` |
| `VerifyBidder` | the same of `filclient`, over the answers of the chain |
| `CloseStore`, `CloseChannel`, `Exit` | `Service.Close` in the order of the finalizer; the end of the process |
| `maker[m]` | a goroutine of `makeBid`: the call it is at, the terms so far, the id it got |
| `Check` ... `SaveBid` | the calls of `makeBid` in their order |
| `sent`, `acked`, `saved` | bids the auctioneer received, acknowledgements, the datastore |
| `SetPaused`, `Tipset` | `/pause` and `/resume`; the chain grows |

The position of a bid in `sent` is the id the auctioneer gives it. The store and
the rules are seen here only by their answers; their insides are the subject of
the other modules. Epochs are computed modulo `Word`, as on `uint64`, and
`ConfigsAssumption` excludes settings whose start window wraps around.

## 3. The runs

"pass" runs finish with no error; "violation" runs show one statement of the
documentation to be false of the code (section 6).

| run | configuration | what it asks |
|---|---|---|
| `store_recovery` | 2 bids, 2 workers, 1 handler, 2 attempts, `semImports` of 1, 2 starts, no GC | do the indexes, the jobs, the imports and the retries stay right over a crash or a Close at any step, and is the life cycle kept? |
| `store_faults` | 2 bids, 1 worker, 2 concurrent deliveries, 2 attempts, 2 starts, GC, failing commits, up to the first race | is `Inv` an invariant, and is the life cycle kept, with every kind of fault? |
| `store_progress` | 2 bids, 1 worker, 1 handler, 2 attempts, 2 starts, fairness | do downloads end and are wake-ups served? |
| `limiter_window` | 2 auctions, sizes 1 and 2, limit 3, period 2, 3 grants, 4 ticks | accounting, window cap, timers |
| `pricing_cache` | 2 callers, 2 loads, 2 versions, every list of up to two rules | confirmation of the cache, prices quoted, calls return |
| `bidbot_quota` | 2 bids, 1 worker, 1 deal fits, quota expires after 1 tick, 2 grants, GC, failing commits and saves, 2 starts | do quota and downloads stay in step, also over a restart? |
| `deal_files` | 3 bids, 1 worker, 1 attempt, lists of one bid, an API request, GC, 2 starts | what is imported, removed, spared, listed and reported? |
| `bidding` | 2 makers, 2 bids delivered, 6 settings, 3 auctions, 2 rulebooks, fairness | promises, prices, ids, start and stop, pausing |
| `store_aliasing`, `store_stranded`, `pricing_stale`, `files_header` | the smallest instance that shows it | violations, section 6 |

Why the bounds are enough to be interesting:

* With two bids and one worker `jobCh` (one place) is full while the other bid is
  accepted, so bids go through the queue; with two workers and a semaphore of one
  the workers contend for the import.
* Two attempts make a first failure queue a retry and a second one give up. One
  attempt (`bidbot_quota`, `deal_files`) is the boundary where every failure is
  final.
* `MaxBoots = 2` allows one crash or Close at every point and recovery from it.
  The number of crashes matters little because all memory is lost: the state after
  a crash is `db` alone, and the files.
* `ListLimit = 1` in `bidbot_quota` and limits of 1 in `deal_files` make lists
  shorter than the number of bids, as with more than 10 bids in the program.
* `Period = 2` and 4 ticks let commits be evicted and the limit be used again;
  `MaxLag = 1` lets a request use an old clock value; 3 grants fill the limit,
  free it and fill it again.
* Three rules would add no case to `Apply`, whose state is which of two prices
  are set; a rule of each kind in each order is in the lists of two.
* In `bidding`, two settings start, one relaxed and one strict with a named host,
  retries and a limit of sealing sectors; the other four fail at the place their
  name says. One auction can only be bid for early, one yields bids that cannot be
  saved, one is over. Heights 0 and 1 suffice for the chain to move at any point
  of `makeBid` past the deadline. A second start begins like the first, with what
  is in the datastore.

Bounds stated as constraints, all with safety properties only:

* `SomeBidIntact`, `SomeBidPlain`: nothing is explored once every bid is exempt,
  because from there the invariants say nothing. `NoneRaced` in `store_faults`
  stops at the first race; that the damage stays with the bid it hits is checked
  by `store_recovery` and proved.
* `bidbot_quota`: the process ends only if there has been at most one bid
  (`EndsWithOneBid`); a second one may come afterwards. After a race the process
  does not end and the raced bid, of which nothing is claimed, gets no other job
  (`RacesAreBrief`). A bid that an unsaved outcome leaves in `fetching_data`
  without a job is there alone (`FaultsWithOneBid`): its quota does not depend on
  the other's. None of these bounds is in the proofs of `BidbotProofs`.
* `deal_files`: the third bid is there only before the first proposal arrives
  (`ThirdBid`), since it is needed for lists and GC only; the HTTP API downloads
  in the first life of the process, with one bid (`ApiWithOneBid`); the process
  stops only with one bid (`StopWithOneBid`). That a file becomes old only while
  nobody writes it stands for `discardOrphanDealsAfter` being longer than
  `dealDataFetchTimeout`, as by default (24 h and 3 h); nothing in the code
  enforces it.

The symmetry sets (workers, handlers, auctions) are used only in runs without
liveness properties. `CHECK_DEADLOCK FALSE` is set everywhere because the bounds
end every run (no auction is left, the last crash has happened, the daemon failed
to start); that nothing gets stuck is what the liveness properties say.

What each property is about stands in the comment above it. In short:

* `IndexExact` (indexes name exactly the bids in their status although keys are
  derived from memory), `OneJobPerBid`, `NoLostJob` (a `fetching_data` bid has a
  job while the store runs), `ImportedOnce`, `RetriesBounded`,
  `StatusProgression` (no revival of a settled bid), `Inv` (all of these,
  inductively), `ImplementsLifecycle`, `FetchingEnds`, `WakeupServed`;
* `ImportsWholeFile`, `GCSparesListed`, `PassRemovesFinalized`, `PagesConnect`,
  `DealsAgree`, `ReportedIsSent`;
* `Accounting`, `WindowCapped`, `TimersOwned`;
* `DownloadSecured`, `ImportsCounted`, `OutcomeSettles`, `QuotaHeld`;
* `SavedAsSent`, `PromiseKept`, `PricesRuled`, `AcknowledgedIsSaved`,
  `SentWhileServing`, `PauseTakesEffect`;
* `ReloadConfirmed`, `VerifiedFirstMatch`, `UnverifiedQuoted`, `CallReturns`.

## 4. Fairness

`BidStore!Fairness`: every goroutine of the store that can go on does (weak
fairness of the steps of a worker, of the dispatcher, of an open transaction and
of start-up). A download or an import ends, well or badly, because the download
has a timeout (`DealDataFetchTimeout`) and the import is an RPC that the model
lets fail. Waiting for `semImports`, a buffered channel, is strongly fair: the
runtime serves its waiters in order. Choices *between* outcomes get no fairness:
a download may fail every time. Messages, GC, faults, Close and crashes are
never owed. `Start` is owed: somebody restarts the daemon.

`CIDGravity!Fairness`: `sync.Mutex` starves no waiter (strong fairness of getting
it), the timer of the timeout fires (weak fairness of the caller's steps). The
API and the loads owe nothing: `CallReturns` holds although no reply ever comes.

`Bidding!Fairness`: weak fairness of each goroutine of `makeBid`. Every call it
waits for has a timeout or ends with the context. Nothing is owed of the chain,
the auctioneer, the daemon's start or whoever pauses it.

`DealFiles` and `Bidbot` have safety properties only, and no fairness.

## 5. The proofs

### The store

For every set of bids, workers and handlers and every value of the limits and
flags, `BidStoreSafety` and `BidStoreImplements` prove

| theorem | statement |
|---|---|
| `TypeCorrect` | `Spec => []TypeOK` |
| `InductiveInvariant` | `Spec => []Inv` |
| `IndexIsExact` | `Spec => []IndexExact` |
| `OneJobEach` | `Spec => []OneJobPerBid` |
| `NoJobIsLost` | `Spec => []NoLostJob` |
| `ImportsOnce` | `Spec => []ImportedOnce` |
| `RetriesAreBounded` | `Spec => []RetriesBounded` |
| `StatusProgresses` | `Spec => StatusProgression` |
| `Implements` | `Spec => ImplementsLifecycle`, the refinement of `BidLifecycle` |

The content of `TypeCorrect` beyond shapes is that `Len(jobCh)` and `tickCh`
never exceed the number of workers, that every record is stored under its own id,
and that every job and every worker points at a bid. The others are the safety
properties of the runs, so they hold of every bid outside `raced`, the bids hit
by the races of section 6.

*Assumptions*: the `ASSUME`s of `BidStore` alone: bids are naturals (ULIDs are
ordered), `Bids` is not empty, sets are finite, the limits are naturals,
`FetchAttempts` is positive and the names of handlers differ from the names of
the other transactions.

*Types*: one lemma per operator the actions are built from (`SaveType`,
`EnqueuedType`, `AfterWriteType`, `LoadedType`, `PointeeType`), one per pattern of
step (`WriteType`, `TransitionType`, `OpenAndSendType`, `CommitType`,
`ReleaseType`, `FailType`, `StopType`), then one lemma per group of actions
(`TypeMessages`, `TypeFetch`, ...), and the theorem combines `Init => TypeOK` and
`TypeOK /\ [Next]_vars => TypeOK'` by temporal reasoning.

*The inductive invariant.* None of the safety properties of the store is
inductive: a worker saves without reading, so that the index stays exact depends
on what is in its memory, and that depends on which transaction sent it the job
and whether that transaction has committed. `BidStoreInv!Inv` strengthens them by
what relates memory to the datastore: `PhaseInv` (what memory holds in each phase
of the process), `SentInv` (a job is sent only for a bid the transaction read),
`BootInv` (all jobs during start-up share the loop variable, and what is not sent
yet is still stored as being fetched), `SavingInv` (the three outcomes of a
worker), and for each bid not raced `TxnOK` (a transaction that may still commit
has read what is stored), `JobOK` (what a worker will save agrees with what is
stored or about to be), `KeptOK` (a sent job stays until its outcome is saved,
on a datastore that works and as long as `Close` has not been called),
`ImportOK`, `AttemptOK`. TLC checks `Inv` with faults and GC in `store_faults`.

*The proof* has one lemma per kind of step, and each shows the conjuncts of `Inv`
that are not about types (`Order`):

* *Frames* (`JobsFrame`, `BidFrame`, `OthersPending`, `JobsKept`): a bid stays in
  order when its record, its jobs and the transactions that read it are left alone.
* *Writes* (`AfterWritePoint`, `WriteStep`): a write outside start-up ends the
  writer's transaction and makes those that read the bid stale. If such a
  transaction had sent a job, the bid is raced; if not, the written bid has only
  to meet the index, the bound on attempts and a job exactly when it is being
  fetched. Messages, commits and GC are instances.
* *Sends* (`Unsent`, `JobSent`, `OrderOpenAndSend`): a bid that waits for a
  proposal or in the queue has no job, unless a transaction that may commit has
  sent one, which makes the second send a race.
* *Workers* (`JobTaken`, `OrderMove`, `SavedIsFetching`, `OrderSaveOutcome`): when
  a worker saves, the bid is stored as `fetching_data`, because the transaction
  that sent the job has committed or would be hit by this very save. A job that is
  dropped after Close (`OrderDropJob`) leaves only its key in the fetching index.
* *Start-up and end* (`OrderStart`, `OrderOrphanEnqueue`, `OrderBootCommit`,
  `OrderStop`): memory is empty when the process is down, and the fetching index
  names what `getOrphaned` has to send.

The safety properties follow from `Inv` state by state. `StatusProgression` has a
lemma per action that writes a status (`ProgressCommit`, `ProgressSaveOutcome`,
...), whose guard or whose part of `Inv` gives the status written over.

*The refinement* needs one more invariant, `Delivered`: a worker about to save
`finalized` has imported the data of its bid. Then every step of the store is one
step of `BidLifecycle` or none (`LifeStep`). `Moved` is the lemma for the steps
that write one status, which `StatusProgression` already bounds, and `Lost` for
those that only make bids raced; `ImportStep`, `SaveStep`, `StartStep` and
`BootCommitStep` deal with the others. Start-up requeues several bids in one
step, which is why `Requeue` takes a set.

### The limiter

`RunningTotalLimiterProofs` proves, for any ids and sizes, any limit, period, delay
of the mutex and number of grants,

| theorem | statement |
|---|---|
| `TimersStayOwned` | `Spec => []TimersOwned` |
| `LimiterTypes` | `Spec => []TypeOK` |
| `AccountsBalance` | `Spec => []Accounting` |
| `WindowStaysCapped` | `Spec => []WindowCapped` |

*Assumption*: `LimiterAssumption`, that is sizes are positive naturals and the
limit plus one deal fits in `Word`, the range of `uint64`. Without it
`Fits` could wrap around and grant anything.

*Timers.* `TimersOwned` is not inductive, because a timer found by its index must
be known to be of the same id. `Owned` adds that: a request
refers to a timer that exists, was made for its own id and has not done its work.
It has one lemma per operation. A granted request appends a timer nobody refers to
(`OwnedRequest`); every other step changes one timer, and the ids whose requests
refer to another do not notice (`OwnedElsewhere`).
The callback of a timer whose request was replaced takes the new request of its
id back as a whole: no request is left behind without a timer.

*Books.* `Accounting` is inductive together with the bound of the total by the
limit, without which subtraction modulo `Word` need not be subtraction
(`MinusExact`, `PlusExact`).

*The cap.* `WindowCapped` speaks of commits that were evicted long ago. `Evicted`
relates them to the list: `committed` is the end of `log`, and what comes before
it is older than the period. So a window that is still open lies within
`committed`, whose tokens are part of a total within the limit (`OpenWindow`), and
a window that has ended is not written to any more. The clock read before the
mutex can only make `Request` evict too little.

*Sums.* `Sum` is a fold, and the induction theorems of the library are out of the
provers' reach. The module gets by without them: `Sum(f)` is shown to be the
number of cells `<<x, k>>` with `k` in `1..f[x]` (`SumCells`), by taking a smallest
subset of the domain on which it is not (`SmallestSubset`, from the
well-foundedness of strict inclusion). After that, what a sum does when something
is added, removed, split or renumbered (`SumRemove`, `SumSplit`, `SumBijection`)
is a fact about cardinalities.

### Prices

`PriceRulesProofs` proves what `Resolve` computes, for every rulebook that does
not refuse the deal:

| theorem | statement |
|---|---|
| `VerifiedPrice` | the verified price is that of the first covering rule for "true" or "any", and there is none exactly when no rule is |
| `UnverifiedPrice` | the unverified price is quoted by a covering rule for "false" or "any", and there is one if a covering rule is for "false" |

The loop is a fold as well. `Outcome(list, s)` says in one formula what it has
computed after the positions `s` of a list, taken in order: the first rule for
verified deals sets the verified price, and of the covering rules for unverified
deals that remain the first sets the other one. One more position changes it as
`Apply` does (`OutcomeStep`), and `LoopOutcome` follows by the argument of the
smallest subset, now of the positions of the list.

### The cached rules

`CIDGravityProofs` proves, for every set of callers and rulebooks and any number of
calls and versions,

| theorem | statement |
|---|---|
| `PricingTypes` | `Spec => []TypeOK` |
| `AnswersConfirmed` | `Spec => []ReloadConfirmed` |
| `VerifiedAnswers` | `Spec => []VerifiedFirstMatch` |
| `UnverifiedAnswers` | `Spec => []UnverifiedQuoted` |

*Assumptions*: `BooksAssumption` (the API returns rulebooks, and at least one),
`CallersAssumption` and `BoundsAssumption` of `CIDGravity`.

*The invariant* `Inv`: `CallerInv` says what a caller knows where it is, above all
that one which takes its answer after a reload in time has a load that ended well.
`Confirmed` says why that load speaks for the cached rules while nothing was
disturbed: at most one load is under way; the request carries the ETag of the
moment; ETag and rules are of one version except between `StoreETag` and
`StoreRules`; so a 304, and a 200 whose body was stored, both leave rules that are
at least as new as the reply. `Past` (nothing is newer than what the API has) is
needed where the reply is made. `Counted` bounds the loads by the calls.
TLC checks `Inv` on the instance of `pricing_cache`. `Inv` also
shows what `disturbed` is for: with two loads at once or a lost body the ETag may
run ahead of the rules, and section 6 has the counterexample.

*The proof* has a lemma for what each action does to its caller or load
(`CallMoves` ... `AppendMoves`), and then one per conjunct for all actions of
`loadRules` (`LoadKeeps...`) and of `PricesFor` (`CallerKeeps...`, `OthersKeepInv`).

### Bidding

`BiddingProofs` proves, for all settings, auctions, rulebooks, goroutines and
numbers of starts,

| theorem | statement |
|---|---|
| `SavedBidsAsSent` | `Spec => []SavedAsSent` |
| `PromisesKept` | `Spec => []PromiseKept` |
| `AcknowledgedBidsSaved` | `Spec => []AcknowledgedIsSaved` |
| `SendsWhileServing` | `Spec => SentWhileServing` |
| `BidsPricedByRules` | `Spec => []PricesRuled` |
| `BiddingTypes` | `Spec => []TypeOK` |

*Assumptions*: `ConfigsAssumption` (settings have their types, and no epoch the
window promises wraps around), `OffersAssumption`, `BooksAssumption` (rulebooks
have their type) and `BoundsAssumption` of `Bidding`.

*The invariant* `BidInv` has two parts. `StageInv` says what is open at each
stage of the process: the peer and the context from the stage that opens them to
the one that closes them, on every path of errors, and that the settings were
found valid before anything was sent. `MakerOK` says what a goroutine of
`makeBid` knows at each of its calls: from reading the height on, that its epoch
was promised; from the publication on, that the auctioneer holds these terms
under its id; that an id being awaited is not acknowledged, and one being saved
is. `OwnBids` keeps the ids of goroutines apart, so that one answer cannot change
what is known about another's bid.

*The proof* has a lemma for the steps of the process (`Framed`, `Ended`), one for
the steps of a goroutine up to the publication (`Called`) and one for each of the
other steps (`Published`, `Acknowledged`, `Saved`). In `Saved` an acknowledged
bid is dropped only for a reason `AcknowledgedIsSaved` names: the epoch cannot be
one, since the window is positive once the settings were validated.

*Prices.* `PricesInv` adds that terms about to be published are `Ruled`; that the
loop over the rules agrees with what `PricesRuled` calls quoted is `VerifiedPrice`
(`PriceQuoted`). `StartInv` adds what the types say of the start of the process.

### The service over the store and the limiter

`BidbotProofs` proves, for any bids and sizes, workers and handlers, limits,
failures of the datastore and numbers of starts,

| theorem | statement |
|---|---|
| `ServiceTypes` | `Spec => []TypeOK` |
| `ServiceUsesStore` | `Spec => Safety!Spec`: the store's theorems hold in the service |
| `ServiceUsesLimiter` | `Spec => [](TimersOwned /\ Accounting /\ WindowCapped)` of its limiter |
| `DownloadsAreSecured` | `Spec => []DownloadSecured` |
| `ImportsAreCounted` | `Spec => []ImportsCounted` |
| `OutcomesSettle` | `Spec => []OutcomeSettles` |
| `QuotaIsHeld` | `Spec => []QuotaHeld` |
| `DownloadsStayWithinLimit` | `Spec => []DownloadsFit`: the sizes of the deals being downloaded sum up to no more than the limit |

*Assumptions*: the `ASSUME`s of `Bidbot`, which are those of its two parts: what
`BidStore` asks of its sets and limits, that a deal has a positive size and that
the limit plus one deal fits in `Word`.

*The instances.* The theorems about the parts are stated in modules that extend
`BidStore` and `RunningTotalLimiter`, and `Bidbot` has instances of the latter
two. `Safety` and `Limits` are instances of the modules of proofs, and the first
two sections (`SameInit` ... `SameCalls`) show that the definitions agree.

*The parts in order.* `PartsOK` is the invariant of the store, that of the
limiter and `HandlersOK`, what the handlers' variables say: which transaction of
the store is open, and that wins are handled for bids received and proposals for
bids won.
`StoreMoves` and `LimiterMoves` show that every step is a step of each part, or
leaves it alone, or begins a new limiter (`Stop`); so both invariants carry over.
`BidStoreSafety` and `RunningTotalLimiterProofs` end in a section each with what
is used of them here: what one step of the store can do to a bid's standing
(waiting, to be downloaded, about to be saved, settled), and that quota held
for a set of ids fits in the limit (`HeldFits`).

*The invariant* `Quota` says of each bid that is not raced: it is downloaded only
if it was won; and unless it was granted quota twice (`QuotaOK`), while it is to be
downloaded its timer is armed only as long as a handler is about to call
`Secure`; from the win to the outcome the quota is requested, or has lapsed; an
import that is about to be saved or was saved is counted, or had lapsed; an
outcome, saved or about to be, holds no quota; what is requested is the size of
the deal. None of the four properties is inductive, because the limiter is
told before the outcome is stored, and `Secure` comes after the job is sent: a
worker may be done with the bid when the handler gets there.

*The proof* has a lemma per action of `Bidbot` (`QuotaWinRequest`,
`QuotaProposalSecures`, `QuotaFetchSucceeds`, ...), each of which looks at the bid it
is about; the others follow from `QuotaCalm`, that a bid with nothing new to
answer for stays in order. `RequestOutcome` and `Settled` say what the limiter does
to the quota of one id and not to the others', `QuotaQuotaExpires` that a timer
takes back the quota of its own bid, which then lapsed.

### The files and the lists

`DealFilesProofs` proves, for any bids, workers, handlers and API requests and any
limits of the lists,

| theorem | statement |
|---|---|
| `FileTypes` | `Spec => []TypeOK` |
| `FilesUseStore` | `Spec => Safety!Spec`: the store's theorems hold here too |
| `ImportsAreWhole` | `Spec => []ImportsWholeFile`, when the boosted download is off |
| `ImportsAreNoPart` | `Spec => []NoPartImported`: on or off, no part of a file is imported |
| `GCSparesJobs` | `Spec => GCSparesListed` |
| `PassesRemove` | `Spec => PassRemovesFinalized` |
| `PagesDoConnect` | `Spec => PagesConnect` |
| `PageAfterCursor` | what the page after a cursor holds, for every limit and order |
| `PageAfterDeleted` | the same when the cursor has been deleted: exactly one bid is passed over |
| `PagesCover` | following the pages to the end shows every bid that is there all the time |
| `ShownDeals` | what `GET /deals` shows, for every set of filters, and in which order |
| `DealsDoAgree` | `Spec => []DealsAgree` |
| `ReportsAreTrue` | `Spec => []ReportedIsSent` |
| `InvalidCarsReported` | which invalid CAR files are reported, and which make the download panic |

*Assumptions*: the `ASSUME`s of `DealFiles`: those of `BidStore`, that no bid in the
store has the empty id, and that the limits of a list are positive.
`ImportsAreWhole` has the hypothesis `~ChunkedDownload`, the default of
`boost-download`; a boosted download accepts what it gets without a look at
the header.

*The store below* is dealt with as in the service: `Safety` is the instance with
the theorems, `SameRoom` ... `SameLife` show that its definitions are those of
`Store`, and `StoreMoves` that every step is one of the store or leaves it alone.

*The invariant* `FilesInv` adds to the invariant of the store and the types what
each actor knows of files it does not hold a lock on. `WriterOK`: a worker that
downloads writes the file of its own bid, and the file is there or GC took it.
`FetchedOK`: from the end of the download to the import the file is what this
worker left. `ListedOK`: what a GC pass remembers of a bid stays true while the
bid moves on: one that was finalized stays so, and one that was listed is kept,
is to be removed or deleted, or has been deleted. `ImportsWholeFile` alone is not
inductive, because nothing in it says whose file a running download writes.

*The proof* rests on four facts about the store: one worker per bid (`OneWorker`),
which keeps a second download off the file; a worker stays with its bid unless
the loop variable of `getOrphaned` moves under it, which makes the bid raced
(`TargetKept`); a bid with a job is neither finalized nor removed (`JobStatus`); and
statuses only progress (`EndsStay`). `WorkerKept` and `PassKept` say that a step
beside a worker or a pass leaves it in order; `WorkersCreate`, `WorkersClose` and
`PassGC` treat the steps that touch files.

*Lists.* `InOrder` chooses the key of each place by its rank. That there is exactly
one (`RankOrders`, `RankOnto`) is a fact about injections between finite sets of
one size. `FirstPageIs` says what a list without an offset contains, and `FirstPage`
what that is for the newest bids, which GC relies on. `PageIs` says what a page with an offset contains: of the bids from the offset
on, the first is dropped. If the cursor is still there it is that first one, and the
page is exactly what comes next (`PageAfterCursor`); if it has been deleted, its
successor is dropped instead (`PageAfterDeleted`). `PagesConnect` follows from the
former, whatever else happened to the bids.

*Pages.* `PagesCover` is about a reader of `ListBids` who asks for page after page
until one is empty, while other bids come and go: no bid that stays is missed,
provided that the last bid of each page is still there when the next page is asked
for (`PageAfterDeleted` says what is lost otherwise). A page that does not reach a
bid is not empty and ends before it (`PageBehind`, `NextBehind`), so a bid that no
page shows is behind the first page, and then behind every later one, which an
empty last page contradicts. The argument looks at the first page that the bid is
not behind, which exists because the pages are finitely many.

*The filter* of `GET /deals` is a fold over the list (`Filtered`), which the library
computes by recursion on the set of places still to visit. `AtPlaces` says without
recursion what the loop has built from any set of places: the bids at those that
pass, in the order of the places. It satisfies the equation of the fold
(`KeptIsFilter`, from `AtLaterPlace`: a later place comes last), and two functions
that do cannot differ first at any place (`FilterUnique`), so `FilteredIs` holds for
lists of every length. `ShownDeals` combines it with `FirstPage`, and `DealsDoAgree`
takes the filter `finalized` from it. Neither needs an invariant of the store: they
hold whatever the bids are. The lemmas about positions come from
`PriceRulesProofs` (`Lists`), whose loop is treated in the same way.

### Only model-checked

Liveness (`FetchingEnds`, `WakeupServed`, `CallReturns`, `PauseTakesEffect`), which
together with `ENABLED` is out of the prover's reach. Every other property of the
passing runs is proved, `ImportsWholeFile` for the default of `boost-download` only.

## 6. Disagreements found

Each has a run that exhibits it and an entry under `findings`.

1. `store_aliasing` - `getOrphaned` sends `&b` of its range variable
   (`store.go:876`): after a crash with two orphans, both jobs name the last one.
   One orphan is not fetched until the next start, the other one is fetched twice.
2. `store_stranded` - `jobCh` is full when `SetProposalCid` looks, but the ticks
   of the draining workers are spent before it commits: an accepted bid waits in
   the queue until some other bid's worker ticks again.
3. `pricing_stale` - the ETag is stored before the body is read
   (`cid_gravity.go:202`) and loads overlap: a 304 may confirm expired rules.
4. `files_header` - `ldRead` writes the length of a CAR header into a buffer of
   one byte (`datauri.go:196`): with a header of 128 bytes or more, which three
   roots make, it panics instead of returning `ErrInvalidCarFile`. In a worker or
   in `WinsHandler` that ends the daemon, and after a restart the orphaned
   download does it again without end, because a panic uses up no attempt.
   A complete file with the wrong roots and a shorter header is always reported as
   such (`InvalidCarsReported`).

Other observations. No statement of the documentation decides these, or no run of
its own was spent on them; where a property says what does hold, it is named.

Store:

* The job is sent before the transaction commits (`store.go:613`). A worker that
  saves its outcome first makes the commit of `getNext` fail; the bid's key in
  `/data_queued` then outlives it, and a settled bid is fetched again at every
  wake-up.
* GC deletes what an earlier listing said (`store.go:741-754`) and may remove a
  bid whose proposal arrived in between, leaving its index key. Such a key at the
  head of the queue makes `getNext` return an error forever, and in the fetching
  index it makes `NewStore` fail.
* `Close` cancels the context of the downloads it waits for
  (`store.go:231-236`), so they fail and use up an attempt. A job that a waiting
  worker receives after that is dropped; the next start recovers it.
* `NewStore` starts the workers before `getOrphaned` and leaves them running when
  that fails.
* GC lists with the default limit of 10 bids (`store.go:741`): older bids are
  never discarded, files of older unfinished bids count as orphans, and files of
  older finalized bids stay when `discardOrphanDealsAfter` is 0.
* `ListBids` seeks after an offset that may have been deleted
  (`store.go:518-520`) and then passes over one bid (`PagesConnect`), and over no
  other (`PageAfterDeleted`).
* A boosted download is never validated (`ChunkedDownload`); two API requests for
  the same payload share a file; a header that cannot be decoded is not
  `ErrInvalidCarFile` and makes the API answer 500.

Limiter and service:

* A second `Request` for an id replaces the first without returning its tokens
  (`running_total_limiter.go:76`); `Accounting` counts them as `leaked`.
  `WinsHandler` requests again for every repeated win.
* `Secure` calls `Stop` but ignores that the timer has fired
  (`running_total_limiter.go:83-91`): a secured quota can still expire.
  `TimersOwned` and `DownloadSecured` say that its own timer is not armed any
  more. The timer of a request that was replaced still is, and withdraws the
  newer request, secured or not (`Expire` knows the id only).
* A Boost proposal secures quota that nothing ever gives back
  (`service.go:503`). A proposal that comes after the quota expired is accepted
  without any (`service.go:518`), and after a restart all downloads go on without
  (`main.go:149` documents the reset): more than the limit may then be processed
  in a period.

Bidding and start:

* `makeBid` publishes the bid before it parses the payload cid, validates and
  saves the bid (`service.go:402-412`): a bid the auctioneer knows may be one the
  store refuses (`AcknowledgedIsSaved`). Repeated auctions are bid for again.
* Bids under way go on during a pause (`service.go:324`, `PauseTakesEffect`), and
  bids are made while `Close` waits for the store. The pause is not remembered
  over a restart; the HTTP API starts after `Subscribe`, and if it cannot listen
  that is only logged.
* `AuctionFilters.Validate` checks `DealDuration` twice and `DealSize` never
  (`service.go:129-137`).
* `--finalize-early` has no effect outside fake mode (`lotusclient.go:94-100`);
  with a limit of sealing sectors fake mode uses a client that is nil. A failed
  health check in `New` leaks the connections. With zero retries the client is
  built without a connection. A DNS name without a usable address dials the local
  machine (`TcpAddr`).

Pricing:

* A rule for "any" deal sets the verified price and, having matched, not the
  unverified one, which stays at the ask price (`cid_gravity.go:122-126`).
  `UnverifiedQuoted` states what does hold.
* A 304 does not renew the time of the last load (`cid_gravity.go`), so every
  later call loads again.

## 7. Not modelled

* **Reports, health events and progress callbacks**: they are sent on a
  best-effort basis and change no state.
* **Flags and the other commands** of `main.go` and `peerflags`: parsing, and
  HTTP calls to the daemon. Only the order of the daemon command is modelled.
* **`txndswrap`**: no part of the program uses it; the store takes badger as it is.
  **badger** is modelled as a datastore with atomic transactions that refuses a
  commit over a read-write conflict (external).
* **Message and auction types, casts, metrics, build info, generated code**: plain
  data.
* **The finalizer** is a library: what is opened is closed in reverse order.
* **Links and directories** among the deal data files, which GC ignores; failing
  removals of files.
* **Datastore failures while `makeBid` saves**, in `Bidding`: they are part of
  `BidStore` (`StoreFails`).
* **Encryption and decoding of sources** in `WinsHandler`: a choice between
  success and error.

## 8. Plan

Modules: all components with state are modelled. What could be added:

1. `Bidbot` with more than one bid before a restart, and with two workers, once
   the state space allows it (quota of a second attempt racing the first).
2. `DealFiles` with the boosted download on (`ChunkedDownload`), for TLC too.

Theorems: the safety and action properties of the passing runs are proved. What
could be added is what `Clients` computes, as lemmas of its own.
