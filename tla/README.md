# Vector52 backend: TLA+ specifications

Specifications, model-checking configurations and machine-checked proofs for the
Vector52 backend (`src/app`), a FastAPI service that audits claims about blockchain
transactions, preserves the evidence it acquires, packages it and anchors the package on
the HSK chain.

## 1. The system

| Component | Source | State it keeps | Operations that change it |
|---|---|---|---|
| Audit jobs API | `api/audits.py` | `jobs/<job_id>.json` | `submit_audit`, `_run_job` (background task) |
| Legacy claim endpoint | `api/claim_audit.py` | none of its own | `claim_audit` |
| Audit pipeline | `orchestration/audit_pipeline.py` | one case in memory | `run` |
| Evidence acquisition | `evidence/acquisition.py` | evidence records in memory | `acquire_l0`, `acquire_l1` |
| Evidence vault | `storage/evidence_vault.py` | `raw/<case>/<ev>.json`, `.sha256` | `preserve_raw` |
| Case repository | `storage/case_repository.py` | `cases/<case>/case.json` | `save`, `update_status` |
| Packager | `packaging/` | `packages/<case>.v52.zip` | `build_v52_zip` |
| Package verification | `api/verify.py` | none | none (pure) |
| HSK anchoring | `api/anchor.py`, `onchain/hsk_registry.py` | the account's nonces, the contract | `anchor_case` |
| Anchor store | `storage/anchor_store.py` | `anchors/<case>.json` | `save` |
| JSON-RPC provider | `providers/rpc.py` | status, failure count, circuit | `_call_json_rpc`, `acquire` |
| The Graph provider | `providers/the_graph.py` | status | `acquire` |
| Raw RPC evidence API | `api/rpc.py` | `raw/`, `records/` | `_acquire_rpc_object` |
| Wallet sessions | `security/wallet_sessions.py` | challenges, sessions | `create_challenge`, `verify_challenge`, `resolve` |
| Credit ledger | `billing/credits.py` | balances, settlements | `grant_settled`, `consume`, `refund`, `clear` |
| Wallet flow | `api/wallet_flow.py`, `providers/alchemy_transfers.py` | none | none (two concurrent paged reads) |
| DeFi intel, agent routes | `api/defi_core.py`, `api/intel.py`, `api/agent.py` | none | none (one coroutine per chain) |
| MCP probe, provider status | `api/integrations.py`, `api/providers.py` | none | none (a handshake of two requests; chain probes) |
| Factory and settings | `providers/factory.py`, `config.py` | settings, read once | none |
| Reconciliation, decoders, contribution | `evidence/reconciliation.py`, `protocols/`, `contribution/` | none | none (pure) |
| Claims and verdict | `claims/` | none | none (stubs) |
| x402 payments | `payments/x402.py` | the SDK's | configuration only |

**How they interact.** `POST /v1/audits` writes a job file and schedules `_run_job` on the
event loop; `POST /v1/claim-audit` runs the same pipeline inside the request. The pipeline
saves the case as RUNNING, awaits the two providers one after the other, preserves each
payload in the vault, seals vault and case status into a zip, saves the case with its final
status and returns; the job file is then overwritten with the outcome. Anchoring hashes the
manifest of that zip and sends it to a contract through web3 calls in worker threads. Files
are the only interface between the routes that write and the routes that read.

**What is hard.** Files are written in place and one after the other, so a failed write or
a restart leaves any prefix of them, the last one torn. Background tasks are not persisted.
Every answer of a provider must end in some record, case and job status. Anchor requests
interleave between their calls, share one key, talk to nodes that lag and to a pool that may
keep, mine or evict what they sent after they have given up on it. The routes without state
gather coroutines that read page after page or ask twice; what they answer has to be right
whichever of them fails, and the one that fails does not stop its siblings.

### What makes each component correct

* *Audit*: a record with a `raw_path` points at evidence that verifies; no case is COMPLETE
  over evidence that was half written; job, case, package and response overstate nothing, and come
  apart only after a failed write; what is published is never changed; every job settles, or a
  restart or its own file explains why not.
* *Anchoring*: every success is about a root that is on the chain and names the transaction
  that put it there; the cache never names another; every request is answered.
* *Provider*: what `acquire` returns or raises is among the outcomes acquisition expects; a payload
  is of the expected chain and degraded exactly when it has no receipt; retries are bounded; the circuit opens after three
  failures and lets nothing through. A record of the raw evidence routes points at whole evidence.
* *Wallet sessions*: a challenge opens one session at most, for the wallet that signed it; nothing
  expired is accepted, nothing unexpired is purged.
* *Credit ledger*: available + consumed = purchased in every snapshot; a settlement
  mints once.
* *Packages*: PASS is the answer exactly when an archive unpacks to what its manifest declares; a
  package that was built verifies.
* *Wallet flow*: what is listed is the newest part of the window with nothing left out in between, and
  it is everything its pages can reach unless the answer says truncated.
* *DeFi intel, MCP, factory*: every chain has its result and nothing unsound goes unmentioned; READY is
  shown only of a verified handshake; the endpoint, the expected chain and the flags of a chain agree.
* *Derivation*: an event is corroborated only by a log that agrees with all it says; no transfer is
  dropped or invented; no value is attributed without proof.

## 2. Modules

| Module | What it is |
|---|---|
| `EvidenceStatus` | the status algebra: answers of providers, record, case and envelope statuses |
| `AuditPipeline` | jobs API, claim endpoint, pipeline, acquisition, vault, repository and packager composed |
| `PublicationContract` | abstract: what a reader of the published files may rely on |
| `MCAuditPipeline` | the instance TLC checks |
| `AuditPipelineProofs` | theorems about `AuditPipeline` |
| `HskAnchor` | anchor route, registry client, store, with contract, chain and node |
| `AnchorPromise` | abstract: what the clients of anchoring may rely on |
| `MCHskAnchor` | the instance TLC checks |
| `HskAnchorProofs` | theorems about `HskAnchor` |
| `JsonRpcProvider` | one provider instance: uses, calls, attempts, circuit |
| `RawRpcEvidence` | a raw evidence request on top of its provider |
| `MCJsonRpcProvider`, `MCRawRpcEvidence` | the instances TLC checks |
| `ProviderProofs` | theorems about both |
| `CreditLedger` | the ledger under threads, statement by statement |
| `AtomicLedger` | abstract: the same calls, each at once |
| `MCCreditLedger` | the instance TLC checks |
| `CreditLedgerProofs` | theorems about `CreditLedger` |
| `WalletSessions` | the session store under threads and time |
| `MCWalletSessions` | the instance TLC checks |
| `WalletSessionsProofs` | theorems about `WalletSessions` |
| `ClientRequest` | one request of a route without state: its coroutines, `gather`, its answer |
| `WalletFlow` | the two paged reads of a wallet flow, on both channels |
| `DefiScan` | status, pools, pool activity and scan of the subgraphs |
| `McpProbe` | the MCP handshake, its two routes and the agent jobs |
| `PackageVerification` | `build_v52_zip` and `verify_package` as functions |
| `ReceiptDerivation` | reconciliation, ERC-20 decoding and contribution as functions |
| `ProviderSelection` | settings and factory as functions |
| `ClientRequests` | the six composed: one request of any of the routes |
| `MCClientRequests` | the instance TLC checks |
| `ClientRequestsProofs`, `WalletFlowProofs` | theorems about `ClientRequests` |

### Audit pipeline

`make_case_id`, the job id and the evidence id end in a fresh uuid, so every request works on
files of its own; an element of `Cases` is one request with the case and the job it creates.
`pc` is where its task is, `level` the evidence level it works on, `rec` its two evidence
records. The five kinds of files are `jobFile`, `caseFile`, `raw`, `sidecar` and `pkg`; a file is
absent, torn or whole, and the job and case file hold the status in them. One action is one write
or one await of the code:

| Action | Code |
|---|---|
| `SubmitAudit`, `ClaimAudit` | `submit_audit`; `claim_audit` with the first `repo.save` |
| `RunJob` | `_run_job` up to the first `repo.save` of the pipeline |
| `Acquire` | the provider call of `acquire_l0` or `acquire_l1` and the status it gives the record |
| `WriteRaw`, `WriteSidecar` | the two writes of `preserve_raw`; a failure is `PreservationFailed` |
| `BuildPackage` | `build_v52_zip`; its failure is a warning |
| `SaveCase` | the final `repo.save` |
| `FinishJob`, `AnswerClaim` | the success write of `_run_job`; the response of `claim_audit` |
| `FailJob`, `FailClaim` | `except Exception` of `_run_job`; the global handler's 500 |
| `Crash`, `TearFile`, `TearFirstFile` | the process is killed, possibly inside a write, the first one of a request included |

The answers of the providers are the sets `RpcAnswers` and `GraphAnswers`, taken from
`JsonRpcProvider.acquire` and `TheGraphProvider.acquire`: they keep the kind of outcome and what the
code branches on. `Escape` is an exception `acquire_l0` and `acquire_l1` do not catch.

`PublicationContract` is the same system seen by a client that only reads files: a job opens, a case
opens, a package is sealed while the case runs, the case closes with the status of the package if
there is one, the job settles as its case did or as FAILED. `KeepsPublicationContract` states that
`AuditPipeline` implements it, with `manifest` as the mapping of the package.

### HSK anchoring

An element of `Requests` is one POST. `asked` is the case it anchors and the root it supersedes; a
case stands for the manifest root of its package. `signed` is the transaction the request built. The
handler steps are `Post` (also the 400, 404 or 500 of a case without a sound package),
`CheckExisting`, then either the replay (`ReplayFromStore`, `ReplayFromLogs`) or
`ReadNonce`, `Send`, `WaitReceipt`, `Reread` and `Save`. `mempool` and `chain` are external: `Mine`
takes the transaction with the next nonce and runs `anchorCase` (`Succeeds`), `Drop` evicts one. A
read is answered from a prefix of the chain (`Views`) at most `MaxLag` transactions behind. `Outage`
fails one call with the HTTP statuses its exception can end in: 502 for what the client marks
retryable, 400 for the other `HskRegistryError`s of `anchor`, 500 where nothing catches it.

`AnchorPromise` is the same service seen by its clients: the chain anchors a root once; a request is
then answered with 200 at most once and names that transaction or, on a replay whose hash is lost, none;
the cache holds that transaction or nothing. `KeepsAnchorPromise` states that `HskAnchor` implements
it; the mapping (`Anchors`, `Wanted`, `Named`, `CachedTxs`) hides nonces, pool, lag and every failure.
A second transaction for a root, an answer about a root that is not on the chain, an answer or a cache
entry that names another transaction, or one that is changed later, all break it.

### JSON-RPC provider and the raw evidence routes

A *use* is what a caller awaits: `acquire` (the pipeline), `transaction` and `receipt` (`api/rpc.py`)
and `status` (`api/providers.py`). Each is a sequence of calls that starts with `validate_chain_id`.
`pc` is `"check"` before `_check_circuit` and `"attempt"` in the loop of `_call_json_rpc`:
`PassCircuit` and `FailAtCircuit`; `Retry` (transient failure, attempts left); `GiveUp` (any other
failure, with `_record_failure`); `ChainIdAnswered`, `TransactionAnswered`, `ReceiptAnswered`,
`BlockAnswered` (a result, and what the use does with it). `circuit` is closed, open, or cooled once
the cooldown has passed; `got` and `sent` are what the use has read and how many requests it sent. The
node is external and may answer an attempt with any failure of `TransientErrors` and
`PermanentErrors` and any result of `Results`.

`RawRpcEvidence` extends it: one GET of a transaction or receipt with an instance of its own, the
checks before it (`Reject`), the judgement of what it read (`Judge`), the three files
(`PreserveRaw`, `PreserveDigest`, `SaveRecord`), and `Kill` at any step, also inside a write.

The pipeline builds its provider with the default `max_retries=0` (`audit_pipeline.py:60`), whatever
`RPC_MAX_RETRIES` says; it is one of the values the theorems hold for.

### Credit ledger

`pc[t]` is the statement a thread is at, `op[t]` its call, `snap[t]` the snapshot it builds; `owner`
and `depth` are the `RLock`. `Add`, `Reset` and `Read` are the three forms of a statement on a
dictionary and `dict` holds all three dictionaries; `Grant`, `Consume`, `Refund`, `Clear` and
`Snapshot` place them in their operation, and `Settle` the test and the add of the settlement. The
refinement mapping to `AtomicLedger` hides the writes a
call has done before its last one (`Done`); a clear takes effect with its first reset.

### Wallet sessions

A call of a thread reads `clock` into `now[t]` when it starts and acts on it once it has the lock, so
time may pass and other threads may run in between. A critical section is one action, since nothing in
it takes a lock again: `CreateChallenge`, `TakeChallenge` (purge and pop, then the checks on what was
popped), `OpenSession` and `Resolve`. `issued`, `taken` and `opened` are histories the properties
need. The routes call the store from one event loop; the lock is there for callers that are not.
A "refused" stands for every 401, and for the 500 that `compare_digest` ends in when the message is
not ASCII: the challenge is gone in each case.

### The routes without state

`given` is one request with the settings it meets and what the services it asks hold, `tasks` the
coroutines it gathers, `answer` its response. `Raise` is a coroutine that raises: the first one
becomes the answer, and as `asyncio.gather` does not cancel the others they go on. The routes share no
variable of the process, so a behaviour of `ClientRequests` is one request.

* `WalletFlow`: a transfer is its position in the history of the wallet, newest first, and its day;
  `history` and the page it is read from are Alchemy's, external. `ReadPage` is one turn of the page
  loop of `AlchemyTransfersProvider.acquire` with the filters, the limit inside the page and what ends
  the loop (`Stops`); `FailPage` a page that raises, as a `ProviderError` (502) or not (500).
  `FlowRefusal` is what is answered before the first page. The wallet session the web channel asks for
  is `WalletSessions`' `Resolve`.
* `DefiScan`: a coroutine per chain, `AskStatus` and then `AskRows` for a scan, one of them for the
  other routes; a reply has GraphQL errors or not, a `_meta` or not, and rows or not.
* `McpProbe`: `ReadHealth` and `ReadCapabilities`, then `Reason` and `Ready` in the order of the checks.
  A document that is JSON and not an object, or a backend that is not, raises where `.get` is called; a
  URL httpx refuses and a version that is not text (`VersionRefused`) are a 500 too.
* `PackageVerification`, `ReceiptDerivation` and `ProviderSelection` are functions of the request
  (`Build` and `Verify`; `Reconcile`, `Decode` and `Contribution`; `Selection`), each answered in one step. A
  digest stands for the content that has it, a URL for the setting it comes from; hexadecimal and
  letter case, which `_lower` and `_to_int` normalise, are left out, and a log of a decoder is well formed
  or not. `Breaks` is what reconciliation raises on: null topics, or a log that is no object.

## 3. Runs

| Run | Configuration | Shows |
|---|---|---|
| `audit_pipeline` | one request, both routes, all provider configurations, 3 failed writes, 1 restart | the properties of the pipeline, its liveness and its refinement of `PublicationContract` |
| `audit_complete` | no faults | *violated*: COMPLETE only if all providers succeeded |
| `audit_raises` | no faults | *violated*: acquisition never raises to the pipeline |
| `hsk_anchor` | 2 requests, 2 cases, lag 1, one outage, drop, fault and restart each | the refinement of `AnchorPromise`, that a first answer is true of the chain, and that every request is answered |
| `hsk_anchor_duplicate` | 2 requests, 1 case, a perfect network | *violated*: no transaction for an anchored root |
| `hsk_anchor_bad_request` | 2 requests, 2 cases, a perfect network | *violated*: a 400 is a revert |
| `json_rpc_provider` | 2 retries, 5 uses of one instance | the properties of the provider: three failed uses open the circuit, a fourth meets it open or cooled, a fifth comes after |
| `json_rpc_unknown` | the same | *violated*: UNKNOWN means the transaction is absent |
| `raw_rpc_evidence` | 2 retries, one request, one failed write, a kill at any step | the files and the answer of a raw evidence request |
| `credit_ledger` | 2 threads, 2 wallets, 2 payments, 4 calls | conservation, snapshots that add up, the release of the lock, and the refinement of `AtomicLedger` |
| `wallet_sessions` | 2 threads, 2 wallets, 2 challenges, lifetimes 1 and 2, 4 calls, time up to 3 | single use, ownership and expiry of challenges and sessions |
| `client_requests` | every request of the routes and functions without state, over the inputs below | that each answer is exactly what its inputs support, and that every request ends with all its coroutines |

`json_rpc_provider` checks the bound on requests as a part of `TypeOK` (`sent` is in
`0..4 * (MaxRetries + 1)`). That nothing is sent through an open circuit, that no step of
`RawRpcEvidence` leaves its type and that every answer and cache entry names the anchoring transaction
are theorems (`NothingThroughOpenCircuit`, `RouteTypeCorrect`, `AnswersCorrect`, `StoreCorrect`) without
a run: the first two restate a guard and the types, the last two are implied by the refinement.

**Bounds.** `MaxFaults`, `MaxCrashes`, `MaxLag`, `MaxOutages` and `MaxDrops` cap the failures of the
environment; they appear only in the guards of the failing disjuncts. One audit request is enough
because requests share no file and no variable entry: the lemma `Others` of `AuditPipelineProofs`
proves that the steps of one leave the others' alone, and the theorems hold for any set of requests.
Three failed writes are the most one audit can meet on a path with an effect on another (payload,
package or case, and job). Two anchor requests are the smallest number that races, and two cases
the smallest that can supersede each other. The audit runs stop when their request has ended and the
anchoring runs when every request is answered, hence `CHECK_DEADLOCK FALSE`. `MaxUses` and
`MaxOps` end the other runs the same way. Five uses take the circuit through closed, open, cooled and
closed or open again; two retries tell a first, a middle and a last attempt apart. Four calls are the
shortest that purchase, spend and refund twice, or that present one challenge twice and use its
session; two threads are the smallest number that meets at a lock. The lifetimes differ, and time
passes both of them. Threads, nonces and tokens of `wallet_sessions` are symmetric: its properties are
invariants and name none of them.

`client_requests` has its inputs in its initial states, and a request ends, hence
`CHECK_DEADLOCK FALSE`:

* wallet flow: pages of 2, 2 pages in a window, limits 1 and 2, windows over 3 days, every history of
  one direction of up to 5 transfers (one more than the pages hold, at most one undated) with three of
  the other; so an exact fit, a page without a match, a transfer below the window on either page and
  the page cap all occur. A limit is at most a page, as in the code (100 and 1000).
* DeFi: three chains for the status, two for a scan, one for the others, every configuration and every reply.
* verification: every archive of two entries (also of one name, or damaged) under every manifest of
  two files, odd manifests, and what `Build` makes of every vault with and without extra data.
* derivation: every event against every receipt of two logs, every three logs for the decoder, every action.
* derivation of malformed input: two events against two logs, of every form.
* selection: every combination of the RPC settings and of the subgraphs, with an Ethereum id that is
  Mainnet's or not, an Avalanche id of either network or of none, and an HSK id of its own or one that is
  another chain's alias.

**Fairness.** `WF_vars(Task(c))`: every await of a task is a provider call with a timeout, and the
event loop runs a ready task. `WF_vars(Handle(r))`: every web3 call has a timeout
(`timeout_seconds`, `confirmation_timeout_seconds`). `WF_vars(Step)`, `WF_allVars(Handle)`: every
await of a provider is a request with a timeout or a bounded sleep, and the rest of a route is
synchronous. `WF_vars(Next)` of `ClientRequests`: every await is an HTTP call under a timeout, and
clients, who would be the unfair part, have already sent their request. `WF_vars(Inside(t))`: a thread that holds the lock runs on, the lock itself is not fair.
There is none on clients, crashes, mining or
eviction: the properties hold whether or not the chain makes progress.

## 4. Where the code and its texts disagree

* `audit_complete`: a transaction the RPC provider does not find (UNKNOWN) and a complete Graph answer
  make a COMPLETE case; `docs/FUNCIONAMIENTO.md:506` says COMPLETE needs full success of all providers.
  What COMPLETE does guarantee is `CompleteRestsOnEvidence`: both providers configured, and whole evidence of
  each, save that of a transaction that was not found.
* `audit_raises`: `acquisition.py:65` promises never to raise on partial failures; a Graph body that is
  not JSON or a receipt that is not an object does. The job is FAILED, the case RUNNING for ever.
* `hsk_anchor_duplicate`: `docs/FUNCIONAMIENTO.md:849` promises that a duplicate call sends no
  transaction; two concurrent ones both do, and the loser gets a 400.
* `hsk_anchor_bad_request`: `docs/API.md:1189` gives 400 two causes; a lost race for a nonce is a third.
* `json_rpc_unknown`: `acquire_l0` reads UNKNOWN from the words "not found" in any FAILED error, also
  one whose text is the node's; `docs/API.md:199` keeps UNKNOWN for a transaction that does not exist.

Seen in the same code, without a run of its own: a connection error in `_get_anchor_with_retry` or
`find_anchor_tx_hash` is answered 500 where `docs/API.md:1193` says 502; a torn cache file makes
every replay of its case answer 500 although the cache is "a convenience cache only"
(`storage/anchor_store.py:7`); `acquire_l1` documents a missing `_meta` as WARNING and records COMPLETE;
a Graph body over the size limit and a missing block are COMPLETE, against `models/evidence.py:35`; a
provider is built for every request, so its circuit breaker forgets its failures with it.
Of the routes without state:

* `verify_package` never hashes `manifest.json`, of which `docs/FUNCIONAMIENTO.md:818-820` says that
  `POST /v1/verify` recalculates the root; `VerificationIsExact` speaks of the other files.
* A package of a case without evidence files is answered 400 (its manifest declares nothing), a cause
  `docs/API.md:799` does not list; a damaged entry, or a digest that is not text, is a 500.
* `README.md:205-206` lists 43114 and 43113/fuji as two chains; both names resolve to the one Avalanche
  configured, so `fuji` under Mainnet settings is Mainnet. `PathReachesOneChain` speaks of the configured
  number only.
* With an API key, Ethereum's endpoint is Mainnet's whatever `ALCHEMY_ETH_CHAIN_ID` says, and Avalanche's is
  Mainnet's for every id but 43113 (`config.py:238-267`): with another id every use of the provider fails at
  its chain check. `PathReachesOneChain` names these settings (`Misfit`).
* `docs/FUNCIONAMIENTO.md:606` requires `V52_GRAPH_ENDPOINT` in production; `validate_production_requirements`
  asks for the Ethereum RPC only, and calls The Graph optional.
* A wallet flow whose number of transfers is just the limit is reported truncated, and one whose window
  goes on beyond its tenth page is not; a warning, not the flag, tells of the cap.
* The direction that is left over when the other has failed goes on reading pages after the 502.
* One chain whose answer is not JSON makes the scan of all chains a 500.
* A scan does not report the `_meta` of the query its pools come from.

## 5. Proofs

Checked with TLAPS for every value of the constants, from `BoundsAssumption` (the bounds are
naturals) and `AnchorAssumption` (the same, and `Zero` is not a case).

**`AuditPipelineProofs`.** The safety properties are not inductive: that a package equals the vault
holds later only because no phase after `package` writes to the vault, and that job and case agree
only because the status of the records no longer changes. `IInv` says, per request, what each phase
implies: which records exist and with which status and which files are still absent (`EvidenceInv`), what the
package was built from (`PackageInv`), what the case file holds before and after the save (`CaseInv`),
what the job file holds and why it may be left RUNNING (`JobInv`). `InductiveInvariant` proves it action by action, each
action's effect on the acting request first, the others by `Others`; the invariants of the runs follow
(`RecordsVerify`, `PackagesSeal`, `OrphansHaveACause`, and `StatusesAgree` with `BlameInv`, which keeps track of
the failed write behind a FAILED job), as do
the action property (`PublishedFilesStay`) and the refinement (`PipelineKeepsContract`): the initial
states map to initial states and every step to one action of the contract or a stutter.
`CompleteHasEvidence` needs an invariant of its own on top, `BackingInv` (`StatusesAreBacked`): once an audit is
past a level, what the record says is what the vault has of it, and a payload only comes from a configured provider.
A payload whose preservation broke half-way leaves a PARTIAL record, which never adds up to COMPLETE.
`AuditIsBounded` gives each request a measure (`StepsLeft`, twelve at most) which its steps lower and no other
step raises.

**`HskAnchorProofs`.** The invariant relates a request's phase to its transaction (signed from what it
asked, and on the chain with status ok once the receipt was read) and says that a transaction that
succeeded stays the one that anchored its case, because `Succeeds` excludes anchored cases and the
chain only grows. From it follow `AnswersCorrect`, `StoreCorrect` and `FirstAnswersCorrect`, and with
them `ServiceKeepsPromise`: a mined transaction is an `Anchor` or hidden, a 200 an `Answer`, a write or
loss of a cache file a `Cache`, and every other step leaves the four mapped variables alone.
A first answer claims more than its own transaction: `FirstAnswersCorrect` finds on the chain, for the request
that was told already_anchored FALSE, a successful transaction for its case that supersedes what it asked for,
with the superseded root before it (`SupersededFirst`).
A second invariant is about the key all requests share: `NonceInv` says that the chain has nonce `i - 1` at position
`i` and the pool later ones, each once. It holds by the rules of the external node and chain and is a lemma only
(`NoncesUsedOnce`, as is `AnchoredOnce` about the contract); `SameNonceSameTransaction` uses it to tell what a
nonce two handlers shared cannot do. `ClientsAgree` is about several requests at once: whoever asks, and whenever,
is told of one transaction. `RequestIsBounded` counts the steps of a handler.

**`ProviderProofs`** (`ProviderAssumption`, `RouteAssumption`: the bounds are naturals). `PInv` says
what a running use has read before the call it is at and how many requests the calls before and the
attempts of this one allow (`Budget`), and what each way to end left in `got` and `status`. It gives
`AcquireAnswers`, which is what `AuditPipeline` assumes of its L0 provider, `DegradedWithoutReceipt` and the other
safety properties. `UseIsBounded` counts down the checks and attempts of the calls a use has left.
`CircuitNeverOpensPerRequest` shows that the breaker is out of reach for instances used
fewer than three times, as all of the application's are. `RInv` adds the route: which of its files are
whole at each step, and why only an answer is preserved. `RouteUsesProvider` is the composition: what a request
does to its provider is a behaviour of `JsonRpcProvider`, so the theorems about a provider hold inside it;
`RequestIsBounded` uses that to bound the whole request.

**`CreditLedgerProofs`** (`CreditAssumption`: packs are positive, the bound is a natural). `LedgerInv`
has three parts beside the types: `LockInv` (a thread is at a statement exactly when it is the owner),
`AccountInv` (how far the owner's writes are from the account of each wallet, and what it has tested)
and `SnapInv` (what its snapshot has read). `StatementFrame` gives what every statement leaves alone,
so that each action's step is about its own write. From it follow `Conservation`, `SnapshotsTrue`,
`MutualExclusion` and, with `AddIsAtomic` and `ClearKeepsInv`, the refinement `LedgerIsAtomic`.
`CallIsBounded` counts the statements a thread has left before it releases the lock, the inner one of `clear`
included, and shows that no other thread touches that number.

**`WalletSessionsProofs`** (`SessionAssumption`: `Forged` is no wallet, lifetimes and bounds are
naturals). `WInv` adds to the properties what they need of each other: a nonce that is in the store is
not taken, a thread between its two critical sections holds a taken nonce nobody else holds and no
session was opened with, and no call knows a later time than the clock (`PurgeDropsExpired`).
`ValidCallsAccepted` is the other side of the properties, which only say who is refused: who holds an unexpired
session, or has signed an unexpired challenge nobody took, is let in.

**`ClientRequestsProofs`** (the assumptions of the six modules on the requests that can arrive). `GivenStays`
and `RouteActs` split the composition: a request never changes, and only the actions of its route
can run. Each route then has a small invariant of its own. `VerificationExact` needs that a finite set
of entries has a last one of each name (`LastEntry`, by the well-founded strict subset order) for
`ReadEntry` to be what unpacking leaves; `CorroborationExact` that a set of naturals has a least element
(`LeastNatural`) for the first log of an index. `ScanAccounts` says of each coroutine which replies
its phase has (`DefiInv`), `ReadyOnlyVerified` the same of the handshake (`McpInv`). `PathsReachOneChain` is a case
analysis over the key a name resolves to: no chain id is a word, so a key always resolves to itself, and a number
that is a configured id resolves to its own chain unless the settings give one number to two chains.
`DerivationExact` adds the order of the decoded transfers. `Decode` puts a claim at the position its rank has, which is
how many claims come before it; that ranks are the positions, each taken once, is again a pigeonhole (`RankOrders`,
`EveryRankIsTaken`), and replaces an induction over the sort. `CorroborationExact`, `DecodingExact` and
`AttributionExact` are its three parts.

**`WalletFlowProofs`.** `DirectionInv` says of a coroutine: what it has kept is the newest part of the
transfers of the window it has passed; while it reads it is at the end of a whole page, below its limit, and has
kept all of them; and if it is done below its limit it has kept all of them too and had a reason to stop
(`Exhausted`). `PageKeepsDirection` proves it for one page; a history that is newest first has nothing in
the window after a transfer below it.
`FlowListsTheLatest` and `UntruncatedFlowIsWhole` follow for any page size, number of pages, limit and history.
The module ends with what holds of every route, from the four invariants together (`CoroutineInv`): a 200 is only
made of coroutines that are all done (`SuccessIsWhole`), a sibling that goes on after the answer changes nothing that
was said (`AnswersAreFinal`), and every step is the answer or one await fewer (`RequestsAreBounded`).

**Model-checked only.** Liveness (`JobSettles`, `EveryPostAnswered`, `EveryUseEnds`, `EveryGetAnswered`,
`LockIsReleased`, `EveryRequestAnswered`): fairness and ENABLED are out of the prover's reach. Its safety half is
proved for each of them: every step lowers a measure that starts within a bound and that no other process raises
(`AuditIsBounded`, both `RequestIsBounded`, `UseIsBounded`, `CallIsBounded`, `RequestsAreBounded`), so nothing goes
on for ever; that nothing stops half-way either is what the runs check.

## 6. Not modelled, and why

Formatting, hashing and canonical JSON are abstracted to whole and torn contents: a whole file matches
its digest. `api/cases.py` and the other GET routes over the same files change nothing. Claims and verdict, and the
protocol resolver of the P0 pipeline, are stubs that return UNKNOWN. The x402 protocol is the SDK's; the code
here configures it. The subgraph (`subgraph/hsk-core`) runs elsewhere, in another language, and writes one
entity per event. Of settings and `main.py`, CORS, prices, storage back ends that do not exist yet and
logging are left out; of the provider status, the envelope it sums up. Smaller abstractions: the warning
about an oversized Graph body, versions and prices of MCP tools, the amounts of decoded transfers and the
fields of pools and swaps, which are copied. `PROJECT.json` lists every component with its status.

## 7. State of the plan

Every module of the plan is written, checked and, where the prover reaches, proved: all invariants and action
properties of the passing runs, and the three refinements, are theorems. What could be added next: the envelope of the
provider status over its three chain probes.
