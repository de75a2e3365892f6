----------------------------- MODULE HskAnchor -----------------------------
(***************************************************************************)
(* POST /v1/cases/{case_id}/anchor, HskRegistryClient and AnchorStore, with *)
(* the chain they talk to.  Every web3 call runs in a worker thread, so the *)
(* calls of concurrent requests interleave; all of them sign with the one   *)
(* key of the settings and so share its nonces.                             *)
(*                                                                         *)
(* A case stands for the manifest root of its package, which is built once. *)
(* A transaction is identified by its content, as its hash is.  The node    *)
(* behind the RPC url may be behind the chain by up to MaxLag transactions. *)
(***************************************************************************)
EXTENDS Naturals, Sequences, FiniteSets

CONSTANTS
  Requests,      \* the POSTs that can arrive
  Cases,         \* the packaged cases, one manifest root each
  Zero,          \* ZERO_BYTES32: nothing is superseded
  MaxLag,        \* bound: transactions a node can be behind
  MaxOutages,    \* bound: failed RPC calls
  MaxDrops,      \* bound: transactions evicted from the mempool
  MaxFaults,     \* bound: failed writes of the store
  MaxCrashes     \* bound: process restarts

ASSUME AnchorAssumption ==
  /\ Zero \notin Cases
  /\ MaxLag \in Nat /\ MaxOutages \in Nat /\ MaxDrops \in Nat
  /\ MaxFaults \in Nat /\ MaxCrashes \in Nat

VARIABLES
  pc,        \* where the handler of a request is
  asked,     \* the case it anchors, and the root that supersedes
  signed,    \* the transaction it signed
  reads,     \* _get_anchor_with_retry: reads made so far
  reply,     \* its response
  store,     \* anchors/<case_id>.json and the tx_hash in it
  mempool,   \* pending transactions
  chain,     \* mined transactions with the status in their receipt
  outages, drops, faults, crashes

handlers == <<pc, asked, signed, reads, reply>>
network == <<mempool, chain>>
bounds == <<outages, drops, faults, crashes>>
vars == <<handlers, store, network, bounds>>

READ_RETRIES == 3               \* _POST_MINE_READ_RETRIES

\* A transaction calls anchorCase(case, supersedes); NoTx is an empty tx_hash.
Txs == [nonce : Nat, case : Cases, supersedes : Cases \cup {Zero}]
NoTx == [nonce |-> 0, case |-> Zero, supersedes |-> Zero]
NotAsked == [case |-> Zero, supersedes |-> Zero]

Response(status, tx, already) ==
  [status |-> status, tx |-> tx, already_anchored |-> already]
NoReply == Response("none", NoTx, FALSE)
HttpError(status) == Response(status, NoTx, FALSE)

Ended == {"idle", "done", "lost"}
Phases == Ended \cup {"check", "replay", "logs", "nonce", "send", "receipt", "reread", "save"}

-----------------------------------------------------------------------------
(* V52EvidenceRegistry and the node that answers a call.                   *)

\* The transactions that anchored c among the first v mined ones.
AnchorTxs(v, c) == {chain[i].tx : i \in {j \in 1..v : chain[j].ok /\ chain[j].tx.case = c}}

IsAnchored(c) == AnchorTxs(Len(chain), c) # {}

\* How many mined transactions the node may know of.
Views == {v \in 0..Len(chain) : v + MaxLag >= Len(chain)}

Pending(n) == \E t \in mempool : t.nonce = n

\* The account's next nonce: what is mined and what is pending behind it count.
NextNonce ==
  CHOOSE n \in Len(chain)..(Len(chain) + Cardinality(mempool)) :
    ~Pending(n) /\ \A k \in Len(chain)..(n - 1) : Pending(k)

\* get_transaction_count(account, "pending") on a node that may be behind.
PendingNonces == {n \in 0..NextNonce : n + MaxLag >= NextNonce}

\* A nonce is used once: a second transaction with it is an RPC error.
Accepts(t) == t.nonce >= Len(chain) /\ ~Pending(t.nonce)

\* anchorCase reverts with AlreadyAnchored, SupersedesSelf or
\* UnknownSupersededManifestRoot.
Succeeds(t) ==
  /\ ~IsAnchored(t.case)
  /\ t.supersedes = Zero \/ (t.supersedes # t.case /\ IsAnchored(t.supersedes))

-----------------------------------------------------------------------------
Init ==
  /\ pc = [r \in Requests |-> "idle"]
  /\ asked = [r \in Requests |-> NotAsked]
  /\ signed = [r \in Requests |-> NoTx]
  /\ reads = [r \in Requests |-> 0]
  /\ reply = [r \in Requests |-> NoReply]
  /\ store = [c \in Cases |-> [file |-> "absent", tx_hash |-> NoTx]]
  /\ mempool = {}
  /\ chain = <<>>
  /\ outages = 0 /\ drops = 0 /\ faults = 0 /\ crashes = 0

Goto(r, p) == pc' = [pc EXCEPT ![r] = p]

Answer(r, response) == Goto(r, "done") /\ reply' = [reply EXCEPT ![r] = response]

\* The RPC call of this step fails: an HskRegistryError with this status, or an
\* exception nothing catches.
Outage(r, statuses) ==
  /\ outages < MaxOutages
  /\ outages' = outages + 1
  /\ \E status \in statuses : Answer(r, HttpError(status))
  /\ UNCHANGED <<asked, signed, reads, store, drops, faults, crashes>>

\* What the steps of a handler leave alone when no call fails.
Quiet == UNCHANGED <<asked, store, network, bounds>>

-----------------------------------------------------------------------------
\* The case, its package and the manifest in it are read before any call: a
\* missing case or package is a 404, a package without a readable manifest a
\* 400, and a torn file, which the archive reader raises on, a 500.
Post(r) ==
  /\ pc[r] = "idle"
  /\ \E c \in Cases, s \in Cases \cup {Zero} :
       asked' = [asked EXCEPT ![r] = [case |-> c, supersedes |-> s]]
  /\ \/ Goto(r, "check") /\ UNCHANGED reply
     \/ \E status \in {"400", "404", "500"} : Answer(r, HttpError(status))
  /\ UNCHANGED <<signed, reads, store, network, bounds>>

\* existing = await to_thread(client.get_anchor)
CheckExisting(r) ==
  /\ pc[r] = "check"
  /\ \/ /\ \E v \in Views :
             Goto(r, IF AnchorTxs(v, asked[r].case) # {} THEN "replay" ELSE "nonce")
        /\ UNCHANGED <<signed, reads, reply>>
        /\ Quiet
     \/ Outage(r, {"502"}) /\ UNCHANGED network

\* Already anchored: the cached hash, or the event log; json.loads raises on a
\* torn cache.
ReplayFromStore(r) ==
  /\ pc[r] = "replay"
  /\ LET cached == store[asked[r].case] IN
       \/ /\ cached.file = "whole"
          /\ Answer(r, Response("200", cached.tx_hash, TRUE))
       \/ /\ cached.file = "torn"
          /\ Answer(r, HttpError("500"))
       \/ /\ cached.file = "absent"
          /\ Goto(r, "logs")
          /\ UNCHANGED reply
  /\ UNCHANGED <<signed, reads>>
  /\ Quiet

\* Mutated form: a replay answers like a first anchor.
ReplayUnmarked(r) ==
  /\ pc[r] = "logs"
  /\ \E v \in Views : \E tx \in AnchorTxs(v, asked[r].case) \cup {NoTx} :
       Answer(r, Response("200", tx, FALSE))
  /\ UNCHANGED <<signed, reads>>
  /\ Quiet

\* find_anchor_tx_hash: "" when the node errs or has no such log; a connection
\* error is not caught.
ReplayFromLogs(r) ==
  /\ pc[r] = "logs"
  /\ \/ /\ \E v \in Views : \E tx \in AnchorTxs(v, asked[r].case) \cup {NoTx} :
             Answer(r, Response("200", tx, TRUE))
        /\ UNCHANGED <<signed, reads>>
        /\ Quiet
     \/ Outage(r, {"500"}) /\ UNCHANGED network

-----------------------------------------------------------------------------
(* HskRegistryClient.anchor.                                               *)

ReadNonce(r) ==
  /\ pc[r] = "nonce"
  /\ \/ /\ \E n \in PendingNonces :
             signed' = [signed EXCEPT ![r] =
               [nonce |-> n, case |-> asked[r].case, supersedes |-> asked[r].supersedes]]
        /\ Goto(r, "send")
        /\ UNCHANGED <<reads, reply>>
        /\ Quiet
     \/ Outage(r, {"400", "502"}) /\ UNCHANGED network

\* send_raw_transaction: a node that errs may have passed the transaction on.
Send(r) ==
  /\ pc[r] = "send"
  /\ UNCHANGED chain
  /\ \/ /\ Accepts(signed[r])
        /\ mempool' = mempool \cup {signed[r]}
        /\ Goto(r, "receipt")
        /\ UNCHANGED <<asked, signed, reads, reply, store, bounds>>
     \/ /\ ~Accepts(signed[r])
        /\ Answer(r, HttpError("400"))
        /\ UNCHANGED <<asked, signed, reads, store, mempool, bounds>>
     \/ /\ Outage(r, {"400", "502"})
        /\ \/ Accepts(signed[r]) /\ mempool' = mempool \cup {signed[r]}
           \/ UNCHANGED mempool

\* Mutated form: a mined transaction is taken for a successful one.
ReceiptUnchecked(r) ==
  /\ pc[r] = "receipt"
  /\ \E i \in 1..Len(chain) : chain[i].tx = signed[r]
  /\ Goto(r, "reread")
  /\ UNCHANGED <<signed, reads, reply>>
  /\ Quiet

\* Mutated form: no confirmation timeout.
WaitForever(r) ==
  /\ pc[r] = "receipt"
  /\ \E i \in 1..Len(chain) :
       /\ chain[i].tx = signed[r]
       /\ \/ chain[i].ok /\ Goto(r, "reread") /\ UNCHANGED reply
          \/ ~chain[i].ok /\ Answer(r, HttpError("400"))
  /\ UNCHANGED <<signed, reads>>
  /\ Quiet

\* wait_for_transaction_receipt: mined, reverted, TimeExhausted, or an outage.
WaitReceipt(r) ==
  /\ pc[r] = "receipt"
  /\ \/ /\ \E i \in 1..Len(chain) :
             /\ chain[i].tx = signed[r]
             /\ \/ chain[i].ok /\ Goto(r, "reread") /\ UNCHANGED reply
                \/ ~chain[i].ok /\ Answer(r, HttpError("400"))
        /\ UNCHANGED <<signed, reads>>
        /\ Quiet
     \/ /\ Answer(r, HttpError("502"))
        /\ UNCHANGED <<signed, reads>>
        /\ Quiet
     \/ Outage(r, {"400", "502"}) /\ UNCHANGED network

-----------------------------------------------------------------------------
\* Mutated form: the reads are not counted against READ_RETRIES.
RereadForever(r) ==
  /\ pc[r] = "reread"
  /\ \E v \in Views :
       IF AnchorTxs(v, asked[r].case) # {}
       THEN Goto(r, "save") /\ UNCHANGED reads
       ELSE reads' = [reads EXCEPT ![r] = reads[r] + 1] /\ UNCHANGED pc
  /\ UNCHANGED <<signed, reply>>
  /\ Quiet

\* _get_anchor_with_retry: its HskRegistryError is caught by nobody.
Reread(r) ==
  /\ pc[r] = "reread"
  /\ \/ /\ \E v \in Views :
             IF AnchorTxs(v, asked[r].case) # {}
             THEN Goto(r, "save") /\ UNCHANGED <<reads, reply>>
             ELSE /\ reads' = [reads EXCEPT ![r] = reads[r] + 1]
                  /\ IF reads'[r] = READ_RETRIES
                     THEN Answer(r, HttpError("502"))
                     ELSE UNCHANGED <<pc, reply>>
        /\ UNCHANGED signed
        /\ Quiet
     \/ Outage(r, {"500"}) /\ UNCHANGED network

\* store.save, then the response.
Save(r) ==
  /\ pc[r] = "save"
  /\ \/ /\ store' = [store EXCEPT ![asked[r].case] =
                       [file |-> "whole", tx_hash |-> signed[r]]]
        /\ Answer(r, Response("200", signed[r], FALSE))
        /\ UNCHANGED faults
     \/ /\ faults < MaxFaults /\ faults' = faults + 1
        /\ \E left \in {store[asked[r].case].file, "torn"} :
             store' = [store EXCEPT ![asked[r].case].file = left]
        /\ Answer(r, HttpError("500"))
  /\ UNCHANGED <<asked, signed, reads, network, outages, drops, crashes>>

-----------------------------------------------------------------------------
(* The chain and the process.                                              *)

Mine ==
  /\ \E t \in mempool :
       /\ t.nonce = Len(chain)
       /\ chain' = Append(chain, [tx |-> t, ok |-> Succeeds(t)])
       /\ mempool' = mempool \ {t}
  /\ UNCHANGED <<handlers, store, bounds>>

\* A pending transaction is evicted: whoever waits for it times out.
Drop ==
  /\ drops < MaxDrops /\ drops' = drops + 1
  /\ \E t \in mempool : mempool' = mempool \ {t}
  /\ UNCHANGED <<handlers, store, chain, outages, faults, crashes>>

Crash ==
  /\ crashes < MaxCrashes /\ crashes' = crashes + 1
  /\ pc' = [r \in Requests |-> IF pc[r] \in Ended THEN pc[r] ELSE "lost"]
  /\ \/ UNCHANGED store
     \/ \E r \in Requests :
          pc[r] = "save" /\ store' = [store EXCEPT ![asked[r].case].file = "torn"]
  /\ UNCHANGED <<asked, signed, reads, reply, network, outages, drops, faults>>

-----------------------------------------------------------------------------
Handle(r) ==
  \/ CheckExisting(r) \/ ReplayFromStore(r) \/ ReplayFromLogs(r) \/ ReadNonce(r)
  \/ Send(r) \/ WaitReceipt(r) \/ Reread(r) \/ Save(r)

Next ==
  \/ \E r \in Requests : Post(r) \/ Handle(r)
  \/ Mine \/ Drop \/ Crash

Spec == Init /\ [][Next]_vars

\* Every call has a timeout, so a handler takes its next step; the chain owes
\* nothing.
FairSpec == Spec /\ \A r \in Requests : WF_vars(Handle(r))

-----------------------------------------------------------------------------
(* Properties.                                                             *)

TypeOK ==
  /\ pc \in [Requests -> Phases]
  /\ asked \in [Requests -> [case : Cases \cup {Zero}, supersedes : Cases \cup {Zero}]]
  /\ signed \in [Requests -> Txs \cup {NoTx}]
  /\ reads \in [Requests -> 0..READ_RETRIES]
  /\ reply \in [Requests -> [status : {"none", "200", "400", "404", "500", "502"},
                             tx : Txs \cup {NoTx}, already_anchored : BOOLEAN]]
  /\ store \in [Cases -> [file : {"absent", "torn", "whole"}, tx_hash : Txs \cup {NoTx}]]
  /\ mempool \in SUBSET Txs
  /\ chain \in Seq([tx : Txs, ok : BOOLEAN])
  /\ outages \in 0..MaxOutages /\ drops \in 0..MaxDrops
  /\ faults \in 0..MaxFaults /\ crashes \in 0..MaxCrashes

\* The request is told that it anchored its root.
FirstAnswered(r) == reply[r].status = "200" /\ ~reply[r].already_anchored

\* A client that is told already_anchored FALSE finds on the chain what it asked
\* for: a successful transaction for its case that supersedes the root it named,
\* which was anchored before it and is another one.  No client that asked to
\* supersede something else, in a race for the same case, is told so too.
FirstAnswerAnchoredTheRoot ==
  \A r \in Requests : FirstAnswered(r) =>
    /\ \E i \in 1..Len(chain) :
         /\ chain[i].ok /\ chain[i].tx = reply[r].tx
         /\ chain[i].tx.case = asked[r].case
         /\ chain[i].tx.supersedes = asked[r].supersedes
         /\ asked[r].supersedes # Zero =>
              \E j \in 1..(i - 1) : chain[j].ok /\ chain[j].tx.case = asked[r].supersedes
    /\ asked[r].supersedes # asked[r].case
    /\ \A q \in Requests :
         FirstAnswered(q) /\ asked[q].case = asked[r].case => asked[q] = asked[r]

\* What the clients see of the state.
Anchors == [c \in Cases |-> AnchorTxs(Len(chain), c)]
Wanted == [r \in Requests |-> asked[r].case]
Named == [r \in Requests |-> IF reply[r].status = "200" THEN {reply[r].tx} ELSE {}]
CachedTxs == [c \in Cases |-> IF store[c].file = "whole" THEN {store[c].tx_hash} ELSE {}]

Promise ==
  INSTANCE AnchorPromise WITH
    NoCase <- Zero, anchor <- Anchors, wanted <- Wanted, named <- Named, cached <- CachedTxs

\* Seen by its clients, the service keeps AnchorPromise: one anchor for a root,
\* and no other transaction in an answer or in the cache, however the requests
\* for the root interleaved, timed out, crashed and retried.
KeepsAnchorPromise == Promise!Spec

\* A request that is not killed is answered, whatever the chain does.
EveryPostAnswered ==
  \A r \in Requests : pc[r] = "check" ~> reply[r].status # "none" \/ pc[r] = "lost"

\* FUNCIONAMIENTO.md 14.3: if the root exists, in a retry or a duplicate call,
\* "no se envia una nueva transaccion" (no new transaction is sent).
NoTransactionForAnchoredRoot ==
  [][\A t \in mempool' \ mempool : ~IsAnchored(t.case)]_vars

\* API.md: 400 is a broken manifest or a revert of the contract: with a node
\* that answers every call, a 400 given once the manifest was read and a
\* transaction signed has a reverted transaction.
BadRequestIsARevert ==
  \A r \in Requests : reply[r].status = "400" /\ outages = 0 /\ signed[r] # NoTx =>
    \E i \in 1..Len(chain) : chain[i].tx = signed[r] /\ ~chain[i].ok
=============================================================================
