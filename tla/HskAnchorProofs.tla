-------------------------- MODULE HskAnchorProofs --------------------------
(***************************************************************************)
(* Proofs about HskAnchor, for every set of requests and cases, every lag   *)
(* of the nodes and every number of outages, evictions, faults and crashes. *)
(***************************************************************************)
EXTENDS HskAnchor, FiniteSetTheorems, TLAPS

(* What AnchorPromise says of a single state.                              *)

\* Every 200 is about a root that is on the chain, and every transaction hash
\* in it is the one that anchored that root, however the requests for the root
\* interleaved, timed out and retried.
AnswersNameTheAnchor ==
  \A r \in Requests : reply[r].status = "200" =>
    /\ IsAnchored(asked[r].case)
    /\ reply[r].tx \in AnchorTxs(Len(chain), asked[r].case) \cup {NoTx}

\* The cache never names another transaction than the one that anchored the
\* case: not one that reverted, was dropped or belongs to a lost race.
StoreNamesTheAnchor ==
  \A c \in Cases : store[c].file = "whole" => store[c].tx_hash \in AnchorTxs(Len(chain), c)

\* The response a client got is about an anchored root.
ReplyInv(r) ==
  /\ reply[r].status # "none" => pc[r] = "done"
  /\ reply[r].status = "200" =>
       /\ IsAnchored(asked[r].case)
       /\ reply[r].tx \in AnchorTxs(Len(chain), asked[r].case) \cup {NoTx}
       /\ ~reply[r].already_anchored =>
            /\ reply[r].tx = signed[r] /\ signed[r].supersedes = asked[r].supersedes
            /\ signed[r] \in AnchorTxs(Len(chain), asked[r].case)

\* What a handler knows at each of its steps.
HandlerInv(r) ==
  /\ IF pc[r] = "idle" THEN asked[r].case = Zero ELSE asked[r].case \in Cases
  /\ pc[r] \in {"replay", "logs"} => IsAnchored(asked[r].case)
  /\ pc[r] \in {"send", "receipt", "reread", "save"} =>
       signed[r].case = asked[r].case /\ signed[r].supersedes = asked[r].supersedes
  /\ pc[r] \in {"reread", "save"} => signed[r] \in AnchorTxs(Len(chain), asked[r].case)
  /\ pc[r] \notin {"reread", "save", "done", "lost"} => reads[r] = 0
  /\ pc[r] = "reread" => reads[r] < READ_RETRIES

RInv(r) == ReplyInv(r) /\ HandlerInv(r)

IInv ==
  /\ TypeOK
  /\ \A r \in Requests : RInv(r)
  /\ StoreNamesTheAnchor

-----------------------------------------------------------------------------
(* The chain.                                                              *)

\* The types of the two parts of the state.
HandlersOK ==
  /\ pc \in [Requests -> Phases]
  /\ asked \in [Requests -> [case : Cases \cup {Zero}, supersedes : Cases \cup {Zero}]]
  /\ signed \in [Requests -> Txs \cup {NoTx}]
  /\ reads \in [Requests -> 0..READ_RETRIES]
  /\ reply \in [Requests -> [status : {"none", "200", "400", "404", "500", "502"},
                             tx : Txs \cup {NoTx}, already_anchored : BOOLEAN]]

WorldOK ==
  /\ store \in [Cases -> [file : {"absent", "torn", "whole"}, tx_hash : Txs \cup {NoTx}]]
  /\ mempool \in SUBSET Txs
  /\ chain \in Seq([tx : Txs, ok : BOOLEAN])
  /\ outages \in 0..MaxOutages /\ drops \in 0..MaxDrops
  /\ faults \in 0..MaxFaults /\ crashes \in 0..MaxCrashes

LEMMA TypeParts == TypeOK <=> HandlersOK /\ WorldOK
  BY DEF TypeOK, HandlersOK, WorldOK

\* What a node that is behind shows is on the chain.
LEMMA ViewsAreTrue ==
  ASSUME NEW v \in Views, NEW c
  PROVE  AnchorTxs(v, c) \subseteq AnchorTxs(Len(chain), c)
  BY DEF Views, AnchorTxs

\* A transaction that anchored a case is a transaction of the chain.
LEMMA AnchorType ==
  ASSUME WorldOK, NEW c, NEW tx \in AnchorTxs(Len(chain), c)
  PROVE  tx \in Txs /\ tx.case = c
  <1>1. PICK i \in 1..Len(chain) : chain[i].tx = tx /\ chain[i].tx.case = c
    BY DEF AnchorTxs
  <1> DEFINE R == [tx : Txs, ok : BOOLEAN]
  <1>2. chain \in Seq(R)
    BY DEF WorldOK
  <1>3. chain[i] \in R
    <2> HIDE DEF R
    <2> QED BY <1>2
  <1> QED BY <1>1, <1>3

\* A step that mines nothing leaves a request's root as it was.
LEMMA SameAnchors ==
  ASSUME NEW r, UNCHANGED chain, asked'[r] = asked[r]
  PROVE  /\ AnchorTxs(Len(chain), asked[r].case)' = AnchorTxs(Len(chain), asked[r].case)
         /\ IsAnchored(asked[r].case)' = IsAnchored(asked[r].case)
  BY DEF AnchorTxs, IsAnchored

\* A mined transaction stays mined.
LEMMA MineEffect ==
  ASSUME WorldOK, Mine
  PROVE  /\ \A c : AnchorTxs(Len(chain), c) \subseteq AnchorTxs(Len(chain), c)'
         /\ WorldOK'
         /\ UNCHANGED <<handlers, store>>
  <1>1. PICK t \in mempool : /\ chain' = Append(chain, [tx |-> t, ok |-> Succeeds(t)])
                             /\ mempool' = mempool \ {t}
    BY DEF Mine
  <1>2. t \in Txs /\ Succeeds(t) \in BOOLEAN
    BY <1>1 DEF WorldOK, Succeeds, IsAnchored
  <1>3. [tx |-> t, ok |-> Succeeds(t)] \in [tx : Txs, ok : BOOLEAN]
    BY <1>2
  <1>4. /\ chain' \in Seq([tx : Txs, ok : BOOLEAN])
        /\ Len(chain') = Len(chain) + 1
        /\ \A i \in 1..Len(chain) : chain'[i] = chain[i]
    BY <1>1, <1>3 DEF WorldOK
  <1>5. \A c : AnchorTxs(Len(chain), c) \subseteq AnchorTxs(Len(chain), c)'
    BY <1>4 DEF WorldOK, AnchorTxs
  <1>6. WorldOK'
    BY <1>1, <1>4 DEF WorldOK, Mine, bounds
  <1> QED BY <1>5, <1>6 DEF Mine

-----------------------------------------------------------------------------
(* A step of a handler.                                                    *)

\* What no step of a handler does.
LEMMA Others ==
  ASSUME HandlersOK, NEW r \in Requests, NEW d \in Requests, d # r, Post(r) \/ Handle(r)
  PROVE  /\ pc'[d] = pc[d] /\ asked'[d] = asked[d] /\ signed'[d] = signed[d]
         /\ reads'[d] = reads[d] /\ reply'[d] = reply[d]
  <1>1. CASE Post(r)
    BY <1>1 DEF HandlersOK, Post, Goto, Answer
  <1>2. CASE CheckExisting(r)
    BY <1>2 DEF HandlersOK, CheckExisting, Goto, Answer, Outage, Quiet
  <1>3. CASE ReplayFromStore(r)
    BY <1>3 DEF HandlersOK, ReplayFromStore, Goto, Answer, Quiet
  <1>4. CASE ReplayFromLogs(r)
    BY <1>4 DEF HandlersOK, ReplayFromLogs, Goto, Answer, Outage, Quiet
  <1>5. CASE ReadNonce(r)
    BY <1>5 DEF HandlersOK, ReadNonce, Goto, Answer, Outage, Quiet
  <1>6. CASE Send(r)
    BY <1>6 DEF HandlersOK, Send, Goto, Answer, Outage
  <1>7. CASE WaitReceipt(r)
    BY <1>7 DEF HandlersOK, WaitReceipt, Goto, Answer, Outage, Quiet
  <1>8. CASE Reread(r)
    BY <1>8 DEF HandlersOK, Reread, Goto, Answer, Outage, Quiet
  <1>9. CASE Save(r)
    BY <1>9 DEF HandlersOK, Save, Goto, Answer
  <1> QED BY <1>1, <1>2, <1>3, <1>4, <1>5, <1>6, <1>7, <1>8, <1>9 DEF Handle

\* Handlers neither mine nor unmine.
LEMMA ChainKept ==
  ASSUME NEW r \in Requests, Post(r) \/ Handle(r)
  PROVE  UNCHANGED chain
  BY DEF Post, Handle, CheckExisting, ReplayFromStore, ReplayFromLogs, ReadNonce, Send,
     WaitReceipt, Reread, Save, Quiet, network

\* An answer that is an error needs nothing.
LEMMA ErrorStep ==
  ASSUME HandlersOK, WorldOK, NEW r \in Requests, RInv(r), pc[r] \notin Ended,
         NEW status \in {"400", "500", "502"}, Answer(r, HttpError(status)),
         UNCHANGED <<asked, signed, reads>>
  PROVE  HandlersOK' /\ RInv(r)'
  <1>1. pc'[r] = "done" /\ reply'[r] = HttpError(status)
    BY DEF HandlersOK, Answer, Goto
  <1>2. HttpError(status) \in [status : {"none", "200", "400", "404", "500", "502"},
                               tx : Txs \cup {NoTx}, already_anchored : BOOLEAN]
    BY DEF HttpError, Response
  <1>3. HandlersOK'
    BY <1>2 DEF HandlersOK, Answer, Goto, Phases, Ended
  <1>4. asked'[r].case \in Cases
    BY DEF RInv, HandlerInv, Ended
  <1> QED BY <1>1, <1>3, <1>4 DEF RInv, ReplyInv, HandlerInv, HttpError, Response

\* A request is posted.
LEMMA PostStep ==
  ASSUME HandlersOK, NEW r \in Requests, RInv(r), Post(r)
  PROVE  HandlersOK' /\ RInv(r)'
  <1>1. PICK c \in Cases, s \in Cases \cup {Zero} :
          asked' = [asked EXCEPT ![r] = [case |-> c, supersedes |-> s]]
    BY DEF Post
  <1>2. pc[r] = "idle" /\ asked'[r].case = c /\ UNCHANGED <<signed, reads>>
    BY <1>1 DEF HandlersOK, Post
  <1>3. asked' \in [Requests -> [case : Cases \cup {Zero}, supersedes : Cases \cup {Zero}]]
    BY <1>1 DEF HandlersOK
  <1>4. CASE Goto(r, "check") /\ UNCHANGED reply
    <2>1. HandlersOK' /\ pc'[r] = "check"
      BY <1>2, <1>3, <1>4 DEF HandlersOK, Goto, Phases, Ended
    <2> QED BY <1>2, <1>4, <2>1 DEF RInv, ReplyInv, HandlerInv
  <1>5. ASSUME NEW status \in {"400", "404", "500"}, Answer(r, HttpError(status))
        PROVE  HandlersOK' /\ RInv(r)'
    <2>1. HttpError(status) \in [status : {"none", "200", "400", "404", "500", "502"},
                                 tx : Txs \cup {NoTx}, already_anchored : BOOLEAN]
      BY DEF HttpError, Response
    <2>2. HandlersOK' /\ pc'[r] = "done" /\ reply'[r] = HttpError(status)
      BY <1>2, <1>3, <1>5, <2>1 DEF HandlersOK, Answer, Goto, Phases, Ended
    <2> QED BY <1>2, <2>2 DEF RInv, ReplyInv, HandlerInv, HttpError, Response
  <1> QED BY <1>4, <1>5 DEF Post

\* The node's answer decides between a replay and a new transaction.
LEMMA CheckExistingStep ==
  ASSUME HandlersOK, WorldOK, NEW r \in Requests, RInv(r), CheckExisting(r)
  PROVE  HandlersOK' /\ RInv(r)'
  <1>1. pc[r] = "check" /\ UNCHANGED <<asked, signed, reads, chain>>
    BY DEF CheckExisting, Quiet, Outage, network
  <1>2. CASE Outage(r, {"502"})
    BY <1>1, <1>2, ErrorStep DEF Outage, Ended
  <1>3. ASSUME NEW v \in Views,
               Goto(r, IF AnchorTxs(v, asked[r].case) # {} THEN "replay" ELSE "nonce"),
               UNCHANGED reply
        PROVE  HandlersOK' /\ RInv(r)'
    <2>1. /\ pc'[r] \in {"replay", "nonce"}
          /\ pc'[r] = "replay" => IsAnchored(asked[r].case)
      BY <1>3, ViewsAreTrue DEF HandlersOK, Goto, IsAnchored
    <2>2. HandlersOK'
      BY <1>1, <1>3 DEF HandlersOK, Goto, Phases, Ended
    <2> QED BY <1>1, <1>3, <2>1, <2>2, SameAnchors DEF RInv, ReplyInv, HandlerInv, IsAnchored
  <1> QED BY <1>2, <1>3 DEF CheckExisting

\* A 200 that is a replay names the anchor or nothing.
LEMMA ReplayAnswer ==
  ASSUME HandlersOK, WorldOK, NEW r \in Requests, RInv(r), pc[r] \in {"replay", "logs"},
         NEW tx \in AnchorTxs(Len(chain), asked[r].case) \cup {NoTx},
         Answer(r, Response("200", tx, TRUE)), UNCHANGED <<asked, signed, reads, chain>>
  PROVE  HandlersOK' /\ RInv(r)'
  <1>1. pc'[r] = "done" /\ reply'[r] = Response("200", tx, TRUE)
    BY DEF HandlersOK, Answer, Goto
  <1>2. tx \in Txs \cup {NoTx}
    BY AnchorType
  <1>3. Response("200", tx, TRUE) \in [status : {"none", "200", "400", "404", "500", "502"},
                                       tx : Txs \cup {NoTx}, already_anchored : BOOLEAN]
    BY <1>2 DEF Response
  <1>4. HandlersOK'
    BY <1>3 DEF HandlersOK, Answer, Goto, Phases, Ended
  <1>5. IsAnchored(asked[r].case) /\ asked[r].case \in Cases
    BY DEF RInv, HandlerInv
  <1>6. ReplyInv(r)'
    BY <1>1, <1>5, SameAnchors DEF ReplyInv, Response
  <1> QED BY <1>1, <1>4, <1>5, <1>6 DEF RInv, HandlerInv

LEMMA ReplayFromStoreStep ==
  ASSUME HandlersOK, WorldOK, StoreNamesTheAnchor, NEW r \in Requests, RInv(r),
         ReplayFromStore(r)
  PROVE  HandlersOK' /\ RInv(r)'
  <1>1. pc[r] = "replay" /\ UNCHANGED <<asked, signed, reads, chain>>
    BY DEF ReplayFromStore, Quiet, network
  <1>2. asked[r].case \in Cases
    BY <1>1 DEF RInv, HandlerInv
  <1>3. CASE store[asked[r].case].file = "whole"
    <2>1. Answer(r, Response("200", store[asked[r].case].tx_hash, TRUE))
      BY <1>3 DEF ReplayFromStore
    <2>2. store[asked[r].case].tx_hash \in AnchorTxs(Len(chain), asked[r].case)
      BY <1>2, <1>3 DEF StoreNamesTheAnchor
    <2> QED BY <1>1, <2>1, <2>2, ReplayAnswer
  <1>4. CASE store[asked[r].case].file = "torn"
    BY <1>1, <1>4, ErrorStep DEF ReplayFromStore, Ended
  <1>5. CASE Goto(r, "logs") /\ UNCHANGED reply
    <2>1. pc'[r] = "logs"
      BY <1>5 DEF HandlersOK, Goto
    <2>2. HandlersOK'
      BY <1>1, <1>5 DEF HandlersOK, Goto, Phases, Ended
    <2> QED BY <1>1, <1>5, <2>1, <2>2, SameAnchors DEF RInv, ReplyInv, HandlerInv, IsAnchored
  <1> QED BY <1>3, <1>4, <1>5 DEF ReplayFromStore

LEMMA ReplayFromLogsStep ==
  ASSUME HandlersOK, WorldOK, NEW r \in Requests, RInv(r), ReplayFromLogs(r)
  PROVE  HandlersOK' /\ RInv(r)'
  <1>1. pc[r] = "logs" /\ UNCHANGED <<asked, signed, reads, chain>>
    BY DEF ReplayFromLogs, Quiet, Outage, network
  <1>2. CASE Outage(r, {"500"})
    BY <1>1, <1>2, ErrorStep DEF Outage, Ended
  <1>3. ASSUME NEW v \in Views, NEW tx \in AnchorTxs(v, asked[r].case) \cup {NoTx},
               Answer(r, Response("200", tx, TRUE))
        PROVE  HandlersOK' /\ RInv(r)'
    <2>1. tx \in AnchorTxs(Len(chain), asked[r].case) \cup {NoTx}
      BY <1>3, ViewsAreTrue
    <2> QED BY <1>1, <1>3, <2>1, ReplayAnswer
  <1> QED BY <1>2, <1>3 DEF ReplayFromLogs

\* What is signed is what was asked for.
LEMMA ReadNonceStep ==
  ASSUME HandlersOK, WorldOK, NEW r \in Requests, RInv(r), ReadNonce(r)
  PROVE  HandlersOK' /\ RInv(r)'
  <1>1. pc[r] = "nonce" /\ UNCHANGED <<asked, reads, chain>>
    BY DEF ReadNonce, Quiet, Outage, network
  <1>2. CASE Outage(r, {"400", "502"})
    BY <1>1, <1>2, ErrorStep DEF Outage, Ended
  <1>3. ASSUME NEW n \in PendingNonces,
               signed' = [signed EXCEPT ![r] =
                 [nonce |-> n, case |-> asked[r].case, supersedes |-> asked[r].supersedes]],
               Goto(r, "send"), UNCHANGED reply
        PROVE  HandlersOK' /\ RInv(r)'
    <2>1. asked[r].case \in Cases /\ asked[r].supersedes \in Cases \cup {Zero}
      BY <1>1 DEF HandlersOK, RInv, HandlerInv
    <2>2. n \in Nat
      BY DEF PendingNonces
    <2>3. [nonce |-> n, case |-> asked[r].case, supersedes |-> asked[r].supersedes] \in Txs
      BY <2>1, <2>2 DEF Txs
    <2>4. /\ pc'[r] = "send"
          /\ signed'[r].case = asked[r].case
          /\ signed'[r].supersedes = asked[r].supersedes
      BY <1>3 DEF HandlersOK, Goto
    <2>5. HandlersOK'
      BY <1>1, <1>3, <2>3 DEF HandlersOK, Goto, Phases, Ended
    <2> QED BY <1>1, <1>3, <2>4, <2>5 DEF RInv, ReplyInv, HandlerInv
  <1> QED BY <1>2, <1>3 DEF ReadNonce

LEMMA SendStep ==
  ASSUME HandlersOK, WorldOK, NEW r \in Requests, RInv(r), Send(r)
  PROVE  HandlersOK' /\ RInv(r)'
  <1>1. pc[r] = "send" /\ UNCHANGED <<asked, signed, reads, chain>>
    BY DEF Send, Outage
  <1>2. CASE Outage(r, {"400", "502"}) \/ Answer(r, HttpError("400"))
    BY <1>1, <1>2, ErrorStep DEF Outage, Ended
  <1>3. CASE Goto(r, "receipt") /\ UNCHANGED reply
    <2>1. pc'[r] = "receipt"
      BY <1>3 DEF HandlersOK, Goto
    <2>2. HandlersOK'
      BY <1>1, <1>3 DEF HandlersOK, Goto, Phases, Ended
    <2> QED BY <1>1, <1>3, <2>1, <2>2, SameAnchors DEF RInv, ReplyInv, HandlerInv
  <1> QED BY <1>2, <1>3 DEF Send

\* A receipt with status 1 is an anchor of the case.
LEMMA WaitReceiptStep ==
  ASSUME HandlersOK, WorldOK, NEW r \in Requests, RInv(r), WaitReceipt(r)
  PROVE  HandlersOK' /\ RInv(r)'
  <1>1. pc[r] = "receipt" /\ UNCHANGED <<asked, signed, reads, chain>>
    BY DEF WaitReceipt, Quiet, Outage, network
  <1>2. CASE \/ Outage(r, {"400", "502"})
             \/ Answer(r, HttpError("400")) \/ Answer(r, HttpError("502"))
    BY <1>1, <1>2, ErrorStep DEF Outage, Ended
  <1>3. ASSUME NEW i \in 1..Len(chain), chain[i].tx = signed[r], chain[i].ok,
               Goto(r, "reread"), UNCHANGED reply
        PROVE  HandlersOK' /\ RInv(r)'
    <2>1. pc'[r] = "reread" /\ reads[r] = 0
      BY <1>1, <1>3 DEF HandlersOK, Goto, RInv, HandlerInv
    <2>2. signed[r] \in AnchorTxs(Len(chain), asked[r].case)
      BY <1>1, <1>3 DEF RInv, HandlerInv, AnchorTxs
    <2>3. HandlersOK'
      BY <1>1, <1>3 DEF HandlersOK, Goto, Phases, Ended
    <2> QED BY <1>1, <1>3, <2>1, <2>2, <2>3, SameAnchors
        DEF RInv, ReplyInv, HandlerInv, READ_RETRIES
  <1> QED BY <1>2, <1>3 DEF WaitReceipt

LEMMA RereadStep ==
  ASSUME HandlersOK, WorldOK, NEW r \in Requests, RInv(r), Reread(r)
  PROVE  HandlersOK' /\ RInv(r)'
  <1>1. pc[r] = "reread" /\ UNCHANGED <<asked, signed, chain>>
    BY DEF Reread, Quiet, Outage, network
  <1>2. CASE Outage(r, {"500"})
    BY <1>1, <1>2, ErrorStep DEF Outage, Ended
  <1>3. CASE Goto(r, "save") /\ UNCHANGED <<reads, reply>>
    <2>1. pc'[r] = "save"
      BY <1>3 DEF HandlersOK, Goto
    <2>2. HandlersOK'
      BY <1>1, <1>3 DEF HandlersOK, Goto, Phases, Ended
    <2> QED BY <1>1, <1>3, <2>1, <2>2, SameAnchors DEF RInv, ReplyInv, HandlerInv
  <1>4. CASE /\ reads' = [reads EXCEPT ![r] = reads[r] + 1]
             /\ IF reads'[r] = READ_RETRIES
                THEN Answer(r, HttpError("502"))
                ELSE UNCHANGED <<pc, reply>>
    <2>1. reads[r] \in 0..2 /\ reads'[r] = reads[r] + 1
      BY <1>1, <1>4 DEF HandlersOK, RInv, HandlerInv, READ_RETRIES
    <2>2. reads' \in [Requests -> 0..READ_RETRIES]
      BY <1>4, <2>1 DEF HandlersOK, READ_RETRIES
    <2>3. CASE Answer(r, HttpError("502"))
      <3>1. pc'[r] = "done" /\ reply'[r] = HttpError("502")
        BY <2>3 DEF HandlersOK, Answer, Goto
      <3>2. HttpError("502") \in [status : {"none", "200", "400", "404", "500", "502"},
                                  tx : Txs \cup {NoTx}, already_anchored : BOOLEAN]
        BY DEF HttpError, Response
      <3>3. HandlersOK'
        BY <1>1, <2>2, <2>3, <3>2 DEF HandlersOK, Answer, Goto, Phases, Ended
      <3> QED BY <1>1, <3>1, <3>3 DEF RInv, ReplyInv, HandlerInv, HttpError, Response
    <2>4. CASE reads'[r] # READ_RETRIES /\ UNCHANGED <<pc, reply>>
      <3>1. reads'[r] < READ_RETRIES
        BY <2>1, <2>4 DEF READ_RETRIES
      <3>2. HandlersOK'
        BY <1>1, <2>2, <2>4 DEF HandlersOK
      <3> QED BY <1>1, <2>4, <3>1, <3>2, SameAnchors DEF RInv, ReplyInv, HandlerInv
    <2> QED BY <1>4, <2>3, <2>4
  <1> QED BY <1>2, <1>3, <1>4 DEF Reread

LEMMA SaveStep ==
  ASSUME HandlersOK, WorldOK, NEW r \in Requests, RInv(r), Save(r)
  PROVE  HandlersOK' /\ RInv(r)'
  <1>1. pc[r] = "save" /\ UNCHANGED <<asked, signed, reads, chain>>
    BY DEF Save, network
  <1>2. CASE Answer(r, HttpError("500"))
    BY <1>1, <1>2, ErrorStep DEF Ended
  <1>3. CASE Answer(r, Response("200", signed[r], FALSE))
    <2>1. pc'[r] = "done" /\ reply'[r] = Response("200", signed[r], FALSE)
      BY <1>3 DEF HandlersOK, Answer, Goto
    <2>2. Response("200", signed[r], FALSE)
            \in [status : {"none", "200", "400", "404", "500", "502"},
                 tx : Txs \cup {NoTx}, already_anchored : BOOLEAN]
      BY DEF HandlersOK, Response
    <2>3. HandlersOK'
      BY <1>1, <1>3, <2>2 DEF HandlersOK, Answer, Goto, Phases, Ended
    <2>4. /\ signed[r] \in AnchorTxs(Len(chain), asked[r].case)
          /\ signed[r].supersedes = asked[r].supersedes
          /\ asked[r].case \in Cases
      BY <1>1 DEF RInv, HandlerInv
    <2>5. ReplyInv(r)'
      BY <1>1, <2>1, <2>4, SameAnchors DEF ReplyInv, Response, IsAnchored
    <2> QED BY <1>1, <2>1, <2>3, <2>4, <2>5 DEF RInv, HandlerInv
  <1> QED BY <1>2, <1>3 DEF Save

LEMMA OwnStep ==
  ASSUME HandlersOK, WorldOK, StoreNamesTheAnchor, NEW r \in Requests, RInv(r),
         Post(r) \/ Handle(r)
  PROVE  HandlersOK' /\ RInv(r)'
  BY PostStep, CheckExistingStep, ReplayFromStoreStep, ReplayFromLogsStep,
     ReadNonceStep, SendStep, WaitReceiptStep, RereadStep, SaveStep DEF Handle

-----------------------------------------------------------------------------
(* The chain, the store and the other requests.                            *)

\* Mining, and any step that leaves the chain alone, keeps what is known of a
\* request that does not move.
LEMMA RequestFrame ==
  ASSUME NEW d \in Requests, RInv(d),
         pc'[d] = pc[d], asked'[d] = asked[d], signed'[d] = signed[d],
         reads'[d] = reads[d], reply'[d] = reply[d],
         AnchorTxs(Len(chain), asked[d].case)
           \subseteq AnchorTxs(Len(chain), asked[d].case)'
  PROVE  RInv(d)'
  <1>1. IsAnchored(asked[d].case) => IsAnchored(asked[d].case)'
    BY DEF IsAnchored
  <1>2. ReplyInv(d)'
    BY <1>1 DEF RInv, ReplyInv
  <1>3. HandlerInv(d)'
    BY <1>1 DEF RInv, HandlerInv
  <1> QED BY <1>2, <1>3 DEF RInv

\* A request that loses its process keeps what was answered.
LEMMA LostRequest ==
  ASSUME HandlersOK, NEW d \in Requests, RInv(d), Crash
  PROVE  RInv(d)'
  <1>1. /\ pc'[d] = IF pc[d] \in Ended THEN pc[d] ELSE "lost"
        /\ UNCHANGED <<asked, signed, reads, reply, chain>>
    BY DEF Crash, network
  <1>2. CASE pc[d] \in Ended
    BY <1>1, <1>2, RequestFrame, SameAnchors
  <1>3. CASE pc[d] \notin Ended
    <2>1. pc'[d] = "lost" /\ asked[d].case \in Cases /\ reply[d].status = "none"
      BY <1>1, <1>3 DEF RInv, ReplyInv, HandlerInv, Ended
    <2> QED BY <1>1, <2>1 DEF RInv, ReplyInv, HandlerInv
  <1> QED BY <1>2, <1>3

\* The cache is written with the transaction of a successful receipt only.
LEMMA StoreStep ==
  ASSUME HandlersOK, WorldOK, StoreNamesTheAnchor, NEW r \in Requests, RInv(r),
         Post(r) \/ Handle(r)
  PROVE  StoreNamesTheAnchor'
  <1>1. UNCHANGED chain
    BY ChainKept
  <1>2. \A c : AnchorTxs(Len(chain), c)' = AnchorTxs(Len(chain), c)
    BY <1>1 DEF AnchorTxs
  <1>3. CASE UNCHANGED store
    BY <1>2, <1>3 DEF StoreNamesTheAnchor
  <1>4. CASE Save(r)
    <2>1. signed[r] \in AnchorTxs(Len(chain), asked[r].case) /\ asked[r].case \in Cases
      BY <1>4 DEF Save, RInv, HandlerInv
    <2>2. ASSUME NEW c \in Cases, store'[c].file = "whole"
          PROVE  store'[c].tx_hash \in AnchorTxs(Len(chain), c)
      <3>1. CASE store' = [store EXCEPT ![asked[r].case] =
                             [file |-> "whole", tx_hash |-> signed[r]]]
        BY <2>1, <2>2, <3>1 DEF WorldOK, StoreNamesTheAnchor
      <3>2. ASSUME NEW left \in {store[asked[r].case].file, "torn"},
                   store' = [store EXCEPT ![asked[r].case].file = left]
            PROVE  store'[c].tx_hash \in AnchorTxs(Len(chain), c)
        <4>1. store'[c].tx_hash = store[c].tx_hash /\ store[c].file = "whole"
          BY <2>1, <2>2, <3>2 DEF WorldOK
        <4> QED BY <4>1 DEF StoreNamesTheAnchor
      <3> QED BY <1>4, <3>1, <3>2 DEF Save
    <2> QED BY <1>2, <2>2 DEF StoreNamesTheAnchor
  <1> QED
    BY <1>3, <1>4 DEF Post, Handle, CheckExisting, ReplayFromStore, ReplayFromLogs,
      ReadNonce, Send, WaitReceipt, Reread, Outage, Quiet

\* A handler writes well-typed transactions and cache entries.
LEMMA WorldStep ==
  ASSUME HandlersOK, WorldOK, NEW r \in Requests, RInv(r), Post(r) \/ Handle(r)
  PROVE  WorldOK'
  <1>1. UNCHANGED chain
    BY ChainKept
  <1>2. outages' \in 0..MaxOutages /\ faults' \in 0..MaxFaults /\ UNCHANGED <<drops, crashes>>
    <2>1. \/ UNCHANGED bounds
          \/ /\ outages < MaxOutages /\ outages' = outages + 1
             /\ UNCHANGED <<drops, faults, crashes>>
          \/ /\ faults < MaxFaults /\ faults' = faults + 1
             /\ UNCHANGED <<outages, drops, crashes>>
      <3>1. CASE Save(r)
        BY <3>1 DEF Save, bounds
      <3>2. CASE Post(r) \/ ReplayFromStore(r)
        BY <3>2 DEF Post, ReplayFromStore, Quiet
      <3>3. CASE CheckExisting(r) \/ ReplayFromLogs(r) \/ ReadNonce(r) \/ WaitReceipt(r)
                  \/ Reread(r) \/ Send(r)
        BY <3>3 DEF CheckExisting, ReplayFromLogs, ReadNonce, WaitReceipt, Reread, Send,
          Outage, Quiet
      <3> QED BY <3>1, <3>2, <3>3 DEF Handle
    <2> QED BY <2>1, AnchorAssumption DEF WorldOK, bounds
  <1>3. mempool' \in SUBSET Txs
    <2>1. CASE UNCHANGED mempool
      BY <2>1 DEF WorldOK
    <2>2. CASE Send(r) /\ mempool' = mempool \cup {signed[r]}
      <3>1. signed[r].case \in Cases
        BY <2>2 DEF Send, RInv, HandlerInv
      <3>2. signed[r] \in Txs
        BY <3>1, AnchorAssumption DEF HandlersOK, NoTx
      <3> QED BY <2>2, <3>2 DEF WorldOK
    <2> QED
      BY <2>1, <2>2 DEF Post, Handle, CheckExisting, ReplayFromStore, ReplayFromLogs,
        ReadNonce, Send, WaitReceipt, Reread, Save, Quiet, network
  <1>4. store' \in [Cases -> [file : {"absent", "torn", "whole"}, tx_hash : Txs \cup {NoTx}]]
    <2>1. CASE UNCHANGED store
      BY <2>1 DEF WorldOK
    <2>2. CASE store' = [store EXCEPT ![asked[r].case] =
                           [file |-> "whole", tx_hash |-> signed[r]]]
      BY <2>2 DEF HandlersOK, WorldOK
    <2>3. ASSUME Save(r), NEW left \in {store[asked[r].case].file, "torn"},
                 store' = [store EXCEPT ![asked[r].case].file = left]
          PROVE  store' \in [Cases -> [file : {"absent", "torn", "whole"},
                                       tx_hash : Txs \cup {NoTx}]]
      <3>1. asked[r].case \in Cases
        BY <2>3 DEF Save, RInv, HandlerInv
      <3>2. left \in {"absent", "torn", "whole"}
        BY <3>1 DEF WorldOK
      <3> QED BY <2>3, <3>2 DEF WorldOK
    <2> QED
      BY <2>1, <2>2, <2>3 DEF Post, Handle, CheckExisting, ReplayFromStore,
        ReplayFromLogs, ReadNonce, Send, WaitReceipt, Reread, Save, Outage, Quiet
  <1> QED BY <1>1, <1>2, <1>3, <1>4 DEF WorldOK

LEMMA CrashWorld ==
  ASSUME HandlersOK, WorldOK, StoreNamesTheAnchor, Crash
  PROVE  HandlersOK' /\ WorldOK' /\ StoreNamesTheAnchor'
  <1>1. HandlersOK'
    BY DEF HandlersOK, Crash, Phases, Ended
  <1>2. /\ crashes' \in 0..MaxCrashes
        /\ UNCHANGED <<mempool, chain, outages, drops, faults>>
    BY AnchorAssumption DEF WorldOK, Crash, network
  <1>3. /\ store' \in [Cases -> [file : {"absent", "torn", "whole"},
                                 tx_hash : Txs \cup {NoTx}]]
        /\ \A c \in Cases : store'[c].file = "whole" => store'[c] = store[c]
    <2>1. CASE UNCHANGED store
      BY <2>1 DEF WorldOK
    <2>2. ASSUME NEW r \in Requests,
                 store' = [store EXCEPT ![asked[r].case].file = "torn"]
          PROVE  /\ store' \in [Cases -> [file : {"absent", "torn", "whole"},
                                          tx_hash : Txs \cup {NoTx}]]
                 /\ \A c \in Cases : store'[c].file = "whole" => store'[c] = store[c]
      BY <2>2 DEF WorldOK
    <2> QED BY <2>1, <2>2 DEF Crash
  <1>4. \A c : AnchorTxs(Len(chain), c)' = AnchorTxs(Len(chain), c)
    BY <1>2 DEF AnchorTxs
  <1>5. StoreNamesTheAnchor'
    BY <1>3, <1>4 DEF StoreNamesTheAnchor
  <1> QED BY <1>1, <1>2, <1>3, <1>5 DEF WorldOK

-----------------------------------------------------------------------------
LEMMA InitIInv == Init => IInv
  <1> SUFFICES ASSUME Init PROVE IInv
    OBVIOUS
  <1>1. HandlersOK
    BY DEF Init, HandlersOK, Phases, Ended, NotAsked, NoTx, NoReply, Response, READ_RETRIES
  <1>2. WorldOK
    BY AnchorAssumption DEF Init, WorldOK
  <1>3. \A r \in Requests : RInv(r)
    BY DEF Init, RInv, ReplyInv, HandlerInv, NoReply, NotAsked, Response
  <1>4. StoreNamesTheAnchor
    BY DEF Init, StoreNamesTheAnchor
  <1> QED BY <1>1, <1>2, <1>3, <1>4, TypeParts DEF IInv

LEMMA NextIInv == IInv /\ [Next]_vars => IInv'
  <1> SUFFICES ASSUME HandlersOK, WorldOK, StoreNamesTheAnchor,
                      \A r \in Requests : RInv(r), [Next]_vars
               PROVE  /\ HandlersOK' /\ WorldOK' /\ StoreNamesTheAnchor'
                      /\ \A r \in Requests : RInv(r)'
    BY TypeParts DEF IInv, TypeOK, HandlersOK, WorldOK
  <1>1. ASSUME NEW r \in Requests, Post(r) \/ Handle(r)
        PROVE  /\ HandlersOK' /\ WorldOK' /\ StoreNamesTheAnchor'
               /\ \A d \in Requests : RInv(d)'
    <2>1. HandlersOK' /\ RInv(r)'
      BY <1>1, OwnStep
    <2>2. ASSUME NEW d \in Requests, d # r PROVE RInv(d)'
      <3>1. /\ pc'[d] = pc[d] /\ asked'[d] = asked[d] /\ signed'[d] = signed[d]
            /\ reads'[d] = reads[d] /\ reply'[d] = reply[d] /\ UNCHANGED chain
        BY <1>1, <2>2, Others, ChainKept
      <3> QED BY <3>1, RequestFrame, SameAnchors
    <2> QED BY <1>1, <2>1, <2>2, WorldStep, StoreStep
  <1>2. CASE Mine
    <2>1. /\ \A c : AnchorTxs(Len(chain), c) \subseteq AnchorTxs(Len(chain), c)'
          /\ WorldOK' /\ UNCHANGED <<pc, asked, signed, reads, reply, store>>
      BY <1>2, MineEffect DEF handlers
    <2>2. HandlersOK'
      BY <2>1 DEF HandlersOK
    <2>3. StoreNamesTheAnchor'
      BY <2>1 DEF StoreNamesTheAnchor
    <2>4. ASSUME NEW d \in Requests PROVE RInv(d)'
      <3>1. AnchorTxs(Len(chain), asked[d].case)
              \subseteq AnchorTxs(Len(chain), asked[d].case)'
        BY <2>1
      <3> QED BY <2>1, <3>1, RequestFrame
    <2> QED BY <2>1, <2>2, <2>3, <2>4
  <1>3. CASE Drop
    <2>1. /\ mempool' \subseteq mempool /\ drops' \in 0..MaxDrops
          /\ UNCHANGED <<pc, asked, signed, reads, reply, store, chain, outages,
                         faults, crashes>>
      BY <1>3, AnchorAssumption DEF Drop, WorldOK, handlers
    <2>2. HandlersOK' /\ WorldOK'
      BY <2>1 DEF HandlersOK, WorldOK
    <2>3. \A c : AnchorTxs(Len(chain), c)' = AnchorTxs(Len(chain), c)
      BY <2>1 DEF AnchorTxs
    <2>4. StoreNamesTheAnchor'
      BY <2>1, <2>3 DEF StoreNamesTheAnchor
    <2>5. ASSUME NEW d \in Requests PROVE RInv(d)'
      BY <2>1, RequestFrame, SameAnchors
    <2> QED BY <2>2, <2>4, <2>5
  <1>4. CASE Crash
    BY <1>4, CrashWorld, LostRequest
  <1>5. CASE UNCHANGED vars
    <2>1. UNCHANGED <<pc, asked, signed, reads, reply, store, mempool, chain, outages,
                      drops, faults, crashes>>
      BY <1>5 DEF vars, handlers, network, bounds
    <2>2. HandlersOK' /\ WorldOK'
      BY <2>1 DEF HandlersOK, WorldOK
    <2>3. \A c : AnchorTxs(Len(chain), c)' = AnchorTxs(Len(chain), c)
      BY <2>1 DEF AnchorTxs
    <2>4. StoreNamesTheAnchor'
      BY <2>1, <2>3 DEF StoreNamesTheAnchor
    <2>5. ASSUME NEW d \in Requests PROVE RInv(d)'
      BY <2>1, RequestFrame, SameAnchors
    <2> QED BY <2>2, <2>4, <2>5
  <1> QED BY <1>1, <1>2, <1>3, <1>4, <1>5 DEF Next

\* The inductive invariant holds in every reachable state.
THEOREM AnchorInvariant == Spec => []IInv
  BY InitIInv, NextIInv, PTL DEF Spec

\* Type correctness; that the re-reads stop needs the invariant.
THEOREM AnchorTypeCorrect == Spec => []TypeOK
  <1>1. IInv => TypeOK
    BY DEF IInv
  <1> QED BY <1>1, AnchorInvariant, PTL

\* A 200 is about an anchored root and names no other transaction.
THEOREM AnswersCorrect == Spec => []AnswersNameTheAnchor
  <1>1. IInv => AnswersNameTheAnchor
    BY DEF IInv, RInv, ReplyInv, AnswersNameTheAnchor
  <1> QED BY <1>1, AnchorInvariant, PTL

\* The cache names the anchoring transaction or nothing.
THEOREM StoreCorrect == Spec => []StoreNamesTheAnchor
  <1>1. IInv => StoreNamesTheAnchor
    BY DEF IInv
  <1> QED BY <1>1, AnchorInvariant, PTL

-----------------------------------------------------------------------------
(* The promise to the clients.                                             *)

LEMMA AnchorsKept ==
  ASSUME UNCHANGED chain
  PROVE  UNCHANGED Anchors /\ \A c : AnchorTxs(Len(chain), c)' = AnchorTxs(Len(chain), c)
  BY DEF Anchors, AnchorTxs

\* Mining anchors at most one case, and one that had no anchor.
LEMMA MinedAnchor ==
  ASSUME WorldOK, Mine
  PROVE  UNCHANGED Anchors \/ \E c \in Cases : Promise!Anchor(c)
  <1>1. PICK t \in mempool : chain' = Append(chain, [tx |-> t, ok |-> Succeeds(t)])
    BY DEF Mine
  <1>2. t \in Txs /\ Succeeds(t) \in BOOLEAN
    BY <1>1 DEF WorldOK, Succeeds, IsAnchored
  <1>3. [tx |-> t, ok |-> Succeeds(t)] \in [tx : Txs, ok : BOOLEAN]
    BY <1>2
  <1>4. /\ Len(chain') = Len(chain) + 1
        /\ \A i \in 1..Len(chain) : chain'[i] = chain[i]
        /\ chain'[Len(chain) + 1] = [tx |-> t, ok |-> Succeeds(t)]
        /\ Len(chain) \in Nat
    BY <1>1, <1>3 DEF WorldOK
  <1>5. ASSUME NEW c, ~(Succeeds(t) /\ t.case = c)
        PROVE  AnchorTxs(Len(chain), c)' = AnchorTxs(Len(chain), c)
    BY <1>4, <1>5 DEF AnchorTxs
  <1>6. CASE Succeeds(t)
    <2>1. t.case \in Cases /\ AnchorTxs(Len(chain), t.case) = {}
      BY <1>2, <1>6 DEF Txs, Succeeds, IsAnchored
    <2>2. AnchorTxs(Len(chain), t.case)' = {t}
      <3>1. t \in AnchorTxs(Len(chain), t.case)'
        <4>1. Len(chain) + 1 \in 1..Len(chain')
          BY <1>4
        <4> QED BY <1>4, <1>6, <4>1 DEF AnchorTxs
      <3>2. ASSUME NEW tx \in AnchorTxs(Len(chain), t.case)' PROVE tx = t
        <4>1. PICK i \in 1..Len(chain') :
                chain'[i].tx = tx /\ chain'[i].ok /\ chain'[i].tx.case = t.case
          BY <3>2 DEF AnchorTxs
        <4>2. CASE i \in 1..Len(chain)
          <5>1. tx \in AnchorTxs(Len(chain), t.case)
            BY <1>4, <4>1, <4>2 DEF AnchorTxs
          <5> QED BY <2>1, <5>1
        <4>3. CASE i = Len(chain) + 1
          BY <1>4, <4>1, <4>3
        <4> QED BY <1>4, <4>2, <4>3
      <3> QED BY <3>1, <3>2
    <2>3. Anchors' = [Anchors EXCEPT ![t.case] = {t}]
      BY <1>5, <2>2 DEF Anchors
    <2>4. Anchors[t.case] = {} /\ t \in Anchors'[t.case]
      BY <2>1, <2>2 DEF Anchors
    <2>5. UNCHANGED <<Wanted, Named, CachedTxs>>
      BY DEF Mine, handlers, Wanted, Named, CachedTxs
    <2>6. Promise!Anchor(t.case)
      BY <2>3, <2>4, <2>5 DEF Promise!Anchor
    <2> QED BY <2>1, <2>6
  <1>7. CASE ~Succeeds(t)
    BY <1>5, <1>7 DEF Anchors
  <1> QED BY <1>6, <1>7

\* What a step does to the cache.
CacheKept(c) ==
  \/ UNCHANGED CachedTxs
  \/ \E kept \in SUBSET Anchors[c] : CachedTxs' = [CachedTxs EXCEPT ![c] = kept]

\* A failed write, or a process that dies in one, leaves the old hash or none.
LEMMA TornCache ==
  ASSUME WorldOK, StoreNamesTheAnchor, NEW c \in Cases,
         NEW left \in {store[c].file, "torn"}, store' = [store EXCEPT ![c].file = left]
  PROVE  CacheKept(c)
  <1>1. \A d \in Cases : d # c => CachedTxs'[d] = CachedTxs[d]
    BY DEF WorldOK, CachedTxs
  <1>2. CachedTxs'[c] \in {CachedTxs[c], {}}
    BY DEF WorldOK, CachedTxs
  <1>3. CachedTxs[c] \subseteq Anchors[c]
    BY DEF CachedTxs, Anchors, StoreNamesTheAnchor
  <1>4. CachedTxs' = [CachedTxs EXCEPT ![c] = CachedTxs'[c]]
    BY <1>1 DEF CachedTxs
  <1> QED BY <1>2, <1>3, <1>4 DEF CacheKept

\* A step of a request that touches the answers and the cache as the promise
\* allows is a step of the promise.
LEMMA PromisedStep ==
  ASSUME NEW r \in Requests, asked[r].case \in Cases, UNCHANGED chain, UNCHANGED asked,
         CacheKept(asked[r].case),
         \/ UNCHANGED Named
         \/ /\ Named[r] = {} /\ Anchors[asked[r].case] # {}
            /\ \E tx \in Anchors[asked[r].case] \cup {NoTx} :
                 Named' = [Named EXCEPT ![r] = {tx}]
  PROVE  Promise!Next \/ UNCHANGED Promise!promise
  <1>1. UNCHANGED Anchors /\ UNCHANGED Wanted /\ Wanted[r] = asked[r].case
    BY AnchorsKept DEF Wanted
  <1>2. UNCHANGED CachedTxs \/ Promise!Cached(asked[r].case)
    BY DEF CacheKept, Promise!Cached
  <1>3. CASE UNCHANGED Named
    <2>1. UNCHANGED Promise!promise \/ Promise!Cache(asked[r].case)
      BY <1>1, <1>2, <1>3 DEF Promise!Cache, Promise!promise
    <2> QED BY <2>1 DEF Promise!Next
  <1>4. CASE /\ Named[r] = {} /\ Anchors[asked[r].case] # {}
             /\ \E tx \in Anchors[asked[r].case] \cup {NoTx} :
                  Named' = [Named EXCEPT ![r] = {tx}]
    <2>1. Promise!Answered(r) \/ Promise!Unnamed(r)
      BY <1>1, <1>4 DEF Promise!Answered, Promise!Unnamed
    <2>2. Promise!Answer(r)
      BY <1>1, <1>2, <2>1 DEF Promise!Answer
    <2> QED BY <2>2 DEF Promise!Next
  <1> QED BY <1>3, <1>4

\* An error names nothing.
LEMMA ErrorNames ==
  ASSUME HandlersOK, NEW r \in Requests, RInv(r), pc[r] \notin Ended,
         NEW status \in {"400", "500", "502"}, Answer(r, HttpError(status))
  PROVE  UNCHANGED Named
  <1>1. reply[r].status = "none" /\ reply'[r].status # "200"
    BY DEF HandlersOK, RInv, ReplyInv, Ended, Answer, HttpError, Response
  <1>2. \A d \in Requests : d # r => reply'[d] = reply[d]
    BY DEF HandlersOK, Answer
  <1> QED BY <1>1, <1>2 DEF Named

\* A 200 names its transaction.
LEMMA OkNames ==
  ASSUME HandlersOK, NEW r \in Requests, RInv(r), pc[r] \notin Ended,
         NEW tx, NEW already, Answer(r, Response("200", tx, already))
  PROVE  Named[r] = {} /\ Named' = [Named EXCEPT ![r] = {tx}]
  <1>1. reply[r].status = "none" /\ reply'[r].status = "200" /\ reply'[r].tx = tx
    BY DEF HandlersOK, RInv, ReplyInv, Ended, Answer, Response
  <1>2. \A d \in Requests : d # r => reply'[d] = reply[d]
    BY DEF HandlersOK, Answer
  <1>3. Named[r] = {} /\ Named'[r] = {tx} /\ \A d \in Requests : d # r => Named'[d] = Named[d]
    BY <1>1, <1>2 DEF Named
  <1> QED BY <1>3 DEF Named

\* A handler that answers does so about an anchored root; the only one that
\* writes the cache writes what anchored it.
LEMMA HandlePromised ==
  ASSUME HandlersOK, WorldOK, StoreNamesTheAnchor, NEW r \in Requests, RInv(r), Handle(r)
  PROVE  Promise!Next \/ UNCHANGED Promise!promise
  <1> DEFINE c == asked[r].case
             Names(S) == /\ Named[r] = {} /\ Anchors[c] # {}
                         /\ \E tx \in S : Named' = [Named EXCEPT ![r] = {tx}]
  <1>1. pc[r] \notin Ended /\ UNCHANGED <<chain, asked>>
    BY ChainKept DEF Handle, CheckExisting, ReplayFromStore, ReplayFromLogs, ReadNonce, Send,
       WaitReceipt, Reread, Save, Outage, Quiet, Ended
  <1>2. c \in Cases /\ Anchors[c] = AnchorTxs(Len(chain), c)
    BY <1>1 DEF RInv, HandlerInv, Ended, Anchors
  <1>3. UNCHANGED store => CacheKept(c)
    BY DEF CacheKept, CachedTxs
  <1>4. UNCHANGED reply => UNCHANGED Named
    BY DEF Named
  <1>5. ASSUME NEW status \in {"400", "500", "502"}, Answer(r, HttpError(status))
        PROVE  UNCHANGED Named
    BY <1>1, <1>5, ErrorNames
  <1>6. CASE CheckExisting(r) \/ ReadNonce(r) \/ Send(r) \/ WaitReceipt(r) \/ Reread(r)
    <2>1. UNCHANGED store
      BY <1>6 DEF CheckExisting, ReadNonce, Send, WaitReceipt, Reread, Outage, Quiet
    <2>2. UNCHANGED reply \/ \E status \in {"400", "500", "502"} : Answer(r, HttpError(status))
      BY <1>6 DEF CheckExisting, ReadNonce, Send, WaitReceipt, Reread, Outage
    <2>3. UNCHANGED Named
      BY <2>2, <1>4, <1>5
    <2> QED BY <1>1, <1>2, <1>3, <2>1, <2>3, PromisedStep
  <1>7. CASE ReplayFromStore(r)
    <2>1. UNCHANGED store /\ pc[r] = "replay" /\ Anchors[c] # {}
      BY <1>2, <1>7 DEF ReplayFromStore, Quiet, RInv, HandlerInv, IsAnchored
    <2>2. CASE store[c].file = "whole"
      <3>1. Answer(r, Response("200", store[c].tx_hash, TRUE))
        BY <1>7, <2>2 DEF ReplayFromStore
      <3>2. store[c].tx_hash \in Anchors[c]
        BY <1>2, <2>2 DEF StoreNamesTheAnchor
      <3>3. Names(Anchors[c] \cup {NoTx})
        BY <1>1, <2>1, <3>1, <3>2, OkNames
      <3> QED BY <1>1, <1>2, <1>3, <2>1, <3>3, PromisedStep
    <2>3. CASE store[c].file # "whole"
      <3>1. Answer(r, HttpError("500")) \/ UNCHANGED reply
        BY <1>7, <2>3 DEF ReplayFromStore
      <3>2. UNCHANGED Named
        BY <3>1, <1>4, <1>5
      <3> QED BY <1>1, <1>2, <1>3, <2>1, <3>2, PromisedStep
    <2> QED BY <2>2, <2>3
  <1>8. CASE ReplayFromLogs(r)
    <2>1. UNCHANGED store /\ pc[r] = "logs" /\ Anchors[c] # {}
      BY <1>2, <1>8 DEF ReplayFromLogs, Outage, Quiet, RInv, HandlerInv, IsAnchored
    <2>2. ASSUME NEW v \in Views, NEW tx \in AnchorTxs(v, c) \cup {NoTx},
                 Answer(r, Response("200", tx, TRUE))
          PROVE  Names(Anchors[c] \cup {NoTx})
      <3>1. tx \in Anchors[c] \cup {NoTx}
        BY <1>2, ViewsAreTrue
      <3> QED BY <1>1, <2>1, <2>2, <3>1, OkNames
    <2>3. Names(Anchors[c] \cup {NoTx}) \/ UNCHANGED Named
      BY <1>5, <1>8, <2>2 DEF ReplayFromLogs, Outage
    <2> QED BY <1>1, <1>2, <1>3, <2>1, <2>3, PromisedStep
  <1>9. CASE Save(r)
    <2>1. signed[r] \in Anchors[c]
      BY <1>2, <1>9 DEF Save, RInv, HandlerInv
    <2>2. CASE /\ store' = [store EXCEPT ![c] = [file |-> "whole", tx_hash |-> signed[r]]]
               /\ Answer(r, Response("200", signed[r], FALSE))
      <3>1. CachedTxs' = [CachedTxs EXCEPT ![c] = {signed[r]}]
        <4>1. /\ store'[c].file = "whole" /\ store'[c].tx_hash = signed[r]
              /\ \A d \in Cases : d # c => store'[d] = store[d]
          BY <1>2, <2>2 DEF WorldOK
        <4>2. CachedTxs'[c] = {signed[r]} /\ \A d \in Cases : d # c => CachedTxs'[d] = CachedTxs[d]
          BY <1>2, <4>1 DEF CachedTxs
        <4> QED BY <4>2 DEF CachedTxs
      <3>2. CacheKept(c)
        BY <2>1, <3>1 DEF CacheKept
      <3>3. Names(Anchors[c] \cup {NoTx})
        BY <1>1, <2>1, <2>2, OkNames
      <3> QED BY <1>1, <1>2, <3>2, <3>3, PromisedStep
    <2>3. ASSUME NEW left \in {store[c].file, "torn"}, Answer(r, HttpError("500")),
                 store' = [store EXCEPT ![c].file = left]
          PROVE  Promise!Next \/ UNCHANGED Promise!promise
      <3>1. CacheKept(c)
        BY <1>2, <2>3, TornCache
      <3> QED BY <1>1, <1>2, <1>5, <2>3, <3>1, PromisedStep
    <2> QED BY <1>9, <2>2, <2>3 DEF Save
  <1> QED BY <1>6, <1>7, <1>8, <1>9 DEF Handle

\* A client asks, once.
LEMMA PostPromised ==
  ASSUME HandlersOK, NEW r \in Requests, RInv(r), Post(r)
  PROVE  Promise!Next
  <1>1. PICK c \in Cases, s \in Cases \cup {Zero} :
          asked' = [asked EXCEPT ![r] = [case |-> c, supersedes |-> s]]
    BY DEF Post
  <1>2. Wanted'[r] = c /\ \A d \in Requests : d # r => Wanted'[d] = Wanted[d]
    BY <1>1 DEF HandlersOK, Wanted
  <1>3. Wanted' = [Wanted EXCEPT ![r] = c] /\ Wanted[r] = Zero
    BY <1>2 DEF Wanted, Post, RInv, HandlerInv
  <1>4. UNCHANGED Named
    <2>1. CASE UNCHANGED reply
      BY <2>1 DEF Named
    <2>2. ASSUME NEW status \in {"400", "404", "500"}, Answer(r, HttpError(status))
          PROVE  UNCHANGED Named
      <3>1. reply[r].status = "none" /\ reply'[r].status # "200"
        BY <2>2 DEF HandlersOK, Post, RInv, ReplyInv, Answer, HttpError, Response
      <3>2. \A d \in Requests : d # r => reply'[d] = reply[d]
        BY <2>2 DEF HandlersOK, Answer
      <3> QED BY <3>1, <3>2 DEF Named
    <2> QED BY <2>1, <2>2 DEF Post
  <1>5. UNCHANGED <<Anchors, CachedTxs>>
    BY AnchorsKept DEF Post, network, CachedTxs
  <1>6. Promise!Ask(r)
    BY <1>3, <1>4, <1>5 DEF Promise!Ask
  <1> QED BY <1>6 DEF Promise!Next

\* A process that dies may take a cache entry with it.
LEMMA CrashPromised ==
  ASSUME HandlersOK, WorldOK, StoreNamesTheAnchor, \A r \in Requests : RInv(r), Crash
  PROVE  Promise!Next \/ UNCHANGED Promise!promise
  <1>1. UNCHANGED <<chain, asked, reply>>
    BY DEF Crash, network
  <1>2. UNCHANGED Named /\ UNCHANGED Anchors /\ UNCHANGED Wanted
    BY <1>1, AnchorsKept DEF Named, Wanted
  <1>3. CASE UNCHANGED store
    <2>1. UNCHANGED CachedTxs
      BY <1>3 DEF CachedTxs
    <2> QED BY <1>2, <2>1 DEF Promise!promise
  <1>4. ASSUME NEW r \in Requests, pc[r] = "save",
               store' = [store EXCEPT ![asked[r].case].file = "torn"]
        PROVE  Promise!Next \/ UNCHANGED Promise!promise
    <2>1. asked[r].case \in Cases
      BY <1>4 DEF RInv, HandlerInv
    <2>2. CacheKept(asked[r].case)
      BY <1>4, <2>1, TornCache
    <2> QED BY <1>1, <1>2, <2>1, <2>2, PromisedStep
  <1> QED BY <1>3, <1>4 DEF Crash

\* The service implements AnchorPromise.
THEOREM ServiceKeepsPromise == Spec => KeepsAnchorPromise
  <1>1. Init => Promise!Init
    <2> SUFFICES ASSUME Init PROVE Promise!Init
      OBVIOUS
    <2>1. \A c \in Cases : Anchors[c] = {} /\ CachedTxs[c] = {}
      BY DEF Init, Anchors, CachedTxs, AnchorTxs
    <2>2. \A r \in Requests : Wanted[r] = Zero /\ Named[r] = {}
      BY DEF Init, Wanted, Named, NotAsked, NoReply, Response
    <2> QED BY <2>1, <2>2 DEF Promise!Init, Anchors, CachedTxs, Wanted, Named
  <1>2. IInv /\ [Next]_vars => [Promise!Next]_(Promise!promise)
    <2> SUFFICES ASSUME IInv, [Next]_vars
                 PROVE  Promise!Next \/ UNCHANGED Promise!promise
      OBVIOUS
    <2>1. /\ HandlersOK /\ WorldOK /\ StoreNamesTheAnchor
          /\ \A r \in Requests : RInv(r)
      BY TypeParts DEF IInv
    <2>2. CASE Mine
      <3>1. UNCHANGED <<Wanted, Named, CachedTxs>>
        BY <2>2 DEF Mine, handlers, Wanted, Named, CachedTxs
      <3> QED BY <2>1, <2>2, <3>1, MinedAnchor DEF Promise!Next, Promise!promise
    <2>3. CASE UNCHANGED <<handlers, store, chain>>
      <3>1. UNCHANGED <<Wanted, Named, CachedTxs>>
        BY <2>3 DEF handlers, Wanted, Named, CachedTxs
      <3> QED BY <2>3, <3>1, AnchorsKept DEF Promise!promise
    <2>4. Drop \/ UNCHANGED vars => UNCHANGED <<handlers, store, chain>>
      BY DEF Drop, vars, network
    <2> QED BY <2>1, <2>2, <2>3, <2>4, HandlePromised, PostPromised, CrashPromised DEF Next
  <1> QED BY <1>1, <1>2, AnchorInvariant, PTL DEF Spec, Promise!Spec, KeepsAnchorPromise

-----------------------------------------------------------------------------
(* The nonces of the one key.                                              *)

\* A mined transaction has its position for nonce, a pending one a later
\* nonce of its own.
NonceInv ==
  /\ IsFiniteSet(mempool)
  /\ \A i \in 1..Len(chain) : chain[i].tx.nonce = i - 1
  /\ \A t \in mempool : t.nonce >= Len(chain)
  /\ \A t, u \in mempool : t.nonce = u.nonce => t = u

LEMMA SendKeepsNonces ==
  ASSUME WorldOK, NonceInv, NEW r \in Requests, Send(r)
  PROVE  NonceInv'
  <1>1. UNCHANGED chain
    BY DEF Send
  <1>2. CASE mempool' = mempool
    BY <1>1, <1>2 DEF NonceInv
  <1>3. CASE Accepts(signed[r]) /\ mempool' = mempool \cup {signed[r]}
    <2>1. signed[r].nonce >= Len(chain) /\ \A t \in mempool : t.nonce # signed[r].nonce
      BY <1>3 DEF Accepts, Pending
    <2>2. IsFiniteSet(mempool')
      BY <1>3, FS_AddElement DEF NonceInv
    <2> QED BY <1>1, <1>3, <2>1, <2>2 DEF NonceInv
  <1> QED BY <1>2, <1>3 DEF Send

LEMMA MineKeepsNonces ==
  ASSUME WorldOK, NonceInv, Mine
  PROVE  NonceInv'
  <1>1. PICK t \in mempool : /\ t.nonce = Len(chain)
                             /\ chain' = Append(chain, [tx |-> t, ok |-> Succeeds(t)])
                             /\ mempool' = mempool \ {t}
    BY DEF Mine
  <1>2. t \in Txs /\ Succeeds(t) \in BOOLEAN
    BY <1>1 DEF WorldOK, Succeeds, IsAnchored
  <1>3. [tx |-> t, ok |-> Succeeds(t)] \in [tx : Txs, ok : BOOLEAN]
    BY <1>2
  <1>4. /\ Len(chain') = Len(chain) + 1 /\ Len(chain) \in Nat
        /\ \A i \in 1..Len(chain) : chain'[i] = chain[i]
        /\ chain'[Len(chain) + 1].tx = t
    BY <1>1, <1>3 DEF WorldOK
  <1>5. \A i \in 1..Len(chain') : chain'[i].tx.nonce = i - 1
    BY <1>1, <1>4 DEF NonceInv
  <1>6. ASSUME NEW u \in mempool'
        PROVE  u.nonce >= Len(chain')
    <2>1. u.nonce \in Nat /\ u.nonce >= Len(chain) /\ u.nonce # t.nonce
      BY <1>1, <1>6 DEF NonceInv, WorldOK, Txs
    <2> QED BY <1>1, <1>4, <2>1
  <1>7. IsFiniteSet(mempool')
    BY <1>1, FS_RemoveElement DEF NonceInv
  <1> QED BY <1>1, <1>5, <1>6, <1>7 DEF NonceInv

LEMMA NextKeepsNonces ==
  ASSUME WorldOK, NonceInv, [Next]_vars
  PROVE  NonceInv'
  <1>1. CASE \E r \in Requests : Send(r)
    BY <1>1, SendKeepsNonces
  <1>2. CASE Mine
    BY <1>2, MineKeepsNonces
  <1>3. CASE Drop
    <2>1. PICK t \in mempool : mempool' = mempool \ {t}
      BY <1>3 DEF Drop
    <2>2. IsFiniteSet(mempool')
      BY <2>1, FS_RemoveElement DEF NonceInv
    <2> QED BY <1>3, <2>1, <2>2 DEF Drop, NonceInv
  <1>4. CASE UNCHANGED network
    BY <1>4 DEF network, NonceInv
  <1>5. ASSUME NEW r \in Requests, Post(r) \/ Handle(r), ~Send(r)
        PROVE  UNCHANGED network
    BY <1>5 DEF Post, Handle, CheckExisting, ReplayFromStore, ReplayFromLogs, ReadNonce,
                WaitReceipt, Reread, Save, Quiet
  <1>6. Crash \/ UNCHANGED vars => UNCHANGED network
    BY DEF Crash, vars
  <1> QED BY <1>1, <1>2, <1>3, <1>4, <1>5, <1>6 DEF Next

\* Every nonce of the key is used by one transaction: the chain has one for
\* each of its positions, and what is pending comes after it, however many
\* requests read the same nonce.
LEMMA NoncesUsedOnce == Spec => []NonceInv
  <1>1. Init => NonceInv
    BY FS_EmptySet DEF Init, NonceInv
  <1>2. IInv => WorldOK
    BY TypeParts DEF IInv
  <1>3. WorldOK /\ NonceInv /\ [Next]_vars => NonceInv'
    BY NextKeepsNonces
  <1> QED BY <1>1, <1>2, <1>3, AnchorInvariant, PTL DEF Spec

\* Two requests answered as the first ones, by transactions with the same
\* nonce, were answered by the same transaction: they were for the same root.
THEOREM SameNonceSameTransaction ==
  Spec => [](\A r, s \in Requests :
               FirstAnswered(r) /\ FirstAnswered(s) /\ signed[r].nonce = signed[s].nonce
               => signed[r] = signed[s] /\ asked[r] = asked[s])
  <1>1. ASSUME IInv, NonceInv, NEW r \in Requests, NEW s \in Requests,
               FirstAnswered(r), FirstAnswered(s), signed[r].nonce = signed[s].nonce
        PROVE  signed[r] = signed[s] /\ asked[r] = asked[s]
    <2>1. PICK i \in 1..Len(chain) : chain[i].tx = signed[r] /\ chain[i].tx.case = asked[r].case
      BY <1>1 DEF IInv, RInv, ReplyInv, FirstAnswered, AnchorTxs
    <2>2. PICK j \in 1..Len(chain) : chain[j].tx = signed[s] /\ chain[j].tx.case = asked[s].case
      BY <1>1 DEF IInv, RInv, ReplyInv, FirstAnswered, AnchorTxs
    <2>3. i - 1 = j - 1
      BY <1>1, <2>1, <2>2 DEF NonceInv
    <2>4. signed[r] = signed[s] /\ asked[r].case = asked[s].case
      BY <2>1, <2>2, <2>3
    <2>5. asked[r].supersedes = asked[s].supersedes
      BY <1>1, <2>4 DEF IInv, RInv, ReplyInv, FirstAnswered
    <2>6. /\ asked[r] \in [case : Cases \cup {Zero}, supersedes : Cases \cup {Zero}]
          /\ asked[s] \in [case : Cases \cup {Zero}, supersedes : Cases \cup {Zero}]
      BY <1>1 DEF IInv, TypeOK
    <2> QED BY <2>4, <2>5, <2>6
  <1>2. IInv /\ NonceInv =>
          \A r, s \in Requests :
            FirstAnswered(r) /\ FirstAnswered(s) /\ signed[r].nonce = signed[s].nonce
            => signed[r] = signed[s] /\ asked[r] = asked[s]
    BY <1>1
  <1> QED BY <1>2, AnchorInvariant, NoncesUsedOnce, PTL

-----------------------------------------------------------------------------
(* What clients can compare.                                               *)

OneAnchor == \A c \in Cases : \A t, u \in Anchors[c] : t = u

\* The anchors change with a mined transaction only.
LEMMA AnchorsStep ==
  ASSUME WorldOK, [Next]_vars
  PROVE  UNCHANGED Anchors \/ \E c \in Cases : Promise!Anchor(c)
  <1>1. CASE Mine
    BY <1>1, MinedAnchor
  <1>2. CASE UNCHANGED chain
    BY <1>2, AnchorsKept
  <1>3. Drop \/ Crash \/ UNCHANGED vars => UNCHANGED chain
    BY DEF Drop, Crash, vars, network
  <1> QED BY <1>1, <1>2, <1>3, ChainKept DEF Next

\* A root has one anchor at most: what the clients below are compared with.
LEMMA AnchoredOnce == Spec => []OneAnchor
  <1>1. Init => OneAnchor
    BY DEF Init, OneAnchor, Anchors, AnchorTxs
  <1>2. ASSUME WorldOK, OneAnchor, [Next]_vars
        PROVE  OneAnchor'
    <2>1. CASE UNCHANGED Anchors
      BY <1>2, <2>1 DEF OneAnchor
    <2>2. ASSUME NEW d \in Cases, Promise!Anchor(d)
          PROVE  OneAnchor'
      <3>1. PICK tx : Anchors' = [Anchors EXCEPT ![d] = {tx}]
        BY <2>2 DEF Promise!Anchor
      <3>2. Anchors = [c \in Cases |-> Anchors[c]]
        BY DEF Anchors
      <3>3. \A c \in Cases : Anchors'[c] = {tx} \/ Anchors'[c] = Anchors[c]
        BY <3>1, <3>2
      <3> QED BY <1>2, <3>3 DEF OneAnchor
    <2> QED BY <1>2, <2>1, <2>2, AnchorsStep
  <1>3. IInv /\ OneAnchor /\ [Next]_vars => OneAnchor'
    BY <1>2, TypeParts DEF IInv
  <1> QED BY <1>1, <1>3, AnchorInvariant, PTL DEF Spec

\* Whoever asks, and whenever: two answers about a root name the same
\* transaction, or none when the hash was lost, and so does the cache.
AnswersAgree ==
  \A r, s \in Requests :
    /\ reply[r].status = "200" /\ reply[s].status = "200" /\ asked[r].case = asked[s].case
         => reply[r].tx = reply[s].tx \/ NoTx \in {reply[r].tx, reply[s].tx}
    /\ reply[r].status = "200" /\ store[asked[r].case].file = "whole"
         => reply[r].tx \in {NoTx, store[asked[r].case].tx_hash}

\* The answers and the cache never contradict one another.
THEOREM ClientsAgree == Spec => []AnswersAgree
  <1>1. ASSUME IInv, OneAnchor, NEW r \in Requests, NEW s \in Requests
        PROVE  /\ reply[r].status = "200" /\ reply[s].status = "200" /\ asked[r].case = asked[s].case
                    => reply[r].tx = reply[s].tx \/ NoTx \in {reply[r].tx, reply[s].tx}
               /\ reply[r].status = "200" /\ store[asked[r].case].file = "whole"
                    => reply[r].tx \in {NoTx, store[asked[r].case].tx_hash}
    <2>1. \A q \in Requests : reply[q].status = "200" =>
            /\ asked[q].case \in Cases
            /\ reply[q].tx \in Anchors[asked[q].case] \cup {NoTx}
      BY <1>1 DEF IInv, RInv, ReplyInv, HandlerInv, Anchors
    <2>2. \A c \in Cases : store[c].file = "whole" => store[c].tx_hash \in Anchors[c]
      BY <1>1 DEF IInv, StoreNamesTheAnchor, Anchors
    <2> QED BY <1>1, <2>1, <2>2 DEF OneAnchor
  <1>2. IInv /\ OneAnchor => AnswersAgree
    BY <1>1 DEF AnswersAgree
  <1> QED BY <1>2, AnchorInvariant, AnchoredOnce, PTL

\* A mined transaction that superseded a root came after that root's anchor and
\* is not for the same case.
Superseding(i) ==
  chain[i].ok /\ chain[i].tx.supersedes # Zero =>
    /\ chain[i].tx.supersedes # chain[i].tx.case
    /\ \E j \in 1..(i - 1) : chain[j].ok /\ chain[j].tx.case = chain[i].tx.supersedes

SupersededFirst == \A i \in 1..Len(chain) : Superseding(i)

LEMMA SupersededFirstHolds == Spec => []SupersededFirst
  <1>1. Init => SupersededFirst
    BY DEF Init, SupersededFirst
  <1>2. ASSUME WorldOK, SupersededFirst, Mine
        PROVE  SupersededFirst'
    <2>1. PICK t \in mempool : chain' = Append(chain, [tx |-> t, ok |-> Succeeds(t)])
      BY <1>2 DEF Mine
    <2>2. t \in Txs /\ Succeeds(t) \in BOOLEAN
      BY <1>2, <2>1 DEF WorldOK, Succeeds, IsAnchored
    <2>3. [tx |-> t, ok |-> Succeeds(t)] \in [tx : Txs, ok : BOOLEAN]
      BY <2>2
    <2>4. PICK n \in Nat : n = Len(chain)
      BY <1>2 DEF WorldOK
    <2>5. /\ Len(chain') = n + 1
          /\ \A i \in 1..n : chain'[i] = chain[i]
          /\ chain'[n + 1] = [tx |-> t, ok |-> Succeeds(t)]
      BY <1>2, <2>1, <2>3, <2>4 DEF WorldOK
    <2>6. ASSUME NEW i \in 1..n
          PROVE  Superseding(i)'
      BY <1>2, <2>4, <2>5 DEF SupersededFirst, Superseding
    <2>7. Superseding(n + 1)'
      <3> SUFFICES ASSUME Succeeds(t), t.supersedes # Zero
                   PROVE  /\ t.supersedes # t.case
                          /\ \E j \in 1..n : chain'[j].ok /\ chain'[j].tx.case = t.supersedes
        BY <2>5 DEF Superseding
      <3>1. t.supersedes # t.case /\ IsAnchored(t.supersedes)
        BY DEF Succeeds
      <3>2. PICK j \in 1..n : chain[j].ok /\ chain[j].tx.case = t.supersedes
        BY <2>4, <3>1 DEF IsAnchored, AnchorTxs
      <3> QED BY <2>5, <3>1, <3>2
    <2> QED BY <2>5, <2>6, <2>7 DEF SupersededFirst
  <1>3. ASSUME SupersededFirst, UNCHANGED chain
        PROVE  SupersededFirst'
    BY <1>3 DEF SupersededFirst, Superseding
  <1>4. Drop \/ Crash \/ UNCHANGED vars => UNCHANGED chain
    BY DEF Drop, Crash, vars, network
  <1>5. WorldOK /\ SupersededFirst /\ [Next]_vars => SupersededFirst'
    BY <1>2, <1>3, <1>4, ChainKept DEF Next
  <1>6. IInv => WorldOK
    BY TypeParts DEF IInv
  <1> QED BY <1>1, <1>5, <1>6, AnchorInvariant, PTL DEF Spec

\* A first answer is true of the chain, and of no other request for the root
\* that asked for something else.
THEOREM FirstAnswersCorrect == Spec => []FirstAnswerAnchoredTheRoot
  <1>1. ASSUME IInv, OneAnchor, SupersededFirst, NEW r \in Requests, FirstAnswered(r)
        PROVE  /\ \E i \in 1..Len(chain) :
                    /\ chain[i].ok /\ chain[i].tx = reply[r].tx
                    /\ chain[i].tx.case = asked[r].case
                    /\ chain[i].tx.supersedes = asked[r].supersedes
                    /\ asked[r].supersedes # Zero =>
                         \E j \in 1..(i - 1) :
                           chain[j].ok /\ chain[j].tx.case = asked[r].supersedes
               /\ asked[r].supersedes # asked[r].case
               /\ \A q \in Requests :
                    FirstAnswered(q) /\ asked[q].case = asked[r].case => asked[q] = asked[r]
    <2>1. ASSUME NEW q \in Requests, FirstAnswered(q)
          PROVE  /\ reply[q].tx = signed[q] /\ signed[q].supersedes = asked[q].supersedes
                 /\ signed[q] \in AnchorTxs(Len(chain), asked[q].case)
                 /\ asked[q].case \in Cases
      BY <1>1, <2>1 DEF IInv, RInv, ReplyInv, HandlerInv, FirstAnswered
    <2>2. PICK i \in 1..Len(chain) :
            chain[i].ok /\ chain[i].tx = signed[r] /\ chain[i].tx.case = asked[r].case
      BY <1>1, <2>1 DEF AnchorTxs
    <2>3. Superseding(i)
      BY <1>1 DEF SupersededFirst
    <2>4. asked[r].case # Zero
      BY <1>1, <2>1, AnchorAssumption
    <2>5. ASSUME NEW q \in Requests, FirstAnswered(q), asked[q].case = asked[r].case
          PROVE  asked[q] = asked[r]
      <3>1. signed[q] \in Anchors[asked[r].case] /\ signed[r] \in Anchors[asked[r].case]
        BY <1>1, <2>1, <2>5 DEF Anchors
      <3>2. signed[q] = signed[r]
        BY <1>1, <2>1, <3>1 DEF OneAnchor
      <3>3. asked[q].supersedes = asked[r].supersedes
        BY <1>1, <2>1, <2>5, <3>2
      <3>4. /\ asked[r] \in [case : Cases \cup {Zero}, supersedes : Cases \cup {Zero}]
            /\ asked[q] \in [case : Cases \cup {Zero}, supersedes : Cases \cup {Zero}]
        BY <1>1 DEF IInv, TypeOK
      <3> QED BY <2>5, <3>3, <3>4
    <2>6. reply[r].tx = signed[r] /\ signed[r].supersedes = asked[r].supersedes
      BY <1>1, <2>1
    <2> QED BY <2>2, <2>3, <2>4, <2>5, <2>6 DEF Superseding
  <1>2. IInv /\ OneAnchor /\ SupersededFirst => FirstAnswerAnchoredTheRoot
    BY <1>1 DEF FirstAnswerAnchoredTheRoot
  <1> QED BY <1>2, AnchorInvariant, AnchoredOnce, SupersededFirstHolds, PTL

-----------------------------------------------------------------------------
(* How long a request can take.                                            *)

\* The steps left to a request at phase p after n of its re-reads.
StepsFrom(p, n) ==
  CASE p = "idle" -> 12
    [] p = "check" -> 11
    [] p \in {"replay", "nonce"} -> 10
    [] p \in {"logs", "send"} -> 9
    [] p = "receipt" -> 8
    [] p = "reread" -> 2 + READ_RETRIES - n
    [] p = "save" -> 1
    [] p \in {"done", "lost"} -> 0

StepsLeft(r) == StepsFrom(pc[r], reads[r])

\* What a step of a request does to its place.
LEMMA OwnProgress ==
  ASSUME HandlersOK, NEW r \in Requests, RInv(r), Post(r) \/ Handle(r)
  PROVE  \/ pc[r] = "idle" /\ pc'[r] = "check"
         \/ pc[r] = "check" /\ pc'[r] \in {"replay", "nonce"}
         \/ pc[r] = "replay" /\ pc'[r] = "logs"
         \/ pc[r] = "nonce" /\ pc'[r] = "send"
         \/ pc[r] = "send" /\ pc'[r] = "receipt"
         \/ pc[r] = "receipt" /\ pc'[r] = "reread" /\ reads'[r] = reads[r]
         \/ pc[r] = "reread" /\ pc'[r] = "reread" /\ reads'[r] = reads[r] + 1
         \/ pc[r] = "reread" /\ pc'[r] = "save"
         \/ pc[r] \notin {"done", "lost"} /\ pc'[r] = "done"
  <1>1. CASE Post(r)
    BY <1>1 DEF HandlersOK, Post, Goto, Answer
  <1>2. CASE CheckExisting(r)
    BY <1>2 DEF HandlersOK, CheckExisting, Goto, Answer, Outage, Ended
  <1>3. CASE ReplayFromStore(r) \/ ReplayFromLogs(r)
    BY <1>3 DEF HandlersOK, ReplayFromStore, ReplayFromLogs, Goto, Answer, Outage, Ended
  <1>4. CASE ReadNonce(r)
    BY <1>4 DEF HandlersOK, ReadNonce, Goto, Answer, Outage, Ended
  <1>5. CASE Send(r)
    BY <1>5 DEF HandlersOK, Send, Goto, Answer, Outage, Ended
  <1>6. CASE WaitReceipt(r)
    BY <1>6 DEF HandlersOK, WaitReceipt, Goto, Answer, Outage, Ended
  <1>7. CASE Reread(r)
    BY <1>7 DEF HandlersOK, Reread, Goto, Answer, Outage, Ended
  <1>8. CASE Save(r)
    BY <1>8 DEF HandlersOK, Save, Goto, Answer, Ended
  <1> QED BY <1>1, <1>2, <1>3, <1>4, <1>5, <1>6, <1>7, <1>8 DEF Handle

LEMMA OwnStepDescends ==
  ASSUME HandlersOK, NEW r \in Requests, RInv(r), Post(r) \/ Handle(r)
  PROVE  StepsLeft(r)' \in Int /\ StepsLeft(r)' < StepsLeft(r)
  <1>1. reads[r] \in 0..3 /\ (pc[r] = "reread" => reads[r] < 3) /\ (pc[r] = "receipt" => reads[r] = 0)
    BY DEF HandlersOK, RInv, HandlerInv, READ_RETRIES
  <1>2. pc[r] \in Phases
    BY DEF HandlersOK
  <1>3. CASE pc'[r] = "done" /\ pc[r] \notin {"done", "lost"}
    BY <1>1, <1>2, <1>3 DEF StepsLeft, StepsFrom, READ_RETRIES, Ended, Phases
  <1>4. CASE pc'[r] # "done"
    BY <1>1, <1>4, OwnProgress DEF StepsLeft, StepsFrom, READ_RETRIES
  <1> QED BY <1>3, <1>4, OwnProgress

\* A request to anchor takes twelve steps at most, whatever the node, the
\* chain and the disk do: its own steps use one up, and no step of another
\* request, of the chain or of a restart gives one back.
THEOREM RequestIsBounded ==
  Spec => [][\A r \in Requests :
               /\ StepsLeft(r) \in 0..12 /\ StepsLeft(r)' <= StepsLeft(r)
               /\ Post(r) \/ Handle(r) => StepsLeft(r)' < StepsLeft(r)]_vars
  <1>1. ASSUME HandlersOK, NEW r \in Requests
        PROVE  StepsLeft(r) \in 0..12
    BY <1>1 DEF HandlersOK, Phases, Ended, StepsLeft, StepsFrom, READ_RETRIES
  <1>2. ASSUME HandlersOK, \A q \in Requests : RInv(q), [Next]_vars, NEW r \in Requests
        PROVE  StepsLeft(r)' <= StepsLeft(r)
    <2>1. StepsLeft(r) \in 0..12
      BY <1>1, <1>2
    <2>2. CASE pc'[r] = pc[r] /\ reads'[r] = reads[r]
      <3>1. StepsLeft(r)' = StepsLeft(r)
        BY <2>2 DEF StepsLeft
      <3> QED BY <2>1, <3>1
    <2>3. CASE pc'[r] = "lost"
      <3>1. StepsLeft(r)' = 0
        BY <2>3 DEF StepsLeft, StepsFrom
      <3> QED BY <2>1, <3>1
    <2>4. ASSUME NEW q \in Requests, Post(q) \/ Handle(q)
          PROVE  StepsLeft(r)' <= StepsLeft(r)
      <3>1. CASE q = r
        <4>1. StepsLeft(r)' \in Int /\ StepsLeft(r)' < StepsLeft(r)
          BY <1>2, <2>4, <3>1, OwnStepDescends
        <4> QED BY <2>1, <4>1
      <3>2. CASE q # r
        BY <1>2, <2>2, <2>4, <3>2, Others
      <3> QED BY <3>1, <3>2
    <2>5. Mine \/ Drop \/ UNCHANGED vars => UNCHANGED <<pc, reads>>
      BY DEF Mine, Drop, vars, handlers
    <2>6. Crash => pc'[r] \in {pc[r], "lost"} /\ reads'[r] = reads[r]
      BY <1>2 DEF HandlersOK, Crash
    <2> QED BY <1>2, <2>2, <2>3, <2>4, <2>5, <2>6 DEF Next
  <1>3. IInv /\ [Next]_vars =>
          [\A r \in Requests :
             /\ StepsLeft(r) \in 0..12 /\ StepsLeft(r)' <= StepsLeft(r)
             /\ Post(r) \/ Handle(r) => StepsLeft(r)' < StepsLeft(r)]_vars
    BY <1>1, <1>2, OwnStepDescends, TypeParts DEF IInv
  <1> QED BY <1>3, AnchorInvariant, PTL DEF Spec
=============================================================================
