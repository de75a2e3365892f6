-------------------------- MODULE MCClientRequests --------------------------
(* Every request of every stateless route over small inputs: the instance  *)
(* TLC checks.                                                             *)
EXTENDS ClientRequests

-----------------------------------------------------------------------------
(* Wallet flow: days 1 to 3, pages of two, two pages in a window, up to one *)
(* transfer more than they hold.                                           *)

Dates == 0..3

\* One direction is any history of at most MaxPages * PageSize + 1 transfers, one
\* of them undated at most; the other is one of three.
Histories ==
  {h \in UNION {[1..n -> 0..3] : n \in 0..(MaxPages * PageSize + 1)} :
     NewestFirst(h) /\ Cardinality({i \in DOMAIN h : h[i] = None}) <= 1}

OtherHistories == {<<>>, <<2>>, <<3, 2, 2, 0, 1>>}

FlowRequest(channel, limit, from, to, in, out) ==
  [route |-> "wallet_flow", channel |-> channel, valid |-> TRUE, x402 |-> TRUE,
   alchemy |-> TRUE, limit |-> limit, from |-> from, to |-> to,
   history |-> [d \in Directions |-> IF d = "IN" THEN in ELSE out]]

MCFlowRequests ==
  {FlowRequest("web", l, f, t, in, out) :
     l \in 1..PageSize, f \in Dates, t \in Dates, in \in Histories, out \in OtherHistories}
  \cup
  {[FlowRequest(c, 1, 0, 0, <<1>>, <<1>>) EXCEPT !.valid = v, !.x402 = x, !.alchemy = a] :
     c \in {"web", "agent"}, v \in BOOLEAN, x \in BOOLEAN, a \in BOOLEAN}

-----------------------------------------------------------------------------
(* DeFi: two chains in a scan, three in a status, as in the code.          *)

DefiRequest(route, chains, configured, x402) ==
  [route |-> route, chains |-> chains, configured |-> configured, x402 |-> x402]

MCDefiRequests ==
  {DefiRequest("status", <<"ethereum", "avalanche", "hsk">>, c, FALSE) :
     c \in {{}, {"ethereum"}, {"ethereum", "avalanche", "hsk"}}}
  \cup
  {DefiRequest("scan", s, c, x) :
     s \in {<<>>, <<"hsk", "hsk">>, <<"ethereum", "hsk">>},
     c \in {{"hsk"}, {"ethereum", "hsk"}}, x \in BOOLEAN}
  \cup
  {DefiRequest(r, <<"hsk">>, c, x) :
     r \in {"pools", "activity"}, c \in SUBSET {"hsk"}, x \in BOOLEAN}

-----------------------------------------------------------------------------
MCMcpRequests ==
  [route : McpRoutes, url : {"none", "not_http", "invalid", "ok"}]

-----------------------------------------------------------------------------
(* Verification: every archive of at most two entries under every manifest *)
(* of at most two files, and the packages of every vault with and without   *)
(* extra data.                                                             *)

EntrySets ==
  {{}} \cup {{Entry(0, n, c)} : n \in Names, c \in Contents \cup {Damaged}}
    \cup {{Entry(0, n, c), Entry(1, m, d)} :
            n \in Names, m \in Names, c \in Contents \cup {Damaged}, d \in Contents}

Digests == {Digest(c, f) : c \in Contents, f \in Forms}

Manifests == UNION {[S -> Digests] : S \in {T \in SUBSET Names : Cardinality(T) <= 2}}

Upload(upload, entries, manifest) ==
  [route |-> "verify", upload |-> upload, entries |-> entries, manifest |-> manifest]

MCVerifyRequests ==
  {Upload("zip", e, Declares(m)) : e \in EntrySets, m \in Manifests}
    \cup {Upload("zip", {}, m) : m \in OddManifests}
    \cup {Upload(u, {}, [kind |-> "absent"]) : u \in {"too_large", "not_zip"}}
    \cup PipelinePackages
    \cup {Build(v, {Entry(1, n, c)}) : v \in Vaults, n \in Names, c \in Contents}

-----------------------------------------------------------------------------
(* Derivation.                                                             *)

Values == {NoValue, "v1", "v2"}

Event(tx, index, fields) ==
  [tx |-> tx, index |-> index, fields |-> fields, topics |-> TRUE]

Events ==
  {Event(t, i, f) : t \in {NoValue, "t1"}, i \in {NoValue, "0"}, f \in [Fields -> Values]}

Logs == {[index |-> i, fields |-> f, form |-> "whole"] : i \in {"0", "1"}, f \in [Fields -> Values]}

Receipts ==
  {[tx |-> t, fields |-> [x \in FromReceipt |-> v], logs |-> l] :
     t \in {"t1", "t2"}, v \in {NoValue, "v1"},
     l \in {<<>>} \cup {<<a>> : a \in Logs} \cup {<<a, b>> : a \in Logs, b \in Logs}}

\* A log of each form for each index, and events that differ in their topics.
OddLogs ==
  {[index |-> IF form = "no_object" THEN NoValue ELSE i, fields |-> [f \in Fields |-> "v1"],
    form |-> form] : i \in {"0", "1"}, form \in {"whole", "null_topics", "no_object"}}

OddEvents ==
  {[Event("t1", i, [f \in Fields |-> "v1"]) EXCEPT !.topics = listed] :
     i \in {NoValue, "0", "2"}, listed \in BOOLEAN}

TransferLogs ==
  [transfer : BOOLEAN, wellformed : BOOLEAN, logIndex : 0..2]

\* A swap whose subject may have proved its part.
Actions == [swap : BOOLEAN, proven : BOOLEAN, amount : {0, 1, 5}]

MCDerivationRequests ==
  {[route |-> "reconcile", rpc_payload |-> TRUE, events |-> <<e>>, receipt |-> r] :
     e \in Events, r \in Receipts}
  \cup
  {[route |-> "reconcile", rpc_payload |-> p, events |-> es,
    receipt |-> [tx |-> "t1", fields |-> [x \in FromReceipt |-> "v1"], logs |-> l]] :
     p \in BOOLEAN, l \in {<<>>} \cup {<<a>> : a \in Logs},
     es \in {<<>>} \cup {<<Event("t1", "0", f), Event("t1", "1", f)>> : f \in [Fields -> Values]}}
  \cup
  {[route |-> "reconcile", rpc_payload |-> TRUE, events |-> <<d, e>>,
    receipt |-> [tx |-> "t1", fields |-> [x \in FromReceipt |-> "v1"], logs |-> <<a, b>>]] :
     d \in OddEvents, e \in OddEvents, a \in OddLogs, b \in OddLogs}
  \cup
  {[route |-> "decode", logs |-> l] : l \in UNION {[1..n -> TransferLogs] : n \in 0..3}}
  \cup
  {[route |-> "contribution", action |-> a] : a \in Actions}

-----------------------------------------------------------------------------
(* Selection: every combination of RPC settings, every one of subgraphs.   *)

Paths == {"1", "eth", "43114", "43113", "fuji", "avax", "177", "hsk", "nope"}

RpcSettings ==
  [eth_rpc_url : BOOLEAN, api_key : BOOLEAN, rpc_url : BOOLEAN, avax_rpc_url : BOOLEAN,
   hsk_rpc_url : BOOLEAN, production : BOOLEAN, eth_id : {"1", "11155111"},
   avax_id : {"43112", "43113", "43114"}, hsk_id : {"177", "1", "43114"}, graph : {{"hsk"}}]

GraphSettings ==
  [eth_rpc_url : {FALSE}, api_key : {TRUE}, rpc_url : {FALSE}, avax_rpc_url : {FALSE},
   hsk_rpc_url : {TRUE}, production : {FALSE}, eth_id : {"1"}, avax_id : {"43113"},
   hsk_id : {"177", "1", "43114"}, graph : SUBSET (Keys \cup {"legacy"})]

MCSelectionRequests ==
  [route : {"select"}, chain : Paths, settings : RpcSettings]
    \cup [route : {"select"}, chain : Paths, settings : GraphSettings]
=============================================================================
