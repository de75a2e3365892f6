-------------------------- MODULE ProviderSelection --------------------------
(***************************************************************************)
(* Settings and providers/factory.py: which endpoint a chain named in a    *)
(* path gets, and what it is expected to be.  A setting that is not empty   *)
(* is TRUE, a URL is named for where it comes from, a chain id is the text  *)
(* of its number.                                                          *)
(***************************************************************************)
EXTENDS ClientRequest

CONSTANTS SelectionRequests   \* settings, and the chain a path names

Keys == {"ethereum", "avalanche", "hsk"}

\* The fixed aliases of a path.
EthereumNames == {"1", "eth", "ethereum", "ethereum-mainnet", "mainnet"}
AvalancheNames == {"43114", "43113", "avax", "avalanche", "avalanche-mainnet", "fuji",
                   "avalanche-fuji"}
HskNames == {"hsk", "hashkey", "hashkey-chain"}

Words == (EthereumNames \cup AvalancheNames \cup HskNames) \ {"1", "43113", "43114"}

\* A chain id is a number, and no number is a word.
ASSUME SelectionAssumption ==
  \A g \in SelectionRequests :
    /\ g.route = "select"
    /\ {g.settings.eth_id, g.settings.avax_id, g.settings.hsk_id} \cap Words = {}
    /\ g.settings.eth_rpc_url \in BOOLEAN /\ g.settings.avax_rpc_url \in BOOLEAN
    /\ g.settings.api_key \in BOOLEAN

NoUrl == "none"

-----------------------------------------------------------------------------
(* Settings.                                                               *)

\* The API key gives Mainnet, whatever id Ethereum is given.
EthereumUrl(s) ==
  CASE s.eth_rpc_url -> "override"
    [] ~s.eth_rpc_url /\ s.api_key -> "alchemy-ethereum-mainnet"
    [] ~s.eth_rpc_url /\ ~s.api_key -> IF s.rpc_url THEN "legacy" ELSE NoUrl

\* The API key gives Fuji to its id, and Mainnet to any other.
AvalancheUrl(s) ==
  CASE s.avax_rpc_url -> "override"
    [] ~s.avax_rpc_url /\ s.api_key ->
         IF s.avax_id = "43113" THEN "alchemy-avalanche-fuji" ELSE "alchemy-avalanche-mainnet"
    [] ~s.avax_rpc_url /\ ~s.api_key -> NoUrl

RpcUrl(s, key) ==
  CASE key = "ethereum" -> EthereumUrl(s)
    [] key = "avalanche" -> AvalancheUrl(s)
    [] key = "hsk" -> IF s.hsk_rpc_url THEN "hsk" ELSE NoUrl

RpcConfigured(s, key) == RpcUrl(s, key) # NoUrl

\* The Ethereum subgraph falls back to the single-chain setting.
GraphConfigured(s, key) == key \in s.graph \/ (key = "ethereum" /\ "legacy" \in s.graph)

\* validate_production_requirements: the process does not start without it.
Starts(s) == s.production => RpcConfigured(s, "ethereum")

-----------------------------------------------------------------------------
(* The factory.                                                            *)

ChainId(s, key) ==
  CASE key = "ethereum" -> s.eth_id [] key = "avalanche" -> s.avax_id [] key = "hsk" -> s.hsk_id

\* _avalanche_network_name, and the fixed names of the others.
Network(s, key) ==
  CASE key = "ethereum" -> "ethereum-mainnet"
    [] key = "avalanche" -> IF s.avax_id = "43113" THEN "avalanche-fuji" ELSE "avalanche-mainnet"
    [] key = "hsk" -> "hsk"

\* Mutated form: the fixed aliases are written last.
AliasesFixedLast(s) ==
  [n \in EthereumNames \cup AvalancheNames \cup HskNames \cup {s.hsk_id} |->
     IF n \in EthereumNames THEN "ethereum" ELSE IF n \in AvalancheNames THEN "avalanche" ELSE "hsk"]

\* The alias dict: HSK's id is written after the others and takes their place.
Aliases(s) ==
  [n \in EthereumNames \cup AvalancheNames \cup HskNames \cup {s.hsk_id} |->
     IF n \in HskNames \cup {s.hsk_id} THEN "hsk"
     ELSE IF n \in EthereumNames THEN "ethereum" ELSE "avalanche"]

\* normalize_chain: no key for a name that is none of these.
Known(s, chain) == chain \in DOMAIN Aliases(s)
Normalize(s, chain) == Aliases(s)[chain]

NoProvider == [url |-> NoUrl, expected |-> "none", network |-> "none"]

\* get_rpc_provider_for_chain: the endpoint, the chain id it must answer with
\* and the network it is labelled.
RpcProvider(s, chain) ==
  IF Known(s, chain) /\ RpcConfigured(s, Normalize(s, chain))
  THEN LET key == Normalize(s, chain) IN
       [url |-> RpcUrl(s, key), expected |-> ChainId(s, key), network |-> Network(s, key)]
  ELSE NoProvider

\* get_graph_provider_for_chain, of a chain and of its own key.
GraphProvider(s, chain) ==
  Known(s, chain) /\ GraphConfigured(s, Normalize(s, chain))

-----------------------------------------------------------------------------
\* What the callers do with a path: the name is normalised, and the provider
\* is built for the key it gives.
Selection(s, chain) ==
  IF Known(s, chain)
  THEN LET key == Normalize(s, chain) IN
       [status |-> "200", key |-> key, rpc |-> RpcProvider(s, key),
        rpc_configured |-> RpcConfigured(s, key), graph |-> GraphProvider(s, key),
        graph_configured |-> GraphConfigured(s, key)]
  ELSE [status |-> "INVALID_CHAIN"]

SelectionInit ==
  /\ given \in {g \in SelectionRequests : Starts(g.settings)}
  /\ tasks = NoTasks /\ answer = Unanswered

SelectionNext ==
  given.route = "select" /\ AnswerAtOnce(Selection(given.settings, given.chain))

-----------------------------------------------------------------------------
(* Properties.                                                             *)

\* The chain behind a URL made from the API key; any other is for the operator
\* to know.
UrlChain(url) ==
  CASE url = "alchemy-ethereum-mainnet" -> "1"
    [] url = "alchemy-avalanche-mainnet" -> "43114"
    [] url = "alchemy-avalanche-fuji" -> "43113"
    [] OTHER -> "any"

\* Settings that put a URL of the API key and the expected id apart: there the
\* chain check of every use fails, which is what NothingFromAnotherChain is for.
Misfit(s, key) ==
  \/ key = "ethereum" /\ s.eth_id # "1"
  \/ key = "avalanche" /\ s.avax_id \notin {"43113", "43114"}

\* Settings that give a chain the number of another.
Crossed(s) == s.eth_id \in {"43113", "43114"} \/ s.avax_id = "1"

\* A path reaches one chain.  It has a provider exactly when its chain is said
\* to be configured, as defi_core asserts, whichever other chain took its
\* number; an endpoint made from the API key is of the chain the provider
\* insists on, and of the network it is labelled, misfits apart; and a number
\* that is the id of a chain gets a provider which insists on that number.  An
\* Avalanche number that is not the id of the settings is an alias all the
\* same and gets the network they choose (README, divergences).
PathReachesOneChain ==
  given.route = "select" /\ answer.status = "200" =>
    LET s == given.settings
        rpc == answer.rpc
    IN
    /\ rpc # NoProvider <=> answer.rpc_configured
    /\ answer.graph <=> answer.graph_configured
    /\ UrlChain(rpc.url) \in {rpc.expected, "any"} \/ Misfit(s, answer.key)
    /\ rpc # NoProvider /\ answer.key = "avalanche" =>
         (rpc.network = "avalanche-fuji" <=> rpc.expected = "43113")
    /\ rpc # NoProvider /\ given.chain \in {s.eth_id, s.avax_id, s.hsk_id} /\ ~Crossed(s) =>
         rpc.expected = given.chain
=============================================================================
