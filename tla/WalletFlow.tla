----------------------------- MODULE WalletFlow -----------------------------
(***************************************************************************)
(* POST /v1/web/investigations/wallet-flow and its agent twin: what came   *)
(* into a wallet and what left it, from two coroutines that page through   *)
(* the transfers Alchemy has of the wallet, newest first.                  *)
(*                                                                         *)
(* A transfer is its position in that history and keeps its day only, None *)
(* when it has no metadata.  A page is full unless it is the last one, and *)
(* has a key unless it is: Alchemy's side, external.                       *)
(***************************************************************************)
EXTENDS ClientRequest, Sequences

CONSTANTS
  PageSize,      \* transfers in a page of a date window (1000 in the code)
  MaxPages,      \* pages read of a date window (10 in the code)
  FlowRequests   \* the requests that can arrive

None == 0        \* no date, no timestamp

Directions == {"IN", "OUT"}

\* Newest first, as far as the transfers say when they were.
NewestFirst(h) ==
  \A i, j \in 1..Len(h) : i < j /\ h[i] # None /\ h[j] # None => h[i] >= h[j]

\* limit is at most 100, a page of the code at least that.
ASSUME FlowAssumption ==
  /\ PageSize \in Nat \ {0} /\ MaxPages \in Nat \ {0}
  /\ \A g \in FlowRequests :
       /\ g.route = "wallet_flow" /\ g.channel \in {"web", "agent"}
       /\ g.valid \in BOOLEAN /\ g.x402 \in BOOLEAN /\ g.alchemy \in BOOLEAN
       /\ g.limit \in 1..PageSize /\ g.from \in Nat /\ g.to \in Nat
       /\ g.history \in [Directions -> Seq(Nat)]
       /\ \A d \in Directions : NewestFirst(g.history[d])

-----------------------------------------------------------------------------
(* The checks before the first page.                                       *)

WindowReversed(g) == g.from # None /\ g.to # None /\ g.from > g.to

\* The body's validators, the agent channel's x402 check, then the provider's
\* settings; the wallet session of the web channel is WalletSessions'.
FlowRefusal(g) ==
  CASE ~g.valid \/ WindowReversed(g) -> "422"
    [] g.valid /\ ~WindowReversed(g) ->
         IF (g.channel = "agent" /\ ~g.x402) \/ ~g.alchemy THEN "503" ELSE "none"

FlowTasks(g) ==
  IF FlowRefusal(g) = "none"
  THEN [d \in Directions |-> [phase |-> "reading", next |-> 0, pages |-> 0, got |-> {}]]
  ELSE NoTasks

FlowInit ==
  /\ given \in FlowRequests
  /\ tasks = FlowTasks(given)
  /\ answer = Unanswered

Serving == given.route = "wallet_flow"

FlowRefuse ==
  /\ Serving /\ FlowRefusal(given) # "none"
  /\ AnswerAtOnce(HttpError(FlowRefusal(given)))

-----------------------------------------------------------------------------
(* AlchemyTransfersProvider.acquire.                                       *)

Windowed(g) == g.from # None \/ g.to # None
Size(g) == IF Windowed(g) THEN PageSize ELSE g.limit
Cap(g) == IF Windowed(g) THEN MaxPages ELSE 1

Total(g, d) == Len(g.history[d])
Day(g, d, i) == g.history[d][i]

InWindow(g, d, i) ==
  /\ g.to # None => Day(g, d, i) # None /\ Day(g, d, i) <= g.to
  /\ g.from # None => Day(g, d, i) # None /\ Day(g, d, i) >= g.from

BelowWindow(g, d, i) == g.from # None /\ Day(g, d, i) # None /\ Day(g, d, i) < g.from

\* The k first positions of S.
Firsts(S, k) ==
  {T \in SUBSET S : Cardinality(T) = k /\ \A i \in T, j \in S \ T : i < j}

PageEnd(d) ==
  LET end == tasks[d].next + Size(given) IN
  IF end < Total(given, d) THEN end ELSE Total(given, d)

Page(d) == (tasks[d].next + 1)..PageEnd(d)

\* The transfers of a page that are in the window.
Matches(d) == {i \in Page(d) : InWindow(given, d, i)}

\* Mutated form: a page without a match ends the reading.
StopsAtBarren(d) ==
  \/ PageEnd(d) = Total(given, d)
  \/ Matches(d) = {}
  \/ tasks[d].pages + 1 = Cap(given)

\* No page key, a transfer below the window, or the last page allowed.
Stops(d) ==
  \/ PageEnd(d) = Total(given, d)
  \/ \E i \in Page(d) : BelowWindow(given, d, i)
  \/ tasks[d].pages + 1 = Cap(given)

\* What a coroutine is once it has read a page and kept some of it.
PageRead(d, phase, kept) ==
  [phase |-> phase, next |-> PageEnd(d), pages |-> tasks[d].pages + 1,
   got |-> tasks[d].got \cup kept]

Room(d) == given.limit - Cardinality(tasks[d].got)

\* Mutated form: the limit is looked at between pages only.
ReadWholePage(d) ==
  /\ Serving /\ tasks[d].phase = "reading"
  /\ tasks' = [tasks EXCEPT ![d] =
       PageRead(d, IF Stops(d) \/ Cardinality(Matches(d)) >= Room(d) THEN "done" ELSE "reading",
                Matches(d))]
  /\ UNCHANGED <<given, answer>>

\* A page is read and filtered; acquire returns inside it when it has limit
\* transfers.
ReadPage(d) ==
  /\ Serving /\ tasks[d].phase = "reading"
  /\ \/ /\ Cardinality(Matches(d)) >= Room(d)
        /\ \E first \in Firsts(Matches(d), Room(d)) :
             tasks' = [tasks EXCEPT ![d] = PageRead(d, "done", first)]
     \/ /\ Cardinality(Matches(d)) < Room(d)
        /\ tasks' = [tasks EXCEPT ![d] =
             PageRead(d, IF Stops(d) THEN "done" ELSE "reading", Matches(d))]
  /\ UNCHANGED <<given, answer>>

\* _page raises a ProviderError, or a body that is not the JSON expected raises
\* something acquire_wallet_flow does not catch.
FailPage(d) ==
  /\ Serving /\ tasks[d].phase = "reading"
  /\ \E code \in {"502", "500"} : Raise(d, code)

\* The 200 of acquire_wallet_flow.
FlowResponse ==
  [status |-> "200", found |-> [d \in Directions |-> tasks[d].got],
   truncated |-> \E d \in Directions : Cardinality(tasks[d].got) = given.limit]

FlowAnswer ==
  /\ Serving /\ FlowRefusal(given) = "none"
  /\ AnswerGathered(FlowResponse)

FlowNext ==
  \/ FlowRefuse
  \/ \E d \in DOMAIN tasks : d \in Directions /\ (ReadPage(d) \/ FailPage(d))
  \/ FlowAnswer

-----------------------------------------------------------------------------
(* Properties.                                                             *)

Transfers(d) == {i \in 1..Total(given, d) : InWindow(given, d, i)}

\* What a response lists of a direction is the newest part of the transfers in
\* the window, limit at most, with none left out in between, however the pages
\* fell and however far the two directions were apart.
FlowIsTheLatest ==
  Serving /\ answer.status = "200" =>
    \A d \in Directions :
      /\ answer.found[d] \subseteq Transfers(d)
      /\ Cardinality(answer.found[d]) <= given.limit
      /\ \A i \in Transfers(d), j \in answer.found[d] : i < j => i \in answer.found[d]

\* What the pages of a window reach of the history.
Reach(d) == IF Windowed(given) THEN 1..(MaxPages * PageSize) ELSE 1..Total(given, d)

\* A response that is not truncated lists every transfer in the window, those
\* beyond the last page it may read excepted: stopping at the first transfer
\* below the window loses none of them.
UntruncatedIsWhole ==
  Serving /\ answer.status = "200" /\ ~answer.truncated =>
    \A d \in Directions : answer.found[d] = Transfers(d) \cap Reach(d)
=============================================================================
