-------------------------- MODULE WalletFlowProofs --------------------------
(***************************************************************************)
(* Proofs about WalletFlow, for every page size, every number of pages,    *)
(* every history of transfers and every window; and, at the end, about the *)
(* coroutines and the answer of any route of ClientRequests.               *)
(***************************************************************************)
EXTENDS ClientRequestsProofs

FlowRecords ==
  [phase : {"reading", "done", "failed"}, next : Nat, pages : Nat, got : SUBSET Nat]

\* The transfers in the window a direction has gone past.
Passed(g, d, r) == {i \in 1..r.next : InWindow(g, d, i)}

\* Why a direction that is done has no transfer in its window left to find.
Exhausted(g, d, r) ==
  \/ r.next = Total(g, d)
  \/ \E i \in 1..r.next : BelowWindow(g, d, i)
  \/ r.pages = Cap(g) /\ r.next = r.pages * Size(g)

\* A direction that reads has every match of the pages behind it, its limit not
\* reached; one that is done below its limit has nothing left to read.
DirectionInv(g, d, r) ==
  /\ r \in FlowRecords
  /\ r.next <= Total(g, d) /\ r.next <= r.pages * Size(g) /\ r.pages <= Cap(g)
  /\ IsFiniteSet(r.got) /\ Cardinality(r.got) <= g.limit
  /\ r.got \subseteq Passed(g, d, r)
  /\ \A i \in Passed(g, d, r), j \in r.got : i < j => i \in r.got
  /\ r.phase = "reading" =>
       /\ Cardinality(r.got) < g.limit /\ r.got = Passed(g, d, r)
       /\ r.next = r.pages * Size(g) /\ r.pages < Cap(g)
  /\ r.phase = "done" /\ Cardinality(r.got) < g.limit =>
       r.got = Passed(g, d, r) /\ Exhausted(g, d, r)

Listed(ts) == [d \in Directions |-> ts[d].got]

FlowInv ==
  Serving =>
    /\ given \in FlowRequests
    /\ tasks = NoTasks \/ (DOMAIN tasks = Directions /\ \A d \in Directions : DirectionInv(given, d, tasks[d]))
    /\ FlowRefusal(given) = "none" => tasks # NoTasks
    /\ answer.status = "200" =>
         /\ tasks # NoTasks /\ \A d \in Directions : tasks[d].phase = "done"
         /\ answer.found = Listed(tasks)
         /\ answer.truncated <=> \E d \in Directions : Cardinality(tasks[d].got) = given.limit

\* What the assumption says of a request.
LEMMA FlowGiven ==
  ASSUME NEW g \in FlowRequests, NEW d \in Directions
  PROVE  /\ g.limit \in Nat \ {0} /\ g.from \in Nat /\ g.to \in Nat
         /\ Size(g) \in Nat \ {0} /\ Cap(g) \in Nat \ {0} /\ Total(g, d) \in Nat
         /\ ~Windowed(g) => Size(g) = g.limit /\ Cap(g) = 1
         /\ Windowed(g) => Size(g) = PageSize /\ Cap(g) = MaxPages
         /\ \A i \in 1..Total(g, d) : Day(g, d, i) \in Nat
         /\ \A i, j \in 1..Total(g, d) :
              i < j /\ Day(g, d, i) # None /\ Day(g, d, j) # None => Day(g, d, i) >= Day(g, d, j)
<1>1. /\ g.limit \in 1..PageSize /\ g.from \in Nat /\ g.to \in Nat
      /\ g.history[d] \in Seq(Nat) /\ NewestFirst(g.history[d])
      /\ PageSize \in Nat \ {0} /\ MaxPages \in Nat \ {0}
  BY FlowAssumption
<1>2. Total(g, d) \in Nat /\ \A i \in 1..Total(g, d) : Day(g, d, i) \in Nat
  BY <1>1 DEF Total, Day
<1>3. \A i, j \in 1..Total(g, d) :
        i < j /\ Day(g, d, i) # None /\ Day(g, d, j) # None => Day(g, d, i) >= Day(g, d, j)
  BY <1>1 DEF Total, Day, NewestFirst
<1>4. g.limit \in Nat \ {0}
  BY <1>1
<1> QED BY <1>1, <1>2, <1>3, <1>4 DEF Size, Cap

LEMMA FirstsAreFirst ==
  ASSUME NEW S, IsFiniteSet(S), NEW k, NEW T \in Firsts(S, k)
  PROVE  /\ T \subseteq S /\ IsFiniteSet(T) /\ Cardinality(T) = k
         /\ \A i \in T, j \in S \ T : i < j
BY FS_Subset DEF Firsts

\* What ReadPage makes of the record of a direction.
EndOf(g, d, r) ==
  IF r.next + Size(g) < Total(g, d) THEN r.next + Size(g) ELSE Total(g, d)
MatchesOf(g, d, r) == {i \in (r.next + 1)..EndOf(g, d, r) : InWindow(g, d, i)}

FillsUp(g, d, r, phase, kept) ==
  phase = "done" /\ kept \in Firsts(MatchesOf(g, d, r), g.limit - Cardinality(r.got))

TakesAll(g, d, r, phase, kept) ==
  /\ kept = MatchesOf(g, d, r) /\ Cardinality(kept) < g.limit - Cardinality(r.got)
  /\ phase = IF \/ EndOf(g, d, r) = Total(g, d)
                \/ \E i \in (r.next + 1)..EndOf(g, d, r) : BelowWindow(g, d, i)
                \/ r.pages + 1 = Cap(g)
             THEN "done" ELSE "reading"

LEMMA PageKeepsDirection ==
  ASSUME NEW g \in FlowRequests, NEW d \in Directions, NEW r, DirectionInv(g, d, r),
         r.phase = "reading", NEW kept, NEW phase, NEW s,
         s = [phase |-> phase, next |-> EndOf(g, d, r), pages |-> r.pages + 1,
              got |-> r.got \cup kept],
         FillsUp(g, d, r, phase, kept) \/ TakesAll(g, d, r, phase, kept)
  PROVE  DirectionInv(g, d, s)
<1> DEFINE end == EndOf(g, d, r)
           matches == MatchesOf(g, d, r)
<1> HIDE DEF end, matches
<1>1. /\ g.limit \in Nat /\ Size(g) \in Nat \ {0} /\ Cap(g) \in Nat \ {0} /\ Total(g, d) \in Nat
  BY FlowGiven
<1>2. /\ r.next \in Nat /\ r.pages \in Nat /\ r.got \subseteq Nat
      /\ r.next <= Total(g, d) /\ r.next = r.pages * Size(g) /\ r.pages < Cap(g)
      /\ r.got = Passed(g, d, r) /\ IsFiniteSet(r.got) /\ Cardinality(r.got) < g.limit
  BY DEF DirectionInv, FlowRecords
<1>3. /\ end \in Nat /\ r.next <= end /\ end <= Total(g, d) /\ end <= r.next + Size(g)
      /\ end # Total(g, d) => end = r.next + Size(g)
  BY <1>1, <1>2 DEF end, EndOf
<1>4. (r.pages + 1) * Size(g) = r.next + Size(g)
  BY <1>1, <1>2
<1>5. matches \subseteq (r.next + 1)..end /\ IsFiniteSet(matches)
  <2>1. matches = {i \in (r.next + 1)..end : InWindow(g, d, i)}
    BY DEF end, matches, MatchesOf
  <2>2. IsFiniteSet((r.next + 1)..end)
    BY <1>2, <1>3, FS_Interval
  <2> QED BY <2>1, <2>2, FS_Subset
<1>6. Cardinality(matches) \in Nat /\ Cardinality(r.got) \in Nat
  BY <1>2, <1>5, FS_CardinalityType
<1>7. Passed(g, d, s) = r.got \cup matches
  <2>1. s.next = end
    BY DEF end
  <2>2. \A i : i \in 1..end <=> i \in 1..r.next \/ i \in (r.next + 1)..end
    BY <1>1, <1>2, <1>3
  <2>3. matches = {i \in (r.next + 1)..end : InWindow(g, d, i)}
    BY DEF end, matches, MatchesOf
  <2> QED BY <1>2, <2>1, <2>2, <2>3 DEF Passed
<1>8. kept \subseteq matches /\ IsFiniteSet(kept) /\ r.got \cap kept = {}
  <2>1. kept \subseteq matches /\ IsFiniteSet(kept)
    BY <1>5, FirstsAreFirst DEF FillsUp, TakesAll, matches
  <2>2. r.got \subseteq 1..r.next
    BY <1>2 DEF Passed
  <2>3. (1..r.next) \cap ((r.next + 1)..end) = {}
    BY <1>2, <1>3
  <2> QED BY <1>5, <2>1, <2>2, <2>3
<1>9. /\ IsFiniteSet(r.got \cup kept)
      /\ Cardinality(r.got \cup kept) = Cardinality(r.got) + Cardinality(kept)
  <2>1. Cardinality(r.got \cap kept) = 0
    BY <1>8, FS_EmptySet
  <2>2. Cardinality(kept) \in Nat
    BY <1>8, FS_CardinalityType
  <2>3. /\ IsFiniteSet(r.got \cup kept)
        /\ Cardinality(r.got \cup kept) =
             Cardinality(r.got) + Cardinality(kept) - Cardinality(r.got \cap kept)
    BY <1>2, <1>8, FS_Union
  <2> QED BY <1>6, <2>1, <2>2, <2>3
<1>10. r.got \cup kept \subseteq Nat /\ end \in Nat /\ r.pages + 1 \in Nat
  <2>1. kept \subseteq Nat
    <3> DEFINE first == r.next + 1
    <3>1. first \in Nat /\ end \in Nat
      BY <1>2, <1>3
    <3>2. kept \subseteq first..end
      BY <1>5, <1>8, Zenon
    <3> HIDE DEF first
    <3>3. first..end \subseteq Nat
      BY <3>1
    <3> QED BY <3>2, <3>3, Zenon
  <2>2. r.pages \in Nat /\ r.got \subseteq Nat
    BY <1>2
  <2>3. r.got \cup kept \subseteq Nat
    BY <2>1, <2>2
  <2>4. r.pages + 1 \in Nat
    BY <2>2
  <2> QED BY <1>3, <2>3, <2>4
<1>11. ASSUME NEW i \in Passed(g, d, s), NEW j \in s.got, i < j
       PROVE  i \in s.got
  <2>1. CASE i \in r.got
    BY <2>1
  <2>2. CASE i \in kept
    BY <2>2
  <2>3. CASE i \in matches /\ i \notin kept /\ FillsUp(g, d, r, phase, kept)
    <3>1. j \notin kept
      <4> SUFFICES ASSUME j \in kept PROVE FALSE
        OBVIOUS
      <4>1. j < i
        BY <1>5, <2>3, FirstsAreFirst DEF FillsUp, matches
      <4>2. i \in Nat /\ j \in Nat
        BY <1>2, <1>3, <1>5, <1>8, <2>3
      <4> QED BY <1>11, <4>1, <4>2
    <3>2. j \in r.got
      BY <1>11, <3>1
    <3> QED BY <1>1, <1>2, <1>3, <1>5, <1>11, <2>3, <3>2 DEF Passed
  <2> QED BY <1>7, <1>11, <2>1, <2>2, <2>3 DEF TakesAll, matches
<1>12. s.next = end /\ s.pages = r.pages + 1 /\ s.got = r.got \cup kept /\ s.phase = phase
  BY DEF end
<1>13. /\ s.next <= Total(g, d) /\ s.next <= s.pages * Size(g) /\ s.pages <= Cap(g)
       /\ IsFiniteSet(s.got) /\ s.got \subseteq Passed(g, d, s)
  BY <1>1, <1>2, <1>3, <1>4, <1>7, <1>8, <1>9, <1>12
<1> DEFINE Closed == \A i \in Passed(g, d, s), j \in s.got : i < j => i \in s.got
<1>14. Closed
  BY <1>11
<1>15. CASE FillsUp(g, d, r, phase, kept)
  <2>1. Cardinality(kept) = g.limit - Cardinality(r.got)
    BY <1>5, <1>15, FirstsAreFirst DEF FillsUp, matches
  <2>2. Cardinality(s.got) = g.limit /\ phase = "done"
    BY <1>1, <1>6, <1>9, <1>12, <1>15, <2>1 DEF FillsUp
  <2>3. s \in FlowRecords
    BY <1>10, <2>2 DEF FlowRecords, end
  <2>4. Cardinality(s.got) <= g.limit /\ ~(Cardinality(s.got) < g.limit) /\ s.phase # "reading"
    BY <1>1, <1>12, <2>2
  <2> QED BY <1>13, <1>14, <2>3, <2>4 DEF DirectionInv
<1>16. CASE TakesAll(g, d, r, phase, kept)
  <2>0. kept = matches /\ Cardinality(matches) < g.limit - Cardinality(r.got)
    BY <1>16 DEF TakesAll, matches
  <2>1. Cardinality(s.got) < g.limit /\ s.got = Passed(g, d, s)
    <3>1. s.got = Passed(g, d, s)
      BY <1>7, <1>12, <2>0
    <3>2. Cardinality(s.got) = Cardinality(r.got) + Cardinality(matches)
      BY <1>9, <1>12, <2>0
    <3> QED BY <1>1, <1>6, <2>0, <3>1, <3>2
  <2>2. end # Total(g, d) => s.next = s.pages * Size(g)
    BY <1>3, <1>4, <1>12
  <2>3. phase = "reading" => s.pages < Cap(g) /\ end # Total(g, d)
    <3>1. phase = "reading" => r.pages + 1 # Cap(g) /\ end # Total(g, d)
      BY <1>16 DEF TakesAll, end
    <3> QED BY <1>1, <1>2, <1>12, <3>1
  <2>4. phase = "done" => Exhausted(g, d, s)
    <3>1. \A i \in (r.next + 1)..end : i \in 1..s.next
      BY <1>1, <1>2, <1>3, <1>12
    <3>2. phase = "done" =>
            \/ end = Total(g, d)
            \/ \E i \in (r.next + 1)..end : BelowWindow(g, d, i)
            \/ r.pages + 1 = Cap(g)
      BY <1>16 DEF TakesAll, end
    <3> QED BY <1>12, <2>2, <3>1, <3>2 DEF Exhausted
  <2>5. phase \in {"reading", "done"}
    BY <1>16 DEF TakesAll
  <2>6. s \in FlowRecords
    BY <1>10, <2>5 DEF FlowRecords, end
  <2>7. Cardinality(s.got) <= g.limit
    BY <1>1, <2>1, <1>12, <1>9, <1>6, <1>8, FS_CardinalityType
  <2> QED BY <1>12, <1>13, <1>14, <2>1, <2>2, <2>3, <2>4, <2>6, <2>7 DEF DirectionInv
<1> QED BY <1>15, <1>16

-----------------------------------------------------------------------------
(* The request.                                                            *)

LEMMA ReadKeepsFlow ==
  ASSUME FlowInv, Serving, NEW d \in DOMAIN tasks, d \in Directions, ReadPage(d)
  PROVE  FlowInv'
<1>1. /\ given \in FlowRequests /\ DOMAIN tasks = Directions
      /\ \A e \in Directions : DirectionInv(given, e, tasks[e])
      /\ FlowRefusal(given) = "none" => tasks # NoTasks
  BY NoTasksIsEmpty DEF FlowInv
<1>2. given' = given /\ answer' = answer /\ tasks[d].phase = "reading"
  BY DEF ReadPage
<1>3. answer.status # "200"
  BY <1>2 DEF FlowInv
<1>4. EndOf(given, d, tasks[d]) = PageEnd(d) /\ MatchesOf(given, d, tasks[d]) = Matches(d)
  BY DEF EndOf, MatchesOf, PageEnd, Matches, Page
<1>5. ASSUME NEW phase, NEW kept,
             FillsUp(given, d, tasks[d], phase, kept) \/ TakesAll(given, d, tasks[d], phase, kept),
             tasks' = [tasks EXCEPT ![d] = PageRead(d, phase, kept)]
      PROVE  FlowInv'
  <2>1. PageRead(d, phase, kept) =
          [phase |-> phase, next |-> EndOf(given, d, tasks[d]), pages |-> tasks[d].pages + 1,
           got |-> tasks[d].got \cup kept]
    BY <1>4 DEF PageRead
  <2>2. DirectionInv(given, d, PageRead(d, phase, kept))
    BY <1>1, <1>2, <1>5, <2>1, PageKeepsDirection
  <2>3. DOMAIN tasks' = Directions /\ \A e \in Directions : DirectionInv(given, e, tasks'[e])
    BY <1>1, <1>5, <2>2
  <2>4. tasks' # NoTasks
    BY <2>3, NoTasksIsEmpty
  <2> QED BY <1>1, <1>2, <1>3, <2>3, <2>4 DEF FlowInv
<1>6. CASE Cardinality(Matches(d)) >= Room(d)
  <2>1. PICK first \in Firsts(Matches(d), Room(d)) :
          tasks' = [tasks EXCEPT ![d] = PageRead(d, "done", first)]
    <3>1. Room(d) \in Int /\ Cardinality(Matches(d)) \in Nat
      <4>1. given.limit \in Nat /\ Cardinality(tasks[d].got) \in Nat
        BY <1>1, FlowGiven, FS_CardinalityType DEF DirectionInv
      <4>2. IsFiniteSet(Matches(d))
        <5>1. tasks[d].next \in Nat /\ Size(given) \in Nat /\ Total(given, d) \in Nat
          BY <1>1, FlowGiven DEF DirectionInv, FlowRecords
        <5>2. tasks[d].next + 1 \in Int /\ PageEnd(d) \in Int
          BY <5>1 DEF PageEnd
        <5>3. IsFiniteSet(Page(d))
          BY <5>2, FS_Interval DEF Page
        <5> QED BY <5>3, FS_Subset DEF Matches
      <4> QED BY <4>1, <4>2, FS_CardinalityType DEF Room
    <3>2. ~(Cardinality(Matches(d)) < Room(d))
      BY <1>6, <3>1
    <3> QED BY <3>2 DEF ReadPage
  <2>2. FillsUp(given, d, tasks[d], "done", first)
    BY <1>4 DEF FillsUp, Room
  <2> QED BY <1>5, <2>1, <2>2
<1>7. CASE Cardinality(Matches(d)) < Room(d) /\
           tasks' = [tasks EXCEPT ![d] = PageRead(d, IF Stops(d) THEN "done" ELSE "reading", Matches(d))]
  <2>1. TakesAll(given, d, tasks[d], IF Stops(d) THEN "done" ELSE "reading", Matches(d))
    BY <1>4, <1>7 DEF TakesAll, Room, Stops, Page
  <2> QED BY <1>5, <1>7, <2>1
<1> QED BY <1>6, <1>7 DEF ReadPage

LEMMA FailKeepsFlow ==
  ASSUME FlowInv, Serving, NEW d \in DOMAIN tasks, d \in Directions, FailPage(d)
  PROVE  FlowInv'
<1>1. /\ given \in FlowRequests /\ DOMAIN tasks = Directions
      /\ \A e \in Directions : DirectionInv(given, e, tasks[e])
  BY NoTasksIsEmpty DEF FlowInv
<1>2. /\ given' = given /\ tasks[d].phase = "reading"
      /\ tasks' = [tasks EXCEPT ![d].phase = "failed"]
      /\ \E code \in {"502", "500"} :
           answer' = IF answer = Unanswered THEN HttpError(code) ELSE answer
  BY DEF FailPage, Raise
<1>3. answer.status # "200"
  BY <1>2 DEF FlowInv
<1>4. answer'.status # "200"
  BY <1>2, <1>3 DEF HttpError
<1>5. DirectionInv(given, d, tasks'[d])
  <2>1. /\ tasks[d] \in FlowRecords /\ DirectionInv(given, d, tasks[d])
    BY <1>1 DEF DirectionInv
  <2>2. tasks'[d] = [tasks[d] EXCEPT !.phase = "failed"]
    BY <1>1, <1>2
  <2>3. /\ tasks'[d] \in FlowRecords /\ tasks'[d].phase = "failed"
        /\ tasks'[d].next = tasks[d].next /\ tasks'[d].pages = tasks[d].pages
        /\ tasks'[d].got = tasks[d].got
    BY <2>1, <2>2 DEF FlowRecords
  <2>4. Passed(given, d, tasks'[d]) = Passed(given, d, tasks[d])
    BY <2>3 DEF Passed
  <2> QED BY <2>1, <2>3, <2>4 DEF DirectionInv
<1>6. DOMAIN tasks' = Directions /\ \A e \in Directions : DirectionInv(given, e, tasks'[e])
  BY <1>1, <1>2, <1>5
<1>7. tasks' # NoTasks
  BY <1>6, NoTasksIsEmpty
<1> QED BY <1>1, <1>2, <1>4, <1>6, <1>7 DEF FlowInv

LEMMA FlowStepKeeps ==
  ASSUME FlowInv, Serving, FlowNext
  PROVE  FlowInv'
<1>1. CASE FlowRefuse
  <2>1. given' = given /\ tasks' = tasks /\ answer' = HttpError(FlowRefusal(given))
    BY <1>1 DEF FlowRefuse, AnswerAtOnce
  <2>2. FlowRefusal(given) # "200"
    BY FlowAssumption DEF FlowInv, FlowRefusal
  <2> QED BY <2>1, <2>2 DEF FlowInv, HttpError
<1>2. CASE FlowAnswer
  <2>1. /\ given' = given /\ tasks' = tasks /\ answer' = FlowResponse /\ FlowRefusal(given) = "none"
        /\ \A t \in DOMAIN tasks : tasks[t].phase = "done"
    BY <1>2 DEF FlowAnswer, AnswerGathered, AnswerAtOnce, Gathered
  <2>2. /\ given \in FlowRequests /\ tasks # NoTasks /\ DOMAIN tasks = Directions
        /\ \A e \in Directions : DirectionInv(given, e, tasks[e])
    BY <2>1 DEF FlowInv
  <2>3. /\ answer'.found = Listed(tasks)
        /\ answer'.truncated <=> \E d \in Directions : Cardinality(tasks[d].got) = given.limit
    BY <2>1 DEF FlowResponse, Listed
  <2> QED BY <2>1, <2>2, <2>3 DEF FlowInv, Listed
<1> QED BY <1>1, <1>2, ReadKeepsFlow, FailKeepsFlow DEF FlowNext

LEMMA FlowInvHolds == Spec => []FlowInv
<1>1. Init => FlowInv
  <2> SUFFICES ASSUME Init, Serving PROVE FlowInv
    BY DEF FlowInv
  <2>1. FlowInit /\ answer.status # "200"
    BY RouteStarts DEF Serving, Unanswered
  <2>2. given \in FlowRequests
    BY <2>1 DEF FlowInit
  <2>3. CASE FlowRefusal(given) # "none"
    BY <2>1, <2>2, <2>3 DEF FlowInv, FlowInit, FlowTasks
  <2>4. CASE FlowRefusal(given) = "none"
    <3> DEFINE fresh == [phase |-> "reading", next |-> 0, pages |-> 0, got |-> {}]
    <3>1. tasks = [d \in Directions |-> fresh]
      BY <2>1, <2>4 DEF FlowInit, FlowTasks
    <3>2. ASSUME NEW d \in Directions PROVE DirectionInv(given, d, fresh)
      <4>1. /\ given.limit \in Nat \ {0} /\ Size(given) \in Nat \ {0} /\ Cap(given) \in Nat \ {0}
            /\ Total(given, d) \in Nat
        BY <2>2, FlowGiven
      <4>2. fresh \in FlowRecords /\ Passed(given, d, fresh) = {}
        BY DEF FlowRecords, Passed
      <4>3. IsFiniteSet({}) /\ Cardinality({}) = 0
        BY FS_EmptySet
      <4> QED BY <4>1, <4>2, <4>3 DEF DirectionInv
    <3> HIDE DEF fresh
    <3>3. DOMAIN tasks = Directions /\ \A d \in Directions : DirectionInv(given, d, tasks[d])
      BY <3>1, <3>2
    <3>4. tasks # NoTasks
      BY <3>3, NoTasksIsEmpty DEF Directions
    <3> QED BY <2>1, <2>2, <3>3, <3>4 DEF FlowInv
  <2> QED BY <2>3, <2>4
<1>2. FlowInv /\ [Next]_vars => FlowInv'
  <2> SUFFICES ASSUME FlowInv, [Next]_vars, Serving' PROVE FlowInv'
    BY DEF FlowInv
  <2>1. Serving
    BY GivenStays DEF Serving
  <2>2. CASE Next
    BY <2>1, <2>2, RouteActs, FlowStepKeeps DEF Serving
  <2>3. CASE UNCHANGED vars
    <3>1. tasks' = tasks /\ given' = given /\ answer' = answer
      BY <2>3 DEF vars
    <3> QED BY <2>1, <3>1 DEF FlowInv, Serving, Listed
  <2> QED BY <2>2, <2>3
<1> QED BY <1>1, <1>2, PTL DEF Spec

\* What a response lists of a direction is the newest part of the transfers in
\* the window, its limit at most and with none left out in between: the page
\* loop of AlchemyTransfersProvider.acquire, for every history it can meet.
THEOREM FlowListsTheLatest == Spec => []FlowIsTheLatest
<1>1. FlowInv => FlowIsTheLatest
  <2> SUFFICES ASSUME FlowInv, Serving, answer.status = "200", NEW d \in Directions
               PROVE  /\ answer.found[d] \subseteq Transfers(d)
                      /\ Cardinality(answer.found[d]) <= given.limit
                      /\ \A i \in Transfers(d), j \in answer.found[d] :
                           i < j => i \in answer.found[d]
    BY DEF FlowIsTheLatest
  <2> DEFINE r == tasks[d]
  <2>1. /\ given \in FlowRequests /\ DirectionInv(given, d, r) /\ answer.found[d] = r.got
    BY NoTasksIsEmpty DEF FlowInv, Listed
  <2> HIDE DEF r
  <2>2. r.next \in Nat /\ Total(given, d) \in Nat /\ r.next <= Total(given, d)
    BY <2>1, FlowGiven DEF DirectionInv, FlowRecords
  <2>3. Passed(given, d, r) \subseteq Transfers(d) /\ r.got \subseteq Passed(given, d, r)
    BY <2>1, <2>2 DEF DirectionInv, Passed, Transfers
  <2>4. ASSUME NEW i \in Transfers(d), NEW j \in r.got, i < j PROVE i \in r.got
    <3>1. i \in Passed(given, d, r)
      BY <2>2, <2>3, <2>4 DEF Passed, Transfers
    <3> QED BY <2>1, <2>4, <3>1 DEF DirectionInv
  <2> QED BY <2>1, <2>3, <2>4 DEF DirectionInv
<1> QED BY <1>1, FlowInvHolds, PTL

\* A response that is not truncated lists every transfer in the window that the
\* pages allowed reach: the loop ends only when there is nothing left to find.
THEOREM UntruncatedFlowIsWhole == Spec => []UntruncatedIsWhole
<1>1. FlowInv => UntruncatedIsWhole
  <2> SUFFICES ASSUME FlowInv, Serving, answer.status = "200", ~answer.truncated,
                      NEW d \in Directions
               PROVE  answer.found[d] = Transfers(d) \cap Reach(d)
    BY DEF UntruncatedIsWhole
  <2> DEFINE r == tasks[d]
  <2>1. /\ given \in FlowRequests /\ DirectionInv(given, d, r) /\ answer.found[d] = r.got
        /\ r.phase = "done" /\ Cardinality(r.got) # given.limit
    BY NoTasksIsEmpty DEF FlowInv, Listed
  <2> HIDE DEF r
  <2>2. /\ given.limit \in Nat /\ Size(given) \in Nat \ {0} /\ Cap(given) \in Nat \ {0}
        /\ Total(given, d) \in Nat
        /\ r.next \in Nat /\ r.pages \in Nat /\ r.next <= Total(given, d)
        /\ r.next <= r.pages * Size(given) /\ r.pages <= Cap(given)
    BY <2>1, FlowGiven DEF DirectionInv, FlowRecords
  <2>3. Cardinality(r.got) < given.limit
    BY <2>1, <2>2, FS_CardinalityType DEF DirectionInv
  <2>4. r.got = Passed(given, d, r) /\ Exhausted(given, d, r)
    BY <2>1, <2>3 DEF DirectionInv
  <2>5. r.pages * Size(given) <= Cap(given) * Size(given)
    BY <2>2
  <2>6. r.got \subseteq Transfers(d) \cap Reach(d)
    <3>1. r.got \subseteq Transfers(d)
      BY <2>2, <2>4 DEF Passed, Transfers
    <3>2. CASE Windowed(given)
      <4>1. Cap(given) * Size(given) = MaxPages * PageSize
        BY <3>2, <2>1, FlowGiven
      <4>2. r.next <= MaxPages * PageSize /\ MaxPages * PageSize \in Nat
        BY <2>2, <2>5, <4>1
      <4> QED BY <2>2, <2>4, <3>1, <3>2, <4>2 DEF Reach, Passed
    <3>3. CASE ~Windowed(given)
      BY <2>2, <2>4, <3>1, <3>3 DEF Reach, Passed
    <3> QED BY <3>2, <3>3
  <2>7. ASSUME NEW i \in Transfers(d) \cap Reach(d), i \notin r.got
        PROVE  FALSE
    <3>1. i \in 1..Total(given, d) /\ InWindow(given, d, i) /\ i > r.next
      BY <2>2, <2>4, <2>7 DEF Transfers, Passed
    <3>2. r.next # Total(given, d)
      BY <2>2, <3>1
    <3>3. CASE \E j \in 1..r.next : BelowWindow(given, d, j)
      <4>1. PICK j \in 1..r.next : BelowWindow(given, d, j)
        BY <3>3
      <4>2. j \in 1..Total(given, d) /\ j < i
        BY <2>2, <3>1
      <4>3. given.from # None /\ Day(given, d, j) # None /\ Day(given, d, j) < given.from
        BY <4>1 DEF BelowWindow
      <4>4. Day(given, d, i) # None /\ Day(given, d, i) >= given.from
        BY <3>1, <4>3 DEF InWindow
      <4>5. Day(given, d, j) >= Day(given, d, i)
        BY <2>1, <3>1, <4>2, <4>3, <4>4, FlowGiven
      <4>6. Day(given, d, i) \in Nat /\ Day(given, d, j) \in Nat /\ given.from \in Nat
        BY <2>1, <3>1, <4>2, FlowGiven
      <4> QED BY <4>3, <4>4, <4>5, <4>6
    <3>4. CASE r.pages = Cap(given) /\ r.next = r.pages * Size(given)
      <4>1. CASE Windowed(given)
        <5>1. r.next = MaxPages * PageSize
          BY <2>1, <3>4, <4>1, FlowGiven
        <5> QED BY <2>2, <2>7, <3>1, <4>1, <5>1 DEF Reach
      <4>2. CASE ~Windowed(given)
        <5>1. r.next = given.limit
          BY <2>1, <2>2, <3>4, <4>2, FlowGiven
        <5>2. \A j \in 1..r.next : InWindow(given, d, j)
          BY <4>2 DEF InWindow, Windowed
        <5>3. r.got = 1..r.next
          BY <2>4, <5>2 DEF Passed
        <5>4. Cardinality(r.got) = r.next
          <6>1. r.next \in Nat /\ 1 \in Int /\ r.next \in Int
            BY <2>2
          <6>2. Cardinality(1..r.next) = IF 1 > r.next THEN 0 ELSE r.next - 1 + 1
            BY <6>1, FS_Interval
          <6> QED BY <5>3, <6>1, <6>2
        <5> QED BY <2>2, <2>3, <5>1, <5>4
      <4> QED BY <4>1, <4>2
    <3> QED BY <2>4, <3>2, <3>3, <3>4 DEF Exhausted
  <2> QED BY <2>1, <2>6, <2>7
<1> QED BY <1>1, FlowInvHolds, PTL

-----------------------------------------------------------------------------
(* Any request: how its coroutines and its answer end.                     *)

\* The routes that ask nobody have no coroutine.
QuietInv == ~Serving /\ ~Defi /\ ~Mcp => tasks = NoTasks

CoroutineInv == FlowInv /\ DefiInv /\ McpInv /\ QuietInv

LEMMA QuietInvHolds == Spec => []QuietInv
<1>1. Init => QuietInv
  <2>1. FlowInit => Serving
    BY FlowAssumption DEF FlowInit, Serving
  <2>2. DefiInit => Defi
    BY DefiAssumption DEF DefiInit, Defi
  <2>3. McpInit => Mcp
    BY McpAssumption DEF McpInit, Mcp
  <2>4. VerifyInit \/ DerivationInit \/ SelectionInit => tasks = NoTasks
    BY DEF VerifyInit, DerivationInit, SelectionInit
  <2> QED BY <2>1, <2>2, <2>3, <2>4 DEF Init, QuietInv
<1>2. QuietInv /\ [Next]_vars => QuietInv'
  <2> SUFFICES ASSUME QuietInv, [Next]_vars, ~Serving, ~Defi, ~Mcp PROVE tasks' = tasks
    BY GivenStays DEF QuietInv, Serving, Defi, Mcp
  <2>1. VerifyNext \/ DerivationNext \/ SelectionNext => tasks' = tasks
    BY DEF VerifyNext, DerivationNext, SelectionNext, AnswerAtOnce
  <2> QED BY <2>1, FlowStep, DefiStep, McpStep DEF Next, vars, Serving, Defi, Mcp
<1> QED BY <1>1, <1>2, PTL DEF Spec

LEMMA CoroutineInvHolds == Spec => []CoroutineInv
BY FlowInvHolds, DefiInvHolds, McpInvHolds, QuietInvHolds, PTL DEF CoroutineInv

\* A 200 is the answer of a request whose coroutines are all done: no route of
\* asyncio.gather puts a response together from a coroutine that failed, or that
\* has not come back.
THEOREM SuccessIsWhole ==
  Spec => [](answer.status = "200" => \A t \in DOMAIN tasks : tasks[t].phase = "done")
<1>1. CoroutineInv => (answer.status = "200" => \A t \in DOMAIN tasks : tasks[t].phase = "done")
  <2> SUFFICES ASSUME CoroutineInv, answer.status = "200", NEW t \in DOMAIN tasks
               PROVE  tasks[t].phase = "done"
    OBVIOUS
  <2>1. CASE Serving
    BY <2>1, NoTasksIsEmpty DEF CoroutineInv, FlowInv
  <2>2. CASE Defi
    BY <2>2, NoTasksIsEmpty DEF CoroutineInv, DefiInv
  <2>3. CASE Mcp
    BY <2>3, NoTasksIsEmpty DEF CoroutineInv, McpInv
  <2> QED BY <2>1, <2>2, <2>3, NoTasksIsEmpty DEF CoroutineInv, QuietInv
<1> QED BY <1>1, CoroutineInvHolds, PTL

\* The awaits a coroutine has left at most: a page of its window each, or the
\* two queries of a chain or of the MCP service.
AwaitsLeft(g, r) ==
  IF r.phase = "reading" THEN Cap(g) - r.pages
  ELSE IF r.phase \in {"status", "health"} THEN 2
  ELSE IF r.phase \in {"query", "capabilities"} THEN 1 ELSE 0

AwaitsAtMost(g) == IF g.route = "wallet_flow" THEN Cap(g) ELSE 2

\* A coroutine that has not ended goes on, the others stay where they are.
Proceeds(t) ==
  /\ ~Ended(t) /\ DOMAIN tasks' = DOMAIN tasks
  /\ \A u \in DOMAIN tasks \ {t} : tasks'[u] = tasks[u]
  /\ AwaitsLeft(given, tasks'[t]) < AwaitsLeft(given, tasks[t])
  /\ answer # Unanswered => answer' = answer

Answers == answer = Unanswered /\ answer' # Unanswered /\ tasks' = tasks

Moves == Answers \/ \E t \in DOMAIN tasks : Proceeds(t)

LEMMA AtOnceAnswers ==
  ASSUME NEW response, response.status # "none", AnswerAtOnce(response)
  PROVE  Answers
BY DEF AnswerAtOnce, Answers, Unanswered

LEMMA FlowMoves ==
  ASSUME CoroutineInv, FlowNext
  PROVE  Moves
<1>0. Serving /\ FlowInv
  BY FlowStep DEF CoroutineInv, Serving
<1>1. CASE FlowRefuse
  <2>1. HttpError(FlowRefusal(given)).status # "none"
    BY <1>1 DEF FlowRefuse, HttpError
  <2> QED BY <1>1, <2>1, AtOnceAnswers DEF FlowRefuse, Moves
<1>2. CASE FlowAnswer
  <2>1. FlowResponse.status # "none"
    BY DEF FlowResponse
  <2> QED BY <1>2, <2>1, AtOnceAnswers DEF FlowAnswer, AnswerGathered, Moves
<1>3. ASSUME NEW d \in DOMAIN tasks, d \in Directions, ReadPage(d) \/ FailPage(d)
      PROVE  Proceeds(d)
  <2>0. tasks[d].phase = "reading"
    BY <1>3 DEF ReadPage, FailPage
  <2>1. given \in FlowRequests /\ DirectionInv(given, d, tasks[d]) /\ tasks[d].phase = "reading"
    BY <1>0, <1>3, <2>0, NoTasksIsEmpty DEF FlowInv
  <2>2. tasks[d].pages \in Nat /\ Cap(given) \in Nat /\ tasks[d].pages < Cap(given)
    BY <1>3, <2>1, FlowGiven DEF DirectionInv, FlowRecords
  <2>3. /\ AwaitsLeft(given, tasks[d]) = Cap(given) - tasks[d].pages /\ ~Ended(d)
    BY <2>1 DEF AwaitsLeft, Ended
  <2>4. CASE FailPage(d)
    <3>1. /\ tasks' = [tasks EXCEPT ![d].phase = "failed"]
          /\ answer # Unanswered => answer' = answer
      BY <2>4 DEF FailPage, Raise
    <3>2. tasks'[d].phase = "failed"
      <4>1. tasks[d] \in FlowRecords
        BY <2>1 DEF DirectionInv
      <4> QED BY <3>1, <4>1 DEF FlowRecords
    <3>3. AwaitsLeft(given, tasks'[d]) = 0
      BY <3>2 DEF AwaitsLeft
    <3> QED BY <2>2, <2>3, <3>1, <3>3 DEF Proceeds
  <2>5. CASE ReadPage(d)
    <3>1. PICK phase, kept : /\ phase \in {"reading", "done"} /\ answer' = answer
                             /\ tasks' = [tasks EXCEPT ![d] = PageRead(d, phase, kept)]
      BY <2>5 DEF ReadPage
    <3>2. tasks'[d].phase = phase /\ tasks'[d].pages = tasks[d].pages + 1
      BY <1>3, <3>1 DEF PageRead
    <3>3. AwaitsLeft(given, tasks'[d]) < Cap(given) - tasks[d].pages
      BY <2>2, <3>1, <3>2 DEF AwaitsLeft
    <3> QED BY <2>3, <3>1, <3>3 DEF Proceeds
  <2> QED BY <1>3, <2>4, <2>5
<1> QED BY <1>1, <1>2, <1>3 DEF FlowNext, Moves

LEMMA DefiMoves ==
  ASSUME CoroutineInv, DefiNext
  PROVE  Moves
<1>0. Defi /\ DefiInv
  BY DefiStep DEF CoroutineInv, Defi
<1>1. CASE DefiRefuse
  <2>1. HttpError(DefiRefusal).status # "none"
    BY <1>1 DEF DefiRefuse, HttpError
  <2> QED BY <1>1, <2>1, AtOnceAnswers DEF DefiRefuse, Moves
<1>2. CASE DefiAnswer
  BY <1>2, AtOnceAnswers DEF DefiAnswer, AnswerGathered, Moves
<1>3. ASSUME NEW c \in DOMAIN tasks, AskStatus(c) \/ AskRows(c)
      PROVE  Proceeds(c)
  <2>1. tasks[c] \in ChainRecords
    BY <1>0, <1>3, NoTasksIsEmpty DEF DefiInv, ChainInv
  <2>2. /\ DOMAIN tasks' = DOMAIN tasks /\ \A u \in DOMAIN tasks \ {c} : tasks'[u] = tasks[u]
        /\ answer # Unanswered => answer' = answer
    BY <1>3 DEF AskStatus, AskRows, Raise
  <2>3. tasks[c].phase \in {"status", "query"} /\ ~Ended(c)
    BY <1>3 DEF AskStatus, AskRows, Ended
  <2>4. \/ tasks'[c].phase \in {"done", "failed"}
        \/ tasks[c].phase = "status" /\ tasks'[c].phase = "query"
    <3>1. tasks[c].phase \in {"status", "query"} /\ c \in DOMAIN tasks
      BY <1>3, <2>3
    <3>2. CASE \E code : Raise(c, code)
      BY <2>1, <3>2 DEF Raise, ChainRecords
    <3>3. CASE tasks' = [tasks EXCEPT ![c].phase = "done"]
      BY <2>1, <3>3 DEF ChainRecords
    <3>4. ASSUME NEW reply, tasks' = [tasks EXCEPT ![c].phase = "done", ![c].query = reply]
          PROVE  tasks'[c].phase = "done"
      <4>1. tasks'[c] = [tasks[c] EXCEPT !.phase = "done", !.query = reply]
        BY <3>4
      <4> QED BY <2>1, <4>1 DEF ChainRecords
    <3>5. ASSUME NEW reply, tasks' = [tasks EXCEPT ![c].phase = AfterStatus, ![c].status = reply]
          PROVE  tasks'[c].phase = AfterStatus
      <4>1. tasks'[c] = [tasks[c] EXCEPT !.phase = AfterStatus, !.status = reply]
        BY <3>5
      <4> QED BY <2>1, <4>1 DEF ChainRecords
    <3>6. AfterStatus \in {"query", "done"}
      BY DEF AfterStatus
    <3>7. CASE AskStatus(c)
      <4>1. tasks[c].phase = "status"
        BY <3>7 DEF AskStatus
      <4> QED BY <3>2, <3>3, <3>5, <3>6, <3>7, <4>1 DEF AskStatus
    <3>8. CASE AskRows(c)
      BY <3>2, <3>4, <3>8 DEF AskRows
    <3> QED BY <1>3, <3>7, <3>8
  <2>5. AwaitsLeft(given, tasks'[c]) < AwaitsLeft(given, tasks[c])
    BY <2>3, <2>4 DEF AwaitsLeft
  <2> QED BY <2>2, <2>3, <2>5 DEF Proceeds
<1> QED BY <1>1, <1>2, <1>3 DEF DefiNext, Moves

LEMMA McpMoves ==
  ASSUME CoroutineInv, McpNext
  PROVE  Moves
<1>0. Mcp /\ McpInv
  BY McpStep DEF CoroutineInv, Mcp
<1>1. CASE McpAtOnce
  BY <1>1 DEF McpAtOnce, AnswerAtOnce, Answers, Moves, HttpError, Status, Unanswered
<1>2. CASE McpAnswer
  <2>1. McpResponse(tasks["probe"].health, tasks["probe"].capabilities).status # "none"
    BY DEF McpResponse, Status, HttpError
  <2> QED BY <1>2, <2>1, AtOnceAnswers DEF McpAnswer, AnswerGathered, Moves
<1>3. CASE ReadHealth \/ ReadCapabilities
  <2>1. "probe" \in DOMAIN tasks /\ ProbeInv(tasks["probe"])
    BY <1>0, <1>3, NoTasksIsEmpty DEF ReadHealth, ReadCapabilities, McpInv
  <2>2. /\ DOMAIN tasks' = DOMAIN tasks /\ \A u \in DOMAIN tasks \ {"probe"} : tasks'[u] = tasks[u]
        /\ answer # Unanswered => answer' = answer
    BY <1>3 DEF ReadHealth, ReadCapabilities, Raise
  <2>3. tasks["probe"].phase \in {"health", "capabilities"} /\ ~Ended("probe")
    BY <1>3 DEF ReadHealth, ReadCapabilities, Ended
  <2>4. \/ tasks'["probe"].phase \in {"done", "failed"}
        \/ tasks["probe"].phase = "health" /\ tasks'["probe"].phase = "capabilities"
    BY <1>3, <2>1 DEF ReadHealth, ReadCapabilities, Raise, Probe, ProbeInv
  <2>5. AwaitsLeft(given, tasks'["probe"]) < AwaitsLeft(given, tasks["probe"])
    BY <2>3, <2>4 DEF AwaitsLeft
  <2> QED BY <2>1, <2>2, <2>3, <2>5 DEF Proceeds, Moves
<1> QED BY <1>1, <1>2, <1>3 DEF McpNext

LEMMA EveryStepMoves == CoroutineInv /\ Next => Moves
<1>1. VerifyNext => Moves
  <2>1. Verify(given).status # "none"
    BY DEF Verify, HttpError, Report, VerifyRefusal
  <2> QED BY <2>1, AtOnceAnswers DEF VerifyNext, Moves
<1>2. DerivationNext => Moves
  <2>1. [status |-> "done", result |-> Derive(given)].status # "none"
    OBVIOUS
  <2> QED BY <2>1, AtOnceAnswers DEF DerivationNext, Moves
<1>3. SelectionNext => Moves
  <2>1. Selection(given.settings, given.chain).status # "none"
    BY DEF Selection
  <2> QED BY <2>1, AtOnceAnswers DEF SelectionNext, Moves
<1> QED BY <1>1, <1>2, <1>3, FlowMoves, DefiMoves, McpMoves DEF Next

\* An answer is given once: a coroutine that comes back, or raises, after a
\* sibling has made the answer an error changes neither the answer nor any
\* coroutine that has ended. The safety half of EveryRequestAnswered.
THEOREM AnswersAreFinal ==
  Spec => [][/\ DOMAIN tasks' = DOMAIN tasks
             /\ answer # Unanswered => answer' = answer
             /\ \A t \in DOMAIN tasks : Ended(t) => tasks'[t] = tasks[t]]_vars
<1> DEFINE Final == /\ DOMAIN tasks' = DOMAIN tasks
                    /\ answer # Unanswered => answer' = answer
                    /\ \A t \in DOMAIN tasks : Ended(t) => tasks'[t] = tasks[t]
<1>1. Moves => Final
  BY DEF Moves, Answers, Proceeds
<1>2. CoroutineInv /\ [Next]_vars => [Final]_vars
  BY <1>1, EveryStepMoves
<1> HIDE DEF Final
<1>3. Spec => [][Final]_vars
  BY <1>2, CoroutineInvHolds, PTL DEF Spec
<1> QED BY <1>3 DEF Final

\* The work of a request is bounded: every step of it is its answer or an await
\* of one coroutine, which has one fewer left, and a coroutine has MaxPages
\* pages, or two queries, at most.
THEOREM RequestsAreBounded ==
  Spec => /\ [](\A t \in DOMAIN tasks : AwaitsLeft(given, tasks[t]) \in 0..AwaitsAtMost(given))
          /\ [][Moves]_vars
<1> DEFINE Bounded == \A t \in DOMAIN tasks : AwaitsLeft(given, tasks[t]) \in 0..AwaitsAtMost(given)
<1>1. CoroutineInv => Bounded
  <2> SUFFICES ASSUME CoroutineInv, NEW t \in DOMAIN tasks
               PROVE  AwaitsLeft(given, tasks[t]) \in 0..AwaitsAtMost(given)
    OBVIOUS
  <2>1. CASE Serving
    <3>1. given \in FlowRequests /\ t \in Directions /\ DirectionInv(given, t, tasks[t])
      BY <2>1, NoTasksIsEmpty DEF CoroutineInv, FlowInv
    <3>2. /\ tasks[t].pages \in Nat /\ Cap(given) \in Nat /\ tasks[t].pages <= Cap(given)
          /\ tasks[t].phase \in {"reading", "done", "failed"}
      BY <3>1, FlowGiven DEF DirectionInv, FlowRecords
    <3>3. AwaitsAtMost(given) = Cap(given)
      BY <2>1 DEF Serving, AwaitsAtMost
    <3> QED BY <3>2, <3>3 DEF AwaitsLeft
  <2>2. ASSUME ~Serving, tasks[t].phase \in {"status", "query", "health", "capabilities", "done", "failed"}
        PROVE  AwaitsLeft(given, tasks[t]) \in 0..AwaitsAtMost(given)
    BY <2>2 DEF AwaitsLeft, AwaitsAtMost, Serving
  <2>3. CASE ~Serving /\ Defi
    <3>1. tasks[t] \in ChainRecords
      BY <2>3, NoTasksIsEmpty DEF CoroutineInv, DefiInv, ChainInv
    <3> QED BY <2>2, <2>3, <3>1 DEF ChainRecords
  <2>4. CASE ~Serving /\ Mcp
    <3>1. ProbeInv(tasks[t])
      BY <2>4, NoTasksIsEmpty DEF CoroutineInv, McpInv
    <3> QED BY <2>2, <2>4, <3>1 DEF ProbeInv
  <2> QED BY <2>1, <2>3, <2>4, NoTasksIsEmpty DEF CoroutineInv, QuietInv
<1>2. CoroutineInv /\ [Next]_vars => [Moves]_vars
  BY EveryStepMoves
<1> HIDE DEF Bounded
<1>3. Spec => []Bounded /\ [][Moves]_vars
  BY <1>1, <1>2, CoroutineInvHolds, PTL DEF Spec
<1> QED BY <1>3 DEF Bounded
=============================================================================
