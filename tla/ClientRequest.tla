---------------------------- MODULE ClientRequest ----------------------------
(***************************************************************************)
(* One request of a route that keeps no state between requests.  Its       *)
(* handler asks outside services through coroutines it gathers, or none at *)
(* all, and answers once.  The modules of the routes extend this one.      *)
(***************************************************************************)
EXTENDS Naturals, FiniteSets

VARIABLES
  given,   \* the request, the settings it meets, what the services asked hold
  tasks,   \* the coroutines under asyncio.gather, by name
  answer   \* the response, or the HTTP error

vars == <<given, tasks, answer>>

Unanswered == [status |-> "none"]
HttpError(code) == [status |-> code]

NoTasks == [t \in {} |-> "none"]

Ended(t) == tasks[t].phase \in {"done", "failed"}

\* The handler answers without asking anybody.
AnswerAtOnce(response) ==
  answer = Unanswered /\ answer' = response /\ UNCHANGED <<given, tasks>>

\* Mutated form: gather waits for the other coroutines.
RaiseUnseen(t, code) ==
  /\ tasks' = [tasks EXCEPT ![t].phase = "failed"]
  /\ UNCHANGED <<given, answer>>

\* A coroutine raises: the first exception is the answer, and the siblings of
\* the coroutine are not cancelled.
Raise(t, code) ==
  /\ tasks' = [tasks EXCEPT ![t].phase = "failed"]
  /\ answer' = IF answer = Unanswered THEN HttpError(code) ELSE answer
  /\ UNCHANGED given

Gathered == \A t \in DOMAIN tasks : tasks[t].phase = "done"

\* gather returns, and the response is put together.
AnswerGathered(response) == Gathered /\ AnswerAtOnce(response)
=============================================================================
