--------------------------- MODULE ProviderProofs ---------------------------
(***************************************************************************)
(* Proofs about JsonRpcProvider and RawRpcEvidence, for every number of    *)
(* retries, uses and failed writes.                                        *)
(***************************************************************************)
EXTENDS RawRpcEvidence, TLAPS

USE ProviderAssumption, RouteAssumption

\* The requests a use can have sent before the call of m.
Budget(m) ==
  CASE m = "eth_chainId" -> 0
    [] m = "eth_getTransactionByHash" -> MaxRetries + 1
    [] m = "eth_getTransactionReceipt" -> 2 * (MaxRetries + 1)
    [] m = "eth_getBlock" -> 3 * (MaxRetries + 1)

\* What has been read when a call is made.
ReadSoFar ==
  /\ call = "eth_chainId" => \A m \in Methods : got[m] = NoResult
  /\ call # "eth_chainId" => got["eth_chainId"] = "expected"
  /\ call = "eth_getTransactionByHash" =>
       /\ use \in {"acquire", "transaction"}
       /\ got["eth_getTransactionByHash"] = NoResult
       /\ got["eth_getTransactionReceipt"] = NoResult /\ got["eth_getBlock"] = NoResult
  /\ call = "eth_getTransactionReceipt" =>
       /\ use \in {"acquire", "receipt"}
       /\ use = "acquire" => got["eth_getTransactionByHash"] \notin {NoResult, "null"}
       /\ got["eth_getTransactionReceipt"] = NoResult /\ got["eth_getBlock"] = NoResult
  /\ call = "eth_getBlock" =>
       /\ use = "acquire"
       /\ got["eth_getTransactionByHash"] \notin {NoResult, "null"}
       /\ got["eth_getTransactionReceipt"] = "mined" /\ got["eth_getBlock"] = NoResult

\* A use that runs: nothing came out of it, it failed at most in the past.
RunningInv ==
  /\ outcome = Pending /\ ReadSoFar
  /\ failures < uses
  /\ sent <= Budget(call) + attempt
  /\ pc = "attempt" => circuit = "closed"
  /\ pc = "check" => attempt = 0

\* A use that ended.
EndedInv ==
  /\ use = "acquire" => outcome \in {Pending} \cup RpcAnswers
  /\ use # "acquire" => outcome = Pending \/ outcome.kind \in {"error", "value"}
  /\ uses > 0 => outcome # Pending
  /\ attempt = 0

\* The parts of TypeOK: the types, and the requests of a use.
Typed ==
  /\ use \in Uses /\ pc \in {"idle", "check", "attempt"} /\ call \in Methods
  /\ attempt \in 0..MaxRetries
  /\ got \in [Methods -> AllResults] /\ sent \in Nat
  /\ outcome \in Outcomes
  /\ status \in {"UNKNOWN", "OK", "DEGRADED", "TIMEOUT", "FAILED"}
  /\ failures \in 0..CircuitThreshold /\ circuit \in {"closed", "open", "cooled"}
  /\ uses \in 0..MaxUses

RequestsBounded == sent <= 4 * (MaxRetries + 1)

PInv ==
  /\ Typed
  /\ pc # "idle" => RunningInv
  /\ pc = "idle" => EndedInv
  /\ DegradedMeansNoReceipt /\ NothingFromAnotherChain
  /\ CircuitTakesThreeUses /\ RequestsBounded

-----------------------------------------------------------------------------
(* The data.                                                               *)

LEMMA Kinds ==
  /\ Pending.kind = "pending" /\ Escape.kind = "escape"
  /\ \A s, m : Failure(s, m).kind = "error"
  /\ \A s, e, i : Payload(s, e, i).kind = "payload" /\ Payload(s, e, i).provider = s
  /\ \A v : Value(v).kind = "value" /\ Value(v).result = v
  BY DEF Pending, Escape, Failure, Payload, Value

\* An attempt fails with an error acquire_l0 expects.
LEMMA FailuresExpected ==
  ASSUME NEW e \in RpcFailures
  PROVE  /\ e \in RpcAnswers /\ e.kind = "error"
         /\ e.status \in {"TIMEOUT", "DEGRADED", "FAILED"}
  <1>1. \A f \in RpcFailures : f.kind = "error" /\ f.status \in {"TIMEOUT", "DEGRADED", "FAILED"}
    BY DEF RpcFailures, Failure
  <1> QED BY <1>1 DEF RpcAnswers

LEMMA AnswersExpected ==
  /\ Failure("FAILED", TRUE) \in RpcAnswers /\ Failure("FAILED", FALSE) \in RpcAnswers
  /\ Payload("OK", FALSE, FALSE) \in RpcAnswers
  /\ Payload("DEGRADED", FALSE, FALSE) \in RpcAnswers /\ Escape \in RpcAnswers
  BY DEF RpcAnswers, RpcFailures

LEMMA ResultsTyped ==
  /\ \A m \in Methods : \A v \in Results(m) : v \in AllResults /\ v # NoResult
  /\ NoResult \in AllResults
  BY DEF AllResults, Results, Methods, NoResult

LEMMA BudgetTyped == \A m \in Methods : Budget(m) \in Nat /\ Budget(m) <= 3 * (MaxRetries + 1)
  BY DEF Budget, Methods

\* A result adds itself to what was read and nothing else.
LEMMA AnsweredRecords ==
  ASSUME Typed, NEW m \in Methods, NEW v, Answered(m, v)
  PROVE  /\ got' \in [Methods -> AllResults]
         /\ got'[m] = v /\ v \in Results(m) /\ v # NoResult
         /\ \A n \in Methods \ {m} : got'[n] = got[n]
  BY ResultsTyped DEF Answered, Typed

-----------------------------------------------------------------------------
(* The invariant of the provider.                                          *)

LEMMA PInvInit == Init => PInv
  <1> SUFFICES ASSUME Init PROVE PInv
    OBVIOUS
  <1>1. Typed
    BY ResultsTyped DEF Init, Typed, Uses, Methods, Outcomes, CircuitThreshold
  <1>2. EndedInv
    BY Kinds DEF Init, EndedInv
  <1>3. DegradedMeansNoReceipt /\ NothingFromAnotherChain
    BY Kinds DEF Init, DegradedMeansNoReceipt, NothingFromAnotherChain
  <1>4. CircuitTakesThreeUses /\ RequestsBounded
    BY DEF Init, CircuitTakesThreeUses, RequestsBounded, CircuitThreshold
  <1> QED BY <1>1, <1>2, <1>3, <1>4 DEF Init, PInv

LEMMA UseKeeps ==
  ASSUME PInv, NEW u \in Uses, Use(u)
  PROVE  PInv'
  <1> USE DEF Use, PInv
  <1>1. Typed'
    BY ResultsTyped DEF Typed, Methods, Outcomes
  <1>2. RunningInv'
    <2>1. ReadSoFar'
      BY DEF ReadSoFar
    <2>2. failures' < uses'
      BY DEF Typed, CircuitTakesThreeUses
    <2> QED BY <2>1, <2>2 DEF RunningInv, EndedInv, Budget
  <1>3. (DegradedMeansNoReceipt /\ NothingFromAnotherChain)'
    BY Kinds DEF DegradedMeansNoReceipt, NothingFromAnotherChain
  <1>4. (CircuitTakesThreeUses /\ RequestsBounded)'
    BY DEF Typed, CircuitTakesThreeUses, RequestsBounded, CircuitThreshold
  <1> QED BY <1>1, <1>2, <1>3, <1>4

LEMMA PassKeeps ==
  ASSUME PInv, PassCircuit
  PROVE  PInv'
  <1> USE DEF PassCircuit, PInv
  <1>1. Typed'
    BY DEF Typed, CircuitThreshold
  <1>2. RunningInv'
    <2>1. ReadSoFar'
      BY DEF RunningInv, ReadSoFar
    <2>2. Budget(call)' = Budget(call)
      BY DEF Budget
    <2>3. failures' < uses'
      BY DEF RunningInv, Typed
    <2>4. attempt' = attempt /\ outcome' = Pending /\ sent' <= Budget(call) + attempt
      BY DEF RunningInv
    <2> QED BY <2>1, <2>2, <2>3, <2>4 DEF RunningInv
  <1>3. (DegradedMeansNoReceipt /\ NothingFromAnotherChain)'
    BY DEF DegradedMeansNoReceipt, NothingFromAnotherChain
  <1>4. (CircuitTakesThreeUses /\ RequestsBounded)'
    BY DEF Typed, CircuitTakesThreeUses, RequestsBounded, CircuitThreshold
  <1> QED BY <1>1, <1>2, <1>3, <1>4

\* A use that ends in an error.
LEMMA ErrorKeeps ==
  ASSUME PInv, NEW e \in RpcAnswers, e.kind = "error",
         pc # "idle", EndWith(e), attempt' = 0, UNCHANGED <<use, uses>>,
         Typed', (NothingFromAnotherChain /\ CircuitTakesThreeUses /\ RequestsBounded)'
  PROVE  PInv'
  <1>1. EndedInv'
    BY Kinds DEF EndedInv, EndWith
  <1>2. DegradedMeansNoReceipt'
    BY DEF DegradedMeansNoReceipt, EndWith
  <1> QED BY <1>1, <1>2 DEF PInv, EndWith

LEMMA FailAtCircuitKeeps ==
  ASSUME PInv, FailAtCircuit
  PROVE  PInv'
  <1>1. Typed'
    BY AnswersExpected DEF PInv, Typed, FailAtCircuit, EndWith, Outcomes
  <1>2. NothingFromAnotherChain'
    BY Kinds DEF PInv, RunningInv, NothingFromAnotherChain, FailAtCircuit, EndWith
  <1>3. (CircuitTakesThreeUses /\ RequestsBounded)'
    BY DEF PInv, CircuitTakesThreeUses, RequestsBounded, FailAtCircuit
  <1> QED BY <1>1, <1>2, <1>3, ErrorKeeps, AnswersExpected, Kinds
          DEF FailAtCircuit, PInv, RunningInv

LEMMA CooldownKeeps ==
  ASSUME PInv, Cooldown
  PROVE  PInv'
  <1> USE DEF Cooldown, PInv
  <1>1. Typed'
    BY DEF Typed
  <1>2. pc' # "idle" => RunningInv'
    <2>1. RunningInv => ReadSoFar'
      BY DEF RunningInv, ReadSoFar
    <2>2. Budget(call)' = Budget(call)
      BY DEF Budget
    <2>3. circuit = "open" /\ RunningInv => pc # "attempt"
      BY DEF RunningInv
    <2> QED BY <2>1, <2>2, <2>3 DEF RunningInv
  <1>3. (pc' = "idle" => EndedInv') /\ (DegradedMeansNoReceipt /\ NothingFromAnotherChain)'
    BY DEF EndedInv, DegradedMeansNoReceipt, NothingFromAnotherChain
  <1>4. (CircuitTakesThreeUses /\ RequestsBounded)'
    BY DEF CircuitTakesThreeUses, RequestsBounded
  <1> QED BY <1>1, <1>2, <1>3, <1>4

LEMMA RetryKeeps ==
  ASSUME PInv, Retry
  PROVE  PInv'
  <1> USE DEF Retry, PInv
  <1>1. status' \in {"TIMEOUT", "DEGRADED", "FAILED"}
    BY FailuresExpected DEF TransientErrors
  <1>2. Typed'
    BY <1>1 DEF Typed
  <1>3. RunningInv'
    <2>1. ReadSoFar'
      BY DEF RunningInv, ReadSoFar
    <2>2. Budget(call)' = Budget(call)
      BY DEF Budget
    <2> QED BY <2>1, <2>2, BudgetTyped DEF RunningInv, Typed
  <1>4. (DegradedMeansNoReceipt /\ NothingFromAnotherChain)'
    BY Kinds DEF RunningInv, DegradedMeansNoReceipt, NothingFromAnotherChain
  <1>5. (CircuitTakesThreeUses /\ RequestsBounded)'
    BY BudgetTyped DEF RunningInv, Typed, CircuitTakesThreeUses, RequestsBounded
  <1> QED BY <1>2, <1>3, <1>4, <1>5

LEMMA GiveUpKeeps ==
  ASSUME PInv, GiveUp
  PROVE  PInv'
  <1>1. PICK e \in RpcFailures : status' = e.status /\ EndWith(e)
    BY DEF GiveUp, PermanentErrors, TransientErrors
  <1>2. e \in RpcAnswers /\ e.kind = "error" /\ e.status \in {"TIMEOUT", "DEGRADED", "FAILED"}
    BY FailuresExpected
  <1>3. failures < uses /\ failures < CircuitThreshold
    BY DEF PInv, GiveUp, RunningInv, Typed, CircuitTakesThreeUses, CircuitThreshold
  <1>4. Typed'
    BY <1>1, <1>2, <1>3 DEF PInv, Typed, GiveUp, RecordFailure, EndWith, Outcomes, CircuitThreshold
  <1>5. NothingFromAnotherChain'
    BY <1>1, <1>2 DEF PInv, GiveUp, NothingFromAnotherChain, EndWith
  <1>6. CircuitTakesThreeUses'
    BY <1>3 DEF PInv, GiveUp, RecordFailure, RunningInv, Typed, CircuitTakesThreeUses, CircuitThreshold
  <1>7. RequestsBounded'
    BY BudgetTyped DEF PInv, GiveUp, RunningInv, Typed, RequestsBounded
  <1> QED BY <1>1, <1>2, <1>4, <1>5, <1>6, <1>7, ErrorKeeps DEF GiveUp

-----------------------------------------------------------------------------
(* A result.                                                               *)

\* What a result does whatever the use makes of it.
LEMMA AnsweredEffect ==
  ASSUME PInv, NEW m \in Methods, NEW v, Answered(m, v)
  PROVE  /\ sent' \in Nat /\ sent' <= Budget(m) + MaxRetries + 1
         /\ failures' < uses' /\ uses' = uses /\ use' = use
         /\ failures' = 0 /\ circuit' = "closed" /\ attempt' = 0
         /\ got' \in [Methods -> AllResults]
         /\ (CircuitTakesThreeUses /\ RequestsBounded)'
         /\ outcome = Pending /\ ReadSoFar
  <1> USE DEF Answered, PInv
  <1>1. RunningInv
    OBVIOUS
  <1>2. sent' \in Nat /\ sent' <= Budget(m) + MaxRetries + 1
    BY <1>1, BudgetTyped DEF RunningInv, Typed
  <1>3. failures' < uses' /\ uses' = uses /\ use' = use
    BY <1>1 DEF RunningInv, Typed
  <1>4. CircuitTakesThreeUses'
    BY <1>3 DEF Typed, CircuitTakesThreeUses, CircuitThreshold
  <1>5. RequestsBounded'
    BY <1>2, BudgetTyped DEF RequestsBounded
  <1>6. got' \in [Methods -> AllResults]
    BY AnsweredRecords
  <1> QED BY <1>1, <1>2, <1>3, <1>4, <1>5, <1>6 DEF RunningInv

LEMMA GoesOn ==
  ASSUME PInv, NEW m \in Methods, NEW v, Answered(m, v), status' = "OK",
         NEW n \in Methods, CallNext(n), Budget(n) >= Budget(m) + MaxRetries + 1,
         ReadSoFar', got'["eth_chainId"] = "expected"
  PROVE  PInv'
  <1>1. Typed'
    BY AnsweredEffect DEF PInv, Typed, CallNext, CircuitThreshold
  <1>2. RunningInv'
    <2>1. Budget(call)' = Budget(n)
      BY DEF CallNext, Budget
    <2>2. sent' <= Budget(n)
      BY AnsweredEffect, BudgetTyped
    <2> QED BY <2>1, <2>2, AnsweredEffect, BudgetTyped DEF RunningInv, CallNext
  <1>3. (DegradedMeansNoReceipt /\ NothingFromAnotherChain)'
    BY AnsweredEffect, Kinds DEF DegradedMeansNoReceipt, NothingFromAnotherChain, CallNext
  <1> QED BY <1>1, <1>2, <1>3, AnsweredEffect DEF PInv, CallNext

LEMMA Ends ==
  ASSUME PInv, NEW m \in Methods, NEW v, Answered(m, v), status' \in {"OK", "DEGRADED", "FAILED"},
         NEW o \in Outcomes \ {Pending}, EndWith(o),
         use = "acquire" => o \in RpcAnswers,
         use # "acquire" => o.kind \in {"error", "value"},
         (DegradedMeansNoReceipt /\ NothingFromAnotherChain)'
  PROVE  PInv'
  <1>1. Typed'
    BY AnsweredEffect DEF PInv, Typed, EndWith, CircuitThreshold
  <1>2. EndedInv'
    BY DEF EndedInv, Answered, EndWith
  <1> QED BY <1>1, <1>2, AnsweredEffect DEF PInv, EndWith

LEMMA OutcomesTyped ==
  /\ \A e \in RpcAnswers : e \in Outcomes \ {Pending}
  /\ \A m \in Methods : \A v \in Results(m) : Value(v) \in Outcomes \ {Pending}
  <1>1. \A e \in RpcAnswers : e.kind \in {"payload", "error", "escape"}
    BY DEF RpcAnswers, RpcFailures, Payload, Failure, Escape
  <1>2. Pending.kind = "pending" /\ \A v : Value(v).kind = "value"
    BY Kinds
  <1>3. Pending \notin RpcAnswers /\ \A v : Value(v) # Pending
    BY <1>1, <1>2
  <1> QED BY <1>3, ResultsTyped DEF Outcomes

LEMMA ChainIdKeeps ==
  ASSUME PInv, ChainIdAnswered
  PROVE  PInv'
  <1> DEFINE m == "eth_chainId"
  <1>0. m \in Methods /\ Results(m) = {"expected", "other", "invalid"}
    BY DEF Methods, Results
  <1>1. CASE Answered(m, "expected") /\ status' = "OK" /\ use = "status" /\ EndWith(Value("expected"))
    <2>1. got'[m] = "expected"
      BY <1>0, <1>1, AnsweredRecords DEF PInv
    <2>2. (DegradedMeansNoReceipt /\ NothingFromAnotherChain)'
      BY <1>1, <2>1, Kinds DEF DegradedMeansNoReceipt, NothingFromAnotherChain, EndWith
    <2> QED BY <1>0, <1>1, <2>2, Ends, OutcomesTyped, Kinds
  <1>2. ASSUME Answered(m, "expected"), status' = "OK",
               NEW n \in {"eth_getTransactionByHash", "eth_getTransactionReceipt"}, CallNext(n),
               n = "eth_getTransactionByHash" => use \in {"acquire", "transaction"},
               n = "eth_getTransactionReceipt" => use = "receipt"
        PROVE  PInv'
    <2>1. n \in Methods /\ Budget(n) >= Budget(m) + MaxRetries + 1
      BY DEF Methods, Budget
    <2>2. call = m /\ ReadSoFar /\ use' = use
      BY <1>0, <1>2, AnsweredEffect DEF Answered
    <2>3. got'[m] = "expected" /\ \A k \in Methods \ {m} : got'[k] = NoResult
      BY <1>0, <1>2, <2>2, AnsweredRecords DEF PInv, ReadSoFar
    <2>4. ReadSoFar'
      BY <1>2, <2>2, <2>3 DEF ReadSoFar, CallNext, Methods
    <2> QED BY <1>0, <1>2, <2>1, <2>3, <2>4, GoesOn
  <1>3. ASSUME status' \in {"OK", "FAILED"}, EndWith(Failure("FAILED", FALSE)),
               NEW v \in {"other", "invalid"}, Answered(m, v)
        PROVE  PInv'
    <2>1. ReadSoFar /\ call = m
      BY <1>0, <1>3, AnsweredEffect DEF Answered
    <2>2. \A k \in Methods \ {m} : got'[k] = NoResult
      BY <1>0, <1>3, <2>1, AnsweredRecords DEF PInv, ReadSoFar
    <2>3. (DegradedMeansNoReceipt /\ NothingFromAnotherChain)'
      BY <1>3, <2>2 DEF DegradedMeansNoReceipt, NothingFromAnotherChain, EndWith, Failure
    <2>4. /\ Failure("FAILED", FALSE) \in RpcAnswers /\ Failure("FAILED", FALSE).kind = "error"
          /\ Failure("FAILED", FALSE) \in Outcomes \ {Pending}
      BY OutcomesTyped, AnswersExpected DEF Failure
    <2> QED BY <1>0, <1>3, <2>3, <2>4, Ends
  <1>4. use \in Uses
    BY DEF PInv, Typed
  <1> QED BY <1>1, <1>2, <1>3, <1>4 DEF ChainIdAnswered, Uses

LEMMA TransactionKeeps ==
  ASSUME PInv, TransactionAnswered
  PROVE  PInv'
  <1> DEFINE m == "eth_getTransactionByHash"
  <1>1. PICK v \in Results(m) : Answered(m, v) /\ status' = "OK"
                                /\ (use = "transaction" => EndWith(Value(v)))
                                /\ (use = "acquire" /\ v = "null" => EndWith(Failure("FAILED", TRUE)))
                                /\ (use = "acquire" /\ v # "null" => CallNext("eth_getTransactionReceipt"))
    BY DEF TransactionAnswered
  <1>2. m \in Methods /\ ReadSoFar /\ call = m /\ use' = use
    BY <1>1, AnsweredEffect DEF Methods, Answered
  <1>3. /\ got'[m] = v /\ v # NoResult
        /\ \A n \in Methods \ {m} : got'[n] = got[n]
    BY <1>1, <1>2, AnsweredRecords DEF PInv
  <1>4. /\ got'["eth_chainId"] = "expected" /\ got'["eth_getTransactionReceipt"] = NoResult
        /\ got'["eth_getBlock"] = NoResult /\ use \in {"acquire", "transaction"}
    BY <1>2, <1>3 DEF ReadSoFar, Methods
  <1>5. CASE use = "transaction"
    <2>1. (DegradedMeansNoReceipt /\ NothingFromAnotherChain)'
      BY <1>1, <1>4, <1>5, Kinds DEF DegradedMeansNoReceipt, NothingFromAnotherChain, EndWith
    <2> QED BY <1>1, <1>2, <1>5, <2>1, Ends, OutcomesTyped, Kinds
  <1>6. CASE use = "acquire" /\ v = "null"
    <2>1. (DegradedMeansNoReceipt /\ NothingFromAnotherChain)'
      BY <1>1, <1>4, <1>6 DEF DegradedMeansNoReceipt, NothingFromAnotherChain, EndWith, Failure
    <2> QED BY <1>1, <1>2, <1>6, <2>1, Ends, OutcomesTyped, AnswersExpected, Kinds
  <1>7. CASE use = "acquire" /\ v # "null"
    <2> DEFINE n == "eth_getTransactionReceipt"
    <2>1. n \in Methods /\ Budget(n) >= Budget(m) + MaxRetries + 1
      BY DEF Methods, Budget
    <2>2. ReadSoFar'
      BY <1>1, <1>2, <1>3, <1>4, <1>7 DEF ReadSoFar, CallNext
    <2> QED BY <1>1, <1>2, <1>4, <1>7, <2>1, <2>2, GoesOn
  <1> QED BY <1>4, <1>5, <1>6, <1>7

LEMMA ReceiptKeeps ==
  ASSUME PInv, ReceiptAnswered
  PROVE  PInv'
  <1> DEFINE m == "eth_getTransactionReceipt"
  <1>1. PICK v \in Results(m) :
          /\ Answered(m, v)
          /\ status' = IF use = "acquire" /\ v = "null" THEN "DEGRADED" ELSE "OK"
          /\ use = "receipt" => EndWith(Value(v))
          /\ use = "acquire" /\ v = "null" => EndWith(Payload("DEGRADED", FALSE, FALSE))
          /\ use = "acquire" /\ v = "scalar" => EndWith(Escape)
          /\ use = "acquire" /\ v = "object" => EndWith(Payload("OK", FALSE, FALSE))
          /\ use = "acquire" /\ v = "mined" => CallNext("eth_getBlock")
    BY DEF ReceiptAnswered
  <1>2. m \in Methods /\ ReadSoFar /\ call = m /\ use' = use
    BY <1>1, AnsweredEffect DEF Methods, Answered
  <1>3. /\ got'[m] = v /\ v # NoResult
        /\ \A n \in Methods \ {m} : got'[n] = got[n]
    BY <1>1, <1>2, AnsweredRecords DEF PInv
  <1>4. /\ got'["eth_chainId"] = "expected" /\ got'["eth_getBlock"] = NoResult
        /\ use \in {"acquire", "receipt"}
        /\ use = "acquire" => got'["eth_getTransactionByHash"] \notin {NoResult, "null"}
    BY <1>2, <1>3 DEF ReadSoFar, Methods
  <1>5. CASE use = "receipt"
    <2>1. (DegradedMeansNoReceipt /\ NothingFromAnotherChain)'
      BY <1>1, <1>2, <1>4, <1>5, Kinds DEF DegradedMeansNoReceipt, NothingFromAnotherChain, EndWith
    <2> QED BY <1>1, <1>2, <1>5, <2>1, Ends, OutcomesTyped, Kinds
  <1>6. CASE use = "acquire" /\ v = "scalar"
    <2>1. (DegradedMeansNoReceipt /\ NothingFromAnotherChain)'
      BY <1>1, <1>4, <1>6, Kinds DEF DegradedMeansNoReceipt, NothingFromAnotherChain, EndWith
    <2> QED BY <1>1, <1>2, <1>6, <2>1, Ends, OutcomesTyped, AnswersExpected, Kinds
  <1>7. ASSUME use = "acquire", v \in {"null", "object"},
               NEW s \in {"OK", "DEGRADED"}, status' = s, s = "DEGRADED" <=> v = "null",
               EndWith(Payload(s, FALSE, FALSE))
        PROVE  PInv'
    <2> DEFINE missing == {n \in Methods : got'[n] \in {NoResult, "null"}}
    <2>1. outcome'.kind = "payload" /\ outcome'.provider = s /\ status' = s
      BY <1>7 DEF EndWith, Payload
    <2>2. ASSUME v = "null" PROVE (DegradedMeansNoReceipt /\ NothingFromAnotherChain)'
      <3>1. missing = {m, "eth_getBlock"}
        BY <1>2, <1>3, <1>4, <1>7, <2>2 DEF Methods, NoResult
      <3> QED BY <1>4, <1>7, <2>1, <2>2, <3>1 DEF DegradedMeansNoReceipt, NothingFromAnotherChain
    <2>3. ASSUME v = "object" PROVE (DegradedMeansNoReceipt /\ NothingFromAnotherChain)'
      <3>1. missing = {"eth_getBlock"} /\ got'[m] = "object"
        BY <1>2, <1>3, <1>4, <1>7, <2>3 DEF Methods, NoResult
      <3> QED BY <1>4, <1>7, <2>1, <2>3, <3>1 DEF DegradedMeansNoReceipt, NothingFromAnotherChain
    <2>4. (DegradedMeansNoReceipt /\ NothingFromAnotherChain)'
      BY <1>7, <2>2, <2>3
    <2> QED BY <1>1, <1>2, <1>7, <2>4, Ends, OutcomesTyped, AnswersExpected
  <1>8. CASE use = "acquire" /\ v = "mined"
    <2> DEFINE n == "eth_getBlock"
    <2>1. n \in Methods /\ Budget(n) >= Budget(m) + MaxRetries + 1
      BY DEF Methods, Budget
    <2>2. ReadSoFar'
      BY <1>1, <1>2, <1>3, <1>4, <1>8 DEF ReadSoFar, CallNext
    <2> QED BY <1>1, <1>2, <1>4, <1>8, <2>1, <2>2, GoesOn
  <1>9. v \in {"null", "scalar", "object", "mined"}
    BY DEF Results
  <1> QED BY <1>1, <1>4, <1>5, <1>6, <1>7, <1>8, <1>9

LEMMA BlockKeeps ==
  ASSUME PInv, BlockAnswered
  PROVE  PInv'
  <1> DEFINE m == "eth_getBlock"
  <1>1. PICK v \in Results(m) : Answered(m, v) /\ status' = "OK" /\ EndWith(Payload("OK", FALSE, FALSE))
    BY DEF BlockAnswered
  <1>2. m \in Methods /\ ReadSoFar /\ call = m /\ use' = use
    BY <1>1, AnsweredEffect DEF Methods, Answered
  <1>3. got'[m] # NoResult /\ \A n \in Methods \ {m} : got'[n] = got[n]
    BY <1>1, <1>2, AnsweredRecords DEF PInv
  <1>4. /\ got'["eth_chainId"] = "expected" /\ got'["eth_getTransactionReceipt"] = "mined"
        /\ got'["eth_getTransactionByHash"] \notin {NoResult, "null"} /\ use = "acquire"
    BY <1>2, <1>3 DEF ReadSoFar, Methods
  <1> DEFINE missing == {n \in Methods : got'[n] \in {NoResult, "null"}}
  <1>5. missing \subseteq {m} /\ (missing # {} => got'[m] = "null")
    BY <1>2, <1>3, <1>4 DEF Methods, NoResult
  <1>6. outcome'.kind = "payload" /\ outcome'.provider = "OK" /\ status' = "OK"
    BY <1>1 DEF EndWith, Payload
  <1>7. (DegradedMeansNoReceipt /\ NothingFromAnotherChain)'
    BY <1>4, <1>5, <1>6 DEF DegradedMeansNoReceipt, NothingFromAnotherChain
  <1> QED BY <1>1, <1>2, <1>4, <1>7, Ends, OutcomesTyped, AnswersExpected

-----------------------------------------------------------------------------
(* The theorems of the provider.                                           *)

LEMMA StepKeeps ==
  ASSUME PInv, Step
  PROVE  PInv'
  BY PassKeeps, FailAtCircuitKeeps, RetryKeeps, GiveUpKeeps, ChainIdKeeps, TransactionKeeps,
     ReceiptKeeps, BlockKeeps DEF Step

LEMMA StutterKeeps ==
  ASSUME PInv, UNCHANGED vars
  PROVE  PInv'
  <1> USE DEF vars
  <1>1. Typed' /\ (DegradedMeansNoReceipt /\ NothingFromAnotherChain)'
    BY DEF PInv, Typed, DegradedMeansNoReceipt, NothingFromAnotherChain
  <1>2. (CircuitTakesThreeUses /\ RequestsBounded)'
    BY DEF PInv, CircuitTakesThreeUses, RequestsBounded
  <1>3. pc' # "idle" => RunningInv'
    <2>1. ReadSoFar => ReadSoFar'
      BY DEF ReadSoFar
    <2>2. Budget(call)' = Budget(call)
      BY DEF Budget
    <2> QED BY <2>1, <2>2 DEF PInv, RunningInv
  <1>4. pc' = "idle" => EndedInv'
    BY DEF PInv, EndedInv
  <1> QED BY <1>1, <1>2, <1>3, <1>4 DEF PInv

\* The inductive invariant: what a running use has read and sent, what an
\* ended one left behind.
THEOREM ProviderInvariant == Spec => []PInv
  <1>1. PInv /\ [Next]_vars => PInv'
    BY UseKeeps, StepKeeps, CooldownKeeps, StutterKeeps DEF Next
  <1> QED BY PInvInit, <1>1, PTL DEF Spec

LEMMA TypeParts == PInv => TypeOK
  BY DEF PInv, Typed, RequestsBounded, TypeOK

\* JsonRpcProvider: every variable keeps its type, and retries multiply the
\* requests of a use by a constant.
THEOREM ProviderTypeCorrect == Spec => []TypeOK
  BY ProviderInvariant, TypeParts, PTL

\* acquire ends in an answer acquire_l0 was written for: what AuditPipeline
\* assumes of its L0 provider.
THEOREM AcquireAnswers == Spec => []AcquireAnswersAsExpected
  <1>1. PInv => AcquireAnswersAsExpected
    BY DEF PInv, RunningInv, EndedInv, AcquireAnswersAsExpected
  <1> QED BY <1>1, ProviderInvariant, PTL

\* A payload is DEGRADED exactly when the receipt is missing, and an OK one
\* lacks a block at most, of a transaction that is not mined or that the node
\* does not have.
THEOREM DegradedWithoutReceipt == Spec => []DegradedMeansNoReceipt
  BY ProviderInvariant, PTL DEF PInv

\* Nothing is read from an endpoint of another chain.
THEOREM OneChain == Spec => []NothingFromAnotherChain
  BY ProviderInvariant, PTL DEF PInv

\* The circuit opens at the third failure, one per use at most.
THEOREM CircuitCounts == Spec => []CircuitTakesThreeUses
  BY ProviderInvariant, PTL DEF PInv

\* The application uses an instance once: its circuit never opens.
THEOREM CircuitNeverOpensPerRequest ==
  ASSUME MaxUses < CircuitThreshold
  PROVE  Spec => [](circuit = "closed")
  <1>1. PInv => circuit = "closed"
    BY DEF PInv, Typed, CircuitTakesThreeUses, CircuitThreshold
  <1> QED BY <1>1, ProviderInvariant, PTL

\* No request is sent while the circuit is not closed.
THEOREM NothingThroughOpenCircuit == Spec => [][circuit # "closed" => sent' <= sent]_vars
  <1>1. PInv /\ [Next]_vars => [circuit # "closed" => sent' <= sent]_vars
    <2> SUFFICES ASSUME PInv, Next, circuit # "closed"
                 PROVE  sent' <= sent
      OBVIOUS
    <2>1. sent \in Nat /\ pc # "attempt"
      BY DEF PInv, Typed, RunningInv
    <2>2. ASSUME NEW u \in Uses, Use(u)
          PROVE  sent' <= sent
      <3>1. sent' = 0
        BY <2>2 DEF Use
      <3> QED BY <2>1, <3>1
    <2>3. CASE Cooldown
      BY <2>1, <2>3 DEF Cooldown
    <2>4. CASE PassCircuit \/ FailAtCircuit
      <3>1. sent' = sent
        BY <2>4 DEF PassCircuit, FailAtCircuit
      <3> QED BY <2>1, <3>1
    <2>5. ~(Retry \/ GiveUp \/ ChainIdAnswered \/ TransactionAnswered \/ ReceiptAnswered \/ BlockAnswered)
      <3>1. \A m, v : ~Answered(m, v)
        BY <2>1 DEF Answered
      <3>2. ~ChainIdAnswered
        <4> SUFFICES ASSUME ChainIdAnswered PROVE FALSE
          OBVIOUS
        <4>1. \/ Answered("eth_chainId", "expected") \/ Answered("eth_chainId", "other")
              \/ Answered("eth_chainId", "invalid")
          BY DEF ChainIdAnswered
        <4> QED BY <3>1, <4>1
      <3>3. ~TransactionAnswered /\ ~ReceiptAnswered /\ ~BlockAnswered
        BY <3>1 DEF TransactionAnswered, ReceiptAnswered, BlockAnswered
      <3>4. ~Retry /\ ~GiveUp
        BY <2>1 DEF Retry, GiveUp
      <3> QED BY <3>2, <3>3, <3>4
    <2> QED BY <2>2, <2>3, <2>4, <2>5 DEF Next, Step
  <1> QED BY <1>1, ProviderInvariant, PTL DEF Spec

-----------------------------------------------------------------------------
(* How long a use can take.                                                *)

\* The steps of the calls that can follow the call of m: a call is one check
\* of the circuit and MaxRetries + 1 attempts.
StepsAfter(m) ==
  CASE m = "eth_chainId" -> 3 * (MaxRetries + 2)
    [] m = "eth_getTransactionByHash" -> 2 * (MaxRetries + 2)
    [] m = "eth_getTransactionReceipt" -> MaxRetries + 2
    [] m = "eth_getBlock" -> 0

\* The steps the use that runs can still take.
StepsLeft ==
  CASE pc = "idle" -> 0
    [] pc = "check" -> StepsAfter(call) + MaxRetries + 2
    [] pc = "attempt" -> StepsAfter(call) + MaxRetries + 1 - attempt

LEMMA StepsAfterTyped ==
  ASSUME NEW m \in Methods
  PROVE  StepsAfter(m) \in Nat /\ StepsAfter(m) <= 3 * (MaxRetries + 2)
  BY DEF StepsAfter, Methods

LEMMA StepsLeftTyped ==
  ASSUME Typed
  PROVE  /\ StepsLeft \in 0..(4 * (MaxRetries + 2))
         /\ pc # "idle" => StepsLeft > StepsAfter(call)
  <1>1. StepsAfter(call) \in Nat /\ StepsAfter(call) <= 3 * (MaxRetries + 2)
    BY StepsAfterTyped DEF Typed
  <1> QED BY <1>1 DEF Typed, StepsLeft

\* A call that ends the use, and one that another follows.
LEMMA EndingDescends ==
  ASSUME Typed, pc # "idle", NEW o, EndWith(o)
  PROVE  StepsLeft' < StepsLeft
  <1>1. StepsLeft' = 0
    BY DEF EndWith, StepsLeft
  <1> QED BY <1>1, StepsLeftTyped, StepsAfterTyped DEF Typed

LEMMA GoingOnDescends ==
  ASSUME Typed, pc # "idle", NEW n \in Methods, CallNext(n),
         StepsAfter(n) + MaxRetries + 2 <= StepsAfter(call)
  PROVE  StepsLeft' < StepsLeft
  <1>1. StepsLeft' = StepsAfter(n) + MaxRetries + 2
    BY DEF CallNext, StepsLeft, StepsAfter
  <1> QED BY <1>1, StepsLeftTyped, StepsAfterTyped DEF Typed

LEMMA ChainIdDescends ==
  ASSUME PInv, ChainIdAnswered
  PROVE  StepsLeft' < StepsLeft
  <1>1. Typed /\ pc # "idle" /\ call = "eth_chainId"
    BY DEF PInv, ChainIdAnswered, Answered
  <1>2. (\E o : EndWith(o)) \/ \E n \in Methods \ {"eth_chainId"} : CallNext(n)
    BY <1>1 DEF ChainIdAnswered, Typed, Uses, Methods
  <1>3. \A n \in Methods \ {"eth_chainId"} : StepsAfter(n) + MaxRetries + 2 <= StepsAfter(call)
    BY <1>1 DEF Methods, StepsAfter
  <1> QED BY <1>1, <1>2, <1>3, EndingDescends, GoingOnDescends

LEMMA TransactionDescends ==
  ASSUME PInv, TransactionAnswered
  PROVE  StepsLeft' < StepsLeft
  <1>1. Typed /\ pc # "idle" /\ call = "eth_getTransactionByHash"
    BY DEF PInv, TransactionAnswered, Answered
  <1>2. use \in {"acquire", "transaction"}
    BY <1>1 DEF PInv, RunningInv, ReadSoFar
  <1>3. (\E o : EndWith(o)) \/ CallNext("eth_getTransactionReceipt")
    BY <1>2 DEF TransactionAnswered
  <1>4. StepsAfter("eth_getTransactionReceipt") + MaxRetries + 2 <= StepsAfter(call)
    BY <1>1 DEF StepsAfter
  <1> QED BY <1>1, <1>3, <1>4, EndingDescends, GoingOnDescends DEF Methods

LEMMA ReceiptDescends ==
  ASSUME PInv, ReceiptAnswered
  PROVE  StepsLeft' < StepsLeft
  <1>1. Typed /\ pc # "idle" /\ call = "eth_getTransactionReceipt"
    BY DEF PInv, ReceiptAnswered, Answered
  <1>2. use \in {"acquire", "receipt"}
    BY <1>1 DEF PInv, RunningInv, ReadSoFar
  <1>3. (\E o : EndWith(o)) \/ CallNext("eth_getBlock")
    BY <1>2 DEF ReceiptAnswered, Results
  <1>4. StepsAfter("eth_getBlock") + MaxRetries + 2 <= StepsAfter(call)
    BY <1>1 DEF StepsAfter
  <1> QED BY <1>1, <1>3, <1>4, EndingDescends, GoingOnDescends DEF Methods

LEMMA StepDescends ==
  ASSUME PInv, Step
  PROVE  StepsLeft' < StepsLeft
  <1>0. Typed
    BY DEF PInv
  <1>1. CASE FailAtCircuit \/ GiveUp \/ BlockAnswered
    <2>1. pc # "idle" /\ \E o : EndWith(o)
      BY <1>1 DEF FailAtCircuit, GiveUp, BlockAnswered, Answered
    <2> QED BY <1>0, <2>1, EndingDescends
  <1>2. CASE PassCircuit
    <2>1. /\ StepsLeft = StepsAfter(call) + MaxRetries + 2
          /\ StepsLeft' = StepsAfter(call) + MaxRetries + 1 - attempt
      BY <1>2 DEF PassCircuit, StepsLeft, StepsAfter
    <2> QED BY <1>0, <2>1, StepsAfterTyped DEF Typed
  <1>3. CASE Retry
    <2>1. /\ StepsLeft = StepsAfter(call) + MaxRetries + 1 - attempt
          /\ StepsLeft' = StepsAfter(call) + MaxRetries + 1 - (attempt + 1)
      BY <1>3 DEF Retry, StepsLeft, StepsAfter
    <2> QED BY <1>0, <2>1, StepsAfterTyped DEF Typed
  <1> QED BY <1>1, <1>2, <1>3, ChainIdDescends, TransactionDescends, ReceiptDescends DEF Step

\* A use takes at most four checks and attempts per call, whatever the node
\* answers: each of its steps uses one up, and a cooldown that passes in
\* between gives none back.
THEOREM UseIsBounded ==
  Spec => [][/\ StepsLeft \in 0..(4 * (MaxRetries + 2))
             /\ Step => StepsLeft' < StepsLeft
             /\ Cooldown => StepsLeft' = StepsLeft]_vars
  <1>1. Cooldown => StepsLeft' = StepsLeft
    BY DEF Cooldown, StepsLeft, StepsAfter
  <1>2. PInv => StepsLeft \in 0..(4 * (MaxRetries + 2))
    BY StepsLeftTyped DEF PInv
  <1>3. PInv /\ [Next]_vars =>
          [/\ StepsLeft \in 0..(4 * (MaxRetries + 2))
           /\ Step => StepsLeft' < StepsLeft
           /\ Cooldown => StepsLeft' = StepsLeft]_vars
    BY <1>1, <1>2, StepDescends
  <1> QED BY <1>3, ProviderInvariant, PTL DEF Spec

-----------------------------------------------------------------------------
(* The route.                                                              *)

\* What each phase of a request implies about its provider and its files.
RInv ==
  /\ PInv
  /\ phase \in {"new", "asking", "raw", "sha", "record", "done", "killed"}
  /\ {rawFile, shaFile, recordFile} \subseteq FileStates
  /\ answer \in {"none", "COMPLETE", "UNKNOWN", "FAILED", "422", "500"} /\ faults \in 0..MaxFaults
  /\ phase \in {"new", "asking", "raw"} => rawFile = "absent"
  /\ phase \in {"new", "asking", "raw", "sha"} => shaFile = "absent"
  /\ phase \in {"new", "asking", "raw", "sha", "record"} => recordFile = "absent" /\ answer = "none"
  /\ phase \in {"sha", "record"} => rawFile = "whole"
  /\ phase = "record" => shaFile = "whole"
  /\ phase = "killed" => answer = "none"
  /\ phase = "asking" => use \in {"transaction", "receipt"} /\ uses > 0
  /\ phase \in {"raw", "sha", "record"} =>
       pc = "idle" /\ outcome.kind = "value" /\ outcome # Value("null")
  /\ RecordsPointAtEvidence /\ OnlyAnswersArePreserved

LEMMA RInvInit == RouteInit => RInv
  BY PInvInit DEF RouteInit, RInv, FileStates, RecordsPointAtEvidence, OnlyAnswersArePreserved

LEMMA RInvNext ==
  ASSUME RInv, [RouteNext]_allVars
  PROVE  RInv'
  <1> USE DEF RInv
  <1>1. CASE Reject
    BY <1>1, StutterKeeps DEF Reject, Reply, vars, RecordsPointAtEvidence, OnlyAnswersArePreserved
  <1>2. CASE Get
    <2>1. PICK u \in {"transaction", "receipt"} : Use(u)
      BY <1>2 DEF Get
    <2>2. PInv' /\ use' = u /\ uses' > 0
      BY <2>1, UseKeeps DEF Uses, Use, PInv, Typed
    <2> QED BY <1>2, <2>2 DEF Get, RecordsPointAtEvidence, OnlyAnswersArePreserved
  <1>3. CASE Ask
    <2>1. UNCHANGED <<use, uses>>
      BY <1>3 DEF Ask, Step, PassCircuit, FailAtCircuit, Retry, GiveUp, ChainIdAnswered,
                  TransactionAnswered, ReceiptAnswered, BlockAnswered, Answered
    <2> QED BY <1>3, <2>1, StepKeeps DEF Ask, routeVars, RecordsPointAtEvidence, OnlyAnswersArePreserved
  <1>4. CASE Judge
    <2>1. outcome.kind \in {"error", "value"}
      BY <1>4 DEF Judge, PInv, EndedInv
    <2> QED BY <1>4, <2>1, StutterKeeps
            DEF Judge, Reply, vars, RecordsPointAtEvidence, OnlyAnswersArePreserved
  <1>5. CASE PreserveRaw
    BY <1>5, StutterKeeps DEF PreserveRaw, WriteFile, Reply, vars, FileStates,
       RecordsPointAtEvidence, OnlyAnswersArePreserved, PInv, NothingFromAnotherChain
  <1>6. CASE PreserveDigest
    BY <1>6, StutterKeeps DEF PreserveDigest, WriteFile, Reply, vars, FileStates,
       RecordsPointAtEvidence, OnlyAnswersArePreserved
  <1>7. CASE SaveRecord
    BY <1>7, StutterKeeps DEF SaveRecord, WriteFile, Reply, vars, FileStates,
       RecordsPointAtEvidence, OnlyAnswersArePreserved
  <1>8. CASE Kill
    BY <1>8, StutterKeeps DEF Kill, Tear, vars, FileStates,
       RecordsPointAtEvidence, OnlyAnswersArePreserved, PInv, NothingFromAnotherChain
  <1>9. CASE UNCHANGED allVars
    BY <1>9, StutterKeeps DEF allVars, vars, routeVars, RecordsPointAtEvidence, OnlyAnswersArePreserved
  <1> QED BY <1>1, <1>2, <1>3, <1>4, <1>5, <1>6, <1>7, <1>8, <1>9 DEF RouteNext, Handle

\* The inductive invariant of a raw evidence request: which files are whole at
\* each step of _acquire_rpc_object, and what the provider it asks has read.
THEOREM RouteInvariant == RouteSpec => []RInv
  BY RInvInit, RInvNext, PTL DEF RouteSpec

\* RawRpcEvidence: every variable keeps its type.
THEOREM RouteTypeCorrect == RouteSpec => []RouteTypeOK
  <1>1. RInv => RouteTypeOK
    BY TypeParts DEF RInv, RouteTypeOK
  <1> QED BY <1>1, RouteInvariant, PTL

\* A record on the disk points at evidence that is whole.
THEOREM RecordsHaveEvidence == RouteSpec => []RecordsPointAtEvidence
  <1>1. RInv => RecordsPointAtEvidence
    BY DEF RInv
  <1> QED BY <1>1, RouteInvariant, PTL

\* Only a response of the expected chain is preserved.
THEOREM OnlyAnswersPreserved == RouteSpec => []OnlyAnswersArePreserved
  <1>1. RInv => OnlyAnswersArePreserved
    BY DEF RInv
  <1> QED BY <1>1, RouteInvariant, PTL
-----------------------------------------------------------------------------
(* The route and its provider.                                             *)

\* What a step of the route does to its provider is a step of the provider.
LEMMA RouteStepMaps == [RouteNext]_allVars => [Next]_vars
  BY DEF RouteNext, Handle, Reject, Get, Ask, Judge, PreserveRaw, PreserveDigest, SaveRecord,
         Kill, Uses, Next, vars, allVars

\* The instance inside a request behaves as JsonRpcProvider says: what is
\* proved of the provider holds of every request of the route.
THEOREM RouteUsesProvider == RouteSpec => Spec
  BY RouteStepMaps, PTL DEF RouteSpec, RouteInit, Spec

\* The steps a request can still take.
RequestStepsLeft ==
  CASE phase = "new" -> 4 * (MaxRetries + 2) + 5
    [] phase = "asking" -> StepsLeft + 4
    [] phase = "raw" -> 3
    [] phase = "sha" -> 2
    [] phase = "record" -> 1
    [] phase \in {"done", "killed"} -> 0

\* A request for raw evidence ends after a bounded number of steps, whatever
\* its node and its disk do: none of them is a loop.
THEOREM RequestIsBounded ==
  RouteSpec => [][/\ RequestStepsLeft \in 0..(4 * (MaxRetries + 2) + 5)
                  /\ RequestStepsLeft' < RequestStepsLeft]_allVars
  <1>1. ASSUME RInv
        PROVE  /\ StepsLeft \in 0..(4 * (MaxRetries + 2))
               /\ RequestStepsLeft \in 0..(4 * (MaxRetries + 2) + 5)
    <2>1. StepsLeft \in 0..(4 * (MaxRetries + 2))
      BY <1>1, StepsLeftTyped DEF RInv, PInv
    <2> QED BY <1>1, <2>1 DEF RInv, RequestStepsLeft
  <1>2. ASSUME RInv, RouteNext,
               (StepsLeft \in 0..(4 * (MaxRetries + 2)))'
        PROVE  RequestStepsLeft' < RequestStepsLeft
    <2>1. StepsLeft \in 0..(4 * (MaxRetries + 2)) /\ StepsLeft' \in 0..(4 * (MaxRetries + 2))
      BY <1>1, <1>2
    <2>2. CASE Reject
      BY <2>2 DEF Reject, Reply, RequestStepsLeft
    <2>3. CASE Get
      BY <2>1, <2>3 DEF Get, RequestStepsLeft
    <2>4. CASE Ask
      <3>1. StepsLeft' < StepsLeft
        BY <1>2, <2>4, StepDescends DEF Ask, RInv
      <3>2. phase = "asking" /\ phase' = "asking"
        BY <2>4 DEF Ask, routeVars
      <3> QED BY <2>1, <3>1, <3>2 DEF RequestStepsLeft
    <2>5. CASE Judge
      <3>1. phase = "asking" /\ phase' \in {"raw", "done"}
        BY <1>2, <2>5 DEF Judge, Reply, RInv, PInv, EndedInv
      <3> QED BY <2>1, <3>1 DEF RequestStepsLeft
    <2>6. CASE PreserveRaw \/ PreserveDigest \/ SaveRecord
      <3>1. \/ phase = "raw" /\ phase' \in {"sha", "done"}
            \/ phase = "sha" /\ phase' \in {"record", "done"}
            \/ phase = "record" /\ phase' = "done"
        BY <2>6 DEF PreserveRaw, PreserveDigest, SaveRecord, WriteFile, Reply
      <3> QED BY <3>1 DEF RequestStepsLeft
    <2>7. CASE Kill
      <3>1. phase \in {"new", "asking", "raw", "sha", "record"} /\ phase' = "killed"
        BY <1>2, <2>7 DEF Kill, RInv
      <3> QED BY <2>1, <3>1 DEF RequestStepsLeft
    <2> QED BY <1>2, <2>2, <2>3, <2>4, <2>5, <2>6, <2>7 DEF RouteNext, Handle
  <1>3. RInv => StepsLeft \in 0..(4 * (MaxRetries + 2))
    BY <1>1
  <1>4. RInv /\ (StepsLeft \in 0..(4 * (MaxRetries + 2)))' /\ [RouteNext]_allVars =>
          [/\ RequestStepsLeft \in 0..(4 * (MaxRetries + 2) + 5)
           /\ RequestStepsLeft' < RequestStepsLeft]_allVars
    BY <1>1, <1>2
  <1> QED BY <1>3, <1>4, RouteInvariant, PTL DEF RouteSpec
=============================================================================
