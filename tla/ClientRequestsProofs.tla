------------------------ MODULE ClientRequestsProofs ------------------------
(***************************************************************************)
(* Proofs about the routes that keep no state, for every page size, every  *)
(* history of transfers, every archive and every reply of the MCP service. *)
(***************************************************************************)
EXTENDS ClientRequests, FiniteSetTheorems, TLAPS

-----------------------------------------------------------------------------
(* A request is served by the actions of its route and stays what it is.   *)

LEMMA FlowStep == FlowNext => given' = given /\ given.route = "wallet_flow"
<1>1. FlowRefuse => given' = given /\ given.route = "wallet_flow"
  BY DEF FlowRefuse, AnswerAtOnce, Serving
<1>2. \A d : ReadPage(d) => given' = given /\ given.route = "wallet_flow"
  BY DEF ReadPage, Serving
<1>3. \A d : FailPage(d) => given' = given /\ given.route = "wallet_flow"
  BY DEF FailPage, Raise, Serving
<1>4. FlowAnswer => given' = given /\ given.route = "wallet_flow"
  BY DEF FlowAnswer, AnswerGathered, AnswerAtOnce, Serving
<1> QED BY <1>1, <1>2, <1>3, <1>4 DEF FlowNext

LEMMA DefiStep == DefiNext => given' = given /\ given.route \in DefiRoutes
<1>1. DefiRefuse => given' = given /\ given.route \in DefiRoutes
  BY DEF DefiRefuse, AnswerAtOnce, Defi
<1>2. \A c : AskStatus(c) => given' = given /\ given.route \in DefiRoutes
  BY DEF AskStatus, Raise, Defi
<1>3. \A c : AskRows(c) => given' = given /\ given.route \in DefiRoutes
  BY DEF AskRows, Raise, Defi
<1>4. DefiAnswer => given' = given /\ given.route \in DefiRoutes
  BY DEF DefiAnswer, AnswerGathered, AnswerAtOnce, Defi
<1> QED BY <1>1, <1>2, <1>3, <1>4 DEF DefiNext

LEMMA McpStep == McpNext => given' = given /\ given.route \in McpRoutes
<1>1. McpAtOnce => given' = given /\ given.route \in McpRoutes
  BY DEF McpAtOnce, AnswerAtOnce, Mcp
<1>2. ReadHealth => given' = given /\ given.route \in McpRoutes
  BY DEF ReadHealth, Mcp
<1>3. ReadCapabilities => given' = given /\ given.route \in McpRoutes
  BY DEF ReadCapabilities, Raise, Mcp
<1>4. McpAnswer => given' = given /\ given.route \in McpRoutes
  BY DEF McpAnswer, AnswerGathered, AnswerAtOnce, Mcp
<1> QED BY <1>1, <1>2, <1>3, <1>4 DEF McpNext

LEMMA OtherSteps ==
  /\ VerifyNext => given' = given /\ given.route = "verify"
  /\ DerivationNext => given' = given /\ given.route \in DerivationRoutes
  /\ SelectionNext => given' = given /\ given.route = "select"
BY DEF VerifyNext, DerivationNext, SelectionNext, AnswerAtOnce

LEMMA GivenStays == [Next]_vars => given' = given
BY FlowStep, DefiStep, McpStep, OtherSteps DEF Next, vars

LEMMA RouteActs ==
  /\ Next /\ given.route = "wallet_flow" => FlowNext
  /\ Next /\ given.route \in McpRoutes => McpNext
  /\ Next /\ given.route = "verify" => VerifyNext
  /\ Next /\ given.route \in DerivationRoutes => DerivationNext
  /\ Next /\ given.route = "select" => SelectionNext
  /\ Next /\ given.route \in DefiRoutes => DefiNext
BY FlowStep, DefiStep, McpStep, OtherSteps DEF Next, McpRoutes, DefiRoutes, DerivationRoutes

LEMMA RouteStarts ==
  ASSUME Init
  PROVE  /\ answer = Unanswered
         /\ given.route = "wallet_flow" => FlowInit
         /\ given.route \in McpRoutes => McpInit
         /\ given.route = "verify" => VerifyInit
         /\ given.route \in DerivationRoutes => DerivationInit
         /\ given.route = "select" => SelectionInit
         /\ given.route \in DefiRoutes => DefiInit
<1>1. FlowInit => given.route = "wallet_flow" /\ answer = Unanswered
  BY FlowAssumption DEF FlowInit
<1>2. DefiInit => given.route \in DefiRoutes /\ answer = Unanswered
  BY DefiAssumption DEF DefiInit
<1>3. McpInit => given.route \in McpRoutes /\ answer = Unanswered
  BY McpAssumption DEF McpInit
<1>4. VerifyInit => given.route = "verify" /\ answer = Unanswered
  BY VerifyAssumption DEF VerifyInit
<1>5. DerivationInit => given.route \in DerivationRoutes /\ answer = Unanswered
  BY DerivationAssumption DEF DerivationInit
<1>6. SelectionInit => given.route = "select" /\ answer = Unanswered
  BY SelectionAssumption DEF SelectionInit
<1> QED BY <1>1, <1>2, <1>3, <1>4, <1>5, <1>6 DEF Init, DefiRoutes, McpRoutes, DerivationRoutes

-----------------------------------------------------------------------------
(* Verification.                                                           *)

\* What an answered verification has answered.
VerifyInv ==
  given.route = "verify" =>
    /\ given \in VerifyRequests
    /\ answer # Unanswered => answer = Verify(given)

LEMMA VerifyInvHolds == Spec => []VerifyInv
<1>1. Init => VerifyInv
  BY RouteStarts DEF VerifyInv, VerifyInit
<1>2. VerifyInv /\ [Next]_vars => VerifyInv'
  <2> SUFFICES ASSUME VerifyInv, [Next]_vars, given.route = "verify" PROVE VerifyInv'
    BY GivenStays DEF VerifyInv
  <2>1. CASE Next
    BY <2>1, RouteActs, GivenStays DEF VerifyInv, VerifyNext, AnswerAtOnce
  <2>2. CASE UNCHANGED vars
    BY <2>2 DEF VerifyInv, vars
  <2> QED BY <2>1, <2>2
<1> QED BY <1>1, <1>2, PTL DEF Spec

\* A finite set of entries has a last one of every name in it.
LEMMA LastEntry ==
  ASSUME NEW entries, IsFiniteSet(entries), entries \subseteq Entries,
         NEW name \in NamesOf(entries)
  PROVE  \E e \in entries : e.name = name /\ \A f \in entries : f.name = name => f.at <= e.at
<1> DEFINE Named == {e \in entries : e.name = name}
           After(e) == {f \in Named : f.at > e.at}
           Afters == {After(e) : e \in Named}
<1>1. IsWellFoundedOn(StrictSubsetOrdering(entries), SUBSET entries)
  BY FS_StrictSubsetOrderingWellFounded, FS_FiniteSubsetsOfFinite
<1>2. Afters \subseteq SUBSET entries /\ Afters # {}
  <2>1. \A e \in Named : After(e) \in SUBSET entries
    OBVIOUS
  <2>2. PICK e \in entries : e.name = name
    BY DEF NamesOf
  <2>3. After(e) \in Afters
    BY <2>2
  <2> QED BY <2>1, <2>3
<1> HIDE DEF Afters
<1>3. PICK T \in Afters : \A U \in Afters : <<U, T>> \notin StrictSubsetOrdering(entries)
  BY <1>1, <1>2, WFMin
<1>4. PICK e \in Named : T = After(e)
  BY <1>3 DEF Afters
<1>5. \A f \in Named : f.at <= e.at
  <2> SUFFICES ASSUME NEW f \in Named, ~(f.at <= e.at) PROVE FALSE
    OBVIOUS
  <2>1. f.at \in Nat /\ e.at \in Nat /\ \A g \in Named : g.at \in Nat
    BY DEF Entries
  <2>2. After(f) \subseteq After(e) /\ f \in After(e) /\ f \notin After(f)
    BY <2>1
  <2>3. After(f) \in Afters
    BY DEF Afters
  <2>4. After(f) \subseteq entries /\ After(e) \subseteq entries
    OBVIOUS
  <2> QED BY <1>3, <1>4, <2>2, <2>3, <2>4 DEF StrictSubsetOrdering
<1> QED BY <1>5

\* A read by name finds an entry of the name.
LEMMA ReadEntryReads ==
  ASSUME NEW entries, IsFiniteSet(entries), entries \subseteq Entries,
         NEW name \in NamesOf(entries)
  PROVE  \E e \in entries : e.name = name /\ ReadEntry(entries, name) = e.content
<1> DEFINE IsLast(e) == e.name = name /\ \A f \in entries : f.name = name => f.at <= e.at
           last == CHOOSE e \in entries : IsLast(e)
<1>1. \E e \in entries : IsLast(e)
  BY LastEntry
<1>2. last \in entries /\ last.name = name
  BY <1>1
<1>3. ReadEntry(entries, name) = last.content
  BY DEF ReadEntry
<1> QED BY <1>2, <1>3

\* What Report says, of any upload.
LEMMA ReportIsExact ==
  ASSUME NEW g
  PROVE  /\ Report(g).verdict = "PASS" <=> Unpacked(g.entries) = Declared(g.manifest.files)
         /\ Report(g).verdict = "PASS" => Report(g).checked_files = Cardinality(NamesOf(g.entries))
<1> DEFINE files == g.manifest.files
           present == NamesOf(g.entries)
<1>1. Report(g).verdict = "PASS" <=>
        /\ present = DOMAIN files
        /\ \A n \in present : ReadEntry(g.entries, n) = files[n].of
  BY DEF Report, Missing, Mismatched, Undeclared, Found, DigestMatches
<1>2. Unpacked(g.entries) = Declared(files) <=>
        /\ present = DOMAIN files
        /\ \A n \in present : ReadEntry(g.entries, n) = files[n].of
  <2>1. DOMAIN Unpacked(g.entries) = present /\ DOMAIN Declared(files) = DOMAIN files
    BY DEF Unpacked, Declared
  <2>2. \A n \in present : Unpacked(g.entries)[n] = ReadEntry(g.entries, n)
    BY DEF Unpacked
  <2>3. \A n \in DOMAIN files : Declared(files)[n] = files[n].of
    BY DEF Declared
  <2>4. ASSUME present = DOMAIN files, \A n \in present : ReadEntry(g.entries, n) = files[n].of
        PROVE  Unpacked(g.entries) = Declared(files)
    BY <2>4 DEF Unpacked, Declared
  <2> QED BY <2>1, <2>2, <2>3, <2>4
<1>3. Report(g).verdict = "PASS" => Found(g) = present
  BY <1>1 DEF Found
<1>4. Report(g).checked_files = Cardinality(Found(g))
  BY DEF Report
<1> QED BY <1>1, <1>2, <1>3, <1>4

\* A package of the pipeline reads as what the vault kept.
LEMMA PipelinePasses ==
  ASSUME NEW g \in PipelinePackages
  PROVE  \/ Verify(g).status = "200" /\ Verify(g).verdict = "PASS"
         \/ Verify(g) = HttpError("400") /\ g.entries = {}
<1>1. PICK vault \in Vaults : g = Build(vault, {})
  BY DEF PipelinePackages
<1>2. \A n \in DOMAIN vault : vault[n] \in Contents
  BY DEF Vaults
<1>3. /\ g.upload = "zip" /\ g.manifest.kind = "declares"
      /\ g.manifest.files = [n \in Kept(vault) |-> Digest(vault[n], "lower")]
      /\ g.entries = {Entry(0, n, vault[n]) : n \in Kept(vault)}
  BY <1>1 DEF Build, DeclareKept, Declares
<1>4. NamesOf(g.entries) = Kept(vault) /\ DOMAIN g.manifest.files = Kept(vault)
  <2>1. \A n \in Kept(vault) : Entry(0, n, vault[n]).name = n
    BY DEF Entry
  <2>2. \A e \in g.entries : \E n \in Kept(vault) : e = Entry(0, n, vault[n])
    BY <1>3
  <2>3. \A n \in Kept(vault) : Entry(0, n, vault[n]) \in g.entries
    BY <1>3
  <2>4. NamesOf(g.entries) = Kept(vault)
    BY <2>1, <2>2, <2>3 DEF NamesOf
  <2> QED BY <1>3, <2>4
<1>5. \A n \in Kept(vault) : ReadEntry(g.entries, n) = vault[n]
  <2> TAKE n \in Kept(vault)
  <2> DEFINE IsLast(e) == e.name = n /\ \A f \in g.entries : f.name = n => f.at <= e.at
  <2>1. Entry(0, n, vault[n]) \in g.entries /\ IsLast(Entry(0, n, vault[n]))
    BY <1>3 DEF Entry
  <2>2. \A e \in g.entries : e.name = n => e.content = vault[n]
    BY <1>3 DEF Entry
  <2> QED BY <2>1, <2>2 DEF ReadEntry
<1>6. \A n \in Kept(vault) :
        g.manifest.files[n].of = vault[n] /\ g.manifest.files[n].form = "lower"
  BY <1>3 DEF Digest
<1>7. ~Raises(g) /\ Report(g).verdict = "PASS" /\ Report(g).status = "200"
  BY <1>2, <1>4, <1>5, <1>6, VerifyAssumption
  DEF Raises, Report, Found, Missing, Mismatched, Undeclared, DigestMatches, Kept
<1>8. CASE Kept(vault) = {}
  BY <1>3, <1>4, <1>8 DEF Verify, VerifyRefusal
<1>9. CASE Kept(vault) # {}
  BY <1>3, <1>4, <1>7, <1>9 DEF Verify, VerifyRefusal
<1> QED BY <1>8, <1>9

\* PASS is the answer exactly when unpacking the archive gives what its
\* manifest declares, whatever the archive, and a package of the pipeline
\* passes: verify_package and build_v52_zip agree for every vault.
THEOREM VerificationExact == Spec => []VerificationIsExact
<1>1. VerifyInv => VerificationIsExact
  <2> SUFFICES ASSUME VerifyInv, given.route = "verify", answer # Unanswered
               PROVE  VerificationIsExact
    BY DEF VerificationIsExact
  <2>1. given \in VerifyRequests /\ answer = Verify(given)
    BY DEF VerifyInv
  <2>2. answer.status = "200" => answer = Report(given)
    <3>1. VerifyRefusal(given) \in {"413", "400", "500", "none"}
      BY <2>1, VerifyAssumption DEF VerifyRefusal, OddManifests
    <3> QED BY <2>1, <3>1 DEF Verify, HttpError
  <2>3. given.upload = "zip" /\ given.manifest.kind = "declares" /\ DOMAIN given.manifest.files # {}
          => VerifyRefusal(given) = "none"
    BY DEF VerifyRefusal
  <2>4. ~Raises(given) /\ VerifyRefusal(given) = "none" => answer.status = "200"
    BY <2>1 DEF Verify, Report
  <2>5. Raises(given) =>
          \E n \in DOMAIN given.manifest.files, e \in given.entries :
            e.name = n /\ (e.content = Damaged \/ given.manifest.files[n].form = "not_text")
    <3> SUFFICES ASSUME NEW n \in Found(given),
                        \/ ReadEntry(given.entries, n) = Damaged
                        \/ given.manifest.files[n].form = "not_text"
                 PROVE  \E e \in given.entries :
                          /\ e.name = n
                          /\ e.content = Damaged \/ given.manifest.files[n].form = "not_text"
      BY DEF Raises, Found
    <3>1. PICK e \in given.entries : e.name = n /\ ReadEntry(given.entries, n) = e.content
      BY <2>1, ReadEntryReads, VerifyAssumption DEF Found
    <3> QED BY <3>1
  <2> QED BY <2>1, <2>2, <2>3, <2>4, <2>5, ReportIsExact, PipelinePasses DEF VerificationIsExact
<1> QED BY <1>1, VerifyInvHolds, PTL

-----------------------------------------------------------------------------
(* The MCP service.                                                        *)

\* The probe has both documents, or failed to read one.
ProbeRead(probe) ==
  /\ probe.health \in HealthReplies /\ probe.capabilities \in CapabilityReplies \cup {NotRead}
  /\ ~Unread(probe.health, probe.capabilities) =>
       /\ probe.health # NotObject /\ probe.capabilities \in CapabilityReplies
       /\ probe.health.identifies => probe.capabilities # NotObject

ProbeInv(probe) ==
  /\ DOMAIN probe = {"phase", "health", "capabilities"}
  /\ probe.phase \in {"health", "capabilities", "done", "failed"}
  /\ probe.phase = "health" => probe.capabilities = NotRead
  /\ probe.phase = "capabilities" =>
       probe.health \in HealthReplies /\ probe.capabilities = NotRead
  /\ probe.phase = "done" => ProbeRead(probe)

McpInv ==
  Mcp =>
    /\ tasks = NoTasks \/ (given.url = "ok" /\ DOMAIN tasks = {"probe"} /\ ProbeInv(tasks["probe"]))
    /\ answer.status = "200" =>
         \/ tasks = NoTasks /\ answer.tools = {} /\ answer.state # "READY"
         \/ /\ tasks # NoTasks /\ tasks["probe"].phase = "done"
            /\ answer = McpResponse(tasks["probe"].health, tasks["probe"].capabilities)

LEMMA NoTasksIsEmpty == DOMAIN NoTasks = {}
BY DEF NoTasks

LEMMA McpStepKeeps ==
  ASSUME McpInv, Mcp, McpNext
  PROVE  McpInv'
<1> USE NoTasksIsEmpty
<1>0. given' = given /\ Mcp'
  BY McpStep DEF Mcp
<1>1. CASE McpAtOnce
  BY <1>0, <1>1 DEF McpInv, McpAtOnce, AnswerAtOnce, HttpError, Status
<1>2. CASE ReadHealth
  <2>1. DOMAIN tasks = {"probe"} /\ ProbeInv(tasks["probe"]) /\ given.url = "ok"
    BY <1>2 DEF ReadHealth, McpInv
  <2>2. PICK reply \in HealthReplies :
          tasks' = [tasks EXCEPT !["probe"] =
            Probe(IF reply = NoResponse THEN "done" ELSE "capabilities", reply, NotRead)]
    BY <1>2 DEF ReadHealth
  <2>3. DOMAIN tasks' = {"probe"}
        /\ tasks'["probe"] =
             Probe(IF reply = NoResponse THEN "done" ELSE "capabilities", reply, NotRead)
    BY <2>1, <2>2
  <2>4. ProbeInv(tasks'["probe"])
    <3>1. CASE reply = NoResponse
      <4>1. tasks'["probe"] = Probe("done", NoResponse, NotRead) /\ Unread(NoResponse, NotRead)
        BY <2>3, <3>1 DEF Unread
      <4>2. ProbeRead(Probe("done", NoResponse, NotRead))
        BY <3>1, <4>1 DEF ProbeRead, Probe
      <4> QED BY <4>1, <4>2 DEF ProbeInv, Probe
    <3>2. CASE reply # NoResponse
      <4>1. tasks'["probe"] = Probe("capabilities", reply, NotRead)
        BY <2>3, <3>2
      <4> QED BY <4>1 DEF ProbeInv, Probe
    <3> QED BY <3>1, <3>2
  <2>5. tasks["probe"].phase # "done" /\ tasks # NoTasks /\ answer' = answer
    BY <1>2 DEF ReadHealth
  <2> QED BY <1>0, <2>1, <2>3, <2>4, <2>5 DEF McpInv
<1>3. CASE ReadCapabilities
  <2>1. DOMAIN tasks = {"probe"} /\ ProbeInv(tasks["probe"]) /\ given.url = "ok"
    BY <1>3 DEF ReadCapabilities, McpInv
  <2> DEFINE health == tasks["probe"].health
  <2>2. tasks["probe"].phase = "capabilities" /\ health \in HealthReplies
    BY <1>3, <2>1 DEF ReadCapabilities, ProbeInv
  <2>3. CASE Raise("probe", "500")
    <3>1. ProbeInv(tasks'["probe"]) /\ DOMAIN tasks' = {"probe"}
      BY <2>1, <2>3 DEF Raise, ProbeInv
    <3>2. answer'.status = "200" => answer' = answer
      BY <2>3 DEF Raise, HttpError
    <3>3. tasks["probe"].phase # "done"
      BY <2>2
    <3> QED BY <1>0, <2>1, <3>1, <3>2, <3>3 DEF McpInv
  <2>4. ASSUME NEW reply \in CapabilityReplies,
               ~Crashes(health, reply),
               tasks' = [tasks EXCEPT !["probe"] = Probe("done", health, reply)],
               answer' = answer
        PROVE  McpInv'
    <3>1. tasks'["probe"] = Probe("done", health, reply) /\ DOMAIN tasks' = {"probe"}
      BY <2>1, <2>4
    <3>2. ~Unread(health, reply) =>
            health # NotObject /\ (health.identifies => reply # NotObject)
      BY <2>4 DEF Crashes
    <3> HIDE DEF health
    <3>3. ProbeInv(tasks'["probe"])
      BY <2>2, <3>1, <3>2 DEF ProbeInv, ProbeRead, Probe
    <3>4. tasks["probe"].phase # "done"
      BY <2>2
    <3> QED BY <1>0, <2>1, <2>4, <3>1, <3>3, <3>4 DEF McpInv
  <2> QED BY <1>3, <2>3, <2>4 DEF ReadCapabilities
<1>4. CASE McpAnswer
  <2>1. McpResponse(tasks["probe"].health, tasks["probe"].capabilities)' =
          McpResponse(tasks["probe"].health, tasks["probe"].capabilities)
    BY <1>0, <1>4 DEF McpAnswer, AnswerGathered, AnswerAtOnce, McpResponse, VersionRefused
  <2> QED BY <1>0, <1>4, <2>1 DEF McpInv, McpAnswer, AnswerGathered, AnswerAtOnce, Gathered
<1> QED BY <1>1, <1>2, <1>3, <1>4 DEF McpNext

LEMMA McpInvHolds == Spec => []McpInv
<1>1. Init => McpInv
  <2> SUFFICES ASSUME Init, Mcp PROVE McpInv
    BY DEF McpInv
  <2>1. McpInit /\ answer.status # "200"
    BY RouteStarts DEF Mcp, Unanswered
  <2> QED BY <2>1 DEF McpInv, McpInit, ProbeInv, Probe
<1>2. McpInv /\ [Next]_vars => McpInv'
  <2> SUFFICES ASSUME McpInv, [Next]_vars, Mcp' PROVE McpInv'
    BY DEF McpInv
  <2>1. Mcp
    BY GivenStays DEF Mcp
  <2>2. CASE Next
    BY <2>1, <2>2, RouteActs, McpStepKeeps DEF Mcp
  <2>3. CASE UNCHANGED vars
    <3>1. tasks' = tasks /\ given' = given /\ answer' = answer
      BY <2>3 DEF vars
    <3> QED BY <2>1, <3>1 DEF McpInv, Mcp, McpResponse, VersionRefused, Status
  <2> QED BY <2>2, <2>3
<1> QED BY <1>1, <1>2, PTL DEF Spec

\* What a READY rests on, of the documents read.
LEMMA ReadyHandshake ==
  ASSUME NEW probe, ProbeRead(probe), Ready(probe.health, probe.capabilities)
  PROVE  /\ probe.health.kind = "object" /\ probe.health.identifies
         /\ probe.capabilities.kind = "object"
<1>1. Reason(probe.health, probe.capabilities) = "handshake"
  BY DEF Ready
<1>2. ~Unread(probe.health, probe.capabilities)
  BY <1>1 DEF Reason, Unread
<1>3. probe.health \in [kind : {"object"}, identifies : BOOLEAN, version_is_text : BOOLEAN]
  <2>1. probe.health \in HealthReplies \ {NoResponse, BadResponse, NotObject}
    BY <1>2 DEF ProbeRead, Unread
  <2> QED BY <2>1 DEF HealthReplies
<1>4. probe.health.identifies
  BY <1>1, <1>2, <1>3 DEF Reason, Unread
<1>5. probe.capabilities.kind = "object"
  BY <1>2, <1>4 DEF ProbeRead, Unread, CapabilityReplies
<1> QED BY <1>3, <1>4, <1>5

\* READY and the tools are shown only of a service whose two documents, both of
\* this probe, name it, report its backend ready and list every required tool:
\* _probe_mcp, for every catalogue.
THEOREM ReadyOnlyVerified == Spec => []ReadyIsVerified
<1>1. McpInv => ReadyIsVerified
  <2> SUFFICES ASSUME McpInv, Mcp, answer.status = "200" PROVE ReadyIsVerified
    BY DEF ReadyIsVerified
  <2>1. CASE answer.tools = {} /\ answer.state # "READY"
    BY <2>1 DEF ReadyIsVerified
  <2>2. CASE /\ tasks # NoTasks /\ tasks["probe"].phase = "done"
             /\ answer = McpResponse(tasks["probe"].health, tasks["probe"].capabilities)
    <3>1. given.url = "ok" /\ ProbeRead(tasks["probe"])
      BY <2>2 DEF McpInv, ProbeInv
    <3>2. CASE Ready(tasks["probe"].health, tasks["probe"].capabilities)
      BY <2>2, <3>1, <3>2, ReadyHandshake DEF ReadyIsVerified, Ready, McpResponse, Status, HttpError
    <3>3. CASE ~Ready(tasks["probe"].health, tasks["probe"].capabilities)
      BY <2>2, <3>3 DEF ReadyIsVerified, McpResponse, Status, HttpError
    <3> QED BY <3>2, <3>3
  <2> QED BY <2>1, <2>2 DEF McpInv
<1> QED BY <1>1, McpInvHolds, PTL

-----------------------------------------------------------------------------
(* The settings and the factory.                                           *)

SelectionInv ==
  given.route = "select" =>
    /\ given \in SelectionRequests /\ Starts(given.settings)
    /\ answer # Unanswered => answer = Selection(given.settings, given.chain)

LEMMA SelectionInvHolds == Spec => []SelectionInv
<1>1. Init => SelectionInv
  BY RouteStarts DEF SelectionInv, SelectionInit
<1>2. SelectionInv /\ [Next]_vars => SelectionInv'
  <2> SUFFICES ASSUME SelectionInv, [Next]_vars, given.route = "select" PROVE SelectionInv'
    BY GivenStays DEF SelectionInv
  <2>1. CASE Next
    BY <2>1, RouteActs, GivenStays DEF SelectionInv, SelectionNext, AnswerAtOnce
  <2>2. CASE UNCHANGED vars
    BY <2>2 DEF SelectionInv, vars
  <2> QED BY <2>1, <2>2
<1> QED BY <1>1, <1>2, PTL DEF Spec

LEMMA NamesDiffer ==
  /\ EthereumNames \cap AvalancheNames = {} /\ EthereumNames \cap HskNames = {}
  /\ AvalancheNames \cap HskNames = {} /\ HskNames \subseteq Words /\ Keys \subseteq Words
  /\ "ethereum" \in EthereumNames /\ "avalanche" \in AvalancheNames /\ "hsk" \in HskNames
  /\ EthereumNames \ Words = {"1"} /\ AvalancheNames \ Words = {"43113", "43114"}
BY DEF EthereumNames, AvalancheNames, HskNames, Words, Keys

\* A key of the code is a name of itself, whichever number HSK took, and a
\* name is one of its key.
LEMMA KeysAreNames ==
  ASSUME NEW s, s.hsk_id \notin Words
  PROVE  /\ \A key \in Keys : Known(s, key) /\ Normalize(s, key) = key
         /\ \A chain : Known(s, chain) =>
              \/ Normalize(s, chain) = "hsk" /\ chain \in HskNames \cup {s.hsk_id}
              \/ Normalize(s, chain) = "ethereum" /\ chain \in EthereumNames \ {s.hsk_id}
              \/ Normalize(s, chain) = "avalanche" /\ chain \in AvalancheNames \ {s.hsk_id}
<1>1. /\ DOMAIN Aliases(s) = EthereumNames \cup AvalancheNames \cup HskNames \cup {s.hsk_id}
      /\ \A n \in DOMAIN Aliases(s) :
           Aliases(s)[n] = IF n \in HskNames \cup {s.hsk_id} THEN "hsk"
                           ELSE IF n \in EthereumNames THEN "ethereum" ELSE "avalanche"
  BY DEF Aliases
<1>2. \A key \in Keys : Known(s, key) /\ Normalize(s, key) = key
  BY <1>1, NamesDiffer DEF Known, Normalize, Keys
<1> QED BY <1>1, <1>2 DEF Known, Normalize

\* A path gets the provider of one chain, whose endpoint, expected id and label
\* agree as far as the settings do: for every combination of settings.
THEOREM PathsReachOneChain == Spec => []PathReachesOneChain
<1>1. SelectionInv => PathReachesOneChain
  <2> SUFFICES ASSUME SelectionInv, given.route = "select", answer.status = "200"
               PROVE  PathReachesOneChain
    BY DEF PathReachesOneChain
  <2> DEFINE s == given.settings
             key == Normalize(s, given.chain)
             rpc == answer.rpc
  <2>1. given \in SelectionRequests /\ answer = Selection(s, given.chain)
    BY DEF SelectionInv, Unanswered
  <2>2. /\ s.hsk_id \notin Words /\ s.eth_id \notin Words /\ s.avax_id \notin Words
        /\ s.eth_rpc_url \in BOOLEAN /\ s.avax_rpc_url \in BOOLEAN /\ s.api_key \in BOOLEAN
    BY <2>1, SelectionAssumption
  <2>3. Known(s, given.chain)
    BY <2>1 DEF Selection, HttpError
  <2>4. /\ answer.key = key /\ rpc = RpcProvider(s, key)
        /\ answer.rpc_configured = RpcConfigured(s, key) /\ answer.graph = GraphProvider(s, key)
        /\ answer.graph_configured = GraphConfigured(s, key)
    BY <2>1, <2>3 DEF Selection
  <2>5. key \in Keys /\ \A k \in Keys : Known(s, k) /\ Normalize(s, k) = k
    BY <2>2, <2>3, KeysAreNames DEF Keys
  <2>6. \/ key = "hsk" /\ given.chain \in HskNames \cup {s.hsk_id}
        \/ key = "ethereum" /\ given.chain \in EthereumNames \ {s.hsk_id}
        \/ key = "avalanche" /\ given.chain \in AvalancheNames \ {s.hsk_id}
    BY <2>2, <2>3, KeysAreNames
  <2> HIDE DEF s, key, rpc
  <2>7. rpc # NoProvider <=> answer.rpc_configured
    BY <2>4, <2>5 DEF RpcProvider, NoProvider, RpcConfigured
  <2>8. answer.graph <=> answer.graph_configured
    BY <2>4, <2>5 DEF GraphProvider
  <2>9. rpc # NoProvider => rpc = [url |-> RpcUrl(s, key), expected |-> ChainId(s, key),
                                   network |-> Network(s, key)]
    BY <2>4, <2>5 DEF RpcProvider
  <2>10. UrlChain(rpc.url) \in {rpc.expected, "any"} \/ Misfit(s, answer.key)
    <3>1. CASE rpc = NoProvider
      BY <3>1 DEF NoProvider, NoUrl, UrlChain
    <3>2. CASE rpc # NoProvider /\ key = "ethereum"
      <4>1. rpc.url = EthereumUrl(s) /\ rpc.expected = s.eth_id
        BY <2>9, <3>2 DEF RpcUrl, ChainId
      <4>2. EthereumUrl(s) \in {"override", "alchemy-ethereum-mainnet", "legacy", NoUrl}
        BY <2>2 DEF EthereumUrl
      <4> QED BY <2>4, <3>2, <4>1, <4>2 DEF UrlChain, Misfit, NoUrl
    <3>3. CASE rpc # NoProvider /\ key = "avalanche"
      <4>1. rpc.url = AvalancheUrl(s) /\ rpc.expected = s.avax_id
        BY <2>9, <3>3 DEF RpcUrl, ChainId
      <4>2. \/ AvalancheUrl(s) \in {"override", NoUrl}
            \/ AvalancheUrl(s) = "alchemy-avalanche-fuji" /\ s.avax_id = "43113"
            \/ AvalancheUrl(s) = "alchemy-avalanche-mainnet" /\ s.avax_id # "43113"
        BY <2>2 DEF AvalancheUrl
      <4> QED BY <2>4, <3>3, <4>1, <4>2 DEF UrlChain, Misfit, NoUrl
    <3>4. CASE rpc # NoProvider /\ key = "hsk"
      <4>1. rpc.url \in {"hsk", NoUrl}
        BY <2>9, <3>4 DEF RpcUrl
      <4> QED BY <4>1 DEF UrlChain, NoUrl
    <3> QED BY <2>5, <3>1, <3>2, <3>3, <3>4 DEF Keys
  <2>11. rpc # NoProvider /\ key = "avalanche" =>
           (rpc.network = "avalanche-fuji" <=> rpc.expected = "43113")
    BY <2>9 DEF ChainId, Network
  <2>12. ASSUME rpc # NoProvider, given.chain \in {s.eth_id, s.avax_id, s.hsk_id}, ~Crossed(s)
         PROVE  rpc.expected = given.chain
    <3>1. rpc.expected = ChainId(s, key)
      BY <2>9, <2>12
    <3>2. given.chain \notin Words
      BY <2>2, <2>12
    <3>3. CASE key = "hsk"
      BY <2>6, <3>1, <3>2, <3>3, NamesDiffer DEF ChainId
    <3>4. CASE key = "ethereum"
      <4>1. given.chain = "1" /\ given.chain # s.hsk_id
        BY <2>6, <3>2, <3>4, NamesDiffer
      <4> QED BY <2>12, <3>1, <3>4, <4>1 DEF ChainId, Crossed
    <3>5. CASE key = "avalanche"
      <4>1. given.chain \in {"43113", "43114"} /\ given.chain # s.hsk_id
        BY <2>6, <3>2, <3>5, NamesDiffer
      <4> QED BY <2>12, <3>1, <3>5, <4>1 DEF ChainId, Crossed
    <3> QED BY <2>5, <3>3, <3>4, <3>5 DEF Keys
  <2> QED BY <2>4, <2>7, <2>8, <2>10, <2>11, <2>12 DEF PathReachesOneChain, s, rpc
<1> QED BY <1>1, SelectionInvHolds, PTL

-----------------------------------------------------------------------------
(* The subgraphs.                                                          *)

Statuses == MetaReplies \cup {GraphFailed, NotAsked}
Queries == RowReplies \cup {GraphFailed, NotAsked}

ChainRecords ==
  [phase : {"status", "query", "done", "failed"}, status : Statuses, query : Queries]

\* What has been asked of a chain when its coroutine is at a phase.
ChainInv(g, c, r) ==
  /\ r \in ChainRecords
  /\ r.phase = "status" => g.route \in {"status", "scan"} /\ r.status = NotAsked /\ r.query = NotAsked
  /\ r.phase = "query" =>
       /\ g.route # "status" /\ r.query = NotAsked
       /\ g.route = "scan" => c \in g.configured /\ r.status # NotAsked
  /\ r.phase = "done" =>
       /\ g.route = "status" => r.query = NotAsked
       /\ g.route \in {"status", "scan"} /\ c \in g.configured => r.status # NotAsked
       /\ g.route = "scan" /\ c \in g.configured => r.query # NotAsked
       /\ g.route = "scan" /\ c \notin g.configured => r.query = NotAsked
       /\ g.route \in {"pools", "activity"} => c \in g.configured /\ r.query \in RowReplies

DefiInv ==
  Defi =>
    /\ tasks = NoTasks \/ (DOMAIN tasks = Requested /\ \A c \in Requested : ChainInv(given, c, tasks[c]))
    /\ DefiRefusal = "none" => DOMAIN tasks = Requested
    /\ answer.status = "200" =>
         /\ DefiRefusal = "none" /\ \A c \in Requested : tasks[c].phase = "done"
         /\ answer.results = [c \in Requested |-> ChainResult(c)]

LEMMA ReplyKinds ==
  /\ \A reply \in RowReplies \cup MetaReplies :
       reply.kind = "payload" /\ reply # NotAsked /\ reply # GraphFailed
  /\ NotAsked.kind = "none" /\ GraphFailed.kind = "error"
BY DEF RowReplies, MetaReplies, GraphReply, NotAsked, GraphFailed

LEMMA StatusKeepsChain ==
  ASSUME DefiInv, Defi, NEW c \in DOMAIN tasks, AskStatus(c)
  PROVE  DefiInv'
<1>1. /\ DOMAIN tasks = Requested /\ c \in Requested
      /\ \A e \in Requested : ChainInv(given, e, tasks[e])
  BY NoTasksIsEmpty DEF DefiInv
<1>2. given' = given /\ tasks[c].phase = "status" /\ DOMAIN tasks' = DOMAIN tasks
      /\ \A e \in DOMAIN tasks : e # c => tasks'[e] = tasks[e]
  BY DEF AskStatus, Raise
<1>3. given.route \in {"status", "scan"} /\ tasks[c] \in ChainRecords
      /\ tasks[c].status = NotAsked /\ tasks[c].query = NotAsked
  BY <1>1, <1>2 DEF ChainInv
<1>4. ChainInv(given, c, tasks'[c])
  <2>1. CASE c \notin given.configured /\ tasks' = [tasks EXCEPT ![c].phase = "done"]
    <3>1. tasks'[c] = [tasks[c] EXCEPT !.phase = "done"]
      BY <1>1, <2>1
    <3> QED BY <1>3, <2>1, <3>1 DEF ChainInv, ChainRecords
  <2>2. CASE Raise(c, "500")
    <3>1. tasks'[c] = [tasks[c] EXCEPT !.phase = "failed"]
      BY <1>1, <2>2 DEF Raise
    <3> QED BY <1>3, <3>1 DEF ChainInv, ChainRecords
  <2>3. ASSUME NEW reply \in MetaReplies \cup {GraphFailed}, c \in given.configured,
               tasks' = [tasks EXCEPT ![c].phase = AfterStatus, ![c].status = reply]
        PROVE  ChainInv(given, c, tasks'[c])
    <3>1. tasks'[c] = [tasks[c] EXCEPT !.phase = AfterStatus, !.status = reply]
      BY <1>1, <2>3
    <3>2. reply # NotAsked /\ reply \in Statuses
      BY ReplyKinds DEF Statuses, NotAsked, GraphFailed
    <3>3. AfterStatus = IF given.route = "scan" THEN "query" ELSE "done"
      BY DEF AfterStatus
    <3>4. tasks'[c].status = reply /\ tasks'[c].query = NotAsked /\ tasks'[c].phase = AfterStatus
          /\ tasks'[c] \in ChainRecords
      BY <1>3, <3>1, <3>2, <3>3 DEF ChainRecords
    <3> QED BY <1>3, <2>3, <3>2, <3>3, <3>4 DEF ChainInv
  <2> QED BY <2>1, <2>2, <2>3 DEF AskStatus
<1>5. answer.status # "200"
  BY <1>1, <1>2 DEF DefiInv
<1>6. answer'.status # "200"
  <2>1. answer' = answer \/ Raise(c, "500")
    BY DEF AskStatus
  <2> QED BY <1>5, <2>1 DEF Raise, HttpError
<1>7. Requested' = Requested /\ (DefiRefusal' = "none" => DefiRefusal = "none")
  BY <1>2 DEF Requested, DefiRefusal
<1> QED BY <1>1, <1>2, <1>4, <1>6, <1>7 DEF DefiInv

LEMMA RowsKeepChain ==
  ASSUME DefiInv, Defi, NEW c \in DOMAIN tasks, AskRows(c)
  PROVE  DefiInv'
<1>1. /\ DOMAIN tasks = Requested /\ c \in Requested
      /\ \A e \in Requested : ChainInv(given, e, tasks[e])
  BY NoTasksIsEmpty DEF DefiInv
<1>2. given' = given /\ tasks[c].phase = "query" /\ DOMAIN tasks' = DOMAIN tasks
      /\ \A e \in DOMAIN tasks : e # c => tasks'[e] = tasks[e]
  BY DEF AskRows, Raise
<1>3. /\ given.route # "status" /\ tasks[c] \in ChainRecords /\ tasks[c].query = NotAsked
      /\ given.route = "scan" => c \in given.configured /\ tasks[c].status # NotAsked
  BY <1>1, <1>2 DEF ChainInv
<1>4. ChainInv(given, c, tasks'[c])
  <2>1. CASE \E code \in {"503", "500", "502"} : Raise(c, code)
    <3>1. tasks'[c] = [tasks[c] EXCEPT !.phase = "failed"]
      BY <1>1, <2>1 DEF Raise
    <3> QED BY <1>3, <3>1 DEF ChainInv, ChainRecords
  <2>2. ASSUME NEW reply \in RowReplies \cup {GraphFailed}, c \in given.configured,
               reply = GraphFailed => given.route = "scan",
               tasks' = [tasks EXCEPT ![c].phase = "done", ![c].query = reply]
        PROVE  ChainInv(given, c, tasks'[c])
    <3>1. tasks'[c] = [tasks[c] EXCEPT !.phase = "done", !.query = reply]
      BY <1>1, <2>2
    <3>2. reply # NotAsked /\ reply \in Queries
      BY ReplyKinds DEF Queries, NotAsked, GraphFailed
    <3>3. /\ tasks'[c].query = reply /\ tasks'[c].status = tasks[c].status
          /\ tasks'[c].phase = "done" /\ tasks'[c] \in ChainRecords
      BY <1>3, <3>1, <3>2 DEF ChainRecords
    <3> QED BY <1>3, <2>2, <3>2, <3>3 DEF ChainInv
  <2> QED BY <2>1, <2>2 DEF AskRows
<1>5. answer.status # "200"
  BY <1>1, <1>2 DEF DefiInv
<1>6. answer'.status # "200"
  <2>1. answer' = answer \/ \E code \in {"503", "500", "502"} : Raise(c, code)
    BY DEF AskRows
  <2> QED BY <1>5, <2>1 DEF Raise, HttpError
<1>7. Requested' = Requested /\ (DefiRefusal' = "none" => DefiRefusal = "none")
  BY <1>2 DEF Requested, DefiRefusal
<1> QED BY <1>1, <1>2, <1>4, <1>6, <1>7 DEF DefiInv

LEMMA SameChainResult ==
  ASSUME given' = given, tasks' = tasks
  PROVE  /\ Requested' = Requested /\ DefiRefusal' = DefiRefusal
         /\ \A c : ChainResult(c)' = ChainResult(c)
BY DEF Requested, DefiRefusal, ChainResult, StatusWarnings, RowWarnings, FirstPhase, Caveat

LEMMA DefiStepKeeps ==
  ASSUME DefiInv, Defi, DefiNext
  PROVE  DefiInv'
<1>1. CASE DefiRefuse
  <2>1. given' = given /\ tasks' = tasks /\ answer' = HttpError(DefiRefusal)
    BY <1>1 DEF DefiRefuse, AnswerAtOnce
  <2>2. DefiRefusal # "200"
    BY DEF DefiRefusal
  <2> QED BY <2>1, <2>2, SameChainResult DEF DefiInv, HttpError
<1>2. CASE DefiAnswer
  <2>1. /\ given' = given /\ tasks' = tasks /\ DefiRefusal = "none"
        /\ answer' = [status |-> "200", results |-> [c \in DOMAIN tasks |-> ChainResult(c)]]
        /\ \A c \in DOMAIN tasks : tasks[c].phase = "done"
    BY <1>2 DEF DefiAnswer, AnswerGathered, AnswerAtOnce, Gathered
  <2>2. DOMAIN tasks = Requested
    BY <2>1 DEF DefiInv
  <2> DEFINE results == [c \in Requested |-> ChainResult(c)]
  <2>3. results' = results
    BY <2>1, SameChainResult
  <2>4. answer'.results = results
    BY <2>1, <2>2
  <2> QED BY <2>1, <2>2, <2>3, <2>4, SameChainResult DEF DefiInv
<1> QED BY <1>1, <1>2, StatusKeepsChain, RowsKeepChain DEF DefiNext

LEMMA DefiInvHolds == Spec => []DefiInv
<1>1. Init => DefiInv
  <2> SUFFICES ASSUME Init, Defi PROVE DefiInv
    BY DEF DefiInv
  <2>1. DefiInit /\ answer.status # "200"
    BY RouteStarts DEF Defi, Unanswered
  <2>2. CASE DefiRefusal # "none"
    BY <2>1, <2>2 DEF DefiInv, DefiInit
  <2>3. CASE DefiRefusal = "none"
    <3> DEFINE fresh == [phase |-> FirstPhase, status |-> NotAsked, query |-> NotAsked]
    <3>1. tasks = [c \in Requested |-> fresh]
      BY <2>1, <2>3 DEF DefiInit
    <3>2. FirstPhase \in {"status", "query"} /\ (FirstPhase = "status" <=> given.route \in {"status", "scan"})
      BY DEF FirstPhase
    <3>3. \A c \in Requested : ChainInv(given, c, fresh)
      BY <3>2 DEF ChainInv, ChainRecords, Statuses, Queries
    <3> HIDE DEF fresh
    <3> QED BY <2>1, <3>1, <3>3 DEF DefiInv
  <2> QED BY <2>2, <2>3
<1>2. DefiInv /\ [Next]_vars => DefiInv'
  <2> SUFFICES ASSUME DefiInv, [Next]_vars, Defi' PROVE DefiInv'
    BY DEF DefiInv
  <2>1. Defi
    BY GivenStays DEF Defi
  <2>2. CASE Next
    BY <2>1, <2>2, RouteActs, DefiStepKeeps DEF Defi
  <2>3. CASE UNCHANGED vars
    <3>1. tasks' = tasks /\ given' = given /\ answer' = answer
      BY <2>3 DEF vars
    <3> DEFINE results == [c \in Requested |-> ChainResult(c)]
    <3>2. results' = results
      BY <3>1, SameChainResult
    <3> QED BY <2>1, <3>1, <3>2, SameChainResult DEF DefiInv
  <2> QED BY <2>2, <2>3
<1> QED BY <1>1, <1>2, PTL DEF Spec

\* What a reply nothing is said about is.
LEMMA SilentIsSound ==
  ASSUME NEW reply \in Statuses \cup Queries, reply # NotAsked
  PROVE  /\ ReplyWarnings(reply) \subseteq {Caveat} => Sound(reply)
         /\ reply = GraphFailed => "failed" \in ReplyWarnings(reply)
         /\ reply # GraphFailed => Answered(reply)
<1>1. Caveat \in {"absence_no_proof", "index_may_lag"}
  BY DEF Caveat
<1>2. CASE reply = GraphFailed
  <2>1. ReplyWarnings(reply) = {"failed"}
    BY <1>2, ReplyKinds DEF ReplyWarnings
  <2> QED BY <1>1, <1>2, <2>1
<1>3. CASE reply \in MetaReplies \cup RowReplies
  <2>1. reply.kind = "payload" /\ reply.errors \in BOOLEAN /\ reply.meta \in MetaStates
    BY <1>3 DEF MetaReplies, RowReplies, GraphReply
  <2>2. ReplyWarnings(reply) = QueryWarnings(reply)
    BY <2>1 DEF ReplyWarnings
  <2>3. /\ reply.errors => "graph_error" \in QueryWarnings(reply)
        /\ reply.meta = "absent" => "no_meta" \in QueryWarnings(reply)
        /\ reply.meta = "indexing_errors" => "indexing_errors" \in QueryWarnings(reply)
    BY DEF QueryWarnings
  <2> QED BY <1>1, <1>3, <2>1, <2>2, <2>3, ReplyKinds DEF Sound, Answered, MetaStates
<1> QED BY <1>2, <1>3 DEF Statuses, Queries

\* Every chain asked for has its result, a result without rows says why, and one
\* that warns of nothing but its caveat rests on sound replies: run_pools_scan
\* and its fan-out, for any chains and any replies.
THEOREM ScanAccounts == Spec => []ScanAccountsForEveryChain
<1>1. DefiInv => ScanAccountsForEveryChain
  <2> SUFFICES ASSUME DefiInv, Defi, answer.status = "200"
               PROVE  ScanAccountsForEveryChain
    BY DEF ScanAccountsForEveryChain
  <2>1. /\ DOMAIN tasks = Requested /\ \A c \in Requested : ChainInv(given, c, tasks[c])
        /\ \A c \in Requested : tasks[c].phase = "done"
        /\ answer.results = [c \in Requested |-> ChainResult(c)]
    BY NoTasksIsEmpty DEF DefiInv
  <2>2. ASSUME NEW c \in Requested
        PROVE  LET result == ChainResult(c) IN
               /\ result.rows => c \in given.configured /\ Answered(tasks[c].query)
               /\ ~result.rows /\ given.route # "status" =>
                    \/ Caveat \in result.warnings /\ Answered(tasks[c].query)
                    \/ {"unconfigured", "failed"} \cap result.warnings # {}
               /\ result.warnings \subseteq {Caveat} =>
                    /\ c \in given.configured
                    /\ FirstPhase = "status" => Sound(tasks[c].status)
                    /\ given.route # "status" => Sound(tasks[c].query)
    <3> DEFINE status == tasks[c].status
               query == tasks[c].query
    <3>1. /\ ChainInv(given, c, tasks[c]) /\ tasks[c].phase = "done"
          /\ status \in Statuses /\ query \in Queries
      BY <2>1, <2>2 DEF ChainInv, ChainRecords
    <3>2. given.route \in {"status", "scan", "pools", "activity"}
      BY DEF Defi, DefiRoutes
    <3>3. Caveat \in {"absence_no_proof", "index_may_lag"}
      BY DEF Caveat
    <3>4. FirstPhase = "status" <=> given.route \in {"status", "scan"}
      BY DEF FirstPhase
    <3>5. /\ ChainResult(c).rows <=> query.kind = "payload" /\ query.rows
          /\ ChainResult(c).warnings =
               (IF FirstPhase = "status" THEN StatusWarnings(c) ELSE {})
                 \cup (IF given.route = "status" THEN {} ELSE RowWarnings(c))
      BY DEF ChainResult
    <3>6. RowWarnings(c) = ReplyWarnings(query) \cup (IF query.kind = "payload" THEN {Caveat} ELSE {})
      BY DEF RowWarnings
    <3>7. CASE c \notin given.configured
      <4>1. given.route \in {"status", "scan"} /\ query = NotAsked
        BY <3>1, <3>2, <3>7 DEF ChainInv
      <4>2. "unconfigured" \in ChainResult(c).warnings
        BY <3>4, <3>5, <3>7, <4>1 DEF StatusWarnings
      <4> QED BY <3>3, <3>5, <3>7, <4>1, <4>2, ReplyKinds
    <3>8. CASE c \in given.configured
      <4>1. FirstPhase = "status" => status # NotAsked
        BY <3>1, <3>4, <3>8 DEF ChainInv
      <4>2. given.route # "status" => query # NotAsked
        BY <3>1, <3>2, <3>8, ReplyKinds DEF ChainInv
      <4>3. given.route = "status" => query = NotAsked
        BY <3>1 DEF ChainInv
      <4>4. StatusWarnings(c) = ReplyWarnings(status)
        BY <3>8 DEF StatusWarnings
      <4>5. FirstPhase = "status" /\ ChainResult(c).warnings \subseteq {Caveat} => Sound(status)
        <5>1. FirstPhase = "status" => ReplyWarnings(status) \subseteq ChainResult(c).warnings
          BY <3>5, <4>4
        <5> QED BY <3>1, <4>1, <5>1, SilentIsSound
      <4>6. given.route # "status" /\ ChainResult(c).warnings \subseteq {Caveat} => Sound(query)
        <5>1. given.route # "status" => ReplyWarnings(query) \subseteq ChainResult(c).warnings
          BY <3>5, <3>6
        <5> QED BY <3>1, <4>2, <5>1, SilentIsSound
      <4>7. given.route # "status" =>
              \/ Caveat \in ChainResult(c).warnings /\ Answered(query)
              \/ {"unconfigured", "failed"} \cap ChainResult(c).warnings # {}
        <5> SUFFICES ASSUME given.route # "status"
                     PROVE  \/ Caveat \in ChainResult(c).warnings /\ Answered(query)
                            \/ "failed" \in ChainResult(c).warnings
          OBVIOUS
        <5>1. CASE query = GraphFailed
          BY <3>1, <3>5, <3>6, <4>2, <5>1, SilentIsSound
        <5>2. CASE query # GraphFailed
          BY <3>1, <3>5, <3>6, <4>2, <5>2, SilentIsSound DEF Answered
        <5> QED BY <5>1, <5>2
      <4>8. ChainResult(c).rows => Answered(query)
        BY <3>5 DEF Answered
      <4> QED BY <3>8, <4>5, <4>6, <4>7, <4>8
    <3> QED BY <3>7, <3>8
  <2> QED BY <2>1, <2>2 DEF ScanAccountsForEveryChain
<1> QED BY <1>1, DefiInvHolds, PTL

-----------------------------------------------------------------------------
(* What is derived from a receipt.                                         *)

DerivationInv ==
  given.route \in DerivationRoutes =>
    /\ given \in DerivationRequests
    /\ answer # Unanswered => answer.result = Derive(given)

LEMMA DerivationInvHolds == Spec => []DerivationInv
<1>1. Init => DerivationInv
  BY RouteStarts DEF DerivationInv, DerivationInit
<1>2. DerivationInv /\ [Next]_vars => DerivationInv'
  <2> SUFFICES ASSUME DerivationInv, [Next]_vars, given.route \in DerivationRoutes
               PROVE  DerivationInv'
    BY GivenStays DEF DerivationInv
  <2>1. CASE Next
    BY <2>1, RouteActs, GivenStays DEF DerivationInv, DerivationNext, AnswerAtOnce
  <2>2. CASE UNCHANGED vars
    BY <2>2 DEF DerivationInv, vars
  <2> QED BY <2>1, <2>2
<1> QED BY <1>1, <1>2, PTL DEF Spec

\* A set of natural numbers has a least one, when it is not empty.
LEMMA LeastNatural ==
  ASSUME NEW S, S \subseteq Nat, S # {}
  PROVE  \E i \in S : \A j \in S : i <= j
<1>1. PICK i \in S : \A j \in S : <<j, i>> \notin OpToRel(<, Nat)
  BY NatLessThanWellFounded, WFMin
<1>2. \A j \in S : ~(j < i)
  BY <1>1 DEF OpToRel
<1> QED BY <1>2

\* The log the loop breaks at has the index of the event.
LEMMA FirstMatch ==
  ASSUME NEW event, NEW receipt, MatchingLogs(event, receipt) # {}
  PROVE  \E i \in MatchingLogs(event, receipt) : MatchingLog(event, receipt) = receipt.logs[i]
<1>1. MatchingLogs(event, receipt) \subseteq Nat
  BY DEF MatchingLogs
<1> DEFINE first == CHOOSE i \in MatchingLogs(event, receipt) :
                      \A j \in MatchingLogs(event, receipt) : i <= j
<1>2. first \in MatchingLogs(event, receipt)
  BY <1>1, LeastNatural
<1>3. MatchingLog(event, receipt) = receipt.logs[first]
  BY DEF MatchingLog
<1> QED BY <1>2, <1>3

\* Nothing mismatches exactly when the log says all the event says.
LEMMA NothingMismatches ==
  ASSUME NEW event, NEW receipt
  PROVE  MismatchedFields(event, receipt) = {} <=>
           Agrees(event, MatchingLog(event, receipt), receipt)
<1> DEFINE log == MatchingLog(event, receipt)
<1> HIDE DEF log
<1>1. MismatchedFields(event, receipt) = {} <=>
        \A f \in Fields : event.fields[f] = NoValue \/ event.fields[f] = OnChain(log, receipt, f)
  BY DEF MismatchedFields, log
<1>2. ASSUME NEW f \in Fields
      PROVE  event.fields[f] = NoValue \/ event.fields[f] = OnChain(log, receipt, f) <=>
               \/ event.fields[f] \in {NoValue, log.fields[f]}
               \/ f \in FromReceipt /\ log.fields[f] = NoValue /\ event.fields[f] = receipt.fields[f]
  BY DEF OnChain
<1>3. Agrees(event, log, receipt) <=>
        \A f \in Fields : \/ event.fields[f] \in {NoValue, log.fields[f]}
                          \/ f \in FromReceipt /\ log.fields[f] = NoValue
                               /\ event.fields[f] = receipt.fields[f]
  BY DEF Agrees
<1> QED BY <1>1, <1>2, <1>3 DEF log

LEMMA EventVerdict ==
  ASSUME NEW event, NEW receipt, Len(receipt.logs) \in Nat
  PROVE  CorroborationSound(event, receipt, ReconcileEvent(event, receipt))
<1> DEFINE matching == MatchingLogs(event, receipt)
           agreeing == {i \in matching : Agrees(event, receipt.logs[i], receipt)}
           verdict == ReconcileEvent(event, receipt)
<1>1. verdict = "CORROBORATED" <=>
        /\ Complete(event) /\ matching # {} /\ event.tx = receipt.tx
        /\ MismatchedFields(event, receipt) = {}
  BY DEF ReconcileEvent
<1>2. verdict = "CORROBORATED" => event.tx = receipt.tx /\ event.index # NoValue /\ agreeing # {}
  BY <1>1, FirstMatch, NothingMismatches DEF Complete
<1>3. ASSUME Complete(event), event.tx = receipt.tx, agreeing # {}, Cardinality(matching) = 1
      PROVE  verdict = "CORROBORATED"
  <2>1. IsFiniteSet(matching)
    <3>1. IsFiniteSet(1..Len(receipt.logs))
      BY FS_Interval
    <3>2. matching \subseteq 1..Len(receipt.logs)
      BY DEF MatchingLogs
    <3> QED BY <3>1, <3>2, FS_Subset
  <2>2. PICK i : matching = {i}
    BY <1>3, <2>1, FS_Singleton
  <2>3. Agrees(event, receipt.logs[i], receipt)
    BY <1>3, <2>2
  <2>4. MatchingLog(event, receipt) = receipt.logs[i]
    BY <2>2, FirstMatch
  <2> QED BY <1>1, <1>3, <2>2, <2>3, <2>4, NothingMismatches
<1> QED BY <1>2, <1>3 DEF CorroborationSound

\* An event is corroborated only by a log of the receipt of its transaction that
\* agrees with all it says: reconcile_graph_swaps_with_rpc, for every event and
\* every receipt.
THEOREM CorroborationExact == Spec => []CorroborationIsExact
<1>1. DerivationInv => CorroborationIsExact
  <2> SUFFICES ASSUME DerivationInv, given.route = "reconcile", answer # Unanswered
               PROVE  CorroborationIsExact
    BY DEF CorroborationIsExact
  <2>1. answer.result = Reconcile(given.events, given.receipt, given.rpc_payload)
    BY DEF DerivationInv, Derive, DerivationRoutes
  <2>2. Len(given.receipt.logs) \in Nat
    BY DerivationAssumption DEF DerivationInv, DerivationRoutes
  <2>3. CASE ~given.rpc_payload \/ given.events = <<>> \/ given.receipt.logs = <<>>
    BY <2>1, <2>3 DEF Reconcile, CorroborationIsExact
  <2>4. CASE /\ ~(~given.rpc_payload \/ given.events = <<>> \/ given.receipt.logs = <<>>)
             /\ \E i \in 1..Len(given.events) : Breaks(given.events[i], given.receipt)
    <3>1. answer.result = <<"ERROR">>
      BY <2>1, <2>4 DEF Reconcile
    <3>2. Malformed(given.events, given.receipt)
      BY <2>2, <2>4, FirstMatch DEF Breaks, Malformed, MatchingLogs
    <3> QED BY <2>4, <3>1, <3>2 DEF CorroborationIsExact
  <2>5. CASE /\ ~(~given.rpc_payload \/ given.events = <<>> \/ given.receipt.logs = <<>>)
             /\ ~\E i \in 1..Len(given.events) : Breaks(given.events[i], given.receipt)
    <3>1. answer.result =
            [i \in 1..Len(given.events) |-> ReconcileEvent(given.events[i], given.receipt)]
      BY <2>1, <2>5 DEF Reconcile
    <3>2. \A i \in 1..Len(given.events) :
            CorroborationSound(given.events[i], given.receipt, answer.result[i])
      BY <2>2, <3>1, EventVerdict
    <3>3. answer.result # <<"ERROR">>
      <4>1. ASSUME answer.result = <<"ERROR">> PROVE FALSE
        <5>1. 1 \in DOMAIN answer.result /\ answer.result[1] = "ERROR"
          BY <4>1
        <5>2. answer.result[1] = ReconcileEvent(given.events[1], given.receipt)
          BY <3>1, <5>1
        <5> QED BY <5>1, <5>2 DEF ReconcileEvent
      <4> QED BY <4>1
    <3> QED BY <2>5, <3>2, <3>3 DEF CorroborationIsExact
  <2> QED BY <2>3, <2>4, <2>5
<1> QED BY <1>1, DerivationInvHolds, PTL

\* A swap's amount is the subject's or unknown, not the subject's without proof
\* and never unknown without a warning: DirectFlowAnalysis, for every amount.
THEOREM AttributionExact == Spec => []AttributionIsExact
<1>1. DerivationInv => AttributionIsExact
  <2> SUFFICES ASSUME DerivationInv, given.route = "contribution", answer # Unanswered,
                      given.action.swap
               PROVE  AttributionIsExact
    BY DEF AttributionIsExact
  <2>1. /\ answer.result = Contribution(given.action)
        /\ given.action.proven \in BOOLEAN /\ given.action.amount \in Nat
    BY DerivationAssumption DEF DerivationInv, Derive, DerivationRoutes
  <2>2. CASE given.action.proven
    BY <2>1, <2>2 DEF Contribution, AttributionIsExact
  <2>3. CASE ~given.action.proven
    <3>1. /\ answer.result.attributable = 0 /\ answer.result.unknown = given.action.amount
          /\ answer.result.case_flow = given.action.amount
      BY <2>1, <2>3 DEF Contribution
    <3>2. answer.result.warnings = {"unproven"}
      BY <2>1, <2>3 DEF Contribution
    <3> QED BY <2>1, <2>3, <3>1, <3>2 DEF AttributionIsExact
  <2> QED BY <2>2, <2>3
<1> QED BY <1>1, DerivationInvHolds, PTL

\* Every transfer has a place of its own in the order, and every place has a
\* transfer: no induction is needed, since as many naturals as there are
\* transfers are below their number.
LEMMA ClaimsFinite ==
  ASSUME NEW logs, Len(logs) \in Nat
  PROVE  /\ IsFiniteSet(Claims(logs)) /\ Cardinality(Claims(logs)) \in Nat
         /\ Claims(logs) \subseteq Nat
<1>1. IsFiniteSet(1..Len(logs))
  BY FS_Interval
<1>2. Claims(logs) \in SUBSET (1..Len(logs))
  BY DEF Claims
<1> QED BY <1>1, <1>2, FS_Subset, FS_CardinalityType

\* The rank of a transfer says how many are before it, so an earlier one has a
\* smaller rank.
LEMMA RankOrders ==
  ASSUME NEW logs, Len(logs) \in Nat, \A i \in Claims(logs) : logs[i].logIndex \in Nat,
         NEW i \in Claims(logs), NEW j \in Claims(logs)
  PROVE  /\ Rank(logs, i) \in 0..(Cardinality(Claims(logs)) - 1)
         /\ Before(logs, i, j) => Rank(logs, i) < Rank(logs, j)
         /\ i = j \/ Before(logs, i, j) \/ Before(logs, j, i)
<1> DEFINE C == Claims(logs)
           Pred(x) == {y \in C : Before(logs, y, x)}
<1>1. IsFiniteSet(C) /\ Cardinality(C) \in Nat /\ C \subseteq Nat
  BY ClaimsFinite
<1>2. ASSUME NEW x \in C
      PROVE  IsFiniteSet(Pred(x)) /\ Cardinality(Pred(x)) \in Nat /\ x \notin Pred(x)
  <2>1. Pred(x) \in SUBSET C
    OBVIOUS
  <2>2. x \notin Pred(x)
    BY <1>1 DEF Before
  <2> QED BY <1>1, <2>1, <2>2, FS_Subset, FS_CardinalityType
<1>3. ASSUME NEW x \in C
      PROVE  /\ IsFiniteSet(Pred(x) \cup {x})
             /\ Cardinality(Pred(x) \cup {x}) = Cardinality(Pred(x)) + 1
  BY <1>2, FS_AddElement
<1>4. Rank(logs, i) \in 0..(Cardinality(C) - 1)
  <2>1. Pred(i) \cup {i} \in SUBSET C
    OBVIOUS
  <2>2. Cardinality(Pred(i) \cup {i}) <= Cardinality(C)
    BY <1>1, <2>1, FS_Subset
  <2>3. Rank(logs, i) = Cardinality(Pred(i))
    BY DEF Rank
  <2>4. Cardinality(Pred(i)) \in Nat /\ Cardinality(Pred(i)) + 1 <= Cardinality(C)
    BY <1>2, <1>3, <2>2
  <2> HIDE DEF C, Pred
  <2> QED BY <1>1, <2>3, <2>4
<1>5. ASSUME Before(logs, i, j) PROVE Rank(logs, i) < Rank(logs, j)
  <2>1. ASSUME NEW y \in C, Before(logs, y, i) PROVE Before(logs, y, j)
    <3>1. logs[y].logIndex \in Nat /\ logs[i].logIndex \in Nat /\ logs[j].logIndex \in Nat
      OBVIOUS
    <3>2. y \in Nat /\ i \in Nat /\ j \in Nat
      BY <1>1
    <3> QED BY <1>5, <2>1, <3>1, <3>2 DEF Before
  <2>2. Pred(i) \cup {i} \in SUBSET Pred(j)
    BY <1>5, <2>1
  <2>3. Cardinality(Pred(i) \cup {i}) <= Cardinality(Pred(j))
    BY <1>2, <2>2, FS_Subset
  <2>4. Rank(logs, i) = Cardinality(Pred(i)) /\ Rank(logs, j) = Cardinality(Pred(j))
    BY DEF Rank
  <2>5. /\ Cardinality(Pred(i)) \in Nat /\ Cardinality(Pred(j)) \in Nat
        /\ Cardinality(Pred(i)) + 1 <= Cardinality(Pred(j))
    BY <1>2, <1>3, <2>3
  <2> HIDE DEF C, Pred
  <2> QED BY <2>4, <2>5
<1>6. i = j \/ Before(logs, i, j) \/ Before(logs, j, i)
  BY <1>1 DEF Before
<1> QED BY <1>4, <1>5, <1>6

LEMMA EveryRankIsTaken ==
  ASSUME NEW logs, Len(logs) \in Nat, \A i \in Claims(logs) : logs[i].logIndex \in Nat,
         NEW k \in 1..Cardinality(Claims(logs))
  PROVE  \E i \in Claims(logs) : Rank(logs, i) = k - 1
<1> DEFINE C == Claims(logs)
           n == Cardinality(C)
           place == [i \in C |-> Rank(logs, i) + 1]
<1>1. IsFiniteSet(C) /\ n \in Nat
  BY ClaimsFinite
<1> HIDE DEF n, C
<1>2. ASSUME NEW i \in C PROVE place[i] \in 1..n
  BY <1>1, <1>2, RankOrders DEF n, C
<1>3. ASSUME NEW i \in C, NEW j \in C, place[i] = place[j] PROVE i = j
  <2>1. Rank(logs, i) \in Nat /\ Rank(logs, j) \in Nat
    BY <1>1, RankOrders DEF n, C
  <2>2. Rank(logs, i) = Rank(logs, j)
    BY <1>3, <2>1
  <2> QED BY <2>1, <2>2, RankOrders DEF C
<1>4. place \in Injection(C, 1..n)
  BY <1>2, <1>3 DEF Injection, IsInjective
<1>5. IsFiniteSet(1..n) /\ Cardinality(1..n) = n
  <2>1. 1 \in Int /\ n \in Int
    BY <1>1
  <2>2. IsFiniteSet(1..n) /\ Cardinality(1..n) = IF 1 > n THEN 0 ELSE n - 1 + 1
    BY <2>1, FS_Interval, Zenon
  <2> QED BY <1>1, <2>2
<1>6. place \in Surjection(C, 1..n)
  BY <1>4, <1>5, FS_Injection DEF n
<1>7. PICK i \in C : place[i] = k
  BY <1>6 DEF Surjection, n, C
<1>8. Rank(logs, i) \in Nat
  BY <1>1, RankOrders DEF n, C
<1> QED BY <1>7, <1>8 DEF C

\* The k-th transfer of what Decode returns.
LEMMA DecodedAt ==
  ASSUME NEW logs, Len(logs) \in Nat,
         \A i \in Claims(logs) : logs[i].wellformed /\ logs[i].logIndex \in Nat
  PROVE  LET transfers == Decode(logs).transfers
         IN  /\ Len(transfers) = Cardinality(Claims(logs))
             /\ \A k \in 1..Cardinality(Claims(logs)) :
                  transfers[k] \in Claims(logs) /\ Rank(logs, transfers[k]) = k - 1
<1> DEFINE C == Claims(logs)
           n == Cardinality(C)
           transfers == [k \in 1..n |-> CHOOSE i \in C : Rank(logs, i) = k - 1]
<1>1. n \in Nat
  BY ClaimsFinite
<1>2. Decode(logs).transfers = transfers
  BY DEF Decode
<1>3. Len(transfers) = n
  BY <1>1
<1>4. ASSUME NEW k \in 1..n
      PROVE  transfers[k] \in C /\ Rank(logs, transfers[k]) = k - 1
  BY <1>4, EveryRankIsTaken
<1> QED BY <1>2, <1>3, <1>4

\* No transfer is dropped, invented or out of the order of the chain, and no
\* part of a receipt with a malformed one is decoded: decode_transfer_logs, for
\* any number of logs in any order.
THEOREM DecodingExact == Spec => []DecodingIsExact
<1>1. DerivationInv => DecodingIsExact
  <2> SUFFICES ASSUME DerivationInv, given.route = "decode", answer # Unanswered
               PROVE  DecodingIsExact
    BY DEF DecodingIsExact
  <2> DEFINE logs == given.logs
             C == Claims(logs)
             transfers == answer.result.transfers
  <2>1. answer.result = Decode(logs)
    BY DEF DerivationInv, Derive, DerivationRoutes
  <2>2. /\ Len(logs) \in Nat
        /\ \A i \in 1..Len(logs) : logs[i].wellformed => logs[i].logIndex \in Nat
    BY DerivationAssumption DEF DerivationInv, DerivationRoutes
  <2>3. CASE \E i \in C : ~logs[i].wellformed
    BY <2>1, <2>3 DEF Decode, DecodingIsExact
  <2>4. CASE \A i \in C : logs[i].wellformed
    <3>1. \A i \in C : logs[i].logIndex \in Nat
      BY <2>2, <2>4 DEF Claims
    <3>2. answer.result.error = FALSE
      BY <2>1, <2>4 DEF Decode
    <3> HIDE DEF logs
    <3>3. /\ Len(transfers) = Cardinality(C) /\ Cardinality(C) \in Nat
          /\ \A k \in 1..Cardinality(C) : transfers[k] \in C /\ Rank(logs, transfers[k]) = k - 1
      BY <2>1, <2>2, <2>4, <3>1, DecodedAt, ClaimsFinite
    <3> HIDE DEF C, transfers
    <3>4. ASSUME NEW i \in C PROVE \E k \in 1..Len(transfers) : transfers[k] = i
      <4>1. Rank(logs, i) \in 0..(Cardinality(C) - 1)
        BY <2>2, <3>1, RankOrders DEF C
      <4>2. Rank(logs, i) + 1 \in 1..Cardinality(C) /\ (Rank(logs, i) + 1) - 1 = Rank(logs, i)
        BY <3>3, <4>1
      <4>3. PICK k \in 1..Cardinality(C) : transfers[k] \in C /\ Rank(logs, transfers[k]) = Rank(logs, i)
        BY <3>3, <4>2
      <4>4. transfers[k] = i
        BY <2>2, <3>1, <4>1, <4>3, RankOrders DEF C
      <4> QED BY <3>3, <4>3, <4>4
    <3>5. {transfers[k] : k \in 1..Len(transfers)} = C
      BY <3>3, <3>4
    <3>6. ASSUME NEW k \in 2..Len(transfers)
          PROVE  logs[transfers[k - 1]].logIndex <= logs[transfers[k]].logIndex
      <4>1. k \in 1..Cardinality(C) /\ k - 1 \in 1..Cardinality(C)
        BY <3>3, <3>6
      <4>2. /\ transfers[k] \in C /\ Rank(logs, transfers[k]) = k - 1
            /\ transfers[k - 1] \in C /\ Rank(logs, transfers[k - 1]) = (k - 1) - 1
        BY <3>3, <4>1
      <4>3. ~Before(logs, transfers[k], transfers[k - 1]) /\ transfers[k] # transfers[k - 1]
        <5>1. ~(k - 1 < (k - 1) - 1) /\ k - 1 # (k - 1) - 1
          BY <4>1
        <5> QED BY <2>2, <3>1, <4>2, <5>1, RankOrders DEF C
      <4>4. Before(logs, transfers[k - 1], transfers[k])
        BY <2>2, <3>1, <4>2, <4>3, RankOrders DEF C
      <4> QED BY <3>1, <4>2, <4>4 DEF Before
    <3> QED BY <2>4, <3>2, <3>3, <3>5, <3>6 DEF DecodingIsExact, logs, C, transfers
  <2> QED BY <2>3, <2>4
<1> QED BY <1>1, DerivationInvHolds, PTL

\* What is derived from a receipt says no more than the receipt and no less:
\* reconciliation, decoding and contribution, for any receipt.
THEOREM DerivationExact == Spec => []DerivationIsExact
<1>1. CorroborationIsExact /\ DecodingIsExact /\ AttributionIsExact => DerivationIsExact
  BY DEF DerivationIsExact
<1> QED BY <1>1, CorroborationExact, DecodingExact, AttributionExact, PTL
=============================================================================
