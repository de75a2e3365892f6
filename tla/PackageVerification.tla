------------------------- MODULE PackageVerification -------------------------
(***************************************************************************)
(* POST /v1/verify on a package as build_v52_zip makes it, or on any other *)
(* upload.  The route keeps nothing: its handler is the function Verify,   *)
(* and a digest stands for the one content that has it (SHA-256, external). *)
(*                                                                         *)
(* An archive is a set of entries in the order of its directory, manifest. *)
(* json apart; two entries may have one name, and a read by name gets the   *)
(* later one.                                                              *)
(***************************************************************************)
EXTENDS ClientRequest

CONSTANTS
  Names, Contents,
  Excluded,        \* the names _is_excluded keeps out: .env*, *.log, *.pem, ...
  VerifyRequests   \* the uploads that can arrive

Entry(at, name, content) == [at |-> at, name |-> name, content |-> content]

\* A file whose compressed bytes are damaged: zf.read raises.
Damaged == "damaged"

Entries == [at : Nat, name : Names, content : Contents \cup {Damaged}]

\* A digest in a manifest: of some content, in either case, or no text at all.
Digest(content, form) == [of |-> content, form |-> form]
Forms == {"lower", "upper", "not_text"}

\* manifest.json, when it is a JSON object with an object of files.
Declares(files) == [kind |-> "declares", files |-> files]

\* Every other manifest: absent; unreadable or not JSON; not an object; its
\* files not one, but empty, null or zero, or something else.
OddManifests ==
  {[kind |-> k] : k \in {"absent", "not_json", "not_object", "files_falsy", "files_not_object"}}

ASSUME VerifyAssumption ==
  /\ Excluded \subseteq Names
  /\ Damaged \notin Contents
  /\ \A g \in VerifyRequests :
       /\ g.route = "verify" /\ g.upload \in {"zip", "not_zip", "too_large"}
       /\ IsFiniteSet(g.entries) /\ g.entries \subseteq Entries
       /\ g.manifest.kind = "declares" \/ g.manifest \in OddManifests

NamesOf(entries) == {e.name : e \in entries}

-----------------------------------------------------------------------------
(* build_v52_zip and build_manifest.                                       *)

\* A vault maps the files under raw/<case_id> to their contents.
Kept(vault) == DOMAIN vault \ Excluded

\* build_manifest is given the files that are packed.
DeclareKept(vault) == Declares([n \in Kept(vault) |-> Digest(vault[n], "lower")])

\* extra_data, which no caller passes, is packed after the files and never
\* declared.
Build(vault, extra) ==
  [route |-> "verify", upload |-> "zip",
   entries |-> {Entry(0, n, vault[n]) : n \in Kept(vault)} \cup extra,
   manifest |-> DeclareKept(vault)]

-----------------------------------------------------------------------------
(* verify_package.                                                         *)

\* zf.read(name): ZipFile keeps the last entry of a name.
ReadEntry(entries, name) ==
  (CHOOSE e \in entries : e.name = name /\ \A f \in entries : f.name = name => f.at <= e.at)
    .content

Found(g) == DOMAIN g.manifest.files \cap NamesOf(g.entries)

\* The digest comparison of a file that is there: sha256_of against
\* expected.lower().
DigestMatches(g, n) == ReadEntry(g.entries, n) = g.manifest.files[n].of

Missing(g) == DOMAIN g.manifest.files \ NamesOf(g.entries)
Mismatched(g) == {n \in Found(g) : ~DigestMatches(g, n)}
Undeclared(g) == NamesOf(g.entries) \ DOMAIN g.manifest.files

\* zf.read and expected.lower() are outside the handler's try.
Raises(g) ==
  \E n \in Found(g) :
    ReadEntry(g.entries, n) = Damaged \/ g.manifest.files[n].form = "not_text"

\* Mutated form: what is in the ZIP and not in the manifest is not looked for.
ReportDeclared(g) ==
  [status |-> "200",
   verdict |-> IF Missing(g) \cup Mismatched(g) = {} THEN "PASS" ELSE "FAIL",
   checked_files |-> Cardinality(Found(g)),
   errors |-> Missing(g) \cup Mismatched(g)]

Report(g) ==
  [status |-> "200",
   verdict |-> IF Missing(g) \cup Mismatched(g) \cup Undeclared(g) = {} THEN "PASS" ELSE "FAIL",
   checked_files |-> Cardinality(Found(g)),
   errors |-> Missing(g) \cup Mismatched(g) \cup Undeclared(g)]

\* What is checked before the first file.
VerifyRefusal(g) ==
  CASE g.upload = "too_large" -> "413"
    [] g.upload = "not_zip" -> "400"
    [] g.upload = "zip" /\ g.manifest.kind \in {"absent", "not_json", "files_falsy"} -> "400"
    [] g.upload = "zip" /\ g.manifest.kind \in {"not_object", "files_not_object"} -> "500"
    [] g.upload = "zip" /\ g.manifest.kind = "declares" ->
         IF DOMAIN g.manifest.files = {} THEN "400" ELSE "none"

Verify(g) ==
  CASE VerifyRefusal(g) # "none" -> HttpError(VerifyRefusal(g))
    [] VerifyRefusal(g) = "none" /\ Raises(g) -> HttpError("500")
    [] VerifyRefusal(g) = "none" /\ ~Raises(g) -> Report(g)

VerifyInit ==
  given \in VerifyRequests /\ tasks = NoTasks /\ answer = Unanswered

VerifyNext == given.route = "verify" /\ AnswerAtOnce(Verify(given))

-----------------------------------------------------------------------------
(* Properties.                                                             *)

\* What a reader who unpacks the archive ends up with: later entries overwrite
\* earlier ones.
Unpacked(entries) == [n \in NamesOf(entries) |-> ReadEntry(entries, n)]

Declared(files) == [n \in DOMAIN files |-> files[n].of]

\* The packages of the pipeline: what a vault gives, with no extra data.
Vaults == UNION {[S -> Contents] : S \in SUBSET Names}
PipelinePackages == {Build(vault, {}) : vault \in Vaults}

\* PASS is the answer exactly when unpacking gives the files the manifest
\* declares, the manifest aside, with the contents it declares: no name left
\* out, none added, none hidden behind another entry, in whichever case the
\* digests are.  So a package of the pipeline passes, unless it has no files.
VerificationIsExact ==
  given.route = "verify" /\ answer # Unanswered =>
    /\ answer.status = "200" =>
         /\ answer.verdict = "PASS" <=>
              Unpacked(given.entries) = Declared(given.manifest.files)
         /\ answer.verdict = "PASS" => answer.checked_files = Cardinality(NamesOf(given.entries))
    /\ answer.status # "200" =>
         \/ given.upload # "zip" \/ given.manifest.kind # "declares"
         \/ DOMAIN given.manifest.files = {}
         \/ \E n \in DOMAIN given.manifest.files, e \in given.entries :
              e.name = n /\ (e.content = Damaged \/ given.manifest.files[n].form = "not_text")
    /\ given \in PipelinePackages =>
         \/ answer.status = "200" /\ answer.verdict = "PASS"
         \/ answer = HttpError("400") /\ given.entries = {}
=============================================================================
