--------------------------- MODULE ArtifactRegistry ---------------------------
(***************************************************************************)
(* The immutable artifact registry and the candidate workflows that fill   *)
(* it, on a file system (create exclusively, then write) or on S3 (put if  *)
(* absent). Workflows overlap and die between any two calls. Bytes are     *)
(* abstracted to their identity: a blob is its checksum, a manifest the    *)
(* run that made it (its created_at is part of its bytes).                 *)
(***************************************************************************)
EXTENDS Naturals, FiniteSets

CONSTANTS
    Runs,       \* runs of candidate workflows
    CandidateOf,\* CandidateOf[r]: the candidate id run r registers
    WorkflowRun,\* WorkflowRun[r]: its workflow
    BlobsOf     \* BlobsOf[r]: the blobs its manifest refers to

VARIABLES
    backend,    \* "file" or "s3"
    blobs,      \* blobs[b]: absent, torn or whole
    manifests,  \* manifests[c]: nobody's, or of a run; torn or whole
    runs,       \* runs[r]: where the run is, and the private and public files it leaves
    modelPointer\* the current model, which training moves

registryVars == <<backend, blobs, manifests, runs, modelPointer>>

-----------------------------------------------------------------------------
AllBlobs == UNION {BlobsOf[r] : r \in Runs}
AllCandidates == {CandidateOf[r] : r \in Runs}
Nobody == "nobody"

ASSUME RunsAreNamed == Nobody \notin Runs

\* A run that ends without its manifest, in public or at all.
Failed(run) == [run EXCEPT !.at = "failed", !.todo = {}, !.blob = Nobody, !.pointer = 0]

RegistryInit ==
    /\ backend = "file"
    /\ blobs = [b \in AllBlobs |-> "absent"]
    /\ manifests = [c \in AllCandidates |-> [by |-> Nobody, state |-> "absent"]]
    /\ runs = [r \in Runs |-> [at |-> "new", todo |-> BlobsOf[r], blob |-> Nobody,
                           pointer |-> 0, files |-> "none"]]
    /\ modelPointer = 0

ChooseBackend ==
    /\ \A r \in Runs : runs[r].at = "new"
    /\ backend = "file" /\ backend' = "s3"
    /\ UNCHANGED <<blobs, manifests, runs, modelPointer>>

-----------------------------------------------------------------------------
(* The evidence a workflow must bring.                                     *)

\* The benchmark of the classifier, complete but for at most one part.
MlopsGates == {"seeds", "languages", "centroid", "incumbent", "semantic leakage",
               "production readiness", "development gate"}

MlopsAccepted(present) == MlopsGates \subseteq present

\* What build_ragops_report derives from a retrieval run: counts of documents
\* pending, drifted and projected anew, and the restored snapshot.
RagopsReport(run) ==
    [failed |-> run.pending, missing |-> run.unprojected, stale |-> run.drifted,
     orphan |-> run.projected, verified |-> run.matches, checksum |-> run.downloaded = run.announced,
     isolated |-> run.isolated, moved |-> run.from # run.into,
     same |-> run.before = run.after, promoted |-> FALSE]

RagopsAccepted(report) ==
    /\ report.failed = 0 /\ report.missing = 0 /\ report.stale = 0 /\ report.orphan = 0
    /\ report.verified /\ report.checksum /\ report.isolated /\ report.moved /\ report.same
    /\ ~ report.promoted

SoundRetrieval == [pending |-> 0, unprojected |-> 0, drifted |-> 0, projected |-> 0, matches |-> TRUE,
                   downloaded |-> 1, announced |-> 1, isolated |-> TRUE, from |-> "a", into |-> "b",
                   before |-> 1, after |-> 1]

RetrievalRuns == {SoundRetrieval, [SoundRetrieval EXCEPT !.pending = 1],
                  [SoundRetrieval EXCEPT !.projected = 1], [SoundRetrieval EXCEPT !.after = 2],
                  [SoundRetrieval EXCEPT !.into = "a"], [SoundRetrieval EXCEPT !.downloaded = 2]}

\* A golden case with its frozen output: no model runs.
ProbeCase == [language : {"pl", "en"}, injection : BOOLEAN, exact : BOOLEAN, citesAllowed : BOOLEAN]

\* _contract_probe: what the frozen output is as a classification.
ProbeOutput(case) == [quadrant |-> case.exact, cites |-> case.citesAllowed]

\* _contract_report: all gates, among them its own summary.
ContractReport(cases, promptsIntact) ==
    LET languages == {c.language : c \in cases}
        safe == \A c \in cases : ProbeOutput(c).cites
        injection == \E c \in cases : c.injection
        exact == \A c \in cases : ProbeOutput(c).quadrant
    IN  [languages |-> {l \in languages : \A c \in cases : c.language = l => ProbeOutput(c).quadrant},
         injection |-> injection /\ safe, fabrication |-> safe, regression |-> exact,
         contracts |-> promptsIntact, level |-> "ci_in_process", live |-> FALSE,
         gate |-> languages = {"pl", "en"} /\ injection /\ promptsIntact /\ safe /\ exact]

LlmopsAccepted(report) ==
    /\ report.languages = {"pl", "en"}
    /\ report.injection /\ report.fabrication /\ report.regression /\ report.contracts /\ report.gate
    /\ report.level = "live_model" <=> report.live

\* A run goes on to register its blobs, or is refused.
Begin(r, accepted) ==
    /\ runs[r].at = "new"
    /\ runs' = [runs EXCEPT ![r] =
         IF ~ accepted THEN Failed(@)
         ELSE [@ EXCEPT !.at = "blobs", !.pointer = IF WorkflowRun[r] = "mlops" THEN modelPointer ELSE 0]]
    /\ UNCHANGED <<backend, blobs, manifests, modelPointer>>

StartMlops(r) ==
    /\ WorkflowRun[r] = "mlops"
    /\ \E missing \in {{}} \cup {{g} : g \in MlopsGates} : Begin(r, MlopsAccepted(MlopsGates \ missing))

StartRagops(r) ==
    /\ WorkflowRun[r] = "ragops"
    /\ \E run \in RetrievalRuns : Begin(r, RagopsAccepted(RagopsReport(run)))

StartLlmops(r) ==
    /\ WorkflowRun[r] = "llmops"
    /\ \E one \in ProbeCase, language \in {"pl", "en"}, promptsIntact \in BOOLEAN :
         LET other == [language |-> language, injection |-> FALSE, exact |-> TRUE, citesAllowed |-> TRUE]
         IN  Begin(r, LlmopsAccepted(ContractReport({one, other}, promptsIntact)))

\* Training moves the current model pointer meanwhile.
TrainModel ==
    /\ modelPointer = 0 /\ modelPointer' = 1
    /\ UNCHANGED <<backend, blobs, manifests, runs>>

-----------------------------------------------------------------------------
\* register_bytes of an existing blob: verified, or the run fails.
FindBlob(r, b) ==
    /\ runs[r].at = "blobs" /\ b \in runs[r].todo
    /\ blobs[b] # "absent"
    /\ runs' = [runs EXCEPT ![r] = IF blobs[b] = "whole" THEN [@ EXCEPT !.todo = runs[r].todo \ {b}]
                                   ELSE Failed(@)]
    /\ UNCHANGED <<backend, blobs, manifests, modelPointer>>

\* The blob does not exist: it will be created.
MissBlob(r, b) ==
    /\ runs[r].at = "blobs" /\ b \in runs[r].todo
    /\ blobs[b] = "absent"
    /\ runs' = [runs EXCEPT ![r].at = "creating", ![r].blob = b]
    /\ UNCHANGED <<backend, blobs, manifests, modelPointer>>

\* _exclusive_write: created empty, unless another run was faster; then written.
\* _put_immutable puts the whole object, and reads what was there before it.
CreateBlob(r) ==
    LET b == runs[r].blob IN
    /\ runs[r].at = "creating"
    /\ IF backend = "s3"
       THEN /\ blobs' = [blobs EXCEPT ![b] = "whole"]
            /\ runs' = [runs EXCEPT ![r].at = "blobs", ![r].todo = @ \ {b}, ![r].blob = Nobody]
       ELSE IF blobs[b] = "absent"
       THEN blobs' = [blobs EXCEPT ![b] = "torn"] /\ runs' = [runs EXCEPT ![r].at = "writing"]
       ELSE runs' = [runs EXCEPT ![r] = Failed(@)] /\ UNCHANGED blobs
    /\ UNCHANGED <<backend, manifests, modelPointer>>

WriteBlob(r) ==
    /\ runs[r].at = "writing"
    /\ blobs' = [blobs EXCEPT ![runs[r].blob] = "whole"]
    /\ runs' = [runs EXCEPT ![r].at = "blobs", ![r].todo = @ \ {runs[r].blob},
                            ![r].blob = Nobody]
    /\ UNCHANGED <<backend, manifests, modelPointer>>

\* Every reference of the manifest is a blob with the right checksum.
Backed(r) == \A b \in BlobsOf[r] : blobs[b] = "whole"

\* register_manifest of a run that has registered its blobs, or of a manifest
\* file prepared elsewhere (cli): verified, and created exclusively.
CheckManifest(r) ==
    /\ \/ runs[r].at = "blobs" /\ runs[r].todo = {}
       \/ runs[r].at = "new"
    /\ IF Backed(r) /\ (backend = "s3" \/ manifests[CandidateOf[r]].by = Nobody)
       THEN runs' = [runs EXCEPT ![r].at = "publishing"]
       ELSE runs' = [runs EXCEPT ![r] = Failed(@)]
    /\ UNCHANGED <<backend, blobs, manifests, modelPointer>>

\* Mutant: the file is opened without O_EXCL.
MayPublishOver(r) == TRUE

MayPublish(r) == manifests[CandidateOf[r]].by = Nobody

PublishManifest(r) ==
    LET c == CandidateOf[r] IN
    /\ runs[r].at = "publishing"
    /\ IF MayPublish(r)
       THEN /\ manifests' = [manifests EXCEPT ![c] =
                   [by |-> r, state |-> IF backend = "s3" THEN "whole" ELSE "torn"]]
            /\ runs' = [runs EXCEPT ![r].at = IF backend = "s3" THEN "published" ELSE "finishing"]
       ELSE runs' = [runs EXCEPT ![r] = Failed(@)] /\ UNCHANGED manifests
    /\ UNCHANGED <<backend, blobs, modelPointer>>

FinishManifest(r) ==
    /\ runs[r].at = "finishing"
    /\ manifests' = [manifests EXCEPT ![CandidateOf[r]].state = "whole"]
    /\ runs' = [runs EXCEPT ![r].at = "published"]
    /\ UNCHANGED <<backend, blobs, modelPointer>>

\* The workflow returns the manifest, unless the model moved under an MLOps run;
\* its main writes the private manifest file, then the public commitment.
DeliverManifest(r) ==
    /\ runs[r].at = "published"
    /\ runs' = [runs EXCEPT ![r] =
         IF WorkflowRun[r] = "mlops" /\ @.pointer # modelPointer THEN Failed(@)
         ELSE [@ EXCEPT !.at = "delivered", !.files = "private"]]
    /\ UNCHANGED <<backend, blobs, manifests, modelPointer>>

CommitPublicly(r) ==
    /\ runs[r].at = "delivered"
    /\ runs' = [runs EXCEPT ![r].at = "done", ![r].pointer = 0, ![r].files = "committed"]
    /\ UNCHANGED <<backend, blobs, manifests, modelPointer>>

RunDies(r) ==
    /\ runs[r].at \notin {"new", "done", "failed"}
    /\ runs' = [runs EXCEPT ![r] = Failed(@)]
    /\ UNCHANGED <<backend, blobs, manifests, modelPointer>>

RegistryNext ==
    \/ ChooseBackend \/ TrainModel
    \/ \E r \in Runs :
        \/ StartMlops(r) \/ StartRagops(r) \/ StartLlmops(r) \/ CreateBlob(r) \/ WriteBlob(r)
        \/ \E b \in runs[r].todo : FindBlob(r, b) \/ MissBlob(r, b)
        \/ CheckManifest(r) \/ PublishManifest(r) \/ FinishManifest(r)
        \/ DeliverManifest(r) \/ CommitPublicly(r) \/ RunDies(r)

RegistrySpec == RegistryInit /\ [][RegistryNext]_registryVars

\* verify_manifest, which the promotion controller asks for a candidate.
Verified(c) == /\ manifests[c].state = "whole"
               /\ \A b \in BlobsOf[manifests[c].by] : blobs[b] = "whole"

-----------------------------------------------------------------------------
RegistryTypeOK ==
    /\ backend \in {"file", "s3"}
    /\ blobs \in [AllBlobs -> {"absent", "torn", "whole"}]
    /\ manifests \in [AllCandidates -> [by : Runs \cup {Nobody}, state : {"absent", "torn", "whole"}]]
    /\ runs \in [Runs -> [at : {"new", "blobs", "creating", "writing", "publishing", "finishing",
                                "published", "delivered", "done", "failed"},
                          todo : SUBSET AllBlobs, blob : AllBlobs \cup {Nobody},
                          pointer : 0 .. 1, files : {"none", "private", "committed"}]]
    /\ modelPointer \in 0 .. 1

\* A manifest that is in the registry can be verified: its blobs were whole
\* before it was published and nothing takes them away, whatever runs overlap,
\* prepare the same blobs or die half-way; and what a run published outside,
\* the private file and the public commitment, is of the registered manifest.
ManifestsAreBacked ==
    /\ \A c \in AllCandidates : manifests[c].state = "whole" => Verified(c)
    /\ \A r \in Runs : runs[r].files # "none" => /\ manifests[CandidateOf[r]].by = r
                                                /\ Verified(CandidateOf[r])

\* A candidate id belongs to the run that published it: nobody replaces it.
RegistryStep == \A c \in AllCandidates :
    manifests[c].by # Nobody => manifests'[c].by = manifests[c].by

ManifestsAreFinal == [][RegistryStep]_registryVars

\* The registry is sound: what it holds is backed, and stays whose it was.
RegistryIsSound == []ManifestsAreBacked /\ ManifestsAreFinal
=============================================================================
