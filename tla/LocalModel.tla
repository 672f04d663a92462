------------------------------ MODULE LocalModel ------------------------------
(***************************************************************************)
(* The local classifier: processes that train, promote, load and serve     *)
(* generations of one artifact directory. A training takes the lock of its *)
(* process and of the file system; a loader reads the pointer anew for     *)
(* every file; predictions of other threads read the model in memory       *)
(* between any two of its assignments. Processes die between any two steps.*)
(***************************************************************************)
EXTENDS Naturals, Sequences, FiniteSets

CONSTANTS
    Deployments,      \* settings that are tried: the environment, the evaluation profile, the gate
    Servers,          \* processes
    Threads,          \* their threads
    ServerOf,         \* ServerOf[t]: the process of a thread
    Quadrants,        \* the classes
    Defaults,         \* the training records of an empty store
    Additions,        \* bound: records that operators add
    EvaluationTexts,  \* the texts of the evaluation set
    Managers,         \* threads that get the calls that train
    Predictors,       \* threads that get the calls that classify
    MaxGenerations,   \* bound: promotions
    Edits,            \* bound: changes of the training store
    Deaths            \* bound: deaths

ASSUME LocalModelConstants ==
    /\ {MaxGenerations, Edits, Deaths} \subseteq Nat
    /\ ServerOf \in [Threads -> Servers] /\ "nobody" \notin Threads

VARIABLES
    records,     \* the training store
    edits,       \* its changes so far
    deployment,  \* the settings all processes start with
    published,   \* the generations that have their directory
    servedPointer,  \* the current generation, 0 if none
    flock,       \* the holder of the training lock in the file system
    memory,      \* memory[p]: the model in memory
    call,        \* call[t]: what the thread does
    died         \* deaths so far

modelVars == <<records, edits, deployment, published, servedPointer, flock, memory, call, died>>

-----------------------------------------------------------------------------
Nobody0 == "nobody"
Nothing == [at |-> "idle"]
Down == [up |-> "down", ready |-> FALSE, error |-> FALSE, head |-> 0, temperature |-> 0, generation |-> 0,
         index |-> 0, own |-> FALSE, approved |-> 0, lock |-> Nobody0]

ModelInit ==
    /\ records = Defaults /\ edits = 0
    /\ deployment = [chosen |-> FALSE]
    /\ published = << >>
    /\ servedPointer = 0 /\ flock = Nobody0
    /\ memory = [p \in Servers |-> Down]
    /\ call = [t \in Threads |-> Nothing]
    /\ died = 0

\* The evaluation that promotions need is a draft, approved or missing; owner
\* approval with a deadline replaces it, and settings may do without ("none").
Deploy ==
    /\ ~ deployment.chosen
    /\ \E d \in Deployments :
         deployment' = [chosen |-> TRUE, production |-> d.production, profile |-> d.profile,
                         gate |-> d.gate, expired |-> FALSE]
    /\ UNCHANGED <<records, edits, published, servedPointer, flock, memory, call, died>>

ApprovalExpires ==
    /\ deployment.chosen /\ deployment.gate = "owner" /\ deployment' = [deployment EXCEPT !.expired = TRUE]
    /\ UNCHANGED <<records, edits, published, servedPointer, flock, memory, call, died>>

ApprovalActive == ~ deployment.expired

-----------------------------------------------------------------------------
(* The training store; every call is under its file lock.                  *)

AddExamples ==
    /\ deployment.chosen /\ edits < Edits /\ edits' = edits + 1
    /\ \E r \in Additions : records' = records \cup {r}
    /\ UNCHANGED <<deployment, published, servedPointer, flock, memory, call, died>>

ClearExamples ==
    /\ deployment.chosen /\ edits < Edits /\ edits' = edits + 1
    /\ records' \in {Defaults, {}}
    /\ UNCHANGED <<deployment, published, servedPointer, flock, memory, call, died>>

\* Mutant: records that wait for review are data like others.
ReviewedOrNot(all) == {r \in all : \A s \in all : s.text = r.text => s.quadrant = r.quadrant}

\* Without records that wait for review, and without texts of two classes.
CleanTrainingRecords(all) ==
    LET reviewed == {r \in all : ~ r.pending} IN
    {r \in reviewed : \A s \in reviewed : s.text = r.text => s.quadrant = r.quadrant}

-----------------------------------------------------------------------------
(* Threads.                                                                *)

Mine(t) == memory[ServerOf[t]]
SetMine(t, m) == memory' = [memory EXCEPT ![ServerOf[t]] = m]
AtStep(t, at) == call[t].at = at
Goes(t, at) == call' = [call EXCEPT ![t].at = at]
Unlocked(m) == [m EXCEPT !.lock = Nobody0]
NotReady(m) == [m EXCEPT !.head = 0, !.index = 0, !.ready = FALSE]

\* A call that raises: a process starts all the same, and says why it is not ready.
Raises(t, m) ==
    /\ SetMine(t, IF call[t].kind = "startup" THEN [NotReady(Unlocked(m)) EXCEPT !.up = "up", !.error = TRUE]
                  ELSE Unlocked(m))
    /\ call' = [call EXCEPT ![t] = Nothing]
    /\ flock' = IF flock = t THEN Nobody0 ELSE flock

\* The digest in its settings is the pointer's, or none.
StartProcess(t) ==
    /\ t \in Managers /\ deployment.chosen /\ Mine(t).up = "down"
    /\ \E approved \in {0, servedPointer} :
         LET m == [Down EXCEPT !.up = "starting", !.approved = approved] IN
         IF servedPointer # 0
         THEN SetMine(t, m) /\ call' = [call EXCEPT ![t] = [at |-> "load", kind |-> "startup"]]
         ELSE IF deployment.production
         THEN SetMine(t, [m EXCEPT !.up = "up", !.error = TRUE]) /\ UNCHANGED call
         ELSE SetMine(t, m) /\ call' = [call EXCEPT ![t] =
                [at |-> "waiting", kind |-> "startup", data |-> CleanTrainingRecords(records)]]
    /\ UNCHANGED <<records, edits, deployment, published, servedPointer, flock, died>>

-----------------------------------------------------------------------------
(* Training.                                                               *)

Retrain(t) ==
    /\ t \in Managers /\ Mine(t).up = "up" /\ AtStep(t, "idle") /\ Len(published) < MaxGenerations
    /\ call' = [call EXCEPT ![t] = [at |-> "waiting", kind |-> "retrain", data |-> CleanTrainingRecords(records)]]
    /\ UNCHANGED <<records, edits, deployment, published, servedPointer, flock, memory, died>>

AcquireTraining(t) ==
    /\ AtStep(t, "waiting") /\ Mine(t).lock = Nobody0 /\ flock = Nobody0
    /\ SetMine(t, [Mine(t) EXCEPT !.lock = t]) /\ flock' = t
    /\ Goes(t, "training")
    /\ UNCHANGED <<records, edits, deployment, published, servedPointer, died>>

\* Embeddings, optimisation, early stopping and calibration see only the data.
Covered(data) == {r.quadrant : r \in data} = Quadrants

\* The evaluation must exist, be disjoint from the data and, in the production
\* profile (a setting apart from the environment), be approved under its digest.
Evaluates(data) ==
    deployment.gate \in {"draft", "approved"} /\ {r.text : r \in data} \cap EvaluationTexts = {}

\* Mutant: governance is reported, not required.
MayPassUngoverned == TRUE

MayPass == deployment.profile = "production" => deployment.gate = "approved"

\* Macro F1, calibration and regression against the incumbent, of any data.
Assessments == {"sufficient", "insufficient"}

\* A candidate that fails the gate leaves the incumbent, if there is one.
Rejected(t) ==
    IF Mine(t).head = 0 THEN Raises(t, NotReady(Mine(t)))
    ELSE /\ SetMine(t, [Unlocked(Mine(t)) EXCEPT !.error = FALSE])
         /\ call' = [call EXCEPT ![t] = Nothing] /\ flock' = Nobody0

\* The candidate gets an id of its own.
Passed(t) ==
    /\ Len(published) < MaxGenerations
    /\ call' = [call EXCEPT ![t] = [at |-> "writing", kind |-> call[t].kind, data |-> call[t].data,
                                    candidate |-> Len(published) + 1]]
    /\ UNCHANGED <<memory, flock>>

Judge(t) ==
    /\ AtStep(t, "training")
    /\ LET data == call[t].data IN
       IF data = {} THEN Raises(t, [Mine(t) EXCEPT !.ready = FALSE])
       ELSE IF ~ Covered(data) THEN Raises(t, [Mine(t) EXCEPT !.ready = Mine(t).head # 0])
       ELSE IF deployment.gate = "owner" THEN IF ApprovalActive THEN Passed(t) ELSE Raises(t, Mine(t))
       ELSE IF deployment.gate = "none" THEN Passed(t)
       ELSE IF ~ Evaluates(data) THEN Raises(t, Mine(t))
       ELSE \E metrics \in Assessments : IF metrics = "sufficient" /\ MayPass THEN Passed(t) ELSE Rejected(t)
    /\ UNCHANGED <<records, edits, deployment, published, servedPointer, died>>

\* The candidate's directory gets its final name when all of its files are in it.
PublishGeneration(t) ==
    /\ AtStep(t, "writing")
    /\ published' = Append(published, [data |-> call[t].data, gate |-> deployment.gate])
    /\ Goes(t, "published")
    /\ UNCHANGED <<records, edits, deployment, servedPointer, flock, memory, died>>

\* Mutant: the pointer first.
PointsAtOnce(t) == call[t].at \in {"writing", "published"}

ReadyToPoint(t) == AtStep(t, "published")

\* A prediction that is being made sees the pointer move.
Sees(c, generation) == IF "seen" \in DOMAIN c THEN [c EXCEPT !.seen = c.seen \cup {generation}] ELSE c

MovePointer(t) ==
    /\ ReadyToPoint(t)
    /\ servedPointer' = call[t].candidate
    /\ call' = [u \in Threads |-> IF u = t THEN [call[t] EXCEPT !.at = "head_of_own"] ELSE Sees(call[u], call[t].candidate)]
    /\ UNCHANGED <<records, edits, deployment, published, flock, memory, died>>

AdoptHead(t) ==
    /\ AtStep(t, "head_of_own")
    /\ SetMine(t, [Mine(t) EXCEPT !.head = call[t].candidate, !.own = TRUE]) /\ Goes(t, "rest_of_own")
    /\ UNCHANGED <<records, edits, deployment, published, servedPointer, flock, died>>

AdoptRest(t) ==
    /\ AtStep(t, "rest_of_own")
    /\ SetMine(t, [Mine(t) EXCEPT !.temperature = call[t].candidate, !.generation = call[t].candidate]) /\ Goes(t, "index_of_own")
    /\ UNCHANGED <<records, edits, deployment, published, servedPointer, flock, died>>

AdoptIndex(t) ==
    /\ AtStep(t, "index_of_own")
    /\ SetMine(t, [Unlocked(Mine(t)) EXCEPT !.index = call[t].candidate, !.ready = TRUE, !.error = FALSE, !.up = "up"])
    /\ call' = [call EXCEPT ![t] = Nothing] /\ flock' = Nobody0
    /\ UNCHANGED <<records, edits, deployment, published, servedPointer, died>>

-----------------------------------------------------------------------------
(* Loading. Every file is opened through the pointer as it is then.              *)

LoadMetadata(t) ==
    /\ AtStep(t, "load")
    /\ call' = [call EXCEPT ![t] = [at |-> "metadata", kind |-> call[t].kind, meta |-> servedPointer,
                                    seen |-> IF call[t].kind = "predict" THEN call[t].seen ELSE {}]]
    /\ UNCHANGED <<records, edits, deployment, published, servedPointer, flock, memory, died>>

Approved(t) == deployment.production => Mine(t).approved = servedPointer

\* The checksums of the three files, against the pointer and the metadata.
ValidateChecksums(t) ==
    /\ AtStep(t, "metadata")
    /\ IF call[t].meta = servedPointer /\ Approved(t)
       THEN Goes(t, "head") /\ UNCHANGED <<memory, flock>>
       ELSE Raises(t, Mine(t))
    /\ UNCHANGED <<records, edits, deployment, published, servedPointer, died>>

LoadHead(t) ==
    /\ AtStep(t, "head")
    /\ SetMine(t, [Mine(t) EXCEPT !.head = servedPointer, !.own = FALSE]) /\ Goes(t, "rest")
    /\ UNCHANGED <<records, edits, deployment, published, servedPointer, flock, died>>

LoadRest(t) ==
    /\ AtStep(t, "rest")
    /\ SetMine(t, [Mine(t) EXCEPT !.temperature = call[t].meta, !.generation = call[t].meta]) /\ Goes(t, "index")
    /\ UNCHANGED <<records, edits, deployment, published, servedPointer, flock, died>>

LoadIndex(t) ==
    /\ AtStep(t, "index")
    /\ SetMine(t, [Unlocked(Mine(t)) EXCEPT !.index = servedPointer, !.ready = TRUE, !.up = "up"])
    /\ call' = [call EXCEPT ![t] = IF call[t].kind = "startup" THEN Nothing
                                   ELSE [at |-> "asked", kind |-> "predict", seen |-> call[t].seen]]
    /\ UNCHANGED <<records, edits, deployment, published, servedPointer, flock, died>>

-----------------------------------------------------------------------------
(* Predictions.                                                            *)

Active(m) == m.up = "up" /\ m.ready /\ ~ m.error /\ ApprovalActive

Predict(t) ==
    /\ t \in Predictors /\ AtStep(t, "idle") /\ Active(Mine(t))
    /\ call' = [call EXCEPT ![t] = [at |-> "refresh", kind |-> "predict", seen |-> {servedPointer}]]
    /\ UNCHANGED <<records, edits, deployment, published, servedPointer, flock, memory, died>>

UpToDate(t) == servedPointer \in {0, Mine(t).generation}

RefreshIfGenerationChanged(t) ==
    /\ AtStep(t, "refresh")
    /\ IF UpToDate(t) THEN Goes(t, "asked") /\ UNCHANGED memory
       ELSE Mine(t).lock = Nobody0 /\ SetMine(t, [Mine(t) EXCEPT !.lock = t]) /\ Goes(t, "load")
    /\ UNCHANGED <<records, edits, deployment, published, servedPointer, flock, died>>

\* A task of blanks raises what the service takes for an error of the model.
RefuseBlank(t) ==
    /\ AtStep(t, "asked") /\ Active(Mine(t))
    /\ SetMine(t, [Mine(t) EXCEPT !.error = TRUE]) /\ call' = [call EXCEPT ![t] = Nothing]
    /\ UNCHANGED <<records, edits, deployment, published, servedPointer, flock, died>>

RequireReady(t) == ApprovalActive /\ Mine(t).ready /\ Mine(t).head # 0

ComputeLogits(t) ==
    /\ AtStep(t, "asked")
    /\ call' = [call EXCEPT ![t] =
                 IF RequireReady(t) THEN [at |-> "scale", kind |-> "predict", seen |-> call[t].seen, head |-> Mine(t).head]
                 ELSE Nothing]
    /\ UNCHANGED <<records, edits, deployment, published, servedPointer, flock, memory, died>>

ScaleAndAnswer(t) ==
    /\ AtStep(t, "scale")
    /\ call' = [call EXCEPT ![t] = [at |-> "answered", kind |-> "predict", seen |-> call[t].seen, head |-> call[t].head,
                                    temperature |-> Mine(t).temperature]]
    /\ UNCHANGED <<records, edits, deployment, published, servedPointer, flock, memory, died>>

Answered(t) ==
    /\ AtStep(t, "answered") /\ call' = [call EXCEPT ![t] = Nothing]
    /\ UNCHANGED <<records, edits, deployment, published, servedPointer, flock, memory, died>>

\* The lock of the file system dies with its holder.
ServerDies(p) ==
    /\ died < Deaths /\ memory[p].up # "down" /\ died' = died + 1
    /\ memory' = [memory EXCEPT ![p] = Down]
    /\ call' = [t \in Threads |-> IF ServerOf[t] = p THEN Nothing ELSE call[t]]
    /\ flock' = IF flock # Nobody0 /\ ServerOf[flock] = p THEN Nobody0 ELSE flock
    /\ UNCHANGED <<records, edits, deployment, published, servedPointer>>

ModelNext ==
    \/ Deploy \/ ApprovalExpires \/ AddExamples \/ ClearExamples
    \/ \E p \in Servers : ServerDies(p)
    \/ \E t \in Threads :
        \/ StartProcess(t) \/ Retrain(t) \/ AcquireTraining(t) \/ Judge(t) \/ PublishGeneration(t) \/ MovePointer(t)
        \/ AdoptHead(t) \/ AdoptRest(t) \/ AdoptIndex(t)
        \/ LoadMetadata(t) \/ ValidateChecksums(t) \/ LoadHead(t) \/ LoadRest(t) \/ LoadIndex(t)
        \/ Predict(t) \/ RefreshIfGenerationChanged(t) \/ RefuseBlank(t) \/ ComputeLogits(t)
        \/ ScaleAndAnswer(t) \/ Answered(t)

ModelSpec == ModelInit /\ [][ModelNext]_modelVars

-----------------------------------------------------------------------------
ModelTypeOK ==
    /\ servedPointer \in 0 .. MaxGenerations /\ DOMAIN published \subseteq 1 .. MaxGenerations
    /\ flock \in Threads \cup {Nobody0}
    /\ \A p \in Servers : memory[p].head \in 0 .. MaxGenerations /\ memory[p].up \in {"down", "starting", "up"}

\* The pointer names a generation that has its directory and was trained on
\* reviewed records of every class, without contradictions, apart from the
\* evaluation that let it pass, which is no draft in the production profile. A process that
\* is not loading or training and has the pointer's generation has its head, its
\* temperature and its index. An answer has head and temperature of generations
\* that were the pointer while it was made, and in production, if the pointer did
\* not move, of the approved one or of a training of this process.
ServedModelIsSound ==
    /\ servedPointer # 0 =>
         /\ servedPointer \in DOMAIN published
         /\ LET g == published[servedPointer] IN
            /\ Covered(g.data)
            /\ \A r, s \in g.data : ~ r.pending /\ (r.text = s.text => r.quadrant = s.quadrant)
            /\ g.gate \in {"draft", "approved"} => {r.text : r \in g.data} \cap EvaluationTexts = {}
            /\ deployment.profile = "production" => g.gate \in {"owner", "approved", "none"}
    /\ \A p \in Servers : LET m == memory[p] IN
         m.up = "up" /\ m.lock = Nobody0 /\ m.ready /\ m.generation = servedPointer /\ servedPointer # 0 =>
            {m.head, m.temperature, m.index} = {servedPointer}
    /\ \A t \in Threads : AtStep(t, "answered") =>
         /\ {call[t].head, call[t].temperature} \subseteq call[t].seen
         /\ deployment.production /\ Cardinality(call[t].seen) = 1 =>
              call[t].head = Mine(t).approved \/ Mine(t).own
=============================================================================
