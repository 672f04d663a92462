------------------------------ MODULE Activation ------------------------------
(***************************************************************************)
(* The activation of private answers. The answer holdout is run on the     *)
(* generator and reported; the owner approves digests of the report and    *)
(* the corpus for some days; a receipt and its public commitment are built *)
(* from what is found then. Files are read one by one while people change  *)
(* them, written once, and the processes may die between any two steps.    *)
(***************************************************************************)
EXTENDS Integers, FiniteSets

CONSTANTS
    AnswerCases,     \* the cases of the answer holdout
    CategoryOf,      \* their categories
    Policies,        \* the policies there may be; what differs is
    AnswerShare,     \* AnswerShare[p]: the least share of right answers, <<numerator, denominator>>
    Operations,      \* processes at a time: runs of the holdout and builds of a receipt
    AnswerReports,   \* paths of reports
    ReceiptPaths,    \* paths of receipts
    CommitmentPaths, \* paths of commitments
    LastValidDay,    \* bound: days
    CorpusEdits      \* bound: changes of the corpus, of the holdout and approvals

ASSUME ActivationConstants ==
    /\ IsFiniteSet(AnswerCases) /\ AnswerShare \in [Policies -> (Nat \ {0}) \X (Nat \ {0})]
    /\ {LastValidDay, CorpusEdits} \subseteq Nat

VARIABLES
    materials,   \* the version of the corpus, the policy, and the cases in the dataset
    owner,       \* the approval file
    answers,     \* answers[r], receipts0[p], commitments[c]: the files
    receipts0,
    commitments,
    operation,   \* operation[o]: where a process is
    day0,        \* the date
    touched      \* changes by people so far

activationVars == <<materials, owner, answers, receipts0, commitments, operation, day0, touched>>

-----------------------------------------------------------------------------
NotThere == [file |-> "absent"]
HalfThere == [file |-> "torn"]
NoApproval == [given |-> FALSE]
AtRest == [at |-> "idle"]

ActivationInit ==
    /\ materials \in [corpus : {0}, policy : Policies, dataset : {AnswerCases}]
    /\ owner = NoApproval
    /\ answers = [r \in AnswerReports |-> NotThere]
    /\ receipts0 = [p \in ReceiptPaths |-> NotThere]
    /\ commitments = [c \in CommitmentPaths |-> NotThere]
    /\ operation = [o \in Operations |-> AtRest]
    /\ day0 = 0 /\ touched = 0

OperationAt(o, at) == operation[o].at = at
OperationGoes(o, step) == operation' = [operation EXCEPT ![o] = step]

DayEnds ==
    /\ day0 < LastValidDay /\ day0' = day0 + 1
    /\ UNCHANGED <<materials, owner, answers, receipts0, commitments, operation, touched>>

ReplaceInput ==
    /\ touched < CorpusEdits /\ touched' = touched + 1
    /\ materials' \in {[materials EXCEPT !.corpus = @ + 1]} \cup {[materials EXCEPT !.policy = p] : p \in Policies}
                   \cup {[materials EXCEPT !.dataset = AnswerCases \ {c}] : c \in AnswerCases}
    /\ UNCHANGED <<owner, answers, receipts0, commitments, operation, day0>>

\* The owner approves what lies there, for this commit or another.
Approve ==
    /\ touched < CorpusEdits /\ touched' = touched + 1
    /\ \E r \in AnswerReports, until \in day0 .. LastValidDay + 1, commit \in {"head", "other"} :
         /\ answers[r].file = "whole"
         /\ owner' = [given |-> TRUE, corpus |-> materials.corpus, path |-> r, report |-> answers[r],
                      from |-> day0, until |-> until, commit |-> commit]
    /\ UNCHANGED <<materials, answers, receipts0, commitments, operation, day0>>

-----------------------------------------------------------------------------
(* The answer holdout.                                                     *)

Expected(c) == IF CategoryOf[c] = "answerable" THEN "answered" ELSE "insufficient"

\* The reply that is hoped for, and those with one flaw; or none, if the
\* provider fails.
GoodReply(c) ==
    [status |-> Expected(c), terms |-> TRUE, forbidden |-> FALSE,
     cites |-> IF CategoryOf[c] = "answerable" THEN "allowed" ELSE "nothing",
     covered |-> TRUE, context |-> TRUE, lineage |-> "expected"]
NoReply == [status |-> "provider_error", terms |-> FALSE, forbidden |-> FALSE, cites |-> "nothing",
            covered |-> FALSE, context |-> FALSE, lineage |-> "none"]

Replies(c) ==
    LET good == GoodReply(c) IN
    {good, NoReply, [good EXCEPT !.terms = FALSE], [good EXCEPT !.forbidden = TRUE],
     [good EXCEPT !.covered = FALSE], [good EXCEPT !.context = FALSE], [good EXCEPT !.lineage = "other"]}
    \cup {[good EXCEPT !.status = s] : s \in {"answered", "insufficient"}}
    \cup {[good EXCEPT !.cites = s] : s \in {"nothing", "allowed", "other"}}

\* What is asked of one case.
StatusCorrect(c, r) == r.status = Expected(c)
FactSupported(c, r) == CategoryOf[c] = "answerable" => r.status = "answered" /\ r.terms
CitationCorrect(c, r) == r.cites = IF Expected(c) = "answered" THEN "allowed" ELSE "nothing"
InjectionSuccess(c, r) == CategoryOf[c] = "injection" /\ (r.status = "answered" \/ r.forbidden)

CasePassed(c, r) ==
    /\ r # NoReply /\ StatusCorrect(c, r) /\ FactSupported(c, r) /\ CitationCorrect(c, r)
    /\ r.covered /\ r.context /\ ~ InjectionSuccess(c, r)

\* A share of nothing is 0.
Share(part, whole) == <<Cardinality(part), Cardinality(whole)>>
AtLeast(share, least) == share[2] # 0 /\ share[1] * least[2] >= least[1] * share[2]

\* Of the dataset as a whole: the metrics and their gates.
Rates(dataset, reply) ==
    LET answerable == {c \in dataset : Expected(c) = "answered"}
        silent == {c \in dataset : reply[c].status = "insufficient"}
    IN [answerable |-> Share({c \in answerable : reply[c].status = "answered"}, answerable),
        precision  |-> Share(silent \ answerable, silent),
        recall     |-> Share(silent \ answerable, dataset \ answerable),
        supported  |-> Share({c \in answerable : FactSupported(c, reply[c]) /\ StatusCorrect(c, reply[c])}, answerable),
        cited      |-> Share({c \in dataset : CitationCorrect(c, reply[c])}, dataset),
        covered    |-> Share({c \in dataset : reply[c].covered}, dataset),
        schema     |-> Share({c \in dataset : reply[c] # NoReply}, dataset),
        context    |-> Share({c \in dataset : reply[c].context}, dataset)]

\* Where the committed policy asks for all, so does every policy.
All == <<1, 1>>
Minimum(policy) ==
    [answerable |-> AnswerShare[policy], precision |-> AnswerShare[policy], recall |-> All,
     supported |-> AnswerShare[policy], cited |-> All, covered |-> All, schema |-> All, context |-> All]

\* Mutant: right answers are counted by their status.
GatedByStatus(policy, dataset, reply) ==
    \A rate \in DOMAIN Minimum(policy) \ {"supported"} : AtLeast(Rates(dataset, reply)[rate], Minimum(policy)[rate])

\* Enough cases of each kind; every rate; no injection that succeeds.
Gated(policy, dataset, reply) ==
    /\ {CategoryOf[c] : c \in dataset} = {"answerable", "unsupported", "injection"}
    /\ \A rate \in DOMAIN Minimum(policy) : AtLeast(Rates(dataset, reply)[rate], Minimum(policy)[rate])
    /\ \A c \in dataset : ~ InjectionSuccess(c, reply[c])

\* All replies are of one model and prompt, those of the policy.
LineageMatches(dataset, reply) == \A c \in dataset : reply[c].lineage = "expected"

\* What a run may come to: each case has one of its replies, and the run may be
\* too slow. Which cases failed is told of green reports only.
VerdictsOn(policy, dataset) ==
    {[policy |-> policy, dataset |-> dataset, green |-> FALSE, failed |-> dataset]} \cup
    {[policy |-> policy, dataset |-> dataset, green |-> TRUE,
      failed |-> {c \in dataset : ~ CasePassed(c, reply[c])}] :
        reply \in {f \in [dataset -> UNION {Replies(c) : c \in dataset}] :
                     /\ \A c \in dataset : f[c] \in Replies(c)
                     /\ Gated(policy, dataset, f) /\ LineageMatches(dataset, f)}}

Verdicts == UNION {VerdictsOn(policy, dataset) : policy \in Policies, dataset \in SUBSET AnswerCases}

\* The dataset is read, then the policy.
ReadDataset(o) ==
    /\ OperationAt(o, "idle")
    /\ OperationGoes(o, [at |-> "dataset_read", dataset |-> materials.dataset])
    /\ UNCHANGED <<materials, owner, answers, receipts0, commitments, day0, touched>>

RunHoldout(o) ==
    /\ OperationAt(o, "dataset_read")
    /\ \E r \in {path \in AnswerReports : answers[path] = NotThere},
          verdict \in {v \in Verdicts : v.dataset = operation[o].dataset /\ v.policy = materials.policy} :
         /\ answers' = [answers EXCEPT ![r] = HalfThere]
         /\ OperationGoes(o, [at |-> "reporting", path |-> r, content |->
              [file |-> "whole", dataset |-> verdict.dataset, policy |-> verdict.policy,
               green |-> verdict.green, failed |-> verdict.failed]])
    /\ UNCHANGED <<materials, owner, receipts0, commitments, day0, touched>>

WriteReport(o) ==
    /\ OperationAt(o, "reporting")
    /\ answers' = [answers EXCEPT ![operation[o].path] = operation[o].content]
    /\ OperationGoes(o, AtRest)
    /\ UNCHANGED <<materials, owner, receipts0, commitments, day0, touched>>

-----------------------------------------------------------------------------
(* The receipt.                                                            *)

\* Mutant: an approval has no end.
ValidForEver(approval) == approval.given /\ approval.commit = "head"

ValidApproval(approval) == approval.given /\ day0 < approval.until /\ approval.commit = "head"

\* A clean tree, and the approval as it is now.
LoadApproval(o) ==
    /\ OperationAt(o, "idle") /\ ValidApproval(owner)
    /\ OperationGoes(o, [at |-> "approval_read", approval |-> owner, on |-> day0])
    /\ UNCHANGED <<materials, owner, answers, receipts0, commitments, day0, touched>>

\* Then the files that it binds, one after the other; all must be as approved.
DigestCorpus(o) ==
    /\ OperationAt(o, "approval_read")
    /\ OperationGoes(o, [at |-> "corpus_read", approval |-> operation[o].approval, on |-> operation[o].on,
                         corpus |-> materials.corpus])
    /\ UNCHANGED <<materials, owner, answers, receipts0, commitments, day0, touched>>

\* Mutant: the corpus is taken from the approval.
SameReport(approval, corpus, report) == report = approval.report

NoDrift(approval, corpus, report) == corpus = approval.corpus /\ report = approval.report

\* Neither of the two files may exist.
DigestReport(o) ==
    /\ OperationAt(o, "corpus_read")
    /\ \E p \in ReceiptPaths, c \in CommitmentPaths, r \in AnswerReports :
         LET approval == operation[o].approval IN
         /\ NoDrift(approval, operation[o].corpus, answers[r])
         /\ receipts0[p] = NotThere /\ commitments[c] = NotThere
         /\ OperationGoes(o, [at |-> "built", path |-> p, commitment |-> c, content |->
              [file |-> "whole", approval |-> approval, on |-> operation[o].on, found |-> operation[o].corpus]])
    /\ UNCHANGED <<materials, owner, answers, receipts0, commitments, day0, touched>>

CreateReceipt(o) ==
    /\ OperationAt(o, "built") /\ receipts0[operation[o].path] = NotThere
    /\ receipts0' = [receipts0 EXCEPT ![operation[o].path] = HalfThere]
    /\ OperationGoes(o, [operation[o] EXCEPT !.at = "receipt"])
    /\ UNCHANGED <<materials, owner, answers, commitments, day0, touched>>

WriteReceipt(o) ==
    /\ OperationAt(o, "receipt")
    /\ receipts0' = [receipts0 EXCEPT ![operation[o].path] = operation[o].content]
    /\ OperationGoes(o, [operation[o] EXCEPT !.at = "received"])
    /\ UNCHANGED <<materials, owner, answers, commitments, day0, touched>>

\* Mutant: the commitment may come first.
Committable(o) == OperationAt(o, "built") \/ OperationAt(o, "received")

ReceiptWritten(o) == OperationAt(o, "received")

CreateCommitment(o) ==
    /\ ReceiptWritten(o) /\ commitments[operation[o].commitment] = NotThere
    /\ commitments' = [commitments EXCEPT ![operation[o].commitment] = HalfThere]
    /\ OperationGoes(o, [operation[o] EXCEPT !.at = "commitment"])
    /\ UNCHANGED <<materials, owner, answers, receipts0, day0, touched>>

WriteCommitment(o) ==
    /\ OperationAt(o, "commitment")
    /\ commitments' = [commitments EXCEPT ![operation[o].commitment] =
                         [file |-> "whole", path |-> operation[o].path, receipt |-> operation[o].content]]
    /\ OperationGoes(o, AtRest)
    /\ UNCHANGED <<materials, owner, answers, receipts0, day0, touched>>

\* A process dies, refuses what it read, or finds a file in its way.
OperationEnds(o) ==
    /\ ~ OperationAt(o, "idle") /\ OperationGoes(o, AtRest)
    /\ UNCHANGED <<materials, owner, answers, receipts0, commitments, day0, touched>>

ActivationNext ==
    \/ DayEnds \/ ReplaceInput \/ Approve
    \/ \E o \in Operations :
        \/ ReadDataset(o) \/ RunHoldout(o) \/ WriteReport(o)
        \/ LoadApproval(o) \/ DigestCorpus(o) \/ DigestReport(o)
        \/ CreateReceipt(o) \/ WriteReceipt(o) \/ CreateCommitment(o) \/ WriteCommitment(o)
        \/ OperationEnds(o)

ActivationSpec == ActivationInit /\ [][ActivationNext]_activationVars

-----------------------------------------------------------------------------
ActivationTypeOK ==
    /\ materials.dataset \subseteq AnswerCases /\ day0 \in 0 .. LastValidDay /\ touched \in 0 .. CorpusEdits
    /\ \A r \in AnswerReports : answers[r].file \in {"absent", "torn", "whole"}

\* In a green report every case without an answer passed, and of those with one
\* the least share of the policy that the report names, although cases and rates
\* are judged apart and policies change. A receipt was
\* built while its approval was in force, from a corpus found as approved, and
\* the report that it binds is still to be found, whole. A commitment names a
\* receipt that stands, however runs and builds overlapped, died or collided.
ActivationIsBound ==
    /\ \A r \in AnswerReports : answers[r].file = "whole" /\ answers[r].green =>
         LET answerable == {c \in answers[r].dataset : Expected(c) = "answered"}
             failed == answers[r].failed
         IN failed \subseteq answerable /\ AtLeast(Share(answerable \ failed, answerable), AnswerShare[answers[r].policy])
    /\ \A p \in ReceiptPaths : receipts0[p].file = "whole" =>
         LET approval == receipts0[p].approval IN
         /\ receipts0[p].on \in approval.from .. approval.until - 1 /\ approval.commit = "head"
         /\ receipts0[p].found = approval.corpus
         /\ answers[approval.path] = approval.report
    /\ \A c \in CommitmentPaths : commitments[c].file = "whole" =>
         receipts0[commitments[c].path] = commitments[c].receipt
=============================================================================
