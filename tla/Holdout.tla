-------------------------------- MODULE Holdout --------------------------------
(***************************************************************************)
(* The owner-accepted run on the frozen holdout. A receipt binds the files *)
(* until a day; a runner validates it, reads its digest, takes the one use *)
(* of that digest, evaluates, validates again and writes the report, with  *)
(* the receipt and the files read at each step anew. Runners overlap and   *)
(* die, files change and come back, the receipt is replaced, days pass. A  *)
(* digest is the content; one validation reads at one moment.              *)
(***************************************************************************)
EXTENDS Integers, Sequences

CONSTANTS
    Runners,       \* processes
    ReportPaths,   \* report paths
    Inputs,        \* the files that a receipt binds
    Editions,      \* contents that a file has
    MaximumDeadline, \* the last day a receipt may be valid until
    HoldoutEdits,  \* bound: changes of each file
    MaxReceipts    \* bound: receipts written

ASSUME HoldoutConstants ==
    /\ {MaximumDeadline, MaxReceipts} \subseteq Nat /\ HoldoutEdits \in [Inputs -> Nat]
    /\ "thresholds" \in Inputs

VARIABLES
    held,         \* the content of each file
    receipt,      \* the owner's file
    used,         \* markers: the receipts that were used
    reports,      \* reports[o]
    runners,      \* where a runner is
    today,
    receipts,     \* history: receipts written so far
    heldEdits,    \* history: heldEdits[f], how often the file changed
    evaluations   \* history: the receipts under which the holdout was evaluated

holdoutVars == <<held, receipt, used, reports, runners, today, receipts, heldEdits, evaluations>>

-----------------------------------------------------------------------------
Held == [Inputs -> Editions]
Receipts == [binds : Held, until : 1 .. MaximumDeadline]
NoReport == [written |-> FALSE]
Resting == [at |-> "resting"]

HoldoutInit ==
    /\ held \in Held /\ receipt \in Receipts
    /\ used = {} /\ evaluations = <<>>
    /\ reports = [o \in ReportPaths |-> NoReport]
    /\ runners = [r \in Runners |-> Resting]
    /\ today = 0 /\ receipts = 1 /\ heldEdits = [f \in Inputs |-> 0]

\* A file gets another content, which may be one it had.
EditHeld ==
    /\ \E f \in Inputs, content \in Editions :
         /\ content # held[f] /\ heldEdits[f] < HoldoutEdits[f]
         /\ held' = [held EXCEPT ![f] = content]
         /\ heldEdits' = [heldEdits EXCEPT ![f] = @ + 1]
    /\ UNCHANGED <<receipt, used, reports, runners, today, receipts, evaluations>>

DayPasses ==
    /\ today < MaximumDeadline /\ today' = today + 1
    /\ UNCHANGED <<held, receipt, used, reports, runners, receipts, heldEdits, evaluations>>

\* The owner writes a receipt, whoever runs.
Accept ==
    /\ receipts < MaxReceipts /\ receipts' = receipts + 1
    /\ receipt' \in Receipts
    /\ UNCHANGED <<held, used, reports, runners, today, heldEdits, evaluations>>

-----------------------------------------------------------------------------
RunnerAt(r, at) == runners[r].at = at
RunnerGoes(r, step) ==
    runners' = [runners EXCEPT ![r] = step] /\ UNCHANGED <<held, receipt, today, receipts, heldEdits>>

RunnerEnds(r) == ~ RunnerAt(r, "resting") /\ RunnerGoes(r, Resting) /\ UNCHANGED <<used, reports, evaluations>>

ValidateOwnerAcceptance == today < receipt.until /\ receipt.binds = held

\* `since` is history: what had been written when the run began.
RunOwnerAcceptedHoldout(r) ==
    /\ RunnerAt(r, "resting") /\ ValidateOwnerAcceptance
    /\ \E o \in ReportPaths :
         /\ ~ reports[o].written
         /\ RunnerGoes(r, [at |-> "digest", output |-> o, until |-> receipt.until,
                           since |-> [receipts |-> receipts, edits |-> heldEdits]])
    /\ UNCHANGED <<used, reports, evaluations>>

\* The digest is of the receipt as it is now.
ReadDigest(r) ==
    /\ RunnerAt(r, "digest")
    /\ RunnerGoes(r, [at |-> "mark", output |-> runners[r].output, until |-> runners[r].until,
                      since |-> runners[r].since, receipt |-> receipt])
    /\ UNCHANGED <<used, reports, evaluations>>

\* Mutant: the marker records the use.
MarkerKept(digest) == TRUE

\* The marker is created exclusively.
Unused0(digest) == digest \notin used

TakeUse(r) ==
    /\ RunnerAt(r, "mark") /\ Unused0(runners[r].receipt)
    /\ used' = used \cup {runners[r].receipt}
    /\ RunnerGoes(r, [runners[r] EXCEPT !.at = "run"])
    /\ UNCHANGED <<reports, evaluations>>

RunFrozenHoldout(r) ==
    /\ RunnerAt(r, "run")
    /\ evaluations' = Append(evaluations, runners[r].receipt)
    /\ \E stop \in BOOLEAN :
         RunnerGoes(r, IF stop THEN Resting ELSE
                       [at |-> "compare", output |-> runners[r].output, until |-> runners[r].until,
                        since |-> runners[r].since, receipt |-> runners[r].receipt,
                        evaluated |-> held])
    /\ UNCHANGED <<used, reports>>

\* The quality gate reads the thresholds when the evaluator is done.
ValidateComparison(r) ==
    /\ RunnerAt(r, "compare")
    /\ RunnerGoes(r, [runners[r] EXCEPT !.at = "complete",
                                        !.evaluated = [@ EXCEPT !["thresholds"] = held["thresholds"]]])
    /\ UNCHANGED <<used, reports, evaluations>>

\* Mutant: what was valid at the start is valid.
WasAccepted == TRUE

StillAccepted == ValidateOwnerAcceptance

\* The report names the receipt of the digest and the day of the first
\* validation; `replaced` and `edited` are history: what changed since.
Complete(r) ==
    /\ RunnerAt(r, "complete") /\ StillAccepted
    /\ RunnerGoes(r, [at |-> "write", output |-> runners[r].output, report |->
         [written |-> TRUE, receipt |-> runners[r].receipt, until |-> runners[r].until,
          evaluated |-> runners[r].evaluated, completed |-> today,
          replaced |-> receipts - runners[r].since.receipts,
          edited |-> [f \in Inputs |-> heldEdits[f] - runners[r].since.edits[f]]]])
    /\ UNCHANGED <<used, reports, evaluations>>

WriteOnce(r) ==
    /\ RunnerAt(r, "write") /\ ~ reports[runners[r].output].written
    /\ reports' = [reports EXCEPT ![runners[r].output] = runners[r].report]
    /\ RunnerGoes(r, Resting)
    /\ UNCHANGED <<used, evaluations>>

HoldoutNext ==
    \/ EditHeld \/ DayPasses \/ Accept
    \/ \E r \in Runners : RunnerEnds(r) \/ RunOwnerAcceptedHoldout(r) \/ ReadDigest(r) \/ TakeUse(r)
                          \/ RunFrozenHoldout(r) \/ ValidateComparison(r) \/ Complete(r) \/ WriteOnce(r)

HoldoutSpec == HoldoutInit /\ [][HoldoutNext]_holdoutVars

-----------------------------------------------------------------------------
HoldoutTypeOK ==
    /\ held \in Held /\ receipt \in Receipts /\ used \subseteq Receipts
    /\ \A o \in ReportPaths : reports[o].written \in BOOLEAN

\* What a report says of the receipt it names, when that was not replaced during
\* the run: it had not expired, and a file was evaluated with another content
\* than the owner accepted only if it was changed and changed back.
TrueToReceipt(report) ==
    report.replaced = 0 =>
        /\ report.until = report.receipt.until /\ report.completed < report.until
        /\ \A f \in Inputs : report.evaluated[f] = report.receipt.binds[f] \/ report.edited[f] >= 2

\* The holdout is evaluated once under a receipt, whoever runs, fails or dies,
\* and whichever receipt is put in its place; no receipt has two reports; and
\* each report is witnessed, up to what the second validation cannot see (it
\* takes the receipt of its moment, and content that is back for unchanged).
HoldoutIsSound ==
    /\ \A i, j \in DOMAIN evaluations : evaluations[i] = evaluations[j] => i = j
    /\ \A o \in ReportPaths : reports[o].written =>
        /\ TrueToReceipt(reports[o])
        /\ \A p \in ReportPaths :
              reports[p].written /\ reports[p].receipt = reports[o].receipt => p = o
=============================================================================
