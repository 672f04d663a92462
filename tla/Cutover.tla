------------------------------- MODULE Cutover -------------------------------
(***************************************************************************)
(* The Qdrant alias that retrieval reads through: the backfill of the      *)
(* candidate collection, and the audited cutover and rollback of the       *)
(* alias. Calls to Qdrant and to the audit database fail, before or after  *)
(* they took effect; processes die between calls; operators overlap.       *)
(***************************************************************************)
EXTENDS Naturals

CONSTANTS
    Operators,   \* operators at the cutover command
    Documents,   \* canonical documents to backfill
    Failures     \* bound: failed calls and deaths

ASSUME CutoverConstants == Failures \in Nat

VARIABLES
    alias,       \* the collection behind the alias
    candidate,   \* the documents projected into the candidate collection
    canonical,   \* the living canonical documents
    todo,        \* documents the running backfill has yet to project
    commands,    \* commands[o]: the command of operator o
    audited,     \* where the last success in the ledger left the alias
    reported,    \* history: where the last command that reported success left it
    doubtful,    \* history: the last success in the ledger was reported as a failure
    certain,     \* history: nothing the operators were not told of moved the alias
    failures

cutoverVars == <<alias, candidate, canonical, todo, commands, audited, reported, doubtful,
                 certain, failures>>

-----------------------------------------------------------------------------
Collections == {"legacy", "candidate"}
Source(action) == IF action = "cutover" THEN "legacy" ELSE "candidate"
Target(action) == IF action = "cutover" THEN "candidate" ELSE "legacy"

NoCommand == [at |-> "idle", action |-> "cutover", alone |-> TRUE]

CutoverInit ==
    /\ alias = "legacy" /\ audited = "legacy" /\ reported = "legacy"
    /\ doubtful = FALSE /\ certain = TRUE
    /\ candidate = {} /\ canonical = Documents /\ todo = {}
    /\ commands = [o \in Operators |-> NoCommand]
    /\ failures = 0

Fails == failures < Failures /\ failures' = failures + 1
Works == UNCHANGED failures

-----------------------------------------------------------------------------
(* The backfill: refused once the alias names the candidate.               *)

UnchangedByBackfill == UNCHANGED <<alias, commands, audited, reported, doubtful, certain>>

StartBackfill ==
    /\ todo = {} /\ alias # "candidate"
    /\ todo' = Documents
    /\ UNCHANGED <<candidate, canonical, failures>> /\ UnchangedByBackfill

\* A document is projected, tombstoned, or counted as failed.
Backfill(d) ==
    /\ d \in todo
    /\ todo' = todo \ {d}
    /\ \/ Works /\ candidate' = IF d \in canonical THEN candidate \cup {d} ELSE candidate \ {d}
       \/ Fails /\ UNCHANGED candidate
    /\ UNCHANGED canonical /\ UnchangedByBackfill

Tombstone(d) ==
    /\ d \in canonical
    /\ canonical' = canonical \ {d}
    /\ UNCHANGED <<candidate, todo, failures>> /\ UnchangedByBackfill

-----------------------------------------------------------------------------
(* apply_audited: preflight, attempt, activate, read back, result. Nothing *)
(* keeps two commands apart; a command is alone as long as none overlaps.  *)

CommandOver(o) == commands[o].at = "idle"
At(o, at) == commands' = [commands EXCEPT ![o].at = at]
UnchangedByCommand == UNCHANGED <<candidate, canonical, todo>>

Preflight(o) ==
    /\ CommandOver(o)
    /\ \E action \in {"cutover", "rollback"} :
         /\ alias = Source(action)
         /\ IF \A p \in Operators : CommandOver(p)
            THEN /\ commands' = [commands EXCEPT
                       ![o] = [at |-> "attempted", action |-> action, alone |-> TRUE]]
                 /\ UNCHANGED certain
            ELSE /\ commands' = [p \in Operators |->
                       IF p = o THEN [at |-> "attempted", action |-> action, alone |-> FALSE]
                                ELSE [commands[p] EXCEPT !.alone = FALSE]]
                 /\ certain' = FALSE
    /\ UNCHANGED <<alias, audited, reported, doubtful, failures>> /\ UnchangedByCommand

\* activate looks at the alias, and only then replaces it.
Check(o) ==
    /\ commands[o].at = "attempted"
    /\ \/ Works /\ alias = Source(commands[o].action) /\ At(o, "checked")
       \/ Works /\ alias # Source(commands[o].action) /\ At(o, "failed")
       \/ Fails /\ At(o, "failed")
    /\ UNCHANGED <<alias, audited, reported, doubtful, certain>> /\ UnchangedByCommand

\* Delete and create in one batch, which fails before or after it took effect.
Switch(o) ==
    /\ commands[o].at = "checked"
    /\ \/ Works /\ At(o, "switched") /\ alias' = Target(commands[o].action)
       \/ Fails /\ At(o, "failed") /\ alias' \in {alias, Target(commands[o].action)}
    /\ UNCHANGED <<audited, reported, doubtful, certain>> /\ UnchangedByCommand

\* activate reads its switch back.
ReadBack(o) ==
    /\ commands[o].at = "switched"
    /\ \/ Works /\ alias = Target(commands[o].action) /\ At(o, "active")
       \/ Works /\ alias # Target(commands[o].action) /\ At(o, "failed")
       \/ Fails /\ At(o, "failed")
    /\ UNCHANGED <<alias, audited, reported, doubtful, certain>> /\ UnchangedByCommand

\* The success is committed to the ledger ...
Audit(o) ==
    /\ commands[o].at = "active"
    /\ \/ Works /\ audited' = Target(commands[o].action) /\ At(o, "committed")
       \/ Fails /\ At(o, "failed") /\ UNCHANGED audited
    /\ UNCHANGED <<alias, reported, doubtful, certain>> /\ UnchangedByCommand

\* ... and read back: when this fails, so does the command, with its success in
\* the ledger.
Confirm(o) ==
    /\ commands[o].at = "committed"
    /\ \/ /\ Works /\ At(o, "idle")
          /\ reported' = Target(commands[o].action) /\ doubtful' = FALSE
          /\ certain' = (certain \/ commands[o].alone)
       \/ Fails /\ At(o, "failed") /\ doubtful' = TRUE /\ UNCHANGED <<reported, certain>>
    /\ UNCHANGED <<alias, audited>> /\ UnchangedByCommand

\* Mutant: a command whose audit failed is not compensated.
CompensateNothing(o) ==
    /\ commands[o].at = "failed"
    /\ Works /\ At(o, "idle")
    /\ UNCHANGED <<alias, audited, reported, doubtful, certain>> /\ UnchangedByCommand

\* _compensate_if_switched looks where the alias is ...
Compensate(o) ==
    /\ commands[o].at = "failed"
    /\ \/ /\ Works /\ UNCHANGED certain
          /\ At(o, IF alias = Target(commands[o].action) THEN "undoing" ELSE "idle")
       \/ Fails /\ At(o, "idle") /\ certain' = FALSE
    /\ UNCHANGED <<alias, audited, reported, doubtful>> /\ UnchangedByCommand

\* ... and moves it back, if it is where the command put it.
Undo(o) ==
    /\ commands[o].at = "undoing"
    /\ \/ Works /\ alias' = Source(commands[o].action) /\ UNCHANGED certain
       \/ Fails /\ alias' \in {alias, Source(commands[o].action)} /\ certain' = FALSE
    /\ At(o, "idle")
    /\ UNCHANGED <<audited, reported, doubtful>> /\ UnchangedByCommand

OperatorDies(o) ==
    /\ ~ CommandOver(o)
    /\ Fails /\ certain' = FALSE
    /\ At(o, "idle")
    /\ UNCHANGED <<alias, audited, reported, doubtful>> /\ UnchangedByCommand

CutoverNext ==
    \/ StartBackfill
    \/ \E d \in Documents : Backfill(d) \/ Tombstone(d)
    \/ \E o \in Operators : \/ Preflight(o) \/ Check(o) \/ Switch(o) \/ ReadBack(o) \/ Audit(o)
                            \/ Confirm(o) \/ Compensate(o) \/ Undo(o) \/ OperatorDies(o)

CutoverSpec == CutoverInit /\ [][CutoverNext]_cutoverVars

-----------------------------------------------------------------------------
Commands == [at : {"idle", "attempted", "checked", "switched", "active", "committed", "failed",
                   "undoing"},
             action : {"cutover", "rollback"}, alone : BOOLEAN]

CutoverTypeOK ==
    /\ {alias, audited, reported} \subseteq Collections
    /\ candidate \subseteq Documents /\ canonical \subseteq Documents /\ todo \subseteq Documents
    /\ commands \in [Operators -> Commands]
    /\ doubtful \in BOOLEAN /\ certain \in BOOLEAN /\ failures \in 0 .. Failures

\* When no command is under way the alias is where the last command that
\* reported success put it, although calls fail on either side of their effect:
\* what fails is undone. And the ledger ends with that success, or with one
\* that was committed and reported as a failure. Commands that overlap, a death
\* and an undo that fails too end this certainty, until a command that no other
\* overlapped succeeds (nothing in the code keeps two operators apart).
AuditedIsActive ==
    (\A o \in Operators : CommandOver(o)) /\ certain =>
        alias = reported /\ (audited # reported => doubtful)
=============================================================================
