------------------------------- MODULE Recovery -------------------------------
(***************************************************************************)
(* The recovery rehearsal (verify_qdrant_recovery.py): a snapshot is       *)
(* restored, a document deleted, an alias cut over and rolled back, on     *)
(* throwaway collections beside those of Cutover. Calls fail.              *)
(***************************************************************************)
EXTENDS Cutover

VARIABLES
    room,         \* its collections, alias, snapshot and progress
    roomFailures

recoveryVars == <<room, roomFailures>>

\* One point is refreshed, one is deleted, others are neither.
RoomPoints == {"old", "doomed", "other"}
EmptyRoom == [at |-> "idle", source |-> {}, restored |-> {}, exist |-> {}, alias |-> "none",
              snapshot |-> {}]

RecoveryInit == room = EmptyRoom /\ roomFailures = 0

RoomFails == roomFailures < Failures /\ roomFailures' = roomFailures + 1
RoomWorks == UNCHANGED roomFailures

Rehearse(from, to, next) ==
    /\ room.at = from
    /\ \/ RoomWorks /\ room' = [next EXCEPT !.at = to]
       \/ RoomFails /\ room' = [room EXCEPT !.at = "cleanup"]

PrepareSource == Rehearse("idle", "filled",
    [room EXCEPT !.exist = {"source"}, !.alias = "source", !.source = RoomPoints])

TakeSnapshot == Rehearse("filled", "snapshot", [room EXCEPT !.snapshot = room.source])

\* Into a collection that does not exist yet.
RestoreSnapshot == /\ "restored" \notin room.exist
                   /\ Rehearse("snapshot", "restored",
                        [room EXCEPT !.exist = @ \cup {"restored"}, !.restored = room.snapshot])

\* Mutant: only the restored collection forgets the document.
PurgedRestored(r) == [r EXCEPT !.restored = @ \ {"doomed"}]

\* The tombstoned document leaves both collections.
Purged(r) == [r EXCEPT !.source = @ \ {"doomed"}, !.restored = @ \ {"doomed"}]

PurgeBoth == Rehearse("restored", "purged", Purged(room))

Refresh == Rehearse("purged", "refreshed",
    [room EXCEPT !.restored = (@ \ {"old"}) \cup {"new"}])

RehearseCutover == Rehearse("refreshed", "cutover", [room EXCEPT !.alias = "restored"])

RehearseRollback == Rehearse("cutover", "cleanup", [room EXCEPT !.alias = "source"])

\* The finally block: snapshot, alias, collections; it is not repeated.
CleanUp ==
    /\ room.at = "cleanup"
    /\ \/ RoomWorks /\ room' = [EmptyRoom EXCEPT !.at = "cleaned"]
       \/ RoomFails /\ room' \in {[room EXCEPT !.at = "littered"],
                              [room EXCEPT !.at = "littered", !.snapshot = {}],
                              [room EXCEPT !.at = "littered", !.snapshot = {}, !.alias = "none"],
                              [room EXCEPT !.at = "littered", !.snapshot = {}, !.alias = "none",
                                           !.restored = {}, !.exist = @ \ {"restored"}]}

RecoveryNext ==
    \/ PrepareSource \/ TakeSnapshot \/ RestoreSnapshot \/ PurgeBoth \/ Refresh
    \/ RehearseCutover \/ RehearseRollback \/ CleanUp

RecoverySpec == RecoveryInit /\ [][RecoveryNext]_recoveryVars

-----------------------------------------------------------------------------
RecoveryTypeOK ==
    /\ room.source \cup room.restored \cup room.snapshot \subseteq RoomPoints \cup {"new"}
    /\ roomFailures \in 0 .. Failures

\* From the cutover on, a deleted document is behind neither the alias nor the
\* collection that a rollback would bring back.
RollbackForgets ==
    room.at \in {"refreshed", "cutover"} => "doomed" \notin room.source \cup room.restored

\* Switching is sound: accounted for, and forgetful of what was deleted.
SwitchIsSound == AuditedIsActive /\ RollbackForgets
=============================================================================
