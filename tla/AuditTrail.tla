------------------------------ MODULE AuditTrail ------------------------------
(***************************************************************************)
(* The audit ledger: rows chained by their hashes between a base, which    *)
(* retention moves, and a head. Every transaction verifies the chain       *)
(* before it changes it. Recorders take their timestamp before they get    *)
(* the lock, and may die before they commit. A hash is modelled by what it *)
(* covers.                                                                 *)
(***************************************************************************)
EXTENDS Naturals, Sequences, FiniteSets

CONSTANTS
    Recorders,    \* threads and processes that record
    AuditEvents,  \* event ids
    Metadata,     \* what an event id is bound to
    LastTick,     \* bound: the clock
    MaxRows       \* bound: rows ever appended

ASSUME AuditConstants == {LastTick, MaxRows} \subseteq Nat

VARIABLES
    tick,      \* the clock
    rows,      \* audit_events
    meta,      \* audit_meta: the base and the head of the chain
    recorders, \* recorders[r]: the event it is about to record, stamped
    acked      \* history variable: what was acknowledged and not pruned since

auditVars == <<tick, rows, meta, recorders, acked>>

-----------------------------------------------------------------------------
NoEvent == [at |-> LastTick + 1]
Genesis == <<0, 0, "genesis">>

HashOf(row) == <<row.sequence, row.at, row.event>>

AuditInit ==
    /\ tick = 0 /\ rows = <<>> /\ acked = {}
    /\ meta = [baseSequence |-> 0, baseHash |-> Genesis, headSequence |-> 0, headHash |-> Genesis]
    /\ recorders = [r \in Recorders |-> NoEvent]

Ticks ==
    /\ tick < LastTick /\ tick' = tick + 1
    /\ UNCHANGED <<rows, meta, recorders, acked>>

\* The hash that row i must name as its predecessor's.
HashBefore(i) == IF i = 1 THEN meta.baseHash ELSE HashOf(rows[i - 1])

\* _verify_connection: sequences are contiguous from the base, every row names
\* its predecessor, and the last row is the head.
TrailVerifies ==
    /\ \A i \in 1 .. Len(rows) : /\ rows[i].sequence = meta.baseSequence + i
                                 /\ rows[i].previous = HashBefore(i)
    /\ meta.headSequence = meta.baseSequence + Len(rows)
    /\ meta.headHash = HashBefore(Len(rows) + 1)

\* record: the timestamp is taken first.
Stamp(r) ==
    /\ recorders[r] = NoEvent /\ meta.headSequence < MaxRows
    /\ \E e \in AuditEvents, data \in Metadata :
         recorders' = [recorders EXCEPT ![r] = [at |-> tick, event |-> e, data |-> data]]
    /\ UNCHANGED <<tick, rows, meta, acked>>

Recorded(event) == {i \in 1 .. Len(rows) : rows[i].event = event}

\* Mutant: an emptied table starts from the beginning.
FirstAgain == IF rows = <<>> THEN 1 ELSE rows[Len(rows)].sequence + 1

NextSequence == IF rows = <<>> THEN meta.baseSequence + 1 ELSE rows[Len(rows)].sequence + 1

PreviousHash == IF rows = <<>> THEN meta.baseHash ELSE HashOf(rows[Len(rows)])

\* Under the lock: a known id is acknowledged again, or conflicts with other
\* metadata; a new one is appended and becomes the head.
AppendRow(r) ==
    /\ recorders[r] # NoEvent
    /\ TrailVerifies
    /\ LET e == recorders[r]
           row == [sequence |-> NextSequence, at |-> e.at, event |-> e.event, data |-> e.data,
                   previous |-> PreviousHash]
       IN  IF Recorded(e.event) # {}
           THEN UNCHANGED <<rows, meta, acked>>
           ELSE /\ rows' = Append(rows, row)
                /\ meta' = [meta EXCEPT !.headSequence = row.sequence, !.headHash = HashOf(row)]
                /\ acked' = acked \cup {[event |-> e.event, data |-> e.data]}
    /\ recorders' = [recorders EXCEPT ![r] = NoEvent]
    /\ UNCHANGED tick

RecorderDies(r) ==
    /\ recorders[r] # NoEvent
    /\ recorders' = [recorders EXCEPT ![r] = NoEvent]
    /\ UNCHANGED <<tick, rows, meta, acked>>

\* prune_before: up to the last of the first `limit` rows that are old enough,
\* whatever lies between; the base moves there.
Prunable(cutoff, limit) ==
    LET old == {i \in 1 .. Len(rows) : rows[i].at < cutoff}
    IN  {i \in old : Cardinality({j \in old : j < i}) < limit}

PruneBefore(cutoff, limit) ==
    /\ TrailVerifies
    /\ \E last \in Prunable(cutoff, limit) :
        /\ \A i \in Prunable(cutoff, limit) : i <= last
        /\ meta' = [meta EXCEPT !.baseSequence = rows[last].sequence, !.baseHash = HashOf(rows[last])]
        /\ rows' = SubSeq(rows, last + 1, Len(rows))
        /\ acked' = {a \in acked : \E i \in last + 1 .. Len(rows) : rows[i].event = a.event}
    /\ UNCHANGED <<tick, recorders>>

AuditNext ==
    \/ Ticks
    \/ \E r \in Recorders : Stamp(r) \/ AppendRow(r) \/ RecorderDies(r)
    \/ \E cutoff \in 1 .. tick, limit \in 1 .. 2 : PruneBefore(cutoff, limit)

AuditSpec == AuditInit /\ [][AuditNext]_auditVars

-----------------------------------------------------------------------------
AuditTypeOK ==
    /\ tick \in 0 .. LastTick
    /\ recorders \in [Recorders -> [at : 0 .. LastTick, event : AuditEvents, data : Metadata] \cup {NoEvent}]
    /\ meta.headSequence \in Nat /\ meta.baseSequence \in 0 .. meta.headSequence
    /\ \A i \in 1 .. Len(rows) : /\ rows[i].sequence \in 1 .. meta.headSequence
                                 /\ rows[i].at \in 0 .. LastTick /\ rows[i].event \in AuditEvents

\* Whatever recorders overlap, die, repeat an id or are pruned behind: the next
\* transaction finds a chain it accepts, or no sensitive request would be served
\* any more; and an acknowledged event is there, once, until it is pruned.
TrailIsWhole ==
    /\ TrailVerifies
    /\ \A a \in acked : \E i \in 1 .. Len(rows) : /\ Recorded(a.event) = {i}
                                                  /\ rows[i].data = a.data
=============================================================================
