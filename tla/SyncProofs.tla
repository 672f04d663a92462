------------------------------ MODULE SyncProofs ------------------------------
(***************************************************************************)
(* Proofs about what is kept in step with another system: the calendar     *)
(* (CalendarSync) for any number of executions, attempts, edits,           *)
(* revisions, events and disruptions, and the phone (MobileSync) for any   *)
(* number of commands and mishaps. They share no state.                    *)
(*                                                                         *)
(* The calendar: Google gives every version of the event an etag of its    *)
(* own, and the task never returns to a revision. So whatever is applied,  *)
(* acknowledged or decided late speaks of a version or of a revision that  *)
(* is gone, and says nothing, or it speaks of the current one, and then it *)
(* has its text. Knows says this of one pair of an etag and a text.        *)
(*                                                                         *)
(* The phone: one entry waits at most once the last command was given, so  *)
(* that entry can be followed until the server has answered for it.        *)
(***************************************************************************)
EXTENDS CalendarSync, MobileSync, SequenceTheorems, TLAPS

\* Who has the etag of Google's event, while it is alive, has its text.
Knows(etag, text) ==
    etag <= google.etag /\ (google.alive /\ etag = google.etag => google.text = text)

\* An event of the task's revision has the task's text.
EventSound(event) ==
    /\ event.rev <= task.rev
    /\ event.rev = task.rev => event.text = IF task.dated THEN task.text ELSE None
    /\ event.text \in seen \cup {None}

\* What an execution brings back of the event it dispatched.
ExecutionSound(x) ==
    /\ execs[x].at # "idle" => execs[x].event \in DOMAIN outbox
    /\ execs[x].at = "done" =>
          IF outbox[execs[x].event].type = "event_delete" THEN execs[x].etag < google.etag
          ELSE /\ outbox[execs[x].event].text # None
               /\ Knows(execs[x].etag, outbox[execs[x].event].text)

ChangeSound(c) == c.etag <= google.etag /\ (c.etag = google.etag => c = google)

ConflictSound(k) == Knows(k.etag, k.text) /\ k.text \in seen

BindingSound ==
    binding # None =>
        /\ binding.rev <= task.rev /\ binding.etag <= google.etag
        /\ google.alive /\ binding.etag = google.etag => google.text \in seen

\* The inductive invariant.
IInv ==
    /\ TypeOK
    /\ task.text \in seen /\ (google.etag = 0 => google.text \in seen)
    /\ \A e \in DOMAIN outbox : EventSound(outbox[e])
    /\ \A x \in Executions : ExecutionSound(x)
    /\ \A c \in pulled : ChangeSound(c)
    /\ \A k \in conflicts : ConflictSound(k)
    /\ BindingSound
    /\ BindingIsTruthful

-----------------------------------------------------------------------------
(* Data.                                                                   *)

LEMMA EventFields ==
    ASSUME NEW v \in Event
    PROVE  /\ v.type \in EventTypes /\ v.rev \in Nat /\ v.text \in Texts \cup {None}
           /\ v.attempts \in Nat /\ v.lease \in Nat
BY DEF Event

\* The outbox as a function on its positions.
LEMMA OutboxPositions ==
    ASSUME TypeOK
    PROVE  /\ outbox \in [DOMAIN outbox -> Event]
           /\ DOMAIN outbox = 1 .. Len(outbox) /\ Len(outbox) \in Nat
           /\ \A e \in DOMAIN outbox : outbox[e] \in Event
BY LenProperties DEF TypeOK

\* An outbox whose events are changed in place.
LEMMA OutboxInPlace ==
    ASSUME TypeOK, NEW o \in [DOMAIN outbox -> Event]
    PROVE  o \in Seq(Event) /\ Len(o) <= MaxEvents
<1>1. DOMAIN outbox = 1 .. Len(outbox) /\ Len(outbox) \in Nat
    BY OutboxPositions
<1>2. o \in Seq(Event)
    BY <1>1, SeqDef
<1>3. DOMAIN o = 1 .. Len(o) /\ Len(o) \in Nat
    BY <1>2, LenProperties
<1>4. Len(o) = Len(outbox)
    BY <1>1, <1>3
<1> QED
    BY <1>2, <1>4 DEF TypeOK

\* The outbox with an event more.
LEMMA OutboxAppended ==
    ASSUME TypeOK, NEW v \in Event, Len(outbox) < MaxEvents
    PROVE  LET o == Append(outbox, v)
           IN  /\ o \in Seq(Event) /\ Len(o) <= MaxEvents
               /\ DOMAIN outbox \subseteq DOMAIN o
               /\ \A e \in DOMAIN outbox : o[e] = outbox[e]
               /\ \A e \in DOMAIN o : e \in DOMAIN outbox \/ o[e] = v
<1> DEFINE o == Append(outbox, v)
<1>1. outbox \in Seq(Event) /\ Len(outbox) \in Nat /\ DOMAIN outbox = 1 .. Len(outbox)
    BY OutboxPositions DEF TypeOK
<1>2. /\ o \in Seq(Event) /\ Len(o) = Len(outbox) + 1
      /\ \A e \in 1 .. Len(outbox) : o[e] = outbox[e]
      /\ o[Len(outbox) + 1] = v
    BY <1>1, AppendProperties
<1>3. DOMAIN o = 1 .. Len(outbox) + 1
    BY <1>2, LenProperties
<1>4. MaxEvents \in Nat
    BY SyncConstants
<1> HIDE DEF o
<1> QED
    BY <1>1, <1>2, <1>3, <1>4 DEF o

\* An event that is made of the task as it is.
LEMMA MadeEvent ==
    ASSUME NEW type \in EventTypes, NEW t, t.rev \in Nat, t.text \in Texts,
           NEW why \in {"task", "conflict", "recreate"}
    PROVE  LET v == [type |-> type, rev |-> t.rev, text |-> IF t.dated THEN t.text ELSE None,
                     why |-> why, status |-> "pending", attempts |-> 0, lease |-> 0]
           IN  v \in Event /\ v.attempts <= MaxAttempts
BY SyncConstants DEF Event

LEMMA TypedState ==
    ASSUME TypeOK
    PROVE  /\ task.rev \in Nat /\ task.rev <= MaxRevision /\ task.text \in Texts /\ task.dated \in BOOLEAN
           /\ google.etag \in Nat /\ google.text \in Texts /\ google.alive \in BOOLEAN
           /\ binding # None => binding.etag \in Nat /\ binding.rev \in Nat /\ binding \in Binding
           /\ \A x \in Executions : execs[x] \in Execution /\ execs[x].event \in Nat
                                    /\ execs[x].etag \in Nat
           /\ \A c \in pulled : c \in Change /\ c.etag \in Nat /\ c.text \in Texts
           /\ \A k \in conflicts : k \in Conflict /\ k.etag \in Nat /\ k.rev \in Nat /\ k.text \in Texts
BY SyncConstants DEF TypeOK, Change, Binding, Etags, Execution, Conflict

-----------------------------------------------------------------------------
(* What steps leave in place.                                              *)

\* The events keep what was asked of them.
KeepsEvents ==
    \A e \in DOMAIN outbox :
        /\ e \in DOMAIN outbox'
        /\ outbox'[e].type = outbox[e].type
        /\ outbox'[e].rev = outbox[e].rev /\ outbox'[e].text = outbox[e].text

LEMMA ExecutionStays ==
    ASSUME TypeOK, KeepsEvents, NEW x \in Executions, ExecutionSound(x), execs'[x] = execs[x],
           google' = google \/ (google'.etag = google.etag + 1)
    PROVE  ExecutionSound(x)'
<1>1. google.etag \in Nat /\ execs[x].etag \in Nat
    BY TypedState
<1> QED
    BY <1>1 DEF ExecutionSound, Knows, KeepsEvents

LEMMA ConflictStays ==
    ASSUME TypeOK, NEW k \in conflicts, ConflictSound(k), seen \subseteq seen',
           google' = google \/ (google'.etag = google.etag + 1)
    PROVE  ConflictSound(k)'
<1>1. google.etag \in Nat /\ k.etag \in Nat
    BY TypedState
<1> QED
    BY <1>1 DEF ConflictSound, Knows

LEMMA ChangeStays ==
    ASSUME TypeOK, NEW c \in pulled, ChangeSound(c),
           google' = google \/ (google'.etag = google.etag + 1)
    PROVE  ChangeSound(c)'
<1>1. google.etag \in Nat /\ c.etag \in Nat
    BY TypedState
<1> QED
    BY <1>1 DEF ChangeSound

\* An event stays sound when the task stays as it is, or has a new revision.
LEMMA EventStays ==
    ASSUME TypeOK, NEW v \in Event, EventSound(v), seen \subseteq seen',
           task' = task \/ task'.rev = task.rev + 1,
           NEW u, u.rev = v.rev, u.text = v.text
    PROVE  /\ u.rev <= task'.rev
           /\ u.rev = task'.rev => u.text = IF task'.dated THEN task'.text ELSE None
           /\ u.text \in seen' \cup {None}
<1>1. task.rev \in Nat /\ v.rev \in Nat
    BY TypedState, EventFields
<1> QED
    BY <1>1 DEF EventSound

LEMMA EventsStay ==
    ASSUME TypeOK, \A e \in DOMAIN outbox : EventSound(outbox[e]), seen \subseteq seen',
           task' = task \/ task'.rev = task.rev + 1,
           KeepsEvents, DOMAIN outbox' = DOMAIN outbox
    PROVE  \A e \in DOMAIN outbox' : EventSound(outbox[e])'
<1> SUFFICES ASSUME NEW e \in DOMAIN outbox
             PROVE  EventSound(outbox[e])'
    OBVIOUS
<1>1. outbox[e] \in Event /\ EventSound(outbox[e])
    BY OutboxPositions
<1>2. outbox'[e].rev = outbox[e].rev /\ outbox'[e].text = outbox[e].text
    BY DEF KeepsEvents
<1> QED
    BY <1>1, <1>2, EventStays DEF EventSound

\* A binding that stays says nothing new: of a newer version or revision, nothing.
LEMMA BindingStays ==
    ASSUME TypeOK, BindingSound, BindingIsTruthful, seen \subseteq seen',
           binding' = binding,
           google' = google \/ (google'.etag = google.etag + 1),
           task' = task \/ task'.rev = task.rev + 1
    PROVE  BindingSound' /\ BindingIsTruthful'
<1>1. /\ google.etag \in Nat /\ task.rev \in Nat
      /\ binding # None => binding.etag \in Nat /\ binding.rev \in Nat
    BY TypedState
<1> QED
    BY <1>1 DEF BindingSound, BindingIsTruthful

-----------------------------------------------------------------------------
(* The initial state, and the steps of the outbox.                         *)

LEMMA InitSound == Init => IInv
<1> SUFFICES ASSUME Init PROVE IInv
    OBVIOUS
<1>1. TypeOK
    <2>1. outbox \in Seq(Event) /\ Len(outbox) = 0 /\ DOMAIN outbox = {}
        BY EmptySeq DEF Init
    <2>2. Idle \in Execution
        BY DEF Idle, Execution, Etags
    <2> QED
        BY <2>1, <2>2, SyncConstants DEF Init, TypeOK, Texts, Change, Etags
<1>2. DOMAIN outbox = {}
    BY EmptySeq DEF Init
<1> QED
    BY <1>1, <1>2 DEF Init, IInv, Idle, ExecutionSound, BindingSound, BindingIsTruthful

\* Steps that touch the outbox in place, and the executions short of an answer.
LEMMA OutboxStepSound ==
    ASSUME IInv,
           UNCHANGED <<task, binding, conflicts, google, pulled, texts, seen>>,
           spared' \in 0 .. Disruptions,
           outbox' \in [DOMAIN outbox -> Event],
           \A e \in DOMAIN outbox : outbox'[e].attempts <= MaxAttempts,
           KeepsEvents,
           execs' \in [Executions -> Execution],
           \A x \in Executions :
               \/ execs'[x] = execs[x]
               \/ execs'[x].at # "done" /\ (execs'[x].at # "idle" => execs'[x].event \in DOMAIN outbox)
    PROVE  IInv'
<1>1. TypeOK /\ DOMAIN outbox' = DOMAIN outbox
    BY DEF IInv
<1>2. outbox' \in Seq(Event) /\ Len(outbox') <= MaxEvents
    BY <1>1, OutboxInPlace
<1>3. TypeOK'
    BY <1>1, <1>2 DEF TypeOK
<1>4. \A e \in DOMAIN outbox' : EventSound(outbox[e])'
    BY <1>1, EventsStay DEF IInv
<1>5. ASSUME NEW x \in Executions
      PROVE  ExecutionSound(x)'
    <2>1. ExecutionSound(x)
        BY DEF IInv
    <2>2. CASE execs'[x] = execs[x]
        BY <1>1, <2>1, <2>2, ExecutionStays
    <2>3. CASE execs'[x].at # "done" /\ (execs'[x].at # "idle" => execs'[x].event \in DOMAIN outbox)
        BY <1>1, <2>3 DEF ExecutionSound
    <2> QED
        BY <2>2, <2>3
<1>6. \A c \in pulled' : ChangeSound(c)'
    BY <1>1, ChangeStays DEF IInv
<1>7. \A k \in conflicts' : ConflictSound(k)'
    BY <1>1, ConflictStays DEF IInv
<1>8. BindingSound' /\ BindingIsTruthful'
    BY <1>1, BindingStays DEF IInv
<1> QED
    BY <1>3, <1>4, <1>5, <1>6, <1>7, <1>8 DEF IInv

LEMMA SweptInPlace ==
    ASSUME TypeOK
    PROVE  /\ Swept \in [DOMAIN outbox -> Event]
           /\ \A e \in DOMAIN outbox :
                /\ Swept[e].type = outbox[e].type /\ Swept[e].rev = outbox[e].rev
                /\ Swept[e].text = outbox[e].text /\ Swept[e].lease = outbox[e].lease
                /\ Swept[e].attempts = outbox[e].attempts
<1>1. \A e \in DOMAIN outbox : outbox[e] \in Event
    BY OutboxPositions
<1> QED
    BY <1>1 DEF Swept, Event

LEMMA ClaimSound ==
    ASSUME IInv, NEW x \in Executions, Claim(x)
    PROVE  IInv'
<1> DEFINE o(e) == [Swept EXCEPT ![e].attempts = @ + 1, ![e].lease = @ + 1,
                       ![e].status = IF Executable(e) THEN "leased" ELSE "dead_letter"]
<1>1. /\ TypeOK /\ UNCHANGED <<task, binding, conflicts, google, pulled, texts, spared, seen>>
      /\ spared' \in 0 .. Disruptions /\ execs \in [Executions -> Execution]
      /\ \A e \in DOMAIN outbox : outbox[e].attempts <= MaxAttempts
    BY DEF Claim, IInv, TypeOK
<1>2. /\ Swept \in [DOMAIN outbox -> Event]
      /\ \A e \in DOMAIN outbox :
                /\ Swept[e].type = outbox[e].type /\ Swept[e].rev = outbox[e].rev
                /\ Swept[e].text = outbox[e].text /\ Swept[e].lease = outbox[e].lease
                /\ Swept[e].attempts = outbox[e].attempts
    BY <1>1, SweptInPlace
<1>3. CASE outbox' = Swept /\ UNCHANGED execs
    <2>1. outbox' \in [DOMAIN outbox -> Event] /\ KeepsEvents
          /\ \A e \in DOMAIN outbox : outbox'[e].attempts <= MaxAttempts
        BY <1>1, <1>2, <1>3 DEF KeepsEvents
    <2> QED
        BY <1>1, <1>3, <2>1, OutboxStepSound
<1>4. ASSUME NEW e \in DOMAIN outbox, Claimable(e), outbox' = o(e),
             IF Executable(e)
               THEN execs' = [execs EXCEPT ![x] = [Idle EXCEPT !.at = "claimed", !.event = e,
                                                               !.lease = outbox[e].lease + 1]]
               ELSE UNCHANGED execs
      PROVE  IInv'
    <2> DEFINE v == [Swept[e] EXCEPT !.attempts = @ + 1, !.lease = @ + 1,
                       !.status = IF Executable(e) THEN "leased" ELSE "dead_letter"]
               r == [Idle EXCEPT !.at = "claimed", !.event = e, !.lease = outbox[e].lease + 1]
    <2>1. outbox' = [Swept EXCEPT ![e] = v]
        BY <1>2, <1>4
    <2>2. /\ outbox[e] \in Event /\ outbox[e].attempts \in Nat /\ outbox[e].lease \in Nat
          /\ outbox[e].attempts < MaxAttempts /\ MaxAttempts \in Nat
          /\ DOMAIN outbox = 1 .. Len(outbox) /\ Len(outbox) \in Nat /\ e \in Nat
        BY <1>1, <1>4, OutboxPositions, EventFields, SyncConstants DEF Claimable
    <2>3. /\ v \in Event /\ v.attempts <= MaxAttempts
          /\ v.type = outbox[e].type /\ v.rev = outbox[e].rev /\ v.text = outbox[e].text
        <3>1. Swept[e] \in Event
            BY <1>2
        <3>2. Swept[e].attempts + 1 \in Nat /\ Swept[e].lease + 1 \in Nat
              /\ Swept[e].attempts + 1 <= MaxAttempts
            BY <1>2, <2>2
        <3>3. (IF Executable(e) THEN "leased" ELSE "dead_letter") \in {"leased", "dead_letter"}
            OBVIOUS
        <3> QED
            BY <1>2, <3>1, <3>2, <3>3 DEF Event
    <2>4. r \in Execution /\ r.at = "claimed" /\ r.event = e
        <3>1. outbox[e].lease + 1 \in Nat
            BY <2>2
        <3> QED
            BY <2>2, <3>1, Zenon DEF Idle, Execution, Etags
    <2> HIDE DEF v, r
    <2>5. outbox' \in [DOMAIN outbox -> Event] /\ KeepsEvents
          /\ \A d \in DOMAIN outbox : outbox'[d].attempts <= MaxAttempts
        BY <1>1, <1>2, <2>1, <2>3 DEF KeepsEvents
    <2>6. CASE Executable(e)
        <3>1. execs' = [execs EXCEPT ![x] = r]
            BY <1>4, <2>6 DEF r
        <3>2. execs' \in [Executions -> Execution]
              /\ \A y \in Executions : execs'[y] = execs[y] \/ execs'[y] = r
            BY <1>1, <2>4, <3>1
        <3> QED
            BY <1>1, <2>4, <2>5, <3>2, OutboxStepSound
    <2>7. CASE ~ Executable(e)
        BY <1>1, <1>4, <2>5, <2>7, OutboxStepSound
    <2> QED
        BY <2>6, <2>7
<1> QED
    BY <1>3, <1>4 DEF Claim

LEMMA ExecsStepSound ==
    ASSUME IInv, UNCHANGED <<task, binding, outbox, conflicts, google, pulled, texts, seen>>,
           spared' \in 0 .. Disruptions, NEW x \in Executions, NEW r \in Execution,
           execs' = [execs EXCEPT ![x] = r], r.at # "done",
           r.at # "idle" => r.event \in DOMAIN outbox
    PROVE  IInv'
<1>1. /\ TypeOK /\ execs \in [Executions -> Execution]
      /\ \A e \in DOMAIN outbox : outbox[e].attempts <= MaxAttempts
    BY DEF IInv, TypeOK
<1>2. outbox' \in [DOMAIN outbox -> Event] /\ KeepsEvents
    BY <1>1, OutboxPositions DEF KeepsEvents
<1>3. execs' \in [Executions -> Execution]
      /\ \A y \in Executions : execs'[y] = execs[y] \/ execs'[y] = r
    BY <1>1
<1> QED
    BY <1>1, <1>2, <1>3, OutboxStepSound

LEMMA DispatchFailsSound ==
    ASSUME IInv, NEW x \in Executions, DispatchFails(x)
    PROVE  IInv'
<1> DEFINE r == [execs[x] EXCEPT !.at = "failed"]
<1>1. execs[x] \in Execution /\ execs[x].event \in DOMAIN outbox /\ execs \in [Executions -> Execution]
    BY DEF IInv, TypeOK, ExecutionSound, DispatchFails
<1>2. r \in Execution /\ r.at = "failed" /\ r.event = execs[x].event
    BY <1>1 DEF Execution
<1>3. execs' = [execs EXCEPT ![x] = r]
    BY <1>1 DEF DispatchFails
<1>4. spared' \in 0 .. Disruptions
    BY SyncConstants DEF IInv, TypeOK, DispatchFails
<1>5. UNCHANGED <<task, binding, outbox, conflicts, google, pulled, texts, seen>>
    BY DEF DispatchFails
<1> HIDE DEF r
<1> QED
    BY <1>1, <1>2, <1>3, <1>4, <1>5, ExecsStepSound

LEMMA VanishSound ==
    ASSUME IInv, NEW x \in Executions, Vanish(x)
    PROVE  IInv'
<1>1. Idle \in Execution /\ Idle.at = "idle"
    BY DEF Idle, Execution, Etags
<1>2. spared' \in 0 .. Disruptions /\ execs' = [execs EXCEPT ![x] = Idle]
      /\ UNCHANGED <<task, binding, outbox, conflicts, google, pulled, texts, seen>>
    BY SyncConstants DEF IInv, TypeOK, Vanish
<1> QED
    BY <1>1, <1>2, ExecsStepSound

LEMMA LeaseElapsesSound ==
    ASSUME IInv, NEW e \in DOMAIN outbox, LeaseElapses(e)
    PROVE  IInv'
<1>1. /\ TypeOK /\ execs \in [Executions -> Execution] /\ outbox \in [DOMAIN outbox -> Event]
      /\ \A d \in DOMAIN outbox : outbox[d].attempts <= MaxAttempts
      /\ outbox[e] \in Event
    BY OutboxPositions DEF IInv, TypeOK
<1> DEFINE v == [outbox[e] EXCEPT !.status = "expired"]
<1>2. /\ v \in Event /\ v.attempts = outbox[e].attempts
      /\ v.type = outbox[e].type /\ v.rev = outbox[e].rev /\ v.text = outbox[e].text
    BY <1>1 DEF Event
<1>3. outbox' = [outbox EXCEPT ![e] = v]
    BY DEF LeaseElapses
<1>4. spared' \in 0 .. Disruptions
    BY SyncConstants DEF IInv, TypeOK, LeaseElapses
<1> HIDE DEF v
<1>5. outbox' \in [DOMAIN outbox -> Event] /\ KeepsEvents
      /\ \A d \in DOMAIN outbox : outbox'[d].attempts <= MaxAttempts
    BY <1>1, <1>2, <1>3 DEF KeepsEvents
<1>6. UNCHANGED <<task, binding, conflicts, google, execs, pulled, texts, seen>>
    BY DEF LeaseElapses
<1> QED
    BY <1>1, <1>4, <1>5, <1>6, OutboxStepSound

LEMMA RequestSyncSound ==
    ASSUME IInv, RequestSync
    PROVE  IInv'
<1>1. /\ TypeOK /\ execs \in [Executions -> Execution] /\ MaxAttempts \in Nat
      /\ \A d \in DOMAIN outbox : outbox[d].attempts <= MaxAttempts /\ outbox[d] \in Event
    BY OutboxPositions, SyncConstants DEF IInv, TypeOK
<1> DEFINE Renewed(e) == IF outbox[e].status = "dead_letter"
                         THEN [outbox[e] EXCEPT !.status = "pending", !.attempts = 0] ELSE outbox[e]
<1>2. outbox' = [e \in DOMAIN outbox |-> Renewed(e)]
    BY DEF RequestSync
<1>3. ASSUME NEW e \in DOMAIN outbox
      PROVE  /\ Renewed(e) \in Event /\ Renewed(e).attempts <= MaxAttempts
             /\ Renewed(e).type = outbox[e].type
             /\ Renewed(e).rev = outbox[e].rev /\ Renewed(e).text = outbox[e].text
    <2>1. outbox[e] \in Event /\ outbox[e].attempts <= MaxAttempts
        BY <1>1
    <2>2. CASE outbox[e].status = "dead_letter"
        <3>1. Renewed(e) = [outbox[e] EXCEPT !.status = "pending", !.attempts = 0]
            BY <2>2
        <3> HIDE DEF Renewed
        <3>2. /\ Renewed(e) \in Event /\ Renewed(e).attempts = 0
              /\ Renewed(e).type = outbox[e].type
              /\ Renewed(e).rev = outbox[e].rev /\ Renewed(e).text = outbox[e].text
            <4>1. /\ outbox[e] \in [type : EventTypes, rev : Nat, text : Texts \cup {None},
                         why : {"task", "conflict", "recreate"},
                         status : {"pending", "leased", "expired", "delivered", "dead_letter"},
                         attempts : Nat, lease : Nat]
                  /\ 0 \in Nat
                BY <2>1 DEF Event
            <4> QED
                BY <3>1, <4>1, Zenon DEF Event
        <3> QED
            BY <1>1, <3>2
    <2>3. CASE outbox[e].status # "dead_letter"
        BY <2>1, <2>3
    <2> QED
        BY <2>2, <2>3
<1> HIDE DEF Renewed
<1>4. /\ outbox' \in [DOMAIN outbox -> Event] /\ KeepsEvents
      /\ \A d \in DOMAIN outbox : outbox'[d].attempts <= MaxAttempts
    BY <1>2, <1>3 DEF KeepsEvents
<1>5. spared > 0 /\ spared' = spared - 1
      /\ UNCHANGED <<task, binding, conflicts, google, execs, pulled, texts, seen>>
    BY DEF RequestSync
<1>6. spared' \in 0 .. Disruptions
    BY <1>1, <1>5, SyncConstants DEF TypeOK
<1> QED
    BY <1>1, <1>4, <1>5, <1>6, OutboxStepSound

-----------------------------------------------------------------------------
(* The task API.                                                           *)

\* A write: a new revision, and at most one event, made of it.
LEMMA WriteSound ==
    ASSUME IInv, NEW t, NEW scheduled \in BOOLEAN, Write(t, scheduled),
           t \in [rev : Nat, text : Texts, dated : BOOLEAN], t.rev = task.rev + 1,
           t.text \in seen', seen \subseteq seen', seen' \subseteq Texts, texts' \in Texts
    PROVE  IInv'
<1>1. /\ TypeOK /\ task' = t /\ outbox' = Owed(t, scheduled)
      /\ task.rev < MaxRevision /\ Len(outbox) < MaxEvents
      /\ UNCHANGED <<binding, conflicts, google, execs, pulled, spared>>
    BY DEF IInv, Write
<1>2. task.rev \in Nat /\ MaxRevision \in Nat /\ t.rev \in Nat /\ t.text \in Texts
      /\ t.rev <= MaxRevision /\ t.dated \in BOOLEAN
    BY <1>1, TypedState, SyncConstants
<1>3. task' \in [rev : 0 .. MaxRevision, text : Texts, dated : BOOLEAN]
    BY <1>1, <1>2
<1>4. \/ outbox' = outbox
      \/ \E type \in EventTypes : outbox' = Enqueued(type, t, "task")
    BY <1>1 DEF Owed, EventTypes
<1>5. /\ outbox' \in Seq(Event) /\ Len(outbox') <= MaxEvents
      /\ DOMAIN outbox \subseteq DOMAIN outbox'
      /\ \A e \in DOMAIN outbox : outbox'[e] = outbox[e]
      /\ \A e \in DOMAIN outbox' \ DOMAIN outbox :
            /\ outbox'[e].rev = t.rev /\ outbox'[e].text = IF t.dated THEN t.text ELSE None
            /\ outbox'[e].attempts <= MaxAttempts
    <2>1. CASE outbox' = outbox
        BY <1>1, <2>1 DEF TypeOK
    <2>2. ASSUME NEW type \in EventTypes, outbox' = Enqueued(type, t, "task")
          PROVE  <1>5!:
        <3> DEFINE v == [type |-> type, rev |-> t.rev, text |-> IF t.dated THEN t.text ELSE None,
                         why |-> "task", status |-> "pending", attempts |-> 0, lease |-> 0]
        <3>1. v \in Event /\ v.attempts <= MaxAttempts
            BY <1>2, MadeEvent
        <3>2. v.rev = t.rev /\ v.text = IF t.dated THEN t.text ELSE None
            OBVIOUS
        <3>3. outbox' = Append(outbox, v)
            BY <2>2 DEF Enqueued
        <3> HIDE DEF v
        <3> QED
            BY <1>1, <3>1, <3>2, <3>3, OutboxAppended
    <2> QED
        BY <1>4, <2>1, <2>2
<1>6. TypeOK'
    <2>1. \A e \in DOMAIN outbox' : outbox'[e].attempts <= MaxAttempts
        BY <1>1, <1>5 DEF TypeOK
    <2> QED
        BY <1>1, <1>3, <1>5, <2>1 DEF TypeOK
<1>7. KeepsEvents
    BY <1>5 DEF KeepsEvents
<1>8. ASSUME NEW e \in DOMAIN outbox'
      PROVE  EventSound(outbox[e])'
    <2>1. CASE e \in DOMAIN outbox
        <3>1. outbox[e] \in Event /\ EventSound(outbox[e]) /\ outbox'[e] = outbox[e]
            BY <1>1, <1>5, <2>1, OutboxPositions DEF IInv
        <3> QED
            BY <1>1, <3>1, EventStays DEF EventSound
    <2>2. CASE e \notin DOMAIN outbox
        BY <1>1, <1>2, <1>5, <2>2 DEF EventSound
    <2> QED
        BY <2>1, <2>2
<1>9. \A x \in Executions : ExecutionSound(x)'
    BY <1>1, <1>7, ExecutionStays DEF IInv
<1>10. \A c \in pulled' : ChangeSound(c)'
    BY <1>1, ChangeStays DEF IInv
<1>11. \A k \in conflicts' : ConflictSound(k)'
    BY <1>1, ConflictStays DEF IInv
<1>12. BindingSound' /\ BindingIsTruthful'
    BY <1>1, BindingStays DEF IInv
<1>13. task'.text \in seen' /\ (google'.etag = 0 => google'.text \in seen')
    BY <1>1 DEF IInv
<1> QED
    BY <1>6, <1>8, <1>9, <1>10, <1>11, <1>12, <1>13 DEF IInv

LEMMA EditIsSound ==
    ASSUME IInv, Edit
    PROVE  IInv'
<1> DEFINE t1 == [task EXCEPT !.rev = @ + 1, !.text = texts']
           t2 == [task EXCEPT !.rev = @ + 1, !.text = texts', !.dated = TRUE]
<1>1. /\ TypeOK /\ texts < MaxTexts /\ texts' = texts + 1 /\ seen' = seen \cup {texts'}
      /\ Write(t1, FALSE) \/ Write(t2, TRUE)
    BY DEF IInv, Edit
<1>2. texts' \in Texts /\ texts' \in Nat /\ seen' \subseteq Texts /\ seen \subseteq seen' /\ texts' \in seen'
    BY <1>1, SyncConstants DEF TypeOK, Texts
<1>3. task \in [rev : 0 .. MaxRevision, text : Texts, dated : BOOLEAN] /\ task.rev + 1 \in Nat
    BY <1>1, TypedState DEF TypeOK
<1>4. /\ t1 \in [rev : Nat, text : Texts, dated : BOOLEAN] /\ t1.rev = task.rev + 1 /\ t1.text = texts'
      /\ t2 \in [rev : Nat, text : Texts, dated : BOOLEAN] /\ t2.rev = task.rev + 1 /\ t2.text = texts'
    BY <1>2, <1>3
<1> HIDE DEF t1, t2
<1>5. CASE Write(t1, FALSE)
    BY <1>2, <1>4, <1>5, WriteSound
<1>6. CASE Write(t2, TRUE)
    BY <1>2, <1>4, <1>6, WriteSound
<1> QED
    BY <1>1, <1>5, <1>6

LEMMA ClearScheduleSound ==
    ASSUME IInv, ClearSchedule
    PROVE  IInv'
<1> DEFINE t == [task EXCEPT !.rev = @ + 1, !.dated = FALSE]
<1>1. TypeOK /\ Write(t, TRUE) /\ UNCHANGED <<texts, seen>>
    BY DEF IInv, ClearSchedule
<1>2. /\ task \in [rev : 0 .. MaxRevision, text : Texts, dated : BOOLEAN] /\ task.rev + 1 \in Nat
      /\ task.text \in seen /\ seen \subseteq Texts /\ texts \in Texts
    BY <1>1, TypedState DEF IInv, TypeOK
<1>3. t \in [rev : Nat, text : Texts, dated : BOOLEAN] /\ t.rev = task.rev + 1 /\ t.text = task.text
    BY <1>2
<1> HIDE DEF t
<1> QED
    BY <1>1, <1>2, <1>3, WriteSound

-----------------------------------------------------------------------------
(* Google.                                                                 *)

\* Google has another version.
LEMMA GoogleStepSound ==
    ASSUME IInv, UNCHANGED <<task, binding, outbox, conflicts, pulled, seen>>,
           google' \in Change, google'.etag = google.etag + 1, texts' \in Texts,
           execs' \in [Executions -> Execution], spared' \in 0 .. Disruptions,
           \A x \in Executions : ExecutionSound(x)'
    PROVE  IInv'
<1>1. TypeOK /\ KeepsEvents /\ google.etag \in Nat
    BY TypedState DEF IInv, KeepsEvents
<1>2. TypeOK'
    BY <1>1 DEF TypeOK
<1>3. \A e \in DOMAIN outbox' : EventSound(outbox[e])'
    BY <1>1, EventsStay DEF IInv
<1>4. \A c \in pulled' : ChangeSound(c)'
    BY <1>1, ChangeStays DEF IInv
<1>5. \A k \in conflicts' : ConflictSound(k)'
    BY <1>1, ConflictStays DEF IInv
<1>6. BindingSound' /\ BindingIsTruthful'
    BY <1>1, BindingStays DEF IInv
<1>7. task'.text \in seen' /\ google'.etag # 0
    BY <1>1 DEF IInv
<1> QED
    BY <1>2, <1>3, <1>4, <1>5, <1>6, <1>7 DEF IInv

LEMMA GoogleEditSound ==
    ASSUME IInv, GoogleEdit
    PROVE  IInv'
<1>1. /\ TypeOK /\ KeepsEvents
      /\ UNCHANGED <<task, binding, outbox, conflicts, execs, pulled, spared, seen>>
    BY DEF IInv, GoogleEdit, KeepsEvents
<1>2. google \in Change /\ google.etag + 1 \in Nat /\ texts \in 0 .. MaxTexts
    BY <1>1, TypedState DEF TypeOK, Texts
<1>3. google' \in Change /\ google'.etag = google.etag + 1 /\ texts' \in Texts
    <2>1. CASE /\ texts < MaxTexts /\ texts' = texts + 1
               /\ google' = [google EXCEPT !.etag = @ + 1, !.text = texts']
        <3>1. texts' \in Texts
            BY <1>2, <2>1, SyncConstants DEF Texts
        <3> QED
            BY <1>2, <2>1, <3>1 DEF Change, Etags
    <2>2. CASE google' = [google EXCEPT !.etag = @ + 1, !.alive = FALSE] /\ UNCHANGED texts
        BY <1>2, <2>2 DEF Change, Etags, Texts
    <2> QED
        BY <2>1, <2>2 DEF GoogleEdit
<1>4. \A x \in Executions : ExecutionSound(x)'
    BY <1>1, <1>3, ExecutionStays DEF IInv
<1> QED
    BY <1>1, <1>3, <1>4, GoogleStepSound DEF TypeOK

\* The execution comes back with the new etag, which goes with the text it
\* wrote; of a deletion it brings the etag it sent, which is gone.
LEMMA DispatchSound ==
    ASSUME IInv, NEW x \in Executions, Dispatch(x)
    PROVE  IInv'
<1> DEFINE e == execs[x].event
<1>1. /\ TypeOK /\ KeepsEvents /\ execs[x].at = "claimed" /\ Accepts(e)
      /\ UNCHANGED <<task, binding, outbox, conflicts, pulled, texts, seen>>
    BY DEF IInv, Dispatch, KeepsEvents
<1>2. google.etag \in Nat /\ google \in Change /\ execs \in [Executions -> Execution]
      /\ execs[x] \in Execution /\ texts \in Texts
    BY <1>1, TypedState DEF TypeOK
<1>3. e \in DOMAIN outbox
    BY <1>1 DEF IInv, ExecutionSound
<1>4. outbox[e] \in Event /\ outbox[e].type \in EventTypes /\ outbox[e].text \in Texts \cup {None}
    BY <1>1, <1>3, OutboxPositions, EventFields
<1>5. outbox[e].type # "event_delete" => outbox[e].text # None
    BY <1>1, <1>4 DEF Accepts, EventTypes
<1>6. google' = [etag |-> google.etag + 1, alive |-> outbox[e].type # "event_delete",
                 text |-> IF outbox[e].type = "event_delete" THEN google.text ELSE outbox[e].text]
    BY DEF Dispatch
<1>7. google' \in Change /\ google'.etag = google.etag + 1
      /\ (outbox[e].type # "event_delete" => google'.text = outbox[e].text)
    BY <1>2, <1>4, <1>5, <1>6 DEF Change, Etags
<1>8. ASSUME NEW r \in Execution, execs' = [execs EXCEPT ![x] = r], r.event = e,
             (r.at = "done" /\ r.etag = AnswerTo(e)) \/ r.at = "failed"
      PROVE  \A y \in Executions : ExecutionSound(y)'
    <2> SUFFICES ASSUME NEW y \in Executions PROVE ExecutionSound(y)'
        OBVIOUS
    <2>1. CASE y # x
        <3>1. execs'[y] = execs[y] /\ ExecutionSound(y)
            BY <1>2, <1>8, <2>1 DEF IInv
        <3> QED
            BY <1>1, <1>7, <3>1, ExecutionStays
    <2>2. CASE y = x
        <3>1. execs'[y] = r
            BY <1>2, <1>8, <2>2
        <3> QED
            BY <1>1, <1>2, <1>3, <1>4, <1>5, <1>7, <1>8, <3>1 DEF ExecutionSound, AnswerTo, Knows
    <2> QED
        BY <2>1, <2>2
<1>9. CASE execs' = [execs EXCEPT ![x].at = "done", ![x].etag = AnswerTo(e)] /\ UNCHANGED spared
    <2> DEFINE r == [execs[x] EXCEPT !.at = "done", !.etag = AnswerTo(e)]
    <2>1. AnswerTo(e) \in Nat
        BY <1>2 DEF AnswerTo
    <2>2. r \in Execution /\ r.at = "done" /\ r.etag = AnswerTo(e) /\ r.event = e
        BY <1>2, <2>1 DEF Execution, Etags
    <2>3. execs' = [execs EXCEPT ![x] = r]
        BY <1>2, <1>9
    <2> HIDE DEF r, e
    <2>4. execs' \in [Executions -> Execution]
        BY <1>2, <2>2, <2>3
    <2> QED
        BY <1>1, <1>2, <1>7, <1>8, <1>9, <2>2, <2>3, <2>4, GoogleStepSound DEF TypeOK
<1>10. CASE spared > 0 /\ spared' = spared - 1 /\ execs' = [execs EXCEPT ![x].at = "failed"]
    <2> DEFINE r == [execs[x] EXCEPT !.at = "failed"]
    <2>1. r \in Execution /\ r.at = "failed" /\ r.event = e
        BY <1>2 DEF Execution
    <2>2. execs' = [execs EXCEPT ![x] = r]
        BY <1>2, <1>10
    <2> HIDE DEF r, e
    <2>3. execs' \in [Executions -> Execution]
        BY <1>2, <2>1, <2>2
    <2>4. spared' \in 0 .. Disruptions
        BY <1>1, <1>10, SyncConstants DEF TypeOK
    <2> QED
        BY <1>1, <1>2, <1>7, <1>8, <2>1, <2>2, <2>3, <2>4, GoogleStepSound
<1> QED
    BY <1>9, <1>10 DEF Dispatch

LEMMA PullSound ==
    ASSUME IInv, Pull
    PROVE  IInv'
<1>1. /\ TypeOK /\ KeepsEvents /\ google \in Change /\ google.etag \in Nat
      /\ pulled' = pulled \cup {google}
      /\ UNCHANGED <<task, binding, outbox, conflicts, google, execs, texts, spared, seen>>
    BY TypedState DEF IInv, Pull, KeepsEvents, TypeOK
<1>2. TypeOK'
    BY <1>1 DEF TypeOK
<1>3. \A c \in pulled' : ChangeSound(c)'
    BY <1>1 DEF IInv, ChangeSound
<1>4. /\ \A e \in DOMAIN outbox' : EventSound(outbox[e])'
      /\ \A x \in Executions : ExecutionSound(x)'
      /\ \A k \in conflicts' : ConflictSound(k)'
      /\ BindingSound' /\ BindingIsTruthful'
    BY <1>1, EventsStay, ExecutionStays, ConflictStays, BindingStays DEF IInv
<1> QED
    BY <1>1, <1>2, <1>3, <1>4 DEF IInv

-----------------------------------------------------------------------------
(* Answers, changes and decisions: what they do to the binding.            *)

\* What these steps have in common: Google is as it was, the task is as it was
\* or has a new revision, and new events and conflicts are sound.
LEMMA DecisionSound ==
    ASSUME IInv, UNCHANGED <<google, texts, spared>>, pulled' \subseteq pulled,
           seen \subseteq seen', seen' \subseteq Texts,
           task' \in [rev : 0 .. MaxRevision, text : Texts, dated : BOOLEAN],
           task' = task \/ task'.rev = task.rev + 1, task'.text \in seen',
           outbox' \in Seq(Event), Len(outbox') <= MaxEvents, KeepsEvents,
           \A e \in DOMAIN outbox' : outbox'[e].attempts <= MaxAttempts,
           \A e \in DOMAIN outbox' \ DOMAIN outbox : EventSound(outbox[e])',
           execs' \in [Executions -> Execution],
           \A x \in Executions : execs'[x] = execs[x] \/ execs'[x] = Idle,
           binding' \in Binding \cup {None}, BindingSound', BindingIsTruthful',
           \A k \in conflicts' : k \in Conflict /\ ConflictSound(k)'
    PROVE  IInv'
<1>1. TypeOK
    BY DEF IInv
<1>2. TypeOK'
    BY <1>1 DEF TypeOK
<1>3. ASSUME NEW e \in DOMAIN outbox'
      PROVE  EventSound(outbox[e])'
    <2>1. CASE e \in DOMAIN outbox
        <3>1. outbox[e] \in Event /\ EventSound(outbox[e])
            BY <1>1, <2>1, OutboxPositions DEF IInv
        <3>2. outbox'[e].rev = outbox[e].rev /\ outbox'[e].text = outbox[e].text
            BY <2>1 DEF KeepsEvents
        <3> QED
            BY <1>1, <3>1, <3>2, EventStays DEF EventSound
    <2> QED
        BY <2>1
<1>4. ASSUME NEW x \in Executions
      PROVE  ExecutionSound(x)'
    <2>1. CASE execs'[x] = execs[x]
        BY <1>1, <2>1, ExecutionStays DEF IInv
    <2>2. CASE execs'[x] = Idle
        BY <2>2 DEF ExecutionSound, Idle
    <2> QED
        BY <2>1, <2>2
<1>5. \A c \in pulled' : ChangeSound(c)'
    BY <1>1, ChangeStays DEF IInv
<1>6. google'.etag = 0 => google'.text \in seen'
    BY DEF IInv
<1> QED
    BY <1>2, <1>3, <1>4, <1>5, <1>6 DEF IInv

\* The parts of DecisionSound that hold of an outbox that is left alone.
LEMMA OutboxAlone ==
    ASSUME TypeOK, UNCHANGED outbox
    PROVE  /\ outbox' \in Seq(Event) /\ Len(outbox') <= MaxEvents /\ KeepsEvents
           /\ \A e \in DOMAIN outbox' : outbox'[e].attempts <= MaxAttempts
           /\ \A e \in DOMAIN outbox' \ DOMAIN outbox : EventSound(outbox[e])'
BY DEF TypeOK, KeepsEvents

\* The same of an outbox with an event of the task as it is.
LEMMA OutboxAsked ==
    ASSUME IInv, UNCHANGED <<task, seen>>, Len(outbox) < MaxEvents,
           NEW type \in EventTypes, NEW why \in {"task", "conflict", "recreate"},
           outbox' = Enqueued(type, task, why)
    PROVE  /\ outbox' \in Seq(Event) /\ Len(outbox') <= MaxEvents /\ KeepsEvents
           /\ \A e \in DOMAIN outbox' : outbox'[e].attempts <= MaxAttempts
           /\ \A e \in DOMAIN outbox' \ DOMAIN outbox : EventSound(outbox[e])'
<1> DEFINE v == [type |-> type, rev |-> task.rev, text |-> IF task.dated THEN task.text ELSE None,
                 why |-> why, status |-> "pending", attempts |-> 0, lease |-> 0]
<1>1. /\ TypeOK /\ task.rev \in Nat /\ task.text \in Texts /\ task.text \in seen
      /\ \A e \in DOMAIN outbox : outbox[e].attempts <= MaxAttempts
    BY TypedState DEF IInv, TypeOK
<1>2. v \in Event /\ v.attempts <= MaxAttempts
    BY <1>1, MadeEvent
<1>3. v.rev = task.rev /\ v.text = IF task.dated THEN task.text ELSE None
    OBVIOUS
<1>4. outbox' = Append(outbox, v)
    BY DEF Enqueued
<1> HIDE DEF v
<1>5. /\ outbox' \in Seq(Event) /\ Len(outbox') <= MaxEvents
      /\ DOMAIN outbox \subseteq DOMAIN outbox'
      /\ \A e \in DOMAIN outbox : outbox'[e] = outbox[e]
      /\ \A e \in DOMAIN outbox' : e \in DOMAIN outbox \/ outbox'[e] = v
    BY <1>1, <1>2, <1>4, OutboxAppended
<1>6. ASSUME NEW e \in DOMAIN outbox' \ DOMAIN outbox
      PROVE  EventSound(outbox[e])'
    BY <1>1, <1>3, <1>5 DEF EventSound
<1> QED
    BY <1>1, <1>2, <1>5, <1>6 DEF KeepsEvents

LEMMA AcknowledgeSound ==
    ASSUME IInv, NEW x \in Executions, Acknowledge(x)
    PROVE  IInv'
<1> DEFINE e == execs[x].event
<1>1. /\ TypeOK /\ execs[x].at \in {"done", "failed"} /\ ExecutionSound(x)
      /\ execs' = [execs EXCEPT ![x] = Idle]
      /\ UNCHANGED <<task, conflicts, google, pulled, texts, spared, seen>>
    BY DEF IInv, Acknowledge
<1>2. /\ execs \in [Executions -> Execution] /\ outbox \in Seq(Event) /\ Len(outbox) <= MaxEvents
      /\ outbox \in [DOMAIN outbox -> Event] /\ binding \in Binding \cup {None}
      /\ \A d \in DOMAIN outbox : outbox[d].attempts <= MaxAttempts
    BY <1>1, OutboxPositions DEF TypeOK
<1>3. e \in DOMAIN outbox /\ outbox[e] \in Event
    BY <1>1, <1>2 DEF ExecutionSound
<1>4. /\ execs' \in [Executions -> Execution]
      /\ \A y \in Executions : execs'[y] = execs[y] \/ execs'[y] = Idle
    <2>1. Idle \in Execution
        BY DEF Idle, Execution, Etags
    <2> QED
        BY <1>1, <1>2, <2>1
<1>5. /\ outbox' \in Seq(Event) /\ Len(outbox') <= MaxEvents
      /\ KeepsEvents /\ DOMAIN outbox' = DOMAIN outbox
      /\ \A d \in DOMAIN outbox : outbox'[d].attempts <= MaxAttempts
    <2>1. CASE outbox' = outbox
        BY <1>2, <2>1 DEF KeepsEvents
    <2>2. ASSUME NEW s \in {"delivered", "dead_letter", "pending"},
                 outbox' = [outbox EXCEPT ![e].status = s]
          PROVE  /\ outbox' \in Seq(Event) /\ Len(outbox') <= MaxEvents
                 /\ KeepsEvents /\ DOMAIN outbox' = DOMAIN outbox
                 /\ \A d \in DOMAIN outbox : outbox'[d].attempts <= MaxAttempts
        <3> DEFINE v == [outbox[e] EXCEPT !.status = s]
        <3>1. /\ v \in Event /\ v.attempts = outbox[e].attempts
              /\ v.type = outbox[e].type /\ v.rev = outbox[e].rev /\ v.text = outbox[e].text
            BY <1>3 DEF Event
        <3>2. outbox' = [outbox EXCEPT ![e] = v]
            BY <2>2
        <3> HIDE DEF v, e
        <3>3. outbox' \in [DOMAIN outbox -> Event]
            BY <1>2, <3>1, <3>2
        <3> QED
            BY <1>1, <1>2, <1>3, <3>1, <3>2, <3>3, OutboxInPlace DEF KeepsEvents
    <2> QED
        BY <2>1, <2>2 DEF Acknowledge, AnsweredStatus
<1>6. \A k \in conflicts' : k \in Conflict /\ ConflictSound(k)'
    BY <1>1, ConflictStays DEF IInv, TypeOK
<1>7. binding' \in Binding \cup {None} /\ BindingSound' /\ BindingIsTruthful'
    <2>1. CASE binding' = binding
        BY <1>1, <1>2, <2>1, BindingStays DEF IInv
    <2>2. CASE execs[x].at = "done" /\ binding' = Bound(e, execs[x].etag)
        <3>1. /\ google.etag \in Nat /\ task.rev \in Nat /\ execs[x].etag \in Nat
              /\ outbox[e].rev \in Nat /\ EventSound(outbox[e])
              /\ binding # None => binding \in Binding /\ binding.rev \in Nat /\ binding.rev <= task.rev
            BY <1>1, <1>3, EventFields, TypedState DEF IInv, BindingSound
        <3>2. CASE outbox[e].type = "event_delete"
            <4>1. execs[x].etag < google.etag
                BY <1>1, <2>2, <3>2 DEF ExecutionSound
            <4>2. CASE binding = None
                BY <2>2, <3>2, <4>2 DEF Bound, BindingSound, BindingIsTruthful
            <4>3. CASE binding # None
                <5>1. binding' = [binding EXCEPT !.gone = TRUE, !.etag = execs[x].etag]
                    BY <2>2, <3>2, <4>3 DEF Bound
                <5>2. binding' \in Binding /\ binding'.etag = execs[x].etag /\ binding'.rev = binding.rev
                    BY <3>1, <4>3, <5>1 DEF Binding, Etags
                <5> QED
                    BY <1>1, <3>1, <4>1, <4>3, <5>2 DEF BindingSound, BindingIsTruthful
            <4> QED
                BY <4>2, <4>3
        <3>3. CASE outbox[e].type # "event_delete"
            <4>1. outbox[e].text # None /\ Knows(execs[x].etag, outbox[e].text)
                BY <1>1, <2>2, <3>3 DEF ExecutionSound
            <4>2. binding' = [etag |-> execs[x].etag, rev |-> outbox[e].rev, gone |-> FALSE]
                BY <2>2, <3>3 DEF Bound
            <4>3. binding' \in Binding /\ binding'.etag = execs[x].etag /\ binding'.rev = outbox[e].rev
                BY <3>1, <4>2 DEF Binding, Etags
            <4> QED
                BY <1>1, <3>1, <4>1, <4>3 DEF BindingSound, BindingIsTruthful, Knows, EventSound
        <3> QED
            BY <3>2, <3>3
    <2> QED
        BY <2>1, <2>2 DEF Acknowledge
<1> HIDE DEF e
<1>8. /\ task' \in [rev : 0 .. MaxRevision, text : Texts, dated : BOOLEAN] /\ task'.text \in seen'
      /\ seen' \subseteq Texts
    BY <1>1 DEF IInv, TypeOK
<1> QED
    BY <1>1, <1>4, <1>5, <1>6, <1>7, <1>8, DecisionSound

\* The task takes a text that goes with an etag: binding and task agree on it.
LEMMA AgreementSound ==
    ASSUME IInv, NEW etag \in Nat, NEW text \in Texts, Knows(etag, text), text \in seen',
           UNCHANGED <<google, outbox, execs, texts, spared>>, pulled' \subseteq pulled,
           seen \subseteq seen', seen' \subseteq Texts, binding # None, task.rev < MaxRevision,
           task' = [rev |-> task.rev + 1, text |-> text, dated |-> TRUE],
           binding' = [binding EXCEPT !.etag = etag, !.rev = task'.rev],
           \A k \in conflicts' : k \in Conflict /\ ConflictSound(k)'
    PROVE  IInv'
<1>1. /\ TypeOK /\ task.rev \in Nat /\ MaxRevision \in Nat /\ task.rev + 1 \in Nat
      /\ google.etag \in Nat /\ binding \in Binding
    BY TypedState, SyncConstants DEF IInv
<1>2. /\ task' \in [rev : 0 .. MaxRevision, text : Texts, dated : BOOLEAN]
      /\ task'.rev = task.rev + 1 /\ task'.rev \in Nat /\ task'.text = text /\ task'.dated
    BY <1>1
<1>3. binding' \in Binding /\ binding'.etag = etag /\ binding'.rev = task'.rev
    BY <1>1, <1>2 DEF Binding, Etags
<1>4. BindingSound' /\ BindingIsTruthful'
    BY <1>1, <1>2, <1>3 DEF BindingSound, BindingIsTruthful, Knows
<1>5. execs' \in [Executions -> Execution]
    BY <1>1 DEF TypeOK
<1> QED
    BY <1>1, <1>2, <1>3, <1>4, <1>5, OutboxAlone, DecisionSound

LEMMA ApplySound ==
    ASSUME IInv, NEW c \in pulled, Apply(c)
    PROVE  IInv'
<1>1. /\ TypeOK /\ ChangeSound(c) /\ pulled' \subseteq pulled /\ google \in Change
      /\ UNCHANGED <<outbox, google, execs, texts, spared>>
    BY DEF IInv, Apply, TypeOK
<1>2. /\ c \in Change /\ c.etag \in Nat /\ c.text \in Texts /\ google.etag \in Nat
      /\ task.rev \in Nat /\ Knows(c.etag, c.text)
      /\ seen \subseteq Texts /\ task.text \in seen
      /\ task \in [rev : 0 .. MaxRevision, text : Texts, dated : BOOLEAN]
      /\ conflicts \subseteq Conflict /\ binding \in Binding \cup {None}
      /\ execs \in [Executions -> Execution]
    <2>1. c.etag <= google.etag /\ (c.etag = google.etag => c = google)
        BY <1>1 DEF ChangeSound
    <2> QED
        BY <1>1, <2>1, TypedState DEF IInv, TypeOK, Knows
<1>3. \A k \in conflicts : seen \subseteq seen' => k \in Conflict /\ ConflictSound(k)'
    BY <1>1, <1>2, ConflictStays DEF IInv
<1>4. CASE UNCHANGED <<task, binding, conflicts, seen>>
    BY <1>1, <1>2, <1>3, <1>4, BindingStays, OutboxAlone, DecisionSound DEF IInv
<1>5. CASE /\ binding # None /\ ~ c.alive /\ binding' = [binding EXCEPT !.etag = c.etag, !.gone = TRUE]
           /\ UNCHANGED <<task, conflicts, seen>>
    <2>1. binding \in Binding /\ binding.rev \in Nat /\ binding.rev <= task.rev
        BY <1>1, <1>5, TypedState DEF IInv, BindingSound
    <2>2. binding' \in Binding /\ binding'.etag = c.etag /\ binding'.rev = binding.rev
        BY <1>2, <1>5, <2>1 DEF Binding, Etags
    <2>3. c.etag = google.etag => ~ google.alive
        BY <1>1, <1>5 DEF ChangeSound
    <2>4. BindingSound' /\ BindingIsTruthful'
        BY <1>1, <1>2, <1>5, <2>1, <2>2, <2>3 DEF BindingSound, BindingIsTruthful, Knows
    <2> QED
        BY <1>1, <1>2, <1>3, <1>5, <2>2, <2>4, OutboxAlone, DecisionSound
<1>6. CASE Conflicts(c)
    <2> DEFINE k == [rev |-> task.rev, etag |-> c.etag, text |-> c.text, status |-> "open"]
    <2>1. /\ conflicts' = conflicts \/ conflicts' = conflicts \cup {k}
          /\ seen' = seen \cup {c.text} /\ UNCHANGED <<task, binding>>
        BY <1>6 DEF Conflicts
    <2>2. ASSUME NEW j, j = k
          PROVE  j \in Conflict /\ ConflictSound(j)'
        BY <1>1, <1>2, <2>1, <2>2 DEF Conflict, ConflictSound, Knows, Etags
    <2> HIDE DEF k
    <2>3. \A j \in conflicts' : j \in Conflict /\ ConflictSound(j)'
        BY <1>3, <2>1, <2>2
    <2>4. BindingSound' /\ BindingIsTruthful'
        BY <1>1, <2>1, BindingStays DEF IInv
    <2> QED
        BY <1>1, <1>2, <2>1, <2>3, <2>4, OutboxAlone, DecisionSound
<1>7. CASE binding # None /\ RewritesTask(c)
    <2>1. /\ task.rev < MaxRevision
          /\ task' = [rev |-> task.rev + 1, text |-> c.text, dated |-> TRUE]
          /\ binding' = [binding EXCEPT !.etag = c.etag, !.rev = task'.rev]
          /\ seen' = seen \cup {c.text} /\ UNCHANGED conflicts
        BY <1>7 DEF RewritesTask
    <2>2. /\ c.text \in seen' /\ seen \subseteq seen' /\ seen' \subseteq Texts
          /\ \A k \in conflicts' : k \in Conflict /\ ConflictSound(k)'
        BY <1>2, <1>3, <2>1
    <2> QED
        BY <1>1, <1>2, <1>7, <2>1, <2>2, AgreementSound
<1> QED
    BY <1>4, <1>5, <1>6, <1>7 DEF Apply

\* A conflict that is resolved is the same conflict.
LEMMA ResolvedStays ==
    ASSUME TypeOK, \A k \in conflicts : ConflictSound(k), NEW k \in conflicts,
           NEW status \in {"resolved_local", "resolved_provider"},
           conflicts' = Resolved(k, status), UNCHANGED <<google, seen>>
    PROVE  \A j \in conflicts' : j \in Conflict /\ ConflictSound(j)'
<1> DEFINE r == [k EXCEPT !.status = status]
<1>1. k \in Conflict
    BY TypedState
<1>2. r \in Conflict /\ r.etag = k.etag /\ r.text = k.text
    BY <1>1 DEF Conflict
<1>3. conflicts' \subseteq conflicts \cup {r}
    BY DEF Resolved
<1>4. ConflictSound(k)
    OBVIOUS
<1> HIDE DEF r
<1>5. r \in Conflict /\ ConflictSound(r)'
    BY <1>2, <1>4 DEF ConflictSound, Knows
<1>6. \A j \in conflicts : j \in Conflict /\ ConflictSound(j)'
    BY ConflictStays, TypedState
<1> QED
    BY <1>3, <1>5, <1>6

LEMMA ResolveForGoogleSound ==
    ASSUME IInv, NEW k \in conflicts, ResolveForGoogle(k)
    PROVE  IInv'
<1>1. /\ TypeOK /\ ConflictSound(k) /\ seen \subseteq Texts
      /\ binding # None /\ task.rev < MaxRevision
      /\ task' = [rev |-> task.rev + 1, text |-> k.text, dated |-> TRUE]
      /\ binding' = [binding EXCEPT !.etag = k.etag, !.rev = task'.rev]
      /\ conflicts' = Resolved(k, "resolved_provider")
      /\ UNCHANGED <<outbox, google, execs, pulled, texts, spared, seen>>
    BY DEF IInv, TypeOK, ResolveForGoogle
<1>2. k.etag \in Nat /\ k.text \in Texts /\ k.text \in seen' /\ Knows(k.etag, k.text)
    BY <1>1, TypedState DEF ConflictSound
<1>3. \A j \in conflicts' : j \in Conflict /\ ConflictSound(j)'
    BY <1>1, ResolvedStays DEF IInv
<1> QED
    BY <1>1, <1>2, <1>3, AgreementSound

LEMMA ResolveForEisenhowerSound ==
    ASSUME IInv, NEW k \in conflicts, ResolveForEisenhower(k)
    PROVE  IInv'
<1>1. /\ TypeOK /\ Len(outbox) < MaxEvents
      /\ outbox' = Enqueued("event_update", task, "conflict")
      /\ conflicts' = Resolved(k, "resolved_local")
      /\ UNCHANGED <<task, binding, google, execs, pulled, texts, spared, seen>>
    BY DEF IInv, ResolveForEisenhower
<1>2. \A j \in conflicts' : j \in Conflict /\ ConflictSound(j)'
    BY <1>1, ResolvedStays DEF IInv
<1>3. /\ seen \subseteq Texts /\ task.text \in seen /\ execs \in [Executions -> Execution]
      /\ task \in [rev : 0 .. MaxRevision, text : Texts, dated : BOOLEAN]
      /\ binding \in Binding \cup {None}
    BY <1>1 DEF IInv, TypeOK
<1>4. BindingSound' /\ BindingIsTruthful'
    BY <1>1, BindingStays DEF IInv
<1>5. /\ outbox' \in Seq(Event) /\ Len(outbox') <= MaxEvents /\ KeepsEvents
      /\ \A e \in DOMAIN outbox' : outbox'[e].attempts <= MaxAttempts
      /\ \A e \in DOMAIN outbox' \ DOMAIN outbox : EventSound(outbox[e])'
    BY <1>1, OutboxAsked DEF EventTypes
<1> QED
    BY <1>1, <1>2, <1>3, <1>4, <1>5, DecisionSound

\* The binding is given up: there is nothing to be true of.
LEMMA UnboundSound ==
    ASSUME IInv, binding' = None, task' = task \/ task'.rev = task.rev + 1, task'.text = task.text,
           task' \in [rev : 0 .. MaxRevision, text : Texts, dated : BOOLEAN],
           UNCHANGED <<outbox, conflicts, google, execs, pulled, texts, spared, seen>>
    PROVE  IInv'
<1>1. /\ TypeOK /\ seen \subseteq Texts /\ task.text \in seen /\ execs \in [Executions -> Execution]
    BY DEF IInv, TypeOK
<1>2. \A k \in conflicts' : k \in Conflict /\ ConflictSound(k)'
    BY <1>1, ConflictStays, TypedState DEF IInv
<1>3. BindingSound' /\ BindingIsTruthful'
    BY DEF BindingSound, BindingIsTruthful
<1> QED
    BY <1>1, <1>2, <1>3, OutboxAlone, DecisionSound

LEMMA ClearDateSound ==
    ASSUME IInv, ClearDate
    PROVE  IInv'
<1>1. /\ task \in [rev : 0 .. MaxRevision, text : Texts, dated : BOOLEAN]
      /\ task.rev < MaxRevision /\ task.rev \in Nat /\ MaxRevision \in Nat
      /\ task' = [task EXCEPT !.rev = @ + 1, !.dated = FALSE] /\ binding' = None
      /\ UNCHANGED <<outbox, conflicts, google, execs, pulled, texts, spared, seen>>
    BY SyncConstants, TypedState DEF ClearDate, IInv, TypeOK
<1>2. task.rev + 1 \in 0 .. MaxRevision
    BY <1>1
<1>3. /\ task' \in [rev : 0 .. MaxRevision, text : Texts, dated : BOOLEAN]
      /\ task'.rev = task.rev + 1 /\ task'.text = task.text
    BY <1>1, <1>2
<1> QED
    BY <1>1, <1>3, UnboundSound

LEMMA DetachSound ==
    ASSUME IInv, Detach
    PROVE  IInv'
<1>1. /\ task' = task /\ binding' = None
      /\ task' \in [rev : 0 .. MaxRevision, text : Texts, dated : BOOLEAN]
      /\ UNCHANGED <<outbox, conflicts, google, execs, pulled, texts, spared, seen>>
    BY DEF Detach, IInv, TypeOK
<1> QED
    BY <1>1, UnboundSound

LEMMA RecreateSound ==
    ASSUME IInv, Recreate
    PROVE  IInv'
<1>1. /\ TypeOK /\ binding # None /\ Len(outbox) < MaxEvents
      /\ outbox' = Enqueued("event_create", task, "recreate")
      /\ binding' = [binding EXCEPT !.gone = FALSE]
      /\ UNCHANGED <<task, conflicts, google, execs, pulled, texts, spared, seen>>
    BY DEF IInv, Recreate
<1>2. binding' \in Binding /\ binding'.etag = binding.etag /\ binding'.rev = binding.rev
    <2>1. binding \in Binding
        BY <1>1, TypedState
    <2> QED
        BY <1>1, <2>1 DEF Binding
<1>3. BindingSound' /\ BindingIsTruthful'
    BY <1>1, <1>2 DEF IInv, BindingSound, BindingIsTruthful
<1>4. \A k \in conflicts' : k \in Conflict /\ ConflictSound(k)'
    BY <1>1, ConflictStays, TypedState DEF IInv
<1>5. /\ seen \subseteq Texts /\ task.text \in seen /\ execs \in [Executions -> Execution]
      /\ task \in [rev : 0 .. MaxRevision, text : Texts, dated : BOOLEAN]
    BY <1>1 DEF IInv, TypeOK
<1>6. /\ outbox' \in Seq(Event) /\ Len(outbox') <= MaxEvents /\ KeepsEvents
      /\ \A e \in DOMAIN outbox' : outbox'[e].attempts <= MaxAttempts
      /\ \A e \in DOMAIN outbox' \ DOMAIN outbox : EventSound(outbox[e])'
    BY <1>1, OutboxAsked DEF EventTypes
<1> QED
    BY <1>1, <1>2, <1>3, <1>4, <1>5, <1>6, DecisionSound

-----------------------------------------------------------------------------
(* The theorems.                                                           *)

LEMMA StutterSound ==
    ASSUME IInv, UNCHANGED vars
    PROVE  IInv'
<1> SUFFICES ASSUME UNCHANGED <<task, binding, outbox, conflicts, google, execs, pulled,
                                texts, spared, seen>>
             PROVE  IInv'
    BY DEF vars
<1> QED
    BY DEF IInv, TypeOK, EventSound, ExecutionSound, ChangeSound, ConflictSound, Knows,
           BindingSound, BindingIsTruthful

LEMMA StepSound ==
    ASSUME IInv, [Next]_vars
    PROVE  IInv'
<1>1. CASE Edit
    BY <1>1, EditIsSound
<1>2. CASE ClearSchedule
    BY <1>2, ClearScheduleSound
<1>3. ASSUME NEW x \in Executions, Execute(x) \/ Vanish(x)
      PROVE  IInv'
    BY <1>3, ClaimSound, DispatchSound, DispatchFailsSound, AcknowledgeSound, VanishSound
       DEF Execute
<1>4. ASSUME NEW e \in DOMAIN outbox, LeaseElapses(e)
      PROVE  IInv'
    BY <1>4, LeaseElapsesSound
<1>5. CASE RequestSync
    BY <1>5, RequestSyncSound
<1>6. CASE GoogleEdit
    BY <1>6, GoogleEditSound
<1>7. CASE Pull
    BY <1>7, PullSound
<1>8. ASSUME NEW c \in pulled, Apply(c)
      PROVE  IInv'
    BY <1>8, ApplySound
<1>9. ASSUME NEW k \in conflicts, ResolveForGoogle(k) \/ ResolveForEisenhower(k)
      PROVE  IInv'
    BY <1>9, ResolveForGoogleSound, ResolveForEisenhowerSound
<1>10. CASE ClearDate
    BY <1>10, ClearDateSound
<1>11. CASE Detach
    BY <1>11, DetachSound
<1>12. CASE Recreate
    BY <1>12, RecreateSound
<1>13. CASE UNCHANGED vars
    BY <1>13, StutterSound
<1> QED
    BY <1>1, <1>2, <1>3, <1>4, <1>5, <1>6, <1>7, <1>8, <1>9, <1>10, <1>11, <1>12, <1>13 DEF Next

LEMMA Inductive == Spec => []IInv
<1>1. IInv /\ [Next]_vars => IInv'
    BY StepSound
<1> QED
    BY InitSound, <1>1, PTL DEF Spec

\* In every behaviour the bindings, the outbox, the conflicts and the pulled
\* changes are what their types say, and no event takes more than the attempts
\* it is allowed (TypeOK).
THEOREM CalendarTypeCorrect == Spec => []TypeOK
<1>1. IInv => TypeOK
    BY DEF IInv
<1> QED
    BY <1>1, Inductive, PTL

\* Where the binding says that the task's revision and the event's etag are the
\* same thing, they are, whatever was acknowledged, applied or decided late
\* (calendar.ts applyInbound, acknowledgeOutbox, resolveConflict).
THEOREM BindingTellsTheTruth == Spec => []BindingIsTruthful
<1>1. IInv => BindingIsTruthful
    BY DEF IInv
<1> QED
    BY <1>1, Inductive, PTL

\* Only a dispatch changes the executions and Google's event at once.
LEMMA OnlyDispatchWrites ==
    ASSUME IInv, [Next]_vars, execs' # execs, google' # google
    PROVE  \E x \in Executions : Dispatch(x)
<1>1. Next
    BY DEF vars
<1>2. CASE Edit \/ ClearSchedule
    BY <1>2 DEF Edit, ClearSchedule, Write
<1>3. ASSUME NEW x \in Executions, Claim(x) \/ DispatchFails(x) \/ Acknowledge(x) \/ Vanish(x)
      PROVE  FALSE
    BY <1>3 DEF Claim, DispatchFails, Acknowledge, Vanish
<1>4. CASE \E e \in DOMAIN outbox : LeaseElapses(e)
    BY <1>4 DEF LeaseElapses
<1>5. CASE RequestSync \/ GoogleEdit \/ Pull \/ ClearDate \/ Detach \/ Recreate
    BY <1>5 DEF RequestSync, GoogleEdit, Pull, ClearDate, Detach, Recreate
<1>6. CASE \E c \in pulled : Apply(c)
    BY <1>6 DEF Apply
<1>7. CASE \E k \in conflicts : ResolveForGoogle(k) \/ ResolveForEisenhower(k)
    BY <1>7 DEF ResolveForGoogle, ResolveForEisenhower
<1> QED
    BY <1>1, <1>2, <1>3, <1>4, <1>5, <1>6, <1>7 DEF Next, Execute

LEMMA WriteKeepsEdits ==
    ASSUME IInv, [Next]_vars
    PROVE  WriteStep
<1> SUFFICES ASSUME execs' # execs, google' # google
             PROVE  google.text \in seen
    BY DEF WriteStep
<1>1. PICK x \in Executions : Dispatch(x)
    BY OnlyDispatchWrites
<1>2. Accepts(execs[x].event)
    BY <1>1 DEF Dispatch
<1>3. execs[x].event \in DOMAIN outbox
    BY <1>1 DEF Dispatch, IInv, ExecutionSound
<1>4. outbox[execs[x].event].type \in EventTypes
    BY <1>3, OutboxPositions, EventFields DEF IInv
<1>5. \/ google.etag = 0
      \/ binding # None /\ google.alive /\ google.etag = binding.etag
    BY <1>2, <1>4 DEF Accepts, EventTypes
<1> QED
    BY <1>5 DEF IInv, BindingSound

\* What somebody wrote at Google is never overwritten unseen: this side has had
\* the text that its write or its deletion replaces (googleCalendar.ts outbound:
\* If-Match on the etag of the binding as it is, a create only under a new id).
THEOREM NoEditIsLost == Spec => GoogleEditsSurvive
<1>1. IInv /\ [Next]_vars => [WriteStep]_vars
    BY WriteKeepsEdits
<1> QED
    BY <1>1, Inductive, PTL DEF Spec, GoogleEditsSurvive

\* The outbox step of an action that delivers nothing.
LEMMA DeliversNothing ==
    ASSUME \A e \in DOMAIN outbox : \/ outbox'[e] = outbox[e]
                                    \/ /\ outbox[e].status # "delivered"
                                       /\ outbox'[e].status # "delivered"
    PROVE  OutboxStep
BY DEF OutboxStep

LEMMA ClaimDeliversNothing ==
    ASSUME IInv, NEW x \in Executions, Claim(x)
    PROVE  OutboxStep
<1>1. TypeOK
    BY DEF IInv
<1>2. Swept \in [DOMAIN outbox -> Event]
    BY <1>1, SweptInPlace
<1>3. \A e \in DOMAIN outbox :
          \/ Swept[e] = outbox[e]
          \/ outbox[e].status # "delivered" /\ Swept[e].status # "delivered"
    <2> SUFFICES ASSUME NEW e \in DOMAIN outbox
                 PROVE  \/ Swept[e] = outbox[e]
                        \/ outbox[e].status # "delivered" /\ Swept[e].status # "delivered"
        OBVIOUS
    <2>1. outbox[e] \in Event
        BY <1>1, OutboxPositions
    <2> QED
        BY <2>1 DEF Swept, Event
<1>4. CASE outbox' = Swept
    BY <1>3, <1>4, DeliversNothing
<1>5. ASSUME NEW e \in DOMAIN outbox, Claimable(e),
             outbox' = [Swept EXCEPT ![e].attempts = @ + 1, ![e].lease = @ + 1,
                           ![e].status = IF Executable(e) THEN "leased" ELSE "dead_letter"]
      PROVE  OutboxStep
    <2> DEFINE v == [Swept[e] EXCEPT !.attempts = @ + 1, !.lease = @ + 1,
                       !.status = IF Executable(e) THEN "leased" ELSE "dead_letter"]
    <2>1. outbox' = [Swept EXCEPT ![e] = v]
        BY <1>2, <1>5
    <2>2. Swept[e] \in Event /\ outbox[e].status # "delivered"
        BY <1>2, <1>5 DEF Claimable
    <2>3. v.status # "delivered"
        BY <2>2 DEF Event
    <2> HIDE DEF v
    <2> QED
        BY <1>2, <1>3, <2>1, <2>2, <2>3, DeliversNothing
<1> QED
    BY <1>4, <1>5 DEF Claim

\* Only the execution that holds the latest lease has its answer taken, and
\* only once, for the event is not leased any more.
LEMMA AcknowledgeDelivers ==
    ASSUME IInv, NEW x \in Executions, Acknowledge(x)
    PROVE  OutboxStep
<1> DEFINE e == execs[x].event
<1>1. TypeOK /\ execs[x].at \in {"done", "failed"} /\ e \in DOMAIN outbox
    BY DEF IInv, Acknowledge, ExecutionSound
<1>2. CASE UNCHANGED outbox
    BY <1>2, DeliversNothing
<1>3. CASE Holds(x) /\ outbox' = [outbox EXCEPT ![e].status = AnsweredStatus(e, execs[x].at = "done")]
    <2> DEFINE v == [outbox[e] EXCEPT !.status = AnsweredStatus(e, execs[x].at = "done")]
    <2>1. outbox \in [DOMAIN outbox -> Event] /\ outbox[e] \in Event
        BY <1>1, OutboxPositions
    <2>2. outbox' = [outbox EXCEPT ![e] = v]
        BY <1>3
    <2>3. /\ outbox[e].status \in {"leased", "expired"} /\ outbox[e].lease = execs[x].lease
          /\ v.status = "delivered" => execs[x].at = "done"
        BY <1>3, <2>1 DEF Holds, AnsweredStatus, Event
    <2>4. execs[x].event = e
        OBVIOUS
    <2> HIDE DEF v, e
    <2>5. /\ outbox'[e] = v
          /\ \A d \in DOMAIN outbox : d # e => outbox'[d] = outbox[d]
        BY <1>1, <2>1, <2>2
    <2> SUFFICES ASSUME NEW d \in DOMAIN outbox
                 PROVE  /\ outbox[d].status = "delivered" => outbox'[d] = outbox[d]
                        /\ outbox[d].status \in {"leased", "expired"} /\ outbox'[d].status = "delivered" =>
                              \E y \in Executions : /\ execs[y].at = "done" /\ execs[y].event = d
                                                    /\ execs[y].lease = outbox[d].lease
        BY DEF OutboxStep
    <2>6. CASE d # e
        BY <2>5, <2>6
    <2>7. CASE d = e
        BY <2>3, <2>4, <2>5, <2>7
    <2> QED
        BY <2>6, <2>7
<1> QED
    BY <1>2, <1>3 DEF Acknowledge

\* A write, a decision: an event more.
LEMMA AskedDeliversNothing ==
    ASSUME TypeOK, NEW type, NEW t, NEW why, outbox' = Enqueued(type, t, why)
    PROVE  OutboxStep
<1> DEFINE v == [type |-> type, rev |-> t.rev, text |-> IF t.dated THEN t.text ELSE None,
                 why |-> why, status |-> "pending", attempts |-> 0, lease |-> 0]
<1>1. outbox \in Seq(Event \cup {v}) /\ DOMAIN outbox = 1 .. Len(outbox)
    BY OutboxPositions, SeqDef DEF TypeOK
<1>2. outbox' = Append(outbox, v)
    BY DEF Enqueued
<1> HIDE DEF v
<1>3. \A e \in DOMAIN outbox : outbox'[e] = outbox[e]
    BY <1>1, <1>2, AppendProperties
<1> QED
    BY <1>3, DeliversNothing

LEMMA OutboxStepTaken ==
    ASSUME IInv, [Next]_vars
    PROVE  OutboxStep
<1>1. TypeOK
    BY DEF IInv
<1>2. CASE UNCHANGED outbox
    BY <1>2, DeliversNothing
<1>3. ASSUME NEW t, NEW scheduled \in BOOLEAN, Write(t, scheduled)
      PROVE  OutboxStep
    BY <1>1, <1>2, <1>3, AskedDeliversNothing DEF Write, Owed
<1>4. ASSUME NEW x \in Executions, Execute(x) \/ Vanish(x)
      PROVE  OutboxStep
    <2>1. CASE Claim(x)
        BY <2>1, ClaimDeliversNothing
    <2>2. CASE Dispatch(x) \/ DispatchFails(x) \/ Vanish(x)
        BY <1>2, <2>2 DEF Dispatch, DispatchFails, Vanish
    <2>3. CASE Acknowledge(x)
        BY <2>3, AcknowledgeDelivers
    <2> QED
        BY <1>4, <2>1, <2>2, <2>3 DEF Execute
<1>5. ASSUME NEW e \in DOMAIN outbox, LeaseElapses(e)
      PROVE  OutboxStep
    <2> DEFINE v == [outbox[e] EXCEPT !.status = "expired"]
    <2>1. outbox \in [DOMAIN outbox -> Event] /\ outbox[e] \in Event /\ outbox[e].status = "leased"
        BY <1>1, <1>5, OutboxPositions DEF LeaseElapses
    <2>2. outbox' = [outbox EXCEPT ![e] = v]
        BY <1>5 DEF LeaseElapses
    <2>3. v.status # "delivered"
        BY <2>1 DEF Event
    <2> HIDE DEF v
    <2> QED
        BY <2>1, <2>2, <2>3, DeliversNothing
<1>6. CASE RequestSync
    <2>1. \A e \in DOMAIN outbox : outbox[e] \in Event
        BY <1>1, OutboxPositions
    <2> SUFFICES ASSUME NEW e \in DOMAIN outbox
                 PROVE  \/ outbox'[e] = outbox[e]
                        \/ outbox[e].status # "delivered" /\ outbox'[e].status # "delivered"
        BY DeliversNothing
    <2>2. CASE outbox[e].status = "dead_letter"
        <3>1. outbox'[e] = [outbox[e] EXCEPT !.status = "pending", !.attempts = 0]
            BY <1>6, <2>2 DEF RequestSync
        <3>2. outbox'[e].status = "pending"
            BY <2>1, <3>1 DEF Event
        <3> QED
            BY <2>2, <3>2
    <2>3. CASE outbox[e].status # "dead_letter"
        BY <1>6, <2>3 DEF RequestSync
    <2> QED
        BY <2>2, <2>3
<1>7. CASE GoogleEdit \/ Pull \/ ClearDate \/ Detach
    BY <1>2, <1>7 DEF GoogleEdit, Pull, ClearDate, Detach
<1>8. CASE \E c \in pulled : Apply(c)
    BY <1>2, <1>8 DEF Apply
<1>9. ASSUME NEW k \in conflicts, ResolveForGoogle(k) \/ ResolveForEisenhower(k)
      PROVE  OutboxStep
    BY <1>1, <1>2, <1>9, AskedDeliversNothing DEF ResolveForGoogle, ResolveForEisenhower
<1>10. CASE Recreate
    BY <1>1, <1>10, AskedDeliversNothing DEF Recreate
<1>11. CASE Edit \/ ClearSchedule
    BY <1>3, <1>11 DEF Edit, ClearSchedule
<1>12. CASE UNCHANGED vars
    BY <1>2, <1>12 DEF vars
<1> QED
    BY <1>4, <1>5, <1>6, <1>7, <1>8, <1>9, <1>10, <1>11, <1>12 DEF Next

\* An event is delivered by the execution of its latest lease, once: neither a
\* stalled execution nor a requeue decides over somebody else's delivery
\* (calendar.ts acknowledgeOutbox: the lease is compared, the status checked).
THEOREM DeliveredOnceByTheHolder == Spec => LatestLeaseDelivers
<1>1. IInv /\ [Next]_vars => [OutboxStep]_vars
    BY OutboxStepTaken
<1> QED
    BY <1>1, Inductive, PTL DEF Spec, LatestLeaseDelivers

-----------------------------------------------------------------------------
(* The phone (MobileSync): the inductive invariant. PartsInv says of every *)
(* list, reply and call on its way that its entries are well formed and    *)
(* that the revisions in it were shown on the phone. LatestInv follows the *)
(* last command through the list, the snapshot of a synchronisation, what  *)
(* is to be sent, what is to follow and the list that will be adopted.     *)
(* SettleInv compares the list of an undisturbed synchronisation with the  *)
(* server.                                                                 *)

MobileEntries(list) == {list[i] : i \in DOMAIN list}

\* A list has one entry of an identity.
IsList(list) ==
    /\ list \in Seq(ListEntry)
    /\ \A i, j \in DOMAIN list : list[i].id = list[j].id => i = j

ValueOf(type, value) == IF type = "create" THEN value \in {"p", "q"} ELSE value \in Values(type)

\* A task of this list has been, or may still be, an addition of the phone.
PhoneIdentities ==
    IF creation.key = 1 \/ remote.kind = "unborn" THEN {"local", "remote"} ELSE {"remote"}

Sound(e, ids) ==
    /\ e.id = "local" <=> e.sync = "create"
    /\ e.id = "local" => "local" \in ids
    /\ e.intent.type \in CommandTypes => e.intent.value \in Values(e.intent.type)
    /\ e.sync = "conflict" => e.intent.type \in CommandTypes
    /\ e.sync \in {"lifecycle", "schedule"} => e.intent.type = e.sync
    /\ e.sync = "schedule" => e.task.schedule = e.intent.value
    /\ e.sync \in {"update", "delete"} => e.intent.type = Unset

Seen(e, revisions) == e.id = "remote" => e.task.revision \in revisions

GoodList(list, ids) == IsList(list) /\ \A e \in MobileEntries(list) : Sound(e, ids)

SeenList(list, ids, revisions) ==
    GoodList(list, ids) /\ \A e \in MobileEntries(list) : Seen(e, revisions)

AnyValue == {"p", "q", "s", Unset} \cup UserActions

AnyType == CommandTypes \cup {"create"}

ReplyRec == [status : {Unset, "ok", "conflict", "error", "lost"}, task : Task]

HandlerRec ==
    [at : {"reminder", "asking", "answered"}, type : AnyType, value : AnyValue,
     entry : ListEntry, list : Seq(ListEntry), reply : ReplyRec]

HandlerOK(h, ids, revisions) ==
    /\ h \in HandlerRec
    /\ ValueOf(h.type, h.value)
    /\ Sound(h.entry, ids) /\ Seen(h.entry, revisions)
    /\ SeenList(h.list, ids, revisions)
    /\ h.at = "reminder" => h.type = "schedule"
    /\ h.at # "reminder" => (h.type = "create" <=> h.entry.id = "local")
    /\ h.type = "create" => h.entry.task.payload = h.value
    /\ h.type = "lifecycle" => CanMove(h.entry.task, h.value)

FlightRec ==
    [stage : {"fetch", "reconcile"}, snapshot : Seq(ListEntry), resolved : Seq(ListEntry),
     todo : Seq(ListEntry), followUp : Seq(ListEntry), boot : BOOLEAN, calm : BOOLEAN]

FollowsUp(e) ==
    /\ e \in ListEntry
    /\ e.id = "remote" /\ e.intent.type = "schedule" /\ e.intent.value = "s"

FlightOK(f, ids, revisions) ==
    /\ f \in FlightRec
    /\ SeenList(f.snapshot, ids, revisions) /\ GoodList(f.resolved, ids)
    /\ SeenList(f.todo, ids, revisions)
    /\ \A e \in MobileEntries(f.todo) : IsPending(e)
    /\ f.followUp # <<>> => Len(f.followUp) = 1 /\ FollowsUp(f.followUp[1])
    /\ f.stage = "fetch" => f.resolved = <<>> /\ f.todo = <<>> /\ f.followUp = <<>>

CallRec == [type : AnyType, value : AnyValue, base : Nat, key : {0, 1}, followUp : BOOLEAN]

CallOK(call, ids, revisions) ==
    /\ call \in CallRec
    /\ ValueOf(call.type, call.value)
    /\ call.type = "create" => call.key = 1 /\ "local" \in ids
    /\ call.type # "create" /\ ~call.followUp => call.base \in revisions

CommandOK(command) ==
    /\ command \in [type : AnyType \cup {Unset}, value : AnyValue]
    /\ command # Closed => command.type \in AnyType /\ ValueOf(command.type, command.value)

ServerInv ==
    /\ remote \in [kind : {"unborn", "live", "gone"}, task : Task]
    /\ creation \in [key : {0, 1}, payload : {"p", "q"}]
    /\ copies = creation.key
    /\ creation.key = 1 => remote.kind # "unborn"
    /\ mishaps \in Nat
    /\ shown \subseteq Nat
    /\ blind = FALSE
    /\ settled \in BOOLEAN
    /\ CommandOK(latest)

HandlersInv ==
    /\ handlers \in Seq(HandlerRec \cup {Returned})
    /\ Len(handlers) <= MaxCommands
    /\ \A n \in Running : HandlerOK(handlers[n], PhoneIdentities, shown)

OriginInv ==
    remote.kind = "unborn" /\ handlers = <<>> =>
        /\ tasks = <<>> /\ stray = {}
        /\ \A f \in flight : /\ f.snapshot = <<>> /\ f.resolved = <<>>
                             /\ f.todo = <<>> /\ f.followUp = <<>>

\* An entry that a flight does not lose.
HasIt(e, command) ==
    CASE command.type = "create" -> e.sync = "create" /\ e.task.payload = command.value
      [] command.type = "update" ->
            \/ e.sync \in {"create", "update"} /\ e.task.payload = command.value
            \/ e.sync = "conflict" /\ e.intent.type = "update" /\ e.intent.value = command.value
      [] command.type = "delete" ->
            e.sync = "delete" \/ (e.sync = "conflict" /\ e.intent.type = "delete")
      [] OTHER -> /\ e.sync # "synced"
                  /\ e.intent.type = command.type /\ e.intent.value = command.value
                  /\ command.type = "lifecycle" => e.sync # "create"

AllSynced(list) == \A e \in MobileEntries(list) : e.sync = "synced"

Keeps(list, command) ==
    \E e \in MobileEntries(list) :
        /\ HasIt(e, command)
        /\ \A x \in MobileEntries(list) \ {e} : x.sync = "synced"

FlightKeeps(f, command) ==
    /\ f.stage = "fetch" => Keeps(f.snapshot, command)
    /\ f.stage = "reconcile" =>
        \/ f.todo = <<>> /\ f.followUp = <<>> /\ Keeps(f.resolved, command)
        \/ f.followUp = <<>> /\ AllSynced(f.resolved)
           /\ Len(f.todo) = 1 /\ HasIt(f.todo[1], command)
        \/ f.todo = <<>> /\ AllSynced(f.resolved)
           /\ Len(f.followUp) = 1 /\ command = [type |-> "schedule", value |-> "s"]

AllRemote(list) == \A e \in MobileEntries(list) : e.id = "remote"

NoLocal ==
    /\ AllRemote(tasks)
    /\ \A f \in flight : AllRemote(f.snapshot) /\ AllRemote(f.resolved) /\ AllRemote(f.todo)

\* The handler of the command has no good answer.
Followed(h, command) ==
    h.type = command.type /\ h.value = command.value /\ h.reply.status # "ok"

\* It is about the one entry of the list.
Waits(h, list) == list = <<h.entry>> /\ (h.type = "update" => h.list = list)

LatestInv ==
    latest # Closed =>
        /\ \A n \in Running : n = Len(handlers) /\ Followed(handlers[n], latest)
        /\ \A n \in Running :
                handlers[n].at # "reminder" /\ handlers[n].type # "create" => NoLocal
        /\ \A n \in Running : Unsaved => Waits(handlers[n], tasks)
        /\ Unsaved => flight = {}
        /\ ~Unsaved => Keeps(tasks, latest)
        /\ \A f \in flight : FlightKeeps(f, latest)

\* The server refuses to create it.
CreateRefused(e, server, made) == made.key = 1 /\ (made.payload # e.task.payload \/ server.kind = "gone")

Settling(f, server, made) ==
    /\ \A e \in MobileEntries(f.resolved) :
        \/ e.id = "local" /\ CreateRefused(e, server, made)
        \/ e.id = "remote" /\ (server.kind = "live" \/ e.sync # "synced")
    /\ f.followUp = <<>> /\ server.kind = "live" =>
            \E e \in MobileEntries(f.resolved) :
                /\ e.id = "remote" /\ e.sync \in {"synced", "conflict"} /\ e.task = server.task
    /\ f.followUp # <<>> => server.kind = "live" /\ f.followUp[1].task = server.task

SettleInv ==
    /\ \A f \in flight : f.calm => /\ Running = {} /\ stray = {}
                                   /\ f.stage = "reconcile" => Settling(f, remote, creation)
    /\ FlightsSettle

ListInv == SeenList(tasks, PhoneIdentities, shown)

FlightsInv == \A f \in flight : FlightOK(f, PhoneIdentities, shown)

StrayInv == \A call \in stray : CallOK(call, PhoneIdentities, shown)

\* The copy in the storage, and the list of a start of the app: well formed,
\* and, while the latest command is followed, with that command in them; the list
\* of a start that nothing disturbed is settled.
PlacingRec == [list : Seq(ListEntry), failed : BOOLEAN, calm : BOOLEAN]

StartParts ==
    /\ GoodList(saved, PhoneIdentities)
    /\ \A p \in placing : p \in PlacingRec /\ GoodList(p.list, PhoneIdentities)
    /\ remote.kind = "unborn" /\ handlers = <<>> =>
            saved = <<>> /\ \A p \in placing : p.list = <<>>

StartKept ==
    latest # Closed =>
        /\ ~Unsaved => Keeps(saved, latest)
        /\ \A p \in placing : Keeps(p.list, latest) /\ Running = {}
        /\ \A f \in flight : f.boot => Running = {}

StartSettles ==
    \A p \in placing :
        p.calm => flight = {} /\ Running = {} /\ stray = {} /\ SettledList(p.list)

PartsInv == ServerInv /\ ListInv /\ HandlersInv /\ FlightsInv /\ StrayInv /\ OriginInv

MobileInv ==
    /\ PartsInv
    /\ LatestInv
    /\ SettleInv
    /\ StartParts /\ StartKept /\ StartSettles

-----------------------------------------------------------------------------
(* Lists.                                                                  *)

LEMMA RestOfPlaces ==
    ASSUME NEW S, NEW list \in Seq(S), NEW places \in SUBSET (DOMAIN list),
           NEW i \in DOMAIN list, places = {i}
    PROVE  /\ RestOf(list, places) \in Seq(S)
           /\ Len(RestOf(list, places)) = Len(list) - 1
           /\ \A k \in 1 .. Len(list) - 1 :
                RestOf(list, places)[k] = IF k < i THEN list[k] ELSE list[k + 1]
<1>1. PICK front, back, n : /\ front = SubSeq(list, 1, i - 1) /\ n = Len(list)
                            /\ back = SubSeq(list, i + 1, n)
    OBVIOUS
<1>2. PICK j : j = i - 1
    OBVIOUS
<1>3. n \in Nat /\ DOMAIN list = 1 .. n /\ i \in 1 .. n /\ \A k \in 1 .. n : list[k] \in S
    BY <1>1
<1>4. j \in 0 .. n - 1 /\ i = j + 1 /\ i + 1 \in Int /\ n - (i + 1) + 1 = n - i
    BY <1>2, <1>3
<1>5. front \in Seq(S) /\ Len(front) = j /\ \A k \in 1 .. j : front[k] = list[k]
    <2>1. \A k \in 1 .. j : list[k] \in S /\ 1 + k - 1 = k
        BY <1>3, <1>4
    <2>3. front = SubSeq(list, 1, j) /\ j \in Int /\ list \in Seq(S)
        BY <1>1, <1>2, <1>3, <1>4
    <2>4. SubSeq(list, 1, j) \in Seq(S)
        BY <2>1, <2>3, SubSeqProperties
    <2>5. Len(SubSeq(list, 1, j)) = IF 1 <= j THEN j - 1 + 1 ELSE 0
        BY <2>1, <2>3, SubSeqProperties
    <2>6. \A k \in 1 .. j - 1 + 1 : SubSeq(list, 1, j)[k] = list[1 + k - 1]
        BY <2>1, <2>3, SubSeqProperties
    <2>2. /\ front \in Seq(S) /\ Len(front) = IF 1 <= j THEN j - 1 + 1 ELSE 0
          /\ \A k \in 1 .. j - 1 + 1 : front[k] = list[1 + k - 1]
        BY <2>3, <2>4, <2>5, <2>6
    <2> QED
        BY <1>4, <2>1, <2>2
<1>6. back \in Seq(S) /\ Len(back) = n - i /\ \A k \in 1 .. n - i : back[k] = list[i + k]
    <2>1. \A k \in i + 1 .. n : list[k] \in S
        BY <1>3, <1>4
    <2>4. list \in Seq(S) /\ i + 1 \in Int /\ n \in Int
        BY <1>3
    <2>5. SubSeq(list, i + 1, n) \in Seq(S)
        BY <2>1, <2>4, SubSeqProperties
    <2>6. Len(SubSeq(list, i + 1, n)) = IF i + 1 <= n THEN n - (i + 1) + 1 ELSE 0
        BY <2>1, <2>4, SubSeqProperties
    <2>7. \A k \in 1 .. n - (i + 1) + 1 : SubSeq(list, i + 1, n)[k] = list[i + 1 + k - 1]
        BY <2>1, <2>4, SubSeqProperties
    <2>2. /\ back \in Seq(S) /\ Len(back) = IF i + 1 <= n THEN n - (i + 1) + 1 ELSE 0
          /\ \A k \in 1 .. n - (i + 1) + 1 : back[k] = list[i + 1 + k - 1]
        BY <1>1, <2>5, <2>6, <2>7
    <2>3. \A k \in 1 .. n - i : i + 1 + k - 1 = i + k
        BY <1>3, <1>4
    <2> QED
        BY <1>3, <1>4, <2>2, <2>3
<1>7. PICK both : both = front \o back
    OBVIOUS
<1>8. /\ both \in Seq(S) /\ Len(both) = j + (n - i)
      /\ \A k \in 1 .. j + (n - i) : both[k] = IF k <= j THEN front[k] ELSE back[k - j]
    BY <1>5, <1>6, <1>7, ConcatProperties
<1>9. j + (n - i) = n - 1
    BY <1>3, <1>4
<1>10. ASSUME NEW k \in 1 .. n - 1
       PROVE  both[k] = IF k < i THEN list[k] ELSE list[k + 1]
    <2>1. CASE k < i
        <3>1. k \in 1 .. j /\ k <= j /\ k \in 1 .. j + (n - i)
            BY <1>3, <1>4, <2>1
        <3> QED
            BY <1>5, <1>8, <2>1, <3>1
    <2>2. CASE ~ (k < i)
        <3>1. ~ (k <= j) /\ k - j \in 1 .. n - i /\ i + (k - j) = k + 1 /\ k \in 1 .. j + (n - i)
            BY <1>3, <1>4, <2>2
        <3>2. both[k] = back[k - j]
            BY <1>8, <3>1
        <3>3. back[k - j] = list[i + (k - j)]
            BY <1>6, <3>1
        <3> QED
            BY <2>2, <3>1, <3>2, <3>3
    <2> QED
        BY <2>1, <2>2
<1>11. RestOf(list, places) = both
    <2>1. places # {} /\ \A k \in places : k = i
        OBVIOUS
    <2>2. (CHOOSE k \in places : TRUE) = i
        BY <2>1
    <2> QED
        BY <1>1, <1>7, <2>1, <2>2 DEF RestOf
<1> QED
    BY <1>1, <1>8, <1>9, <1>10, <1>11

\* Without one of its places a list keeps its other entries.
LEMMA RestOfList ==
    ASSUME NEW list, IsList(list), NEW places \in SUBSET (DOMAIN list),
           \A i, j \in places : i = j
    PROVE  /\ IsList(RestOf(list, places))
           /\ MobileEntries(RestOf(list, places)) = {list[k] : k \in DOMAIN list \ places}
<1>1. list \in Seq(ListEntry) /\ \A i, j \in DOMAIN list : list[i].id = list[j].id => i = j
    BY DEF IsList
<1>2. CASE places = {}
    <2>1. RestOf(list, places) = list /\ DOMAIN list \ places = DOMAIN list
        BY <1>2 DEF RestOf
    <2> QED
        BY <2>1 DEF MobileEntries
<1>3. CASE places # {}
    <2>1. PICK i \in DOMAIN list : places = {i}
        BY <1>3
    <2>2. PICK rest, n : rest = RestOf(list, places) /\ n = Len(list)
        OBVIOUS
    <2>3. n \in Nat /\ DOMAIN list = 1 .. n /\ i \in 1 .. n
        BY <1>1, <2>1, <2>2
    <2>4. /\ rest \in Seq(ListEntry) /\ Len(rest) = n - 1
          /\ \A k \in 1 .. n - 1 : rest[k] = IF k < i THEN list[k] ELSE list[k + 1]
        <3>1. places \in SUBSET (DOMAIN list) /\ list \in Seq(ListEntry)
            BY <1>1
        <3>2. /\ RestOf(list, places) \in Seq(ListEntry) /\ Len(RestOf(list, places)) = Len(list) - 1
              /\ \A k \in 1 .. Len(list) - 1 :
                    RestOf(list, places)[k] = IF k < i THEN list[k] ELSE list[k + 1]
            BY <2>1, <3>1, RestOfPlaces
        <3> QED
            BY <2>2, <3>2
    <2>5. DOMAIN rest = 1 .. n - 1
        BY <2>3, <2>4
    <2>6. DEFINE at(k) == IF k < i THEN k ELSE k + 1
    <2>7. \A k \in 1 .. n - 1 : at(k) \in DOMAIN list \ places /\ rest[k] = list[at(k)]
        BY <2>1, <2>3, <2>4
    <2>8. \A k, m \in 1 .. n - 1 : at(k) = at(m) => k = m
        BY <2>3
    <2>9. \A m \in DOMAIN list \ places : \E k \in 1 .. n - 1 : at(k) = m
        <3>1. SUFFICES ASSUME NEW m \in 1 .. n, m # i
                       PROVE  \E k \in 1 .. n - 1 : at(k) = m
            BY <2>1, <2>3
        <3>2. CASE m < i
            BY <2>3, <3>1, <3>2
        <3>3. CASE i < m
            <4>1. m - 1 \in 1 .. n - 1 /\ ~ (m - 1 < i) /\ m - 1 + 1 = m
                BY <2>3, <3>1, <3>3
            <4> QED
                BY <4>1
        <3> QED
            BY <2>3, <3>1, <3>2, <3>3
    <2> HIDE DEF at
    <2>10. IsList(rest)
        BY <1>1, <2>4, <2>5, <2>7, <2>8 DEF IsList
    <2>11. MobileEntries(rest) = {list[k] : k \in DOMAIN list \ places}
        BY <2>5, <2>7, <2>9 DEF MobileEntries
    <2> QED
        BY <2>2, <2>10, <2>11
<1> QED
    BY <1>2, <1>3

LEMMA EntriesOfNone ==
    /\ MobileEntries(<<>>) = {}
    /\ IsList(<<>>)
    /\ \A list \in Seq(ListEntry) : MobileEntries(list) = {} => list = <<>>
<1>1. MobileEntries(<<>>) = {}
    BY DEF MobileEntries
<1>2. IsList(<<>>)
    BY DEF IsList
<1>3. ASSUME NEW list \in Seq(ListEntry), MobileEntries(list) = {}
      PROVE  list = <<>>
    <2>1. Len(list) \in Nat /\ DOMAIN list = 1 .. Len(list) /\ DOMAIN list = {}
        BY <1>3 DEF MobileEntries
    <2>2. Len(list) = 0
        BY <2>1
    <2> QED
        BY <2>2
<1> QED
    BY <1>1, <1>2, <1>3

LEMMA EntriesOfOne ==
    ASSUME NEW e
    PROVE  /\ MobileEntries(<<e>>) = {e}
           /\ e \in ListEntry => IsList(<<e>>)
<1>1. DOMAIN <<e>> = {1} /\ <<e>>[1] = e
    OBVIOUS
<1>2. MobileEntries(<<e>>) = {e}
    BY <1>1 DEF MobileEntries
<1>3. ASSUME e \in ListEntry PROVE IsList(<<e>>)
    <2>1. <<e>> \in Seq(ListEntry)
        BY <1>3
    <2> QED
        BY <1>1, <2>1 DEF IsList
<1> QED
    BY <1>2, <1>3

LEMMA ListEntries ==
    ASSUME NEW list, IsList(list)
    PROVE  /\ list \in Seq(ListEntry)
           /\ MobileEntries(list) \subseteq ListEntry
           /\ \A x, y \in MobileEntries(list) : x.id = y.id => x = y
           /\ Len(list) \in Nat /\ Len(list) <= 2
           /\ DOMAIN list = 1 .. Len(list)
<1>1. /\ list \in Seq(ListEntry) /\ \A i, j \in DOMAIN list : list[i].id = list[j].id => i = j
      /\ Len(list) \in Nat /\ DOMAIN list = 1 .. Len(list)
    BY DEF IsList
<1>2. MobileEntries(list) \subseteq ListEntry /\ \A x, y \in MobileEntries(list) : x.id = y.id => x = y
    BY <1>1 DEF MobileEntries
<1>3. \A i \in DOMAIN list : list[i].id \in {"local", "remote"}
    <2>1. \A i \in DOMAIN list : list[i] \in ListEntry
        BY <1>1
    <2> QED
        BY <2>1 DEF ListEntry
<1>4. Len(list) <= 2
    <2>1. SUFFICES ASSUME ~ (Len(list) <= 2) PROVE FALSE
        OBVIOUS
    <2>2. 1 \in DOMAIN list /\ 2 \in DOMAIN list /\ 3 \in DOMAIN list
        BY <1>1, <2>1
    <2> QED
        BY <1>1, <1>3, <2>2
<1> QED
    BY <1>1, <1>2, <1>4

LEMMA PlacesAreOne ==
    ASSUME NEW list, IsList(list), NEW id
    PROVE  /\ Positions(list, id) \in SUBSET (DOMAIN list)
           /\ \A i, j \in Positions(list, id) : i = j
    BY DEF Positions, IsList

LEMMA DroppingIs ==
    ASSUME NEW list, IsList(list), NEW id
    PROVE  /\ IsList(Dropping(list, id))
           /\ MobileEntries(Dropping(list, id)) = {x \in MobileEntries(list) : x.id # id}
<1>1. /\ IsList(Dropping(list, id))
      /\ MobileEntries(Dropping(list, id)) = {list[k] : k \in DOMAIN list \ Positions(list, id)}
    BY PlacesAreOne, RestOfList DEF Dropping
<1>2. {list[k] : k \in DOMAIN list \ Positions(list, id)} = {x \in MobileEntries(list) : x.id # id}
    BY DEF Positions, MobileEntries
<1> QED
    BY <1>1, <1>2

LEMMA PutFirst ==
    ASSUME NEW list, IsList(list), NEW e \in ListEntry,
           \A x \in MobileEntries(list) : x.id # e.id
    PROVE  /\ IsList(<<e>> \o list)
           /\ MobileEntries(<<e>> \o list) = {e} \cup MobileEntries(list)
<1>1. /\ list \in Seq(ListEntry) /\ \A i, j \in DOMAIN list : list[i].id = list[j].id => i = j
      /\ Len(list) \in Nat /\ DOMAIN list = 1 .. Len(list)
    BY DEF IsList
<1>2. PICK whole, n : whole = <<e>> \o list /\ n = Len(list)
    OBVIOUS
<1>3. <<e>> \in Seq(ListEntry) /\ Len(<<e>>) = 1 /\ <<e>>[1] = e
    OBVIOUS
<1>4. /\ whole \in Seq(ListEntry) /\ Len(whole) = 1 + n
      /\ \A k \in 1 .. 1 + n : whole[k] = IF k <= 1 THEN <<e>>[k] ELSE list[k - 1]
    BY <1>1, <1>2, <1>3, ConcatProperties
<1>5. DOMAIN whole = 1 .. 1 + n /\ n \in Nat /\ DOMAIN list = 1 .. n
    BY <1>1, <1>2, <1>4
<1>6. whole[1] = e /\ 1 \in 1 .. 1 + n
    BY <1>3, <1>4, <1>5
<1>7. \A k \in 1 .. n : k + 1 \in 1 .. 1 + n /\ whole[k + 1] = list[k]
    <2>1. \A k \in 1 .. n : k + 1 \in 1 .. 1 + n /\ ~ (k + 1 <= 1) /\ k + 1 - 1 = k
        BY <1>5
    <2> QED
        BY <1>4, <2>1
<1>8. \A k \in 1 .. 1 + n : k = 1 \/ \E m \in 1 .. n : k = m + 1
    <2>1. \A k \in 1 .. 1 + n : k = 1 \/ (k - 1 \in 1 .. n /\ k = k - 1 + 1)
        BY <1>5
    <2> QED
        BY <2>1
<1>9. \A k \in DOMAIN list : list[k].id # e.id
    BY DEF MobileEntries
<1>10. IsList(whole)
    <2>1. ASSUME NEW i \in 1 .. 1 + n, NEW j \in 1 .. 1 + n, whole[i].id = whole[j].id
          PROVE  i = j
        <3>1. CASE i = 1 \/ j = 1
            <4>1. ASSUME NEW k \in 1 .. 1 + n, k # 1
                  PROVE  whole[k].id # e.id
                <5>1. PICK m \in 1 .. n : k = m + 1
                    BY <1>8, <4>1
                <5>2. whole[k] = list[m]
                    BY <1>7, <5>1
                <5>3. m \in DOMAIN list
                    BY <1>5
                <5> QED
                    BY <1>9, <5>2, <5>3
            <4> QED
                BY <1>6, <2>1, <3>1, <4>1
        <3>2. CASE i # 1 /\ j # 1
            <4>1. PICK k \in 1 .. n, m \in 1 .. n : i = k + 1 /\ j = m + 1
                BY <1>8, <3>2
            <4> QED
                BY <1>1, <1>5, <1>7, <2>1, <4>1
        <3> QED
            BY <3>1, <3>2
    <2> QED
        BY <1>4, <1>5, <2>1 DEF IsList
<1>11. MobileEntries(whole) = {e} \cup MobileEntries(list)
    <2>1. \A k \in DOMAIN whole : whole[k] \in {e} \cup MobileEntries(list)
        <3>1. SUFFICES ASSUME NEW k \in 1 .. 1 + n PROVE whole[k] \in {e} \cup MobileEntries(list)
            BY <1>5
        <3>2. CASE k = 1
            BY <1>6, <3>2
        <3>3. CASE \E m \in 1 .. n : k = m + 1
            BY <1>5, <1>7, <3>3 DEF MobileEntries
        <3> QED
            BY <1>8, <3>2, <3>3
    <2>2. e \in MobileEntries(whole)
        BY <1>5, <1>6 DEF MobileEntries
    <2>3. ASSUME NEW m \in DOMAIN list PROVE list[m] \in MobileEntries(whole)
        BY <1>5, <1>7 DEF MobileEntries
    <2> QED
        BY <2>1, <2>2, <2>3 DEF MobileEntries
<1> QED
    BY <1>2, <1>10, <1>11

LEMMA UpsertedIs ==
    ASSUME NEW list, IsList(list), NEW e \in ListEntry
    PROVE  /\ IsList(Upserted(list, e))
           /\ MobileEntries(Upserted(list, e)) = {e} \cup {x \in MobileEntries(list) : x.id # e.id}
<1>1. PICK rest : rest = Dropping(list, e.id)
    OBVIOUS
<1>2. IsList(rest) /\ MobileEntries(rest) = {x \in MobileEntries(list) : x.id # e.id}
    BY <1>1, DroppingIs
<1>3. Upserted(list, e) = <<e>> \o rest
    BY <1>1 DEF Upserted
<1> QED
    BY <1>2, <1>3, PutFirst

LEMMA LookupIs ==
    ASSUME NEW list, IsList(list), NEW id
    PROVE  \/ Lookup(list, id) = <<>> /\ \A x \in MobileEntries(list) : x.id # id
           \/ \E x \in MobileEntries(list) : x.id = id /\ Lookup(list, id) = <<x>>
<1>1. CASE Positions(list, id) = {}
    BY <1>1 DEF Lookup, EntryAt, Positions, MobileEntries
<1>2. CASE Positions(list, id) # {}
    <2>1. PICK i : i = CHOOSE k \in Positions(list, id) : TRUE
        OBVIOUS
    <2>2. i \in Positions(list, id)
        BY <1>2, <2>1
    <2>3. i \in DOMAIN list /\ list[i].id = id
        BY <2>2 DEF Positions
    <2>4. Lookup(list, id) = <<list[i]>>
        BY <1>2, <2>1 DEF Lookup, EntryAt
    <2> QED
        BY <2>3, <2>4 DEF MobileEntries
<1> QED
    BY <1>1, <1>2

LEMMA TailIs ==
    ASSUME NEW list, IsList(list), list # <<>>
    PROVE  /\ Head(list) \in MobileEntries(list) /\ Head(list) = list[1]
           /\ IsList(Tail(list))
           /\ MobileEntries(Tail(list)) = MobileEntries(list) \ {Head(list)}
           /\ Len(list) = 1 => Tail(list) = <<>> /\ MobileEntries(list) = {Head(list)}
<1>1. /\ list \in Seq(ListEntry) /\ \A i, j \in DOMAIN list : list[i].id = list[j].id => i = j
      /\ Len(list) \in Nat /\ DOMAIN list = 1 .. Len(list)
    BY DEF IsList
<1>2. PICK rest, n : rest = Tail(list) /\ n = Len(list)
    OBVIOUS
<1>3. n \in Nat \ {0} /\ DOMAIN list = 1 .. n
    BY <1>1, <1>2, EmptySeq
<1>4. Head(list) = list[1] /\ 1 \in DOMAIN list
    BY <1>1, <1>3
<1>5. rest \in Seq(ListEntry) /\ Len(rest) = n - 1 /\ \A k \in 1 .. n - 1 : rest[k] = list[k + 1]
    BY <1>1, <1>2, HeadTailProperties
<1>6. DOMAIN rest = 1 .. n - 1
    BY <1>3, <1>5
<1>7. \A k \in 1 .. n - 1 : k + 1 \in 1 .. n /\ k + 1 # 1
    BY <1>3
<1>8. \A k \in 1 .. n : k = 1 \/ \E m \in 1 .. n - 1 : k = m + 1
    <2>1. \A k \in 1 .. n : k = 1 \/ (k - 1 \in 1 .. n - 1 /\ k = k - 1 + 1)
        BY <1>3
    <2> QED
        BY <2>1
<1>9. IsList(rest)
    <2>1. ASSUME NEW i \in 1 .. n - 1, NEW j \in 1 .. n - 1, rest[i].id = rest[j].id
          PROVE  i = j
        <3>1. i + 1 = j + 1
            BY <1>1, <1>3, <1>5, <1>7, <2>1
        <3> QED
            BY <1>3, <3>1
    <2> QED
        BY <1>5, <1>6, <2>1 DEF IsList
<1>10. \A k \in DOMAIN list : k # 1 => list[k] # list[1]
    BY <1>1, <1>4
<1>11. MobileEntries(rest) = MobileEntries(list) \ {list[1]}
    <2>1. ASSUME NEW k \in 1 .. n - 1 PROVE rest[k] \in MobileEntries(list) \ {list[1]}
        BY <1>3, <1>5, <1>7, <1>10 DEF MobileEntries
    <2>2. ASSUME NEW k \in DOMAIN list, list[k] # list[1] PROVE list[k] \in MobileEntries(rest)
        <3>1. PICK m \in 1 .. n - 1 : k = m + 1
            BY <1>3, <1>8, <2>2
        <3> QED
            BY <1>5, <1>6, <3>1 DEF MobileEntries
    <2>3. \A x \in MobileEntries(rest) : x \in MobileEntries(list) \ {list[1]}
        BY <1>6, <2>1 DEF MobileEntries
    <2>4. \A x \in MobileEntries(list) \ {list[1]} : x \in MobileEntries(rest)
        BY <2>2 DEF MobileEntries
    <2> QED
        BY <2>3, <2>4
<1>12. ASSUME n = 1 PROVE rest = <<>> /\ MobileEntries(list) = {list[1]}
    <2>1. Len(rest) = 0 /\ DOMAIN list = {1}
        BY <1>3, <1>5, <1>12
    <2> QED
        BY <1>5, <2>1, EmptySeq DEF MobileEntries
<1> QED
    BY <1>2, <1>4, <1>9, <1>11, <1>12 DEF MobileEntries

\* The pending entries of a list, of whose others all are the server's.
LEMMA PendingIs ==
    ASSUME NEW list, IsList(list),
           \A x \in MobileEntries(list) : ~IsPending(x) => x.id = "remote"
    PROVE  /\ IsList(PendingIn(list))
           /\ MobileEntries(PendingIn(list)) = {x \in MobileEntries(list) : IsPending(x)}
<1>1. PICK places : places = {i \in DOMAIN list : ~IsPending(list[i])}
    OBVIOUS
<1>2. places \in SUBSET (DOMAIN list) /\ \A i, j \in places : i = j
    <2>1. \A i \in places : i \in DOMAIN list /\ list[i].id = "remote"
        BY <1>1 DEF MobileEntries
    <2> QED
        BY <2>1 DEF IsList
<1>3. IsList(RestOf(list, places)) /\ MobileEntries(RestOf(list, places)) = {list[k] : k \in DOMAIN list \ places}
    BY <1>2, RestOfList
<1>4. {list[k] : k \in DOMAIN list \ places} = {x \in MobileEntries(list) : IsPending(x)}
    BY <1>1 DEF MobileEntries
<1> QED
    BY <1>1, <1>3, <1>4 DEF PendingIn

LEMMA ConflictsAre ==
    ASSUME NEW list, IsList(list)
    PROVE  \/ /\ EntryAt(list, ConflictPositions(list)) = <<>>
              /\ \A x \in MobileEntries(list) : x.sync # "conflict"
           \/ \E x \in MobileEntries(list) :
                x.sync = "conflict" /\ EntryAt(list, ConflictPositions(list)) = <<x>>
<1>1. CASE ConflictPositions(list) = {}
    BY <1>1 DEF EntryAt, ConflictPositions, MobileEntries
<1>2. CASE ConflictPositions(list) # {}
    <2>1. PICK i : i = CHOOSE k \in ConflictPositions(list) : TRUE
        OBVIOUS
    <2>2. i \in ConflictPositions(list)
        BY <1>2, <2>1
    <2>3. i \in DOMAIN list /\ list[i].sync = "conflict"
        BY <2>2 DEF ConflictPositions
    <2>4. EntryAt(list, ConflictPositions(list)) = <<list[i]>>
        BY <1>2, <2>1 DEF EntryAt
    <2> QED
        BY <2>3, <2>4 DEF MobileEntries
<1> QED
    BY <1>1, <1>2

-----------------------------------------------------------------------------
(* Tasks and entries.                                                      *)

LEMMA PlacementsAre ==
    /\ Domain!Placement =
        [state : {"active", "completed", "archived", "trashed"},
         prior : {"active", "completed", "archived", Unset}]
    /\ NewTask("p").placement \in Domain!Placement
    /\ \A p \in {"p", "q"} : NewTask(p) \in Task /\ NewTask(p).revision = 0
<1>1. Domain!Placement =
        [state : {"active", "completed", "archived", "trashed"},
         prior : {"active", "completed", "archived", Unset}]
    BY DEF Domain!Placement, Domain!LifecycleStates, Domain!PriorStates, Unset
<1>2. [state |-> "active", prior |-> Unset] \in Domain!Placement
    BY <1>1
<1>3. \A p \in {"p", "q"} : NewTask(p) \in Task /\ NewTask(p).revision = 0
    BY <1>2 DEF NewTask, Task
<1> QED
    BY <1>1, <1>2, <1>3 DEF NewTask

LEMMA TaskFields ==
    ASSUME NEW item \in Task
    PROVE  /\ item = [payload |-> item.payload, placement |-> item.placement,
                      schedule |-> item.schedule, revision |-> item.revision]
           /\ item.payload \in {"p", "q"} /\ item.placement \in Domain!Placement
           /\ item.schedule \in {"s", Unset} /\ item.revision \in Nat
    BY DEF Task

LEMMA TaskMade ==
    ASSUME NEW payload \in {"p", "q"}, NEW placement \in Domain!Placement,
           NEW schedule \in {"s", Unset}, NEW revision \in Nat
    PROVE  [payload |-> payload, placement |-> placement, schedule |-> schedule,
            revision |-> revision] \in Task
    BY DEF Task

LEMMA ValuesAre ==
    /\ Values("update") = {"p", "q"} /\ Values("lifecycle") = UserActions
    /\ Values("schedule") = {"s"} /\ Values("delete") = {Unset}
    BY DEF Values

\* A command keeps a task a task and its revision.
LEMMA ChangedIs ==
    ASSUME NEW item \in Task, NEW type \in AnyType, NEW value, ValueOf(type, value),
           type = "lifecycle" => CanMove(item, value)
    PROVE  /\ Changed(item, type, value) \in Task
           /\ Changed(item, type, value).revision = item.revision
           /\ type = "update" => Changed(item, type, value).payload = value
           /\ type # "update" => Changed(item, type, value).payload = item.payload
           /\ type = "schedule" => Changed(item, type, value).schedule = value
<1>1. PICK payload, placement, schedule, revision :
        /\ item = [payload |-> payload, placement |-> placement,
                   schedule |-> schedule, revision |-> revision]
        /\ payload \in {"p", "q"} /\ placement \in Domain!Placement
        /\ schedule \in {"s", Unset} /\ revision \in Nat
    BY TaskFields
<1>2. CASE type = "update"
    <2>1. Changed(item, type, value) = [payload |-> value, placement |-> placement,
                                        schedule |-> schedule, revision |-> revision]
        BY <1>1, <1>2 DEF Changed
    <2>2. value \in {"p", "q"}
        BY <1>2, ValuesAre DEF ValueOf
    <2>3. [payload |-> value, placement |-> placement,
           schedule |-> schedule, revision |-> revision] \in Task
        BY <1>1, <2>2, TaskMade
    <2> QED
        BY <1>1, <1>2, <2>1, <2>3
<1>3. CASE type = "schedule"
    <2>1. Changed(item, type, value) = [payload |-> payload, placement |-> placement,
                                        schedule |-> value, revision |-> revision]
        BY <1>1, <1>3 DEF Changed
    <2>2. value \in {"s", Unset}
        BY <1>3, ValuesAre DEF ValueOf
    <2>3. [payload |-> payload, placement |-> placement,
           schedule |-> value, revision |-> revision] \in Task
        BY <1>1, <2>2, TaskMade
    <2> QED
        BY <1>1, <1>3, <2>1, <2>3
<1>4. CASE type = "lifecycle"
    <2>1. PICK to : to = CHOOSE p \in Domain!Placement : Domain!LegalMove(placement, value, p)
        OBVIOUS
    <2>2. to \in Domain!Placement
        <3>1. \E p \in Domain!Placement : Domain!LegalMove(placement, value, p)
            BY <1>1, <1>4 DEF CanMove
        <3> QED
            BY <2>1, <3>1
    <2>3. Changed(item, type, value) = [payload |-> payload, placement |-> to,
                                        schedule |-> schedule, revision |-> revision]
        BY <1>1, <1>4, <2>1 DEF Changed
    <2>4. [payload |-> payload, placement |-> to,
           schedule |-> schedule, revision |-> revision] \in Task
        BY <1>1, <2>2, TaskMade
    <2> QED
        BY <1>1, <1>4, <2>3, <2>4
<1>5. CASE type \notin {"update", "schedule", "lifecycle"}
    BY <1>5 DEF Changed
<1> QED
    BY <1>2, <1>3, <1>4, <1>5

LEMMA EntryFields ==
    ASSUME NEW e \in ListEntry
    PROVE  /\ e = [id |-> e.id, task |-> e.task, sync |-> e.sync, intent |-> e.intent,
                   missing |-> e.missing]
           /\ e.id \in {"local", "remote"} /\ e.task \in Task /\ e.sync \in SyncStates
           /\ e.intent \in Intent /\ e.missing \in BOOLEAN
    BY Zenon DEF ListEntry

LEMMA EntryMade ==
    ASSUME NEW id \in {"local", "remote"}, NEW item \in Task, NEW sync \in SyncStates,
           NEW intent \in Intent, NEW missing \in BOOLEAN
    PROVE  [id |-> id, task |-> item, sync |-> sync, intent |-> intent,
            missing |-> missing] \in ListEntry
    BY Zenon DEF ListEntry

LEMMA IntentIs ==
    /\ Intent = [type : CommandTypes \cup {Unset}, value : AnyValue, placement : Domain!Placement]
    /\ NoIntent \in Intent /\ NoIntent.type = Unset
<1>1. UNION {Values(t) : t \in CommandTypes} = AnyValue
    BY ValuesAre DEF CommandTypes, AnyValue
<1>2. Intent = [type : CommandTypes \cup {Unset}, value : AnyValue, placement : Domain!Placement]
    BY <1>1 DEF Intent
<1> QED
    BY <1>2, PlacementsAre DEF NoIntent, AnyValue

LEMMA IntentFields ==
    ASSUME NEW i \in Intent
    PROVE  /\ i.type \in CommandTypes \cup {Unset}
           /\ i.value \in AnyValue /\ i.placement \in Domain!Placement
    BY IntentIs

LEMMA IntentMade ==
    ASSUME NEW type \in CommandTypes, NEW value, ValueOf(type, value),
           NEW placement \in Domain!Placement
    PROVE  [type |-> type, value |-> value, placement |-> placement] \in Intent
<1>1. value \in AnyValue
    BY ValuesAre DEF CommandTypes, ValueOf, AnyValue
<1> QED
    BY <1>1, IntentIs

\* The version of the server.
LEMMA SyncedIs ==
    ASSUME NEW item \in Task, NEW ids
    PROVE  /\ Synced(item) \in ListEntry /\ Sound(Synced(item), ids)
           /\ Synced(item).id = "remote" /\ Synced(item).sync = "synced"
           /\ Synced(item).task = item
<1>1. Synced(item) = [id |-> "remote", task |-> item, sync |-> "synced", intent |-> NoIntent,
                      missing |-> FALSE]
    BY DEF Synced
<1>2. Synced(item) \in ListEntry
    BY <1>1, IntentIs, EntryMade DEF SyncStates
<1>3. Synced(item).intent.type = Unset
    BY <1>1, IntentIs
<1>4. Sound(Synced(item), ids)
    BY <1>1, <1>3 DEF Sound, CommandTypes, Unset
<1> QED
    BY <1>1, <1>2, <1>4

\* An entry a command has been given to.
LEMMA MarkedIs ==
    ASSUME NEW e \in ListEntry, NEW type \in CommandTypes, NEW value, ValueOf(type, value),
           type = "lifecycle" => CanMove(e.task, value), NEW ids, e.id = "local" => "local" \in ids
    PROVE  /\ Marked(e, type, value) \in ListEntry /\ Sound(Marked(e, type, value), ids)
           /\ Marked(e, type, value).id = e.id
           /\ Marked(e, type, value).task.revision = e.task.revision
           /\ Marked(e, type, value).sync = IF e.id = "local" THEN "create" ELSE type
           /\ type # "update" => Marked(e, type, value).task.payload = e.task.payload
           /\ (e.id = "local" => type \in {"update", "schedule"}) =>
                HasIt(Marked(e, type, value), [type |-> type, value |-> value])
<1>1. PICK item : item = Changed(e.task, type, value)
    OBVIOUS
<1>2. type \in AnyType /\ e.task \in Task
    BY EntryFields DEF AnyType
<1>3. /\ item \in Task /\ item.revision = e.task.revision
      /\ type = "update" => item.payload = value
      /\ type # "update" => item.payload = e.task.payload
      /\ type = "schedule" => item.schedule = value
    BY <1>1, <1>2, ChangedIs
<1>4. PICK intent : intent = IF type \in {"update", "delete"} THEN NoIntent
                             ELSE [type |-> type, value |-> value, placement |-> item.placement]
    OBVIOUS
<1>5. /\ intent \in Intent
      /\ type \in {"update", "delete"} => intent.type = Unset
      /\ type \notin {"update", "delete"} => intent.type = type /\ intent.value = value
    <2>1. item.placement \in Domain!Placement
        BY <1>3, TaskFields
    <2>2. [type |-> type, value |-> value, placement |-> item.placement] \in Intent
        BY <2>1, IntentMade
    <2>3. NoIntent \in Intent /\ NoIntent.type = Unset
        BY IntentIs
    <2>4. intent \in Intent
        BY <1>4, <2>2, <2>3
    <2> QED
        BY <1>4, <2>3, <2>4
<1>6. PICK sync : sync = IF e.id = "local" THEN "create" ELSE type
    OBVIOUS
<1>7. PICK id, missing : id = e.id /\ missing = e.missing
    OBVIOUS
<1>8. PICK m : m = Marked(e, type, value)
    OBVIOUS
<1>9. m = [id |-> id, task |-> item, sync |-> sync, intent |-> intent, missing |-> missing]
    <2>1. PICK t, s, i : e = [id |-> id, task |-> t, sync |-> s, intent |-> i, missing |-> missing]
        BY <1>7, EntryFields
    <2>2. m = [e EXCEPT !.task = item, !.sync = sync, !.intent = intent]
        BY <1>1, <1>4, <1>6, <1>8 DEF Marked
    <2> QED
        BY <2>1, <2>2
<1>10. m.id = id /\ m.task = item /\ m.sync = sync /\ m.intent = intent
    BY <1>9
<1>11. m \in ListEntry
    <2>1. id \in {"local", "remote"} /\ missing \in BOOLEAN
        BY <1>7, EntryFields
    <2>2. sync \in SyncStates
        BY <1>6 DEF SyncStates
    <2> QED
        BY <1>3, <1>5, <1>9, <2>1, <2>2, EntryMade
<1>12. Sound(m, ids)
    <2>1. ValueOf(type, value) => value \in Values(type)
        BY DEF ValueOf, CommandTypes
    <2>2. id \in {"local", "remote"}
        BY <1>7, EntryFields
    <2>3. type \in {"update", "lifecycle", "schedule", "delete"}
        BY DEF CommandTypes
    <2> QED
        BY <1>3, <1>5, <1>6, <1>7, <1>10, <2>1, <2>2, <2>3 DEF Sound, CommandTypes, Unset
<1>13. ASSUME e.id = "local" => type \in {"update", "schedule"}
       PROVE  HasIt(m, [type |-> type, value |-> value])
    <2>1. type \in {"update", "lifecycle", "schedule", "delete"}
        BY DEF CommandTypes
    <2> QED
        BY <1>3, <1>5, <1>6, <1>7, <1>10, <1>13, <2>1 DEF HasIt
<1> QED
    BY <1>3, <1>6, <1>7, <1>8, <1>10, <1>11, <1>12, <1>13

\* The local side of a conflict.
LEMMA RebasedIs ==
    ASSUME NEW e \in ListEntry, NEW ids, Sound(e, ids), e.sync = "conflict"
    PROVE  /\ Rebased(e) \in ListEntry /\ Sound(Rebased(e), ids)
           /\ e.id = "remote" /\ Rebased(e).id = "remote"
           /\ Rebased(e).task.revision = e.task.revision
           /\ \A command : command.type \in AnyType /\ HasIt(e, command) =>
                HasIt(Rebased(e), command)
<1>1. PICK i : i = e.intent
    OBVIOUS
<1>2. /\ e.id = "remote" /\ i.type \in CommandTypes /\ i.value \in Values(i.type) /\ i \in Intent
      /\ i.placement \in Domain!Placement
    <2>1. e.id \in {"local", "remote"} /\ e.intent \in Intent
        BY EntryFields
    <2>2. e.id = "remote" /\ i.type \in CommandTypes
        BY <1>1, <2>1 DEF Sound
    <2> QED
        BY <1>1, <2>1, <2>2, IntentFields DEF Sound
<1>3. i.type \in {"update", "lifecycle", "schedule", "delete"}
    BY <1>2 DEF CommandTypes
<1>4. PICK payload, placement, schedule, revision :
        /\ e.task = [payload |-> payload, placement |-> placement,
                     schedule |-> schedule, revision |-> revision]
        /\ payload \in {"p", "q"} /\ placement \in Domain!Placement
        /\ schedule \in {"s", Unset} /\ revision \in Nat
    <2>1. e.task \in Task
        BY EntryFields
    <2> QED
        BY <2>1, TaskFields
<1>5. PICK state : state = [placement EXCEPT !.state = i.placement.state]
    OBVIOUS
<1>6. state \in Domain!Placement
    BY <1>2, <1>4, <1>5, PlacementsAre
<1>7. PICK item : item = CASE i.type = "delete" -> [e.task EXCEPT !.placement = state]
                           [] i.type = "lifecycle" ->
                                [e.task EXCEPT !.placement = IF i.placement.prior = Unset THEN state
                                                             ELSE i.placement]
                           [] OTHER -> Changed(e.task, i.type, i.value)
    OBVIOUS
<1>8. /\ item \in Task /\ item.revision = e.task.revision
      /\ i.type = "update" => item.payload = i.value
      /\ i.type = "schedule" => item.schedule = i.value
    <2>1. CASE i.type \in {"delete", "lifecycle"}
        <3>1. PICK to : to = IF i.type = "delete" \/ i.placement.prior = Unset THEN state ELSE i.placement
            OBVIOUS
        <3>2. to \in Domain!Placement
            BY <1>2, <1>6, <3>1
        <3>3. item = [e.task EXCEPT !.placement = to]
            BY <1>7, <2>1, <3>1
        <3>4. item = [payload |-> payload, placement |-> to, schedule |-> schedule,
                      revision |-> revision]
            BY <1>4, <3>3
        <3>5. item \in Task
            BY <1>4, <3>2, <3>4, TaskMade
        <3> QED
            BY <1>4, <2>1, <3>4, <3>5
    <2>2. CASE i.type \in {"update", "schedule"}
        <3>1. item = Changed(e.task, i.type, i.value)
            BY <1>7, <2>2
        <3>2. /\ e.task \in Task /\ i.type \in AnyType /\ ValueOf(i.type, i.value)
              /\ i.type # "lifecycle"
            BY <1>2, <2>2, EntryFields DEF AnyType, ValueOf
        <3> QED
            BY <3>1, <3>2, ChangedIs
    <2> QED
        BY <1>3, <2>1, <2>2
<1>9. PICK intent : intent = IF i.type \in {"update", "delete"} THEN NoIntent ELSE i
    OBVIOUS
<1>10. intent \in Intent /\ (i.type \in {"update", "delete"} => intent.type = Unset)
    BY <1>2, <1>9, IntentIs
<1>11. PICK r, missing, sync : r = Rebased(e) /\ missing = e.missing /\ sync = i.type
    OBVIOUS
<1>12. r = [id |-> "remote", task |-> item, sync |-> sync, intent |-> intent, missing |-> missing]
    <2>1. PICK t, s, j : e = [id |-> "remote", task |-> t, sync |-> s, intent |-> j, missing |-> missing]
        BY <1>2, <1>11, EntryFields
    <2>2. state = [e.task.placement EXCEPT !.state = i.placement.state]
        BY <1>4, <1>5
    <2>3. r = [e EXCEPT !.task = item, !.sync = sync, !.intent = intent]
        BY <1>1, <1>7, <1>9, <1>11, <2>2 DEF Rebased
    <2> QED
        BY <2>1, <2>3
<1>13. r.id = "remote" /\ r.task = item /\ r.sync = sync /\ r.intent = intent
    BY <1>12
<1>14. r \in ListEntry
    <2>1. missing \in BOOLEAN
        BY <1>11, EntryFields
    <2>2. sync \in SyncStates
        BY <1>2, <1>11 DEF SyncStates
    <2> QED
        BY <1>8, <1>10, <1>12, <2>1, <2>2, EntryMade
<1>15. Sound(r, ids)
    BY <1>2, <1>3, <1>8, <1>9, <1>10, <1>11, <1>13 DEF Sound, CommandTypes, Unset
<1>16. ASSUME NEW command, command.type \in AnyType, HasIt(e, command)
       PROVE  HasIt(r, command)
    BY <1>1, <1>3, <1>8, <1>9, <1>11, <1>13, <1>16 DEF HasIt, AnyType, CommandTypes
<1> QED
    BY <1>2, <1>8, <1>11, <1>13, <1>14, <1>15, <1>16

-----------------------------------------------------------------------------
(* Calls.                                                                  *)

LEMMA CallIs ==
    ASSUME NEW type \in AnyType, NEW value, ValueOf(type, value), NEW base \in Nat,
           NEW ids, NEW revisions,
           type = "create" => "local" \in ids, type # "create" => base \in revisions
    PROVE  /\ CallOK(Call(type, value, base), ids, revisions)
           /\ Call(type, value, base).type = type /\ Call(type, value, base).value = value
           /\ Call(type, value, base).base = base
<1>1. value \in AnyValue
    BY ValuesAre DEF ValueOf, AnyType, CommandTypes, AnyValue
<1>2. PICK key : key = IF type = "create" THEN ClientOperationId ELSE 0
    OBVIOUS
<1>3. key \in {0, 1} /\ (type = "create" => key = 1)
    BY <1>2 DEF ClientOperationId
<1>4. Call(type, value, base) = [type |-> type, value |-> value, base |-> base, key |-> key,
                                 followUp |-> FALSE]
    BY <1>2 DEF Call
<1>5. Call(type, value, base) \in CallRec
    BY <1>1, <1>3, <1>4 DEF CallRec
<1> QED
    BY <1>3, <1>4, <1>5 DEF CallOK

LEMMA CallOfIs ==
    ASSUME NEW ids, NEW revisions, NEW h, HandlerOK(h, ids, revisions), h.at # "reminder"
    PROVE  /\ CallOK(CallOf(h), ids, revisions)
           /\ CallOf(h).type = h.type /\ CallOf(h).value = h.value
<1>1. /\ h.type \in AnyType /\ h.entry \in ListEntry /\ ValueOf(h.type, h.value)
      /\ h.type = "create" <=> h.entry.id = "local"
      /\ Sound(h.entry, ids) /\ Seen(h.entry, revisions)
    BY DEF HandlerOK, HandlerRec
<1>2. h.entry.task \in Task /\ h.entry.id \in {"local", "remote"}
    BY <1>1, EntryFields
<1>3. h.entry.task.revision \in Nat
    BY <1>2, TaskFields
<1>4. /\ h.type = "create" => "local" \in ids
      /\ h.type # "create" => h.entry.task.revision \in revisions
    BY <1>1, <1>2 DEF Sound, Seen
<1> QED
    <2>1. PICK type, value, base : type = h.type /\ value = h.value /\ base = h.entry.task.revision
        OBVIOUS
    <2>2. /\ type \in AnyType /\ ValueOf(type, value) /\ base \in Nat
          /\ type = "create" => "local" \in ids
          /\ type # "create" => base \in revisions
        BY <1>1, <1>3, <1>4, <2>1
    <2>3. CallOf(h) = Call(type, value, base)
        BY <2>1 DEF CallOf
    <2> QED
        BY <2>1, <2>2, <2>3, CallIs

\* What a flight sends for a pending entry.
LEMMA PendingCallIs ==
    ASSUME NEW ids, NEW revisions, NEW resolved, NEW e \in ListEntry, IsPending(e),
           Sound(e, ids), Seen(e, revisions)
    PROVE  /\ CallOK(PendingCall(e, resolved), ids, revisions)
           /\ PendingCall(e, resolved).type = e.sync
           /\ PendingCall(e, resolved).base = e.task.revision
           /\ ValueOf(e.sync, PendingCall(e, resolved).value)
           /\ e.sync \in {"create", "update"} => PendingCall(e, resolved).value = e.task.payload
           /\ e.sync \in {"lifecycle", "schedule"} => PendingCall(e, resolved).value = e.intent.value
<1>1. /\ e.task \in Task /\ e.id \in {"local", "remote"}
      /\ e.sync \in {"create", "update", "lifecycle", "schedule", "delete"}
    BY EntryFields DEF SyncStates, CommandTypes, IsPending
<1>2. e.task.revision \in Nat /\ e.task.payload \in {"p", "q"}
    BY <1>1, TaskFields
<1>3. PICK value : value = CASE e.sync \in {"create", "update"} -> e.task.payload
                             [] e.sync = "lifecycle" -> e.intent.value
                             [] e.sync = "schedule" -> e.task.schedule
                             [] OTHER -> Unset
    OBVIOUS
<1>4. /\ e.sync \in {"create", "update"} => value = e.task.payload
      /\ e.sync \in {"lifecycle", "schedule"} => value = e.intent.value
      /\ e.sync = "delete" => value = Unset
    BY <1>1, <1>3 DEF Sound
<1>5. ValueOf(e.sync, value)
    <2>1. e.sync \in {"lifecycle", "schedule"} => e.intent.value \in Values(e.sync)
        BY DEF Sound, CommandTypes
    <2> QED
        BY <1>1, <1>2, <1>4, <2>1, ValuesAre DEF ValueOf
<1>6. PendingCall(e, resolved) = Call(e.sync, value, e.task.revision)
    BY <1>3 DEF PendingCall, Base
<1>7. e.sync \in AnyType
    BY <1>1 DEF AnyType, CommandTypes
<1>8. (e.sync = "create" => "local" \in ids) /\ (e.sync # "create" => e.task.revision \in revisions)
    BY <1>1 DEF Sound, Seen
<1> QED
    <2>1. PICK call, type, base : /\ type = e.sync /\ base = e.task.revision
                                  /\ call = Call(type, value, base)
        OBVIOUS
    <2>2. /\ type \in AnyType /\ ValueOf(type, value) /\ base \in Nat
          /\ type = "create" => "local" \in ids
          /\ type # "create" => base \in revisions
        BY <1>2, <1>5, <1>7, <1>8, <2>1
    <2>3. /\ CallOK(Call(type, value, base), ids, revisions)
          /\ Call(type, value, base).type = type /\ Call(type, value, base).value = value
          /\ Call(type, value, base).base = base
        BY <2>2, CallIs
    <2>4. call = PendingCall(e, resolved)
        BY <1>6, <2>1
    <2> QED
        BY <1>4, <1>5, <2>1, <2>3, <2>4

LEMMA FollowUpCallIs ==
    ASSUME NEW ids, NEW revisions, NEW e, FollowsUp(e)
    PROVE  /\ CallOK(FollowUpCall(e), ids, revisions)
           /\ FollowUpCall(e).type = "schedule" /\ FollowUpCall(e).value = "s"
           /\ FollowUpCall(e).base = e.task.revision
<1>1. e \in ListEntry /\ e.intent.type = "schedule" /\ e.intent.value = "s"
    BY DEF FollowsUp
<1>2. PICK base : base = e.task.revision
    OBVIOUS
<1>3. base \in Nat
    BY <1>1, <1>2, EntryFields, TaskFields
<1>4. FollowUpCall(e) = [type |-> "schedule", value |-> "s", base |-> base, key |-> 0,
                         followUp |-> TRUE]
    <2>1. Call(e.intent.type, e.intent.value, e.task.revision) =
            [type |-> "schedule", value |-> "s", base |-> base, key |-> 0, followUp |-> FALSE]
        BY <1>1, <1>2 DEF Call
    <2>2. PICK call, no, yes : /\ call = Call(e.intent.type, e.intent.value, e.task.revision)
                               /\ no = FALSE /\ yes = TRUE
        OBVIOUS
    <2>3. FollowUpCall(e) = [call EXCEPT !.followUp = yes]
        BY <2>2 DEF FollowUpCall
    <2>4. call = [type |-> "schedule", value |-> "s", base |-> base, key |-> 0, followUp |-> no]
        BY <2>1, <2>2
    <2>5. FollowUpCall(e) = [type |-> "schedule", value |-> "s", base |-> base, key |-> 0,
                             followUp |-> yes]
        BY <2>3, <2>4
    <2> QED
        BY <2>2, <2>5
<1>5. ValueOf("schedule", "s")
    BY ValuesAre DEF ValueOf
<1>6. FollowUpCall(e) \in CallRec
    BY <1>3, <1>4 DEF CallRec, AnyType, CommandTypes, AnyValue
<1> QED
    BY <1>2, <1>4, <1>5, <1>6 DEF CallOK

\* The version of the server with what was wanted of it.
LEMMA ConflictTaskIs ==
    ASSUME NEW resolved, NEW ids, NEW revisions, GoodList(resolved, ids),
           NEW e \in ListEntry, IsPending(e), Sound(e, ids), Seen(e, revisions), e.sync # "create"
    PROVE  /\ ConflictTask(resolved, e) \in ListEntry /\ Sound(ConflictTask(resolved, e), ids)
           /\ ConflictTask(resolved, e).id = "remote" /\ ConflictTask(resolved, e).sync = "conflict"
           /\ \A x \in MobileEntries(resolved) :
                x.id = "remote" => ConflictTask(resolved, e).task = x.task
           /\ \A command : command.type \in AnyType /\ HasIt(e, command) =>
                HasIt(ConflictTask(resolved, e), command)
<1>1. /\ e.id = "remote" /\ e.task \in Task
      /\ e.sync \in {"update", "lifecycle", "schedule", "delete"}
    BY EntryFields DEF SyncStates, CommandTypes, IsPending, Sound
<1>2. IsList(resolved)
    BY DEF GoodList
<1>3. PICK visible : visible = IF Lookup(resolved, "remote") = <<>> THEN e
                               ELSE Lookup(resolved, "remote")[1]
    OBVIOUS
<1>4. /\ visible \in ListEntry /\ visible.id = "remote"
      /\ \A x \in MobileEntries(resolved) : x.id = "remote" => visible = x
    <2>1. CASE /\ Lookup(resolved, "remote") = <<>>
               /\ \A x \in MobileEntries(resolved) : x.id # "remote"
        BY <1>1, <1>3, <2>1
    <2>2. CASE \E x \in MobileEntries(resolved) : x.id = "remote" /\ Lookup(resolved, "remote") = <<x>>
        <3>1. PICK x \in MobileEntries(resolved) : x.id = "remote" /\ Lookup(resolved, "remote") = <<x>>
            BY <2>2
        <3>2. PICK found : found = Lookup(resolved, "remote")
            OBVIOUS
        <3>3. found = <<x>> /\ found # <<>> /\ found[1] = x
            BY <3>1, <3>2
        <3>4. visible = x
            BY <1>3, <3>2, <3>3
        <3> QED
            BY <1>2, <3>1, <3>4, ListEntries
    <2> QED
        BY <1>2, <2>1, <2>2, LookupIs
<1>5. PICK value, type : value = PendingCall(e, resolved).value /\ type = e.sync
    OBVIOUS
<1>6. /\ ValueOf(type, value)
      /\ type = "update" => value = e.task.payload
      /\ type \in {"lifecycle", "schedule"} => value = e.intent.value
    <2>1. PICK call : call = PendingCall(e, resolved)
        OBVIOUS
    <2>2. /\ ValueOf(e.sync, call.value)
          /\ e.sync \in {"create", "update"} => call.value = e.task.payload
          /\ e.sync \in {"lifecycle", "schedule"} => call.value = e.intent.value
        BY <2>1, PendingCallIs
    <2> QED
        BY <1>5, <2>1, <2>2
<1>7. PICK intent : intent = [type |-> type, placement |-> e.task.placement, value |-> value]
    OBVIOUS
<1>8. intent \in Intent /\ intent.type = type /\ intent.value = value
    <2>1. type \in CommandTypes /\ e.task.placement \in Domain!Placement
        BY <1>1, <1>5, TaskFields DEF CommandTypes
    <2>2. intent = [type |-> type, value |-> value, placement |-> e.task.placement]
        BY <1>7
    <2>3. [type |-> type, value |-> value, placement |-> e.task.placement] \in Intent
        BY <1>6, <2>1, IntentMade
    <2> QED
        BY <2>2, <2>3
<1>9. PICK c, item, missing : c = ConflictTask(resolved, e) /\ item = visible.task /\ missing = visible.missing
    OBVIOUS
<1>10. c = [id |-> "remote", task |-> item, sync |-> "conflict", intent |-> intent, missing |-> missing]
    <2>1. PICK s, i : visible = [id |-> "remote", task |-> item, sync |-> s, intent |-> i, missing |-> missing]
        BY <1>4, <1>9, EntryFields
    <2>2. c = [visible EXCEPT !.sync = "conflict", !.intent = intent]
        BY <1>3, <1>5, <1>7, <1>9 DEF ConflictTask
    <2> QED
        BY <2>1, <2>2
<1>11. c.id = "remote" /\ c.task = item /\ c.sync = "conflict" /\ c.intent = intent
    BY <1>10
<1>12. c \in ListEntry
    <2>1. item \in Task /\ missing \in BOOLEAN
        BY <1>4, <1>9, EntryFields
    <2> QED
        BY <1>8, <1>10, <2>1, EntryMade DEF SyncStates
<1>13. Sound(c, ids)
    <2>1. type \in CommandTypes /\ value \in Values(type)
        BY <1>1, <1>5, <1>6 DEF CommandTypes, ValueOf
    <2> QED
        BY <1>8, <1>11, <2>1 DEF Sound
<1>14. ASSUME NEW command, command.type \in AnyType, HasIt(e, command)
       PROVE  HasIt(c, command)
    <2>1. /\ type \in {"update", "delete"} => e.intent.type = Unset
          /\ type \in {"lifecycle", "schedule"} => e.intent.type = type
        BY <1>1, <1>5 DEF Sound
    <2>2. command.type \in {"create", "update", "lifecycle", "schedule", "delete"}
        BY <1>14 DEF AnyType, CommandTypes
    <2> QED
        BY <1>1, <1>5, <1>6, <1>8, <1>11, <1>14, <2>1, <2>2 DEF HasIt, Unset
<1> QED
    BY <1>4, <1>9, <1>11, <1>12, <1>13, <1>14

-----------------------------------------------------------------------------
(* What holds of lists, handlers, flights and calls goes on to hold when   *)
(* more identities and revisions are known.                                *)

LEMMA MoreIdentities ==
    ASSUME NEW ids, NEW more, ids \subseteq more, NEW revisions, NEW later, revisions \subseteq later
    PROVE  /\ \A e : Sound(e, ids) => Sound(e, more)
           /\ \A e : Seen(e, revisions) => Seen(e, later)
           /\ \A list : GoodList(list, ids) => GoodList(list, more)
           /\ \A list : SeenList(list, ids, revisions) => SeenList(list, more, later)
           /\ \A h : HandlerOK(h, ids, revisions) => HandlerOK(h, more, later)
           /\ \A f : FlightOK(f, ids, revisions) => FlightOK(f, more, later)
           /\ \A call : CallOK(call, ids, revisions) => CallOK(call, more, later)
<1>1. ASSUME NEW e, Sound(e, ids) PROVE Sound(e, more)
    BY <1>1 DEF Sound
<1>2. ASSUME NEW e, Seen(e, revisions) PROVE Seen(e, later)
    BY <1>2 DEF Seen
<1>3. ASSUME NEW list, GoodList(list, ids) PROVE GoodList(list, more)
    BY <1>1, <1>3 DEF GoodList
<1>4. ASSUME NEW list, SeenList(list, ids, revisions) PROVE SeenList(list, more, later)
    BY <1>2, <1>3, <1>4 DEF SeenList
<1>5. ASSUME NEW h, HandlerOK(h, ids, revisions) PROVE HandlerOK(h, more, later)
    BY <1>1, <1>2, <1>4, <1>5, Zenon DEF HandlerOK
<1>6. ASSUME NEW f, FlightOK(f, ids, revisions) PROVE FlightOK(f, more, later)
    BY <1>3, <1>4, <1>6, Zenon DEF FlightOK
<1>7. ASSUME NEW call, CallOK(call, ids, revisions) PROVE CallOK(call, more, later)
    BY <1>7 DEF CallOK
<1> QED
    BY <1>1, <1>2, <1>3, <1>4, <1>5, <1>6, <1>7

LEMMA GoodUpserted ==
    ASSUME NEW ids, NEW list, GoodList(list, ids), NEW e \in ListEntry, Sound(e, ids)
    PROVE  /\ GoodList(Upserted(list, e), ids)
           /\ MobileEntries(Upserted(list, e)) = {e} \cup {x \in MobileEntries(list) : x.id # e.id}
<1>1. IsList(list) /\ \A x \in MobileEntries(list) : Sound(x, ids)
    BY DEF GoodList
<1>2. /\ IsList(Upserted(list, e))
      /\ MobileEntries(Upserted(list, e)) = {e} \cup {x \in MobileEntries(list) : x.id # e.id}
    BY <1>1, UpsertedIs
<1>3. \A x \in MobileEntries(Upserted(list, e)) : Sound(x, ids)
    BY <1>1, <1>2
<1> QED
    BY <1>2, <1>3 DEF GoodList

LEMMA GoodDropping ==
    ASSUME NEW ids, NEW list, GoodList(list, ids), NEW id
    PROVE  /\ GoodList(Dropping(list, id), ids)
           /\ MobileEntries(Dropping(list, id)) = {x \in MobileEntries(list) : x.id # id}
<1>1. IsList(list) /\ \A x \in MobileEntries(list) : Sound(x, ids)
    BY DEF GoodList
<1>2. /\ IsList(Dropping(list, id))
      /\ MobileEntries(Dropping(list, id)) = {x \in MobileEntries(list) : x.id # id}
    BY <1>1, DroppingIs
<1>3. \A x \in MobileEntries(Dropping(list, id)) : Sound(x, ids)
    BY <1>1, <1>2
<1> QED
    BY <1>2, <1>3 DEF GoodList

LEMMA NoEntries ==
    ASSUME NEW ids, NEW revisions
    PROVE  GoodList(<<>>, ids) /\ SeenList(<<>>, ids, revisions)
<1>1. IsList(<<>>) /\ MobileEntries(<<>>) = {}
    BY EntriesOfNone
<1>2. GoodList(<<>>, ids)
    BY <1>1 DEF GoodList
<1> QED
    BY <1>1, <1>2 DEF SeenList

\* The list a reply to a pending entry leaves.
LEMMA ReconciledIs ==
    ASSUME NEW ids, NEW revisions, NEW resolved, GoodList(resolved, ids),
           NEW e \in ListEntry, IsPending(e), Sound(e, ids), Seen(e, revisions),
           NEW status, NEW item, status = "ok" => item \in Task,
           NEW list, list = Reconciled(resolved, e, status, item)
    PROVE  /\ GoodList(list, ids)
           /\ status = "ok" /\ e.sync = "delete" =>
                MobileEntries(list) = {x \in MobileEntries(resolved) : x.id # "remote"}
           /\ status = "ok" /\ e.sync # "delete" =>
                MobileEntries(list) = {Synced(item)} \cup {x \in MobileEntries(resolved) : x.id # "remote"}
           /\ status = "conflict" /\ e.sync # "create" =>
                MobileEntries(list) = {ConflictTask(resolved, e)}
                                        \cup {x \in MobileEntries(resolved) : x.id # "remote"}
           /\ status # "ok" /\ ~(status = "conflict" /\ e.sync # "create") =>
                MobileEntries(list) = {e} \cup {x \in MobileEntries(resolved) : x.id # e.id}
<1>1. CASE status = "ok" /\ e.sync = "delete"
    <2>1. list = Dropping(resolved, "remote")
        BY <1>1 DEF Reconciled
    <2> QED
        BY <1>1, <2>1, GoodDropping
<1>2. CASE status = "ok" /\ e.sync # "delete"
    <2>1. PICK s : s = Synced(item)
        OBVIOUS
    <2>2. s \in ListEntry /\ Sound(s, ids) /\ s.id = "remote"
        BY <1>2, <2>1, SyncedIs
    <2>3. list = Upserted(resolved, s)
        BY <1>2, <2>1 DEF Reconciled
    <2> QED
        BY <1>2, <2>1, <2>2, <2>3, GoodUpserted
<1>3. CASE status = "conflict" /\ e.sync # "create"
    <2>1. PICK c : c = ConflictTask(resolved, e)
        OBVIOUS
    <2>2. c \in ListEntry /\ Sound(c, ids) /\ c.id = "remote"
        BY <1>3, <2>1, ConflictTaskIs
    <2>3. list = Upserted(resolved, c)
        BY <1>3, <2>1 DEF Reconciled
    <2> QED
        BY <1>3, <2>1, <2>2, <2>3, GoodUpserted
<1>4. CASE status # "ok" /\ ~(status = "conflict" /\ e.sync # "create")
    <2>1. list = Upserted(resolved, e)
        BY <1>4 DEF Reconciled
    <2> QED
        BY <1>4, <2>1, GoodUpserted
<1> QED
    BY <1>1, <1>2, <1>3, <1>4

\* A fetch starts from the server's version, or from a conflict over it.
LEMMA FromServerIs ==
    ASSUME NEW ids, NEW list, GoodList(list, ids), remote.task \in Task
    PROVE  /\ GoodList(FromServer(list), ids)
           /\ \A y \in MobileEntries(FromServer(list)) : y.id = "remote"
           /\ \/ /\ \A x \in MobileEntries(list) : x.sync # "conflict"
                 /\ MobileEntries(FromServer(list)) =
                        IF remote.kind = "live" THEN {Synced(remote.task)} ELSE {}
              \/ \E x \in MobileEntries(list), y \in ListEntry :
                    /\ x.sync = "conflict" /\ MobileEntries(FromServer(list)) = {y}
                    /\ y.sync = "conflict" /\ y.intent = x.intent
                    /\ remote.kind = "live" => y.task = remote.task
<1>1. IsList(list) /\ \A x \in MobileEntries(list) : Sound(x, ids)
    BY DEF GoodList
<1>2. PICK s : s = Synced(remote.task)
    OBVIOUS
<1>3. s \in ListEntry /\ Sound(s, ids) /\ s.id = "remote" /\ s.task = remote.task
    BY <1>2, SyncedIs
<1>4. PICK result : result = FromServer(list)
    OBVIOUS
<1>5. CASE /\ EntryAt(list, ConflictPositions(list)) = <<>>
           /\ \A x \in MobileEntries(list) : x.sync # "conflict"
    <2>1. result = IF remote.kind = "live" THEN <<s>> ELSE <<>>
        BY <1>2, <1>4, <1>5 DEF FromServer, ServerList
    <2>2. /\ MobileEntries(result) = IF remote.kind = "live" THEN {s} ELSE {}
          /\ IsList(result)
        BY <1>3, <2>1, EntriesOfOne, EntriesOfNone
    <2>3. GoodList(result, ids) /\ \A y \in MobileEntries(result) : y.id = "remote"
        BY <1>3, <2>2 DEF GoodList
    <2> QED
        BY <1>2, <1>4, <1>5, <2>2, <2>3
<1>6. CASE \E x \in MobileEntries(list) : x.sync = "conflict" /\ EntryAt(list, ConflictPositions(list)) = <<x>>
    <2>1. PICK x \in MobileEntries(list) : x.sync = "conflict" /\ EntryAt(list, ConflictPositions(list)) = <<x>>
        BY <1>6
    <2>2. x \in ListEntry /\ Sound(x, ids)
        BY <1>1, <2>1, ListEntries
    <2>3. /\ x.id = "remote" /\ x.intent \in Intent /\ x.task \in Task
          /\ x.intent.type \in CommandTypes /\ x.intent.value \in Values(x.intent.type)
        <3>1. x.id \in {"local", "remote"} /\ x.intent \in Intent /\ x.task \in Task
            BY <2>2, EntryFields
        <3>2. x.id = "remote" /\ x.intent.type \in CommandTypes
            BY <2>1, <2>2, <3>1 DEF Sound
        <3> QED
            BY <2>2, <3>1, <3>2 DEF Sound
    <2>4. <<x>> # <<>> /\ <<x>>[1] = x
        OBVIOUS
    <2>5. PICK gone, known, intent, old : /\ gone = TRUE /\ known = FALSE
                                          /\ intent = x.intent /\ old = x.task
        OBVIOUS
    <2>6. PICK y : y = IF remote.kind # "live" THEN [x EXCEPT !.missing = gone]
                       ELSE [s EXCEPT !.sync = "conflict", !.intent = intent]
        OBVIOUS
    <2>7. result = <<y>>
        BY <1>2, <1>4, <2>1, <2>4, <2>5, <2>6 DEF FromServer
    <2>8. y = [id |-> "remote", task |-> IF remote.kind # "live" THEN old ELSE remote.task,
               sync |-> "conflict", intent |-> intent,
               missing |-> IF remote.kind # "live" THEN gone ELSE known]
        <3>1. CASE remote.kind # "live"
            <4>1. PICK m : x = [id |-> "remote", task |-> old, sync |-> "conflict",
                                intent |-> intent, missing |-> m]
                BY <2>1, <2>2, <2>3, <2>5, EntryFields
            <4> QED
                BY <2>6, <3>1, <4>1
        <3>2. CASE remote.kind = "live"
            <4>1. s = [id |-> "remote", task |-> remote.task, sync |-> "synced",
                       intent |-> NoIntent, missing |-> known]
                BY <1>2, <2>5 DEF Synced
            <4> QED
                BY <2>6, <3>2, <4>1
        <3> QED
            BY <3>1, <3>2
    <2>9. /\ y.id = "remote" /\ y.sync = "conflict" /\ y.intent = intent
          /\ remote.kind = "live" => y.task = remote.task
        BY <2>8
    <2>10. y \in ListEntry
        <3>1. (IF remote.kind # "live" THEN old ELSE remote.task) \in Task
            BY <2>3, <2>5
        <3>2. (IF remote.kind # "live" THEN gone ELSE known) \in BOOLEAN
            BY <2>5
        <3>3. intent \in Intent /\ "remote" \in {"local", "remote"} /\ "conflict" \in SyncStates
            BY <2>3, <2>5 DEF SyncStates
        <3> QED
            BY <2>8, <3>1, <3>2, <3>3, EntryMade
    <2>11. Sound(y, ids)
        BY <2>3, <2>5, <2>9 DEF Sound
    <2>12. MobileEntries(result) = {y} /\ IsList(result)
        BY <2>7, <2>10, EntriesOfOne
    <2>13. GoodList(result, ids)
        BY <2>11, <2>12 DEF GoodList
    <2> QED
        BY <1>4, <2>1, <2>5, <2>9, <2>10, <2>12, <2>13
<1> QED
    BY <1>1, <1>4, <1>5, <1>6, ConflictsAre

-----------------------------------------------------------------------------
(* The server.                                                             *)

LEMMA AfterIs ==
    ASSUME ServerInv, NEW call, CallOK(call, PhoneIdentities, shown), Status(call) = "ok"
    PROVE  /\ After(call) \in [kind : {"unborn", "live", "gone"}, task : Task]
           /\ After(call).kind = IF call.type = "delete" THEN "gone" ELSE "live"
           /\ Creates(call) => creation.key = 0 /\ call.value \in {"p", "q"} /\ call.key = 1
<1>1. /\ remote \in [kind : {"unborn", "live", "gone"}, task : Task]
      /\ creation.key \in {0, 1} /\ (creation.key = 1 => remote.kind # "unborn")
    BY DEF ServerInv
<1>2. /\ call.type \in AnyType /\ ValueOf(call.type, call.value)
      /\ call.type = "create" => call.key = 1 /\ "local" \in PhoneIdentities
    BY DEF CallOK, CallRec
<1>3. CASE call.type = "create"
    <2>1. /\ call.value \in {"p", "q"} /\ call.key = 1
          /\ creation.key = 1 \/ remote.kind = "unborn"
        BY <1>2, <1>3 DEF ValueOf, PhoneIdentities
    <2>2. Creates(call) <=> creation.key = 0
        BY <1>1, <1>3, <2>1 DEF Creates
    <2>3. creation.key = 1 => remote.kind = "live"
        BY <1>1, <1>3, <2>2 DEF Status
    <2>4. After(call) = IF remote.kind = "unborn" THEN [kind |-> "live", task |-> NewTask(call.value)]
                        ELSE remote
        BY <1>3 DEF After
    <2>5. NewTask(call.value) \in Task
        BY <2>1, PlacementsAre
    <2> QED
        BY <1>1, <1>3, <2>1, <2>2, <2>3, <2>4, <2>5
<1>4. CASE call.type = "delete"
    <2>1. After(call) = [kind |-> "gone", task |-> NewTask("p")] /\ NewTask("p") \in Task
        BY <1>4, PlacementsAre DEF After, Gone
    <2> QED
        BY <1>4, <2>1 DEF Creates
<1>5. CASE call.type \in {"update", "lifecycle", "schedule"}
    <2>1. /\ remote.kind = "live"
          /\ call.type = "lifecycle" => CanMove(remote.task, call.value)
        BY <1>5 DEF Status, Creates
    <2>2. PICK item : item = Changed(remote.task, call.type, call.value)
        OBVIOUS
    <2>3. item \in Task
        BY <1>1, <1>2, <2>1, <2>2, ChangedIs
    <2>4. PICK revision : revision = remote.task.revision + 1
        OBVIOUS
    <2>5. revision \in Nat
        BY <1>1, <2>4, TaskFields
    <2>6. PICK next : next = [item EXCEPT !.revision = revision]
        OBVIOUS
    <2>7. next \in Task
        <3>1. PICK payload, placement, schedule, old :
                /\ item = [payload |-> payload, placement |-> placement,
                           schedule |-> schedule, revision |-> old]
                /\ payload \in {"p", "q"} /\ placement \in Domain!Placement
                /\ schedule \in {"s", Unset}
            BY <2>3, TaskFields
        <3>2. next = [payload |-> payload, placement |-> placement,
                      schedule |-> schedule, revision |-> revision]
            BY <2>6, <3>1
        <3> QED
            BY <2>5, <3>1, <3>2, TaskMade
    <2>8. After(call) = [kind |-> "live", task |-> next]
        BY <1>5, <2>2, <2>4, <2>6 DEF After
    <2> QED
        BY <1>5, <2>7, <2>8 DEF Creates
<1> QED
    BY <1>2, <1>3, <1>4, <1>5 DEF AnyType, CommandTypes

\* A call the server accepts, and one that it does not.
LEMMA TakesIs ==
    ASSUME ServerInv, NEW call, CallOK(call, PhoneIdentities, shown), NEW outcome, Takes(call, outcome)
    PROVE  /\ remote' \in [kind : {"unborn", "live", "gone"}, task : Task]
           /\ creation' \in [key : {0, 1}, payload : {"p", "q"}]
           /\ copies' = creation'.key
           /\ creation'.key = 1 => remote'.kind # "unborn"
           /\ mishaps' \in Nat
           /\ blind' = FALSE
           /\ latest' = latest \/ latest' = Closed
           /\ PhoneIdentities \subseteq PhoneIdentities'
           /\ remote'.kind = "unborn" => remote.kind = "unborn"
           /\ outcome.taken /\ Status(call) = "ok" =>
                /\ remote'.kind = IF call.type = "delete" THEN "gone" ELSE "live"
                /\ Carries(call) => latest' = Closed
                /\ call.type # "create" => creation' = creation
           /\ ~(outcome.taken /\ Status(call) = "ok") =>
                remote' = remote /\ creation' = creation /\ latest' = latest
<1>1. /\ remote \in [kind : {"unborn", "live", "gone"}, task : Task]
      /\ creation \in [key : {0, 1}, payload : {"p", "q"}]
      /\ copies = creation.key /\ mishaps \in Nat
      /\ creation.key = 1 => remote.kind # "unborn"
    BY DEF ServerInv
<1>2. CASE outcome.taken /\ Status(call) = "ok"
    <2>1. /\ remote' = After(call)
          /\ mishaps' = IF outcome.status = "lost" THEN mishaps + 1 ELSE mishaps
          /\ creation' = IF Creates(call) THEN [key |-> call.key, payload |-> call.value] ELSE creation
          /\ copies' = IF Creates(call) THEN copies + 1 ELSE copies
          /\ latest' = IF Carries(call) THEN Closed ELSE latest
        BY <1>2 DEF Takes
    <2>2. /\ remote' \in [kind : {"unborn", "live", "gone"}, task : Task]
          /\ remote'.kind = IF call.type = "delete" THEN "gone" ELSE "live"
          /\ Creates(call) => creation.key = 0 /\ call.value \in {"p", "q"} /\ call.key = 1
        BY <1>2, <2>1, AfterIs
    <2>3. creation' \in [key : {0, 1}, payload : {"p", "q"}] /\ copies' = creation'.key
        <3>1. CASE Creates(call)
            BY <1>1, <2>1, <2>2, <3>1
        <3>2. CASE ~Creates(call)
            BY <1>1, <2>1, <3>2
        <3> QED
            BY <3>1, <3>2
    <2>4. blind' = FALSE
        <3>1. blind = FALSE
            BY DEF ServerInv
        <3>2. call.type # "create" /\ ~call.followUp => call.base \in shown
            BY DEF CallOK
        <3>3. blind' = (blind \/ (/\ outcome.taken /\ Status(call) = "ok" /\ ~call.followUp
                                  /\ call.type # "create" /\ call.base \notin shown))
            BY DEF Takes
        <3> QED
            BY <3>1, <3>2, <3>3
    <2>5. mishaps' \in Nat
        BY <1>1, <2>1
    <2>6. call.type # "create" => creation' = creation
        BY <2>1 DEF Creates
    <2>7. PhoneIdentities \subseteq PhoneIdentities'
        <3>1. CASE Creates(call)
            BY <2>1, <2>2, <3>1 DEF PhoneIdentities
        <3>2. CASE ~Creates(call)
            <4>1. creation' = creation
                BY <2>1, <3>2
            <4>2. remote.kind = "unborn" => call.type = "create"
                BY <1>2 DEF Status, Creates
            <4>3. remote.kind = "unborn" => creation.key = 1
                <5>1. SUFFICES ASSUME remote.kind = "unborn" PROVE creation.key = 1
                    OBVIOUS
                <5>2. call.type = "create" /\ call.key = creation.key
                    BY <3>2, <4>2, <5>1 DEF Creates
                <5> QED
                    BY <5>2 DEF CallOK
            <4> QED
                BY <4>1, <4>3 DEF PhoneIdentities
        <3> QED
            BY <3>1, <3>2
    <2>8. remote'.kind # "unborn"
        BY <2>2
    <2> QED
        BY <1>2, <2>1, <2>2, <2>3, <2>4, <2>5, <2>6, <2>7, <2>8
<1>3. CASE ~(outcome.taken /\ Status(call) = "ok")
    <2>1. /\ remote' = remote /\ creation' = creation /\ copies' = copies /\ latest' = latest
          /\ mishaps' = IF outcome.status = "lost" THEN mishaps + 1 ELSE mishaps
        BY <1>3 DEF Takes
    <2>2. blind' = FALSE
        <3>1. blind = FALSE
            BY DEF ServerInv
        <3>3. blind' = (blind \/ (/\ outcome.taken /\ Status(call) = "ok" /\ ~call.followUp
                                  /\ call.type # "create" /\ call.base \notin shown))
            BY DEF Takes
        <3> QED
            BY <1>3, <3>1, <3>3
    <2>3. mishaps' \in Nat
        BY <1>1, <2>1
    <2>4. PhoneIdentities' = PhoneIdentities
        BY <2>1 DEF PhoneIdentities
    <2> QED
        BY <1>1, <1>3, <2>1, <2>2, <2>3, <2>4
<1> QED
    BY <1>2, <1>3

\* The list as it is set, and what it has shown since.
LEMMA ShowsIs ==
    ASSUME NEW list, Shows(list), NEW ids, GoodList(list, ids), shown \subseteq Nat
    PROVE  /\ tasks' = list
           /\ shown \subseteq shown' /\ shown' \subseteq Nat
           /\ SeenList(list, ids, shown')
<1>1. PICK entries : entries = Lookup(list, "remote")
    OBVIOUS
<1>2. tasks' = list /\ shown' = shown \cup {entries[i].task.revision : i \in DOMAIN entries}
    BY <1>1 DEF Shows
<1>3. IsList(list)
    BY DEF GoodList
<1>4. CASE entries = <<>> /\ \A x \in MobileEntries(list) : x.id # "remote"
    <2>1. shown' = shown
        BY <1>2, <1>4
    <2>2. SeenList(list, ids, shown')
        BY <1>4 DEF SeenList, Seen
    <2> QED
        BY <1>2, <2>1, <2>2
<1>5. CASE \E x \in MobileEntries(list) : x.id = "remote" /\ entries = <<x>>
    <2>1. PICK x \in MobileEntries(list) : x.id = "remote" /\ entries = <<x>>
        BY <1>5
    <2>2. DOMAIN <<x>> = {1} /\ <<x>>[1] = x
        OBVIOUS
    <2>3. shown' = shown \cup {x.task.revision}
        BY <1>2, <2>1, <2>2
    <2>4. x.task.revision \in Nat
        <3>1. x \in ListEntry
            BY <1>3, <2>1, ListEntries
        <3>2. x.task \in Task
            BY <3>1, EntryFields
        <3> QED
            BY <3>2, TaskFields
    <2>5. \A y \in MobileEntries(list) : y.id = "remote" => y = x
        BY <1>3, <2>1, ListEntries
    <2>6. SeenList(list, ids, shown')
        BY <2>3, <2>5 DEF SeenList, Seen
    <2> QED
        BY <1>2, <2>3, <2>4, <2>6
<1> QED
    BY <1>1, <1>3, <1>4, <1>5, LookupIs

-----------------------------------------------------------------------------
(* Steps that leave a part of the state alone.                             *)

LEMMA CommandIs ==
    /\ CommandOK(Closed)
    /\ \A type, value : type \in AnyType /\ ValueOf(type, value) => CommandOK([type |-> type, value |-> value])
<1>1. ASSUME NEW type \in AnyType, NEW value, ValueOf(type, value)
      PROVE  CommandOK([type |-> type, value |-> value])
    <2>1. value \in AnyValue
        BY <1>1, ValuesAre DEF ValueOf, AnyType, CommandTypes, AnyValue
    <2> QED
        BY <1>1, <2>1 DEF CommandOK
<1>2. CommandOK(Closed)
    BY DEF CommandOK, Closed, AnyValue
<1> QED
    BY <1>1, <1>2

LEMMA ServerStays ==
    ASSUME ServerInv, remote' = remote, creation' = creation, copies' = copies, blind' = blind,
           mishaps' \in Nat, shown' \subseteq Nat, settled' \in BOOLEAN, CommandOK(latest')
    PROVE  ServerInv' /\ PhoneIdentities' = PhoneIdentities
<1>1. PhoneIdentities' = PhoneIdentities
    BY DEF PhoneIdentities
<1> QED
    BY <1>1 DEF ServerInv

LEMMA HandlersFacts ==
    ASSUME HandlersInv
    PROVE  /\ Len(handlers) \in Nat /\ DOMAIN handlers = 1 .. Len(handlers)
           /\ \A n \in DOMAIN handlers : handlers[n] \in HandlerRec \cup {Returned}
           /\ \A n \in DOMAIN handlers : n \notin Running => handlers[n] = Returned
           /\ \A n \in Running : n \in DOMAIN handlers /\ HandlerOK(handlers[n], PhoneIdentities, shown)
           /\ Returned \notin HandlerRec /\ Returned.at = "done"
<1>1. /\ handlers \in Seq(HandlerRec \cup {Returned})
      /\ \A n \in Running : HandlerOK(handlers[n], PhoneIdentities, shown)
    BY DEF HandlersInv
<1>2. /\ Len(handlers) \in Nat /\ DOMAIN handlers = 1 .. Len(handlers)
      /\ \A n \in DOMAIN handlers : handlers[n] \in HandlerRec \cup {Returned}
    BY <1>1
<1>3. Returned.at = "done" /\ \A h \in HandlerRec : h.at # "done"
    BY DEF Returned, HandlerRec
<1>4. Returned \notin HandlerRec
    BY <1>3
<1>5. \A n \in DOMAIN handlers : n \notin Running => handlers[n].at = "done"
    BY DEF Running
<1>6. \A n \in DOMAIN handlers : n \notin Running => handlers[n] = Returned
    BY <1>2, <1>3, <1>5
<1>7. \A n \in Running : n \in DOMAIN handlers
    BY DEF Running
<1> QED
    BY <1>1, <1>2, <1>3, <1>4, <1>6, <1>7

LEMMA HandlersStay ==
    ASSUME HandlersInv, handlers' = handlers,
           PhoneIdentities \subseteq PhoneIdentities', shown \subseteq shown'
    PROVE  HandlersInv' /\ Running' = Running
<1>1. Running' = Running
    BY DEF Running
<1>2. \A n \in Running : HandlerOK(handlers[n], PhoneIdentities', shown')
    BY MoreIdentities DEF HandlersInv
<1> QED
    BY <1>1, <1>2 DEF HandlersInv

\* The n-th handler goes on as h.
LEMMA HandlerPut ==
    ASSUME HandlersInv, NEW n \in DOMAIN handlers, NEW h, handlers' = [handlers EXCEPT ![n] = h],
           h = Returned \/ HandlerOK(h, PhoneIdentities', shown'),
           PhoneIdentities \subseteq PhoneIdentities', shown \subseteq shown'
    PROVE  /\ HandlersInv' /\ handlers' # <<>> /\ Len(handlers') = Len(handlers)
           /\ handlers'[n] = h
           /\ \A m \in DOMAIN handlers : m # n => handlers'[m] = handlers[m]
           /\ Running' = IF h = Returned THEN Running \ {n} ELSE Running \cup {n}
<1>1. /\ handlers \in Seq(HandlerRec \cup {Returned}) /\ Len(handlers) <= MaxCommands
      /\ \A m \in Running : HandlerOK(handlers[m], PhoneIdentities, shown)
    BY DEF HandlersInv
<1>2. Len(handlers) \in Nat /\ DOMAIN handlers = 1 .. Len(handlers)
    BY <1>1
<1>3. h \in HandlerRec \cup {Returned}
    BY DEF HandlerOK
<1>4. /\ handlers' \in Seq(HandlerRec \cup {Returned}) /\ Len(handlers') = Len(handlers)
      /\ \A m \in DOMAIN handlers : handlers'[m] = IF m = n THEN h ELSE handlers[m]
    BY <1>1, <1>2, <1>3, ExceptSeq
<1>5. DOMAIN handlers' = DOMAIN handlers
    BY <1>2, <1>4
<1>6. h.at = "done" <=> h = Returned
    BY <1>3 DEF Returned, HandlerRec
<1>7. Running' = IF h = Returned THEN Running \ {n} ELSE Running \cup {n}
    BY <1>4, <1>5, <1>6 DEF Running
<1>8. \A m \in Running' : HandlerOK(handlers'[m], PhoneIdentities', shown')
    <2>1. SUFFICES ASSUME NEW m \in Running' PROVE HandlerOK(handlers'[m], PhoneIdentities', shown')
        OBVIOUS
    <2>2. CASE m = n
        <3>1. handlers'[m] = h /\ h # Returned
            BY <1>4, <1>7, <2>2
        <3> QED
            BY <3>1
    <2>3. CASE m # n
        <3>1. m \in Running /\ m \in DOMAIN handlers
            BY <1>7, <2>3 DEF Running
        <3>2. handlers'[m] = handlers[m] /\ HandlerOK(handlers[m], PhoneIdentities, shown)
            BY <1>1, <1>4, <2>3, <3>1
        <3>3. HandlerOK(handlers[m], PhoneIdentities', shown')
            BY <3>2, MoreIdentities
        <3> QED
            BY <3>2, <3>3
    <2> QED
        BY <2>2, <2>3
<1>9. handlers' # <<>>
    BY <1>2, <1>4
<1> QED
    BY <1>1, <1>4, <1>7, <1>8, <1>9 DEF HandlersInv

LEMMA HandlerAppended ==
    ASSUME HandlersInv, Len(handlers) < MaxCommands, NEW h, handlers' = Append(handlers, h),
           h = Returned \/ HandlerOK(h, PhoneIdentities', shown'),
           PhoneIdentities \subseteq PhoneIdentities', shown \subseteq shown'
    PROVE  /\ HandlersInv' /\ handlers' # <<>> /\ Len(handlers') = Len(handlers) + 1
           /\ handlers'[Len(handlers')] = h
           /\ Running' = IF h = Returned THEN Running ELSE Running \cup {Len(handlers')}
<1>1. /\ handlers \in Seq(HandlerRec \cup {Returned}) /\ Len(handlers) <= MaxCommands
      /\ \A m \in Running : HandlerOK(handlers[m], PhoneIdentities, shown)
    BY DEF HandlersInv
<1>2. Len(handlers) \in Nat /\ DOMAIN handlers = 1 .. Len(handlers)
    BY <1>1
<1>3. h \in HandlerRec \cup {Returned}
    BY DEF HandlerOK
<1>4. /\ handlers' \in Seq(HandlerRec \cup {Returned}) /\ Len(handlers') = Len(handlers) + 1
      /\ \A m \in 1 .. Len(handlers) : handlers'[m] = handlers[m]
      /\ handlers'[Len(handlers) + 1] = h
    BY <1>1, <1>3, AppendProperties
<1>5. DOMAIN handlers' = DOMAIN handlers \cup {Len(handlers')} /\ Len(handlers') \notin DOMAIN handlers
    BY <1>2, <1>4
<1>6. h.at = "done" <=> h = Returned
    BY <1>3 DEF Returned, HandlerRec
<1>7. handlers'[Len(handlers')] = h /\ \A m \in DOMAIN handlers : handlers'[m] = handlers[m]
    BY <1>2, <1>4
<1>8. Running' = IF h = Returned THEN Running ELSE Running \cup {Len(handlers')}
    BY <1>5, <1>6, <1>7 DEF Running
<1>9. \A m \in Running' : HandlerOK(handlers'[m], PhoneIdentities', shown')
    <2>1. SUFFICES ASSUME NEW m \in Running' PROVE HandlerOK(handlers'[m], PhoneIdentities', shown')
        OBVIOUS
    <2>2. CASE m \in Running
        <3>1. handlers'[m] = handlers[m] /\ HandlerOK(handlers[m], PhoneIdentities, shown)
            BY <1>1, <1>7, <2>2 DEF Running
        <3>2. HandlerOK(handlers[m], PhoneIdentities', shown')
            BY <3>1, MoreIdentities
        <3> QED
            BY <3>1, <3>2
    <2>3. CASE m \notin Running
        <3>1. h # Returned /\ m = Len(handlers')
            BY <1>8, <2>3
        <3> QED
            BY <1>7, <3>1
    <2> QED
        BY <2>2, <2>3
<1>10. Len(handlers') <= MaxCommands /\ handlers' # <<>>
    <2>1. MaxCommands \in Nat
        BY BoundsAreNumbers
    <2> QED
        BY <1>2, <1>4, <2>1
<1> QED
    BY <1>4, <1>7, <1>8, <1>9, <1>10 DEF HandlersInv

LEMMA StrayStays ==
    ASSUME StrayInv, stray' \subseteq stray,
           PhoneIdentities \subseteq PhoneIdentities', shown \subseteq shown'
    PROVE  StrayInv'
    BY MoreIdentities DEF StrayInv

LEMMA FlightFields ==
    ASSUME NEW f \in FlightRec
    PROVE  /\ f = [stage |-> f.stage, snapshot |-> f.snapshot, resolved |-> f.resolved,
                   todo |-> f.todo, followUp |-> f.followUp, boot |-> f.boot, calm |-> f.calm]
           /\ f.stage \in {"fetch", "reconcile"} /\ f.snapshot \in Seq(ListEntry)
           /\ f.resolved \in Seq(ListEntry) /\ f.todo \in Seq(ListEntry)
           /\ f.followUp \in Seq(ListEntry) /\ f.boot \in BOOLEAN /\ f.calm \in BOOLEAN
    BY Zenon DEF FlightRec

LEMMA FlightMade ==
    ASSUME NEW stage \in {"fetch", "reconcile"}, NEW snapshot \in Seq(ListEntry),
           NEW resolved \in Seq(ListEntry), NEW todo \in Seq(ListEntry),
           NEW followUp \in Seq(ListEntry), NEW boot \in BOOLEAN, NEW calm \in BOOLEAN
    PROVE  [stage |-> stage, snapshot |-> snapshot, resolved |-> resolved, todo |-> todo,
            followUp |-> followUp, boot |-> boot, calm |-> calm] \in FlightRec
    BY Zenon DEF FlightRec

\* A flight in whose time something happens keeps its lists.
LEMMA DisturbedIs ==
    ASSUME NEW ids, NEW revisions, NEW f, FlightOK(f, ids, revisions),
           NEW g, g = [f EXCEPT !.calm = FALSE]
    PROVE  /\ FlightOK(g, ids, revisions) /\ ~g.calm
           /\ g.stage = f.stage /\ g.snapshot = f.snapshot /\ g.resolved = f.resolved
           /\ g.todo = f.todo /\ g.followUp = f.followUp
<1>1. f \in FlightRec
    BY DEF FlightOK
<1>6. /\ g.stage = f.stage /\ g.snapshot = f.snapshot /\ g.resolved = f.resolved
      /\ g.todo = f.todo /\ g.followUp = f.followUp
    BY <1>1 DEF FlightRec
<1>7. g \in FlightRec
    BY <1>1 DEF FlightRec
<1>9. ~g.calm
    BY <1>1 DEF FlightRec
<1>8. FlightOK(g, ids, revisions)
    BY <1>6, <1>7 DEF FlightOK
<1> QED
    BY <1>6, <1>8, <1>9

LEMMA FlightsDisturbed ==
    ASSUME FlightsInv, flight' = Disturbed,
           PhoneIdentities \subseteq PhoneIdentities', shown \subseteq shown'
    PROVE  /\ FlightsInv'
           /\ \A g \in flight' : \E f \in flight : g = [f EXCEPT !.calm = FALSE]
<1>1. \A g \in flight' : \E f \in flight : g = [f EXCEPT !.calm = FALSE]
    BY DEF Disturbed
<1>2. ASSUME NEW g \in flight' PROVE FlightOK(g, PhoneIdentities', shown')
    <2>1. PICK f \in flight : g = [f EXCEPT !.calm = FALSE]
        BY <1>1
    <2>2. FlightOK(f, PhoneIdentities, shown)
        BY DEF FlightsInv
    <2>3. FlightOK(f, PhoneIdentities', shown')
        BY <2>2, MoreIdentities
    <2> QED
        BY <2>1, <2>3, DisturbedIs
<1> QED
    BY <1>1, <1>2 DEF FlightsInv

\* A flight that starts with a list.
LEMMA NewFlightIs ==
    ASSUME NEW ids, NEW revisions, NEW list, SeenList(list, ids, revisions), NEW boot \in BOOLEAN,
           NEW f, f = NewFlight(list, boot)
    PROVE  /\ FlightOK(f, ids, revisions)
           /\ f.stage = "fetch" /\ f.snapshot = list /\ f.resolved = <<>> /\ f.todo = <<>>
           /\ f.followUp = <<>>
           /\ f.calm <=> Running = {} /\ stray = {}
<1>1. PICK calm : calm = (Running = {} /\ stray = {})
    OBVIOUS
<1>2. f = [stage |-> "fetch", snapshot |-> list, resolved |-> <<>>, todo |-> <<>>,
           followUp |-> <<>>, boot |-> boot, calm |-> calm]
    BY <1>1 DEF NewFlight
<1>3. /\ f.stage = "fetch" /\ f.snapshot = list /\ f.resolved = <<>> /\ f.todo = <<>>
      /\ f.followUp = <<>> /\ f.calm = calm
    BY <1>2
<1>4. list \in Seq(ListEntry) /\ <<>> \in Seq(ListEntry) /\ calm \in BOOLEAN
    BY <1>1 DEF SeenList, GoodList, IsList
<1>5. f \in FlightRec
    BY <1>1, <1>2, <1>4 DEF FlightRec
<1>6. GoodList(<<>>, ids) /\ SeenList(<<>>, ids, revisions) /\ MobileEntries(<<>>) = {}
    BY NoEntries, EntriesOfNone
<1>7. FlightOK(f, ids, revisions)
    BY <1>3, <1>5, <1>6 DEF FlightOK
<1> QED
    BY <1>1, <1>3, <1>7

LEMMA FlightsRetried ==
    ASSUME FlightsInv, NEW list, Retries(list), SeenList(list, PhoneIdentities', shown'),
           PhoneIdentities \subseteq PhoneIdentities', shown \subseteq shown'
    PROVE  /\ FlightsInv'
           /\ \A g \in flight' : \/ flight = {} /\ g = NewFlight(list, FALSE)
                                 \/ \E f \in flight : g = [f EXCEPT !.calm = FALSE]
<1>1. CASE flight = {}
    <2>1. flight' = {NewFlight(list, FALSE)}
        BY <1>1 DEF Retries
    <2>2. FlightOK(NewFlight(list, FALSE), PhoneIdentities', shown')
        BY NewFlightIs
    <2> QED
        BY <1>1, <2>1, <2>2 DEF FlightsInv
<1>2. CASE flight # {}
    <2>1. flight' = Disturbed
        BY <1>2 DEF Retries
    <2> QED
        BY <1>2, <2>1, FlightsDisturbed
<1> QED
    BY <1>1, <1>2

-----------------------------------------------------------------------------
(* Every step keeps the parts sound.                                       *)

LEMMA TasksAre ==
    ASSUME PartsInv
    PROVE  /\ IsList(tasks) /\ GoodList(tasks, PhoneIdentities) /\ SeenList(tasks, PhoneIdentities, shown)
           /\ \A e \in MobileEntries(tasks) :
                e \in ListEntry /\ Sound(e, PhoneIdentities) /\ Seen(e, shown)
           /\ \A i \in DOMAIN tasks : tasks[i] \in MobileEntries(tasks)
           /\ shown \subseteq Nat
<1>1. /\ IsList(tasks) /\ GoodList(tasks, PhoneIdentities) /\ SeenList(tasks, PhoneIdentities, shown)
      /\ \A e \in MobileEntries(tasks) : Sound(e, PhoneIdentities) /\ Seen(e, shown)
    BY DEF PartsInv, ListInv, SeenList, GoodList
<1> QED
    BY <1>1, ListEntries DEF MobileEntries, PartsInv, ServerInv

LEMMA ListShows ==
    ASSUME shown \subseteq Nat, NEW list, Shows(list), GoodList(list, PhoneIdentities')
    PROVE  ListInv' /\ shown \subseteq shown' /\ shown' \subseteq Nat /\ tasks' = list
<1>1. PICK ids : ids = PhoneIdentities'
    OBVIOUS
<1>2. /\ tasks' = list /\ shown \subseteq shown' /\ shown' \subseteq Nat
      /\ SeenList(list, ids, shown')
    BY <1>1, ShowsIs
<1> QED
    BY <1>1, <1>2 DEF ListInv

LEMMA ListPersists ==
    ASSUME shown \subseteq Nat, NEW list, Persists(list), GoodList(list, PhoneIdentities')
    PROVE  ListInv' /\ shown \subseteq shown' /\ shown' \subseteq Nat /\ tasks' = list
    BY ListShows DEF Persists

LEMMA ListStays ==
    ASSUME ListInv, tasks' = tasks, shown' = shown, PhoneIdentities \subseteq PhoneIdentities'
    PROVE  ListInv'
    BY MoreIdentities DEF ListInv

\* A handler that begins.
LEMMA HandlerIs ==
    ASSUME NEW ids, NEW revisions, SeenList(tasks, ids, revisions),
           NEW at \in {"reminder", "asking"}, NEW type \in AnyType,
           NEW value, ValueOf(type, value),
           NEW e \in ListEntry, Sound(e, ids), Seen(e, revisions),
           at = "reminder" => type = "schedule",
           at = "asking" => (type = "create" <=> e.id = "local"),
           type = "create" => e.task.payload = value,
           type = "lifecycle" => CanMove(e.task, value),
           NEW h, h = Handler(at, type, value, e)
    PROVE  /\ HandlerOK(h, ids, revisions)
           /\ h.at = at /\ h.type = type /\ h.value = value /\ h.entry = e
           /\ h.list = IF type = "update" THEN tasks ELSE <<>>
           /\ h.reply.status = Unset
           /\ h # Returned
<1>1. PICK list, reply : /\ list = IF type = "update" THEN tasks ELSE <<>>
                         /\ reply = [status |-> Unset, task |-> NewTask("p")]
    OBVIOUS
<1>2. h = [at |-> at, type |-> type, value |-> value, entry |-> e, list |-> list, reply |-> reply]
    <2>1. Reply(Unset, NewTask("p")) = reply
        BY <1>1 DEF Reply
    <2> QED
        BY <1>1, <2>1 DEF Handler
<1>3. /\ h.at = at /\ h.type = type /\ h.value = value /\ h.entry = e /\ h.list = list
      /\ h.reply = reply
    BY <1>2
<1>4. SeenList(list, ids, revisions)
    BY <1>1, NoEntries
<1>5. value \in AnyValue
    BY ValuesAre DEF ValueOf, AnyType, CommandTypes, AnyValue
<1>6. reply \in ReplyRec
    <2>1. NewTask("p") \in Task
        BY PlacementsAre
    <2> QED
        BY <1>1, <2>1 DEF ReplyRec
<1>7. list \in Seq(ListEntry)
    BY <1>4 DEF SeenList, GoodList, IsList
<1>8. h \in HandlerRec
    BY <1>2, <1>5, <1>6, <1>7 DEF HandlerRec
<1>9. HandlerOK(h, ids, revisions)
    BY <1>3, <1>4, <1>8 DEF HandlerOK
<1>10. h # Returned
    BY <1>3 DEF Returned
<1> QED
    BY <1>1, <1>3, <1>9, <1>10

LEMMA AddedEntryIs ==
    ASSUME NEW e, e = [Synced(NewTask("p")) EXCEPT !.id = "local", !.sync = "create"],
           NEW ids, "local" \in ids
    PROVE  /\ e \in ListEntry /\ Sound(e, ids)
           /\ e.id = "local" /\ e.sync = "create" /\ e.task = NewTask("p")
           /\ e.task.payload = "p"
<1>1. PICK item, s : item = NewTask("p") /\ s = Synced(item)
    OBVIOUS
<1>2. item \in Task /\ item.payload = "p"
    BY <1>1, PlacementsAre DEF NewTask
<1>3. s \in ListEntry /\ s.task = item /\ s.intent = NoIntent
    BY <1>1, <1>2, SyncedIs DEF Synced
<1>4. e = [s EXCEPT !.id = "local", !.sync = "create"]
    BY <1>1
<1>5. "create" \in SyncStates
    BY DEF SyncStates
<1>6. e \in ListEntry /\ e.id = "local" /\ e.sync = "create" /\ e.task = item /\ e.intent = NoIntent
    BY <1>3, <1>4, <1>5 DEF ListEntry
<1>7. Sound(e, ids)
    <2>1. NoIntent.type = Unset
        BY IntentIs
    <2> QED
        BY <1>6, <2>1 DEF Sound, CommandTypes, Unset
<1> QED
    BY <1>1, <1>2, <1>6, <1>7

LEMMA AddParts ==
    ASSUME PartsInv, Add
    PROVE  PartsInv'
<1>1. /\ remote.kind = "unborn" /\ Len(handlers) = 0 /\ Len(handlers) < MaxCommands
      /\ Given("create", "p") /\ flight' = Disturbed /\ settled' = FALSE
      /\ remote' = remote /\ creation' = creation /\ stray' = stray /\ mishaps' = mishaps
      /\ copies' = copies /\ blind' = blind
    BY DEF Add, Disturbs
<1>2. PICK e : /\ e = [Synced(NewTask("p")) EXCEPT !.id = "local", !.sync = "create"]
               /\ Persists(<<e>> \o tasks)
               /\ handlers' = Append(handlers, Handler("asking", "create", "p", e))
    BY DEF Add, Disturbs
<1>3. /\ ServerInv /\ HandlersInv /\ FlightsInv /\ StrayInv /\ shown \subseteq Nat
      /\ SeenList(tasks, PhoneIdentities, shown)
    BY DEF PartsInv, ServerInv, ListInv
<1>4. tasks = <<>>
    <2>1. handlers = <<>>
        BY <1>1, <1>3 DEF HandlersInv
    <2> QED
        BY <1>1, <2>1 DEF PartsInv, OriginInv
<1>5. PhoneIdentities' = PhoneIdentities /\ "local" \in PhoneIdentities
    BY <1>1 DEF PhoneIdentities
<1>6. /\ e \in ListEntry /\ Sound(e, PhoneIdentities) /\ e.id = "local"
      /\ e.task.payload = "p"
    BY <1>2, <1>5, AddedEntryIs
<1>7. GoodList(<<e>> \o tasks, PhoneIdentities')
    <2>1. IsList(tasks) /\ MobileEntries(tasks) = {}
        BY <1>4, EntriesOfNone
    <2>2. IsList(<<e>> \o tasks) /\ MobileEntries(<<e>> \o tasks) = {e}
        BY <1>6, <2>1, PutFirst
    <2> QED
        BY <1>5, <1>6, <2>2 DEF GoodList
<1>8. ListInv' /\ shown \subseteq shown' /\ shown' \subseteq Nat
    BY <1>2, <1>3, <1>7, ListPersists
<1>9. CommandOK(latest')
    <2>1. "create" \in AnyType /\ ValueOf("create", "p")
        BY DEF AnyType, ValueOf
    <2>2. latest' = Closed \/ latest' = [type |-> "create", value |-> "p"]
        BY <1>1 DEF Given
    <2> QED
        BY <2>1, <2>2, CommandIs
<1>10. ServerInv'
    <2>1. mishaps' \in Nat /\ settled' \in BOOLEAN
        BY <1>1, <1>3 DEF ServerInv
    <2> QED
        BY <1>1, <1>3, <1>8, <1>9, <2>1, ServerStays
<1>11. PICK h : h = Handler("asking", "create", "p", e)
    OBVIOUS
<1>12. HandlerOK(h, PhoneIdentities', shown')
    <2>1. "create" \in AnyType /\ ValueOf("create", "p")
        BY DEF AnyType, ValueOf
    <2>2. SeenList(tasks, PhoneIdentities, shown') /\ Seen(e, shown')
        BY <1>4, <1>6, NoEntries DEF Seen
    <2>3. HandlerOK(h, PhoneIdentities, shown')
        BY <1>6, <1>11, <2>1, <2>2, HandlerIs
    <2> QED
        BY <1>5, <2>3
<1>13. HandlersInv' /\ handlers' # <<>>
    BY <1>1, <1>2, <1>3, <1>5, <1>8, <1>11, <1>12, HandlerAppended
<1>14. FlightsInv'
    BY <1>1, <1>3, <1>5, <1>8, FlightsDisturbed
<1>15. StrayInv'
    BY <1>1, <1>3, <1>5, <1>8, StrayStays
<1>16. OriginInv'
    BY <1>13 DEF OriginInv
<1> QED
    BY <1>8, <1>10, <1>13, <1>14, <1>15, <1>16 DEF PartsInv

LEMMA CommandParts ==
    ASSUME PartsInv, NEW i \in DOMAIN tasks, NEW type \in CommandTypes, NEW value \in Values(type),
           Command(tasks[i], type, value)
    PROVE  PartsInv'
<1>1. PICK e : e = tasks[i]
    OBVIOUS
<1>2. /\ ServerInv /\ ListInv /\ HandlersInv /\ FlightsInv /\ StrayInv /\ shown \subseteq Nat
      /\ GoodList(tasks, PhoneIdentities) /\ SeenList(tasks, PhoneIdentities, shown)
      /\ e \in ListEntry /\ Sound(e, PhoneIdentities) /\ Seen(e, shown)
    BY <1>1, TasksAre DEF PartsInv
<1>3. /\ Len(handlers) < MaxCommands /\ MayCommand(e, type, value)
      /\ mishaps' = IF Quiet THEN mishaps ELSE mishaps + 1
      /\ flight' = Disturbed /\ settled' = FALSE
      /\ remote' = remote /\ creation' = creation /\ stray' = stray
      /\ copies' = copies /\ blind' = blind
      /\ latest' = Closed \/ Given(type, value)
    BY <1>1 DEF Command, Disturbs
<1>4. /\ type \in AnyType /\ type # "create" /\ ValueOf(type, value)
      /\ type = "lifecycle" => CanMove(e.task, value)
      /\ e.id = "local" => "local" \in PhoneIdentities
    BY <1>2, <1>3 DEF AnyType, CommandTypes, ValueOf, MayCommand, Sound
<1>5. PhoneIdentities' = PhoneIdentities
    BY <1>3 DEF PhoneIdentities
<1>6. ListInv' /\ shown \subseteq shown' /\ shown' \subseteq Nat
    <2>1. CASE tasks' = tasks /\ shown' = shown
        BY <1>2, <1>5, <2>1, ListStays
    <2>2. CASE Persists(Dropping(tasks, "local"))
        <3>1. GoodList(Dropping(tasks, "local"), PhoneIdentities)
            BY <1>2, GoodDropping
        <3> QED
            BY <1>2, <1>5, <2>2, <3>1, ListPersists
    <2>3. CASE Persists(Upserted(tasks, Marked(e, type, value)))
        <3>1. Marked(e, type, value) \in ListEntry /\ Sound(Marked(e, type, value), PhoneIdentities)
            BY <1>2, <1>4, MarkedIs
        <3>2. GoodList(Upserted(tasks, Marked(e, type, value)), PhoneIdentities)
            BY <1>2, <3>1, GoodUpserted
        <3> QED
            BY <1>2, <1>5, <2>3, <3>2, ListPersists
    <2> QED
        BY <1>1, <2>1, <2>2, <2>3 DEF Command, Disturbs
<1>7. CommandOK(latest')
    <2>1. latest' = Closed \/ latest' = [type |-> type, value |-> value]
        BY <1>3 DEF Given
    <2> QED
        BY <1>4, <2>1, CommandIs
<1>8. ServerInv'
    <2>1. mishaps' \in Nat
        BY <1>2, <1>3 DEF ServerInv
    <2>2. settled' \in BOOLEAN
        BY <1>3
    <2> QED
        BY <1>2, <1>3, <1>6, <1>7, <2>1, <2>2, ServerStays
<1>9. \E h : /\ handlers' = Append(handlers, h)
             /\ h = Returned \/ HandlerOK(h, PhoneIdentities', shown')
    <2>1. PICK at : at = IF type = "schedule" THEN "reminder"
                         ELSE IF e.id = "local" THEN "done" ELSE "asking"
        OBVIOUS
    <2>2. handlers' = Append(handlers, IF at = "done" THEN Returned ELSE Handler(at, type, value, e))
        BY <1>1, <2>1 DEF Command, Disturbs
    <2>3. CASE at = "done"
        BY <2>2, <2>3
    <2>4. CASE at # "done"
        <3>1. PICK h : h = Handler(at, type, value, e)
            OBVIOUS
        <3>2. at \in {"reminder", "asking"} /\ (at = "reminder" => type = "schedule")
              /\ (at = "asking" => (type = "create" <=> e.id = "local"))
            BY <1>4, <2>1, <2>4
        <3>3. HandlerOK(h, PhoneIdentities, shown)
            BY <1>2, <1>4, <3>1, <3>2, HandlerIs
        <3>4. HandlerOK(h, PhoneIdentities', shown')
            BY <1>5, <1>6, <3>3, MoreIdentities
        <3> QED
            BY <2>2, <2>4, <3>1, <3>4
    <2> QED
        BY <2>3, <2>4
<1>10. HandlersInv' /\ handlers' # <<>>
    BY <1>2, <1>3, <1>5, <1>6, <1>9, HandlerAppended
<1>11. FlightsInv'
    BY <1>2, <1>3, <1>5, <1>6, FlightsDisturbed
<1>12. StrayInv'
    BY <1>2, <1>3, <1>5, <1>6, StrayStays
<1>13. OriginInv'
    BY <1>10 DEF OriginInv
<1> QED
    BY <1>6, <1>8, <1>10, <1>11, <1>12, <1>13 DEF PartsInv

LEMMA ReminderParts ==
    ASSUME PartsInv, NEW n \in DOMAIN handlers, ReminderIsSet(n)
    PROVE  PartsInv'
<1>1. PICK h, e : h = handlers[n] /\ e = h.entry
    OBVIOUS
<1>2. /\ ServerInv /\ HandlersInv /\ FlightsInv /\ StrayInv /\ shown \subseteq Nat
      /\ GoodList(tasks, PhoneIdentities)
    BY TasksAre DEF PartsInv
<1>3. /\ h.at = "reminder"
      /\ Persists(Upserted(tasks, Marked(e, "schedule", h.value)))
      /\ handlers' = [handlers EXCEPT ![n] = IF e.id = "local" THEN Returned
                                             ELSE [h EXCEPT !.at = "asking"]]
      /\ flight' = Disturbed /\ settled' = FALSE
      /\ remote' = remote /\ creation' = creation /\ stray' = stray /\ mishaps' = mishaps
      /\ latest' = latest /\ copies' = copies /\ blind' = blind
    BY <1>1 DEF ReminderIsSet, Disturbs
<1>4. PhoneIdentities' = PhoneIdentities
    BY <1>3 DEF PhoneIdentities
<1>5. n \in Running /\ HandlerOK(h, PhoneIdentities, shown)
    <2>1. n \in Running
        BY <1>1, <1>3 DEF Running
    <2> QED
        BY <1>1, <1>2, <2>1, HandlersFacts
<1>6. /\ h \in HandlerRec /\ h.type = "schedule" /\ ValueOf("schedule", h.value)
      /\ e \in ListEntry /\ Sound(e, PhoneIdentities)
      /\ e.id = "local" => "local" \in PhoneIdentities
    <2>1. h \in HandlerRec /\ h.type = "schedule" /\ ValueOf(h.type, h.value) /\ Sound(e, PhoneIdentities)
        BY <1>1, <1>3, <1>5 DEF HandlerOK
    <2>2. e \in ListEntry
        BY <1>1, <2>1 DEF HandlerRec
    <2> QED
        BY <2>1, <2>2 DEF Sound
<1>7. ListInv' /\ shown \subseteq shown' /\ shown' \subseteq Nat
    <2>1. PICK value : value = h.value
        OBVIOUS
    <2>2. "schedule" \in CommandTypes /\ ValueOf("schedule", value)
        BY <1>6, <2>1 DEF CommandTypes
    <2>3. Marked(e, "schedule", value) \in ListEntry /\ Sound(Marked(e, "schedule", value), PhoneIdentities)
        BY <1>6, <2>2, MarkedIs
    <2>4. GoodList(Upserted(tasks, Marked(e, "schedule", value)), PhoneIdentities)
        BY <1>2, <2>3, GoodUpserted
    <2> QED
        BY <1>2, <1>3, <1>4, <2>1, <2>4, ListPersists
<1>8. ServerInv'
    <2>1. mishaps' \in Nat /\ settled' \in BOOLEAN /\ CommandOK(latest')
        BY <1>2, <1>3 DEF ServerInv
    <2> QED
        BY <1>2, <1>3, <1>7, <2>1, ServerStays
<1>9. PICK g : g = IF e.id = "local" THEN Returned ELSE [h EXCEPT !.at = "asking"]
    OBVIOUS
<1>10. g = Returned \/ HandlerOK(g, PhoneIdentities', shown')
    <2>1. CASE e.id = "local"
        BY <1>9, <2>1
    <2>2. CASE e.id # "local"
        <3>1. PICK a : a = [h EXCEPT !.at = "asking"]
            OBVIOUS
        <3>2. a \in HandlerRec /\ a.at = "asking" /\ a.type = h.type /\ a.value = h.value
              /\ a.entry = e /\ a.list = h.list
            BY <1>1, <1>6, <3>1 DEF HandlerRec
        <3>3. a.type # "create"
            BY <1>6, <3>2
        <3>4. HandlerOK(a, PhoneIdentities, shown)
            BY <1>1, <1>5, <1>6, <2>2, <3>2, <3>3 DEF HandlerOK
        <3>5. HandlerOK(a, PhoneIdentities', shown')
            BY <1>4, <1>7, <3>4, MoreIdentities
        <3> QED
            BY <1>9, <2>2, <3>1, <3>5
    <2> QED
        BY <2>1, <2>2
<1>11. HandlersInv' /\ handlers' # <<>>
    BY <1>2, <1>3, <1>4, <1>7, <1>9, <1>10, HandlerPut
<1>12. FlightsInv'
    BY <1>2, <1>3, <1>4, <1>7, FlightsDisturbed
<1>13. StrayInv'
    BY <1>2, <1>3, <1>4, <1>7, StrayStays
<1>14. OriginInv'
    BY <1>11 DEF OriginInv
<1> QED
    BY <1>7, <1>8, <1>11, <1>12, <1>13, <1>14 DEF PartsInv

LEMMA ResolveParts ==
    ASSUME PartsInv, NEW i \in DOMAIN tasks, ResolveRemote(tasks[i]) \/ ResolveLocal(tasks[i])
    PROVE  PartsInv'
<1>1. PICK e : e = tasks[i]
    OBVIOUS
<1>2. /\ ServerInv /\ HandlersInv /\ FlightsInv /\ StrayInv /\ shown \subseteq Nat
      /\ GoodList(tasks, PhoneIdentities) /\ e \in ListEntry /\ Sound(e, PhoneIdentities) /\ tasks # <<>>
    BY <1>1, TasksAre DEF PartsInv
<1>3. /\ e.sync = "conflict" /\ settled' = FALSE /\ handlers' = handlers
      /\ remote' = remote /\ creation' = creation /\ stray' = stray /\ mishaps' = mishaps
      /\ copies' = copies /\ blind' = blind
    BY <1>1 DEF ResolveRemote, ResolveLocal, Disturbs
<1>4. PhoneIdentities' = PhoneIdentities
    BY <1>3 DEF PhoneIdentities
<1>5. \E list : /\ Persists(list) /\ GoodList(list, PhoneIdentities)
                /\ flight' = Disturbed \/ Retries(list)
    <2>1. CASE ResolveRemote(e)
        <3>1. GoodList(Dropping(tasks, "remote"), PhoneIdentities)
            BY <1>2, GoodDropping
        <3>2. GoodList(Upserted(tasks, Synced(e.task)), PhoneIdentities)
            <4>1. PICK item : item = e.task
                OBVIOUS
            <4>2. item \in Task
                BY <1>2, <4>1, EntryFields
            <4>3. Synced(item) \in ListEntry /\ Sound(Synced(item), PhoneIdentities)
                BY <4>2, SyncedIs
            <4> QED
                BY <1>2, <4>1, <4>3, GoodUpserted
        <3>3. \/ Persists(Dropping(tasks, "remote")) /\ flight' = Disturbed
              \/ Persists(Upserted(tasks, Synced(e.task))) /\ flight' = Disturbed
            BY <2>1 DEF ResolveRemote, Disturbs
        <3> QED
            BY <3>1, <3>2, <3>3
    <2>2. CASE ResolveLocal(e)
        <3>1. Rebased(e) \in ListEntry /\ Sound(Rebased(e), PhoneIdentities)
            BY <1>2, <1>3, RebasedIs
        <3>2. GoodList(Upserted(tasks, Rebased(e)), PhoneIdentities)
            BY <1>2, <3>1, GoodUpserted
        <3> QED
            BY <2>2, <3>2 DEF ResolveLocal
    <2> QED
        BY <1>1, <2>1, <2>2
<1>6. PICK list : /\ Persists(list) /\ GoodList(list, PhoneIdentities)
                  /\ flight' = Disturbed \/ Retries(list)
    BY <1>5
<1>7. ListInv' /\ shown \subseteq shown' /\ shown' \subseteq Nat /\ tasks' = list
    BY <1>2, <1>4, <1>6, ListPersists
<1>8. CommandOK(latest')
    <2>1. latest' = Closed \/ latest' = latest
        BY <1>1 DEF ResolveRemote, ResolveLocal, Exposed
    <2> QED
        BY <1>2, <2>1, CommandIs DEF ServerInv
<1>9. ServerInv'
    <2>1. mishaps' \in Nat
        BY <1>2, <1>3 DEF ServerInv
    <2>2. settled' \in BOOLEAN
        BY <1>3
    <2> QED
        BY <1>2, <1>3, <1>7, <1>8, <2>1, <2>2, ServerStays
<1>10. HandlersInv'
    BY <1>2, <1>3, <1>4, <1>7, HandlersStay
<1>11. FlightsInv'
    <2>1. SeenList(list, PhoneIdentities', shown')
        BY <1>7 DEF ListInv
    <2> QED
        BY <1>2, <1>4, <1>6, <1>7, <2>1, FlightsDisturbed, FlightsRetried
<1>12. StrayInv'
    BY <1>2, <1>3, <1>4, <1>7, StrayStays
<1>13. OriginInv'
    BY <1>2, <1>3 DEF OriginInv, PartsInv
<1> QED
    BY <1>7, <1>9, <1>10, <1>11, <1>12, <1>13 DEF PartsInv

\* The outcomes of a call.
LEMMA OutcomeIs ==
    ASSUME NEW call, NEW outcome \in Outcomes(call)
    PROVE  /\ Status(call) \in {"ok", "conflict", "error"}
           /\ outcome.status \in {"ok", "conflict", "error", "lost"}
           /\ outcome.status # "lost" => outcome.taken /\ outcome.status = Status(call)
<1>1. Status(call) \in {"ok", "conflict", "error"}
    BY DEF Status
<1>2. CASE outcome = [taken |-> TRUE, status |-> Status(call)]
    BY <1>1, <1>2
<1>3. CASE \E t \in BOOLEAN : outcome = [taken |-> t, status |-> "lost"]
    <2>1. outcome.status = "lost"
        BY <1>3
    <2> QED
        BY <1>1, <2>1
<1> QED
    BY <1>2, <1>3 DEF Outcomes

\* The server's part after a call.
LEMMA TakesServer ==
    ASSUME ServerInv, NEW call, CallOK(call, PhoneIdentities, shown), NEW outcome, Takes(call, outcome),
           shown' = shown, settled' = FALSE
    PROVE  ServerInv' /\ PhoneIdentities \subseteq PhoneIdentities' /\ remote'.task \in Task
<1>1. /\ remote' \in [kind : {"unborn", "live", "gone"}, task : Task]
      /\ creation' \in [key : {0, 1}, payload : {"p", "q"}]
      /\ copies' = creation'.key
      /\ creation'.key = 1 => remote'.kind # "unborn"
      /\ mishaps' \in Nat
      /\ blind' = FALSE
      /\ latest' = latest \/ latest' = Closed
      /\ PhoneIdentities \subseteq PhoneIdentities'
    BY TakesIs
<1>2. shown' \subseteq Nat /\ CommandOK(latest')
    BY <1>1, CommandIs DEF ServerInv
<1>3. settled' \in BOOLEAN
    OBVIOUS
<1>4. ServerInv'
    BY <1>1, <1>2, <1>3 DEF ServerInv
<1> QED
    BY <1>1, <1>4

LEMMA AnsweredParts ==
    ASSUME PartsInv, NEW n \in DOMAIN handlers, HandlerIsAnswered(n)
    PROVE  PartsInv'
<1>1. PICK h : h = handlers[n]
    OBVIOUS
<1>2. ServerInv /\ ListInv /\ HandlersInv /\ FlightsInv /\ StrayInv
    BY DEF PartsInv
<1>3. /\ h.at = "asking" /\ flight' = Disturbed /\ settled' = FALSE
      /\ tasks' = tasks /\ stray' = stray /\ shown' = shown
    BY <1>1 DEF HandlerIsAnswered, Disturbs
<1>4. PICK outcome \in Outcomes(CallOf(h)) :
        /\ Takes(CallOf(h), outcome)
        /\ handlers' = [handlers EXCEPT ![n] =
                [h EXCEPT !.at = "answered", !.reply = Reply(outcome.status, remote'.task)]]
    BY <1>1 DEF HandlerIsAnswered, Disturbs
<1>5. n \in Running /\ HandlerOK(h, PhoneIdentities, shown)
    <2>1. n \in Running
        BY <1>1, <1>3 DEF Running
    <2> QED
        BY <1>1, <1>2, <2>1, HandlersFacts
<1>6. CallOK(CallOf(h), PhoneIdentities, shown)
    BY <1>3, <1>5, CallOfIs
<1>7. ServerInv' /\ PhoneIdentities \subseteq PhoneIdentities' /\ remote'.task \in Task
    BY <1>2, <1>3, <1>4, <1>6, TakesServer
<1>8. PICK item, status, reply : /\ item = remote'.task /\ status = outcome.status
                                 /\ reply = Reply(status, item)
    OBVIOUS
<1>9. reply \in ReplyRec
    <2>1. item \in Task /\ NewTask("p") \in Task /\ status \in {"ok", "conflict", "error", "lost"}
        BY <1>4, <1>7, <1>8, OutcomeIs, PlacementsAre
    <2> QED
        BY <1>8, <2>1 DEF ReplyRec, Reply
<1>10. PICK g : g = [h EXCEPT !.at = "answered", !.reply = reply]
    OBVIOUS
<1>11. HandlerOK(g, PhoneIdentities', shown')
    <2>1. h \in HandlerRec
        BY <1>5 DEF HandlerOK
    <2>2. g \in HandlerRec /\ g.at = "answered" /\ g.type = h.type /\ g.value = h.value
          /\ g.entry = h.entry /\ g.list = h.list
        BY <1>9, <1>10, <2>1 DEF HandlerRec
    <2>3. HandlerOK(g, PhoneIdentities, shown)
        BY <1>3, <1>5, <2>2 DEF HandlerOK
    <2> QED
        BY <1>3, <1>7, <2>3, MoreIdentities
<1>12. HandlersInv' /\ handlers' # <<>>
    BY <1>2, <1>3, <1>4, <1>7, <1>8, <1>10, <1>11, HandlerPut
<1>13. ListInv'
    BY <1>2, <1>3, <1>7, ListStays
<1>14. FlightsInv'
    BY <1>2, <1>3, <1>7, FlightsDisturbed
<1>15. StrayInv'
    BY <1>2, <1>3, <1>7, StrayStays
<1>16. OriginInv'
    BY <1>12 DEF OriginInv
<1> QED
    BY <1>7, <1>12, <1>13, <1>14, <1>15, <1>16 DEF PartsInv

\* The list after a reply, of a handler that has its entry from the list.
LEMMA RepliedIs ==
    ASSUME NEW ids, NEW revisions, GoodList(tasks, ids), NEW h, HandlerOK(h, ids, revisions),
           h.at = "answered", NEW list, list = Replied(h)
    PROVE  /\ GoodList(list, ids)
           /\ h.reply.status = "ok" \/
                \E e \in ListEntry, from \in {tasks, h.list} :
                    /\ MobileEntries(list) = {e} \cup {x \in MobileEntries(from) : x.id # e.id}
                    /\ from # tasks => h.type = "update"
                    /\ e.id = h.entry.id
                    /\ h.type = "create" => e = h.entry
                    /\ h.type # "create" => HasIt(e, [type |-> h.type, value |-> h.value])
<1>1. PICK e, reply : e = h.entry /\ reply = h.reply
    OBVIOUS
<1>2. /\ h \in HandlerRec /\ ValueOf(h.type, h.value) /\ Sound(e, ids)
      /\ SeenList(h.list, ids, revisions)
      /\ h.type = "create" <=> e.id = "local"
      /\ h.type = "lifecycle" => CanMove(e.task, h.value)
    BY <1>1 DEF HandlerOK
<1>3. e \in ListEntry /\ reply \in ReplyRec /\ h.type \in AnyType
    BY <1>1, <1>2 DEF HandlerRec
<1>4. GoodList(h.list, ids)
    BY <1>2 DEF SeenList
<1>5. CASE reply.status = "ok"
    <2>1. GoodList(Dropping(tasks, "remote"), ids)
        BY GoodDropping
    <2>2. PICK item, id : item = reply.task /\ id = e.id
        OBVIOUS
    <2>3. item \in Task
        BY <1>3, <2>2 DEF ReplyRec
    <2>4. Synced(item) \in ListEntry /\ Sound(Synced(item), ids)
        BY <2>3, SyncedIs
    <2>5. GoodList(Dropping(tasks, id), ids)
        BY GoodDropping
    <2>6. GoodList(Upserted(Dropping(tasks, id), Synced(item)), ids)
        BY <2>4, <2>5, GoodUpserted
    <2>7. list = Dropping(tasks, "remote") \/ list = Upserted(Dropping(tasks, id), Synced(item))
        BY <1>1, <1>5, <2>2 DEF Replied
    <2> QED
        BY <1>1, <1>5, <2>1, <2>6, <2>7
<1>6. CASE reply.status # "ok" /\ h.type = "create"
    <2>1. list = Upserted(tasks, e)
        BY <1>1, <1>6 DEF Replied
    <2>2. GoodList(list, ids) /\ MobileEntries(list) = {e} \cup {x \in MobileEntries(tasks) : x.id # e.id}
        BY <1>2, <1>3, <2>1, GoodUpserted
    <2> QED
        BY <1>1, <1>3, <1>6, <2>2
<1>7. CASE reply.status # "ok" /\ h.type # "create"
    <2>1. PICK from : /\ list = Upserted(from, Marked(e, h.type, h.value))
                      /\ from = tasks \/ (from = h.list /\ h.type = "update")
        <3>1. \/ list = Upserted(tasks, Marked(e, h.type, h.value))
              \/ h.type = "update" /\ list = Upserted(h.list, Marked(e, h.type, h.value))
            BY <1>1, <1>7 DEF Replied
        <3>2. CASE list = Upserted(tasks, Marked(e, h.type, h.value))
            BY <3>2
        <3>3. CASE h.type = "update" /\ list = Upserted(h.list, Marked(e, h.type, h.value))
            BY <3>3
        <3> QED
            BY <3>1, <3>2, <3>3
    <2>2. GoodList(from, ids)
        BY <1>4, <2>1
    <2>3. PICK type, value, g : type = h.type /\ value = h.value /\ g = Marked(e, type, value)
        OBVIOUS
    <2>4. /\ type \in CommandTypes /\ ValueOf(type, value) /\ e.id # "local"
          /\ type = "lifecycle" => CanMove(e.task, value)
        BY <1>2, <1>3, <1>7, <2>3 DEF AnyType
    <2>5. g \in ListEntry /\ Sound(g, ids) /\ g.id = e.id /\ HasIt(g, [type |-> type, value |-> value])
        BY <1>3, <2>3, <2>4, MarkedIs
    <2>6. GoodList(list, ids) /\ MobileEntries(list) = {g} \cup {x \in MobileEntries(from) : x.id # g.id}
        BY <2>1, <2>2, <2>3, <2>5, GoodUpserted
    <2>7. from \in {tasks, h.list} /\ (from # tasks => h.type = "update")
        BY <2>1
    <2> QED
        BY <1>1, <1>7, <2>3, <2>5, <2>6, <2>7
<1> QED
    BY <1>5, <1>6, <1>7

LEMMA EndsParts ==
    ASSUME PartsInv, NEW n \in DOMAIN handlers, HandlerEnds(n)
    PROVE  PartsInv'
<1>1. PICK h, list : h = handlers[n] /\ list = Replied(h)
    OBVIOUS
<1>2. /\ ServerInv /\ HandlersInv /\ FlightsInv /\ StrayInv /\ shown \subseteq Nat
      /\ GoodList(tasks, PhoneIdentities)
    BY TasksAre DEF PartsInv
<1>3. /\ h.at = "answered" /\ Persists(list) /\ settled' = FALSE
      /\ handlers' = [handlers EXCEPT ![n] = Returned]
      /\ flight' = Disturbed \/ Retries(list)
      /\ remote' = remote /\ creation' = creation /\ stray' = stray /\ mishaps' = mishaps
      /\ latest' = latest /\ copies' = copies /\ blind' = blind
    BY <1>1 DEF HandlerEnds, Disturbs
<1>4. PhoneIdentities' = PhoneIdentities
    BY <1>3 DEF PhoneIdentities
<1>5. HandlerOK(h, PhoneIdentities, shown)
    <2>1. n \in Running
        BY <1>1, <1>3 DEF Running
    <2> QED
        BY <1>1, <1>2, <2>1, HandlersFacts
<1>6. GoodList(list, PhoneIdentities)
    BY <1>1, <1>2, <1>3, <1>5, RepliedIs
<1>7. ListInv' /\ shown \subseteq shown' /\ shown' \subseteq Nat /\ tasks' = list
    BY <1>2, <1>3, <1>4, <1>6, ListPersists
<1>8. ServerInv'
    <2>1. mishaps' \in Nat /\ CommandOK(latest')
        BY <1>2, <1>3 DEF ServerInv
    <2>2. settled' \in BOOLEAN
        BY <1>3
    <2> QED
        BY <1>2, <1>3, <1>7, <2>1, <2>2, ServerStays
<1>9. HandlersInv' /\ handlers' # <<>>
    BY <1>2, <1>3, <1>4, <1>7, HandlerPut
<1>10. FlightsInv'
    <2>1. SeenList(list, PhoneIdentities', shown')
        BY <1>7 DEF ListInv
    <2> QED
        BY <1>2, <1>3, <1>4, <1>7, <2>1, FlightsDisturbed, FlightsRetried
<1>11. StrayInv'
    BY <1>2, <1>3, <1>4, <1>7, StrayStays
<1>12. OriginInv'
    BY <1>9 DEF OriginInv
<1> QED
    BY <1>7, <1>8, <1>9, <1>10, <1>11, <1>12 DEF PartsInv

LEMMA SyncParts ==
    ASSUME PartsInv, Sync
    PROVE  PartsInv'
<1>1. /\ ServerInv /\ ListInv /\ HandlersInv /\ FlightsInv /\ StrayInv /\ shown \subseteq Nat
      /\ SeenList(tasks, PhoneIdentities, shown)
    BY TasksAre DEF PartsInv
<1>2. /\ flight' = {NewFlight(tasks, FALSE)} /\ settled' = FALSE
      /\ remote' = remote /\ creation' = creation /\ stray' = stray /\ mishaps' = mishaps
      /\ tasks' = tasks /\ handlers' = handlers /\ shown' = shown
      /\ copies' = copies /\ blind' = blind
    BY DEF Sync, Retries
<1>3. PhoneIdentities' = PhoneIdentities
    BY <1>2 DEF PhoneIdentities
<1>4. ServerInv'
    <2>1. latest' = Closed \/ latest' = latest
        BY DEF Sync, Exposed
    <2>2. mishaps' \in Nat /\ CommandOK(latest')
        BY <1>1, <1>2, <2>1, CommandIs DEF ServerInv
    <2>3. settled' \in BOOLEAN
        BY <1>2
    <2> QED
        BY <1>1, <1>2, <2>2, <2>3, ServerStays
<1>5. PICK f : f = NewFlight(tasks, FALSE)
    OBVIOUS
<1>6. /\ FlightOK(f, PhoneIdentities, shown) /\ f.snapshot = tasks
      /\ f.resolved = <<>> /\ f.todo = <<>> /\ f.followUp = <<>>
    <2>1. PICK boot \in BOOLEAN : boot = FALSE
        OBVIOUS
    <2>2. f = NewFlight(tasks, boot)
        BY <1>5, <2>1
    <2> QED
        BY <1>1, <2>2, NewFlightIs
<1>7. FlightsInv'
    BY <1>2, <1>3, <1>5, <1>6 DEF FlightsInv
<1>8. OriginInv'
    BY <1>2, <1>5, <1>6 DEF OriginInv, PartsInv
<1>9. ListInv' /\ HandlersInv' /\ StrayInv'
    BY <1>1, <1>2, <1>3, ListStays, HandlersStay, StrayStays
<1> QED
    BY <1>4, <1>7, <1>8, <1>9 DEF PartsInv

LEMMA FetchesParts ==
    ASSUME PartsInv, NEW f \in flight, FlightFetches(f)
    PROVE  PartsInv'
<1>1. /\ ServerInv /\ ListInv /\ HandlersInv /\ FlightsInv /\ StrayInv /\ shown \subseteq Nat
    BY TasksAre DEF PartsInv
<1>2. PICK g : g = [f EXCEPT !.stage = "reconcile", !.snapshot = <<>>,
                             !.resolved = FromServer(f.snapshot), !.todo = PendingIn(f.snapshot)]
    OBVIOUS
<1>3. /\ f.stage = "fetch" /\ flight' = {g} /\ settled' = FALSE
      /\ remote' = remote /\ creation' = creation /\ stray' = stray /\ mishaps' = mishaps
      /\ tasks' = tasks /\ handlers' = handlers /\ shown' = shown /\ latest' = latest
      /\ copies' = copies /\ blind' = blind
    BY <1>2 DEF FlightFetches
<1>4. PhoneIdentities' = PhoneIdentities
    BY <1>3 DEF PhoneIdentities
<1>5. ServerInv'
    <2>1. mishaps' \in Nat /\ CommandOK(latest')
        BY <1>1, <1>3 DEF ServerInv
    <2>2. settled' \in BOOLEAN
        BY <1>3
    <2> QED
        BY <1>1, <1>3, <2>1, <2>2, ServerStays
<1>6. PICK snapshot, resolved, todo :
        snapshot = f.snapshot /\ resolved = FromServer(snapshot) /\ todo = PendingIn(snapshot)
    OBVIOUS
<1>7. /\ f \in FlightRec /\ SeenList(snapshot, PhoneIdentities, shown) /\ f.followUp = <<>>
      /\ GoodList(snapshot, PhoneIdentities) /\ IsList(snapshot)
      /\ \A x \in MobileEntries(snapshot) : Sound(x, PhoneIdentities) /\ Seen(x, shown)
    <2>1. f \in FlightRec /\ SeenList(snapshot, PhoneIdentities, shown) /\ f.followUp = <<>>
        BY <1>1, <1>3, <1>6 DEF FlightsInv, FlightOK
    <2> QED
        BY <2>1 DEF SeenList, GoodList
<1>8. GoodList(resolved, PhoneIdentities)
    <2>1. remote.task \in Task
        BY <1>1 DEF ServerInv
    <2> QED
        BY <1>6, <1>7, <2>1, FromServerIs
<1>9. /\ IsList(todo) /\ MobileEntries(todo) = {x \in MobileEntries(snapshot) : IsPending(x)}
      /\ SeenList(todo, PhoneIdentities, shown)
    <2>1. \A x \in MobileEntries(snapshot) : x \in ListEntry
        BY <1>7, ListEntries
    <2>2. \A x \in MobileEntries(snapshot) : ~IsPending(x) => x.id = "remote"
        BY <1>7, <2>1, EntryFields DEF IsPending, Sound
    <2>3. IsList(todo) /\ MobileEntries(todo) = {x \in MobileEntries(snapshot) : IsPending(x)}
        BY <1>6, <1>7, <2>2, PendingIs
    <2> QED
        BY <1>7, <2>3 DEF SeenList, GoodList
<1>10. FlightOK(g, PhoneIdentities, shown)
    <2>1. /\ resolved \in Seq(ListEntry) /\ todo \in Seq(ListEntry) /\ <<>> \in Seq(ListEntry)
        BY <1>8, <1>9 DEF GoodList, IsList
    <2>2. /\ g \in FlightRec /\ g.stage = "reconcile" /\ g.snapshot = <<>> /\ g.resolved = resolved
          /\ g.todo = todo /\ g.followUp = <<>>
        BY <1>2, <1>6, <1>7, <2>1 DEF FlightRec
    <2>3. SeenList(<<>>, PhoneIdentities, shown)
        BY NoEntries
    <2>4. \A x \in MobileEntries(todo) : IsPending(x)
        BY <1>9
    <2> QED
        BY <1>8, <1>9, <2>2, <2>3, <2>4 DEF FlightOK
<1>11. FlightsInv'
    BY <1>3, <1>4, <1>10 DEF FlightsInv
<1>12. OriginInv'
    <2> SUFFICES ASSUME remote.kind = "unborn", handlers = <<>>
                 PROVE  OriginInv'
        BY <1>3 DEF OriginInv
    <2>1. tasks = <<>> /\ stray = {} /\ snapshot = <<>>
        BY <1>6 DEF PartsInv, OriginInv
    <2>2. MobileEntries(todo) = {}
        BY <1>9, <2>1, EntriesOfNone
    <2>3. todo = <<>>
        BY <1>9, <2>2, EntriesOfNone DEF IsList
    <2>4. resolved = <<>>
        <3>1. MobileEntries(snapshot) = {}
            BY <2>1, EntriesOfNone
        <3>2. remote.task \in Task
            BY <1>1 DEF ServerInv
        <3>3. MobileEntries(FromServer(snapshot)) = {}
            BY <1>7, <3>1, <3>2, FromServerIs
        <3> QED
            BY <1>6, <1>8, <3>3, EntriesOfNone DEF GoodList, IsList
    <2>5. g.snapshot = <<>> /\ g.resolved = resolved /\ g.todo = todo /\ g.followUp = <<>>
        BY <1>2, <1>6, <1>7 DEF FlightRec
    <2> QED
        BY <1>3, <2>1, <2>3, <2>4, <2>5 DEF OriginInv
<1>13. ListInv' /\ HandlersInv' /\ StrayInv'
    BY <1>1, <1>3, <1>4, ListStays, HandlersStay, StrayStays
<1> QED
    BY <1>5, <1>11, <1>12, <1>13 DEF PartsInv

LEMMA FailsParts ==
    ASSUME PartsInv, NEW f \in flight, FlightFails(f)
    PROVE  PartsInv'
<1>1. /\ ServerInv /\ ListInv /\ HandlersInv /\ FlightsInv /\ StrayInv /\ shown \subseteq Nat
    BY TasksAre DEF PartsInv
<1>2. /\ mishaps' = mishaps + 1 /\ flight' = {} /\ settled' = FALSE
      /\ remote' = remote /\ creation' = creation /\ stray' = stray /\ handlers' = handlers
      /\ tasks' = tasks /\ shown' = shown /\ latest' = latest /\ copies' = copies /\ blind' = blind
    BY DEF FlightFails
<1>3. PhoneIdentities' = PhoneIdentities
    BY <1>2 DEF PhoneIdentities
<1>4. ServerInv'
    <2>1. mishaps' \in Nat /\ CommandOK(latest')
        BY <1>1, <1>2 DEF ServerInv
    <2>2. settled' \in BOOLEAN
        BY <1>2
    <2> QED
        BY <1>1, <1>2, <2>1, <2>2, ServerStays
<1>5. FlightsInv'
    BY <1>2 DEF FlightsInv
<1>6. ListInv' /\ HandlersInv' /\ StrayInv'
    BY <1>1, <1>2, <1>3, ListStays, HandlersStay, StrayStays
<1>7. OriginInv'
    BY <1>2 DEF OriginInv, PartsInv
<1> QED
    BY <1>4, <1>5, <1>6, <1>7 DEF PartsInv

LEMMA TodoIs ==
    ASSUME NEW ids, NEW revisions, NEW f, FlightOK(f, ids, revisions), f.todo # <<>>
    PROVE  /\ Head(f.todo) \in ListEntry /\ Sound(Head(f.todo), ids) /\ Seen(Head(f.todo), revisions)
           /\ IsPending(Head(f.todo)) /\ Head(f.todo) \in MobileEntries(f.todo)
           /\ Head(f.todo) = f.todo[1]
           /\ SeenList(Tail(f.todo), ids, revisions)
           /\ MobileEntries(Tail(f.todo)) = MobileEntries(f.todo) \ {Head(f.todo)}
           /\ \A x \in MobileEntries(Tail(f.todo)) : IsPending(x)
           /\ Len(f.todo) = 1 => Tail(f.todo) = <<>>
<1>1. PICK list : list = f.todo
    OBVIOUS
<1>2. /\ SeenList(list, ids, revisions) /\ \A x \in MobileEntries(list) : IsPending(x)
    BY <1>1 DEF FlightOK
<1>3. /\ IsList(list) /\ list # <<>>
      /\ \A x \in MobileEntries(list) : Sound(x, ids) /\ Seen(x, revisions)
    BY <1>1, <1>2 DEF SeenList, GoodList
<1>4. /\ Head(list) \in MobileEntries(list) /\ Head(list) = list[1]
      /\ IsList(Tail(list))
      /\ MobileEntries(Tail(list)) = MobileEntries(list) \ {Head(list)}
      /\ Len(list) = 1 => Tail(list) = <<>>
    BY <1>3, TailIs
<1>5. Head(list) \in ListEntry
    BY <1>3, <1>4, ListEntries
<1>6. SeenList(Tail(list), ids, revisions)
    BY <1>3, <1>4 DEF SeenList, GoodList
<1> QED
    BY <1>1, <1>2, <1>3, <1>4, <1>5, <1>6

\* The write that is left to follow a create.
LEMMA FollowUpIs ==
    ASSUME NEW ids, NEW e \in ListEntry, Sound(e, ids), e.intent.type = "schedule",
           NEW item \in Task, NEW u, u = [Synced(item) EXCEPT !.intent = e.intent]
    PROVE  FollowsUp(u) /\ u.task = item
<1>1. PICK s, intent : s = Synced(item) /\ intent = e.intent
    OBVIOUS
<1>2. s \in ListEntry /\ s.id = "remote" /\ s.task = item /\ intent \in Intent
    BY <1>1, SyncedIs, EntryFields
<1>3. u = [s EXCEPT !.intent = intent]
    BY <1>1
<1>4. u \in ListEntry /\ u.id = "remote" /\ u.intent = intent /\ u.task = item
    BY <1>2, <1>3 DEF ListEntry
<1>5. intent.type = "schedule" /\ intent.value = "s"
    BY <1>1, ValuesAre DEF Sound, CommandTypes
<1> QED
    BY <1>4, <1>5 DEF FollowsUp

LEMMA ReconcilesParts ==
    ASSUME PartsInv, NEW f \in flight, FlightReconciles(f)
    PROVE  PartsInv'
<1>1. ServerInv /\ ListInv /\ HandlersInv /\ FlightsInv /\ StrayInv
    BY DEF PartsInv
<1>2. PICK e, call : e = Head(f.todo) /\ call = PendingCall(e, f.resolved)
    OBVIOUS
<1>3. /\ f.stage = "reconcile" /\ f.followUp = <<>> /\ f.todo # <<>> /\ settled' = FALSE
      /\ tasks' = tasks /\ handlers' = handlers /\ stray' = stray /\ shown' = shown
    BY DEF FlightReconciles
<1>4. PICK outcome, g :
        /\ outcome \in Outcomes(call) /\ Takes(call, outcome) /\ flight' = {g}
        /\ NeedsFollowUp(e, outcome.status) =>
             g = [f EXCEPT !.todo = Tail(@),
                           !.followUp = <<[Synced(remote'.task) EXCEPT !.intent = e.intent]>>]
        /\ ~NeedsFollowUp(e, outcome.status) =>
             g = [f EXCEPT !.todo = Tail(@), !.calm = @ /\ outcome.status # "lost",
                           !.resolved = Reconciled(@, e, outcome.status, remote'.task)]
    BY <1>2 DEF FlightReconciles
<1>5. /\ FlightOK(f, PhoneIdentities, shown) /\ f \in FlightRec
      /\ GoodList(f.resolved, PhoneIdentities)
    BY <1>1 DEF FlightsInv, FlightOK
<1>6. PICK tail, resolved : tail = Tail(f.todo) /\ resolved = f.resolved
    OBVIOUS
<1>7. /\ e \in ListEntry /\ Sound(e, PhoneIdentities) /\ Seen(e, shown) /\ IsPending(e)
      /\ SeenList(tail, PhoneIdentities, shown) /\ \A x \in MobileEntries(tail) : IsPending(x)
    BY <1>2, <1>3, <1>5, <1>6, TodoIs
<1>8. CallOK(call, PhoneIdentities, shown)
    BY <1>2, <1>7, PendingCallIs
<1>9. ServerInv' /\ PhoneIdentities \subseteq PhoneIdentities' /\ remote'.task \in Task
    BY <1>1, <1>3, <1>4, <1>8, TakesServer
<1>10. tail \in Seq(ListEntry)
    BY <1>7 DEF SeenList, GoodList, IsList
<1>11. FlightOK(g, PhoneIdentities, shown)
    <2>1. PICK item, status : item = remote'.task /\ status = outcome.status
        OBVIOUS
    <2>2. CASE NeedsFollowUp(e, outcome.status)
        <3>1. PICK u : u = [Synced(item) EXCEPT !.intent = e.intent]
            OBVIOUS
        <3>2. FollowsUp(u)
            BY <1>7, <1>9, <2>1, <2>2, <3>1, FollowUpIs DEF NeedsFollowUp
        <3>3. PICK follow : follow = <<u>>
            OBVIOUS
        <3>4. follow \in Seq(ListEntry) /\ Len(follow) = 1 /\ follow[1] = u
            BY <3>2, <3>3 DEF FollowsUp
        <3>5. g = [f EXCEPT !.todo = tail, !.followUp = follow]
            BY <1>4, <1>6, <2>1, <2>2, <3>1, <3>3
        <3>6. /\ g \in FlightRec /\ g.stage = f.stage /\ g.snapshot = f.snapshot
              /\ g.resolved = f.resolved /\ g.todo = tail /\ g.followUp = follow
            BY <1>5, <1>10, <3>4, <3>5 DEF FlightRec
        <3> QED
            BY <1>3, <1>5, <1>7, <3>2, <3>4, <3>6 DEF FlightOK
    <2>3. CASE ~NeedsFollowUp(e, outcome.status)
        <3>1. PICK list : list = Reconciled(resolved, e, status, item)
            OBVIOUS
        <3>2. GoodList(list, PhoneIdentities)
            BY <1>5, <1>6, <1>7, <1>9, <2>1, <3>1, ReconciledIs
        <3>3. list \in Seq(ListEntry)
            BY <3>2 DEF GoodList, IsList
        <3>4. PICK calm : calm = (f.calm /\ status # "lost")
            OBVIOUS
        <3>5. g = [f EXCEPT !.todo = tail, !.calm = calm, !.resolved = list]
            BY <1>4, <1>6, <2>1, <2>3, <3>1, <3>4
        <3>6. calm \in BOOLEAN
            BY <3>4
        <3>7. /\ g \in FlightRec /\ g.stage = f.stage /\ g.snapshot = f.snapshot
              /\ g.resolved = list /\ g.todo = tail /\ g.followUp = f.followUp
            BY <1>5, <1>10, <3>3, <3>5, <3>6 DEF FlightRec
        <3> QED
            BY <1>3, <1>5, <1>7, <3>2, <3>7 DEF FlightOK
    <2> QED
        BY <2>2, <2>3
<1>12. FlightsInv'
    BY <1>3, <1>4, <1>9, <1>11, MoreIdentities DEF FlightsInv
<1>13. OriginInv'
    <2>1. remote'.kind = "unborn" => remote.kind = "unborn"
        BY <1>1, <1>4, <1>8, TakesIs
    <2> QED
        BY <1>3, <2>1 DEF OriginInv, PartsInv
<1>14. ListInv' /\ HandlersInv' /\ StrayInv'
    BY <1>1, <1>3, <1>9, ListStays, HandlersStay, StrayStays
<1> QED
    BY <1>9, <1>12, <1>13, <1>14 DEF PartsInv

LEMMA FollowsUpParts ==
    ASSUME PartsInv, NEW f \in flight, FlightFollowsUp(f)
    PROVE  PartsInv'
<1>1. ServerInv /\ ListInv /\ HandlersInv /\ FlightsInv /\ StrayInv
    BY DEF PartsInv
<1>2. PICK e, call : e = Head(f.followUp) /\ call = FollowUpCall(e)
    OBVIOUS
<1>3. /\ f.followUp # <<>> /\ settled' = FALSE
      /\ tasks' = tasks /\ handlers' = handlers /\ stray' = stray /\ shown' = shown
    BY DEF FlightFollowsUp
<1>4. PICK outcome, g :
        /\ outcome \in Outcomes(call) /\ Takes(call, outcome) /\ flight' = {g}
        /\ g = [f EXCEPT !.followUp = <<>>, !.calm = @ /\ outcome.status # "lost",
                         !.resolved = Upserted(@, IF outcome.status = "ok" THEN Synced(remote'.task)
                                                  ELSE Marked(e, e.intent.type, e.intent.value))]
    BY <1>2 DEF FlightFollowsUp
<1>5. /\ FlightOK(f, PhoneIdentities, shown) /\ f \in FlightRec /\ GoodList(f.resolved, PhoneIdentities)
      /\ FollowsUp(f.followUp[1]) /\ f.stage = "reconcile"
    BY <1>1, <1>3 DEF FlightsInv, FlightOK, FlightRec
<1>6. e = f.followUp[1] /\ FollowsUp(e)
    <2>1. f.followUp \in Seq(ListEntry)
        BY <1>5 DEF FlightRec
    <2>2. Head(f.followUp) = f.followUp[1]
        BY <1>3, <2>1
    <2> QED
        BY <1>2, <1>5, <2>2
<1>7. CallOK(call, PhoneIdentities, shown)
    BY <1>2, <1>6, FollowUpCallIs
<1>8. ServerInv' /\ PhoneIdentities \subseteq PhoneIdentities' /\ remote'.task \in Task
    BY <1>1, <1>3, <1>4, <1>7, TakesServer
<1>9. PICK item, resolved, type, value, x :
        /\ item = remote'.task /\ resolved = f.resolved
        /\ type = e.intent.type /\ value = e.intent.value
        /\ x = IF outcome.status = "ok" THEN Synced(item) ELSE Marked(e, type, value)
    OBVIOUS
<1>10. x \in ListEntry /\ Sound(x, PhoneIdentities)
    <2>1. Synced(item) \in ListEntry /\ Sound(Synced(item), PhoneIdentities)
        BY <1>8, <1>9, SyncedIs
    <2>2. Marked(e, type, value) \in ListEntry /\ Sound(Marked(e, type, value), PhoneIdentities)
        <3>1. e \in ListEntry /\ e.id = "remote" /\ type = "schedule" /\ value = "s"
            BY <1>6, <1>9 DEF FollowsUp
        <3>2. type \in CommandTypes /\ ValueOf(type, value)
            BY <3>1, ValuesAre DEF CommandTypes, ValueOf
        <3> QED
            BY <3>1, <3>2, MarkedIs
    <2> QED
        BY <1>9, <2>1, <2>2
<1>11. FlightOK(g, PhoneIdentities, shown)
    <2>1. PICK list : list = Upserted(resolved, x)
        OBVIOUS
    <2>2. GoodList(list, PhoneIdentities)
        BY <1>5, <1>9, <1>10, <2>1, GoodUpserted
    <2>3. list \in Seq(ListEntry) /\ <<>> \in Seq(ListEntry)
        BY <2>2 DEF GoodList, IsList
    <2>4. PICK calm : calm = (f.calm /\ outcome.status # "lost")
        OBVIOUS
    <2>5. g = [f EXCEPT !.followUp = <<>>, !.calm = calm, !.resolved = list]
        BY <1>4, <1>9, <2>1, <2>4
    <2>6. calm \in BOOLEAN
        BY <2>4
    <2>7. /\ g \in FlightRec /\ g.stage = f.stage /\ g.snapshot = f.snapshot
          /\ g.resolved = list /\ g.todo = f.todo /\ g.followUp = <<>>
        BY <1>5, <2>3, <2>5, <2>6 DEF FlightRec
    <2> QED
        BY <1>5, <2>2, <2>7 DEF FlightOK
<1>12. FlightsInv'
    BY <1>3, <1>4, <1>8, <1>11, MoreIdentities DEF FlightsInv
<1>13. OriginInv'
    <2>1. remote'.kind = "unborn" => remote.kind = "unborn"
        BY <1>1, <1>4, <1>7, TakesIs
    <2> QED
        BY <1>3, <2>1 DEF OriginInv, PartsInv
<1>14. ListInv' /\ HandlersInv' /\ StrayInv'
    BY <1>1, <1>3, <1>8, ListStays, HandlersStay, StrayStays
<1> QED
    BY <1>8, <1>12, <1>13, <1>14 DEF PartsInv

LEMMA FlightEndsParts ==
    ASSUME PartsInv, NEW f \in flight, FlightEnds(f)
    PROVE  PartsInv'
<1>1. /\ ServerInv /\ ListInv /\ HandlersInv /\ FlightsInv /\ StrayInv /\ shown \subseteq Nat
    BY TasksAre DEF PartsInv
<1>2. /\ flight' = {} /\ (settled' = FALSE \/ settled' = f.calm)
      /\ Persists(f.resolved) \/ (tasks' = tasks /\ shown' = shown)
      /\ remote' = remote /\ creation' = creation /\ stray' = stray /\ handlers' = handlers
      /\ latest' = latest /\ mishaps' = mishaps /\ copies' = copies /\ blind' = blind
    BY DEF FlightEnds
<1>3. PhoneIdentities' = PhoneIdentities
    BY <1>2 DEF PhoneIdentities
<1>4. f \in FlightRec /\ GoodList(f.resolved, PhoneIdentities)
    BY <1>1 DEF FlightsInv, FlightOK
<1>5. ListInv' /\ shown \subseteq shown' /\ shown' \subseteq Nat
    <2>1. CASE tasks' = tasks /\ shown' = shown
        BY <1>1, <1>3, <2>1, ListStays
    <2>2. CASE Persists(f.resolved)
        BY <1>1, <1>3, <1>4, <2>2, ListPersists
    <2> QED
        BY <1>2, <2>1, <2>2
<1>6. ServerInv'
    <2>1. mishaps' \in Nat /\ CommandOK(latest')
        BY <1>1, <1>2 DEF ServerInv
    <2>2. settled' \in BOOLEAN
        BY <1>2, <1>4, FlightFields
    <2> QED
        BY <1>1, <1>2, <1>5, <2>1, <2>2, ServerStays
<1>7. FlightsInv'
    BY <1>2 DEF FlightsInv
<1>8. HandlersInv' /\ StrayInv'
    BY <1>1, <1>2, <1>3, <1>5, HandlersStay, StrayStays
<1>9. OriginInv'
    <2> SUFFICES ASSUME remote.kind = "unborn", handlers = <<>>
                 PROVE  tasks' = <<>> /\ stray' = {}
        BY <1>2 DEF OriginInv
    <2>1. tasks = <<>> /\ stray = {} /\ f.resolved = <<>>
        BY DEF PartsInv, OriginInv
    <2> QED
        BY <1>2, <2>1 DEF Persists, Shows
<1> QED
    BY <1>5, <1>6, <1>7, <1>8, <1>9 DEF PartsInv

LEMMA BootPlacesParts ==
    ASSUME PartsInv, StartParts, NEW p \in placing, BootPlaces(p)
    PROVE  PartsInv'
<1>1. /\ ServerInv /\ HandlersInv /\ FlightsInv /\ StrayInv /\ shown \subseteq Nat
    BY TasksAre DEF PartsInv
<1>2. /\ Shows(p.list) /\ settled' = p.calm
      /\ remote' = remote /\ creation' = creation /\ stray' = stray /\ handlers' = handlers
      /\ flight' = flight
      /\ latest' = latest /\ mishaps' = mishaps /\ copies' = copies /\ blind' = blind
    BY DEF BootPlaces
<1>3. PhoneIdentities' = PhoneIdentities
    BY <1>2 DEF PhoneIdentities
<1>4. p.calm \in BOOLEAN /\ GoodList(p.list, PhoneIdentities)
    BY DEF StartParts, PlacingRec
<1>5. ListInv' /\ shown \subseteq shown' /\ shown' \subseteq Nat
    BY <1>1, <1>2, <1>3, <1>4, ListShows
<1>6. ServerInv'
    <2>1. mishaps' \in Nat /\ CommandOK(latest')
        BY <1>1, <1>2 DEF ServerInv
    <2>2. settled' \in BOOLEAN
        BY <1>2, <1>4
    <2> QED
        BY <1>1, <1>2, <1>5, <2>1, <2>2, ServerStays
<1>7. FlightsInv'
    <2>1. \A f \in flight : FlightOK(f, PhoneIdentities', shown')
        BY <1>1, <1>3, <1>5, MoreIdentities DEF FlightsInv
    <2> QED
        BY <1>2, <2>1 DEF FlightsInv
<1>8. HandlersInv' /\ StrayInv'
    BY <1>1, <1>2, <1>3, <1>5, HandlersStay, StrayStays
<1>9. OriginInv'
    <2> SUFFICES ASSUME remote.kind = "unborn", handlers = <<>>
                 PROVE  OriginInv'
        BY <1>2 DEF OriginInv
    <2>1. p.list = <<>>
        BY DEF StartParts
    <2>2. tasks' = <<>>
        BY <1>2, <2>1 DEF Shows
    <2> QED
        BY <1>2, <2>2 DEF PartsInv, OriginInv
<1> QED
    BY <1>5, <1>6, <1>7, <1>8, <1>9 DEF PartsInv

LEMMA RestartParts ==
    ASSUME PartsInv, StartParts, Restart
    PROVE  PartsInv' /\ Running' = {}
<1>1. /\ ServerInv /\ HandlersInv /\ FlightsInv /\ StrayInv /\ shown \subseteq Nat
    BY TasksAre DEF PartsInv
<1>2. /\ mishaps' = mishaps + 1 /\ settled' = FALSE
      /\ handlers' = [n \in DOMAIN handlers |-> Returned]
      /\ stray' = stray \cup (UNION {CallsOf(f) : f \in flight})
                    \cup {CallOf(handlers[n]) : n \in {m \in Running : handlers[m].at = "asking"}}
      /\ flight' = {[NewFlight(saved, TRUE) EXCEPT !.calm = stray' = {}]}
      /\ remote' = remote /\ creation' = creation /\ Shows(saved)
      /\ copies' = copies /\ blind' = blind
    BY DEF Restart
<1>3. PhoneIdentities' = PhoneIdentities
    BY <1>2 DEF PhoneIdentities
<1>13. ListInv' /\ shown \subseteq shown' /\ shown' \subseteq Nat /\ tasks' = saved
    BY <1>1, <1>2, <1>3, ListShows DEF StartParts
<1>4. ServerInv'
    <2>1. latest' = Closed \/ latest' = latest
        BY DEF Restart, Exposed
    <2>2. mishaps' \in Nat /\ CommandOK(latest')
        BY <1>1, <1>2, <2>1, CommandIs DEF ServerInv
    <2>3. settled' \in BOOLEAN
        BY <1>2
    <2> QED
        BY <1>1, <1>2, <1>13, <2>2, <2>3, ServerStays
<1>5. HandlersInv' /\ Running' = {} /\ (handlers' = <<>> => handlers = <<>>)
    <2>1. /\ Len(handlers) \in Nat /\ DOMAIN handlers = 1 .. Len(handlers)
          /\ handlers \in Seq(HandlerRec \cup {Returned}) /\ Len(handlers) <= MaxCommands
        BY <1>1, HandlersFacts DEF HandlersInv
    <2>2. handlers' = [n \in 1 .. Len(handlers) |-> Returned]
        BY <1>2, <2>1
    <2>3. /\ handlers' \in Seq(HandlerRec \cup {Returned}) /\ Len(handlers') = Len(handlers)
          /\ DOMAIN handlers' = 1 .. Len(handlers)
        BY <2>1, <2>2
    <2>4. \A n \in DOMAIN handlers' : handlers'[n] = Returned
        BY <2>2, <2>3
    <2>5. Running' = {}
        BY <2>4 DEF Running, Returned
    <2>6. handlers' = <<>> => handlers = <<>>
        BY <2>1, <2>3
    <2> QED
        BY <2>1, <2>3, <2>5, <2>6 DEF HandlersInv
<1>6. PICK begun : begun = NewFlight(saved, TRUE)
    OBVIOUS
<1>7. /\ FlightOK(begun, PhoneIdentities', shown') /\ begun.snapshot = saved
      /\ begun.resolved = <<>> /\ begun.todo = <<>> /\ begun.followUp = <<>>
    <2>1. PICK boot \in BOOLEAN : boot = TRUE
        OBVIOUS
    <2>2. begun = NewFlight(saved, boot)
        BY <1>6, <2>1
    <2>3. SeenList(saved, PhoneIdentities', shown')
        BY <1>13 DEF ListInv
    <2> QED
        BY <2>2, <2>3, NewFlightIs
<1>8. PICK calm, g : calm = (stray' = {}) /\ g = [begun EXCEPT !.calm = calm]
    OBVIOUS
<1>9. /\ FlightOK(g, PhoneIdentities', shown') /\ flight' = {g} /\ g.snapshot = saved
      /\ g.resolved = <<>> /\ g.todo = <<>> /\ g.followUp = <<>>
    <2>1. calm \in BOOLEAN /\ begun \in FlightRec
        BY <1>7, <1>8 DEF FlightOK
    <2>2. /\ g \in FlightRec /\ g.stage = begun.stage /\ g.snapshot = begun.snapshot
          /\ g.resolved = begun.resolved /\ g.todo = begun.todo /\ g.followUp = begun.followUp
        BY <1>8, <2>1 DEF FlightRec
    <2>3. FlightOK(g, PhoneIdentities', shown')
        BY <1>7, <2>2 DEF FlightOK
    <2>4. flight' = {g}
        BY <1>2, <1>6, <1>8
    <2> QED
        BY <1>7, <2>2, <2>3, <2>4
<1>10. FlightsInv'
    BY <1>9 DEF FlightsInv
<1>11. StrayInv'
    <2>1. \A e \in flight : \A call \in CallsOf(e) : CallOK(call, PhoneIdentities, shown)
        <3> SUFFICES ASSUME NEW e \in flight, NEW call \in CallsOf(e)
                     PROVE  CallOK(call, PhoneIdentities, shown)
            OBVIOUS
        <3>1. FlightOK(e, PhoneIdentities, shown)
            BY <1>1 DEF FlightsInv
        <3>2. CASE e.followUp # <<>>
            <4>1. /\ e.followUp \in Seq(ListEntry) /\ FollowsUp(e.followUp[1])
                BY <3>1, <3>2 DEF FlightOK, FlightRec
            <4>2. FollowsUp(Head(e.followUp))
                BY <3>2, <4>1
            <4>3. call = FollowUpCall(Head(e.followUp))
                BY <3>2 DEF CallsOf
            <4> QED
                BY <4>2, <4>3, FollowUpCallIs
        <3>3. CASE e.followUp = <<>>
            <4>1. e.todo # <<>> /\ call = PendingCall(Head(e.todo), e.resolved)
                BY <3>3 DEF CallsOf
            <4>2. PICK first : first = Head(e.todo)
                OBVIOUS
            <4>3. first \in ListEntry /\ Sound(first, PhoneIdentities) /\ Seen(first, shown)
                  /\ IsPending(first)
                BY <3>1, <4>1, <4>2, TodoIs
            <4> QED
                BY <4>1, <4>2, <4>3, PendingCallIs
        <3> QED
            BY <3>2, <3>3
    <2>2. \A n \in Running : handlers[n].at = "asking" => CallOK(CallOf(handlers[n]), PhoneIdentities, shown)
        <3> SUFFICES ASSUME NEW n \in Running, handlers[n].at = "asking"
                     PROVE  CallOK(CallOf(handlers[n]), PhoneIdentities, shown)
            OBVIOUS
        <3>1. HandlerOK(handlers[n], PhoneIdentities, shown)
            BY <1>1, HandlersFacts
        <3> QED
            BY <3>1, CallOfIs
    <2>3. \A call \in stray : CallOK(call, PhoneIdentities, shown)
        BY <1>1 DEF StrayInv
    <2>4. \A call \in stray' : CallOK(call, PhoneIdentities, shown)
        <3> SUFFICES ASSUME NEW call \in stray'
                     PROVE  CallOK(call, PhoneIdentities, shown)
            OBVIOUS
        <3>1. CASE call \in stray
            BY <2>3, <3>1
        <3>2. CASE \E e \in flight : call \in CallsOf(e)
            BY <2>1, <3>2
        <3>3. CASE \E n \in Running : handlers[n].at = "asking" /\ call = CallOf(handlers[n])
            BY <2>2, <3>3
        <3>4. \/ call \in stray
              \/ call \in UNION {CallsOf(f) : f \in flight}
              \/ call \in {CallOf(handlers[n]) : n \in {m \in Running : handlers[m].at = "asking"}}
            <4>1. PICK A, B :
                    /\ A = UNION {CallsOf(f) : f \in flight}
                    /\ B = {CallOf(handlers[n]) : n \in {m \in Running : handlers[m].at = "asking"}}
                OBVIOUS
            <4>2. stray' = stray \cup A \cup B
                BY <1>2, <4>1
            <4>3. call \in stray \/ call \in A \/ call \in B
                BY <4>2
            <4> QED
                BY <4>1, <4>3, Zenon
        <3>5. CASE call \in UNION {CallsOf(f) : f \in flight}
            <4>1. \E e \in flight : call \in CallsOf(e)
                BY <3>5, Zenon
            <4> QED
                BY <3>2, <4>1
        <3>6. CASE call \in {CallOf(handlers[n]) : n \in {m \in Running : handlers[m].at = "asking"}}
            <4>1. \E n \in Running : handlers[n].at = "asking" /\ call = CallOf(handlers[n])
                BY <3>6, Zenon
            <4> QED
                BY <3>3, <4>1
        <3> QED
            BY <3>1, <3>4, <3>5, <3>6
    <2> QED
        BY <1>3, <1>13, <2>4, MoreIdentities DEF StrayInv
<1>12. OriginInv'
    <2> SUFFICES ASSUME remote.kind = "unborn", handlers = <<>>
                 PROVE  OriginInv'
        BY <1>2, <1>5 DEF OriginInv
    <2>1. /\ saved = <<>> /\ stray = {}
          /\ \A e \in flight : e.todo = <<>> /\ e.followUp = <<>>
        BY DEF PartsInv, OriginInv, StartParts
    <2>2. Running = {}
        BY DEF Running
    <2>3. stray' = {}
        BY <1>2, <2>1, <2>2 DEF CallsOf
    <2> QED
        BY <1>9, <1>13, <2>1, <2>3 DEF OriginInv
<1> QED
    BY <1>4, <1>5, <1>10, <1>11, <1>12, <1>13 DEF PartsInv

LEMMA LateParts ==
    ASSUME PartsInv, NEW call \in stray, LateArrival(call)
    PROVE  PartsInv'
<1>1. ServerInv /\ ListInv /\ HandlersInv /\ FlightsInv /\ StrayInv
    BY DEF PartsInv
<1>2. /\ flight' = Disturbed /\ settled' = FALSE /\ stray' = stray \ {call}
      /\ tasks' = tasks /\ handlers' = handlers /\ shown' = shown
    BY DEF LateArrival, Disturbs
<1>3. PICK outcome : Takes(call, outcome)
    BY DEF LateArrival, Disturbs
<1>4. CallOK(call, PhoneIdentities, shown)
    BY <1>1 DEF StrayInv
<1>5. ServerInv' /\ PhoneIdentities \subseteq PhoneIdentities'
    BY <1>1, <1>2, <1>3, <1>4, TakesServer
<1>6. OriginInv'
    <2>1. remote'.kind = "unborn" => remote.kind = "unborn"
        BY <1>1, <1>3, <1>4, TakesIs
    <2> QED
        BY <1>2, <2>1 DEF OriginInv, PartsInv
<1>7. ListInv' /\ HandlersInv' /\ StrayInv' /\ FlightsInv'
    BY <1>1, <1>2, <1>5, ListStays, HandlersStay, StrayStays, FlightsDisturbed
<1> QED
    BY <1>5, <1>6, <1>7 DEF PartsInv

LEMMA OtherParts ==
    ASSUME PartsInv, OtherClientWrites
    PROVE  PartsInv' /\ remote'.kind # "unborn"
<1>1. ServerInv /\ ListInv /\ HandlersInv /\ FlightsInv /\ StrayInv
    BY DEF PartsInv
<1>2. /\ remote.kind = "live" /\ mishaps' = mishaps + 1
      /\ flight' = Disturbed /\ settled' = FALSE /\ stray' = stray
      /\ tasks' = tasks /\ handlers' = handlers /\ shown' = shown /\ creation' = creation
      /\ latest' = latest /\ copies' = copies /\ blind' = blind
    BY DEF OtherClientWrites, Disturbs
<1>3. /\ remote' \in [kind : {"unborn", "live", "gone"}, task : Task]
      /\ remote'.kind # "unborn"
    <2>1. CASE remote' = Gone
        <3>1. NewTask("p") \in Task
            BY PlacementsAre
        <3> QED
            BY <2>1, <3>1 DEF Gone
    <2>2. CASE \E value \in Values("update") :
                remote' = [kind |-> "live",
                           task |-> [remote.task EXCEPT !.payload = value,
                                                        !.revision = remote.task.revision + 1]]
        <3>1. PICK value, item :
                /\ value \in Values("update")
                /\ remote' = [kind |-> "live", task |-> item]
                /\ item = [remote.task EXCEPT !.payload = value,
                                              !.revision = remote.task.revision + 1]
            BY <2>2
        <3>2. value \in {"p", "q"}
            BY <3>1, ValuesAre
        <3>3. PICK old : old = remote.task
            OBVIOUS
        <3>4. old \in Task
            BY <1>1, <3>3 DEF ServerInv
        <3>5. PICK n : n = old.revision + 1
            OBVIOUS
        <3>6. n \in Nat
            BY <3>4, <3>5, TaskFields
        <3>7. item \in Task
            BY <3>1, <3>2, <3>3, <3>4, <3>5, <3>6 DEF Task
        <3> QED
            BY <3>1, <3>7
    <2> QED
        BY <2>1, <2>2 DEF OtherClientWrites, Disturbs
<1>4. PhoneIdentities' = PhoneIdentities
    BY <1>2, <1>3 DEF PhoneIdentities
<1>5. ServerInv'
    <2>1. mishaps' \in Nat
        BY <1>1, <1>2 DEF ServerInv
    <2>2. settled' \in BOOLEAN
        BY <1>2
    <2> QED
        BY <1>1, <1>2, <1>3, <2>1, <2>2 DEF ServerInv
<1>6. OriginInv'
    BY <1>3 DEF OriginInv
<1>7. ListInv' /\ HandlersInv' /\ StrayInv' /\ FlightsInv'
    BY <1>1, <1>2, <1>4, ListStays, HandlersStay, StrayStays, FlightsDisturbed
<1> QED
    BY <1>3, <1>5, <1>6, <1>7 DEF PartsInv

LEMMA InitParts ==
    ASSUME MobileInit
    PROVE  PartsInv
<1>1. /\ creation = [key |-> 0, payload |-> "p"] /\ handlers = <<>> /\ flight = {} /\ stray = {}
      /\ mishaps = 0 /\ latest = Closed /\ copies = 0 /\ blind = FALSE /\ settled = FALSE
      /\ \/ /\ remote = [kind |-> "unborn", task |-> NewTask("p")]
            /\ tasks = <<>> /\ shown = {}
         \/ /\ remote = [kind |-> "live", task |-> NewTask("p")]
            /\ tasks = <<Synced(NewTask("p"))>> /\ shown = {0}
    BY DEF MobileInit
<1>2. NewTask("p") \in Task /\ NewTask("p").revision = 0
    BY PlacementsAre
<1>3. ServerInv
    <2>1. /\ remote \in [kind : {"unborn", "live", "gone"}, task : Task]
          /\ creation \in [key : {0, 1}, payload : {"p", "q"}] /\ copies = creation.key
          /\ creation.key = 1 => remote.kind # "unborn"
        BY <1>1, <1>2
    <2>2. mishaps \in Nat /\ shown \subseteq Nat /\ CommandOK(latest)
        BY <1>1, CommandIs
    <2>3. blind = FALSE /\ settled \in BOOLEAN
        BY <1>1
    <2> QED
        BY <2>1, <2>2, <2>3 DEF ServerInv
<1>4. ListInv
    <2>1. CASE tasks = <<>>
        BY <2>1, NoEntries DEF ListInv
    <2>2. CASE tasks = <<Synced(NewTask("p"))>> /\ shown = {0}
        <3>1. PICK item, e : item = NewTask("p") /\ e = Synced(item)
            OBVIOUS
        <3>2. e \in ListEntry /\ Sound(e, PhoneIdentities) /\ e.task = item
            BY <1>2, <3>1, SyncedIs
        <3>3. Seen(e, shown)
            BY <1>2, <2>2, <3>1, <3>2 DEF Seen
        <3>4. IsList(tasks) /\ MobileEntries(tasks) = {e}
            BY <2>2, <3>1, <3>2, EntriesOfOne
        <3> QED
            BY <3>2, <3>3, <3>4 DEF ListInv, SeenList, GoodList
    <2> QED
        BY <1>1, <2>1, <2>2
<1>5. HandlersInv
    <2>1. handlers \in Seq(HandlerRec \cup {Returned}) /\ Len(handlers) = 0 /\ Running = {}
        BY <1>1 DEF Running
    <2> QED
        BY <2>1, BoundsAreNumbers DEF HandlersInv
<1>6. FlightsInv /\ StrayInv /\ OriginInv
    BY <1>1 DEF FlightsInv, StrayInv, OriginInv
<1> QED
    BY <1>3, <1>4, <1>5, <1>6 DEF PartsInv

LEMMA PartsStep ==
    ASSUME PartsInv, StartParts, [MobileNext]_mobileVars
    PROVE  PartsInv'
<1>1. CASE UNCHANGED mobileVars
    <2>1. /\ remote' = remote /\ creation' = creation /\ tasks' = tasks /\ handlers' = handlers
          /\ flight' = flight /\ stray' = stray /\ mishaps' = mishaps /\ latest' = latest
          /\ shown' = shown /\ copies' = copies /\ blind' = blind /\ settled' = settled
        BY <1>1 DEF mobileVars
    <2>2. PhoneIdentities' = PhoneIdentities /\ Running' = Running
        BY <2>1 DEF PhoneIdentities, Running
    <2>3. ServerInv' /\ ListInv' /\ HandlersInv'
        BY <2>1, <2>2 DEF PartsInv, ServerInv, ListInv, HandlersInv
    <2>4. FlightsInv' /\ StrayInv' /\ OriginInv'
        BY <2>1, <2>2 DEF PartsInv, FlightsInv, StrayInv, OriginInv
    <2> QED
        BY <2>3, <2>4 DEF PartsInv
<1>2. CASE MobileNext
    <2>1. CASE \E i \in DOMAIN tasks :
                \/ \E type \in CommandTypes : \E value \in Values(type) : Command(tasks[i], type, value)
                \/ ResolveRemote(tasks[i]) \/ ResolveLocal(tasks[i])
        BY <2>1, CommandParts, ResolveParts
    <2>2. CASE \E n \in DOMAIN handlers : ReminderIsSet(n) \/ HandlerIsAnswered(n) \/ HandlerEnds(n)
        BY <2>2, ReminderParts, AnsweredParts, EndsParts
    <2>3. CASE \E f \in flight : \/ FlightFetches(f) \/ FlightFails(f) \/ FlightReconciles(f)
                                 \/ FlightFollowsUp(f) \/ FlightEnds(f)
        BY <2>3, FetchesParts, FailsParts, ReconcilesParts, FollowsUpParts, FlightEndsParts
    <2>4. CASE \E call \in stray : LateArrival(call)
        BY <2>4, LateParts
    <2>5. CASE Add \/ Sync \/ Restart \/ OtherClientWrites
        BY <2>5, AddParts, SyncParts, RestartParts, OtherParts
    <2>6. CASE \E p \in placing : BootPlaces(p)
        BY <2>6, BootPlacesParts
    <2> QED
        BY <1>2, <2>1, <2>2, <2>3, <2>4, <2>5, <2>6 DEF MobileNext
<1> QED
    BY <1>1, <1>2

-----------------------------------------------------------------------------
(* Flights that nothing disturbs settle.                                   *)

LEMMA SettleDisturbed ==
    ASSUME FlightsInv, flight' = Disturbed, settled' = FALSE
    PROVE  SettleInv'
<1>1. \A g \in flight' : ~g.calm
    <2> SUFFICES ASSUME NEW g \in flight'
                 PROVE  ~g.calm
        OBVIOUS
    <2>1. PICK f \in flight : g = [f EXCEPT !.calm = FALSE]
        BY DEF Disturbed
    <2>2. FlightOK(f, PhoneIdentities, shown)
        BY DEF FlightsInv
    <2> QED
        BY <2>1, <2>2, DisturbedIs
<1>2. FlightsSettle'
    BY DEF FlightsSettle
<1> QED
    BY <1>1, <1>2 DEF SettleInv

\* A flight that begins has fetched nothing.
LEMMA SettleRetried ==
    ASSUME FlightsInv, NEW list, Retries(list), settled' = FALSE,
           GoodList(list, PhoneIdentities'), SeenList(list, PhoneIdentities', shown'),
           Running # {} \/ (Running' = Running /\ stray' = stray)
    PROVE  SettleInv'
<1>1. CASE flight = {}
    <2>1. PICK g, boot : boot \in BOOLEAN /\ g = NewFlight(list, boot) /\ boot = FALSE
        OBVIOUS
    <2>2. flight' = {g}
        BY <1>1, <2>1 DEF Retries
    <2>3. g.stage = "fetch" /\ (g.calm <=> Running = {} /\ stray = {})
        BY <2>1, NewFlightIs
    <2>4. FlightsSettle'
        BY DEF FlightsSettle
    <2> QED
        BY <2>2, <2>3, <2>4 DEF SettleInv
<1>2. CASE flight # {}
    <2>1. flight' = Disturbed
        BY <1>2 DEF Retries
    <2> QED
        BY <2>1, SettleDisturbed
<1> QED
    BY <1>1, <1>2

LEMMA SettleFetches ==
    ASSUME PartsInv, SettleInv, NEW f \in flight, FlightFetches(f)
    PROVE  SettleInv'
<1>1. PICK g : g = [f EXCEPT !.stage = "reconcile", !.snapshot = <<>>,
                             !.resolved = FromServer(f.snapshot), !.todo = PendingIn(f.snapshot)]
    OBVIOUS
<1>2. /\ f.stage = "fetch" /\ flight' = {g} /\ settled' = FALSE
      /\ remote' = remote /\ creation' = creation /\ stray' = stray /\ handlers' = handlers
    BY <1>1 DEF FlightFetches
<1>3. /\ FlightOK(f, PhoneIdentities, shown) /\ f \in FlightRec /\ f.followUp = <<>>
      /\ GoodList(f.snapshot, PhoneIdentities) /\ remote.task \in Task
    BY <1>2 DEF PartsInv, ServerInv, FlightsInv, FlightOK, SeenList
<1>4. PICK snapshot, resolved, todo :
        snapshot = f.snapshot /\ resolved = FromServer(snapshot) /\ todo = PendingIn(snapshot)
    OBVIOUS
<1>5. g.resolved = resolved /\ g.followUp = <<>> /\ g.calm = f.calm
    BY <1>1, <1>3, <1>4 DEF FlightRec
<1>6. Settling(g, remote, creation)
    <2>1. GoodList(snapshot, PhoneIdentities)
        BY <1>3, <1>4
    <2>2. /\ \A y \in MobileEntries(FromServer(snapshot)) : y.id = "remote"
          /\ \/ /\ \A x \in MobileEntries(snapshot) : x.sync # "conflict"
                /\ MobileEntries(FromServer(snapshot)) =
                        IF remote.kind = "live" THEN {Synced(remote.task)} ELSE {}
             \/ \E x \in MobileEntries(snapshot), y \in ListEntry :
                    /\ x.sync = "conflict" /\ MobileEntries(FromServer(snapshot)) = {y}
                    /\ y.sync = "conflict" /\ y.intent = x.intent
                    /\ remote.kind = "live" => y.task = remote.task
        BY <1>3, <2>1, FromServerIs
    <2>3. \A y \in MobileEntries(resolved) : y.id = "remote"
        BY <1>4, <2>2
    <2>4. \/ MobileEntries(resolved) = IF remote.kind = "live" THEN {Synced(remote.task)} ELSE {}
          \/ \E y \in ListEntry : /\ MobileEntries(resolved) = {y} /\ y.sync = "conflict"
                                  /\ remote.kind = "live" => y.task = remote.task
        <3>1. CASE MobileEntries(FromServer(snapshot)) =
                        IF remote.kind = "live" THEN {Synced(remote.task)} ELSE {}
            BY <1>4, <3>1
        <3>2. CASE \E x \in MobileEntries(snapshot), y \in ListEntry :
                        /\ x.sync = "conflict" /\ MobileEntries(FromServer(snapshot)) = {y}
                        /\ y.sync = "conflict" /\ y.intent = x.intent
                        /\ remote.kind = "live" => y.task = remote.task
            <4>1. PICK x \in MobileEntries(snapshot), y \in ListEntry :
                        /\ x.sync = "conflict" /\ MobileEntries(FromServer(snapshot)) = {y}
                        /\ y.sync = "conflict" /\ y.intent = x.intent
                        /\ remote.kind = "live" => y.task = remote.task
                BY <3>2
            <4> QED
                BY <1>4, <4>1
        <3> QED
            BY <2>2, <3>1, <3>2
    <2>5. Synced(remote.task).sync = "synced" /\ Synced(remote.task).task = remote.task
        BY <1>3, SyncedIs
    <2>6. CASE MobileEntries(resolved) = IF remote.kind = "live" THEN {Synced(remote.task)} ELSE {}
        BY <1>5, <2>3, <2>5, <2>6 DEF Settling
    <2>7. CASE \E y \in ListEntry : /\ MobileEntries(resolved) = {y} /\ y.sync = "conflict"
                                    /\ remote.kind = "live" => y.task = remote.task
        BY <1>5, <2>3, <2>7 DEF Settling
    <2> QED
        BY <2>4, <2>6, <2>7
<1>7. f.calm => Running' = {} /\ stray' = {}
    BY <1>2 DEF SettleInv, Running
<1>8. FlightsSettle'
    BY <1>2 DEF FlightsSettle
<1> QED
    BY <1>2, <1>5, <1>6, <1>7, <1>8 DEF SettleInv

\* The server's answer to a call of a flight.
LEMMA StatusIs ==
    ASSUME NEW call
    PROVE  /\ call.type = "create" /\ Status(call) # "ok" =>
                /\ call.key = creation.key
                /\ creation.payload # call.value \/ remote.kind = "gone"
           /\ call.type # "create" /\ Status(call) = "error" => remote.kind # "live"
           /\ call.type # "create" /\ Status(call) = "ok" => remote.kind = "live"
           /\ call.type = "schedule" /\ remote.kind = "live" /\ call.base = remote.task.revision
                => Status(call) = "ok"
           /\ call.type = "create" /\ call.key = creation.key
                /\ (creation.payload # call.value \/ remote.kind = "gone") => Status(call) # "ok"
    BY DEF Status, Creates

\* A create that is repeated writes nothing.
LEMMA RepeatedCreate ==
    ASSUME NEW call, NEW outcome, Takes(call, outcome), call.type = "create",
           call.key = creation.key, remote.kind # "unborn"
    PROVE  remote' = remote /\ creation' = creation
<1>1. ~Creates(call)
    BY DEF Creates
<1> QED
    BY <1>1 DEF Takes, After

LEMMA SettleReconciles ==
    ASSUME PartsInv, SettleInv, NEW f \in flight, FlightReconciles(f)
    PROVE  SettleInv'
<1>1. ServerInv /\ FlightsInv
    BY DEF PartsInv
<1>2. PICK e, call : e = Head(f.todo) /\ call = PendingCall(e, f.resolved)
    OBVIOUS
<1>3. /\ f.stage = "reconcile" /\ f.followUp = <<>> /\ f.todo # <<>> /\ settled' = FALSE
      /\ handlers' = handlers /\ stray' = stray
    BY DEF FlightReconciles
<1>4. PICK outcome, g :
        /\ outcome \in Outcomes(call) /\ Takes(call, outcome) /\ flight' = {g}
        /\ NeedsFollowUp(e, outcome.status) =>
             g = [f EXCEPT !.todo = Tail(@),
                           !.followUp = <<[Synced(remote'.task) EXCEPT !.intent = e.intent]>>]
        /\ ~NeedsFollowUp(e, outcome.status) =>
             g = [f EXCEPT !.todo = Tail(@), !.calm = @ /\ outcome.status # "lost",
                           !.resolved = Reconciled(@, e, outcome.status, remote'.task)]
    BY <1>2 DEF FlightReconciles
<1>5. /\ FlightOK(f, PhoneIdentities, shown) /\ f \in FlightRec
      /\ GoodList(f.resolved, PhoneIdentities)
    BY <1>1 DEF FlightsInv, FlightOK
<1>6. PICK resolved, item, status :
        resolved = f.resolved /\ item = remote'.task /\ status = outcome.status
    OBVIOUS
<1>7. /\ e \in ListEntry /\ Sound(e, PhoneIdentities) /\ Seen(e, shown) /\ IsPending(e)
      /\ e.id = "local" <=> e.sync = "create"
      /\ e.sync # "synced"
    <2>1. e \in ListEntry /\ Sound(e, PhoneIdentities) /\ Seen(e, shown) /\ IsPending(e)
        BY <1>2, <1>3, <1>5, TodoIs
    <2> QED
        BY <2>1 DEF Sound, IsPending
<1>8. /\ CallOK(call, PhoneIdentities, shown) /\ call.type = e.sync
      /\ e.sync = "create" => call.value = e.task.payload /\ call.key = 1
    <2>1. /\ CallOK(call, PhoneIdentities, shown) /\ call.type = e.sync
          /\ e.sync = "create" => call.value = e.task.payload
        BY <1>2, <1>7, PendingCallIs
    <2> QED
        BY <2>1 DEF CallOK
<1>9. FlightsSettle'
    BY <1>3 DEF FlightsSettle
<1>10. f.calm => Running' = {} /\ stray' = {} /\ Settling(f, remote, creation)
    BY <1>3 DEF SettleInv, Running
<1>11. item \in Task
    BY <1>1, <1>4, <1>6, <1>8, TakesIs
<1>12. status = "ok" =>
        /\ Status(call) = "ok"
        /\ remote'.kind = IF e.sync = "delete" THEN "gone" ELSE "live"
        /\ e.sync # "create" => creation' = creation /\ remote.kind = "live"
    <2> SUFFICES ASSUME status = "ok"
                 PROVE  /\ Status(call) = "ok"
                        /\ remote'.kind = IF e.sync = "delete" THEN "gone" ELSE "live"
                        /\ e.sync # "create" => creation' = creation /\ remote.kind = "live"
        OBVIOUS
    <2>1. outcome.taken /\ Status(call) = "ok"
        BY <1>4, <1>6, OutcomeIs
    <2>2. /\ remote'.kind = IF call.type = "delete" THEN "gone" ELSE "live"
          /\ call.type # "create" => creation' = creation
        BY <1>1, <1>4, <1>8, <2>1, TakesIs
    <2>3. call.type # "create" => remote.kind = "live"
        BY <2>1, StatusIs
    <2> QED
        BY <1>8, <2>1, <2>2, <2>3
<1>13. status \in {"conflict", "error"} =>
        /\ remote' = remote /\ creation' = creation
        /\ e.sync = "create" => CreateRefused(e, remote, creation)
        /\ e.sync # "create" /\ status = "error" => remote.kind # "live"
    <2>1. status \in {"conflict", "error"} => Status(call) # "ok" /\ status = Status(call)
        BY <1>4, <1>6, OutcomeIs
    <2>2. status \in {"conflict", "error"} => remote' = remote /\ creation' = creation
        BY <1>1, <1>4, <1>8, <2>1, TakesIs
    <2> QED
        BY <1>8, <2>1, <2>2, StatusIs DEF CreateRefused
<1>14. \A x \in MobileEntries(resolved) :
            x.id = "local" /\ CreateRefused(x, remote, creation) /\ status = "ok" =>
                CreateRefused(x, remote', creation')
    <2> SUFFICES ASSUME NEW x, CreateRefused(x, remote, creation), status = "ok"
                 PROVE  CreateRefused(x, remote', creation')
        OBVIOUS
    <2>1. CASE e.sync = "create"
        <3>1. call.key = creation.key /\ remote.kind # "unborn"
            BY <1>1, <1>8, <2>1 DEF CreateRefused, ServerInv
        <3>2. remote' = remote /\ creation' = creation
            BY <1>4, <1>8, <2>1, <3>1, RepeatedCreate
        <3> QED
            BY <3>2
    <2>2. CASE e.sync # "create"
        <3>1. creation' = creation /\ remote.kind = "live"
            BY <1>12, <2>2
        <3> QED
            BY <3>1 DEF CreateRefused
    <2> QED
        BY <2>1, <2>2
<1>15. CASE NeedsFollowUp(e, outcome.status)
    <2>1. PICK u : u = [Synced(item) EXCEPT !.intent = e.intent]
        OBVIOUS
    <2>2. status = "ok" /\ e.sync = "create" /\ e.intent.type = "schedule"
        BY <1>6, <1>15 DEF NeedsFollowUp
    <2>3. FollowsUp(u) /\ u.task = item
        BY <1>7, <1>11, <2>1, <2>2, FollowUpIs
    <2>4. PICK tail, follow : tail = Tail(f.todo) /\ follow = <<u>>
        OBVIOUS
    <2>5. g = [f EXCEPT !.todo = tail, !.followUp = follow]
        BY <1>4, <1>6, <1>15, <2>1, <2>4
    <2>6. follow # <<>> /\ follow[1] = u
        BY <2>4
    <2>7. g.resolved = resolved /\ g.followUp = follow /\ g.calm = f.calm
        BY <1>5, <1>6, <2>5 DEF FlightRec
    <2>8. remote'.kind = "live"
        BY <1>12, <2>2
    <2>9. f.calm => Settling(g, remote', creation')
        <3> SUFFICES ASSUME f.calm
                     PROVE  Settling(g, remote', creation')
            OBVIOUS
        <3>1. Settling(f, remote, creation)
            BY <1>10
        <3>2. \A x \in MobileEntries(resolved) :
                \/ x.id = "local" /\ CreateRefused(x, remote', creation')
                \/ x.id = "remote" /\ (remote'.kind = "live" \/ x.sync # "synced")
            BY <1>6, <1>14, <2>2, <2>8, <3>1 DEF Settling
        <3>3. follow # <<>> => remote'.kind = "live" /\ follow[1].task = remote'.task
            BY <1>6, <2>3, <2>6, <2>8
        <3> QED
            BY <2>6, <2>7, <3>2, <3>3 DEF Settling
    <2> QED
        BY <1>4, <1>9, <1>10, <2>7, <2>9 DEF SettleInv
<1>16. CASE ~NeedsFollowUp(e, outcome.status)
    <2>1. PICK tail, list, calm : /\ tail = Tail(f.todo)
                                  /\ list = Reconciled(resolved, e, status, item)
                                  /\ calm = (f.calm /\ status # "lost")
        OBVIOUS
    <2>2. g = [f EXCEPT !.todo = tail, !.calm = calm, !.resolved = list]
        BY <1>4, <1>6, <1>16, <2>1
    <2>3. g.resolved = list /\ g.followUp = <<>> /\ g.calm = calm
        BY <1>3, <1>5, <2>2 DEF FlightRec
    <2>4. calm => Settling(g, remote', creation')
        <3> SUFFICES ASSUME calm
                     PROVE  Settling(g, remote', creation')
            OBVIOUS
        <3>1. f.calm /\ status # "lost"
            BY <2>1
        <3>2. Settling(f, remote, creation)
            BY <1>10, <3>1
        <3>3. /\ status = "ok" /\ e.sync = "delete" =>
                   MobileEntries(list) = {x \in MobileEntries(resolved) : x.id # "remote"}
              /\ status # "ok" /\ ~(status = "conflict" /\ e.sync # "create") =>
                   MobileEntries(list) = {e} \cup {x \in MobileEntries(resolved) : x.id # e.id}
            <4>1. GoodList(resolved, PhoneIdentities)
                BY <1>5, <1>6
            <4>2. e \in ListEntry /\ IsPending(e) /\ Sound(e, PhoneIdentities) /\ Seen(e, shown)
                BY <1>7
            <4>3. list = Reconciled(resolved, e, status, item)
                BY <2>1
            <4>5. CASE status = "ok" /\ e.sync = "delete"
                <5>1. list = Dropping(resolved, "remote")
                    BY <4>3, <4>5 DEF Reconciled
                <5> QED
                    BY <4>1, <4>5, <5>1, GoodDropping
            <4>6. CASE status # "ok" /\ ~(status = "conflict" /\ e.sync # "create")
                <5>1. list = Upserted(resolved, e)
                    BY <4>3, <4>6 DEF Reconciled
                <5> QED
                    BY <4>1, <4>2, <4>6, <5>1, GoodUpserted
            <4> QED
                BY <4>5, <4>6
        <3>4. /\ \A x \in MobileEntries(resolved) :
                    \/ x.id = "local" /\ CreateRefused(x, remote, creation)
                    \/ x.id = "remote" /\ (remote.kind = "live" \/ x.sync # "synced")
              /\ remote.kind = "live" =>
                    \E x \in MobileEntries(resolved) :
                        /\ x.id = "remote" /\ x.sync \in {"synced", "conflict"}
                        /\ x.task = remote.task
            BY <1>3, <1>6, <3>2 DEF Settling
        <3>5. status \in {"ok", "conflict", "error"}
            BY <1>4, <1>6, <3>1, OutcomeIs
        <3> SUFFICES /\ \A x \in MobileEntries(list) :
                            \/ x.id = "local" /\ CreateRefused(x, remote', creation')
                            \/ x.id = "remote" /\ (remote'.kind = "live" \/ x.sync # "synced")
                     /\ remote'.kind = "live" =>
                            \E x \in MobileEntries(list) :
                                /\ x.id = "remote" /\ x.sync \in {"synced", "conflict"}
                                /\ x.task = remote'.task
            BY <2>3 DEF Settling
        <3>6. CASE status = "ok" /\ e.sync = "delete"
            BY <1>12, <1>14, <3>3, <3>4, <3>6
        <3>7. CASE status = "ok" /\ e.sync # "delete"
            <4>1. PICK s : s = Synced(item)
                OBVIOUS
            <4>2. /\ s \in ListEntry /\ Sound(s, PhoneIdentities)
                  /\ s.id = "remote" /\ s.sync = "synced" /\ s.task = item
                BY <1>11, <4>1, SyncedIs
            <4>3. list = Upserted(resolved, s)
                BY <2>1, <3>7, <4>1 DEF Reconciled
            <4>4. MobileEntries(list) = {s} \cup {x \in MobileEntries(resolved) : x.id # s.id}
                BY <1>5, <1>6, <4>2, <4>3, GoodUpserted
            <4> QED
                BY <1>6, <1>12, <1>14, <3>4, <3>7, <4>2, <4>4
        <3>8. CASE status = "conflict" /\ e.sync # "create"
            <4>1. PICK c : c = ConflictTask(resolved, e)
                OBVIOUS
            <4>2. /\ c \in ListEntry /\ Sound(c, PhoneIdentities)
                  /\ c.id = "remote" /\ c.sync = "conflict"
                  /\ \A x \in MobileEntries(resolved) : x.id = "remote" => c.task = x.task
                BY <1>5, <1>6, <1>7, <3>8, <4>1, ConflictTaskIs
            <4>3. list = Upserted(resolved, c)
                BY <2>1, <3>8, <4>1 DEF Reconciled
            <4>4. MobileEntries(list) = {c} \cup {x \in MobileEntries(resolved) : x.id # c.id}
                BY <1>5, <1>6, <4>2, <4>3, GoodUpserted
            <4> QED
                BY <1>13, <3>4, <3>8, <4>2, <4>4
        <3>9. CASE status # "ok" /\ ~(status = "conflict" /\ e.sync # "create")
            <4>1. e.id \in {"local", "remote"}
                BY <1>7, EntryFields
            <4> QED
                BY <1>7, <1>13, <3>3, <3>4, <3>5, <3>9, <4>1
        <3> QED
            BY <3>5, <3>6, <3>7, <3>8, <3>9
    <2>5. calm => f.calm
        BY <2>1
    <2> QED
        BY <1>4, <1>9, <1>10, <2>3, <2>4, <2>5 DEF SettleInv
<1> QED
    BY <1>15, <1>16

LEMMA SettleFollowsUp ==
    ASSUME PartsInv, SettleInv, NEW f \in flight, FlightFollowsUp(f)
    PROVE  SettleInv'
<1>1. ServerInv /\ FlightsInv
    BY DEF PartsInv
<1>2. PICK e, call : e = Head(f.followUp) /\ call = FollowUpCall(e)
    OBVIOUS
<1>3. f.followUp # <<>> /\ settled' = FALSE /\ handlers' = handlers /\ stray' = stray
    BY DEF FlightFollowsUp
<1>4. PICK outcome, g :
        /\ outcome \in Outcomes(call) /\ Takes(call, outcome) /\ flight' = {g}
        /\ g = [f EXCEPT !.followUp = <<>>, !.calm = @ /\ outcome.status # "lost",
                         !.resolved = Upserted(@, IF outcome.status = "ok" THEN Synced(remote'.task)
                                                  ELSE Marked(e, e.intent.type, e.intent.value))]
    BY <1>2 DEF FlightFollowsUp
<1>5. /\ FlightOK(f, PhoneIdentities, shown) /\ f \in FlightRec /\ GoodList(f.resolved, PhoneIdentities)
      /\ FollowsUp(f.followUp[1]) /\ f.stage = "reconcile"
    BY <1>1, <1>3 DEF FlightsInv, FlightOK, FlightRec
<1>6. e = f.followUp[1] /\ FollowsUp(e)
    <2>1. f.followUp \in Seq(ListEntry)
        BY <1>5 DEF FlightRec
    <2>2. Head(f.followUp) = f.followUp[1]
        BY <1>3, <2>1
    <2> QED
        BY <1>2, <1>5, <2>2
<1>7. /\ CallOK(call, PhoneIdentities, shown) /\ call.type = "schedule"
      /\ call.base = e.task.revision
    BY <1>2, <1>6, FollowUpCallIs
<1>8. FlightsSettle'
    BY <1>3 DEF FlightsSettle
<1>9. f.calm => Running' = {} /\ stray' = {} /\ Settling(f, remote, creation)
    BY <1>3, <1>5 DEF SettleInv, Running
<1>10. PICK item, resolved, x, list, calm :
        /\ item = remote'.task /\ resolved = f.resolved
        /\ x = IF outcome.status = "ok" THEN Synced(item)
               ELSE Marked(e, e.intent.type, e.intent.value)
        /\ list = Upserted(resolved, x)
        /\ calm = (f.calm /\ outcome.status # "lost")
    OBVIOUS
<1>11. g.resolved = list /\ g.followUp = <<>> /\ g.calm = calm
    <2>1. g = [f EXCEPT !.followUp = <<>>, !.calm = calm, !.resolved = list]
        BY <1>4, <1>10
    <2> QED
        BY <1>5, <2>1 DEF FlightRec
<1>12. calm => Settling(g, remote', creation')
    <2> SUFFICES ASSUME calm
                 PROVE  Settling(g, remote', creation')
        OBVIOUS
    <2>1. f.calm /\ outcome.status # "lost"
        BY <1>10
    <2>2. Settling(f, remote, creation)
        BY <1>9, <2>1
    <2>3. remote.kind = "live" /\ e.task = remote.task
        BY <1>3, <1>6, <2>2 DEF Settling
    <2>4. Status(call) = "ok"
        BY <1>7, <2>3, StatusIs
    <2>5. outcome.taken /\ outcome.status = "ok"
        BY <1>4, <2>1, <2>4, OutcomeIs
    <2>6. remote'.kind = "live" /\ creation' = creation /\ item \in Task
        BY <1>1, <1>4, <1>7, <1>10, <2>4, <2>5, TakesIs
    <2>7. x = Synced(item)
        BY <1>10, <2>5
    <2>8. /\ x \in ListEntry /\ Sound(x, PhoneIdentities)
          /\ x.id = "remote" /\ x.sync = "synced" /\ x.task = item
        BY <2>6, <2>7, SyncedIs
    <2>9. MobileEntries(list) = {x} \cup {y \in MobileEntries(resolved) : y.id # x.id}
        BY <1>5, <1>10, <2>8, GoodUpserted
    <2>10. \A y \in MobileEntries(resolved) :
                \/ y.id = "local" /\ CreateRefused(y, remote', creation')
                \/ y.id = "remote"
        BY <1>10, <2>2, <2>3, <2>6 DEF Settling, CreateRefused
    <2> QED
        BY <1>10, <1>11, <2>6, <2>8, <2>9, <2>10 DEF Settling
<1>13. calm => f.calm
    BY <1>10
<1> QED
    BY <1>4, <1>8, <1>9, <1>11, <1>12, <1>13 DEF SettleInv

LEMMA SettledStays ==
    ASSUME NEW list, SettledList(list), remote' = remote, creation' = creation
    PROVE  SettledList(list)'
    BY DEF SettledList, Status, Creates

\* What a flight that nothing disturbed has resolved.
LEMMA SettledResolved ==
    ASSUME PartsInv, SettleInv, NEW f \in flight, f.stage = "reconcile", f.followUp = <<>>, f.calm
    PROVE  SettledList(f.resolved)
<1>1. FlightsInv
    BY DEF PartsInv
<1>3. GoodList(f.resolved, PhoneIdentities)
    BY <1>1 DEF FlightsInv, FlightOK
<1>4. PICK list : list = f.resolved
    OBVIOUS
<1>5. /\ \A i \in DOMAIN list : list[i] \in MobileEntries(list)
      /\ \A e \in MobileEntries(list) : e \in ListEntry /\ Sound(e, PhoneIdentities)
    BY <1>3, <1>4, ListEntries DEF MobileEntries, GoodList
<1>6. Settling(f, remote, creation)
    BY DEF SettleInv
<1>7. /\ \A e \in MobileEntries(list) :
            \/ e.id = "local" /\ CreateRefused(e, remote, creation)
            \/ e.id = "remote" /\ (remote.kind = "live" \/ e.sync # "synced")
      /\ remote.kind = "live" =>
            \E e \in MobileEntries(list) :
                e.sync \in {"synced", "conflict"} /\ e.task = remote.task
    BY <1>4, <1>6 DEF Settling
<1>8. \A e \in MobileEntries(list) :
        e.id = "local" /\ CreateRefused(e, remote, creation) =>
            Status(PendingCall(e, list)) # "ok"
    <2> SUFFICES ASSUME NEW e \in MobileEntries(list), e.id = "local",
                        CreateRefused(e, remote, creation)
                 PROVE  Status(PendingCall(e, list)) # "ok"
        OBVIOUS
    <2>1. e \in ListEntry /\ Sound(e, PhoneIdentities) /\ e.sync = "create"
        BY <1>5 DEF Sound
    <2>2. PICK call : call = PendingCall(e, list)
        OBVIOUS
    <2>3. call.type = "create" /\ call.value = e.task.payload /\ call.key = 1
        BY <2>1, <2>2 DEF PendingCall, Call, ClientOperationId
    <2>4. Status(call) # "ok"
        BY <2>3 DEF Status, Creates, CreateRefused
    <2> QED
        BY <2>2, <2>4
<1>9. SettledList(list)
    BY <1>5, <1>7, <1>8 DEF MobileEntries, SettledList
<1> QED
    BY <1>4, <1>9

LEMMA SettleEnds ==
    ASSUME PartsInv, SettleInv, NEW f \in flight, FlightEnds(f)
    PROVE  SettleInv'
<1>1. /\ f.stage = "reconcile" /\ f.followUp = <<>> /\ flight' = {}
      /\ remote' = remote /\ creation' = creation
      /\ settled' = FALSE \/ (settled' = f.calm /\ tasks' = f.resolved)
    BY DEF FlightEnds, Persists, Shows
<1>2. FlightsSettle'
    <2> SUFFICES ASSUME f.calm, tasks' = f.resolved
                 PROVE  SettledList(tasks)'
        BY <1>1 DEF FlightsSettle
    <2>1. PICK list : list = f.resolved
        OBVIOUS
    <2>2. SettledList(list)
        BY <1>1, <2>1, SettledResolved
    <2>3. SettledList(list)'
        BY <1>1, <2>2, SettledStays
    <2>4. tasks' = list
        BY <2>1
    <2> QED
        BY <2>3, <2>4 DEF SettledList
<1> QED
    BY <1>1, <1>2 DEF SettleInv

\* The list of a start of the app that nothing disturbed.
LEMMA SettlePlaced ==
    ASSUME PartsInv, SettleInv, StartSettles, NEW p \in placing, BootPlaces(p)
    PROVE  SettleInv'
<1>1. /\ tasks' = p.list /\ settled' = p.calm /\ flight' = flight
      /\ handlers' = handlers /\ stray' = stray
      /\ remote' = remote /\ creation' = creation
    BY DEF BootPlaces, Shows
<1>2. FlightsSettle'
    <2> SUFFICES ASSUME p.calm
                 PROVE  SettledList(tasks)'
        BY <1>1 DEF FlightsSettle
    <2>1. PICK list : list = p.list
        OBVIOUS
    <2>2. SettledList(list)
        BY <2>1 DEF StartSettles
    <2>3. SettledList(list)'
        BY <1>1, <2>2, SettledStays
    <2>4. tasks' = list
        BY <1>1, <2>1
    <2> QED
        BY <2>3, <2>4 DEF SettledList
<1>3. Running' = Running
    BY <1>1 DEF Running
<1> QED
    BY <1>1, <1>2, <1>3 DEF SettleInv

LEMMA SettleStep ==
    ASSUME PartsInv, PartsInv', SettleInv, StartParts, StartSettles, [MobileNext]_mobileVars
    PROVE  SettleInv'
<1>1. FlightsInv
    BY DEF PartsInv
<1>2. CASE UNCHANGED mobileVars
    <2>1. /\ remote' = remote /\ creation' = creation /\ tasks' = tasks /\ handlers' = handlers
          /\ flight' = flight /\ stray' = stray /\ settled' = settled
        BY <1>2 DEF mobileVars
    <2>2. Running' = Running
        BY <2>1 DEF Running
    <2>3. FlightsSettle'
        BY <2>1 DEF SettleInv, FlightsSettle, SettledList, Status, Creates
    <2> QED
        BY <2>1, <2>2, <2>3 DEF SettleInv
<1>3. ASSUME NEW i \in DOMAIN tasks, NEW type, NEW value, Command(tasks[i], type, value)
      PROVE  SettleInv'
    <2>1. flight' = Disturbed /\ settled' = FALSE
        BY <1>3 DEF Command, Disturbs
    <2> QED
        BY <1>1, <2>1, SettleDisturbed
<1>4. ASSUME Add \/ OtherClientWrites \/ (\E i \in DOMAIN tasks : ResolveRemote(tasks[i]))
                 \/ (\E n \in DOMAIN handlers : ReminderIsSet(n) \/ HandlerIsAnswered(n))
                 \/ (\E call \in stray : LateArrival(call))
      PROVE  SettleInv'
    <2>1. flight' = Disturbed /\ settled' = FALSE
        BY <1>4 DEF Add, Disturbs, OtherClientWrites, ResolveRemote, ReminderIsSet, HandlerIsAnswered,
                    LateArrival
    <2> QED
        BY <1>1, <2>1, SettleDisturbed
<1>5. ASSUME NEW i \in DOMAIN tasks, ResolveLocal(tasks[i])
      PROVE  SettleInv'
    <2>1. PICK list : list = Upserted(tasks, Rebased(tasks[i]))
        OBVIOUS
    <2>2. /\ Retries(list) /\ tasks' = list /\ settled' = FALSE
          /\ handlers' = handlers /\ stray' = stray
        BY <1>5, <2>1 DEF ResolveLocal, Persists, Shows
    <2>3. SeenList(list, PhoneIdentities', shown') /\ GoodList(list, PhoneIdentities')
        BY <2>2 DEF PartsInv, ListInv, SeenList
    <2>4. Running' = Running
        BY <2>2 DEF Running
    <2> QED
        BY <1>1, <2>2, <2>3, <2>4, SettleRetried
<1>6. ASSUME NEW n \in DOMAIN handlers, HandlerEnds(n)
      PROVE  SettleInv'
    <2>1. PICK list : list = Replied(handlers[n])
        OBVIOUS
    <2>2. /\ Retries(list) \/ flight' = Disturbed
          /\ tasks' = list /\ settled' = FALSE /\ handlers[n].at = "answered"
        BY <1>6, <2>1 DEF HandlerEnds, Disturbs, Persists, Shows
    <2>3. SeenList(list, PhoneIdentities', shown') /\ GoodList(list, PhoneIdentities')
        BY <2>2 DEF PartsInv, ListInv, SeenList
    <2>4. Running # {}
        BY <2>2 DEF Running
    <2> QED
        BY <1>1, <2>2, <2>3, <2>4, SettleRetried, SettleDisturbed
<1>7. ASSUME Sync
      PROVE  SettleInv'
    <2>1. /\ settled' = FALSE
          /\ tasks' = tasks /\ handlers' = handlers /\ stray' = stray
        BY <1>7 DEF Sync
    <2>2. Retries(tasks)
        BY <1>7 DEF Sync
    <2>3. SeenList(tasks, PhoneIdentities', shown') /\ GoodList(tasks, PhoneIdentities')
        BY <2>1 DEF PartsInv, ListInv, SeenList
    <2>4. Running' = Running
        BY <2>1 DEF Running
    <2> QED
        BY <1>1, <2>1, <2>2, <2>3, <2>4, SettleRetried
<1>8. ASSUME Restart
      PROVE  SettleInv'
    <2>1. Running' = {}
        BY <1>8, RestartParts
    <2>2. PICK f, calm, g, boot :
            /\ boot \in BOOLEAN /\ boot = TRUE
            /\ f = NewFlight(saved, boot) /\ calm = (stray' = {}) /\ g = [f EXCEPT !.calm = calm]
        OBVIOUS
    <2>3. flight' = {g} /\ settled' = FALSE /\ tasks' = saved
        BY <1>8, <2>2 DEF Restart, Shows
    <2>4. g.stage = "fetch" /\ g.calm = calm
        <3>1. SeenList(saved, PhoneIdentities', shown')
            BY <2>3 DEF PartsInv, ListInv
        <3>2. f \in FlightRec /\ f.stage = "fetch"
            BY <2>2, <3>1, NewFlightIs DEF FlightOK
        <3> QED
            BY <2>2, <3>2 DEF FlightRec
    <2>5. FlightsSettle'
        BY <2>3 DEF FlightsSettle
    <2> QED
        BY <2>1, <2>2, <2>3, <2>4, <2>5 DEF SettleInv
<1>9. ASSUME NEW f \in flight, FlightFails(f)
      PROVE  SettleInv'
    BY <1>9 DEF FlightFails, SettleInv, FlightsSettle
<1>10. ASSUME NEW f \in flight,
              FlightFetches(f) \/ FlightReconciles(f) \/ FlightFollowsUp(f) \/ FlightEnds(f)
       PROVE  SettleInv'
    BY <1>10, SettleFetches, SettleReconciles, SettleFollowsUp, SettleEnds
<1>11. ASSUME NEW p \in placing, BootPlaces(p)
       PROVE  SettleInv'
    BY <1>11, SettlePlaced
<1> QED
    BY <1>2, <1>3, <1>4, <1>5, <1>6, <1>7, <1>8, <1>9, <1>10, <1>11 DEF MobileNext

-----------------------------------------------------------------------------
(* The latest command is kept.                                             *)

LEMMA CommandFields ==
    ASSUME NEW command, CommandOK(command), command # Closed
    PROVE  /\ command = [type |-> command.type, value |-> command.value]
           /\ command.type \in AnyType /\ ValueOf(command.type, command.value)
    BY DEF CommandOK

LEMMA SingleIs ==
    ASSUME NEW list, IsList(list), NEW e, MobileEntries(list) = {e}
    PROVE  Len(list) = 1 /\ list[1] = e /\ list = <<e>>
<1>1. /\ Len(list) \in Nat /\ DOMAIN list = 1 .. Len(list) /\ list \in Seq(ListEntry)
    BY ListEntries
<1>2. \A i \in DOMAIN list : list[i] = e
    BY DEF MobileEntries
<1>3. \A i, j \in DOMAIN list : i = j
    BY <1>2 DEF IsList
<1>4. DOMAIN list # {}
    BY DEF MobileEntries
<1>5. Len(list) = 1
    <2>1. Len(list) # 0
        BY <1>1, <1>4
    <2>2. Len(list) >= 2 => 1 \in DOMAIN list /\ 2 \in DOMAIN list
        BY <1>1
    <2>3. ~(Len(list) >= 2)
        BY <1>3, <2>2
    <2> QED
        BY <1>1, <2>1, <2>3
<1> QED
    BY <1>1, <1>2, <1>5

LEMMA KeptDisturbed ==
    ASSUME FlightsInv, flight' = Disturbed
    PROVE  /\ flight = {} => flight' = {}
           /\ \A command : (\A f \in flight : FlightKeeps(f, command)) =>
                                \A g \in flight' : FlightKeeps(g, command)
           /\ NoLocal /\ AllRemote(tasks') => NoLocal'
<1>1. \A g \in flight' : \E f \in flight :
            /\ g.stage = f.stage /\ g.snapshot = f.snapshot /\ g.resolved = f.resolved
            /\ g.todo = f.todo /\ g.followUp = f.followUp
    <2> SUFFICES ASSUME NEW g \in flight'
                 PROVE  \E f \in flight :
                            /\ g.stage = f.stage /\ g.snapshot = f.snapshot
                            /\ g.resolved = f.resolved
                            /\ g.todo = f.todo /\ g.followUp = f.followUp
        OBVIOUS
    <2>1. PICK f \in flight : g = [f EXCEPT !.calm = FALSE]
        BY DEF Disturbed
    <2>2. FlightOK(f, PhoneIdentities, shown)
        BY DEF FlightsInv
    <2> QED
        BY <2>1, <2>2, DisturbedIs
<1>2. flight = {} => flight' = {}
    BY <1>1
<1>3. \A command : (\A f \in flight : FlightKeeps(f, command)) =>
                        \A g \in flight' : FlightKeeps(g, command)
    BY <1>1 DEF FlightKeeps
<1>4. NoLocal /\ AllRemote(tasks') => NoLocal'
    BY <1>1 DEF NoLocal
<1> QED
    BY <1>2, <1>3, <1>4

LEMMA KeptRetried ==
    ASSUME FlightsInv, NEW list, Retries(list), tasks' = list, SeenList(list, PhoneIdentities', shown')
    PROVE  /\ \A command : Keeps(list, command) /\ (\A f \in flight : FlightKeeps(f, command)) =>
                                \A g \in flight' : FlightKeeps(g, command)
           /\ NoLocal /\ AllRemote(list) => NoLocal'
<1>1. CASE flight = {}
    <2>1. PICK g, boot : boot \in BOOLEAN /\ g = NewFlight(list, boot) /\ boot = FALSE
        OBVIOUS
    <2>2. flight' = {g}
        BY <1>1, <2>1 DEF Retries
    <2>3. g.stage = "fetch" /\ g.snapshot = list /\ g.resolved = <<>> /\ g.todo = <<>>
        BY <2>1, NewFlightIs
    <2>4. AllRemote(<<>>)
        BY EntriesOfNone DEF AllRemote
    <2> QED
        BY <2>2, <2>3, <2>4 DEF FlightKeeps, NoLocal
<1>2. CASE flight # {}
    <2>1. flight' = Disturbed
        BY <1>2 DEF Retries
    <2> QED
        BY <2>1, KeptDisturbed
<1> QED
    BY <1>1, <1>2

\* A pending entry carries the command it has, or is a create with a schedule.
LEMMA CarriedBy ==
    ASSUME NEW ids, NEW revisions, NEW e \in ListEntry, Sound(e, ids), Seen(e, revisions), IsPending(e),
           CommandOK(latest), latest # Closed, HasIt(e, latest),
           NEW resolved, NEW call, call = PendingCall(e, resolved)
    PROVE  \/ Carries(call)
           \/ e.sync = "create" /\ e.intent.type = "schedule" /\ latest.type = "schedule"
<1>1. latest.type \in AnyType /\ ValueOf(latest.type, latest.value)
    BY CommandFields
<1>2. /\ call.type = e.sync /\ ValueOf(e.sync, call.value)
      /\ e.sync \in {"create", "update"} => call.value = e.task.payload
      /\ e.sync \in {"lifecycle", "schedule"} => call.value = e.intent.value
    BY PendingCallIs
<1>3. e.sync \in CommandTypes \cup {"create"}
    BY EntryFields DEF IsPending, SyncStates
<1>4. e.sync # "conflict"
    BY DEF IsPending
<1>5. CASE latest.type = "create"
    BY <1>2, <1>5 DEF HasIt, Carries
<1>6. CASE latest.type = "update"
    BY <1>2, <1>4, <1>6 DEF HasIt, Carries
<1>7. CASE latest.type = "delete"
    <2>1. e.sync = "delete"
        BY <1>4, <1>7 DEF HasIt
    <2>2. call.value = Unset /\ latest.value = Unset
        BY <1>1, <1>2, <1>7, <2>1, ValuesAre DEF ValueOf
    <2> QED
        BY <1>2, <1>7, <2>1, <2>2 DEF Carries
<1>8. CASE latest.type \in {"lifecycle", "schedule"}
    <2>1. e.intent.type = latest.type /\ e.intent.value = latest.value
          /\ (latest.type = "lifecycle" => e.sync # "create")
        BY <1>8 DEF HasIt
    <2>2. e.sync \in {"lifecycle", "schedule"} => e.intent.type = e.sync
        BY DEF Sound
    <2>3. e.sync \notin {"update", "delete"}
        BY <1>8, <2>1 DEF Sound, Unset
    <2>4. e.sync \in {"create", "lifecycle", "schedule"}
        BY <1>3, <2>3 DEF CommandTypes
    <2> QED
        BY <1>2, <1>8, <2>1, <2>2, <2>4 DEF Carries
<1> QED
    BY <1>1, <1>5, <1>6, <1>7, <1>8 DEF AnyType, CommandTypes

\* A conflict with the intent of another has what it has.
LEMMA ConflictHasIt ==
    ASSUME NEW command, NEW x, NEW y, x.sync = "conflict", y.sync = "conflict",
           y.intent = x.intent, HasIt(x, command)
    PROVE  HasIt(y, command)
    BY DEF HasIt

LEMMA HasItUnsynced ==
    ASSUME NEW command, command.type \in AnyType, NEW x, HasIt(x, command)
    PROVE  x.sync # "synced"
    BY DEF HasIt, AnyType, CommandTypes

\* The handlers and the list stay.
LEMMA LatestStays ==
    ASSUME PartsInv, LatestInv, flight' = Disturbed, tasks' = tasks, handlers' = handlers,
           latest' = latest \/ latest' = Closed
    PROVE  LatestInv'
<1> SUFFICES ASSUME latest' = latest, latest # Closed
             PROVE  LatestInv'
    BY DEF LatestInv
<1>1. FlightsInv
    BY DEF PartsInv
<1>2. Running' = Running /\ (Unsaved' <=> Unsaved)
    BY DEF Running, Unsaved
<1>3. NoLocal => NoLocal'
    BY <1>1, KeptDisturbed DEF NoLocal
<1>4. /\ Unsaved => flight' = {}
      /\ \A g \in flight' : FlightKeeps(g, latest)
    BY <1>1, KeptDisturbed DEF LatestInv
<1> QED
    BY <1>2, <1>3, <1>4 DEF LatestInv

\* The handlers stay, and what is given is in the list.
LEMMA LatestListed ==
    ASSUME LatestInv, latest' = latest, latest # Closed, ~Unsaved, handlers' = handlers,
           Keeps(tasks', latest), NoLocal => NoLocal', \A g \in flight' : FlightKeeps(g, latest)
    PROVE  LatestInv'
<1>1. Running' = Running /\ (Unsaved' <=> Unsaved)
    BY DEF Running, Unsaved
<1> QED
    BY <1>1 DEF LatestInv

LEMMA AddLatest ==
    ASSUME PartsInv, Add
    PROVE  LatestInv'
<1>1. /\ remote.kind = "unborn" /\ Len(handlers) = 0 /\ Given("create", "p")
      /\ flight' = Disturbed /\ Len(handlers) < MaxCommands /\ shown \subseteq Nat
      /\ remote' = remote /\ creation' = creation
    BY DEF Add, Disturbs, PartsInv, ServerInv
<1>2. PICK e, h : /\ e = [Synced(NewTask("p")) EXCEPT !.id = "local", !.sync = "create"]
                  /\ h = Handler("asking", "create", "p", e)
                  /\ tasks' = <<e>> \o tasks /\ Persists(<<e>> \o tasks)
                  /\ handlers' = Append(handlers, h)
    BY DEF Add, Disturbs, Persists, Shows
<1>3. HandlersInv
    BY DEF PartsInv
<1> SUFFICES ASSUME latest' # Closed
             PROVE  LatestInv'
    BY DEF LatestInv
<1>4. /\ Running = {} /\ flight = {} /\ latest' = [type |-> "create", value |-> "p"]
    BY <1>1 DEF Given, Quiet
<1>5. tasks = <<>>
    <2>1. handlers = <<>>
        BY <1>1, <1>3 DEF HandlersInv
    <2> QED
        BY <1>1, <2>1 DEF PartsInv, OriginInv
<1>6. PhoneIdentities' = PhoneIdentities /\ "local" \in PhoneIdentities
    BY <1>1 DEF PhoneIdentities
<1>7. /\ e \in ListEntry /\ Sound(e, PhoneIdentities) /\ e.id = "local" /\ e.sync = "create"
      /\ e.task.payload = "p"
    BY <1>2, <1>6, AddedEntryIs
<1>8. MobileEntries(tasks') = {e}
    <2>1. IsList(tasks) /\ MobileEntries(tasks) = {}
        BY <1>5, EntriesOfNone
    <2> QED
        BY <1>2, <1>7, <2>1, PutFirst
<1>9. Keeps(tasks', latest')
    BY <1>4, <1>7, <1>8 DEF Keeps, HasIt
<1>10. /\ HandlerOK(h, PhoneIdentities, shown) /\ h.at = "asking" /\ h.type = "create"
       /\ h.value = "p" /\ h.reply.status = Unset
    <2>1. "create" \in AnyType /\ ValueOf("create", "p")
        BY DEF AnyType, ValueOf
    <2>2. SeenList(tasks, PhoneIdentities, shown) /\ Seen(e, shown)
        BY <1>5, <1>7, NoEntries DEF Seen
    <2>3. HandlerOK(h, PhoneIdentities, shown)
        <3>1. h = Handler("asking", "create", "p", e)
            BY <1>2
        <3> QED
            BY <1>7, <2>1, <2>2, <3>1, HandlerIs
    <2>4. /\ h.at = "asking" /\ h.type = "create"
          /\ h.value = "p" /\ h.reply.status = Unset
        BY <1>2 DEF Handler, Reply
    <2> QED
        BY <2>3, <2>4
<1>11. Running' = {1} /\ handlers'[1] = h /\ Len(handlers') = 1
    <2>1. shown \subseteq shown'
        BY <1>2 DEF Persists, Shows
    <2>2. HandlerOK(h, PhoneIdentities', shown')
        BY <1>6, <1>10, <2>1, MoreIdentities
    <2>3. h # Returned
        BY <1>10 DEF Returned
    <2> QED
        BY <1>1, <1>2, <1>3, <1>4, <1>6, <2>1, <2>2, <2>3, HandlerAppended
<1>12. ~Unsaved'
    BY <1>10, <1>11 DEF Unsaved
<1>13. flight' = {}
    BY <1>1, <1>4, KeptDisturbed DEF PartsInv
<1>14. Followed(h, latest')
    BY <1>4, <1>10 DEF Followed, Unset
<1> QED
    BY <1>9, <1>10, <1>11, <1>12, <1>13, <1>14 DEF LatestInv

LEMMA CommandLatest ==
    ASSUME PartsInv, NEW i \in DOMAIN tasks, NEW type \in CommandTypes, NEW value \in Values(type),
           Command(tasks[i], type, value)
    PROVE  LatestInv' /\ (latest' # Closed => Quiet /\ (saved' = tasks' \/ Unsaved'))
<1>1. PICK e : e = tasks[i]
    OBVIOUS
<1>2. /\ HandlersInv /\ FlightsInv /\ shown \subseteq Nat
      /\ GoodList(tasks, PhoneIdentities) /\ SeenList(tasks, PhoneIdentities, shown)
      /\ e \in ListEntry /\ Sound(e, PhoneIdentities) /\ Seen(e, shown) /\ IsList(tasks)
      /\ e \in MobileEntries(tasks)
    BY <1>1, TasksAre DEF PartsInv
<1> SUFFICES ASSUME latest' # Closed
             PROVE  LatestInv' /\ Quiet /\ (saved' = tasks' \/ Unsaved')
    BY DEF LatestInv
<1>3. /\ Len(handlers) < MaxCommands /\ MayCommand(e, type, value)
      /\ flight' = Disturbed /\ remote' = remote /\ creation' = creation
      /\ Given(type, value) /\ (e.id = "local" => type \notin {"lifecycle", "delete"})
    BY <1>1 DEF Command, Disturbs
<1>4. /\ Quiet /\ Running = {} /\ flight = {} /\ Len(tasks) < 2
      /\ latest' = [type |-> type, value |-> value]
    BY <1>3 DEF Given, Quiet
<1>5. tasks = <<e>> /\ MobileEntries(tasks) = {e}
    <2>1. MobileEntries(tasks) = {e}
        <3>1. \A x, y \in MobileEntries(tasks) : x = y
            <4>1. \A j \in DOMAIN tasks : j = 1
                BY <1>2, <1>4, ListEntries
            <4> QED
                BY <4>1 DEF MobileEntries
        <3> QED
            BY <1>2, <3>1
    <2> QED
        BY <1>2, <2>1, SingleIs
<1>6. /\ type \in AnyType /\ type # "create" /\ ValueOf(type, value)
      /\ type = "lifecycle" => CanMove(e.task, value)
      /\ e.id = "local" => "local" \in PhoneIdentities
      /\ e.id \in {"local", "remote"}
    BY <1>2, <1>3, EntryFields DEF AnyType, CommandTypes, ValueOf, MayCommand, Sound
<1>7. PhoneIdentities' = PhoneIdentities /\ flight' = {}
    BY <1>2, <1>3, <1>4, KeptDisturbed DEF PhoneIdentities
<1>8. ListInv' /\ shown \subseteq shown'
    <2>1. PartsInv'
        BY CommandParts
    <2>2. shown \subseteq shown'
        BY <1>1 DEF Command, Disturbs, Persists, Shows
    <2> QED
        BY <2>1, <2>2 DEF PartsInv
<1>9. PICK m : m = Marked(e, type, value)
    OBVIOUS
<1>10. tasks' = Upserted(tasks, m) => MobileEntries(tasks') = {m} /\ Keeps(tasks', latest') /\ m.id = e.id
    <2> SUFFICES ASSUME tasks' = Upserted(tasks, m)
                 PROVE  MobileEntries(tasks') = {m} /\ Keeps(tasks', latest') /\ m.id = e.id
        OBVIOUS
    <2>1. e.id = "local" => type \in {"update", "schedule"}
        BY <1>3 DEF CommandTypes
    <2>2. /\ m \in ListEntry /\ m.id = e.id /\ HasIt(m, [type |-> type, value |-> value])
        BY <1>2, <1>6, <1>9, <2>1, MarkedIs
    <2>3. MobileEntries(tasks') = {m} \cup {x \in MobileEntries(tasks) : x.id # m.id}
        BY <1>2, <2>2, UpsertedIs
    <2>4. MobileEntries(tasks') = {m}
        BY <1>5, <2>2, <2>3
    <2> QED
        BY <1>4, <2>2, <2>4 DEF Keeps
<1>11. CASE type # "schedule" /\ e.id = "local"
    <2>1. tasks' = Upserted(tasks, m) /\ saved' = tasks' /\ handlers' = Append(handlers, Returned)
        BY <1>1, <1>3, <1>9, <1>11 DEF Command, Disturbs, Persists, Shows
    <2>2. Running' = {}
        BY <1>2, <1>3, <1>4, <1>7, <1>8, <2>1, HandlerAppended
    <2> QED
        BY <1>4, <1>7, <1>10, <2>1, <2>2 DEF LatestInv, Unsaved
<1>12. CASE type = "schedule" \/ e.id # "local"
    <2>1. PICK at, h : /\ at = IF type = "schedule" THEN "reminder" ELSE "asking"
                       /\ h = Handler(at, type, value, e)
        OBVIOUS
    <2>2. handlers' = Append(handlers, h)
        BY <1>1, <1>12, <2>1 DEF Command, Disturbs
    <2>3. /\ HandlerOK(h, PhoneIdentities, shown) /\ h.at = at /\ h.type = type
          /\ h.value = value /\ h.entry = e /\ h.reply.status = Unset
          /\ type = "update" => h.list = tasks
        <3>1. at \in {"reminder", "asking"} /\ (at = "reminder" => type = "schedule")
              /\ (at = "asking" => (type = "create" <=> e.id = "local"))
            BY <1>6, <1>12, <2>1
        <3> QED
            BY <1>2, <1>6, <2>1, <3>1, HandlerIs
    <2>4. /\ Running' = {Len(handlers')} /\ handlers'[Len(handlers')] = h
        <3>1. HandlerOK(h, PhoneIdentities', shown')
            BY <1>7, <1>8, <2>3, MoreIdentities
        <3>2. h # Returned
            BY <2>1, <2>3 DEF Returned
        <3> QED
            BY <1>2, <1>3, <1>4, <1>7, <1>8, <2>2, <3>1, <3>2, HandlerAppended
    <2>5. Followed(h, latest')
        BY <1>4, <2>3 DEF Followed, Unset
    <2>6. CASE type \in {"schedule", "update", "delete"}
        <3>1. tasks' = tasks
            BY <1>1, <1>6, <1>12, <2>6 DEF Command, Disturbs
        <3>2. Unsaved'
            BY <2>1, <2>3, <2>4, <2>6 DEF Unsaved
        <3>3. Waits(h, tasks')
            BY <1>5, <2>3, <3>1 DEF Waits
        <3>4. at # "reminder" => NoLocal'
            BY <1>5, <1>6, <1>7, <1>12, <2>1, <3>1 DEF NoLocal, AllRemote
        <3> QED
            BY <1>4, <1>7, <2>3, <2>4, <2>5, <3>2, <3>3, <3>4 DEF LatestInv
    <2>7. CASE type = "lifecycle"
        <3>1. tasks' = Upserted(tasks, m) /\ saved' = tasks'
            BY <1>1, <1>9, <2>7 DEF Command, Disturbs, Persists, Shows
        <3>2. ~Unsaved'
            BY <2>1, <2>3, <2>4, <2>7 DEF Unsaved
        <3>3. NoLocal'
            BY <1>6, <1>7, <1>10, <1>12, <2>7, <3>1 DEF NoLocal, AllRemote
        <3> QED
            BY <1>4, <1>7, <1>10, <2>4, <2>5, <3>1, <3>2, <3>3 DEF LatestInv
    <2> QED
        BY <2>6, <2>7 DEF CommandTypes
<1> QED
    BY <1>11, <1>12

LEMMA ReminderLatest ==
    ASSUME PartsInv, LatestInv, NEW n \in DOMAIN handlers, ReminderIsSet(n)
    PROVE  LatestInv'
<1>1. PICK h, e : h = handlers[n] /\ e = h.entry
    OBVIOUS
<1>2. HandlersInv /\ FlightsInv /\ GoodList(tasks, PhoneIdentities) /\ IsList(tasks)
    BY TasksAre DEF PartsInv
<1>3. PICK g : g = IF e.id = "local" THEN Returned ELSE [h EXCEPT !.at = "asking"]
    OBVIOUS
<1>4. /\ h.at = "reminder" /\ tasks' = Upserted(tasks, Marked(e, "schedule", h.value))
      /\ handlers' = [handlers EXCEPT ![n] = g]
      /\ flight' = Disturbed /\ latest' = latest
      /\ remote' = remote /\ creation' = creation /\ shown \subseteq shown'
    BY <1>1, <1>3 DEF ReminderIsSet, Disturbs, Persists, Shows
<1> SUFFICES ASSUME latest # Closed
             PROVE  LatestInv'
    BY <1>4 DEF LatestInv
<1>5. n \in Running /\ HandlerOK(h, PhoneIdentities, shown)
    <2>1. n \in Running
        BY <1>1, <1>4 DEF Running
    <2> QED
        BY <1>1, <1>2, <2>1, HandlersFacts
<1>6. /\ n = Len(handlers) /\ Running = {n} /\ Followed(h, latest)
    BY <1>1, <1>5 DEF LatestInv
<1>7. Unsaved
    BY <1>1, <1>4, <1>6 DEF Unsaved
<1>8. flight = {} /\ tasks = <<e>>
    BY <1>1, <1>5, <1>7 DEF LatestInv, Waits
<1>9. /\ h \in HandlerRec /\ h.type = "schedule" /\ ValueOf("schedule", h.value)
      /\ e \in ListEntry /\ e.id \in {"local", "remote"}
      /\ e.id = "local" => "local" \in PhoneIdentities
    <2>1. h \in HandlerRec /\ h.type = "schedule" /\ ValueOf(h.type, h.value) /\ Sound(e, PhoneIdentities)
        BY <1>1, <1>4, <1>5 DEF HandlerOK
    <2>2. e \in ListEntry
        BY <1>1, <2>1 DEF HandlerRec
    <2> QED
        BY <2>1, <2>2, EntryFields DEF Sound
<1>10. PICK value, m : value = h.value /\ m = Marked(e, "schedule", value)
    OBVIOUS
<1>11. m \in ListEntry /\ m.id = e.id /\ HasIt(m, [type |-> "schedule", value |-> value])
    <2>1. "schedule" \in CommandTypes /\ ValueOf("schedule", value)
        BY <1>9, <1>10 DEF CommandTypes
    <2>2. PICK type : type = "schedule"
        OBVIOUS
    <2>3. m = Marked(e, type, value) /\ type \in CommandTypes /\ ValueOf(type, value)
        BY <1>10, <2>1, <2>2
    <2>4. m \in ListEntry /\ m.id = e.id /\ HasIt(m, [type |-> type, value |-> value])
        BY <1>9, <2>2, <2>3, MarkedIs
    <2> QED
        BY <2>2, <2>4
<1>12. MobileEntries(tasks') = {m}
    <2>1. MobileEntries(tasks) = {e}
        BY <1>8, EntriesOfOne
    <2>2. MobileEntries(Upserted(tasks, m)) = {m} \cup {x \in MobileEntries(tasks) : x.id # m.id}
        BY <1>2, <1>11, UpsertedIs
    <2> QED
        BY <1>4, <1>10, <1>11, <2>1, <2>2
<1>13. Keeps(tasks', latest')
    <2>1. latest = [type |-> "schedule", value |-> value]
        BY <1>6, <1>9, <1>10, CommandFields DEF Followed, PartsInv, ServerInv
    <2> QED
        BY <1>4, <1>11, <1>12, <2>1 DEF Keeps
<1>14. flight' = {}
    BY <1>2, <1>4, <1>8, KeptDisturbed
<1>15. CASE e.id = "local"
    <2>1. g = Returned
        BY <1>3, <1>15
    <2>2. Running' = {}
        <3>1. PhoneIdentities' = PhoneIdentities
            BY <1>4 DEF PhoneIdentities
        <3> QED
            BY <1>2, <1>4, <1>6, <2>1, <3>1, HandlerPut
    <2> QED
        BY <1>4, <1>13, <1>14, <2>2 DEF LatestInv, Unsaved
<1>16. CASE e.id # "local"
    <2>1. /\ g \in HandlerRec /\ g.at = "asking" /\ g.type = h.type /\ g.value = h.value
          /\ g.entry = h.entry /\ g.reply = h.reply /\ g.list = h.list
        <3>1. g = [h EXCEPT !.at = "asking"]
            BY <1>3, <1>16
        <3> QED
            BY <1>9, <3>1 DEF HandlerRec
    <2>2. g # Returned
        BY <2>1 DEF Returned
    <2>3. Running' = {n} /\ handlers'[n] = g /\ Len(handlers') = Len(handlers)
        <3>1. Len(handlers') = Len(handlers) /\ DOMAIN handlers' = DOMAIN handlers
              /\ \A k \in DOMAIN handlers : handlers'[k] = IF k = n THEN g ELSE handlers[k]
            BY <1>2, <1>4 DEF HandlersInv
        <3> QED
            BY <1>6, <2>1, <3>1 DEF Running
    <2>4. ~Unsaved'
        BY <1>9, <2>1, <2>3 DEF Unsaved
    <2>5. Followed(g, latest')
        BY <1>4, <1>6, <2>1 DEF Followed
    <2>6. NoLocal'
        BY <1>9, <1>11, <1>12, <1>14, <1>16 DEF NoLocal, AllRemote
    <2> QED
        BY <1>4, <1>6, <1>13, <1>14, <2>3, <2>4, <2>5, <2>6 DEF LatestInv
<1> QED
    BY <1>15, <1>16

LEMMA AnsweredLatest ==
    ASSUME PartsInv, LatestInv, NEW n \in DOMAIN handlers, HandlerIsAnswered(n)
    PROVE  LatestInv'
<1>1. PICK h : h = handlers[n]
    OBVIOUS
<1>2. ServerInv /\ HandlersInv /\ FlightsInv
    BY DEF PartsInv
<1>3. /\ h.at = "asking" /\ flight' = Disturbed /\ tasks' = tasks
    BY <1>1 DEF HandlerIsAnswered, Disturbs
<1>4. PICK outcome \in Outcomes(CallOf(h)) :
        /\ Takes(CallOf(h), outcome)
        /\ handlers' = [handlers EXCEPT ![n] =
                [h EXCEPT !.at = "answered", !.reply = Reply(outcome.status, remote'.task)]]
    BY <1>1 DEF HandlerIsAnswered, Disturbs
<1>5. n \in Running /\ HandlerOK(h, PhoneIdentities, shown)
    <2>1. n \in Running
        BY <1>1, <1>3 DEF Running
    <2> QED
        BY <1>1, <1>2, <2>1, HandlersFacts
<1>6. PICK call : call = CallOf(h)
    OBVIOUS
<1>7. CallOK(call, PhoneIdentities, shown) /\ call.type = h.type /\ call.value = h.value
    BY <1>3, <1>5, <1>6, CallOfIs
<1> SUFFICES ASSUME latest' # Closed
             PROVE  LatestInv'
    BY DEF LatestInv
<1>8. latest' = latest /\ latest # Closed
    BY <1>2, <1>4, <1>6, <1>7, TakesIs
<1>9. /\ n = Len(handlers) /\ Running = {n} /\ Followed(h, latest)
    BY <1>1, <1>5, <1>8 DEF LatestInv
<1>10. outcome.status # "ok"
    <2> SUFFICES ASSUME outcome.status = "ok"
                 PROVE  FALSE
        OBVIOUS
    <2>1. outcome.taken /\ Status(call) = "ok"
        BY <1>4, <1>6, OutcomeIs
    <2>2. Carries(call)
        BY <1>7, <1>9 DEF Carries, Followed
    <2> QED
        BY <1>2, <1>4, <1>6, <1>7, <2>1, <2>2, TakesIs
<1>11. PICK reply, g : /\ reply = Reply(outcome.status, remote'.task)
                       /\ g = [h EXCEPT !.at = "answered", !.reply = reply]
    OBVIOUS
<1>12. reply.status # "ok"
    BY <1>10, <1>11 DEF Reply
<1>13. h \in HandlerRec
    BY <1>5 DEF HandlerOK
<1>14. /\ g.at = "answered" /\ g.type = h.type /\ g.value = h.value
       /\ g.entry = h.entry /\ g.reply = reply /\ g.list = h.list
    BY <1>11, <1>13 DEF HandlerRec
<1>15. Running' = {n} /\ handlers'[n] = g /\ Len(handlers') = Len(handlers)
    <2>1. Len(handlers') = Len(handlers) /\ DOMAIN handlers' = DOMAIN handlers
          /\ \A k \in DOMAIN handlers : handlers'[k] = IF k = n THEN g ELSE handlers[k]
        BY <1>2, <1>4, <1>11 DEF HandlersInv
    <2> QED
        BY <1>9, <1>14, <2>1 DEF Running
<1>16. Unsaved' <=> Unsaved
    BY <1>1, <1>3, <1>9, <1>14, <1>15 DEF Unsaved
<1>17. Followed(g, latest')
    BY <1>8, <1>9, <1>12, <1>14 DEF Followed
<1>18. Unsaved => Waits(g, tasks')
    BY <1>1, <1>3, <1>5, <1>8, <1>14 DEF LatestInv, Waits
<1>19. g.type # "create" => NoLocal'
    <2>1. h.type # "create" => NoLocal
        BY <1>1, <1>3, <1>5, <1>8 DEF LatestInv
    <2> QED
        BY <1>2, <1>3, <1>14, <2>1, KeptDisturbed DEF NoLocal
<1>20. /\ Unsaved => flight' = {}
       /\ ~Unsaved => Keeps(tasks', latest')
       /\ \A f \in flight' : FlightKeeps(f, latest')
    BY <1>2, <1>3, <1>8, KeptDisturbed DEF LatestInv
<1> QED
    BY <1>9, <1>15, <1>16, <1>17, <1>18, <1>19, <1>20 DEF LatestInv

LEMMA EndsLatest ==
    ASSUME PartsInv, PartsInv', LatestInv, NEW n \in DOMAIN handlers, HandlerEnds(n)
    PROVE  LatestInv'
<1>1. PICK h, list : h = handlers[n] /\ list = Replied(h)
    OBVIOUS
<1>2. /\ HandlersInv /\ FlightsInv /\ GoodList(tasks, PhoneIdentities)
      /\ \A x \in MobileEntries(tasks) : x \in ListEntry /\ Sound(x, PhoneIdentities)
    BY TasksAre DEF PartsInv
<1>3. /\ h.at = "answered" /\ tasks' = list
      /\ handlers' = [handlers EXCEPT ![n] = Returned]
      /\ flight' = Disturbed \/ Retries(list)
      /\ remote' = remote /\ creation' = creation /\ latest' = latest /\ shown \subseteq shown'
    BY <1>1 DEF HandlerEnds, Disturbs, Persists, Shows
<1> SUFFICES ASSUME latest # Closed
             PROVE  LatestInv'
    BY <1>3 DEF LatestInv
<1>4. n \in Running /\ HandlerOK(h, PhoneIdentities, shown)
    <2>1. n \in Running
        BY <1>1, <1>3 DEF Running
    <2> QED
        BY <1>1, <1>2, <2>1, HandlersFacts
<1>5. /\ n = Len(handlers) /\ Running = {n} /\ Followed(h, latest)
    BY <1>1, <1>4 DEF LatestInv
<1>6. latest = [type |-> h.type, value |-> h.value] /\ latest.type \in AnyType
    BY <1>5, CommandFields DEF Followed, PartsInv, ServerInv
<1>7. /\ h.entry \in ListEntry /\ Sound(h.entry, PhoneIdentities)
      /\ h.type = "create" <=> h.entry.id = "local"
      /\ h.type = "create" => h.entry.sync = "create" /\ h.entry.task.payload = h.value
    BY <1>3, <1>4 DEF HandlerOK, HandlerRec, Sound
<1>8. PICK e \in ListEntry, from \in {tasks, h.list} :
        /\ MobileEntries(list) = {e} \cup {x \in MobileEntries(from) : x.id # e.id}
        /\ from # tasks => h.type = "update"
        /\ e.id = h.entry.id
        /\ h.type = "create" => e = h.entry
        /\ h.type # "create" => HasIt(e, [type |-> h.type, value |-> h.value])
    <2>1. h.reply.status # "ok"
        BY <1>5 DEF Followed
    <2> QED
        BY <1>1, <1>2, <1>3, <1>4, <2>1, RepliedIs
<1>9. HasIt(e, latest)
    <2>1. CASE h.type = "create"
        BY <1>6, <1>7, <1>8, <2>1 DEF HasIt
    <2>2. CASE h.type # "create"
        BY <1>6, <1>8, <2>2
    <2> QED
        BY <2>1, <2>2
<1>10. Keeps(list, latest)
    <2>1. CASE Unsaved
        <3>1. Waits(h, tasks)
            BY <1>1, <1>4, <2>1 DEF LatestInv
        <3>2. from = tasks /\ tasks = <<h.entry>>
            BY <1>8, <3>1 DEF Waits
        <3>3. MobileEntries(list) = {e}
            <4>1. MobileEntries(tasks) = {h.entry}
                BY <3>2, EntriesOfOne
            <4> QED
                BY <1>8, <3>2, <4>1
        <3> QED
            BY <1>9, <3>3 DEF Keeps
    <2>2. CASE ~Unsaved
        <3>1. Keeps(tasks, latest)
            BY <2>2 DEF LatestInv
        <3>2. h.type \notin {"update", "delete"}
            BY <1>1, <1>5, <2>2 DEF Unsaved
        <3>3. from = tasks
            BY <1>8, <3>2
        <3>4. CASE h.type = "create"
            <4>1. PICK k \in MobileEntries(tasks) :
                    /\ HasIt(k, latest)
                    /\ \A x \in MobileEntries(tasks) \ {k} : x.sync = "synced"
                BY <3>1 DEF Keeps
            <4>2. k.id = "local"
                <5>1. k.sync = "create"
                    BY <1>6, <3>4, <4>1 DEF HasIt
                <5> QED
                    BY <1>2, <5>1 DEF Sound
            <4>3. e.id = "local"
                BY <1>7, <1>8, <3>4
            <4> QED
                BY <1>8, <1>9, <3>3, <4>1, <4>2, <4>3 DEF Keeps
        <3>5. CASE h.type # "create"
            <4>1. AllRemote(tasks)
                BY <1>1, <1>3, <1>4, <3>5 DEF LatestInv, NoLocal
            <4>2. e.id = "remote"
                BY <1>7, <1>8, <3>5, EntryFields
            <4>3. MobileEntries(list) = {e}
                BY <1>8, <3>3, <4>1, <4>2 DEF AllRemote
            <4> QED
                BY <1>9, <4>3 DEF Keeps
        <3> QED
            BY <3>4, <3>5
    <2> QED
        BY <2>1, <2>2
<1>11. \A g \in flight' : FlightKeeps(g, latest)
    <2>1. \A f \in flight : FlightKeeps(f, latest)
        BY DEF LatestInv
    <2>2. SeenList(list, PhoneIdentities', shown')
        BY <1>3 DEF PartsInv, ListInv
    <2> QED
        BY <1>2, <1>3, <1>10, <2>1, <2>2, KeptDisturbed, KeptRetried
<1>12. Running' = {}
    <2>1. PhoneIdentities' = PhoneIdentities
        BY <1>3 DEF PhoneIdentities
    <2> QED
        BY <1>2, <1>3, <1>5, <2>1, HandlerPut
<1> QED
    BY <1>3, <1>10, <1>11, <1>12 DEF LatestInv, Unsaved

LEMMA ResolveLatest ==
    ASSUME PartsInv, PartsInv', LatestInv, NEW i \in DOMAIN tasks, ResolveLocal(tasks[i])
    PROVE  LatestInv'
<1>1. PICK e, r, list : e = tasks[i] /\ r = Rebased(e) /\ list = Upserted(tasks, r)
    OBVIOUS
<1>2. /\ FlightsInv /\ GoodList(tasks, PhoneIdentities) /\ IsList(tasks)
      /\ e \in ListEntry /\ Sound(e, PhoneIdentities) /\ e \in MobileEntries(tasks)
      /\ CommandOK(latest)
    BY <1>1, TasksAre DEF PartsInv, ServerInv
<1>3. /\ e.sync = "conflict" /\ tasks' = list /\ Retries(list)
      /\ latest' = Exposed /\ handlers' = handlers
    BY <1>1 DEF ResolveLocal, Persists, Shows
<1> SUFFICES ASSUME latest' # Closed
             PROVE  LatestInv'
    BY DEF LatestInv
<1>4. ~Unsaved /\ latest' = latest /\ latest # Closed
    BY <1>3 DEF Exposed
<1>5. latest.type \in AnyType
    BY <1>2, <1>4, CommandFields
<1>6. HasIt(e, latest) /\ \A x \in MobileEntries(tasks) \ {e} : x.sync = "synced"
    <2>1. PICK k \in MobileEntries(tasks) :
            HasIt(k, latest) /\ \A x \in MobileEntries(tasks) \ {k} : x.sync = "synced"
        BY <1>4 DEF LatestInv, Keeps
    <2>2. e = k
        BY <1>2, <1>3, <2>1
    <2> QED
        BY <2>1, <2>2
<1>7. r \in ListEntry /\ r.id = "remote" /\ e.id = "remote" /\ HasIt(r, latest)
    BY <1>1, <1>2, <1>3, <1>5, <1>6, RebasedIs
<1>8. MobileEntries(list) = {r} \cup {x \in MobileEntries(tasks) : x.id # r.id}
    BY <1>1, <1>2, <1>7, UpsertedIs
<1>9. Keeps(list, latest)
    BY <1>6, <1>7, <1>8 DEF Keeps
<1>10. SeenList(list, PhoneIdentities', shown')
    BY <1>3 DEF PartsInv, ListInv
<1>11. NoLocal => NoLocal'
    <2>1. NoLocal => AllRemote(list)
        BY <1>7, <1>8 DEF NoLocal, AllRemote
    <2> QED
        BY <1>2, <1>3, <1>10, <2>1, KeptRetried
<1>12. \A g \in flight' : FlightKeeps(g, latest)
    <2>1. \A f \in flight : FlightKeeps(f, latest)
        BY <1>4 DEF LatestInv
    <2> QED
        BY <1>2, <1>3, <1>9, <1>10, <2>1, KeptRetried
<1> QED
    BY <1>3, <1>4, <1>9, <1>11, <1>12, LatestListed

LEMMA SyncLatest ==
    ASSUME PartsInv, PartsInv', LatestInv, Sync
    PROVE  LatestInv'
<1>1. /\ flight = {} /\ Retries(tasks) /\ latest' = Exposed
      /\ tasks' = tasks /\ handlers' = handlers
    BY DEF Sync
<1>2. Retries(tasks) /\ FlightsInv /\ SeenList(tasks, PhoneIdentities', shown')
    BY <1>1 DEF PartsInv, ListInv
<1> SUFFICES ASSUME latest' # Closed
             PROVE  LatestInv'
    BY DEF LatestInv
<1>3. ~Unsaved /\ latest' = latest /\ latest # Closed
    BY <1>1 DEF Exposed
<1>4. Keeps(tasks, latest)
    BY <1>3 DEF LatestInv
<1>5. \A g \in flight' : FlightKeeps(g, latest)
    <2>1. \A f \in flight : FlightKeeps(f, latest)
        BY <1>1
    <2> QED
        BY <1>1, <1>2, <1>4, <2>1, KeptRetried
<1>6. NoLocal => NoLocal'
    BY <1>1, <1>2, KeptRetried DEF NoLocal
<1> QED
    BY <1>1, <1>3, <1>4, <1>5, <1>6, LatestListed

LEMMA RestartLatest ==
    ASSUME PartsInv, PartsInv', StartParts, StartKept, Restart
    PROVE  LatestInv'
<1>1. latest' = Exposed /\ tasks' = saved /\ Running' = {}
    BY RestartParts DEF Restart, Shows
<1> SUFFICES ASSUME latest' # Closed
             PROVE  LatestInv'
    BY DEF LatestInv
<1>2. ~Unsaved /\ latest' = latest /\ latest # Closed
    BY <1>1 DEF Exposed
<1>3. Keeps(saved, latest)
    BY <1>2 DEF StartKept
<1>4. PICK f, calm, g, boot :
        /\ boot \in BOOLEAN /\ boot = TRUE
        /\ f = NewFlight(saved, boot) /\ calm = (stray' = {}) /\ g = [f EXCEPT !.calm = calm]
    OBVIOUS
<1>5. flight' = {g}
    BY <1>4 DEF Restart
<1>6. g.stage = "fetch" /\ g.snapshot = saved
    <2>1. SeenList(saved, PhoneIdentities', shown')
        BY <1>1 DEF PartsInv, ListInv
    <2>2. boot \in BOOLEAN /\ f = NewFlight(saved, boot)
        BY <1>4
    <2>3. FlightOK(f, PhoneIdentities', shown') /\ f.stage = "fetch" /\ f.snapshot = saved
        BY <2>1, <2>2, NewFlightIs
    <2>4. f \in FlightRec
        BY <2>3 DEF FlightOK
    <2> QED
        BY <1>4, <2>3, <2>4 DEF FlightRec
<1>7. FlightKeeps(g, latest)
    BY <1>3, <1>6 DEF FlightKeeps
<1>8. ~Unsaved'
    BY <1>1 DEF Unsaved
<1> QED
    BY <1>1, <1>2, <1>3, <1>5, <1>7, <1>8 DEF LatestInv

\* What is kept in the snapshot of a flight is pending in it, or in a conflict.
LEMMA FetchedIs ==
    ASSUME PartsInv, NEW list, SeenList(list, PhoneIdentities, shown),
           NEW command, CommandOK(command), command # Closed, Keeps(list, command),
           NEW resolved, resolved = FromServer(list), NEW todo, todo = PendingIn(list)
    PROVE  /\ AllRemote(resolved) /\ (AllRemote(list) => AllRemote(todo))
           /\ \/ todo = <<>> /\ Keeps(resolved, command)
              \/ AllSynced(resolved) /\ Len(todo) = 1 /\ HasIt(todo[1], command)
<1>1. /\ GoodList(list, PhoneIdentities) /\ IsList(list) /\ remote.task \in Task
      /\ \A x \in MobileEntries(list) : x \in ListEntry /\ Sound(x, PhoneIdentities)
    BY ListEntries DEF SeenList, GoodList, PartsInv, ServerInv
<1>2. IsList(todo) /\ MobileEntries(todo) = {x \in MobileEntries(list) : IsPending(x)}
    <2>1. \A x \in MobileEntries(list) : ~IsPending(x) => x.id = "remote"
        BY <1>1, EntryFields DEF IsPending, Sound
    <2> QED
        BY <1>1, <2>1, PendingIs
<1>3. AllRemote(list) => AllRemote(todo)
    BY <1>2 DEF AllRemote
<1>4. /\ AllRemote(resolved)
      /\ \/ /\ \A x \in MobileEntries(list) : x.sync # "conflict"
            /\ MobileEntries(resolved) =
                    IF remote.kind = "live" THEN {Synced(remote.task)} ELSE {}
         \/ \E x \in MobileEntries(list), y \in ListEntry :
                /\ x.sync = "conflict" /\ MobileEntries(resolved) = {y}
                /\ y.sync = "conflict" /\ y.intent = x.intent
    BY <1>1, FromServerIs DEF AllRemote
<1>5. PICK k \in MobileEntries(list) :
        HasIt(k, command) /\ \A x \in MobileEntries(list) \ {k} : x.sync = "synced"
    BY DEF Keeps
<1>6. k.sync # "synced"
    BY <1>5, CommandFields, HasItUnsynced
<1>7. CASE k.sync = "conflict"
    <2>1. todo = <<>>
        <3>1. MobileEntries(todo) = {}
            BY <1>2, <1>5, <1>7 DEF IsPending
        <3> QED
            BY <1>2, <3>1, EntriesOfNone DEF IsList
    <2>2. PICK x \in MobileEntries(list), y \in ListEntry :
            /\ x.sync = "conflict" /\ MobileEntries(resolved) = {y}
            /\ y.sync = "conflict" /\ y.intent = x.intent
        BY <1>4, <1>7
    <2>3. x = k
        BY <1>5, <2>2
    <2>4. HasIt(y, command)
        BY <1>5, <2>2, <2>3, ConflictHasIt
    <2> QED
        BY <1>3, <1>4, <2>1, <2>2, <2>4 DEF Keeps
<1>8. CASE k.sync # "conflict"
    <2>1. MobileEntries(todo) = {k}
        BY <1>2, <1>5, <1>6, <1>8 DEF IsPending
    <2>2. Len(todo) = 1 /\ todo[1] = k
        BY <1>2, <2>1, SingleIs
    <2>3. AllSynced(resolved)
        <3>1. Synced(remote.task).sync = "synced"
            BY <1>1, SyncedIs
        <3>2. MobileEntries(resolved) =
                    IF remote.kind = "live" THEN {Synced(remote.task)} ELSE {}
            BY <1>4, <1>5, <1>8
        <3> QED
            BY <3>1, <3>2 DEF AllSynced
    <2> QED
        BY <1>3, <1>4, <1>5, <2>2, <2>3
<1> QED
    BY <1>7, <1>8

\* A flight is about a command that its handler has put into the list.
LEMMA FlownIs ==
    ASSUME LatestInv, latest # Closed, NEW f \in flight
    PROVE  ~Unsaved /\ Keeps(tasks, latest) /\ FlightKeeps(f, latest)
    BY DEF LatestInv

LEMMA FetchesLatest ==
    ASSUME PartsInv, LatestInv, NEW f \in flight, FlightFetches(f)
    PROVE  LatestInv'
<1>1. PICK g, resolved, todo :
        /\ resolved = FromServer(f.snapshot) /\ todo = PendingIn(f.snapshot)
        /\ g = [f EXCEPT !.stage = "reconcile", !.snapshot = <<>>, !.resolved = resolved,
                         !.todo = todo]
    OBVIOUS
<1>2. /\ f.stage = "fetch" /\ flight' = {g} /\ tasks' = tasks /\ handlers' = handlers
      /\ latest' = latest
    BY <1>1 DEF FlightFetches
<1> SUFFICES ASSUME latest # Closed
             PROVE  LatestInv'
    BY <1>2 DEF LatestInv
<1>3. /\ f \in FlightRec /\ f.followUp = <<>>
      /\ SeenList(f.snapshot, PhoneIdentities, shown) /\ CommandOK(latest)
    BY <1>2 DEF PartsInv, ServerInv, FlightsInv, FlightOK
<1>4. ~Unsaved /\ Keeps(tasks, latest) /\ Keeps(f.snapshot, latest)
    BY <1>2, FlownIs DEF FlightKeeps
<1>5. /\ AllRemote(resolved) /\ (AllRemote(f.snapshot) => AllRemote(todo))
      /\ \/ todo = <<>> /\ Keeps(resolved, latest)
         \/ AllSynced(resolved) /\ Len(todo) = 1 /\ HasIt(todo[1], latest)
    <2>1. PICK snapshot : snapshot = f.snapshot
        OBVIOUS
    <2> QED
        BY <1>1, <1>3, <1>4, <2>1, FetchedIs
<1>6. /\ g.stage = "reconcile" /\ g.snapshot = <<>> /\ g.resolved = resolved
      /\ g.todo = todo /\ g.followUp = <<>>
    BY <1>1, <1>3 DEF FlightRec
<1>7. FlightKeeps(g, latest)
    BY <1>5, <1>6 DEF FlightKeeps
<1>8. NoLocal => NoLocal'
    <2>1. AllRemote(<<>>)
        BY EntriesOfNone DEF AllRemote
    <2> QED
        BY <1>2, <1>5, <1>6, <2>1 DEF NoLocal
<1> QED
    BY <1>2, <1>4, <1>7, <1>8, LatestListed

LEMMA FailsLatest ==
    ASSUME PartsInv, LatestInv, NEW f \in flight, FlightFails(f)
    PROVE  LatestInv'
<1>1. flight' = {} /\ handlers' = handlers /\ latest' = latest /\ tasks' = tasks
    BY DEF FlightFails
<1> SUFFICES ASSUME latest # Closed
             PROVE  LatestInv'
    BY <1>1 DEF LatestInv
<1>2. ~Unsaved /\ Keeps(tasks, latest)
    BY FlownIs
<1>3. NoLocal => NoLocal'
    BY <1>1 DEF NoLocal
<1> QED
    BY <1>1, <1>2, <1>3, LatestListed

\* What a flight that is to end has.
LEMMA ResolvedKeeps ==
    ASSUME LatestInv, latest # Closed, NEW f \in flight, FlightEnds(f)
    PROVE  ~Unsaved /\ Keeps(tasks, latest) /\ Keeps(f.resolved, latest)
<1>1. f.stage = "reconcile" /\ Len(f.todo) = 0 /\ Len(f.followUp) = 0
    BY DEF FlightEnds
<1> QED
    BY <1>1, FlownIs DEF FlightKeeps

LEMMA FlightEndsLatest ==
    ASSUME PartsInv, LatestInv, NEW f \in flight, FlightEnds(f)
    PROVE  LatestInv'
<1>1. /\ flight' = {} /\ handlers' = handlers /\ latest' = latest
      /\ tasks' = tasks \/ tasks' = f.resolved
    BY DEF FlightEnds, Persists, Shows
<1> SUFFICES ASSUME latest # Closed
             PROVE  LatestInv'
    BY <1>1 DEF LatestInv
<1>2. ~Unsaved /\ Keeps(tasks, latest) /\ Keeps(f.resolved, latest)
    BY ResolvedKeeps
<1>3. NoLocal /\ tasks' = tasks => NoLocal'
    BY <1>1 DEF NoLocal
<1>4. \A n \in Running : handlers[n].at # "reminder" /\ handlers[n].type # "create" =>
        AllRemote(f.resolved)
    BY DEF LatestInv, NoLocal
<1>5. AllRemote(f.resolved) /\ tasks' = f.resolved => NoLocal'
    BY <1>1 DEF NoLocal
<1>6. Running' = Running /\ (Unsaved' <=> Unsaved)
    BY <1>1 DEF Running, Unsaved
<1> QED
    BY <1>1, <1>2, <1>3, <1>4, <1>5, <1>6 DEF LatestInv

\* Nothing is on its way when the start of the app places its list, unless the
\* latest command is not followed.
LEMMA BootPlacesLatest ==
    ASSUME PartsInv, LatestInv, StartKept, NEW p \in placing, BootPlaces(p)
    PROVE  LatestInv'
<1>1. flight' = flight /\ handlers' = handlers /\ latest' = latest /\ tasks' = p.list
    BY DEF BootPlaces, Shows
<1> SUFFICES ASSUME latest # Closed
             PROVE  LatestInv'
    BY <1>1 DEF LatestInv
<1>2. Keeps(p.list, latest) /\ Running = {}
    BY DEF StartKept
<1>3. Running' = {} /\ ~Unsaved'
    BY <1>1, <1>2 DEF Running, Unsaved
<1>4. Keeps(tasks', latest) /\ \A f \in flight' : FlightKeeps(f, latest)
    BY <1>1, <1>2 DEF LatestInv
<1> QED
    BY <1>1, <1>3, <1>4 DEF LatestInv

LEMMA ReconcilesLatest ==
    ASSUME PartsInv, LatestInv, NEW f \in flight, FlightReconciles(f)
    PROVE  LatestInv'
<1>1. /\ ServerInv /\ FlightsInv /\ CommandOK(latest)
    BY DEF PartsInv, ServerInv
<1>2. PICK e, call : e = Head(f.todo) /\ call = PendingCall(e, f.resolved)
    OBVIOUS
<1>3. /\ f.stage = "reconcile" /\ f.followUp = <<>> /\ f.todo # <<>>
      /\ handlers' = handlers /\ tasks' = tasks
    BY DEF FlightReconciles
<1>4. PICK outcome, g :
        /\ outcome \in Outcomes(call) /\ Takes(call, outcome) /\ flight' = {g}
        /\ NeedsFollowUp(e, outcome.status) =>
             g = [f EXCEPT !.todo = Tail(@),
                           !.followUp = <<[Synced(remote'.task) EXCEPT !.intent = e.intent]>>]
        /\ ~NeedsFollowUp(e, outcome.status) =>
             g = [f EXCEPT !.todo = Tail(@), !.calm = @ /\ outcome.status # "lost",
                           !.resolved = Reconciled(@, e, outcome.status, remote'.task)]
    BY <1>2 DEF FlightReconciles
<1>5. /\ FlightOK(f, PhoneIdentities, shown) /\ f \in FlightRec
      /\ GoodList(f.resolved, PhoneIdentities)
    BY <1>1 DEF FlightsInv, FlightOK
<1>6. PICK resolved, item, status, tail :
        /\ resolved = f.resolved /\ item = remote'.task /\ status = outcome.status
        /\ tail = Tail(f.todo)
    OBVIOUS
<1>7. /\ e \in ListEntry /\ Sound(e, PhoneIdentities) /\ Seen(e, shown) /\ IsPending(e)
      /\ e = f.todo[1] /\ e \in MobileEntries(f.todo)
      /\ MobileEntries(tail) \subseteq MobileEntries(f.todo)
      /\ Len(f.todo) = 1 => tail = <<>>
    BY <1>2, <1>3, <1>5, <1>6, TodoIs
<1>8. CallOK(call, PhoneIdentities, shown)
    BY <1>2, <1>7, PendingCallIs
<1> SUFFICES ASSUME latest' # Closed
             PROVE  LatestInv'
    BY DEF LatestInv
<1>9. latest' = latest /\ latest # Closed
    BY <1>1, <1>4, <1>8, TakesIs
<1>10. ~Unsaved /\ Keeps(tasks, latest) /\ FlightKeeps(f, latest)
    BY <1>9, FlownIs
<1>11. AllSynced(resolved) /\ Len(f.todo) = 1 /\ HasIt(e, latest) /\ tail = <<>>
    <2>1. AllSynced(resolved) /\ Len(f.todo) = 1 /\ HasIt(f.todo[1], latest)
        BY <1>3, <1>6, <1>10 DEF FlightKeeps
    <2> QED
        BY <1>7, <2>1
<1>12. /\ latest.type \in AnyType /\ ValueOf(latest.type, latest.value)
       /\ latest = [type |-> latest.type, value |-> latest.value]
    BY <1>1, <1>9, CommandFields
<1>13. status = "ok" =>
        e.sync = "create" /\ e.intent.type = "schedule" /\ latest.type = "schedule"
    <2> SUFFICES ASSUME status = "ok"
                 PROVE  e.sync = "create" /\ e.intent.type = "schedule" /\ latest.type = "schedule"
        OBVIOUS
    <2>1. outcome.taken /\ Status(call) = "ok"
        BY <1>4, <1>6, OutcomeIs
    <2>2. ~Carries(call)
        BY <1>1, <1>4, <1>8, <2>1, TakesIs
    <2> QED
        BY <1>1, <1>2, <1>7, <1>9, <1>11, <2>2, CarriedBy
<1>14. CASE NeedsFollowUp(e, outcome.status)
    <2>1. PICK u, follow : /\ u = [Synced(item) EXCEPT !.intent = e.intent]
                           /\ follow = <<u>>
        OBVIOUS
    <2>2. g = [f EXCEPT !.todo = tail, !.followUp = follow]
        BY <1>4, <1>6, <1>14, <2>1
    <2>3. /\ g.stage = "reconcile" /\ g.snapshot = f.snapshot /\ g.resolved = resolved
          /\ g.todo = tail /\ g.followUp = follow
        BY <1>3, <1>5, <1>6, <2>2 DEF FlightRec
    <2>4. Len(follow) = 1
        BY <2>1
    <2>5. latest = [type |-> "schedule", value |-> "s"]
        <3>1. latest.type = "schedule"
            BY <1>6, <1>13, <1>14 DEF NeedsFollowUp
        <3>2. latest.value = "s"
            BY <1>12, <3>1, ValuesAre DEF ValueOf
        <3> QED
            BY <1>12, <3>1, <3>2
    <2>6. FlightKeeps(g, latest)
        BY <1>11, <2>3, <2>4, <2>5 DEF FlightKeeps
    <2>7. NoLocal => NoLocal'
        BY <1>3, <1>4, <1>6, <1>7, <2>3 DEF NoLocal, AllRemote
    <2> QED
        BY <1>3, <1>4, <1>9, <1>10, <2>6, <2>7, LatestListed
<1>15. CASE ~NeedsFollowUp(e, outcome.status)
    <2>1. PICK list, calm : /\ list = Reconciled(resolved, e, status, item)
                            /\ calm = (f.calm /\ status # "lost")
        OBVIOUS
    <2>2. g = [f EXCEPT !.todo = tail, !.calm = calm, !.resolved = list]
        BY <1>4, <1>6, <1>15, <2>1
    <2>3. /\ g.stage = "reconcile" /\ g.snapshot = f.snapshot /\ g.resolved = list
          /\ g.todo = tail /\ g.followUp = <<>>
        BY <1>3, <1>5, <2>2 DEF FlightRec
    <2>4. status # "ok"
        BY <1>6, <1>13, <1>15 DEF NeedsFollowUp
    <2>5. \E x \in ListEntry : /\ list = Upserted(resolved, x) /\ HasIt(x, latest)
                               /\ e.id = "remote" => x.id = "remote"
        <3>1. CASE status = "conflict" /\ e.sync # "create"
            <4>1. PICK c : c = ConflictTask(resolved, e)
                OBVIOUS
            <4>2. c \in ListEntry /\ c.id = "remote" /\ HasIt(c, latest)
                BY <1>5, <1>6, <1>7, <1>11, <1>12, <3>1, <4>1, ConflictTaskIs
            <4>3. list = Upserted(resolved, c)
                BY <2>1, <3>1, <4>1 DEF Reconciled
            <4> QED
                BY <4>2, <4>3
        <3>2. CASE ~(status = "conflict" /\ e.sync # "create")
            <4>1. list = Upserted(resolved, e)
                BY <2>1, <2>4, <3>2 DEF Reconciled
            <4> QED
                BY <1>7, <1>11, <4>1
        <3> QED
            BY <3>1, <3>2
    <2>6. PICK x \in ListEntry : /\ list = Upserted(resolved, x) /\ HasIt(x, latest)
                                 /\ e.id = "remote" => x.id = "remote"
        BY <2>5
    <2>7. MobileEntries(list) = {x} \cup {y \in MobileEntries(resolved) : y.id # x.id}
        BY <1>5, <1>6, <2>6, UpsertedIs DEF GoodList
    <2>8. Keeps(list, latest)
        BY <1>11, <2>6, <2>7 DEF Keeps, AllSynced
    <2>9. FlightKeeps(g, latest)
        BY <1>11, <2>3, <2>8 DEF FlightKeeps
    <2>10. NoLocal => NoLocal'
        <3>1. NoLocal => AllRemote(list)
            BY <1>6, <1>7, <2>6, <2>7 DEF NoLocal, AllRemote
        <3> QED
            BY <1>3, <1>4, <1>7, <2>3, <3>1 DEF NoLocal, AllRemote
    <2> QED
        BY <1>3, <1>4, <1>9, <1>10, <2>9, <2>10, LatestListed
<1> QED
    BY <1>14, <1>15

LEMMA FollowsUpLatest ==
    ASSUME PartsInv, LatestInv, NEW f \in flight, FlightFollowsUp(f)
    PROVE  LatestInv'
<1>1. ServerInv /\ FlightsInv /\ CommandOK(latest)
    BY DEF PartsInv, ServerInv
<1>2. PICK e, call : e = Head(f.followUp) /\ call = FollowUpCall(e)
    OBVIOUS
<1>3. f.followUp # <<>> /\ handlers' = handlers /\ tasks' = tasks
    BY DEF FlightFollowsUp
<1>4. PICK outcome, g :
        /\ outcome \in Outcomes(call) /\ Takes(call, outcome) /\ flight' = {g}
        /\ g = [f EXCEPT !.followUp = <<>>, !.calm = @ /\ outcome.status # "lost",
                         !.resolved = Upserted(@, IF outcome.status = "ok" THEN Synced(remote'.task)
                                                  ELSE Marked(e, e.intent.type, e.intent.value))]
    BY <1>2 DEF FlightFollowsUp
<1>5. /\ FlightOK(f, PhoneIdentities, shown) /\ f \in FlightRec /\ GoodList(f.resolved, PhoneIdentities)
      /\ FollowsUp(f.followUp[1]) /\ f.stage = "reconcile"
    BY <1>1, <1>3 DEF FlightsInv, FlightOK, FlightRec
<1>6. e = f.followUp[1] /\ FollowsUp(e)
    <2>1. f.followUp \in Seq(ListEntry)
        BY <1>5 DEF FlightRec
    <2>2. Head(f.followUp) = f.followUp[1]
        BY <1>3, <2>1
    <2> QED
        BY <1>2, <1>5, <2>2
<1>7. /\ CallOK(call, PhoneIdentities, shown) /\ call.type = "schedule" /\ call.value = "s"
    BY <1>2, <1>6, FollowUpCallIs
<1> SUFFICES ASSUME latest' # Closed
             PROVE  LatestInv'
    BY DEF LatestInv
<1>8. latest' = latest /\ latest # Closed
    BY <1>1, <1>4, <1>7, TakesIs
<1>9. ~Unsaved /\ Keeps(tasks, latest) /\ FlightKeeps(f, latest)
    BY <1>8, FlownIs
<1>10. f.todo = <<>> /\ AllSynced(f.resolved) /\ latest = [type |-> "schedule", value |-> "s"]
    BY <1>3, <1>5, <1>9 DEF FlightKeeps
<1>11. outcome.status # "ok"
    <2> SUFFICES ASSUME outcome.status = "ok"
                 PROVE  FALSE
        OBVIOUS
    <2>1. outcome.taken /\ Status(call) = "ok"
        BY <1>4, OutcomeIs
    <2>2. Carries(call)
        BY <1>7, <1>10 DEF Carries
    <2> QED
        BY <1>1, <1>4, <1>7, <1>8, <2>1, <2>2, TakesIs
<1>12. PICK resolved, type, value, x, list, calm :
        /\ resolved = f.resolved /\ type = e.intent.type /\ value = e.intent.value
        /\ x = Marked(e, type, value) /\ list = Upserted(resolved, x)
        /\ calm = (f.calm /\ outcome.status # "lost")
    OBVIOUS
<1>13. x \in ListEntry /\ x.id = "remote" /\ HasIt(x, latest)
    <2>1. e \in ListEntry /\ e.id = "remote" /\ type = "schedule" /\ value = "s"
        BY <1>6, <1>12 DEF FollowsUp
    <2>2. type \in CommandTypes /\ ValueOf(type, value)
        BY <2>1, ValuesAre DEF CommandTypes, ValueOf
    <2>3. x \in ListEntry /\ x.id = "remote" /\ HasIt(x, [type |-> type, value |-> value])
        BY <1>12, <2>1, <2>2, MarkedIs
    <2> QED
        BY <1>10, <2>1, <2>3
<1>14. /\ g.stage = "reconcile" /\ g.snapshot = f.snapshot /\ g.resolved = list
       /\ g.todo = <<>> /\ g.followUp = <<>>
    <2>1. g = [f EXCEPT !.followUp = <<>>, !.calm = calm, !.resolved = list]
        BY <1>4, <1>11, <1>12
    <2> QED
        BY <1>5, <1>10, <2>1 DEF FlightRec
<1>15. MobileEntries(list) = {x} \cup {y \in MobileEntries(resolved) : y.id # x.id}
    BY <1>5, <1>12, <1>13, UpsertedIs DEF GoodList
<1>16. Keeps(list, latest)
    BY <1>10, <1>12, <1>13, <1>15 DEF Keeps, AllSynced
<1>17. FlightKeeps(g, latest)
    BY <1>14, <1>16 DEF FlightKeeps
<1>18. NoLocal => NoLocal'
    <2>1. NoLocal => AllRemote(list)
        BY <1>12, <1>13, <1>15 DEF NoLocal, AllRemote
    <2>2. AllRemote(<<>>)
        BY EntriesOfNone DEF AllRemote
    <2> QED
        BY <1>3, <1>4, <1>14, <2>1, <2>2 DEF NoLocal
<1> QED
    BY <1>3, <1>4, <1>8, <1>9, <1>17, <1>18, LatestListed

LEMMA LatestStep ==
    ASSUME PartsInv, PartsInv', LatestInv, StartParts, StartKept, [MobileNext]_mobileVars
    PROVE  LatestInv'
<1>1. CASE UNCHANGED mobileVars
    <2>1. /\ tasks' = tasks /\ handlers' = handlers /\ flight' = flight /\ latest' = latest
        BY <1>1 DEF mobileVars
    <2>2. Running' = Running /\ (Unsaved' <=> Unsaved) /\ (NoLocal' <=> NoLocal)
        BY <2>1 DEF Running, Unsaved, NoLocal
    <2> QED
        BY <2>1, <2>2 DEF LatestInv
<1>2. ASSUME (\E i \in DOMAIN tasks : ResolveRemote(tasks[i]))
      PROVE  LatestInv'
    BY <1>2 DEF ResolveRemote, LatestInv
<1>3. ASSUME NEW call \in stray, LateArrival(call)
      PROVE  LatestInv'
    <2>1. /\ Takes(call, [taken |-> TRUE, status |-> Unset])
          /\ flight' = Disturbed /\ tasks' = tasks /\ handlers' = handlers
        BY <1>3 DEF LateArrival, Disturbs
    <2>2. latest' = latest \/ latest' = Closed
        BY <2>1 DEF Takes
    <2> QED
        BY <2>1, <2>2, LatestStays
<1>4. ASSUME OtherClientWrites
      PROVE  LatestInv'
    BY <1>4, LatestStays DEF OtherClientWrites, Disturbs
<1>5. ASSUME NEW i \in DOMAIN tasks, NEW type \in CommandTypes, NEW value \in Values(type),
             Command(tasks[i], type, value)
      PROVE  LatestInv'
    BY <1>5, CommandLatest
<1>6. ASSUME NEW i \in DOMAIN tasks, ResolveLocal(tasks[i])
      PROVE  LatestInv'
    BY <1>6, ResolveLatest
<1>7. ASSUME NEW n \in DOMAIN handlers, ReminderIsSet(n) \/ HandlerIsAnswered(n) \/ HandlerEnds(n)
      PROVE  LatestInv'
    BY <1>7, ReminderLatest, AnsweredLatest, EndsLatest
<1>8. ASSUME NEW f \in flight,
             \/ FlightFetches(f) \/ FlightFails(f) \/ FlightReconciles(f)
             \/ FlightFollowsUp(f) \/ FlightEnds(f)
      PROVE  LatestInv'
    BY <1>8, FetchesLatest, FailsLatest, ReconcilesLatest, FollowsUpLatest, FlightEndsLatest
<1>9. ASSUME Add \/ Sync \/ Restart
      PROVE  LatestInv'
    BY <1>9, AddLatest, SyncLatest, RestartLatest
<1>10. ASSUME NEW p \in placing, BootPlaces(p)
       PROVE  LatestInv'
    BY <1>10, BootPlacesLatest
<1> QED
    BY <1>1, <1>2, <1>3, <1>4, <1>5, <1>6, <1>7, <1>8, <1>9, <1>10 DEF MobileNext

-----------------------------------------------------------------------------
(* The storage and the start of the app.                                   *)

LEMMA PlacingDisturbed ==
    ASSUME StartParts, placing' = DisturbedPlacing
    PROVE  \A q \in placing' : \E p \in placing : q \in PlacingRec /\ q.list = p.list /\ ~q.calm
<1> SUFFICES ASSUME NEW q \in placing'
             PROVE  \E p \in placing : q \in PlacingRec /\ q.list = p.list /\ ~q.calm
    OBVIOUS
<1>1. PICK p \in placing : q = [p EXCEPT !.calm = FALSE]
    BY DEF DisturbedPlacing
<1>2. p \in PlacingRec
    BY DEF StartParts
<1>3. q \in PlacingRec /\ q.list = p.list /\ ~q.calm
    BY <1>1, <1>2 DEF PlacingRec
<1> QED
    BY <1>3

\* The storage keeps its list or gets the new one, and a start its list.
LEMMA StartPartsOn ==
    ASSUME StartParts, PartsInv', PhoneIdentities \subseteq PhoneIdentities',
           saved' = saved \/ saved' = tasks',
           \A q \in placing' : \E p \in placing : q \in PlacingRec /\ q.list = p.list,
           remote'.kind = "unborn" /\ handlers' = <<>> => remote.kind = "unborn" /\ handlers = <<>>
    PROVE  StartParts'
<1>1. GoodList(saved', PhoneIdentities')
    <2>1. GoodList(saved, PhoneIdentities')
        BY MoreIdentities DEF StartParts
    <2>2. GoodList(tasks', PhoneIdentities')
        BY DEF PartsInv, ListInv, SeenList
    <2> QED
        BY <2>1, <2>2
<1>2. \A q \in placing' : q \in PlacingRec /\ GoodList(q.list, PhoneIdentities')
    BY MoreIdentities DEF StartParts
<1>3. remote'.kind = "unborn" /\ handlers' = <<>> =>
            saved' = <<>> /\ \A q \in placing' : q.list = <<>>
    BY DEF StartParts, PartsInv, OriginInv
<1> QED
    BY <1>1, <1>2, <1>3 DEF StartParts

\* The storage has what the list has, or keeps what it had.
LEMMA StartKeptOn ==
    ASSUME StartKept, LatestInv', latest' = latest \/ latest' = Closed,
           latest' # Closed => saved' = tasks' \/ (saved' = saved /\ (Unsaved => Unsaved')),
           Running' \subseteq Running,
           \A q \in placing' : \E p \in placing : q.list = p.list,
           \A g \in flight' : g.boot => \E f \in flight : f.boot
    PROVE  StartKept'
<1> SUFFICES ASSUME latest' # Closed
             PROVE  StartKept'
    BY DEF StartKept
<1>1. latest' = latest /\ latest # Closed
    OBVIOUS
<1>2. ~Unsaved' => Keeps(saved', latest)
    BY <1>1 DEF StartKept, LatestInv
<1>3. \A q \in placing' : Keeps(q.list, latest) /\ Running' = {}
    BY <1>1 DEF StartKept
<1>4. \A g \in flight' : g.boot => Running' = {}
    BY <1>1 DEF StartKept
<1> QED
    BY <1>1, <1>2, <1>3, <1>4 DEF StartKept

\* A command that is followed is given while nothing is in progress.
LEMMA StartKeptFresh ==
    ASSUME latest' # Closed => Quiet /\ (saved' = tasks' \/ Unsaved'), LatestInv', Disturbs
    PROVE  StartKept'
<1> SUFFICES ASSUME latest' # Closed
             PROVE  StartKept'
    BY DEF StartKept
<1>1. placing' = {} /\ flight' = {}
    BY DEF Quiet, Disturbs, Disturbed, DisturbedPlacing
<1>2. ~Unsaved' => Keeps(saved', latest')
    BY DEF LatestInv
<1> QED
    BY <1>1, <1>2 DEF StartKept

\* A flight that is disturbed, or begins by a retry, is no start of the app.
LEMMA BootFlights ==
    ASSUME FlightsInv, NEW list, flight' = Disturbed \/ Retries(list)
    PROVE  \A g \in flight' : g.boot => \E f \in flight : f.boot
<1>1. CASE flight' = Disturbed
    <2> SUFFICES ASSUME NEW g \in flight', g.boot
                 PROVE  \E f \in flight : f.boot
        OBVIOUS
    <2>1. PICK f \in flight : g = [f EXCEPT !.calm = FALSE]
        BY <1>1 DEF Disturbed
    <2>2. f \in FlightRec
        BY DEF FlightsInv, FlightOK
    <2>3. g.boot = f.boot
        BY <2>1, <2>2 DEF FlightRec
    <2> QED
        BY <2>3
<1>2. CASE flight' = {NewFlight(list, FALSE)}
    BY <1>2 DEF NewFlight
<1> QED
    BY <1>1, <1>2 DEF Retries

\* One handler goes on, or ends.
LEMMA HandlerGoesOn ==
    ASSUME HandlersInv, NEW n \in DOMAIN handlers, handlers[n].at # "done", NEW h,
           handlers' = [handlers EXCEPT ![n] = h]
    PROVE  /\ Running' \subseteq Running /\ handlers' # <<>> /\ Len(handlers') = Len(handlers)
           /\ handlers'[n] = h /\ \A m \in DOMAIN handlers : m # n => handlers'[m] = handlers[m]
<1>1. Len(handlers) \in Nat /\ DOMAIN handlers = 1 .. Len(handlers)
    BY HandlersFacts
<1>2. handlers' = [m \in 1 .. Len(handlers) |-> IF m = n THEN h ELSE handlers[m]]
    <2>1. handlers \in Seq(HandlerRec \cup {Returned})
        BY DEF HandlersInv
    <2> QED
        BY <1>1, <2>1
<1>3. DOMAIN handlers' = DOMAIN handlers /\ handlers' # <<>> /\ Len(handlers') = Len(handlers)
    BY <1>1, <1>2
<1>4. handlers'[n] = h /\ \A m \in DOMAIN handlers : m # n => handlers'[m] = handlers[m]
    BY <1>1, <1>2
<1>5. Running' \subseteq Running
    BY <1>3, <1>4 DEF Running
<1> QED
    BY <1>3, <1>4, <1>5

LEMMA OnlyOneIsAnswered ==
    ASSUME HandlersInv, NEW n \in DOMAIN handlers, HandlerIsAnswered(n), Unsaved
    PROVE  Unsaved'
<1>1. PICK h, reply : /\ h = handlers[n] /\ h.at = "asking"
                      /\ handlers' = [handlers EXCEPT ![n] =
                                        [h EXCEPT !.at = "answered", !.reply = reply]]
    BY DEF HandlerIsAnswered
<1>2. PICK g : g = [h EXCEPT !.at = "answered", !.reply = reply]
    OBVIOUS
<1>3. h \in HandlerRec
    <2>1. n \in Running
        BY <1>1 DEF Running
    <2> QED
        BY <1>1, <2>1, HandlersFacts DEF HandlerOK
<1>4. g.at = "answered" /\ g.type = h.type
    BY <1>2, <1>3 DEF HandlerRec
<1>5. /\ handlers' # <<>> /\ Len(handlers') = Len(handlers) /\ handlers'[n] = g
      /\ \A m \in DOMAIN handlers : m # n => handlers'[m] = handlers[m]
    BY <1>1, <1>2, HandlerGoesOn
<1>6. PICK k \in Running : /\ k = Len(handlers)
                           /\ \/ handlers[k].at = "reminder"
                              \/ handlers[k].type \in {"update", "delete"}
    BY DEF Unsaved
<1>7. k \in DOMAIN handlers' /\ k \in DOMAIN handlers
    BY <1>1, <1>2, <1>6 DEF Running
<1>8. CASE k = n
    BY <1>1, <1>4, <1>5, <1>6, <1>7, <1>8 DEF Unsaved, Running
<1>9. CASE k # n
    BY <1>5, <1>6, <1>7, <1>9 DEF Unsaved, Running
<1> QED
    BY <1>8, <1>9

LEMMA StartSettlesDisturbed ==
    ASSUME StartParts, placing' = DisturbedPlacing
    PROVE  StartSettles'
<1>1. \A q \in placing' : ~q.calm
    BY PlacingDisturbed
<1> QED
    BY <1>1 DEF StartSettles

\* What every step but those of the start of the app does to its list.
LEMMA StartOn ==
    ASSUME MobileInv, PartsInv', LatestInv', placing' = DisturbedPlacing,
           PhoneIdentities \subseteq PhoneIdentities', saved' = saved \/ saved' = tasks',
           remote'.kind = "unborn" /\ handlers' = <<>> => remote.kind = "unborn" /\ handlers = <<>>
    PROVE  /\ StartParts' /\ StartSettles'
           /\ \A q \in placing' : \E p \in placing : q.list = p.list
<1>1. \A q \in placing' : \E p \in placing : q \in PlacingRec /\ q.list = p.list /\ ~q.calm
    BY PlacingDisturbed DEF MobileInv
<1>2. StartParts'
    BY <1>1, StartPartsOn DEF MobileInv
<1>3. StartSettles'
    BY StartSettlesDisturbed DEF MobileInv
<1> QED
    BY <1>1, <1>2, <1>3

LEMMA AppendedSome ==
    ASSUME HandlersInv, NEW h, handlers' = Append(handlers, h)
    PROVE  handlers' # <<>>
<1>1. PICK S : S = HandlerRec \cup {Returned, h}
    OBVIOUS
<1>2. Len(handlers) \in Nat /\ DOMAIN handlers = 1 .. Len(handlers)
      /\ \A n \in DOMAIN handlers : handlers[n] \in S
    BY <1>1, HandlersFacts DEF HandlersInv
<1>3. handlers \in Seq(S)
    <2>1. handlers = [n \in 1 .. Len(handlers) |-> handlers[n]]
        BY <1>2 DEF HandlersInv
    <2> QED
        BY <1>2, <2>1
<1>4. Len(handlers') = Len(handlers) + 1
    BY <1>1, <1>3, AppendProperties
<1> QED
    BY <1>2, <1>4

\* The steps in which the server takes a call of the phone.
LEMMA TakenIs ==
    ASSUME PartsInv,
           \/ \E n \in DOMAIN handlers : HandlerIsAnswered(n)
           \/ \E f \in flight : FlightReconciles(f) \/ FlightFollowsUp(f)
           \/ \E call \in stray : LateArrival(call)
    PROVE  /\ PhoneIdentities \subseteq PhoneIdentities'
           /\ remote'.kind = "unborn" => remote.kind = "unborn"
           /\ latest' = latest \/ latest' = Closed
<1>1. ServerInv /\ HandlersInv /\ FlightsInv /\ StrayInv
    BY DEF PartsInv
<1>2. \E call, outcome : CallOK(call, PhoneIdentities, shown) /\ Takes(call, outcome)
    <2>1. ASSUME NEW n \in DOMAIN handlers, HandlerIsAnswered(n)
          PROVE  \E call, outcome : CallOK(call, PhoneIdentities, shown) /\ Takes(call, outcome)
        <3>1. handlers[n].at = "asking" /\ \E outcome : Takes(CallOf(handlers[n]), outcome)
            BY <2>1 DEF HandlerIsAnswered
        <3>2. n \in Running
            BY <3>1 DEF Running
        <3>3. CallOK(CallOf(handlers[n]), PhoneIdentities, shown)
            BY <1>1, <3>1, <3>2, HandlersFacts, CallOfIs
        <3> QED
            BY <3>1, <3>3
    <2>2. ASSUME NEW f \in flight, FlightReconciles(f)
          PROVE  \E call, outcome : CallOK(call, PhoneIdentities, shown) /\ Takes(call, outcome)
        <3>1. PICK e : e = Head(f.todo)
            OBVIOUS
        <3>2. f.todo # <<>> /\ \E outcome : Takes(PendingCall(e, f.resolved), outcome)
            BY <2>2, <3>1 DEF FlightReconciles
        <3>3. FlightOK(f, PhoneIdentities, shown)
            BY <1>1 DEF FlightsInv
        <3>4. e \in ListEntry /\ Sound(e, PhoneIdentities) /\ Seen(e, shown) /\ IsPending(e)
            BY <3>1, <3>2, <3>3, TodoIs
        <3>5. CallOK(PendingCall(e, f.resolved), PhoneIdentities, shown)
            BY <3>4, PendingCallIs
        <3> QED
            BY <3>2, <3>5
    <2>3. ASSUME NEW f \in flight, FlightFollowsUp(f)
          PROVE  \E call, outcome : CallOK(call, PhoneIdentities, shown) /\ Takes(call, outcome)
        <3>1. PICK e : e = Head(f.followUp)
            OBVIOUS
        <3>2. f.followUp # <<>> /\ \E outcome : Takes(FollowUpCall(e), outcome)
            BY <2>3, <3>1 DEF FlightFollowsUp
        <3>3. f.followUp \in Seq(ListEntry) /\ FollowsUp(f.followUp[1])
            BY <1>1, <3>2 DEF FlightsInv, FlightOK, FlightRec
        <3>4. FollowsUp(e)
            BY <3>1, <3>2, <3>3
        <3>5. CallOK(FollowUpCall(e), PhoneIdentities, shown)
            BY <3>4, FollowUpCallIs
        <3> QED
            BY <3>2, <3>5
    <2>4. ASSUME NEW call \in stray, LateArrival(call)
          PROVE  \E sent, outcome : CallOK(sent, PhoneIdentities, shown) /\ Takes(sent, outcome)
        <3>1. \E outcome : Takes(call, outcome)
            BY <2>4 DEF LateArrival
        <3> QED
            BY <1>1, <3>1 DEF StrayInv
    <2> QED
        BY <2>1, <2>2, <2>3, <2>4
<1>3. PICK call, outcome : CallOK(call, PhoneIdentities, shown) /\ Takes(call, outcome)
    BY <1>2
<1> QED
    BY <1>1, <1>3, TakesIs

\* A start of the app whose flight is over has nothing calm in a flight.
LEMMA StartInFlight ==
    ASSUME MobileInv, PartsInv', LatestInv', NEW f \in flight, placing' = placing,
           saved' = saved \/ saved' = tasks', handlers' = handlers,
           PhoneIdentities \subseteq PhoneIdentities',
           latest' = latest \/ latest' = Closed, latest' # Closed => saved' = tasks' \/ saved' = saved,
           remote'.kind = "unborn" => remote.kind = "unborn",
           \A g \in flight' : g.boot => \E x \in flight : x.boot
    PROVE  StartParts' /\ StartKept' /\ StartSettles'
<1>1. StartParts'
    <2>1. \A q \in placing' : \E p \in placing : q \in PlacingRec /\ q.list = p.list
        BY DEF MobileInv, StartParts
    <2> QED
        BY <2>1, StartPartsOn DEF MobileInv
<1>2. StartSettles'
    BY DEF MobileInv, StartSettles
<1>3. StartKept'
    <2>1. Running' = Running /\ (Unsaved' <=> Unsaved)
        BY DEF Running, Unsaved
    <2> QED
        BY <2>1, StartKeptOn DEF MobileInv
<1> QED
    BY <1>1, <1>2, <1>3

LEMMA StartEnds ==
    ASSUME MobileInv, PartsInv', LatestInv', NEW f \in flight, FlightEnds(f)
    PROVE  StartParts' /\ StartKept' /\ StartSettles'
<1>1. /\ PartsInv /\ LatestInv /\ SettleInv /\ StartParts /\ StartKept /\ StartSettles
    BY DEF MobileInv
<1>2. /\ f.stage = "reconcile" /\ f.followUp = <<>> /\ flight' = {}
      /\ remote' = remote /\ creation' = creation /\ handlers' = handlers /\ stray' = stray
      /\ latest' = latest
    BY DEF FlightEnds
<1>3. PhoneIdentities' = PhoneIdentities /\ Running' = Running /\ (Unsaved' <=> Unsaved)
    BY <1>2 DEF PhoneIdentities, Running, Unsaved
<1>4. CASE ~f.boot
    <2>1. saved' = tasks' /\ placing' = placing
        BY <1>4 DEF FlightEnds, Persists, Shows
    <2> QED
        BY <1>2, <1>3, <2>1, StartInFlight
<1>5. CASE f.boot
    <2>1. PICK list, p : /\ list = f.resolved
                         /\ p = [list |-> list, failed |-> FALSE, calm |-> f.calm]
        OBVIOUS
    <2>2. placing' = {p} /\ saved' = list
        BY <1>5, <2>1 DEF FlightEnds
    <2>3. f \in FlightRec /\ GoodList(list, PhoneIdentities)
        BY <1>1, <2>1 DEF PartsInv, FlightsInv, FlightOK
    <2>4. p \in PlacingRec /\ p.list = list /\ (p.calm <=> f.calm)
        <3>1. list \in Seq(ListEntry)
            BY <2>3 DEF GoodList, IsList
        <3>2. PICK calm \in BOOLEAN : calm = f.calm
            BY <2>3, FlightFields
        <3>3. p = [list |-> list, failed |-> FALSE, calm |-> calm]
            BY <2>1, <3>2
        <3> QED
            BY <3>1, <3>2, <3>3 DEF PlacingRec
    <2>5. StartParts'
        <3>1. remote.kind = "unborn" /\ handlers = <<>> => list = <<>>
            BY <1>1, <2>1 DEF PartsInv, OriginInv
        <3> QED
            BY <1>2, <1>3, <2>2, <2>3, <2>4, <3>1 DEF StartParts
    <2>6. StartKept'
        <3> SUFFICES ASSUME latest # Closed
                     PROVE  StartKept'
            BY <1>2 DEF StartKept
        <3>1. ~Unsaved /\ Keeps(list, latest)
            BY <1>1, <2>1, ResolvedKeeps
        <3>2. Running = {}
            BY <1>1, <1>5 DEF StartKept
        <3> QED
            BY <1>2, <1>3, <2>2, <2>4, <3>1, <3>2 DEF StartKept
    <2>7. StartSettles'
        <3> SUFFICES ASSUME f.calm
                     PROVE  StartSettles'
            BY <2>2, <2>4 DEF StartSettles
        <3>1. Running = {} /\ stray = {}
            BY <1>1 DEF SettleInv
        <3>2. SettledList(list)
            BY <1>1, <1>2, <2>1, SettledResolved
        <3>3. SettledList(list)'
            BY <1>2, <3>2, SettledStays
        <3> QED
            BY <1>2, <1>3, <2>2, <2>4, <3>1, <3>3 DEF StartSettles
    <2> QED
        BY <2>5, <2>6, <2>7
<1> QED
    BY <1>4, <1>5

\* The steps of the user and of the surroundings.
LEMMA StartCommands ==
    ASSUME MobileInv, PartsInv', LatestInv',
           Add \/ \E i \in DOMAIN tasks :
                \/ \E type \in CommandTypes : \E value \in Values(type) : Command(tasks[i], type, value)
                \/ ResolveRemote(tasks[i]) \/ ResolveLocal(tasks[i])
    PROVE  StartParts' /\ StartKept' /\ StartSettles'
<1>1. PartsInv /\ StartKept /\ HandlersInv /\ FlightsInv
    BY DEF MobileInv, PartsInv
<1>2. ASSUME Add
      PROVE  StartParts' /\ StartKept' /\ StartSettles'
    <2>1. /\ Disturbs /\ placing' = DisturbedPlacing /\ saved' = tasks'
          /\ remote' = remote /\ creation' = creation /\ Len(handlers) = 0 /\ Given("create", "p")
        BY <1>2 DEF Add, Disturbs, Persists, Shows
    <2>2. handlers = <<>>
        BY <1>1, <2>1 DEF HandlersInv
    <2>3. PhoneIdentities' = PhoneIdentities
        BY <2>1 DEF PhoneIdentities
    <2>4. StartKept'
        BY <2>1, StartKeptFresh DEF Given
    <2> QED
        BY <2>1, <2>2, <2>3, <2>4, StartOn
<1>3. ASSUME NEW i \in DOMAIN tasks, NEW type \in CommandTypes, NEW value \in Values(type),
             Command(tasks[i], type, value)
      PROVE  StartParts' /\ StartKept' /\ StartSettles'
    <2>1. /\ Disturbs /\ placing' = DisturbedPlacing /\ (saved' = saved \/ saved' = tasks')
          /\ remote' = remote /\ creation' = creation /\ \E h : handlers' = Append(handlers, h)
        BY <1>3 DEF Command, Disturbs, Persists, Shows
    <2>2. handlers' # <<>>
        BY <1>1, <2>1, AppendedSome
    <2>3. PhoneIdentities' = PhoneIdentities
        BY <2>1 DEF PhoneIdentities
    <2>4. StartKept'
        BY <1>1, <1>3, <2>1, CommandLatest, StartKeptFresh
    <2> QED
        BY <2>1, <2>2, <2>3, <2>4, StartOn
<1>4. ASSUME NEW i \in DOMAIN tasks, ResolveRemote(tasks[i])
      PROVE  StartParts' /\ StartKept' /\ StartSettles'
    <2>1. /\ placing' = DisturbedPlacing /\ saved' = tasks' /\ latest' = Closed
          /\ remote' = remote /\ creation' = creation /\ handlers' = handlers
        BY <1>4 DEF ResolveRemote, Disturbs, Persists, Shows
    <2>2. PhoneIdentities' = PhoneIdentities
        BY <2>1 DEF PhoneIdentities
    <2>3. StartKept'
        BY <2>1 DEF StartKept
    <2> QED
        BY <2>1, <2>2, <2>3, StartOn
<1>5. ASSUME NEW i \in DOMAIN tasks, ResolveLocal(tasks[i])
      PROVE  StartParts' /\ StartKept' /\ StartSettles'
    <2>1. PICK list : list = Upserted(tasks, Rebased(tasks[i]))
        OBVIOUS
    <2>2. /\ Retries(list) /\ placing' = DisturbedPlacing /\ saved' = tasks' /\ latest' = Exposed
          /\ remote' = remote /\ creation' = creation /\ handlers' = handlers
        BY <1>5, <2>1 DEF ResolveLocal, Retries, Persists, Shows
    <2>3. PhoneIdentities' = PhoneIdentities /\ Running' = Running
        BY <2>2 DEF PhoneIdentities, Running
    <2>4. \A g \in flight' : g.boot => \E f \in flight : f.boot
        BY <1>1, <2>2, BootFlights
    <2>5. /\ StartParts' /\ StartSettles'
          /\ \A q \in placing' : \E p \in placing : q.list = p.list
        BY <2>2, <2>3, StartOn
    <2>6. latest' = latest \/ latest' = Closed
        BY <2>2 DEF Exposed
    <2>7. StartKept'
        BY <1>1, <2>2, <2>3, <2>4, <2>5, <2>6, StartKeptOn
    <2> QED
        BY <2>5, <2>7
<1> QED
    BY <1>2, <1>3, <1>4, <1>5

LEMMA StartHandlers ==
    ASSUME MobileInv, PartsInv', LatestInv', NEW n \in DOMAIN handlers,
           ReminderIsSet(n) \/ HandlerIsAnswered(n) \/ HandlerEnds(n)
    PROVE  StartParts' /\ StartKept' /\ StartSettles'
<1>1. PartsInv /\ StartKept /\ HandlersInv /\ FlightsInv
    BY DEF MobileInv, PartsInv
<1>2. /\ handlers[n].at # "done" /\ \E h : handlers' = [handlers EXCEPT ![n] = h]
      /\ placing' = DisturbedPlacing
      /\ saved' = tasks' \/ (saved' = saved /\ HandlerIsAnswered(n))
      /\ \E list : flight' = Disturbed \/ Retries(list)
      /\ HandlerIsAnswered(n) \/ (remote' = remote /\ creation' = creation /\ latest' = latest)
    <2>1. CASE ReminderIsSet(n)
        BY <2>1 DEF ReminderIsSet, Disturbs, Persists, Shows
    <2>2. CASE HandlerIsAnswered(n)
        BY <2>2 DEF HandlerIsAnswered, Disturbs
    <2>3. CASE HandlerEnds(n)
        BY <2>3 DEF HandlerEnds, Disturbs, Retries, Persists, Shows
    <2> QED
        BY <2>1, <2>2, <2>3
<1>3. Running' \subseteq Running /\ handlers' # <<>>
    BY <1>1, <1>2, HandlerGoesOn
<1>4. /\ PhoneIdentities \subseteq PhoneIdentities'
      /\ latest' = latest \/ latest' = Closed
    <2>1. CASE HandlerIsAnswered(n)
        BY <1>1, <2>1, TakenIs
    <2>2. CASE remote' = remote /\ creation' = creation /\ latest' = latest
        BY <2>2 DEF PhoneIdentities
    <2> QED
        BY <1>2, <2>1, <2>2
<1>5. /\ StartParts' /\ StartSettles'
      /\ \A q \in placing' : \E p \in placing : q.list = p.list
    BY <1>2, <1>3, <1>4, StartOn
<1>6. saved' = tasks' \/ (saved' = saved /\ (Unsaved => Unsaved'))
    BY <1>1, <1>2, OnlyOneIsAnswered
<1>7. \A g \in flight' : g.boot => \E f \in flight : f.boot
    BY <1>1, <1>2, BootFlights
<1>8. StartKept'
    BY <1>1, <1>3, <1>4, <1>5, <1>6, <1>7, StartKeptOn
<1> QED
    BY <1>5, <1>8

LEMMA StartFlights ==
    ASSUME MobileInv, PartsInv', LatestInv', NEW f \in flight,
           FlightFetches(f) \/ FlightReconciles(f) \/ FlightFollowsUp(f)
    PROVE  StartParts' /\ StartKept' /\ StartSettles'
<1>1. PartsInv /\ f \in FlightRec
    BY DEF MobileInv, PartsInv, FlightsInv, FlightOK
<1>2. placing' = placing /\ saved' = saved /\ handlers' = handlers
    BY DEF FlightFetches, FlightReconciles, FlightFollowsUp
<1>3. /\ PhoneIdentities \subseteq PhoneIdentities'
      /\ remote'.kind = "unborn" => remote.kind = "unborn"
      /\ latest' = latest \/ latest' = Closed
    <2>1. CASE FlightFetches(f)
        BY <2>1 DEF FlightFetches, PhoneIdentities
    <2>2. CASE FlightReconciles(f) \/ FlightFollowsUp(f)
        BY <1>1, <2>2, TakenIs
    <2> QED
        BY <2>1, <2>2
<1>4. \A g \in flight' : g.boot = f.boot
    <2>1. CASE FlightFetches(f)
        <3>1. flight' = {[f EXCEPT !.stage = "reconcile", !.snapshot = <<>>,
                                   !.resolved = FromServer(f.snapshot),
                                   !.todo = PendingIn(f.snapshot)]}
            BY <2>1 DEF FlightFetches
        <3> QED
            BY <1>1, <3>1 DEF FlightRec
    <2>2. CASE FlightReconciles(f)
        <3>1. \E e, resolved, follow, calm :
                \/ flight' = {[f EXCEPT !.todo = Tail(f.todo), !.followUp = follow]}
                \/ flight' = {[f EXCEPT !.todo = Tail(f.todo), !.calm = calm, !.resolved = resolved]}
            BY <2>2 DEF FlightReconciles
        <3> QED
            BY <1>1, <3>1 DEF FlightRec
    <2>3. CASE FlightFollowsUp(f)
        <3>1. \E resolved, calm :
                flight' = {[f EXCEPT !.followUp = <<>>, !.calm = calm, !.resolved = resolved]}
            BY <2>3 DEF FlightFollowsUp
        <3> QED
            BY <1>1, <3>1 DEF FlightRec
    <2> QED
        BY <2>1, <2>2, <2>3
<1> QED
    BY <1>2, <1>3, <1>4, StartInFlight

LEMMA StartFails ==
    ASSUME MobileInv, PartsInv', LatestInv', NEW f \in flight, FlightFails(f)
    PROVE  StartParts' /\ StartKept' /\ StartSettles'
<1>1. PartsInv /\ LatestInv /\ StartParts /\ StartKept
    BY DEF MobileInv
<1>2. /\ f.stage = "fetch" /\ flight' = {} /\ saved' = saved
      /\ remote' = remote /\ creation' = creation /\ handlers' = handlers /\ latest' = latest
    BY DEF FlightFails
<1>3. PhoneIdentities' = PhoneIdentities /\ Running' = Running /\ (Unsaved' <=> Unsaved)
    BY <1>2 DEF PhoneIdentities, Running, Unsaved
<1>4. CASE ~f.boot
    <2>1. placing' = placing
        BY <1>4 DEF FlightFails
    <2> QED
        BY <1>2, <1>3, <2>1, StartInFlight
<1>5. CASE f.boot
    <2>1. PICK list, p : list = f.snapshot /\ p = [list |-> list, failed |-> TRUE, calm |-> FALSE]
        OBVIOUS
    <2>2. placing' = {p}
        BY <1>5, <2>1 DEF FlightFails
    <2>3. GoodList(list, PhoneIdentities)
        BY <1>1, <2>1 DEF PartsInv, FlightsInv, FlightOK, SeenList
    <2>4. p \in PlacingRec /\ p.list = list /\ ~p.calm
        BY <2>1, <2>3 DEF PlacingRec, GoodList, IsList
    <2>5. StartParts'
        <3>1. remote.kind = "unborn" /\ handlers = <<>> => list = <<>>
            BY <1>1, <2>1 DEF PartsInv, OriginInv
        <3> QED
            BY <1>1, <1>2, <1>3, <2>2, <2>3, <2>4, <3>1 DEF StartParts
    <2>6. StartKept'
        <3> SUFFICES ASSUME latest # Closed
                     PROVE  StartKept'
            BY <1>2 DEF StartKept
        <3>1. Keeps(list, latest)
            BY <1>1, <1>2, <2>1, FlownIs DEF FlightKeeps
        <3>2. Running = {} /\ (~Unsaved => Keeps(saved, latest))
            BY <1>1, <1>5 DEF StartKept
        <3> QED
            BY <1>2, <1>3, <2>2, <2>4, <3>1, <3>2 DEF StartKept
    <2>7. StartSettles'
        BY <2>2, <2>4 DEF StartSettles
    <2> QED
        BY <2>5, <2>6, <2>7
<1> QED
    BY <1>4, <1>5

LEMMA StartSurroundings ==
    ASSUME MobileInv, PartsInv', LatestInv',
           Sync \/ OtherClientWrites \/ \E call \in stray : LateArrival(call)
    PROVE  StartParts' /\ StartKept' /\ StartSettles'
<1>1. PartsInv /\ StartKept /\ FlightsInv
    BY DEF MobileInv, PartsInv
<1>2. /\ placing' = DisturbedPlacing /\ saved' = saved /\ handlers' = handlers
      /\ \E list : flight' = Disturbed \/ Retries(list)
    BY DEF Sync, OtherClientWrites, LateArrival, Disturbs, Retries
<1>3. /\ PhoneIdentities \subseteq PhoneIdentities'
      /\ remote'.kind = "unborn" => remote.kind = "unborn"
      /\ latest' = latest \/ latest' = Closed
    <2>1. CASE Sync
        BY <2>1 DEF Sync, Exposed, PhoneIdentities
    <2>2. CASE OtherClientWrites
        <3>1. remote.kind = "live" /\ remote'.kind # "unborn" /\ creation' = creation
              /\ latest' = latest
            BY <1>1, <2>2, OtherParts DEF OtherClientWrites
        <3> QED
            BY <3>1 DEF PhoneIdentities
    <2>3. CASE \E call \in stray : LateArrival(call)
        BY <1>1, <2>3, TakenIs
    <2> QED
        BY <2>1, <2>2, <2>3
<1>4. Running' = Running /\ (Unsaved' <=> Unsaved)
    BY <1>2 DEF Running, Unsaved
<1>5. /\ StartParts' /\ StartSettles'
      /\ \A q \in placing' : \E p \in placing : q.list = p.list
    BY <1>2, <1>3, StartOn
<1>6. \A g \in flight' : g.boot => \E f \in flight : f.boot
    BY <1>1, <1>2, BootFlights
<1>7. StartKept'
    BY <1>1, <1>2, <1>3, <1>4, <1>5, <1>6, StartKeptOn
<1> QED
    BY <1>5, <1>7

LEMMA StartRestart ==
    ASSUME MobileInv, PartsInv', Restart
    PROVE  StartParts' /\ StartKept' /\ StartSettles'
<1>1. PartsInv /\ HandlersInv /\ StartParts /\ StartKept
    BY DEF MobileInv, PartsInv
<1>2. /\ placing' = {} /\ saved' = saved /\ latest' = Exposed
      /\ remote' = remote /\ creation' = creation
      /\ handlers' = [n \in DOMAIN handlers |-> Returned]
    BY DEF Restart
<1>3. PhoneIdentities' = PhoneIdentities /\ Running' = {}
    BY <1>1, <1>2, RestartParts DEF PhoneIdentities
<1>4. handlers' = <<>> => handlers = <<>>
    <2>1. /\ Len(handlers) \in Nat /\ DOMAIN handlers = 1 .. Len(handlers)
          /\ handlers \in Seq(HandlerRec \cup {Returned})
        BY <1>1, HandlersFacts DEF HandlersInv
    <2>2. handlers' = [n \in 1 .. Len(handlers) |-> Returned]
        BY <1>2, <2>1
    <2>3. handlers' \in Seq(HandlerRec \cup {Returned}) /\ Len(handlers') = Len(handlers)
        BY <2>1, <2>2
    <2> QED
        BY <2>1, <2>3
<1>5. latest' # Closed => latest' = latest /\ ~Unsaved
    BY <1>2 DEF Exposed
<1> QED
    BY <1>1, <1>2, <1>3, <1>4, <1>5 DEF StartParts, StartKept, StartSettles

LEMMA StartPlaces ==
    ASSUME MobileInv, PartsInv', NEW p \in placing, BootPlaces(p)
    PROVE  StartParts' /\ StartKept' /\ StartSettles'
<1>1. PartsInv /\ LatestInv /\ StartParts /\ StartKept
    BY DEF MobileInv
<1>2. /\ placing' = {} /\ (saved' = p.list \/ saved' = saved)
      /\ remote' = remote /\ creation' = creation /\ handlers' = handlers
      /\ flight' = flight /\ latest' = latest
    BY DEF BootPlaces
<1>3. PhoneIdentities' = PhoneIdentities /\ Running' = Running /\ (Unsaved' <=> Unsaved)
    BY <1>2 DEF PhoneIdentities, Running, Unsaved
<1>4. StartParts'
    BY <1>1, <1>2, <1>3 DEF StartParts
<1>5. StartKept' /\ StartSettles'
    BY <1>1, <1>2, <1>3 DEF StartKept, StartSettles
<1> QED
    BY <1>4, <1>5

LEMMA StartStep ==
    ASSUME MobileInv, PartsInv', LatestInv', [MobileNext]_mobileVars
    PROVE  StartParts' /\ StartKept' /\ StartSettles'
<1>1. CASE UNCHANGED mobileVars
    <2>1. /\ remote' = remote /\ creation' = creation /\ handlers' = handlers /\ saved' = saved
          /\ placing' = placing /\ flight' = flight /\ stray' = stray /\ latest' = latest
        BY <1>1 DEF mobileVars
    <2>2. PhoneIdentities' = PhoneIdentities /\ Running' = Running /\ (Unsaved' <=> Unsaved)
        BY <2>1 DEF PhoneIdentities, Running, Unsaved
    <2>3. StartParts' /\ StartKept'
        BY <2>1, <2>2 DEF MobileInv, StartParts, StartKept
    <2>4. \A list : SettledList(list) => SettledList(list)'
        BY <2>1, SettledStays
    <2>5. StartSettles'
        BY <2>1, <2>2, <2>4 DEF MobileInv, StartSettles
    <2> QED
        BY <2>3, <2>5
<1>2. CASE MobileNext
    <2>1. CASE Add \/ \E i \in DOMAIN tasks :
                \/ \E type \in CommandTypes : \E value \in Values(type) : Command(tasks[i], type, value)
                \/ ResolveRemote(tasks[i]) \/ ResolveLocal(tasks[i])
        BY <2>1, StartCommands
    <2>2. CASE \E n \in DOMAIN handlers : ReminderIsSet(n) \/ HandlerIsAnswered(n) \/ HandlerEnds(n)
        BY <2>2, StartHandlers
    <2>3. CASE \E f \in flight : \/ FlightFetches(f) \/ FlightFails(f) \/ FlightReconciles(f)
                                 \/ FlightFollowsUp(f) \/ FlightEnds(f)
        BY <2>3, StartFlights, StartFails, StartEnds
    <2>4. CASE Sync \/ OtherClientWrites \/ \E call \in stray : LateArrival(call)
        BY <2>4, StartSurroundings
    <2>5. CASE Restart \/ \E p \in placing : BootPlaces(p)
        BY <2>5, StartRestart, StartPlaces
    <2> QED
        BY <1>2, <2>1, <2>2, <2>3, <2>4, <2>5 DEF MobileNext
<1> QED
    BY <1>1, <1>2

-----------------------------------------------------------------------------
(* The theorems.                                                           *)

LEMMA MobileInvInit ==
    ASSUME MobileInit
    PROVE  MobileInv
<1>1. flight = {} /\ placing = {} /\ saved = tasks /\ latest = Closed /\ settled = FALSE
    BY DEF MobileInit
<1>2. PartsInv
    BY InitParts
<1>3. StartParts
    BY <1>1, <1>2 DEF StartParts, PartsInv, ListInv, SeenList, OriginInv
<1> QED
    BY <1>1, <1>2, <1>3 DEF MobileInv, LatestInv, SettleInv, FlightsSettle, StartKept, StartSettles

LEMMA MobileInvStep ==
    ASSUME MobileInv, [MobileNext]_mobileVars
    PROVE  MobileInv'
<1>1. PartsInv'
    BY PartsStep DEF MobileInv
<1>2. LatestInv' /\ SettleInv'
    BY <1>1, LatestStep, SettleStep DEF MobileInv
<1>3. StartParts' /\ StartKept' /\ StartSettles'
    BY <1>1, <1>2, StartStep
<1> QED
    BY <1>1, <1>2, <1>3 DEF MobileInv

LEMMA MobileTyped ==
    ASSUME MobileInv
    PROVE  MobileTypeOK
<1>1. /\ remote \in [kind : {"unborn", "live", "gone"}, task : Task]
      /\ shown \subseteq Nat /\ CommandOK(latest) /\ Len(handlers) <= MaxCommands
      /\ IsList(tasks) /\ IsList(saved) /\ \A p \in placing : IsList(p.list)
    BY DEF MobileInv, PartsInv, ServerInv, HandlersInv, ListInv, SeenList, GoodList, StartParts
<1>2. \A list \in {tasks, saved} \cup {p.list : p \in placing} :
        Len(list) <= 2 /\ \A i \in DOMAIN list : list[i] \in ListEntry
    <2> SUFFICES ASSUME NEW list \in {tasks, saved} \cup {p.list : p \in placing}
                 PROVE  Len(list) <= 2 /\ \A i \in DOMAIN list : list[i] \in ListEntry
        OBVIOUS
    <2>1. IsList(list)
        BY <1>1
    <2> QED
        BY <2>1, ListEntries
<1>3. latest.type \in CommandTypes \cup {"create", Unset}
    <2>1. latest.type \in AnyType \cup {Unset}
        BY <1>1 DEF CommandOK
    <2> QED
        BY <2>1 DEF AnyType
<1> QED
    BY <1>1, <1>2, <1>3 DEF MobileTypeOK

LEMMA MobileKept ==
    ASSUME MobileInv
    PROVE  MobileIsSound
<1>1. OneTaskPerAddition
    <2>1. copies = creation.key /\ creation.key \in {0, 1}
        BY DEF MobileInv, PartsInv, ServerInv
    <2> QED
        BY <2>1 DEF OneTaskPerAddition
<1>2. NothingUnseenIsReplaced
    BY DEF MobileInv, PartsInv, ServerInv, NothingUnseenIsReplaced
<1>3. LatestIsKept
    <2> SUFFICES ASSUME latest # Closed
                 PROVE  Len(handlers) \in Running \/ \E i \in DOMAIN tasks : StillHolds(tasks[i])
        BY DEF LatestIsKept
    <2>1. CASE Unsaved
        BY <2>1 DEF Unsaved
    <2>2. CASE ~Unsaved
        <3>1. PICK e \in MobileEntries(tasks) : HasIt(e, latest)
            BY <2>2 DEF MobileInv, LatestInv, Keeps
        <3>2. StillHolds(e)
            BY <3>1 DEF HasIt, StillHolds
        <3> QED
            BY <3>2 DEF MobileEntries
    <2> QED
        BY <2>1, <2>2
<1>4. FlightsSettle
    BY DEF MobileInv, SettleInv
<1> QED
    BY <1>1, <1>2, <1>3, <1>4 DEF MobileIsSound

\* Whatever the storage, the replies and the synchronisations do, the list on the
\* phone has entries of the shape of taskSync.js, one at most of each identity.
THEOREM MobileTypeSafe == MobileSpec => []MobileTypeOK
<1>1. MobileInit => MobileInv
    BY MobileInvInit
<1>2. MobileInv /\ [MobileNext]_mobileVars => MobileInv'
    BY MobileInvStep
<1>3. MobileInv => MobileTypeOK
    BY MobileTyped
<1> QED
    BY <1>1, <1>2, <1>3, PTL DEF MobileSpec

\* The offline queue of the phone (taskSync.js, useTaskSyncController.js), for any number of
\* commands and mishaps: a creation makes one task, no command overwrites a
\* revision the phone has not seen, and the last command, if it was given while
\* no handler, flight or start of the app was in progress, is not dropped before
\* the server has it or the user gives it up. A synchronisation, or a start
\* until its list is placed, that nothing disturbed ends with the server's list.
THEOREM MobileSound == MobileSpec => []MobileIsSound
<1>1. MobileInit => MobileInv
    BY MobileInvInit
<1>2. MobileInv /\ [MobileNext]_mobileVars => MobileInv'
    BY MobileInvStep
<1>3. MobileInv => MobileIsSound
    BY MobileKept
<1> QED
    BY <1>1, <1>2, <1>3, PTL DEF MobileSpec
===============================================================================
