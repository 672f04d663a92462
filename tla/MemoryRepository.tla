-------------------------- MODULE MemoryRepository --------------------------
(***************************************************************************)
(* Confirmed memory of one user: records and idempotency receipts in       *)
(* MongoDB, the disposable index of candidate points in Qdrant, and the    *)
(* requests of /v2/memory between them. prepare signs a consent receipt;   *)
(* confirm verifies it, reads, decides, writes in one transaction and then *)
(* reconciles the whole index; retrieval-shadow asks the index and         *)
(* revalidates every candidate against MongoDB.                            *)
(*                                                                         *)
(* A call of a store is one step, so requests interleave at every call,    *)
(* fail at every call, and clients repeat them. MongoDB drops expired      *)
(* records in its own time.                                                *)
(***************************************************************************)
EXTENDS Naturals

CONSTANTS
    Ids,      \* memory ids
    Topics,   \* conflict keys
    Contents, \* distinguishable contents
    Intents,  \* what users confirm: action, id, topic, content, replacement, expiry
    Keys,     \* idempotency keys
    Workers,  \* requests in flight
    Exact,    \* whether clocks show whole milliseconds: TRUE, FALSE or both
    Ttl,      \* confirmation_ttl_seconds
    Horizon,  \* bound: the last instant
    Redacted, \* the content "[deleted]"
    None      \* no record, point, intent, key or receipt

Actions == {"create", "supersede", "revoke", "delete"}

Times == 0 .. Horizon

Intent == [action : Actions, id : Ids, topic : Topics, content : Contents \cup {Redacted},
           replacement : Ids, expires : Nat]

ASSUME MemoryConstants ==
    /\ Topics # {} /\ Intents \subseteq Intent
    /\ \A i \in Intents : i.action = "supersede" => i.replacement # i.id
    /\ \A i \in Intents : i.action \in {"create", "supersede"} => i.content # Redacted
    /\ Exact \subseteq BOOLEAN
    /\ Ttl \in Nat /\ Horizon \in Nat
    /\ None \notin Ids \cup Topics \cup Contents \cup Intents \cup Keys \cup {Redacted}

VARIABLES
    records,   \* records[m]: the record of memory m in memory_records
    receipts,  \* receipts[k]: the idempotency receipt of key k
    points,    \* points[m]: the point of memory m in the index
    prepared,  \* prepared[i]: until when the consent receipt of intent i is valid
    now,       \* the clock
    workers,   \* workers[w]: where request w is
    withdrawn  \* history: intents whose memory was since retired or dropped

vars == <<records, receipts, points, prepared, now, workers, withdrawn>>

-----------------------------------------------------------------------------
(* Types.                                                                  *)

Statuses == {"active", "superseded", "consent_revoked", "deleted"}

\* A stored record. Its times are left out, except for its expiry.
Record == [status : Statuses, topic : Topics, content : Contents \cup {Redacted},
           consent : Intents, prev : Ids \cup {None}, next : Ids \cup {None}, expires : Nat]

Stored == Record \cup {None}

\* What a mutation fingerprints. `old` is the record it supersedes.
Fingerprint == [old : Stored, new : Record]

\* The times in a fingerprint are those of the process; MongoDB keeps
\* milliseconds. A fingerprint of other times equals no later one: None.
Receipt == [id : Ids, print : Fingerprint \cup {None}]

Point == [content : Contents \cup {Redacted}, expires : Nat]

ASSUME NoneIsNoRecord == None \notin Record

Calls == {"idle", "get", "list", "replacement", "save", "recheck", \* confirm
          "answered", "refused",
          "inventory", "repair", "upsert", \* _reconcile
          "visit"}                                      \* search

Worker ==
    [at : Calls, intent : Intents \cup {None}, key : Keys \cup {None},
     old   : Stored,          \* the record that is to be superseded
     new   : Stored,          \* the record that is to be saved
     seen  : Stored,          \* the record as it was read
     plan  : [Ids -> Stored], \* reconcile: records as listed; search: records found
     hits  : [Ids -> Point \cup {None}],
     todo  : SUBSET Ids, next : Ids \cup {None},
     asked : Nat,             \* the clock when it was last read
     calm  : BOOLEAN,         \* history: nothing else moved since the records were listed
     gone  : SUBSET Intents]  \* history: `withdrawn` when the search began

TypeOK ==
    /\ records \in [Ids -> Stored]
    /\ receipts \in [Keys -> Receipt \cup {None}]
    /\ points \in [Ids -> Point \cup {None}]
    /\ prepared \in [Intents -> Nat \cup {None}]
    /\ now \in Times
    /\ workers \in [Workers -> Worker]
    /\ withdrawn \subseteq Intents
    /\ \A m \in Ids : records[m] # None =>
          (records[m].status = "deleted" <=> records[m].content = Redacted)

Idle == [at |-> "idle", intent |-> None, key |-> None, old |-> None, new |-> None,
         seen |-> None, plan |-> [m \in Ids |-> None], hits |-> [m \in Ids |-> None],
         todo |-> {}, next |-> None, asked |-> 0, calm |-> FALSE, gone |-> {}]

Init ==
    /\ records = [m \in Ids |-> None]
    /\ receipts = [k \in Keys |-> None]
    /\ points = [m \in Ids |-> None]
    /\ prepared = [i \in Intents |-> None]
    /\ now = 0
    /\ workers = [w \in Workers |-> Idle]
    /\ withdrawn = {}

-----------------------------------------------------------------------------
(* prepare and confirm: what is decided before the transaction.            *)

Goes(w, at) == workers' = [workers EXCEPT ![w].at = at]

\* The decision is made; what it was made on is not needed any more.
Decided(at) == [Idle EXCEPT !.at = at]
Returns(w, at) == workers' = [workers EXCEPT ![w] = Decided(at)]

Is(m, s) == records[m] # None /\ records[m].status = s

Sooner(s, t) == IF s < t THEN s ELSE t

\* prepare: a receipt for an intent, valid for the policy's lifetime. All but
\* create need the memory to be there. An intent is prepared once; the same
\* words confirmed anew are another intent.
Prepare(i) ==
    /\ prepared[i] = None
    /\ IF i.action = "create" THEN i.expires > now ELSE records[i.id] # None
    /\ prepared' = [prepared EXCEPT ![i] = Sooner(now + Ttl, Horizon + 1)]
    /\ UNCHANGED <<records, receipts, points, now, workers, withdrawn>>

\* _confirm and, for create, the expiry: checks of the receipt and the clock.
Confirmed(i) ==
    /\ prepared[i] # None
    /\ prepared[i] > now
    /\ i.action = "create" => i.expires > now

Receive(w, i, k) ==
    /\ workers[w].at = "idle"
    /\ Confirmed(i)
    /\ workers' = [workers EXCEPT ![w] = [Idle EXCEPT !.at = "get", !.intent = i, !.key = k]]
    /\ UNCHANGED <<records, receipts, points, prepared, now, withdrawn>>

NewRecord(i) == [status |-> "active", topic |-> i.topic, content |-> i.content, consent |-> i,
                 prev |-> None, next |-> None, expires |-> i.expires]

\* Mutant: a deleted record keeps its content.
RetiredInPlace(i, r) ==
    [r EXCEPT !.status = IF i.action = "revoke" THEN "consent_revoked" ELSE "deleted",
              !.consent = i]

\* The outcome of _transition on the record that was read.
Retired(i, r) == [r EXCEPT !.status = IF i.action = "revoke" THEN "consent_revoked" ELSE "deleted",
                           !.content = IF i.action = "revoke" THEN @ ELSE Redacted,
                           !.consent = i]

IsReplayOf(i, r) == r.consent = i /\ r.status = IF i.action = "revoke" THEN "consent_revoked"
                                                                       ELSE "deleted"

\* _create: the id is free, or this very create was answered before.
GetForCreate(w, i, r) ==
    IF r = None THEN Goes(w, "list")
    ELSE Returns(w, IF r.content = i.content /\ r.consent = i THEN "answered" ELSE "refused")

\* _transition: a replay saves the stored record again.
GetForTransition(w, i, r) ==
    IF r = None \/ (r # None /\ r.status = "deleted" /\ ~ IsReplayOf(i, r))
    THEN Returns(w, "refused")
    ELSE workers' = [workers EXCEPT ![w].at = "save", ![w].seen = r,
                        ![w].new = IF IsReplayOf(i, r) THEN r ELSE Retired(i, r)]

Get(w) ==
    LET i == workers[w].intent
        r == records[i.id]
    IN  /\ workers[w].at = "get"
        /\ CASE i.action = "create" -> GetForCreate(w, i, r)
             [] i.action = "supersede" ->
                  IF r = None THEN Returns(w, "refused")
                  ELSE workers' = [workers EXCEPT ![w].at = "replacement", ![w].seen = r]
             [] OTHER -> GetForTransition(w, i, r)
        /\ UNCHANGED <<records, receipts, points, prepared, now, withdrawn>>

\* _create: no active memory may have the topic.
List(w) ==
    LET i == workers[w].intent IN
    /\ workers[w].at = "list"
    /\ IF \E m \in Ids : Is(m, "active") /\ records[m].topic = i.topic
       THEN Returns(w, "refused")
       ELSE workers' = [workers EXCEPT ![w].at = "save", ![w].new = NewRecord(i)]
    /\ UNCHANGED <<records, receipts, points, prepared, now, withdrawn>>

\* Mutant: the successor does not name what it supersedes.
SuccessorOfNone(i, r) == [r EXCEPT !.content = i.content, !.consent = i, !.status = "active"]

Successor(i, r) == [r EXCEPT !.content = i.content, !.consent = i, !.prev = i.id, !.next = None,
                             !.status = "active"]

Superseded(i, r) == [r EXCEPT !.status = "superseded", !.next = i.replacement]

\* _is_supersede_replay
IsSupersedeReplay(i, r, n) ==
    /\ r.status = "superseded" /\ r.next = i.replacement
    /\ n # None
    /\ n.status = "active" /\ n.prev = i.id /\ n.content = i.content /\ n.consent = i

GetReplacement(w) ==
    LET i == workers[w].intent
        r == workers[w].seen
        n == records[i.replacement]
    IN  /\ workers[w].at = "replacement"
        /\ IF IsSupersedeReplay(i, r, n)
           THEN workers' = [workers EXCEPT ![w].at = "save", ![w].seen = None, ![w].old = r, ![w].new = n]
           ELSE IF r.status = "active" /\ n = None
           THEN workers' = [workers EXCEPT ![w].at = "save", ![w].seen = None, ![w].old = Superseded(i, r),
                                           ![w].new = Successor(i, r)]
           ELSE Returns(w, "refused")
        /\ UNCHANGED <<records, receipts, points, prepared, now, withdrawn>>

-----------------------------------------------------------------------------
(* The transaction.                                                        *)

\* Each of these changes what a reconciliation in progress has read.
Disturbing(w, at) ==
    workers' = [v \in Workers |-> IF v = w THEN Decided(at)
                                           ELSE [workers[v] EXCEPT !.calm = FALSE]]

Allowed == [active |-> {"superseded", "consent_revoked", "deleted"},
            superseded |-> {"deleted"}, consent_revoked |-> {"deleted"}, deleted |-> {}]

\* The partial unique index over the topics of active records.
Unique(rs) == \A m, n \in Ids :
    /\ rs[m] # None /\ rs[n] # None
    /\ rs[m].status = "active" /\ rs[n].status = "active"
    /\ rs[m].topic = rs[n].topic
    => m = n

FingerprintOf(w) == [old |-> workers[w].old, new |-> workers[w].new]

\* The id of the record that is saved.
Target(w) == LET i == workers[w].intent
             IN  IF i.action = "supersede" THEN i.replacement ELSE i.id

\* save: insert, or a step of the durable lifecycle.
Written(w) == [records EXCEPT ![Target(w)] = workers[w].new]

\* Mutant: no lifecycle.
MayWriteAny(w) == Unique(Written(w))

MayWrite(w) ==
    LET current == records[Target(w)] IN
    /\ current # None => workers[w].new.status \in Allowed[current.status]
    /\ Unique(Written(w))

\* supersede: the active record and its successor in one transaction.
BothWritten(w) == [Written(w) EXCEPT ![workers[w].intent.id] = workers[w].old]

\* Mutant: the superseded record need not be active any more.
MayWriteBothAnyway(w) == records[Target(w)] = None /\ Unique(BothWritten(w))

MayWriteBoth(w) ==
    LET m == workers[w].intent.id IN
    /\ records[Target(w)] = None
    /\ Is(m, "active") /\ records[m].content = workers[w].old.content
    /\ Unique(BothWritten(w))

Outcome(w) == IF workers[w].intent.action = "supersede" THEN BothWritten(w) ELSE Written(w)

MayCommit(w) ==
    IF workers[w].intent.action = "supersede" THEN MayWriteBoth(w) ELSE MayWrite(w)

\* The intents whose active memory is not active any more.
Ended(rs) == {records[m].consent : m \in {n \in Ids : Is(n, "active")
                                              /\ ~ (rs[n] # None /\ rs[n].status = "active")}}

\* A create is never saved twice. The others repeat what is stored, and match
\* the receipt if the clock had shown whole milliseconds.
Prints(w) == IF workers[w].intent.action = "create" THEN {None}
             ELSE {IF exact THEN FingerprintOf(w) ELSE None : exact \in Exact}

\* The receipt, then the record, in one transaction.
Commit(w) ==
    LET k == workers[w].key IN
    /\ workers[w].at = "save"
    /\ receipts[k] = None
    /\ MayCommit(w)
    /\ records' = Outcome(w)
    /\ \E print \in Prints(w) :
          receipts' = [receipts EXCEPT ![k] = [id |-> Target(w), print |-> print]]
    /\ withdrawn' = withdrawn \cup Ended(records')
    /\ Disturbing(w, "answered")
    /\ UNCHANGED <<points, prepared, now>>

\* _idempotency_result: the record the receipt names, as it is now.
Replay(w) ==
    LET r == receipts[workers[w].key] IN
    /\ workers[w].at \in {"save", "recheck"}
    /\ r # None
    /\ r.print = FingerprintOf(w)
    /\ Returns(w, IF records[r.id] # None THEN "answered" ELSE "refused")
    /\ UNCHANGED <<records, receipts, points, prepared, now, withdrawn>>

\* MemoryConflict: another fingerprint under the key, or a write that may not
\* be made. updated_at orders the writers of a record that moved since it was
\* read: the later write may be refused for its older time.
Conflict(w) ==
    LET r == receipts[workers[w].key] IN
    /\ workers[w].at = "save"
    /\ IF r # None THEN r.print # FingerprintOf(w)
                   ELSE \/ ~ MayCommit(w)
                        \/ /\ workers[w].intent.action \in {"revoke", "delete"}
                           /\ records[Target(w)] \notin {workers[w].seen, None}
    /\ workers' = [workers EXCEPT ![w].at = "recheck", ![w].seen = None]
    /\ UNCHANGED <<records, receipts, points, prepared, now, withdrawn>>

\* After a conflict the receipt is looked up once more.
Refuse(w) ==
    LET r == receipts[workers[w].key] IN
    /\ workers[w].at = "recheck"
    /\ r # None => r.print # FingerprintOf(w)
    /\ Goes(w, "refused")
    /\ UNCHANGED <<records, receipts, points, prepared, now, withdrawn>>

-----------------------------------------------------------------------------
(* MemoryProjectionReconciler.                                             *)

ListRecords(w) ==
    /\ workers[w].at = "answered"
    /\ workers' = [workers EXCEPT ![w] =
          [Idle EXCEPT !.at = "inventory", !.plan = records, !.calm = TRUE]]
    /\ UNCHANGED <<records, receipts, points, prepared, now, withdrawn>>

Projectable(r, t) == r # None /\ r.status = "active" /\ r.expires > t

\* Mutant: points without a record are left.
InventoryOfListed(w) ==
    /\ workers[w].at = "inventory"
    /\ workers' = [workers EXCEPT ![w].at = "repair", ![w].asked = now,
          ![w].todo = {m \in Ids : workers[w].plan[m] # None}]
    /\ UNCHANGED <<records, receipts, points, prepared, now, withdrawn>>

\* Every projectable record is uploaded again; of the others, listed or not,
\* those that have a point are removed.
Inventory(w) ==
    /\ workers[w].at = "inventory"
    /\ workers' = [workers EXCEPT ![w].at = "repair", ![w].asked = now,
          ![w].todo = {m \in Ids : Projectable(workers[w].plan[m], now) \/ points[m] # None}]
    /\ UNCHANGED <<records, receipts, points, prepared, now, withdrawn>>

\* delete, alone or as the first half of project
Remove(w, m) ==
    LET keep == Projectable(workers[w].plan[m], workers[w].asked) IN
    /\ workers[w].at = "repair"
    /\ m \in workers[w].todo
    /\ points' = [points EXCEPT ![m] = None]
    /\ workers' = [v \in Workers |->
          IF v # w THEN [workers[v] EXCEPT !.calm = FALSE]
          ELSE [workers[w] EXCEPT !.todo = @ \ {m}, !.at = IF keep THEN "upsert" ELSE "repair",
                                  !.next = IF keep THEN m ELSE None]]
    /\ UNCHANGED <<records, receipts, prepared, now, withdrawn>>

Upsert(w) ==
    LET m == workers[w].next
        r == workers[w].plan[m]
    IN  /\ workers[w].at = "upsert"
        /\ points' = [points EXCEPT ![m] = [content |-> r.content, expires |-> r.expires]]
        /\ workers' = [v \in Workers |->
              IF v # w THEN [workers[v] EXCEPT !.calm = FALSE]
              ELSE [workers[w] EXCEPT !.at = "repair", !.next = None]]
        /\ UNCHANGED <<records, receipts, prepared, now, withdrawn>>

-----------------------------------------------------------------------------
(* search.                                                                 *)

\* The index filters by status and expiry; a point is active when uploaded.
Query(w) ==
    /\ workers[w].at = "idle"
    /\ LET hit == {m \in Ids : points[m] # None /\ points[m].expires > now}
       IN  workers' = [workers EXCEPT ![w] =
              [Idle EXCEPT !.at = "visit", !.asked = now, !.gone = withdrawn, !.todo = hit,
                           !.hits = [m \in Ids |-> IF m \in hit THEN points[m] ELSE None]]]
    /\ UNCHANGED <<records, receipts, points, prepared, now, withdrawn>>

\* Mutant: the point's status is believed.
RevalidatedByPoint(w, m) == records[m] # None /\ records[m].expires > workers[w].asked

\* A candidate counts if the record is active, not expired, and the one that
\* was indexed.
Revalidated(w, m) == /\ Projectable(records[m], workers[w].asked)
                     /\ records[m].content = workers[w].hits[m].content

Contradicts(w, m) == \E n \in Ids : /\ workers[w].plan[n] # None
                                    /\ workers[w].plan[n].topic = records[m].topic

Visit(w, m) ==
    /\ workers[w].at = "visit"
    /\ m \in workers[w].todo
    /\ IF ~ Revalidated(w, m) THEN workers' = [workers EXCEPT ![w].todo = @ \ {m}]
       ELSE IF Contradicts(w, m) THEN Returns(w, "refused")
       ELSE workers' = [workers EXCEPT ![w].todo = @ \ {m}, ![w].plan[m] = records[m]]
    /\ UNCHANGED <<records, receipts, points, prepared, now, withdrawn>>

-----------------------------------------------------------------------------
\* The reply is sent, or the request ends without one: a store fails, or the
\* process. What it wrote stays.
Ends(w) ==
    /\ workers[w].at # "idle"
    /\ workers' = [workers EXCEPT ![w] = Idle]
    /\ UNCHANGED <<records, receipts, points, prepared, now, withdrawn>>

Tick ==
    /\ now < Horizon
    /\ now' = now + 1
    /\ workers' = [v \in Workers |-> [workers[v] EXCEPT !.calm = FALSE]]
    /\ UNCHANGED <<records, receipts, points, prepared, withdrawn>>

\* The TTL index drops an expired record, sooner or later.
Drop(m) ==
    /\ records[m] # None /\ records[m].expires <= now
    /\ records' = [records EXCEPT ![m] = None]
    /\ withdrawn' = withdrawn \cup Ended(records')
    /\ workers' = [v \in Workers |-> [workers[v] EXCEPT !.calm = FALSE]]
    /\ UNCHANGED <<receipts, points, prepared, now>>

Decide(w) == \/ \E i \in Intents, k \in Keys : Receive(w, i, k)
             \/ Get(w) \/ List(w) \/ GetReplacement(w)

Save(w) == Commit(w) \/ Replay(w) \/ Conflict(w) \/ Refuse(w)

Reconcile(w) == \/ ListRecords(w) \/ Inventory(w) \/ Upsert(w)
                \/ \E m \in Ids : Remove(w, m)

Search(w) == Query(w) \/ \E m \in Ids : Visit(w, m)

Next ==
    \/ \E i \in Intents : Prepare(i)
    \/ \E w \in Workers : Decide(w) \/ Save(w) \/ Reconcile(w) \/ Search(w) \/ Ends(w)
    \/ \E m \in Ids : Drop(m)
    \/ Tick

Spec == Init /\ [][Next]_vars

-----------------------------------------------------------------------------
(* Properties.                                                             *)

\* The register the requests implement, supersede as one step of it.
Register == INSTANCE MemoryRegister WITH
    Memories <- Ids,
    status <- [m \in Ids |-> IF records[m] = None THEN "absent" ELSE records[m].status],
    topic <- [m \in Ids |-> IF records[m] = None THEN CHOOSE t \in Topics : TRUE
                                                 ELSE records[m].topic]

\* The memories change only as the register allows, although requests decide
\* on what they read calls earlier.
RegisterSpec == Register!Spec

\* Nothing marks a consent receipt as used. Still, what was superseded,
\* revoked, erased or dropped is not brought back to life by repeating the
\* confirmed request, under whatever idempotency key, as long as no two intents
\* bring one id to life: clients make up a random id for every memory
\* (MemoryControls.tsx:19), the API takes any.
WithdrawnStaysWithdrawn ==
    \A m \in Ids : Projectable(records[m], now) => records[m].consent \notin withdrawn

\* The records are well formed, an erased one holds no content, and a superseded
\* memory names a successor that is there and names it back, until both expire:
\* a request that read the old one does not break the chain.
RecordsAreWhole ==
    /\ TypeOK
    /\ \A m \in Ids : Is(m, "superseded") /\ records[m].expires > now =>
          LET n == records[m].next IN
          /\ records[n] # None
          /\ records[n].prev = m
          /\ records[n].topic = records[m].topic

\* A search never returns a memory that had ceased to be active when it began,
\* however stale the points are that led to it. (In the instant of expiry it
\* may: a create that was checked before can then write the record anew.)
SearchServesTheLiving ==
    \A w \in Workers : workers[w].at = "visit" =>
        \A m \in Ids : workers[w].plan[m] # None /\ workers[w].plan[m].expires > now =>
            /\ workers[w].plan[m].status = "active"
            /\ workers[w].plan[m].consent \notin workers[w].gone

\* A reconciliation nobody disturbed leaves the index exact: a point for each
\* memory that may be found, and none besides.
SynchronizedIsExact ==
    \A w \in Workers : workers[w].at = "repair" /\ workers[w].todo = {} /\ workers[w].calm =>
        \A m \in Ids :
            IF Projectable(records[m], now)
            THEN points[m] = [content |-> records[m].content, expires |-> records[m].expires]
            ELSE points[m] = None

\* Claimed by a test: repeating a confirmed revocation or deletion under its
\* idempotency key returns the durable result.
ReplaysReturnTheResult ==
    \A w \in Workers : workers[w].at = "refused" /\ workers[w].intent # None =>
        LET i == workers[w].intent IN
        ~ /\ i.action \in {"revoke", "delete"}
          /\ records[i.id] # None /\ records[i.id].consent = i
          /\ receipts[workers[w].key] # None /\ workers[w].new = records[i.id]
=============================================================================
