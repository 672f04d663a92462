----------------------- MODULE MemoryRepositoryProofs -----------------------
(***************************************************************************)
(* Proofs about MemoryRepository, for any number of requests, memories,    *)
(* topics, keys and intents, any lifetimes and any horizon.                *)
(*                                                                         *)
(* The argument: a memory descends from one created memory, its root, by   *)
(* the supersessions that were confirmed; it has the topic and the expiry  *)
(* of its root in every incarnation, in the store and in the hands of any  *)
(* request. A memory that was withdrawn is stored in another stage, or was *)
(* dropped because its root had expired. In the first case the durable     *)
(* lifecycle keeps it there; in the second, whatever a late request writes *)
(* anew has expired, too.                                                  *)
(***************************************************************************)
EXTENDS MemoryRepository, TLAPS

\* The intents that bring a memory to life.
Makes(i, m) == \/ i.action = "create" /\ i.id = m
               \/ i.action = "supersede" /\ i.replacement = m

\* Clients make up a new id for every memory, as the web client does
\* (MemoryControls.tsx); a request that is repeated is the same intent.
IdsAreFresh == \A m \in Ids, i, j \in Intents : Makes(i, m) /\ Makes(j, m) => i = j

-----------------------------------------------------------------------------
(* The inductive invariant.                                                *)

Deciding == {"get", "list", "replacement", "save"}

\* Erased and redacted is the same thing.
WellFormed(r) == r.status = "deleted" <=> r.content = Redacted

\* What a request that is on its way has in hand.
Request(r) ==
    /\ r.at \in Deciding => r.intent \in Intents
    /\ r.at \in Deciding \cup {"recheck"} => r.key \in Keys
    /\ r.at = "list" => r.intent.action = "create"
    /\ r.at = "replacement" => /\ r.intent.action = "supersede"
                               /\ r.seen \in Record /\ WellFormed(r.seen)
    /\ r.at = "save" => r.new \in Record /\ WellFormed(r.new)
    /\ r.at = "save" /\ r.intent.action = "supersede" => r.old \in Record /\ WellFormed(r.old)
    /\ r.at = "upsert" => r.next \in Ids /\ Projectable(r.plan[r.next], r.asked)

Exactly(m) ==
    IF Projectable(records[m], now)
    THEN points[m] = [content |-> records[m].content, expires |-> records[m].expires]
    ELSE points[m] = None

\* A reconciliation that nobody disturbed has the records, and has put in order
\* what is not to be done any more.
Undisturbed(r) ==
    /\ r.at \in {"inventory", "repair", "upsert"}
    /\ r.plan = records
    /\ r.at # "inventory" => r.asked = now
    /\ r.at # "inventory" =>
          \A m \in Ids \ r.todo : (r.at = "upsert" /\ r.next = m) \/ Exactly(m)

\* What holds of a request, whatever the clients call their memories.
Sound(r) ==
    /\ Request(r)
    /\ r.calm => Undisturbed(r)
    /\ r.at = "visit" => r.gone \subseteq withdrawn

Plain == TypeOK /\ \A w \in Workers : Sound(workers[w])

\* The created memories that memories descend from.
Roots == [Ids -> Intents \cup {None}]

\* Roots are passed on by supersession.
Rooted(root) ==
    \A m \in Ids : root[m] # None =>
        /\ root[m].action = "create"
        /\ \E i \in Intents : /\ Makes(i, m)
                              /\ root[m] = IF i.action = "create" THEN i ELSE root[i.id]

\* The record r, of memory m, has the topic and the expiry of the root.
Descends(r, m, root) ==
    /\ root[m] # None
    /\ r.topic = root[m].topic /\ r.expires = root[m].expires
    /\ r.status = "active" => Makes(r.consent, m)
    /\ r.status = "superseded" =>
          \E i \in Intents : i.action = "supersede" /\ i.id = m /\ i.replacement = r.next
    /\ \A i \in Intents : i.action = "supersede" /\ i.replacement = m => r.prev = i.id

\* What a request is about to write.
Writes(r, root) ==
    LET i == r.intent IN
    /\ r.at = "replacement" => Descends(r.seen, i.id, root)
    /\ r.at = "save" =>
        CASE i.action = "create" -> r.new = NewRecord(i)
          [] i.action = "supersede" ->
                /\ Descends(r.old, i.id, root)
                /\ r.old.status = "superseded" /\ r.old.next = i.replacement
                /\ r.new.status = "active" /\ r.new.consent = i /\ r.new.prev = i.id
                /\ r.new.topic = r.old.topic /\ r.new.expires = r.old.expires
          [] OTHER ->
                /\ Descends(r.new, i.id, root)
                /\ r.new.status = IF i.action = "revoke" THEN "consent_revoked" ELSE "deleted"

Stands(m) == records[m] = None \/ Is(m, "active")

\* The memories as their roots explain them.
Lineage(root) ==
    /\ Rooted(root)
    /\ \A m \in Ids : records[m] # None => Descends(records[m], m, root)
    /\ \A w \in Workers : Writes(workers[w], root)
    /\ \A i \in withdrawn, m \in Ids : Makes(i, m) =>
          root[m] # None /\ (Stands(m) => root[m].expires <= now)
    /\ \A m \in Ids : Is(m, "superseded") /\ records[m].expires > now =>
          records[records[m].next] # None

\* What a search has found so far.
Serves(r) ==
    r.at = "visit" => \A m \in Ids : r.plan[m] # None /\ r.plan[m].expires > now =>
        r.plan[m].status = "active" /\ r.plan[m].consent \notin r.gone

IInv ==
    /\ Plain
    /\ \E root \in Roots : Lineage(root)
    /\ \A w \in Workers : Serves(workers[w])

-----------------------------------------------------------------------------
(* Data.                                                                   *)

LEMMA WorkerFields ==
    ASSUME NEW r \in Worker
    PROVE  /\ r.at \in Calls
           /\ r.intent \in Intents \cup {None} /\ r.key \in Keys \cup {None}
           /\ r.old \in Stored /\ r.new \in Stored /\ r.seen \in Stored
           /\ r.plan \in [Ids -> Stored]
           /\ r.hits \in [Ids -> Point \cup {None}]
           /\ r.todo \subseteq Ids /\ r.next \in Ids \cup {None}
           /\ r.asked \in Nat /\ r.calm \in BOOLEAN /\ r.gone \subseteq Intents
BY DEF Worker

LEMMA RecordFields ==
    ASSUME NEW r \in Record
    PROVE  /\ r.status \in Statuses /\ r.topic \in Topics
           /\ r.content \in Contents \cup {Redacted} /\ r.consent \in Intents
           /\ r.prev \in Ids \cup {None} /\ r.next \in Ids \cup {None} /\ r.expires \in Nat
           /\ r # None
BY NoneIsNoRecord DEF Record

LEMMA IntentFields ==
    ASSUME NEW i \in Intents
    PROVE  /\ i.action \in Actions /\ i.id \in Ids /\ i.topic \in Topics
           /\ i.content \in Contents \cup {Redacted}
           /\ i.replacement \in Ids /\ i.expires \in Nat
           /\ i # None
           /\ i.action = "supersede" => i.replacement # i.id
           /\ i.action \in {"create", "supersede"} => i.content # Redacted
BY MemoryConstants DEF Intent

\* A request that was not made, or that is decided.
LEMMA DecidedIsWorker ==
    ASSUME NEW at \in Calls
    PROVE  /\ Decided(at) \in Worker
           /\ Decided(at).at = at /\ ~ Decided(at).calm
BY DEF Decided, Idle, Worker, Stored

LEMMA IdleIsWorker == Idle \in Worker /\ Idle.at = "idle" /\ ~ Idle.calm
BY DEF Idle, Worker, Stored, Calls

LEMMA NewRecordIsWhole ==
    ASSUME NEW i \in Intents, i.action = "create"
    PROVE  NewRecord(i) \in Record /\ WellFormed(NewRecord(i))
BY IntentFields DEF NewRecord, Record, Statuses, WellFormed

\* The record of the decision to retire r.
LEMMA RetiredRecord ==
    ASSUME NEW i \in Intents, i.action \in {"revoke", "delete"},
           NEW r \in Record, WellFormed(r), r.status # "deleted"
    PROVE  /\ Retired(i, r) \in Record /\ WellFormed(Retired(i, r))
           /\ Retired(i, r).status = IF i.action = "revoke" THEN "consent_revoked" ELSE "deleted"
           /\ Retired(i, r).topic = r.topic /\ Retired(i, r).expires = r.expires
           /\ Retired(i, r).prev = r.prev
BY DEF Retired, Record, Statuses, WellFormed

\* The two records of a supersession.
LEMMA SupersededRecord ==
    ASSUME NEW i \in Intents, i.action = "supersede",
           NEW r \in Record, WellFormed(r), r.status = "active"
    PROVE  /\ Superseded(i, r) \in Record /\ WellFormed(Superseded(i, r))
           /\ Superseded(i, r).status = "superseded" /\ Superseded(i, r).next = i.replacement
           /\ Superseded(i, r).topic = r.topic /\ Superseded(i, r).expires = r.expires
           /\ Superseded(i, r).prev = r.prev
BY IntentFields DEF Superseded, Record, Statuses, WellFormed

LEMMA SuccessorRecord ==
    ASSUME NEW i \in Intents, i.action = "supersede", NEW r \in Record
    PROVE  /\ Successor(i, r) \in Record /\ WellFormed(Successor(i, r))
           /\ Successor(i, r).status = "active" /\ Successor(i, r).consent = i
           /\ Successor(i, r).prev = i.id
           /\ Successor(i, r).topic = r.topic /\ Successor(i, r).expires = r.expires
BY IntentFields DEF Successor, Record, Statuses, WellFormed

\* The record that is stored.
LEMMA StoredRecord ==
    ASSUME TypeOK, NEW m \in Ids, records[m] # None
    PROVE  records[m] \in Record /\ WellFormed(records[m])
BY DEF TypeOK, Stored, WellFormed

\* What is typed of a request.
LEMMA WorkerState ==
    ASSUME Plain, NEW w \in Workers
    PROVE  /\ workers[w] \in Worker /\ Sound(workers[w])
           /\ workers[w].at \notin {"inventory", "repair", "upsert"} => ~ workers[w].calm
<1>1. workers[w] \in Worker /\ Sound(workers[w])
    BY DEF Plain, TypeOK
<1> QED
    BY <1>1, WorkerFields DEF Sound, Undisturbed

\* Nothing is asked of a request that is not on its way.
LEMMA RestingIsSound ==
    ASSUME NEW r \in Worker, r.at \in {"idle", "answered", "refused"}, ~ r.calm
    PROVE  Sound(r) /\ Serves(r) /\ \A root : Writes(r, root)
BY DEF Sound, Request, Deciding, Serves, Writes

-----------------------------------------------------------------------------
(* The steps that move one request and nothing else.                       *)

Rest == <<records, receipts, points, prepared, now, withdrawn>>

\* What there is to show of a step that makes r of request w.
Moves(w, r) ==
    /\ workers' = [workers EXCEPT ![w] = r]
    /\ r \in Worker /\ Sound(r)
    /\ UNCHANGED Rest
    /\ IdsAreFresh /\ Serves(workers[w]) =>
          \A root \in Roots : Lineage(root) => Writes(r, root) /\ Serves(r)

\* A request that is decided.
LEMMA ReturnsMoves ==
    ASSUME Plain, NEW w \in Workers, NEW at \in {"idle", "answered", "refused"},
           Returns(w, at), UNCHANGED Rest
    PROVE  \E r : Moves(w, r)
<1>1. at \in Calls
    BY DEF Calls
<1>2. Decided(at) \in Worker /\ Decided(at).at = at /\ ~ Decided(at).calm
    BY <1>1, DecidedIsWorker
<1>3. Sound(Decided(at)) /\ Serves(Decided(at)) /\ \A root : Writes(Decided(at), root)
    BY <1>2, RestingIsSound
<1>4. Moves(w, Decided(at))
    BY <1>2, <1>3 DEF Moves, Returns
<1> QED
    BY <1>4

LEMMA EndsMoves ==
    ASSUME Plain, NEW w \in Workers, Ends(w)
    PROVE  \E r : Moves(w, r)
<1>1. Sound(Idle) /\ Serves(Idle) /\ \A root : Writes(Idle, root)
    BY IdleIsWorker, RestingIsSound
<1>2. Moves(w, Idle)
    BY <1>1, IdleIsWorker DEF Moves, Ends, Rest
<1> QED
    BY <1>2

LEMMA RefuseMoves ==
    ASSUME Plain, NEW w \in Workers, Refuse(w)
    PROVE  \E r : Moves(w, r)
<1> DEFINE q == workers[w]
           r == [q EXCEPT !.at = "refused"]
<1>1. q \in Worker /\ q.at = "recheck" /\ ~ q.calm
    BY WorkerState, WorkerFields DEF Refuse
<1>2. r \in Worker /\ r.at = "refused" /\ ~ r.calm
    BY <1>1 DEF Worker, Calls
<1>4. workers' = [workers EXCEPT ![w] = r] /\ UNCHANGED Rest
    BY DEF Refuse, Goes, Rest
<1> HIDE DEF r
<1>3. Sound(r) /\ Serves(r) /\ \A root : Writes(r, root)
    BY <1>2, RestingIsSound
<1>5. Moves(w, r)
    BY <1>2, <1>3, <1>4 DEF Moves
<1> QED
    BY <1>5

LEMMA ReplayMoves ==
    ASSUME Plain, NEW w \in Workers, Replay(w)
    PROVE  \E r : Moves(w, r)
<1>1. UNCHANGED Rest /\ \E at \in {"idle", "answered", "refused"} : Returns(w, at)
    BY DEF Replay, Rest
<1> QED
    BY <1>1, ReturnsMoves

LEMMA ConflictMoves ==
    ASSUME Plain, NEW w \in Workers, Conflict(w)
    PROVE  \E r : Moves(w, r)
<1> DEFINE q == workers[w]
           r == [q EXCEPT !.at = "recheck", !.seen = None]
<1>1. q \in Worker /\ q.at = "save" /\ ~ q.calm /\ Sound(q)
    BY WorkerState, WorkerFields DEF Conflict
<1>2. r \in Worker /\ r.at = "recheck" /\ ~ r.calm /\ r.key = q.key
    BY <1>1 DEF Worker, Calls, Stored
<1>3. workers' = [workers EXCEPT ![w] = r] /\ UNCHANGED Rest
    BY DEF Conflict, Rest
<1> HIDE DEF r
<1>4. Sound(r) /\ Serves(r) /\ \A root : Writes(r, root)
    BY <1>1, <1>2 DEF Sound, Request, Deciding, Serves, Writes
<1>5. Moves(w, r)
    BY <1>2, <1>3, <1>4 DEF Moves
<1> QED
    BY <1>5

LEMMA ReceiveMoves ==
    ASSUME Plain, NEW w \in Workers, NEW i \in Intents, NEW k \in Keys, Receive(w, i, k)
    PROVE  \E r : Moves(w, r)
<1> DEFINE r == [Idle EXCEPT !.at = "get", !.intent = i, !.key = k]
<1>1. r \in Worker /\ r.at = "get" /\ ~ r.calm /\ r.intent = i /\ r.key = k
    BY DEF Idle, Worker, Calls, Stored
<1>2. workers' = [workers EXCEPT ![w] = r] /\ UNCHANGED Rest
    BY DEF Receive, Rest
<1> HIDE DEF r
<1>3. Sound(r) /\ Serves(r) /\ \A root : Writes(r, root)
    BY <1>1 DEF Sound, Request, Deciding, Serves, Writes
<1>4. Moves(w, r)
    BY <1>1, <1>2, <1>3 DEF Moves
<1> QED
    BY <1>4

LEMMA ListRecordsMoves ==
    ASSUME Plain, NEW w \in Workers, ListRecords(w)
    PROVE  \E r : Moves(w, r)
<1> DEFINE r == [Idle EXCEPT !.at = "inventory", !.plan = records, !.calm = TRUE]
<1>0. records \in [Ids -> Stored]
    BY DEF Plain, TypeOK
<1>1. r \in Worker /\ r.at = "inventory" /\ r.plan = records
    BY <1>0 DEF Idle, Worker, Calls, Stored
<1>2. workers' = [workers EXCEPT ![w] = r] /\ UNCHANGED Rest
    BY DEF ListRecords, Rest
<1> HIDE DEF r
<1>3. Sound(r) /\ Serves(r) /\ \A root : Writes(r, root)
    BY <1>1 DEF Sound, Request, Deciding, Undisturbed, Serves, Writes
<1>4. Moves(w, r)
    BY <1>1, <1>2, <1>3 DEF Moves
<1> QED
    BY <1>4

LEMMA InventoryMoves ==
    ASSUME Plain, NEW w \in Workers, Inventory(w)
    PROVE  \E r : Moves(w, r)
<1> DEFINE q == workers[w]
           todo == {m \in Ids : Projectable(q.plan[m], now) \/ points[m] # None}
           r == [q EXCEPT !.at = "repair", !.asked = now, !.todo = todo]
<1>1. q \in Worker /\ q.at = "inventory" /\ Sound(q) /\ now \in Nat
    BY WorkerState DEF Inventory, Plain, TypeOK, Times
<1>2. /\ r \in Worker /\ r.at = "repair" /\ r.asked = now /\ r.todo = todo
      /\ r.plan = q.plan /\ r.calm = q.calm
    BY <1>1 DEF Worker, Calls
<1>3. workers' = [workers EXCEPT ![w] = r] /\ UNCHANGED Rest
    BY DEF Inventory, Rest
<1>4. r.calm => Undisturbed(r)
    <2> SUFFICES ASSUME q.calm
                 PROVE  Undisturbed(r)
        BY <1>2
    <2>1. q.plan = records
        BY <1>1 DEF Sound, Undisturbed
    <2>2. ASSUME NEW m \in Ids \ todo
          PROVE  Exactly(m)
        BY <2>1 DEF Exactly
    <2> HIDE DEF r, todo
    <2> QED
        BY <1>2, <2>1, <2>2 DEF Undisturbed
<1> HIDE DEF r
<1>5. Sound(r) /\ Serves(r) /\ \A root : Writes(r, root)
    BY <1>2, <1>4 DEF Sound, Request, Deciding, Serves, Writes
<1>6. Moves(w, r)
    BY <1>2, <1>3, <1>5 DEF Moves
<1> QED
    BY <1>6

LEMMA QueryMoves ==
    ASSUME Plain, NEW w \in Workers, Query(w)
    PROVE  \E r : Moves(w, r)
<1> DEFINE hit == {m \in Ids : points[m] # None /\ points[m].expires > now}
           hits == [m \in Ids |-> IF m \in hit THEN points[m] ELSE None]
           r == [Idle EXCEPT !.at = "visit", !.asked = now, !.gone = withdrawn, !.todo = hit,
                             !.hits = hits]
<1>1. hits \in [Ids -> Point \cup {None}] /\ now \in Nat /\ withdrawn \subseteq Intents
      /\ hit \subseteq Ids
    BY DEF Plain, TypeOK, Times
<1>2. workers' = [workers EXCEPT ![w] = r] /\ UNCHANGED Rest
    BY DEF Query, Rest
<1> HIDE DEF hit, hits
<1>3. /\ r \in Worker /\ r.at = "visit" /\ r.gone = withdrawn /\ ~ r.calm
      /\ r.plan = [m \in Ids |-> None]
    BY <1>1 DEF Idle, Worker, Calls, Stored
<1> HIDE DEF r
<1>4. Sound(r) /\ Serves(r) /\ \A root : Writes(r, root)
    BY <1>3 DEF Sound, Request, Deciding, Serves, Writes
<1>5. Moves(w, r)
    BY <1>2, <1>3, <1>4 DEF Moves
<1> QED
    BY <1>5

\* What a stored memory descends from.
LEMMA StoredDescends ==
    ASSUME NEW root \in Roots, Lineage(root), NEW m \in Ids, records[m] # None
    PROVE  Descends(records[m], m, root)
BY DEF Lineage

LEMMA GetMoves ==
    ASSUME Plain, NEW w \in Workers, Get(w)
    PROVE  \E r : Moves(w, r)
<1> DEFINE q == workers[w]
           i == q.intent
           d == records[i.id]
<1>1. /\ q \in Worker /\ q.at = "get" /\ ~ q.calm
      /\ i \in Intents /\ q.key \in Keys
    BY WorkerState DEF Get, Sound, Request, Deciding
<1>2. i.action \in Actions /\ i.id \in Ids
    BY <1>1, IntentFields
<1>3. UNCHANGED Rest
    BY DEF Get, Rest
<1>4. d # None => d \in Record /\ WellFormed(d)
    BY <1>2, StoredRecord DEF Plain
<1>5. ASSUME NEW at \in {"answered", "refused"}, Returns(w, at)
      PROVE  \E r : Moves(w, r)
    BY <1>3, <1>5, ReturnsMoves
<1>6. CASE i.action = "create"
    <2>1. GetForCreate(w, i, d)
        BY <1>6 DEF Get
    <2>2. CASE d = None
        <3> DEFINE r == [q EXCEPT !.at = "list"]
        <3>1. r \in Worker /\ r.at = "list" /\ ~ r.calm /\ r.intent = i /\ r.key = q.key
            BY <1>1 DEF Worker, Calls
        <3>2. workers' = [workers EXCEPT ![w] = r]
            BY <2>1, <2>2 DEF GetForCreate, Goes
        <3> HIDE DEF r, q, i
        <3>3. Sound(r) /\ Serves(r) /\ \A root : Writes(r, root)
            BY <1>1, <1>6, <3>1 DEF Sound, Request, Deciding, Serves, Writes
        <3>4. Moves(w, r)
            BY <1>3, <3>1, <3>2, <3>3 DEF Moves
        <3> QED
            BY <3>4
    <2>3. CASE d # None
        BY <1>5, <2>1, <2>3 DEF GetForCreate
    <2> QED
        BY <2>2, <2>3
<1>7. CASE i.action = "supersede"
    <2>1. CASE d = None
        BY <1>5, <1>7, <2>1 DEF Get
    <2>2. CASE d # None
        <3> DEFINE r == [q EXCEPT !.at = "replacement", !.seen = d]
        <3>1. d \in Stored /\ d \in Record /\ WellFormed(d)
            BY <1>4, <2>2 DEF Stored
        <3>2. workers' = [workers EXCEPT ![w] = r]
            BY <1>7, <2>2 DEF Get
        <3> HIDE DEF d
        <3>3. /\ r \in Worker /\ r.at = "replacement" /\ ~ r.calm /\ r.intent = i /\ r.key = q.key
              /\ r.seen = d
            BY <1>1, <3>1 DEF Worker, Calls
        <3> HIDE DEF r, q, i
        <3>4. Sound(r) /\ Serves(r)
            BY <1>1, <1>7, <3>1, <3>3 DEF Sound, Request, Deciding, Serves
        <3>5. ASSUME NEW root \in Roots, Lineage(root)
              PROVE  Writes(r, root)
            <4>1. Descends(d, i.id, root)
                BY <1>2, <2>2, <3>5, StoredDescends DEF d
            <4> QED
                BY <3>3, <4>1 DEF Writes
        <3>6. Moves(w, r)
            BY <1>3, <3>2, <3>3, <3>4, <3>5 DEF Moves
        <3> QED
            BY <3>6
    <2> QED
        BY <2>1, <2>2
<1>8. CASE i.action \in {"revoke", "delete"}
    <2> DEFINE n == IF IsReplayOf(i, d) THEN d ELSE Retired(i, d)
               r == [q EXCEPT !.at = "save", !.seen = d, !.new = n]
    <2>1. GetForTransition(w, i, d)
        BY <1>8 DEF Get
    <2>2. CASE d = None \/ (d # None /\ d.status = "deleted" /\ ~ IsReplayOf(i, d))
        BY <1>5, <2>1, <2>2 DEF GetForTransition
    <2>3. CASE ~ (d = None \/ (d # None /\ d.status = "deleted" /\ ~ IsReplayOf(i, d)))
        <3>1. d \in Stored /\ d \in Record /\ WellFormed(d)
            BY <1>4, <2>3 DEF Stored
        <3>2. /\ n \in Record /\ WellFormed(n)
              /\ n.status = IF i.action = "revoke" THEN "consent_revoked" ELSE "deleted"
              /\ n.topic = d.topic /\ n.expires = d.expires /\ n.prev = d.prev
            <4>1. CASE IsReplayOf(i, d)
                BY <3>1, <4>1 DEF IsReplayOf
            <4>2. CASE ~ IsReplayOf(i, d)
                <5> HIDE DEF d, i
                <5> QED
                    BY <1>1, <1>8, <2>3, <3>1, <4>2, RetiredRecord
            <4> QED
                BY <4>1, <4>2
        <3>3. workers' = [workers EXCEPT ![w] = r]
            BY <2>1, <2>3 DEF GetForTransition
        <3>4. n \in Stored
            BY <3>2 DEF Stored
        <3> HIDE DEF n, d
        <3>5. /\ r \in Worker /\ r.at = "save" /\ ~ r.calm /\ r.intent = i /\ r.key = q.key
              /\ r.new = n
            BY <1>1, <3>1, <3>4 DEF Worker, Calls
        <3> HIDE DEF r, q, i
        <3>6. Sound(r) /\ Serves(r)
            BY <1>1, <1>8, <3>2, <3>5 DEF Sound, Request, Deciding, Serves
        <3>7. ASSUME NEW root \in Roots, Lineage(root)
              PROVE  Writes(r, root)
            <4>1. Descends(d, i.id, root)
                BY <1>2, <2>3, <3>7, StoredDescends DEF d
            <4>2. Descends(n, i.id, root)
                BY <1>8, <3>2, <4>1 DEF Descends
            <4> QED
                BY <1>8, <3>2, <3>5, <4>2 DEF Writes
        <3>8. Moves(w, r)
            BY <1>3, <3>3, <3>5, <3>6, <3>7 DEF Moves
        <3> QED
            BY <3>8
    <2> QED
        BY <2>2, <2>3
<1> QED
    BY <1>2, <1>6, <1>7, <1>8 DEF Actions

LEMMA ListMoves ==
    ASSUME Plain, NEW w \in Workers, List(w)
    PROVE  \E r : Moves(w, r)
<1> DEFINE q == workers[w]
           i == q.intent
           n == NewRecord(i)
           r == [q EXCEPT !.at = "save", !.new = n]
<1>1. /\ q \in Worker /\ q.at = "list" /\ ~ q.calm
      /\ i \in Intents /\ q.key \in Keys /\ i.action = "create"
    BY WorkerState DEF List, Sound, Request, Deciding
<1>2. UNCHANGED Rest
    BY DEF List, Rest
<1>3. CASE workers' = [workers EXCEPT ![w] = r]
    <2>1. n \in Record /\ WellFormed(n) /\ n \in Stored
        BY <1>1, NewRecordIsWhole DEF Stored
    <2> HIDE DEF n
    <2>2. r \in Worker /\ r.at = "save" /\ ~ r.calm /\ r.intent = i /\ r.key = q.key /\ r.new = n
        BY <1>1, <2>1 DEF Worker, Calls
    <2>3. workers' = [workers EXCEPT ![w] = r]
        BY <1>3
    <2> HIDE DEF r, q, i
    <2>4. Sound(r) /\ Serves(r)
        BY <1>1, <2>1, <2>2 DEF Sound, Request, Deciding, Serves
    <2>5. \A root : Writes(r, root)
        BY <1>1, <2>2 DEF Writes, n
    <2>6. Moves(w, r)
        BY <1>2, <2>2, <2>3, <2>4, <2>5 DEF Moves
    <2> QED
        BY <2>6
<1>4. CASE Returns(w, "refused")
    BY <1>2, <1>4, ReturnsMoves
<1> QED
    BY <1>3, <1>4 DEF List

\* The root of a memory is the root of what it superseded.
LEMMA SuccessorHasTheRoot ==
    ASSUME IdsAreFresh, NEW root \in Roots, Lineage(root),
           NEW i \in Intents, i.action = "supersede", root[i.replacement] # None
    PROVE  root[i.replacement] = root[i.id]
<1>1. i.replacement \in Ids /\ Makes(i, i.replacement)
    BY IntentFields DEF Makes
<1>2. PICK j \in Intents :
         /\ Makes(j, i.replacement)
         /\ root[i.replacement] = IF j.action = "create" THEN j ELSE root[j.id]
    BY <1>1 DEF Lineage, Rooted
<1>3. i = j
    BY <1>1, <1>2 DEF IdsAreFresh
<1> QED
    BY <1>2, <1>3

LEMMA GetReplacementMoves ==
    ASSUME Plain, NEW w \in Workers, GetReplacement(w)
    PROVE  \E r : Moves(w, r)
<1> DEFINE q == workers[w]
           i == q.intent
           d == q.seen
           n == records[i.replacement]
<1>1. /\ q \in Worker /\ q.at = "replacement" /\ ~ q.calm
      /\ i \in Intents /\ q.key \in Keys /\ i.action = "supersede"
      /\ d \in Record /\ WellFormed(d)
    BY WorkerState DEF GetReplacement, Sound, Request, Deciding
<1>2. i.replacement \in Ids /\ i.id \in Ids
    BY <1>1, IntentFields
<1>3. UNCHANGED Rest
    BY DEF GetReplacement, Rest
<1>4. ASSUME NEW o \in Record, NEW s \in Record, WellFormed(o), WellFormed(s),
             workers' = [workers EXCEPT ![w] = [q EXCEPT !.at = "save", !.seen = None, !.old = o, !.new = s]],
             o.status = "superseded", o.next = i.replacement,
             s.status = "active", s.consent = i, s.prev = i.id,
             IdsAreFresh => \A root \in Roots : Lineage(root) =>
                 /\ Descends(o, i.id, root)
                 /\ s.topic = o.topic /\ s.expires = o.expires
      PROVE  \E r : Moves(w, r)
    <2> DEFINE r == [q EXCEPT !.at = "save", !.seen = None, !.old = o, !.new = s]
    <2>1. /\ r \in Worker /\ r.at = "save" /\ ~ r.calm /\ r.intent = i /\ r.key = q.key
          /\ r.old = o /\ r.new = s
        BY <1>1 DEF Worker, Calls, Stored
    <2>2. workers' = [workers EXCEPT ![w] = r]
        BY <1>4
    <2> HIDE DEF r, q, i
    <2>3. Sound(r) /\ Serves(r)
        BY <1>1, <1>4, <2>1 DEF Sound, Request, Deciding, Serves
    <2>4. ASSUME IdsAreFresh, NEW root \in Roots, Lineage(root)
          PROVE  Writes(r, root)
        <3>1. Descends(o, i.id, root) /\ s.topic = o.topic /\ s.expires = o.expires
            BY <1>4, <2>4
        <3> QED
            BY <1>1, <1>4, <2>1, <3>1 DEF Writes
    <2>5. Moves(w, r)
        BY <1>3, <2>1, <2>2, <2>3, <2>4 DEF Moves
    <2> QED
        BY <2>5
<1>5. ASSUME NEW root \in Roots, Lineage(root)
      PROVE  Descends(d, i.id, root)
    <2>1. Writes(q, root)
        BY <1>5 DEF Lineage
    <2> QED
        BY <1>1, <2>1 DEF Writes
<1>6. CASE IsSupersedeReplay(i, d, n)
    <2>1. n \in Record /\ WellFormed(n) /\ n # None
        BY <1>2, <1>6, StoredRecord DEF Plain, IsSupersedeReplay
    <2>2. /\ d.status = "superseded" /\ d.next = i.replacement
          /\ n.status = "active" /\ n.consent = i /\ n.prev = i.id
        BY <1>6 DEF IsSupersedeReplay
    <2>3. ASSUME IdsAreFresh, NEW root \in Roots, Lineage(root)
          PROVE  Descends(d, i.id, root) /\ n.topic = d.topic /\ n.expires = d.expires
        <3>1. Descends(d, i.id, root)
            BY <1>5, <2>3
        <3>2. Descends(n, i.replacement, root)
            BY <1>2, <2>1, <2>3, StoredDescends
        <3>3. root[i.replacement] = root[i.id]
            BY <1>1, <2>3, <3>2, SuccessorHasTheRoot DEF Descends
        <3> HIDE DEF n, d, i
        <3> QED
            BY <3>1, <3>2, <3>3 DEF Descends
    <2>4. workers' = [workers EXCEPT ![w] = [q EXCEPT !.at = "save", !.seen = None, !.old = d, !.new = n]]
        BY <1>6 DEF GetReplacement
    <2> HIDE DEF n, d, i, q
    <2> QED
        BY <1>1, <1>4, <2>1, <2>2, <2>3, <2>4
<1>7. CASE ~ IsSupersedeReplay(i, d, n) /\ d.status = "active" /\ n = None
    <2> DEFINE o == Superseded(i, d)
               s == Successor(i, d)
    <2>1. /\ o \in Record /\ WellFormed(o)
          /\ o.status = "superseded" /\ o.next = i.replacement
          /\ o.topic = d.topic /\ o.expires = d.expires /\ o.prev = d.prev
        BY <1>1, <1>7, SupersededRecord
    <2>2. /\ s \in Record /\ WellFormed(s)
          /\ s.status = "active" /\ s.consent = i /\ s.prev = i.id
          /\ s.topic = d.topic /\ s.expires = d.expires
        BY <1>1, SuccessorRecord
    <2>3. workers' = [workers EXCEPT ![w] = [q EXCEPT !.at = "save", !.seen = None, !.old = o, !.new = s]]
        BY <1>7 DEF GetReplacement
    <2> HIDE DEF o, s
    <2>4. ASSUME NEW root \in Roots, Lineage(root)
          PROVE  Descends(o, i.id, root) /\ s.topic = o.topic /\ s.expires = o.expires
        <3>1. Descends(d, i.id, root)
            BY <1>5, <2>4
        <3> HIDE DEF d, i
        <3> QED
            BY <1>1, <2>1, <2>2, <3>1 DEF Descends
    <2> HIDE DEF n, d, i, q
    <2> QED
        BY <1>1, <1>4, <2>1, <2>2, <2>3, <2>4
<1>8. CASE Returns(w, "refused")
    BY <1>3, <1>8, ReturnsMoves
<1> QED
    BY <1>6, <1>7, <1>8 DEF GetReplacement

\* A memory that may be found was not withdrawn.
LEMMA LiveIsNotWithdrawn ==
    ASSUME Plain, NEW root \in Roots, Lineage(root), NEW m \in Ids,
           records[m] # None, records[m].status = "active", records[m].expires > now
    PROVE  records[m].consent \notin withdrawn
<1>1. records[m] \in Record
    BY StoredRecord DEF Plain
<1>2. records[m].expires \in Nat /\ now \in Nat
    BY <1>1, RecordFields DEF Plain, TypeOK, Times
<1>3. Descends(records[m], m, root)
    BY StoredDescends
<1>4. Makes(records[m].consent, m) /\ records[m].expires = root[m].expires
    BY <1>3 DEF Descends
<1>5. Stands(m)
    BY DEF Stands, Is
<1>6. ~ (root[m].expires <= now)
    BY <1>2, <1>4
<1> QED
    BY <1>4, <1>5, <1>6 DEF Lineage

LEMMA VisitMoves ==
    ASSUME Plain, NEW w \in Workers, NEW m \in Ids, Visit(w, m)
    PROVE  \E r : Moves(w, r)
<1> DEFINE q == workers[w]
           d == records[m]
           less == [q EXCEPT !.todo = @ \ {m}]
           more == [q EXCEPT !.todo = @ \ {m}, !.plan[m] = d]
<1>1. q \in Worker /\ q.at = "visit" /\ ~ q.calm /\ Sound(q)
    BY WorkerState DEF Visit
<1>2. UNCHANGED Rest
    BY DEF Visit, Rest
<1>3. q.gone \subseteq withdrawn
    BY <1>1 DEF Sound
<1>4. CASE workers' = [workers EXCEPT ![w].todo = @ \ {m}]
    <2>1. /\ less \in Worker /\ less.at = "visit" /\ ~ less.calm /\ less.gone = q.gone
          /\ less.plan = q.plan
        BY <1>1 DEF Worker
    <2>2. workers' = [workers EXCEPT ![w] = less]
        BY <1>4
    <2> HIDE DEF less, q
    <2>3. Sound(less) /\ (Serves(q) => Serves(less)) /\ \A root : Writes(less, root)
        BY <1>1, <1>3, <2>1 DEF Sound, Request, Deciding, Serves, Writes
    <2>4. Moves(w, less)
        BY <1>2, <2>1, <2>2, <2>3 DEF Moves, q
    <2> QED
        BY <2>4
<1>5. CASE Returns(w, "refused")
    BY <1>2, <1>5, ReturnsMoves
<1>6. CASE Revalidated(w, m)
           /\ workers' = [workers EXCEPT ![w].todo = @ \ {m}, ![w].plan[m] = records[m]]
    <2>1. d # None /\ d.status = "active" /\ d \in Stored
        BY <1>6 DEF Revalidated, Projectable, Plain, TypeOK
    <2>2. workers' = [workers EXCEPT ![w] = more]
        BY <1>6
    <2> HIDE DEF d
    <2>3. q.plan \in [Ids -> Stored]
        BY <1>1, WorkerFields
    <2>4. /\ more \in Worker /\ more.at = "visit" /\ ~ more.calm /\ more.gone = q.gone
          /\ more.plan = [q.plan EXCEPT ![m] = d]
        BY <1>1, <2>1, <2>3 DEF Worker
    <2>5. more.plan[m] = d /\ \A n \in Ids \ {m} : more.plan[n] = q.plan[n]
        BY <2>3, <2>4
    <2> HIDE DEF more, q
    <2>6. Sound(more) /\ \A root : Writes(more, root)
        BY <1>1, <1>3, <2>4 DEF Sound, Request, Deciding, Writes
    <2>7. ASSUME Serves(q), NEW root \in Roots, Lineage(root)
          PROVE  Serves(more)
        <3>1. d.expires > now => d.consent \notin withdrawn
            BY <2>1, <2>7, LiveIsNotWithdrawn DEF d
        <3> QED
            BY <1>1, <1>3, <2>1, <2>4, <2>5, <2>7, <3>1 DEF Serves
    <2>8. Moves(w, more)
        BY <1>2, <2>2, <2>4, <2>6, <2>7 DEF Moves, q
    <2> QED
        BY <2>8
<1> QED
    BY <1>4, <1>5, <1>6 DEF Visit

-----------------------------------------------------------------------------
(* Plain: what holds whatever the clients call their memories.             *)

\* A request that was disturbed, or had read nothing, stays sound.
LEMMA DisturbedIsSound ==
    ASSUME NEW w \in Workers, Request(workers'[w]), ~ workers'[w].calm,
           workers'[w].at = "visit" => workers'[w].gone \subseteq withdrawn'
    PROVE  Sound(workers[w])'
BY DEF Sound, Request, WellFormed, Projectable

LEMMA OthersStaySound ==
    ASSUME Plain, NEW w \in Workers,
           workers'[w] = [workers[w] EXCEPT !.calm = FALSE], withdrawn \subseteq withdrawn'
    PROVE  workers'[w] \in Worker /\ Sound(workers[w])'
<1>1. workers[w] \in Worker /\ Sound(workers[w])
    BY WorkerState
<1>2. /\ workers'[w] \in Worker
      /\ ~ workers'[w].calm /\ workers'[w].at = workers[w].at /\ workers'[w].gone = workers[w].gone
    BY <1>1 DEF Worker
<1>3. Request(workers'[w])
    BY <1>1 DEF Worker, Sound, Request
<1>4. workers'[w].at = "visit" => workers'[w].gone \subseteq withdrawn'
    BY <1>1, <1>2 DEF Sound
<1> QED
    BY <1>2, <1>3, <1>4, DisturbedIsSound

LEMMA MovesKeepsPlain ==
    ASSUME Plain, NEW w \in Workers, NEW r, Moves(w, r)
    PROVE  Plain'
<1>1. /\ workers' = [workers EXCEPT ![w] = r] /\ r \in Worker /\ Sound(r)
      /\ UNCHANGED <<records, receipts, points, prepared, now, withdrawn>>
    BY DEF Moves, Rest
<1>2. workers \in [Workers -> Worker]
    BY DEF Plain, TypeOK
<1>3. TypeOK'
    BY <1>1, <1>2 DEF Plain, TypeOK
<1>4. ASSUME NEW v \in Workers
      PROVE  Sound(workers[v])'
    <2>1. Sound(workers'[v])
        BY <1>1, <1>2 DEF Plain
    <2> QED
        BY <1>1, <2>1 DEF Sound, Request, Undisturbed, Exactly, WellFormed, Projectable
<1> QED
    BY <1>3, <1>4 DEF Plain

\* What is typed of the write of a transaction.
LEMMA CommitWrites ==
    ASSUME Plain, NEW w \in Workers, Commit(w)
    PROVE  LET q == workers[w]
               i == q.intent
           IN  /\ q \in Worker /\ Sound(q) /\ q.at = "save"
               /\ i \in Intents /\ i.action \in Actions /\ i.id \in Ids /\ i.replacement \in Ids
               /\ i.action = "supersede" => i.replacement # i.id
               /\ q.key \in Keys
               /\ q.new \in Record /\ WellFormed(q.new) /\ q.new # None
               /\ i.action = "supersede" => q.old \in Record /\ WellFormed(q.old) /\ q.old # None
               /\ Target(w) \in Ids
               /\ Target(w) = IF i.action = "supersede" THEN i.replacement ELSE i.id
<1> DEFINE q == workers[w]
           i == q.intent
<1>1. /\ q \in Worker /\ q.at = "save" /\ Sound(q)
      /\ i \in Intents /\ q.key \in Keys
      /\ q.new \in Record /\ WellFormed(q.new)
      /\ i.action = "supersede" => q.old \in Record /\ WellFormed(q.old)
    BY WorkerState DEF Commit, Sound, Request, Deciding
<1>2. /\ i.action \in Actions /\ i.id \in Ids /\ i.replacement \in Ids
      /\ i.action = "supersede" => i.replacement # i.id
    BY <1>1, IntentFields
<1> QED
    BY <1>1, <1>2, RecordFields DEF Target

\* The records after the transaction.
LEMMA CommitRecords ==
    ASSUME Plain, NEW w \in Workers, Commit(w)
    PROVE  LET q == workers[w]
               i == q.intent
           IN  /\ records'[Target(w)] = q.new
               /\ i.action = "supersede" => records'[i.id] = q.old
               /\ \A m \in Ids : m # Target(w) /\ (i.action = "supersede" => m # i.id) =>
                     records'[m] = records[m]
<1> DEFINE q == workers[w]
           i == q.intent
<1>1. records \in [Ids -> Stored]
    BY DEF Plain, TypeOK
<1>2. /\ i.id \in Ids /\ Target(w) \in Ids
      /\ Target(w) = IF i.action = "supersede" THEN i.replacement ELSE i.id
      /\ i.action = "supersede" => i.replacement # i.id
    BY CommitWrites
<1>3. records' = IF i.action = "supersede"
                 THEN [[records EXCEPT ![Target(w)] = q.new] EXCEPT ![i.id] = q.old]
                 ELSE [records EXCEPT ![Target(w)] = q.new]
    BY DEF Commit, Outcome, BothWritten, Written
<1> HIDE DEF q, i
<1> QED
    BY <1>1, <1>2, <1>3 DEF q, i

\* The intents of memories that end are intents.
LEMMA EndedAreIntents ==
    ASSUME Plain, NEW rs
    PROVE  Ended(rs) \subseteq Intents
<1>1. \A m \in Ids : Is(m, "active") => records[m].consent \in Intents
    BY StoredRecord, RecordFields DEF Plain, Is
<1> QED
    BY <1>1 DEF Ended

LEMMA CommitKeepsPlain ==
    ASSUME Plain, NEW w \in Workers, Commit(w)
    PROVE  Plain'
<1> DEFINE q == workers[w]
           i == q.intent
<1>1. /\ records \in [Ids -> Stored] /\ receipts \in [Keys -> Receipt \cup {None}]
      /\ workers \in [Workers -> Worker] /\ withdrawn \subseteq Intents
    BY DEF Plain, TypeOK
<1>2. /\ q.key \in Keys /\ q.new \in Record /\ WellFormed(q.new) /\ Target(w) \in Ids
      /\ i.action = "supersede" => q.old \in Record /\ WellFormed(q.old) /\ i.id \in Ids
      /\ q \in Worker
    BY CommitWrites
<1>3. records' \in [Ids -> Stored]
    BY <1>1, <1>2 DEF Commit, Outcome, BothWritten, Written, Stored
<1>4. \A m \in Ids : records'[m] # None => WellFormed(records'[m])
    BY <1>2, CommitRecords, StoredRecord DEF Plain
<1>5. receipts' \in [Keys -> Receipt \cup {None}]
    <2>1. PICK print \in Prints(w) :
              receipts' = [receipts EXCEPT ![q.key] = [id |-> Target(w), print |-> print]]
        BY DEF Commit
    <2>2. FingerprintOf(w) \in Fingerprint
        BY <1>2, WorkerFields DEF FingerprintOf, Fingerprint
    <2>3. print \in Fingerprint \cup {None}
        BY <2>1, <2>2 DEF Prints
    <2>4. [id |-> Target(w), print |-> print] \in Receipt
        BY <1>2, <2>3 DEF Receipt
    <2> QED
        BY <1>1, <1>2, <2>1, <2>4
<1>6. withdrawn \subseteq withdrawn' /\ withdrawn' \subseteq Intents
    BY <1>1, EndedAreIntents DEF Commit
<1>7. \A v \in Workers : workers'[v] = IF v = w THEN Decided("answered")
                                               ELSE [workers[v] EXCEPT !.calm = FALSE]
    BY DEF Commit, Disturbing
<1>8. workers' \in [Workers -> Worker]
    <2>1. \A v \in Workers : workers'[v] \in Worker
        <3>1. Decided("answered") \in Worker
            BY DecidedIsWorker DEF Calls
        <3>2. \A v \in Workers \ {w} : workers'[v] \in Worker
            BY <1>6, <1>7, OthersStaySound
        <3> QED
            BY <1>7, <3>1, <3>2
    <2> QED
        BY <2>1 DEF Commit, Disturbing
<1>9. TypeOK'
    BY <1>3, <1>4, <1>5, <1>6, <1>8 DEF Commit, Plain, TypeOK, WellFormed
<1>10. ASSUME NEW v \in Workers
       PROVE  Sound(workers[v])'
    <2>1. CASE v = w
        <3>1. workers'[v].at = "answered" /\ ~ workers'[v].calm
            BY <1>7, <2>1, DecidedIsWorker DEF Calls
        <3>2. Request(workers'[v])
            BY <3>1 DEF Request, Deciding
        <3> QED
            BY <3>1, <3>2, DisturbedIsSound
    <2>2. CASE v # w
        BY <1>6, <1>7, <2>2, OthersStaySound
    <2> QED
        BY <2>1, <2>2
<1> QED
    BY <1>9, <1>10 DEF Plain

LEMMA TickKeepsPlain ==
    ASSUME Plain, Tick
    PROVE  Plain'
<1>1. \A v \in Workers : workers'[v] = [workers[v] EXCEPT !.calm = FALSE]
    BY DEF Tick
<1>2. \A v \in Workers : workers'[v] \in Worker /\ Sound(workers[v])'
    BY <1>1, OthersStaySound DEF Tick
<1>3. now' \in Times
    BY MemoryConstants DEF Tick, Plain, TypeOK, Times
<1>4. TypeOK'
    BY <1>2, <1>3 DEF Tick, Plain, TypeOK
<1> QED
    BY <1>2, <1>4 DEF Plain

LEMMA DropKeepsPlain ==
    ASSUME Plain, NEW m \in Ids, Drop(m)
    PROVE  Plain'
<1>1. \A v \in Workers : workers'[v] = [workers[v] EXCEPT !.calm = FALSE]
    BY DEF Drop
<1>2. withdrawn \subseteq withdrawn' /\ withdrawn' \subseteq Intents
    BY EndedAreIntents DEF Drop, Plain, TypeOK
<1>3. \A v \in Workers : workers'[v] \in Worker /\ Sound(workers[v])'
    BY <1>1, <1>2, OthersStaySound
<1>4. records' = [records EXCEPT ![m] = None] /\ records \in [Ids -> Stored]
    BY DEF Drop, Plain, TypeOK
<1>5. records' \in [Ids -> Stored]
      /\ \A n \in Ids : records'[n] # None =>
            (records'[n].status = "deleted" <=> records'[n].content = Redacted)
    BY <1>4 DEF Stored, Plain, TypeOK
<1>6. TypeOK'
    BY <1>2, <1>3, <1>5 DEF Drop, Plain, TypeOK
<1> QED
    BY <1>3, <1>6 DEF Plain

\* An upload or a removal moves w to r and a point, under everyone's hands.
LEMMA RepairKeepsPlain ==
    ASSUME Plain, NEW w \in Workers, NEW r \in Worker, NEW m \in Ids, NEW p \in Point \cup {None},
           workers' = [v \in Workers |-> IF v # w THEN [workers[v] EXCEPT !.calm = FALSE] ELSE r],
           points' = [points EXCEPT ![m] = p],
           UNCHANGED <<records, receipts, prepared, now, withdrawn>>,
           Request(r), r.at # "visit",
           r.calm => Undisturbed(workers[w])'
    PROVE  Plain'
<1>1. workers'[w] = r
      /\ \A v \in Workers \ {w} : workers'[v] = [workers[v] EXCEPT !.calm = FALSE]
    OBVIOUS
<1>2. \A v \in Workers \ {w} : workers'[v] \in Worker /\ Sound(workers[v])'
    BY <1>1, OthersStaySound
<1>3. Sound(workers[w])'
    BY <1>1 DEF Sound, Request, WellFormed, Projectable, Undisturbed, Exactly
<1>4. points' \in [Ids -> Point \cup {None}]
    BY DEF Plain, TypeOK
<1>5. TypeOK'
    BY <1>1, <1>2, <1>4 DEF Plain, TypeOK
<1> QED
    BY <1>2, <1>3, <1>5 DEF Plain

LEMMA RemoveKeepsPlain ==
    ASSUME Plain, NEW w \in Workers, NEW m \in Ids, Remove(w, m)
    PROVE  Plain'
<1> DEFINE q == workers[w]
           keep == Projectable(q.plan[m], q.asked)
           r == [q EXCEPT !.todo = @ \ {m}, !.at = IF keep THEN "upsert" ELSE "repair",
                          !.next = IF keep THEN m ELSE None]
<1>1. q \in Worker /\ q.at = "repair" /\ Sound(q)
    BY WorkerState DEF Remove
<1>2. /\ r \in Worker /\ r.at = IF keep THEN "upsert" ELSE "repair"
      /\ r.next = IF keep THEN m ELSE None
      /\ r.plan = q.plan /\ r.asked = q.asked /\ r.calm = q.calm /\ r.todo = q.todo \ {m}
    BY <1>1 DEF Worker, Calls
<1>3. /\ workers' = [v \in Workers |-> IF v # w THEN [workers[v] EXCEPT !.calm = FALSE] ELSE r]
      /\ points' = [points EXCEPT ![m] = None]
      /\ UNCHANGED <<records, receipts, prepared, now, withdrawn>>
    BY DEF Remove
<1> HIDE DEF r
<1>4. Request(r) /\ r.at # "visit"
    BY <1>2 DEF Request, Deciding
<1>5. r.calm => Undisturbed(workers[w])'
    <2> SUFFICES ASSUME q.calm
                 PROVE  Undisturbed(workers[w])'
        BY <1>2
    <2>0. workers'[w] = r
        BY <1>3
    <2>1. /\ q.plan = records /\ q.asked = now
          /\ \A n \in Ids \ q.todo : Exactly(n)
        BY <1>1 DEF Sound, Undisturbed
    <2>2. points \in [Ids -> Point \cup {None}]
        BY DEF Plain, TypeOK
    <2>3. ASSUME NEW n \in Ids \ r.todo
          PROVE  (r.at = "upsert" /\ r.next = n) \/ Exactly(n)'
        <3>1. CASE n = m
            BY <1>2, <1>3, <2>1, <2>2, <3>1 DEF Exactly, Projectable
        <3>2. CASE n # m
            BY <1>2, <1>3, <2>1, <2>2, <3>2 DEF Exactly, Projectable
        <3> QED
            BY <3>1, <3>2
    <2> QED
        BY <1>2, <1>3, <2>0, <2>1, <2>3 DEF Undisturbed
<1> QED
    BY <1>2, <1>3, <1>4, <1>5, RepairKeepsPlain

LEMMA UpsertKeepsPlain ==
    ASSUME Plain, NEW w \in Workers, Upsert(w)
    PROVE  Plain'
<1> DEFINE q == workers[w]
           m == q.next
           p == [content |-> q.plan[m].content, expires |-> q.plan[m].expires]
           r == [q EXCEPT !.at = "repair", !.next = None]
<1>1. /\ q \in Worker /\ q.at = "upsert" /\ Sound(q)
      /\ m \in Ids /\ Projectable(q.plan[m], q.asked)
    BY WorkerState DEF Upsert, Sound, Request
<1>2. /\ r \in Worker /\ r.at = "repair" /\ r.next = None
      /\ r.plan = q.plan /\ r.asked = q.asked /\ r.calm = q.calm /\ r.todo = q.todo
    BY <1>1 DEF Worker, Calls
<1>3. /\ workers' = [v \in Workers |-> IF v # w THEN [workers[v] EXCEPT !.calm = FALSE] ELSE r]
      /\ points' = [points EXCEPT ![m] = p]
      /\ UNCHANGED <<records, receipts, prepared, now, withdrawn>>
    BY DEF Upsert
<1>4. p \in Point
    <2>1. q.plan[m] \in Record
        BY <1>1, WorkerFields DEF Stored, Projectable
    <2> QED
        BY <2>1, RecordFields DEF Point
<1> HIDE DEF r
<1>5. Request(r) /\ r.at # "visit"
    BY <1>2 DEF Request, Deciding
<1>6. r.calm => Undisturbed(workers[w])'
    <2> SUFFICES ASSUME q.calm
                 PROVE  Undisturbed(workers[w])'
        BY <1>2
    <2>0. workers'[w] = r
        BY <1>3
    <2>1. /\ q.plan = records /\ q.asked = now
          /\ \A n \in Ids \ q.todo : n = m \/ Exactly(n)
        BY <1>1 DEF Sound, Undisturbed
    <2>2. points \in [Ids -> Point \cup {None}]
        BY DEF Plain, TypeOK
    <2>3. ASSUME NEW n \in Ids \ r.todo
          PROVE  Exactly(n)'
        <3>1. CASE n = m
            BY <1>1, <1>2, <1>3, <2>1, <2>2, <3>1 DEF Exactly, Projectable
        <3>2. CASE n # m
            BY <1>2, <1>3, <2>1, <2>2, <3>2 DEF Exactly, Projectable
        <3> QED
            BY <3>1, <3>2
    <2> QED
        BY <1>2, <1>3, <2>0, <2>1, <2>3 DEF Undisturbed
<1> HIDE DEF p, q, m
<1> QED
    BY <1>1, <1>2, <1>3, <1>4, <1>5, <1>6, RepairKeepsPlain

LEMMA PrepareKeepsPlain ==
    ASSUME Plain, NEW i \in Intents, Prepare(i)
    PROVE  Plain'
<1>1. Sooner(now + Ttl, Horizon + 1) \in Nat
    BY MemoryConstants DEF Plain, TypeOK, Times, Sooner
<1>2. TypeOK'
    BY <1>1 DEF Prepare, Plain, TypeOK
<1>3. ASSUME NEW v \in Workers
      PROVE  Sound(workers[v])'
    <2>1. Sound(workers[v])
        BY DEF Plain
    <2> QED
        BY <2>1 DEF Prepare, Sound, Request, Undisturbed, Exactly, WellFormed, Projectable
<1> QED
    BY <1>2, <1>3 DEF Plain

\* Every step is one of these.
LEMMA StepIsOneOfThese ==
    ASSUME Plain, Next
    PROVE  \/ \E i \in Intents : Prepare(i)
           \/ \E w \in Workers : \E r : Moves(w, r)
           \/ \E w \in Workers : Commit(w)
           \/ \E w \in Workers : Upsert(w) \/ \E m \in Ids : Remove(w, m)
           \/ \E m \in Ids : Drop(m)
           \/ Tick
<1>1. ASSUME NEW w \in Workers, Decide(w) \/ Save(w) \/ Reconcile(w) \/ Search(w) \/ Ends(w)
      PROVE  \/ \E r : Moves(w, r)
             \/ Commit(w)
             \/ Upsert(w) \/ \E m \in Ids : Remove(w, m)
    <2>1. CASE Decide(w)
        BY <2>1, ReceiveMoves, GetMoves, ListMoves, GetReplacementMoves DEF Decide
    <2>2. CASE Save(w)
        BY <2>2, ReplayMoves, ConflictMoves, RefuseMoves DEF Save
    <2>3. CASE Reconcile(w)
        BY <2>3, ListRecordsMoves, InventoryMoves DEF Reconcile
    <2>4. CASE Search(w)
        BY <2>4, QueryMoves, VisitMoves DEF Search
    <2> QED
        BY <1>1, <2>1, <2>2, <2>3, <2>4, EndsMoves
<1> QED
    BY <1>1 DEF Next

LEMMA NextKeepsPlain ==
    ASSUME Plain, [Next]_vars
    PROVE  Plain'
<1>1. CASE Next
    BY <1>1, StepIsOneOfThese, PrepareKeepsPlain, MovesKeepsPlain, CommitKeepsPlain,
       UpsertKeepsPlain, RemoveKeepsPlain, DropKeepsPlain, TickKeepsPlain
<1>2. CASE UNCHANGED vars
    <2>1. TypeOK'
        BY <1>2 DEF vars, Plain, TypeOK
    <2>2. \A v \in Workers : Sound(workers[v])'
        BY <1>2 DEF vars, Plain, Sound, Request, Undisturbed, Exactly, WellFormed, Projectable
    <2> QED
        BY <2>1, <2>2 DEF Plain
<1> QED
    BY <1>1, <1>2

LEMMA InitIsPlain == Init => Plain
<1> SUFFICES ASSUME Init PROVE Plain
    OBVIOUS
<1>1. TypeOK
    BY IdleIsWorker, MemoryConstants DEF Init, TypeOK, Stored, Times
<1>2. \A w \in Workers : Sound(workers[w])
    BY IdleIsWorker, RestingIsSound DEF Init
<1> QED
    BY <1>1, <1>2 DEF Plain

-----------------------------------------------------------------------------
(* Lineage: roots are only ever added.                                     *)

Extends(root, f) == \A m \in Ids : root[m] # None => f[m] = root[m]

LEMMA DescendsFurther ==
    ASSUME NEW root, NEW f, Extends(root, f), NEW m \in Ids, NEW r, Descends(r, m, root)
    PROVE  Descends(r, m, f)
BY DEF Extends, Descends

LEMMA WritesFurther ==
    ASSUME NEW root, NEW f, Extends(root, f), NEW r, Request(r), Writes(r, root)
    PROVE  Writes(r, f)
<1>1. r.at \in {"replacement", "save"} => r.intent.id \in Ids /\ r.intent.action \in Actions
    BY IntentFields DEF Request, Deciding
<1>2. r.at = "replacement" => Descends(r.seen, r.intent.id, f)
    BY <1>1, DescendsFurther DEF Writes
<1>3. ASSUME r.at = "save", r.intent.action = "supersede"
      PROVE  Descends(r.old, r.intent.id, f)
    BY <1>1, <1>3, DescendsFurther DEF Writes
<1>4. ASSUME r.at = "save", r.intent.action \notin {"create", "supersede"}
      PROVE  Descends(r.new, r.intent.id, f)
    BY <1>1, <1>4, DescendsFurther DEF Writes
<1> QED
    BY <1>1, <1>2, <1>3, <1>4 DEF Writes, Actions

\* A created memory is a root, and was if it ever descended from any.
LEMMA CreatedRoot ==
    ASSUME IdsAreFresh, NEW root \in Roots, Rooted(root),
           NEW i \in Intents, i.action = "create"
    PROVE  LET f == [root EXCEPT ![i.id] = i]
           IN  f \in Roots /\ Rooted(f) /\ Extends(root, f) /\ f[i.id] = i /\ i # None
<1> DEFINE f == [root EXCEPT ![i.id] = i]
<1>1. i.id \in Ids /\ i # None /\ Makes(i, i.id)
    BY IntentFields DEF Makes
<1>2. /\ root \in [Ids -> Intents \cup {None}] /\ f \in Roots /\ f[i.id] = i
      /\ \A m \in Ids : m # i.id => f[m] = root[m]
    BY <1>1 DEF Roots
<1> HIDE DEF f
<1>3. root[i.id] # None => root[i.id] = i
    <2> SUFFICES ASSUME root[i.id] # None
                 PROVE  root[i.id] = i
        OBVIOUS
    <2>1. PICK j \in Intents :
              /\ Makes(j, i.id)
              /\ root[i.id] = IF j.action = "create" THEN j ELSE root[j.id]
        BY <1>1 DEF Rooted
    <2>2. i = j
        BY <1>1, <2>1 DEF IdsAreFresh
    <2> QED
        BY <2>1, <2>2
<1>4. Extends(root, f)
    BY <1>2, <1>3 DEF Extends
<1>5. ASSUME NEW m \in Ids, f[m] # None
      PROVE  /\ f[m].action = "create"
             /\ \E j \in Intents : Makes(j, m) /\ f[m] = IF j.action = "create" THEN j ELSE f[j.id]
    <2>1. CASE m = i.id
        BY <1>1, <1>2, <2>1
    <2>2. CASE m # i.id
        <3>1. PICK j \in Intents :
                  /\ root[m].action = "create"
                  /\ Makes(j, m)
                  /\ root[m] = IF j.action = "create" THEN j ELSE root[j.id]
            BY <1>2, <1>5, <2>2 DEF Rooted
        <3>2. j.action # "create" => f[j.id] = root[j.id]
            BY <1>2, <1>4, <1>5, <2>2, <3>1, IntentFields DEF Extends
        <3> QED
            BY <1>2, <2>2, <3>1, <3>2
    <2> QED
        BY <2>1, <2>2
<1>6. Rooted(f)
    BY <1>5 DEF Rooted
<1> QED
    BY <1>1, <1>2, <1>4, <1>6 DEF f

\* A replacement has the root of what it replaces.
LEMMA ReplacementRoot ==
    ASSUME IdsAreFresh, NEW root \in Roots, Rooted(root),
           NEW i \in Intents, i.action = "supersede", root[i.id] # None
    PROVE  LET f == [root EXCEPT ![i.replacement] = root[i.id]]
           IN  /\ f \in Roots /\ Rooted(f) /\ Extends(root, f)
               /\ f[i.replacement] = root[i.id] /\ f[i.id] = root[i.id]
<1> DEFINE f == [root EXCEPT ![i.replacement] = root[i.id]]
<1>1. i.id \in Ids /\ i.replacement \in Ids /\ i.replacement # i.id /\ Makes(i, i.replacement)
    BY IntentFields DEF Makes
<1>2. /\ root \in [Ids -> Intents \cup {None}] /\ f \in Roots /\ f[i.replacement] = root[i.id]
      /\ \A m \in Ids : m # i.replacement => f[m] = root[m]
    BY <1>1 DEF Roots
<1> HIDE DEF f
<1>3. root[i.replacement] # None => root[i.replacement] = root[i.id]
    <2> SUFFICES ASSUME root[i.replacement] # None
                 PROVE  root[i.replacement] = root[i.id]
        OBVIOUS
    <2>1. PICK j \in Intents :
              /\ Makes(j, i.replacement)
              /\ root[i.replacement] = IF j.action = "create" THEN j ELSE root[j.id]
        BY <1>1 DEF Rooted
    <2>2. i = j
        BY <1>1, <2>1 DEF IdsAreFresh
    <2> QED
        BY <2>1, <2>2
<1>4. Extends(root, f)
    BY <1>2, <1>3 DEF Extends
<1>5. ASSUME NEW m \in Ids, f[m] # None
      PROVE  /\ f[m].action = "create"
             /\ \E j \in Intents : Makes(j, m) /\ f[m] = IF j.action = "create" THEN j ELSE f[j.id]
    <2>1. CASE m = i.replacement
        <3>1. f[m] = root[i.id] /\ f[i.id] = root[i.id]
            BY <1>1, <1>2, <2>1
        <3>2. root[i.id].action = "create"
            BY <1>1 DEF Rooted
        <3> QED
            BY <1>1, <2>1, <3>1, <3>2
    <2>2. CASE m # i.replacement
        <3>1. PICK j \in Intents :
                  /\ root[m].action = "create"
                  /\ Makes(j, m)
                  /\ root[m] = IF j.action = "create" THEN j ELSE root[j.id]
            BY <1>2, <1>5, <2>2 DEF Rooted
        <3>2. j.action # "create" => f[j.id] = root[j.id]
            BY <1>2, <1>4, <1>5, <2>2, <3>1, IntentFields DEF Extends
        <3> QED
            BY <1>2, <2>2, <3>1, <3>2
    <2> QED
        BY <2>1, <2>2
<1>6. Rooted(f)
    BY <1>5 DEF Rooted
<1> QED
    BY <1>1, <1>2, <1>4, <1>6 DEF f

LEMMA MakesOne ==
    ASSUME NEW i, NEW m \in Ids, NEW n \in Ids, Makes(i, m), Makes(i, n)
    PROVE  m = n
BY DEF Makes

\* What the transaction writes descends from the roots as it extends them.
LEMMA CommitExtends ==
    ASSUME IdsAreFresh, Plain, NEW root \in Roots, Lineage(root), NEW w \in Workers, Commit(w)
    PROVE  \E f \in Roots :
              /\ Rooted(f) /\ Extends(root, f)
              /\ Descends(workers[w].new, Target(w), f)
              /\ workers[w].intent.action = "supersede" =>
                    Descends(workers[w].old, workers[w].intent.id, f)
<1> DEFINE q == workers[w]
           i == q.intent
<1>1. /\ i \in Intents /\ i.action \in Actions /\ q.at = "save"
      /\ i.id \in Ids /\ i.replacement \in Ids
      /\ Target(w) = IF i.action = "supersede" THEN i.replacement ELSE i.id
    BY CommitWrites
<1>2. Writes(q, root) /\ Rooted(root)
    BY DEF Lineage
<1> HIDE DEF q, i
<1>3. CASE i.action = "create"
    <2> DEFINE f == [root EXCEPT ![i.id] = i]
    <2>1. f \in Roots /\ Rooted(f) /\ Extends(root, f) /\ f[i.id] = i /\ i # None
        BY <1>1, <1>2, <1>3, CreatedRoot
    <2>2. q.new = NewRecord(i)
        BY <1>1, <1>2, <1>3 DEF Writes, i
    <2> HIDE DEF f
    <2>3. Makes(i, i.id) /\ \A j \in Intents : ~ (j.action = "supersede" /\ j.replacement = i.id)
        BY <1>1, <1>3 DEF Makes, IdsAreFresh
    <2>4. Descends(NewRecord(i), i.id, f)
        BY <2>1, <2>3 DEF Descends, NewRecord
    <2> QED
        BY <1>1, <1>3, <2>1, <2>2, <2>4 DEF q, i
<1>4. CASE i.action = "supersede"
    <2>1. /\ Descends(q.old, i.id, root)
          /\ q.new.status = "active" /\ q.new.consent = i /\ q.new.prev = i.id
          /\ q.new.topic = q.old.topic /\ q.new.expires = q.old.expires
        BY <1>1, <1>2, <1>4 DEF Writes, i
    <2> DEFINE f == [root EXCEPT ![i.replacement] = root[i.id]]
    <2>2. root[i.id] # None
        BY <2>1 DEF Descends
    <2>3. /\ f \in Roots /\ Rooted(f) /\ Extends(root, f)
          /\ f[i.replacement] = root[i.id] /\ f[i.id] = root[i.id]
        BY <1>1, <1>2, <1>4, <2>2, ReplacementRoot
    <2> HIDE DEF f
    <2>4. Descends(q.old, i.id, f)
        BY <1>1, <2>1, <2>3, DescendsFurther
    <2>5. Makes(i, i.replacement)
          /\ \A j \in Intents : j.action = "supersede" /\ j.replacement = i.replacement => j = i
        BY <1>1, <1>4 DEF Makes, IdsAreFresh
    <2>6. Descends(q.new, i.replacement, f)
        BY <2>1, <2>2, <2>3, <2>5 DEF Descends
    <2> QED
        BY <1>1, <1>4, <2>3, <2>4, <2>6 DEF q, i
<1>5. CASE i.action \notin {"create", "supersede"}
    <2>1. Descends(q.new, i.id, root)
        BY <1>1, <1>2, <1>5 DEF Writes, i
    <2>2. Extends(root, root)
        BY DEF Extends
    <2> QED
        BY <1>1, <1>2, <1>5, <2>1, <2>2 DEF q, i
<1> QED
    BY <1>3, <1>4, <1>5

\* A transaction brings no memory back that was in another stage, and makes none
\* disappear.
LEMMA CommitAdvances ==
    ASSUME Plain, NEW root \in Roots, Lineage(root), NEW w \in Workers, Commit(w)
    PROVE  \A m \in Ids :
              /\ records[m] # None => records'[m] # None
              /\ Stands(m)' => Stands(m)
              /\ Is(m, "active") /\ ~ Is(m, "active")' => records'[m] # None
              /\ Is(m, "superseded")' =>
                    \/ Is(m, "superseded") /\ records'[m] = records[m]
                    \/ records'[m] # None /\ records'[records'[m].next] # None
<1> DEFINE q == workers[w]
           i == q.intent
<1>1. /\ i \in Intents /\ i.action \in Actions /\ q.at = "save"
      /\ i.id \in Ids /\ i.replacement \in Ids /\ q.new # None
      /\ i.action = "supersede" => q.old # None /\ i.replacement # i.id
      /\ Target(w) = IF i.action = "supersede" THEN i.replacement ELSE i.id
    BY CommitWrites
<1>2. /\ records'[Target(w)] = q.new
      /\ i.action = "supersede" => records'[i.id] = q.old
      /\ \A m \in Ids : m # Target(w) /\ (i.action = "supersede" => m # i.id) =>
            records'[m] = records[m]
    BY CommitRecords
<1>3. Writes(q, root)
    BY DEF Lineage
<1>4. MayCommit(w)
    BY DEF Commit
<1> HIDE DEF q, i
<1>5. CASE i.action = "create"
    <2>1. q.new.status = "active"
        BY <1>1, <1>3, <1>5 DEF Writes, NewRecord, i
    <2>2. records[i.id] = None
        <3>1. CASE records[i.id] # None
            <4>1. records[i.id].status \in Statuses
                BY <1>1, <3>1, StoredRecord, RecordFields DEF Plain
            <4>2. "active" \in Allowed[records[i.id].status]
                BY <1>1, <1>4, <1>5, <2>1, <3>1 DEF MayCommit, MayWrite, q, i
            <4> QED
                BY <4>1, <4>2 DEF Statuses, Allowed
        <3> QED
            BY <3>1
    <2> QED
        BY <1>1, <1>2, <1>5, <2>1, <2>2 DEF Stands, Is
<1>6. CASE i.action = "supersede"
    <2>1. /\ q.old.status = "superseded" /\ q.old.next = i.replacement
          /\ q.new.status = "active"
        BY <1>1, <1>3, <1>6 DEF Writes, i
    <2>2. records[i.replacement] = None
        BY <1>1, <1>4, <1>6 DEF MayCommit, MayWriteBoth, q, i
    <2> QED
        BY <1>1, <1>2, <1>6, <2>1, <2>2 DEF Stands, Is
<1>7. CASE i.action \notin {"create", "supersede"}
    <2>1. q.new.status \in {"consent_revoked", "deleted"}
        BY <1>1, <1>3, <1>7 DEF Writes, i
    <2> QED
        BY <1>1, <1>2, <1>7, <2>1 DEF Stands, Is
<1> QED
    BY <1>5, <1>6, <1>7

\* What a request whose peers moved has in hand.
LEMMA OthersKeepTheirs ==
    ASSUME Plain, NEW root, NEW f, Extends(root, f), NEW w \in Workers,
           workers'[w] = [workers[w] EXCEPT !.calm = FALSE],
           now \in Nat, now' \in Nat, now <= now'
    PROVE  /\ Writes(workers[w], root) => Writes(workers'[w], f)
           /\ Serves(workers[w]) => Serves(workers[w])'
<1> DEFINE q == workers[w]
           r == workers'[w]
<1>1. q \in Worker /\ Sound(q)
    BY WorkerState
<1>2. /\ r.at = q.at /\ r.intent = q.intent /\ r.seen = q.seen /\ r.old = q.old /\ r.new = q.new
      /\ r.plan = q.plan /\ r.gone = q.gone
    BY <1>1 DEF Worker
<1>3. Writes(q, root) => Writes(q, f)
    BY <1>1, WritesFurther DEF Sound
<1>4. Writes(q, f) => Writes(r, f)
    BY <1>2 DEF Writes
<1>5. Serves(q) => Serves(workers[w])'
    <2> SUFFICES ASSUME Serves(q), r.at = "visit", NEW m \in Ids,
                        r.plan[m] # None, r.plan[m].expires > now'
                 PROVE  r.plan[m].status = "active" /\ r.plan[m].consent \notin r.gone
        BY DEF Serves
    <2>1. q.plan[m] \in Record
        BY <1>1, <1>2, WorkerFields DEF Stored
    <2>2. q.plan[m].expires > now
        BY <1>2, <2>1, RecordFields
    <2> QED
        BY <1>2, <2>2 DEF Serves
<1> QED
    BY <1>3, <1>4, <1>5

\* The conjuncts of Lineage', each as it is shown.
LEMMA LineageNext ==
    ASSUME NEW f, Rooted(f),
           \A m \in Ids : records'[m] # None => Descends(records'[m], m, f),
           \A w \in Workers : Writes(workers'[w], f),
           \A i \in withdrawn', m \in Ids : Makes(i, m) =>
               f[m] # None /\ (Stands(m)' => f[m].expires <= now'),
           \A m \in Ids : Is(m, "superseded")' /\ records'[m].expires > now' =>
               records'[records'[m].next] # None
    PROVE  Lineage(f)'
BY DEF Lineage, Rooted, Makes, Descends, Writes, NewRecord

\* The records a step left, and what was withdrawn before, are explained still.
LEMMA MovesKeepsLineage ==
    ASSUME IdsAreFresh, Plain, NEW root \in Roots, Lineage(root),
           \A v \in Workers : Serves(workers[v]),
           NEW w \in Workers, NEW r, Moves(w, r)
    PROVE  Lineage(root)' /\ \A v \in Workers : Serves(workers[v])'
<1>1. /\ workers' = [workers EXCEPT ![w] = r] /\ r \in Worker
      /\ Writes(r, root) /\ Serves(r)
      /\ records' = records /\ now' = now /\ withdrawn' = withdrawn
    BY DEF Moves, Rest
<1>2. workers \in [Workers -> Worker]
    BY DEF Plain, TypeOK
<1>3. \A v \in Workers : Writes(workers'[v], root) /\ Serves(workers'[v])
    BY <1>1, <1>2 DEF Lineage
<1>4. Lineage(root)'
    BY <1>1, <1>3, LineageNext DEF Lineage, Stands, Is
<1>5. \A v \in Workers : Serves(workers[v])'
    BY <1>1, <1>3 DEF Serves
<1> QED
    BY <1>4, <1>5

LEMMA PrepareKeepsLineage ==
    ASSUME Plain, NEW root \in Roots, Lineage(root),
           \A v \in Workers : Serves(workers[v]),
           NEW i \in Intents, Prepare(i)
    PROVE  Lineage(root)' /\ \A v \in Workers : Serves(workers[v])'
<1>1. workers' = workers /\ records' = records /\ now' = now /\ withdrawn' = withdrawn
    BY DEF Prepare
<1>2. Lineage(root)'
    BY <1>1, LineageNext DEF Lineage, Stands, Is
<1>3. \A v \in Workers : Serves(workers[v])'
    BY <1>1 DEF Serves
<1> QED
    BY <1>2, <1>3

LEMMA RepairKeepsLineage ==
    ASSUME Plain, NEW root \in Roots, Lineage(root),
           \A v \in Workers : Serves(workers[v]),
           NEW w \in Workers, Upsert(w) \/ \E m \in Ids : Remove(w, m)
    PROVE  Lineage(root)' /\ \A v \in Workers : Serves(workers[v])'
<1>1. /\ \A v \in Workers \ {w} : workers'[v] = [workers[v] EXCEPT !.calm = FALSE]
      /\ workers'[w].at \in {"repair", "upsert"}
      /\ records' = records /\ now' = now /\ withdrawn' = withdrawn
    <2>1. workers[w] \in Worker
        BY WorkerState
    <2>2. CASE Upsert(w)
        BY <2>1, <2>2 DEF Upsert, Worker
    <2>3. ASSUME NEW m \in Ids, Remove(w, m)
          PROVE  /\ \A v \in Workers \ {w} : workers'[v] = [workers[v] EXCEPT !.calm = FALSE]
                 /\ workers'[w].at \in {"repair", "upsert"}
                 /\ records' = records /\ now' = now /\ withdrawn' = withdrawn
        <3> DEFINE keep == Projectable(workers[w].plan[m], workers[w].asked)
        <3>1. workers' = [v \in Workers |->
                  IF v # w THEN [workers[v] EXCEPT !.calm = FALSE]
                  ELSE [workers[w] EXCEPT !.todo = @ \ {m},
                                          !.at = IF keep THEN "upsert" ELSE "repair",
                                          !.next = IF keep THEN m ELSE None]]
            BY <2>3 DEF Remove
        <3> HIDE DEF keep
        <3>2. workers'[w].at = IF keep THEN "upsert" ELSE "repair"
            BY <2>1, <3>1 DEF Worker
        <3>3. \A v \in Workers \ {w} : workers'[v] = [workers[v] EXCEPT !.calm = FALSE]
            BY <3>1
        <3> QED
            BY <2>3, <3>2, <3>3 DEF Remove
    <2> QED
        BY <2>2, <2>3
<1>2. now \in Nat /\ now <= now'
    BY <1>1 DEF Plain, TypeOK, Times
<1>3. Extends(root, root)
    BY DEF Extends
<1>4. \A v \in Workers \ {w} : Writes(workers'[v], root) /\ Serves(workers[v])'
    BY <1>1, <1>2, <1>3, OthersKeepTheirs DEF Lineage
<1>5. Writes(workers'[w], root) /\ Serves(workers[w])'
    BY <1>1 DEF Writes, Serves
<1>6. Lineage(root)'
    BY <1>1, <1>4, <1>5, LineageNext DEF Lineage, Stands, Is
<1> QED
    BY <1>4, <1>5, <1>6

LEMMA TickKeepsLineage ==
    ASSUME Plain, NEW root \in Roots, Lineage(root),
           \A v \in Workers : Serves(workers[v]), Tick
    PROVE  Lineage(root)' /\ \A v \in Workers : Serves(workers[v])'
<1>1. /\ \A v \in Workers : workers'[v] = [workers[v] EXCEPT !.calm = FALSE]
      /\ records' = records /\ now' = now + 1 /\ withdrawn' = withdrawn
    BY DEF Tick
<1>2. now \in Nat /\ now' \in Nat /\ now <= now'
    BY <1>1 DEF Plain, TypeOK, Times
<1>3. Extends(root, root)
    BY DEF Extends
<1>4. \A v \in Workers : Writes(workers'[v], root) /\ Serves(workers[v])'
    BY <1>1, <1>2, <1>3, OthersKeepTheirs DEF Lineage
<1>5. \A m \in Ids : root[m] # None /\ root[m].expires <= now => root[m].expires <= now'
    <2> SUFFICES ASSUME NEW m \in Ids, root[m] # None, root[m].expires <= now
                 PROVE  root[m].expires <= now'
        OBVIOUS
    <2>1. root[m] \in Intents
        BY DEF Roots
    <2> QED
        BY <1>2, <2>1, IntentFields
<1>6. ASSUME NEW m \in Ids, Is(m, "superseded")', records'[m].expires > now'
      PROVE  records'[records'[m].next] # None
    <2>1. records[m] \in Record
        BY <1>1, <1>6, StoredRecord DEF Is, Plain
    <2>2. records[m].expires > now
        BY <1>1, <1>2, <1>6, <2>1, RecordFields
    <2> QED
        BY <1>1, <1>6, <2>2 DEF Lineage, Is
<1>7. Lineage(root)'
    BY <1>1, <1>4, <1>5, <1>6, LineageNext DEF Lineage, Stands, Is
<1> QED
    BY <1>4, <1>7

\* A superseded memory has a successor that has its root, if any.
LEMMA SuccessorOfSuperseded ==
    ASSUME IdsAreFresh, Plain, NEW root \in Roots, Lineage(root),
           NEW m \in Ids, Is(m, "superseded")
    PROVE  LET n == records[m].next
           IN  /\ n \in Ids
               /\ records[n] # None => /\ records[n].prev = m
                                       /\ records[n].topic = records[m].topic
                                       /\ records[n].expires = records[m].expires
<1> DEFINE n == records[m].next
<1>1. Descends(records[m], m, root)
    BY StoredDescends DEF Is
<1>2. PICK i \in Intents : i.action = "supersede" /\ i.id = m /\ i.replacement = n
    BY <1>1 DEF Descends, Is
<1>3. n \in Ids
    BY <1>2, IntentFields
<1>4. ASSUME records[n] # None
      PROVE  /\ records[n].prev = m
             /\ records[n].topic = records[m].topic
             /\ records[n].expires = records[m].expires
    <2>1. Descends(records[n], n, root)
        BY <1>3, <1>4, StoredDescends
    <2>2. root[n] = root[m]
        BY <1>2, <2>1, SuccessorHasTheRoot DEF Descends
    <2>3. records[n].prev = m
        BY <1>2, <2>1 DEF Descends
    <2> QED
        BY <1>1, <2>1, <2>2, <2>3 DEF Descends
<1> QED
    BY <1>3, <1>4

LEMMA DropKeepsLineage ==
    ASSUME IdsAreFresh, Plain, NEW root \in Roots, Lineage(root),
           \A v \in Workers : Serves(workers[v]),
           NEW d \in Ids, Drop(d)
    PROVE  Lineage(root)' /\ \A v \in Workers : Serves(workers[v])'
<1>1. /\ \A v \in Workers : workers'[v] = [workers[v] EXCEPT !.calm = FALSE]
      /\ records \in [Ids -> Stored] /\ records' = [records EXCEPT ![d] = None]
      /\ records[d] # None /\ records[d].expires <= now
      /\ now' = now /\ withdrawn' = withdrawn \cup Ended(records')
    BY DEF Drop, Plain, TypeOK
<1>2. now \in Nat /\ now <= now'
    BY <1>1 DEF Plain, TypeOK, Times
<1>3. Extends(root, root)
    BY DEF Extends
<1>4. \A v \in Workers : Writes(workers'[v], root) /\ Serves(workers[v])'
    BY <1>1, <1>2, <1>3, OthersKeepTheirs DEF Lineage
<1>5. records'[d] = None /\ \A m \in Ids : m # d => records'[m] = records[m]
    BY <1>1
<1>6. Descends(records[d], d, root)
    BY <1>1, StoredDescends
<1>7. root[d] # None /\ root[d].expires <= now
    BY <1>1, <1>6 DEF Descends
<1>8. ASSUME NEW i \in withdrawn', NEW m \in Ids, Makes(i, m)
      PROVE  root[m] # None /\ (Stands(m)' => root[m].expires <= now')
    <2>1. CASE m = d
        BY <1>1, <1>7, <2>1
    <2>2. CASE m # d /\ i \in withdrawn
        BY <1>1, <1>5, <1>8, <2>2 DEF Lineage, Stands, Is
    <2>3. CASE m # d /\ i \in Ended(records')
        <3>1. PICK n \in Ids : /\ i = records[n].consent /\ Is(n, "active")
                               /\ ~ (records'[n] # None /\ records'[n].status = "active")
            BY <2>3 DEF Ended
        <3>2. n = d
            BY <1>5, <3>1 DEF Is
        <3>3. Makes(i, n)
            BY <3>1, StoredDescends DEF Is, Descends
        <3> QED
            BY <1>8, <2>3, <3>2, <3>3, MakesOne
    <2> QED
        BY <1>1, <2>1, <2>2, <2>3
<1>9. ASSUME NEW m \in Ids, Is(m, "superseded")', records'[m].expires > now'
      PROVE  records'[records'[m].next] # None
    <2>1. m # d /\ records'[m] = records[m] /\ Is(m, "superseded")
        BY <1>5, <1>9 DEF Is
    <2>2. records[records[m].next] # None
        BY <1>1, <1>9, <2>1 DEF Lineage
    <2>3. records[m].next \in Ids /\ records[records[m].next].expires = records[m].expires
        BY <2>1, <2>2, SuccessorOfSuperseded
    <2>4. records[m].expires \in Nat
        BY <2>1, StoredRecord, RecordFields DEF Is, Plain
    <2>5. records[m].next # d
        BY <1>1, <1>2, <1>9, <2>1, <2>3, <2>4
    <2> QED
        BY <1>5, <2>1, <2>2, <2>3, <2>5
<1>10. \A m \in Ids : records'[m] # None => Descends(records'[m], m, root)
    BY <1>5, StoredDescends
<1>11. Lineage(root)'
    BY <1>4, <1>8, <1>9, <1>10, LineageNext DEF Lineage
<1> QED
    BY <1>4, <1>11

LEMMA CommitKeepsLineage ==
    ASSUME IdsAreFresh, Plain, NEW root \in Roots, Lineage(root),
           \A v \in Workers : Serves(workers[v]),
           NEW w \in Workers, Commit(w)
    PROVE  /\ \E f \in Roots : Lineage(f)'
           /\ \A v \in Workers : Serves(workers[v])'
<1> DEFINE q == workers[w]
           i == q.intent
<1>1. PICK f \in Roots :
         /\ Rooted(f) /\ Extends(root, f)
         /\ Descends(q.new, Target(w), f)
         /\ i.action = "supersede" => Descends(q.old, i.id, f)
    BY CommitExtends
<1>2. /\ records'[Target(w)] = q.new
      /\ i.action = "supersede" => records'[i.id] = q.old
      /\ \A m \in Ids : m # Target(w) /\ (i.action = "supersede" => m # i.id) =>
            records'[m] = records[m]
    BY CommitRecords
<1>3. now' = now /\ withdrawn' = withdrawn \cup Ended(records') /\ now \in Nat /\ now <= now'
    BY DEF Commit, Plain, TypeOK, Times
<1>4. \A m \in Ids : records'[m] # None => Descends(records'[m], m, f)
    <2> SUFFICES ASSUME NEW m \in Ids, records'[m] # None
                 PROVE  Descends(records'[m], m, f)
        OBVIOUS
    <2>1. CASE m = Target(w) \/ (i.action = "supersede" /\ m = i.id)
        BY <1>1, <1>2, <2>1
    <2>2. CASE ~ (m = Target(w) \/ (i.action = "supersede" /\ m = i.id))
        <3>1. records'[m] = records[m]
            BY <1>2, <2>2
        <3>2. Descends(records[m], m, root)
            BY <3>1, StoredDescends
        <3> QED
            BY <1>1, <3>1, <3>2, DescendsFurther
    <2> QED
        BY <2>1, <2>2
<1>5. ASSUME NEW v \in Workers
      PROVE  Writes(workers'[v], f) /\ Serves(workers[v])'
    <2>1. CASE v = w
        <3>1. workers'[v] = Decided("answered")
            BY <2>1 DEF Commit, Disturbing
        <3>2. workers'[v].at = "answered"
            BY <3>1, DecidedIsWorker DEF Calls
        <3> QED
            BY <3>2 DEF Writes, Serves
    <2>2. CASE v # w
        <3>1. workers'[v] = [workers[v] EXCEPT !.calm = FALSE]
            BY <2>2 DEF Commit, Disturbing
        <3> QED
            BY <1>1, <1>3, <3>1, OthersKeepTheirs DEF Lineage
    <2> QED
        BY <2>1, <2>2
<1>6. ASSUME NEW m \in Ids
      PROVE  /\ records[m] # None => records'[m] # None
             /\ Stands(m)' => Stands(m)
             /\ Is(m, "active") /\ ~ Is(m, "active")' => records'[m] # None
             /\ Is(m, "superseded")' =>
                   \/ Is(m, "superseded") /\ records'[m] = records[m]
                   \/ records'[m] # None /\ records'[records'[m].next] # None
    BY CommitAdvances
<1>7. ASSUME NEW j \in withdrawn', NEW m \in Ids, Makes(j, m)
      PROVE  f[m] # None /\ (Stands(m)' => f[m].expires <= now')
    <2>1. CASE j \in withdrawn
        <3>1. root[m] # None /\ (Stands(m) => root[m].expires <= now)
            BY <1>7, <2>1 DEF Lineage
        <3> QED
            BY <1>1, <1>3, <1>6, <3>1 DEF Extends
    <2>2. CASE j \in Ended(records')
        <3>1. PICK n \in Ids : /\ j = records[n].consent /\ Is(n, "active")
                               /\ ~ (records'[n] # None /\ records'[n].status = "active")
            BY <2>2 DEF Ended
        <3>2. Makes(j, n) /\ root[n] # None
            BY <3>1, StoredDescends DEF Is, Descends
        <3>3. m = n
            BY <1>7, <3>2, MakesOne
        <3>4. ~ Stands(n)'
            BY <1>6, <3>1 DEF Stands, Is
        <3> QED
            BY <1>1, <3>2, <3>3, <3>4 DEF Extends
    <2> QED
        BY <1>3, <2>1, <2>2
<1>8. ASSUME NEW m \in Ids, Is(m, "superseded")', records'[m].expires > now'
      PROVE  records'[records'[m].next] # None
    <2>1. CASE Is(m, "superseded") /\ records'[m] = records[m]
        <3>1. records[records[m].next] # None
            BY <1>3, <1>8, <2>1 DEF Lineage
        <3>2. records[m].next \in Ids
            BY <2>1, SuccessorOfSuperseded
        <3> QED
            BY <1>6, <2>1, <3>1, <3>2
    <2> QED
        BY <1>6, <1>8, <2>1
<1>9. Lineage(f)'
    BY <1>1, <1>4, <1>5, <1>7, <1>8, LineageNext
<1> QED
    BY <1>5, <1>9

LEMMA NextKeepsLineage ==
    ASSUME IdsAreFresh, IInv, [Next]_vars
    PROVE  IInv'
<1>1. Plain'
    BY NextKeepsPlain DEF IInv
<1>2. PICK root \in Roots : Lineage(root)
    BY DEF IInv
<1>3. Plain /\ \A w \in Workers : Serves(workers[w])
    BY DEF IInv
<1>4. (\E f \in Roots : Lineage(f)') /\ \A w \in Workers : Serves(workers[w])'
    <2>1. CASE Next
        BY <1>2, <1>3, <2>1, StepIsOneOfThese, MovesKeepsLineage, PrepareKeepsLineage,
           RepairKeepsLineage, TickKeepsLineage, DropKeepsLineage, CommitKeepsLineage
    <2>2. CASE UNCHANGED vars
        <3>1. workers' = workers /\ records' = records /\ now' = now /\ withdrawn' = withdrawn
            BY <2>2 DEF vars
        <3>2. Lineage(root)'
            BY <1>2, <3>1, LineageNext DEF Lineage, Stands, Is
        <3>3. \A w \in Workers : Serves(workers[w])'
            BY <1>3, <3>1 DEF Serves
        <3> QED
            BY <3>2, <3>3
    <2> QED
        BY <2>1, <2>2
<1>5. (\E f \in Roots : Lineage(f))'
    BY <1>4
<1> QED
    BY <1>1, <1>4, <1>5 DEF IInv

LEMMA InitHasLineage == Init => IInv
<1> SUFFICES ASSUME Init PROVE IInv
    OBVIOUS
<1> DEFINE root == [m \in Ids |-> None]
<1>1. root \in Roots /\ \A m \in Ids : root[m] = None
    BY DEF Roots
<1>2. Rooted(root)
    BY <1>1 DEF Rooted
<1>3. \A w \in Workers : Serves(workers[w]) /\ \A f : Writes(workers[w], f)
    BY IdleIsWorker, RestingIsSound DEF Init
<1>4. (\A m \in Ids : records[m] = None) /\ withdrawn = {}
    BY DEF Init
<1> HIDE DEF root
<1>5. Lineage(root)
    BY <1>2, <1>3, <1>4 DEF Lineage, Is
<1> QED
    BY <1>1, <1>3, <1>5, InitIsPlain DEF IInv

-----------------------------------------------------------------------------
(* What the invariants say.                                                *)

LEMMA CalmIsExact ==
    ASSUME Plain
    PROVE  SynchronizedIsExact
<1> SUFFICES ASSUME NEW w \in Workers, workers[w].at = "repair", workers[w].todo = {},
                    workers[w].calm, NEW m \in Ids
             PROVE  Exactly(m)
    BY DEF SynchronizedIsExact, Exactly
<1>1. Undisturbed(workers[w])
    BY DEF Plain, Sound
<1> QED
    BY <1>1 DEF Undisturbed

LEMMA LineageIsWhole ==
    ASSUME IdsAreFresh, IInv
    PROVE  RecordsAreWhole
<1>1. PICK root \in Roots : Lineage(root)
    BY DEF IInv
<1>2. Plain /\ TypeOK
    BY DEF IInv, Plain
<1>3. ASSUME NEW m \in Ids, Is(m, "superseded"), records[m].expires > now
      PROVE  LET n == records[m].next IN
             records[n] # None /\ records[n].prev = m /\ records[n].topic = records[m].topic
    <2>1. records[records[m].next] # None
        BY <1>1, <1>3 DEF Lineage
    <2> QED
        BY <1>1, <1>2, <1>3, <2>1, SuccessorOfSuperseded
<1> QED
    BY <1>2, <1>3 DEF RecordsAreWhole

LEMMA NothingLiveIsWithdrawn ==
    ASSUME IInv
    PROVE  WithdrawnStaysWithdrawn
<1>1. PICK root \in Roots : Lineage(root)
    BY DEF IInv
<1> QED
    BY <1>1, LiveIsNotWithdrawn DEF IInv, WithdrawnStaysWithdrawn, Projectable

-----------------------------------------------------------------------------
(* Refinement: the steps of the requests are steps of the register.        *)

\* The register's view of a memory.
StatusOf(r) == IF r = None THEN "absent" ELSE r.status
TopicOf(r) == IF r = None THEN CHOOSE t \in Topics : TRUE ELSE r.topic
Status == [m \in Ids |-> StatusOf(records[m])]
Topic == [m \in Ids |-> TopicOf(records[m])]

LEMMA SomeTopic == (CHOOSE t \in Topics : TRUE) \in Topics
BY MemoryConstants

\* The types of the register.
LEMMA RegisterTypes ==
    ASSUME Plain
    PROVE  /\ Status \in [Ids -> Statuses \cup {"absent"}] /\ Topic \in [Ids -> Topics]
           /\ "absent" \notin Statuses
           /\ \A m \in Ids : records[m] = None => Status[m] = "absent"
           /\ \A m \in Ids : records[m] # None =>
                 /\ Status[m] = records[m].status /\ Status[m] \in Statuses
                 /\ Topic[m] = records[m].topic
<1>1. \A m \in Ids : records[m] # None => /\ records[m].status \in Statuses
                                          /\ records[m].topic \in Topics
    BY StoredRecord, RecordFields DEF Plain
<1> QED
    BY <1>1, SomeTopic DEF Status, Topic, StatusOf, TopicOf, Statuses

\* One memory changes its stage, or its subject.
LEMMA StatusNext ==
    ASSUME NEW m \in Ids, NEW s,
           \A k \in Ids : StatusOf(records'[k]) = IF k = m THEN s ELSE StatusOf(records[k])
    PROVE  Status' = [Status EXCEPT ![m] = s]
BY DEF Status

LEMMA TopicNext ==
    ASSUME NEW m \in Ids, NEW t,
           \A k \in Ids : TopicOf(records'[k]) = IF k = m THEN t ELSE TopicOf(records[k])
    PROVE  Topic' = [Topic EXCEPT ![m] = t]
BY DEF Topic

\* The steps of the register, by what they change.
LEMMA RegisterRemembers ==
    ASSUME NEW m \in Ids, NEW t \in Topics, Status[m] = "absent",
           \A n \in Ids : ~ (Status[n] = "active" /\ Topic[n] = t),
           Status' = [Status EXCEPT ![m] = "active"], Topic' = [Topic EXCEPT ![m] = t]
    PROVE  Register!Next
<1>1. Register!Active(t) = {}
    BY DEF Register!Active, Status, Topic, StatusOf, TopicOf
<1>2. Register!Remember(m)
    BY <1>1 DEF Register!Remember, Status, Topic, StatusOf, TopicOf
<1> QED
    BY <1>2 DEF Register!Next

LEMMA RegisterReplaces ==
    ASSUME NEW m \in Ids, NEW n \in Ids, m # n, Status[m] = "active", Status[n] = "absent",
           Status' = [Status EXCEPT ![m] = "superseded", ![n] = "active"],
           Topic' = [Topic EXCEPT ![n] = Topic[m]]
    PROVE  Register!Next
<1>1. Register!Replace(m, n)
    BY DEF Register!Replace, Status, Topic, StatusOf, TopicOf
<1> QED
    BY <1>1 DEF Register!Next

LEMMA RegisterRetires ==
    ASSUME NEW m \in Ids, NEW s \in {"consent_revoked", "deleted"},
           \/ Status[m] = "active"
           \/ Status[m] \in {"superseded", "consent_revoked"} /\ s = "deleted",
           Status' = [Status EXCEPT ![m] = s], Topic' = Topic
    PROVE  Register!Next
<1>1. Register!Retire(m)
    BY DEF Register!Retire, Status, Topic, StatusOf, TopicOf
<1> QED
    BY <1>1 DEF Register!Next

LEMMA RegisterRecords ==
    ASSUME NEW m \in Ids, NEW s \in {"consent_revoked", "deleted"}, NEW t \in Topics,
           Status[m] = "absent",
           Status' = [Status EXCEPT ![m] = s], Topic' = [Topic EXCEPT ![m] = t]
    PROVE  Register!Next
<1>1. Register!Record(m)
    BY DEF Register!Record, Status, Topic, StatusOf, TopicOf
<1> QED
    BY <1>1 DEF Register!Next

LEMMA RegisterDrops ==
    ASSUME NEW m \in Ids, NEW t \in Topics, Status[m] # "absent",
           Status' = [Status EXCEPT ![m] = "absent"], Topic' = [Topic EXCEPT ![m] = t]
    PROVE  Register!Next
<1>1. Register!Drop(m)
    BY DEF Register!Drop, Status, Topic, StatusOf, TopicOf
<1> QED
    BY <1>1 DEF Register!Next

LEMMA CommitIsRegisterStep ==
    ASSUME IdsAreFresh, IInv, NEW w \in Workers, Commit(w)
    PROVE  Register!Next
<1> DEFINE q == workers[w]
           i == q.intent
           d == records[i.id]
<1>1. PICK root \in Roots : Lineage(root)
    BY DEF IInv
<1>2. Plain
    BY DEF IInv
<1>3. /\ i \in Intents /\ i.action \in Actions /\ q.at = "save"
      /\ i.id \in Ids /\ i.replacement \in Ids
      /\ q.new \in Record /\ q.new # None
      /\ i.action = "supersede" => q.old \in Record /\ q.old # None /\ i.replacement # i.id
      /\ Target(w) = IF i.action = "supersede" THEN i.replacement ELSE i.id
    BY <1>2, CommitWrites
<1>4. /\ records'[Target(w)] = q.new
      /\ i.action = "supersede" => records'[i.id] = q.old
      /\ \A m \in Ids : m # Target(w) /\ (i.action = "supersede" => m # i.id) =>
            records'[m] = records[m]
    BY <1>2, CommitRecords
<1>5. Writes(q, root) /\ MayCommit(w)
    BY <1>1 DEF Lineage, Commit
<1>6. /\ Status \in [Ids -> Statuses \cup {"absent"}] /\ Topic \in [Ids -> Topics]
      /\ "absent" \notin Statuses
      /\ \A m \in Ids : records[m] = None => Status[m] = "absent"
      /\ \A m \in Ids : records[m] # None =>
            /\ Status[m] = records[m].status /\ Status[m] \in Statuses
            /\ Topic[m] = records[m].topic
    BY <1>2, RegisterTypes
<1>7. /\ StatusOf(q.new) = q.new.status /\ TopicOf(q.new) = q.new.topic
      /\ i.action = "supersede" =>
            StatusOf(q.old) = q.old.status /\ TopicOf(q.old) = q.old.topic
      /\ \A m \in Ids : StatusOf(records[m]) = Status[m] /\ TopicOf(records[m]) = Topic[m]
      /\ q.new.topic \in Topics
    BY <1>3, RecordFields DEF StatusOf, TopicOf, Status, Topic
<1>8. d # None => Descends(d, i.id, root)
    BY <1>1, <1>3, StoredDescends
<1> HIDE DEF q, i, d
<1>9. ASSUME i.action # "supersede"
      PROVE  /\ Status' = [Status EXCEPT ![i.id] = q.new.status]
             /\ Topic' = [Topic EXCEPT ![i.id] = q.new.topic]
    <2>1. \A k \in Ids : records'[k] = IF k = i.id THEN q.new ELSE records[k]
        BY <1>3, <1>4, <1>9
    <2>2. \A k \in Ids : StatusOf(records'[k]) = IF k = i.id THEN q.new.status ELSE StatusOf(records[k])
        BY <1>7, <2>1
    <2>3. \A k \in Ids : TopicOf(records'[k]) = IF k = i.id THEN q.new.topic ELSE TopicOf(records[k])
        BY <1>7, <2>1
    <2> QED
        BY <1>3, <2>2, <2>3, StatusNext, TopicNext
<1>10. CASE i.action = "create"
    <2>1. q.new.status = "active"
        BY <1>3, <1>5, <1>10 DEF Writes, NewRecord, i
    <2>2. d = None
        <3>1. d # None => "active" \in Allowed[d.status]
            BY <1>3, <1>5, <1>10, <2>1 DEF MayCommit, MayWrite, q, i, d
        <3>2. d # None => d.status \in Statuses
            BY <1>3, <1>6 DEF d
        <3> QED
            BY <3>1, <3>2 DEF Allowed, Statuses
    <2>3. ASSUME NEW n \in Ids, Status[n] = "active", Topic[n] = q.new.topic
          PROVE  FALSE
        <3>1. Unique(Written(w))
            BY <1>5, <1>10 DEF MayCommit, MayWrite, i, q
        <3>2. Written(w) = records'
            BY <1>10 DEF Commit, Outcome, i, q
        <3>3. records[n] # None /\ records[n].status = "active" /\ records[n].topic = q.new.topic
              /\ n # i.id
            BY <1>6, <2>2, <2>3 DEF d, Statuses
        <3>4. records'[n] = records[n] /\ records'[i.id] = q.new
            BY <1>3, <1>4, <1>10, <3>3
        <3>5. Unique(records')
            BY <3>1, <3>2
        <3> QED
            BY <1>3, <2>1, <3>3, <3>4, <3>5 DEF Unique
    <2>4. Status[i.id] = "absent"
        BY <1>3, <1>6, <2>2 DEF d
    <2> QED
        BY <1>3, <1>7, <1>9, <1>10, <2>1, <2>3, <2>4, RegisterRemembers
<1>11. CASE i.action = "supersede"
    <2>1. /\ q.old.status = "superseded" /\ q.new.status = "active"
          /\ q.new.topic = q.old.topic /\ Descends(q.old, i.id, root)
        BY <1>3, <1>5, <1>11 DEF Writes, i
    <2>2. records[i.replacement] = None /\ d # None /\ d.status = "active"
        BY <1>3, <1>5, <1>11 DEF MayCommit, MayWriteBoth, Is, q, i, d
    <2>3. q.old.topic = d.topic
        BY <1>8, <2>1, <2>2 DEF Descends
    <2>4. Topic[i.id] = d.topic /\ Status[i.id] = "active" /\ Status[i.replacement] = "absent"
        BY <1>3, <1>6, <2>2 DEF d
    <2>5. \A k \in Ids : records'[k] = IF k = i.replacement THEN q.new
                                     ELSE IF k = i.id THEN q.old ELSE records[k]
        BY <1>3, <1>4, <1>11
    <2>6. \A k \in Ids : StatusOf(records'[k]) = IF k = i.replacement THEN "active"
                                               ELSE IF k = i.id THEN "superseded" ELSE Status[k]
        BY <1>7, <1>11, <2>1, <2>5
    <2>7. Status' = [Status EXCEPT ![i.id] = "superseded", ![i.replacement] = "active"]
        <3>1. Status' = [k \in Ids |-> IF k = i.replacement THEN "active"
                                       ELSE IF k = i.id THEN "superseded" ELSE Status[k]]
            BY <2>6 DEF Status
        <3> QED
            BY <1>3, <1>6, <3>1
    <2>8. \A k \in Ids : TopicOf(records'[k]) = IF k = i.replacement THEN Topic[i.id]
                                              ELSE TopicOf(records[k])
        BY <1>7, <1>11, <2>1, <2>3, <2>4, <2>5
    <2>9. Topic' = [Topic EXCEPT ![i.replacement] = Topic[i.id]]
        BY <1>3, <2>8, TopicNext
    <2> QED
        BY <1>3, <1>11, <2>4, <2>7, <2>9, RegisterReplaces
<1>12. CASE i.action \in {"revoke", "delete"}
    <2>1. q.new.status \in {"consent_revoked", "deleted"} /\ Descends(q.new, i.id, root)
        BY <1>3, <1>5, <1>12 DEF Writes, i
    <2>2. CASE d = None
        <3>1. Status[i.id] = "absent"
            BY <1>3, <1>6, <2>2 DEF d
        <3> QED
            BY <1>3, <1>7, <1>9, <1>12, <2>1, <3>1, RegisterRecords
    <2>3. CASE d # None
        <3>1. q.new.status \in Allowed[d.status]
            BY <1>3, <1>5, <1>12, <2>3 DEF MayCommit, MayWrite, q, i, d
        <3>2. q.new.topic = Topic[i.id] /\ Status[i.id] = d.status /\ d.status \in Statuses
            BY <1>3, <1>6, <1>8, <2>1, <2>3 DEF Descends, d
        <3>3. Topic' = Topic
            BY <1>3, <1>6, <1>9, <1>12, <3>2
        <3>4. \/ Status[i.id] = "active"
              \/ Status[i.id] \in {"superseded", "consent_revoked"} /\ q.new.status = "deleted"
            BY <3>1, <3>2 DEF Allowed, Statuses
        <3> QED
            BY <1>3, <1>9, <1>12, <2>1, <3>3, <3>4, RegisterRetires
    <2> QED
        BY <2>2, <2>3
<1> QED
    BY <1>3, <1>10, <1>11, <1>12 DEF Actions

LEMMA DropIsRegisterStep ==
    ASSUME Plain, NEW m \in Ids, Drop(m)
    PROVE  Register!Next
<1> DEFINE t == CHOOSE t \in Topics : TRUE
<1>1. /\ records \in [Ids -> Stored] /\ records' = [records EXCEPT ![m] = None]
      /\ records[m] # None
    BY DEF Drop, Plain, TypeOK
<1>2. TopicOf(None) = t /\ StatusOf(None) = "absent" /\ t \in Topics
    BY SomeTopic DEF TopicOf, StatusOf
<1> HIDE DEF t
<1>3. \A k \in Ids : records'[k] = IF k = m THEN None ELSE records[k]
    BY <1>1
<1>4. Status' = [Status EXCEPT ![m] = "absent"]
    BY <1>2, <1>3, StatusNext
<1>5. Topic' = [Topic EXCEPT ![m] = t]
    BY <1>2, <1>3, TopicNext
<1>6. Status[m] # "absent"
    BY <1>1, RegisterTypes
<1> QED
    BY <1>2, <1>4, <1>5, <1>6, RegisterDrops

\* The register's variables, in the model.
Entries == << [m \in Ids |-> IF records[m] = None THEN "absent" ELSE records[m].status],
              [m \in Ids |-> IF records[m] = None THEN CHOOSE t \in Topics : TRUE
                                                  ELSE records[m].topic] >>

LEMMA StepsAreRegisterSteps ==
    ASSUME IdsAreFresh, IInv, [Next]_vars
    PROVE  [Register!Next]_Entries
<1>1. records' = records => UNCHANGED Entries
    BY DEF Entries
<1>2. ASSUME Next, records' # records
      PROVE  Register!Next
    <2>1. ~ \E i \in Intents : Prepare(i)
        BY <1>2 DEF Prepare
    <2>2. ~ \E w \in Workers : \E r : Moves(w, r)
        BY <1>2 DEF Moves, Rest
    <2>3. ~ \E w \in Workers : Upsert(w) \/ \E m \in Ids : Remove(w, m)
        BY <1>2 DEF Upsert, Remove
    <2>4. ~ Tick
        BY <1>2 DEF Tick
    <2> QED
        BY <1>2, <2>1, <2>2, <2>3, <2>4, StepIsOneOfThese, CommitIsRegisterStep,
           DropIsRegisterStep DEF IInv
<1> QED
    BY <1>1, <1>2 DEF vars

-----------------------------------------------------------------------------
(* The theorems.                                                           *)

LEMMA PlainInvariance == Spec => []Plain
BY InitIsPlain, NextKeepsPlain, PTL DEF Spec

LEMMA MemoryInvariance == ASSUME IdsAreFresh PROVE Spec => []IInv
<1>1. Init => IInv
    BY InitHasLineage
<1>2. IInv /\ [Next]_vars => IInv'
    BY NextKeepsLineage
<1> QED
    BY <1>1, <1>2, PTL DEF Spec

\* Records, receipts, points and requests keep their types, and a record holds
\* no content exactly if it was erased, however requests interleave.
THEOREM MemoryTypeCorrect == Spec => []TypeOK
<1>1. Plain => TypeOK
    BY DEF Plain
<1> QED
    BY <1>1, PlainInvariance, PTL

\* A reconciliation nobody disturbed ends with the index exact (synchronize in
\* memory/projection.py).
THEOREM ReconciliationIsExact == Spec => []SynchronizedIsExact
<1>1. Plain => SynchronizedIsExact
    BY CalmIsExact
<1> QED
    BY <1>1, PlainInvariance, PTL

\* No confirmed request brings back what was superseded, revoked, erased or
\* dropped, as long as clients make up a new id for each memory (_confirm,
\* _transition and save_memory).
THEOREM NothingComesBack == ASSUME IdsAreFresh PROVE Spec => []WithdrawnStaysWithdrawn
<1>1. IInv => WithdrawnStaysWithdrawn
    BY NothingLiveIsWithdrawn
<1> QED
    BY <1>1, MemoryInvariance, PTL

\* The chain from a superseded memory to its successor does not break before
\* both expire (supersede).
THEOREM ChainsAreWhole == ASSUME IdsAreFresh PROVE Spec => []RecordsAreWhole
<1>1. IInv => RecordsAreWhole
    BY LineageIsWhole
<1> QED
    BY <1>1, MemoryInvariance, PTL

\* A search returns nothing that had been withdrawn when it began (search).
THEOREM SearchesAreTruthful == ASSUME IdsAreFresh PROVE Spec => []SearchServesTheLiving
<1>1. IInv => SearchServesTheLiving
    BY DEF IInv, Serves, SearchServesTheLiving
<1> QED
    BY <1>1, MemoryInvariance, PTL

\* Requests that decide on what they read calls earlier change the memories as
\* the register does, one confirmed step at a time.
THEOREM ImplementsMemoryRegister == ASSUME IdsAreFresh PROVE Spec => RegisterSpec
<1>1. Init => Register!Init
    BY SomeTopic DEF Init, Register!Init
<1>2. IInv /\ [Next]_vars => [Register!Next]_Entries
    BY StepsAreRegisterSteps
<1> QED
    BY <1>1, <1>2, MemoryInvariance, PTL DEF Spec, RegisterSpec, Register!Spec, Entries
=============================================================================
