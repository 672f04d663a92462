------------------------------- MODULE Gateway -------------------------------
(***************************************************************************)
(* Requests on their way in. A tool call of the MCP adapter: verification   *)
(* against cached signing keys, attempt in the audit, token exchange with a *)
(* cache, the call of the task API, outcome in the audit. A request of the  *)
(* AI backend: the HTTP boundary, which gives up on a slow backend; there   *)
(* the attempt, the handler, the outcome. Processes die, replies are lost,  *)
(* the audit and the identity provider fail.                               *)
(***************************************************************************)
EXTENDS Naturals, FiniteSets, Sequences, RecentlyUsed

CONSTANTS
    Callers,     \* requests, each of a caller of its own
    Tokens,      \* access tokens of users
    SubjectOf,   \* SubjectOf[t]: its user
    ScopesOf,    \* ScopesOf[t]: its scopes
    KeyTtl,      \* minutes a fetched key set is used
    CacheSize,   \* exchanged tokens that are remembered
    LastMinute   \* bound: the clock

ASSUME GatewayConstants == {KeyTtl, CacheSize} \subseteq Nat \ {0} /\ LastMinute \in Nat

VARIABLES
    issuer,     \* the identity provider: its signing key, and when the first retired
    jwks,       \* the adapter's key set and until when it is used
    exchanged,  \* the cache of exchanged tokens, the last used last
    visit,      \* visit[c]: the request of a caller
    trail,      \* the rows of the audit
    effects,    \* what was done
    minute

gatewayVars == <<issuer, jwks, exchanged, visit, trail, effects, minute>>

-----------------------------------------------------------------------------
Subjects == {SubjectOf[t] : t \in Tokens}
NotRetired == LastMinute + 1

NoVisit == [at |-> "idle", told |-> "nothing"]
NoCredential == [subject |-> "nobody", scopes |-> {}]

GatewayInit ==
    /\ issuer = [key |-> 0, retired |-> NotRetired]
    /\ jwks = [keys |-> {}, until |-> 0]
    /\ exchanged = <<>>
    /\ visit = [c \in Callers |-> NoVisit]
    /\ trail = {} /\ effects = {}
    /\ minute = 0

MinutePasses ==
    /\ minute < LastMinute /\ minute' = minute + 1
    /\ UNCHANGED <<issuer, jwks, exchanged, visit, trail, effects>>

KeyRotates ==
    /\ issuer.key = 0 /\ issuer' = [key |-> 1, retired |-> minute]
    /\ UNCHANGED <<jwks, exchanged, visit, trail, effects, minute>>

\* A write tool, all under one idempotency key of their user, or a sensitive
\* request of an operator.
Arrive(c) ==
    /\ visit[c].at = "idle"
    /\ \E kind \in {"tool", "operator"}, token \in Tokens, key \in 0 .. issuer.key :
         visit' = [visit EXCEPT ![c] =
            [at |-> IF kind = "tool" THEN "presented" ELSE "boundary", kind |-> kind, token |-> token,
             key |-> key, since |-> minute, credential |-> NoCredential, ok |-> FALSE, unaudited |-> FALSE, told |-> "nothing"]]
    /\ UNCHANGED <<issuer, jwks, exchanged, trail, effects, minute>>

User(c) == SubjectOf[visit[c].token]
Has(c, scope) == scope \in ScopesOf[visit[c].token]

\* One row for one step of a request; event ids are never used twice.
WriteRow(c, outcome) == trail' = trail \cup {[id |-> c, subject |-> User(c), outcome |-> outcome]}

Moves(c, at) == visit' = [visit EXCEPT ![c].at = at]

\* The caller hears only once.
Closes(c, told, unaudited) ==
    visit' = [visit EXCEPT ![c] =
        [visit[c] EXCEPT !.at = "ended", !.credential = NoCredential, !.key = 0, !.since = 0, !.ok = FALSE,
                         !.unaudited = unaudited, !.told = IF visit[c].told = "nothing" THEN told ELSE visit[c].told]]

Ends(c, told) == Closes(c, told, FALSE)

\* Mutant: an audit that fails is only logged.
RecordedIfPossible(c, outcome, step) == (WriteRow(c, outcome) \/ UNCHANGED trail) /\ step

\* What the audit cannot record ends as an error, whatever was done.
RecordedOrNot(c, outcome, step) ==
    \/ WriteRow(c, outcome) /\ step
    \/ Closes(c, "error", TRUE) /\ UNCHANGED trail

-----------------------------------------------------------------------------
(* The adapter.                                                            *)

Fresh == minute < jwks.until

\* Mutant: a key set is used until an unknown key turns up.
NeedsFetchIfUnknown(key) == key \notin jwks.keys

\* A fresh key set is used as it is; an unknown key has it fetched anew.
NeedsFetch(key) == ~ Fresh \/ key \notin jwks.keys

Fetched == [keys |-> {issuer.key}, until |-> minute + KeyTtl]

VerifyToken(c) ==
    /\ visit[c].at = "presented"
    /\ \/ /\ ~ NeedsFetch(visit[c].key)
          /\ visit' = [visit EXCEPT ![c].at = "verified", ![c].since = minute]
          /\ UNCHANGED jwks
       \/ /\ NeedsFetch(visit[c].key)
          /\ jwks' = Fetched
          /\ IF visit[c].key \in Fetched.keys
             THEN visit' = [visit EXCEPT ![c].at = "verified", ![c].since = minute]
             ELSE Ends(c, "refused")
       \/ NeedsFetch(visit[c].key) /\ Ends(c, "refused") /\ UNCHANGED jwks
    /\ UNCHANGED <<issuer, exchanged, trail, effects, minute>>

\* The tool's scope, then the attempt.
InvokeTool(c) ==
    /\ visit[c].at = "verified"
    /\ IF ~ Has(c, "tasks:write") THEN RecordedOrNot(c, "rejected", Ends(c, "refused"))
       ELSE RecordedOrNot(c, "attempt", visit' = [visit EXCEPT ![c].at = "attempted", ![c].key = 0, ![c].since = 0])
    /\ UNCHANGED <<issuer, jwks, exchanged, effects, minute>>

\* The cache has one entry for a token.
Places(token) == {i \in DOMAIN exchanged : exchanged[i].token = token}
Without(token) == Dropped(exchanged, Places(token))
Entry(token) == {exchanged[i] : i \in {k \in Places(token) : minute < exchanged[k].until}}

Kept(cache) == Limited(cache, CacheSize)

LookUpExchange(c) ==
    /\ visit[c].at = "attempted"
    /\ \/ \E entry \in Entry(visit[c].token) :
            /\ exchanged' = Append(Without(visit[c].token), entry)
            /\ visit' = [visit EXCEPT ![c].at = "calling", ![c].credential = entry.credential]
       \/ Entry(visit[c].token) = {} /\ Moves(c, "exchanging") /\ UNCHANGED exchanged
    /\ UNCHANGED <<issuer, jwks, trail, effects, minute>>

\* What the identity provider may issue.
Credentials == [subject : Subjects, scopes : {{}, {"tasks:write"}, {"tasks:write", "calendar:write"}}]

\* Mutant: the scopes are the provider's business.
SameSubject(token, credential) == credential.subject = SubjectOf[token]

SameIdentity(token, credential) == credential.subject = SubjectOf[token] /\ credential.scopes \subseteq ScopesOf[token]

\* Outside of the lock: two calls with one token may both exchange it.
ExchangeToken(c) ==
    /\ visit[c].at = "exchanging"
    /\ \/ \E credential \in Credentials, until \in {minute, minute + 1} :
            /\ SameIdentity(visit[c].token, credential)
            /\ exchanged' = Kept(Append(Without(visit[c].token),
                                 [token |-> visit[c].token, credential |-> credential, until |-> until]))
            /\ visit' = [visit EXCEPT ![c].at = "calling", ![c].credential = credential]
       \/ Moves(c, "called") /\ UNCHANGED exchanged
    /\ UNCHANGED <<issuer, jwks, trail, effects, minute>>

\* What is checked of a tool's arguments: one mode exactly, or something to change.
Arguments == [fields : BOOLEAN, clear : BOOLEAN, status : BOOLEAN]
ValidForUpdate(args) == args.fields
ValidForSchedule(args) == args.clear # args.fields
ValidForDelegation(args) == Cardinality({field \in DOMAIN args : args[field]}) = 1

ArgumentsAreValid(tool, args) ==
    CASE tool = "task_schedule" -> ValidForSchedule(args)
      [] tool = "task_delegation" -> ValidForDelegation(args)
      [] OTHER -> ValidForUpdate(args)

Effect(c, subject) == [id |-> c, kind |-> visit[c].kind, subject |-> subject]

Called(c, ok) == visit' = [visit EXCEPT ![c].at = "called", ![c].ok = ok, ![c].credential = NoCredential]

\* The task API as the adapter sees it: what was done under a key, or to the
\* expected revision, is not done again; a create is answered as before. A
\* reply that is lost, too late, too long or of another shape is an error.
CallTaskApi(c) ==
    /\ visit[c].at = "calling"
    /\ LET credential == visit[c].credential
           before == \E e \in effects : e.kind = "tool" /\ e.subject = credential.subject
       IN  \E tool \in {t \in {"task_create", "task_schedule", "task_delegation"} :
                          \E args \in Arguments : ArgumentsAreValid(t, args)} :
             \/ /\ "tasks:write" \in credential.scopes
                /\ effects' = IF before THEN effects ELSE effects \cup {Effect(c, credential.subject)}
                /\ \E replied \in BOOLEAN : Called(c, replied /\ (before => tool = "task_create"))
             \/ Called(c, FALSE) /\ UNCHANGED effects
    /\ UNCHANGED <<issuer, jwks, exchanged, trail, minute>>

ReportTool(c) ==
    /\ visit[c].at = "called"
    /\ IF visit[c].ok THEN RecordedOrNot(c, "success", Ends(c, "ok")) ELSE RecordedOrNot(c, "error", Ends(c, "error"))
    /\ UNCHANGED <<issuer, jwks, exchanged, effects, minute>>

-----------------------------------------------------------------------------
(* The AI backend behind its boundary.                                     *)

\* Untrusted origins, missing and invalid tokens; a body that is too large.
PassBoundary(c) ==
    /\ visit[c].at = "boundary"
    /\ \/ Moves(c, "proxied") /\ UNCHANGED trail
       \/ RecordedOrNot(c, "rejected", Ends(c, "refused"))
       \/ Ends(c, "refused") /\ UNCHANGED trail
    /\ UNCHANGED <<issuer, jwks, exchanged, effects, minute>>

InBackend == {"proxied", "admitted", "attempted_at_backend", "handled"}

\* Connection and read timeouts; the backend goes on.
BoundaryGivesUp(c) ==
    /\ visit[c].at \in InBackend /\ visit[c].told = "nothing"
    /\ visit' = [visit EXCEPT ![c].told = "timeout"]
    /\ UNCHANGED <<issuer, jwks, exchanged, trail, effects, minute>>

\* Tokens again; the rate limiter's refusals are not audited.
Authenticate(c) ==
    /\ visit[c].at = "proxied"
    /\ \/ RecordedOrNot(c, "rejected", Ends(c, "refused"))
       \/ (Moves(c, "admitted") \/ Ends(c, "refused")) /\ UNCHANGED trail
    /\ UNCHANGED <<issuer, jwks, exchanged, effects, minute>>

\* A sensitive request is not handled without its attempt.
AttemptSensitive(c) ==
    /\ visit[c].at = "admitted"
    /\ RecordedOrNot(c, "attempt", Moves(c, "attempted_at_backend"))
    /\ UNCHANGED <<issuer, jwks, exchanged, effects, minute>>

\* Who is no operator is refused by the handler.
Handle(c) ==
    /\ visit[c].at = "attempted_at_backend"
    /\ \/ /\ Has(c, "ai:operate")
          /\ effects' = effects \cup {Effect(c, User(c))}
          /\ visit' = [visit EXCEPT ![c].at = "handled", ![c].ok = TRUE]
       \/ Moves(c, "handled") /\ UNCHANGED effects
    /\ UNCHANGED <<issuer, jwks, exchanged, trail, minute>>

\* A status below 400 is a success, another answer a rejection, an exception an error.
ReportSensitive(c) ==
    /\ visit[c].at = "handled"
    /\ IF visit[c].ok THEN RecordedOrNot(c, "success", Ends(c, "ok"))
       ELSE \E outcome \in {"rejected", "error"} : RecordedOrNot(c, outcome, Ends(c, "error"))
    /\ UNCHANGED <<issuer, jwks, exchanged, effects, minute>>

\* The process that has the request dies: nothing of it is written any more.
RequestDies(c) ==
    /\ visit[c].at \notin {"idle", "ended"}
    /\ Closes(c, "error", TRUE)
    /\ UNCHANGED <<issuer, jwks, exchanged, trail, effects, minute>>

GatewayNext ==
    \/ MinutePasses \/ KeyRotates
    \/ \E c \in Callers :
        \/ Arrive(c) \/ VerifyToken(c) \/ InvokeTool(c) \/ LookUpExchange(c) \/ ExchangeToken(c) \/ CallTaskApi(c)
        \/ ReportTool(c) \/ PassBoundary(c) \/ BoundaryGivesUp(c) \/ Authenticate(c) \/ AttemptSensitive(c)
        \/ Handle(c) \/ ReportSensitive(c) \/ RequestDies(c)

GatewaySpec == GatewayInit /\ [][GatewayNext]_gatewayVars

-----------------------------------------------------------------------------
GatewayTypeOK ==
    /\ issuer.key \in {0, 1} /\ jwks.keys \subseteq {0, 1} /\ Len(exchanged) \in 0 .. CacheSize
    /\ \A c \in Callers : visit[c].told \in {"nothing", "ok", "error", "refused", "timeout"}
    /\ minute \in 0 .. LastMinute

\* Nothing sensitive is done without a durable attempt of the user who may do
\* it; of a tool's command under one key, once. Who hears "ok" has what was
\* asked for, and its rows; a request leaves one outcome at most, and leaves
\* its attempt without one only if its process died or the audit failed. A
\* credential never has another user or more scopes than the caller's token,
\* also from the cache, and a retired signing key is used for KeyTtl at most.
EffectsAreAccounted ==
    LET Rows(id) == {r.outcome : r \in {q \in trail : q.id = id}} IN
    /\ \A e \in effects :
         /\ [id |-> e.id, subject |-> e.subject, outcome |-> "attempt"] \in trail
         /\ \E t \in Tokens : SubjectOf[t] = e.subject
                               /\ (IF e.kind = "tool" THEN "tasks:write" ELSE "ai:operate") \in ScopesOf[t]
    /\ \A e, f \in effects : e.kind = "tool" /\ f.kind = "tool" /\ e.subject = f.subject => e = f
    /\ \A r \in trail : Cardinality(Rows(r.id) \ {"attempt"}) <= 1
    /\ \A c \in Callers : visit[c].at # "idle" =>
         /\ visit[c].told = "ok" =>
              /\ \E e \in effects : e.kind = visit[c].kind /\ e.subject = User(c)
              /\ {"attempt", "success"} \subseteq Rows(c)
         /\ visit[c].at = "ended" /\ "attempt" \in Rows(c) /\ ~ visit[c].unaudited =>
              Cardinality(Rows(c)) = 2
         /\ visit[c].at = "calling" =>
              visit[c].credential.subject = User(c) /\ visit[c].credential.scopes \subseteq ScopesOf[visit[c].token]
         /\ visit[c].at = "verified" /\ visit[c].key # issuer.key => visit[c].since < issuer.retired + KeyTtl
=============================================================================
