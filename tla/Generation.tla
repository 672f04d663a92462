------------------------------ MODULE Generation ------------------------------
(***************************************************************************)
(* Grounded answers: the gates of the two routes, the circuit breaker that *)
(* concurrent requests share, the prompt and its budgets, what the private *)
(* runtime may reply, and the validation that makes an output an answer or *)
(* sends the request back to the local fallback.                           *)
(***************************************************************************)
EXTENDS Naturals, FiniteSets

CONSTANTS
    Askers,      \* requests the server handles at the same time
    Hits,        \* chunks retrieval can return
    DocumentOf,  \* DocumentOf[c]: the document of a chunk
    TextOf,      \* TextOf[c]: what the chunk says
    Known,       \* what the caller says it knows already, as texts
    Threshold,   \* provider failures that open the circuit
    Questions    \* bound: requests

ASSUME GenerationConstants ==
    /\ Threshold \in Nat \ {0} /\ Questions \in Nat
    /\ IsFiniteSet(Askers) /\ IsFiniteSet(Hits)

VARIABLES
    breaker,  \* the circuit breaker
    asker,    \* asker[a]: the request being handled
    recent,   \* provider calls that failed since the last that succeeded
    asked     \* requests so far

generationVars == <<breaker, asker, recent, asked>>

-----------------------------------------------------------------------------
(* The caller, the gates and retrieval.                                    *)

Gates == {"rag_disabled", "rag_response_disabled", "generation_disabled",
          "tenant_not_enabled", "user_not_enabled", "not_in_canary"}

NoClaim == [relation |-> "none"]
NoAnswer == [mode |-> "none", citations |-> {}, claim |-> NoClaim]
Fallback == [NoAnswer EXCEPT !.mode = "fallback"]
Abstention == [NoAnswer EXCEPT !.mode = "no_answer"]
Error == [NoAnswer EXCEPT !.mode = "error"]

NoRequest0 == [at |-> "idle", kind |-> "none", closed |-> "none", delta |-> "none", shadow |-> FALSE,
               hits |-> {}, context |-> {}, result |-> NoAnswer]

GenerationInit ==
    /\ breaker = [open |-> FALSE, cooled |-> FALSE, probing |-> FALSE, failures |-> 0]
    /\ asker = [a \in Askers |-> NoRequest0]
    /\ recent = 0 /\ asked = 0

\* answer abstains without generation; analyze classifies locally.
Unanswered(kind) == IF kind = "answer" THEN Abstention ELSE Fallback

\* A request without an answer leaves nothing but its outcome.
Ended0(result) == [NoRequest0 EXCEPT !.at = "done", !.result = result]

\* Without a hit there is nothing to generate from; a reranker that is down
\* counts as an answer of the fallback, another failure of retrieval is an error.
Retrieved(request, retrieval) ==
    IF retrieval = "failed" THEN Ended0(Error)
    ELSE IF retrieval = "unavailable" THEN Ended0(Unanswered(request.kind))
    ELSE IF request.delta = "world" THEN Ended0(Abstention)
    ELSE IF retrieval = "nothing" THEN Ended0(Unanswered(request.kind))
    ELSE [request EXCEPT !.at = "calling", !.hits = Hits]

\* A request about the current world is told that the corpus cannot say, even
\* where no answer may be shown.
Opens(request) ==
    \/ request.closed = "none"
    \/ request.kind = "analyze" /\ request.delta = "world" /\ request.closed \notin {"rag_disabled", "tenant_not_enabled"}

\* Otherwise analyze asks in the shadow: only the metrics see what comes of it.
Shadowed(request) ==
    request.kind = "analyze" /\ request.closed \notin {"rag_disabled", "tenant_not_enabled", "generation_disabled"}

Routed(request, retrieval) ==
    IF Opens(request) THEN Retrieved(request, retrieval)
    ELSE IF Shadowed(request) THEN Retrieved([NoRequest0 EXCEPT !.kind = "analyze", !.shadow = TRUE], retrieval)
    ELSE Ended0(Unanswered(request.kind))

Requests == [kind : {"analyze"}, delta : {"none", "known", "world"}] \cup [kind : {"answer"}, delta : {"none"}]

Asking(r, closed) == [NoRequest0 EXCEPT !.kind = r.kind, !.delta = r.delta, !.closed = closed]

FirstSteps == {Routed(Asking(r, closed), retrieval) : r \in Requests, closed \in Gates \cup {"none"},
                                                        retrieval \in {"failed", "unavailable", "nothing", "hits"}}

Question(a) ==
    /\ asker[a].at \in {"idle", "done"} /\ asked < Questions
    /\ \E next \in FirstSteps :
         asker' = [asker EXCEPT ![a] = next]
    /\ asked' = asked + 1
    /\ UNCHANGED <<breaker, recent>>

-----------------------------------------------------------------------------
(* The circuit breaker around the provider.                                *)

Done(a, result) ==
    asker' = [asker EXCEPT ![a] = IF result.mode = "answer" THEN [@ EXCEPT !.at = "done", !.result = result]
                                  ELSE Ended0(result)]

\* reset_seconds have passed since the circuit opened.
CircuitCools ==
    /\ breaker.open /\ ~ breaker.cooled
    /\ breaker' = [breaker EXCEPT !.cooled = TRUE]
    /\ UNCHANGED <<asker, recent, asked>>

EnterCircuit(a) ==
    /\ asker[a].at = "calling"
    /\ IF breaker.open /\ (~ breaker.cooled \/ breaker.probing)
       THEN Done(a, Unanswered(asker[a].kind)) /\ UNCHANGED breaker
       ELSE /\ breaker' = [breaker EXCEPT !.probing = breaker.open]
            /\ asker' = [asker EXCEPT ![a].at = "rendering"]
    /\ UNCHANGED <<recent, asked>>

\* At most two chunks of a document and no text twice, the lowest dropped
\* until the budgets are met.
Contexts(hits) ==
    {context \in SUBSET hits :
        /\ \A c \in context : Cardinality({b \in context : DocumentOf[b] = DocumentOf[c]}) <= 2
        /\ Cardinality({TextOf[c] : c \in context}) = Cardinality(context)}

\* A task over its budget, or an envelope that does not fit without any chunk,
\* is an error the breaker does not see.
RenderPrompt(a) ==
    /\ asker[a].at = "rendering"
    /\ \/ \E context \in Contexts(asker[a].hits) :
            asker' = [asker EXCEPT ![a].at = "waiting", ![a].context = context]
       \/ Done(a, Error)
    /\ UNCHANGED <<breaker, recent, asked>>

-----------------------------------------------------------------------------
(* What the runtime replies. An output that is not the schema's after three *)
(* attempts is a server error; so is a prompt that is too long.             *)

Claims ==
    {NoClaim} \cup
    UNION {[relation : {"new_information", "confirmation"}, text : {TextOf[c], "invented"} \cup Known,
            refs : SUBSET Known, cites : {{}, {c}}] : c \in Hits}

\* The shape of a claim: what it must and may not refer to.
WellFormed(claim) ==
    \/ claim.relation = "none"
    \/ claim.relation = "new_information" /\ claim.refs = {} /\ claim.cites # {}
    \/ claim.relation = "confirmation" /\ claim.refs # {} /\ claim.cites # {}

Insufficient == [answers |-> FALSE, citations |-> {}, claim |-> NoClaim]

\* A decision to answer is followed by a second completion with one citation.
KnowledgeOutputs == [answers : {TRUE}, citations : {{c} : c \in Hits}, claim : {NoClaim}] \cup {Insufficient}

\* An abstention cites nothing and claims nothing.
AnalysisOutputs ==
    {o \in [answers : BOOLEAN, citations : SUBSET Hits, claim : {c \in Claims : WellFormed(c)}] :
        ~ o.answers => o = Insufficient}

Outputs(kind) == IF kind = "answer" THEN KnowledgeOutputs ELSE AnalysisOutputs

\* Mutant: citations are left to the prompt.
WithinAnything(output, context) == TRUE

Within(output, context) == output.citations \subseteq context

\* Same text, or none: similarity of statements.
Supported(claim) == \E c \in claim.cites : TextOf[c] = claim.text

\* Mutant: news is not compared with what is known.
SoundIfSupported(claim) == Supported(claim)

SoundDelta(claim) ==
    /\ Supported(claim)
    /\ IF claim.relation = "new_information" THEN claim.text \notin Known ELSE claim.text \in claim.refs

\* A delta that was not asked for is refused, one that was is required; an
\* abstention may only report that there is none.
DeltaHolds(request, output) ==
    IF request.delta = "none" THEN output.claim = NoClaim
    ELSE output.claim # NoClaim => output.claim.cites \subseteq output.citations /\ SoundDelta(output.claim)

\* An output becomes an answer only with citations of its context.
Validated(request, output) ==
    IF ~ DeltaHolds(request, output) THEN Unanswered(request.kind)
    ELSE IF ~ output.answers THEN Abstention
    ELSE IF output.citations = {} THEN Unanswered(request.kind)
    ELSE [mode |-> "answer", citations |-> output.citations, claim |-> output.claim]

\* A failed call of anybody counts, and ends the probe.
CallFails(a) ==
    /\ breaker' = [breaker EXCEPT !.failures = @ + 1, !.probing = FALSE,
                     !.open = @ \/ breaker.failures + 1 >= Threshold,
                     !.cooled = @ /\ ~ (breaker.probing \/ breaker.failures + 1 >= Threshold)]
    /\ recent' = recent + 1
    /\ Done(a, Unanswered(asker[a].kind))
    /\ UNCHANGED asked

\* Three attempts at an output of the schema, within the model's length; then
\* the runtime answers with a server error.
RuntimeGivesUp(a) == asker[a].at = "waiting" /\ CallFails(a)

\* Timeouts, refused connections, 429 and 5xx; a contract that is rejected.
ProviderUnreachable(a) == asker[a].at = "waiting" /\ CallFails(a)

\* An output that is not the schema's, or cites what it was not shown.
OutputRefused(a) ==
    /\ asker[a].at = "waiting"
    /\ ~ (\A output \in Outputs(asker[a].kind) : Within(output, asker[a].context))
    /\ CallFails(a)

ProviderReplies(a) ==
    /\ asker[a].at = "waiting"
    /\ \E result \in {Validated(asker[a], output) :
                       output \in {o \in Outputs(asker[a].kind) : Within(o, asker[a].context)}} :
         Done(a, result)
    /\ breaker' = [breaker EXCEPT !.failures = 0, !.open = FALSE, !.cooled = FALSE, !.probing = FALSE]
    /\ recent' = 0
    /\ UNCHANGED asked

GenerationNext ==
    \/ CircuitCools
    \/ \E a \in Askers : Question(a) \/ EnterCircuit(a) \/ RenderPrompt(a)
         \/ RuntimeGivesUp(a) \/ ProviderUnreachable(a) \/ OutputRefused(a) \/ ProviderReplies(a)

GenerationSpec == GenerationInit /\ [][GenerationNext]_generationVars

-----------------------------------------------------------------------------
GenerationTypeOK ==
    /\ breaker.failures \in 0 .. Questions /\ {breaker.open, breaker.cooled, breaker.probing} \subseteq BOOLEAN
    /\ \A a \in Askers : asker[a].at \in {"idle", "calling", "rendering", "waiting", "done"}
    /\ asked \in 0 .. Questions

\* An answer that is shown was allowed by every gate, is not about the current
\* world, cites at least one chunk and only chunks the model was shown, two of
\* a document at most; what it calls new is in a chunk it cites and not among
\* what the caller knows. And the circuit is open exactly when the last
\* Threshold provider calls failed, however the calls of different requests
\* overlap and end.
AnswersAreGrounded ==
    /\ \A a \in Askers :
         LET r == asker[a] IN
         r.at = "done" /\ r.result.mode = "answer" /\ ~ r.shadow =>
            /\ r.closed = "none" /\ r.delta # "world"
            /\ r.result.citations # {} /\ r.result.citations \subseteq r.context /\ r.context \subseteq r.hits
            /\ \A c \in r.result.citations : Cardinality({b \in r.result.citations : DocumentOf[b] = DocumentOf[c]}) <= 2
            /\ r.result.claim.relation = "new_information" =>
                 /\ r.result.claim.text \notin Known
                 /\ \E c \in r.result.citations : TextOf[c] = r.result.claim.text
    /\ breaker.open <=> recent >= Threshold
=============================================================================
