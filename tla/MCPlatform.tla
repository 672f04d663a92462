------------------------------ MODULE MCPlatform ------------------------------
(***************************************************************************)
(* Components that share no state with one another, those of the AI        *)
(* backend and the mobile client, checked by one run: the component in     *)
(* focus moves, the others stay in their initial states. The state space   *)
(* is the sum of theirs.                                                   *)
(***************************************************************************)
EXTENDS Promotion, ArtifactRegistry, Recovery, Intake, AuditTrail, Extraction, Answers, Gateway, LocalModel, Evaluation,
        MobileSync

VARIABLE focus

MCWorkflowOf == [rag1 |-> "ragops", llm1 |-> "llmops"]
MCCandidateOf == [r1 |-> "c1", r2 |-> "c1", r3 |-> "c2"]
MCWorkflowRun == [r1 |-> "llmops", r2 |-> "mlops", r3 |-> "ragops"]
MCBlobsOf == [r1 |-> {"b1", "b2"}, r2 |-> {"b1", "b2"}, r3 |-> {"b1"}]
MCFormatOf == [s1 |-> "pdf", s2 |-> "ooxml"]
MCOcrReceipts == {[source |-> "s1", version |-> 0, language |-> "pl"]}
MCDocumentOf == [c1 |-> "d1", c2 |-> "d1", c3 |-> "d1"]
MCTextOf == [c1 |-> "t1", c2 |-> "t2", c3 |-> "t3"]
MCSubjectOf == [ta |-> "u1", tb |-> "u2"]
MCScopesOf == [ta |-> {"tasks:write", "ai:operate"}, tb |-> {"knowledge:read"}]
MCServerOf == [m1 |-> "p1", m2 |-> "p1", m3 |-> "p2"]
MCDefaults == {[text |-> "x", quadrant |-> 0, pending |-> FALSE], [text |-> "y", quadrant |-> 1, pending |-> FALSE]}
MCAdditions == {[text |-> "w", quadrant |-> 1, pending |-> TRUE], [text |-> "z", quadrant |-> 1, pending |-> FALSE]}
MCDeployments ==
    {[production |-> TRUE, profile |-> "production", gate |-> "owner"],
     [production |-> FALSE, profile |-> "production", gate |-> "draft"],
     [production |-> FALSE, profile |-> "development", gate |-> "approved"]}
MCPasses == {<<0, 1, 0>>, <<0, 1, 1>>}
MCAdjudications == {[e \in {3} |-> 0], [e \in {3} |-> 1]}
MCAgreement == <<2, 5>>
MCCategoryOf == [h1 |-> "answerable", h2 |-> "unsupported", h3 |-> "injection", h4 |-> "answerable"]
MCShare == [p1 |-> <<1, 2>>, p2 |-> <<1, 1>>]
MCHoldoutEdits == [candidate |-> 0, thresholds |-> 2]

Parts == {"promotion", "registry", "cutover", "recovery", "intake", "audit", "extraction", "retrieval", "generation", "gateway", "model", "evidence", "review", "holdout", "activation", "mobile"}

PlatformInit ==
    /\ focus \in Parts
    /\ PromotionInit /\ RegistryInit /\ CutoverInit /\ RecoveryInit /\ IntakeInit /\ AuditInit
    /\ ExtractionInit /\ RetrievalInit /\ GenerationInit /\ GatewayInit /\ ModelInit
    /\ EvidenceInit /\ ReviewInit /\ HoldoutInit /\ ActivationInit /\ MobileInit
    \* Out of focus, one initial state stands for all.
    /\ focus # "evidence" => inputs.a = <<0, 1, 0>> /\ inputs.b = <<0, 1, 0>>
    /\ focus # "review" => bound.candidate = BuildRecord(2) /\ corpus = 2
    /\ \A f \in Inputs : held[f] = "v0"
    /\ receipt.binds = held
    /\ focus # "activation" => materials.policy = "p1"
    /\ focus # "mobile" => tasks = <<>>

PlatformNext ==
    \/ focus = "promotion" /\ PromotionNext
       /\ UNCHANGED <<focus, registryVars, cutoverVars, recoveryVars, intakeVars, auditVars, extractionVars, retrievalVars, generationVars, gatewayVars, modelVars, evidenceVars, reviewVars, holdoutVars, activationVars, mobileVars>>
    \/ focus = "registry" /\ RegistryNext
       /\ UNCHANGED <<focus, promotionVars, cutoverVars, recoveryVars, intakeVars, auditVars, extractionVars, retrievalVars, generationVars, gatewayVars, modelVars, evidenceVars, reviewVars, holdoutVars, activationVars, mobileVars>>
    \/ focus = "cutover" /\ CutoverNext
       /\ UNCHANGED <<focus, promotionVars, registryVars, recoveryVars, intakeVars, auditVars, extractionVars, retrievalVars, generationVars, gatewayVars, modelVars, evidenceVars, reviewVars, holdoutVars, activationVars, mobileVars>>
    \/ focus = "recovery" /\ RecoveryNext
       /\ UNCHANGED <<focus, promotionVars, registryVars, cutoverVars, intakeVars, auditVars, extractionVars, retrievalVars, generationVars, gatewayVars, modelVars, evidenceVars, reviewVars, holdoutVars, activationVars, mobileVars>>
    \/ focus = "intake" /\ IntakeNext
       /\ UNCHANGED <<focus, promotionVars, registryVars, cutoverVars, recoveryVars, auditVars, extractionVars, retrievalVars, generationVars, gatewayVars, modelVars, evidenceVars, reviewVars, holdoutVars, activationVars, mobileVars>>
    \/ focus = "audit" /\ AuditNext
       /\ UNCHANGED <<focus, promotionVars, registryVars, cutoverVars, recoveryVars, intakeVars, extractionVars, retrievalVars, generationVars, gatewayVars, modelVars, evidenceVars, reviewVars, holdoutVars, activationVars, mobileVars>>
    \/ focus = "extraction" /\ ExtractionNext
       /\ UNCHANGED <<focus, promotionVars, registryVars, cutoverVars, recoveryVars, intakeVars, auditVars, retrievalVars, generationVars, gatewayVars, modelVars, evidenceVars, reviewVars, holdoutVars, activationVars, mobileVars>>
    \/ focus = "retrieval" /\ RetrievalNext
       /\ UNCHANGED <<focus, promotionVars, registryVars, cutoverVars, recoveryVars, intakeVars, auditVars, extractionVars, generationVars, gatewayVars, modelVars, evidenceVars, reviewVars, holdoutVars, activationVars, mobileVars>>
    \/ focus = "generation" /\ GenerationNext
       /\ UNCHANGED <<focus, promotionVars, registryVars, cutoverVars, recoveryVars, intakeVars, auditVars, extractionVars, retrievalVars, gatewayVars, modelVars, evidenceVars, reviewVars, holdoutVars, activationVars, mobileVars>>
    \/ focus = "gateway" /\ GatewayNext
       /\ UNCHANGED <<focus, promotionVars, registryVars, cutoverVars, recoveryVars, intakeVars, auditVars, extractionVars, retrievalVars, generationVars, modelVars, evidenceVars, reviewVars, holdoutVars, activationVars, mobileVars>>
    \/ focus = "model" /\ ModelNext
       /\ UNCHANGED <<focus, promotionVars, registryVars, cutoverVars, recoveryVars, intakeVars, auditVars, extractionVars, retrievalVars, generationVars, gatewayVars, evidenceVars, reviewVars, holdoutVars, activationVars, mobileVars>>
    \/ focus = "evidence" /\ EvidenceNext
       /\ UNCHANGED <<focus, promotionVars, registryVars, cutoverVars, recoveryVars, intakeVars, auditVars, extractionVars, retrievalVars, generationVars, gatewayVars, modelVars, reviewVars, holdoutVars, activationVars, mobileVars>>
    \/ focus = "review" /\ ReviewNext
       /\ UNCHANGED <<focus, promotionVars, registryVars, cutoverVars, recoveryVars, intakeVars, auditVars, extractionVars, retrievalVars, generationVars, gatewayVars, modelVars, evidenceVars, holdoutVars, activationVars, mobileVars>>
    \/ focus = "holdout" /\ HoldoutNext
       /\ UNCHANGED <<focus, promotionVars, registryVars, cutoverVars, recoveryVars, intakeVars, auditVars, extractionVars, retrievalVars, generationVars, gatewayVars, modelVars, evidenceVars, reviewVars, activationVars, mobileVars>>
    \/ focus = "activation" /\ ActivationNext
       /\ UNCHANGED <<focus, promotionVars, registryVars, cutoverVars, recoveryVars, intakeVars, auditVars, extractionVars, retrievalVars, generationVars, gatewayVars, modelVars, evidenceVars, reviewVars, holdoutVars, mobileVars>>
    \/ focus = "mobile" /\ MobileNext
       /\ UNCHANGED <<focus, promotionVars, registryVars, cutoverVars, recoveryVars, intakeVars, auditVars, extractionVars, retrievalVars, generationVars, gatewayVars, modelVars, evidenceVars, reviewVars, holdoutVars, activationVars>>

platformVars == <<focus, promotionVars, registryVars, cutoverVars, recoveryVars, intakeVars, auditVars, extractionVars, retrievalVars, generationVars, gatewayVars, modelVars, evidenceVars, reviewVars, holdoutVars, activationVars, mobileVars>>

\* The view of the run: what is out of focus never changes and has one initial
\* state, so that no two reachable states have the same view.
Focused ==
    <<focus,
      CASE focus = "promotion" -> promotionVars
        [] focus = "registry" -> registryVars
        [] focus = "cutover" -> cutoverVars
        [] focus = "recovery" -> recoveryVars
        [] focus = "intake" -> intakeVars
        [] focus = "audit" -> auditVars
        [] focus = "extraction" -> extractionVars
        [] focus = "retrieval" -> retrievalVars
        [] focus = "generation" -> generationVars
        [] focus = "gateway" -> gatewayVars
        [] focus = "model" -> modelVars
        [] focus = "evidence" -> evidenceVars
        [] focus = "review" -> reviewVars
        [] focus = "holdout" -> holdoutVars
        [] focus = "activation" -> activationVars
        [] focus = "mobile" -> mobileVars>>

PlatformSpec == PlatformInit /\ [][PlatformNext]_platformVars

\* The component in focus keeps its type.
PlatformTypeOK ==
    /\ focus = "promotion" => PromotionTypeOK
    /\ focus = "registry" => RegistryTypeOK
    /\ focus = "cutover" => CutoverTypeOK
    /\ focus = "recovery" => RecoveryTypeOK
    /\ focus = "intake" => IntakeTypeOK
    /\ focus = "audit" => AuditTypeOK
    /\ focus = "extraction" => ExtractionTypeOK
    /\ focus = "retrieval" => RetrievalTypeOK
    /\ focus = "generation" => GenerationTypeOK
    /\ focus = "gateway" => GatewayTypeOK
    /\ focus = "model" => ModelTypeOK
    /\ focus = "evidence" => EvidenceTypeOK
    /\ focus = "review" => ReviewTypeOK
    /\ focus = "holdout" => HoldoutTypeOK
    /\ focus = "activation" => ActivationTypeOK
    /\ focus = "mobile" => MobileTypeOK
=============================================================================
