---------------------------- MODULE PlatformProofs ----------------------------
(***************************************************************************)
(* The components that MCPlatform runs side by side share no state: each   *)
(* sees its own steps and stutters through those of the others. So a       *)
(* behaviour of the platform is one of every component, and what is proved *)
(* of a component (BackendProofs, ServingProofs, SyncProofs) holds in it.  *)
(***************************************************************************)
EXTENDS MCPlatform, BackendProofs, ServingProofs, SyncProofs, TLAPS

-----------------------------------------------------------------------------
(* A step of the platform, seen by one component.                          *)

LEMMA PromotionComposes == PlatformSpec => PromotionSpec
<1>1. PlatformInit => PromotionInit
    BY DEF PlatformInit
<1>2. [PlatformNext]_platformVars => [PromotionNext]_promotionVars
    BY DEF PlatformNext, platformVars
<1> QED
    BY <1>1, <1>2, PTL DEF PlatformSpec, PromotionSpec

LEMMA RegistryComposes == PlatformSpec => RegistrySpec
<1>1. PlatformInit => RegistryInit
    BY DEF PlatformInit
<1>2. [PlatformNext]_platformVars => [RegistryNext]_registryVars
    BY DEF PlatformNext, platformVars
<1> QED
    BY <1>1, <1>2, PTL DEF PlatformSpec, RegistrySpec

LEMMA CutoverComposes == PlatformSpec => CutoverSpec
<1>1. PlatformInit => CutoverInit
    BY DEF PlatformInit
<1>2. [PlatformNext]_platformVars => [CutoverNext]_cutoverVars
    BY DEF PlatformNext, platformVars
<1> QED
    BY <1>1, <1>2, PTL DEF PlatformSpec, CutoverSpec

LEMMA RecoveryComposes == PlatformSpec => RecoverySpec
<1>1. PlatformInit => RecoveryInit
    BY DEF PlatformInit
<1>2. [PlatformNext]_platformVars => [RecoveryNext]_recoveryVars
    BY DEF PlatformNext, platformVars
<1> QED
    BY <1>1, <1>2, PTL DEF PlatformSpec, RecoverySpec

LEMMA IntakeComposes == PlatformSpec => IntakeSpec
<1>1. PlatformInit => IntakeInit
    BY DEF PlatformInit
<1>2. [PlatformNext]_platformVars => [IntakeNext]_intakeVars
    BY DEF PlatformNext, platformVars
<1> QED
    BY <1>1, <1>2, PTL DEF PlatformSpec, IntakeSpec

LEMMA AuditComposes == PlatformSpec => AuditSpec
<1>1. PlatformInit => AuditInit
    BY DEF PlatformInit
<1>2. [PlatformNext]_platformVars => [AuditNext]_auditVars
    BY DEF PlatformNext, platformVars
<1> QED
    BY <1>1, <1>2, PTL DEF PlatformSpec, AuditSpec

LEMMA ExtractionComposes == PlatformSpec => ExtractionSpec
<1>1. PlatformInit => ExtractionInit
    BY DEF PlatformInit
<1>2. [PlatformNext]_platformVars => [ExtractionNext]_extractionVars
    BY DEF PlatformNext, platformVars
<1> QED
    BY <1>1, <1>2, PTL DEF PlatformSpec, ExtractionSpec

LEMMA RetrievalComposes == PlatformSpec => RetrievalSpec
<1>1. PlatformInit => RetrievalInit
    BY DEF PlatformInit
<1>2. [PlatformNext]_platformVars => [RetrievalNext]_retrievalVars
    BY DEF PlatformNext, platformVars
<1> QED
    BY <1>1, <1>2, PTL DEF PlatformSpec, RetrievalSpec

LEMMA GenerationComposes == PlatformSpec => GenerationSpec
<1>1. PlatformInit => GenerationInit
    BY DEF PlatformInit
<1>2. [PlatformNext]_platformVars => [GenerationNext]_generationVars
    BY DEF PlatformNext, platformVars
<1> QED
    BY <1>1, <1>2, PTL DEF PlatformSpec, GenerationSpec

LEMMA GatewayComposes == PlatformSpec => GatewaySpec
<1>1. PlatformInit => GatewayInit
    BY DEF PlatformInit
<1>2. [PlatformNext]_platformVars => [GatewayNext]_gatewayVars
    BY DEF PlatformNext, platformVars
<1> QED
    BY <1>1, <1>2, PTL DEF PlatformSpec, GatewaySpec

LEMMA ModelComposes == PlatformSpec => ModelSpec
<1>1. PlatformInit => ModelInit
    BY DEF PlatformInit
<1>2. [PlatformNext]_platformVars => [ModelNext]_modelVars
    BY DEF PlatformNext, platformVars
<1> QED
    BY <1>1, <1>2, PTL DEF PlatformSpec, ModelSpec

LEMMA EvidenceComposes == PlatformSpec => EvidenceSpec
<1>1. PlatformInit => EvidenceInit
    BY DEF PlatformInit
<1>2. [PlatformNext]_platformVars => [EvidenceNext]_evidenceVars
    BY DEF PlatformNext, platformVars
<1> QED
    BY <1>1, <1>2, PTL DEF PlatformSpec, EvidenceSpec

LEMMA ReviewComposes == PlatformSpec => ReviewSpec
<1>1. PlatformInit => ReviewInit
    BY DEF PlatformInit
<1>2. [PlatformNext]_platformVars => [ReviewNext]_reviewVars
    BY DEF PlatformNext, platformVars
<1> QED
    BY <1>1, <1>2, PTL DEF PlatformSpec, ReviewSpec

LEMMA HoldoutComposes == PlatformSpec => HoldoutSpec
<1>1. PlatformInit => HoldoutInit
    BY DEF PlatformInit
<1>2. [PlatformNext]_platformVars => [HoldoutNext]_holdoutVars
    BY DEF PlatformNext, platformVars
<1> QED
    BY <1>1, <1>2, PTL DEF PlatformSpec, HoldoutSpec

LEMMA ActivationComposes == PlatformSpec => ActivationSpec
<1>1. PlatformInit => ActivationInit
    BY DEF PlatformInit
<1>2. [PlatformNext]_platformVars => [ActivationNext]_activationVars
    BY DEF PlatformNext, platformVars
<1> QED
    BY <1>1, <1>2, PTL DEF PlatformSpec, ActivationSpec

LEMMA MobileComposes == PlatformSpec => MobileSpec
<1>1. PlatformInit => MobileInit
    BY DEF PlatformInit
<1>2. [PlatformNext]_platformVars => [MobileNext]_mobileVars
    BY DEF PlatformNext, platformVars
<1> QED
    BY <1>1, <1>2, PTL DEF PlatformSpec, MobileSpec

-----------------------------------------------------------------------------
(* What follows for the platform.                                          *)

\* The components of the AI backend and the phone, which have their stores apart
\* from one another, take no part in one another's steps: side by side, each
\* behaves as its own specification says.
THEOREM PlatformComposes ==
    PlatformSpec =>
        /\ PromotionSpec
        /\ RegistrySpec
        /\ CutoverSpec
        /\ RecoverySpec
        /\ IntakeSpec
        /\ AuditSpec
        /\ ExtractionSpec
        /\ RetrievalSpec
        /\ GenerationSpec
        /\ GatewaySpec
        /\ ModelSpec
        /\ EvidenceSpec
        /\ ReviewSpec
        /\ HoldoutSpec
        /\ ActivationSpec
        /\ MobileSpec
BY PromotionComposes, RegistryComposes, CutoverComposes, RecoveryComposes, IntakeComposes,
   AuditComposes, ExtractionComposes, RetrievalComposes, GenerationComposes,
   GatewayComposes, ModelComposes, EvidenceComposes, ReviewComposes, HoldoutComposes,
   ActivationComposes, MobileComposes

\* Whichever component moves (webhook, cutover, rehearsal, rollout pointer, registry, audit,
\* extraction, retrieval, generation, gateway, classifier, evaluation or phone),
\* its records keep the shape its code reads them with.
THEOREM PlatformTyped == PlatformSpec => []PlatformTypeOK
<1>1. PlatformSpec => []PromotionTypeOK
    BY PromotionComposes, PromotionSound, PTL
<1>2. PlatformSpec => []RegistryTypeOK
    BY RegistryComposes, RegistrySound, PTL
<1>3. PlatformSpec => []CutoverTypeOK
    BY CutoverComposes, CutoverSound, PTL
<1>4. PlatformSpec => []IntakeTypeOK
    BY IntakeComposes, IntakeSound, PTL
<1>5. PlatformSpec => []AuditTypeOK
    BY AuditComposes, TrailSound, PTL
<1>6. PlatformSpec => []ExtractionTypeOK
    BY ExtractionComposes, ExtractionSound, PTL
<1>7. PlatformSpec => []RetrievalTypeOK
    BY RetrievalComposes, RetrievalSound, PTL
<1>8. PlatformSpec => []GenerationTypeOK
    BY GenerationComposes, GenerationSound, PTL
<1>9. PlatformSpec => []GatewayTypeOK
    BY GatewayComposes, GatewaySound, PTL
<1>10. PlatformSpec => []ModelTypeOK
    BY ModelComposes, ServedModelSound, PTL
<1>11. PlatformSpec => []EvidenceTypeOK
    BY EvidenceComposes, EvidenceSound, PTL
<1>12. PlatformSpec => []ReviewTypeOK
    BY ReviewComposes, ReviewSound, PTL
<1>13. PlatformSpec => []HoldoutTypeOK
    BY HoldoutComposes, HoldoutSound, PTL
<1>14. PlatformSpec => []ActivationTypeOK
    BY ActivationComposes, ActivationSound, PTL
<1>15. PlatformSpec => []MobileTypeOK
    BY MobileComposes, MobileTypeSafe, PTL
<1>16. PlatformSpec => []RecoveryTypeOK
    BY RecoveryComposes, RehearsalForgets, PTL
<1>17. /\ PromotionTypeOK /\ RegistryTypeOK /\ CutoverTypeOK /\ RecoveryTypeOK
       /\ IntakeTypeOK /\ AuditTypeOK /\ ExtractionTypeOK
       /\ RetrievalTypeOK /\ GenerationTypeOK /\ GatewayTypeOK
       /\ ModelTypeOK /\ EvidenceTypeOK /\ ReviewTypeOK
       /\ HoldoutTypeOK /\ ActivationTypeOK /\ MobileTypeOK
       => PlatformTypeOK
    BY DEF PlatformTypeOK
<1> QED
    BY <1>1, <1>2, <1>3, <1>4, <1>5, <1>6, <1>7, <1>8, <1>9, <1>10, <1>11, <1>12, <1>13,
       <1>14, <1>15, <1>16, <1>17, PTL
===============================================================================
