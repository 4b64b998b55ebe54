-------------------------- MODULE Services_proofs --------------------------
(* The services together, for every value of their constants: what a run of  *)
(* MCServices does is, for each service, a run of that service's own module, *)
(* so each keeps in it what it keeps alone.                                  *)
EXTENDS MCServices, Requests_proofs, Agents_proofs, Operations_proofs

(* Whichever service steps, each of them either takes a step of its own or    *)
(* stutters.                                                                  *)
LEMMA EveryStepIsTheirs ==
    ASSUME [ServicesNext]_servicesVars
    PROVE  /\ [LimiterNext]_limiterVars
           /\ [IdempotencyNext]_idempotencyVars
           /\ [FailoverNext]_failoverVars
           /\ [X402Next]_x402Vars
           /\ [KeeperNext]_keeperVars
           /\ [IndexerNext]_indexerVars
           /\ [TaskServerNext]_taskServerVars
           /\ [DelegationNext]_delegationVars
           /\ [DutyNext]_dutyVars
           /\ [PoolNext]_poolVars
           /\ [BundlerNext]_bundlerVars
           /\ [AlertNext]_alertVars
           /\ [ScreeningNext]_screenVars
           /\ [CeremonyNext]_ceremonyVars
           /\ [BridgeNext]_bridgeVars
           /\ [CliNext]_cliVars
           /\ [MigrationsNext]_migrationVars
PROOF
<1>1. CASE UNCHANGED servicesVars
  BY <1>1 DEF servicesVars, serviceVars, toolVars
<1>2. CASE ProofLimiterSteps
  BY <1>2 DEF ProofLimiterSteps, toolVars, Of
<1>3. CASE IdempotencySteps
  BY <1>3 DEF IdempotencySteps, toolVars, Of
<1>4. CASE FailoverSteps
  BY <1>4 DEF FailoverSteps, toolVars, Of
<1>5. CASE X402Steps
  BY <1>5 DEF X402Steps, toolVars, Of
<1>6. CASE KeeperSteps
  BY <1>6 DEF KeeperSteps, toolVars, Of
<1>7. CASE IndexerSteps
  BY <1>7 DEF IndexerSteps, toolVars, Of
<1>8. CASE TaskServerSteps
  BY <1>8 DEF TaskServerSteps, toolVars, Of
<1>9. CASE DelegationSteps
  BY <1>9 DEF DelegationSteps, toolVars, Of
<1>10. CASE DutySteps
  BY <1>10 DEF DutySteps, toolVars, Of
<1>11. CASE ToolPoolSteps
  BY <1>11 DEF ToolPoolSteps, toolVars, Of
<1>12. CASE SelfBundlerSteps
  BY <1>12 DEF SelfBundlerSteps, toolVars, Of
<1>13. CASE AlertingSteps
  BY <1>13 DEF AlertingSteps, toolVars, Of
<1>14. CASE ScreeningSteps
  BY <1>14 DEF ScreeningSteps, toolVars, Of
<1>15. CASE CeremonySteps
  BY <1>15 DEF CeremonySteps, serviceVars, Of
<1>16. CASE BridgeSteps
  BY <1>16 DEF BridgeSteps, serviceVars, Of
<1>17. CASE CliSteps
  BY <1>17 DEF CliSteps, serviceVars, Of
<1>18. CASE MigrationsSteps
  BY <1>18 DEF MigrationsSteps, serviceVars, Of
<1> QED BY <1>1, <1>2, <1>3, <1>4, <1>5, <1>6, <1>7, <1>8, <1>9, <1>10, <1>11, <1>12, <1>13, <1>14,
           <1>15, <1>16, <1>17, <1>18 DEF ServicesNext

(* So a run of all of them is a run of each.                                  *)
LEMMA EveryServiceRuns ==
    ServicesSpec =>
        /\ LimiterSpec
        /\ IdempotencySpec
        /\ FailoverSpec
        /\ X402Spec
        /\ KeeperSpec
        /\ IndexerSpec
        /\ TaskServerSpec
        /\ DelegationSpec
        /\ DutySpec
        /\ PoolSpec
        /\ BundlerSpec
        /\ AlertSpec
        /\ ScreeningSpec
        /\ CeremonySpec
        /\ BridgeSpec
        /\ CliSpec
        /\ MigrationsSpec
PROOF
<1>1. ServicesInit => /\ LimiterInit
                      /\ IdempotencyInit
                      /\ FailoverInit
                      /\ X402Init
                      /\ KeeperInit
                      /\ IndexerInit
                      /\ TaskServerInit
                      /\ DelegationInit
                      /\ DutyInit
                      /\ PoolInit
                      /\ BundlerInit
                      /\ AlertInit
                      /\ ScreeningInit
                      /\ CeremonyInit
                      /\ BridgeInit
                      /\ CliInit
                      /\ MigrationsInit
  BY DEF ServicesInit
<1> QED BY <1>1, EveryStepIsTheirs, PTL DEF ServicesSpec,
       LimiterSpec, IdempotencySpec, FailoverSpec, X402Spec, KeeperSpec, IndexerSpec, TaskServerSpec, DelegationSpec, DutySpec, PoolSpec, BundlerSpec, AlertSpec, ScreeningSpec, CeremonySpec, BridgeSpec, CliSpec, MigrationsSpec

(* An endpoint that cools down earned it, and no tool call runs over a        *)
(* connection somebody closed.                                                *)
THEOREM ServicesConnect == ServicesSpec => []ConnectionsHold
BY EveryServiceRuns, CooldownsStayEarned, PoolStaysWhole, PTL DEF ConnectionsHold

(* What a command says of a user operation, of a transfer over the bridge or  *)
(* of an agent's registration is so.                                          *)
THEOREM ServicesTellTheTruth == ServicesSpec => []CallersHearTheTruth
BY EveryServiceRuns, SendsReportTheTruth, BridgeTellsTheTruth, RegistrationsStayTrue, PTL
   DEF CallersHearTheTruth

(* The ceremony's transcript agrees with its keys and schema_migrations with  *)
(* the schema, whatever died in between.                                      *)
THEOREM ServicesKeepRecords == ServicesSpec => []RecordsMatch
BY EveryServiceRuns, CeremonyIsTrue, SchemaMatchesItsRecord, PTL DEF RecordsMatch

(* A payment row leaves "accepted" only, once, and a task that ended keeps    *)
(* its state and its result.                                                  *)
THEOREM ServicesEndOnce == ServicesSpec => FinalIsFinal
BY EveryServiceRuns, ClosedRowsStayClosed, EndedTasksStayEnded, PTL DEF FinalIsFinal
=============================================================================
