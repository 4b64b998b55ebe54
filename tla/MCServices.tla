------------------------------ MODULE MCServices ------------------------------
(* The off-chain services, one at a time: they share no state, so a run picks*)
(* its subject in the initial state, only the subject steps, and the others  *)
(* stay as they were made.  The states of the services add up this way where *)
(* running them side by side would multiply them.                            *)
EXTENDS ProofLimiter, Idempotency, RpcFailover, X402, Keeper, Indexer, TaskServer, Delegation,
        PolicyDuty, ToolPool, SelfBundler, Alerting, Screening, Ceremony, Bridge, Cli, Migrations

CONSTANTS
    Subjects,                        \* the services a run looks at
    q1, q2, q3, q4,                  \* requests of every kind
    p1, p2, h1, h2, n1, n2, k1, j1, j2, u1, u2, t1, t2, d1, d2, d3, w1, w2,
    s1, s2, c1, c2, l1, o1, o2, o3, a1, e1, e2, x1, r1, r2

VARIABLE subject

toolVars == <<ceremonyVars, bridgeVars, cliVars, migrationVars>>
serviceVars == <<limiterVars, idempotencyVars, failoverVars, x402Vars, keeperVars, indexerVars,
                taskServerVars, delegationVars, dutyVars, poolVars, bundlerVars, alertVars, screenVars>>
servicesVars == <<subject, serviceVars, toolVars>>

(* n1 is good until 1 and n2 until 2. *)
Until == [n \in Nonces |-> IF n = n1 THEN 1 ELSE 2]

(* 0002 puts a column on the table of 0001. *)
AltersOnce == [m \in Numbers |-> IF m = 2 THEN 1 ELSE 0]

(* A service that is not looked at has one initial state. *)
OneOf(S) == CHOOSE x \in S : TRUE
Pinned ==
    /\ subject # "idempotency" => /\ home = [r \in Calls |-> OneOf(Processes)]
                                  /\ hash = [r \in Calls |-> OneOf(Hashes)]
    /\ subject # "x402" => unexamined = <<>>
    /\ subject # "keeper" => \A j \in KeeperJobs : ~Open(j) /\ ~kGaveUp[j] /\ ~kSkips[j].marked
    /\ subject # "screening" => clockDrift = OneOf(Drifts)

ServicesInit ==
    /\ subject \in Subjects
    /\ LimiterInit /\ IdempotencyInit /\ FailoverInit /\ X402Init
    /\ KeeperInit /\ IndexerInit /\ TaskServerInit /\ DelegationInit /\ DutyInit
    /\ PoolInit /\ BundlerInit /\ AlertInit /\ ScreeningInit
    /\ CeremonyInit /\ BridgeInit /\ CliInit /\ MigrationsInit
    /\ Pinned

Of(service) == subject = service /\ UNCHANGED subject
ProofLimiterSteps ==
    /\ Of("limiter") /\ LimiterNext
    /\ UNCHANGED <<idempotencyVars, failoverVars, x402Vars, keeperVars, indexerVars, taskServerVars, delegationVars,
                   dutyVars, poolVars, bundlerVars, alertVars, screenVars, toolVars>>
IdempotencySteps ==
    /\ Of("idempotency") /\ IdempotencyNext
    /\ UNCHANGED <<limiterVars, failoverVars, x402Vars, keeperVars, indexerVars, taskServerVars, delegationVars,
                   dutyVars, poolVars, bundlerVars, alertVars, screenVars, toolVars>>
FailoverSteps ==
    /\ Of("failover") /\ FailoverNext
    /\ UNCHANGED <<limiterVars, idempotencyVars, x402Vars, keeperVars, indexerVars, taskServerVars, delegationVars,
                   dutyVars, poolVars, bundlerVars, alertVars, screenVars, toolVars>>
X402Steps ==
    /\ Of("x402") /\ X402Next
    /\ UNCHANGED <<limiterVars, idempotencyVars, failoverVars, keeperVars, indexerVars, taskServerVars, delegationVars,
                   dutyVars, poolVars, bundlerVars, alertVars, screenVars, toolVars>>
KeeperSteps ==
    /\ Of("keeper") /\ KeeperNext
    /\ UNCHANGED <<limiterVars, idempotencyVars, failoverVars, x402Vars, indexerVars, taskServerVars, delegationVars,
                   dutyVars, poolVars, bundlerVars, alertVars, screenVars, toolVars>>
IndexerSteps ==
    /\ Of("indexer") /\ IndexerNext
    /\ UNCHANGED <<limiterVars, idempotencyVars, failoverVars, x402Vars, keeperVars, taskServerVars, delegationVars,
                   dutyVars, poolVars, bundlerVars, alertVars, screenVars, toolVars>>
TaskServerSteps ==
    /\ Of("a2a") /\ TaskServerNext
    /\ UNCHANGED <<limiterVars, idempotencyVars, failoverVars, x402Vars, keeperVars, indexerVars, delegationVars,
                   dutyVars, poolVars, bundlerVars, alertVars, screenVars, toolVars>>
DelegationSteps ==
    /\ Of("hosted") /\ DelegationNext
    /\ UNCHANGED <<limiterVars, idempotencyVars, failoverVars, x402Vars, keeperVars, indexerVars, taskServerVars,
                   dutyVars, poolVars, bundlerVars, alertVars, screenVars, toolVars>>
DutySteps ==
    /\ Of("duty") /\ DutyNext
    /\ UNCHANGED <<limiterVars, idempotencyVars, failoverVars, x402Vars, keeperVars, indexerVars, taskServerVars,
                   delegationVars, poolVars, bundlerVars, alertVars, screenVars, toolVars>>
ToolPoolSteps ==
    /\ Of("pool") /\ PoolNext
    /\ UNCHANGED <<limiterVars, idempotencyVars, failoverVars, x402Vars, keeperVars, indexerVars, taskServerVars,
                   delegationVars, dutyVars, bundlerVars, alertVars, screenVars, toolVars>>
SelfBundlerSteps ==
    /\ Of("bundler") /\ BundlerNext
    /\ UNCHANGED <<limiterVars, idempotencyVars, failoverVars, x402Vars, keeperVars, indexerVars, taskServerVars,
                   delegationVars, dutyVars, poolVars, alertVars, screenVars, toolVars>>
AlertingSteps ==
    /\ Of("alerting") /\ AlertNext
    /\ UNCHANGED <<limiterVars, idempotencyVars, failoverVars, x402Vars, keeperVars, indexerVars, taskServerVars,
                   delegationVars, dutyVars, poolVars, bundlerVars, screenVars, toolVars>>
ScreeningSteps ==
    /\ Of("screening") /\ ScreeningNext
    /\ UNCHANGED <<limiterVars, idempotencyVars, failoverVars, x402Vars, keeperVars, indexerVars, taskServerVars,
                   delegationVars, dutyVars, poolVars, bundlerVars, alertVars, toolVars>>

CeremonySteps ==
    /\ Of("ceremony") /\ CeremonyNext
    /\ UNCHANGED <<serviceVars, bridgeVars, cliVars, migrationVars>>
BridgeSteps ==
    /\ Of("bridge") /\ BridgeNext
    /\ UNCHANGED <<serviceVars, ceremonyVars, cliVars, migrationVars>>
CliSteps ==
    /\ Of("cli") /\ CliNext
    /\ UNCHANGED <<serviceVars, ceremonyVars, bridgeVars, migrationVars>>
MigrationsSteps ==
    /\ Of("migrations") /\ MigrationsNext
    /\ UNCHANGED <<serviceVars, ceremonyVars, bridgeVars, cliVars>>

ServicesNext ==
    \/ ProofLimiterSteps \/ IdempotencySteps \/ FailoverSteps \/ X402Steps
    \/ KeeperSteps \/ IndexerSteps \/ TaskServerSteps \/ DelegationSteps
    \/ DutySteps \/ ToolPoolSteps \/ SelfBundlerSteps \/ AlertingSteps
    \/ ScreeningSteps \/ CeremonySteps \/ BridgeSteps \/ CliSteps
    \/ MigrationsSteps

ServicesSpec == ServicesInit /\ [][ServicesNext]_servicesVars

(* The fairness each service's own module argues for, asked of the subject only. *)
ServicesFairness ==
    /\ \A r \in ProofRequests : WF_limiterVars(Of("limiter") /\ LoopTurn(r))
    /\ \A r \in Calls : WF_idempotencyVars(Of("idempotency") /\ CallStep(r))
    /\ WF_x402Vars(Of("x402") /\ TimePasses) /\ WF_x402Vars(Of("x402") /\ StartPass)
    /\ WF_x402Vars(Of("x402") /\ ReconcileRow)
    /\ WF_keeperVars(Of("keeper") /\ KeeperClock) /\ WF_keeperVars(Of("keeper") /\ LoopStep)
    /\ SF_keeperVars(Of("keeper") /\ SweepStarts)
    /\ \A j \in KeeperJobs : WF_keeperVars(Of("keeper") /\ MirrorCatchesUp(j))
    /\ WF_indexerVars(Of("indexer") /\ IndexerStep)
    /\ \A t \in TaskIds : WF_taskServerVars(Of("a2a") /\ RunStep(t))
    /\ WF_delegationVars(Of("hosted") /\ HireStep)
    /\ WF_dutyVars(Of("duty") /\ DutyClock) /\ WF_dutyVars(Of("duty") /\ DutyStep)
    /\ WF_poolVars(Of("pool") /\ PoolTurn)
    /\ \A s \in UserOps : WF_bundlerVars(Of("bundler") /\ SendStep(s))
    /\ WF_alertVars(Of("alerting") /\ AlertClock)
    /\ \A e \in AlertTicks : WF_alertVars(Of("alerting") /\ AlertTickStep(e))
    /\ \A t \in Transfers :
        /\ WF_bridgeVars(Of("bridge") /\ BridgeStep(t)) /\ WF_bridgeVars(Of("bridge") /\ OutsideStep(t))

ServicesFairSpec == ServicesSpec /\ ServicesFairness

(* Every call a caller waits on comes to its end: a proof request is answered,
   an idempotent call returns, a task, a delegated hire, a tool call, a user
   operation's send and a bridging call end.                                  *)
CallersAreAnswered ==
    /\ EveryProofAnswered /\ EveryCallEnds /\ EveryTaskEnds /\ EveryHireEnds
    /\ EveryToolCallEnds /\ EverySendEnds /\ EveryBridgeEnds

(* What is kept for later is got to: a payment row is closed, a log of the
   chain reaches the projection, an alert its operator, burnt USDC Arc.       *)
NothingIsLeftPending ==
    EveryPaymentIsClosed /\ EveryLogArrives /\ EveryAlertArrives /\ EveryBurnIsMinted

(* What is final stays so: a payment row leaves "accepted" only, once, and a
   task that ended keeps its state and result.                                *)
FinalIsFinal == AcceptedIsTheOnlyOpenState /\ EndedStaysEnded

(* Connections are what the failover transport and the tool pool take them
   for: an endpoint that cools down earned it, and no tool call runs over a
   connection somebody closed.                                                *)
ConnectionsHold == CooldownsAreEarned /\ PoolHolds

(* What a command tells its caller is so: of a user operation, of a transfer
   over the bridge, of an agent's registration.                               *)
CallersHearTheTruth == ReportsAreTrue /\ BridgeReportsAreTrue /\ RegistrationsAreTrue

(* A record kept beside the thing it records agrees with it, whatever dies in
   between: the ceremony's transcript with its keys, schema_migrations with
   the schema.                                                                *)
RecordsMatch == CeremonyHolds /\ MigrationsHold
=============================================================================
