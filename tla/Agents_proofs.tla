---------------------------- MODULE Agents_proofs ----------------------------
(* The agents' side, for any number of tasks, hires, jobs and tool calls: the*)
(* A2A task server, the hosted agent's allowance, the policy duty, screening,*)
(* the tool pool and the self-bundled sends.                                 *)
EXTENDS TaskServer, Delegation, PolicyDuty, Screening, ToolPool, SelfBundler,
        SumsTheorems, SequenceTheorems

-----------------------------------------------------------------------------
(* The A2A task server (TaskServer).                                         *)
TaskRecords == [job : TaskJobs, state : TaskStates]
RunStages == {"none", "handling", "settling", "submitted"}
TaskRequests == [from : TaskCallers, task : TaskIds, job : TaskJobs, attempt : Nat]
CallerStates ==
    [stage : {"calling", "polling"}, task : TaskIds, job : TaskJobs, attempt : Nat] \cup {IdleCaller, DoneCaller}

(* Requests are of a caller's task and job, wherever they are.               *)
RequestsOK ==
    /\ inbox \subseteq TaskRequests /\ admitting \subseteq TaskRequests /\ admitted \subseteq TaskRequests
    /\ caller \in [TaskCallers -> CallerStates]

TasksOK ==
    /\ tasks \in [TaskIds -> TaskRecords \cup {NoTask}]
    /\ run \in [TaskIds -> RunStages]
    /\ escrow \in [TaskJobs -> [status : {"funded", "submitted", "closed"}, by : TaskIds \cup {NoTask}]]

(* A task, its run and its job on chain: a run is of a task that is on       *)
(* record, and a submit that landed is known by its job.                     *)
Landed(t) == escrow[tasks[t].job].by = t /\ escrow[tasks[t].job].status # "funded"
TaskIsWhole(t) ==
    /\ tasks[t] = NoTask => run[t] = "none"
    /\ tasks[t] # NoTask /\ tasks[t].state = "working" => run[t] # "none"
    /\ run[t] = "submitted" => Landed(t)
    /\ tasks[t] # NoTask /\ tasks[t].state = "delivered" => Landed(t)

TasksInv == RequestsOK /\ TasksOK /\ SlotsAreRuns /\ \A t \in TaskIds : TaskIsWhole(t)

(* An empty server satisfies the invariant.                                  *)
LEMMA TasksInvInit == TaskServerInit => TasksInv
PROOF
<1> SUFFICES ASSUME TaskServerInit PROVE TasksInv
  OBVIOUS
<1> USE DEF TaskServerInit
<1>1. RequestsOK /\ TasksOK
  BY DEF RequestsOK, TasksOK, CallerStates, RunStages
<1>2. {t \in TaskIds : run[t] # "none"} = {}
  OBVIOUS
<1>3. SlotsAreRuns
  BY <1>2, FS_EmptySet DEF SlotsAreRuns
<1>4. \A t \in TaskIds : TaskIsWhole(t)
  BY DEF TaskIsWhole
<1> QED BY <1>1, <1>3, <1>4 DEF TasksInv

-----------------------------------------------------------------------------
(* The caller's side of a step.                                              *)
LEMMA RequestsMove ==
    ASSUME TasksInv, RequestsOK', UNCHANGED <<tasks, run, running, escrow>>
    PROVE  TasksInv'
BY DEF TasksInv, TasksOK, SlotsAreRuns, TaskIsWhole, Landed

(* An answer leaves the caller in one of its states.                         *)
LEMMA AnswerIsHeard ==
    ASSUME RequestsOK, NEW r \in TaskRequests, Accepts(r) \/ Refuses(r)
    PROVE  caller' \in [TaskCallers -> CallerStates]
PROOF
<1>1. r.from \in TaskCallers /\ caller[r.from] \in CallerStates
  BY DEF RequestsOK, TaskRequests
<1>2. CASE UNCHANGED caller
  BY <1>2 DEF RequestsOK
<1>3. CASE Hears(r) /\ caller' = [caller EXCEPT ![r.from] = DoneCaller]
  BY <1>3 DEF RequestsOK, CallerStates
<1>4. CASE Hears(r) /\ caller' = [caller EXCEPT ![r.from].stage = "polling"]
  <2>1. caller[r.from].stage = "calling"
    BY <1>4 DEF Hears
  <2>2. caller[r.from] \in [stage : {"calling", "polling"}, task : TaskIds, job : TaskJobs, attempt : Nat]
    BY <1>1, <2>1 DEF CallerStates, IdleCaller, DoneCaller, Caller
  <2>3. [caller[r.from] EXCEPT !.stage = "polling"] \in CallerStates
    BY <2>2 DEF CallerStates
  <2> QED BY <1>4, <2>3 DEF RequestsOK
<1> QED BY <1>2, <1>3, <1>4 DEF Accepts, Refuses

(* A caller that creates a task, retries or gives up polling keeps it.       *)
LEMMA CallersKeep ==
    ASSUME TasksInv, NEW u \in TaskCallers, NEW t \in TaskIds, NEW j \in TaskJobs,
           RunTask(u, t, j) \/ AttemptFails(u) \/ PollingEnds(u)
    PROVE  TasksInv'
PROOF
<1>0. RequestsOK /\ caller \in [TaskCallers -> CallerStates]
  BY DEF TasksInv, RequestsOK
<1>1. CASE caller' = [caller EXCEPT ![u] = DoneCaller] /\ UNCHANGED <<serverVars, inbox, escrow>>
  <2>1. RequestsOK'
    BY <1>0, <1>1 DEF RequestsOK, CallerStates, serverVars
  <2> QED BY <1>1, <2>1, RequestsMove DEF serverVars
<1>2. ASSUME NEW c \in [stage : {"calling"}, task : TaskIds, job : TaskJobs, attempt : Nat],
             caller' = [caller EXCEPT ![u] = c], inbox' = inbox \cup {Request(u)'}, UNCHANGED <<serverVars, escrow>>
      PROVE  TasksInv'
  <2>1. caller'[u] = c /\ c \in CallerStates /\ caller' \in [TaskCallers -> CallerStates]
    BY <1>0, <1>2 DEF CallerStates
  <2>2. Request(u)' = [from |-> u, task |-> c.task, job |-> c.job, attempt |-> c.attempt]
    BY <2>1 DEF Request
  <2>3. Request(u)' \in TaskRequests
    BY <2>2 DEF TaskRequests
  <2>4. RequestsOK'
    BY <1>0, <1>2, <2>1, <2>3 DEF RequestsOK, serverVars
  <2> QED BY <1>2, <2>4, RequestsMove DEF serverVars
<1>3. CASE RunTask(u, t, j)
  <2>1. CASE Cardinality(AtEndpoint) >= MaxPerEndpoint
    BY <1>1, <1>3, <2>1 DEF RunTask
  <2>2. CASE ~(Cardinality(AtEndpoint) >= MaxPerEndpoint)
    <3>1. Caller("calling", t, j, 1) \in [stage : {"calling"}, task : TaskIds, job : TaskJobs, attempt : Nat]
      BY DEF Caller
    <3> QED BY <1>2, <1>3, <2>2, <3>1 DEF RunTask
  <2> QED BY <2>1, <2>2
<1>4. CASE AttemptFails(u)
  <2>1. CASE caller[u].attempt < MaxAttempts
    <3>1. caller[u] \in [stage : {"calling"}, task : TaskIds, job : TaskJobs, attempt : Nat]
      BY <1>0, <1>4 DEF AttemptFails, CallerStates, IdleCaller, DoneCaller, Caller
    <3>2. [caller[u] EXCEPT !.attempt = @ + 1] \in [stage : {"calling"}, task : TaskIds, job : TaskJobs, attempt : Nat]
      BY <3>1
    <3> QED BY <1>2, <1>4, <2>1, <3>2 DEF AttemptFails
  <2>2. CASE ~(caller[u].attempt < MaxAttempts)
    BY <1>1, <1>4, <2>2 DEF AttemptFails
  <2> QED BY <2>1, <2>2
<1>5. CASE PollingEnds(u)
  BY <1>1, <1>5 DEF PollingEnds
<1> QED BY <1>3, <1>4, <1>5

(* A create that reaches the server is held for its verdict.                 *)
LEMMA ArrivalKeeps ==
    ASSUME TasksInv, NEW r \in inbox, CreateArrives(r)
    PROVE  TasksInv'
PROOF
<1>1. RequestsOK /\ r \in TaskRequests
  BY DEF TasksInv, RequestsOK
<1>2. caller' \in [TaskCallers -> CallerStates] /\ admitting' \subseteq TaskRequests
  BY <1>1, AnswerIsHeard DEF CreateArrives, RequestsOK
<1> QED BY <1>1, <1>2, RequestsMove DEF CreateArrives, RequestsOK

(* So does reading the on-chain verdict of a request held.                   *)
LEMMA VerdictKeeps ==
    ASSUME TasksInv, NEW r \in admitting, VerdictRead(r)
    PROVE  TasksInv'
PROOF
<1>1. RequestsOK /\ r \in TaskRequests
  BY DEF TasksInv, RequestsOK
<1>2. caller' \in [TaskCallers -> CallerStates] /\ admitted' \subseteq TaskRequests
  BY <1>1, AnswerIsHeard DEF VerdictRead, RequestsOK
<1> QED BY <1>1, <1>2, RequestsMove DEF VerdictRead, RequestsOK

-----------------------------------------------------------------------------
(* The server's side.                                                        *)
Busy == {t \in TaskIds : run[t] # "none"}

(* The tasks that run are finitely many.                                     *)
LEMMA BusyIsFinite == IsFiniteSet(Busy) /\ Cardinality(Busy) \in Nat
PROOF
<1>1. IsFiniteSet(Busy)
  BY TaskServerAssumption, FS_Subset DEF Busy
<1> QED BY <1>1, FS_CardinalityType

(* Creating, or refusing, an admitted task keeps it: the count moves with    *)
(* it.                                                                       *)
LEMMA CreateKeeps ==
    ASSUME TasksInv, NEW r \in admitted, CreateTask(r)
    PROVE  TasksInv'
PROOF
<1>0. RequestsOK /\ r \in TaskRequests /\ r.task \in TaskIds /\ r.job \in TaskJobs /\ TasksOK
  BY DEF TasksInv, RequestsOK, TaskRequests
<1>1. RequestsOK'
  <2>1. caller' \in [TaskCallers -> CallerStates] /\ admitted' \subseteq TaskRequests
    BY <1>0, AnswerIsHeard DEF CreateTask, RequestsOK
  <2> QED BY <1>0, <2>1 DEF CreateTask, RequestsOK
<1>2. CASE ~FreeId(r.task)
  BY <1>1, <1>2, RequestsMove DEF CreateTask
<1>3. CASE FreeId(r.task)
  <2> DEFINE new == [job |-> r.job, state |-> "working"]
  <2>1. /\ tasks' = [tasks EXCEPT ![r.task] = new] /\ run' = [run EXCEPT ![r.task] = "handling"]
        /\ running' = running + 1 /\ UNCHANGED escrow
    BY <1>3 DEF CreateTask, StartWork
  <2>2. new \in TaskRecords /\ new # NoTask /\ new.state = "working"
    BY <1>0, TaskServerAssumption DEF TaskRecords, TaskStates
  <2>3. run[r.task] = "none"
    BY <1>0, <1>3 DEF TasksInv, TaskIsWhole, FreeId
  <2> HIDE DEF new
  <2>4. TasksOK'
    BY <1>0, <2>1, <2>2 DEF TasksOK, RunStages
  <2>5. SlotsAreRuns'
    <3>1. Busy' = Busy \cup {r.task} /\ r.task \notin Busy
      BY <1>0, <2>1, <2>3 DEF Busy, TasksOK
    <3>2. Cardinality(Busy') = Cardinality(Busy) + 1
      BY <3>1, BusyIsFinite, FS_AddElement
    <3> QED BY <2>1, <3>2 DEF TasksInv, SlotsAreRuns, Busy
  <2>6. ASSUME NEW t \in TaskIds PROVE TaskIsWhole(t)'
    BY <1>0, <2>1, <2>2 DEF TasksInv, TasksOK, TaskIsWhole, Landed
  <2> QED BY <1>1, <2>4, <2>5, <2>6 DEF TasksInv
<1> QED BY <1>2, <1>3

(* A transition of the machine, from "working" only.                         *)
LEMMA TransitionMoves ==
    ASSUME TasksOK, NEW t \in TaskIds, NEW to \in {"delivered", "failed"},
           tasks' = Transitioned(t, {"working"}, to)
    PROVE  /\ tasks' \in [TaskIds -> TaskRecords \cup {NoTask}]
           /\ \A s \in TaskIds : s # t => tasks'[s] = tasks[s]
           /\ \/ /\ tasks[t] # NoTask /\ tasks[t].state = "working"
                 /\ tasks'[t] # NoTask /\ tasks'[t].job = tasks[t].job /\ tasks'[t].state = to
              \/ /\ ~(tasks[t] # NoTask /\ tasks[t].state = "working")
                 /\ tasks' = tasks
PROOF
<1>1. CASE tasks[t] # NoTask /\ tasks[t].state = "working"
  <2> DEFINE ended == [tasks[t] EXCEPT !.state = to]
  <2>1. tasks' = [tasks EXCEPT ![t] = ended]
    BY <1>1 DEF Transitioned
  <2>2. ended \in TaskRecords /\ ended.job = tasks[t].job /\ ended.state = to
    BY <1>1 DEF TasksOK, TaskRecords, TaskStates
  <2>3. ended # NoTask
    BY <2>2, TaskServerAssumption DEF TaskRecords
  <2> HIDE DEF ended
  <2> QED BY <1>1, <2>1, <2>2, <2>3 DEF TasksOK
<1>2. CASE ~(tasks[t] # NoTask /\ tasks[t].state = "working")
  BY <1>2 DEF Transitioned, TasksOK
<1> QED BY <1>1, <1>2

(* A run ends, and its task with it unless it had ended before.              *)
LEMMA RunEnds ==
    ASSUME TasksInv, NEW t \in TaskIds, NEW to \in {"delivered", "failed"}, run[t] # "none",
           to = "delivered" => run[t] = "submitted",
           tasks' = Transitioned(t, {"working"}, to), EndRun(t),
           UNCHANGED <<inbox, admitting, admitted, caller, escrow>>
    PROVE  TasksInv'
PROOF
<1>0. TasksOK /\ run' = [run EXCEPT ![t] = "none"] /\ running' = running - 1
  BY DEF TasksInv, EndRun
<1>1. /\ tasks' \in [TaskIds -> TaskRecords \cup {NoTask}]
      /\ \A s \in TaskIds : s # t => tasks'[s] = tasks[s]
      /\ \/ /\ tasks[t] # NoTask /\ tasks[t].state = "working"
            /\ tasks'[t] # NoTask /\ tasks'[t].job = tasks[t].job /\ tasks'[t].state = to
         \/ /\ ~(tasks[t] # NoTask /\ tasks[t].state = "working")
            /\ tasks' = tasks
  BY <1>0, TransitionMoves
<1>2. TasksOK'
  BY <1>0, <1>1 DEF TasksOK, RunStages
<1>3. SlotsAreRuns'
  <2>1. Busy' = Busy \ {t} /\ t \in Busy
    BY <1>0 DEF Busy, TasksOK
  <2>2. Cardinality(Busy') = Cardinality(Busy) - 1
    BY <2>1, BusyIsFinite, FS_RemoveElement
  <2> QED BY <1>0, <2>2 DEF TasksInv, SlotsAreRuns, Busy
<1>4. ASSUME NEW s \in TaskIds PROVE TaskIsWhole(s)'
  <2>1. CASE s = t
    BY <1>0, <1>1, <2>1 DEF TasksInv, TasksOK, TaskIsWhole, Landed
  <2>2. CASE s # t
    BY <1>0, <1>1, <2>2 DEF TasksInv, TasksOK, TaskIsWhole, Landed
  <2> QED BY <2>1, <2>2
<1>5. RequestsOK'
  BY DEF TasksInv, RequestsOK
<1> QED BY <1>2, <1>3, <1>4, <1>5 DEF TasksInv

(* A run keeps it through its handler, its result and its delivery.          *)
LEMMA RunStepsKeep ==
    ASSUME TasksInv, NEW t \in TaskIds,
           RunStep(t) \/ HandlerThrows(t) \/ DeliveryUnheard(t)
    PROVE  TasksInv'
PROOF
<1>1. CASE SubmitLands(t)
  <2> DEFINE j == tasks[t].job
             paid == [status |-> "submitted", by |-> t]
  <2>1. /\ TasksOK /\ run[t] = "settling" /\ escrow[j].status = "funded" /\ escrow' = [escrow EXCEPT ![j] = paid]
        /\ run' = [run EXCEPT ![t] = "submitted"]
        /\ UNCHANGED <<tasks, running, inbox, admitting, admitted, caller>>
    BY <1>1 DEF SubmitLands, TasksInv
  <2>2. tasks[t] # NoTask /\ tasks[t] \in TaskRecords /\ j \in TaskJobs
    BY <2>1 DEF TasksInv, TaskIsWhole, TasksOK, TaskRecords
  <2> HIDE DEF j
  <2>3. TasksOK'
    BY <2>1, <2>2 DEF TasksOK, RunStages
  <2>4. Busy' = Busy
    BY <2>1 DEF Busy, TasksOK
  <2>5. SlotsAreRuns'
    BY <2>1, <2>4 DEF TasksInv, SlotsAreRuns, Busy
  <2>6. \A i \in TaskJobs : escrow'[i] = IF i = j THEN paid ELSE escrow[i]
    BY <2>1 DEF TasksOK
  <2>7. ASSUME NEW s \in TaskIds PROVE TaskIsWhole(s)'
    <3>0. TaskIsWhole(s) /\ (tasks[s] # NoTask => tasks[s].job \in TaskJobs)
      BY <2>1 DEF TasksInv, TasksOK, TaskRecords
    <3>1. CASE s = t
      BY <2>1, <2>2, <2>6, <3>0, <3>1 DEF TaskIsWhole, Landed, TasksOK, j
    <3>2. CASE s # t
      <4>1. run'[s] = run[s]
        BY <2>1, <3>2 DEF TasksOK
      <4>2. Landed(s) /\ tasks[s] # NoTask => Landed(s)'
        BY <2>1, <2>6, <3>0 DEF Landed
      <4> QED BY <2>1, <3>0, <4>1, <4>2 DEF TaskIsWhole
    <3> QED BY <3>1, <3>2
  <2> QED BY <2>1, <2>3, <2>5, <2>7 DEF TasksInv, RequestsOK
<1>2. CASE HandlerTimesOut(t) \/ SubmitRefused(t) \/ HandlerThrows(t) \/ DeliveryUnheard(t)
  <2>1. /\ run[t] # "none" /\ tasks' = Transitioned(t, {"working"}, "failed") /\ EndRun(t)
        /\ UNCHANGED <<inbox, admitting, admitted, caller, escrow>>
    BY <1>2 DEF HandlerTimesOut, DeadlineRaces, SubmitRefused, HandlerThrows, DeliveryUnheard, Fail
  <2> QED BY <2>1, RunEnds
<1>3. CASE DeliveryReported(t)
  <2>1. /\ run[t] = "submitted" /\ tasks' = Transitioned(t, {"working"}, "delivered") /\ EndRun(t)
        /\ UNCHANGED <<inbox, admitting, admitted, caller, escrow>>
    BY <1>3 DEF DeliveryReported, Deliverable, Deliver
  <2> QED BY <2>1, RunEnds
<1> QED BY <1>1, <1>2, <1>3 DEF RunStep

(* So do the host's own answers, failures and drops.                         *)
LEMMA HostKeeps ==
    ASSUME TasksInv, NEW t \in TaskIds, HandlerResolves(t) \/ HostFails(t) \/ HostDrops(t)
    PROVE  TasksInv'
PROOF
<1>0. TasksOK /\ RequestsOK
  BY DEF TasksInv
<1>1. CASE HandlerResolves(t)
  <2>1. /\ run[t] = "handling" /\ run' = [run EXCEPT ![t] = "settling"]
        /\ UNCHANGED <<tasks, running, inbox, admitting, admitted, caller, escrow>>
    BY <1>1 DEF HandlerResolves
  <2>2. Busy' = Busy
    BY <1>0, <2>1 DEF Busy, TasksOK
  <2>3. SlotsAreRuns'
    BY <2>1, <2>2 DEF TasksInv, SlotsAreRuns, Busy
  <2>4. TasksOK'
    BY <1>0, <2>1 DEF TasksOK, RunStages
  <2>5. \A s \in TaskIds : TaskIsWhole(s)'
    BY <1>0, <2>1 DEF TasksInv, TasksOK, TaskIsWhole, Landed
  <2> QED BY <1>0, <2>1, <2>3, <2>4, <2>5 DEF TasksInv, RequestsOK
<1>2. CASE HostFails(t)
  <2>1. /\ tasks' = Transitioned(t, {"working"}, "failed")
        /\ UNCHANGED <<run, running, inbox, admitting, admitted, caller, escrow>>
    BY <1>2 DEF HostFails, Fail
  <2>2. /\ tasks' \in [TaskIds -> TaskRecords \cup {NoTask}]
        /\ \A s \in TaskIds : s # t => tasks'[s] = tasks[s]
        /\ \/ tasks'[t] # NoTask /\ tasks'[t].job = tasks[t].job /\ tasks'[t].state = "failed" /\ tasks[t] # NoTask
           \/ tasks' = tasks
    BY <1>0, <2>1, TransitionMoves
  <2>3. ASSUME NEW s \in TaskIds PROVE TaskIsWhole(s)'
    BY <2>1, <2>2 DEF TasksInv, TaskIsWhole, Landed
  <2> QED BY <1>0, <2>1, <2>2, <2>3 DEF TasksInv, TasksOK, RequestsOK, SlotsAreRuns
<1>3. CASE HostDrops(t)
  <2>1. /\ tasks' = [tasks EXCEPT ![t] = NoTask] /\ run[t] = "none"
        /\ UNCHANGED <<run, running, inbox, admitting, admitted, caller, escrow>>
    BY <1>3 DEF HostDrops
  <2>2. TasksOK'
    BY <1>0, <2>1 DEF TasksOK
  <2>3. ASSUME NEW s \in TaskIds PROVE TaskIsWhole(s)'
    BY <1>0, <2>1 DEF TasksInv, TasksOK, TaskIsWhole, Landed
  <2> QED BY <1>0, <2>1, <2>2, <2>3 DEF TasksInv, RequestsOK, SlotsAreRuns
<1> QED BY <1>1, <1>2, <1>3

(* A job may close under a task at any time.                                 *)
LEMMA JobCloseKeeps ==
    ASSUME TasksInv, NEW j \in TaskJobs, JobCloses(j)
    PROVE  TasksInv'
PROOF
<1>0. TasksOK /\ RequestsOK /\ UNCHANGED <<tasks, run, running, admitting, admitted, inbox, caller>>
  BY DEF TasksInv, JobCloses, serverVars
<1>1. escrow' = [escrow EXCEPT ![j].status = "closed"]
  BY DEF JobCloses
<1>2. TasksOK'
  BY <1>0, <1>1 DEF TasksOK
<1>3. ASSUME NEW t \in TaskIds PROVE TaskIsWhole(t)'
  <2>1. TaskIsWhole(t) /\ (tasks[t] # NoTask => tasks[t].job \in TaskJobs)
    BY <1>0 DEF TasksInv, TasksOK, TaskRecords
  <2>2. tasks[t] # NoTask /\ Landed(t) => Landed(t)'
    BY <1>0, <1>1, <2>1 DEF Landed, TasksOK
  <2> QED BY <1>0, <2>1, <2>2 DEF TaskIsWhole
<1> QED BY <1>0, <1>2, <1>3 DEF TasksInv, RequestsOK, SlotsAreRuns

(* Every step of the task server keeps the invariant.                        *)
LEMMA TasksInvStep == TasksInv /\ [TaskServerNext]_taskServerVars => TasksInv'
PROOF
<1> SUFFICES ASSUME TasksInv, [TaskServerNext]_taskServerVars PROVE TasksInv'
  OBVIOUS
<1>1. ASSUME NEW u \in TaskCallers, NEW t \in TaskIds, NEW j \in TaskJobs, RunTask(u, t, j) PROVE TasksInv'
  BY <1>1, CallersKeep
<1>2. ASSUME NEW u \in TaskCallers, AttemptFails(u) \/ PollingEnds(u) PROVE TasksInv'
  <2>1. RequestsOK /\ caller[u].stage \in {"calling", "polling"} /\ caller[u] \in CallerStates
    BY <1>2 DEF AttemptFails, PollingEnds, TasksInv, RequestsOK
  <2>2. caller[u].task \in TaskIds /\ caller[u].job \in TaskJobs
    BY <2>1 DEF CallerStates, IdleCaller, DoneCaller, Caller
  <2> QED BY <1>2, <2>2, CallersKeep
<1>3. CASE \E r \in inbox : CreateArrives(r)
  BY <1>3, ArrivalKeeps
<1>4. CASE \E r \in admitting : VerdictRead(r)
  BY <1>4, VerdictKeeps
<1>5. CASE \E r \in admitted : CreateTask(r)
  BY <1>5, CreateKeeps
<1>6. ASSUME NEW t \in TaskIds,
             \/ RunStep(t) \/ HandlerThrows(t) \/ DeliveryUnheard(t)
             \/ HandlerResolves(t) \/ HostFails(t) \/ HostDrops(t)
      PROVE  TasksInv'
  BY <1>6, RunStepsKeep, HostKeeps
<1>7. CASE \E j \in TaskJobs : JobCloses(j)
  BY <1>7, JobCloseKeeps
<1>8. CASE UNCHANGED taskServerVars
  <2>1. RequestsOK' /\ UNCHANGED <<tasks, run, running, escrow>>
    BY <1>8 DEF taskServerVars, serverVars, TasksInv, RequestsOK
  <2> QED BY <2>1, RequestsMove
<1> QED BY <1>1, <1>2, <1>3, <1>4, <1>5, <1>6, <1>7, <1>8 DEF TaskServerNext

(* Slots, runs, tasks and the chain tell one story for any number of         *)
(* callers, tasks and jobs: the count of running tasks is the number of      *)
(* runs, a task said to be delivered is on chain, and a working task has     *)
(* its run (server.ts).                                                      *)
THEOREM TasksAddUp == TaskServerSpec => []TasksAreAccountedFor
PROOF
<1>1. TasksInv => TasksAreAccountedFor
  BY DEF TasksInv, TaskIsWhole, Landed, TasksAreAccountedFor, DeliveredIsOnChain, WorkingHasItsRun
<1> QED BY <1>1, TasksInvInit, TasksInvStep, PTL DEF TaskServerSpec

(* A task that ended keeps its state and its result, whatever answers        *)
(* late.                                                                     *)
THEOREM EndedTasksStayEnded == TaskServerSpec => EndedStaysEnded
PROOF
<1> DEFINE Stays == \A t \in TaskIds : TerminalTask(t) => tasks'[t] \in {tasks[t], NoTask}
<1>1. TasksInv /\ [TaskServerNext]_taskServerVars => [Stays]_taskServerVars
  <2> SUFFICES ASSUME TasksInv, TaskServerNext, NEW t \in TaskIds, TerminalTask(t)
               PROVE  tasks'[t] \in {tasks[t], NoTask}
    OBVIOUS
  <2>0. TasksOK /\ tasks[t] # NoTask /\ tasks[t].state # "working"
    BY DEF TasksInv, TerminalTask
  <2>1. ASSUME NEW r \in admitted, CreateTask(r) PROVE tasks'[t] = tasks[t]
    BY <2>0, <2>1 DEF CreateTask, FreeId, StartWork, TasksOK
  <2>2. ASSUME NEW s \in TaskIds, NEW to \in {"delivered", "failed"}, tasks' = Transitioned(s, {"working"}, to)
        PROVE  tasks'[t] = tasks[t]
    BY <2>0, <2>2 DEF Transitioned, TasksOK
  <2>3. ASSUME NEW s \in TaskIds, HostDrops(s) PROVE tasks'[t] \in {tasks[t], NoTask}
    BY <2>0, <2>3 DEF HostDrops, TasksOK
  <2>4. CASE \E s \in TaskIds : RunStep(s) \/ HandlerThrows(s) \/ DeliveryUnheard(s) \/ HandlerResolves(s) \/ HostFails(s)
    <3>1. PICK s \in TaskIds :
            \/ tasks' = tasks
            \/ \E to \in {"delivered", "failed"} : tasks' = Transitioned(s, {"working"}, to)
      BY <2>4 DEF RunStep, HandlerTimesOut, SubmitLands, SubmitRefused, DeliveryReported, HandlerThrows,
                  DeliveryUnheard, HandlerResolves, HostFails, Deliver, Fail
    <3> QED BY <2>2, <3>1
  <2>5. CASE \/ \E u \in TaskCallers : \/ \E s \in TaskIds, j \in TaskJobs : RunTask(u, s, j)
                                       \/ AttemptFails(u) \/ PollingEnds(u)
             \/ \E r \in inbox : CreateArrives(r)
             \/ \E r \in admitting : VerdictRead(r)
             \/ \E j \in TaskJobs : JobCloses(j)
    BY <2>5 DEF RunTask, AttemptFails, PollingEnds, CreateArrives, VerdictRead, JobCloses, serverVars
  <2> QED BY <2>1, <2>3, <2>4, <2>5 DEF TaskServerNext
<1>2. TaskServerSpec => []TasksInv
  BY TasksInvInit, TasksInvStep, PTL DEF TaskServerSpec
<1> QED BY <1>1, <1>2, PTL DEF TaskServerSpec, EndedStaysEnded

-----------------------------------------------------------------------------
(* The hosted agent's allowance (Delegation).                                *)
HireStages == {"none", "queued", "admitting", "settling", "creating", "budgeting",
               "funding", "dispatching", "refused", "hired"}
AtTheHead == {"admitting", "settling", "creating", "budgeting", "funding", "dispatching"}
OwnedStatuses == {"none", "open", "funded", "submitted", "closed"}

DelegationTypeOK ==
    /\ hire \in [Hires -> [stage : HireStages, job : Hires, budget : Nat]]
    /\ turns \in Seq(Hires)
    /\ counted \in Nat /\ spentToday \in Nat /\ midnights \in Nat
    /\ inFlightJobs \subseteq Hires /\ unheard \subseteq Hires
    /\ owned \in [Hires -> [status : OwnedStatuses, budget : Nat]]

(* Only the head of the queue is between its first step and its end.         *)
OneAtATime == \A h \in Hires : hire[h].stage \in AtTheHead => turns # <<>> /\ Head(turns) = h

(* The job of the hire at work is Open from the look at it to its funding.   *)
JobIsOpen(h) ==
    /\ hire[h].stage \in {"admitting", "settling"} /\ Resumes(h) => owned[hire[h].job].status = "open"
    /\ hire[h].stage = "creating" => hire[h].job = h
    /\ hire[h].stage \in {"budgeting", "funding"} => owned[hire[h].job].status = "open"
    /\ hire[h].stage = "funding" => owned[hire[h].job].budget = hire[h].budget

(* The ceiling as the hire at work has it: the counter it read is not behind *)
(* the registry's, and what it was admitted for is still free.               *)
Spoken == spentToday + Budgets(InEscrowNow)
RoomIsKept(h) ==
    /\ hire[h].stage = "settling" => spentToday <= counted
    /\ hire[h].stage \in {"creating", "budgeting", "funding"} /\ unheard = {} =>
          Spoken + hire[h].budget <= DailyLimit

DelegationInv ==
    /\ DelegationTypeOK /\ OneAtATime
    /\ \A h \in Hires : JobIsOpen(h)
    /\ EscrowIsReserved
    /\ ReleaseDuringView \/ (FundedWithinCeiling /\ \A h \in Hires : RoomIsKept(h))

-----------------------------------------------------------------------------
(* Sums of the wallet's budgets.                                             *)
LEMMA BudgetsType ==
    ASSUME DelegationTypeOK, NEW js
    PROVE  Budgets(js) \in Nat
PROOF
<1>1. [j \in Hires |-> IF j \in js THEN owned[j].budget ELSE 0] \in [Hires -> Nat]
  BY DEF DelegationTypeOK
<1> QED BY <1>1, DelegationAssumption, TotalType DEF Budgets

(* What is in escrow after a step is an amount.                              *)
LEMMA BudgetsTypeNext ==
    ASSUME DelegationTypeOK'
    PROVE  Budgets(InEscrowNow)' \in Nat
PROOF
<1>1. [k \in Hires |-> IF k \in InEscrowNow' THEN owned'[k].budget ELSE 0] \in [Hires -> Nat]
  BY DEF DelegationTypeOK
<1> QED BY <1>1, DelegationAssumption, TotalType DEF Budgets

(* Fewer jobs hold no more.                                                  *)
LEMMA FewerBudgets ==
    ASSUME DelegationTypeOK, NEW js, NEW ks, js \subseteq ks
    PROVE  Budgets(js) <= Budgets(ks)
PROOF
<1> DEFINE f == [j \in Hires |-> IF j \in js THEN owned[j].budget ELSE 0]
           g == [j \in Hires |-> IF j \in ks THEN owned[j].budget ELSE 0]
<1>1. f \in [Hires -> Nat] /\ g \in [Hires -> Nat]
  BY DEF DelegationTypeOK
<1>2. \A j \in Hires : f[j] = g[j] \/ f[j] = 0
  OBVIOUS
<1> HIDE DEF f, g
<1>3. Coins(f) \subseteq Coins(g)
  BY <1>1, <1>2 DEF Coins
<1>4. Cardinality(Coins(f)) <= Cardinality(Coins(g))
  BY <1>1, <1>3, DelegationAssumption, CoinsFinite, FS_Subset
<1> QED BY <1>4 DEF Budgets, Total, f, g

(* A step that touches one job moves the sum in escrow by that job's part.   *)
HeldIn(j) == IF j \in InEscrowNow THEN owned[j].budget ELSE 0
(* A step that moves one job moves the escrow by what that job holds.        *)
LEMMA EscrowMoves ==
    ASSUME DelegationTypeOK, DelegationTypeOK', NEW j \in Hires,
           \A k \in Hires : k # j => owned'[k] = owned[k]
    PROVE  Budgets(InEscrowNow)' + HeldIn(j) = Budgets(InEscrowNow) + HeldIn(j)'
PROOF
<1> DEFINE f == [k \in Hires |-> IF k \in InEscrowNow THEN owned[k].budget ELSE 0]
           g == [k \in Hires |-> IF k \in InEscrowNow' THEN owned'[k].budget ELSE 0]
<1>1. f \in [Hires -> Nat] /\ g \in [Hires -> Nat]
  BY DEF DelegationTypeOK
<1>2. \A k \in Hires : k # j => g[k] = f[k]
  BY DEF InEscrowNow
<1>3. f[j] = HeldIn(j) /\ g[j] = HeldIn(j)'
  BY DEF HeldIn
<1>4. Budgets(InEscrowNow) = Total(f) /\ Budgets(InEscrowNow)' = Total(g)
  BY DEF Budgets
<1> HIDE DEF f, g
<1>5. Total(g) + f[j] = Total(f) + g[j]
  BY <1>1, <1>2, DelegationAssumption, TotalUpdate
<1> QED BY <1>3, <1>4, <1>5

(* Escrow is what the owned jobs say, and nothing else.                      *)
LEMMA SameOwnedSameBudgets ==
    ASSUME UNCHANGED owned
    PROVE  /\ InEscrowNow' = InEscrowNow
           /\ Budgets(InEscrowNow)' = Budgets(InEscrowNow)
BY DEF InEscrowNow, Budgets

-----------------------------------------------------------------------------
(* A wallet without a hire satisfies the invariant.                          *)
LEMMA DelegationInvInit == DelegationInit => DelegationInv
PROOF
<1> SUFFICES ASSUME DelegationInit PROVE DelegationInv
  OBVIOUS
<1> USE DEF DelegationInit
<1>1. DelegationTypeOK
  BY DEF DelegationTypeOK, HireStages, OwnedStatuses
<1>2. InEscrowNow = {}
  BY DEF InEscrowNow
<1>3. Budgets(InEscrowNow) = 0
  <2>1. [j \in Hires |-> IF j \in {} THEN owned[j].budget ELSE 0] = [j \in Hires |-> 0]
    OBVIOUS
  <2> QED BY <1>2, <2>1, TotalZero DEF Budgets
<1>4. \A h \in Hires : hire[h].stage = "none"
  OBVIOUS
<1> QED BY <1>1, <1>2, <1>3, <1>4, DelegationAssumption
        DEF DelegationInv, OneAtATime, AtTheHead, JobIsOpen, EscrowIsReserved,
            FundedWithinCeiling, RoomIsKept

(* The hire at work goes on, or ends: nobody else is at work.                *)
LEMMA HeadWorksAlone ==
    ASSUME DelegationTypeOK, OneAtATime, NEW h \in Hires, turns # <<>>, Head(turns) = h,
           NEW s \in HireStages, GoesOn(h, s) \/ (Ends(h, s) /\ s \notin AtTheHead)
    PROVE  /\ hire' \in [Hires -> [stage : HireStages, job : Hires, budget : Nat]]
           /\ turns' \in Seq(Hires) /\ OneAtATime'
           /\ hire'[h].stage = s /\ hire'[h].job = hire[h].job /\ hire'[h].budget = hire[h].budget
           /\ \A k \in Hires : k # h => hire'[k] = hire[k] /\ hire[k].stage \notin AtTheHead
PROOF
<1> DEFINE moved == [hire[h] EXCEPT !.stage = s]
<1>1. hire' = [hire EXCEPT ![h].stage = s]
  BY DEF GoesOn, Ends
<1>2. hire' \in [Hires -> [stage : HireStages, job : Hires, budget : Nat]]
  <2>1. moved \in [stage : HireStages, job : Hires, budget : Nat]
    BY DEF DelegationTypeOK
  <2>2. hire' = [hire EXCEPT ![h] = moved]
    BY <1>1
  <2> HIDE DEF moved
  <2> QED BY <2>1, <2>2 DEF DelegationTypeOK
<1>3. turns' \in Seq(Hires) /\ (turns' = turns \/ s \notin AtTheHead)
  <2>1. turns \in Seq(Hires) /\ Tail(turns) \in Seq(Hires)
    BY DEF DelegationTypeOK
  <2> QED BY <2>1 DEF GoesOn, Ends
<1>4. \A k \in Hires : k # h => hire'[k] = hire[k] /\ hire[k].stage \notin AtTheHead
  BY <1>1 DEF DelegationTypeOK, OneAtATime
<1>5. hire'[h].stage = s /\ hire'[h].job = hire[h].job /\ hire'[h].budget = hire[h].budget
  BY <1>1 DEF DelegationTypeOK
<1>6. OneAtATime'
  BY <1>3, <1>4, <1>5 DEF OneAtATime
<1> QED BY <1>2, <1>3, <1>4, <1>5, <1>6

(* A hire at work that leaves the chain and the reservation alone.           *)
LEMMA QueueMoves ==
    ASSUME DelegationInv, NEW h \in Hires, turns # <<>>, Head(turns) = h,
           NEW s \in HireStages, GoesOn(h, s) \/ (Ends(h, s) /\ s \notin AtTheHead),
           UNCHANGED <<inFlightJobs, unheard, escrowSide>>, counted' \in Nat,
           JobIsOpen(h)', ReleaseDuringView \/ RoomIsKept(h)'
    PROVE  DelegationInv'
PROOF
<1>1. /\ hire' \in [Hires -> [stage : HireStages, job : Hires, budget : Nat]]
      /\ turns' \in Seq(Hires) /\ OneAtATime'
      /\ \A k \in Hires : k # h => hire'[k] = hire[k] /\ hire[k].stage \notin AtTheHead
  BY HeadWorksAlone DEF DelegationInv
<1>2. DelegationTypeOK'
  BY <1>1 DEF DelegationInv, DelegationTypeOK, escrowSide
<1>3. ASSUME NEW k \in Hires, k # h PROVE JobIsOpen(k)' /\ RoomIsKept(k)'
  BY <1>1, <1>3 DEF JobIsOpen, RoomIsKept, AtTheHead, Resumes
<1>4. InEscrowNow' = InEscrowNow /\ Budgets(InEscrowNow)' = Budgets(InEscrowNow)
  BY SameOwnedSameBudgets DEF escrowSide
<1>5. EscrowIsReserved' /\ (ReleaseDuringView \/ FundedWithinCeiling')
  BY <1>4 DEF DelegationInv, EscrowIsReserved, FundedWithinCeiling, escrowSide
<1>6. /\ \A k \in Hires : JobIsOpen(k)'
      /\ ReleaseDuringView \/ \A k \in Hires : RoomIsKept(k)'
  BY <1>3
<1> QED BY <1>1, <1>2, <1>5, <1>6 DEF DelegationInv

(* Asking to hire reserves what the view leaves room for.                    *)
LEMMA AskKeeps ==
    ASSUME DelegationInv, NEW h \in Hires, NEW j \in Hires, NEW b \in HireBudgets, AskToHire(h, b, j)
    PROVE  DelegationInv'
PROOF
<1> DEFINE asked == [stage |-> "queued", job |-> j, budget |-> b]
<1>1. /\ hire' = [hire EXCEPT ![h] = asked] /\ turns' = Append(turns, h)
      /\ UNCHANGED <<counted, inFlightJobs, unheard, owned, spentToday, midnights>>
  BY DEF AskToHire, escrowSide
<1>2. asked \in [stage : HireStages, job : Hires, budget : Nat] /\ asked.stage = "queued"
  BY DelegationAssumption DEF HireStages
<1> HIDE DEF asked
<1>3. hire'[h] = asked /\ \A k \in Hires : k # h => hire'[k] = hire[k]
  BY <1>1 DEF DelegationInv, DelegationTypeOK
<1>4. DelegationTypeOK'
  BY <1>1, <1>2 DEF DelegationInv, DelegationTypeOK
<1>5. turns # <<>> => turns' # <<>> /\ Head(turns') = Head(turns)
  BY <1>1 DEF DelegationInv, DelegationTypeOK
<1>6. OneAtATime'
  BY <1>2, <1>3, <1>5 DEF DelegationInv, OneAtATime, AtTheHead
<1>7. InEscrowNow' = InEscrowNow /\ Budgets(InEscrowNow)' = Budgets(InEscrowNow)
  BY <1>1, SameOwnedSameBudgets
<1>8. EscrowIsReserved' /\ (ReleaseDuringView \/ FundedWithinCeiling')
  BY <1>1, <1>7 DEF DelegationInv, EscrowIsReserved, FundedWithinCeiling
<1>9. ASSUME NEW k \in Hires PROVE JobIsOpen(k)' /\ (ReleaseDuringView \/ RoomIsKept(k)')
  BY <1>1, <1>2, <1>3, <1>7 DEF DelegationInv, JobIsOpen, RoomIsKept, Resumes, Spoken
<1> QED BY <1>4, <1>6, <1>8, <1>9 DEF DelegationInv

(* The look at the job, and the two reads of the view.                       *)
LEMMA ViewKeeps ==
    ASSUME DelegationInv, NEW h \in Hires, HireBegins(h) \/ ViewReadsCounter(h) \/ DispatchEnds(h)
    PROVE  DelegationInv'
PROOF
<1>1. turns # <<>> /\ Head(turns) = h /\ UNCHANGED <<inFlightJobs, unheard, escrowSide>>
  BY DEF HireBegins, ViewReadsCounter, DispatchEnds, AtWork
<1>2. ASSUME NEW s \in {"refused", "hired", "admitting", "settling"},
             GoesOn(h, s) \/ (Ends(h, s) /\ s \notin AtTheHead), counted' \in Nat,
             s \in {"admitting", "settling"} /\ Resumes(h) => owned[hire[h].job].status = "open",
             s = "settling" => spentToday <= counted'
      PROVE  DelegationInv'
  <2>1. s \in HireStages
    BY DEF HireStages
  <2>2. hire'[h].stage = s /\ hire'[h].job = hire[h].job
    BY <1>1, <1>2, <2>1, HeadWorksAlone DEF DelegationInv
  <2>3. JobIsOpen(h)' /\ RoomIsKept(h)'
    BY <1>1, <1>2, <2>2 DEF JobIsOpen, RoomIsKept, Resumes, escrowSide
  <2> QED BY <1>1, <1>2, <2>1, <2>3, QueueMoves
<1>3. counted \in Nat /\ spentToday \in Nat
  BY DEF DelegationInv, DelegationTypeOK
<1>4. CASE HireBegins(h)
  BY <1>2, <1>3, <1>4 DEF HireBegins, AtTheHead
<1>5. CASE ViewReadsCounter(h)
  <2>1. Resumes(h) => owned[hire[h].job].status = "open"
    BY <1>5 DEF ViewReadsCounter, AtWork, DelegationInv, JobIsOpen
  <2> QED BY <1>2, <1>3, <1>5, <2>1 DEF ViewReadsCounter
<1>6. CASE DispatchEnds(h)
  BY <1>2, <1>3, <1>6 DEF DispatchEnds, AtTheHead
<1> QED BY <1>4, <1>5, <1>6

(* The decision: what the hire is admitted for fits beside what is in escrow.*)
LEMMA DecisionKeeps ==
    ASSUME DelegationInv, NEW h \in Hires, ViewDecides(h)
    PROVE  DelegationInv'
PROOF
<1> DEFINE next == IF Resumes(h) THEN "budgeting" ELSE "creating"
<1>1. /\ turns # <<>> /\ Head(turns) = h /\ hire[h].stage = "settling"
      /\ inFlightJobs' = Reserved /\ UNCHANGED <<counted, unheard, owned, spentToday, midnights>>
  BY DEF ViewDecides, AtWork, escrowSide
<1>2. PICK s \in HireStages :
        /\ GoesOn(h, s) \/ (Ends(h, s) /\ s \notin AtTheHead)
        /\ \/ s = "refused"
           \/ s = next /\ hire[h].budget <= Available(Reserved)
  <2>1. hire[h].budget \in Int /\ Available(Reserved) \in Int
    <3>1. Budgets(Reserved) \in Nat
      BY BudgetsType DEF DelegationInv
    <3> QED BY <3>1, DelegationAssumption DEF Available, DelegationInv, DelegationTypeOK
  <2>2. CASE Ends(h, "refused")
    BY <2>2 DEF HireStages, AtTheHead
  <2>3. CASE GoesOn(h, next) /\ ~(hire[h].budget > Available(Reserved))
    BY <2>1, <2>3 DEF HireStages
  <2> QED BY <2>2, <2>3 DEF ViewDecides
<1>3. /\ hire' \in [Hires -> [stage : HireStages, job : Hires, budget : Nat]]
      /\ turns' \in Seq(Hires) /\ OneAtATime'
      /\ hire'[h].stage = s /\ hire'[h].job = hire[h].job /\ hire'[h].budget = hire[h].budget
      /\ \A k \in Hires : k # h => hire'[k] = hire[k] /\ hire[k].stage \notin AtTheHead
  BY <1>1, <1>2, HeadWorksAlone DEF DelegationInv
<1>4. DelegationTypeOK'
  BY <1>1, <1>3 DEF DelegationInv, DelegationTypeOK, Reserved
<1>5. InEscrowNow' = InEscrowNow /\ Budgets(InEscrowNow)' = Budgets(InEscrowNow)
  BY <1>1, SameOwnedSameBudgets
<1>6. EscrowIsReserved'
  BY <1>1, <1>5 DEF DelegationInv, EscrowIsReserved, InEscrowNow, Reserved
<1>7. JobIsOpen(h)'
  BY <1>1, <1>2, <1>3 DEF DelegationInv, JobIsOpen, Resumes
<1>8. ~ReleaseDuringView => RoomIsKept(h)'
  <2> SUFFICES ASSUME ~ReleaseDuringView, s = next, unheard = {}, hire[h].budget <= Available(Reserved)
               PROVE  Spoken + hire[h].budget <= DailyLimit
    BY <1>1, <1>2, <1>3, <1>5 DEF RoomIsKept, Spoken
  <2>1. spentToday <= counted
    BY <1>1 DEF DelegationInv, RoomIsKept
  <2>2. InEscrowNow \subseteq Reserved
    BY DEF DelegationInv, EscrowIsReserved, InEscrowNow, Reserved
  <2>3. Budgets(InEscrowNow) <= Budgets(Reserved)
    BY <2>2, FewerBudgets DEF DelegationInv
  <2>4. Budgets(InEscrowNow) \in Nat /\ Budgets(Reserved) \in Nat
    BY BudgetsType DEF DelegationInv
  <2>5. counted \in Nat /\ spentToday \in Nat /\ hire[h].budget \in Nat /\ DailyLimit \in Nat
    BY DelegationAssumption DEF DelegationInv, DelegationTypeOK
  <2> QED BY <2>1, <2>3, <2>4, <2>5 DEF Spoken, Available
<1>9. ReleaseDuringView \/ FundedWithinCeiling'
  BY <1>1, <1>5 DEF DelegationInv, FundedWithinCeiling
<1>10. ASSUME NEW k \in Hires, k # h PROVE JobIsOpen(k)' /\ RoomIsKept(k)'
  BY <1>1, <1>3, <1>10 DEF JobIsOpen, RoomIsKept, AtTheHead, Resumes
<1> QED BY <1>3, <1>4, <1>6, <1>7, <1>8, <1>9, <1>10 DEF DelegationInv

(* Escrow that does not grow leaves the room as it was.                      *)
LEMMA EscrowShrinks ==
    ASSUME DelegationTypeOK, DelegationTypeOK', NEW j \in Hires,
           \A k \in Hires : k # j => owned'[k] = owned[k],
           spentToday' + HeldIn(j)' <= spentToday + HeldIn(j)
    PROVE  Spoken' <= Spoken /\ Spoken \in Nat /\ Spoken' \in Nat
PROOF
<1>1. Budgets(InEscrowNow)' + HeldIn(j) = Budgets(InEscrowNow) + HeldIn(j)'
  BY EscrowMoves
<1>2. Budgets(InEscrowNow) \in Nat /\ Budgets(InEscrowNow)' \in Nat
  BY BudgetsType, BudgetsTypeNext
<1>3. HeldIn(j) \in Nat /\ HeldIn(j)' \in Nat /\ spentToday \in Nat /\ spentToday' \in Nat
  BY DEF HeldIn, DelegationTypeOK
<1> QED BY <1>1, <1>2, <1>3 DEF Spoken

(* A transaction on the hire's own job while it holds no escrow.             *)
LEMMA TransactionKeeps ==
    ASSUME DelegationInv, NEW h \in Hires, turns # <<>>, Head(turns) = h,
           hire[h].stage \in {"creating", "budgeting"}, NEW j \in Hires,
           NEW s \in {"budgeting", "funding", "refused"},
           GoesOn(h, s) \/ (Ends(h, s) /\ s = "refused"),
           owned' \in [Hires -> [status : OwnedStatuses, budget : Nat]],
           \A k \in Hires : k # j => owned'[k] = owned[k], owned'[j] = owned[j] \/ j \notin InEscrowNow',
           UNCHANGED <<counted, inFlightJobs, unheard, spentToday, midnights>>, JobIsOpen(h)'
    PROVE  DelegationInv'
PROOF
<1>1. s \in HireStages /\ (GoesOn(h, s) \/ (Ends(h, s) /\ s \notin AtTheHead))
  BY DEF HireStages, AtTheHead
<1>2. /\ hire' \in [Hires -> [stage : HireStages, job : Hires, budget : Nat]]
      /\ turns' \in Seq(Hires) /\ OneAtATime'
      /\ hire'[h].stage = s /\ hire'[h].budget = hire[h].budget
      /\ \A k \in Hires : k # h => hire'[k] = hire[k] /\ hire[k].stage \notin AtTheHead
  BY <1>1, HeadWorksAlone DEF DelegationInv
<1>3. DelegationTypeOK'
  BY <1>2 DEF DelegationInv, DelegationTypeOK
<1>4. EscrowIsReserved'
  BY DEF DelegationInv, EscrowIsReserved, InEscrowNow
<1>5. Spoken' <= Spoken /\ Spoken \in Nat /\ Spoken' \in Nat
  <2>1. HeldIn(j)' <= HeldIn(j)
    BY <1>3 DEF DelegationInv, DelegationTypeOK, HeldIn, InEscrowNow
  <2>2. spentToday' + HeldIn(j)' <= spentToday + HeldIn(j)
    BY <1>3, <2>1 DEF DelegationInv, DelegationTypeOK, HeldIn
  <2> QED BY <1>3, <2>2, EscrowShrinks DEF DelegationInv
<1>6. ReleaseDuringView \/ FundedWithinCeiling'
  BY <1>5, DelegationAssumption DEF DelegationInv, FundedWithinCeiling, Spoken
<1>7. ASSUME NEW k \in Hires PROVE JobIsOpen(k)' /\ (ReleaseDuringView \/ RoomIsKept(k)')
  <2>1. CASE k = h
    <3>1. hire[h].budget \in Nat /\ DailyLimit \in Nat
      BY DelegationAssumption DEF DelegationInv, DelegationTypeOK
    <3>2. s # "settling" /\ hire[h].stage \in {"creating", "budgeting"} /\ unheard' = unheard
      OBVIOUS
    <3>3. ReleaseDuringView \/ (unheard = {} => Spoken + hire[h].budget <= DailyLimit)
      BY <3>2 DEF DelegationInv, RoomIsKept
    <3>4. unheard = {} /\ ~ReleaseDuringView => Spoken' + hire'[h].budget <= DailyLimit
      BY <1>2, <1>5, <3>1, <3>3
    <3>5. ReleaseDuringView \/ RoomIsKept(h)'
      BY <1>2, <3>2, <3>4 DEF RoomIsKept
    <3> QED BY <2>1, <3>5
  <2>2. CASE k # h
    BY <1>2, <2>2 DEF JobIsOpen, RoomIsKept, AtTheHead, Resumes
  <2> QED BY <2>1, <2>2
<1> QED BY <1>2, <1>3, <1>4, <1>6, <1>7 DEF DelegationInv

(* Creating the job and setting its budget keep the reservation.             *)
LEMMA CreateAndBudgetKeep ==
    ASSUME DelegationInv, NEW h \in Hires, CreateJob(h) \/ SetBudget(h)
    PROVE  DelegationInv'
PROOF
<1> DEFINE j == hire[h].job
<1>0. j \in Hires /\ hire[h].budget \in Nat /\ owned \in [Hires -> [status : OwnedStatuses, budget : Nat]]
  BY DEF DelegationInv, DelegationTypeOK
<1>1. /\ turns # <<>> /\ Head(turns) = h /\ hire[h].stage \in {"creating", "budgeting"}
      /\ UNCHANGED <<counted, inFlightJobs, unheard, spentToday, midnights>>
  BY DEF CreateJob, SetBudget, AtWork
<1>2. PICK s \in {"budgeting", "funding", "refused"} :
        /\ GoesOn(h, s) \/ (Ends(h, s) /\ s = "refused")
        /\ \/ s = "refused" /\ owned' = owned
           \/ CreateJob(h) /\ j = h /\ s # "funding" /\ owned' = [owned EXCEPT ![j].status = "open"]
           \/ /\ SetBudget(h) /\ s # "budgeting" /\ owned[j].status = "open"
              /\ owned' = [owned EXCEPT ![j].budget = hire[h].budget]
  <2>1. CASE CreateJob(h)
    <3>1. j = h
      BY <2>1 DEF CreateJob, AtWork, DelegationInv, JobIsOpen
    <3> QED BY <2>1, <3>1 DEF CreateJob, Sends
  <2>2. CASE SetBudget(h)
    <3>1. owned[j].status = "open"
      BY <2>2 DEF SetBudget, AtWork, DelegationInv, JobIsOpen
    <3> QED BY <2>2, <3>1 DEF SetBudget, Sends
  <2> QED BY <2>1, <2>2
<1>3. hire'[h].stage = s /\ hire'[h].job = j /\ hire'[h].budget = hire[h].budget
  <2>1. s \in HireStages /\ (GoesOn(h, s) \/ (Ends(h, s) /\ s \notin AtTheHead))
    BY <1>2 DEF HireStages, AtTheHead
  <2> QED BY <1>1, <2>1, HeadWorksAlone DEF DelegationInv
<1> HIDE DEF j
<1>4. /\ owned' \in [Hires -> [status : OwnedStatuses, budget : Nat]]
      /\ \A k \in Hires : k # j => owned'[k] = owned[k]
      /\ owned'[j] = owned[j] \/ owned'[j].status = "open"
      /\ s # "refused" => owned'[j].status = "open"
      /\ s = "funding" => owned'[j].budget = hire[h].budget
  BY <1>0, <1>2 DEF OwnedStatuses
<1>5. JobIsOpen(h)'
  BY <1>3, <1>4 DEF JobIsOpen
<1>6. owned'[j] = owned[j] \/ j \notin InEscrowNow'
  BY <1>4 DEF InEscrowNow
<1> QED BY <1>0, <1>1, <1>2, <1>4, <1>5, <1>6, TransactionKeeps

(* Funding, heard of or not.                                                 *)
LEMMA FundKeeps ==
    ASSUME DelegationInv, NEW h \in Hires, Fund(h)
    PROVE  DelegationInv'
PROOF
<1> PICK j \in Hires : j = hire[h].job
  BY DEF DelegationInv, DelegationTypeOK
<1> DEFINE landed == [owned EXCEPT ![j].status = "funded"]
<1>0. /\ hire[h].budget \in Nat /\ owned \in [Hires -> [status : OwnedStatuses, budget : Nat]]
      /\ spentToday \in Nat /\ DailyLimit \in Nat
  BY DelegationAssumption DEF DelegationInv, DelegationTypeOK
<1>1. /\ turns # <<>> /\ Head(turns) = h /\ hire[h].stage = "funding"
      /\ owned[j].status = "open" /\ owned[j].budget = hire[h].budget
      /\ UNCHANGED <<counted, spentToday, midnights>>
  BY DEF Fund, AtWork, DelegationInv, JobIsOpen
<1>2. /\ landed \in [Hires -> [status : OwnedStatuses, budget : Nat]]
      /\ \A k \in Hires : k # j => landed[k] = owned[k]
      /\ landed[j].status = "funded" /\ landed[j].budget = hire[h].budget /\ landed # owned
  BY <1>0, <1>1 DEF OwnedStatuses
<1>3. PICK s \in {"dispatching", "refused"} :
        /\ GoesOn(h, s) \/ (Ends(h, s) /\ s \notin AtTheHead)
        /\ s = "dispatching" => owned' = landed
        /\ owned' \in {owned, landed}
  BY DEF Fund, Sends, AtTheHead
<1>4. s \in HireStages
  BY DEF HireStages
<1>5. /\ hire' \in [Hires -> [stage : HireStages, job : Hires, budget : Nat]]
      /\ turns' \in Seq(Hires) /\ OneAtATime' /\ hire'[h].stage = s
      /\ \A k \in Hires : k # h => hire'[k] = hire[k] /\ hire[k].stage \notin AtTheHead
  BY <1>1, <1>3, <1>4, HeadWorksAlone DEF DelegationInv
<1>6. /\ inFlightJobs' = IF s = "dispatching" THEN inFlightJobs \cup {j} ELSE inFlightJobs
      /\ unheard' = IF owned' # owned /\ s = "refused" THEN unheard \cup {j} ELSE unheard
  BY <1>5 DEF Fund
<1> HIDE DEF landed
<1>7. DelegationTypeOK'
  BY <1>0, <1>1, <1>2, <1>3, <1>5, <1>6 DEF DelegationInv, DelegationTypeOK
<1>8. EscrowIsReserved'
  BY <1>2, <1>3, <1>6 DEF DelegationInv, EscrowIsReserved, InEscrowNow
<1>9. JobIsOpen(h)' /\ RoomIsKept(h)'
  BY <1>3, <1>5 DEF JobIsOpen, RoomIsKept
<1>10. ASSUME NEW k \in Hires, k # h PROVE JobIsOpen(k)' /\ RoomIsKept(k)'
  BY <1>5, <1>10 DEF JobIsOpen, RoomIsKept, AtTheHead, Resumes
<1>11. ~ReleaseDuringView => FundedWithinCeiling'
  <2> SUFFICES ASSUME ~ReleaseDuringView, unheard' = {} PROVE Spoken' <= DailyLimit
    BY DEF FundedWithinCeiling, Spoken
  <2>1. unheard = {} /\ FundedWithinCeiling /\ Spoken + hire[h].budget <= DailyLimit
    BY <1>1, <1>6 DEF DelegationInv, RoomIsKept
  <2>2. Budgets(InEscrowNow)' + HeldIn(j) = Budgets(InEscrowNow) + HeldIn(j)'
    BY <1>0, <1>2, <1>3, <1>7, EscrowMoves DEF DelegationInv
  <2>3. HeldIn(j) = 0 /\ HeldIn(j)' \in 0 .. hire[h].budget
    BY <1>0, <1>1, <1>2, <1>3 DEF HeldIn, InEscrowNow
  <2>4. Budgets(InEscrowNow) \in Nat
    BY BudgetsType DEF DelegationInv
  <2>6. Budgets(InEscrowNow)' \in Nat
    BY <1>7, BudgetsTypeNext
  <2>5. Budgets(InEscrowNow)' = Budgets(InEscrowNow) + HeldIn(j)'
    BY <2>2, <2>3, <2>4, <2>6
  <2> QED BY <1>0, <1>1, <2>1, <2>3, <2>4, <2>5 DEF Spoken
<1> QED BY <1>5, <1>7, <1>8, <1>9, <1>10, <1>11 DEF DelegationInv

-----------------------------------------------------------------------------
(* The chain's own steps leave the hires where they are.                     *)
LEMMA ChainKeeps ==
    ASSUME DelegationInv, UNCHANGED <<hire, turns, counted, inFlightJobs, unheard>>,
           NEW j \in Hires, owned[j].status # "open" \/ owned'[j] = owned[j],
           \A k \in Hires : k # j => owned'[k] = owned[k], InEscrowNow' \subseteq InEscrowNow,
           DelegationTypeOK', spentToday' + HeldIn(j)' <= spentToday + HeldIn(j),
           ~ReleaseDuringView /\ (\E h \in Hires : hire[h].stage = "settling") => spentToday' <= spentToday
    PROVE  DelegationInv'
PROOF
<1>1. OneAtATime' /\ EscrowIsReserved'
  BY DEF DelegationInv, OneAtATime, EscrowIsReserved
<1>2. Spoken' <= Spoken /\ Spoken \in Nat /\ Spoken' \in Nat
  BY EscrowShrinks DEF DelegationInv
<1>3. ReleaseDuringView \/ FundedWithinCeiling'
  BY <1>2, DelegationAssumption DEF DelegationInv, FundedWithinCeiling, Spoken
<1>4. ASSUME NEW h \in Hires PROVE JobIsOpen(h)' /\ (ReleaseDuringView \/ RoomIsKept(h)')
  <2>1. hire[h].budget \in Nat /\ DailyLimit \in Nat /\ counted \in Nat /\ spentToday \in Nat /\ spentToday' \in Nat
        /\ hire[h].job \in Hires
    BY DelegationAssumption DEF DelegationInv, DelegationTypeOK
  <2>2. JobIsOpen(h)'
    BY <2>1 DEF DelegationInv, JobIsOpen, Resumes
  <2>3. ReleaseDuringView \/ RoomIsKept(h)'
    BY <1>2, <2>1 DEF DelegationInv, RoomIsKept
  <2> QED BY <2>2, <2>3
<1> QED BY <1>1, <1>3, <1>4 DEF DelegationInv

(* What others do to a job, and the end of a day, only free room.            *)
LEMMA ChainStepsKeep ==
    ASSUME DelegationInv, NEW j \in Hires, AgentSubmits(j) \/ Released(j) \/ Refunded(j) \/ DayEnds
    PROVE  DelegationInv'
PROOF
<1>0. /\ owned \in [Hires -> [status : OwnedStatuses, budget : Nat]]
      /\ spentToday \in Nat /\ midnights \in Nat /\ DelegationTypeOK
  BY DEF DelegationInv, DelegationTypeOK
<1>1. UNCHANGED <<hire, turns, counted, inFlightJobs, unheard>>
  BY DEF AgentSubmits, Released, Refunded, DayEnds
<1>2. CASE DayEnds
  <2>1. owned' = owned /\ spentToday' = 0 /\ midnights' = midnights + 1
    BY <1>2 DEF DayEnds
  <2>2. DelegationTypeOK'
    BY <1>0, <1>1, <2>1 DEF DelegationTypeOK
  <2>3. HeldIn(j)' = HeldIn(j) /\ HeldIn(j) \in Nat /\ InEscrowNow' = InEscrowNow
    BY <1>0, <2>1 DEF HeldIn, InEscrowNow
  <2> QED BY <1>0, <1>1, <2>1, <2>2, <2>3, ChainKeeps
<1>3. CASE AgentSubmits(j) \/ Released(j) \/ Refunded(j)
  <2>1. PICK s \in {"submitted", "closed"} :
          /\ owned' = [owned EXCEPT ![j].status = s] /\ j \in InEscrowNow /\ midnights' = midnights
          /\ \/ spentToday' = spentToday
             \/ s = "closed" /\ MayMove /\ spentToday' = spentToday + owned[j].budget
    BY <1>3 DEF AgentSubmits, Released, Refunded, InEscrowNow
  <2>2. /\ owned' \in [Hires -> [status : OwnedStatuses, budget : Nat]]
        /\ \A k \in Hires : k # j => owned'[k] = owned[k]
        /\ owned'[j].status = s /\ owned'[j].budget = owned[j].budget
    BY <1>0, <2>1 DEF OwnedStatuses
  <2>3. spentToday' \in Nat /\ DelegationTypeOK'
    BY <1>0, <1>1, <2>1, <2>2 DEF DelegationTypeOK
  <2>4. InEscrowNow' \subseteq InEscrowNow /\ owned[j].status # "open"
    BY <2>1, <2>2 DEF InEscrowNow
  <2>5. spentToday' + HeldIn(j)' <= spentToday + HeldIn(j)
    BY <1>0, <2>1, <2>2 DEF HeldIn, InEscrowNow
  <2>6. ~ReleaseDuringView /\ (\E h \in Hires : hire[h].stage = "settling") => spentToday' <= spentToday
    <3> SUFFICES ASSUME ~ReleaseDuringView, NEW h \in Hires, hire[h].stage = "settling"
                 PROVE  ~MayMove
      BY <1>0, <2>1
    <3> QED BY DEF DelegationInv, OneAtATime, AtTheHead, MayMove, AtWork
  <2> QED BY <1>1, <2>2, <2>3, <2>4, <2>5, <2>6, ChainKeeps
<1> QED BY <1>2, <1>3

(* Every step of the host or the chain keeps the invariant.                  *)
LEMMA DelegationInvStep == DelegationInv /\ [DelegationNext]_delegationVars => DelegationInv'
PROOF
<1> SUFFICES ASSUME DelegationInv, [DelegationNext]_delegationVars PROVE DelegationInv'
  OBVIOUS
<1>1. CASE \E h, j \in Hires, b \in HireBudgets : AskToHire(h, b, j)
  BY <1>1, AskKeeps
<1>2. ASSUME NEW h \in Hires,
             \/ HireBegins(h) \/ ViewReadsCounter(h) \/ ViewDecides(h)
             \/ CreateJob(h) \/ SetBudget(h) \/ Fund(h) \/ DispatchEnds(h)
      PROVE  DelegationInv'
  BY <1>2, ViewKeeps, DecisionKeeps, CreateAndBudgetKeep, FundKeeps
<1>3. CASE \E j \in Hires : AgentSubmits(j) \/ Released(j) \/ Refunded(j)
  BY <1>3, ChainStepsKeep
<1>4. CASE DayEnds
  <2>1. CASE Hires = {}
    <3>1. DelegationTypeOK' /\ OneAtATime' /\ EscrowIsReserved' /\ InEscrowNow' = InEscrowNow
      BY <1>4, <2>1 DEF DayEnds, DelegationInv, DelegationTypeOK, OneAtATime, EscrowIsReserved, InEscrowNow
    <3>2. Budgets(InEscrowNow)' = Budgets(InEscrowNow) /\ Budgets(InEscrowNow) \in Nat
      BY <1>4, SameOwnedSameBudgets, BudgetsType DEF DayEnds, DelegationInv
    <3>3. spentToday' = 0 /\ spentToday \in Nat /\ unheard' = unheard /\ DailyLimit \in Nat
      BY <1>4, DelegationAssumption DEF DayEnds, DelegationInv, DelegationTypeOK
    <3>4. ReleaseDuringView \/ FundedWithinCeiling'
      BY <3>2, <3>3 DEF DelegationInv, FundedWithinCeiling
    <3> QED BY <2>1, <3>1, <3>4 DEF DelegationInv
  <2>2. CASE Hires # {}
    BY <1>4, <2>2, ChainStepsKeep
  <2> QED BY <2>1, <2>2
<1>5. CASE UNCHANGED delegationVars
  <2>1. UNCHANGED <<hire, turns, counted, inFlightJobs, unheard, owned, spentToday, midnights>>
    BY <1>5 DEF delegationVars
  <2>2. InEscrowNow' = InEscrowNow /\ Budgets(InEscrowNow)' = Budgets(InEscrowNow)
    BY <2>1, SameOwnedSameBudgets
  <2>3. DelegationTypeOK' /\ OneAtATime' /\ EscrowIsReserved' /\ (ReleaseDuringView \/ FundedWithinCeiling')
    BY <2>1, <2>2 DEF DelegationInv, DelegationTypeOK, OneAtATime, EscrowIsReserved, FundedWithinCeiling
  <2>4. ASSUME NEW h \in Hires PROVE JobIsOpen(h)' /\ (ReleaseDuringView \/ RoomIsKept(h)')
    BY <2>1, <2>2 DEF DelegationInv, JobIsOpen, Resumes, RoomIsKept, Spoken
  <2> QED BY <2>3, <2>4 DEF DelegationInv
<1> QED BY <1>1, <1>2, <1>3, <1>4, <1>5 DEF DelegationNext, HireStep

(* Whatever the wallet has in escrow and the host heard of is reserved, in    *)
(* every interleaving of the queue with the keepers.                          *)
THEOREM EscrowStaysReserved == DelegationSpec => []EscrowIsReserved
PROOF
<1>1. DelegationInv => EscrowIsReserved
  BY DEF DelegationInv
<1> QED BY <1>1, DelegationInvInit, DelegationInvStep, PTL DEF DelegationSpec

(* While no release falls between the two reads of a view, escrow and the     *)
(* day's releases stay within the ceiling together.                           *)
THEOREM AllowanceIsKept ==
    ASSUME ~ReleaseDuringView
    PROVE  DelegationSpec => []AllowanceHolds
PROOF
<1>1. DelegationInv => AllowanceHolds
  BY DEF DelegationInv, AllowanceHolds
<1> QED BY <1>1, DelegationInvInit, DelegationInvStep, PTL DEF DelegationSpec

-----------------------------------------------------------------------------
(* The policy duty (PolicyDuty).                                             *)
Categories == {"no", "bought", "unknown", "guessed"}
Terms == {"agreed", "sold", "split"}
DealStatuses == {"open", "funded", "submitted", "rejected", "completed"}
DealDisputes == {"no", "open", "decided"}
Proofs == [compliant : BOOLEAN, spent : Int, terms : Terms \cup {"none"}, made : Nat]
Deals == [status : DealStatuses, dispute : DealDisputes, terms : Terms,
          screening : {"none", "clean", "designated"}, proof : Proofs, paid : BOOLEAN]
DutyFacts == [status : DealStatuses, dispute : DealDisputes, terms : Terms, spent : Nat, now : Nat]
Attended == [job : DutyJobs, await : {"prove", "preview", "bind", "refuse", "reread", "payee", "send"},
             facts : DutyFacts, proof : Proofs, refusal : BOOLEAN]

DutyTypeOK ==
    /\ dTime \in Nat /\ daySpent \in Nat /\ deal \in [DutyJobs -> Deals]
    /\ tracked \in [DutyJobs -> Categories] /\ dutyFile \in [DutyJobs -> Categories]
    /\ scanned \in BOOLEAN /\ at \in {Nothing} \cup Attended

(* Who scanned the chain in this life holds every job in escrow.             *)
ScanIsKept == scanned => /\ dutyMode \in {"idle", "tick"}
                         /\ \A j \in DutyJobs : Escrowed(j) => tracked[j] # "no"

(* A compliant proof was made on a day that was not full.                    *)
Affordable(proof) == proof.compliant => proof.spent < CeilingUnits

(* The job in hand: what was bound is what the duty proved, and at the crank *)
(* it is current for the facts last read, unless it is a refusal.            *)
HandIsTrue ==
    at # Nothing =>
        /\ at.facts.now <= dTime /\ Affordable(at.proof)
        /\ at.await = "reread" => deal[at.job].proof = at.proof
        /\ at.await \in {"payee", "send"} => at.refusal \/ Current(deal[at.job].proof, at.facts)
        /\ at.await = "send" => deal[at.job].screening # "none"

DutyInv ==
    /\ DutyTypeOK /\ ScanIsKept /\ HandIsTrue
    /\ \A j \in DutyJobs : Affordable(deal[j].proof)

(* A duty just started satisfies the invariant.                              *)
LEMMA DutyInvInit == DutyInit => DutyInv
PROOF
<1> SUFFICES ASSUME DutyInit PROVE DutyInv
  OBVIOUS
<1> USE DEF DutyInit
<1>1. Unproved \in Proofs
  BY DEF Unproved, Proofs
<1>2. DutyTypeOK
  <2>1. deal \in [DutyJobs -> Deals]
    BY <1>1 DEF Deals, DealStatuses, DealDisputes, Terms
  <2> QED BY <2>1 DEF DutyTypeOK, Untracked, Categories
<1>3. \A j \in DutyJobs : Affordable(deal[j].proof)
  BY DEF Affordable, Unproved
<1> QED BY <1>2, <1>3 DEF DutyInv, ScanIsKept, HandIsTrue

(* The chain moves between two awaits and leaves the proofs alone.           *)
LEMMA ChainMovesOn ==
    ASSUME DutyInv, UNCHANGED memory, dTime' \in Nat, dTime <= dTime', daySpent' \in Nat,
           deal' \in [DutyJobs -> Deals],
           \A j \in DutyJobs : /\ deal'[j].proof = deal[j].proof
                               /\ deal'[j].screening = deal[j].screening
                               /\ Escrowed(j)' => Escrowed(j)
    PROVE  DutyInv'
PROOF
<1> USE DEF DutyInv, memory
<1>1. DutyTypeOK'
  BY DEF DutyTypeOK
<1>2. ScanIsKept'
  BY DEF ScanIsKept
<1>3. HandIsTrue'
  <2> SUFFICES ASSUME at # Nothing PROVE HandIsTrue'
    BY DEF HandIsTrue
  <2>1. at \in Attended /\ at.job \in DutyJobs /\ at.facts.now \in Nat
    BY DEF DutyTypeOK, Attended, DutyFacts
  <2> QED BY <2>1 DEF HandIsTrue, DutyTypeOK, Affordable, Current
<1> QED BY <1>1, <1>2, <1>3 DEF Affordable

(* A step of the tick: what is tracked stays so while it is in escrow.       *)
LEMMA DutyMovesOn ==
    ASSUME DutyInv, UNCHANGED <<dTime, dutyMode, scanned>>, daySpent' \in Nat,
           deal' \in [DutyJobs -> Deals], tracked' \in [DutyJobs -> Categories], dutyFile' \in [DutyJobs -> Categories],
           at' \in {Nothing} \cup Attended, HandIsTrue',
           \A j \in DutyJobs : /\ Affordable(deal'[j].proof)
                               /\ Escrowed(j)' => Escrowed(j) /\ (tracked[j] # "no" => tracked'[j] # "no")
    PROVE  DutyInv'
PROOF
<1>1. DutyTypeOK'
  BY DEF DutyInv, DutyTypeOK
<1>2. ScanIsKept'
  BY DEF DutyInv, ScanIsKept
<1> QED BY <1>1, <1>2 DEF DutyInv, Affordable

(* Untrack takes one job out of memory and file, and no other.               *)
LEMMA TracksOneLess ==
    ASSUME DutyTypeOK, NEW j \in DutyJobs, Untrack(j)
    PROVE  /\ tracked' \in [DutyJobs -> Categories] /\ dutyFile' \in [DutyJobs -> Categories]
           /\ \A k \in DutyJobs : k # j => tracked'[k] = tracked[k]
BY DEF DutyTypeOK, Untrack, Persist, Categories

(* Naming a category never untracks.                                         *)
LEMMA NamesCategory ==
    ASSUME DutyTypeOK, NEW j \in DutyJobs, NameCategory(j)
    PROVE  /\ tracked' \in [DutyJobs -> Categories] /\ dutyFile' \in [DutyJobs -> Categories]
           /\ \A k \in DutyJobs : tracked[k] # "no" => tracked'[k] # "no"
BY DEF DutyTypeOK, NameCategory, Persist, Keep, Categories

(* What the duty reads of a job is what the chain says at that moment.       *)
LEMMA FactsAreFacts ==
    ASSUME DutyTypeOK, NEW j \in DutyJobs
    PROVE  FactsOf(j) \in DutyFacts /\ FactsOf(j).now = dTime /\ deal[j] \in Deals
BY DEF DutyTypeOK, FactsOf, DutyFacts, Deals

(* A proof is of the facts it was made for.                                  *)
LEMMA ProofsAreProofs ==
    ASSUME NEW facts \in DutyFacts, NEW verdict \in BOOLEAN
    PROVE  /\ ProofFor(facts, verdict) \in Proofs
           /\ ProofFor(facts, verdict).compliant = verdict /\ ProofFor(facts, verdict).spent = facts.spent
BY DEF ProofFor, Proofs, DutyFacts

(* The absent proof has the shape of one and is not compliant.               *)
LEMMA UnprovedIsProof == Unproved \in Proofs /\ ~Unproved.compliant
BY DEF Unproved, Proofs

(* After GoOn the job is left, or its crank rests on a current proof.        *)
LEMMA GoesOnTruly ==
    ASSUME DutyInv, NEW j \in DutyJobs, NEW proof \in Proofs, NEW refusal \in BOOLEAN,
           GoOn(j, FactsOf(j), proof, refusal), UNCHANGED <<dTime, deal>>, deal[j].proof = proof
    PROVE  at' \in {Nothing} \cup Attended /\ HandIsTrue' /\ UNCHANGED <<dutyMode, scanned>>
PROOF
<1>0. FactsOf(j) \in DutyFacts /\ FactsOf(j).now = dTime /\ Unproved \in Proofs /\ ~Unproved.compliant /\ dTime \in Nat
  BY FactsAreFacts, UnprovedIsProof DEF DutyInv, DutyTypeOK
<1>1. CASE CrankIsDue(FactsOf(j), proof, refusal)
  <2>1. /\ at' = [job |-> j, await |-> "payee", facts |-> FactsOf(j), proof |-> Unproved, refusal |-> refusal]
        /\ UNCHANGED <<dutyMode, scanned>>
        /\ refusal \/ Current(proof, FactsOf(j))
    BY <1>1 DEF GoOn, CrankIsDue
  <2>2. at' \in Attended
    BY <1>0, <2>1 DEF Attended
  <2>3. HandIsTrue'
    BY <1>0, <2>1 DEF HandIsTrue, Affordable, Current
  <2> QED BY <2>1, <2>2, <2>3
<1>2. CASE ~CrankIsDue(FactsOf(j), proof, refusal)
  BY <1>2 DEF GoOn, LeaveJob, HandIsTrue
<1> QED BY <1>1, <1>2

(* Attending to a job keeps the invariant.                                   *)
LEMMA AttendKeeps ==
    ASSUME DutyInv, NEW j \in DutyJobs, Attend(j)
    PROVE  DutyInv'
PROOF
<1>0. /\ DutyTypeOK /\ FactsOf(j) \in DutyFacts /\ FactsOf(j).now = dTime /\ deal[j].proof \in Proofs
      /\ UNCHANGED <<dTime, daySpent, deal>> /\ \A k \in DutyJobs : Escrowed(k)' = Escrowed(k)
  BY FactsAreFacts DEF DutyInv, Attend, onChain, Deals, Escrowed
<1>1. CASE ~Escrowed(j) /\ LeaveJob(j) /\ Untrack(j)
  <2>1. at' = Nothing /\ HandIsTrue' /\ UNCHANGED <<dutyMode, scanned>>
    BY <1>1 DEF LeaveJob, HandIsTrue
  <2> QED BY <1>0, <1>1, <2>1, TracksOneLess, DutyMovesOn DEF DutyInv, DutyTypeOK
<1>2. CASE Escrowed(j) /\ ~ReleaseIsNear(FactsOf(j)) /\ LeaveJob(j) /\ Keep
  <2>1. at' = Nothing /\ HandIsTrue' /\ UNCHANGED <<dutyMode, scanned, tracked, dutyFile>>
    BY <1>2 DEF LeaveJob, HandIsTrue, Keep
  <2> QED BY <1>0, <2>1, DutyMovesOn DEF DutyInv, DutyTypeOK
<1>3. CASE Keep /\ Current(deal[j].proof, FactsOf(j)) /\ GoOn(j, FactsOf(j), deal[j].proof, FALSE)
  <2>1. at' \in {Nothing} \cup Attended /\ HandIsTrue' /\ UNCHANGED <<dutyMode, scanned>>
    BY <1>0, <1>3, GoesOnTruly
  <2> QED BY <1>0, <1>3, <2>1, DutyMovesOn DEF DutyInv, DutyTypeOK, Keep
<1>4. CASE /\ Keep /\ UNCHANGED <<dutyMode, scanned>>
           /\ at' = [job |-> j, await |-> "prove", facts |-> FactsOf(j), proof |-> Unproved, refusal |-> FALSE]
  <2>1. at' \in Attended
    BY <1>0, <1>4, UnprovedIsProof DEF Attended
  <2>2. HandIsTrue'
    BY <1>0, <1>4, UnprovedIsProof DEF HandIsTrue, Affordable, DutyTypeOK
  <2> QED BY <1>0, <1>4, <2>1, <2>2, DutyMovesOn DEF DutyInv, DutyTypeOK, Keep
<1> QED BY <1>1, <1>2, <1>3, <1>4 DEF Attend

(* The job in hand is one of the duty's.                                     *)
LEMMA InHandIsAttended ==
    ASSUME DutyInv, at # Nothing
    PROVE  /\ at \in Attended /\ at.job \in DutyJobs /\ at.facts \in DutyFacts /\ at.proof \in Proofs
           /\ at.refusal \in BOOLEAN /\ at.facts.now \in Nat /\ deal[at.job] \in Deals
BY DEF DutyInv, DutyTypeOK, Attended, DutyFacts

(* So does leaving it for a later tick.                                      *)
LEMMA LeaveKeeps ==
    ASSUME DutyInv, NEW j, LeaveJob(j), Keep, UNCHANGED <<dTime, daySpent, deal>>
    PROVE  DutyInv'
PROOF
<1>1. at' = Nothing /\ HandIsTrue' /\ UNCHANGED <<dutyMode, scanned, tracked, dutyFile>>
  BY DEF LeaveJob, HandIsTrue, Keep
<1> QED BY <1>1, DutyMovesOn DEF DutyInv, DutyTypeOK, Escrowed

(* So does proving the facts that were read.                                 *)
LEMMA ProveKeeps == DutyInv /\ Prove => DutyInv'
PROOF
<1> SUFFICES ASSUME DutyInv, Prove PROVE DutyInv'
  OBVIOUS
<1>0. /\ at \in Attended /\ at.job \in DutyJobs /\ at.facts \in DutyFacts /\ at # Nothing /\ at.await = "prove"
      /\ DutyTypeOK /\ UNCHANGED <<dTime, daySpent, deal>> /\ \A k \in DutyJobs : Escrowed(k)' = Escrowed(k)
      /\ at.facts.now <= dTime /\ Affordable(at.proof)
  BY InHandIsAttended DEF Prove, InHand, DutyInv, onChain, Escrowed, HandIsTrue
<1>1. CASE /\ ~DayIsFull(at.facts) /\ Keep /\ UNCHANGED <<dutyMode, scanned>>
           /\ at' = [at EXCEPT !.await = "preview", !.proof = ProofFor(at.facts, TRUE)]
  <2> DEFINE made == ProofFor(at.facts, TRUE)
  <2>1. made \in Proofs /\ Affordable(made)
    <3>1. made \in Proofs /\ made.spent = at.facts.spent
      BY <1>0, ProofsAreProofs
    <3>2. at.facts.spent < CeilingUnits
      BY <1>0, <1>1, DutyAssumption DEF DayIsFull, DutyFacts
    <3> QED BY <3>1, <3>2 DEF Affordable
  <2> HIDE DEF made
  <2>2. at' \in Attended
    BY <1>0, <1>1, <2>1 DEF Attended, made
  <2>3. at'.await = "preview" /\ at'.facts = at.facts /\ at'.proof = made
    BY <1>0, <1>1 DEF Attended, made
  <2>4. HandIsTrue'
    BY <1>0, <2>1, <2>3 DEF HandIsTrue, Affordable
  <2> QED BY <1>0, <1>1, <2>2, <2>4, DutyMovesOn DEF DutyInv, DutyTypeOK, Keep
<1>2. CASE Await("refuse") /\ NameCategory(at.job)
  <2>1. at' \in Attended /\ HandIsTrue' /\ UNCHANGED <<dutyMode, scanned>>
    BY <1>0, <1>2 DEF Await, Attended, HandIsTrue, Affordable
  <2> QED BY <1>0, <1>2, <2>1, NamesCategory, DutyMovesOn DEF DutyInv, DutyTypeOK
<1>3. CASE LeaveJob(at.job) /\ NameCategory(at.job)
  <2>1. at' = Nothing /\ HandIsTrue' /\ UNCHANGED <<dutyMode, scanned>>
    BY <1>3 DEF LeaveJob, HandIsTrue
  <2> QED BY <1>0, <1>3, <2>1, NamesCategory, DutyMovesOn DEF DutyInv, DutyTypeOK
<1> QED BY <1>1, <1>2, <1>3 DEF Prove

(* So does the preview of the hook's verdict.                                *)
LEMMA PreviewKeeps == DutyInv /\ Preview => DutyInv'
PROOF
<1> SUFFICES ASSUME DutyInv, Preview PROVE DutyInv'
  OBVIOUS
<1>0. /\ at \in Attended /\ at # Nothing /\ DutyTypeOK /\ at.facts.now <= dTime /\ Affordable(at.proof)
      /\ UNCHANGED <<dTime, daySpent, deal>> /\ Keep
  BY InHandIsAttended DEF Preview, InHand, DutyInv, onChain, HandIsTrue
<1>1. CASE Await("bind")
  <2>1. at' \in Attended /\ HandIsTrue' /\ UNCHANGED <<dutyMode, scanned>>
    BY <1>0, <1>1 DEF Await, Attended, HandIsTrue, Affordable
  <2> QED BY <1>0, <2>1, DutyMovesOn DEF DutyInv, DutyTypeOK, Keep, Escrowed
<1>2. CASE LeaveJob(at.job)
  BY <1>0, <1>2, LeaveKeeps
<1> QED BY <1>1, <1>2 DEF Preview

(* A proof is bound to the job in hand.                                      *)
LEMMA BindingKeeps ==
    ASSUME DutyInv, at # Nothing, NEW proof \in Proofs, Affordable(proof),
           deal' = [deal EXCEPT ![at.job].proof = proof]
    PROVE  /\ deal' \in [DutyJobs -> Deals] /\ deal'[at.job].proof = proof
           /\ \A j \in DutyJobs : Affordable(deal'[j].proof) /\ Escrowed(j)' = Escrowed(j)
PROOF
<1>1. deal \in [DutyJobs -> Deals] /\ at.job \in DutyJobs /\ \A j \in DutyJobs : Affordable(deal[j].proof)
  BY InHandIsAttended DEF DutyInv, DutyTypeOK
<1>2. \A j \in DutyJobs : /\ deal'[j] = IF j = at.job THEN [deal[j] EXCEPT !.proof = proof] ELSE deal[j]
                          /\ deal[j] \in Deals /\ [deal[j] EXCEPT !.proof = proof] \in Deals
  BY <1>1 DEF Deals
<1>3. deal' \in [DutyJobs -> Deals]
  BY <1>1, <1>2
<1> QED BY <1>1, <1>2, <1>3 DEF Deals, Escrowed

(* So does binding the proof on chain.                                       *)
LEMMA BindKeeps == DutyInv /\ Bind => DutyInv'
PROOF
<1> SUFFICES ASSUME DutyInv, Bind PROVE DutyInv'
  OBVIOUS
<1>0. /\ at \in Attended /\ at # Nothing /\ at.job \in DutyJobs /\ at.proof \in Proofs
      /\ DutyTypeOK /\ at.facts.now <= dTime /\ Affordable(at.proof) /\ UNCHANGED <<dTime, daySpent>>
  BY InHandIsAttended DEF Bind, InHand, DutyInv, HandIsTrue
<1>1. CASE deal' = [deal EXCEPT ![at.job].proof = at.proof] /\ Await("reread") /\ NameCategory(at.job)
  <2>1. /\ deal' \in [DutyJobs -> Deals] /\ deal'[at.job].proof = at.proof
        /\ \A j \in DutyJobs : Affordable(deal'[j].proof) /\ Escrowed(j)' = Escrowed(j)
    BY <1>0, <1>1, BindingKeeps
  <2>2. /\ at' \in Attended /\ at'.await = "reread" /\ at'.proof = at.proof /\ at'.job = at.job /\ at'.facts = at.facts
        /\ UNCHANGED <<dutyMode, scanned>>
    BY <1>0, <1>1 DEF Await, Attended
  <2>3. HandIsTrue'
    BY <1>0, <2>1, <2>2 DEF HandIsTrue, Affordable
  <2> QED BY <1>0, <1>1, <2>1, <2>2, <2>3, NamesCategory, DutyMovesOn DEF DutyTypeOK
<1>2. CASE UNCHANGED deal /\ LeaveJob(at.job) /\ Keep
  BY <1>0, <1>2, LeaveKeeps
<1> QED BY <1>1, <1>2 DEF Bind, SetProof

(* So does binding a refusal.                                                *)
LEMMA BindRefusalKeeps == DutyInv /\ BindRefusal => DutyInv'
PROOF
<1> SUFFICES ASSUME DutyInv, BindRefusal PROVE DutyInv'
  OBVIOUS
<1> DEFINE no == ProofFor(at.facts, FALSE)
<1>0. /\ at \in Attended /\ at # Nothing /\ at.job \in DutyJobs /\ no \in Proofs /\ ~no.compliant
      /\ DutyTypeOK /\ at.facts.now <= dTime /\ UNCHANGED <<dTime, daySpent>> /\ Keep
  BY InHandIsAttended, ProofsAreProofs DEF BindRefusal, InHand, DutyInv, HandIsTrue
<1> HIDE DEF no
<1>1. CASE /\ deal' = [deal EXCEPT ![at.job].proof = no] /\ UNCHANGED <<dutyMode, scanned>>
           /\ at' = [at EXCEPT !.await = "reread", !.proof = no, !.refusal = TRUE]
  <2>1. /\ deal' \in [DutyJobs -> Deals] /\ deal'[at.job].proof = no
        /\ \A j \in DutyJobs : Affordable(deal'[j].proof) /\ Escrowed(j)' = Escrowed(j)
    BY <1>0, <1>1, BindingKeeps DEF Affordable
  <2>2. at' \in Attended /\ at'.await = "reread" /\ at'.proof = no /\ at'.job = at.job /\ at'.facts = at.facts
    BY <1>0, <1>1 DEF Attended
  <2>3. HandIsTrue'
    BY <1>0, <2>1, <2>2 DEF HandIsTrue, Affordable
  <2> QED BY <1>0, <1>1, <2>1, <2>2, <2>3, DutyMovesOn DEF DutyTypeOK, Keep
<1>2. CASE UNCHANGED deal /\ LeaveJob(at.job)
  BY <1>0, <1>2, LeaveKeeps
<1> QED BY <1>1, <1>2 DEF BindRefusal, no

(* So does reading the job again after the binding.                          *)
LEMMA DutyRereadKeeps == DutyInv /\ DutyRereads => DutyInv'
PROOF
<1> SUFFICES ASSUME DutyInv, DutyRereads PROVE DutyInv'
  OBVIOUS
<1>0. /\ at # Nothing /\ at.job \in DutyJobs /\ at.proof \in Proofs /\ at.refusal \in BOOLEAN
      /\ deal[at.job].proof = at.proof /\ UNCHANGED <<dTime, daySpent, deal>> /\ Keep
      /\ GoOn(at.job, FactsOf(at.job), at.proof, at.refusal)
  BY InHandIsAttended DEF DutyRereads, InHand, DutyInv, HandIsTrue, onChain
<1>1. at' \in {Nothing} \cup Attended /\ HandIsTrue' /\ UNCHANGED <<dutyMode, scanned>>
  BY <1>0, GoesOnTruly
<1> QED BY <1>0, <1>1, DutyMovesOn DEF DutyInv, DutyTypeOK, Keep, Escrowed

(* So does the screening of the payee.                                       *)
LEMMA PayeeKeeps == DutyInv /\ PayeeCleared => DutyInv'
PROOF
<1> SUFFICES ASSUME DutyInv, PayeeCleared PROVE DutyInv'
  OBVIOUS
<1>0. /\ at \in Attended /\ at # Nothing /\ at.job \in DutyJobs /\ deal \in [DutyJobs -> Deals]
      /\ deal[at.job] \in Deals /\ DutyTypeOK /\ HandIsTrue /\ at.await = "payee"
      /\ UNCHANGED <<dTime, daySpent, tracked, dutyFile>> /\ Keep
      /\ \A j \in DutyJobs : Affordable(deal[j].proof)
  BY InHandIsAttended DEF PayeeCleared, InHand, DutyInv, DutyTypeOK, Keep
<1>1. CASE LeaveJob(at.job) /\ UNCHANGED deal
  BY <1>0, <1>1, LeaveKeeps
<1>2. CASE Await("send") /\ ((deal[at.job].screening # "none" /\ UNCHANGED deal) \/ Screened(at.job))
  <2>1. /\ deal' \in [DutyJobs -> Deals] /\ deal'[at.job].screening # "none"
        /\ \A j \in DutyJobs : deal'[j].proof = deal[j].proof /\ deal'[j].status = deal[j].status
    <3>1. CASE deal[at.job].screening # "none" /\ UNCHANGED deal
      BY <1>0, <3>1
    <3>2. CASE Screened(at.job)
      <4> DEFINE word == IF at.job \in Designated THEN "designated" ELSE "clean"
      <4>1. word \in {"clean", "designated"} /\ deal' = [deal EXCEPT ![at.job].screening = word]
        BY <3>2 DEF Screened
      <4> HIDE DEF word
      <4>2. \A j \in DutyJobs : /\ deal'[j] = IF j = at.job THEN [deal[j] EXCEPT !.screening = word] ELSE deal[j]
                                /\ deal[j] \in Deals /\ [deal[j] EXCEPT !.screening = word] \in Deals
        BY <1>0, <4>1 DEF Deals
      <4>3. deal' \in [DutyJobs -> Deals]
        BY <1>0, <4>1, <4>2
      <4> QED BY <1>0, <4>1, <4>2, <4>3 DEF Deals
    <3> QED BY <1>2, <3>1, <3>2
  <2>2. /\ at' \in Attended /\ at'.await = "send" /\ at'.proof = at.proof /\ at'.job = at.job /\ at'.facts = at.facts
        /\ at'.refusal = at.refusal /\ UNCHANGED <<dutyMode, scanned>>
    BY <1>0, <1>2 DEF Await, Attended
  <2>3. HandIsTrue'
    BY <1>0, <2>1, <2>2 DEF HandIsTrue, Affordable, Current
  <2> QED BY <1>0, <2>1, <2>2, <2>3, DutyMovesOn DEF DutyTypeOK, Affordable, Escrowed
<1> QED BY <1>1, <1>2 DEF PayeeCleared

(* A crank completes the job and leaves its proof.                           *)
LEMMA CrankMoves ==
    ASSUME DutyInv, NEW j \in DutyJobs, Crank(j)
    PROVE  /\ deal' \in [DutyJobs -> Deals] /\ daySpent' \in Nat /\ dTime' = dTime
           /\ deal'[j].status = "completed" /\ deal'[j].paid = (Verified(j) /\ deal[j].screening = "clean")
           /\ \A k \in DutyJobs : /\ deal'[k].proof = deal[k].proof /\ deal'[k].screening = deal[k].screening
                                  /\ k # j => deal'[k] = deal[k]
PROOF
<1> DEFINE pays == Verified(j) /\ deal[j].screening = "clean"
<1>0. deal \in [DutyJobs -> Deals] /\ daySpent \in Nat /\ deal[j] \in Deals
  BY DEF DutyInv, DutyTypeOK
<1>1. deal' = [deal EXCEPT ![j].status = "completed", ![j].paid = pays] /\ pays \in BOOLEAN
  BY DEF Crank
<1>2. daySpent' \in Nat /\ dTime' = dTime
  BY <1>0 DEF Crank
<1> HIDE DEF pays
<1>3. \A k \in DutyJobs :
        /\ deal'[k] = IF k = j THEN [deal[k] EXCEPT !.status = "completed", !.paid = pays] ELSE deal[k]
        /\ deal[k] \in Deals /\ [deal[k] EXCEPT !.status = "completed", !.paid = pays] \in Deals
  BY <1>0, <1>1 DEF Deals, DealStatuses
<1>4. deal' \in [DutyJobs -> Deals]
  BY <1>0, <1>1, <1>3
<1>5. deal'[j].status = "completed" /\ deal'[j].paid = pays
  BY <1>0, <1>3 DEF Deals
<1>6. \A k \in DutyJobs : deal'[k].proof = deal[k].proof /\ deal'[k].screening = deal[k].screening
  BY <1>3 DEF Deals
<1> QED BY <1>2, <1>3, <1>4, <1>5, <1>6 DEF pays

(* So does sending the crank.                                                *)
LEMMA DutySendKeeps == DutyInv /\ DutySends => DutyInv'
PROOF
<1> SUFFICES ASSUME DutyInv, DutySends PROVE DutyInv'
  OBVIOUS
<1>0. /\ at # Nothing /\ at.job \in DutyJobs /\ at' = Nothing /\ HandIsTrue' /\ UNCHANGED <<dutyMode, scanned>>
      /\ DutyTypeOK /\ LeaveJob(at.job) /\ \A j \in DutyJobs : Affordable(deal[j].proof)
  BY InHandIsAttended DEF DutySends, InHand, LeaveJob, HandIsTrue, DutyInv
<1>1. CASE Crank(at.job) /\ Untrack(at.job)
  <2>1. /\ deal' \in [DutyJobs -> Deals] /\ daySpent' \in Nat /\ dTime' = dTime
        /\ deal'[at.job].status = "completed"
        /\ \A k \in DutyJobs : deal'[k].proof = deal[k].proof /\ (k # at.job => deal'[k] = deal[k])
    BY <1>0, <1>1, CrankMoves
  <2> QED BY <1>0, <1>1, <2>1, TracksOneLess, DutyMovesOn DEF Affordable, Escrowed
<1>2. CASE ~Escrowed(at.job) /\ UNCHANGED onChain /\ Untrack(at.job)
  BY <1>0, <1>2, TracksOneLess, DutyMovesOn DEF onChain, Escrowed, DutyTypeOK
<1>3. CASE UNCHANGED onChain /\ Keep
  BY <1>0, <1>3, LeaveKeeps DEF onChain
<1> QED BY <1>1, <1>2, <1>3 DEF DutySends

(* So does any await that throws.                                            *)
LEMMA ThrowKeeps == DutyInv /\ Throws => DutyInv'
PROOF
<1> SUFFICES ASSUME DutyInv, Throws PROVE DutyInv'
  OBVIOUS
<1> DEFINE no == ProofFor(at.facts, FALSE)
<1>0. /\ at # Nothing /\ at.job \in DutyJobs /\ LeaveJob(at.job) /\ Keep /\ UNCHANGED <<dTime, daySpent>>
      /\ at.proof \in Proofs /\ Affordable(at.proof) /\ no \in Proofs /\ ~no.compliant
  BY InHandIsAttended, ProofsAreProofs DEF Throws, DutyInv, HandIsTrue
<1> HIDE DEF no
<1>1. CASE UNCHANGED deal
  BY <1>0, <1>1, LeaveKeeps
<1>2. ASSUME NEW proof \in {at.proof, no}, deal' = [deal EXCEPT ![at.job].proof = proof]
      PROVE  DutyInv'
  <2>1. proof \in Proofs /\ Affordable(proof)
    BY <1>0, <1>2 DEF Affordable
  <2>2. /\ deal' \in [DutyJobs -> Deals]
        /\ \A j \in DutyJobs : Affordable(deal'[j].proof) /\ Escrowed(j)' = Escrowed(j)
    BY <1>0, <1>2, <2>1, BindingKeeps
  <2>3. at' = Nothing /\ HandIsTrue' /\ UNCHANGED <<dutyMode, scanned, tracked, dutyFile>>
    BY <1>0 DEF LeaveJob, HandIsTrue, Keep
  <2> QED BY <1>0, <2>2, <2>3, DutyMovesOn DEF DutyInv, DutyTypeOK
<1> QED BY <1>1, <1>2 DEF Throws, no

(* Every step of the duty or the chain keeps the invariant.                  *)
LEMMA DutyInvStep == DutyInv /\ [DutyNext]_dutyVars => DutyInv'
PROOF
<1> SUFFICES ASSUME DutyInv, [DutyNext]_dutyVars PROVE DutyInv'
  OBVIOUS
<1>0. DutyTypeOK /\ deal \in [DutyJobs -> Deals] /\ dTime \in Nat /\ daySpent \in Nat
  BY DEF DutyInv, DutyTypeOK
<1>1. CASE DutyClock
  <2>1. dTime' \in Nat /\ dTime <= dTime' /\ daySpent' \in Nat
    BY <1>0, <1>1 DEF DutyClock
  <2> QED BY <1>0, <1>1, <2>1, ChainMovesOn DEF DutyClock, Escrowed
<1>2. CASE DutyCrash
  <2>1. DutyTypeOK'
    BY <1>0, <1>2 DEF DutyCrash, onChain, DutyTypeOK, Untracked, Categories
  <2> QED BY <1>2, <2>1 DEF DutyCrash, onChain, DutyInv, ScanIsKept, HandIsTrue, Affordable
<1>3. CASE RecoverFile
  <2>1. DutyTypeOK' /\ ~scanned /\ UNCHANGED scanned
    BY <1>0, <1>3 DEF RecoverFile, onChain, DutyTypeOK, DutyInv, ScanIsKept
  <2>2. HandIsTrue'
    BY <1>3 DEF RecoverFile, onChain, DutyInv, HandIsTrue, Affordable, Current
  <2> QED BY <1>3, <2>1, <2>2 DEF RecoverFile, onChain, DutyInv, ScanIsKept, Affordable
<1>4. CASE Discover
  <2>1. /\ UNCHANGED <<dTime, daySpent, deal, todo, at>> /\ dutyMode' = "idle"
        /\ tracked' \in [DutyJobs -> Categories] /\ dutyFile' \in [DutyJobs -> Categories]
    <3>1. \A found : [j \in DutyJobs |-> IF j \in found THEN "unknown" ELSE tracked[j]] \in [DutyJobs -> Categories]
      BY <1>0 DEF DutyTypeOK, Categories
    <3>2. [j \in DutyJobs |-> IF Discovered(j) THEN "unknown" ELSE tracked[j]] \in [DutyJobs -> Categories]
      BY <1>0 DEF DutyTypeOK, Categories
    <3> QED BY <1>0, <1>4, <3>1, <3>2 DEF Discover, onChain, Persist, DutyTypeOK
  <2>2. scanned' = TRUE => \A j \in DutyJobs : Escrowed(j) => tracked'[j] # "no"
    BY <1>4 DEF Discover, Discovered, DutyInv, ScanIsKept
  <2>3. scanned' \in BOOLEAN
    BY <1>0, <1>4 DEF Discover, DutyTypeOK
  <2>4. HandIsTrue'
    BY <2>1 DEF DutyInv, HandIsTrue, Affordable, Current
  <2> QED BY <1>0, <2>1, <2>2, <2>3, <2>4 DEF DutyInv, DutyTypeOK, ScanIsKept, Affordable, Escrowed
<1>5. CASE DutyTickStarts \/ DutyTickEnds
  <2>1. /\ UNCHANGED <<dTime, daySpent, deal, tracked, dutyFile, scanned, at>> /\ dutyMode' \in {"idle", "tick"}
    BY <1>5 DEF DutyTickStarts, DutyTickEnds, onChain
  <2> QED BY <2>1 DEF DutyInv, DutyTypeOK, ScanIsKept, HandIsTrue, Affordable, Current, Escrowed
<1>6. CASE \E j \in DutyJobs : Attend(j)
  BY <1>6, AttendKeeps
<1>7. CASE Prove \/ Preview \/ Bind \/ BindRefusal \/ DutyRereads \/ PayeeCleared \/ DutySends \/ Throws
  BY <1>7, ProveKeeps, PreviewKeeps, BindKeeps, BindRefusalKeeps, DutyRereadKeeps, PayeeKeeps,
     DutySendKeeps, ThrowKeeps
<1>8. ASSUME NEW j \in DutyJobs, ProviderSubmits(j) \/ ClaimSold(j) \/ DisputeOpens(j) \/ PanelDecides(j)
      PROVE  DutyInv'
  <2>1. UNCHANGED <<dTime, daySpent>> /\ UNCHANGED memory
    BY <1>8 DEF ProviderSubmits, ClaimSold, DisputeOpens, PanelDecides, OthersDo
  <2>2. PICK d \in Deals : /\ deal' = [deal EXCEPT ![j] = d] /\ d.proof = deal[j].proof /\ d.screening = deal[j].screening
                           /\ d.status \in {"funded", "submitted"} => Escrowed(j)
    <3>1. deal[j] \in Deals
      BY <1>0
    <3>2. CASE ProviderSubmits(j)
      <4>1. deal' = [deal EXCEPT ![j] = [deal[j] EXCEPT !.status = "submitted"]] /\ Escrowed(j)
        BY <3>2 DEF ProviderSubmits, Escrowed
      <4> QED BY <3>1, <4>1 DEF Deals, DealStatuses
    <3>3. CASE ClaimSold(j)
      <4>1. deal' = [deal EXCEPT ![j] = [deal[j] EXCEPT !.terms = "sold"]] /\ Escrowed(j)
        BY <3>3 DEF ClaimSold, Escrowed
      <4> QED BY <3>1, <4>1 DEF Deals, Terms
    <3>4. CASE DisputeOpens(j)
      <4>1. deal' = [deal EXCEPT ![j] = [deal[j] EXCEPT !.dispute = "open"]] /\ Escrowed(j)
        BY <3>4 DEF DisputeOpens, Escrowed
      <4> QED BY <3>1, <4>1 DEF Deals, DealDisputes
    <3>5. CASE PanelDecides(j)
      <4>1. /\ Escrowed(j)
            /\ \/ deal' = [deal EXCEPT ![j] = [deal[j] EXCEPT !.dispute = "decided", !.terms = "split"]]
               \/ deal' = [deal EXCEPT ![j] = [deal[j] EXCEPT !.status = "rejected"]]
        BY <3>5 DEF PanelDecides, Escrowed
      <4> QED BY <3>1, <4>1 DEF Deals, DealDisputes, DealStatuses, Terms
    <3> QED BY <1>8, <3>2, <3>3, <3>4, <3>5
  <2> QED BY <1>0, <2>1, <2>2, ChainMovesOn DEF Escrowed
<1>9. ASSUME NEW j \in DutyJobs, OthersCrank(j) PROVE DutyInv'
  <2>1. /\ deal' \in [DutyJobs -> Deals] /\ daySpent' \in Nat /\ dTime' = dTime
        /\ deal'[j].status = "completed"
        /\ \A k \in DutyJobs : /\ deal'[k].proof = deal[k].proof /\ deal'[k].screening = deal[k].screening
                               /\ k # j => deal'[k] = deal[k]
    BY <1>9, CrankMoves DEF OthersCrank
  <2> QED BY <1>0, <1>9, <2>1, ChainMovesOn DEF OthersCrank, Escrowed
<1>10. ASSUME NEW j \in DutyJobs, HireFunds(j) PROVE DutyInv'
  <2>1. /\ deal' = [deal EXCEPT ![j] = [deal[j] EXCEPT !.status = "funded"]] /\ deal[j] \in Deals
        /\ UNCHANGED <<dTime, daySpent, dutyMode, scanned, todo, at>>
    BY <1>0, <1>10 DEF HireFunds
  <2>2. /\ deal' \in [DutyJobs -> Deals]
        /\ \A k \in DutyJobs : /\ deal'[k].proof = deal[k].proof /\ deal'[k].screening = deal[k].screening
                               /\ k # j => deal'[k] = deal[k]
    <3>1. [deal[j] EXCEPT !.status = "funded"] \in Deals
      BY <2>1 DEF Deals, DealStatuses
    <3> QED BY <1>0, <2>1, <3>1 DEF Deals
  <2>3. /\ tracked' \in [DutyJobs -> Categories] /\ dutyFile' \in [DutyJobs -> Categories]
        /\ scanned => tracked'[j] # "no"
        /\ \A k \in DutyJobs : k # j => tracked'[k] = tracked[k]
    BY <1>0, <1>10 DEF HireFunds, Persist, DutyTypeOK, Categories, DutyInv, ScanIsKept
  <2>4. DutyTypeOK'
    BY <1>0, <2>1, <2>2, <2>3 DEF DutyTypeOK
  <2>5. ScanIsKept'
    BY <2>1, <2>2, <2>3 DEF DutyInv, ScanIsKept, Escrowed
  <2>6. HandIsTrue'
    <3> SUFFICES ASSUME at # Nothing PROVE HandIsTrue'
      BY <2>1 DEF HandIsTrue
    <3>1. at.job \in DutyJobs /\ HandIsTrue
      BY InHandIsAttended DEF DutyInv
    <3> QED BY <2>1, <2>2, <3>1 DEF HandIsTrue, Affordable, Current
  <2> QED BY <2>2, <2>4, <2>5, <2>6 DEF DutyInv, Affordable
<1>11. CASE UNCHANGED dutyVars
  <2>1. UNCHANGED <<dTime, daySpent, deal>> /\ UNCHANGED memory
    BY <1>11 DEF dutyVars, onChain
  <2> QED BY <1>0, <2>1, ChainMovesOn DEF Escrowed
<1> QED BY <1>1, <1>2, <1>3, <1>4, <1>5, <1>6, <1>7, <1>8, <1>9, <1>10, <1>11 DEF DutyNext, DutyStep

(* Once the scan of a life went through, every job of the wallet that is     *)
(* in escrow is tracked, for any number of jobs, crashes and failures (the   *)
(* policy duty's restart, square#348).                                       *)
THEOREM DutyForgetsNothing == DutySpec => []NothingIsForgotten
PROOF
<1>1. DutyInv => NothingIsForgotten
  BY DEF DutyInv, ScanIsKept, NothingIsForgotten
<1> QED BY <1>1, DutyInvInit, DutyInvStep, PTL DEF DutySpec

(* The crank of the job in hand, on facts that still hold.                   *)
LEMMA CrankOfHandPays ==
    ASSUME DutyInv, InHand("send"), Crank(at.job), ~at.refusal, deal[at.job].screening # "designated",
           daySpent = at.facts.spent, deal[at.job].terms = at.facts.terms,
           dTime - at.facts.now <= Tolerance - RefreshAfter
    PROVE  deal'[at.job].paid
PROOF
<1>0. /\ at # Nothing /\ at.job \in DutyJobs /\ at.facts \in DutyFacts /\ deal[at.job] \in Deals
      /\ at.facts.now \in Nat /\ dTime \in Nat /\ at.facts.now <= dTime /\ daySpent \in Nat
      /\ Current(deal[at.job].proof, at.facts) /\ Affordable(deal[at.job].proof)
      /\ deal[at.job].screening # "none" /\ deal[at.job].proof \in Proofs
  BY InHandIsAttended DEF InHand, DutyInv, DutyTypeOK, HandIsTrue, Deals
<1>1. deal[at.job].screening = "clean"
  BY <1>0 DEF Deals
<1>2. RefreshAfter \in Int /\ Tolerance \in Nat /\ CeilingUnits \in Nat
  BY DutyAssumption DEF RefreshAfter
<1>3. ModuleTakes(deal[at.job].proof)
  BY <1>0, <1>2 DEF ModuleTakes, Current, Affordable, Distance, Proofs, DutyFacts
<1>4. Verified(at.job)
  BY <1>0, <1>3 DEF Verified, Current
<1>5. deal'[at.job].paid = (Verified(at.job) /\ deal[at.job].screening = "clean")
  BY <1>0, CrankMoves
<1> QED BY <1>1, <1>4, <1>5

(* The duty's own crank pays the provider, unless the refusal was bound on   *)
(* purpose, the payee is designated, or what the proof names moved, or       *)
(* aged past the tolerance, after the duty last read it.                     *)
THEOREM DutyCranksPay == DutySpec => OwnCrankPays
PROOF
<1> DEFINE Pays ==
      InHand("send") /\ at' = Nothing /\ deal[at.job].status = "submitted" /\ deal'[at.job].status = "completed" =>
          \/ deal'[at.job].paid
          \/ at.refusal \/ deal[at.job].screening = "designated"
          \/ daySpent # at.facts.spent \/ deal[at.job].terms # at.facts.terms
          \/ dTime - at.facts.now > Tolerance - RefreshAfter
<1>1. DutyInv /\ [DutyNext]_dutyVars => [Pays]_dutyVars
  <2> SUFFICES ASSUME DutyInv, DutyNext, InHand("send"), at' = Nothing,
                      deal[at.job].status = "submitted", deal'[at.job].status = "completed",
                      ~at.refusal, deal[at.job].screening # "designated",
                      daySpent = at.facts.spent, deal[at.job].terms = at.facts.terms,
                      ~(dTime - at.facts.now > Tolerance - RefreshAfter)
               PROVE  deal'[at.job].paid
    OBVIOUS
  <2>0. at # Nothing /\ at.await = "send" /\ deal' # deal
    BY DEF InHand
  <2>1. DutySends
    BY <2>0 DEF DutyNext, DutyStep, DutyClock, DutyCrash, Throws, RecoverFile, Discover,
       DutyTickStarts, DutyTickEnds,
         Attend, Prove, Preview, Bind, BindRefusal, DutyRereads, PayeeCleared, InHand, onChain, memory, LeaveJob,
         ProviderSubmits, ClaimSold, DisputeOpens, PanelDecides, OthersCrank, HireFunds, OthersDo
  <2>2. Crank(at.job)
    BY <2>0, <2>1 DEF DutySends, onChain
  <2>3. dTime - at.facts.now <= Tolerance - RefreshAfter
    <3>1. dTime \in Nat /\ at.facts.now \in Nat
      BY <2>0, InHandIsAttended DEF DutyInv, DutyTypeOK
    <3>2. RefreshAfter \in Int /\ Tolerance \in Nat
      BY DutyAssumption DEF RefreshAfter
    <3> QED BY <3>1, <3>2
  <2> QED BY <2>2, <2>3, CrankOfHandPays
<1>2. DutySpec => []DutyInv
  BY DutyInvInit, DutyInvStep, PTL DEF DutySpec
<1> QED BY <1>1, <1>2, PTL DEF DutySpec, OwnCrankPays

-----------------------------------------------------------------------------
(* Screening (Screening).                                                    *)
Asking == {"asked", "answered", "heard"}
ScreenRequestOK ==
    [at : {"new", "refused", "sent", "recorded", "failed"} \cup Asking, of : SUBSET ScreenSubjects,
     since : Nat, flagged : SUBSET ScreenSubjects, sound : BOOLEAN, basis : Nat, wall : Int, stamp : Nat,
     recorded : SUBSET ScreenSubjects]
ScreenTypeOK ==
    /\ screenTime \in Nat /\ clockDrift \in Int /\ designated \in SUBSET ScreenSubjects
    /\ listSound \in BOOLEAN /\ isScreener \in BOOLEAN /\ worldTurns \in Nat
    /\ requests \in [ScreenRequests -> ScreenRequestOK]
    /\ records \in [ScreenSubjects -> [stamp : Int, sanctioned : BOOLEAN, sound : BOOLEAN, basis : Int]]
    /\ signedOut \in SUBSET [subject : ScreenSubjects, sanctioned : BOOLEAN, stamp : Nat, sound : BOOLEAN, basis : Nat]

(* How much older than its stamp the list behind a screening may be.         *)
Lag == 2 * AwaitLimit + Larger(0, clockDrift - SkewMargin)

AskedOf(q) ==
    /\ q.at \in Asking => q.since <= screenTime /\ screenTime - q.since <= AwaitLimit
    /\ q.at = "answered" => q.since <= q.basis /\ q.basis <= screenTime
    /\ q.at = "heard" => /\ q.sound /\ q.basis <= q.since /\ q.since - q.basis <= AwaitLimit
                         /\ q.wall = q.since + clockDrift
    /\ q.at \in {"sent", "recorded", "failed"} => q.sound /\ q.stamp - q.basis <= Lag
    /\ q.at # "recorded" => q.recorded = {}
FreshEnough(x) == x.sound /\ x.stamp - x.basis <= Lag
HeldRecord(h) == h.stamp <= screenTime /\ (h # NoRecordHeld => FreshEnough(h))
ToldIsKept == \A r \in ScreenRequests : \A s \in requests[r].recorded : records[s].stamp >= requests[r].stamp

(* What every state satisfies: the awaits of a request are short, what was   *)
(* signed is not much younger than the list it rests on, and so is what is   *)
(* recorded.                                                                 *)
ScreeningInv ==
    /\ ScreenTypeOK
    /\ \A r \in ScreenRequests : AskedOf(requests[r])
    /\ \A s \in ScreenSubjects : HeldRecord(records[s])
    /\ \A x \in signedOut : FreshEnough(x)
    /\ ToldIsKept

(* An empty registry satisfies the invariant.                                *)
LEMMA ScreeningInvInit == ScreeningInit => ScreeningInv
PROOF
<1> SUFFICES ASSUME ScreeningInit PROVE ScreeningInv
  OBVIOUS
<1> USE ScreeningAssumption DEF ScreeningInit, Request0, NoRecordHeld, Asking
<1>1. ScreenTypeOK
  BY DEF ScreenTypeOK, ScreenRequestOK
<1>2. \A r \in ScreenRequests : AskedOf(requests[r])
  BY DEF AskedOf
<1>3. ASSUME NEW s \in ScreenSubjects PROVE HeldRecord(records[s])
  <2>1. records[s] = NoRecordHeld /\ NoRecordHeld.stamp = -1 /\ screenTime = 0
    OBVIOUS
  <2> QED BY <2>1 DEF HeldRecord
<1>4. ToldIsKept
  BY DEF ToldIsKept
<1> QED BY <1>1, <1>2, <1>3, <1>4 DEF ScreeningInv

(* One request moves on, and its answer was not told yet.                    *)
LEMMA ScreenRequestMoves ==
    ASSUME ScreeningInv, NEW r \in ScreenRequests, NEW st \in ScreenRequestOK, ScreeningMoves(r, st),
           AskedOf(st), st.recorded = {}, UNCHANGED <<records, signedOut>>
    PROVE  ScreeningInv'
PROOF
<1> USE DEF ScreeningInv, ScreeningMoves, worldVars
<1>1. ScreenTypeOK'
  BY DEF ScreenTypeOK
<1>2. \A q \in ScreenRequests : requests'[q] = IF q = r THEN st ELSE requests[q]
  BY DEF ScreenTypeOK
<1>3. \A q \in ScreenRequests : AskedOf(requests[q])'
  BY <1>2 DEF AskedOf, Lag, Larger
<1>4. \A s \in ScreenSubjects : HeldRecord(records[s])'
  BY DEF HeldRecord, FreshEnough, Lag, Larger
<1>5. \A x \in signedOut' : FreshEnough(x)'
  BY DEF FreshEnough, Lag, Larger
<1>6. ToldIsKept'
  BY <1>2 DEF ToldIsKept
<1> QED BY <1>1, <1>3, <1>4, <1>5, <1>6

(* Every step of the screener, the registry or the world keeps it.           *)
LEMMA ScreeningInvStep == ScreeningInv /\ [ScreeningNext]_screenVars => ScreeningInv'
PROOF
<1> SUFFICES ASSUME ScreeningInv, [ScreeningNext]_screenVars PROVE ScreeningInv'
  OBVIOUS
<1>0. /\ {MaxAge, AwaitLimit, SkewMargin, ScreenMaxTime, MaxScreenChanges} \subseteq Nat
      /\ ScreenTypeOK
      /\ \A r \in ScreenRequests : requests[r] \in ScreenRequestOK /\ AskedOf(requests[r])
  BY ScreeningAssumption DEF ScreeningInv, ScreenTypeOK
<1>1. CASE ScreenClock
  <2> USE <1>1 DEF ScreenClock
  <2>1. ScreenTypeOK'
    BY <1>0 DEF ScreenTypeOK
  <2>2. ASSUME NEW r \in ScreenRequests PROVE AskedOf(requests[r])'
    BY <1>0 DEF AskedOf, Overdue, Asking, ScreenTypeOK, ScreenRequestOK, Lag, Larger
  <2>3. \A s \in ScreenSubjects : HeldRecord(records[s])'
    BY <1>0 DEF ScreeningInv, ScreenTypeOK, HeldRecord, FreshEnough, Lag, Larger
  <2>4. \A x \in signedOut' : FreshEnough(x)'
    BY DEF ScreeningInv, FreshEnough, Lag, Larger
  <2>5. ToldIsKept'
    BY DEF ScreeningInv, ToldIsKept
  <2> QED BY <2>1, <2>2, <2>3, <2>4, <2>5 DEF ScreeningInv
<1>2. CASE WorldChanges
  <2>1. /\ designated' \in SUBSET ScreenSubjects /\ worldTurns' \in Nat
        /\ UNCHANGED <<screenTime, clockDrift, requests, records, signedOut>>
    BY <1>0, <1>2 DEF WorldChanges, ScreenTypeOK
  <2>2. listSound' \in BOOLEAN /\ isScreener' \in BOOLEAN
    BY <1>0, <1>2, Zenon DEF WorldChanges, ScreenTypeOK
  <2>3. ScreenTypeOK'
    BY <1>0, <2>1, <2>2 DEF ScreenTypeOK
  <2> QED BY <2>1, <2>3 DEF ScreeningInv, AskedOf, HeldRecord, FreshEnough, ToldIsKept, Lag, Larger
<1>3. ASSUME NEW r \in ScreenRequests, NEW subjects \in SUBSET ScreenSubjects, StartScreening(r, subjects)
      PROVE  ScreeningInv'
  <2> DEFINE st == [requests[r] EXCEPT !.at = "asked", !.of = subjects, !.since = screenTime]
  <2>1. st \in ScreenRequestOK
    BY <1>0 DEF ScreenRequestOK, Asking, ScreenTypeOK
  <2>2. AskedOf(st) /\ st.recorded = {}
    BY <1>0, <1>3 DEF StartScreening, ScreenRequestOK, AskedOf, Asking, ScreenTypeOK
  <2> QED BY <1>3, <2>1, <2>2, ScreenRequestMoves DEF StartScreening
<1>4. ASSUME NEW r \in ScreenRequests, SourceAnswers(r) PROVE ScreeningInv'
  <2> DEFINE st == [requests[r] EXCEPT !.at = "answered", !.basis = screenTime, !.sound = listSound,
                                       !.flagged = IF listSound THEN designated \cap requests[r].of ELSE {}]
  <2>1. st \in ScreenRequestOK
    BY <1>0 DEF ScreenRequestOK, Asking, ScreenTypeOK
  <2>2. AskedOf(st) /\ st.recorded = {}
    BY <1>0, <1>4 DEF SourceAnswers, ScreenRequestOK, AskedOf, Asking, ScreenTypeOK
  <2> QED BY <1>4, <2>1, <2>2, ScreenRequestMoves DEF SourceAnswers
<1>5. ASSUME NEW r \in ScreenRequests, Hear(r) PROVE ScreeningInv'
  <2> DEFINE heard == [requests[r] EXCEPT !.at = "heard", !.since = screenTime, !.wall = screenTime + clockDrift]
             refused == [requests[r] EXCEPT !.at = "refused"]
  <2>1. heard \in ScreenRequestOK
    <3>1. screenTime + clockDrift \in Int /\ screenTime \in Nat
      BY <1>0 DEF ScreenTypeOK
    <3> QED BY <1>0, <3>1 DEF ScreenRequestOK, Asking
  <2>3. refused \in ScreenRequestOK
    BY <1>0 DEF ScreenRequestOK, Asking
  <2>2. /\ CanaryFlagged(r) => AskedOf(heard)
        /\ AskedOf(refused) /\ heard.recorded = {} /\ refused.recorded = {}
    BY <1>0, <1>5 DEF Hear, CanaryFlagged, ScreenRequestOK, AskedOf, Asking, ScreenTypeOK
  <2> QED BY <1>5, <2>1, <2>2, <2>3, ScreenRequestMoves DEF Hear
<1>6. ASSUME NEW r \in ScreenRequests, SourceFails(r) PROVE ScreeningInv'
  <2> DEFINE st == [requests[r] EXCEPT !.at = "refused"]
  <2>1. st \in ScreenRequestOK /\ AskedOf(st) /\ st.recorded = {}
    BY <1>0, <1>6 DEF SourceFails, ScreenRequestOK, AskedOf, Asking, ScreenTypeOK
  <2> QED BY <1>6, <2>1, ScreenRequestMoves DEF SourceFails
<1>7. ASSUME NEW r \in ScreenRequests, StampAndSend(r) PROVE ScreeningInv'
  <2> DEFINE st == [requests[r] EXCEPT !.at = "sent", !.stamp = Larger(screenTime, requests[r].wall - SkewMargin)]
             new == {Signed(r, s)' : s \in requests[r].of}
  <2>1. st \in ScreenRequestOK
    <3>1. Larger(screenTime, requests[r].wall - SkewMargin) \in Nat
      BY <1>0 DEF ScreenRequestOK, ScreenTypeOK, Larger
    <3> QED BY <1>0, <3>1 DEF ScreenRequestOK, Asking
  <2>2. st.stamp - st.basis <= Lag /\ st.sound /\ st.recorded = {} /\ st.at = "sent"
    BY <1>0, <1>7 DEF StampAndSend, ScreenRequestOK, AskedOf, Asking, ScreenTypeOK, Lag, Larger
  <2>3. \A q \in ScreenRequests : requests'[q] = IF q = r THEN st ELSE requests[q]
    BY <1>0, <1>7 DEF StampAndSend, ScreeningMoves, ScreenTypeOK
  <2>4. /\ UNCHANGED <<screenTime, clockDrift, designated, listSound, isScreener, worldTurns, records>>
        /\ signedOut' = signedOut \cup new
    BY <1>7 DEF StampAndSend, ScreeningMoves, worldVars
  <2>5. \A x \in new : /\ x \in [subject : ScreenSubjects, sanctioned : BOOLEAN, stamp : Nat, sound : BOOLEAN, basis : Nat]
                       /\ x.stamp = st.stamp /\ x.sound = st.sound /\ x.basis = st.basis
    <3>1. ASSUME NEW s \in requests[r].of
          PROVE  LET x == Signed(r, s)'
                 IN  /\ x \in [subject : ScreenSubjects, sanctioned : BOOLEAN, stamp : Nat, sound : BOOLEAN, basis : Nat]
                     /\ x.stamp = st.stamp /\ x.sound = st.sound /\ x.basis = st.basis
      <4>1. s \in ScreenSubjects
        BY <1>0 DEF ScreenRequestOK
      <4> HIDE DEF st
      <4> QED BY <2>1, <2>3, <4>1 DEF Signed, ScreenRequestOK
    <3> QED BY <3>1
  <2>6. ScreenTypeOK'
    <3>1. requests' = [requests EXCEPT ![r] = st]
      BY <1>7 DEF StampAndSend, ScreeningMoves
    <3> HIDE DEF st, new
    <3> QED BY <1>0, <2>1, <2>4, <2>5, <3>1 DEF ScreenTypeOK
  <2> HIDE DEF st, new
  <2>7. \A q \in ScreenRequests : AskedOf(requests[q])'
    BY <1>0, <2>2, <2>3, <2>4 DEF AskedOf, Asking, Lag, Larger
  <2>8. \A s \in ScreenSubjects : HeldRecord(records[s])'
    BY <2>4 DEF ScreeningInv, HeldRecord, FreshEnough, Lag, Larger
  <2>9. \A x \in signedOut' : FreshEnough(x)'
    BY <2>2, <2>4, <2>5 DEF ScreeningInv, FreshEnough, Lag, Larger
  <2>10. ToldIsKept'
    BY <2>2, <2>3, <2>4 DEF ScreeningInv, ToldIsKept
  <2> QED BY <2>6, <2>7, <2>8, <2>9, <2>10 DEF ScreeningInv
<1>8. ASSUME NEW r \in ScreenRequests, SubmitMany(r) PROVE ScreeningInv'
  <2> DEFINE takes == {s \in requests[r].of : Newer(Signed(r, s))}
             failed == [requests[r] EXCEPT !.at = "failed"]
             recorded == [requests[r] EXCEPT !.at = "recorded", !.recorded = takes]
  <2>1. /\ requests[r].at = "sent" /\ requests[r].sound /\ requests[r].stamp - requests[r].basis <= Lag
        /\ requests[r].recorded = {}
    BY <1>0, <1>8 DEF SubmitMany, AskedOf
  <2>2. /\ failed \in ScreenRequestOK /\ recorded \in ScreenRequestOK
        /\ failed.recorded = {} /\ AskedOf(failed) /\ AskedOf(recorded) /\ recorded.stamp = requests[r].stamp
        /\ recorded.recorded = takes
    BY <1>0, <2>1 DEF ScreenRequestOK, Asking, AskedOf
  <2>3. CASE ~Acceptable(requests[r].stamp)
    BY <1>8, <2>2, <2>3, ScreenRequestMoves DEF SubmitMany
  <2>4. CASE Acceptable(requests[r].stamp)
    <3>1. /\ records' = [s \in ScreenSubjects |-> IF s \in takes THEN HeldOf(Signed(r, s)) ELSE records[s]]
          /\ ScreeningMoves(r, recorded) \/ ScreeningMoves(r, failed)
          /\ UNCHANGED <<screenTime, clockDrift, designated, listSound, isScreener, worldTurns, signedOut>>
      BY <1>8, <2>4 DEF SubmitMany, ScreeningMoves, worldVars
    <3>2. \A s \in takes : /\ s \in ScreenSubjects
                           /\ HeldOf(Signed(r, s)) \in [stamp : Int, sanctioned : BOOLEAN, sound : BOOLEAN, basis : Int]
                           /\ HeldOf(Signed(r, s)).stamp = requests[r].stamp
                           /\ HeldOf(Signed(r, s)).sound = requests[r].sound
                           /\ HeldOf(Signed(r, s)).basis = requests[r].basis
                           /\ records[s].stamp < requests[r].stamp
      BY <1>0 DEF HeldOf, Signed, Newer, ScreenRequestOK, ScreenTypeOK
    <3>3. PICK st \in {recorded, failed} : ScreeningMoves(r, st)
      BY <3>1
    <3>4. /\ requests' = [requests EXCEPT ![r] = st]
          /\ \A q \in ScreenRequests : requests'[q] = IF q = r THEN st ELSE requests[q]
      BY <1>0, <3>3 DEF ScreeningMoves, ScreenTypeOK
    <3>a. failed.stamp = requests[r].stamp
      BY <1>0 DEF ScreenRequestOK
    <3> HIDE DEF recorded, failed, takes
    <3>5. st \in ScreenRequestOK /\ AskedOf(st) /\ st.stamp = requests[r].stamp /\ st.recorded \subseteq takes
      BY <2>2, <3>3, <3>a
    <3>6. ScreenTypeOK'
      BY <1>0, <3>1, <3>2, <3>4, <3>5 DEF ScreenTypeOK
    <3>7. \A q \in ScreenRequests : AskedOf(requests[q])'
      BY <1>0, <3>1, <3>4, <3>5 DEF AskedOf, Lag, Larger
    <3>8. \A s \in ScreenSubjects : records'[s].stamp >= records[s].stamp
      BY <1>0, <3>1, <3>2 DEF ScreenTypeOK, ScreenRequestOK
    <3>9. \A s \in ScreenSubjects : HeldRecord(records[s])'
      BY <1>0, <2>1, <2>4, <3>1, <3>2 DEF ScreeningInv, HeldRecord, FreshEnough, Acceptable, Lag, Larger
    <3>10. \A x \in signedOut' : FreshEnough(x)'
      BY <3>1 DEF ScreeningInv, FreshEnough, Lag, Larger
    <3>11. ToldIsKept'
      <4>1. \A s \in takes : records'[s].stamp = requests[r].stamp
        BY <3>1, <3>2
      <4> QED BY <1>0, <3>4, <3>5, <3>6, <3>8, <4>1 DEF ScreeningInv, ToldIsKept, ScreenTypeOK, ScreenRequestOK
    <3> QED BY <3>6, <3>7, <3>9, <3>10, <3>11 DEF ScreeningInv
  <2> QED BY <2>3, <2>4
<1>9. ASSUME NEW x \in signedOut, OthersSubmit(x) PROVE ScreeningInv'
  <2> USE <1>9 DEF OthersSubmit, worldVars
  <2>1. /\ x \in [subject : ScreenSubjects, sanctioned : BOOLEAN, stamp : Nat, sound : BOOLEAN, basis : Nat]
        /\ FreshEnough(x)
    BY <1>0 DEF ScreeningInv, ScreenTypeOK
  <2>2. \A s \in ScreenSubjects : records'[s] = IF s = x.subject THEN HeldOf(x) ELSE records[s]
    BY <1>0 DEF ScreenTypeOK
  <2>3. ScreenTypeOK'
    BY <1>0, <2>1 DEF ScreenTypeOK, HeldOf
  <2>4. \A q \in ScreenRequests : AskedOf(requests[q])'
    BY <1>0 DEF AskedOf, Lag, Larger
  <2>5. \A s \in ScreenSubjects : records'[s].stamp >= records[s].stamp
    BY <1>0, <2>1, <2>2 DEF ScreenTypeOK, Newer, HeldOf
  <2>6. \A s \in ScreenSubjects : HeldRecord(records[s])'
    BY <1>0, <2>1, <2>2 DEF ScreeningInv, HeldRecord, FreshEnough, Acceptable, HeldOf, Lag, Larger
  <2>7. \A y \in signedOut' : FreshEnough(y)'
    BY DEF ScreeningInv, FreshEnough, Lag, Larger
  <2>8. ToldIsKept'
    BY <1>0, <2>3, <2>5 DEF ScreeningInv, ToldIsKept, ScreenTypeOK, ScreenRequestOK
  <2> QED BY <2>3, <2>4, <2>6, <2>7, <2>8 DEF ScreeningInv
<1>10. CASE UNCHANGED screenVars
  BY <1>10 DEF screenVars, ScreeningInv, ScreenTypeOK, AskedOf, HeldRecord, FreshEnough, ToldIsKept, Lag, Larger
<1> QED BY <1>1, <1>2, <1>3, <1>4, <1>5, <1>6, <1>7, <1>8, <1>9, <1>10 DEF ScreeningNext

(* The invariant is stronger than what is promised.                          *)
LEMMA ScreeningInvImplies == ScreeningInv => ScreeningHolds
PROOF
<1> SUFFICES ASSUME ScreeningInv PROVE ScreeningHolds
  OBVIOUS
<1>1. ASSUME NEW s \in ScreenSubjects
      PROVE  /\ records[s].stamp <= screenTime
             /\ IsCleared(s) => /\ records[s].sound
                                /\ screenTime - records[s].basis
                                     <= MaxAge + 2 * AwaitLimit + Larger(0, clockDrift - SkewMargin)
  BY ScreeningAssumption DEF ScreeningInv, ScreenTypeOK, HeldRecord, FreshEnough, IsCleared, Lag, Larger
<1> QED BY <1>1 DEF ScreeningHolds, ScreeningInv, ToldIsKept

(* A subject the registry clears was clean on a list that flags the canary   *)
(* within maxAge, two awaits and what the screener's clock runs ahead; and   *)
(* no record told is replaced by an older screening.                         *)
THEOREM ClearedWasClean == ScreeningSpec => []ScreeningHolds
PROOF
<1>1. ScreeningSpec => []ScreeningInv
  BY ScreeningInvInit, ScreeningInvStep, PTL DEF ScreeningSpec
<1> QED BY <1>1, ScreeningInvImplies, PTL

-----------------------------------------------------------------------------
(* The tool pool (ToolPool).                                                 *)
Clients == [server : ToolServers, state : {"opening", "open", "shut"}, attempt : {"pending", "resolved", "rejected"}]

ConnectionTypes ==
    /\ clients \in Seq(Clients) /\ poolLive \in [ToolServers -> Nat]
    /\ \A i \in DOMAIN clients : clients[i].state = "opening" <=> clients[i].attempt = "pending"
OneEach ==
    \A i, k \in DOMAIN clients :
        i # k /\ clients[i].server = clients[k].server => clients[i].state = "shut" \/ clients[k].state = "shut"
LiveIsOpen ==
    /\ \A i \in DOMAIN clients : clients[i].state = "open" <=> poolLive[clients[i].server] = i
    /\ \A s \in ToolServers : poolLive[s] # 0 =>
          /\ poolLive[s] \in DOMAIN clients /\ clients[poolLive[s]].server = s
          /\ poolLive[s] \in poolIdle /\ poolPhase # "closed"
ClientsHold == ConnectionTypes /\ OneEach /\ LiveIsOpen

(* The cache holds a key once, and no more than it may.                      *)
CacheHolds ==
    /\ remembered \in Seq(ToolServers) /\ Len(remembered) <= MaxEntries
    /\ \A m, n \in DOMAIN remembered : remembered[m] = remembered[n] => m = n

(* A call waits for, and runs over, a client that was made.                  *)
CallsHaveClients ==
    /\ toolCall \in [ToolCalls -> [at : {"new", "waiting", "calling", "answered", "done"}, conn : Nat]]
    /\ \A c \in ToolCalls :
          toolCall[c].at \in {"waiting", "calling", "answered"} => toolCall[c].conn \in DOMAIN clients

PoolInv == ClientsHold /\ CacheHolds /\ CallsHaveClients

(* The invariant is stronger than what is promised.                          *)
LEMMA PoolInvHolds == PoolInv => PoolHolds
BY DEF PoolInv, ClientsHold, OneEach, LiveIsOpen, CacheHolds, PoolHolds, ServerOf

(* An empty pool satisfies the invariant.                                    *)
LEMMA PoolInvInit == PoolInit => PoolInv
PROOF
<1> SUFFICES ASSUME PoolInit PROVE PoolInv
  OBVIOUS
<1>1. <<>> \in Seq(Clients) /\ <<>> \in Seq(ToolServers) /\ Len(<<>>) = 0
  BY EmptySeq
<1>2. ClientsHold
  BY <1>1 DEF PoolInit, ClientsHold, ConnectionTypes, OneEach, LiveIsOpen
<1>3. CacheHolds
  BY <1>1, PoolAssumption DEF PoolInit, CacheHolds
<1>4. CallsHaveClients
  BY DEF PoolInit, CallsHaveClients
<1> QED BY <1>2, <1>3, <1>4 DEF PoolInv

(* The connections are a sequence, and each has a server.                    *)
LEMMA ClientsAre ==
    ASSUME ConnectionTypes
    PROVE  /\ Len(clients) \in Nat /\ DOMAIN clients = 1 .. Len(clients)
           /\ \A i \in DOMAIN clients : clients[i] \in Clients /\ clients[i].server \in ToolServers /\ i # 0
PROOF
<1>1. clients \in Seq(Clients)
  BY DEF ConnectionTypes
<1>2. Len(clients) \in Nat /\ DOMAIN clients = 1 .. Len(clients)
  BY <1>1, LenProperties
<1>3. \A i \in 1 .. Len(clients) : clients[i] \in Clients
  BY <1>1, ElementOfSeq
<1> QED BY <1>2, <1>3 DEF Clients

-----------------------------------------------------------------------------
(* Clients are shut, and the live ones among them forgotten.                 *)
LEMMA ShuttingKeeps ==
    ASSUME ClientsHold, NEW K,
           clients' \in Seq(Clients), Len(clients') = Len(clients),
           \A i \in DOMAIN clients : i \notin K => clients'[i] = clients[i],
           \A i \in DOMAIN clients : i \in K =>
               /\ clients'[i].server = clients[i].server /\ clients'[i].state = "shut"
               /\ clients'[i].attempt # "pending",
           poolLive' \in [ToolServers -> Nat],
           \A s \in ToolServers : poolLive'[s] = IF poolLive[s] \in K THEN 0 ELSE poolLive[s],
           \A s \in ToolServers : poolLive'[s] # 0 => poolLive'[s] \in poolIdle' /\ poolPhase' # "closed"
    PROVE  ClientsHold' /\ DOMAIN clients' = DOMAIN clients
PROOF
<1>1. ConnectionTypes /\ OneEach /\ LiveIsOpen
  BY DEF ClientsHold
<1>2. /\ DOMAIN clients = 1 .. Len(clients) /\ Len(clients) \in Nat
      /\ \A i \in DOMAIN clients : clients[i].server \in ToolServers /\ i # 0
  BY <1>1, ClientsAre
<1>3. DOMAIN clients' = 1 .. Len(clients')
  BY LenProperties
<1>4. DOMAIN clients' = DOMAIN clients
  BY <1>2, <1>3
<1>5. \A i \in DOMAIN clients : clients'[i].server = clients[i].server
  OBVIOUS
<1>6. ConnectionTypes'
  BY <1>1, <1>4 DEF ConnectionTypes
<1>7. OneEach'
  BY <1>1, <1>4, <1>5 DEF OneEach
<1>8. ASSUME NEW i \in DOMAIN clients
      PROVE  clients'[i].state = "open" <=> poolLive'[clients'[i].server] = i
  <2>1. CASE i \in K
    BY <1>1, <1>2, <1>5, <2>1 DEF LiveIsOpen
  <2>2. CASE i \notin K
    BY <1>1, <1>2, <1>5, <2>2 DEF LiveIsOpen
  <2> QED BY <2>1, <2>2
<1>9. ASSUME NEW s \in ToolServers, poolLive'[s] # 0
      PROVE  /\ poolLive'[s] \in DOMAIN clients' /\ clients'[poolLive'[s]].server = s
             /\ poolLive'[s] \in poolIdle' /\ poolPhase' # "closed"
  BY <1>1, <1>4, <1>5, <1>9 DEF LiveIsOpen
<1>10. LiveIsOpen'
  BY <1>4, <1>8, <1>9 DEF LiveIsOpen
<1> QED BY <1>4, <1>6, <1>7, <1>10 DEF ClientsHold

(* Shutting one connection leaves the others alone.                          *)
LEMMA ClientShut ==
    ASSUME ConnectionTypes, NEW i \in DOMAIN clients, NEW attempt \in {"resolved", "rejected"}
    PROVE  LET shut == [clients EXCEPT ![i].state = "shut", ![i].attempt = attempt]
           IN  /\ shut \in Seq(Clients) /\ Len(shut) = Len(clients)
               /\ \A k \in DOMAIN clients : k # i => shut[k] = clients[k]
               /\ shut[i].server = clients[i].server /\ shut[i].state = "shut" /\ shut[i].attempt = attempt
PROOF
<1> DEFINE new == [clients[i] EXCEPT !.state = "shut", !.attempt = attempt]
<1>1. DOMAIN clients = 1 .. Len(clients) /\ clients[i] \in Clients /\ clients \in Seq(Clients)
  BY ClientsAre DEF ConnectionTypes
<1>2. new \in Clients /\ new.server = clients[i].server /\ new.state = "shut" /\ new.attempt = attempt
  BY <1>1 DEF Clients
<1>3. [clients EXCEPT ![i].state = "shut", ![i].attempt = attempt] = [clients EXCEPT ![i] = new]
  OBVIOUS
<1> HIDE DEF new
<1>4. /\ [clients EXCEPT ![i] = new] \in Seq(Clients) /\ Len([clients EXCEPT ![i] = new]) = Len(clients)
      /\ \A k \in 1 .. Len(clients) : [clients EXCEPT ![i] = new][k] = IF k = i THEN new ELSE clients[k]
  BY <1>1, <1>2, ExceptSeq
<1> QED BY <1>1, <1>2, <1>3, <1>4

(* drop(): the live client of a server, if it has one.                       *)
LEMMA ShutIs ==
    ASSUME ClientsHold, NEW s \in ToolServers
    PROVE  /\ Shut(s) \in Seq(Clients) /\ Len(Shut(s)) = Len(clients)
           /\ \A k \in DOMAIN clients : k # poolLive[s] => Shut(s)[k] = clients[k]
           /\ \A k \in DOMAIN clients : k = poolLive[s] =>
                 /\ Shut(s)[k].server = clients[k].server /\ Shut(s)[k].state = "shut"
                 /\ Shut(s)[k].attempt # "pending"
PROOF
<1>1. ConnectionTypes /\ LiveIsOpen
  BY DEF ClientsHold
<1>2. CASE poolLive[s] = 0
  BY <1>1, <1>2, ClientsAre DEF Shut, ConnectionTypes
<1>3. CASE poolLive[s] # 0
  <2> DEFINE i == poolLive[s]
             new == [clients[i] EXCEPT !.state = "shut"]
  <2>1. /\ i \in DOMAIN clients /\ DOMAIN clients = 1 .. Len(clients) /\ clients[i] \in Clients
        /\ clients \in Seq(Clients) /\ clients[i].server = s
    BY <1>1, <1>3, ClientsAre DEF LiveIsOpen, ConnectionTypes
  <2>2. clients[i].attempt # "pending"
    BY <1>1, <2>1 DEF LiveIsOpen, ConnectionTypes
  <2>3. new \in Clients /\ new.server = clients[i].server /\ new.state = "shut" /\ new.attempt = clients[i].attempt
    BY <2>1 DEF Clients
  <2>4. Shut(s) = [clients EXCEPT ![i] = new]
    BY <1>3 DEF Shut
  <2> HIDE DEF new, i
  <2>5. /\ [clients EXCEPT ![i] = new] \in Seq(Clients) /\ Len([clients EXCEPT ![i] = new]) = Len(clients)
        /\ \A k \in 1 .. Len(clients) : [clients EXCEPT ![i] = new][k] = IF k = i THEN new ELSE clients[k]
    BY <2>1, <2>3, ExceptSeq
  <2> QED BY <2>1, <2>2, <2>3, <2>4, <2>5 DEF i
<1> QED BY <1>2, <1>3

(* Dropping a server's live connection keeps the connections sound.          *)
LEMMA DropKeeps ==
    ASSUME ClientsHold, NEW s \in ToolServers, Drop(s), UNCHANGED poolPhase,
           \A k \in poolIdle : k # poolLive[s] /\ (k \in DOMAIN clients => clients[k].server # s) => k \in poolIdle'
    PROVE  ClientsHold' /\ DOMAIN clients' = DOMAIN clients
PROOF
<1>1. ConnectionTypes /\ LiveIsOpen
  BY DEF ClientsHold
<1>2. /\ clients' \in Seq(Clients) /\ Len(clients') = Len(clients)
      /\ \A k \in DOMAIN clients : k \notin {poolLive[s]} => clients'[k] = clients[k]
      /\ \A k \in DOMAIN clients : k \in {poolLive[s]} =>
            /\ clients'[k].server = clients[k].server /\ clients'[k].state = "shut"
            /\ clients'[k].attempt # "pending"
  BY ShutIs DEF Drop
<1>3. poolLive' \in [ToolServers -> Nat] /\ poolLive'[s] = 0 /\ \A q \in ToolServers \ {s} : poolLive'[q] = poolLive[q]
  BY <1>1 DEF Drop, ConnectionTypes
<1>4. ASSUME NEW q \in ToolServers
      PROVE  poolLive'[q] = IF poolLive[q] \in {poolLive[s]} THEN 0 ELSE poolLive[q]
  <2>1. CASE q = s
    BY <1>3, <2>1
  <2>2. CASE q # s
    BY <1>1, <1>3, <2>2 DEF LiveIsOpen
  <2> QED BY <2>1, <2>2
<1>5. ASSUME NEW q \in ToolServers, poolLive'[q] # 0 PROVE poolLive'[q] \in poolIdle' /\ poolPhase' # "closed"
  BY <1>1, <1>3, <1>5 DEF LiveIsOpen
<1> QED BY <1>2, <1>3, <1>4, <1>5, ShuttingKeeps

(* connect(): what it joins was made, or is the one it makes.                *)
LEMMA ConnectKeeps ==
    ASSUME ClientsHold, NEW s \in ToolServers, NEW refresh, Connect(s, refresh), UNCHANGED poolPhase
    PROVE  /\ ClientsHold' /\ DOMAIN clients \subseteq DOMAIN clients' /\ Joins(s, refresh) \in DOMAIN clients'
           /\ Joins(s, refresh) \in Nat
PROOF
<1>1. ConnectionTypes /\ LiveIsOpen /\ OneEach
  BY DEF ClientsHold
<1>2. /\ DOMAIN clients = 1 .. Len(clients) /\ Len(clients) \in Nat
      /\ \A i \in DOMAIN clients : clients[i] \in Clients /\ clients[i].server \in ToolServers /\ i # 0
  BY <1>1, ClientsAre
<1>3. CASE Joins(s, refresh) \in DOMAIN clients
  <2>1. UNCHANGED <<clients, poolLive, poolIdle>>
    BY <1>3 DEF Connect, connectionVars
  <2>2. ClientsHold'
    BY <1>1, <2>1 DEF ClientsHold, ConnectionTypes, OneEach, LiveIsOpen
  <2> QED BY <1>2, <1>3, <2>1, <2>2
<1>4. CASE Joins(s, refresh) \notin DOMAIN clients
  <2> DEFINE new == [server |-> s, state |-> "opening", attempt |-> "pending"]
             n == Len(clients) + 1
  <2>1. clients' = Append(Shut(s), new) /\ poolLive' = [poolLive EXCEPT ![s] = 0] /\ poolIdle' = poolIdle \ {poolLive[s]}
    BY <1>4 DEF Connect
  <2>2. Connecting(s) = {} /\ Joins(s, refresh) = n
    <3>1. poolLive[s] # 0 => poolLive[s] \in DOMAIN clients
      BY <1>1 DEF LiveIsOpen
    <3>2. Connecting(s) # {} => (CHOOSE i \in Connecting(s) : TRUE) \in DOMAIN clients
      BY DEF Connecting
    <3>3. ~(poolLive[s] # 0 /\ ~refresh)
      BY <1>4, <3>1 DEF Joins
    <3>4. ~((poolLive[s] = 0 \/ refresh) /\ Connecting(s) # {})
      BY <1>4, <3>2, <3>3 DEF Joins
    <3> QED BY <3>3, <3>4 DEF Joins
  <2>3. new \in Clients /\ new.server = s /\ new.state = "opening" /\ new.attempt = "pending"
    BY DEF Clients
  <2> HIDE DEF new
  <2>4. /\ Shut(s) \in Seq(Clients) /\ Len(Shut(s)) = Len(clients)
        /\ \A k \in DOMAIN clients : k # poolLive[s] => Shut(s)[k] = clients[k]
        /\ \A k \in DOMAIN clients : k = poolLive[s] =>
              /\ Shut(s)[k].server = clients[k].server /\ Shut(s)[k].state = "shut"
              /\ Shut(s)[k].attempt # "pending"
    BY ShutIs
  <2>5. /\ clients' \in Seq(Clients) /\ Len(clients') = n /\ clients'[n] = new
        /\ \A k \in DOMAIN clients : clients'[k] = Shut(s)[k]
    BY <1>2, <2>1, <2>3, <2>4, AppendProperties
  <2>6. DOMAIN clients' = DOMAIN clients \cup {n} /\ n \notin DOMAIN clients /\ n # 0 /\ n \in Nat
    <3>1. DOMAIN clients' = 1 .. n
      BY <2>5, LenProperties
    <3> QED BY <1>2, <3>1
  <2> HIDE DEF n
  <2>7. /\ poolLive' \in [ToolServers -> Nat] /\ poolLive'[s] = 0
        /\ \A q \in ToolServers \ {s} : poolLive'[q] = poolLive[q]
    BY <1>1, <2>1 DEF ConnectionTypes
  <2>8. \A k \in DOMAIN clients : clients'[k].server = clients[k].server
    BY <2>4, <2>5
  <2>9. ASSUME NEW k \in DOMAIN clients, clients[k].server = s PROVE clients'[k].state = "shut"
    <3>1. clients[k].attempt # "pending"
      BY <2>2, <2>9 DEF Connecting, AttemptOver, ServerOf
    <3>2. clients[k].state \in {"open", "shut"}
      BY <1>1, <1>2, <3>1 DEF ConnectionTypes, Clients
    <3>3. clients[k].state = "open" => k = poolLive[s]
      BY <1>1, <2>9 DEF LiveIsOpen
    <3> QED BY <2>4, <2>5, <3>2, <3>3
  <2>10. ASSUME NEW k \in DOMAIN clients, clients[k].server # s PROVE clients'[k] = clients[k]
    <3>1. k # poolLive[s]
      BY <1>1, <1>2, <2>10 DEF LiveIsOpen
    <3> QED BY <2>4, <2>5, <3>1
  <2>11. ConnectionTypes'
    <3>1. ASSUME NEW k \in DOMAIN clients PROVE clients'[k].state = "opening" <=> clients'[k].attempt = "pending"
      BY <1>1, <2>4, <2>5 DEF ConnectionTypes
    <3> QED BY <2>3, <2>5, <2>6, <2>7, <3>1 DEF ConnectionTypes
  <2>12. OneEach'
    <3>1. ASSUME NEW i \in DOMAIN clients', NEW k \in DOMAIN clients', i # k, clients'[i].server = clients'[k].server
          PROVE  clients'[i].state = "shut" \/ clients'[k].state = "shut"
      <4>1. CASE clients'[i].server = s
        BY <2>5, <2>6, <2>8, <2>9, <3>1, <4>1
      <4>2. CASE clients'[i].server # s
        BY <1>1, <2>3, <2>5, <2>6, <2>8, <2>10, <3>1, <4>2 DEF OneEach
      <4> QED BY <4>1, <4>2
    <3> QED BY <3>1 DEF OneEach
  <2>13. LiveIsOpen'
    <3>1. ASSUME NEW i \in DOMAIN clients' PROVE clients'[i].state = "open" <=> poolLive'[clients'[i].server] = i
      <4>1. CASE clients'[i].server = s
        BY <1>2, <2>3, <2>5, <2>6, <2>7, <2>8, <2>9, <4>1
      <4>2. CASE clients'[i].server # s
        <5>1. i \in DOMAIN clients /\ clients[i].server # s /\ clients[i].server \in ToolServers
          BY <1>2, <2>3, <2>5, <2>6, <2>8, <4>2
        <5> QED BY <1>1, <2>7, <2>10, <5>1 DEF LiveIsOpen
      <4> QED BY <4>1, <4>2
    <3>2. ASSUME NEW q \in ToolServers, poolLive'[q] # 0
          PROVE  /\ poolLive'[q] \in DOMAIN clients' /\ clients'[poolLive'[q]].server = q
                 /\ poolLive'[q] \in poolIdle' /\ poolPhase' # "closed"
      <4>1. q # s /\ poolLive'[q] = poolLive[q]
        BY <2>7, <3>2
      <4>2. /\ poolLive[q] \in DOMAIN clients /\ clients[poolLive[q]].server = q
            /\ poolLive[q] \in poolIdle /\ poolPhase # "closed"
        BY <1>1, <3>2, <4>1 DEF LiveIsOpen
      <4>3. poolLive[q] # poolLive[s]
        BY <1>1, <3>2, <4>1, <4>2 DEF LiveIsOpen
      <4> QED BY <2>1, <2>6, <2>8, <4>1, <4>2, <4>3
    <3> QED BY <3>1, <3>2 DEF LiveIsOpen
  <2> QED BY <2>2, <2>6, <2>11, <2>12, <2>13 DEF ClientsHold
<1> QED BY <1>3, <1>4

(* connect()'s attempt ends: admitted, or shut.                              *)
LEMMA NeverLiveKeeps ==
    ASSUME ClientsHold, NEW i \in DOMAIN clients, clients[i].state = "opening",
           clients' \in Seq(Clients), Len(clients') = Len(clients),
           \A k \in DOMAIN clients : k # i => clients'[k] = clients[k],
           clients'[i].server = clients[i].server, clients'[i].state = "shut", clients'[i].attempt = "rejected",
           UNCHANGED <<poolPhase, poolLive, poolIdle>>
    PROVE  ClientsHold' /\ DOMAIN clients' = DOMAIN clients
PROOF
<1>1. ConnectionTypes /\ LiveIsOpen
  BY DEF ClientsHold
<1>2. ASSUME NEW q \in ToolServers PROVE poolLive[q] # i
  <2> SUFFICES ASSUME poolLive[q] = i PROVE FALSE
    OBVIOUS
  <2>1. i # 0
    BY <1>1, ClientsAre
  <2>2. clients[i].server = q
    BY <1>1, <2>1 DEF LiveIsOpen
  <2> QED BY <1>1, <2>2 DEF LiveIsOpen
<1>3. \A k \in DOMAIN clients : k \notin {i} => clients'[k] = clients[k]
  OBVIOUS
<1>4. \A k \in DOMAIN clients : k \in {i} =>
          clients'[k].server = clients[k].server /\ clients'[k].state = "shut" /\ clients'[k].attempt # "pending"
  OBVIOUS
<1>5. poolLive' \in [ToolServers -> Nat]
  BY <1>1 DEF ConnectionTypes
<1>6. \A q \in ToolServers : poolLive'[q] = IF poolLive[q] \in {i} THEN 0 ELSE poolLive[q]
  BY <1>2
<1>7. \A q \in ToolServers : poolLive'[q] # 0 => poolLive'[q] \in poolIdle' /\ poolPhase' # "closed"
  BY <1>1 DEF LiveIsOpen
<1> QED BY <1>3, <1>4, <1>5, <1>6, <1>7, ShuttingKeeps

(* So does an attempt that opens.                                            *)
LEMMA OpensKeeps ==
    ASSUME ClientsHold, NEW i \in DOMAIN clients, AttemptOpens(i)
    PROVE  ClientsHold' /\ DOMAIN clients' = DOMAIN clients
PROOF
<1>1. ConnectionTypes /\ LiveIsOpen /\ OneEach /\ clients[i].state = "opening" /\ UNCHANGED poolPhase
  BY DEF ClientsHold, AttemptOpens
<1>2. /\ DOMAIN clients = 1 .. Len(clients) /\ Len(clients) \in Nat /\ clients[i].server \in ToolServers
      /\ \A k \in DOMAIN clients : clients[k] \in Clients /\ k # 0 /\ k \in Nat
  BY <1>1, ClientsAre
<1> DEFINE s == clients[i].server
<1>3. \A k \in DOMAIN clients : k # i /\ clients[k].server = s => clients[k].state = "shut"
  BY <1>1 DEF OneEach
<1>4. poolLive[s] = 0
  <2> SUFFICES ASSUME poolLive[s] # 0 PROVE FALSE
    OBVIOUS
  <2>1. poolLive[s] \in DOMAIN clients /\ clients[poolLive[s]].server = s
    BY <1>1, <1>2 DEF LiveIsOpen
  <2>2. clients[poolLive[s]].state = "open"
    BY <1>1, <2>1 DEF LiveIsOpen
  <2>3. poolLive[s] # i
    BY <1>1, <2>2
  <2> QED BY <1>3, <2>1, <2>2, <2>3
<1>5. CASE Admits(i)
  <2> DEFINE new == [clients[i] EXCEPT !.state = "open", !.attempt = "resolved"]
  <2>1. /\ clients' = [clients EXCEPT ![i] = new] /\ poolLive' = [poolLive EXCEPT ![s] = i]
        /\ poolIdle' = poolIdle \cup {i}
    BY <1>5 DEF AttemptOpens, ServerOf
  <2>2. new \in Clients /\ new.server = s /\ new.state = "open" /\ new.attempt = "resolved"
    BY <1>2 DEF Clients
  <2> HIDE DEF new
  <2>3. /\ clients' \in Seq(Clients) /\ Len(clients') = Len(clients)
        /\ \A k \in DOMAIN clients : clients'[k] = IF k = i THEN new ELSE clients[k]
    BY <1>1, <1>2, <2>1, <2>2, ExceptSeq DEF ConnectionTypes
  <2>4. DOMAIN clients' = DOMAIN clients
    BY <1>2, <2>3, LenProperties
  <2>5. /\ poolLive' \in [ToolServers -> Nat] /\ poolLive'[s] = i
        /\ \A q \in ToolServers \ {s} : poolLive'[q] = poolLive[q]
    BY <1>1, <1>2, <2>1 DEF ConnectionTypes
  <2>6. ConnectionTypes'
    BY <1>1, <2>2, <2>3, <2>4, <2>5 DEF ConnectionTypes
  <2>7. OneEach'
    <3>1. ASSUME NEW j \in DOMAIN clients, NEW k \in DOMAIN clients, j # k, clients'[j].server = clients'[k].server
          PROVE  clients'[j].state = "shut" \/ clients'[k].state = "shut"
      <4>1. CASE j = i \/ k = i
        BY <1>3, <2>2, <2>3, <3>1, <4>1
      <4>2. CASE j # i /\ k # i
        BY <1>1, <2>3, <3>1, <4>2 DEF OneEach
      <4> QED BY <4>1, <4>2
    <3> QED BY <2>4, <3>1 DEF OneEach
  <2>8. LiveIsOpen'
    <3>1. ASSUME NEW k \in DOMAIN clients PROVE clients'[k].state = "open" <=> poolLive'[clients'[k].server] = k
      <4>1. CASE k = i
        BY <2>2, <2>3, <2>5, <4>1
      <4>2. CASE k # i /\ clients[k].server = s
        BY <1>3, <2>3, <2>5, <4>2
      <4>3. CASE k # i /\ clients[k].server # s
        <5>1. clients[k].server \in ToolServers
          BY <1>1, ClientsAre
        <5> QED BY <1>1, <2>3, <2>5, <4>3, <5>1 DEF LiveIsOpen
      <4> QED BY <4>1, <4>2, <4>3
    <3>2. ASSUME NEW q \in ToolServers, poolLive'[q] # 0
          PROVE  /\ poolLive'[q] \in DOMAIN clients' /\ clients'[poolLive'[q]].server = q
                 /\ poolLive'[q] \in poolIdle' /\ poolPhase' # "closed"
      <4>1. CASE q = s
        BY <1>1, <1>5, <2>1, <2>2, <2>3, <2>4, <2>5, <4>1 DEF Admits
      <4>2. CASE q # s
        <5>1. poolLive'[q] = poolLive[q]
          BY <2>5, <4>2
        <5>2. /\ poolLive[q] \in DOMAIN clients /\ clients[poolLive[q]].server = q
              /\ poolLive[q] \in poolIdle /\ poolPhase # "closed"
          BY <1>1, <3>2, <5>1 DEF LiveIsOpen
        <5>3. clients'[poolLive[q]] = clients[poolLive[q]]
          BY <2>3, <4>2, <5>2
        <5> QED BY <1>1, <2>1, <2>4, <5>1, <5>2, <5>3
      <4> QED BY <4>1, <4>2
    <3> QED BY <2>4, <3>1, <3>2 DEF LiveIsOpen
  <2> QED BY <2>4, <2>6, <2>7, <2>8 DEF ClientsHold
<1>6. CASE ~Admits(i)
  <2>1. /\ clients' = [clients EXCEPT ![i].state = "shut", ![i].attempt = "rejected"]
        /\ UNCHANGED <<poolLive, poolIdle>>
    BY <1>6 DEF AttemptOpens
  <2>2. /\ clients' \in Seq(Clients) /\ Len(clients') = Len(clients)
        /\ \A k \in DOMAIN clients : k # i => clients'[k] = clients[k]
        /\ clients'[i].server = s /\ clients'[i].state = "shut" /\ clients'[i].attempt = "rejected"
    BY <1>1, <2>1, ClientShut
  <2> QED BY <1>1, <2>1, <2>2, NeverLiveKeeps
<1> QED BY <1>5, <1>6

(* So does a connection that fails.                                          *)
LEMMA FailsKeeps ==
    ASSUME ClientsHold, NEW i \in DOMAIN clients, ConnectionFails(i)
    PROVE  ClientsHold' /\ DOMAIN clients' = DOMAIN clients
PROOF
<1>1. /\ ConnectionTypes /\ LiveIsOpen /\ clients[i].state = "opening" /\ UNCHANGED <<poolPhase, poolLive, poolIdle>>
      /\ clients' = [clients EXCEPT ![i].state = "shut", ![i].attempt = "rejected"]
  BY DEF ClientsHold, ConnectionFails
<1>2. /\ clients' \in Seq(Clients) /\ Len(clients') = Len(clients)
      /\ \A k \in DOMAIN clients : k # i => clients'[k] = clients[k]
      /\ clients'[i].server = clients[i].server /\ clients'[i].state = "shut" /\ clients'[i].attempt = "rejected"
  BY <1>1, ClientShut
<1> QED BY <1>1, <1>2, NeverLiveKeeps

(* So does the end of close().                                               *)
LEMMA CloseKeeps == ASSUME ClientsHold, CloseEnds PROVE ClientsHold' /\ DOMAIN clients' = DOMAIN clients
PROOF
<1> DEFINE K == {i \in DOMAIN clients : i = poolLive[clients[i].server]}
<1>1. ConnectionTypes /\ LiveIsOpen /\ DOMAIN clients = 1 .. Len(clients) /\ Len(clients) \in Nat
  BY ClientsAre DEF ClientsHold
<1>2. /\ clients' = [i \in DOMAIN clients |-> IF i = poolLive[clients[i].server]
                                             THEN [clients[i] EXCEPT !.state = "shut"] ELSE clients[i]]
      /\ poolLive' = [s \in ToolServers |-> 0]
  BY DEF CloseEnds, ServerOf
<1>3. ASSUME NEW i \in DOMAIN clients
      PROVE  /\ clients'[i] \in Clients
             /\ i \notin K => clients'[i] = clients[i]
             /\ i \in K => /\ clients'[i].server = clients[i].server /\ clients'[i].state = "shut"
                          /\ clients'[i].attempt # "pending"
  <2>1. clients[i] \in Clients
    BY <1>1, ClientsAre
  <2>2. CASE i \in K
    <3>1. clients[i].attempt # "pending"
      BY <1>1, <2>2 DEF LiveIsOpen, ConnectionTypes
    <3>2. clients'[i] = [clients[i] EXCEPT !.state = "shut"]
      BY <1>2, <2>2
    <3> QED BY <2>1, <2>2, <3>1, <3>2 DEF Clients
  <2>3. CASE i \notin K
    BY <1>2, <2>1, <2>3
  <2> QED BY <2>2, <2>3
<1>4. clients' \in Seq(Clients) /\ Len(clients') = Len(clients)
  <2>1. clients' \in [1 .. Len(clients) -> Clients]
    BY <1>1, <1>2, <1>3
  <2>2. clients' \in Seq(Clients)
    BY <1>1, <2>1, SeqDef
  <2> QED BY <1>1, <2>1, <2>2, LenProperties
<1>5. ASSUME NEW s \in ToolServers PROVE poolLive'[s] = IF poolLive[s] \in K THEN 0 ELSE poolLive[s]
  BY <1>1, <1>2 DEF LiveIsOpen
<1>6. poolLive' \in [ToolServers -> Nat] /\ \A s \in ToolServers : poolLive'[s] = 0
  BY <1>2
<1> HIDE DEF K
<1> QED BY <1>3, <1>4, <1>5, <1>6, ShuttingKeeps

-----------------------------------------------------------------------------
(* The cache: a key taken out is in it no more, the others stay apart.       *)
LEMMA KeyTakenOut ==
    ASSUME CacheHolds, NEW key \in ToolServers
    PROVE  /\ WithoutKey(key) \in Seq(ToolServers)
           /\ Len(WithoutKey(key)) = Len(remembered) - (IF Remembers(key) THEN 1 ELSE 0)
           /\ \A m \in DOMAIN WithoutKey(key) : WithoutKey(key)[m] # key
           /\ \A m, n \in DOMAIN WithoutKey(key) : WithoutKey(key)[m] = WithoutKey(key)[n] => m = n
PROOF
<1>1. /\ remembered \in Seq(ToolServers) /\ DOMAIN remembered = 1 .. Len(remembered) /\ Len(remembered) \in Nat
      /\ \A i \in 1 .. Len(remembered) : remembered[i] \in ToolServers
  BY LenProperties, ElementOfSeq DEF CacheHolds
<1>2. CASE ~Remembers(key)
  BY <1>1, <1>2 DEF WithoutKey, Remembers, CacheHolds
<1>3. CASE Remembers(key)
  <2> DEFINE n == CHOOSE m \in DOMAIN remembered : remembered[m] = key
             L == Len(remembered)
             before == SubSeq(remembered, 1, n - 1)
             after == SubSeq(remembered, n + 1, L)
  <2>1. n \in DOMAIN remembered /\ remembered[n] = key
    BY <1>3 DEF Remembers
  <2>2. n \in 1 .. L /\ L \in Nat /\ WithoutKey(key) = before \o after
    BY <1>1, <1>3, <2>1 DEF WithoutKey
  <2> HIDE DEF n
  <2>3. /\ before \in Seq(ToolServers) /\ Len(before) = n - 1
        /\ \A i \in 1 .. n - 1 : before[i] = remembered[i]
    <3>1. /\ SubSeq(remembered, 1, n - 1) \in Seq(ToolServers)
          /\ Len(SubSeq(remembered, 1, n - 1)) = IF 1 <= n - 1 THEN (n - 1) - 1 + 1 ELSE 0
          /\ \A i \in 1 .. (n - 1) - 1 + 1 : SubSeq(remembered, 1, n - 1)[i] = remembered[1 + i - 1]
      BY <1>1, <2>2, SubSeqProperties
    <3> QED BY <2>2, <3>1
  <2>4. /\ after \in Seq(ToolServers) /\ Len(after) = L - n
        /\ \A i \in 1 .. L - n : after[i] = remembered[n + i]
    <3>1. /\ SubSeq(remembered, n + 1, L) \in Seq(ToolServers)
          /\ Len(SubSeq(remembered, n + 1, L)) = IF n + 1 <= L THEN L - (n + 1) + 1 ELSE 0
          /\ \A i \in 1 .. L - (n + 1) + 1 : SubSeq(remembered, n + 1, L)[i] = remembered[(n + 1) + i - 1]
      BY <1>1, <2>2, SubSeqProperties
    <3> QED BY <2>2, <3>1
  <2> HIDE DEF before, after, L
  <2>5. /\ before \o after \in Seq(ToolServers) /\ Len(before \o after) = L - 1
        /\ \A i \in 1 .. L - 1 : (before \o after)[i] = IF i < n THEN remembered[i] ELSE remembered[i + 1]
    <3>1. /\ before \o after \in Seq(ToolServers) /\ Len(before \o after) = Len(before) + Len(after)
          /\ \A i \in 1 .. Len(before) + Len(after) :
                (before \o after)[i] = IF i <= Len(before) THEN before[i] ELSE after[i - Len(before)]
      BY <2>3, <2>4, ConcatProperties
    <3>2. Len(before) + Len(after) = L - 1 /\ L - 1 \in Nat
      BY <2>2, <2>3, <2>4
    <3>3. ASSUME NEW i \in 1 .. L - 1
          PROVE  (before \o after)[i] = IF i < n THEN remembered[i] ELSE remembered[i + 1]
      <4>1. (before \o after)[i] = IF i <= n - 1 THEN before[i] ELSE after[i - (n - 1)]
        BY <2>2, <2>3, <3>1, <3>2
      <4>2. CASE i < n
        <5>1. i \in 1 .. n - 1 /\ i <= n - 1
          BY <2>2, <4>2
        <5> QED BY <2>3, <4>1, <4>2, <5>1
      <4>3. CASE ~(i < n)
        <5>1. i - (n - 1) \in 1 .. L - n /\ ~(i <= n - 1) /\ n + (i - (n - 1)) = i + 1
          BY <2>2, <4>3
        <5> QED BY <2>4, <4>1, <4>3, <5>1
      <4> QED BY <4>2, <4>3
    <3> QED BY <3>1, <3>2, <3>3
  <2>6. DOMAIN (before \o after) = 1 .. L - 1
    BY <2>5, LenProperties
  <2>7. \A i, k \in 1 .. L : remembered[i] = remembered[k] => i = k
    BY <1>1 DEF CacheHolds, L
  <2>8. \A i \in 1 .. L - 1 : (before \o after)[i] # key
    <3> SUFFICES ASSUME NEW i \in 1 .. L - 1, (before \o after)[i] = key PROVE FALSE
      OBVIOUS
    <3>1. CASE i < n
      <4>1. i \in 1 .. L /\ i # n /\ remembered[i] = key
        BY <2>2, <2>5, <3>1
      <4> QED BY <2>1, <2>2, <2>7, <4>1
    <3>2. CASE ~(i < n)
      <4>1. i + 1 \in 1 .. L /\ i + 1 # n /\ remembered[i + 1] = key
        BY <2>2, <2>5, <3>2
      <4> QED BY <2>1, <2>2, <2>7, <4>1
    <3> QED BY <3>1, <3>2
  <2>9. \A i, k \in 1 .. L - 1 : (before \o after)[i] = (before \o after)[k] => i = k
    <3> SUFFICES ASSUME NEW i \in 1 .. L - 1, NEW k \in 1 .. L - 1, (before \o after)[i] = (before \o after)[k]
                 PROVE  i = k
      OBVIOUS
    <3> DEFINE place(j) == IF j < n THEN j ELSE j + 1
    <3>1. \A j \in 1 .. L - 1 : place(j) \in 1 .. L /\ (before \o after)[j] = remembered[place(j)]
      BY <2>2, <2>5
    <3>2. place(i) \in 1 .. L /\ place(k) \in 1 .. L /\ remembered[place(i)] = remembered[place(k)]
      BY <3>1
    <3>3. place(i) = place(k)
      <4> HIDE DEF place
      <4> QED BY <2>7, <3>2
    <3> QED BY <2>2, <3>3
  <2> QED BY <1>3, <2>2, <2>5, <2>6, <2>8, <2>9 DEF L
<1> QED BY <1>2, <1>3

(* A key that is not in the cache may be put last.                           *)
LEMMA KeyPutLast ==
    ASSUME NEW w \in Seq(ToolServers), NEW key \in ToolServers, \A m \in DOMAIN w : w[m] # key,
           \A m, n \in DOMAIN w : w[m] = w[n] => m = n
    PROVE  /\ Append(w, key) \in Seq(ToolServers) /\ Len(Append(w, key)) = Len(w) + 1
           /\ \A m, n \in DOMAIN Append(w, key) : Append(w, key)[m] = Append(w, key)[n] => m = n
PROOF
<1> DEFINE v == Append(w, key)
<1>1. /\ v \in Seq(ToolServers) /\ Len(v) = Len(w) + 1 /\ v[Len(w) + 1] = key
      /\ \A i \in 1 .. Len(w) : v[i] = w[i]
  BY AppendProperties
<1>2. Len(w) \in Nat /\ DOMAIN w = 1 .. Len(w)
  BY LenProperties
<1> HIDE DEF v
<1>3. DOMAIN v = 1 .. Len(w) + 1
  BY <1>1, LenProperties
<1>4. ASSUME NEW m \in DOMAIN v, NEW n \in DOMAIN v, v[m] = v[n] PROVE m = n
  <2>1. CASE m = Len(w) + 1 /\ n = Len(w) + 1
    BY <2>1
  <2>2. CASE m \in 1 .. Len(w) /\ n = Len(w) + 1
    BY <1>1, <1>2, <1>4, <2>2
  <2>3. CASE m = Len(w) + 1 /\ n \in 1 .. Len(w)
    BY <1>1, <1>2, <1>4, <2>3
  <2>4. CASE m \in 1 .. Len(w) /\ n \in 1 .. Len(w)
    BY <1>1, <1>2, <1>4, <2>4
  <2> QED BY <1>2, <1>3, <2>1, <2>2, <2>3, <2>4
<1> QED BY <1>1, <1>4 DEF v

(* Forgetting a key, refreshing it or remembering a new one keep the         *)
(* cache: each key once, and no more of them than it may hold.               *)
LEMMA CacheKeeps ==
    ASSUME CacheHolds, NEW key \in ToolServers,
           \/ remembered' = WithoutKey(key)
           \/ Remembers(key) /\ remembered' = Append(WithoutKey(key), key)
           \/ remembered' = Remember(key)
    PROVE  CacheHolds'
PROOF
<1> DEFINE w == WithoutKey(key)
           v == Append(w, key)
<1>1. /\ w \in Seq(ToolServers) /\ Len(w) = Len(remembered) - (IF Remembers(key) THEN 1 ELSE 0)
      /\ \A m \in DOMAIN w : w[m] # key /\ \A n \in DOMAIN w : w[m] = w[n] => m = n
  BY KeyTakenOut
<1>2. Len(remembered) \in Nat /\ Len(remembered) <= MaxEntries /\ MaxEntries \in Nat \ {0}
  BY LenProperties, PoolAssumption DEF CacheHolds
<1> HIDE DEF w
<1>3. /\ v \in Seq(ToolServers) /\ Len(v) = Len(w) + 1
      /\ \A m, n \in DOMAIN v : v[m] = v[n] => m = n
  BY <1>1, KeyPutLast
<1>4. Len(w) \in Nat /\ Len(w) <= MaxEntries
  BY <1>1, <1>2, LenProperties
<1> HIDE DEF v
<1>5. CASE remembered' = w
  BY <1>1, <1>4, <1>5 DEF CacheHolds
<1>6. CASE Remembers(key) /\ remembered' = v
  BY <1>1, <1>2, <1>3, <1>6 DEF CacheHolds
<1>7. CASE remembered' = SubSeq(v, IF Len(v) > MaxEntries THEN 2 ELSE 1, Len(v))
  <2> DEFINE L == Len(v)
             f == IF L > MaxEntries THEN 2 ELSE 1
             u == SubSeq(v, f, L)
  <2>1. L \in Nat \ {0} /\ L <= MaxEntries + 1 /\ DOMAIN v = 1 .. L /\ \A i \in 1 .. L : v[i] \in ToolServers
    <3>1. L = Len(w) + 1 /\ DOMAIN v = 1 .. L
      BY <1>3, LenProperties
    <3>2. \A i \in 1 .. L : v[i] \in ToolServers
      BY <1>3, ElementOfSeq
    <3> HIDE DEF L
    <3> QED BY <1>2, <1>4, <3>1, <3>2
  <2>2. f \in {1, 2} /\ f <= L /\ (L > MaxEntries => f = 2)
    BY <1>2, <2>1
  <2> HIDE DEF f, L
  <2>3. /\ u \in Seq(ToolServers) /\ Len(u) = L - f + 1
        /\ \A i \in 1 .. L - f + 1 : u[i] = v[f + i - 1]
    <3>1. /\ SubSeq(v, f, L) \in Seq(ToolServers) /\ Len(SubSeq(v, f, L)) = IF f <= L THEN L - f + 1 ELSE 0
          /\ \A i \in 1 .. L - f + 1 : SubSeq(v, f, L)[i] = v[f + i - 1]
      BY <2>1, <2>2, SubSeqProperties
    <3> QED BY <2>2, <3>1
  <2> HIDE DEF u
  <2>4. DOMAIN u = 1 .. L - f + 1 /\ Len(u) <= MaxEntries
    BY <1>2, <2>1, <2>2, <2>3, LenProperties
  <2>5. ASSUME NEW m \in DOMAIN u, NEW n \in DOMAIN u, u[m] = u[n] PROVE m = n
    <3>1. f + m - 1 \in DOMAIN v /\ f + n - 1 \in DOMAIN v /\ v[f + m - 1] = v[f + n - 1]
      <4>1. \A i \in 1 .. L - f + 1 : f + i - 1 \in 1 .. L
        BY <2>1, <2>2
      <4>2. u[m] = v[f + m - 1] /\ u[n] = v[f + n - 1]
        BY <2>3, <2>4, <2>5
      <4> QED BY <2>1, <2>4, <2>5, <4>1, <4>2
    <3>2. f + m - 1 = f + n - 1
      BY <1>3, <3>1
    <3>3. m \in Int /\ n \in Int /\ f \in Int
      BY <2>1, <2>2, <2>4
    <3> QED BY <3>2, <3>3
  <2>6. remembered' = u
    BY <1>7 DEF u, f, L
  <2> QED BY <2>3, <2>4, <2>5, <2>6 DEF CacheHolds
<1> QED BY <1>5, <1>6, <1>7 DEF Remember, w, v

-----------------------------------------------------------------------------
(* call(): its record stays one of a client that was made.                   *)
LEMMA CallMoves ==
    ASSUME CallsHaveClients, NEW c \in ToolCalls, DOMAIN clients \subseteq DOMAIN clients',
           NEW stage \in {"calling", "answered", "done"}, CallAt(c, stage),
           stage # "done" => toolCall[c].conn \in DOMAIN clients
    PROVE  CallsHaveClients'
PROOF
<1> DEFINE new == [toolCall[c] EXCEPT !.at = stage]
<1>1. toolCall' = [toolCall EXCEPT ![c] = new]
  BY DEF CallAt
<1>2. /\ new \in [at : {"new", "waiting", "calling", "answered", "done"}, conn : Nat]
      /\ new.at = stage /\ new.conn = toolCall[c].conn
  BY DEF CallsHaveClients
<1> HIDE DEF new
<1> QED BY <1>1, <1>2 DEF CallsHaveClients

(* Timers may be added at any time.                                          *)
LEMMA PoolInvStays ==
    ASSUME PoolInv, UNCHANGED <<clients, poolLive, toolCall, remembered, poolPhase>>, poolIdle \subseteq poolIdle'
    PROVE  PoolInv'
BY DEF PoolInv, ClientsHold, ConnectionTypes, OneEach, LiveIsOpen, CacheHolds, CallsHaveClients

(* A listing that connects keeps the invariant.                              *)
LEMMA ListConnectsKeeps ==
    ASSUME PoolInv, NEW l \in ToolLists, NEW s \in ToolServers, ListConnects(l, s)
    PROVE  PoolInv'
PROOF
<1>1. ClientsHold /\ CacheHolds /\ CallsHaveClients /\ UNCHANGED <<poolPhase, remembered, toolCall>>
  BY DEF PoolInv, ListConnects
<1>2. CASE UNCHANGED connectionVars
  BY <1>1, <1>2, PoolInvStays DEF connectionVars
<1>3. CASE Connect(s, toolList[l].refresh)
  <2>1. ClientsHold' /\ DOMAIN clients \subseteq DOMAIN clients'
    BY <1>1, <1>3, ConnectKeeps
  <2>2. CacheHolds' /\ CallsHaveClients'
    BY <1>1, <2>1 DEF CacheHolds, CallsHaveClients
  <2> QED BY <2>1, <2>2 DEF PoolInv
<1> QED BY <1>2, <1>3 DEF ListConnects

(* So does a tool call that starts.                                          *)
LEMMA CallStartsKeeps == ASSUME PoolInv, NEW c \in ToolCalls, NEW s \in ToolServers, CallStarts(c, s) PROVE PoolInv'
PROOF
<1>1. ClientsHold /\ CacheHolds /\ CallsHaveClients /\ UNCHANGED poolPhase
  BY DEF PoolInv, CallStarts
<1>2. CASE CallAt(c, "done") /\ UNCHANGED <<connectionVars, remembered>>
  <2>1. CallsHaveClients'
    BY <1>1, <1>2, CallMoves DEF connectionVars
  <2>2. ClientsHold' /\ CacheHolds'
    BY <1>1, <1>2 DEF connectionVars, ClientsHold, ConnectionTypes, OneEach, LiveIsOpen, CacheHolds
  <2> QED BY <2>1, <2>2 DEF PoolInv
<1>3. CASE Remembers(s) /\ CallAt(c, "done") /\ remembered' = Append(WithoutKey(s), s) /\ UNCHANGED connectionVars
  <2>1. CallsHaveClients'
    BY <1>1, <1>3, CallMoves DEF connectionVars
  <2>2. ClientsHold'
    BY <1>1, <1>3 DEF connectionVars, ClientsHold, ConnectionTypes, OneEach, LiveIsOpen
  <2>3. CacheHolds'
    BY <1>1, <1>3, CacheKeeps
  <2> QED BY <2>1, <2>2, <2>3 DEF PoolInv
<1>4. CASE /\ remembered' = WithoutKey(s)
           /\ toolCall' = [toolCall EXCEPT ![c] = [at |-> "waiting", conn |-> Joins(s, FALSE)]]
           /\ Connect(s, FALSE)
  <2>1. /\ ClientsHold' /\ DOMAIN clients \subseteq DOMAIN clients' /\ Joins(s, FALSE) \in DOMAIN clients'
        /\ Joins(s, FALSE) \in Nat
    BY <1>1, <1>4, ConnectKeeps
  <2>2. CallsHaveClients'
    BY <1>1, <1>4, <2>1 DEF CallsHaveClients
  <2>3. CacheHolds'
    BY <1>1, <1>4, CacheKeeps
  <2> QED BY <2>1, <2>2, <2>3 DEF PoolInv
<1> QED BY <1>2, <1>3, <1>4 DEF CallStarts

(* So does a call whose connection came up.                                  *)
LEMMA CallGoesOnKeeps == ASSUME PoolInv, NEW c \in ToolCalls, CallGoesOn(c) PROVE PoolInv'
PROOF
<1>1. /\ ClientsHold /\ CacheHolds /\ CallsHaveClients /\ toolCall[c].at = "waiting"
      /\ UNCHANGED <<poolPhase, clients, poolLive, remembered>> /\ poolIdle \subseteq poolIdle'
      /\ CallAt(c, "done") \/ CallAt(c, "calling")
  BY DEF PoolInv, CallGoesOn
<1>2. CallsHaveClients'
  <2>1. toolCall[c].conn \in DOMAIN clients
    BY <1>1 DEF CallsHaveClients
  <2> QED BY <1>1, <2>1, CallMoves
<1>3. ClientsHold' /\ CacheHolds'
  BY <1>1 DEF ClientsHold, ConnectionTypes, OneEach, LiveIsOpen, CacheHolds
<1> QED BY <1>2, <1>3 DEF PoolInv

(* So does a call that ends.                                                 *)
LEMMA CallEndsKeeps == ASSUME PoolInv, NEW c \in ToolCalls, CallEnds(c) PROVE PoolInv'
PROOF
<1>1. /\ ClientsHold /\ CacheHolds /\ CallsHaveClients /\ toolCall[c].at = "answered" /\ CallAt(c, "done")
      /\ UNCHANGED <<poolPhase, clients, poolLive>> /\ poolIdle \subseteq poolIdle'
      /\ remembered' = Remember(ServerOf(toolCall[c].conn)) \/ UNCHANGED remembered
  BY DEF PoolInv, CallEnds
<1>2. toolCall[c].conn \in DOMAIN clients /\ ServerOf(toolCall[c].conn) \in ToolServers
  BY <1>1, ClientsAre DEF CallsHaveClients, ClientsHold, ServerOf
<1>3. CallsHaveClients'
  BY <1>1, CallMoves
<1>4. ClientsHold'
  BY <1>1 DEF ClientsHold, ConnectionTypes, OneEach, LiveIsOpen
<1>5. CacheHolds'
  <2>1. CASE UNCHANGED remembered
    BY <1>1, <2>1 DEF CacheHolds
  <2>2. CASE remembered' = Remember(ServerOf(toolCall[c].conn))
    BY <1>1, <1>2, <2>2, CacheKeeps
  <2> QED BY <1>1, <2>1, <2>2
<1> QED BY <1>3, <1>4, <1>5 DEF PoolInv

(* So does a call that finds its server unreachable.                         *)
LEMMA UnreachableKeeps == ASSUME PoolInv, NEW c \in ToolCalls, ToolUnreachable(c) PROVE PoolInv'
PROOF
<1> DEFINE s == ServerOf(toolCall[c].conn)
<1>1. /\ ClientsHold /\ CacheHolds /\ CallsHaveClients /\ toolCall[c].at = "calling" /\ CallAt(c, "done")
      /\ Drop(s) /\ UNCHANGED <<poolPhase, remembered>> /\ poolIdle' = poolIdle \ {poolLive[s]}
  BY DEF PoolInv, ToolUnreachable, Calling
<1>2. s \in ToolServers
  BY <1>1, ClientsAre DEF CallsHaveClients, ClientsHold, ServerOf
<1> HIDE DEF s
<1>3. ClientsHold' /\ DOMAIN clients' = DOMAIN clients
  BY <1>1, <1>2, DropKeeps
<1>4. CallsHaveClients'
  BY <1>1, <1>3, CallMoves
<1>5. CacheHolds'
  BY <1>1 DEF CacheHolds
<1> QED BY <1>3, <1>4, <1>5 DEF PoolInv

(* So does an idle timer that fires.                                         *)
LEMMA IdleKeeps == ASSUME PoolInv, NEW i \in DOMAIN clients, IdleFires(i) PROVE PoolInv'
PROOF
<1> DEFINE s == ServerOf(i)
<1>1. /\ ClientsHold /\ CacheHolds /\ CallsHaveClients /\ Drop(s)
      /\ UNCHANGED <<poolPhase, remembered, toolCall>> /\ poolIdle' = poolIdle \ {i, poolLive[s]}
  BY DEF PoolInv, IdleFires
<1>2. s \in ToolServers /\ s = clients[i].server
  BY <1>1, ClientsAre DEF ClientsHold, ServerOf
<1> HIDE DEF s
<1>3. \A k \in poolIdle : k # poolLive[s] /\ (k \in DOMAIN clients => clients[k].server # s) => k \in poolIdle'
  BY <1>1, <1>2
<1>4. ClientsHold' /\ DOMAIN clients' = DOMAIN clients
  BY <1>1, <1>2, <1>3, DropKeeps
<1>5. CacheHolds' /\ CallsHaveClients'
  BY <1>1, <1>4 DEF CacheHolds, CallsHaveClients
<1> QED BY <1>4, <1>5 DEF PoolInv

(* Every step of the pool keeps the invariant.                               *)
LEMMA PoolStep == ASSUME PoolInv, [PoolNext]_poolVars PROVE PoolInv'
PROOF
<1>1. ASSUME NEW l \in ToolLists, NEW refresh \in BOOLEAN, ListStarts(l, refresh) PROVE PoolInv'
  BY <1>1, PoolInvStays DEF ListStarts, connectionVars
<1>2. ASSUME NEW l \in ToolLists, ListEnds(l) \/ ListGoesOn(l) PROVE PoolInv'
  BY <1>2, PoolInvStays DEF ListEnds, ListGoesOn, connectionVars
<1>3. ASSUME NEW l \in ToolLists, NEW s \in ToolServers, ListConnects(l, s) PROVE PoolInv'
  BY <1>3, ListConnectsKeeps
<1>4. ASSUME NEW i \in DOMAIN clients, AttemptOpens(i) \/ ConnectionFails(i) PROVE PoolInv'
  <2>1. ClientsHold' /\ DOMAIN clients' = DOMAIN clients
    BY <1>4, OpensKeeps, FailsKeeps DEF PoolInv
  <2>2. UNCHANGED <<remembered, toolCall>>
    BY <1>4 DEF AttemptOpens, ConnectionFails
  <2> QED BY <2>1, <2>2 DEF PoolInv, CacheHolds, CallsHaveClients
<1>5. ASSUME NEW i \in DOMAIN clients, IdleFires(i) PROVE PoolInv'
  BY <1>5, IdleKeeps
<1>6. ASSUME NEW c \in ToolCalls, NEW s \in ToolServers, CallStarts(c, s) PROVE PoolInv'
  BY <1>6, CallStartsKeeps
<1>7. ASSUME NEW c \in ToolCalls, CallGoesOn(c) PROVE PoolInv'
  BY <1>7, CallGoesOnKeeps
<1>8. ASSUME NEW c \in ToolCalls, ToolAnswers(c) \/ ToolTimesOut(c) PROVE PoolInv'
  <2>1. /\ UNCHANGED <<poolPhase, connectionVars, remembered>> /\ (CallAt(c, "answered") \/ CallAt(c, "done"))
        /\ toolCall[c].at = "calling"
    BY <1>8 DEF ToolAnswers, ToolTimesOut, Calling
  <2>2. toolCall[c].conn \in DOMAIN clients /\ DOMAIN clients \subseteq DOMAIN clients'
    BY <2>1 DEF PoolInv, CallsHaveClients, connectionVars
  <2>3. CallsHaveClients'
    BY <2>1, <2>2, CallMoves DEF PoolInv
  <2>4. ClientsHold' /\ CacheHolds'
    BY <2>1 DEF PoolInv, connectionVars, ClientsHold, ConnectionTypes, OneEach, LiveIsOpen, CacheHolds
  <2> QED BY <2>3, <2>4 DEF PoolInv
<1>9. ASSUME NEW c \in ToolCalls, ToolUnreachable(c) PROVE PoolInv'
  BY <1>9, UnreachableKeeps
<1>10. ASSUME NEW c \in ToolCalls, CallEnds(c) PROVE PoolInv'
  BY <1>10, CallEndsKeeps
<1>11. CASE CloseStarts
  BY <1>11 DEF CloseStarts, connectionVars, PoolInv, ClientsHold, ConnectionTypes, OneEach,
     LiveIsOpen, CacheHolds,
      CallsHaveClients
<1>12. CASE CloseEnds
  <2>1. ClientsHold' /\ DOMAIN clients' = DOMAIN clients
    BY <1>12, CloseKeeps DEF PoolInv
  <2>2. UNCHANGED <<remembered, toolCall>>
    BY <1>12 DEF CloseEnds
  <2> QED BY <2>1, <2>2 DEF PoolInv, CacheHolds, CallsHaveClients
<1>13. CASE UNCHANGED poolVars
  BY <1>13, PoolInvStays DEF poolVars, connectionVars
<1> QED BY <1>1, <1>2, <1>3, <1>4, <1>5, <1>6, <1>7, <1>8, <1>9, <1>10, <1>11, <1>12, <1>13
           DEF PoolNext, PoolTurn

(* Whatever timers, failures, refreshes and late attempts do, a server has   *)
(* one connection at a time, an open one is its server's live one with an    *)
(* idle timer, none is live once close() is through, and the cache holds     *)
(* each key once and no more of them than it may.                            *)
THEOREM PoolStaysWhole == PoolSpec => []PoolHolds
PROOF
<1>1. PoolInit => PoolInv
  BY PoolInvInit
<1>2. PoolInv /\ [PoolNext]_poolVars => PoolInv'
  BY PoolStep
<1>3. PoolInv => PoolHolds
  BY PoolInvHolds
<1> QED BY <1>1, <1>2, <1>3, PTL DEF PoolSpec

-----------------------------------------------------------------------------
(* Self-bundled sends (SelfBundler).                                         *)
(* The wallet nonces a send reads matter to no report, so nothing is asked of them. *)
BundlerTypes ==
    /\ opNonce \in Nat /\ bundlerPool \subseteq UserOps
    /\ DOMAIN sending = UserOps
    /\ \A s \in UserOps : DOMAIN sending[s] = {"at", "nonce", "wallet", "told"} /\ sending[s].nonce \in Nat
    /\ opRan \in [UserOps -> [how : {"no", "ok", "reverted"}, in : UserOps \cup {NoOp}]]

(* Only what was simulated is broadcast, and only what was broadcast runs.   *)
RunsAfterBroadcast ==
    \A s \in UserOps :
        /\ s \in bundlerPool \/ opRan[s].how # "no" =>
              \/ sending[s].at = "sent"
              \/ sending[s].at = "done" /\ sending[s].told \notin {"refused", "rejected"}
        /\ sending[s].at # "done" => sending[s].told = "none"

(* The account's nonce is past every operation that ran, and two never ran on one. *)
NoncesAreSpent ==
    /\ \A s \in UserOps : opRan[s].how # "no" => sending[s].nonce < opNonce
    /\ \A s, o \in UserOps :
          s # o /\ opRan[s].how # "no" /\ opRan[o].how # "no" => sending[s].nonce # sending[o].nonce

SuccessIsSo ==
    \A s \in UserOps :
        /\ sending[s].told = "success" => opRan[s] = [how |-> "ok", in |-> s]
        /\ sending[s].told = "reverted" => opRan[s] = [how |-> "reverted", in |-> s]

BundlerInv == BundlerTypes /\ RunsAfterBroadcast /\ NoncesAreSpent /\ SuccessIsSo

(* With nothing sent the invariant holds.                                    *)
LEMMA BundlerInvInit == BundlerInit => BundlerInv
BY DEF BundlerInit, BundlerInv, BundlerTypes, RunsAfterBroadcast, NoncesAreSpent, SuccessIsSo

(* The invariant is stronger than what is promised.                          *)
LEMMA BundlerInvHolds == BundlerInv => ReportsAreTrue
PROOF
<1> SUFFICES ASSUME BundlerInv PROVE ReportsAreTrue
  OBVIOUS
<1>1. ASSUME NEW s \in UserOps, sending[s].told \in {"refused", "rejected"}
      PROVE  opRan[s].how = "no" /\ s \notin bundlerPool
  BY <1>1 DEF BundlerInv, RunsAfterBroadcast
<1> QED BY <1>1 DEF BundlerInv, NoncesAreSpent, SuccessIsSo, ReportsAreTrue

(* A send moves on: the chain stands, and what it tells is so.               *)
LEMMA SendMoves ==
    ASSUME BundlerInv, NEW s \in UserOps, UNCHANGED <<opNonce, opRan>>, bundlerPool' \subseteq bundlerPool \cup {s},
           DOMAIN sending' = UserOps, \A o \in UserOps \ {s} : sending'[o] = sending[o],
           DOMAIN sending'[s] = {"at", "nonce", "wallet", "told"}, sending'[s].nonce \in Nat,
           opRan[s].how = "no" \/ sending'[s].nonce = sending[s].nonce,
           sending'[s].at # "done" => sending'[s].told = "none",
           s \in bundlerPool' \/ opRan[s].how # "no" =>
              \/ sending'[s].at = "sent"
              \/ sending'[s].at = "done" /\ sending'[s].told \notin {"refused", "rejected"},
           sending'[s].told = "success" => opRan[s] = [how |-> "ok", in |-> s],
           sending'[s].told = "reverted" => opRan[s] = [how |-> "reverted", in |-> s]
    PROVE  BundlerInv'
PROOF
<1>1. BundlerTypes'
  <2>1. ASSUME NEW o \in UserOps
        PROVE  DOMAIN sending'[o] = {"at", "nonce", "wallet", "told"} /\ sending'[o].nonce \in Nat
    BY DEF BundlerInv, BundlerTypes
  <2> QED BY <2>1 DEF BundlerInv, BundlerTypes
<1>2. RunsAfterBroadcast'
  <2> SUFFICES ASSUME NEW o \in UserOps
               PROVE  /\ o \in bundlerPool' \/ opRan'[o].how # "no" =>
                            \/ sending'[o].at = "sent"
                            \/ sending'[o].at = "done" /\ sending'[o].told \notin {"refused", "rejected"}
                      /\ sending'[o].at # "done" => sending'[o].told = "none"
    BY DEF RunsAfterBroadcast
  <2>1. CASE o = s
    BY <2>1
  <2>2. CASE o # s
    BY <2>2 DEF BundlerInv, RunsAfterBroadcast
  <2> QED BY <2>1, <2>2
<1>3. NoncesAreSpent'
  <2>1. \A o \in UserOps : opRan[o].how # "no" => sending'[o].nonce = sending[o].nonce
    OBVIOUS
  <2> QED BY <2>1 DEF BundlerInv, NoncesAreSpent
<1>4. SuccessIsSo'
  <2> SUFFICES ASSUME NEW o \in UserOps
               PROVE  /\ sending'[o].told = "success" => opRan'[o] = [how |-> "ok", in |-> o]
                      /\ sending'[o].told = "reverted" => opRan'[o] = [how |-> "reverted", in |-> o]
    BY DEF SuccessIsSo
  <2>1. CASE o = s
    BY <2>1
  <2>2. CASE o # s
    BY <2>2 DEF BundlerInv, SuccessIsSo
  <2> QED BY <2>1, <2>2
<1> QED BY <1>1, <1>2, <1>3, <1>4 DEF BundlerInv

(* What MovesOn and Tells leave of the record.                               *)
LEMMA MovesOnIs ==
    ASSUME BundlerTypes, NEW s \in UserOps, NEW place, MovesOn(s, place)
    PROVE  /\ DOMAIN sending' = UserOps /\ \A o \in UserOps \ {s} : sending'[o] = sending[o]
           /\ DOMAIN sending'[s] = {"at", "nonce", "wallet", "told"} /\ sending'[s].nonce \in Nat
           /\ sending'[s].nonce = sending[s].nonce /\ sending'[s].at = place /\ sending'[s].told = sending[s].told
BY DEF BundlerTypes, MovesOn

(* What telling the caller does to the send, written out.                    *)
LEMMA TellsIs ==
    ASSUME BundlerTypes, NEW s \in UserOps, NEW what, Tells(s, what)
    PROVE  /\ DOMAIN sending' = UserOps /\ \A o \in UserOps \ {s} : sending'[o] = sending[o]
           /\ DOMAIN sending'[s] = {"at", "nonce", "wallet", "told"} /\ sending'[s].nonce \in Nat
           /\ sending'[s].nonce = sending[s].nonce /\ sending'[s].at = "done" /\ sending'[s].told = what
BY DEF BundlerTypes, Tells

(* A send that gives up or waits no longer, with a report that claims nothing. *)
LEMMA SendEnds ==
    ASSUME BundlerInv, NEW s \in UserOps, NEW what, Tells(s, what), what \notin {"success", "reverted"},
           UNCHANGED <<opNonce, opRan>>, bundlerPool' \subseteq bundlerPool \cup {s},
           what \in {"refused", "rejected"} => s \notin bundlerPool' /\ opRan[s].how = "no"
    PROVE  BundlerInv'
PROOF
<1>1. /\ DOMAIN sending' = UserOps /\ \A o \in UserOps \ {s} : sending'[o] = sending[o]
      /\ DOMAIN sending'[s] = {"at", "nonce", "wallet", "told"} /\ sending'[s].nonce \in Nat
      /\ sending'[s].nonce = sending[s].nonce /\ sending'[s].at = "done" /\ sending'[s].told = what
  BY TellsIs DEF BundlerInv
<1> QED BY <1>1, SendMoves

(* A step of a send keeps the invariant.                                     *)
LEMMA SendStepKeeps == ASSUME BundlerInv, NEW s \in UserOps, SendStep(s) PROVE BundlerInv'
PROOF
<1>1. BundlerTypes /\ RunsAfterBroadcast
  BY DEF BundlerInv
<1>2. sending[s].at \in {"new", "prepared", "simulated", "numbered"} =>
        s \notin bundlerPool /\ opRan[s].how = "no" /\ sending[s].told = "none"
  BY <1>1 DEF RunsAfterBroadcast
<1>3. CASE PrepareOperation(s)
  <2>1. s \notin bundlerPool /\ opRan[s].how = "no" /\ sending[s].told = "none"
        /\ UNCHANGED <<opNonce, opRan, bundlerPool>>
    BY <1>2, <1>3 DEF PrepareOperation, bundlerChain
  <2>2. CASE sending' = [sending EXCEPT ![s].at = "prepared", ![s].nonce = opNonce]
    <3>1. /\ DOMAIN sending' = UserOps /\ \A o \in UserOps \ {s} : sending'[o] = sending[o]
          /\ DOMAIN sending'[s] = {"at", "nonce", "wallet", "told"} /\ sending'[s].nonce \in Nat
          /\ sending'[s].at = "prepared" /\ sending'[s].told = sending[s].told
      BY <1>1, <2>2 DEF BundlerTypes
    <3> QED BY <2>1, <3>1, SendMoves
  <2>3. CASE Tells(s, "refused")
    BY <2>1, <2>3, SendEnds
  <2> QED BY <1>3, <2>2, <2>3 DEF PrepareOperation
<1>4. CASE Simulate(s)
  <2>1. s \notin bundlerPool /\ opRan[s].how = "no" /\ sending[s].told = "none"
        /\ UNCHANGED <<opNonce, opRan, bundlerPool>>
    BY <1>2, <1>4 DEF Simulate, bundlerChain
  <2>2. CASE MovesOn(s, "simulated")
    BY <1>1, <2>1, <2>2, MovesOnIs, SendMoves
  <2>3. CASE Tells(s, "rejected")
    BY <2>1, <2>3, SendEnds
  <2> QED BY <1>4, <2>2, <2>3 DEF Simulate
<1>5. CASE TakeWalletNonce(s)
  <2>1. s \notin bundlerPool /\ opRan[s].how = "no" /\ sending[s].told = "none"
        /\ UNCHANGED <<opNonce, opRan, bundlerPool>>
        /\ sending' = [sending EXCEPT ![s].at = "numbered", ![s].wallet = Pending]
    BY <1>2, <1>5 DEF TakeWalletNonce, bundlerChain
  <2>2. /\ DOMAIN sending' = UserOps /\ \A o \in UserOps \ {s} : sending'[o] = sending[o]
        /\ DOMAIN sending'[s] = {"at", "nonce", "wallet", "told"} /\ sending'[s].nonce \in Nat
        /\ sending'[s].at = "numbered" /\ sending'[s].told = sending[s].told
    BY <1>1, <2>1 DEF BundlerTypes
  <2> QED BY <2>1, <2>2, SendMoves
<1>6. CASE BroadcastOperation(s)
  <2>1. /\ opRan[s].how = "no" /\ sending[s].told = "none" /\ UNCHANGED <<opNonce, opRan>>
        /\ bundlerPool' \subseteq bundlerPool \cup {s}
    BY <1>2, <1>6 DEF BroadcastOperation
  <2>2. CASE MovesOn(s, "sent")
    BY <1>1, <2>1, <2>2, MovesOnIs, SendMoves
  <2>3. CASE Tells(s, "failed")
    BY <2>1, <2>3, SendEnds
  <2> QED BY <1>6, <2>2, <2>3 DEF BroadcastOperation
<1>7. CASE Receipt(s)
  <2> DEFINE event == EventOf(s, minedBy[sending[s].wallet])
  <2>1. UNCHANGED <<opNonce, opRan, bundlerPool>>
    BY <1>7 DEF Receipt, bundlerChain
  <2>2. event \in {"ok", "reverted"} => opRan[s] = [how |-> event, in |-> s]
    BY <1>1 DEF EventOf, BundlerTypes
  <2>3. Tells(s, CASE event = "ok" -> "success" [] event = "reverted" -> "reverted" [] OTHER -> "lost")
    BY <1>7 DEF Receipt
  <2> HIDE DEF event
  <2>4. CASE event = "ok"
    <3>1. Tells(s, "success") /\ opRan[s] = [how |-> "ok", in |-> s]
      BY <2>2, <2>3, <2>4
    <3>2. /\ DOMAIN sending' = UserOps /\ \A o \in UserOps \ {s} : sending'[o] = sending[o]
          /\ DOMAIN sending'[s] = {"at", "nonce", "wallet", "told"} /\ sending'[s].nonce \in Nat
          /\ sending'[s].nonce = sending[s].nonce /\ sending'[s].at = "done" /\ sending'[s].told = "success"
      BY <1>1, <3>1, TellsIs
    <3> QED BY <2>1, <3>1, <3>2, SendMoves
  <2>5. CASE event = "reverted"
    <3>1. Tells(s, "reverted") /\ opRan[s] = [how |-> "reverted", in |-> s]
      BY <2>2, <2>3, <2>5
    <3>2. /\ DOMAIN sending' = UserOps /\ \A o \in UserOps \ {s} : sending'[o] = sending[o]
          /\ DOMAIN sending'[s] = {"at", "nonce", "wallet", "told"} /\ sending'[s].nonce \in Nat
          /\ sending'[s].nonce = sending[s].nonce /\ sending'[s].at = "done" /\ sending'[s].told = "reverted"
      BY <1>1, <3>1, TellsIs
    <3> QED BY <2>1, <3>1, <3>2, SendMoves
  <2>6. CASE event \notin {"ok", "reverted"}
    <3>1. Tells(s, "lost")
      BY <2>3, <2>6
    <3> QED BY <2>1, <3>1, SendEnds
  <2> QED BY <2>4, <2>5, <2>6
<1>8. CASE ReceiptTimesOut(s)
  BY <1>8, SendEnds DEF ReceiptTimesOut, bundlerChain
<1> QED BY <1>3, <1>4, <1>5, <1>6, <1>7, <1>8 DEF SendStep

(* An operation runs on the account's nonce, which is then spent.            *)
LEMMA OperationRuns ==
    ASSUME BundlerInv, NEW s \in bundlerPool, NEW bundler \in UserOps \cup {NoOp}, Valid(s), opRan[s].how = "no",
           Runs(s, bundler), UNCHANGED sending, bundlerPool' \subseteq bundlerPool
    PROVE  BundlerInv'
PROOF
<1>1. BundlerTypes /\ RunsAfterBroadcast /\ NoncesAreSpent /\ SuccessIsSo /\ s \in UserOps
  BY DEF BundlerInv, BundlerTypes
<1>2. PICK how \in {"ok", "reverted"} : opRan' = [opRan EXCEPT ![s] = [how |-> how, in |-> bundler]]
  BY DEF Runs
<1>3. opNonce' = opNonce + 1 /\ opNonce \in Nat /\ sending[s].nonce = opNonce
  BY <1>1 DEF Runs, Valid, BundlerTypes
<1>4. opRan'[s].how # "no" /\ \A o \in UserOps \ {s} : opRan'[o] = opRan[o]
  BY <1>1, <1>2 DEF BundlerTypes
<1>5. BundlerTypes'
  BY <1>1, <1>2, <1>3 DEF BundlerTypes
<1>6. RunsAfterBroadcast'
  BY <1>1, <1>4 DEF RunsAfterBroadcast
<1>7. NoncesAreSpent'
  <2>1. \A o \in UserOps : opRan[o].how # "no" => sending[o].nonce < opNonce /\ sending[o].nonce \in Nat
    BY <1>1 DEF NoncesAreSpent, BundlerTypes
  <2>2. \A o \in UserOps : opRan'[o].how # "no" => sending[o].nonce < opNonce'
    BY <1>3, <1>4, <2>1
  <2>3. ASSUME NEW o \in UserOps, NEW q \in UserOps, o # q, opRan'[o].how # "no", opRan'[q].how # "no"
        PROVE  sending[o].nonce # sending[q].nonce
    <3>1. CASE o = s
      BY <1>3, <1>4, <2>1, <2>3, <3>1
    <3>2. CASE q = s
      BY <1>3, <1>4, <2>1, <2>3, <3>2
    <3>3. CASE o # s /\ q # s
      BY <1>1, <1>4, <2>3, <3>3 DEF NoncesAreSpent
    <3> QED BY <3>1, <3>2, <3>3
  <2> QED BY <2>2, <2>3 DEF NoncesAreSpent
<1>8. SuccessIsSo'
  <2>1. ~(sending[s].told = "success") /\ ~(sending[s].told = "reverted")
    <3>1. opRan[s] # [how |-> "ok", in |-> s] /\ opRan[s] # [how |-> "reverted", in |-> s]
      OBVIOUS
    <3> QED BY <1>1, <3>1 DEF SuccessIsSo
  <2>2. \A o \in UserOps \ {s} : opRan'[o] = opRan[o]
    BY <1>4
  <2> QED BY <1>1, <2>1, <2>2 DEF SuccessIsSo
<1> QED BY <1>5, <1>6, <1>7, <1>8 DEF BundlerInv

(* Every step of a send, the chain or a stranger keeps it.                   *)
LEMMA BundlerStep == ASSUME BundlerInv, [BundlerNext]_bundlerVars PROVE BundlerInv'
PROOF
<1>1. ASSUME NEW s \in UserOps, MineNext(s) PROVE BundlerInv'
  <2>1. s \in bundlerPool /\ UNCHANGED sending /\ bundlerPool' \subseteq bundlerPool
    BY <1>1 DEF MineNext
  <2>2. CASE Valid(s) /\ opRan[s].how = "no"
    <3>1. Runs(s, s)
      BY <1>1, <2>2 DEF MineNext
    <3> QED BY <2>1, <2>2, <3>1, OperationRuns
  <2>3. CASE ~(Valid(s) /\ opRan[s].how = "no")
    <3>1. UNCHANGED <<opNonce, opRan>>
      BY <1>1, <2>3 DEF MineNext
    <3> QED BY <2>1, <3>1 DEF BundlerInv, BundlerTypes, RunsAfterBroadcast, NoncesAreSpent, SuccessIsSo
  <2> QED BY <2>2, <2>3
<1>2. ASSUME NEW s \in UserOps, OthersBundle(s) PROVE BundlerInv'
  BY <1>2, OperationRuns DEF OthersBundle
<1>3. CASE UNCHANGED bundlerVars
  BY <1>3 DEF bundlerVars, BundlerInv, BundlerTypes, RunsAfterBroadcast, NoncesAreSpent, SuccessIsSo
<1> QED BY <1>1, <1>2, <1>3, SendStepKeeps DEF BundlerNext

(* However sends overlap, read one nonce twice, replace each other or are
   bundled by strangers: a success or a revert was reported of an operation
   that ran so in the wallet's own transaction, no two operations ran on one
   nonce, and an operation reported refused or rejected never runs.          *)
THEOREM SendsReportTheTruth == BundlerSpec => []ReportsAreTrue
BY BundlerInvInit, BundlerInvHolds, BundlerStep, PTL DEF BundlerSpec
=============================================================================
