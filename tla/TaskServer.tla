------------------------------ MODULE TaskServer ------------------------------
(* A provider's task server and the client that calls it (packages/a2a/src:  *)
(* server.ts, task-machine.ts, states.ts, client.ts) over the agent's        *)
(* settlement (packages/agent/src/settlement.ts).  The server awaits the     *)
(* chain between its checks and the task it creates; the client retries a    *)
(* request whose answer it did not hear.  A request's five fields are the    *)
(* task's name and the job it is for.                                        *)
EXTENDS Integers, FiniteSets

CONSTANTS
    TaskCallers, TaskIds, TaskJobs,
    MaxConcurrent,       \* maxConcurrent
    MaxPerEndpoint,      \* maxConcurrentPerEndpoint
    MaxAttempts,         \* maxRetries
    NoTask               \* the machine holds no record

TaskStates == {"working", "delivered", "failed"}
ASSUME TaskServerAssumption ==
    /\ {MaxConcurrent, MaxPerEndpoint, MaxAttempts} \subseteq Nat \ {0}
    /\ IsFiniteSet(TaskIds) /\ NoTask \notin [job : TaskJobs, state : TaskStates]

VARIABLES
    tasks,       \* the machine: a record of each task, or NoTask
    run,         \* where the server's run of a task stands
    running,     \* the slots taken
    inbox,       \* requests on their way
    admitting,   \* requests that wait for the chain's verdict
    admitted,    \* requests whose verdict was yes
    caller,      \* the client's runTask of each caller
    escrow       \* the jobs on chain: their status and the task submitted

serverVars == <<tasks, run, running, admitting, admitted>>
taskServerVars == <<serverVars, inbox, caller, escrow>>

Caller(stage, t, j, n) == [stage |-> stage, task |-> t, job |-> j, attempt |-> n]
IdleCaller == Caller("idle", NoTask, NoTask, 0)
(* runTask over, with a status or an error.                                  *)
DoneCaller == Caller("done", NoTask, NoTask, 0)
Request(u) == [from |-> u, task |-> caller[u].task, job |-> caller[u].job, attempt |-> caller[u].attempt]
TaskServerInit ==
    /\ tasks = [t \in TaskIds |-> NoTask]
    /\ run = [t \in TaskIds |-> "none"]
    /\ running = 0
    /\ inbox = {} /\ admitting = {} /\ admitted = {}
    /\ caller = [u \in TaskCallers |-> IdleCaller]
    /\ escrow = [j \in TaskJobs |-> [status |-> "funded", by |-> NoTask]]

TerminalTask(t) == tasks[t] # NoTask /\ tasks[t].state \in {"delivered", "failed"}

-----------------------------------------------------------------------------
(* The client: a slot at the endpoint, the attempts, then the polls.         *)
AtEndpoint == {u \in TaskCallers : caller[u].stage \in {"calling", "polling"}}
RunTask(u, t, j) ==
    /\ caller[u].stage = "idle"
    /\ IF Cardinality(AtEndpoint) >= MaxPerEndpoint
       THEN caller' = [caller EXCEPT ![u] = DoneCaller] /\ UNCHANGED inbox
       ELSE /\ caller' = [caller EXCEPT ![u] = Caller("calling", t, j, 1)]
            /\ inbox' = inbox \cup {Request(u)'}
    /\ UNCHANGED <<serverVars, escrow>>

(* No answer in time, or none that is one: try again, at most MaxAttempts.   *)
AttemptFails(u) ==
    /\ caller[u].stage = "calling"
    /\ IF caller[u].attempt < MaxAttempts
       THEN /\ caller' = [caller EXCEPT ![u].attempt = @ + 1]
            /\ inbox' = inbox \cup {Request(u)'}
       ELSE caller' = [caller EXCEPT ![u] = DoneCaller] /\ UNCHANGED inbox
    /\ UNCHANGED <<serverVars, escrow>>

(* A poll finds the task ended, its answer is lost, or it is one too many.   *)
PollingEnds(u) ==
    /\ caller[u].stage = "polling"
    /\ caller' = [caller EXCEPT ![u] = DoneCaller]
    /\ UNCHANGED <<serverVars, inbox, escrow>>

(* What the server says of an attempt is heard, unless the answer is lost or
   the client has moved on.                                                  *)
Hears(r) == Request(r.from) = r /\ caller[r.from].stage = "calling"
Accepts(r) ==
    \/ UNCHANGED caller
    \/ Hears(r) /\ caller' = [caller EXCEPT ![r.from].stage = "polling"]
Refuses(r) ==
    \/ UNCHANGED caller
    \/ Hears(r) /\ caller' = [caller EXCEPT ![r.from] = DoneCaller]

-----------------------------------------------------------------------------
(* task/create, up to the question it asks the chain.                        *)
SameContent(r) == tasks[r.task].job = r.job

CreateArrives(r) ==
    /\ r \in inbox
    /\ inbox' = inbox \ {r}
    /\ \/ /\ tasks[r.task] # NoTask
          /\ IF SameContent(r) THEN Accepts(r) ELSE Refuses(r)
          /\ UNCHANGED admitting
       \/ /\ tasks[r.task] = NoTask
          /\ running >= MaxConcurrent
          /\ Refuses(r)
          /\ UNCHANGED admitting
       \/ /\ tasks[r.task] = NoTask
          /\ running < MaxConcurrent
          /\ admitting' = admitting \cup {r}
          /\ UNCHANGED caller
    /\ UNCHANGED <<tasks, run, running, admitted, escrow>>

(* Faulty: the record of an earlier request is overwritten.                  *)
OverwritingId(t) == TRUE
FreeId(t) == tasks[t] = NoTask

(* admit: the job's record, then the clock, the gate and the policy, so that
   the verdict is old by the time the task is created.                       *)
VerdictRead(r) ==
    /\ r \in admitting
    /\ admitting' = admitting \ {r}
    /\ IF escrow[r.job].status = "funded"
       THEN admitted' = admitted \cup {r} /\ UNCHANGED caller
       ELSE Refuses(r) /\ UNCHANGED admitted
    /\ UNCHANGED <<tasks, run, running, inbox, escrow>>

(* create and accept, or "id already used"; the handler starts at once.      *)
StartWork(r) ==
    /\ tasks' = [tasks EXCEPT ![r.task] = [job |-> r.job, state |-> "working"]]
    /\ run' = [run EXCEPT ![r.task] = "handling"]
    /\ running' = running + 1
CreateTask(r) ==
    /\ r \in admitted
    /\ admitted' = admitted \ {r}
    /\ IF FreeId(r.task)
       THEN StartWork(r) /\ Accepts(r)
       ELSE Refuses(r) /\ UNCHANGED <<tasks, run, running>>
    /\ UNCHANGED <<admitting, inbox, escrow>>

-----------------------------------------------------------------------------
(* The machine's transitions, refused from any other state.                  *)
Transitioned(t, from, to) ==
    IF tasks[t] # NoTask /\ tasks[t].state \in from
    THEN [tasks EXCEPT ![t].state = to]
    ELSE tasks
(* Faulty: a delivery is taken whatever has happened to the task.            *)
DeliverFromAny(t) == Transitioned(t, {"working", "failed"}, "delivered")
Deliver(t) == Transitioned(t, {"working"}, "delivered")
Fail(t) == Transitioned(t, {"working"}, "failed")

EndRun(t) ==
    /\ run' = [run EXCEPT ![t] = "none"]
    /\ running' = running - 1

HandlerResolves(t) ==
    /\ run[t] = "handling"
    /\ run' = [run EXCEPT ![t] = "settling"]
    /\ UNCHANGED <<tasks, running, inbox, admitting, admitted, caller, escrow>>

(* Faulty: only the handler's own promise is awaited.                        *)
NoDeadline(t) == FALSE
DeadlineRaces(t) == run[t] = "handling"
HandlerThrows(t) ==
    /\ run[t] = "handling"
    /\ tasks' = Fail(t) /\ EndRun(t)
    /\ UNCHANGED <<inbox, admitting, admitted, caller, escrow>>
HandlerTimesOut(t) ==
    /\ DeadlineRaces(t)
    /\ tasks' = Fail(t) /\ EndRun(t)
    /\ UNCHANGED <<inbox, admitting, admitted, caller, escrow>>

(* deliver: the submit lands, or is refused by the chain.                    *)
SubmitLands(t) ==
    /\ run[t] = "settling"
    /\ escrow[tasks[t].job].status = "funded"
    /\ escrow' = [escrow EXCEPT ![tasks[t].job] = [status |-> "submitted", by |-> t]]
    /\ run' = [run EXCEPT ![t] = "submitted"]
    /\ UNCHANGED <<tasks, running, inbox, admitting, admitted, caller>>
SubmitRefused(t) ==
    /\ run[t] = "settling"
    /\ escrow[tasks[t].job].status # "funded"
    /\ tasks' = Fail(t) /\ EndRun(t)
    /\ UNCHANGED <<inbox, admitting, admitted, caller, escrow>>

Deliverable(t) == run[t] = "submitted"
DeliveryReported(t) ==
    /\ Deliverable(t)
    /\ tasks' = Deliver(t) /\ EndRun(t)
    /\ UNCHANGED <<inbox, admitting, admitted, caller, escrow>>
(* The submit was sent and its receipt never read: the run cannot tell.      *)
DeliveryUnheard(t) ==
    /\ run[t] = "submitted"
    /\ tasks' = Fail(t) /\ EndRun(t)
    /\ UNCHANGED <<inbox, admitting, admitted, caller, escrow>>

-----------------------------------------------------------------------------
(* The host, which holds the machine: it may fail a live task from outside,
   and drops the record of one it is finished with (forget) or of a failed
   one gone quiet (sweep), in both cases once its run has ended.             *)
HostFails(t) ==
    /\ tasks[t] # NoTask /\ tasks[t].state = "working"
    /\ tasks' = Fail(t)
    /\ UNCHANGED <<run, running, inbox, admitting, admitted, caller, escrow>>
HostDrops(t) ==
    /\ TerminalTask(t) /\ run[t] = "none"
    /\ tasks' = [tasks EXCEPT ![t] = NoTask]
    /\ UNCHANGED <<run, running, inbox, admitting, admitted, caller, escrow>>

(* The job is settled or refunded by others.                                 *)
JobCloses(j) ==
    /\ escrow[j].status # "closed"
    /\ escrow' = [escrow EXCEPT ![j].status = "closed"]
    /\ UNCHANGED <<serverVars, inbox, caller>>

RunStep(t) == HandlerTimesOut(t) \/ SubmitLands(t) \/ SubmitRefused(t) \/ DeliveryReported(t)
TaskServerNext ==
    \/ \E u \in TaskCallers :
          \/ \E t \in TaskIds, j \in TaskJobs : RunTask(u, t, j)
          \/ AttemptFails(u) \/ PollingEnds(u)
    \/ \E r \in inbox : CreateArrives(r)
    \/ \E r \in admitting : VerdictRead(r)
    \/ \E r \in admitted : CreateTask(r)
    \/ \E t \in TaskIds :
          RunStep(t) \/ HandlerResolves(t) \/ HandlerThrows(t) \/ DeliveryUnheard(t) \/ HostFails(t) \/ HostDrops(t)
    \/ \E j \in TaskJobs : JobCloses(j)

TaskServerSpec == TaskServerInit /\ [][TaskServerNext]_taskServerVars

-----------------------------------------------------------------------------
(* The slots counted are the runs there are, whatever ended them and however
   often (server.ts, "The race is what gives the slot back").                *)
SlotsAreRuns == running = Cardinality({t \in TaskIds : run[t] # "none"})

(* A task says DELIVERED only when the chain carries its own submit
   (settlement.ts, "DELIVERED is produced by the chain").                    *)
DeliveredIsOnChain ==
    \A t \in TaskIds :
        tasks[t] # NoTask /\ tasks[t].state = "delivered" => escrow[tasks[t].job].by = t

(* A task that has ended stays as it ended until its record is dropped: no
   late handler, retry or receipt revives it (task-machine.ts).              *)
EndedStaysEnded ==
    [][\A t \in TaskIds : TerminalTask(t) => tasks'[t] \in {tasks[t], NoTask}]_taskServerVars

(* A live task has its one run: no retry starts a second handler for it, and
   none is left waiting for a run that has ended.                            *)
WorkingHasItsRun ==
    \A t \in TaskIds : tasks[t] # NoTask /\ tasks[t].state = "working" => run[t] # "none"

(* Slots, runs, tasks and the chain tell one story (server.ts).              *)
TasksAreAccountedFor == SlotsAreRuns /\ DeliveredIsOnChain /\ WorkingHasItsRun

(* Every accepted task ends, with a handler that never returns too.          *)
EveryTaskEnds ==
    \A t \in TaskIds : tasks[t] # NoTask ~> (tasks[t] = NoTask \/ TerminalTask(t))

(* "Concurrent tasks this provider will run. Beyond it, callers get a
   retryable Busy." (server.ts:60)                                           *)
RunsWithinLimit == running <= MaxConcurrent
=============================================================================
