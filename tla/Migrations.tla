------------------------------ MODULE Migrations ------------------------------
(* The migration runner (packages/data/src/migrate.ts): each runner reads    *)
(* what is applied, plans, and then takes the lock once per migration, so    *)
(* that other runners and other hands come in between.  What a migration     *)
(* makes is one object, a table or a column on an earlier one's table.       *)
EXTENDS Integers, Sequences, FiniteSets, SequencesExt

CONSTANTS
    LastMigration,     \* migrations are numbered from 1
    Alters,            \* [1 .. LastMigration -> 0 .. LastMigration]: whose table it alters, 0 for none
    IfExists,          \* those whose down script does not mind an absent object
    Runners,
    MaxByHand          \* bound on objects somebody makes by hand

Numbers == 1 .. LastMigration
ASSUME MigrationsAssumption ==
    /\ LastMigration \in Nat /\ MaxByHand \in Nat
    /\ IfExists \subseteq Numbers
    /\ Alters \in [Numbers -> 0 .. LastMigration] /\ \A m \in Numbers : Alters[m] < m

VARIABLES
    rows,        \* schema_migrations
    objects,     \* the migrations whose object exists
    handMade,    \* of these, the ones a hand made that no migration owns
    runner,      \* stage, direction, what is left of the plan, what was done
    applications, byHand,
    downOverlapped   \* whether a down ever ran beside another runner or a hand

migrationVars == <<rows, objects, handMade, runner, applications, byHand, downOverlapped>>

MigrationsInit ==
    /\ rows = {} /\ objects = {} /\ handMade = {}
    /\ runner = [r \in Runners |-> [stage |-> "none", up |-> TRUE, plan |-> <<>>, done |-> {}]]
    /\ applications = [m \in Numbers |-> 0] /\ byHand = 0 /\ downOverlapped = FALSE

ByNumber(ms) == CHOOSE s \in [1 .. Cardinality(ms) -> ms] : \A i, k \in DOMAIN s : i < k => s[i] < s[k]
RunnersRunning == {r \in Runners : runner[r].stage = "running"}
RunnerReady(r) == runner[r].stage = "running" /\ runner[r].plan # <<>>
NextInPlan(r) == Head(runner[r].plan)

(* The plan is made outside the lock; steps is 0 for all that is pending.    *)
PlanUp(steps) ==
    LET pending == ByNumber(Numbers \ rows) IN
    IF steps = 0 THEN pending ELSE SubSeq(pending, 1, IF steps < Len(pending) THEN steps ELSE Len(pending))
PlanDown(steps) ==
    LET applied == Reverse(ByNumber(rows)) IN
    SubSeq(applied, 1, IF steps < Len(applied) THEN steps ELSE Len(applied))
Overlaps(up) == IF up THEN \E other \in RunnersRunning : ~runner[other].up ELSE RunnersRunning # {}
Plans(r, up, steps) ==
    /\ runner[r].stage = "none" /\ (up \/ steps > 0)
    /\ runner' = [runner EXCEPT ![r].stage = "running", ![r].up = up,
                                ![r].plan = IF up THEN PlanUp(steps) ELSE PlanDown(steps)]
    /\ downOverlapped' = (downOverlapped \/ Overlaps(up))
    /\ UNCHANGED <<rows, objects, handMade, applications, byHand>>

DoesNext(r, what) == runner' = [runner EXCEPT ![r].plan = Tail(@), ![r].done = @ \cup what]
RunnerFails(r, how) == runner' = [runner EXCEPT ![r].stage = how] /\ UNCHANGED <<rows, objects, handMade, applications>>
HasTable(m) == Alters[m] = 0 \/ Alters[m] \in objects

(* One transaction under the lock, which looks again whether it is applied.  *)
AppliedByNow(m) == m \in rows
UpStep(r) ==
    LET m == NextInPlan(r) IN
    /\ RunnerReady(r) /\ runner[r].up
    /\ IF AppliedByNow(m)
       THEN DoesNext(r, {}) /\ UNCHANGED <<rows, objects, handMade, applications>>
       ELSE IF m \in objects THEN RunnerFails(r, "conflict")
       ELSE IF ~HasTable(m) THEN RunnerFails(r, "failed")
       ELSE /\ rows' = rows \cup {m} /\ objects' = objects \cup {m}
            /\ applications' = [applications EXCEPT ![m] = @ + 1]
            /\ DoesNext(r, {<<m, applications[m] + 1>>})
            /\ UNCHANGED handMade
    /\ UNCHANGED <<byHand, downOverlapped>>

(* A down does not look again; a table goes with the columns put on it.      *)
WithColumns(m) == {m} \cup {k \in Numbers : Alters[k] = m}
DownStep(r) ==
    LET m == NextInPlan(r) IN
    /\ RunnerReady(r) /\ ~runner[r].up
    /\ IF HasTable(m) /\ (m \in objects \/ m \in IfExists)
       THEN /\ rows' = rows \ {m}
            /\ objects' = objects \ WithColumns(m)
            /\ handMade' = handMade \ WithColumns(m)
            /\ DoesNext(r, {})
            /\ UNCHANGED applications
       ELSE RunnerFails(r, "failed")
    /\ UNCHANGED <<byHand, downOverlapped>>

RunnerEnds(r) ==
    /\ runner[r].stage = "running" /\ runner[r].plan = <<>>
    /\ runner' = [runner EXCEPT ![r].stage = "ended"]
    /\ UNCHANGED <<rows, objects, handMade, applications, byHand, downOverlapped>>
RunnerDies(r) ==
    /\ runner[r].stage = "running"
    /\ runner' = [runner EXCEPT ![r].stage = "dead", ![r].plan = <<>>]
    /\ UNCHANGED <<rows, objects, handMade, applications, byHand, downOverlapped>>

(* Somebody makes an object by hand, and the two ways out of the conflict.   *)
MakesByHand(m) ==
    /\ byHand < MaxByHand /\ m \notin objects /\ HasTable(m)
    /\ byHand' = byHand + 1
    /\ objects' = objects \cup {m} /\ handMade' = handMade \cup {m}
    /\ UNCHANGED <<rows, runner, applications, downOverlapped>>
ConflictOver(m) == \E r \in Runners : runner[r].stage = "conflict" /\ NextInPlan(r) = m
DropsByHand(m) ==
    /\ m \in handMade /\ ConflictOver(m)
    /\ objects' = objects \ WithColumns(m) /\ handMade' = handMade \ WithColumns(m)
    /\ UNCHANGED <<rows, runner, applications, byHand, downOverlapped>>
RecordsByHand(m) ==
    /\ m \in handMade /\ ConflictOver(m) /\ 1 .. m - 1 \subseteq rows
    /\ downOverlapped' = (downOverlapped \/ Overlaps(TRUE))
    /\ rows' = rows \cup {m} /\ handMade' = handMade \ {m}
    /\ UNCHANGED <<objects, runner, applications, byHand>>

MigrationsNext ==
    \/ \E r \in Runners :
        \/ \E up \in BOOLEAN, steps \in 0 .. LastMigration : Plans(r, up, steps)
        \/ UpStep(r) \/ DownStep(r) \/ RunnerEnds(r) \/ RunnerDies(r)
    \/ \E m \in Numbers : MakesByHand(m) \/ DropsByHand(m) \/ RecordsByHand(m)

MigrationsSpec == MigrationsInit /\ [][MigrationsNext]_migrationVars

-----------------------------------------------------------------------------
(* schema_migrations and the schema agree (the README of the data package):  *)
(* what exists unrecorded was made by hand, so a conflict is raised for a    *)
(* hand-made object only, and one runner lists each application.  While a    *)
(* down has nobody beside it, what is recorded exists and has no gap.        *)
UnrecordedIsHandMade == objects \ rows \subseteq handMade
ConflictsAreReal == \A r \in Runners : runner[r].stage = "conflict" => byHand > 0
OneRunnerListsEach ==
    \A r, s \in Runners : r # s => runner[r].done \cap runner[s].done = {}
RecordedExists == ~downOverlapped => rows \subseteq objects /\ rows = 1 .. Cardinality(rows)
MigrationsHold == UnrecordedIsHandMade /\ ConflictsAreReal /\ OneRunnerListsEach /\ RecordedExists
=============================================================================
