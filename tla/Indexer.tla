------------------------------- MODULE Indexer -------------------------------
(* The indexer (services/indexer/src/sync.ts, reducer.ts): the contracts'    *)
(* logs, read in block ranges, journalled once each and reduced into rows in *)
(* one transaction per range; a restart replays the journal.  One job, and   *)
(* one event to a block, are enough for what can go wrong between a batch, a *)
(* failure and a restart.                                                    *)
EXTENDS Integers, Sequences, FiniteSets

CONSTANTS
    BatchBlocks,              \* BATCH_BLOCKS
    LastBlock,                \* bound on the chain
    Deployments,              \* the deployment records there are, 1 the first
    MaxMisfortunes            \* bound on lost journal rows, crashes and redeployments

ASSUME IndexerAssumption ==
    /\ {BatchBlocks, LastBlock} \subseteq Nat \ {0}
    /\ 1 \in Deployments /\ Deployments \subseteq Nat
    /\ MaxMisfortunes \in Nat

VARIABLES
    chainLog,     \* the event of each block: its deployment and kind
    journal, jobRow, ledgerRow, checkpoint, quarantined,      \* the database
    deployed,     \* the deployment record the process is started with
    phase, state, persistedLedger, cursor,                    \* the process
    draft,        \* a batch's outcome between its commit and its adoption
    misfortunes

databaseVars == <<journal, jobRow, ledgerRow, checkpoint, quarantined>>
memoryVars == <<state, persistedLedger, cursor>>
indexerVars == <<chainLog, databaseVars, deployed, phase, memoryVars, draft, misfortunes>>

EmptyState == [status |-> "absent", disputed |-> FALSE, at |-> 0, ledger |-> 0]
NoJobRow == [status |-> "absent", disputed |-> FALSE, at |-> 0]
NoCheckpoint == [deployment |-> 0, block |-> 0]
RowOf(st) == [status |-> st.status, disputed |-> st.disputed, at |-> st.at]

IndexerInit ==
    /\ chainLog = <<>>
    /\ journal = {} /\ jobRow = NoJobRow /\ ledgerRow = 0
    /\ checkpoint = NoCheckpoint /\ quarantined = {}
    /\ deployed = 1
    /\ phase = "down"
    /\ state = EmptyState /\ persistedLedger = 0 /\ cursor = 0
    /\ draft = EmptyState
    /\ misfortunes = 0

Misfortunes(n) == misfortunes + n <= MaxMisfortunes /\ misfortunes' = misfortunes + n

-----------------------------------------------------------------------------
(* The reducer.  A case that needs a job it has not seen throws before it
   changes anything.                                                         *)
Rejects(st, kind) == kind \in {"submitted", "disputed"} /\ st.status = "absent"
Applied(st, b) ==
    CASE chainLog[b].kind = "created" -> [st EXCEPT !.status = "open", !.at = b]
      [] chainLog[b].kind = "submitted" -> [st EXCEPT !.status = "submitted", !.at = b]
      [] chainLog[b].kind = "disputed" -> [st EXCEPT !.disputed = TRUE, !.at = b]
      [] chainLog[b].kind = "paid" -> [st EXCEPT !.ledger = @ + 1]
Reduced(st, b) == IF Rejects(st, chainLog[b].kind) THEN st ELSE Applied(st, b)
(* The state after each block, as the events of blocks come in order.        *)
Course(st, blocks) ==
    LET after[b \in 0 .. LastBlock] ==
            IF b = 0 THEN st
            ELSE IF b \in blocks THEN Reduced(after[b - 1], b) ELSE after[b - 1]
    IN after
Reduce(st, blocks) == Course(st, blocks)[LastBlock]
(* The events of blocks that were rejected where they stood.                 *)
RejectedFrom(st, blocks) ==
    LET after == Course(st, blocks)
    IN {b \in blocks : Rejects(after[b - 1], chainLog[b].kind)}

(* The chain: a job is created, submitted, disputed, paid, by by each
   deployment; a new one is there before the indexer is told of it.          *)
KindsOf(d) == {chainLog[b].kind : b \in {a \in DOMAIN chainLog : chainLog[a].deployment = d}}
MayEmit(d, kind) ==
    CASE kind = "created" -> "created" \notin KindsOf(d)
      [] kind = "submitted" -> "created" \in KindsOf(d) /\ "submitted" \notin KindsOf(d)
      [] kind = "disputed" -> "submitted" \in KindsOf(d) /\ "disputed" \notin KindsOf(d)
      [] kind = "paid" -> "submitted" \in KindsOf(d)
      [] kind = "none" -> TRUE
BlockIsMined ==
    /\ Len(chainLog) < LastBlock
    /\ \E d \in Deployments, kind \in {"created", "submitted", "disputed", "paid", "none"} :
          /\ MayEmit(d, kind)
          /\ chainLog' = Append(chainLog, [deployment |-> d, kind |-> kind])
    /\ UNCHANGED <<databaseVars, deployed, phase, memoryVars, draft, misfortunes>>

-----------------------------------------------------------------------------
(* The journal read back on start.                                           *)
Replayed == Reduce(EmptyState, journal)

ReplayJournal ==
    /\ state' = Replayed
    /\ persistedLedger' = Replayed.ledger

DeploymentChanged == checkpoint.deployment \notin {0, deployed}

IndexerStarts ==
    /\ phase = "down"
    /\ ~DeploymentChanged
    /\ phase' = "idle"
    /\ ReplayJournal
    /\ cursor' = checkpoint.block
    /\ quarantined' = quarantined \cup RejectedFrom(EmptyState, journal)
    /\ UNCHANGED <<chainLog, journal, jobRow, ledgerRow, checkpoint, deployed, draft, misfortunes>>

(* ON_DEPLOYMENT_CHANGE=restart: the derived rows go in one transaction, the
   checkpoint stays until the first batch of the new deployment.             *)
ClearDerivedRows == jobRow' = NoJobRow /\ ledgerRow' = 0 /\ quarantined' = {} /\ journal' = {}
StartsOver ==
    /\ phase = "down"
    /\ DeploymentChanged
    /\ phase' = "idle"
    /\ ClearDerivedRows
    /\ state' = EmptyState /\ persistedLedger' = 0 /\ cursor' = 0
    /\ UNCHANGED <<chainLog, checkpoint, deployed, draft, misfortunes>>

IndexerCrashes ==
    /\ phase # "down"
    /\ Misfortunes(1)
    /\ phase' = "down"
    /\ state' = EmptyState /\ persistedLedger' = 0 /\ cursor' = 0
    /\ draft' = EmptyState
    /\ UNCHANGED <<chainLog, databaseVars, deployed>>

Redeployed ==
    /\ phase = "down"
    /\ Misfortunes(1)
    /\ deployed' \in {d \in Deployments : d > deployed}
    /\ UNCHANGED <<chainLog, databaseVars, phase, memoryVars, draft>>

-----------------------------------------------------------------------------
(* syncOnce: the head, then the range up to it, split where the node refuses
   it as too large and put together again in order.                          *)
RangeToRead == cursor + 1 .. (IF cursor + BatchBlocks < Len(chainLog)
                              THEN cursor + BatchBlocks ELSE Len(chainLog))
EventsOf(range) ==
    {b \in range \cap DOMAIN chainLog : chainLog[b].deployment = deployed /\ chainLog[b].kind # "none"}
LastOf(range) == CHOOSE b \in range : \A a \in range : a <= b

(* The upsert refuses a row older than the one it would replace.             *)
Upserted(st, touched) ==
    IF touched /\ st.status # "absent" /\ jobRow.at <= st.at THEN RowOf(st) ELSE jobRow

(* The transaction of a batch: each log in a savepoint of its own, so that
   `refused` of them are set aside; the rest are journalled, the ones not seen
   before are applied to a copy, the touched rows and the difference of the
   ledger are written, the checkpoint moves.                                 *)
BatchCommits(range, refused) ==
    LET fresh == (EventsOf(range) \ refused) \ journal
        after == Reduce(state, fresh)
        rejected == RejectedFrom(state, fresh)
    IN /\ journal' = journal \cup fresh
       /\ jobRow' = Upserted(after, fresh \ rejected # {})
       /\ ledgerRow' = ledgerRow + (after.ledger - persistedLedger)
       /\ checkpoint' = [deployment |-> deployed, block |-> LastOf(range)]
       /\ quarantined' = quarantined \cup refused \cup rejected

SyncCommits ==
    /\ phase = "idle" /\ RangeToRead # {}
    /\ \E refused \in SUBSET EventsOf(RangeToRead) :
          /\ Misfortunes(Cardinality(refused))
          /\ BatchCommits(RangeToRead, refused)
          /\ draft' = Reduce(state, (EventsOf(RangeToRead) \ refused) \ journal)
    /\ phase' = "committed"
    /\ UNCHANGED <<chainLog, deployed, memoryVars>>

(* The copy is adopted only after the commit.                                *)
AdoptDraft ==
    /\ phase = "committed"
    /\ phase' = "idle"
    /\ state' = draft
    /\ persistedLedger' = draft.ledger
    /\ cursor' = checkpoint.block
    /\ draft' = EmptyState
    /\ UNCHANGED <<chainLog, databaseVars, deployed, misfortunes>>

(* A failed transaction leaves everything as it was.                         *)
(* Faulty: the batch was reduced in place.                                   *)
RollsBackInPlace ==
    /\ phase = "idle" /\ RangeToRead # {}
    /\ Misfortunes(1)
    /\ state' = Reduce(state, EventsOf(RangeToRead) \ journal)
    /\ UNCHANGED <<chainLog, databaseVars, deployed, phase, persistedLedger, cursor, draft>>
RollsBack ==
    /\ phase = "idle" /\ RangeToRead # {}
    /\ Misfortunes(1)
    /\ UNCHANGED <<chainLog, databaseVars, deployed, phase, memoryVars, draft>>

IndexerStep == IndexerStarts \/ StartsOver \/ SyncCommits \/ AdoptDraft
IndexerNext == BlockIsMined \/ IndexerCrashes \/ Redeployed \/ RollsBack \/ IndexerStep

IndexerSpec == IndexerInit /\ [][IndexerNext]_indexerVars

-----------------------------------------------------------------------------
(* The indexer's variables keep their shape.                                 *)
IndexerTypeOK ==
    /\ journal \subseteq DOMAIN chainLog /\ quarantined \subseteq DOMAIN chainLog
    /\ checkpoint.block \in 0..Len(chainLog) /\ cursor \in 0..Len(chainLog)
    /\ ledgerRow \in 0..LastBlock /\ persistedLedger \in 0..LastBlock
    /\ phase \in {"down", "idle", "committed"}

(* The rows are the reduction of the journal at every moment, whatever
   crashed, was rolled back or was set aside: the journal, the rows and the
   ledger's running total move in one transaction (services/indexer/README.md).*)
RowsAreTheJournal ==
    /\ jobRow = RowOf(Replayed)
    /\ ledgerRow = Replayed.ledger

(* "A rolled-back batch therefore leaves the in-memory state and the persisted
   ledger cursor exactly where they were, and the retry applies each log once"
   (services/indexer/README.md:21): between batches the process holds the
   reduction of the journal, the same a restart would rebuild.               *)
MemoryIsTheJournal ==
    phase = "idle" => state = Replayed /\ persistedLedger = ledgerRow

(* No log below the checkpoint of the deployment in force is missing from
   both the journal and the quarantine.                                      *)
NothingSkipped ==
    checkpoint.deployment = deployed =>
        EventsOf(1..checkpoint.block) \subseteq journal \cup quarantined

(* The mirror holds one deployment at a time: what a running process serves
   comes from the contracts it was started with.                             *)
OneDeployment ==
    phase # "down" => \A b \in journal : chainLog[b].deployment = deployed

(* The journal is the truth: rows and memory are its reduction, and it holds
   every log of the one deployment up to the checkpoint (sync.ts).           *)
JournalIsTheTruth ==
    IndexerTypeOK /\ RowsAreTheJournal /\ MemoryIsTheJournal /\ NothingSkipped /\ OneDeployment

(* Every log of the deployment in force reaches the journal or the quarantine,
   or the chain of deployments moves on.                                     *)
EveryLogArrives ==
    \A b \in 1..LastBlock : [](b \in EventsOf(DOMAIN chainLog)
                                => <>(b \in journal \cup quarantined \/ b \notin EventsOf(DOMAIN chainLog)))
=============================================================================
