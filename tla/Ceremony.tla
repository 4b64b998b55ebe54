------------------------------- MODULE Ceremony -------------------------------
(* The phase-2 ceremony (circuits/scripts/ceremony.mjs): the chain of keys in *)
(* build/ceremony and the transcript beside it are two states, written one   *)
(* after the other by commands that may die in between.  The directory is    *)
(* handed from contributor to coordinator, so one command runs at a time; a  *)
(* person may lose a key, put it back, or reconcile the transcript by hand.  *)
(* A key is the sequence of the contributions mixed into it, each a number;  *)
(* TornMix stands for one that snarkjs did not finish.                          *)
EXTENDS Integers, Sequences, FiniteSets, FiniteSetsExt

CONSTANTS
    MaxMixes,               \* bound on contributions
    CeremonyMaxTime,        \* bound on the clock; drand's round r lands at time r
    MaxCeremonyMishaps      \* bound on crashes, failed read-backs and lost keys

ASSUME CeremonyAssumption == {MaxMixes, CeremonyMaxTime, MaxCeremonyMishaps} \subseteq Nat

VARIABLES
    zkeys,          \* payment_NNNN.zkey: index -> chain, of those on disk
    finalZkey,      \* payment_final.zkey: its chain and the round sealed into it
    ceremonyVk,     \* payment_vk.json: the final key it was exported from
    repositoryVk,   \* build/payment_vk.json, likewise
    transcript,     \* begun, the contributions, the beacon's round, the final section
    shell,          \* the command that runs, and the index and round it took
    mixes,          \* finished contributions, their hashes printed: chain and time
    ceremonyNow, ceremonyMishaps

ceremonyVars == <<zkeys, finalZkey, ceremonyVk, repositoryVk, transcript, shell, mixes,
                  ceremonyNow, ceremonyMishaps>>
ceremonyKeys == <<zkeys, finalZkey, ceremonyVk, repositoryVk>>

TornMix == 0
WithKey(i, chain) == [k \in DOMAIN zkeys \cup {i} |-> IF k = i THEN chain ELSE zkeys[k]]
NoFinalKey == [chain |-> <<>>, round |-> 0]
Command(at, index, round) == [at |-> at, index |-> index, round |-> round]
AtPrompt == Command("prompt", 0, 0)

CeremonyInit ==
    /\ zkeys = <<>>
    /\ finalZkey = NoFinalKey /\ ceremonyVk = NoFinalKey /\ repositoryVk = NoFinalKey
    /\ transcript = [begun |-> FALSE, entries |-> <<>>, round |-> 0, vk |-> NoFinalKey]
    /\ shell = AtPrompt
    /\ mixes = <<>> /\ ceremonyNow = 0 /\ ceremonyMishaps = 0

Recorded == transcript.entries
LastEntry == Recorded[Len(Recorded)]
LastMix(chain) == chain[Len(chain)]
HasFinalKey == finalZkey # NoFinalKey
WholeKey(chain) == chain = <<>> \/ LastMix(chain) # TornMix

(* chainState and assertChainAgreesWithTranscript.                           *)
ChainTip == IF DOMAIN zkeys = {} THEN -1 ELSE Max(DOMAIN zkeys)
NoGap == 0 .. ChainTip \subseteq DOMAIN zkeys
(* Faulty: the end of the chain is where the transcript says it is.          *)
TranscriptIsBelieved == Len(Recorded) \in DOMAIN zkeys
ChainAgrees == ChainTip >= 0 /\ NoGap /\ ChainTip = Len(Recorded)
(* The key a command goes on from.                                           *)
ChainEnd == Len(Recorded)

-----------------------------------------------------------------------------
AtShell(at) == shell.at = at
Does(at) == shell' = [shell EXCEPT !.at = at]
CeremonyMishap == ceremonyMishaps < MaxCeremonyMishaps /\ ceremonyMishaps' = ceremonyMishaps + 1
NoCeremonyMishap == UNCHANGED ceremonyMishaps

InitSetsUp ==
    /\ AtShell("prompt") /\ ~transcript.begun
    /\ zkeys' = WithKey(0, <<>>)
    /\ shell' = Command("setUp", 0, 0)
    /\ UNCHANGED <<finalZkey, ceremonyVk, repositoryVk, transcript, mixes, ceremonyNow>> /\ NoCeremonyMishap

InitRecords ==
    /\ AtShell("setUp")
    /\ transcript' = [transcript EXCEPT !.begun = TRUE]
    /\ shell' = AtPrompt
    /\ UNCHANGED <<ceremonyKeys, mixes, ceremonyNow>> /\ NoCeremonyMishap

(* contribute: snarkjs opens the next key ...                                *)
ContributeStarts ==
    /\ AtShell("prompt") /\ transcript.begun /\ Len(mixes) < MaxMixes
    /\ ChainAgrees
    /\ shell' = Command("mixing", ChainEnd + 1, 0)
    /\ zkeys' = WithKey(ChainEnd + 1, Append(zkeys[ChainEnd], TornMix))
    /\ UNCHANGED <<finalZkey, ceremonyVk, repositoryVk, transcript, mixes, ceremonyNow>> /\ NoCeremonyMishap

(* ... finishes it, and prints the contributor their hash ...                *)
MixEnds ==
    /\ AtShell("mixing")
    /\ LET chain == Append(zkeys[shell.index - 1], Len(mixes) + 1) IN
        /\ zkeys' = [zkeys EXCEPT ![shell.index] = chain]
        /\ mixes' = Append(mixes, [chain |-> chain, at |-> ceremonyNow])
    /\ Does("mixed")
    /\ UNCHANGED <<finalZkey, ceremonyVk, repositoryVk, transcript, ceremonyNow>> /\ NoCeremonyMishap

(* ... which the transcript knows of from here on: zkey_sha256 is the chain, *)
(* transcript_hash the contribution, null until the key is read back.        *)
Link(chain, hash, at) == [zkey |-> chain, hash |-> hash, at |-> at]
RecordsContribution ==
    /\ AtShell("mixed")
    /\ transcript' = [transcript EXCEPT !.entries =
                        Append(@, Link(zkeys[shell.index], TornMix, ceremonyNow))]
    /\ Does("recorded")
    /\ UNCHANGED <<ceremonyKeys, mixes, ceremonyNow>> /\ NoCeremonyMishap

ReadsBack ==
    /\ AtShell("recorded")
    /\ transcript' = [transcript EXCEPT !.entries[Len(Recorded)].hash = LastMix(zkeys[shell.index])]
    /\ shell' = AtPrompt
    /\ UNCHANGED <<ceremonyKeys, mixes, ceremonyNow>> /\ NoCeremonyMishap

(* beacon: the round lands after the last contribution, and drand has it.    *)
BeaconSeals(r) ==
    /\ AtShell("prompt") /\ transcript.begun
    /\ transcript.round = 0 /\ Recorded # <<>>
    /\ ChainAgrees
    /\ r > LastEntry.at /\ r <= ceremonyNow
    /\ finalZkey' = [chain |-> Append(zkeys[ChainEnd], TornMix), round |-> r]
    /\ shell' = Command("sealing", ChainEnd, r)
    /\ UNCHANGED <<zkeys, ceremonyVk, repositoryVk, transcript, mixes, ceremonyNow>> /\ NoCeremonyMishap

SealEnds ==
    /\ AtShell("sealing")
    /\ finalZkey' = [chain |-> zkeys[shell.index], round |-> shell.round]
    /\ Does("sealed")
    /\ UNCHANGED <<zkeys, ceremonyVk, repositoryVk, transcript, mixes, ceremonyNow>> /\ NoCeremonyMishap

BeaconRecords ==
    /\ AtShell("sealed")
    /\ transcript' = [transcript EXCEPT !.round = shell.round]
    /\ shell' = AtPrompt
    /\ UNCHANGED <<ceremonyKeys, mixes, ceremonyNow>> /\ NoCeremonyMishap

FinalizeExports ==
    /\ AtShell("prompt") /\ transcript.round # 0
    /\ ceremonyVk' = finalZkey
    /\ shell' = Command("exported", 0, 0)
    /\ UNCHANGED <<zkeys, finalZkey, repositoryVk, transcript, mixes, ceremonyNow>> /\ NoCeremonyMishap

FinalizeRecords ==
    /\ AtShell("exported")
    /\ transcript' = [transcript EXCEPT !.vk = ceremonyVk]
    /\ shell' = AtPrompt
    /\ UNCHANGED <<ceremonyKeys, mixes, ceremonyNow>> /\ NoCeremonyMishap

(* A command dies where it stands; a failed read-back ends contribute alike. *)
CommandDies ==
    /\ ~AtShell("prompt") /\ shell' = AtPrompt
    /\ UNCHANGED <<ceremonyKeys, transcript, mixes, ceremonyNow>> /\ CeremonyMishap

-----------------------------------------------------------------------------
(* verify-chain, as its sections add up.                                     *)
KeysOnDiskAgree == \/ ChainTip < 0 /\ HasFinalKey
                   \/ NoGap /\ ChainTip = Len(Recorded)
EveryEntryRead == \A i \in DOMAIN Recorded : Recorded[i].hash # TornMix
(* contributionMismatches finds none.                                        *)
ContributionsMatch ==
    /\ Len(finalZkey.chain) = Len(Recorded)
    /\ \A i \in DOMAIN Recorded : finalZkey.chain[i] = Recorded[i].hash
BeaconIsSound == transcript.round = finalZkey.round /\ finalZkey.round > LastEntry.at
VerifyingKeysMatch ==
    ceremonyVk = finalZkey /\ transcript.vk = ceremonyVk /\ repositoryVk = finalZkey
VerifyChainPasses ==
    /\ transcript.begun /\ KeysOnDiskAgree /\ EveryEntryRead
    /\ HasFinalKey /\ WholeKey(finalZkey.chain) /\ Len(finalZkey.chain) >= 2
    /\ ContributionsMatch /\ BeaconIsSound /\ VerifyingKeysMatch

-----------------------------------------------------------------------------
(* What people do between commands.  A recorded key is lost or never arrives *)
(* and comes back from whoever made it.                                      *)
KeyIsLost(i) ==
    /\ AtShell("prompt") /\ i \in DOMAIN zkeys /\ i <= Len(Recorded)
    /\ zkeys' = [k \in DOMAIN zkeys \ {i} |-> zkeys[k]]
    /\ UNCHANGED <<finalZkey, ceremonyVk, repositoryVk, transcript, shell, mixes, ceremonyNow>> /\ CeremonyMishap

PublishedKeys == {<<>>} \cup {mixes[m].chain : m \in DOMAIN mixes}
KeyIsRestored(chain) ==
    /\ AtShell("prompt") /\ transcript.begun /\ Len(chain) \notin DOMAIN zkeys
    /\ zkeys' = WithKey(Len(chain), chain)
    /\ UNCHANGED <<finalZkey, ceremonyVk, repositoryVk, transcript, shell, mixes, ceremonyNow>> /\ NoCeremonyMishap

(* As the refusal asks: inspect the key nobody recorded.  A whole one goes   *)
(* into the transcript with the time of its file, a torn one away.           *)
UnrecordedKey == AtShell("prompt") /\ transcript.begun /\ NoGap /\ ChainTip = Len(Recorded) + 1
ReconcilesByHand ==
    /\ UnrecordedKey /\ WholeKey(zkeys[ChainTip])
    /\ transcript' = [transcript EXCEPT !.entries =
            Append(@, Link(zkeys[ChainTip], LastMix(zkeys[ChainTip]), mixes[LastMix(zkeys[ChainTip])].at))]
    /\ UNCHANGED <<ceremonyKeys, shell, mixes, ceremonyNow>> /\ NoCeremonyMishap
RemovesTornKey ==
    /\ UnrecordedKey /\ ~WholeKey(zkeys[ChainTip])
    /\ zkeys' = [k \in 0 .. ChainTip - 1 |-> zkeys[k]]
    /\ UNCHANGED <<finalZkey, ceremonyVk, repositoryVk, transcript, shell, mixes, ceremonyNow>> /\ NoCeremonyMishap

FillsInByHand(i) ==
    /\ AtShell("prompt") /\ Recorded[i].hash = TornMix /\ i \in DOMAIN zkeys
    /\ transcript' = [transcript EXCEPT !.entries[i].hash = LastMix(zkeys[i])]
    /\ UNCHANGED <<ceremonyKeys, shell, mixes, ceremonyNow>> /\ NoCeremonyMishap

(* The exported key is installed; the intermediate ones of a verified chain  *)
(* are put away.                                                             *)
InstallsVerifyingKey ==
    /\ AtShell("prompt") /\ ceremonyVk # NoFinalKey /\ repositoryVk # ceremonyVk
    /\ repositoryVk' = ceremonyVk
    /\ UNCHANGED <<zkeys, finalZkey, ceremonyVk, transcript, shell, mixes, ceremonyNow>> /\ NoCeremonyMishap
PutsKeysAway ==
    /\ AtShell("prompt") /\ VerifyChainPasses /\ zkeys # <<>>
    /\ zkeys' = <<>>
    /\ UNCHANGED <<finalZkey, ceremonyVk, repositoryVk, transcript, shell, mixes, ceremonyNow>> /\ NoCeremonyMishap

CeremonyClock ==
    /\ ceremonyNow < CeremonyMaxTime /\ ceremonyNow' = ceremonyNow + 1
    /\ UNCHANGED <<ceremonyKeys, transcript, shell, mixes>> /\ NoCeremonyMishap

CeremonyNext ==
    \/ InitSetsUp \/ InitRecords
    \/ ContributeStarts \/ MixEnds \/ RecordsContribution \/ ReadsBack
    \/ \E r \in 1 .. CeremonyMaxTime : BeaconSeals(r)
    \/ SealEnds \/ BeaconRecords \/ FinalizeExports \/ FinalizeRecords
    \/ CommandDies
    \/ \E i \in 0 .. MaxMixes : KeyIsLost(i)
    \/ \E chain \in PublishedKeys : KeyIsRestored(chain)
    \/ \E i \in DOMAIN Recorded : FillsInByHand(i)
    \/ ReconcilesByHand \/ RemovesTornKey \/ InstallsVerifyingKey \/ PutsKeysAway
    \/ CeremonyClock

CeremonySpec == CeremonyInit /\ [][CeremonyNext]_ceremonyVars

-----------------------------------------------------------------------------
(* A contribution whose hash was printed is kept as it was made: its key is  *)
(* on disk, or the transcript records it (contribute, square#234).           *)
NoLinkIsDropped ==
    \A m \in DOMAIN mixes :
        LET chain == mixes[m].chain  i == Len(chain) IN
        \/ i \in DOMAIN zkeys /\ zkeys[i] = chain
        \/ i \in DOMAIN Recorded /\ Recorded[i].zkey = chain

(* When verify-chain passes, the final key holds every contribution anyone   *)
(* was shown the hash of, in order and no other, under a round later than    *)
(* all of them, and both verifying keys come from it.                        *)
VerdictIsTrue ==
    VerifyChainPasses =>
        /\ finalZkey.chain = [m \in DOMAIN mixes |-> m]
        /\ \A m \in DOMAIN mixes : mixes[m].at < finalZkey.round
        /\ ceremonyVk = finalZkey /\ repositoryVk = finalZkey

(* The chain loses no printed link, and is what verify-chain says it is.     *)
CeremonyHolds == NoLinkIsDropped /\ VerdictIsTrue
=============================================================================
