---------------------------------- MODULE Cli ----------------------------------
(* The commands of the CLI that share the keystore file and the registry     *)
(* (packages/cli/src: login, logout, register; core/wallet, core/unlock):    *)
(* register shows a plan for the address on file, and unlocks, sends and     *)
(* reports after prompts and waits during which other commands replace or    *)
(* delete the keystore and other accounts register first.                    *)
EXTENDS Integers, Sequences, FiniteSets

CONSTANTS
    Logins,              \* login commands, each with a key, and so an address, of its own
    Logouts, Registers,  \* the other commands
    NoKeystore, Stranger,
    MaxStrangers         \* bound on registrations of others

ASSUME CliAssumption == NoKeystore \notin Logins /\ Stranger \notin Registers /\ MaxStrangers \in Nat

VARIABLES
    keystore,     \* the address on file
    login,        \* stage of each login and whether it was given --force
    logout,       \* stage of each logout
    register,     \* stage, owner shown, id predicted, and what was told of which id
    registerTx,   \* each command's transaction: signer and fate
    agents        \* the registry: owner of each id, and whose transaction minted it

cliVars == <<keystore, login, logout, register, registerTx, agents>>

CliInit ==
    /\ keystore = NoKeystore
    /\ login = [l \in Logins |-> [stage |-> "none", force |-> FALSE]]
    /\ logout = [o \in Logouts |-> "none"]
    /\ register = [r \in Registers |->
                    [stage |-> "none", owner |-> NoKeystore, predicted |-> 0, told |-> "nothing", id |-> 0]]
    /\ registerTx = [r \in Registers |-> [fate |-> "none", signer |-> NoKeystore]]
    /\ agents = <<>>

-----------------------------------------------------------------------------
(* login looks for a keystore, prompts, and renames the new one into place.  *)
LoginLooks(l, force) ==
    /\ login[l].stage = "none"
    /\ login' = [login EXCEPT ![l] =
                    [stage |-> IF keystore # NoKeystore /\ ~force THEN "ended" ELSE "prompting",
                     force |-> force]]
    /\ UNCHANGED <<keystore, logout, register, registerTx, agents>>
LoginSaves(l) ==
    /\ login[l].stage = "prompting"
    /\ login' = [login EXCEPT ![l].stage = "ended"]
    /\ keystore' = l
    /\ UNCHANGED <<logout, register, registerTx, agents>>
LoginIsCancelled(l) ==
    /\ login[l].stage = "prompting"
    /\ login' = [login EXCEPT ![l].stage = "ended"]
    /\ UNCHANGED <<keystore, logout, register, registerTx, agents>>

(* logout confirms, then deletes what is there by then.                      *)
LogoutLooks(o) ==
    /\ logout[o] = "none"
    /\ logout' = [logout EXCEPT ![o] = IF keystore = NoKeystore THEN "ended" ELSE "confirming"]
    /\ UNCHANGED <<keystore, login, register, registerTx, agents>>
LogoutEnds(o, deletes) ==
    /\ logout[o] = "confirming"
    /\ logout' = [logout EXCEPT ![o] = "ended"]
    /\ keystore' = IF deletes THEN NoKeystore ELSE keystore
    /\ UNCHANGED <<login, register, registerTx, agents>>

-----------------------------------------------------------------------------
(* register: the plan is made for the address on file ...                    *)
RegisterAt(r, stage) == register[r].stage = stage
RegisterTold(r, told) == register' = [register EXCEPT ![r].stage = "ended", ![r].told = told]

TakesAddress(r) ==
    /\ RegisterAt(r, "none")
    /\ IF keystore = NoKeystore
       THEN RegisterTold(r, "unregistered")
       ELSE register' = [register EXCEPT ![r].stage = "simulating", ![r].owner = keystore]
    /\ UNCHANGED <<keystore, login, logout, registerTx, agents>>
Simulates(r) ==
    /\ RegisterAt(r, "simulating")
    /\ register' = [register EXCEPT ![r].stage = "confirming", ![r].predicted = Len(agents) + 1]
    /\ UNCHANGED <<keystore, login, logout, registerTx, agents>>

(* ... confirmed, and the key unlocked only then: it must be the one shown.  *)
SignerIsOwner(r) == keystore = register[r].owner
Unlocks(r) ==
    /\ RegisterAt(r, "confirming")
    /\ IF SignerIsOwner(r)
       THEN /\ register' = [register EXCEPT ![r].stage = "sending"]
            /\ registerTx' = [registerTx EXCEPT ![r].signer = keystore]
       ELSE RegisterTold(r, "unregistered") /\ UNCHANGED registerTx
    /\ UNCHANGED <<keystore, login, logout, agents>>
(* A read fails, or the user says no.                                        *)
StopsShort(r) ==
    /\ register[r].stage \in {"simulating", "confirming"}
    /\ RegisterTold(r, "unregistered")
    /\ UNCHANGED <<keystore, login, logout, registerTx, agents>>

(* The node takes the transaction and its answer arrives, or only one of both. *)
SendsRegister(r, taken, answered) ==
    /\ RegisterAt(r, "sending") /\ (taken \/ ~answered)
    /\ registerTx' = IF taken THEN [registerTx EXCEPT ![r].fate = "pending"] ELSE registerTx
    /\ IF answered THEN register' = [register EXCEPT ![r].stage = "waiting"] ELSE RegisterTold(r, "rejected")
    /\ UNCHANGED <<keystore, login, logout, agents>>

TxMines(r, passes) ==
    /\ registerTx[r].fate = "pending"
    /\ registerTx' = [registerTx EXCEPT ![r].fate = IF passes THEN "success" ELSE "reverted"]
    /\ agents' = IF passes THEN Append(agents, [owner |-> registerTx[r].signer, by |-> r]) ELSE agents
    /\ UNCHANGED <<keystore, login, logout, register>>
StrangerRegisters ==
    /\ Cardinality({i \in DOMAIN agents : agents[i].by = Stranger}) < MaxStrangers
    /\ agents' = Append(agents, [owner |-> Stranger, by |-> Stranger])
    /\ UNCHANGED <<keystore, login, logout, register, registerTx>>

(* mintedAgentId: the one id the receipt shows minted to the owner.          *)
MintsOf(r) == {i \in DOMAIN agents : agents[i].by = r /\ agents[i].owner = register[r].owner}
ReadsReceipt(r) ==
    /\ RegisterAt(r, "waiting") /\ registerTx[r].fate \in {"success", "reverted"}
    /\ IF registerTx[r].fate = "reverted"
       THEN RegisterTold(r, "reverted")
       ELSE IF Cardinality(MintsOf(r)) # 1
       THEN RegisterTold(r, "unregistered")
       ELSE \E i \in MintsOf(r) :
                register' = [register EXCEPT ![r].stage = "ended", ![r].told = "registered", ![r].id = i]
    /\ UNCHANGED <<keystore, login, logout, registerTx, agents>>
WaitRunsOut(r) ==
    /\ RegisterAt(r, "waiting")
    /\ RegisterTold(r, "unconfirmed")
    /\ UNCHANGED <<keystore, login, logout, registerTx, agents>>

CliNext ==
    \/ \E l \in Logins : LoginSaves(l) \/ LoginIsCancelled(l) \/ \E force \in BOOLEAN : LoginLooks(l, force)
    \/ \E o \in Logouts : LogoutLooks(o) \/ \E deletes \in BOOLEAN : LogoutEnds(o, deletes)
    \/ \E r \in Registers :
        \/ TakesAddress(r) \/ Simulates(r) \/ Unlocks(r) \/ StopsShort(r)
        \/ ReadsReceipt(r) \/ WaitRunsOut(r)
        \/ \E taken, answered \in BOOLEAN : SendsRegister(r, taken, answered)
        \/ \E passes \in BOOLEAN : TxMines(r, passes)
    \/ StrangerRegisters

CliSpec == CliInit /\ [][CliNext]_cliVars

-----------------------------------------------------------------------------
(* What register says is what the registry holds: an id it names was minted  *)
(* by its own transaction to the owner it showed; when it says that nothing  *)
(* was sent or registered nothing ever is; and no transaction of its mints   *)
(* to an address its user did not see (runRegister, mintedAgentId).          *)
RegistrationsAreTrue ==
    \A r \in Registers :
        /\ register[r].told = "registered" => agents[register[r].id] = [owner |-> register[r].owner, by |-> r]
        /\ register[r].told \in {"unregistered", "reverted"} => \A i \in DOMAIN agents : agents[i].by # r
        /\ \A i \in DOMAIN agents : agents[i].by = r => agents[i].owner = register[r].owner
=============================================================================
