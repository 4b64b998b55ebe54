-------------------------------- MODULE MCGate --------------------------------
(* Two scenarios of the gate in one run.  "replay": two jobs of one client   *)
(* behind one hook and module, with every proof in two encodings, and the    *)
(* screening switched.  "rewiring": one job while a second hook and module   *)
(* are brought in, the claim is sold and the mandate rewritten.              *)
EXTENDS MCComplianceGate

CONSTANTS nextGate, mandate, newMandate

VARIABLE scenario

gateRunVars == <<gateVars, scenario>>

EveryProof == Copies \cup Sales

GateRunInit == GateInit /\ scenario \in {"replay", "rewiring"}

BoundFrom(proofs) == \A j \in Jobs : complianceProofs'[j] \in proofs \cup {NoProof}

InReplay ==
    /\ \A j \in Jobs : jobs'[j].hook # nextHook
    /\ BoundFrom({p \in Copies : p.signals.policy = mandate})
    /\ \A c \in Clients : policies'[c].commitment # newMandate
    /\ ~screens'[nextHook]
    /\ UNCHANGED <<spenders, moduleHook, tolerance, installed, soldTo>>

InRewiring ==
    /\ jobCounter' <= 1
    /\ BoundFrom(Sales)
    /\ UNCHANGED <<screens, cleared>>

GateRunNext ==
    /\ GateNext
    /\ IF scenario = "replay" THEN InReplay ELSE InRewiring
    /\ UNCHANGED scenario

GateRunSpec == GateRunInit /\ [][GateRunNext]_gateRunVars
=============================================================================
