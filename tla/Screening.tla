------------------------------- MODULE Screening -------------------------------
(* Sanctions screening: the screener service (services/screener/src) asks its*)
(* source about a batch and a canary, stamps and signs one screening per     *)
(* subject and submits them to ScreeningRegistry.sol, which anyone may do    *)
(* with a signature.  Answers, blocks and submissions are late in any order. *)
EXTENDS Integers

CONSTANTS
    ScreenSubjects, ScreenRequests,
    MaxAge,      \* the registry's maxAge
    AwaitLimit,  \* the longest an await of the source or of the chain takes
    SkewMargin,  \* CLOCK_SKEW_SECONDS
    Drifts,      \* the screener's clock less the chain's
    ScreenMaxTime, MaxScreenChanges

ASSUME ScreeningAssumption ==
    /\ {MaxAge, AwaitLimit, SkewMargin, ScreenMaxTime, MaxScreenChanges} \subseteq Nat
    /\ Drifts \subseteq Int

VARIABLES
    screenTime,  \* the chain's clock
    clockDrift,
    designated,  \* subjects the source's list designates
    listSound,   \* the source has its list: it flags the canary
    isScreener,  \* the registry knows the screener's key
    worldTurns,
    requests,  \* where each request stands
    records,   \* ScreeningRegistry._records
    signedOut  \* signed screenings others hold

screenVars == <<screenTime, clockDrift, designated, listSound, isScreener, worldTurns, requests, records, signedOut>>
worldVars == <<screenTime, clockDrift, designated, listSound, isScreener, worldTurns>>

NoRecordHeld == [stamp |-> -1, sanctioned |-> FALSE, sound |-> FALSE, basis |-> -1]
Request0 == [at |-> "new", of |-> {}, since |-> 0, flagged |-> {}, sound |-> FALSE, basis |-> 0, wall |-> 0,
             stamp |-> 0, recorded |-> {}]

ScreeningInit ==
    /\ screenTime = 0 /\ clockDrift \in Drifts
    /\ designated = {} /\ listSound = TRUE /\ isScreener = TRUE /\ worldTurns = 0
    /\ requests = [r \in ScreenRequests |-> Request0]
    /\ records = [s \in ScreenSubjects |-> NoRecordHeld]
    /\ signedOut = {}

Larger(a, b) == IF a > b THEN a ELSE b

-----------------------------------------------------------------------------
(* The world: time, the list, the source's health, the registry's owner.     *)

Overdue(r) == requests[r].at \in {"asked", "answered", "heard"} /\ screenTime - requests[r].since >= AwaitLimit
ScreenClock ==
    /\ screenTime < ScreenMaxTime /\ \A r \in ScreenRequests : ~Overdue(r)
    /\ screenTime' = screenTime + 1
    /\ UNCHANGED <<clockDrift, designated, listSound, isScreener, worldTurns, requests, records, signedOut>>

WorldChanges ==
    /\ worldTurns < MaxScreenChanges /\ worldTurns' = worldTurns + 1
    /\ \/ /\ \E s \in ScreenSubjects : designated' = (designated \ {s}) \cup ({s} \ designated)
          /\ UNCHANGED <<listSound, isScreener>>
       \/ listSound' = ~listSound /\ UNCHANGED <<designated, isScreener>>
       \/ isScreener' = ~isScreener /\ UNCHANGED <<designated, listSound>>
    /\ UNCHANGED <<screenTime, clockDrift, requests, records, signedOut>>

-----------------------------------------------------------------------------
(* screenAndSign                                                             *)

ScreeningMoves(r, st) == requests' = [requests EXCEPT ![r] = st] /\ UNCHANGED worldVars

StartScreening(r, subjects) ==
    /\ requests[r].at = "new" /\ subjects # {}
    /\ ScreeningMoves(r, [requests[r] EXCEPT !.at = "asked", !.of = subjects, !.since = screenTime])
    /\ UNCHANGED <<records, signedOut>>

SourceAnswers(r) ==
    /\ requests[r].at = "asked"
    /\ ScreeningMoves(r, [requests[r] EXCEPT !.at = "answered", !.basis = screenTime, !.sound = listSound,
                                              !.flagged = IF listSound THEN designated \cap requests[r].of ELSE {}])
    /\ UNCHANGED <<records, signedOut>>

(* Faulty: what the source says of the canary is not looked at. *)
CanaryFlaggedAnyhow(r) == TRUE
CanaryFlagged(r) == requests[r].sound
Hear(r) ==
    /\ requests[r].at = "answered"
    /\ ScreeningMoves(r, IF CanaryFlagged(r)
                         THEN [requests[r] EXCEPT !.at = "heard", !.since = screenTime, !.wall = screenTime + clockDrift]
                         ELSE [requests[r] EXCEPT !.at = "refused"])
    /\ UNCHANGED <<records, signedOut>>

SourceFails(r) ==
    /\ requests[r].at \in {"asked", "answered", "heard"}
    /\ ScreeningMoves(r, [requests[r] EXCEPT !.at = "refused"])
    /\ UNCHANGED <<records, signedOut>>

Signed(r, s) == [subject |-> s, sanctioned |-> s \in requests[r].flagged, stamp |-> requests[r].stamp,
                 sound |-> requests[r].sound, basis |-> requests[r].basis]

(* The block is read, the stamp is set, the screenings signed and sent out.  *)
StampAndSend(r) ==
    /\ requests[r].at = "heard"
    /\ ScreeningMoves(r, [requests[r] EXCEPT !.at = "sent", !.stamp = Larger(screenTime, requests[r].wall - SkewMargin)])
    /\ signedOut' = signedOut \cup {Signed(r, s)' : s \in requests[r].of}
    /\ UNCHANGED records

-----------------------------------------------------------------------------
(* ScreeningRegistry                                                         *)

Acceptable(stamp) == isScreener /\ stamp <= screenTime /\ screenTime - stamp <= MaxAge
Newer(x) == x.stamp > records[x.subject].stamp
HeldOf(x) == [stamp |-> x.stamp, sanctioned |-> x.sanctioned, sound |-> x.sound, basis |-> x.basis]

OthersSubmit(x) ==
    /\ Acceptable(x.stamp) /\ Newer(x)
    /\ records' = [records EXCEPT ![x.subject] = HeldOf(x)]
    /\ UNCHANGED <<worldVars, requests, signedOut>>

(* submitMany reverts whole, or skips what is not newer and records the rest;
   the receipt's events say which.                                           *)
SubmitMany(r) ==
    /\ requests[r].at = "sent"
    /\ LET takes == {s \in requests[r].of : Newer(Signed(r, s))}
       IN  IF Acceptable(requests[r].stamp)
           THEN /\ records' = [s \in ScreenSubjects |-> IF s \in takes THEN HeldOf(Signed(r, s)) ELSE records[s]]
                /\ \/ ScreeningMoves(r, [requests[r] EXCEPT !.at = "recorded", !.recorded = takes])
                   \/ ScreeningMoves(r, [requests[r] EXCEPT !.at = "failed"])
           ELSE ScreeningMoves(r, [requests[r] EXCEPT !.at = "failed"]) /\ UNCHANGED records
    /\ UNCHANGED signedOut

IsCleared(s) ==
    /\ records[s] # NoRecordHeld /\ ~records[s].sanctioned /\ isScreener
    /\ screenTime - records[s].stamp <= MaxAge

ScreeningNext ==
    \/ ScreenClock \/ WorldChanges
    \/ \E r \in ScreenRequests :
          \/ \E subjects \in SUBSET ScreenSubjects : StartScreening(r, subjects)
          \/ SourceAnswers(r) \/ Hear(r) \/ SourceFails(r) \/ StampAndSend(r) \/ SubmitMany(r)
    \/ \E x \in signedOut : OthersSubmit(x)

ScreeningSpec == ScreeningInit /\ [][ScreeningNext]_screenVars

-----------------------------------------------------------------------------
(* A cleared subject was clean on a list that flags the canary, no longer ago
   than maxAge, the two awaits and what the screener's clock runs ahead; no
   record is of the future, where isCleared would underflow; and what a
   request was told is recorded is never replaced by an older screening,
   whoever submits which signature when.                                     *)
ScreeningHolds ==
    /\ \A s \in ScreenSubjects :
          /\ records[s].stamp <= screenTime
          /\ IsCleared(s) => /\ records[s].sound
                             /\ screenTime - records[s].basis <= MaxAge + 2 * AwaitLimit + Larger(0, clockDrift - SkewMargin)
    /\ \A r \in ScreenRequests : \A s \in requests[r].recorded : records[s].stamp >= requests[r].stamp
=============================================================================
