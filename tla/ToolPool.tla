------------------------------- MODULE ToolPool -------------------------------
(* The agent's MCP connections (packages/mcp/src: pool.ts, cache.ts): one    *)
(* connection per server, opened by the first use, shared by those who wait  *)
(* for it, dropped by name when idle or failing, and a bounded cache of what *)
(* succeeded.  An action is what runs between two awaits.  Promises already  *)
(* settled run before the next timer or network event does (Settling); a     *)
(* client of the MCP SDK that is shut rejects its calls at once.             *)
EXTENDS Integers, Sequences, FiniteSets

CONSTANTS
    ToolServers,
    ToolCalls,  \* invocations of call(), each of its server's one tool
    ToolLists,  \* invocations of tools()
    MaxEntries  \* the cache's maxEntries

ASSUME PoolAssumption == MaxEntries \in Nat \ {0} /\ IsFiniteSet(ToolServers)

VARIABLES
    poolPhase,   \* "open", "closing", "closed"
    closeWaits,  \* the attempts close() awaits
    clients,     \* every client made, oldest first
    poolLive,    \* server -> the number of its live client, or 0
    poolIdle,    \* clients whose idle timer is armed
    toolKnown,   \* servers whose tools were discovered
    remembered,  \* the cache's keys in order of use
    toolCall,    \* where each call stands
    toolList     \* where each tools() stands

connectionVars == <<clients, poolLive, poolIdle>>
poolVars == <<poolPhase, closeWaits, connectionVars, toolKnown, remembered, toolCall, toolList>>

PoolInit ==
    /\ poolPhase = "open" /\ closeWaits = {}
    /\ clients = <<>> /\ poolIdle = {} /\ toolKnown = {} /\ remembered = <<>>
    /\ poolLive = [s \in ToolServers |-> 0]
    /\ toolCall = [c \in ToolCalls |-> [at |-> "new", conn |-> 0]]
    /\ toolList = [l \in ToolLists |-> [at |-> "new", conn |-> 0, left |-> {}, refresh |-> FALSE]]

ServerOf(i) == clients[i].server
AttemptOver(i) == clients[i].attempt # "pending"
Connecting(s) == {i \in DOMAIN clients : ServerOf(i) = s /\ ~AttemptOver(i)}

(* What has to run before the event loop takes another timer or answer.      *)
Settling ==
    \/ \E c \in ToolCalls :
          \/ toolCall[c].at = "waiting" /\ AttemptOver(toolCall[c].conn)
          \/ toolCall[c].at = "calling" /\ clients[toolCall[c].conn].state = "shut"
          \/ toolCall[c].at = "answered"
    \/ \E l \in ToolLists : toolList[l].at = "waiting" /\ AttemptOver(toolList[l].conn)
    \/ poolPhase = "closing" /\ \A i \in closeWaits : AttemptOver(i)

-----------------------------------------------------------------------------
(* drop(server), by name: whichever client is live now is shut.              *)
Shut(s) == IF poolLive[s] = 0 THEN clients ELSE [clients EXCEPT ![poolLive[s]].state = "shut"]
Drop(s) ==
    /\ clients' = Shut(s)
    /\ poolLive' = [poolLive EXCEPT ![s] = 0]

(* connect(): the live client, the attempt under way, or a new one.          *)
Joins(s, refresh) ==
    CASE poolLive[s] # 0 /\ ~refresh -> poolLive[s]
      [] (poolLive[s] = 0 \/ refresh) /\ Connecting(s) # {} -> CHOOSE i \in Connecting(s) : TRUE
      [] OTHER -> Len(clients) + 1

Connect(s, refresh) ==
    IF Joins(s, refresh) \in DOMAIN clients
    THEN UNCHANGED connectionVars
    ELSE /\ clients' = Append(Shut(s), [server |-> s, state |-> "opening", attempt |-> "pending"])
         /\ poolLive' = [poolLive EXCEPT ![s] = 0]
         /\ poolIdle' = poolIdle \ {poolLive[s]}

(* Faulty: a client that connects after close() is kept. *)
AdmitsLate(i) == TRUE
Admits(i) == poolPhase = "open"

AttemptOpens(i) ==
    /\ ~Settling /\ clients[i].state = "opening"
    /\ IF Admits(i)
       THEN /\ clients' = [clients EXCEPT ![i].state = "open", ![i].attempt = "resolved"]
            /\ poolLive' = [poolLive EXCEPT ![ServerOf(i)] = i]
            /\ poolIdle' = poolIdle \cup {i}
            /\ toolKnown' = toolKnown \cup {ServerOf(i)}
       ELSE /\ clients' = [clients EXCEPT ![i].state = "shut", ![i].attempt = "rejected"]
            /\ UNCHANGED <<poolLive, poolIdle, toolKnown>>
    /\ UNCHANGED <<poolPhase, closeWaits, remembered, toolCall, toolList>>

ConnectionFails(i) ==
    /\ ~Settling /\ clients[i].state = "opening"
    /\ clients' = [clients EXCEPT ![i].state = "shut", ![i].attempt = "rejected"]
    /\ UNCHANGED <<poolPhase, closeWaits, poolLive, poolIdle, toolKnown, remembered, toolCall, toolList>>

(* A timer armed for a client that is gone still drops its successor.        *)
IdleFires(i) ==
    /\ ~Settling /\ i \in poolIdle
    /\ Drop(ServerOf(i))
    /\ poolIdle' = poolIdle \ {i, poolLive[ServerOf(i)]}
    /\ UNCHANGED <<poolPhase, closeWaits, toolKnown, remembered, toolCall, toolList>>

-----------------------------------------------------------------------------
(* The cache: Map order is use order.                                        *)
Remembers(key) == \E n \in DOMAIN remembered : remembered[n] = key
WithoutKey(key) ==
    IF ~Remembers(key)
    THEN remembered
    ELSE LET n == CHOOSE m \in DOMAIN remembered : remembered[m] = key
         IN  SubSeq(remembered, 1, n - 1) \o SubSeq(remembered, n + 1, Len(remembered))
Remember(key) ==
    LET r == Append(WithoutKey(key), key) IN SubSeq(r, IF Len(r) > MaxEntries THEN 2 ELSE 1, Len(r))

-----------------------------------------------------------------------------
(* call()                                                                    *)

CallAt(c, stage) == toolCall' = [toolCall EXCEPT ![c].at = stage]

(* Answered from the cache, unless what it held has expired by now.          *)
CallStarts(c, s) ==
    /\ toolCall[c].at = "new"
    /\ \/ /\ poolPhase # "open" /\ CallAt(c, "done")
          /\ UNCHANGED <<connectionVars, remembered>>
       \/ /\ poolPhase = "open" /\ Remembers(s) /\ CallAt(c, "done")
          /\ remembered' = Append(WithoutKey(s), s)
          /\ UNCHANGED connectionVars
       \/ /\ poolPhase = "open" /\ remembered' = WithoutKey(s)
          /\ toolCall' = [toolCall EXCEPT ![c] = [at |-> "waiting", conn |-> Joins(s, FALSE)]]
          /\ Connect(s, FALSE)
    /\ UNCHANGED <<poolPhase, closeWaits, toolKnown, toolList>>

(* The await of connect() is over: no connection, no such tool, or the call. *)
CallGoesOn(c) ==
    /\ toolCall[c].at = "waiting" /\ AttemptOver(toolCall[c].conn)
    /\ \/ clients[toolCall[c].conn].attempt = "rejected" /\ CallAt(c, "done") /\ UNCHANGED poolIdle
       \/ clients[toolCall[c].conn].attempt = "resolved" /\ CallAt(c, "done") /\ UNCHANGED poolIdle
       \/ /\ clients[toolCall[c].conn].attempt = "resolved" /\ CallAt(c, "calling")
          /\ poolIdle' = poolIdle \cup {toolCall[c].conn}
    /\ UNCHANGED <<poolPhase, closeWaits, clients, poolLive, toolKnown, remembered, toolList>>

Calling(c, state) == toolCall[c].at = "calling" /\ clients[toolCall[c].conn].state = state

ToolAnswers(c) ==
    /\ ~Settling /\ Calling(c, "open")
    /\ CallAt(c, "answered")
    /\ UNCHANGED <<poolPhase, closeWaits, connectionVars, toolKnown, remembered, toolList>>

(* No answer in callTimeoutMs, or the caller's own abort: nothing is dropped.*)
ToolTimesOut(c) ==
    /\ ~Settling /\ Calling(c, "open")
    /\ CallAt(c, "done")
    /\ UNCHANGED <<poolPhase, closeWaits, connectionVars, toolKnown, remembered, toolList>>

(* The transport fails, or the client was shut under the call.               *)
ToolUnreachable(c) ==
    /\ Calling(c, "shut") \/ (~Settling /\ Calling(c, "open"))
    /\ CallAt(c, "done")
    /\ Drop(ServerOf(toolCall[c].conn))
    /\ poolIdle' = poolIdle \ {poolLive[ServerOf(toolCall[c].conn)]}
    /\ UNCHANGED <<poolPhase, closeWaits, toolKnown, remembered, toolList>>

(* The answer is a result to remember, or one that is too large or an error. *)
CallEnds(c) ==
    /\ toolCall[c].at = "answered" /\ CallAt(c, "done")
    /\ poolIdle' = poolIdle \cup {toolCall[c].conn}
    /\ \/ remembered' = Remember(ServerOf(toolCall[c].conn))
       \/ UNCHANGED remembered
    /\ UNCHANGED <<poolPhase, closeWaits, clients, poolLive, toolKnown, toolList>>

-----------------------------------------------------------------------------
(* tools(), and close()                                                      *)

ListStarts(l, refresh) ==
    /\ toolList[l].at = "new"
    /\ toolList' = [toolList EXCEPT ![l].at = IF poolPhase = "open" THEN "walking" ELSE "done",
                                    ![l].left = ToolServers, ![l].refresh = refresh]
    /\ UNCHANGED <<poolPhase, closeWaits, connectionVars, toolKnown, remembered, toolCall>>

(* The next server: known already, or connected to; refreshed if asked.      *)
ListConnects(l, s) ==
    /\ toolList[l].at = "walking" /\ s \in toolList[l].left
    /\ IF s \in toolKnown /\ ~toolList[l].refresh
       THEN UNCHANGED connectionVars /\ toolList' = [toolList EXCEPT ![l].left = @ \ {s}]
       ELSE /\ toolList' = [toolList EXCEPT ![l].at = "waiting", ![l].left = @ \ {s},
                                            ![l].conn = Joins(s, toolList[l].refresh)]
            /\ Connect(s, toolList[l].refresh)
    /\ UNCHANGED <<poolPhase, closeWaits, toolKnown, remembered, toolCall>>

ListGoesOn(l) ==
    /\ toolList[l].at = "waiting" /\ AttemptOver(toolList[l].conn)
    /\ toolList' = [toolList EXCEPT ![l].at = "walking"]
    /\ UNCHANGED <<poolPhase, closeWaits, connectionVars, toolKnown, remembered, toolCall>>

ListEnds(l) ==
    /\ toolList[l].at = "walking" /\ toolList[l].left = {}
    /\ toolList' = [toolList EXCEPT ![l].at = "done"]
    /\ UNCHANGED <<poolPhase, closeWaits, connectionVars, toolKnown, remembered, toolCall>>

CloseStarts ==
    /\ poolPhase = "open" /\ poolPhase' = "closing"
    /\ closeWaits' = {i \in DOMAIN clients : ~AttemptOver(i)}
    /\ UNCHANGED <<connectionVars, toolKnown, remembered, toolCall, toolList>>

CloseEnds ==
    /\ poolPhase = "closing" /\ \A i \in closeWaits : AttemptOver(i)
    /\ poolPhase' = "closed"
    /\ clients' = [i \in DOMAIN clients |-> IF i = poolLive[ServerOf(i)]
                                          THEN [clients[i] EXCEPT !.state = "shut"] ELSE clients[i]]
    /\ poolLive' = [s \in ToolServers |-> 0]
    /\ poolIdle' = {i \in poolIdle : i # poolLive[ServerOf(i)]}
    /\ UNCHANGED <<closeWaits, toolKnown, remembered, toolCall, toolList>>

(* What comes by itself: continuations, answers and the client's timeouts.
   tools() goes from server to server in one run until it has to wait.       *)
Walking == \E l \in ToolLists : toolList[l].at = "walking"
PoolTurn ==
    \/ \E l \in ToolLists : ListEnds(l) \/ \E s \in ToolServers : ListConnects(l, s)
    \/ /\ ~Walking
       /\ \/ \E i \in DOMAIN clients : AttemptOpens(i) \/ ConnectionFails(i)
          \/ \E c \in ToolCalls :
                CallGoesOn(c) \/ ToolAnswers(c) \/ ToolTimesOut(c) \/ ToolUnreachable(c) \/ CallEnds(c)
          \/ \E l \in ToolLists : ListGoesOn(l)
          \/ CloseEnds

PoolNext ==
    \/ PoolTurn
    \/ ~Walking /\ CloseStarts
    \/ ~Walking /\ \E i \in DOMAIN clients : IdleFires(i)
    \/ ~Walking /\ \E c \in ToolCalls, s \in ToolServers : CallStarts(c, s)
    \/ ~Walking /\ \E l \in ToolLists, refresh \in BOOLEAN : ListStarts(l, refresh)

PoolSpec == PoolInit /\ [][PoolNext]_poolVars

-----------------------------------------------------------------------------
(* No connection is lost or kept: an open client is its server's live one, a
   server never has two that are opening or open, a live one has an idle timer
   of its own, and once close() is through nothing is live, whatever timers,
   failures, refreshes and late attempts did; the cache holds a key once.    *)
PoolHolds ==
    /\ \A i, k \in DOMAIN clients :
          (i # k /\ ServerOf(i) = ServerOf(k)) => clients[i].state = "shut" \/ clients[k].state = "shut"
    /\ \A i \in DOMAIN clients : clients[i].state = "open" <=> poolLive[ServerOf(i)] = i
    /\ \A s \in ToolServers : poolLive[s] # 0 => poolLive[s] \in poolIdle /\ poolPhase # "closed"
    /\ Len(remembered) <= MaxEntries
    /\ \A m, n \in DOMAIN remembered : remembered[m] = remembered[n] => m = n

(* Every call() and tools() returns and close() comes through, with clients
   dropped under them.                                                       *)
EveryToolCallEnds ==
    /\ \A c \in ToolCalls : (toolCall[c].at # "new") ~> (toolCall[c].at = "done")
    /\ \A l \in ToolLists : (toolList[l].at # "new") ~> (toolList[l].at = "done")
    /\ (poolPhase = "closing") ~> (poolPhase = "closed")
=============================================================================
