------------------------------- MODULE Relay --------------------------------
(***************************************************************************)
(* The life of a WebSocket handler from its request to its return          *)
(* (handleWebSocket in internal/relay/websocket.go), among the components  *)
(* that decide about it: the session limiter, whose variables and          *)
(* operations this module uses as they are, the owner who deletes tokens   *)
(* (control_plane.go), and the life of the HTTP server                     *)
(* (ListenAndServeContext in server.go, controlPlane.shutdown).  The dial, *)
(* the bridge and the control plane have modules of their own; here they   *)
(* are single steps that end in any of their outcomes.                     *)
(* Operators named Mut... are variants of the operator after them with a   *)
(* plausible bug: they show that the properties can fail.                  *)
(***************************************************************************)
EXTENDS SessionLimiter

CONSTANT MaxDeletions    \* bound: the tokens the owner deletes

(* Token identifiers exist, whether or not any token does. *)
ASSUME RelayAssumption == Tokens # {}

VARIABLES
    step,        \* where each handler is
    token,       \* the token it authorized
    conn,        \* whether its connection to Telegram is open
    sock,        \* whether its client's hijacked connection is open
    managed,     \* controlPlane.enabled(): an admin token is configured
    deleted,     \* the tokens the owner has deleted
    sessions,    \* the handlers in controlPlane.active
    closing,     \* close functions collected and not yet run
    shuttingDown,
    server       \* where ListenAndServeContext is

limiterVars  == <<active, pending, byToken, res>>
handlerVars  == <<step, token, conn, sock>>
controlVars  == <<managed, deleted, sessions, closing, shuttingDown>>
relayVars    == <<limiterVars, handlerVars, controlVars, server>>

Steps == {"idle", "authorized", "dialing", "dialed", "hijack", "register", "upgrade",
          "bridge", "unregister", "release"}

(* "closed" is "draining" after httpServer.Close. *)
Servers == {"serving", "draining", "closed", "flushing", "stopped"}

(* What `token` holds while the handler is idle. *)
AnyToken == CHOOSE t \in Tokens : TRUE

RelayTypeOK ==
    /\ TypeOK
    /\ step \in [Handlers -> Steps] /\ token \in [Handlers -> Tokens]
    /\ conn \in [Handlers -> BOOLEAN] /\ sock \in [Handlers -> BOOLEAN]
    /\ managed \in BOOLEAN /\ shuttingDown \in BOOLEAN
    /\ deleted \subseteq Tokens /\ sessions \subseteq Handlers /\ closing \subseteq Handlers
    /\ server \in Servers

RelayInit ==
    /\ Init
    /\ step = [h \in Handlers |-> "idle"] /\ token = [h \in Handlers |-> AnyToken]
    /\ conn = [h \in Handlers |-> FALSE] /\ sock = [h \in Handlers |-> FALSE]
    /\ managed \in BOOLEAN /\ shuttingDown = FALSE
    /\ deleted = {} /\ sessions = {} /\ closing = {}
    /\ server = "serving"

At(h, s) == step[h] = s

Goto(h, s) == step' = [step EXCEPT ![h] = s]

Return(h) == step' = [step EXCEPT ![h] = "idle"] /\ token' = [token EXCEPT ![h] = AnyToken]

(* Both connections of a handler are closed; closing one twice is harmless. *)
HangUp(h) ==
    /\ conn' = [conn EXCEPT ![h] = FALSE]
    /\ sock' = [sock EXCEPT ![h] = FALSE]

-----------------------------------------------------------------------------
(* handleWebSocket.  The deferred calls run in reverse: unregister, release. *)

(* After Close, a request that had arrived before still runs. *)
authorizeClient(h, t) ==
    /\ At(h, "idle") /\ server \in {"serving", "draining", "closed"} /\ t \notin deleted
    /\ token' = [token EXCEPT ![h] = t]
    /\ Goto(h, "authorized")
    /\ UNCHANGED <<limiterVars, conn, sock, controlVars, server>>

(* A malformed request, a blocked device, an unknown DC, or a busy relay. *)
refused(h) ==
    /\ At(h, "authorized")
    /\ Return(h)
    /\ UNCHANGED <<limiterVars, conn, sock, controlVars, server>>

reserved(h) ==
    /\ At(h, "authorized")
    /\ reserve(h, token[h])
    /\ Goto(h, "dialing")
    /\ UNCHANGED <<token, conn, sock, controlVars, server>>

dialTelegramRoute(h, ok) ==
    /\ At(h, "dialing")
    /\ conn' = [conn EXCEPT ![h] = ok]
    /\ Goto(h, "dialed")
    /\ UNCHANGED <<limiterVars, token, sock, controlVars, server>>

dialDone(h) ==
    /\ At(h, "dialed")
    /\ upstreamDialDone(h)
    /\ Goto(h, IF conn[h] THEN "hijack" ELSE "release")
    /\ UNCHANGED <<token, conn, sock, controlVars, server>>

MutHijackFails(h) == UNCHANGED conn

(* The handler answers or gives up, and closes what it has dialed. *)
HijackFails(h) == conn' = [conn EXCEPT ![h] = FALSE]

(* httpServer.Close has closed the connections that are not hijacked. *)
hijack(h, ok) ==
    /\ At(h, "hijack")
    /\ IF ~ok THEN HijackFails(h) /\ UNCHANGED sock
       ELSE /\ UNCHANGED conn
            /\ IF server \in {"serving", "draining"} THEN sock' = [sock EXCEPT ![h] = TRUE] ELSE UNCHANGED sock
    /\ Goto(h, IF ok THEN "register" ELSE "release")
    /\ UNCHANGED <<limiterVars, token, controlVars, server>>

MutSkipsDeleted(h) == shuttingDown
MutSkipsShutdown(h) == token[h] \in deleted

MustRefuse(h) == shuttingDown \/ token[h] \in deleted

(* The owner may have blocked the device since the request was looked at. *)
registerSession(h, blocked) ==
    /\ At(h, "register")
    /\ IF managed /\ (blocked \/ MustRefuse(h))
       THEN HangUp(h) /\ Goto(h, "release") /\ UNCHANGED sessions
       ELSE /\ Goto(h, "upgrade") /\ UNCHANGED <<conn, sock>>
            /\ sessions' = IF managed THEN sessions \cup {h} ELSE sessions
    /\ UNCHANGED <<limiterVars, token, managed, deleted, closing, shuttingDown, server>>

(* The 101 response is flushed, on an open connection only. *)
upgrade(h, ok) ==
    /\ At(h, "upgrade") /\ (ok => sock[h])
    /\ IF ok THEN Goto(h, "bridge") /\ UNCHANGED <<conn, sock>>
       ELSE Goto(h, "unregister") /\ HangUp(h)
    /\ UNCHANGED <<limiterVars, token, controlVars, server>>

MutBridgeEnds(h) == sock' = [sock EXCEPT ![h] = FALSE] /\ UNCHANGED conn

BridgeEnds(h) == HangUp(h)

(* bridgeWebSocket returns because of a peer, a timeout or a close function. *)
bridge(h) ==
    /\ At(h, "bridge")
    /\ BridgeEnds(h)
    /\ Goto(h, "unregister")
    /\ UNCHANGED <<limiterVars, token, controlVars, server>>

(* A close function that runs later finds the connections closed: it is     *)
(* forgotten here, since the handler may serve another request by then.     *)
unregister(h) ==
    /\ At(h, "unregister")
    /\ sessions' = sessions \ {h} /\ closing' = closing \ {h}
    /\ Goto(h, "release")
    /\ UNCHANGED <<limiterVars, token, conn, sock, managed, deleted, shuttingDown, server>>

released(h) ==
    /\ At(h, "release")
    /\ release(h)
    /\ Return(h)
    /\ UNCHANGED <<conn, sock, controlVars, server>>

-----------------------------------------------------------------------------
(* The owner.  The close functions are collected under the lock and run     *)
(* after it is released.                                                    *)

deleteToken(t) ==
    /\ managed /\ server \in {"serving", "draining"}
    /\ t \notin deleted /\ Cardinality(deleted) < MaxDeletions
    /\ deleted' = deleted \cup {t}
    /\ closing' = closing \cup {h \in sessions : token[h] = t}
    /\ UNCHANGED <<limiterVars, handlerVars, managed, sessions, shuttingDown, server>>

closeSession(h) ==
    /\ h \in closing
    /\ closing' = closing \ {h}
    /\ HangUp(h)
    /\ UNCHANGED <<limiterVars, step, token, managed, deleted, sessions, shuttingDown, server>>

-----------------------------------------------------------------------------
(* ListenAndServeContext *)

(* ctx is done: httpServer.Shutdown takes no more requests. *)
shutdownBegins ==
    /\ server = "serving"
    /\ server' = "draining"
    /\ UNCHANGED <<limiterVars, handlerVars, controlVars>>

(* What Shutdown waits for: it does not know the hijacked connections. *)
Hijacked == {"register", "upgrade", "bridge", "unregister", "release"}

(* Shutdown gives up after ten seconds; Close then cancels the requests. *)
shutdownTimesOut ==
    /\ server = "draining"
    /\ server' = "closed"
    /\ UNCHANGED <<limiterVars, handlerVars, controlVars>>

(* controlPlane.shutdown up to the running of the close functions. *)
controlShutdown ==
    /\ \/ server = "closed"
       \/ server = "draining" /\ \A h \in Handlers : step[h] \in Hijacked \cup {"idle"}
    /\ server' = "flushing"
    /\ shuttingDown' = TRUE
    /\ closing' = closing \cup sessions
    /\ UNCHANGED <<limiterVars, handlerVars, managed, deleted, sessions>>

(* It waits up to two seconds for the sessions to unregister, and returns. *)
returns ==
    /\ server = "flushing" /\ closing = {}
    /\ server' = "stopped"
    /\ UNCHANGED <<limiterVars, handlerVars, controlVars>>

-----------------------------------------------------------------------------
HandlerStep(h) ==
    \/ refused(h)
    \/ reserved(h)
    \/ \E ok \in BOOLEAN : dialTelegramRoute(h, ok)
    \/ dialDone(h)
    \/ \E ok \in BOOLEAN : hijack(h, ok)
    \/ \E blocked \in BOOLEAN : registerSession(h, blocked)
    \/ \E ok \in BOOLEAN : upgrade(h, ok)
    \/ unregister(h)
    \/ released(h)

ServerStep ==
    \/ shutdownBegins
    \/ shutdownTimesOut
    \/ controlShutdown
    \/ returns

RelayNext ==
    \/ \E h \in Handlers, t \in Tokens : authorizeClient(h, t)
    \/ \E h \in Handlers : HandlerStep(h)
    \/ \E h \in Handlers : bridge(h)
    \/ \E t \in Tokens : deleteToken(t)
    \/ \E h \in Handlers : closeSession(h)
    \/ ServerStep

(* The dial has a deadline and the other steps of a handler do not wait.  A  *)
(* bridge need not end before one of its connections is closed (BridgeEnds   *)
(* of module Bridge).  Close functions run; the waits of the server are      *)
(* bounded by timers, but a request may outlast the first of them.           *)
RelaySpec ==
    /\ RelayInit /\ [][RelayNext]_relayVars
    /\ \A h \in Handlers :
          /\ WF_relayVars(HandlerStep(h))
          /\ WF_relayVars(~sock[h] /\ bridge(h))
          /\ WF_relayVars(closeSession(h))
    /\ WF_relayVars(shutdownTimesOut)
    /\ WF_relayVars(server = "closed" /\ controlShutdown)
    /\ WF_relayVars(returns)

-----------------------------------------------------------------------------
Connected == {h \in Handlers : conn[h]}

(* Whatever path a handler takes (refused, dial failed, hijack failed,       *)
(* refused registration, failed upgrade, end of the bridge), when it is back *)
(* it holds nothing: no connection, no slot, no entry among the sessions.    *)
NothingLeaks ==
    \A h \in Handlers :
        At(h, "idle") => ~conn[h] /\ ~sock[h] /\ h \notin sessions /\ h \notin Open

(* The limits of the limiter bound the real connections to Telegram, which   *)
(* are opened and closed elsewhere: each is covered by a slot for as long as *)
(* it is open.                                                               *)
ConnectionsWithinLimits ==
    /\ Cardinality(Connected) <= MaxSessions
    /\ \A t \in Tokens : Cardinality({h \in Connected : token[h] = t}) <= MaxPerToken

(* A deleted token's sessions end for good, also one whose handler was still *)
(* dialing, hijacking or upgrading when the owner deleted it.                *)
DeletedTokenEnds ==
    \A t \in Tokens : t \in deleted ~> \A h \in Handlers : conn[h] => token[h] # t

(* Once its context is done, ListenAndServeContext returns, whatever the     *)
(* handlers are doing, and (with an admin token) no session goes on: the     *)
(* registered ones are closed, one that was not registered yet is refused.   *)
ShutdownEnds ==
    server = "draining" ~> server = "stopped" /\ (managed => Connected = {})
=============================================================================
