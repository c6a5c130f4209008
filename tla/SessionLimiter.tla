--------------------------- MODULE SessionLimiter ---------------------------
(***************************************************************************)
(* The admission control of the relay: sessionLimiter and                  *)
(* sessionReservation in internal/relay/upstream_pool.go.  Every WebSocket *)
(* handler reserves a slot before it dials Telegram, ends the "pending"    *)
(* phase of the slot when the dial is over, and gives the slot back when   *)
(* the handler returns.  Each method holds the limiter's mutex, so each    *)
(* one is a single step; the handlers interleave between the calls.        *)
(* Operators named Mut... are variants of the operator after them with a   *)
(* plausible bug: they show that the properties can fail.                  *)
(***************************************************************************)
EXTENDS Naturals, FiniteSets

CONSTANTS
    Handlers,          \* the handlers that may hold a reservation
    Tokens,            \* the token identifiers
    NoReservation,     \* the nil *sessionReservation
    MaxSessions,       \* maxRelaySessions
    MaxPerToken,       \* maxRelaySessionsPerToken
    MaxPending         \* maxPendingUpstreamDials

ASSUME LimitsAssumption ==
    /\ MaxSessions \in Nat \ {0}
    /\ MaxPerToken \in Nat \ {0}
    /\ MaxPending \in Nat \ {0}

(* sessionReservation, without its pointer to the limiter. *)
Reservation == [token : Tokens, dialDone : BOOLEAN, released : BOOLEAN]

ASSUME HandlersAssumption == IsFiniteSet(Handlers) /\ NoReservation \notin Reservation

VARIABLES
    active,     \* sessionLimiter.active
    pending,    \* sessionLimiter.pending
    byToken,    \* sessionLimiter.byToken; an absent map entry reads as 0
    res         \* the reservation each handler holds

vars == <<active, pending, byToken, res>>

(* Counters are Go ints: nothing in the type keeps them from going below 0. *)
TypeOK ==
    /\ active \in Nat
    /\ pending \in Nat
    /\ byToken \in [Tokens -> Nat]
    /\ res \in [Handlers -> Reservation \cup {NoReservation}]

(* newSessionLimiter *)
Init ==
    /\ active = 0
    /\ pending = 0
    /\ byToken = [t \in Tokens |-> 0]
    /\ res = [h \in Handlers |-> NoReservation]

-----------------------------------------------------------------------------
(* The two refusals of reserve, in the order in which it tests them. *)
RefuseBusy == pending >= MaxPending                          \* 503

RefuseLimit(t) ==                                            \* 429
    /\ ~RefuseBusy
    /\ active >= MaxSessions \/ byToken[t] >= MaxPerToken

(* A handler is free when it holds no reservation or has returned: net/http *)
(* then uses the slot for another request.                                  *)
Free(h) == IF res[h] = NoReservation THEN TRUE ELSE res[h].released

reserve(h, t) ==
    /\ Free(h)
    /\ ~RefuseBusy
    /\ ~RefuseLimit(t)
    /\ active' = active + 1
    /\ pending' = pending + 1
    /\ byToken' = [byToken EXCEPT ![t] = @ + 1]
    /\ res' = [res EXCEPT ![h] = [token |-> t, dialDone |-> FALSE, released |-> FALSE]]

Held(h) == res[h] # NoReservation

MutDialStaysPending(h) ==
    /\ Held(h)
    /\ ~res[h].dialDone
    /\ res' = [res EXCEPT ![h].dialDone = TRUE]
    /\ UNCHANGED <<active, pending, byToken>>

(* The method may be called again, and after release: dialDone is the guard. *)
upstreamDialDone(h) ==
    /\ Held(h)
    /\ ~res[h].dialDone
    /\ pending' = pending - 1
    /\ res' = [res EXCEPT ![h].dialDone = TRUE]
    /\ UNCHANGED <<active, byToken>>

(* A handler that returns before its dial is over also ends the pending phase. *)
release(h) ==
    /\ Held(h)
    /\ ~res[h].released
    /\ pending' = IF res[h].dialDone THEN pending ELSE pending - 1
    /\ active' = active - 1
    /\ byToken' = [byToken EXCEPT ![res[h].token] = @ - 1]
    /\ res' = [res EXCEPT ![h].dialDone = TRUE, ![h].released = TRUE]

Next ==
    \/ \E h \in Handlers, t \in Tokens : reserve(h, t)
    \/ \E h \in Handlers : upstreamDialDone(h)
    \/ \E h \in Handlers : release(h)

(* Only the dial phase is bounded in time (handleWebSocket dials under a    *)
(* context with the configured dial timeout): a session itself may stay     *)
(* open for as long as its two peers keep it alive, so release is not fair. *)
Spec == Init /\ [][Next]_vars /\ \A h \in Handlers : WF_vars(upstreamDialDone(h))

-----------------------------------------------------------------------------
Open      == {h \in Handlers : Held(h) /\ ~res[h].released}
Dialing   == {h \in Handlers : Held(h) /\ ~res[h].dialDone}
OpenOf(t) == {h \in Open : res[h].token = t}

(* The three counters always are the numbers of reservations they stand    *)
(* for, whatever the order in which handlers reserve, finish dialing and   *)
(* release: no counter drifts, so no slot is leaked and none is given back *)
(* twice (the idempotence of upstreamDialDone and release).                *)
CountersExact ==
    /\ active = Cardinality(Open)
    /\ pending = Cardinality(Dialing)
    /\ \A t \in Tokens : byToken[t] = Cardinality(OpenOf(t))

(* The limits hold for the reservations themselves, not only for the       *)
(* counters: never more open sessions, sessions of one token or pending    *)
(* dials than the three constants allow.                                   *)
WithinLimits ==
    /\ Cardinality(Open) <= MaxSessions
    /\ Cardinality(Dialing) <= MaxPending
    /\ \A t \in Tokens : Cardinality(OpenOf(t)) <= MaxPerToken

(* The 503 of reserve is temporary: the pending dials that exhaust the pool *)
(* all end, by upstreamDialDone or by the release of a handler that gave up *)
(* before it, so the relay always admits dials again.                       *)
BusyIsTemporary == RefuseBusy ~> ~RefuseBusy
=============================================================================
