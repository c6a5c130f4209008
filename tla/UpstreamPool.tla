---------------------------- MODULE UpstreamPool ----------------------------
(***************************************************************************)
(* The choice of a Telegram endpoint (internal/relay/upstream_pool.go):    *)
(* upstreamPool keeps a cooldown per failed endpoint, dialTelegramRoute    *)
(* races the endpoints of a route in waves of endpointRaceWidth, and every *)
(* wave is one receiver and one goroutine per endpoint, with a drainer for *)
(* the goroutines that outlive it.                                         *)
(*                                                                         *)
(* A dial stands for one call of dialTelegramRoute.  A goroutine sends on  *)
(* a channel that holds all the results of its wave, so computing a result *)
(* and sending it is one step.                                             *)
(* Operators named Mut... are variants of the operator after them with a   *)
(* plausible bug: they show that the properties can fail.                  *)
(***************************************************************************)
EXTENDS Integers, FiniteSets, Sequences, Functions

CONSTANTS
    Dials,           \* concurrent calls of dialTelegramRoute (slots, reused)
    Route,           \* the endpoints of the route, in the topology's order
    NoAddress,
    RaceWidth,       \* endpointRaceWidth
    Lease,           \* the 5 seconds a probe keeps others away
    MaxFailures,     \* 6, the cap of the exponential backoff (or less)
    MaxNow           \* bound: clock ticks (seconds)

Addresses == {Route[i] : i \in DOMAIN Route}
Untracked == [failures |-> 0, retryAt |-> 0, lease |-> 0]     \* no entry in health

ASSUME PoolAssumption ==
    /\ \A i, j \in DOMAIN Route : Route[i] = Route[j] => i = j
    /\ Route \in Seq(Addresses) /\ NoAddress \notin Addresses
    /\ RaceWidth \in Nat \ {0} /\ Lease \in Nat \ {0} /\ MaxFailures \in 1..6 /\ MaxNow \in Nat

VARIABLES
    health,     \* upstreamPool.health
    dial,       \* the calls of dialTelegramRoute
    now         \* time.Now

vars == <<health, dial, now>>

Sent == {"conn", "error", "canceled"}       \* a result in the wave's channel

(* The goroutine of an endpoint: not started, waiting for its turn, dialing, *)
(* its result sent, its result received.                                     *)
Racer == {"none", "waiting", "dialing", "received"} \cup Sent

Idle == [step |-> "idle", order |-> <<>>, start |-> 0, ctx |-> "live",
         racer |-> [a \in Addresses |-> "none"], open |-> {}, late |-> 0, winner |-> NoAddress]

TypeOK ==
    /\ now \in 0..MaxNow
    /\ \A a \in Addresses :
          /\ health[a].failures \in 0..MaxFailures
          /\ health[a].retryAt \in Nat /\ health[a].lease \in Nat
    /\ \A d \in Dials :
          /\ dial[d].step \in {"idle", "racing", "returned"}
          /\ dial[d].ctx \in {"live", "canceled", "expired"}
          /\ dial[d].racer \in [Addresses -> Racer]
          /\ dial[d].open \subseteq Addresses
          /\ dial[d].late \in 0..RaceWidth
          /\ dial[d].winner \in Addresses \cup {NoAddress}

Init ==
    /\ health = [a \in Addresses |-> Untracked]
    /\ dial = [d \in Dials |-> Idle]
    /\ now = 0

-----------------------------------------------------------------------------
(* upstreamPool *)

Eligible(a) == health[a] = Untracked \/ (health[a].retryAt <= now /\ health[a].lease <= now)

(* The place of an endpoint in the rotated route.  The cursor is shared by   *)
(* all routes, so a route sees it move arbitrarily.                          *)
Place(a, first) == ((CHOOSE i \in DOMAIN Route : Route[i] = a) - first) % Len(Route)

MutUnsorted(a, b, first) == Place(a, first) < Place(b, first)

(* The stable sort: whoever may be retried has a retryAt that is past, so    *)
(* the order is that of retryAt, endpoints in good health first.             *)
Before(a, b, first) ==
    \/ health[a].retryAt < health[b].retryAt
    \/ health[a].retryAt = health[b].retryAt /\ Place(a, first) < Place(b, first)

Candidates == {a \in Addresses : Eligible(a)}

(* The set of the one order that there is. *)
ordered(first) ==
    {order \in Bijection(1..Cardinality(Candidates), Candidates) :
        \A i, j \in DOMAIN order : i < j => Before(order[i], order[j], first)}

(* Half-open: an endpoint that failed before is offered to one caller. *)
Leased ==
    [a \in Addresses |-> IF health[a] # Untracked /\ Eligible(a)
                         THEN [health[a] EXCEPT !.lease = now + Lease] ELSE health[a]]

succeeded(a) == [health EXCEPT ![a] = Untracked]

Capped(n) == IF n + 1 > MaxFailures THEN MaxFailures ELSE n + 1

failed(a) ==
    LET n == Capped(health[a].failures)
    IN  [health EXCEPT ![a] = [failures |-> n, retryAt |-> now + 2 ^ (n - 1), lease |-> 0]]

-----------------------------------------------------------------------------
(* dialTelegramRoute and dialEndpointWave *)

Wave(order, start) ==
    {order[i] : i \in {j \in DOMAIN order : j > start /\ j <= start + RaceWidth}}

(* The goroutines of a wave; all but the first wait for their turn. *)
Launch(c, start) ==
    [c EXCEPT !.start = start,
              !.racer = [a \in Addresses |->
                  IF a = c.order[start + 1] THEN "dialing"
                  ELSE IF a \in Wave(c.order, start) THEN "waiting" ELSE @[a]]]

(* With no endpoint, or all of them cooling down or leased, the call fails at *)
(* once.                                                                     *)
coolingDown(d) ==
    /\ dial[d].step = "idle"
    /\ Candidates = {}
    /\ UNCHANGED vars

begin(d, first) ==
    /\ dial[d].step = "idle"
    /\ Candidates # {}
    /\ \E order \in ordered(first) :
          dial' = [dial EXCEPT ![d] = Launch([Idle EXCEPT !.step = "racing", !.order = order], 0)]
    /\ health' = Leased
    /\ UNCHANGED now

(* The handler's context ends: the connect timeout, or the client is gone. *)
parentEnds(d, why) ==
    /\ dial[d].step = "racing" /\ dial[d].ctx = "live"
    /\ dial' = [dial EXCEPT ![d].ctx = why]
    /\ UNCHANGED <<health, now>>

(* ctx.Err as the receiver tells it apart: only context.Canceled is excused. *)
CtxErr(d) == IF dial[d].ctx = "canceled" THEN "canceled" ELSE "error"

staggerFires(d, a) ==
    /\ dial[d].racer[a] = "waiting"
    /\ dial' = [dial EXCEPT ![d].racer[a] = "dialing"]
    /\ UNCHANGED <<health, now>>

staggerCanceled(d, a) ==
    /\ dial[d].racer[a] = "waiting" /\ dial[d].ctx # "live"
    /\ dial' = [dial EXCEPT ![d].racer[a] = CtxErr(d)]
    /\ UNCHANGED <<health, now>>

(* A connection that comes when the context is over is closed on the spot. *)
dialConnects(d, a) ==
    /\ dial[d].racer[a] = "dialing"
    /\ dial' = [dial EXCEPT
          ![d].racer[a] = IF dial[d].ctx = "live" THEN "conn" ELSE CtxErr(d),
          ![d].open = IF dial[d].ctx = "live" THEN @ \cup {a} ELSE @]
    /\ UNCHANGED <<health, now>>

(* The endpoint refuses or the dialer times out, or the context ends it. *)
dialFails(d, a) ==
    /\ dial[d].racer[a] = "dialing"
    /\ \E err \in {"error", CtxErr(d)} : dial' = [dial EXCEPT ![d].racer[a] = err]
    /\ UNCHANGED <<health, now>>

Unreceived(c) == {a \in Wave(c.order, c.start) : c.racer[a] # "received"}

MutLateOneMore(c) == Cardinality(Unreceived(c)) + 1

MutLateOneLess(c) == IF Unreceived(c) = {} THEN 0 ELSE Cardinality(Unreceived(c)) - 1

(* The results closeLateEndpointConnections waits for. *)
LateResults(c) == Cardinality(Unreceived(c))

Return(c, winner) == [c EXCEPT !.step = "returned", !.winner = winner, !.late = LateResults(c)]

MutNextWave(start) == start + RaceWidth + 1

NextWave(start) == start + RaceWidth

(* After the last result of a wave: give up if the context is over, try the *)
(* next wave, or give up because there is none.                             *)
AfterFailure(c) ==
    IF Unreceived(c) # {} THEN c
    ELSE IF c.ctx = "live" /\ NextWave(c.start) < Len(c.order)
         THEN Launch(c, NextWave(c.start))
         ELSE Return(c, NoAddress)

receive(d, a) ==
    LET c == [dial[d] EXCEPT !.racer[a] = "received"]
        won == [c EXCEPT !.ctx = IF @ = "live" THEN "canceled" ELSE @]      \* cancel()
    IN  /\ dial[d].step = "racing"
        /\ dial[d].racer[a] \in Sent
        /\ dial' = [dial EXCEPT ![d] = IF dial[d].racer[a] = "conn" THEN Return(won, a)
                                       ELSE AfterFailure(c)]
        /\ health' = CASE dial[d].racer[a] = "conn"     -> succeeded(a)
                       [] dial[d].racer[a] = "error"    -> failed(a)
                       [] dial[d].racer[a] = "canceled" -> health
        /\ UNCHANGED now

(* The other branch of the receiver's select: parent.Done. *)
abandon(d) ==
    /\ dial[d].step = "racing" /\ dial[d].ctx # "live"
    /\ dial' = [dial EXCEPT ![d] = Return(dial[d], NoAddress)]
    /\ UNCHANGED <<health, now>>

closeLate(d, a) ==
    /\ dial[d].step = "returned" /\ dial[d].late > 0
    /\ dial[d].racer[a] \in Sent
    /\ dial' = [dial EXCEPT ![d].racer[a] = "received", ![d].open = @ \ {a}, ![d].late = @ - 1]
    /\ UNCHANGED <<health, now>>

(* The winner belongs to the bridge from here on. *)
finish(d) ==
    /\ dial[d].step = "returned" /\ dial[d].late = 0
    /\ dial' = [dial EXCEPT ![d] = Idle]
    /\ UNCHANGED <<health, now>>

tick ==
    /\ now < MaxNow
    /\ now' = now + 1
    /\ UNCHANGED <<health, dial>>

Racing(d, a) ==
    \/ staggerFires(d, a)
    \/ staggerCanceled(d, a)
    \/ dialConnects(d, a)
    \/ dialFails(d, a)

Next ==
    \/ \E d \in Dials, first \in DOMAIN Route : begin(d, first)
    \/ \E d \in Dials : coolingDown(d)
    \/ \E d \in Dials, why \in {"canceled", "expired"} : parentEnds(d, why)
    \/ \E d \in Dials, a \in Addresses : Racing(d, a)
    \/ \E d \in Dials, a \in Addresses : receive(d, a)
    \/ \E d \in Dials : abandon(d)
    \/ \E d \in Dials, a \in Addresses : closeLate(d, a)
    \/ \E d \in Dials : finish(d)
    \/ tick

(* The goroutines make progress; DialContext returns once its context is    *)
(* over, which the connect timeout brings about.                            *)
Spec ==
    /\ Init /\ [][Next]_vars
    /\ \A d \in Dials :
          /\ WF_vars(parentEnds(d, "expired")) /\ WF_vars(abandon(d)) /\ WF_vars(finish(d))
          /\ \A a \in Addresses :
                WF_vars(Racing(d, a)) /\ WF_vars(receive(d, a)) /\ WF_vars(closeLate(d, a))

-----------------------------------------------------------------------------
(* A call that is over, drainer included, leaves exactly the connection it   *)
(* returned: the losers of the race are closed whenever they come, and the   *)
(* winner never is, although goroutines, receiver and drainer run at will.   *)
OnlyWinnerStaysOpen ==
    \A d \in Dials :
        /\ dial[d].winner # NoAddress => dial[d].winner \in dial[d].open
        /\ dial[d].step = "returned" /\ dial[d].late = 0 => dial[d].open \subseteq {dial[d].winner}

(* Without the context ending, a dial fails only after every endpoint that   *)
(* was eligible has been tried and its failure recorded: no wave is skipped. *)
GivesUpLast ==
    \A d \in Dials :
        dial[d].step = "returned" /\ dial[d].winner = NoAddress /\ dial[d].ctx = "live" =>
            \A i \in DOMAIN dial[d].order : dial[d].racer[dial[d].order[i]] = "received"

(* Endpoints in good health are raced before those on probation, whatever    *)
(* the rotation.                                                             *)
HealthyFirst ==
    [][\A d \in Dials : dial[d].step = "idle" /\ dial'[d].step = "racing" =>
          \A i, j \in DOMAIN dial'[d].order :
              i < j /\ health[dial'[d].order[j]] = Untracked =>
                  health[dial'[d].order[i]] = Untracked]_vars

(* However many dials blame one endpoint at the same time, it is retried     *)
(* after the longest backoff at most, and its lease ends by itself.          *)
CooldownBounded ==
    \A a \in Addresses :
        /\ health[a].retryAt <= now + 2 ^ (MaxFailures - 1)
        /\ health[a].lease <= now + Lease

(* Every dial comes to its end and so do its goroutines: the drainer gets    *)
(* every result it waits for, and none is left without a receiver.           *)
DialsSettle == \A d \in Dials : dial[d].step # "idle" ~> dial[d].step = "idle"
=============================================================================
