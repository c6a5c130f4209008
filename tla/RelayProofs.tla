----------------------------- MODULE RelayProofs -----------------------------
(***************************************************************************)
(* The session limiter's counters and limits, and what a handler holds,    *)
(* for every number of handlers, every set of tokens and every value of    *)
(* the limits.                                                             *)
(***************************************************************************)
EXTENDS Relay, FiniteSetTheorems, TLAPS

-----------------------------------------------------------------------------
(* The limiter *)

(* The inductive invariant: the counters count the reservations, and they    *)
(* are within the limits.  WithinLimits alone is not inductive: reserve      *)
(* tests the counters, so their exactness is needed to bound the sets.       *)
IInv ==
    /\ TypeOK
    /\ CountersExact
    /\ active <= MaxSessions
    /\ pending <= MaxPending
    /\ \A t \in Tokens : byToken[t] <= MaxPerToken
    /\ \A h \in Handlers : Held(h) /\ res[h].released => res[h].dialDone

(* The sets the counters stand for are finite. *)
LEMMA FiniteOpen ==
    /\ IsFiniteSet(Open)
    /\ IsFiniteSet(Dialing)
    /\ \A t \in Tokens : IsFiniteSet(OpenOf(t))
BY HandlersAssumption, FS_Subset DEF Open, Dialing, OpenOf

(* One element more or less changes a finite cardinality by one. *)
LEMMA AddOne ==
    ASSUME NEW S, NEW T, NEW x, IsFiniteSet(S), x \notin S, T = S \cup {x}
    PROVE  Cardinality(T) = Cardinality(S) + 1
BY FS_AddElement

(* A finite set without one of its elements has one less. *)
LEMMA DropOne ==
    ASSUME NEW S, NEW T, NEW x, IsFiniteSet(S), x \in S, T = S \ {x}
    PROVE  /\ Cardinality(T) = Cardinality(S) - 1
           /\ Cardinality(S) >= 1
           /\ Cardinality(S) \in Nat
<1>1. Cardinality(S) \in Nat
  BY FS_CardinalityType
<1>2. Cardinality(T) = Cardinality(S) - 1
  BY FS_RemoveElement
<1>3. IsFiniteSet(T) /\ Cardinality(T) \in Nat
  BY FS_Subset, FS_CardinalityType
<1> QED
  BY <1>1, <1>2, <1>3

(* newSessionLimiter: no reservations and zero counters. *)
LEMMA InitIInv == Init => IInv
<1> SUFFICES ASSUME Init PROVE IInv
  OBVIOUS
<1>1. Open = {} /\ Dialing = {} /\ \A t \in Tokens : OpenOf(t) = {}
  BY DEF Init, Open, Dialing, OpenOf, Held
<1>2. CountersExact
  BY <1>1, FS_EmptySet DEF Init, CountersExact
<1> QED
  BY <1>2, LimitsAssumption DEF Init, IInv, TypeOK, Held

(* reserve adds its handler to the three sets it counts. *)
LEMMA ReserveIInv ==
    ASSUME IInv, NEW h \in Handlers, NEW t \in Tokens, reserve(h, t)
    PROVE  IInv'
<1> DEFINE new == [token |-> t, dialDone |-> FALSE, released |-> FALSE]
<1>1. new \in Reservation /\ new # NoReservation
  <2>1. new \in Reservation
    BY DEF Reservation
  <2> QED
    BY <2>1, HandlersAssumption
<1>2. res \in [Handlers -> Reservation \cup {NoReservation}]
  BY DEF IInv, TypeOK
<1>3. res' = [res EXCEPT ![h] = new]
  BY DEF reserve
<1>4. h \notin Open /\ h \notin Dialing
  BY <1>2 DEF reserve, Free, Open, Dialing, Held, IInv
<1>5. \A g \in Handlers : g # h => res'[g] = res[g]
  BY <1>2, <1>3
<1>6. res'[h] = new
  BY <1>2, <1>3
<1> HIDE DEF new
<1>7. new.token = t /\ new.dialDone = FALSE /\ new.released = FALSE
  BY DEF new
<1>8. Open' = Open \cup {h}
  BY <1>1, <1>5, <1>6, <1>7 DEF Open, Held
<1>9. Dialing' = Dialing \cup {h}
  BY <1>1, <1>5, <1>6, <1>7 DEF Dialing, Held
<1>10. OpenOf(t)' = OpenOf(t) \cup {h}
  BY <1>4, <1>5, <1>6, <1>7, <1>8 DEF OpenOf, Open
<1>11. \A u \in Tokens : u # t => OpenOf(u)' = OpenOf(u)
  BY <1>4, <1>5, <1>6, <1>7, <1>8 DEF OpenOf, Open
<1>12. TypeOK'
  <2>1. res' \in [Handlers -> Reservation \cup {NoReservation}]
    BY <1>1, <1>2, <1>3
  <2>2. active' \in Nat /\ pending' \in Nat /\ byToken' \in [Tokens -> Nat]
    BY DEF IInv, TypeOK, reserve
  <2> QED
    BY <2>1, <2>2 DEF TypeOK
<1>13. CountersExact'
  <2>1. active' = Cardinality(Open')
    BY <1>4, <1>8, AddOne, FiniteOpen DEF IInv, CountersExact, reserve
  <2>2. pending' = Cardinality(Dialing')
    BY <1>4, <1>9, AddOne, FiniteOpen DEF IInv, CountersExact, reserve
  <2>3. ASSUME NEW u \in Tokens PROVE byToken'[u] = Cardinality(OpenOf(u)')
    <3>1. byToken \in [Tokens -> Nat] /\ byToken' = [byToken EXCEPT ![t] = @ + 1]
      BY DEF IInv, TypeOK, reserve
    <3>2. CASE u = t
      <4>1. Cardinality(OpenOf(t)') = Cardinality(OpenOf(t)) + 1
        BY <1>4, <1>10, AddOne, FiniteOpen DEF OpenOf
      <4> QED
        BY <3>1, <3>2, <4>1 DEF IInv, CountersExact
    <3>3. CASE u # t
      BY <1>11, <3>1, <3>3 DEF IInv, CountersExact
    <3> QED
      BY <3>2, <3>3
  <2> QED
    BY <2>1, <2>2, <2>3 DEF CountersExact
<1>14. active' <= MaxSessions /\ pending' <= MaxPending
  BY LimitsAssumption DEF IInv, TypeOK, reserve, RefuseBusy, RefuseLimit
<1>15. \A u \in Tokens : byToken'[u] <= MaxPerToken
  BY LimitsAssumption DEF IInv, TypeOK, reserve, RefuseBusy, RefuseLimit
<1>16. \A g \in Handlers : (Held(g) /\ res[g].released => res[g].dialDone)'
  BY <1>5, <1>6, <1>7 DEF IInv, Held
<1> QED
  BY <1>12, <1>13, <1>14, <1>15, <1>16 DEF IInv

(* upstreamDialDone takes its handler out of the pending dials only. *)
LEMMA DialDoneIInv ==
    ASSUME IInv, NEW h \in Handlers, upstreamDialDone(h)
    PROVE  IInv'
<1>1. res \in [Handlers -> Reservation \cup {NoReservation}]
  BY DEF IInv, TypeOK
<1>2. res[h] \in Reservation
  BY <1>1 DEF upstreamDialDone, Held
<1>3. PICK new \in Reservation :
        /\ res' = [res EXCEPT ![h] = new]
        /\ new.token = res[h].token
        /\ new.released = res[h].released
        /\ new.dialDone = TRUE
  <2> DEFINE v == [res[h] EXCEPT !.dialDone = TRUE]
  <2>1. v \in Reservation
    BY <1>2 DEF Reservation
  <2>2. res' = [res EXCEPT ![h] = v]
    BY DEF upstreamDialDone
  <2>3. v.token = res[h].token /\ v.released = res[h].released /\ v.dialDone = TRUE
    BY <1>2 DEF Reservation
  <2> QED
    BY <2>1, <2>2, <2>3
<1>4. new # NoReservation
  BY HandlersAssumption
<1>5. res'[h] = new /\ \A g \in Handlers : g # h => res'[g] = res[g]
  BY <1>1, <1>3
<1>6. h \in Dialing
  BY DEF upstreamDialDone, Dialing
<1>7. Dialing' = Dialing \ {h}
  BY <1>3, <1>4, <1>5 DEF Dialing, Held
<1>8. Open' = Open
  BY <1>3, <1>4, <1>5 DEF Open, Held, upstreamDialDone
<1>9. \A u \in Tokens : OpenOf(u)' = OpenOf(u)
  BY <1>3, <1>5, <1>8 DEF OpenOf
<1>10. /\ Cardinality(Dialing') = Cardinality(Dialing) - 1
       /\ Cardinality(Dialing) >= 1
  BY <1>6, <1>7, DropOne, FiniteOpen
<1>11. pending' = Cardinality(Dialing') /\ pending' \in Nat /\ pending' <= MaxPending
  BY <1>10, LimitsAssumption DEF IInv, TypeOK, CountersExact, upstreamDialDone
<1>12. TypeOK'
  BY <1>1, <1>3, <1>11 DEF IInv, TypeOK, upstreamDialDone
<1>13. CountersExact'
  BY <1>8, <1>9, <1>11 DEF IInv, CountersExact, upstreamDialDone
<1>14. \A g \in Handlers : (Held(g) /\ res[g].released => res[g].dialDone)'
  BY <1>3, <1>5 DEF IInv, Held
<1> QED
  BY <1>11, <1>12, <1>13, <1>14 DEF IInv, upstreamDialDone

(* release takes its handler out of every set it is still in. *)
LEMMA ReleaseIInv ==
    ASSUME IInv, NEW h \in Handlers, release(h)
    PROVE  IInv'
<1>1. res \in [Handlers -> Reservation \cup {NoReservation}]
  BY DEF IInv, TypeOK
<1>2. res[h] \in Reservation
  BY <1>1 DEF release, Held
<1>3. PICK new \in Reservation :
        /\ res' = [res EXCEPT ![h] = new]
        /\ new.token = res[h].token
        /\ new.released = TRUE
        /\ new.dialDone = TRUE
  <2> DEFINE v == [res[h] EXCEPT !.dialDone = TRUE, !.released = TRUE]
  <2>1. v \in Reservation
    BY <1>2 DEF Reservation
  <2>2. res' = [res EXCEPT ![h] = v]
    BY <1>1, <1>2 DEF release, Reservation
  <2>3. v.token = res[h].token /\ v.released = TRUE /\ v.dialDone = TRUE
    BY <1>2 DEF Reservation
  <2> QED
    BY <2>1, <2>2, <2>3
<1>4. new # NoReservation
  BY HandlersAssumption
<1>5. res'[h] = new /\ \A g \in Handlers : g # h => res'[g] = res[g]
  BY <1>1, <1>3
<1>6. PICK t \in Tokens : t = res[h].token
  BY <1>2 DEF Reservation
<1>7. h \in Open /\ h \in OpenOf(t)
  BY <1>6 DEF release, Open, OpenOf
<1>8. Open' = Open \ {h}
  BY <1>3, <1>4, <1>5 DEF Open, Held
<1>9. Dialing' = Dialing \ {h}
  BY <1>3, <1>4, <1>5 DEF Dialing, Held
<1>10. OpenOf(t)' = OpenOf(t) \ {h}
  BY <1>1, <1>3, <1>5, <1>6, <1>8 DEF OpenOf, Open
<1>11. \A u \in Tokens : u # t => OpenOf(u)' = OpenOf(u)
  BY <1>5, <1>6, <1>7, <1>8 DEF OpenOf, Open
<1>12. active' = Cardinality(Open') /\ active' \in Nat /\ active' <= MaxSessions
  <2>1. Cardinality(Open') = Cardinality(Open) - 1 /\ Cardinality(Open) >= 1
    BY <1>7, <1>8, DropOne, FiniteOpen
  <2> QED
    BY <2>1, LimitsAssumption DEF IInv, TypeOK, CountersExact, release
<1>13. pending' = Cardinality(Dialing') /\ pending' \in Nat /\ pending' <= MaxPending
  <2>1. CASE res[h].dialDone
    <3>1. h \notin Dialing
      BY <2>1 DEF Dialing
    <3> QED
      BY <1>9, <2>1, <3>1 DEF IInv, TypeOK, CountersExact, release
  <2>2. CASE ~res[h].dialDone
    <3>1. h \in Dialing
      BY <2>2 DEF release, Dialing
    <3>2. Cardinality(Dialing') = Cardinality(Dialing) - 1 /\ Cardinality(Dialing) >= 1
      BY <1>9, <3>1, DropOne, FiniteOpen
    <3> QED
      BY <2>2, <3>2, LimitsAssumption DEF IInv, TypeOK, CountersExact, release
  <2> QED
    BY <2>1, <2>2
<1>14. ASSUME NEW u \in Tokens
       PROVE  byToken'[u] = Cardinality(OpenOf(u)') /\ byToken'[u] \in Nat /\ byToken'[u] <= MaxPerToken
  <2>1. byToken \in [Tokens -> Nat] /\ byToken' = [byToken EXCEPT ![t] = @ - 1]
    BY <1>6 DEF IInv, TypeOK, release
  <2>2. CASE u = t
    <3>1. Cardinality(OpenOf(t)') = Cardinality(OpenOf(t)) - 1 /\ Cardinality(OpenOf(t)) >= 1
      BY <1>6, <1>7, <1>10, DropOne, FiniteOpen
    <3>2. byToken'[t] = byToken[t] - 1 /\ byToken[t] = Cardinality(OpenOf(t))
      BY <1>6, <2>1 DEF IInv, CountersExact
    <3> QED
      BY <1>6, <2>1, <2>2, <3>1, <3>2, LimitsAssumption DEF IInv
  <2>3. CASE u # t
    BY <1>11, <2>1, <2>3 DEF IInv, CountersExact
  <2> QED
    BY <2>2, <2>3
<1>15. byToken' = [byToken EXCEPT ![t] = @ - 1]
  BY <1>6 DEF release
<1>16. byToken' \in [Tokens -> Nat]
  BY <1>14, <1>15 DEF IInv, TypeOK
<1>17. TypeOK'
  BY <1>1, <1>3, <1>12, <1>13, <1>16 DEF TypeOK
<1>18. CountersExact'
  BY <1>12, <1>13, <1>14 DEF CountersExact
<1>19. \A g \in Handlers : (Held(g) /\ res[g].released => res[g].dialDone)'
  BY <1>3, <1>5 DEF IInv, Held
<1> QED
  BY <1>12, <1>13, <1>14, <1>17, <1>18, <1>19 DEF IInv

(* Every step of a handler preserves the inductive invariant. *)
LEMMA NextIInv == IInv /\ [Next]_vars => IInv'
<1> SUFFICES ASSUME IInv, [Next]_vars PROVE IInv'
  OBVIOUS
<1>1. CASE \E h \in Handlers, t \in Tokens : reserve(h, t)
  BY <1>1, ReserveIInv
<1>2. CASE \E h \in Handlers : upstreamDialDone(h)
  BY <1>2, DialDoneIInv
<1>3. CASE \E h \in Handlers : release(h)
  BY <1>3, ReleaseIInv
<1>4. CASE UNCHANGED vars
  BY <1>4 DEF vars, IInv, TypeOK, CountersExact, Open, Dialing, OpenOf, Held
<1> QED
  BY <1>1, <1>2, <1>3, <1>4 DEF Next

(* The invariant implies what the runs check. *)
LEMMA IInvImplies == IInv => TypeOK /\ CountersExact /\ WithinLimits
BY DEF IInv, CountersExact, WithinLimits

(* Type correctness: in particular no counter ever goes below zero, which    *)
(* the `if byToken <= 0 then delete` of release would silently hide.         *)
THEOREM LimiterTypeOK == Spec => []TypeOK
BY InitIInv, NextIInv, IInvImplies, PTL DEF Spec

(* The counters of sessionLimiter are exact for any interleaving of any      *)
(* number of handlers.                                                       *)
THEOREM LimiterExact == Spec => []CountersExact
BY InitIInv, NextIInv, IInvImplies, PTL DEF Spec

(* The three limits of reserve bound the sessions really open and the dials  *)
(* really pending.                                                           *)
THEOREM LimiterBounded == Spec => []WithinLimits
BY InitIInv, NextIInv, IInvImplies, PTL DEF Spec

-----------------------------------------------------------------------------
(* The handlers *)

(* The steps at which a handler has a reservation whose dial is not over,    *)
(* and those at which it has one whose dial is over.                         *)
WhileDialing == {"dialing", "dialed"}
AfterDial    == {"hijack", "register", "upgrade", "bridge", "unregister", "release"}

(* What a handler at step s holds. *)
HoldsWhatItShould(h) ==
    /\ step[h] \in {"idle", "authorized"} => Free(h)
    /\ step[h] \in WhileDialing \cup AfterDial =>
          /\ res[h] \in Reservation /\ ~res[h].released /\ res[h].token = token[h]
          /\ res[h].dialDone <=> step[h] \in AfterDial
    /\ conn[h] => step[h] \in {"dialed", "hijack", "register", "upgrade", "bridge"}
    /\ sock[h] => step[h] \in {"register", "upgrade", "bridge"}
    /\ h \in sessions => step[h] \in {"upgrade", "bridge", "unregister"}

(* The inductive invariant.  The limiter's own comes along, because a step   *)
(* of a handler is a step of the limiter or leaves it alone.                 *)
RInv ==
    /\ IInv
    /\ RelayTypeOK
    /\ \A h \in Handlers : HoldsWhatItShould(h)

(* No handler runs yet. *)
LEMMA RelayInitRInv == ASSUME RelayInit PROVE RInv
<1>1. IInv
  BY InitIInv DEF RelayInit
<1>2. RelayTypeOK
  <2>1. AnyToken \in Tokens
    BY RelayAssumption DEF AnyToken
  <2> QED
    BY <1>1, <2>1 DEF RelayInit, RelayTypeOK, IInv, Steps, Servers
<1>3. \A h \in Handlers : HoldsWhatItShould(h)
  BY DEF RelayInit, Init, HoldsWhatItShould, WhileDialing, AfterDial, Free
<1> QED
  BY <1>1, <1>2, <1>3 DEF RInv

-----------------------------------------------------------------------------
(* The limiter sees reserve, upstreamDialDone, release, or nothing. *)
LEMMA StepOfLimiter == ASSUME RelayTypeOK, [RelayNext]_relayVars PROVE [Next]_vars
<1>1. CASE \E h \in Handlers, t \in Tokens : authorizeClient(h, t)
  BY <1>1 DEF authorizeClient, limiterVars, vars
<1>2. ASSUME NEW h \in Handlers, HandlerStep(h) PROVE [Next]_vars
  <2>1. CASE refused(h)
    BY <2>1 DEF refused, limiterVars, vars
  <2>2. CASE reserved(h)
    BY <2>2 DEF reserved, Next, RelayTypeOK
  <2>3. CASE \E ok \in BOOLEAN : dialTelegramRoute(h, ok)
    BY <2>3 DEF dialTelegramRoute, limiterVars, vars
  <2>4. CASE dialDone(h)
    BY <2>4 DEF dialDone, Next
  <2>5. CASE \E ok \in BOOLEAN : hijack(h, ok)
    BY <2>5 DEF hijack, limiterVars, vars
  <2>6. ASSUME NEW blocked \in BOOLEAN, registerSession(h, blocked) PROVE [Next]_vars
    BY <2>6 DEF registerSession, limiterVars, vars
  <2>7. CASE \E ok \in BOOLEAN : upgrade(h, ok)
    BY <2>7 DEF upgrade, limiterVars, vars
  <2>8. CASE unregister(h)
    BY <2>8 DEF unregister, limiterVars, vars
  <2>9. CASE released(h)
    BY <2>9 DEF released, Next
  <2> QED
    BY <1>2, <2>1, <2>2, <2>3, <2>4, <2>5, <2>6, <2>7, <2>8, <2>9 DEF HandlerStep
<1>3. CASE \E h \in Handlers : bridge(h)
  BY <1>3 DEF bridge, limiterVars, vars
<1>4. CASE \E t \in Tokens : deleteToken(t)
  BY <1>4 DEF deleteToken, limiterVars, vars
<1>5. CASE \E h \in Handlers : closeSession(h)
  BY <1>5 DEF closeSession, limiterVars, vars
<1>6. CASE ServerStep
  BY <1>6 DEF ServerStep, shutdownBegins, shutdownTimesOut, controlShutdown, returns, limiterVars, vars
<1>7. CASE UNCHANGED relayVars
  BY <1>7 DEF relayVars, limiterVars, vars
<1> QED
  BY <1>1, <1>2, <1>3, <1>4, <1>5, <1>6, <1>7 DEF RelayNext

(* What a handler holds depends on its own entries only. *)
LEMMA Untouched ==
    ASSUME NEW g \in Handlers, HoldsWhatItShould(g),
           step'[g] = step[g], token'[g] = token[g], res'[g] = res[g],
           conn'[g] => conn[g], sock'[g] => sock[g], g \in sessions' => g \in sessions
    PROVE  HoldsWhatItShould(g)'
BY DEF HoldsWhatItShould, Free

(* A step of the limiter for one handler leaves the others' reservations. *)
LEMMA OwnReservation ==
    ASSUME TypeOK, NEW h \in Handlers, NEW g \in Handlers, g # h, NEW t \in Tokens,
           reserve(h, t) \/ upstreamDialDone(h) \/ release(h)
    PROVE  res'[g] = res[g]
BY DEF TypeOK, reserve, upstreamDialDone, release

(* Every action leaves well-typed values behind. *)
LEMMA StepRelayTypeOK == ASSUME RelayTypeOK, TypeOK', [RelayNext]_relayVars PROVE RelayTypeOK'
<1> USE DEF RelayTypeOK, Steps, Servers
<1>1. ASSUME NEW h \in Handlers, NEW t \in Tokens, authorizeClient(h, t) PROVE RelayTypeOK'
  BY <1>1 DEF authorizeClient, Goto, controlVars
<1>2. ASSUME NEW h \in Handlers, HandlerStep(h) PROVE RelayTypeOK'
  <2>1. CASE refused(h)
    BY <2>1, RelayAssumption DEF refused, Return, AnyToken, controlVars
  <2>2. CASE reserved(h)
    BY <2>2 DEF reserved, Goto, controlVars
  <2>3. CASE \E ok \in BOOLEAN : dialTelegramRoute(h, ok)
    BY <2>3 DEF dialTelegramRoute, Goto, controlVars
  <2>4. CASE dialDone(h)
    BY <2>4 DEF dialDone, Goto, controlVars
  <2>5. ASSUME NEW ok \in BOOLEAN, hijack(h, ok) PROVE RelayTypeOK'
    <3>1. conn' \in [Handlers -> BOOLEAN] /\ sock' \in [Handlers -> BOOLEAN]
      <4>1. CASE ok
        BY <2>5, <4>1 DEF hijack
      <4>2. CASE ~ok
        BY <2>5, <4>2 DEF hijack, HijackFails
      <4> QED
        BY <4>1, <4>2
    <3>2. step' \in [Handlers -> Steps]
      BY <2>5 DEF hijack, Goto
    <3> QED
      BY <2>5, <3>1, <3>2 DEF hijack, controlVars
  <2>6. ASSUME NEW blocked \in BOOLEAN, registerSession(h, blocked) PROVE RelayTypeOK'
    BY <2>6 DEF registerSession, HangUp, Goto, controlVars
  <2>7. CASE \E ok \in BOOLEAN : upgrade(h, ok)
    BY <2>7 DEF upgrade, HangUp, Goto, controlVars
  <2>8. CASE unregister(h)
    BY <2>8 DEF unregister, Goto, controlVars
  <2>9. CASE released(h)
    BY <2>9, RelayAssumption DEF released, Return, AnyToken, controlVars
  <2> QED
    BY <1>2, <2>1, <2>2, <2>3, <2>4, <2>5, <2>6, <2>7, <2>8, <2>9 DEF HandlerStep
<1>3. ASSUME NEW h \in Handlers, bridge(h) PROVE RelayTypeOK'
  BY <1>3 DEF bridge, BridgeEnds, HangUp, Goto, controlVars
<1>4. ASSUME NEW t \in Tokens, deleteToken(t) PROVE RelayTypeOK'
  BY <1>4 DEF deleteToken, handlerVars
<1>5. ASSUME NEW h \in Handlers, closeSession(h) PROVE RelayTypeOK'
  BY <1>5 DEF closeSession, HangUp
<1>6. CASE ServerStep
  BY <1>6 DEF ServerStep, shutdownBegins, shutdownTimesOut, controlShutdown, returns, handlerVars, controlVars
<1>7. CASE UNCHANGED relayVars
  BY <1>7 DEF relayVars, handlerVars, controlVars
<1> QED
  BY <1>1, <1>2, <1>3, <1>4, <1>5, <1>6, <1>7 DEF RelayNext

(* Steps of a handler, for the handler itself and for the others. *)
LEMMA StepOfHandler ==
    ASSUME RInv, NEW h \in Handlers, HandlerStep(h) \/ bridge(h) \/ \E t \in Tokens : authorizeClient(h, t)
    PROVE  \A g \in Handlers : HoldsWhatItShould(g)'
<1> DEFINE All == \A g \in Handlers : HoldsWhatItShould(g)'
<1> USE DEF RInv, RelayTypeOK
<1>t. TypeOK
  OBVIOUS
<1>r. res[h] \in Reservation \cup {NoReservation}
  BY DEF TypeOK
<1>0. ASSUME NEW t \in Tokens, authorizeClient(h, t) PROVE All
  <2>1. \A g \in Handlers : g # h => HoldsWhatItShould(g)'
    BY <1>0, Untouched DEF authorizeClient, Goto, controlVars, limiterVars
  <2>2. HoldsWhatItShould(h)'
    BY <1>0 DEF authorizeClient, Goto, At, controlVars, limiterVars, HoldsWhatItShould, Free, WhileDialing, AfterDial
  <2> QED
    BY <2>1, <2>2
<1>1. CASE refused(h)
  <2>1. \A g \in Handlers : g # h => HoldsWhatItShould(g)'
    BY <1>1, Untouched DEF refused, Return, controlVars, limiterVars
  <2>2. HoldsWhatItShould(h)'
    BY <1>1 DEF refused, Return, At, controlVars, limiterVars, HoldsWhatItShould, Free, WhileDialing, AfterDial
  <2> QED
    BY <2>1, <2>2
<1>2. CASE reserved(h)
  <2>1. ASSUME NEW g \in Handlers, g # h PROVE HoldsWhatItShould(g)'
    <3>1. res'[g] = res[g]
      BY <1>2, <1>t, <2>1, OwnReservation DEF reserved
    <3> QED
      BY <1>2, <2>1, <3>1, Untouched DEF reserved, Goto, controlVars
  <2>2. /\ res'[h] \in Reservation /\ ~res'[h].released /\ ~res'[h].dialDone
        /\ res'[h].token = token[h]
    BY <1>2, <1>t DEF reserved, reserve, TypeOK, Reservation
  <2>3. step'[h] = "dialing"
    BY <1>2 DEF reserved, Goto
  <2>4. HoldsWhatItShould(h)'
    BY <1>2, <2>2, <2>3 DEF reserved, At, controlVars, HoldsWhatItShould, WhileDialing, AfterDial
  <2> QED
    BY <2>1, <2>4
<1>3. ASSUME NEW ok \in BOOLEAN, dialTelegramRoute(h, ok) PROVE All
  <2>1. \A g \in Handlers : g # h => HoldsWhatItShould(g)'
    BY <1>3, Untouched DEF dialTelegramRoute, Goto, controlVars, limiterVars
  <2>2. HoldsWhatItShould(h)'
    BY <1>3 DEF dialTelegramRoute, Goto, At, controlVars, limiterVars, HoldsWhatItShould, WhileDialing, AfterDial
  <2> QED
    BY <2>1, <2>2
<1>4. CASE dialDone(h)
  <2>1. ASSUME NEW g \in Handlers, g # h PROVE HoldsWhatItShould(g)'
    <3>1. res'[g] = res[g]
      BY <1>4, <1>t, <2>1, OwnReservation, RelayAssumption DEF dialDone
    <3> QED
      BY <1>4, <2>1, <3>1, Untouched DEF dialDone, Goto, controlVars
  <2>2. res[h] \in Reservation /\ ~res[h].released /\ res[h].token = token[h]
    BY <1>4 DEF dialDone, At, HoldsWhatItShould, WhileDialing
  <2>3. res'[h] = [res[h] EXCEPT !.dialDone = TRUE]
    BY <1>4, <1>t DEF dialDone, upstreamDialDone, TypeOK
  <2>4. /\ res'[h] \in Reservation /\ ~res'[h].released /\ res'[h].dialDone
        /\ res'[h].token = token[h]
    BY <2>2, <2>3 DEF Reservation
  <2>5. step'[h] = IF conn[h] THEN "hijack" ELSE "release"
    BY <1>4 DEF dialDone, Goto
  <2>6. HoldsWhatItShould(h)'
    BY <1>4, <2>4, <2>5 DEF dialDone, At, controlVars, HoldsWhatItShould, WhileDialing, AfterDial
  <2> QED
    BY <2>1, <2>6
<1>5. ASSUME NEW ok \in BOOLEAN, hijack(h, ok) PROVE All
  <2>1. \A g \in Handlers : g # h => HoldsWhatItShould(g)'
    BY <1>5, Untouched DEF hijack, HijackFails, Goto, controlVars, limiterVars
  <2>2. HoldsWhatItShould(h)'
    BY <1>5 DEF hijack, HijackFails, Goto, At, controlVars, limiterVars, HoldsWhatItShould, WhileDialing, AfterDial
  <2> QED
    BY <2>1, <2>2
<1>6. ASSUME NEW blocked \in BOOLEAN, registerSession(h, blocked) PROVE All
  <2>1. \A g \in Handlers : g # h => HoldsWhatItShould(g)'
    BY <1>6, Untouched DEF registerSession, HangUp, Goto, limiterVars
  <2>2. HoldsWhatItShould(h)'
    BY <1>6 DEF registerSession, HangUp, Goto, At, limiterVars, HoldsWhatItShould, WhileDialing, AfterDial
  <2> QED
    BY <2>1, <2>2
<1>7. ASSUME NEW ok \in BOOLEAN, upgrade(h, ok) PROVE All
  <2>1. \A g \in Handlers : g # h => HoldsWhatItShould(g)'
    BY <1>7, Untouched DEF upgrade, HangUp, Goto, controlVars, limiterVars
  <2>2. HoldsWhatItShould(h)'
    BY <1>7 DEF upgrade, HangUp, Goto, At, controlVars, limiterVars, HoldsWhatItShould, WhileDialing, AfterDial
  <2> QED
    BY <2>1, <2>2
<1>8. CASE unregister(h)
  <2>1. \A g \in Handlers : g # h => HoldsWhatItShould(g)'
    BY <1>8, Untouched DEF unregister, Goto, limiterVars
  <2>2. HoldsWhatItShould(h)'
    BY <1>8 DEF unregister, Goto, At, limiterVars, HoldsWhatItShould, WhileDialing, AfterDial
  <2> QED
    BY <2>1, <2>2
<1>9. CASE released(h)
  <2>1. ASSUME NEW g \in Handlers, g # h PROVE HoldsWhatItShould(g)'
    <3>1. res'[g] = res[g]
      BY <1>9, <1>t, <2>1, OwnReservation, RelayAssumption DEF released
    <3> QED
      BY <1>9, <2>1, <3>1, Untouched DEF released, Return, controlVars
  <2>2. res[h] \in Reservation
    BY <1>9 DEF released, At, HoldsWhatItShould, AfterDial
  <2>3. res'[h] = [res[h] EXCEPT !.dialDone = TRUE, !.released = TRUE]
    BY <1>9, <1>t DEF released, release, TypeOK
  <2>4. res'[h].released
    BY <2>2, <2>3 DEF Reservation
  <2>5. step'[h] = "idle"
    BY <1>9 DEF released, Return
  <2>6. HoldsWhatItShould(h)'
    BY <1>9, <2>4, <2>5 DEF released, At, controlVars, HoldsWhatItShould, Free, WhileDialing, AfterDial
  <2> QED
    BY <2>1, <2>6
<1>10. CASE bridge(h)
  <2>1. \A g \in Handlers : g # h => HoldsWhatItShould(g)'
    BY <1>10, Untouched DEF bridge, BridgeEnds, HangUp, Goto, controlVars, limiterVars
  <2>2. HoldsWhatItShould(h)'
    BY <1>10 DEF bridge, BridgeEnds, HangUp, Goto, At, controlVars, limiterVars, HoldsWhatItShould, WhileDialing, AfterDial
  <2> QED
    BY <2>1, <2>2
<1> QED
  BY <1>0, <1>1, <1>2, <1>3, <1>4, <1>5, <1>6, <1>7, <1>8, <1>9, <1>10 DEF HandlerStep

(* Every step of handlers, owner and server keeps RInv. *)
LEMMA RelayNextRInv == RInv /\ [RelayNext]_relayVars => RInv'
<1> SUFFICES ASSUME RInv, [RelayNext]_relayVars PROVE RInv'
  OBVIOUS
<1>1. IInv'
  BY StepOfLimiter, NextIInv DEF RInv
<1>2. RelayTypeOK'
  BY <1>1, StepRelayTypeOK DEF RInv, IInv
<1>3. \A g \in Handlers : HoldsWhatItShould(g)'
  <2>1. CASE \E h \in Handlers : HandlerStep(h) \/ bridge(h) \/ \E t \in Tokens : authorizeClient(h, t)
    BY <2>1, StepOfHandler
  <2>2. CASE \E t \in Tokens : deleteToken(t)
    BY <2>2, Untouched DEF RInv, deleteToken, handlerVars, limiterVars
  <2>3. CASE \E h \in Handlers : closeSession(h)
    BY <2>3, Untouched DEF RInv, RelayTypeOK, closeSession, HangUp, limiterVars
  <2>4. CASE ServerStep
    BY <2>4, Untouched
       DEF RInv, ServerStep, shutdownBegins, shutdownTimesOut, controlShutdown, returns,
           handlerVars, controlVars, limiterVars
  <2>5. CASE UNCHANGED relayVars
    BY <2>5, Untouched DEF RInv, relayVars, handlerVars, controlVars, limiterVars
  <2> QED
    BY <2>1, <2>2, <2>3, <2>4, <2>5 DEF RelayNext
<1> QED
  BY <1>1, <1>2, <1>3 DEF RInv

-----------------------------------------------------------------------------
(* A handler that holds a connection holds a slot for the same token. *)
LEMMA ConnectedIsOpen ==
    ASSUME RInv, NEW h \in Handlers, conn[h]
    PROVE  h \in Open /\ res[h].token = token[h]
<1>1. res[h] \in Reservation /\ ~res[h].released /\ res[h].token = token[h]
  BY DEF RInv, HoldsWhatItShould, WhileDialing, AfterDial
<1>2. res[h] # NoReservation
  BY <1>1, HandlersAssumption
<1> QED
  BY <1>1, <1>2 DEF Open, Held

(* A handler that is through holds nothing. *)
LEMMA RInvImpliesNothingLeaks == RInv => NothingLeaks
<1> SUFFICES ASSUME RInv, NEW h \in Handlers, At(h, "idle")
             PROVE  ~conn[h] /\ ~sock[h] /\ h \notin sessions /\ h \notin Open
  BY DEF NothingLeaks
<1>1. ~conn[h] /\ ~sock[h] /\ h \notin sessions
  BY DEF RInv, HoldsWhatItShould, At
<1>2. Free(h)
  BY DEF RInv, HoldsWhatItShould, At
<1> QED
  BY <1>1, <1>2 DEF Free, Open, Held

(* Connections are among the slots the limits bound. *)
LEMMA RInvImpliesLimits == RInv => ConnectionsWithinLimits
<1> SUFFICES ASSUME RInv PROVE ConnectionsWithinLimits
  OBVIOUS
<1>1. WithinLimits
  BY IInvImplies DEF RInv
<1>2. ASSUME NEW S, NEW T, NEW n \in Nat, S \subseteq T, IsFiniteSet(T), Cardinality(T) <= n
      PROVE  Cardinality(S) <= n
  <2>1. Cardinality(S) <= Cardinality(T) /\ IsFiniteSet(S)
    BY <1>2, FS_Subset
  <2>2. Cardinality(S) \in Nat /\ Cardinality(T) \in Nat
    BY <1>2, <2>1, FS_CardinalityType
  <2> QED
    BY <1>2, <2>1, <2>2
<1>3. Connected \subseteq Open
  BY ConnectedIsOpen DEF Connected
<1>4. Cardinality(Connected) <= MaxSessions
  BY <1>1, <1>2, <1>3, FiniteOpen, LimitsAssumption DEF WithinLimits
<1>5. ASSUME NEW t \in Tokens
      PROVE  Cardinality({h \in Connected : token[h] = t}) <= MaxPerToken
  <2>1. {h \in Connected : token[h] = t} \subseteq OpenOf(t)
    BY ConnectedIsOpen DEF Connected, OpenOf
  <2> QED
    BY <1>1, <1>2, <2>1, FiniteOpen, LimitsAssumption DEF WithinLimits
<1> QED
  BY <1>4, <1>5 DEF ConnectionsWithinLimits

(* Type correctness of the composition of handlers, limiter, owner and       *)
(* server.                                                                   *)
THEOREM RelayTypeCorrect == RelaySpec => []RelayTypeOK
<1>1. RInv => RelayTypeOK
  BY DEF RInv
<1> QED
  BY RelayInitRInv, RelayNextRInv, <1>1, PTL DEF RelaySpec

(* The handlers of the relay use the limiter as its own specification says,  *)
(* so what is proved of the limiter holds in the relay.                      *)
THEOREM RelayUsesLimiter == RelaySpec => Init /\ [][Next]_vars
<1>1. RelayInit => Init
  BY DEF RelayInit
<1>2. RInv /\ [RelayNext]_relayVars => [Next]_vars
  BY StepOfLimiter DEF RInv
<1> QED
  BY RelayInitRInv, RelayNextRInv, <1>1, <1>2, PTL DEF RelaySpec

(* The counters of the limiter are exact on every path of a handler. *)
THEOREM RelayCountersExact == RelaySpec => []CountersExact
<1>1. RInv => CountersExact
  BY IInvImplies DEF RInv
<1> QED
  BY RelayInitRInv, RelayNextRInv, <1>1, PTL DEF RelaySpec

(* No path of a handler leaves a connection, a slot or a session behind. *)
THEOREM RelayNothingLeaks == RelaySpec => []NothingLeaks
BY RelayInitRInv, RelayNextRInv, RInvImpliesNothingLeaks, PTL DEF RelaySpec

(* The limits bound the connections to Telegram that are really open. *)
THEOREM RelayConnectionsWithinLimits == RelaySpec => []ConnectionsWithinLimits
BY RelayInitRInv, RelayNextRInv, RInvImpliesLimits, PTL DEF RelaySpec
=============================================================================
