------------------------- MODULE UpstreamPoolProofs --------------------------
(* The dial race, for every route, every width of the waves and any number  *)
(* of concurrent dials: no connection leaks and no wave is skipped.  Most   *)
(* of it is about a single call, the record dial[d].                        *)
EXTENDS UpstreamPool, FiniteSetTheorems, TLAPS

Call == [step : {"idle", "racing", "returned"}, order : Seq(Addresses), start : Nat,
         ctx : {"live", "canceled", "expired"}, racer : [Addresses -> Racer],
         open : SUBSET Addresses, late : Nat, winner : Addresses \cup {NoAddress}]

Active == {"waiting", "dialing"} \cup Sent

(* What holds of every call, in the terms of the code: only the goroutines   *)
(* of the current wave are under way; whoever has a connection in the        *)
(* channel, and the winner, has it open, and nobody else; the drainer waits  *)
(* for exactly the results that are left; the waves before are through; and  *)
(* a call that returns with its context alive has gone through them all.     *)
CallInv(c) ==
    /\ c \in Call
    /\ \A i, j \in DOMAIN c.order : c.order[i] = c.order[j] => i = j
    /\ \A a \in Addresses : c.racer[a] \in Active => a \in Wave(c.order, c.start)
    /\ c.open = {a \in Addresses : c.racer[a] = "conn" \/ a = c.winner}
    /\ c.winner # NoAddress => c.step = "returned" /\ c.racer[c.winner] = "received"
    /\ c.step = "returned" => c.late = Cardinality(Unreceived(c))
    /\ \A i \in DOMAIN c.order : i <= c.start => c.racer[c.order[i]] = "received"
    /\ c.step = "returned" /\ c.winner = NoAddress /\ c.ctx = "live" =>
          \A i \in DOMAIN c.order : c.racer[c.order[i]] = "received"

PoolInv == dial \in [Dials -> Call] /\ \A d \in Dials : CallInv(dial[d])

-----------------------------------------------------------------------------
(* A route has finitely many endpoints. *)
LEMMA AddressesFinite == IsFiniteSet(Addresses)
<1>1. Route \in Seq(Addresses) /\ \A a \in Addresses : \E n \in 1..Len(Route) : Route[n] = a
  BY PoolAssumption DEF Addresses
<1> QED
  BY <1>1 DEF IsFiniteSet

(* The absence of a winner is not an endpoint. *)
LEMMA NoneIsNoAddress == NoAddress \notin Addresses
BY PoolAssumption

(* What is left of a wave is a finite set of endpoints. *)
LEMMA LeftOfWave ==
    ASSUME NEW c \in Call
    PROVE  /\ Wave(c.order, c.start) \subseteq Addresses
           /\ Unreceived(c) \subseteq Addresses
           /\ IsFiniteSet(Unreceived(c)) /\ LateResults(c) \in Nat
           /\ LateResults(c) = 0 <=> Unreceived(c) = {}
<1>1. Wave(c.order, c.start) \subseteq Addresses
  BY DEF Call, Wave
<1>2. Unreceived(c) \subseteq Addresses
  BY <1>1 DEF Unreceived
<1>3. IsFiniteSet(Unreceived(c))
  BY <1>2, AddressesFinite, FS_Subset
<1> QED
  BY <1>1, <1>2, <1>3, FS_CardinalityType, FS_EmptySet DEF LateResults

(* A call that has not begun satisfies the invariant. *)
LEMMA IdleInv == CallInv(Idle)
<1>1. Idle \in Call
  BY DEF Idle, Call, Racer
<1> QED
  BY <1>1, NoneIsNoAddress DEF CallInv, Idle, Active, Sent

(* So do all of them at first. *)
LEMMA InitPoolInv == Init => PoolInv
BY IdleInv DEF Init, PoolInv, CallInv

-----------------------------------------------------------------------------
(* The goroutines of a wave whose predecessors are through start with every  *)
(* invariant intact.                                                         *)
LEMMA LaunchInv ==
    ASSUME NEW c \in Call, NEW start \in Nat, start < Len(c.order), c.step = "racing",
           \A i, j \in DOMAIN c.order : c.order[i] = c.order[j] => i = j,
           \A a \in Addresses : c.racer[a] \notin Active,
           c.open = {}, c.winner = NoAddress,
           \A i \in DOMAIN c.order : i <= start => c.racer[c.order[i]] = "received"
    PROVE  CallInv(Launch(c, start))
<1> DEFINE l == Launch(c, start)
<1>1. /\ l.step = "racing" /\ l.order = c.order /\ l.start = start /\ l.ctx = c.ctx
      /\ l.open = {} /\ l.late = c.late /\ l.winner = NoAddress
      /\ l.racer = [a \in Addresses |->
              IF a = c.order[start + 1] THEN "dialing"
              ELSE IF a \in Wave(c.order, start) THEN "waiting" ELSE c.racer[a]]
  BY DEF Launch, Call
<1>2. l \in Call
  BY <1>1 DEF Launch, Call, Racer
<1> HIDE DEF l
<1>3. c.order[start + 1] \in Wave(c.order, start)
  BY PoolAssumption DEF Wave, Call
<1>4. \A a \in Addresses : l.racer[a] \in Active => a \in Wave(c.order, start)
  BY <1>1, <1>3
<1>5. \A a \in Addresses : l.racer[a] # "conn"
  BY <1>1 DEF Active, Sent
<1>6. \A i \in DOMAIN c.order : i <= start => l.racer[c.order[i]] = "received"
  <2> SUFFICES ASSUME NEW i \in DOMAIN c.order, i <= start PROVE l.racer[c.order[i]] = "received"
    OBVIOUS
  <2>1. c.order[i] \in Addresses /\ c.order[i] \notin Wave(c.order, start)
    BY DEF Wave, Call
  <2> QED
    BY <1>1, <1>3, <2>1
<1>7. l.open = {a \in Addresses : l.racer[a] = "conn" \/ a = l.winner}
  BY <1>1, <1>5, NoneIsNoAddress
<1>8. \A i, j \in DOMAIN l.order : l.order[i] = l.order[j] => i = j
  BY <1>1
<1>9. l.step # "returned" /\ l.winner = NoAddress
  BY <1>1
<1>10. CallInv(l)
  BY <1>1, <1>2, <1>4, <1>6, <1>7, <1>8, <1>9 DEF CallInv
<1> QED
  BY <1>10 DEF l

(* A call that returns: the drainer is told how many results are left. *)
LEMMA ReturnInv ==
    ASSUME NEW c \in Call, NEW winner \in Addresses \cup {NoAddress},
           \A i, j \in DOMAIN c.order : c.order[i] = c.order[j] => i = j,
           \A a \in Addresses : c.racer[a] \in Active => a \in Wave(c.order, c.start),
           c.open = {a \in Addresses : c.racer[a] = "conn" \/ a = winner},
           winner # NoAddress => c.racer[winner] = "received",
           \A i \in DOMAIN c.order : i <= c.start => c.racer[c.order[i]] = "received",
           winner = NoAddress /\ c.ctx = "live" =>
               \A i \in DOMAIN c.order : c.racer[c.order[i]] = "received"
    PROVE  CallInv(Return(c, winner))
<1> DEFINE r == Return(c, winner)
<1>1. /\ r.step = "returned" /\ r.order = c.order /\ r.start = c.start /\ r.ctx = c.ctx
      /\ r.racer = c.racer /\ r.open = c.open /\ r.late = LateResults(c) /\ r.winner = winner
  BY DEF Return, Call
<1>2. r \in Call
  BY <1>1, LeftOfWave DEF Return, Call
<1> HIDE DEF r
<1>3. r.late = Cardinality(Unreceived(r))
  BY <1>1 DEF Unreceived, LateResults
<1>4. \A i, j \in DOMAIN r.order : r.order[i] = r.order[j] => i = j
  BY <1>1
<1>5. r.open = {a \in Addresses : r.racer[a] = "conn" \/ a = r.winner}
  BY <1>1
<1>6. \A a \in Addresses : r.racer[a] \in Active => a \in Wave(r.order, r.start)
  BY <1>1
<1>7. \A i \in DOMAIN r.order : i <= r.start => r.racer[r.order[i]] = "received"
  BY <1>1
<1>8. r.winner # NoAddress => r.racer[r.winner] = "received"
  BY <1>1
<1>9. r.winner = NoAddress /\ r.ctx = "live" =>
          \A i \in DOMAIN r.order : r.racer[r.order[i]] = "received"
  BY <1>1
<1>10. CallInv(r)
  BY <1>1, <1>2, <1>3, <1>4, <1>5, <1>6, <1>7, <1>8, <1>9 DEF CallInv
<1> QED
  BY <1>10 DEF r

(* A goroutine that is under way goes on or sends its result, and opens a     *)
(* connection if that is what it sends.                                      *)
LEMMA RacerGoesOn ==
    ASSUME NEW c, CallInv(c), NEW a \in Addresses, c.racer[a] \in {"waiting", "dialing"},
           NEW state \in {"dialing"} \cup Sent, NEW open,
           open = IF state = "conn" THEN c.open \cup {a} ELSE c.open
    PROVE  CallInv([c EXCEPT !.racer[a] = state, !.open = open])
<1> DEFINE n == [c EXCEPT !.racer[a] = state, !.open = open]
<1>c. c \in Call /\ state \in Racer /\ state \in Active
  BY DEF CallInv, Racer, Active
<1>1. /\ n.step = c.step /\ n.order = c.order /\ n.start = c.start /\ n.ctx = c.ctx
      /\ n.late = c.late /\ n.winner = c.winner /\ n.open = open
      /\ n.racer = [c.racer EXCEPT ![a] = state]
  BY <1>c DEF Call
<1>2. n \in Call
  BY <1>1, <1>c DEF Call
<1>3. n.racer[a] = state /\ \A b \in Addresses : b # a => n.racer[b] = c.racer[b]
  BY <1>1, <1>c DEF Call
<1> HIDE DEF n
<1>4. Wave(c.order, c.start) \subseteq Addresses
  BY <1>c, LeftOfWave
<1>5. state # "received" /\ c.racer[a] # "received" /\ c.racer[a] # "conn" /\ c.racer[a] \in Active
  BY DEF Sent, Active
<1>6. Unreceived(n) = Unreceived(c)
  BY <1>1, <1>3, <1>4, <1>5 DEF Unreceived
<1>7. \A b \in Addresses : n.racer[b] \in Active => b \in Wave(n.order, n.start)
  BY <1>1, <1>3, <1>5 DEF CallInv
<1>8. n.open = {b \in Addresses : n.racer[b] = "conn" \/ b = n.winner}
  BY <1>1, <1>3, <1>5 DEF CallInv
<1>9. \A i \in DOMAIN n.order : c.racer[n.order[i]] = "received" => n.racer[n.order[i]] = "received"
  BY <1>1, <1>3, <1>5, <1>c DEF Call
<1>10. n.winner # NoAddress => n.step = "returned" /\ n.racer[n.winner] = "received"
  BY <1>1, <1>3, <1>5, <1>c DEF CallInv, Call
<1>11. \A i, j \in DOMAIN n.order : n.order[i] = n.order[j] => i = j
  BY <1>1 DEF CallInv
<1>12. n.step = "returned" => n.late = Cardinality(Unreceived(n))
  BY <1>1, <1>6 DEF CallInv
<1>13. \A i \in DOMAIN n.order : i <= n.start => n.racer[n.order[i]] = "received"
  BY <1>1, <1>9 DEF CallInv
<1>14. n.step = "returned" /\ n.winner = NoAddress /\ n.ctx = "live" =>
          \A i \in DOMAIN n.order : n.racer[n.order[i]] = "received"
  BY <1>1, <1>9 DEF CallInv
<1>15. CallInv(n)
  BY <1>2, <1>7, <1>8, <1>10, <1>11, <1>12, <1>13, <1>14 DEF CallInv
<1> QED
  BY <1>15 DEF n

(* A result is taken from the channel: by the receiver, or by the drainer.   *)
Took(c, a) == [c EXCEPT !.racer[a] = "received"]

(* Taking a result changes nothing but the goroutine's state. *)
LEMMA TookFacts ==
    ASSUME NEW c, CallInv(c), NEW a \in Addresses, c.racer[a] \in Sent
    PROVE  LET t == Took(c, a)
           IN  /\ t \in Call
               /\ t.step = c.step /\ t.order = c.order /\ t.start = c.start /\ t.ctx = c.ctx
               /\ t.late = c.late /\ t.winner = c.winner /\ t.open = c.open
               /\ t.racer[a] = "received" /\ \A b \in Addresses : b # a => t.racer[b] = c.racer[b]
               /\ \A i \in DOMAIN c.order : c.racer[c.order[i]] = "received" => t.racer[c.order[i]] = "received"
               /\ \A b \in Addresses : t.racer[b] \in Active => b \in Wave(t.order, t.start)
               /\ a \in Unreceived(c) /\ Unreceived(t) = Unreceived(c) \ {a}
<1> DEFINE t == Took(c, a)
<1>c. c \in Call
  BY DEF CallInv
<1>1. /\ t.step = c.step /\ t.order = c.order /\ t.start = c.start /\ t.ctx = c.ctx
      /\ t.late = c.late /\ t.winner = c.winner /\ t.open = c.open
      /\ t.racer = [c.racer EXCEPT ![a] = "received"]
  BY <1>c DEF Call, Took
<1>2. t \in Call
  BY <1>1, <1>c DEF Call, Took, Racer
<1>3. t.racer[a] = "received" /\ \A b \in Addresses : b # a => t.racer[b] = c.racer[b]
  BY <1>1, <1>c DEF Call
<1> HIDE DEF t
<1>4. Wave(c.order, c.start) \subseteq Addresses
  BY <1>c, LeftOfWave
<1>5. c.racer[a] # "received" /\ c.racer[a] \in Active /\ "received" \notin Active
  BY DEF Sent, Active
<1>6. \A b \in Addresses : t.racer[b] \in Active => b \in Wave(t.order, t.start)
  BY <1>1, <1>3, <1>5 DEF CallInv
<1>7. a \in Unreceived(c)
  BY <1>5 DEF CallInv, Unreceived
<1>8. Unreceived(t) = Unreceived(c) \ {a}
  BY <1>1, <1>3, <1>4 DEF Unreceived
<1>9. \A i \in DOMAIN c.order : c.order[i] \in Addresses
  BY <1>c DEF Call
<1>10. \A i \in DOMAIN c.order : c.racer[c.order[i]] = "received" => t.racer[c.order[i]] = "received"
  BY <1>3, <1>9
<1> QED
  BY <1>1, <1>2, <1>3, <1>6, <1>7, <1>8, <1>10 DEF t

(* The receiver takes a connection, cancels the context and returns it. *)
LEMMA ReceivesConnection ==
    ASSUME NEW c, CallInv(c), c.step = "racing", NEW a \in Addresses, c.racer[a] = "conn"
    PROVE  CallInv(Return([Took(c, a) EXCEPT !.ctx = IF @ = "live" THEN "canceled" ELSE @], a))
<1> DEFINE t == Took(c, a)
           w == [t EXCEPT !.ctx = IF @ = "live" THEN "canceled" ELSE @]
<1>s. "conn" \in Sent
  BY DEF Sent
<1>t. /\ t \in Call
      /\ t.order = c.order /\ t.start = c.start /\ t.open = c.open
      /\ t.racer[a] = "received" /\ \A b \in Addresses : b # a => t.racer[b] = c.racer[b]
      /\ \A i \in DOMAIN c.order : c.racer[c.order[i]] = "received" => t.racer[c.order[i]] = "received"
      /\ \A b \in Addresses : t.racer[b] \in Active => b \in Wave(t.order, t.start)
  BY <1>s, TookFacts
<1> HIDE DEF t
<1>1. /\ w \in Call /\ w.order = t.order /\ w.start = t.start
      /\ w.open = t.open /\ w.racer = t.racer /\ w.ctx # "live"
  BY <1>t DEF Call
<1> HIDE DEF w
<1>2. c.winner = NoAddress
  BY DEF CallInv
<1>3. w.open = {b \in Addresses : w.racer[b] = "conn" \/ b = a}
  BY <1>1, <1>t, <1>2, NoneIsNoAddress DEF CallInv
<1>4. \A i, j \in DOMAIN w.order : w.order[i] = w.order[j] => i = j
  BY <1>1, <1>t DEF CallInv
<1>5. \A i \in DOMAIN w.order : i <= w.start => w.racer[w.order[i]] = "received"
  BY <1>1, <1>t DEF CallInv
<1>6. \A b \in Addresses : w.racer[b] \in Active => b \in Wave(w.order, w.start)
  BY <1>1, <1>t
<1>7. w.racer[a] = "received" /\ a # NoAddress
  BY <1>1, <1>t, NoneIsNoAddress
<1>8. CallInv(Return(w, a))
  BY <1>1, <1>3, <1>4, <1>5, <1>6, <1>7, ReturnInv
<1> QED
  BY <1>8 DEF w, t

(* The receiver takes a failure and goes on: with the wave, with the next    *)
(* wave, or back to the handler.                                             *)
LEMMA ReceivesFailure ==
    ASSUME NEW c, CallInv(c), c.step = "racing", NEW a \in Addresses, c.racer[a] \in {"error", "canceled"}
    PROVE  CallInv(AfterFailure(Took(c, a)))
<1> DEFINE t == Took(c, a)
<1>s. c.racer[a] \in Sent /\ c.racer[a] # "conn"
  BY DEF Sent
<1>t. /\ t \in Call /\ t.step = c.step /\ t.winner = c.winner
      /\ t.order = c.order /\ t.start = c.start /\ t.open = c.open
      /\ t.racer[a] = "received" /\ \A b \in Addresses : b # a => t.racer[b] = c.racer[b]
      /\ \A i \in DOMAIN c.order : c.racer[c.order[i]] = "received" => t.racer[c.order[i]] = "received"
      /\ \A b \in Addresses : t.racer[b] \in Active => b \in Wave(t.order, t.start)
  BY <1>s, TookFacts
<1> HIDE DEF t
<1>1. t.winner = NoAddress /\ t.step = "racing"
  BY <1>t DEF CallInv
<1>2. t.open = {b \in Addresses : t.racer[b] = "conn" \/ b = t.winner}
  BY <1>s, <1>t DEF CallInv
<1>3. \A i, j \in DOMAIN t.order : t.order[i] = t.order[j] => i = j
  BY <1>t DEF CallInv
<1>4. \A i \in DOMAIN t.order : i <= t.start => t.racer[t.order[i]] = "received"
  BY <1>t DEF CallInv
<1>5. CASE Unreceived(t) # {}
  <2>1. CallInv(t)
    BY <1>t, <1>1, <1>2, <1>3, <1>4 DEF CallInv
  <2> QED
    BY <1>5, <2>1 DEF AfterFailure, t
<1>6. CASE Unreceived(t) = {}
  <2>1. \A b \in Wave(t.order, t.start) : t.racer[b] = "received"
    BY <1>6 DEF Unreceived
  <2>2. \A b \in Addresses : t.racer[b] \notin Active
    BY <1>t, <2>1 DEF Active, Sent
  <2>3. \A b \in Addresses : t.racer[b] # "conn"
    BY <2>2 DEF Active, Sent
  <2>4. t.open = {}
    BY <1>1, <1>2, <2>3, NoneIsNoAddress
  <2>5. NextWave(t.start) \in Nat /\ t.start \in Nat /\ DOMAIN t.order = 1..Len(t.order) /\ Len(t.order) \in Nat
    BY <1>t, PoolAssumption DEF NextWave, Call
  <2>6. \A i \in DOMAIN t.order : i <= NextWave(t.start) => t.racer[t.order[i]] = "received"
    BY <1>4, <2>1, <2>5 DEF NextWave, Wave
  <2>7. CASE t.ctx = "live" /\ NextWave(t.start) < Len(t.order)
    <3>1. CallInv(Launch(t, NextWave(t.start)))
      BY <1>t, <1>1, <1>3, <2>2, <2>4, <2>5, <2>6, <2>7, LaunchInv
    <3> QED
      BY <1>6, <2>7, <3>1 DEF AfterFailure, t
  <2>8. CASE ~(t.ctx = "live" /\ NextWave(t.start) < Len(t.order))
    <3>1. t.ctx = "live" => \A i \in DOMAIN t.order : t.racer[t.order[i]] = "received"
      BY <2>5, <2>6, <2>8
    <3>2. CallInv(Return(t, NoAddress))
      BY <1>t, <1>1, <1>2, <1>3, <1>4, <3>1, ReturnInv
    <3> QED
      BY <1>6, <2>8, <3>2 DEF AfterFailure, t
  <2> QED
    BY <2>7, <2>8
<1> QED
  BY <1>5, <1>6

(* The drainer closes a late connection, never the winner's. *)
LEMMA DrainerCloses ==
    ASSUME NEW c, CallInv(c), c.step = "returned", c.late > 0, NEW a \in Addresses, c.racer[a] \in Sent
    PROVE  CallInv([c EXCEPT !.racer[a] = "received", !.open = @ \ {a}, !.late = @ - 1])
<1> DEFINE t == Took(c, a)
           n == [c EXCEPT !.racer[a] = "received", !.open = @ \ {a}, !.late = @ - 1]
<1>c. c \in Call /\ "received" \notin Sent
  BY DEF CallInv, Sent
<1>t. /\ t \in Call /\ t.step = c.step /\ t.winner = c.winner /\ t.ctx = c.ctx
      /\ t.order = c.order /\ t.start = c.start
      /\ t.racer[a] = "received" /\ \A b \in Addresses : b # a => t.racer[b] = c.racer[b]
      /\ \A i \in DOMAIN c.order : c.racer[c.order[i]] = "received" => t.racer[c.order[i]] = "received"
      /\ \A b \in Addresses : t.racer[b] \in Active => b \in Wave(t.order, t.start)
      /\ a \in Unreceived(c) /\ Unreceived(t) = Unreceived(c) \ {a}
  BY TookFacts
<1>0. n.racer = t.racer
  BY <1>c DEF Call, Took
<1> HIDE DEF t
<1>f. /\ n.step = c.step /\ n.winner = c.winner /\ n.ctx = c.ctx /\ n.order = c.order
      /\ n.start = c.start /\ n.open = c.open \ {a} /\ n.late = c.late - 1
      /\ n.racer = [c.racer EXCEPT ![a] = "received"]
  BY <1>c DEF Call
<1>1. n \in Call
  <2>1. c.late - 1 \in Nat
    BY <1>c DEF Call
  <2>2. c.open \ {a} \in SUBSET Addresses /\ [c.racer EXCEPT ![a] = "received"] \in [Addresses -> Racer]
    BY <1>c DEF Call, Racer
  <2> QED
    BY <1>c, <2>1, <2>2 DEF Call
<1> HIDE DEF n
<1>2. Unreceived(n) = Unreceived(c) \ {a}
  BY <1>0, <1>1, <1>f, <1>t DEF Unreceived
<1>3. n.late = Cardinality(Unreceived(n))
  BY <1>1, <1>f, <1>2, <1>t, <1>c, LeftOfWave, FS_RemoveElement DEF CallInv
<1>4. c.winner # a /\ a # NoAddress
  BY <1>c, NoneIsNoAddress DEF CallInv
<1>5. n.open = {b \in Addresses : n.racer[b] = "conn" \/ b = n.winner}
  BY <1>0, <1>1, <1>f, <1>t, <1>4 DEF CallInv
<1>6. n.winner # NoAddress => n.racer[n.winner] = "received"
  BY <1>0, <1>1, <1>f, <1>t, <1>c DEF CallInv, Call
<1>7. \A i, j \in DOMAIN n.order : n.order[i] = n.order[j] => i = j
  BY <1>1, <1>f DEF CallInv
<1>8. \A b \in Addresses : n.racer[b] \in Active => b \in Wave(n.order, n.start)
  BY <1>0, <1>1, <1>f, <1>t
<1>9. \A i \in DOMAIN n.order : i <= n.start => n.racer[n.order[i]] = "received"
  BY <1>0, <1>1, <1>f, <1>t DEF CallInv
<1>10. n.winner = NoAddress /\ n.ctx = "live" => \A i \in DOMAIN n.order : n.racer[n.order[i]] = "received"
  BY <1>0, <1>1, <1>f, <1>t DEF CallInv
<1>11. CallInv(n)
  BY <1>1, <1>f, <1>3, <1>5, <1>6, <1>7, <1>8, <1>9, <1>10 DEF CallInv
<1> QED
  BY <1>11 DEF n

-----------------------------------------------------------------------------
(* A call begins with its first wave, in any order the pool may give. *)
LEMMA BeginInv ==
    ASSUME NEW first, NEW order \in ordered(first), Candidates # {}
    PROVE  CallInv(Launch([Idle EXCEPT !.step = "racing", !.order = order], 0))
<1> DEFINE c == [Idle EXCEPT !.step = "racing", !.order = order]
           n == Cardinality(Candidates)
<1>1. order \in [1..n -> Candidates] /\ \A i, j \in 1..n : order[i] = order[j] => i = j
  BY DEF ordered, Bijection, Injection, IsInjective
<1>2. Candidates \subseteq Addresses
  BY DEF Candidates
<1>3. n \in Nat /\ n # 0
  BY <1>2, AddressesFinite, FS_Subset, FS_CardinalityType, FS_EmptySet
<1> HIDE DEF n
<1>4. order \in Seq(Addresses) /\ Len(order) = n /\ DOMAIN order = 1..n
  BY <1>1, <1>2, <1>3
<1>5. /\ c.step = "racing" /\ c.order = order /\ c.open = {} /\ c.winner = NoAddress
      /\ c.racer = [a \in Addresses |-> "none"]
  BY DEF Idle
<1>6. c \in Call
  BY <1>4 DEF Idle, Call, Racer
<1> HIDE DEF c
<1>7. \A a \in Addresses : c.racer[a] \notin Active
  BY <1>5 DEF Active, Sent
<1>8. \A i \in DOMAIN c.order : ~(i <= 0)
  BY <1>4, <1>5
<1>9. CallInv(Launch(c, 0))
  BY <1>1, <1>3, <1>4, <1>5, <1>6, <1>7, <1>8, LaunchInv
<1> QED
  BY <1>9 DEF c

(* A step of one call that keeps its invariant keeps them all. *)
LEMMA OneCall ==
    ASSUME PoolInv, NEW d \in Dials, NEW c, CallInv(c), dial' = [dial EXCEPT ![d] = c]
    PROVE  PoolInv'
<1>1. c \in Call
  BY DEF CallInv
<1>2. \A e \in Dials : dial'[e] = IF e = d THEN c ELSE dial[e]
  BY DEF PoolInv
<1>3. dial' \in [Dials -> Call]
  BY <1>1 DEF PoolInv
<1> QED
  BY <1>2, <1>3 DEF PoolInv, CallInv

(* Every step of any call keeps the invariant of each. *)
LEMMA NextPoolInv == PoolInv /\ [Next]_vars => PoolInv'
<1> SUFFICES ASSUME PoolInv, [Next]_vars PROVE PoolInv'
  OBVIOUS
<1>c. \A d \in Dials : CallInv(dial[d]) /\ dial[d] \in Call
  BY DEF PoolInv
<1>0. ASSUME UNCHANGED dial PROVE PoolInv'
  BY <1>0 DEF PoolInv, CallInv
<1>1. ASSUME NEW d \in Dials, NEW first \in DOMAIN Route, begin(d, first) PROVE PoolInv'
  BY <1>1, BeginInv, OneCall DEF begin
<1>2. ASSUME NEW d \in Dials, NEW why \in {"canceled", "expired"}, parentEnds(d, why) PROVE PoolInv'
  <2> DEFINE c == dial[d]
             n == [c EXCEPT !.ctx = why]
  <2>1. /\ n \in Call /\ n.step = c.step /\ n.order = c.order /\ n.start = c.start /\ n.ctx = why
        /\ n.racer = c.racer /\ n.open = c.open /\ n.late = c.late /\ n.winner = c.winner
    BY <1>c DEF Call
  <2>2. dial' = [dial EXCEPT ![d] = n]
    BY <1>2 DEF parentEnds
  <2>3. CallInv(c) /\ c.step = "racing"
    BY <1>2, <1>c DEF parentEnds
  <2> HIDE DEF c, n
  <2>4. CallInv(n)
    BY <2>1, <2>3 DEF CallInv
  <2> QED
    BY <2>2, <2>4, OneCall
<1>3. ASSUME NEW d \in Dials, NEW a \in Addresses, Racing(d, a) PROVE PoolInv'
  <2>1. dial[d].racer[a] \in {"waiting", "dialing"}
    BY <1>3 DEF Racing, staggerFires, staggerCanceled, dialConnects, dialFails
  <2>2. PICK state \in {"dialing"} \cup Sent :
           dial' = [dial EXCEPT ![d] = [dial[d] EXCEPT !.racer[a] = state,
                        !.open = IF state = "conn" THEN dial[d].open \cup {a} ELSE dial[d].open]]
    <3>1. \A state \in {"error", "canceled", "dialing"} :
             [dial[d] EXCEPT !.racer[a] = state] =
             [dial[d] EXCEPT !.racer[a] = state,
                 !.open = IF state = "conn" THEN dial[d].open \cup {a} ELSE dial[d].open]
      BY <1>c DEF Call
    <3>2. CtxErr(d) \in {"error", "canceled"}
      BY DEF CtxErr
    <3>3. CASE staggerFires(d, a) \/ staggerCanceled(d, a) \/ dialFails(d, a)
      <4>1. \E state \in {"error", "canceled", "dialing"} :
               dial' = [dial EXCEPT ![d] = [dial[d] EXCEPT !.racer[a] = state]]
        BY <3>2, <3>3 DEF staggerFires, staggerCanceled, dialFails
      <4> QED
        BY <3>1, <4>1 DEF Sent
    <3>4. CASE dialConnects(d, a)
      <4>1. CASE dial[d].ctx = "live"
        <5>1. dial' = [dial EXCEPT ![d] = [dial[d] EXCEPT !.racer[a] = "conn", !.open = dial[d].open \cup {a}]]
          BY <3>4, <4>1 DEF dialConnects
        <5> QED
          BY <5>1 DEF Sent
      <4>2. CASE dial[d].ctx # "live"
        <5>1. dial' = [dial EXCEPT ![d] = [dial[d] EXCEPT !.racer[a] = CtxErr(d), !.open = dial[d].open]]
          BY <3>4, <4>2 DEF dialConnects
        <5> QED
          BY <3>2, <5>1 DEF Sent
      <4> QED
        BY <4>1, <4>2
    <3> QED
      BY <1>3, <3>3, <3>4 DEF Racing
  <2> QED
    BY <1>c, <2>1, <2>2, RacerGoesOn, OneCall
<1>4. ASSUME NEW d \in Dials, NEW a \in Addresses, receive(d, a) PROVE PoolInv'
  <2>1. CASE dial[d].racer[a] = "conn"
    <3>1. dial' = [dial EXCEPT ![d] =
              Return([Took(dial[d], a) EXCEPT !.ctx = IF @ = "live" THEN "canceled" ELSE @], a)]
      BY <1>4, <2>1 DEF receive, Took
    <3>2. CallInv(Return([Took(dial[d], a) EXCEPT !.ctx = IF @ = "live" THEN "canceled" ELSE @], a))
      BY <1>4, <1>c, <2>1, ReceivesConnection DEF receive
    <3> QED
      BY <3>1, <3>2, OneCall
  <2>2. CASE dial[d].racer[a] # "conn"
    <3>1. dial' = [dial EXCEPT ![d] = AfterFailure(Took(dial[d], a))]
      BY <1>4, <2>2 DEF receive, Took
    <3>2. dial[d].racer[a] \in {"error", "canceled"}
      BY <1>4, <2>2 DEF receive, Sent
    <3>3. CallInv(AfterFailure(Took(dial[d], a)))
      BY <1>4, <1>c, <3>2, ReceivesFailure DEF receive
    <3> QED
      BY <3>1, <3>3, OneCall
  <2> QED
    BY <2>1, <2>2
<1>5. ASSUME NEW d \in Dials, abandon(d) PROVE PoolInv'
  <2> DEFINE c == dial[d]
  <2>1. CallInv(c) /\ c.step = "racing" /\ c.ctx # "live" /\ dial' = [dial EXCEPT ![d] = Return(c, NoAddress)]
    BY <1>5, <1>c DEF abandon
  <2> HIDE DEF c
  <2>2. c.winner = NoAddress
    BY <2>1 DEF CallInv
  <2>3. CallInv(Return(c, NoAddress))
    BY <2>1, <2>2, ReturnInv DEF CallInv
  <2> QED
    BY <2>1, <2>3, OneCall
<1>6. ASSUME NEW d \in Dials, NEW a \in Addresses, closeLate(d, a) PROVE PoolInv'
  <2> DEFINE n == [dial[d] EXCEPT !.racer[a] = "received", !.open = @ \ {a}, !.late = @ - 1]
  <2>1. dial' = [dial EXCEPT ![d] = n]
    BY <1>6 DEF closeLate
  <2>2. CallInv(n)
    BY <1>6, <1>c, DrainerCloses DEF closeLate
  <2> QED
    BY <2>1, <2>2, OneCall
<1>7. ASSUME NEW d \in Dials, finish(d) PROVE PoolInv'
  BY <1>7, IdleInv, OneCall DEF finish
<1>8. ASSUME NEW d \in Dials, coolingDown(d) PROVE PoolInv'
  BY <1>8, <1>0 DEF coolingDown, vars
<1>9. CASE tick
  BY <1>9, <1>0 DEF tick
<1>10. CASE UNCHANGED vars
  BY <1>10, <1>0 DEF vars
<1> QED
  BY <1>1, <1>2, <1>3, <1>4, <1>5, <1>6, <1>7, <1>8, <1>9, <1>10 DEF Next

(* The invariant of the dial race. *)
LEMMA PoolAlways == Spec => []PoolInv
BY InitPoolInv, NextPoolInv, PTL DEF Spec

(* Exactly the connection that dialTelegramRoute returned stays open, for    *)
(* every route, wave width and number of concurrent dials.                   *)
THEOREM PoolOnlyWinnerStaysOpen == Spec => []OnlyWinnerStaysOpen
<1>1. PoolInv => OnlyWinnerStaysOpen
  <2> SUFFICES ASSUME PoolInv, NEW d \in Dials
               PROVE  /\ dial[d].winner # NoAddress => dial[d].winner \in dial[d].open
                      /\ dial[d].step = "returned" /\ dial[d].late = 0 => dial[d].open \subseteq {dial[d].winner}
    BY DEF OnlyWinnerStaysOpen
  <2> DEFINE c == dial[d]
  <2>1. CallInv(c) /\ c \in Call
    BY DEF PoolInv
  <2> HIDE DEF c
  <2>2. c.winner # NoAddress => c.winner \in c.open
    BY <2>1 DEF CallInv, Call
  <2>3. ASSUME c.step = "returned", c.late = 0 PROVE c.open \subseteq {c.winner}
    <3>1. Unreceived(c) = {}
      BY <2>1, <2>3, LeftOfWave DEF CallInv, LateResults
    <3>2. \A a \in Addresses : c.racer[a] # "conn"
      BY <2>1, <3>1 DEF CallInv, Unreceived, Active, Sent
    <3> QED
      BY <2>1, <3>2 DEF CallInv
  <2> QED
    BY <2>2, <2>3 DEF c
<1> QED
  BY <1>1, PoolAlways, PTL

(* A dial whose context lives gives up only after the failure of every       *)
(* eligible endpoint was recorded, whatever the length of the last wave.     *)
THEOREM PoolGivesUpLast == Spec => []GivesUpLast
<1>1. PoolInv => GivesUpLast
  BY DEF PoolInv, CallInv, GivesUpLast
<1> QED
  BY <1>1, PoolAlways, PTL
-----------------------------------------------------------------------------
(* The cooldowns *)

Health == [failures : 0..MaxFailures, retryAt : Nat, lease : Nat]

(* An endpoint is on record exactly if it has a time of retry, which is what  *)
(* the order of the candidates goes by.                                      *)
HealthInv ==
    /\ now \in 0..MaxNow
    /\ health \in [Addresses -> Health]
    /\ \A a \in Addresses : health[a] = Untracked \/ health[a].retryAt > 0
    /\ CooldownBounded

(* The backoff is positive and grows with the failures. *)
LEMMA Backoffs ==
    /\ \A k \in 0..5 : 2 ^ k \in Nat \ {0}
    /\ \A k, m \in 0..5 : k <= m => 2 ^ k <= 2 ^ m
<1> DEFINE P(k) == 2 ^ k
<1>1. P(0) = 1 /\ P(1) = 2 /\ P(2) = 4 /\ P(3) = 8 /\ P(4) = 16 /\ P(5) = 32
  OBVIOUS
<1>2. \A k \in 0..5 : k = 0 \/ k = 1 \/ k = 2 \/ k = 3 \/ k = 4 \/ k = 5
  OBVIOUS
<1> HIDE DEF P
<1>3. \A k \in 0..5 : P(k) \in Nat \ {0}
  BY <1>1, <1>2
<1>4. \A k, m \in 0..5 : k <= m => P(k) <= P(m)
  BY <1>1, <1>2
<1> QED
  BY <1>3, <1>4 DEF P

(* The longest backoff, as a number the provers need not compute. *)
LEMMA LongestBackoff ==
    \E most \in Nat :
        /\ most = 2 ^ (MaxFailures - 1)
        /\ \A n \in 1..MaxFailures : 2 ^ (n - 1) \in Nat \ {0} /\ 2 ^ (n - 1) <= most
<1>1. MaxFailures \in 1..6
  BY PoolAssumption
<1>2. MaxFailures - 1 \in 0..5 /\ \A n \in 1..MaxFailures : n - 1 \in 0..5 /\ n - 1 <= MaxFailures - 1
  BY <1>1
<1>3. 2 ^ (MaxFailures - 1) \in Nat
  BY <1>2, Backoffs
<1>4. \A n \in 1..MaxFailures : 2 ^ (n - 1) \in Nat \ {0} /\ 2 ^ (n - 1) <= 2 ^ (MaxFailures - 1)
  BY <1>2, Backoffs
<1> QED
  BY <1>3, <1>4

(* No endpoint has failed yet. *)
LEMMA InitHealthInv == Init => HealthInv
<1> SUFFICES ASSUME Init PROVE HealthInv
  OBVIOUS
<1>1. PICK most \in Nat : most = 2 ^ (MaxFailures - 1)
  BY LongestBackoff
<1>2. /\ now = 0 /\ now \in 0..MaxNow /\ Lease \in Nat /\ MaxFailures \in Nat
      /\ health = [a \in Addresses |-> Untracked]
  BY PoolAssumption DEF Init
<1>3. Untracked \in Health
  BY <1>2 DEF Untracked, Health
<1>4. CooldownBounded
  BY <1>1, <1>2 DEF CooldownBounded, Untracked
<1> QED
  BY <1>2, <1>3, <1>4 DEF HealthInv

(* A failure lengthens the cooldown of its endpoint, and ends its lease. *)
LEMMA FailedHealth ==
    ASSUME HealthInv, NEW a \in Addresses, health' = failed(a), now' = now
    PROVE  HealthInv'
<1> DEFINE n == Capped(health[a].failures)
           wait == 2 ^ (n - 1)
<1>1. PICK most \in Nat :
         /\ most = 2 ^ (MaxFailures - 1)
         /\ \A k \in 1..MaxFailures : 2 ^ (k - 1) \in Nat \ {0} /\ 2 ^ (k - 1) <= most
  BY LongestBackoff
<1>2. n \in 1..MaxFailures
  BY PoolAssumption DEF HealthInv, Health, Capped
<1>3. wait \in Nat \ {0} /\ wait <= most
  BY <1>1, <1>2
<1>4. health' = [health EXCEPT ![a] = [failures |-> n, retryAt |-> now + wait, lease |-> 0]]
  BY DEF failed
<1> HIDE DEF n, wait
<1>5. now \in Nat /\ Lease \in Nat
  BY PoolAssumption DEF HealthInv
<1>6. [failures |-> n, retryAt |-> now + wait, lease |-> 0] \in Health
  BY <1>2, <1>3, <1>5 DEF Health
<1>7. \A b \in Addresses : health'[b] = IF b = a THEN [failures |-> n, retryAt |-> now + wait, lease |-> 0]
                                                 ELSE health[b]
  BY <1>4 DEF HealthInv
<1>8. \A b \in Addresses : health'[b].retryAt <= now + most /\ health'[b].lease <= now + Lease
  BY <1>1, <1>3, <1>5, <1>7 DEF HealthInv, CooldownBounded
<1>9. \A b \in Addresses : health'[b] = Untracked \/ health'[b].retryAt > 0
  BY <1>3, <1>5, <1>7 DEF HealthInv
<1>10. health' \in [Addresses -> Health]
  BY <1>4, <1>6 DEF HealthInv
<1> QED
  BY <1>1, <1>8, <1>9, <1>10 DEF HealthInv, CooldownBounded

(* An endpoint that answered starts over. *)
LEMMA SucceededHealth ==
    ASSUME HealthInv, NEW a \in Addresses, health' = succeeded(a), now' = now
    PROVE  HealthInv'
<1>1. PICK most \in Nat : most = 2 ^ (MaxFailures - 1)
  BY LongestBackoff
<1>2. now \in Nat /\ Lease \in Nat /\ MaxFailures \in Nat
  BY PoolAssumption DEF HealthInv
<1>3. \A b \in Addresses : health'[b] = IF b = a THEN Untracked ELSE health[b]
  BY DEF HealthInv, succeeded
<1>4. Untracked \in Health /\ Untracked.retryAt = 0 /\ Untracked.lease = 0
  BY <1>2 DEF Untracked, Health
<1>5. \A b \in Addresses : health'[b].retryAt <= now + most /\ health'[b].lease <= now + Lease
  BY <1>1, <1>2, <1>3, <1>4 DEF HealthInv, CooldownBounded
<1>6. health' \in [Addresses -> Health]
  BY <1>4 DEF HealthInv, succeeded
<1> QED
  BY <1>1, <1>3, <1>5, <1>6 DEF HealthInv, CooldownBounded

(* Whoever probes an endpoint leases it for a while. *)
LEMMA LeasedHealth ==
    ASSUME HealthInv, health' = Leased, now' = now
    PROVE  HealthInv'
<1>1. PICK most \in Nat : most = 2 ^ (MaxFailures - 1)
  BY LongestBackoff
<1>2. now \in Nat /\ Lease \in Nat /\ now + Lease \in Nat
  BY PoolAssumption DEF HealthInv
<1>3. ASSUME NEW b \in Addresses
      PROVE  /\ health'[b] \in Health
             /\ health'[b] = Untracked \/ health'[b].retryAt > 0
             /\ health'[b].retryAt <= now + most /\ health'[b].lease <= now + Lease
  <2>1. /\ health[b] \in Health /\ health[b].retryAt <= now + most /\ health[b].lease <= now + Lease
        /\ health[b] = Untracked \/ health[b].retryAt > 0
    BY <1>1 DEF HealthInv, CooldownBounded
  <2>2. CASE health'[b] = health[b]
    BY <2>1, <2>2
  <2>3. CASE health'[b] # health[b]
    <3>1. health'[b] = [health[b] EXCEPT !.lease = now + Lease] /\ health[b] # Untracked
      BY <2>3 DEF Leased
    <3>2. /\ health'[b] \in Health /\ health'[b].lease = now + Lease
          /\ health'[b].retryAt = health[b].retryAt
      BY <1>2, <2>1, <3>1 DEF Health
    <3> QED
      BY <1>2, <2>1, <3>1, <3>2
  <2> QED
    BY <2>2, <2>3
<1>4. health' \in [Addresses -> Health]
  BY <1>3 DEF Leased
<1> QED
  BY <1>1, <1>3, <1>4 DEF HealthInv, CooldownBounded

(* Every step keeps failures and cooldowns within their bounds. *)
LEMMA NextHealthInv == HealthInv /\ [Next]_vars => HealthInv'
<1> SUFFICES ASSUME HealthInv, [Next]_vars PROVE HealthInv'
  OBVIOUS
<1>0. ASSUME health' = health, now' = now PROVE HealthInv'
  BY <1>0 DEF HealthInv, CooldownBounded
<1>1. ASSUME NEW d \in Dials, NEW first \in DOMAIN Route, begin(d, first) PROVE HealthInv'
  BY <1>1, LeasedHealth DEF begin
<1>2. ASSUME NEW d \in Dials, NEW a \in Addresses, receive(d, a) PROVE HealthInv'
  <2>1. health' = succeeded(a) \/ health' = failed(a) \/ health' = health
    BY <1>2 DEF receive, Sent
  <2> QED
    BY <1>0, <1>2, <2>1, SucceededHealth, FailedHealth DEF receive
<1>3. CASE tick
  <2>1. PICK most \in Nat : most = 2 ^ (MaxFailures - 1)
    BY LongestBackoff
  <2>2. now \in Nat /\ now' \in 0..MaxNow /\ now' = now + 1 /\ health' = health /\ Lease \in Nat
    BY <1>3, PoolAssumption DEF HealthInv, tick
  <2>3. \A a \in Addresses : health[a].retryAt \in Nat /\ health[a].lease \in Nat
    BY DEF HealthInv, Health
  <2>4. \A a \in Addresses : health[a].retryAt <= now + 1 + most /\ health[a].lease <= now + 1 + Lease
    BY <2>1, <2>2, <2>3 DEF HealthInv, CooldownBounded
  <2> QED
    BY <2>1, <2>2, <2>4 DEF HealthInv, CooldownBounded
<1>4. CASE UNCHANGED <<health, now>>
  BY <1>0, <1>4
<1> QED
  BY <1>1, <1>2, <1>3, <1>4
  DEF Next, vars, coolingDown, parentEnds, Racing, staggerFires, staggerCanceled, dialConnects,
      dialFails, abandon, closeLate, finish

(* The invariant of the health map. *)
LEMMA HealthAlways == Spec => []HealthInv
BY InitHealthInv, NextHealthInv, PTL DEF Spec

(* However many dials blame one endpoint at the same time, its cooldown never *)
(* exceeds the longest backoff from now, and its probe lease the lease time.  *)
THEOREM PoolCooldownBounded == Spec => []CooldownBounded
BY HealthAlways, PTL DEF HealthInv

(* Only ordered starts a race. *)
LEMMA RaceBegins ==
    ASSUME PoolInv, [Next]_vars, NEW d \in Dials, dial[d].step = "idle", dial'[d].step = "racing"
    PROVE  \E first \in DOMAIN Route : begin(d, first)
<1>1. \A e \in Dials : dial[e] \in Call
  BY DEF PoolInv
<1>2. ASSUME NEW e \in Dials, NEW c, dial' = [dial EXCEPT ![e] = c], e # d \/ c.step # "racing" PROVE FALSE
  BY <1>2 DEF PoolInv
<1>3. ASSUME NEW e \in Dials, NEW a \in Addresses, Racing(e, a), e = d PROVE dial'[d].step = dial[d].step
  <2>1. dial[d] \in Call /\ dial \in [Dials -> Call]
    BY DEF PoolInv
  <2>2. CASE dialConnects(d, a)
    <3>1. PICK racer, open : dial' = [dial EXCEPT ![d] = [dial[d] EXCEPT !.racer[a] = racer, !.open = open]]
      BY <2>2 DEF dialConnects
    <3> QED
      BY <2>1, <3>1 DEF Call
  <2>3. CASE staggerFires(d, a) \/ staggerCanceled(d, a) \/ dialFails(d, a)
    <3>1. PICK racer : dial' = [dial EXCEPT ![d] = [dial[d] EXCEPT !.racer[a] = racer]]
      BY <2>3 DEF staggerFires, staggerCanceled, dialFails
    <3> QED
      BY <2>1, <3>1 DEF Call
  <2> QED
    BY <1>3, <2>2, <2>3 DEF Racing
<1>4. ASSUME NEW e \in Dials, NEW a \in Addresses, Racing(e, a) PROVE FALSE
  <2>1. \E c : dial' = [dial EXCEPT ![e] = c]
    BY <1>4 DEF Racing, staggerFires, staggerCanceled, dialConnects, dialFails
  <2> QED
    BY <1>2, <1>3, <1>4, <2>1
<1>5. ASSUME NEW e \in Dials, NEW first \in DOMAIN Route, begin(e, first) PROVE e = d
  <2>1. \E c : dial' = [dial EXCEPT ![e] = c]
    BY <1>5 DEF begin
  <2> QED
    BY <1>2, <2>1
<1>6. ASSUME NEW e \in Dials, NEW why, parentEnds(e, why) PROVE FALSE
  BY <1>1, <1>2, <1>6 DEF parentEnds
<1>7. ASSUME NEW e \in Dials, NEW a, receive(e, a) PROVE FALSE
  BY <1>1, <1>2, <1>7 DEF receive
<1>8. ASSUME NEW e \in Dials, abandon(e) PROVE FALSE
  BY <1>1, <1>2, <1>8 DEF abandon
<1>9. ASSUME NEW e \in Dials, NEW a, closeLate(e, a) PROVE FALSE
  <2>1. dial' = [dial EXCEPT ![e] = [dial[e] EXCEPT !.racer[a] = "received", !.open = @ \ {a}, !.late = @ - 1]]
    BY <1>9 DEF closeLate
  <2>2. e # d
    BY <1>9 DEF closeLate
  <2> QED
    BY <1>2, <2>1, <2>2
<1>10. ASSUME NEW e \in Dials, finish(e) PROVE FALSE
  BY <1>1, <1>2, <1>10 DEF finish, Idle
<1>11. ~UNCHANGED dial
  OBVIOUS
<1> QED
  BY <1>4, <1>5, <1>6, <1>7, <1>8, <1>9, <1>10, <1>11 DEF Next, vars, tick, coolingDown

(* An endpoint on probation is raced after those in good health, wherever the *)
(* cursor of the pool stands and whatever other dials did to the record.      *)
THEOREM PoolHealthyFirst == Spec => HealthyFirst
<1>1. ASSUME PoolInv, HealthInv, [Next]_vars, NEW d \in Dials,
             dial[d].step = "idle", dial'[d].step = "racing"
      PROVE  \A i, j \in DOMAIN dial'[d].order :
                i < j /\ health[dial'[d].order[j]] = Untracked =>
                    health[dial'[d].order[i]] = Untracked
  <2>1. PICK first \in DOMAIN Route : begin(d, first)
    BY <1>1, RaceBegins
  <2>2. PICK order \in ordered(first) :
           dial' = [dial EXCEPT ![d] = Launch([Idle EXCEPT !.step = "racing", !.order = order], 0)]
    BY <2>1 DEF begin
  <2>3. dial'[d].order = order
    BY <1>1, <2>2 DEF PoolInv, Launch, Idle
  <2>4. order \in [1..Cardinality(Candidates) -> Candidates]
    BY DEF ordered, Bijection, Injection
  <2>5. \A i, j \in DOMAIN order : i < j => Before(order[i], order[j], first)
    BY DEF ordered
  <2>6. ASSUME NEW i \in DOMAIN order, NEW j \in DOMAIN order, i < j, health[order[j]] = Untracked
        PROVE  health[order[i]] = Untracked
    <3> DEFINE a == order[i]
               b == order[j]
    <3>1. a \in Addresses /\ b \in Addresses
      BY <2>4 DEF Candidates
    <3>2. Before(a, b, first)
      BY <2>5, <2>6
    <3> HIDE DEF a, b
    <3>3. health[a].retryAt <= health[b].retryAt
      BY <1>1, <3>1, <3>2 DEF Before, HealthInv, Health
    <3>4. health[b].retryAt = 0 /\ health[a].retryAt \in Nat
      BY <1>1, <2>6, <3>1 DEF b, Untracked, HealthInv, Health
    <3>5. health[a] = Untracked
      BY <1>1, <3>1, <3>3, <3>4 DEF HealthInv
    <3> QED
      BY <3>5 DEF a
  <2> QED
    BY <2>3, <2>6
<1>2. PoolInv /\ HealthInv /\ [Next]_vars =>
         [\A d \in Dials : dial[d].step = "idle" /\ dial'[d].step = "racing" =>
             \A i, j \in DOMAIN dial'[d].order :
                 i < j /\ health[dial'[d].order[j]] = Untracked =>
                     health[dial'[d].order[i]] = Untracked]_vars
  BY <1>1
<1> QED
  BY <1>2, PoolAlways, HealthAlways, PTL DEF Spec, HealthyFirst
-----------------------------------------------------------------------------
(* The types, and with them the size of a wave *)

(* A wave has at most RaceWidth goroutines. *)
LEMMA WaveBounded ==
    ASSUME NEW c \in Call PROVE LateResults(c) <= RaceWidth
<1> DEFINE places == {j \in DOMAIN c.order : j > c.start /\ j <= c.start + RaceWidth}
           all == (c.start + 1)..(c.start + RaceWidth)
           wave == Wave(c.order, c.start)
           f == [i \in places |-> c.order[i]]
<1>1. c.start \in Nat /\ RaceWidth \in Nat /\ RaceWidth > 0
  BY PoolAssumption DEF Call
<1>2. places \subseteq all
  BY <1>1 DEF Call
<1>3. IsFiniteSet(all) /\ Cardinality(all) = RaceWidth
  BY <1>1, FS_Interval
<1>4. f \in [places -> wave] /\ \A a \in wave : \E i \in places : f[i] = a
  BY DEF Wave
<1>5. f \in Surjection(places, wave)
  BY <1>4 DEF Surjection
<1>6. IsFiniteSet(places) /\ Cardinality(places) <= RaceWidth
  BY <1>2, <1>3, FS_Subset
<1>7. IsFiniteSet(wave) /\ Cardinality(wave) <= Cardinality(places)
  BY <1>5, <1>6, FS_Surjection
<1>8. Unreceived(c) \subseteq wave
  BY DEF Unreceived
<1>9. IsFiniteSet(Unreceived(c)) /\ Cardinality(Unreceived(c)) <= Cardinality(wave)
  BY <1>7, <1>8, FS_Subset
<1>10. Cardinality(Unreceived(c)) \in Nat /\ Cardinality(wave) \in Nat /\ Cardinality(places) \in Nat
  BY <1>6, <1>7, <1>9, FS_CardinalityType
<1> QED
  BY <1>1, <1>6, <1>7, <1>9, <1>10 DEF LateResults

(* No drainer waits for more results than a wave has goroutines. *)
LateBounded == \A d \in Dials : dial[d].late <= RaceWidth

(* Every step keeps that bound. *)
LEMMA NextLateBounded == PoolInv /\ LateBounded /\ [Next]_vars => LateBounded'
<1> SUFFICES ASSUME PoolInv, LateBounded, [Next]_vars PROVE LateBounded'
  OBVIOUS
<1>w. RaceWidth \in Nat
  BY PoolAssumption
<1>c. dial \in [Dials -> Call] /\ \A d \in Dials : dial[d] \in Call /\ CallInv(dial[d])
  BY DEF PoolInv
<1>0. ASSUME NEW d \in Dials, NEW c, dial' = [dial EXCEPT ![d] = c], c.late <= RaceWidth PROVE LateBounded'
  BY <1>0, <1>c DEF LateBounded
<1>r. ASSUME NEW c \in Call, NEW winner PROVE Return(c, winner).late <= RaceWidth
  BY WaveBounded DEF Return, Call
<1>1. ASSUME NEW d \in Dials, NEW first \in DOMAIN Route, begin(d, first) PROVE LateBounded'
  <2>1. PICK order : dial' = [dial EXCEPT ![d] = Launch([Idle EXCEPT !.step = "racing", !.order = order], 0)]
    BY <1>1 DEF begin
  <2> DEFINE c == Launch([Idle EXCEPT !.step = "racing", !.order = order], 0)
  <2>2. c.late = 0
    BY DEF Launch, Idle
  <2>3. c.late <= RaceWidth /\ dial' = [dial EXCEPT ![d] = c]
    BY <1>w, <2>1, <2>2
  <2> HIDE DEF c
  <2> QED
    BY <1>0, <2>3
<1>2. ASSUME NEW d \in Dials, NEW why, parentEnds(d, why) PROVE LateBounded'
  <2>1. dial' = [dial EXCEPT ![d] = [dial[d] EXCEPT !.ctx = why]]
    BY <1>2 DEF parentEnds
  <2>2. [dial[d] EXCEPT !.ctx = why].late = dial[d].late
    BY <1>c DEF Call
  <2> QED
    BY <1>0, <2>1, <2>2 DEF LateBounded
<1>3. ASSUME NEW d \in Dials, NEW a \in Addresses, Racing(d, a) PROVE LateBounded'
  <2>1. CASE dialConnects(d, a)
    <3>1. PICK racer, open : dial' = [dial EXCEPT ![d] = [dial[d] EXCEPT !.racer[a] = racer, !.open = open]]
      BY <2>1 DEF dialConnects
    <3>2. [dial[d] EXCEPT !.racer[a] = racer, !.open = open].late = dial[d].late
      BY <1>c DEF Call
    <3> QED
      BY <1>0, <3>1, <3>2 DEF LateBounded
  <2>2. CASE staggerFires(d, a) \/ staggerCanceled(d, a) \/ dialFails(d, a)
    <3>1. PICK racer : dial' = [dial EXCEPT ![d] = [dial[d] EXCEPT !.racer[a] = racer]]
      BY <2>2 DEF staggerFires, staggerCanceled, dialFails
    <3>2. [dial[d] EXCEPT !.racer[a] = racer].late = dial[d].late
      BY <1>c DEF Call
    <3> QED
      BY <1>0, <3>1, <3>2 DEF LateBounded
  <2> QED
    BY <1>3, <2>1, <2>2 DEF Racing
<1>4. ASSUME NEW d \in Dials, NEW a \in Addresses, receive(d, a) PROVE LateBounded'
  <2> DEFINE t == Took(dial[d], a)
             w == [t EXCEPT !.ctx = IF @ = "live" THEN "canceled" ELSE @]
  <2>1. t \in Call /\ t.late <= RaceWidth
    BY <1>4, <1>c, TookFacts DEF receive, LateBounded
  <2> HIDE DEF t
  <2>2. w \in Call
    BY <2>1 DEF Call
  <2>3. Launch(t, NextWave(t.start)).late = t.late
    BY <2>1 DEF Launch, Call
  <2>4. AfterFailure(t).late <= RaceWidth
    BY <1>r, <2>1, <2>3 DEF AfterFailure
  <2>5. dial' = [dial EXCEPT ![d] = IF dial[d].racer[a] = "conn" THEN Return(w, a) ELSE AfterFailure(t)]
    BY <1>4 DEF receive, Took, t
  <2>6. Return(w, a).late <= RaceWidth
    BY <1>r, <2>2
  <2> HIDE DEF w
  <2> QED
    BY <1>0, <2>4, <2>5, <2>6
<1>5. ASSUME NEW d \in Dials, abandon(d) PROVE LateBounded'
  BY <1>5, <1>0, <1>c, <1>r DEF abandon
<1>6. ASSUME NEW d \in Dials, NEW a \in Addresses, closeLate(d, a) PROVE LateBounded'
  <2> DEFINE n == [dial[d] EXCEPT !.racer[a] = "received", !.open = @ \ {a}, !.late = @ - 1]
  <2>1. dial' = [dial EXCEPT ![d] = n]
    BY <1>6 DEF closeLate
  <2>2. n.late = dial[d].late - 1 /\ dial[d].late \in Nat
    BY <1>c DEF Call
  <2>3. n.late <= RaceWidth
    BY <1>w, <2>2 DEF LateBounded
  <2> HIDE DEF n
  <2> QED
    BY <1>0, <2>1, <2>3
<1>7. ASSUME NEW d \in Dials, finish(d) PROVE LateBounded'
  <2>1. dial' = [dial EXCEPT ![d] = Idle]
    BY <1>7 DEF finish
  <2>2. Idle.late <= RaceWidth
    BY <1>w DEF Idle
  <2> QED
    BY <1>0, <2>1, <2>2
<1>8. CASE UNCHANGED dial
  BY <1>8 DEF LateBounded
<1>9. UNCHANGED vars => UNCHANGED dial
  BY DEF vars
<1>10. tick => UNCHANGED dial
  BY DEF tick
<1>11. ASSUME NEW d \in Dials, coolingDown(d) PROVE LateBounded'
  BY <1>8, <1>9, <1>11 DEF coolingDown
<1> QED
  BY <1>1, <1>2, <1>3, <1>4, <1>5, <1>6, <1>7, <1>8, <1>9, <1>10, <1>11 DEF Next

(* Every variable keeps its type; no drainer ever waits for more results      *)
(* than the goroutines of one wave send.                                      *)
THEOREM PoolTypeOK == Spec => []TypeOK
<1>1. Init => LateBounded
  BY PoolAssumption DEF Init, LateBounded, Idle
<1>2. PoolInv /\ HealthInv /\ LateBounded => TypeOK
  BY PoolAssumption DEF PoolInv, Call, HealthInv, Health, LateBounded, TypeOK
<1> QED
  BY <1>1, <1>2, PoolAlways, HealthAlways, NextLateBounded, PTL DEF Spec
=============================================================================
