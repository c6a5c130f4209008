----------------------- MODULE TopologyManagerProofs ------------------------
(***************************************************************************)
(* Theorems about TopologyManager: the types, the mutexes, and the two     *)
(* facts the last-known-good file is for.                                  *)
(***************************************************************************)
EXTENDS TopologyManager, TLAPS

(* A caller that is about to apply a bundle has one. *)
HasBundle == \A p \in Callers : step[p] = "apply" => got[p] \in Bundles

DownIdle == ~running => step = [p \in Callers |-> "idle"]

TypeInv == TypeOK /\ HasBundle /\ DownIdle

(* The first start has the types. *)
LEMMA InitTypes == Init => TypeInv
<1> SUFFICES ASSUME Init
             PROVE  TypeInv
  OBVIOUS
<1>1. now \in Times
  BY TopologyAssumption DEF Init, Times
<1>2. step \in [Callers -> Steps] /\ HasBundle
  BY DEF Init, HasBundle, Steps
<1> QED
  BY <1>1, <1>2 DEF Init, TypeInv, TypeOK, DownIdle

(* The steps of a refresh keep the types. *)
LEMMA RefreshTypes ==
  ASSUME NEW p \in Callers, TypeInv, Refresh(p)
  PROVE  TypeInv'
<1> USE TopologyAssumption DEF TypeInv, TypeOK, HasBundle, DownIdle, Steps, files, call
<1>1. CASE lockRefresh(p)
  BY <1>1 DEF lockRefresh, Goto, AfterRefresh
<1>2. CASE \E b \in Bundles : fetch(p, b)
  BY <1>2 DEF fetch, Goto
<1>3. CASE fetchFails(p)
  BY <1>3 DEF fetchFails, AfterRefresh, UnlockRefresh, Goto
<1>4. CASE \E ok \in BOOLEAN : apply(p, ok)
  <2> PICK ok \in BOOLEAN : apply(p, ok)
    BY <1>4
  <2>1. /\ disk' \in Bundles \cup {NoBundle}
        /\ platter' \in Bundles \cup {NoBundle}
        /\ current' \in Bundles \cup {NoBundle}
    BY DEF apply, persistTopologySnapshot, Published
  <2> QED
    BY <2>1 DEF apply, AfterRefresh, UnlockRefresh, Goto
<1> QED
  BY <1>1, <1>2, <1>3, <1>4 DEF Refresh

(* Every step keeps the types. *)
LEMMA StepTypes == TypeInv /\ [Next]_vars => TypeInv'
<1> SUFFICES ASSUME TypeInv, [Next]_vars
             PROVE  TypeInv'
  OBVIOUS
<1> USE TopologyAssumption DEF TypeInv, TypeOK, HasBundle, DownIdle, Steps, files, call, Goto
<1>1. CASE start
  BY <1>1 DEF start, Callers
<1>2. CASE crash(disk) \/ crash(platter)
  BY <1>2 DEF crash, Volatile, Callers
<1>3. CASE tick
  BY <1>3 DEF tick, Times
<1>4. CASE wake
  BY <1>4 DEF wake, Callers
<1>5. CASE \E p \in Callers : Refresh(p)
  BY <1>5, RefreshTypes
<1>6. CASE \E r \in Requests, dc \in DCs : ensureRoute(r, dc)
  BY <1>6 DEF ensureRoute, Callers
<1>7. CASE \E r \in Requests : contextEnds(r)
  BY <1>7 DEF contextEnds
<1>8. CASE \E r \in Requests : lockOnDemand(r)
  BY <1>8 DEF lockOnDemand, CooldownStart, Callers
<1>9. CASE \E r \in Requests : answer(r)
  BY <1>9 DEF answer, Callers
<1>10. CASE UNCHANGED vars
  BY <1>10 DEF vars
<1> QED
  BY <1>1, <1>2, <1>3, <1>4, <1>5, <1>6, <1>7, <1>8, <1>9, <1>10 DEF Next

(* The types always hold. *)
LEMMA SpecTypes == Spec => []TypeInv
<1>1. Init => TypeInv
  BY InitTypes
<1>2. TypeInv /\ [Next]_vars => TypeInv'
  BY StepTypes
<1> QED
  BY <1>1, <1>2, PTL DEF Spec

(* Type correctness of the topology manager. *)
THEOREM TopologyTypeOK == Spec => []TypeOK
<1>1. TypeInv => TypeOK
  BY DEF TypeInv
<1> QED
  BY <1>1, SpecTypes, PTL

-----------------------------------------------------------------------------
(* The two mutexes are held by exactly the callers that are inside, for any  *)
(* number of requests: the critical sections of refresh and ensureRoute      *)
(* exclude each other and every path gives the locks back.                   *)
THEOREM TopologyLocks == Spec => []LocksMatchSteps
<1>1. Init => LocksMatchSteps
  BY TopologyAssumption DEF Init, LocksMatchSteps, Callers
<1>2. TypeInv /\ LocksMatchSteps /\ [Next]_vars => LocksMatchSteps'
  <2> SUFFICES ASSUME TypeInv, LocksMatchSteps, [Next]_vars
               PROVE  LocksMatchSteps'
    OBVIOUS
  <2> USE TopologyAssumption DEF TypeInv, TypeOK, LocksMatchSteps, Callers, Goto, call
  <2>1. CASE start
    BY <2>1 DEF start, DownIdle
  <2>2. CASE crash(disk) \/ crash(platter)
    BY <2>2 DEF crash, Volatile
  <2>3. CASE tick
    BY <2>3 DEF tick
  <2>4. CASE wake
    BY <2>4 DEF wake
  <2>5. CASE \E p \in Callers : Refresh(p)
    <3> PICK p \in Callers : Refresh(p)
      BY <2>5
    <3>1. CASE lockRefresh(p)
      BY <3>1 DEF lockRefresh, AfterRefresh, Alive
    <3>2. CASE \E b \in Bundles : fetch(p, b)
      BY <3>2 DEF fetch
    <3>3. CASE fetchFails(p)
      BY <3>3 DEF fetchFails, AfterRefresh, UnlockRefresh
    <3>4. CASE \E ok \in BOOLEAN : apply(p, ok)
      BY <3>4 DEF apply, AfterRefresh, UnlockRefresh
    <3> QED
      BY <3>1, <3>2, <3>3, <3>4 DEF Refresh
  <2>6. CASE \E r \in Requests, dc \in DCs : ensureRoute(r, dc)
    BY <2>6 DEF ensureRoute
  <2>7. CASE \E r \in Requests : contextEnds(r)
    BY <2>7 DEF contextEnds
  <2>8. CASE \E r \in Requests : lockOnDemand(r)
    BY <2>8 DEF lockOnDemand
  <2>9. CASE \E r \in Requests : answer(r)
    BY <2>9 DEF answer
  <2>10. CASE UNCHANGED vars
    BY <2>10 DEF vars
  <2> QED
    BY <2>1, <2>2, <2>3, <2>4, <2>5, <2>6, <2>7, <2>8, <2>9, <2>10 DEF Next
<1> QED
  BY <1>1, <1>2, SpecTypes, PTL DEF Spec

-----------------------------------------------------------------------------
(* Generations of the bundles there are, and of none. *)
LEMMA GenType ==
  ASSUME NEW b \in Bundles \cup {NoBundle}
  PROVE  Gen(b) \in Nat /\ (b \in Bundles => Gen(b) = b.gen /\ b.gen > 0)
  BY TopologyAssumption DEF Gen, Bundle

(* A step that touches none of the four variables keeps what is said of them. *)
Quiet == UNCHANGED <<running, disk, platter, current>>

(* Only a start, a crash and apply touch the file or the bundle in force. *)
LEMMA Writers ==
  ASSUME TypeInv, [Next]_vars
  PROVE  \/ Quiet
         \/ start
         \/ crash(disk) \/ crash(platter)
         \/ \E p \in Callers, ok \in BOOLEAN : apply(p, ok)
  BY DEF Next, Refresh, Quiet, vars, files, tick, wake, ensureRoute, contextEnds, lockOnDemand,
         answer, lockRefresh, fetch, fetchFails

(* A refresh applies a bundle only if it is newer than the one in force. *)
LEMMA NotStale ==
  ASSUME TypeInv, NEW p \in Callers, step[p] = "apply", ~Stale(got[p])
  PROVE  Gen(got[p]) \in Nat /\ Gen(current) \in Nat /\ Gen(got[p]) > Gen(current)
<1>1. got[p] \in Bundles /\ current \in Bundles \cup {NoBundle}
  BY DEF TypeInv, HasBundle, TypeOK
<1>2. Gen(got[p]) \in Nat /\ Gen(got[p]) = got[p].gen /\ got[p].gen > 0
  BY <1>1, GenType
<1>3. Gen(current) \in Nat /\ (current \in Bundles => Gen(current) = current.gen)
  BY <1>1, GenType
<1>4. CASE current = NoBundle
  BY <1>2, <1>3, <1>4 DEF Gen
<1>5. CASE current # NoBundle
  BY <1>1, <1>2, <1>3, <1>5 DEF Stale
<1> QED
  BY <1>2, <1>3, <1>4, <1>5

(* What the relay routes by is in the file, whichever of the writes and of   *)
(* the fsyncs of the directory fail, and whatever crashes: everywhere but on *)
(* Windows, where the file is removed before the new one takes its place.    *)
THEOREM TopologyOnDisk ==
  ASSUME ~Windows
  PROVE  Spec => []PublishedOnDisk
<1>1. Init => PublishedOnDisk
  BY DEF Init, PublishedOnDisk
<1>2. TypeInv /\ PublishedOnDisk /\ [Next]_vars => PublishedOnDisk'
  <2> SUFFICES ASSUME TypeInv, PublishedOnDisk, [Next]_vars
               PROVE  PublishedOnDisk'
    OBVIOUS
  <2>1. CASE Quiet
    BY <2>1 DEF Quiet, PublishedOnDisk, Gen
  <2>2. CASE start
    <3>1. disk \in Bundles \cup {NoBundle}
      BY DEF TypeInv, TypeOK
    <3>2. Gen(disk) \in Nat
      BY <3>1, GenType
    <3>3. disk' = disk /\ current' = disk
      BY <2>2 DEF start, files
    <3>4. Gen(current)' = Gen(disk) /\ Gen(disk)' = Gen(disk)
      BY <3>3 DEF Gen
    <3> QED
      BY <3>2, <3>4 DEF PublishedOnDisk
  <2>3. CASE crash(disk) \/ crash(platter)
    BY <2>3 DEF crash, PublishedOnDisk
  <2>4. CASE \E p \in Callers, ok \in BOOLEAN : apply(p, ok)
    <3> PICK p \in Callers, ok \in BOOLEAN : apply(p, ok)
      BY <2>4
    <3>1. running' = running
      BY DEF apply
    <3>2. CASE Stale(got[p])
      BY <3>1, <3>2 DEF apply, files, PublishedOnDisk, Gen
    <3>3. CASE ~Stale(got[p])
      <4>1. step[p] = "apply"
        BY DEF apply
      <4>2. Gen(got[p]) \in Nat /\ Gen(current) \in Nat /\ Gen(got[p]) > Gen(current)
        BY <3>3, <4>1, NotStale
      <4>3. CASE disk' = got[p]
        <5>1. Gen(disk)' = Gen(got[p])
          BY <4>3 DEF Gen
        <5>2. current' \in {current, got[p]}
          BY <3>3 DEF apply, Published
        <5>3. Gen(current)' \in {Gen(current), Gen(got[p])}
          BY <5>2 DEF Gen
        <5> QED
          BY <4>2, <5>1, <5>3 DEF PublishedOnDisk
      <4>4. CASE disk' = disk /\ current' = current
        BY <3>1, <4>4 DEF PublishedOnDisk, Gen
      <4> QED
        BY <3>3, <4>3, <4>4 DEF apply, persistTopologySnapshot, Published, files
    <3> QED
      BY <3>2, <3>3
  <2> QED
    BY <2>1, <2>2, <2>3, <2>4, Writers
<1> QED
  BY <1>1, <1>2, SpecTypes, PTL DEF Spec

-----------------------------------------------------------------------------
(* What is sure is in force, and on the platter. *)
LEMMA SureBounds ==
  ASSUME TypeInv
  PROVE  /\ InForce \in Nat /\ Gen(platter) \in Nat /\ Gen(disk) \in Nat /\ Gen(current) \in Nat
         /\ Sure \in 0 .. InForce /\ Sure <= Gen(platter)
         /\ Sure = Gen(platter) \/ Sure = InForce
<1>1. Gen(platter) \in Nat /\ Gen(disk) \in Nat /\ Gen(current) \in Nat
  BY GenType DEF TypeInv, TypeOK
<1>2. InForce \in {Gen(current), Gen(disk)}
  BY DEF InForce
<1> QED
  BY <1>1, <1>2 DEF Sure

(* A start puts in force what the file holds: the generation it would have   *)
(* been all along.                                                           *)
LEMMA StartMaps ==
  ASSUME TypeInv, start
  PROVE  History!Start
<1>1. ~running /\ running' = TRUE /\ current' = disk /\ disk' = disk /\ platter' = platter
  BY DEF start, files
<1>2. InForce' = InForce
  BY <1>1 DEF InForce, Gen
<1>3. Sure' = Sure
  BY <1>1, <1>2 DEF Sure, Gen
<1> QED
  BY <1>1, <1>2, <1>3 DEF History!Start

(* A crash leaves the file, or what the platter holds of it: never less than *)
(* what was sure.                                                            *)
LEMMA CrashMaps ==
  ASSUME TypeInv, TypeInv', PublishedOnDisk, crash(disk) \/ crash(platter)
  PROVE  History!Stop
<1>1. running /\ running' = FALSE /\ disk' \in {disk, platter} /\ platter' = platter
  BY DEF crash
<1>2. InForce' \in {Gen(disk), Gen(platter)} /\ Gen(platter)' = Gen(platter)
  BY <1>1 DEF InForce, Gen
<1>3. /\ InForce = Gen(current) /\ Gen(current) <= Gen(disk)
      /\ Sure \in 0 .. InForce /\ Sure <= Gen(platter)
      /\ InForce \in Nat /\ Gen(disk) \in Nat /\ Gen(platter) \in Nat
  BY <1>1, SureBounds DEF InForce, PublishedOnDisk
<1>4. InForce' \in Nat /\ InForce' >= Sure
  BY <1>2, <1>3
<1>5. Sure' = IF Gen(platter)' < InForce' THEN Gen(platter)' ELSE InForce'
  BY DEF Sure
<1>6. Sure' \in Sure .. InForce'
  BY <1>2, <1>3, <1>4, <1>5
<1> QED
  BY <1>1, <1>4, <1>6 DEF History!Stop

(* A bundle that is applied is durable before it is in force; one whose      *)
(* write failed is not in force at all, although it may be on the platter.   *)
LEMMA ApplyMaps ==
  ASSUME ~Windows, DirOpens, TypeInv, PublishedOnDisk,
         NEW p \in Callers, NEW ok \in BOOLEAN, apply(p, ok)
  PROVE  \/ History!Publish \/ History!Settle
         \/ UNCHANGED <<running, InForce, Sure>>
<1>1. step[p] = "apply" /\ running' = running
  BY DEF apply
<1>2. running
  BY <1>1 DEF TypeInv, DownIdle
<1>3. InForce = Gen(current) /\ InForce' = Gen(current)'
  BY <1>1, <1>2 DEF InForce
<1>4. /\ Gen(current) \in Nat /\ Gen(platter) \in Nat
      /\ Sure = IF Gen(platter) < InForce THEN Gen(platter) ELSE InForce
      /\ Sure' = IF Gen(platter)' < InForce' THEN Gen(platter)' ELSE InForce'
  BY SureBounds DEF Sure
<1>5. CASE current' = current /\ platter' = platter
  <2>1. Gen(current)' = Gen(current) /\ Gen(platter)' = Gen(platter)
    BY <1>5 DEF Gen
  <2> QED
    BY <1>1, <1>3, <1>4, <2>1
<1>6. CASE ~Stale(got[p]) /\ current' = got[p] /\ platter' = got[p]
  <2>1. Gen(got[p]) \in Nat /\ Gen(got[p]) > Gen(current)
    BY <1>1, <1>6, NotStale
  <2>2. Gen(current)' = Gen(got[p]) /\ Gen(platter)' = Gen(got[p])
    BY <1>6 DEF Gen
  <2>3. InForce' \in Nat /\ InForce' > InForce /\ Sure' = InForce'
    BY <1>3, <1>4, <2>1, <2>2
  <2> QED
    BY <1>1, <1>2, <2>3 DEF History!Publish
<1>7. CASE ~Stale(got[p]) /\ current' = current /\ platter' = got[p]
  <2>1. Gen(got[p]) \in Nat /\ Gen(got[p]) > Gen(current)
    BY <1>1, <1>7, NotStale
  <2>2. Gen(current)' = Gen(current) /\ Gen(platter)' = Gen(got[p])
    BY <1>7 DEF Gen
  <2>3. InForce' = InForce /\ Sure' = InForce /\ Sure <= InForce
    BY <1>3, <1>4, <2>1, <2>2
  <2>4. Sure' = Sure \/ Sure' \in Sure + 1 .. InForce
    BY <1>3, <1>4, <2>3
  <2> QED
    BY <1>1, <2>3, <2>4 DEF History!Settle
<1>8. CASE current' = current /\ platter' = disk
  <2>1. Gen(current)' = Gen(current) /\ Gen(platter)' = Gen(disk)
    BY <1>8 DEF Gen
  <2>2. Gen(current) <= Gen(disk) /\ Gen(disk) \in Nat
    BY <1>2, SureBounds DEF PublishedOnDisk
  <2>3. InForce' = InForce /\ Sure' = InForce
    BY <1>3, <1>4, <2>1, <2>2
  <2>4. Sure' = Sure \/ Sure' \in Sure + 1 .. InForce
    BY <1>3, <1>4, <2>3
  <2> QED
    BY <1>1, <2>3, <2>4 DEF History!Settle
<1> QED
  BY <1>5, <1>6, <1>7, <1>8 DEF apply, persistTopologySnapshot, Published, files

(* The topology manager implements GenerationHistory wherever the rename is  *)
(* atomic and the directory can be opened, whether its fsync succeeds or     *)
(* not: whatever the source replays and however refreshes race, the          *)
(* generation in force is durable when a refresh puts it there and only      *)
(* grows while the relay runs, and a stop takes back at most what a failed   *)
(* fsync of the directory left open.                                         *)
THEOREM TopologyImplementsHistory ==
  ASSUME ~Windows, DirOpens
  PROVE  Spec => GenerationsOnlyGrow
<1>1. Init => History!Init
  BY DEF Init, History!Init, InForce, Sure, Gen
<1>2. TypeInv /\ TypeInv' /\ PublishedOnDisk /\ [Next]_vars
        => [History!Next]_<<running, InForce, Sure>>
  <2> SUFFICES ASSUME TypeInv, TypeInv', PublishedOnDisk, [Next]_vars
               PROVE  History!Next \/ UNCHANGED <<running, InForce, Sure>>
    OBVIOUS
  <2>1. CASE Quiet
    BY <2>1 DEF Quiet, InForce, Sure, Gen
  <2>2. CASE start
    BY <2>2, StartMaps DEF History!Next
  <2>3. CASE crash(disk) \/ crash(platter)
    BY <2>3, CrashMaps DEF History!Next
  <2>4. CASE \E p \in Callers, ok \in BOOLEAN : apply(p, ok)
    BY <2>4, ApplyMaps DEF History!Next
  <2> QED
    BY <2>1, <2>2, <2>3, <2>4, Writers
<1> QED
  BY <1>1, <1>2, SpecTypes, TopologyOnDisk, PTL DEF Spec, GenerationsOnlyGrow, History!Spec

-----------------------------------------------------------------------------
(* Every bundle that is in the file, or may come to be, was active when it   *)
(* was fetched, and the clock does not step back.                            *)
Begun(b) == b # NoBundle => b.from <= now

BegunInv ==
    /\ Begun(disk) /\ Begun(platter)
    /\ \A p \in Callers : step[p] = "apply" => Begun(got[p])

(* A bundle that has begun to be valid has begun for good: the clock does not *)
(* step back.                                                                 *)
LEMMA BegunStays ==
  ASSUME TypeInv, NEW b \in Bundles \cup {NoBundle}, Begun(b),
         now' \in Nat, now <= now'
  PROVE  Begun(b)'
<1> USE TopologyAssumption DEF Times
<1>1. now \in Nat
  BY DEF TypeInv, TypeOK
<1>2. CASE b \in Bundles
  <2>1. b.from \in Nat
    BY <1>2 DEF Bundle
  <2> QED
    BY <1>1, <2>1 DEF Begun
<1>3. CASE b = NoBundle
  BY <1>3 DEF Begun
<1> QED
  BY <1>2, <1>3

(* Every step keeps BegunInv. *)
LEMMA StepBegun == TypeInv /\ BegunInv /\ [Next]_vars => BegunInv'
<1> SUFFICES ASSUME TypeInv, BegunInv, [Next]_vars
             PROVE  BegunInv'
  OBVIOUS
<1>t. /\ disk \in Bundles \cup {NoBundle} /\ platter \in Bundles \cup {NoBundle}
      /\ \A p \in Callers : got[p] \in Bundles \cup {NoBundle}
      /\ step \in [Callers -> Steps] /\ got \in [Callers -> Bundles \cup {NoBundle}]
      /\ now \in Nat
  BY TopologyAssumption DEF TypeInv, TypeOK, Times
<1>0. ASSUME UNCHANGED <<files, now>>, \A p \in Callers : step'[p] = "apply" => step[p] = "apply" /\ got'[p] = got[p]
      PROVE  BegunInv'
  BY <1>0 DEF BegunInv, Begun, files
<1>1. CASE start
  BY <1>1, <1>0, <1>t DEF start, Callers, call
<1>2. CASE crash(disk) \/ crash(platter)
  BY <1>2, <1>t DEF crash, Volatile, BegunInv, Begun
<1>3. CASE tick
  <2>1. now' \in Nat /\ now <= now' /\ UNCHANGED <<disk, platter, step, got>>
    BY <1>3, <1>t DEF tick, files, call
  <2> QED
    BY <2>1, <1>t, BegunStays DEF BegunInv, Begun
<1>4. CASE wake
  BY <1>4, <1>0, <1>t DEF wake, Goto, Callers
<1>5. ASSUME NEW p \in Callers, Refresh(p) PROVE BegunInv'
  <2>1. CASE lockRefresh(p)
    BY <2>1, <1>0, <1>t DEF lockRefresh, Goto, AfterRefresh
  <2>2. ASSUME NEW b \in Bundles, fetch(p, b) PROVE BegunInv'
    BY <2>2, <1>t DEF fetch, Goto, Verify, BegunInv, Begun, files
  <2>3. CASE fetchFails(p)
    BY <2>3, <1>0, <1>t DEF fetchFails, Goto, AfterRefresh
  <2>4. ASSUME NEW ok \in BOOLEAN, apply(p, ok) PROVE BegunInv'
    <3>1. step[p] = "apply" /\ now' = now
      BY <2>4 DEF apply
    <3>2. Begun(got[p])
      BY <3>1 DEF BegunInv
    <3>3. disk' \in {disk, got[p], NoBundle} /\ platter' \in {platter, disk, got[p], NoBundle}
      BY <2>4 DEF apply, persistTopologySnapshot, files
    <3>4. Begun(disk)' /\ Begun(platter)'
      BY <3>1, <3>2, <3>3 DEF BegunInv, Begun
    <3>5. \A q \in Callers : step'[q] = "apply" => step[q] = "apply" /\ got'[q] = got[q]
      BY <2>4, <1>t DEF apply, AfterRefresh, Goto
    <3> QED
      BY <3>1, <3>4, <3>5 DEF BegunInv, Begun
  <2> QED
    BY <1>5, <2>1, <2>2, <2>3, <2>4 DEF Refresh
<1>6. CASE \E r \in Requests, dc \in DCs : ensureRoute(r, dc)
  BY <1>6, <1>0, <1>t DEF ensureRoute, Goto, Callers
<1>7. CASE \E r \in Requests : contextEnds(r)
  BY <1>7, <1>0 DEF contextEnds
<1>8. CASE \E r \in Requests : lockOnDemand(r)
  BY <1>8, <1>0, <1>t DEF lockOnDemand, Goto, Callers
<1>9. CASE \E r \in Requests : answer(r)
  BY <1>9, <1>0, <1>t DEF answer, Goto, Callers
<1>10. CASE UNCHANGED vars
  BY <1>10, <1>0 DEF vars, call
<1> QED
  BY <1>1, <1>2, <1>3, <1>4, <1>5, <1>6, <1>7, <1>8, <1>9, <1>10 DEF Next

(* No bundle that a refresh accepted keeps a later start from accepting it,  *)
(* whichever file a crash, a power loss or a failed rename leaves behind.    *)
THEOREM TopologyStartsAgain == Spec => []StartsAgain
<1>1. Init => BegunInv
  BY DEF Init, BegunInv, Begun
<1>2. TypeInv /\ BegunInv /\ [Next]_vars => BegunInv'
  BY StepBegun
<1>3. BegunInv => StartsAgain
  BY DEF BegunInv, Begun, StartsAgain, Verify
<1> QED
  BY <1>1, <1>2, <1>3, SpecTypes, PTL DEF Spec
=============================================================================
