--------------------------- MODULE TopologyManager --------------------------
(***************************************************************************)
(* The signed topology (internal/relay/topology_manager.go and             *)
(* internal/topology/bundle.go): the background loop and the requests for  *)
(* an unknown DC refresh it under refreshMu, a request does so under       *)
(* onDemandMu and a cooldown, and the last-known-good bundle is written to *)
(* a file before it is published.  The relay may crash at any point.       *)
(* The source (and whoever replays its answers) may serve any bundle that  *)
(* was ever signed, at any time; what is not signed is rejected and counts *)
(* as a fetch that fails.                                                  *)
(* Operators named Mut... are variants of the operator after them with a   *)
(* plausible bug: they show that the properties can fail.                  *)
(***************************************************************************)
EXTENDS Naturals

CONSTANTS
    Requests,        \* handlers in ensureRoute (slots, reused)
    Loop,            \* the goroutine of topologyManager.start
    DCs,             \* the data centres clients ask for
    BaseDCs,         \* those of the owner's configuration
    Bundles,         \* the bundles ever signed
    NoBundle,        \* no snapshot, no file
    Nobody,          \* an unlocked mutex
    Never,           \* lastOnDemand.IsZero
    Cooldown,        \* the 30 seconds of ensureRoute
    Windows,         \* runtime.GOOS == "windows"
    DirOpens,        \* whether os.Open of the directory always succeeds
    DirSyncs,        \* whether its fsync always succeeds
    MaxNow           \* bound: clock ticks

Times == 0..MaxNow

(* `from` is notBefore less the five minutes validatePayload grants. *)
Bundle == [gen : Nat \ {0}, from : Nat, until : Nat, dcs : SUBSET DCs]

Callers == Requests \cup {Loop}

ASSUME TopologyAssumption ==
    /\ Bundles \subseteq Bundle /\ NoBundle \notin Bundle
    /\ BaseDCs \subseteq DCs
    /\ Loop \notin Requests /\ Nobody \notin Callers
    /\ Never \notin Times
    /\ Cooldown \in Nat /\ MaxNow \in Nat
    /\ Windows \in BOOLEAN /\ DirOpens \in BOOLEAN /\ DirSyncs \in BOOLEAN

VARIABLES
    running,       \* whether the process runs
    disk,          \* the state file as the operating system shows it
    platter,       \* the state file as a power loss leaves it
    current,       \* topologyManager.current
    step,          \* where each caller is
    want,          \* the DC a request asks for
    live,          \* whether the context of a request is live
    got,           \* the verified snapshot a caller is about to apply
    refreshMu,     \* who holds refreshMu
    onDemandMu,    \* who holds onDemandMu
    lastOnDemand,
    now            \* time.Now

files == <<disk, platter>>
call  == <<step, want, live, got>>
vars == <<running, files, current, call, refreshMu, onDemandMu, lastOnDemand, now>>

Steps == {"idle", "wait", "lock", "fetch", "apply", "answer"}

TypeOK ==
    /\ running \in BOOLEAN
    /\ disk \in Bundles \cup {NoBundle}
    /\ platter \in Bundles \cup {NoBundle}
    /\ current \in Bundles \cup {NoBundle}
    /\ step \in [Callers -> Steps]
    /\ want \in [Requests -> DCs]
    /\ live \in [Requests -> BOOLEAN]
    /\ got \in [Callers -> Bundles \cup {NoBundle}]
    /\ refreshMu \in Callers \cup {Nobody}
    /\ onDemandMu \in Requests \cup {Nobody}
    /\ lastOnDemand \in Times \cup {Never}
    /\ now \in Times

(* What dies with the process. *)
Volatile ==
    /\ step' = [p \in Callers |-> "idle"]
    /\ got' = [p \in Callers |-> NoBundle]
    /\ live' = [r \in Requests |-> TRUE]
    /\ refreshMu' = Nobody /\ onDemandMu' = Nobody
    /\ lastOnDemand' = Never

Init ==
    /\ running = FALSE
    /\ disk = NoBundle /\ platter = NoBundle /\ current = NoBundle
    /\ want \in [Requests -> DCs]
    /\ step = [p \in Callers |-> "idle"]
    /\ got = [p \in Callers |-> NoBundle]
    /\ live = [r \in Requests |-> TRUE]
    /\ refreshMu = Nobody /\ onDemandMu = Nobody
    /\ lastOnDemand = Never
    /\ now = 0

-----------------------------------------------------------------------------
Gen(b) == IF b = NoBundle THEN 0 ELSE b.gen

(* addresses: the DCs with a route; a snapshot replaces the configuration. *)
Routes == IF current = NoBundle THEN BaseDCs ELSE current.dcs

MutVerifyAnyStart(b, allowExpired) == allowExpired => b.from <= now

(* Verify and validatePayload, for a bundle with a good signature. *)
Verify(b, allowExpired) ==
    /\ b.from <= now
    /\ allowExpired \/ b.until > now

(* newTopologyManager reads the last-known-good file and trusts it even if   *)
(* it has expired; a file that does not verify keeps the relay from starting. *)
(* The loop refreshes at once.                                               *)
start ==
    /\ ~running
    /\ disk # NoBundle => Verify(disk, TRUE)
    /\ running' = TRUE
    /\ current' = disk
    /\ step' = [step EXCEPT ![Loop] = "lock"]
    /\ UNCHANGED <<files, want, live, got, refreshMu, onDemandMu, lastOnDemand, now>>

(* The process dies, or the machine loses power. *)
crash(file) ==
    /\ running
    /\ running' = FALSE
    /\ disk' = file
    /\ current' = NoBundle
    /\ Volatile
    /\ UNCHANGED <<platter, want, now>>

tick ==
    /\ now < MaxNow
    /\ now' = now + 1
    /\ UNCHANGED <<running, files, current, call, refreshMu, onDemandMu, lastOnDemand>>

-----------------------------------------------------------------------------
(* refresh *)

Goto(p, s) == step' = [step EXCEPT ![p] = s]

(* Where a caller goes on after refresh: the loop sleeps, a request answers. *)
AfterRefresh(p) == Goto(p, IF p = Loop THEN "idle" ELSE "answer")

MutKeepRefreshMu(p) == refreshMu' = p

UnlockRefresh(p) == refreshMu' = Nobody

(* The timer of the loop. *)
wake ==
    /\ running /\ step[Loop] = "idle"
    /\ Goto(Loop, "lock")
    /\ UNCHANGED <<running, files, current, want, live, got, refreshMu, onDemandMu, lastOnDemand, now>>

Alive(p) == p = Loop \/ live[p]

lockRefresh(p) ==
    /\ step[p] = "lock" /\ refreshMu = Nobody
    /\ IF Alive(p)
       THEN refreshMu' = p /\ Goto(p, "fetch")
       ELSE AfterRefresh(p) /\ UNCHANGED refreshMu
    /\ UNCHANGED <<running, files, current, want, live, got, onDemandMu, lastOnDemand, now>>

(* A bundle that verifies now; it is applied later. *)
fetch(p, b) ==
    /\ step[p] = "fetch"
    /\ Verify(b, FALSE)
    /\ got' = [got EXCEPT ![p] = b]
    /\ Goto(p, "apply")
    /\ UNCHANGED <<running, files, current, want, live, refreshMu, onDemandMu, lastOnDemand, now>>

(* No answer in time, a bad status or body, or a bundle that does not verify. *)
fetchFails(p) ==
    /\ step[p] = "fetch"
    /\ AfterRefresh(p) /\ UnlockRefresh(p)
    /\ UNCHANGED <<running, files, current, want, live, got, onDemandMu, lastOnDemand, now>>

(* persistTopologySnapshot: a temporary file, fsynced and renamed, then an   *)
(* fsync of the directory, skipped on Windows and when it cannot be opened.  *)
(* On Windows the old file is removed first.  When the fsync fails, this file *)
(* or the one it replaces may be on the platter all the same.                *)
persistTopologySnapshot(b, ok) ==
    \/ ok /\ disk' = b /\ platter' = b
    \/ ok /\ (Windows \/ ~DirOpens) /\ disk' = b /\ UNCHANGED platter
    \/ ~ok /\ UNCHANGED files
    \/ ~ok /\ ~Windows /\ ~DirSyncs /\ disk' = b /\ platter' \in {platter, disk, b}
    \/ ~ok /\ Windows /\ disk' = NoBundle /\ platter' = NoBundle

MutNothingStale(b) == FALSE

Stale(b) == current # NoBundle /\ b.gen <= current.gen

MutPublished(b, ok) == b

(* What refresh publishes once the file was written or was not. *)
Published(b, ok) == IF ok THEN b ELSE current

(* Compared, written and published under the write lock. *)
apply(p, ok) ==
    /\ step[p] = "apply"
    /\ IF Stale(got[p])
       THEN UNCHANGED <<files, current>>
       ELSE persistTopologySnapshot(got[p], ok) /\ current' = Published(got[p], ok)
    /\ got' = [got EXCEPT ![p] = NoBundle]
    /\ AfterRefresh(p) /\ UnlockRefresh(p)
    /\ UNCHANGED <<running, want, live, onDemandMu, lastOnDemand, now>>

-----------------------------------------------------------------------------
(* ensureRoute *)

(* A request whose DC has a route does not come further than the first test. *)
ensureRoute(r, dc) ==
    /\ running /\ step[r] = "idle"
    /\ dc \notin Routes
    /\ Goto(r, "wait")
    /\ want' = [want EXCEPT ![r] = dc]
    /\ live' = [live EXCEPT ![r] = TRUE]
    /\ UNCHANGED <<running, files, current, got, refreshMu, onDemandMu, lastOnDemand, now>>

(* The connect timeout, or the client hangs up; nothing waits for it but the *)
(* fetch, which then fails.                                                  *)
contextEnds(r) ==
    /\ step[r] # "idle" /\ live[r]
    /\ live' = [live EXCEPT ![r] = FALSE]
    /\ UNCHANGED <<running, files, current, step, want, got, refreshMu, onDemandMu, lastOnDemand, now>>

CoolingDown == lastOnDemand # Never /\ now - lastOnDemand < Cooldown

MutCooldownEnd == now + Cooldown

CooldownStart == now

(* With the lock: the route may be there by now, or the cooldown refuses.  *)
(* Otherwise the cooldown starts here, before refreshMu is taken.          *)
lockOnDemand(r) ==
    /\ step[r] = "wait" /\ onDemandMu = Nobody
    /\ IF want[r] \in Routes \/ CoolingDown
       THEN Goto(r, "idle") /\ UNCHANGED <<onDemandMu, lastOnDemand>>
       ELSE Goto(r, "lock") /\ onDemandMu' = r /\ lastOnDemand' = CooldownStart
    /\ UNCHANGED <<running, files, current, want, live, got, refreshMu, now>>

(* The last look at the routes, and the deferred unlock. *)
answer(r) ==
    /\ step[r] = "answer"
    /\ Goto(r, "idle")
    /\ onDemandMu' = Nobody
    /\ UNCHANGED <<running, files, current, want, live, got, refreshMu, lastOnDemand, now>>

Refresh(p) ==
    \/ lockRefresh(p)
    \/ \E b \in Bundles : fetch(p, b)
    \/ fetchFails(p)
    \/ \E ok \in BOOLEAN : apply(p, ok)

Next ==
    \/ start
    \/ crash(disk)
    \/ crash(platter)
    \/ tick
    \/ wake
    \/ \E p \in Callers : Refresh(p)
    \/ \E r \in Requests, dc \in DCs : ensureRoute(r, dc)
    \/ \E r \in Requests : contextEnds(r)
    \/ \E r \in Requests : lockOnDemand(r)
    \/ \E r \in Requests : answer(r)

Spec == Init /\ [][Next]_vars

(* Go mutexes are starvation-free, a fetch ends after 20 seconds at most, and *)
(* goroutines make progress.                                                 *)
FairSpec ==
    /\ Spec
    /\ \A p \in Callers :
          /\ SF_vars(lockRefresh(p))
          /\ WF_vars(fetchFails(p) \/ \E b \in Bundles : fetch(p, b))
          /\ WF_vars(\E ok \in BOOLEAN : apply(p, ok))
    /\ \A r \in Requests : SF_vars(lockOnDemand(r)) /\ WF_vars(answer(r))

-----------------------------------------------------------------------------
(* The topology in force is on disk, so that a crash of the process never    *)
(* brings back an older one: refresh publishes only what the file holds, and *)
(* a file that a failing directory fsync left newer than memory is only      *)
(* overwritten by something newer than memory.                               *)
PublishedOnDisk == running => Gen(current) <= Gen(disk)

(* The generation the relay routes by, or would route by after a restart. *)
InForce == Gen(IF running THEN current ELSE disk)

(* As much of it as the platter holds: no power loss takes that back. *)
Sure == LET onPlatter == Gen(platter)
        IN  IF onPlatter < InForce THEN onPlatter ELSE InForce

History == INSTANCE GenerationHistory
           WITH up <- running, generation <- InForce, sure <- Sure

(* The relay implements GenerationHistory ("atomic rename + directory fsync  *)
(* -> in-memory publish", docs/TOPOLOGY.md).  Refreshes may race each other, *)
(* the source may replay old bundles, and a write or the fsync of the        *)
(* directory may fail: a refresh puts in force only a newer bundle that is   *)
(* already durable, and neither a failure nor a crash nor a power loss ever  *)
(* takes such a bundle back.                                                 *)
GenerationsOnlyGrow == History!Spec

(* What a refresh accepts, a restart accepts: the last-known-good file never *)
(* keeps the relay from starting, however long it has been expired (while    *)
(* the clock does not step back).                                            *)
StartsAgain ==
    /\ disk # NoBundle => Verify(disk, TRUE)
    /\ platter # NoBundle => Verify(platter, TRUE)

(* At most one caller is inside refresh and one on-demand caller waits for   *)
(* it; the mutexes are held by exactly those.                                *)
LocksMatchSteps ==
    /\ \A p \in Callers : step[p] \in {"fetch", "apply"} <=> refreshMu = p
    /\ \A r \in Requests : step[r] \in {"lock", "fetch", "apply", "answer"} <=> onDemandMu = r

(* Every request for an unknown DC gets its answer: the two mutexes are      *)
(* always taken in one order and given back on every path.                   *)
RequestsAnswered == \A r \in Requests : step[r] # "idle" ~> step[r] = "idle"
=============================================================================
