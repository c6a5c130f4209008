---------------------------- MODULE RouteReport -----------------------------
(***************************************************************************)
(* POST /test-routes (handleTestRoutes, checkRoutes, checkRouteAddress and *)
(* formatRouteReport in internal/relay/server.go): a dispatcher hands the  *)
(* requested DCs to workers, each of which tries the addresses of the main *)
(* route and then of the media route, until a deadline ends the request.   *)
(* The topology may be replaced by a refresh while the checks run.         *)
(* Operators named Mut... are variants of the operator after them with a   *)
(* plausible bug: they show that the properties can fail.                  *)
(***************************************************************************)
EXTENDS Routes

CONSTANTS
    Files,           \* the config files the relay may be started with
    Bundles,         \* the bundles a refresh may bring into force
    Requests,        \* the sequences of DCs a request may hold
    Workers,         \* the goroutines that may be started (six in the code)
    MaxRequested,    \* maxTestRouteDCs
    MaxRefreshes     \* bound: the refreshes during a request

ASSUME RequestsAssumption == Requests \subseteq Seq(Int) /\ MaxRequested \in Nat

(* Route tables are functions, from DCs to addresses or to lists of endpoints. *)
IsOptions(table) == table \in [DOMAIN table -> Seq(Endpoints)]
IsMember(member) == member.routes \in [DOMAIN member.routes -> Addresses]

ASSUME RoutesAssumption ==
    /\ \A f \in Files :
          /\ IsMember(f.dcMap) /\ IsMember(f.testDcMap)
          /\ IsOptions(f.dcOptions) /\ IsOptions(f.testDcOptions)
    /\ \A b \in Bundles :
          /\ b = Signed(b.prod.options, b.test.options)
          /\ IsOptions(b.prod.options) /\ IsOptions(b.test.options)

VARIABLES
    file,            \* the config file
    topology,        \* the routes in force
    refreshes,
    dcs,             \* sortedDCS of the request
    ctxDone,         \* whether the deadline has passed
    dispatcher,      \* where checkRoutes is
    next,            \* the index it hands out
    step, index, left,   \* each worker: where it is, its job, addresses to try
    failed,          \* errorsByIndex: the routes with an error; nil means OK
    completed,       \* completedByIndex
    reached          \* history: the routes for which checkAddress succeeded

requestVars == <<file, dcs>>
serverVars  == <<topology, refreshes>>
workerVars  == <<step, index, left>>
resultVars  == <<failed, completed, reached>>
reportVars  == <<requestVars, serverVars, ctxDone, dispatcher, next, workerVars, resultVars>>

Scopes == {"main", "media"}

(* Each DC once, in increasing order. *)
sortedDCS(items) ==
    LET set == ToSet(items)
        n   == Cardinality(set)
    IN  CHOOSE s \in [1..n -> set] : \A i, j \in 1..n : i < j => s[i] < s[j]

Indexes == 1..Len(dcs)

TypeOK ==
    /\ file \in Files /\ ctxDone \in BOOLEAN
    /\ refreshes \in 0..MaxRefreshes
    /\ dispatcher \in {"dispatch", "wait", "gaveUp", "done"} /\ next \in 1..(Len(dcs) + 1)
    /\ step \in [Workers -> {"select", "look", "dial", "ended"}]
    /\ index \in [Workers -> [i : 0..Len(dcs), scope : Scopes]]
    /\ \A w \in Workers : ToSet(left[w]) \subseteq Addresses
    /\ failed \subseteq Indexes \X Scopes /\ completed \subseteq Indexes
    /\ reached \subseteq ToSet(dcs) \X Scopes

Started(items) == {w \in Workers : Cardinality({v \in Workers : v < w}) < Len(sortedDCS(items))}

Init ==
    /\ file \in {f \in Files : Validate(f)}
    /\ topology = Config(file) /\ refreshes = 0
    /\ \E items \in Requests :
          /\ Len(items) \in 1..MaxRequested
          /\ dcs = sortedDCS(items)
          /\ step = [w \in Workers |-> IF w \in Started(items) THEN "select" ELSE "ended"]
    /\ ctxDone = FALSE
    /\ dispatcher = "dispatch" /\ next = 1
    /\ index = [w \in Workers |-> [i |-> 0, scope |-> "main"]]
    /\ left = [w \in Workers |-> <<>>]
    /\ failed = {} /\ completed = {} /\ reached = {}

Goto(w, s) == step' = [step EXCEPT ![w] = s]

-----------------------------------------------------------------------------
(* The server meanwhile. *)

refresh(b) ==
    /\ refreshes < MaxRefreshes /\ dispatcher # "done"
    /\ refreshes' = refreshes + 1
    /\ topology' = b
    /\ UNCHANGED <<requestVars, ctxDone, dispatcher, next, workerVars, resultVars>>

contextEnds ==
    /\ ~ctxDone /\ dispatcher # "done"
    /\ ctxDone' = TRUE
    /\ UNCHANGED <<requestVars, serverVars, dispatcher, next, workerVars, resultVars>>

-----------------------------------------------------------------------------
(* The dispatcher *)

(* jobs is unbuffered: a job is handed to a worker that waits for one. *)
handOut(w) ==
    /\ dispatcher = "dispatch" /\ next \in Indexes /\ step[w] = "select"
    /\ next' = next + 1
    /\ index' = [index EXCEPT ![w] = [i |-> next, scope |-> "main"]]
    /\ Goto(w, "look")
    /\ UNCHANGED <<requestVars, serverVars, ctxDone, dispatcher, left, resultVars>>

MutAllPending == Indexes

(* The jobs that no worker has received. *)
Pending == next..Len(dcs)

MutGivesUp == FALSE

GivesUp == ctxDone /\ next \in Indexes

(* The context ends first: the rest is marked, and jobs is closed. *)
giveUp ==
    /\ dispatcher = "dispatch" /\ GivesUp
    /\ failed' = failed \cup (Pending \X Scopes)
    /\ completed' = completed \cup Pending
    /\ dispatcher' = "gaveUp"
    /\ UNCHANGED <<requestVars, serverVars, ctxDone, next, workerVars, reached>>

closeJobs ==
    /\ dispatcher = "dispatch" /\ next > Len(dcs)
    /\ dispatcher' = "wait"
    /\ UNCHANGED <<requestVars, serverVars, ctxDone, next, workerVars, resultVars>>

(* workers.Wait; then, unless the dispatcher gave up, a context that has      *)
(* ended since fails the jobs that were not completed.                        *)
format ==
    /\ dispatcher \in {"wait", "gaveUp"} /\ \A w \in Workers : step[w] = "ended"
    /\ failed' = IF dispatcher = "wait" /\ ctxDone
                 THEN failed \cup ((Indexes \ completed) \X Scopes) ELSE failed
    /\ dispatcher' = "done"
    /\ UNCHANGED <<requestVars, serverVars, ctxDone, next, workerVars, completed, reached>>

-----------------------------------------------------------------------------
(* A worker *)

stops(w) ==
    /\ step[w] = "select" /\ (ctxDone \/ dispatcher = "wait")
    /\ Goto(w, "ended")
    /\ UNCHANGED <<requestVars, serverVars, ctxDone, dispatcher, next, index, left, resultVars>>

(* The outcome of checkRouteAddress: the media route follows the main one.   *)
Finish(w, ok) ==
    LET job == index[w]
    IN  /\ failed' = IF ok THEN failed ELSE failed \cup {<<job.i, job.scope>>}
        /\ IF job.scope = "main"
           THEN index' = [index EXCEPT ![w].scope = "media"] /\ Goto(w, "look") /\ UNCHANGED completed
           ELSE UNCHANGED index /\ Goto(w, "select") /\ completed' = completed \cup {job.i}

MutUnknownOK == TRUE

(* Whether a route without addresses is OK: it is "unknown dc", an error. *)
UnknownOK == FALSE

(* The addresses of the route. *)
look(w) ==
    LET list == addresses(topology, dcs[index[w].i], FALSE, index[w].scope = "media")
    IN  /\ step[w] = "look"
        /\ left' = [left EXCEPT ![w] = list]
        /\ IF list = <<>> THEN Finish(w, UnknownOK)
           ELSE Goto(w, "dial") /\ UNCHANGED <<index, failed, completed>>
        /\ UNCHANGED <<requestVars, serverVars, ctxDone, dispatcher, next, reached>>

(* checkAddress succeeds if the dial and the Close that follows it do; the    *)
(* first address for which it does makes the route OK.                        *)
dial(w, ok) ==
    LET job == index[w]
    IN  /\ step[w] = "dial" /\ (ok => ~ctxDone)
        /\ left' = [left EXCEPT ![w] = Tail(@)]
        /\ reached' = IF ok THEN reached \cup {<<dcs[job.i], job.scope>>} ELSE reached
        /\ IF ok \/ Len(left[w]) = 1 THEN Finish(w, ok)
           ELSE UNCHANGED <<step, index, failed, completed>>
        /\ UNCHANGED <<requestVars, serverVars, ctxDone, dispatcher, next>>

-----------------------------------------------------------------------------
WorkerStep(w) ==
    \/ handOut(w)
    \/ stops(w)
    \/ look(w)
    \/ \E ok \in BOOLEAN : dial(w, ok)

Next ==
    \/ \E b \in Bundles : refresh(b)
    \/ contextEnds
    \/ giveUp \/ closeJobs \/ format
    \/ \E w \in Workers : WorkerStep(w)

Spec == Init /\ [][Next]_reportVars

(* Dials are bounded by the deadline, which passes. *)
FairSpec ==
    /\ Spec
    /\ WF_reportVars(contextEnds) /\ WF_reportVars(giveUp)
    /\ WF_reportVars(closeJobs) /\ WF_reportVars(format)
    /\ \A w \in Workers : WF_reportVars(stops(w)) /\ WF_reportVars(look(w)) /\ WF_reportVars(ctxDone /\ dial(w, FALSE))

-----------------------------------------------------------------------------
Busy == {w \in Workers : step[w] \in {"look", "dial"}}

(* The status of formatRouteReport: 502 when a route has an error. *)
AllAvailable == failed = {}

(* A nil error reads as OK, so a route must not be left unchecked whatever   *)
(* the deadline interrupts: a route is reported OK exactly if one of its     *)
(* addresses could be reached, hence HTTP 502 for any DC that does not work       *)
(* (CHANGELOG 1.0.4).                                                        *)
ReportTrue ==
    dispatcher = "done" =>
        /\ \A i \in Indexes, s \in Scopes : <<i, s>> \in failed <=> <<dcs[i], s>> \notin reached
        /\ AllAvailable <=> reached = ToSet(dcs) \X Scopes

(* The results are written without a lock: no two workers ever have the same *)
(* index, and the dispatcher marks none that a worker has.                   *)
ResultsNotShared ==
    /\ \A v, w \in Busy : v # w => index[v].i # index[w].i
    /\ \A w \in Busy : index[w].i < next /\ index[w].i \notin completed

(* The report is always returned, and no worker is left behind.              *)
ReportReturns == dispatcher = "dispatch" ~> dispatcher = "done" /\ Busy = {}

-----------------------------------------------------------------------------
KnownDCs == configuredDCs(topology, FALSE) \cup configuredDCs(topology, TRUE) \cup ToSet(dcs)

EndpointsOf(test, dc) ==
    ToSet(Lookup(IF topology.signed THEN RoutesOf(topology, test).options
                 ELSE IF test THEN file.testDcOptions ELSE file.dcOptions, dc, <<>>))

(* The map the owner wrote, or the embedded one in place of a missing map.   *)
LegacyOf(test) ==
    LET member == IF test THEN file.testDcMap ELSE file.dcMap
    IN  IF topology.signed THEN Empty
        ELSE IF member.kind = "map" THEN member.routes
        ELSE IF test THEN Embedded.test ELSE Embedded.prod

(* How early a role is tried on a route, 0 for never. *)
Rank(role, media) ==
    CASE role = "regular" -> IF media THEN 3 ELSE 1
      [] role = "cdn"     -> 2
      [] role = "media"   -> IF media THEN 1 ELSE 0

(* The endpoints that may serve a route, and how early an address is due. *)
Eligible(test, dc, media) == {e \in EndpointsOf(test, dc) : Rank(e.role, media) # 0}

Due(endpoints, a, media) ==
    CHOOSE r \in 1..3 :
        /\ \E e \in endpoints : e.address = a /\ Rank(e.role, media) = r
        /\ \A e \in endpoints : e.address = a => r <= Rank(e.role, media)

(* What the list of a route must be: every eligible endpoint once, by rank;  *)
(* without any, the address of the legacy map.                               *)
ListRight(list, test, dc, media) ==
    LET eligible == Eligible(test, dc, media)
    IN  IF eligible = {}
        THEN list = IF dc \in DOMAIN LegacyOf(test) THEN <<LegacyOf(test)[dc]>> ELSE <<>>
        ELSE /\ IsInjective(list)
             /\ ToSet(list) = {e.address : e \in eligible}
             /\ \A i, j \in DOMAIN list :
                   i < j => Due(eligible, list[i], media) <= Due(eligible, list[j], media)

(* The relay connects only where its operator lets it, and advertises just   *)
(* that: to the endpoints of the bundle in force and to nothing else once    *)
(* there is one, before that to those of the config file; a dcMap in the     *)
(* file, even an empty or a partial one, inherits no embedded route, and     *)
(* test routes have no production address.  Media routes try media endpoints *)
(* first and regular ones last, main routes never a media endpoint; an       *)
(* address listed under several roles comes once (the dial race and the pool *)
(* rely on it).  /capabilities names a DC exactly if its media route is not  *)
(* answered by "unknown dc".                                                 *)
RoutesAsConfigured ==
    \A test \in BOOLEAN : \A dc \in KnownDCs :
        /\ \A media \in BOOLEAN : ListRight(addresses(topology, dc, test, media), test, dc, media)
        /\ dc \in configuredDCs(topology, test) <=> addresses(topology, dc, test, TRUE) # <<>>
=============================================================================
