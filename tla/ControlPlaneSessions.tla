------------------------- MODULE ControlPlaneSessions ------------------------
(***************************************************************************)
(* No session slips past the owner: whatever happens between the moment a  *)
(* request is authorized and the moment its session is registered, an open *)
(* session of a stopped relay, of a blocked device or of a deleted token   *)
(* is closed, or its close function has been collected.  Every other       *)
(* session has its device on record, no change of identity takes a block   *)
(* away, and each address has at most one lookup.                          *)
(***************************************************************************)
EXTENDS ControlPlaneProofs

Ending(r) == req[r].shut \/ r \in closing

(* What every step but a registration does to the open sessions. *)
KeepsSessions ==
    \A r \in OpenRequests' :
        /\ r \in OpenRequests
        /\ req'[r].id = req[r].id /\ req'[r].key = req[r].key
        /\ Ending(r) => Ending(r)'

(* Collecting more close functions takes none back. *)
LEMMA CollectKeeps ==
    ASSUME UNCHANGED req, closing \subseteq closing'
    PROVE  KeepsSessions
BY DEF KeepsSessions, OpenRequests, Ending

(* A process that ends takes its sessions with it. *)
LEMMA VolatileKeeps == Volatile => OpenRequests' = {} /\ KeepsSessions
BY DEF Volatile, KeepsSessions, OpenRequests

(* Closing the connections of a session leaves its entry where it is. *)
LEMMA ShutKeeps ==
    ASSUME TypeInv, NEW r \in Requests, req[r] \in Request, req' = [req EXCEPT ![r].shut = TRUE],
           closing' = closing \/ closing' = closing \ {r}
    PROVE  KeepsSessions
<1>1. req'[r] = [req[r] EXCEPT !.shut = TRUE] /\ req'[r] # NoRequest /\ req[r] # NoRequest
  BY NullsAssumption DEF TypeInv, ReqType, Request
<1>2. \A q \in Requests : q # r => req'[q] = req[q]
  BY DEF TypeInv, ReqType
<1>3. /\ req'[r].step = req[r].step /\ req'[r].id = req[r].id /\ req'[r].key = req[r].key
      /\ req'[r].shut
  BY <1>1 DEF Request
<1> QED
  BY <1>1, <1>2, <1>3 DEF KeepsSessions, OpenRequests, Ending

(* Only a registration opens a session. *)
LEMMA SessionKeeps ==
    ASSUME TypeInv, Session, ~ \E r \in Requests, gone \in SUBSET Known(state) : registerSession(r, gone)
    PROVE  KeepsSessions
<1> USE DEF TypeInv, ReqType
<1>1. ASSUME NEW r \in Requests, NEW t, NEW h, authorizeClient(r, t, h) PROVE KeepsSessions
  BY <1>1, NullsAssumption DEF authorizeClient, KeepsSessions, OpenRequests, Ending
<1>2. ASSUME NEW r \in Requests, deviceBlocked(r) PROVE KeepsSessions
  <2>1. req[r] \in Request
    BY <1>2 DEF deviceBlocked, At
  <2>2. req'[r] = NoRequest \/ req'[r].step = "dialing"
    BY <1>2, <2>1 DEF deviceBlocked, At, Request
  <2> QED
    BY <1>2, <2>2 DEF deviceBlocked, KeepsSessions, OpenRequests, Ending
<1>3. ASSUME NEW r \in Requests, dialFails(r) \/ registerRefused(r) PROVE KeepsSessions
  BY <1>3 DEF dialFails, registerRefused, KeepsSessions, OpenRequests, Ending
<1>4. ASSUME NEW r \in Requests, peerCloses(r) PROVE KeepsSessions
  <2>1. req[r] \in Request /\ closing' = closing
    BY <1>4 DEF peerCloses, At
  <2>2. req' = [req EXCEPT ![r].shut = TRUE]
    BY <1>4 DEF peerCloses
  <2> QED
    BY <2>1, <2>2, ShutKeeps
<1>5. ASSUME NEW r \in Requests, runCloser(r) PROVE KeepsSessions
  <2>1. req[r] \in Request /\ closing' = closing \ {r}
    BY <1>5 DEF runCloser, OpenRequests
  <2>2. req' = [req EXCEPT ![r].shut = TRUE]
    BY <1>5 DEF runCloser
  <2> QED
    BY <2>1, <2>2, ShutKeeps
<1>6. ASSUME NEW r \in Requests, unregister(r) PROVE KeepsSessions
  BY <1>6 DEF unregister, KeepsSessions, OpenRequests, Ending
<1> QED
  BY <1>1, <1>2, <1>3, <1>4, <1>5, <1>6 DEF Session

(* No other step opens a session or takes back an ending one. *)
LEMMA OthersKeep ==
    ASSUME TypeInv, Owner \/ Flush \/ Process \/ Geo \/ UNCHANGED vars
    PROVE  KeepsSessions
<1>1. CASE Owner
  <2>1. UNCHANGED req /\ closing \subseteq closing'
    BY <1>1 DEF Owner, createToken, deleteToken, disconnectDevice, setDeviceBlocked
  <2> QED
    BY <2>1, CollectKeeps
<1>2. CASE Flush
  BY <1>2, CollectKeeps DEF Flush, timerFires, flushClientState
<1>3. CASE Process
  <2>1. CASE crash(disk) \/ crash(platter) \/ \E ok \in BOOLEAN : finishShutdown(ok)
    BY <2>1, VolatileKeeps DEF crash, finishShutdown
  <2>2. CASE (\E i \in InstanceIDs, ok \in BOOLEAN : start(i, ok)) \/ beginShutdown \/ tick
    <3>1. UNCHANGED req /\ closing \subseteq closing'
      BY <2>2 DEF start, beginShutdown, tick
    <3> QED
      BY <3>1, CollectKeeps
  <2> QED
    BY <1>3, <2>1, <2>2 DEF Process
<1>4. CASE Geo
  BY <1>4, CollectKeeps DEF Geo, lookupStarts, lookupFails, lookupAnswers, lookupEnds, cacheExpires
<1>5. CASE UNCHANGED vars
  BY <1>5, CollectKeeps DEF vars
<1> QED
  BY <1>1, <1>2, <1>3, <1>4, <1>5

-----------------------------------------------------------------------------
(* The sessions after a registration: the others keep their token and whether *)
(* they are ending, and keep their key or move to that of the new session,    *)
(* the key of a device none of whose candidate keys is blocked.               *)
LEMMA RegisterSessions ==
    ASSUME TypeInv, NEW r \in Requests, NEW gone, registerSession(r, gone)
    PROVE  /\ Admissible(r) /\ req[r] \in Request /\ UNCHANGED <<phase, closing>>
           /\ req'[r].id = req[r].id /\ req'[r].hash = req[r].hash
           /\ req'[r].key = req[r].key
           /\ \A q \in OpenRequests' \ {r} :
                 /\ q \in OpenRequests
                 /\ req'[q].id = req[q].id
                 /\ req'[q].key = req[q].key \/ req'[q].key = <<req[r].id, DeviceOf(req[r].hdr)>>
                 /\ Ending(q) => Ending(q)'
<1> DEFINE h    == req[r].hdr
           key  == <<req[r].id, DeviceOf(h)>>
           olds == OldKeys(Forget(state, gone), req[r].id, h)
           new  == [req[r] EXCEPT !.step = "open"]
<1>1. req[r] \in Request /\ Admissible(r) /\ UNCHANGED <<phase, closing>>
  BY DEF TypeInv, ReqType, registerSession, At
<1>2. req' = [Refiled(olds, key) EXCEPT ![r] = new]
  BY DEF registerSession
<1> HIDE DEF olds, key, h
<1>3. req'[r] = new
  BY <1>2 DEF Refiled
<1>4. \A q \in Requests \ {r} :
         req'[q] = IF q \in OpenRequests /\ req[q].key \in olds
                   THEN [req[q] EXCEPT !.key = key] ELSE req[q]
  BY <1>2 DEF Refiled
<1>5. ASSUME NEW q \in OpenRequests' \ {r}
      PROVE  /\ q \in OpenRequests
             /\ req'[q].id = req[q].id
             /\ req'[q].key = req[q].key \/ req'[q].key = key
             /\ Ending(q) => Ending(q)'
  <2>1. CASE q \in OpenRequests /\ req[q].key \in olds
    <3>1. req[q] \in Request
      BY <2>1 DEF OpenRequests, TypeInv, ReqType
    <3>2. req'[q] = [req[q] EXCEPT !.key = key]
      BY <1>4, <2>1 DEF OpenRequests
    <3> QED
      BY <1>1, <2>1, <3>1, <3>2 DEF Request, Ending
  <2>2. CASE ~(q \in OpenRequests /\ req[q].key \in olds)
    <3>1. req'[q] = req[q]
      BY <1>4, <2>2 DEF OpenRequests
    <3> QED
      BY <1>1, <3>1 DEF OpenRequests, Ending
  <2> QED
    BY <2>1, <2>2
<1> QED
  BY <1>1, <1>3, <1>5 DEF Request, h, key

-----------------------------------------------------------------------------
(* shutdown leaves no session behind *)

(* Registrations end when shutdown starts, and shutdown collects every session *)
(* there is at that moment: none is left open that nobody closes, for any      *)
(* number of clients between authorization and registration.                  *)
THEOREM ControlPlaneStoppedSessionsClose == Spec => []StoppedSessionsClose
<1>1. Init => StoppedSessionsClose
  BY DEF Init, StoppedSessionsClose
<1>2. FlushInv /\ StoppedSessionsClose /\ [Next]_vars => StoppedSessionsClose'
  <2> SUFFICES ASSUME FlushInv, StoppedSessionsClose, [Next]_vars PROVE StoppedSessionsClose'
    OBVIOUS
  <2> USE DEF FlushInv
  <2>1. ASSUME NEW r \in Requests, NEW gone, registerSession(r, gone) PROVE StoppedSessionsClose'
    <3>1. phase' # "stopping"
      BY <2>1, RegisterSessions DEF Admissible
    <3> QED
      BY <3>1 DEF StoppedSessionsClose
  <2>2. CASE beginShutdown
    BY <2>2 DEF beginShutdown, StoppedSessionsClose, OpenRequests
  <2>3. CASE KeepsSessions /\ (phase' = phase \/ phase' # "stopping")
    BY <2>3 DEF KeepsSessions, StoppedSessionsClose, Ending
  <2>4. ASSUME Owner \/ Flush \/ Geo \/ UNCHANGED vars PROVE phase' = phase
    BY <2>4
    DEF Owner, createToken, deleteToken, disconnectDevice, setDeviceBlocked, Flush, timerFires,
        flushClientState, Geo, lookupStarts, lookupFails, lookupAnswers, lookupEnds, cacheExpires, vars
  <2>5. ASSUME Process, ~beginShutdown PROVE phase' = phase \/ phase' # "stopping"
    BY <2>5 DEF Process, start, crash, finishShutdown, tick
  <2>6. ASSUME Session PROVE phase' = phase
    BY <2>6, SessionPhase
  <2> QED
    BY <2>1, <2>2, <2>3, <2>4, <2>5, <2>6, SessionKeeps, OthersKeep DEF Next
<1> QED
  BY <1>1, <1>2, SpecFlushInv, PTL DEF Spec

-----------------------------------------------------------------------------
(* No session of a blocked device is left *)

(* Until its session is registered a request carries the key of its own headers. *)
OwnKey ==
    \A r \in Requests :
        req[r] # NoRequest /\ req[r].step # "open" => req[r].key = <<req[r].id, DeviceOf(req[r].hdr)>>

(* The steps of a request keep the key its unregister captured. *)
LEMMA SessionOwnKey ==
    ASSUME TypeInv, OwnKey, Session
    PROVE  OwnKey'
<1> USE DEF TypeInv, ReqType
<1>1. ASSUME NEW r \in Requests, NEW t, NEW h, authorizeClient(r, t, h) PROVE OwnKey'
  BY <1>1 DEF authorizeClient, OwnKey
<1>2. ASSUME NEW r \in Requests, deviceBlocked(r) PROVE OwnKey'
  <2>1. req[r] \in Request
    BY <1>2 DEF deviceBlocked, At
  <2>2. req'[r] = NoRequest \/ req'[r] = [req[r] EXCEPT !.step = "dialing"]
    BY <1>2, <2>1 DEF deviceBlocked
  <2> QED
    BY <1>2, <2>1, <2>2 DEF deviceBlocked, At, OwnKey, Request
<1>3. ASSUME NEW r \in Requests, dialFails(r) \/ registerRefused(r) \/ unregister(r) PROVE OwnKey'
  BY <1>3 DEF dialFails, registerRefused, unregister, OwnKey
<1>4. ASSUME NEW r \in Requests, peerCloses(r) \/ runCloser(r) PROVE OwnKey'
  <2>1. req[r] \in Request /\ req[r].step = "open" /\ req' = [req EXCEPT ![r].shut = TRUE]
    BY <1>4 DEF peerCloses, runCloser, At, OpenRequests
  <2>2. req'[r].step = "open"
    BY <2>1 DEF Request
  <2> QED
    BY <2>1, <2>2 DEF OwnKey
<1>5. ASSUME NEW r \in Requests, NEW gone, registerSession(r, gone) PROVE OwnKey'
  <2> DEFINE key  == <<req[r].id, DeviceOf(req[r].hdr)>>
             olds == OldKeys(Forget(state, gone), req[r].id, req[r].hdr)
  <2>1. req[r] \in Request
    BY <1>5 DEF registerSession, At
  <2>2. req' = [Refiled(olds, key) EXCEPT ![r] = [req[r] EXCEPT !.step = "open"]]
    BY <1>5 DEF registerSession
  <2> HIDE DEF olds, key
  <2>3. req'[r].step = "open"
    BY <2>1, <2>2 DEF Refiled, Request
  <2>4. ASSUME NEW q \in Requests, q # r, req'[q] # req[q] PROVE req'[q].step = "open"
    <3>1. q \in OpenRequests /\ req'[q] = [req[q] EXCEPT !.key = key]
      BY <2>2, <2>4 DEF Refiled
    <3>2. req[q] \in Request /\ req[q].step = "open"
      BY <3>1 DEF OpenRequests
    <3> QED
      BY <3>1, <3>2 DEF Request
  <2> QED
    BY <2>3, <2>4 DEF OwnKey
<1> QED
  BY <1>1, <1>2, <1>3, <1>4, <1>5 DEF Session

(* So does every step. *)
LEMMA StepOwnKey == TypeInv /\ OwnKey /\ [Next]_vars => OwnKey'
<1> SUFFICES ASSUME TypeInv, OwnKey, [Next]_vars PROVE OwnKey'
  OBVIOUS
<1>1. CASE UNCHANGED req
  BY <1>1 DEF OwnKey
<1>2. CASE Volatile
  BY <1>2 DEF Volatile, OwnKey
<1>3. ASSUME Owner \/ Flush \/ Geo \/ UNCHANGED vars PROVE UNCHANGED req
  BY <1>3
  DEF Owner, createToken, deleteToken, disconnectDevice, setDeviceBlocked, Flush, timerFires,
      flushClientState, Geo, lookupStarts, lookupFails, lookupAnswers, lookupEnds, cacheExpires, vars
<1>4. ASSUME Process PROVE Volatile \/ UNCHANGED req
  BY <1>4 DEF Process, start, crash, beginShutdown, finishShutdown, tick
<1> QED
  BY <1>1, <1>2, <1>3, <1>4, SessionOwnKey DEF Next

(* A registration opens no session of a blocked device. *)
LEMMA RegisterBlocks ==
    ASSUME TypeInv, NEW r \in Requests, NEW gone, registerSession(r, gone)
    PROVE  state'.blocked \subseteq state.blocked
BY RegisterRecords

(* A registration never makes a session of a blocked key. *)
LEMMA RegisterBlocked ==
    ASSUME TypeInv, OwnKey, BlockedSessionsClose, NEW r \in Requests, NEW gone, registerSession(r, gone)
    PROVE  BlockedSessionsClose'
<1> DEFINE key == <<req[r].id, DeviceOf(req[r].hdr)>>
<1>1. state'.blocked \subseteq state.blocked
  BY RegisterBlocks
<1>2. req[r].key = key
  BY NullsAssumption DEF OwnKey, registerSession, At
<1>3. key \notin state.blocked
  <2>1. req[r] \in Request
    BY RegisterSessions
  <2>2. DeviceOf(req[r].hdr) # NoID
    BY <2>1, KeyTypes, SetsAssumption DEF Request
  <2> QED
    BY <2>2 DEF registerSession, Admissible, candidateKeys
<1> HIDE DEF key
<1>4. \A q \in OpenRequests' :
         \/ req'[q].key = key
         \/ q \in OpenRequests /\ req'[q].key = req[q].key /\ (Ending(q) => Ending(q)')
  BY <1>2, RegisterSessions DEF key
<1> QED
  BY <1>1, <1>3, <1>4 DEF BlockedSessionsClose, Ending

(* A block collects the sessions of its key in the same step. *)
LEMMA OwnerBlocked ==
    ASSUME TypeInv, BlockedSessionsClose, Owner
    PROVE  BlockedSessionsClose'
<1>1. UNCHANGED req /\ closing \subseteq closing' /\ OpenRequests' = OpenRequests
  BY DEF Owner, createToken, deleteToken, disconnectDevice, setDeviceBlocked, OpenRequests
<1>2. CASE state'.blocked \subseteq state.blocked
  BY <1>1, <1>2 DEF BlockedSessionsClose
<1>3. ASSUME NEW k \in Keys, NEW block \in BOOLEAN, NEW ok \in BOOLEAN, setDeviceBlocked(k, block, ok)
      PROVE  BlockedSessionsClose'
  <2>1. CASE ok /\ block
    <3>1. state'.blocked = state.blocked \cup {k} /\ closing' = closing \cup deviceClosers(k)
      BY <1>3, <2>1 DEF setDeviceBlocked, Critical, TypeInv, State
    <3> QED
      BY <1>1, <3>1 DEF BlockedSessionsClose, deviceClosers
  <2>2. CASE ~(ok /\ block)
    <3>1. state'.blocked \subseteq state.blocked
      BY <1>3, <2>2 DEF setDeviceBlocked, Critical, rollback, TypeInv, State
    <3> QED
      BY <1>2, <3>1
  <2> QED
    BY <2>1, <2>2
<1>4. ASSUME NEW o \in Offers, NEW ok \in BOOLEAN, createToken(o, ok)
      PROVE  state'.blocked \subseteq state.blocked
  BY <1>4 DEF createToken, Critical, rollback, TypeInv, State
<1>5. ASSUME NEW t, NEW ok \in BOOLEAN, deleteToken(t, ok)
      PROVE  state'.blocked \subseteq state.blocked
  BY <1>5 DEF deleteToken, Critical, rollback, Deleted, TypeInv, State
<1>6. ASSUME NEW k, disconnectDevice(k) PROVE state'.blocked \subseteq state.blocked
  BY <1>6 DEF disconnectDevice
<1> QED
  BY <1>2, <1>3, <1>4, <1>5, <1>6 DEF Owner

(* The steps that are not a registration keep BlockedSessionsClose. *)
LEMMA OthersBlocks ==
    ASSUME FlushInv, Next, ~Owner,
           ~ \E r \in Requests, gone \in SUBSET Known(state) : registerSession(r, gone)
    PROVE  OpenRequests' = {} \/ state'.blocked = state.blocked
<1> USE DEF FlushInv, TypeInv
<1>1. CASE Session
  BY <1>1 DEF Session, authorizeClient, deviceBlocked, dialFails, registerRefused, peerCloses,
              runCloser, unregister, Seen, State
<1>2. CASE Flush
  BY <1>2 DEF Flush, timerFires, flushClientState
<1>3. CASE Process
  <2>1. ASSUME NEW i \in InstanceIDs, NEW ok \in BOOLEAN, start(i, ok) PROVE OpenRequests' = {}
    BY <2>1 DEF start, DownIdle, OpenRequests
  <2>2. CASE crash(disk) \/ crash(platter) \/ \E ok \in BOOLEAN : finishShutdown(ok)
    BY <2>2, VolatileKeeps DEF crash, finishShutdown
  <2>3. CASE beginShutdown \/ tick
    BY <2>3 DEF beginShutdown, tick
  <2> QED
    BY <1>3, <2>1, <2>2, <2>3 DEF Process
<1>4. CASE Geo
  BY <1>4 DEF Geo, lookupStarts, lookupFails, lookupAnswers, lookupEnds, cacheExpires, SetCountry, State
<1> QED
  BY <1>1, <1>2, <1>3, <1>4 DEF Next

(* A session of a blocked device is closed or about to be, whichever of the    *)
(* keys of the device the block names, and however migration re-files it.      *)
THEOREM ControlPlaneBlockedSessionsClose == Spec => []BlockedSessionsClose
<1>1. Init => OwnKey /\ BlockedSessionsClose
  BY DEF Init, OwnKey, BlockedSessionsClose, OpenRequests
<1>2. FlushInv /\ OwnKey /\ BlockedSessionsClose /\ [Next]_vars => BlockedSessionsClose'
  <2> SUFFICES ASSUME FlushInv, OwnKey, BlockedSessionsClose, [Next]_vars
               PROVE  BlockedSessionsClose'
    OBVIOUS
  <2>1. ASSUME NEW r \in Requests, NEW gone, registerSession(r, gone) PROVE BlockedSessionsClose'
    BY <2>1, RegisterBlocked DEF FlushInv
  <2>2. CASE Owner
    BY <2>2, OwnerBlocked DEF FlushInv
  <2>3. CASE UNCHANGED vars
    BY <2>3 DEF vars, BlockedSessionsClose, OpenRequests
  <2>4. CASE /\ Next /\ ~Owner
             /\ ~ \E r \in Requests, gone \in SUBSET Known(state) : registerSession(r, gone)
    <3>1. OpenRequests' = {} \/ state'.blocked = state.blocked
      BY <2>4, OthersBlocks
    <3>2. KeepsSessions
      BY <2>4, SessionKeeps, OthersKeep DEF Next, FlushInv
    <3> QED
      BY <3>1, <3>2 DEF KeepsSessions, BlockedSessionsClose, Ending
  <2> QED
    BY <2>1, <2>2, <2>3, <2>4
<1>3. FlushInv /\ OwnKey /\ [Next]_vars => OwnKey'
  BY StepOwnKey DEF FlushInv
<1> QED
  BY <1>1, <1>2, <1>3, SpecFlushInv, PTL DEF Spec

-----------------------------------------------------------------------------
(* No session of a deleted token is left *)

RequestsIssued == \A r \in Requests : req[r] # NoRequest => Issued(<<req[r].id, req[r].hash>>)

(* Only an authorization makes a request; nothing else changes its token. *)
SamePairs ==
    \A q \in Requests : req'[q] # NoRequest =>
        req[q] # NoRequest /\ req'[q].id = req[q].id /\ req'[q].hash = req[q].hash

Authorized ==
    \E t \in allTokens(state) : \E r \in Requests :
        /\ req'[r].id = t.id /\ req'[r].hash = t.hash
        /\ \A q \in Requests : q # r => req'[q] = req[q]

(* A request gets its identifier and hash together, when it is authorized. *)
LEMMA SessionPairs ==
    ASSUME TypeInv, Session
    PROVE  SamePairs \/ Authorized
<1> USE DEF TypeInv, ReqType
<1>2. ASSUME NEW r \in Requests, NEW t, NEW h, authorizeClient(r, t, h) PROVE Authorized
  <2>1. /\ t \in allTokens(state) /\ req'[r].id = t.id /\ req'[r].hash = t.hash
        /\ \A q \in Requests : q # r => req'[q] = req[q]
    BY <1>2 DEF authorizeClient
  <2> QED
    BY <2>1 DEF Authorized
<1>3. ASSUME NEW r \in Requests, deviceBlocked(r) PROVE SamePairs
  <2>1. req[r] \in Request /\ req[r] # NoRequest
    BY <1>3 DEF deviceBlocked, At
  <2>2. req'[r] = NoRequest \/ req'[r] = [req[r] EXCEPT !.step = "dialing"]
    BY <1>3, <2>1 DEF deviceBlocked
  <2>3. \A q \in Requests : q # r => req'[q] = req[q]
    BY <1>3 DEF deviceBlocked
  <2> QED
    BY <2>1, <2>2, <2>3 DEF Request, SamePairs
<1>4. ASSUME NEW r \in Requests, dialFails(r) \/ registerRefused(r) \/ unregister(r) PROVE SamePairs
  BY <1>4 DEF dialFails, registerRefused, unregister, SamePairs
<1>5. ASSUME NEW r \in Requests, peerCloses(r) \/ runCloser(r) PROVE SamePairs
  <2>1. /\ req[r] \in Request /\ req[r] # NoRequest
        /\ req' = [req EXCEPT ![r].shut = TRUE]
    BY <1>5 DEF peerCloses, runCloser, At, OpenRequests
  <2> QED
    BY <2>1 DEF Request, SamePairs
<1>6. ASSUME NEW r \in Requests, NEW gone, registerSession(r, gone) PROVE SamePairs
  <2> DEFINE key  == <<req[r].id, DeviceOf(req[r].hdr)>>
             olds == OldKeys(Forget(state, gone), req[r].id, req[r].hdr)
  <2>1. req[r] \in Request /\ req[r] # NoRequest
    BY <1>6 DEF registerSession, At
  <2>2. req' = [Refiled(olds, key) EXCEPT ![r] = [req[r] EXCEPT !.step = "open"]]
    BY <1>6 DEF registerSession
  <2> HIDE DEF olds, key
  <2>3. req'[r].id = req[r].id /\ req'[r].hash = req[r].hash
    BY <2>1, <2>2 DEF Refiled, Request
  <2>4. ASSUME NEW q \in Requests, q # r, req'[q] # req[q]
        PROVE  req[q] # NoRequest /\ req'[q].id = req[q].id /\ req'[q].hash = req[q].hash
    <3>1. q \in OpenRequests /\ req'[q] = [req[q] EXCEPT !.key = key]
      BY <2>2, <2>4 DEF Refiled
    <3> QED
      BY <3>1 DEF OpenRequests, Request
  <2> QED
    BY <2>1, <2>3, <2>4 DEF SamePairs
<1> QED
  BY <1>2, <1>3, <1>4, <1>5, <1>6 DEF Session

(* The clients' steps keep the identifier and hash of a request those of an *)
(* issued token.                                                            *)
LEMMA SessionRequestsIssued ==
    ASSUME TypeInv, FilesRight, RequestsIssued, Session
    PROVE  RequestsIssued'
<1>1. CASE SamePairs
  BY <1>1 DEF SamePairs, RequestsIssued, Issued
<1>2. CASE Authorized
  <2>1. \A t \in allTokens(state) : Issued(<<t.id, t.hash>>)
    BY DEF allTokens, Issued, FilesRight, StateRight, TokensRight, AddedIssued
  <2> QED
    BY <1>2, <2>1 DEF Authorized, RequestsIssued, Issued
<1> QED
  BY <1>1, <1>2, SessionPairs

(* Requests carry issued tokens when no secret is used twice. *)
LEMMA SpecRequestsIssued == ASSUME OneIDPerSecret PROVE Spec => []RequestsIssued
<1>1. Init => RequestsIssued
  BY DEF Init, RequestsIssued
<1>2. TypeInv /\ FilesRight /\ RequestsIssued /\ [Next]_vars => RequestsIssued'
  <2> SUFFICES ASSUME TypeInv, FilesRight, RequestsIssued, [Next]_vars PROVE RequestsIssued'
    OBVIOUS
  <2>1. ASSUME UNCHANGED req \/ Volatile PROVE RequestsIssued'
    BY <2>1 DEF Volatile, RequestsIssued
  <2>2. ASSUME Owner \/ Flush \/ Geo \/ UNCHANGED vars PROVE UNCHANGED req
    BY <2>2
    DEF Owner, createToken, deleteToken, disconnectDevice, setDeviceBlocked, Flush, timerFires,
        flushClientState, Geo, lookupStarts, lookupFails, lookupAnswers, lookupEnds, cacheExpires, vars
  <2>3. ASSUME Process PROVE Volatile \/ UNCHANGED req
    BY <2>3 DEF Process, start, crash, beginShutdown, finishShutdown, tick
  <2> QED
    BY <2>1, <2>2, <2>3, SessionRequestsIssued DEF Next
<1>3. Spec => []FilesRight
  BY SpecFilesRight
<1> QED
  BY <1>1, <1>2, <1>3, SpecTypeInv, PTL DEF Spec

-----------------------------------------------------------------------------
(* A created token comes last: it hides none of those that were active. *)
LEMMA CreateKeepsTokens ==
    ASSUME TypeInv, NEW o \in Offers, NEW ok \in BOOLEAN, createToken(o, ok)
    PROVE  TokenIDsOf(state) \subseteq TokenIDsOf(state')
<1>1. PICK n \in 1..MaxStamp :
         /\ NextStamp(state, n)
         /\ Critical([state EXCEPT !.added = @ \cup
                    {[id |-> o.id, name |-> o.name, hash |-> o.hash, at |-> n]}], ok)
  BY DEF createToken
<1> DEFINE u   == [id |-> o.id, name |-> o.name, hash |-> o.hash, at |-> n]
           new == [state EXCEPT !.added = @ \cup {u}]
<1>2. CASE ~ok
  BY <1>1, <1>2 DEF Critical, rollback
<1>3. CASE ok
  <2>1. state' = new
    BY <1>1, <1>3 DEF Critical
  <2>2. new.added = state.added \cup {u} /\ new.revoked = state.revoked
    BY DEF TypeInv, State
  <2> HIDE DEF new
  <2>3. ASSUME NEW t \in allTokens(state) PROVE t \in allTokens(new)
    <3>1. t.at \in Nat /\ t.at <= n
      <4>1. CASE t \in BaseTokens
        BY <4>1, TokensAssumption, BoundsAssumption
      <4>2. CASE t \in state.added
        BY <1>1, <4>2, BoundsAssumption DEF NextStamp, TypeInv, State, Token
      <4> QED
        BY <4>1, <4>2 DEF allTokens
    <3> QED
      BY <2>2, <3>1 DEF allTokens
  <2> QED
    BY <2>1, <2>3 DEF TokenIDsOf
<1> QED
  BY <1>2, <1>3

(* With one identifier per secret a deletion ends the tokens of its own        *)
(* identifier only.                                                            *)
LEMMA DeleteKeepsOthers ==
    ASSUME TypeInv, FilesRight, OneIDPerSecret, NEW t \in allTokens(state)
    PROVE  TokenIDsOf(state) \ {t.id} \subseteq TokenIDsOf(Deleted(state, t))
<1> DEFINE new == Deleted(state, t)
<1>1. /\ new.added = {u \in state.added : u.hash # t.hash}
      /\ new.revoked \subseteq state.revoked \cup {t.hash}
  BY DEF Deleted, TypeInv, State
<1> HIDE DEF new
<1>2. ASSUME NEW u \in allTokens(state), u.id # t.id PROVE u \in allTokens(new)
  <2>1. Issued(<<u.id, u.hash>>) /\ Issued(<<t.id, t.hash>>)
    BY DEF allTokens, FilesRight, StateRight, TokensRight, AddedIssued, Issued
  <2>2. u.hash # t.hash
    BY <1>2, <2>1 DEF Issued, OneIDPerSecret
  <2> QED
    BY <1>1, <2>2 DEF allTokens
<1> QED
  BY <1>2 DEF TokenIDsOf, new

RevokedInv == FlushInv /\ FilesRight /\ RequestsIssued /\ RevokedSessionsClose

(* The owner's operations end the sessions of the token they revoke. *)
LEMMA OwnerRevoked ==
    ASSUME RevokedInv, OneIDPerSecret, Owner
    PROVE  RevokedSessionsClose'
<1> USE DEF RevokedInv, FlushInv
<1>1. UNCHANGED req /\ closing \subseteq closing' /\ OpenRequests' = OpenRequests
  BY DEF Owner, createToken, deleteToken, disconnectDevice, setDeviceBlocked, OpenRequests
<1>2. CASE TokenIDsOf(state) \subseteq TokenIDsOf(state')
  BY <1>1, <1>2 DEF RevokedSessionsClose
<1>3. ASSUME NEW o \in Offers, NEW ok \in BOOLEAN, createToken(o, ok) PROVE RevokedSessionsClose'
  BY <1>2, <1>3, CreateKeepsTokens
<1>4. ASSUME NEW t, NEW ok \in BOOLEAN, deleteToken(t, ok) PROVE RevokedSessionsClose'
  <2>1. CASE ~ok
    BY <1>2, <1>4, <2>1 DEF deleteToken, Critical, rollback
  <2>2. CASE ok
    <3>1. state' = Deleted(state, t) /\ closing' = closing \cup SessionsOfToken(t.id)
      BY <1>4, <2>2 DEF deleteToken, Critical
    <3>2. TokenIDsOf(state) \ {t.id} \subseteq TokenIDsOf(state')
      BY <1>4, <3>1, DeleteKeepsOthers DEF deleteToken
    <3> QED
      BY <1>1, <3>1, <3>2 DEF RevokedSessionsClose, SessionsOfToken
  <2> QED
    BY <2>1, <2>2
<1>5. ASSUME NEW k \in Keys, NEW block \in BOOLEAN, NEW ok \in BOOLEAN, setDeviceBlocked(k, block, ok)
      PROVE  RevokedSessionsClose'
  <2>1. SameOwnerPart(state', state)
    BY <1>5 DEF setDeviceBlocked, Critical, rollback, SameOwnerPart, TypeInv, State
  <2> QED
    BY <1>2, <2>1, SameTokens
<1>6. ASSUME NEW k, disconnectDevice(k) PROVE RevokedSessionsClose'
  BY <1>2, <1>6 DEF disconnectDevice
<1> QED
  BY <1>3, <1>4, <1>5, <1>6 DEF Owner

(* The recheck of registerSession goes by hash: it finds the token itself. *)
LEMMA RegisterTokenActive ==
    ASSUME FilesRight, RequestsIssued, OneIDPerSecret,
           NEW r \in Requests, NEW gone, registerSession(r, gone)
    PROVE  req[r].id \in TokenIDsOf(state)
<1>1. PICK t \in allTokens(state) : t.hash = req[r].hash
  BY DEF registerSession, Admissible, clientTokenActive
<1>2. Issued(<<t.id, t.hash>>)
  BY DEF allTokens, FilesRight, StateRight, TokensRight, AddedIssued, Issued
<1>3. Issued(<<req[r].id, req[r].hash>>)
  BY DEF registerSession, At, RequestsIssued
<1>4. t.id = req[r].id
  BY <1>1, <1>2, <1>3 DEF Issued, OneIDPerSecret
<1> QED
  BY <1>4 DEF TokenIDsOf

(* The recheck of registerSession: the token of the request is still there. *)
LEMMA RegisterRevoked ==
    ASSUME RevokedInv, OneIDPerSecret, NEW r \in Requests, NEW gone, registerSession(r, gone)
    PROVE  RevokedSessionsClose'
<1> USE DEF RevokedInv, FlushInv
<1>1. TokenIDsOf(state') = TokenIDsOf(state)
  BY RegisterKeepsOwnerPart, SameTokens
<1>2. req[r].id \in TokenIDsOf(state)
  BY RegisterTokenActive
<1>3. \A q \in OpenRequests' :
         \/ req'[q].id = req[r].id
         \/ q \in OpenRequests /\ req'[q].id = req[q].id /\ (Ending(q) => Ending(q)')
  BY RegisterSessions
<1> QED
  BY <1>1, <1>2, <1>3 DEF RevokedSessionsClose, Ending

(* A session of a deleted token is closed or about to be, for any interleaving *)
(* of authorization, dial, registration and deletion, provided the owner uses  *)
(* a secret for one token identifier only.                                     *)
THEOREM ControlPlaneRevokedSessionsClose ==
    ASSUME OneIDPerSecret
    PROVE  Spec => []RevokedSessionsClose
<1>1. Init => RevokedSessionsClose
  BY DEF Init, RevokedSessionsClose, OpenRequests
<1>2. FlushInv /\ FilesRight /\ RequestsIssued /\ RevokedSessionsClose /\ [Next]_vars => RevokedSessionsClose'
  <2> SUFFICES ASSUME FlushInv, FilesRight, RequestsIssued, RevokedSessionsClose, [Next]_vars
               PROVE  RevokedSessionsClose'
    OBVIOUS
  <2>1. ASSUME NEW r \in Requests, NEW gone, registerSession(r, gone) PROVE RevokedSessionsClose'
    BY <2>1, RegisterRevoked DEF RevokedInv
  <2>2. CASE Owner
    BY <2>2, OwnerRevoked DEF RevokedInv
  <2>3. CASE UNCHANGED vars
    BY <2>3 DEF vars, RevokedSessionsClose, OpenRequests
  <2>4. ASSUME KeepsSessions, SameOwnerPart(state', state) PROVE RevokedSessionsClose'
    BY <2>4, SameTokens DEF KeepsSessions, RevokedSessionsClose, Ending
  <2>5. CASE Process
    <3>1. OpenRequests' = {} \/ state' = state
      <4>1. ASSUME NEW i \in InstanceIDs, NEW ok \in BOOLEAN, start(i, ok) PROVE OpenRequests' = {}
        BY <4>1 DEF start, FlushInv, DownIdle, OpenRequests
      <4>2. CASE crash(disk) \/ crash(platter) \/ \E ok \in BOOLEAN : finishShutdown(ok)
        BY <4>2, VolatileKeeps DEF crash, finishShutdown
      <4>3. CASE beginShutdown \/ tick
        BY <4>3 DEF beginShutdown, tick
      <4> QED
        BY <2>5, <4>1, <4>2, <4>3 DEF Process
    <3>2. KeepsSessions
      BY <2>5, OthersKeep DEF FlushInv
    <3> QED
      BY <3>1, <3>2 DEF KeepsSessions, RevokedSessionsClose, Ending
  <2>6. CASE Flush \/ Geo
    BY <2>4, <2>6, OthersKeep, ClientsKeepAdded DEF FlushInv
  <2>7. CASE Session /\ ~ \E r \in Requests, gone \in SUBSET Known(state) : registerSession(r, gone)
    BY <2>4, <2>7, SessionKeeps, ClientsKeepAdded DEF FlushInv
  <2> QED
    BY <2>1, <2>2, <2>3, <2>5, <2>6, <2>7 DEF Next
<1>3. Spec => []FilesRight
  BY SpecFilesRight
<1>4. Spec => []RequestsIssued
  BY SpecRequestsIssued
<1> QED
  BY <1>1, <1>2, <1>3, <1>4, SpecFlushInv, PTL DEF Spec

-----------------------------------------------------------------------------
(* The device of every live session is on record *)

(* pruneClientsLocked spares the devices with a session: there are fewer of    *)
(* them than it leaves on record.                                              *)
LEMMA PruneSparesSessions ==
    ASSUME TypeInv, DevicesWithin(state), NEW gone \in pruneClients
    PROVE  gone \cap ActiveKeys = {}
<1> SUFFICES ASSUME NEW k \in gone, k \in ActiveKeys PROVE FALSE
  OBVIOUS
<1> DEFINE rest == Known(state) \ gone
<1>1. /\ gone \subseteq Known(state) /\ Cardinality(rest) = MaxClients - 1
  BY PruneMakesRoom DEF DevicesWithin
<1>2. \A l \in rest : ~PrunedBefore(l, k)
  <2>1. ~(Cardinality(Known(state)) < MaxClients)
    BY DEF pruneClients
  <2> QED
    BY <2>1 DEF pruneClients
<1>3. rest \subseteq ActiveKeys
  BY <1>2 DEF PrunedBefore
<1>4. IsFiniteSet(rest) /\ k \notin rest
  BY <1>1, KnownFinite, FS_Subset
<1> HIDE DEF rest
<1>5. Cardinality(rest \cup {k}) = MaxClients
  <2>1. Cardinality(rest \cup {k}) = Cardinality(rest) + 1
    BY <1>4, FS_AddElement
  <2> QED
    BY <1>1, <2>1, BoundsAssumption
<1>6. IsFiniteSet(ActiveKeys) /\ Cardinality(ActiveKeys) <= Cardinality(OpenRequests)
  <2> DEFINE f == [r \in OpenRequests |-> req[r].key]
  <2>1. f \in Surjection(OpenRequests, ActiveKeys)
    BY DEF Surjection, ActiveKeys
  <2>2. IsFiniteSet(OpenRequests)
    BY SetsAssumption, FS_Subset DEF OpenRequests
  <2> HIDE DEF f
  <2> QED
    BY <2>1, <2>2, FS_Surjection
<1>7. Cardinality(OpenRequests) <= Cardinality(Requests) /\ IsFiniteSet(OpenRequests)
  BY SetsAssumption, FS_Subset DEF OpenRequests
<1>8. Cardinality(rest \cup {k}) <= Cardinality(ActiveKeys)
  <2>1. rest \cup {k} \in SUBSET ActiveKeys
    BY <1>3
  <2> QED
    BY <1>6, <2>1, FS_Subset
<1>9. /\ Cardinality(ActiveKeys) \in Nat /\ Cardinality(OpenRequests) \in Nat
      /\ Cardinality(Requests) \in Nat
  BY <1>6, <1>7, SetsAssumption, FS_CardinalityType
<1> QED
  BY <1>5, <1>6, <1>7, <1>8, <1>9, TrackingAssumption, BoundsAssumption

(* A session is filed under a key of its own token. *)
KeysOfTokens == \A r \in OpenRequests : req[r].key[1] = req[r].id

(* The identifiers that no creation hands out: those of tombstones, of active  *)
(* tokens and of configured ones.  Every request carries one of them, so a     *)
(* token that is created has no session yet.                                   *)
TokenKnown(st, id) == id \in st.deleted \cup TokenIDsOf(st) \cup {b.id : b \in BaseTokens}

RequestsKnown == \A r \in Requests : req[r] # NoRequest => TokenKnown(state, req[r].id)

(* An identifier that createToken gives out was never in use. *)
LEMMA CreateNotKnown ==
    ASSUME StateSound(state), NEW o \in Offers, IDAvailable(o), ~KeyTaken(o)
    PROVE  ~TokenKnown(state, o.id)
<1>1. o.id \in TokIDs
  BY TokensAssumption
<1>2. o.id \notin state.deleted
  BY DEF IDAvailable, KeyTaken
<1>3. o.id \notin TokenIDsOf(state)
  BY DEF IDAvailable, KeyTaken, TokenIDsOf, allTokens
<1>4. ASSUME NEW b \in BaseTokens, b.id = o.id PROVE FALSE
  <2>1. state \in State /\ b.at = 0 /\ b \notin allTokens(state)
    BY <1>3, <1>4, TokensAssumption DEF StateSound, TokenIDsOf
  <2>2. \A u \in BaseTokens \cup state.added : u.at \in Nat
    BY <2>1, TokenStamps
  <2>3. b.hash \in state.revoked
    BY <2>1, <2>2 DEF allTokens
  <2> QED
    BY <1>1, <1>2, <1>4, <2>3 DEF StateSound
<1> QED
  BY <1>2, <1>3, <1>4 DEF TokenKnown

(* The owner's operations forget no identifier. *)
LEMMA OwnerKnown ==
    ASSUME TypeInv, StateSound(state), Owner, NEW id, TokenKnown(state, id)
    PROVE  TokenKnown(state', id)
<1>1. ASSUME SameOwnerPart(state', state) PROVE TokenKnown(state', id)
  BY <1>1, SameTokens DEF SameOwnerPart, TokenKnown
<1>2. ASSUME NEW o \in Offers, NEW ok \in BOOLEAN, createToken(o, ok) PROVE TokenKnown(state', id)
  <2>1. state'.deleted = state.deleted
    BY <1>2 DEF createToken, Critical, rollback, TypeInv, State
  <2> QED
    BY <1>2, <2>1, CreateKeepsTokens DEF TokenKnown
<1>3. ASSUME NEW t, NEW ok \in BOOLEAN, deleteToken(t, ok) PROVE TokenKnown(state', id)
  <2>1. t \in allTokens(state)
    BY <1>3 DEF deleteToken
  <2>2. CASE ~ok
    BY <1>3, <2>2 DEF deleteToken, Critical, rollback
  <2>3. CASE ok
    <3>1. state' = Deleted(state, t)
      BY <1>3, <2>3 DEF deleteToken, Critical
    <3>2. /\ state.deleted \subseteq state'.deleted
          /\ t.id \in TokIDs => t.id \in state'.deleted
      BY <3>1 DEF Deleted, NeedsTombstone, TypeInv, State
    <3>3. t.id \in TokIDs \/ t \in BaseTokens
      BY <2>1 DEF allTokens, StateSound
    <3>4. TokenIDsOf(state) \subseteq TokenIDsOf(state') \cup {t.id}
      BY <2>1, <3>1, DeleteKeepsActive DEF TokenIDsOf
    <3> QED
      BY <3>2, <3>3, <3>4 DEF TokenKnown
  <2> QED
    BY <2>2, <2>3
<1>4. ASSUME NEW k \in Keys, NEW block \in BOOLEAN, NEW ok \in BOOLEAN, setDeviceBlocked(k, block, ok)
      PROVE  TokenKnown(state', id)
  <2>1. SameOwnerPart(state', state)
    BY <1>4 DEF setDeviceBlocked, Critical, rollback, SameOwnerPart, TypeInv, State
  <2> QED
    BY <1>1, <2>1
<1>5. ASSUME NEW k, disconnectDevice(k) PROVE TokenKnown(state', id)
  BY <1>5 DEF disconnectDevice
<1> QED
  BY <1>2, <1>3, <1>4, <1>5 DEF Owner

(* Every step keeps the identifiers of requests known. *)
LEMMA StepRequestsKnown ==
    ASSUME FlushInv, FilesSound, RequestsKnown, [Next]_vars
    PROVE  RequestsKnown'
<1> USE DEF FlushInv
<1>1. CASE Session
  <2>1. SameOwnerPart(state', state) /\ TokenIDsOf(state') = TokenIDsOf(state)
    BY <1>1, ClientsKeepAdded, SameTokens
  <2>2. \A id : TokenKnown(state', id) <=> TokenKnown(state, id)
    BY <2>1 DEF SameOwnerPart, TokenKnown
  <2>3. \A t \in allTokens(state) : TokenKnown(state, t.id)
    BY DEF TokenKnown, TokenIDsOf
  <2>4. CASE SamePairs
    BY <2>2, <2>4 DEF SamePairs, RequestsKnown
  <2>5. CASE Authorized
    BY <2>2, <2>3, <2>5 DEF Authorized, RequestsKnown
  <2> QED
    BY <1>1, <2>4, <2>5, SessionPairs
<1>2. ASSUME UNCHANGED req, \A id : TokenKnown(state, id) => TokenKnown(state', id)
      PROVE  RequestsKnown'
  BY <1>2 DEF RequestsKnown
<1>3. CASE Owner
  <2>1. UNCHANGED req
    BY <1>3 DEF Owner, createToken, deleteToken, disconnectDevice, setDeviceBlocked
  <2> QED
    BY <1>2, <1>3, <2>1, OwnerKnown DEF FilesSound
<1>4. CASE Flush \/ Geo
  <2>1. SameOwnerPart(state', state) /\ UNCHANGED req
    BY <1>4, ClientsKeepAdded
    DEF Flush, timerFires, flushClientState, Geo, lookupStarts, lookupFails, lookupAnswers,
        lookupEnds, cacheExpires
  <2>2. \A id : TokenKnown(state, id) => TokenKnown(state', id)
    BY <2>1, SameTokens DEF SameOwnerPart, TokenKnown
  <2> QED
    BY <1>2, <2>1, <2>2
<1>5. CASE Process
  <2>1. CASE Volatile
    BY <2>1 DEF Volatile, RequestsKnown
  <2>2. CASE UNCHANGED <<req, state>>
    BY <1>2, <2>2
  <2>3. ASSUME NEW i \in InstanceIDs, NEW ok \in BOOLEAN, start(i, ok) PROVE RequestsKnown'
    BY <2>3 DEF start, DownIdle, RequestsKnown
  <2> QED
    BY <1>5, <2>1, <2>2, <2>3 DEF Process, crash, beginShutdown, finishShutdown, tick
<1>6. CASE UNCHANGED vars
  BY <1>2, <1>6 DEF vars
<1> QED
  BY <1>1, <1>3, <1>4, <1>5, <1>6 DEF Next

(* Requests always carry known identifiers. *)
LEMMA SpecRequestsKnown == Spec => []RequestsKnown
<1>1. Init => RequestsKnown
  BY DEF Init, RequestsKnown
<1>2. FlushInv /\ FilesSound /\ RequestsKnown /\ [Next]_vars => RequestsKnown'
  BY StepRequestsKnown
<1> QED
  BY <1>1, <1>2, SpecFlushInv, SpecFilesSound, PTL DEF Spec

DeviceInv == KeysOfTokens /\ SessionsHaveDevices

(* Steps that keep tokens, devices on record and sessions. *)
LEMMA SameDeviceInv ==
    ASSUME DeviceInv, KeepsSessions, SameOwnerPart(state', state), Known(state) \subseteq Known(state'),
           \A r \in OpenRequests : req[r].key \in Keys
    PROVE  DeviceInv'
<1>1. TokenIDsOf(state') = TokenIDsOf(state)
  BY SameTokens
<1>2. \A k \in Keys : state.clients[k] # NoClient => state'.clients[k] # NoClient
  BY DEF Known
<1> QED
  BY <1>1, <1>2 DEF DeviceInv, KeepsSessions, KeysOfTokens, SessionsHaveDevices

(* A registration gives its session a record, and prunes nobody else's. *)
LEMMA RegisterDevices ==
    ASSUME TypeInv, OwnKey, FilesSound, DeviceInv,
           NEW r \in Requests, NEW gone, registerSession(r, gone)
    PROVE  DeviceInv'
<1> DEFINE key  == <<req[r].id, DeviceOf(req[r].hdr)>>
           olds == OldKeys(Forget(state, gone), req[r].id, req[r].hdr)
<1>1. /\ gone \in pruneClients /\ req[r] \in Request /\ key \in Keys
      /\ state'.clients[key] # NoClient
      /\ \A k \in Keys : k # key /\ k \notin olds =>
            state'.clients[k] = IF k \in gone THEN NoClient ELSE state.clients[k]
  BY RegisterRecords
<1>2. gone \cap ActiveKeys = {}
  BY <1>1, PruneSparesSessions DEF FilesSound, StateSound
<1>3. SameOwnerPart(state', state) /\ TokenIDsOf(state') = TokenIDsOf(state)
  BY RegisterKeepsOwnerPart, SameTokens
<1>5. \A k \in olds : k[1] = req[r].id
  BY DEF OldKeys
<1>6. key[1] = req[r].id
  OBVIOUS
<1>7. req' = [Refiled(olds, key) EXCEPT ![r] = [req[r] EXCEPT !.step = "open"]]
  BY DEF registerSession
<1>8. req[r].key = key
  BY NullsAssumption DEF OwnKey, registerSession, At
<1> HIDE DEF key, olds
<1>9. req'[r].id = req[r].id /\ req'[r].key = key
  BY <1>1, <1>7, <1>8 DEF Refiled, Request
<1>10. ASSUME NEW q \in OpenRequests', q # r
       PROVE  /\ q \in OpenRequests /\ req'[q].id = req[q].id
              /\ \/ req'[q].key = key /\ req[q].key \in olds
                 \/ req'[q].key = req[q].key /\ req[q].key \notin olds
  <2>1. q \in Requests /\ req'[q] # NoRequest /\ req'[q].step = "open"
    BY <1>10 DEF OpenRequests
  <2>2. CASE q \in OpenRequests /\ req[q].key \in olds
    <3>1. req[q] \in Request
      BY <2>2 DEF OpenRequests, TypeInv, ReqType
    <3>2. req'[q] = [req[q] EXCEPT !.key = key]
      BY <1>7, <1>10, <2>1, <2>2 DEF Refiled
    <3> QED
      BY <2>2, <3>1, <3>2 DEF Request
  <2>3. CASE ~(q \in OpenRequests /\ req[q].key \in olds)
    <3>1. req'[q] = req[q]
      BY <1>7, <1>10, <2>1, <2>3 DEF Refiled
    <3> QED
      BY <2>1, <2>3, <3>1 DEF OpenRequests
  <2> QED
    BY <2>2, <2>3
<1>11. \A q \in OpenRequests : req[q].key \in Keys /\ req[q].key \notin gone
  BY <1>2 DEF OpenRequests, ActiveKeys, TypeInv, ReqType, Request
<1>13. KeysOfTokens'
  BY <1>5, <1>6, <1>9, <1>10 DEF DeviceInv, KeysOfTokens
<1>15. SessionsHaveDevices'
  BY <1>1, <1>3, <1>9, <1>10, <1>11 DEF DeviceInv, SessionsHaveDevices
<1> QED
  BY <1>13, <1>15 DEF DeviceInv

(* The token that a deletion takes away is the only active one of its          *)
(* identifier, and of the devices only its own are forgotten.                  *)
LEMMA DeleteDevices ==
    ASSUME TypeInv, FilesSound, DeviceInv, NEW t, NEW ok \in BOOLEAN, deleteToken(t, ok)
    PROVE  DeviceInv'
<1>1. UNCHANGED req /\ OpenRequests' = OpenRequests
  BY DEF deleteToken, OpenRequests
<1>2. CASE ~ok
  BY <1>1, <1>2 DEF deleteToken, Critical, rollback, DeviceInv, KeysOfTokens, SessionsHaveDevices
<1>3. CASE ok
  <2>1. state' = Deleted(state, t) /\ t \in allTokens(state)
    BY <1>3 DEF deleteToken, Critical
  <2>2. state \in State /\ StateSound(state)
    BY DEF FilesSound, StateSound
  <2>3. /\ state'.added = {u \in state.added : u.hash # t.hash}
        /\ state'.revoked = IF NeedsRevocation(t) THEN state.revoked \cup {t.hash} ELSE state.revoked
        /\ \A k \in Keys : k[1] # t.id => state'.clients[k] = state.clients[k]
    BY <2>1, <2>2 DEF Deleted, State
  <2>4. ASSUME NEW u \in allTokens(state') PROVE u \in allTokens(state) /\ u.id # t.id
    <3>1. t.hash \notin state.revoked
      BY <2>1 DEF allTokens
    <3>2. u.hash # t.hash /\ u \in BaseTokens \cup state.added /\ u.hash \notin state.revoked
      BY <2>3, <3>1 DEF allTokens, NeedsRevocation
    <3>3. u \in allTokens(state)
      BY <2>3, <3>2 DEF allTokens
    <3> QED
      BY <2>1, <2>2, <3>2, <3>3 DEF StateSound
  <2>5. TokenIDsOf(state') \subseteq TokenIDsOf(state) \ {t.id}
    BY <2>4 DEF TokenIDsOf
  <2>6. \A r \in OpenRequests : req[r].key \in Keys
    BY DEF OpenRequests, TypeInv, ReqType, Request
  <2> QED
    BY <1>1, <2>3, <2>5, <2>6 DEF DeviceInv, KeysOfTokens, SessionsHaveDevices
<1> QED
  BY <1>2, <1>3

(* A token that is created has no session yet, since its identifier is new. *)
LEMMA CreateDevices ==
    ASSUME TypeInv, FilesSound, RequestsKnown, DeviceInv,
           NEW o \in Offers, NEW ok \in BOOLEAN, createToken(o, ok)
    PROVE  DeviceInv'
<1>1. UNCHANGED req /\ OpenRequests' = OpenRequests
  BY DEF createToken, OpenRequests
<1>2. PICK n \in 1..MaxStamp :
         Critical([state EXCEPT !.added = @ \cup
                    {[id |-> o.id, name |-> o.name, hash |-> o.hash, at |-> n]}], ok)
  BY DEF createToken
<1> DEFINE u == [id |-> o.id, name |-> o.name, hash |-> o.hash, at |-> n]
<1>3. CASE ~ok
  BY <1>1, <1>2, <1>3 DEF Critical, rollback, DeviceInv, KeysOfTokens, SessionsHaveDevices
<1>4. CASE ok
  <2>1. state \in State /\ StateSound(state)
    BY DEF FilesSound, StateSound
  <2>2. state' = [state EXCEPT !.added = @ \cup {u}]
    BY <1>2, <1>4 DEF Critical
  <2>3. u.id = o.id
    OBVIOUS
  <2> HIDE DEF u
  <2>4. /\ state'.added = state.added \cup {u} /\ state'.revoked = state.revoked
        /\ state'.clients = state.clients
    BY <2>1, <2>2 DEF State
  <2>5. \A r \in OpenRequests : req[r].id # u.id
    <3>1. ~TokenKnown(state, u.id)
      BY <2>1, <2>3, CreateNotKnown DEF createToken
    <3> QED
      BY <3>1 DEF RequestsKnown, OpenRequests
  <2>6. TokenIDsOf(state') \subseteq TokenIDsOf(state) \cup {u.id}
    BY <2>4 DEF TokenIDsOf, allTokens
  <2> QED
    BY <1>1, <2>4, <2>5, <2>6 DEF DeviceInv, KeysOfTokens, SessionsHaveDevices
<1> QED
  BY <1>3, <1>4

(* Every step keeps DeviceInv. *)
LEMMA StepDevices ==
    ASSUME FlushInv, OwnKey, FilesSound, RequestsKnown, DeviceInv, [Next]_vars
    PROVE  DeviceInv'
<1> USE DEF FlushInv
<1>1. \A r \in OpenRequests : req[r].key \in Keys
  BY DEF OpenRequests, TypeInv, ReqType, Request
<1>2. ASSUME NEW r \in Requests, NEW gone, registerSession(r, gone) PROVE DeviceInv'
  BY <1>2, RegisterDevices
<1>3. ASSUME KeepsSessions, SameOwnerPart(state', state), SameDevices PROVE DeviceInv'
  BY <1>1, <1>3, SameDeviceInv DEF SameDevices
<1>4. CASE Flush \/ Geo \/
           (Session /\ ~ \E r \in Requests, gone \in SUBSET Known(state) : registerSession(r, gone))
  BY <1>3, <1>4, SessionKeeps, OthersKeep, ClientsKeepAdded, OthersSameDevices
<1>5. ASSUME UNCHANGED <<req, state>> PROVE DeviceInv'
  BY <1>5 DEF DeviceInv, KeysOfTokens, SessionsHaveDevices, OpenRequests
<1>6. ASSUME NEW k \in Keys, NEW block \in BOOLEAN, NEW ok \in BOOLEAN, setDeviceBlocked(k, block, ok)
      PROVE  DeviceInv'
  <2>1. SameOwnerPart(state', state) /\ Known(state) \subseteq Known(state')
    BY <1>6 DEF setDeviceBlocked, Critical, rollback, SameOwnerPart, Known, TypeInv, State
  <2>2. KeepsSessions
    BY <1>6, OthersKeep DEF Owner
  <2> QED
    BY <1>1, <2>1, <2>2, SameDeviceInv
<1>7. CASE Owner
  <2>1. ASSUME NEW k, disconnectDevice(k) PROVE DeviceInv'
    BY <1>5, <2>1 DEF disconnectDevice
  <2> QED
    BY <1>6, <1>7, <2>1, CreateDevices, DeleteDevices DEF Owner
<1>8. CASE Process
  <2>1. ASSUME OpenRequests' = {} PROVE DeviceInv'
    BY <2>1 DEF DeviceInv, KeysOfTokens, SessionsHaveDevices
  <2>2. ASSUME NEW i \in InstanceIDs, NEW ok \in BOOLEAN, start(i, ok) PROVE OpenRequests' = {}
    BY <2>2 DEF start, DownIdle, OpenRequests
  <2>3. CASE crash(disk) \/ crash(platter) \/ \E ok \in BOOLEAN : finishShutdown(ok)
    BY <2>1, <2>3, VolatileKeeps DEF crash, finishShutdown
  <2>4. CASE beginShutdown \/ tick
    BY <1>5, <2>4 DEF beginShutdown, tick
  <2> QED
    BY <1>8, <2>1, <2>2, <2>3, <2>4 DEF Process
<1>9. CASE UNCHANGED vars
  BY <1>5, <1>9 DEF vars
<1> QED
  BY <1>2, <1>4, <1>7, <1>8, <1>9 DEF Next

(* The owner can name the device of every live session: no pruning, migration  *)
(* or deletion leaves an accepted session without its record, for any number   *)
(* of devices and sessions below the limits, and whichever secrets the owner   *)
(* hands out again.                                                            *)
THEOREM ControlPlaneSessionsHaveDevices == Spec => []SessionsHaveDevices
<1>1. Init => OwnKey /\ DeviceInv
  BY DEF Init, OwnKey, DeviceInv, KeysOfTokens, SessionsHaveDevices, OpenRequests
<1>2. FlushInv /\ OwnKey /\ [Next]_vars => OwnKey'
  BY StepOwnKey DEF FlushInv
<1>3. FlushInv /\ OwnKey /\ FilesSound /\ RequestsKnown /\ DeviceInv /\ [Next]_vars => DeviceInv'
  BY StepDevices
<1>4. DeviceInv => SessionsHaveDevices
  BY DEF DeviceInv
<1> QED
  BY <1>1, <1>2, <1>3, <1>4, SpecFlushInv, SpecFilesSound, SpecRequestsKnown, PTL DEF Spec

-----------------------------------------------------------------------------
(* Blocks and lookups *)

(* The body of BlocksOutliveMigration. *)
BlocksStay ==
    \A k \in state.blocked : phase' # "down" /\ k \notin state'.blocked =>
        disk' = state' \/ Cardinality(Known(state)) >= MaxClients

(* Every step keeps the blocks, except at the limit of devices. *)
LEMMA StepBlocksStay ==
    ASSUME FlushInv, [Next]_vars PROVE BlocksStay
<1> USE DEF FlushInv
<1>1. CASE UNCHANGED state
  BY <1>1 DEF BlocksStay
<1>2. CASE Owner
  <2>1. CASE disk' = state'
    BY <2>1 DEF BlocksStay
  <2>2. UNCHANGED state \/ disk' = state'
    BY <1>2 DEF Owner, createToken, deleteToken, disconnectDevice, setDeviceBlocked, Critical, rollback,
                persistCriticalLocked, persistLocked
  <2> QED
    BY <1>1, <2>1, <2>2
<1>3. ASSUME NEW r \in Requests, NEW gone, registerSession(r, gone) PROVE BlocksStay
  <2>1. state'.blocked = state.blocked \ gone /\ gone \in pruneClients
    BY <1>3, RegisterRecords
  <2>2. gone # {} => ~(Cardinality(Known(state)) < MaxClients)
    BY <2>1 DEF pruneClients
  <2> QED
    BY <2>1, <2>2, KnownFinite, BoundsAssumption DEF BlocksStay
<1>4. CASE Flush \/ Geo \/
           (Session /\ ~ \E r \in Requests, gone \in SUBSET Known(state) : registerSession(r, gone))
  BY <1>4, OthersSameDevices DEF SameDevices, BlocksStay
<1>5. CASE Process
  <2>1. ASSUME NEW i \in InstanceIDs, NEW ok \in BOOLEAN, start(i, ok)
        PROVE  phase' = "down" \/ disk' = state'
    BY <2>1 DEF start, persistLocked
  <2>2. CASE crash(disk) \/ crash(platter) \/ \E ok \in BOOLEAN : finishShutdown(ok)
    BY <2>2 DEF crash, finishShutdown, BlocksStay
  <2>3. CASE beginShutdown \/ tick
    BY <1>1, <2>3 DEF beginShutdown, tick
  <2> QED
    BY <1>5, <2>1, <2>2, <2>3 DEF Process, BlocksStay
<1> QED
  BY <1>1, <1>2, <1>3, <1>4, <1>5 DEF Next, vars

(* No change of identity takes a block away: it ends by a decision of the      *)
(* owner, which is written in the same step, or with the record of the device  *)
(* at the limit, for any number of devices.                                    *)
THEOREM ControlPlaneBlocksOutliveMigration == Spec => BlocksOutliveMigration
<1>1. FlushInv /\ [Next]_vars => [BlocksStay]_vars
  BY StepBlocksStay
<1>2. Spec => [][BlocksStay]_vars
  BY <1>1, SpecFlushInv, PTL DEF Spec
<1> QED
  BY <1>2 DEF BlocksOutliveMigration, BlocksStay

(* Lookups and their answers keep the busy slots those of lookups under way. *)
LEMMA GeoBusy ==
    ASSUME TypeInv, BusyMatchesLookups, Geo PROVE BusyMatchesLookups'
<1>1. ASSUME NEW l \in lookups, lookups' = (lookups \ {l}) \cup {[l EXCEPT !.step = "done"]}
                              \/ lookups' = (lookups \ {l}) \cup {[l EXCEPT !.step = "resolve"]},
             UNCHANGED busy
      PROVE  BusyMatchesLookups'
  <2>1. PICK m : m.ip = l.ip /\ lookups' = (lookups \ {l}) \cup {m}
    BY <1>1 DEF TypeInv, GeoType, Lookup
  <2> QED
    BY <1>1, <2>1 DEF BusyMatchesLookups
<1>2. ASSUME NEW l \in lookups, lookupStarts(l) \/ lookupFails(l) PROVE BusyMatchesLookups'
  BY <1>1, <1>2 DEF lookupStarts, lookupFails
<1>3. ASSUME NEW l \in lookups, NEW out, lookupAnswers(l, out) PROVE BusyMatchesLookups'
  BY <1>1, <1>3 DEF lookupAnswers
<1>4. ASSUME NEW l \in lookups, lookupEnds(l) PROVE BusyMatchesLookups'
  <2>1. lookups' = lookups \ {l} /\ busy' = busy \ {l.ip}
    BY <1>4 DEF lookupEnds, NoLongerBusy
  <2> QED
    BY <2>1 DEF BusyMatchesLookups
<1>5. ASSUME NEW ip, cacheExpires(ip) PROVE BusyMatchesLookups'
  BY <1>5 DEF cacheExpires, BusyMatchesLookups
<1> QED
  BY <1>2, <1>3, <1>4, <1>5 DEF Geo

(* So does a registration, which may start one. *)
LEMMA RegisterBusy ==
    ASSUME TypeInv, BusyMatchesLookups, NEW r \in Requests, NEW gone, registerSession(r, gone)
    PROVE  BusyMatchesLookups'
<1> DEFINE h   == req[r].hdr
           key == <<req[r].id, DeviceOf(h)>>
           c   == migrateClientIdentity(Forget(state, gone), req[r].id, h).clients[key]
           ask == NeedsLocation(c, h.ip) /\ h.ip \notin fresh \cup busy
           new == [key |-> key, ip |-> h.ip, step |-> "start"]
<1>1. /\ busy' = IF ask THEN busy \cup {h.ip} ELSE busy
      /\ lookups' = IF ask THEN lookups \cup {new} ELSE lookups
  BY DEF registerSession
<1>2. ask => h.ip \notin busy
  OBVIOUS
<1>3. new.ip = h.ip
  OBVIOUS
<1> HIDE DEF ask, new
<1>4. CASE ask
  <2>1. busy' = busy \cup {h.ip} /\ lookups' = lookups \cup {new} /\ h.ip \notin busy
    BY <1>1, <1>2, <1>4
  <2> HIDE DEF h
  <2> QED
    BY <1>3, <2>1 DEF BusyMatchesLookups
<1>5. CASE ~ask
  BY <1>1, <1>5 DEF BusyMatchesLookups
<1> QED
  BY <1>4, <1>5

(* An address is marked as busy exactly while one lookup for it runs, for any  *)
(* number of devices behind it: no address stays marked for ever, and the      *)
(* resolver is not asked twice at a time.                                      *)
THEOREM ControlPlaneBusyMatchesLookups == Spec => []BusyMatchesLookups
<1>1. Init => BusyMatchesLookups
  BY DEF Init, BusyMatchesLookups
<1>2. TypeInv /\ BusyMatchesLookups /\ [Next]_vars => BusyMatchesLookups'
  <2> SUFFICES ASSUME TypeInv, BusyMatchesLookups, [Next]_vars PROVE BusyMatchesLookups'
    OBVIOUS
  <2>1. CASE UNCHANGED <<busy, lookups>>
    BY <2>1 DEF BusyMatchesLookups
  <2>2. CASE Volatile
    BY <2>2 DEF Volatile, BusyMatchesLookups
  <2>3. ASSUME Owner \/ Flush \/ UNCHANGED vars PROVE UNCHANGED <<busy, lookups>>
    BY <2>3 DEF Owner, createToken, deleteToken, disconnectDevice, setDeviceBlocked, Flush,
                timerFires, flushClientState, vars, geoVars
  <2>4. ASSUME Session, ~ \E r \in Requests, gone \in SUBSET Known(state) : registerSession(r, gone)
        PROVE  UNCHANGED <<busy, lookups>>
    BY <2>4 DEF Session, authorizeClient, deviceBlocked, dialFails, registerRefused, peerCloses,
                runCloser, unregister, geoVars
  <2>5. ASSUME Process PROVE Volatile \/ UNCHANGED <<busy, lookups>>
    BY <2>5 DEF Process, start, crash, beginShutdown, finishShutdown, tick, geoVars
  <2> QED
    BY <2>1, <2>2, <2>3, <2>4, <2>5, GeoBusy, RegisterBusy DEF Next
<1> QED
  BY <1>1, <1>2, SpecTypeInv, PTL DEF Spec
=============================================================================
