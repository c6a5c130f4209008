------------------------- MODULE ControlPlaneProofs -------------------------
(***************************************************************************)
(* Type correctness of ControlPlane and what its state file guarantees:    *)
(* metadata marked dirty always has a flush coming, clean memory equals    *)
(* the file, owner changes are in the file as soon as they are in memory,  *)
(* revocations and tombstones stay, and the next start can load the file;  *)
(* for every set of tokens, devices, requests and timers and every value   *)
(* of the limits.                                                          *)
(***************************************************************************)
EXTENDS ControlPlane, FiniteSetTheorems, TLAPS

-----------------------------------------------------------------------------
(* Operators on controlState stay within State *)

(* A request's device keys are client keys. *)
LEMMA KeyTypes ==
    ASSUME NEW id \in TokenIDs, NEW h \in Header
    PROVE  /\ <<id, DeviceOf(h)>> \in Keys
           /\ <<id, h.ip>> \in Keys
           /\ DeviceOf(h) # NoID
BY SetsAssumption DEF Header, Keys, DeviceOf

(* An empty state is a state. *)
LEMMA EmptyStateType == \A i \in InstanceIDs : EmptyState(i) \in State
BY DEF EmptyState, State

(* Merging two device records gives a device record. *)
LEMMA MergeClientType ==
    ASSUME NEW dst \in Client, NEW src \in Client
    PROVE  mergeTrackedClient(dst, src) \in Client
BY DEF mergeTrackedClient, Client, Later

(* mergeClientKeyLocked stays within State. *)
LEMMA MergeKeyType ==
    ASSUME NEW st \in State, NEW old \in Keys, NEW new \in Keys, st.clients[old] # NoClient
    PROVE  mergeClientKey(st, old, new) \in State
<1> DEFINE src == st.clients[old]
           dst == st.clients[new]
           val == IF dst = NoClient THEN src ELSE mergeTrackedClient(dst, src)
           cl  == [st.clients EXCEPT ![new] = val, ![old] = NoClient]
           bl  == IF old \in st.blocked THEN (st.blocked \ {old}) \cup {new} ELSE st.blocked
<1>1. st.clients \in [Keys -> Client \cup {NoClient}] /\ st.blocked \subseteq Keys
  BY DEF State
<1>2. src \in Client /\ (dst # NoClient => dst \in Client)
  BY <1>1
<1>3. val \in Client
  BY <1>2, MergeClientType
<1> HIDE DEF val
<1>4. cl \in [Keys -> Client \cup {NoClient}]
  BY <1>1, <1>3
<1>5. bl \subseteq Keys
  BY <1>1
<1>6. mergeClientKey(st, old, new) = [st EXCEPT !.clients = cl, !.blocked = bl]
  BY DEF mergeClientKey, val
<1> HIDE DEF cl, bl
<1> QED
  BY <1>4, <1>5, <1>6 DEF State

(* The keys to merge are keys on record. *)
LEMMA OldKeysType ==
    ASSUME NEW st \in State, NEW id \in TokenIDs, NEW h \in Header
    PROVE  OldKeys(st, id, h) \subseteq Known(st)
BY DEF OldKeys, Known

(* Merging one key leaves the records of third keys alone. *)
LEMMA MergeKeyOthers ==
    ASSUME NEW st \in State, NEW old \in Keys, NEW new \in Keys, NEW k \in Keys,
           k # old, k # new
    PROVE  mergeClientKey(st, old, new).clients[k] = st.clients[k]
BY DEF mergeClientKey, State

(* migrateClientIdentityLocked stays within State. *)
LEMMA MigrateType ==
    ASSUME NEW st \in State, NEW id \in TokenIDs, NEW h \in Header
    PROVE  migrateClientIdentity(st, id, h) \in State
<1> DEFINE new  == <<id, DeviceOf(h)>>
           olds == OldKeys(st, id, h)
           pkey == <<id, PreviousOf(h)>>
           lkey == <<id, h.ip>>
           prev == MergeIf(st, pkey, new, olds)
<1>1. new \in Keys /\ lkey \in Keys /\ olds \subseteq Known(st) /\ new \notin olds
  BY KeyTypes, OldKeysType DEF OldKeys
<1>2. \A k \in olds : k \in Keys /\ st.clients[k] # NoClient /\ k # new
  BY <1>1 DEF Known
<1>3. prev \in State
  BY <1>1, <1>2, MergeKeyType DEF MergeIf
<1>4. pkey # lkey
  BY SetsAssumption DEF PreviousOf, Header
<1>5. lkey \in olds => prev.clients[lkey] # NoClient
  <2>1. CASE pkey \in olds
    BY <1>1, <1>2, <1>4, <2>1, MergeKeyOthers DEF MergeIf
  <2>2. CASE pkey \notin olds
    BY <1>2, <2>2 DEF MergeIf
  <2> QED
    BY <2>1, <2>2
<1>6. migrateClientIdentity(st, id, h) = MergeIf(prev, lkey, new, olds)
  BY DEF migrateClientIdentity
<1> HIDE DEF prev, new, lkey, pkey, olds
<1> QED
  BY <1>1, <1>3, <1>5, <1>6, MergeKeyType DEF MergeIf

(* pruneClientsLocked and deleteToken only forget. *)
LEMMA ForgetType ==
    ASSUME NEW st \in State, NEW gone
    PROVE  Forget(st, gone) \in State
BY DEF Forget, State

(* A deletion leaves a state. *)
LEMMA DeletedType ==
    ASSUME NEW st \in State, NEW t \in Token
    PROVE  Deleted(st, t) \in State
<1> DEFINE cl == [k \in Keys |-> IF k[1] = t.id THEN NoClient ELSE st.clients[k]]
<1>1. cl \in [Keys -> Client \cup {NoClient}]
  BY DEF State
<1>2. t.id \in TokenIDs /\ t.hash \in Hashes
  BY DEF Token
<1> HIDE DEF cl
<1> DEFINE ad == {u \in st.added : u.hash # t.hash}
           rv == IF NeedsRevocation(t) THEN st.revoked \cup {t.hash} ELSE st.revoked
           dl == IF NeedsTombstone(t) THEN st.deleted \cup {t.id} ELSE st.deleted
           bl == {k \in st.blocked : ~(k[1] = t.id /\ st.clients[k] # NoClient)}
<1>3. ad \subseteq Token /\ rv \subseteq Hashes /\ dl \subseteq TokIDs /\ bl \subseteq Keys
  BY <1>2 DEF State, NeedsTombstone
<1>4. Deleted(st, t) = [st EXCEPT !.added = ad, !.revoked = rv, !.deleted = dl,
                                  !.clients = cl, !.blocked = bl]
  BY DEF Deleted, cl
<1> HIDE DEF ad, rv, dl, bl
<1> QED
  BY <1>1, <1>3, <1>4 DEF State

(* registerSession writes a device record. *)
LEMMA RegisteredType ==
    ASSUME NEW c \in Client \cup {NoClient}, NEW h \in Header,
           NEW country \in IPs \cup {NoCountry}, now \in 0..MaxNow
    PROVE  Registered(c, h, country) \in Client
<1>1. CASE c = NoClient
  BY <1>1 DEF Registered, Client, Header
<1>2. CASE c # NoClient /\ c \in Client
  BY <1>2 DEF Registered, Client, Header
<1> QED
  BY <1>1, <1>2

(* Replacing the record of one key stays within State. *)
LEMMA SetClientType ==
    ASSUME NEW st \in State, NEW key \in Keys, NEW c \in Client \cup {NoClient}
    PROVE  [st EXCEPT !.clients[key] = c] \in State
BY DEF State

(* A device that is seen leaves a state. *)
LEMMA SeenType ==
    ASSUME NEW st \in State, NEW key \in Keys, now \in 0..MaxNow
    PROVE  Seen(st, key) \in State
<1>1. st.clients[key] \in Client \cup {NoClient}
  BY DEF State
<1>2. (IF st.clients[key] = NoClient THEN st.clients[key] ELSE [st.clients[key] EXCEPT !.seen = now])
         \in Client \cup {NoClient}
  BY <1>1 DEF Client
<1> QED
  BY <1>2, SetClientType DEF Seen

(* So does a lookup's answer. *)
LEMMA SetCountryType ==
    ASSUME NEW st \in State, NEW key \in Keys, NEW ip \in IPs, st.clients[key] # NoClient
    PROVE  SetCountry(st, key, ip) \in State
<1>1. st.clients[key] \in Client
  BY DEF State
<1>2. [st.clients[key] EXCEPT !.country = ip] \in Client
  BY <1>1 DEF Client
<1> QED
  BY <1>2, SetClientType DEF SetCountry

-----------------------------------------------------------------------------
(* Type correctness *)

(* TypeOK by parts of the state.  It is not inductive alone: runCloser marks  *)
(* a session as shut, so a collected close function must belong to one.       *)
ProcType  == phase \in {"down", "up", "stopping"} /\ exit \in {"none", "ok", "error", "crash"}
             /\ now \in 0..MaxNow
FileType  == disk \in State \cup {NoFile} /\ platter \in State \cup {NoFile}
TimerType == dirty \in BOOLEAN /\ flush \in Timers \cup {NoTimer}
             /\ armed \subseteq Timers /\ fired \subseteq Timers
ReqType   == req \in [Requests -> Request \cup {NoRequest}] /\ closing \subseteq OpenRequests
GeoType   == cached \subseteq IPs /\ fresh \subseteq cached /\ busy \subseteq IPs
             /\ lookups \subseteq Lookup

TypeInv == ProcType /\ state \in State /\ FileType /\ TimerType /\ ReqType /\ GeoType

(* The type invariant is part of the inductive one. *)
LEMMA TypeInvImplies == TypeInv => TypeOK
BY DEF TypeInv, TypeOK, ProcType, FileType, TimerType, ReqType, GeoType, OpenRequests

(* persistLocked writes a state or loses the file. *)
LEMMA PersistFile ==
    ASSUME FileType, NEW st \in State, NEW ok, persistLocked(st, ok)
    PROVE  FileType'
BY DEF FileType, persistLocked, fileVars

(* AfterFunc, Stop and the schedule keep the timers typed. *)
LEMMA ScheduleTimer ==
    ASSUME TimerType, scheduleClientPersistLocked
    PROVE  TimerType'
<1>1. dirty' \in BOOLEAN /\ fired' \subseteq Timers
  BY DEF scheduleClientPersistLocked, TimerType
<1>2. flush' \in Timers \cup {NoTimer} /\ armed' \subseteq Timers
  BY DEF scheduleClientPersistLocked, TimerType, AfterFunc
<1> QED
  BY <1>1, <1>2 DEF TimerType

(* A critical change keeps memory, file and timers typed. *)
LEMMA CriticalTypes ==
    ASSUME TypeInv, NEW new \in State, NEW ok \in BOOLEAN, Critical(new, ok)
    PROVE  state' \in State /\ FileType' /\ TimerType'
<1>1. state' \in State
  BY DEF Critical, rollback, TypeInv
<1>2. FileType'
  BY PersistFile DEF Critical, persistCriticalLocked, TypeInv
<1>3. TimerType'
  <2>1. CASE ok
    BY <2>1 DEF Critical, persistCriticalLocked, TypeInv, TimerType, StopFlush
  <2>2. CASE ~ok
    BY <2>2 DEF Critical, persistCriticalLocked, TypeInv, TimerType, timerVars
  <2> QED
    BY <2>1, <2>2
<1> QED
  BY <1>1, <1>2, <1>3

(* A step that leaves the requests and only adds sessions to close. *)
LEMMA CollectReq ==
    ASSUME ReqType, UNCHANGED req, closing' \subseteq closing \cup OpenRequests
    PROVE  ReqType'
BY DEF ReqType, OpenRequests

(* A volatile reset is typed. *)
LEMMA VolatileTypes == Volatile => TimerType' /\ ReqType' /\ GeoType'
BY DEF Volatile, TimerType, ReqType, GeoType

(* The requests after one of them changed. *)
LEMMA ReqUpdate ==
    ASSUME ReqType, NEW r \in Requests, NEW q \in Request \cup {NoRequest},
           req' = [req EXCEPT ![r] = q],
           closing' \subseteq closing,
           r \in closing' => q # NoRequest /\ q.step = "open"
    PROVE  ReqType'
<1>1. req' \in [Requests -> Request \cup {NoRequest}]
  BY DEF ReqType
<1>2. req'[r] = q /\ \A s \in Requests : s # r => req'[s] = req[s]
  BY DEF ReqType
<1>3. \A s \in closing' : s \in Requests /\ req'[s] # NoRequest /\ req'[s].step = "open"
  BY <1>2 DEF ReqType, OpenRequests
<1> QED
  BY <1>1, <1>3 DEF ReqType, OpenRequests

(* Only open sessions have a close function to call. *)
LEMMA NotClosing ==
    ASSUME ReqType, NEW r \in Requests, NEW step, At(r, step), step # "open"
    PROVE  r \notin closing
BY DEF ReqType, OpenRequests, At

(* Owner operations. *)
LEMMA OwnerTypes == ASSUME TypeInv, Owner PROVE TypeInv'
<1>1. ASSUME NEW o \in Offers, NEW ok \in BOOLEAN, createToken(o, ok) PROVE TypeInv'
  <2>1. PICK n \in 1..MaxStamp :
           Critical([state EXCEPT !.added = @ \cup
                      {[id |-> o.id, name |-> o.name, hash |-> o.hash, at |-> n]}], ok)
    BY <1>1 DEF createToken
  <2> DEFINE new == [state EXCEPT !.added = @ \cup
                      {[id |-> o.id, name |-> o.name, hash |-> o.hash, at |-> n]}]
  <2>2. [id |-> o.id, name |-> o.name, hash |-> o.hash, at |-> n] \in Token
    BY TokensAssumption, SetsAssumption, BoundsAssumption DEF Token
  <2>3. new \in State
    BY <2>2 DEF TypeInv, State
  <2>4. state' \in State /\ FileType' /\ TimerType'
    BY <2>1, <2>3, CriticalTypes
  <2> QED
    BY <1>1, <2>4, CollectReq
    DEF createToken, TypeInv, ProcType, GeoType, geoVars
<1>2. ASSUME NEW t \in BaseTokens \cup state.added, NEW ok \in BOOLEAN, deleteToken(t, ok)
      PROVE  TypeInv'
  <2>1. t \in Token
    BY TokensAssumption DEF TypeInv, State
  <2>2. state' \in State /\ FileType' /\ TimerType'
    BY <1>2, <2>1, DeletedType, CriticalTypes DEF deleteToken, TypeInv
  <2>3. closing' \subseteq closing \cup OpenRequests /\ UNCHANGED req
    BY <1>2 DEF deleteToken, SessionsOfToken
  <2> QED
    BY <1>2, <2>2, <2>3, CollectReq DEF deleteToken, TypeInv, ProcType, GeoType, geoVars
<1>3. ASSUME NEW k \in Keys, disconnectDevice(k) PROVE TypeInv'
  <2>1. closing' \subseteq closing \cup OpenRequests /\ UNCHANGED req
    BY <1>3 DEF disconnectDevice, deviceClosers
  <2> QED
    BY <1>3, <2>1, CollectReq
    DEF disconnectDevice, TypeInv, ProcType, FileType, TimerType, GeoType, geoVars, fileVars, timerVars
<1>4. ASSUME NEW k \in Keys, NEW block \in BOOLEAN, NEW ok \in BOOLEAN,
             setDeviceBlocked(k, block, ok)
      PROVE  TypeInv'
  <2>1. [state EXCEPT !.blocked = IF block THEN @ \cup {k} ELSE @ \ {k}] \in State
    BY DEF TypeInv, State
  <2>2. state' \in State /\ FileType' /\ TimerType'
    BY <1>4, <2>1, CriticalTypes DEF setDeviceBlocked
  <2>3. closing' \subseteq closing \cup OpenRequests /\ UNCHANGED req
    BY <1>4 DEF setDeviceBlocked, deviceClosers
  <2> QED
    BY <1>4, <2>2, <2>3, CollectReq DEF setDeviceBlocked, TypeInv, ProcType, GeoType, geoVars
<1> QED
  BY <1>1, <1>2, <1>3, <1>4 DEF Owner

(* The state registerSession writes. *)
LEMMA RegisterState ==
    ASSUME TypeInv, NEW r \in Requests, NEW gone, registerSession(r, gone)
    PROVE  state' \in State
<1> DEFINE h   == req[r].hdr
           id  == req[r].id
           key == <<id, DeviceOf(h)>>
           mig == migrateClientIdentity(Forget(state, gone), id, h)
           c   == mig.clients[key]
           hit == NeedsLocation(c, h.ip) /\ h.ip \in fresh
           ctr == IF hit THEN h.ip ELSE NoCountry
<1>1. req[r] \in Request
  BY DEF TypeInv, ReqType, registerSession, At
<1>2. id \in TokenIDs /\ h \in Header
  BY <1>1, SetsAssumption DEF Request
<1>3. key \in Keys /\ h.ip \in IPs
  BY <1>2, KeyTypes DEF Header
<1>4. mig \in State
  BY <1>2, ForgetType, MigrateType DEF TypeInv
<1>5. c \in Client \cup {NoClient}
  BY <1>3, <1>4 DEF State
<1>6. ctr \in IPs \cup {NoCountry}
  BY <1>3
<1>7. state' = [mig EXCEPT !.clients[key] = Registered(c, h, ctr)]
  BY DEF registerSession
<1>8. Registered(c, h, ctr) \in Client
  BY <1>2, <1>5, <1>6, RegisteredType DEF TypeInv, ProcType
<1> HIDE DEF mig, c, ctr, key
<1> QED
  BY <1>3, <1>4, <1>7, <1>8, SetClientType

(* The requests after registerSession: the session is open, and the sessions *)
(* of the merged keys are filed under its key.                               *)
LEMMA RegisterReq ==
    ASSUME TypeInv, NEW r \in Requests, NEW gone, registerSession(r, gone)
    PROVE  ReqType'
<1> DEFINE h    == req[r].hdr
           id   == req[r].id
           key  == <<id, DeviceOf(h)>>
           olds == OldKeys(Forget(state, gone), id, h)
           new  == [req[r] EXCEPT !.step = "open"]
<1>1. req[r] \in Request /\ req \in [Requests -> Request \cup {NoRequest}]
  BY DEF TypeInv, ReqType, registerSession, At
<1>2. key \in Keys
  BY <1>1, SetsAssumption, KeyTypes DEF Request
<1>3. new \in Request /\ new.step = "open"
  BY <1>1 DEF Request
<1>4. req' = [Refiled(olds, key) EXCEPT ![r] = new]
  BY DEF registerSession
<1> HIDE DEF key, olds, new
<1>5. ASSUME NEW s \in Requests
      PROVE  /\ Refiled(olds, key)[s] \in Request \cup {NoRequest}
             /\ s \in OpenRequests => /\ Refiled(olds, key)[s] # NoRequest
                                      /\ Refiled(olds, key)[s].step = "open"
  <2>1. CASE s \in OpenRequests /\ req[s].key \in olds
    <3>1. req[s] \in Request /\ req[s].step = "open"
      BY <1>1, <2>1 DEF OpenRequests
    <3>2. [req[s] EXCEPT !.key = key] \in Request /\ [req[s] EXCEPT !.key = key].step = "open"
      BY <1>2, <3>1 DEF Request
    <3> QED
      BY <2>1, <3>2, NullsAssumption DEF Refiled
  <2>2. CASE ~(s \in OpenRequests /\ req[s].key \in olds)
    BY <1>1, <2>2 DEF Refiled, OpenRequests
  <2> QED
    BY <2>1, <2>2
<1>6. Refiled(olds, key) \in [Requests -> Request \cup {NoRequest}]
  BY <1>5 DEF Refiled
<1>7. req' \in [Requests -> Request \cup {NoRequest}]
  BY <1>3, <1>4, <1>6
<1>8. \A s \in closing : s \in OpenRequests /\ s # r
  BY NotClosing DEF TypeInv, ReqType, registerSession
<1>9. \A s \in closing : s \in Requests /\ req'[s] # NoRequest /\ req'[s].step = "open"
  BY <1>4, <1>5, <1>6, <1>8 DEF OpenRequests
<1>10. closing' = closing
  BY DEF registerSession
<1> QED
  BY <1>7, <1>9, <1>10 DEF ReqType, OpenRequests

(* Client sessions. *)
LEMMA SessionTypes == ASSUME TypeInv, Session PROVE TypeInv'
<1> USE NullsAssumption
<1>1. ASSUME NEW r \in Requests, NEW t \in BaseTokens \cup state.added, NEW h \in Headers,
             authorizeClient(r, t, h)
      PROVE  TypeInv'
  <2> DEFINE q == [step |-> "authorized", id |-> t.id, hash |-> t.hash, hdr |-> h,
                   key |-> <<t.id, DeviceOf(h)>>, own |-> <<t.id, DeviceOf(h)>>, shut |-> FALSE]
  <2>1. t \in Token
    BY TokensAssumption DEF TypeInv, State
  <2>2. t.id \in TokenIDs /\ t.hash \in Hashes /\ h \in Header
    BY <2>1, SetsAssumption DEF Token
  <2>3. <<t.id, DeviceOf(h)>> \in Keys
    BY <2>2, KeyTypes
  <2>4. q \in Request
    BY <2>2, <2>3 DEF Request
  <2>5. req' = [req EXCEPT ![r] = q] /\ closing' = closing
    BY <1>1 DEF authorizeClient
  <2>6. r \notin closing
    BY <1>1 DEF authorizeClient, TypeInv, ReqType, OpenRequests
  <2>7. ReqType'
    BY <2>4, <2>5, <2>6, ReqUpdate DEF TypeInv
  <2> QED
    BY <1>1, <2>7
    DEF authorizeClient, TypeInv, ProcType, FileType, TimerType, GeoType, fileVars, timerVars, geoVars
<1>2. ASSUME NEW r \in Requests, deviceBlocked(r) PROVE TypeInv'
  <2>1. req[r] \in Request
    BY <1>2 DEF deviceBlocked, At, TypeInv, ReqType
  <2>2. PICK q \in Request \cup {NoRequest} : req' = [req EXCEPT ![r] = q]
    <3>1. [req[r] EXCEPT !.step = "dialing"] \in Request
      BY <2>1 DEF Request
    <3> QED
      BY <1>2, <3>1 DEF deviceBlocked, TypeInv, ReqType
  <2>3. r \notin closing /\ closing' = closing
    BY <1>2, NotClosing DEF deviceBlocked, TypeInv
  <2>4. ReqType'
    BY <2>2, <2>3, ReqUpdate DEF TypeInv
  <2> QED
    BY <1>2, <2>4
    DEF deviceBlocked, TypeInv, ProcType, FileType, TimerType, GeoType, fileVars, timerVars, geoVars
<1>3. ASSUME NEW r \in Requests, dialFails(r) \/ registerRefused(r) PROVE TypeInv'
  <2>1. req' = [req EXCEPT ![r] = NoRequest] /\ closing' = closing /\ r \notin closing
    BY <1>3, NotClosing DEF dialFails, registerRefused, TypeInv
  <2>2. ReqType'
    BY <2>1, ReqUpdate DEF TypeInv
  <2> QED
    BY <1>3, <2>2 DEF dialFails, registerRefused, TypeInv, ProcType, FileType, TimerType, GeoType,
                      fileVars, timerVars, geoVars
<1>4. ASSUME NEW r \in Requests, NEW gone \in SUBSET Known(state), registerSession(r, gone)
      PROVE  TypeInv'
  <2>1. req[r] \in Request
    BY <1>4 DEF TypeInv, ReqType, registerSession, At
  <2>2. <<req[r].id, DeviceOf(req[r].hdr)>> \in Keys /\ req[r].hdr.ip \in IPs
    BY <2>1, SetsAssumption, KeyTypes DEF Request, Header
  <2>3. GeoType'
    <3>1. [key |-> <<req[r].id, DeviceOf(req[r].hdr)>>, ip |-> req[r].hdr.ip, step |-> "start"] \in Lookup
      BY <2>2 DEF Lookup
    <3>2. lookups' \subseteq Lookup
      BY <1>4, <3>1 DEF registerSession, TypeInv, GeoType
    <3>3. busy' \subseteq IPs
      BY <1>4, <2>2 DEF registerSession, TypeInv, GeoType
    <3> QED
      BY <1>4, <3>2, <3>3 DEF registerSession, TypeInv, GeoType
  <2>4. TimerType'
    BY <1>4, ScheduleTimer DEF registerSession, TypeInv
  <2>5. state' \in State /\ ReqType'
    BY <1>4, RegisterState, RegisterReq
  <2>6. ProcType' /\ FileType'
    BY <1>4 DEF registerSession, TypeInv, ProcType, FileType, fileVars
  <2> QED
    BY <2>3, <2>4, <2>5, <2>6 DEF TypeInv
<1>5. ASSUME NEW r \in Requests, peerCloses(r) \/ runCloser(r) PROVE TypeInv'
  <2>1. req[r] \in Request /\ req[r].step = "open"
    BY <1>5 DEF peerCloses, runCloser, At, TypeInv, ReqType, OpenRequests
  <2>2. PICK q \in Request : q.step = "open" /\ req' = [req EXCEPT ![r] = q]
    <3>1. [req[r] EXCEPT !.shut = TRUE] \in Request /\ [req[r] EXCEPT !.shut = TRUE].step = "open"
      BY <2>1 DEF Request
    <3> QED
      BY <1>5, <3>1 DEF peerCloses, runCloser
  <2>3. closing' \subseteq closing
    BY <1>5 DEF peerCloses, runCloser
  <2>4. ReqType'
    BY <2>2, <2>3, ReqUpdate DEF TypeInv
  <2> QED
    BY <1>5, <2>4 DEF peerCloses, runCloser, TypeInv, ProcType, FileType, TimerType, GeoType,
                      fileVars, timerVars, geoVars
<1>6. ASSUME NEW r \in Requests, unregister(r) PROVE TypeInv'
  <2>1. req[r] \in Request
    BY <1>6 DEF unregister, At, TypeInv, ReqType
  <2>2. state' \in State
    BY <1>6, <2>1, SeenType DEF unregister, TypeInv, ProcType, Request
  <2>3. ReqType'
    BY <1>6, ReqUpdate DEF unregister, TypeInv
  <2>4. TimerType'
    BY <1>6, ScheduleTimer DEF unregister, TypeInv
  <2> QED
    BY <1>6, <2>2, <2>3, <2>4
    DEF unregister, TypeInv, ProcType, FileType, GeoType, fileVars, geoVars
<1> QED
  BY <1>1, <1>2, <1>3, <1>4, <1>5, <1>6 DEF Session

(* The coalesced flush. *)
LEMMA FlushTypes == ASSUME TypeInv, Flush PROVE TypeInv'
<1>1. ASSUME NEW t \in Timers, timerFires(t) PROVE TypeInv'
  BY <1>1 DEF timerFires, TypeInv, ProcType, FileType, TimerType, ReqType, GeoType, OpenRequests,
              fileVars, geoVars
<1>2. ASSUME NEW t \in Timers, NEW ok \in BOOLEAN, flushClientState(t, ok) PROVE TypeInv'
  <2>1. FileType'
    <3>1. CASE dirty
      BY <1>2, <3>1, PersistFile DEF flushClientState, TypeInv
    <3>2. CASE ~dirty
      BY <1>2, <3>2 DEF flushClientState, TypeInv, FileType, fileVars
    <3> QED
      BY <3>1, <3>2
  <2>2. TimerType'
    <3>1. dirty' \in BOOLEAN /\ fired' \subseteq Timers
      BY <1>2 DEF flushClientState, TypeInv, TimerType
    <3>2. flush' \in Timers \cup {NoTimer} /\ armed' \subseteq Timers
      BY <1>2 DEF flushClientState, TypeInv, TimerType, RetryFlush, AfterFunc
    <3> QED
      BY <3>1, <3>2 DEF TimerType
  <2> QED
    BY <1>2, <2>1, <2>2
    DEF flushClientState, TypeInv, ProcType, ReqType, GeoType, OpenRequests, geoVars
<1> QED
  BY <1>1, <1>2 DEF Flush

(* What the next start will read is a state. *)
LEMMA ReloadType ==
    ASSUME state \in State, NEW file \in State \cup {NoFile}
    PROVE  (IF file = NoFile THEN EmptyState(state.instance) ELSE file) \in State
<1>1. state.instance \in InstanceIDs
  BY DEF State
<1> QED
  BY <1>1, EmptyStateType

(* Start, crash, shutdown, time. *)
LEMMA ProcessTypes == ASSUME TypeInv, Process PROVE TypeInv'
<1>1. ASSUME NEW i \in InstanceIDs, NEW ok \in BOOLEAN, start(i, ok) PROVE TypeInv'
  <2>1. Loaded(i) \in State
    BY EmptyStateType DEF Loaded, TypeInv, FileType
  <2>2. FileType'
    BY <1>1, <2>1, PersistFile DEF start, TypeInv
  <2> QED
    BY <1>1, <2>1, <2>2
    DEF start, TypeInv, ProcType, TimerType, ReqType, GeoType, OpenRequests, timerVars, geoVars
<1>2. ASSUME NEW file \in State \cup {NoFile}, crash(file) PROVE TypeInv'
  <2>1. state' \in State
    BY <1>2, ReloadType DEF crash, TypeInv
  <2>2. TimerType' /\ ReqType' /\ GeoType'
    BY <1>2, VolatileTypes DEF crash
  <2> QED
    BY <1>2, <2>1, <2>2 DEF crash, TypeInv, ProcType, FileType
<1>3. ASSUME beginShutdown PROVE TypeInv'
  <2>1. ReqType'
    BY <1>3, CollectReq DEF beginShutdown, TypeInv
  <2> QED
    BY <1>3, <2>1 DEF beginShutdown, TypeInv, ProcType, FileType, TimerType, GeoType,
                      fileVars, timerVars, geoVars
<1>4. ASSUME NEW ok \in BOOLEAN, finishShutdown(ok) PROVE TypeInv'
  <2>1. FileType'
    <3>1. CASE dirty
      BY <1>4, <3>1, PersistFile DEF finishShutdown, FinalFlush, TypeInv
    <3>2. CASE ~dirty
      BY <1>4, <3>2 DEF finishShutdown, FinalFlush, TypeInv, FileType, fileVars
    <3> QED
      BY <3>1, <3>2
  <2>2. state' \in State
    BY <1>4, <2>1, ReloadType DEF finishShutdown, TypeInv, FileType
  <2>3. TimerType' /\ ReqType' /\ GeoType'
    BY <1>4, VolatileTypes DEF finishShutdown
  <2> QED
    BY <1>4, <2>1, <2>2, <2>3 DEF finishShutdown, TypeInv, ProcType
<1>5. ASSUME tick PROVE TypeInv'
  <2>1. now' \in 0..MaxNow
    BY <1>5, BoundsAssumption DEF tick, TypeInv, ProcType
  <2> QED
    BY <1>5, <2>1 DEF tick, TypeInv, ProcType, FileType, TimerType, ReqType, GeoType,
                      OpenRequests, fileVars, timerVars, geoVars
<1> QED
  BY <1>1, <1>2, <1>3, <1>4, <1>5 DEF Process, TypeInv, FileType

(* Geolocation. *)
LEMMA GeoTypes == ASSUME TypeInv, Geo PROVE TypeInv'
<1>1. ASSUME NEW l \in lookups, NEW s \in {"start", "resolve", "done"}
      PROVE  /\ l.key \in Keys /\ l.ip \in IPs
             /\ [l EXCEPT !.step = s] \in Lookup
  BY DEF TypeInv, GeoType, Lookup
<1>2. ASSUME NEW l \in lookups, state.clients[l.key] # NoClient
      PROVE  SetCountry(state, l.key, l.ip) \in State
  BY <1>1, <1>2, SetCountryType DEF TypeInv
<1>3. ASSUME NEW l \in lookups, lookupStarts(l) PROVE TypeInv'
  <2>1. GeoType'
    BY <1>1, <1>3 DEF lookupStarts, TypeInv, GeoType
  <2>2. state' \in State /\ TimerType'
    BY <1>2, <1>3, ScheduleTimer DEF lookupStarts, TypeInv, TimerType, timerVars
  <2> QED
    BY <1>3, <2>1, <2>2
    DEF lookupStarts, TypeInv, ProcType, FileType, ReqType, OpenRequests, fileVars
<1>4. ASSUME NEW l \in lookups, lookupFails(l) PROVE TypeInv'
  <2>1. GeoType'
    BY <1>1, <1>4 DEF lookupFails, TypeInv, GeoType
  <2> QED
    BY <1>4, <2>1 DEF lookupFails, TypeInv, ProcType, FileType, TimerType, ReqType, OpenRequests,
                      fileVars, timerVars
<1>5. ASSUME NEW l \in lookups, NEW out \in SUBSET cached, lookupAnswers(l, out) PROVE TypeInv'
  <2>1. GeoType'
    BY <1>1, <1>5 DEF lookupAnswers, TypeInv, GeoType
  <2>2. state' \in State /\ TimerType'
    BY <1>2, <1>5, ScheduleTimer DEF lookupAnswers, TypeInv, TimerType, timerVars
  <2> QED
    BY <1>5, <2>1, <2>2
    DEF lookupAnswers, TypeInv, ProcType, FileType, ReqType, OpenRequests, fileVars
<1>6. ASSUME NEW l \in lookups, lookupEnds(l) PROVE TypeInv'
  BY <1>6 DEF lookupEnds, NoLongerBusy, TypeInv, ProcType, FileType, TimerType, ReqType, GeoType,
              OpenRequests, fileVars, timerVars
<1>7. ASSUME NEW ip \in IPs, cacheExpires(ip) PROVE TypeInv'
  BY <1>7 DEF cacheExpires, TypeInv, ProcType, FileType, TimerType, ReqType, GeoType,
              OpenRequests, fileVars, timerVars
<1> QED
  BY <1>3, <1>4, <1>5, <1>6, <1>7 DEF Geo

(* The first start has the types. *)
LEMMA InitTypes == Init => TypeInv
<1> SUFFICES ASSUME Init PROVE TypeInv
  OBVIOUS
<1>1. state \in State
  BY EmptyStateType DEF Init
<1>2. ProcType /\ FileType
  BY BoundsAssumption DEF Init, ProcType, FileType
<1>3. TimerType /\ GeoType
  BY DEF Init, TimerType, GeoType
<1>4. ReqType
  BY DEF Init, ReqType
<1> QED
  BY <1>1, <1>2, <1>3, <1>4 DEF TypeInv

(* Every step keeps the types. *)
LEMMA StepTypes == TypeInv /\ [Next]_vars => TypeInv'
<1> SUFFICES ASSUME TypeInv, [Next]_vars PROVE TypeInv'
  OBVIOUS
<1>1. CASE UNCHANGED vars
  BY <1>1 DEF vars, TypeInv, ProcType, FileType, TimerType, ReqType, GeoType, OpenRequests,
              fileVars, timerVars, geoVars
<1> QED
  BY <1>1, OwnerTypes, SessionTypes, FlushTypes, ProcessTypes, GeoTypes DEF Next

(* The types always hold. *)
LEMMA SpecTypeInv == Spec => []TypeInv
BY InitTypes, StepTypes, PTL DEF Spec

(* Type correctness of the control plane: memory, file, sessions, timers and *)
(* caches stay in their types whatever owners, clients, storage and the      *)
(* scheduler do; in particular every session that is about to be closed      *)
(* still exists.                                                             *)
THEOREM ControlPlaneTypeOK == Spec => []TypeOK
BY SpecTypeInv, TypeInvImplies, PTL

-----------------------------------------------------------------------------
(* The flush that is never forgotten *)

(* A process that is down has no session, timer or goroutine left. *)
DownIdle ==
    phase = "down" =>
        /\ ~dirty /\ armed = {} /\ fired = {} /\ flush = NoTimer
        /\ \A r \in Requests : req[r] = NoRequest
        /\ lookups = {}

(* c.clientFlush points to a timer that has not run its callback yet: this is *)
(* why scheduleClientPersistLocked may return early when it is set.           *)
TimerKnown == flush # NoTimer => flush \in armed \cup fired

FlushInv == TypeInv /\ DownIdle /\ TimerKnown /\ FlushScheduled

(* A write under c.mu stops the timer and clears the pointer. *)
LEMMA CriticalFlush ==
    ASSUME FlushInv, NEW new, NEW ok \in BOOLEAN, Critical(new, ok), phase' = phase
    PROVE  TimerKnown' /\ FlushScheduled'
<1>1. CASE ok
  BY <1>1 DEF Critical, persistCriticalLocked, StopFlush, TimerKnown, FlushScheduled
<1>2. CASE ~ok
  BY <1>2 DEF Critical, persistCriticalLocked, timerVars, FlushInv, TimerKnown, FlushScheduled
<1> QED
  BY <1>1, <1>2

(* Scheduling a flush leaves the pointer on a live timer. *)
LEMMA ScheduleFlush ==
    ASSUME FlushInv, scheduleClientPersistLocked, phase' = phase
    PROVE  TimerKnown' /\ FlushScheduled'
<1>1. CASE phase = "stopping" \/ flush # NoTimer
  BY <1>1 DEF scheduleClientPersistLocked, FlushInv, TimerKnown, FlushScheduled
<1>2. CASE ~(phase = "stopping" \/ flush # NoTimer)
  <2>1. PICK t \in Timers : AfterFunc(t)
    BY <1>2 DEF scheduleClientPersistLocked
  <2> QED
    BY <2>1 DEF AfterFunc, TimerKnown, FlushScheduled
<1> QED
  BY <1>1, <1>2

(* The owner's operations keep FlushInv. *)
LEMMA OwnerFlush == ASSUME FlushInv, Owner PROVE FlushInv'
<1>1. TypeInv'
  BY OwnerTypes DEF FlushInv
<1>2. phase' = phase /\ phase # "down"
  BY DEF Owner, createToken, deleteToken, disconnectDevice, setDeviceBlocked, Running
<1>3. TimerKnown' /\ FlushScheduled'
  <2>1. CASE \E k \in Keys : disconnectDevice(k)
    BY <2>1 DEF disconnectDevice, timerVars, FlushInv, TimerKnown, FlushScheduled
  <2>2. CASE \E o \in Offers, ok \in BOOLEAN : createToken(o, ok)
    BY <1>2, <2>2, CriticalFlush DEF createToken
  <2>3. CASE \E t \in BaseTokens \cup state.added, ok \in BOOLEAN : deleteToken(t, ok)
    BY <1>2, <2>3, CriticalFlush DEF deleteToken
  <2>4. CASE \E k \in Keys, block, ok \in BOOLEAN : setDeviceBlocked(k, block, ok)
    BY <1>2, <2>4, CriticalFlush DEF setDeviceBlocked
  <2> QED
    BY <2>1, <2>2, <2>3, <2>4 DEF Owner
<1> QED
  BY <1>1, <1>2, <1>3 DEF FlushInv, DownIdle

(* Sessions and flushes happen only while the process runs. *)
LEMMA SessionPhase == ASSUME FlushInv, Session PROVE phase' = phase /\ phase # "down"
<1>1. ASSUME NEW r \in Requests, NEW t, NEW h, authorizeClient(r, t, h)
      PROVE  phase' = phase /\ phase # "down"
  BY <1>1 DEF authorizeClient, Running
<1>2. ASSUME NEW r \in Requests,
             \/ deviceBlocked(r) \/ dialFails(r) \/ registerRefused(r) \/ peerCloses(r)
             \/ unregister(r) \/ (\E gone \in SUBSET Known(state) : registerSession(r, gone))
      PROVE  phase' = phase /\ phase # "down"
  BY <1>2 DEF deviceBlocked, dialFails, registerRefused, peerCloses, unregister, registerSession,
              At, FlushInv, DownIdle
<1>3. ASSUME NEW r \in Requests, runCloser(r) PROVE phase' = phase /\ phase # "down"
  BY <1>3 DEF runCloser, FlushInv, DownIdle, TypeInv, ReqType, OpenRequests
<1> QED
  BY <1>1, <1>2, <1>3 DEF Session

(* A flush does not start or stop the process. *)
LEMMA FlushPhase == ASSUME FlushInv, Flush PROVE phase' = phase /\ phase # "down"
BY DEF Flush, timerFires, flushClientState, FlushInv, DownIdle

(* The clients' steps keep FlushInv. *)
LEMMA SessionFlush == ASSUME FlushInv, Session PROVE FlushInv'
<1>1. TypeInv'
  BY SessionTypes DEF FlushInv
<1>2. phase' = phase /\ phase # "down"
  BY SessionPhase
<1>3. TimerKnown' /\ FlushScheduled'
  <2>1. CASE UNCHANGED timerVars
    BY <1>2, <2>1 DEF timerVars, FlushInv, TimerKnown, FlushScheduled
  <2>2. CASE scheduleClientPersistLocked
    BY <1>2, <2>2, ScheduleFlush
  <2>3. UNCHANGED timerVars \/ scheduleClientPersistLocked
    BY DEF Session, authorizeClient, deviceBlocked, dialFails, registerRefused, registerSession,
           peerCloses, runCloser, unregister
  <2> QED
    BY <2>1, <2>2, <2>3
<1> QED
  BY <1>1, <1>2, <1>3 DEF FlushInv, DownIdle

(* Timers and their callbacks keep FlushInv. *)
LEMMA FlushFlush == ASSUME FlushInv, Flush PROVE FlushInv'
<1>1. TypeInv'
  BY FlushTypes DEF FlushInv
<1>2. phase' = phase /\ phase # "down"
  BY FlushPhase
<1>3. TimerKnown' /\ FlushScheduled'
  <2>1. CASE \E t \in Timers : timerFires(t)
    BY <2>1 DEF timerFires, FlushInv, TimerKnown, FlushScheduled
  <2>2. ASSUME NEW t \in Timers, NEW ok \in BOOLEAN, flushClientState(t, ok)
        PROVE  TimerKnown' /\ FlushScheduled'
    <3>1. CASE dirty /\ ok
      BY <2>2, <3>1 DEF flushClientState, TimerKnown, FlushScheduled
    <3>2. CASE dirty /\ ~ok
      <4>1. PICK u \in Timers : AfterFunc(u)
        BY <2>2, <3>2 DEF flushClientState, RetryFlush
      <4> QED
        BY <4>1 DEF AfterFunc, TimerKnown, FlushScheduled
    <3>3. CASE ~dirty
      BY <2>2, <3>3 DEF flushClientState, TimerKnown, FlushScheduled
    <3> QED
      BY <3>1, <3>2, <3>3
  <2> QED
    BY <2>1, <2>2 DEF Flush
<1> QED
  BY <1>1, <1>2, <1>3 DEF FlushInv, DownIdle

(* Starts, crashes and the shutdown keep FlushInv. *)
LEMMA ProcessFlush == ASSUME FlushInv, Process PROVE FlushInv'
<1>1. TypeInv'
  BY ProcessTypes DEF FlushInv
<1>2. ASSUME NEW i \in InstanceIDs, NEW ok \in BOOLEAN, start(i, ok) PROVE FlushInv'
  BY <1>1, <1>2
  DEF start, FlushInv, DownIdle, TimerKnown, FlushScheduled, timerVars, geoVars
<1>3. ASSUME NEW file, crash(file) PROVE FlushInv'
  BY <1>1, <1>3 DEF crash, Volatile, FlushInv, DownIdle, TimerKnown, FlushScheduled
<1>4. ASSUME beginShutdown PROVE FlushInv'
  BY <1>1, <1>4 DEF beginShutdown, FlushInv, DownIdle, TimerKnown, FlushScheduled, timerVars
<1>5. ASSUME NEW ok, finishShutdown(ok) PROVE FlushInv'
  BY <1>1, <1>5 DEF finishShutdown, Volatile, FlushInv, DownIdle, TimerKnown, FlushScheduled
<1>6. ASSUME tick PROVE FlushInv'
  BY <1>1, <1>6
  DEF tick, FlushInv, DownIdle, TimerKnown, FlushScheduled, timerVars, geoVars, Running
<1> QED
  BY <1>2, <1>3, <1>4, <1>5, <1>6 DEF Process

(* Lookups keep FlushInv. *)
LEMMA GeoFlush == ASSUME FlushInv, Geo PROVE FlushInv'
<1>1. TypeInv'
  BY GeoTypes DEF FlushInv
<1>2. phase' = phase
  BY DEF Geo, lookupStarts, lookupFails, lookupAnswers, lookupEnds, cacheExpires
<1>3. UNCHANGED timerVars \/ scheduleClientPersistLocked
  BY DEF Geo, lookupStarts, lookupFails, lookupAnswers, lookupEnds, cacheExpires
<1>4. TimerKnown' /\ FlushScheduled'
  BY <1>2, <1>3, ScheduleFlush DEF timerVars, FlushInv, TimerKnown, FlushScheduled
<1>5. DownIdle'
  <2>1. CASE phase # "down"
    BY <1>2, <2>1 DEF DownIdle
  <2>2. CASE phase = "down"
    BY <2>2 DEF Geo, cacheExpires, FlushInv, DownIdle, timerVars
  <2> QED
    BY <2>1, <2>2
<1> QED
  BY <1>1, <1>4, <1>5 DEF FlushInv

(* FlushInv always holds. *)
LEMMA SpecFlushInv == Spec => []FlushInv
<1>1. Init => FlushInv
  BY InitTypes DEF Init, FlushInv, DownIdle, TimerKnown, FlushScheduled
<1>2. FlushInv /\ [Next]_vars => FlushInv'
  <2> SUFFICES ASSUME FlushInv, [Next]_vars PROVE FlushInv'
    OBVIOUS
  <2>1. CASE UNCHANGED vars
    BY <2>1, StepTypes
    DEF vars, FlushInv, DownIdle, TimerKnown, FlushScheduled, timerVars, geoVars
  <2> QED
    BY <2>1, OwnerFlush, SessionFlush, FlushFlush, ProcessFlush, GeoFlush DEF Next
<1> QED
  BY <1>1, <1>2, PTL DEF Spec

(* Dirty client metadata always has a timer or a waiting callback to flush    *)
(* it, for any number of timers and any race between Stop and a callback.     *)
THEOREM ControlPlaneFlushScheduled == Spec => []FlushScheduled
BY SpecFlushInv, PTL DEF FlushInv

-----------------------------------------------------------------------------
(* Memory and file, where a failed write leaves the file alone *)

(* The part of controlState that only owner operations change. *)
SameOwnerPart(a, b) ==
    /\ a.instance = b.instance /\ a.added = b.added
    /\ a.revoked = b.revoked /\ a.deleted = b.deleted

DurableInv == FlushInv /\ CleanMeansDurable /\ OwnerChangesDurable

(* Pruning and migration touch devices only. *)
LEMMA MigrateKeepsOwnerPart ==
    ASSUME NEW st \in State, NEW id, NEW h, NEW gone
    PROVE  SameOwnerPart(migrateClientIdentity(Forget(st, gone), id, h), st)
<1>1. ASSUME NEW a \in State, NEW old, NEW new
      PROVE  mergeClientKey(a, old, new) = [a EXCEPT !.clients = mergeClientKey(a, old, new).clients,
                                                    !.blocked = mergeClientKey(a, old, new).blocked]
  BY DEF mergeClientKey, State
<1>2. Forget(st, gone) \in State /\ SameOwnerPart(Forget(st, gone), st)
  BY ForgetType DEF Forget, SameOwnerPart, State
<1> QED
  BY <1>2 DEF migrateClientIdentity, MergeIf, mergeClientKey, SameOwnerPart, State

(* A registration changes nothing the owner decides. *)
LEMMA RegisterKeepsOwnerPart ==
    ASSUME TypeInv, NEW r \in Requests, NEW gone, registerSession(r, gone)
    PROVE  SameOwnerPart(state', state)
<1> DEFINE h   == req[r].hdr
           id  == req[r].id
           key == <<id, DeviceOf(h)>>
           mig == migrateClientIdentity(Forget(state, gone), id, h)
<1>1. req[r] \in Request
  BY DEF TypeInv, ReqType, registerSession, At
<1>2. mig \in State
  BY <1>1, SetsAssumption, ForgetType, MigrateType DEF Request, TypeInv
<1>3. SameOwnerPart(mig, state)
  BY MigrateKeepsOwnerPart DEF TypeInv
<1>4. PICK c : state' = [mig EXCEPT !.clients[key] = c]
  BY DEF registerSession
<1> HIDE DEF mig, key
<1> QED
  BY <1>2, <1>3, <1>4 DEF SameOwnerPart, State

(* A critical change writes what it leaves in memory, or changes nothing. *)
LEMMA CriticalDurable ==
    ASSUME DurableInv, ~Windows, NEW new, NEW ok \in BOOLEAN, Critical(new, ok), phase' = phase,
           phase # "down", new \in State
    PROVE  CleanMeansDurable' /\ OwnerChangesDurable'
<1>1. CASE ok
  <2>1. disk' = new /\ state' = new
    BY <1>1 DEF Critical, persistCriticalLocked, persistLocked
  <2> QED
    BY <2>1, NullsAssumption DEF CleanMeansDurable, OwnerChangesDurable
<1>2. CASE ~ok
  <2>1. UNCHANGED <<disk, state, dirty>>
    BY <1>2 DEF Critical, persistCriticalLocked, persistLocked, fileVars, timerVars, rollback
  <2> QED
    BY <2>1 DEF DurableInv, CleanMeansDurable, OwnerChangesDurable, Running
<1> QED
  BY <1>1, <1>2

(* A change of device metadata that is scheduled leaves the owner's part. *)
LEMMA ScheduledDurable ==
    ASSUME DurableInv, scheduleClientPersistLocked, SameOwnerPart(state', state),
           phase' = phase, disk' = disk
    PROVE  CleanMeansDurable' /\ OwnerChangesDurable'
BY DEF DurableInv, CleanMeansDurable, OwnerChangesDurable, scheduleClientPersistLocked,
       SameOwnerPart, Running

(* A step that changes neither the file nor memory nor its mark leaves both *)
(* durable.                                                                 *)
LEMMA StillDurable ==
    ASSUME DurableInv, UNCHANGED <<disk, state, dirty>>, phase' = "down" \/ phase # "down"
    PROVE  CleanMeansDurable' /\ OwnerChangesDurable'
BY DEF DurableInv, CleanMeansDurable, OwnerChangesDurable, Running

(* The owner's operations keep DurableInv. *)
LEMMA OwnerDurable ==
    ASSUME DurableInv, ~Windows, Owner PROVE CleanMeansDurable' /\ OwnerChangesDurable'
<1> USE DEF DurableInv, FlushInv
<1>1. phase' = phase /\ phase # "down"
  BY DEF Owner, createToken, deleteToken, disconnectDevice, setDeviceBlocked, Running
<1>2. CASE \E k \in Keys : disconnectDevice(k)
  BY <1>1, <1>2, StillDurable DEF disconnectDevice, timerVars, fileVars
<1>3. ASSUME NEW o \in Offers, NEW ok \in BOOLEAN, createToken(o, ok)
      PROVE  CleanMeansDurable' /\ OwnerChangesDurable'
  <2>1. PICK n \in 1..MaxStamp :
           Critical([state EXCEPT !.added = @ \cup
                      {[id |-> o.id, name |-> o.name, hash |-> o.hash, at |-> n]}], ok)
    BY <1>3 DEF createToken
  <2>2. [id |-> o.id, name |-> o.name, hash |-> o.hash, at |-> n] \in Token
    BY TokensAssumption, SetsAssumption, BoundsAssumption DEF Token
  <2>3. [state EXCEPT !.added = @ \cup
            {[id |-> o.id, name |-> o.name, hash |-> o.hash, at |-> n]}] \in State
    BY <2>2 DEF TypeInv, State
  <2> QED
    BY <1>1, <2>1, <2>3, CriticalDurable
<1>4. ASSUME NEW t \in BaseTokens \cup state.added, NEW ok \in BOOLEAN, deleteToken(t, ok)
      PROVE  CleanMeansDurable' /\ OwnerChangesDurable'
  <2>1. t \in Token
    BY TokensAssumption DEF TypeInv, State
  <2>2. Deleted(state, t) \in State
    BY <2>1, DeletedType DEF TypeInv
  <2> QED
    BY <1>1, <1>4, <2>2, CriticalDurable DEF deleteToken
<1>5. ASSUME NEW k \in Keys, NEW block \in BOOLEAN, NEW ok \in BOOLEAN,
             setDeviceBlocked(k, block, ok)
      PROVE  CleanMeansDurable' /\ OwnerChangesDurable'
  <2>1. [state EXCEPT !.blocked = IF block THEN @ \cup {k} ELSE @ \ {k}] \in State
    BY DEF TypeInv, State
  <2> QED
    BY <1>1, <1>5, <2>1, CriticalDurable DEF setDeviceBlocked
<1> QED
  BY <1>2, <1>3, <1>4, <1>5 DEF Owner

(* The clients' steps keep DurableInv. *)
LEMMA SessionDurable ==
    ASSUME DurableInv, Session, phase # "down", phase' = phase
    PROVE  CleanMeansDurable' /\ OwnerChangesDurable'
<1>1. ASSUME NEW r \in Requests, NEW gone, registerSession(r, gone)
      PROVE  CleanMeansDurable' /\ OwnerChangesDurable'
  <2>1. SameOwnerPart(state', state)
    BY <1>1, RegisterKeepsOwnerPart DEF DurableInv, FlushInv
  <2>2. scheduleClientPersistLocked /\ disk' = disk
    BY <1>1 DEF registerSession, fileVars
  <2> QED
    BY <2>1, <2>2, ScheduledDurable
<1>2. ASSUME NEW r \in Requests, unregister(r)
      PROVE  CleanMeansDurable' /\ OwnerChangesDurable'
  <2>1. SameOwnerPart(state', state)
    BY <1>2 DEF unregister, Seen, SameOwnerPart, DurableInv, FlushInv, TypeInv, State
  <2>2. scheduleClientPersistLocked /\ disk' = disk
    BY <1>2 DEF unregister, fileVars
  <2> QED
    BY <2>1, <2>2, ScheduledDurable
<1>3. CASE UNCHANGED <<disk, state, dirty>>
  BY <1>3, StillDurable
<1> QED
  BY <1>1, <1>2, <1>3
  DEF Session, authorizeClient, deviceBlocked, dialFails, registerRefused, peerCloses, runCloser,
      fileVars, timerVars

(* Timers and their callbacks keep DurableInv. *)
LEMMA FlushDurable ==
    ASSUME DurableInv, ~Windows, Flush, phase # "down", phase' = phase
    PROVE  CleanMeansDurable' /\ OwnerChangesDurable'
<1>1. CASE \E t \in Timers : timerFires(t)
  BY <1>1, StillDurable DEF timerFires, fileVars
<1>2. ASSUME NEW t \in Timers, NEW ok \in BOOLEAN, flushClientState(t, ok)
      PROVE  CleanMeansDurable' /\ OwnerChangesDurable'
  <2>1. CASE dirty /\ ok
    <3>1. disk' = state /\ state' = state
      BY <1>2, <2>1 DEF flushClientState, persistLocked
    <3> QED
      BY <3>1, NullsAssumption
      DEF CleanMeansDurable, OwnerChangesDurable, DurableInv, FlushInv, TypeInv
  <2>2. CASE dirty /\ ~ok
    BY <1>2, <2>2, StillDurable DEF flushClientState, persistLocked, fileVars
  <2>3. CASE ~dirty
    BY <1>2, <2>3, StillDurable DEF flushClientState, fileVars
  <2> QED
    BY <2>1, <2>2, <2>3
<1> QED
  BY <1>1, <1>2 DEF Flush

(* Starts, crashes and the shutdown keep DurableInv. *)
LEMMA ProcessDurable ==
    ASSUME DurableInv, ~Windows, Process PROVE CleanMeansDurable' /\ OwnerChangesDurable'
<1>1. ASSUME NEW i \in InstanceIDs, NEW ok \in BOOLEAN, start(i, ok)
      PROVE  CleanMeansDurable' /\ OwnerChangesDurable'
  <2>1. CASE ok
    <3>1. disk' = Loaded(i) /\ state' = Loaded(i)
      BY <1>1, <2>1 DEF start, persistLocked
    <3>2. Loaded(i) # NoFile
      BY EmptyStateType, NullsAssumption DEF Loaded
    <3> QED
      BY <3>1, <3>2 DEF CleanMeansDurable, OwnerChangesDurable
  <2>2. CASE ~ok
    BY <1>1, <2>2 DEF start, CleanMeansDurable, OwnerChangesDurable, Running
  <2> QED
    BY <2>1, <2>2
<1>2. ASSUME NEW file, crash(file) PROVE CleanMeansDurable' /\ OwnerChangesDurable'
  BY <1>2 DEF crash, CleanMeansDurable, OwnerChangesDurable, Running
<1>3. ASSUME beginShutdown PROVE CleanMeansDurable' /\ OwnerChangesDurable'
  BY <1>3, StillDurable DEF beginShutdown, fileVars, timerVars
<1>4. ASSUME NEW ok, finishShutdown(ok) PROVE CleanMeansDurable' /\ OwnerChangesDurable'
  BY <1>4 DEF finishShutdown, CleanMeansDurable, OwnerChangesDurable, Running
<1>5. ASSUME tick PROVE CleanMeansDurable' /\ OwnerChangesDurable'
  BY <1>5, StillDurable DEF tick, fileVars, timerVars, Running
<1> QED
  BY <1>1, <1>2, <1>3, <1>4, <1>5 DEF Process

(* Lookups keep DurableInv. *)
LEMMA GeoDurable ==
    ASSUME DurableInv, Geo, phase' = phase
    PROVE  CleanMeansDurable' /\ OwnerChangesDurable'
<1>1. SameOwnerPart(state', state)
  BY DEF Geo, lookupStarts, lookupFails, lookupAnswers, lookupEnds, cacheExpires, SetCountry,
         SameOwnerPart, DurableInv, FlushInv, TypeInv, State
<1>2. UNCHANGED disk
  BY DEF Geo, lookupStarts, lookupFails, lookupAnswers, lookupEnds, cacheExpires, fileVars
<1>3. (UNCHANGED <<state, timerVars>>) \/ scheduleClientPersistLocked
  BY DEF Geo, lookupStarts, lookupFails, lookupAnswers, lookupEnds, cacheExpires
<1>4. CASE scheduleClientPersistLocked
  BY <1>1, <1>2, <1>4, ScheduledDurable
<1>5. CASE UNCHANGED <<state, timerVars>>
  BY <1>2, <1>5 DEF timerVars, DurableInv, CleanMeansDurable, OwnerChangesDurable, Running
<1> QED
  BY <1>3, <1>4, <1>5

(* DurableInv always holds where the rename is atomic. *)
LEMMA SpecDurableInv == ASSUME ~Windows PROVE Spec => []DurableInv
<1>1. Init => DurableInv
  <2>1. Init => FlushInv
    BY InitTypes DEF Init, FlushInv, DownIdle, TimerKnown, FlushScheduled
  <2> QED
    BY <2>1 DEF Init, DurableInv, CleanMeansDurable, OwnerChangesDurable, Running
<1>2. DurableInv /\ [Next]_vars => DurableInv'
  <2> SUFFICES ASSUME DurableInv, [Next]_vars PROVE DurableInv'
    OBVIOUS
  <2>1. FlushInv'
    <3>1. CASE UNCHANGED vars
      BY <3>1, StepTypes
      DEF vars, DurableInv, FlushInv, DownIdle, TimerKnown, FlushScheduled, timerVars, geoVars
    <3> QED
      BY <3>1, OwnerFlush, SessionFlush, FlushFlush, ProcessFlush, GeoFlush DEF Next, DurableInv
  <2>2. Session \/ Flush => phase # "down" /\ phase' = phase
    BY SessionPhase, FlushPhase DEF DurableInv
  <2>3. Geo => phase' = phase
    BY DEF Geo, lookupStarts, lookupFails, lookupAnswers, lookupEnds, cacheExpires
  <2>4. CASE UNCHANGED vars
    BY <2>1, <2>4
    DEF vars, fileVars, timerVars, DurableInv, CleanMeansDurable, OwnerChangesDurable, Running
  <2> QED
    BY <2>1, <2>2, <2>3, <2>4, OwnerDurable, SessionDurable, FlushDurable, ProcessDurable, GeoDurable
    DEF Next, DurableInv
<1> QED
  BY <1>1, <1>2, PTL DEF Spec

(* When nothing is marked dirty, memory equals the file; on every system      *)
(* where a failed replacement leaves the old file (all but Windows).          *)
THEOREM ControlPlaneCleanMeansDurable == ASSUME ~Windows PROVE Spec => []CleanMeansDurable
BY SpecDurableInv, PTL DEF DurableInv

(* Tokens, revocations, tombstones and the identity in memory always are      *)
(* those of the file: acknowledged changes are written, failed ones are       *)
(* rolled back exactly.                                                       *)
THEOREM ControlPlaneOwnerChangesDurable == ASSUME ~Windows PROVE Spec => []OwnerChangesDurable
BY SpecDurableInv, PTL DEF DurableInv

(* A relay that runs has not reported how it ended. *)
LEMMA RunningNotEnded ==
    Spec => [](Running => exit = "none")
<1> DEFINE NotEnded == Running => exit = "none"
<1>1. Init => NotEnded
  BY DEF Init, Running
<1>2. NotEnded /\ [Next]_vars => NotEnded'
  <2> SUFFICES ASSUME NotEnded, [Next]_vars PROVE NotEnded'
    OBVIOUS
  <2>1. CASE UNCHANGED <<phase, exit>>
    BY <2>1 DEF Running
  <2>2. CASE Owner
    BY <2>1, <2>2 DEF Owner, createToken, deleteToken, disconnectDevice, setDeviceBlocked
  <2>3. CASE Session
    BY <2>1, <2>3 DEF Session, authorizeClient, deviceBlocked, dialFails, registerRefused,
                      registerSession, peerCloses, runCloser, unregister
  <2>4. CASE Flush
    BY <2>1, <2>4 DEF Flush, timerFires, flushClientState
  <2>5. CASE Geo
    BY <2>1, <2>5 DEF Geo, lookupStarts, lookupFails, lookupAnswers, lookupEnds, cacheExpires
  <2>6. CASE Process
    <3>1. ASSUME NEW i \in InstanceIDs, NEW ok \in BOOLEAN, start(i, ok) PROVE NotEnded'
      BY <3>1 DEF start, Running
    <3>2. ASSUME NEW file, crash(file) PROVE NotEnded'
      BY <3>2 DEF crash, Running
    <3>3. ASSUME beginShutdown PROVE NotEnded'
      BY <3>3 DEF beginShutdown, Running
    <3>4. ASSUME NEW ok \in BOOLEAN, finishShutdown(ok) PROVE NotEnded'
      BY <3>4 DEF finishShutdown, Running
    <3>5. CASE tick
      BY <2>1, <3>5 DEF tick
    <3> QED
      BY <2>6, <3>1, <3>2, <3>3, <3>4, <3>5 DEF Process
  <2>7. CASE UNCHANGED vars
    BY <2>1, <2>7 DEF vars
  <2> QED
    BY <2>2, <2>3, <2>4, <2>5, <2>6, <2>7 DEF Next
<1> QED
  BY <1>1, <1>2, PTL DEF Spec

(* The step that ends the process with success. *)
LEMMA SuccessIsFinish ==
    ASSUME Running => exit = "none", [Next]_vars, phase = "stopping", exit' = "ok"
    PROVE  finishShutdown(TRUE)
<1>1. exit = "none" /\ phase # "down"
  BY DEF Running
<1>2. exit' # exit
  BY <1>1
<1>3. Process
  BY <1>2
  DEF Next, vars, Owner, createToken, deleteToken, disconnectDevice, setDeviceBlocked,
      Session, authorizeClient, deviceBlocked, dialFails, registerRefused,
      registerSession, peerCloses, runCloser, unregister, Flush, timerFires, flushClientState,
      Geo, lookupStarts, lookupFails, lookupAnswers, lookupEnds, cacheExpires
<1>4. PICK ok \in BOOLEAN : finishShutdown(ok)
  BY <1>1, <1>2, <1>3 DEF Process, start, crash, beginShutdown, tick
<1>5. ok
  BY <1>4 DEF finishShutdown
<1>6. ok = TRUE
  BY <1>5
<1> QED
  BY <1>4, <1>6

(* A shutdown that reports success leaves a file with everything that memory  *)
(* held: what is dirty is written by it, what is not dirty was in the file.   *)
THEOREM ControlPlaneShutdownFlushes == ASSUME ~Windows PROVE Spec => ShutdownFlushes
<1>1. ASSUME DurableInv, Running => exit = "none", [Next]_vars
      PROVE  [phase = "stopping" /\ exit' = "ok" => disk' = state]_vars
  <2> SUFFICES ASSUME phase = "stopping", exit' = "ok" PROVE disk' = state
    OBVIOUS
  <2>1. finishShutdown(TRUE)
    BY <1>1, SuccessIsFinish
  <2>2. CASE dirty
    BY <2>1, <2>2 DEF finishShutdown, FinalFlush, persistLocked
  <2>3. CASE ~dirty
    BY <1>1, <2>1, <2>3
    DEF finishShutdown, FinalFlush, fileVars, DurableInv, CleanMeansDurable, Running
  <2> QED
    BY <2>2, <2>3
<1> QED
  BY <1>1, SpecDurableInv, RunningNotEnded, PTL DEF Spec, ShutdownFlushes

-----------------------------------------------------------------------------
(* What the file says for ever, where directories can be synced as well *)

(* No step of a running relay takes a revocation, a tombstone or the identity *)
(* out of memory.                                                             *)
Grows(old, new) ==
    old.revoked \subseteq new.revoked /\ old.deleted \subseteq new.deleted /\ old.instance = new.instance

(* A critical change writes a state that grows, or restores the old one. *)
LEMMA CriticalGrows ==
    ASSUME NEW new, NEW ok \in BOOLEAN, Critical(new, ok), Grows(state, new)
    PROVE  Grows(state, state')
BY DEF Critical, rollback, Grows

(* The owner only adds revocations and tombstones. *)
LEMMA OwnerGrows == ASSUME TypeInv, Owner PROVE Grows(state, state')
<1>1. CASE \E k \in Keys : disconnectDevice(k)
  BY <1>1 DEF disconnectDevice, Grows
<1>2. ASSUME NEW o \in Offers, NEW ok \in BOOLEAN, createToken(o, ok) PROVE Grows(state, state')
  <2>1. PICK n \in 1..MaxStamp :
           Critical([state EXCEPT !.added = @ \cup
                      {[id |-> o.id, name |-> o.name, hash |-> o.hash, at |-> n]}], ok)
    BY <1>2 DEF createToken
  <2> QED
    BY <2>1, CriticalGrows DEF Grows, TypeInv, State
<1>3. ASSUME NEW t \in BaseTokens \cup state.added, NEW ok \in BOOLEAN, deleteToken(t, ok)
      PROVE  Grows(state, state')
  <2>1. Grows(state, Deleted(state, t))
    BY DEF Deleted, Grows, TypeInv, State
  <2> QED
    BY <1>3, <2>1, CriticalGrows DEF deleteToken
<1>4. ASSUME NEW k \in Keys, NEW block \in BOOLEAN, NEW ok \in BOOLEAN, setDeviceBlocked(k, block, ok)
      PROVE  Grows(state, state')
  <2>1. Grows(state, [state EXCEPT !.blocked = IF block THEN @ \cup {k} ELSE @ \ {k}])
    BY DEF Grows, TypeInv, State
  <2> QED
    BY <1>4, <2>1, CriticalGrows DEF setDeviceBlocked
<1> QED
  BY <1>1, <1>2, <1>3, <1>4 DEF Owner

(* The other steps leave them alone. *)
LEMMA DeviceStepsGrow ==
    ASSUME TypeInv, Session \/ Flush \/ Geo PROVE Grows(state, state')
<1>1. ASSUME NEW r \in Requests, NEW gone, registerSession(r, gone) PROVE Grows(state, state')
  BY <1>1, RegisterKeepsOwnerPart DEF SameOwnerPart, Grows
<1>2. ASSUME NEW r \in Requests, unregister(r) PROVE Grows(state, state')
  BY <1>2 DEF unregister, Seen, Grows, TypeInv, State
<1>3. ASSUME Session, UNCHANGED state PROVE Grows(state, state')
  BY <1>3 DEF Grows
<1>4. CASE Session
  BY <1>1, <1>2, <1>3, <1>4
  DEF Session, authorizeClient, deviceBlocked, dialFails, registerRefused, peerCloses, runCloser
<1>5. CASE Flush
  BY <1>5 DEF Flush, timerFires, flushClientState, Grows
<1>6. CASE Geo
  BY <1>6 DEF Geo, lookupStarts, lookupFails, lookupAnswers, lookupEnds, cacheExpires, SetCountry,
              Grows, TypeInv, State
<1> QED
  BY <1>4, <1>5, <1>6

(* A power loss brings back what the file held. *)
Synced == platter = disk

SyncedInv == DurableInv /\ Synced

(* Where directories can be synced, a write reaches the platter. *)
LEMMA PersistSynced ==
    ASSUME ~Windows, ~DirSyncMayFail, Synced, NEW st, NEW ok, persistLocked(st, ok)
    PROVE  Synced'
BY DEF persistLocked, fileVars, Synced

(* So disk and platter stay the same. *)
LEMMA StepSynced ==
    ASSUME SyncedInv, ~Windows, ~DirSyncMayFail, [Next]_vars PROVE Synced'
<1> USE DEF SyncedInv, Synced
<1>1. CASE UNCHANGED vars
  BY <1>1 DEF vars, fileVars
<1>2. CASE Owner
  BY <1>2, PersistSynced
  DEF Owner, createToken, deleteToken, disconnectDevice, setDeviceBlocked, Critical,
      persistCriticalLocked, fileVars
<1>3. CASE Session
  BY <1>3 DEF Session, authorizeClient, deviceBlocked, dialFails, registerRefused, peerCloses,
              runCloser, registerSession, unregister, fileVars
<1>4. CASE Flush
  BY <1>4, PersistSynced DEF Flush, timerFires, flushClientState, fileVars
<1>5. CASE Process
  BY <1>5, PersistSynced
  DEF Process, start, crash, beginShutdown, finishShutdown, FinalFlush, tick, fileVars
<1>6. CASE Geo
  BY <1>6 DEF Geo, lookupStarts, lookupFails, lookupAnswers, lookupEnds, cacheExpires, fileVars
<1> QED
  BY <1>1, <1>2, <1>3, <1>4, <1>5, <1>6 DEF Next

(* The body of RevocationIsForever. *)
FileGrows ==
    /\ StaysDeleted
    /\ disk # NoFile => disk' # NoFile /\ disk'.instance = disk.instance

StaysUp == phase # "down" /\ phase' # "down"

(* While the relay runs, the file follows memory. *)
LEMMA RunningGrows ==
    ASSUME DurableInv, DurableInv', StaysUp, Grows(state, state') PROVE FileGrows
BY DEF DurableInv, OwnerChangesDurable, Running, StaysUp, Grows, FileGrows, StaysDeleted, RevokedIn, DeletedIn

(* A write of a state that grows loses no revocation. *)
LEMMA WriteKeeps ==
    ASSUME ~Windows, NEW st, NEW ok, persistLocked(st, ok), st # NoFile,
           disk = NoFile \/ Grows(disk, st)
    PROVE  FileGrows
BY DEF persistLocked, fileVars, Grows, FileGrows, StaysDeleted, RevokedIn, DeletedIn

(* Nor does a restart, from the disk or from the platter. *)
LEMMA ProcessKeeps ==
    ASSUME SyncedInv, SyncedInv', ~Windows, Process PROVE FileGrows
<1> USE DEF SyncedInv, Synced
<1>1. ASSUME NEW i \in InstanceIDs, NEW ok \in BOOLEAN, start(i, ok) PROVE FileGrows
  <2>1. Loaded(i) # NoFile
    BY EmptyStateType, NullsAssumption DEF Loaded
  <2>2. disk = NoFile \/ Grows(disk, Loaded(i))
    BY DEF Loaded, Grows
  <2> QED
    BY <1>1, <2>1, <2>2, WriteKeeps DEF start
<1>2. CASE UNCHANGED disk
  BY <1>2 DEF FileGrows, StaysDeleted
<1>3. ASSUME NEW ok \in BOOLEAN, finishShutdown(ok) PROVE FileGrows
  <2>1. state # NoFile
    BY NullsAssumption DEF DurableInv, FlushInv, TypeInv
  <2>2. Grows(disk, state)
    BY <1>3 DEF finishShutdown, DurableInv, OwnerChangesDurable, Running, Grows
  <2>3. CASE dirty
    BY <1>3, <2>1, <2>2, <2>3, WriteKeeps DEF finishShutdown, FinalFlush
  <2>4. CASE ~dirty
    BY <1>2, <1>3, <2>4 DEF finishShutdown, FinalFlush, fileVars
  <2> QED
    BY <2>3, <2>4
<1> QED
  BY <1>1, <1>2, <1>3 DEF Process, crash, beginShutdown, tick, fileVars

(* What the file says of revocations, deletions and the identity it says for  *)
(* ever: through failed writes, crashes, power losses and restarts, where a   *)
(* failed replacement leaves the old file and directories can be synced.      *)
THEOREM ControlPlaneRevocationIsForever ==
    ASSUME ~Windows, ~DirSyncMayFail PROVE Spec => RevocationIsForever
<1>1. Init => Synced
  BY DEF Init, Synced
<1>2. DurableInv /\ DurableInv' /\ Synced /\ [Next]_vars => Synced' /\ [FileGrows]_vars
  <2> SUFFICES ASSUME DurableInv, DurableInv', Synced, [Next]_vars
               PROVE  Synced' /\ [FileGrows]_vars
    OBVIOUS
  <2>1. Synced'
    BY StepSynced DEF SyncedInv
  <2>2. CASE UNCHANGED vars
    BY <2>1, <2>2
  <2>3. CASE Process
    BY <2>1, <2>3, ProcessKeeps DEF SyncedInv
  <2>4. CASE Owner
    <3>1. StaysUp
      BY <2>4 DEF Owner, createToken, deleteToken, disconnectDevice, setDeviceBlocked, Running, StaysUp
    <3> QED
      BY <2>1, <2>4, <3>1, OwnerGrows, RunningGrows DEF DurableInv, FlushInv
  <2>5. CASE Session \/ Flush
    <3>1. StaysUp
      BY <2>5, SessionPhase, FlushPhase DEF DurableInv, StaysUp
    <3> QED
      BY <2>1, <2>5, <3>1, DeviceStepsGrow, RunningGrows DEF DurableInv, FlushInv
  <2>6. CASE Geo
    <3>1. phase' = phase /\ UNCHANGED disk
      BY <2>6 DEF Geo, lookupStarts, lookupFails, lookupAnswers, lookupEnds, cacheExpires, fileVars
    <3> QED
      BY <2>1, <3>1 DEF FileGrows, StaysDeleted
  <2> QED
    BY <2>2, <2>3, <2>4, <2>5, <2>6 DEF Next
<1>3. Spec => []DurableInv
  BY SpecDurableInv
<1>4. Spec => [][FileGrows]_vars
  BY <1>1, <1>2, <1>3, PTL DEF Spec
<1> QED
  BY <1>4 DEF RevocationIsForever, FileGrows

-----------------------------------------------------------------------------
(* Tombstones, revocations and a file that can be loaded *)

Issued(pair) == \E t \in BaseTokens \cup Offers : t.id = pair[1] /\ t.hash = pair[2]

(* A secret is offered for one identifier only.  The code does not see to it:  *)
(* a token deleted and created again with its secret under another identifier *)
(* is the case in which registerSession's recheck, by hash, is not enough.    *)
OneIDPerSecret == \A t, u \in BaseTokens \cup Offers : t.hash = u.hash => t.id = u.id

AddedIssued(file) == \A t \in file.added : Issued(<<t.id, t.hash>>)

(* What every state in memory and in a file satisfies: identifiers and hashes *)
(* are distinct, and tombstones and revocations agree on what is deleted.     *)
TokensRight(st) ==
    /\ AddedIssued(st)
    /\ \A t, u \in BaseTokens \cup st.added : t.id = u.id \/ t.hash = u.hash => t = u
    /\ \A t \in st.added : t.id \in TokIDs /\ t.at # 0
    /\ \A t \in BaseTokens \cup st.added : t.id \in st.deleted => t.hash \in st.revoked
    /\ \A t \in BaseTokens \cup st.added :
          t.hash \in st.revoked /\ t.id \in TokIDs => t.id \in st.deleted
    /\ st.revoked \subseteq {b.hash : b \in BaseTokens}

Finite(st) == IsFiniteSet(st.added) /\ IsFiniteSet(st.revoked) /\ IsFiniteSet(st.deleted)

StateRight(st) == st \in State /\ TokensRight(st) /\ Finite(st) /\ load(st)

FilesRight ==
    /\ StateRight(state)
    /\ disk # NoFile => StateRight(disk)
    /\ platter # NoFile => StateRight(platter)

(* The active tokens depend only on the owner's part. *)
LEMMA SameTokens ==
    ASSUME NEW a, NEW b, SameOwnerPart(a, b)
    PROVE  TokenIDsOf(a) = TokenIDsOf(b)
BY DEF SameOwnerPart, TokenIDsOf, allTokens

(* The empty state is one the next start accepts. *)
LEMMA EmptyRight == \A i \in InstanceIDs : StateRight(EmptyState(i))
<1> SUFFICES ASSUME NEW i \in InstanceIDs PROVE StateRight(EmptyState(i))
  OBVIOUS
<1> DEFINE st == EmptyState(i)
<1>1. st \in State /\ st.added = {} /\ st.revoked = {} /\ st.deleted = {} /\ st.blocked = {}
  BY EmptyStateType DEF EmptyState
<1>2. Known(st) = {}
  BY DEF EmptyState, Known
<1> HIDE DEF st
<1>3. TokensRight(st)
  <2>1. \A t, u \in BaseTokens : t.id = u.id \/ t.hash = u.hash => t = u
    BY TokensAssumption
  <2> QED
    BY <1>1, <2>1 DEF TokensRight, AddedIssued
<1>4. Finite(st) /\ load(st)
  BY <1>1, <1>2, FS_EmptySet, BoundsAssumption DEF Finite, load
<1> QED
  BY <1>1, <1>3, <1>4 DEF StateRight, st

(* Configured tokens are not among the added ones, and of a state that is right *)
(* no token hides another: the active tokens are those that are not revoked.    *)
LEMMA RightActive ==
    ASSUME NEW st \in State, TokensRight(st)
    PROVE  /\ BaseTokens \cap st.added = {}
           /\ allTokens(st) = {t \in BaseTokens \cup st.added : t.hash \notin st.revoked}
           /\ st.added \subseteq allTokens(st)
<1>1. BaseTokens \cap st.added = {}
  BY TokensAssumption DEF TokensRight
<1>2. \A t \in BaseTokens \cup st.added : t.at \in Nat
  BY TokensAssumption, BoundsAssumption DEF State, Token
<1>3. allTokens(st) = {t \in BaseTokens \cup st.added : t.hash \notin st.revoked}
  <2>1. \A t, u \in BaseTokens \cup st.added : u.hash = t.hash => t.at <= u.at
    BY <1>2 DEF TokensRight
  <2> QED
    BY <2>1 DEF allTokens
<1>4. \A t \in st.added : t.hash \notin st.revoked
  BY <1>1 DEF TokensRight
<1> QED
  BY <1>1, <1>3, <1>4

(* A token that is created is new: its identifier is that of no token and of no *)
(* tombstone, and its secret that of no token, although an idempotency key may  *)
(* be used again.                                                               *)
LEMMA CreatedIsNew ==
    ASSUME TokensRight(state), state \in State, OneIDPerSecret,
           NEW o \in Offers, IDAvailable(o), ~KeyTaken(o)
    PROVE  /\ o.id \in TokIDs /\ o.id \notin state.deleted
           /\ \A t \in BaseTokens \cup state.added : t.id # o.id /\ t.hash # o.hash
<1>1. o.id \in TokIDs
  BY TokensAssumption
<1>2. o.id \notin state.deleted
  BY DEF IDAvailable, KeyTaken
<1>3. ASSUME NEW t \in BaseTokens \cup state.added, t.id = o.id PROVE FALSE
  <2>1. o.id \in KeyIDs
    BY <1>3 DEF IDAvailable
  <2>2. t \notin allTokens(state)
    BY <1>3, <2>1 DEF KeyTaken, TokenIDsOf
  <2>3. t.hash \in state.revoked
    BY <2>2, RightActive
  <2> QED
    BY <1>1, <1>2, <1>3, <2>3 DEF TokensRight
<1>4. ASSUME NEW t \in BaseTokens \cup state.added, t.hash = o.hash PROVE FALSE
  <2>1. Issued(<<t.id, t.hash>>) /\ Issued(<<o.id, o.hash>>)
    BY DEF TokensRight, AddedIssued, Issued
  <2>2. t.id = o.id
    BY <1>4, <2>1 DEF Issued, OneIDPerSecret
  <2> QED
    BY <1>3, <2>2
<1> QED
  BY <1>1, <1>2, <1>3, <1>4

(* A creation with a new secret leaves such a state. *)
LEMMA CreatedRight ==
    ASSUME StateRight(state), OneIDPerSecret, NEW o \in Offers, NEW n \in 1..MaxStamp,
           IDAvailable(o), ~KeyTaken(o), RoomForToken
    PROVE  StateRight([state EXCEPT !.added = @ \cup
                        {[id |-> o.id, name |-> o.name, hash |-> o.hash, at |-> n]}])
<1> DEFINE u   == [id |-> o.id, name |-> o.name, hash |-> o.hash, at |-> n]
           new == [state EXCEPT !.added = @ \cup {u}]
<1>1. u \in Token /\ u.id = o.id /\ u.hash = o.hash /\ u.at # 0
  BY TokensAssumption, SetsAssumption, BoundsAssumption DEF Token
<1>2. state \in State /\ TokensRight(state) /\ Finite(state) /\ load(state)
  BY DEF StateRight
<1>3. Issued(<<u.id, u.hash>>)
  BY DEF Issued
<1> HIDE DEF u
<1>4. /\ new \in State /\ new.added = state.added \cup {u}
      /\ new.revoked = state.revoked /\ new.deleted = state.deleted
      /\ new.clients = state.clients /\ new.blocked = state.blocked
  BY <1>1, <1>2 DEF State
<1> HIDE DEF new
<1>5. /\ u.id \in TokIDs /\ u.id \notin state.deleted
      /\ \A t \in BaseTokens \cup state.added : t.id # u.id /\ t.hash # u.hash
  BY <1>1, <1>2, CreatedIsNew
<1>6. u.hash \notin state.revoked
  BY <1>2, <1>5 DEF TokensRight
<1>7. TokensRight(new)
  BY <1>1, <1>2, <1>3, <1>4, <1>5, <1>6 DEF TokensRight, AddedIssued
<1>8. Finite(new)
  BY <1>2, <1>4, FS_AddElement DEF Finite
<1>9. Cardinality(new.added) <= MaxTokens
  <2>1. IsFiniteSet(allTokens(state))
    <3>1. IsFiniteSet(BaseTokens \cup state.added)
      BY <1>2, FS_Union, TokensAssumption DEF Finite
    <3>2. allTokens(state) \in SUBSET (BaseTokens \cup state.added)
      BY DEF allTokens
    <3> QED
      BY <3>1, <3>2, FS_Subset
  <2>2. state.added \in SUBSET allTokens(state)
    BY <1>2, RightActive
  <2>3. Cardinality(state.added) <= Cardinality(allTokens(state))
    BY <2>1, <2>2, FS_Subset
  <2>4. Cardinality(new.added) \in {Cardinality(state.added), Cardinality(state.added) + 1}
    BY <1>2, <1>4, FS_AddElement DEF Finite
  <2>5. /\ Cardinality(state.added) \in Nat /\ Cardinality(new.added) \in Nat
        /\ Cardinality(allTokens(state)) \in Nat
    BY <1>2, <1>8, <2>1, FS_CardinalityType DEF Finite
  <2> QED
    BY <2>3, <2>4, <2>5, BoundsAssumption DEF RoomForToken
<1>10. load(new)
  BY <1>2, <1>4, <1>9 DEF load, Known
<1> QED
  BY <1>4, <1>7, <1>8, <1>10 DEF StateRight, new, u

(* An element added to a set below its limit. *)
LEMMA OneMore ==
    ASSUME NEW S, NEW x, NEW max \in Nat, IsFiniteSet(S), Cardinality(S) < max
    PROVE  Cardinality(S \cup {x}) <= max
<1>1. Cardinality(S \cup {x}) \in {Cardinality(S), Cardinality(S) + 1}
  BY FS_AddElement
<1>2. Cardinality(S) \in Nat
  BY FS_CardinalityType
<1> QED
  BY <1>1, <1>2

(* The devices on record stay below the limit, and only those are blocked. *)
DevicesWithin(st) == Cardinality(Known(st)) <= MaxClients /\ st.blocked \subseteq Known(st)

(* Deleting a token forgets its devices with their blocks. *)
LEMMA DeletedWithin ==
    ASSUME DevicesWithin(state), state \in State, NEW t
    PROVE  DevicesWithin(Deleted(state, t))
<1> DEFINE new == Deleted(state, t)
<1>1. /\ new.clients = [k \in Keys |-> IF k[1] = t.id THEN NoClient ELSE state.clients[k]]
      /\ new.blocked = {k \in state.blocked : ~(k[1] = t.id /\ state.clients[k] # NoClient)}
  BY DEF Deleted, State
<1> HIDE DEF new
<1>2. Known(new) \in SUBSET Known(state)
  BY <1>1 DEF Known
<1>3. IsFiniteSet(Known(state))
  BY SetsAssumption, FS_Subset DEF Known
<1>4. Cardinality(Known(new)) <= Cardinality(Known(state))
  BY <1>2, <1>3, FS_Subset
<1>5. Cardinality(Known(new)) \in Nat /\ Cardinality(Known(state)) \in Nat
  BY <1>2, <1>3, FS_Subset, FS_CardinalityType
<1>6. new.blocked \subseteq Known(new)
  BY <1>1 DEF DevicesWithin, Known
<1>7. DevicesWithin(new)
  BY <1>4, <1>5, <1>6, BoundsAssumption DEF DevicesWithin
<1> QED
  BY <1>7 DEF new

(* So does a deletion. *)
LEMMA DeletedRight ==
    ASSUME StateRight(state), NEW t \in allTokens(state),
           NeedsRevocation(t) => Cardinality(state.revoked) < MaxRevoked,
           NeedsTombstone(t) => Cardinality(state.deleted) < MaxDeleted
    PROVE  StateRight(Deleted(state, t))
<1> DEFINE new == Deleted(state, t)
<1>1. state \in State /\ TokensRight(state) /\ Finite(state) /\ load(state)
  BY DEF StateRight
<1>2. t \in BaseTokens \cup state.added /\ t \in Token /\ t.hash \notin state.revoked
  BY <1>1, TokensAssumption DEF allTokens, State
<1>3. new \in State
  BY <1>1, <1>2, DeletedType
<1>4. /\ new.added = {u \in state.added : u.hash # t.hash}
      /\ new.revoked = IF NeedsRevocation(t) THEN state.revoked \cup {t.hash} ELSE state.revoked
      /\ new.deleted = IF NeedsTombstone(t) THEN state.deleted \cup {t.id} ELSE state.deleted
      /\ new.clients = [k \in Keys |-> IF k[1] = t.id THEN NoClient ELSE state.clients[k]]
      /\ new.blocked = {k \in state.blocked : ~(k[1] = t.id /\ state.clients[k] # NoClient)}
  BY <1>1 DEF Deleted, State
<1> HIDE DEF new
<1>5. NeedsRevocation(t) <=> t \in BaseTokens
  BY <1>1, <1>2 DEF NeedsRevocation, TokensRight
<1>6. t.id \notin state.deleted
  BY <1>1, <1>2 DEF TokensRight
<1>7. NeedsTombstone(t) <=> t.id \in TokIDs
  BY <1>6 DEF NeedsTombstone
<1>8. BaseTokens \cap state.added = {}
  BY <1>1, RightActive
<1>9. TokensRight(new)
  <2>1. AddedIssued(new) /\ \A u \in new.added : u \in state.added
    BY <1>1, <1>4 DEF TokensRight, AddedIssued
  <2>2. \A u \in BaseTokens \cup new.added : u.id = t.id \/ u.hash = t.hash => u = t /\ t \in BaseTokens
    BY <1>1, <1>2, <1>4 DEF TokensRight
  <2>3. \A u \in BaseTokens \cup new.added : u.id \in new.deleted => u.hash \in new.revoked
    BY <1>1, <1>4, <1>5, <2>1, <2>2 DEF TokensRight
  <2>4. \A u \in BaseTokens \cup new.added :
           u.hash \in new.revoked /\ u.id \in TokIDs => u.id \in new.deleted
    BY <1>1, <1>4, <1>5, <1>7, <2>1, <2>2 DEF TokensRight
  <2>5. new.revoked \subseteq {b.hash : b \in BaseTokens}
    BY <1>1, <1>4, <1>5 DEF TokensRight
  <2> QED
    BY <1>1, <2>1, <2>3, <2>4, <2>5 DEF TokensRight
<1>10. Finite(new)
  <2>1. new.added \in SUBSET state.added
    BY <1>4
  <2> QED
    BY <1>1, <1>4, <2>1, FS_Subset, FS_AddElement DEF Finite
<1>11. Cardinality(new.added) <= MaxTokens
  <2>1. new.added \in SUBSET state.added
    BY <1>4
  <2>2. Cardinality(new.added) <= Cardinality(state.added)
    BY <1>1, <2>1, FS_Subset DEF Finite
  <2> QED
    BY <1>1, <1>10, <2>2, FS_CardinalityType, BoundsAssumption DEF Finite, load
<1>12. Cardinality(new.revoked) <= MaxRevoked
  <2>1. CASE NeedsRevocation(t)
    <3>1. new.revoked = state.revoked \cup {t.hash}
      BY <1>4, <2>1
    <3> QED
      BY <1>1, <2>1, <3>1, OneMore, BoundsAssumption DEF Finite
  <2>2. CASE ~NeedsRevocation(t)
    BY <1>1, <1>4, <2>2 DEF load
  <2> QED
    BY <2>1, <2>2
<1>13. Cardinality(new.deleted) <= MaxDeleted
  <2>1. CASE NeedsTombstone(t)
    <3>1. new.deleted = state.deleted \cup {t.id}
      BY <1>4, <2>1
    <3> QED
      BY <1>1, <2>1, <3>1, OneMore, BoundsAssumption DEF Finite
  <2>2. CASE ~NeedsTombstone(t)
    BY <1>1, <1>4, <2>2 DEF load
  <2> QED
    BY <2>1, <2>2
<1>14. Cardinality(Known(new)) <= MaxClients /\ new.blocked \subseteq Known(new)
  BY <1>1, DeletedWithin DEF load, DevicesWithin, new
<1>15. load(new)
  BY <1>11, <1>12, <1>13, <1>14 DEF load
<1> QED
  BY <1>3, <1>9, <1>10, <1>15 DEF StateRight, new

(* A state that differs from one that is right in its devices only. *)
LEMMA DevicesRight ==
    ASSUME NEW a, NEW b, StateRight(a), b \in State, SameOwnerPart(b, a),
           Cardinality(Known(b)) <= MaxClients, b.blocked \subseteq Known(b)
    PROVE  StateRight(b)
BY DEF StateRight, SameOwnerPart, TokensRight, AddedIssued, Finite, load

-----------------------------------------------------------------------------
(* Devices on record *)

(* A state knows finitely many devices. *)
LEMMA KnownFinite == ASSUME NEW st PROVE IsFiniteSet(Known(st)) /\ Cardinality(Known(st)) \in Nat
<1>1. Known(st) \in SUBSET Keys
  BY DEF Known
<1> QED
  BY <1>1, SetsAssumption, FS_Subset, FS_CardinalityType

(* Migration moves no block when the request passed the check on all its keys. *)
LEMMA MigrateKeepsBlocks ==
    ASSUME NEW st \in State, NEW id \in TokenIDs, NEW h \in Header,
           candidateKeys(id, h) \cap st.blocked = {}
    PROVE  migrateClientIdentity(st, id, h).blocked = st.blocked
<1> DEFINE new  == <<id, DeviceOf(h)>>
           olds == OldKeys(st, id, h)
           pkey == <<id, PreviousOf(h)>>
           lkey == <<id, h.ip>>
           prev == MergeIf(st, pkey, new, olds)
<1>1. ASSUME NEW a \in State, NEW old, old \notin a.blocked
      PROVE  mergeClientKey(a, old, new).blocked = a.blocked
  BY <1>1 DEF mergeClientKey, State
<1>2. olds \subseteq Keys
  BY DEF OldKeys
<1>3. pkey \in olds => pkey \notin st.blocked
  <2>1. pkey \in olds => PreviousOf(h) # NoID
    BY <1>2, SetsAssumption DEF Keys
  <2> QED
    BY <2>1 DEF candidateKeys
<1>4. lkey \notin st.blocked
  BY SetsAssumption DEF candidateKeys, Header
<1>5. prev.blocked = st.blocked
  BY <1>1, <1>3 DEF MergeIf
<1>6. prev \in State
  <2>1. new \in Keys
    BY KeyTypes
  <2>2. pkey \in olds => pkey \in Keys /\ st.clients[pkey] # NoClient
    BY DEF OldKeys
  <2> QED
    BY <2>1, <2>2, MergeKeyType DEF MergeIf
<1> HIDE DEF prev
<1>7. MergeIf(prev, lkey, new, olds).blocked = prev.blocked
  BY <1>1, <1>4, <1>5, <1>6 DEF MergeIf
<1> QED
  BY <1>5, <1>7 DEF migrateClientIdentity, prev

(* Migration touches the key of the request and the keys it merges. *)
LEMMA MigrateRecords ==
    ASSUME NEW st \in State, NEW id \in TokenIDs, NEW h \in Header, NEW k \in Keys,
           k \notin OldKeys(st, id, h), k # <<id, DeviceOf(h)>>
    PROVE  migrateClientIdentity(st, id, h).clients[k] = st.clients[k]
<1> DEFINE new  == <<id, DeviceOf(h)>>
           olds == OldKeys(st, id, h)
           pkey == <<id, PreviousOf(h)>>
           lkey == <<id, h.ip>>
           prev == MergeIf(st, pkey, new, olds)
<1>1. new \in Keys
  BY KeyTypes
<1>2. \A o \in olds : o \in Keys /\ o # k /\ st.clients[o] # NoClient
  BY DEF OldKeys
<1>3. prev \in State /\ prev.clients[k] = st.clients[k]
  BY <1>1, <1>2, MergeKeyType, MergeKeyOthers DEF MergeIf
<1>4. migrateClientIdentity(st, id, h) = MergeIf(prev, lkey, new, olds)
  BY DEF migrateClientIdentity
<1> HIDE DEF prev, new, lkey, pkey, olds
<1>5. MergeIf(prev, lkey, new, olds).clients[k] = prev.clients[k]
  <2>1. new # k
    BY DEF new
  <2> QED
    BY <1>1, <1>2, <1>3, <2>1, MergeKeyOthers DEF MergeIf
<1> QED
  BY <1>3, <1>4, <1>5

(* The records after a registration. *)
LEMMA RegisterRecords ==
    ASSUME TypeInv, NEW r \in Requests, NEW gone, registerSession(r, gone)
    PROVE  /\ req[r] \in Request /\ gone \in pruneClients
           /\ <<req[r].id, DeviceOf(req[r].hdr)>> \in Keys
           /\ state'.clients[<<req[r].id, DeviceOf(req[r].hdr)>>] # NoClient
           /\ \A k \in Keys :
                 /\ k # <<req[r].id, DeviceOf(req[r].hdr)>>
                 /\ k \notin OldKeys(Forget(state, gone), req[r].id, req[r].hdr)
                 => state'.clients[k] = IF k \in gone THEN NoClient ELSE state.clients[k]
           /\ state'.blocked = state.blocked \ gone
<1> DEFINE h    == req[r].hdr
           id   == req[r].id
           key  == <<id, DeviceOf(h)>>
           st   == Forget(state, gone)
           olds == OldKeys(st, id, h)
           mig  == migrateClientIdentity(st, id, h)
           c    == mig.clients[key]
           hit  == NeedsLocation(c, h.ip) /\ h.ip \in fresh
           rec  == Registered(c, h, IF hit THEN h.ip ELSE NoCountry)
<1>1. req[r] \in Request /\ gone \in pruneClients /\ state \in State /\ now \in 0..MaxNow
  BY DEF TypeInv, ProcType, ReqType, registerSession, At
<1>2. id \in TokenIDs /\ h \in Header
  BY <1>1, SetsAssumption DEF Request
<1>3. key \in Keys /\ h.ip \in IPs /\ st \in State /\ mig \in State
  BY <1>1, <1>2, KeyTypes, ForgetType, MigrateType DEF Header
<1>4. state' = [mig EXCEPT !.clients[key] = rec]
  BY DEF registerSession
<1>5. rec # NoClient
  <2>1. c \in Client \cup {NoClient}
    BY <1>3 DEF State
  <2>2. (IF hit THEN h.ip ELSE NoCountry) \in IPs \cup {NoCountry}
    BY <1>3
  <2>3. rec \in Client
    BY <1>1, <1>2, <2>1, <2>2, RegisteredType
  <2> QED
    BY <2>3, NullsAssumption
<1>6. /\ \A k \in Keys : st.clients[k] = IF k \in gone THEN NoClient ELSE state.clients[k]
      /\ st.blocked = state.blocked \ gone
  BY <1>1 DEF Forget, State
<1>7. mig.blocked = st.blocked
  <2>1. candidateKeys(id, h) \cap st.blocked = {}
    BY <1>6 DEF registerSession, Admissible
  <2> QED
    BY <1>2, <1>3, <2>1, MigrateKeepsBlocks
<1>8. \A k \in Keys : k # key /\ k \notin olds => mig.clients[k] = st.clients[k]
  BY <1>2, <1>3, MigrateRecords
<1> HIDE DEF rec, mig, st, key
<1>9. /\ state'.clients[key] = rec
      /\ \A k \in Keys : k # key => state'.clients[k] = mig.clients[k]
      /\ state'.blocked = mig.blocked
  BY <1>3, <1>4 DEF State
<1>10. \A k \in Keys : k # key /\ k \notin olds =>
          state'.clients[k] = IF k \in gone THEN NoClient ELSE state.clients[k]
  BY <1>6, <1>8, <1>9
<1> QED
  BY <1>1, <1>3, <1>5, <1>6, <1>7, <1>9, <1>10 DEF key, st

(* pruneClientsLocked leaves room for one more device. *)
LEMMA PruneMakesRoom ==
    ASSUME Cardinality(Known(state)) <= MaxClients, NEW gone \in pruneClients
    PROVE  /\ gone \subseteq Known(state)
           /\ Cardinality(Known(state) \ gone) < MaxClients
           /\ gone # {} => Cardinality(Known(state) \ gone) = MaxClients - 1
<1> DEFINE known == Known(state)
<1>1. IsFiniteSet(known) /\ Cardinality(known) \in Nat
  BY KnownFinite
<1>2. CASE Cardinality(known) < MaxClients
  <2>1. gone = {}
    BY <1>2 DEF pruneClients
  <2>2. known \ gone = known
    BY <2>1
  <2> QED
    BY <1>2, <2>1, <2>2
<1>3. CASE ~(Cardinality(known) < MaxClients)
  <2>1. gone \in SUBSET known /\ Cardinality(gone) = Cardinality(known) - MaxClients + 1
    BY <1>3 DEF pruneClients
  <2> HIDE DEF known
  <2>2. /\ IsFiniteSet(gone) /\ Cardinality(gone) \in Nat
        /\ IsFiniteSet(known \ gone) /\ Cardinality(known \ gone) \in Nat
    BY <1>1, <2>1, FS_Subset, FS_CardinalityType
  <2>3. Cardinality((known \ gone) \cup gone)
           = Cardinality(known \ gone) + Cardinality(gone) - Cardinality((known \ gone) \cap gone)
    BY <2>2, FS_Union
  <2>4. (known \ gone) \cup gone = known /\ (known \ gone) \cap gone = {}
    BY <2>1
  <2>5. Cardinality(known) = Cardinality(known \ gone) + Cardinality(gone) - 0
    BY <2>3, <2>4, FS_EmptySet
  <2>6. Cardinality(known \ gone) = MaxClients - 1
    BY <1>1, <2>1, <2>2, <2>5, BoundsAssumption
  <2> QED
    BY <2>1, <2>6, BoundsAssumption DEF known
<1> QED
  BY <1>2, <1>3

(* A registration keeps to the limit of the devices, and blocks none. *)
LEMMA RegisterWithin ==
    ASSUME TypeInv, DevicesWithin(state), NEW r \in Requests, NEW gone, registerSession(r, gone)
    PROVE  DevicesWithin(state')
<1> DEFINE key  == <<req[r].id, DeviceOf(req[r].hdr)>>
           olds == OldKeys(Forget(state, gone), req[r].id, req[r].hdr)
<1>1. /\ gone \in pruneClients /\ req[r] \in Request /\ key \in Keys
      /\ state'.clients[key] # NoClient
      /\ \A k \in Keys : k # key /\ k \notin olds =>
            state'.clients[k] = IF k \in gone THEN NoClient ELSE state.clients[k]
      /\ state'.blocked = state.blocked \ gone
  BY RegisterRecords
<1>2. candidateKeys(req[r].id, req[r].hdr) \cap state.blocked = {} /\ req[r].hdr \in Header
  BY <1>1, SetsAssumption DEF registerSession, Admissible, Request
<1>3. olds \cap state.blocked = {} /\ key \notin state.blocked
  <2>1. DeviceOf(req[r].hdr) # NoID /\ req[r].hdr.ip # NoID
    BY <1>1, <1>2, KeyTypes, SetsAssumption DEF Request, Header
  <2> QED
    BY <1>2, <2>1 DEF candidateKeys, OldKeys
<1>4. olds \subseteq Known(state) \ gone
  BY DEF OldKeys, Forget, TypeInv, State, Known
<1> HIDE DEF key, olds
<1>5. Known(state') \subseteq (Known(state) \ gone) \cup {key}
  BY <1>1, <1>4 DEF Known
<1>6. state'.blocked \subseteq Known(state')
  <2>1. state.blocked \subseteq Known(state)
    BY DEF DevicesWithin
  <2> QED
    BY <1>1, <1>3, <2>1 DEF Known
<1>7. Cardinality(Known(state')) <= MaxClients
  <2> DEFINE rest == Known(state) \ gone
  <2>1. IsFiniteSet(rest) /\ Cardinality(rest) < MaxClients
    BY <1>1, KnownFinite, FS_Subset, PruneMakesRoom DEF DevicesWithin
  <2> HIDE DEF rest
  <2>2. Cardinality(rest \cup {key}) <= MaxClients /\ IsFiniteSet(rest \cup {key})
    BY <2>1, OneMore, FS_AddElement, BoundsAssumption
  <2>3. Known(state') \in SUBSET (rest \cup {key})
    BY <1>5 DEF rest
  <2>4. Cardinality(Known(state')) <= Cardinality(rest \cup {key})
    BY <2>2, <2>3, FS_Subset
  <2> QED
    BY <2>2, <2>4, KnownFinite, FS_CardinalityType, BoundsAssumption
<1> QED
  BY <1>6, <1>7 DEF DevicesWithin

(* Steps that change what is recorded of a device, and neither which devices   *)
(* are on record nor which are blocked.                                        *)
SameDevices == Known(state') = Known(state) /\ state'.blocked = state.blocked

(* Steps that are not about devices leave the set of devices alone. *)
LEMMA OthersSameDevices ==
    ASSUME TypeInv,
           \/ Session /\ ~ \E r \in Requests, gone \in SUBSET Known(state) : registerSession(r, gone)
           \/ Flush \/ Geo
    PROVE  SameDevices
<1>1. ASSUME NEW key \in Keys, state' = Seen(state, key) PROVE SameDevices
  <2>1. state.clients[key] \in Client \cup {NoClient}
    BY DEF TypeInv, State
  <2> DEFINE new == IF state.clients[key] = NoClient THEN state.clients[key]
                    ELSE [state.clients[key] EXCEPT !.seen = now]
  <2>2. new = NoClient <=> state.clients[key] = NoClient
    <3>1. state.clients[key] # NoClient => new \in Client
      BY <2>1 DEF Client, TypeInv, ProcType
    <3> QED
      BY <3>1, NullsAssumption
  <2>3. state' = [state EXCEPT !.clients[key] = new]
    BY <1>1 DEF Seen
  <2> HIDE DEF new
  <2> QED
    BY <2>2, <2>3 DEF SameDevices, Known, TypeInv, State
<1>2. ASSUME NEW l \in lookups, state.clients[l.key] # NoClient, state' = SetCountry(state, l.key, l.ip)
      PROVE  SameDevices
  <2>1. l.key \in Keys /\ state.clients[l.key] \in Client /\ l.ip \in IPs
    BY <1>2 DEF TypeInv, State, GeoType, Lookup
  <2> DEFINE new == [state.clients[l.key] EXCEPT !.country = l.ip]
  <2>2. new # NoClient
    BY <2>1, NullsAssumption DEF Client
  <2>3. state' = [state EXCEPT !.clients[l.key] = new]
    BY <1>2 DEF SetCountry
  <2> HIDE DEF new
  <2> QED
    BY <1>2, <2>1, <2>2, <2>3 DEF SameDevices, Known, TypeInv, State
<1>3. CASE UNCHANGED state
  BY <1>3 DEF SameDevices
<1>4. ASSUME NEW r \in Requests, unregister(r) PROVE SameDevices
  <2>1. req[r] \in Request
    BY <1>4 DEF unregister, At, TypeInv, ReqType
  <2> QED
    BY <1>1, <1>4, <2>1 DEF unregister, Request
<1>5. CASE Geo
  BY <1>2, <1>3, <1>5 DEF Geo, lookupStarts, lookupFails, lookupAnswers, lookupEnds, cacheExpires
<1>6. CASE Flush
  BY <1>3, <1>6 DEF Flush, timerFires, flushClientState
<1>7. CASE Session /\ ~ \E r \in Requests, gone \in SUBSET Known(state) : registerSession(r, gone)
  BY <1>3, <1>4, <1>7
  DEF Session, authorizeClient, deviceBlocked, dialFails, registerRefused, peerCloses, runCloser
<1> QED
  BY <1>5, <1>6, <1>7

(* Everything but the owner and the process leaves the tokens alone. *)
LEMMA ClientsKeepAdded ==
    ASSUME TypeInv, Session \/ Flush \/ Geo
    PROVE  SameOwnerPart(state', state)
<1>1. ASSUME NEW r \in Requests, NEW gone, registerSession(r, gone) PROVE SameOwnerPart(state', state)
  BY <1>1, RegisterKeepsOwnerPart
<1>2. ASSUME Session, ~ \E r \in Requests, gone \in SUBSET Known(state) : registerSession(r, gone)
      PROVE  SameOwnerPart(state', state)
  BY <1>2 DEF Session, authorizeClient, deviceBlocked, dialFails, registerRefused, peerCloses,
              runCloser, unregister, Seen, SameOwnerPart, TypeInv, State
<1>3. CASE Flush
  BY <1>3 DEF Flush, timerFires, flushClientState, SameOwnerPart
<1>4. CASE Geo
  BY <1>4 DEF Geo, lookupStarts, lookupFails, lookupAnswers, lookupEnds, cacheExpires, SetCountry,
              SameOwnerPart, TypeInv, State
<1> QED
  BY <1>1, <1>2, <1>3, <1>4

(* Clients, timers and lookups keep the records within the limit, and the      *)
(* state loadable.                                                             *)
LEMMA ClientsWithin ==
    ASSUME TypeInv, DevicesWithin(state), Session \/ Flush \/ Geo
    PROVE  DevicesWithin(state')
<1>1. ASSUME NEW r \in Requests, NEW gone, registerSession(r, gone) PROVE DevicesWithin(state')
  BY <1>1, RegisterWithin
<1>2. CASE SameDevices
  BY <1>2 DEF SameDevices, DevicesWithin
<1> QED
  BY <1>1, <1>2, OthersSameDevices

(* The clients' steps leave a state the next start accepts. *)
LEMMA ClientsRight ==
    ASSUME TypeInv, TypeInv', StateRight(state), Session \/ Flush \/ Geo
    PROVE  StateRight(state')
<1>1. SameOwnerPart(state', state)
  BY ClientsKeepAdded
<1>2. DevicesWithin(state')
  BY ClientsWithin DEF StateRight, load, DevicesWithin
<1>3. state' \in State
  BY DEF TypeInv
<1> QED
  BY <1>1, <1>2, <1>3, DevicesRight DEF DevicesWithin

(* What is written is such a state, or what was there. *)
LEMMA PersistRight ==
    ASSUME FilesRight, NEW st, StateRight(st), NEW ok, persistLocked(st, ok)
    PROVE  /\ (disk # NoFile => StateRight(disk))'
           /\ (platter # NoFile => StateRight(platter))'
<1>1. /\ disk' \in {st, disk, NoFile}
      /\ platter' \in {st, platter, disk, NoFile}
  BY DEF persistLocked, fileVars
<1> QED
  BY <1>1 DEF FilesRight

(* A critical change keeps memory and files right. *)
LEMMA CriticalRight ==
    ASSUME FilesRight, NEW new, StateRight(new), NEW ok \in BOOLEAN, Critical(new, ok)
    PROVE  FilesRight'
<1>1. (disk # NoFile => StateRight(disk))' /\ (platter # NoFile => StateRight(platter))'
  BY PersistRight DEF Critical, persistCriticalLocked
<1>2. state' = new \/ state' = state
  BY DEF Critical, rollback
<1>3. StateRight(state)'
  BY <1>2 DEF FilesRight
<1> QED
  BY <1>1, <1>3 DEF FilesRight

(* The owner's operations keep FilesRight. *)
LEMMA OwnerRight ==
    ASSUME FilesRight, OneIDPerSecret, Owner PROVE FilesRight'
<1> USE DEF FilesRight
<1>1. ASSUME NEW o \in Offers, NEW ok \in BOOLEAN, createToken(o, ok) PROVE FilesRight'
  <2>1. PICK n \in 1..MaxStamp :
           Critical([state EXCEPT !.added = @ \cup
                      {[id |-> o.id, name |-> o.name, hash |-> o.hash, at |-> n]}], ok)
    BY <1>1 DEF createToken
  <2>2. IDAvailable(o) /\ ~KeyTaken(o) /\ RoomForToken
    BY <1>1 DEF createToken
  <2> QED
    BY <2>1, <2>2, CreatedRight, CriticalRight
<1>2. ASSUME NEW t, NEW ok \in BOOLEAN, deleteToken(t, ok) PROVE FilesRight'
  BY <1>2, DeletedRight, CriticalRight DEF deleteToken
<1>3. ASSUME NEW k \in Keys, NEW block \in BOOLEAN, NEW ok \in BOOLEAN, setDeviceBlocked(k, block, ok)
      PROVE  FilesRight'
  <2> DEFINE new == [state EXCEPT !.blocked = IF block THEN @ \cup {k} ELSE @ \ {k}]
  <2>1. state \in State /\ state.blocked \subseteq Known(state) /\ Cardinality(Known(state)) <= MaxClients
    BY DEF StateRight, load
  <2>2. k \in Known(state) /\ Critical(new, ok)
    BY <1>3 DEF setDeviceBlocked, OnRecord, Known
  <2>3. /\ new \in State /\ SameOwnerPart(new, state) /\ Known(new) = Known(state)
        /\ new.blocked \subseteq state.blocked \cup {k}
    BY <2>1 DEF State, SameOwnerPart, Known
  <2> HIDE DEF new
  <2>4. StateRight(new)
    BY <2>1, <2>2, <2>3, DevicesRight
  <2> QED
    BY <2>2, <2>4, CriticalRight
<1>4. ASSUME NEW k, disconnectDevice(k) PROVE FilesRight'
  BY <1>4 DEF disconnectDevice, fileVars
<1> QED
  BY <1>1, <1>2, <1>3, <1>4 DEF Owner

(* Starts, crashes and the shutdown keep FilesRight. *)
LEMMA ProcessRight ==
    ASSUME TypeInv, FilesRight, Process PROVE FilesRight'
<1> USE DEF FilesRight
<1>1. StateRight(EmptyState(state.instance)) /\ \A i \in InstanceIDs : StateRight(EmptyState(i))
  BY EmptyRight DEF TypeInv, State
<1>2. ASSUME NEW i \in InstanceIDs, NEW ok \in BOOLEAN, start(i, ok) PROVE FilesRight'
  <2>1. StateRight(Loaded(i))
    BY <1>1 DEF Loaded
  <2>2. persistLocked(Loaded(i), ok) /\ state' = Loaded(i)
    BY <1>2 DEF start
  <2> HIDE DEF FilesRight
  <2>3. (disk # NoFile => StateRight(disk))' /\ (platter # NoFile => StateRight(platter))'
    BY <2>1, <2>2, PersistRight
  <2> QED
    BY <2>1, <2>2, <2>3 DEF FilesRight
<1>3. ASSUME NEW file, file # NoFile => StateRight(file), crash(file) PROVE FilesRight'
  <2>1. state' = (IF file = NoFile THEN EmptyState(state.instance) ELSE file) /\ disk' = file
        /\ platter' = platter
    BY <1>3 DEF crash
  <2> QED
    BY <1>1, <1>3, <2>1
<1>4. ASSUME NEW ok \in BOOLEAN, finishShutdown(ok) PROVE FilesRight'
  <2>1. persistLocked(state, ok) \/ UNCHANGED fileVars
    BY <1>4 DEF finishShutdown, FinalFlush
  <2>2. (disk # NoFile => StateRight(disk))' /\ (platter # NoFile => StateRight(platter))'
    <3>1. CASE persistLocked(state, ok)
      BY <3>1, PersistRight
    <3>2. CASE UNCHANGED fileVars
      BY <3>2 DEF fileVars
    <3> QED
      BY <2>1, <3>1, <3>2
  <2>3. state' = IF disk' = NoFile THEN EmptyState(state.instance) ELSE disk'
    BY <1>4 DEF finishShutdown
  <2>4. StateRight(state)'
    BY <1>1, <2>2, <2>3
  <2> QED
    BY <2>2, <2>4
<1>5. CASE beginShutdown \/ tick
  BY <1>5 DEF beginShutdown, tick, fileVars
<1> QED
  BY <1>2, <1>3, <1>4, <1>5 DEF Process

(* The clients' steps keep FilesRight. *)
LEMMA ClientsFilesRight ==
    ASSUME TypeInv, TypeInv', FilesRight, Session \/ Flush \/ Geo PROVE FilesRight'
<1>1. StateRight(state')
  BY ClientsRight DEF FilesRight
<1>2. UNCHANGED fileVars \/ \E ok \in BOOLEAN : persistLocked(state, ok)
  BY DEF Session, authorizeClient, deviceBlocked, dialFails, registerRefused, registerSession,
         peerCloses, runCloser, unregister, Geo, lookupStarts, lookupFails, lookupAnswers,
         lookupEnds, cacheExpires, Flush, timerFires, flushClientState
<1>3. (disk # NoFile => StateRight(disk))' /\ (platter # NoFile => StateRight(platter))'
  <2>1. CASE UNCHANGED fileVars
    BY <2>1 DEF fileVars, FilesRight
  <2>2. CASE \E ok \in BOOLEAN : persistLocked(state, ok)
    BY <2>2, PersistRight DEF FilesRight
  <2> QED
    BY <1>2, <2>1, <2>2
<1> QED
  BY <1>1, <1>3 DEF FilesRight

(* FilesRight always holds when no secret is used twice. *)
LEMMA SpecFilesRight ==
    ASSUME OneIDPerSecret PROVE Spec => []FilesRight
<1>1. Init => FilesRight
  BY EmptyRight DEF Init, FilesRight
<1>2. TypeInv /\ TypeInv' /\ FilesRight /\ [Next]_vars => FilesRight'
  <2> SUFFICES ASSUME TypeInv, TypeInv', FilesRight, [Next]_vars PROVE FilesRight'
    OBVIOUS
  <2>1. CASE UNCHANGED vars
    BY <2>1 DEF vars, fileVars, FilesRight
  <2> QED
    BY <2>1, OwnerRight, ProcessRight, ClientsFilesRight DEF Next
<1> QED
  BY <1>1, <1>2, SpecTypeInv, PTL DEF Spec

(* The state file can be loaded again after any history of creations,          *)
(* deletions, registrations, failed writes, crashes and power losses: it stays *)
(* below the limits load tests, has no block without its device and no two     *)
(* tokens with one identifier or hash.                                         *)
THEOREM ControlPlaneDiskLoadable ==
    ASSUME OneIDPerSecret PROVE Spec => []DiskLoadable
<1>1. FilesRight => DiskLoadable
  BY DEF FilesRight, StateRight, TokensRight, DiskLoadable, Loadable, validateStateAgainstConfig
<1>2. Spec => []FilesRight
  BY SpecFilesRight
<1> QED
  BY <1>1, <1>2, PTL

-----------------------------------------------------------------------------
(* Deleted tokens, whatever secrets are offered *)

(* A token that is not active: revoked, or behind an older one with its secret. *)
Inactive(st, t) ==
    \/ t.hash \in st.revoked
    \/ \E u \in BaseTokens \cup st.added : u.hash = t.hash /\ u.at < t.at

(* Without a condition on the offers a state may hold several tokens with one  *)
(* secret, and one with the identifier of a tombstone; but those are inactive, *)
(* and active tokens have identifiers of their own.  Added tokens are in an    *)
(* order, and a configured one is revoked by its own deletion only.            *)
StateSound(st) ==
    /\ st \in State
    /\ \A t, u \in allTokens(st) : t.id = u.id => t = u
    /\ \A t \in BaseTokens \cup st.added : t.id \in st.deleted => Inactive(st, t)
    /\ \A t, u \in st.added : t.at = u.at => t = u
    /\ \A t \in st.added : t.id \in TokIDs /\ t.at # 0
    /\ \A b \in BaseTokens : b.hash \in st.revoked /\ b.id \in TokIDs => b.id \in st.deleted
    /\ DevicesWithin(st)

FilesSound ==
    /\ StateSound(state)
    /\ disk # NoFile => StateSound(disk)
    /\ platter # NoFile => StateSound(platter)

(* Tokens carry their position. *)
LEMMA TokenStamps ==
    ASSUME NEW st \in State, NEW t \in BaseTokens \cup st.added
    PROVE  t \in Token /\ t.at \in Nat
BY TokensAssumption, BoundsAssumption DEF State, Token

(* The empty state is sound. *)
LEMMA EmptySound == \A i \in InstanceIDs : StateSound(EmptyState(i))
<1> SUFFICES ASSUME NEW i \in InstanceIDs PROVE StateSound(EmptyState(i))
  OBVIOUS
<1>1. EmptyState(i) \in State
  BY EmptyStateType
<1>2. /\ EmptyState(i).added = {} /\ EmptyState(i).deleted = {} /\ EmptyState(i).revoked = {}
      /\ EmptyState(i).blocked = {} /\ Known(EmptyState(i)) = {}
  BY DEF EmptyState, Known
<1>3. DevicesWithin(EmptyState(i))
  BY <1>2, FS_EmptySet, BoundsAssumption DEF DevicesWithin
<1> QED
  BY <1>1, <1>2, <1>3, TokensAssumption DEF StateSound, allTokens

(* The identifier of a new token is neither a tombstone's nor an active one's. *)
LEMMA CreatedSound ==
    ASSUME StateSound(state), NEW o \in Offers, NEW n \in 1..MaxStamp, NextStamp(state, n),
           IDAvailable(o), ~KeyTaken(o)
    PROVE  StateSound([state EXCEPT !.added = @ \cup
                            {[id |-> o.id, name |-> o.name, hash |-> o.hash, at |-> n]}])
<1> DEFINE u   == [id |-> o.id, name |-> o.name, hash |-> o.hash, at |-> n]
           new == [state EXCEPT !.added = @ \cup {u}]
<1>1. u \in Token /\ u.id = o.id /\ u.id \in TokIDs /\ u.at = n /\ n # 0
  BY TokensAssumption, SetsAssumption, BoundsAssumption DEF Token
<1>2. state \in State
  BY DEF StateSound
<1> HIDE DEF u
<1>3. /\ new \in State /\ new.added = state.added \cup {u}
      /\ new.revoked = state.revoked /\ new.deleted = state.deleted
      /\ new.clients = state.clients /\ new.blocked = state.blocked
  BY <1>1, <1>2 DEF State
<1> HIDE DEF new
<1>4. allTokens(new) \subseteq allTokens(state) \cup {u}
  BY <1>3 DEF allTokens
<1>5. \A t \in allTokens(state) : t.id # u.id
  <2>1. ASSUME NEW t \in allTokens(state), t.id = o.id PROVE FALSE
    <3>1. t \in BaseTokens \cup state.added /\ o.id \in TokenIDsOf(state)
      BY <2>1 DEF allTokens, TokenIDsOf
    <3> QED
      BY <2>1, <3>1 DEF IDAvailable, KeyTaken
  <2> QED
    BY <1>1, <2>1
<1>6. u.id \notin state.deleted
  BY <1>1 DEF IDAvailable, KeyTaken
<1>7. \A t, v \in allTokens(new) : t.id = v.id => t = v
  BY <1>4, <1>5 DEF StateSound
<1>8. \A t \in BaseTokens \cup new.added : t.id \in new.deleted => Inactive(new, t)
  BY <1>3, <1>6 DEF StateSound, Inactive
<1>9. \A t, v \in new.added : t.at = v.at => t = v
  <2>1. \A t \in state.added : t.at < n /\ t.at \in Nat
    BY <1>2, TokenStamps DEF NextStamp
  <2> QED
    BY <1>1, <1>3, <2>1 DEF StateSound
<1>10. /\ \A t \in new.added : t.id \in TokIDs /\ t.at # 0
       /\ \A b \in BaseTokens : b.hash \in new.revoked /\ b.id \in TokIDs => b.id \in new.deleted
  BY <1>1, <1>3 DEF StateSound
<1>11. DevicesWithin(new)
  BY <1>3 DEF StateSound, DevicesWithin, Known
<1>12. StateSound(new)
  BY <1>3, <1>7, <1>8, <1>9, <1>10, <1>11 DEF StateSound
<1> QED
  BY <1>12 DEF new, u

(* No token comes out from behind one that is deleted: all added tokens with   *)
(* the secret go with it, and a configured one is revoked.                     *)
LEMMA DeletedSound ==
    ASSUME StateSound(state), NEW t \in allTokens(state)
    PROVE  StateSound(Deleted(state, t))
<1> DEFINE new == Deleted(state, t)
<1>1. state \in State /\ t \in BaseTokens \cup state.added /\ t.hash \notin state.revoked
  BY DEF StateSound, allTokens
<1>2. t \in Token
  BY <1>1, TokenStamps
<1>3. new \in State
  BY <1>1, <1>2, DeletedType
<1>4. /\ new.added = {u \in state.added : u.hash # t.hash}
      /\ new.revoked = IF NeedsRevocation(t) THEN state.revoked \cup {t.hash} ELSE state.revoked
      /\ new.deleted = IF NeedsTombstone(t) THEN state.deleted \cup {t.id} ELSE state.deleted
  BY <1>1 DEF Deleted, State
<1>d. DevicesWithin(new)
  BY <1>1, DeletedWithin DEF StateSound
<1> HIDE DEF new
<1>5. \A w \in BaseTokens \cup new.added :
         w \in BaseTokens \cup state.added /\ (w.hash = t.hash => w.hash \in new.revoked)
  BY <1>1, <1>4 DEF NeedsRevocation
<1>6. \A w \in BaseTokens \cup state.added : w.hash # t.hash => w \in BaseTokens \cup new.added
  BY <1>4
<1>7. allTokens(new) \subseteq allTokens(state)
  BY <1>4, <1>5, <1>6 DEF allTokens
<1>8. \A w \in BaseTokens \cup new.added : Inactive(state, w) => Inactive(new, w)
  BY <1>4, <1>5, <1>6 DEF Inactive
<1>9. ASSUME NEW w \in BaseTokens \cup new.added, w.id \in new.deleted PROVE Inactive(new, w)
  <2>1. CASE w.id \in state.deleted
    BY <1>5, <1>8, <2>1 DEF StateSound
  <2>2. CASE w.hash = t.hash
    BY <1>5, <2>2 DEF Inactive
  <2>3. CASE w.id = t.id /\ w.hash # t.hash
    <3>1. w \notin allTokens(state)
      BY <2>3 DEF StateSound
    <3>2. \A x \in BaseTokens \cup state.added : x.at \in Nat
      BY <1>1, TokenStamps
    <3>3. Inactive(state, w)
      BY <1>5, <3>1, <3>2 DEF allTokens, Inactive
    <3> QED
      BY <1>8, <3>3
  <2> QED
    BY <1>4, <1>9, <2>1, <2>2, <2>3
<1>10. \A x, y \in allTokens(new) : x.id = y.id => x = y
  BY <1>7 DEF StateSound
<1>11. \A b \in BaseTokens : b.hash \in new.revoked /\ b.id \in TokIDs => b.id \in new.deleted
  <2> SUFFICES ASSUME NEW b \in BaseTokens, b.hash \in new.revoked, b.id \in TokIDs,
                      b.hash \notin state.revoked
               PROVE  b.id \in new.deleted
    BY <1>4 DEF StateSound
  <2>1. b.hash = t.hash
    BY <1>4
  <2>2. b = t
    <3>1. b.at = 0 /\ b \in BaseTokens \cup state.added
      BY TokensAssumption
    <3>2. t.at <= b.at /\ t.at \in Nat
      BY <1>1, <2>1, <3>1, TokenStamps DEF allTokens
    <3>3. t.at = 0
      BY <3>1, <3>2
    <3>4. t \in BaseTokens
      BY <1>1, <3>3 DEF StateSound
    <3> QED
      BY <2>1, <3>4, TokensAssumption
  <2> QED
    BY <1>4, <2>2 DEF NeedsTombstone
<1>12. /\ \A x, y \in new.added : x.at = y.at => x = y
       /\ \A x \in new.added : x.id \in TokIDs /\ x.at # 0
  BY <1>4 DEF StateSound
<1>13. StateSound(new)
  BY <1>d, <1>3, <1>9, <1>10, <1>11, <1>12 DEF StateSound
<1> QED
  BY <1>13 DEF new

(* Changes to devices leave a state sound. *)
LEMMA DevicesSound ==
    ASSUME NEW a, NEW b \in State, StateSound(a), SameOwnerPart(b, a), DevicesWithin(b)
    PROVE  StateSound(b)
BY DEF StateSound, SameOwnerPart, allTokens, Inactive

(* What is written is sound, or what was there. *)
LEMMA PersistSound ==
    ASSUME FilesSound, NEW st, StateSound(st), NEW ok, persistLocked(st, ok)
    PROVE  /\ (disk # NoFile => StateSound(disk))'
           /\ (platter # NoFile => StateSound(platter))'
<1>1. disk' \in {st, disk, NoFile} /\ platter' \in {st, platter, disk, NoFile}
  BY DEF persistLocked, fileVars
<1> QED
  BY <1>1 DEF FilesSound

(* A critical change keeps memory and files sound. *)
LEMMA CriticalSound ==
    ASSUME FilesSound, NEW new, StateSound(new), NEW ok \in BOOLEAN, Critical(new, ok)
    PROVE  FilesSound'
<1>1. (disk # NoFile => StateSound(disk))' /\ (platter # NoFile => StateSound(platter))'
  BY PersistSound DEF Critical, persistCriticalLocked
<1>2. state' = new \/ state' = state
  BY DEF Critical, rollback
<1>3. StateSound(state)'
  BY <1>2 DEF FilesSound
<1> QED
  BY <1>1, <1>3 DEF FilesSound

(* The owner's operations keep FilesSound. *)
LEMMA OwnerSound ==
    ASSUME TypeInv, FilesSound, Owner PROVE FilesSound'
<1>0. StateSound(state) /\ state \in State
  BY DEF FilesSound, StateSound
<1>1. ASSUME NEW o \in Offers, NEW ok \in BOOLEAN, createToken(o, ok) PROVE FilesSound'
  <2>1. PICK n \in 1..MaxStamp :
           /\ NextStamp(state, n)
           /\ Critical([state EXCEPT !.added = @ \cup
                      {[id |-> o.id, name |-> o.name, hash |-> o.hash, at |-> n]}], ok)
    BY <1>1 DEF createToken
  <2>2. IDAvailable(o) /\ ~KeyTaken(o)
    BY <1>1 DEF createToken
  <2> QED
    BY <1>0, <2>1, <2>2, CreatedSound, CriticalSound
<1>2. ASSUME NEW t, NEW ok \in BOOLEAN, deleteToken(t, ok) PROVE FilesSound'
  BY <1>0, <1>2, DeletedSound, CriticalSound DEF deleteToken
<1>3. ASSUME NEW k \in Keys, NEW block \in BOOLEAN, NEW ok \in BOOLEAN, setDeviceBlocked(k, block, ok)
      PROVE  FilesSound'
  <2> DEFINE new == [state EXCEPT !.blocked = IF block THEN @ \cup {k} ELSE @ \ {k}]
  <2>1. Critical(new, ok) /\ k \in Known(state)
    BY <1>3 DEF setDeviceBlocked, OnRecord, Known
  <2>2. /\ new \in State /\ SameOwnerPart(new, state) /\ Known(new) = Known(state)
        /\ new.blocked \subseteq state.blocked \cup {k}
    BY <1>0 DEF State, SameOwnerPart, Known
  <2> HIDE DEF new
  <2>3. StateSound(new)
    BY <1>0, <2>1, <2>2, DevicesSound DEF StateSound, DevicesWithin
  <2> QED
    BY <2>1, <2>3, CriticalSound
<1>4. ASSUME NEW k, disconnectDevice(k) PROVE FilesSound'
  BY <1>4 DEF disconnectDevice, fileVars, FilesSound
<1> QED
  BY <1>1, <1>2, <1>3, <1>4 DEF Owner

(* Starts, crashes and the shutdown keep FilesSound. *)
LEMMA ProcessSound ==
    ASSUME TypeInv, FilesSound, Process PROVE FilesSound'
<1>1. StateSound(EmptyState(state.instance)) /\ \A i \in InstanceIDs : StateSound(EmptyState(i))
  BY EmptySound DEF TypeInv, State
<1>2. ASSUME NEW i \in InstanceIDs, NEW ok \in BOOLEAN, start(i, ok) PROVE FilesSound'
  <2>1. StateSound(Loaded(i))
    BY <1>1 DEF Loaded, FilesSound
  <2>2. persistLocked(Loaded(i), ok) /\ state' = Loaded(i)
    BY <1>2 DEF start
  <2>3. (disk # NoFile => StateSound(disk))' /\ (platter # NoFile => StateSound(platter))'
    BY <2>1, <2>2, PersistSound
  <2> QED
    BY <2>1, <2>2, <2>3 DEF FilesSound
<1>3. ASSUME NEW file, file # NoFile => StateSound(file), crash(file) PROVE FilesSound'
  <2>1. state' = (IF file = NoFile THEN EmptyState(state.instance) ELSE file) /\ disk' = file
        /\ platter' = platter
    BY <1>3 DEF crash
  <2> QED
    BY <1>1, <1>3, <2>1 DEF FilesSound
<1>4. ASSUME NEW ok \in BOOLEAN, finishShutdown(ok) PROVE FilesSound'
  <2>1. persistLocked(state, ok) \/ UNCHANGED fileVars
    BY <1>4 DEF finishShutdown, FinalFlush
  <2>2. (disk # NoFile => StateSound(disk))' /\ (platter # NoFile => StateSound(platter))'
    <3>1. CASE persistLocked(state, ok)
      BY <3>1, PersistSound DEF FilesSound
    <3>2. CASE UNCHANGED fileVars
      BY <3>2 DEF fileVars, FilesSound
    <3> QED
      BY <2>1, <3>1, <3>2
  <2>3. state' = IF disk' = NoFile THEN EmptyState(state.instance) ELSE disk'
    BY <1>4 DEF finishShutdown
  <2>4. StateSound(state)'
    BY <1>1, <2>2, <2>3
  <2> QED
    BY <2>2, <2>4 DEF FilesSound
<1>5. CASE beginShutdown \/ tick
  BY <1>5 DEF beginShutdown, tick, fileVars, FilesSound
<1> QED
  BY <1>2, <1>3, <1>4, <1>5 DEF Process, FilesSound

(* The clients' steps keep FilesSound. *)
LEMMA ClientsSound ==
    ASSUME TypeInv, TypeInv', FilesSound, Session \/ Flush \/ Geo PROVE FilesSound'
<1>1. state' \in State /\ SameOwnerPart(state', state)
  BY ClientsKeepAdded DEF TypeInv
<1>2. StateSound(state')
  BY <1>1, ClientsWithin, DevicesSound DEF FilesSound, StateSound
<1>3. UNCHANGED fileVars \/ \E ok \in BOOLEAN : persistLocked(state, ok)
  BY DEF Session, authorizeClient, deviceBlocked, dialFails, registerRefused, registerSession,
         peerCloses, runCloser, unregister, Geo, lookupStarts, lookupFails, lookupAnswers,
         lookupEnds, cacheExpires, Flush, timerFires, flushClientState
<1>4. (disk # NoFile => StateSound(disk))' /\ (platter # NoFile => StateSound(platter))'
  <2>1. CASE UNCHANGED fileVars
    BY <2>1 DEF fileVars, FilesSound
  <2>2. CASE \E ok \in BOOLEAN : persistLocked(state, ok)
    BY <2>2, PersistSound DEF FilesSound
  <2> QED
    BY <1>3, <2>1, <2>2
<1> QED
  BY <1>2, <1>4 DEF FilesSound

(* FilesSound always holds, whichever secrets are used twice. *)
LEMMA SpecFilesSound == Spec => []FilesSound
<1>1. Init => FilesSound
  BY EmptySound DEF Init, FilesSound
<1>2. TypeInv /\ TypeInv' /\ FilesSound /\ [Next]_vars => FilesSound'
  <2> SUFFICES ASSUME TypeInv, TypeInv', FilesSound, [Next]_vars PROVE FilesSound'
    OBVIOUS
  <2>1. CASE UNCHANGED vars
    BY <2>1 DEF vars, fileVars, FilesSound
  <2> QED
    BY <2>1, OwnerSound, ProcessSound, ClientsSound DEF Next
<1> QED
  BY <1>1, <1>2, SpecTypeInv, PTL DEF Spec

(* A deleted token never is active again, whichever identifiers and secrets    *)
(* are offered afterwards, also one secret under several identifiers, and      *)
(* whatever a restart reads.                                                   *)
THEOREM ControlPlaneDeletedStaysDeleted == Spec => []DeletedStaysDeleted
<1>1. FilesSound => DeletedStaysDeleted
  <2> SUFFICES ASSUME FilesSound, NEW t \in allTokens(state)
               PROVE  t.id \notin state.deleted /\ t.hash \notin state.revoked
    BY DEF DeletedStaysDeleted
  <2>1. state \in State /\ t \in BaseTokens \cup state.added /\ t.hash \notin state.revoked
    BY DEF FilesSound, StateSound, allTokens
  <2>2. \A u \in BaseTokens \cup state.added : u.at \in Nat
    BY <2>1, TokenStamps
  <2>3. ~Inactive(state, t)
    BY <2>1, <2>2 DEF Inactive, allTokens
  <2> QED
    BY <2>1, <2>3 DEF FilesSound, StateSound
<1> QED
  BY <1>1, SpecFilesSound, PTL

-----------------------------------------------------------------------------
(* The control plane implements TokenStore *)

(* Of the active tokens one has a secret, and a deletion leaves the others. *)
LEMMA DeleteKeepsActive ==
    ASSUME StateSound(state), NEW t \in allTokens(state)
    PROVE  allTokens(state) \ {t} \subseteq allTokens(Deleted(state, t))
<1> DEFINE new == Deleted(state, t)
<1>1. /\ state \in State
      /\ new.added = {u \in state.added : u.hash # t.hash}
      /\ new.revoked \subseteq state.revoked \cup {t.hash}
  BY DEF StateSound, Deleted, State
<1> HIDE DEF new
<1>2. ASSUME NEW u \in allTokens(state), u.hash = t.hash PROVE u = t
  <2>1. t \in BaseTokens \cup state.added /\ u \in BaseTokens \cup state.added
    BY DEF allTokens
  <2>2. u.at \in Nat /\ t.at \in Nat
    BY <1>1, <2>1, TokenStamps
  <2>3. u.at = t.at
    BY <1>2, <2>1, <2>2 DEF allTokens
  <2> QED
    BY <1>2, <2>1, <2>3, TokensAssumption DEF StateSound
<1>3. \A u \in allTokens(state) : u.hash # t.hash => u \in allTokens(new)
  BY <1>1 DEF allTokens
<1> QED
  BY <1>2, <1>3 DEF new

(* What the abstract store sees of a state. *)
SameStore(a, b) == a.added = b.added /\ a.revoked = b.revoked /\ a.deleted = b.deleted

StoreStep == Store!Next \/ UNCHANGED <<allTokens(state), DeletedIDs(state)>>

(* A step that leaves the tokens alone is a stutter of the store. *)
LEMMA SameStoreStep == ASSUME SameStore(state', state) PROVE StoreStep
BY DEF SameStore, StoreStep, allTokens, DeletedIDs

(* A token whose secret is in use or revoked is behind the others at once.  *)
LEMMA CreateStep ==
    ASSUME StateSound(state), NEW o \in Offers, NEW n \in 1..MaxStamp, NextStamp(state, n),
           IDAvailable(o), ~KeyTaken(o),
           state' = [state EXCEPT !.added = @ \cup
                       {[id |-> o.id, name |-> o.name, hash |-> o.hash, at |-> n]}]
    PROVE  StoreStep
<1> DEFINE u == [id |-> o.id, name |-> o.name, hash |-> o.hash, at |-> n]
<1>1. /\ state \in State /\ n \in Nat /\ n # 0
      /\ u.id = o.id /\ u.at = n
  BY BoundsAssumption DEF StateSound
<1>2. state'.added = state.added \cup {u} /\ state'.revoked = state.revoked
      /\ state'.deleted = state.deleted
  BY <1>1 DEF State
<1> HIDE DEF u
<1>3. DeletedIDs(state)' = DeletedIDs(state)
  BY <1>2 DEF DeletedIDs
<1>4. \A t \in BaseTokens \cup state.added : t.at \in Nat /\ t.at < n
  BY <1>1, TokenStamps, TokensAssumption DEF NextStamp
<1>5. allTokens(state) \subseteq allTokens(state)' /\ allTokens(state)' \subseteq allTokens(state) \cup {u}
  BY <1>1, <1>2, <1>4 DEF allTokens
<1>6. u \in allTokens(state)' => \A t \in BaseTokens \cup state.added : t.hash # u.hash
  BY <1>1, <1>2, <1>4 DEF allTokens
<1>7. CASE u \in allTokens(state)'
  <2>1. allTokens(state)' = allTokens(state) \cup {u}
    BY <1>5, <1>7
  <2>2. \A t \in allTokens(state) : t.hash # u.hash
    BY <1>6, <1>7 DEF allTokens
  <2>3. \A t \in allTokens(state) : t.id # u.id
    BY <1>1 DEF IDAvailable, KeyTaken, TokenIDsOf, allTokens
  <2>4. u.id \notin DeletedIDs(state)
    <3>1. u.id \in TokIDs /\ u.id \notin state.deleted
      BY <1>1, TokensAssumption DEF IDAvailable, KeyTaken
    <3> QED
      BY <3>1 DEF DeletedIDs, StateSound
  <2>5. Store!Create(u)
    BY <1>3, <2>1, <2>2, <2>3, <2>4 DEF Store!Create
  <2> QED
    BY <1>7, <2>5 DEF StoreStep, Store!Next
<1>8. CASE u \notin allTokens(state)'
  BY <1>3, <1>5, <1>8 DEF StoreStep
<1> QED
  BY <1>7, <1>8

(* A deletion is the store's, and brings no hidden token to light. *)
LEMMA DeleteStep ==
    ASSUME StateSound(state), NEW t \in allTokens(state), state' = Deleted(state, t)
    PROVE  StoreStep
<1>1. state \in State /\ t \in BaseTokens \cup state.added /\ t.hash \notin state.revoked
  BY DEF StateSound, allTokens
<1>2. /\ state'.added = {u \in state.added : u.hash # t.hash}
      /\ state'.revoked = IF NeedsRevocation(t) THEN state.revoked \cup {t.hash} ELSE state.revoked
      /\ state'.deleted = IF NeedsTombstone(t) THEN state.deleted \cup {t.id} ELSE state.deleted
  BY <1>1 DEF Deleted, State
<1>3. ASSUME NEW u \in allTokens(state)' PROVE u \in allTokens(state) \ {t}
  <2>1. u \in BaseTokens \cup state.added /\ u.hash # t.hash /\ u.hash \notin state.revoked
    BY <1>1, <1>2 DEF allTokens, NeedsRevocation
  <2>2. \A v \in BaseTokens \cup state.added : v.hash = u.hash => u.at <= v.at
    BY <1>2, <2>1 DEF allTokens
  <2> QED
    BY <2>1, <2>2 DEF allTokens
<1>4. allTokens(state)' = allTokens(state) \ {t}
  BY <1>3, DeleteKeepsActive
<1>5. CASE t \in BaseTokens
  <2>1. state'.revoked = state.revoked \cup {t.hash}
    BY <1>1, <1>2, <1>5 DEF NeedsRevocation
  <2>2. state'.deleted \subseteq state.deleted \cup {t.id} /\ state.deleted \subseteq state'.deleted
    BY <1>2
  <2>3. \A b \in BaseTokens : b.hash = t.hash => b = t
    BY <1>5, TokensAssumption
  <2> QED
    BY <1>5, <2>1, <2>2, <2>3, <1>4 DEF DeletedIDs, Store!Delete, Store!Next, StoreStep
<1>6. CASE t \in state.added
  <2>1. t.id \in TokIDs /\ t.at \in Nat /\ t.at # 0
    BY <1>1, <1>6, TokenStamps DEF StateSound
  <2>2. t.hash \notin {b.hash : b \in BaseTokens}
    BY <2>1, TokensAssumption DEF allTokens
  <2>3. state'.revoked = state.revoked
    BY <1>2, <2>2 DEF NeedsRevocation
  <2>4. state'.deleted = state.deleted \cup {t.id}
    BY <1>2, <2>1 DEF NeedsTombstone
  <2>5. DeletedIDs(state)' = DeletedIDs(state) \cup {t.id}
    BY <2>3, <2>4 DEF DeletedIDs
  <2> QED
    BY <1>4, <2>5 DEF Store!Delete, Store!Next, StoreStep
<1> QED
  BY <1>1, <1>5, <1>6

(* Each operation of the owner is a step of the store or a stutter. *)
LEMMA OwnerStep == ASSUME TypeInv, FilesSound, Owner PROVE StoreStep
<1>1. state \in State /\ StateSound(state)
  BY DEF FilesSound, StateSound
<1>2. ASSUME UNCHANGED state PROVE StoreStep
  BY <1>2, SameStoreStep DEF SameStore
<1>3. ASSUME NEW o \in Offers, NEW ok \in BOOLEAN, createToken(o, ok) PROVE StoreStep
  <2>1. PICK n \in 1..MaxStamp :
           /\ NextStamp(state, n)
           /\ Critical([state EXCEPT !.added = @ \cup
                      {[id |-> o.id, name |-> o.name, hash |-> o.hash, at |-> n]}], ok)
    BY <1>3 DEF createToken
  <2>2. IDAvailable(o) /\ ~KeyTaken(o)
    BY <1>3 DEF createToken
  <2> QED
    BY <1>1, <1>2, <2>1, <2>2, CreateStep DEF Critical, rollback
<1>4. ASSUME NEW t, NEW ok \in BOOLEAN, deleteToken(t, ok) PROVE StoreStep
  BY <1>1, <1>2, <1>4, DeleteStep DEF deleteToken, Critical, rollback
<1>5. ASSUME NEW k \in Keys, NEW block \in BOOLEAN, NEW ok \in BOOLEAN, setDeviceBlocked(k, block, ok)
      PROVE  StoreStep
  <2>1. SameStore(state', state)
    BY <1>1, <1>5 DEF setDeviceBlocked, Critical, rollback, SameStore, State
  <2> QED
    BY <2>1, SameStoreStep
<1>6. ASSUME NEW k, disconnectDevice(k) PROVE StoreStep
  BY <1>2, <1>6 DEF disconnectDevice
<1> QED
  BY <1>3, <1>4, <1>5, <1>6 DEF Owner

(* While the process is down, state is what the next start reads. *)
DownReads ==
    phase = "down" => IF disk = NoFile THEN \E i \in InstanceIDs : state = EmptyState(i)
                                       ELSE state = disk

(* A crash or a restart is a stutter: the next start reads what was in force. *)
LEMMA ProcessStore ==
    ASSUME SyncedInv, DownReads, ~Windows, Process
    PROVE  SameStore(state', state) /\ DownReads'
<1> USE DEF SyncedInv, Synced, DurableInv, FlushInv
<1>0. state.instance \in InstanceIDs /\ state # NoFile
  BY NullsAssumption DEF TypeInv, State
<1>1. ASSUME NEW i \in InstanceIDs, NEW ok \in BOOLEAN, start(i, ok)
      PROVE  SameStore(state', state) /\ DownReads'
  <2>1. phase = "down" /\ state' = Loaded(i) /\ persistLocked(Loaded(i), ok)
        /\ phase' = IF ok THEN "up" ELSE "down"
    BY <1>1 DEF start
  <2>2. SameStore(state', state)
    BY <2>1 DEF DownReads, Loaded, EmptyState, SameStore
  <2>3. ~ok => disk' = disk
    BY <2>1 DEF persistLocked, fileVars
  <2>4. DownReads'
    BY <2>1, <2>3 DEF DownReads, Loaded
  <2> QED
    BY <2>2, <2>4
<1>2. CASE crash(disk) \/ crash(platter)
  <2>1. phase # "down" /\ disk' = disk
        /\ state' = (IF disk = NoFile THEN EmptyState(state.instance) ELSE disk)
    BY <1>2 DEF crash, Running
  <2>2. disk # NoFile /\ SameStore(disk, state)
    BY <2>1 DEF OwnerChangesDurable, Running, SameStore
  <2> QED
    BY <2>1, <2>2 DEF DownReads
<1>3. ASSUME NEW ok \in BOOLEAN, finishShutdown(ok) PROVE SameStore(state', state) /\ DownReads'
  <2>1. phase # "down" /\ disk' \in {disk, state}
        /\ state' = (IF disk' = NoFile THEN EmptyState(state.instance) ELSE disk')
    BY <1>3 DEF finishShutdown, FinalFlush, persistLocked, fileVars
  <2>2. disk # NoFile /\ SameStore(disk, state)
    BY <2>1 DEF OwnerChangesDurable, Running, SameStore
  <2> QED
    BY <1>0, <2>1, <2>2 DEF DownReads, SameStore
<1>4. CASE beginShutdown \/ tick
  BY <1>4 DEF beginShutdown, tick, Running, fileVars, DownReads, SameStore
<1> QED
  BY <1>1, <1>2, <1>3, <1>4 DEF Process

(* For its clients and its owner the relay is the abstract store: a token is   *)
(* created or deleted in one step that survives every crash after it, a failed *)
(* write leaves nothing, and deleting a token brings no hidden one to light,   *)
(* whichever secrets were used twice (where the rename is atomic and           *)
(* directories can be synced).                                                 *)
THEOREM ControlPlaneImplementsTokenStore ==
    ASSUME ~Windows, ~DirSyncMayFail PROVE Spec => TokensAtomic
<1>1. Init => Store!Init /\ Synced /\ DownReads
  <2> SUFFICES ASSUME Init PROVE Store!Init /\ Synced /\ DownReads
    OBVIOUS
  <2>1. PICK i \in InstanceIDs : state = EmptyState(i)
    BY DEF Init
  <2>2. state.added = {} /\ state.revoked = {} /\ state.deleted = {}
    BY <2>1 DEF EmptyState
  <2>3. allTokens(state) = BaseTokens
    <3>1. \A t, u \in BaseTokens : t.at <= u.at
      BY TokensAssumption
    <3> QED
      BY <2>2, <3>1 DEF allTokens
  <2> QED
    BY <2>1, <2>2, <2>3 DEF Init, Store!Init, DeletedIDs, Synced, DownReads
<1>2. /\ DurableInv /\ FilesSound /\ Synced /\ DownReads /\ [Next]_vars
      => Synced' /\ DownReads' /\ [Store!Next]_<<allTokens(state), DeletedIDs(state)>>
  <2> SUFFICES ASSUME DurableInv, FilesSound, Synced, DownReads, [Next]_vars
               PROVE  Synced' /\ DownReads' /\ StoreStep
    BY DEF StoreStep
  <2> USE DEF DurableInv, FlushInv
  <2>1. Synced'
    BY StepSynced DEF SyncedInv
  <2>2. CASE Process
    BY <2>1, <2>2, ProcessStore, SameStoreStep DEF SyncedInv
  <2>3. CASE Owner
    <3>1. phase' # "down"
      BY <2>3 DEF Owner, createToken, deleteToken, disconnectDevice, setDeviceBlocked, Running
    <3> QED
      BY <2>1, <2>3, <3>1, OwnerStep DEF DownReads
  <2>4. CASE Session \/ Flush \/ Geo
    <3>1. SameStore(state', state)
      BY <2>4, ClientsKeepAdded DEF SameOwnerPart, SameStore
    <3>2. phase' # "down" \/ UNCHANGED <<state, disk>>
      <4>1. CASE Session \/ Flush
        BY <4>1, SessionPhase, FlushPhase
      <4>2. CASE Geo
        BY <4>2
        DEF Geo, lookupStarts, lookupFails, lookupAnswers, lookupEnds, cacheExpires, fileVars, DownIdle
      <4> QED
        BY <2>4, <4>1, <4>2
    <3>3. DownReads'
      <4>1. CASE phase' # "down"
        BY <4>1 DEF DownReads
      <4>2. CASE UNCHANGED <<state, disk>> /\ phase' = "down"
        <5>1. phase = "down"
          BY <2>4, <4>2, SessionPhase, FlushPhase
          DEF Geo, lookupStarts, lookupFails, lookupAnswers, lookupEnds, cacheExpires
        <5> QED
          BY <4>2, <5>1 DEF DownReads
      <4> QED
        BY <3>2, <4>1, <4>2
    <3> QED
      BY <2>1, <3>1, <3>3, SameStoreStep
  <2>5. CASE UNCHANGED vars
    BY <2>1, <2>5, SameStoreStep DEF vars, fileVars, DownReads, SameStore
  <2> QED
    BY <2>2, <2>3, <2>4, <2>5 DEF Next
<1>3. Spec => []DurableInv
  BY SpecDurableInv
<1> QED
  BY <1>1, <1>2, <1>3, SpecFilesSound, PTL DEF Spec, TokensAtomic, Store!Spec
=============================================================================
