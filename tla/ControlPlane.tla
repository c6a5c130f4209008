---------------------------- MODULE ControlPlane ----------------------------
(***************************************************************************)
(* The owner control plane of the relay (internal/relay/control_plane.go): *)
(* client tokens, revocations and tombstones, tracked devices and blocks,  *)
(* the registry of open WebSocket sessions, the coalesced flush of client  *)
(* metadata, the geolocation cache, and the state file that must survive   *)
(* crashes.                                                                *)
(*                                                                         *)
(* Everything the code does under c.mu is one step.  What it does after    *)
(* the unlock (running the collected close functions), between two calls   *)
(* (the upstream dial between authorization and registration), and in      *)
(* timer callbacks and goroutines is a step of its own.                    *)
(*                                                                         *)
(* Operators named Mut... are variants of the operator after them with a   *)
(* plausible bug: they show that the properties can fail.                  *)
(***************************************************************************)
EXTENDS Naturals, FiniteSets

CONSTANTS
    Requests,        \* concurrent client requests (slots, reused)
    TokenIDs,        \* stable token identifiers
    TokIDs,          \* those that carry the "tok_" prefix
    KeyIDs,          \* those derived from an owner's idempotency key
    Names,           \* token display names
    Hashes,          \* token hashes; SHA-256 is taken to be injective
    BaseTokens,      \* config.Tokens
    Offers,          \* the (id, name, hash) an owner may ask to create
    Dev2IDs,         \* "dev2_" device identifiers
    DevIDs,          \* "dev_" device identifiers
    IPs,             \* remote addresses; an address also is the legacy device id it is hashed to
    PublicIPs,       \* those publicIP accepts
    Metas,           \* manufacturer and model of a device
    NoID, NoMeta,    \* absent headers
    Headers,         \* the device headers a request may carry
    InstanceIDs,     \* relay instance identities
    NoInstance,
    Timers,          \* time.AfterFunc timers that may exist at a time
    NoTimer,
    Resolver,        \* whether config.Admin.GeoIPURL is set
    NoCountry,
    NoClient, NoRequest, NoFile,
    Windows,         \* runtime.GOOS == "windows"
    DirSyncMayFail,  \* whether the directory fsync after the rename may fail
    MaxTokens,       \* 1024 in createToken and load
    MaxRevoked,      \* 2048 in deleteToken and load
    MaxDeleted,      \* 2048 in deleteToken and load
    MaxClients,      \* maxTrackedClients
    MaxLocationCache,
    MaxStamp,        \* bound: positions in AddedTokens
    MaxNow           \* bound: clock ticks

Keys    == TokenIDs \X (Dev2IDs \cup DevIDs \cup IPs)      \* tokenID + ":" + deviceID
Token   == [id : TokenIDs, name : Names, hash : Hashes, at : 0..MaxStamp]
Header  == [device : Dev2IDs \cup DevIDs \cup {NoID}, previous : Dev2IDs \cup DevIDs \cup {NoID},
            ip : IPs, meta : Metas \cup {NoMeta}]
Client  == [ip : IPs, meta : Metas \cup {NoMeta}, country : IPs \cup {NoCountry}, seen : 0..MaxNow]

(* controlState.  AddedTokens is a slice: `at` keeps the order of its        *)
(* elements.  BlockedDevices is the set of its keys.                         *)
State   == [instance : InstanceIDs, added : SUBSET Token, revoked : SUBSET Hashes,
            deleted : SUBSET TokIDs, clients : [Keys -> Client \cup {NoClient}],
            blocked : SUBSET Keys]

(* A client request between authorizeClient and the end of its session: the  *)
(* token it was authorized as, its headers, the key its trackedSession is    *)
(* filed under (migration rewrites it) and the key its unregister closure    *)
(* captured, and whether its two connections have been closed.               *)
Request == [step : {"authorized", "dialing", "open"}, id : TokenIDs, hash : Hashes,
            hdr : Headers, key : Keys, own : Keys, shut : BOOLEAN]

(* A goroutine running resolveLocation. *)
Lookup  == [key : Keys, ip : IPs, step : {"start", "resolve", "done"}]

ASSUME BoundsAssumption ==
    /\ MaxTokens \in Nat /\ MaxRevoked \in Nat /\ MaxDeleted \in Nat
    /\ MaxClients \in Nat \ {0} /\ MaxLocationCache \in Nat \ {0}
    /\ MaxStamp \in Nat /\ MaxNow \in Nat
    /\ Windows \in BOOLEAN /\ DirSyncMayFail \in BOOLEAN /\ Resolver \in BOOLEAN

ASSUME SetsAssumption ==
    /\ IsFiniteSet(Requests) /\ IsFiniteSet(Keys)
    /\ TokIDs \subseteq TokenIDs /\ KeyIDs \subseteq TokIDs
    /\ Headers \subseteq Header /\ PublicIPs \subseteq IPs
    /\ NoID \notin Dev2IDs \cup DevIDs \cup IPs
    /\ Dev2IDs \cap DevIDs = {} /\ (Dev2IDs \cup DevIDs) \cap IPs = {}

(* validateTokens: configured tokens have distinct identifiers and hashes.   *)
(* createToken gives every token it creates a "tok_" identifier.             *)
ASSUME TokensAssumption ==
    /\ BaseTokens \subseteq Token /\ IsFiniteSet(BaseTokens)
    /\ \A t \in BaseTokens : t.at = 0
    /\ \A t, u \in BaseTokens : t # u => t.id # u.id /\ t.hash # u.hash
    /\ Offers \subseteq [id : TokIDs, name : Names, hash : Hashes]

(* sessionLimiter admits fewer sessions (1024) than devices are tracked (4096). *)
ASSUME TrackingAssumption == Cardinality(Requests) < MaxClients

ASSUME NullsAssumption ==
    /\ NoClient \notin Client /\ NoRequest \notin Request /\ NoFile \notin State
    /\ NoTimer \notin Timers /\ NoInstance \notin InstanceIDs /\ NoCountry \notin IPs

VARIABLES
    phase,      \* "down", "up", "stopping" (c.shuttingDown)
    exit,       \* how the process last ended: "none", "ok", "error", "crash"
    state,      \* c.state
    disk,       \* the state file as the operating system shows it
    platter,    \* the state file as a power loss leaves it
    dirty,      \* c.clientDirty
    flush,      \* c.clientFlush
    armed,      \* timers that have not expired
    fired,      \* timers whose callback waits for c.mu
    req,        \* the client requests; the open ones are c.active
    closing,    \* requests whose close function was collected and not yet called
    cached,     \* addresses in c.locationCache
    fresh,      \* those whose entry is younger than 24 hours
    busy,       \* c.locationBusy
    lookups,    \* resolveLocation goroutines
    now         \* time.Now, in the seconds of RFC 3339

fileVars  == <<disk, platter>>
timerVars == <<dirty, flush, armed, fired>>
geoVars   == <<cached, fresh, busy, lookups>>
vars == <<phase, exit, state, fileVars, timerVars, req, closing, geoVars, now>>

TypeOK ==
    /\ phase \in {"down", "up", "stopping"}
    /\ exit \in {"none", "ok", "error", "crash"}
    /\ state \in State
    /\ disk \in State \cup {NoFile}
    /\ platter \in State \cup {NoFile}
    /\ dirty \in BOOLEAN
    /\ flush \in Timers \cup {NoTimer}
    /\ armed \subseteq Timers
    /\ fired \subseteq Timers
    /\ req \in [Requests -> Request \cup {NoRequest}]
    /\ closing \subseteq Requests
    /\ cached \subseteq IPs /\ fresh \subseteq cached /\ busy \subseteq IPs
    /\ lookups \subseteq Lookup
    /\ now \in 0..MaxNow

(* The state newControlPlane starts from when there is no state file. *)
EmptyState(i) ==
    [instance |-> i, added |-> {}, revoked |-> {}, deleted |-> {},
     clients |-> [k \in Keys |-> NoClient], blocked |-> {}]

-----------------------------------------------------------------------------
(* Tokens *)

(* allTokensLocked: configured tokens, then added ones, without the revoked  *)
(* ones; of several with one hash only the first.                            *)
allTokens(st) ==
    {t \in BaseTokens \cup st.added :
        /\ t.hash \notin st.revoked
        /\ \A u \in BaseTokens \cup st.added : u.hash = t.hash => t.at <= u.at}

TokenIDsOf(st) == {t.id : t \in allTokens(st)}

(* clientTokenActiveLocked: the recheck goes by hash, not by identifier. *)
clientTokenActive(st, hash) == \E t \in allTokens(st) : t.hash = hash

(* The checks of load and validateStateAgainstConfig; a file that fails one  *)
(* keeps the relay from starting.                                            *)
Known(st) == {k \in Keys : st.clients[k] # NoClient}

validateStateAgainstConfig(st) ==
    \A t, u \in BaseTokens \cup st.added : t # u => t.id # u.id /\ t.hash # u.hash

load(st) ==
    /\ Cardinality(st.added) <= MaxTokens
    /\ Cardinality(st.revoked) <= MaxRevoked
    /\ Cardinality(st.deleted) <= MaxDeleted
    /\ Cardinality(Known(st)) <= MaxClients
    /\ st.blocked \subseteq Known(st)

Loadable(file) == file # NoFile => load(file) /\ validateStateAgainstConfig(file)

-----------------------------------------------------------------------------
(* Persistence *)

(* persistLocked writes and fsyncs a temporary file, then renames it.  Any   *)
(* failure before the rename leaves the old file.  On Windows the old file   *)
(* is removed first.  A failing fsync of the directory is only logged; an    *)
(* earlier file that was not synced either may be on the platter by then.    *)
persistLocked(st, ok) ==
    \/ /\ ok
       /\ disk' = st
       /\ platter' = st
    \/ /\ ok /\ DirSyncMayFail /\ ~Windows
       /\ disk' = st
       /\ platter' \in {platter, disk}
    \/ /\ ~ok
       /\ UNCHANGED fileVars
    \/ /\ ~ok /\ Windows
       /\ disk' = NoFile
       /\ platter' = NoFile

(* time.Timer.Stop has no effect on a callback that already waits for c.mu. *)
StopFlush ==
    /\ armed' = armed \ {flush}
    /\ flush' = NoTimer
    /\ UNCHANGED fired

AfterFunc(t) ==
    /\ t \in Timers \ (armed \cup fired)
    /\ armed' = armed \cup {t}
    /\ flush' = t

persistCriticalLocked(st, ok) ==
    /\ persistLocked(st, ok)
    /\ IF ok THEN dirty' = FALSE /\ StopFlush ELSE UNCHANGED timerVars

MutScheduleClean ==
    /\ UNCHANGED timerVars

scheduleClientPersistLocked ==
    /\ dirty' = TRUE
    /\ UNCHANGED fired
    /\ IF phase = "stopping" \/ flush # NoTimer
       THEN UNCHANGED <<flush, armed>>
       ELSE \E t \in Timers : AfterFunc(t)

(* What an owner operation restores when its write fails. *)
MutRollbackKeepsTokens(new) == [state EXCEPT !.added = new.added]

rollback(new) == state

(* A critical change: memory, disk and, if the write fails, the rollback. *)
Critical(new, ok) ==
    /\ persistCriticalLocked(new, ok)
    /\ state' = IF ok THEN new ELSE rollback(new)

-----------------------------------------------------------------------------
(* Start, crash, clock *)

Volatile ==
    /\ dirty' = FALSE /\ flush' = NoTimer /\ armed' = {} /\ fired' = {}
    /\ req' = [r \in Requests |-> NoRequest] /\ closing' = {}
    /\ cached' = {} /\ fresh' = {} /\ busy' = {} /\ lookups' = {}

Init ==
    /\ phase = "down" /\ exit = "none"
    /\ \E i \in InstanceIDs : state = EmptyState(i)
    /\ disk = NoFile /\ platter = NoFile
    /\ dirty = FALSE /\ flush = NoTimer /\ armed = {} /\ fired = {}
    /\ req = [r \in Requests |-> NoRequest] /\ closing = {}
    /\ cached = {} /\ fresh = {} /\ busy = {} /\ lookups = {}
    /\ now = 0

(* newControlPlane: the loaded state, or an empty one with a new identity. *)
Loaded(i) == IF disk = NoFile THEN EmptyState(i) ELSE disk

(* NewServer, then prepareIdentity just before listening: without a durable  *)
(* identity the process ends.                                                *)
start(i, ok) ==
    /\ phase = "down" /\ Loadable(disk)
    /\ state' = Loaded(i)
    /\ persistLocked(Loaded(i), ok)
    /\ phase' = IF ok THEN "up" ELSE "down"
    /\ exit' = IF ok THEN "none" ELSE "error"
    /\ UNCHANGED <<timerVars, req, closing, geoVars, now>>

Running == phase # "down"

(* The process dies at any point, or the machine loses power.  What was in   *)
(* memory is gone: while the process is down `state` is what the next start  *)
(* reads.                                                                    *)
crash(file) ==
    /\ Running
    /\ phase' = "down" /\ exit' = "crash"
    /\ disk' = file
    /\ state' = IF file = NoFile THEN EmptyState(state.instance) ELSE file
    /\ Volatile
    /\ UNCHANGED <<platter, now>>

tick ==
    /\ Running /\ now < MaxNow
    /\ now' = now + 1
    /\ UNCHANGED <<phase, exit, state, fileVars, timerVars, req, closing, geoVars>>
-----------------------------------------------------------------------------
(* Owner operations *)

OpenRequests == {r \in Requests : req[r] # NoRequest /\ req[r].step = "open"}

SessionsOfToken(id) == {r \in OpenRequests : req[r].id = id}      \* c.active[id]

(* deviceClosersLocked *)
deviceClosers(key) == {r \in OpenRequests : req[r].key = key}

(* The position after the last element of AddedTokens. *)
NextStamp(st, n) ==
    /\ \A t \in st.added : t.at < n
    /\ n = 1 \/ \E t \in st.added : t.at = n - 1

(* An idempotency key that names a deleted token is refused; one that names  *)
(* an existing token is a replay or a conflict.  Either way nothing changes. *)
MutKeyTakenNoTombstone(o) == o.id \in KeyIDs /\ o.id \in TokenIDsOf(state)

KeyTaken(o) ==
    /\ o.id \in KeyIDs
    /\ o.id \in state.deleted \/ o.id \in TokenIDsOf(state)

(* An identifier drawn at random is new. *)
IDAvailable(o) ==
    o.id \in KeyIDs \/ o.id \notin state.deleted \cup {t.id : t \in BaseTokens \cup state.added}

MutRoomForOneMore == Cardinality(allTokens(state)) <= MaxTokens

RoomForToken == Cardinality(allTokens(state)) < MaxTokens

createToken(o, ok) ==
    /\ Running
    /\ IDAvailable(o) /\ ~KeyTaken(o)
    /\ RoomForToken
    /\ \E n \in 1..MaxStamp :
          /\ NextStamp(state, n)
          /\ Critical([state EXCEPT !.added = @ \cup
                {[id |-> o.id, name |-> o.name, hash |-> o.hash, at |-> n]}], ok)
    /\ UNCHANGED <<phase, exit, req, closing, geoVars, now>>

(* The state deleteToken writes: every added token with the hash goes, a     *)
(* configured hash is revoked, a "tok_" identifier leaves a tombstone, and   *)
(* the token's devices and their blocks are forgotten.                       *)
NeedsRevocation(t) == t.hash \in {b.hash : b \in BaseTokens} /\ t.hash \notin state.revoked
NeedsTombstone(t)  == t.id \in TokIDs /\ t.id \notin state.deleted

MutDeletedForgetsOlder(st, t) ==
    [st EXCEPT !.added = {u \in @ : u.hash # t.hash}, !.deleted = {t.id} \cap TokIDs]

Deleted(st, t) ==
    [st EXCEPT
        !.added   = {u \in @ : u.hash # t.hash},
        !.revoked = IF NeedsRevocation(t) THEN @ \cup {t.hash} ELSE @,
        !.deleted = IF NeedsTombstone(t) THEN @ \cup {t.id} ELSE @,
        !.clients = [k \in Keys |-> IF k[1] = t.id THEN NoClient ELSE @[k]],
        !.blocked = {k \in @ : ~(k[1] = t.id /\ st.clients[k] # NoClient)}]

deleteToken(t, ok) ==
    /\ Running
    /\ t \in allTokens(state)
    /\ NeedsRevocation(t) => Cardinality(state.revoked) < MaxRevoked
    /\ NeedsTombstone(t) => Cardinality(state.deleted) < MaxDeleted
    /\ Critical(Deleted(state, t), ok)
    /\ closing' = IF ok THEN closing \cup SessionsOfToken(t.id) ELSE closing
    /\ UNCHANGED <<phase, exit, req, geoVars, now>>

OnRecord(key) == state.clients[key] # NoClient

disconnectDevice(key) ==
    /\ Running
    /\ OnRecord(key)
    /\ closing' = closing \cup deviceClosers(key)
    /\ UNCHANGED <<phase, exit, state, fileVars, timerVars, req, geoVars, now>>

(* Validated and changed under one lock; only a device on record is blocked. *)
setDeviceBlocked(key, block, ok) ==
    /\ Running
    /\ OnRecord(key)
    /\ Critical([state EXCEPT !.blocked = IF block THEN @ \cup {key} ELSE @ \ {key}], ok)
    /\ closing' = IF ok /\ block THEN closing \cup deviceClosers(key) ELSE closing
    /\ UNCHANGED <<phase, exit, req, geoVars, now>>

-----------------------------------------------------------------------------
(* Client sessions *)

(* sessionIdentityDetails: without a device header the device is the legacy  *)
(* one of the address; the previous identifier counts only from dev2_ to dev_. *)
DeviceOf(h)   == IF h.device = NoID THEN h.ip ELSE h.device
PreviousOf(h) == IF h.device \in Dev2IDs /\ h.previous \in DevIDs THEN h.previous ELSE NoID

(* candidateDeviceIDs, as client keys *)
MutCandidatesCurrentOnly(id, h) == {<<id, DeviceOf(h)>>}

candidateKeys(id, h) ==
    {<<id, d>> : d \in {DeviceOf(h), PreviousOf(h), h.ip} \ {NoID}}

authorizeClient(r, t, h) ==
    /\ Running
    /\ req[r] = NoRequest
    /\ t \in allTokens(state)
    /\ req' = [req EXCEPT ![r] =
          [step |-> "authorized", id |-> t.id, hash |-> t.hash, hdr |-> h,
           key |-> <<t.id, DeviceOf(h)>>, own |-> <<t.id, DeviceOf(h)>>, shut |-> FALSE]]
    /\ UNCHANGED <<phase, exit, state, fileVars, timerVars, closing, geoVars, now>>

At(r, step) == req[r] # NoRequest /\ req[r].step = step

(* The early test of handleWebSocket, before the dial. *)
deviceBlocked(r) ==
    /\ At(r, "authorized")
    /\ req' = [req EXCEPT ![r] =
          IF candidateKeys(@.id, @.hdr) \cap state.blocked # {}
          THEN NoRequest ELSE [@ EXCEPT !.step = "dialing"]]
    /\ UNCHANGED <<phase, exit, state, fileVars, timerVars, closing, geoVars, now>>

(* The handler gives up: no route, no slot, no upstream, no hijack. *)
dialFails(r) ==
    /\ At(r, "dialing")
    /\ req' = [req EXCEPT ![r] = NoRequest]
    /\ UNCHANGED <<phase, exit, state, fileVars, timerVars, closing, geoVars, now>>

(* pruneClientsLocked: at the limit, forget the least recently seen devices, *)
(* idle ones before those with a session, until one more fits.               *)
ActiveKeys == {req[r].key : r \in OpenRequests}

PrunedBefore(k, l) ==
    IF (k \in ActiveKeys) = (l \in ActiveKeys)
    THEN state.clients[k].seen < state.clients[l].seen
    ELSE l \in ActiveKeys

MutPruneByAgeOnly ==
    LET known == Known(state) IN
    IF Cardinality(known) < MaxClients THEN {{}}
    ELSE {{k} : k \in {j \in known : \A l \in known : state.clients[j].seen <= state.clients[l].seen}}

pruneClients ==
    LET known == Known(state)
    IN  IF Cardinality(known) < MaxClients
        THEN {{}}
        ELSE {gone \in SUBSET known :
                /\ Cardinality(gone) = Cardinality(known) - MaxClients + 1
                /\ \A k \in gone, l \in known \ gone : ~PrunedBefore(l, k)}

Forget(st, gone) ==
    [st EXCEPT !.clients = [k \in Keys |-> IF k \in gone THEN NoClient ELSE @[k]],
               !.blocked = @ \ gone]

(* legacyMatchesRequest *)
legacyMatches(c, h) == c.ip = h.ip /\ h.meta # NoMeta /\ c.meta = h.meta

(* The keys migrateClientIdentityLocked merges into the request's own key. *)
OldKeys(st, id, h) ==
    {k \in Keys :
        /\ st.clients[k] # NoClient
        /\ k # <<id, DeviceOf(h)>>
        /\ \/ PreviousOf(h) # NoID /\ k = <<id, PreviousOf(h)>>
           \/ k = <<id, h.ip>> /\ legacyMatches(st.clients[k], h)}

(* mergeTrackedClient *)
Later(a, b) == IF a < b THEN b ELSE a

mergeTrackedClient(dst, src) ==
    [dst EXCEPT !.seen    = Later(@, src.seen),
                !.meta    = IF @ = NoMeta THEN src.meta ELSE @,
                !.country = IF @ = NoCountry THEN src.country ELSE @]

(* mergeClientKeyLocked: the record and the block move to the new key. *)
mergeClientKey(st, old, new) ==
    LET src == st.clients[old]
        dst == st.clients[new]
    IN  [st EXCEPT
            !.clients = [@ EXCEPT ![new] = IF dst = NoClient THEN src ELSE mergeTrackedClient(dst, src),
                                  ![old] = NoClient],
            !.blocked = IF old \in @ THEN (@ \ {old}) \cup {new} ELSE @]

MergeIf(st, old, new, olds) == IF old \in olds THEN mergeClientKey(st, old, new) ELSE st

(* migrateClientIdentityLocked: the previous key first, then the legacy one. *)
migrateClientIdentity(st, id, h) ==
    LET new  == <<id, DeviceOf(h)>>
        olds == OldKeys(st, id, h)
        prev == MergeIf(st, <<id, PreviousOf(h)>>, new, olds)
    IN  MergeIf(prev, <<id, h.ip>>, new, olds)

(* The record of the device after a registration; country is what the cache  *)
(* holds for its address.                                                    *)
Registered(c, h, country) ==
    IF c = NoClient
    THEN [ip |-> h.ip, meta |-> h.meta, country |-> country, seen |-> now]
    ELSE [c EXCEPT !.ip = h.ip, !.seen = now,
                   !.meta = IF h.meta = NoMeta THEN @ ELSE h.meta,
                   !.country = IF @ = NoCountry THEN country ELSE @]

NeedsLocation(c, ip) ==
    Resolver /\ ip \in PublicIPs /\ (c = NoClient \/ c.country = NoCountry)

MutAdmitWithoutToken(r) ==
    /\ phase # "stopping"
    /\ candidateKeys(req[r].id, req[r].hdr) \cap state.blocked = {}

MutAdmitBlocked(r) ==
    /\ phase # "stopping"
    /\ clientTokenActive(state, req[r].hash)

MutAdmitWhileStopping(r) ==
    /\ clientTokenActive(state, req[r].hash)
    /\ candidateKeys(req[r].id, req[r].hdr) \cap state.blocked = {}

(* The recheck under the lock that deleteToken and setDeviceBlocked take. *)
Admissible(r) ==
    /\ phase # "stopping"
    /\ clientTokenActive(state, req[r].hash)
    /\ candidateKeys(req[r].id, req[r].hdr) \cap state.blocked = {}

registerRefused(r) ==
    /\ At(r, "dialing")
    /\ ~Admissible(r)
    /\ req' = [req EXCEPT ![r] = NoRequest]
    /\ UNCHANGED <<phase, exit, state, fileVars, timerVars, closing, geoVars, now>>

MutNotRefiled(olds, new) == req

(* Sessions filed under a merged key are filed under the new one. *)
Refiled(olds, new) ==
    [q \in Requests |-> IF q \in OpenRequests /\ req[q].key \in olds
                        THEN [req[q] EXCEPT !.key = new] ELSE req[q]]

registerSession(r, gone) ==
    LET h   == req[r].hdr
        id  == req[r].id
        key == <<id, DeviceOf(h)>>
        st  == Forget(state, gone)
        mig == migrateClientIdentity(st, id, h)
        c   == mig.clients[key]
        hit == NeedsLocation(c, h.ip) /\ h.ip \in fresh
        ask == NeedsLocation(c, h.ip) /\ h.ip \notin fresh \cup busy
    IN  /\ At(r, "dialing")
        /\ Admissible(r)
        /\ gone \in pruneClients
        /\ state' = [mig EXCEPT !.clients[key] = Registered(c, h, IF hit THEN h.ip ELSE NoCountry)]
        /\ req' = [Refiled(OldKeys(st, id, h), key) EXCEPT ![r] = [req[r] EXCEPT !.step = "open"]]
        /\ busy' = IF ask THEN busy \cup {h.ip} ELSE busy
        /\ lookups' = IF ask THEN lookups \cup {[key |-> key, ip |-> h.ip, step |-> "start"]}
                             ELSE lookups
        /\ scheduleClientPersistLocked
        /\ UNCHANGED <<phase, exit, fileVars, closing, cached, fresh, now>>

(* One of the peers ends the session, or the bridge does. *)
peerCloses(r) ==
    /\ At(r, "open") /\ ~req[r].shut
    /\ req' = [req EXCEPT ![r].shut = TRUE]
    /\ UNCHANGED <<phase, exit, state, fileVars, timerVars, closing, geoVars, now>>

(* The owner's handler, or shutdown, calls a close function it collected. *)
runCloser(r) ==
    /\ r \in closing
    /\ closing' = closing \ {r}
    /\ req' = [req EXCEPT ![r].shut = TRUE]
    /\ UNCHANGED <<phase, exit, state, fileVars, timerVars, geoVars, now>>

Seen(st, key) ==
    [st EXCEPT !.clients[key] = IF @ = NoClient THEN @ ELSE [@ EXCEPT !.seen = now]]

(* The deferred unregister, once the bridge has returned.  A close function  *)
(* still to be called for this session no longer has anything to close.      *)
unregister(r) ==
    /\ At(r, "open") /\ req[r].shut
    /\ state' = Seen(state, req[r].own)
    /\ req' = [req EXCEPT ![r] = NoRequest]
    /\ closing' = closing \ {r}
    /\ scheduleClientPersistLocked
    /\ UNCHANGED <<phase, exit, fileVars, geoVars, now>>

-----------------------------------------------------------------------------
(* The coalesced flush *)

timerFires(t) ==
    /\ t \in armed
    /\ armed' = armed \ {t}
    /\ fired' = fired \cup {t}
    /\ UNCHANGED <<phase, exit, state, fileVars, dirty, flush, req, closing, geoVars, now>>

MutNoRetry == flush' = NoTimer /\ UNCHANGED armed

RetryFlush == \E t \in Timers : AfterFunc(t)

(* The callback forgets c.clientFlush, whichever timer that is by now. *)
flushClientState(t, ok) ==
    /\ t \in fired
    /\ fired' = fired \ {t}
    /\ IF dirty
       THEN /\ persistLocked(state, ok)
            /\ dirty' = ~ok
            /\ IF ok THEN flush' = NoTimer /\ UNCHANGED armed
                     ELSE RetryFlush
       ELSE flush' = NoTimer /\ UNCHANGED <<dirty, armed, fileVars>>
    /\ UNCHANGED <<phase, exit, state, req, closing, geoVars, now>>

(* shutdown, first part: no more registrations, every session is closed. *)
beginShutdown ==
    /\ phase = "up"
    /\ phase' = "stopping"
    /\ closing' = closing \cup OpenRequests
    /\ UNCHANGED <<exit, state, fileVars, timerVars, req, geoVars, now>>

MutNoFinalFlush(ok) == ok /\ UNCHANGED fileVars

FinalFlush(ok) == IF dirty THEN persistLocked(state, ok) ELSE ok /\ UNCHANGED fileVars

(* Second part: every close function was called, and all sessions have gone  *)
(* or two seconds have passed; stop the timer, flush, and end the process.   *)
finishShutdown(ok) ==
    /\ phase = "stopping"
    /\ \A r \in OpenRequests : req[r].shut
    /\ FinalFlush(ok)
    /\ phase' = "down"
    /\ exit' = IF ok THEN "ok" ELSE "error"
    /\ state' = IF disk' = NoFile THEN EmptyState(state.instance) ELSE disk'
    /\ Volatile
    /\ UNCHANGED now

-----------------------------------------------------------------------------
(* Geolocation *)

SetCountry(st, key, ip) == [st EXCEPT !.clients[key].country = ip]

(* resolveLocation, first critical section: another lookup may have answered. *)
lookupStarts(l) ==
    /\ l \in lookups /\ l.step = "start"
    /\ IF l.ip \in fresh
       THEN /\ lookups' = (lookups \ {l}) \cup {[l EXCEPT !.step = "done"]}
            /\ IF state.clients[l.key] # NoClient
               THEN state' = SetCountry(state, l.key, l.ip) /\ scheduleClientPersistLocked
               ELSE UNCHANGED <<state, timerVars>>
       ELSE /\ lookups' = (lookups \ {l}) \cup {[l EXCEPT !.step = "resolve"]}
            /\ UNCHANGED <<state, timerVars>>
    /\ UNCHANGED <<phase, exit, fileVars, req, closing, cached, fresh, busy, now>>

(* The resolver fails, times out, or answers nothing. *)
lookupFails(l) ==
    /\ l \in lookups /\ l.step = "resolve"
    /\ lookups' = (lookups \ {l}) \cup {[l EXCEPT !.step = "done"]}
    /\ UNCHANGED <<phase, exit, state, fileVars, timerVars, req, closing, cached, fresh, busy, now>>

Evictions == IF Cardinality(cached) >= MaxLocationCache THEN {{i} : i \in cached} ELSE {{}}

(* The answer is cached; it is applied only if the device still has the address. *)
lookupAnswers(l, out) ==
    /\ l \in lookups /\ l.step = "resolve"
    /\ out \in Evictions
    /\ cached' = (cached \ out) \cup {l.ip}
    /\ fresh' = (fresh \ out) \cup {l.ip}
    /\ lookups' = (lookups \ {l}) \cup {[l EXCEPT !.step = "done"]}
    /\ IF state.clients[l.key] # NoClient /\ state.clients[l.key].ip = l.ip
       THEN state' = SetCountry(state, l.key, l.ip) /\ scheduleClientPersistLocked
       ELSE UNCHANGED <<state, timerVars>>
    /\ UNCHANGED <<phase, exit, fileVars, req, closing, busy, now>>

MutStillBusy(ip) == busy

NoLongerBusy(ip) == busy \ {ip}

(* The deferred function of resolveLocation. *)
lookupEnds(l) ==
    /\ l \in lookups /\ l.step = "done"
    /\ lookups' = lookups \ {l}
    /\ busy' = NoLongerBusy(l.ip)
    /\ UNCHANGED <<phase, exit, state, fileVars, timerVars, req, closing, cached, fresh, now>>

(* A cache entry becomes older than 24 hours. *)
cacheExpires(ip) ==
    /\ ip \in fresh
    /\ fresh' = fresh \ {ip}
    /\ UNCHANGED <<phase, exit, state, fileVars, timerVars, req, closing, cached, busy, lookups, now>>
-----------------------------------------------------------------------------
Owner ==
    \/ \E o \in Offers, ok \in BOOLEAN : createToken(o, ok)
    \/ \E t \in BaseTokens \cup state.added, ok \in BOOLEAN : deleteToken(t, ok)
    \/ \E k \in Keys : disconnectDevice(k)
    \/ \E k \in Keys, block, ok \in BOOLEAN : setDeviceBlocked(k, block, ok)

Session ==
    \/ \E r \in Requests, t \in BaseTokens \cup state.added, h \in Headers : authorizeClient(r, t, h)
    \/ \E r \in Requests : deviceBlocked(r)
    \/ \E r \in Requests : dialFails(r)
    \/ \E r \in Requests : registerRefused(r)
    \/ \E r \in Requests, gone \in SUBSET Known(state) : registerSession(r, gone)
    \/ \E r \in Requests : peerCloses(r)
    \/ \E r \in Requests : runCloser(r)
    \/ \E r \in Requests : unregister(r)

Flush ==
    \/ \E t \in Timers : timerFires(t)
    \/ \E t \in Timers, ok \in BOOLEAN : flushClientState(t, ok)

Process ==
    \/ \E i \in InstanceIDs, ok \in BOOLEAN : start(i, ok)
    \/ crash(disk)
    \/ crash(platter)
    \/ beginShutdown
    \/ \E ok \in BOOLEAN : finishShutdown(ok)
    \/ tick

Geo ==
    \/ \E l \in lookups : lookupStarts(l)
    \/ \E l \in lookups : lookupFails(l)
    \/ \E l \in lookups, out \in SUBSET cached : lookupAnswers(l, out)
    \/ \E l \in lookups : lookupEnds(l)
    \/ \E ip \in IPs : cacheExpires(ip)

Next == Owner \/ Session \/ Flush \/ Process \/ Geo

Spec == Init /\ [][Next]_vars

(***************************************************************************)
(* Fairness.  Close functions and deferred unregisters run (goroutines     *)
(* make progress), timers expire, and a write that is attempted again and  *)
(* again succeeds at some point.  Clients, owners and crashes are free.    *)
(***************************************************************************)
FlushSucceeds == \E t \in Timers : dirty /\ flushClientState(t, TRUE)

FairSpec ==
    /\ Spec
    /\ \A r \in Requests : WF_vars(runCloser(r)) /\ SF_vars(unregister(r))
    /\ \A t \in Timers : WF_vars(timerFires(t))
    /\ WF_vars(\E t \in Timers, ok \in BOOLEAN : flushClientState(t, ok))
    /\ SF_vars(FlushSucceeds)

-----------------------------------------------------------------------------
(* Properties *)

(* Whatever the owner and the clients do, the state file can be loaded again:  *)
(* load and validateStateAgainstConfig accept it, so a restart is possible.   *)
(* (The comment in setDeviceBlocked names an orphan block as one way to break *)
(* it; the limits and duplicate tokens are others.)                           *)
DiskLoadable == Loadable(disk) /\ Loadable(platter)

(* Tokens, revocations and tombstones in memory are those of the file at all  *)
(* times: createToken and deleteToken report success only after the write,    *)
(* and a failed write is rolled back completely.                              *)
OwnerChangesDurable ==
    Running => /\ disk # NoFile
               /\ disk.instance = state.instance
               /\ disk.added = state.added
               /\ disk.revoked = state.revoked
               /\ disk.deleted = state.deleted

(* What the files say of deletions, before and after a step. *)
RevokedIn(file) == IF file = NoFile THEN {} ELSE file.revoked
DeletedIn(file) == IF file = NoFile THEN {} ELSE file.deleted

StaysDeleted ==
    RevokedIn(disk) \subseteq RevokedIn(disk') /\ DeletedIn(disk) \subseteq DeletedIn(disk')

(* A file that says a hash is revoked or an identifier deleted says so for    *)
(* ever, and so does one that names the relay (its identity is written before *)
(* it first listens, and clients pin it): across failed writes, crashes and   *)
(* restarts.                                                                  *)
RevocationIsForever ==
    [][/\ StaysDeleted
       /\ disk # NoFile => disk' # NoFile /\ disk'.instance = disk.instance]_vars

(* The part of it that a comment in the code promises: "Token creation and    *)
(* revocation are durability boundaries: the API reports success only after   *)
(* the state file is safely replaced" (control_plane.go:1117).  As long as    *)
(* there is a state file, no revocation and no tombstone disappears from it,  *)
(* whatever the machine does.                                                 *)
DeletionsLast == [][disk' # NoFile => StaysDeleted]_vars

(* A deleted token is never accepted again: once its identifier is in the     *)
(* tombstones or its hash in the revocations, no token of that identifier or  *)
(* hash is active, even after a retry of the creation that made it.           *)
DeletedStaysDeleted ==
    Running => \A t \in allTokens(state) : t.id \notin state.deleted /\ t.hash \notin state.revoked

(* Creating and deleting tokens is atomic and lasting for every observer, also *)
(* across failed writes, retries, crashes and restarts, and whichever secrets  *)
(* are used again: the control plane implements TokenStore.  Tokens that no    *)
(* client can use (their secret was in use, or is revoked) do not exist there, *)
(* and must not come to light when another token is deleted.                   *)
DeletedIDs(st) == st.deleted \cup {b.id : b \in {c \in BaseTokens : c.hash \in st.revoked}}

Store == INSTANCE TokenStore
    WITH Configured <- BaseTokens, active <- allTokens(state), gone <- DeletedIDs(state)

TokensAtomic == Store!Spec

(* No session slips past a revocation: an open session whose token was        *)
(* deleted is closed or about to be closed, although deleteToken collects the *)
(* sessions under the lock and registerSession runs long after authorization. *)
RevokedSessionsClose ==
    \A r \in OpenRequests :
        req[r].id \notin TokenIDsOf(state) => req[r].shut \/ r \in closing

(* The same for a block: a session filed under a blocked device key is closed *)
(* or about to be closed, also when migration re-filed it meanwhile.          *)
BlockedSessionsClose ==
    \A r \in OpenRequests :
        req[r].key \in state.blocked => req[r].shut \/ r \in closing

(* shutdown leaves no session behind: from the moment it starts, every open   *)
(* session was collected by it or is closed already.                          *)
StoppedSessionsClose ==
    phase = "stopping" => \A r \in OpenRequests : req[r].shut \/ r \in closing

(* The owner can always name the device of a live session (to disconnect or   *)
(* block it): pruning and migration never drop the record of a device with an *)
(* open session while its token exists.                                       *)
SessionsHaveDevices ==
    \A r \in OpenRequests :
        req[r].id \in TokenIDsOf(state) => state.clients[req[r].key] # NoClient

(* When nothing is marked dirty the file holds everything memory holds: every *)
(* change of client metadata is followed by a schedule, every rollback is     *)
(* exact, and no persist clears the flag for something it did not write.      *)
CleanMeansDurable == Running /\ ~dirty => disk = state

(* Nothing dirty is ever forgotten: while the relay serves, some timer or     *)
(* callback is there to flush it, although Stop may lose against a callback   *)
(* that already waits and a late callback clears the pointer to a newer timer. *)
FlushScheduled == phase = "up" /\ dirty => armed \cup fired # {}

(* A shutdown that reports success has written everything it had. *)
ShutdownFlushes == [][phase = "stopping" /\ exit' = "ok" => disk' = state]_vars

(* A block ends only by the owner's decision (unblock or token deletion, both *)
(* written at once) or when the record of its device is pruned at the limit:  *)
(* a device does not lose its block by changing its identity.                 *)
BlocksOutliveMigration ==
    [][\A k \in state.blocked : phase' # "down" /\ k \notin state'.blocked =>
          disk' = state' \/ Cardinality(Known(state)) >= MaxClients]_vars

(* At most one lookup per address is in flight and locationBusy is exactly    *)
(* the set of those addresses: no address is stuck as busy, none is asked for *)
(* twice at the same time.                                                    *)
BusyMatchesLookups ==
    /\ busy = {l.ip : l \in lookups}
    /\ \A l, m \in lookups : l.ip = m.ip => l = m

(* Dirty client metadata reaches the file in the end, unless the process ends. *)
FlushesEventually == dirty ~> ~dirty \/ phase # "up"

(* The sessions of a deleted token do end. *)
RevokedSessionsEnd ==
    \A r \in Requests :
        r \in OpenRequests /\ req[r].id \notin TokenIDsOf(state) ~> r \notin OpenRequests
=============================================================================
