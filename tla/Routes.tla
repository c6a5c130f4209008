------------------------------- MODULE Routes -------------------------------
(***************************************************************************)
(* Where the relay may connect to: the routes of the owner's config file   *)
(* (LoadFile and AddressesForRoute in internal/config/config.go) and those *)
(* of the signed bundle in force (addresses and configuredDCs in           *)
(* internal/relay/topology_manager.go).  Pure operators.                   *)
(*                                                                         *)
(* A route table is a function from the DCs it lists, to an address in the *)
(* legacy dcMap and to a sequence of endpoints in dcOptions.  Parsing and  *)
(* the shape of addresses, ports and keys are left out.                    *)
(* Operators named Mut... are variants of the operator after them with a   *)
(* plausible bug: they show that the properties can fail.                  *)
(***************************************************************************)
EXTENDS Integers, SequencesExt

CONSTANTS
    Addresses,       \* normalized addresses of Telegram
    Embedded         \* Default().Telegram.DCMap and TestDCMap: [prod, test]

Roles     == {"regular", "media", "cdn"}
Endpoints == [address : Addresses, role : Roles]

Empty == <<>>        \* the route table without routes

Lookup(table, dc, default) == IF dc \in DOMAIN table THEN table[dc] ELSE default

-----------------------------------------------------------------------------
(* The config file.  A member of the JSON object is absent, null or a map.   *)

Absent   == [kind |-> "absent", routes |-> Empty]
Null     == [kind |-> "null", routes |-> Empty]
Given(r) == [kind |-> "map", routes |-> r]

MutReset(member, default) == default

(* resetExplicitTelegramMaps clears a map that is in the file. *)
Reset(member, default) == IF member.kind = "absent" THEN default ELSE Empty

Merged(new, old) == [dc \in DOMAIN new \cup DOMAIN old |-> Lookup(new, dc, old[dc])]

(* encoding/json adds the members of a map to what is already there, null    *)
(* makes it nil, and applyDefaults gives a nil map the embedded routes.      *)
Loaded(member, default) ==
    IF member.kind = "map" THEN Merged(member.routes, Reset(member, default)) ELSE default

(* ValidateTelegramDCOptions: no list is empty, no role and address is       *)
(* repeated.  The limits on the number of routes and endpoints are left out. *)
ValidOptions(options) ==
    \A dc \in DOMAIN options : options[dc] # <<>> /\ IsInjective(options[dc])

(* The config the relay runs with. *)
Config(file) ==
    [signed |-> FALSE,
     prod |-> [map |-> Loaded(file.dcMap, Embedded.prod), options |-> file.dcOptions],
     test |-> [map |-> Loaded(file.testDcMap, Embedded.test), options |-> file.testDcOptions]]

Validate(file) ==
    LET c == Config(file)
    IN  /\ ValidOptions(file.dcOptions) /\ ValidOptions(file.testDcOptions)
        /\ c.prod.map # Empty \/ c.prod.options # Empty

(* A verified bundle: endpoints only. *)
Signed(prod, test) ==
    [signed |-> TRUE, prod |-> [map |-> Empty, options |-> prod], test |-> [map |-> Empty, options |-> test]]

-----------------------------------------------------------------------------
(* AddressesForRoute *)

AddOnce(list, address) == IF Contains(list, address) THEN list ELSE Append(list, address)

appendRole(list, endpoints, role) ==
    LET upTo[n \in 0..Len(endpoints)] ==
            IF n = 0 THEN list
            ELSE IF endpoints[n].role = role THEN AddOnce(upTo[n - 1], endpoints[n].address)
            ELSE upTo[n - 1]
    IN  upTo[Len(endpoints)]

(* The preferred role comes first; a main route has no media endpoints. *)
Chosen(endpoints, media) ==
    IF media
    THEN appendRole(appendRole(appendRole(<<>>, endpoints, "media"), endpoints, "cdn"), endpoints, "regular")
    ELSE appendRole(appendRole(<<>>, endpoints, "regular"), endpoints, "cdn")

(* The legacy address is used only when no endpoint is eligible. *)
AddressesForRoute(routes, dc, media) ==
    LET chosen == Chosen(Lookup(routes.options, dc, <<>>), media)
    IN  IF chosen = <<>> /\ dc \in DOMAIN routes.map THEN <<routes.map[dc]>> ELSE chosen

(* topologyManager.addresses: from the bundle alone when there is one. *)
RoutesOf(topology, test) == IF test THEN topology.test ELSE topology.prod

addresses(topology, dc, test, media) == AddressesForRoute(RoutesOf(topology, test), dc, media)

(* topologyManager.configuredDCs, which /capabilities advertises. *)
configuredDCs(topology, test) ==
    LET routes == RoutesOf(topology, test)
    IN  DOMAIN routes.map \cup {dc \in DOMAIN routes.options : routes.options[dc] # <<>>}
=============================================================================
