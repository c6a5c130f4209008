--------------------------- MODULE MCRouteReport ----------------------------
(* RouteReport for TLC: config files with and without maps, bundles that     *)
(* know other DCs, requests with a DC twice and with an unknown one.         *)
EXTENDS RouteReport

CONSTANTS a1, a2, m1, c2, m3, t1

EmbeddedRoutes == [prod |-> 1 :> a1 @@ 2 :> a2, test |-> 1 :> t1]

E(address, role) == [address |-> address, role |-> role]

Options ==
    { Empty,
      1 :> <<E(a1, "regular"), E(m1, "media")>>,
      2 :> <<E(a2, "regular"), E(c2, "cdn"), E(c2, "media")>>,
      3 :> <<E(m3, "media")>>,
      1 :> <<E(a1, "regular"), E(a1, "regular")>>,
      2 :> <<>> }

File(dcMap, dcOptions, testDcMap, testDcOptions) ==
    [dcMap |-> dcMap, dcOptions |-> dcOptions, testDcMap |-> testDcMap, testDcOptions |-> testDcOptions]

ConfigFiles ==
    {File(map, options, Absent, Empty) :
         map \in {Absent, Null, Given(Empty), Given(2 :> c2)}, options \in Options}
    \cup {File(Absent, 1 :> <<E(m1, "media")>>, map, options) :
              map \in {Null, Given(Empty)}, options \in {Empty, 1 :> <<E(t1, "cdn")>>}}

SignedBundles ==
    { Signed(2 :> <<E(c2, "cdn"), E(m1, "media")>>, Empty),
      Signed(1 :> <<E(a1, "regular")>> @@ 3 :> <<E(m3, "media")>>, 2 :> <<E(t1, "regular")>>) }

RequestedDCs == {<<>>, <<2, 1, 2>>, <<9, 3, 1>>, <<1, 2, 3, 9>>}
=============================================================================
