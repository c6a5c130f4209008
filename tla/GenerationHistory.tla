-------------------------- MODULE GenerationHistory -------------------------
(***************************************************************************)
(* What the signed topology promises to the relay's users, whatever the    *)
(* implementation does with locks, files and refreshes (docs/TOPOLOGY.md,  *)
(* "Update semantics").  While the relay is up, the generation in force is *)
(* only replaced by a later one that is already durable; a start puts back *)
(* in force what the stop left; and a stop takes back at most what never   *)
(* became sure.  Generation 0 is the owner's own configuration, in force   *)
(* until the first bundle is accepted.                                     *)
(***************************************************************************)
EXTENDS Naturals

VARIABLES
    up,            \* whether the relay runs
    generation,    \* what it routes by, or would route by if it were started
    sure           \* what no power loss can take back

Init == ~up /\ generation = 0 /\ sure = 0

(* A newer generation, durable before it is in force. *)
Publish ==
    /\ up /\ UNCHANGED up
    /\ generation' \in Nat /\ generation' > generation
    /\ sure' = generation'

(* The file system may complete on its own what an fsync did not. *)
Settle ==
    /\ sure' \in sure + 1 .. generation
    /\ UNCHANGED <<up, generation>>

Start == ~up /\ up' = TRUE /\ UNCHANGED <<generation, sure>>

(* The process dies, or the machine loses power. *)
Stop ==
    /\ up /\ up' = FALSE
    /\ generation' \in Nat /\ generation' >= sure
    /\ sure' \in sure .. generation'

Next == Publish \/ Settle \/ Start \/ Stop

Spec == Init /\ [][Next]_<<up, generation, sure>>
=============================================================================
