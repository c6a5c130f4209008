----------------------------- MODULE TokenStore -----------------------------
(***************************************************************************)
(* What the owner API promises about client tokens, whatever the           *)
(* implementation does with files, failing writes, timers and restarts:    *)
(* one token is created or one deleted at a time, whole or not at all, and *)
(* a deleted one is not created again (docs/API.md:230-232, the repeated   *)
(* request; control_plane.go:1117, durability boundaries).                 *)
(***************************************************************************)
CONSTANT
    Configured       \* the tokens of the config file: records with an id and a hash, at least

VARIABLES
    active,          \* the tokens a client may use
    gone             \* the identifiers of deleted tokens

Init == active = Configured /\ gone = {}

(* Of active tokens no two share an identifier or a secret. *)
Create(t) ==
    /\ t.id \notin gone
    /\ \A u \in active : u.id # t.id /\ u.hash # t.hash
    /\ active' = active \cup {t}
    /\ UNCHANGED gone

Delete(t) ==
    /\ t \in active
    /\ active' = active \ {t}
    /\ gone' = gone \cup {t.id}

Next == (\E t \in active' : Create(t)) \/ (\E t \in active : Delete(t))

Spec == Init /\ [][Next]_<<active, gone>>
=============================================================================
