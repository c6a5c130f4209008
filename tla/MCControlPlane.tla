--------------------------- MODULE MCControlPlane ---------------------------
(***************************************************************************)
(* ControlPlane for TLC.  The configurations share these definitions and   *)
(* choose the sets that matter for their question.                         *)
(***************************************************************************)
EXTENDS ControlPlane, TLC

CONSTANTS cfg1, tokA, tokB, tokR, h0, hA, hB, hC, hR, n1, n2, d2, d1, ip1, ip2, m1

BaseOne == {[id |-> cfg1, name |-> n1, hash |-> h0, at |-> 0]}

Offer(id, name, hash) == [id |-> id, name |-> name, hash |-> hash]

OffersOne == {Offer(tokA, n1, hA)}

(* Two keys, the first with two secrets and names (a retry, conflicts), and a *)
(* creation without a key; no secret is offered for two identifiers.          *)
OffersDistinct ==
    {Offer(tokA, n1, hA), Offer(tokA, n2, hC), Offer(tokB, n1, hB), Offer(tokR, n1, hR)}

(* One secret offered under two keys. *)
OffersReused == {Offer(tokA, n1, hA), Offer(tokB, n1, hA)}

(* One secret for two tokens, and the secret of a configured one. *)
OffersShared == OffersReused \cup {Offer(tokB, n1, h0)}

Hdr(device, previous, ip, meta) ==
    [device |-> device, previous |-> previous, ip |-> ip, meta |-> meta]

HeadersOne    == {Hdr(d2, NoID, ip1, NoMeta)}
HeadersMoving == {Hdr(d2, d1, ip1, m1), Hdr(d1, NoID, ip1, NoMeta), Hdr(NoID, NoID, ip1, m1)}
HeadersTwoIPs == {Hdr(d2, NoID, ip1, NoMeta), Hdr(d2, NoID, ip2, NoMeta)}

(* Requests are interchangeable; used by the configurations without liveness. *)
RequestSymmetry == Permutations(Requests)
=============================================================================
