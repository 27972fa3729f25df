----------------------------- MODULE MCDelivery -----------------------------
(* Instance of the deliveries for TLC: one webhook is kept, one is edited. *)
EXTENDS Delivery

CONSTANTS kept, edited, e1, j1, j2, m1, m2, p1, p2, r1, s1, s2, w1, w2

DeliveryHook == 1 :> kept @@ 2 :> edited
=============================================================================
