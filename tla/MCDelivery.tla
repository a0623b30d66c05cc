----------------------------- MODULE MCDelivery -----------------------------
(* An instance for TLC: an event for a user with a client on each of two    *)
(* instances and for another one who is not connected.                      *)
EXTENDS Delivery

CONSTANTS c1, c2, i1, i2, ua, ub

MCHome == (c1 :> i1) @@ (c2 :> i2)
MCOwner == (c1 :> ua) @@ (c2 :> ua)
=============================================================================
