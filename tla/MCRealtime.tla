----------------------------- MODULE MCRealtime -----------------------------
(* The instance of Realtime that TLC checks.                               *)
EXTENDS Realtime, TLC

CONSTANTS c1, c2, i1, i2, r1

\* One connection on each instance; the session is revoked on the first.
MCHome == c1 :> i1 @@ c2 :> i2 @@ r1 :> i1
=============================================================================
