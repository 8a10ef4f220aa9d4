---------------------------- MODULE MCHttpProxy ----------------------------
(* Instances of HttpProxy for TLC. *)
EXTENDS HttpProxy, TLC

CONSTANTS p1, p2, u1, u2

\* A proxy, and another remote for it beside a second proxy.
Configs == {(p1 :> u1 @@ p2 :> None), (p1 :> u2 @@ p2 :> u2)}
=============================================================================
