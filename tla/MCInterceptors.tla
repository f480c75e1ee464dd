--------------------------- MODULE MCInterceptors ---------------------------
(* Interceptors with two calls at a time, on two nodes of which one may    *)
(* leave the pool.                                                         *)
EXTENDS Interceptors

CONSTANTS c1, c2, alice, bob, h1, h2

TwoCalls == {c1, c2}
TwoNodes == {alice, bob}
OneNode == {alice}
TwoHandlers == {h1, h2}
=============================================================================
