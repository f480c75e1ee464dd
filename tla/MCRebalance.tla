---------------------------- MODULE MCRebalance ----------------------------
(* Instances of Rebalance for TLC: two channels inside the pool, in a line *)
(* a - b - c, and one that leaves it.                                      *)
EXTENDS Rebalance

CONSTANTS a, b, c, o,   \* three pool members and an outsider
          ab, bc, ao    \* channels

MCEnds == (ab :> {a, b}) @@ (bc :> {b, c}) @@ (ao :> {a, o})

\* An even and an odd capacity.
MCCapacity == (ab :> 8) @@ (bc :> 7) @@ (ao :> 4)
MCCommitFee == (ab :> 1) @@ (bc :> 2) @@ (ao :> 0)

\* ab has room for any payment, bc limits what is pending at one of its ends
\* and admits less than a satoshi, as LND does by default.
MCMaxPendingMsat ==
  (ab :> [n \in {a, b} |-> 8000]) @@ (bc :> (b :> 3000 @@ c :> 2000))
    @@ (ao :> [n \in {a, o} |-> 4000])
MCMinHtlcMsat ==
  (ab :> (a :> 1 @@ b :> 1500)) @@ (bc :> [n \in {b, c} |-> 1])
    @@ (ao :> [n \in {a, o} |-> 1])

All == {"membership", "peers", "failures", "traffic"}
Quiet == {}
=============================================================================
