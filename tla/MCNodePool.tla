----------------------------- MODULE MCNodePool -----------------------------
(* Instances of NodePool for TLC.                                          *)
EXTENDS NodePool

CONSTANTS a, b, p1, p2   \* two endpoints and two callers

CallerSymmetry == Permutations({p1, p2})

None == <<>>
OnlyA == <<a>>
BothAB == <<a, b>>

UpDown == {"unreachable", "rpc", "active"}
DownActive == {"unreachable", "active"}
AllStates == {"unreachable", "hung", "rpc", "active"}
=============================================================================
