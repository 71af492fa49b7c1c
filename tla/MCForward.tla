------------------------------ MODULE MCForward ------------------------------
(* Two upstreams and two concurrent queries; and below them the pool of    *)
(* one upstream with three exchanges, three sockets and room for two idle  *)
(* connections, so that it overflows and a socket is reused while an older *)
(* exchange on it has been given up.  A behaviour follows the queries or   *)
(* the pool.                                                               *)
EXTENDS Forward, ConnPool, TLC
CONSTANTS p1, p2, c1, c2, e1, e2, e3, s1, s2, s3
VARIABLE part

TwoProxies == <<p1, p2>>
TwoQueries == {c1, c2}
ThreeExchanges == {e1, e2, e3}
ThreeConns     == {s1, s2, s3}
QuerySymmetry  == Permutations(TwoQueries)

forwardVars == <<part, vars, poolVars>>
ForwardInit == part \in {"queries", "pool"} /\ Init /\ PoolInit
ForwardNext ==
    \/ part = "queries" /\ Next /\ UNCHANGED <<part, poolVars>>
    \/ part = "pool" /\ PoolNext /\ UNCHANGED <<part, vars>>
ForwardSpec == ForwardInit /\ [][ForwardNext]_forwardVars
=============================================================================
