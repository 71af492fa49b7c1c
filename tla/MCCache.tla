------------------------------- MODULE MCCache -------------------------------
(* Upstream answers for the cache: a success, a denial with an SOA, a      *)
(* referral, SERVFAIL, and a truncated answer, which is not cached.        *)
EXTENDS Cache, TLC
CONSTANTS k1, k2, c1, c2, f1, f2, f3

OneKey  == {k1}
TwoKeys == {k1, k2}
OneCaller  == {c1}
TwoCallers == {c1, c2}
ThreeFlags == {f1, f2, f3}
ThreadSymmetry == Permutations(TwoCallers) \cup Permutations(ThreeFlags)

Message(rcode, answers, soa, ns, ttl) ==
    [isQuery |-> TRUE, rcode |-> rcode, answers |-> answers, soa |-> soa, ns |-> ns,
     aa |-> FALSE, ttl |-> ttl, truncated |-> FALSE, sameQuestion |-> TRUE]

Success  == Message("NoError", TRUE, FALSE, FALSE, 2)
NXDomain == Message("NXDomain", FALSE, TRUE, FALSE, 1)
Referral == Message("NoError", FALSE, FALSE, TRUE, 1)
ServFail == Message("ServFail", FALSE, FALSE, FALSE, 0)
Truncated == [Success EXCEPT !.truncated = TRUE]

StaleMessages    == {Success, NXDomain, ServFail}
PrefetchMessages == {Success, Referral, Truncated}
=============================================================================
