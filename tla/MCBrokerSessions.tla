-------------------------- MODULE MCBrokerSessions --------------------------
(* Interchangeable ids for model-checking BrokerSessions.                  *)
EXTENDS BrokerSessions, TLC

CONSTANTS s1, s2, r1, r2, a1, a2, c1, c2

NoDirect == {}
OneDirect == {r1}
Symmetry == Permutations({s1, s2}) \cup Permutations({a1, a2})
=============================================================================
