------------------------------ MODULE MCApiServer ------------------------------
(* Four connections and two runtime objects: enough for a load, two rival     *)
(* chats and a stop, or for a stop that a reload or an unload overtakes.      *)
EXTENDS ApiServer, TLC

CONSTANTS c1, c2, c3, c4, r1, r2

MCConns    == {c1, c2, c3, c4}
MCRuntimes == {r1, r2}

\* A run of safety properties only: connections and objects are alike.
MCSymmetry == Permutations(MCConns) \cup Permutations(MCRuntimes)
=============================================================================
