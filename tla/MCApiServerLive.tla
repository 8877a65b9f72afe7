---------------------------- MODULE MCApiServerLive ----------------------------
(* Three connections, without symmetry, for refinement and liveness.  c1's    *)
(* client may stop reading its stream at any time.                            *)
EXTENDS ApiServer

CONSTANTS c1, c2, c3, r1, r2

MCConns    == {c1, c2, c3}
MCRuntimes == {r1, r2}
MCSlow     == {c1}
=============================================================================
