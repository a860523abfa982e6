------------------------ MODULE MCConnectionMigrator ------------------------
(***************************************************************************)
(* Model values for ConnectionMigrator: three dispatchers, two sockets.    *)
(***************************************************************************)
EXTENDS ConnectionMigrator

CONSTANTS d1, d2, d3, c1, c2, k1, k2

MCDispatchers == {d1, d2, d3}
MCConns == {c1, c2}

\* Two callers, each migrating its own socket: the application never asks
\* for two migrations of one socket at once.
MCCallersDisjoint == {k1, k2}
MCCallerConnsDisjoint == [k \in {k1, k2} |-> IF k = k1 THEN {c1} ELSE {c2}]

\* Two callers that may both migrate c1.
MCCallerConnsShared == [k \in {k1, k2} |-> {c1}]

\* A single caller.
MCCallersOne == {k1}
MCCallerConnsOne == [k \in {k1} |-> {c1, c2}]
=============================================================================
