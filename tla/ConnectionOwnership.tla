------------------------- MODULE ConnectionOwnership -------------------------
(***************************************************************************)
(* What live migration promises (spec sections 3 and 8): every connection  *)
(* is owned by exactly one dispatcher, and a migration hands it from its   *)
(* owner to another dispatcher in one indivisible step.  owners[c] is the  *)
(* set of dispatchers that own c; the specification keeps it a singleton,  *)
(* so a lost connection (no owner) or a doubly owned one (two owners) is   *)
(* not a behaviour of this specification.                                  *)
(***************************************************************************)
CONSTANTS Dispatchers, Conns

VARIABLE owners

Init == \E o \in [Conns -> Dispatchers] : owners = [c \in Conns |-> {o[c]}]

\* Connection c moves from its only owner s to t.
Move(c, t) ==
    \E s \in Dispatchers :
        /\ owners[c] = {s}
        /\ t # s
        /\ owners' = [owners EXCEPT ![c] = {t}]

Next == \E c \in Conns, t \in Dispatchers : Move(c, t)

Spec == Init /\ [][Next]_owners

=============================================================================
