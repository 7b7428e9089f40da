--------------------------- MODULE MCAuthorization ---------------------------
(* Instances of Authorization for TLC. *)
EXTENDS Authorization, TLC

CONSTANTS s1, s2, a, o

OneSession    == {s1}
TwoSessions   == {s1, s2}
OneName       == {a}
SameName      == [s \in Sessions |-> a]
OneOwner      == [s \in Sessions |-> o]
Second        == {s2}
Nobody        == {}
=============================================================================
