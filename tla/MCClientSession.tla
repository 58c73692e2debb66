--------------------------- MODULE MCClientSession ---------------------------
(***************************************************************************)
(* Two tabs and three requests for ClientSession.                          *)
(***************************************************************************)
EXTENDS ClientSession

CONSTANTS t1, t2, s1, c1, k1

\* The stream shares its tab with the call or with the check.
TwoPlacements ==
    {[r \in {s1, c1, k1} |-> IF r \in here THEN t1 ELSE t2] : here \in {{s1, c1}, {s1, k1}}}

=============================================================================
