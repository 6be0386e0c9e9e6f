---------------------------- MODULE MCVoterPath -----------------------------
(* A cast of the page, one of the same ballot by another client, and a reveal. *)
EXTENDS VoterPath

CONSTANTS c1, h1, v1, k1, k2, k3, a1, b1, b2

MC_KeyOf == [r \in Requests |-> CASE r = c1 -> k1 [] r = h1 -> k2 [] OTHER -> k3]
MC_AddressOf == [r \in Requests |-> a1]
MC_BallotOf == [r \in Requests |-> IF r = v1 THEN b2 ELSE b1]
MC_KindOf == [r \in Requests |-> IF r = v1 THEN "reveal" ELSE "cast"]
MC_SourceOf == [r \in Requests |-> CASE r = c1 -> "page" [] r = v1 -> "reveal" [] OTHER -> "http"]

\* A canonical decimal, and the hexadecimal that the page's own signals have.
MC_Wire == {<<"1">>, <<"0", "x">>}
=============================================================================
