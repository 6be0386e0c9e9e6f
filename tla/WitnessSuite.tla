---------------------------- MODULE WitnessSuite ----------------------------
(***************************************************************************)
(* The witness tests of the circuits: the fixtures that                    *)
(* scripts/build-test-fixtures.js and build-scope-fixtures.js write, and   *)
(* what scripts/test-witness.js and gate-c0.js expect of them.  A circuit  *)
(* is the set of its constraints, so that one can be left out; a fixture   *)
(* is the witness it stands for.  Hashes are symbolic: a Merkle path leads *)
(* to the root of a tree only from the leaf and the index it was built     *)
(* for.  No constraint speaks of the election scope, so the fixtures that  *)
(* differ from another one in their scope only share its witness.          *)
(***************************************************************************)
EXTENDS Integers, FiniteSets

Rungs == {0, 1}

Constraints == {"stateRoot", "associationRoot", "label", "associationRootNonZero",
                "secret", "voteBits", "optionBits", "deltaBits", "salt"}

FourBits == 0 .. 15

\* buildTree: each state tree has one credential, at index 0, and the association
\* tree has the label 111 at index 0; every other leaf is the padding, 0.
StateLeaf == [registered |-> <<111, 222>>, zeroLabel |-> <<0, 222>>, zeroSecret |-> <<111, 0>>]
AssociationLeaf(index) == IF index = 0 THEN 111 ELSE 0

\* Constraint c of the circuits is met by witness w.
Met(c, w) ==
    CASE c = "stateRoot" -> w.stateRoot = w.stateTree
                              /\ StateLeaf[w.stateTree] = <<w.label, w.secret>>
      [] c = "associationRoot" -> w.associationRoot = "eligible" /\ w.index = w.path
                                    /\ w.label = AssociationLeaf(w.path)
      [] c = "label" -> w.label # 0
      [] c = "associationRootNonZero" -> w.associationRoot # "zero"
      [] c = "secret" -> w.secret # 0
      [] c = "voteBits" -> w.vote \in FourBits
      [] c = "optionBits" -> w.options - 1 \in FourBits
      [] c = "deltaBits" -> w.options - 1 - w.vote \in FourBits
      [] c = "salt" -> w.rung = 1 => w.salt # 0

\* The circuits without one constraint (or with all of them, for None) take w.
Satisfies(w, dropped) == \A c \in Constraints \ {dropped} : Met(c, w)

-----------------------------------------------------------------------------
(* The fixtures *)

Positive(rung, vote) ==
    [rung |-> rung, vote |-> vote, options |-> 5, salt |-> 42,
     label |-> 111, secret |-> 222, stateTree |-> "registered", stateRoot |-> "registered",
     associationRoot |-> "eligible", path |-> 0, index |-> 0]

\* Mutant: the path of the label-zero witness still leads to the label 111, so that the
\* association path refuses it whatever the circuit says of the label.
WithLabelZero_EasyPath(w) == [w EXCEPT !.label = 0, !.stateTree = "zeroLabel",
                                       !.stateRoot = "zeroLabel"]

\* The adversarial credentials have trees of their own.
WithLabelZero(w) == [w EXCEPT !.label = 0, !.stateTree = "zeroLabel", !.stateRoot = "zeroLabel",
                              !.path = 1, !.index = 1]
WithSecretZero(w) == [w EXCEPT !.secret = 0, !.stateTree = "zeroSecret",
                               !.stateRoot = "zeroSecret"]

R0 == Positive(0, 0)
R0Fixtures ==
    [vote_0 |-> R0, boundary_4_of_5 |-> [R0 EXCEPT !.vote = 4],
     altered_scope |-> R0, scope_a |-> R0, scope_b |-> R0, scope_c |-> R0,
     derived_scope |-> [R0 EXCEPT !.vote = 1], non_ascii_scope |-> [R0 EXCEPT !.vote = 2],
     vote_out_of_range |-> [R0 EXCEPT !.vote = 5],
     wrong_root |-> [R0 EXCEPT !.stateRoot = "other"],
     zero_asp |-> [R0 EXCEPT !.associationRoot = "zero"],
     zero_options |-> [R0 EXCEPT !.options = 0],
     options_17 |-> [R0 EXCEPT !.options = 17],
     wrong_asp_path |-> [R0 EXCEPT !.index = 1],
     label_zero |-> WithLabelZero(R0), nullifier_zero |-> WithSecretZero(R0)]

R1 == Positive(1, 3)
R1Fixtures ==
    [vote_3_salt_42 |-> R1, boundary_4_of_5 |-> [R1 EXCEPT !.vote = 4],
     altered_scope |-> R1, derived_scope |-> R1, wrong_commitment |-> [R1 EXCEPT !.vote = 4],
     zero_salt |-> [R1 EXCEPT !.salt = 0],
     vote_out_of_range |-> [R1 EXCEPT !.vote = 7],
     zero_options |-> [R1 EXCEPT !.vote = 0, !.options = 0],
     options_17 |-> [R1 EXCEPT !.vote = 0, !.options = 17],
     wrong_asp_path |-> [R1 EXCEPT !.index = 1],
     label_zero |-> WithLabelZero(R1), nullifier_zero |-> WithSecretZero(R1)]

-----------------------------------------------------------------------------
(* The tests *)

R0Refused == {"vote_out_of_range", "wrong_root", "zero_asp", "zero_options", "label_zero",
              "nullifier_zero", "options_17", "wrong_asp_path"}
R1Refused == {"zero_salt", "vote_out_of_range", "zero_options", "label_zero",
              "nullifier_zero", "options_17", "wrong_asp_path"}

\* test-witness.js: every fixture but r1-reveal, over the circuits as built.
WitnessTestsPass(built) ==
    /\ \A f \in DOMAIN R0Fixtures : Satisfies(R0Fixtures[f], built[0]) <=> f \notin R0Refused
    /\ \A f \in DOMAIN R1Fixtures : Satisfies(R1Fixtures[f], built[1]) <=> f \notin R1Refused

\* gate-c0.js, parts 2 and 5: those it proves, and those it expects to be refused.
GateProves == [r0 |-> {"vote_0", "scope_a", "scope_b", "scope_c", "derived_scope"},
               r1 |-> {"vote_3_salt_42", "derived_scope"}]
GateRefuses == [r0 |-> {"wrong_root", "vote_out_of_range", "zero_options", "zero_asp",
                        "label_zero", "nullifier_zero"},
                r1 |-> {"zero_salt", "vote_out_of_range", "zero_options", "label_zero",
                        "nullifier_zero"}]

GateWitnessesPass(built) ==
    /\ \A f \in GateProves.r0 : Satisfies(R0Fixtures[f], built[0])
    /\ \A f \in GateProves.r1 : Satisfies(R1Fixtures[f], built[1])
    /\ \A f \in GateRefuses.r0 : ~ Satisfies(R0Fixtures[f], built[0])
    /\ \A f \in GateRefuses.r1 : ~ Satisfies(R1Fixtures[f], built[1])

=============================================================================
