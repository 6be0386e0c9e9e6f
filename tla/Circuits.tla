------------------------------ MODULE Circuits ------------------------------
(***************************************************************************)
(* The two circuits of the system as relations between public signals and  *)
(* witnesses: circuits/public-vote/main.circom (R0) and                    *)
(* circuits/commit-vote/main.circom (R1), with the gadgets they share.     *)
(*                                                                         *)
(* Poseidon is symbolic and therefore collision free: a hash is the tuple  *)
(* of what was hashed.  A credential is identified with its                *)
(* nullifierSecret (non-zero), and a Merkle root with the set of           *)
(* credentials whose commitment, or whose non-zero label, is a leaf.       *)
(***************************************************************************)
EXTENDS Integers, FiniteSets

CONSTANTS
    Credentials,        \* nullifier secrets of registered voters
    Scopes,             \* canonical non-zero field elements used as election scopes
    Salts,              \* canonical non-zero field elements used as ballot salts
    Roots,              \* canonical non-zero field elements used as Merkle roots
    BadFr,              \* 32 bytes that are zero or not below the field modulus
    StateTree,          \* credentials that are leaves under each state root
    AssociationTree,    \* credentials whose label is a leaf under each association root
    MaxOptions          \* MAX_OPTIONS, 16 in the code; a power of two, 2^4

ASSUME CircuitAssumption ==
    /\ IsFiniteSet(Credentials)
    /\ IsFiniteSet(Scopes)
    /\ IsFiniteSet(Salts)
    /\ StateTree \in [Roots -> SUBSET Credentials]
    /\ AssociationTree \in [Roots -> SUBSET Credentials]
    /\ MaxOptions \in Nat \ {0}
    /\ BadFr \notin Scopes \cup Salts \cup Roots

Options == 0 .. MaxOptions - 1
Votes == 0 .. MaxOptions            \* with one value that no election accepts
OptionCounts == 0 .. MaxOptions + 1 \* with the values just out of range

Nullifiers == Credentials \X Scopes
Commitments == Votes \X Salts \X Scopes

\* ScopedNullifier: P2(nullifierSecret, electionScope).
NullifierHash(credential, scope) == <<credential, scope>>

\* Mutant: the commitment forgets the salt.
BallotCommitment_NoSalt(vote, salt, scope) == <<vote, CHOOSE k \in Salts : TRUE, scope>>

\* P2(P2(vote, salt), electionScope).
BallotCommitment(vote, salt, scope) == <<vote, salt, scope>>

\* MembershipProof: the credential under the state root and its label under
\* the association root, neither of which can be bypassed with a zero.
MembershipProof(credential, stateRoot, associationRoot) ==
    /\ credential \in StateTree[stateRoot]
    /\ credential \in AssociationTree[associationRoot]

\* VoteRangeCheck: optionCount - 1, vote and their difference all have the bit
\* width of an option.
VoteRangeCheck(vote, optionCount) ==
    /\ vote \in Options
    /\ optionCount - 1 \in Options
    /\ optionCount - 1 - vote \in Options

\* A proof of PublicVoteR0 exists for these public signals and this credential.
PublicVoteR0(credential, vote, optionCount, stateRoot, associationRoot) ==
    /\ MembershipProof(credential, stateRoot, associationRoot)
    /\ VoteRangeCheck(vote, optionCount)

\* A proof of CommitVoteR1 exists for these public signals and this witness.
CommitVoteR1(credential, vote, salt, optionCount, stateRoot, associationRoot) ==
    /\ MembershipProof(credential, stateRoot, associationRoot)
    /\ VoteRangeCheck(vote, optionCount)
    /\ salt \in Salts

=============================================================================
