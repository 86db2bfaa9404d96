----------------------------- MODULE MerkleLog -----------------------------
(***************************************************************************)
(* The daily Merkle accumulator over signed decisions: root, inclusion     *)
(* proofs, the rollover at midnight, and the check that enough witnesses   *)
(* signed a root.  Hashes are terms, so equal hashes mean equal contents:  *)
(* a leaf is <<n>>, an inner node <<left, right>>.                         *)
(***************************************************************************)
EXTENDS Integers, Sequences, SequencesExt, FiniteSets

CONSTANTS Witness,          \* the witnesses whose keys are configured
          Outsider,         \* identities that are not
          WitnessThreshold, MaxLeaves, MaxDay, MaxSignatures

ASSUME MerkleAssumption == WitnessThreshold \in Nat \ {0} /\ Witness \cap Outsider = {}

VARIABLES
  leaves, treeDay,   \* AccumulatorInner
  leafDay,           \* the day each leaf, by number, was pushed
  utcDay,            \* today
  rootSignatures,    \* what witnesses and others have signed so far
  queried            \* an ABCI query with a proof: the proof, then the value too

merkleVars == <<leaves, treeDay, leafDay, utcDay, rootSignatures, queried>>

MerkleInit ==
  /\ leaves = <<>> /\ treeDay = 1 /\ leafDay = <<>> /\ utcDay = 1
  /\ rootSignatures = {} /\ queried = <<>>

MerkleTypeOK ==
  /\ treeDay \in 1..utcDay /\ utcDay \in 1..MaxDay
  /\ Len(leaves) <= Len(leafDay) /\ leafDay \in Seq(1..MaxDay)

---------------------------------------------------------------------------
(* The tree.  Positions count from 0, as in the code. *)

nth(layer, i) == layer[i + 1]

paired(layer, i) ==
  <<nth(layer, i), IF i + 1 < Len(layer) THEN nth(layer, i + 1) ELSE nth(layer, i)>>

parents(layer) == [k \in 1..((Len(layer) + 1) \div 2) |-> paired(layer, 2 * (k - 1))]

\* The layers above a layer, and how many there are up to the root.
layers(ls) == LET above[n \in Nat] == IF n = 0 THEN ls ELSE parents(above[n - 1]) IN above
height(ls) == Min({n \in 0..Len(ls) : Len(layers(ls)[n]) = 1})

merkle_root(ls) == IF ls = <<>> THEN <<>> ELSE layers(ls)[height(ls)][1]

MutSiblingNext(i) == i + 1
sibling_idx(i) == IF i % 2 = 0 THEN i + 1 ELSE i - 1
sibling(layer, i) == nth(layer, IF sibling_idx(i) < Len(layer) THEN sibling_idx(i) ELSE i)
direction(i) == IF i % 2 = 0 THEN "Right" ELSE "Left"

\* The position is halved from layer to layer.
path_from(ls, i) ==
  [n \in 1..height(ls) |-> LET at == i \div 2^(n - 1) IN
     [hash |-> sibling(layers(ls)[n - 1], at), dir |-> direction(at)]]

generate_inclusion_proof(ls, i) ==
  [leaf |-> nth(ls, i), root |-> merkle_root(ls), steps |-> path_from(ls, i)]

verify_inclusion_proof(proof) ==
  proof.root = FoldLeft(LAMBDA h, s : IF s.dir = "Right" THEN <<h, s.hash>> ELSE <<s.hash, h>>,
                        proof.leaf, proof.steps)

---------------------------------------------------------------------------
(* The accumulator. *)

todays_leaves == IF treeDay # utcDay THEN <<>> ELSE leaves

merkle_push ==
  /\ Len(leafDay) < MaxLeaves
  /\ leaves' = Append(todays_leaves, <<Len(leafDay) + 1>>) /\ treeDay' = utcDay
  /\ leafDay' = Append(leafDay, utcDay)
  /\ UNCHANGED <<utcDay, rootSignatures, queried>>

Midnight ==
  /\ utcDay < MaxDay /\ utcDay' = utcDay + 1
  /\ UNCHANGED <<leaves, treeDay, leafDay, rootSignatures, queried>>

prove(i) == generate_inclusion_proof(leaves, i)
status == [root |-> merkle_root(leaves), count |-> Len(leaves), day |-> treeDay]

\* Anyone who has seen the published root may sign it together with its day.
SignRoot(w) ==
  /\ leaves # <<>> /\ Cardinality(rootSignatures) < MaxSignatures
  /\ rootSignatures' = rootSignatures \cup {[witness |-> w, root |-> status.root, day |-> status.day]}
  /\ UNCHANGED <<leaves, treeDay, leafDay, utcDay, queried>>

\* The bridge reads the accumulator twice: for the proof, then for the value.
QueryProof ==
  /\ Len(queried) # 1 /\ queried' = <<status>>
  /\ UNCHANGED <<leaves, treeDay, leafDay, utcDay, rootSignatures>>

answered(value) == Append(queried, value)

query ==
  /\ Len(queried) = 1 /\ queried' = answered(status)
  /\ UNCHANGED <<leaves, treeDay, leafDay, utcDay, rootSignatures>>

MerkleNext == merkle_push \/ Midnight \/ QueryProof \/ query \/ \E w \in Witness \cup Outsider : SignRoot(w)

MerkleSpec == MerkleInit /\ [][MerkleNext]_merkleVars

---------------------------------------------------------------------------
(* DistributedMerkleVerifier::verify over a list of attestations.  Only the *)
(* first attestation of a witness is looked at.                            *)

first_of_witness(given, i) == \A j \in 1..(i - 1) : given[j].witness # given[i].witness

valid_attestations(given, root, day) ==
  {i \in DOMAIN given : /\ first_of_witness(given, i) /\ given[i].witness \in Witness
                        /\ given[i].root = root /\ given[i].day = day}

verify_root(root, day, given) ==
  Cardinality(valid_attestations(given, root, day)) >= WitnessThreshold

\* Without a root of its own the request is about the published one.
admin_verify_distributed_merkle(given) ==
  leaves # <<>> /\ verify_root(status.root, status.day, given)

---------------------------------------------------------------------------
(* Properties. *)

\* A proof generated for any position verifies against the published root,
\* and only with the leaf of that position: odd layers, whose last node is
\* its own sibling, included.
ProofsBindLeaves ==
  \A i \in 0..(Len(leaves) - 1) :
    LET proof == prove(i) IN
      \A leaf \in Range(leaves) :
        verify_inclusion_proof([proof EXCEPT !.leaf = leaf]) <=> leaf = nth(leaves, i)

\* The root stands for one list of decisions: no other list of distinct
\* leaves has it, although the last node of an odd layer is hashed twice.
RootBindsLeaves ==
  leaves # <<>> =>
    \A other \in UNION {[1..k -> Range(leaves)] : k \in 1..Len(leaves)} :
      IsInjective(other) /\ merkle_root(other) = merkle_root(leaves) => other = leaves

\* The published day is the day of every leaf under the published root, also
\* when midnight has passed without a decision.
TreeHoldsItsDay == \A leaf \in Range(leaves) : leafDay[leaf[1]] = treeDay

\* Decisions may be added between the two reads of a query, yet its value is
\* never of an older tree than its proof, and has the proof's root when it
\* counts as many leaves of that day.
QueryValueNotOlder ==
  Len(queried) = 2 =>
    LET proof == queried[1]  value == queried[2] IN
      \/ value.day > proof.day
      \/ /\ value.day = proof.day /\ value.count >= proof.count
         /\ value.count = proof.count => value.root = proof.root

\* Whatever list of attestations is presented, repeated and stale ones
\* included, the root counts as verified only when enough different
\* configured witnesses signed this root for this day.
VerifiedRootWitnessed ==
  \A given \in UNION {[1..k -> rootSignatures] : k \in 0..3} :
    admin_verify_distributed_merkle(given) =>
      Cardinality({w \in Witness : [witness |-> w, root |-> status.root, day |-> status.day]
                                     \in rootSignatures}) >= WitnessThreshold
=============================================================================
