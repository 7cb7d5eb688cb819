------------------------------ MODULE Results --------------------------------
(***************************************************************************)
(* LastResultsHash: the Merkle hash of the deterministic part of a block's *)
(* DeliverTx responses (src/types/results.go), and the proof of one        *)
(* result against it.                                                      *)
(*                                                                         *)
(* NewResults keeps Code, Data, GasWanted and GasUsed of every response    *)
(* and drops Log, Info, Events and Codespace, which replicas may fill in   *)
(* differently.  Hash marshals each kept response (proto3: fields in       *)
(* number order, zero values omitted) and hashes the list with             *)
(* merkle.HashFromByteSlices; ProveResult returns the proof of one item    *)
(* built by merkle.ProofsFromByteSlices.  The merkle package is not among  *)
(* the source files: its tree (RFC 6962 shape: the left subtree holds the  *)
(* largest power of two strictly below the number of items) and proof      *)
(* verification are written from the spec and the package's contract.     *)
(* A hash is an uninterpreted term: LeafHash and InnerHash are injective   *)
(* and never equal to each other, as SHA-256 with the 0x00 / 0x01 prefixes *)
(* is assumed to be.                                                       *)
(*                                                                         *)
(* Two replicas execute the same blocks.  Their responses agree on Code    *)
(* and may differ in Log; a replica whose app is not deterministic may     *)
(* also report a different GasUsed.                                        *)
(***************************************************************************)
EXTENDS Integers, Sequences, SequencesExt

CONSTANTS
  Codes,     \* response codes (0 is OK)
  Gas,       \* GasUsed values
  Logs,      \* Log values ("" is empty)
  MaxTxs     \* transactions per block

\* A full ResponseDeliverTx, as the app returns it.
Responses == [code : Codes, data : {""}, gasWanted : {1}, gasUsed : Gas, log : Logs]
\* The deterministic part the spec names (section 4.4, step 6).
DetResponses == [code : Codes, data : {""}, gasWanted : {1}, gasUsed : Gas]

\* Protobuf field numbers of ResponseDeliverTx and each field's zero value.
FieldNum == [code |-> 1, data |-> 2, log |-> 3, gasWanted |-> 5, gasUsed |-> 6]
ZeroOf == [code |-> 0, data |-> "", log |-> "", gasWanted |-> 0, gasUsed |-> 0]

(***************************************************************************)
(* Marshal: the set fields, as <<number, value>>, in field-number order.   *)
(***************************************************************************)
Marshal(r) ==
  SetToSortSeq({<< FieldNum[f], r[f] >> : f \in {g \in DOMAIN r : r[g] # ZeroOf[g]}},
               LAMBDA x, y : x[1] < y[1])

\* Mutant: Log is kept along with the deterministic fields.
DeterministicKeepingLog(response) ==
  [code |-> response.code, data |-> response.data, gasWanted |-> response.gasWanted,
   gasUsed |-> response.gasUsed, log |-> response.log]

\* Mutant: GasUsed is left out of the hashed part.
DeterministicDroppingGasUsed(response) ==
  [code |-> response.code, data |-> response.data, gasWanted |-> response.gasWanted,
   gasUsed |-> 0]

\* deterministicResponseDeliverTx.
deterministicResponseDeliverTx(response) ==
  [code |-> response.code, data |-> response.data, gasWanted |-> response.gasWanted,
   gasUsed |-> response.gasUsed]

\* NewResults.
NewResults(responses) ==
  [i \in DOMAIN responses |-> deterministicResponseDeliverTx(responses[i])]

\* toByteSlices: one marshalled item per result.
toByteSlices(a) == [i \in DOMAIN a |-> Marshal(a[i])]

(***************************************************************************)
(* The merkle package.                                                     *)
(***************************************************************************)
EmptyHash == << "empty" >>
LeafHash(bz) == << "leaf", bz >>
InnerHash(left, right) == << "inner", left, right >>

\* getSplitPoint: the largest power of two strictly below n (n >= 2).
RECURSIVE PowerBelow(_, _)
PowerBelow(n, p) == IF 2 * p < n THEN PowerBelow(n, 2 * p) ELSE p
SplitPoint(n) == PowerBelow(n, 1)

RECURSIVE HashFromByteSlices(_)
HashFromByteSlices(items) ==
  CASE Len(items) = 0 -> EmptyHash
    [] Len(items) = 1 -> LeafHash(items[1])
    [] OTHER ->
         LET k == SplitPoint(Len(items)) IN
         InnerHash(HashFromByteSlices(SubSeq(items, 1, k)),
                   HashFromByteSlices(SubSeq(items, k + 1, Len(items))))

\* The aunts of item i (from 0) in ProofsFromByteSlices: the sibling
\* hashes from the leaf up to the root.
RECURSIVE Aunts(_, _)
Aunts(items, i) ==
  IF Len(items) <= 1 THEN << >>
  ELSE LET k == SplitPoint(Len(items)) IN
       IF i < k
         THEN Append(Aunts(SubSeq(items, 1, k), i),
                     HashFromByteSlices(SubSeq(items, k + 1, Len(items))))
         ELSE Append(Aunts(SubSeq(items, k + 1, Len(items)), i - k),
                     HashFromByteSlices(SubSeq(items, 1, k)))

\* computeHashFromAunts: the root a proof leads to, or <<>> if it leads
\* nowhere.
RECURSIVE RootFromAunts(_, _, _, _)
RootFromAunts(index, total, leaf, aunts) ==
  CASE index >= total \/ total = 0 -> << >>
    [] total = 1 -> IF aunts = << >> THEN leaf ELSE << >>
    [] aunts = << >> -> << >>
    [] OTHER ->
         LET k == SplitPoint(total)
             top == aunts[Len(aunts)]
             rest == SubSeq(aunts, 1, Len(aunts) - 1)
         IN IF index < k
              THEN LET l == RootFromAunts(index, k, leaf, rest) IN
                   IF l = << >> THEN << >> ELSE InnerHash(l, top)
              ELSE LET r == RootFromAunts(index - k, total - k, leaf, rest) IN
                   IF r = << >> THEN << >> ELSE InnerHash(top, r)

\* Proof.Verify(rootHash, leaf).
Verify(root, proof, leaf) ==
  /\ proof.leafHash = LeafHash(leaf)
  /\ RootFromAunts(proof.index, proof.total, proof.leafHash, proof.aunts) = root

ProofOf(items, i) ==
  [total |-> Len(items), index |-> i, leafHash |-> LeafHash(items[i + 1]),
   aunts |-> Aunts(items, i)]

\* MSMResults.Hash.
Hash(a) == HashFromByteSlices(toByteSlices(a))

\* Mutant: the proof of the item before the one asked for (i is from 0).
ProveResultPrevious(a, i) == ProofOf(toByteSlices(a), IF i > 0 THEN i - 1 ELSE 0)

\* MSMResults.ProveResult.
ProveResult(a, i) == ProofOf(toByteSlices(a), i)

VARIABLES
  respA, respB,         \* the DeliverTx responses of the block so far
  resultsA, resultsB,   \* NewResults of the last ended block
  phase                 \* "deliver" or "ended"

vars == << respA, respB, resultsA, resultsB, phase >>

TypeOK ==
  /\ respA \in Seq(Responses) /\ respB \in Seq(Responses)
  /\ resultsA \in Seq(DetResponses) /\ resultsB \in Seq(DetResponses)
  /\ phase \in {"deliver", "ended"}

Init ==
  /\ respA = << >> /\ respB = << >>
  /\ resultsA = << >> /\ resultsB = << >>
  /\ phase = "deliver"

\* Both replicas execute the next transaction: same Code, any Log, and
\* GasUsed that a non-deterministic app may report differently.
DeliverTx ==
  /\ phase = "deliver" /\ Len(respA) < MaxTxs
  /\ \E c \in Codes, ga, gb \in Gas, la, lb \in Logs :
       /\ respA' = Append(respA, [code |-> c, data |-> "", gasWanted |-> 1, gasUsed |-> ga, log |-> la])
       /\ respB' = Append(respB, [code |-> c, data |-> "", gasWanted |-> 1, gasUsed |-> gb, log |-> lb])
  /\ UNCHANGED << resultsA, resultsB, phase >>

\* The block ends: each replica computes its MSMResults.
EndBlock ==
  /\ phase = "deliver"
  /\ resultsA' = NewResults(respA) /\ resultsB' = NewResults(respB)
  /\ phase' = "ended"
  /\ UNCHANGED << respA, respB >>

\* The next block starts with no responses; the results of the ended block
\* are only needed for its hash, which the properties read in "ended".
NextBlock ==
  /\ phase = "ended"
  /\ respA' = << >> /\ respB' = << >>
  /\ resultsA' = << >> /\ resultsB' = << >>
  /\ phase' = "deliver"

Next == DeliverTx \/ EndBlock \/ NextBlock

Spec == Init /\ [][Next]_vars

-----------------------------------------------------------------------------
(***************************************************************************)
(* Properties.                                                             *)
(***************************************************************************)
\* The part of a response the spec says is hashed.
SpecProjection(resp) ==
  [i \in DOMAIN resp |-> [code |-> resp[i].code, data |-> resp[i].data,
                          gasWanted |-> resp[i].gasWanted, gasUsed |-> resp[i].gasUsed]]

(* Two replicas' LastResultsHash agree exactly when their responses agree *)
(* on Code, Data, GasWanted and GasUsed: a differing Log never splits the  *)
(* replicas, a differing GasUsed always shows (NewResults, Hash).          *)
HashAgreesIffDeterministicFieldsAgree ==
  phase = "ended" =>
    ((Hash(resultsA) = Hash(resultsB)) <=> (SpecProjection(respA) = SpecProjection(respB)))

(* ProveResult(i) verifies the i-th result against Hash, and does not     *)
(* verify any other result that differs from it (ProveResult and          *)
(* merkle.Proof.Verify).                                                   *)
EveryResultProvable ==
  phase = "ended" =>
    \A i \in 0..Len(resultsA) - 1 :
      LET items == toByteSlices(resultsA)
          proof == ProveResult(resultsA, i)
      IN /\ Verify(Hash(resultsA), proof, items[i + 1])
         /\ \A j \in DOMAIN items :
              items[j] # items[i + 1] => ~Verify(Hash(resultsA), proof, items[j])
=============================================================================
