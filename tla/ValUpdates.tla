----------------------------- MODULE ValUpdates -------------------------------
(***************************************************************************)
(* Validator updates from the e2e application to the node's validator set. *)
(*                                                                         *)
(* The app's configuration maps a height to a map from base64 public key   *)
(* to power (cfg.ValidatorUpdates).  validatorUpdates(h) ranges over that  *)
(* map, whose iteration order Go randomises on every range, decodes each   *)
(* key and returns the list; a key that is not base64 makes it return an   *)
(* error and the handler panic.  InitChain returns the list of height 0,  *)
(* EndBlock that of the block's height (src/test/e2e/app/app.go).          *)
(*                                                                         *)
(* The node converts the list with PB2TM.ValidatorUpdates, which fails on *)
(* the first public key it cannot build (src/types/protobuf.go), and       *)
(* applies it to the validator set.  The ValidatorSet is not among the     *)
(* source files; its advance is written from spec sections 2 and 4.2: a    *)
(* deduplicated set of (identity, power), updates applied by identity and  *)
(* atomically, power 0 removes, a result of total power 0 is rejected.     *)
(* An InitChain response with validators replaces the genesis set; one     *)
(* without keeps it.  A rejected update halts the node.                    *)
(*                                                                         *)
(* Base64 decoding is modelled by what it does: Decode maps a key string   *)
(* to the key it denotes, or to NotBase64.  Two different strings can     *)
(* denote the same key (DecodeString skips '\r' and '\n').                 *)
(***************************************************************************)
EXTENDS Integers, Sequences, SequencesExt, FiniteSets, Functions

CONSTANTS
  KeyStrings,   \* base64 strings the configuration may name
  Keys,         \* public keys (key bytes)
  NotBase64,    \* Decode's result for a string that is not base64
  Decode,       \* base64.StdEncoding.DecodeString, as a function
  ValidKeys,    \* keys PubKeyFromProto accepts (right length for KeyType)
  Powers,       \* uint8 powers the configuration may give
  MaxHeight,    \* heights 1..MaxHeight are executed
  MaxEntries,   \* most updates the configuration names at one height
  Genesis       \* the genesis validator set: Keys -> power, 0 = absent

ASSUME /\ Decode \in [KeyStrings -> Keys \cup {NotBase64}]
       /\ ValidKeys \subseteq Keys /\ Powers \subseteq 0..255
       /\ Genesis \in [Keys -> Nat] /\ SumFunction(Genesis) > 0

Heights == 0..MaxHeight

\* The configurations: per height, a map from key string to power.
HeightUpdates ==
  UNION {[D -> Powers] : D \in {D \in SUBSET KeyStrings : Cardinality(D) <= MaxEntries}}
Configs == [Heights -> HeightUpdates]

\* The orders in which range can visit a map.
IterationOrders(updates) == SetToSeqs(DOMAIN updates)

EmptySet == [k \in Keys |-> 0]

VARIABLES
  cfg,      \* app.cfg.ValidatorUpdates
  height,   \* the last height whose updates the node applied (0: InitChain)
  vals,     \* the node's next validator set: Keys -> power, 0 = absent
  status    \* "genesis", "running", "appPanic" or "rejected"

vars == << cfg, height, vals, status >>

Statuses == {"genesis", "running", "appPanic", "rejected"}

\* A power in the set comes from the genesis file or the configuration,
\* and a key of the wrong length never joins the set.
TypeOK ==
  /\ cfg \in Configs /\ height \in Heights /\ status \in Statuses
  /\ vals \in [Keys -> Powers \cup Range(Genesis)]
  /\ \A k \in Keys \ ValidKeys : vals[k] = Genesis[k]

(***************************************************************************)
(* validatorUpdates: the updates in the order range visits the map; an     *)
(* empty map gives nil.  msm.UpdateValidator keeps the key bytes and       *)
(* int64(power).                                                           *)
(***************************************************************************)
\* Mutant: a bad key ends the loop, returning the updates built so far.
ValidatorUpdatesUpToBadKey(updates, order) ==
  LET bad == {i \in DOMAIN order : Decode[order[i]] = NotBase64}
      n == IF bad = {} THEN Len(order) ELSE Min(bad) - 1
  IN [err |-> FALSE,
      list |-> [i \in 1..n |-> [pubKey |-> Decode[order[i]], power |-> updates[order[i]]]]]

validatorUpdates(updates, order) ==
  IF \E i \in DOMAIN order : Decode[order[i]] = NotBase64
    THEN [err |-> TRUE, list |-> << >>]
    ELSE [err |-> FALSE,
          list |-> [i \in DOMAIN order |-> [pubKey |-> Decode[order[i]], power |-> updates[order[i]]]]]

\* Mutant: the public keys are taken as they are, without PubKeyFromProto.
PB2TMAcceptingAnyKey(list) == [err |-> FALSE, vals |-> list]

\* PB2TM.ValidatorUpdates: NewValidator(pub, power) for each update; the
\* first key PubKeyFromProto rejects fails the whole conversion.
PB2TMValidatorUpdates(list) ==
  IF \E i \in DOMAIN list : list[i].pubKey \notin ValidKeys
    THEN [err |-> TRUE, vals |-> << >>]
    ELSE [err |-> FALSE, vals |-> list]

(***************************************************************************)
(* ValidatorSet.advance: one update per identity, all applied at once      *)
(* (power 0 removes); rejected if the total power becomes 0.               *)
(***************************************************************************)
Advance(set, changes) ==
  LET named == {changes[i].pubKey : i \in DOMAIN changes}
      new == [k \in Keys |-> IF k \in named
                               THEN changes[CHOOSE i \in DOMAIN changes : changes[i].pubKey = k].power
                               ELSE set[k]]
  IN IF Cardinality(named) < Len(changes) \/ SumFunction(new) = 0
       THEN [ok |-> FALSE, set |-> set]
       ELSE [ok |-> TRUE, set |-> new]

\* The node's handling of one response: convert, then advance from base.
ApplyResponse(base, res) ==
  LET conv == PB2TMValidatorUpdates(res.list)
      adv == Advance(base, conv.vals)
  IN CASE res.err -> [status |-> "appPanic", vals |-> base]
       [] conv.err \/ ~adv.ok -> [status |-> "rejected", vals |-> base]
       [] OTHER -> [status |-> "running", vals |-> adv.set]

Init ==
  /\ cfg \in Configs /\ height = 0 /\ vals = Genesis /\ status = "genesis"

(***************************************************************************)
(* InitChain: the response's validators (height 0) replace the genesis     *)
(* set, or the genesis set is kept when there are none.                    *)
(***************************************************************************)
InitChain ==
  /\ status = "genesis"
  /\ \E order \in IterationOrders(cfg[0]) :
       LET res == validatorUpdates(cfg[0], order)
           out == IF ~res.err /\ res.list = << >>
                    THEN [status |-> "running", vals |-> Genesis]
                    ELSE ApplyResponse(EmptySet, res)
       IN status' = out.status /\ vals' = out.vals
  /\ UNCHANGED << cfg, height >>

(***************************************************************************)
(* EndBlock of the next height, and the node applying its updates.         *)
(***************************************************************************)
EndBlock ==
  /\ status = "running" /\ height < MaxHeight
  /\ \E order \in IterationOrders(cfg[height + 1]) :
       LET out == ApplyResponse(vals, validatorUpdates(cfg[height + 1], order))
       IN status' = out.status /\ vals' = out.vals
  /\ height' = height + 1
  /\ UNCHANGED cfg

Next == InitChain \/ EndBlock

Spec == Init /\ [][Next]_vars

-----------------------------------------------------------------------------
(***************************************************************************)
(* The reference: the configuration read as the map it is, with no order.  *)
(***************************************************************************)
RefStep(prev, updates) ==
  LET keys == {Decode[s] : s \in DOMAIN updates}
      new == [k \in Keys |-> IF \E s \in DOMAIN updates : Decode[s] = k
                               THEN updates[CHOOSE s \in DOMAIN updates : Decode[s] = k]
                               ELSE prev.vals[k]]
  IN CASE prev.status # "running" -> prev
       [] NotBase64 \in keys -> [prev EXCEPT !.status = "appPanic"]
       [] ~(keys \subseteq ValidKeys) \/ Cardinality(keys) < Cardinality(DOMAIN updates)
            \/ SumFunction(new) = 0 -> [prev EXCEPT !.status = "rejected"]
       [] OTHER -> [status |-> "running", vals |-> new]

RECURSIVE Reference(_)
Reference(h) ==
  IF h = 0
    THEN IF DOMAIN cfg[0] = {}
           THEN [status |-> "running", vals |-> Genesis]
           ELSE RefStep([status |-> "running", vals |-> EmptySet], cfg[0])
    ELSE RefStep(Reference(h - 1), cfg[h])

(* Whatever order Go's map iteration visits the configured updates in, at  *)
(* every height the node ends with the validator set the configuration     *)
(* denotes, or stops exactly when it denotes an error: two replicas of the *)
(* app never make two nodes disagree (validatorUpdates, PB2TM, advance).   *)
UpdatesMatchReference ==
  status # "genesis" => [status |-> status, vals |-> vals] = Reference(height)
=============================================================================
