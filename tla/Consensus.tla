------------------------------ MODULE Consensus ------------------------------
(***************************************************************************)
(* One height of the round-based consensus state machine (spec sections   *)
(* 4.1, 4.2 and 8).  The state machine lives in the consensus package,     *)
(* which is not among the source files; this module is written from the    *)
(* spec.                                                                   *)
(*                                                                         *)
(* Honest validators run the Propose / Prevote / Precommit / Commit steps  *)
(* of a round; the waits PrevoteWait and PrecommitWait are the timeout     *)
(* actions, which may fire at any point of their step (timers are not      *)
(* modelled, so every timing the code can see is covered).  Messages are   *)
(* kept in grow-only sets that every validator reads, which over-          *)
(* approximates reliable gossip with arbitrary delay.  Faulty validators  *)
(* have sent every vote and every proposal they could from the start: they *)
(* equivocate freely.                                                      *)
(***************************************************************************)
EXTENDS Integers, FiniteSets, FiniteSetsExt

CONSTANTS
  Validators,   \* the validator set of the height
  Faulty,       \* the byzantine validators, a subset of Validators
  Power,        \* Power[v]: voting power of validator v
  Values,       \* the blocks that can be proposed (identified by hash)
  Nil,          \* the nil vote
  MaxRound,     \* rounds are 0..MaxRound
  Proposer      \* Proposer[r]: the designated proposer of round r

Rounds == 0..MaxRound
Honest == Validators \ Faulty
VoteValues == Values \cup {Nil}

PowerOf(S) == MapThenSumSet(LAMBDA v : Power[v], S)
TotalPower == PowerOf(Validators)

ASSUME
  /\ Faulty \subseteq Validators
  /\ Power \in [Validators -> Nat \ {0}]
  /\ Nil \notin Values
  /\ MaxRound \in Nat
  /\ Proposer \in [Rounds -> Validators]
  \* byzantine power below a third of the total
  /\ 3 * PowerOf(Faulty) < TotalPower

(***************************************************************************)
(* VoteSet.twoThirdsMajority: strictly more than 2/3 of the total power.   *)
(***************************************************************************)
IsSupermajority(S) == 3 * PowerOf(S) > 2 * TotalPower

VARIABLES
  round,        \* round[p]: the round validator p is in
  step,         \* step[p]: "propose", "prevote", "precommit" or "commit"
  lockedValue,  \* lockedValue[p]: the LockedBlock of p, or Nil
  lockedRound,  \* lockedRound[p]: the round p locked in, -1 if unlocked
  decision,     \* decision[p]: the block p committed, or Nil
  proposals,    \* every Proposal sent: [src, round, value, polRound]
  prevotes,     \* every prevote sent: [src, round, value]
  precommits    \* every precommit sent: [src, round, value]

vars == << round, step, lockedValue, lockedRound, decision,
           proposals, prevotes, precommits >>

Proposals == [src : Validators, round : Rounds, value : Values, polRound : Rounds \cup {-1}]
Votes == [src : Validators, round : Rounds, value : VoteValues]

TypeOK ==
  /\ round \in [Honest -> Rounds]
  /\ step \in [Honest -> {"propose", "prevote", "precommit", "commit"}]
  /\ lockedValue \in [Honest -> VoteValues]
  /\ lockedRound \in [Honest -> Rounds \cup {-1}]
  \* a lock is a (block, round) pair: no block exactly when no round
  /\ \A p \in Honest : (lockedValue[p] = Nil) = (lockedRound[p] = -1)
  /\ decision \in [Honest -> VoteValues]
  /\ proposals \subseteq Proposals
  /\ prevotes \subseteq Votes
  /\ precommits \subseteq Votes

\* The validators whose votes of a set are for value v in round r.
Voters(votes, r, v) == {m.src : m \in {x \in votes : x.round = r /\ x.value = v}}
\* The validators who voted at all in round r.
AnyVoters(votes, r) == {m.src : m \in {x \in votes : x.round = r}}

\* A proof-of-lock: +2/3 prevotes for v in round r.
Polka(r, v) == IsSupermajority(Voters(prevotes, r, v))

(***************************************************************************)
(* Init: every honest validator at round 0, step Propose, unlocked.  The  *)
(* faulty validators have cast every vote and, in the rounds they are     *)
(* proposer of, every proposal.                                            *)
(***************************************************************************)
Init ==
  /\ round = [p \in Honest |-> 0]
  /\ step = [p \in Honest |-> "propose"]
  /\ lockedValue = [p \in Honest |-> Nil]
  /\ lockedRound = [p \in Honest |-> -1]
  /\ decision = [p \in Honest |-> Nil]
  /\ proposals = {m \in Proposals : m.src \in Faulty /\ m.src = Proposer[m.round]
                                    /\ m.polRound < m.round}
  /\ prevotes = {m \in Votes : m.src \in Faulty}
  /\ precommits = {m \in Votes : m.src \in Faulty}

(***************************************************************************)
(* Propose: the designated proposer of the round proposes its locked      *)
(* block with the lock's round as POL round, or, unlocked, any block with *)
(* POL round -1.                                                           *)
(***************************************************************************)
Propose(p) ==
  /\ step[p] = "propose"
  /\ Proposer[round[p]] = p
  /\ ~\E m \in proposals : m.src = p /\ m.round = round[p]
  /\ \E v \in Values :
       /\ lockedValue[p] # Nil => v = lockedValue[p]
       /\ proposals' = proposals \cup
            {[src |-> p, round |-> round[p], value |-> v, polRound |-> lockedRound[p]]}
  /\ UNCHANGED << round, step, lockedValue, lockedRound, decision, prevotes, precommits >>

\* Mutant: prevotes the proposed block whatever the lock.
PrevoteForIgnoringLock(p, v) == v

\* The prevote a validator casts for a proposed block: the block if that is
\* consistent with its lock, nil otherwise.
PrevoteFor(p, v) == IF lockedValue[p] \in {Nil, v} THEN v ELSE Nil

CastPrevote(p, v) ==
  /\ prevotes' = prevotes \cup {[src |-> p, round |-> round[p], value |-> v]}
  /\ step' = [step EXCEPT ![p] = "prevote"]

(***************************************************************************)
(* Prevote on receiving the proposal of the round's proposer.              *)
(***************************************************************************)
PrevoteOnProposal(p) ==
  /\ step[p] = "propose"
  /\ \E m \in proposals :
       /\ m.round = round[p]
       /\ m.src = Proposer[round[p]]
       /\ CastPrevote(p, PrevoteFor(p, m.value))
  /\ UNCHANGED << round, lockedValue, lockedRound, decision, proposals, precommits >>

(***************************************************************************)
(* The propose timeout fires: prevote nil.                                 *)
(***************************************************************************)
TimeoutPropose(p) ==
  /\ step[p] = "propose"
  /\ CastPrevote(p, Nil)
  /\ UNCHANGED << round, lockedValue, lockedRound, decision, proposals, precommits >>

CastPrecommit(p, v) ==
  /\ precommits' = precommits \cup {[src |-> p, round |-> round[p], value |-> v]}
  /\ step' = [step EXCEPT ![p] = "precommit"]

(***************************************************************************)
(* Precommit on a polka for a block in the current round: lock the block  *)
(* (LockedBlock, LockedRound) and precommit it.                            *)
(***************************************************************************)
PrecommitOnPolka(p) ==
  /\ step[p] = "prevote"
  /\ \E v \in Values :
       /\ Polka(round[p], v)
       /\ lockedValue' = [lockedValue EXCEPT ![p] = v]
       /\ lockedRound' = [lockedRound EXCEPT ![p] = round[p]]
       /\ CastPrecommit(p, v)
  /\ UNCHANGED << round, decision, proposals, prevotes >>

\* Mutant: the nil polka clears the locked block but not the lock round.
PrecommitOnNilPolkaKeepingRound(p) ==
  /\ step[p] = "prevote"
  /\ Polka(round[p], Nil)
  /\ lockedValue' = [lockedValue EXCEPT ![p] = Nil]
  /\ CastPrecommit(p, Nil)
  /\ UNCHANGED << round, lockedRound, decision, proposals, prevotes >>

(***************************************************************************)
(* Precommit on a polka for nil: release the lock and precommit nil.       *)
(***************************************************************************)
PrecommitOnNilPolka(p) ==
  /\ step[p] = "prevote"
  /\ Polka(round[p], Nil)
  /\ lockedValue' = [lockedValue EXCEPT ![p] = Nil]
  /\ lockedRound' = [lockedRound EXCEPT ![p] = -1]
  /\ CastPrecommit(p, Nil)
  /\ UNCHANGED << round, decision, proposals, prevotes >>

(***************************************************************************)
(* PrevoteWait times out (it starts on +2/3 prevotes of any kind): no      *)
(* block-specific supermajority is known, so precommit nil and keep the    *)
(* lock.                                                                   *)
(***************************************************************************)
TimeoutPrevote(p) ==
  /\ step[p] = "prevote"
  /\ IsSupermajority(AnyVoters(prevotes, round[p]))
  /\ CastPrecommit(p, Nil)
  /\ UNCHANGED << round, lockedValue, lockedRound, decision, proposals, prevotes >>

(***************************************************************************)
(* Unlock: a polka for nil or for another block in a round above the lock *)
(* round and not above the current one releases the lock (spec section 8).*)
(***************************************************************************)
Unlock(p) ==
  /\ lockedValue[p] # Nil
  /\ \E r \in Rounds, v \in VoteValues :
       /\ lockedRound[p] < r /\ r <= round[p]
       /\ v # lockedValue[p]
       /\ Polka(r, v)
  /\ lockedValue' = [lockedValue EXCEPT ![p] = Nil]
  /\ lockedRound' = [lockedRound EXCEPT ![p] = -1]
  /\ UNCHANGED << round, step, decision, proposals, prevotes, precommits >>

(***************************************************************************)
(* Commit: +2/3 precommits for one block in some round finalize it.        *)
(***************************************************************************)
Decide(p) ==
  /\ decision[p] = Nil
  /\ \E r \in Rounds, v \in Values :
       /\ IsSupermajority(Voters(precommits, r, v))
       /\ decision' = [decision EXCEPT ![p] = v]
  /\ step' = [step EXCEPT ![p] = "commit"]
  /\ UNCHANGED << round, lockedValue, lockedRound, proposals, prevotes, precommits >>

\* Mutant: the lock is dropped when the round advances.
TimeoutPrecommitDroppingLock(p) ==
  /\ step[p] = "precommit"
  /\ round[p] < MaxRound
  /\ IsSupermajority(AnyVoters(precommits, round[p]))
  /\ round' = [round EXCEPT ![p] = round[p] + 1]
  /\ step' = [step EXCEPT ![p] = "propose"]
  /\ lockedValue' = [lockedValue EXCEPT ![p] = Nil]
  /\ lockedRound' = [lockedRound EXCEPT ![p] = -1]
  /\ UNCHANGED << decision, proposals, prevotes, precommits >>

(***************************************************************************)
(* PrecommitWait times out (it starts on +2/3 precommits of any kind)     *)
(* without a commit: go to the next round, step Propose, keeping the lock.*)
(***************************************************************************)
TimeoutPrecommit(p) ==
  /\ step[p] = "precommit"
  /\ round[p] < MaxRound
  /\ IsSupermajority(AnyVoters(precommits, round[p]))
  /\ round' = [round EXCEPT ![p] = round[p] + 1]
  /\ step' = [step EXCEPT ![p] = "propose"]
  /\ UNCHANGED << lockedValue, lockedRound, decision, proposals, prevotes, precommits >>

Next ==
  \E p \in Honest :
    \/ Propose(p)
    \/ PrevoteOnProposal(p)
    \/ TimeoutPropose(p)
    \/ PrecommitOnPolka(p)
    \/ PrecommitOnNilPolka(p)
    \/ TimeoutPrevote(p)
    \/ Unlock(p)
    \/ Decide(p)
    \/ TimeoutPrecommit(p)

Spec == Init /\ [][Next]_vars

-----------------------------------------------------------------------------
(***************************************************************************)
(* Properties.                                                             *)
(***************************************************************************)

(* Agreement: no two honest validators commit different blocks at the     *)
(* height, whatever the byzantine third does (locking, unlock rule and the *)
(* 2/3 thresholds of VoteSet together).                                    *)
Agreement ==
  \A p, q \in Honest :
    decision[p] # Nil /\ decision[q] # Nil => decision[p] = decision[q]

(* Polka safety, the lemma Agreement rests on (spec section 8): once +2/3  *)
(* precommit block v in some round, no later round ever gathers a polka   *)
(* for another block.  The honest precommitters of v are locked on it and *)
(* must keep the lock across TimeoutPrecommit and refuse to prevote a     *)
(* different proposal, whatever the byzantine proposer and voters send.   *)
PolkaSafety ==
  \A r1, r2 \in Rounds, v, w \in Values :
    (r1 < r2 /\ w # v /\ IsSupermajority(Voters(precommits, r1, v)))
      => ~Polka(r2, w)
=============================================================================
