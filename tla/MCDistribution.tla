---------------------------- MODULE MCDistribution ----------------------------
(* Instance of Distribution for TLC, and what comments of the repository say *)
(* of distribution rounds.                                                   *)
EXTENDS Distribution

\* state.rs:86, "Start time" of the distribution, from which kickoff computes the
\* windows of the rounds: when init_distribution creates a distribution, the
\* window of its first round is not over yet.
FirstWindowAhead ==
  [][distribution = NoAccount /\ distribution' # NoAccount => now <= RoundEnd(1)']_vars

\* kickoff:78, "If approved & frequency days has elapsed, immediately execute
\* the proposal": an approved proposal is one that can still be executed.
ApprovedIsExecutable ==
  \A t \in DOMAIN proposal :
    proposal[t].status = "Approved" => IsCurrentRound(proposal[t].round)

\* state.rs:126, "The multisig proposal this round is dependent on", and
\* kickoff:54, "Correct multisig for round": the proposal of every round that is
\* opened is one that the members of distribution.multisig can decide.
RoundsProposedToMembers ==
  \A i \in DOMAIN round : IsLive(i) => round[i].proposal \in DOMAIN proposal
=============================================================================
