---------------------------- MODULE MCAutomation ----------------------------
(***************************************************************************)
(* Instances of Automation: with every hand-over repaired, and with one of *)
(* them as committed.                                                      *)
(***************************************************************************)
EXTENDS Automation

AllRepairs == Repairable
AllButMetas == Repairable \ {"metas"}
AllButMessage == Repairable \ {"message"}

\* multisig_vault_transfer.rs:62, "The instruction that is queued for execution in
\* Squads": the message a kickoff is about to queue, like every one it has queued,
\* is one that Squads accepts and that calls multisig_vault_transfer with its
\* accounts in their places, writable and signed for as the transfer needs them.
QueuedInstructionFits ==
  /\ \A t \in DOMAIN vault_transaction : MessageIsTransfer(vault_transaction[t])
  /\ distribution # NoAccount =>
       LET i == D!NextRound
       IN D!CanKickoff(i) => MessageIsTransfer(VaultMessage(i, Multisig))

\* kickoff:82, "This is the transaction that will be run periodically by a
\* clockwork thread": a round that can be opened or skipped is, sooner or later,
\* by the thread, for whose instruction nobody else has to stand in.
ThreadGoesOn == \A i \in 1..U16Max : Due(i) ~> ~ Due(i)
=============================================================================
