---------------------------- MODULE EscrowClaims ----------------------------
(***************************************************************************)
(* What the repository's documents and comments say of the milestone       *)
(* engine and its code does not do.  TLC refutes each of these; the README *)
(* of this directory tells the counterexamples.                            *)
(***************************************************************************)
EXTENDS EscrowProperties

\* programs/worqen-escrow/src/lib.rs:172, of cancel_escrow_sol: "Full refund to
\* employer." - everything that was deposited comes back.
CancelRefundsInFull ==
    \A id \in EscrowIds :
        Settled(escrow[id]) /\ escrow[id].status = "Cancelled" =>
            paid[id].employer >= TotalDeposit(escrow[id])

\* cancel_escrow_token.rs:64-65: "the platform keeps its commission (routed to
\* the treasury) even on cancellation", and likewise mutual_cancel_token.rs:62-65
\* and resolve_dispute_token.rs:56-58 of an agreed or resolved split.
CommissionKept ==
    \A id \in EscrowIds :
        Settled(escrow[id]) => paid[id].treasury >= escrow[id].commission_amount

\* programs/worqen-escrow/src/lib.rs:211, of close_unfunded_escrow_token: "No
\* vault ATA was ever created." - none exists for what the handler closes.
UnfundedHasNoVault ==
    \A id \in EscrowIds :
        LET e == escrow[id] IN
        e.status = "Cancelled" /\ e.funded_at = 0 /\ ~IsNative(id) =>
            ~VaultTokenAccountExists(id)

\* README.md:761: the deadline safety net "means an unresponsive platform
\* cannot strand funds" - of an escrow the worker keeps sending transactions
\* for.
FundsNotStranded ==
    \A id \in EscrowIds :
        escrow[id].status \in Active ~> escrow[id].status \notin Active

\* A worker who confirms, disputes and collects whenever the program lets it.
WorkerActs(id) ==
    LET worker == escrow[id].employee IN
    /\ \/ ConfirmCompletion(id, worker)
       \/ \E deadline \in 0..MaxTime : RaiseDispute(id, worker, deadline)
       \/ \E acct \in VaultAccounts :
             ReleaseSol(id, acct, worker) \/ ReleaseToken(id, acct, worker)
    /\ UNCHANGED <<config, now>>

WorkerFairSpec == FairSpec /\ \A id \in EscrowIds : WF_vars(WorkerActs(id))
=============================================================================
