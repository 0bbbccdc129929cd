------------------------------ MODULE MCEscrow ------------------------------
(***************************************************************************)
(* Small instances of the milestone escrow engine for TLC.                 *)
(***************************************************************************)
EXTENDS EscrowClaims, TLC

CONSTANTS alice, bob,      \* an employer and a worker
          plat, plat2,     \* platform keys
          fees,            \* treasury wallet
          usdc,            \* SPL mint
          spare            \* a second token account of the escrow

MCUsers == {alice, bob}
MCTreasuries == {fees}
MCAdmins == {plat}

\* Valid rates and one above the cap; 1000 bps of 10 is 1.
MCRates == {1000, 1001}

Unchanged == [ fee_recipient |-> {}, bps |-> {}, paused |-> {},
               pending_authority |-> {}, platform_authority |-> {} ]

(* Native escrows, with room on the clock for disputes and dust in the vault. *)

\* bob is among the keys a rotation may choose, so the checks that keep a
\* party from arbitrating meet the case they exist for.
NativePlatforms == {plat, bob}

NoSpareMint == [acct \in {} |-> SOL]

NativeInitConfigArgs ==
    {[fee_recipient |-> fees, bps |-> 1000, mints |-> [mint \in {} |-> 0]]}

\* The admin names the platform key, at times one of the users, and pauses and
\* unpauses.
NativeUpdateConfigArgs ==
    { [Unchanged EXCEPT !.paused = {TRUE}],
      [Unchanged EXCEPT !.paused = {FALSE}, !.platform_authority = {plat}],
      [Unchanged EXCEPT !.platform_authority = {bob}] }

(* Token escrows next to native ones, on a short clock. *)

TokenPlatforms == {plat, plat2}

TokenMints == {usdc}

TokenSpares == {spare}

TokenSpareMint == spare :> usdc

TokenInitConfigArgs ==
    {[fee_recipient |-> fees, bps |-> 1000, mints |-> usdc :> 1]}

TokenUpdateConfigArgs == { [Unchanged EXCEPT !.platform_authority = {plat}] }
=============================================================================
