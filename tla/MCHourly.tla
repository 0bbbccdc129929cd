------------------------------ MODULE MCHourly ------------------------------
(***************************************************************************)
(* Small instances of the hourly engine for TLC: one period PDA that is    *)
(* opened, wound down and opened again, with at most two invoices a life.  *)
(***************************************************************************)
EXTENDS HourlyProperties, TLC

CONSTANTS alice, bob,      \* an employer and a worker
          plat,            \* platform key and admin
          fees,            \* treasury wallet
          usdc,            \* SPL mint
          spare            \* a second token account of the period

MCUsers == {alice, bob}
MCPlatforms == {plat}
MCTreasuries == {fees}
MCMints == {usdc}

MCSpares == {spare}

SpareOfUsdc == spare :> usdc

NoSpareMint == [acct \in {} |-> SOL]

\* 1000 bps of 5 is one half: the roundings of two invoices add up to 1.
MCRates == {1000}

Unchanged == [ fee_recipient |-> {}, bps |-> {}, paused |-> {},
               pending_authority |-> {}, platform_authority |-> {} ]

NativeInitConfigArgs ==
    {[fee_recipient |-> fees, bps |-> 1000, mints |-> [mint \in {} |-> 0]]}

TokenInitConfigArgs ==
    {[fee_recipient |-> fees, bps |-> 1000, mints |-> usdc :> 1]}

\* The admin names the platform key, pauses and unpauses.
PausingUpdateConfigArgs ==
    { [Unchanged EXCEPT !.paused = {TRUE}],
      [Unchanged EXCEPT !.paused = {FALSE}, !.platform_authority = {plat}] }

\* The two users are interchangeable.
UsersAlike == Permutations(MCUsers)

NamingUpdateConfigArgs == { [Unchanged EXCEPT !.platform_authority = {plat}] }
=============================================================================
