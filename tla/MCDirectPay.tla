---------------------------- MODULE MCDirectPay ----------------------------
(***************************************************************************)
(* A small instance of the Config account and of direct pay: two admins,   *)
(* who are also the users, a list of at most two mints, two possible       *)
(* treasuries one of which is a user, and money in one asset at a time.    *)
(***************************************************************************)
EXTENDS DirectPayProperties, TLC

CONSTANTS adam, eve, fees, usdc, eurc, adamUsdc, adamSpare, eveUsdc, feesUsdc

MCUsers == {adam, eve}
MCTreasuries == {fees, eve}
MCMints == {usdc, eurc}
MCTokenAccounts == {adamUsdc, adamSpare, eveUsdc, feesUsdc}
MCAccountOwner == adamUsdc :> adam @@ adamSpare :> adam @@ eveUsdc :> eve
                  @@ feesUsdc :> fees
MCAccountMint == [a \in MCTokenAccounts |-> usdc]

\* Lists of every length around the limit, one mint given twice, a rate above
\* the cap and a treasury left at its default.
MCInitConfigArgs ==
    { [fee_recipient |-> fees, bps |-> 1000, mints |-> (usdc :> m @@ eurc :> n)] :
          m \in 0..2, n \in 0..1 }
    \cup
    { [fee_recipient |-> fees, bps |-> 1001, mints |-> (usdc :> 1 @@ eurc :> 0)],
      [fee_recipient |-> Nobody, bps |-> 0, mints |-> (usdc :> 1 @@ eurc :> 0)] }

Unchanged == [ fee_recipient |-> {}, bps |-> {}, paused |-> {},
               pending_authority |-> {}, platform_authority |-> {} ]

MCUpdateConfigArgs ==
    { [Unchanged EXCEPT !.paused = {p}] : p \in BOOLEAN }
    \cup { [Unchanged EXCEPT !.pending_authority = {k}] : k \in {adam, eve, Nobody} }
    \cup { [Unchanged EXCEPT !.bps = {1001}] }
    \cup { [Unchanged EXCEPT !.fee_recipient = {k}] : k \in {fees, eve, Nobody} }

\* A single payment of 10 is charged 1 at 1000 bps, and two payments of 5 in
\* one batch are, although each alone is charged nothing.
MCPayAmounts == {0, 10}

Leg(to, amount) == [to |-> to, amount |-> amount]

\* To others, to oneself, to the treasury, twice to the same account; a zero
\* amount, an empty list, a list that is too long, a sum above MaxU64.
MCBatches ==
    { <<>>,
      <<Leg(eve, 5), Leg(eve, 5)>>, <<Leg(fees, 5), Leg(eve, 5)>>,
      <<Leg(eve, 5), Leg(adam, 5)>>, <<Leg(eve, 5), Leg(fees, 0)>>,
      <<Leg(eve, 10), Leg(fees, 20)>>, <<Leg(eve, 5), Leg(eve, 5), Leg(eve, 5)>>,
      <<Leg(eveUsdc, 5), Leg(eveUsdc, 5)>>, <<Leg(adamSpare, 5), Leg(feesUsdc, 5)>>,
      <<Leg(adamUsdc, 5), Leg(eveUsdc, 5)>> }

\* One recipient is another account of the payer's own.
MCSpareBatches == { <<Leg(adamSpare, 5), Leg(feesUsdc, 5)>> }

\* Enough for one payment with its commission out of the first account, and for
\* others out of what the recipients then hold.
MCInitialBalances ==
    { [a \in Accounts |-> CASE a = adam -> 18 [] a = fees -> 2 [] OTHER -> 0],
      [a \in Accounts |-> CASE a = adamUsdc -> 12 [] OTHER -> 0] }
=============================================================================
