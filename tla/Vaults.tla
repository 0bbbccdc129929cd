------------------------------- MODULE Vaults -------------------------------
(***************************************************************************)
(* The accounts in which money of an escrow or of a period can lie.        *)
(* Lamports lie in the one vault PDA that the handlers' seeds name.        *)
(* Tokens lie in token accounts whose owner is the escrow (or period) PDA, *)
(* and there may be several of one mint: the associated one, which the     *)
(* funding instructions insist on, and further ones that anybody may open  *)
(* for the PDA.  Settlements check the owner and the mint of the account   *)
(* they are given, not its address, so any of these can be named.          *)
(***************************************************************************)
EXTENDS Config

CONSTANTS
    SpareVaults,   \* token accounts of a PDA other than the associated ones
    SpareMint      \* the mint of each

\* An associated token account goes by the name of its mint, the SOL vault by
\* the name of SOL.
TokenAccounts == Mints \cup SpareVaults
VaultAccounts == Assets \cup SpareVaults

ASSUME VaultsAssumption ==
    /\ SpareVaults \cap (Assets \cup {Nobody}) = {}
    /\ IsFiniteSet(SpareVaults)
    /\ SpareMint \in [SpareVaults -> Mints]

AssetOf(acct) == IF acct \in SpareVaults THEN SpareMint[acct] ELSE acct

EmptyVaults == [acct \in VaultAccounts |-> 0]
=============================================================================
