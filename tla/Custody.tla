------------------------------ MODULE Custody -------------------------------
(***************************************************************************)
(* What the milestone engine promises, with no accounts, vaults, signers   *)
(* or clock in it: a deal is agreed, its full price is secured, and later  *)
(* everything that is held for it leaves at once, split between employee,  *)
(* employer and treasury.  A deal that is bound to its money ends in no    *)
(* other way.  One that is not may also be settled with money from         *)
(* elsewhere: then nothing of what is held moves until the deal is over.   *)
(* Escrow implements it, one deal per escrow id; SOL deals are bound.      *)
(***************************************************************************)
EXTENDS Naturals

CONSTANT Deals

VARIABLES
    phase,   \* "none", "agreed", "secured" or "settled", per deal
    terms,   \* worker net and platform fee, and whether the deal is bound
    held,    \* the money held for the deal
    payout   \* what each side has received from the deal

custodyVars == <<phase, terms, held, payout>>

Nothing == [employee |-> 0, employer |-> 0, treasury |-> 0]

NoTerms == [net |-> 0, fee |-> 0, bound |-> FALSE]

Init ==
    /\ phase = [d \in Deals |-> "none"]
    /\ terms = [d \in Deals |-> NoTerms]
    /\ held = [d \in Deals |-> 0]
    /\ payout = [d \in Deals |-> Nothing]

Agree(d) ==
    /\ phase[d] = "none"
    /\ phase' = [phase EXCEPT ![d] = "agreed"]
    /\ terms'[d].net \in Nat \ {0} /\ terms'[d].fee \in Nat
    /\ terms' = [terms EXCEPT ![d] = terms'[d]]
    /\ UNCHANGED <<held, payout>>

\* The full price, with whatever was lying there before.
Secure(d) ==
    /\ phase[d] = "agreed"
    /\ phase' = [phase EXCEPT ![d] = "secured"]
    /\ held'[d] >= terms[d].net + terms[d].fee
    /\ held' = [held EXCEPT ![d] = held'[d]]
    /\ UNCHANGED <<terms, payout>>

\* Outsiders can only add to what is held.
Donate(d) ==
    /\ phase[d] \in {"secured", "settled"}
    /\ held'[d] >= held[d]
    /\ held' = [held EXCEPT ![d] = held'[d]]
    /\ UNCHANGED <<phase, terms, payout>>

\* The employee receives at most the net, the employer at least what the
\* employee does not.
FairSplit(t, p) ==
    /\ p.employee <= t.net
    /\ p.employer + p.employee >= t.net

\* Everything that was held is paid out, not a unit more or less.
Settle(d) ==
    /\ phase[d] = "secured"
    /\ phase' = [phase EXCEPT ![d] = "settled"]
    /\ FairSplit(terms[d], payout'[d])
    /\ payout'[d].employee + payout'[d].employer + payout'[d].treasury = held[d]
    /\ payout' = [payout EXCEPT ![d] = payout'[d]]
    /\ held' = [held EXCEPT ![d] = 0]
    /\ UNCHANGED terms

\* Nothing that was held is paid out: the money came from elsewhere.
SettleAside(d) ==
    /\ phase[d] = "secured" /\ ~terms[d].bound
    /\ phase' = [phase EXCEPT ![d] = "settled"]
    /\ payout'[d].employee <= terms[d].net
    /\ payout' = [payout EXCEPT ![d] = payout'[d]]
    /\ UNCHANGED <<terms, held>>

\* A deal that was never secured pays the employee nothing.
Abandon(d) ==
    /\ phase[d] = "agreed"
    /\ phase' = [phase EXCEPT ![d] = "settled"]
    /\ payout'[d].employee = 0
    /\ payout' = [payout EXCEPT ![d] = payout'[d]]
    /\ UNCHANGED <<terms, held>>

Forget(d) ==
    /\ phase[d] = "settled"
    /\ phase' = [phase EXCEPT ![d] = "none"]
    /\ terms' = [terms EXCEPT ![d] = NoTerms]
    /\ held' = [held EXCEPT ![d] = 0]
    /\ payout' = [payout EXCEPT ![d] = Nothing]

Next ==
    \E d \in Deals :
        \/ Agree(d) \/ Secure(d) \/ Donate(d) \/ Settle(d) \/ SettleAside(d)
        \/ Abandon(d) \/ Forget(d)

Spec == Init /\ [][Next]_custodyVars
=============================================================================
