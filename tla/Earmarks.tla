------------------------------ MODULE Earmarks ------------------------------
(***************************************************************************)
(* What the hourly engine promises, with no roles, clock, counters or      *)
(* commission in it: a pot of money out of which claims are earmarked.  A  *)
(* claim is covered when it is made, keeps its full amount whatever        *)
(* happens to the other claims and to the free money, and is paid once.    *)
(***************************************************************************)
EXTENDS Integers, Functions

CONSTANTS Pots, Claims

VARIABLES
    money,   \* what each pot holds
    claim    \* the amount earmarked for each claim of each pot, 0 when none

earmarksVars == <<money, claim>>

Earmarked(p) == SumFunctionOnSet(claim[p], Claims)

Free(p) == money[p] - Earmarked(p)

Init ==
    /\ money = [p \in Pots |-> 0]
    /\ claim = [p \in Pots |-> [c \in Claims |-> 0]]

\* Money is added: nothing is taken away from the claims.
TopUp(p) ==
    /\ money'[p] > money[p]
    /\ money' = [money EXCEPT ![p] = money'[p]]
    /\ UNCHANGED claim

\* A new claim, never on more than the free money.
Earmark(p, c) ==
    /\ claim[p][c] = 0
    /\ claim'[p][c] \in 1..Free(p)
    /\ claim' = [claim EXCEPT ![p][c] = claim'[p][c]]
    /\ UNCHANGED money

\* A claim leaves the pot with exactly what was earmarked for it.
PayOut(p, c) ==
    /\ claim[p][c] > 0
    /\ money' = [money EXCEPT ![p] = @ - claim[p][c]]
    /\ claim' = [claim EXCEPT ![p][c] = 0]

\* Only free money is refunded.
Refund(p) ==
    /\ money'[p] \in Earmarked(p)..money[p]
    /\ money' = [money EXCEPT ![p] = money'[p]]
    /\ UNCHANGED claim

Next ==
    \E p \in Pots :
        \/ TopUp(p)
        \/ Refund(p)
        \/ \E c \in Claims : Earmark(p, c) \/ PayOut(p, c)

Spec == Init /\ [][Next]_earmarksVars
=============================================================================
