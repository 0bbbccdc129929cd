--------------------------- MODULE DirectPayProofs ---------------------------
(***************************************************************************)
(* Direct and batch pay, proved for any number of wallets, token accounts, *)
(* mints and recipients, any amounts and rates.  What a list of transfers  *)
(* does is defined by recursion along the list; the proofs go by induction *)
(* in the form that a set with 0 and the successor of each of its elements *)
(* has every natural number up to a bound.                                 *)
(***************************************************************************)
EXTENDS DirectPayProperties, ConfigProofs, SequenceTheorems

-----------------------------------------------------------------------------
(* Induction and iteration up to a bound. *)

LEMMA UpTo ==
    ASSUME NEW n \in Nat, NEW S, 0 \in S, \A i \in 1..n : i - 1 \in S => i \in S
    PROVE  0..n \subseteq S
<1> DEFINE Family == {0..i : i \in (0..n) \ S}
<1>1. SUFFICES ASSUME Family # {} PROVE FALSE
  OBVIOUS
<1>2. Family \subseteq SUBSET (0..n) /\ IsFiniteSet(0..n)
  <2>1. Family \subseteq SUBSET (0..n)
    OBVIOUS
  <2>2. 0 \in Int /\ n \in Int
    OBVIOUS
  <2> HIDE DEF Family
  <2> QED
    BY <2>1, <2>2, FS_Interval
<1>3. PICK T \in Family : \A U \in SUBSET T : U # T => U \notin Family
  <2> HIDE DEF Family
  <2> QED
    BY <1>1, <1>2, MinimalSubset
<1>4. PICK i \in (0..n) \ S : T = 0..i
  BY DEF Family
<1>5. i \in 1..n /\ i - 1 \notin S
  BY <1>4
<1>6. 0..(i - 1) \in Family /\ 0..(i - 1) \subseteq T /\ i \in T /\ i \notin 0..(i - 1)
  BY <1>4, <1>5
<1> QED
  BY <1>3, <1>6

IsIteration(g, V, c, n, F) ==
    /\ g \in [0..n -> V] /\ g[0] = c
    /\ \A i \in 1..n : g[i] = F[i][g[i - 1]]

\* A step for each number up to n can be iterated.
LEMMA Iterate ==
    ASSUME NEW V, NEW c, c \in V, NEW n, n \in Nat,
           NEW F, F \in [1..n -> [V -> V]]
    PROVE  \E g : IsIteration(g, V, c, n, F)
<1> DEFINE Iteration(g, k) == /\ g \in [0..k -> V] /\ g[0] = c
                              /\ \A i \in 1..k : g[i] = F[i][g[i - 1]]
           S == {k \in 0..n : \E g : Iteration(g, k)}
<1>1. 0 \in S
  <2>1. Iteration([i \in 0..0 |-> c], 0)
    OBVIOUS
  <2> HIDE DEF Iteration
  <2> QED
    BY <2>1
<1>2. ASSUME NEW k \in 1..n, k - 1 \in S
      PROVE  k \in S
  <2>1. PICK g : Iteration(g, k - 1)
    BY <1>2
  <2> DEFINE h == [i \in 0..k |-> IF i = k THEN F[k][g[k - 1]] ELSE g[i]]
  <2>2. F[k][g[k - 1]] \in V
    BY <2>1
  <2>3. h \in [0..k -> V] /\ h[0] = c
    BY <2>1, <2>2
  <2>4. ASSUME NEW i \in 1..k
        PROVE  h[i] = F[i][h[i - 1]]
    BY <2>1
  <2>5. Iteration(h, k)
    BY <2>3, <2>4
  <2> HIDE DEF Iteration, h
  <2> QED
    BY <2>5
<1>3. n \in S
  <2> HIDE DEF S
  <2>1. 0..n \subseteq S
    BY <1>1, <1>2, UpTo
  <2> QED
    BY <2>1
<1> QED
  BY <1>3 DEF IsIteration

-----------------------------------------------------------------------------
(* The sum of the amounts of a list. *)

IsPartialSum(sum, legs) ==
    sum = [n \in 0..Len(legs) |-> IF n = 0 THEN 0 ELSE sum[n - 1] + legs[n].amount]

PartialSum(legs) == CHOOSE sum : IsPartialSum(sum, legs)

\* A list of legs is a function from places to accounts and amounts.
LEMMA LegTypes ==
    ASSUME NEW legs \in Legs
    PROVE  /\ Len(legs) \in Nat
           /\ DOMAIN legs = 1..Len(legs)
           /\ \A n \in 1..Len(legs) : legs[n].to \in Accounts /\ legs[n].amount \in Nat
<1> DEFINE Leg == [to : Accounts, amount : Nat]
<1>1. legs \in Seq(Leg)
  BY DEF Legs
<1>2. /\ Len(legs) \in Nat /\ DOMAIN legs = 1..Len(legs)
      /\ \A n \in 1..Len(legs) : legs[n] \in Leg
  <2> HIDE DEF Leg
  <2> QED
    BY <1>1, LenProperties, ElementOfSeq
<1> QED
  BY <1>2

\* The sum so far exists, is a natural number and grows leg by leg; the last
\* one is TotalWorker.
LEMMA PartialSumFacts ==
    ASSUME NEW legs \in Legs
    PROVE  /\ TotalWorker(legs) = PartialSum(legs)[Len(legs)]
           /\ PartialSum(legs)[0] = 0
           /\ \A n \in 1..Len(legs) :
                 PartialSum(legs)[n] = PartialSum(legs)[n - 1] + legs[n].amount
           /\ \A n \in 0..Len(legs) : PartialSum(legs)[n] \in Nat
<1>1. PICK len \in Nat : len = Len(legs)
  BY LegTypes
<1>2. PICK sum : sum = PartialSum(legs)
  OBVIOUS
<1>3. TotalWorker(legs) = sum[len]
  BY <1>1, <1>2 DEF TotalWorker, PartialSum, IsPartialSum
<1>4. IsPartialSum(sum, legs)
  <2>1. PICK V : V = Nat
    OBVIOUS
  <2> DEFINE F == [n \in 1..len |-> [v \in V |-> v + legs[n].amount]]
  <2>2. F \in [1..len -> [V -> V]] /\ 0 \in V
    BY <1>1, <2>1, LegTypes
  <2>3. PICK g : IsIteration(g, V, 0, len, F)
    BY <2>2, Iterate
  <2>4. g \in [0..len -> V] /\ g[0] = 0
    BY <2>3 DEF IsIteration
  <2>5. \A n \in 1..len : g[n] = g[n - 1] + legs[n].amount
    <3>1. \A n \in 1..len : g[n - 1] \in V
      BY <2>4
    <3> QED
      BY <2>3, <3>1 DEF IsIteration
  <2>6. g = [n \in 0..len |-> IF n = 0 THEN 0 ELSE g[n - 1] + legs[n].amount]
    <3> HIDE DEF F
    <3> QED
      BY <2>4, <2>5
  <2>7. IsPartialSum(g, legs)
    BY <1>1, <2>6, Zenon DEF IsPartialSum
  <2> QED
    BY <1>2, <2>7, Zenon DEF PartialSum
<1>5. /\ sum[0] = 0
      /\ \A n \in 1..len : sum[n] = sum[n - 1] + legs[n].amount
  BY <1>1, <1>4 DEF IsPartialSum
<1>6. \A n \in 0..len : sum[n] \in Nat
  <2> DEFINE S == {n \in 0..len : sum[n] \in Nat}
  <2>1. 0 \in S
    BY <1>5
  <2>2. ASSUME NEW n \in 1..len, n - 1 \in S
        PROVE  n \in S
    <3>1. sum[n - 1] \in Nat /\ legs[n].amount \in Nat
      BY <1>1, <2>2, LegTypes
    <3> QED
      BY <1>5, <3>1
  <2> HIDE DEF S
  <2>3. 0..len \subseteq S
    BY <2>1, <2>2, UpTo
  <2> QED
    BY <2>3 DEF S
<1> QED
  BY <1>1, <1>2, <1>3, <1>5, <1>6

\* Lists that start with the same amounts have the same sums so far.
LEMMA SameSums ==
    ASSUME NEW legs \in Legs, NEW more \in Legs,
           Len(legs) <= Len(more),
           \A n \in 1..Len(legs) : legs[n].amount = more[n].amount
    PROVE  \A n \in 0..Len(legs) : PartialSum(legs)[n] = PartialSum(more)[n]
<1>1. PICK len \in Nat : len = Len(legs)
  BY LegTypes
<1> DEFINE S == {n \in 0..len : PartialSum(legs)[n] = PartialSum(more)[n]}
<1>2. 0 \in S
  BY PartialSumFacts
<1>3. ASSUME NEW n \in 1..len, n - 1 \in S
      PROVE  n \in S
  <2>1. n \in 1..Len(legs) /\ n \in 1..Len(more)
    BY <1>1, LegTypes
  <2>2. PartialSum(legs)[n - 1] = PartialSum(more)[n - 1]
    BY <1>3
  <2>3. PartialSum(legs)[n] = PartialSum(legs)[n - 1] + legs[n].amount
    BY <2>1, PartialSumFacts
  <2>4. PartialSum(more)[n] = PartialSum(more)[n - 1] + more[n].amount
    BY <2>1, PartialSumFacts
  <2> QED
    BY <2>1, <2>2, <2>3, <2>4
<1> HIDE DEF S
<1>4. 0..len \subseteq S
  BY <1>2, <1>3, UpTo
<1> QED
  BY <1>1, <1>4 DEF S

\* One leg more adds its amount to the total.
LEMMA TotalOfOneMore ==
    ASSUME NEW legs \in Legs, NEW more \in Legs,
           Len(more) = Len(legs) + 1,
           \A n \in 1..Len(legs) : legs[n].amount = more[n].amount
    PROVE  TotalWorker(more) = TotalWorker(legs) + more[Len(more)].amount
<1>1. PICK len \in Nat : len = Len(legs)
  BY LegTypes
<1>2. PartialSum(legs)[len] = PartialSum(more)[len]
  BY <1>1, SameSums
<1>3. PartialSum(more)[len + 1] = PartialSum(more)[len] + more[len + 1].amount
  <2>1. len + 1 \in 1..Len(more) /\ (len + 1) - 1 = len
    BY <1>1
  <2> QED
    BY <2>1, PartialSumFacts
<1>4. /\ TotalWorker(legs) = PartialSum(legs)[len]
      /\ TotalWorker(more) = PartialSum(more)[len + 1]
  BY <1>1, PartialSumFacts
<1> QED
  BY <1>1, <1>2, <1>3, <1>4

\* The total of a list without a positive amount.
LEMMA TotalOfZeros ==
    ASSUME NEW legs \in Legs, \A n \in 1..Len(legs) : legs[n].amount = 0
    PROVE  TotalWorker(legs) = 0
<1>1. PICK len \in Nat : len = Len(legs)
  BY LegTypes
<1> DEFINE S == {n \in 0..len : PartialSum(legs)[n] = 0}
<1>2. 0 \in S
  BY PartialSumFacts
<1>3. ASSUME NEW n \in 1..len, n - 1 \in S
      PROVE  n \in S
  <2>1. PartialSum(legs)[n - 1] = 0 /\ legs[n].amount = 0
    BY <1>1, <1>3
  <2>2. PartialSum(legs)[n] = PartialSum(legs)[n - 1] + legs[n].amount
    BY <1>1, PartialSumFacts
  <2> QED
    BY <2>1, <2>2
<1> HIDE DEF S
<1>4. 0..len \subseteq S
  BY <1>2, <1>3, UpTo
<1> QED
  BY <1>1, <1>4, PartialSumFacts DEF S

-----------------------------------------------------------------------------
(* What the legs of a list do to balances. *)

\* The legs with only what they pay into one account.
PartOf(legs, account) ==
    [n \in DOMAIN legs |->
        [legs[n] EXCEPT !.amount = IF legs[n].to = account THEN @ ELSE 0]]

\* What a list pays into one account is the total of a list, with the other
\* amounts set to zero.
LEMMA PartFacts ==
    ASSUME NEW legs \in Legs, NEW account
    PROVE  /\ PartOf(legs, account) \in Legs
           /\ Len(PartOf(legs, account)) = Len(legs)
           /\ \A n \in 1..Len(legs) :
                 PartOf(legs, account)[n].amount
                 = IF legs[n].to = account THEN legs[n].amount ELSE 0
           /\ AmountTo(legs, account) = TotalWorker(PartOf(legs, account))
<1>1. PICK len \in Nat : len = Len(legs) /\ DOMAIN legs = 1..len
  BY LegTypes
<1>2. PICK part : part = PartOf(legs, account)
  OBVIOUS
<1> DEFINE Leg == [to : Accounts, amount : Nat]
<1>3. legs \in [1..len -> Leg]
  BY <1>1, LenProperties DEF Legs
<1>4. /\ part \in [1..len -> Leg]
      /\ \A n \in 1..len :
            part[n].amount = IF legs[n].to = account THEN legs[n].amount ELSE 0
  BY <1>1, <1>2, <1>3 DEF PartOf
<1>5. part \in Legs /\ Len(part) = len
  <2> HIDE DEF Leg
  <2>1. part \in Seq(Leg)
    BY <1>4, SeqDef
  <2>2. DOMAIN part = 1..len
    BY <1>4
  <2> QED
    BY <1>1, <2>1, <2>2, LenProperties DEF Legs, Leg
<1>6. AmountTo(legs, account) = TotalWorker(part)
  BY <1>2 DEF AmountTo, PartOf
<1> QED
  BY <1>1, <1>2, <1>4, <1>5, <1>6

IsRun(after, balances, from, legs) ==
    after = [n \in 0..Len(legs) |->
                IF n = 0 THEN balances ELSE Transferred(after[n - 1], from, legs[n])]

\* One leg takes its amount from the sender and gives it to the recipient, who
\* may be the sender.
LEMMA TransferredFacts ==
    ASSUME NEW balances \in [Accounts -> Int], NEW from \in Accounts,
           NEW leg, leg.to \in Accounts, leg.amount \in Nat
    PROVE  /\ Transferred(balances, from, leg) \in [Accounts -> Int]
           /\ \A a \in Accounts :
                 Transferred(balances, from, leg)[a] + When(a = from, leg.amount)
                 = balances[a] + (IF leg.to = a THEN leg.amount ELSE 0)
<1>1. PICK to, amount : to = leg.to /\ amount = leg.amount
  OBVIOUS
<1>2. to \in Accounts /\ amount \in Nat
  BY <1>1
<1> DEFINE sent == [balances EXCEPT ![from] = @ - amount]
           both == [sent EXCEPT ![to] = @ + amount]
<1>3. sent \in [Accounts -> Int] /\ both \in [Accounts -> Int]
  BY <1>2
<1>4. Transferred(balances, from, leg) = both
  BY <1>1 DEF Transferred
<1>5. ASSUME NEW a \in Accounts
      PROVE  both[a] + When(a = from, amount) = balances[a] + (IF to = a THEN amount ELSE 0)
  BY <1>2 DEF When
<1> QED
  BY <1>1, <1>3, <1>4, <1>5

\* The balances after n legs are those after n - 1, with one leg more sent.
LEMMA AfterFacts ==
    ASSUME NEW balances \in [Accounts -> Int], NEW from \in Accounts, NEW legs \in Legs
    PROVE  /\ After(balances, from, legs)[0] = balances
           /\ \A n \in 1..Len(legs) :
                 After(balances, from, legs)[n]
                 = Transferred(After(balances, from, legs)[n - 1], from, legs[n])
           /\ \A n \in 0..Len(legs) : After(balances, from, legs)[n] \in [Accounts -> Int]
<1>1. PICK len \in Nat : len = Len(legs)
  BY LegTypes
<1>2. PICK after : after = After(balances, from, legs)
  OBVIOUS
<1>3. IsRun(after, balances, from, legs)
  <2>1. PICK V : V = [Accounts -> Int]
    OBVIOUS
  <2> DEFINE F == [n \in 1..len |-> [v \in V |-> Transferred(v, from, legs[n])]]
  <2>2. F \in [1..len -> [V -> V]] /\ balances \in V
    <3>1. ASSUME NEW n \in 1..len, NEW v \in V
          PROVE  Transferred(v, from, legs[n]) \in V
      <4>1. /\ v \in [Accounts -> Int]
            /\ legs[n].to \in Accounts /\ legs[n].amount \in Nat
        BY <1>1, <2>1, LegTypes
      <4> QED
        BY <2>1, <4>1, TransferredFacts
    <3> QED
      BY <2>1, <3>1
  <2>3. PICK g : IsIteration(g, V, balances, len, F)
    <3> HIDE DEF F
    <3> QED
      BY <2>2, Iterate
  <2>4. g \in [0..len -> V] /\ g[0] = balances
    BY <2>3 DEF IsIteration
  <2>5. \A n \in 1..len : g[n] = Transferred(g[n - 1], from, legs[n])
    <3>1. \A n \in 1..len : g[n - 1] \in V
      BY <2>4
    <3> QED
      BY <2>3, <3>1 DEF IsIteration
  <2>6. g = [n \in 0..len |->
               IF n = 0 THEN balances ELSE Transferred(g[n - 1], from, legs[n])]
    <3> HIDE DEF F
    <3> QED
      BY <2>4, <2>5
  <2>7. IsRun(g, balances, from, legs)
    BY <1>1, <2>6, Zenon DEF IsRun
  <2>8. after = CHOOSE f : IsRun(f, balances, from, legs)
    BY <1>2 DEF After, IsRun
  <2> QED
    BY <2>7, <2>8, Zenon
<1>4. /\ after[0] = balances
      /\ \A n \in 1..len : after[n] = Transferred(after[n - 1], from, legs[n])
  BY <1>1, <1>3 DEF IsRun
<1> DEFINE S == {n \in 0..len : after[n] \in [Accounts -> Int]}
<1>5. 0 \in S
  BY <1>4
<1>6. ASSUME NEW n \in 1..len, n - 1 \in S
      PROVE  n \in S
  <2>1. /\ after[n - 1] \in [Accounts -> Int]
        /\ legs[n].to \in Accounts /\ legs[n].amount \in Nat
    BY <1>1, <1>6, LegTypes
  <2>2. Transferred(after[n - 1], from, legs[n]) \in [Accounts -> Int]
    BY <2>1, TransferredFacts
  <2> QED
    BY <1>4, <2>2
<1> HIDE DEF S
<1>7. 0..len \subseteq S
  BY <1>5, <1>6, UpTo
<1> QED
  BY <1>1, <1>2, <1>4, <1>7 DEF S

\* What a whole list does to an account: it gains what the legs pay into it,
\* and the sender loses the total.
LEMMA RunEffect ==
    ASSUME NEW balances \in [Accounts -> Int], NEW from \in Accounts,
           NEW legs \in Legs, NEW a \in Accounts
    PROVE  After(balances, from, legs)[Len(legs)][a] + When(a = from, TotalWorker(legs))
           = balances[a] + AmountTo(legs, a)
<1>1. PICK len \in Nat : len = Len(legs)
  BY LegTypes
<1>2. PICK after : after = After(balances, from, legs)
  OBVIOUS
<1>3. PICK sum, part : sum = PartialSum(legs) /\ part = PartialSum(PartOf(legs, a))
  OBVIOUS
<1> DEFINE S == {n \in 0..len :
                   after[n][a] + When(a = from, sum[n]) = balances[a] + part[n]}
<1>4. 0 \in S
  <2>1. after[0] = balances /\ sum[0] = 0 /\ part[0] = 0
    BY <1>2, <1>3, AfterFacts, PartialSumFacts, PartFacts
  <2> QED
    BY <2>1 DEF When
<1>5. ASSUME NEW n \in 1..len, n - 1 \in S
      PROVE  n \in S
  <2>1. PICK x, amount, gain :
          /\ x = after[n - 1] /\ amount = legs[n].amount
          /\ gain = IF legs[n].to = a THEN legs[n].amount ELSE 0
    OBVIOUS
  <2>2. /\ n \in 1..Len(legs) /\ n - 1 \in 0..Len(legs)
        /\ n \in 1..Len(PartOf(legs, a)) /\ n - 1 \in 0..Len(PartOf(legs, a))
    BY <1>1, PartFacts
  <2>3. /\ x \in [Accounts -> Int] /\ legs[n].to \in Accounts
        /\ amount \in Nat /\ gain \in Nat
    BY <1>2, <2>1, <2>2, AfterFacts, LegTypes
  <2>4. after[n] = Transferred(x, from, legs[n])
    BY <1>2, <2>1, <2>2, AfterFacts
  <2>5. after[n][a] + When(a = from, amount) = x[a] + gain
    BY <2>1, <2>3, <2>4, TransferredFacts
  <2>6. after[n] \in [Accounts -> Int]
    BY <2>1, <2>3, <2>4, TransferredFacts
  <2>7. sum[n] = sum[n - 1] + amount /\ sum[n - 1] \in Nat
    BY <1>3, <2>1, <2>2, PartialSumFacts
  <2>8. part[n] = part[n - 1] + gain /\ part[n - 1] \in Nat
    <3>1. part[n] = part[n - 1] + PartOf(legs, a)[n].amount /\ part[n - 1] \in Nat
      BY <1>3, <2>2, PartialSumFacts, PartFacts
    <3> QED
      BY <2>1, <2>2, <3>1, PartFacts
  <2>9. x[a] + When(a = from, sum[n - 1]) = balances[a] + part[n - 1]
    BY <1>5, <2>1
  <2>10. PICK old, new, start, total, mine :
           /\ old = x[a] /\ new = after[n][a] /\ start = balances[a]
           /\ total = sum[n - 1] /\ mine = part[n - 1]
    OBVIOUS
  <2>11. /\ old \in Int /\ new \in Int /\ start \in Int
         /\ total \in Nat /\ mine \in Nat
    BY <2>3, <2>6, <2>7, <2>8, <2>10
  <2>12. new + When(a = from, total + amount) = start + (mine + gain)
    BY <2>3, <2>5, <2>9, <2>10, <2>11 DEF When
  <2> QED
    BY <2>7, <2>8, <2>10, <2>12
<1> HIDE DEF S
<1>6. len \in S
  <2>1. 0..len \subseteq S
    BY <1>4, <1>5, UpTo
  <2> QED
    BY <2>1
<1>7. sum[len] = TotalWorker(legs) /\ part[len] = AmountTo(legs, a)
  BY <1>1, <1>3, PartialSumFacts, PartFacts
<1> QED
  BY <1>1, <1>2, <1>6, <1>7 DEF S

\* A run whose every leg is covered leaves no account below zero.
LEMMA FundedRun ==
    ASSUME NEW balances \in [Accounts -> Nat], NEW from \in Accounts,
           NEW legs \in Legs, Funded(balances, from, legs)
    PROVE  After(balances, from, legs)[Len(legs)] \in [Accounts -> Nat]
<1>1. PICK len \in Nat : len = Len(legs)
  BY LegTypes
<1>2. PICK after : after = After(balances, from, legs)
  OBVIOUS
<1>3. balances \in [Accounts -> Int]
  OBVIOUS
<1> DEFINE S == {n \in 0..len : after[n] \in [Accounts -> Nat]}
<1>4. 0 \in S
  BY <1>2, <1>3, AfterFacts
<1>5. ASSUME NEW n \in 1..len, n - 1 \in S
      PROVE  n \in S
  <2>1. PICK x, amount, to :
          x = after[n - 1] /\ amount = legs[n].amount /\ to = legs[n].to
    OBVIOUS
  <2>2. /\ x \in [Accounts -> Nat] /\ amount \in Nat /\ to \in Accounts
        /\ amount <= x[from]
    BY <1>1, <1>2, <1>5, <2>1, LegTypes DEF Funded
  <2>3. after[n] = [ [x EXCEPT ![from] = @ - amount] EXCEPT ![to] = @ + amount ]
    <3>1. after[n] = Transferred(x, from, legs[n])
      BY <1>1, <1>2, <1>3, <2>1, AfterFacts
    <3> QED
      BY <2>1, <3>1 DEF Transferred
  <2>4. [x EXCEPT ![from] = @ - amount] \in [Accounts -> Nat]
    BY <2>2
  <2>5. after[n] \in [Accounts -> Nat]
    BY <2>2, <2>3, <2>4
  <2> QED
    BY <2>5
<1> HIDE DEF S
<1>6. 0..len \subseteq S
  BY <1>4, <1>5, UpTo
<1> QED
  BY <1>1, <1>2, <1>6 DEF S

-----------------------------------------------------------------------------
(* One payment. *)

\* Totals are natural numbers.
LEMMA TotalsNat ==
    ASSUME NEW legs \in Legs
    PROVE  TotalWorker(legs) \in Nat /\ \A a : AmountTo(legs, a) \in Nat
<1>1. ASSUME NEW list \in Legs
      PROVE  TotalWorker(list) \in Nat
  <2>1. Len(list) \in 0..Len(list)
    BY LegTypes
  <2> QED
    BY <2>1, PartialSumFacts
<1>2. ASSUME NEW a
      PROVE  AmountTo(legs, a) \in Nat
  <2>1. PartOf(legs, a) \in Legs /\ AmountTo(legs, a) = TotalWorker(PartOf(legs, a))
    BY PartFacts
  <2> QED
    BY <1>1, <2>1
<1> QED
  BY <1>1, <1>2

\* A list with one leg more.
LEMMA OneMoreLeg ==
    ASSUME NEW legs \in Legs, NEW more \in Legs, Len(more) = Len(legs) + 1,
           \A n \in 1..Len(legs) : more[n] = legs[n],
           NEW a
    PROVE  AmountTo(more, a)
           = AmountTo(legs, a)
             + (IF more[Len(more)].to = a THEN more[Len(more)].amount ELSE 0)
<1>1. PICK few, many : few = PartOf(legs, a) /\ many = PartOf(more, a)
  OBVIOUS
<1>2. /\ few \in Legs /\ many \in Legs
      /\ Len(few) = Len(legs) /\ Len(many) = Len(legs) + 1
      /\ AmountTo(legs, a) = TotalWorker(few)
      /\ AmountTo(more, a) = TotalWorker(many)
  BY <1>1, PartFacts
<1>3. \A n \in 1..Len(legs) :
         few[n].amount = IF legs[n].to = a THEN legs[n].amount ELSE 0
  BY <1>1, PartFacts
<1>4. \A n \in 1..Len(more) :
         many[n].amount = IF more[n].to = a THEN more[n].amount ELSE 0
  BY <1>1, PartFacts
<1>5. /\ Len(more) \in 1..Len(more)
      /\ \A n \in 1..Len(legs) : n \in 1..Len(more)
  BY LegTypes
<1>6. \A n \in 1..Len(few) : few[n].amount = many[n].amount
  BY <1>2, <1>3, <1>4, <1>5
<1>7. TotalWorker(many) = TotalWorker(few) + many[Len(many)].amount
  BY <1>2, <1>6, TotalOfOneMore
<1> QED
  BY <1>2, <1>4, <1>5, <1>7

\* The commission leg, when there is one, adds the commission to the total and
\* to what the treasury's account gets.
LEMMA WithCommission ==
    ASSUME NEW legs \in Legs, NEW fee_to \in Accounts, NEW commission \in Nat
    PROVE  /\ legs \o CommissionLeg(fee_to, commission) \in Legs
           /\ TotalWorker(legs \o CommissionLeg(fee_to, commission))
              = TotalWorker(legs) + commission
           /\ \A a : AmountTo(legs \o CommissionLeg(fee_to, commission), a)
                     = AmountTo(legs, a) + When(a = fee_to, commission)
<1> DEFINE Leg == [to : Accounts, amount : Nat]
           last == [to |-> fee_to, amount |-> commission]
<1>1. legs \in Seq(Leg) /\ last \in Leg
  BY DEF Legs
<1>2. TotalWorker(legs) \in Nat /\ \A a : AmountTo(legs, a) \in Nat
  BY TotalsNat
<1>3. PICK transfers : transfers = legs \o CommissionLeg(fee_to, commission)
  OBVIOUS
<1>4. CASE commission = 0
  <2>1. transfers = legs
    <3> HIDE DEF Leg
    <3> QED
      BY <1>1, <1>3, <1>4, ConcatEmptySeq DEF CommissionLeg
  <2>2. TotalWorker(transfers) = TotalWorker(legs) + commission
    BY <1>2, <1>4, <2>1
  <2>3. \A a : AmountTo(transfers, a) = AmountTo(legs, a) + When(a = fee_to, commission)
    <3>1. ASSUME NEW a
          PROVE  AmountTo(transfers, a) = AmountTo(legs, a) + When(a = fee_to, commission)
      BY <1>2, <1>4, <2>1 DEF When
    <3> QED
      BY <3>1
  <2> QED
    BY <1>3, <2>1, <2>2, <2>3
<1>5. CASE commission # 0
  <2>1. transfers = legs \o <<last>>
    BY <1>3, <1>5 DEF CommissionLeg
  <2>2. /\ transfers \in Seq(Leg) /\ Len(transfers) = Len(legs) + 1
        /\ \A n \in 1..Len(legs) : transfers[n] = legs[n]
        /\ transfers[Len(transfers)] = last
    <3> HIDE DEF Leg, last
    <3>1. <<last>> \in Seq(Leg) /\ Len(<<last>>) = 1 /\ <<last>>[1] = last
      BY <1>1
    <3>2. Len(legs) \in Nat
      BY LegTypes
    <3>3. /\ transfers \in Seq(Leg) /\ Len(transfers) = Len(legs) + 1
          /\ \A n \in 1..(Len(legs) + 1) :
                transfers[n] = IF n <= Len(legs) THEN legs[n] ELSE <<last>>[n - Len(legs)]
      BY <1>1, <2>1, <3>1, ConcatProperties
    <3> QED
      BY <3>1, <3>2, <3>3
  <2>3. transfers \in Legs
    BY <2>2 DEF Legs
  <2>4. TotalWorker(transfers) = TotalWorker(legs) + commission
    <3>1. TotalWorker(transfers) = TotalWorker(legs) + transfers[Len(transfers)].amount
      BY <2>2, <2>3, TotalOfOneMore
    <3> QED
      BY <2>2, <3>1
  <2>5. \A a : AmountTo(transfers, a) = AmountTo(legs, a) + When(a = fee_to, commission)
    <3>1. ASSUME NEW a
          PROVE  AmountTo(transfers, a)
                 = AmountTo(legs, a) + (IF last.to = a THEN last.amount ELSE 0)
      <4> HIDE DEF last
      <4> QED
        BY <2>2, <2>3, OneMoreLeg
    <3> QED
      BY <3>1 DEF When
  <2> QED
    BY <1>3, <2>3, <2>4, <2>5
<1> QED
  BY <1>4, <1>5

\* What each of the four instructions is: a payment allowed by Config, between
\* accounts of the asset, in which nobody but the recipients of a token batch
\* can be the payer.
Payment(event, payer, asset, from, legs, fee_to, rate) ==
    /\ event \in Events /\ asset \in Assets /\ rate \in Nat
    /\ payer \in Wallets /\ legs \in Legs
    /\ from \in AccountsOf(payer, asset)
    /\ fee_to \in AccountsOf(config.fee_recipient, asset)
    /\ PaymentAllowed(asset, rate)
    /\ event = "DirectPaymentMade" \/ asset = SOL =>
          \A n \in 1..Len(legs) : Owner(legs[n].to) # payer
    /\ Pay(event, payer, asset, from, legs, fee_to, rate)

\* A wallet is an account of its own, a token account one of its owner.
LEMMA AccountsOfOwner ==
    ASSUME NEW w \in Wallets, NEW asset, NEW a \in AccountsOf(w, asset)
    PROVE  a \in Accounts /\ Owner(a) = w
<1>1. CASE asset = SOL
  BY <1>1 DEF AccountsOf, Owner, Accounts
<1>2. CASE asset # SOL
  <2>1. a \in TokenAccounts /\ AccountOwner[a] = w
    BY <1>2 DEF AccountsOf, IsTokenAccount
  <2> QED
    BY <2>1, DirectPayAssumption DEF Owner, Accounts
<1> QED
  BY <1>1, <1>2

\* The list of the two instructions with a single recipient.
LEMMA OneLeg ==
    ASSUME NEW to \in Accounts, NEW amount \in Nat
    PROVE  /\ <<[to |-> to, amount |-> amount]>> \in Legs
           /\ \A n \in 1..Len(<<[to |-> to, amount |-> amount]>>) :
                 <<[to |-> to, amount |-> amount]>>[n].to = to
BY DEF Legs

\* Whoever Config names as treasury is a wallet.
LEMMA FeeRecipientIsWallet ==
    ASSUME ConfigTypeOK, ConfigExists
    PROVE  config.fee_recipient \in Wallets /\ config.fee_recipient \in Treasuries
BY DEF ConfigTypeOK, ConfigRecord, Wallets

\* Either SOL instruction is a payment out of the payer's wallet.
LEMMA SolIsPayment ==
    ASSUME ConfigTypeOK, PayInSol
    PROVE  \E event, payer, asset, from, legs, fee_to, rate :
               Payment(event, payer, asset, from, legs, fee_to, rate)
<1>1. PICK payer \in Wallets, rate \in Rates :
        \/ \E recipient \in Wallets, amount \in PayAmounts :
              PayWithCommissionSol(payer, recipient, amount, rate)
        \/ \E legs \in Batches : BatchPayWithCommissionSol(payer, legs, rate)
  BY DEF PayInSol
<1>2. rate \in Nat /\ payer \in AccountsOf(payer, SOL) /\ SOL \in Assets
  BY ConfigAssumption DEF AccountsOf, Assets
<1>3. CASE \E recipient \in Wallets, amount \in PayAmounts :
              PayWithCommissionSol(payer, recipient, amount, rate)
  <2>1. PICK recipient \in Wallets, amount \in PayAmounts :
          PayWithCommissionSol(payer, recipient, amount, rate)
    BY <1>3
  <2>2. amount \in Nat /\ recipient \in Accounts
    BY DirectPayAssumption DEF Accounts
  <2>3. PICK legs : legs = <<[to |-> recipient, amount |-> amount]>>
    OBVIOUS
  <2>4. legs \in Legs /\ \A n \in 1..Len(legs) : legs[n].to = recipient
    BY <2>2, <2>3, OneLeg
  <2>5. /\ PaymentAllowed(SOL, rate) /\ recipient # payer
        /\ Pay("DirectPaymentMade", payer, SOL, payer, legs, config.fee_recipient, rate)
    BY <2>1, <2>3 DEF PayWithCommissionSol, PayOneAllowed
  <2>6. config.fee_recipient \in AccountsOf(config.fee_recipient, SOL)
    BY DEF AccountsOf
  <2>7. \A n \in 1..Len(legs) : Owner(legs[n].to) # payer
    BY <2>4, <2>5 DEF Owner
  <2>8. Payment("DirectPaymentMade", payer, SOL, payer, legs, config.fee_recipient, rate)
    BY <1>2, <2>4, <2>5, <2>6, <2>7 DEF Payment, Events
  <2> QED
    BY <2>8
<1>4. CASE \E legs \in Batches : BatchPayWithCommissionSol(payer, legs, rate)
  <2>1. PICK legs \in Batches : BatchPayWithCommissionSol(payer, legs, rate)
    BY <1>4
  <2>2. /\ PaymentAllowed(SOL, rate) /\ legs \in Legs
        /\ \A n \in 1..Len(legs) : legs[n].to \in Wallets \ {payer}
        /\ Pay("BatchPaymentMade", payer, SOL, payer, legs, config.fee_recipient, rate)
    BY <2>1, DirectPayAssumption DEF BatchPayWithCommissionSol, BatchAllowed
  <2>3. config.fee_recipient \in AccountsOf(config.fee_recipient, SOL)
    BY DEF AccountsOf
  <2>4. \A n \in 1..Len(legs) : Owner(legs[n].to) # payer
    BY <2>2 DEF Owner
  <2>5. Payment("BatchPaymentMade", payer, SOL, payer, legs, config.fee_recipient, rate)
    BY <1>2, <2>2, <2>3, <2>4 DEF Payment, Events
  <2> QED
    BY <2>5
<1> QED
  BY <1>1, <1>3, <1>4

\* Either token instruction is a payment out of the payer's token account.
LEMMA TokensArePayment ==
    ASSUME ConfigTypeOK, PayInTokens
    PROVE  \E event, payer, asset, from, legs, fee_to, rate :
               Payment(event, payer, asset, from, legs, fee_to, rate)
<1>1. PICK from \in TokenAccounts, fee_to \in TokenAccounts, rate \in Rates :
        \/ \E to \in TokenAccounts, fee_recipient \in Wallets, amount \in PayAmounts :
              PayWithCommissionToken(from, to, fee_recipient, fee_to, amount, rate)
        \/ \E legs \in Batches :
              BatchPayWithCommissionToken(from, legs, fee_to, rate)
  BY DEF PayInTokens
<1>2. PICK mint, payer : mint = AccountMint[from] /\ payer = AccountOwner[from]
  OBVIOUS
<1>3. /\ rate \in Nat /\ mint \in Mints /\ mint # SOL /\ mint \in Assets
      /\ payer \in Wallets /\ from \in AccountsOf(payer, mint)
  BY <1>2, ConfigAssumption, DirectPayAssumption DEF AccountsOf, IsTokenAccount, Assets
<1>4. CASE \E to \in TokenAccounts, fee_recipient \in Wallets, amount \in PayAmounts :
              PayWithCommissionToken(from, to, fee_recipient, fee_to, amount, rate)
  <2>1. PICK to \in TokenAccounts, fee_recipient \in Wallets, amount \in PayAmounts :
          PayWithCommissionToken(from, to, fee_recipient, fee_to, amount, rate)
    BY <1>4
  <2>2. amount \in Nat /\ to \in Accounts /\ to \notin Wallets
    BY DirectPayAssumption DEF Accounts
  <2>3. PICK legs : legs = <<[to |-> to, amount |-> amount]>>
    OBVIOUS
  <2>4. legs \in Legs /\ \A n \in 1..Len(legs) : legs[n].to = to
    BY <2>2, <2>3, OneLeg
  <2>5. /\ PaymentAllowed(mint, rate) /\ AccountOwner[to] # payer
        /\ IsTokenAccount(fee_to, mint, config.fee_recipient)
        /\ Pay("DirectPaymentMade", payer, mint, from, legs, fee_to, rate)
    BY <1>2, <2>1, <2>3 DEF PayWithCommissionToken, PayOneAllowed
  <2>6. fee_to \in AccountsOf(config.fee_recipient, mint)
    BY <1>3, <2>5 DEF AccountsOf
  <2>7. \A n \in 1..Len(legs) : Owner(legs[n].to) # payer
    BY <2>2, <2>4, <2>5 DEF Owner
  <2>8. Payment("DirectPaymentMade", payer, mint, from, legs, fee_to, rate)
    BY <1>3, <2>4, <2>5, <2>6, <2>7 DEF Payment, Events
  <2> QED
    BY <2>8
<1>5. CASE \E legs \in Batches : BatchPayWithCommissionToken(from, legs, fee_to, rate)
  <2>1. PICK legs \in Batches : BatchPayWithCommissionToken(from, legs, fee_to, rate)
    BY <1>5
  <2>2. /\ PaymentAllowed(mint, rate) /\ legs \in Legs
        /\ IsTokenAccount(fee_to, mint, config.fee_recipient)
        /\ Pay("BatchPaymentMade", payer, mint, from, legs, fee_to, rate)
    BY <1>2, <2>1, DirectPayAssumption DEF BatchPayWithCommissionToken, BatchAllowed
  <2>3. fee_to \in AccountsOf(config.fee_recipient, mint)
    BY <1>3, <2>2 DEF AccountsOf
  <2>4. Payment("BatchPaymentMade", payer, mint, from, legs, fee_to, rate)
    BY <1>3, <2>2, <2>3 DEF Payment, Events
  <2> QED
    BY <2>4
<1> QED
  BY <1>1, <1>4, <1>5

\* The event of a payment says what happened to every account.
LEMMA PaymentEffect ==
    ASSUME DirectPayTypeOK,
           NEW event, NEW payer, NEW asset, NEW from, NEW legs, NEW fee_to, NEW rate,
           Payment(event, payer, asset, from, legs, fee_to, rate)
    PROVE  /\ config' = config
           /\ balance' \in [Accounts -> Nat]
           /\ from \in Accounts /\ fee_to \in Accounts
           /\ TotalWorker(legs) \in Nat /\ CommissionOn(legs, rate) \in Nat
           /\ config.fee_recipient \in Wallets /\ config.fee_recipient \in Treasuries
           /\ \A a \in Accounts :
                 balance'[a]
                   + When(a = from, TotalWorker(legs) + CommissionOn(legs, rate))
                 = balance[a] + AmountTo(legs, a)
                   + When(a = fee_to, CommissionOn(legs, rate))
<1>1. /\ legs \in Legs /\ rate \in Nat /\ payer \in Wallets
      /\ PaymentAllowed(asset, rate)
      /\ from \in AccountsOf(payer, asset)
      /\ fee_to \in AccountsOf(config.fee_recipient, asset)
      /\ Pay(event, payer, asset, from, legs, fee_to, rate)
  BY DEF Payment
<1>2. config.fee_recipient \in Wallets /\ config.fee_recipient \in Treasuries
  BY <1>1, FeeRecipientIsWallet DEF PaymentAllowed, DirectPayTypeOK
<1>3. from \in Accounts /\ fee_to \in Accounts
  BY <1>1, <1>2, AccountsOfOwner
<1>4. PICK total, commission :
        total = TotalWorker(legs) /\ commission = CommissionOn(legs, rate)
  OBVIOUS
<1>5. total \in Nat /\ commission \in Nat
  BY <1>1, <1>4, TotalsNat, CommissionNat DEF CommissionOn
<1>6. PICK transfers : transfers = legs \o CommissionLeg(fee_to, commission)
  OBVIOUS
<1>7. /\ transfers \in Legs
      /\ TotalWorker(transfers) = total + commission
      /\ \A a : AmountTo(transfers, a) = AmountTo(legs, a) + When(a = fee_to, commission)
  BY <1>1, <1>3, <1>4, <1>5, <1>6, WithCommission
<1>8. /\ config' = config
      /\ Funded(balance, from, transfers)
      /\ balance' = After(balance, from, transfers)[Len(transfers)]
  BY <1>1, <1>4, <1>6 DEF Pay
<1>9. balance \in [Accounts -> Nat]
  BY DEF DirectPayTypeOK
<1>10. balance' \in [Accounts -> Nat]
  BY <1>3, <1>7, <1>8, <1>9, FundedRun
<1>11. ASSUME NEW a \in Accounts
       PROVE  balance'[a] + When(a = from, total + commission)
              = balance[a] + AmountTo(legs, a) + When(a = fee_to, commission)
  <2>1. After(balance, from, transfers)[Len(transfers)][a]
          + When(a = from, TotalWorker(transfers))
        = balance[a] + AmountTo(transfers, a)
    <3>1. balance \in [Accounts -> Int]
      BY <1>9
    <3> QED
      BY <1>3, <1>7, <3>1, RunEffect
  <2>2. AmountTo(transfers, a) = AmountTo(legs, a) + When(a = fee_to, commission)
    BY <1>7
  <2>3. balance'[a] + When(a = from, total + commission)
        = balance[a] + (AmountTo(legs, a) + When(a = fee_to, commission))
    BY <1>7, <1>8, <2>1, <2>2
  <2>4. /\ balance[a] \in Nat /\ AmountTo(legs, a) \in Nat
        /\ When(a = fee_to, commission) \in Nat
    BY <1>1, <1>5, <1>9, TotalsNat DEF When
  <2> QED
    BY <2>3, <2>4
<1> QED
  BY <1>2, <1>3, <1>4, <1>5, <1>8, <1>10, <1>11

\* The event of a payment is well-formed.
LEMMA PaymentReceipt ==
    ASSUME DirectPayTypeOK,
           NEW event, NEW payer, NEW asset, NEW from, NEW legs, NEW fee_to, NEW rate,
           Payment(event, payer, asset, from, legs, fee_to, rate)
    PROVE  /\ receipt' \in Receipt /\ receipt' # NoReceipt
           /\ receipt'.event = event /\ receipt'.payer = payer
           /\ receipt'.fee_recipient = config.fee_recipient
           /\ receipt'.worker_amount = TotalWorker(legs)
           /\ receipt'.commission_amount = CommissionOn(legs, rate)
           /\ receipt'.commission_bps = rate
           /\ receipt'.from = from /\ receipt'.legs = legs /\ receipt'.fee_to = fee_to
           /\ AssetOf(receipt') = asset
<1>1. receipt' = [ event |-> event, payer |-> payer,
                   fee_recipient |-> config.fee_recipient,
                   worker_amount |-> TotalWorker(legs),
                   commission_amount |-> CommissionOn(legs, rate),
                   commission_bps |-> rate,
                   token_mint |-> IF asset = SOL THEN Nobody ELSE asset,
                   from |-> from, legs |-> legs, fee_to |-> fee_to ]
  BY DEF Payment, Pay
<1>2. /\ event \in Events /\ payer \in Wallets /\ rate \in Nat /\ legs \in Legs
      /\ asset \in Mints \cup {SOL}
  BY DEF Payment, Assets
<1>3. PICK token_mint : token_mint = IF asset = SOL THEN Nobody ELSE asset
  OBVIOUS
<1>4. token_mint \in Mints \cup {Nobody}
  BY <1>2, <1>3
<1>5. PICK total, commission, fee_recipient :
        /\ total = TotalWorker(legs) /\ commission = CommissionOn(legs, rate)
        /\ fee_recipient = config.fee_recipient
  OBVIOUS
<1>6. /\ total \in Nat /\ commission \in Nat /\ fee_recipient \in Treasuries
      /\ from \in Accounts /\ fee_to \in Accounts
  BY <1>5, PaymentEffect
<1>7. receipt' = [ event |-> event, payer |-> payer, fee_recipient |-> fee_recipient,
                   worker_amount |-> total, commission_amount |-> commission,
                   commission_bps |-> rate, token_mint |-> token_mint,
                   from |-> from, legs |-> legs, fee_to |-> fee_to ]
  BY <1>1, <1>3, <1>5
<1>8. receipt' \in Receipt
  BY <1>2, <1>4, <1>6, <1>7, Zenon DEF Receipt
<1>9. receipt' # NoReceipt
  <2>1. receipt'.event \in Events
    BY <1>2, <1>7
  <2> QED
    BY <2>1 DEF NoReceipt, Events
<1>10. AssetOf(receipt') = asset
  BY <1>2, <1>3, <1>7, DirectPayAssumption DEF AssetOf
<1> QED
  BY <1>5, <1>7, <1>8, <1>9, <1>10

-----------------------------------------------------------------------------
(* The inductive invariant and what follows from it. *)

DPInv == DirectPayTypeOK /\ CommissionWithinOneUnit

\* Rounding down is off by less than one unit.
LEMMA RoundedDown ==
    ASSUME NEW amount \in Nat, NEW rate \in Nat
    PROVE  /\ CalculateCommission(amount, rate) * BpsDenominator <= amount * rate
           /\ amount * rate < (CalculateCommission(amount, rate) + 1) * BpsDenominator
<1>1. PICK share : share = amount * rate
  OBVIOUS
<1>2. share \in Nat
  BY <1>1
<1>3. (share \div 10000) * 10000 <= share /\ share < (share \div 10000 + 1) * 10000
  BY <1>2
<1> QED
  BY <1>1, <1>3 DEF CalculateCommission, BpsDenominator

\* DPInv holds after every step that starts with it.
LEMMA DPInvInductive ==
    ASSUME DPInv, [DirectPayNext]_directPayVars
    PROVE  DPInv'
<1>1. CASE PayInSol \/ PayInTokens
  <2>1. PICK event, payer, asset, from, legs, fee_to, rate :
          Payment(event, payer, asset, from, legs, fee_to, rate)
    BY <1>1, SolIsPayment, TokensArePayment DEF DPInv, DirectPayTypeOK
  <2>2. ConfigTypeOK'
    BY <2>1, PaymentEffect DEF DPInv, DirectPayTypeOK, ConfigTypeOK, ConfigExists
  <2>3. DirectPayTypeOK'
    BY <2>1, <2>2, PaymentEffect, PaymentReceipt DEF DPInv, DirectPayTypeOK
  <2>4. /\ receipt'.worker_amount = TotalWorker(legs)
        /\ receipt'.commission_amount = CalculateCommission(TotalWorker(legs), rate)
        /\ receipt'.commission_bps = rate
        /\ TotalWorker(legs) \in Nat /\ rate \in Nat
    BY <2>1, PaymentEffect, PaymentReceipt DEF DPInv, CommissionOn, Payment
  <2>5. CommissionWithinOneUnit'
    BY <2>4, RoundedDown DEF CommissionWithinOneUnit
  <2> QED
    BY <2>3, <2>5 DEF DPInv
<1>2. CASE ConfigNext /\ receipt' = NoReceipt /\ UNCHANGED balance
  <2>1. ConfigTypeOK'
    BY <1>2, ConfigNextTypeOK DEF DPInv, DirectPayTypeOK
  <2> QED
    BY <1>2, <2>1 DEF DPInv, DirectPayTypeOK, CommissionWithinOneUnit
<1>3. CASE UNCHANGED directPayVars
  BY <1>3 DEF directPayVars, DPInv, DirectPayTypeOK, CommissionWithinOneUnit,
              ConfigTypeOK, ConfigExists
<1> QED
  BY <1>1, <1>2, <1>3 DEF DirectPayNext

\* DPInv always holds.
LEMMA DPInvariance == DirectPaySpec => []DPInv
<1>1. DirectPayInit => DPInv
  BY NoConfigTypeOK, DirectPayAssumption
  DEF DirectPayInit, ConfigInit, DPInv, DirectPayTypeOK, CommissionWithinOneUnit
<1> QED
  BY <1>1, DPInvInductive, PTL DEF DirectPaySpec

\* No payment, whatever its legs, overdraws an account.
THEOREM BalancesStayNatural == DirectPaySpec => []DirectPayTypeOK
<1>1. DPInv => DirectPayTypeOK
  BY DEF DPInv
<1> QED
  BY <1>1, DPInvariance, PTL

\* Every announced commission is the rate's share of the announced total to
\* within one unit, however many recipients share it.
THEOREM CommissionExactOnTotal == DirectPaySpec => []CommissionWithinOneUnit
<1>1. DPInv => CommissionWithinOneUnit
  BY DEF DPInv
<1> QED
  BY <1>1, DPInvariance, PTL

\* Direct pay leaves the Config account to its own instructions, so what holds
\* of ConfigSpec holds next to payments as well.
THEOREM PaymentsKeepConfig == DirectPaySpec => ConfigSpec
<1>1. DirectPayInit => ConfigInit
  BY DEF DirectPayInit
<1>2. DPInv /\ [DirectPayNext]_directPayVars => [ConfigNext]_config
  <2> SUFFICES ASSUME DPInv, [DirectPayNext]_directPayVars
               PROVE  [ConfigNext]_config
    OBVIOUS
  <2>1. CASE PayInSol \/ PayInTokens
    <3>1. PICK event, payer, asset, from, legs, fee_to, rate :
            Payment(event, payer, asset, from, legs, fee_to, rate)
      BY <2>1, SolIsPayment, TokensArePayment DEF DPInv, DirectPayTypeOK
    <3> QED
      BY <3>1, PaymentEffect DEF DPInv
  <2> QED
    BY <2>1 DEF DirectPayNext, directPayVars
<1> QED
  BY <1>1, <1>2, DPInvariance, PTL DEF DirectPaySpec, ConfigSpec

-----------------------------------------------------------------------------
(* What payments announce. *)

\* One transaction: silence means nothing moved, an event says what did.
Announced ==
    IF receipt' = NoReceipt THEN balance' = balance
    ELSE LET r == receipt' IN
         /\ ~config.paused /\ IsMintAllowed(AssetOf(r))
         /\ r.fee_recipient = config.fee_recipient
         /\ Owner(r.fee_to) = r.fee_recipient
         /\ Owner(r.from) = r.payer
         /\ \A a \in Accounts :
               balance'[a] + When(a = r.from, r.worker_amount + r.commission_amount)
               = balance[a] + AmountTo(r.legs, a)
                            + When(a = r.fee_to, r.commission_amount)

\* The step of a payment moves what its event says.
LEMMA PaymentAnnounced ==
    ASSUME DirectPayTypeOK,
           NEW event, NEW payer, NEW asset, NEW from, NEW legs, NEW fee_to, NEW rate,
           Payment(event, payer, asset, from, legs, fee_to, rate)
    PROVE  Announced
<1>1. PICK r : r = receipt'
  OBVIOUS
<1>2. /\ r # NoReceipt /\ r.payer = payer
      /\ r.fee_recipient = config.fee_recipient
      /\ r.worker_amount = TotalWorker(legs)
      /\ r.commission_amount = CommissionOn(legs, rate)
      /\ r.from = from /\ r.legs = legs /\ r.fee_to = fee_to
      /\ AssetOf(r) = asset
  BY <1>1, PaymentReceipt
<1>3. ~config.paused /\ IsMintAllowed(asset)
  BY DEF Payment, PaymentAllowed
<1>4. Owner(fee_to) = config.fee_recipient /\ Owner(from) = payer
  <2>1. config.fee_recipient \in Wallets
    BY PaymentEffect
  <2> QED
    BY <2>1, AccountsOfOwner DEF Payment
<1>5. \A a \in Accounts :
         balance'[a] + When(a = from, TotalWorker(legs) + CommissionOn(legs, rate))
         = balance[a] + AmountTo(legs, a) + When(a = fee_to, CommissionOn(legs, rate))
  BY PaymentEffect
<1>6. /\ ~config.paused /\ IsMintAllowed(AssetOf(r))
      /\ r.fee_recipient = config.fee_recipient
      /\ Owner(r.fee_to) = r.fee_recipient /\ Owner(r.from) = r.payer
      /\ \A a \in Accounts :
            balance'[a] + When(a = r.from, r.worker_amount + r.commission_amount)
            = balance[a] + AmountTo(r.legs, a)
                         + When(a = r.fee_to, r.commission_amount)
  BY <1>2, <1>3, <1>4, <1>5, Zenon
<1> QED
  BY <1>1, <1>2, <1>6, Zenon DEF Announced

\* Money moves only as announced: every account changes by exactly what the
\* event and its legs say, under the Config of that moment.
THEOREM MoneyMovesAsAnnounced == DirectPaySpec => PaidAsAnnounced
<1>1. DPInv /\ [DirectPayNext]_directPayVars => [Announced]_directPayVars
  <2> SUFFICES ASSUME DPInv, DirectPayNext
               PROVE  Announced
    OBVIOUS
  <2>1. CASE PayInSol \/ PayInTokens
    BY <2>1, SolIsPayment, TokensArePayment, PaymentAnnounced
    DEF DPInv, DirectPayTypeOK
  <2>2. CASE receipt' = NoReceipt /\ UNCHANGED balance
    BY <2>2 DEF Announced
  <2> QED
    BY <2>1, <2>2 DEF DirectPayNext
<1>2. DirectPaySpec => [][Announced]_directPayVars
  BY <1>1, DPInvariance, PTL DEF DirectPaySpec
<1> QED
  BY <1>2 DEF PaidAsAnnounced, Announced

-----------------------------------------------------------------------------
(* What the payer pays: a sum over all accounts of the payer. *)

\* A sum with one term that is not zero.
LEMMA SumOfOne ==
    ASSUME NEW S, IsFiniteSet(S), NEW x, NEW v \in Nat, NEW f,
           \A a \in S : f[a] = When(a = x, v)
    PROVE  SumFunctionOnSet(f, S) = When(x \in S, v)
<1>1. CASE x \notin S
  <2>1. \A a \in S : f[a] = 0
    BY <1>1 DEF When
  <2> QED
    BY <1>1, <2>1, SumOfZeros DEF When
<1>2. CASE x \in S
  <2>1. (\A a \in S : f[a] \in Nat) /\ (\A a \in S \ {x} : f[a] = 0) /\ f[x] = v
    BY <1>2 DEF When
  <2>2. SumFunctionOnSet(f, S \ {x}) = 0
    BY <2>1, SumOfZeros, FS_Subset
  <2>3. SumFunctionOnSet(f, S) = f[x] + SumFunctionOnSet(f, S \ {x})
    BY <1>2, <2>1, SumRemove
  <2> QED
    BY <1>2, <2>1, <2>2, <2>3 DEF When
<1> QED
  BY <1>1, <1>2

\* Legs that pay none of the payer's accounts.
LEMMA NothingTo ==
    ASSUME NEW legs \in Legs, NEW a, \A n \in 1..Len(legs) : legs[n].to # a
    PROVE  AmountTo(legs, a) = 0
<1>1. PICK part : part = PartOf(legs, a)
  OBVIOUS
<1>2. /\ part \in Legs /\ Len(part) = Len(legs)
      /\ AmountTo(legs, a) = TotalWorker(part)
  BY <1>1, PartFacts
<1>3. \A n \in 1..Len(legs) :
         part[n].amount = IF legs[n].to = a THEN legs[n].amount ELSE 0
  BY <1>1, PartFacts
<1>4. \A n \in 1..Len(part) : part[n].amount = 0
  BY <1>2, <1>3
<1> QED
  BY <1>2, <1>4, TotalOfZeros

\* The step of a payment takes the announced amount from the payer.
LEMMA PayerPays ==
    ASSUME DirectPayTypeOK,
           NEW event, NEW payer, NEW asset, NEW from, NEW legs, NEW fee_to, NEW rate,
           Payment(event, payer, asset, from, legs, fee_to, rate),
           event = "DirectPaymentMade" \/ asset = SOL
    PROVE  Holdings(balance', payer, asset) + TotalWorker(legs)
             + When(config.fee_recipient # payer, CommissionOn(legs, rate))
           = Holdings(balance, payer, asset)
<1>1. PICK S, total, commission :
        /\ S = AccountsOf(payer, asset)
        /\ total = TotalWorker(legs) /\ commission = CommissionOn(legs, rate)
  OBVIOUS
<1>2. PICK before, after : before = balance /\ after = balance'
  OBVIOUS
<1>3. /\ payer \in Wallets /\ legs \in Legs /\ from \in S
      /\ fee_to \in AccountsOf(config.fee_recipient, asset)
      /\ \A n \in 1..Len(legs) : Owner(legs[n].to) # payer
  BY <1>1 DEF Payment
<1>4. /\ before \in [Accounts -> Nat] /\ after \in [Accounts -> Nat]
      /\ total \in Nat /\ commission \in Nat /\ config.fee_recipient \in Wallets
      /\ \A a \in Accounts : after[a] + When(a = from, total + commission)
                             = before[a] + AmountTo(legs, a) + When(a = fee_to, commission)
  BY <1>1, <1>2, PaymentEffect DEF DirectPayTypeOK
<1>5. \A a \in S : a \in Accounts /\ Owner(a) = payer
  BY <1>1, <1>3, AccountsOfOwner
<1>6. IsFiniteSet(S)
  <2>1. IsFiniteSet({payer})
    BY FS_Singleton
  <2>2. IsFiniteSet({a \in TokenAccounts : IsTokenAccount(a, asset, payer)})
    BY DirectPayAssumption, FS_Subset
  <2> QED
    BY <1>1, <2>1, <2>2 DEF AccountsOf
<1>7. ASSUME NEW a \in S
      PROVE  after[a] + When(a = from, total + commission)
             = before[a] + When(a = fee_to, commission)
  <2>1. a \in Accounts /\ \A n \in 1..Len(legs) : legs[n].to # a
    BY <1>3, <1>5, <1>7
  <2>2. AmountTo(legs, a) = 0
    BY <1>3, <2>1, NothingTo
  <2>3. after[a] + When(a = from, total + commission)
        = before[a] + AmountTo(legs, a) + When(a = fee_to, commission)
    BY <1>4, <2>1
  <2> QED
    BY <1>4, <2>1, <2>2, <2>3
<1> DEFINE paid == [a \in S |-> When(a = from, total + commission)]
           back == [a \in S |-> When(a = fee_to, commission)]
           both == [a \in S |-> before[a] + back[a]]
<1>8. /\ SumFunctionOnSet(paid, S) = total + commission
      /\ SumFunctionOnSet(back, S) = When(fee_to \in S, commission)
  <2>1. total + commission \in Nat
    BY <1>4
  <2>2. \A a \in S : paid[a] = When(a = from, total + commission)
    OBVIOUS
  <2>3. \A a \in S : back[a] = When(a = fee_to, commission)
    OBVIOUS
  <2>4. SumFunctionOnSet(paid, S) = When(from \in S, total + commission)
    BY <1>6, <2>1, <2>2, SumOfOne
  <2>5. SumFunctionOnSet(back, S) = When(fee_to \in S, commission)
    BY <1>4, <1>6, <2>3, SumOfOne
  <2> QED
    BY <1>3, <2>4, <2>5 DEF When
<1>9. /\ SumFunctionOnSet(both, S)
             = SumFunctionOnSet(before, S) + SumFunctionOnSet(back, S)
      /\ SumFunctionOnSet(both, S)
             = SumFunctionOnSet(after, S) + SumFunctionOnSet(paid, S)
  <2>1. \A a \in S : /\ before[a] \in Nat /\ back[a] \in Nat
                     /\ both[a] = before[a] + back[a]
    BY <1>4, <1>5 DEF When
  <2>2. \A a \in S : /\ after[a] \in Nat /\ paid[a] \in Nat
                     /\ both[a] = after[a] + paid[a]
    <3>1. \A a \in S : after[a] \in Nat /\ paid[a] \in Nat
      BY <1>4, <1>5 DEF When
    <3>2. \A a \in S : both[a] = after[a] + paid[a]
      BY <1>7
    <3> QED
      BY <3>1, <3>2
  <2> HIDE DEF paid, back, both
  <2> QED
    BY <1>6, <2>1, <2>2, SumPlus
<1>10. fee_to \in S <=> config.fee_recipient = payer
  BY <1>1, <1>3, <1>4, <1>5, AccountsOfOwner
<1>11. SumFunctionOnSet(before, S) \in Nat /\ SumFunctionOnSet(after, S) \in Nat
  <2>1. \A a \in S : before[a] \in Nat /\ after[a] \in Nat
    BY <1>4, <1>5
  <2> QED
    BY <1>6, <2>1, SumNat
<1> HIDE DEF paid, back, both
<1>12. SumFunctionOnSet(after, S) + total + When(config.fee_recipient # payer, commission)
       = SumFunctionOnSet(before, S)
  BY <1>4, <1>8, <1>9, <1>10, <1>11 DEF When
<1> QED
  BY <1>1, <1>2, <1>12 DEF Holdings

\* Of one transaction.
PayerPaid ==
    receipt' # NoReceipt =>
        LET r == receipt'
            before == Holdings(balance, r.payer, AssetOf(r))
            after == Holdings(balance', r.payer, AssetOf(r))
        IN  r.event = "DirectPaymentMade" \/ AssetOf(r) = SOL =>
                after + r.worker_amount
                      + When(r.fee_recipient # r.payer, r.commission_amount) = before

\* What is announced as paid has left the payer, except for a batch of tokens.
THEOREM PayersReallyPay == DirectPaySpec => PayerReallyPays
<1>1. DPInv /\ [DirectPayNext]_directPayVars => [PayerPaid]_directPayVars
  <2> SUFFICES ASSUME DPInv, DirectPayNext
               PROVE  PayerPaid
    OBVIOUS
  <2>1. CASE PayInSol \/ PayInTokens
    <3>1. PICK event, payer, asset, from, legs, fee_to, rate :
            Payment(event, payer, asset, from, legs, fee_to, rate)
      BY <2>1, SolIsPayment, TokensArePayment DEF DPInv, DirectPayTypeOK
    <3>2. PICK r : r = receipt'
      OBVIOUS
    <3>3. /\ r.event = event /\ r.payer = payer
          /\ r.fee_recipient = config.fee_recipient
          /\ r.worker_amount = TotalWorker(legs)
          /\ r.commission_amount = CommissionOn(legs, rate)
          /\ AssetOf(r) = asset
      BY <3>1, <3>2, PaymentReceipt DEF DPInv
    <3>4. event = "DirectPaymentMade" \/ asset = SOL =>
              Holdings(balance', payer, asset) + TotalWorker(legs)
                + When(config.fee_recipient # payer, CommissionOn(legs, rate))
              = Holdings(balance, payer, asset)
      BY <3>1, PayerPays DEF DPInv
    <3> QED
      BY <3>2, <3>3, <3>4, Zenon DEF PayerPaid
  <2>2. CASE receipt' = NoReceipt
    BY <2>2 DEF PayerPaid
  <2> QED
    BY <2>1, <2>2 DEF DirectPayNext
<1>2. DirectPaySpec => [][PayerPaid]_directPayVars
  BY <1>1, DPInvariance, PTL DEF DirectPaySpec
<1> QED
  BY <1>2 DEF PayerReallyPays, PayerPaid
=============================================================================
