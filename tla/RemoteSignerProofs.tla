------------------------- MODULE RemoteSignerProofs -------------------------
(***************************************************************************)
(* Proofs about RemoteSigner, for any funding, deadline and number of runs *)
(* and submissions.                                                        *)
(***************************************************************************)
EXTENDS RemoteSigner, WellFoundedInduction, NaturalsInduction, TLAPS

-----------------------------------------------------------------------------
(* Sums of amounts over 1 .. n, as the function that they obey.            *)

(* A set of numbers that is not empty has a smallest one. *)
LEMMA Smallest ==
    ASSUME NEW T, T \subseteq Nat, T # {}
    PROVE  \E x \in T : \A y \in T : x <= y
<1> DEFINE R == OpToRel(<, Nat)
<1>1. IsWellFoundedOn(R, Nat)
  BY NatLessThanWellFounded
<1> HIDE DEF R
<1>2. PICK x \in T : \A y \in T : ~(<<y, x>> \in R)
  BY <1>1, WFMin
<1>3. \A y, z \in Nat : y < z => <<y, z>> \in R
  BY DEF R, OpToRel
<1>4. ASSUME NEW y \in T PROVE x <= y
  <2>1. x \in Nat /\ y \in Nat
    OBVIOUS
  <2>2. ~(y < x)
    BY <1>2, <1>3, <2>1
  <2> QED
    BY <2>1, <2>2
<1> QED
  BY <1>4

(* Induction: a set that holds 0, and with n also n + 1, holds every number. *)
LEMMA Induction ==
    ASSUME NEW S, 0 \in S, \A n \in Nat : n \in S => n + 1 \in S
    PROVE  Nat \subseteq S
<1> SUFFICES ASSUME Nat \ S # {} PROVE FALSE
  OBVIOUS
<1>1. PICK x \in Nat \ S : \A y \in Nat \ S : x <= y
  BY Smallest
<1>2. x # 0 /\ x - 1 \in Nat
  BY <1>1
<1>3. x - 1 \in S
  BY <1>1, <1>2
<1>4. x - 1 + 1 = x
  BY <1>2
<1> QED
  BY <1>1, <1>2, <1>3, <1>4

(* w[i] is what the first i of n amounts come to. *)
IsTotal(w, amounts, n) ==
  /\ w \in [0 .. n -> Nat] /\ w[0] = 0
  /\ \A i \in 1 .. n : w[i] = w[i - 1] + amounts[i]

(* An amount is never more than the total from its place on. *)
LEMMA AmountWithinTotal ==
    ASSUME NEW n \in Nat, NEW amounts \in [1 .. n -> Nat], NEW w, IsTotal(w, amounts, n),
           NEW a \in 1 .. n
    PROVE  \A i \in a .. n : amounts[a] <= w[i]
<1> DEFINE S == {k \in Nat : a + k <= n => amounts[a] <= w[a + k]}
<1>1. 0 \in S
  BY DEF IsTotal
<1>2. ASSUME NEW k \in S PROVE k + 1 \in S
  <2> SUFFICES ASSUME a + (k + 1) <= n PROVE amounts[a] <= w[a + (k + 1)]
    OBVIOUS
  <2>1. w[a + (k + 1)] = w[a + k] + amounts[a + (k + 1)]
    <3>1. a + (k + 1) \in 1 .. n /\ a + (k + 1) - 1 = a + k
      OBVIOUS
    <3> QED
      BY <3>1 DEF IsTotal
  <2>2. w[a + k] \in Nat /\ amounts[a + (k + 1)] \in Nat /\ amounts[a] <= w[a + k] /\ amounts[a] \in Nat
    <3>1. a + k \in 0 .. n /\ a + (k + 1) \in 1 .. n
      OBVIOUS
    <3>2. w[a + k] \in Nat
      BY <3>1 DEF IsTotal
    <3>3. amounts[a + (k + 1)] \in Nat /\ amounts[a] \in Nat
      BY <3>1
    <3> QED
      BY <3>1, <3>2, <3>3
  <2> QED
    BY SMTT(120), <2>1, <2>2
<1>3. Nat \subseteq S
  BY <1>1, <1>2, Induction
<1> QED
  <2> TAKE i \in a .. n
  <2>1. i - a \in S /\ a + (i - a) = i
    BY SMTT(120), <1>3
  <2> QED
    BY <2>1

(* When one amount changes, the total changes by as much. *)
LEMMA TotalMoves ==
    ASSUME NEW n \in Nat, NEW amounts \in [1 .. n -> Nat], NEW w, IsTotal(w, amounts, n),
           NEW changed \in [1 .. n -> Nat],
           NEW a \in 1 .. n, \A i \in 1 .. n : i # a => changed[i] = amounts[i]
    PROVE  \E v : IsTotal(v, changed, n) /\ v[n] = w[n] + changed[a] - amounts[a]
<1> DEFINE v == [i \in 0 .. n |-> IF i < a THEN w[i] ELSE w[i] - amounts[a] + changed[a]]
<1>1. \A i \in 0 .. n : w[i] \in Nat
  BY DEF IsTotal
<1>2. v \in [0 .. n -> Nat]
  <2> SUFFICES ASSUME NEW i \in 0 .. n PROVE v[i] \in Nat
    OBVIOUS
  <2>1. CASE i < a
    BY <1>1, <2>1
  <2>2. CASE ~(i < a)
    <3>1. amounts[a] <= w[i] /\ amounts[a] \in Nat /\ changed[a] \in Nat
      BY SMTT(120), <2>2, AmountWithinTotal
    <3> QED
      BY SMTT(120), <1>1, <2>2, <3>1
  <2> QED
    BY <2>1, <2>2
<1>3. ASSUME NEW i \in 1 .. n PROVE v[i] = v[i - 1] + changed[i]
  <2>1. /\ w[i] = w[i - 1] + amounts[i] /\ w[i - 1] \in Nat /\ amounts[i] \in Nat /\ amounts[a] \in Nat
        /\ i - 1 \in 0 .. n /\ changed[a] \in Nat /\ changed[i] \in Nat
    BY SMTT(120) DEF IsTotal
  <2>2. CASE i = a
    BY SMTT(120), <2>1, <2>2
  <2>3. CASE i # a
    <3>1. changed[i] = amounts[i] /\ (i < a <=> i - 1 < a)
      BY <2>3
    <3> QED
      BY SMTT(120), <2>1, <3>1
  <2> QED
    BY <2>2, <2>3
<1>4. v[0] = 0 /\ v[n] = w[n] + changed[a] - amounts[a]
  <2>1. w[n] \in Nat /\ amounts[a] \in Nat /\ w[0] = 0 /\ changed[a] \in Nat
    BY SMTT(120), <1>1 DEF IsTotal
  <2> QED
    BY SMTT(120), <2>1
<1>5. IsTotal(v, changed, n)
  <2> HIDE DEF v
  <2> QED
    BY <1>2, <1>3, <1>4 DEF IsTotal
<1> QED
  BY <1>4, <1>5

-----------------------------------------------------------------------------
(* The state of a run.                                                     *)

Kinds == {"create", "fund", "delete"}

Account == [balance : Nat, alive : BOOLEAN]

Transaction == [n : 1 .. txs, kind : Kinds, account : 1 .. txs, amount : 0 .. FUNDING]

(* The values the variables take. *)
Shape ==
  /\ pc \in {"idle", "balance", "submit", "poll", "run"}
  /\ doing \in Kinds /\ delta \in 0 .. FUNDING
  /\ txs \in Nat /\ left \in 0 .. POLLS /\ asked \in BOOLEAN /\ operator \in Nat /\ spent \in Nat
  /\ DOMAIN accounts \subseteq 1 .. txs /\ accounts \in [DOMAIN accounts -> Account]
  /\ receipt \in [1 .. txs -> {"pending", "success", "failed"}]
  /\ flight \subseteq Transaction
  /\ file \in DOMAIN accounts \cup {None} /\ signer \in DOMAIN accounts \cup {None}

(* What each place of a run relies on. *)
Placed ==
  /\ pc = "poll" => tx \in 1 .. txs
  /\ pc = "balance" => file # None
  /\ pc = "run" => signer = file /\ file # None
  /\ pc \in {"submit", "poll"} /\ doing = "fund" => file # None
  /\ pc \in {"submit", "poll"} /\ doing = "delete" => signer # None

(* A transaction in flight has a number of its own and no receipt yet; the *)
(* account it creates is its own and not there, any other account is.      *)
InFlight ==
  /\ \A b \in flight : receipt[b.n] = "pending"
  /\ \A b, c \in flight : b.n = c.n => b = c
  /\ \A b \in flight : IF b.kind = "create"
                       THEN b.account = b.n /\ b.amount = FUNDING /\ b.account \notin DOMAIN accounts
                       ELSE b.account \in DOMAIN accounts

(* The transaction that is polled for, as long as it is in flight, is the  *)
(* one that was submitted, and nobody else deletes what it creates.        *)
Awaited ==
  pc = "poll" => \A b \in flight :
    /\ b.n = tx => /\ b.kind = doing
                   /\ doing = "fund" => b.account = file /\ b.amount = delta
                   /\ doing = "delete" => b.account = signer
    /\ doing = "create" /\ b.kind = "delete" => b.account # tx

(* Until a run sweeps, the only deletions in flight are those it found     *)
(* there, and until its attempts begin nothing is spent.                   *)
Provisioning == pc = "balance" \/ (pc \in {"submit", "poll"} /\ doing # "delete")

Undisturbed ==
  /\ Provisioning \/ pc = "run" => \A b \in flight : b.kind = "delete" => b.account \in doomed
  /\ Provisioning => spent = 0

(* The account is there and holds n, or a sweep left over takes it away. *)
Holds(a, n) == (Alive(a) /\ accounts[a].balance >= n) \/ a \in doomed

(* A top-up fills what was lacking; a receipt that says SUCCESS means what *)
(* was asked for.                                                          *)
Receipts ==
  /\ pc \in {"submit", "poll"} /\ doing = "fund" => Holds(file, FUNDING - delta)
  /\ pc = "poll" /\ receipt[tx] = "success" =>
       CASE doing = "create" -> tx \in DOMAIN accounts /\ Holds(tx, FUNDING)
         [] doing = "fund"   -> Holds(file, FUNDING)
         [] doing = "delete" -> ~Alive(signer)

IInv == Shape /\ Placed /\ InFlight /\ Awaited /\ Undisturbed /\ Receipts /\ ReportsAreTrue

(* Accepting a transaction gives it a number of its own. *)
LEMMA AcceptedIsNew ==
    ASSUME IInv, pc = "submit", Accept
    PROVE  InFlight'
<1> USE FundsAreNatural DEF IInv, None, Kinds, Transaction
<1>1. /\ Body.n = txs + 1
      /\ IF Body.kind = "create"
         THEN Body.account = Body.n /\ Body.amount = FUNDING /\ Body.account \notin DOMAIN accounts
         ELSE Body.account \in DOMAIN accounts
  BY SMTT(120) DEF Shape, Placed, Body
<1>2. receipt'[txs + 1] = "pending" /\ \A n \in 1 .. txs : receipt'[n] = receipt[n]
  BY SMTT(120) DEF Shape, Accept
<1>3. flight' = flight \cup {Body} /\ accounts' = accounts /\ \A b \in flight : b.n \in 1 .. txs
  BY SMTT(120) DEF Shape, Accept
<1> QED
  BY SMTT(120), <1>1, <1>2, <1>3 DEF InFlight, Shape

(* What a transaction that reaches consensus does to the network. *)
LEMMA ConsensusEffect ==
    ASSUME IInv, NEW b \in flight, Consensus(b)
    PROVE  /\ flight' = flight \ {b} /\ operator' \in Nat
           /\ receipt' \in [1 .. txs -> {"pending", "success", "failed"}]
           /\ \A n \in 1 .. txs : n # b.n => receipt'[n] = receipt[n]
           /\ DOMAIN accounts \subseteq DOMAIN accounts' /\ DOMAIN accounts' \subseteq 1 .. txs
           /\ accounts' \in [DOMAIN accounts' -> Account]
           /\ \A a \in DOMAIN accounts : ~Alive(a) => ~Alive(a)'
           /\ \A a \in DOMAIN accounts : Alive(a) /\ ~(b.kind = "delete" /\ b.account = a) =>
                Alive(a)' /\ accounts'[a].balance >= accounts[a].balance
           /\ receipt'[b.n] = "success" =>
                CASE b.kind = "create" -> Alive(b.account)' /\ accounts'[b.account].balance = FUNDING
                  [] b.kind = "fund"   -> /\ Alive(b.account) /\ Alive(b.account)'
                                          /\ accounts'[b.account].balance = accounts[b.account].balance + b.amount
                  [] b.kind = "delete" -> ~Alive(b.account)'
<1> USE FundsAreNatural DEF IInv, Kinds, Account, Transaction, Alive
<1>1. /\ b.n \in 1 .. txs /\ b.account \in 1 .. txs /\ b.amount \in 0 .. FUNDING /\ b.kind \in Kinds
      /\ flight' = flight \ {b} /\ txs \in Nat /\ operator \in Nat
      /\ DOMAIN accounts \subseteq 1 .. txs /\ accounts \in [DOMAIN accounts -> Account]
  BY DEF Shape, Consensus
<1>2. /\ receipt' \in [1 .. txs -> {"pending", "success", "failed"}]
      /\ \A n \in 1 .. txs : n # b.n => receipt'[n] = receipt[n]
      /\ receipt'[b.n] = "success" => Applies(b)
  BY <1>1 DEF Shape, Consensus
<1>3. CASE ~Applies(b)
  <2>1. UNCHANGED <<accounts, operator>>
    BY <1>3 DEF Consensus
  <2>2. \A a \in DOMAIN accounts : accounts[a].balance \in Nat
    BY <1>1
  <2>3. receipt'[b.n] # "success"
    BY <1>2, <1>3
  <2>4. \A a \in DOMAIN accounts : accounts'[a].balance >= accounts[a].balance
    BY <2>1, <2>2
  <2> QED
    BY <1>1, <1>2, <2>1, <2>3, <2>4
<1>4. CASE Applies(b) /\ b.kind = "create"
  <2>1. b.account \notin DOMAIN accounts /\ b.amount = FUNDING
    BY <1>4 DEF InFlight
  <2>2. /\ accounts' = [a \in DOMAIN accounts \cup {b.account} |->
                          IF a = b.account THEN [balance |-> b.amount, alive |-> TRUE] ELSE accounts[a]]
        /\ operator' = operator - b.amount /\ operator >= b.amount
    BY <1>4 DEF Consensus, Applies
  <2> QED
    BY SMTT(120), <1>1, <1>2, <1>4, <2>1, <2>2
<1>5. CASE Applies(b) /\ b.kind = "fund"
  <2>1. /\ accounts' = [accounts EXCEPT ![b.account].balance = @ + b.amount] /\ b.account \in DOMAIN accounts
        /\ operator' = operator - b.amount /\ operator >= b.amount /\ accounts[b.account].alive
    BY <1>5 DEF Consensus, Applies
  <2>2. accounts[b.account] \in Account /\ accounts[b.account].balance + b.amount \in Nat
    BY <1>1, <2>1
  <2>3. /\ accounts' \in [DOMAIN accounts -> Account]
        /\ \A a \in DOMAIN accounts : a # b.account => accounts'[a] = accounts[a]
        /\ accounts'[b.account].balance = accounts[b.account].balance + b.amount
        /\ accounts'[b.account].alive
    BY <1>1, <2>1, <2>2
  <2> QED
    BY SMTT(120), <1>1, <1>2, <1>5, <2>1, <2>2, <2>3
<1>6. CASE Applies(b) /\ b.kind = "delete"
  <2>1. /\ accounts' = [accounts EXCEPT ![b.account] = [balance |-> 0, alive |-> FALSE]]
        /\ b.account \in DOMAIN accounts
        /\ operator' = operator + accounts[b.account].balance
    BY <1>6 DEF Consensus, Applies
  <2> QED
    BY SMTT(120), <1>1, <1>2, <1>6, <2>1
<1> QED
  BY <1>1, <1>3, <1>4, <1>5, <1>6 DEF Consensus

(* A receipt that arrives means what was asked for. *)
LEMMA ReceiptsAtConsensus ==
    ASSUME IInv, NEW b \in flight, Consensus(b)
    PROVE  Receipts'
<1>1. Shape /\ Placed /\ InFlight /\ Awaited /\ Undisturbed /\ Receipts
  BY DEF IInv
<1>2. /\ UNCHANGED <<pc, doing, delta, tx, txs, file, signer, doomed>>
      /\ file \in DOMAIN accounts \cup {None} /\ signer \in DOMAIN accounts \cup {None}
      /\ b.kind \in Kinds /\ b.amount \in Nat /\ delta \in 0 .. FUNDING /\ b.n \in 1 .. txs
  BY SMTT(120), <1>1 DEF Consensus, seen, Shape, Transaction
<1>3. \A a \in DOMAIN accounts, n \in Int :
        Holds(a, n) /\ (b.kind = "delete" /\ b.account = a => a \in doomed) => Holds(a, n)'
  <2> SUFFICES ASSUME NEW a \in DOMAIN accounts, NEW n \in Int, Holds(a, n), a \notin doomed,
                      ~(b.kind = "delete" /\ b.account = a)
               PROVE  Holds(a, n)'
    BY <1>2 DEF Holds
  <2>1. Alive(a) /\ accounts[a].balance >= n /\ accounts[a].balance \in Nat
    BY <1>1 DEF Holds, Shape, Account
  <2>2. Alive(a)' /\ accounts'[a].balance >= accounts[a].balance /\ accounts'[a].balance \in Nat
    BY <2>1, ConsensusEffect DEF Account
  <2> QED
    BY <2>1, <2>2 DEF Holds
<1>4. ASSUME pc \in {"submit", "poll"}, doing = "fund"
      PROVE  /\ file \in DOMAIN accounts /\ Holds(file, FUNDING - delta) /\ Holds(file, FUNDING - delta)'
             /\ b.kind = "delete" => b.account \in doomed
  BY <1>1, <1>2, <1>3, <1>4, FundsAreNatural DEF Placed, Receipts, Undisturbed, Provisioning
<1>5. ASSUME pc = "poll", receipt'[tx] = "success"
      PROVE  (CASE doing = "create" -> tx \in DOMAIN accounts /\ Holds(tx, FUNDING)
                [] doing = "fund"   -> Holds(file, FUNDING)
                [] doing = "delete" -> ~Alive(signer))'
  <2>1. CASE b.n # tx
    <3>1. receipt[tx] = "success"
      BY <1>1, <1>5, <2>1, ConsensusEffect DEF Placed
    <3>2. CASE doing = "create"
      <4>1. tx \in DOMAIN accounts /\ Holds(tx, FUNDING)
        BY <1>1, <1>5, <3>1, <3>2 DEF Receipts
      <4>2. ~(b.kind = "delete" /\ b.account = tx)
        BY <1>1, <1>5, <3>2 DEF Awaited
      <4>3. Holds(tx, FUNDING)'
        BY <1>2, <1>3, <4>1, <4>2, FundsAreNatural DEF Holds, Alive
      <4>4. tx \in DOMAIN accounts'
        BY <4>1, ConsensusEffect
      <4> QED
        BY <1>2, <3>2, <4>3, <4>4
    <3>3. CASE doing = "fund"
      BY <1>1, <1>2, <1>3, <1>4, <1>5, <3>1, <3>3, FundsAreNatural DEF Receipts
    <3>4. CASE doing = "delete"
      BY <1>1, <1>2, <1>5, <3>1, <3>4, ConsensusEffect DEF Receipts, Placed
    <3> QED
      BY <1>1, <3>2, <3>3, <3>4 DEF Shape, Kinds
  <2>2. CASE b.n = tx
    <3>1. CASE doing = "create"
      <4>1. b.kind = "create" /\ b.account = tx
        BY <1>1, <1>5, <2>2, <3>1 DEF Awaited, InFlight
      <4>2. Alive(tx)' /\ accounts'[tx].balance = FUNDING
        BY ZenonT(120), <1>2, <1>5, <2>2, <4>1, ConsensusEffect DEF Alive
      <4> QED
        BY <1>2, <3>1, <4>2, FundsAreNatural DEF Holds, Alive
    <3>2. CASE doing = "fund"
      <4>1. b.kind = "fund" /\ b.account = file /\ b.amount = delta
        BY <1>1, <1>5, <2>2, <3>2 DEF Awaited
      <4>2. Alive(file)' /\ accounts'[file].balance = accounts[file].balance + delta
        BY <1>2, <1>5, <2>2, <4>1, ConsensusEffect DEF Alive
      <4>3. file \in doomed \/ accounts[file].balance >= FUNDING - delta
        BY <1>4, <1>5, <3>2 DEF Holds
      <4>4. accounts[file].balance \in Nat
        BY <1>1, <1>4, <1>5, <3>2 DEF Shape, Account
      <4>5. Holds(file, FUNDING)'
        BY <1>2, <4>2, <4>3, <4>4, FundsAreNatural DEF Holds
      <4> QED
        BY <1>2, <3>2, <4>5
    <3>3. CASE doing = "delete"
      BY <1>1, <1>2, <1>5, <2>2, <3>3, ConsensusEffect DEF Awaited
    <3> QED
      BY <1>1, <3>1, <3>2, <3>3 DEF Shape, Kinds
  <2> QED
    BY <2>1, <2>2
<1> QED
  BY <1>2, <1>4, <1>5 DEF Receipts

(* What was reported stays true, or a sweep left over takes it away. *)
LEMMA ReportsAtConsensus ==
    ASSUME IInv, NEW b \in flight, Consensus(b)
    PROVE  ReportsAreTrue'
<1>1. Shape /\ Placed /\ Undisturbed /\ ReportsAreTrue
  BY DEF IInv
<1>2. UNCHANGED <<pc, file, signer, doomed, spent, swept>>
  BY DEF Consensus, seen
<1>3. ASSUME pc = "run", signer \notin doomed
      PROVE  Alive(signer)' /\ accounts'[signer].balance + spent >= FUNDING
  <2>1. Alive(signer) /\ accounts[signer].balance + spent >= FUNDING /\ signer \in DOMAIN accounts
    BY <1>1, <1>3 DEF ReportsAreTrue, Alive
  <2>2. ~(b.kind = "delete" /\ b.account = signer)
    BY <1>1, <1>3 DEF Undisturbed
  <2>3. Alive(signer)' /\ accounts'[signer].balance >= accounts[signer].balance
    BY <1>2, <2>1, <2>2, ConsensusEffect DEF Alive
  <2>4. accounts[signer].balance \in Nat /\ accounts'[signer].balance \in Nat /\ spent \in Nat
    BY <1>1, <2>1, ConsensusEffect DEF Shape, Account
  <2> QED
    BY <2>1, <2>3, <2>4, FundsAreNatural
<1>4. \A a \in swept : a \in DOMAIN accounts' /\ ~Alive(a)'
  BY <1>1, ConsensusEffect DEF ReportsAreTrue
<1> QED
  BY <1>1, <1>2, <1>3, <1>4 DEF ReportsAreTrue

(* Every step keeps the invariant. *)
LEMMA Inductive == IInv /\ [Next]_vars => IInv'
<1> SUFFICES ASSUME IInv, [Next]_vars PROVE IInv'
  OBVIOUS
<1> USE FundsAreNatural DEF IInv, None, Kinds, Account, Transaction, Alive, Holds, Provisioning
<1>1. CASE Start
  <2>1. Shape'
    BY <1>1 DEF Shape, Start, net
  <2>2. Placed'
    BY <1>1 DEF Placed, Start, net
  <2>3. InFlight'
    BY <1>1 DEF InFlight, Start, net
  <2>4. Awaited'
    BY <1>1 DEF Awaited, Start, net
  <2>5. Undisturbed'
    BY <1>1 DEF Undisturbed, Start, net
  <2>6. Receipts'
    BY <1>1 DEF Receipts, Start, net
  <2>7. ReportsAreTrue'
    BY <1>1 DEF ReportsAreTrue, Start, net
  <2> QED
    BY <2>1, <2>2, <2>3, <2>4, <2>5, <2>6, <2>7
<1>2. CASE BalanceAnswers
  <2>1. Shape'
    BY SMTT(120), <1>2 DEF Shape, BalanceAnswers, Ready, net
  <2>2. Placed'
    BY <1>2 DEF Placed, BalanceAnswers, Ready, net
  <2>3. InFlight'
    BY <1>2 DEF InFlight, BalanceAnswers, Ready, net
  <2>4. Awaited'
    BY <1>2 DEF Awaited, BalanceAnswers, Ready, net
  <2>5. Undisturbed'
    BY <1>2 DEF Undisturbed, BalanceAnswers, Ready, net
  <2>6. Receipts'
    <3>1. CASE Alive(file) /\ accounts[file].balance < FUNDING /\ delta' = FUNDING - accounts[file].balance
      <4>1. accounts[file].balance \in Nat
        BY <3>1 DEF Shape
      <4>2. FUNDING - delta' = accounts[file].balance
        BY <3>1, <4>1
      <4>3. pc' = "submit" /\ UNCHANGED <<accounts, file, doomed>>
        BY <1>2, <3>1, <4>1 DEF BalanceAnswers, Ready, net
      <4> QED
        BY <3>1, <4>1, <4>2, <4>3 DEF Receipts
    <3>2. CASE ~(pc' = "submit" /\ doing' = "fund")
      BY <1>2, <3>2 DEF Receipts, BalanceAnswers, Ready
    <3> QED
      BY <1>2, <3>1, <3>2 DEF BalanceAnswers, Ready
  <2>7. ReportsAreTrue'
    BY SMTT(120), <1>2 DEF ReportsAreTrue, Shape, BalanceAnswers, Ready, net
  <2> QED
    BY <2>1, <2>2, <2>3, <2>4, <2>5, <2>6, <2>7
<1>3. CASE BalanceFails
  <2>1. Shape'
    BY <1>3 DEF Shape, BalanceFails, net
  <2>2. Placed'
    BY <1>3 DEF Placed, BalanceFails, net
  <2>3. InFlight'
    BY <1>3 DEF InFlight, BalanceFails, net
  <2>4. Awaited'
    BY <1>3 DEF Awaited, BalanceFails, net
  <2>5. Undisturbed'
    BY <1>3 DEF Undisturbed, BalanceFails, net
  <2>6. Receipts'
    BY <1>3 DEF Receipts, BalanceFails, net
  <2>7. ReportsAreTrue'
    BY <1>3 DEF ReportsAreTrue, BalanceFails, net
  <2> QED
    BY <2>1, <2>2, <2>3, <2>4, <2>5, <2>6, <2>7
<1>4. CASE Submitted
  <2>1. Shape'
    BY SMTT(120), <1>4 DEF Shape, Placed, Submitted, Accept, Body, seen
  <2>2. Placed'
    BY <1>4 DEF Placed, Shape, Submitted, Accept, Body, seen
  <2>3. InFlight'
    BY <1>4, AcceptedIsNew DEF Submitted
  <2>4. Awaited'
    BY SMTT(120), <1>4 DEF Awaited, Shape, Submitted, Accept, Body, seen
  <2>5. Undisturbed'
    BY <1>4 DEF Undisturbed, Shape, Submitted, Accept, Body, seen
  <2>6. Receipts'
    <3>1. receipt'[tx'] = "pending"
      BY SMTT(120), <1>4 DEF Submitted, Accept, Shape
    <3>2. doing = "fund" => Holds(file, FUNDING - delta)
      BY <1>4 DEF Submitted, Receipts
    <3>3. UNCHANGED <<accounts, doing, delta, file, doomed>>
      BY <1>4 DEF Submitted, Accept, seen
    <3> QED
      BY <3>1, <3>2, <3>3 DEF Receipts
  <2>7. ReportsAreTrue'
    BY <1>4 DEF ReportsAreTrue, Submitted, Accept, Body, seen
  <2> QED
    BY <2>1, <2>2, <2>3, <2>4, <2>5, <2>6, <2>7
<1>5. CASE NotSubmitted
  <2>1. Shape'
    BY SMTT(120), <1>5 DEF Shape, Placed, NotSubmitted, Accept, Body, Fails, CleanUp, net, seen
  <2>2. Placed'
    BY <1>5 DEF Placed, NotSubmitted, Accept, Body, Fails, CleanUp, net, seen
  <2>3. InFlight'
    <3>1. CASE Accept
      BY <1>5, <3>1, AcceptedIsNew DEF NotSubmitted
    <3>2. CASE UNCHANGED <<net, txs>>
      BY <3>2 DEF InFlight, net
    <3> QED
      BY <1>5, <3>1, <3>2 DEF NotSubmitted
  <2>4. Awaited'
    BY <1>5 DEF Awaited, NotSubmitted, Accept, Body, Fails, CleanUp, net, seen
  <2>5. Undisturbed'
    BY <1>5 DEF Undisturbed, NotSubmitted, Accept, Body, Fails, CleanUp, net, seen
  <2>6. Receipts'
    BY <1>5 DEF Receipts, NotSubmitted, Accept, Body, Fails, CleanUp, net, seen
  <2>7. ReportsAreTrue'
    BY <1>5 DEF ReportsAreTrue, NotSubmitted, Accept, Body, Fails, CleanUp, net, seen
  <2> QED
    BY <2>1, <2>2, <2>3, <2>4, <2>5, <2>6, <2>7
<1>6. CASE Succeeds
  <2>1. Shape'
    BY <1>6 DEF Shape, Placed, InFlight, Awaited, Undisturbed, Receipts, ReportsAreTrue,
           Succeeds, CleanUp, Ready, net
  <2>2. Placed'
    <3>1. CASE doing = "create"
      BY <1>6, <3>1 DEF Placed, Shape, Succeeds, Ready, net
    <3>2. CASE doing = "fund"
      BY <1>6, <3>2 DEF Placed, Succeeds, Ready, net
    <3>3. CASE doing = "delete"
      BY <1>6, <3>3 DEF Placed, Succeeds, CleanUp, net
    <3> QED
      BY <3>1, <3>2, <3>3 DEF Shape
  <2>3. InFlight'
    BY <1>6 DEF InFlight, Succeeds, CleanUp, Ready, net
  <2>4. Awaited'
    BY <1>6 DEF Awaited, Succeeds, CleanUp, Ready, net
  <2>5. Undisturbed'
    BY <1>6 DEF Undisturbed, Succeeds, CleanUp, Ready, net
  <2>6. Receipts'
    BY <1>6 DEF Receipts, Shape, Succeeds, CleanUp, Ready, net
  <2>7. ReportsAreTrue'
    <3>1. UNCHANGED <<net, spent, doomed>>
      BY <1>6 DEF Succeeds
    <3>2. CASE doing = "create"
      <4>1. file' = tx /\ signer' = tx /\ swept' = swept /\ spent = 0 /\ Holds(tx, FUNDING)
        BY <1>6, <3>2 DEF Succeeds, Ready, Receipts, Undisturbed
      <4> QED
        BY <3>1, <4>1 DEF ReportsAreTrue, net, Shape
    <3>3. CASE doing = "fund"
      <4>1. file' = file /\ signer' = file /\ swept' = swept /\ spent = 0 /\ Holds(file, FUNDING)
        BY <1>6, <3>3 DEF Succeeds, Ready, Receipts, Undisturbed
      <4> QED
        BY <3>1, <4>1 DEF ReportsAreTrue, net, Shape
    <3>4. CASE doing = "delete"
      <4>1. pc' = "idle" /\ swept' = swept \cup {signer}
        BY <1>6, <3>4 DEF Succeeds, CleanUp
      <4>2. signer \in DOMAIN accounts /\ ~Alive(signer)
        BY <1>6, <3>4 DEF Succeeds, Receipts, Placed, Shape
      <4> QED
        BY <3>1, <4>1, <4>2 DEF ReportsAreTrue, net
    <3> QED
      BY <3>2, <3>3, <3>4 DEF Shape
  <2> QED
    BY <2>1, <2>2, <2>3, <2>4, <2>5, <2>6, <2>7
<1>7. CASE PollFails
  <2>1. Shape'
    BY <1>7 DEF Shape, PollFails, Fails, CleanUp, net, seen
  <2>2. Placed'
    BY <1>7 DEF Placed, PollFails, Fails, CleanUp, net, seen
  <2>3. InFlight'
    BY <1>7 DEF InFlight, PollFails, Fails, CleanUp, net, seen
  <2>4. Awaited'
    BY <1>7 DEF Awaited, PollFails, Fails, CleanUp, net, seen
  <2>5. Undisturbed'
    BY <1>7 DEF Undisturbed, PollFails, Fails, CleanUp, net, seen
  <2>6. Receipts'
    BY <1>7 DEF Receipts, PollFails, Fails, CleanUp, net, seen
  <2>7. ReportsAreTrue'
    BY <1>7 DEF ReportsAreTrue, PollFails, Fails, CleanUp, net, seen
  <2> QED
    BY <2>1, <2>2, <2>3, <2>4, <2>5, <2>6, <2>7
<1>8. CASE PollAgain
  <2>1. Shape'
    <3>1. /\ left' \in 0 .. POLLS /\ asked' = FALSE
          /\ UNCHANGED <<net, txs, file, pc, doing, delta, tx, signer, runs, seen>>
      BY <1>8, FundsAreNatural DEF Shape, PollAgain, Pending
    <3> QED
      BY <3>1 DEF Shape, net, seen
  <2>2. Placed'
    BY <1>8 DEF Placed, PollAgain, Pending, net, seen
  <2>3. InFlight'
    BY <1>8 DEF InFlight, PollAgain, Pending, net, seen
  <2>4. Awaited'
    BY <1>8 DEF Awaited, PollAgain, Pending, net, seen
  <2>5. Undisturbed'
    BY <1>8 DEF Undisturbed, PollAgain, Pending, net, seen
  <2>6. Receipts'
    BY <1>8 DEF Receipts, PollAgain, Pending, net, seen
  <2>7. ReportsAreTrue'
    BY <1>8 DEF ReportsAreTrue, PollAgain, Pending, net, seen
  <2> QED
    BY <2>1, <2>2, <2>3, <2>4, <2>5, <2>6, <2>7
<1>18. CASE AskAgain
  <2>1. Shape'
    BY <1>18 DEF Shape, AskAgain, net, seen
  <2>2. Placed'
    BY <1>18 DEF Placed, AskAgain, net, seen
  <2>3. InFlight'
    BY <1>18 DEF InFlight, AskAgain, net, seen
  <2>4. Awaited'
    BY <1>18 DEF Awaited, AskAgain, net, seen
  <2>5. Undisturbed'
    BY <1>18 DEF Undisturbed, AskAgain, net, seen
  <2>6. Receipts'
    BY <1>18 DEF Receipts, AskAgain, net, seen
  <2>7. ReportsAreTrue'
    BY <1>18 DEF ReportsAreTrue, AskAgain, net, seen
  <2> QED
    BY <2>1, <2>2, <2>3, <2>4, <2>5, <2>6, <2>7
<1>9. CASE PollTimesOut
  <2>1. Shape'
    BY <1>9 DEF Shape, PollTimesOut, Pending, Fails, CleanUp, net, seen
  <2>2. Placed'
    BY <1>9 DEF Placed, PollTimesOut, Pending, Fails, CleanUp, net, seen
  <2>3. InFlight'
    BY <1>9 DEF InFlight, PollTimesOut, Pending, Fails, CleanUp, net, seen
  <2>4. Awaited'
    BY <1>9 DEF Awaited, PollTimesOut, Pending, Fails, CleanUp, net, seen
  <2>5. Undisturbed'
    BY <1>9 DEF Undisturbed, PollTimesOut, Pending, Fails, CleanUp, net, seen
  <2>6. Receipts'
    BY <1>9 DEF Receipts, PollTimesOut, Pending, Fails, CleanUp, net, seen
  <2>7. ReportsAreTrue'
    BY <1>9 DEF ReportsAreTrue, PollTimesOut, Pending, Fails, CleanUp, net, seen
  <2> QED
    BY <2>1, <2>2, <2>3, <2>4, <2>5, <2>6, <2>7
<1>10. CASE Sweep
  <2>1. Shape'
    BY <1>10 DEF Shape, Sweep, net, seen
  <2>2. Placed'
    BY <1>10 DEF Placed, Sweep, net, seen
  <2>3. InFlight'
    BY <1>10 DEF InFlight, Sweep, net, seen
  <2>4. Awaited'
    BY <1>10 DEF Awaited, Sweep, net, seen
  <2>5. Undisturbed'
    BY <1>10 DEF Undisturbed, Sweep, net, seen
  <2>6. Receipts'
    BY <1>10 DEF Receipts, Sweep, net, seen
  <2>7. ReportsAreTrue'
    BY <1>10 DEF ReportsAreTrue, Sweep, net, seen
  <2> QED
    BY <2>1, <2>2, <2>3, <2>4, <2>5, <2>6, <2>7
<1>11. CASE Unlogged
  <2>1. Shape'
    BY <1>11 DEF Shape, Unlogged, Fails, CleanUp, net, seen
  <2>2. Placed'
    BY <1>11 DEF Placed, Unlogged, Fails, CleanUp, net, seen
  <2>3. InFlight'
    BY <1>11 DEF InFlight, Unlogged, Fails, CleanUp, net, seen
  <2>4. Awaited'
    BY <1>11 DEF Awaited, Unlogged, Fails, CleanUp, net, seen
  <2>5. Undisturbed'
    BY <1>11 DEF Undisturbed, Unlogged, Fails, CleanUp, net, seen
  <2>6. Receipts'
    BY <1>11 DEF Receipts, Unlogged, Fails, CleanUp, net, seen
  <2>7. ReportsAreTrue'
    BY <1>11 DEF ReportsAreTrue, Unlogged, Fails, CleanUp, net, seen
  <2> QED
    BY <2>1, <2>2, <2>3, <2>4, <2>5, <2>6, <2>7
<1>12. CASE Interrupt
  <2>1. Shape'
    BY <1>12 DEF Shape, Interrupt, Fails, CleanUp, net, seen
  <2>2. Placed'
    BY <1>12 DEF Placed, Interrupt, Fails, CleanUp, net, seen
  <2>3. InFlight'
    BY <1>12 DEF InFlight, Interrupt, Fails, CleanUp, net, seen
  <2>4. Awaited'
    BY <1>12 DEF Awaited, Interrupt, Fails, CleanUp, net, seen
  <2>5. Undisturbed'
    BY <1>12 DEF Undisturbed, Interrupt, Fails, CleanUp, net, seen
  <2>6. Receipts'
    BY <1>12 DEF Receipts, Interrupt, Fails, CleanUp, net, seen
  <2>7. ReportsAreTrue'
    BY <1>12 DEF ReportsAreTrue, Interrupt, Fails, CleanUp, net, seen
  <2> QED
    BY <2>1, <2>2, <2>3, <2>4, <2>5, <2>6, <2>7
<1>13. CASE Crash
  <2>1. Shape'
    BY <1>13 DEF Shape, Crash, net, seen
  <2>2. Placed'
    BY <1>13 DEF Placed, Crash, net, seen
  <2>3. InFlight'
    BY <1>13 DEF InFlight, Crash, net, seen
  <2>4. Awaited'
    BY <1>13 DEF Awaited, Crash, net, seen
  <2>5. Undisturbed'
    BY <1>13 DEF Undisturbed, Crash, net, seen
  <2>6. Receipts'
    BY <1>13 DEF Receipts, Crash, net, seen
  <2>7. ReportsAreTrue'
    BY <1>13 DEF ReportsAreTrue, Crash, net, seen
  <2> QED
    BY <2>1, <2>2, <2>3, <2>4, <2>5, <2>6, <2>7
<1>14. CASE Spend
  <2>1. Shape'
    BY SMTT(120), <1>14 DEF Shape, Placed, Spend
  <2>2. Placed'
    BY <1>14 DEF Placed, Spend
  <2>3. InFlight'
    BY <1>14 DEF InFlight, Spend
  <2>4. Awaited'
    BY <1>14 DEF Awaited, Spend
  <2>5. Undisturbed'
    BY <1>14 DEF Undisturbed, Spend
  <2>6. Receipts'
    BY <1>14 DEF Receipts, Spend
  <2>7. ReportsAreTrue'
    BY SMTT(120), <1>14 DEF ReportsAreTrue, Shape, Placed, InFlight, Awaited, Spend
  <2> QED
    BY <2>1, <2>2, <2>3, <2>4, <2>5, <2>6, <2>7
<1>15. ASSUME NEW b \in flight, Consensus(b) PROVE IInv'
  <2>1. Shape'
    <3>1. UNCHANGED <<pc, doing, delta, txs, left, asked, spent, file, signer>> /\ flight' \subseteq flight
      BY <1>15 DEF Consensus, seen
    <3> QED
      BY ZenonT(120), <1>15, <3>1, ConsensusEffect DEF Shape
  <2>2. Placed'
    BY <1>15 DEF Placed, Consensus, Applies, seen
  <2>3. InFlight'
    BY ZenonT(120), <1>15 DEF InFlight, Shape, Consensus, Applies, seen
  <2>4. Awaited'
    BY <1>15 DEF Awaited, Consensus, Applies, seen
  <2>5. Undisturbed'
    BY <1>15 DEF Undisturbed, Consensus, Applies, seen
  <2>6. Receipts'
    BY <1>15, ReceiptsAtConsensus
  <2>7. ReportsAreTrue'
    BY <1>15, ReportsAtConsensus
  <2> QED
    BY <2>1, <2>2, <2>3, <2>4, <2>5, <2>6, <2>7
<1>16. ASSUME NEW b \in flight, Expires(b) PROVE IInv'
  <2>1. Shape'
    BY <1>16 DEF Shape, Expires, seen
  <2>2. Placed'
    BY <1>16 DEF Placed, Expires, seen
  <2>3. InFlight'
    BY <1>16 DEF InFlight, Expires, seen
  <2>4. Awaited'
    BY <1>16 DEF Awaited, Expires, seen
  <2>5. Undisturbed'
    BY <1>16 DEF Undisturbed, Expires, seen
  <2>6. Receipts'
    BY <1>16 DEF Receipts, Expires, seen
  <2>7. ReportsAreTrue'
    BY <1>16 DEF ReportsAreTrue, Expires, seen
  <2> QED
    BY <2>1, <2>2, <2>3, <2>4, <2>5, <2>6, <2>7
<1>17. CASE UNCHANGED vars
  <2>1. Shape'
    BY <1>17 DEF Shape, vars, net, seen
  <2>2. Placed'
    BY <1>17 DEF Placed, vars, net, seen
  <2>3. InFlight'
    BY <1>17 DEF InFlight, vars, net, seen
  <2>4. Awaited'
    BY <1>17 DEF Awaited, vars, net, seen
  <2>5. Undisturbed'
    BY <1>17 DEF Undisturbed, vars, net, seen
  <2>6. Receipts'
    BY <1>17 DEF Receipts, vars, net, seen
  <2>7. ReportsAreTrue'
    BY <1>17 DEF ReportsAreTrue, vars, net, seen
  <2> QED
    BY <2>1, <2>2, <2>3, <2>4, <2>5, <2>6, <2>7
<1> QED
  BY <1>1, <1>2, <1>3, <1>4, <1>5, <1>6, <1>7, <1>8, <1>9, <1>10, <1>11, <1>12, <1>13, <1>14, <1>15, <1>16, <1>17, <1>18
     DEF Next, Harness, Over
(* What the network holds for every account, and that it came from the operator. *)
Balances == [i \in 1 .. txs |-> IF i \in DOMAIN accounts THEN accounts[i].balance ELSE 0]

Conserved == \E w \in [0 .. txs -> Nat] : IsTotal(w, Balances, txs) /\ operator + w[txs] <= OPERATOR

(* The arithmetic of a transfer: what one side gains the other loses.       *)
LEMMA NoMore ==
    \A o, p, b, c, m, top \in Int : p + c <= o + b /\ o + m <= top => p + (m + c - b) <= top
OBVIOUS

(* A step that moves an amount between the operator and one account, or    *)
(* takes it from the account.                                              *)
LEMMA OneBalance ==
    ASSUME Shape, Shape', Conserved, NEW a \in 1 .. txs, txs' = txs,
           \A i \in 1 .. txs : i # a => Balances'[i] = Balances[i],
           operator' + Balances'[a] <= operator + Balances[a]
    PROVE  Conserved'
<1>1. /\ Balances \in [1 .. txs -> Nat] /\ Balances' \in [1 .. txs -> Nat]
      /\ txs \in Nat /\ operator \in Nat /\ operator' \in Nat
  BY DEF Balances, Shape, Account
<1>2. PICK w \in [0 .. txs -> Nat] : IsTotal(w, Balances, txs) /\ operator + w[txs] <= OPERATOR
  BY DEF Conserved
<1>3. PICK v : IsTotal(v, Balances', txs) /\ v[txs] = w[txs] + Balances'[a] - Balances[a]
  BY ZenonT(120), <1>1, <1>2, TotalMoves
<1>4. v \in [0 .. txs -> Nat] /\ w[txs] \in Nat /\ Balances[a] \in Nat /\ Balances'[a] \in Nat
  <2>1. txs \in 0 .. txs
    BY <1>1
  <2> QED
    BY <1>1, <1>2, <1>3, <2>1 DEF IsTotal
<1>5. operator' + v[txs] <= OPERATOR
  <2> DEFINE b == Balances[a]
             c == Balances'[a]
             m == w[txs]
             n == v[txs]
  <2>1. /\ b \in Nat /\ c \in Nat /\ m \in Nat /\ n = m + c - b /\ OPERATOR \in Nat
        /\ operator' + c <= operator + b /\ operator + m <= OPERATOR
    BY <1>2, <1>3, <1>4, FundsAreNatural
  <2> HIDE DEF b, c, m, n
  <2>2. operator \in Int /\ operator' \in Int /\ b \in Int /\ c \in Int /\ m \in Int /\ OPERATOR \in Int
    BY <2>1, <1>1
  <2>3. operator' + (m + c - b) <= OPERATOR
    BY <2>1, <2>2, NoMore, Zenon
  <2>4. operator' + n <= OPERATOR
    BY <2>1, <2>3
  <2> QED
    BY <2>4 DEF n
<1> QED
  BY <1>3, <1>4, <1>5 DEF Conserved

(* Hbars on hand never exceed what the operator started with. *)
LEMMA ConservedIsInductive == IInv /\ Conserved /\ [Next]_vars => Conserved'
<1> SUFFICES ASSUME IInv, Conserved, [Next]_vars PROVE Conserved'
  OBVIOUS
<1>1. Shape /\ InFlight /\ Shape'
  BY Inductive DEF IInv
<1>2. CASE UNCHANGED <<txs, accounts, operator>>
  BY <1>2 DEF Conserved, Balances
<1>3. CASE Accept
  <2>1. txs' = txs + 1 /\ UNCHANGED <<accounts, operator>> /\ txs \in Nat /\ DOMAIN accounts \subseteq 1 .. txs
    BY <1>1, <1>3 DEF Accept, Shape
  <2>2. PICK w \in [0 .. txs -> Nat] : IsTotal(w, Balances, txs) /\ operator + w[txs] <= OPERATOR
    BY DEF Conserved
  <2> DEFINE v == [i \in 0 .. txs + 1 |-> IF i = txs + 1 THEN w[txs] ELSE w[i]]
  <2>3. Balances' = [i \in 1 .. txs + 1 |-> IF i = txs + 1 THEN 0 ELSE Balances[i]]
    BY <2>1 DEF Balances
  <2>4. v \in [0 .. txs + 1 -> Nat] /\ v[0] = 0 /\ v[txs + 1] = w[txs]
    BY <2>1, <2>2 DEF IsTotal
  <2>5. \A i \in 1 .. txs + 1 : v[i] = v[i - 1] + Balances'[i]
    <3> SUFFICES ASSUME NEW i \in 1 .. txs + 1 PROVE v[i] = v[i - 1] + Balances'[i]
      OBVIOUS
    <3>1. CASE i = txs + 1
      BY <2>1, <2>2, <2>3, <3>1
    <3>2. CASE i \in 1 .. txs
      BY <2>1, <2>2, <2>3, <3>2 DEF IsTotal
    <3> QED
      BY <2>1, <3>1, <3>2
  <2> HIDE DEF v
  <2> QED
    BY <2>1, <2>2, <2>4, <2>5 DEF Conserved, IsTotal
<1>4. CASE Spend
  <2>1. signer \in DOMAIN accounts /\ accounts[signer].balance \in Nat \ {0} /\ DOMAIN accounts \subseteq 1 .. txs
    BY SMTT(120), <1>1, <1>4 DEF Spend, Alive, Shape, Account
  <2>2. /\ txs' = txs /\ operator' = operator /\ DOMAIN accounts' = DOMAIN accounts
        /\ accounts'[signer].balance = accounts[signer].balance - 1
        /\ \A i \in DOMAIN accounts : i # signer => accounts'[i] = accounts[i]
    BY <1>1, <1>4, <2>1 DEF Spend, Shape, Account
  <2>3. /\ \A i \in 1 .. txs : i # signer => Balances'[i] = Balances[i]
        /\ operator' + Balances'[signer] <= operator + Balances[signer]
    BY SMTT(120), <1>1, <2>1, <2>2 DEF Balances, Shape
  <2> QED
    BY <1>1, <2>1, <2>2, <2>3, OneBalance
<1>5. ASSUME NEW b \in flight, Consensus(b) PROVE Conserved'
  <2>1. /\ b.account \in 1 .. txs /\ b.amount \in Nat /\ txs' = txs /\ operator \in Nat /\ txs \in Nat
        /\ accounts \in [DOMAIN accounts -> Account] /\ DOMAIN accounts \subseteq 1 .. txs
    BY <1>1, <1>5 DEF Shape, Transaction, Consensus, seen
  <2>2. CASE ~Applies(b)
    BY <1>2, <1>5, <2>1, <2>2 DEF Consensus
  <2>3. CASE Applies(b)
    <3>1. /\ DOMAIN accounts' = DOMAIN accounts \cup {b.account}
          /\ \A i \in DOMAIN accounts : i # b.account => accounts'[i] = accounts[i]
      <4>1. CASE b.kind = "create"
        BY <1>5, <2>1, <2>3, <4>1 DEF Consensus
      <4>2. CASE b.kind \in {"fund", "delete"}
        <5>1. b.account \in DOMAIN accounts
          BY <1>1, <4>2 DEF InFlight
        <5>2. CASE b.kind = "fund"
          BY <1>5, <2>1, <2>3, <5>1, <5>2 DEF Consensus
        <5>3. CASE b.kind = "delete"
          BY <1>5, <2>1, <2>3, <5>1, <5>3 DEF Consensus
        <5> QED
          BY <4>2, <5>2, <5>3
      <4> QED
        BY <1>5, <2>3, <4>1, <4>2 DEF Consensus
    <3>2. operator' + accounts'[b.account].balance = operator + Balances[b.account]
      <4>1. CASE b.kind = "create"
        <5>1. b.account \notin DOMAIN accounts /\ operator' = operator - b.amount
              /\ accounts'[b.account].balance = b.amount
          BY <1>1, <1>5, <2>1, <2>3, <4>1 DEF InFlight, Consensus
        <5> QED
          BY <2>1, <5>1 DEF Balances
      <4>2. CASE b.kind = "fund"
        <5>1. b.account \in DOMAIN accounts /\ operator' = operator - b.amount
          BY <1>1, <1>5, <2>3, <4>2 DEF InFlight, Consensus
        <5>2. accounts'[b.account].balance = accounts[b.account].balance + b.amount
          BY <1>5, <2>1, <2>3, <4>2, <5>1 DEF Consensus, Account
        <5>3. accounts[b.account].balance \in Nat
          BY <2>1, <5>1 DEF Account
        <5> QED
          BY <2>1, <5>1, <5>2, <5>3 DEF Balances
      <4>3. CASE b.kind = "delete"
        <5>1. b.account \in DOMAIN accounts /\ operator' = operator + accounts[b.account].balance
              /\ accounts'[b.account].balance = 0
          BY <1>1, <1>5, <2>1, <2>3, <4>3 DEF InFlight, Consensus
        <5>2. accounts[b.account].balance \in Nat
          BY <2>1, <5>1 DEF Account
        <5> QED
          BY <2>1, <5>1, <5>2 DEF Balances
      <4> QED
        BY <1>5, <2>3, <4>1, <4>2, <4>3 DEF Consensus
    <3>3. /\ \A i \in 1 .. txs : i # b.account => Balances'[i] = Balances[i]
          /\ Balances'[b.account] = accounts'[b.account].balance
      BY <2>1, <3>1 DEF Balances
    <3>4. operator' \in Nat /\ Balances'[b.account] \in Nat /\ Balances[b.account] \in Nat
      BY <1>1, <2>1, <3>1, <3>3 DEF Balances, Shape, Account
    <3> QED
      BY <1>1, <2>1, <3>2, <3>3, <3>4, OneBalance
  <2> QED
    BY <2>2, <2>3
<1> QED
  <2>1. CASE Harness
    BY <1>2, <1>3, <2>1 DEF Harness, Start, BalanceAnswers, BalanceFails, Submitted, NotSubmitted,
       Succeeds, PollFails, PollAgain, AskAgain, Pending, PollTimesOut, Sweep, Unlogged, net
  <2>2. CASE Interrupt \/ Crash \/ Over \/ UNCHANGED vars \/ \E b \in flight : Expires(b)
    BY <1>2, <2>2 DEF Interrupt, Crash, Over, Expires, vars, net
  <2> QED
    BY <1>4, <1>5, <2>1, <2>2 DEF Next

(* The empty sequence as a function. *)
LEMMA EmptyFunction == \A f, S : f = << >> => DOMAIN f = {} /\ f \in [{} -> S]
OBVIOUS

(* A harness that has not run yet has nothing in flight. *)
LEMMA Initially == Init => IInv /\ Conserved
<1> SUFFICES ASSUME Init PROVE IInv /\ Conserved
  OBVIOUS
<1> USE FundsAreNatural DEF Init, None
<1>1. Shape
  <2>1. left \in 0 .. POLLS /\ delta \in 0 .. FUNDING /\ operator \in Nat
    OBVIOUS
  <2>2. 1 .. txs = {} /\ asked \in BOOLEAN
    <3>1. asked \in BOOLEAN
      BY Zenon
    <3> QED
      BY <3>1
  <2>3. /\ DOMAIN accounts = {} /\ accounts \in [DOMAIN accounts -> Account]
        /\ receipt \in [1 .. txs -> {"pending", "success", "failed"}]
    BY <2>2, EmptyFunction
  <2> QED
    BY <2>1, <2>2, <2>3 DEF Shape, Kinds
<1>2. Placed /\ InFlight /\ Awaited /\ Undisturbed /\ Receipts /\ ReportsAreTrue
  BY DEF Placed, InFlight, Awaited, Undisturbed, Provisioning, Receipts, ReportsAreTrue
<1>3. Conserved
  <2> DEFINE w == [i \in 0 .. 0 |-> 0]
  <2>1. w \in [0 .. txs -> Nat] /\ w[0] = 0 /\ operator + w[txs] <= OPERATOR
    OBVIOUS
  <2>2. IsTotal(w, Balances, txs)
    BY <2>1 DEF IsTotal
  <2> QED
    BY <2>1, <2>2 DEF Conserved
<1> QED
  BY <1>1, <1>2, <1>3 DEF IInv

(* What the places of a run rely on, for every funding, deadline, number of *)
(* runs and submissions, and every order in which the network answers.      *)
THEOREM Invariant == Spec => [](IInv /\ Conserved)
<1> QED
  BY Initially, Inductive, ConservedIsInductive, PTL DEF Spec

(* A run whose provisioning is reported has the account the key file names, *)
(* alive and funded unless a sweep left over takes it; a swept account is    *)
(* gone.                                                                     *)
THEOREM Reports == Spec => []ReportsAreTrue
<1>1. IInv => ReportsAreTrue
  BY DEF IInv
<1> QED
  BY <1>1, Invariant, PTL

(* Types; what the operator has never exceeds what it started with.         *)
THEOREM TypeCorrect == Spec => []TypeOK
<1>1. IInv /\ Conserved => TypeOK
  <2> SUFFICES ASSUME IInv, Conserved PROVE TypeOK
    OBVIOUS
  <2>1. operator \in 0 .. OPERATOR
    BY FundsAreNatural DEF IInv, Shape, Conserved, IsTotal
  <2> QED
    BY <2>1 DEF TypeOK, IInv, Shape, Transaction, None
<1> QED
  BY <1>1, Invariant, PTL
=============================================================================
