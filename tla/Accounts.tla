------------------------------ MODULE Accounts ------------------------------
(***************************************************************************)
(* The accounts tree of a node: how the transactions and inherents of a    *)
(* block are committed to basic accounts, vesting contracts and hashed     *)
(* time-locked contracts (HTLCs), with the receipts that let the block be  *)
(* reverted when the chain is rebranched.                                  *)
(*   src/primitives/account/src/accounts.rs                                *)
(*   src/primitives/account/src/account/*.rs                               *)
(*                                                                         *)
(* `tree' is a partial function from addresses to accounts: an address     *)
(* outside its domain has no leaf.  A transaction is a record; a signature *)
(* is the set of addresses that signed it; a coin is a natural number.     *)
(* The staking contract, which the module StakingContract models, appears  *)
(* only as a recipient that takes a transaction or refuses it.             *)
(***************************************************************************)
EXTENDS Integers, Sequences, FiniteSets, FiniteSetsExt, SequencesExt, Functions

CONSTANTS
    Configurations, \* the scenarios: genesis accounts, transactions, rewards
    MaxHeight,      \* bound on the number of blocks above genesis
    MaxBlockTxs,    \* bound on the number of transactions of a block
    Precision       \* the bits of a floating point number, 53 in an f64

VARIABLES
    config,   \* the scenario, chosen once
    tree,     \* the leaves of the accounts tree
    chain,    \* the committed blocks with their receipts
    panicked  \* an assertion or an expect of the code failed

vars == <<config, tree, chain, panicked>>

-----------------------------------------------------------------------------
(* Accounts *)

NoTerms == [owner |-> "-", start |-> 0, step |-> 0, amount |-> 0, total |-> 0,
            sender |-> "-", recipient |-> "-", count |-> 1, timeout |-> 0]

Basic(balance) == [type |-> "Basic", balance |-> balance, terms |-> NoTerms]

Staking(balance) == [type |-> "Staking", balance |-> balance, terms |-> NoTerms]

\* An address without a leaf reads as an empty basic account.
get_complete(t, a) == IF a \in DOMAIN t THEN t[a] ELSE Basic(0)

can_be_pruned(acc) == acc.type # "Staking" /\ acc.balance = 0

\* Mutant: the receipt of a pruned contract forgets the schedule.
prune_forgets_schedule(acc) == [acc.terms EXCEPT !.start = 0, !.total = 0]

\* What a pruned contract leaves in the receipt: everything but the balance.
prune(acc) == acc.terms

\* A basic account is restored empty, a contract from its receipt.
restore(type, pruned) ==
    IF type = "Basic" THEN Basic(0)
    ELSE [type |-> type, balance |-> 0, terms |-> pruned]

total_value(tx) == tx.value + tx.fee

Smaller(a, b) == IF a < b THEN a ELSE b
Larger(a, b) == IF a < b THEN b ELSE a

\* Division of machine integers truncates towards zero.
Truncated(a, b) == IF a >= 0 THEN a \div b ELSE -((-a) \div b)

\* The part of a vesting contract that is still locked.
min_cap(terms, time) ==
    IF terms.step > 0 /\ terms.amount > 0
    THEN LET steps == Truncated(time - terms.start, terms.step)
         IN  Larger(0, Smaller(terms.total, terms.total - steps * terms.amount))
    ELSE 0

\* Floating point numbers m / 2^k with m < 2^Precision, as <<m, k>>.  Results
\* are rounded to the nearest one, and to an even m in the middle of two.
Nearest(n, d) ==
    LET q == n \div d
        r == 2 * (n % d)
    IN  IF r > d \/ (r = d /\ q % 2 = 1) THEN q + 1 ELSE q

\* The quotient of two integers, 0 < n < d.
Quotient(n, d) ==
    LET k == Min({j \in 0 .. Precision + 4 : n * 2^j >= d * 2^(Precision - 1)})
    IN  <<Nearest(n * 2^k, d), k>>

Rounded(m, k) ==
    LET s == Min({j \in 0 .. 8 : m \div 2^j < 2^Precision})
    IN  <<Nearest(m, 2^s), k - s>>

\* The part of an HTLC that a pre-image of depth `depth' does not unlock:
\* (1 - depth / count) * total, in floating point, rounded down.
htlc_min_cap(terms, depth) ==
    IF depth = 0 THEN terms.total
    ELSE IF depth >= terms.count THEN 0
    ELSE LET x == Quotient(depth, terms.count)
             ratio == Rounded(2^x[2] - x[1], x[2])
             cap == Rounded(ratio[1] * terms.total, ratio[2])
         IN  cap[1] \div 2^cap[2]

vesting_can_change_balance(acc, tx, new, time) ==
    /\ new >= min_cap(acc.terms, time)
    /\ acc.terms.owner \in tx.signers

htlc_can_change_balance(acc, tx, new, time) ==
    CASE tx.proof = "RegularTransfer" ->
            /\ acc.terms.timeout >= time
            /\ acc.terms.recipient \in tx.signers
            /\ new >= htlc_min_cap(acc.terms, tx.depth)
      [] tx.proof = "EarlyResolve" ->
            {acc.terms.recipient, acc.terms.sender} \subseteq tx.signers
      [] tx.proof = "TimeoutResolve" ->
            /\ acc.terms.timeout < time
            /\ acc.terms.sender \in tx.signers

can_change_balance(acc, tx, new, time) ==
    CASE acc.type = "Basic"   -> TRUE
      [] acc.type = "Vesting" -> vesting_can_change_balance(acc, tx, new, time)
      [] acc.type = "HTLC"    -> htlc_can_change_balance(acc, tx, new, time)

\* An outgoing transaction takes value and fee, a failed one only the fee.
commit_outgoing_transaction(acc, tx, time) ==
    /\ acc.balance >= total_value(tx)
    /\ can_change_balance(acc, tx, acc.balance - total_value(tx), time)

commit_failed_outgoing(acc, tx, time) ==
    /\ acc.balance >= tx.fee
    /\ can_change_balance(acc, tx, acc.balance - tx.fee, time)

\* Contracts refuse incoming transactions; so may the staking contract.
commit_incoming_transaction(acc, tx) ==
    acc.type = "Basic" \/ (acc.type = "Staking" /\ tx.accepted)

create_new_contract(tx, balance) ==
    [type |-> tx.recipient_type, balance |-> balance + tx.value, terms |-> tx.terms]

-----------------------------------------------------------------------------
(* Committing a block.  The result of an operation on tree t is a record:  *)
(* ok (it returned Ok), panic, the tree it leaves and its receipt.         *)

NoReceipt == [ok |-> TRUE, pruned |-> NoTerms]

Done(t, receipt) == [ok |-> TRUE, panic |-> FALSE, tree |-> t, receipt |-> receipt]
Fails(t) == [ok |-> FALSE, panic |-> FALSE, tree |-> t, receipt |-> NoReceipt]
Panics(t) == [ok |-> FALSE, panic |-> TRUE, tree |-> t, receipt |-> NoReceipt]

Prune(t, a) == Restrict(t, DOMAIN t \ {a})

put(t, a, acc) == [x \in DOMAIN t \cup {a} |-> IF x = a THEN acc ELSE t[x]]

put_or_prune(t, a, acc) == IF can_be_pruned(acc) THEN Prune(t, a) ELSE put(t, a, acc)

PrunedTerms(acc) == IF can_be_pruned(acc) THEN prune(acc) ELSE NoTerms

\* The account the recipient becomes, if it takes the transaction.
commit_recipient(t, tx) ==
    LET acc == get_complete(t, tx.recipient)
    IN  IF tx.creation THEN create_new_contract(tx, acc.balance)
        ELSE [acc EXCEPT !.balance = @ + tx.value]

RecipientTakes(t, tx) ==
    LET acc == get_complete(t, tx.recipient)
    IN  \/ tx.creation
        \/ acc.type = tx.recipient_type /\ commit_incoming_transaction(acc, tx)

try_commit_transaction(t, tx, time) ==
    LET sender == get_complete(t, tx.sender)
        paid == [sender EXCEPT !.balance = @ - total_value(tx)]
        recipient == commit_recipient(t, tx)
    IN  IF sender.type # tx.sender_type \/ ~commit_outgoing_transaction(sender, tx, time)
        THEN Fails(t)
        ELSE IF tx.creation /\ get_complete(t, tx.recipient).type # "Basic" THEN Panics(t)
        ELSE IF ~RecipientTakes(t, tx) THEN Fails(t)
        ELSE IF can_be_pruned(recipient) THEN Panics(t)
        ELSE Done(put(put_or_prune(t, tx.sender, paid), tx.recipient, recipient),
                  [ok |-> TRUE, pruned |-> PrunedTerms(paid)])

commit_failed_transaction(t, tx, time) ==
    LET sender == get_complete(t, tx.sender)
        paid == [sender EXCEPT !.balance = @ - tx.fee]
    IN  IF sender.type # tx.sender_type \/ ~commit_failed_outgoing(sender, tx, time)
        THEN Fails(t)
        ELSE Done(put_or_prune(t, tx.sender, paid), [ok |-> FALSE, pruned |-> PrunedTerms(paid)])

commit_transaction(t, tx, time) ==
    LET tried == try_commit_transaction(t, tx, time)
    IN  IF tried.ok \/ tried.panic THEN tried ELSE commit_failed_transaction(t, tx, time)

\* Only basic accounts take rewards; a reward to a contract is dropped.
commit_inherent(t, reward) ==
    LET acc == get_complete(t, reward.target)
        paid == [acc EXCEPT !.balance = @ + reward.value]
    IN  IF acc.type # "Basic" THEN Done(t, [ok |-> FALSE, pruned |-> NoTerms])
        ELSE IF can_be_pruned(paid) THEN Panics(t)
        ELSE Done(put(t, reward.target, paid), NoReceipt)

\* One step of a batch: stops at the first error, collects the receipts.
Then(acc, result) ==
    IF result.ok THEN [result EXCEPT !.receipt = Append(acc.receipt, @)]
    ELSE [result EXCEPT !.receipt = acc.receipt]

commit_batch(t, txs, rewards, time) ==
    LET Start == [ok |-> TRUE, panic |-> FALSE, tree |-> t, receipt |-> <<>>]
        AfterTxs == FoldLeft(LAMBDA acc, tx :
                        IF acc.ok THEN Then(acc, commit_transaction(acc.tree, tx, time)) ELSE acc,
                        Start, txs)
    IN  FoldLeft(LAMBDA acc, reward :
                    IF acc.ok THEN Then(acc, commit_inherent(acc.tree, reward)) ELSE acc,
                 AfterTxs, rewards)

-----------------------------------------------------------------------------
(* Reverting a block *)

revert_recipient(t, tx) ==
    LET acc == get_complete(t, tx.recipient)
        without == [acc EXCEPT !.balance = @ - tx.value]
    IN  IF \/ acc.type # tx.recipient_type
           \/ ~tx.creation /\ acc.type \in {"Vesting", "HTLC"}
        THEN Fails(t)
        ELSE IF acc.balance < tx.value THEN Panics(t)
        ELSE Done(put_or_prune(t, tx.recipient,
                      IF tx.creation THEN Basic(without.balance) ELSE without), NoReceipt)

\* get_or_restore followed by giving the sender back what it had paid.
revert_sender(t, tx, receipt, amount) ==
    LET acc == IF tx.sender \in DOMAIN t THEN t[tx.sender]
               ELSE restore(tx.sender_type, receipt.pruned)
    IN  IF acc.type # tx.sender_type THEN Fails(t)
        ELSE Done(put_or_prune(t, tx.sender, [acc EXCEPT !.balance = @ + amount]), NoReceipt)

revert_successful_transaction(t, tx, receipt) ==
    LET recipient == revert_recipient(t, tx)
    IN  IF recipient.ok THEN revert_sender(recipient.tree, tx, receipt, total_value(tx))
        ELSE recipient

revert_failed_transaction(t, tx, receipt) == revert_sender(t, tx, receipt, tx.fee)

revert_transaction(t, tx, receipt) ==
    IF receipt.ok THEN revert_successful_transaction(t, tx, receipt)
    ELSE revert_failed_transaction(t, tx, receipt)

revert_inherent(t, reward, receipt) ==
    LET acc == get_complete(t, reward.target)
    IN  IF ~receipt.ok THEN Done(t, NoReceipt)
        ELSE IF acc.type # "Basic" THEN Fails(t)
        ELSE IF acc.balance < reward.value THEN Panics(t)
        ELSE Done(put_or_prune(t, reward.target, [acc EXCEPT !.balance = @ - reward.value]),
                  NoReceipt)

\* Inherents first, then transactions, each from the last to the first.
revert_batch(t, block) ==
    LET n == Len(block.txs)
        Start == Done(t, NoReceipt)
        AfterRewards == FoldRight(LAMBDA i, acc :
                            IF acc.ok
                            THEN revert_inherent(acc.tree, block.rewards[i], block.receipts[n + i])
                            ELSE acc,
                            [i \in 1..Len(block.rewards) |-> i], Start)
    IN  FoldRight(LAMBDA i, acc :
                    IF acc.ok THEN revert_transaction(acc.tree, block.txs[i], block.receipts[i])
                    ELSE acc,
                  [i \in 1..n |-> i], AfterRewards)

-----------------------------------------------------------------------------
(* Reserving balance, by which the mempool admits a sender's transactions. *)

reserve_balance(t, tx, reserved, time) ==
    LET acc == get_complete(t, tx.sender)
        needed == reserved + total_value(tx)
    IN  /\ acc.type = tx.sender_type
        /\ needed <= acc.balance
        /\ can_change_balance(acc, tx, acc.balance - needed, time)

Total(txs, a) == FoldLeft(LAMBDA s, tx : IF tx.sender = a THEN s + total_value(tx) ELSE s, 0, txs)

\* Every transaction of txs found its balance when it was admitted after
\* the ones before it.
Reserved(t, txs, time) ==
    \A i \in 1..Len(txs) :
        reserve_balance(t, txs[i], Total(SubSeq(txs, 1, i - 1), txs[i].sender), time)

-----------------------------------------------------------------------------
(* The node *)

\* A transaction is on the chain at most once: the history store refuses
\* one it already contains.
Applied == UNION {Range(chain[i].txs) : i \in 1..Len(chain)}

Time == config.genesis_time + Len(chain)

Blocks(txs) == UNION {[1..n -> txs] : n \in 0..MaxBlockTxs}

Candidates == {txs \in Blocks(config.transactions \ Applied) : IsInjective(txs)}

Init ==
    /\ config \in Configurations
    /\ tree = config.accounts
    /\ chain = <<>>
    /\ panicked = FALSE

\* A block with an invalid transaction is refused and its writes dropped.
commit(txs, rewards) ==
    LET result == commit_batch(tree, txs, rewards, Time + 1)
    IN  /\ panicked' = result.panic
        /\ tree' = IF result.ok THEN result.tree ELSE tree
        /\ chain' = IF result.ok
                    THEN Append(chain, [txs |-> txs, rewards |-> rewards,
                                        receipts |-> result.receipt, before |-> tree])
                    ELSE chain
        /\ UNCHANGED config

Commit ==
    /\ Len(chain) < MaxHeight
    /\ ~panicked
    /\ \E txs \in Candidates, rewards \in config.rewards : commit(txs, rewards)

Revert ==
    /\ chain # <<>>
    /\ ~panicked
    /\ LET result == revert_batch(tree, Last(chain))
       IN  /\ panicked' = ~result.ok
           /\ tree' = result.tree
           /\ chain' = Front(chain)
           /\ UNCHANGED config

Next == Commit \/ Revert

Spec == Init /\ [][Next]_vars

-----------------------------------------------------------------------------
(* Properties *)

\* The tree holds no account that should have been pruned (accounts.rs puts
\* or prunes every account it changes) and no balance is negative.
TypeOK ==
    /\ config \in Configurations
    /\ \A a \in DOMAIN tree : ~can_be_pruned(tree[a]) /\ tree[a].balance >= 0
    /\ Len(chain) <= MaxHeight
    /\ panicked \in BOOLEAN

\* No assert or expect of accounts.rs fails while blocks are committed and
\* reverted in any order: no account is stored that can be pruned, a
\* contract is created only where a basic account is, no balance underflows,
\* and no revert returns an error, which the blockchain would not survive.
NoPanic == ~panicked

\* Reverting the last block with its receipts gives back the tree that was
\* there before it, pruned contracts and failed transactions included.
RevertUndoesCommit ==
    chain # <<>> /\ ~panicked =>
        LET result == revert_batch(tree, Last(chain))
        IN  result.ok /\ result.tree = Last(chain).before

SumOver(S, f(_)) == FoldSet(LAMBDA x, s : s + f(x), 0, S)

Balances(t) == SumOver(DOMAIN t, LAMBDA a : t[a].balance)

PaidIn(block) ==
    LET n == Len(block.txs)
    IN  SumOver({i \in 1..Len(block.rewards) : block.receipts[n + i].ok},
                LAMBDA i : block.rewards[i].value)
        - SumOver(1..n, LAMBDA i : block.txs[i].fee)

\* Coins are neither made nor lost: the balances are those of genesis, plus
\* the rewards that were paid, less the fees of all transactions, whether
\* they succeeded or failed.
CoinsAreConserved ==
    Balances(tree) = Balances(config.accounts) + SumOver(1..Len(chain), LAMBDA i : PaidIn(chain[i]))

\* A vesting contract never falls below what its schedule still locks, not
\* even through the fees of failed transactions, and is only pruned when
\* nothing is locked any more.
VestingStaysLocked ==
    \A i \in 1..Len(chain) :
        LET after == IF i = Len(chain) THEN tree ELSE chain[i + 1].before
            time == config.genesis_time + i
        IN  /\ \A a \in DOMAIN after : after[a].type = "Vesting" =>
                    after[a].balance >= min_cap(after[a].terms, time)
            /\ \A a \in DOMAIN chain[i].before \ DOMAIN after : chain[i].before[a].type = "Vesting" =>
                    min_cap(chain[i].before[a].terms, time) = 0

\* The indices <<b, i>> of the transactions the HTLC at address a has paid
\* for, successful or failed.
Spends(a) == {p \in (1..Len(chain)) \X (1..MaxBlockTxs) :
                p[2] <= Len(chain[p[1]].txs) /\ chain[p[1]].txs[p[2]].sender = a}

Spent(a) == SumOver(Spends(a), LAMBDA p :
                LET tx == chain[p[1]].txs[p[2]]
                IN  IF chain[p[1]].receipts[p[2]].ok THEN total_value(tx) ELSE tx.fee)

\* Until the timeout, and as long as the two parties do not resolve an HTLC
\* together, what leaves it is at most the share that the deepest pre-image
\* shown so far unlocks, and one Luna where the floating point arithmetic
\* rounds the cap down; the sender alone gets nothing before the timeout.
HTLCPaysRevealedShare ==
    \A a \in DOMAIN config.accounts : config.accounts[a].type = "HTLC" =>
        LET htlc == config.accounts[a]
            Tx(p) == chain[p[1]].txs[p[2]]
            depths == {Tx(p).depth : p \in Spends(a)}
        IN  /\ \A p \in Spends(a) : Tx(p).proof = "TimeoutResolve" =>
                    config.genesis_time + p[1] > htlc.terms.timeout
            /\ Spends(a) # {} /\ (\A p \in Spends(a) : Tx(p).proof = "RegularTransfer") =>
                    (htlc.balance - Spent(a)) * htlc.terms.count
                        >= (htlc.terms.count - Max(depths)) * htlc.terms.total - htlc.terms.count

\* Transactions of one block that all found their balance when they were
\* reserved never make the block invalid: each is applied or pays its fee.
\* (A transaction that moves nothing can still find its contract pruned by
\* the one before it, so the statement is about those that pay something.)
ReservedAreCommittable ==
    \A txs \in Candidates :
        (\A i \in 1..Len(txs) : total_value(txs[i]) > 0) /\ Reserved(tree, txs, Time + 1) =>
            commit_batch(tree, txs, <<>>, Time + 1).ok
=============================================================================
