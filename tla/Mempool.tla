------------------------------- MODULE Mempool -------------------------------
(***************************************************************************)
(* The mempool of a validator: its containers and their limits, the        *)
(* balance it reserves for every sender, the tasks that verify incoming    *)
(* transactions, the task that follows the chain, and the producer of      *)
(* micro blocks that takes transactions out (crate mempool, mempool-task   *)
(* and validator/src/micro.rs).                                            *)
(*                                                                         *)
(* The chain is what the mempool sees of it: the blocks since genesis with *)
(* their transactions, and the balances these leave. It moves on its own;  *)
(* the mempool learns of it from a queue of events that it may be slow to  *)
(* handle. A transaction is a model value with the attributes the mempool  *)
(* looks at; the hash of a transaction is the transaction.                 *)
(***************************************************************************)
EXTENDS Policy, FiniteSets, FiniteSetsExt, Sequences, SequencesExt

CONSTANTS
    Transactions,
    tx,                  \* transaction -> its attributes:
                         \*   sender; signer (whose funds it spends: the sender, or a
                         \*   validator or staker when the staking contract sends);
                         \*   value (with the fee); fee_per_byte; size; control
                         \*   (a staking transaction); validity_start_height;
                         \*   versions (the protocol versions whose rules it meets)
    Accounts,            \* the senders and signers
    Credited,            \* the accounts that blocks may credit
    Priorities,          \* of local transactions: 1 (low), 2 (medium) or 3 (high)
    GenesisBalance,      \* account -> coins
    RegularLimit,        \* total_size_limit of the regular container
    ControlLimit,
    tx_per_sender_limit,
    BlockBytes,          \* what a micro block body holds
    CONCURRENT_VERIF_TASKS,
    Configurations,      \* bounds: what may happen, a set of records
                         \*   transactions (in play); upgrade_at (the election block
                         \*   that upgrades to version 2, or 0); height (of the chain);
                         \*   events (the mempool may lag behind); outages (of consensus)
    None

VARIABLES
    config,
    chain,               \* the main chain: blocks [transactions, credit, fork]
    complete,            \* the accounts trie is complete
    events,              \* blockchain events the mempool task has yet to handle
    ready,               \* consensus is established with the validity window synced
    outages,
    mempool,             \* MempoolState
    protocol_version,    \* the version the executors verify with
    mempool_active,      \* MempoolTask::mempool_active
    executors,           \* the executors run
    spawned,             \* tasks of MempoolTask not run yet: "cleanup" (then "start"), "stop"
    tasks,               \* verifications past the signature check
    producer_head,       \* the chain the micro producer was set up for, or None
    selection            \* the entries the producer took out for its block, or None

vars == <<config, chain, complete, events, ready, outages, mempool, protocol_version, mempool_active,
          executors, spawned, tasks, producer_head, selection>>

chainVars == <<config, chain, complete, events>>
taskVars == <<protocol_version, mempool_active, executors, spawned>>
consensusVars == <<ready, outages>>
producerVars == <<producer_head, selection>>

-----------------------------------------------------------------------------
(* The chain as the mempool reads it. *)

block_number == genesis_block_number + Len(chain)
next_block_number == block_number + 1

Included(blocks) == UNION {blocks[i].transactions : i \in DOMAIN blocks}

contains_tx_in_validity_window(t) == t \in Included(chain)

SumOfValues(ts) == FoldSet(LAMBDA t, sum : tx[t].value + sum, 0, ts)

BalanceAfter(blocks, a) ==
    GenesisBalance[a] + Cardinality({i \in DOMAIN blocks : blocks[i].credit = a})
        - SumOfValues({t \in Included(blocks) : tx[t].signer = a})

Balance(a) == BalanceAfter(chain, a)

VersionAfter(blocks) ==
    IF config.upgrade_at # 0 /\ genesis_block_number + Len(blocks) >= config.upgrade_at THEN 2 ELSE 1

is_valid_at(t, n) ==
    LET start == tx[t].validity_start_height
    IN  n >= start - blocks_per_batch
        /\ n < saturating_add(start, transaction_validity_window_blocks)

-----------------------------------------------------------------------------
(* MempoolTransactions: one container. Its entries are kept in the order   *)
(* of insertion, which stands for insertion_order. The three queues hold   *)
(* hashes of their own, since callers pop them one by one. `verified` is a *)
(* ghost: the version whose rules the transaction was last verified under. *)

Entry(t, priority, version) == [transaction |-> t, priority |-> priority, verified |-> version]

EmptyContainer ==
    [transactions |-> <<>>, best_transactions |-> {}, worst_transactions |-> {},
     oldest_transactions |-> {}, total_size |-> 0]

Hashes(c) == {c.transactions[i].transaction : i \in DOMAIN c.transactions}

IndexOf(c, t) == CHOOSE i \in DOMAIN c.transactions : c.transactions[i].transaction = t

(* BestTxOrder: priority, then fee per byte, then the older one. *)
IsBetter(c, t, u) ==
    LET i == IndexOf(c, t)
        j == IndexOf(c, u)
        p == c.transactions[i].priority
        q == c.transactions[j].priority
    IN  \/ p > q
        \/ p = q /\ tx[t].fee_per_byte > tx[u].fee_per_byte
        \/ p = q /\ tx[t].fee_per_byte = tx[u].fee_per_byte /\ i < j

Best(c) == CHOOSE t \in c.best_transactions :
               \A u \in c.best_transactions \ {t} : IsBetter(c, t, u)

Worst(c) == CHOOSE t \in c.worst_transactions :
                \A u \in c.worst_transactions \ {t} : IsBetter(c, u, t)

insert(c, e) ==
    [transactions |-> Append(c.transactions, e),
     best_transactions |-> c.best_transactions \cup {e.transaction},
     worst_transactions |-> c.worst_transactions \cup {e.transaction},
     oldest_transactions |-> c.oldest_transactions \cup {e.transaction},
     total_size |-> c.total_size + tx[e.transaction].size]

(* Mutant: the eviction queue keeps a hash that was deleted. *)
delete_keeps_worst(c, t) ==
    IF t \notin Hashes(c) THEN c
    ELSE [c EXCEPT !.transactions = SelectSeq(@, LAMBDA e : e.transaction # t),
                   !.best_transactions = @ \ {t}, !.oldest_transactions = @ \ {t},
                   !.total_size = @ - tx[t].size]

delete(c, t) ==
    IF t \notin Hashes(c) THEN c
    ELSE [transactions |-> SelectSeq(c.transactions, LAMBDA e : e.transaction # t),
          best_transactions |-> c.best_transactions \ {t},
          worst_transactions |-> c.worst_transactions \ {t},
          oldest_transactions |-> c.oldest_transactions \ {t},
          total_size |-> c.total_size - tx[t].size]

(* Popped off oldest_transactions until the oldest one left is valid. *)
get_expired_txns(c, n) ==
    {t \in c.oldest_transactions :
        \A u \in c.oldest_transactions :
            tx[u].validity_start_height <= tx[t].validity_start_height => ~is_valid_at(u, n)}

-----------------------------------------------------------------------------
(* ReservedBalance and MempoolState. *)

NoReservation == [a \in Accounts |-> 0]

EmptyMempool ==
    [regular |-> EmptyContainer, control |-> EmptyContainer,
     state_by_sender |-> [s \in {} |-> None], verified_version |-> 1,
     panicked |-> FALSE]

Stored(m) == Hashes(m.regular) \cup Hashes(m.control)
Known(m, s) == s \in DOMAIN m.state_by_sender
SetSender(m, s, state) ==
    [m EXCEPT !.state_by_sender =
        [x \in DOMAIN @ \cup {s} |-> IF x = s THEN state ELSE @[x]]]
DropSender(m, s) ==
    [m EXCEPT !.state_by_sender = [x \in DOMAIN @ \ {s} |-> @[x]]]

DeleteAll(m, ts) ==
    FoldSet(LAMBDA t, n : [n EXCEPT !.regular = delete(@, t), !.control = delete(@, t)], m, ts)

can_reserve(reserved, t) == reserved[tx[t].signer] + tx[t].value <= Balance(tx[t].signer)

reserve(reserved, t) == [reserved EXCEPT ![tx[t].signer] = @ + tx[t].value]

remove(m, t) ==
    IF t \notin Stored(m) THEN m
    ELSE
    LET s == tx[t].sender
        deleted == DeleteAll(m, {t})
    IN  IF ~Known(m, s) THEN deleted
        ELSE
        LET state == m.state_by_sender[s]
            left == state.txns \ {t}
            reserved == state.reserved_balance[tx[t].signer] - tx[t].value
        IN  IF ~complete THEN DropSender(DeleteAll(deleted, state.txns), s)
            ELSE IF t \notin state.txns THEN deleted
            ELSE IF reserved < 0 THEN [deleted EXCEPT !.panicked = TRUE]
            ELSE IF left = {} THEN DropSender(deleted, s)
            ELSE SetSender(deleted, s,
                     [txns |-> left,
                      reserved_balance |->
                          [state.reserved_balance EXCEPT ![tx[t].signer] = reserved]])

RemoveAll(m, ts) == FoldSet(LAMBDA t, n : remove(n, t), m, ts)

(* The loops of put: the worst transaction goes until the rest fits. A     *)
(* worst queue that is empty, or that names a transaction no longer        *)
(* stored, would panic or spin.                                            *)
RECURSIVE evict(_)
evict(m) ==
    LET c == IF m.regular.total_size > RegularLimit THEN "regular" ELSE "control"
    IN  IF m.panicked \/ (m.regular.total_size <= RegularLimit
                          /\ m.control.total_size <= ControlLimit) THEN m
        ELSE IF m[c].worst_transactions = {}
                \/ ~m[c].worst_transactions \subseteq Hashes(m[c])
        THEN [m EXCEPT !.panicked = TRUE]
        ELSE evict(remove([m EXCEPT ![c].worst_transactions = @ \ {Worst(m[c])}], Worst(m[c])))

put(m, e) ==
    LET t == e.transaction
        s == tx[t].sender
        state == IF Known(m, s) THEN m.state_by_sender[s]
                 ELSE [txns |-> {}, reserved_balance |-> NoReservation]
    IN  IF \/ t \in Stored(m)                                  \* Known
           \/ Cardinality(state.txns) >= tx_per_sender_limit   \* SenderLimitReached
           \/ ~complete                                        \* NoConsensus
           \/ ~can_reserve(state.reserved_balance, t)          \* InvalidAccount
        THEN m
        ELSE evict([SetSender(m, s, [txns |-> state.txns \cup {t},
                                     reserved_balance |-> reserve(state.reserved_balance, t)])
                       EXCEPT !.regular = IF tx[t].control THEN @ ELSE insert(@, e),
                              !.control = IF tx[t].control THEN insert(@, e) ELSE @])

-----------------------------------------------------------------------------
(* Mempool: what happens on changes of the chain. *)

prune_expired_transactions(m) ==
    RemoveAll(m, get_expired_txns(m.control, next_block_number)
                 \cup get_expired_txns(m.regular, next_block_number))

(* Reserves again from nothing, transaction by transaction in the order a  *)
(* hash set yields them; what no longer fits is removed. The sender state  *)
(* is taken out meanwhile, so that remove() releases nothing.              *)
RecomputeSender(m, s, order) ==
    LET txns == m.state_by_sender[s].txns
        start == [reserved_balance |-> NoReservation, kept |-> {}, mempool |-> DropSender(m, s)]
        step(acc, t) ==
            IF t \notin Stored(acc.mempool) THEN acc
            ELSE IF can_reserve(acc.reserved_balance, t)
            THEN [acc EXCEPT !.reserved_balance = reserve(@, t), !.kept = @ \cup {t}]
            ELSE [acc EXCEPT !.mempool = remove(@, t)]
        result == FoldLeft(step, start, SelectSeq(order, LAMBDA t : t \in txns))
    IN  IF ~complete THEN DropSender(DeleteAll(m, txns), s)
        ELSE IF result.kept = {} THEN result.mempool
        ELSE SetSender(result.mempool, s,
                       [txns |-> result.kept, reserved_balance |-> result.reserved_balance])

recompute_sender_balances(m, senders, order) ==
    FoldSet(LAMBDA s, n : IF Known(n, s) THEN RecomputeSender(n, s, order) ELSE n, m, senders)

Unapplied(t) == is_valid_at(t, next_block_number) /\ ~contains_tx_in_validity_window(t)

(* A transaction the mempool gets back, if it still applies. *)
PutBack(m, t, version) ==
    IF t \in Stored(m) \/ ~Unapplied(t) THEN m ELSE put(m, Entry(t, 2, version))

(* Every event modelled here adopts blocks, so all senders are affected.   *)
update(m, event, order) ==
    LET mined == Included(event.adopted)
        returning == Included(event.reverted)
        kept == RemoveAll(prune_expired_transactions(m), mined)
        refilled == FoldLeft(LAMBDA n, t : PutBack(n, t, VersionAfter(event.head)), kept,
                             SelectSeq(order, LAMBDA t : t \in returning))
    IN  recompute_sender_balances(refilled, DOMAIN refilled.state_by_sender, order)

cleanup(m, order) ==
    LET pruned == prune_expired_transactions(m)
        kept == RemoveAll(pruned, {t \in Stored(pruned) : contains_tx_in_validity_window(t)})
    IN  recompute_sender_balances(kept, DOMAIN kept.state_by_sender, order)

Verified(c, version) ==
    [c EXCEPT !.transactions = [i \in DOMAIN @ |-> [@[i] EXCEPT !.verified = version]]]

revalidate_transactions(m) ==
    LET version == VersionAfter(chain)
        invalid == {t \in Stored(m) : version \notin tx[t].versions}
        kept == RemoveAll(m, invalid)
    IN  [kept EXCEPT !.regular = Verified(@, version), !.control = Verified(@, version),
                     !.verified_version = version]

(* The orders in which hash sets may yield the transactions. *)
OrdersOf == [ts \in {c.transactions : c \in Configurations} |-> SetToSeqs(ts)]
Orders == OrdersOf[config.transactions]

resync_protocol_version(m) ==
    IF protocol_version < VersionAfter(chain) THEN revalidate_transactions(m) ELSE m

-----------------------------------------------------------------------------
Init ==
    /\ config \in Configurations
    /\ chain = <<>> /\ complete = TRUE /\ events = <<>>
    /\ ready = TRUE /\ outages = 0
    /\ mempool = EmptyMempool
    /\ protocol_version = 1
    /\ mempool_active = TRUE /\ executors = TRUE /\ spawned = {}
    /\ tasks = {}
    /\ producer_head = None /\ selection = None

(* Blocks of others. A block needs its transactions to be valid, new and   *)
(* covered; macro blocks hold none. Pushing waits for the producer's lock. *)
Applicable(blocks, ts) ==
    /\ ts \cap Included(blocks) = {}
    /\ \A t \in ts : /\ is_valid_at(t, genesis_block_number + Len(blocks) + 1)
                     /\ VersionAfter(blocks) \in tx[t].versions
    /\ \A a \in Accounts :
           SumOfValues({t \in ts : tx[t].signer = a}) <= BalanceAfter(blocks, a)

Blocks(blocks) ==
    LET n == genesis_block_number + Len(blocks) + 1
        bodies == {ts \in SUBSET config.transactions : Applicable(blocks, ts) /\ Cardinality(ts) <= 1}
    IN  IF is_macro_block_at(n)
        THEN {[transactions |-> {}, credit |-> None, fork |-> 0]}
        ELSE [transactions : bodies, credit : Credited \cup {None}, fork : {0, 1}]

Event(kind, adopted, reverted, head) ==
    [kind |-> kind, adopted |-> adopted, reverted |-> reverted, head |-> head]

Upgrade(blocks) ==
    IF VersionAfter(blocks) > VersionAfter(Front(blocks))
    THEN <<Event("ProtocolUpgrade", <<>>, <<>>, blocks)>> ELSE <<>>

Extended(blocks) ==
    <<Event("Extended", <<Last(blocks)>>, <<>>, blocks)>> \o Upgrade(blocks)

Extend ==
    /\ selection = None
    /\ Len(chain) < config.height /\ Len(events) < config.events
    /\ \E b \in Blocks(chain) :
           /\ b.fork = 0
           /\ chain' = Append(chain, b)
           /\ events' = events \o Extended(chain')
    /\ UNCHANGED <<config, complete, consensusVars, mempool, taskVars, tasks, producerVars>>

(* The last blocks are replaced, as far as the last macro block, by a fork *)
(* that may be shorter: it wins by an earlier skip block.                  *)
Rebranch ==
    /\ selection = None
    /\ chain # <<>> /\ Len(events) < config.events
    /\ \E n \in 0..Len(chain) - 1 :
       LET kept == SubSeq(chain, 1, n)
           reverted == SubSeq(chain, n + 1, Len(chain))
       IN  /\ \A i \in n + 1..Len(chain) : ~is_macro_block_at(genesis_block_number + i)
           /\ \A i \in DOMAIN reverted : reverted[i].fork = 0
           /\ \E b \in Blocks(kept) :
                  /\ b.fork = 1 /\ b.transactions # reverted[1].transactions
                  /\ chain' = Append(kept, b)
                  /\ events' = Append(events, Event("Rebranched", <<b>>, reverted, chain'))
    /\ UNCHANGED <<config, complete, consensusVars, mempool, taskVars, tasks, producerVars>>

(* The accounts trie is given up and synced again (state sync). *)
LoseAccounts ==
    /\ complete /\ ~ready /\ selection = None
    /\ complete' = FALSE
    /\ UNCHANGED <<config, chain, events, consensusVars, mempool, taskVars, tasks, producerVars>>

RegainAccounts ==
    /\ ~complete
    /\ complete' = TRUE
    /\ UNCHANGED <<config, chain, events, consensusVars, mempool, taskVars, tasks, producerVars>>

(* Blocks up to the next macro block come with its history, which replaces *)
(* the micro blocks since the last macro block.                            *)
AdoptHistory ==
    /\ selection = None /\ ~ready /\ Len(events) < config.events
    /\ LET base == SubSeq(chain, 1, last_macro_block(block_number) - genesis_block_number)
           rest == [i \in 2..blocks_per_batch |->
                       [transactions |-> {}, credit |-> None, fork |-> 0]]
       IN  /\ Len(base) + blocks_per_batch <= config.height
           /\ \E b \in Blocks(base) :
                  chain' = base \o [i \in 1..blocks_per_batch |-> IF i = 1 THEN b ELSE rest[i]]
    /\ events' = events \o <<Event("HistoryAdopted", <<>>, <<>>, chain')>> \o Upgrade(chain')
    /\ UNCHANGED <<config, complete, consensusVars, mempool, taskVars, tasks, producerVars>>

(* MempoolTask::poll_next and Validator::poll, the consensus events. The   *)
(* validator polls the task, so neither runs while a block is built.       *)
LoseConsensus ==
    /\ ready /\ selection = None /\ outages < config.outages
    /\ ready' = FALSE /\ outages' = outages + 1
    /\ mempool_active' = FALSE
    /\ spawned' = IF mempool_active THEN spawned \cup {"stop"} ELSE spawned
    /\ producer_head' = None
    /\ UNCHANGED <<chainVars, mempool, protocol_version, executors, tasks, selection>>

EstablishConsensus ==
    /\ ~ready /\ complete
    /\ ready' = TRUE
    /\ mempool_active' = TRUE
    /\ spawned' = spawned \cup {"cleanup"}
    /\ mempool' = resync_protocol_version(mempool)
    /\ protocol_version' = VersionAfter(chain)
    /\ producer_head' = chain
    /\ UNCHANGED <<chainVars, outages, executors, tasks, selection>>

(* The spawned tasks run in any order. *)
CleanupTask ==
    /\ "cleanup" \in spawned
    /\ \E order \in Orders : mempool' = cleanup(mempool, order)
    /\ spawned' = (spawned \ {"cleanup"}) \cup {"start"}
    /\ UNCHANGED <<chainVars, consensusVars, protocol_version, mempool_active, executors, tasks,
                   producerVars>>

StartExecutors ==
    /\ "start" \in spawned
    /\ spawned' = spawned \ {"start"}
    /\ executors' = TRUE
    /\ UNCHANGED <<chainVars, consensusVars, mempool, protocol_version, mempool_active, tasks,
                   producerVars>>

StopExecutors ==
    /\ "stop" \in spawned
    /\ spawned' = spawned \ {"stop"}
    /\ executors' = FALSE
    /\ UNCHANGED <<chainVars, consensusVars, mempool, protocol_version, mempool_active, tasks,
                   producerVars>>

(* on_blockchain_event of the mempool task, then of the validator, which   *)
(* sets up its producer for the block unless the chain is past it.         *)
OnBlockchainEvent ==
    /\ events # <<>> /\ selection = None
    /\ LET event == Head(events)
           resync == \/ event.kind = "ProtocolUpgrade"
                     \/ /\ ready /\ event.kind = "Extended"
                        /\ is_election_block_at(genesis_block_number + Len(event.head))
           Resynced(m) == IF resync THEN resync_protocol_version(m) ELSE m
       IN  /\ events' = Tail(events)
           /\ \/ /\ ready /\ event.kind \in {"Extended", "Rebranched"}
                 /\ \E order \in Orders : mempool' = Resynced(update(mempool, event, order))
              \/ /\ ready /\ event.kind = "HistoryAdopted"
                 /\ \E order \in Orders : mempool' = cleanup(mempool, order)
              \/ /\ ~ready \/ event.kind = "ProtocolUpgrade"
                 /\ mempool' = Resynced(mempool)
           /\ protocol_version' = IF resync THEN VersionAfter(chain) ELSE protocol_version
           /\ producer_head' = IF event.kind \in {"ProtocolUpgrade", "HistoryAdopted"}
                               THEN producer_head
                               ELSE IF ready /\ event.head = chain THEN chain
                               ELSE None
    /\ UNCHANGED <<config, chain, complete, consensusVars, mempool_active, executors, spawned, tasks,
                   selection>>

(* verify_tx, step 1: the signature and the rules of one version. A local  *)
(* transaction (add_transaction) takes the version of the chain and may    *)
(* have a high priority, a gossiped one takes the version of the executors.*)
BeginVerification(t, version, priority) ==
    /\ Cardinality(tasks) < CONCURRENT_VERIF_TASKS
    /\ version \in tx[t].versions
    /\ tasks' = tasks \cup {Entry(t, priority, version)}
    /\ UNCHANGED <<chainVars, consensusVars, mempool, taskVars, producerVars>>

ReceiveTransaction(t) ==
    executors /\ BeginVerification(t, protocol_version, 2)

AddTransaction(t) ==
    \E priority \in Priorities : BeginVerification(t, VersionAfter(chain), priority)

(* verify_tx, steps 2 to 7, under the lock of the chain. *)
FinishVerification(e) ==
    /\ tasks' = tasks \ {e}
    /\ mempool' = IF Unapplied(e.transaction) THEN put(mempool, e) ELSE mempool
    /\ UNCHANGED <<chainVars, consensusVars, taskVars, producerVars>>

-----------------------------------------------------------------------------
(* The micro producer. *)

(* get_transactions_for_block_impl: the best transactions while they fit.  *)
RECURSIVE TakeBest(_, _)
TakeBest(c, bytes) ==
    IF c.best_transactions = {} \/ tx[Best(c)].size > bytes THEN <<>>
    ELSE <<Best(c)>> \o
         TakeBest([c EXCEPT !.best_transactions = @ \ {Best(c)}], bytes - tx[Best(c)].size)

EntryOf(m, t) ==
    LET c == IF tx[t].control THEN m.control ELSE m.regular
    IN  c.transactions[IndexOf(c, t)]

SizeOf(ts) == FoldSeq(LAMBDA t, sum : tx[t].size + sum, 0, ts)

(* produce_micro_block: control transactions get half of the body, regular *)
(* ones the rest, control ones what is then left. The chain stays locked   *)
(* until FinishBlock.                                                      *)
TakeTransactions ==
    /\ selection = None /\ ready /\ producer_head = chain /\ events = <<>>
    /\ Len(chain) < config.height /\ Len(events) < config.events
    /\ ~is_macro_block_at(next_block_number)
    /\ LET first == TakeBest(mempool.control, BlockBytes \div 2)
           afterFirst == RemoveAll(mempool, ToSet(first))
           regular == TakeBest(afterFirst.regular, BlockBytes - SizeOf(first))
           afterRegular == RemoveAll(afterFirst, ToSet(regular))
           extra == TakeBest(afterRegular.control,
                             BlockBytes - SizeOf(first) - SizeOf(regular))
           taken == first \o extra \o regular
       IN  /\ selection' = [i \in DOMAIN taken |-> EntryOf(mempool, taken[i])]
           /\ mempool' = RemoveAll(afterRegular, ToSet(extra))
    /\ UNCHANGED <<chainVars, consensusVars, taskVars, tasks, producer_head>>

(* The body: a selected transaction that the balances left by those before *)
(* it do not cover is dropped.                                             *)
Appliable(ts) ==
    FoldLeft(LAMBDA body, t :
                 IF SumOfValues({u \in ToSet(body) : tx[u].signer = tx[t].signer})
                       + tx[t].value <= Balance(tx[t].signer)
                 THEN Append(body, t) ELSE body,
             <<>>, ts)

(* next_micro_block, return_transactions_locked and the push of the block. *)
FinishBlock ==
    /\ selection # None
    /\ LET body == ToSet(Appliable([i \in DOMAIN selection |-> selection[i].transaction]))
           block == [transactions |-> body, credit |-> None, fork |-> 0]
           left == SelectSeq(selection, LAMBDA e : e.transaction \notin body)
           Returned(es) ==
               FoldLeft(LAMBDA m, e : PutBack(m, e.transaction, e.verified), mempool, es)
       IN  \/ /\ body \cap Included(chain) = {} /\ \A t \in body : is_valid_at(t, next_block_number)
              /\ mempool' = Returned(left)
              /\ chain' = Append(chain, block)
              /\ events' = events \o Extended(chain')
              /\ producer_head' = None
           \/ \* no block could be built: everything goes back
              /\ mempool' = Returned(selection)
              /\ UNCHANGED <<chain, events, producer_head>>
           \/ \* the push is refused: the transactions are lost
              /\ mempool' = Returned(left)
              /\ UNCHANGED <<chain, events, producer_head>>
    /\ selection' = None
    /\ UNCHANGED <<config, complete, consensusVars, taskVars, tasks>>

Next ==
    \/ Extend \/ Rebranch \/ LoseAccounts \/ RegainAccounts
    \/ AdoptHistory \/ LoseConsensus \/ EstablishConsensus \/ OnBlockchainEvent
    \/ CleanupTask \/ StartExecutors \/ StopExecutors
    \/ \E t \in config.transactions : ReceiveTransaction(t) \/ AddTransaction(t)
    \/ \E e \in tasks : FinishVerification(e)
    \/ TakeTransactions \/ FinishBlock

Spec == Init /\ [][Next]_vars

-----------------------------------------------------------------------------
Containers == {mempool.regular, mempool.control}

(* The containers, their queues and the sender states hold transactions,   *)
(* control transactions in a container of their own.                       *)
TypeOK ==
    /\ \A c \in Containers :
           /\ \A i \in DOMAIN c.transactions :
                  c.transactions[i] \in [transaction : Transactions, priority : 1..3, verified : 1..2]
           /\ IsInjective([i \in DOMAIN c.transactions |-> c.transactions[i].transaction])
           /\ c.total_size \in Nat
    /\ \A t \in Hashes(mempool.regular) : ~tx[t].control
    /\ \A t \in Hashes(mempool.control) : tx[t].control
    /\ DOMAIN mempool.state_by_sender \subseteq Accounts
    /\ tasks \subseteq [transaction : Transactions, priority : 1..3, verified : 1..2]

(* Neither "Failed to release balance", the panic of release_for nor an    *)
(* unwrap of an empty queue is ever reached, whatever the order of blocks, *)
(* events, verifications and block production.                             *)
NoPanic == ~mempool.panicked

(* MempoolState's indices agree with each other at all times: a sender is  *)
(* known exactly when it has transactions, the balance reserved for it is  *)
(* the sum over them, and all queues of a container hold what it stores.   *)
IndicesAgree ==
    /\ \A c \in Containers :
           /\ c.best_transactions = Hashes(c) /\ c.worst_transactions = Hashes(c)
           /\ c.oldest_transactions = Hashes(c)
           /\ c.total_size = FoldSet(LAMBDA t, sum : tx[t].size + sum, 0, Hashes(c))
    /\ DOMAIN mempool.state_by_sender = {tx[t].sender : t \in Stored(mempool)}
    /\ \A s \in DOMAIN mempool.state_by_sender :
           LET own == {t \in Stored(mempool) : tx[t].sender = s}
           IN  /\ mempool.state_by_sender[s].txns = own
               /\ \A a \in Accounts : mempool.state_by_sender[s].reserved_balance[a] =
                      SumOfValues({t \in own : tx[t].signer = a})

(* No container outgrows its limit and no sender has more transactions     *)
(* than allowed, also after transactions came back from reverted blocks.   *)
WithinLimits ==
    /\ mempool.regular.total_size <= RegularLimit
    /\ mempool.control.total_size <= ControlLimit
    /\ \A s \in DOMAIN mempool.state_by_sender :
           Cardinality(mempool.state_by_sender[s].txns) <= tx_per_sender_limit

Expired(t) ==
    next_block_number >= saturating_add(tx[t].validity_start_height,
                                        transaction_validity_window_blocks)

CaughtUp == ready /\ complete /\ events = <<>> /\ "cleanup" \notin spawned

(* Once the mempool has handled all events (and cleaned up after an outage *)
(* of consensus), nothing that it holds is expired or already in the       *)
(* chain, and the balances cover all of it together.                       *)
HoldsOnlyApplicable ==
    CaughtUp =>
        \A t \in Stored(mempool) :
            /\ ~Expired(t) /\ ~contains_tx_in_validity_window(t)
            /\ mempool.state_by_sender[tx[t].sender].reserved_balance[tx[t].signer]
                   <= Balance(tx[t].signer)

(* A block is built of transactions that may be in it, and what is entered *)
(* after a verification may be in the next block of the head of that       *)
(* moment, whatever the head was when the verification began.              *)
AcceptableStep ==
    /\ selection = None /\ selection' # None /\ "cleanup" \notin spawned =>
        \A i \in DOMAIN selection' :
            /\ ~Expired(selection'[i].transaction)
            /\ ~contains_tx_in_validity_window(selection'[i].transaction)
    /\ tasks' # tasks =>
        \A t \in Stored(mempool') \ Stored(mempool) :
            ~Expired(t) /\ ~contains_tx_in_validity_window(t)

(* Once cleaned up, the mempool never hands the producer a transaction     *)
(* that the chain has already or that expired: our own push would refuse   *)
(* the block, and the other transactions taken out with it would be lost.  *)
OwnBlocksAreAcceptable == [][AcceptableStep]_vars

(* "Start mempool as soon as we have consensus", "stop the mempool if we   *)
(* lose consensus" (mempool-task/src/lib.rs): once the tasks spawned for   *)
(* it have run, the executors run just when the mempool is active.  Not so *)
(* in the code: starting and stopping are spawned tasks, which may run in  *)
(* the other order when consensus is lost and found again.                 *)
ExecutorsFollowConsensus ==
    spawned = {} => executors = mempool_active

(* is_verified vouches for a stored transaction when the version asked for *)
(* is verified_version, "the protocol version under which all stored       *)
(* transactions have been verified" (mempool_state.rs).  Not so in the     *)
(* code: verify_tx verifies before it takes the lock, and enters under the *)
(* new version what was verified under the old one.                        *)
VouchesForVerified ==
    \A c \in Containers : \A i \in DOMAIN c.transactions :
        c.transactions[i].verified = mempool.verified_version
=============================================================================
