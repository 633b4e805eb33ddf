------------------------------ MODULE Requests ------------------------------
(***************************************************************************)
(* The requests one node answers for another (consensus/src/messages) and  *)
(* the lookups a light client makes with them (consensus_proxy.rs,         *)
(* remote_data_store.rs).                                                  *)
(*                                                                         *)
(* A full node (`server`) and a client follow the same chain, each at its  *)
(* own pace.  Around one batch there are two branches: the batch's micro   *)
(* blocks exist on branch 0 and branch 1, and its macro block finalises    *)
(* branch 0.  Blocks of branch 2 are not part of any node's chain.         *)
(*                                                                         *)
(* Every block holds one transaction; a block of branch f at n holds       *)
(* transaction n + f, so that a transaction may be at different heights on *)
(* different branches.  The history root of a block stands for the leaves  *)
(* of its epoch up to the block, the state root for the block itself.      *)
(* A lookup asks peers one at a time: the server, and a peer that sends    *)
(* any well-formed answer.                                                 *)
(***************************************************************************)
EXTENDS Policy, BlockProof

CONSTANTS
    Configurations,    \* records: server, client: heads; max; forks; lookups
    MAX_BLOCK_DRIFT

NoNumber == 0
NoCall == [kind |-> "none"]
Block(n, f) == [number |-> n, fork |-> f]

Nodes == {"server", "client"}

VARIABLES
    config,
    head,    \* the head of each node
    stored,  \* the highest branch-1 block each node has stored, or NoNumber
    call     \* the lookup the client is doing

vars == <<config, head, stored, call>>

-----------------------------------------------------------------------------
(* The chain ending in a block, and what its blocks commit to. *)
BlockAt(h, n) ==
    IF h.fork = 2 THEN Block(n, 2)
    ELSE Block(n, IF n \in config.forks /\ h.fork = 1 THEN 1 ELSE 0)
OnMain(h, b) ==
    b.number \in genesis_block_number .. h.number /\ b = BlockAt(h, b.number)
macro_head(h) == last_macro_block(h.number)
election_head(h) == last_election_block(h.number)
Known(who, b) ==
    OnMain(head[who], b) \/ (b.fork = 1 /\ b.number \in config.forks /\ b.number <= stored[who])

Leaf(b) == [tx |-> b.number + b.fork, number |-> b.number]
FirstOf(epoch) == IF epoch = 0 THEN genesis_block_number ELSE first_block_of(epoch)
history_root(b) ==
    LET first == FirstOf(epoch_at(b.number))
    IN [i \in 1 .. b.number - first + 1 |-> Leaf(BlockAt(b, first + i - 1))]

(* HistoryStoreIndex::prove on the tree of an epoch; the positions are those *)
(* of the transactions in their own epochs.                                  *)
TreeOf(h, epoch) ==
    history_root(BlockAt(h, IF epoch = epoch_at(h.number) THEN h.number
                               ELSE election_block_of(epoch)))
Positions(h, txs) ==
    {n \in genesis_block_number .. h.number : Leaf(BlockAt(h, n)).tx \in txs}
NoAnswer == [ok |-> FALSE]
Prove(h, block, txs, verifier_state) ==
    LET tree == TreeOf(h, epoch_at(block.number))
        size == IF verifier_state = NoNumber THEN Len(tree) ELSE verifier_state
        indices == {n - FirstOf(epoch_at(n)) + 1 : n \in Positions(h, txs)}
    IN IF indices \subseteq 1 .. size
       THEN [ok |-> TRUE, block |-> block, root |-> SubSeq(tree, 1, size),
             history |-> {tree[i] : i \in indices}]
       ELSE NoAnswer

(* The length of the tree of the current epoch when the block was pushed. *)
VerifierState(h, n) ==
    IF n > election_head(h) /\ n < h.number
    THEN Len(history_root(BlockAt(h, n))) ELSE NoNumber

prove_txns_with_block_number(h, txs, n) ==
    IF \/ n > h.number \/ n < genesis_block_number
       \/ is_macro_block_at(n) /\ ~is_election_block_at(n) /\ n < election_head(h)
       \/ is_micro_block_at(n) /\ n < macro_head(h) - blocks_per_batch
    THEN NoAnswer
    ELSE Prove(h, BlockAt(h, n), txs, VerifierState(h, n))

prove_transaction(h, tx) ==
    LET found == Positions(h, {tx})
        block_number == CHOOSE n \in found : TRUE
        n == IF block_number <= election_head(h) THEN election_block_after(block_number)
             ELSE IF block_number <= macro_head(h) THEN macro_head(h)
             ELSE block_number
    IN IF found = {} \/ n > h.number THEN NoAnswer
       ELSE Prove(h, BlockAt(h, n), {tx}, VerifierState(h, n))

(* RequestTransactionsProof; without a block number only the first is proven. *)
TransactionsProof(h, group) ==
    IF group.number # NoNumber THEN prove_txns_with_block_number(h, group.txs, group.number)
    ELSE prove_transaction(h, CHOOSE tx \in group.txs : TRUE)

(* RequestBlocksProof for one block, as a proof over epochs. *)
BlocksProof(h, latest, n) ==
    IF \/ ~is_election_block_at(n) \/ n > latest \/ n = genesis_block_number
       \/ latest > election_head(h)
    THEN NoAnswer
    ELSE [ok |-> TRUE, proof |-> HonestProof(epoch_at(n), epoch_at(latest))]

-----------------------------------------------------------------------------

(* The macro chain and missing block requests.  Locators are blocks of the *)
(* client, newest first.                                                   *)

(* The first locator on the main chain that is a macro block, or NoNumber. *)
FirstLocator(h, locators, macro) ==
    LET found == {i \in DOMAIN locators :
                     OnMain(h, locators[i])
                     /\ (macro => is_macro_block_at(locators[i].number))}
    IN IF found = {} THEN NoNumber ELSE locators[Min(found)].number

Smallest(S, k) == {n \in S : Cardinality({o \in S : o < n}) < k}

MacroChain(h, start, max_epochs) ==
    LET epochs == Smallest({n \in start + 1 .. h.number : is_election_block_at(n)}, max_epochs)
        caught_up == epochs = {} \/ Max(epochs) = election_head(h)
    IN [epochs |-> epochs,
        checkpoint |-> IF macro_head(h) # election_head(h) /\ macro_head(h) # start
                          /\ caught_up
                       THEN macro_head(h) ELSE NoNumber]

handle_backward(locators, target) ==
    LET stops == {n \in genesis_block_number .. target.number :
                     \/ BlockAt(target, n) \in ToSet(locators)
                     \/ is_macro_block_at(n)}
        stop == Max(stops)
        first == IF BlockAt(target, stop) \in ToSet(locators) THEN stop + 1 ELSE stop
    IN [i \in 1 .. target.number - first + 1 |-> BlockAt(target, first + i - 1)]

handle_forward(h, locators, target) ==
    LET start == FirstLocator(h, locators, FALSE)
        num == Min({macro_block_after(start) - start,
                    IF target.number > start THEN target.number - start ELSE 0})
    IN IF ~OnMain(h, target) \/ start = NoNumber THEN <<>>
       ELSE [i \in 1 .. num |-> BlockAt(h, start + i)]

-----------------------------------------------------------------------------
(* The client's lookup of transactions. *)

(* The block whose history should prove the transaction of a receipt. *)
ProvingBlock(h, n) ==
    IF n = NoNumber THEN NoNumber
    ELSE IF is_election_block_at(n) THEN n
    ELSE IF n < election_head(h) THEN election_block_after(n)
    ELSE IF n <= macro_head(h) THEN macro_head(h)
    ELSE h.number

hashes_by_block(c) ==
    LET open == {r \in c.receipts : r.tx \notin {l.tx : l \in c.verified}}
    IN {[number |-> n, txs |-> {r.tx : r \in {o \in open : ProvingBlock(c.head, o.number) = n}}]
        : n \in {ProvingBlock(c.head, r.number) : r \in open}}

(* What the head captured by the call says of the block of an answer. *)
AsEpoch(b) == IF b.fork = 0 THEN Own(epoch_at(b.number)) ELSE Foreign(epoch_at(b.number))
already_proven(h, b) ==
    IF b.number = genesis_block_number THEN b.fork = 0
    ELSE /\ is_election_block_at(b.number)
         /\ \/ b = BlockAt(h, election_head(h))
            \/ references_block(Own(epoch_at(election_head(h))), AsEpoch(b))

Verdict_any_current(h, a) ==
    IF ~a.ok \/ a.root # history_root(a.block) THEN "rejected"
    ELSE IF a.block.number <= election_head(h)
         THEN IF already_proven(h, a.block) THEN "proven"
              ELSE IF a.block.number = genesis_block_number THEN "rejected" ELSE "unproven"
    ELSE IF a.block.number <= macro_head(h)
         THEN IF a.block = BlockAt(h, macro_head(h)) THEN "proven" ELSE "rejected"
    ELSE IF a.block.number = h.number THEN "proven" ELSE "rejected"

Verdict(h, a) ==
    IF ~a.ok \/ a.root # history_root(a.block) THEN "rejected"
    ELSE IF a.block.number <= election_head(h)
         THEN IF already_proven(h, a.block) THEN "proven"
              ELSE IF a.block.number = genesis_block_number THEN "rejected" ELSE "unproven"
    ELSE IF a.block.number <= macro_head(h)
         THEN IF a.block = BlockAt(h, macro_head(h)) THEN "proven" ELSE "rejected"
    ELSE IF a.block = h THEN "proven" ELSE "rejected"
(* Only what was asked for is accepted; of several leaves of one transaction *)
(* the last one inserted stays.                                              *)
Accept(c, history) ==
    LET fits == {l \in history : \E r \in c.receipts :
                    r.tx = l.tx /\ r.number \in {NoNumber, l.number}}
    IN [c EXCEPT !.verified = {l \in @ : l.tx \notin {k.tx : k \in fits}} \cup fits]

(* Well-formed answers of the other peer, about the heights of the scenario. *)
AnyBlock ==
    {Block(n, f) : n \in config.heights, f \in {0, 2}}
        \cup {Block(n, 1) : n \in config.forks}
AnyAnswers ==
    {NoAnswer} \cup
    UNION {{[ok |-> TRUE, block |-> b, root |-> history_root(b), history |-> {l}] :
                l \in ToSet(history_root(b))} : b \in AnyBlock}
(* The other peer proves with blocks of the chain, or with none of them. *)
AnyProofs ==
    LET epochs == 1 .. epoch_at(config.max)
    IN {[e \in epochs |-> IF e \in own THEN Own(e) ELSE Foreign(e)] : own \in SUBSET epochs}

-----------------------------------------------------------------------------
(* The two nodes follow the chain. *)
Init ==
    /\ config \in Configurations
    /\ head = [server |-> Block(config.server, 0), client |-> Block(config.client, 0)]
    /\ stored = [n \in Nodes |-> NoNumber]
    /\ call = NoCall

(* The state of a get_or_await_block after an event that added blocks. *)
Awaited(added) ==
    IF call.kind # "await" THEN call
    ELSE IF call.block \in added THEN [call EXCEPT !.kind = "verify"]
    ELSE IF call.left = 1 THEN [call EXCEPT !.kind = "trie"]
    ELSE [call EXCEPT !.left = @ - 1]

SetHead(who, new, fork_top, added) ==
    /\ head' = [head EXCEPT ![who] = new]
    /\ stored' = [stored EXCEPT ![who] = IF @ > fork_top THEN @ ELSE fork_top]
    /\ call' = IF who = "client" THEN Awaited(added) ELSE call
    /\ UNCHANGED config

Extend(who) ==
    \E f \in {0, 1} :
        LET h == head[who]
            new == Block(h.number + 1, f)
        IN /\ new.number <= config.max
           /\ f = 1 => new.number \in config.forks
           /\ h.number \in config.forks => h.fork = f \/ (h.fork = 0 /\ f = 0)
           /\ h.fork = 1 => f = 1
           /\ SetHead(who, new, IF f = 1 THEN new.number ELSE NoNumber, {new})

(* Branch 0 wins against branch 1: its blocks are adopted. *)
Rebranch(who) ==
    /\ head[who].fork = 1
    /\ \E n \in config.forks :
           /\ n >= head[who].number
           /\ SetHead(who, Block(n, 0), NoNumber, {Block(k, 0) : k \in {j \in config.forks : j <= n}})

(* A block of branch 1 is stored as an inferior fork. *)
Forked(who) ==
    /\ head[who].fork = 0
    /\ head[who].number \in config.forks
    /\ \E n \in config.forks :
           /\ n = IF stored[who] = NoNumber THEN Min(config.forks) ELSE stored[who] + 1
           /\ n <= head[who].number
           /\ SetHead(who, head[who], n, {Block(n, 1)})

-----------------------------------------------------------------------------
(* prove_transactions_from_receipts: the heads are read once. *)
Lookup ==
    /\ call = NoCall
    /\ \E receipts \in config.lookups :
           /\ \A r \in receipts : r.number <= head["client"].number
           /\ call' = [kind |-> "txs", head |-> head["client"], receipts |-> receipts,
                       peers |-> config.peers, peer |-> "none", groups |-> {}, verified |-> {},
                       unproven |-> NoAnswer]
    /\ UNCHANGED <<config, head, stored>>

NextPeer ==
    /\ call.kind = "txs" /\ call.groups = {} /\ ~call.unproven.ok
    /\ \/ \E p \in call.peers :
             /\ hashes_by_block(call) # {}
             /\ call' = [call EXCEPT !.peers = @ \ {p}, !.peer = p,
                                     !.groups = hashes_by_block(call)]
       \/ /\ call.peers = {} \/ hashes_by_block(call) = {}
          /\ call' = [call EXCEPT !.kind = "found", !.peer = "none"]
    /\ UNCHANGED <<config, head, stored>>

Answers(group) ==
    IF call.peer = "server" THEN {TransactionsProof(head["server"], group)} ELSE AnyAnswers

Answer ==
    /\ call.kind = "txs" /\ ~call.unproven.ok
    /\ \E group \in call.groups : \E a \in Answers(group) :
        LET rest == [call EXCEPT !.groups = @ \ {group}]
            verdict == Verdict(call.head, a)
        IN call' = CASE verdict = "proven" -> Accept(rest, a.history)
                     [] verdict = "unproven" -> [rest EXCEPT !.unproven = [ok |-> TRUE, block |-> a.block, history |-> a.history]]
                     [] OTHER -> rest
    /\ UNCHANGED <<config, head, stored>>

(* No answer at all: nothing more is asked of this peer. *)
RequestFails ==
    /\ call.kind = "txs" /\ ~call.unproven.ok /\ call.groups # {}
    /\ call' = [call EXCEPT !.groups = {}]
    /\ UNCHANGED <<config, head, stored>>

ProofAnswers ==
    IF call.peer = "server"
    THEN {BlocksProof(head["server"], election_head(call.head), call.unproven.block.number)}
    ELSE {[ok |-> TRUE, proof |-> p] : p \in AnyProofs}

AnswerBlocksProof ==
    /\ call.kind = "txs" /\ call.unproven.ok
    /\ \E a \in ProofAnswers :
        LET b == call.unproven.block
            rest == [call EXCEPT !.unproven = NoAnswer]
        IN call' = IF /\ a.ok /\ is_election_block_at(b.number)
                      /\ is_block_proven(a.proof, Own(epoch_at(election_head(call.head))), AsEpoch(b))
                   THEN Accept(rest, call.unproven.history)
                   ELSE rest
    /\ UNCHANGED <<config, head, stored>>

-----------------------------------------------------------------------------
(* get_trie: a proof of the state of the peer's head block. *)
LookupState ==
    /\ call = NoCall /\ config.trie
    /\ call' = [kind |-> "trie", peers |-> config.peers, block |-> NoNumber, state |-> NoNumber,
                left |-> 0, banned |-> {}, peer |-> "none"]
    /\ UNCHANGED <<config, head, stored>>

TrieAnswers(p) ==
    IF p = "server" THEN {[block |-> head["server"], state |-> head["server"]]}
    ELSE {[block |-> b, state |-> s] : b \in AnyBlock, s \in {head["client"], Block(1, 2)}}

(* get_or_await_block: the block is known, or its arrival is awaited. *)
AnswerTrie ==
    /\ call.kind = "trie"
    /\ \/ \E p \in call.peers : \E a \in TrieAnswers(p) :
             call' = [call EXCEPT !.kind = IF Known("client", a.block) THEN "verify" ELSE "await",
                                  !.peers = @ \ {p}, !.peer = p, !.block = a.block,
                                  !.state = a.state, !.left = MAX_BLOCK_DRIFT]
       \/ /\ call.peers = {}
          /\ call' = [call EXCEPT !.kind = "failed"]
    /\ UNCHANGED <<config, head, stored>>

(* The proof is compared with the state root; a mismatch bans the peer. *)
verify_values(state, block) == state = block

VerifyTrie ==
    /\ call.kind = "verify"
    /\ call' = IF verify_values(call.state, call.block) THEN [call EXCEPT !.kind = "state"]
               ELSE [call EXCEPT !.kind = "trie", !.banned = @ \cup {call.peer}]
    /\ UNCHANGED <<config, head, stored>>

Next ==
    \/ \E who \in Nodes : Extend(who) \/ Rebranch(who) \/ Forked(who)
    \/ Lookup \/ NextPeer \/ Answer \/ RequestFails \/ AnswerBlocksProof
    \/ LookupState \/ AnswerTrie \/ VerifyTrie

Spec == Init /\ [][Next]_vars

-----------------------------------------------------------------------------
(* Every node is at a block of the chain; a call holds what it asked for. *)
TypeOK ==
    /\ \A n \in Nodes : /\ head[n].number \in genesis_block_number .. config.max
                         /\ head[n].fork = 1 => head[n].number \in config.forks
                         /\ stored[n] \in {NoNumber} \cup config.forks
    /\ call.kind \in {"none", "txs", "found", "trie", "await", "verify", "state", "failed"}
    /\ call.kind = "await" => call.left \in 1 .. MAX_BLOCK_DRIFT
    /\ call.kind \in {"txs", "found"} =>
          \A l \in call.verified : Cardinality({k \in call.verified : k.tx = l.tx}) = 1

(* A transaction is reported only if it is in the requested block of the     *)
(* chain the client was on when the lookup began, whatever the peers answer  *)
(* and however the chain moves meanwhile.                                    *)
OnlyProvenFacts ==
    call.kind \in {"txs", "found"} =>
        \A l \in call.verified :
            /\ l.number <= call.head.number
            /\ l = Leaf(BlockAt(call.head, l.number))
            /\ \E r \in call.receipts : r.tx = l.tx /\ r.number \in {NoNumber, l.number}

Serves(h, c, group) ==
    /\ OnMain(h, c)
    /\ \/ is_election_block_at(group.number)
       \/ /\ election_head(h) = election_head(c)
          /\ is_micro_block_at(group.number) => group.number >= macro_head(h) - blocks_per_batch
Accepted(group, a) ==
    /\ Verdict(call.head, a) \in {"proven", "unproven"}
    /\ {r \in call.receipts : r.tx \in group.txs /\ Leaf(BlockAt(call.head, r.number)).tx = r.tx}
          \subseteq {[tx |-> l.tx, number |-> l.number] : l \in a.history}

(* A full node whose chain contains the client's head proves what the client *)
(* asks for, as long as it has not gone past the end of the client's epoch   *)
(* (or the block asked for is an election block) and has not finalised the   *)
(* batch after that of the block.                                            *)
HonestAnswersVerify ==
    call.kind = "txs" /\ call.peer = "server" =>
        \A group \in {g \in call.groups : g.number # NoNumber} :
            (\A tx \in group.txs : Positions(call.head, {tx}) # {})
            /\ Serves(head["server"], call.head, group)
                => Accepted(group, TransactionsProof(head["server"], group))

(* prove_transaction: a transaction of a finalised epoch is proven by the    *)
(* election block of its epoch, unless it is in an election block itself.    *)
FinalizedAreProven ==
    LET h == head["server"]
    IN \A n \in genesis_block_number + 1 .. election_head(h) :
          ~is_election_block_at(n) =>
             LET leaf == Leaf(BlockAt(h, n))
                 a == TransactionsProof(h, [number |-> NoNumber, txs |-> {leaf.tx}])
             IN /\ a.ok /\ a.block = BlockAt(h, election_block_of(epoch_at(n)))
                /\ a.root = history_root(a.block) /\ a.history = {leaf}

(* The proof of an earlier election block that a full node builds for the    *)
(* client's election head is accepted, for every block the head does not     *)
(* already reference; interlinks are as long as get_next_interlink asserts.  *)
BlocksAreProven ==
    LET latest == epoch_at(election_head(head["client"]))
    IN /\ InterlinksLongEnough
       /\ \A target \in 1 .. latest - 1 :
            is_block_proven(HonestProof(target, latest), Own(latest), Own(target))

Locators == LET c == head["client"]
            IN <<BlockAt(c, macro_head(c)), BlockAt(c, election_head(c)),
                 BlockAt(c, genesis_block_number)>>

(* A client that is behind the macro head of a node always learns a next     *)
(* macro block from its macro chain, and never one it cannot connect.        *)
MacroChainProgress ==
    LET h == head["server"]
        start == FirstLocator(h, Locators, TRUE)
        answer == MacroChain(h, start, 1)
        known == macro_head(head["client"])
        news == answer.epochs \cup ({answer.checkpoint} \ {NoNumber})
    IN /\ start # NoNumber
       /\ macro_head(h) > known => \E n \in news : n > known
       /\ answer.checkpoint # NoNumber =>
            answer.checkpoint > start
            /\ last_election_block(answer.checkpoint) \in
                  answer.epochs \cup {last_election_block(start)}

Connected(blocks) ==
    \A i \in 1 .. Len(blocks) - 1 :
        BlockAt(blocks[i + 1], blocks[i].number) = blocks[i]
        /\ blocks[i + 1].number = blocks[i].number + 1

(* The blocks sent for a missing ancestor follow each other, start after a   *)
(* block the client named or at a macro block, and stay within one batch.    *)
MissingBlocksConnect ==
    LET h == head["server"]
        c == head["client"]
        locators == <<c>> \o Locators
        forward == handle_forward(h, locators, h)
        backward == handle_backward(locators, h)
    IN /\ Connected(forward) /\ Connected(backward)
       /\ forward # <<>> =>
            /\ \E l \in ToSet(locators) : l = BlockAt(forward[1], forward[1].number - 1)
            /\ \A i \in 1 .. Len(forward) - 1 : ~is_macro_block_at(forward[i].number)
            /\ OnMain(h, Last(forward))
       /\ backward # <<>> =>
            /\ Last(backward) = h
            /\ \/ is_macro_block_at(backward[1].number)
               \/ BlockAt(h, backward[1].number - 1) \in ToSet(locators)
       /\ OnMain(h, c) /\ c # h /\ macro_head(c) = macro_head(h)
            => Len(forward) = h.number - c.number /\ forward = backward

(* A full node is never banned for the state it proves, and a state is only  *)
(* returned for a block the client has stored.                               *)
HonestNotBanned ==
    /\ call.kind \in {"trie", "await", "verify", "state", "failed"} => "server" \notin call.banned
    /\ call.kind = "state" => call.state = call.block /\ Known("client", call.block)

(* A new head ends a wait or uses up one of its blocks. *)
BoundedStep ==
    call.kind = "await" /\ head'["client"] # head["client"] =>
        call'.kind # "await" \/ call'.left < call.left

(* The wait for the block of a proof ends after MAX_BLOCK_DRIFT events that  *)
(* add blocks.                                                               *)
WaitIsBounded == [][BoundedStep]_vars

(* What the comment in prove_txns_with_block_number promises: a micro block  *)
(* of the batch before the last macro block is still proven.  Not so in the  *)
(* code: once that macro block is an election block, the proof is made with  *)
(* the whole tree of the epoch and does not fit the micro block.             *)
PreviousBatchIsServed ==
    call.kind = "txs" /\ call.peer = "server" =>
        \A group \in {g \in call.groups : g.number # NoNumber} :
            /\ \A tx \in group.txs : Positions(call.head, {tx}) # {}
            /\ is_micro_block_at(group.number)
            /\ OnMain(head["server"], call.head)
            /\ group.number >= macro_head(head["server"]) - blocks_per_batch
            => Accepted(group, TransactionsProof(head["server"], group))

(* The comment in prove_transaction: a transaction of a finalised epoch is   *)
(* proven by the election block of that epoch.  Not so in the code: for a    *)
(* transaction in an election block, election_block_after is that of the     *)
(* next epoch.                                                               *)
FinalizedAreProvable ==
    \A n \in genesis_block_number + 1 .. election_head(head["server"]) :
        TransactionsProof(head["server"], [number |-> NoNumber, txs |-> {Leaf(BlockAt(head["server"], n)).tx}]).ok
=============================================================================
