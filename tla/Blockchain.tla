----------------------------- MODULE Blockchain -----------------------------
(***************************************************************************)
(* The full node's chain: how pushed blocks extend the main chain, are     *)
(* stored on forks or cause a rebranch, what the chain store's tables hold *)
(* afterwards and what a restarted node loads from them                    *)
(* (blockchain/src/blockchain/{push,rebranch_utils,verify,blockchain}.rs,  *)
(* blockchain/src/chain_store.rs, blockchain-interface/src/                *)
(* chain_ordering.rs).                                                     *)
(*                                                                         *)
(* Blocks are the members of Hashes.  A hash commits to its whole chain,   *)
(* so its parent, its number, its kind and whether its state roots match   *)
(* its execution are constants.  The accounts trie is complete; the trie   *)
(* and the history store are represented by the sequence of the blocks     *)
(* applied to them.  Block numbers count from the genesis block.           *)
(***************************************************************************)
EXTENDS Integers, Sequences, FiniteSets, FiniteSetsExt

CONSTANTS
    Hashes,           \* the genesis block and the blocks that may be pushed
    Genesis,
    Chain,            \* each block's chain, from the genesis block to itself
    Skip,             \* the skip blocks
    Invalid,          \* well-signed blocks that check_and_commit refuses
    Unprunable,       \* macro blocks that end a full history chunk
    BlocksPerBatch,
    BatchesPerEpoch,
    MaxEpochsStored,
    None              \* Option::None

VARIABLES
    db,               \* the database: chain store, accounts and history
    state,            \* BlockchainState, in memory
    panicked          \* an expect, an assert or a panic! was hit

vars == <<db, state, panicked>>

-----------------------------------------------------------------------------
(* The calendar.                                                           *)

BlocksPerEpoch == BlocksPerBatch * BatchesPerEpoch

is_macro_block_at(n) == n % BlocksPerBatch = 0

is_election_block_at(n) == n % BlocksPerEpoch = 0

last_macro_block(n) == (n \div BlocksPerBatch) * BlocksPerBatch

last_election_block(n) == (n \div BlocksPerEpoch) * BlocksPerEpoch

epoch_at(n) == (n + BlocksPerEpoch - 1) \div BlocksPerEpoch

first_block_of(e) == (e - 1) * BlocksPerEpoch + 1

election_block_of(e) == e * BlocksPerEpoch

Number == [h \in Hashes |-> Len(Chain[h]) - 1]

(* The ancestor of h with number n. *)
At(h, n) == Chain[h][n + 1]

Parent(h) == At(h, Number[h] - 1)

(* The blocks of h's chain with a number in first..last. *)
Segment(h, first, last) == {At(h, n) : n \in first..last}

(* parent_election_hash *)
ParentElection(h) == At(h, last_election_block(Number[h] - 1))

(***************************************************************************)
(* Two macro blocks of one height never both carry the votes of 2f+1 slots *)
(* (module Voting), and correct validators only vote for blocks that       *)
(* verify on top of their predecessors.                                    *)
(***************************************************************************)
BlocksAssumption ==
    /\ Genesis \in Hashes
    /\ Chain \in [Hashes -> Seq(Hashes)]
    /\ Chain[Genesis] = <<Genesis>>
    /\ \A h \in Hashes \ {Genesis} :
          \E p \in Hashes : Chain[h] = Append(Chain[p], h)
    /\ \A h, i \in Hashes :
          is_macro_block_at(Number[h]) /\ Number[h] = Number[i] => h = i
    /\ \A h \in Skip : ~is_macro_block_at(Number[h])
    /\ \A h \in Hashes :
          is_macro_block_at(Number[h]) => \A n \in 0..Number[h] : At(h, n) \notin Invalid
    /\ \A h \in Unprunable : is_macro_block_at(Number[h])

PolicyAssumption ==
    /\ BlocksPerBatch \in Nat \ {0, 1}
    /\ BatchesPerEpoch \in Nat \ {0}
    /\ MaxEpochsStored \in Nat \ {0}
    /\ None \notin Hashes

-----------------------------------------------------------------------------
(* The chain store.                                                        *)

ChainInfo == [on_main_chain : BOOLEAN, main_chain_successor : Hashes \cup {None}]

OffMain == [on_main_chain |-> FALSE, main_chain_successor |-> None]

Numbers == {Number[h] : h \in Hashes}

put_chain_info(d, h, info, include_body) ==
    [d EXCEPT !.chain[h] = info,
              !.pushed = IF include_body /\ info.on_main_chain
                         THEN @ \cup {h} ELSE @,
              !.stored = IF include_body /\ ~info.on_main_chain
                         THEN @ \cup {h} ELSE @,
              !.height_idx = @ \cup {h}]

(* remove_chain_info of every block of a set *)
remove_chain_infos(d, S) ==
    [d EXCEPT !.chain = [h \in Hashes |-> IF h \in S THEN None ELSE @[h]],
              !.pushed = @ \ S,
              !.stored = @ \ S,
              !.height_idx = @ \ S]

Known(d, h) == d.chain[h] # None

OnMain(d, h) == Known(d, h) /\ d.chain[h].on_main_chain

(* get_chain_info with include_body finds the block. *)
HasBody(d, h) ==
    /\ Known(d, h)
    /\ h \in IF d.chain[h].on_main_chain THEN d.pushed ELSE d.stored

(* The blocks get_chain_info_at may return for a height. *)
InfoAt(d, n) == {h \in d.height_idx : Number[h] = n /\ OnMain(d, h)}

finalize_batch(d) ==
    [d EXCEPT !.height_idx = @ \ d.stored,
              !.stored = {},
              !.revert_table = [n \in Numbers |-> None]]

prune_epoch(d, e) ==
    IF e <= 0 THEN d
    ELSE LET gone == {h \in d.height_idx :
                        /\ Number[h] \in first_block_of(e)..election_block_of(e) - 1
                        /\ h \notin Unprunable}
         IN  [d EXCEPT !.chain = [h \in Hashes |-> IF h \in gone THEN None ELSE @[h]],
                       !.pushed = @ \ gone,
                       !.height_idx = @ \ gone,
                       !.stored = {}]

(***************************************************************************)
(* check_and_commit of a run of blocks of h's chain, the ones with a       *)
(* number in first..last, none of them invalid: accounts and history grow, *)
(* and each micro block leaves its receipts under its number.              *)
(***************************************************************************)
commit_accounts(d, h, first, last) ==
    [d EXCEPT !.applied = @ \o SubSeq(Chain[h], first + 1, last + 1),
              !.revert_table =
                 [n \in Numbers |->
                    IF n \in first..last /\ ~is_macro_block_at(n)
                    THEN At(h, n) ELSE @[n]]]

-----------------------------------------------------------------------------
(* Chain ordering.                                                         *)

(***************************************************************************)
(* The walk from a block back to the main chain, over chain infos: the     *)
(* number of the first block that is on the main chain or missing.         *)
(***************************************************************************)
WalkEnd(d, h) ==
    Max({n \in 0..Number[h] - 1 :
            ~Known(d, At(h, n)) \/ OnMain(d, At(h, n))})

WalkFails(d, h) == ~Known(d, At(h, WalkEnd(d, h)))

(* The heights at which the fork and the main chain differ in skip blocks. *)
SkipDiffers(d, h, first, last) ==
    {n \in first..last :
        \E m \in InfoAt(d, n) : (At(h, n) \in Skip) # (m \in Skip)}

order_chains(d, s, h) ==
    LET n == Number[s.head]
        differ == SkipDiffers(d, h, WalkEnd(d, h) + 1, Min({n, Number[h]}))
    IN  CASE Parent(h) = s.head -> "Extend"
          [] Parent(h) # s.head /\ is_macro_block_at(Number[h]) /\ Number[h] > n
                -> "Superior"
          [] OTHER -> IF differ # {}
                      THEN IF At(h, Min(differ)) \in Skip
                           THEN "Superior" ELSE "Inferior"
                      ELSE IF n < Number[h] THEN "Superior" ELSE "Unknown"

(* detect_forks reads every block that the index has at the block's height. *)
DetectionPanics(d, h) ==
    /\ ~is_macro_block_at(Number[h])
    /\ h \notin Skip
    /\ \E i \in d.height_idx : Number[i] = Number[h] /\ ~Known(d, i)

(* order_chains only walks and only looks at heights for a fork block. *)
OrderingPanics(d, s, h) ==
    /\ Parent(h) # s.head
    /\ ~(is_macro_block_at(Number[h]) /\ Number[h] > Number[s.head])
    /\ \/ WalkFails(d, h)
       \/ \E n \in WalkEnd(d, h) + 1..Min({Number[s.head], Number[h]}) :
             InfoAt(d, n) = {}

-----------------------------------------------------------------------------
(* Rebranching.                                                            *)

(* find_common_ancestor needs the body of each block it meets. *)
AncestorPanics(d, h) ==
    \E n \in WalkEnd(d, h)..Number[h] - 1 : ~HasBody(d, At(h, n))

(* The numbers of the fork's blocks that do not apply. *)
FailsAt(h, first, last) == {n \in first..last : At(h, n) \in Invalid}

(***************************************************************************)
(* Reverting from the head down to the ancestor numbered a needs each      *)
(* predecessor's body, receipts under each number and no macro block.      *)
(***************************************************************************)
RevertPanics(d, s, a) ==
    \E n \in a + 1..Number[s.head] :
       \/ is_macro_block_at(n)
       \/ ~HasBody(d, At(s.head, n - 1))
       \/ d.revert_table[n] # At(s.head, n)

(* The accounts of the last reverted block stay applied. *)
RevertedOneLess(d, a) == [d EXCEPT !.applied = SubSeq(@, 1, a + 2)]

(* revert_accounts of every main chain block above number a *)
revert_accounts(d, a) == [d EXCEPT !.applied = SubSeq(@, 1, a + 1)]

(* The fork h on the main chain from number a + 1 on, its blocks linked. *)
Adopted(h, a) ==
    [i \in Segment(h, a + 1, Number[h]) |->
        [on_main_chain |-> TRUE,
         main_chain_successor |-> IF i = h THEN None ELSE At(h, Number[i] + 1)]]

(* The unset loop runs to the common ancestor instead of stopping before it. *)
UnsettingAncestor(c, s, h, a) ==
    [i \in Hashes |->
        CASE i \in DOMAIN Adopted(h, a) -> Adopted(h, a)[i]
          [] i \in Segment(s.head, a, Number[s.head]) -> OffMain
          [] OTHER -> c[i]]

(* The chain infos after a rebranch to h from the ancestor with number a. *)
Relinked(c, s, h, a) ==
    [i \in Hashes |->
        CASE i \in DOMAIN Adopted(h, a) -> Adopted(h, a)[i]
          [] i \in Segment(s.head, a + 1, Number[s.head]) -> OffMain
          [] i = At(h, a) -> [c[i] EXCEPT !.main_chain_successor = At(h, a + 1)]
          [] OTHER -> c[i]]

(***************************************************************************)
(* The write transaction of a rebranch to h whose common ancestor has the  *)
(* number a.  Adopted blocks stay in the table of stored blocks.           *)
(***************************************************************************)
rebranch_to(d, s, h, a) ==
    LET reverted == Segment(s.head, a + 1, Number[s.head])
        adopted == DOMAIN Adopted(h, a)
    IN  [commit_accounts(revert_accounts(d, a), h, a + 1, Number[h])
           EXCEPT !.chain = Relinked(@, s, h, a),
                  !.pushed = (@ \ reverted) \cup adopted,
                  !.stored = @ \cup reverted,
                  !.height_idx = @ \cup reverted \cup adopted,
                  !.head = h]

-----------------------------------------------------------------------------
(* The state in memory.                                                    *)

(* What extend and rebranch do to BlockchainState once they have committed. *)
WithHead(s, h) ==
    LET election == is_election_block_at(Number[h])
    IN  [head |-> h,
         macro |-> IF is_macro_block_at(Number[h]) THEN h ELSE s.macro,
         election |-> IF election THEN h ELSE s.election,
         previous |-> IF election THEN s.election ELSE s.previous]

(* BlockchainState of a node started on a database, or None if load refuses. *)
load(d) ==
    LET macro == InfoAt(d, last_macro_block(Number[d.head]))
        election == InfoAt(d, last_election_block(Number[d.head]))
    IN  IF \/ ~OnMain(d, Genesis)
           \/ ~HasBody(d, d.head)
           \/ d.applied[Len(d.applied)] # d.head
           \/ macro = {} \/ election = {}
        THEN None
        ELSE LET e == CHOOSE h \in election : TRUE
             IN  [head |-> d.head,
                  macro |-> CHOOSE h \in macro : TRUE,
                  election |-> e,
                  previous |-> IF e # Genesis /\ HasBody(d, ParentElection(e))
                               THEN ParentElection(e) ELSE None]

Init ==
    /\ db = [chain |-> [h \in Hashes |->
                          IF h = Genesis
                          THEN [OffMain EXCEPT !.on_main_chain = TRUE] ELSE None],
             pushed |-> {Genesis},
             stored |-> {},
             height_idx |-> {Genesis},
             revert_table |-> [n \in Numbers |-> None],
             applied |-> <<Genesis>>,
             head |-> Genesis]
    /\ state = [head |-> Genesis, macro |-> Genesis, election |-> Genesis,
                previous |-> None]
    /\ panicked = FALSE

-----------------------------------------------------------------------------
(* The actions.                                                            *)

(***************************************************************************)
(* What verify_block asks of the node's state: a macro block follows the   *)
(* election head, and the macro block before h, which names the punished   *)
(* slots and with them the proposer, is found by its height.               *)
(***************************************************************************)
Verifies(h) ==
    /\ is_macro_block_at(Number[h]) => ParentElection(h) = state.election
    /\ InfoAt(db, last_macro_block(Number[h] - 1)) # {}

(***************************************************************************)
(* do_push up to the chain ordering: h is not ignored, not known, no       *)
(* orphan, and verifies.  A push holds the upgradable lock, and so does    *)
(* the verification of a proposal: pushes and verifications do not overlap *)
(* and each of them is one action.                                         *)
(***************************************************************************)
Acceptable(h) ==
    /\ ~panicked
    /\ Number[h] > last_macro_block(Number[state.head])
    /\ ~Known(db, h)
    /\ Known(db, Parent(h))
    /\ Verifies(h)

(* The push stops in detect_forks or in order_chains. *)
PushPanics(h) ==
    /\ Acceptable(h)
    /\ DetectionPanics(db, h) \/ OrderingPanics(db, state, h)
    /\ panicked' = TRUE
    /\ UNCHANGED <<db, state>>

(* The push comes to one of the outcomes of order_chains. *)
Ordered(h, orders) ==
    /\ Acceptable(h)
    /\ ~DetectionPanics(db, h)
    /\ ~OrderingPanics(db, state, h)
    /\ order_chains(db, state, h) \in orders

(* The block goes into the table of stored blocks. *)
Store(h) ==
    /\ Ordered(h, {"Inferior", "Unknown"})
    /\ db' = put_chain_info(db, h, OffMain, TRUE)
    /\ UNCHANGED <<state, panicked>>

(* The database after extend has committed h. *)
Extended(d, h) ==
    LET n == Number[h]
        committed == commit_accounts(d, h, n, n)
        linked == put_chain_info(
                    put_chain_info(committed, h,
                        [on_main_chain |-> TRUE, main_chain_successor |-> None], TRUE),
                    Parent(h), [d.chain[Parent(h)] EXCEPT !.main_chain_successor = h],
                    FALSE)
        headed == [linked EXCEPT !.head = h]
        finalized == IF is_macro_block_at(n) THEN finalize_batch(headed) ELSE headed
    IN  IF is_election_block_at(n)
        THEN prune_epoch(finalized, epoch_at(n) - MaxEpochsStored)
        ELSE finalized

(* extend: a block that does not apply is refused and nothing changes. *)
Extend(h) ==
    /\ Ordered(h, {"Extend"})
    /\ h \notin Invalid
    /\ db' = Extended(db, h)
    /\ state' = WithHead(state, h)
    /\ UNCHANGED panicked

(***************************************************************************)
(* rebranch.  A common ancestor below the macro head makes it an invalid   *)
(* fork; a fork block that does not apply aborts the transaction, and a    *)
(* second one removes the fork from that block on.                         *)
(***************************************************************************)
Rebranch(h) ==
    /\ Ordered(h, {"Superior"})
    /\ LET a == WalkEnd(db, h)
           fails == FailsAt(h, a + 1, Number[h])
       IN  IF AncestorPanics(db, h)
           THEN panicked' = TRUE /\ UNCHANGED <<db, state>>
           ELSE /\ a >= Number[state.macro]
                /\ IF RevertPanics(db, state, a)
                   THEN panicked' = TRUE /\ UNCHANGED <<db, state>>
                   ELSE /\ UNCHANGED panicked
                        /\ IF fails # {}
                           THEN /\ db' = remove_chain_infos(db,
                                            Segment(h, Min(fails), Number[h]))
                                /\ UNCHANGED state
                           ELSE /\ db' = rebranch_to(db, state, h, a)
                                /\ state' = WithHead(state, h)

(***************************************************************************)
(* verify_macro_block_proposal for a proposal on top of a fork block p     *)
(* (on top of the main chain it changes nothing): the fork is applied in a *)
(* transaction that is not committed, but blocks that do not apply are     *)
(* removed in a second one.                                                *)
(***************************************************************************)
VerifyProposal(p) ==
    /\ ~panicked
    /\ is_macro_block_at(Number[p] + 1)
    /\ Number[p] + 1 > Number[state.macro]
    /\ Known(db, p)
    /\ ~OnMain(db, p)
    /\ At(p, last_election_block(Number[p])) = state.election
    /\ LET a == WalkEnd(db, p)
           fails == FailsAt(p, a + 1, Number[p])
       IN  IF ~HasBody(db, p) \/ AncestorPanics(db, p)
           THEN panicked' = TRUE /\ UNCHANGED db
           ELSE /\ a >= Number[state.macro]
                /\ IF RevertPanics(db, state, a)
                   THEN panicked' = TRUE /\ UNCHANGED db
                   ELSE /\ fails # {}
                        /\ db' = remove_chain_infos(db, Segment(p, Min(fails), Number[p]))
                        /\ UNCHANGED panicked
    /\ UNCHANGED state

(* The process is started again; a push it was in has committed or not. *)
Restart ==
    /\ state' = load(db)
    /\ panicked' = FALSE
    /\ UNCHANGED db

Next ==
    \/ \E h \in Hashes : PushPanics(h) \/ Store(h) \/ Extend(h) \/ Rebranch(h)
    \/ \E p \in Hashes : VerifyProposal(p)
    \/ Restart

Spec == Init /\ [][Next]_vars

-----------------------------------------------------------------------------
(* Properties.                                                             *)

(* Every table and the state in memory have their shapes. *)
TypeOK ==
    /\ BlocksAssumption /\ PolicyAssumption
    /\ db.chain \in [Hashes -> ChainInfo \cup {None}]
    /\ db.pushed \subseteq Hashes /\ db.stored \subseteq Hashes
    /\ db.height_idx \subseteq Hashes
    /\ db.revert_table \in [Numbers -> Hashes \cup {None}]
    /\ db.head \in Hashes
    /\ state.head \in Hashes /\ state.macro \in Hashes /\ state.election \in Hashes
    /\ state.previous \in Hashes \cup {None}
    /\ panicked \in BOOLEAN

(***************************************************************************)
(* No push or proposal verification finds the store "corrupted", reverts   *)
(* across a macro block or misses the receipts of a block it reverts:      *)
(* the expect, assert and panic! calls of order_chains,                    *)
(* find_common_ancestor, rebranch_to and revert_accounts are never hit.    *)
(***************************************************************************)
NoPanic == ~panicked

(***************************************************************************)
(* When blocks do not apply, the only panics are those over a block that   *)
(* was left without its predecessor: the removal of a failed fork          *)
(* (push_wrapper, verify_macro_block_proposal) takes the fork's own blocks *)
(* and not the ones that compete with them on top.                         *)
(***************************************************************************)
PanicsOnOrphansOnly ==
    panicked => \E h \in Hashes \ {Genesis} :
                    Known(db, h) /\ ~OnMain(db, h) /\ ~Known(db, Parent(h))

(***************************************************************************)
(* Whatever was extended, rebranched and pruned, the blocks flagged        *)
(* on_main_chain are exactly the known ancestors of the head, each with    *)
(* its body among the pushed blocks and linked to its successor, and the   *)
(* chain is gapless from the election block before the last stored epoch.  *)
(***************************************************************************)
MainChainIsLinked ==
    LET n == Number[state.head]
        line == Segment(state.head, 0, n)
        kept == election_block_of(
                  Max({0, epoch_at(last_election_block(n)) - MaxEpochsStored}))
    IN  /\ \A h \in Hashes : OnMain(db, h) <=> h \in line /\ Known(db, h)
        /\ \A h \in line : Known(db, h) => h \in db.pushed
        /\ \A h \in line : Number[h] >= kept => Known(db, h)
        /\ \A k \in 0..n : Known(db, At(state.head, k)) =>
              db.chain[At(state.head, k)].main_chain_successor =
                 IF k = n THEN None ELSE At(state.head, k + 1)

(***************************************************************************)
(* Accounts and history always are what applying the blocks of the main    *)
(* chain in order gives, also after rebranches that failed half-way, all   *)
(* of these blocks apply, and the stored head is the one in memory.        *)
(***************************************************************************)
AccountsFollowHead ==
    /\ db.applied = Chain[state.head]
    /\ Segment(state.head, 0, Number[state.head]) \cap Invalid = {}
    /\ db.head = state.head

(* The rule order_chains implements: earliest skip block, then length. *)
Preferred(h, i) ==
    LET differ == {n \in 0..Min({Number[h], Number[i]}) :
                      (At(h, n) \in Skip) # (At(i, n) \in Skip)}
    IN  IF differ = {} THEN Number[h] > Number[i] ELSE At(h, Min(differ)) \in Skip

(***************************************************************************)
(* The order in which blocks arrived does not matter for the choice of the *)
(* main chain: no stored fork of this batch whose blocks apply has an      *)
(* earlier skip block than the main chain or is a longer chain with the    *)
(* same skip blocks.                                                       *)
(***************************************************************************)
HeadIsBest ==
    \A h \in Hashes :
       /\ Known(db, h) /\ ~OnMain(db, h)
       /\ Number[h] > Number[state.macro]
       /\ At(h, Number[state.macro]) = state.macro
       /\ \A n \in Number[state.macro]..Number[h] :
             Known(db, At(h, n)) /\ At(h, n) \notin Invalid
       => ~Preferred(h, state.head)

(* A step keeps the macro blocks on the main chain. *)
FinalStep ==
    \A h \in Hashes :
      is_macro_block_at(Number[h]) /\ OnMain(db, h) /\ Known(db', h)
         => OnMain(db', h)

(***************************************************************************)
(* A macro block on the main chain stays there: no push, rebranch or       *)
(* restart takes it off, it can only be pruned.                            *)
(***************************************************************************)
MacroIsFinal == [][FinalStep]_vars

(***************************************************************************)
(* A node that stops at any moment loads the state it had: load finds the  *)
(* head, macro head, election head and previous election block that push   *)
(* keeps in memory.                                                        *)
(***************************************************************************)
RestartRestores == load(db) = state

(***************************************************************************)
(* Every block of the main chain is found by its height                    *)
(* (get_chain_info_at): finalize_batch removes "blocks that were only      *)
(* stored" from the height index.  Not so in the code: a block that was    *)
(* stored as a fork and adopted by a rebranch still has its entry in the   *)
(* table of stored blocks, and loses its place in the index.               *)
(***************************************************************************)
MainChainIndexed == \A h \in Hashes : OnMain(db, h) => h \in db.height_idx
=============================================================================
