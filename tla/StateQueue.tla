------------------------------ MODULE StateQueue ------------------------------
(***************************************************************************)
(* State sync of a full node (consensus/src/sync/live: state_queue,        *)
(* diff_queue, queue.rs) and what the blockchain does with partial states  *)
(* (blockchain/src/blockchain: push.rs, rebranch_utils.rs, accounts.rs).   *)
(*                                                                         *)
(* The node follows the blocks while its accounts trie is incomplete: it   *)
(* requests the trie in chunks, key range after key range, each for the    *)
(* block that its sender was at; a chunk is committed when this block      *)
(* becomes the head.  Blocks come from the block queue and, as long as     *)
(* diffs are needed, get a trie diff from a peer before they are pushed.   *)
(* The live syncer polls the queue only while no push is in progress.      *)
(*                                                                         *)
(* The trie maps each key to the block that wrote it last; the state root  *)
(* of a block stands for the whole of its state.  What is known of the     *)
(* trie are the keys below missing.                                        *)
(***************************************************************************)
EXTENDS Integers, Sequences, FiniteSets, FiniteSetsExt, SequencesExt

CONSTANTS
    Blocks, Genesis,
    Number, Parent,
    Changes,              \* the keys that each block writes
    Invalid,              \* blocks that no blockchain accepts
    BlocksPerBatch,
    MaxKey,               \* the keys are 1..MaxKey
    ChunkSize,            \* Policy::state_chunks_max_size
    Peers,
    Configurations        \* QueueConfig, and what happens around the queue

VARIABLES
    config,
    bc,                   \* the blockchain, with its chain store and its trie
    events,               \* blockchain_rx
    buffer, buffer_size,  \* chunks that wait for their block
    current_macro_height,
    start_key,            \* ChunkRequestState
    request,              \* the sync queue of the chunk request component
    diffs, diff_needed,   \* DiffQueue
    blocks_pending_push,  \* the block queue: blocks handed out
    peers,
    ops,                  \* the live syncer: pushes to come
    released,             \* peers handed to the syncer
    rejected,             \* blocks whose push failed
    panicked,
    restarts

chain == <<bc, events>>
chunks == <<buffer, buffer_size, current_macro_height, start_key, request>>
blocks == <<diffs, diff_needed, blocks_pending_push>>
vars == <<config, chain, chunks, blocks, peers, ops, released, rejected, panicked, restarts>>

Keys == 1..MaxKey
Complete == MaxKey + 1    \* no key is missing
Stump == "stump"          \* a value in the missing part

last_macro_block(n) == (n \div BlocksPerBatch) * BlocksPerBatch

is_macro(b) == Number[b] % BlocksPerBatch = 0

Ancestors ==
    LET up[b \in Blocks] == IF b = Genesis THEN {b} ELSE {b} \cup up[Parent[b]]
    IN  [b \in Blocks |-> up[b]]

(* The state after b: for each key the last block that wrote it. *)
State ==
    [b \in Blocks |-> [k \in Keys |->
        CHOOSE w \in Ancestors[b] :
            /\ w = Genesis \/ k \in Changes[w]
            /\ \A x \in Ancestors[b] : k \in Changes[x] => Number[x] <= Number[w]]]

(* The blocks from above a to b. *)
Path == [a, b \in Blocks |->
    SetToSortSeq(Ancestors[b] \ Ancestors[a], LAMBDA x, y : Number[x] < Number[y])]

-----------------------------------------------------------------------------
(* The trie.                                                               *)

accounts_complete(c) == c.missing = Complete

(* put_chunk: c after it, and whether the chunk was used. *)
put_chunk(c, chunk) ==
    LET end == IF chunk.end = 0 THEN Complete ELSE chunk.end
        state == State[c.head]
    IN  IF accounts_complete(c) THEN [c |-> c, result |-> "Err"]
        ELSE IF c.missing # chunk.start THEN [c |-> c, result |-> "Ignored"]
        ELSE IF \/ State[chunk.block] # state
                \/ \E k \in 1..c.missing - 1 : c.trie[k] # state[k]
        THEN [c |-> c, result |-> "Err"]
        ELSE [c |-> [c EXCEPT !.missing = end,
                              !.trie = [k \in Keys |-> IF k \in chunk.start..end - 1
                                                       THEN state[k] ELSE @[k]]],
              result |-> "Applied"]

(* remove_chunk *)
remove_chunk(c, start) ==
    IF c.missing <= start THEN c
    ELSE [c EXCEPT !.missing = start,
                   !.trie = [k \in Keys |-> IF k < start THEN @[k] ELSE Stump]]

(***************************************************************************)
(* commit_accounts: a complete trie executes the block, an incomplete one  *)
(* applies its diff to the part that is known.  Only the diff that a       *)
(* complete trie recorded is stored.                                       *)
(***************************************************************************)
commit_accounts(c, b, diff) ==
    LET known == {k \in Changes[b] : k < c.missing}
        after == [c EXCEPT
            !.trie = [k \in Keys |-> IF k \in known THEN b ELSE @[k]],
            !.revert_info = [@ EXCEPT ![Number[b]] =
                [receipts |-> accounts_complete(c),
                 old |-> [k \in Keys |-> IF k \in known THEN c.trie[k] ELSE Stump],
                 keys |-> Changes[b]]],
            !.diffs = IF accounts_complete(c) THEN @ \cup {b} ELSE @]
    IN  IF ~accounts_complete(c) /\ ~diff
        THEN [c |-> c, result |-> "MissingAccountsTrieDiff"]
        ELSE IF b \in Invalid \/ (accounts_complete(c) /\ after.trie # State[b])
        THEN [c |-> c, result |-> "InvalidBlock"]
        ELSE [c |-> after, result |-> "Ok"]

(* revert_diff: a known value in the missing part is unreachable, as is a  *)
(* stump in the complete part.                                             *)
CannotRevert(c, info) ==
    ~info.receipts /\ \E k \in info.keys : (info.old[k] = Stump) # (k >= c.missing)

(* The values that a diff replaced stay. *)
revert_accounts_receipts(c, n) ==
    LET info == c.revert_info[n]
    IN  [c EXCEPT !.trie = [k \in Keys |-> IF info.receipts /\ k \in info.keys
                                           THEN info.old[k] ELSE @[k]]]

revert_accounts(c, n) ==
    LET info == c.revert_info[n]
    IN  [c EXCEPT !.trie = [k \in Keys |-> IF k \in info.keys /\ k < c.missing
                                           THEN info.old[k] ELSE @[k]],
                  !.panic = @ \/ CannotRevert(c, info)]

-----------------------------------------------------------------------------
(* The blockchain.                                                         *)

Main(c) == Ancestors[c.head]

(* rebranch_to, first part: the head is taken back, chunks included. *)
RevertHead(c, b) ==
    LET d == IF c.prev_missing[b] = Complete THEN c ELSE remove_chunk(c, c.prev_missing[b])
    IN  [revert_accounts(d, Number[b]) EXCEPT !.head = Parent[b]]

(* rebranch_to, second part: a block of the fork with the diff at hand. *)
ApplyFork(acc, b) ==
    LET done == commit_accounts(acc.c, b, b \in acc.diffs)
    IN  IF acc.failed # {} THEN [acc EXCEPT !.failed = @ \cup {b}]
        ELSE IF done.result # "Ok" THEN [acc EXCEPT !.failed = {b}]
        ELSE [acc EXCEPT !.c = [done.c EXCEPT !.head = b, !.known = @ \cup {b},
                                              !.prev_missing[b] = acc.c.missing]]

(* rebranch: when a block of the fork fails, it is removed with its        *)
(* successors and the rest of the chain stays as it was.                   *)
rebranch(c, b, diff) ==
    LET fork == Path[c.head, b]
        old == Reverse(Path[b, c.head])
        back == FoldLeft(RevertHead, c, old)
        acc == FoldLeft(ApplyFork,
                        [c |-> back, failed |-> {},
                         diffs |-> c.diffs \cup IF diff THEN {b} ELSE {}], fork)
    IN  IF acc.failed = {}
        THEN [c |-> acc.c, result |-> "Rebranched"]
        ELSE [c |-> [c EXCEPT !.known = @ \ acc.failed, !.panic = back.panic],
              result |-> "InvalidFork"]

extend(c, b, diff) ==
    LET done == commit_accounts(c, b, diff)
    IN  IF done.result # "Ok" THEN done
        ELSE [c |-> [done.c EXCEPT !.head = b, !.known = @ \cup {b},
                                   !.prev_missing[b] = c.missing],
              result |-> "Extended"]

(* do_push of one block; among chains without skip blocks the longer wins. *)
do_push(c, b, diff) ==
    LET head == Number[c.head]
        stored == [c EXCEPT !.known = @ \cup {b}, !.prev_missing[b] = c.missing,
                            !.diffs = IF diff THEN @ \cup {b} ELSE @]
    IN  IF Number[b] <= last_macro_block(head) THEN [c |-> c, result |-> "Ignored"]
        ELSE IF b \in c.known THEN [c |-> c, result |-> "Known"]
        ELSE IF Parent[b] \notin c.known THEN [c |-> c, result |-> "Orphan"]
        ELSE IF Parent[b] = c.head THEN extend(c, b, diff)
        ELSE IF Number[b] > head THEN rebranch(c, b, diff)
        ELSE [c |-> stored, result |-> "Forked"]

(* commit_chunks: one after the other until one fails. *)
CommitChunk(acc, chunk) ==
    LET put == put_chunk(acc.c, chunk)
    IN  IF acc.failed THEN acc
        ELSE [c |-> put.c, failed |-> put.result = "Err",
              committed |-> acc.committed + IF put.result = "Applied" THEN 1 ELSE 0,
              ignored |-> acc.ignored + IF put.result = "Ignored" THEN 1 ELSE 0]

commit_chunks(c, list) ==
    FoldLeft(CommitChunk, [c |-> c, failed |-> FALSE, committed |-> 0, ignored |-> 0], list)

(* The events of a push. *)
Notify(result, b) ==
    IF result = "Extended"
    THEN <<"Extended">> \o IF is_macro(b) THEN <<"Finalized">> ELSE <<>>
    ELSE IF result = "Rebranched"
    THEN <<"Rebranched">> \o IF is_macro(b) THEN <<"Finalized">> ELSE <<>>
    ELSE IF result = "Forked" THEN <<"Stored">> ELSE <<>>

Pushed == {"Ignored", "Known", "Extended", "Rebranched", "Forked"}

(***************************************************************************)
(* blockchain_push of a block: without a diff the push is not tried on an  *)
(* incomplete trie; chunks are committed when the block becomes the head.  *)
(***************************************************************************)
blockchain_push(c, b, diff, list) ==
    LET done == do_push(c, b, diff)
        put == commit_chunks(done.c, list)
        result(x, r) == [c |-> x, result |-> r, failed |-> FALSE, committed |-> 0, ignored |-> 0]
    IN  IF ~diff /\ ~accounts_complete(c) THEN result(c, "NeedsDiff")
        ELSE IF diff /\ done.result \in {"Extended", "Rebranched"}
        THEN [c |-> put.c, result |-> done.result, failed |-> put.failed,
              committed |-> put.committed, ignored |-> put.ignored]
        ELSE result(done.c, done.result)

-----------------------------------------------------------------------------
(* The chunk request component and the state queue.                        *)

Continue(k) == [type |-> "Continue", at |-> k]
Paused(n) == [type |-> "Paused", at |-> n]
Reset == [type |-> "Reset", at |-> 0]
Done == [type |-> "Complete", at |-> 0]

(* batch_has_incomplete_pushes: main chain blocks of the head's batch that *)
(* were pushed on an incomplete trie.                                      *)
batch_has_incomplete_pushes(c) ==
    \E b \in Main(c) : /\ Number[b] > last_macro_block(Number[c.head])
                       /\ c.prev_missing[b] # Complete

diffs_still_needed(c) == ~accounts_complete(c) \/ batch_has_incomplete_pushes(c)

(* with_diff_queue: what a starting node makes of its trie. *)
StartKey(c) == IF diffs_still_needed(c) THEN Reset ELSE Done

Size(buf) == Cardinality(UNION {{<<b, j>> : j \in DOMAIN buf[b]} : b \in Blocks})
NoChunks == [b \in Blocks |-> <<>>]

Init ==
    /\ config \in Configurations
    /\ bc = [known |-> {Genesis}, head |-> Genesis,
             missing |-> config.missing,
             trie |-> [k \in Keys |-> IF k < config.missing THEN Genesis ELSE Stump],
             prev_missing |-> [b \in Blocks |-> Complete],
             revert_info |-> [n \in Range(Number) |->
                                 [receipts |-> TRUE, old |-> State[Genesis], keys |-> {}]],
             diffs |-> {}, panic |-> FALSE]
    /\ events = <<>>
    /\ buffer = NoChunks /\ buffer_size = 0
    /\ current_macro_height = 0
    /\ start_key = StartKey(bc)
    /\ request = <<>>
    /\ diffs = <<>>
    /\ diff_needed = diffs_still_needed(bc)
    /\ blocks_pending_push = {}
    /\ peers = Peers
    /\ ops = <<>>
    /\ released = {}
    /\ rejected = {}
    /\ panicked = FALSE
    /\ restarts = 0

Idle == ops = <<>> /\ ~panicked

(* try_complete_state_sync *)
MayComplete(c) == accounts_complete(c) /\ ~batch_has_incomplete_pushes(c)

(* What an event makes of the chunk requests. *)
AfterEvent(event) ==
    IF event \in {"Extended", "Finalized"} /\ start_key # Done /\ MayComplete(bc) THEN "Complete"
    ELSE IF accounts_complete(bc) THEN "Same"
    ELSE IF event = "Rebranched" THEN "Reset"
    ELSE IF event = "Extended"
            /\ \/ start_key = Done
               \/ start_key.type = "Paused" /\ Number[bc.head] > start_key.at
    THEN "Reset"
    ELSE "Same"

CompleteSync ==
    /\ start_key' = Done
    /\ buffer' = NoChunks /\ buffer_size' = 0
    /\ diff_needed' = FALSE

(* poll_next, blockchain events. *)
PollEvent ==
    /\ Idle /\ events # <<>>
    /\ events' = Tail(events)
    /\ \/ /\ AfterEvent(Head(events)) = "Complete"
          /\ CompleteSync
       \/ /\ AfterEvent(Head(events)) = "Reset"
          /\ start_key' = Reset /\ diff_needed' = TRUE
          /\ UNCHANGED <<buffer, buffer_size>>
       \/ /\ AfterEvent(Head(events)) = "Same"
          /\ UNCHANGED <<start_key, buffer, buffer_size, diff_needed>>
    /\ UNCHANGED <<config, bc, current_macro_height, request, diffs, blocks_pending_push,
                   peers, ops, released, rejected, panicked, restarts>>

(* request_chunk: where the next request starts, 0 for no request. *)
NextStart ==
    CASE start_key.type \in {"Complete", "Paused"} -> 0
      [] start_key.type = "Reset" -> IF accounts_complete(bc) THEN 0 ELSE bc.missing
      [] start_key.type = "Continue" -> start_key.at

CanRequest == peers # {} /\ request = <<>> /\ NextStart # 0

RequestChunk ==
    /\ Idle /\ events = <<>> /\ CanRequest
    /\ request' = [start |-> NextStart, answer |-> "none"]
    /\ start_key' = Continue(NextStart)
    /\ UNCHANGED <<config, chain, buffer, buffer_size, current_macro_height, blocks, peers,
                   ops, released, rejected, panicked, restarts>>

(***************************************************************************)
(* A peer answers: the handler of RequestChunk serves the chunk of its own *)
(* head, or reports that its state is incomplete.  The request component   *)
(* asks the next peer after a failure and gives up when none is left.      *)
(***************************************************************************)
Chunk(b, start) ==
    [block |-> b, start |-> start,
     end |-> IF start + ChunkSize > MaxKey THEN 0 ELSE start + ChunkSize]

AnswerChunk(p) ==
    /\ request # <<>> /\ request.answer = "none" /\ p \in peers
    /\ \/ \E b \in config.serve :
            request' = [start |-> request.start, answer |-> "chunk",
                        chunk |-> Chunk(b, request.start), peer |-> p]
       \/ /\ config.faults
          /\ request' = [start |-> request.start, answer |-> "incomplete", peer |-> p]
       \/ /\ config.faults
          /\ request' = <<>>
    /\ UNCHANGED <<config, chain, buffer, buffer_size, current_macro_height, start_key, blocks,
                   peers, ops, released, rejected, panicked, restarts>>

(* set_start_key *)
set_start_key(chunk) ==
    IF start_key.type # "Continue" THEN start_key
    ELSE IF chunk.end = 0 THEN Paused(Number[chunk.block]) ELSE Continue(chunk.end)

(* prune_buffer, when the batch of the head is a new one. *)
Pruned(macro) ==
    IF macro <= current_macro_height THEN [buf |-> buffer, size |-> buffer_size]
    ELSE LET buf == [b \in Blocks |-> IF Number[b] > macro THEN buffer[b] ELSE <<>>]
         IN  [buf |-> buf, size |-> buffer_size - (Size(buffer) - Size(buf))]

(* A chunk that starts at or before the last one of its block restarts     *)
(* the list.                                                               *)
insert_chunk(buf, chunk) ==
    LET list == buf[chunk.block]
    IN  IF list # <<>> /\ Last(list).start >= chunk.start
        THEN [buf EXCEPT ![chunk.block] = <<chunk>>]
        ELSE [buf EXCEPT ![chunk.block] = Append(@, chunk)]

ReleasePeer(p) ==
    /\ peers' = peers \ {p}
    /\ released' = released \cup {p}

(* on_chunk_received *)
OnChunk(chunk, p) ==
    LET head == Number[bc.head]
        macro == last_macro_block(head)
        pruned == Pruned(macro)
        n == Number[chunk.block]
        past == head - n > config.tolerate_past_max
        future == n - head > config.window_ahead_max
        full == pruned.size >= config.buffer_max
        here == chunk.block = bc.head
        useless == n <= macro \/ chunk.block \in bc.known
        buf == insert_chunk(pruned.buf, chunk)
    IN  /\ current_macro_height' = macro
        /\ \/ /\ past \/ future
              /\ ReleasePeer(p)
              /\ buffer' = pruned.buf /\ buffer_size' = pruned.size
              /\ UNCHANGED <<start_key, ops>>
           \/ /\ ~past /\ ~future /\ (full \/ (~here /\ useless))
              /\ buffer' = pruned.buf /\ buffer_size' = pruned.size
              /\ UNCHANGED <<start_key, ops, peers, released>>
           \/ /\ ~past /\ ~future /\ ~full /\ here
              /\ start_key' = set_start_key(chunk)
              /\ ops' = <<[type |-> "HeadChunk", blocks |-> <<>>, chunk |-> chunk]>>
              /\ buffer' = pruned.buf /\ buffer_size' = pruned.size
              /\ UNCHANGED <<peers, released>>
           \/ /\ ~past /\ ~future /\ ~full /\ ~here /\ ~useless
              /\ start_key' = set_start_key(chunk)
              /\ buffer' = buf
              /\ buffer_size' = pruned.size + Size(buf) - Size(pruned.buf)
              /\ UNCHANGED <<ops, peers, released>>

PollChunk ==
    /\ Idle /\ events = <<>>
    /\ request # <<>> /\ request.answer # "none"
    /\ request' = <<>>
    /\ \/ /\ start_key # Done /\ request.answer = "chunk"
          /\ OnChunk(request.chunk, request.peer)
       \/ /\ start_key = Done \/ request.answer = "incomplete"
          /\ UNCHANGED <<buffer, buffer_size, current_macro_height, start_key, ops, peers, released>>
    /\ UNCHANGED <<config, chain, blocks, rejected, panicked, restarts>>

(* add_peer, of a peer that the syncer hands back. *)
AddPeer(p) ==
    /\ Idle /\ p \in released
    /\ peers' = peers \cup {p}
    /\ released' = released \ {p}
    /\ UNCHANGED <<config, chain, chunks, blocks, ops, rejected, panicked, restarts>>

-----------------------------------------------------------------------------
(* The diff queue.                                                         *)

(* The block queue yields blocks whose parent is stored: one at the head,  *)
(* or a list of missing blocks in order.  With a diff needed the diffs of  *)
(* all its blocks are requested, otherwise the item is ready at once.      *)
PollBlock(type, list) ==
    /\ Idle /\ events = <<>> /\ ~CanRequest
    /\ Parent[list[1]] \in bc.known
    /\ \A b \in Range(list) : b \notin bc.known \cup blocks_pending_push
    /\ diffs' = Append(diffs, [type |-> type, blocks |-> list, ready |-> ~diff_needed,
                               diff |-> FALSE, got |-> Len(list)])
    /\ blocks_pending_push' = blocks_pending_push \cup Range(list)
    /\ UNCHANGED <<config, chain, chunks, diff_needed, peers, ops, released, rejected, panicked,
                   restarts>>

(* The diffs of a first part of the blocks arrive; the first one that no   *)
(* peer can give ends the list.                                            *)
AnswerDiffs(i) ==
    /\ ~diffs[i].ready
    /\ \E got \in 0..Len(diffs[i].blocks) :
         /\ got = Len(diffs[i].blocks) \/ config.faults
         /\ diffs' = [diffs EXCEPT ![i].ready = TRUE, ![i].diff = TRUE, ![i].got = got]
    /\ UNCHANGED <<config, chain, chunks, diff_needed, blocks_pending_push, peers, ops, released,
                   rejected, panicked, restarts>>

(* get_block_chunks for the blocks of the item. *)
WithChunks(list, diff) ==
    [j \in 1..Len(list) |-> [block |-> list[j], diff |-> diff, chunks |-> buffer[list[j]]]]

(* push_queue_result: buffered blocks are pushed each on its own. *)
ToOps(type, items) ==
    IF type = "Buffered"
    THEN [j \in 1..Len(items) |-> [type |-> type, blocks |-> <<items[j]>>]]
    ELSE <<[type |-> type, blocks |-> items]>>

(* poll_next of the diff queue yields the item in front; blocks without a  *)
(* diff are dropped, so that they can be announced again.                  *)
Dropped(item) == Range(SubSeq(item.blocks, item.got + 1, Len(item.blocks)))

PollDiff ==
    LET item == Head(diffs)
        list == SubSeq(item.blocks, 1, item.got)
        buf == [b \in Blocks |-> IF b \in Range(list) THEN <<>> ELSE buffer[b]]
    IN  /\ Idle /\ events = <<>> /\ ~CanRequest
        /\ diffs # <<>> /\ item.ready
        /\ diffs' = Tail(diffs)
        /\ blocks_pending_push' = blocks_pending_push \ Dropped(item)
        /\ ops' = IF list = <<>> THEN <<>> ELSE ToOps(item.type, WithChunks(list, item.diff))
        /\ buffer' = buf
        /\ buffer_size' = buffer_size - (Size(buffer) - Size(buf))
        /\ UNCHANGED <<config, chain, current_macro_height, start_key, request, diff_needed, peers,
                       released, rejected, panicked, restarts>>

-----------------------------------------------------------------------------
(* The live syncer: pushes and their results.                              *)

(* push_multiple_blocks_impl, which pushes a single block as well. *)
PushItem(acc, item) ==
    LET done == blockchain_push(acc.c, item.block, item.diff,
                                IF acc.failed THEN <<>> ELSE item.chunks)
    IN  IF acc.retry # <<>> THEN [acc EXCEPT !.retry = Append(@, item)]
        ELSE IF acc.invalid # {} THEN [acc EXCEPT !.invalid = @ \cup {item.block}]
        ELSE IF done.result = "NeedsDiff" THEN [acc EXCEPT !.retry = <<item>>]
        ELSE [acc EXCEPT !.c = done.c,
                         !.failed = @ \/ done.failed,
                         !.committed = @ + done.committed,
                         !.ignored = @ + done.ignored,
                         !.events = @ \o Notify(done.result, item.block),
                         !.adopted = IF done.result \in Pushed THEN @ \cup {item.block} ELSE @,
                         !.invalid = IF done.result \in Pushed THEN @ ELSE {item.block}]

PushAll(c, items) ==
    FoldLeft(PushItem, [c |-> c, failed |-> FALSE, committed |-> 0, ignored |-> 0, events |-> <<>>,
                        adopted |-> {}, invalid |-> {}, retry |-> <<>>], items)

(* The chunk chain starts again after an error, and when all chunks were   *)
(* ignored.                                                                *)
KeyAfter(failed, result) ==
    IF failed \/ (result.committed = 0 /\ result.ignored > 0) THEN Reset ELSE start_key

(* remove_invalid_blocks of the block queue: what it has buffered of the   *)
(* descendants of invalid blocks.                                          *)
BufferedBelow(bad) ==
    LET below == {b \in Blocks \ (bad \cup blocks_pending_push) : Ancestors[b] \cap bad # {}}
    IN  {D \in SUBSET below : \A b \in D : Parent[b] \in bad \cup D}

(* process_push_result of blocks: those that need a diff are queued again, *)
(* before all others and with their chunks back in the buffer.  Of missing *)
(* blocks, the invalid ones and those buffered on top of them are removed: *)
(* their chunks go, and one is subtracted for each block that had some.    *)
PushBlocks(op) ==
  \E done \in {PushAll(bc, op.blocks)} :
  \E below \in IF op.type = "Missing" THEN BufferedBelow(done.invalid) ELSE {{}} :
    LET retry == done.retry
        restored == FoldLeft(insert_chunk, buffer, FlattenSeq([j \in 1..Len(retry) |-> retry[j].chunks]))
        invalid == IF op.type = "Missing" THEN done.invalid \cup below ELSE {}
        buf == [b \in Blocks |-> IF b \in invalid THEN <<>> ELSE restored[b]]
    IN  /\ bc' = done.c
        /\ events' = events \o done.events
        /\ start_key' = KeyAfter(done.failed \/ done.invalid # {}, done)
        /\ diff_needed' = (diff_needed \/ retry # <<>>)
        /\ diffs' = IF retry = <<>> THEN diffs
                    ELSE <<[type |-> op.type, blocks |-> [j \in 1..Len(retry) |-> retry[j].block],
                            ready |-> FALSE, diff |-> FALSE, got |-> Len(retry)]>> \o diffs
        /\ buffer' = buf
        /\ buffer_size' = buffer_size + Size(restored) - Size(buffer)
                          - Cardinality({b \in invalid : restored[b] # <<>>})
        /\ blocks_pending_push' = blocks_pending_push \ (done.adopted \cup done.invalid)
        /\ rejected' = rejected \cup done.invalid \cup below
        /\ panicked' = done.c.panic

(* The completion waits for an event of the blockchain. *)
PushChunk_silent(op) ==
    \E done \in {commit_chunks(bc, <<op.chunk>>)} :
        /\ bc' = done.c
        /\ start_key' = KeyAfter(done.failed, done)
        /\ UNCHANGED <<buffer, buffer_size, diff_needed, events, diffs, blocks_pending_push,
                       rejected, panicked>>

(* process_push_result of chunks for the head. *)
PushChunk(op) ==
    \E done \in {commit_chunks(bc, <<op.chunk>>)} :
        /\ bc' = done.c
        /\ \/ /\ done.committed > 0 /\ MayComplete(done.c)
              /\ CompleteSync
           \/ /\ ~(done.committed > 0 /\ MayComplete(done.c))
              /\ start_key' = KeyAfter(done.failed, done)
              /\ UNCHANGED <<buffer, buffer_size, diff_needed>>
        /\ UNCHANGED <<events, diffs, blocks_pending_push, rejected, panicked>>

Push ==
    /\ ops # <<>> /\ ~panicked
    /\ ops' = Tail(ops)
    /\ \/ Head(ops).type # "HeadChunk" /\ PushBlocks(Head(ops))
       \/ Head(ops).type = "HeadChunk" /\ PushChunk(Head(ops))
    /\ UNCHANGED <<config, current_macro_height, request, peers, released, restarts>>

-----------------------------------------------------------------------------
(* push_macro: the macro sync, which shares the blockchain, jumps to a     *)
(* macro block.  The trie starts again from nothing.                       *)
push_macro(b) ==
    /\ config.macro_sync /\ ~panicked
    /\ is_macro(b) /\ b \notin bc.known /\ Number[b] > last_macro_block(Number[bc.head])
    /\ bc' = [bc EXCEPT !.known = @ \cup {b}, !.head = b, !.missing = 1,
                        !.trie = [k \in Keys |-> Stump]]
    /\ events' = events \o <<"Extended", "Finalized">>
    /\ UNCHANGED <<config, chunks, blocks, peers, ops, released, rejected, panicked, restarts>>

(* The node stops, between two pushes, and starts with what is stored. *)
Restart ==
    /\ restarts < config.restarts /\ ~panicked
    /\ restarts' = restarts + 1
    /\ events' = <<>>
    /\ buffer' = NoChunks /\ buffer_size' = 0
    /\ current_macro_height' = last_macro_block(Number[bc.head])
    /\ start_key' = StartKey(bc)
    /\ request' = <<>>
    /\ diffs' = <<>>
    /\ diff_needed' = diffs_still_needed(bc)
    /\ blocks_pending_push' = {}
    /\ peers' = Peers
    /\ ops' = <<>>
    /\ released' = {}
    /\ UNCHANGED <<config, bc, rejected, panicked>>

PollSomeBlock == \E item \in config.deliver : PollBlock(item.type, item.blocks)
AnswerSomeDiffs == \E i \in 1..Len(diffs) : AnswerDiffs(i)
AnswerSomeChunk == \E p \in Peers : AnswerChunk(p)

Next ==
    \/ PollEvent
    \/ RequestChunk
    \/ AnswerSomeChunk
    \/ PollChunk
    \/ \E p \in Peers : AddPeer(p)
    \/ PollSomeBlock
    \/ AnswerSomeDiffs
    \/ PollDiff
    \/ Push
    \/ \E b \in Blocks \ Invalid : push_macro(b)
    \/ Restart

Spec == Init /\ [][Next]_vars

(***************************************************************************)
(* The poll loop makes progress, peers answer, and peers come back.  The   *)
(* poll that requests a chunk goes on to the blocks while the request is   *)
(* on the network, so blocks are polled whenever they can be time and      *)
(* again.  The last conjunct is WF_vars(Push): Push is enabled whenever a  *)
(* push waits.                                                             *)
(***************************************************************************)
AddSomePeer == \E p \in Peers : AddPeer(p)
PushDue == ops # <<>> /\ ~panicked

Fairness ==
    /\ WF_vars(PollEvent)
    /\ WF_vars(RequestChunk)
    /\ WF_vars(AnswerSomeChunk)
    /\ WF_vars(PollChunk)
    /\ WF_vars(AddSomePeer)
    /\ SF_vars(PollSomeBlock)
    /\ WF_vars(AnswerSomeDiffs)
    /\ SF_vars(PollDiff)
    /\ []<>(~PushDue) \/ []<><<Push>>_vars

FairSpec == Spec /\ Fairness

-----------------------------------------------------------------------------
(* Properties.                                                             *)

(* What is known of the trie stays within the keys, the buffer holds the   *)
(* chunks of blocks ahead, and every handed out block is a block.          *)
TypeOK ==
    /\ bc.known \subseteq Blocks /\ bc.head \in bc.known
    /\ bc.missing \in 1..Complete
    /\ \A k \in Keys : (bc.trie[k] = Stump) <=> (k >= bc.missing)
    /\ start_key.type \in {"Complete", "Paused", "Reset", "Continue"}
    /\ buffer_size \in Nat
    /\ \A b \in Blocks : \A j \in 1..Len(buffer[b]) : buffer[b][j].block = b
    /\ blocks_pending_push \subseteq Blocks
    /\ peers \cup released = Peers /\ peers \cap released = {}

(* No revert meets a recorded value in the missing part of the trie, nor a *)
(* stump in the known part: the unreachable!() arms of revert_diff are not *)
(* reached, because chunks are taken back before the block they came with. *)
NoPanic == ~panicked

(* Through extensions, chunks, forks and restarts, the known part of the   *)
(* trie is the state of the head block.                                    *)
StateFollowsHead ==
    ~panicked => \A k \in 1..bc.missing - 1 : bc.trie[k] = State[bc.head][k]

(* A queue that reports the state sync as complete, and has seen what      *)
(* happened to the chain, has a complete trie, and no rebranch that is     *)
(* still possible makes it incomplete again.                               *)
CompleteIsFinal ==
    start_key = Done /\ events = <<>> =>
        /\ accounts_complete(bc)
        /\ \A b \in Main(bc) : Number[b] > last_macro_block(Number[bc.head])
                               => bc.prev_missing[b] = Complete

(* The blocks marked as being pushed are on their way in the diff queue or *)
(* in the pushes to come; a block that was dropped can be announced again. *)
PendingIsOnItsWay ==
    blocks_pending_push =
        UNION {Range(diffs[i].blocks) : i \in DOMAIN diffs} \cup
        UNION {{op.blocks[j].block : j \in DOMAIN op.blocks} : op \in Range(ops)}

(* buffer_size counts the buffered chunks and stays within buffer_max,     *)
(* also when chunks return to the buffer with a block that needs a diff.   *)
(* When blocks with several chunks were removed as invalid it counts too   *)
(* many, never too few, so that no subtraction underflows.                 *)
BufferIsCounted ==
    /\ Size(buffer) <= buffer_size /\ buffer_size <= config.buffer_max
    /\ rejected = {} => buffer_size = Size(buffer)

StateSynced == config.live => start_key = Done

(* A node that is delivered the blocks and served the chunks gets its      *)
(* state complete, and the queue notices.                                  *)
StateSyncCompletes == <>[]StateSynced

(* Blocks that are not invalid are never rejected.  Not so in the code: a  *)
(* rebranch with a partial state needs the diffs of all blocks of the fork *)
(* and takes a block without one for invalid.                              *)
ValidForksApply == rejected \subseteq Invalid

(* The state sync reported as complete stays so while the trie is.  Not so *)
(* in the code: a push that fails resets the chunk requests.               *)
CompleteIsStable == [][(start_key = Done /\ accounts_complete(bc)') => start_key' = Done]_vars
=============================================================================
