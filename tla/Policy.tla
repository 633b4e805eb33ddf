------------------------------- MODULE Policy -------------------------------
(***************************************************************************)
(* The block arithmetic of primitives/src/policy.rs: how block numbers are *)
(* grouped into batches and epochs, and the windows counted from a block.  *)
(*                                                                         *)
(* The policy is a set of constants of the network. Block numbers are u32  *)
(* in the code and the sums saturate there; U32_MAX is the width, so that  *)
(* the edge of the range can be reached on a small instance.               *)
(***************************************************************************)
EXTENDS Integers

CONSTANTS
    blocks_per_batch,            \* blocks of a batch, the macro block included
    batches_per_epoch,
    genesis_block_number,
    transaction_validity_window, \* in batches
    JAIL_EPOCHS,
    U32_MAX

blocks_per_epoch == blocks_per_batch * batches_per_epoch

transaction_validity_window_blocks ==
    transaction_validity_window * blocks_per_batch

saturating_add(a, b) == IF a + b > U32_MAX THEN U32_MAX ELSE a + b

div_ceil(a, b) == (a + b - 1) \div b

epoch_at(n) ==
    IF n <= genesis_block_number THEN 0
    ELSE div_ceil(n - genesis_block_number, blocks_per_epoch)

batch_at(n) ==
    IF n <= genesis_block_number THEN 0
    ELSE div_ceil(n - genesis_block_number, blocks_per_batch)

epoch_index_at(n) ==
    IF n < genesis_block_number THEN n
    ELSE (n - genesis_block_number + blocks_per_epoch - 1) % blocks_per_epoch

batch_index_at(n) ==
    IF n < genesis_block_number THEN n
    ELSE (n - genesis_block_number + blocks_per_batch - 1) % blocks_per_batch

(* The first multiple of `period` after n, counted from the genesis block. *)
boundary_after(n, period) ==
    IF n < genesis_block_number THEN genesis_block_number
    ELSE LET product == ((n - genesis_block_number) \div period + 1) * period
         IN  saturating_add(IF product > U32_MAX THEN U32_MAX ELSE product,
                            genesis_block_number)

election_block_after(n) == boundary_after(n, blocks_per_epoch)

macro_block_after(n) == boundary_after(n, blocks_per_batch)

(* The functions below panic before (or, for macro_block_before, at) the   *)
(* genesis block; they are only applied where they return.                 *)
(* The last multiple of `period` at or before n, counted from genesis.     *)
boundary_at(n, period) ==
    ((n - genesis_block_number) \div period) * period + genesis_block_number

election_block_before(n) ==
    IF n = genesis_block_number THEN n ELSE boundary_at(n - 1, blocks_per_epoch)

last_election_block(n) == boundary_at(n, blocks_per_epoch)

macro_block_before(n) == boundary_at(n - 1, blocks_per_batch)

last_macro_block(n) == boundary_at(n, blocks_per_batch)

is_election_block_at(n) == epoch_index_at(n) = blocks_per_epoch - 1

is_macro_block_at(n) ==
    n >= genesis_block_number /\ batch_index_at(n) = blocks_per_batch - 1

is_micro_block_at(n) ==
    n >= genesis_block_number /\ batch_index_at(n) # blocks_per_batch - 1

first_batch_of_epoch(n) == epoch_index_at(n) < blocks_per_batch

(* checked arithmetic: -1 stands for the None of an underflow or overflow. *)
checked(n) == IF n \in 0 .. U32_MAX THEN n ELSE -1

first_block_of(epoch) ==
    IF epoch = 0 THEN -1
    ELSE checked((epoch - 1) * blocks_per_epoch + 1 + genesis_block_number)

election_block_of(epoch) ==
    checked(epoch * blocks_per_epoch + genesis_block_number)

last_block_of_collateral_lockup(n) == saturating_add(n, blocks_per_epoch)

block_after_collateral_lockup(n) ==
    saturating_add(last_block_of_collateral_lockup(n), 1)

last_block_of_equivocation_reporting_window(n) ==
    saturating_add(n, transaction_validity_window_blocks)

block_after_jail(n) ==
    saturating_add(saturating_add(n, blocks_per_epoch * JAIL_EPOCHS), 1)
=============================================================================
