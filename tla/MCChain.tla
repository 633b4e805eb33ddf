------------------------------ MODULE MCChain -------------------------------
(***************************************************************************)
(* Instances of the chain's parts: the voting on macro blocks, the fork    *)
(* choice over a tree of one epoch and over several epochs, and the light  *)
(* blockchain beside a full node.                                          *)
(***************************************************************************)
EXTENDS Voting, SlotQuorums, Sequences, TLC

CONSTANTS
    None, v1, v2, v3, v4, Parts    \* the parts that a run is about
CONSTANTS Tree    \* the blocks of the tree of one epoch, by their chains

VARIABLES part,
    db, state, panicked, mode, store, light, event, told, detected, full_db,
    full_state

-----------------------------------------------------------------------------
(***************************************************************************)
(* Model of Voting for TLC: three correct validators and a Byzantine one,  *)
(* one slot each.  The Byzantine validator has signed every vote there is  *)
(* in advance, which allows everything that signing them later would.      *)
(***************************************************************************)
Owner == <<v1, v2, v3, v4>>

VotingQuorums == Owning(Owner, Validators, TWO_F_PLUS_ONE(Len(Owner)))
VotingWeakQuorums == Owning(Owner, Validators, F_PLUS_ONE(Len(Owner)))

\* Correct validators and hashes are interchangeable.
VotingSymmetry == Permutations(Correct) \cup Permutations(Hashes)

VotingInit ==
    /\ votes = [v \in Correct |-> [r \in Rounds |-> [s \in VoteSteps |-> NoVote]]]
    /\ byzVotes = ByzantineVotes
    /\ decisions = [v \in Correct |-> {}]

VotingNext ==
    \/ \E v \in Correct, r \in Rounds : SkipTo(v, r)
    \/ \E v \in Correct, r \in Rounds, h \in Votes : Prevote(v, r, h)
    \/ \E v \in Correct, r \in Rounds, h \in Votes : Precommit(v, r, h)
    \/ /\ UNCHANGED byzVotes
       /\ \E v \in Correct, h \in Hashes : Decide(v, h)



-----------------------------------------------------------------------------
(***************************************************************************)
(* Block trees for Blockchain.  A block is written as the kinds of the     *)
(* blocks on its chain, the genesis block as the empty sequence: "a" and   *)
(* "b" are micro blocks (two of one producer), "s" a skip block, "x" a     *)
(* micro block that does not apply, "m" a macro block.                     *)
(***************************************************************************)
ForkChainOf == [h \in Tree |-> [i \in 1..Len(h) + 1 |-> SubSeq(h, 1, i - 1)]]

(* The same function; TLC evaluates @@ to a table. *)
ForkChain == ForkChainOf @@ (<<>> :> <<(<<>>)>>)

Last(kind) == {h \in Tree : h # <<>> /\ h[Len(h)] = kind}

ForkSkip == Last("s")

ForkInvalid == Last("x")

ForkGenesis == <<>>

(***************************************************************************)
(* Batches of three micro blocks.  The first batch is a complete tree of   *)
(* micro and skip blocks with one pair of blocks of one producer, decided  *)
(* on a chain that is not the best one; the next has a fork of its own     *)
(* and ends in an election block.                                          *)
(***************************************************************************)
First == UNION {[1..n -> {"a", "s"}] : n \in 0..3} \cup {<<"b">>}

ForkDecided == <<"a", "s", "a", "m">>

ForkTree ==
    First \cup {ForkDecided \o t : t \in
        {<<>>, <<"a">>, <<"s">>, <<"a", "s">>, <<"a", "s", "a">>,
         <<"a", "s", "a", "m">>}}

(***************************************************************************)
(* One batch with blocks that do not apply: at the end of a fork, in its   *)
(* middle, and below two competing blocks.                                 *)
(***************************************************************************)
InvalidTree ==
    {<<>>, <<"a">>, <<"a", "a">>, <<"a", "a", "a">>, <<"a", "a", "a", "m">>,
     <<"a", "s">>, <<"a", "s", "x">>, <<"s">>, <<"s", "x">>, <<"s", "x", "a">>,
     <<"x">>, <<"x", "a">>, <<"x", "b">>, <<"x", "a", "a">>, <<"x", "b", "s">>,
     <<"a", "a", "x">>}

F == INSTANCE Blockchain WITH
    Hashes <- Tree, Genesis <- ForkGenesis, Chain <- ForkChain,
    Skip <- ForkSkip, Invalid <- ForkInvalid, Unprunable <- {},
    BlocksPerBatch <- 4, BatchesPerEpoch <- 2, MaxEpochsStored <- 1

-----------------------------------------------------------------------------
(***************************************************************************)
(* A block tree for Blockchain over three epochs of two batches of three   *)
(* micro blocks, one epoch kept.  Blocks are numbers: 0 .. 24 is the chain *)
(* that is decided on, the others are given with their parent and kind.    *)
(* The first epochs have a fork each.  In the third there are forks with   *)
(* blocks that do not apply ("x"): at their end, in their middle, and      *)
(* below two competing blocks.                                             *)
(***************************************************************************)
EpochsGenesis == 0

EpochsDecided == {[hash |-> n, parent |-> n - 1, kind |-> "a"] : n \in 1..24}

EpochsFork(h, p, k) == [hash |-> h, parent |-> p, kind |-> k]

EpochsForks ==
    {EpochsFork(101, 1, "s"), EpochsFork(106, 6, "b"),
     EpochsFork(200, 17, "s"), EpochsFork(201, 200, "x"),
     EpochsFork(202, 16, "s"), EpochsFork(203, 202, "x"), EpochsFork(204, 203, "a"),
     EpochsFork(205, 16, "x"), EpochsFork(206, 205, "a"), EpochsFork(207, 206, "a"),
     EpochsFork(208, 205, "b"), EpochsFork(209, 208, "s"),
     EpochsFork(210, 18, "x")}

EpochsBlocks == EpochsDecided \cup EpochsForks

EpochsHashes == {EpochsGenesis} \cup {b.hash : b \in EpochsBlocks}

EpochsChainOf[h \in EpochsHashes] ==
    IF h = EpochsGenesis THEN <<h>>
    ELSE Append(EpochsChainOf[(CHOOSE b \in EpochsBlocks : b.hash = h).parent], h)

(* The same function; TLC evaluates @@ to a table. *)
EpochsChain == EpochsChainOf @@ (EpochsGenesis :> <<EpochsGenesis>>)

OfKind(kind) == {b.hash : b \in {c \in EpochsBlocks : c.kind = kind}}

EpochsSkip == OfKind("s")

EpochsInvalid == OfKind("x")

EpochsUnprunable == {4}

G == INSTANCE Blockchain WITH
    Hashes <- EpochsHashes, Genesis <- EpochsGenesis, Chain <- EpochsChain,
    Skip <- EpochsSkip, Invalid <- EpochsInvalid,
    Unprunable <- EpochsUnprunable, BlocksPerBatch <- 4, BatchesPerEpoch <- 2,
    MaxEpochsStored <- 1

-----------------------------------------------------------------------------
(***************************************************************************)
(* A block tree for LightBlockchain: an epoch of two batches of three      *)
(* blocks and the beginning of the next.  Blocks are numbers: 0 .. 10 is   *)
(* the chain that is decided on, the others are given with their parent    *)
(* and kind.                                                               *)
(***************************************************************************)
LightGenesis == 0

LightDecided == {[hash |-> n, parent |-> n - 1, kind |-> "a"] : n \in 1..10}

LightFork(h, p, k) == [hash |-> h, parent |-> p, kind |-> k]

(* Twins of 1 and 2 with successors, skip blocks and a fork in the second epoch. *)
LightForks == {LightFork(101, 0, "b"), LightFork(102, 101, "a"), LightFork(103, 0, "s"), LightFork(104, 1, "s"),
          LightFork(105, 3, "s"), LightFork(106, 105, "a"), LightFork(107, 7, "s"), LightFork(108, 6, "b")}

LightBlocks == LightDecided \cup LightForks

LightHashes == {LightGenesis} \cup {b.hash : b \in LightBlocks}

LightChainOf[h \in LightHashes] ==
    IF h = LightGenesis THEN <<h>>
    ELSE Append(LightChainOf[(CHOOSE b \in LightBlocks : b.hash = h).parent], h)

(* The same function; TLC evaluates @@ to a table. *)
LightChain == LightChainOf @@ (LightGenesis :> <<LightGenesis>>)

LightSkip == {b.hash : b \in {c \in LightBlocks : c.kind = "s"}}

LightModes == {"lockstep", "sync"}

L == INSTANCE LightBlockchain WITH
    Hashes <- LightHashes, Genesis <- LightGenesis, Chain <- LightChain,
    Skip <- LightSkip, Unprunable <- {}, BlocksPerBatch <- 3,
    BatchesPerEpoch <- 2, MaxEpochsStored <- 1, Modes <- LightModes

-----------------------------------------------------------------------------
(* In each behaviour one part takes steps; the variables of the others are idle. *)
ChainInit ==
    \/ /\ part = "voting" /\ part \in Parts
       /\ VotingInit
       /\ db = None /\ state = None /\ panicked = None /\ mode = None /\
          store = None /\ light = None /\ event = None /\ told = None /\
          detected = None /\ full_db = None /\ full_state = None
    \/ /\ part = "forks" /\ part \in Parts
       /\ F!Init
       /\ VotingInit
       /\ mode = None /\ store = None /\ light = None /\ event = None /\
          told = None /\ detected = None /\ full_db = None /\
          full_state = None
    \/ /\ part = "epochs" /\ part \in Parts
       /\ G!Init
       /\ VotingInit
       /\ mode = None /\ store = None /\ light = None /\ event = None /\
          told = None /\ detected = None /\ full_db = None /\
          full_state = None
    \/ /\ part = "light" /\ part \in Parts
       /\ L!Init
       /\ VotingInit
       /\ db = None /\ state = None

ChainNext ==
    \/ /\ part = "voting" /\ VotingNext
       /\ UNCHANGED <<part, db, state, panicked, mode, store, light, event, told,
          detected, full_db, full_state>>
    \/ /\ part = "forks" /\ F!Next
       /\ UNCHANGED <<part, votes, byzVotes, decisions, mode, store, light, event, told,
          detected, full_db, full_state>>
    \/ /\ part = "epochs" /\ G!Next
       /\ UNCHANGED <<part, votes, byzVotes, decisions, mode, store, light, event, told,
          detected, full_db, full_state>>
    \/ /\ part = "light" /\ L!Next
       /\ UNCHANGED <<part, votes, byzVotes, decisions, db, state>>

all_vars ==
    <<part, votes, byzVotes, decisions, db, state, panicked, mode, store,
      light, event, told, detected, full_db, full_state>>

ChainSpec == ChainInit /\ [][ChainNext]_all_vars

-----------------------------------------------------------------------------
(* "Corrupted store": the expects of order_chains, push, extend and        *)
(* rebranch say that a block in the store has its predecessor there,       *)
(* whatever blocks are pushed in whatever order.                           *)
NoPanic == part = "forks" => F!NoPanic

(* A full node that is given blocks in any order, over restarts: accounts  *)
(* and history are what applying the main chain gives, the main chain is   *)
(* linked and the best of the stored ones, and a restart restores the      *)
(* state from the database.  Where every block applies (forks) no expect,  *)
(* assert or panic! of push is hit; where some do not (epochs) only those  *)
(* over a block that lost its predecessor are, as orphaned_fork shows.     *)
ChainIsConsistent ==
    /\ part = "forks" =>
          F!TypeOK /\ F!NoPanic /\ F!AccountsFollowHead /\ F!HeadIsBest
    /\ part = "epochs" =>
          G!AccountsFollowHead /\ G!HeadIsBest /\ G!MainChainIsLinked /\
          G!RestartRestores /\ G!PanicsOnOrphansOnly

(* A light node that is given the blocks of a full one has the same head,  *)
(* also after jumps its three heads belong together, who follows its       *)
(* Extended and Rebranched events has its chain, blocks served as          *)
(* successors or predecessors of another are connected, successors of the  *)
(* head verify and two blocks of one producer are reported, without a      *)
(* panic.  Of added_hashes and of lookups by height nothing is said: see   *)
(* AddedWereAdopted and LookupsAreOnMainChain.                             *)
LightChainIsConsistent ==
    part = "light" =>
       L!TypeOK /\ L!NoPanic /\ L!HeadsAreConsistent /\
       L!EventsTellChain /\ L!FollowsFullNode /\ L!SuccessorsVerify /\
       L!EquivocationIsDetected /\ L!ServedAreConnected

(* A macro block on the main chain stays there: no push, rebranch or       *)
(* restart takes it off, it can only be pruned.                            *)
MacroIsFinal == [][part = "forks" => F!FinalStep]_all_vars
=============================================================================
