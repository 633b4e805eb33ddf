----------------------------- MODULE KeyNibbles -----------------------------
(***************************************************************************)
(* The keys of the trie as they are stored: nibbles packed two to a byte   *)
(* (primitives/src/key_nibbles.rs).                                        *)
(*                                                                         *)
(* Two keys are computed with the operations of the code, and next to them *)
(* the sequences of nibbles that they stand for.  A byte is a pair of      *)
(* nibbles below NIBBLE (the code has 16), bytes are indexed from 0.       *)
(***************************************************************************)
EXTENDS Integers, Sequences, SequencesExt, FiniteSetsExt

CONSTANTS
    NIBBLE,      \* the number of nibbles
    MAX_BYTES,   \* the capacity of a key, in bytes
    None

VARIABLES
    a, b,        \* two keys
    sa, sb,      \* the sequences they stand for
    panicked     \* the range whose slice panicked, or None

vars == <<a, b, sa, sb, panicked>>

Indices == 0..MAX_BYTES - 1
High(byte) == byte \div NIBBLE
Low(byte) == byte % NIBBLE
DivCeil2(n) == (n + 1) \div 2

ROOT == [bytes |-> [i \in Indices |-> 0], length |-> 0]

bytes_len(k) == DivCeil2(k.length)

get(k, i) ==
    IF i >= k.length THEN None
    ELSE IF i % 2 = 0 THEN High(k.bytes[i \div 2]) ELSE Low(k.bytes[i \div 2])

successor(k) == [k EXCEPT !.length = @ + 1]

is_prefix_of(k, o) ==
    LET end == k.length \div 2
    IN  /\ k.length <= o.length
        /\ k.length % 2 = 1 => High(k.bytes[end]) = High(o.bytes[end])
        /\ \A i \in 0..end - 1 : k.bytes[i] = o.bytes[i]

(***************************************************************************)
(* slice: the nibbles from start up to end.  From an odd start every byte  *)
(* is put together from the halves of two.  Slicing the bytes of an empty  *)
(* range at an odd start panics (None).                                    *)
(***************************************************************************)
slice(k, start, end) ==
    LET stop  == Min({end, k.length})
        from  == start \div 2
        to    == stop \div 2
        even  == start % 2 = 0
        whole == to - from
        byte(i) ==
            IF even
            THEN IF i < whole THEN k.bytes[from + i]
                 ELSE IF i = whole /\ stop % 2 = 1 THEN High(k.bytes[to]) * NIBBLE ELSE 0
            ELSE IF i < whole - 1 THEN Low(k.bytes[from + i]) * NIBBLE + High(k.bytes[from + i + 1])
                 ELSE IF i = whole - 1
                 THEN Low(k.bytes[from + i]) * NIBBLE
                        + (IF stop % 2 = 1 THEN High(k.bytes[to]) ELSE 0)
                 ELSE 0
    IN  IF start > k.length \/ end < start THEN ROOT
        ELSE IF ~even /\ from + 1 > to THEN None
        ELSE [bytes |-> [i \in Indices |-> byte(i)], length |-> stop - start]

suffix(k, start) == slice(k, start, k.length)

common_prefix(k, o) ==
    LET shorter == Min({k.length, o.length})
        differ  == {j \in 0..DivCeil2(shorter) - 1 : k.bytes[j] # o.bytes[j]}
        j       == Min(differ)
    IN  IF differ = {} THEN slice(k, 0, shorter)
        ELSE slice(k, 0, IF get(k, j * 2) # get(o, j * 2) THEN j * 2 ELSE j * 2 + 1)

\* A byte of the right operand starts in the second half of one of the left.
Plus(k, o) ==
    LET at   == bytes_len(k)
        n    == bytes_len(o)
        base == at - 1
        shifted(i) ==
            IF i = base THEN k.bytes[i] + (IF n > 0 THEN High(o.bytes[0]) ELSE 0)
            ELSE IF i > base /\ i < base + n
            THEN Low(o.bytes[i - base - 1]) * NIBBLE + High(o.bytes[i - base])
            ELSE IF i > base /\ i = base + n /\ o.length % 2 = 0
            THEN Low(o.bytes[n - 1]) * NIBBLE
            ELSE k.bytes[i]
    IN  [bytes |-> [i \in Indices |->
                        IF k.length % 2 = 1 THEN shifted(i)
                        ELSE IF i >= at /\ i < at + n THEN o.bytes[i - at] ELSE k.bytes[i]],
         length |-> k.length + o.length]

checked_add(k, o) == IF k.length + o.length > 2 * MAX_BYTES THEN None ELSE Plus(k, o)

\* The derived order: the bytes, then the length.
Before(k, o) ==
    LET differ == {i \in Indices : k.bytes[i] # o.bytes[i]}
    IN  IF differ = {} THEN k.length < o.length
        ELSE k.bytes[Min(differ)] < o.bytes[Min(differ)]

post_order_cmp(k, o) ==
    CASE is_prefix_of(k, o) /\ is_prefix_of(o, k)  -> "Equal"
      [] is_prefix_of(k, o) /\ ~is_prefix_of(o, k) -> "Greater"
      [] ~is_prefix_of(k, o) /\ is_prefix_of(o, k) -> "Less"
      [] OTHER -> IF k = o THEN "Equal" ELSE IF Before(k, o) THEN "Less" ELSE "Greater"

\* The hexadecimal digits, a sequence of nibbles.
from_str(s) ==
    [bytes |-> [i \in Indices |->
                   IF i < Len(s) \div 2 THEN s[2 * i + 1] * NIBBLE + s[2 * i + 2]
                   ELSE IF i = Len(s) \div 2 /\ Len(s) % 2 = 1 THEN s[Len(s)] * NIBBLE ELSE 0],
     length |-> Len(s)]

display(k) ==
    LET hex == [i \in 1..2 * bytes_len(k) |->
                   IF i % 2 = 1 THEN High(k.bytes[(i - 1) \div 2]) ELSE Low(k.bytes[(i - 1) \div 2])]
    IN  IF k.length % 2 = 1 THEN Front(hex) ELSE hex

serialize(k) == [len |-> k.length, bytes |-> [i \in 1..bytes_len(k) |-> k.bytes[i - 1]]]

deserialize(data) ==
    IF \/ data.len > 2 * MAX_BYTES
       \/ Len(data.bytes) > MAX_BYTES
       \/ Len(data.bytes) # DivCeil2(data.len)
       \/ (data.len % 2 = 1 /\ Low(Last(data.bytes)) # 0)
    THEN None
    ELSE [length |-> data.len,
          bytes |-> [i \in Indices |-> IF i < Len(data.bytes) THEN data.bytes[i + 1] ELSE 0]]

(***************************************************************************)
(* The system: keys are parsed, and computed from keys.                    *)
(***************************************************************************)
Nibbles == UNION {[1..n -> 0..NIBBLE - 1] : n \in 0..2 * MAX_BYTES}

Init ==
    /\ a = ROOT /\ sa = <<>>
    /\ b = ROOT /\ sb = <<>>
    /\ panicked = None

Parse(s) == a = ROOT /\ a' = from_str(s) /\ sa' = s /\ UNCHANGED <<b, sb, panicked>>

Keep == b' = a /\ sb' = sa /\ UNCHANGED <<a, sa, panicked>>

Add ==
    /\ checked_add(a, b) # None
    /\ a' = checked_add(a, b)
    /\ sa' = sa \o sb
    /\ UNCHANGED <<b, sb, panicked>>

Slice(start, end) ==
    LET result == slice(a, start, end)
    IN  /\ IF result = None
           THEN panicked' = <<start, end>> /\ UNCHANGED <<a, sa>>
           ELSE /\ a' = result
                /\ sa' = IF start > Len(sa) \/ end < start THEN <<>>
                         ELSE SubSeq(sa, start + 1, Min({end, Len(sa)}))
                /\ UNCHANGED panicked
        /\ UNCHANGED <<b, sb>>

CommonPrefix ==
    /\ a' = common_prefix(a, b)
    /\ sa' = SubSeq(sa, 1, Max({n \in 0..Len(sa) : n <= Len(sb) /\ SubSeq(sa, 1, n) = SubSeq(sb, 1, n)}))
    /\ UNCHANGED <<b, sb, panicked>>

Successor ==
    /\ a.length < 2 * MAX_BYTES
    /\ a' = successor(a)
    /\ sa' = Append(sa, 0)
    /\ UNCHANGED <<b, sb, panicked>>

Next ==
    /\ panicked = None
    /\ \/ \E s \in Nibbles : Parse(s)
       \/ Keep
       \/ Add
       \/ \E start, end \in 0..2 * MAX_BYTES : Slice(start, end)
       \/ CommonPrefix
       \/ Successor

Spec == Init /\ [][Next]_vars

(***************************************************************************)
(* Properties.                                                             *)
(***************************************************************************)

(* A key has the capacity of its array, and what is not used of it is zero *)
(* ("Unused nibbles are always zeroed"), which the order relies on.        *)
TypeOK ==
    \A k \in {a, b} :
        /\ k.length \in 0..2 * MAX_BYTES
        /\ \A i \in 0..2 * MAX_BYTES - 1 :
              i >= k.length =>
                 (IF i % 2 = 0 THEN High(k.bytes[i \div 2]) ELSE Low(k.bytes[i \div 2])) = 0

(* Whatever a key was computed by, from odd or even positions, its nibbles *)
(* are those of the sequence: parsing, concatenating, slicing and common   *)
(* prefixes on packed nibbles are the operations on sequences.             *)
NibblesAreRight ==
    \A i \in 1..2 * MAX_BYTES : /\ get(a, i - 1) = IF i <= Len(sa) THEN sa[i] ELSE None
                                /\ get(b, i - 1) = IF i <= Len(sb) THEN sb[i] ELSE None

(* Prefixes, the order of the keys and their order in a post-order walk    *)
(* are those of the sequences: a prefix comes first in the one and last in *)
(* the other.                                                              *)
OrderIsLexicographic ==
    LET n    == Max({i \in 0..Len(sa) : i <= Len(sb) /\ SubSeq(sa, 1, i) = SubSeq(sb, 1, i)})
        less == n < Len(sb) /\ (n < Len(sa) => sa[n + 1] < sb[n + 1])
    IN  /\ is_prefix_of(a, b) <=> IsPrefix(sa, sb)
        /\ Before(a, b) <=> less
        /\ post_order_cmp(a, b) =
              IF sa = sb THEN "Equal"
              ELSE IF IsPrefix(sa, sb) THEN "Greater"
              ELSE IF IsPrefix(sb, sa) THEN "Less"
              ELSE IF less THEN "Less" ELSE "Greater"

(* A key survives being written and read, as digits and as bytes.          *)
RoundTrips == from_str(display(a)) = a /\ deserialize(serialize(a)) = a

(* A slice panics for one reason only: no nibble is asked for, from an odd *)
(* position inside the key or at its end.  The trie asks for none of these *)
(* slices: it cuts from the start, or what a child's key has beyond its    *)
(* parent's.                                                               *)
PanicsOnEmptyOdd ==
    panicked # None =>
       /\ panicked[1] % 2 = 1
       /\ panicked[1] <= a.length
       /\ Min({panicked[2], a.length}) = panicked[1]

(* The slice of an empty range within the key is the empty key.  Not so in *)
(* the code: from an odd position it panics, see PanicsOnEmptyOdd.         *)
EmptySlices == \A i \in 0..a.length : slice(a, i, i) = ROOT
=============================================================================
