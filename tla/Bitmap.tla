------------------------------- MODULE Bitmap -------------------------------
(***************************************************************************)
(* The byte array behind a filter (dablooms.c).  Two counters of           *)
(* four bits share a byte: an even index is the high nibble and an odd     *)
(* index the low one.  The counters start offset bytes into the mapping;   *)
(* the bytes before them belong to the filter's headers.                   *)
(***************************************************************************)
EXTENDS Integers

CONSTANTS Size,      \* number of counters (counting_bloom_t.size)
          Offset     \* bytes before the first counter (counting_bloom_t.offset)

ASSUME SizeAssumption == Size \in Nat \ {0}
ASSUME OffsetAssumption == Offset \in Nat

VARIABLES array,     \* bitmap_t.array
          result     \* what the last call returned, as its callers read it

bitmapVars == <<array, result>>

Byte == 0..255

Indexes == 0..(Size - 1)

\* counting_bloom_init rounds the byte count up when Size is odd.
NumBytes == (Size + 1) \div 2 + Offset

Addresses == 0..(NumBytes - 1)

Access(index) == index \div 2 + Offset

\* The nibble of byte n that holds the counter of this index.
Nibble(n, index) == IF index % 2 # 0 THEN n % 16 ELSE n \div 16

\* What one unit of this index's counter adds to its byte.
UnitSwapped(index) == IF index % 2 # 0 THEN 16 ELSE 1    \* mutant: parity
Unit(index) == IF index % 2 # 0 THEN 1 ELSE 16

\* A fresh file is all zeros (ftruncate extends with zeros).
BitmapInit == /\ array = [a \in Addresses |-> 0]
              /\ result = "none"

\* bitmap_increment: reports the overflow of a counter and leaves it alone.
Increment(index) ==
    \/ /\ Nibble(array[Access(index)], index) = 15
       /\ result' = "error"
       /\ UNCHANGED array
    \/ /\ Nibble(array[Access(index)], index) # 15
       /\ array' = [array EXCEPT ![Access(index)] = @ + Unit(index)]
       /\ result' = "ok"

\* bitmap_decrement: reports a decrement of zero and leaves the counter alone.
Decrement(index) ==
    \/ /\ Nibble(array[Access(index)], index) = 0
       /\ result' = "error"
       /\ UNCHANGED array
    \/ /\ Nibble(array[Access(index)], index) # 0
       /\ array' = [array EXCEPT ![Access(index)] = @ - Unit(index)]
       /\ result' = "ok"

\* bitmap_check masks the byte without shifting it: the callers only ask
\* whether the outcome is zero.
Masked(n, index) == IF index % 2 # 0 THEN n % 16 ELSE n - (n % 16)

Check(index) ==
    /\ result' = IF Masked(array[Access(index)], index) = 0
                   THEN "zero" ELSE "nonzero"
    /\ UNCHANGED array

BitmapNext == \E index \in Indexes :
            Increment(index) \/ Decrement(index) \/ Check(index)

BitmapSpec == BitmapInit /\ [][BitmapNext]_bitmapVars

-----------------------------------------------------------------------------
\* The counter of every index as the packed bytes represent it.
CounterOf == [index \in Indexes |-> Nibble(array[Access(index)], index)]

Counters == INSTANCE CounterArray WITH counter <- CounterOf

\* The array stays an array of bytes: no carry leaves a byte, no borrow makes
\* one negative (bitmap_increment, bitmap_decrement).
BitmapTypeOK == /\ array \in [Addresses -> Byte]
                /\ result \in Counters!Results

\* The packed nibbles behave as independent counters that refuse to leave
\* 0..15: incrementing, decrementing and checking an index never reads or
\* disturbs the neighbour in the same byte (bitmap_increment/decrement/check).
ImplementsCounters == Counters!Spec

=============================================================================
