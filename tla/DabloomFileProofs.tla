------------------------- MODULE DabloomFileProofs -------------------------
(***************************************************************************)
(* The file of a dabloom, for every size of it.                            *)
(*                                                                         *)
(* The packed bytes of a bitmap_t implement the independent counters of    *)
(* four bits of CounterArray, for every number of counters and every       *)
(* offset.                                                                 *)
(*                                                                         *)
(* The soundness of the seqnums after process and machine crashes at any   *)
(* point and failing msyncs, for every number of cells and every bound on  *)
(* the changes.  The history variables exposed and misled of the model say *)
(* what the seqnums cannot protect from.                                   *)
(***************************************************************************)
EXTENDS Bitmap, ScalingBloomDisk, TLAPS

-----------------------------------------------------------------------------
(* The packed bytes. *)

\* A counter's byte lies inside the mapping (access in bitmap_increment).
LEMMA AccessInRange == \A i \in Indexes : Access(i) \in Addresses
  BY SizeAssumption, OffsetAssumption DEF Indexes, Access, Addresses, NumBytes

\* Two different counters of one byte have different parities.
LEMMA AccessShared ==
    \A i, j \in Indexes : Access(i) = Access(j) /\ i # j => i % 2 # j % 2
  BY SizeAssumption, OffsetAssumption DEF Indexes, Access

\* A nibble is a number in 0..15.
LEMMA NibbleType == \A n \in Byte, i \in Int : Nibble(n, i) \in 0..15
  BY DEF Byte, Nibble

\* Adding one unit to a counter below 15 keeps the byte a byte, adds one to
\* that counter and leaves the counter of the other parity alone.
LEMMA UnitUp ==
    \A n \in Byte, i \in Int :
        Nibble(n, i) # 15 =>
            /\ n + Unit(i) \in Byte
            /\ Nibble(n + Unit(i), i) = Nibble(n, i) + 1
            /\ \A j \in Int : i % 2 # j % 2 =>
                   Nibble(n + Unit(i), j) = Nibble(n, j)
  BY DEF Byte, Nibble, Unit

\* The same for taking one unit from a counter above 0.
LEMMA UnitDown ==
    \A n \in Byte, i \in Int :
        Nibble(n, i) # 0 =>
            /\ n - Unit(i) \in Byte
            /\ Nibble(n - Unit(i), i) = Nibble(n, i) - 1
            /\ \A j \in Int : i % 2 # j % 2 =>
                   Nibble(n - Unit(i), j) = Nibble(n, j)
  BY DEF Byte, Nibble, Unit

\* The mask bitmap_check applies is zero exactly when the counter is.
LEMMA MaskedZero ==
    \A n \in Byte, i \in Int : (Masked(n, i) = 0) <=> (Nibble(n, i) = 0)
  BY DEF Byte, Nibble, Masked

-----------------------------------------------------------------------------
\* The bytes stay bytes (bitmap_increment, bitmap_decrement): no carry and no
\* borrow ever leaves a nibble.
THEOREM BytesStay == BitmapSpec => []BitmapTypeOK
<1>1. BitmapInit => BitmapTypeOK
  BY DEF BitmapInit, BitmapTypeOK, Byte, Counters!Results
<1>2. BitmapTypeOK /\ [BitmapNext]_bitmapVars => BitmapTypeOK'
  <2> SUFFICES ASSUME BitmapTypeOK, [BitmapNext]_bitmapVars PROVE BitmapTypeOK'
    OBVIOUS
  <2>1. ASSUME NEW i \in Indexes, Increment(i) PROVE BitmapTypeOK'
    <3>1. i \in Int /\ Access(i) \in Addresses
      BY AccessInRange, SizeAssumption DEF Indexes
    <3>2. array[Access(i)] \in Byte
      BY <3>1 DEF BitmapTypeOK
    <3> QED  BY <2>1, <3>1, <3>2, UnitUp DEF Increment, BitmapTypeOK, Counters!Results
  <2>2. ASSUME NEW i \in Indexes, Decrement(i) PROVE BitmapTypeOK'
    <3>1. i \in Int /\ Access(i) \in Addresses
      BY AccessInRange, SizeAssumption DEF Indexes
    <3>2. array[Access(i)] \in Byte
      BY <3>1 DEF BitmapTypeOK
    <3> QED  BY <2>2, <3>1, <3>2, UnitDown DEF Decrement, BitmapTypeOK, Counters!Results
  <2>3. ASSUME NEW i \in Indexes, Check(i) PROVE BitmapTypeOK'
    BY <2>3 DEF Check, BitmapTypeOK, Counters!Results
  <2>4. CASE UNCHANGED bitmapVars
    BY <2>4 DEF bitmapVars, BitmapTypeOK
  <2> QED  BY <2>1, <2>2, <2>3, <2>4 DEF BitmapNext
<1> QED  BY <1>1, <1>2, PTL DEF BitmapSpec

\* Every call on the packed bytes is the same call on an array of independent
\* counters: a neighbour in the same byte is never disturbed
\* (bitmap_increment, bitmap_decrement, bitmap_check).
THEOREM Refinement == BitmapSpec => ImplementsCounters
<1>1. BitmapInit => Counters!Init
  <2> SUFFICES ASSUME BitmapInit PROVE CounterOf = [i \in Indexes |-> 0]
    BY DEF BitmapInit, Counters!Init
  <2> SUFFICES ASSUME NEW i \in Indexes PROVE Nibble(array[Access(i)], i) = 0
    BY DEF CounterOf
  <2> QED  BY AccessInRange DEF BitmapInit, Nibble
<1>2. BitmapTypeOK /\ [BitmapNext]_bitmapVars => [Counters!Next]_(Counters!vars)
  <2> SUFFICES ASSUME BitmapTypeOK, [BitmapNext]_bitmapVars
               PROVE  [Counters!Next]_(Counters!vars)
    OBVIOUS
  <2>1. ASSUME NEW i \in Indexes, Increment(i) PROVE Counters!Increment(i)
    <3>1. i \in Int /\ Access(i) \in Addresses
      BY AccessInRange, SizeAssumption DEF Indexes
    <3>2. array[Access(i)] \in Byte
      BY <3>1 DEF BitmapTypeOK
    <3>3. CASE Nibble(array[Access(i)], i) = 15
      BY <2>1, <3>3 DEF Increment, Counters!Increment, CounterOf
    <3>4. CASE Nibble(array[Access(i)], i) # 15
      <4>1. /\ array' = [array EXCEPT ![Access(i)] = @ + Unit(i)]
            /\ result' = "ok"
        BY <2>1, <3>4 DEF Increment
      <4>2. ASSUME NEW j \in Indexes
            PROVE  Nibble(array'[Access(j)], j)
                     = [CounterOf EXCEPT ![i] = @ + 1][j]
        <5>1. j \in Int /\ Access(j) \in Addresses
          BY AccessInRange, SizeAssumption DEF Indexes
        <5>2. CASE j = i
          BY <3>1, <3>2, <3>4, <4>1, <5>2, UnitUp DEF CounterOf, BitmapTypeOK
        <5>3. CASE j # i /\ Access(j) = Access(i)
          BY <3>1, <3>2, <3>4, <4>1, <5>1, <5>3, UnitUp, AccessShared
             DEF CounterOf, BitmapTypeOK
        <5>4. CASE j # i /\ Access(j) # Access(i)
          BY <3>1, <4>1, <5>1, <5>4 DEF CounterOf, BitmapTypeOK
        <5> QED  BY <5>2, <5>3, <5>4
      <4>3. CounterOf' = [CounterOf EXCEPT ![i] = @ + 1]
        BY <4>2 DEF CounterOf
      <4> QED  BY <3>4, <4>1, <4>3 DEF Counters!Increment, CounterOf
    <3> QED  BY <3>3, <3>4
  <2>2. ASSUME NEW i \in Indexes, Decrement(i) PROVE Counters!Decrement(i)
    <3>1. i \in Int /\ Access(i) \in Addresses
      BY AccessInRange, SizeAssumption DEF Indexes
    <3>2. array[Access(i)] \in Byte
      BY <3>1 DEF BitmapTypeOK
    <3>3. CASE Nibble(array[Access(i)], i) = 0
      BY <2>2, <3>3 DEF Decrement, Counters!Decrement, CounterOf
    <3>4. CASE Nibble(array[Access(i)], i) # 0
      <4>1. /\ array' = [array EXCEPT ![Access(i)] = @ - Unit(i)]
            /\ result' = "ok"
        BY <2>2, <3>4 DEF Decrement
      <4>2. ASSUME NEW j \in Indexes
            PROVE  Nibble(array'[Access(j)], j)
                     = [CounterOf EXCEPT ![i] = @ - 1][j]
        <5>1. j \in Int /\ Access(j) \in Addresses
          BY AccessInRange, SizeAssumption DEF Indexes
        <5>2. CASE j = i
          BY <3>1, <3>2, <3>4, <4>1, <5>2, UnitDown DEF CounterOf, BitmapTypeOK
        <5>3. CASE j # i /\ Access(j) = Access(i)
          BY <3>1, <3>2, <3>4, <4>1, <5>1, <5>3, UnitDown, AccessShared
             DEF CounterOf, BitmapTypeOK
        <5>4. CASE j # i /\ Access(j) # Access(i)
          BY <3>1, <4>1, <5>1, <5>4 DEF CounterOf, BitmapTypeOK
        <5> QED  BY <5>2, <5>3, <5>4
      <4>3. CounterOf' = [CounterOf EXCEPT ![i] = @ - 1]
        BY <4>2 DEF CounterOf
      <4> QED  BY <3>4, <4>1, <4>3 DEF Counters!Decrement, CounterOf
    <3> QED  BY <3>3, <3>4
  <2>3. ASSUME NEW i \in Indexes, Check(i) PROVE Counters!Check(i)
    <3>1. i \in Int /\ array[Access(i)] \in Byte
      BY AccessInRange, SizeAssumption DEF Indexes, BitmapTypeOK
    <3>2. (Masked(array[Access(i)], i) = 0) <=> (CounterOf[i] = 0)
      BY <3>1, MaskedZero DEF CounterOf
    <3>3. UNCHANGED CounterOf
      BY <2>3 DEF Check, CounterOf
    <3> QED  BY <2>3, <3>2, <3>3 DEF Check, Counters!Check
  <2>4. CASE UNCHANGED bitmapVars
    BY <2>4 DEF bitmapVars, Counters!vars, CounterOf
  <2> QED  BY <2>1, <2>2, <2>3, <2>4 DEF BitmapNext, Counters!Next
<1> QED  BY <1>1, <1>2, BytesStay, PTL DEF BitmapSpec, ImplementsCounters, Counters!Spec

-----------------------------------------------------------------------------
(* The sequence numbers. *)

\* What each point of a call knows about the seqnums.
CallInv ==
    /\ pc \in {"idle", "sync_clear", "take", "mark", "sync_mark"} /\ ~misled =>
           mem.mem_seqnum # 0
    /\ pc \in {"sync_clear", "take", "write", "mark"} => mem.disk_seqnum = 0
    /\ pc \in {"sync_clear", "take"} => mem.mem_seqnum < MaxSeqnum
    /\ pc = "write" => mem.mem_seqnum = 0 /\ seqnum < MaxSeqnum
    /\ pc = "sync_mark" /\ ~misled => mem.disk_seqnum # 0
    /\ pc = "machine_down" => mem = disk

\* A clearing may be missing on the disk only while the disk_seqnum is zero in
\* memory; a machine crash turns that into the loss of every guarantee.
Exposure ==
    /\ misled => exposed
    /\ exposed /\ ~misled =>
           mem.disk_seqnum = 0 /\ pc \notin {"mark", "sync_mark", "machine_down"}
    /\ ~exposed /\ pc # "sync_clear" /\ mem.disk_seqnum = 0 => disk.disk_seqnum = 0

\* A disk_seqnum, stored or written back, vouches for the disk: it names the
\* state in memory, and the disk holds that state.
Vouched ==
    ~exposed /\ pc # "machine_down" /\ (mem.disk_seqnum # 0 \/ disk.disk_seqnum # 0) =>
        /\ mem.mem_seqnum # 0
        /\ disk.mem_seqnum = mem.mem_seqnum
        /\ disk.cells = mem.cells
        /\ mem.disk_seqnum # 0 => mem.disk_seqnum = mem.mem_seqnum
        /\ disk.disk_seqnum # 0 => disk.disk_seqnum = mem.mem_seqnum

\* Between the two msyncs of a flush nothing but the disk_seqnum is missing.
Synced ==
    pc \in {"mark", "sync_mark"} =>
        disk.mem_seqnum = mem.mem_seqnum /\ disk.cells = mem.cells

\* A successful flush leaves the disk_seqnum in memory and on the disk.
Flushed == flushed /\ ~misled => mem.disk_seqnum # 0 /\ disk.disk_seqnum # 0

Inv == /\ TypeOK
       /\ CallInv
       /\ Exposure
       /\ Vouched
       /\ Synced
       /\ Flushed
       /\ MemSeqnumSound
       /\ DiskSeqnumSound

-----------------------------------------------------------------------------
\* new_scaling_bloom leaves a file that satisfies the invariant.
LEMMA InitInv == Init => Inv
<1> SUFFICES ASSUME Init PROVE Inv
  OBVIOUS
<1>1. 0 \in Seqnums /\ 1 \in Seqnums /\ Zeros \in Contents
  BY BoundAssumption DEF Seqnums, Zeros, Contents
<1>2. BlankFile \in Files /\ NewFile \in Files
  BY <1>1 DEF BlankFile, NewFile, Files
<1>3. /\ NewFile.mem_seqnum = 1 /\ NewFile.disk_seqnum = 0 /\ NewFile.cells = Zeros
      /\ BlankFile.disk_seqnum = 0
  BY DEF NewFile, BlankFile
<1>4. TypeOK
  BY <1>1, <1>2 DEF Init, TypeOK, PCs
<1>5. image[1] = Zeros
  BY <1>1 DEF Init
<1> QED  BY <1>3, <1>4, <1>5 DEF Init, Inv, CallInv, Exposure, Vouched, Synced, Flushed,
            MemSeqnumSound, DiskSeqnumSound, DiskVouched

\* Storing one field of a file leaves the others alone.
LEMMA Fields ==
    \A f \in Files, s \in Seqnums :
        /\ [f EXCEPT !.mem_seqnum = s] \in Files
        /\ [f EXCEPT !.mem_seqnum = s].mem_seqnum = s
        /\ [f EXCEPT !.mem_seqnum = s].disk_seqnum = f.disk_seqnum
        /\ [f EXCEPT !.mem_seqnum = s].cells = f.cells
        /\ [f EXCEPT !.disk_seqnum = s] \in Files
        /\ [f EXCEPT !.disk_seqnum = s].mem_seqnum = f.mem_seqnum
        /\ [f EXCEPT !.disk_seqnum = s].disk_seqnum = s
        /\ [f EXCEPT !.disk_seqnum = s].cells = f.cells
        /\ f.mem_seqnum \in Seqnums
        /\ f.disk_seqnum \in Seqnums
        /\ f.cells \in Contents
        /\ 0 \in Seqnums
<1>1. 0 \in Seqnums
  BY BoundAssumption DEF Seqnums
<1> QED  BY <1>1 DEF Files

\* So does storing one cell.
LEMMA CellFields ==
    \A f \in Files, c \in Cells, s \in Seqnums :
        /\ [f EXCEPT !.cells[c] = s] \in Files
        /\ [f EXCEPT !.cells[c] = s].mem_seqnum = f.mem_seqnum
        /\ [f EXCEPT !.cells[c] = s].disk_seqnum = f.disk_seqnum
        /\ [f EXCEPT !.cells[c] = s].cells = [f.cells EXCEPT ![c] = s]
        /\ [f.cells EXCEPT ![c] = f.cells[c]] = f.cells
<1> SUFFICES ASSUME NEW f \in Files, NEW c \in Cells, NEW s \in Seqnums
             PROVE  /\ [f EXCEPT !.cells[c] = s] \in Files
                    /\ [f EXCEPT !.cells[c] = s].mem_seqnum = f.mem_seqnum
                    /\ [f EXCEPT !.cells[c] = s].disk_seqnum = f.disk_seqnum
                    /\ [f EXCEPT !.cells[c] = s].cells = [f.cells EXCEPT ![c] = s]
                    /\ [f.cells EXCEPT ![c] = f.cells[c]] = f.cells
  OBVIOUS
<1>1. /\ f.mem_seqnum \in Seqnums
      /\ f.disk_seqnum \in Seqnums
      /\ f.cells \in [Cells -> Seqnums]
      /\ f = [mem_seqnum |-> f.mem_seqnum, disk_seqnum |-> f.disk_seqnum, cells |-> f.cells]
  BY DEF Files, Contents
<1>2. [f.cells EXCEPT ![c] = s] \in [Cells -> Seqnums]
  BY <1>1
<1>3. [f EXCEPT !.cells[c] = s] =
          [mem_seqnum |-> f.mem_seqnum, disk_seqnum |-> f.disk_seqnum,
           cells |-> [f.cells EXCEPT ![c] = s]]
  BY <1>1
<1> QED  BY <1>1, <1>2, <1>3 DEF Files, Contents

\* Every step keeps it.
LEMMA NextInv == Inv /\ [Next]_vars => Inv'
<1> SUFFICES ASSUME Inv, [Next]_vars PROVE Inv'
  OBVIOUS
<1> USE DEF Inv, CallInv, Exposure, Vouched, Synced, Flushed, MemSeqnumSound,
            DiskSeqnumSound, DiskVouched
<1>1. CASE BeginChange
  <2>1. /\ mem'.mem_seqnum = mem.mem_seqnum
        /\ mem'.disk_seqnum = 0
        /\ mem'.cells = mem.cells
        /\ mem' \in Files
    BY <1>1, Fields DEF BeginChange, TypeOK
  <2>2. TypeOK'
    BY <1>1, <2>1 DEF BeginChange, TypeOK, PCs
  <2> QED  BY <1>1, <2>1, <2>2 DEF BeginChange
<1>2. CASE SyncClear
  <2>1. TypeOK'
    BY <1>2 DEF SyncClear, TypeOK, PCs
  <2>2. CASE disk' = mem /\ exposed' = misled
    BY <1>2, <2>1, <2>2 DEF SyncClear
  <2>3. CASE exposed' = TRUE /\ UNCHANGED disk
    BY <1>2, <2>1, <2>3 DEF SyncClear
  <2> QED  BY <1>2, <2>2, <2>3 DEF SyncClear
<1>3. CASE Take
  <2>1. /\ mem'.mem_seqnum = 0
        /\ mem'.disk_seqnum = mem.disk_seqnum
        /\ mem'.cells = mem.cells
        /\ mem' \in Files
        /\ seqnum' = mem.mem_seqnum
    BY <1>3, Fields DEF Take, TypeOK
  <2>2. TypeOK'
    BY <1>3, <2>1, Fields DEF Take, TypeOK, PCs
  <2> QED  BY <1>3, <2>1, <2>2 DEF Take
<1>4. ASSUME NEW c \in Cells, Write(c) PROVE Inv'
  <2>1. /\ mem'.mem_seqnum = mem.mem_seqnum
        /\ mem'.disk_seqnum = mem.disk_seqnum
        /\ mem' \in Files
    <3>1. seqnum + 1 \in Seqnums
      BY <1>4, BoundAssumption DEF Write, TypeOK, Seqnums
    <3>2. mem \in Files
      BY DEF TypeOK
    <3> DEFINE new == [mem EXCEPT !.cells[c] = seqnum + 1]
    <3>3. /\ new.mem_seqnum = mem.mem_seqnum
          /\ new.disk_seqnum = mem.disk_seqnum
          /\ new \in Files
      BY <3>1, <3>2, CellFields
    <3>4. mem' = new
      BY <1>4 DEF Write
    <3> QED  BY <3>3, <3>4
  <2>4. TypeOK'
    BY <1>4, <2>1 DEF Write, TypeOK, PCs
  <2> QED  BY <1>4, <2>1, <2>4 DEF Write
<1>5. CASE Stamp
  <2>1. /\ mem'.mem_seqnum = seqnum + 1
        /\ mem'.disk_seqnum = mem.disk_seqnum
        /\ mem'.cells = mem.cells
    BY <1>5 DEF Stamp, TypeOK, Files
  <2>2. seqnum + 1 \in Seqnums /\ seqnum + 1 # 0
    BY <1>5, BoundAssumption DEF Stamp, TypeOK, Seqnums
  <2>3. mem' \in Files
    BY <1>5, <2>1, <2>2 DEF Stamp, TypeOK, Files
  <2>4. image' \in [Seqnums -> Contents] /\ image'[seqnum + 1] = mem.cells
    BY <1>5, <2>2 DEF Stamp, TypeOK, Files
  <2>5. TypeOK'
    BY <1>5, <2>3, <2>4 DEF Stamp, TypeOK, PCs
  <2> QED  BY <1>5, <2>1, <2>2, <2>4, <2>5 DEF Stamp
<1>6. CASE Flush
  <2>1. TypeOK'
    BY <1>6 DEF Flush, TypeOK, PCs
  <2>2. CASE /\ disk' = mem
             /\ exposed' = misled
             /\ pc' = IF mem.disk_seqnum = 0 THEN "mark" ELSE "idle"
             /\ flushed' = IF mem.disk_seqnum = 0 THEN flushed ELSE TRUE
    <3>1. CASE mem.disk_seqnum = 0
      BY <1>6, <2>1, <2>2, <3>1 DEF Flush
    <3>2. CASE mem.disk_seqnum # 0
      BY <1>6, <2>1, <2>2, <3>2 DEF Flush
    <3> QED  BY <3>1, <3>2
  <2>3. CASE UNCHANGED <<disk, pc, flushed, exposed>>
    BY <1>6, <2>1, <2>3 DEF Flush
  <2> QED  BY <1>6, <2>2, <2>3 DEF Flush
<1>7. CASE Mark
  <2>1. /\ mem'.mem_seqnum = mem.mem_seqnum
        /\ mem'.disk_seqnum = mem.mem_seqnum
        /\ mem'.cells = mem.cells
        /\ mem' \in Files
    BY <1>7, Fields DEF Mark, TypeOK
  <2>2. TypeOK'
    BY <1>7, <2>1 DEF Mark, TypeOK, PCs
  <2> QED  BY <1>7, <2>1, <2>2 DEF Mark
<1>8. CASE SyncMark
  <2>1. TypeOK'
    BY <1>8 DEF SyncMark, TypeOK, PCs
  <2>2. CASE disk' = mem /\ flushed' = TRUE
    BY <1>8, <2>1, <2>2 DEF SyncMark
  <2>3. CASE UNCHANGED <<disk, flushed>>
    BY <1>8, <2>1, <2>3 DEF SyncMark
  <2> QED  BY <1>8, <2>2, <2>3 DEF SyncMark
<1>9. CASE WriteBack
  <2>1. CASE disk' = [disk EXCEPT !.mem_seqnum = mem.mem_seqnum]
    <3>1. /\ disk'.mem_seqnum = mem.mem_seqnum
          /\ disk'.disk_seqnum = disk.disk_seqnum
          /\ disk'.cells = disk.cells
          /\ disk' \in Files
      BY <2>1, Fields DEF TypeOK
    <3>2. TypeOK'
      BY <1>9, <3>1 DEF WriteBack, TypeOK
    <3>3. pc = "machine_down" => disk' = disk
      BY <2>1 DEF TypeOK, Files
    <3> QED  BY <1>9, <3>1, <3>2, <3>3 DEF WriteBack
  <2>2. CASE disk' = [disk EXCEPT !.disk_seqnum = mem.disk_seqnum]
    <3>1. /\ disk'.mem_seqnum = disk.mem_seqnum
          /\ disk'.disk_seqnum = mem.disk_seqnum
          /\ disk'.cells = disk.cells
          /\ disk' \in Files
      BY <2>2, Fields DEF TypeOK
    <3>2. TypeOK'
      BY <1>9, <3>1 DEF WriteBack, TypeOK
    <3>3. pc = "machine_down" => disk' = disk
      BY <2>2 DEF TypeOK, Files
    <3> QED  BY <1>9, <3>1, <3>2, <3>3 DEF WriteBack
  <2>3. ASSUME NEW c \in Cells, disk' = [disk EXCEPT !.cells[c] = mem.cells[c]]
        PROVE  Inv'
    <3>1. /\ disk'.mem_seqnum = disk.mem_seqnum
          /\ disk'.disk_seqnum = disk.disk_seqnum
          /\ disk'.cells = [disk.cells EXCEPT ![c] = mem.cells[c]]
      BY <2>3 DEF TypeOK, Files
    <3>2. disk.cells \in Contents /\ mem.cells \in Contents
      BY DEF TypeOK, Files
    <3>3. /\ disk'.cells \in Contents
          /\ disk.cells = mem.cells => disk'.cells = disk.cells
      BY <3>1, <3>2 DEF Contents
    <3>4. disk' \in Files
      BY <2>3, <3>1, <3>3 DEF TypeOK, Files
    <3>5. TypeOK'
      BY <1>9, <3>4 DEF WriteBack, TypeOK
    <3>6. pc = "machine_down" => disk' = disk
      BY <2>3 DEF TypeOK, Files, Contents
    <3> QED  BY <1>9, <3>1, <3>3, <3>5, <3>6 DEF WriteBack
  <2> QED  BY <1>9, <2>1, <2>2, <2>3 DEF WriteBack
<1>10. CASE ProcessCrash
  <2>1. TypeOK'
    BY <1>10 DEF ProcessCrash, TypeOK, PCs
  <2> QED  BY <1>10, <2>1 DEF ProcessCrash
<1>11. CASE MachineCrash
  <2>1. TypeOK'
    BY <1>11 DEF MachineCrash, TypeOK, PCs
  <2> QED  BY <1>11, <2>1 DEF MachineCrash
<1>12. CASE Reopen
  <2>1. TypeOK'
    BY <1>12 DEF Reopen, TypeOK, PCs
  <2> QED  BY <1>12, <2>1 DEF Reopen, Usable
<1>13. CASE Recreate
  <2>1. 0 \in Seqnums /\ 1 \in Seqnums /\ Zeros \in Contents
    BY BoundAssumption DEF Seqnums, Zeros, Contents
  <2>2. BlankFile \in Files /\ NewFile \in Files
    BY <2>1 DEF BlankFile, NewFile, Files
  <2>3. /\ NewFile.mem_seqnum = 1 /\ NewFile.disk_seqnum = 0 /\ NewFile.cells = Zeros
        /\ BlankFile.disk_seqnum = 0
    BY DEF NewFile, BlankFile
  <2>4. image' \in [Seqnums -> Contents] /\ image'[1] = Zeros
    BY <1>13, <2>1 DEF Recreate, TypeOK
  <2>5. TypeOK'
    BY <1>13, <2>2, <2>4 DEF Recreate, TypeOK, PCs
  <2> QED  BY <1>13, <2>3, <2>4, <2>5 DEF Recreate
<1>14. CASE UNCHANGED vars
  BY <1>14 DEF vars, TypeOK
<1> QED
  BY <1>1, <1>2, <1>3, <1>4, <1>5, <1>6, <1>7, <1>8, <1>9, <1>10, <1>11, <1>12,
     <1>13, <1>14 DEF Next

\* The invariant holds in every behaviour, whatever crashes and fails.
THEOREM Invariance == Spec => []Inv
<1>1. Inv /\ [Next]_vars => Inv'
  BY NextInv
<1> QED  BY <1>1, InitInv, PTL DEF Spec

\* The states of a call and the fields of the file stay in their types.
THEOREM TypeCorrect == Spec => []TypeOK
<1>1. Inv => TypeOK
  BY DEF Inv
<1> QED  BY <1>1, Invariance, PTL

\* After a machine crash a non-zero disk_seqnum vouches for the whole disk,
\* unless a clearing of it missed the disk.
THEOREM DiskSound == Spec => []DiskSeqnumSound
<1>1. Inv => DiskSeqnumSound
  BY DEF Inv
<1> QED  BY <1>1, Invariance, PTL

\* Whenever a call may start a non-zero mem_seqnum vouches for the whole file,
\* unless the machine crashed while the disk missed a clearing.
THEOREM MemSound == Spec => []MemSeqnumSound
<1>1. Inv => MemSeqnumSound
  BY DEF Inv
<1> QED  BY <1>1, Invariance, PTL

\* A flush that reported success survives every crash until the next change,
\* and undoes the harm of a clearing that missed the disk.
THEOREM FlushSurvives == Spec => []FlushDurable
<1>1. Inv => FlushDurable
  BY DEF Inv, Exposure, Flushed, Vouched, DiskSeqnumSound, FlushDurable
<1> QED  BY <1>1, Invariance, PTL

\* The disk_seqnum is cleared on disk before any other change, as the comment in
\* scaling_bloom_clear_seqnums says, unless its msync fails or is missed.
THEOREM ClearedBefore == Spec => []ClearedUnlessExposed
<1>1. Inv => ClearedUnlessExposed
  BY DEF Inv, Vouched, Exposure, DiskSeqnumSound, DiskVouched, CallInv,
         ClearedUnlessExposed, ClearedFirst
<1> QED  BY <1>1, Invariance, PTL
=============================================================================
