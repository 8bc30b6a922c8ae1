-------------------------- MODULE ScalingBloomDisk --------------------------
(***************************************************************************)
(* How the sequence numbers of a scaling filter's file (dablooms.c) tell a *)
(* client, after a crash, whether the file holds the outcome of whole      *)
(* calls.  The file is a shared mapping: stores go to the page cache (mem) *)
(* at once and reach the disk when the kernel writes a page back or msync  *)
(* forces all of them.  Every store and every msync of a call is a step,   *)
(* so that a crash may fall between any two of them.                       *)
(*                                                                         *)
(* What an add or a remove writes besides the seqnums (max_id, a new       *)
(* level's header, counters, count) is abstracted to the set of cells it   *)
(* writes, in any order; the content of a cell is the number of the change *)
(* that wrote it last.  ScalingBloom says what those writes compute.       *)
(***************************************************************************)
EXTENDS Integers

CONSTANTS Cells,         \* units of the file the kernel writes back whole
          MaxSeqnum,     \* bound: the mem_seqnum at which changes stop
          FailingSyncs   \* the msyncs that may fail: "clear", "flush"

ASSUME BoundAssumption == MaxSeqnum \in Nat \ {0}
ASSUME SyncAssumption == FailingSyncs \subseteq {"clear", "flush"}

VARIABLES pc,       \* where the program is in the current call
          mem,      \* the file as the processes of the machine see it
          disk,     \* the file as it will be read after a machine crash
          seqnum,   \* the local seqnum of scaling_bloom_add and _remove
          todo,     \* the cells the current change has yet to write
          image,    \* history: the cells as change s left them
          flushed,  \* history: the last flush succeeded, no change since
          exposed,  \* history: the disk may have missed a clearing of disk_seqnum
          misled    \* history: the machine crashed while exposed

vars == <<pc, mem, disk, seqnum, todo, image, flushed, exposed, misled>>

Seqnums == 0..MaxSeqnum

Contents == [Cells -> Seqnums]

Files == [mem_seqnum : Seqnums, disk_seqnum : Seqnums, cells : Contents]

Zeros == [c \in Cells |-> 0]

\* A file that was just truncated and extended, and the one new_scaling_bloom
\* leaves in memory.
BlankFile == [mem_seqnum |-> 0, disk_seqnum |-> 0, cells |-> Zeros]
NewFile == [BlankFile EXCEPT !.mem_seqnum = 1]

Init == /\ pc = "idle"
        /\ mem = NewFile
        /\ disk = BlankFile
        /\ seqnum = 0
        /\ todo = {}
        /\ image = [s \in Seqnums |-> Zeros]
        /\ flushed = FALSE
        /\ exposed = FALSE
        /\ misled = FALSE

-----------------------------------------------------------------------------
(* A change: scaling_bloom_add or scaling_bloom_remove.                    *)

\* scaling_bloom_clear_seqnums stores a zero disk_seqnum unless it is zero.
BeginChange ==
    /\ pc = "idle"
    /\ mem.mem_seqnum < MaxSeqnum
    /\ todo' \in SUBSET Cells \ {{}}
    /\ mem' = [mem EXCEPT !.disk_seqnum = 0]
    /\ pc' = IF mem.disk_seqnum # 0 THEN "sync_clear" ELSE "take"
    /\ flushed' = FALSE
    /\ UNCHANGED <<disk, seqnum, image, exposed, misled>>

\* Mutant: the cleared disk_seqnum is not forced to the disk.
SyncClearSkipped ==
    /\ pc = "sync_clear"
    /\ pc' = "take"
    /\ UNCHANGED <<mem, disk, seqnum, todo, image, flushed, exposed, misled>>

\* bitmap_flush in scaling_bloom_clear_seqnums, whose failure is ignored.
SyncClear ==
    /\ pc = "sync_clear"
    /\ \/ disk' = mem /\ exposed' = misled
       \/ "clear" \in FailingSyncs /\ exposed' = TRUE /\ UNCHANGED disk
    /\ pc' = "take"
    /\ UNCHANGED <<mem, seqnum, todo, image, flushed, misled>>

\* Mutant: the mem_seqnum keeps naming the state before the change.
TakeKept ==
    /\ pc = "take"
    /\ seqnum' = mem.mem_seqnum
    /\ pc' = "write"
    /\ UNCHANGED <<mem, disk, todo, image, flushed, exposed, misled>>

\* The rest of scaling_bloom_clear_seqnums: take the mem_seqnum and clear it.
Take ==
    /\ pc = "take"
    /\ seqnum' = mem.mem_seqnum
    /\ mem' = [mem EXCEPT !.mem_seqnum = 0]
    /\ pc' = "write"
    /\ UNCHANGED <<disk, todo, image, flushed, exposed, misled>>

\* One store of the change.
Write(c) ==
    /\ pc = "write"
    /\ c \in todo
    /\ mem' = [mem EXCEPT !.cells[c] = seqnum + 1]
    /\ todo' = todo \ {c}
    /\ UNCHANGED <<pc, disk, seqnum, image, flushed, exposed, misled>>

\* The last store of the change: its number becomes the mem_seqnum.
Stamp ==
    /\ pc = "write"
    /\ todo = {}
    /\ mem' = [mem EXCEPT !.mem_seqnum = seqnum + 1]
    /\ image' = [image EXCEPT ![seqnum + 1] = mem.cells]
    /\ pc' = "idle"
    /\ UNCHANGED <<disk, seqnum, todo, flushed, exposed, misled>>

-----------------------------------------------------------------------------
(* scaling_bloom_flush.                                                    *)

\* The first msync; its failure ends the call.  When the disk_seqnum is set
\* already the call ends here as well.
Flush ==
    /\ pc = "idle"
    /\ \/ /\ disk' = mem
          /\ exposed' = misled
          /\ pc' = IF mem.disk_seqnum = 0 THEN "mark" ELSE "idle"
          /\ flushed' = IF mem.disk_seqnum = 0 THEN flushed ELSE TRUE
       \/ /\ "flush" \in FailingSyncs
          /\ UNCHANGED <<disk, pc, flushed, exposed>>
    /\ UNCHANGED <<mem, seqnum, todo, image, misled>>

\* The disk_seqnum is set after everything else is on the disk.
Mark ==
    /\ pc = "mark"
    /\ mem' = [mem EXCEPT !.disk_seqnum = mem.mem_seqnum]
    /\ pc' = "sync_mark"
    /\ UNCHANGED <<disk, seqnum, todo, image, flushed, exposed, misled>>

\* Mutant: the flush succeeds without the second msync.
SyncMarkSkipped ==
    /\ pc = "sync_mark"
    /\ pc' = "idle"
    /\ flushed' = TRUE
    /\ UNCHANGED <<mem, disk, seqnum, todo, image, exposed, misled>>

\* The second msync; its outcome is the outcome of the call.
SyncMark ==
    /\ pc = "sync_mark"
    /\ \/ disk' = mem /\ flushed' = TRUE
       \/ "flush" \in FailingSyncs /\ UNCHANGED <<disk, flushed>>
    /\ pc' = "idle"
    /\ UNCHANGED <<mem, seqnum, todo, image, exposed, misled>>

-----------------------------------------------------------------------------
(* The machine and the client.                                             *)

\* The kernel writes back any part of the page cache when it likes.
WriteBack ==
    /\ \/ disk' = [disk EXCEPT !.mem_seqnum = mem.mem_seqnum]
       \/ disk' = [disk EXCEPT !.disk_seqnum = mem.disk_seqnum]
       \/ \E c \in Cells : disk' = [disk EXCEPT !.cells[c] = mem.cells[c]]
    /\ UNCHANGED <<pc, mem, seqnum, todo, image, flushed, exposed, misled>>

\* The process dies, or closes the filter: the page cache survives it.  A zero
\* disk_seqnum that was not yet forced to the disk stays in the cache only.
ProcessCrash ==
    /\ pc \notin {"process_down", "machine_down"}
    /\ pc' = "process_down"
    /\ todo' = {}
    /\ exposed' = (exposed \/ pc = "sync_clear")
    /\ UNCHANGED <<mem, disk, seqnum, image, flushed, misled>>

\* The machine dies and only the disk survives.
MachineCrash ==
    /\ pc # "machine_down"
    /\ pc' = "machine_down"
    /\ mem' = disk
    /\ todo' = {}
    /\ misled' = exposed
    /\ UNCHANGED <<disk, seqnum, image, flushed, exposed>>

\* What the seqnums are for: after a process crash the mem_seqnum, and after
\* a machine crash the disk_seqnum, is non-zero when the file may be used.
Usable == \/ pc = "process_down" /\ mem.mem_seqnum # 0
          \/ pc = "machine_down" /\ mem.disk_seqnum # 0

\* new_scaling_bloom_from_file changes nothing in the file.
Reopen ==
    /\ Usable
    /\ pc' = "idle"
    /\ UNCHANGED <<mem, disk, seqnum, todo, image, flushed, exposed, misled>>

\* A file that cannot be used is created again (O_TRUNC in new_scaling_bloom).
Recreate ==
    /\ pc \in {"process_down", "machine_down"}
    /\ ~Usable
    /\ pc' = "idle"
    /\ mem' = NewFile
    /\ disk' = BlankFile
    /\ image' = [image EXCEPT ![1] = Zeros]
    /\ flushed' = FALSE
    /\ exposed' = FALSE
    /\ misled' = FALSE
    /\ UNCHANGED <<seqnum, todo>>

Next == \/ BeginChange \/ SyncClear \/ Take \/ Stamp
        \/ \E c \in Cells : Write(c)
        \/ Flush \/ Mark \/ SyncMark
        \/ WriteBack \/ ProcessCrash \/ MachineCrash
        \/ Reopen \/ Recreate

Spec == Init /\ [][Next]_vars

-----------------------------------------------------------------------------
PCs == {"idle", "sync_clear", "take", "write", "mark", "sync_mark",
        "process_down", "machine_down"}

\* The states of a call and the fields of the file stay in their types; in
\* particular no change is started beyond the last seqnum.
TypeOK ==
    /\ pc \in PCs
    /\ mem \in Files
    /\ disk \in Files
    /\ seqnum \in Seqnums
    /\ todo \in SUBSET Cells
    /\ image \in [Seqnums -> Contents]
    /\ flushed \in BOOLEAN
    /\ exposed \in BOOLEAN
    /\ misled \in BOOLEAN

\* After a process crash, and whenever a call may start, a non-zero mem_seqnum
\* says that the file holds exactly what that change left: never half a change
\* (scaling_bloom_clear_seqnums and the last store of add and remove).  Only a
\* machine crash while the disk missed a clearing can break that.
MemSeqnumSound ==
    ~misled /\ pc # "machine_down" /\ mem.mem_seqnum # 0 =>
        mem.cells = image[mem.mem_seqnum]

\* The disk holds exactly what the change its disk_seqnum names left, and the
\* mem_seqnum there agrees, so that the client goes on from it.
DiskVouched == /\ disk.mem_seqnum = disk.disk_seqnum
               /\ disk.cells = image[disk.disk_seqnum]

\* After a machine crash a non-zero disk_seqnum vouches for the disk, unless a
\* clearing of it missed the disk (scaling_bloom_flush, clear_seqnums).
DiskSeqnumSound == ~exposed /\ disk.disk_seqnum # 0 => DiskVouched

\* A flush that reported success survives every crash until the next change,
\* also when it was retried after a failed msync or an earlier clearing missed
\* the disk: the disk holds a usable file (scaling_bloom_flush).
FlushDurable == flushed /\ ~misled => disk.disk_seqnum # 0 /\ DiskVouched

\* The comment in scaling_bloom_clear_seqnums: the disk_seqnum is cleared on
\* disk before any other change, of which clearing the mem_seqnum is the first.
ClearedFirst == mem.mem_seqnum = 0 => disk.disk_seqnum = 0

\* The comment holds as long as the clearing msync succeeds and no process dies
\* before it (scaling_bloom_clear_seqnums).
ClearedUnlessExposed == ~exposed => ClearedFirst
=============================================================================
