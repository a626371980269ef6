------------------------------ MODULE FrameRing ------------------------------
(***************************************************************************)
(* One stream's ring of frame slots in POSIX shared memory, its writer     *)
(* (SharedMemoryRingBuffer::write_frame in camera_server) and the seqlock  *)
(* readers of policy_runner, rb_gui and the tools.  An image is a function *)
(* from payload words to the frame they were copied from, so that a torn   *)
(* image is one whose words disagree.  Loads and stores take effect in     *)
(* program order, as on the x86 hosts the stack runs on.                   *)
(***************************************************************************)
EXTENDS Naturals

CONSTANTS
    Readers,        \* processes that map the segment
    SlotCount,      \* shared_memory.ring_slots
    Words,          \* words of a payload
    Retries,        \* read attempts before a reader gives up
    MaxFrame,       \* bound on the frames captured
    MaxRestarts     \* bound on the restarts of the camera server

ASSUME SlotCountAssumption == SlotCount \in Nat \ {0}
ASSUME WordsAssumption == Words # {}
ASSUME RetriesAssumption == Retries \in Nat \ {0}
ASSUME BoundsAssumption == MaxFrame \in Nat /\ MaxRestarts \in Nat

Segments == 0..MaxRestarts
Slots == 0..(SlotCount - 1)
Cells == Segments \X Slots
Image == [Words -> Nat]
Unmapped == MaxRestarts + 1
Blank == [w \in Words |-> 0]

VARIABLES
    seg,        \* the segment the server has created under the shm name
    frame,      \* frames captured so far; the number of the last one
    nextSlot,   \* ring.next_slot
    begin,      \* seq_begin of every slot of every segment
    end,        \* seq_end
    valid,      \* valid
    image,      \* the payload
    wpc, wslot, todo,       \* the writer: step, slot, words not copied yet
    meta,       \* the newest published metadata: segment, slot and frame
    rpc,        \* the readers: step,
    rmeta,      \*   the metadata of the frame they look for,
    mapped,     \*   the segment they have mapped, or Unmapped,
    first, last, ok,        \* a, b and the valid flag
    need, copy,             \*   the words not copied yet, the copy,
    tries, result           \*   failed attempts, the last image delivered

memory == <<begin, end, valid, image>>
writer == <<seg, frame, nextSlot, wpc, wslot, todo, meta>>
reader == <<rpc, rmeta, mapped, first, last, ok, need, copy, tries, result>>
ringVars == <<memory, writer, reader>>

Metas == [seg: Segments, slot: Slots, frame: Nat]
NoMeta == [seg |-> 0, slot |-> 0, frame |-> 0]
NoResult == [copy |-> Blank, label |-> NoMeta, from |-> 0]

RingInit ==
    /\ seg = 0 /\ frame = 0 /\ nextSlot = 0
    /\ begin = [c \in Cells |-> 0] /\ end = [c \in Cells |-> 0]
    /\ valid = [c \in Cells |-> FALSE] /\ image = [c \in Cells |-> Blank]
    /\ wpc = "idle" /\ wslot = 0 /\ todo = {} /\ meta = NoMeta
    /\ rpc = [r \in Readers |-> "idle"] /\ rmeta = [r \in Readers |-> NoMeta]
    /\ mapped = [r \in Readers |-> Unmapped]
    /\ first = [r \in Readers |-> 0] /\ last = [r \in Readers |-> 0]
    /\ ok = [r \in Readers |-> FALSE]
    /\ need = [r \in Readers |-> {}] /\ copy = [r \in Readers |-> Blank]
    /\ tries = [r \in Readers |-> 0] /\ result = [r \in Readers |-> NoResult]
-----------------------------------------------------------------------------
cell == <<seg, wslot>>

(* A frame arrives: its slot is marked as being written.                   *)
WriteBegin ==
    /\ wpc = "idle" /\ frame < MaxFrame
    /\ frame' = frame + 1
    /\ nextSlot' = (nextSlot + 1) % SlotCount
    /\ wslot' = nextSlot
    /\ begin' = [begin EXCEPT ![<<seg, nextSlot>>] = IF @ % 2 = 0 THEN @ + 1 ELSE @ + 2]
    /\ wpc' = "copy" /\ todo' = Words
    /\ UNCHANGED <<seg, meta, end, valid, image, reader>>

(* A frame larger than the slot takes the slot number and throws.          *)
WriteTooLarge ==
    /\ wpc = "idle"
    /\ nextSlot' = (nextSlot + 1) % SlotCount
    /\ UNCHANGED <<seg, frame, wpc, wslot, todo, meta, memory, reader>>

WriteWord(w) ==
    /\ wpc = "copy" /\ w \in todo
    /\ image' = [image EXCEPT ![cell] = [@ EXCEPT ![w] = frame]]
    /\ todo' = todo \ {w}
    /\ UNCHANGED <<seg, frame, nextSlot, wpc, wslot, meta, begin, end, valid, reader>>

WriteValid ==
    /\ wpc = "copy" /\ todo = {}
    /\ valid' = [valid EXCEPT ![cell] = TRUE]
    /\ wpc' = "end"
    /\ UNCHANGED <<seg, frame, nextSlot, wslot, todo, meta, begin, end, image, reader>>

WriteEnd ==
    /\ wpc = "end"
    /\ end' = [end EXCEPT ![cell] = begin[cell] + 1]
    /\ wpc' = "seal"
    /\ UNCHANGED <<seg, frame, nextSlot, wslot, todo, meta, begin, valid, image, reader>>

(* Faulty variant: the metadata names the slot the next frame will take.   *)
WriteSealNextSlot ==
    /\ wpc = "seal"
    /\ begin' = [begin EXCEPT ![cell] = @ + 1]
    /\ wpc' = "idle"
    /\ meta' = [seg |-> seg, slot |-> nextSlot, frame |-> frame]
    /\ UNCHANGED <<seg, frame, nextSlot, wslot, todo, end, valid, image, reader>>

(* The slot is complete, and its metadata is published in a bundle.        *)
WriteSeal ==
    /\ wpc = "seal"
    /\ begin' = [begin EXCEPT ![cell] = @ + 1]
    /\ wpc' = "idle"
    /\ meta' = [seg |-> seg, slot |-> wslot, frame |-> frame]
    /\ UNCHANGED <<seg, frame, nextSlot, wslot, todo, end, valid, image, reader>>

(* The camera server stops, anywhere in a write, and starts again.  With   *)
(* unlink_on_start it creates a new segment under the same name; processes *)
(* that have mapped the old one keep it.                                   *)
Restart ==
    /\ seg < MaxRestarts
    /\ seg' = seg + 1
    /\ nextSlot' = 0 /\ wpc' = "idle" /\ todo' = {}
    /\ UNCHANGED <<frame, wslot, meta, memory, reader>>
-----------------------------------------------------------------------------
(* The mapping of a name is cached: it is opened only once.                *)
shmCacheGet(r) == IF mapped[r] = Unmapped THEN seg ELSE mapped[r]

rcell(r) == <<mapped[r], rmeta[r].slot>>

(* A bundle is received; only the newest one is kept.                      *)
Take(r) ==
    /\ rpc[r] = "idle" /\ meta # NoMeta
    /\ rmeta' = [rmeta EXCEPT ![r] = meta]
    /\ mapped' = [mapped EXCEPT ![r] = shmCacheGet(r)]
    /\ tries' = [tries EXCEPT ![r] = 0]
    /\ rpc' = [rpc EXCEPT ![r] = "first"]
    /\ UNCHANGED <<first, last, ok, need, copy, result, memory, writer>>

(* Another attempt, or "seqlock retry exhausted" and the bundle is lost.   *)
retry(r) ==
    /\ tries' = [tries EXCEPT ![r] = @ + 1]
    /\ rpc' = [rpc EXCEPT ![r] = IF tries[r] + 1 < Retries THEN "first" ELSE "idle"]

ReadFirst(r) ==
    /\ rpc[r] = "first"
    /\ first' = [first EXCEPT ![r] = begin[rcell(r)]]
    /\ IF begin[rcell(r)] % 2 = 1
       THEN retry(r)
       ELSE rpc' = [rpc EXCEPT ![r] = "header"] /\ UNCHANGED tries
    /\ UNCHANGED <<rmeta, mapped, last, ok, need, copy, result, memory, writer>>

ReadHeader(r) ==
    /\ rpc[r] = "header"
    /\ last' = [last EXCEPT ![r] = end[rcell(r)]]
    /\ ok' = [ok EXCEPT ![r] = valid[rcell(r)]]
    /\ need' = [need EXCEPT ![r] = Words]
    /\ rpc' = [rpc EXCEPT ![r] = "copy"]
    /\ UNCHANGED <<rmeta, mapped, first, copy, tries, result, memory, writer>>

ReadWord(r, w) ==
    /\ rpc[r] = "copy" /\ w \in need[r]
    /\ copy' = [copy EXCEPT ![r] = [@ EXCEPT ![w] = image[rcell(r)][w]]]
    /\ need' = [need EXCEPT ![r] = @ \ {w}]
    /\ UNCHANGED <<rpc, rmeta, mapped, first, last, ok, tries, result, memory, writer>>

(* Faulty variant: the begin counter is not read again after the copy.     *)
acceptsWithoutReread(r) == ok[r] /\ first[r] = last[r] /\ last[r] % 2 = 0

accepts(r) ==
    /\ ok[r]
    /\ first[r] = last[r] /\ last[r] = begin[rcell(r)]
    /\ last[r] % 2 = 0

ReadCheck(r) ==
    /\ rpc[r] = "copy" /\ need[r] = {}
    /\ IF accepts(r)
       THEN /\ result' = [result EXCEPT ![r] =
                             [copy |-> copy[r], label |-> rmeta[r], from |-> mapped[r]]]
            /\ rpc' = [rpc EXCEPT ![r] = "idle"]
            /\ UNCHANGED tries
       ELSE retry(r) /\ UNCHANGED result
    /\ UNCHANGED <<rmeta, mapped, first, last, ok, need, copy, memory, writer>>
-----------------------------------------------------------------------------
RingNext ==
    \/ WriteBegin \/ WriteTooLarge \/ (\E w \in Words : WriteWord(w))
    \/ WriteValid \/ WriteEnd \/ WriteSeal \/ Restart
    \/ \E r \in Readers :
          Take(r) \/ ReadFirst(r) \/ ReadHeader(r) \/ ReadCheck(r)
          \/ \E w \in Words : ReadWord(r, w)

RingSpec == RingInit /\ [][RingNext]_ringVars
-----------------------------------------------------------------------------
RingTypeOK ==
    /\ seg \in Segments /\ frame \in 0..MaxFrame /\ nextSlot \in Slots
    /\ begin \in [Cells -> Nat] /\ end \in [Cells -> Nat]
    /\ valid \in [Cells -> BOOLEAN] /\ image \in [Cells -> Image]
    /\ wpc \in {"idle", "copy", "end", "seal"} /\ wslot \in Slots
    /\ todo \in SUBSET Words /\ meta \in Metas
    /\ rpc \in [Readers -> {"idle", "first", "header", "copy"}]
    /\ rmeta \in [Readers -> Metas] /\ mapped \in [Readers -> Segments \cup {Unmapped}]
    /\ first \in [Readers -> Nat] /\ last \in [Readers -> Nat] /\ ok \in [Readers -> BOOLEAN]
    /\ need \in [Readers -> SUBSET Words] /\ copy \in [Readers -> Image]
    /\ tries \in [Readers -> 0..Retries]
    /\ result \in [Readers -> [copy: Image, label: Metas, from: Segments]]

(* Every image a reader accepts is one frame, copied whole, however the    *)
(* writer overtakes the reader in the slot.                                *)
ImageIsWhole ==
    \A r \in Readers, v, w \in Words : result[r].copy[v] = result[r].copy[w]

(* An image is never older than the frame its metadata announces, as long  *)
(* as the reader has mapped the segment the metadata is about.  It may be  *)
(* newer: no reader compares the slot's sequence with the bundle's.        *)
ImageNotOlder ==
    \A r \in Readers, w \in Words :
        result[r].from = result[r].label.seg => result[r].copy[w] >= result[r].label.frame
=============================================================================
