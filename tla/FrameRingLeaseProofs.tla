------------------------ MODULE FrameRingLeaseProofs ------------------------
(***************************************************************************)
(* Proofs about what ties policy_runner to the servers.                    *)
(*                                                                         *)
(* FrameRing: the seqlock of the frame ring is correct for every number of *)
(* slots, words, readers, frames and restarts.  The argument: a slot's     *)
(* begin counter only grows and its image changes only while the counter   *)
(* is odd, so a reader that finds the even value it started from has       *)
(* copied an image nobody touched; and frames are written in order, so the *)
(* words of a slot are never older than a frame announced for it.          *)
(*                                                                         *)
(* RunnerLease: for any number of losses, expiries and commands of rb_gui, *)
(* a runner that exits leaves the lease.  The argument: a runner that      *)
(* neither has the lease nor waits for it has a release under way behind   *)
(* everything it has sent that the server answers with the lease.          *)
(***************************************************************************)
EXTENDS FrameRing, RunnerLease, TLAPS

(* The frame ring. *)

USE DEF Segments, Slots, Cells, Image, Metas, Unmapped

(* Parity of the counters as the writer changes them.                      *)
LEMMA Parity ==
    ASSUME NEW n \in Nat
    PROVE  /\ n % 2 \in {0, 1}
           /\ n % 2 = 0 => (n + 1) % 2 = 1
           /\ n % 2 = 1 => (n + 2) % 2 = 1 /\ (n + 1) % 2 = 0
  OBVIOUS

(* The next slot is a slot.                                                *)
LEMMA NextSlotInRange ==
    ASSUME NEW n \in Nat
    PROVE  n % SlotCount \in 0..(SlotCount - 1)
  BY SlotCountAssumption

-----------------------------------------------------------------------------
(* A reader at work has a segment mapped and attempts left.                *)
Working ==
    \A r \in Readers : rpc[r] # "idle" => mapped[r] \in Segments /\ tries[r] < Retries

(* The types, with what the readers' steps need to stay in them.           *)
TypeInv == RingTypeOK /\ Working

LEMMA TypeInit == RingInit => TypeInv
  BY SlotCountAssumption, BoundsAssumption, RetriesAssumption
  DEF RingInit, RingTypeOK, NoMeta, NoResult, Blank, TypeInv, Working

(* A failed attempt either leaves an attempt or ends the read.             *)
LEMMA RetryStays ==
    ASSUME TypeInv, NEW r \in Readers, tries[r] < Retries, mapped[r] \in Segments, retry(r),
           UNCHANGED mapped
    PROVE  /\ tries' \in [Readers -> 0..Retries]
           /\ rpc' \in [Readers -> {"idle", "first", "header", "copy"}]
           /\ Working'
<1> USE RetriesAssumption DEF TypeInv, RingTypeOK, Working, retry
<1>1. tries[r] + 1 \in 0..Retries
  OBVIOUS
<1>2. tries' \in [Readers -> 0..Retries]
  BY <1>1, Zenon
<1>3. rpc' \in [Readers -> {"idle", "first", "header", "copy"}]
  BY Zenon
<1>4. ASSUME NEW q \in Readers, rpc'[q] # "idle"
      PROVE  mapped[q] \in Segments /\ tries'[q] < Retries
  <2>1. CASE q = r
    BY <1>4, <2>1, Zenon
  <2>2. CASE q # r
    BY <1>4, <2>2, Zenon
  <2> QED
    BY <2>1, <2>2, Zenon
<1> QED
  BY <1>2, <1>3, <1>4, Zenon

LEMMA TypeStep == TypeInv /\ [RingNext]_ringVars => TypeInv'
<1> SUFFICES ASSUME TypeInv, [RingNext]_ringVars PROVE TypeInv'
  BY Zenon
<1> USE SlotCountAssumption, BoundsAssumption, RetriesAssumption
    DEF RingTypeOK, TypeInv, Working, memory, writer, reader
<1>1. CASE WriteBegin
  <2>1. nextSlot \in Nat /\ nextSlot + 1 \in Nat
    OBVIOUS
  <2>2. nextSlot' \in Slots
    BY <1>1, <2>1, NextSlotInRange, Zenon DEF WriteBegin
  <2>3. begin' \in [Cells -> Nat]
    BY <1>1 DEF WriteBegin
  <2> QED
    BY <1>1, <2>2, <2>3 DEF WriteBegin
<1>2. CASE WriteTooLarge
  <2>1. nextSlot + 1 \in Nat
    OBVIOUS
  <2> QED
    BY <1>2, <2>1, NextSlotInRange, Zenon DEF WriteTooLarge
<1>3. ASSUME NEW w \in Words, WriteWord(w) PROVE TypeInv'
  BY <1>3 DEF WriteWord, cell
<1>4. CASE WriteValid
  BY <1>4, Zenon DEF WriteValid, cell
<1>5. CASE WriteEnd
  BY <1>5 DEF WriteEnd, cell
<1>6. CASE WriteSeal
  BY <1>6 DEF WriteSeal, cell
<1>7. CASE Restart
  BY <1>7 DEF Restart
<1>8. ASSUME NEW r \in Readers, Take(r) PROVE TypeInv'
  BY <1>8 DEF Take, shmCacheGet
<1>9. ASSUME NEW r \in Readers, ReadFirst(r) PROVE TypeInv'
  <2>1. mapped[r] \in Segments /\ tries[r] < Retries /\ rcell(r) \in Cells
    BY <1>9, Zenon DEF ReadFirst, rcell
  <2>2. CASE begin[rcell(r)] % 2 = 1
    <3>1. retry(r) /\ UNCHANGED mapped
      BY <1>9, <2>2, Zenon DEF ReadFirst
    <3>2. first' \in [Readers -> Nat]
      BY <1>9, <2>1, Zenon DEF ReadFirst
    <3> QED
      BY <1>9, <2>1, <3>1, <3>2, RetryStays, Zenon DEF ReadFirst
  <2>3. CASE begin[rcell(r)] % 2 # 1
    BY <1>9, <2>1, <2>3, Zenon DEF ReadFirst
  <2> QED
    BY <2>2, <2>3, Zenon
<1>10. ASSUME NEW r \in Readers, ReadHeader(r) PROVE TypeInv'
  <2>1. mapped[r] \in Segments /\ rcell(r) \in Cells
    BY <1>10, Zenon DEF ReadHeader, rcell
  <2> QED
    BY <1>10, <2>1, Zenon DEF ReadHeader
<1>11. ASSUME NEW r \in Readers, NEW w \in Words, ReadWord(r, w) PROVE TypeInv'
  <2>1. mapped[r] \in Segments /\ rcell(r) \in Cells
    BY <1>11, Zenon DEF ReadWord, rcell
  <2>2. image[rcell(r)][w] \in Nat
    BY <2>1
  <2>3. copy' \in [Readers -> Image]
    BY <1>11, <2>2, Zenon DEF ReadWord
  <2> QED
    BY <1>11, <2>3, Zenon DEF ReadWord
<1>12. ASSUME NEW r \in Readers, ReadCheck(r) PROVE TypeInv'
  <2>1. mapped[r] \in Segments /\ tries[r] < Retries
    BY <1>12, Zenon DEF ReadCheck
  <2>2. CASE accepts(r)
    <3>1. [copy |-> copy[r], label |-> rmeta[r], from |-> mapped[r]]
             \in [copy: Image, label: Metas, from: Segments]
      BY <2>1, Zenon
    <3> DEFINE Results == [copy: Image, label: Metas, from: Segments]
               new == [copy |-> copy[r], label |-> rmeta[r], from |-> mapped[r]]
    <3>2. result' = [result EXCEPT ![r] = new] /\ new \in Results /\ result \in [Readers -> Results]
      BY <1>12, <2>2, <3>1, Zenon DEF ReadCheck
    <3> HIDE DEF Results, new
    <3>4. result' \in [Readers -> Results]
      BY <3>2, Zenon
    <3> USE DEF Results
    <3>3. rpc' \in [Readers -> {"idle", "first", "header", "copy"}] /\ Working'
      BY <1>12, <2>2, Zenon DEF ReadCheck
    <3> QED
      BY <1>12, <2>2, <3>4, <3>3, Zenon DEF ReadCheck
  <2>3. CASE ~accepts(r)
    <3>1. retry(r) /\ UNCHANGED mapped
      BY <1>12, <2>3, Zenon DEF ReadCheck
    <3> QED
      BY <1>12, <2>1, <2>3, <3>1, RetryStays, Zenon DEF ReadCheck
  <2> QED
    BY <2>2, <2>3, Zenon
<1>13. CASE UNCHANGED ringVars
  BY <1>13, Zenon DEF ringVars
<1> QED
  BY <1>1, <1>2, <1>3, <1>4, <1>5, <1>6, <1>7, <1>8, <1>9, <1>10, <1>11, <1>12, <1>13, Zenon DEF RingNext

(* The values of the ring, the writer and the readers stay in their types  *)
(* through every step of write_frame, a restart and a seqlock read.        *)
THEOREM RingTypeCorrect == RingSpec => []RingTypeOK
<1>1. TypeInv => RingTypeOK
  BY Zenon DEF TypeInv
<1> QED
  BY <1>1, TypeInit, TypeStep, PTL DEF RingSpec
-----------------------------------------------------------------------------
(* The slot being written is marked with an odd counter, and the words     *)
(* already copied are those of the frame in hand.                          *)
Marked ==
    wpc # "idle" =>
        /\ begin[cell] % 2 = 1
        /\ \A w \in Words \ todo : image[cell][w] = frame
        /\ wpc # "copy" => todo = {}

(* A slot with an even counter holds one whole frame.                      *)
Whole ==
    \A c \in Cells, v, w \in Words : begin[c] % 2 = 0 => image[c][v] = image[c][w]

(* A reader past its first load saw an even counter, which can only have   *)
(* grown since; while it has not, the words copied are still those there.  *)
Watch(r) ==
    rpc[r] \in {"header", "copy"} =>
        /\ first[r] % 2 = 0
        /\ first[r] <= begin[rcell(r)]
        /\ rpc[r] = "copy" /\ first[r] = begin[rcell(r)] =>
              \A w \in Words \ need[r] : copy[r][w] = image[rcell(r)][w]

Watching == \A r \in Readers : Watch(r)

(* What makes the seqlock inductive.                                       *)
SeqInv == TypeInv /\ Marked /\ Whole /\ Watching /\ ImageIsWhole

(* The steps of the writer, restarts included, and of one reader.          *)
WriterStep ==
    \/ WriteBegin \/ WriteTooLarge \/ (\E w \in Words : WriteWord(w))
    \/ WriteValid \/ WriteEnd \/ WriteSeal \/ Restart

ReaderStep(r) ==
    \/ Take(r) \/ ReadFirst(r) \/ ReadHeader(r) \/ ReadCheck(r)
    \/ \E w \in Words : ReadWord(r, w)

(* The slot of a reader at work, and the writer's, are slots of a segment. *)
LEMMA CellTypes ==
    ASSUME TypeInv
    PROVE  /\ cell \in Cells
           /\ \A r \in Readers : rpc[r] # "idle" => rcell(r) \in Cells
  BY Zenon DEF TypeInv, RingTypeOK, Working, cell, rcell

(* What the types say of the counters, the images and the metadata.        *)
LEMMA Typed ==
    ASSUME TypeInv
    PROVE  /\ frame \in Nat /\ begin \in [Cells -> Nat] /\ image \in [Cells -> [Words -> Nat]]
           /\ \A c \in Cells : begin[c] \in Nat
           /\ \A c \in Cells, w \in Words : image[c][w] \in Nat
           /\ meta.frame \in Nat /\ <<meta.seg, meta.slot>> \in Cells
           /\ \A r \in Readers :
                 /\ rmeta[r].frame \in Nat /\ <<rmeta[r].seg, rmeta[r].slot>> \in Cells
                 /\ first[r] \in Nat /\ copy[r] \in [Words -> Nat]
<1>1. /\ frame \in Nat /\ begin \in [Cells -> Nat] /\ image \in [Cells -> [Words -> Nat]]
      /\ first \in [Readers -> Nat] /\ copy \in [Readers -> [Words -> Nat]]
  BY BoundsAssumption DEF TypeInv, RingTypeOK
<1>2. meta \in Metas /\ rmeta \in [Readers -> Metas]
  BY Zenon DEF TypeInv, RingTypeOK
<1>3. \A m \in Metas : m.frame \in Nat /\ <<m.seg, m.slot>> \in Cells
  BY BoundsAssumption, Zenon
<1> HIDE DEF Cells, Metas
<1>4. /\ \A c \in Cells : begin[c] \in Nat
      /\ \A c \in Cells, w \in Words : image[c][w] \in Nat
  BY <1>1, Zenon
<1>5. \A r \in Readers : rmeta[r] \in Metas /\ first[r] \in Nat /\ copy[r] \in [Words -> Nat]
  BY <1>1, <1>2, Zenon
<1> QED
  BY <1>1, <1>2, <1>3, <1>4, <1>5, Zenon

(* A writer's step keeps the types of the counters and the images.         *)
LEMMA TypedNext ==
    ASSUME TypeInv, WriterStep
    PROVE  /\ TypeInv'
           /\ \A c \in Cells : begin'[c] \in Nat
           /\ \A c \in Cells, w \in Words : image'[c][w] \in Nat
<1>1. TypeInv'
  BY TypeStep, Zenon DEF WriterStep, RingNext
<1>2. begin' \in [Cells -> Nat] /\ image' \in [Cells -> [Words -> Nat]]
  BY <1>1, Zenon DEF TypeInv, RingTypeOK
<1> HIDE DEF Cells
<1> QED
  BY <1>1, <1>2, Zenon

(* What a reader holds is a function of the readers.                       *)
LEMMA ReaderDomains ==
    ASSUME TypeInv, NEW r \in Readers
    PROVE  /\ r \in DOMAIN rpc /\ r \in DOMAIN first /\ r \in DOMAIN need /\ r \in DOMAIN copy
           /\ r \in DOMAIN rmeta /\ r \in DOMAIN mapped /\ r \in DOMAIN result
<1>1. /\ DOMAIN rpc = Readers /\ DOMAIN first = Readers /\ DOMAIN need = Readers
      /\ DOMAIN copy = Readers /\ DOMAIN rmeta = Readers /\ DOMAIN mapped = Readers
      /\ DOMAIN result = Readers
  BY Zenon DEF TypeInv, RingTypeOK
<1> QED
  BY <1>1, Zenon

(* Beginning a write makes the slot's counter odd and larger.              *)
LEMMA BeginMarks ==
    ASSUME TypeInv, WriteBegin
    PROVE  /\ cell' \in Cells
           /\ begin[cell'] < begin'[cell'] /\ begin'[cell'] % 2 = 1
           /\ \A c \in Cells : c # cell' => begin'[c] = begin[c]
<1> DEFINE k == <<seg, nextSlot>>
<1>1. cell' = k /\ k \in Cells
  BY Zenon DEF WriteBegin, cell, TypeInv, RingTypeOK
<1>2. begin \in [Cells -> Nat] /\ begin' = [begin EXCEPT ![k] = IF @ % 2 = 0 THEN @ + 1 ELSE @ + 2]
  BY Typed, Zenon DEF WriteBegin
<1> HIDE DEF k, Cells
<1>3. \A c \in Cells : c # k => begin'[c] = begin[c]
  BY <1>2, Zenon
<1>4. begin'[k] = IF begin[k] % 2 = 0 THEN begin[k] + 1 ELSE begin[k] + 2
  BY <1>1, <1>2, Zenon
<1>5. begin[k] \in Nat
  BY <1>1, <1>2, Zenon
<1>6. CASE begin[k] % 2 = 0
  BY <1>4, <1>5, <1>6, <1>1, <1>3, Parity
<1>7. CASE begin[k] % 2 # 0
  BY <1>4, <1>5, <1>7, <1>1, <1>3, Parity
<1> QED
  BY <1>6, <1>7, Zenon

HIDE DEF Segments, Slots, Cells, Image, Metas, Unmapped

(* A writer's step leaves the readers alone, lets no counter go back, and  *)
(* changes no image under an even counter that stays.                      *)
LEMMA WriterSteps ==
    ASSUME TypeInv, Marked, WriterStep
    PROVE  /\ UNCHANGED reader
           /\ \A c \in Cells : begin[c] <= begin'[c]
           /\ \A c \in Cells : begin[c] % 2 = 0 /\ begin'[c] = begin[c] => image'[c] = image[c]
<1>1. begin \in [Cells -> Nat] /\ image \in [Cells -> [Words -> Nat]] /\ cell \in Cells
  BY CellTypes, Typed, Zenon
<1>2. \A c \in Cells : begin[c] \in Nat
  BY Typed, Zenon
<1>3. CASE WriteBegin
  <2>1. UNCHANGED <<image, reader>>
    BY <1>3, Zenon DEF WriteBegin
  <2>2. /\ cell' \in Cells
        /\ begin[cell'] < begin'[cell'] /\ begin'[cell'] % 2 = 1
        /\ \A c \in Cells : c # cell' => begin'[c] = begin[c]
    BY <1>3, BeginMarks, Zenon
  <2>3. \A c \in Cells : begin'[c] \in Nat
    BY TypedNext, Zenon
  <2>4. ASSUME NEW c \in Cells PROVE begin[c] <= begin'[c]
    <3>1. begin[c] \in Nat /\ begin'[c] \in Nat
      BY <1>2, <2>3, Zenon
    <3>2. CASE c = cell'
      BY <2>2, <3>1, <3>2
    <3>3. CASE c # cell'
      BY <2>2, <3>1, <3>3
    <3> QED
      BY <3>2, <3>3, Zenon
  <2> QED
    BY <2>1, <2>4, Zenon
<1>4. CASE WriteTooLarge
  BY <1>2, <1>4 DEF WriteTooLarge, memory
<1>5. ASSUME NEW w \in Words, WriteWord(w)
      PROVE  /\ UNCHANGED <<reader, begin>>
             /\ \A c \in Cells : begin[c] % 2 = 0 => image'[c] = image[c]
  <2>1. begin[cell] % 2 = 1
    BY <1>5, Zenon DEF WriteWord, Marked
  <2>2. UNCHANGED <<reader, begin>> /\ image' = [image EXCEPT ![cell] = [@ EXCEPT ![w] = frame]]
    BY <1>5, Zenon DEF WriteWord
  <2> QED
    BY <1>1, <2>1, <2>2
<1>6. CASE WriteValid
  BY <1>2, <1>6 DEF WriteValid
<1>7. CASE WriteEnd
  BY <1>2, <1>7 DEF WriteEnd
<1>8. CASE WriteSeal
  <2>1. UNCHANGED <<reader, image>> /\ begin' = [begin EXCEPT ![cell] = @ + 1]
    BY <1>8, Zenon DEF WriteSeal
  <2> QED
    BY <1>1, <1>2, <2>1
<1>9. CASE Restart
  BY <1>2, <1>9 DEF Restart, memory
<1> QED
  BY <1>2, <1>3, <1>4, <1>5, <1>6, <1>7, <1>8, <1>9 DEF WriterStep

(* So a reader stays on the watch while the writer moves.                  *)
LEMMA WriterKeepsWatching ==
    ASSUME TypeInv, Marked, Watching, WriterStep
    PROVE  Watching'
<1>1. /\ UNCHANGED reader
      /\ \A c \in Cells : begin[c] <= begin'[c]
      /\ \A c \in Cells : begin[c] % 2 = 0 /\ begin'[c] = begin[c] => image'[c] = image[c]
  BY WriterSteps, Zenon
<1>2. \A r \in Readers : rcell(r)' = rcell(r)
  BY <1>1, Zenon DEF rcell, reader
<1>3. \A c \in Cells : begin'[c] \in Nat
  BY TypedNext, Zenon
<1> SUFFICES ASSUME NEW r \in Readers, rpc[r] \in {"header", "copy"}
             PROVE  /\ first[r] % 2 = 0
                    /\ first[r] <= begin'[rcell(r)]
                    /\ rpc[r] = "copy" /\ first[r] = begin'[rcell(r)] =>
                          \A w \in Words \ need[r] : copy[r][w] = image'[rcell(r)][w]
  BY <1>1, <1>2, ZenonT(30) DEF Watching, Watch, reader
<1>4. rcell(r) \in Cells
  BY CellTypes, Zenon
<1>5. /\ first[r] \in Nat /\ begin[rcell(r)] \in Nat /\ begin'[rcell(r)] \in Nat
      /\ first[r] % 2 = 0 /\ first[r] <= begin[rcell(r)]
  BY <1>3, <1>4, Typed, Zenon DEF Watching, Watch
<1>6. begin[rcell(r)] <= begin'[rcell(r)]
  BY <1>1, <1>4, Zenon
<1>7. ASSUME rpc[r] = "copy", first[r] = begin'[rcell(r)], NEW w \in Words \ need[r]
      PROVE  copy[r][w] = image'[rcell(r)][w]
  <2>1. begin'[rcell(r)] = begin[rcell(r)] /\ first[r] = begin[rcell(r)]
    BY <1>5, <1>6, <1>7
  <2>2. image'[rcell(r)] = image[rcell(r)]
    BY <1>1, <1>4, <1>5, <2>1, Zenon
  <2> QED
    BY <1>7, <2>1, <2>2, Zenon DEF Watching, Watch
<1> QED
  BY <1>5, <1>6, <1>7

(* The writer touches words only of the slot it has marked, and seals it   *)
(* when all of them are of the frame in hand.                              *)
LEMMA WriterKeepsWhole ==
    ASSUME TypeInv, Marked, Whole, WriterStep
    PROVE  Marked' /\ Whole'
<1>1. CASE WriteBegin
  <2>1. UNCHANGED image /\ wpc' = "copy" /\ todo' = Words
    BY <1>1, Zenon DEF WriteBegin
  <2>2. Marked'
    BY <1>1, <2>1, BeginMarks, Zenon DEF Marked
  <2>3. Whole'
    <3>1. begin'[cell'] % 2 = 1 /\ \A c \in Cells : c # cell' => begin'[c] = begin[c]
      BY <1>1, BeginMarks, Zenon
    <3>2. ASSUME NEW c \in Cells, begin'[c] % 2 = 0 PROVE c # cell'
      BY <3>1, <3>2
    <3> QED
      BY <2>1, <3>1, <3>2 DEF Whole
  <2> QED
    BY <2>2, <2>3, Zenon
<1>2. CASE WriteTooLarge
  BY <1>2, Zenon DEF WriteTooLarge, memory, Marked, Whole, cell
<1>3. ASSUME NEW w \in Words, WriteWord(w) PROVE Marked' /\ Whole'
  <2>1. begin[cell] % 2 = 1 /\ \A v \in Words \ todo : image[cell][v] = frame
    BY <1>3, Zenon DEF WriteWord, Marked
  <2>2. /\ cell' = cell /\ UNCHANGED <<begin, frame, wpc>> /\ wpc = "copy"
        /\ todo' = todo \ {w} /\ cell \in Cells
        /\ image \in [Cells -> [Words -> Nat]]
        /\ image' = [image EXCEPT ![cell] = [@ EXCEPT ![w] = frame]]
    BY <1>3, CellTypes, Typed, Zenon DEF WriteWord, cell
  <2>3. \A v \in Words \ todo' : image'[cell][v] = frame
    BY <2>1, <2>2, Zenon
  <2>4. Whole'
    BY <2>1, <2>2 DEF Whole
  <2> QED
    BY <2>1, <2>2, <2>3, <2>4, Zenon DEF Marked
<1>4. CASE WriteValid
  <2>1. /\ wpc = "copy" /\ todo' = {} /\ todo = {}
        /\ cell' = cell /\ UNCHANGED <<begin, image, frame>>
    BY <1>4, Zenon DEF WriteValid, cell
  <2> QED
    BY <2>1, Zenon DEF Marked, Whole
<1>5. CASE WriteEnd
  <2>1. /\ wpc = "end" /\ wpc' = "seal"
        /\ cell' = cell /\ UNCHANGED <<begin, image, frame, todo>>
    BY <1>5, Zenon DEF WriteEnd, cell
  <2> QED
    BY <2>1, Zenon DEF Marked, Whole
<1>6. CASE WriteSeal
  <2>1. /\ wpc' = "idle" /\ UNCHANGED image
        /\ \A v \in Words : image[cell][v] = frame
        /\ \A c \in Cells : c # cell => begin'[c] = begin[c]
    BY <1>6, Typed, Zenon DEF WriteSeal, Marked
  <2>2. \A v, w \in Words : image'[cell][v] = image'[cell][w]
    BY <2>1, Zenon
  <2> QED
    BY <2>1, <2>2 DEF Marked, Whole
<1>7. CASE Restart
  BY <1>7, Zenon DEF Restart, memory, Marked, Whole
<1> QED
  BY <1>1, <1>2, <1>3, <1>4, <1>5, <1>6, <1>7, Zenon DEF WriterStep

(* A reader's step leaves the memory, the writer and the other readers     *)
(* alone.                                                                  *)
LEMMA ReaderFrame ==
    ASSUME TypeInv, NEW r \in Readers, ReaderStep(r)
    PROVE  /\ UNCHANGED memory /\ UNCHANGED writer
           /\ \A q \in Readers : q # r =>
                 /\ rpc'[q] = rpc[q] /\ first'[q] = first[q] /\ need'[q] = need[q]
                 /\ copy'[q] = copy[q] /\ rmeta'[q] = rmeta[q] /\ mapped'[q] = mapped[q]
                 /\ result'[q] = result[q]
<1>1. /\ rpc \in [Readers -> {"idle", "first", "header", "copy"}] /\ first \in [Readers -> Nat]
      /\ need \in [Readers -> SUBSET Words] /\ copy \in [Readers -> Image]
      /\ rmeta \in [Readers -> Metas] /\ mapped \in [Readers -> Segments \cup {Unmapped}]
      /\ result \in [Readers -> [copy: Image, label: Metas, from: Segments]]
  BY Zenon DEF TypeInv, RingTypeOK
<1>2. CASE Take(r)
  BY <1>1, <1>2, Zenon DEF Take
<1>3. CASE ReadFirst(r)
  BY <1>1, <1>3, Zenon DEF ReadFirst, retry
<1>4. CASE ReadHeader(r)
  BY <1>1, <1>4, Zenon DEF ReadHeader
<1>5. CASE ReadCheck(r)
  <2>1. UNCHANGED <<first, need, copy, rmeta, mapped, memory, writer>>
    BY <1>5, Zenon DEF ReadCheck
  <2>2. \A q \in Readers : q # r => rpc'[q] = rpc[q] /\ result'[q] = result[q]
    BY <1>1, <1>5, Zenon DEF ReadCheck, retry
  <2> QED
    BY <2>1, <2>2, Zenon
<1>6. ASSUME NEW w \in Words, ReadWord(r, w)
      PROVE  /\ UNCHANGED memory /\ UNCHANGED writer
             /\ UNCHANGED <<rpc, rmeta, mapped, first, result>>
             /\ \A q \in Readers : q # r => need'[q] = need[q] /\ copy'[q] = copy[q]
  BY <1>1, <1>6, Zenon DEF ReadWord
<1> QED
  BY <1>2, <1>3, <1>4, <1>5, <1>6, Zenon DEF ReaderStep

(* A reader on the watch copies what is in its slot.                       *)
LEMMA ReaderWatches ==
    ASSUME TypeInv, NEW r \in Readers, Watch(r), ReaderStep(r)
    PROVE  Watch(r)'
<1>1. UNCHANGED <<begin, image>>
  BY ReaderFrame, Zenon DEF memory
<1>2. r \in DOMAIN rpc /\ r \in DOMAIN first /\ r \in DOMAIN need /\ r \in DOMAIN copy
  BY ReaderDomains, Zenon
<1>3. rpc[r] # "idle" => rcell(r) \in Cells /\ begin[rcell(r)] \in Nat
  BY CellTypes, Typed, Zenon
<1>4. CASE Take(r)
  BY <1>2, <1>4, Zenon DEF Take, Watch
<1>5. CASE ReadFirst(r)
  <2>1. rcell(r)' = rcell(r)
    BY <1>5, Zenon DEF ReadFirst, rcell
  <2>2. first'[r] = begin[rcell(r)] /\ begin[rcell(r)] \in Nat
    BY <1>2, <1>3, <1>5, Zenon DEF ReadFirst
  <2>3. rpc'[r] # "copy" /\ (rpc'[r] = "header" => begin[rcell(r)] % 2 # 1)
    BY <1>2, <1>5, Zenon DEF ReadFirst, retry
  <2>4. rpc'[r] = "header" => begin[rcell(r)] % 2 = 0
    BY <2>2, <2>3, Parity, Zenon
  <2> QED
    BY <1>1, <2>1, <2>2, <2>3, <2>4 DEF Watch
<1>6. CASE ReadHeader(r)
  <2>1. rcell(r)' = rcell(r)
    BY <1>6, Zenon DEF ReadHeader, rcell
  <2>2. rpc[r] = "header" /\ first'[r] = first[r] /\ need'[r] = Words
    BY <1>2, <1>6, Zenon DEF ReadHeader
  <2> QED
    BY <1>1, <2>1, <2>2, Zenon DEF Watch
<1>7. CASE ReadCheck(r)
  <2>1. rpc'[r] \in {"idle", "first"}
    BY <1>2, <1>7, Zenon DEF ReadCheck, retry
  <2> QED
    BY <2>1, Zenon DEF Watch
<1>8. ASSUME NEW w \in Words, ReadWord(r, w) PROVE Watch(r)'
  <2>1. rcell(r)' = rcell(r) /\ UNCHANGED <<rpc, first>> /\ rpc[r] = "copy"
    BY <1>8, Zenon DEF ReadWord, rcell
  <2>2. need'[r] = need[r] \ {w} /\ copy'[r] = [copy[r] EXCEPT ![w] = image[rcell(r)][w]]
    BY <1>2, <1>8, Zenon DEF ReadWord
  <2>3. copy[r] \in [Words -> Nat]
    BY Typed, Zenon
  <2>4. \A v \in Words : copy'[r][v] = IF v = w THEN image[rcell(r)][w] ELSE copy[r][v]
    BY <2>2, <2>3, Zenon
  <2> QED
    BY <1>1, <2>1, <2>2, <2>4, Zenon DEF Watch
<1> QED
  BY <1>4, <1>5, <1>6, <1>7, <1>8, Zenon DEF ReaderStep

(* What a reader accepts it copied under a counter that never moved.       *)
LEMMA ReaderSteps ==
    ASSUME SeqInv, NEW r \in Readers, ReaderStep(r)
    PROVE  SeqInv'
<1> USE DEF SeqInv
<1>1. TypeInv'
  BY TypeStep, Zenon DEF ReaderStep, RingNext
<1>2. UNCHANGED memory /\ UNCHANGED writer
  BY ReaderFrame, Zenon
<1>3. Marked' /\ Whole'
  BY <1>2, Zenon DEF memory, writer, Marked, Whole, cell
<1>4. Watching'
  <2>1. ASSUME NEW q \in Readers, q # r PROVE Watch(q)'
    <3>1. /\ rpc'[q] = rpc[q] /\ first'[q] = first[q] /\ need'[q] = need[q]
          /\ copy'[q] = copy[q] /\ rcell(q)' = rcell(q) /\ UNCHANGED <<begin, image>>
      BY <1>2, <2>1, ReaderFrame, Zenon DEF rcell, memory
    <3> QED
      BY <3>1, Zenon DEF Watching, Watch
  <2> QED
    BY <2>1, ReaderWatches, Zenon DEF Watching
<1>5. ASSUME NEW v \in Words, NEW w \in Words PROVE result'[r].copy[v] = result'[r].copy[w]
  <2>1. CASE ReadCheck(r) /\ accepts(r)
    <3>1. rcell(r) \in Cells /\ rpc[r] = "copy" /\ need[r] = {}
      BY <2>1, CellTypes, Zenon DEF ReadCheck
    <3>2. first[r] = begin[rcell(r)] /\ begin[rcell(r)] % 2 = 0
      BY <2>1, Zenon DEF accepts
    <3>3. \A u \in Words : copy[r][u] = image[rcell(r)][u]
      BY <3>1, <3>2, Zenon DEF Watching, Watch
    <3>4. image[rcell(r)][v] = image[rcell(r)][w]
      BY <3>1, <3>2, Zenon DEF Whole
    <3>5. result'[r].copy = copy[r]
      BY <2>1, ReaderDomains DEF ReadCheck
    <3> QED
      BY <3>3, <3>4, <3>5, Zenon
  <2>2. CASE ~(ReadCheck(r) /\ accepts(r))
    <3>1. result' = result
      BY <2>2, Zenon DEF ReaderStep, Take, ReadFirst, ReadHeader, ReadCheck, ReadWord
    <3> QED
      BY <3>1, Zenon DEF ImageIsWhole
  <2> QED
    BY <2>1, <2>2, Zenon
<1>6. ImageIsWhole'
  BY <1>5, ReaderFrame DEF ImageIsWhole
<1> QED
  BY <1>1, <1>3, <1>4, <1>6, Zenon

(* No slot holds a frame newer than the last one captured.                 *)
Captured == \A c \in Cells, w \in Words : image[c][w] <= frame

(* A slot never goes back behind a frame that was announced for it, ...    *)
Announced ==
    /\ \A w \in Words : meta.frame <= image[<<meta.seg, meta.slot>>][w]
    /\ \A r \in Readers, w \in Words :
          rmeta[r].frame <= image[<<rmeta[r].seg, rmeta[r].slot>>][w]

(* ... and so neither does what a reader has copied from it.               *)
CopiedNotOlder ==
    \A r \in Readers : rpc[r] = "copy" /\ mapped[r] = rmeta[r].seg =>
        \A w \in Words \ need[r] : copy[r][w] >= rmeta[r].frame

(* What makes the order of frames inductive.                               *)
OrderInv == SeqInv /\ Captured /\ Announced /\ CopiedNotOlder /\ ImageNotOlder
-----------------------------------------------------------------------------
LEMMA SeqStep == SeqInv /\ [RingNext]_ringVars => SeqInv'
<1> SUFFICES ASSUME SeqInv, [RingNext]_ringVars PROVE SeqInv'
  BY Zenon
<1>1. CASE WriterStep
  <2>1. TypeInv'
    BY TypeStep, Zenon DEF SeqInv
  <2>2. Watching' /\ Marked' /\ Whole'
    BY <1>1, WriterKeepsWatching, WriterKeepsWhole, Zenon DEF SeqInv
  <2>3. ImageIsWhole'
    BY <1>1, WriterSteps DEF SeqInv, reader, ImageIsWhole
  <2> QED
    BY <2>1, <2>2, <2>3, Zenon DEF SeqInv
<1>2. ASSUME NEW r \in Readers, ReaderStep(r) PROVE SeqInv'
  BY <1>2, ReaderSteps, Zenon
<1>3. CASE UNCHANGED ringVars
  <2>1. TypeInv'
    BY TypeStep, Zenon DEF SeqInv
  <2>2. UNCHANGED memory /\ UNCHANGED writer /\ UNCHANGED reader
    BY <1>3, Zenon DEF ringVars
  <2>3. Marked' /\ Whole'
    BY <2>2, Zenon DEF memory, writer, SeqInv, Marked, Whole, cell
  <2>4. Watching'
    BY <2>2, Zenon DEF memory, reader, SeqInv, Watching, Watch, rcell
  <2>5. ImageIsWhole'
    BY <2>2, Zenon DEF reader, SeqInv, ImageIsWhole
  <2> QED
    BY <2>1, <2>3, <2>4, <2>5, Zenon DEF SeqInv
<1> QED
  BY <1>1, <1>2, <1>3, Zenon DEF RingNext, WriterStep, ReaderStep

(* Every image a reader of the ring accepts is one frame copied whole, for *)
(* any number of readers, slots, words, retries, frames and restarts: the  *)
(* counter check of the seqlock readers suffices against write_frame.      *)
THEOREM SeqlockCorrect == RingSpec => []ImageIsWhole
<1>1. RingInit => SeqInv
  BY TypeInit DEF RingInit, SeqInv, Marked, Whole, Watching, Watch, ImageIsWhole, NoResult, Blank,
                  Cells, Segments, Slots
<1>2. SeqInv => ImageIsWhole
  BY Zenon DEF SeqInv
<1> QED
  BY <1>1, <1>2, SeqStep, PTL DEF RingSpec

-----------------------------------------------------------------------------
(* A writer's step moves the capture order on and no slot's word back; the *)
(* newest metadata stays, or is about the slot just completed.             *)
LEMMA WriterOrder ==
    ASSUME TypeInv, Marked, Captured, WriterStep
    PROVE  /\ Captured'
           /\ \A c \in Cells, w \in Words : image[c][w] <= image'[c][w]
           /\ \/ meta' = meta
              \/ /\ meta'.frame = frame /\ <<meta'.seg, meta'.slot>> = cell
                 /\ \A w \in Words : image'[cell][w] = frame
<1>1. /\ frame \in Nat /\ cell \in Cells /\ image \in [Cells -> [Words -> Nat]]
      /\ \A c \in Cells, w \in Words : image[c][w] \in Nat
  BY CellTypes, Typed, Zenon
<1>2. CASE WriteBegin
  BY <1>1, <1>2 DEF WriteBegin, Captured
<1>3. ASSUME NEW v \in Words, WriteWord(v)
      PROVE  Captured' /\ UNCHANGED meta
             /\ \A c \in Cells, w \in Words : image[c][w] <= image'[c][w]
  <2>1. /\ UNCHANGED <<frame, meta>>
        /\ image' = [image EXCEPT ![cell] = [@ EXCEPT ![v] = frame]]
    BY <1>3, Zenon DEF WriteWord
  <2>2. \A c \in Cells, w \in Words :
           image'[c][w] = IF c = cell /\ w = v THEN frame ELSE image[c][w]
    BY <1>1, <2>1, Zenon
  <2> QED
    BY <1>1, <2>1, <2>2 DEF Captured
<1>4. CASE WriteSeal
  <2>1. /\ UNCHANGED <<frame, image>> /\ meta'.frame = frame
        /\ <<meta'.seg, meta'.slot>> = cell
    BY <1>4, Zenon DEF WriteSeal, cell
  <2>2. \A w \in Words : image[cell][w] = frame
    BY <1>4, Zenon DEF WriteSeal, Marked
  <2> QED
    BY <1>1, <2>1, <2>2 DEF Captured
<1>5. CASE WriteTooLarge \/ WriteValid \/ WriteEnd \/ Restart
  <2>1. UNCHANGED <<frame, image, meta>>
    BY <1>5, Zenon DEF WriteTooLarge, WriteValid, WriteEnd, Restart, memory
  <2> QED
    BY <1>1, <2>1 DEF Captured
<1> QED
  BY <1>2, <1>3, <1>4, <1>5, Zenon DEF WriterStep

LEMMA WriterKeepsOrder ==
    ASSUME OrderInv, WriterStep
    PROVE  Captured' /\ Announced' /\ CopiedNotOlder' /\ ImageNotOlder'
<1>0. TypeInv /\ Marked /\ Captured /\ Announced /\ CopiedNotOlder /\ ImageNotOlder
  BY Zenon DEF OrderInv, SeqInv
<1>1. UNCHANGED reader
  BY <1>0, WriterSteps, Zenon
<1>2. Captured' /\ \A c \in Cells, w \in Words : image[c][w] <= image'[c][w]
  BY <1>0, WriterOrder, Zenon
<1>3. \A c \in Cells, w \in Words : image[c][w] \in Nat /\ image'[c][w] \in Nat
  BY <1>0, Typed, TypedNext, Zenon
<1>4. ASSUME NEW w \in Words PROVE meta'.frame <= image'[<<meta'.seg, meta'.slot>>][w]
  <2>1. CASE meta' = meta
    <3>1. meta.frame \in Nat /\ <<meta.seg, meta.slot>> \in Cells
      BY <1>0, Typed, Zenon
    <3>2. meta.frame <= image[<<meta.seg, meta.slot>>][w]
      BY <1>0, Zenon DEF Announced
    <3> QED
      BY <1>2, <1>3, <2>1, <3>1, <3>2
  <2>2. CASE meta' # meta
    <3>1. /\ meta'.frame = frame /\ <<meta'.seg, meta'.slot>> = cell
          /\ image'[cell][w] = frame
      BY <1>0, <2>2, WriterOrder, Zenon
    <3>2. frame \in Nat
      BY <1>0, Typed, Zenon
    <3>3. image'[<<meta'.seg, meta'.slot>>][w] = frame
      BY <3>1, Zenon
    <3> QED
      BY <3>1, <3>2, <3>3
  <2> QED
    BY <2>1, <2>2, Zenon
<1>5. ASSUME NEW r \in Readers, NEW w \in Words
      PROVE  rmeta'[r].frame <= image'[<<rmeta'[r].seg, rmeta'[r].slot>>][w]
  <2>1. rmeta[r].frame \in Nat /\ <<rmeta[r].seg, rmeta[r].slot>> \in Cells /\ rmeta' = rmeta
    BY <1>0, <1>1, Typed, Zenon DEF reader
  <2>2. rmeta[r].frame <= image[<<rmeta[r].seg, rmeta[r].slot>>][w]
    BY <1>0, Zenon DEF Announced
  <2> QED
    BY <1>2, <1>3, <2>1, <2>2
<1>6. CopiedNotOlder' /\ ImageNotOlder'
  BY <1>0, <1>1, Zenon DEF reader, CopiedNotOlder, ImageNotOlder
<1> QED
  BY <1>2, <1>4, <1>5, <1>6, Zenon DEF Announced

LEMMA ReaderKeepsOrder ==
    ASSUME OrderInv, NEW r \in Readers, ReaderStep(r)
    PROVE  Captured' /\ Announced' /\ CopiedNotOlder' /\ ImageNotOlder'
<1>0. TypeInv /\ Captured /\ Announced /\ CopiedNotOlder /\ ImageNotOlder
  BY Zenon DEF OrderInv, SeqInv
<1>1. UNCHANGED <<image, frame, meta>>
  BY <1>0, ReaderFrame, Zenon DEF memory, writer
<1>2. Captured'
  BY <1>0, <1>1, Zenon DEF Captured
<1>3. \A q \in Readers : q # r =>
         /\ rpc'[q] = rpc[q] /\ need'[q] = need[q] /\ copy'[q] = copy[q]
         /\ rmeta'[q] = rmeta[q] /\ mapped'[q] = mapped[q] /\ result'[q] = result[q]
  BY <1>0, ReaderFrame, Zenon
<1>4. /\ r \in DOMAIN rpc /\ r \in DOMAIN rmeta /\ r \in DOMAIN need /\ r \in DOMAIN copy
      /\ r \in DOMAIN result /\ copy[r] \in [Words -> Nat]
  BY <1>0, Typed, ReaderDomains, Zenon
<1>5. rmeta'[r] = rmeta[r] \/ rmeta'[r] = meta
  BY <1>4, Zenon DEF ReaderStep, Take, ReadFirst, ReadHeader, ReadCheck, ReadWord
<1>6. Announced'
  BY <1>0, <1>1, <1>3, <1>5 DEF Announced
<1>7. ASSUME rpc'[r] = "copy", mapped'[r] = rmeta'[r].seg, NEW w \in Words \ need'[r]
      PROVE  copy'[r][w] >= rmeta'[r].frame
  <2>1. ~Take(r) /\ ~ReadFirst(r)
    BY <1>4, <1>7, Zenon DEF Take, ReadFirst, retry
  <2>2. ~ReadHeader(r)
    BY <1>4, <1>7, Zenon DEF ReadHeader
  <2>3. ~ReadCheck(r)
    BY <1>4, <1>7, Zenon DEF ReadCheck, retry
  <2>4. PICK v \in Words : ReadWord(r, v)
    BY <2>1, <2>2, <2>3, Zenon DEF ReaderStep
  <2>5. /\ UNCHANGED <<rpc, mapped, rmeta>> /\ need'[r] = need[r] \ {v}
        /\ copy'[r] = [copy[r] EXCEPT ![v] = image[rcell(r)][v]]
    BY <1>4, <2>4, Zenon DEF ReadWord
  <2>6. rmeta[r].frame \in Nat /\ rcell(r) = <<rmeta[r].seg, rmeta[r].slot>> /\ rcell(r) \in Cells
    BY <1>0, <1>7, <2>5, Typed, Zenon DEF rcell
  <2>7. CASE w = v
    <3>1. copy'[r][w] = image[rcell(r)][w] /\ image[rcell(r)][w] \in Nat
      BY <1>0, <1>4, <2>5, <2>6, <2>7, Typed, Zenon
    <3>2. rmeta[r].frame <= image[rcell(r)][w]
      BY <1>0, <2>6, Zenon DEF Announced
    <3> QED
      BY <2>5, <2>6, <3>1, <3>2, Zenon
  <2>8. CASE w # v
    <3>1. copy'[r][w] = copy[r][w] /\ w \in Words \ need[r]
      BY <1>4, <1>7, <2>5, <2>8, Zenon
    <3> QED
      BY <1>0, <1>7, <2>5, <3>1, Zenon DEF CopiedNotOlder
  <2> QED
    BY <2>7, <2>8, Zenon
<1>8. CopiedNotOlder'
  BY <1>0, <1>3, <1>7 DEF CopiedNotOlder
<1>9. ASSUME NEW w \in Words, result'[r].from = result'[r].label.seg
      PROVE  result'[r].copy[w] >= result'[r].label.frame
  <2>1. CASE ReadCheck(r) /\ accepts(r)
    <3>1. /\ rpc[r] = "copy" /\ need[r] = {} /\ result'[r].copy = copy[r]
          /\ result'[r].label = rmeta[r] /\ result'[r].from = mapped[r]
      BY <1>4, <2>1 DEF ReadCheck
    <3> QED
      BY <1>0, <1>9, <3>1, Zenon DEF CopiedNotOlder
  <2>2. CASE ~(ReadCheck(r) /\ accepts(r))
    <3>1. result' = result
      BY <2>2, Zenon DEF ReaderStep, Take, ReadFirst, ReadHeader, ReadCheck, ReadWord
    <3> QED
      BY <1>0, <1>9, <3>1, Zenon DEF ImageNotOlder
  <2> QED
    BY <2>1, <2>2, Zenon
<1>10. ImageNotOlder'
  BY <1>0, <1>3, <1>9, Zenon DEF ImageNotOlder
<1> QED
  BY <1>2, <1>6, <1>8, <1>10, Zenon

(* A reader that has mapped the announced segment never accepts an image   *)
(* older than the frame its metadata announces, however often the ring     *)
(* wraps and the server restarts.                                          *)
THEOREM OrderCorrect == RingSpec => []ImageNotOlder
<1>1. RingInit => OrderInv
  <2>1. RingInit => SeqInv
    BY TypeInit DEF RingInit, SeqInv, Marked, Whole, Watching, Watch, ImageIsWhole, NoResult, Blank,
                    Cells, Segments, Slots
  <2>2. RingInit => Captured /\ Announced /\ CopiedNotOlder /\ ImageNotOlder
    BY SlotCountAssumption, BoundsAssumption
    DEF Cells, Segments, Slots, RingInit, Captured, Announced, CopiedNotOlder, ImageNotOlder, NoMeta, NoResult, Blank
  <2> QED
    BY <2>1, <2>2, Zenon DEF OrderInv
<1>2. OrderInv /\ [RingNext]_ringVars => OrderInv'
  <2> SUFFICES ASSUME OrderInv, [RingNext]_ringVars PROVE OrderInv'
    BY Zenon
  <2>1. SeqInv'
    BY SeqStep, Zenon DEF OrderInv
  <2>2. CASE WriterStep
    BY <2>1, <2>2, WriterKeepsOrder, Zenon DEF OrderInv
  <2>3. ASSUME NEW r \in Readers, ReaderStep(r) PROVE OrderInv'
    BY <2>1, <2>3, ReaderKeepsOrder, Zenon DEF OrderInv
  <2>4. CASE UNCHANGED ringVars
    BY <2>1, <2>4, Zenon DEF ringVars, memory, writer, reader, OrderInv, Captured, Announced,
                     CopiedNotOlder, ImageNotOlder
  <2> QED
    BY <2>2, <2>3, <2>4, Zenon DEF RingNext, WriterStep, ReaderStep
<1>3. OrderInv => ImageNotOlder
  BY Zenon DEF OrderInv
<1> QED
  BY <1>1, <1>2, <1>3, PTL DEF RingSpec

-----------------------------------------------------------------------------
(* The runner's lease. *)

(* What the runner sends and what it reads. *)
Packet == [kind: {"acquire", "release", "arm", "hold", "motion"}, token: Nat]
Snapshot == [lease: Lease, latched: BOOLEAN, fresh: BOOLEAN]

(* The types, and a runner that waits for the lease has a state to read.   *)
RunnerType ==
    /\ wire \in Seq(Packet) /\ token \in Nat /\ lease \in Lease /\ shown \in Lease /\ counter \in Nat
    /\ snap = None \/ snap \in Snapshot
    /\ pc = "readback" => snap \in Snapshot
    /\ pc = "exited" => ~held
    /\ intent \in Intents /\ latched \in BOOLEAN

(* A packet that the server answers with the lease. *)
Grants(p) == p.kind \in {"acquire", "arm", "motion"}

(* A release is under way behind packet i. *)
ReleasedAfter(i) == \E j \in 1..Len(wire) : j > i /\ wire[j].kind = "release"

(* A runner that neither has the lease nor waits for it has given back all *)
(* it asked for.                                                           *)
ReturnInv ==
    ~astray /\ ~held /\ pc # "readback" =>
        /\ owns("runner") => ReleasedAfter(0)
        /\ \A i \in 1..Len(wire) : Grants(wire[i]) => ReleasedAfter(i)

(* Append adds one packet at the end. *)
LEMMA Appended ==
    ASSUME NEW w \in Seq(Packet), NEW p \in Packet
    PROVE  /\ Append(w, p) \in Seq(Packet) /\ Len(Append(w, p)) = Len(w) + 1 /\ Len(w) \in Nat
           /\ Append(w, p)[Len(w) + 1] = p
           /\ \A i \in 1..Len(w) : Append(w, p)[i] = w[i]
OBVIOUS

(* packet makes a packet of its kind. *)
LEMMA PacketType ==
    ASSUME NEW kind \in {"acquire", "release", "arm", "hold", "motion"}, NEW t \in Nat
    PROVE  packet(kind, t) \in Packet /\ packet(kind, t).kind = kind
BY Zenon DEF packet, Packet

(* What the end of a tick sends. *)
LEMMA SendFacts ==
    ASSUME NEW w \in Seq(Packet), NEW kind \in Intents, NEW a, NEW t \in Nat, armAndSend(kind, a, t, w)
    PROVE  /\ wire' \in Seq(Packet)
           /\ kind = "hold" => wire' = Append(w, packet("hold", t))
<1>1. CASE kind \in Motion /\ ~a /\ kind = "unarmable"
  BY <1>1, Zenon DEF armAndSend
<1>2. CASE kind \in Motion /\ ~a /\ kind # "unarmable"
  <2>1. wire' = w \o <<packet("arm", t)>> \o <<packet("motion", t)>>
    BY <1>2, Zenon DEF armAndSend, Motion
  <2>2. packet("arm", t) \in Packet /\ packet("motion", t) \in Packet
    BY PacketType, Zenon
  <2>3. w \o <<packet("arm", t)>> \in Seq(Packet)
    BY <2>2
  <2> QED BY <1>2, <2>1, <2>2, <2>3 DEF Motion
<1>3. CASE ~(kind \in Motion /\ ~a)
  <2>1. wire' = w \o <<>> \o <<packet(IF kind = "hold" THEN "hold" ELSE "motion", t)>>
    BY <1>3, Zenon DEF armAndSend
  <2>2. w \o <<>> = w
    OBVIOUS
  <2>3. packet("hold", t) \in Packet /\ packet("motion", t) \in Packet
    BY PacketType, Zenon
  <2> QED BY <2>1, <2>2, <2>3
<1> QED BY <1>1, <1>2, <1>3, Zenon

(* What leaving sends. *)
LEMMA LeaveFacts ==
    ASSUME RunnerType, leaves
    PROVE  /\ wire' \in Seq(Packet) /\ token' \in Nat /\ pc' = "exited" /\ ~held'
           /\ held => wire' = Append(wire, packet("release", token))
           /\ ~held => wire' = wire
<1>1. packet("release", token) \in Packet
  BY PacketType, Zenon DEF RunnerType
<1> QED BY <1>1 DEF leaves, RunnerType

(* A release at the end of the wire stands behind everything. *)
LEMMA ReleaseLast ==
    ASSUME NEW w \in Seq(Packet), NEW t \in Nat, wire' = Append(w, packet("release", t))
    PROVE  ReturnInv'
<1>1. packet("release", t) \in Packet /\ packet("release", t).kind = "release"
  BY PacketType, Zenon
<1>2. /\ Len(wire') = Len(w) + 1 /\ Len(w) \in Nat /\ wire'[Len(w) + 1].kind = "release"
  BY <1>1, Appended, Zenon
<1>3. \A i \in 0..Len(w) : ReleasedAfter(i)'
  BY <1>2 DEF ReleasedAfter
<1>4. \A i \in 1..Len(wire') : Grants(wire[i])' => i \in 0..Len(w)
  BY <1>2 DEF Grants
<1> QED BY <1>2, <1>3, <1>4 DEF ReturnInv

(* A hold grants nothing. *)
LEMMA HoldKeeps ==
    ASSUME NEW w \in Seq(Packet), NEW p \in Packet, p.kind = "hold", wire' = Append(w, p),
           UNCHANGED lease,
           owns("runner") => \E j \in 1..Len(w) : w[j].kind = "release",
           \A i \in 1..Len(w) : Grants(w[i]) => \E j \in 1..Len(w) : j > i /\ w[j].kind = "release"
    PROVE  ReturnInv'
<1>1. /\ Len(wire') = Len(w) + 1 /\ Len(w) \in Nat /\ wire'[Len(w) + 1] = p
      /\ \A i \in 1..Len(w) : wire'[i] = w[i]
  BY Appended, Zenon
<1>2. owns("runner")' => ReleasedAfter(0)'
  BY <1>1 DEF owns, ReleasedAfter
<1>3. ASSUME NEW i \in 1..Len(wire'), Grants(wire[i])' PROVE ReleasedAfter(i)'
  <2>1. i \in 1..Len(w) /\ Grants(w[i])
    BY <1>1, <1>3 DEF Grants
  <2> QED BY <1>1, <2>1 DEF ReleasedAfter
<1> QED BY <1>2, <1>3, Zenon DEF ReturnInv

(* A tick that lets go of the lease sends a release behind all it sent     *)
(* before; the hold that may follow asks for nothing.                      *)
LEMMA TickStep == ASSUME RunnerType, ReturnInv, Tick PROVE RunnerType' /\ ReturnInv'
<1> DEFINE lost == held /\ lossReason # None
           kept == held /\ ~lost
           moves == intent \in Motion
           gives == kept /\ ~moves /\ quiet = "idle"
           w == IF gives THEN Append(wire, packet("release", token)) ELSE wire
           h == kept /\ ~gives
           t == IF lost \/ gives THEN 0 ELSE token
           a == armed /\ ~lost
           b == IF lost THEN lossReason = "foreign" ELSE backoff /\ ~gives
           sends == gateAllows(intent)
           acquires == sends /\ moves /\ ~h /\ ~b
<1>1. /\ pc = "tick" /\ snap # None
      /\ held' = h /\ token' = t /\ astray' = (astray \/ lost)
      /\ pc' = IF acquires THEN "readback" ELSE "tick"
      /\ IF acquires THEN wire' = Append(w, packet("acquire", t)) /\ armed' = a
         ELSE IF sends /\ (h \/ ~moves) THEN armAndSend(intent, a, t, w)
         ELSE wire' = w /\ armed' = a
      /\ UNCHANGED <<intent, lease, shown, counter, snap, latched>>
  BY Zenon DEF Tick, serverVars
<1>2. snap \in Snapshot /\ t \in Nat /\ intent \in Intents
  BY <1>1, Zenon DEF RunnerType
<1>3. w \in Seq(Packet)
  BY PacketType, Appended, Zenon DEF RunnerType
<1> HIDE DEF w, t, a, b, acquires, sends
<1>4. wire' \in Seq(Packet)
  <2>1. CASE acquires
    <3>1. packet("acquire", t) \in Packet
      BY <1>2, PacketType, Zenon
    <3> QED BY <1>1, <1>3, <2>1, <3>1, Appended, Zenon
  <2>2. CASE ~acquires /\ sends /\ (h \/ ~moves)
    BY <1>1, <1>2, <1>3, <2>2, SendFacts, Zenon
  <2>3. CASE ~acquires /\ ~(sends /\ (h \/ ~moves))
    BY <1>1, <1>3, <2>3, Zenon
  <2> QED BY <2>1, <2>2, <2>3, Zenon
<1>5. RunnerType'
  BY <1>1, <1>2, <1>4, Zenon DEF RunnerType
<1>6. ReturnInv'
  <2>1. CASE lost \/ acquires
    BY <1>1, <2>1, Zenon DEF ReturnInv
  <2>2. CASE h
    BY <1>1, <2>2, Zenon DEF ReturnInv
  <2>3. CASE ~lost /\ ~acquires /\ ~h
    <3>1. gives \/ ~held
      BY <2>3, Zenon
    <3>2. (astray' <=> astray) /\ pc' = "tick" /\ ~held'
      BY <1>1, <2>3, Zenon
    <3>3. CASE astray
      BY <3>2, <3>3, Zenon DEF ReturnInv
    <3>4. CASE ~astray
      <4>1. CASE wire' = w /\ gives
        BY <4>1, ReleaseLast, Zenon DEF w, RunnerType
      <4>2. CASE wire' = w /\ ~gives
        <5>1. wire' = wire
          BY <4>2, Zenon DEF w
        <5> QED BY <1>1, <3>1, <3>4, <4>2, <5>1, Zenon DEF ReturnInv, ReleasedAfter, owns
      <4>3. CASE sends /\ (h \/ ~moves)
        <5>1. intent = "hold"
          BY <2>3, <4>3, <1>2, Zenon DEF sends, gateAllows, Motion, Intents
        <5>2. wire' = Append(w, packet("hold", t))
          BY <1>1, <1>2, <1>3, <2>3, <4>3, <5>1, SendFacts, Zenon
        <5>3. packet("hold", t) \in Packet /\ packet("hold", t).kind = "hold"
          BY <1>2, PacketType, Zenon
        <5>4. CASE gives
          <6>1. packet("release", token) \in Packet /\ packet("release", token).kind = "release"
            BY PacketType, Zenon DEF RunnerType
          <6>2. /\ Len(w) = Len(wire) + 1 /\ Len(wire) \in Nat /\ w[Len(wire) + 1].kind = "release"
            BY <5>4, <6>1, Appended, Zenon DEF w, RunnerType
          <6>3. \A i \in 0..Len(wire) : \E j \in 1..Len(w) : j > i /\ w[j].kind = "release"
            BY <6>2
          <6>4. \A i \in 1..Len(w) : Grants(w[i]) => i \in 0..Len(wire)
            BY <6>2 DEF Grants
          <6> QED BY <1>1, <1>3, <5>2, <5>3, <6>2, <6>3, <6>4, HoldKeeps
        <5>5. CASE ~gives
          <6>1. w = wire /\ ~held
            BY <3>1, <5>5, Zenon DEF w
          <6>2. /\ owns("runner") => ReleasedAfter(0)
                /\ \A i \in 1..Len(wire) : Grants(wire[i]) => ReleasedAfter(i)
            BY <1>1, <3>4, <6>1, Zenon DEF ReturnInv
          <6> QED BY <1>1, <1>3, <5>2, <5>3, <6>1, <6>2, HoldKeeps, Zenon DEF ReleasedAfter
        <5> QED BY <5>4, <5>5, Zenon
      <4> QED BY <1>1, <2>3, <4>1, <4>2, <4>3, Zenon
    <3> QED BY <3>3, <3>4, Zenon
  <2> QED BY <2>1, <2>2, <2>3, Zenon
<1> QED BY <1>5, <1>6, Zenon

(* The server's answer to a packet. *)
LEMMA ReceiveFacts ==
    ASSUME RunnerType, NEW who \in {"runner", "gui"}, NEW p \in Packet, receive(who, p)
    PROVE  /\ lease' \in Lease /\ shown' \in Lease /\ counter' \in Nat
           /\ \/ ~passesLeaseCheck(who, p) /\ lease' = lease
              \/ passesLeaseCheck(who, p) /\ Grants(p) /\ lease'.owner = who
              \/ passesLeaseCheck(who, p) /\ p.kind = "release" /\ ~lease'.active
              \/ passesLeaseCheck(who, p) /\ p.kind = "hold" /\ lease' = lease
<1> DEFINE l == IF p.kind \in {"acquire", "arm", "motion"} THEN grantedLease(who, p)
                ELSE IF p.kind = "release" THEN DefaultLease ELSE lease
<1>1. DefaultLease \in Lease /\ ~DefaultLease.active
  BY Zenon DEF DefaultLease, Lease
<1>2. grantedLease(who, p) \in Lease /\ grantedLease(who, p).owner = who
  BY DEF grantedLease, Lease, Packet, RunnerType
<1>3. l \in Lease /\ l.token \in Nat
  BY <1>1, <1>2, Zenon DEF RunnerType, Lease
<1>4. CASE ~passesLeaseCheck(who, p)
  BY <1>4, Zenon DEF receive, serverVars, RunnerType
<1>5. CASE passesLeaseCheck(who, p)
  <2>1. lease' = l /\ shown' \in {l, DefaultLease} /\ counter' \in {l.token, counter}
    BY <1>5, Zenon DEF receive
  <2>2. lease' \in Lease /\ shown' \in Lease /\ counter' \in Nat
    BY <1>1, <1>3, <2>1, Zenon DEF RunnerType
  <2>3. p.kind \in {"acquire", "release", "arm", "hold", "motion"}
    BY Zenon DEF Packet
  <2> QED BY <1>1, <1>2, <1>5, <2>1, <2>2, <2>3, Zenon DEF Grants
<1> QED BY <1>4, <1>5, Zenon

(* A packet that is granted the lease has a release behind it, and that     *)
(* release is accepted or the runner was astray.                           *)
LEMMA DeliverStep == ASSUME RunnerType, ReturnInv, Deliver PROVE RunnerType' /\ ReturnInv'
<1>1. /\ wire # <<>> /\ wire' = Tail(wire) /\ receive("runner", Head(wire))
      /\ astray' = (astray \/ (~passesLeaseCheck("runner", Head(wire)) /\ Head(wire).kind = "release"))
      /\ UNCHANGED <<pc, held, token, intent, snap, latched>>
  BY Zenon DEF Deliver, runnerVars
<1>2. /\ wire[1] = Head(wire) /\ wire[1] \in Packet /\ wire' \in Seq(Packet) /\ Len(wire) \in Nat \ {0}
      /\ Len(wire') = Len(wire) - 1 /\ \A i \in 1..Len(wire') : wire'[i] = wire[i + 1]
  BY <1>1 DEF RunnerType
<1>3. /\ lease' \in Lease /\ shown' \in Lease /\ counter' \in Nat
      /\ \/ ~passesLeaseCheck("runner", wire[1]) /\ lease' = lease
         \/ Grants(wire[1])
         \/ ~lease'.active
         \/ wire[1].kind = "hold" /\ lease' = lease
  BY <1>1, <1>2, ReceiveFacts, Zenon
<1>4. RunnerType'
  BY <1>1, <1>2, <1>3, Zenon DEF RunnerType
<1>5. ASSUME ~astray', ~held', pc' # "readback"
      PROVE  /\ owns("runner")' => ReleasedAfter(0)'
             /\ \A i \in 1..Len(wire') : Grants(wire[i])' => ReleasedAfter(i)'
  <2>1. /\ owns("runner") => ReleasedAfter(0)
        /\ \A i \in 1..Len(wire) : Grants(wire[i]) => ReleasedAfter(i)
        /\ ~passesLeaseCheck("runner", wire[1]) => wire[1].kind # "release"
    BY <1>1, <1>2, <1>5, Zenon DEF ReturnInv
  <2>2. ASSUME NEW i \in 1..Len(wire), ReleasedAfter(i) PROVE ReleasedAfter(i - 1)'
    <3>1. PICK j \in 1..Len(wire) : j > i /\ wire[j].kind = "release"
      BY <2>2, Zenon DEF ReleasedAfter
    <3>2. j - 1 \in 1..Len(wire') /\ wire'[j - 1] = wire[j] /\ j - 1 > i - 1
      BY <1>2, <3>1
    <3> QED BY <3>1, <3>2, Zenon DEF ReleasedAfter
  <2>3. ASSUME NEW i \in 1..Len(wire'), Grants(wire[i])' PROVE ReleasedAfter(i)'
    <3>1. i + 1 \in 1..Len(wire) /\ Grants(wire[i + 1])
      BY <1>2, <2>3 DEF Grants
    <3>2. ReleasedAfter((i + 1) - 1)'
      BY <2>1, <2>2, <3>1, Zenon
    <3> QED BY <3>2
  <2>4. 1 \in 1..Len(wire)
    BY <1>2
  <2>5. CASE Grants(wire[1])
    <3>1. ReleasedAfter(1 - 1)'
      BY <2>1, <2>2, <2>4, <2>5, Zenon
    <3> QED BY <2>3, <3>1
  <2>6. CASE ~lease'.active
    BY <2>3, <2>6, Zenon DEF owns
  <2>7. CASE lease' = lease /\ wire[1].kind # "release"
    <3>1. ASSUME owns("runner") PROVE ReleasedAfter(1)
      <4>1. PICK j \in 1..Len(wire) : wire[j].kind = "release"
        BY <2>1, <3>1, Zenon DEF ReleasedAfter
      <4>2. j > 1
        BY <2>7, <4>1
      <4> QED BY <4>1, <4>2, Zenon DEF ReleasedAfter
    <3>2. owns("runner")' => ReleasedAfter(1 - 1)'
      BY <2>2, <2>4, <2>7, <3>1, Zenon DEF owns
    <3> QED BY <2>3, <3>2
  <2> QED BY <1>3, <2>1, <2>5, <2>6, <2>7, Zenon
<1> QED BY <1>4, <1>5, Zenon DEF ReturnInv

(* The runner's half stays and the server's lease is not the runner's. *)
LEMMA NotTheRunners ==
    ASSUME ReturnInv, UNCHANGED <<pc, held, wire, astray>>, owns("runner")' => owns("runner")
    PROVE  ReturnInv'
BY Zenon DEF ReturnInv, ReleasedAfter, Grants

(* Every step of runner, server, network and rb_gui keeps the invariant.   *)
LEMMA LeaseStep == RunnerType /\ ReturnInv /\ Next => RunnerType' /\ ReturnInv'
<1> SUFFICES ASSUME RunnerType, ReturnInv, Next PROVE RunnerType' /\ ReturnInv'
  BY Zenon
<1>1. CASE Tick
  BY <1>1, TickStep, Zenon
<1>2. CASE Deliver
  BY <1>2, DeliverStep, Zenon
<1>3. CASE TickAborts \/ Interrupt
  <2>1. /\ leaves /\ UNCHANGED <<lease, shown, counter, intent, snap, latched>>
        /\ ~astray' => ~astray /\ pc # "readback"
    <3>1. CASE TickAborts
      BY <3>1, Zenon DEF TickAborts, serverVars
    <3>2. CASE Interrupt
      BY <3>2, Zenon DEF Interrupt, serverVars
    <3> QED BY <1>3, <3>1, <3>2, Zenon
  <2>2. /\ wire' \in Seq(Packet) /\ token' \in Nat /\ pc' = "exited" /\ ~held'
        /\ held => wire' = Append(wire, packet("release", token))
        /\ ~held => wire' = wire
    BY <2>1, LeaveFacts, Zenon
  <2>3. RunnerType'
    BY <2>1, <2>2, Zenon DEF RunnerType
  <2>4. CASE held
    <3>1. wire \in Seq(Packet) /\ token \in Nat /\ wire' = Append(wire, packet("release", token))
      BY <2>2, <2>4, Zenon DEF RunnerType
    <3> QED BY <2>3, <3>1, ReleaseLast, Zenon
  <2>5. CASE ~held
    <3>1. CASE astray'
      BY <2>3, <3>1, Zenon DEF ReturnInv
    <3>2. CASE ~astray'
      BY <2>3, <2>1, <2>2, <2>5, <3>2 DEF ReturnInv, ReleasedAfter, owns, Grants
    <3> QED BY <3>1, <3>2, Zenon
  <2> QED BY <2>3, <2>4, <2>5, Zenon
<1>4. CASE ReadbackMatches
  <2>1. /\ pc' = "tick" /\ held' /\ token' = snap.lease.token
        /\ armAndSend(intent, armed, snap.lease.token, wire)
        /\ UNCHANGED <<lease, shown, counter, intent, snap, latched>> /\ pc = "readback"
    BY <1>4, Zenon DEF ReadbackMatches, serverVars
  <2>2. snap.lease.token \in Nat
    BY <2>1, Zenon DEF RunnerType, Snapshot, Lease
  <2>3. wire' \in Seq(Packet)
    BY <2>1, <2>2, SendFacts, Zenon DEF RunnerType
  <2> QED BY <2>1, <2>2, <2>3, Zenon DEF RunnerType, ReturnInv
<1>5. CASE ReadbackTimesOut
  BY <1>5, Zenon DEF ReadbackTimesOut, RunnerType, ReturnInv, serverVars
<1>6. CASE BackoffEnds \/ IdlePeriodEnds \/ FaultLatches
  <2>1. UNCHANGED <<pc, held, token, intent, wire, lease, shown, counter, snap, astray>> /\ latched' \in {latched, TRUE}
    BY <1>6, Zenon DEF BackoffEnds, IdlePeriodEnds, FaultLatches, serverVars, runnerVars
  <2> QED BY <2>1, NotTheRunners, Zenon DEF RunnerType, owns
<1>7. CASE Publish \/ StateGoesStale
  <2>1. UNCHANGED <<pc, held, token, intent, wire, lease, shown, counter, latched, astray>>
    BY <1>7, Zenon DEF Publish, StateGoesStale, serverVars, runnerVars
  <2>2. snap' \in Snapshot
    <3>1. CASE Publish
      BY <3>1, Zenon DEF Publish, RunnerType, Snapshot
    <3>2. CASE StateGoesStale
      BY <3>2, Zenon DEF StateGoesStale, RunnerType, Snapshot
    <3> QED BY <1>7, <3>1, <3>2, Zenon
  <2> QED BY <2>1, <2>2, NotTheRunners, Zenon DEF RunnerType, owns
<1>8. CASE Lose
  <2>1. wire' \in Seq(Packet)
    BY <1>8 DEF Lose, RunnerType
  <2> QED BY <1>8, <2>1, Zenon DEF Lose, RunnerType, ReturnInv, serverVars, runnerVars
<1>9. CASE Expire
  <2>1. /\ UNCHANGED <<pc, held, token, intent, wire, counter, snap, latched, astray>>
        /\ lease' = [lease EXCEPT !.active = FALSE] /\ shown' = [shown EXCEPT !.active = FALSE]
    BY <1>9, Zenon DEF Expire, runnerVars
  <2>2. lease' \in Lease /\ shown' \in Lease /\ ~lease'.active
    BY <2>1, Zenon DEF RunnerType, Lease
  <2> QED BY <2>1, <2>2, NotTheRunners, Zenon DEF RunnerType, owns
<1>10. CASE GuiCommand
  <2>1. PICK kind \in {"acquire", "arm", "release"} : receive("gui", packet(kind, 0))
    BY <1>10, Zenon DEF GuiCommand
  <2>2. UNCHANGED <<pc, held, token, intent, wire, snap, latched, astray>>
    BY <1>10, Zenon DEF GuiCommand, runnerVars
  <2>3. packet(kind, 0) \in Packet
    BY PacketType, Zenon
  <2>4. /\ lease' \in Lease /\ shown' \in Lease /\ counter' \in Nat
        /\ lease' = lease \/ lease'.owner = "gui" \/ ~lease'.active
    BY <2>1, <2>3, ReceiveFacts, Zenon
  <2> QED BY <2>2, <2>4, NotTheRunners, Zenon DEF RunnerType, owns
<1>11. CASE SourceAsks
  <2>1. UNCHANGED <<pc, held, token, wire, lease, shown, counter, snap, latched, astray>> /\ intent' \in Intents
    BY <1>11, Zenon DEF SourceAsks, runnerVars, serverVars
  <2> QED BY <2>1, NotTheRunners, Zenon DEF RunnerType, owns
<1> QED BY <1>1, <1>2, <1>3, <1>4, <1>5, <1>6, <1>7, <1>8, <1>9, <1>10, <1>11, Zenon DEF Next

(* The finally block and the idle release of run() are enough: whatever    *)
(* rb_gui does and whatever expires, an exited runner whose packets have   *)
(* arrived is not the owner, unless it had lost track of its request.      *)
THEOREM LeaseIsGivenBack == Spec => []LeaseReturned
<1>1. Init => RunnerType /\ ReturnInv
  <2> SUFFICES ASSUME Init PROVE RunnerType /\ ReturnInv
    BY Zenon
  <2>1. DefaultLease \in Lease /\ ~DefaultLease.active
    BY Zenon DEF DefaultLease, Lease
  <2>2. RunnerType
    <3>1. wire \in Seq(Packet) /\ token \in Nat /\ counter \in Nat /\ intent \in Intents
      BY DEF Init, Intents
    <3>2. pc = "tick" /\ snap = None /\ latched \in BOOLEAN /\ lease \in Lease /\ shown \in Lease
      BY <2>1, Zenon DEF Init
    <3> QED BY <3>1, <3>2, Zenon DEF RunnerType
  <2> QED BY <2>1, <2>2 DEF Init, ReturnInv, owns
<1>2. RunnerType /\ ReturnInv /\ UNCHANGED vars => RunnerType' /\ ReturnInv'
  <2> SUFFICES ASSUME RunnerType, ReturnInv, UNCHANGED vars PROVE RunnerType' /\ ReturnInv'
    BY Zenon
  <2>1. UNCHANGED <<pc, held, token, intent, wire, lease, shown, counter, snap, latched, astray>>
    BY Zenon DEF vars, runnerVars, serverVars
  <2> QED BY <2>1, NotTheRunners, Zenon DEF RunnerType, owns
<1>3. RunnerType /\ ReturnInv => LeaseReturned
  <2> SUFFICES ASSUME RunnerType, ReturnInv, pc = "exited", wire = <<>>, ~astray PROVE ~owns("runner")
    BY Zenon DEF LeaseReturned
  <2> QED BY DEF RunnerType, ReturnInv, ReleasedAfter
<1> QED BY <1>1, <1>2, <1>3, LeaseStep, PTL DEF Spec
=============================================================================
