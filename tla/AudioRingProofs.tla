--------------------------- MODULE AudioRingProofs ---------------------------
(***************************************************************************)
(* Theorems about AudioRing, for every size of the ring, the quantum and   *)
(* the callback.                                                           *)
(***************************************************************************)
EXTENDS AudioRing, TLAPS

\* The last frame the data thread knows of: published or in its hands.
Top == IF writer.pc \in {"fill", "publish"} THEN writer.write ELSE write_frame

(***************************************************************************)
(* What keeps the writer's difference from wrapping.  The reader's index   *)
(* can pass the published one (the writer moves it), but not Top; nor can  *)
(* any copy of it that somebody will store back.                           *)
(***************************************************************************)
IndicesInOrder ==
  /\ write_frame <= Top /\ read_frame <= Top
  /\ writer.pc = "fill" => writer.read <= writer.write
  /\ reader.read <= Top /\ reader.write <= write_frame
  /\ reader.pc = "copy" => reader.read < reader.write
  /\ main.seen <= write_frame

\* A thread that loops over frames has one left.
FramesLeft ==
  /\ writer.pc = "fill" => writer.left > 0
  /\ reader.pc \in {"load", "copy"} => reader.left > 0

IInv == TypeOK /\ IndicesInOrder /\ FramesLeft

USE DEF buffer, history, Slots

LEMMA SlotType ==
  ASSUME NEW frame \in Nat, ring_frames \in RingSizes
  PROVE  SlotOf(frame) \in Slots
<1>1. ring_frames \in Nat \ {0}
  BY SizesType
<1>2. QED
  BY <1>1 DEF SlotOf

\* What a step does to a thread's record is seen once here, so that the steps
\* below need not look into the sets of records.
LEMMA WriterType ==
  ASSUME NEW pc \in {"idle", "fill", "publish", "answer"},
         NEW r \in Nat, NEW w \in Nat, NEW l \in 0 .. MaxQuantum
  PROVE  [pc |-> pc, read |-> r, write |-> w, left |-> l] \in Writers
BY DEF Writers

LEMMA ReaderType ==
  ASSUME NEW pc \in {"idle", "load", "copy", "store"},
         NEW r \in Nat, NEW w \in Nat, NEW l \in 0 .. MaxCallback
  PROVE  [pc |-> pc, read |-> r, write |-> w, left |-> l] \in Readers
BY DEF Readers

LEMMA InitIInv == Init => IInv
<1> SUFFICES ASSUME Init PROVE IInv
  OBVIOUS
<1>1. TypeOK
  <2>1. ring \in [Slots -> Int]
    BY DEF Init
  <2>2. writer \in Writers /\ reader \in Readers /\ main \in Mains
    BY SizesType DEF Init, Writers, Readers, Mains
  <2>3. drive \in [Callers -> Drives]
    BY DEF Init, Drives
  <2>4. starts \in 0 .. MaxStarts
    BY SizesType DEF Init
  <2>5. QED
    BY <2>1, <2>2, <2>3, <2>4 DEF Init, TypeOK
<1>2. QED
  BY <1>1 DEF Init, IInv, IndicesInOrder, FramesLeft, Top

LEMMA WriterIInv == ASSUME IInv, WriterSteps PROVE IInv'
<1> USE SizesType DEF IInv, IndicesInOrder, FramesLeft, Top
<1>0. TypeOK
  OBVIOUS
<1>n. /\ {writer.read, writer.write, reader.read, reader.write} \subseteq Nat
      /\ {read_frame, write_frame, main.seen} \subseteq Nat
      /\ writer.left \in 0 .. MaxQuantum /\ reader.left \in 0 .. MaxCallback
  BY DEF TypeOK, Writers, Readers, Mains
<1>1. CASE WriteMakesRoom
  <2>1. writer.read + 1 <= writer.write
    BY <1>1 DEF WriteMakesRoom, TypeOK, RingFull, Writers
  <2>w. writer' = [pc |-> "fill", read |-> writer.read + 1, write |-> writer.write,
                   left |-> writer.left]
    BY <1>0, <1>1 DEF WriteMakesRoom, TypeOK, Writers
  <2>t. writer' \in Writers
    BY ONLY <1>n, <2>w, WriterType
  <2>2. writer' \in Writers /\ read_frame' \in Nat
    BY <1>n, <1>1, <2>t DEF WriteMakesRoom
  <2>3. TypeOK'
    BY <1>0, <1>1, <2>2 DEF WriteMakesRoom, TypeOK, graph
  <2>4. QED
    BY <1>1, <2>1, <2>3 DEF WriteMakesRoom, TypeOK, graph, Writers
<1>2. CASE WriteFills
  <2>1. SlotOf(writer.write) \in Slots /\ writer.write \in Int
    BY SlotType DEF TypeOK, Writers
  <2>2. ring' \in [Slots -> Int]
    BY <1>0, <1>2, <2>1 DEF WriteFills, TypeOK
  <2>3. writer' = [pc |-> IF writer.left = 1 THEN "publish" ELSE "fill",
                   read |-> writer.read, write |-> writer.write + 1, left |-> writer.left - 1]
    BY <1>0, <1>2 DEF WriteFills, TypeOK, Writers
  <2>t. writer' \in Writers
    <3>1. writer.left - 1 \in 0 .. MaxQuantum /\ writer.write + 1 \in Nat
      BY <1>n, <1>2 DEF WriteFills
    <3>2. (IF writer.left = 1 THEN "publish" ELSE "fill") \in {"idle", "fill", "publish", "answer"}
      OBVIOUS
    <3>3. QED
      BY ONLY <1>n, <2>3, <3>1, <3>2, WriterType
  <2>4. TypeOK'
    BY <1>0, <1>2, <2>2, <2>t DEF WriteFills, TypeOK, atomics, graph
  <2>5. QED
    BY <1>n, <1>2, <2>3, <2>4 DEF WriteFills, atomics
<1>3. CASE WritePublishes
  <2>1. writer' \in Writers /\ write_frame' \in Nat
    BY <1>n, <1>3 DEF WritePublishes, Writers
  <2>2. TypeOK'
    BY <1>0, <1>3, <2>1 DEF WritePublishes, TypeOK, graph
  <2>3. QED
    BY <1>n, <1>3, <2>2 DEF WritePublishes
<1>4. CASE ProcessAnswers
  <2>1. writer' \in Writers
    BY <1>0, <1>4 DEF ProcessAnswers, TypeOK, Writers
  <2>2. TypeOK'
    BY <1>0, <1>4, <2>1 DEF ProcessAnswers, TypeOK, graph
  <2>3. QED
    BY <1>4, <2>2 DEF ProcessAnswers, TypeOK, graph, Writers
<1>5. CASE ProcessStarves
  <2>1. TypeOK'
    BY <1>0, <1>5 DEF ProcessStarves, TypeOK, atomics, threads
  <2>2. QED
    BY <1>5, <2>1 DEF ProcessStarves, TypeOK, atomics, threads
<1>6. ASSUME NEW n \in 0 .. MaxQuantum, Process(n) PROVE IInv'
  <2>1. writer' \in Writers
    BY <1>0, <1>6, WriterType DEF Process, TypeOK, Writers
  <2>2. TypeOK'
    BY <1>0, <1>6, <2>1 DEF Process, TypeOK, atomics
  <2>3. QED
    BY <1>6, <2>2 DEF Process, TypeOK, atomics, Writers
<1>7. QED
  BY <1>1, <1>2, <1>3, <1>4, <1>5, <1>6 DEF WriterSteps

LEMMA DriveIInv ==
  ASSUME NEW c \in Callers, IInv, DriveSteps(c) PROVE IInv'
<1>1. UNCHANGED <<read_frame, write_frame, drive_enabled, ring_frames, ring,
                  streaming, starts, writer, reader, main, starved, undone>>
  BY DEF DriveSteps, DriveAsksEnabled, DriveLoadsRead, DriveAsksLow, DriveClaims,
         DriveTriggers, atomics, graph
<1>2. drive' \in [Callers -> Drives]
  <2>1. \E d \in Drives : drive' = [drive EXCEPT ![c] = d]
    <3>1. drive \in [Callers -> Drives] /\ read_frame \in Nat
      BY DEF IInv, TypeOK
    <3>2. QED
      BY <3>1 DEF DriveSteps, DriveAsksEnabled, DriveLoadsRead, DriveAsksLow,
                  DriveClaims, DriveTriggers, Goes, Drives
  <2>2. QED
    BY <2>1 DEF IInv, TypeOK
<1>3. process_pending' \in BOOLEAN /\ triggered' \in Nat
  <2>1. process_pending \in BOOLEAN /\ triggered \in Nat
    BY DEF IInv, TypeOK
  <2>2. process_pending' = process_pending \/ process_pending' = TRUE
    BY DEF DriveSteps, DriveAsksEnabled, DriveLoadsRead, DriveAsksLow,
           DriveClaims, DriveTriggers, atomics
  <2>3. triggered' = triggered \/ triggered' = triggered + 1
    BY DEF DriveSteps, DriveAsksEnabled, DriveLoadsRead, DriveAsksLow,
           DriveClaims, DriveTriggers, graph
  <2>4. process_pending' \in BOOLEAN
    BY <2>1, <2>2, Zenon
  <2>5. triggered' \in Nat
    BY <2>1, <2>3, SMT
  <2>6. QED
    BY <2>4, <2>5
<1>4. QED
  BY <1>1, <1>2, <1>3 DEF IInv, TypeOK, IndicesInOrder, FramesLeft, Top

LEMMA ReaderIInv == ASSUME IInv, ReaderSteps PROVE IInv'
<1> USE SizesType DEF IInv, IndicesInOrder, FramesLeft, Top
<1>0. TypeOK
  OBVIOUS
<1>n. /\ {writer.read, writer.write, reader.read, reader.write} \subseteq Nat
      /\ {read_frame, write_frame, main.seen} \subseteq Nat
      /\ writer.left \in 0 .. MaxQuantum /\ reader.left \in 0 .. MaxCallback
  BY DEF TypeOK, Writers, Readers, Mains
<1>1. CASE ReadLoads
  <2>1. reader' \in Readers
    BY <1>0, <1>1 DEF ReadLoads, TypeOK, Readers
  <2>2. TypeOK'
    BY <1>0, <1>1, <2>1 DEF ReadLoads, TypeOK, atomics, graph
  <2>3. QED
    BY <1>1, <2>2 DEF ReadLoads, TypeOK, atomics, graph, Readers
<1>2. CASE ReadCopies
  <2>1. reader' = [pc |-> IF reader.left = 1 \/ reader.read + 1 >= reader.write
                            THEN "store" ELSE "copy",
                   read |-> reader.read + 1, write |-> reader.write,
                   left |-> reader.left - 1]
    BY <1>0, <1>2 DEF ReadCopies, TypeOK, Readers
  <2>t. reader' \in Readers
    <3>0. reader.left > 0
      BY <1>2 DEF ReadCopies
    <3>1. reader.left - 1 \in 0 .. MaxCallback /\ reader.read + 1 \in Nat
      BY ONLY <1>n, <3>0, SizesType
    <3>2. (IF reader.left = 1 \/ reader.read + 1 >= reader.write THEN "store" ELSE "copy")
            \in {"idle", "load", "copy", "store"}
      OBVIOUS
    <3>3. QED
      BY ONLY <1>n, <2>1, <3>1, <3>2, ReaderType
  <2>2. TypeOK'
    BY <1>0, <1>2, <2>t DEF ReadCopies, TypeOK, atomics, graph
  <2>3. reader.read + 1 <= Top
    BY <1>n, <1>2 DEF ReadCopies
  <2>4. QED
    BY <1>n, <1>2, <2>1, <2>2, <2>3 DEF ReadCopies, atomics
<1>3. CASE ReadStores
  <2>1. reader' \in Readers /\ read_frame' \in Nat
    BY <1>0, <1>3 DEF ReadStores, TypeOK, Readers
  <2>2. drive' \in [Callers -> Drives]
    BY <1>0, <1>3 DEF ReadStores, TypeOK, Drives
  <2>3. TypeOK'
    BY <1>0, <1>3, <2>1, <2>2 DEF ReadStores, TypeOK, graph
  <2>4. QED
    BY <1>n, <1>3, <2>3 DEF ReadStores
<1>4. CASE DriveSteps("callback")
  BY <1>4, DriveIInv DEF Callers
<1>5. ASSUME NEW n \in 1 .. MaxCallback, Callback(n) PROVE IInv'
  <2>1. reader' \in Readers
    BY <1>0, <1>5, ReaderType DEF Callback, TypeOK
  <2>2. TypeOK'
    BY <1>0, <1>5, <2>1 DEF Callback, TypeOK, atomics, graph
  <2>3. QED
    BY <1>5, <2>2 DEF Callback, TypeOK, atomics, graph, Readers
<1>6. QED
  BY <1>1, <1>2, <1>3, <1>4, <1>5 DEF ReaderSteps

LEMMA MainIInv ==
  ASSUME IInv, MainSteps \/ StreamStarts \/ StreamPauses PROVE IInv'
<1> USE DEF IInv, IndicesInOrder, FramesLeft, Top
<1>0. TypeOK
  OBVIOUS
<1>n. /\ {writer.read, writer.write, reader.read, reader.write} \subseteq Nat
      /\ {read_frame, write_frame, main.seen} \subseteq Nat
      /\ writer.left \in 0 .. MaxQuantum /\ reader.left \in 0 .. MaxCallback
  BY DEF TypeOK, Writers, Readers, Mains
<1>1. CASE ClearLoads
  BY <1>1 DEF ClearLoads, TypeOK, Mains, atomics, graph
<1>2. CASE ClearStores
  <2>1. main' \in Mains
    BY <1>2 DEF ClearStores, Mains
  <2>2. TypeOK'
    BY <1>0, <1>n, <1>2, <2>1 DEF ClearStores, TypeOK, graph
  <2>3. QED
    BY <1>n, <1>2, <2>2 DEF ClearStores
<1>3. CASE StartRenews
  BY <1>3 DEF StartRenews, TypeOK, Mains, graph
<1>4. CASE StartEnables
  <2>1. drive' \in [Callers -> Drives] /\ main' \in Mains
    BY <1>4 DEF StartEnables, TypeOK, Drives, Mains
  <2>2. QED
    BY <1>4, <2>1 DEF StartEnables, TypeOK, Mains, graph
<1>5. CASE PauseDisables
  BY <1>5 DEF PauseDisables, TypeOK, Mains, graph
<1>6. CASE PauseForgets
  BY <1>6 DEF PauseForgets, TypeOK, Mains, graph
<1>7. CASE DriveSteps("main")
  BY <1>7, DriveIInv DEF Callers
<1>8. CASE StreamStarts
  <2>1. main' \in Mains /\ main'.seen = main.seen
    BY <1>0, <1>8 DEF StreamStarts, TypeOK, Mains
  <2>2. starts' \in 0 .. MaxStarts
    BY <1>0, <1>8, SizesType DEF StreamStarts, TypeOK
  <2>3. TypeOK'
    BY <1>0, <1>8, <2>1, <2>2 DEF StreamStarts, TypeOK, atomics
  <2>4. QED
    BY <1>n, <1>8, <2>1, <2>3 DEF StreamStarts, atomics
<1>9. CASE StreamPauses
  BY <1>9 DEF StreamPauses, TypeOK, Mains, atomics
<1>10. QED
  BY <1>1, <1>2, <1>3, <1>4, <1>5, <1>6, <1>7, <1>8, <1>9 DEF MainSteps

LEMMA StepIInv == IInv /\ [Next]_vars => IInv'
<1> SUFFICES ASSUME IInv, [Next]_vars PROVE IInv'
  OBVIOUS
<1>1. CASE Next
  BY <1>1, WriterIInv, ReaderIInv, MainIInv DEF Next
<1>2. CASE UNCHANGED vars
  BY <1>2 DEF IInv, TypeOK, IndicesInOrder, FramesLeft, Top,
              vars, atomics, graph, threads
<1>3. QED
  BY <1>1, <1>2

LEMMA AlwaysIInv == Spec => []IInv
<1>1. QED
  BY InitIInv, StepIInv, PTL DEF Spec

\* The sink's state stays in its type, whatever the sizes.
THEOREM Typing == Spec => []TypeOK
<1>1. IInv => TypeOK
  BY DEF IInv
<1>2. QED
  BY <1>1, AlwaysIInv, PTL

\* `write - read` of Sink::write never wraps, though three threads store to
\* the read index and a stale copy of it can be stored back.
THEOREM Underflow == Spec => []NeverUnderflows
<1>1. IInv => NeverUnderflows
  BY DEF IInv, IndicesInOrder, NeverUnderflows
<1>2. QED
  BY <1>1, AlwaysIInv, PTL

(***************************************************************************)
(* How much is buffered                                                    *)
(***************************************************************************)

\* The last frame the data thread has in its hands is written here.
Reach == CASE writer.pc = "fill"    -> writer.write + writer.left
           [] writer.pc = "publish" -> writer.write
           [] OTHER                 -> write_frame

At(c, pcs) == IF drive[c].pc \in pcs THEN 1 ELSE 0
Busy == IF writer.pc = "idle" THEN 0 ELSE 1

\* The main loop asks once for every start of the stream, without looking at
\* what it cleared again.
MainAsks ==
  IF main.pc \in {"renew", "enable"} \/ drive["main"].pc \in {"enabled", "read", "low"}
    THEN 1 ELSE 0

\* Cycles claimed, triggered and under way.
Cycles == triggered + Busy + At("callback", {"trigger"}) + At("main", {"trigger"})

\* Cycles that will come without anybody finding the level low once more,
Orders ==
  triggered + At("callback", {"claim", "trigger"}) + At("main", {"claim", "trigger"})
    + MainAsks

\* and how far they can write.
Due == Reach + MaxQuantum * Orders

\* Where the threads are while the stream starts and pauses.
PhaseInv ==
  /\ main.pc # "idle" => drive["main"].pc = "idle"
  /\ reader.pc # "idle" => drive["callback"].pc = "idle"
  /\ main.pc \in {"load", "clear", "renew", "enable"} => streaming /\ ~drive_enabled
  /\ drive["main"].pc # "idle" => streaming
  /\ main.pc \in {"disable", "forget"} => ~streaming
  /\ ~streaming => triggered = 0 /\ writer.pc = "idle"
  /\ ~streaming /\ main.pc \in {"idle", "forget"} => ~drive_enabled

\* One cycle at a time, and one the flag does not know of: the callback may have
\* claimed it before the stream was paused, and trigger it after the start.
CycleInv ==
  /\ Cycles <= IF process_pending THEN 2 ELSE 1
  /\ main.pc \in {"load", "clear", "renew"} =>
       Cycles + At("callback", {"read", "low", "claim"}) <= 1

\* A cycle writes its quantum at most.
FillInv ==
  /\ writer.pc = "fill" =>
       write_frame <= writer.write /\ writer.write + writer.left <= write_frame + MaxQuantum
  /\ writer.pc = "publish" =>
       write_frame <= writer.write /\ writer.write <= write_frame + MaxQuantum

\* The index a clear is about to store leaves room for the one such cycle.
SeenInv ==
  main.pc = "clear" =>
    Due + MaxQuantum * At("callback", {"read", "low"}) <= main.seen + MaxQuantum

\* Every read index that is or can become the reader's leaves room for what is
\* due; a callback that looked at a newer one has room for its order as well.
RoomInv ==
  ring_frames >= Enough =>
    /\ Due <= read_frame + Enough
    /\ reader.pc # "idle" => Due <= reader.read + Enough
    /\ writer.pc = "fill" => writer.write + writer.left <= writer.read + Enough
    /\ drive["callback"].pc = "low" =>
         \/ drive["callback"].read <= read_frame
         \/ Due + MaxQuantum <= read_frame + Enough

\* The ring holds the last frames written.
ContentInv ==
  \A frame \in Nat :
    frame < Top /\ Top <= frame + ring_frames => ring[SlotOf(frame)] = frame

LevelInv == PhaseInv /\ CycleInv /\ FillInv /\ SeenInv /\ RoomInv /\ ContentInv

LEMMA Quanta ==
  /\ MaxQuantum \in Nat \ {0} /\ LowWater \in Nat
  /\ \A n \in Nat : /\ MaxQuantum * n \in Nat
                    /\ MaxQuantum * (n + 1) = MaxQuantum * n + MaxQuantum
  /\ MaxQuantum * 0 = 0 /\ MaxQuantum * 1 = MaxQuantum
  /\ MaxQuantum * 2 = MaxQuantum + MaxQuantum
<1>1. MaxQuantum \in Nat \ {0} /\ LowWater \in Nat
  BY SizesType
<1>2. \A n \in Nat : /\ MaxQuantum * n \in Nat
                     /\ MaxQuantum * (n + 1) = MaxQuantum * n + MaxQuantum
  BY <1>1
<1>3. QED
  BY <1>1, <1>2

LEMMA EnoughType ==
  ASSUME undone \in Nat
  PROVE  /\ Enough \in Nat /\ LowWater + 4 * MaxQuantum <= Enough
         /\ undone' = undone => Enough' = Enough
         /\ undone' = undone + 1 => Enough' = Enough + MaxQuantum
<1>1. Enough = LowWater + (4 * MaxQuantum + MaxQuantum * undone)
  BY Quanta DEF Enough
<1>2. MaxQuantum * undone \in Nat
  BY Quanta
<1>3. Enough \in Nat /\ LowWater + 4 * MaxQuantum <= Enough
  BY <1>1, <1>2, Quanta
<1>4. undone' = undone + 1 => Enough' = Enough + MaxQuantum
  <2>1. ASSUME undone' = undone + 1 PROVE Enough' = LowWater + (4 + (undone + 1)) * MaxQuantum
    BY <2>1 DEF Enough
  <2>2. LowWater + (4 + (undone + 1)) * MaxQuantum = Enough + MaxQuantum
    BY Quanta DEF Enough
  <2>3. QED
    BY <2>1, <2>2
<1>5. undone' = undone => Enough' = Enough
  BY DEF Enough
<1>6. QED
  BY <1>3, <1>4, <1>5

LEMMA LevelTypes ==
  ASSUME IInv
  PROVE  /\ {read_frame, write_frame, main.seen, reader.read, undone} \subseteq Nat
         /\ {writer.read, writer.write, triggered, Reach, Orders, Cycles, Due} \subseteq Nat
         /\ writer.left \in 0 .. MaxQuantum
         /\ Busy \in {0, 1} /\ MainAsks \in {0, 1}
         /\ \A c \in Callers : \A pcs : At(c, pcs) \in {0, 1}
         /\ \A c \in Callers : drive[c].read \in Nat
         /\ writer \in Writers /\ reader \in Readers /\ main \in Mains
         /\ drive \in [Callers -> Drives] /\ ring_frames \in Nat \ {0}
         /\ process_pending \in BOOLEAN /\ drive_enabled \in BOOLEAN
<1>1. /\ {read_frame, write_frame, main.seen, reader.read, undone} \subseteq Nat
      /\ {writer.read, writer.write, triggered} \subseteq Nat
      /\ writer.left \in 0 .. MaxQuantum
      /\ writer \in Writers /\ reader \in Readers /\ main \in Mains
      /\ drive \in [Callers -> Drives] /\ ring_frames \in Nat \ {0}
      /\ process_pending \in BOOLEAN /\ drive_enabled \in BOOLEAN
  BY SizesType DEF IInv, TypeOK, Writers, Readers, Mains
<1>2. \A c \in Callers : drive[c].read \in Nat
  BY <1>1 DEF Drives
<1>3. /\ Busy \in {0, 1} /\ MainAsks \in {0, 1}
      /\ \A c \in Callers : \A pcs : At(c, pcs) \in {0, 1}
  BY DEF Busy, MainAsks, At
<1>4. Reach \in Nat
  BY <1>1, Quanta DEF Reach
<1>5. Orders \in Nat /\ Cycles \in Nat
  BY <1>1, <1>3 DEF Orders, Cycles, Callers
<1>6. Due \in Nat
  BY <1>4, <1>5, Quanta DEF Due
<1>7. QED
  BY <1>1, <1>2, <1>3, <1>4, <1>5, <1>6

\* Frames less than a ring apart are in different slots.
LEMMA SlotsApart ==
  ASSUME NEW a \in Nat, NEW b \in Nat, a < b, b < a + ring_frames,
         ring_frames \in Nat \ {0}
  PROVE  SlotOf(a) # SlotOf(b)
<1>0. \A n \in Nat : /\ n \div ring_frames \in Int
                    /\ n = ring_frames * (n \div ring_frames) + (n % ring_frames)
  OBVIOUS
<1>1. PICK p \in Int : a = ring_frames * p + (a % ring_frames)
  BY <1>0
<1>2. PICK q \in Int : b = ring_frames * q + (b % ring_frames)
  BY <1>0
<1>3. SUFFICES ASSUME a % ring_frames = b % ring_frames PROVE FALSE
  BY DEF SlotOf
<1>4. b - a = ring_frames * (q - p)
  BY <1>1, <1>2, <1>3
<1>5. CASE q - p <= 0
  <2>1. ring_frames * (q - p) <= 0
    BY <1>5
  <2>2. QED
    BY <1>4, <2>1
<1>6. CASE q - p >= 1
  <2>1. ring_frames * (q - p) >= ring_frames
    BY <1>6
  <2>2. QED
    BY <1>4, <2>1
<1>7. QED
  BY <1>5, <1>6

\* Where a step of maybe_trigger_process leads; the other caller stays where it is.
LEMMA DriveMoves ==
  ASSUME NEW c \in Callers, IInv, DriveSteps(c)
  PROVE  /\ \A o \in Callers : o # c => drive'[o] = drive[o]
         /\ DriveAsksEnabled(c) =>
              drive'[c].pc = IF drive_enabled THEN "read" ELSE "idle"
         /\ DriveLoadsRead(c) => drive'[c].pc = "low" /\ drive'[c].read = read_frame
         /\ DriveAsksLow(c) =>
              drive'[c].pc = IF write_frame - drive[c].read > LowWater THEN "idle" ELSE "claim"
         /\ DriveClaims(c) => drive'[c].pc = IF process_pending THEN "idle" ELSE "trigger"
         /\ DriveTriggers(c) => drive'[c].pc = "idle"
<1>1. drive \in [Callers -> Drives]
  BY LevelTypes
<1>2. \A o \in Callers : o # c => drive'[o] = drive[o]
  BY <1>1 DEF DriveSteps, DriveAsksEnabled, DriveLoadsRead, DriveAsksLow, DriveClaims,
              DriveTriggers, Goes
<1>3. \A pc \in {"idle", "read", "trigger"} : Goes(c, pc) => drive'[c].pc = pc
  BY <1>1 DEF Goes, Drives
<1>4. DriveAsksEnabled(c) => drive'[c].pc = IF drive_enabled THEN "read" ELSE "idle"
  BY <1>3 DEF DriveAsksEnabled
<1>5. DriveLoadsRead(c) => drive'[c].pc = "low" /\ drive'[c].read = read_frame
  BY <1>1 DEF DriveLoadsRead
<1>6. DriveAsksLow(c) =>
        drive'[c].pc = IF write_frame - drive[c].read > LowWater THEN "idle" ELSE "claim"
  BY <1>1 DEF DriveAsksLow
<1>7. DriveClaims(c) => drive'[c].pc = IF process_pending THEN "idle" ELSE "trigger"
  BY <1>3 DEF DriveClaims
<1>8. DriveTriggers(c) => drive'[c].pc = "idle"
  BY <1>3 DEF DriveTriggers
<1>9. QED
  BY <1>2, <1>4, <1>5, <1>6, <1>7, <1>8

LEMMA StepPhase == ASSUME IInv, PhaseInv, Next PROVE PhaseInv'
<1> USE LevelTypes DEF PhaseInv
<1>1. CASE WriterSteps
  <2>1. UNCHANGED <<drive_enabled, streaming, main, reader, drive>>
    BY <1>1 DEF WriterSteps, WriteMakesRoom, WriteFills, WritePublishes, ProcessAnswers,
                ProcessStarves, Process, atomics, graph, threads
  <2>2. triggered = 0 /\ writer.pc = "idle" => triggered' = 0 /\ writer'.pc = "idle"
    BY <1>1 DEF WriterSteps, WriteMakesRoom, WriteFills, WritePublishes, ProcessAnswers,
                ProcessStarves, Process, atomics, graph, threads
  <2>3. QED
    BY <2>1, <2>2
<1>2. ASSUME NEW c \in Callers, DriveSteps(c), c = "callback" => reader.pc = "idle" PROVE PhaseInv'
  <2>1. UNCHANGED <<drive_enabled, streaming, main, reader, writer>>
    BY <1>2 DEF DriveSteps, DriveAsksEnabled, DriveLoadsRead, DriveAsksLow, DriveClaims,
                DriveTriggers, atomics, graph
  <2>2. ~streaming => triggered' = triggered
    BY <1>2 DEF DriveSteps, DriveAsksEnabled, DriveLoadsRead, DriveAsksLow, DriveClaims,
                DriveTriggers, atomics, graph
  <2>3. drive[c].pc # "idle"
    BY <1>2 DEF DriveSteps, DriveAsksEnabled, DriveLoadsRead, DriveAsksLow, DriveClaims,
                DriveTriggers
  <2>4. \A o \in Callers : o # c => drive'[o] = drive[o]
    BY <1>2, DriveMoves
  <2>5. QED
    BY <1>2, <2>1, <2>2, <2>3, <2>4 DEF Callers
<1>3. CASE ReaderSteps
  <2>1. CASE ReadLoads \/ ReadCopies
    <3>1. /\ reader.pc # "idle"
          /\ UNCHANGED <<drive_enabled, streaming, main, writer, drive, triggered>>
      BY <2>1 DEF ReadLoads, ReadCopies, atomics, graph
    <3>2. QED
      BY <3>1
  <2>2. CASE ReadStores
    <3>1. reader'.pc = "idle" /\ UNCHANGED <<drive_enabled, streaming, main, writer, triggered>>
      BY <2>2 DEF ReadStores, graph
    <3>2. drive'["main"] = drive["main"]
      BY <2>2 DEF ReadStores, Callers
    <3>3. QED
      BY <3>1, <3>2
  <2>3. CASE DriveSteps("callback")
    <3>1. drive["callback"].pc # "idle"
      BY <2>3 DEF DriveSteps, DriveAsksEnabled, DriveLoadsRead, DriveAsksLow, DriveClaims,
                  DriveTriggers
    <3>2. QED
      BY <1>2, <2>3, <3>1 DEF Callers
  <2>4. ASSUME NEW n \in 1 .. MaxCallback, Callback(n) PROVE PhaseInv'
    BY <2>4 DEF Callback, atomics, graph
  <2>5. QED
    BY <1>3, <2>1, <2>2, <2>3, <2>4 DEF ReaderSteps
<1>4. CASE MainSteps
  <2>1. CASE DriveSteps("main")
    BY <1>2, <2>1 DEF Callers
  <2>2. CASE StartEnables
    <3>1. /\ main.pc = "enable" /\ main'.pc = "idle" /\ drive_enabled' = TRUE
          /\ UNCHANGED <<streaming, writer, reader, triggered>>
      BY <2>2 DEF StartEnables, Mains, graph
    <3>2. drive'["callback"] = drive["callback"]
      BY <2>2 DEF StartEnables, Callers
    <3>3. QED
      BY <3>1, <3>2
  <2>3. CASE ClearLoads
    BY <2>3 DEF ClearLoads, atomics, graph
  <2>4. CASE ClearStores
    BY <2>4 DEF ClearStores, graph
  <2>5. CASE StartRenews
    BY <2>5 DEF StartRenews, Mains, graph
  <2>6. CASE PauseDisables
    BY <2>6 DEF PauseDisables, Mains, graph
  <2>7. CASE PauseForgets
    BY <2>7 DEF PauseForgets, Mains, graph
  <2>8. QED
    BY <1>4, <2>1, <2>2, <2>3, <2>4, <2>5, <2>6, <2>7 DEF MainSteps
<1>5. CASE StreamStarts
  BY <1>5 DEF StreamStarts, MainIdle, Mains, atomics
<1>6. CASE StreamPauses
  BY <1>6 DEF StreamPauses, MainIdle, Mains, atomics
<1>7. QED
  BY <1>1, <1>3, <1>4, <1>5, <1>6 DEF Next

\* A caller of maybe_trigger_process counts where it is.
LEMMA CallerAt ==
  ASSUME NEW c \in Callers, IInv, DriveSteps(c)
  PROVE  /\ UNCHANGED <<read_frame, write_frame, drive_enabled, buffer, streaming, starts,
                        writer, reader, main, history>>
         /\ \A o \in Callers : o # c => drive'[o] = drive[o]
         /\ \/ DriveAsksEnabled(c) /\ drive[c].pc = "enabled" /\ drive'[c].pc = "read"
                 /\ drive_enabled /\ UNCHANGED <<triggered, process_pending>>
            \/ drive[c].pc \in {"enabled", "low", "claim"} /\ drive'[c].pc = "idle"
                 /\ triggered' = triggered /\ process_pending' = process_pending
            \/ drive[c].pc = "read" /\ drive'[c].pc = "low" /\ drive'[c].read = read_frame
                 /\ UNCHANGED <<triggered, process_pending>>
            \/ DriveAsksLow(c) /\ drive[c].pc = "low" /\ drive'[c].pc = "claim"
                 /\ write_frame - drive[c].read <= LowWater
                 /\ UNCHANGED <<triggered, process_pending>>
            \/ drive[c].pc = "claim" /\ drive'[c].pc = "trigger" /\ ~process_pending
                 /\ triggered' = triggered /\ process_pending' = TRUE
            \/ drive[c].pc = "trigger" /\ drive'[c].pc = "idle"
                 /\ triggered' \in {triggered, triggered + 1} /\ process_pending' = process_pending
<1> USE DriveMoves
<1>0. \A o \in Callers : o # c => drive'[o] = drive[o]
  OBVIOUS
<1>1. CASE DriveAsksEnabled(c)
  <2>1. CASE drive_enabled
    BY <1>0, <1>1, <2>1 DEF DriveAsksEnabled, atomics, graph
  <2>2. CASE ~drive_enabled
    BY <1>0, <1>1, <2>2 DEF DriveAsksEnabled, atomics, graph
  <2>3. QED
    BY <2>1, <2>2
<1>2. CASE DriveLoadsRead(c)
  BY <1>0, <1>2 DEF DriveLoadsRead, atomics, graph
<1>3. CASE DriveAsksLow(c)
  <2>1. CASE write_frame - drive[c].read > LowWater
    BY <1>0, <1>3, <2>1 DEF DriveAsksLow, atomics, graph
  <2>2. CASE ~(write_frame - drive[c].read > LowWater)
    <3>1. write_frame - drive[c].read <= LowWater
      BY <2>2, LevelTypes, Quanta
    <3>2. QED
      BY <1>0, <1>3, <2>2, <3>1 DEF DriveAsksLow, atomics, graph
  <2>3. QED
    BY <2>1, <2>2
<1>4. CASE DriveClaims(c)
  <2>1. CASE process_pending
    <3>1. process_pending' = process_pending
      BY <1>4, <2>1, LevelTypes DEF DriveClaims
    <3>2. QED
      BY <1>0, <1>4, <2>1, <3>1 DEF DriveClaims, graph
  <2>2. CASE ~process_pending
    BY <1>0, <1>4, <2>2 DEF DriveClaims, graph
  <2>3. QED
    BY <2>1, <2>2
<1>5. CASE DriveTriggers(c)
  BY <1>0, <1>5 DEF DriveTriggers, atomics, graph
<1>6. QED
  BY <1>1, <1>2, <1>3, <1>4, <1>5 DEF DriveSteps

\* One step of the data thread.
LEMMA WriterAt ==
  ASSUME IInv, PhaseInv, WriterSteps
  PROVE  /\ UNCHANGED <<drive_enabled, ring_frames, streaming, starts, reader, main, drive, undone>>
         /\ \/ /\ WriteMakesRoom /\ writer.pc = "fill" /\ RingFull
               /\ writer'.pc = "fill" /\ writer'.write = writer.write
               /\ writer'.left = writer.left /\ writer'.read = writer.read + 1
               /\ UNCHANGED <<write_frame, process_pending, triggered, ring>>
            \/ /\ WriteFills /\ writer.pc = "fill" /\ ~RingFull
               /\ writer'.write = writer.write + 1 /\ writer'.left = writer.left - 1
               /\ writer'.read = writer.read
               /\ writer'.pc = IF writer.left = 1 THEN "publish" ELSE "fill"
               /\ UNCHANGED <<read_frame, write_frame, process_pending, triggered>>
            \/ /\ writer.pc = "publish" /\ writer'.pc = "answer" /\ write_frame' = writer.write
               /\ UNCHANGED <<read_frame, process_pending, triggered, ring>>
            \/ /\ writer.pc = "answer" /\ writer'.pc = "idle" /\ process_pending' = FALSE
               /\ UNCHANGED <<read_frame, write_frame, triggered, ring>>
            \/ /\ triggered > 0 /\ triggered' = triggered - 1 /\ writer.pc = "idle"
               /\ writer' = writer
               /\ UNCHANGED <<read_frame, write_frame, process_pending, ring>>
            \/ /\ triggered > 0 /\ triggered' = triggered - 1 /\ writer.pc = "idle"
               /\ writer'.pc = "answer"
               /\ UNCHANGED <<read_frame, write_frame, process_pending, ring>>
            \/ /\ triggered > 0 /\ triggered' = triggered - 1 /\ writer.pc = "idle"
               /\ writer'.pc = "fill" /\ writer'.read = read_frame
               /\ writer'.write = write_frame /\ writer'.left \in 1 .. MaxQuantum
               /\ UNCHANGED <<read_frame, write_frame, process_pending, ring>>
<1> DEFINE Same == UNCHANGED <<drive_enabled, ring_frames, streaming, starts, reader, main,
                               drive, undone>>
<1>0. writer \in Writers
  BY LevelTypes
<1>1. CASE WriteMakesRoom
  BY <1>0, <1>1 DEF WriteMakesRoom, Writers, graph
<1>2. CASE WriteFills
  <2>1. /\ writer'.write = writer.write + 1 /\ writer'.left = writer.left - 1
        /\ writer'.read = writer.read
        /\ writer'.pc = IF writer.left = 1 THEN "publish" ELSE "fill"
    BY <1>0, <1>2 DEF WriteFills, Writers
  <2>2. QED
    BY <1>2, <2>1 DEF WriteFills, atomics, graph
<1>3. CASE WritePublishes
  BY <1>3 DEF WritePublishes, graph
<1>4. CASE ProcessAnswers
  BY <1>0, <1>4 DEF ProcessAnswers, Writers, graph
<1>5. CASE ProcessStarves
  BY <1>5 DEF ProcessStarves, atomics, threads
<1>6. ASSUME NEW n \in 0 .. MaxQuantum, Process(n)
      PROVE  /\ Same
             /\ triggered > 0 /\ triggered' = triggered - 1 /\ writer.pc = "idle"
             /\ UNCHANGED <<read_frame, write_frame, process_pending, ring>>
             /\ \/ writer'.pc = "answer"
                \/ /\ writer'.pc = "fill" /\ writer'.read = read_frame
                   /\ writer'.write = write_frame /\ writer'.left \in 1 .. MaxQuantum
  <2>1. /\ Same
        /\ triggered > 0 /\ triggered' = triggered - 1 /\ writer.pc = "idle"
        /\ UNCHANGED <<read_frame, write_frame, process_pending, ring>>
    BY <1>6 DEF Process, atomics
  <2>2. CASE n = 0
    <3>1. writer' = [writer EXCEPT !.pc = "answer"]
      BY <1>6, <2>2 DEF Process
    <3>2. writer'.pc = "answer"
      BY <1>0, <3>1 DEF Writers
    <3>3. QED
      BY <2>1, <3>2
  <2>3. CASE n # 0
    <3>1. n \in 1 .. MaxQuantum
      BY <1>6, <2>3, Quanta
    <3>2. writer' = [pc |-> "fill", read |-> read_frame, write |-> write_frame, left |-> n]
      BY <1>6, <2>3 DEF Process
    <3>3. QED
      BY <2>1, <3>1, <3>2
  <2>4. QED
    BY <2>2, <2>3
<1>7. CASE \E n \in 0 .. MaxQuantum : Process(n)
  BY <1>6, <1>7
<1>8. QED
  BY <1>1, <1>2, <1>3, <1>4, <1>5, <1>7 DEF WriterSteps

\* One step of the callback's thread outside maybe_trigger_process.
LEMMA ReaderAt ==
  ASSUME IInv, PhaseInv, ReaderSteps, ~DriveSteps("callback")
  PROVE  /\ UNCHANGED <<write_frame, drive_enabled, process_pending, ring_frames, ring,
                        triggered, streaming, starts, writer, main, undone>>
         /\ drive["callback"].pc = "idle" /\ drive'["main"] = drive["main"]
         /\ \/ /\ reader.pc \in {"load", "copy"} /\ reader'.pc # "idle"
               /\ reader'.read >= reader.read
               /\ UNCHANGED <<read_frame, drive>>
            \/ /\ reader.pc = "store" /\ reader'.pc = "idle" /\ read_frame' = reader.read
               /\ drive'["callback"].pc = "enabled"
            \/ /\ reader.pc = "idle" /\ reader'.read = read_frame
               /\ UNCHANGED <<read_frame, drive>>
<1> USE LevelTypes
<1>0. reader.read \in Nat
  OBVIOUS
<1>1. CASE ReadLoads
  BY <1>0, <1>1 DEF ReadLoads, Readers, PhaseInv, atomics, graph
<1>2. CASE ReadCopies
  <2>1. reader'.read = reader.read + 1 /\ reader'.pc # "idle"
    BY <1>2 DEF ReadCopies, Readers
  <2>2. QED
    BY <1>0, <1>2, <2>1 DEF ReadCopies, PhaseInv, atomics, graph
<1>3. CASE ReadStores
  <2>1. drive'["callback"].pc = "enabled" /\ drive'["main"] = drive["main"]
    BY <1>3 DEF ReadStores, Drives, Callers
  <2>2. QED
    BY <1>3, <2>1 DEF ReadStores, PhaseInv, graph
<1>4. ASSUME NEW n \in 1 .. MaxCallback, Callback(n)
      PROVE  /\ UNCHANGED <<write_frame, drive_enabled, process_pending, ring_frames, ring,
                            triggered, streaming, starts, writer, main, undone>>
             /\ drive["callback"].pc = "idle" /\ drive'["main"] = drive["main"]
             /\ reader.pc = "idle" /\ reader'.read = read_frame
             /\ UNCHANGED <<read_frame, drive>>
  BY <1>4 DEF Callback, atomics, graph
<1>5. CASE \E n \in 1 .. MaxCallback : Callback(n)
  BY <1>4, <1>5
<1>6. QED
  BY <1>1, <1>2, <1>3, <1>5 DEF ReaderSteps

\* One step of the main loop outside maybe_trigger_process.
LEMMA MainAt ==
  ASSUME IInv, PhaseInv, MainSteps \/ StreamStarts \/ StreamPauses, ~DriveSteps("main")
  PROVE  /\ UNCHANGED <<write_frame, ring_frames, ring, writer, reader>>
         /\ drive["main"].pc = "idle" /\ drive'["callback"] = drive["callback"]
         /\ main.pc # "clear" => UNCHANGED <<read_frame, undone>>
         /\ main'.pc # "disable" => triggered' = triggered
         /\ main.pc # "enable" => drive' = drive
         /\ \/ /\ main.pc = "load" /\ main'.pc = "clear" /\ main'.seen = write_frame
               /\ process_pending' = process_pending
            \/ /\ main.pc = "clear" /\ main'.pc = "renew" /\ read_frame' = main.seen
               /\ undone' = IF reader.pc # "idle" /\ reader.read < main.seen THEN undone + 1
                            ELSE IF writer.pc = "idle" THEN 0 ELSE undone
               /\ process_pending' = process_pending
            \/ main.pc = "renew" /\ main'.pc = "enable" /\ process_pending' = FALSE
            \/ /\ main.pc = "enable" /\ main'.pc = "idle" /\ drive'["main"].pc = "enabled"
               /\ UNCHANGED <<read_frame, process_pending>>
            \/ main.pc = "disable" /\ main'.pc = "forget" /\ process_pending' = process_pending
            \/ main.pc = "forget" /\ main'.pc = "idle" /\ process_pending' = FALSE
            \/ /\ StreamStarts /\ main.pc = "idle" /\ ~streaming /\ main'.pc = "load"
               /\ process_pending' = process_pending
            \/ /\ StreamPauses /\ main.pc = "idle" /\ main'.pc = "disable"
               /\ writer.pc = "idle" /\ triggered' = 0 /\ process_pending' = process_pending
<1> USE LevelTypes
<1>1. CASE ClearLoads
  BY <1>1 DEF ClearLoads, PhaseInv, atomics, graph
<1>2. CASE ClearStores
  BY <1>2 DEF ClearStores, PhaseInv, graph
<1>3. CASE StartRenews
  BY <1>3 DEF StartRenews, PhaseInv, Mains, graph
<1>4. CASE StartEnables
  <2>1. drive'["main"].pc = "enabled" /\ drive'["callback"] = drive["callback"]
    BY <1>4 DEF StartEnables, Drives, Callers
  <2>2. QED
    BY <1>4, <2>1 DEF StartEnables, PhaseInv, Mains, graph
<1>5. CASE PauseDisables
  BY <1>5 DEF PauseDisables, PhaseInv, Mains, graph
<1>6. CASE PauseForgets
  BY <1>6 DEF PauseForgets, PhaseInv, Mains, graph
<1>7. CASE StreamStarts
  <2>1. main'.pc = "load"
    BY <1>7 DEF StreamStarts, Mains
  <2>2. QED
    BY <1>7, <2>1 DEF StreamStarts, MainIdle, PhaseInv, atomics
<1>8. CASE StreamPauses
  <2>1. main'.pc = "disable"
    BY <1>8 DEF StreamPauses, Mains
  <2>2. QED
    BY <1>8, <2>1 DEF StreamPauses, MainIdle, PhaseInv, atomics
<1>9. QED
  BY <1>1, <1>2, <1>3, <1>4, <1>5, <1>6, <1>7, <1>8 DEF MainSteps

\* At most one cycle is claimed at a time, and one the flag was made to forget.
LEMMA StepCycle == ASSUME IInv, PhaseInv, CycleInv, Next PROVE CycleInv'
<1>0. triggered \in Nat /\ process_pending \in BOOLEAN
  BY LevelTypes
<1>1. CASE WriterSteps
  <2>1. UNCHANGED <<main, drive>>
    BY <1>1, WriterAt
  <2>2. \/ UNCHANGED <<process_pending, triggered>> /\ Busy' = Busy
        \/ process_pending' = FALSE /\ triggered' = triggered /\ Busy = 1 /\ Busy' = 0
        \/ /\ process_pending' = process_pending /\ triggered > 0 /\ triggered' = triggered - 1
           /\ Busy = 0 /\ Busy' \in {0, 1}
    BY <1>1, WriterAt DEF Busy
  <2>3. Busy \in {0, 1}
    BY DEF Busy
  <2>7. QED
    BY <1>0, <2>1, <2>2, <2>3 DEF CycleInv, Cycles, At
<1>2. ASSUME NEW c \in Callers, DriveSteps(c) PROVE CycleInv'
  <2>1. Busy' = Busy /\ main' = main /\ Busy \in {0, 1}
    BY <1>2, CallerAt DEF Busy
  <2>2. \A o \in Callers : o # c => drive'[o] = drive[o]
    BY <1>2, CallerAt
  <2>3. main.pc \in {"load", "clear", "renew"} => ~drive_enabled /\ drive["main"].pc = "idle"
    BY DEF PhaseInv
  <2>4. drive'[c].pc = "read" => drive_enabled
    BY <1>2, CallerAt
  <2>5. \/ /\ triggered' = triggered /\ process_pending' = process_pending
           /\ drive[c].pc \in {"enabled", "read", "low", "claim"}
           /\ drive'[c].pc \in {"read", "low", "claim", "idle"}
           /\ drive[c].pc = "enabled" => drive'[c].pc \in {"idle", "read"}
        \/ /\ drive[c].pc = "claim" /\ drive'[c].pc = "trigger" /\ ~process_pending
           /\ triggered' = triggered /\ process_pending' = TRUE
        \/ /\ drive[c].pc = "trigger" /\ drive'[c].pc = "idle"
           /\ triggered' \in {triggered, triggered + 1} /\ process_pending' = process_pending
    BY <1>2, CallerAt
  <2>6. CASE c = "callback"
    BY <1>0, <2>1, <2>2, <2>3, <2>4, <2>5, <2>6 DEF CycleInv, Cycles, At, Callers
  <2>7. CASE c = "main"
    BY <1>0, <2>1, <2>2, <2>3, <2>4, <2>5, <2>7 DEF CycleInv, Cycles, At, Callers
  <2>8. QED
    BY <2>6, <2>7 DEF Callers
<1>3. CASE ReaderSteps /\ ~DriveSteps("callback")
  <2>1. /\ UNCHANGED <<process_pending, triggered, writer, main>>
        /\ drive'["main"] = drive["main"] /\ drive["callback"].pc = "idle"
        /\ drive'["callback"].pc \in {"idle", "enabled"}
    BY <1>3, ReaderAt
  <2>2. QED
    BY <1>0, <2>1 DEF CycleInv, Cycles, Busy, At
<1>4. CASE (MainSteps \/ StreamStarts \/ StreamPauses) /\ ~DriveSteps("main")
  <2>1. /\ writer' = writer /\ drive'["callback"] = drive["callback"]
        /\ drive["main"].pc = "idle" /\ drive'["main"].pc \in {"idle", "enabled"}
        /\ triggered' = triggered \/ triggered' = 0
    BY <1>4, MainAt
  <2>2. \/ main'.pc \notin {"load", "clear", "renew"} /\ process_pending' = process_pending
        \/ main'.pc \notin {"load", "clear", "renew"} /\ process_pending' = FALSE
             /\ main.pc \in {"renew", "forget"}
        \/ main.pc \in {"load", "clear"} /\ process_pending' = process_pending
        \/ main.pc = "idle" /\ ~streaming /\ process_pending' = process_pending
    BY <1>4, MainAt
  <2>3. ~streaming => triggered = 0 /\ writer.pc = "idle"
    BY DEF PhaseInv
  <2>4. main.pc = "forget" => ~streaming
    BY DEF PhaseInv
  <2>5. QED
    BY <1>0, <2>1, <2>2, <2>3, <2>4 DEF CycleInv, Cycles, Busy, At
<1>5. QED
  BY <1>1, <1>2, <1>3, <1>4 DEF Next, ReaderSteps, MainSteps, Callers

LEMMA StepFill == ASSUME IInv, PhaseInv, FillInv, Next PROVE FillInv'
<1>0. /\ {write_frame, writer.write, writer.left, MaxQuantum} \subseteq Nat
      /\ writer.pc = "fill" => writer.left > 0
  <2>1. {write_frame, writer.write, MaxQuantum} \subseteq Nat /\ writer.left \in 0 .. MaxQuantum
    BY LevelTypes, Quanta
  <2>2. writer.left \in Nat
    BY <2>1
  <2>3. writer.pc = "fill" => writer.left > 0
    BY DEF IInv, FramesLeft
  <2>4. QED
    BY <2>1, <2>2, <2>3
<1>1. CASE WriterSteps
  <2>1. \/ /\ writer.pc = "fill" /\ write_frame' = write_frame
           /\ writer'.pc = "fill" /\ writer'.write = writer.write /\ writer'.left = writer.left
        \/ /\ writer.pc = "fill" /\ write_frame' = write_frame
           /\ writer'.pc = IF writer.left = 1 THEN "publish" ELSE "fill"
           /\ writer'.write = writer.write + 1 /\ writer'.left = writer.left - 1
        \/ writer'.pc \notin {"fill", "publish"}
        \/ /\ writer'.pc = "fill" /\ write_frame' = write_frame
           /\ writer'.write = write_frame /\ writer'.left \in 1 .. MaxQuantum
    BY <1>1, WriterAt
  <2>2. QED
    BY <1>0, <2>1 DEF FillInv
<1>2. CASE ~WriterSteps
  <2>1. UNCHANGED <<writer, write_frame>>
    BY <1>2, CallerAt, ReaderAt, MainAt DEF Next, ReaderSteps, MainSteps, Callers
  <2>2. QED
    BY <2>1 DEF FillInv
<1>3. QED
  BY <1>1, <1>2

LEMMA QuantumTimes ==
  ASSUME NEW m \in Nat, NEW n \in Nat
  PROVE  /\ MaxQuantum * n \in Nat
         /\ MaxQuantum * (n + 1) = MaxQuantum * n + MaxQuantum
         /\ m <= n => MaxQuantum * m <= MaxQuantum * n
         /\ m + 1 <= n => MaxQuantum * m + MaxQuantum <= MaxQuantum * n
<1>1. \A k \in Nat : k <= n => MaxQuantum * k <= MaxQuantum * n
  BY Quanta
<1>2. m + 1 <= n => MaxQuantum * (m + 1) <= MaxQuantum * n
  BY <1>1
<1>3. QED
  BY <1>1, <1>2, Quanta

LEMMA DueType ==
  ASSUME IInv'
  PROVE  Reach' \in Nat /\ Orders' \in Nat /\ Due' \in Nat
<1>1. Orders' \in Nat
  <2>1. triggered' \in Nat
    BY DEF IInv, TypeOK
  <2>2. MainAsks' \in {0, 1}
    BY DEF MainAsks
  <2>3. /\ At("callback", {"claim", "trigger"})' \in {0, 1}
        /\ At("main", {"claim", "trigger"})' \in {0, 1}
    BY DEF At
  <2>4. QED
    BY <2>1, <2>2, <2>3 DEF Orders
<1>2. Reach' \in Nat
  <2>1. write_frame' \in Nat /\ writer'.write \in Nat /\ writer'.left \in 0 .. MaxQuantum
    BY DEF IInv, TypeOK, Writers
  <2>2. QED
    BY <2>1, Quanta DEF Reach
<1>3. Due' = Reach' + MaxQuantum * Orders'
  BY DEF Due
<1>4. MaxQuantum * Orders' \in Nat
  BY <1>1, Quanta
<1>5. QED
  BY <1>1, <1>2, <1>3, <1>4

\* How what is due follows the frames in hand and the cycles ordered.
LEMMA DueFollows ==
  ASSUME IInv, IInv', NEW q \in {0, MaxQuantum}, Reach' <= Reach + q
  PROVE  /\ Due' \in Nat /\ Reach' <= Due'
         /\ Orders' <= Orders => Due' <= Due + q
         /\ Orders' + 1 <= Orders => Due' <= Due
         /\ Orders' = Orders + 1 => Due' <= Due + q + MaxQuantum
<1>1. PICK r \in Nat, o \in Nat : r = Reach /\ o = Orders
  BY LevelTypes
<1>2. PICK r2 \in Nat, o2 \in Nat : r2 = Reach' /\ o2 = Orders'
  BY DueType
<1>3. PICK old \in Nat : old = MaxQuantum * o
  BY QuantumTimes
<1>4. PICK new \in Nat : new = MaxQuantum * o2
  BY QuantumTimes
<1>5. Due = r + old
  BY <1>1, <1>3 DEF Due
<1>6. Due' = r2 + new
  BY <1>2, <1>4 DEF Due
<1>7. /\ o2 <= o => new <= old
      /\ o2 + 1 <= o => new + MaxQuantum <= old
      /\ o2 = o + 1 => new = old + MaxQuantum
  BY <1>3, <1>4, QuantumTimes
<1>8. q \in Nat /\ q <= MaxQuantum /\ MaxQuantum \in Nat /\ r2 <= r + q
  BY <1>1, <1>2, Quanta
<1>9. /\ r2 + new \in Nat /\ r2 <= r2 + new
      /\ o2 <= o => r2 + new <= r + old + q
      /\ o2 + 1 <= o => r2 + new <= r + old
      /\ o2 = o + 1 => r2 + new <= r + old + q + MaxQuantum
  BY <1>7, <1>8
<1>10. QED
  BY <1>1, <1>2, <1>5, <1>6, <1>9

\* A cycle writes what was due for it, or less.
LEMMA WriterDue == ASSUME IInv, IInv', PhaseInv, WriterSteps PROVE Due' <= Due
<1>1. UNCHANGED <<main, drive>> /\ MaxQuantum \in Nat \ {0}
  BY WriterAt, Quanta
<1>2. /\ {write_frame, writer.write, writer.left, triggered} \subseteq Nat
      /\ writer.left <= MaxQuantum
  BY LevelTypes, Quanta
<1>3. CASE /\ triggered > 0 /\ triggered' = triggered - 1 /\ writer.pc = "idle"
           /\ write_frame' = write_frame
           /\ \/ writer'.pc \in {"idle", "answer"}
              \/ /\ writer'.pc = "fill" /\ writer'.write = write_frame
                 /\ writer'.left \in 1 .. MaxQuantum
  <2>1. Reach' <= Reach + MaxQuantum
    BY <1>1, <1>2, <1>3 DEF Reach
  <2>2. Orders' + 1 <= Orders
    BY <1>1, <1>2, <1>3 DEF Orders, At, MainAsks
  <2>3. QED
    BY <2>1, <2>2, DueFollows
<1>4. CASE /\ triggered' = triggered
           /\ \/ /\ writer.pc = "fill" /\ write_frame' = write_frame
                 /\ writer'.pc = "fill" /\ writer'.write = writer.write
                 /\ writer'.left = writer.left
              \/ /\ writer.pc = "fill" /\ write_frame' = write_frame
                 /\ writer'.pc = IF writer.left = 1 THEN "publish" ELSE "fill"
                 /\ writer'.write = writer.write + 1 /\ writer'.left = writer.left - 1
              \/ writer.pc = "publish" /\ writer'.pc = "answer" /\ write_frame' = writer.write
              \/ writer.pc = "answer" /\ writer'.pc = "idle" /\ write_frame' = write_frame
  <2>1. Reach' = Reach
    BY <1>2, <1>4 DEF Reach
  <2>2. Orders' = Orders
    BY <1>1, <1>4 DEF Orders, At, MainAsks
  <2>3. Reach' <= Reach + 0 /\ Orders' <= Orders /\ Due \in Nat
    BY <2>1, <2>2, LevelTypes
  <2>4. QED
    BY <2>3, DueFollows
<1>5. QED
  BY <1>3, <1>4, WriterAt

\* Nothing else writes, and only a callback that finds the level low orders more.
LEMMA DriveDue ==
  ASSUME NEW c \in Callers, IInv, IInv', PhaseInv, DriveSteps(c)
  PROVE  \/ Due' <= Due
         \/ /\ c = "callback" /\ drive[c].pc = "low" /\ drive'[c].pc = "claim"
            /\ Due' <= Due + MaxQuantum
<1>1. UNCHANGED <<write_frame, writer, main>> /\ triggered \in Nat /\ Due \in Nat
  BY CallerAt, LevelTypes
<1>2. Reach' = Reach /\ Reach \in Nat
  BY <1>1, LevelTypes DEF Reach
<1>3. Reach' <= Reach + 0
  BY <1>2
<1>4. \A o \in Callers : o # c => drive'[o] = drive[o]
  BY CallerAt
<1>5. \/ /\ triggered' = triggered
         /\ \/ drive[c].pc = "enabled" /\ drive'[c].pc = "read"
            \/ drive[c].pc \in {"enabled", "low", "claim"} /\ drive'[c].pc = "idle"
            \/ drive[c].pc = "read" /\ drive'[c].pc = "low"
            \/ drive[c].pc = "low" /\ drive'[c].pc = "claim"
            \/ drive[c].pc = "claim" /\ drive'[c].pc = "trigger"
      \/ /\ triggered' \in {triggered, triggered + 1}
         /\ drive[c].pc = "trigger" /\ drive'[c].pc = "idle"
  BY CallerAt
<1>6. CASE c = "main"
  <2>1. main.pc = "idle"
    BY <1>5, <1>6, LevelTypes DEF PhaseInv, Mains
  <2>2. Orders' <= Orders
    BY <1>1, <1>4, <1>5, <1>6, <2>1 DEF Orders, At, MainAsks, Callers
  <2>3. QED
    BY <1>1, <1>3, <2>2, DueFollows
<1>7. CASE c = "callback"
  <2>1. drive'["main"] = drive["main"] /\ MainAsks' = MainAsks /\ MainAsks \in {0, 1}
    BY <1>1, <1>4, <1>7 DEF MainAsks, Callers
  <2>2. CASE drive[c].pc = "low" /\ drive'[c].pc = "claim"
    <3>1. Orders' = Orders + 1
      BY <1>1, <1>5, <1>7, <2>1, <2>2 DEF Orders, At
    <3>2. QED
      BY <1>1, <1>3, <1>7, <2>2, <3>1, DueFollows, Quanta
  <2>3. CASE ~(drive[c].pc = "low" /\ drive'[c].pc = "claim")
    <3>1. Orders' <= Orders
      BY <1>1, <1>5, <1>7, <2>1, <2>3 DEF Orders, At
    <3>2. QED
      BY <1>1, <1>3, <3>1, DueFollows
  <2>4. QED
    BY <2>2, <2>3
<1>8. QED
  BY <1>6, <1>7 DEF Callers

LEMMA ReaderDue ==
  ASSUME IInv, IInv', PhaseInv, ReaderSteps, ~DriveSteps("callback") PROVE Due' <= Due
<1>1. /\ UNCHANGED <<write_frame, writer, main, triggered>>
      /\ drive'["main"] = drive["main"] /\ drive["callback"].pc = "idle"
      /\ drive'["callback"].pc \in {"idle", "enabled"}
  BY ReaderAt
<1>2. Reach' = Reach /\ Orders' = Orders
  BY <1>1 DEF Reach, Orders, MainAsks, At
<1>3. QED
  BY <1>2, LevelTypes DEF Due

\* A clear gives the main loop one cycle to ask for.
LEMMA MainDue ==
  ASSUME IInv, IInv', PhaseInv, MainSteps \/ StreamStarts \/ StreamPauses, ~DriveSteps("main")
  PROVE  \/ Due' <= Due
         \/ main.pc = "clear" /\ Due' <= Due + MaxQuantum
<1>1. /\ UNCHANGED <<write_frame, writer>> /\ drive'["callback"] = drive["callback"]
      /\ drive["main"].pc = "idle" /\ triggered' \in {triggered, 0} /\ triggered \in Nat
      /\ main.pc # "enable" => drive' = drive
  BY MainAt, LevelTypes
<1>2. \/ main.pc = "load" /\ main'.pc = "clear"
      \/ main.pc = "clear" /\ main'.pc = "renew" /\ triggered' = triggered
      \/ main.pc = "renew" /\ main'.pc = "enable"
      \/ main.pc = "enable" /\ main'.pc = "idle" /\ drive'["main"].pc = "enabled"
      \/ main.pc = "disable" /\ main'.pc = "forget"
      \/ main.pc = "forget" /\ main'.pc = "idle"
      \/ main.pc = "idle" /\ main'.pc = "load"
      \/ main.pc = "idle" /\ main'.pc = "disable"
  BY MainAt
<1>3. Reach' = Reach /\ Reach \in Nat /\ Due \in Nat
  BY <1>1, LevelTypes DEF Reach
<1>4. Reach' <= Reach + 0
  BY <1>3
<1>5. CASE main.pc = "clear"
  <2>1. Orders' = Orders + 1
    BY <1>1, <1>2, <1>5 DEF Orders, At, MainAsks
  <2>2. QED
    BY <1>3, <1>4, <1>5, <2>1, DueFollows, Quanta
<1>6. CASE main.pc # "clear"
  <2>0. MainAsks' <= MainAsks /\ MainAsks \in {0, 1} /\ MainAsks' \in {0, 1}
    BY <1>1, <1>2, <1>6 DEF MainAsks
  <2>a. /\ At("main", {"claim", "trigger"})' = 0 /\ At("main", {"claim", "trigger"}) = 0
        /\ At("callback", {"claim", "trigger"})' = At("callback", {"claim", "trigger"})
        /\ At("callback", {"claim", "trigger"}) \in {0, 1}
    BY <1>1, <1>2 DEF At
  <2>1. Orders' <= Orders
    BY <1>1, <2>0, <2>a DEF Orders
  <2>2. QED
    BY <1>3, <1>4, <2>1, DueFollows
<1>7. QED
  BY <1>5, <1>6

\* What the data thread has in its hands is within a quantum of what is published.
LEMMA ReachBound ==
  ASSUME IInv, FillInv
  PROVE  Reach <= write_frame + MaxQuantum * Busy
<1>1. /\ {write_frame, writer.write, writer.left} \subseteq Nat
      /\ MaxQuantum \in Nat /\ MaxQuantum * 0 = 0 /\ MaxQuantum * 1 = MaxQuantum
  BY LevelTypes, Quanta
<1>2. CASE writer.pc = "idle"
  BY <1>1, <1>2 DEF Reach, Busy
<1>3. CASE writer.pc # "idle"
  BY <1>1, <1>3 DEF Reach, Busy, FillInv
<1>4. QED
  BY <1>2, <1>3

LEMMA StepSeen ==
  ASSUME IInv, IInv', PhaseInv, CycleInv, FillInv, SeenInv, Next PROVE SeenInv'
<1> DEFINE Early == At("callback", {"read", "low"})
<1> SUFFICES ASSUME main'.pc = "clear"
             PROVE  Due' + MaxQuantum * Early' <= main'.seen + MaxQuantum
  BY DEF SeenInv
<1>0. /\ {write_frame, main.seen, triggered, Reach, Due} \subseteq Nat
      /\ MaxQuantum \in Nat \ {0} /\ MaxQuantum * 0 = 0 /\ MaxQuantum * 1 = MaxQuantum
  BY LevelTypes, Quanta
<1>e. Early \in {0, 1} /\ Early' \in {0, 1}
  BY DEF At
<1>p. main.pc = "clear" =>
        /\ ~drive_enabled /\ drive["main"].pc = "idle"
        /\ Due + MaxQuantum * Early <= main.seen + MaxQuantum
  BY DEF PhaseInv, SeenInv
<1>d. Due' \in Nat
  BY DueType
<1>1. CASE WriterSteps
  <2>1. main' = main /\ Early' = Early
    BY <1>1, WriterAt DEF At
  <2>2. Due' <= Due
    BY <1>1, WriterDue
  <2>3. QED
    BY <1>0, <1>e, <1>p, <1>d, <2>1, <2>2
<1>2. ASSUME NEW c \in Callers, DriveSteps(c)
      PROVE  Due' + MaxQuantum * Early' <= main'.seen + MaxQuantum
  <2>1. main' = main
    BY <1>2, CallerAt
  <2>2. c = "callback" /\ drive[c].pc # "idle"
    BY <1>2, <1>p, <2>1, CallerAt DEF Callers
  <2>3. drive'[c].pc # "read"
    BY <1>2, <1>p, <2>1, CallerAt
  <2>4. drive'[c].pc = "low" => drive[c].pc = "read"
    BY <1>2, CallerAt
  <2>5. CASE Due' <= Due
    <3>1. Early' <= Early
      BY <2>2, <2>3, <2>4 DEF At
    <3>2. QED
      BY <1>0, <1>e, <1>p, <1>d, <2>1, <2>5, <3>1
  <2>6. CASE drive[c].pc = "low" /\ drive'[c].pc = "claim" /\ Due' <= Due + MaxQuantum
    <3>1. Early = 1 /\ Early' = 0
      BY <2>2, <2>6 DEF At
    <3>2. QED
      BY <1>0, <1>p, <1>d, <2>1, <2>6, <3>1
  <2>7. QED
    BY <1>2, <2>5, <2>6, DriveDue
<1>3. CASE ReaderSteps /\ ~DriveSteps("callback")
  <2>1. main' = main /\ Early' = Early
    BY <1>3, ReaderAt DEF At
  <2>2. Due' <= Due
    BY <1>3, ReaderDue
  <2>3. QED
    BY <1>0, <1>e, <1>p, <1>d, <2>1, <2>2
<1>4. CASE (MainSteps \/ StreamStarts \/ StreamPauses) /\ ~DriveSteps("main")
  <2>1. /\ main.pc = "load" /\ main'.seen = write_frame
        /\ drive["main"].pc = "idle" /\ drive' = drive
    BY <1>4, MainAt
  <2>2. Due' <= Due /\ Early' = Early
    BY <1>4, <2>1, MainDue DEF At
  <2>3. Orders + Busy + Early <= 1
    BY <1>0, <2>1 DEF CycleInv, Cycles, Orders, MainAsks, Busy, At
  <2>4. Due + MaxQuantum * Early <= write_frame + MaxQuantum
    <3>1. Orders \in {0, 1} /\ Busy \in {0, 1}
      BY <1>e, <2>3, LevelTypes
    <3>2. Due = Reach + MaxQuantum * Orders
      BY DEF Due
    <3>3. Reach <= write_frame + MaxQuantum * Busy
      BY ReachBound
    <3>4. QED
      BY <1>0, <1>e, <2>3, <3>1, <3>2, <3>3
  <2>5. QED
    BY <1>0, <1>e, <1>d, <2>1, <2>2, <2>4
<1>5. QED
  BY <1>1, <1>2, <1>3, <1>4 DEF Next, ReaderSteps, MainSteps, Callers

\* The history only ever gives the ring more to hold.
LEMMA EnoughGrows ==
  ASSUME IInv, IInv', undone' \in {undone, undone + 1}
  PROVE  /\ Enough \in Nat /\ Enough' \in Nat /\ Enough <= Enough'
         /\ LowWater + 4 * MaxQuantum <= Enough
         /\ undone' = undone + 1 => Enough' = Enough + MaxQuantum
<1>1. undone \in Nat /\ MaxQuantum \in Nat
  BY LevelTypes, Quanta
<1>2. CASE undone' = undone
  <2>1. Enough' = Enough
    BY <1>1, <1>2, EnoughType
  <2>2. Enough \in Nat /\ LowWater + 4 * MaxQuantum <= Enough
    BY <1>1, EnoughType
  <2>3. undone' # undone + 1
    BY <1>1, <1>2
  <2>4. QED
    BY <2>1, <2>2, <2>3
<1>3. CASE undone' = undone + 1
  <2>1. Enough' = Enough + MaxQuantum
    BY <1>1, <1>3, EnoughType
  <2>2. Enough \in Nat /\ LowWater + 4 * MaxQuantum <= Enough
    BY <1>1, EnoughType
  <2>3. Enough + MaxQuantum \in Nat /\ Enough <= Enough + MaxQuantum
    BY <1>1, <2>2
  <2>4. QED
    BY <2>1, <2>2, <2>3
<1>4. QED
  BY <1>2, <1>3

\* RoomInv, of a ring that is large enough.
Room ==
  /\ Due <= read_frame + Enough
  /\ reader.pc # "idle" => Due <= reader.read + Enough
  /\ writer.pc = "fill" => writer.write + writer.left <= writer.read + Enough
  /\ drive["callback"].pc = "low" =>
       \/ drive["callback"].read <= read_frame
       \/ Due + MaxQuantum <= read_frame + Enough

LEMMA WriterRoom ==
  ASSUME IInv, IInv', PhaseInv, Room, ring_frames >= Enough, WriterSteps PROVE Room'
<1>1. PICK due \in Nat, due2 \in Nat, e \in Nat :
        due = Due /\ due2 = Due' /\ e = Enough /\ e = Enough' /\ due2 <= due
  <2>1. undone' = undone /\ undone \in Nat
    BY WriterAt, LevelTypes
  <2>2. Enough' = Enough /\ Enough \in Nat
    BY <2>1, EnoughType
  <2>3. Due \in Nat /\ Due' \in Nat /\ Due' <= Due
    BY LevelTypes, DueType, WriterDue
  <2>4. QED
    BY <2>2, <2>3
<1>2. /\ UNCHANGED <<reader, drive>>
      /\ {read_frame, write_frame, reader.read} \subseteq Nat
      /\ {writer.read, writer.write, writer.left} \subseteq Nat
      /\ ring_frames \in Nat /\ MaxQuantum \in Nat /\ ring_frames >= e
  BY <1>1, WriterAt, LevelTypes, Quanta
<1>3. /\ due <= read_frame + e
      /\ reader.pc # "idle" => due <= reader.read + e
      /\ writer.pc = "fill" => writer.write + writer.left <= writer.read + e
      /\ drive["callback"].pc = "low" =>
           drive["callback"].read <= read_frame \/ due + MaxQuantum <= read_frame + e
  BY <1>1 DEF Room
<1>4. ~(writer.pc = "fill" /\ RingFull)
  <2>1. writer.pc = "fill" => writer.left > 0
    BY DEF IInv, FramesLeft
  <2>2. QED
    BY <1>2, <1>3, <2>1 DEF RingFull
<1>5. read_frame' = read_frame
  BY <1>4, WriterAt
<1>6. writer'.pc = "fill" => writer'.write + writer'.left <= writer'.read + e
  <2>1. CASE writer.pc = "fill"
    <3>1. /\ writer'.write = writer.write + 1 /\ writer'.left = writer.left - 1
          /\ writer'.read = writer.read
      BY <1>4, <2>1, WriterAt
    <3>2. QED
      BY <1>2, <1>3, <2>1, <3>1
  <2>2. CASE writer.pc # "fill" /\ writer'.pc = "fill"
    <3>1. PICK r2 \in Nat, o2 \in Nat : r2 = Reach' /\ o2 = Orders'
      BY DueType
    <3>2. due2 = r2 + MaxQuantum * o2 /\ MaxQuantum * o2 \in Nat
      BY <1>1, <3>1, QuantumTimes DEF Due
    <3>3. /\ writer'.read = read_frame /\ writer'.write = write_frame
          /\ writer'.left \in 1 .. MaxQuantum
      BY <2>2, WriterAt
    <3>4. r2 = writer'.write + writer'.left
      BY <2>2, <3>1 DEF Reach
    <3>5. r2 <= due2
      BY <3>2
    <3>6. QED
      BY <1>1, <1>2, <1>3, <3>3, <3>4, <3>5
  <2>3. QED
    BY <2>1, <2>2
<1>7. /\ due2 <= read_frame' + e
      /\ reader'.pc # "idle" => due2 <= reader'.read + e
      /\ writer'.pc = "fill" => writer'.write + writer'.left <= writer'.read + e
      /\ drive'["callback"].pc = "low" =>
           drive'["callback"].read <= read_frame' \/ due2 + MaxQuantum <= read_frame' + e
  BY <1>1, <1>2, <1>3, <1>5, <1>6
<1>8. QED
  BY <1>1, <1>7 DEF Room

\* A caller that finds the level low orders one more cycle: of the main loop's
\* it was due before, and the callback has looked at an index with room for it.
LEMMA DriveRoom ==
  ASSUME NEW c \in Callers, IInv, IInv', PhaseInv, CycleInv, FillInv, Room, DriveSteps(c)
  PROVE  Room'
<1>1. PICK due \in Nat, due2 \in Nat, e \in Nat :
        /\ due = Due /\ due2 = Due' /\ e = Enough /\ e = Enough'
        /\ LowWater + 4 * MaxQuantum <= e
  <2>1. undone' = undone /\ undone \in Nat
    BY CallerAt, LevelTypes
  <2>2. Enough' = Enough /\ Enough \in Nat /\ LowWater + 4 * MaxQuantum <= Enough
    BY <2>1, EnoughType
  <2>3. Due \in Nat /\ Due' \in Nat
    BY LevelTypes, DueType
  <2>4. QED
    BY <2>2, <2>3
<1>2. /\ UNCHANGED <<reader, writer, read_frame>>
      /\ {read_frame, write_frame, reader.read, drive[c].read} \subseteq Nat
      /\ MaxQuantum \in Nat /\ LowWater \in Nat
      /\ \A o \in Callers : o # c => drive'[o] = drive[o]
      /\ drive'[c].pc = "low" => drive'[c].read = read_frame
  BY CallerAt, LevelTypes, Quanta
<1>3. /\ due <= read_frame + e
      /\ reader.pc # "idle" => due <= reader.read + e
      /\ writer.pc = "fill" => writer.write + writer.left <= writer.read + e
      /\ drive["callback"].pc = "low" =>
           drive["callback"].read <= read_frame \/ due + MaxQuantum <= read_frame + e
  BY <1>1 DEF Room
<1>4. SUFFICES
        /\ due2 <= read_frame + e
        /\ reader.pc # "idle" => due2 <= reader.read + e
        /\ drive'["callback"].pc = "low" =>
             drive'["callback"].read <= read_frame \/ due2 + MaxQuantum <= read_frame + e
  BY <1>1, <1>2, <1>3 DEF Room
<1>5. CASE due2 <= due
  <2>1. CASE c = "callback"
    BY <1>2, <1>3, <1>5, <2>1
  <2>2. CASE c = "main"
    <3>1. drive'["callback"] = drive["callback"]
      BY <1>2, <2>2 DEF Callers
    <3>2. QED
      BY <1>2, <1>3, <1>5, <3>1
  <2>3. QED
    BY <2>1, <2>2 DEF Callers
<1>6. CASE /\ c = "callback" /\ drive[c].pc = "low" /\ drive'[c].pc = "claim"
           /\ due2 <= due + MaxQuantum
  <2>1. reader.pc = "idle"
    BY <1>6 DEF PhaseInv
  <2>2. CASE due + MaxQuantum <= read_frame + e
    BY <1>2, <1>6, <2>1, <2>2
  <2>3. CASE drive[c].read <= read_frame
    <3>1. write_frame <= drive[c].read + LowWater
      <4>1. write_frame - drive[c].read <= LowWater
        BY <1>6, CallerAt
      <4>2. QED
        BY <1>2, <4>1
    <3>2. Orders + Busy <= 3
      <4>1. Cycles <= 2 /\ triggered \in Nat /\ Busy \in {0, 1}
        BY LevelTypes DEF CycleInv
      <4>2. /\ At("callback", {"claim", "trigger"}) = 0 /\ At("callback", {"trigger"}) = 0
            /\ At("main", {"trigger"}) \in {0, 1}
        BY <1>6 DEF At
      <4>3. At("main", {"claim", "trigger"}) + MainAsks <= At("main", {"trigger"}) + 1
        BY DEF At, MainAsks, PhaseInv
      <4>4. At("main", {"claim", "trigger"}) \in {0, 1} /\ MainAsks \in {0, 1}
        BY DEF At, MainAsks
      <4>5. QED
        BY <4>1, <4>2, <4>3, <4>4 DEF Cycles, Orders
    <3>3. due <= write_frame + 3 * MaxQuantum
      <4>1. PICK r \in Nat, o \in Nat, b \in {0, 1} : r = Reach /\ o = Orders /\ b = Busy
        BY LevelTypes
      <4>2. due = r + MaxQuantum * o /\ r <= write_frame + MaxQuantum * b
        BY <1>1, <4>1, ReachBound DEF Due
      <4>3. MaxQuantum * o + MaxQuantum * b <= MaxQuantum * 3
        <5>1. o + b \in Nat /\ o + b <= 3
          BY <3>2, <4>1
        <5>2. MaxQuantum * (o + b) <= MaxQuantum * 3
          BY <5>1, QuantumTimes
        <5>3. MaxQuantum * (o + b) = MaxQuantum * o + MaxQuantum * b
          BY <1>2
        <5>4. QED
          BY <5>2, <5>3
      <4>4. PICK p \in Nat, t \in Nat : p = MaxQuantum * o /\ t = MaxQuantum * b
        BY <1>2
      <4>5. MaxQuantum * 3 = 3 * MaxQuantum
        BY <1>2
      <4>6. QED
        BY <1>2, <4>2, <4>3, <4>4, <4>5
    <3>4. due2 <= read_frame + e
      BY <1>1, <1>2, <1>6, <2>3, <3>1, <3>3
    <3>5. QED
      BY <1>6, <2>1, <3>4
  <2>4. QED
    BY <1>3, <1>6, <2>2, <2>3
<1>7. QED
  BY <1>1, <1>5, <1>6, DriveDue

LEMMA ReaderRoom ==
  ASSUME IInv, IInv', PhaseInv, Room, ReaderSteps, ~DriveSteps("callback")
  PROVE  Room'
<1>1. PICK due \in Nat, due2 \in Nat, e \in Nat :
        due = Due /\ due2 = Due' /\ e = Enough /\ e = Enough' /\ due2 <= due
  <2>1. undone' = undone /\ undone \in Nat
    BY ReaderAt, LevelTypes
  <2>2. Enough' = Enough /\ Enough \in Nat
    BY <2>1, EnoughType
  <2>3. Due \in Nat /\ Due' \in Nat /\ Due' <= Due
    BY LevelTypes, DueType, ReaderDue
  <2>4. QED
    BY <2>2, <2>3
<1>2. /\ writer' = writer /\ drive["callback"].pc = "idle"
      /\ {read_frame, reader.read} \subseteq Nat
  BY ReaderAt, LevelTypes
<1>3. \/ /\ reader.pc # "idle" /\ reader'.read >= reader.read /\ reader'.pc # "idle"
         /\ UNCHANGED <<read_frame, drive>>
      \/ /\ reader.pc # "idle" /\ reader'.pc = "idle" /\ read_frame' = reader.read
         /\ drive'["callback"].pc = "enabled"
      \/ reader'.read = read_frame /\ UNCHANGED <<read_frame, drive>>
  BY ReaderAt
<1>4. /\ due <= read_frame + e
      /\ reader.pc # "idle" => due <= reader.read + e
      /\ writer.pc = "fill" => writer.write + writer.left <= writer.read + e
  BY <1>1 DEF Room
<1>5. reader'.read \in Nat
  BY DEF IInv, TypeOK, Readers
<1>6. /\ due2 <= read_frame' + e
      /\ reader'.pc # "idle" => due2 <= reader'.read + e
      /\ drive'["callback"].pc # "low"
  BY <1>1, <1>2, <1>3, <1>4, <1>5
<1>7. QED
  BY <1>1, <1>2, <1>4, <1>6 DEF Room

\* A clear moves every index to one with room for the cycle it will ask for,
\* but for the callback's own copy, which the history counts.
LEMMA MainRoom ==
  ASSUME IInv, IInv', PhaseInv, SeenInv, Room,
         MainSteps \/ StreamStarts \/ StreamPauses, ~DriveSteps("main"),
         undone' \in {undone, undone + 1}
  PROVE  Room'
<1>1. PICK due \in Nat, due2 \in Nat, e \in Nat, e2 \in Nat :
        /\ due = Due /\ due2 = Due' /\ e = Enough /\ e2 = Enough' /\ e <= e2
        /\ LowWater + 4 * MaxQuantum <= e
        /\ undone' = undone + 1 => e2 = e + MaxQuantum
  <2>2. Due \in Nat /\ Due' \in Nat
    BY LevelTypes, DueType
  <2>3. /\ Enough \in Nat /\ Enough' \in Nat /\ Enough <= Enough'
        /\ LowWater + 4 * MaxQuantum <= Enough
        /\ undone' = undone + 1 => Enough' = Enough + MaxQuantum
    BY EnoughGrows
  <2>4. QED
    BY <2>2, <2>3
<1>2. /\ UNCHANGED <<writer, reader>> /\ drive'["callback"] = drive["callback"]
      /\ {read_frame, reader.read, main.seen, writer.read, writer.write, writer.left} \subseteq Nat
      /\ MaxQuantum \in Nat /\ LowWater \in Nat
  <2>1. UNCHANGED <<writer, reader>> /\ drive'["callback"] = drive["callback"]
    BY MainAt
  <2>2. QED
    BY <2>1, LevelTypes, Quanta
<1>3. /\ due <= read_frame + e
      /\ reader.pc # "idle" => due <= reader.read + e
      /\ writer.pc = "fill" => writer.write + writer.left <= writer.read + e
      /\ drive["callback"].pc = "low" =>
           drive["callback"].read <= read_frame \/ due + MaxQuantum <= read_frame + e
  BY <1>1 DEF Room
<1>4. SUFFICES
        /\ due2 <= read_frame' + e2
        /\ reader.pc # "idle" => due2 <= reader.read + e2
        /\ drive["callback"].pc = "low" =>
             drive["callback"].read <= read_frame' \/ due2 + MaxQuantum <= read_frame' + e2
  <2>1. writer.pc = "fill" => writer.write + writer.left <= writer.read + e2
    BY <1>1, <1>2, <1>3
  <2>2. QED
    BY <1>1, <1>2, <2>1 DEF Room
<1>5. CASE due2 <= due /\ main.pc # "clear"
  <2>1. read_frame' = read_frame
    BY <1>5, MainAt
  <2>2. QED
    BY <1>1, <1>2, <1>3, <1>5, <2>1
<1>6. CASE main.pc = "clear"
  <2>1. /\ read_frame' = main.seen /\ due2 <= due + MaxQuantum
        /\ reader.pc # "idle" /\ reader.read < main.seen => undone' = undone + 1
    BY <1>1, <1>2, <1>6, MainAt, MainDue
  <2>2. /\ due <= main.seen + MaxQuantum
        /\ drive["callback"].pc = "low" => due <= main.seen
    <3>1. due + MaxQuantum * At("callback", {"read", "low"}) <= main.seen + MaxQuantum
      BY <1>1, <1>6 DEF SeenInv
    <3>2. /\ At("callback", {"read", "low"}) \in {0, 1}
          /\ drive["callback"].pc = "low" => At("callback", {"read", "low"}) = 1
      BY DEF At
    <3>3. MaxQuantum * 0 = 0 /\ MaxQuantum * 1 = MaxQuantum
      BY Quanta
    <3>4. QED
      BY <1>2, <3>1, <3>2, <3>3
  <2>3. due2 <= main.seen + e2
    BY <1>1, <1>2, <2>1, <2>2
  <2>4. reader.pc # "idle" => due2 <= reader.read + e2
    <3>1. CASE reader.pc # "idle" /\ reader.read < main.seen
      BY <1>1, <1>2, <1>3, <2>1, <3>1
    <3>2. CASE reader.pc # "idle" /\ reader.read >= main.seen
      BY <1>1, <1>2, <2>3, <3>2
    <3>3. QED
      BY <1>2, <3>1, <3>2
  <2>5. drive["callback"].pc = "low" => due2 + MaxQuantum <= main.seen + e2
    BY <1>1, <1>2, <2>1, <2>2
  <2>6. QED
    BY <2>1, <2>3, <2>4, <2>5
<1>7. QED
  BY <1>1, <1>5, <1>6, MainDue

\* A clear that nobody undoes leaves room whatever was before it.
LEMMA ClearRoom ==
  ASSUME IInv, IInv', PhaseInv, SeenInv,
         MainSteps \/ StreamStarts \/ StreamPauses, ~DriveSteps("main"),
         undone' \notin {undone, undone + 1}
  PROVE  Room'
<1>1. /\ main.pc = "clear" /\ writer.pc = "idle" /\ read_frame' = main.seen
      /\ ~(reader.pc # "idle" /\ reader.read < main.seen) /\ undone' = 0
  BY MainAt
<1>2. PICK due \in Nat, due2 \in Nat, e2 \in Nat :
        /\ due = Due /\ due2 = Due' /\ e2 = Enough'
        /\ LowWater + 4 * MaxQuantum <= e2 /\ due2 <= due + MaxQuantum
  <2>1. Due \in Nat /\ Due' \in Nat /\ MaxQuantum \in Nat /\ LowWater \in Nat
    BY LevelTypes, DueType, Quanta
  <2>2. Due' <= Due + MaxQuantum
    BY <1>1, <2>1, MainDue
  <2>3. Enough' = LowWater + 4 * MaxQuantum
    <3>1. Enough' = LowWater + (4 + undone') * MaxQuantum
      BY DEF Enough
    <3>2. QED
      BY <1>1, <3>1
  <2>4. LowWater + 4 * MaxQuantum \in Nat
    BY <2>1
  <2>5. QED
    BY <2>1, <2>2, <2>3, <2>4
<1>3. /\ UNCHANGED <<writer, reader>> /\ drive'["callback"] = drive["callback"]
      /\ {reader.read, main.seen} \subseteq Nat
      /\ MaxQuantum \in Nat /\ LowWater \in Nat
  <2>1. UNCHANGED <<writer, reader>> /\ drive'["callback"] = drive["callback"]
    BY MainAt
  <2>2. QED
    BY <2>1, LevelTypes, Quanta
<1>4. due <= main.seen + MaxQuantum /\ (drive["callback"].pc = "low" => due <= main.seen)
  <2>1. due + MaxQuantum * At("callback", {"read", "low"}) <= main.seen + MaxQuantum
    BY <1>1, <1>2 DEF SeenInv
  <2>2. /\ At("callback", {"read", "low"}) \in {0, 1}
        /\ drive["callback"].pc = "low" => At("callback", {"read", "low"}) = 1
    BY DEF At
  <2>3. MaxQuantum * 0 = 0 /\ MaxQuantum * 1 = MaxQuantum
    BY Quanta
  <2>4. QED
    BY <1>2, <1>3, <2>1, <2>2, <2>3
<1>5. /\ due2 <= main.seen + e2
      /\ reader.pc # "idle" => due2 <= reader.read + e2
      /\ drive["callback"].pc = "low" => due2 + MaxQuantum <= main.seen + e2
  BY <1>1, <1>2, <1>3, <1>4
<1>6. QED
  BY <1>1, <1>2, <1>3, <1>5 DEF Room

LEMMA StepRoom ==
  ASSUME IInv, IInv', PhaseInv, CycleInv, FillInv, SeenInv, RoomInv, Next PROVE RoomInv'
<1> SUFFICES ASSUME ring_frames' >= Enough' PROVE Room'
  BY DEF RoomInv, Room
<1> DEFINE Grows == undone' \in {undone, undone + 1}
<1>1. ring_frames' = ring_frames
  BY WriterAt, CallerAt, ReaderAt, MainAt DEF Next, ReaderSteps, MainSteps, Callers
<1>g. CASE ~Grows
  <2>1. (MainSteps \/ StreamStarts \/ StreamPauses) /\ ~DriveSteps("main")
    BY <1>g, WriterAt, CallerAt, ReaderAt DEF Next, ReaderSteps, Callers
  <2>2. QED
    BY <1>g, <2>1, ClearRoom
<1>2. SUFFICES ASSUME Grows PROVE Room'
  BY <1>g
<1>r. ring_frames >= Enough
  <2>1. PICK e \in Nat, e2 \in Nat : e = Enough /\ e2 = Enough' /\ e <= e2
    BY <1>2, EnoughGrows
  <2>2. ring_frames \in Nat /\ ring_frames >= e2
    BY <1>1, <2>1, LevelTypes
  <2>3. QED
    BY <2>1, <2>2
<1>3. Room
  BY <1>r DEF RoomInv, Room
<1>4. CASE WriterSteps
  BY <1>r, <1>3, <1>4, WriterRoom
<1>5. CASE ReaderSteps
  <2>1. CASE DriveSteps("callback")
    BY <1>3, <2>1, DriveRoom DEF Callers
  <2>2. CASE ~DriveSteps("callback")
    BY <1>3, <1>5, <2>2, ReaderRoom
  <2>3. QED
    BY <2>1, <2>2
<1>6. CASE MainSteps \/ StreamStarts \/ StreamPauses
  <2>1. CASE DriveSteps("main")
    BY <1>3, <2>1, DriveRoom DEF Callers
  <2>2. CASE ~DriveSteps("main")
    BY <1>2, <1>3, <1>6, <2>2, MainRoom
  <2>3. QED
    BY <2>1, <2>2
<1>7. QED
  BY <1>4, <1>5, <1>6 DEF Next

LEMMA StepContent == ASSUME IInv, PhaseInv, FillInv, ContentInv, Next PROVE ContentInv'
<1>0. /\ {writer.write, write_frame, Top} \subseteq Nat
      /\ ring_frames \in Nat \ {0} /\ ring \in [Slots -> Int]
  BY LevelTypes DEF IInv, TypeOK, Top
<1>1. CASE WriteFills
  <2>1. /\ ring' = [ring EXCEPT ![SlotOf(writer.write)] = writer.write]
        /\ writer.pc = "fill" /\ ring_frames' = ring_frames
    BY <1>1 DEF WriteFills
  <2>2. Top = writer.write /\ Top' = writer.write + 1
    <3>1. writer'.write = writer.write + 1 /\ writer'.pc \in {"fill", "publish"}
      BY <1>1 DEF WriteFills, IInv, TypeOK, Writers
    <3>2. QED
      BY <2>1, <3>1 DEF Top
  <2>3. SlotOf(writer.write) \in Slots
    BY <1>0, SlotType DEF IInv, TypeOK
  <2>4. SUFFICES ASSUME NEW frame \in Nat, frame < writer.write + 1,
                        writer.write + 1 <= frame + ring_frames
                 PROVE  ring'[SlotOf(frame)] = frame
    BY <2>1, <2>2 DEF ContentInv, SlotOf
  <2>5. CASE frame = writer.write
    BY <1>0, <2>1, <2>3, <2>5
  <2>6. CASE frame < writer.write
    <3>1. SlotOf(frame) # SlotOf(writer.write)
      BY <1>0, <2>4, <2>6, SlotsApart
    <3>2. ring[SlotOf(frame)] = frame
      BY <1>0, <2>2, <2>4, <2>6 DEF ContentInv
    <3>3. SlotOf(frame) \in Slots
      BY SlotType DEF IInv, TypeOK
    <3>4. QED
      BY <1>0, <2>1, <3>1, <3>2, <3>3
  <2>7. QED
    BY <1>0, <2>4, <2>5, <2>6
<1>2. CASE ~WriteFills
  <2>1. UNCHANGED <<ring, ring_frames>>
    BY <1>2, WriterAt, CallerAt, ReaderAt, MainAt DEF Next, ReaderSteps, MainSteps, Callers
  <2>2. Top' = Top
    <3>1. CASE WriterSteps
      BY <1>2, <3>1, WriterAt DEF Top
    <3>2. CASE ~WriterSteps
      <4>1. UNCHANGED <<writer, write_frame>>
        BY <3>2, CallerAt, ReaderAt, MainAt DEF Next, ReaderSteps, MainSteps, Callers
      <4>2. QED
        BY <4>1 DEF Top
    <3>3. QED
      BY <3>1, <3>2
  <2>3. QED
    BY <2>1, <2>2 DEF ContentInv, SlotOf
<1>3. QED
  BY <1>1, <1>2

LEMMA InitLevel == Init => LevelInv
<1> SUFFICES ASSUME Init PROVE LevelInv
  OBVIOUS
<1>1. /\ drive["callback"].pc = "idle" /\ drive["main"].pc = "idle"
      /\ main.pc = "idle" /\ writer.pc = "idle" /\ reader.pc = "idle"
      /\ read_frame = 0 /\ write_frame = 0 /\ triggered = 0 /\ undone = 0
      /\ ~streaming /\ ~drive_enabled
  BY DEF Init, Callers
<1>2. PhaseInv /\ CycleInv /\ FillInv /\ SeenInv
  BY <1>1 DEF PhaseInv, CycleInv, FillInv, SeenInv, Cycles, Busy, At
<1>3. RoomInv
  <2>1. Reach = 0 /\ Orders = 0
    BY <1>1 DEF Reach, Orders, At, MainAsks
  <2>2. Due = 0
    BY <2>1, Quanta DEF Due
  <2>3. Enough \in Nat
    BY <1>1, EnoughType
  <2>4. QED
    BY <1>1, <2>2, <2>3 DEF RoomInv
<1>4. ContentInv
  BY <1>1 DEF ContentInv, Top
<1>5. QED
  BY <1>2, <1>3, <1>4 DEF LevelInv

LEMMA StepLevel == (IInv /\ LevelInv) /\ [Next]_vars => (IInv /\ LevelInv)'
<1> SUFFICES ASSUME IInv, LevelInv, [Next]_vars PROVE IInv' /\ LevelInv'
  OBVIOUS
<1>1. IInv'
  BY StepIInv
<1>2. CASE Next
  <2>1. PhaseInv /\ CycleInv /\ FillInv /\ SeenInv /\ RoomInv /\ ContentInv
    BY DEF LevelInv
  <2>2. PhaseInv'
    BY <1>2, <2>1, StepPhase
  <2>3. CycleInv'
    BY <1>2, <2>1, StepCycle
  <2>4. FillInv'
    BY <1>2, <2>1, StepFill
  <2>5. SeenInv'
    BY <1>1, <1>2, <2>1, StepSeen
  <2>6. RoomInv'
    BY <1>1, <1>2, <2>1, StepRoom
  <2>7. ContentInv'
    BY <1>2, <2>1, StepContent
  <2>8. QED
    BY <1>1, <2>2, <2>3, <2>4, <2>5, <2>6, <2>7 DEF LevelInv
<1>3. CASE UNCHANGED vars
  BY <1>1, <1>3 DEF LevelInv, PhaseInv, CycleInv, FillInv, SeenInv, RoomInv, ContentInv,
                    vars, atomics, graph, threads, Cycles, Busy, At, Due, Reach, Orders,
                    MainAsks, Enough, Top, SlotOf
<1>4. QED
  BY <1>2, <1>3

LEMMA AlwaysLevel == Spec => [](IInv /\ LevelInv)
<1>1. QED
  BY InitIInv, InitLevel, StepLevel, PTL DEF Spec

\* The trigger level leaves room for what it triggers, however the callback,
\* the cycles and the stream's starts and pauses fall together: no frame is
\* dropped from a ring of that size (Sink::write never moves the read index).
THEOREM RoomKept == Spec => []NothingDropped
<1>1. IInv /\ LevelInv => NothingDropped
  <2> SUFFICES ASSUME IInv, LevelInv, ring_frames >= Enough, writer.pc = "fill"
               PROVE  ~RingFull
    BY DEF NothingDropped
  <2>1. writer.left > 0 /\ writer.write + writer.left <= writer.read + Enough
    BY DEF LevelInv, RoomInv, IInv, FramesLeft
  <2>2. {writer.read, writer.write, writer.left, ring_frames, Enough} \subseteq Nat
    BY LevelTypes, EnoughType, Quanta
  <2>3. QED
    BY <2>1, <2>2 DEF RingFull
<1>2. QED
  BY <1>1, AlwaysLevel, PTL

\* The two threads share a ring of that size without a lock: they are never at
\* one slot, and what the callback copies is the frame it takes it for.
THEOREM Shared == Spec => []SharedSafely
<1>1. IInv /\ LevelInv => SharedSafely
  <2> SUFFICES ASSUME IInv, LevelInv, ring_frames >= Enough
               PROVE  DisjointSlots /\ FramesAsWritten
    BY DEF SharedSafely
  <2>1. /\ {writer.write, writer.left, reader.read, reader.write, write_frame} \subseteq Nat
        /\ {ring_frames, Enough, Top} \subseteq Nat
        /\ ring_frames \in Nat \ {0}
    <3>1. /\ {writer.write, writer.left, reader.read, write_frame} \subseteq Nat
          /\ {ring_frames, undone} \subseteq Nat
          /\ reader \in Readers /\ ring_frames \in Nat \ {0}
      BY LevelTypes, Quanta
    <3>2. reader.write \in Nat
      BY <3>1 DEF Readers
    <3>3. Enough \in Nat
      BY <3>1, EnoughType
    <3>4. QED
      BY <3>1, <3>2, <3>3 DEF Top
  <2>2. ASSUME reader.pc = "copy"
        PROVE  /\ reader.read < Top /\ Top <= reader.read + ring_frames
               /\ writer.pc = "fill" => writer.write < reader.read + ring_frames
    <3>1. reader.read < write_frame
      BY <2>1, <2>2 DEF IInv, IndicesInOrder
    <3>2. write_frame <= Top
      BY DEF IInv, IndicesInOrder
    <3>3. Due <= reader.read + Enough
      BY <2>2 DEF LevelInv, RoomInv
    <3>4. PICK r \in Nat, p \in Nat : r = Reach /\ Due = r + p
      <4>1. Reach \in Nat /\ MaxQuantum * Orders \in Nat
        BY LevelTypes, Quanta
      <4>2. QED
        BY <4>1 DEF Due
    <3>5. Top <= r /\ (writer.pc = "fill" => writer.write < r)
      <4>1. writer.pc = "fill" => writer.left > 0
        BY DEF IInv, FramesLeft
      <4>2. QED
        BY <2>1, <3>4, <4>1 DEF Reach, Top
    <3>6. QED
      BY <2>1, <3>1, <3>2, <3>3, <3>4, <3>5
  <2>3. DisjointSlots
    <3>1. SUFFICES ASSUME writer.pc = "fill", reader.pc = "copy"
                   PROVE  SlotOf(writer.write) # SlotOf(reader.read)
      BY DEF DisjointSlots
    <3>2. reader.read < writer.write /\ writer.write < reader.read + ring_frames
      BY <2>2, <3>1 DEF Top
    <3>3. QED
      BY <2>1, <3>2, SlotsApart
  <2>4. FramesAsWritten
    BY <2>1, <2>2 DEF FramesAsWritten, LevelInv, ContentInv
  <2>5. QED
    BY <2>3, <2>4
<1>2. QED
  BY <1>1, AlwaysLevel, PTL
==============================================================================
