------------------------------ MODULE AudioRing ------------------------------
(***************************************************************************)
(* The ring buffer of localdesktop_pipewire_aaudio_sink.rs and the         *)
(* handshake that keeps it filled.  Three threads share it without a lock: *)
(*                                                                         *)
(*   AAudio's callback reads, and once the ring runs low triggers a cycle  *)
(*   of PipeWire's graph (read, maybe_trigger_process);                    *)
(*   PipeWire's data thread runs the cycle: on_process, write;             *)
(*   PipeWire's main loop changes the stream's state: on_state_changed.    *)
(*                                                                         *)
(* A frame is its number: frame n belongs in slot n % ring_frames. One     *)
(* step is one access to what the threads share, atomic or slot; a local a *)
(* thread is done with is set back to 0.                                   *)
(***************************************************************************)
EXTENDS Integers, FiniteSets

CONSTANTS
  RingSizes,    \* how many frames the ring may have been made for
  LowWater,     \* trigger at or below it: max(pipewire_buffer_frames / 2, 256)
  MaxQuantum,   \* most frames in a buffer of PipeWire's
  MaxCallback,  \* most frames a callback asks for
  MayStarve,    \* dequeue_buffer may find no buffer
  MaxFrames,    \* bound: no cycle begins with more frames written
  MaxStarts     \* bound: times the stream starts

ASSUME SizesType ==
  /\ RingSizes \cup {MaxQuantum, MaxCallback} \subseteq Nat \ {0}
  /\ {LowWater, MaxFrames, MaxStarts} \subseteq Nat
  /\ MayStarve \in BOOLEAN

VARIABLES
  read_frame, write_frame, drive_enabled, process_pending,  \* Sink's atomics
  ring_frames,  \* how many the ring was made for
  ring,       \* which frame each slot holds, -1 before the first
  streaming,  \* PipeWire: the stream's node is running
  starts,     \* how often it was started
  triggered,  \* PipeWire: cycles triggered and not begun
  writer,     \* the data thread in on_process
  reader,     \* the callback's thread in Sink::read
  main,       \* the main loop's thread in on_state_changed
  drive,      \* both callers of maybe_trigger_process: where they are in it
  starved,    \* history: since the stream started, a cycle found no buffer
  undone      \* history: how many clears in a row found a callback in Sink::read
              \* with an index of before them, which it stores back

atomics == <<read_frame, write_frame, drive_enabled, process_pending>>
threads == <<writer, reader, main, drive>>
buffer == <<ring_frames, ring>>
graph == <<streaming, starts, triggered>>
history == <<starved, undone>>
vars == <<atomics, buffer, graph, threads, history>>

Slots == 0 .. ring_frames - 1
SlotOf(frame) == frame % ring_frames
Callers == {"callback", "main"}

Writers == [pc : {"idle", "fill", "publish", "answer"},
            read : Nat, write : Nat, left : 0 .. MaxQuantum]
Readers == [pc : {"idle", "load", "copy", "store"},
            read : Nat, write : Nat, left : 0 .. MaxCallback]
Drives == [pc : {"idle", "enabled", "read", "low", "claim", "trigger"}, read : Nat]
Mains == [pc : {"idle", "load", "clear", "renew", "enable", "disable", "forget"},
          seen : Nat]

TypeOK ==
  /\ read_frame \in Nat /\ write_frame \in Nat
  /\ drive_enabled \in BOOLEAN /\ process_pending \in BOOLEAN
  /\ ring_frames \in RingSizes /\ ring \in [Slots -> Int]
  /\ streaming \in BOOLEAN /\ starts \in 0 .. MaxStarts /\ triggered \in Nat
  /\ writer \in Writers /\ reader \in Readers /\ main \in Mains
  /\ drive \in [Callers -> Drives]
  /\ starved \in BOOLEAN /\ undone \in Nat

Init ==
  /\ read_frame = 0 /\ write_frame = 0
  /\ drive_enabled = FALSE /\ process_pending = FALSE
  /\ ring_frames \in RingSizes /\ ring = [s \in Slots |-> -1]
  /\ streaming = FALSE /\ starts = 0 /\ triggered = 0
  /\ writer = [pc |-> "idle", read |-> 0, write |-> 0, left |-> 0]
  /\ reader = [pc |-> "idle", read |-> 0, write |-> 0, left |-> 0]
  /\ main = [pc |-> "idle", seen |-> 0]
  /\ drive = [c \in Callers |-> [pc |-> "idle", read |-> 0]]
  /\ starved = FALSE /\ undone = 0

-----------------------------------------------------------------------------
(* The data thread: on_process, with Sink::write inlined                    *)

\* Slip: the frames are published before they are in the ring.
ProcessPublishes(n) ==
  /\ streaming /\ triggered > 0 /\ writer.pc = "idle"
  /\ write_frame < MaxFrames
  /\ triggered' = triggered - 1
  /\ writer' = IF n = 0 THEN [writer EXCEPT !.pc = "answer"]
               ELSE [pc |-> "fill", read |-> read_frame, write |-> write_frame, left |-> n]
  /\ write_frame' = write_frame + n
  /\ UNCHANGED <<read_frame, drive_enabled, process_pending, buffer, streaming, starts,
                 reader, main, drive, history>>

\* A cycle with a buffer of n frames.  An empty one skips the write.
Process(n) ==
  /\ streaming /\ triggered > 0 /\ writer.pc = "idle"
  /\ write_frame < MaxFrames
  /\ triggered' = triggered - 1
  /\ writer' = IF n = 0 THEN [writer EXCEPT !.pc = "answer"]
               ELSE [pc |-> "fill", read |-> read_frame, write |-> write_frame, left |-> n]
  /\ UNCHANGED <<atomics, buffer, streaming, starts, reader, main, drive, history>>

\* "out of buffers": an early return, which leaves process_pending set.
ProcessStarves ==
  /\ MayStarve
  /\ streaming /\ triggered > 0 /\ writer.pc = "idle"
  /\ triggered' = triggered - 1
  /\ starved' = TRUE
  /\ UNCHANGED <<atomics, buffer, streaming, starts, threads, undone>>

RingFull == writer.write - writer.read >= ring_frames

\* Drop the oldest frame of a full ring, by moving the reader's index.
WriteMakesRoom ==
  /\ writer.pc = "fill" /\ RingFull
  /\ writer' = [writer EXCEPT !.read = @ + 1]
  /\ read_frame' = writer.read + 1
  /\ UNCHANGED <<write_frame, drive_enabled, process_pending, buffer, graph,
                 reader, main, drive, history>>

WriteFills ==
  /\ writer.pc = "fill" /\ ~RingFull
  /\ ring' = [ring EXCEPT ![SlotOf(writer.write)] = writer.write]
  /\ writer' = [writer EXCEPT !.pc = IF writer.left = 1 THEN "publish" ELSE "fill",
                              !.write = @ + 1, !.left = @ - 1]
  /\ UNCHANGED <<atomics, ring_frames, graph, reader, main, drive, history>>

WritePublishes ==
  /\ writer.pc = "publish"
  /\ write_frame' = writer.write
  /\ writer' = [pc |-> "answer", read |-> 0, write |-> 0, left |-> 0]
  /\ UNCHANGED <<read_frame, drive_enabled, process_pending, buffer, graph,
                 reader, main, drive, history>>

\* Slip: the cycle is not reported as done.
ProcessForgetsAnswer ==
  /\ writer.pc = "answer"
  /\ writer' = [writer EXCEPT !.pc = "idle"]
  /\ UNCHANGED <<atomics, buffer, graph, reader, main, drive, history>>

ProcessAnswers ==
  /\ writer.pc = "answer"
  /\ process_pending' = FALSE
  /\ writer' = [writer EXCEPT !.pc = "idle"]
  /\ UNCHANGED <<read_frame, write_frame, drive_enabled, buffer, graph,
                 reader, main, drive, history>>

-----------------------------------------------------------------------------
(* AAudio's thread: aaudio_data_callback, with Sink::read inlined           *)

\* The callback of n frames; read_frame is loaded first.
Callback(n) ==
  /\ reader.pc = "idle" /\ drive["callback"].pc = "idle"
  /\ reader' = [pc |-> "load", read |-> read_frame, write |-> 0, left |-> n]
  /\ UNCHANGED <<atomics, buffer, graph, writer, main, drive, history>>

ReadLoads ==
  /\ reader.pc = "load"
  /\ reader' = [reader EXCEPT !.pc = IF reader.read < write_frame THEN "copy" ELSE "store",
                              !.write = write_frame]
  /\ UNCHANGED <<atomics, buffer, graph, writer, main, drive, history>>

\* Slip: the copy runs past the frames that are there.
ReadCopiesAlways ==
  /\ reader.pc = "copy"
  /\ reader' = [reader EXCEPT !.pc = IF reader.left = 1 THEN "store" ELSE "copy",
                              !.read = @ + 1, !.left = @ - 1]
  /\ UNCHANGED <<atomics, buffer, graph, writer, main, drive, history>>

\* The next frame of the ring.  What is left to fill once `read < write` fails
\* becomes silence, which moves no index.
ReadCopies ==
  /\ reader.pc = "copy"
  /\ reader' = [reader EXCEPT
       !.pc = IF reader.left = 1 \/ reader.read + 1 >= reader.write THEN "store" ELSE "copy",
       !.read = @ + 1, !.left = @ - 1]
  /\ UNCHANGED <<atomics, buffer, graph, writer, main, drive, history>>

ReadStores ==
  /\ reader.pc = "store"
  /\ read_frame' = reader.read
  /\ reader' = [pc |-> "idle", read |-> 0, write |-> 0, left |-> 0]
  /\ drive' = [drive EXCEPT !["callback"].pc = "enabled"]
  /\ UNCHANGED <<write_frame, drive_enabled, process_pending, buffer, graph,
                 writer, main, history>>

-----------------------------------------------------------------------------
(* maybe_trigger_process, called by the callback and by on_state_changed    *)

Goes(c, pc) == drive' = [drive EXCEPT ![c].pc = pc]

DriveAsksEnabled(c) ==
  /\ drive[c].pc = "enabled"
  /\ Goes(c, IF drive_enabled THEN "read" ELSE "idle")
  /\ UNCHANGED <<atomics, buffer, graph, writer, reader, main, history>>

DriveLoadsRead(c) ==
  /\ drive[c].pc = "read"
  /\ drive' = [drive EXCEPT ![c] = [pc |-> "low", read |-> read_frame]]
  /\ UNCHANGED <<atomics, buffer, graph, writer, reader, main, history>>

\* buffered_frames: saturating_sub, as the read index may be ahead.
DriveAsksLow(c) ==
  /\ drive[c].pc = "low"
  /\ drive' = [drive EXCEPT ![c] =
       [pc |-> IF write_frame - drive[c].read > LowWater THEN "idle" ELSE "claim", read |-> 0]]
  /\ UNCHANGED <<atomics, buffer, graph, writer, reader, main, history>>

\* Slip: a cycle already asked for is asked for again.
DriveClaimsAgain(c) ==
  /\ drive[c].pc = "claim"
  /\ process_pending' = TRUE
  /\ Goes(c, "trigger")
  /\ UNCHANGED <<read_frame, write_frame, drive_enabled, buffer, graph,
                 writer, reader, main, history>>

DriveClaims(c) ==
  /\ drive[c].pc = "claim"
  /\ process_pending' = TRUE
  /\ Goes(c, IF process_pending THEN "idle" ELSE "trigger")
  /\ UNCHANGED <<read_frame, write_frame, drive_enabled, buffer, graph,
                 writer, reader, main, history>>

\* pw_stream_trigger_process: lost on a stream that is not running.
DriveTriggers(c) ==
  /\ drive[c].pc = "trigger"
  /\ triggered' = IF streaming THEN triggered + 1 ELSE triggered
  /\ Goes(c, "idle")
  /\ UNCHANGED <<atomics, buffer, streaming, starts, writer, reader, main, history>>

-----------------------------------------------------------------------------
(* The main loop: on_state_changed, with Sink::clear inlined                *)

MainIdle == main.pc = "idle" /\ drive["main"].pc = "idle"

StreamStarts ==
  /\ MainIdle /\ ~streaming /\ starts < MaxStarts
  /\ streaming' = TRUE /\ starts' = starts + 1
  /\ main' = [main EXCEPT !.pc = "load"]
  /\ starved' = FALSE
  /\ UNCHANGED <<atomics, buffer, triggered, writer, reader, drive, undone>>

ClearLoads ==
  /\ main.pc = "load"
  /\ main' = [pc |-> "clear", seen |-> write_frame]
  /\ UNCHANGED <<atomics, buffer, graph, writer, reader, drive, history>>

ClearStores ==
  /\ main.pc = "clear"
  /\ read_frame' = main.seen
  /\ main' = [pc |-> "renew", seen |-> 0]
  /\ undone' = IF reader.pc # "idle" /\ reader.read < main.seen THEN undone + 1
               ELSE IF writer.pc = "idle" THEN 0 ELSE undone
  /\ UNCHANGED <<write_frame, drive_enabled, process_pending, buffer, graph,
                 writer, reader, drive, starved>>

StartRenews ==
  /\ main.pc = "renew"
  /\ process_pending' = FALSE
  /\ main' = [main EXCEPT !.pc = "enable"]
  /\ UNCHANGED <<read_frame, write_frame, drive_enabled, buffer, graph,
                 writer, reader, drive, history>>

StartEnables ==
  /\ main.pc = "enable"
  /\ drive_enabled' = TRUE
  /\ main' = [main EXCEPT !.pc = "idle"]
  /\ drive' = [drive EXCEPT !["main"].pc = "enabled"]
  /\ UNCHANGED <<read_frame, write_frame, process_pending, buffer, graph,
                 writer, reader, history>>

\* PipeWire takes the node off the data thread before it tells: no cycle runs,
\* and what was triggered is lost.
StreamPauses ==
  /\ MainIdle /\ streaming /\ writer.pc = "idle"
  /\ streaming' = FALSE /\ triggered' = 0
  /\ main' = [main EXCEPT !.pc = "disable"]
  /\ UNCHANGED <<atomics, buffer, starts, writer, reader, drive, history>>

PauseDisables ==
  /\ main.pc = "disable"
  /\ drive_enabled' = FALSE
  /\ main' = [main EXCEPT !.pc = "forget"]
  /\ UNCHANGED <<read_frame, write_frame, process_pending, buffer, graph,
                 writer, reader, drive, history>>

PauseForgets ==
  /\ main.pc = "forget"
  /\ process_pending' = FALSE
  /\ main' = [main EXCEPT !.pc = "idle"]
  /\ UNCHANGED <<read_frame, write_frame, drive_enabled, buffer, graph,
                 writer, reader, drive, history>>

-----------------------------------------------------------------------------
WriterSteps ==
  \/ WriteMakesRoom \/ WriteFills \/ WritePublishes \/ ProcessAnswers
  \/ ProcessStarves
  \/ \E n \in 0 .. MaxQuantum : Process(n)

DriveSteps(c) ==
  \/ DriveAsksEnabled(c) \/ DriveLoadsRead(c) \/ DriveAsksLow(c)
  \/ DriveClaims(c) \/ DriveTriggers(c)

ReaderSteps ==
  \/ ReadLoads \/ ReadCopies \/ ReadStores
  \/ DriveSteps("callback")
  \/ \E n \in 1 .. MaxCallback : Callback(n)

MainSteps ==
  \/ ClearLoads \/ ClearStores \/ StartRenews \/ StartEnables
  \/ PauseDisables \/ PauseForgets
  \/ DriveSteps("main")

Next ==
  \/ WriterSteps \/ ReaderSteps \/ MainSteps
  \/ StreamStarts \/ StreamPauses

\* Callbacks keep coming, PipeWire runs a triggered cycle, and handlers end.
\* The guest starts and stops the stream as it likes.
Fairness == WF_vars(WriterSteps) /\ WF_vars(ReaderSteps) /\ WF_vars(MainSteps)

Spec == Init /\ [][Next]_vars
FairSpec == Spec /\ Fairness

-----------------------------------------------------------------------------
(* Properties *)

\* "The two threads only ever touch disjoint slots" (the comment on Sink):
\* they are never about to access one slot at once.
DisjointSlots ==
  ~ /\ writer.pc = "fill" /\ ~RingFull
    /\ reader.pc = "copy"
    /\ SlotOf(writer.write) = SlotOf(reader.read)

\* `write - read` in Sink::write is on unsigned numbers: the read index, which
\* three threads store to, is never ahead of the writer's.
NeverUnderflows ==
  writer.pc = "fill" => writer.read <= writer.write

\* What the callback copies from a slot is the frame it takes it for: not yet
\* overwritten by a newer one, and not before it is there.
FramesAsWritten ==
  reader.pc = "copy" => ring[SlotOf(reader.read)] = reader.read

\* Frames that can be written before the callback catches up: the trigger
\* level, the cycle it triggers, one more for each caller that finds the level
\* low and claims late, the first after a clear, and one for each clear since
\* the last that a callback did not undo.
Enough == LowWater + (4 + undone) * MaxQuantum

\* A ring with room enough can be shared without a lock: writer and callback
\* keep apart, and the callback gets the frames its indices promise.
SharedSafely ==
  ring_frames >= Enough => DisjointSlots /\ FramesAsWritten

\* The trigger level leaves room for what it triggers: no frame is dropped to
\* make room for another.
NothingDropped ==
  ring_frames >= Enough /\ writer.pc = "fill" => ~RingFull

\* A running stream is asked for cycle after cycle (up to the bound), unless
\* one of them found no buffer.
DriveGoesOn ==
  []<>(~streaming \/ starved \/ writer.pc # "idle" \/ write_frame >= MaxFrames)
=============================================================================
