------------------------------ MODULE Scene2D -------------------------------
(***************************************************************************)
(* The two frame buffers of graphics.cpp and the video output that shows   *)
(* them.  The UI thread draws into one buffer, queues it to be shown at a  *)
(* vertical blank, waits until the output reports the flip by its argument *)
(* and goes on with the other buffer.                                      *)
(*                                                                         *)
(* The video output (sceVideoOut...) is external: a queue of bounded       *)
(* length, a flip per vertical blank in the order of the queue, a status   *)
(* with the argument of the last flip, and one event that stays until it   *)
(* is fetched.  Before the first flip the status holds frame 0 or another. *)
(***************************************************************************)
EXTENDS Naturals, Sequences

CONSTANTS FrameIds,     \* frame numbers are counted modulo this
          FlipQueue,    \* the flips the output queues before it refuses one
          Wild          \* an index of no frame buffer

ASSUME SceneAssumption ==
    FrameIds \in Nat \ {0, 1, 2} /\ FlipQueue \in Nat \ {0} /\ Wild \notin 0 .. 1

VARIABLES active,    \* activeFrameBufferIdx, which no constructor initialises
          frame,     \* frameId_ of the application
          flips,     \* the queue of the output: buffer and argument
          shown,     \* the buffer on the screen, or Wild before the first flip
          flipArg,   \* the argument the output reports
          event      \* a flip event waits in flipQueue

sceneVars == <<active, frame, flips, shown, flipArg, event>>

Buffers == 0 .. 1

SceneInit ==
    /\ active \in Buffers \cup {Wild}
    /\ frame = 0
    /\ flips = <<>>
    /\ shown = Wild
    /\ flipArg \in {0, FrameIds - 1}
    /\ event = FALSE

\* A new process finds an unused output.
SceneReset ==
    /\ active' \in Buffers \cup {Wild}
    /\ frame' = 0
    /\ flips' = <<>>
    /\ shown' = Wild
    /\ flipArg' \in {0, FrameIds - 1}
    /\ event' = FALSE

\* The result of sceVideoOutSubmitFlip() is ignored: a refused flip is not queued.
SubmitFlip(id) ==
    /\ flips' = IF Len(flips) < FlipQueue THEN Append(flips, [buffer |-> active, arg |-> id]) ELSE flips
    /\ UNCHANGED <<active, frame, shown, flipArg, event>>

Flipped(id) == flipArg = id

\* sceKernelWaitEqueue() without a time limit.
WaitEqueue ==
    /\ event
    /\ event' = FALSE
    /\ UNCHANGED <<active, frame, flips, shown, flipArg>>

NextFrame(id) == IF id = FrameIds - 1 THEN 0 ELSE id + 1

\* FrameBufferSwap() and ++frameId_.
FrameBufferSwap ==
    /\ active' = (active + 1) % 2
    /\ frame' = NextFrame(frame)
    /\ UNCHANGED <<flips, shown, flipArg, event>>

\* A vertical blank.
Vblank ==
    /\ flips # <<>>
    /\ shown' = Head(flips).buffer
    /\ flipArg' = Head(flips).arg
    /\ flips' = Tail(flips)
    /\ event' = TRUE
    /\ UNCHANGED <<active, frame>>
=============================================================================
